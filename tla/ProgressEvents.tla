---------------------------- MODULE ProgressEvents ----------------------------
(***************************************************************************)
(* The progress events of a repository's sync (Manager, internal/sync/     *)
(* sse.go): Start runs the runner in a goroutine unless one runs, publish  *)
(* keeps every event of the run and hands it to the subscribers' channels  *)
(* without waiting for them, and Stream replays what it missed and then    *)
(* writes what its channel delivers.                                       *)
(***************************************************************************)
EXTENDS Naturals, Sequences, SequencesExt

CONSTANTS Streams,    \* requests that stream the repository
          Capacity,   \* of a subscriber's channel, 16 in the code
          MaxEvents,  \* bound on the events published
          MaxRuns

ASSUME EventsAssumption == Capacity \in Nat \ {0} /\ MaxEvents \in Nat /\ MaxRuns \in Nat

VARIABLES goroutine,  \* "none", "runs" or "ended": the last event is out, the flag is still up
          pending,    \* the events of the last run
          published,  \* all events ever published (a history variable)
          runs,
          stream      \* for every request: on, replay and channel, written; first event due

eventVars == <<goroutine, pending, published, runs, stream>>

Off == [on |-> FALSE, chan |-> <<>>, written |-> <<>>, due |-> 1, lost |-> FALSE]

Event == Len(published) + 1

StartRun ==
    /\ goroutine = "none" /\ runs < MaxRuns
    /\ goroutine' = "runs"
    /\ runs' = runs + 1
    /\ pending' = <<>>
    /\ UNCHANGED <<published, stream>>

\* A full channel loses the event.
Offer(s) ==
    IF ~s.on THEN s
    ELSE IF Len(s.chan) < Capacity THEN [s EXCEPT !.chan = Append(@, Event)]
    ELSE [s EXCEPT !.lost = TRUE]

Publish(last) ==
    /\ goroutine = "runs" /\ Len(published) < MaxEvents
    /\ pending' = Append(pending, Event)
    /\ published' = Append(published, Event)
    /\ stream' = [r \in Streams |-> Offer(stream[r])]
    /\ goroutine' = IF last THEN "ended" ELSE "runs"
    /\ UNCHANGED runs

\* A Start between the last event and this step is taken for one of the run
\* that is over.
RunEnds ==
    /\ goroutine = "ended"
    /\ goroutine' = "none"
    /\ UNCHANGED <<pending, published, runs, stream>>

\* Mutant: the events before the subscription are not replayed.
SubscribeUnreplayed(r) ==
    /\ ~stream[r].on
    /\ stream' = [stream EXCEPT ![r] =
                    [Off EXCEPT !.on = TRUE, !.due = Len(published) - Len(pending) + 1]]
    /\ UNCHANGED <<goroutine, pending, published, runs>>

\* The channel is registered and the events so far are copied in one step
\* under the mutex; the copy is written before anything from the channel.
Subscribe(r) ==
    /\ ~stream[r].on
    /\ stream' = [stream EXCEPT ![r] =
                    [Off EXCEPT !.on = TRUE, !.written = pending,
                                !.due = Len(published) - Len(pending) + 1]]
    /\ UNCHANGED <<goroutine, pending, published, runs>>

WriteEvent(r) ==
    /\ stream[r].on /\ stream[r].chan # <<>>
    /\ stream' = [stream EXCEPT ![r].written = Append(@, Head(stream[r].chan)),
                                ![r].chan = Tail(@)]
    /\ UNCHANGED <<goroutine, pending, published, runs>>

Unsubscribe(r) ==
    /\ stream[r].on
    /\ stream' = [stream EXCEPT ![r] = Off]
    /\ UNCHANGED <<goroutine, pending, published, runs>>

EventsInit ==
    /\ goroutine = "none" /\ pending = <<>> /\ published = <<>> /\ runs = 0
    /\ stream = [r \in Streams |-> Off]

EventsNext ==
    \/ StartRun \/ Publish(TRUE) \/ Publish(FALSE) \/ RunEnds
    \/ \E r \in Streams : Subscribe(r) \/ WriteEvent(r) \/ Unsubscribe(r)

-----------------------------------------------------------------------------
\* What a stream has written and has waiting are the events since the run
\* it joined began, each once and in order, whenever it joined; only a full
\* channel leaves some out, and never changes their order.
StreamsInOrder ==
    \A r \in Streams : stream[r].on =>
        LET got == stream[r].written \o stream[r].chan
            all == SubSeq(published, stream[r].due, Len(published))
        IN  IF stream[r].lost
            THEN \A i, j \in DOMAIN got : i < j => got[i] < got[j]
            ELSE got = all
=============================================================================
