----------------------------- MODULE Broadcaster -----------------------------
(***************************************************************************)
(* The monitor's Broadcaster (internal/monitor/data) and what listens to   *)
(* it: one goroutine polls the store and hands what changed, told by a     *)
(* hash, to the subscribers' channels without waiting for them; a new      *)
(* action plan is handed on by a goroutine of its own; Stop waits for both *)
(* and closes the channels.  A subscriber is the screen of the monitor     *)
(* command or a WebSocket request.                                         *)
(***************************************************************************)
EXTENDS Naturals, Sequences, SequencesExt, FiniteSets

CONSTANTS Screens,      \* the terminal screen, which forwards what it gets
          Sockets,      \* WebSocket requests
          SyncingJobs,  \* sync jobs the store may list
          JobViews,     \* views a job may have, of status and progress
          Polled,       \* the sources that change
          ChannelCapacity,  \* of every channel, 64 in the code
          MaxChanges,   \* bound on the changes of the sources
          MaxActionPlans,   \* bound on the action plans set
          MaxOpenings   \* bound on the calls of Start

ASSUME BroadcasterAssumption ==
    /\ Screens \cap Sockets = {}
    /\ ChannelCapacity \in Nat \ {0} /\ MaxChanges \in Nat
    /\ MaxActionPlans \in Nat /\ MaxOpenings \in Nat

VARIABLES source,    \* what the store and GitHub would answer now
          changes,
          actionPlan, \* the number of the plan set last, 0 for none
          loop,      \* the polling goroutine: on, told to stop, last hashes
          sender,    \* broadcasts: by the loop (0) or for an action plan
          pendingSends, \* the WaitGroup
          owner,     \* the command that starts and stops: what it waits for
          openings,
          taken,     \* the subscribers Stop took out of the map
          chan,      \* the channel of every subscriber
          held,      \* the screen's own channel
          shown,     \* the jobs view a subscriber shows
          panicked   \* who sent on a closed channel

monitorVars == <<source, changes, actionPlan, loop, sender, pendingSends, owner, openings, taken,
                 chan, held, shown, panicked>>

Subscribers == Screens \union Sockets
Sources     == {"jobs", "rateLimit", "timeline", "actionPlan", "executor"}
NoView      == [status |-> "none", progress |-> 0]
NoJobs      == [j \in SyncingJobs |-> NoView]

\* The hash of the jobs is the exclusive or of the characters of their ids
\* and statuses: what occurs twice is not there.  Their progress is not in
\* it.  The other hashes are taken to tell all values apart.
HashJobs(jobs) ==
    [ids      |-> {j \in SyncingJobs : jobs[j] # NoView},
     statuses |-> {s \in {v.status : v \in JobViews} :
                      Cardinality({j \in SyncingJobs : jobs[j].status = s}) % 2 = 1}]

Current(s) == IF s = "jobs" THEN HashJobs(source.jobs)
              ELSE IF s = "actionPlan" THEN actionPlan ELSE source.other[s]

NoHashes == [s \in Sources |-> IF s = "jobs" THEN HashJobs(NoJobs) ELSE 0]

Silent == [at |-> "none", todo |-> {}, jobs |-> NoJobs]
Unopened == [state |-> "absent", listed |-> FALSE, flagged |-> FALSE, buf |-> <<>>]

MonitorInit ==
    /\ source = [jobs |-> NoJobs, other |-> [s \in {"rateLimit", "timeline", "executor"} |-> 0]]
    /\ changes = 0 /\ actionPlan = 0
    /\ loop = [on |-> FALSE, stop |-> FALSE, last |-> NoHashes]
    /\ sender = [p \in 0..MaxActionPlans |-> Silent]
    /\ pendingSends = 0 /\ owner = "idle" /\ openings = 0 /\ taken = {}
    /\ chan = [v \in Subscribers |-> Unopened]
    /\ held = [v \in Screens |-> <<>>]
    /\ shown = [v \in Subscribers |-> NoJobs]
    /\ panicked = "nobody"

Listed == {v \in Subscribers : chan[v].listed}

-----------------------------------------------------------------------------
(* What is polled. *)

ChangeJobs ==
    /\ changes < MaxChanges /\ "jobs" \in Polled
    /\ \E jobs \in [SyncingJobs -> JobViews \union {NoView}] :
          jobs # source.jobs /\ source' = [source EXCEPT !.jobs = jobs]
    /\ changes' = changes + 1
    /\ UNCHANGED <<actionPlan, loop, sender, pendingSends, owner, openings, taken, chan, held,
                   shown, panicked>>

ChangeOther(s) ==
    /\ changes < MaxChanges /\ s \in Polled
    /\ source' = [source EXCEPT !.other[s] = @ + 1]
    /\ changes' = changes + 1
    /\ UNCHANGED <<actionPlan, loop, sender, pendingSends, owner, openings, taken, chan, held,
                   shown, panicked>>

\* SetActionPlan with a plan of another hash: the plan is stored, and a
\* goroutine of its own hands it on.
SetActionPlan ==
    /\ actionPlan < MaxActionPlans
    /\ actionPlan' = actionPlan + 1
    /\ sender' = [sender EXCEPT ![actionPlan + 1] = [Silent EXCEPT !.at = "copy"]]
    /\ UNCHANGED <<source, changes, loop, pendingSends, owner, openings, taken, chan, held, shown,
                   panicked>>

-----------------------------------------------------------------------------
(* The polling goroutine. *)

\* A hash that differs is remembered and handed on, but for two sources only
\* when there is a subscriber at that time.
Poll(s) ==
    /\ loop.on /\ sender[0].at = "none"
    /\ Current(s) # loop.last[s]
    /\ s = "actionPlan" => actionPlan # 0
    /\ loop' = [loop EXCEPT !.last[s] = Current(s)]
    /\ sender' = IF s \in {"rateLimit", "executor"} /\ Listed = {} THEN sender
                 ELSE [sender EXCEPT ![0] =
                          [at |-> "copy", todo |-> {},
                           jobs |-> IF s = "jobs" THEN source.jobs ELSE NoJobs]]
    /\ UNCHANGED <<source, changes, actionPlan, pendingSends, owner, openings, taken, chan, held,
                   shown, panicked>>

\* The stop channel is closed, or the command's context is cancelled.
LoopReturns(cancelled) ==
    /\ loop.on /\ sender[0].at = "none"
    /\ loop.stop \/ cancelled
    /\ loop' = [loop EXCEPT !.on = FALSE]
    /\ UNCHANGED <<source, changes, actionPlan, sender, pendingSends, owner, openings, taken, chan,
                   held, shown, panicked>>

-----------------------------------------------------------------------------
(* broadcast: copy the subscribers under the mutex, count oneself in, send. *)

CopySubscribers(p) ==
    /\ sender[p].at = "copy"
    /\ sender' = [sender EXCEPT ![p].at = "count", ![p].todo = Listed]
    /\ UNCHANGED <<source, changes, actionPlan, loop, pendingSends, owner, openings, taken, chan,
                   held, shown, panicked>>

CountIn(p) ==
    /\ sender[p].at = "count"
    /\ pendingSends' = pendingSends + 1
    /\ sender' = [sender EXCEPT ![p].at = "send"]
    /\ UNCHANGED <<source, changes, actionPlan, loop, owner, openings, taken, chan, held, shown,
                   panicked>>

\* One subscriber: nothing if it left, a panic if its channel is closed, and
\* the update is dropped when its channel is full.
SendUpdate(p, v) ==
    /\ sender[p].at = "send" /\ v \in sender[p].todo
    /\ sender' = [sender EXCEPT ![p].todo = @ \ {v}]
    /\ \/ chan[v].flagged /\ UNCHANGED <<chan, panicked>>
       \/ /\ ~chan[v].flagged /\ chan[v].state = "closed"
          /\ panicked' = IF p = 0 THEN "loop" ELSE "plan"
          /\ UNCHANGED chan
       \/ /\ ~chan[v].flagged /\ chan[v].state = "open"
          /\ chan' = IF Len(chan[v].buf) < ChannelCapacity
                     THEN [chan EXCEPT ![v].buf = Append(@, sender[p].jobs)] ELSE chan
          /\ UNCHANGED panicked
    /\ UNCHANGED <<source, changes, actionPlan, loop, pendingSends, owner, openings, taken, held,
                   shown>>

CountOut(p) ==
    /\ sender[p].at = "send" /\ sender[p].todo = {}
    /\ pendingSends' = pendingSends - 1
    /\ sender' = [sender EXCEPT ![p] = Silent]
    /\ UNCHANGED <<source, changes, actionPlan, loop, owner, openings, taken, chan, held, shown,
                   panicked>>

-----------------------------------------------------------------------------
(* Start and Stop, by one caller (cmd/monitor.go). *)

Start ==
    /\ owner = "idle" /\ openings < MaxOpenings
    /\ loop' = [on |-> TRUE, stop |-> FALSE, last |-> NoHashes]
    /\ owner' = "started" /\ openings' = openings + 1
    /\ UNCHANGED <<source, changes, actionPlan, sender, pendingSends, taken, chan, held, shown,
                   panicked>>

Stop ==
    /\ owner = "started"
    /\ loop' = [loop EXCEPT !.stop = TRUE]
    /\ taken' = Listed
    /\ chan' = [v \in Subscribers |-> [chan[v] EXCEPT !.listed = FALSE]]
    /\ owner' = "loop"
    /\ UNCHANGED <<source, changes, actionPlan, sender, pendingSends, openings, held, shown, panicked>>

\* Mutant: Stop does not wait for the goroutine it has told to end.
LoopEndedUnwaited == TRUE

LoopEnded == ~loop.on

AwaitLoop ==
    /\ owner = "loop" /\ LoopEnded
    /\ owner' = "sends"
    /\ UNCHANGED <<source, changes, actionPlan, loop, sender, pendingSends, openings, taken, chan,
                   held, shown, panicked>>

AwaitSends ==
    /\ owner = "sends" /\ pendingSends = 0
    /\ chan' = [v \in Subscribers |-> IF v \in taken THEN [chan[v] EXCEPT !.state = "closed"]
                                      ELSE chan[v]]
    /\ taken' = {} /\ owner' = "idle"
    /\ UNCHANGED <<source, changes, actionPlan, loop, sender, pendingSends, openings, held, shown,
                   panicked>>

-----------------------------------------------------------------------------
(* Those who listen. *)

SubscribeTo(v) ==
    /\ chan[v].state = "absent"
    /\ chan' = [chan EXCEPT ![v].state = "open", ![v].listed = TRUE]
    /\ UNCHANGED <<source, changes, actionPlan, loop, sender, pendingSends, owner, openings, taken,
                   held, shown, panicked>>

\* A WebSocket request writes what it receives, until a write fails or its
\* channel is closed; then it unsubscribes and drains the channel.
WriteMessage(v) ==
    /\ v \in Sockets /\ chan[v].buf # <<>>
    /\ shown' = [shown EXCEPT ![v] = Head(chan[v].buf)]
    /\ chan' = [chan EXCEPT ![v].buf = Tail(@)]
    /\ UNCHANGED <<source, changes, actionPlan, loop, sender, pendingSends, owner, openings, taken,
                   held, panicked>>

UnsubscribeFrom(v) ==
    /\ v \in Sockets
    /\ chan[v].buf # <<>> \/ chan[v].state = "closed"
    /\ ~(chan[v].flagged /\ chan[v].buf = <<>>)
    /\ chan' = [chan EXCEPT ![v].listed = FALSE, ![v].buf = <<>>,
                            ![v].flagged = @ \/ chan[v].listed]
    /\ UNCHANGED <<source, changes, actionPlan, loop, sender, pendingSends, owner, openings, taken,
                   held, shown, panicked>>

\* receiveUpdates: the screen moves what it gets to a channel of its own,
\* and waits when that is full.  No command of the program reads from it.
ReceiveUpdates(v) ==
    /\ v \in Screens /\ chan[v].buf # <<>> /\ Len(held[v]) < ChannelCapacity
    /\ held' = [held EXCEPT ![v] = Append(@, Head(chan[v].buf))]
    /\ chan' = [chan EXCEPT ![v].buf = Tail(@)]
    /\ UNCHANGED <<source, changes, actionPlan, loop, sender, pendingSends, owner, openings, taken,
                   shown, panicked>>

MonitorNext ==
    /\ panicked = "nobody"
    /\ \/ ChangeJobs \/ SetActionPlan \/ Start \/ Stop \/ AwaitLoop \/ AwaitSends
       \/ \E s \in {"rateLimit", "timeline", "executor"} : ChangeOther(s)
       \/ \E s \in Sources : Poll(s)
       \/ \E cancelled \in BOOLEAN : LoopReturns(cancelled)
       \/ \E p \in 0..MaxActionPlans :
             CopySubscribers(p) \/ CountIn(p) \/ CountOut(p) \/ \E v \in Subscribers : SendUpdate(p, v)
       \/ \E v \in Subscribers : SubscribeTo(v) \/ WriteMessage(v) \/ UnsubscribeFrom(v)
                                 \/ ReceiveUpdates(v)

\* The polls, the broadcasts and those who listen keep going.
MonitorFairness ==
    /\ \A s \in Sources : WF_monitorVars(Poll(s))
    /\ \A p \in 0..MaxActionPlans :
          WF_monitorVars(CopySubscribers(p) \/ CountIn(p) \/ CountOut(p)
                         \/ \E v \in Subscribers : SendUpdate(p, v))
    /\ \A v \in Subscribers : WF_monitorVars(WriteMessage(v)) /\ WF_monitorVars(ReceiveUpdates(v))

-----------------------------------------------------------------------------
\* A poll never sends on a channel that Stop has closed, although it took
\* its copy of the subscribers before Stop did and counts itself in after
\* that: Stop waits for the loop before it waits for the count
\* (broadcaster.go:104-129, 324-344).
PollsHitOpenChannels == panicked # "loop"

\* Nobody does.
NobodyPanics == panicked = "nobody"

\* What the jobs are is shown, by a subscriber that stays, unless they
\* change again or the monitor stops.
JobsAreShown ==
    \A v \in Subscribers : \A jobs \in [SyncingJobs -> JobViews] :
        (chan[v].listed /\ loop.on /\ source.jobs = jobs)
            ~> (shown[v] = jobs \/ source.jobs # jobs \/ ~chan[v].listed \/ ~loop.on)
=============================================================================
