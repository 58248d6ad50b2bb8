------------------------------- MODULE PRQueue --------------------------------
(***************************************************************************)
(* The in-memory queue of pull requests to synchronise (PRQueue of         *)
(* internal/sync/queue.go): a list in priority order under a mutex, and    *)
(* Process loops that take ready items and put failed ones back with a     *)
(* backoff, while others enqueue.  Time is in minutes.                     *)
(***************************************************************************)
EXTENDS Naturals, Sequences, SequencesExt, FiniteSets, FiniteSetsExt

CONSTANTS Items,        \* what may be enqueued: pull requests, each once
          Priority,     \* the priority of every item
          Loops,        \* goroutines inside Process
          MinBackoff,   \* 5 in the code
          MaxBackoff,   \* 30 in the code
          MaxAttempts,  \* bound on the failures of an item
          MaxMinutes    \* bound on the clock

ASSUME PRQueueAssumption ==
    /\ Priority \in [Items -> Nat]
    /\ MinBackoff \in Nat /\ MaxBackoff \in Nat /\ MaxAttempts \in Nat /\ MaxMinutes \in Nat

VARIABLES minute,
          items,   \* the list, first to process first
          tried,   \* Attempts of every item
          next,    \* NextAttempt of every item
          busy,    \* the item a loop works on, {} for none
          done     \* the items that were processed

queueVars == <<minute, items, tried, next, busy, done>>

\* Mutant: a new item goes to the end, whatever its priority.
InsertedLast(i) == Append(items, i)

\* Behind everything of at least the same priority.
Inserted(i) ==
    LET lower == {k \in DOMAIN items : Priority[i] > Priority[items[k]]}
        at    == IF lower = {} THEN Len(items) + 1 ELSE Min(lower)
    IN  InsertAt(items, at, i)

Seen == ToSet(items) \cup done \cup UNION {busy[l] : l \in Loops}

EnqueuePR(i) ==
    /\ i \notin Seen
    /\ items' = Inserted(i)
    /\ UNCHANGED <<minute, tried, next, busy, done>>

\* The first item whose time has come.
DequeuePR(l) ==
    /\ busy[l] = {}
    /\ LET ready == {k \in DOMAIN items : next[items[k]] <= minute}
       IN  /\ ready # {}
           /\ busy' = [busy EXCEPT ![l] = {items[Min(ready)]}]
           /\ items' = RemoveAt(items, Min(ready))
    /\ UNCHANGED <<minute, tried, next, done>>

Processed(l, i) ==
    /\ i \in busy[l]
    /\ busy' = [busy EXCEPT ![l] = {}]
    /\ done' = done \cup {i}
    /\ UNCHANGED <<minute, items, tried, next>>

\* A rate limit waits the same time whenever it hits; any other error twice
\* as long each time, up to the maximum.
Backoff(n) == Min({2 ^ n, MaxBackoff})

Requeue(l, i, wait) ==
    /\ i \in busy[l] /\ tried[i] < MaxAttempts
    /\ tried' = [tried EXCEPT ![i] = @ + 1]
    /\ next' = [next EXCEPT ![i] = minute + wait]
    /\ items' = Inserted(i)
    /\ busy' = [busy EXCEPT ![l] = {}]
    /\ UNCHANGED <<minute, done>>

RateLimited(l, i) == Requeue(l, i, MinBackoff)
Failed(l, i)      == Requeue(l, i, Backoff(tried[i] + 1))

MinutePasses ==
    /\ minute < MaxMinutes
    /\ minute' = minute + 1
    /\ UNCHANGED <<items, tried, next, busy, done>>

PRQueueInit ==
    /\ minute = 0 /\ items = <<>> /\ done = {}
    /\ tried = [i \in Items |-> 0] /\ next = [i \in Items |-> 0]
    /\ busy = [l \in Loops |-> {}]

PRQueueNext ==
    \/ \E i \in Items : EnqueuePR(i)
    \/ \E l \in Loops : DequeuePR(l)
    \/ \E l \in Loops, i \in Items : Processed(l, i) \/ RateLimited(l, i) \/ Failed(l, i)
    \/ MinutePasses

-----------------------------------------------------------------------------
\* A failed item neither overtakes nor blocks: what a loop takes is the item
\* of the highest priority among those whose backoff is over.
ServedInOrder ==
    [][\A l \in Loops, i \in Items :
          i \in busy'[l] \ busy[l] =>
              /\ next[i] <= minute
              /\ \A j \in ToSet(items) : next[j] <= minute => Priority[j] <= Priority[i]]_queueVars
=============================================================================
