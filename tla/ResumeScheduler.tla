--------------------------- MODULE ResumeScheduler ----------------------------
(***************************************************************************)
(* The life cycle of the resume scheduler (internal/sync/scheduler.go):    *)
(* Start makes a goroutine that checks for paused jobs, Stop takes its     *)
(* handles under the mutex, cancels it and waits until it has ended, and   *)
(* the goroutine clears the same handles when it ends.  What a check does  *)
(* is SchedulerLists and SchedulerResumes of module SyncJobs.              *)
(***************************************************************************)
EXTENDS Naturals, FiniteSets

CONSTANTS Callers,    \* goroutines that call Start and Stop, one in the code
          MaxStarts   \* bound on calls of Start that succeed

ASSUME SchedulerAssumption == MaxStarts \in Nat

VARIABLES running, handle,  \* the flag, and the goroutine cancel and done belong to
          loops,            \* the state of every goroutine that was started
          started,
          caller            \* what every caller waits for

schedVars == <<running, handle, loops, started, caller>>

SchedulerStart(c) ==
    /\ caller[c] = 0 /\ ~running /\ started < MaxStarts
    /\ started' = started + 1
    /\ running' = TRUE
    /\ handle' = started + 1
    /\ loops' = [loops EXCEPT ![started + 1] = "checks"]
    /\ UNCHANGED caller

\* Mutant: Stop does not wait for the goroutine.
SchedulerStopUnwaited(c) ==
    /\ caller[c] = 0 /\ running
    /\ running' = FALSE
    /\ handle' = 0
    /\ loops' = [loops EXCEPT ![handle] = IF @ = "checks" THEN "canceled" ELSE @]
    /\ UNCHANGED <<started, caller>>

\* Stop clears the state, cancels and then waits for done to be closed.
SchedulerStop(c) ==
    /\ caller[c] = 0 /\ running
    /\ running' = FALSE
    /\ handle' = 0
    /\ loops' = [loops EXCEPT ![handle] = IF @ = "checks" THEN "canceled" ELSE @]
    /\ caller' = [caller EXCEPT ![c] = handle]
    /\ UNCHANGED started

StopReturns(c) ==
    /\ caller[c] # 0 /\ loops[caller[c]] = "done"
    /\ caller' = [caller EXCEPT ![c] = 0]
    /\ UNCHANGED <<running, handle, loops, started>>

\* The context the scheduler was started with may end as well.
ContextEnds(g) ==
    /\ loops[g] = "checks"
    /\ loops' = [loops EXCEPT ![g] = "canceled"]
    /\ UNCHANGED <<running, handle, started, caller>>

\* The deferred functions, last first: the state is cleared, whoever's it
\* is by now, and then done is closed.
LoopClears(g) ==
    /\ loops[g] = "canceled"
    /\ running' = FALSE /\ handle' = 0
    /\ loops' = [loops EXCEPT ![g] = "cleared"]
    /\ UNCHANGED <<started, caller>>

LoopEnds(g) ==
    /\ loops[g] = "cleared"
    /\ loops' = [loops EXCEPT ![g] = "done"]
    /\ UNCHANGED <<running, handle, started, caller>>

SchedulerInit ==
    /\ running = FALSE /\ handle = 0 /\ started = 0
    /\ loops = [g \in 1..MaxStarts |-> "none"]
    /\ caller = [c \in Callers |-> 0]

SchedulerNext ==
    \/ \E c \in Callers : SchedulerStart(c) \/ SchedulerStop(c) \/ StopReturns(c)
    \/ \E g \in 1..MaxStarts : ContextEnds(g) \/ LoopClears(g) \/ LoopEnds(g)

-----------------------------------------------------------------------------
\* A goroutine that checks is one that Stop can reach: a late clean-up of an
\* earlier one never takes away its handles, and no two check at once.
CheckingIsStoppable ==
    \A g \in 1..MaxStarts : loops[g] = "checks" => running /\ handle = g
=============================================================================
