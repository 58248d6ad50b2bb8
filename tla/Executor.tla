------------------------------ MODULE Executor ------------------------------
(***************************************************************************)
(* The live executor of `pratc serve --live' (internal/executor): worker   *)
(* goroutines that share one worker id, take items from the work queue,    *)
(* pass the breaker, and write to GitHub what the stored intents ask for.  *)
(* The ledger is what they remember of it across restarts.  The queue's    *)
(* other clients are the HTTP agents and whoever enqueues action plans.    *)
(*                                                                         *)
(* Every call to the queue, the ledger or GitHub is a step of its own,     *)
(* except that writes nobody reads back (the ledger rows "proposed",       *)
(* "preflighted", "failed" and "circuit_denied") are left out.             *)
(***************************************************************************)
EXTENDS WorkQueue

CONSTANTS
    Threads,     \* the goroutines of Worker.Run
    Servers,     \* worker ids `pratc serve' gives itself, one per start
    Intents,     \* ids of action intents; the idempotency key is one to one
    ItemOf,      \* the work item of each intent
    ActionOf,    \* what each intent does
    Plans,       \* the dry_run and policy_profile an intent may be stored with
    Batches,     \* the sets of intents a plan may hold for an item
    Live,        \* WorkerConfig.Live
    MaxGlobal,   \* the breaker's limit; one repo, so the smaller of the two
    ReadsFail,   \* whether a read of the database may fail
    MaxPlans,    \* the bound on action plans enqueued
    MaxLanded,   \* the bound on writes of one intent that GitHub performs
    NoThread

ASSUME ExecutorAssumption ==
    /\ Servers \subseteq Workers
    /\ ItemOf \in [Intents -> Items]
    /\ ActionOf \in [Intents -> {"comment", "label", "request_changes", "merge",
                                 "close", "apply_fix"}]
    /\ Plans \subseteq [dry : BOOLEAN, policy : {"advisory", "guarded", "autonomous"}]
    /\ Batches \subseteq SUBSET Intents
    /\ Live \in BOOLEAN /\ ReadsFail \in BOOLEAN
    /\ MaxGlobal \in Nat \ {0} /\ MaxPlans \in Nat /\ MaxLanded \in Nat
    /\ NoThread \notin Threads
    /\ IsFiniteSet(Threads)

VARIABLES
    th,       \* what each goroutine is doing
    self,     \* the worker id of this start of the server
    holder,   \* the goroutine that waits for the call that holds mu
    stored,   \* action_intents: the plan each intent was stored with
    writing,  \* the intents EnqueueActionPlan has yet to store
    plans,    \* plans enqueued so far
    ledger,   \* the "executed" row of each intent and its dry_run field
    inFlight, \* MutationCircuitBreaker.global
    pr,       \* GitHub: the state of each item's pull request
    landed,   \* GitHub: how often it performed each intent's write
    granted   \* history: intents some stored plan allowed to write

tables == <<stored, writing, plans, granted>>
github == <<pr, landed>>
execVars == <<th, self, holder, stored, writing, plans, ledger, inFlight, pr,
              landed, granted>>
allVars == <<queueVars, execVars>>

-----------------------------------------------------------------------------
(* Values *)

Agents == Workers \ Servers

NoPlan == [dry |-> TRUE, policy |-> "none"]

NoSnap == [id |-> "none", dry |-> TRUE, policy |-> "none"]

\* An intent as GetIntentsForWorkItem returned it.
Snaps == [id : Intents, dry : BOOLEAN,
          policy : {"advisory", "guarded", "autonomous"}]

\* At the top of the loop of Run: nothing claimed, nothing remembered.
Resting == [pc |-> "poll", item |-> NoItem, batch |-> {}, left |-> {},
            cur |-> NoSnap, at |-> "none"]

Stopped == [Resting EXCEPT !.pc = "stopped"]

\* Between Acquire (or the decision that none is needed) and release.
Inside == {"check", "probe", "clear", "write", "shut", "verify", "record"}

ExecTypeOK ==
    /\ TypeOK
    /\ th \in [Threads ->
          [pc : {"poll", "list", "claim", "load", "next", "fail", "deny",
                 "advance", "stopped"} \cup Inside,
           item : Items \cup {NoItem},
           batch : SUBSET Snaps, left : SUBSET Snaps,
           cur : Snaps \cup {NoSnap},
           at : States \cup {"none"}]]
    /\ self \in Servers
    /\ holder \in Threads \cup {NoThread}
    /\ stored \in [Intents -> Plans \cup {NoPlan}]
    /\ writing \in [Intents -> Plans \cup {NoPlan}]
    /\ plans \in 0 .. MaxPlans
    /\ ledger \in [Intents -> {"none", "dry", "live"}]
    /\ inFlight \in Nat
    /\ pr \in [Items -> {"open", "merged", "closed"}]
    /\ landed \in [Intents -> 0 .. MaxLanded]
    /\ granted \subseteq Intents

-----------------------------------------------------------------------------
(* Decisions *)

LiveWrite(x) == Live /\ ~x.dry

\* Mutant: a guarded plan may merge.
PolicyAllowsGuarded(x) == ~LiveWrite(x) \/ x.policy \in {"guarded", "autonomous"}

\* policyAllows: nothing is denied to a dry run.
PolicyAllows(x) ==
    \/ ~LiveWrite(x)
    \/ x.policy = "autonomous"
    \/ x.policy = "guarded" /\ ActionOf[x.id] \in {"comment", "label"}

\* Mutant: the row is looked up under the wrong key.
IsExecutedUnread(a, answer) == answer = FALSE

\* IsExecuted, which answers no when the query fails.
IsExecuted(a, answer) ==
    \/ answer = (ledger[a] # "none")
    \/ ReadsFail /\ answer = FALSE

\* What GetIntentsForWorkItem returns: intents of earlier plans included.
IntentsFor(i) ==
    {[id |-> a, dry |-> stored[a].dry, policy |-> stored[a].policy] :
        a \in {b \in Intents : ItemOf[b] = i /\ stored[b] # NoPlan}}

\* What the verification of VerifyMerge, VerifyClose, ... finds on GitHub.
Confirmed(a) ==
    CASE ActionOf[a] = "merge" -> pr[ItemOf[a]] = "merged"
      [] ActionOf[a] = "close" -> pr[ItemOf[a]] = "closed"
      [] ActionOf[a] = "apply_fix" -> pr[ItemOf[a]] = "open"
      [] OTHER -> landed[a] > 0

NextStage(s) ==
    CASE s = "claimed" -> "preflighted"
      [] s = "preflighted" -> "approved_for_execution"
      [] s = "approved_for_execution" -> "executed"
      [] s = "executed" -> "verified"

-----------------------------------------------------------------------------
(* Steps of a goroutine *)

Goto(t, p) == th' = [th EXCEPT ![t].pc = p]

\* The queue call of t waits for its other statements, if it has any.
Holds(t) == holder' = IF call' = Idle /\ row' = NoRow THEN NoThread ELSE t

\* Mutant: the query asks for proposed items.
ListProposed(t) ==
    /\ th[t].pc = "list"
    /\ MuFree
    /\ \/ \E i \in Items :
             /\ state[i] = "proposed"
             /\ th' = [th EXCEPT ![t].pc = "claim", ![t].item = i]
       \/ /\ \A i \in Items : state[i] # "proposed"
          /\ Goto(t, "poll")
    /\ UNCHANGED <<queueVars, self, holder, tables, ledger, inFlight, github>>

\* GetClaimable first returns expired leases ...
Poll(t) ==
    /\ th[t].pc = "poll"
    /\ MuFree
    /\ \/ ExpireLeases
       \/ Expired = {} /\ UNCHANGED queueVars
    /\ Goto(t, "list")
    /\ Holds(t)
    /\ UNCHANGED <<self, tables, ledger, inFlight, github>>

\* ... and then, under mu again, reads the first claimable item.
List(t) ==
    /\ th[t].pc = "list"
    /\ MuFree
    /\ \/ \E i \in Items :
             /\ state[i] = "claimable"
             /\ th' = [th EXCEPT ![t].pc = "claim", ![t].item = i]
       \/ /\ \A i \in Items : state[i] # "claimable"
          /\ Goto(t, "poll")
    /\ UNCHANGED <<queueVars, self, holder, tables, ledger, inFlight, github>>

\* A claim that somebody else won is an error, and an error of ProcessOnce
\* ends the goroutine.
ClaimItem(t) ==
    /\ th[t].pc = "claim"
    /\ \/ /\ \E ttl \in TTLs : \/ Claim(th[t].item, self, ttl)
                               \/ ClaimExpired(th[t].item, self, ttl)
          /\ Goto(t, "load")
          /\ Holds(t)
       \/ /\ MuFree
          /\ ~MayClaim(th[t].item, self)
          /\ th' = [th EXCEPT ![t] = Stopped]
          /\ UNCHANGED <<queueVars, holder>>
    /\ UNCHANGED <<self, tables, ledger, inFlight, github>>

\* An item without intents is failed.
Load(t) ==
    /\ th[t].pc = "load"
    /\ MuFree
    /\ LET loaded == IntentsFor(th[t].item)
       IN  th' = [th EXCEPT ![t].batch = loaded, ![t].left = loaded,
                            ![t].pc = IF loaded = {} THEN "fail" ELSE "next"]
    /\ UNCHANGED <<queueVars, self, holder, tables, ledger, inFlight, github>>

\* One of these queries fails: the goroutine ends, and an item it has claimed
\* is failed first.
QueryFails(t) ==
    /\ ReadsFail
    /\ MuFree
    /\ \/ th[t].pc \in {"poll", "list"} /\ th' = [th EXCEPT ![t] = Stopped]
       \/ th[t].pc = "load" /\ Goto(t, "fail")
    /\ UNCHANGED <<queueVars, self, holder, tables, ledger, inFlight, github>>

\* The next intent of the batch; a live one needs a slot of the breaker.
Acquire(t, x) ==
    /\ th[t].pc = "next"
    /\ x \in th[t].left
    /\ IF LiveWrite(x) /\ inFlight >= MaxGlobal
       THEN Goto(t, "deny") /\ UNCHANGED inFlight
       ELSE /\ th' = [th EXCEPT ![t].pc = "check", ![t].cur = x, ![t].left = @ \ {x}]
            /\ inFlight' = IF LiveWrite(x) THEN inFlight + 1 ELSE inFlight
    /\ UNCHANGED <<queueVars, self, holder, tables, ledger, github>>

\* All intents went through: the item is taken through its states.
Finish(t) ==
    /\ th[t].pc = "next"
    /\ th[t].left = {}
    /\ th' = [th EXCEPT ![t].pc = "advance", ![t].at = "claimed"]
    /\ UNCHANGED <<queueVars, self, holder, tables, ledger, inFlight, github>>

\* Mutant: the slot is kept when the intent fails.
LeaveKeepingSlot(t, p) ==
    /\ th' = [th EXCEPT ![t].pc = p, ![t].cur = NoSnap]
    /\ inFlight' = IF LiveWrite(th[t].cur) /\ p # "fail" THEN inFlight - 1 ELSE inFlight

\* Mutant: dry runs release a slot too.
LeaveReleasingAlways(t, p) ==
    /\ th' = [th EXCEPT ![t].pc = p, ![t].cur = NoSnap]
    /\ inFlight' = inFlight - 1

\* Mutant: the worker carries on with the next intent after an error.
LeaveCarryingOn(t, p) ==
    /\ th' = [th EXCEPT ![t].pc = "next", ![t].cur = NoSnap]
    /\ inFlight' = IF LiveWrite(th[t].cur) THEN inFlight - 1 ELSE inFlight

\* ExecuteIntent returns and the slot is released: to p.
Leave(t, p) ==
    /\ th' = [th EXCEPT ![t].pc = p, ![t].cur = NoSnap]
    /\ inFlight' = IF LiveWrite(th[t].cur) THEN inFlight - 1 ELSE inFlight

\* The ledger and the policy, and the "proposed" row that must be written first.
Check(t) ==
    /\ th[t].pc = "check"
    /\ \/ IsExecuted(th[t].cur.id, TRUE) /\ Leave(t, "next")
       \/ /\ IsExecuted(th[t].cur.id, FALSE)
          /\ PolicyAllows(th[t].cur)
          /\ Goto(t, "probe")
          /\ UNCHANGED inFlight
       \/ Leave(t, "fail")
    /\ UNCHANGED <<queueVars, self, holder, tables, ledger, github>>

\* The preflight checks that ask GitHub: the pull request must be open, and
\* any of the others may fail.
Probe(t) ==
    /\ th[t].pc = "probe"
    /\ \/ /\ pr[ItemOf[th[t].cur.id]] = "open"
          /\ Goto(t, "clear")
          /\ UNCHANGED inFlight
       \/ Leave(t, "fail")
    /\ UNCHANGED <<queueVars, self, holder, tables, ledger, github>>

\* Mutant: the executed row is written ahead of the write.
ClearRecording(t) ==
    /\ th[t].pc = "clear"
    /\ Goto(t, "write")
    /\ ledger' = [ledger EXCEPT ![th[t].cur.id] =
                     IF LiveWrite(th[t].cur) THEN "live" ELSE "dry"]
    /\ UNCHANGED <<queueVars, self, holder, tables, inFlight, github>>

\* The last check asks the ledger again.
Clear(t) ==
    /\ th[t].pc = "clear"
    /\ \/ /\ IsExecuted(th[t].cur.id, FALSE)
          /\ Goto(t, "write")
          /\ UNCHANGED inFlight
       \/ IsExecuted(th[t].cur.id, TRUE) /\ Leave(t, "fail")
    /\ UNCHANGED <<queueVars, self, holder, tables, ledger, github>>

\* GitHub performs the write: a close first posts its reason.
Perform(a) ==
    /\ landed[a] < MaxLanded
    /\ ActionOf[a] = "merge" => pr[ItemOf[a]] = "open"
    /\ landed' = [landed EXCEPT ![a] = @ + 1]
    /\ pr' = [pr EXCEPT ![ItemOf[a]] = IF ActionOf[a] = "merge" THEN "merged" ELSE @]

AfterWrite(a) == IF ActionOf[a] = "close" THEN "shut" ELSE "verify"

\* The call to GitHub may fail before or after it took effect.
Write(t) ==
    LET x == th[t].cur
    IN  /\ th[t].pc = "write"
        /\ \/ /\ ~LiveWrite(x)
              /\ Goto(t, "record")
              /\ UNCHANGED <<inFlight, github>>
           \/ /\ LiveWrite(x)
              /\ \/ ActionOf[x.id] # "apply_fix" /\ Perform(x.id)
                 \/ ActionOf[x.id] = "apply_fix" /\ UNCHANGED github
              /\ Goto(t, AfterWrite(x.id))
              /\ UNCHANGED inFlight
           \/ /\ LiveWrite(x) /\ ActionOf[x.id] # "apply_fix"
              /\ Perform(x.id) \/ UNCHANGED github
              /\ Leave(t, "fail")
        /\ UNCHANGED <<queueVars, self, holder, tables, ledger>>

\* The second call of a close.
Shut(t) ==
    LET i == ItemOf[th[t].cur.id]
        closed == [pr EXCEPT ![i] = IF @ = "open" THEN "closed" ELSE @]
    IN  /\ th[t].pc = "shut"
        /\ \/ Goto(t, "verify") /\ pr' = closed /\ UNCHANGED inFlight
           \/ Leave(t, "fail") /\ pr' \in {pr, closed}
        /\ UNCHANGED <<queueVars, self, holder, tables, ledger, landed>>

Verify(t) ==
    /\ th[t].pc = "verify"
    /\ \/ Confirmed(th[t].cur.id) /\ Goto(t, "record") /\ UNCHANGED inFlight
       \/ Leave(t, "fail")
    /\ UNCHANGED <<queueVars, self, holder, tables, ledger, github>>

\* The "executed" row is written twice, and either write may fail.
Record(t) ==
    LET x == th[t].cur
        written == [ledger EXCEPT ![x.id] = IF LiveWrite(x) THEN "live" ELSE "dry"]
    IN  /\ th[t].pc = "record"
        /\ \/ Leave(t, "next") /\ ledger' = written
           \/ Leave(t, "fail") /\ ledger' \in {ledger, written}
        /\ UNCHANGED <<queueVars, self, holder, tables, github>>

\* Worker.fail, whose own error is ignored: nobody waits for it.  After an
\* error of an intent the goroutine ends; after a denial it polls again.
FailItem(t) ==
    /\ th[t].pc \in {"fail", "deny"}
    /\ \/ /\ Transition(th[t].item, "claimed", "failed")
       \/ /\ MuFree
          /\ state[th[t].item] # "claimed"
          /\ UNCHANGED queueVars
    /\ th' = [th EXCEPT ![t] = IF th[t].pc = "fail" THEN Stopped ELSE Resting]
    /\ UNCHANGED <<self, holder, tables, ledger, inFlight, github>>

\* The four Transition calls, each from the state the one before returned.
Advance(t) ==
    LET i == th[t].item
        to == NextStage(th[t].at)
    IN  /\ th[t].pc = "advance"
        /\ \/ /\ Transition(i, th[t].at, to)
              /\ Holds(t)
              /\ th' = [th EXCEPT ![t] = IF to = "verified" THEN Resting
                                         ELSE [@ EXCEPT !.at = to]]
           \/ /\ MuFree
              /\ state[i] # th[t].at
              /\ th' = [th EXCEPT ![t] = Stopped]
              /\ UNCHANGED <<queueVars, holder>>
        /\ UNCHANGED <<self, tables, ledger, inFlight, github>>

Goroutine(t) ==
    \/ Poll(t) \/ List(t) \/ ClaimItem(t) \/ Load(t) \/ QueryFails(t)
    \/ \E x \in th[t].left : Acquire(t, x)
    \/ Finish(t) \/ Check(t) \/ Probe(t) \/ Clear(t) \/ Write(t) \/ Shut(t)
    \/ Verify(t) \/ Record(t) \/ FailItem(t) \/ Advance(t)

-----------------------------------------------------------------------------
(* The other clients, and the world *)

\* EnqueueActionPlan stores the item, logs it, then stores its intents.
EnqueuePlan(i, s, p) ==
    /\ plans < MaxPlans
    /\ \A a \in s : ItemOf[a] = i
    /\ \A a \in Intents : writing[a] = NoPlan
    /\ EnqueueItem(i)
    /\ writing' = [a \in Intents |-> IF a \in s THEN p ELSE NoPlan]
    /\ plans' = plans + 1
    /\ holder' = NoThread
    /\ UNCHANGED <<th, self, stored, granted, ledger, inFlight, github>>

\* Whether a plan lets this intent write, said once more for the history.
Grants(p, a) ==
    ~p.dry /\ \/ p.policy = "autonomous"
              \/ /\ p.policy = "guarded"
                 /\ ActionOf[a] \notin {"merge", "close", "apply_fix", "request_changes"}

UpsertIntent(a) ==
    /\ MuFree
    /\ late = NoItem
    /\ writing[a] # NoPlan
    /\ stored' = [stored EXCEPT ![a] = writing[a]]
    /\ writing' = [writing EXCEPT ![a] = NoPlan]
    /\ granted' = IF Grants(writing[a], a) THEN granted \cup {a} ELSE granted
    /\ UNCHANGED <<queueVars, th, self, holder, plans, ledger, inFlight, github>>

\* The queue's HTTP handlers, on behalf of an agent.
AgentRequest ==
    /\ \/ \E i \in Items, w \in Agents, ttl \in TTLs :
             Claim(i, w, ttl) \/ ClaimExpired(i, w, ttl) \/ Heartbeat(i, w, ttl)
       \/ \E i \in Items, w \in Agents : Release(i, w)
       \/ ExpireLeases
       \/ \E i \in Items, b \in Bundles : AttachKnown(i, b)
       \/ \E i \in Items, w \in Agents, b \in Bundles : AttachNew(i, w, b)
    /\ holder' = NoThread
    /\ UNCHANGED <<th, self, tables, ledger, inFlight, github>>

\* A queue call goes on to its next statement.
QueueStep ==
    /\ Statement
    /\ holder' = IF call' = Idle /\ row' = NoRow THEN NoThread ELSE holder
    /\ UNCHANGED <<th, self, tables, ledger, inFlight, github>>

\* A call is cut short, and the goroutine that waits for it ends on the error;
\* or EnqueueActionPlan is, between storing an item and logging it, or between
\* two intents.
CutShort ==
    /\ Cancel
    /\ IF late' = late /\ holder # NoThread
       THEN th' = [th EXCEPT ![holder] = Stopped] /\ holder' = NoThread
       ELSE UNCHANGED <<th, holder>>
    /\ writing' = IF late' = late THEN writing ELSE [a \in Intents |-> NoPlan]
    /\ UNCHANGED <<self, stored, plans, granted, ledger, inFlight, github>>

AbandonPlan ==
    /\ crashes < MaxCrash
    /\ \E a \in Intents : writing[a] # NoPlan
    /\ late = NoItem
    /\ writing' = [a \in Intents |-> NoPlan]
    /\ crashes' = crashes + 1
    /\ UNCHANGED <<clock, state, lease, refs, owner, tail, call, row, late>>
    /\ UNCHANGED <<th, self, holder, stored, plans, granted, ledger, inFlight,
                   github>>

\* The server dies at any point and is started again under a new worker id;
\* the breaker and the goroutines start afresh.
Restart ==
    /\ crashes < MaxCrash
    /\ crashes' = crashes + 1
    /\ call' = Idle /\ row' = NoRow /\ late' = NoItem
    /\ th' = [t \in Threads |-> Resting]
    /\ self' \in Servers \ {self}
    /\ holder' = NoThread
    /\ writing' = [a \in Intents |-> NoPlan]
    /\ inFlight' = 0
    /\ UNCHANGED <<clock, state, lease, refs, owner, tail, stored, plans,
                   granted, ledger, github>>

\* Somebody else merges or closes the pull request.
Outside(i) ==
    /\ pr[i] = "open"
    /\ \E s \in {"merged", "closed"} : pr' = [pr EXCEPT ![i] = s]
    /\ UNCHANGED <<queueVars, th, self, holder, tables, ledger, inFlight, landed>>

TimePasses == Tick /\ UNCHANGED execVars

-----------------------------------------------------------------------------
ExecInit ==
    /\ Init
    /\ th = [t \in Threads |-> Resting]
    /\ self \in Servers
    /\ holder = NoThread
    /\ stored = [a \in Intents |-> NoPlan]
    /\ writing = [a \in Intents |-> NoPlan]
    /\ plans = 0
    /\ ledger = [a \in Intents |-> "none"]
    /\ inFlight = 0
    /\ pr = [i \in Items |-> "open"]
    /\ landed = [a \in Intents |-> 0]
    /\ granted = {}

World ==
    \/ \E i \in Items, p \in Plans, s \in Batches : EnqueuePlan(i, s, p)
    \/ \E a \in Intents : UpsertIntent(a)
    \/ AgentRequest
    \/ CutShort \/ AbandonPlan
    \/ Restart
    \/ \E i \in Items : Outside(i)

ExecNext ==
    \/ \E t \in Threads : Goroutine(t)
    \/ QueueStep
    \/ World
    \/ TimePasses

ExecSpec == ExecInit /\ [][ExecNext]_allVars

\* Goroutines run, and get mu in the end however busy the agents keep it (a
\* sync.Mutex does not starve a waiter); queue calls go on; time passes.
ExecFairSpec ==
    /\ ExecSpec
    /\ \A t \in Threads : SF_allVars(Goroutine(t))
    /\ WF_allVars(QueueStep)
    /\ WF_allVars(TimePasses)

-----------------------------------------------------------------------------
(* Properties *)

\* The breaker's counter is the number of goroutines between Acquire and
\* release with a live intent, and never exceeds its limit, whichever way an
\* intent ends (worker.go:125-141 releases on every path).
SlotsAccounted ==
    /\ inFlight = Cardinality({t \in Threads :
                      th[t].pc \in Inside /\ LiveWrite(th[t].cur)})
    /\ inFlight <= MaxGlobal

\* GitHub performs an intent's write only if some plan stored for it allowed
\* the write: an advisory plan never writes, a guarded one never merges,
\* whatever re-planning happens while a worker holds an older snapshot.
WritesGranted ==
    \A a \in Intents : landed[a] > 0 => Live /\ a \in granted

\* A live "executed" row means that GitHub did perform the write: the ledger
\* never runs ahead of GitHub, whatever fails in between.  (ApplyFix of the
\* live mutator does nothing yet and is exempt.)
ExecutedWasPerformed ==
    \A a \in Intents :
        ledger[a] = "live" /\ ActionOf[a] # "apply_fix" => landed[a] > 0

\* An item becomes verified only by a worker that loaded at least one intent
\* for it and sees each of them executed in the ledger, a ledger that survives
\* restarts (worker.go:142-180), whatever other clients do to the item.
VerifiedWasExecuted ==
    [][\A i \in Items : state'[i] = "verified" /\ state[i] # "verified" =>
          \E t \in Threads :
              /\ th[t].item = i /\ th[t].at = "executed" /\ th[t].batch # {}
              /\ \A x \in th[t].batch : ledger[x.id] # "none"]_allVars

\* GitHub never performs a write whose intent the ledger already shows as
\* executed.  With several goroutines this rests on the breaker: between the
\* last look at the ledger and the write no other live intent may finish.
NoWriteAfterExecuted ==
    [][\A a \in Intents : landed'[a] # landed[a] => ledger[a] = "none"]_allVars

\* Seen from GitHub and the ledger, the whole executor is this: an intent is
\* written only when some plan granted it and no row shows it as executed, a
\* live row follows the write, and neither is taken back, whatever fails or
\* restarts in between (executor.go:201-391, worker.go:54-180).
Ledger == INSTANCE WriteLedger WITH
    Empty <- {a \in Intents : ActionOf[a] = "apply_fix"},
    recorded <- {a \in Intents : ledger[a] = "live"}

WritesFollowTheLedger == Ledger!Spec

\* Work does not lie unattended while a goroutine is left: an item does not
\* stay claimable for ever unless every goroutine has ended on an error.
WorkIsTaken ==
    \A i \in Items :
        []<>(\/ state[i] # "claimable"
             \/ \A t \in Threads : th[t].pc = "stopped")

\* VERSION2.0.md:385: "all mutations are idempotent and auditable".
\* No intent's write is performed twice.
PerformedOnce == \A a \in Intents : landed[a] <= 1

\* VERSION2.0.md:358: "multiple workers can safely claim disjoint work without
\* races".  No step of this server's worker takes away the live lease of
\* another worker.
DisjointWork ==
    [][th' # th => \A i \in Items :
          lease[i].by \in Workers \ {self} /\ ~LeaseExpired(lease[i])
              => lease'[i] = lease[i]]_allVars

\* TODO.md:142: "Ensure partial failure never leaves an item invisible or
\* permanently claimed."  GetClaimable lists claimable items only, so an item
\* between claimed and verified has to move on.
NeverInvisible ==
    \A i \in Items :
        []<>(state[i] \notin {"preflighted", "approved_for_execution", "executed"})
=============================================================================
