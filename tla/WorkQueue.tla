------------------------------ MODULE WorkQueue ------------------------------
(***************************************************************************)
(* The durable work queue of the action engine (internal/workqueue).       *)
(*                                                                         *)
(* Every operation takes Queue.mu, decides, and then issues its SQL        *)
(* statements one after another; no transaction spans two statements.  An  *)
(* operation is therefore an action that decides and issues the first      *)
(* statement, and the statements still to be issued wait in `call' and     *)
(* `row' until the operation that holds the mutex gets to them, or the     *)
(* process dies.  The only writer process is `pratc serve'.                *)
(***************************************************************************)
EXTENDS Integers, FiniteSets

CONSTANTS
    Items,      \* ids of work items
    Workers,    \* worker ids that clients present
    Bundles,    \* ids of proof bundles
    TTLs,       \* lease lengths, in clock ticks
    MaxTime,    \* the bound on the clock
    MaxCrash,   \* the bound on calls cut short, by an error or a crash
    NoWorker,   \* the empty ClaimedBy
    NoItem      \* no work item

ASSUME QueueAssumption ==
    /\ NoWorker \notin Workers
    /\ NoItem \notin Items
    /\ TTLs \subseteq Nat \ {0}
    /\ MaxTime \in Nat
    /\ MaxCrash \in Nat

VARIABLES
    clock,    \* Queue.now
    state,    \* action_work_items.state, "absent" before the first Upsert
    lease,    \* ActionLease: ClaimedBy and ExpiresAt
    refs,     \* ProofBundleRefs of each item
    owner,    \* action_proof_bundles: the item of each stored bundle
    tail,     \* to_state of the last row of action_state_transitions
    call,     \* what the operation holding mu does after its first statement
    row,      \* the transition row the operation holding mu appends last
    late,     \* item EnqueueActionPlan stored but has not yet logged
    crashes   \* calls cut short so far

queueVars == <<clock, state, lease, refs, owner, tail, call, row, late, crashes>>

-----------------------------------------------------------------------------
(* Values *)

States == {"proposed", "claimable", "claimed", "preflighted", "patched",
           "tested", "approved_for_execution", "executed", "verified",
           "failed", "escalated", "canceled"}

\* An empty ExpiresAt counts as expired, which expiry 0 does at every instant.
NoLease == [by |-> NoWorker, exp |-> 0]

LeaseUntil(w, t) == [by |-> w, exp |-> t]

NoRow == [item |-> NoItem, to |-> "absent"]

Idle == [op |-> "none"]

\* Every expiry a claim or a heartbeat can write.
Expiries == {t + ttl : t \in 0 .. MaxTime, ttl \in TTLs}

Leases == {NoLease} \cup [by : Workers, exp : Expiries]

Rows == {NoRow} \cup [item : Items, to : States]

Calls == {Idle}
         \cup [op : {"claim"}, item : Items, worker : Workers, exp : Expiries]
         \cup [op : {"attach"}, item : Items, bundle : Bundles]
         \cup [op : {"expire"}, items : SUBSET Items]

TypeOK ==
    /\ clock \in 0 .. MaxTime
    /\ state \in [Items -> States \cup {"absent"}]
    /\ lease \in [Items -> Leases]
    /\ refs \in [Items -> SUBSET Bundles]
    /\ owner \in [Bundles -> Items \cup {NoItem}]
    /\ tail \in [Items -> States \cup {"absent"}]
    /\ call \in Calls
    /\ row \in Rows
    /\ late \in Items \cup {NoItem}
    /\ crashes \in Nat

-----------------------------------------------------------------------------
(* Guards shared by the operations *)

LeaseExpired(l) == l.exp <= clock

\* Mutant: the table lets preflighted work be executed without approval.
ValidTransitionUnapproved(from, to) ==
    \/ from = "proposed" /\ to = "claimable"
    \/ from = "claimable" /\ to = "claimed"
    \/ from = "claimed" /\ to \in {"claimable", "preflighted", "failed"}
    \/ from = "preflighted" /\ to \in {"executed", "failed"}
    \/ from = "executed" /\ to \in {"verified", "failed"}

\* The table of validTransition.
ValidTransition(from, to) ==
    \/ from = "proposed" /\ to \in {"claimable", "canceled"}
    \/ from = "claimable" /\ to \in {"claimed", "canceled", "escalated"}
    \/ from = "claimed" /\ to \in {"claimable", "preflighted", "failed", "escalated"}
    \/ from = "preflighted"
       /\ to \in {"patched", "tested", "approved_for_execution", "failed"}
    \/ from = "patched" /\ to \in {"tested", "failed"}
    \/ from = "tested" /\ to \in {"approved_for_execution", "failed"}
    \/ from = "approved_for_execution" /\ to \in {"executed", "failed"}
    \/ from = "executed" /\ to \in {"verified", "failed"}

\* Mutant: mu is given up before the row is appended.
MuFreeBeforeRow == call = Idle

MuFree == call = Idle /\ row = NoRow

\* getUnlocked finds the item.
Stored(i) == state[i] # "absent"

HeldBy(i, w) == state[i] = "claimed" /\ lease[i].by = w

\* saveUnlocked: state and lease are rewritten, and `to' is logged next.
SaveAndLog(i, to, l) ==
    /\ state' = [state EXCEPT ![i] = to]
    /\ lease' = [lease EXCEPT ![i] = l]
    /\ row' = [item |-> i, to |-> to]

-----------------------------------------------------------------------------
(* Operations *)

\* Upsert overwrites whatever the table holds under this id: state, lease and
\* the payload with its proof references.  It logs nothing.
Overwrite(i, s) ==
    /\ MuFree
    /\ state' = [state EXCEPT ![i] = s]
    /\ lease' = [lease EXCEPT ![i] = NoLease]
    /\ refs' = [refs EXCEPT ![i] = {}]
    /\ UNCHANGED <<clock, owner, tail, call, row, crashes>>

Upsert(i) ==
    /\ Overwrite(i, "proposed")
    /\ UNCHANGED late

\* One work item of EnqueueActionPlan: Upsert under one hold of mu, the row
\* under the next one.  A plan of several items is a series of these.
EnqueueItem(i) ==
    /\ late = NoItem
    /\ Overwrite(i, "claimable")
    /\ late' = i

EnqueueRow ==
    /\ MuFree
    /\ late # NoItem
    /\ tail' = [tail EXCEPT ![late] = "claimable"]
    /\ late' = NoItem
    /\ UNCHANGED <<clock, state, lease, refs, owner, call, row, crashes>>

\* Mutant: a claimed item may be claimed whatever its lease says.
MayClaimClaimed(i, w) ==
    state[i] \in {"claimable", "claimed"} \/ LeaseExpired(lease[i])

\* Claim refuses only an item that is neither claimable, nor claimed by the
\* same worker, nor under an expired lease; a cleared lease is an expired one.
MayClaim(i, w) ==
    \/ state[i] = "claimable"
    \/ HeldBy(i, w)
    \/ LeaseExpired(lease[i])

TakesOver(i, w) == state[i] = "claimed" /\ lease[i].by # w

Claim(i, w, ttl) ==
    /\ MuFree
    /\ Stored(i)
    /\ MayClaim(i, w)
    /\ ~TakesOver(i, w)
    /\ state' = [state EXCEPT ![i] = "claimed"]
    /\ lease' = [lease EXCEPT ![i] = LeaseUntil(w, clock + ttl)]
    /\ row' = IF HeldBy(i, w) THEN NoRow ELSE [item |-> i, to |-> "claimed"]
    /\ UNCHANGED <<clock, refs, owner, tail, call, late, crashes>>

\* Claim of another worker's expired claim logs claimed -> claimable first.
ClaimExpired(i, w, ttl) ==
    /\ MuFree
    /\ MayClaim(i, w)
    /\ TakesOver(i, w)
    /\ tail' = [tail EXCEPT ![i] = "claimable"]
    /\ call' = [op |-> "claim", item |-> i, worker |-> w, exp |-> clock + ttl]
    /\ UNCHANGED <<clock, state, lease, refs, owner, row, late, crashes>>

FinishClaim ==
    /\ call.op = "claim"
    /\ SaveAndLog(call.item, "claimed", LeaseUntil(call.worker, call.exp))
    /\ call' = Idle
    /\ UNCHANGED <<clock, refs, owner, tail, late, crashes>>

Release(i, w) ==
    /\ MuFree
    /\ HeldBy(i, w)
    /\ SaveAndLog(i, "claimable", NoLease)
    /\ UNCHANGED <<clock, refs, owner, tail, call, late, crashes>>

\* Heartbeat does not look at the expiry it replaces, and logs nothing.
Heartbeat(i, w, ttl) ==
    /\ MuFree
    /\ HeldBy(i, w)
    /\ lease' = [lease EXCEPT ![i].exp = clock + ttl]
    /\ UNCHANGED <<clock, state, refs, owner, tail, call, row, late, crashes>>

\* Mutant: the sweep looks for named leases only.
ExpiredNamed == {i \in Items : /\ state[i] = "claimed"
                               /\ lease[i].by # NoWorker
                               /\ LeaseExpired(lease[i])}

Expired == {i \in Items : state[i] = "claimed" /\ LeaseExpired(lease[i])}

\* ExpireLeases reads the claimed items and the clock once, then saves and
\* logs each expired item in turn; only state "claimed" is looked at.
ExpireLeases ==
    /\ MuFree
    /\ Expired # {}
    /\ call' = [op |-> "expire", items |-> Expired]
    /\ UNCHANGED <<clock, state, lease, refs, owner, tail, row, late, crashes>>

ExpireOne(i) ==
    /\ call.op = "expire"
    /\ row = NoRow
    /\ i \in call.items
    /\ SaveAndLog(i, "claimable", NoLease)
    /\ call' = IF call.items = {i} THEN Idle
               ELSE [op |-> "expire", items |-> call.items \ {i}]
    /\ UNCHANGED <<clock, refs, owner, tail, late, crashes>>

\* Mutant: Transition keeps the lease whatever the target.
TransitionKeepingLease(i, from, to) ==
    /\ MuFree
    /\ state[i] = from
    /\ ValidTransition(from, to)
    /\ SaveAndLog(i, to, lease[i])
    /\ UNCHANGED <<clock, refs, owner, tail, call, late, crashes>>

\* Transition checks the state and the table: not the actor, not the lease.
\* The lease survives only into "claimed".
Transition(i, from, to) ==
    /\ MuFree
    /\ state[i] = from
    /\ ValidTransition(from, to)
    /\ SaveAndLog(i, to, IF to = "claimed" THEN lease[i] ELSE NoLease)
    /\ UNCHANGED <<clock, refs, owner, tail, call, late, crashes>>

\* Mutant: the stored bundle may belong to another item.
AttachKnownAnyOwner(i, b) ==
    /\ MuFree
    /\ Stored(i)
    /\ owner[b] # NoItem
    /\ refs' = [refs EXCEPT ![i] = @ \cup {b}]
    /\ UNCHANGED <<clock, state, lease, owner, tail, call, row, late, crashes>>

\* AttachProof of a bundle id already stored for this item: only the missing
\* reference is added, whoever calls and whatever the state.
AttachKnown(i, b) ==
    /\ MuFree
    /\ Stored(i)
    /\ owner[b] = i
    /\ b \notin refs[i]
    /\ refs' = [refs EXCEPT ![i] = @ \cup {b}]
    /\ UNCHANGED <<clock, state, lease, owner, tail, call, row, late, crashes>>

\* AttachProof of a new bundle, up to the INSERT of the bundle ...
AttachNew(i, w, b) ==
    /\ MuFree
    /\ owner[b] = NoItem
    /\ HeldBy(i, w)
    /\ ~LeaseExpired(lease[i])
    /\ owner' = [owner EXCEPT ![b] = i]
    /\ call' = [op |-> "attach", item |-> i, bundle |-> b]
    /\ UNCHANGED <<clock, state, lease, refs, tail, row, late, crashes>>

\* ... and the save, which keeps the lease.
FinishAttach ==
    /\ call.op = "attach"
    /\ refs' = [refs EXCEPT ![call.item] = @ \cup {call.bundle}]
    /\ SaveAndLog(call.item, "preflighted", lease[call.item])
    /\ call' = Idle
    /\ UNCHANGED <<clock, owner, tail, late, crashes>>

\* appendTransitionUnlocked after a save.
AppendRow ==
    /\ row # NoRow
    /\ tail' = [tail EXCEPT ![row.item] = row.to]
    /\ row' = NoRow
    /\ UNCHANGED <<clock, state, lease, refs, owner, call, late, crashes>>

\* A request's context is cancelled, or SQLite refuses a statement: the call
\* returns an error and what it has not issued yet is never issued.
Cancel ==
    /\ crashes < MaxCrash
    /\ \/ ~MuFree /\ call' = Idle /\ row' = NoRow /\ late' = late
       \/ late # NoItem /\ late' = NoItem /\ UNCHANGED <<call, row>>
    /\ crashes' = crashes + 1
    /\ UNCHANGED <<clock, state, lease, refs, owner, tail>>

\* The process dies between two statements; the database keeps the first.
Crash ==
    /\ crashes < MaxCrash
    /\ ~MuFree \/ late # NoItem
    /\ call' = Idle
    /\ row' = NoRow
    /\ late' = NoItem
    /\ crashes' = crashes + 1
    /\ UNCHANGED <<clock, state, lease, refs, owner, tail>>

Tick ==
    /\ clock < MaxTime
    /\ clock' = clock + 1
    /\ UNCHANGED <<state, lease, refs, owner, tail, call, row, late, crashes>>

-----------------------------------------------------------------------------
Init ==
    /\ clock = 0
    /\ state = [i \in Items |-> "absent"]
    /\ lease = [i \in Items |-> NoLease]
    /\ refs = [i \in Items |-> {}]
    /\ owner = [b \in Bundles |-> NoItem]
    /\ tail = [i \in Items |-> "absent"]
    /\ call = Idle
    /\ row = NoRow
    /\ late = NoItem
    /\ crashes = 0

\* What clients of the queue ask for.
Request ==
    \/ \E i \in Items : Upsert(i)
    \/ \E i \in Items : EnqueueItem(i)
    \/ \E i \in Items, w \in Workers, ttl \in TTLs : Claim(i, w, ttl)
    \/ \E i \in Items, w \in Workers, ttl \in TTLs : ClaimExpired(i, w, ttl)
    \/ \E i \in Items, w \in Workers : Release(i, w)
    \/ \E i \in Items, w \in Workers, ttl \in TTLs : Heartbeat(i, w, ttl)
    \/ ExpireLeases
    \/ \E i \in Items, from, to \in States : Transition(i, from, to)
    \/ \E i \in Items, b \in Bundles : AttachKnown(i, b)
    \/ \E i \in Items, w \in Workers, b \in Bundles : AttachNew(i, w, b)

\* The statements a running call still has to issue.
Statement ==
    \/ FinishClaim
    \/ \E i \in Items : ExpireOne(i)
    \/ FinishAttach
    \/ AppendRow
    \/ EnqueueRow

Next == Request \/ Statement \/ Cancel \/ Crash \/ Tick

Spec == Init /\ [][Next]_queueVars

\* A running call goes on, time passes, and somebody polls: GetClaimable and
\* the status handler both start with ExpireLeases.
FairSpec ==
    /\ Spec
    /\ WF_queueVars(Statement)
    /\ WF_queueVars(Tick)
    /\ SF_queueVars(ExpireLeases)

-----------------------------------------------------------------------------
(* Properties *)

\* A lease is stored only for an item that is being worked on: claimed, or
\* preflighted by an attached proof.  Everything Claim treats as free because
\* its lease is empty (queue.go:304) relies on this.
LeaseOnlyWhileWorked ==
    \A i \in Items : lease[i] # NoLease => state[i] \in {"claimed", "preflighted"}

\* Every proof reference of an item names a stored bundle of that item, at
\* every point a crash or a concurrent reader can observe (queue.go:679-717
\* inserts the bundle before it saves the reference).
RefsBacked ==
    \A i \in Items : \A b \in refs[i] : owner[b] = i

\* The leases of the queue are those of the abstract lease service: whatever
\* calls interleave, expire or crash, a live lease passes to another worker
\* only after it was given up or withdrawn (queue.go:303-306).
LS == INSTANCE LeaseService

LeaseServiceSpec == LS!Spec

\* A row appended under mu names the state the item is in, so the audit trail
\* lags the table by at most the statement a crash cut off; the two rows that
\* are written ahead of or apart from their save both say "claimable".
RowsNameTheState ==
    [][\A i \in Items : tail'[i] # tail[i] /\ tail'[i] # "claimable"
              => tail'[i] = state[i]]_queueVars

\* An item reaches the states that stand for a write to GitHub only along the
\* table: approved before executed, executed before verified.
NoStateSkipped ==
    [][\A i \in Items : state'[i] # state[i] =>
          /\ state'[i] = "verified" => state[i] = "executed"
          /\ state'[i] = "executed" => state[i] = "approved_for_execution"
          /\ state'[i] = "approved_for_execution"
                 => state[i] \in {"preflighted", "tested"}]_queueVars

\* An item does not stay claimed under an expired lease: it is returned to
\* claimable, or somebody renews or finishes the work.
ExpiredClaimReturned ==
    \A i \in Items :
        []<>(state[i] # "claimed" \/ lease[i].exp > clock)

\* VERSION2.0.md:359, an exit gate: "expired leases return to claimable state".
\* Every lease, not only those of claimed items.
ExpiredLeaseReturned ==
    \A i \in Items :
        []<>(lease[i] = NoLease \/ lease[i].exp > clock)
=============================================================================
