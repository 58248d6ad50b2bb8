-------------------------- MODULE WorkQueueProofs --------------------------
(***************************************************************************)
(* The work queue keeps its types and its lease and proof invariants, and  *)
(* implements the abstract lease service, for any items, workers, bundles, *)
(* lease lengths and bounds.                                               *)
(*                                                                         *)
(* The invariants are not inductive alone.  What carries them across the   *)
(* statements of one call is CallOK: while mu is held, what the call read  *)
(* before its first statement is still true.                               *)
(***************************************************************************)
EXTENDS WorkQueue, TLAPS

CallOK ==
    /\ call.op = "claim" =>
          /\ state[call.item] = "claimed"
          /\ LeaseExpired(lease[call.item])
    /\ call.op = "attach" =>
          /\ state[call.item] = "claimed"
          /\ owner[call.bundle] = call.item
    /\ call.op = "expire" =>
          \A i \in call.items : state[i] = "claimed"

Inv ==
    /\ TypeOK
    /\ CallOK
    /\ LeaseOnlyWhileWorked
    /\ RefsBacked

-----------------------------------------------------------------------------

\* A lease written now ends in the future, at one of the expiries considered.
LEMMA NewExpiry ==
    ASSUME NEW t \in 0 .. MaxTime, NEW ttl \in TTLs
    PROVE  /\ t + ttl \in Expiries
           /\ t + ttl \in Nat
           /\ t + ttl > t
  BY QueueAssumption DEF Expiries

\* Every expiry is a number.
LEMMA ExpiryIsNat == \A e \in Expiries : e \in Nat
  BY QueueAssumption DEF Expiries

\* So is the one a lease of the table carries.
LEMMA LeaseExpiryIsNat == ASSUME NEW l \in Leases PROVE l.exp \in Nat
<1>1. CASE l = NoLease
  BY <1>1 DEF NoLease
<1>2. CASE l \in [by : Workers, exp : Expiries]
  <2>1. l.exp \in Expiries
    BY <1>2
  <2> QED
    BY <2>1, ExpiryIsNat
<1> QED
  BY <1>1, <1>2 DEF Leases

\* The table of validTransition leads to named states only, and to "claimed"
\* only from "claimable".
LEMMA TableTargets ==
    ASSUME NEW from \in States, NEW to, ValidTransition(from, to)
    PROVE  to \in States /\ (to = "claimed" => from = "claimable")
  BY DEF ValidTransition, States

LEMMA InitInv == Init => Inv
  BY QueueAssumption
     DEF Init, Inv, TypeOK, CallOK, LeaseOnlyWhileWorked, RefsBacked,
         NoLease, Leases, Idle, Calls, NoRow, Rows, States

\* Every state change of a call is a save that is logged or the overwrite of a
\* row: these two facts about their types serve all of them.
LEMMA LeaseType ==
    ASSUME NEW w \in Workers, NEW e \in Expiries
    PROVE  LeaseUntil(w, e) \in Leases /\ NoLease \in Leases
  BY DEF LeaseUntil, Leases

LEMMA SaveAndLogType ==
    ASSUME TypeOK, NEW i \in Items, NEW to \in States, NEW l \in Leases,
           SaveAndLog(i, to, l)
    PROVE  /\ state' \in [Items -> States \cup {"absent"}]
           /\ lease' \in [Items -> Leases]
           /\ row' \in Rows
  BY DEF TypeOK, SaveAndLog, Rows

-----------------------------------------------------------------------------

\* One step of the queue keeps the types.
LEMMA TypeStep == Inv /\ [Next]_queueVars => TypeOK'
<1> SUFFICES ASSUME Inv, [Next]_queueVars PROVE TypeOK'
  OBVIOUS
<1>t. TypeOK /\ CallOK
  BY DEF Inv
<1> USE QueueAssumption
<1>1. ASSUME NEW i \in Items, Upsert(i) \/ EnqueueItem(i) PROVE TypeOK'
  BY <1>t, <1>1 DEF TypeOK, Upsert, EnqueueItem, Overwrite, Leases, States
<1>2. CASE EnqueueRow
  BY <1>t, <1>2 DEF TypeOK, EnqueueRow, States
<1>3. ASSUME NEW i \in Items, NEW w \in Workers, NEW ttl \in TTLs,
             Claim(i, w, ttl)
      PROVE  TypeOK'
  <2>1. LeaseUntil(w, clock + ttl) \in Leases
    BY <1>t, NewExpiry, LeaseType DEF TypeOK
  <2> QED
    BY <1>t, <1>3, <2>1 DEF TypeOK, Claim, States, Rows
<1>4. ASSUME NEW i \in Items, NEW w \in Workers, NEW ttl \in TTLs,
             ClaimExpired(i, w, ttl)
      PROVE  TypeOK'
  <2>1. clock + ttl \in Expiries
    BY <1>t, NewExpiry DEF TypeOK
  <2>2. call' \in Calls
    BY <1>4, <2>1 DEF ClaimExpired, Calls
  <2> QED
    BY <1>t, <1>4, <2>2 DEF TypeOK, ClaimExpired, States
<1>5. CASE FinishClaim
  <2>1. call.item \in Items /\ call.worker \in Workers /\ call.exp \in Expiries
    BY <1>t, <1>5 DEF TypeOK, Calls, Idle, FinishClaim
  <2>2. LeaseUntil(call.worker, call.exp) \in Leases
    BY <2>1, LeaseType
  <2> QED
    BY <1>t, <1>5, <2>1, <2>2 DEF TypeOK, FinishClaim, SaveAndLog, Rows, States, Calls
<1>6. ASSUME NEW i \in Items, NEW w \in Workers, Release(i, w) PROVE TypeOK'
  BY <1>t, <1>6 DEF TypeOK, Release, SaveAndLog, Rows, States, Leases
<1>7. ASSUME NEW i \in Items, NEW w \in Workers, NEW ttl \in TTLs,
             Heartbeat(i, w, ttl)
      PROVE  TypeOK'
  <2>1. clock + ttl \in Expiries
    BY <1>t, NewExpiry DEF TypeOK
  <2>2. lease[i] \in [by : Workers, exp : Expiries]
    BY <1>t, <1>7 DEF TypeOK, Heartbeat, HeldBy, Leases, NoLease
  <2>3. [lease[i] EXCEPT !.exp = clock + ttl] \in Leases
    BY <2>1, <2>2 DEF Leases
  <2> QED
    BY <1>t, <1>7, <2>3 DEF TypeOK, Heartbeat
<1>8. CASE ExpireLeases
  BY <1>t, <1>8 DEF TypeOK, ExpireLeases, Expired, Calls
<1>9. ASSUME NEW i \in Items, ExpireOne(i) PROVE TypeOK'
  <2>1. call.items \in SUBSET Items
    BY <1>t, <1>9 DEF TypeOK, Calls, Idle, ExpireOne
  <2>2. call' \in Calls
    BY <1>9, <2>1 DEF ExpireOne, Calls
  <2> QED
    BY <1>t, <1>9, <2>2 DEF TypeOK, ExpireOne, SaveAndLog, Rows, States, Leases
<1>10. ASSUME NEW i \in Items, NEW from \in States, NEW to \in States,
              Transition(i, from, to)
       PROVE  TypeOK'
  BY <1>t, <1>10 DEF TypeOK, Transition, SaveAndLog, Rows, Leases
<1>11. ASSUME NEW i \in Items, NEW b \in Bundles, AttachKnown(i, b) PROVE TypeOK'
  BY <1>t, <1>11 DEF TypeOK, AttachKnown
<1>12. ASSUME NEW i \in Items, NEW w \in Workers, NEW b \in Bundles,
              AttachNew(i, w, b)
       PROVE  TypeOK'
  BY <1>t, <1>12 DEF TypeOK, AttachNew, Calls
<1>13. CASE FinishAttach
  <2>1. call.item \in Items /\ call.bundle \in Bundles
    BY <1>t, <1>13 DEF TypeOK, Calls, Idle, FinishAttach
  <2> QED
    BY <1>t, <1>13, <2>1 DEF TypeOK, FinishAttach, SaveAndLog, Rows, States, Calls
<1>14. CASE AppendRow
  BY <1>t, <1>14 DEF TypeOK, AppendRow, Rows, NoRow, States
<1>15. CASE Crash
  BY <1>t, <1>15 DEF TypeOK, Crash, Calls, Rows
<1>16. CASE Tick
  BY <1>t, <1>16 DEF TypeOK, Tick
<1>c. CASE Cancel
  BY <1>t, <1>c DEF TypeOK, Cancel, Calls, Rows
<1>17. CASE UNCHANGED queueVars
  BY <1>t, <1>17 DEF TypeOK, queueVars
<1> QED
  BY <1>1, <1>2, <1>3, <1>4, <1>5, <1>6, <1>7, <1>8, <1>9, <1>10, <1>11,
     <1>12, <1>13, <1>14, <1>15, <1>16, <1>c, <1>17
     DEF Next, Request, Statement

-----------------------------------------------------------------------------

\* What a call read before its first statement is still true at its next one:
\* mu keeps every other call out.
LEMMA CallStep == Inv /\ [Next]_queueVars => CallOK'
<1> SUFFICES ASSUME Inv, [Next]_queueVars PROVE CallOK'
  OBVIOUS
<1>t. TypeOK /\ CallOK
  BY DEF Inv
<1>c. CASE call' = Idle
  BY <1>c DEF CallOK, Idle
<1>m. CASE call' = call /\ MuFree
  BY <1>m DEF CallOK, Idle, MuFree
<1>u. CASE UNCHANGED <<call, state, lease, owner, clock>>
  BY <1>t, <1>u DEF CallOK, LeaseExpired
<1>1. ASSUME NEW i \in Items, Upsert(i) \/ EnqueueItem(i) PROVE CallOK'
  BY <1>1, <1>m DEF Upsert, EnqueueItem, Overwrite
<1>2. ASSUME NEW i \in Items, NEW w \in Workers, NEW ttl \in TTLs,
             Claim(i, w, ttl) \/ Heartbeat(i, w, ttl)
      PROVE  CallOK'
  BY <1>2, <1>m DEF Claim, Heartbeat
<1>r. ASSUME NEW i \in Items, NEW w \in Workers, Release(i, w) PROVE CallOK'
  BY <1>r, <1>m DEF Release
<1>3. ASSUME NEW i \in Items, NEW w \in Workers, NEW ttl \in TTLs,
             ClaimExpired(i, w, ttl)
      PROVE  CallOK'
  <2>1. LeaseExpired(lease[i])
    \* a claimed item is not claimable, and this one is another worker's
    BY <1>3 DEF ClaimExpired, MayClaim, TakesOver, HeldBy
  <2>2. /\ state' = state /\ lease' = lease /\ clock' = clock
        /\ state[i] = "claimed"
        /\ call'.op = "claim" /\ call'.item = i
    BY <1>3 DEF ClaimExpired, TakesOver
  <2> QED
    BY <2>1, <2>2 DEF CallOK, LeaseExpired
<1>4. CASE ExpireLeases
  BY <1>4 DEF ExpireLeases, Expired, CallOK
<1>5. ASSUME NEW i \in Items, ExpireOne(i) PROVE CallOK'
  <2>1. \A j \in call.items \ {i} : state'[j] = "claimed"
    <3>1. call.items \subseteq Items
      BY <1>t, <1>5 DEF TypeOK, Calls, Idle, ExpireOne
    <3> QED
      BY <1>t, <1>5, <3>1 DEF TypeOK, CallOK, ExpireOne, SaveAndLog
  <2> QED
    BY <1>5, <2>1, <1>c DEF ExpireOne, CallOK
<1>6. ASSUME NEW i \in Items, NEW from \in States, NEW to \in States,
             Transition(i, from, to)
      PROVE  CallOK'
  BY <1>6, <1>m DEF Transition
<1>7. ASSUME NEW i \in Items, NEW w \in Workers, NEW b \in Bundles,
             AttachNew(i, w, b)
      PROVE  CallOK'
  BY <1>t, <1>7 DEF AttachNew, HeldBy, CallOK, TypeOK
<1>8. ASSUME NEW i \in Items, NEW b \in Bundles, AttachKnown(i, b) PROVE CallOK'
  BY <1>8, <1>m DEF AttachKnown
<1>9. CASE FinishClaim \/ FinishAttach \/ Crash
  BY <1>9, <1>c DEF FinishClaim, FinishAttach, Crash
<1>x. CASE Cancel
  BY <1>x, <1>c, <1>u DEF Cancel
<1>10. CASE EnqueueRow \/ AppendRow \/ UNCHANGED queueVars
  BY <1>10, <1>u DEF EnqueueRow, AppendRow, queueVars
<1>11. CASE Tick
  \* an expired lease stays expired
  <2>1. clock' = clock + 1 /\ call' = call /\ state' = state
        /\ lease' = lease /\ owner' = owner /\ clock \in Nat
    BY <1>t, <1>11 DEF Tick, TypeOK
  <2>2. ASSUME call.op = "claim" PROVE lease[call.item].exp \in Nat
    <3>1. lease[call.item] \in Leases
      BY <1>t, <2>2 DEF TypeOK, Calls, Idle
    <3> QED
      BY <3>1, LeaseExpiryIsNat
  <2>3. call.op = "claim" => LeaseExpired(lease[call.item])'
    BY <1>t, <2>1, <2>2 DEF CallOK, LeaseExpired
  <2> QED
    BY <1>t, <2>1, <2>3 DEF CallOK
<1> QED
  BY <1>1, <1>2, <1>r, <1>3, <1>4, <1>5, <1>6, <1>7, <1>8, <1>9, <1>x, <1>10,
     <1>11
     DEF Next, Request, Statement

-----------------------------------------------------------------------------

\* Leases are written for claimed items only; whatever else changes a state
\* clears the lease, or leaves the one of an item that becomes preflighted.
LEMMA LeaseStep == Inv /\ [Next]_queueVars => LeaseOnlyWhileWorked'
<1> SUFFICES ASSUME Inv, [Next]_queueVars PROVE LeaseOnlyWhileWorked'
  OBVIOUS
<1>t. TypeOK /\ CallOK /\ LeaseOnlyWhileWorked
  BY DEF Inv
<1>s. ASSUME NEW i \in Items, NEW to \in States, NEW l \in Leases,
             SaveAndLog(i, to, l),
             l # NoLease => to \in {"claimed", "preflighted"}
      PROVE  LeaseOnlyWhileWorked'
  BY <1>t, <1>s DEF TypeOK, SaveAndLog, LeaseOnlyWhileWorked
<1>u. CASE UNCHANGED <<state, lease>>
  BY <1>t, <1>u DEF LeaseOnlyWhileWorked
<1>n. NoLease \in Leases
  BY DEF Leases
<1>1. ASSUME NEW i \in Items, Upsert(i) \/ EnqueueItem(i)
      PROVE  LeaseOnlyWhileWorked'
  BY <1>t, <1>1 DEF Upsert, EnqueueItem, Overwrite, TypeOK, LeaseOnlyWhileWorked
<1>2. ASSUME NEW i \in Items, NEW w \in Workers, NEW ttl \in TTLs,
             Claim(i, w, ttl)
      PROVE  LeaseOnlyWhileWorked'
  BY <1>t, <1>2 DEF Claim, TypeOK, LeaseOnlyWhileWorked
<1>3. ASSUME NEW i \in Items, NEW w \in Workers, Release(i, w)
      PROVE  LeaseOnlyWhileWorked'
  BY <1>n, <1>3, <1>s DEF Release, States
<1>4. ASSUME NEW i \in Items, NEW w \in Workers, NEW ttl \in TTLs,
             Heartbeat(i, w, ttl)
      PROVE  LeaseOnlyWhileWorked'
  BY <1>t, <1>4 DEF Heartbeat, HeldBy, TypeOK, LeaseOnlyWhileWorked
<1>5. CASE FinishClaim
  <2>1. call.item \in Items
    BY <1>t, <1>5 DEF TypeOK, Calls, Idle, FinishClaim
  <2> QED
    BY <1>t, <1>5, <2>1 DEF FinishClaim, SaveAndLog, TypeOK, LeaseOnlyWhileWorked
<1>6. ASSUME NEW i \in Items, ExpireOne(i) PROVE LeaseOnlyWhileWorked'
  BY <1>n, <1>6, <1>s DEF ExpireOne, States
<1>7. ASSUME NEW i \in Items, NEW from \in States, NEW to \in States,
             Transition(i, from, to)
      PROVE  LeaseOnlyWhileWorked'
  <2>1. to = "claimed" => state[i] = "claimable"
    BY <1>7, TableTargets DEF Transition
  <2>2. to = "claimed" => lease[i] = NoLease
    BY <1>t, <2>1 DEF LeaseOnlyWhileWorked
  <2>3. SaveAndLog(i, to, NoLease)
    BY <1>7, <2>2 DEF Transition
  <2> QED
    BY <1>n, <1>s, <2>3
<1>8. CASE FinishAttach
  <2>1. call.item \in Items
    BY <1>t, <1>8 DEF TypeOK, Calls, Idle, FinishAttach
  <2>2. lease[call.item] \in Leases
    BY <1>t, <2>1 DEF TypeOK
  <2>3. SaveAndLog(call.item, "preflighted", lease[call.item])
    BY <1>8 DEF FinishAttach
  <2> QED
    BY <1>s, <2>1, <2>2, <2>3 DEF States
<1>9. ASSUME NEW i \in Items, NEW w \in Workers, NEW ttl \in TTLs,
             ClaimExpired(i, w, ttl)
      PROVE  LeaseOnlyWhileWorked'
  BY <1>9, <1>u DEF ClaimExpired
<1>k. ASSUME NEW i \in Items, NEW b \in Bundles, AttachKnown(i, b)
      PROVE  LeaseOnlyWhileWorked'
  BY <1>k, <1>u DEF AttachKnown
<1>a. ASSUME NEW i \in Items, NEW w \in Workers, NEW b \in Bundles,
             AttachNew(i, w, b)
      PROVE  LeaseOnlyWhileWorked'
  BY <1>a, <1>u DEF AttachNew
<1>10. CASE ExpireLeases \/ EnqueueRow \/ AppendRow \/ Cancel \/ Crash \/ Tick
            \/ UNCHANGED queueVars
  BY <1>10, <1>u DEF ExpireLeases, EnqueueRow, AppendRow, Cancel, Crash, Tick, queueVars
<1> QED
  BY <1>1, <1>2, <1>3, <1>4, <1>5, <1>6, <1>7, <1>8, <1>9, <1>k, <1>a, <1>10
     DEF Next, Request, Statement

-----------------------------------------------------------------------------

\* A reference is stored after its bundle, a bundle is never removed, and the
\* bundle a call is about to refer to is the one it inserted.
LEMMA RefsStep == Inv /\ [Next]_queueVars => RefsBacked'
<1> SUFFICES ASSUME Inv, [Next]_queueVars PROVE RefsBacked'
  OBVIOUS
<1>t. TypeOK /\ CallOK /\ RefsBacked
  BY DEF Inv
<1>u. CASE UNCHANGED <<refs, owner>>
  BY <1>t, <1>u DEF RefsBacked
<1>1. ASSUME NEW i \in Items, Upsert(i) \/ EnqueueItem(i) PROVE RefsBacked'
  BY <1>t, <1>1 DEF Upsert, EnqueueItem, Overwrite, TypeOK, RefsBacked
<1>2. ASSUME NEW i \in Items, NEW w \in Workers, NEW ttl \in TTLs,
             Claim(i, w, ttl) \/ ClaimExpired(i, w, ttl) \/ Heartbeat(i, w, ttl)
      PROVE  RefsBacked'
  BY <1>2, <1>u DEF Claim, ClaimExpired, Heartbeat
<1>3. ASSUME NEW i \in Items, NEW w \in Workers, Release(i, w) PROVE RefsBacked'
  BY <1>3, <1>u DEF Release
<1>4. ASSUME NEW i \in Items, ExpireOne(i) PROVE RefsBacked'
  BY <1>4, <1>u DEF ExpireOne
<1>5. ASSUME NEW i \in Items, NEW from \in States, NEW to \in States,
             Transition(i, from, to)
      PROVE  RefsBacked'
  BY <1>5, <1>u DEF Transition
<1>6. ASSUME NEW i \in Items, NEW b \in Bundles, AttachKnown(i, b)
      PROVE  RefsBacked'
  BY <1>t, <1>6 DEF AttachKnown, TypeOK, RefsBacked
<1>7. ASSUME NEW i \in Items, NEW w \in Workers, NEW b \in Bundles,
             AttachNew(i, w, b)
      PROVE  RefsBacked'
  \* the bundle belonged to no item, so no item referred to it
  BY <1>t, <1>7, QueueAssumption DEF AttachNew, TypeOK, RefsBacked
<1>8. CASE FinishAttach
  <2>1. call.item \in Items /\ owner[call.bundle] = call.item
    BY <1>t, <1>8 DEF TypeOK, Calls, Idle, FinishAttach, CallOK
  <2> QED
    BY <1>t, <1>8, <2>1 DEF FinishAttach, TypeOK, RefsBacked
<1>9. CASE ExpireLeases \/ FinishClaim \/ EnqueueRow \/ AppendRow \/ Cancel \/ Crash
           \/ Tick \/ UNCHANGED queueVars
  BY <1>9, <1>u DEF ExpireLeases, FinishClaim, EnqueueRow, AppendRow, Cancel, Crash,
     Tick, queueVars
<1> QED
  BY <1>1, <1>2, <1>3, <1>4, <1>5, <1>6, <1>7, <1>8, <1>9
     DEF Next, Request, Statement

-----------------------------------------------------------------------------

\* The inductive invariant holds in every reachable state.
THEOREM Invariance == Spec => []Inv
<1>1. Init => Inv
  BY InitInv
<1>2. Inv /\ [Next]_queueVars => Inv'
  BY TypeStep, CallStep, LeaseStep, RefsStep DEF Inv
<1> QED
  BY <1>1, <1>2, PTL DEF Spec

\* Every operation of the queue keeps the types of its tables and of the call
\* in progress.
THEOREM TypeCorrect == Spec => []TypeOK
  BY Invariance, PTL DEF Inv

\* An item that holds a lease is claimed or preflighted: no terminal,
\* claimable or proposed item ever shows an owner.
THEOREM LeasesAreWorked == Spec => []LeaseOnlyWhileWorked
  BY Invariance, PTL DEF Inv

\* A proof reference never dangles, whatever crash separates the statements.
THEOREM ProofsAreBacked == Spec => []RefsBacked
  BY Invariance, PTL DEF Inv

-----------------------------------------------------------------------------

\* A lease written by a claim is one the service could grant: none was alive.
LEMMA GrantStep ==
    ASSUME Inv, NEW i \in Items, NEW w \in Workers, NEW e \in Expiries,
           LeaseExpired(lease[i]),
           lease' = [lease EXCEPT ![i] = LeaseUntil(w, e)], clock' = clock
    PROVE  LS!Next
<1>1. lease[i].exp \in Nat /\ clock \in Nat
  <2>1. lease[i] \in Leases /\ clock \in Nat
    BY DEF Inv, TypeOK
  <2> QED
    BY <2>1, LeaseExpiryIsNat
<1>2. LS!Grant(i, w, e)
  BY <1>1 DEF LS!Grant, LS!Alive, LeaseExpired, LeaseUntil
<1> QED
  BY <1>2 DEF LS!Next

\* A cleared lease is a withdrawn one.
LEMMA WithdrawStep ==
    ASSUME NEW i \in Items, lease' = [lease EXCEPT ![i] = NoLease],
           clock' = clock
    PROVE  LS!Next
  BY DEF LS!Next, LS!Withdraw, LS!NoLease, NoLease

\* Only the holder renews, and the renewed lease is its own.
LEMMA RenewStep ==
    ASSUME Inv, NEW i \in Items, NEW w \in Workers, NEW e \in Expiries,
           HeldBy(i, w), clock' = clock,
           lease' = [lease EXCEPT ![i].exp = e]
    PROVE  LS!Next
<1>1. lease[i] # NoLease
  BY QueueAssumption DEF HeldBy, NoLease
<1>2. LS!Renew(i, e)
  BY <1>1 DEF LS!Renew, LS!NoLease, NoLease
<1> QED
  BY <1>2 DEF LS!Next

\* Every step of the queue is a step of the lease service, or leaves it alone.
LEMMA ServiceStep == Inv /\ [Next]_queueVars => [LS!Next]_(LS!vars)
<1> SUFFICES ASSUME Inv, [Next]_queueVars PROVE [LS!Next]_(LS!vars)
  OBVIOUS
<1>t. TypeOK /\ CallOK /\ LeaseOnlyWhileWorked
  BY DEF Inv
<1>u. CASE UNCHANGED <<clock, lease>>
  BY <1>u DEF LS!vars
<1>1. ASSUME NEW i \in Items, Upsert(i) \/ EnqueueItem(i) PROVE LS!Next
  BY <1>1, WithdrawStep DEF Upsert, EnqueueItem, Overwrite
<1>2. ASSUME NEW i \in Items, NEW w \in Workers, NEW ttl \in TTLs,
             Claim(i, w, ttl)
      PROVE  LS!Next
  <2>e. clock + ttl \in Expiries
    BY <1>t, NewExpiry DEF TypeOK
  <2>l. /\ lease' = [lease EXCEPT ![i] = LeaseUntil(w, clock + ttl)]
        /\ clock' = clock
    BY <1>2 DEF Claim
  <2>1. CASE HeldBy(i, w)
    \* the worker's own claim is renewed
    <3>1. lease[i] \in [by : Workers, exp : Expiries] /\ lease[i].by = w
      BY <1>t, <2>1, QueueAssumption DEF TypeOK, HeldBy, Leases, NoLease
    <3>2. [lease[i] EXCEPT !.exp = clock + ttl] = LeaseUntil(w, clock + ttl)
      BY <3>1 DEF LeaseUntil
    <3>3. lease' = [lease EXCEPT ![i].exp = clock + ttl]
      BY <1>t, <2>l, <3>2 DEF TypeOK
    <3> QED
      BY <2>e, <2>l, <2>1, <3>3, RenewStep
  <2>2. CASE ~HeldBy(i, w)
    <3>1. LeaseExpired(lease[i])
      \* a claimable item has no lease
      BY <1>t, <1>2, <2>2
         DEF Claim, MayClaim, LeaseOnlyWhileWorked, LeaseExpired, NoLease, TypeOK
    <3> QED
      BY <2>e, <2>l, <3>1, GrantStep
  <2> QED
    BY <2>1, <2>2
<1>3. ASSUME NEW i \in Items, NEW w \in Workers, NEW ttl \in TTLs,
             ClaimExpired(i, w, ttl)
      PROVE  [LS!Next]_(LS!vars)
  BY <1>3, <1>u DEF ClaimExpired
<1>4. CASE FinishClaim
  <2>1. /\ call.item \in Items /\ call.worker \in Workers
        /\ call.exp \in Expiries
        /\ LeaseExpired(lease[call.item])
    BY <1>t, <1>4 DEF TypeOK, Calls, Idle, FinishClaim, CallOK
  <2> QED
    BY <1>4, <2>1, GrantStep DEF FinishClaim, SaveAndLog
<1>5. ASSUME NEW i \in Items, NEW w \in Workers, Release(i, w) PROVE LS!Next
  BY <1>5, WithdrawStep DEF Release, SaveAndLog
<1>6. ASSUME NEW i \in Items, NEW w \in Workers, NEW ttl \in TTLs,
             Heartbeat(i, w, ttl)
      PROVE  LS!Next
  <2>1. clock + ttl \in Expiries
    BY <1>t, NewExpiry DEF TypeOK
  <2> QED
    BY <1>6, <2>1, RenewStep DEF Heartbeat
<1>7. ASSUME NEW i \in Items, ExpireOne(i) PROVE LS!Next
  BY <1>7, WithdrawStep DEF ExpireOne, SaveAndLog
<1>8. ASSUME NEW i \in Items, NEW from \in States, NEW to \in States,
             Transition(i, from, to)
      PROVE  [LS!Next]_(LS!vars)
  <2>1. CASE to = "claimed"
    BY <1>t, <1>8, <1>u, <2>1 DEF Transition, SaveAndLog, TypeOK
  <2>2. CASE to # "claimed"
    BY <1>8, <2>2, WithdrawStep DEF Transition, SaveAndLog
  <2> QED
    BY <2>1, <2>2
<1>9. ASSUME NEW i \in Items, NEW b \in Bundles, AttachKnown(i, b)
      PROVE  [LS!Next]_(LS!vars)
  BY <1>9, <1>u DEF AttachKnown
<1>10. ASSUME NEW i \in Items, NEW w \in Workers, NEW b \in Bundles,
              AttachNew(i, w, b)
       PROVE  [LS!Next]_(LS!vars)
  BY <1>10, <1>u DEF AttachNew
<1>11. CASE FinishAttach
  <2>1. lease' = lease /\ clock' = clock
    BY <1>t, <1>11 DEF FinishAttach, SaveAndLog, TypeOK
  <2> QED
    BY <2>1, <1>u
<1>12. CASE ExpireLeases \/ EnqueueRow \/ AppendRow \/ Cancel \/ Crash
            \/ UNCHANGED queueVars
  BY <1>12, <1>u DEF ExpireLeases, EnqueueRow, AppendRow, Cancel, Crash, queueVars
<1>13. CASE Tick
  BY <1>13 DEF Tick, LS!Next, LS!Tick
<1> QED
  BY <1>1, <1>2, <1>3, <1>4, <1>5, <1>6, <1>7, <1>8, <1>9, <1>10, <1>11,
     <1>12, <1>13
     DEF Next, Request, Statement

\* The queue implements the abstract lease service: at most one live lease per
\* item, which changes hands only after it expired or was withdrawn.
THEOREM ImplementsLeases == Spec => LeaseServiceSpec
<1>1. Init => LS!Init
  BY DEF Init, LS!Init, NoLease, LS!NoLease
<1>2. Inv /\ [Next]_queueVars => [LS!Next]_(LS!vars)
  BY ServiceStep
<1> QED
  BY <1>1, <1>2, Invariance, PTL DEF Spec, LeaseServiceSpec, LS!Spec

-----------------------------------------------------------------------------

\* Work is executed only after it was approved, approved only after it was
\* preflighted or tested, and verified only after it was executed.
THEOREM StatesFollowTheTable == Spec => NoStateSkipped
<1> DEFINE Skip == \A i \in Items : state'[i] # state[i] =>
          /\ state'[i] = "verified" => state[i] = "executed"
          /\ state'[i] = "executed" => state[i] = "approved_for_execution"
          /\ state'[i] = "approved_for_execution"
                 => state[i] \in {"preflighted", "tested"}
<1>1. TypeOK /\ [Next]_queueVars => [Skip]_queueVars
  <2> SUFFICES ASSUME TypeOK, Next PROVE Skip
    OBVIOUS
  <2>s. ASSUME NEW i \in Items, NEW to,
               state' = [state EXCEPT ![i] = to],
               to \in {"executed", "verified", "approved_for_execution"}
                   => ValidTransition(state[i], to)
        PROVE  Skip
    BY <2>s DEF TypeOK, ValidTransition
  <2>u. CASE UNCHANGED state
    BY <2>u
  <2>1. ASSUME NEW i \in Items, Upsert(i) \/ EnqueueItem(i) PROVE Skip
    BY <2>1, <2>s DEF Upsert, EnqueueItem, Overwrite
  <2>2. ASSUME NEW i \in Items, NEW w \in Workers, NEW ttl \in TTLs,
               Claim(i, w, ttl)
        PROVE  Skip
    BY <2>2, <2>s DEF Claim
  <2>3. ASSUME NEW i \in Items, NEW w \in Workers, NEW ttl \in TTLs,
               ClaimExpired(i, w, ttl) \/ Heartbeat(i, w, ttl)
        PROVE  Skip
    BY <2>3, <2>u DEF ClaimExpired, Heartbeat
  <2>4. CASE FinishClaim
    BY <2>4 DEF FinishClaim, SaveAndLog, TypeOK, Calls, Idle
  <2>5. ASSUME NEW i \in Items, NEW w \in Workers, Release(i, w) PROVE Skip
    BY <2>5, <2>s DEF Release, SaveAndLog
  <2>6. ASSUME NEW i \in Items, ExpireOne(i) PROVE Skip
    BY <2>6, <2>s DEF ExpireOne, SaveAndLog
  <2>7. ASSUME NEW i \in Items, NEW from \in States, NEW to \in States,
               Transition(i, from, to)
        PROVE  Skip
    BY <2>7, <2>s DEF Transition, SaveAndLog
  <2>8. ASSUME NEW i \in Items, NEW b \in Bundles, AttachKnown(i, b) PROVE Skip
    BY <2>8, <2>u DEF AttachKnown
  <2>9. ASSUME NEW i \in Items, NEW w \in Workers, NEW b \in Bundles,
               AttachNew(i, w, b)
        PROVE  Skip
    BY <2>9, <2>u DEF AttachNew
  <2>10. CASE FinishAttach
    BY <2>10 DEF FinishAttach, SaveAndLog, TypeOK, Calls, Idle
  <2>11. CASE ExpireLeases \/ EnqueueRow \/ AppendRow \/ Cancel \/ Crash \/ Tick
    BY <2>11, <2>u DEF ExpireLeases, EnqueueRow, AppendRow, Cancel, Crash, Tick
  <2> QED
    BY <2>1, <2>2, <2>3, <2>4, <2>5, <2>6, <2>7, <2>8, <2>9, <2>10, <2>11
       DEF Next, Request, Statement
<1> QED
  BY <1>1, TypeCorrect, PTL DEF Spec, NoStateSkipped

-----------------------------------------------------------------------------

\* The row still to be appended names the state its save has just written.
RowOK == row # NoRow => row.item \in Items /\ state[row.item] = row.to

\* A row of the audit trail names the state its item is in when the row is
\* appended, or says "claimable".
THEOREM RowsAreTrue == Spec => RowsNameTheState
<1> DEFINE Named == \A i \in Items :
               tail'[i] # tail[i] /\ tail'[i] # "claimable" => tail'[i] = state[i]
<1>1. Init => RowOK
  BY DEF Init, RowOK
<1>2. TypeOK /\ RowOK /\ [Next]_queueVars => RowOK'
  <2> SUFFICES ASSUME TypeOK, RowOK, [Next]_queueVars PROVE RowOK'
    OBVIOUS
  <2>s. ASSUME NEW i \in Items, NEW to, NEW l, SaveAndLog(i, to, l) PROVE RowOK'
    BY <2>s DEF SaveAndLog, RowOK, TypeOK
  <2>n. CASE row' = NoRow
    BY <2>n DEF RowOK
  <2>m. CASE MuFree /\ UNCHANGED row
    BY <2>m DEF RowOK, MuFree
  <2>u. CASE UNCHANGED <<row, state>>
    BY <2>u DEF RowOK
  <2>1. ASSUME NEW i \in Items, Upsert(i) \/ EnqueueItem(i) PROVE RowOK'
    BY <2>1, <2>m DEF Upsert, EnqueueItem, Overwrite
  <2>2. ASSUME NEW i \in Items, NEW w \in Workers, NEW ttl \in TTLs,
               Claim(i, w, ttl)
        PROVE  RowOK'
    BY <2>2 DEF Claim, RowOK, TypeOK
  <2>3. ASSUME NEW i \in Items, NEW w \in Workers, NEW ttl \in TTLs,
               ClaimExpired(i, w, ttl) \/ Heartbeat(i, w, ttl)
        PROVE  RowOK'
    BY <2>3, <2>m DEF ClaimExpired, Heartbeat
  <2>4. CASE FinishClaim \/ FinishAttach
    <3>1. call.item \in Items
      BY <2>4 DEF FinishClaim, FinishAttach, TypeOK, Calls, Idle
    <3> QED
      BY <2>4, <2>s, <3>1 DEF FinishClaim, FinishAttach
  <2>5. ASSUME NEW i \in Items, NEW w \in Workers, Release(i, w) PROVE RowOK'
    BY <2>5, <2>s DEF Release
  <2>6. ASSUME NEW i \in Items, ExpireOne(i) PROVE RowOK'
    BY <2>6, <2>s DEF ExpireOne
  <2>7. ASSUME NEW i \in Items, NEW from \in States, NEW to \in States,
               Transition(i, from, to)
        PROVE  RowOK'
    BY <2>7, <2>s DEF Transition
  <2>8. ASSUME NEW i \in Items, NEW b \in Bundles, AttachKnown(i, b) PROVE RowOK'
    BY <2>8, <2>m DEF AttachKnown
  <2>9. ASSUME NEW i \in Items, NEW w \in Workers, NEW b \in Bundles,
               AttachNew(i, w, b)
        PROVE  RowOK'
    BY <2>9, <2>m DEF AttachNew
  <2>10. CASE ExpireLeases \/ EnqueueRow \/ AppendRow \/ Cancel \/ Crash \/ Tick
              \/ UNCHANGED queueVars
    BY <2>10, <2>n, <2>u
       DEF ExpireLeases, EnqueueRow, AppendRow, Cancel, Crash, Tick, queueVars
  <2> QED
    BY <2>1, <2>2, <2>3, <2>4, <2>5, <2>6, <2>7, <2>8, <2>9, <2>10
       DEF Next, Request, Statement
<1>3. TypeOK /\ RowOK /\ [Next]_queueVars => [Named]_queueVars
  <2> SUFFICES ASSUME TypeOK, RowOK, Next PROVE Named
    OBVIOUS
  <2>1. CASE AppendRow
    BY <2>1 DEF AppendRow, RowOK, TypeOK
  <2>2. CASE \E i : tail' = [tail EXCEPT ![i] = "claimable"]
    BY <2>2 DEF TypeOK
  <2>3. CASE UNCHANGED tail
    BY <2>3
  <2> QED
    BY <2>1, <2>2, <2>3
       DEF Next, Request, Statement, Upsert, EnqueueItem, Overwrite, Claim,
           ClaimExpired, Release, Heartbeat, ExpireLeases, ExpireOne, Transition,
           AttachKnown, AttachNew, FinishClaim, FinishAttach, EnqueueRow,
           SaveAndLog, Cancel, Crash, Tick
<1> QED
  BY <1>1, <1>2, <1>3, TypeCorrect, PTL DEF Spec, RowsNameTheState
=============================================================================
