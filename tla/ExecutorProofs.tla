--------------------------- MODULE ExecutorProofs ---------------------------
(***************************************************************************)
(* The live executor keeps its types, accounts for every slot of the       *)
(* breaker, writes only what some stored plan allowed, and records as      *)
(* executed only what GitHub performed, for any goroutines, items,         *)
(* intents, plans and bounds; and an item becomes verified only with the   *)
(* "executed" row of every intent its worker loaded.                       *)
(*                                                                         *)
(* The queue underneath keeps the invariant of WorkQueueProofs.  What the  *)
(* goroutines add is ThreadOK: what each of them remembers, in the batch   *)
(* it loaded and in the place it has reached, agrees with the tables.      *)
(***************************************************************************)
EXTENDS Executor, WorkQueueProofs, FiniteSetTheorems

\* Past the policy check of ExecuteIntent.
Allowed == Inside \ {"check"}

\* After the write to GitHub.
Written == {"shut", "verify", "record"}

\* The four states Worker.ProcessOnce leaves by a Transition.
Stages == {"claimed", "preflighted", "approved_for_execution", "executed"}

\* Where a goroutine is while its queue call is still under way.
Waiting == {"poll", "list", "load", "advance"}

Pcs == {"poll", "list", "claim", "load", "next", "fail", "deny", "advance",
        "stopped"} \cup Inside

GoroutineRecords ==
    [pc : Pcs, item : Items \cup {NoItem}, batch : SUBSET Snaps,
     left : SUBSET Snaps, cur : Snaps \cup {NoSnap}, at : States \cup {"none"}]

InSlot(r) == r.pc \in Inside /\ LiveWrite(r.cur)

Holding(f) == {t \in Threads : InSlot(f[t])}

\* What the record r of a goroutine says, when these intents are granted, these
\* rows are in the ledger and these writes have landed.
ThreadOK(r, allowed, done, sent) ==
    /\ r \in GoroutineRecords
    /\ r.pc \notin {"poll", "list", "stopped"} => r.item \in Items
    /\ r.left \subseteq r.batch
    /\ r.pc \in Inside => r.cur \in r.batch
    /\ IF r.pc = "advance" THEN r.left = {} /\ r.at \in Stages ELSE r.at = "none"
    /\ \A x \in r.batch : Grants(x, x.id) => x.id \in allowed
    /\ r.pc \in Allowed => PolicyAllows(r.cur)
    /\ r.pc \in Written /\ LiveWrite(r.cur) /\ ActionOf[r.cur.id] # "apply_fix"
          => sent[r.cur.id] > 0
    /\ r.pc \in Inside \cup {"next", "advance"} =>
          /\ r.batch # {}
          /\ \A x \in r.batch \ r.left :
                done[x.id] # "none" \/ (r.pc \in Inside /\ x = r.cur)

ThreadsOK ==
    /\ th \in [Threads -> GoroutineRecords]
    /\ \A t \in Threads : ThreadOK(th[t], granted, ledger, landed)
    /\ inFlight \in Nat
    /\ SlotsAccounted

\* While a goroutine waits for a queue call, that call holds mu.
HolderOK ==
    /\ holder \in Threads \cup {NoThread}
    /\ holder # NoThread => ~MuFree /\ th[holder].pc \in Waiting

\* What the tables say of each other.
TablesOK ==
    /\ self \in Servers
    /\ stored \in [Intents -> Plans \cup {NoPlan}]
    /\ writing \in [Intents -> Plans \cup {NoPlan}]
    /\ plans \in 0 .. MaxPlans
    /\ ledger \in [Intents -> {"none", "dry", "live"}]
    /\ pr \in [Items -> {"open", "merged", "closed"}]
    /\ landed \in [Intents -> 0 .. MaxLanded]
    /\ granted \subseteq Intents
    /\ \A a \in Intents : Grants(stored[a], a) => a \in granted
    /\ WritesGranted
    /\ ExecutedWasPerformed

ExecInv == Inv /\ ThreadsOK /\ HolderOK /\ TablesOK

-----------------------------------------------------------------------------

\* Tables only grow: what a goroutine remembers stays true when others write.
LEMMA ThreadKept ==
    ASSUME NEW r, NEW g, NEW h, NEW d, NEW e, NEW s, NEW u,
           ThreadOK(r, g, d, s), g \subseteq h,
           \A a \in Intents : d[a] # "none" => e[a] # "none",
           \A a \in Intents : s[a] > 0 => u[a] > 0
    PROVE  ThreadOK(r, h, e, u)
<1>1. \A x \in r.batch : x.id \in Intents
  BY DEF ThreadOK, GoroutineRecords, Snaps
<1> QED
  BY <1>1 DEF ThreadOK, Written, Inside

\* The slots in use grow or shrink by one with a goroutine that takes or
\* gives back a slot.
LEMMA SlotCount ==
    ASSUME NEW f \in [Threads -> GoroutineRecords], NEW t \in Threads,
           NEW r \in GoroutineRecords
    PROVE  LET g == [f EXCEPT ![t] = r]
               n == Cardinality(Holding(f))
           IN  /\ n \in Nat
               /\ (InSlot(r) <=> InSlot(f[t])) => Cardinality(Holding(g)) = n
               /\ InSlot(r) /\ ~InSlot(f[t]) => Cardinality(Holding(g)) = n + 1
               /\ ~InSlot(r) /\ InSlot(f[t])
                     => n > 0 /\ Cardinality(Holding(g)) = n - 1
<1> DEFINE g == [f EXCEPT ![t] = r]
<1>1. IsFiniteSet(Holding(f)) /\ Cardinality(Holding(f)) \in Nat
  BY ExecutorAssumption, FS_Subset, FS_CardinalityType DEF Holding
<1>2. ASSUME InSlot(r) <=> InSlot(f[t]) PROVE Holding(g) = Holding(f)
  BY <1>2 DEF Holding
<1>3. ASSUME InSlot(r), ~InSlot(f[t])
      PROVE  t \notin Holding(f) /\ Holding(g) = Holding(f) \cup {t}
  BY <1>3 DEF Holding
<1>4. ASSUME ~InSlot(r), InSlot(f[t])
      PROVE  t \in Holding(f) /\ Holding(g) = Holding(f) \ {t}
  BY <1>4 DEF Holding
<1>5. t \in Holding(f) => Cardinality(Holding(f)) > 0
  BY <1>1, FS_EmptySet
<1>6. InSlot(r) /\ ~InSlot(f[t])
         => Cardinality(Holding(g)) = Cardinality(Holding(f)) + 1
  BY <1>1, <1>3, FS_AddElement
<1>7. ~InSlot(r) /\ InSlot(f[t])
         => Cardinality(Holding(g)) = Cardinality(Holding(f)) - 1
  BY <1>1, <1>4, FS_RemoveElement
<1> HIDE DEF g
<1>8. /\ Cardinality(Holding(f)) \in Nat
      /\ (InSlot(r) <=> InSlot(f[t]))
            => Cardinality(Holding(g)) = Cardinality(Holding(f))
      /\ ~InSlot(r) /\ InSlot(f[t]) => Cardinality(Holding(f)) > 0
  BY <1>1, <1>2, <1>4, <1>5
<1> QED
  BY <1>6, <1>7, <1>8 DEF g

\* One goroutine moves, the tables grow, and the breaker counts along.
LEMMA ThreadMoves ==
    ASSUME ThreadsOK, NEW t \in Threads, NEW r,
           th' = [th EXCEPT ![t] = r],
           ThreadOK(r, granted', ledger', landed'),
           granted \subseteq granted',
           \A a \in Intents : ledger[a] # "none" => ledger'[a] # "none",
           \A a \in Intents : landed[a] > 0 => landed'[a] > 0,
           \/ (InSlot(r) <=> InSlot(th[t])) /\ inFlight' = inFlight
           \/ InSlot(r) /\ ~InSlot(th[t])
              /\ inFlight < MaxGlobal /\ inFlight' = inFlight + 1
           \/ ~InSlot(r) /\ InSlot(th[t]) /\ inFlight' = inFlight - 1
    PROVE  ThreadsOK'
<1>1. r \in GoroutineRecords
  BY DEF ThreadOK
<1>2. th' \in [Threads -> GoroutineRecords]
  BY <1>1 DEF ThreadsOK
<1>3. ASSUME NEW u \in Threads PROVE ThreadOK(th'[u], granted', ledger', landed')
  <2>1. CASE u = t
    BY <2>1 DEF ThreadsOK
  <2>2. CASE u # t
    <3>1. th'[u] = th[u] /\ ThreadOK(th[u], granted, ledger, landed)
      BY <2>2 DEF ThreadsOK
    <3>2. ThreadOK(th[u], granted', ledger', landed')
      BY <3>1, ThreadKept
    <3> QED
      BY <3>1, <3>2
  <2> QED
    BY <2>1, <2>2
<1>4. inFlight = Cardinality(Holding(th)) /\ inFlight <= MaxGlobal
      /\ th \in [Threads -> GoroutineRecords]
  BY DEF ThreadsOK, SlotsAccounted, Holding, InSlot
<1>5. /\ inFlight' \in Nat
      /\ inFlight' = Cardinality(Holding(th'))
      /\ inFlight' <= MaxGlobal
  <2>1. /\ (InSlot(r) <=> InSlot(th[t]))
              => Cardinality(Holding(th')) = Cardinality(Holding(th))
        /\ InSlot(r) /\ ~InSlot(th[t])
              => Cardinality(Holding(th')) = Cardinality(Holding(th)) + 1
        /\ ~InSlot(r) /\ InSlot(th[t])
              => /\ Cardinality(Holding(th)) > 0
                 /\ Cardinality(Holding(th')) = Cardinality(Holding(th)) - 1
    BY <1>1, <1>4, SlotCount
  <2>2. MaxGlobal \in Nat /\ inFlight \in Nat
    BY ExecutorAssumption DEF ThreadsOK
  <2> QED
    BY <1>4, <2>1, <2>2
<1> QED
  BY <1>2, <1>3, <1>5 DEF ThreadsOK, SlotsAccounted, Holding, InSlot

-----------------------------------------------------------------------------

\* What a restart or a plan cut short between two intents does to the queue.
CutOff ==
    /\ crashes' = crashes + 1
    /\ \/ call' = Idle /\ row' = NoRow /\ late' = NoItem
       \/ UNCHANGED <<call, row, late>>
    /\ UNCHANGED <<clock, state, lease, refs, owner, tail>>

\* The stages of ProcessOnce are edges of the transition table.
LEMMA StageTargets ==
    ASSUME NEW s \in Stages
    PROVE  s \in States /\ NextStage(s) \in Stages \cup {"verified"}
           /\ NextStage(s) \in States
  BY DEF Stages, States, NextStage

\* Everything the executor and its clients do to the queue, the queue itself
\* could do, but for the restart.
LEMMA QueueMoves ==
    ASSUME ExecInv, [ExecNext]_allVars
    PROVE  [Next]_queueVars \/ CutOff
<1> USE ExecutorAssumption
<1>s. self \in Workers
  BY DEF ExecInv, TablesOK
<1>1. ASSUME NEW t \in Threads, Goroutine(t) PROVE [Next]_queueVars
  <2>t. ThreadOK(th[t], granted, ledger, landed)
    BY DEF ExecInv, ThreadsOK
  <2>1. CASE Poll(t)
    BY <2>1 DEF Poll, Next, Request
  <2>2. CASE ClaimItem(t)
    <3>1. th[t].item \in Items
      BY <2>t, <2>2 DEF ThreadOK, ClaimItem
    <3> QED
      BY <1>s, <2>2, <3>1 DEF ClaimItem, Next, Request, queueVars
  <2>3. CASE FailItem(t)
    <3>1. th[t].item \in Items
      BY <2>t, <2>3 DEF ThreadOK, FailItem
    <3> QED
      BY <2>3, <3>1 DEF FailItem, Next, Request, States
  <2>4. CASE Advance(t)
    <3>1. th[t].item \in Items /\ th[t].at \in Stages
      BY <2>t, <2>4 DEF ThreadOK, Advance
    <3>2. th[t].at \in States /\ NextStage(th[t].at) \in States
      BY <3>1, StageTargets
    <3> QED
      BY <2>4, <3>1, <3>2 DEF Advance, Next, Request
  <2>5. CASE UNCHANGED queueVars
    BY <2>5
  <2> QED
    BY <1>1, <2>1, <2>2, <2>3, <2>4, <2>5
       DEF Goroutine, List, Load, QueryFails, Acquire, Finish, Check, Probe,
           Clear, Write, Shut, Verify, Record
<1>2. CASE QueueStep
  BY <1>2 DEF QueueStep, Next
<1>3. ASSUME NEW i \in Items, NEW p \in Plans, NEW s \in Batches,
             EnqueuePlan(i, s, p)
      PROVE  [Next]_queueVars
  BY <1>3 DEF EnqueuePlan, Next, Request
<1>4. CASE AgentRequest
  BY <1>4 DEF AgentRequest, Agents, Next, Request
<1>5. CASE CutShort
  BY <1>5 DEF CutShort, Next
<1>6. CASE AbandonPlan \/ Restart
  BY <1>6 DEF AbandonPlan, Restart, CutOff
<1>7. CASE TimePasses
  BY <1>7 DEF TimePasses, Next
<1>8. ASSUME NEW a \in Intents, UpsertIntent(a) PROVE UNCHANGED queueVars
  BY <1>8 DEF UpsertIntent
<1>9. ASSUME NEW i \in Items, Outside(i) PROVE UNCHANGED queueVars
  BY <1>9 DEF Outside
<1>10. CASE UNCHANGED allVars
  BY <1>10 DEF allVars
<1> QED
  BY <1>1, <1>2, <1>3, <1>4, <1>5, <1>6, <1>7, <1>8, <1>9, <1>10
     DEF ExecNext, World

\* So the queue keeps its own invariant under the executor.
LEMMA QueueKept ==
    ASSUME Inv, [Next]_queueVars \/ CutOff
    PROVE  Inv'
<1>1. CASE [Next]_queueVars
  BY <1>1, TypeStep, CallStep, LeaseStep, RefsStep DEF Inv
<1>2. CASE CutOff
  <2>1. TypeOK'
    BY <1>2 DEF Inv, CutOff, TypeOK, Calls, Rows
  <2>2. CallOK' /\ LeaseOnlyWhileWorked' /\ RefsBacked'
    BY <1>2 DEF Inv, CutOff, CallOK, Idle, LeaseOnlyWhileWorked, RefsBacked,
                LeaseExpired
  <2> QED
    BY <2>1, <2>2 DEF Inv
<1> QED
  BY <1>1, <1>2

-----------------------------------------------------------------------------

\* A step of a goroutine.  Every one of them replaces the goroutine's record,
\* and the new record agrees with the tables again.
LEMMA GoroutineStep ==
    ASSUME ExecInv, NEW t \in Threads, Goroutine(t)
    PROVE  ThreadsOK' /\ HolderOK' /\ TablesOK'
<1> USE ExecutorAssumption
<1>t. /\ ThreadsOK /\ HolderOK /\ TablesOK
      /\ th \in [Threads -> GoroutineRecords] /\ th[t] \in GoroutineRecords
      /\ ThreadOK(th[t], granted, ledger, landed)
  BY DEF ExecInv, ThreadsOK
<1>a. ASSUME UNCHANGED <<self, stored, writing, plans, granted, ledger, pr, landed>>
      PROVE  TablesOK'
  BY <1>t, <1>a DEF TablesOK, WritesGranted, ExecutedWasPerformed
\* A goroutine that nobody waits for, or that has mu, moves.
<1>h. ASSUME NEW r, th' = [th EXCEPT ![t] = r], UNCHANGED holder,
             MuFree \/ (th[t].pc \notin Waiting /\ UNCHANGED <<call, row>>)
      PROVE  HolderOK'
  BY <1>t, <1>h DEF HolderOK, MuFree
<1>w. ASSUME NEW r, th' = [th EXCEPT ![t] = r], Holds(t), r.pc \in Waiting
      PROVE  HolderOK'
  BY <1>t, <1>w DEF HolderOK, MuFree, Holds
\* The tables stay, and so does the breaker: only the record is to be shown.
<1>m. ASSUME NEW r, th' = [th EXCEPT ![t] = r],
             UNCHANGED <<granted, ledger, landed>>,
             ThreadOK(r, granted, ledger, landed),
             \/ (InSlot(r) <=> InSlot(th[t])) /\ inFlight' = inFlight
             \/ InSlot(r) /\ ~InSlot(th[t])
                /\ inFlight < MaxGlobal /\ inFlight' = inFlight + 1
             \/ ~InSlot(r) /\ InSlot(th[t]) /\ inFlight' = inFlight - 1
      PROVE  ThreadsOK'
  BY <1>t, <1>m, ThreadMoves
\* Leave gives the slot back, and forgets the intent.
<1>l. ASSUME NEW p, p \in {"next", "fail"}, Leave(t, p), th[t].pc \in Inside,
             UNCHANGED granted,
             \A a \in Intents : ledger[a] # "none" => ledger'[a] # "none",
             \A a \in Intents : landed[a] > 0 => landed'[a] > 0,
             p = "next" => ledger'[th[t].cur.id] # "none"
      PROVE  ThreadsOK'
  <2> DEFINE r == [th[t] EXCEPT !.pc = p, !.cur = NoSnap]
  <2>1. th' = [th EXCEPT ![t] = r]
    BY <1>l, <1>t DEF Leave
  <2>2. ThreadOK(th[t], granted', ledger', landed')
    BY <1>t, <1>l, ThreadKept
  <2>3. ThreadOK(r, granted', ledger', landed')
    BY <2>2, <1>l DEF ThreadOK, GoroutineRecords, Pcs, Inside, Allowed, Written
  <2>4. ~InSlot(r) /\ (InSlot(th[t]) <=> LiveWrite(th[t].cur))
    BY <1>l, <1>t DEF InSlot, Inside, GoroutineRecords
  <2> HIDE DEF r
  <2>5. ThreadsOK'
    BY <1>t, <1>l, <2>1, <2>3, <2>4, ThreadMoves DEF Leave
  <2> QED
    BY <2>5
\* A goroutine goes on inside ExecuteIntent, past the policy check.
<1>g. ASSUME NEW q \in Allowed, Goto(t, q), th[t].pc \in Inside,
             PolicyAllows(th[t].cur),
             UNCHANGED <<granted, ledger, inFlight>>,
             \A a \in Intents : landed[a] > 0 => landed'[a] > 0,
             q \in Written /\ LiveWrite(th[t].cur)
                /\ ActionOf[th[t].cur.id] # "apply_fix"
                => landed'[th[t].cur.id] > 0
      PROVE  ThreadsOK'
  <2> DEFINE r == [th[t] EXCEPT !.pc = q]
  <2>1. th' = [th EXCEPT ![t] = r]
    BY <1>g, <1>t DEF Goto
  <2>2. ThreadOK(th[t], granted', ledger', landed')
    BY <1>t, <1>g, ThreadKept
  <2>3. ThreadOK(r, granted', ledger', landed')
    BY <2>2, <1>g DEF ThreadOK, GoroutineRecords, Pcs, Inside, Allowed, Written
  <2>4. InSlot(r) <=> InSlot(th[t])
    BY <1>g, <1>t DEF InSlot, Inside, Allowed, GoroutineRecords
  <2> HIDE DEF r
  <2>5. ThreadsOK'
    BY <1>t, <1>g, <2>1, <2>3, <2>4, ThreadMoves
  <2> QED
    BY <2>5
<1>1. CASE Poll(t)
  <2> DEFINE r == [th[t] EXCEPT !.pc = "list"]
  <2>1. th' = [th EXCEPT ![t] = r] /\ Holds(t) /\ th[t].pc = "poll"
        /\ UNCHANGED <<self, tables, ledger, inFlight, github>>
    BY <1>1, <1>t DEF Poll, Goto
  <2>2. ThreadOK(r, granted, ledger, landed) /\ r.pc \in Waiting
        /\ ~InSlot(r) /\ ~InSlot(th[t])
    BY <1>t, <2>1 DEF ThreadOK, GoroutineRecords, Pcs, Inside, Allowed, Written,
                      Waiting, InSlot
  <2> HIDE DEF r
  <2> QED
    BY <1>a, <1>m, <1>w, <2>1, <2>2 DEF tables, github
<1>2. CASE List(t)
  <2>1. UNCHANGED <<queueVars, self, holder, tables, ledger, inFlight, github>>
        /\ MuFree /\ th[t].pc = "list"
    BY <1>2 DEF List
  <2>a. \/ \E i \in Items :
              th' = [th EXCEPT ![t] = [th[t] EXCEPT !.pc = "claim", !.item = i]]
        \/ th' = [th EXCEPT ![t] = [th[t] EXCEPT !.pc = "poll"]]
    BY <1>2, <1>t DEF List, Goto
  <2>2. PICK r : /\ th' = [th EXCEPT ![t] = r]
                 /\ \/ \E i \in Items : r = [th[t] EXCEPT !.pc = "claim", !.item = i]
                    \/ r = [th[t] EXCEPT !.pc = "poll"]
    BY <2>a, Zenon
  <2>3. ThreadOK(r, granted, ledger, landed) /\ ~InSlot(r) /\ ~InSlot(th[t])
    BY <1>t, <2>1, <2>2 DEF ThreadOK, GoroutineRecords, Pcs, Inside, Allowed,
                            Written, InSlot
  <2> QED
    BY <1>a, <1>h, <1>m, <2>1, <2>2, <2>3 DEF tables, github
<1>3. CASE ClaimItem(t)
  <2>1. UNCHANGED <<self, tables, ledger, inFlight, github>> /\ th[t].pc = "claim"
    BY <1>3 DEF ClaimItem
  <2>2. CASE Goto(t, "load") /\ Holds(t)
    <3> DEFINE r == [th[t] EXCEPT !.pc = "load"]
    <3>1. th' = [th EXCEPT ![t] = r]
      BY <2>2, <1>t DEF Goto
    <3>2. ThreadOK(r, granted, ledger, landed) /\ ~InSlot(r) /\ ~InSlot(th[t])
          /\ r.pc \in Waiting
      BY <1>t, <2>1 DEF ThreadOK, GoroutineRecords, Pcs, Inside, Allowed,
                        Written, InSlot, Waiting
    <3> HIDE DEF r
    <3> QED
      BY <1>a, <1>w, <1>m, <2>1, <2>2, <3>1, <3>2 DEF tables, github
  <2>3. CASE MuFree /\ th' = [th EXCEPT ![t] = Stopped] /\ UNCHANGED holder
    <3>1. ThreadOK(Stopped, granted, ledger, landed) /\ ~InSlot(Stopped)
          /\ ~InSlot(th[t])
      BY <2>1 DEF ThreadOK, GoroutineRecords, Pcs, Inside, Allowed,
                  Written, InSlot, Stopped, Resting
    <3> QED
      BY <1>a, <1>h, <1>m, <2>1, <2>3, <3>1 DEF tables, github
  <2> QED
    BY <1>3, <2>2, <2>3 DEF ClaimItem
<1>4. CASE Load(t)
  <2> DEFINE loaded == IntentsFor(th[t].item)
             r == [th[t] EXCEPT !.batch = loaded, !.left = loaded,
                                !.pc = IF loaded = {} THEN "fail" ELSE "next"]
  <2>1. /\ UNCHANGED <<queueVars, self, holder, tables, ledger, inFlight, github>>
        /\ th[t].pc = "load" /\ MuFree
        /\ th' = [th EXCEPT ![t] = r]
    BY <1>4, <1>t DEF Load
  <2>2. \A x \in loaded : x \in Snaps /\ (Grants(x, x.id) => x.id \in granted)
    <3> SUFFICES ASSUME NEW x \in loaded
                 PROVE  x \in Snaps /\ (Grants(x, x.id) => x.id \in granted)
      OBVIOUS
    <3>1. PICK a \in Intents :
              /\ stored[a] # NoPlan
              /\ x = [id |-> a, dry |-> stored[a].dry, policy |-> stored[a].policy]
      BY DEF IntentsFor
    <3>2. stored[a] \in Plans
      BY <1>t, <3>1 DEF TablesOK
    <3>3. x \in Snaps
      BY <3>1, <3>2 DEF Snaps
    <3>4. Grants(x, x.id) => Grants(stored[a], a)
      BY <3>1 DEF Grants
    <3> QED
      BY <1>t, <3>1, <3>3, <3>4 DEF TablesOK
  <2> HIDE DEF loaded
  <2>3. ThreadOK(r, granted, ledger, landed) /\ ~InSlot(r) /\ ~InSlot(th[t])
    BY <1>t, <2>1, <2>2 DEF ThreadOK, GoroutineRecords, Pcs, Inside, Allowed,
                            Written, InSlot
  <2> HIDE DEF r
  <2> QED
    BY <1>a, <1>h, <1>m, <2>1, <2>3 DEF tables, github
<1>5. CASE QueryFails(t)
  <2>1. UNCHANGED <<queueVars, self, holder, tables, ledger, inFlight, github>>
        /\ MuFree /\ th[t].pc \in {"poll", "list", "load"}
    BY <1>5 DEF QueryFails
  <2>2. PICK r : /\ th' = [th EXCEPT ![t] = r]
                 /\ \/ r = Stopped
                    \/ th[t].pc = "load" /\ r = [th[t] EXCEPT !.pc = "fail"]
    BY <1>5, <1>t DEF QueryFails, Goto
  <2>3. ThreadOK(r, granted, ledger, landed) /\ ~InSlot(r) /\ ~InSlot(th[t])
    BY <1>t, <2>1, <2>2 DEF ThreadOK, GoroutineRecords, Pcs, Inside, Allowed,
                            Written, InSlot, Stopped, Resting
  <2> QED
    BY <1>a, <1>h, <1>m, <2>1, <2>2, <2>3 DEF tables, github
<1>6. ASSUME NEW x \in th[t].left, Acquire(t, x)
      PROVE  ThreadsOK' /\ HolderOK' /\ TablesOK'
  <2>1. UNCHANGED <<queueVars, self, holder, tables, ledger, github>>
        /\ th[t].pc = "next"
    BY <1>6 DEF Acquire
  <2>2. CASE Goto(t, "deny") /\ UNCHANGED inFlight
    <3> DEFINE r == [th[t] EXCEPT !.pc = "deny"]
    <3>1. th' = [th EXCEPT ![t] = r]
      BY <2>2, <1>t DEF Goto
    <3>2. ThreadOK(r, granted, ledger, landed) /\ ~InSlot(r) /\ ~InSlot(th[t])
      BY <1>t, <2>1 DEF ThreadOK, GoroutineRecords, Pcs, Inside, Allowed,
                        Written, InSlot
    <3> HIDE DEF r
    <3> QED
      BY <1>a, <1>h, <1>m, <2>1, <2>2, <3>1, <3>2 DEF tables, github, queueVars, Waiting
  <2>3. CASE ~(LiveWrite(x) /\ inFlight >= MaxGlobal)
    <3> DEFINE r == [th[t] EXCEPT !.pc = "check", !.cur = x, !.left = @ \ {x}]
    <3>1. th' = [th EXCEPT ![t] = r]
          /\ inFlight' = IF LiveWrite(x) THEN inFlight + 1 ELSE inFlight
      BY <1>6, <2>3, <1>t DEF Acquire
    <3>2. ThreadOK(r, granted, ledger, landed)
          /\ (InSlot(r) <=> LiveWrite(x)) /\ ~InSlot(th[t])
      BY <1>t, <1>6, <2>1 DEF ThreadOK, GoroutineRecords, Pcs, Inside, Allowed,
                        Written, InSlot
    <3>3. inFlight \in Nat /\ MaxGlobal \in Nat
      BY <1>t DEF ThreadsOK
    <3> HIDE DEF r
    <3>4. \/ (InSlot(r) <=> InSlot(th[t])) /\ inFlight' = inFlight
          \/ InSlot(r) /\ ~InSlot(th[t])
             /\ inFlight < MaxGlobal /\ inFlight' = inFlight + 1
      BY <2>3, <3>1, <3>2, <3>3
    <3> QED
      BY <1>a, <1>h, <1>m, <2>1, <3>1, <3>2, <3>4
         DEF tables, github, queueVars, Waiting
  <2> QED
    BY <1>6, <2>2, <2>3 DEF Acquire
<1>7. CASE Finish(t)
  <2> DEFINE r == [th[t] EXCEPT !.pc = "advance", !.at = "claimed"]
  <2>1. /\ UNCHANGED <<queueVars, self, holder, tables, ledger, inFlight, github>>
        /\ th[t].pc = "next" /\ th[t].left = {} /\ th' = [th EXCEPT ![t] = r]
    BY <1>7, <1>t DEF Finish
  <2>2. ThreadOK(r, granted, ledger, landed) /\ ~InSlot(r) /\ ~InSlot(th[t])
    BY <1>t, <2>1 DEF ThreadOK, GoroutineRecords, Pcs, Inside, Allowed,
                      Written, InSlot, Stages, States
  <2> HIDE DEF r
  <2> QED
    BY <1>a, <1>h, <1>m, <2>1, <2>2 DEF tables, github, queueVars, Waiting
\* The intent in hand, wherever ExecuteIntent is.
<1>c. ASSUME th[t].pc \in Inside
      PROVE  /\ th[t].cur \in Snaps /\ th[t].cur.id \in Intents
             /\ ItemOf[th[t].cur.id] \in Items
             /\ Grants(th[t].cur, th[t].cur.id) => th[t].cur.id \in granted
  BY <1>t, <1>c DEF ThreadOK, GoroutineRecords, Snaps
<1>i. ASSUME th[t].pc \in Inside, UNCHANGED <<call, row, holder>>,
             \/ \E p : Leave(t, p)
             \/ \E p : Goto(t, p)
      PROVE  HolderOK'
  <2>1. \A p : Leave(t, p) =>
           th' = [th EXCEPT ![t] = [th[t] EXCEPT !.pc = p, !.cur = NoSnap]]
    BY <1>t DEF Leave
  <2>2. \A p : Goto(t, p) => th' = [th EXCEPT ![t] = [th[t] EXCEPT !.pc = p]]
    BY <1>t DEF Goto
  <2>3. th[t].pc \notin Waiting
    BY <1>i DEF Inside, Waiting
  <2> QED
    BY <1>h, <1>i, <2>1, <2>2, <2>3
<1>8. CASE Check(t)
  <2>1. UNCHANGED <<queueVars, self, holder, tables, ledger, github>>
        /\ th[t].pc = "check" /\ th[t].pc \in Inside
    BY <1>8 DEF Check, Inside
  <2>2. TablesOK' /\ HolderOK'
    BY <1>8, <1>a, <1>i, <2>1 DEF Check, tables, github, queueVars
  <2>3. CASE IsExecuted(th[t].cur.id, TRUE) /\ Leave(t, "next")
    BY <1>l, <2>1, <2>2, <2>3 DEF IsExecuted, tables, github
  <2>4. CASE Leave(t, "fail")
    BY <1>l, <2>1, <2>2, <2>4 DEF tables, github
  <2>5. CASE PolicyAllows(th[t].cur) /\ Goto(t, "probe") /\ UNCHANGED inFlight
    BY <1>g, <2>1, <2>2, <2>5 DEF tables, github, Allowed, Inside, Written
  <2> QED
    BY <1>8, <2>2, <2>3, <2>4, <2>5 DEF Check
<1>p. th[t].pc \in Allowed => PolicyAllows(th[t].cur)
  BY <1>t DEF ThreadOK
<1>9. CASE Probe(t)
  <2>1. UNCHANGED <<queueVars, self, holder, tables, ledger, github>>
        /\ th[t].pc = "probe" /\ th[t].pc \in Inside /\ th[t].pc \in Allowed
    BY <1>9 DEF Probe, Inside, Allowed
  <2>2. TablesOK' /\ HolderOK'
    BY <1>9, <1>a, <1>i, <2>1 DEF Probe, tables, github, queueVars
  <2>3. CASE Leave(t, "fail")
    BY <1>l, <2>1, <2>2, <2>3 DEF tables, github
  <2>4. CASE Goto(t, "clear") /\ UNCHANGED inFlight
    BY <1>g, <1>p, <2>1, <2>2, <2>4 DEF tables, github, Allowed, Inside, Written
  <2> QED
    BY <1>9, <2>2, <2>3, <2>4 DEF Probe
<1>10. CASE Clear(t)
  <2>1. UNCHANGED <<queueVars, self, holder, tables, ledger, github>>
        /\ th[t].pc = "clear" /\ th[t].pc \in Inside /\ th[t].pc \in Allowed
    BY <1>10 DEF Clear, Inside, Allowed
  <2>2. TablesOK' /\ HolderOK'
    BY <1>10, <1>a, <1>i, <2>1 DEF Clear, tables, github, queueVars
  <2>3. CASE Leave(t, "fail")
    BY <1>l, <2>1, <2>2, <2>3 DEF tables, github
  <2>4. CASE Goto(t, "write") /\ UNCHANGED inFlight
    BY <1>g, <1>p, <2>1, <2>2, <2>4 DEF tables, github, Allowed, Inside, Written
  <2> QED
    BY <1>10, <2>2, <2>3, <2>4 DEF Clear
<1>11. CASE Write(t)
  <2> DEFINE x == th[t].cur
  <2>1. UNCHANGED <<queueVars, self, holder, tables, ledger>>
        /\ th[t].pc = "write" /\ th[t].pc \in Inside /\ th[t].pc \in Allowed
    BY <1>11 DEF Write, Inside, Allowed
  <2>2. HolderOK'
    BY <1>11, <1>i, <2>1 DEF Write, queueVars
  <2>3. /\ x.id \in Intents /\ ItemOf[x.id] \in Items
        /\ PolicyAllows(x) /\ (Grants(x, x.id) => x.id \in granted)
    BY <1>c, <1>p, <2>1
  <2>4. LiveWrite(x) => x.id \in granted
    BY <1>c, <2>1, <2>3 DEF PolicyAllows, LiveWrite, Grants
  <2>5. ASSUME Perform(x.id)
        PROVE  /\ landed' \in [Intents -> 0 .. MaxLanded]
               /\ pr' \in [Items -> {"open", "merged", "closed"}]
               /\ landed'[x.id] > 0
               /\ \A a \in Intents : landed[a] > 0 => landed'[a] > 0
               /\ \A a \in Intents : a # x.id => landed'[a] = landed[a]
    BY <1>t, <2>3, <2>5 DEF TablesOK, Perform
  <2> HIDE DEF x
  <2>6. Perform(x.id) /\ LiveWrite(x) => TablesOK'
    BY <1>t, <2>1, <2>4, <2>5
       DEF TablesOK, WritesGranted, ExecutedWasPerformed, tables, LiveWrite
  <2>7. UNCHANGED github => TablesOK'
    BY <1>a, <2>1 DEF tables, github
  <2>8. TablesOK'
    BY <1>11, <2>6, <2>7 DEF Write, x
  <2>9. CASE Goto(t, "record") /\ ~LiveWrite(x) /\ UNCHANGED <<inFlight, github>>
    BY <1>g, <2>1, <2>2, <2>3, <2>8, <2>9 DEF x, tables, github, Allowed, Inside
  <2>10. CASE /\ Goto(t, AfterWrite(x.id)) /\ UNCHANGED inFlight
              /\ \/ ActionOf[x.id] # "apply_fix" /\ Perform(x.id)
                 \/ ActionOf[x.id] = "apply_fix" /\ UNCHANGED github
    <3>1. AfterWrite(x.id) \in Allowed
      BY DEF AfterWrite, Allowed, Inside
    <3>2. \A a \in Intents : landed[a] > 0 => landed'[a] > 0
      BY <2>5, <2>10 DEF github, x
    <3>3. ActionOf[x.id] # "apply_fix" => landed'[x.id] > 0
      BY <2>5, <2>10 DEF x
    <3> QED
      BY <1>g, <2>1, <2>2, <2>3, <2>8, <2>10, <3>1, <3>2, <3>3 DEF x, tables
  <2>11. CASE Leave(t, "fail") /\ (Perform(x.id) \/ UNCHANGED github)
    <3>1. \A a \in Intents : landed[a] > 0 => landed'[a] > 0
      BY <2>5, <2>11 DEF github, x
    <3> QED
      BY <1>l, <2>1, <2>2, <2>8, <2>11, <3>1 DEF tables
  <2> QED
    BY <1>11, <2>2, <2>8, <2>9, <2>10, <2>11 DEF Write, x
<1>12. CASE Shut(t)
  <2>1. UNCHANGED <<queueVars, self, holder, tables, ledger, landed>>
        /\ th[t].pc = "shut" /\ th[t].pc \in Inside /\ th[t].pc \in Allowed
    BY <1>12 DEF Shut, Inside, Allowed
  <2>2. HolderOK'
    BY <1>12, <1>i, <2>1 DEF Shut, queueVars
  <2>3. pr' \in [Items -> {"open", "merged", "closed"}]
    BY <1>t, <1>12 DEF Shut, TablesOK
  <2>4. TablesOK'
    BY <1>t, <2>1, <2>3 DEF TablesOK, WritesGranted, ExecutedWasPerformed, tables
  <2>5. CASE Goto(t, "verify") /\ UNCHANGED inFlight
    <3>1. LiveWrite(th[t].cur) /\ ActionOf[th[t].cur.id] # "apply_fix"
             => landed[th[t].cur.id] > 0
      BY <1>t, <2>1 DEF ThreadOK, Written
    <3> QED
      BY <1>g, <1>p, <2>1, <2>2, <2>4, <2>5, <3>1 DEF tables, Allowed, Inside
  <2>6. CASE Leave(t, "fail")
    BY <1>l, <2>1, <2>2, <2>4, <2>6 DEF tables
  <2> QED
    BY <1>12, <2>5, <2>6 DEF Shut
<1>13. CASE Verify(t)
  <2>1. UNCHANGED <<queueVars, self, holder, tables, ledger, github>>
        /\ th[t].pc = "verify" /\ th[t].pc \in Inside /\ th[t].pc \in Allowed
    BY <1>13 DEF Verify, Inside, Allowed
  <2>2. TablesOK' /\ HolderOK'
    BY <1>13, <1>a, <1>i, <2>1 DEF Verify, tables, github, queueVars
  <2>3. CASE Leave(t, "fail")
    BY <1>l, <2>1, <2>2, <2>3 DEF tables, github
  <2>4. CASE Goto(t, "record") /\ UNCHANGED inFlight
    <3>1. LiveWrite(th[t].cur) /\ ActionOf[th[t].cur.id] # "apply_fix"
             => landed[th[t].cur.id] > 0
      BY <1>t, <2>1 DEF ThreadOK, Written
    <3> QED
      BY <1>g, <1>p, <2>1, <2>2, <2>4, <3>1 DEF tables, github, Allowed, Inside
  <2> QED
    BY <1>13, <2>2, <2>3, <2>4 DEF Verify
<1>14. CASE Record(t)
  <2> DEFINE x == th[t].cur
             written == [ledger EXCEPT ![x.id] =
                            IF LiveWrite(x) THEN "live" ELSE "dry"]
  <2>1. UNCHANGED <<queueVars, self, holder, tables, github>>
        /\ th[t].pc = "record" /\ th[t].pc \in Inside
    BY <1>14 DEF Record, Inside
  <2>2. HolderOK'
    BY <1>14, <1>i, <2>1 DEF Record, queueVars
  <2>3. x.id \in Intents
    BY <1>c, <2>1
  <2>4. LiveWrite(x) /\ ActionOf[x.id] # "apply_fix" => landed[x.id] > 0
    BY <1>t, <2>1 DEF ThreadOK, Written
  <2>5. ledger' \in {ledger, written}
    BY <1>14 DEF Record
  <2>6. /\ ledger' \in [Intents -> {"none", "dry", "live"}]
        /\ \A a \in Intents : ledger[a] # "none" => ledger'[a] # "none"
        /\ \A a \in Intents : ledger'[a] = "live" =>
              \/ ledger[a] = "live"
              \/ a = x.id /\ LiveWrite(x)
    BY <1>t, <2>3, <2>5 DEF TablesOK
  <2>7. TablesOK'
    BY <1>t, <2>1, <2>4, <2>6 DEF TablesOK, WritesGranted, ExecutedWasPerformed,
                                  tables, github
  <2>8. CASE Leave(t, "next") /\ ledger' = written
    <3>1. ledger'[x.id] # "none"
      BY <1>t, <2>3, <2>8 DEF TablesOK
    <3> QED
      BY <1>l, <2>1, <2>2, <2>6, <2>7, <2>8, <3>1 DEF tables, github
  <2>9. CASE Leave(t, "fail")
    BY <1>l, <2>1, <2>2, <2>6, <2>7, <2>9 DEF tables, github
  <2> QED
    BY <1>14, <2>8, <2>9 DEF Record
<1>15. CASE FailItem(t)
  <2>1. UNCHANGED <<self, tables, ledger, inFlight, github>>
        /\ th[t].pc \in {"fail", "deny"} /\ MuFree /\ UNCHANGED holder
    BY <1>15 DEF FailItem, Transition
  <2>2. PICK r \in {Stopped, Resting} : th' = [th EXCEPT ![t] = r]
    BY <1>15 DEF FailItem
  <2>3. ThreadOK(r, granted, ledger, landed) /\ ~InSlot(r) /\ ~InSlot(th[t])
    BY <2>1, <2>2 DEF ThreadOK, GoroutineRecords, Pcs, Inside, Allowed,
                      Written, InSlot, Stopped, Resting
  <2> QED
    BY <1>a, <1>h, <1>m, <2>1, <2>2, <2>3 DEF tables, github
<1>16. CASE Advance(t)
  <2>1. UNCHANGED <<self, tables, ledger, inFlight, github>>
        /\ th[t].pc = "advance"
    BY <1>16 DEF Advance
  <2>2. CASE MuFree /\ th' = [th EXCEPT ![t] = Stopped] /\ UNCHANGED holder
    <3>1. ThreadOK(Stopped, granted, ledger, landed) /\ ~InSlot(Stopped)
          /\ ~InSlot(th[t])
      BY <2>1 DEF ThreadOK, GoroutineRecords, Pcs, Inside, Allowed,
                  Written, InSlot, Stopped, Resting
    <3> QED
      BY <1>a, <1>h, <1>m, <2>1, <2>2, <3>1 DEF tables, github
  <2>3. CASE /\ Holds(t)
             /\ th' = [th EXCEPT ![t] = IF NextStage(th[t].at) = "verified"
                                        THEN Resting
                                        ELSE [@ EXCEPT !.at = NextStage(th[t].at)]]
    <3> DEFINE r == IF NextStage(th[t].at) = "verified" THEN Resting
                    ELSE [th[t] EXCEPT !.at = NextStage(th[t].at)]
    <3>1. th' = [th EXCEPT ![t] = r]
      BY <1>t, <2>3
    <3>2. NextStage(th[t].at) \in Stages \cup {"verified"}
          /\ NextStage(th[t].at) \in States
      BY <1>t, <2>1, StageTargets DEF ThreadOK
    <3>3. ThreadOK(r, granted, ledger, landed) /\ ~InSlot(r) /\ ~InSlot(th[t])
          /\ r.pc \in Waiting
      BY <1>t, <2>1, <3>2 DEF ThreadOK, GoroutineRecords, Pcs, Inside, Allowed,
                  Written, InSlot, Resting, Waiting
    <3> HIDE DEF r
    <3> QED
      BY <1>a, <1>w, <1>m, <2>1, <2>3, <3>1, <3>3 DEF tables, github
  <2> QED
    BY <1>16, <2>2, <2>3 DEF Advance
<1> QED
  BY <1>1, <1>2, <1>3, <1>4, <1>5, <1>6, <1>7, <1>8, <1>9, <1>10, <1>11, <1>12,
     <1>13, <1>14, <1>15, <1>16 DEF Goroutine

-----------------------------------------------------------------------------

\* A step of somebody else: of a queue call, of whoever enqueues plans, of an
\* agent, of a restart or of the outside world.
LEMMA OtherStep ==
    ASSUME ExecInv, QueueStep \/ World \/ TimePasses \/ UNCHANGED allVars
    PROVE  ThreadsOK' /\ HolderOK' /\ TablesOK'
<1> USE ExecutorAssumption
<1>t. ThreadsOK /\ HolderOK /\ TablesOK
  BY DEF ExecInv
<1>a. ASSUME UNCHANGED <<self, stored, granted, ledger, pr, landed>>,
             writing' \in [Intents -> Plans \cup {NoPlan}],
             plans' \in 0 .. MaxPlans
      PROVE  TablesOK'
  BY <1>t, <1>a DEF TablesOK, WritesGranted, ExecutedWasPerformed
<1>u. ASSUME UNCHANGED <<th, ledger, landed, inFlight>>, granted \subseteq granted'
      PROVE  ThreadsOK'
  <2>1. \A t \in Threads : ThreadOK(th[t], granted', ledger, landed)
    BY <1>t, <1>u, ThreadKept DEF ThreadsOK
  <2> QED
    BY <1>t, <1>u, <2>1 DEF ThreadsOK, SlotsAccounted
<1>w. writing \in [Intents -> Plans \cup {NoPlan}] /\ plans \in 0 .. MaxPlans
      /\ [a \in Intents |-> NoPlan] \in [Intents -> Plans \cup {NoPlan}]
  BY <1>t DEF TablesOK
<1>1. CASE QueueStep
  <2>1. HolderOK'
    BY <1>t, <1>1 DEF QueueStep, HolderOK, MuFree
  <2> QED
    BY <1>a, <1>u, <1>w, <1>1, <2>1 DEF QueueStep, tables, github
<1>2. ASSUME NEW i \in Items, NEW p \in Plans, NEW s \in Batches,
             EnqueuePlan(i, s, p)
      PROVE  ThreadsOK' /\ HolderOK' /\ TablesOK'
  <2>1. writing' \in [Intents -> Plans \cup {NoPlan}] /\ plans' \in 0 .. MaxPlans
    BY <1>w, <1>2 DEF EnqueuePlan
  <2>2. HolderOK'
    BY <1>2 DEF EnqueuePlan, HolderOK
  <2> QED
    BY <1>a, <1>u, <1>2, <2>1, <2>2 DEF EnqueuePlan, github
<1>3. ASSUME NEW a \in Intents, UpsertIntent(a)
      PROVE  ThreadsOK' /\ HolderOK' /\ TablesOK'
  <2>1. HolderOK'
    BY <1>t, <1>3 DEF UpsertIntent, HolderOK, MuFree, queueVars
  <2>2. /\ stored' = [stored EXCEPT ![a] = writing[a]]
        /\ writing' = [writing EXCEPT ![a] = NoPlan]
        /\ granted' = IF Grants(writing[a], a) THEN granted \cup {a} ELSE granted
        /\ UNCHANGED <<th, self, plans, ledger, inFlight, pr, landed>>
    BY <1>3 DEF UpsertIntent, github
  <2>3. \A b \in Intents : Grants(stored'[b], b) => b \in granted'
    BY <1>t, <2>2 DEF TablesOK
  <2>4. TablesOK'
    BY <1>t, <1>w, <2>2, <2>3 DEF TablesOK, WritesGranted, ExecutedWasPerformed
  <2> QED
    BY <1>u, <2>1, <2>2, <2>4
<1>4. CASE AgentRequest
  <2>1. HolderOK'
    BY <1>4 DEF AgentRequest, HolderOK
  <2> QED
    BY <1>a, <1>u, <1>w, <1>4, <2>1 DEF AgentRequest, tables, github
<1>5. CASE CutShort
  <2>1. writing' \in [Intents -> Plans \cup {NoPlan}] /\ plans' \in 0 .. MaxPlans
        /\ UNCHANGED <<self, stored, granted, ledger, inFlight, pr, landed>>
    BY <1>w, <1>5 DEF CutShort, github
  <2>2. CASE late' = late /\ holder # NoThread
    <3>1. th' = [th EXCEPT ![holder] = Stopped] /\ holder' = NoThread
      BY <1>5, <2>2 DEF CutShort
    <3>2. holder \in Threads /\ th[holder].pc \in Waiting
      BY <1>t, <2>2 DEF HolderOK
    <3>3. ThreadOK(Stopped, granted, ledger, landed) /\ ~InSlot(Stopped)
          /\ ~InSlot(th[holder])
      BY <3>2 DEF ThreadOK, GoroutineRecords, Pcs, Inside, Allowed, Waiting,
                  Written, InSlot, Stopped, Resting
    <3>4. ThreadsOK'
      BY <1>t, <2>1, <3>1, <3>2, <3>3, ThreadMoves
    <3> QED
      BY <1>a, <2>1, <3>1, <3>4 DEF HolderOK
  <2>3. CASE ~(late' = late /\ holder # NoThread)
    <3>1. UNCHANGED <<th, holder>>
      BY <1>5, <2>3 DEF CutShort
    <3>2. holder # NoThread => UNCHANGED <<call, row>>
      BY <1>5, <2>3 DEF CutShort, Cancel
    <3>3. HolderOK'
      BY <1>t, <3>1, <3>2 DEF HolderOK, MuFree
    <3> QED
      BY <1>a, <1>u, <2>1, <3>1, <3>3
  <2> QED
    BY <2>2, <2>3
<1>6. CASE AbandonPlan
  <2>1. HolderOK'
    BY <1>t, <1>6 DEF AbandonPlan, HolderOK, MuFree
  <2> QED
    BY <1>a, <1>u, <1>w, <1>6, <2>1 DEF AbandonPlan, github
<1>7. CASE Restart
  <2>1. /\ th' = [t \in Threads |-> Resting] /\ self' \in Servers
        /\ writing' = [a \in Intents |-> NoPlan] /\ inFlight' = 0
        /\ holder' = NoThread
        /\ UNCHANGED <<stored, plans, granted, ledger, pr, landed>>
    BY <1>7 DEF Restart, github
  <2>2. ThreadOK(Resting, granted, ledger, landed) /\ ~InSlot(Resting)
        /\ Resting \in GoroutineRecords
    BY DEF ThreadOK, GoroutineRecords, Pcs, Inside, Allowed, Written, InSlot, Resting
  <2>3. Holding(th') = {} /\ Cardinality({}) = 0 /\ 0 <= MaxGlobal
    BY <2>1, <2>2, FS_EmptySet DEF Holding
  <2>4. ThreadsOK'
    BY <2>1, <2>2, <2>3 DEF ThreadsOK, SlotsAccounted, Holding, InSlot
  <2>5. TablesOK'
    BY <1>t, <1>w, <2>1 DEF TablesOK, WritesGranted, ExecutedWasPerformed
  <2> QED
    BY <2>1, <2>4, <2>5 DEF HolderOK
<1>8. ASSUME NEW i \in Items, Outside(i) PROVE ThreadsOK' /\ HolderOK' /\ TablesOK'
  <2>1. pr' \in [Items -> {"open", "merged", "closed"}]
        /\ UNCHANGED <<queueVars, th, self, holder, tables, ledger, inFlight, landed>>
    BY <1>t, <1>8 DEF Outside, TablesOK
  <2>2. TablesOK' /\ HolderOK'
    BY <1>t, <2>1 DEF TablesOK, WritesGranted, ExecutedWasPerformed, tables,
                      HolderOK, MuFree, queueVars
  <2> QED
    BY <1>u, <2>1, <2>2 DEF tables
<1>9. CASE TimePasses \/ UNCHANGED allVars
  <2>1. UNCHANGED execVars /\ UNCHANGED <<call, row>>
    BY <1>9 DEF TimePasses, Tick, allVars, queueVars
  <2>2. HolderOK'
    BY <1>t, <2>1 DEF HolderOK, MuFree, execVars
  <2> QED
    BY <1>a, <1>u, <1>w, <2>1, <2>2 DEF execVars
<1> QED
  BY <1>1, <1>2, <1>3, <1>4, <1>5, <1>6, <1>7, <1>8, <1>9 DEF World

-----------------------------------------------------------------------------

\* The invariant of the queue and that of the executor hold together in every
\* reachable state: the queue's own calls, the goroutines, the agents, the
\* planners and the restarts keep it.
THEOREM ExecInvariance == ExecSpec => []ExecInv
<1>1. ExecInit => ExecInv
  <2> SUFFICES ASSUME ExecInit PROVE ExecInv
    OBVIOUS
  <2> USE ExecutorAssumption DEF ExecInit
  <2>1. Inv
    BY InitInv
  <2>2. ThreadOK(Resting, granted, ledger, landed) /\ ~InSlot(Resting)
        /\ Resting \in GoroutineRecords
    BY DEF ThreadOK, GoroutineRecords, Pcs, Inside, Allowed, Written, InSlot, Resting
  <2>3. Holding(th) = {} /\ Cardinality({}) = 0 /\ 0 <= MaxGlobal
    BY <2>2, FS_EmptySet DEF Holding
  <2>4. ThreadsOK
    BY <2>2, <2>3 DEF ThreadsOK, SlotsAccounted, Holding, InSlot
  <2>5. TablesOK
    BY DEF TablesOK, WritesGranted, ExecutedWasPerformed, Grants, NoPlan
  <2> QED
    BY <2>1, <2>4, <2>5 DEF ExecInv, HolderOK
<1>2. ExecInv /\ [ExecNext]_allVars => ExecInv'
  <2> SUFFICES ASSUME ExecInv, [ExecNext]_allVars PROVE ExecInv'
    OBVIOUS
  <2>1. Inv'
    BY QueueMoves, QueueKept DEF ExecInv
  <2>2. ThreadsOK' /\ HolderOK' /\ TablesOK'
    BY GoroutineStep, OtherStep DEF ExecNext
  <2> QED
    BY <2>1, <2>2 DEF ExecInv
<1> QED
  BY <1>1, <1>2, PTL DEF ExecSpec

\* The goroutines, the ledger and GitHub keep their types.
THEOREM ExecTypeCorrect == ExecSpec => []ExecTypeOK
<1>1. ExecInv => ExecTypeOK
  BY DEF ExecInv, Inv, ThreadsOK, HolderOK, TablesOK, ExecTypeOK,
         GoroutineRecords, Pcs
<1> QED
  BY <1>1, ExecInvariance, PTL

\* The breaker's counter is the number of live intents between Acquire and
\* release, and never passes its limit.
THEOREM SlotsAreAccounted == ExecSpec => []SlotsAccounted
<1>1. ExecInv => SlotsAccounted
  BY DEF ExecInv, ThreadsOK
<1> QED
  BY <1>1, ExecInvariance, PTL

\* GitHub performs only what some stored plan allowed, whatever is planned
\* again while a worker holds an older snapshot.
THEOREM WritesAreGranted == ExecSpec => []WritesGranted
<1>1. ExecInv => WritesGranted
  BY DEF ExecInv, TablesOK
<1> QED
  BY <1>1, ExecInvariance, PTL

\* The ledger never runs ahead of GitHub.
THEOREM ExecutedIsPerformed == ExecSpec => []ExecutedWasPerformed
<1>1. ExecInv => ExecutedWasPerformed
  BY DEF ExecInv, TablesOK
<1> QED
  BY <1>1, ExecInvariance, PTL

\* Whoever runs, the queue still is the abstract lease service: the worker, the
\* agents and the restarts never take a live lease from its holder.
THEOREM ExecutorKeepsLeases == ExecSpec => LeaseServiceSpec
<1>1. ExecInit => LS!Init
  BY DEF ExecInit, Init, LS!Init, NoLease, LS!NoLease
<1>2. ExecInv /\ [ExecNext]_allVars => [LS!Next]_(LS!vars)
  <2> SUFFICES ASSUME ExecInv, [ExecNext]_allVars PROVE [LS!Next]_(LS!vars)
    OBVIOUS
  <2>1. CASE [Next]_queueVars
    BY <2>1, ServiceStep DEF ExecInv
  <2>2. CASE CutOff
    BY <2>2 DEF CutOff, LS!vars
  <2> QED
    BY <2>1, <2>2, QueueMoves
<1> QED
  BY <1>1, <1>2, ExecInvariance, PTL DEF ExecSpec, LeaseServiceSpec, LS!Spec

\* An item becomes verified only by a worker that has the "executed" row of
\* each of the intents, one at least, it loaded for the item.
THEOREM VerifiedIsExecuted == ExecSpec => VerifiedWasExecuted
<1> DEFINE Backed(i) == \E t \in Threads :
              /\ th[t].item = i /\ th[t].at = "executed" /\ th[t].batch # {}
              /\ \A x \in th[t].batch : ledger[x.id] # "none"
           Good == \A i \in Items :
              state'[i] = "verified" /\ state[i] # "verified" => Backed(i)
<1>1. ExecInv /\ [ExecNext]_allVars => [Good]_allVars
  <2> SUFFICES ASSUME ExecInv, ExecNext PROVE Good
    OBVIOUS
  <2>t. TypeOK /\ ThreadsOK
    BY DEF ExecInv, Inv
  <2>s. ASSUME NEW i, NEW to, state' = [state EXCEPT ![i] = to], to # "verified"
        PROVE  Good
    BY <2>s, <2>t DEF TypeOK
  <2>u. CASE UNCHANGED state
    BY <2>u
  <2>1. ASSUME NEW t \in Threads, Goroutine(t) PROVE Good
    <3>t. ThreadOK(th[t], granted, ledger, landed)
      BY <2>t DEF ThreadsOK
    <3>1. CASE Poll(t)
      BY <2>u, <3>1 DEF Poll, ExpireLeases, queueVars
    <3>2. CASE ClaimItem(t)
      <4>1. PICK to \in {"claimed"} :
                \/ UNCHANGED state
                \/ state' = [state EXCEPT ![th[t].item] = to]
        BY <3>2 DEF ClaimItem, Claim, ClaimExpired, queueVars
      <4> QED
        BY <4>1, <2>s, <2>u
    <3>3. CASE FailItem(t)
      <4>1. \/ UNCHANGED state
            \/ state' = [state EXCEPT ![th[t].item] = "failed"]
        BY <3>3 DEF FailItem, Transition, SaveAndLog, queueVars
      <4> QED
        BY <4>1, <2>s, <2>u
    <3>4. CASE Advance(t)
      <4>1. CASE Transition(th[t].item, th[t].at, NextStage(th[t].at))
        <5>1. state' = [state EXCEPT ![th[t].item] = NextStage(th[t].at)]
          BY <4>1 DEF Transition, SaveAndLog
        <5>2. CASE NextStage(th[t].at) = "verified"
          <6>1. th[t].at \in Stages /\ th[t].pc = "advance" /\ th[t].left = {}
            BY <3>t, <3>4 DEF Advance, ThreadOK
          <6>2. th[t].at = "executed"
            BY <5>2, <6>1 DEF NextStage, Stages
          <6>3. Backed(th[t].item)
            BY <3>t, <6>1, <6>2 DEF ThreadOK, Inside
          <6> HIDE DEF Backed
          <6> QED
            BY <5>1, <6>3, <2>t DEF TypeOK
        <5> QED
          BY <5>1, <5>2, <2>s
      <4> QED
        BY <3>4, <4>1, <2>u DEF Advance, queueVars
    <3>5. CASE UNCHANGED queueVars
      BY <2>u, <3>5 DEF queueVars
    <3> QED
      BY <2>1, <3>1, <3>2, <3>3, <3>4, <3>5
         DEF Goroutine, List, Load, QueryFails, Acquire, Finish, Check, Probe,
             Clear, Write, Shut, Verify, Record
  <2>2. CASE QueueStep
    <3>1. \/ UNCHANGED state
          \/ \E i : \/ state' = [state EXCEPT ![i] = "claimed"]
                   \/ state' = [state EXCEPT ![i] = "claimable"]
                   \/ state' = [state EXCEPT ![i] = "preflighted"]
      BY <2>2 DEF QueueStep, Statement, FinishClaim, ExpireOne, FinishAttach,
                  AppendRow, EnqueueRow, SaveAndLog
    <3> QED
      BY <3>1, <2>s, <2>u
  <2>3. CASE AgentRequest
    <3>1. \/ UNCHANGED state
          \/ \E i : \/ state' = [state EXCEPT ![i] = "claimed"]
                   \/ state' = [state EXCEPT ![i] = "claimable"]
      BY <2>3 DEF AgentRequest, Claim, ClaimExpired, Heartbeat, Release,
                  ExpireLeases, AttachKnown, AttachNew, SaveAndLog
    <3> QED
      BY <3>1, <2>s, <2>u
  <2>4. ASSUME NEW i \in Items, NEW p \in Plans, NEW s \in Batches,
               EnqueuePlan(i, s, p)
        PROVE  Good
    BY <2>4, <2>s DEF EnqueuePlan, EnqueueItem, Overwrite
  <2>5. CASE UNCHANGED queueVars \/ CutShort \/ AbandonPlan \/ Restart \/ TimePasses
    BY <2>5, <2>u DEF queueVars, CutShort, Cancel, AbandonPlan, Restart,
                      TimePasses, Tick
  <2> QED
    BY <2>1, <2>2, <2>3, <2>4, <2>5
       DEF ExecNext, World, UpsertIntent, Outside
<1> QED
  BY <1>1, ExecInvariance, PTL DEF ExecSpec, VerifiedWasExecuted

-----------------------------------------------------------------------------

\* With the breaker at its default of one slot, with a ledger that can be read
\* and no dry plans about, what a goroutine saw in the ledger is still so when
\* it writes.
Alone ==
    \A t \in Threads :
        /\ \A x \in th[t].batch : ~x.dry
        /\ th[t].pc = "write" => ledger[th[t].cur.id] = "none"

LEMMA AloneInvariance ==
    ASSUME MaxGlobal = 1, Live = TRUE, ReadsFail = FALSE, \A p \in Plans : ~p.dry
    PROVE  ExecSpec => [](ExecInv /\ Alone)
<1> USE ExecutorAssumption
\* One slot, so two goroutines are never both inside with a live intent.
<1>s. ASSUME ThreadsOK, NEW t \in Threads, NEW u \in Threads,
             InSlot(th[t]), InSlot(th[u])
      PROVE  t = u
  <2>1. /\ IsFiniteSet(Holding(th)) /\ Cardinality(Holding(th)) \in Nat
        /\ Cardinality(Holding(th)) <= 1
    BY <1>s, FS_Subset, FS_CardinalityType
       DEF ThreadsOK, SlotsAccounted, Holding, InSlot
  <2>2. t \in Holding(th) /\ u \in Holding(th)
    BY <1>s DEF Holding
  <2>3. IsFiniteSet(Holding(th) \ {t}) /\ Cardinality(Holding(th) \ {t}) = 0
    <3>1. /\ IsFiniteSet(Holding(th) \ {t})
          /\ Cardinality(Holding(th) \ {t}) = Cardinality(Holding(th)) - 1
          /\ Cardinality(Holding(th) \ {t}) \in Nat
      BY <2>1, <2>2, FS_RemoveElement, FS_CardinalityType
    <3> QED
      BY <2>1, <3>1
  <2>4. Holding(th) \ {t} = {}
    BY <2>3, FS_EmptySet
  <2> QED
    BY <2>2, <2>4
<1>w. ASSUME ExecInv, Alone, NEW t \in Threads, th[t].pc \in Inside
      PROVE  InSlot(th[t]) /\ LiveWrite(th[t].cur)
  BY <1>w DEF ExecInv, ThreadsOK, ThreadOK, Alone, InSlot, LiveWrite
<1>1. ExecInit => Alone
  BY DEF ExecInit, Alone, Resting
<1>2. ExecInv /\ Alone /\ [ExecNext]_allVars => Alone'
  <2> SUFFICES ASSUME ExecInv, Alone, [ExecNext]_allVars PROVE Alone'
    OBVIOUS
  <2>t. /\ ThreadsOK /\ TablesOK /\ HolderOK
        /\ th \in [Threads -> GoroutineRecords]
    BY DEF ExecInv, ThreadsOK
  <2>u. CASE UNCHANGED <<th, ledger>>
    BY <2>u DEF Alone
  <2>1. ASSUME NEW t \in Threads, Goroutine(t) PROVE Alone'
    <3> DEFINE Others == \A u \in Threads \ {t} : th'[u] = th[u]
    <3>t. /\ \A x \in th[t].batch : ~x.dry
          /\ th[t] \in GoroutineRecords /\ th \in [Threads -> GoroutineRecords]
          /\ ThreadOK(th[t], granted, ledger, landed)
      BY <2>t DEF Alone, ThreadsOK
    \* Neither a new batch nor a new row: nothing to show.
    <3>m. ASSUME UNCHANGED ledger, Others,
                 th'[t].batch \in {{}, th[t].batch}, th'[t].pc # "write"
          PROVE  Alone'
      BY <3>m, <3>t DEF Alone
    <3>g. ASSUME NEW p, Goto(t, p) \/ Leave(t, p)
          PROVE  Others /\ th'[t].batch = th[t].batch /\ th'[t].pc = p
                 /\ (Goto(t, p) => th'[t].cur = th[t].cur)
      BY <3>g, <3>t DEF Goto, Leave, GoroutineRecords
    <3>s. ASSUME NEW r \in {Stopped, Resting}, th' = [th EXCEPT ![t] = r]
          PROVE  Others /\ th'[t].batch = {} /\ th'[t].pc # "write"
      BY <3>s, <3>t DEF Stopped, Resting
    <3>1. CASE Poll(t) \/ ClaimItem(t) \/ QueryFails(t) \/ Probe(t) \/ Check(t)
               \/ Verify(t) \/ Shut(t) \/ FailItem(t)
      <4>1. \/ \E p \in Pcs \ {"write"} : Goto(t, p) \/ Leave(t, p)
            \/ \E r \in {Stopped, Resting} : th' = [th EXCEPT ![t] = r]
        BY <3>1 DEF Poll, ClaimItem, QueryFails, Probe, Check, Verify, Shut,
                    FailItem, Pcs, Inside
      <4>2. UNCHANGED ledger
        BY <3>1 DEF Poll, ClaimItem, QueryFails, Probe, Check, Verify, Shut, FailItem
      <4> HIDE DEF Others
      <4> QED
        BY <3>m, <3>g, <3>s, <4>1, <4>2
    <3>2. CASE Write(t)
      <4>1. \E p \in {"record", "shut", "verify", "fail"} : Goto(t, p) \/ Leave(t, p)
        BY <3>2 DEF Write, AfterWrite
      <4>2. UNCHANGED ledger
        BY <3>2 DEF Write
      <4> HIDE DEF Others
      <4> QED
        BY <3>m, <3>g, <4>1, <4>2
    <3>3. CASE List(t)
      BY <3>m, <3>3, <3>t DEF List, Goto, GoroutineRecords
    <3>4. CASE Finish(t)
      BY <3>m, <3>4, <3>t DEF Finish, GoroutineRecords
    <3>5. CASE Advance(t)
      <4>1. th[t].pc = "advance" /\ UNCHANGED ledger
        BY <3>5 DEF Advance
      <4>2. Others /\ th'[t].batch \in {{}, th[t].batch} /\ th'[t].pc # "write"
        BY <3>5, <3>t DEF Advance, GoroutineRecords, Stopped, Resting
      <4> QED
        BY <3>m, <4>1, <4>2
    <3>6. ASSUME NEW x \in th[t].left, Acquire(t, x) PROVE Alone'
      BY <3>m, <3>6, <3>t DEF Acquire, Goto, GoroutineRecords
    <3>7. CASE Load(t)
      <4>1. Others /\ th'[t].batch = IntentsFor(th[t].item) /\ th'[t].pc # "write"
            /\ UNCHANGED ledger
        BY <3>7, <3>t DEF Load, GoroutineRecords
      <4>2. \A x \in IntentsFor(th[t].item) : ~x.dry
        BY <2>t DEF IntentsFor, TablesOK
      <4> QED
        BY <4>1, <4>2 DEF Alone
    <3>8. CASE Clear(t)
      <4>1. CASE Leave(t, "fail")
        BY <3>m, <3>g, <3>8, <4>1 DEF Clear
      <4>2. CASE IsExecuted(th[t].cur.id, FALSE) /\ Goto(t, "write")
        <5>1. ledger[th[t].cur.id] = "none"
          BY <4>2 DEF IsExecuted
        <5>2. UNCHANGED ledger /\ Others /\ th'[t].batch = th[t].batch
              /\ th'[t].cur = th[t].cur
          BY <3>8, <3>g, <4>2 DEF Clear
        <5> QED
          BY <3>t, <5>1, <5>2 DEF Alone
      <4> QED
        BY <3>8, <4>1, <4>2 DEF Clear
    <3>9. CASE Record(t)
      \* any other goroutine about to write would hold the only slot as well
      <4>1. th[t].pc = "record" /\ th[t].pc \in Inside
        BY <3>9 DEF Record, Inside
      <4>2. Others /\ th'[t].batch = th[t].batch /\ th'[t].pc # "write"
        BY <3>9, <3>g DEF Record
      <4>3. \A u \in Threads : th[u].pc # "write"
        <5> SUFFICES ASSUME NEW u \in Threads, th[u].pc = "write" PROVE FALSE
          OBVIOUS
        <5>1. InSlot(th[t]) /\ InSlot(th[u])
          BY <1>w, <4>1 DEF Inside
        <5> QED
          BY <1>s, <2>t, <4>1, <5>1
      <4> QED
        BY <3>t, <4>2, <4>3 DEF Alone
    <3> QED
      BY <2>1, <3>1, <3>2, <3>3, <3>4, <3>5, <3>6, <3>7, <3>8, <3>9 DEF Goroutine
  <2>2. CASE QueueStep \/ AgentRequest \/ AbandonPlan \/ TimePasses \/ UNCHANGED allVars
    BY <2>2, <2>u DEF QueueStep, AgentRequest, AbandonPlan, TimePasses, allVars, execVars
  <2>3. ASSUME NEW i \in Items, NEW p \in Plans, NEW s \in Batches,
               EnqueuePlan(i, s, p)
        PROVE  Alone'
    BY <2>3, <2>u DEF EnqueuePlan
  <2>4. CASE CutShort
    <3>1. UNCHANGED ledger
          /\ (th' = th \/ (holder # NoThread /\ th' = [th EXCEPT ![holder] = Stopped]))
      BY <2>4 DEF CutShort
    <3>2. holder # NoThread => holder \in Threads
      BY <2>t DEF HolderOK
    <3> QED
      BY <2>t, <2>u, <3>1, <3>2 DEF Alone, Stopped, Resting
  <2>5. CASE Restart
    BY <2>5 DEF Restart, Alone, Resting
  <2>6. CASE (\E a \in Intents : UpsertIntent(a)) \/ (\E i \in Items : Outside(i))
    BY <2>6, <2>u DEF UpsertIntent, Outside
  <2> QED
    BY <2>1, <2>2, <2>3, <2>4, <2>5, <2>6 DEF ExecNext, World
<1> QED
  BY <1>1, <1>2, ExecInvariance, PTL DEF ExecSpec

\* A write is of an intent without a row.
LEMMA WriteStep ==
    ASSUME ExecInv, Alone, ExecNext, NEW a \in Intents, landed'[a] # landed[a]
    PROVE  ledger[a] = "none" /\ \E t \in Threads : Write(t)
<1>1. ASSUME NEW t \in Threads, Write(t) PROVE ledger[a] = "none"
  <2>1. th[t].pc = "write"
    BY <1>1 DEF Write
  <2>2. ledger[th[t].cur.id] = "none"
    BY <2>1 DEF Alone
  <2>3. UNCHANGED landed \/ Perform(th[t].cur.id)
    BY <1>1 DEF Write, github
  <2>4. landed \in [Intents -> 0 .. MaxLanded]
    BY DEF ExecInv, TablesOK
  <2> QED
    BY <2>2, <2>3, <2>4 DEF Perform
<1>2. \E t \in Threads : Write(t)
  BY DEF ExecNext, World, Goroutine, github, execVars, Poll, List, ClaimItem, Load,
         QueryFails, Acquire, Finish, Check, Probe, Clear, Shut, Verify, Record,
         FailItem, Advance, QueueStep, EnqueuePlan, UpsertIntent, AgentRequest,
         CutShort, AbandonPlan, Restart, Outside, TimePasses
<1> QED
  BY <1>1, <1>2

\* Under the default of the breaker, one slot (worker.go:46), with live plans
\* and a ledger that answers, GitHub never performs a write that the ledger
\* shows as executed, however many goroutines there are.
THEOREM NoWriteIsRepeated ==
    ASSUME MaxGlobal = 1, Live = TRUE, ReadsFail = FALSE, \A p \in Plans : ~p.dry
    PROVE  ExecSpec => NoWriteAfterExecuted
<1> DEFINE A == \A a \in Intents : landed'[a] # landed[a] => ledger[a] = "none"
<1>1. ExecInv /\ Alone /\ [ExecNext]_allVars => [A]_allVars
  BY WriteStep
<1> QED
  BY <1>1, AloneInvariance, PTL DEF ExecSpec, NoWriteAfterExecuted

\* Under the same conditions the executor implements the ledger of writes: the
\* goroutines, the queue, its other clients, the restarts and the calls that
\* fail half-way are all steps of it or none (executor.go:201-391,
\* worker.go:54-180, ledger.go).
THEOREM ExecutorKeepsLedger ==
    ASSUME MaxGlobal = 1, Live = TRUE, ReadsFail = FALSE, \A p \in Plans : ~p.dry
    PROVE  ExecSpec => WritesFollowTheLedger
<1> DEFINE Recorded == {a \in Intents : ledger[a] = "live"}
           Nothing == {a \in Intents : ActionOf[a] = "apply_fix"}
<1>1. ExecInit => Ledger!Init
  BY DEF ExecInit, Ledger!Init
<1>2. ExecInv /\ Alone /\ ExecInv' /\ [ExecNext]_allVars => [Ledger!Next]_(Ledger!vars)
  <2> SUFFICES ASSUME ExecInv, Alone, ExecInv', [ExecNext]_allVars
               PROVE  Ledger!Next \/ UNCHANGED <<granted, landed, ledger>>
    BY DEF Ledger!vars
  <2>t. /\ ThreadsOK /\ TablesOK /\ TablesOK'
        /\ landed \in [Intents -> 0 .. MaxLanded] /\ ledger \in [Intents -> {"none", "dry", "live"}]
    BY DEF ExecInv, TablesOK
  <2>1. ASSUME NEW a \in Intents, UpsertIntent(a) PROVE Ledger!Next \/ UNCHANGED <<granted, landed, ledger>>
    <3>1. UNCHANGED <<landed, ledger>> /\ (granted' = granted \/ granted' = granted \cup {a})
      BY <2>1 DEF UpsertIntent, github
    <3> QED
      BY <3>1 DEF Ledger!Next, Ledger!Grant
  <2>2. ASSUME NEW t \in Threads, Write(t) PROVE Ledger!Next \/ UNCHANGED <<granted, landed, ledger>>
    <3> DEFINE a == th[t].cur.id
    <3>1. th[t].pc = "write" /\ UNCHANGED <<granted, ledger>> /\ (UNCHANGED landed \/ Perform(a))
      BY <2>2 DEF Write, tables, github
    <3>2. a \in Intents /\ ledger[a] = "none"
      BY <2>t, <3>1 DEF ThreadsOK, ThreadOK, GoroutineRecords, Snaps, Inside, Alone
    <3> HIDE DEF a
    <3>3. ASSUME Perform(a) PROVE Ledger!Next
      <4>1. landed' = [landed EXCEPT ![a] = @ + 1]
        BY <3>3 DEF Perform
      <4>2. landed'[a] > 0
        BY <2>t, <3>2, <4>1
      <4>3. a \in granted
        BY <2>t, <3>1, <3>2, <4>2 DEF TablesOK, WritesGranted
      <4> QED
        BY <3>1, <3>2, <4>1, <4>3 DEF Ledger!Next, Ledger!Perform
    <3> QED
      BY <3>1, <3>3
  <2>3. ASSUME NEW t \in Threads, Record(t) PROVE Ledger!Next \/ UNCHANGED <<granted, landed, ledger>>
    <3> DEFINE x == th[t].cur
    <3>1. /\ th[t].pc = "record" /\ UNCHANGED <<granted, landed>>
          /\ ledger' \in {ledger, [ledger EXCEPT ![x.id] = IF LiveWrite(x) THEN "live" ELSE "dry"]}
      BY <2>3 DEF Record, tables, github
    <3>2. ThreadOK(th[t], granted, ledger, landed) /\ x \in th[t].batch /\ x.id \in Intents /\ x \in Snaps
      BY <2>t, <3>1 DEF ThreadsOK, ThreadOK, GoroutineRecords, Snaps, Inside
    <3>3. LiveWrite(x)
      BY <3>2 DEF Alone, LiveWrite
    <3>4. x.id \in granted
      BY <3>1, <3>2, <3>3, ExecutorAssumption
         DEF ThreadOK, Allowed, Inside, PolicyAllows, Grants, LiveWrite, Snaps
    <3>5. ActionOf[x.id] # "apply_fix" => landed[x.id] > 0
      BY <3>1, <3>2, <3>3 DEF ThreadOK, Written
    <3> HIDE DEF x
    <3>6. CASE ledger' = [ledger EXCEPT ![x.id] = "live"]
      <4>1. Recorded' = Recorded \cup {x.id}
        BY <2>t, <3>2, <3>6
      <4> QED
        BY <3>1, <3>2, <3>4, <3>5, <4>1 DEF Ledger!Next, Ledger!Record
    <3> QED
      BY <3>1, <3>3, <3>6
  <2>4. CASE QueueStep \/ AgentRequest \/ CutShort \/ AbandonPlan \/ Restart \/ TimePasses \/ UNCHANGED allVars
    BY <2>4 DEF QueueStep, AgentRequest, CutShort, AbandonPlan, Restart, TimePasses, allVars, execVars,
                tables, github
  <2>5. ASSUME NEW i \in Items, Outside(i) PROVE UNCHANGED <<granted, landed, ledger>>
    BY <2>5 DEF Outside, tables
  <2>6. ASSUME NEW i \in Items, NEW p \in Plans, NEW s \in Batches, EnqueuePlan(i, s, p)
        PROVE  UNCHANGED <<granted, landed, ledger>>
    BY <2>6 DEF EnqueuePlan, github
  <2>7. ASSUME NEW t \in Threads, Goroutine(t), ~Write(t), ~Record(t)
        PROVE  UNCHANGED <<granted, landed, ledger>>
    BY <2>7 DEF Goroutine, Poll, List, ClaimItem, Load, QueryFails, Acquire, Finish, Check, Probe, Clear,
                Shut, Verify, FailItem, Advance, tables, github
  <2> QED
    BY <2>1, <2>2, <2>3, <2>4, <2>5, <2>6, <2>7 DEF ExecNext, World
<1> QED
  BY <1>1, <1>2, AloneInvariance, PTL DEF ExecSpec, WritesFollowTheLedger, Ledger!Spec
=============================================================================
