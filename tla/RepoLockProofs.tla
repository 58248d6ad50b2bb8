--------------------------- MODULE RepoLockProofs ---------------------------
(***************************************************************************)
(* What the lock file of RepoLock guarantees for any number of processes:  *)
(* type correctness, and exclusion among attempts that do not overlap.     *)
(***************************************************************************)
EXTENDS RepoLock, FiniteSetTheorems, TLAPS

\* The file at the path was made by a process that has not got past it.
PathOwned ==
    path # NoFile => pc[path] \in {"write", "undo", "locked", "gone", "recycled"}

LockInv == LockTypeOK /\ PathOwned

NobodyInside == \A q \in Procs : pc[q] \notin Inside

\* What an attempt knows, step by step, while nobody interferes with it.
Knows(p) ==
    /\ pc[p] = "create" /\ second[p] => path = NoFile /\ NobodyInside
    /\ pc[p] \in {"read", "probe", "remove"} => ~second[p]
    /\ pc[p] = "probe" => \A q \in Procs : pc[q] \in Inside => seen[p] = q
    /\ pc[p] \in {"remove", "undo", "forced"} => NobodyInside
    /\ pc[p] = "write" => path = p /\ NobodyInside

OneAttempt ==
    \A p, q \in Procs : pc[p] \in Acquiring /\ pc[q] \in Acquiring => p = q

HolderRecorded ==
    \A p \in Procs : pc[p] \in Inside
        => pc[p] = "locked" /\ path = p /\ p \in written

Quiet == ~disturbed => OneAttempt /\ HolderRecorded /\ \A p \in Procs : Knows(p)

-----------------------------------------------------------------------------
LEMMA LockInitInv == Init => LockInv /\ Quiet
<1> SUFFICES ASSUME Init PROVE LockInv /\ Quiet
  OBVIOUS
<1>1. LockInv
  <2>1. disturbed \in BOOLEAN
    BY Zenon DEF Init
  <2>2. second \in [Procs -> BOOLEAN]
    BY DEF Init
  <2> QED
    BY <2>1, <2>2, LockAssumption DEF Init, LockInv, LockTypeOK, PathOwned, Places
<1>2. \A p \in Procs : pc[p] \notin Acquiring \cup Inside
  BY DEF Init, Acquiring, Inside
<1>3. OneAttempt /\ HolderRecorded
  BY <1>2 DEF OneAttempt, HolderRecorded
<1>4. ASSUME NEW p \in Procs PROVE Knows(p)
  BY DEF Init, Knows
<1> QED
  BY <1>1, <1>3, <1>4 DEF Quiet

LEMMA LockTypeStep ==
    ASSUME LockInv, [Next]_vars
    PROVE  LockInv'
<1> USE LockAssumption DEF LockInv, LockTypeOK, PathOwned, Places, Acquiring,
                           Inside, Goto
<1>1. CASE UNCHANGED vars
  BY <1>1 DEF vars
<1>2. ASSUME NEW p \in Procs,
             Begin(p) \/ Acquire(p) \/ Release(p) \/ Crash(p) \/ Recycle(p)
      PROVE  LockInv'
  <2>1. CASE Begin(p)
    BY <2>1 DEF Begin
  <2>2. CASE Create(p)
    BY <2>2 DEF Create, MakeFile
  <2>3. CASE Read(p)
    BY <2>3 DEF Read
  <2>4. CASE Probe(p)
    BY <2>4 DEF Probe
  <2>5. CASE Remove(p)
    BY <2>5 DEF Remove
  <2>6. CASE Write(p)
    BY <2>6 DEF Write
  <2>7. CASE Undo(p)
    BY <2>7 DEF Undo
  <2>8. CASE ForceRemove(p)
    BY <2>8 DEF ForceRemove
  <2>9. CASE ForceCreate(p)
    BY <2>9 DEF ForceCreate, MakeFile
  <2>10. CASE Release(p)
    BY <2>10 DEF Release
  <2>11. CASE Crash(p)
    BY <2>11 DEF Crash, Running
  <2>12. CASE Recycle(p)
    BY <2>12 DEF Recycle
  <2> QED
    BY <1>2, <2>1, <2>2, <2>3, <2>4, <2>5, <2>6, <2>7, <2>8, <2>9, <2>10,
       <2>11, <2>12 DEF Acquire
<1> QED
  BY <1>1, <1>2 DEF Next

\* Type correctness; no run ever reads its own PID from the file, so the
\* answer "already holding lock" (lock.go:120) takes a recycled PID.
THEOREM LockTypeCorrect == Spec => []LockTypeOK
<1>1. Init => LockInv
  BY LockInitInv
<1>2. LockInv /\ [Next]_vars => LockInv'
  BY LockTypeStep
<1> QED
  BY <1>1, <1>2, PTL DEF Spec, LockInv

-----------------------------------------------------------------------------
\* One step of process p keeps what attempts know while nobody interferes; a
\* file that names a process inside is never taken for a stale one, because
\* every command line shows the repository's name.
LEMMA QuietStep ==
    ASSUME Named = Procs, LockInv, Quiet, NEW p \in Procs,
           Begin(p) \/ Acquire(p) \/ Release(p) \/ Crash(p) \/ Recycle(p)
    PROVE  Quiet'
<1> SUFFICES ASSUME ~disturbed'
             PROVE  OneAttempt' /\ HolderRecorded' /\ \A q \in Procs : Knows(q)'
  BY DEF Quiet
<1>a. ~disturbed
  BY DEF LockInv, LockTypeOK, Acquire, Begin, Create, Read, Probe, Remove, Write, Undo, ForceRemove,
         ForceCreate, Release, Crash, Recycle
<1>b. OneAttempt /\ HolderRecorded /\ \A q \in Procs : Knows(q)
  BY <1>a DEF Quiet
<1> USE <1>b, LockAssumption
    DEF LockInv, LockTypeOK, PathOwned, Acquiring, Inside, Goto, OneAttempt,
        HolderRecorded, Knows, NobodyInside
<1>1. CASE Begin(p)
  BY <1>1 DEF Begin
<1>2. CASE Create(p)
  BY <1>2 DEF Create, MakeFile
<1>3. CASE Read(p)
  BY <1>3 DEF Read
<1>4. CASE Probe(p)
  BY <1>4 DEF Probe, Matches, LooksStale
<1>5. CASE Remove(p)
  BY <1>5 DEF Remove
<1>6. CASE Write(p)
  BY <1>6 DEF Write
<1>7. CASE Undo(p)
  BY <1>7 DEF Undo
<1>8. CASE ForceRemove(p)
  BY <1>8 DEF ForceRemove
<1>9. CASE ForceCreate(p)
  BY <1>9 DEF ForceCreate, MakeFile
<1>10. CASE Release(p)
  BY <1>10 DEF Release
<1>11. CASE Crash(p)
  BY <1>11 DEF Crash, Running
<1>12. CASE Recycle(p)
  BY <1>12 DEF Recycle
<1> QED
  BY <1>1, <1>2, <1>3, <1>4, <1>5, <1>6, <1>7, <1>8, <1>9, <1>10, <1>11, <1>12
     DEF Acquire

\* Runs whose attempts do not overlap exclude each other until somebody forces
\* a live lock, whatever is killed and wherever, and the file always names
\* the run that is inside; for any number of runs, if every command line
\* spells the repository the way the lock does.
THEOREM FileNamesHolderAlways ==
    ASSUME Named = Procs
    PROVE  Spec => []FileNamesHolder
<1>1. Init => LockInv /\ Quiet
  BY LockInitInv
<1>2. LockInv /\ Quiet /\ [Next]_vars => (LockInv /\ Quiet)'
  <2> SUFFICES ASSUME LockInv, Quiet, [Next]_vars PROVE Quiet'
    BY LockTypeStep
  <2>1. CASE UNCHANGED vars
    BY <2>1 DEF vars, Quiet, OneAttempt, HolderRecorded, Knows, NobodyInside
  <2> QED
    BY <2>1, QuietStep DEF Next
<1>3. Quiet => FileNamesHolder
  BY DEF Quiet, HolderRecorded, FileNamesHolder
<1> QED
  BY <1>1, <1>2, <1>3, PTL DEF Spec

\* Hence no two of them are ever inside together, which is what the README
\* says of the lock, once attempts do not overlap, nobody forces a live lock
\* and the name is spelled alike (README.md:71-72, cmd/lock.go:34-141).
THEOREM UndisturbedRunsExclude ==
    ASSUME Named = Procs
    PROVE  Spec => []UndisturbedExclusion
<1>1. FileNamesHolder => UndisturbedExclusion
  <2> DEFINE S == {p \in Procs : pc[p] \in Inside}
  <2> SUFFICES ASSUME FileNamesHolder, ~disturbed PROVE Cardinality(S) <= 1
    BY DEF UndisturbedExclusion, MutualExclusion
  <2>1. S \subseteq {path}
    BY DEF FileNamesHolder
  <2>2. IsFiniteSet({path}) /\ Cardinality({path}) = 1
    BY FS_Singleton
  <2> HIDE DEF S
  <2>3. IsFiniteSet(S) /\ Cardinality(S) <= Cardinality({path})
    BY <2>1, <2>2, FS_Subset
  <2> QED BY <2>2, <2>3
<1> QED
  BY <1>1, FileNamesHolderAlways, PTL
=============================================================================
