------------------------------ MODULE RepoLock ------------------------------
(***************************************************************************)
(* The per-repository lock file of the commands analyze, sync and workflow *)
(* (internal/cmd/lock.go), for one repository.  Every system call on the   *)
(* path is a step of its own.  A process is a run of a command, and is     *)
(* known by its PID; the file is known by the process that created it.     *)
(***************************************************************************)
EXTENDS Integers, FiniteSets

CONSTANTS
    Procs,     \* PIDs of the runs of the program
    Named,     \* those whose command line holds the repo name in lower case
    Forcers,   \* those run with --force
    MaxCrash,  \* the bound on processes killed
    NoFile

ASSUME LockAssumption ==
    /\ Named \subseteq Procs
    /\ Forcers \subseteq Procs
    /\ MaxCrash \in Nat
    /\ NoFile \notin Procs

VARIABLES
    path,      \* the process that created the file at the lock's path
    written,   \* the processes whose last file has its content
    pc,        \* where each process is
    seen,      \* whose PID it read from the file; NoFile reads as PID 0
    second,    \* it found a file again after it removed a stale one
    crashes,   \* processes killed so far
    disturbed  \* history: a live lock was forced, or two attempts overlapped

vars == <<path, written, pc, seen, second, crashes, disturbed>>

\* Inside AcquireRepoLock or ForceAcquireRepoLock.
Acquiring == {"create", "read", "probe", "remove", "write", "undo", "force",
              "forced"}

\* Past it: "bare" without a lock of its own, since it was told no error.
Inside == {"locked", "bare"}

\* "gone" was killed; "recycled" has its PID taken by another program.
Places == Acquiring \cup Inside \cup {"out", "gone", "recycled"}

LockTypeOK ==
    /\ path \in Procs \cup {NoFile}
    /\ written \subseteq Procs
    /\ pc \in [Procs -> Places]
    /\ seen \in [Procs -> Procs \cup {NoFile}]
    /\ \A p \in Procs : seen[p] # p   \* so "already holding lock" is not met
    /\ second \in [Procs -> BOOLEAN]
    /\ crashes \in 0 .. MaxCrash
    /\ disturbed \in BOOLEAN

Running(p) == pc[p] \in Acquiring \cup Inside

-----------------------------------------------------------------------------
Goto(p, q) == pc' = [pc EXCEPT ![p] = q]

\* A command is run.
Begin(p) ==
    /\ pc[p] = "out"
    /\ Goto(p, IF p \in Forcers THEN "force" ELSE "create")
    /\ second' = [second EXCEPT ![p] = FALSE]
    /\ disturbed' = IF \E q \in Procs : pc[q] \in Acquiring THEN TRUE ELSE disturbed
    /\ UNCHANGED <<path, written, seen, crashes>>

\* Mutant: O_TRUNC instead of O_EXCL.
MakeFileShared(p) ==
    /\ path' = p
    /\ written' = written \ {p}
    /\ Goto(p, "write")

\* The O_EXCL create, which leaves an empty file.
MakeFile(p) ==
    /\ path = NoFile
    /\ path' = p
    /\ written' = written \ {p}
    /\ Goto(p, "write")

\* The first create, or the one after a stale file was removed.
Create(p) ==
    /\ pc[p] = "create"
    /\ \/ MakeFile(p)
       \/ path # NoFile /\ Goto(p, "read") /\ UNCHANGED <<path, written>>
    /\ UNCHANGED <<seen, second, crashes, disturbed>>

\* checkExistingLock reads the file: one that cannot be read is removed, and
\* an empty one parses to PID 0.
Read(p) ==
    /\ pc[p] = "read"
    /\ \/ path = NoFile /\ Goto(p, "remove") /\ UNCHANGED seen
       \/ /\ path # NoFile
          /\ seen' = [seen EXCEPT ![p] = IF path \in written THEN path ELSE NoFile]
          /\ Goto(p, "probe")
    /\ UNCHANGED <<path, written, second, crashes, disturbed>>

\* Mutant: any program under that PID counts.
MatchesAny(f) == f # NoFile /\ pc[f] # "gone"

\* kill(pid, 0) succeeds and ps shows "pratc" and the normalized repo name.
\* PID 0 exists for kill (the caller's own process group) but not for ps.
Matches(f) == f # NoFile /\ f \in Named /\ pc[f] \notin {"gone", "recycled"}

\* A process that is "out" may have ended or not.
LooksStale(f) == Matches(f) => pc[f] = "out"

Probe(p) ==
    /\ pc[p] = "probe"
    /\ \/ Matches(seen[p]) /\ Goto(p, "out")
       \/ LooksStale(seen[p]) /\ Goto(p, "remove")
    /\ UNCHANGED <<path, written, seen, second, crashes, disturbed>>

\* The stale file is removed by its path, whichever file is there by now.
\* After that the create is tried again; but a process that found a file
\* again returns the nil error of checkExistingLock, with a nil lock.
Remove(p) ==
    /\ pc[p] = "remove"
    /\ path' = NoFile
    /\ IF second[p]
       THEN Goto(p, "bare") /\ UNCHANGED second
       ELSE Goto(p, "create") /\ second' = [second EXCEPT ![p] = TRUE]
    /\ UNCHANGED <<written, seen, crashes, disturbed>>

\* The content goes to the file the process created, wherever that is now;
\* a failed write is followed by a removal of the path.
Write(p) ==
    /\ pc[p] = "write"
    /\ \/ written' = written \cup {p} /\ Goto(p, "locked")
       \/ UNCHANGED written /\ Goto(p, "undo")
    /\ UNCHANGED <<path, seen, second, crashes, disturbed>>

Undo(p) ==
    /\ pc[p] = "undo"
    /\ path' = NoFile
    /\ Goto(p, "out")
    /\ UNCHANGED <<written, seen, second, crashes, disturbed>>

\* ForceAcquireRepoLock removes whatever is there, then creates.
ForceRemove(p) ==
    /\ pc[p] = "force"
    /\ disturbed' = IF \E q \in Procs : pc[q] \in Inside THEN TRUE ELSE disturbed
    /\ path' = NoFile
    /\ Goto(p, "forced")
    /\ UNCHANGED <<written, seen, second, crashes>>

ForceCreate(p) ==
    /\ pc[p] = "forced"
    /\ \/ MakeFile(p)
       \/ path # NoFile /\ Goto(p, "out") /\ UNCHANGED <<path, written>>
    /\ UNCHANGED <<seen, second, crashes, disturbed>>

\* Mutant: the file of a finished command is left behind.
ReleaseLeavingFile(p) ==
    /\ pc[p] \in Inside
    /\ Goto(p, "out")
    /\ UNCHANGED <<path, written, seen, second, crashes, disturbed>>

\* The deferred Release removes the path, not the process's own file.
Release(p) ==
    /\ pc[p] \in Inside
    /\ path' = IF pc[p] = "locked" THEN NoFile ELSE path
    /\ Goto(p, "out")
    /\ UNCHANGED <<written, seen, second, crashes, disturbed>>

\* The process is killed: nothing deferred runs, the file stays.
Crash(p) ==
    /\ Running(p)
    /\ crashes < MaxCrash
    /\ crashes' = crashes + 1
    /\ Goto(p, "gone")
    /\ UNCHANGED <<path, written, seen, second, disturbed>>

Recycle(p) ==
    /\ pc[p] = "gone"
    /\ Goto(p, "recycled")
    /\ UNCHANGED <<path, written, seen, second, crashes, disturbed>>

-----------------------------------------------------------------------------
Init ==
    /\ path = NoFile
    /\ written = {}
    /\ pc = [p \in Procs |-> "out"]
    /\ seen = [p \in Procs |-> NoFile]
    /\ second = [p \in Procs |-> FALSE]
    /\ crashes = 0
    /\ disturbed = FALSE

Acquire(p) ==
    \/ Create(p) \/ Read(p) \/ Probe(p) \/ Remove(p) \/ Write(p) \/ Undo(p)
    \/ ForceRemove(p) \/ ForceCreate(p)

Next ==
    \E p \in Procs :
        Begin(p) \/ Acquire(p) \/ Release(p) \/ Crash(p) \/ Recycle(p)

Spec == Init /\ [][Next]_vars

\* A process that is acquiring runs; nobody has to start or to finish.
FairSpec == Spec /\ \A p \in Procs : WF_vars(Acquire(p))

-----------------------------------------------------------------------------
(* Properties *)

\* As long as attempts do not overlap and no live lock is forced, the process
\* inside is the one the file names, whatever was killed before and wherever:
\* what the exclusion rests on (lock.go:118-141).
FileNamesHolder ==
    ~disturbed => \A p \in Procs : pc[p] \in Inside => path = p /\ p \in written

\* An attempt that meets the file of a dead process does not leave it there,
\* even when attempts race: a crash never locks a repository for good
\* (lock.go:126-130).
StaleLockYields ==
    \A p \in Procs :
        pc[p] = "create" /\ path # NoFile /\ ~Running(path)
            ~> (path = NoFile \/ Running(path) \/ pc[p] = "gone")

\* README.md:71: "Prevents concurrent prATC instances against the same repo",
\* unless --force is used.
MutualExclusion == Cardinality({p \in Procs : pc[p] \in Inside}) <= 1

\* README.md:72: "Case-insensitive repo names".  However the name is spelled,
\* two commands that start one after the other do not both run.
UndisturbedExclusion == disturbed \/ MutualExclusion
=============================================================================
