----------------------------- MODULE MCRepoLock -----------------------------
(* Bounds for model checking RepoLock: three runs of the program, the last *)
(* of them with --force in one configuration.                              *)
EXTENDS RepoLock

CONSTANTS p1, p2, p3

Runs == {p1, p2, p3}
NoRuns == {}
LastRun == {p3}
FirstRun == {p1}
=============================================================================
