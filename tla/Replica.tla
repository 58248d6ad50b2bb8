------------------------------- MODULE Replica -------------------------------
(***************************************************************************)
(* What a local copy of a repository's pull requests promises, whatever    *)
(* pages, crashes, retries and fallbacks lie behind it: the copy of a pull *)
(* request is never ahead of GitHub, and it only moves forward, as long as *)
(* one process at a time makes it.  Nothing is promised about when a       *)
(* version arrives.                                                        *)
(***************************************************************************)
EXTENDS Naturals

CONSTANT PRs

VARIABLES remote,  \* the version of every pull request at GitHub, 0 for none
          copy,    \* the version the local copy has, 0 for none
          crowded  \* whether a process copies that has met another (an input)

RInit == remote \in [PRs -> Nat] /\ copy = [p \in PRs |-> 0]

\* GitHub changes by itself, to newer versions.
Publish ==
    /\ \A p \in PRs : remote'[p] >= remote[p]
    /\ UNCHANGED copy

\* Some pull requests are copied, none of them from the future; of several
\* processes one may be late.
Pull ==
    /\ \A p \in PRs : copy'[p] \in (IF crowded THEN 1 ELSE copy[p])..remote[p]
                      \/ copy'[p] = copy[p]
    /\ UNCHANGED remote

RSpec == RInit /\ [][Publish \/ Pull]_<<remote, copy>>
=============================================================================
