------------------------------- MODULE Mirrors --------------------------------
(***************************************************************************)
(* The git mirrors (internal/repo/mirror.go), which a sync opens and fills *)
(* pull request by pull request, and the mirror commands (internal/cmd/    *)
(* mirror.go) that move and remove them meanwhile: nothing locks a mirror. *)
(* A mirror is the set of its refs with the version each was fetched at.   *)
(***************************************************************************)
EXTENDS Naturals, Sequences, FiniteSets

CONSTANTS Repos,       \* owner/name of the repositories
          MirrorPRs,         \* numbers of the open pull requests of each
          BatchSize,   \* refs per fetch of FetchAllBatched, 100 in the code
          MaxVersion   \* bound on the pushes to a pull request

ASSUME MirrorsAssumption == BatchSize \in Nat \ {0} /\ MaxVersion \in Nat \ {0}

VARIABLES upstream,   \* the head of every pull request at GitHub
          mirror,   \* the refs of the mirror of every repository, Absent without one
          legacy,   \* the same below the working directory of older versions
          tracked,  \* repositories with pull requests in the cache
          fetch,    \* the fetch that runs
          moving,   \* repositories whose migration has been planned
          doomed    \* what mirror prune or clean has still to remove

mirrorVars == <<upstream, mirror, legacy, tracked, fetch, moving, doomed>>

Absent  == [present |-> FALSE, refs |-> {}]
Empty   == [present |-> TRUE, refs |-> {}]
NoFetch == [on |-> FALSE, batched |-> FALSE, repo |-> "", todo |-> {}, skipped |-> {}, from |-> {},
            gone |-> FALSE]

\* A pull request is fetched into refs/pr/N/head.
LocalRef(n) == <<"pr", n>>

Version(m, ref) == IF \E v \in 0..MaxVersion : <<ref, v>> \in m.refs
                   THEN CHOOSE v \in 0..MaxVersion : <<ref, v>> \in m.refs ELSE 0

Set(m, n, v) == [m EXCEPT !.refs = {x \in @ : x[1] # LocalRef(n)} \cup {<<LocalRef(n), v>>}]

-----------------------------------------------------------------------------
(* A sync, which fetches one by one, and an analysis, which does in        *)
(* batches; the pull requests come in the order GitHub listed them, any.   *)

\* OpenOrCreate, and the list of open pull requests it was given.
OpenOrCreate(r, batched) ==
    /\ ~fetch.on
    /\ mirror' = [mirror EXCEPT ![r] = IF @.present THEN @ ELSE Empty]
    /\ fetch' = [NoFetch EXCEPT !.on = TRUE, !.batched = batched, !.repo = r, !.todo = MirrorPRs,
                                !.from = {<<p, upstream[r][p]>> : p \in MirrorPRs}]
    /\ tracked' = tracked \cup {r}
    /\ UNCHANGED <<upstream, legacy, moving, doomed>>

\* Mutant: a ref that cannot be fetched is not reported.
FetchOneUnreported ==
    /\ fetch.on /\ ~fetch.batched
    /\ \E p \in fetch.todo :
          /\ \/ /\ mirror[fetch.repo].present
                /\ mirror' = [mirror EXCEPT ![fetch.repo] = Set(@, p, upstream[fetch.repo][p])]
             \/ UNCHANGED mirror
          /\ fetch' = [fetch EXCEPT !.todo = @ \ {p}]
    /\ UNCHANGED <<upstream, legacy, tracked, moving, doomed>>

\* One git fetch of FetchAllWithSkipped; one that fails is skipped.
FetchOne ==
    /\ fetch.on /\ ~fetch.batched
    /\ \E p \in fetch.todo :
          \/ /\ mirror[fetch.repo].present
             /\ mirror' = [mirror EXCEPT ![fetch.repo] = Set(@, p, upstream[fetch.repo][p])]
             /\ fetch' = [fetch EXCEPT !.todo = @ \ {p}]
          \/ /\ fetch' = [fetch EXCEPT !.todo = @ \ {p}, !.skipped = @ \cup {p}]
             /\ UNCHANGED mirror
    /\ UNCHANGED <<upstream, legacy, tracked, moving, doomed>>

\* A batch is as long as it may be, the last one what is left.
Batches ==
    {S \in SUBSET fetch.todo : IF Cardinality(fetch.todo) > BatchSize THEN Cardinality(S) = BatchSize
                               ELSE S = fetch.todo}

\* One git fetch of FetchAllBatched; an error ends them all.
FetchBatch ==
    /\ fetch.on /\ fetch.batched /\ fetch.todo # {}
    /\ \/ /\ mirror[fetch.repo].present
          /\ \E batch \in Batches :
                /\ mirror' = [mirror EXCEPT ![fetch.repo].refs =
                                 {x \in @ : \A p \in batch : x[1] # LocalRef(p)}
                                   \cup {<<LocalRef(p), upstream[fetch.repo][p]>> : p \in batch}]
                /\ fetch' = [fetch EXCEPT !.todo = @ \ batch]
       \/ fetch' = NoFetch /\ UNCHANGED mirror
    /\ UNCHANGED <<upstream, legacy, tracked, moving, doomed>>

EndFetch ==
    /\ fetch.on /\ fetch.todo = {}
    /\ fetch' = NoFetch
    /\ UNCHANGED <<upstream, mirror, legacy, tracked, moving, doomed>>

Push(r, p) ==
    /\ upstream[r][p] < MaxVersion
    /\ upstream' = [upstream EXCEPT ![r][p] = @ + 1]
    /\ UNCHANGED <<mirror, legacy, tracked, fetch, moving, doomed>>

-----------------------------------------------------------------------------
(* The mirror commands. *)

\* Nothing is moved over a mirror that exists already; between the look and
\* the rename one may appear, and then the rename fails.
PlanLegacyMirrorMigration(r) ==
    /\ legacy[r].present /\ ~mirror[r].present /\ r \notin moving
    /\ moving' = moving \cup {r}
    /\ UNCHANGED <<upstream, mirror, legacy, tracked, fetch, doomed>>

MigrateLegacyMirror(r) ==
    /\ r \in moving
    /\ moving' = moving \ {r}
    /\ IF mirror[r].present
       THEN UNCHANGED <<mirror, legacy>>
       ELSE mirror' = [mirror EXCEPT ![r] = legacy[r]] /\ legacy' = [legacy EXCEPT ![r] = Absent]
    /\ UNCHANGED <<upstream, tracked, fetch, doomed>>

\* The directory of a mirror is owner/name.git, and prune looks that name up
\* among the repositories as they are cached, owner/name.
DirName(r) == r \o ".git"
IsRepoInList(name) == name \in tracked

Prune ==
    /\ doomed = {}
    /\ doomed' = {r \in Repos : mirror[r].present /\ ~IsRepoInList(DirName(r))}
    /\ UNCHANGED <<upstream, mirror, legacy, tracked, fetch, moving>>

Clean ==
    /\ doomed = {}
    /\ doomed' = {r \in Repos : mirror[r].present}
    /\ UNCHANGED <<upstream, mirror, legacy, tracked, fetch, moving>>

RemoveDir(r) ==
    /\ r \in doomed
    /\ mirror' = [mirror EXCEPT ![r] = Absent]
    /\ doomed' = doomed \ {r}
    /\ fetch' = [fetch EXCEPT !.gone = @ \/ fetch.repo = r]
    /\ UNCHANGED <<upstream, legacy, tracked, moving>>

MirrorsInit ==
    /\ upstream = [r \in Repos |-> [p \in MirrorPRs |-> 1]]
    /\ mirror = [r \in Repos |-> Absent]
    /\ legacy \in [Repos -> {Absent, [present |-> TRUE, refs |-> {<<LocalRef(p), 1>> : p \in MirrorPRs}]}]
    /\ tracked = {} /\ fetch = NoFetch /\ moving = {} /\ doomed = {}

MirrorsNext ==
    \/ \E r \in Repos, batched \in BOOLEAN : OpenOrCreate(r, batched)
    \/ \E r \in Repos : PlanLegacyMirrorMigration(r) \/ MigrateLegacyMirror(r) \/ RemoveDir(r)
    \/ FetchOne \/ FetchBatch \/ EndFetch \/ Prune \/ Clean
    \/ \E r \in Repos, p \in MirrorPRs : Push(r, p)

-----------------------------------------------------------------------------
\* At the end of a fetch every open pull request is in the mirror at least
\* as new as it was at the start, or it is reported as skipped, whatever is
\* pushed, moved or skipped meanwhile (unless the mirror itself is removed).
FetchedOrSkipped ==
    fetch.on /\ fetch.todo = {} /\ ~fetch.gone =>
        \A x \in fetch.from :
            x[1] \in fetch.skipped \/ Version(mirror[fetch.repo], LocalRef(x[1])) >= x[2]

\* prune removes mirrors of repositories that are not tracked.
TrackedMirrorsKept ==
    [][Prune => doomed' \cap tracked = {}]_mirrorVars
=============================================================================
