------------------------------ MODULE Analysis ------------------------------
(***************************************************************************)
(* Service.Analyze and Service.Actions (internal/app): a run loads a       *)
(* corpus, peels the garbage off it, takes the duplicate groups and the    *)
(* conflicts from the cache or computes and saves them, reviews every pull *)
(* request, collapses the groups, and turns the reviews into an action     *)
(* plan.  Runs share the cache of the store: rows keyed by the repository, *)
(* the group's canonical and the fingerprint of the set of pull requests.  *)
(*                                                                         *)
(* What two pull requests share may change between runs, once, and leaves  *)
(* the fingerprint as it is.                                               *)
(***************************************************************************)
EXTENDS Duplicates, ActionLanes

CONSTANTS
  PRs,        \* the numbers of the open pull requests
  Merged,     \* numbers of merged ones, negative
  Levels,     \* similarities a pair may have
  ExactBelow, \* pull requests from which only candidates are compared, 150 in
              \* the code
  CollidingSets, \* the sets the pairs with colliding hashes may be
  GarbageSets,   \* the sets the garbage may be
  ConflictSets,  \* the shared files, of every pair that the graph joins
  Results,    \* what a review may answer: the r of ActionLanes, with the
              \* fields of a synthesis candidate
  Profiles,   \* policy profiles
  MaxPRs,     \* the cap on the corpus, 0 for none
  MaxRuns     \* runs of the analysis

ASSUME AnalysisAssumption ==
  /\ PRs \subseteq Nat \ {0} /\ IsFiniteSet(PRs)
  /\ \A m \in Merged : m < 0 /\ m \in Int
  /\ Levels \subseteq 0..3 /\ ExactBelow \in Nat
  /\ \A r \in Results : r.confidence \in Nat /\ r.substance \in Nat

VARIABLES
  level,      \* similarity of each pair
  colliding,  \* the pairs whose hashes collide
  garbage,    \* pull requests that are obviously bad
  conflicting,  \* the files that pairs of pull requests share
  edited,     \* whether the contents have changed
  phase,      \* the phase of the running analysis, or "idle"
  live,       \* whether the run fetched its corpus from GitHub
  corpus,     \* the pull requests of the run
  groups,     \* duplicates and overlaps of the run
  conflicts,  \* conflicts the run knows of
  results,    \* reviews of the run, a function of the reviewed
  superseded, \* the collapsed corpus of the run
  plan,       \* the action plan of the run
  dupRows,    \* duplicate_groups rows of the cache, per fingerprint
  conflictRows, \* conflict_cache rows, per fingerprint
  writer,     \* whether a transaction nobody ends holds the store's write lock
  analyses    \* runs started

world == <<level, colliding, garbage, conflicting, edited>>
store == <<dupRows, conflictRows, writer>>
analysisVars == <<world, phase, live, corpus, groups, conflicts, results,
                  superseded, plan, store, analyses>>

NoGroups == [duplicates |-> {}, overlaps |-> {}]
NoPlan == [total |-> 0, profile |-> "advisory", lane |-> <<>>,
           canonical |-> <<>>, intents |-> {}]

AnalysisInit ==
  /\ level \in [AllPairs(PRs, Merged) -> Levels] /\ colliding \in CollidingSets
  /\ garbage \in GarbageSets /\ conflicting \in ConflictSets /\ edited = FALSE
  /\ phase = "idle" /\ live = FALSE /\ corpus = {} /\ groups = NoGroups
  /\ conflicts = {}
  /\ results = <<>> /\ superseded = <<>> /\ plan = NoPlan
  /\ dupRows = [c \in SUBSET PRs |-> {}] /\ conflictRows = [c \in SUBSET PRs |-> {}]
  /\ writer = FALSE /\ analyses = 0

(* CorpusFingerprint: the hash of the numbers, taken for them.             *)
Fingerprint(S) == S

(* A push to some of the pull requests, between two runs.                  *)
EditContents ==
  /\ phase = "idle" /\ ~edited /\ analyses \in 1..(MaxRuns - 1)
  /\ conflicting' \in ConflictSets \ {conflicting}
  /\ edited' = TRUE
  /\ UNCHANGED <<level, colliding, garbage, phase, live, corpus, groups, conflicts, results,
                 superseded, plan, store, analyses>>

(* loadPRs: a corpus of the cache, of one synced within the TTL or, forced,*)
(* of any, or else a fetched one, of which applyIntakeControls keeps the   *)
(* first MaxPRs.                                                           *)
IntakeControls(S) ==
  IF MaxPRs > 0 /\ Cardinality(S) > MaxPRs
    THEN {n \in S : Cardinality({m \in S : m <= n}) <= MaxPRs} ELSE S

LoadPRs(fetched) ==
  /\ phase = "idle" /\ analyses < MaxRuns
  /\ analyses' = analyses + 1
  /\ live' = fetched
  /\ corpus' = IntakeControls(PRs)
  /\ phase' = "garbage"
  /\ UNCHANGED <<world, groups, conflicts, results, superseded, plan, store>>

(* Layer one: what classifyGarbage names takes no further part.            *)
ClassifyGarbage ==
  /\ phase = "garbage"
  /\ corpus' = corpus \ garbage
  /\ phase' = "duplicates"
  /\ UNCHANGED <<world, live, groups, conflicts, results, superseded, plan, analyses, store>>

(* A hit: groups of a run over the same set of pull requests.              *)
LoadDuplicateGroups ==
  /\ phase = "duplicates" /\ corpus /= {} /\ dupRows[Fingerprint(corpus)] /= {}
  /\ groups' = SplitCached(dupRows[Fingerprint(corpus)])
  /\ phase' = "conflicts"
  /\ UNCHANGED <<world, live, corpus, conflicts, results, superseded, plan, analyses, store>>

(* SaveDuplicateGroups: the rows of this corpus are replaced in one        *)
(* transaction.  The key is the canonical, so that a pull request which    *)
(* leads a group of duplicates and one of overlaps is refused its second   *)
(* row; the error returned there is not the one the deferred rollback      *)
(* looks at, and the transaction stays open, keeping the write lock.       *)
TwoRowsOneKey(rows) ==
  \E g, h \in rows : g /= h /\ g.canonical = h.canonical

SaveDuplicateGroups(rows) ==
  IF rows = {} \/ writer \/ corpus = {} THEN UNCHANGED <<dupRows, writer>>
  ELSE IF TwoRowsOneKey(rows) THEN writer' = TRUE /\ UNCHANGED dupRows
  ELSE dupRows' = [dupRows EXCEPT ![Fingerprint(corpus)] = rows] /\ UNCHANGED writer

Compared(S) == CandidatePairs(S, Merged, colliding, ExactBelow)

(* A miss: compare, and save what was found.                               *)
FindDuplicates ==
  /\ phase = "duplicates" /\ (corpus = {} \/ dupRows[Fingerprint(corpus)] = {})
  /\ groups' = ClassifyDuplicates(Compared(corpus), level,
                 IF live THEN FreshDuplicate ELSE CachedDuplicate)
  /\ SaveDuplicateGroups(groups'.duplicates \union groups'.overlaps)
  /\ phase' = "conflicts"
  /\ UNCHANGED <<world, live, corpus, conflicts, results, superseded, plan, analyses,
                 conflictRows>>

(* A conflict of the graph is reported when the pair shares enough files   *)
(* that are no noise, or none at all: then GitHub says that both cannot be *)
(* merged.                                                                 *)
MinSharedSignalFiles == 2

Surfaced(shared) == shared.files = 0 \/ shared.files >= MinSharedSignalFiles

ConflictPair(c) ==
  LET shared == conflicting[c]
      high   == shared.files >= 5 \/ (shared.code /\ shared.files >= 3)
  IN  [pair |-> c, severity |-> IF high THEN "high" ELSE "medium",
       kind |-> IF high THEN "merge_blocking" ELSE "attention_needed"]

BuildConflicts(S) ==
  {ConflictPair(c) : c \in {d \in DOMAIN conflicting : d \subseteq S /\ Surfaced(conflicting[d])}}

(* The rows of conflict_cache have one key each.                           *)
SaveConflictCache(rows) ==
  conflictRows' = IF writer \/ rows = {} THEN conflictRows
                  ELSE [conflictRows EXCEPT ![Fingerprint(corpus)] = rows]

(* The conflicts in the same way as the groups.                            *)
LoadConflictCache ==
  /\ phase = "conflicts" /\ conflictRows[Fingerprint(corpus)] /= {}
  /\ conflicts' = conflictRows[Fingerprint(corpus)]
  /\ phase' = "review"
  /\ UNCHANGED <<world, live, corpus, groups, results, superseded, plan, analyses, store>>

FindConflicts ==
  /\ phase = "conflicts" /\ conflictRows[Fingerprint(corpus)] = {}
  /\ conflicts' = BuildConflicts(corpus)
  /\ SaveConflictCache(conflicts')
  /\ phase' = "review"
  /\ UNCHANGED <<world, live, corpus, groups, results, superseded, plan, analyses,
                 dupRows, writer>>

(* buildReviewPayload: every pull request is reviewed; a review that fails *)
(* leaves no result.                                                       *)
Review ==
  /\ phase = "review"
  /\ \E reviewed \in SUBSET corpus : results' \in [reviewed -> Results]
  /\ phase' = "collapse"
  /\ UNCHANGED <<world, live, corpus, groups, superseded, plan, analyses, store, conflicts>>

NoReview == [substance |-> 0, confidence |-> 0, mergeable |-> "unknown",
             draft |-> FALSE, tests |-> FALSE, quality |-> ""]

Footprint(n) == Cardinality({c \in conflicts : n \in c.pair})

Score == [n \in corpus |->
            SynthesisScore(IF n \in DOMAIN results THEN results[n] ELSE NoReview,
                           Footprint(n))]

Plans == DuplicateSynthesis(groups, corpus, Score)

Collapse ==
  /\ phase = "collapse"
  /\ superseded' = CollapsedCorpus(Plans, Score)
  /\ phase' = "analysed"
  /\ UNCHANGED <<world, live, corpus, groups, conflicts, results, plan, analyses, store>>

(* Service.Actions: a lane for every review result, or, when there is none *)
(* at all, human escalation for every pull request.                        *)
Evidence(n, of) ==
  IF n \in DOMAIN of
    THEN [known |-> TRUE,
          confidence |-> IF of[n].similarity >= CachedDuplicate THEN 80
                         ELSE results[n].confidence,
          conflict |-> Footprint(n) > 0]
    ELSE NoEvidence

LaneOf(of) ==
  IF results = <<>> THEN [n \in corpus |-> "human_escalate"]
  ELSE [n \in DOMAIN results |-> ClassifyLane(results[n], Evidence(n, of))]

Actions(profile, dryRun) ==
  /\ phase = "analysed"
  /\ \E of \in DuplicateEvidence(Plans) :
       LET lane == LaneOf(of)
       IN plan' = [total |-> Cardinality(corpus), profile |-> profile,
                   lane |-> lane,
                   canonical |-> [n \in DOMAIN of |-> Canonical(of[n])],
                   intents |-> UNION {ActionIntents(n, lane[n], profile, dryRun) :
                                        n \in DOMAIN lane}]
  /\ phase' = "planned"
  /\ UNCHANGED <<world, live, corpus, groups, conflicts, results, superseded, analyses, store>>

Done ==
  /\ phase = "planned"
  /\ phase' = "idle" /\ groups' = NoGroups /\ results' = <<>>
  /\ superseded' = <<>> /\ plan' = NoPlan /\ corpus' = {} /\ live' = FALSE
  /\ conflicts' = {}
  /\ UNCHANGED <<world, analyses, store>>

AnalysisNext ==
  \/ \E fetched \in BOOLEAN : LoadPRs(fetched)
  \/ ClassifyGarbage \/ LoadDuplicateGroups \/ FindDuplicates
  \/ LoadConflictCache \/ FindConflicts
  \/ Review \/ Collapse
  \/ \E p \in Profiles, d \in BOOLEAN : Actions(p, d)
  \/ Done \/ EditContents
-----------------------------------------------------------------------------
Linked(gs) == UNION {{<<g.canonical, m>> : m \in g.members} : g \in gs}

(* The cache is transparent: whichever way a run got its groups, every     *)
(* pair in one is similar, every similar pair of a small corpus is in one, *)
(* of a larger one every similar pair whose hashes collide, and what is    *)
(* listed and a duplicate for every threshold is never demoted to an       *)
(* overlap, though the rows keep one similarity for a whole group and not  *)
(* its kind (app/service.go:518-588, 1997-2069, cache/sqlite.go:1420-1506).*)
(* A similar pair of a large corpus whose hashes differ in every band is   *)
(* missed, by the code and here.                                           *)
SimilarPairsKept ==
  phase \in {"conflicts", "review", "collapse", "analysed", "planned"} =>
    LET similar == {p \in AllPairs(corpus, Merged) : level[p] >= Overlap}
        listed  == Linked(groups.duplicates) \union Linked(groups.overlaps)
    IN /\ listed \subseteq similar
       /\ similar \intersect colliding \subseteq listed
       /\ Small(corpus, Merged, ExactBelow) => listed = similar
       /\ {p \in listed : level[p] >= FreshDuplicate} \subseteq Linked(groups.duplicates)

(* Nothing is closed for a duplicate that is closed for it: the lanes name *)
(* the canonical of one group, the collapsed corpus that of a whole chain  *)
(* of groups, and still every pull request in duplicate_close is one the   *)
(* corpus superseded, by one that is not in that lane                      *)
(* (app/actions.go:114-134, app/service.go:2404-2562, 2758-2875).          *)
ClosedDuplicatesAreSuperseded ==
  phase = "planned" =>
    \A n \in DOMAIN plan.lane : plan.lane[n] = "duplicate_close" =>
      /\ n \in DOMAIN superseded
      /\ ~(/\ superseded[n] \in DOMAIN plan.lane
            /\ plan.lane[superseded[n]] = "duplicate_close")

(* Whatever the reviews say and whatever the profile, no plan lets a merge *)
(* or a close run: the classifier's preflight checks are pending or none,  *)
(* and the gate refuses both (classifier.go:331-339, policy.go:37-116).    *)
(* What a plan does let run is never in a lane for humans, and a plan that *)
(* lost a review says so in its audit.                                     *)
PlanIsSafeToPublish ==
  phase = "planned" =>
    /\ \A i \in plan.intents : i.action \in {"merge", "close"} => i.dryRun
    /\ AuditAdvisoryZeroWrite(plan) /= "fail"
    /\ (AuditLaneCoverage(plan) = "pass" => DOMAIN plan.lane = corpus)

(* The conflicts a run plans with are those its pull requests have.        *)
ConflictsAreCurrent ==
  phase \in {"review", "collapse", "analysed", "planned"} => conflicts = BuildConflicts(corpus)

(* A run that found groups leaves them in the cache, as the comment on     *)
(* SaveDuplicateGroups says (sqlite.go:1420-1421): it replaces the rows of *)
(* the repository and fingerprint.                                         *)
GroupsAreSaved ==
  phase = "conflicts" /\ groups /= NoGroups /\ corpus /= {} =>
    dupRows[Fingerprint(corpus)] /= {}
=============================================================================
