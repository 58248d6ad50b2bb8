----------------------------- MODULE MCPipeline -----------------------------
(***************************************************************************)
(* The stages of an analysis, each checked with the inputs its neighbours  *)
(* may hand it: which is the stage that moves, chosen before the first     *)
(* step, while the others stay in an initial state.  The settings a run is *)
(* configured with and the monitor that shows it are checked alike.        *)
(***************************************************************************)
EXTENDS Analysis, Planning, IncrementalGraph, PairwiseShards, Review, Settings, Broadcaster, TLC

CONSTANT Stages   \* the stages to check
VARIABLE which

pipelineVars == <<which, analysisVars, planVars, graphVars, shardVars, reviewVars, settingsVars,
                  monitorVars>>

-----------------------------------------------------------------------------
(* Settings requests, and the one view a job has.                          *)
Number(halves) == [kind |-> "number", halves |-> halves]
SomeChanges ==
  {[beginning_pr_number |-> Number(4)], [ending_pr_number |-> Number(2)], [max_prs |-> Number(1)],
   [beginning_pr_number |-> Number(2), ending_pr_number |-> Number(4)],
   [github_runtime |-> [kind |-> "config", amount |-> 2, flag |-> "unset"]]}
SomeViews == {[status |-> "queued", progress |-> 0]}

(* What the reviews, the pull requests and the options may be.             *)
Answer(substance, confidence, category, mergeable) ==
  [substance |-> substance, confidence |-> confidence, mergeable |-> mergeable, draft |-> FALSE, tests |-> FALSE,
   quality |-> "", blast |-> "low", category |-> category, tier |-> "", temporal |-> "now", next |-> "",
   contradictory |-> FALSE, duplicateWords |-> FALSE, problematicWords |-> FALSE, repairWords |-> FALSE,
   blocked |-> FALSE]
Answers == {Answer(10, 60, "duplicate_superseded", "unknown"),
            Answer(90, 90, "duplicate_superseded", "mergeable"), Answer(90, 90, "merge_now", "mergeable")}

(* Pairs whose hashes collide, of the three that make a large corpus.      *)
SomeCollisions == {{<<1, 3>>}, {<<1, 2>>, <<2, 3>>}}

(* Pairs that share one file, or three of code.                            *)
Shares(n) == {1, 2} :> [files |-> n, code |-> TRUE]
SomeConflicts == {<<>>, Shares(3)}

(* Branches of the pull requests in the graph.                             *)
Tip(base, head, files, clash) ==
  [base |-> base, head |-> head, files |-> files, conflicting |-> clash]
Tips == {Tip("main", "a", {}, TRUE), Tip("main", "b", {"x"}, TRUE), Tip("a", "b", {"x"}, FALSE)}

Shape(base, head, ci, own, stale, cluster, clash, draft) ==
  [base |-> base, head |-> head, files |-> {"x"}, conflicting |-> clash, ci |-> ci, draft |-> draft,
   cluster |-> cluster, own |-> own, stale |-> stale]
SomeShapes ==
  {Shape("main", "a", "success", 50, 20, 1, FALSE, FALSE), Shape("a", "b", "success", 60, 20, 2, FALSE, FALSE),
   Shape("b", "a", "pending", 40, 60, 2, FALSE, FALSE), Shape("main", "a", "failure", 50, 20, 1, TRUE, FALSE),
   Shape("main", "a", "failure", 50, 20, 1, FALSE, TRUE), Shape("main", "a", "failure", 50, 20, 1, FALSE, FALSE)}

Call(modes, strategies, targets, scores, stales, excludes, caps) ==
  [mode : modes, strategy : strategies, target : targets, scoreMin : scores, staleMax : stales,
   excludeConflicts : excludes, cap : caps]
SomeOptions ==
  Call({"combination", "permutation", "with_replacement"}, {"formula"}, {2, 3}, {0}, {0}, {FALSE}, {0})
    \union Call({"combination"}, {"formula", "hierarchical"}, {20}, {0, 50}, {0, 50}, {FALSE}, {0})
    \union Call({"combination"}, {"formula", "hierarchical"}, {20}, {0}, {0}, BOOLEAN, {0, 1})
SomeDynamic == {[enabled |-> FALSE], [enabled |-> TRUE, min |-> 1, max |-> 3, percent |-> 50]}
SomeCollapses == {<<>>, 2 :> 1}

(* A pull request with nothing against it, and those that differ from it.  *)
Plain == [title |-> "plain", body |-> "linked", labels |-> {}, author |-> TRUE, draft |-> FALSE, bot |-> FALSE,
          reviewed |-> FALSE, ci |-> "success", decision |-> "approved", mergeable |-> "mergeable",
          additions |-> 0, deletions |-> 0, count |-> 0, days |-> 5, pairs |-> 0, related |-> 0, files |-> <<>>,
          evidence |-> FALSE, talk |-> {}, dups |-> FALSE, superseded |-> FALSE]
Touching(pr, paths, each) ==
  [pr EXCEPT !.files = [f \in paths |-> each], !.additions = each * Cardinality(paths), !.count = Cardinality(paths)]
Tested == Touching(Plain, {"docs", "test"}, 60)

Contested ==
  {[pr EXCEPT !.body = b, !.ci = c, !.decision = d, !.mergeable = m, !.pairs = n, !.dups = u, !.superseded = ~u,
              !.days = t] :
     pr \in {Tested, [Plain EXCEPT !.additions = 400, !.count = 20]}, b \in {"unlinked", "linked"},
     c \in {"success", "failure"}, d \in {"approved", "changes_requested"},
     m \in {"mergeable", "conflicting", "unknown"}, n \in {0, 3}, u \in BOOLEAN, t \in {5, 110}}
Worded ==
  {[Tested EXCEPT !.title = w, !.body = b, !.labels = l, !.bot = x, !.author = ~x, !.related = 1] :
     w \in {"", "plain", "shouting", "excited"}, b \in DOMAIN Bodies,
     l \in {{"x"}, {"flaky", "dependencies"}, {"needs-rework", "ci-failed"}}, x \in BOOLEAN}
Touched ==
  {[Touching(Plain, p, 20) EXCEPT !.evidence = e, !.talk = IF e THEN {"auth", "sql", "secret"} ELSE {}, !.deletions = n] :
     p \in {q \in SUBSET Paths : Cardinality(q) \in 1..2}, e \in BOOLEAN, n \in {0, 150}}
Sized ==
  {[Plain EXCEPT !.additions = a, !.deletions = d, !.count = n, !.body = "brief", !.ci = "retry"] :
     a \in {5, 350, 2500}, d \in {0, 400}, n \in {1, 30, 60}}
Abandoned ==
  {[Touching(Plain, {"docs"}, e) EXCEPT !.draft = d, !.reviewed = r, !.ci = c, !.pairs = n, !.days = t, !.body = b,
                                       !.mergeable = "unknown", !.decision = "review_required", !.superseded = s] :
     e \in {5, 40}, d \in BOOLEAN, r \in BOOLEAN, c \in {"success", "failure", ""}, n \in {0, 11}, t \in {5, 100, 200},
     b \in {"empty", "linked"}, s \in {FALSE}}
Subjects == Contested \union Worded \union Touched \union Sized \union Abandoned

-----------------------------------------------------------------------------
(* The initial state a stage stays in while another one moves.             *)
One(S) == CHOOSE x \in S : TRUE

AnalysisIdle ==
  /\ level = [p \in AllPairs(PRs, Merged) |-> 0] /\ colliding = One(CollidingSets) /\ garbage = {} /\ conflicting = <<>> /\ edited = FALSE
  /\ phase = "idle" /\ live = FALSE /\ corpus = {} /\ groups = NoGroups /\ conflicts = {}
  /\ results = <<>> /\ superseded = <<>> /\ plan = NoPlan
  /\ dupRows = [c \in SUBSET PRs |-> {}] /\ conflictRows = [c \in SUBSET PRs |-> {}]
  /\ writer = FALSE /\ analyses = 0
PlanIdle ==
  /\ at = [n \in OpenPRs |-> One(PRShapes)] /\ collapsed = <<>> /\ options = One(Options)
  /\ dynamic = One(Dynamic) /\ stage = "filter" /\ target = options.target
  /\ pool = {} /\ rejections = [n \in OpenPRs |-> <<>>] /\ selected = {} /\ ordering = <<>>
GraphIdle ==
  /\ shape = [n \in Numbers |-> One(Shapes)] /\ present = Numbers
  /\ edges = {} /\ edgeCache = {} /\ fingerprints = <<>>
  /\ needsFullRebuild = FALSE /\ current = FALSE /\ edits = 0
ShardIdle ==
  /\ config = [shardSize |-> Max(ShardSizes), workers |-> Max(Workers), threshold |-> Max(Thresholds),
               backpressure |-> Max(Backpressures), global |-> FALSE]
  /\ clashing = {} /\ spawned = 0
  /\ shard = [s \in Shards |-> [at |-> "none", left |-> PairsOf(s), found |-> 0]]
  /\ queue = <<>> /\ reported = {} /\ metrics = {} /\ found = 0
  /\ exit = FALSE /\ cancelled = FALSE /\ result = None
ReviewIdle == subject = One(Reviewed) /\ step = "review" /\ skipped = {} /\ review = Unreviewed

PipelineInit ==
  /\ which \in Stages
  /\ SettingsInit /\ MonitorInit
  /\ \/ which = "analysis" /\ PlanIdle /\ GraphIdle /\ ShardIdle /\ ReviewIdle /\ AnalysisInit
     \/ which = "plan" /\ AnalysisIdle /\ GraphIdle /\ ShardIdle /\ ReviewIdle /\ PlanInit
     \/ which = "graph" /\ AnalysisIdle /\ PlanIdle /\ ShardIdle /\ ReviewIdle /\ GraphInit
     \/ which = "shards" /\ AnalysisIdle /\ PlanIdle /\ GraphIdle /\ ReviewIdle /\ ShardInit
     \/ which = "review" /\ AnalysisIdle /\ PlanIdle /\ GraphIdle /\ ShardIdle /\ ReviewInit
     \/ which \in {"settings", "monitor"} /\ AnalysisIdle /\ PlanIdle /\ GraphIdle /\ ShardIdle /\ ReviewIdle

PipelineNext ==
  /\ UNCHANGED which
  /\ \/ which = "analysis" /\ AnalysisNext
        /\ UNCHANGED <<planVars, graphVars, shardVars, reviewVars, settingsVars, monitorVars>>
     \/ which = "plan" /\ PlanNext
        /\ UNCHANGED <<analysisVars, graphVars, shardVars, reviewVars, settingsVars, monitorVars>>
     \/ which = "graph" /\ GraphNext
        /\ UNCHANGED <<analysisVars, planVars, shardVars, reviewVars, settingsVars, monitorVars>>
     \/ which = "shards" /\ ShardNext
        /\ UNCHANGED <<analysisVars, planVars, graphVars, reviewVars, settingsVars, monitorVars>>
     \/ which = "review" /\ ReviewNext
        /\ UNCHANGED <<analysisVars, planVars, graphVars, shardVars, settingsVars, monitorVars>>
     \/ which = "settings" /\ SettingsNext
        /\ UNCHANGED <<analysisVars, planVars, graphVars, shardVars, reviewVars, monitorVars>>
     \/ which = "monitor" /\ MonitorNext
        /\ UNCHANGED <<analysisVars, planVars, graphVars, shardVars, reviewVars, settingsVars>>

PipelineSpec == PipelineInit /\ [][PipelineNext]_pipelineVars

(* For the property of the monitor that needs its goroutines to go on.     *)
MonitorSpec == PipelineSpec /\ (which = "monitor" => MonitorFairness)
=============================================================================
