------------------------------- MODULE Review -------------------------------
(***************************************************************************)
(* The review of one pull request (internal/review): the four analyzers    *)
(* each give a verdict or time out, the verdicts are put to the vote, the  *)
(* deterministic classifiers add blockers, the tier, the sixteen decision  *)
(* layers and the bucket.  RunSecondPass and RunQuickWinPass may then      *)
(* reclassify the result.                                                  *)
(***************************************************************************)
EXTENDS Analyzers

CONSTANT Reviewed   \* the pull requests under review, records as in Analyzers

ASSUME ReviewAssumption == \A pr \in Reviewed : pr.pairs \in Nat

Categories == <<"duplicate_superseded", "merge_after_focused_review", "merge_now",
                "problematic_quarantine", "unknown_escalate">>   \* in alphabetical order

VARIABLES
  subject,   \* the pull request
  step,      \* "review", "recovery", "quick_win" or "done"
  skipped,   \* analyzers that failed or timed out
  review     \* the result

reviewVars == <<subject, step, skipped, review>>

-----------------------------------------------------------------------------
(* The vote over the verdicts v: the category of most analyzers, then of   *)
(* the greater sum of confidences, then the first in the alphabet.         *)
Elected(v) ==
  LET Of(c) == {a \in DOMAIN v : v[a].category = c}
      tally == [i \in DOMAIN Categories |->
                  <<Cardinality(Of(Categories[i])),
                    MapThenSumSet(LAMBDA a : v[a].confidence, Of(Categories[i])), 6 - i>>]
      Below(s, t) == \E k \in 1..3 : s[k] < t[k] /\ \A h \in 1..(k - 1) : s[h] = t[h]
      first == CHOOSE i \in DOMAIN tally : \A j \in DOMAIN tally \ {i} : Below(tally[j], tally[i])
  IN IF DOMAIN v = {} THEN [category |-> "unknown_escalate", confidence |-> 0]
     ELSE [category |-> Categories[first], confidence |-> tally[first][2] \div tally[first][1]]

-----------------------------------------------------------------------------
(* ClassifyMergeSafety. The stored value of a pull request that cannot be  *)
(* merged is "conflicting" (rest.go and client.go); the values named here  *)
(* are "false", "unclean", "conflicted" and "dirty".                       *)
(* Every conflict pair of the analysis names files, at least the word      *)
(* "mergeability_signal" (service.go:2254-2301), so that having a pair is  *)
(* having files.                                                           *)
PassingCI == {"success", "passed", "green"}
MergeConflictValues == {"false", "unclean", "conflicted", "dirty"}

SafetyBlockers(pr) ==
  {b \in {"CI failing", "changes requested", "merge conflicts", "draft PR", "conflicts on files"} :
     CASE b = "CI failing" -> pr.ci \in FailedCI
       [] b = "changes requested" -> pr.decision = "changes_requested"
       [] b = "merge conflicts" -> pr.mergeable \in MergeConflictValues
       [] b = "draft PR" -> pr.draft
       [] b = "conflicts on files" -> pr.pairs > 0}

IsHighRiskPR(pr) == pr.count >= 5 \/ Lines(pr) >= 500

SafetyConfidence(pr, blockers) ==
  LET Cost(x, holds) == IF holds THEN x ELSE 0
      lost == Cost(20, pr.ci \in FailedCI) + Cost(10, pr.ci \notin PassingCI \union FailedCI)
              + Cost(20, pr.decision = "changes_requested")
              + Cost(IF pr.draft THEN 5 ELSE 15, pr.decision \in {"pending", "review_required", "required"})
              + Cost(10, pr.decision \notin {"approved", "changes_requested", "pending", "review_required", "required"})
              + Cost(25, pr.mergeable \in MergeConflictValues)
              + Cost(15, pr.mergeable \notin MergeConflictValues \union {"true", "clean", "mergeable"})
              + Cost(15, pr.draft) + (IF pr.pairs > 0 THEN 20 ELSE 5)
      diff == FilesChanged(pr) /= {} \/ Lines(pr) > 0
      ci == pr.ci \in PassingCI
      approved == pr.decision = "approved"
      tiered == CASE ~diff /\ ~ci /\ ~approved -> Within(0, 35, 100 - lost)
                  [] diff /\ ci /\ ~approved -> Within(0, 65, 100 - lost)
                  [] diff /\ ci /\ approved /\ blockers = {} -> Within(80, 100, 100 - lost)
                  [] OTHER -> IF lost > 100 THEN 0 ELSE 100 - lost
  IN Within(0, IF IsHighRiskPR(pr) THEN 79 ELSE 100, tiered)

(* ClassifyProblematicPR: each kind adds up its indicators, here the set of *)
(* those present with their weights, and the first kind to reach its       *)
(* threshold is the answer.                                                *)
Indicators(weighed) == {w \in weighed : w[3]}
Weight(indicators) == Within(0, 100, MapThenSumSet(LAMBDA w : w[2], indicators))

CheckSpam(pr) ==
  Indicators({<<"empty title", 30, pr.title = "">>, <<"empty body", 20, Body(pr).length = 0>>,
              <<"bot author", 30, pr.bot>>, <<"excessive labels", 20, Cardinality(pr.labels) > 10>>,
              <<"abnormally short label", 10, "x" \in pr.labels>>})

CheckBroken(pr) ==
  Indicators({<<"CI failing", 40, pr.ci \in FailedCI>>, <<"CI status unknown", 10, pr.ci = "">>,
              <<"merge conflicts", 35, pr.mergeable \in MergeConflictValues>>,
              <<"mergeable status unknown", 10, pr.mergeable = "">>, <<"draft PR", 25, pr.draft>>})

(* The lock files are left out: it takes four of them.                     *)
CheckSuspicious(pr) ==
  Indicators({<<"very large additions", 30, pr.additions > 2000>>,
              <<"very large deletions", 30, pr.deletions > 2000>>,
              <<"many changed files", 25, pr.count > 50>>})

CheckLowQuality(pr) ==
  Indicators({<<"empty body", 30, Body(pr).length = 0>>, <<"minimal description", 20, Body(pr).length \in 1..19>>,
              <<"no linked issues", 15, ~Body(pr).linked /\ Body(pr).length > 0>>,
              <<"no description provided", 25, pr.title /= "" /\ Body(pr).length = 0>>})

Problem(pr) ==
  LET Is(type, found) == [type |-> type, confidence |-> Weight(found), reasons |-> Cardinality(found)]
      kinds == <<Is("spam", CheckSpam(pr)), Is("broken", CheckBroken(pr)),
                 Is("suspicious", CheckSuspicious(pr)), Is("low_quality", CheckLowQuality(pr))>>
      Reached(k) == k.confidence >= (IF k.type = "spam" THEN 40 ELSE 30)
      reached == SelectSeq(kinds, Reached)
  IN IF reached = <<>> THEN [type |-> "none", confidence |-> 100, reasons |-> 0] ELSE Head(reached)

PriorityTier(blockers, confidence, problem) ==
  CASE blockers /= {} -> "blocked"
    [] blockers = {} /\ problem.type /= "none" ->
         IF problem.confidence >= 50 THEN "blocked" ELSE "review_required"
    [] OTHER -> IF confidence < 80 THEN "review_required" ELSE "fast_merge"

-----------------------------------------------------------------------------
(* The decision layers (buildDecisionLayers): the bucket at each gate of   *)
(* the funnel and the gate at which a pull request leaves it.              *)
Banded(x, top, mid, low, bands) ==
  IF x >= top THEN bands[1] ELSE IF x >= mid THEN bands[2] ELSE IF x >= low THEN bands[3] ELSE bands[4]

Junk(pr) == pr.draft \/ pr.bot \/ pr.title = "" \/ Body(pr).length = 0

BucketForBadness(problem) ==
  CASE problem.type = "spam" -> "junk"
    [] problem.type \in {"broken", "suspicious"} -> "blocked"
    [] OTHER -> "low_value"

BucketForSubstance(unsafe, confidence) ==
  IF unsafe /= {} THEN "blocked"
  ELSE Banded(confidence, 85, 65, 50, <<"high_value", "merge_candidate", "needs_review", "low_value">>)

BucketForCategory(category) ==
  CASE category = "merge_now" -> "now"
    [] category = "merge_after_focused_review" -> "future"
    [] category = "duplicate_superseded" -> "duplicate"
    [] category = "problematic_quarantine" -> "junk"
    [] category = "unknown_escalate" -> "blocked"

BucketForConfidence(confidence) ==
  Banded(confidence, 85, 65, 50, <<"high_value", "needs_review", "low_value", "blocked">>)

BucketForStability(pr) ==
  CASE Staleness(pr) >= 75 -> "re_engage"
    [] Staleness(pr) < 75 /\ pr.mergeable = "conflicting" -> "blocked"
    [] OTHER -> "now"

BucketForMergeability(pr) ==
  CASE pr.mergeable \in {"mergeable", "true", "clean"} -> "now"
    [] pr.mergeable \in {"conflicting", "false", "unclean", "dirty"} -> "blocked"
    [] OTHER -> "needs_review"

BucketForStrategicWeight(category) ==
  CASE category = "merge_now" -> "high_value"
    [] category = "merge_after_focused_review" -> "merge_candidate"
    [] category = "unknown_escalate" -> "needs_review"
    [] OTHER -> "re_engage"   \* every cluster has a label

BucketForAttentionCost(pr, reasons) ==
  LET cost == (IF pr.title = "" THEN 0 ELSE 30) + Body(pr).length + 20 * reasons
  IN Banded(cost, 500, 200, 0, <<"low_value", "needs_review", "high_value", "">>)

BucketForSignalQuality(problem, confidence) ==
  IF problem.type /= "none" THEN "junk"
  ELSE Banded(confidence, 85, 65, 0, <<"high_value", "merge_candidate", "low_value", "">>)

DecisionLayers(pr, elected, unsafe, problem) ==
  <<IF Junk(pr) THEN "junk" ELSE "low_value",
    "duplicate",
    BucketForBadness(problem),
    BucketForSubstance(unsafe, elected.confidence),
    BucketForCategory(elected.category),
    BucketForConfidence(elected.confidence),
    IF pr.pairs > 0 THEN "blocked" ELSE "now",
    Banded(Lines(pr), 1000, 250, 0, <<"blocked", "needs_review", "low_value", "">>),
    Banded(pr.related, 5, 1, 0, <<"high_value", "merge_candidate", "low_value", "">>),
    IF pr.bot \/ ~pr.author THEN "needs_review" ELSE "high_value",
    BucketForStability(pr),
    BucketForMergeability(pr),
    BucketForStrategicWeight(elected.category),
    BucketForAttentionCost(pr, problem.reasons),
    Banded(Lines(pr), 201, 21, 0, <<"low_value", "merge_candidate", "high_value", "">>),
    BucketForSignalQuality(problem, elected.confidence)>>

ExitGate(pr, problem) ==
  IF Junk(pr) THEN 1 ELSE IF problem.type \in {"spam", "broken", "suspicious"} THEN 3 ELSE 16

(* The deep judgment of the result itself.                                 *)
HasOwner(pr) == pr.author /\ (pr.bot \/ pr.days <= 90)

BlastRadius(pr) ==
  CASE FileCount(pr) >= 20 \/ pr.pairs >= 10 -> "high"
    [] FileCount(pr) < 20 /\ pr.pairs < 10 /\ (FileCount(pr) >= 5 \/ pr.pairs >= 3) -> "medium"
    [] OTHER -> "low"

Reversible(pr) == Those(pr, Source) = {}   \* auth/me.go is of both sorts
Leverage(pr) == Banded(pr.pairs, 5, 2, 0, <<80, 50, 20, 0>>)
StrategicWeight(substance) == Banded(substance, 80, 60, 40, <<90, 60, 30, 10>>)

(* computeSubstanceScore: depth, tests, freshness, clean findings, size.   *)
Substance(pr, v) ==
  LET Sure(a, c) == Len(SelectSeq(v[a].found, LAMBDA f : f.confidence >= c))
      negative == MapThenSumSet(LAMBDA a : Sure(a, 70) + Sure(a, 85), DOMAIN v)
      depth == IF FileCount(pr) >= 20 THEN 20 ELSE Banded(FileCount(pr), 10, 5, 2, <<16, 12, 8, 4 * FileCount(pr)>>)
      source == Banded(Cardinality(Those(pr, Source)), 5, 2, 1, <<10, 7, 4, 0>>)
      tests == IF Those(pr, TestFile) /= {} THEN 20 ELSE 0
      fresh == IF pr.days <= 7 THEN 20 ELSE Banded(pr.days, 181, 91, 31, <<4, 8, 12, 16>>)
      clean == IF Stale(pr) THEN 0 ELSE Banded(negative, 5, 3, 1, <<0, 6, 12, 20>>)
      size == IF Lines(pr) >= 1000 THEN 10
              ELSE IF Lines(pr) < 30 THEN (IF Lines(pr) >= 10 THEN 2 ELSE 0)
              ELSE Banded(Lines(pr), 300, 100, 30, <<8, 6, 4, 0>>)
  IN Within(0, 100, Within(0, 30, depth + source) + tests + fresh + clean + size)

(* Mutant: the bucket follows the vote, whatever the blockers say.         *)
TemporalBucketOfVote(category, blockers, substance, pr) ==
  IF category \in {"duplicate_superseded", "problematic_quarantine"} THEN "blocked"
  ELSE IF category = "merge_now" /\ substance >= 70 /\ ~Stale(pr) THEN "now" ELSE "future"

(* computeTemporalBucket                                                   *)
TemporalBucket(category, blockers, substance, pr) ==
  IF category \in {"duplicate_superseded", "problematic_quarantine"} \/ blockers /= {} THEN "blocked"
  ELSE IF category = "merge_now" /\ substance >= 70 /\ ~Stale(pr) THEN "now" ELSE "future"

(* Orchestrator.Review, when the analyzers in lost fail or time out.       *)
NextAction(category, problem) ==
  CASE category = "merge_now" -> "merge"
    [] category = "duplicate_superseded" -> "duplicate"
    [] category = "problematic_quarantine" -> IF problem.type = "spam" THEN "close" ELSE "quarantine"
    [] category = "unknown_escalate" -> "escalate"
    [] OTHER -> "review"

Reviewing(pr, lost) ==
  LET v == [a \in Analyzers \ lost |-> Verdict(a, pr)]
      e == Elected(v)
      problem == Problem(pr)
      unsafe == SafetyBlockers(pr)
      substance == Substance(pr, v)
      blockers == unsafe \union (IF Stale(pr) THEN {"stale"} ELSE {})
                    \union (IF pr.pairs > 0 THEN {"conflict"} ELSE {})
                    \union (IF pr.dups THEN {"duplicate"} ELSE {})
  IN [category |-> e.category, confidence |-> e.confidence, blockers |-> blockers,
      action |-> NextAction(e.category, problem),
      tier |-> CASE e.category \in {"problematic_quarantine", "duplicate_superseded"} -> "blocked"
                 [] e.category = "unknown_escalate" -> "review_required"
                 [] OTHER -> PriorityTier(unsafe, SafetyConfidence(pr, unsafe), problem),
      substance |-> substance,
      temporal |-> TemporalBucket(e.category, blockers, substance, pr),
      heard |-> {a \in DOMAIN v \ {"quality"} : v[a].found /= <<>>},
      layers |-> DecisionLayers(pr, e, unsafe, problem), exit |-> ExitGate(pr, problem),
      judgment |-> <<HasOwner(pr), BlastRadius(pr), Reversible(pr), Leverage(pr), StrategicWeight(substance),
                     BucketForSignalQuality(problem, e.confidence)>>,
      from |-> "", reason |-> "", tag |-> ""]

-----------------------------------------------------------------------------
(* RunSecondPass: the first rule that matches; "" when none does.          *)
HasRiskFlags(pr) == pr.count > 10 \/ Lines(pr) > 500 \/ pr.pairs > 5 \/ pr.ci \in FailedCI

Recovery(pr) ==
  LET failing == pr.ci \in FailedCI
      rules == << [to |-> "future", why |-> "recoverable CI failure",
                   if |-> failing /\ pr.days < 30 /\ ~pr.draft /\ pr.pairs < 3],
                  [to |-> "future", why |-> "active draft", if |-> pr.draft /\ pr.reviewed /\ ~Stale(pr)],
                  [to |-> "future", why |-> "small unknown mergeable",
                   if |-> pr.mergeable \in {"", "unknown"} /\ pr.count <= 5 /\ ~HasRiskFlags(pr)],
                  [to |-> "junk", why |-> "abandoned failing PR",
                   if |-> failing /\ pr.days >= 90 /\ ~pr.reviewed],
                  [to |-> "junk", why |-> "stale PR with excessive conflicts", if |-> pr.pairs > 10 /\ Stale(pr)],
                  [to |-> "junk", why |-> "garbage markers", if |-> pr.bot \/ pr.title = "" \/ Body(pr).length = 0],
                  [to |-> "", why |-> "permanent_blocker", if |-> TRUE] >>
  IN rules[CHOOSE i \in DOMAIN rules : rules[i].if /\ \A j \in 1..(i - 1) : ~rules[j].if]

Bucketed(bucket) == IF bucket = "junk" THEN "problematic_quarantine" ELSE "merge_after_focused_review"

RunSecondPass ==
  /\ step = "recovery" /\ step' = "quick_win"
  /\ LET rule == Recovery(subject)
     IN review' = IF review.category /= "unknown_escalate" THEN review
                  ELSE IF rule.to = "" THEN [review EXCEPT !.reason = rule.why]
                  ELSE [review EXCEPT !.category = Bucketed(rule.to), !.temporal = rule.to,
                                      !.from = review.category, !.reason = rule.why,
                                      !.layers = Append(@, rule.to)]
  /\ UNCHANGED <<subject, skipped>>

(* RunQuickWinPass; what the code calls low value, and its rules. A result *)
(* RunSecondPass recovered carries the category it had, never "blocked".   *)
LowValue ==
  /\ review.temporal = "future" /\ review.substance < 50
  /\ review.category \notin {"duplicate_superseded", "problematic_quarantine"}
  /\ review.from /= "blocked"

IsSmallPR(pr) == pr.count <= 3 \/ Lines(pr) <= 50
IsDocsOnly(pr) == FilesChanged(pr) /= {} /\ FilesChanged(pr) = Those(pr, Documentation)

DeriveBatchTag(pr) ==
  CASE pr.labels \intersect {"dependencies", "dependabot"} /= {} -> "dependency-batch"
    [] pr.labels \intersect {"dependencies", "dependabot"} = {} /\ Lines(pr) <= 10 -> "typo-batch"
    [] OTHER -> ""

QuickWin(pr) ==
  LET passing == pr.ci \in PassingCI \union {""}
      s == review.substance
      rules == << [to |-> "now", why |-> "small focused PR", tag |-> DeriveBatchTag(pr),
                   if |-> IsSmallPR(pr) /\ passing /\ ~pr.draft /\ pr.pairs < 3 /\ s > 30],
                  [to |-> "now", why |-> "documentation improvement", tag |-> "docs-batch",
                   if |-> IsDocsOnly(pr) /\ passing /\ pr.pairs = 0 /\ s > 25],
                  [to |-> "future", why |-> "addresses quality concerns", tag |-> "",
                   if |-> review.heard /= {} /\ s > 40],
                  [to |-> "junk", why |-> "abandoned low-value PR", tag |-> "",
                   if |-> pr.days > 90 /\ pr.ci \in FailedCI /\ ~pr.reviewed /\ s < 20],
                  [to |-> "", why |-> "genuine low_value", tag |-> "", if |-> TRUE] >>
  IN rules[CHOOSE i \in DOMAIN rules : rules[i].if /\ \A j \in 1..(i - 1) : ~rules[j].if]

RunQuickWinPass ==
  /\ step = "quick_win" /\ step' = "done"
  /\ LET rule == QuickWin(subject)
         from == CASE rule.to = "junk" -> review.category
                   [] rule.to /= "junk" /\ (review.from = "" \/ rule.to = "") -> "low_value"
                   [] OTHER -> review.from
     IN review' = IF ~LowValue THEN review
                  ELSE IF rule.to = "" THEN [review EXCEPT !.from = from, !.reason = rule.why]
                  ELSE [review EXCEPT !.category = Bucketed(rule.to),
                                      !.temporal = rule.to, !.from = from, !.reason = rule.why,
                                      !.tag = rule.tag, !.layers = Append(@, "quick_win")]
  /\ UNCHANGED <<subject, skipped>>

Unreviewed == [category |-> "", confidence |-> 0, blockers |-> {}, action |-> "", tier |-> "", substance |-> 0,
               temporal |-> "", heard |-> {}, layers |-> <<>>, exit |-> 0, judgment |-> <<>>,
               from |-> "", reason |-> "", tag |-> ""]

ReviewInit == /\ subject \in Reviewed /\ step = "review"
              /\ skipped = {} /\ review = Unreviewed

(* An analyzer that errs or outlives its timeout is skipped; the built-in  *)
(* ones answer every time, a registered one need not.                      *)
ReviewPR(lost) ==
  /\ step = "review" /\ step' = "recovery"
  /\ skipped' = lost
  /\ review' = Reviewing(subject, lost)
  /\ UNCHANGED subject

ReviewNext ==
  \/ \E lost \in SUBSET Analyzers : ReviewPR(lost)
  \/ RunSecondPass
  \/ RunQuickWinPass

-----------------------------------------------------------------------------
(* A pull request that is to be merged now, and did not get there by being *)
(* recovered from the escalated ones, has nothing against it that the      *)
(* classifiers look for, whichever analyzers failed: the vote may elect    *)
(* merge_now when the one that found the failing build timed out, and then *)
(* only the blockers hold the pull request back.                           *)
NowIsClean ==
  review.temporal = "now" /\ review.from \in {"", "low_value"}
    => /\ subject.ci \notin FailedCI /\ subject.decision /= "changes_requested"
       /\ ~subject.draft /\ ~subject.dups /\ ~Stale(subject) /\ subject.pairs = 0

(* "Critical severity: CI failure or merge conflict blocks merge"          *)
(* (analyzer_reliability.go:266): a pull request GitHub says conflicts is  *)
(* not one to merge now.                                                   *)
ConflictBlocksMerge == subject.mergeable = "conflicting" => review.temporal /= "now"

(* A pull request that leaves the funnel early is not one to merge now:    *)
(* "A PR exits early if it lands in junk, duplicate, or blocked"           *)
(* (orchestrator.go:481), here with every analyzer heard.                  *)
JunkIsNotNow == skipped = {} /\ review.temporal = "now" /\ review.from = "" => review.exit = 16

=============================================================================
