------------------------------ MODULE Analyzers ------------------------------
(***************************************************************************)
(* What the four analyzers of internal/review find in a pull request, and  *)
(* the verdict each draws from it.                                         *)
(*                                                                         *)
(* A pull request is a record of what the code tells apart:                *)
(*   title: "", "plain", "shouting" (capitals) or "excited" (!!!);         *)
(*   body: a member of DOMAIN Bodies;  labels: a set of strings, of which  *)
(*   "x" is the one of less than three characters;                         *)
(*   author (known), draft, bot, reviewed (by somebody): BOOLEAN;          *)
(*   ci, decision, mergeable: the values the GitHub clients store;         *)
(*   additions, deletions, count (of files), days (since its last update), *)
(*   pairs (conflict pairs it is in), related (others in its cluster): Nat;*)
(*   files: lines added per path, empty when the paths were not fetched;   *)
(*   evidence: the mirror had its diff, of one hunk per file;              *)
(*   talk: what the patches mention, of {"auth", "sql", "secret"};         *)
(*   dups: it leads a group of duplicates or overlaps (the orchestrator is *)
(*   told of a group under its canonical only); superseded: it is another  *)
(*   member of a group of duplicates.                                      *)
(* Confidences are in hundredths; what is less is cut off.                 *)
(***************************************************************************)
EXTENDS Naturals, Sequences, FiniteSets, SequencesExt, FiniteSetsExt, Functions

Bodies == [empty    |-> [length |-> 0, linked |-> FALSE, placeholder |-> FALSE],
           short    |-> [length |-> 10, linked |-> FALSE, placeholder |-> FALSE],
           brief    |-> [length |-> 40, linked |-> TRUE, placeholder |-> FALSE],
           unlinked |-> [length |-> 200, linked |-> FALSE, placeholder |-> FALSE],
           linked   |-> [length |-> 200, linked |-> TRUE, placeholder |-> FALSE],
           template |-> [length |-> 120, linked |-> TRUE, placeholder |-> TRUE]]
Body(pr) == Bodies[pr.body]

(* A path of each sort the analyzers know: docs/use.md, core/run.go,       *)
(* cache.go, deploy.yaml, prod/.env, auth/me.go, package.json, yarn.lock,  *)
(* data/schema.sql and one_test.go; and which of them the patterns match.  *)
Paths == {"docs", "core", "cache", "deploy", "env", "auth", "manifest", "lock", "schema", "test"}

PerformancePatterns == [critical |-> {"core"}, sensitive |-> {"cache", "schema"}, config |-> {"deploy", "manifest"}]
SecurityPatterns == [secret |-> {"env"}, auth |-> {"auth"}, dependency |-> {"manifest", "lock"},
                     sensitive |-> {"env", "auth"}]
Source == {"core", "cache", "auth", "test"}
TestFile == {"test"}
ProductionCode == {"core", "cache", "env", "auth", "lock", "schema"}
Rollout == {"deploy", "schema"}
Documentation == {"docs"}
Subsystem == [docs |-> "docs", core |-> "unknown", cache |-> "unknown", deploy |-> "config",
              env |-> "unknown", auth |-> "auth", manifest |-> "config", lock |-> "unknown",
              schema |-> "database", test |-> "tests"]

FilesChanged(pr) == DOMAIN pr.files
Those(pr, paths) == FilesChanged(pr) \intersect paths
Diff(pr) == IF pr.evidence THEN FilesChanged(pr) ELSE {}
Lines(pr) == pr.additions + pr.deletions
FileCount(pr) == IF FilesChanged(pr) = {} THEN pr.count ELSE Cardinality(FilesChanged(pr))
FailedCI == {"failure", "failed", "red", "error"}

Finding(kind, confidence, holds) ==
  IF holds THEN <<[kind |-> kind, confidence |-> confidence]>> ELSE <<>>
(* One finding for each member of S.                                       *)
FindingPer(kind, confidence, S) ==
  [i \in 1..Cardinality(S) |-> [kind |-> kind, confidence |-> confidence]]
FindingsOf(found, kinds) == Len(SelectSeq(found, LAMBDA f : f.kind \in kinds))

SubsystemFindings(pr) ==
  FindingPer("subsystem change", 60, {Subsystem[f] : f \in Diff(pr)} \ {"tests", "docs"})

-----------------------------------------------------------------------------
(* The performance analyzer. A threshold that is passed counts for more    *)
(* the further it is passed.                                               *)
Over(x, limit, base, more) == base + (more * (x - limit)) \div x

DetectLargeDiffs(pr) ==
  Finding("large diff", Over(Lines(pr), 500, 70, 20), Lines(pr) > 500)

DetectManyFilesChanged(pr) == Finding("many files", Over(pr.count, 50, 75, 15), pr.count > 50)

DetectHighAdditionsOrDeletions(pr) ==
  Finding("high additions", Over(pr.additions, 300, 70, 15), pr.additions > 300)
    \o Finding("high deletions", Over(pr.deletions, 300, 70, 15), pr.deletions > 300)

DetectCriticalPathChanges(pr) == FindingPer("critical path", 80, Those(pr, PerformancePatterns.critical))
DetectPerformanceSensitiveFiles(pr) == FindingPer("performance-sensitive", 75, Those(pr, PerformancePatterns.sensitive))
DetectConfigChanges(pr) == FindingPer("config file", 70, Those(pr, PerformancePatterns.config))

PerformanceFindings(pr) ==
  DetectLargeDiffs(pr) \o DetectManyFilesChanged(pr) \o DetectCriticalPathChanges(pr)
    \o DetectPerformanceSensitiveFiles(pr) \o DetectHighAdditionsOrDeletions(pr)
    \o DetectConfigChanges(pr) \o SubsystemFindings(pr)

ClassifyPerformanceRisk(found) ==
  LET Has(kind) == FindingsOf(found, {kind}) > 0
  IN CASE found = <<>> -> "merge_now"
       [] \/ Has("large diff") /\ Has("critical path")
          \/ Has("many files") /\ Has("performance-sensitive") -> "problematic_quarantine"
       [] OTHER -> "merge_after_focused_review"

-----------------------------------------------------------------------------
(* The security analyzer. With the diff at hand the paths are those of the *)
(* diff, and the patches are read too.                                     *)
RiskyFiles(paths) == FindingPer("risky file path", 90, paths \intersect SecurityPatterns.secret)
AuthChanges(paths) == FindingPer("auth/permission", 80, paths \intersect SecurityPatterns.auth)

DetectRiskyFiles(pr) == RiskyFiles(FilesChanged(pr))
DetectRiskyFilesWithEvidence(pr) == RiskyFiles(Diff(pr))
DetectAuthChanges(pr) == AuthChanges(FilesChanged(pr))
DetectAuthChangesWithEvidence(pr) == AuthChanges(Diff(pr))

DetectDependencyChanges(pr) == FindingPer("dependency", 75, Those(pr, SecurityPatterns.dependency))
DetectSecuritySensitiveDeletions(pr) ==
  FindingPer("deletion", 85, IF pr.deletions > 100 THEN Those(pr, SecurityPatterns.sensitive) ELSE {})

FirstAuthRiskFinding(pr) == Finding("auth-sensitive diff", 88, "auth" \in pr.talk)
FirstDatabaseRiskFinding(pr) ==
  Finding("data-safety diff", 82, "sql" \in pr.talk \/ \E f \in Diff(pr) : Subsystem[f] = "database")
FirstCryptoRiskFinding(pr) == Finding("crypto-or-secret diff", 84, "secret" \in pr.talk)

SecurityFindings(pr) ==
  (IF Diff(pr) = {} THEN DetectRiskyFiles(pr) \o DetectAuthChanges(pr)
   ELSE DetectRiskyFilesWithEvidence(pr) \o DetectAuthChangesWithEvidence(pr)
          \o FirstAuthRiskFinding(pr) \o FirstDatabaseRiskFinding(pr) \o FirstCryptoRiskFinding(pr))
    \o DetectDependencyChanges(pr) \o DetectSecuritySensitiveDeletions(pr) \o SubsystemFindings(pr)

ClassifySecurityRisk(found) ==
  CASE found = <<>> -> "merge_now"
    [] FindingsOf(found, {"risky file path"}) > 0 \/ FindingsOf(found, {"auth/permission"}) > 2 ->
         "problematic_quarantine"
    [] OTHER -> "merge_after_focused_review"

-----------------------------------------------------------------------------
(* The quality analyzer.                                                   *)
DetectSuspiciousPatterns(pr) ==
  Finding("all_caps_title", 70, pr.title = "shouting")
    \o Finding("excessive_punctuation", 70, pr.title = "excited")
    \o Finding("placeholder_text", 70, Body(pr).placeholder)

IsNoisyPR(pr) == \/ pr.count > 20 /\ Body(pr).length < 100
                 \/ Lines(pr) > 1000 /\ Body(pr).length < 150

AddedBy(pr, S) == MapThenSumSet(LAMBDA f : pr.files[f], S)
Production(pr) == Diff(pr) \intersect ProductionCode
Tests(pr) == Diff(pr) \intersect TestFile

DetectTestGap(pr) ==
  Finding("production code changed without test evidence", 75,
          Production(pr) /= {} /\ Tests(pr) = {} /\ AddedBy(pr, Production(pr)) >= 10)

DetectTestEvidence(pr) ==
  LET both == Production(pr) /= {} /\ Tests(pr) /= {}
  IN Finding("accompanying tests", 70, both)
       \o Finding("test coverage appears partial", 60,
                  both /\ AddedBy(pr, Tests(pr)) * 4 < AddedBy(pr, Production(pr)))

QualityFindings(pr) ==
  Finding("empty_body", 95, Body(pr).length = 0)
    \o Finding("minimal_description", 80, Body(pr).length \in 1..49)
    \o Finding("no_linked_issues", 75, ~Body(pr).linked)
    \o DetectSuspiciousPatterns(pr) \o Finding("noisy_pr", 65, IsNoisyPR(pr))
    \o DetectTestGap(pr) \o DetectTestEvidence(pr) \o SubsystemFindings(pr)

(* Two findings of medium severity, of which a subsystem's tag and the     *)
(* tests that came along are each one, weigh as much as a serious one.     *)
ClassifyPR(found) ==
  LET high == FindingsOf(found, {"empty_body", "no_linked_issues"})
  IN IF high > 0 \/ Len(found) - high >= 2 THEN "problematic_quarantine"
     ELSE "merge_after_focused_review"

-----------------------------------------------------------------------------
(* The reliability analyzer.                                               *)
DetectCIFailures(pr) ==
  Finding("ci failure", 95, pr.ci \in FailedCI \ {"red"})
    \o Finding("ci failure", 90, pr.labels \intersect {"ci-failed", "build-failed", "tests-failed"} /= {})

DetectFlakyPatterns(pr) ==
  Finding("flaky", 85, pr.labels \intersect {"flaky", "flaky-test", "ci-flaky", "test-flaky", "flaky-ci"} /= {})
    \o Finding("flaky", 75, pr.ci \in {"rerun", "retry", "re-run"})

DetectMergeabilityIssues(pr) ==
  Finding("merge conflict", 90, pr.mergeable \in {"false", "conflicting"})
    \o Finding("merge state unknown", 60, pr.mergeable = "unknown")
    \o Finding("merge conflict", 90, pr.pairs > 0)

ChurnLabels == {"changes-requested", "review-churn", "needs-revision", "needs-rework",
                "author-respond", "waiting-on-author"}
DetectReviewChurn(pr) ==
  Finding("review churn", 90, pr.decision = "changes_requested")
    \o Finding("review churn", 80, pr.labels \intersect ChurnLabels /= {})

DetectDependencyImpact(pr) == FindingPer("rollout impact", 72, Diff(pr) \intersect Rollout)

ReliabilityFindings(pr) ==
  DetectCIFailures(pr) \o DetectFlakyPatterns(pr) \o DetectMergeabilityIssues(pr)
    \o DetectReviewChurn(pr) \o SubsystemFindings(pr) \o DetectDependencyImpact(pr)

ClassifyReliabilityRisk(found) ==
  CASE found = <<>> -> "merge_now"
    [] FindingsOf(found, {"ci failure", "merge conflict"}) > 0 -> "problematic_quarantine"
    [] OTHER -> "merge_after_focused_review"

-----------------------------------------------------------------------------
(* The verdicts.                                                           *)
Analyzers == {"performance", "quality", "reliability", "security"}

Found(a, pr) ==
  CASE a = "performance" -> PerformanceFindings(pr)
    [] a = "quality" -> QualityFindings(pr)
    [] a = "reliability" -> ReliabilityFindings(pr)
    [] a = "security" -> SecurityFindings(pr)

CategoryOf(a, found) ==
  CASE a = "performance" -> ClassifyPerformanceRisk(found)
    [] a = "quality" -> ClassifyPR(found)
    [] a = "reliability" -> ClassifyReliabilityRisk(found)
    [] a = "security" -> ClassifySecurityRisk(found)

(* calculateConfidenceFromFindings and capConfidenceByCategory             *)
Within(low, high, x) == IF x < low THEN low ELSE IF x > high THEN high ELSE x

Confidence(category, c) ==
  LET n == Len(c)
      blend == (6 * n * Max(Range(c)) + 4 * FoldFunction(+, 0, c) + 20 * n * (n - 1)) \div (10 * n)
      cap == CASE category = "merge_now" -> 95
               [] category = "problematic_quarantine" -> 90
               [] OTHER -> 92
  IN Within(50, cap, IF n = 0 THEN 95 ELSE Within(50, 95, blend))

Verdict(a, pr) ==
  LET found == Found(a, pr)
      category == CategoryOf(a, found)
  IN [found |-> found, category |-> category,
      confidence |-> Confidence(category, [i \in DOMAIN found |-> found[i].confidence])]

-----------------------------------------------------------------------------
(* How stale a pull request is (buildStaleness), in hundredths of the most *)
(* it can be.                                                              *)
Staleness(pr) ==
  Within(0, 100, (IF pr.days > 30 THEN Within(0, 60, pr.days \div 2) ELSE 0)
                   + (IF pr.mergeable = "conflicting" THEN 20 ELSE 0)
                   + (IF pr.superseded THEN 20 ELSE 0))
Stale(pr) == Staleness(pr) > 50
=============================================================================
