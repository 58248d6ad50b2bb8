---------------------------- MODULE ActionLanes -----------------------------
(***************************************************************************)
(* The action plan's pure part (internal/actions, internal/app/actions.go):*)
(* the lane of a reviewed pull request, the policy gate over its actions,  *)
(* the intents that come out of it and the audit of the whole plan.        *)
(*                                                                         *)
(* A review result r has the fields confidence (percent), blast, category, *)
(* tier, mergeable, temporal, next, and the flags the classifier draws from*)
(* its texts: contradictory (CI said to pass and to fail), duplicateWords, *)
(* problematicWords, repairWords, blocked.  Evidence ev is a record with   *)
(* known, confidence and conflict.                                         *)
(***************************************************************************)
EXTENDS Integers, FiniteSets

Lanes == {"fast_merge", "fix_and_merge", "duplicate_close", "reject_or_close",
          "focused_review", "future_or_reengage", "human_escalate"}

NoEvidence == [known |-> FALSE, confidence |-> 0, conflict |-> FALSE]

IsDuplicateSignal(r) == r.category = "duplicate_superseded" \/ r.duplicateWords

IsProblematicSignal(r) ==
  r.category = "problematic_quarantine" \/ r.problematicWords

IsCleanFastMerge(r) ==
  /\ r.confidence >= 85
  /\ ~r.blocked
  /\ r.category = "merge_now" \/ r.tier = "fast_merge"
  /\ r.mergeable \in {"clean", "mergeable", "true"}
  /\ r.temporal \in {"", "now"}
  /\ r.blast \in {"", "low"}

(* The rules in the order of the code: the first that applies decides.     *)
ClassifyLane(r, ev) ==
  CASE r.confidence < 50 -> "human_escalate"
    [] r.confidence >= 50 /\ (r.blast = "high" \/ r.contradictory) ->
         "human_escalate"
    [] OTHER ->
         CASE IsDuplicateSignal(r) ->
                IF ev.known /\ ev.confidence >= 80 /\ ~ev.conflict
                  THEN "duplicate_close" ELSE "human_escalate"
           [] ~IsDuplicateSignal(r) /\ IsProblematicSignal(r) ->
                IF r.confidence >= 80 THEN "reject_or_close" ELSE "human_escalate"
           [] OTHER ->
                IF IsCleanFastMerge(r) THEN "fast_merge"
                ELSE IF r.repairWords
                  THEN IF r.confidence >= 65 THEN "fix_and_merge" ELSE "human_escalate"
                ELSE IF r.temporal = "future" \/ r.next \in {"author_response", "product_wait"}
                  THEN "future_or_reengage"
                ELSE "focused_review"

AllowedActions ==
  [l \in Lanes |->
     CASE l = "fast_merge" -> {"merge"}
       [] l = "fix_and_merge" -> {"apply_fix", "comment"}
       [] l = "duplicate_close" -> {"comment", "close"}
       [] l = "reject_or_close" -> {"comment", "close", "label"}
       [] l \in {"focused_review", "future_or_reengage"} -> {"comment", "label"}
       [] OTHER -> {}]

(* The checks a decision asks for, each with its status: the classifier    *)
(* leaves them pending, and asks for none outside fast_merge.              *)
RequiredPreflightChecks(lane) ==
  IF lane = "fast_merge"
    THEN {[check |-> c, status |-> "pending"] :
            c \in {"pr_still_open", "head_sha_unchanged", "ci_green",
                   "mergeable_clean", "policy_profile_allows_merge"}}
    ELSE {}

(* Mutant: a decision without checks is not denied.                        *)
PreflightDeniesListed(checks) == \E c \in checks : c.status /= "passed"

PreflightDenies(checks) ==
  checks = {} \/ \E c \in checks : c.status /= "passed"

(* What a policy profile lets run of a lane's actions.                     *)
ApplyPolicy(lane, checks, profile) ==
  IF lane = "human_escalate" THEN {}
  ELSE CASE profile = "guarded" -> AllowedActions[lane] \intersect {"comment", "label"}
         [] profile = "autonomous" ->
              {a \in AllowedActions[lane] :
                 a \in {"merge", "close"} => ~PreflightDenies(checks)}
         [] OTHER -> {}

(* One intent for every allowed action: a dry run unless it may execute.   *)
ActionIntents(n, lane, profile, forceDryRun) ==
  {[pr |-> n, action |-> a,
    dryRun |-> \/ forceDryRun
               \/ profile \notin {"guarded", "autonomous"}
               \/ a \notin ApplyPolicy(lane, RequiredPreflightChecks(lane), profile)]
     : a \in AllowedActions[lane]}

(* The audit the plan carries: coverage of the corpus, no write in the     *)
(* advisory profile.  plan has total, profile, lane (a function of the     *)
(* planned pull requests) and intents.                                     *)
AuditLaneCoverage(plan) ==
  IF plan.total > 0 /\ Cardinality(DOMAIN plan.lane) /= plan.total
    THEN "fail" ELSE "pass"

AuditAdvisoryZeroWrite(plan) ==
  IF plan.profile \in {"guarded", "autonomous"} THEN "manual"
  ELSE IF \E i \in plan.intents : ~i.dryRun THEN "fail" ELSE "pass"
=============================================================================
