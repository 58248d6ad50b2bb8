------------------------------ MODULE Planning ------------------------------
(***************************************************************************)
(* Service.PlanWithOptions (internal/app/service.go): the open pull        *)
(* requests are filtered, scored and cut to the target, filtered again by  *)
(* the options of the call, and given to the formula engine or to the      *)
(* hierarchical planner (internal/planning); what is selected is put into  *)
(* merge order, what is not is rejected with a reason.                     *)
(*                                                                         *)
(* at[n] is what planning reads of pull request n: the fields of           *)
(* DependencyGraph and Formula, draft, cluster, own (the part of the       *)
(* priority score, in hundredths, that comes from the pull request alone)  *)
(* and stale (its staleness score).                                        *)
(***************************************************************************)
EXTENDS DependencyGraph, Formula

CONSTANTS
  OpenPRs,         \* open pull requests
  PRShapes,      \* what planning may read of one
  Collapses,   \* what the duplicate collapse may answer: functions from
               \* superseded to canonical pull requests
  Options,     \* options of the call
  Dynamic,     \* configurations of the dynamic target
  MaxClusters, MaxPerCluster, TargetTotal  \* of the hierarchical planner

ASSUME PlanningAssumption ==
  /\ OpenPRs \subseteq Nat /\ IsFiniteSet(OpenPRs)
  /\ \A s \in PRShapes : s.own \in Nat
  /\ \A o \in Options : /\ o.target \in Nat /\ o.cap \in Nat
                       /\ o.strategy \in {"formula", "hierarchical"}
  /\ \A d \in Dynamic : d.enabled => d.min \in Nat /\ d.max \in Nat /\ d.percent \in Nat
  /\ MaxClusters \in Nat /\ MaxPerCluster \in Nat /\ TargetTotal \in Nat
  /\ MaxClusters * MaxPerCluster >= TargetTotal

VARIABLES
  at, options, dynamic, collapsed,   \* the call
  stage,      \* the stage it is in
  target,     \* pull requests wanted
  pool,       \* candidates
  rejections, \* of each pull request, the reasons it was rejected for, in order
  selected,   \* the selection
  ordering    \* the selection in merge order

call == <<at, options, dynamic, collapsed>>
planVars == <<call, stage, target, pool, rejections, selected, ordering>>

PlanInit ==
  /\ at \in [OpenPRs -> PRShapes] /\ collapsed \in Collapses
  /\ options \in Options /\ dynamic \in Dynamic
  /\ stage = "filter" /\ target = options.target
  /\ pool = {} /\ rejections = [n \in OpenPRs |-> <<>>] /\ selected = {} /\ ordering = <<>>

Rejecting(S, reason) ==
  [n \in OpenPRs |-> IF n \in S THEN Append(rejections[n], reason) ELSE rejections[n]]

(* The first filters, in the order of the code.                            *)
FilterReason(n) ==
  IF at[n].draft THEN "draft"
  ELSE IF at[n].conflicting THEN "merge conflict"
  ELSE IF at[n].ci = "failure" THEN "ci failure"
  ELSE IF n \in DOMAIN collapsed THEN "superseded by duplicate collapse" ELSE ""

(* ComputeDynamicTarget: a share of the viable pool, within bounds; then   *)
(* never more than the collapsed pool.                                     *)
ComputeDynamicTarget(viable, fallback) ==
  IF ~dynamic.enabled THEN fallback
  ELSE IF viable <= 0 THEN dynamic.min
  ELSE Min({dynamic.max, Max({dynamic.min, (viable * dynamic.percent) \div 100})})

Filter ==
  /\ stage = "filter"
  /\ LET viable == {n \in OpenPRs : FilterReason(n) = ""}
         wanted == ComputeDynamicTarget(Cardinality(viable), options.target)
     IN /\ rejections' = [n \in OpenPRs |-> IF n \in viable THEN <<>> ELSE <<FilterReason(n)>>]
        /\ target' = IF collapsed /= <<>> THEN Min({wanted, Cardinality(viable)}) ELSE wanted
        /\ pool' = viable
        /\ stage' = IF viable = {} THEN "answered" ELSE "score"
  /\ UNCHANGED <<call, selected, ordering>>

(* The priority: its own part and up to five others of its cluster among   *)
(* the ones it is scored with, at 0.15 for five.                           *)
Priority(n, S) ==
  at[n].own + 3 * Min({5, Cardinality({m \in S \ {n} : at[m].cluster = at[n].cluster})})

Precedes(m, n, S) ==
  Priority(m, S) > Priority(n, S) \/ (Priority(m, S) = Priority(n, S) /\ m < n)

(* The first k of S in the order of priority.                              *)
FirstRanked(S, k, context) ==
  {n \in S : Cardinality({m \in S : Precedes(m, n, context)}) < k}

(* SelectCandidates: the first of the ranking.  The others go to its list  *)
(* of exclusions, which the plan does not read.                            *)
SelectCandidates ==
  /\ stage = "score"
  /\ pool' = FirstRanked(pool, target, pool)
  /\ stage' = "options"
  /\ UNCHANGED <<call, target, rejections, selected, ordering>>

(* The filters of the call.  They keep the order of the pool; the scores   *)
(* are the ones the candidates were selected with.                         *)
Viable == {n \in OpenPRs : FilterReason(n) = ""}

ApplyOptions ==
  /\ stage = "options"
  /\ LET low == {n \in pool : options.scoreMin > 0 /\ Priority(n, Viable) < options.scoreMin}
         stale == {n \in pool \ low : options.staleMax > 0 /\ at[n].stale > options.staleMax}
         fresh == pool \ (low \union stale)
         warned == {n \in fresh : options.excludeConflicts /\ Cardinality(fresh) > 1
                                    /\ ConflictWarnings(fresh, at)[n] /= {}}
         kept == fresh \ warned
         capped == IF options.cap > 0 THEN FirstRanked(kept, options.cap, Viable) ELSE kept
         reason == [n \in OpenPRs |->
                      IF n \in low THEN "below score_min threshold"
                      ELSE IF n \in stale THEN "above stale_score_threshold"
                      ELSE IF n \in warned THEN "conflict warning (exclude_conflicts)"
                      ELSE IF n \in kept \ capped THEN "excluded by candidate_pool_cap" ELSE ""]
     IN /\ pool' = capped
        /\ rejections' = [n \in OpenPRs |-> IF reason[n] = "" THEN rejections[n]
                                        ELSE Append(rejections[n], reason[n])]
        /\ target' = IF options.mode = "with_replacement" THEN target
                     ELSE Min({target, Cardinality(capped)})
        /\ stage' = IF capped = {} THEN "answered" ELSE options.strategy
  /\ UNCHANGED <<call, selected, ordering>>

(* The formula engine: one of the selections it tried, without repetition. *)
FormulaPlan ==
  /\ stage = "formula"
  /\ \E choice \in Search(pool, at, options.mode, target) :
       /\ selected' = ToSet(choice)
       /\ rejections' = Rejecting(pool \ ToSet(choice), "not selected by strategy")
  /\ stage' = "order"
  /\ UNCHANGED <<call, target, pool, ordering>>

(* The hierarchical planner: the clusters with the highest average, the    *)
(* first of each, and these in merge order up to its total.                *)
Total(S, context) == MapThenSumSet(LAMBDA n : Priority(n, context), S)

SelectedClusters(S) ==
  LET clusters == {at[n].cluster : n \in S}
      of(c) == {n \in S : at[n].cluster = c}
      better(c, d) ==
        LET left == Total(of(c), S) * Cardinality(of(d))
            right == Total(of(d), S) * Cardinality(of(c))
        IN left > right \/ (left = right /\ c < d)
  IN {c \in clusters : Cardinality({d \in clusters : better(d, c)}) < MaxClusters}

RankWithinClusters(S) ==
  UNION {FirstRanked({n \in S : at[n].cluster = c}, MaxPerCluster, S) : c \in SelectedClusters(S)}

(* applyDependencyOrdering: what comes after the total is rejected; on a   *)
(* cycle the order is that of the priorities.                              *)
ExceedTargetTotal(S) ==
  LET candidates == RankWithinClusters(S)
      order == TopologicalOrder(candidates, Build(candidates, at))
  IN candidates \ IF order = <<>> THEN FirstRanked(candidates, TargetTotal, S)
                  ELSE {order[i] : i \in 1..Min({Len(order), TargetTotal})}

(* Mutant: what exceeds the total is rejected and selected all the same.   *)
HierarchicalPlanKeepingExcess ==
  /\ stage = "hierarchical"
  /\ selected' = pool
  /\ rejections' = Rejecting(ExceedTargetTotal(pool), "exceeded_target_total")
  /\ stage' = "order"
  /\ UNCHANGED <<call, target, pool, ordering>>

(* Every candidate the planner did not reject is selected, the ones of the *)
(* clusters it did not choose included.                                    *)
HierarchicalPlan ==
  /\ stage = "hierarchical"
  /\ LET excess == ExceedTargetTotal(pool)
     IN /\ selected' = pool \ excess
        /\ rejections' = Rejecting(excess, "exceeded_target_total")
  /\ stage' = "order"
  /\ UNCHANGED <<call, target, pool, ordering>>

Order ==
  /\ stage = "order"
  /\ ordering' = OrderSelection(selected, at)
  /\ stage' = "answered"
  /\ UNCHANGED <<call, target, pool, rejections, selected>>

PlanNext ==
  Filter \/ SelectCandidates \/ ApplyOptions \/ FormulaPlan \/ HierarchicalPlan \/ Order
-----------------------------------------------------------------------------
(* A pull request has one fate at most: it is selected, or rejected for    *)
(* one reason, whichever of the filters and strategies it met; and no more *)
(* are selected than the answer's target says                              *)
(* (service.go:1213-1369, 1371-1435).                                      *)
OneFate ==
  stage = "answered" =>
    /\ \A n \in OpenPRs : Len(rejections[n]) <= IF n \in selected THEN 0 ELSE 1
    /\ Cardinality(selected) <= target

(* The merge order lists the selection, each after what it is stacked on,  *)
(* and with exclude_conflicts no two of it conflict, although the warnings *)
(* it filters by were made for a larger set (service.go:1324-1337,         *)
(* 2877-2922, graph.go:177-230).  A cycle of stacks has no such order.     *)
MergeOrderIsSound ==
  stage = "answered" /\ selected /= {} =>
    LET place(n) == CHOOSE i \in DOMAIN ordering : ordering[i] = n
        stacked == {p \in selected \X selected : StackedOn(p[1], p[2], at)}
        cyclic == \E S \in (SUBSET selected) \ {{}} : \A n \in S : \E m \in S : <<m, n>> \in stacked
    IN /\ ToSet(ordering) = selected /\ Len(ordering) = Cardinality(selected)
       /\ cyclic \/ \A p \in stacked : place(p[1]) < place(p[2])
       /\ options.excludeConflicts => ConflictEdges(selected, at) = {}

(* README.md:227 says that every pull request is accounted for: it is      *)
(* selected or rejected with a reason.                                     *)
EveryPRAccountedFor ==
  stage = "answered" => \A n \in OpenPRs : n \in selected \/ rejections[n] /= <<>>
=============================================================================
