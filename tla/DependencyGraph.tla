-------------------------- MODULE DependencyGraph --------------------------
(***************************************************************************)
(* The graph of a set of pull requests (internal/graph/graph.go): an edge  *)
(* from a pull request to each that is stacked on its branch, an edge      *)
(* between two that touch the same files of one base, and the order in     *)
(* which a stack is merged.                                                *)
(*                                                                         *)
(* A pull request is a number; at[n] is the record of what the graph reads *)
(* of it: base, head, files (noise files already left out) and conflicting *)
(* (what GitHub says of its mergeability).  "" is a missing branch.        *)
(***************************************************************************)
EXTENDS Integers, Sequences, SequencesExt, FiniteSetsExt

Edge(type, from, to, files) ==
  [type |-> type, from |-> from, to |-> to, files |-> files]

(* right is stacked on left; parallel ones, on one base, are not.          *)
StackedOn(left, right, at) ==
  /\ at[left].head /= ""
  /\ at[right].base = at[left].head
  /\ at[right].base /= at[left].base

(* conflictFiles: the files two pull requests of one base share; that both *)
(* are marked conflicting counts when they share none.                     *)
ConflictFiles(left, right, at) ==
  LET shared == at[left].files \intersect at[right].files
  IN IF at[left].base = "" \/ at[left].base /= at[right].base THEN {}
     ELSE IF shared = {} /\ at[left].conflicting /\ at[right].conflicting
       THEN {"mergeability_signal"}
     ELSE shared

ConflictEdges(S, at) ==
  {Edge("conflict", p[1], p[2], ConflictFiles(p[1], p[2], at)) :
     p \in {q \in S \X S : q[1] < q[2] /\ ConflictFiles(q[1], q[2], at) /= {}}}

Build(S, at) ==
  {Edge("dependency", p[1], p[2], {}) : p \in {q \in S \X S : StackedOn(q[1], q[2], at)}}
    \union ConflictEdges(S, at)

(* TopologicalOrder: the least number whose prerequisites are all placed   *)
(* comes next; <<>> stands for the cycle error.                            *)
TopologicalOrder(S, edges) ==
  LET needs(n) == {e.from : e \in {d \in edges : d.type = "dependency" /\ d.to = n}}
      order[k \in 0..Cardinality(S)] ==
        IF k = 0 THEN <<>>
        ELSE LET ready == {n \in S \ ToSet(order[k - 1]) :
                             needs(n) \intersect S \subseteq ToSet(order[k - 1])}
             IN IF ready = {} THEN order[k - 1] ELSE Append(order[k - 1], Min(ready))
      all == order[Cardinality(S)]
  IN IF Len(all) = Cardinality(S) THEN all ELSE <<>>

(* Mutant: the order is by number.                                         *)
OrderSelectionByNumber(S, at) == TopologicalOrder(S, {})

(* orderSelection: by number, as without edges, when there is a cycle.     *)
OrderSelection(S, at) ==
  LET order == TopologicalOrder(S, Build(S, at))
  IN IF order = <<>> THEN TopologicalOrder(S, {}) ELSE order

(* buildConflictWarnings: both ends of a conflict are warned.              *)
ConflictWarnings(S, at) ==
  [n \in S |-> UNION {{e.from, e.to} \ {n} :
                        e \in {d \in ConflictEdges(S, at) : n \in {d.from, d.to}}}]
=============================================================================
