------------------------- MODULE IncrementalGraph -------------------------
(***************************************************************************)
(* The incremental graph (internal/graph/incremental.go): a cache of edges *)
(* and of fingerprints, so that an update only evaluates the pairs of      *)
(* which a side is new or changed.  Between updates the pull requests      *)
(* change, close and come back.                                            *)
(***************************************************************************)
EXTENDS DependencyGraph

CONSTANTS
  Numbers,    \* pull requests there may be
  Shapes,     \* what the graph may read of one
  MaxEdits    \* changes of the pull requests (a bound on the model)

ASSUME GraphAssumption == Numbers \subseteq Nat /\ MaxEdits \in Nat

VARIABLES
  shape,            \* the pull requests, open or not
  present,          \* the ones an update is given
  edges,            \* the edges of the graph
  edgeCache,        \* edges by ends and type, a set of edges with one per key
  fingerprints,     \* shape of each pull request an update has seen
  needsFullRebuild,
  current,          \* whether no edit came after the last update
  edits             \* changes so far

graphVars == <<shape, present, edges, edgeCache, fingerprints, needsFullRebuild,
               current, edits>>

Key(e) == <<e.type, e.from, e.to>>

GraphInit ==
  /\ shape \in [Numbers -> Shapes] /\ present = Numbers
  /\ edges = {} /\ edgeCache = {} /\ fingerprints = <<>>
  /\ needsFullRebuild = FALSE /\ current = FALSE /\ edits = 0

(* The world: a pull request is edited, opened or closed.                  *)
Edit(n, s) ==
  /\ edits < MaxEdits /\ s /= shape[n]
  /\ shape' = [shape EXCEPT ![n] = s]
  /\ edits' = edits + 1 /\ current' = FALSE
  /\ UNCHANGED <<present, edges, edgeCache, fingerprints, needsFullRebuild>>

OpenOrClose(n) ==
  /\ edits < MaxEdits
  /\ present' = (present \ {n}) \union ({n} \ present)
  /\ edits' = edits + 1 /\ current' = FALSE
  /\ UNCHANGED <<shape, edges, edgeCache, fingerprints, needsFullRebuild>>

(* FingerprintChanged, true for one not seen before.                       *)
FingerprintChanged(n) ==
  n \notin DOMAIN fingerprints \/ fingerprints[n] /= shape[n]

Changed == {n \in present : FingerprintChanged(n)}

(* Update rebuilds when more than half of the pull requests changed.       *)
MustRebuild ==
  needsFullRebuild \/ present = {} \/ 2 * Cardinality(Changed) > Cardinality(present)

FullRebuild ==
  /\ MustRebuild
  /\ edges' = Build(present, shape)
  /\ edgeCache' = edges'
  /\ fingerprints' = [n \in present |-> shape[n]]
  /\ needsFullRebuild' = FALSE /\ current' = TRUE
  /\ UNCHANGED <<shape, present, edits>>

(* Mutant: only the later of a pair may be stacked on the earlier.          *)
EdgesOfPairUpwards(left, right) ==
  {Edge("dependency", p[1], p[2], {}) :
     p \in {q \in {<<left, right>>} :
              shape[q[1]].head /= "" /\ shape[q[2]].base = shape[q[1]].head}}
    \union ConflictEdges({left, right}, shape)

(* The incremental path has its own test for a stack, without the one for  *)
(* parallel bases, and compares two different pull requests only.          *)
EdgesOfPair(left, right) ==
  {Edge("dependency", p[1], p[2], {}) :
     p \in {q \in {<<left, right>>, <<right, left>>} :
              shape[q[1]].head /= "" /\ shape[q[2]].base = shape[q[1]].head}}
    \union ConflictEdges({left, right}, shape)

(* A pair of unchanged ones takes its edges from the cache when they are   *)
(* there, whatever they say; every other edge goes into the cache.         *)
IncrementalUpdate ==
  /\ ~MustRebuild
  /\ LET pairs == {p \in present \X present : p[1] < p[2]}
         fresh(p) == p[1] \in Changed \/ p[2] \in Changed
         cached(e) == {c \in edgeCache : Key(c) = Key(e)}
         found == UNION {IF fresh(p) THEN EdgesOfPair(p[1], p[2])
                         ELSE UNION {IF cached(e) = {} THEN {e} ELSE cached(e) :
                                       e \in EdgesOfPair(p[1], p[2])} : p \in pairs}
     IN /\ edges' = found
        /\ edgeCache' = {c \in edgeCache : \A e \in found : Key(e) /= Key(c)} \union found
        /\ fingerprints' = [n \in DOMAIN fingerprints \union Changed |->
                              IF n \in Changed THEN shape[n] ELSE fingerprints[n]]
  /\ current' = TRUE
  /\ UNCHANGED <<shape, present, needsFullRebuild, edits>>

Invalidate ==
  /\ ~needsFullRebuild
  /\ needsFullRebuild' = TRUE
  /\ UNCHANGED <<shape, present, edges, edgeCache, fingerprints, current, edits>>

Clear ==
  /\ fingerprints /= <<>>
  /\ edges' = {} /\ edgeCache' = {} /\ fingerprints' = <<>>
  /\ needsFullRebuild' = FALSE /\ current' = FALSE
  /\ UNCHANGED <<shape, present, edits>>

GraphNext ==
  \/ \E n \in Numbers : (\E s \in Shapes : Edit(n, s)) \/ OpenOrClose(n)
  \/ FullRebuild \/ IncrementalUpdate \/ Invalidate \/ Clear
-----------------------------------------------------------------------------
(* However the pull requests changed, left and came back, an incremental   *)
(* update finds the edges a build from nothing finds, ends and type, as    *)
(* long as no pull request's head has the name of its own base             *)
(* (incremental.go:92-142, 210-440 against graph.go:53-175).               *)
GraphMatchesBuild ==
  current => {Key(e) : e \in edges} = {Key(e) : e \in Build(present, shape)}
=============================================================================
