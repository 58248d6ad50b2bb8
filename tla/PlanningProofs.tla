--------------------------- MODULE PlanningProofs ----------------------------
(***************************************************************************)
(* Planning for any pull requests, options, shapes and collapses: a pull   *)
(* request has one fate at most (FatesAreSingle), and the merge order      *)
(* lists the selection, stacks from the bottom, and no conflict that the   *)
(* call wanted excluded (OrderIsSound).                                    *)
(*                                                                         *)
(* Rankings are by the number of those that precede, and the merge order   *)
(* is the value of a recursive function, which is shown to exist and to    *)
(* place one pull request after the other.                                 *)
(***************************************************************************)
EXTENDS Planning, FiniteSetTheorems, WellFoundedInduction, TLAPS

PlanSpec == PlanInit /\ [][PlanNext]_planVars

-----------------------------------------------------------------------------
(* Rankings. *)

\* The least of a set of numbers.
LEMMA LeastExists ==
    ASSUME NEW S \in SUBSET Nat, S # {}
    PROVE  Min(S) \in S /\ \A y \in S : Min(S) <= y
<1> DEFINE R == {ss \in Nat \X Nat : ss[1] < ss[2]}
<1>a. IsWellFoundedOn(R, Nat)
  BY NatLessThanWellFounded DEF OpToRel
<1> HIDE DEF R
<1>1. PICK x \in S : \A y \in S : ~(<<y, x>> \in R)
  BY <1>a, WFMin
<1>2. ASSUME NEW y \in S PROVE x <= y
  <2>1. y < x => <<y, x>> \in R
    BY DEF R
  <2> QED BY <1>1, <2>1
<1> QED BY <1>2 DEF Min

LEMMA MinOfPair ==
    ASSUME NEW a \in Int, NEW b \in Int
    PROVE  Min({a, b}) = IF a <= b THEN a ELSE b
<1>1. \E x \in {a, b} : \A y \in {a, b} : x <= y
  BY SMT
<1>2. /\ Min({a, b}) \in {a, b}
      /\ \A y \in {a, b} : Min({a, b}) <= y
  BY <1>1 DEF Min
<1> QED BY <1>2

LEMMA MaxOfPair ==
    ASSUME NEW a \in Int, NEW b \in Int
    PROVE  Max({a, b}) = IF a >= b THEN a ELSE b
<1>1. \E x \in {a, b} : \A y \in {a, b} : x >= y
  BY SMT
<1>2. /\ Max({a, b}) \in {a, b}
      /\ \A y \in {a, b} : Max({a, b}) >= y
  BY <1>1 DEF Max
<1> QED BY <1>2

\* R is a strict total order of S.
Orders(R, S) ==
    /\ \A n \in S : <<n, n>> \notin R
    /\ \A l, m, n \in S : <<l, m>> \in R /\ <<m, n>> \in R => <<l, n>> \in R
    /\ \A m, n \in S : m # n => <<m, n>> \in R \/ <<n, m>> \in R

Before(n, S, R) == {m \in S : <<m, n>> \in R}

Leading(k, S, R) == {n \in S : Cardinality(Before(n, S, R)) < k}

\* In a strict total order of a finite set the numbers of predecessors are the
\* numbers below its size, and at most k of it have fewer than k of them.
LEMMA Ranks ==
    ASSUME NEW S, IsFiniteSet(S), NEW R, Orders(R, S)
    PROVE  /\ \A i \in 0..(Cardinality(S) - 1) :
                \E n \in S : Cardinality(Before(n, S, R)) = i
           /\ \A k \in Nat : Cardinality(Leading(k, S, R)) <= k
<1> DEFINE N == Cardinality(S)
           rank == [n \in S |-> Cardinality(Before(n, S, R))]
<1>1. N \in Nat
  BY FS_CardinalityType
<1>2. ASSUME NEW n \in S
      PROVE  IsFiniteSet(Before(n, S, R)) /\ rank[n] \in 0..(N - 1)
  <2>1. Before(n, S, R) \in SUBSET S /\ Before(n, S, R) # S
    BY DEF Before, Orders
  <2>2. IsFiniteSet(Before(n, S, R)) /\ Cardinality(Before(n, S, R)) <= N /\ Cardinality(Before(n, S, R)) # N
    BY <2>1, FS_Subset
  <2>3. Cardinality(Before(n, S, R)) \in Nat
    BY <2>2, FS_CardinalityType
  <2> QED BY <1>1, <2>2, <2>3
<1>3. ASSUME NEW m \in S, NEW n \in S, <<m, n>> \in R
      PROVE  rank[m] # rank[n]
  <2>1. Before(m, S, R) \in SUBSET Before(n, S, R) /\ m \in Before(n, S, R) /\ m \notin Before(m, S, R)
    BY <1>3 DEF Before, Orders
  <2>2. Cardinality(Before(m, S, R)) # Cardinality(Before(n, S, R))
    BY <2>1, <1>2, FS_Subset
  <2> QED BY <2>2
<1>4. \A m, n \in S : m # n => rank[m] # rank[n]
  BY <1>3 DEF Orders
<1>r. DOMAIN rank = S /\ \A n \in S : rank[n] \in 0..(N - 1)
  BY <1>2
<1>7. \A n \in S : rank[n] = Cardinality(Before(n, S, R))
  OBVIOUS
<1> HIDE DEF rank, N
<1>5. ASSUME NEW i \in 0..(N - 1)
      PROVE  \E n \in S : rank[n] = i
  <2>1. rank \in Injection(S, 0..(N - 1))
    <3>1. rank = [n \in S |-> rank[n]]
      BY DEF rank
    <3> QED BY <1>r, <1>4, <3>1 DEF Injection, IsInjective
  <2>2. IsFiniteSet(0..(N - 1)) /\ Cardinality(0..(N - 1)) = N
    BY <1>1, FS_Interval
  <2>3. rank \in Surjection(S, 0..(N - 1))
    <3>1. Cardinality(S) = N
      BY DEF N
    <3> HIDE DEF N
    <3> QED BY <2>1, <2>2, <3>1, FS_Injection
  <2> QED BY <2>3 DEF Surjection
<1>6. ASSUME NEW k \in Nat
      PROVE  Cardinality({n \in S : rank[n] < k}) <= k
  <2> DEFINE T == {n \in S : rank[n] < k}
             f == [n \in T |-> rank[n]]
  <2>1. \A n \in S : rank[n] \in Nat
    BY <1>r, <1>1
  <2>2. f \in Injection(T, 0..(k - 1))
    <3>1. \A n \in T : f[n] \in 0..(k - 1)
      BY <2>1
    <3> QED BY <3>1, <1>4 DEF Injection, IsInjective
  <2>3. IsFiniteSet(0..(k - 1)) /\ Cardinality(0..(k - 1)) = k
    BY FS_Interval
  <2> HIDE DEF T, f
  <2>4. Cardinality(T) <= k
    BY <2>2, <2>3, FS_Injection
  <2> QED BY <2>4 DEF T
<1>8. \A k \in Nat : {n \in S : rank[n] < k} = Leading(k, S, R)
  BY <1>7 DEF Leading
<1> QED BY <1>5, <1>6, <1>7, <1>8 DEF N

\* The place of a number in a set of numbers.
LEMMA Places ==
    ASSUME NEW S \in SUBSET Nat, IsFiniteSet(S), NEW i \in 1..Cardinality(S)
    PROVE  \E n \in S : Place(n, S) = i
<1> DEFINE R == {p \in S \X S : p[1] < p[2]}
<1>1. \A n \in S : Cardinality(Before(n, S, R)) = Place(n, S) - 1
  <2> TAKE n \in S
  <2>1. Before(n, S, R) = {m \in S : m < n}
    BY DEF Before
  <2>2. IsFiniteSet({m \in S : m < n})
    BY FS_Subset
  <2>3. Cardinality({m \in S : m < n}) \in Nat
    BY <2>2, FS_CardinalityType
  <2>4. Cardinality(Before(n, S, R)) = Cardinality({m \in S : m < n})
    BY <2>1
  <2> HIDE DEF R
  <2> QED BY <2>3, <2>4 DEF Place
<1>2. Orders(R, S)
  BY DEF Orders
<1>3. i - 1 \in 0..(Cardinality(S) - 1)
  BY FS_CardinalityType
<1> HIDE DEF R
<1>4. PICK n \in S : Cardinality(Before(n, S, R)) = i - 1
  <2>1. \A j \in 0..(Cardinality(S) - 1) :
          \E n \in S : Cardinality(Before(n, S, R)) = j
    BY <1>2, Ranks
  <2> QED BY <1>3, <2>1
<1>5. Place(n, S) - 1 = i - 1
  BY <1>1, <1>4
<1>6. Cardinality({m \in S : m < n}) \in Nat
  BY FS_Subset, FS_CardinalityType
<1>7. Place(n, S) = i
  BY <1>5, <1>6 DEF Place
<1> QED BY <1>7

LEMMA PriorityType ==
    ASSUME at \in [OpenPRs -> PRShapes], NEW S, IsFiniteSet(S), NEW n \in OpenPRs
    PROVE  Priority(n, S) \in Nat
<1> DEFINE peers == {m \in S \ {n} : at[m].cluster = at[n].cluster}
<1>1. IsFiniteSet(peers)
  BY FS_Subset
<1>2. Cardinality(peers) \in Nat
  BY <1>1, FS_CardinalityType
<1> HIDE DEF peers
<1>3. Min({5, Cardinality(peers)}) \in Nat
  BY <1>2, MinOfPair
<1>4. at[n].own \in Nat
  BY PlanningAssumption
<1> QED BY <1>3, <1>4 DEF Priority, peers

\* A cut of the pool keeps no more than it is asked for.
LEMMA FirstIsShort ==
    ASSUME at \in [OpenPRs -> PRShapes], NEW S \in SUBSET OpenPRs, NEW k \in Nat,
           NEW C, IsFiniteSet(C)
    PROVE  FirstRanked(S, k, C) \in SUBSET S /\ Cardinality(FirstRanked(S, k, C)) <= k
<1> DEFINE R == {p \in S \X S : Precedes(p[1], p[2], C)}
<1>1. \A n \in S : n \in Nat /\ Priority(n, C) \in Nat
  BY PlanningAssumption, PriorityType
<1>2. Orders(R, S)
  BY <1>1 DEF Precedes, Orders
<1>3. IsFiniteSet(S)
  BY PlanningAssumption, FS_Subset
<1>4. \A n \in S : Cardinality({m \in S : Precedes(m, n, C)}) = Cardinality(Before(n, S, R))
  <2> TAKE n \in S
  <2>1. {m \in S : Precedes(m, n, C)} = Before(n, S, R)
    BY DEF Before
  <2> QED BY <2>1
<1> HIDE DEF R
<1>5. FirstRanked(S, k, C) = Leading(k, S, R)
  BY <1>4 DEF FirstRanked, Leading
<1>6. Cardinality(Leading(k, S, R)) <= k
  BY <1>2, <1>3, Ranks
<1> QED BY <1>5, <1>6 DEF FirstRanked

-----------------------------------------------------------------------------
(* The merge order. *)

Needs(n, edges) == {e.from : e \in {d \in edges : d.type = "dependency" /\ d.to = n}}

Ready(s, S, edges) ==
    {n \in S \ ToSet(s) : Needs(n, edges) \intersect S \subseteq ToSet(s)}

Longer(s, S, edges) ==
    IF Ready(s, S, edges) = {} THEN s ELSE Append(s, Min(Ready(s, S, edges)))

\* f[k] is what is placed after k steps.
Placing(f, S, edges) ==
    f = [k \in 0..Cardinality(S) |-> IF k = 0 THEN <<>> ELSE Longer(f[k - 1], S, edges)]

\* One step: a place for the next one, behind all it needs.
Sound(s, S, edges) ==
    /\ s \in Seq(S)
    /\ \A i, j \in 1..Len(s) : s[i] = s[j] => i = j
    /\ \A i \in 1..Len(s) : \A m \in Needs(s[i], edges) \intersect S :
          \E j \in 1..(i - 1) : s[j] = m

LEMMA OrderIsPlaced ==
    ASSUME NEW S, NEW edges
    PROVE  TopologicalOrder(S, edges) =
             LET f == CHOOSE f : Placing(f, S, edges)
             IN  IF Len(f[Cardinality(S)]) = Cardinality(S) THEN f[Cardinality(S)] ELSE <<>>
  BY Zenon DEF TopologicalOrder, Placing, Longer, Ready, Needs

LEMMA LongerIsSound ==
    ASSUME NEW S \in SUBSET Nat, NEW edges, NEW s, Sound(s, S, edges)
    PROVE  Sound(Longer(s, S, edges), S, edges)
<1> DEFINE R == Ready(s, S, edges)
           n == Min(R)
           u == Append(s, n)
<1>1. CASE R = {}
  BY <1>1 DEF Longer
<1>2. CASE R # {}
  <2>1. n \in R
    BY <1>2, LeastExists DEF Ready
  <2>2. /\ n \in S /\ n \notin ToSet(s)
        /\ Needs(n, edges) \intersect S \subseteq ToSet(s)
    BY <2>1 DEF Ready
  <2> HIDE DEF n, R
  <2>3. /\ u \in Seq(S) /\ Len(u) = Len(s) + 1 /\ u[Len(s) + 1] = n
        /\ \A i \in 1..Len(s) : u[i] = s[i]
    BY <2>2 DEF Sound
  <2>4. ToSet(s) = {s[i] : i \in 1..Len(s)} /\ Len(s) \in Nat
    BY DEF Sound, ToSet
  <2> HIDE DEF u
  <2>5. \A i, j \in 1..Len(u) : u[i] = u[j] => i = j
    BY <2>2, <2>3, <2>4 DEF Sound
  <2>6. ASSUME NEW i \in 1..Len(u), NEW m \in Needs(u[i], edges) \intersect S
        PROVE  \E j \in 1..(i - 1) : u[j] = m
    <3>1. CASE i \in 1..Len(s)
      BY <3>1, <2>6, <2>3, <2>4 DEF Sound
    <3>2. CASE i = Len(s) + 1
      BY <3>2, <2>6, <2>2, <2>3, <2>4
    <3> QED BY <3>1, <3>2, <2>3, <2>4
  <2>7. Longer(s, S, edges) = u
    BY <1>2 DEF Longer, u, n, R
  <2> QED BY <2>3, <2>5, <2>6, <2>7 DEF Sound
<1> QED BY <1>1, <1>2

\* The recursive function exists, and all of its values are sound.
LEMMA PlacingExists ==
    ASSUME NEW S \in SUBSET Nat, IsFiniteSet(S), NEW edges
    PROVE  \E f : Placing(f, S, edges)
<1> DEFINE N == Cardinality(S)
           Upto(f, m) == f = [k \in 0..m |-> IF k = 0 THEN <<>> ELSE Longer(f[k - 1], S, edges)]
           Lacking == {m \in 0..N : ~\E f : Upto(f, m)}
<1>1. N \in Nat
  BY FS_CardinalityType
<1>2. ASSUME Lacking # {} PROVE FALSE
  <2>1. Lacking \in SUBSET Nat
    BY <1>1
  <2> DEFINE m == Min(Lacking)
  <2>2. m \in Lacking /\ \A x \in Lacking : m <= x
    BY <1>2, <2>1, LeastExists
  <2> HIDE DEF m
  <2>3. m \in 0..N /\ m \in Nat /\ ~\E f : Upto(f, m)
    BY <2>2, <1>1
  <2>4. m # 0
    <3>1. Upto([k \in 0..0 |-> <<>>], 0)
      OBVIOUS
    <3> QED BY <3>1, <2>3
  <2>5. m - 1 \in 0..N /\ m - 1 \notin Lacking
    BY <2>2, <2>3, <2>4, <1>1
  <2>6. PICK f : Upto(f, m - 1)
    BY <2>5
  <2> DEFINE g == [k \in 0..m |-> IF k = m THEN Longer(f[m - 1], S, edges) ELSE f[k]]
  <2>7. Upto(g, m)
    <3>1. \A k \in 0..(m - 1) : g[k] = f[k]
      BY <2>3
    <3>2. ASSUME NEW k \in 0..m
          PROVE  g[k] = IF k = 0 THEN <<>> ELSE Longer(g[k - 1], S, edges)
      <4>1. CASE k = m
        BY <4>1, <3>1, <2>3, <2>4
      <4>2. CASE k # m /\ k # 0
        BY <4>2, <3>1, <2>6, <2>3
      <4>3. CASE k # m /\ k = 0
        BY <4>3, <2>6, <2>3, <2>4
      <4> QED BY <4>1, <4>2, <4>3
    <3> QED BY <3>2
  <2> QED BY <2>3, <2>7
<1>3. N \notin Lacking /\ N \in 0..N
  BY <1>1, <1>2
<1>4. PICK f : Upto(f, N)
  BY <1>3
<1> QED BY <1>4 DEF Placing

LEMMA PlacingIsSound ==
    ASSUME NEW S \in SUBSET Nat, IsFiniteSet(S), NEW edges, NEW f, Placing(f, S, edges),
           NEW k \in 0..Cardinality(S)
    PROVE  /\ Sound(f[k], S, edges)
           /\ Len(f[k]) = k \/ Ready(f[k], S, edges) = {}
<1> DEFINE N == Cardinality(S)
           Good(i) == /\ Sound(f[i], S, edges)
                      /\ Len(f[i]) = i \/ Ready(f[i], S, edges) = {}
           Bad == {i \in 0..N : ~Good(i)}
<1>1. N \in Nat
  BY FS_CardinalityType
<1>2. /\ f[0] = <<>>
      /\ \A i \in 1..N : f[i] = Longer(f[i - 1], S, edges)
  <2>1. f = [i \in 0..N |-> IF i = 0 THEN <<>> ELSE Longer(f[i - 1], S, edges)]
    BY DEF Placing
  <2>2. \A i \in 0..N : f[i] = IF i = 0 THEN <<>> ELSE Longer(f[i - 1], S, edges)
    BY <2>1
  <2> HIDE DEF N
  <2> QED BY <2>2, <1>1
<1>3. Good(0)
  BY <1>2 DEF Sound
<1>4. ASSUME NEW i \in 1..N, Good(i - 1) PROVE Good(i)
  <2>1. Sound(f[i], S, edges)
    BY <1>2, <1>4, LongerIsSound
  <2>2. CASE Ready(f[i - 1], S, edges) = {}
    BY <2>1, <2>2, <1>2 DEF Longer
  <2>3. CASE Ready(f[i - 1], S, edges) # {}
    <3>1. f[i] = Append(f[i - 1], Min(Ready(f[i - 1], S, edges)))
      BY <2>3, <1>2 DEF Longer
    <3>2. Len(f[i - 1]) = i - 1 /\ f[i - 1] \in Seq(S)
      BY <2>3, <1>4 DEF Sound
    <3>3. Len(f[i]) = i
      BY <3>1, <3>2, <1>1
    <3> QED BY <2>1, <3>3
  <2> QED BY <2>2, <2>3
<1>5. ASSUME Bad # {} PROVE FALSE
  <2> DEFINE m == Min(Bad)
  <2> HIDE DEF Good
  <2>1. m \in Bad /\ \A x \in Bad : m <= x
    BY <1>5, <1>1, LeastExists
  <2> HIDE DEF m, N
  <2>2. m \in 0..N /\ ~Good(m) /\ m # 0
    BY <2>1, <1>3
  <2>3. m - 1 \in 0..N /\ m - 1 \notin Bad /\ m \in 1..N
    BY <2>1, <2>2, <1>1
  <2> QED BY <1>4, <2>2, <2>3
<1> QED BY <1>5

\* What the merge order is: nothing if a cycle of prerequisites remains, and
\* otherwise all of S, each once and after what it needs.
LEMMA OrderOfAll ==
    ASSUME NEW S \in SUBSET Nat, IsFiniteSet(S), NEW edges
    PROVE  LET order == TopologicalOrder(S, edges)
           IN  \/ /\ Sound(order, S, edges) /\ ToSet(order) = S
                  /\ Len(order) = Cardinality(S)
               \/ /\ order = <<>>
                  /\ \E T \in (SUBSET S) \ {{}} :
                       \A n \in T : \E m \in T : m \in Needs(n, edges)
<1> DEFINE N == Cardinality(S)
           f == CHOOSE f : Placing(f, S, edges)
           s == f[N]
<1>1. N \in Nat /\ N \in 0..N
  BY FS_CardinalityType
<1>2. Placing(f, S, edges)
  BY PlacingExists
<1>3. TopologicalOrder(S, edges) = IF Len(s) = N THEN s ELSE <<>>
  BY OrderIsPlaced
<1> HIDE DEF f
<1>4. Sound(s, S, edges) /\ (Len(s) = N \/ Ready(s, S, edges) = {})
  BY <1>1, <1>2, PlacingIsSound
<1> HIDE DEF s, N
<1>5. s \in Seq(S) /\ Len(s) \in Nat /\ ToSet(s) = {s[i] : i \in 1..Len(s)}
  BY <1>4 DEF Sound, ToSet
<1>6. ToSet(s) \in SUBSET S /\ IsFiniteSet(ToSet(s)) /\ Cardinality(ToSet(s)) = Len(s)
  <2>1. ToSet(s) \in SUBSET S
    BY <1>5
  <2> DEFINE g == [i \in 1..Len(s) |-> s[i]]
  <2>2. g \in Bijection(1..Len(s), ToSet(s))
    BY <1>4, <1>5 DEF Sound, Bijection, Injection, Surjection, IsInjective
  <2>3. ExistsBijection(1..Len(s), ToSet(s))
    BY <2>2 DEF ExistsBijection
  <2>4. IsFiniteSet(1..Len(s)) /\ Cardinality(1..Len(s)) = Len(s)
    <3>1. \A l \in Nat : IsFiniteSet(1..l) /\ Cardinality(1..l) = l
      BY FS_Interval
    <3> QED BY <1>5, <3>1
  <2>5. IsFiniteSet(ToSet(s)) /\ Cardinality(ToSet(s)) = Cardinality(1..Len(s))
    BY <2>3, <2>4, FS_Bijection
  <2> QED BY <2>1, <2>4, <2>5
<1>7. CASE Len(s) = N
  <2>1. ToSet(s) = S
    BY <1>6, <1>7, FS_Subset DEF N
  <2> QED BY <1>3, <1>4, <1>7, <2>1 DEF N
<1>8. CASE Len(s) # N
  <2> DEFINE T == S \ ToSet(s)
  <2>1. T # {}
    <3>1. T = {} => ToSet(s) = S
      BY <1>6
    <3> QED BY <3>1, <1>6, <1>8 DEF N
  <2>2. ASSUME NEW n \in T PROVE \E m \in T : m \in Needs(n, edges)
    BY <1>4, <1>8 DEF Ready
  <2>3. TopologicalOrder(S, edges) = <<>>
    BY <1>3, <1>8
  <2> QED BY <2>1, <2>2, <2>3
<1> QED BY <1>7, <1>8

\* The order by number has no prerequisites and so no cycles.
LEMMA OrderByNumber ==
    ASSUME NEW S \in SUBSET Nat, IsFiniteSet(S)
    PROVE  /\ Sound(TopologicalOrder(S, {}), S, {}) /\ ToSet(TopologicalOrder(S, {})) = S
           /\ Len(TopologicalOrder(S, {})) = Cardinality(S)
<1>1. \A n : Needs(n, {}) = {}
  BY DEF Needs
<1>2. ~\E T \in (SUBSET S) \ {{}} : \A n \in T : \E m \in T : m \in Needs(n, {})
  <2> SUFFICES ASSUME NEW T \in (SUBSET S) \ {{}}, \A n \in T : \E m \in T : m \in Needs(n, {})
               PROVE  FALSE
    OBVIOUS
  <2>1. PICK n \in T : TRUE
    OBVIOUS
  <2> QED BY <1>1, <2>1
<1> QED BY <1>2, OrderOfAll

-----------------------------------------------------------------------------
(* The plan. *)

Strategies == {"formula", "hierarchical"}

Reasons ==
    {"draft", "merge conflict", "ci failure", "superseded by duplicate collapse",
     "below score_min threshold", "above stale_score_threshold",
     "conflict warning (exclude_conflicts)", "excluded by candidate_pool_cap",
     "not selected by strategy", "exceeded_target_total"}

PlanTypeOK ==
    /\ at \in [OpenPRs -> PRShapes] /\ options \in Options /\ dynamic \in Dynamic
    /\ stage \in {"filter", "score", "options", "order", "answered"} \cup Strategies
    /\ target \in Nat
    /\ pool \in SUBSET OpenPRs /\ selected \in SUBSET OpenPRs
    /\ rejections \in [OpenPRs -> Seq(Reasons)]

\* Nobody is rejected twice, what is in the pool or selected is not rejected at
\* all, and neither is larger than the target.
FatesAgree ==
    /\ \A n \in OpenPRs : Len(rejections[n]) <= 1
    /\ stage \in {"score", "options"} \cup Strategies => \A n \in pool : rejections[n] = <<>>
    /\ \A n \in selected : rejections[n] = <<>>
    /\ stage \notin {"order", "answered"} => selected = {}
    /\ stage \in {"options"} \cup Strategies => Cardinality(pool) <= target
    /\ Cardinality(selected) <= target

\* The pool has lost every conflict by the time that it is selected from.
ConflictsExcluded ==
    options.excludeConflicts =>
        /\ stage \in Strategies => ConflictEdges(pool, at) = {}
        /\ ConflictEdges(selected, at) = {}

OrderIsOfSelected ==
    stage = "answered" /\ selected # {} => ordering = OrderSelection(selected, at)

PlanInv == PlanTypeOK /\ FatesAgree /\ ConflictsExcluded /\ OrderIsOfSelected

LEMMA FiniteAndNatural ==
    ASSUME NEW S \in SUBSET OpenPRs
    PROVE  S \in SUBSET Nat /\ IsFiniteSet(S) /\ Cardinality(S) \in Nat
  BY PlanningAssumption, FS_Subset, FS_CardinalityType

\* What the formula engine tries is of the pool and as large as was asked for.
LEMMA TriedIsOfPool ==
    ASSUME NEW S \in SUBSET OpenPRs, NEW mode, NEW k \in Nat, NEW choice \in Search(S, at, mode, k)
    PROVE  ToSet(choice) \in SUBSET S /\ Cardinality(ToSet(choice)) <= k
<1>1. PICK tier : choice \in Tried(tier, S, at, mode, k)
  BY DEF Search
<1> DEFINE P == TierPool(tier, S, at)
           size == Cardinality(P)
           pick == IF k > size /\ mode /= "with_replacement" THEN size ELSE k
<1>2. P \in SUBSET S
  BY DEF TierPool
<1> HIDE DEF P
<1>3. P \in SUBSET Nat /\ IsFiniteSet(P) /\ size \in Nat
  BY <1>2, FiniteAndNatural
<1>4. pick \in Nat /\ pick <= k
  BY <1>3
<1>5. PICK idx : choice \in GenerateByIndex(mode, P, pick, idx)
  BY <1>1 DEF Tried, P
<1> HIDE DEF pick
<1>6. PICK indices : /\ choice = [i \in 1..pick |-> CHOOSE n \in P : Place(n, P) = indices[i]]
                     /\ \A i \in 1..pick : indices[i] \in 1..size
  BY <1>5 DEF GenerateByIndex
<1>7. ASSUME NEW i \in 1..pick PROVE choice[i] \in P
  <2>1. \E n \in P : Place(n, P) = indices[i]
    BY <1>3, <1>6, Places
  <2> QED BY <1>6, <2>1
<1>8. DOMAIN choice = 1..pick /\ ToSet(choice) = {choice[i] : i \in 1..pick}
  BY <1>6 DEF ToSet
<1>9. Cardinality(ToSet(choice)) <= pick
  <2>1. choice \in Surjection(1..pick, ToSet(choice))
    <3>1. choice = [i \in 1..pick |-> choice[i]]
      BY <1>6
    <3> QED BY <3>1, <1>8 DEF Surjection
  <2>2. IsFiniteSet(1..pick) /\ Cardinality(1..pick) = pick
    BY <1>4, FS_Interval
  <2> QED BY <2>1, <2>2, FS_Surjection
<1>10. Cardinality(ToSet(choice)) \in Nat /\ ToSet(choice) \in SUBSET S
  <2>1. ToSet(choice) \in SUBSET S
    BY <1>2, <1>7, <1>8
  <2> QED BY <2>1, FiniteAndNatural
<1> QED BY <1>4, <1>9, <1>10

LEMMA TargetType ==
    ASSUME dynamic \in Dynamic, NEW v \in Nat, NEW t \in Nat
    PROVE  ComputeDynamicTarget(v, t) \in Nat
<1>1. CASE ~dynamic.enabled
  BY <1>1 DEF ComputeDynamicTarget
<1>2. CASE dynamic.enabled
  <2>1. dynamic.min \in Nat /\ dynamic.max \in Nat /\ dynamic.percent \in Nat
    BY <1>2, PlanningAssumption
  <2>2. v * dynamic.percent \in Nat
    BY <2>1
  <2> DEFINE share == (v * dynamic.percent) \div 100
  <2>3. share \in Nat
    BY <2>2
  <2> HIDE DEF share
  <2>4. Max({dynamic.min, share}) \in Nat
    BY <2>1, <2>3, MaxOfPair
  <2>5. Min({dynamic.max, Max({dynamic.min, share})}) \in Nat
    BY <2>1, <2>4, MinOfPair
  <2> QED BY <1>2, <2>1, <2>5 DEF ComputeDynamicTarget, share
<1> QED BY <1>1, <1>2

LEMMA NoneHasNone == ConflictEdges({}, at) = {}
  BY DEF ConflictEdges

LEMMA FewerHaveFewer ==
    ASSUME NEW S, NEW T \in SUBSET S, ConflictEdges(S, at) = {}
    PROVE  ConflictEdges(T, at) = {}
<1> SUFFICES ASSUME NEW e \in ConflictEdges(T, at) PROVE e \in ConflictEdges(S, at)
  OBVIOUS
<1>1. PICK p \in T \X T : /\ p[1] < p[2] /\ ConflictFiles(p[1], p[2], at) /= {}
                          /\ e = Edge("conflict", p[1], p[2], ConflictFiles(p[1], p[2], at))
  BY DEF ConflictEdges
<1> QED BY <1>1 DEF ConflictEdges

LEMMA PlanInitInv == PlanInit => PlanInv
<1> SUFFICES ASSUME PlanInit PROVE PlanInv
  OBVIOUS
<1>1. PlanTypeOK
  BY PlanningAssumption DEF PlanInit, PlanTypeOK
<1>2. FatesAgree
  BY <1>1, FS_EmptySet DEF PlanInit, PlanTypeOK, FatesAgree
<1> QED BY <1>1, <1>2, NoneHasNone
        DEF PlanInit, PlanInv, ConflictsExcluded, OrderIsOfSelected, Strategies

LEMMA FilterStep ==
    ASSUME PlanInv, Filter
    PROVE  PlanInv'
<1> DEFINE viable == {n \in OpenPRs : FilterReason(n) = ""}
           wanted == ComputeDynamicTarget(Cardinality(viable), options.target)
<1>1. viable \in SUBSET OpenPRs
  OBVIOUS
<1>2. Cardinality(viable) \in Nat
  BY <1>1, FiniteAndNatural
<1>t. /\ PlanTypeOK /\ options.target \in Nat
      /\ stage = "filter" /\ selected = {}
  BY PlanningAssumption DEF PlanInv, PlanTypeOK, FatesAgree, Filter
<1>3. wanted \in Nat
  BY <1>2, <1>t, TargetType DEF PlanTypeOK
<1>4. target' \in Nat
  <2>1. target' = IF collapsed /= <<>> THEN Min({wanted, Cardinality(viable)}) ELSE wanted
    BY DEF Filter
  <2> HIDE DEF wanted, viable
  <2> QED BY <1>2, <1>3, <2>1, MinOfPair
<1>5. ASSUME NEW n, FilterReason(n) # "" PROVE FilterReason(n) \in Reasons
  BY <1>5 DEF FilterReason, Reasons
<1>6. /\ rejections' = [n \in OpenPRs |-> IF n \in viable THEN <<>> ELSE <<FilterReason(n)>>]
      /\ pool' = viable /\ stage' \in {"score", "answered"}
      /\ UNCHANGED <<at, options, dynamic, collapsed, selected, ordering>>
  BY DEF Filter, call
<1> HIDE DEF viable, wanted
<1>7. PlanTypeOK'
  <2>1. \A n \in OpenPRs : n \in viable <=> FilterReason(n) = ""
    BY DEF viable
  <2>2. ASSUME NEW n \in OpenPRs PROVE rejections'[n] \in Seq(Reasons)
    <3>1. rejections'[n] = IF n \in viable THEN <<>> ELSE <<FilterReason(n)>>
      BY <1>6
    <3>2. CASE n \in viable
      BY <3>1, <3>2
    <3>3. CASE n \notin viable
      <4>1. FilterReason(n) \in Reasons
        BY <2>1, <3>3, <1>5
      <4> QED BY <3>1, <3>3, <4>1
    <3> QED BY <3>2, <3>3
  <2>3. rejections' \in [OpenPRs -> Seq(Reasons)]
    BY <2>2, <1>6
  <2> QED BY <1>1, <1>4, <1>6, <1>t, <2>3 DEF PlanTypeOK
<1>8. FatesAgree'
  BY <1>1, <1>4, <1>6, <1>t, FS_EmptySet DEF FatesAgree, Strategies
<1> QED BY <1>6, <1>7, <1>8, <1>t, NoneHasNone
        DEF PlanInv, ConflictsExcluded, OrderIsOfSelected, Strategies

LEMMA SelectStep ==
    ASSUME PlanInv, SelectCandidates
    PROVE  PlanInv'
<1>t. /\ PlanTypeOK /\ FatesAgree /\ stage = "score" /\ selected = {}
  BY DEF PlanInv, FatesAgree, SelectCandidates
<1>1. IsFiniteSet(pool)
  BY <1>t, FiniteAndNatural DEF PlanTypeOK
<1>2. FirstRanked(pool, target, pool) \in SUBSET pool /\ Cardinality(FirstRanked(pool, target, pool)) <= target
  BY <1>t, <1>1, FirstIsShort DEF PlanTypeOK
<1>3. /\ pool' = FirstRanked(pool, target, pool) /\ stage' = "options"
      /\ UNCHANGED <<at, options, dynamic, collapsed, target, rejections, selected, ordering>>
  BY DEF SelectCandidates, call
<1>4. PlanTypeOK'
  BY <1>2, <1>3, <1>t DEF PlanTypeOK
<1>5. FatesAgree'
  BY <1>2, <1>3, <1>t DEF FatesAgree, Strategies
<1> QED BY <1>3, <1>4, <1>5, <1>t, NoneHasNone
        DEF PlanInv, ConflictsExcluded, OrderIsOfSelected, Strategies

\* Whoever is in a conflict is warned.
LEMMA UnwarnedAreFree ==
    ASSUME PlanTypeOK, NEW S \in SUBSET OpenPRs, options.excludeConflicts
    PROVE  ConflictEdges(S \ {n \in S : options.excludeConflicts /\ Cardinality(S) > 1
                                          /\ ConflictWarnings(S, at)[n] /= {}}, at) = {}
<1> DEFINE W == {n \in S : options.excludeConflicts /\ Cardinality(S) > 1
                            /\ ConflictWarnings(S, at)[n] /= {}}
<1> SUFFICES ASSUME NEW e \in ConflictEdges(S \ W, at) PROVE FALSE
  OBVIOUS
<1>0. S \in SUBSET Nat /\ IsFiniteSet(S) /\ Cardinality(S) \in Nat
  BY FiniteAndNatural
<1>1. PICK p \in (S \ W) \X (S \ W) :
        /\ p[1] < p[2] /\ ConflictFiles(p[1], p[2], at) /= {}
        /\ e = Edge("conflict", p[1], p[2], ConflictFiles(p[1], p[2], at))
  BY DEF ConflictEdges
<1>p. p[1] \in S \ W /\ p[2] \in S \ W
  BY <1>1
<1> HIDE DEF W
<1>2. p[1] \in S /\ p[2] \in S /\ p[1] \notin W /\ p[1] # p[2]
  <2> DEFINE a == p[1]
             b == p[2]
  <2>1. a < b /\ a \in S \ W /\ b \in S \ W
    BY <1>1, <1>p
  <2> HIDE DEF a, b
  <2>2. a \in Nat /\ b \in Nat /\ a # b
    BY <1>0, <2>1
  <2> QED BY <1>p, <2>2 DEF a, b
<1>3. Cardinality(S) > 1
  <2>1. /\ IsFiniteSet(S \ {p[1]})
        /\ Cardinality(S \ {p[1]}) = Cardinality(S) - 1
    BY <1>0, <1>2, FS_RemoveElement
  <2>2. Cardinality(S \ {p[1]}) # 0
    BY <2>1, <1>2, FS_EmptySet
  <2>3. Cardinality(S \ {p[1]}) \in Nat
    BY <2>1, FS_CardinalityType
  <2> QED BY <2>1, <2>2, <2>3, <1>0
<1>4. e \in ConflictEdges(S, at) /\ e.from = p[1] /\ e.to = p[2]
  BY <1>1, <1>2 DEF ConflictEdges, Edge
<1>5. p[2] \in ConflictWarnings(S, at)[p[1]]
  <2>1. e \in {d \in ConflictEdges(S, at) : p[1] \in {d.from, d.to}}
    BY <1>4
  <2>2. p[2] \in {e.from, e.to} \ {p[1]}
    BY <1>4, <1>2
  <2>3. ConflictWarnings(S, at)[p[1]] =
          UNION {{d.from, d.to} \ {p[1]} : d \in {d \in ConflictEdges(S, at) : p[1] \in {d.from, d.to}}}
    BY <1>2 DEF ConflictWarnings
  <2> QED BY <2>1, <2>2, <2>3
<1> QED BY <1>2, <1>3, <1>5 DEF W

LEMMA OptionsStep ==
    ASSUME PlanInv, ApplyOptions
    PROVE  PlanInv'
<1> DEFINE low == {n \in pool : options.scoreMin > 0 /\ Priority(n, Viable) < options.scoreMin}
           stale == {n \in pool \ low : options.staleMax > 0 /\ at[n].stale > options.staleMax}
           fresh == pool \ (low \union stale)
           warned == {n \in fresh : options.excludeConflicts /\ Cardinality(fresh) > 1
                                      /\ ConflictWarnings(fresh, at)[n] /= {}}
           kept == fresh \ warned
           capped == IF options.cap > 0 THEN FirstRanked(kept, options.cap, Viable) ELSE kept
           reason == [n \in OpenPRs |->
                        IF n \in low THEN "below score_min threshold"
                        ELSE IF n \in stale THEN "above stale_score_threshold"
                        ELSE IF n \in warned THEN "conflict warning (exclude_conflicts)"
                        ELSE IF n \in kept \ capped THEN "excluded by candidate_pool_cap" ELSE ""]
<1>t. /\ PlanTypeOK /\ FatesAgree /\ stage = "options" /\ selected = {}
      /\ options.strategy \in Strategies /\ pool \in SUBSET OpenPRs
  BY PlanningAssumption DEF PlanInv, PlanTypeOK, FatesAgree, ApplyOptions, Strategies
<1>1. /\ pool' = capped
      /\ rejections' = [n \in OpenPRs |-> IF reason[n] = "" THEN rejections[n]
                                         ELSE Append(rejections[n], reason[n])]
      /\ target' = IF options.mode = "with_replacement" THEN target
                   ELSE Min({target, Cardinality(capped)})
      /\ stage' = IF capped = {} THEN "answered" ELSE options.strategy
      /\ UNCHANGED <<at, options, dynamic, collapsed, selected, ordering>>
  BY DEF ApplyOptions, call
<1>2. fresh \in SUBSET pool /\ kept \in SUBSET fresh /\ capped \in SUBSET kept
  <2>1. fresh \in SUBSET pool /\ kept \in SUBSET fresh
    OBVIOUS
  <2> HIDE DEF kept
  <2>2. capped \in SUBSET kept
    BY DEF FirstRanked
  <2> QED BY <2>1, <2>2
<1>3. options.excludeConflicts => ConflictEdges(kept, at) = {}
  <2>1. fresh \in SUBSET OpenPRs
    BY <1>2, <1>t
  <2> HIDE DEF fresh
  <2> QED BY <1>t, <2>1, UnwarnedAreFree
<1>4. \A n \in OpenPRs : /\ reason[n] = "" \/ reason[n] \in Reasons
                         /\ n \in capped => reason[n] = ""
                         /\ n \notin pool => reason[n] = ""
  <2>1. low \in SUBSET pool /\ stale \in SUBSET pool /\ warned \in SUBSET fresh
    OBVIOUS
  <2>2. kept \intersect warned = {} /\ fresh \intersect (low \union stale) = {}
    OBVIOUS
  <2> HIDE DEF low, stale, fresh, warned, kept, capped
  <2> QED BY <1>2, <2>1, <2>2 DEF Reasons
<1> HIDE DEF low, stale, fresh, warned, kept, capped, reason
<1>5. capped \in SUBSET pool
  BY <1>2
<1>6. /\ Cardinality(capped) \in Nat /\ Cardinality(capped) <= Cardinality(pool)
      /\ Cardinality(pool) \in Nat /\ Cardinality(pool) <= target /\ target \in Nat
  <2>1. IsFiniteSet(pool) /\ Cardinality(pool) \in Nat /\ Cardinality(capped) \in Nat
    BY <1>t, <1>5, FiniteAndNatural
  <2>2. Cardinality(capped) <= Cardinality(pool)
    BY <2>1, <1>5, FS_Subset
  <2> QED BY <2>1, <2>2, <1>t DEF FatesAgree, PlanTypeOK
<1>7. target' \in Nat /\ Cardinality(capped) <= target'
  <2>1. Min({target, Cardinality(capped)}) = Cardinality(capped)
    <3>1. Min({target, Cardinality(capped)}) =
            IF target <= Cardinality(capped) THEN target ELSE Cardinality(capped)
      BY <1>6, MinOfPair
    <3> QED BY <3>1, <1>6
  <2>2. target' = target \/ target' = Cardinality(capped)
    BY <1>1, <2>1
  <2> QED BY <1>6, <2>2
<1>8. ASSUME NEW n \in OpenPRs
      PROVE  /\ rejections'[n] \in Seq(Reasons) /\ Len(rejections'[n]) <= 1
             /\ n \in capped => rejections'[n] = <<>>
  <2>1. rejections[n] \in Seq(Reasons) /\ Len(rejections[n]) <= 1
    BY <1>t DEF PlanTypeOK, FatesAgree
  <2>2. rejections'[n] = IF reason[n] = "" THEN rejections[n] ELSE Append(rejections[n], reason[n])
    BY <1>1
  <2>3. n \in pool => rejections[n] = <<>>
    BY <1>t DEF FatesAgree
  <2>4. CASE reason[n] = ""
    BY <2>1, <2>2, <2>3, <2>4, <1>5
  <2>5. CASE reason[n] # ""
    <3>1. n \in pool /\ n \notin capped /\ reason[n] \in Reasons
      BY <2>5, <1>4
    <3>2. rejections'[n] = Append(<<>>, reason[n])
      BY <2>2, <2>3, <2>5, <3>1
    <3>3. Append(<<>>, reason[n]) \in Seq(Reasons) /\ Len(Append(<<>>, reason[n])) = 1
      BY <3>1
    <3> QED BY <3>1, <3>2, <3>3
  <2> QED BY <2>4, <2>5
<1>9. PlanTypeOK'
  <2>1. rejections' \in [OpenPRs -> Seq(Reasons)]
    BY <1>1, <1>8
  <2> QED BY <1>1, <1>5, <1>7, <1>t, <2>1 DEF PlanTypeOK
<1>10. FatesAgree'
  <2>1. selected' = {}
    BY <1>1, <1>t
  <2>2. Cardinality(selected') = 0
    BY <2>1, FS_EmptySet
  <2>3. Cardinality(selected') <= target'
    BY <2>2, <1>7
  <2> QED BY <1>1, <1>5, <1>7, <1>8, <1>t, <2>1, <2>3 DEF FatesAgree, Strategies
<1>11. ConflictsExcluded'
  <2>1. options.excludeConflicts => ConflictEdges(capped, at) = {}
    BY <1>2, <1>3, FewerHaveFewer
  <2> QED BY <2>1, <1>1, <1>t, NoneHasNone DEF ConflictsExcluded
<1> QED BY <1>1, <1>9, <1>10, <1>11, <1>t DEF PlanInv, OrderIsOfSelected, Strategies

\* Both strategies take from the pool and reject from the rest of it.
LEMMA SelectionStep ==
    ASSUME PlanInv, stage \in Strategies, NEW S \in SUBSET pool, NEW T \in SUBSET pool \ S,
           NEW r \in Reasons, Cardinality(S) <= target,
           selected' = S, rejections' = Rejecting(T, r), stage' = "order",
           UNCHANGED <<call, target, pool, ordering>>
    PROVE  PlanInv'
<1>t. /\ PlanTypeOK /\ FatesAgree /\ pool \in SUBSET OpenPRs
      /\ UNCHANGED <<at, options, dynamic, collapsed>>
  BY DEF PlanInv, PlanTypeOK, call
<1>1. ASSUME NEW n \in OpenPRs
      PROVE  /\ rejections'[n] \in Seq(Reasons) /\ Len(rejections'[n]) <= 1
             /\ n \in S => rejections'[n] = <<>>
  <2>1. rejections[n] \in Seq(Reasons) /\ Len(rejections[n]) <= 1
    BY <1>t DEF PlanTypeOK, FatesAgree
  <2>2. rejections'[n] = IF n \in T THEN Append(rejections[n], r) ELSE rejections[n]
    BY DEF Rejecting
  <2>3. n \in pool => rejections[n] = <<>>
    BY <1>t DEF FatesAgree
  <2>4. CASE n \notin T
    BY <2>1, <2>2, <2>3, <2>4
  <2>5. CASE n \in T
    <3>1. n \in pool /\ n \notin S
      BY <2>5
    <3>2. rejections'[n] = Append(<<>>, r)
      BY <2>2, <2>3, <2>5, <3>1
    <3>3. Append(<<>>, r) \in Seq(Reasons) /\ Len(Append(<<>>, r)) = 1
      OBVIOUS
    <3> QED BY <3>1, <3>2, <3>3
  <2> QED BY <2>4, <2>5
<1>2. PlanTypeOK'
  <2>1. rejections' \in [OpenPRs -> Seq(Reasons)]
    BY <1>1 DEF Rejecting
  <2> QED BY <1>t, <2>1 DEF PlanTypeOK
<1>3. FatesAgree'
  BY <1>1, <1>t DEF FatesAgree, Strategies
<1>4. ConflictsExcluded'
  BY <1>t, FewerHaveFewer DEF PlanInv, ConflictsExcluded, Strategies
<1> QED BY <1>2, <1>3, <1>4 DEF PlanInv, OrderIsOfSelected

LEMMA FormulaStep ==
    ASSUME PlanInv, FormulaPlan
    PROVE  PlanInv'
<1>1. PICK choice \in Search(pool, at, options.mode, target) :
        /\ selected' = ToSet(choice)
        /\ rejections' = Rejecting(pool \ ToSet(choice), "not selected by strategy")
  BY DEF FormulaPlan
<1>2. pool \in SUBSET OpenPRs /\ target \in Nat
  BY DEF PlanInv, PlanTypeOK
<1>3. ToSet(choice) \in SUBSET pool /\ Cardinality(ToSet(choice)) <= target
  BY <1>2, TriedIsOfPool
<1>4. /\ stage = "formula" /\ stage' = "order"
      /\ UNCHANGED <<call, target, pool, ordering>>
  BY DEF FormulaPlan
<1>5. "not selected by strategy" \in Reasons /\ stage \in Strategies
  BY <1>4 DEF Reasons, Strategies
<1>6. pool \ ToSet(choice) \in SUBSET pool \ ToSet(choice)
  OBVIOUS
<1> QED BY <1>1, <1>3, <1>4, <1>5, <1>6, SelectionStep

LEMMA HierarchicalStep ==
    ASSUME PlanInv, HierarchicalPlan
    PROVE  PlanInv'
<1> DEFINE excess == ExceedTargetTotal(pool)
<1>1. /\ selected' = pool \ excess
      /\ rejections' = Rejecting(excess, "exceeded_target_total")
      /\ stage = "hierarchical" /\ stage' = "order"
      /\ UNCHANGED <<call, target, pool, ordering>>
  BY DEF HierarchicalPlan
<1>2. excess \in SUBSET pool
  <2>1. RankWithinClusters(pool) \in SUBSET pool
    BY DEF RankWithinClusters, FirstRanked
  <2> QED BY <2>1 DEF ExceedTargetTotal
<1> HIDE DEF excess
<1>3. Cardinality(pool \ excess) <= target
  <2>1. pool \in SUBSET OpenPRs /\ target \in Nat /\ Cardinality(pool) <= target
    BY <1>1 DEF PlanInv, PlanTypeOK, FatesAgree, Strategies
  <2>2. IsFiniteSet(pool) /\ Cardinality(pool) \in Nat
    BY <2>1, FiniteAndNatural
  <2>3. /\ Cardinality(pool \ excess) <= Cardinality(pool)
        /\ Cardinality(pool \ excess) \in Nat
    BY <2>2, FS_Subset, FS_CardinalityType
  <2> QED BY <2>1, <2>2, <2>3
<1>4. "exceeded_target_total" \in Reasons /\ stage \in Strategies
  BY <1>1 DEF Reasons, Strategies
<1>5. pool \ excess \in SUBSET pool /\ excess \in SUBSET (pool \ (pool \ excess))
  BY <1>2
<1> QED BY <1>1, <1>3, <1>4, <1>5, SelectionStep

LEMMA OrderStep ==
    ASSUME PlanInv, Order
    PROVE  PlanInv'
  BY DEF Order, call, PlanInv, PlanTypeOK, FatesAgree, ConflictsExcluded, OrderIsOfSelected,
         Strategies

LEMMA PlanInvariance == PlanSpec => []PlanInv
<1>1. PlanInv /\ [PlanNext]_planVars => PlanInv'
  <2> SUFFICES ASSUME PlanInv, [PlanNext]_planVars PROVE PlanInv'
    OBVIOUS
  <2>1. CASE Filter
    BY <2>1, FilterStep
  <2>2. CASE SelectCandidates
    BY <2>2, SelectStep
  <2>3. CASE ApplyOptions
    BY <2>3, OptionsStep
  <2>4. CASE FormulaPlan
    BY <2>4, FormulaStep
  <2>5. CASE HierarchicalPlan
    BY <2>5, HierarchicalStep
  <2>6. CASE Order
    BY <2>6, OrderStep
  <2>7. CASE UNCHANGED planVars
    BY <2>7 DEF planVars, call, PlanInv, PlanTypeOK, FatesAgree, ConflictsExcluded,
                OrderIsOfSelected
  <2> QED BY <2>1, <2>2, <2>3, <2>4, <2>5, <2>6, <2>7 DEF PlanNext
<1> QED BY <1>1, PlanInitInv, PTL DEF PlanSpec

\* A pull request is rejected once at most and then not selected, whichever
\* filters and strategy it meets, and no more are selected than the answer's
\* target, for any pull requests and options of the call
\* (app/service.go:1213-1369, 1371-1435).
THEOREM FatesAreSingle == PlanSpec => []OneFate
<1>1. PlanInv => OneFate
  BY DEF PlanInv, PlanTypeOK, FatesAgree, OneFate
<1> QED BY <1>1, PlanInvariance, PTL

\* A place in a sequence without repetitions is found by its value.
LEMMA PlaceIsUnique ==
    ASSUME NEW S, NEW edges, NEW s, Sound(s, S, edges), NEW i \in 1..Len(s)
    PROVE  (CHOOSE j \in DOMAIN s : s[j] = s[i]) = i
<1>1. DOMAIN s = 1..Len(s)
  BY DEF Sound
<1>2. \A j \in DOMAIN s : s[j] = s[i] => j = i
  BY <1>1 DEF Sound
<1>3. \E j \in DOMAIN s : s[j] = s[i]
  BY <1>1
<1> QED BY <1>2, <1>3

\* What needs what is what is stacked on what.
LEMMA NeedsAreStacks ==
    ASSUME NEW S, NEW m, NEW n
    PROVE  m \in Needs(n, Build(S, at)) <=> m \in S /\ n \in S /\ StackedOn(m, n, at)
<1>1. ASSUME m \in Needs(n, Build(S, at))
      PROVE  m \in S /\ n \in S /\ StackedOn(m, n, at)
  <2>1. PICK e \in Build(S, at) : e.type = "dependency" /\ e.to = n /\ e.from = m
    BY <1>1 DEF Needs
  <2>2. e \notin ConflictEdges(S, at)
    BY <2>1 DEF ConflictEdges, Edge
  <2>3. PICK p \in {q \in S \X S : StackedOn(q[1], q[2], at)} :
          e = Edge("dependency", p[1], p[2], {})
    BY <2>2 DEF Build
  <2> QED BY <2>1, <2>3 DEF Edge
<1>2. ASSUME m \in S, n \in S, StackedOn(m, n, at)
      PROVE  m \in Needs(n, Build(S, at))
  <2> DEFINE p == <<m, n>>
             e == Edge("dependency", p[1], p[2], {})
  <2>1. p \in {q \in S \X S : StackedOn(q[1], q[2], at)}
    BY <1>2
  <2>2. e \in Build(S, at)
    BY <2>1 DEF Build
  <2>3. e.type = "dependency" /\ e.to = n /\ e.from = m
    BY DEF Edge
  <2> QED BY <2>2, <2>3 DEF Needs
<1> QED BY <1>1, <1>2

\* The merge order lists the selection, each pull request once and after what
\* it is stacked on unless the stacks form a cycle, and with exclude_conflicts
\* no two of it conflict, for any pull requests and options
\* (app/service.go:1324-1337, 2877-2922, graph/graph.go:177-230).
THEOREM OrderIsSound == PlanSpec => []MergeOrderIsSound
<1>1. PlanInv => MergeOrderIsSound
  <2> SUFFICES ASSUME PlanInv, stage = "answered", selected # {}
               PROVE  MergeOrderIsSound
    BY DEF MergeOrderIsSound
  <2> DEFINE edges == Build(selected, at)
             first == TopologicalOrder(selected, edges)
             place(n) == CHOOSE i \in DOMAIN ordering : ordering[i] = n
             stacked == {p \in selected \X selected : StackedOn(p[1], p[2], at)}
             cyclic == \E S \in (SUBSET selected) \ {{}} : \A n \in S : \E m \in S : <<m, n>> \in stacked
  <2>1. /\ selected \in SUBSET Nat /\ IsFiniteSet(selected) /\ Cardinality(selected) \in Nat
        /\ ordering = OrderSelection(selected, at)
    BY FiniteAndNatural DEF PlanInv, PlanTypeOK, OrderIsOfSelected
  <2>2. ordering = IF first = <<>> THEN TopologicalOrder(selected, {}) ELSE first
    BY <2>1 DEF OrderSelection
  <2>3. options.excludeConflicts => ConflictEdges(selected, at) = {}
    BY DEF PlanInv, ConflictsExcluded
  <2>4. Cardinality(selected) # 0
    BY <2>1, FS_EmptySet
  <2>5. \/ /\ Sound(first, selected, edges) /\ ToSet(first) = selected
           /\ Len(first) = Cardinality(selected)
        \/ /\ first = <<>>
           /\ \E T \in (SUBSET selected) \ {{}} : \A n \in T : \E m \in T : m \in Needs(n, edges)
    BY <2>1, OrderOfAll
  <2>6. CASE first = <<>>
    <3>1. Len(first) = 0
      BY <2>6
    <3>2. PICK T \in (SUBSET selected) \ {{}} : \A n \in T : \E m \in T : m \in Needs(n, edges)
      BY <2>4, <2>5, <3>1
    <3>3. cyclic
      <4>1. ASSUME NEW n \in T PROVE \E m \in T : <<m, n>> \in stacked
        <5>1. PICK m \in T : m \in Needs(n, edges)
          BY <3>2
        <5>2. m \in selected /\ n \in selected /\ StackedOn(m, n, at)
          BY <5>1, NeedsAreStacks
        <5> QED BY <5>2
      <4> QED BY <4>1
    <3>4. ToSet(ordering) = selected /\ Len(ordering) = Cardinality(selected)
      BY <2>1, <2>2, <2>6, OrderByNumber
    <3> QED BY <2>3, <3>3, <3>4 DEF MergeOrderIsSound
  <2>7. CASE first # <<>>
    <3>1. /\ ordering = first /\ Sound(ordering, selected, edges)
          /\ ToSet(ordering) = selected /\ Len(ordering) = Cardinality(selected)
      BY <2>2, <2>5, <2>7
    <3> HIDE DEF first
    <3>2. DOMAIN ordering = 1..Len(ordering) /\ Len(ordering) \in Nat
      BY <3>1 DEF Sound
    <3>3. ASSUME NEW p \in stacked PROVE place(p[1]) < place(p[2])
      <4>1. p[1] \in Needs(p[2], edges) /\ p[1] \in selected /\ p[2] \in selected
        BY NeedsAreStacks
      <4>2. PICK i \in 1..Len(ordering) : ordering[i] = p[2]
        BY <4>1, <3>1, <3>2 DEF ToSet
      <4>3. PICK j \in 1..(i - 1) : ordering[j] = p[1]
        BY <4>1, <4>2, <3>1 DEF Sound
      <4>4. j \in 1..Len(ordering) /\ j < i
        BY <3>2
      <4>5. place(p[2]) = i /\ place(p[1]) = j
        BY <4>2, <4>3, <4>4, <3>1, PlaceIsUnique
      <4> QED BY <4>4, <4>5
    <3> QED BY <2>3, <3>1, <3>3 DEF MergeOrderIsSound
  <2> QED BY <2>6, <2>7
<1> QED BY <1>1, PlanInvariance, PTL
=============================================================================
