------------------------------ MODULE Formula ------------------------------
(***************************************************************************)
(* The formula engine (internal/formula): the k-selections of a pool of n  *)
(* are numbered, by mode, and a tier tries the ones with the first         *)
(* numbers.  Positions of the pool are counted from 1 here.                *)
(***************************************************************************)
EXTENDS Integers, Sequences, SequencesExt, FiniteSetsExt, Folds

Modes == {"permutation", "combination", "with_replacement"}

(* Count, with the products taken step by step as there.                   *)
Falling(n, k) == MapThenFoldSet(LAMBDA a, b : a * b, 1, LAMBDA i : n - i,
                                LAMBDA S : CHOOSE i \in S : TRUE, 0..(k - 1))

Choose(n, k) ==
  LET least == Min({k, n - k})
  IN FoldLeft(LAMBDA r, step : (r * (n - least + step)) \div step, 1,
              [step \in 1..least |-> step])

Count(mode, n, k) ==
  IF n < 0 \/ k < 0 THEN 0
  ELSE CASE mode = "permutation" -> IF k > n THEN 0 ELSE Falling(n, k)
         [] mode = "combination" -> IF k > n THEN 0 ELSE Choose(n, k)
         [] mode = "with_replacement" -> n ^ k

(* permutationIndices: each position takes one of the numbers left.        *)
PermutationIndices(n, k, idx) ==
  LET block(pos) == Count("permutation", n - pos, k - pos)
      take(state, pos) ==
        LET choice == state.left \div block(pos)
        IN [out |-> Append(state.out, state.free[choice + 1]),
            free |-> RemoveAt(state.free, choice + 1),
            left |-> state.left % block(pos)]
  IN FoldLeft(take, [out |-> <<>>, free |-> [i \in 1..n |-> i], left |-> idx],
              [pos \in 1..k |-> pos]).out

(* combinationIndices: the first candidate whose block holds the number.   *)
CombinationIndices(n, k, idx) ==
  LET take(state, pos) ==
        LET block(c) == Count("combination", n - c, k - pos)
            skipped(c) == MapThenSumSet(block, state.start..(c - 1))
            next == Min({c \in state.start..(n - k + pos) :
                           state.left < skipped(c) + block(c)})
        IN [out |-> Append(state.out, next), start |-> next + 1,
            left |-> state.left - skipped(next)]
  IN FoldLeft(take, [out |-> <<>>, start |-> 1, left |-> idx], [pos \in 1..k |-> pos]).out

(* replacementIndices: the digits of the number in base n.                 *)
ReplacementIndices(n, k, idx) == [pos \in 1..k |-> ((idx \div n ^ (k - pos)) % n) + 1]

(* The place of a pull request in a pool that is in the order of numbers.  *)
Place(n, S) == 1 + Cardinality({m \in S : m < n})

(* The selection with that number, none if a position is out of range:     *)
(* the search then ends with an error, and there is no plan.               *)
GenerateByIndex(mode, S, k, idx) ==
  LET size == Cardinality(S)
      indices == CASE mode = "permutation" -> PermutationIndices(size, k, idx)
                   [] mode = "combination" -> CombinationIndices(size, k, idx)
                   [] mode = "with_replacement" -> ReplacementIndices(size, k, idx)
  IN {choice \in {[i \in 1..k |-> CHOOSE n \in S : Place(n, S) = indices[i]]} :
        \A i \in 1..k : indices[i] \in 1..size}

(* filterPoolForTier; the tiers and how many selections each may try.      *)
MaxCandidates == [quick |-> 8, thorough |-> 12, exhaustive |-> 16]

TierPool(tier, S, at) ==
  {n \in S : \/ tier = "exhaustive"
             \/ tier = "thorough" /\ ~at[n].conflicting
             \/ /\ tier = "quick" /\ at[n].base = "main"
                /\ ~at[n].conflicting /\ at[n].ci = "success"}

(* Search: every selection a tier tries; which of them wins is a matter of *)
(* scores, averages over the selection that are left out here, so that any *)
(* of them may.  The quick tier's pool may be short of the target, and its *)
(* selections compete with the full ones.                                  *)
Tried(tier, S, at, mode, target) ==
  LET pool == TierPool(tier, S, at)
      size == Cardinality(pool)
      pick == IF target > size /\ mode /= "with_replacement" THEN size ELSE target
      count == Min({Count(mode, size, pick), MaxCandidates[tier]})
  IN IF size = 0 \/ pick = 0 THEN {}
     ELSE UNION {GenerateByIndex(mode, pool, pick, idx) : idx \in 0..(count - 1)}

Search(S, at, mode, target) ==
  UNION {Tried(tier, S, at, mode, target) : tier \in DOMAIN MaxCandidates}
=============================================================================
