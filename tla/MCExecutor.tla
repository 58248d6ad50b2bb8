----------------------------- MODULE MCExecutor -----------------------------
(* Bounds for model checking Executor: one item, with the intents of a     *)
(* fast merge (comment, merge), of a fix with a close, or of a review.     *)
EXTENDS Executor, TLC

CONSTANTS i1, comment1, merge1, close1, fix1

OneItem == {i1}

OfOneItem == [a \in Intents |-> i1]

Kinds == [a \in Intents |->
            CASE a = comment1 -> "comment"
              [] a = merge1 -> "merge"
              [] a = close1 -> "close"
              [] a = fix1 -> "apply_fix"]

CommentAndMerge == {{comment1, merge1}}
CommentOrClose == {{comment1}, {close1}}
OnlyFix == {{fix1}}
OnlyComment == {{comment1}}

AnyPlan == {[dry |-> TRUE, policy |-> "advisory"],
            [dry |-> FALSE, policy |-> "guarded"],
            [dry |-> FALSE, policy |-> "autonomous"]}

LivePlan == {[dry |-> FALSE, policy |-> "autonomous"]}

\* One server start at a time, no start is special; nor is a goroutine.
Symmetry == Permutations(Servers) \cup Permutations(Threads)
=============================================================================
