----------------------------- MODULE Duplicates -----------------------------
(***************************************************************************)
(* Duplicate groups, synthesis plans and the collapsed corpus.             *)
(*                                                                         *)
(* Pure operators of internal/app: the grouping of similar pull requests,  *)
(* the nomination of one of each group as canonical, and the collapse of   *)
(* chains of groups into one canonical and the pull requests it supersedes.*)
(*                                                                         *)
(* A similarity is a level: 0 below the overlap threshold (0.70), 1 from   *)
(* there, 2 from the threshold for cached corpora (0.80), 3 from the       *)
(* duplicate threshold (0.85).  Confidence, substance and scores are       *)
(* percentages, scores in hundredths of one.  Merged pull request m is the *)
(* number -m, as in the code.                                              *)
(***************************************************************************)
EXTENDS Integers, FiniteSets, FiniteSetsExt

Overlap == 1
CachedDuplicate == 2
FreshDuplicate == 3

-----------------------------------------------------------------------------
(* The pairs that are compared.  A corpus below exactBelow (150 in the     *)
(* code) compares every pair; a larger one those whose hashes collide in a *)
(* band, which is a matter of the two alone.  Merged ones are compared     *)
(* with all when no pair of open ones collides.                            *)
AllPairs(corpus, merged) ==
  {p \in corpus \X (corpus \union merged) : p[2] < 0 \/ p[1] < p[2]}

Small(corpus, merged, exactBelow) ==
  Cardinality(corpus) + Cardinality(merged) < exactBelow

CandidatePairs(corpus, merged, colliding, exactBelow) ==
  LET all  == AllPairs(corpus, merged)
      open == {p \in all : p[2] > 0}
  IN IF Small(corpus, merged, exactBelow) THEN all
     ELSE IF open \intersect colliding = {} THEN all \ open
     ELSE all \intersect colliding

(* The group of each canonical: the lower number of a pair, or the open    *)
(* one.  level maps the pairs to their similarity.                         *)
GroupsBetween(pairs, level, low, high) ==
  LET hits == {p \in pairs : level[p] \in low..high}
  IN {[canonical |-> c,
       members |-> {p[2] : p \in {q \in hits : q[1] = c}},
       similarity |-> Max({level[p] : p \in {q \in hits : q[1] = c}})]
        : c \in {p[1] : p \in hits}}

ClassifyDuplicates(pairs, level, threshold) ==
  [duplicates |-> GroupsBetween(pairs, level, threshold, FreshDuplicate),
   overlaps |-> GroupsBetween(pairs, level, Overlap, threshold - 1)]

(* Mutant: a group exactly at the threshold is in neither list.            *)
SplitCachedAbove(groups) ==
  [duplicates |-> {g \in groups : g.similarity > CachedDuplicate},
   overlaps |-> {g \in groups : g.similarity = Overlap}]

(* What a rerun reads back: one list, split by the similarity of the group *)
(* at the threshold for cached corpora, whatever it was computed with.     *)
SplitCached(groups) ==
  [duplicates |-> {g \in groups : g.similarity >= CachedDuplicate},
   overlaps |-> {g \in groups : g.similarity = Overlap}]

-----------------------------------------------------------------------------
(* How fit a pull request is to stand for its group.  pr has the fields    *)
(* substance, confidence, mergeable, draft, tests, quality of the pull     *)
(* request and its review, zero and "" where there is no review.           *)
SynthesisScore(pr, conflicts) ==
  LET base == (pr.substance * 25 + pr.confidence * 20) \div 100
                + (CASE pr.mergeable = "yes" -> 20
                     [] pr.mergeable = "no" -> 5
                     [] OTHER -> 0)
      kept == IF pr.draft THEN (base * 7) \div 10 ELSE base
      penalty == Min({3 * conflicts, 15})
      signal == IF pr.quality = "high" \/ pr.confidence >= 80 THEN 10
                ELSE IF pr.quality = "low" \/ pr.confidence < 40 THEN -5
                ELSE 0
      total == kept - penalty + (IF pr.tests THEN 10 ELSE 0) + signal
  IN Max({0, Min({100, total})})

(* The better of two: the higher score, the lower number among equals.     *)
Better(a, b, score) == score[a] > score[b] \/ (score[a] = score[b] /\ a < b)

TopOf(S, score) == CHOOSE a \in S : \A b \in S \ {a} : Better(a, b, score)

(* The plan of one group.  Members that are merged, or not in the corpus,  *)
(* are no candidates.                                                      *)
SynthesisPlan(group, kind, corpus, score) ==
  LET present == ({group.canonical} \union {d \in group.members : d > 0})
                   \intersect corpus
      first == TopOf(present, score)
      second == TopOf(present \ {first}, score)
      role(c) == IF c = first THEN "canonical"
                 ELSE IF c = second /\ score[first] > 0
                         /\ score[first] - score[c] < 15 THEN "alternate"
                 ELSE IF score[c] > 30 THEN "contributor"
                 ELSE "excluded"
  IN [kind |-> kind,
      original |-> group.canonical,
      nominated |-> IF present = {} THEN 0 ELSE first,
      similarity |-> group.similarity,
      role |-> [c \in present |-> role(c)]]

Canonical(plan) ==
  IF plan.nominated = 0 THEN plan.original ELSE plan.nominated

DuplicateSynthesis(groups, corpus, score) ==
  IF corpus = {} THEN {}
  ELSE {SynthesisPlan(g, "duplicate", corpus, score) : g \in groups.duplicates}
         \union {SynthesisPlan(g, "overlap", corpus, score) : g \in groups.overlaps}

-----------------------------------------------------------------------------
(* The collapsed corpus: pull requests linked by the plans, directly or    *)
(* through others, keep the one with the best score.                       *)
Links(plans) ==
  UNION {{{Canonical(p), c} : c \in DOMAIN p.role \ {Canonical(p)}} : p \in plans}

(* Mutant: only the pull requests linked directly.                         *)
ChainOfOne(n, plans) == {n} \union UNION {l \in Links(plans) : n \in l}

Chain(n, plans) ==
  LET nodes == UNION Links(plans)
      closed(S) == \A l \in Links(plans) : l \intersect S /= {} => l \subseteq S
  IN {m \in nodes : \A S \in SUBSET nodes : n \in S /\ closed(S) => m \in S}

CollapsedCorpus(plans, score) ==
  [pr \in {n \in UNION Links(plans) : n /= TopOf(Chain(n, plans), score)}
     |-> TopOf(Chain(pr, plans), score)]

(* What the action plan knows of a duplicate: for each candidate, the      *)
(* canonical of one of its plans (the last in the order of the group ids). *)
DuplicateEvidence(plans) ==
  LET of(n) == {p \in plans : n \in DOMAIN p.role /\ n /= Canonical(p)}
      known == {n \in UNION {DOMAIN p.role : p \in plans} : of(n) /= {}}
  IN {f \in [known -> plans] : \A n \in known : f[n] \in of(n)}
=============================================================================
