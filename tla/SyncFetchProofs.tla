--------------------------- MODULE SyncFetchProofs ---------------------------
(***************************************************************************)
(* What holds of the syncs of a repository for every set of pull requests, *)
(* page size, set of caps, time and number of serve processes beside the   *)
(* command: the cache is never ahead of GitHub, and goes back only under   *)
(* runs that have met (CacheIsReplica), and, for syncs that no cap cuts    *)
(* off, a stored cursor skips nothing and a completed sync covers every    *)
(* pull request.                                                           *)
(***************************************************************************)
EXTENDS SyncFetch, FiniteSetTheorems, FunctionTheorems, TLAPS

Item == Nat \X PRs

Run == [pc : {"none", "request", "page", "rest", "rows", "fetched", "done"},
        from : Nat, since : Nat, page : SUBSET Item, got : Nat,
        pageNo : Nat \ {0}, more : BOOLEAN, cap : Nat, limit : Nat, shared : BOOLEAN]

FetchTypeOK ==
    /\ clock \in Nat
    /\ github \in [PRs -> Nat] /\ cached \in [PRs -> Nat]
    /\ cursor \in Nat /\ ceiling \in Nat /\ lastSync \in Nat
    /\ run \in [Syncers -> Run] /\ \A s \in Syncers : IsFiniteSet(run[s].page)
    /\ disturbed \in BOOLEAN

\* No version is ahead of the clock or shared, and no row is ahead of GitHub.
VersionsOK ==
    /\ \A p \in PRs : cached[p] <= github[p] /\ 1 <= github[p] /\ github[p] <= clock
    /\ \A p, q \in PRs : github[p] = github[q] => p = q
    /\ cursor <= clock /\ lastSync <= clock
    /\ \A s \in Syncers : run[s].from <= clock

\* Runs that are under way together have met; a syncer without one is idle.
SharedOK ==
    /\ \A s \in Syncers : ~Busy(s) => run[s] = NoRun
    /\ \A s, q \in Syncers : s # q /\ Busy(s) /\ Busy(q) => run[s].shared

\* What a run has still to store is a version that GitHub has had, and, if it
\* has met no other, not behind its row.
PendingOK ==
    \A s \in Syncers : \A x \in run[s].page :
        /\ 1 <= x[1] /\ x[1] <= github[x[2]]
        /\ ~run[s].shared => cached[x[2]] <= x[1]

FetchInv == FetchTypeOK /\ VersionsOK /\ SharedOK /\ PendingOK

-----------------------------------------------------------------------------
\* Nothing of the listing is cut off: there is no cap, or none that matters,
\* and REST has as many pages as it takes.
NothingIsCutOff ==
    /\ \A c \in Caps : c = 0 \/ Total <= c
    /\ Total <= RESTPages * PageSize

Covered(p) == cached[p] = github[p]
InHand(r, p) == Covered(p) \/ <<github[p], p>> \in r.page

\* No cap and no limit cuts run r off.
Roomy(r) ==
    /\ r.pc \in {"request", "page", "rest"} => r.cap = 0 \/ Total <= r.cap
    /\ r.pc \in {"request", "page"} => Total <= r.limit

\* How far run r has come, if nothing has disturbed it.
RunCovers(r) ==
    /\ \A x \in r.page : x[1] = github[x[2]]
    /\ r.pc = "request" =>
         \A p \in PRs : github[p] <= r.from \/ github[p] < r.since => Covered(p)
    /\ r.pc = "page" =>
         \A p \in PRs : github[p] <= r.from \/ github[p] < r.since \/ ~r.more => InHand(r, p)
    /\ r.pc \in {"request", "page"} =>
         r.got <= Cardinality({x \in Listing : x[1] <= r.from})
    /\ r.pc = "rest" =>
         /\ r.pageNo <= RESTPages
         /\ \A x \in r.page : Rank(x, Listing) <= (r.pageNo - 1) * Page(r)
         /\ \A p \in PRs :
              github[p] < r.since \/ Rank(<<github[p], p>>, Listing) <= (r.pageNo - 1) * Page(r)
                => InHand(r, p)
    /\ r.pc = "rows" => \A p \in PRs : InHand(r, p)
    /\ r.pc \in {"fetched", "done"} => \A p \in PRs : Covered(p)

CursorCovers == \A p \in PRs : github[p] <= lastSync \/ github[p] <= cursor => Covered(p)

SyncCovers ==
    /\ ceiling = 0 \/ Total <= ceiling
    /\ \A s \in Syncers : Roomy(run[s])
    /\ ~disturbed => CursorCovers /\ \A s \in Syncers : RunCovers(run[s])

CoverInv == FetchInv /\ SyncCovers

-----------------------------------------------------------------------------
(***************************************************************************)
(* Listings: a page is closed towards older items, and the ranks of a      *)
(* listing are the numbers from 1 to its length.                           *)
(***************************************************************************)

\* The oldest n items of a listing are all of it if it has no more, and with
\* an item they have everything older.
LEMMA OldestItems ==
    ASSUME NEW S \in SUBSET Item, IsFiniteSet(S), NEW n \in Int
    PROVE  /\ \A x \in S : Rank(x, S) \in Nat /\ Rank(x, S) <= Cardinality(S)
           /\ \A x, y \in S : y[1] <= x[1] => Rank(y, S) <= Rank(x, S)
           /\ Cardinality(S) <= n => Oldest(n, S) = S
           /\ Oldest(n, S) \in SUBSET S /\ IsFiniteSet(Oldest(n, S))
           /\ Cardinality(Oldest(n, S)) \in Nat
           /\ Cardinality(S) \in Nat /\ Cardinality(Oldest(n, S)) <= Cardinality(S)
<1> DEFINE Upto(x) == {y \in S : y[1] <= x[1]}
<1>1. \A x \in S : Upto(x) \in SUBSET S /\ IsFiniteSet(Upto(x))
  BY FS_Subset
<1>2. \A x \in S : Cardinality(Upto(x)) \in Nat /\ Cardinality(Upto(x)) <= Cardinality(S)
  BY <1>1, FS_Subset, FS_CardinalityType
<1>3. \A x, y \in S : y[1] <= x[1] => Cardinality(Upto(y)) <= Cardinality(Upto(x))
  <2> TAKE x, y \in S
  <2> HAVE y[1] <= x[1]
  <2>1. \A z \in S : z[1] \in Nat
    BY DEF Item
  <2>2. Upto(y) \in SUBSET Upto(x)
    BY <2>1
  <2> QED BY <2>2, <1>1, FS_Subset
<1>4. Oldest(n, S) \in SUBSET S /\ IsFiniteSet(Oldest(n, S))
  BY FS_Subset DEF Oldest
<1>5. Cardinality(S) \in Nat
  BY FS_CardinalityType
<1>6. Cardinality(S) <= n => Oldest(n, S) = S
  BY <1>2, <1>5 DEF Oldest, Rank
<1>7. Cardinality(Oldest(n, S)) \in Nat /\ Cardinality(Oldest(n, S)) <= Cardinality(S)
  BY <1>4, FS_CardinalityType, FS_Subset
<1> QED BY <1>2, <1>3, <1>4, <1>5, <1>6, <1>7 DEF Rank

\* The listing has every pull request once, ranked from 1 to Total; a REST
\* page that is followed by an item is full.
LEMMA ListingRanks ==
    ASSUME FetchTypeOK, VersionsOK
    PROVE  /\ Listing \in SUBSET Item /\ IsFiniteSet(Listing)
           /\ Cardinality(Listing) = Total /\ Total \in Nat
           /\ \A x \in Listing : Rank(x, Listing) \in 1..Total
           /\ \A k, s \in Nat \ {0}, x \in Listing :
                k * s < Rank(x, Listing) =>
                s <= Cardinality({y \in Listing : Rank(y, Listing) \in (k - 1) * s + 1 .. k * s})
<1>1. Listing \in SUBSET Item
  BY DEF Listing, Item, FetchTypeOK
<1>2. IsFiniteSet(Listing) /\ Cardinality(Listing) = Total /\ Total \in Nat
  <2> DEFINE f == [p \in PRs |-> <<github[p], p>>]
  <2>1. f \in Bijection(PRs, Listing)
    BY DEF Listing, Bijection, Injection, Surjection, IsInjective
  <2>2. ExistsBijection(PRs, Listing)
    BY <2>1 DEF ExistsBijection
  <2> QED BY <2>2, FetchAssumption, FS_Bijection, FS_CardinalityType DEF Total
<1>3. \A x \in Listing : Rank(x, Listing) \in 1..Total
  <2> TAKE x \in Listing
  <2> DEFINE U == {y \in Listing : y[1] <= x[1]}
  <2>1. x \in U /\ U \in SUBSET Listing
    BY <1>1 DEF Item
  <2>2. IsFiniteSet(U) /\ Cardinality(U) <= Total
    BY <2>1, <1>2, FS_Subset
  <2>3. Cardinality(U) \in Nat
    BY <2>2, FS_CardinalityType
  <2>4. Cardinality(U) # 0
    BY <2>1, <2>2, FS_EmptySet
  <2>5. Rank(x, Listing) = Cardinality(U)
    BY DEF Rank
  <2> HIDE DEF U
  <2> QED BY <2>2, <2>3, <2>4, <2>5, <1>2
<1>4. \A x, y \in Listing : x # y => Rank(x, Listing) # Rank(y, Listing)
  <2>1. SUFFICES ASSUME NEW x \in Listing, NEW y \in Listing, x[1] < y[1]
                 PROVE  Rank(x, Listing) # Rank(y, Listing)
    <3>1. \A x, y \in Listing : x # y => x[1] # y[1]
      BY DEF Listing, VersionsOK
    <3>2. \A x \in Listing : x[1] \in Nat
      BY <1>1 DEF Item
    <3> QED BY <2>1, <3>1, <3>2
  <2> DEFINE U(z) == {w \in Listing : w[1] <= z[1]}
  <2>2. \A z \in Listing : z[1] \in Nat
    BY <1>1 DEF Item
  <2>3. U(x) \in SUBSET U(y) /\ y \in U(y) /\ y \notin U(x)
    BY <2>1, <2>2
  <2>4. IsFiniteSet(U(y))
    BY <1>2, FS_Subset
  <2>5. Cardinality(U(x)) # Cardinality(U(y))
    BY <2>3, <2>4, FS_Subset
  <2> QED BY <2>5 DEF Rank
<1>5. \A m \in 1..Total : \E x \in Listing : Rank(x, Listing) = m
  <2> DEFINE r == [x \in Listing |-> Rank(x, Listing)]
  <2>1. r \in Injection(Listing, 1..Total)
    BY <1>3, <1>4 DEF Injection, IsInjective
  <2>2. IsFiniteSet(1..Total) /\ Cardinality(1..Total) = Total
    BY <1>2, FS_Interval
  <2>3. r \in Surjection(Listing, 1..Total)
    BY <2>1, <2>2, <1>2, FS_Injection
  <2> QED BY <2>3 DEF Surjection
<1>6. ASSUME NEW k \in Nat \ {0}, NEW s \in Nat \ {0}, NEW x \in Listing, k * s < Rank(x, Listing)
      PROVE  s <= Cardinality({y \in Listing : Rank(y, Listing) \in (k - 1) * s + 1 .. k * s})
  <2> DEFINE a == (k - 1) * s + 1
             b == k * s
             N == {y \in Listing : Rank(y, Listing) \in a .. b}
             r == [y \in N |-> Rank(y, Listing)]
  <2>1. a \in Nat /\ b \in Nat /\ 1 <= a /\ a <= b /\ b - a + 1 = s
    <3>1. (k - 1) * s \in Nat
      OBVIOUS
    <3>2. k * s = (k - 1) * s + s
      OBVIOUS
    <3> QED BY <3>1, <3>2
  <2> HIDE DEF a, b
  <2>2. b <= Total
    BY <1>6, <1>3, <1>2, <2>1 DEF b
  <2>3. \A m \in a..b : \E y \in N : r[y] = m
    <3> TAKE m \in a..b
    <3>1. m \in 1..Total
      BY <2>1, <2>2, <1>2
    <3> QED BY <3>1, <1>5
  <2>4. r \in Surjection(N, a..b)
    BY <2>3 DEF Surjection
  <2>5. IsFiniteSet(N)
    BY <1>2, FS_Subset
  <2>6. Cardinality(a..b) <= Cardinality(N)
    BY <2>4, <2>5, FS_Surjection
  <2>7. Cardinality(a..b) = s
    BY <2>1, FS_Interval
  <2> QED BY <2>6, <2>7 DEF a, b
<1> QED BY <1>1, <1>2, <1>3, <1>6

-----------------------------------------------------------------------------
(***************************************************************************)
(* The cache as a replica, for every cap.                                  *)
(***************************************************************************)

\* A first version for every pull request exists.
LEMMA FirstVersionsExist ==
    /\ Total \in Nat
    /\ FirstVersions \in [PRs -> 1..Total]
    /\ \A p, q \in PRs : FirstVersions[p] = FirstVersions[q] => p = q
<1>1. Total \in Nat /\ ExistsBijection(1..Total, PRs)
  BY FetchAssumption, FS_CardinalityType DEF Total
<1>2. ExistsBijection(PRs, 1..Total)
  BY <1>1, Fun_ExistsBijSymmetric
<1>3. \E f \in [PRs -> 1..Total] : \A p, q \in PRs : f[p] = f[q] => p = q
  BY <1>2 DEF ExistsBijection, Bijection, Injection, IsInjective
<1> QED BY <1>1, <1>3 DEF FirstVersions

\* A syncer that takes a step of its run keeps the invariant, if the rows it
\* gets to store were already in its page or are listed now.
LEMMA BecomesKeeps ==
    ASSUME FetchInv, NEW s \in Syncers, Busy(s), NEW r \in Run, Becomes(s, r),
           IsFiniteSet(r.page), r.from <= clock,
           r = NoRun \/ (r.pc # "none" /\ r.shared = run[s].shared),
           \A x \in r.page : x \in run[s].page \/ x \in Listing,
           UNCHANGED <<github, cached>>,
           clock' \in {clock, clock + 1}, lastSync' \in {lastSync, clock'},
           cursor' \in Nat, cursor' <= clock, ceiling' \in Nat, disturbed' \in BOOLEAN
    PROVE  FetchInv'
<1> USE DEF FetchInv
<1>1. /\ run' = [run EXCEPT ![s] = r] /\ run \in [Syncers -> Run] /\ run'[s] = r
      /\ \A q \in Syncers : q # s => run'[q] = run[q]
  BY DEF Becomes, FetchTypeOK
<1>2. clock' \in Nat /\ clock <= clock' /\ lastSync' \in Nat /\ lastSync' <= clock' /\ cursor' <= clock'
  BY DEF FetchTypeOK, VersionsOK
<1>3. FetchTypeOK'
  <2>1. run' \in [Syncers -> Run]
    BY <1>1
  <2>2. \A q \in Syncers : IsFiniteSet(run'[q].page)
    BY <1>1 DEF FetchTypeOK
  <2> QED BY <2>1, <2>2, <1>2 DEF FetchTypeOK
<1>4. VersionsOK'
  <2>1. \A q \in Syncers : run'[q].from <= clock'
    <3> TAKE q \in Syncers
    <3>1. run'[q].from <= clock
      BY <1>1 DEF VersionsOK
    <3>2. run'[q].from \in Nat
      BY <1>3 DEF FetchTypeOK, Run
    <3> QED BY <3>1, <3>2, <1>2 DEF FetchTypeOK
  <2>2. \A p \in PRs : cached'[p] <= github'[p] /\ 1 <= github'[p] /\ github'[p] <= clock'
    BY <1>2 DEF VersionsOK, FetchTypeOK
  <2> QED BY <2>1, <2>2, <1>2 DEF VersionsOK
<1>5. SharedOK'
  <2>1. \A q \in Syncers : q # s => Busy(q)' = Busy(q)
    BY <1>1 DEF Busy
  <2>2. Busy(s)' => r # NoRun
    BY <1>1 DEF Busy, NoRun
  <2>3. \A q \in Syncers : ~Busy(q)' => run'[q] = NoRun
    BY <1>1, <2>1 DEF SharedOK, Busy
  <2>4. \A q, t \in Syncers : q # t /\ Busy(q)' /\ Busy(t)' => run'[q].shared
    BY <1>1, <2>1, <2>2 DEF SharedOK
  <2> QED BY <2>3, <2>4 DEF SharedOK
<1>6. PendingOK'
  <2>1. \A x \in Listing : 1 <= x[1] /\ x[1] <= github[x[2]] /\ cached[x[2]] <= x[1]
    BY DEF Listing, VersionsOK, FetchTypeOK
  <2>2. NoRun.page = {}
    BY DEF NoRun
  <2>3. \A x \in r.page : 1 <= x[1] /\ x[1] <= github[x[2]] /\ (~r.shared => cached[x[2]] <= x[1])
    BY <2>1, <2>2 DEF PendingOK
  <2> QED BY <2>3, <1>1 DEF PendingOK
<1> QED BY <1>3, <1>4, <1>5, <1>6

\* So does a syncer that starts, with nothing in its page.
LEMMA StartKeeps ==
    ASSUME FetchInv, NEW s \in Syncers, ~Busy(s), NEW r \in Run, Start(s, r),
           r.pc # "none", r.page = {}, r.from <= clock,
           UNCHANGED <<clock, github, cached, cursor, ceiling, lastSync>>, disturbed' \in BOOLEAN
    PROVE  FetchInv'
<1> USE DEF FetchInv
<1>1. /\ run' = [q \in Syncers |-> IF q = s THEN [r EXCEPT !.shared = Running]
                                          ELSE [run[q] EXCEPT !.shared = Busy(q)]]
      /\ run \in [Syncers -> Run] /\ Running \in BOOLEAN /\ \A q \in Syncers : Busy(q) \in BOOLEAN
  BY DEF Start, FetchTypeOK, Running, Busy
<1>2. run'[s] \in Run /\ run'[s].pc = r.pc /\ run'[s].page = {} /\ run'[s].from = r.from
      /\ run'[s].shared = Running
  BY <1>1 DEF Run
<1>3. ASSUME NEW q \in Syncers, q # s
      PROVE  /\ run'[q] \in Run /\ run'[q].pc = run[q].pc /\ run'[q].page = run[q].page
             /\ run'[q].from = run[q].from /\ run'[q].shared = Busy(q)
  BY <1>1, <1>3 DEF Run
<1>4. FetchTypeOK'
  <2>1. run' \in [Syncers -> Run]
    BY <1>1, <1>2, <1>3
  <2>2. \A q \in Syncers : IsFiniteSet(run'[q].page)
    BY <1>2, <1>3, FS_EmptySet DEF FetchTypeOK
  <2> QED BY <2>1, <2>2 DEF FetchTypeOK
<1>5. VersionsOK'
  BY <1>2, <1>3 DEF VersionsOK
<1>6. SharedOK'
  <2>1. ASSUME NEW q \in Syncers, ~Busy(q)' PROVE run'[q] = NoRun
    <3>1. q # s
      BY <2>1, <1>2 DEF Busy
    <3>2. ~Busy(q) /\ run[q] = NoRun
      BY <3>1, <2>1, <1>3 DEF Busy, SharedOK
    <3>3. run'[q] = [NoRun EXCEPT !.shared = FALSE]
      BY <1>1, <3>1, <3>2
    <3> QED BY <3>3 DEF NoRun
  <2>2. ASSUME NEW q \in Syncers, NEW t \in Syncers, q # t, Busy(q)', Busy(t)'
        PROVE  run'[q].shared
    <3>1. CASE q = s
      <4>1. Busy(t)
        BY <3>1, <2>2, <1>3 DEF Busy
      <4> QED BY <3>1, <4>1, <1>2 DEF Running
    <3>2. CASE q # s
      BY <3>2, <2>2, <1>3 DEF Busy
    <3> QED BY <3>1, <3>2
  <2> QED BY <2>1, <2>2 DEF SharedOK
<1>7. PendingOK'
  <2>1. ASSUME NEW q \in Syncers, NEW x \in run'[q].page
        PROVE  /\ 1 <= x[1] /\ x[1] <= github'[x[2]]
               /\ ~run'[q].shared => cached'[x[2]] <= x[1]
    <3>1. q # s /\ x \in run[q].page
      BY <2>1, <1>2, <1>3
    <3>2. Busy(q)
      BY <3>1 DEF SharedOK, NoRun
    <3> QED BY <3>1, <3>2, <1>3 DEF PendingOK
  <2> QED BY <2>1 DEF PendingOK
<1> QED BY <1>4, <1>5, <1>6, <1>7
THEOREM FetchInvariance == FetchSpec => []FetchInv
<1>1. FetchInit => FetchInv
  <2> SUFFICES ASSUME FetchInit PROVE FetchInv
    OBVIOUS
  <2>1. NoRun \in Run /\ NoRun.page = {} /\ NoRun.from = 0 /\ NoRun.pc = "none" /\ IsFiniteSet({})
    BY FS_EmptySet DEF NoRun, Run, Item
  <2>a. FirstVersions \in [PRs -> Nat]
    BY FirstVersionsExist
  <2>b. \A s \in Syncers : run[s] = NoRun
    BY DEF FetchInit
  <2>2. FetchTypeOK
    BY <2>1, <2>a, <2>b, FirstVersionsExist DEF FetchTypeOK, FetchInit
  <2>3. VersionsOK
    BY <2>1, <2>b, FirstVersionsExist DEF VersionsOK, FetchInit
  <2>4. SharedOK /\ PendingOK
    BY <2>1, <2>b DEF SharedOK, PendingOK, Busy
  <2> QED BY <2>2, <2>3, <2>4 DEF FetchInv
<1>2. FetchInv /\ [FetchNext]_fetchVars => FetchInv'
  <2> SUFFICES ASSUME FetchInv, [FetchNext]_fetchVars PROVE FetchInv'
    OBVIOUS
  <2>a. Total \in Nat
    BY FirstVersionsExist
  <2>b. NoRun \in Run /\ NoRun.page = {} /\ NoRun.from = 0 /\ NoRun.pc = "none" /\ IsFiniteSet({})
    BY FS_EmptySet DEF NoRun, Run, Item
  <2>c. /\ clock \in Nat /\ cursor \in Nat /\ cursor <= clock /\ ceiling \in Nat /\ lastSync \in Nat
        /\ disturbed \in BOOLEAN /\ 0 <= clock
    BY DEF FetchInv, FetchTypeOK, VersionsOK
  <2>d. \A s \in Syncers : run[s] \in Run /\ IsFiniteSet(run[s].page) /\ run[s].from <= clock
    BY DEF FetchInv, FetchTypeOK, VersionsOK
  <2>e. ASSUME NEW s \in Syncers, NEW r \in Run, NEW items \in SUBSET Item,
               NEW pc \in {"rest", "rows", "fetched", "done"}
        PROVE  /\ RunAt(pc, r, items) \in Run /\ RunAt(pc, r, items).page = items
               /\ RunAt(pc, r, items).from = 0 /\ RunAt(pc, r, items).pc = pc
               /\ RunAt(pc, r, items).shared = r.shared /\ RunAt(pc, r, items).cap = 0
    BY <2>b DEF RunAt, Run, NoRun
  <2>1. ASSUME NEW s \in Syncers, StartSync(s) PROVE FetchInv'
    <3> DEFINE since == IF cursor = 0 THEN lastSync ELSE 0
               limit(cap) == IF cap # 0 THEN cap
                             ELSE IF cursor # 0 /\ ceiling # 0 THEN ceiling ELSE Total
    <3>1. PICK cap \in Caps :
            Start(s, [NoRun EXCEPT !.pc = "request", !.from = cursor, !.cap = cap,
                        !.since = since, !.limit = limit(cap)])
      BY <2>1 DEF StartSync
    <3>2. cap \in Nat /\ since \in Nat /\ limit(cap) \in Nat
      BY <2>a, <2>c, FetchAssumption
    <3> HIDE DEF since, limit
    <3>3. PICK r : r = [NoRun EXCEPT !.pc = "request", !.from = cursor, !.cap = cap,
                          !.since = since, !.limit = limit(cap)]
      OBVIOUS
    <3>4. r \in Run /\ r.pc = "request" /\ r.page = {} /\ r.from = cursor
      BY <3>2, <3>3, <2>b, <2>c DEF NoRun, Run
    <3>5. Start(s, r)
      BY <3>1, <3>3 DEF Start
    <3> QED BY <3>4, <3>5, <2>1, <2>c, StartKeeps DEF StartSync
  <2>2. CASE StartNothing
    <3>1. PICK r : r = [NoRun EXCEPT !.pc = "done"]
      OBVIOUS
    <3>2. r \in Run /\ r.pc = "done" /\ r.page = {} /\ r.from = 0
      BY <3>1, <2>b DEF NoRun, Run
    <3>3. Start(Command, r) /\ Command \in Syncers
      BY <2>2, <3>1 DEF StartNothing, Start, Syncers
    <3> QED BY <3>2, <3>3, <2>2, <2>c, StartKeeps DEF StartNothing
  <2>3. ASSUME NEW s \in Syncers, FetchPage(s) PROVE FetchInv'
    <3> PICK r \in Run : r = run[s]
      BY <2>d
    <3> DEFINE behind == Behind(r.from, Listing)
               nodes  == Oldest(Page(r), behind)
               fresh  == Fresh(r, nodes)
               kept   == Oldest(r.limit - r.got, fresh)
               got    == r.got + Cardinality(kept)
               more   == Cardinality(behind) > Page(r) /\ got < r.limit
    <3>1. PICK end \in IF nodes = {} THEN {r.from}
                       ELSE {x[1] : x \in {x \in nodes : \A y \in nodes : y[1] <= x[1]}} :
            Becomes(s, [r EXCEPT !.pc = "page", !.page = kept, !.got = got, !.from = end, !.more = more])
      BY <2>3 DEF FetchPage
    <3>2. Page(r) \in Nat /\ r.limit \in Int /\ r.got \in Nat
      BY FetchAssumption DEF Page, Run
    <3>3. behind \in SUBSET Listing /\ behind \in SUBSET Item /\ IsFiniteSet(behind)
      BY ListingRanks, FS_Subset DEF Behind, FetchInv
    <3>4. nodes \in SUBSET behind /\ IsFiniteSet(nodes)
      BY <3>2, <3>3, OldestItems
    <3>5. fresh \in SUBSET nodes /\ IsFiniteSet(fresh)
      BY <3>4, FS_Subset DEF Fresh
    <3>6. kept \in SUBSET fresh /\ IsFiniteSet(kept) /\ Cardinality(kept) \in Nat
      BY <3>2, <3>3, <3>4, <3>5, OldestItems
    <3>7. kept \in SUBSET Listing /\ kept \in SUBSET Item /\ IsFiniteSet(kept)
      BY <3>3, <3>4, <3>5, <3>6
    <3>8. end \in Nat /\ end <= clock
      <4>1. \A x \in Listing : x[1] \in Nat /\ x[1] <= clock
        BY DEF Listing, VersionsOK, FetchTypeOK, FetchInv
      <4>2. r.from \in Nat /\ r.from <= clock
        BY <2>d DEF Run
      <4> HIDE DEF nodes, behind
      <4> QED BY <3>1, <3>3, <3>4, <4>1, <4>2
    <3> HIDE DEF kept, nodes, behind, got, fresh
    <3>9. got \in Nat /\ more \in BOOLEAN
      BY <3>2, <3>6 DEF got
    <3> HIDE DEF more
    <3>10. PICK n : n = [r EXCEPT !.pc = "page", !.page = kept, !.got = got, !.from = end, !.more = more]
      OBVIOUS
    <3>11. n \in Run /\ n.page = kept /\ n.from = end /\ n.pc = "page" /\ n.shared = r.shared
      BY <3>10, <3>7, <3>8, <3>9 DEF Run
    <3>12. Becomes(s, n) /\ Busy(s)
      BY <3>1, <3>10, <2>3 DEF Becomes, FetchPage, Busy
    <3>13. cursor' \in {cursor, 0} /\ ceiling' \in {ceiling, r.limit, Total}
           /\ UNCHANGED <<clock, github, cached, lastSync, disturbed>>
      BY <2>3 DEF FetchPage
    <3>14. cursor' \in Nat /\ cursor' <= clock /\ ceiling' \in Nat
      BY <3>13, <2>a, <2>c DEF Run
    <3> QED BY <3>7, <3>8, <3>11, <3>12, <3>13, <3>14, <2>c, BecomesKeeps
  <2>4. ASSUME NEW s \in Syncers, FetchErrors(s) PROVE FetchInv'
    <3>1. PICK r : r = [run[s] EXCEPT !.pc = "page", !.page = {}, !.more = FALSE]
      OBVIOUS
    <3>2. r \in Run /\ r.page = {} /\ r.from = run[s].from /\ r.pc = "page" /\ r.shared = run[s].shared
      BY <3>1, <2>d DEF Run
    <3>3. Becomes(s, r) /\ Busy(s)
      BY <2>4, <3>1 DEF FetchErrors, Becomes, Busy
    <3> QED BY <2>4, <3>2, <3>3, <2>b, <2>c, <2>d, BecomesKeeps DEF FetchErrors
  <2>5. ASSUME NEW s \in Syncers, StorePR(s) PROVE FetchInv'
    <3> PICK r \in Run : r = run[s]
      BY <2>d
    <3>1. PICK item \in r.page :
            /\ \A other \in r.page : item[1] <= other[1]
            /\ Upsert(item)
            /\ run' = [run EXCEPT ![s] = [r EXCEPT !.page = @ \ {item}]]
      BY <2>5 DEF StorePR, Becomes
    <3>2. r.page \in SUBSET Item /\ item \in Item /\ IsFiniteSet(r.page \ {item})
      BY <3>1, <2>d, FS_Subset DEF Run
    <3>3. item[1] \in Nat /\ item[2] \in PRs
      BY <3>2 DEF Item
    <3>4. PICK n : n = [r EXCEPT !.page = @ \ {item}]
      OBVIOUS
    <3>5. n \in Run /\ n.page = r.page \ {item} /\ n.from = r.from /\ n.pc = r.pc /\ n.shared = r.shared
      BY <3>4 DEF Run
    <3>6. /\ cached' = [cached EXCEPT ![item[2]] = item[1]]
          /\ UNCHANGED <<clock, github, cursor, ceiling, lastSync, disturbed>>
          /\ Busy(s)
      BY <2>5, <3>1 DEF StorePR, Upsert, Busy
    <3>7. /\ run \in [Syncers -> Run] /\ run'[s] = n /\ run' \in [Syncers -> Run]
          /\ \A q \in Syncers : q # s => run'[q] = run[q]
      BY <3>1, <3>4, <3>5 DEF FetchInv, FetchTypeOK
    <3>8. FetchTypeOK'
      <4>1. \A q \in Syncers : IsFiniteSet(run'[q].page)
        BY <3>2, <3>5, <3>7, <2>d
      <4> QED BY <3>3, <3>6, <3>7, <4>1 DEF FetchInv, FetchTypeOK
    <3>9. VersionsOK'
      <4>1. item[1] <= github[item[2]]
        BY <3>1 DEF FetchInv, PendingOK
      <4>2. \A q \in Syncers : run'[q].from <= clock'
        BY <3>5, <3>6, <3>7, <2>d
      <4>3. \A p \in PRs : cached'[p] <= github'[p]
        BY <3>3, <3>6, <4>1 DEF FetchInv, VersionsOK, FetchTypeOK
      <4> QED BY <4>2, <4>3, <3>6 DEF FetchInv, VersionsOK
    <3>10. SharedOK'
      <4>1. \A q \in Syncers : Busy(q)' = Busy(q) /\ run'[q].shared = run[q].shared
        BY <3>5, <3>7 DEF Busy
      <4>2. \A q \in Syncers : ~Busy(q)' => run'[q] = NoRun
        BY <3>6, <3>7, <4>1 DEF FetchInv, SharedOK
      <4> QED BY <4>1, <4>2 DEF FetchInv, SharedOK
    <3>11. PendingOK'
      <4>1. ASSUME NEW q \in Syncers, NEW x \in run'[q].page
            PROVE  /\ 1 <= x[1] /\ x[1] <= github'[x[2]]
                   /\ ~run'[q].shared => cached'[x[2]] <= x[1]
        <5>1. /\ x \in run[q].page /\ x[1] \in Nat /\ x[2] \in PRs
              /\ run'[q].shared = run[q].shared
          BY <4>1, <3>5, <3>7, <2>d DEF Run, Item
        <5>2. 1 <= x[1] /\ x[1] <= github[x[2]] /\ (~run[q].shared => cached[x[2]] <= x[1])
          BY <5>1 DEF FetchInv, PendingOK
        <5>3. CASE q = s
          <6>1. item[1] <= x[1]
            BY <5>1, <5>3, <3>1
          <6> QED BY <6>1, <5>1, <5>2, <3>3, <3>6 DEF FetchInv, FetchTypeOK
        <5>4. CASE q # s
          <6>1. Busy(q)
            BY <5>1, <2>b DEF FetchInv, SharedOK
          <6>2. run[q].shared
            BY <6>1, <5>4, <3>6 DEF FetchInv, SharedOK
          <6> QED BY <6>2, <5>1, <5>2, <3>6
        <5> QED BY <5>3, <5>4
      <4> QED BY <4>1 DEF PendingOK
    <3> QED BY <3>8, <3>9, <3>10, <3>11 DEF FetchInv
  <2>6. ASSUME NEW s \in Syncers, NextPage(s) PROVE FetchInv'
    <3> PICK r \in Run : r = run[s]
      BY <2>d
    <3>1. PICK n : n = IF r.more THEN [r EXCEPT !.pc = "request"] ELSE RunAt("fetched", r, {})
      OBVIOUS
    <3>a. r.page = {} /\ r.from \in Nat /\ r.limit \in Nat /\ {} \in SUBSET Item
      BY <2>6 DEF NextPage, Run
    <3>2. /\ n \in Run /\ n.page = {} /\ n.from \in {r.from, 0}
          /\ n.pc # "none" /\ n.shared = r.shared
      <4>1. CASE r.more
        BY <4>1, <3>1, <3>a DEF Run
      <4>2. CASE ~r.more
        BY <4>2, <3>1, <3>a, <2>e
      <4> QED BY <4>1, <4>2
    <3>3. Becomes(s, n) /\ Busy(s)
      BY <2>6, <3>1 DEF NextPage, Becomes, Busy
    <3>4. cursor' \in {r.from, cursor} /\ ceiling' \in {ceiling, r.limit, Total}
          /\ UNCHANGED <<clock, github, cached, lastSync, disturbed>>
      BY <2>6 DEF NextPage
    <3>5. cursor' \in Nat /\ cursor' <= clock /\ ceiling' \in Nat /\ n.from <= clock
      BY <3>2, <3>4, <3>a, <2>a, <2>c, <2>d
    <3> QED BY <3>2, <3>3, <3>4, <3>5, <2>b, <2>c, BecomesKeeps
  <2>7. ASSUME NEW s \in Syncers, FallBackToREST(s) PROVE FetchInv'
    <3> PICK r \in Run : r = run[s]
      BY <2>d
    <3>1. PICK n : n = [RunAt("rest", r, {}) EXCEPT !.since = r.since, !.cap = r.cap]
      OBVIOUS
    <3>a. {} \in SUBSET Item /\ r.since \in Nat /\ r.cap \in Nat
      BY DEF Run
    <3>b. PICK a : a = RunAt("rest", r, {})
      OBVIOUS
    <3>c. a \in Run /\ a.page = {} /\ a.from = 0 /\ a.pc = "rest" /\ a.shared = r.shared
      BY <3>a, <3>b, <2>e
    <3>d. n = [a EXCEPT !.since = r.since, !.cap = r.cap]
      BY <3>1, <3>b
    <3>2. n \in Run /\ n.page = {} /\ n.from = 0 /\ n.pc # "none" /\ n.shared = r.shared
      BY <3>a, <3>c, <3>d DEF Run
    <3>3. Becomes(s, n) /\ Busy(s)
      BY <2>7, <3>1 DEF FallBackToREST, Becomes, Busy
    <3> QED BY <2>7, <3>2, <3>3, <2>b, <2>c, BecomesKeeps DEF FallBackToREST
  <2>8. ASSUME NEW s \in Syncers, FetchRESTPage(s) PROVE FetchInv'
    <3> PICK r \in Run : r = run[s]
      BY <2>d
    <3>1. RESTNodes(r) \in SUBSET Listing /\ IsFiniteSet(RESTNodes(r))
      BY ListingRanks, FS_Subset DEF RESTNodes, FetchInv
    <3> DEFINE fresh == Fresh(r, RESTNodes(r))
    <3>2. fresh \in SUBSET RESTNodes(r) /\ IsFiniteSet(fresh) /\ fresh \in SUBSET Item
      BY <3>1, ListingRanks, FS_Subset DEF Fresh, FetchInv
    <3>3. r.cap - Cardinality(r.page) \in Int
      BY <2>d, FS_CardinalityType DEF Run
    <3>4. Oldest(r.cap - Cardinality(r.page), fresh) \in SUBSET fresh
          /\ IsFiniteSet(Oldest(r.cap - Cardinality(r.page), fresh))
      BY <3>2, <3>3, OldestItems
    <3>5. RESTKept(r) \in SUBSET (r.page \cup Listing) /\ IsFiniteSet(RESTKept(r))
      BY <3>1, <3>2, <3>4, <2>d, FS_Union DEF RESTKept
    <3>6. RESTKept(r) \in SUBSET Item
      BY <3>5, ListingRanks DEF Run, FetchInv
    <3>7. PICK n : n = IF RESTEnds(r) THEN RunAt("rows", r, RESTKept(r))
                       ELSE [r EXCEPT !.pageNo = @ + 1, !.page = RESTKept(r)]
      OBVIOUS
    <3>8. r.pageNo + 1 \in Nat \ {0} /\ r.pc = "rest"
      BY <2>8 DEF Run, FetchRESTPage
    <3>9. /\ n \in Run /\ n.page = RESTKept(r) /\ n.from \in {r.from, 0}
          /\ n.pc # "none" /\ n.shared = r.shared
      <4>1. CASE RESTEnds(r)
        BY <4>1, <3>6, <3>7, <2>e
      <4>2. CASE ~RESTEnds(r)
        BY <4>2, <3>6, <3>7, <3>8 DEF Run
      <4> QED BY <4>1, <4>2
    <3>10. Becomes(s, n) /\ Busy(s)
      BY <2>8, <3>7 DEF FetchRESTPage, Becomes, Busy
    <3>11. n.from <= clock
      BY <3>9, <2>c, <2>d
    <3> QED BY <2>8, <3>5, <3>9, <3>10, <3>11, <2>c, BecomesKeeps DEF FetchRESTPage
  <2>9. ASSUME NEW s \in Syncers, RESTRowFails(s) PROVE FetchInv'
    <3>1. PICK r : r = [run[s] EXCEPT !.page = {}]
      OBVIOUS
    <3>2. r \in Run /\ r.page = {} /\ r.from = run[s].from /\ r.pc = run[s].pc /\ r.shared = run[s].shared
      BY <3>1, <2>d DEF Run
    <3>3. Becomes(s, r) /\ Busy(s) /\ r.pc # "none"
      BY <2>9, <3>1, <3>2 DEF RESTRowFails, Becomes, Busy
    <3> QED BY <2>9, <3>2, <3>3, <2>b, <2>c, <2>d, BecomesKeeps DEF RESTRowFails
  <2>10. ASSUME NEW s \in Syncers, RESTStored(s) PROVE FetchInv'
    <3> PICK r \in Run : r = run[s]
      BY <2>d
    <3>1. PICK n : n = RunAt("fetched", r, {})
      OBVIOUS
    <3>2. n \in Run /\ n.page = {} /\ n.from = 0 /\ n.pc # "none" /\ n.shared = r.shared
      BY <3>1, <2>e DEF Run
    <3>3. Becomes(s, n) /\ Busy(s)
      BY <2>10, <3>1 DEF RESTStored, Becomes, Busy
    <3> QED BY <2>10, <3>2, <3>3, <2>b, <2>c, BecomesKeeps DEF RESTStored
  <2>11. CASE LastProgress
    <3>1. PICK r : r = [run[Command] EXCEPT !.pc = "done"]
      OBVIOUS
    <3>2. r \in Run /\ r.page = run[Command].page /\ r.from = run[Command].from /\ r.pc = "done"
          /\ r.shared = run[Command].shared /\ Command \in Syncers
      BY <3>1, <2>d DEF Run, Syncers
    <3>3. Becomes(Command, r) /\ Busy(Command)
      BY <2>11, <3>1 DEF LastProgress, Becomes, Busy
    <3>4. cursor' = 0 /\ UNCHANGED <<clock, github, cached, ceiling, lastSync, disturbed>>
      BY <2>11 DEF LastProgress
    <3> QED BY <3>2, <3>3, <3>4, <2>c, <2>d, BecomesKeeps
  <2>12. CASE CompleteSync
    <3>1. PICK r : r = NoRun
      OBVIOUS
    <3>2. Becomes(Command, r) /\ Busy(Command) /\ Command \in Syncers
      BY <2>12, <3>1 DEF CompleteSync, Becomes, Busy, Syncers
    <3>3. clock' = clock + 1 /\ lastSync' = clock' /\ UNCHANGED <<github, cached, cursor, ceiling, disturbed>>
      BY <2>12 DEF CompleteSync
    <3> QED BY <3>1, <3>2, <3>3, <2>b, <2>c, BecomesKeeps
  <2>13. ASSUME NEW s \in Syncers, ServedSyncEnds(s) \/ AbortSync(s) PROVE FetchInv'
    <3>1. PICK r : r = NoRun
      OBVIOUS
    <3>2. Becomes(s, r) /\ Busy(s) /\ UNCHANGED <<clock, github, cached, cursor, ceiling, lastSync, disturbed>>
      BY <2>13, <3>1 DEF ServedSyncEnds, AbortSync, Becomes, Busy
    <3> QED BY <3>1, <3>2, <2>b, <2>c, BecomesKeeps
  <2>14. CASE NewJob
    BY <2>14, <2>c DEF NewJob, FetchInv, FetchTypeOK, VersionsOK, SharedOK, PendingOK, Busy
  <2>15. ASSUME NEW p \in PRs, Update(p) PROVE FetchInv'
    <3>1. clock' = clock + 1 /\ github' = [github EXCEPT ![p] = clock + 1]
          /\ disturbed' \in BOOLEAN /\ UNCHANGED <<cached, cursor, ceiling, lastSync, run>>
      BY <2>15, <2>c DEF Update, Running
    <3>2. FetchTypeOK'
      BY <3>1 DEF FetchInv, FetchTypeOK
    <3>3. VersionsOK'
      <4>1. \A s \in Syncers : run'[s].from <= clock'
        <5> TAKE s \in Syncers
        <5>1. run[s].from \in Nat /\ run[s].from <= clock
          BY <2>d DEF Run
        <5> QED BY <5>1, <3>1, <2>c
      <4> QED BY <4>1, <3>1 DEF VersionsOK, FetchInv, FetchTypeOK
    <3>4. \A s \in Syncers : \A x \in run[s].page : x[1] \in Nat /\ x[2] \in PRs
      BY <2>d DEF Run, Item
    <3>5. \A q \in PRs : github[q] <= github'[q] /\ github[q] \in Nat /\ github'[q] \in Nat
      BY <3>1 DEF VersionsOK, FetchInv, FetchTypeOK
    <3>6. PendingOK'
      BY <3>1, <3>4, <3>5 DEF FetchInv, PendingOK
    <3>7. SharedOK'
      BY <3>1 DEF FetchInv, SharedOK, Busy
    <3> QED BY <3>2, <3>3, <3>6, <3>7 DEF FetchInv
  <2>16. CASE UNCHANGED fetchVars
    BY <2>16 DEF fetchVars, FetchInv, FetchTypeOK, VersionsOK, SharedOK, PendingOK, Busy
  <2> QED BY <2>1, <2>2, <2>3, <2>4, <2>5, <2>6, <2>7, <2>8, <2>9, <2>10, <2>11, <2>12, <2>13, <2>14,
             <2>15, <2>16 DEF FetchNext, SyncStep
<1> QED BY <1>1, <1>2, PTL DEF FetchSpec

\* The cache implements the abstract replica (Store.UpsertPR behind both
\* listings): every stored version is one that GitHub has had, and no page,
\* fallback, crash or retry puts an older version over a newer one, unless a
\* run of serve has met another run.
THEOREM CacheIsReplica == FetchSpec => RefinesReplica
<1>1. FetchInit => AbstractReplica!RInit
  <2> SUFFICES ASSUME FetchInit PROVE AbstractReplica!RInit
    OBVIOUS
  <2> QED BY FirstVersionsExist DEF FetchInit, AbstractReplica!RInit
<1>2. FetchInv /\ [FetchNext]_fetchVars
        => [AbstractReplica!Publish \/ AbstractReplica!Pull]_<<github, cached>>
  <2> SUFFICES ASSUME FetchInv, [FetchNext]_fetchVars, ~UNCHANGED <<github, cached>>
               PROVE  AbstractReplica!Publish \/ AbstractReplica!Pull
    OBVIOUS
  <2>1. ASSUME NEW s \in Syncers, StorePR(s) PROVE AbstractReplica!Pull
    <3>1. PICK item \in run[s].page : Upsert(item)
      BY <2>1 DEF StorePR
    <3>2. item[1] \in Nat /\ item[2] \in PRs
      BY <3>1 DEF FetchInv, FetchTypeOK, Run, Item
    <3>3. /\ 1 <= item[1] /\ item[1] <= github[item[2]]
          /\ ~run[s].shared => cached[item[2]] <= item[1]
      BY <3>1 DEF FetchInv, PendingOK
    <3>4. ~Crowded => cached[item[2]] <= item[1]
      BY <3>3 DEF Crowded
    <3>5. \A p \in PRs : cached'[p] \in (IF Crowded THEN 1 ELSE cached[p])..github[p]
                         \/ cached'[p] = cached[p]
      <4>1. \A p \in PRs : cached[p] \in Nat /\ github[p] \in Nat
                            /\ cached'[p] = IF p = item[2] THEN item[1] ELSE cached[p]
        BY <3>1, <3>2 DEF Upsert, FetchInv, FetchTypeOK
      <4> QED BY <4>1, <3>2, <3>3, <3>4
    <3> QED BY <2>1, <3>5 DEF StorePR, AbstractReplica!Pull
  <2>2. ASSUME NEW p \in PRs, Update(p) PROVE AbstractReplica!Publish
    BY <2>2 DEF Update, AbstractReplica!Publish, FetchInv, FetchTypeOK, VersionsOK
  <2> QED BY <2>1, <2>2 DEF FetchNext, SyncStep, fetchVars, StartSync, StartNothing, FetchPage, FetchErrors,
            NextPage, FallBackToREST, FetchRESTPage, RESTRowFails, RESTStored, LastProgress, CompleteSync,
            ServedSyncEnds, AbortSync, NewJob
<1>3. QED BY <1>1, <1>2, FetchInvariance, PTL DEF FetchSpec, RefinesReplica, AbstractReplica!RSpec
-----------------------------------------------------------------------------
(***************************************************************************)
(* What a sync that nothing cuts off has covered.                          *)
(***************************************************************************)

\* A run that takes no step still covers what it did.
LEMMA StillCovers ==
    ASSUME NEW r, RunCovers(r), UNCHANGED github, \A p \in PRs : Covered(p) => Covered(p)'
    PROVE  RunCovers(r)'
<1>1. \A p \in PRs : InHand(r, p) => InHand(r, p)'
  BY DEF InHand
<1>2. Listing' = Listing
  BY DEF Listing
<1> QED BY <1>1, <1>2 DEF RunCovers

\* A syncer that takes a step of its run has to show what its own run covers.
LEMMA BecomesCovers ==
    ASSUME FetchInv, SyncCovers, NEW s \in Syncers, NEW r, Becomes(s, r), Roomy(r),
           UNCHANGED github, ceiling' = 0 \/ Total <= ceiling', disturbed => disturbed',
           ~disturbed' => /\ CursorCovers' /\ RunCovers(r)'
                          /\ \A p \in PRs : Covered(p) => Covered(p)'
    PROVE  SyncCovers'
<1>1. run'[s] = r /\ \A q \in Syncers : q # s => run'[q] = run[q]
  BY DEF Becomes, FetchInv, FetchTypeOK
<1>2. \A q \in Syncers : Roomy(run'[q])
  BY <1>1 DEF SyncCovers
<1>3. ASSUME ~disturbed', NEW q \in Syncers PROVE RunCovers(run[q])'
  <2>1. CASE q = s
    BY <2>1, <1>1, <1>3 DEF RunCovers, InHand
  <2>2. CASE q # s
    <3> PICK t : t = run[q]
      OBVIOUS
    <3>1. RunCovers(t)
      BY <1>3 DEF SyncCovers
    <3>2. RunCovers(t)'
      BY <3>1, <1>3, StillCovers
    <3>3. t = run'[q]
      BY <2>2, <1>1
    <3> QED BY <3>2, <3>3
  <2> QED BY <2>1, <2>2
<1> QED BY <1>2, <1>3 DEF SyncCovers

THEOREM CoverInvariance ==
    ASSUME NothingIsCutOff
    PROVE  FetchSpec => []CoverInv
<1>1. FetchInit => SyncCovers
  <2> SUFFICES ASSUME FetchInit PROVE SyncCovers
    OBVIOUS
  <2>1. \A p \in PRs : 1 <= github[p] /\ github[p] \in Nat
    BY FirstVersionsExist DEF FetchInit
  <2>2. \A s \in Syncers : run[s] = NoRun
    BY DEF FetchInit
  <2>3. CursorCovers
    BY <2>1 DEF CursorCovers, FetchInit
  <2> QED BY <2>2, <2>3 DEF FetchInit, SyncCovers, Roomy, RunCovers, NoRun
<1>2. FetchInv /\ FetchInv' /\ SyncCovers /\ [FetchNext]_fetchVars => SyncCovers'
  <2> SUFFICES ASSUME FetchInv, FetchInv', SyncCovers, [FetchNext]_fetchVars
               PROVE  SyncCovers'
    OBVIOUS
  <2>a. /\ Listing \in SUBSET Item /\ IsFiniteSet(Listing)
        /\ Cardinality(Listing) = Total /\ Total \in Nat
        /\ \A x \in Listing : Rank(x, Listing) \in 1..Total
    BY ListingRanks DEF FetchInv
  <2>b. \A p \in PRs : 1 <= github[p] /\ github[p] \in Nat /\ <<github[p], p>> \in Listing
    BY DEF FetchInv, FetchTypeOK, VersionsOK, Listing
  <2>c. NoRun \in Run /\ NoRun.page = {} /\ NoRun.pc = "none"
    BY DEF NoRun, Run, Item
  <2>d. /\ \A s \in Syncers : run[s] \in Run
        /\ cursor \in Nat /\ lastSync \in Nat /\ ceiling \in Nat /\ clock \in Nat
    BY DEF FetchInv, FetchTypeOK
  <2>e. ASSUME UNCHANGED <<github, cached, cursor, lastSync>>, CursorCovers
        PROVE  CursorCovers' /\ \A p \in PRs : Covered(p) => Covered(p)'
    BY <2>e DEF CursorCovers, Covered
  <2>f. /\ ceiling = 0 \/ Total <= ceiling
        /\ \A s \in Syncers : Roomy(run[s]) /\ (~disturbed => RunCovers(run[s]))
        /\ ~disturbed => CursorCovers
    BY DEF SyncCovers
  <2>g. ASSUME NEW s \in Syncers, NEW r \in Run, Start(s, r), Roomy(r), UNCHANGED <<github, cached, cursor, ceiling, lastSync>>,
               disturbed => disturbed', ~disturbed' => RunCovers(r)'
        PROVE  SyncCovers'
    <3>1. \A q \in Syncers : run'[q] = IF q = s THEN [r EXCEPT !.shared = Running]
                                       ELSE [run[q] EXCEPT !.shared = Busy(q)]
      BY <2>g DEF Start
    <3>2. ASSUME NEW q \in Syncers PROVE Roomy(run'[q])
      <4>1. CASE q = s
        BY <4>1, <3>1, <2>g DEF Roomy, Run
      <4>2. CASE q # s
        BY <4>2, <3>1, <2>d, <2>f DEF Roomy, Run
      <4> QED BY <4>1, <4>2
    <3>3. ASSUME ~disturbed' PROVE CursorCovers' /\ \A p \in PRs : Covered(p) => Covered(p)'
      BY <3>3, <2>e, <2>f, <2>g
    <3>4. ASSUME ~disturbed', NEW q \in Syncers PROVE RunCovers(run[q])'
      <4>1. CASE q = s
        BY <4>1, <3>1, <3>4, <2>g DEF RunCovers, InHand, Page, Run
      <4>2. CASE q # s
        <5> PICK t \in Run : t = run[q]
          BY <2>d
        <5>1. RunCovers(t)'
          BY <3>3, <3>4, <2>f, <2>g, StillCovers
        <5>2. run'[q] = [t EXCEPT !.shared = Busy(q)]
          BY <4>2, <3>1
        <5>3. /\ run'[q].pc = t.pc /\ run'[q].page = t.page /\ run'[q].from = t.from /\ run'[q].got = t.got
              /\ run'[q].since = t.since /\ run'[q].more = t.more /\ run'[q].pageNo = t.pageNo
              /\ run'[q].cap = t.cap
          BY <5>2 DEF Run
        <5> QED BY <5>1, <5>3 DEF RunCovers, InHand, Page
      <4> QED BY <4>1, <4>2
    <3> QED BY <3>2, <3>3, <3>4, <2>f, <2>g DEF SyncCovers
  <2>1. ASSUME NEW s \in Syncers, StartSync(s) PROVE SyncCovers'
    <3> DEFINE since == IF cursor = 0 THEN lastSync ELSE 0
               limit(cap) == IF cap # 0 THEN cap
                             ELSE IF cursor # 0 /\ ceiling # 0 THEN ceiling ELSE Total
    <3>1. PICK cap \in Caps :
            Start(s, [NoRun EXCEPT !.pc = "request", !.from = cursor, !.cap = cap,
                        !.since = since, !.limit = limit(cap)])
      BY <2>1 DEF StartSync
    <3>2. PICK r : r = [NoRun EXCEPT !.pc = "request", !.from = cursor, !.cap = cap,
                          !.since = since, !.limit = limit(cap)]
      OBVIOUS
    <3>3. /\ r.pc = "request" /\ r.from = cursor /\ r.cap = cap /\ r.since = since
          /\ r.page = {} /\ r.got = 0 /\ r.limit = limit(cap)
      BY <3>2 DEF NoRun
    <3>4. UNCHANGED <<clock, github, cached, cursor, ceiling, lastSync, disturbed>> /\ Start(s, r)
      BY <2>1, <3>1, <3>2 DEF StartSync, Start
    <3>5. Roomy(r)
      BY <3>3, <2>a, <2>f, FetchAssumption DEF Roomy, NothingIsCutOff
    <3>6. 0 <= Cardinality({x \in Listing : x[1] <= cursor})
      BY <2>a, FS_Subset, FS_CardinalityType
    <3>7. ~disturbed => \A p \in PRs : github[p] <= cursor \/ github[p] < since => Covered(p)
      <4> SUFFICES ASSUME ~disturbed, NEW p \in PRs, github[p] <= cursor \/ github[p] < since
                   PROVE  Covered(p)
        OBVIOUS
      <4>1. github[p] <= lastSync \/ github[p] <= cursor => Covered(p)
        BY <2>f DEF CursorCovers
      <4>2. github[p] \in Nat /\ 1 <= github[p]
        BY <2>b
      <4> QED BY <4>1, <4>2, <2>d
    <3>8. since \in Nat /\ limit(cap) \in Nat /\ cap \in Nat
      BY <2>a, <2>d, FetchAssumption
    <3> HIDE DEF since, limit
    <3>9. r \in Run
      BY <3>2, <3>8, <2>c, <2>d DEF Run
    <3>10. ~disturbed' => RunCovers(r)'
      BY <3>3, <3>4, <3>6, <3>7 DEF RunCovers, Covered, Listing
    <3> QED BY <3>4, <3>5, <3>9, <3>10, <2>g
  <2>2. CASE StartNothing
    <3>1. PICK r : r = [NoRun EXCEPT !.pc = "done"]
      OBVIOUS
    <3>2. Start(Command, r) /\ Command \in Syncers /\ disturbed' = TRUE
          /\ UNCHANGED <<github, cached, cursor, ceiling, lastSync>>
      BY <2>2, <3>1 DEF StartNothing, Start, Syncers
    <3>3. Roomy(r) /\ r \in Run
      BY <3>1, <2>c DEF Roomy, Run
    <3> QED BY <3>2, <3>3, <2>g
  <2>3. ASSUME NEW s \in Syncers, FetchPage(s) PROVE SyncCovers'
    <3> PICK r \in Run : r = run[s]
      BY <2>d
    <3> DEFINE behind == Behind(r.from, Listing)
               nodes  == Oldest(Page(r), behind)
               fresh  == Fresh(r, nodes)
               kept   == Oldest(r.limit - r.got, fresh)
               got    == r.got + Cardinality(kept)
    <3>1. PICK end \in IF nodes = {} THEN {r.from}
                       ELSE {x[1] : x \in {x \in nodes : \A y \in nodes : y[1] <= x[1]}} :
            Becomes(s, [r EXCEPT !.pc = "page", !.page = kept, !.got = got, !.from = end,
                          !.more = Cardinality(behind) > Page(r) /\ got < r.limit])
      BY <2>3 DEF FetchPage
    <3>2. /\ UNCHANGED <<clock, github, cached, lastSync, disturbed>>
          /\ cursor' \in {cursor, 0}
          /\ ceiling' \in {ceiling, r.limit, Total}
      BY <2>3 DEF FetchPage
    <3>a. PICK n : n = [r EXCEPT !.pc = "page", !.page = kept, !.got = got, !.from = end,
                          !.more = Cardinality(behind) > Page(r) /\ got < r.limit]
      OBVIOUS
    <3>b. Becomes(s, n)
      BY <3>1, <3>a DEF Becomes
    <3>3. /\ n.pc = "page" /\ n.page = kept /\ n.got = got /\ n.from = end
          /\ n.more = (Cardinality(behind) > Page(r) /\ got < r.limit)
          /\ n.cap = r.cap /\ n.limit = r.limit /\ n.since = r.since
      BY <3>a DEF Run
    <3>4. r.pc = "request" /\ Total <= r.limit /\ (r.cap = 0 \/ Total <= r.cap)
      BY <2>3, <2>f DEF FetchPage, Roomy
    <3>5. ceiling' = 0 \/ Total <= ceiling'
      BY <3>2, <3>4, <2>a, <2>d, <2>f
    <3>7. ~disturbed => RunCovers(r)
      BY <2>f
    <3>6. ASSUME ~disturbed
          PROVE  /\ \A p \in PRs : github[p] <= lastSync \/ github[p] <= cursor' => Covered(p)
                 /\ RunCovers(n)'
      <4>1. Page(r) \in Nat /\ r.limit \in Nat /\ r.got \in Nat /\ r.from \in Nat /\ r.since \in Nat
        BY <2>d, FetchAssumption DEF Page, Run
      <4>2. behind \in SUBSET Listing /\ behind \in SUBSET Item /\ IsFiniteSet(behind)
        BY <2>a, FS_Subset DEF Behind
      <4>3. nodes \in SUBSET behind /\ IsFiniteSet(nodes) /\ Cardinality(nodes) \in Nat
            /\ (Cardinality(behind) <= Page(r) => nodes = behind)
            /\ Cardinality(behind) \in Nat
        BY <4>1, <4>2, OldestItems
      <4>4. \A x \in nodes, y \in behind : y[1] <= x[1] => y \in nodes
        <5>1. \A x \in behind : Rank(x, behind) \in Nat
          BY <4>1, <4>2, OldestItems
        <5>2. \A x, y \in behind : y[1] <= x[1] => Rank(y, behind) <= Rank(x, behind)
          BY <4>1, <4>2, OldestItems
        <5>3. \A x \in behind : x \in nodes <=> Rank(x, behind) <= Page(r)
          BY DEF Oldest
        <5> HIDE DEF nodes, behind
        <5> QED BY <5>1, <5>2, <5>3, <4>1, <4>3
      <4>5. fresh \in SUBSET nodes /\ IsFiniteSet(fresh) /\ Cardinality(fresh) <= Cardinality(nodes)
            /\ \A x \in nodes : x[1] >= r.since => x \in fresh
        BY <4>3, FS_Subset DEF Fresh
      <4>6. fresh \in SUBSET Item /\ r.limit - r.got \in Int
        BY <4>1, <4>2, <4>3, <4>5
      <4>7. /\ kept \in SUBSET fresh /\ Cardinality(kept) \in Nat
            /\ Cardinality(fresh) <= r.limit - r.got => kept = fresh
            /\ Cardinality(fresh) \in Nat /\ Cardinality(kept) <= Cardinality(fresh)
        BY <4>5, <4>6, OldestItems
      <4>8. \A x \in Listing : x[1] \in Nat /\ (x \in behind <=> x[1] > r.from)
        BY <2>a DEF Behind, Item
      <4>9. /\ end \in Nat /\ r.from <= end /\ \A x \in nodes : x[1] <= end
            /\ nodes # {} => \E x \in nodes : x[1] = end
            /\ nodes = {} => end = r.from
        <5> HIDE DEF nodes, behind
        <5>1. CASE nodes = {}
          BY <5>1, <3>1, <4>1
        <5>2. CASE nodes # {}
          <6>1. PICK x \in nodes : end = x[1] /\ \A y \in nodes : y[1] <= x[1]
            BY <5>2, <3>1
          <6>2. x[1] \in Nat /\ x[1] > r.from
            BY <4>2, <4>3, <4>8
          <6> QED BY <6>1, <6>2, <5>2, <4>1
        <5> QED BY <5>1, <5>2
      <4> DEFINE Old == {x \in Listing : x[1] <= r.from}
                 New == {x \in Listing : x[1] <= end}
      <4>10. /\ r.got + Cardinality(nodes) <= Cardinality(New)
             /\ IsFiniteSet(New) /\ Cardinality(New) \in Nat /\ Cardinality(New) <= Total
             /\ (Cardinality(New) = Total => New = Listing)
        <5>1. r.got <= Cardinality(Old)
          BY <3>4, <3>6, <3>7 DEF RunCovers
        <5>2. IsFiniteSet(Old) /\ IsFiniteSet(New) /\ Cardinality(New) <= Total
              /\ (Cardinality(New) = Total => New = Listing)
          BY <2>a, FS_Subset
        <5>3. Old \cup nodes \in SUBSET New /\ Old \cap nodes = {}
          <6> HIDE DEF nodes, behind
          <6> QED BY <4>1, <4>2, <4>3, <4>8, <4>9
        <5>4. Cardinality(Old) \in Nat /\ Cardinality(New) \in Nat
          BY <5>2, FS_CardinalityType
        <5>5. Cardinality(Old \cup nodes) = Cardinality(Old) + Cardinality(nodes)
          <6>1. Cardinality(Old \cup nodes)
                  = Cardinality(Old) + Cardinality(nodes) - Cardinality(Old \cap nodes)
            BY <5>2, <4>3, FS_Union
          <6>2. Cardinality(Old \cap nodes) = 0
            BY <5>3, FS_EmptySet
          <6> HIDE DEF Old, nodes
          <6> QED BY <6>1, <6>2, <5>4, <4>3
        <5>6. Cardinality(Old \cup nodes) <= Cardinality(New)
          BY <5>2, <5>3, FS_Subset
        <5> HIDE DEF Old, New, nodes
        <5> QED BY <5>1, <5>2, <5>4, <5>5, <5>6, <4>1, <4>3
      <4> HIDE DEF nodes, behind, fresh, kept, Old
      <4>11. kept = fresh /\ got <= Cardinality(New)
        <5> HIDE DEF New
        <5> QED BY <4>1, <4>3, <4>5, <4>7, <4>10, <3>4, <2>a
      <4>12. \A p \in PRs : github[p] <= r.from \/ github[p] < r.since => Covered(p)
        BY <3>4, <3>6, <3>7 DEF RunCovers
      <4>13. ASSUME NEW p \in PRs, <<github[p], p>> \in nodes
             PROVE  Covered(p) \/ <<github[p], p>> \in kept
        <5>1. CASE github[p] < r.since
          BY <5>1, <4>12
        <5>2. CASE github[p] >= r.since
          BY <5>2, <4>13, <4>5, <4>11
        <5> QED BY <5>1, <5>2, <2>b, <4>1
      <4>14. ASSUME NEW p \in PRs, github[p] <= end
             PROVE  Covered(p) \/ <<github[p], p>> \in kept
        <5>1. CASE github[p] <= r.from
          BY <5>1, <4>12
        <5>2. CASE github[p] > r.from
          <6>a. github[p] \in Nat
            BY <2>b
          <6>b. nodes = {} => end = r.from
            BY <4>9
          <6>1. nodes # {}
            BY <5>2, <4>14, <4>1, <6>a, <6>b
          <6>2. PICK z \in nodes : z[1] = end
            BY <6>1, <4>9
          <6>3. <<github[p], p>> \in behind
            BY <5>2, <4>8, <2>b
          <6>4. <<github[p], p>> \in nodes
            BY <6>2, <6>3, <4>4, <4>14
          <6> QED BY <6>4, <4>13
        <5> QED BY <5>1, <5>2, <2>b, <4>1
      <4>15. ASSUME NEW p \in PRs, ~(Cardinality(behind) > Page(r) /\ got < r.limit)
             PROVE  Covered(p) \/ <<github[p], p>> \in kept
        <5>1. CASE got < r.limit
          <6>1. nodes = behind
            BY <5>1, <4>15, <4>3, <4>1
          <6>2. github[p] <= r.from \/ <<github[p], p>> \in nodes
            BY <6>1, <4>8, <2>b, <4>1
          <6> QED BY <6>2, <4>12, <4>13
        <5>2. CASE ~(got < r.limit)
          <6>1. New = Listing
            <7>1. Cardinality(New) = Total
              <8> HIDE DEF New
              <8> QED BY <5>2, <4>11, <4>10, <4>7, <4>1, <3>4, <2>a
            <7> QED BY <7>1, <4>10
          <6>2. github[p] <= end
            BY <6>1, <2>b
          <6> QED BY <6>2, <4>14
        <5> QED BY <5>1, <5>2
      <4>16. \A x \in kept : x[1] = github[x[2]]
        BY <4>2, <4>3, <4>5, <4>7 DEF Listing
      <4>17. \A p \in PRs : github[p] <= end \/ github[p] < r.since
                              \/ ~(Cardinality(behind) > Page(r) /\ got < r.limit)
                              => Covered(p) \/ <<github[p], p>> \in kept
        BY <4>12, <4>14, <4>15
      <4>18. RunCovers(n)'
        <5> HIDE DEF got
        <5> QED BY <3>2, <3>3, <4>11, <4>16, <4>17 DEF RunCovers, InHand, Covered, Listing
      <4>19. ASSUME NEW p \in PRs, github[p] <= lastSync \/ github[p] <= cursor'
             PROVE  Covered(p)
        <5>1. github[p] <= lastSync \/ github[p] <= cursor => Covered(p)
          BY <3>6 DEF SyncCovers, CursorCovers
        <5>2. github[p] \in Nat /\ 1 <= github[p]
          BY <2>b
        <5> QED BY <5>1, <5>2, <4>19, <3>2, <2>d
      <4> QED BY <4>18, <4>19
    <3> HIDE DEF kept, got, nodes, behind, fresh
    <3>8. Roomy(n)
      BY <3>3, <3>4 DEF Roomy
    <3>9. ~disturbed' => /\ CursorCovers' /\ RunCovers(n)'
                         /\ \A p \in PRs : Covered(p) => Covered(p)'
      BY <3>2, <3>6 DEF CursorCovers, Covered
    <3> QED BY <3>b, <3>2, <3>5, <3>8, <3>9, BecomesCovers
  <2>4. ASSUME NEW s \in Syncers, FetchErrors(s) PROVE SyncCovers'
    <3> PICK r \in Run : r = run[s]
      BY <2>d
    <3>1. PICK n : n = [r EXCEPT !.pc = "page", !.page = {}, !.more = FALSE]
      OBVIOUS
    <3>2. Becomes(s, n) /\ disturbed' = TRUE /\ UNCHANGED <<github, ceiling>> /\ r.pc = "request"
      BY <2>4, <3>1 DEF FetchErrors, Becomes
    <3>3. Roomy(n)
      BY <3>1, <3>2, <2>f DEF Roomy, Run
    <3> QED BY <3>2, <3>3, <2>f, BecomesCovers
  <2>5. ASSUME NEW s \in Syncers, StorePR(s) PROVE SyncCovers'
    <3> PICK r \in Run : r = run[s]
      BY <2>d
    <3>1. PICK item \in r.page :
            /\ \A other \in r.page : item[1] <= other[1]
            /\ Upsert(item)
            /\ Becomes(s, [r EXCEPT !.page = @ \ {item}])
      BY <2>5 DEF StorePR
    <3>2. /\ UNCHANGED <<clock, github, cursor, ceiling, lastSync, disturbed>>
          /\ cached' = [cached EXCEPT ![item[2]] = item[1]]
      BY <2>5, <3>1 DEF StorePR, Upsert
    <3>b. PICK n : n = [r EXCEPT !.page = @ \ {item}]
      OBVIOUS
    <3>3. /\ n.pc = r.pc /\ n.page = r.page \ {item} /\ n.from = r.from
          /\ n.since = r.since /\ n.got = r.got /\ n.more = r.more
          /\ n.cap = r.cap /\ n.limit = r.limit /\ r.pc \in {"page", "rows"}
      BY <2>5, <3>b DEF Run, StorePR
    <3>4. item \in Item /\ item[2] \in PRs
      BY <3>1 DEF Run, Item
    <3>a. ~disturbed => RunCovers(r)
      BY <2>f
    <3>5. ASSUME ~disturbed, NEW p \in PRs
          PROVE  (Covered(p) => Covered(p)') /\ (InHand(r, p) => InHand(n, p)')
      <4>1. item[1] = github[item[2]]
        BY <3>1, <3>5, <3>a DEF RunCovers
      <4>2. cached'[item[2]] = github[item[2]] /\ (p # item[2] => cached'[p] = cached[p])
        BY <3>2, <3>4, <3>5, <4>1 DEF FetchInv, FetchTypeOK
      <4>3. Covered(p) => Covered(p)'
        BY <3>2, <4>2 DEF Covered
      <4>4. <<github[p], p>> = item => Covered(p)'
        BY <3>2, <4>2 DEF Covered
      <4>5. <<github[p], p>> # item /\ <<github[p], p>> \in r.page
              => <<github'[p], p>> \in n.page
        BY <3>2, <3>3
      <4> QED BY <4>3, <4>4, <4>5 DEF InHand
    <3>6. ASSUME ~disturbed
          PROVE  RunCovers(n)'
      <4>1. \A x \in n.page : x[1] = github'[x[2]]
        BY <3>2, <3>3, <3>6, <3>a DEF RunCovers
      <4>2. RunCovers(r)
        BY <3>6, <3>a
      <4>3. Listing' = Listing
        BY <3>2 DEF Listing
      <4> QED BY <4>1, <4>2, <4>3, <3>2, <3>3, <3>5, <3>6 DEF RunCovers
    <3>7. Becomes(s, n)
      BY <3>1, <3>b DEF Becomes
    <3>8. Roomy(n)
      BY <3>3, <2>f DEF Roomy
    <3>9. ~disturbed' => CursorCovers' /\ \A p \in PRs : Covered(p) => Covered(p)'
      BY <3>2, <3>5, <2>f DEF CursorCovers
    <3> QED BY <3>2, <3>6, <3>7, <3>8, <3>9, <2>f, BecomesCovers
  <2>6. ASSUME NEW s \in Syncers, NextPage(s) PROVE SyncCovers'
    <3> PICK r \in Run : r = run[s]
      BY <2>d
    <3>1. PICK n : n = IF r.more THEN [r EXCEPT !.pc = "request"] ELSE RunAt("fetched", r, {})
      OBVIOUS
    <3>2. /\ UNCHANGED <<clock, github, cached, lastSync, disturbed>>
          /\ r.pc = "page" /\ r.page = {} /\ Becomes(s, n)
          /\ ceiling' \in {ceiling, r.limit, Total}
          /\ cursor' = IF r.more THEN r.from ELSE cursor
      BY <2>6, <3>1 DEF NextPage, Becomes
    <3>3. \/ /\ r.more /\ n.pc = "request" /\ n.page = {} /\ n.from = r.from /\ n.since = r.since
             /\ n.got = r.got /\ n.cap = r.cap /\ n.limit = r.limit
          \/ ~r.more /\ n.pc = "fetched" /\ n.page = {}
      BY <3>1, <3>2 DEF Run, RunAt, NoRun
    <3>4. Roomy(r) /\ (~disturbed => RunCovers(r) /\ CursorCovers)
      BY <2>f
    <3>5. Roomy(n) /\ (ceiling' = 0 \/ Total <= ceiling')
      BY <3>2, <3>3, <3>4, <2>a, <2>f DEF Roomy
    <3>6. Listing' = Listing
      BY <3>2 DEF Listing
    <3>7. \A p \in PRs : (InHand(r, p) <=> Covered(p)) /\ (Covered(p)' <=> Covered(p))
      BY <3>2 DEF InHand, Covered
    <3>8. ASSUME ~disturbed'
          PROVE  CursorCovers' /\ RunCovers(n)' /\ \A p \in PRs : Covered(p) => Covered(p)'
      <4>1. ~disturbed /\ RunCovers(r) /\ CursorCovers
        BY <3>8, <3>2, <3>4
      <4>2. RunCovers(n)'
        BY <4>1, <3>2, <3>3, <3>6, <3>7 DEF RunCovers
      <4>3. CursorCovers'
        BY <4>1, <3>2, <3>3, <3>7 DEF RunCovers, CursorCovers
      <4> QED BY <4>2, <4>3, <3>7
    <3> QED BY <3>2, <3>5, <3>8, BecomesCovers
  <2>7. ASSUME NEW s \in Syncers, FallBackToREST(s) PROVE SyncCovers'
    <3> PICK r \in Run : r = run[s]
      BY <2>d
    <3>a. PICK n : n = [RunAt("rest", r, {}) EXCEPT !.since = r.since, !.cap = r.cap]
      OBVIOUS
    <3>1. /\ UNCHANGED <<clock, github, cached, cursor, ceiling, lastSync, disturbed>>
          /\ r.pc = "request" /\ n.pc = "rest" /\ n.page = {} /\ n.pageNo = 1
          /\ n.since = r.since /\ n.cap = r.cap /\ Becomes(s, n)
      BY <2>7, <3>a DEF FallBackToREST, RunAt, NoRun, Becomes
    <3>2. Listing' = Listing
      BY <3>1 DEF Listing
    <3>3. Page(n) \in Nat /\ (1 - 1) * Page(n) = 0
      BY <3>1, FetchAssumption DEF Page, Run
    <3>4. \A p \in PRs : ~(Rank(<<github[p], p>>, Listing) <= (1 - 1) * Page(n))
      BY <2>a, <2>b, <3>3
    <3>5. \A p \in PRs : Covered(p) => InHand(n, p)'
      BY <3>1 DEF Covered, InHand
    <3>6. ~disturbed => RunCovers(n)'
      <4> SUFFICES ASSUME ~disturbed PROVE RunCovers(n)'
        OBVIOUS
      <4>1. \A p \in PRs : github[p] < r.since => Covered(p)
        BY <3>1, <2>f DEF RunCovers
      <4>2. \A p \in PRs :
              github'[p] < n.since
                \/ Rank(<<github'[p], p>>, Listing') <= (n.pageNo - 1) * Page(n) => InHand(n, p)'
        BY <4>1, <3>1, <3>2, <3>4, <3>5
      <4> QED BY <4>2, <3>1, FetchAssumption DEF RunCovers
    <3>7. Roomy(n)
      BY <3>1, <2>f DEF Roomy
    <3> QED BY <3>1, <3>6, <3>7, <2>e, <2>f, BecomesCovers
  <2>8. ASSUME NEW s \in Syncers, FetchRESTPage(s) PROVE SyncCovers'
    <3> PICK r \in Run : r = run[s]
      BY <2>d
    <3>a. PICK n : n = IF RESTEnds(r) THEN RunAt("rows", r, RESTKept(r))
                       ELSE [r EXCEPT !.pageNo = @ + 1, !.page = RESTKept(r)]
      OBVIOUS
    <3>b. /\ UNCHANGED <<clock, github, cached, cursor, ceiling, lastSync, disturbed>>
          /\ r.pc = "rest" /\ Becomes(s, n)
      BY <2>8, <3>a DEF FetchRESTPage, Becomes
    <3>c. /\ n.page = RESTKept(r)
          /\ \/ RESTEnds(r) /\ n.pc = "rows"
             \/ /\ ~RESTEnds(r) /\ n.pc = "rest" /\ n.pageNo = r.pageNo + 1
                /\ n.since = r.since /\ n.cap = r.cap /\ Page(n) = Page(r)
      BY <3>a, <3>b DEF Run, RunAt, NoRun, Page
    <3>d. Roomy(r) /\ (~disturbed => RunCovers(r))
      BY <2>f
    <3>1. /\ UNCHANGED <<clock, github, cached, cursor, ceiling, lastSync, disturbed>>
          /\ r.pc = "rest" /\ Roomy(r) /\ (~disturbed => RunCovers(r)) /\ n.page = RESTKept(r)
          /\ \/ RESTEnds(r) /\ n.pc = "rows"
             \/ /\ ~RESTEnds(r) /\ n.pc = "rest" /\ n.pageNo = r.pageNo + 1
                /\ n.since = r.since /\ n.cap = r.cap /\ Page(n) = Page(r)
      BY <3>b, <3>c, <3>d
    <3>2. Listing' = Listing
      BY <3>1 DEF Listing
    <3>3. ASSUME ~disturbed
          PROVE  RunCovers(n)'
      <4> DEFINE low == (r.pageNo - 1) * Page(r)
                 top == r.pageNo * Page(r)
                 fresh == Fresh(r, RESTNodes(r))
                 room == r.cap - Cardinality(r.page)
                 Held(p) == Covered(p) \/ <<github[p], p>> \in RESTKept(r)
      <4>1. /\ Page(r) \in Nat \ {0} /\ r.pageNo \in Nat \ {0} /\ r.cap \in Nat /\ r.since \in Nat
            /\ RESTPages \in Nat \ {0} /\ PageSize \in Nat \ {0}
        BY <2>d, FetchAssumption DEF Page, Run
      <4>2. low \in Nat /\ top \in Nat /\ low <= top
        <5>1. top = low + Page(r)
          BY <4>1
        <5>2. low \in Nat
          BY <4>1
        <5> HIDE DEF low, top
        <5> QED BY <5>1, <5>2, <4>1
      <4>3. /\ \A x \in r.page : x[1] = github[x[2]] /\ Rank(x, Listing) <= low
            /\ \A p \in PRs : github[p] < r.since \/ Rank(<<github[p], p>>, Listing) <= low => InHand(r, p)
            /\ r.pageNo <= RESTPages
        BY <3>1, <3>3 DEF RunCovers
      <4>4. r.page \in SUBSET Listing
        <5> SUFFICES ASSUME NEW x \in r.page PROVE x \in Listing
          OBVIOUS
        <5>1. x \in Item
          BY <2>d DEF Run
        <5>2. x[2] \in PRs /\ x = <<x[1], x[2]>>
          BY <5>1 DEF Item
        <5>3. x = <<github[x[2]], x[2]>>
          BY <5>2, <4>3
        <5> QED BY <5>2, <5>3 DEF Listing
      <4>5. /\ RESTNodes(r) = {x \in Listing : Rank(x, Listing) \in low + 1 .. top}
            /\ fresh \in SUBSET RESTNodes(r) /\ fresh \in SUBSET Listing
            /\ \A x \in RESTNodes(r) : x[1] >= r.since => x \in fresh
        BY DEF RESTNodes, Fresh
      <4> HIDE DEF low, top, fresh
      <4>6. r.page \cap fresh = {}
        BY <4>2, <4>3, <4>5, <2>a
      <4>7. RESTKept(r) = r.page \cup fresh
        <5>1. CASE r.cap = 0
          BY <5>1 DEF RESTKept, fresh
        <5>2. CASE r.cap # 0
          <6>1. Total <= r.cap
            BY <5>2, <3>1 DEF Roomy
          <6>2. IsFiniteSet(r.page) /\ IsFiniteSet(fresh)
            BY <4>4, <4>5, <2>a, FS_Subset
          <6>3. Cardinality(r.page) \in Nat /\ Cardinality(fresh) \in Nat
            BY <6>2, FS_CardinalityType
          <6>4. Cardinality(r.page \cup fresh) = Cardinality(r.page) + Cardinality(fresh)
            <7>1. Cardinality(r.page \cup fresh)
                    = Cardinality(r.page) + Cardinality(fresh) - Cardinality(r.page \cap fresh)
              BY <6>2, FS_Union
            <7>2. Cardinality(r.page \cap fresh) = 0
              BY <4>6, FS_EmptySet
            <7> QED BY <7>1, <7>2, <6>3
          <6>5. Cardinality(r.page \cup fresh) <= Total
            <7>1. r.page \cup fresh \in SUBSET Listing
              BY <4>4, <4>5
            <7> QED BY <7>1, <2>a, FS_Subset
          <6>6. room \in Int /\ Cardinality(fresh) <= room
            BY <6>1, <6>3, <6>4, <6>5, <4>1, <2>a
          <6>7. fresh \in SUBSET Item
            BY <4>5, <2>a
          <6>8. Oldest(room, fresh) = fresh
            <7> HIDE DEF room
            <7> QED BY <6>2, <6>6, <6>7, OldestItems
          <6> QED BY <6>8, <5>2 DEF RESTKept, fresh
        <5> QED BY <5>1, <5>2
      <4>8. RESTKept(r) \in SUBSET Listing
        BY <4>4, <4>5, <4>7
      <4>9. \A p \in PRs :
              github[p] < r.since \/ Rank(<<github[p], p>>, Listing) <= top => Held(p)
        <5> SUFFICES ASSUME NEW p \in PRs,
                            github[p] < r.since \/ Rank(<<github[p], p>>, Listing) <= top
                     PROVE  Held(p)
          OBVIOUS
        <5>1. InHand(r, p) => Held(p)
          BY <4>7 DEF InHand
        <5>2. CASE github[p] < r.since \/ Rank(<<github[p], p>>, Listing) <= low
          BY <5>1, <5>2, <4>3
        <5>3. CASE github[p] >= r.since /\ ~(Rank(<<github[p], p>>, Listing) <= low)
          <6>1. Rank(<<github[p], p>>, Listing) \in low + 1 .. top
            BY <5>3, <2>a, <2>b, <4>1, <4>2
          <6>2. <<github[p], p>> \in fresh
            BY <6>1, <5>3, <4>5, <2>b
          <6> QED BY <6>2, <4>7
        <5> QED BY <5>2, <5>3, <2>b, <4>1
      <4>a. \A p \in PRs : Held(p) <=> InHand(n, p)'
        BY <3>1 DEF InHand, Covered
      <4>b. \A p \in PRs : <<github[p], p>> \in RESTKept(r) => Held(p)
        OBVIOUS
      <4> HIDE DEF Held
      <4>10. RESTEnds(r) => \A p \in PRs : Held(p)
        <5> SUFFICES ASSUME RESTEnds(r), NEW p \in PRs PROVE Held(p)
          OBVIOUS
        <5> DEFINE rank == Rank(<<github[p], p>>, Listing)
        <5>0. rank \in Nat /\ rank <= Total
          BY <2>a, <2>b
        <5>1. CASE Cardinality(RESTNodes(r)) < Page(r)
          <6>1. Cardinality(RESTNodes(r)) \in Nat
            BY <4>5, <2>a, FS_Subset, FS_CardinalityType
          <6>2. ~(top < rank)
            <7> SUFFICES ASSUME top < rank PROVE FALSE
              OBVIOUS
            <7>1. Page(r) <= Cardinality({y \in Listing : Rank(y, Listing) \in (r.pageNo - 1) * Page(r) + 1 .. r.pageNo * Page(r)})
              BY <4>1, <2>b, ListingRanks DEF top, FetchInv
            <7>2. Page(r) <= Cardinality(RESTNodes(r))
              BY <7>1 DEF RESTNodes
            <7> QED BY <7>2, <5>1, <6>1, <4>1
          <6> HIDE DEF rank
          <6>3. rank <= top
            BY <6>2, <5>0, <4>2
          <6>4. Rank(<<github[p], p>>, Listing) <= top => Held(p)
            BY <4>9
          <6> QED BY <6>3, <6>4 DEF rank
        <5>2. CASE r.cap # 0 /\ Cardinality(RESTKept(r)) >= r.cap
          <6>1. Total <= r.cap
            BY <5>2, <3>1 DEF Roomy
          <6>2. Cardinality(RESTKept(r)) \in Nat /\ Cardinality(RESTKept(r)) <= Total
                /\ (Cardinality(RESTKept(r)) = Total => RESTKept(r) = Listing)
            BY <4>8, <2>a, FS_Subset, FS_CardinalityType
          <6>3. RESTKept(r) = Listing
            BY <6>1, <6>2, <5>2, <4>1, <2>a
          <6> QED BY <6>3, <2>b, <4>b
        <5>3. CASE r.pageNo = RESTPages
          <6>1. Total <= RESTPages * Page(r)
            <7>1. CASE Page(r) = PageSize
              BY <7>1 DEF NothingIsCutOff
            <7>2. CASE Page(r) = r.cap /\ r.cap # 0
              <8>1. Total <= r.cap
                BY <7>2, <3>1 DEF Roomy
              <8>2. Page(r) <= RESTPages * Page(r)
                BY <4>1
              <8>3. RESTPages * Page(r) \in Nat
                BY <4>1
              <8> QED BY <7>2, <8>1, <8>2, <8>3, <4>1, <2>a
            <7> QED BY <7>1, <7>2, <4>1 DEF Page
          <6>2. Total <= top
            BY <6>1, <5>3 DEF top
          <6> HIDE DEF rank
          <6>3. rank <= top
            BY <6>2, <5>0, <4>2, <2>a
          <6>4. Rank(<<github[p], p>>, Listing) <= top => Held(p)
            BY <4>9
          <6> QED BY <6>3, <6>4 DEF rank
        <5> QED BY <5>1, <5>2, <5>3 DEF RESTEnds
      <4>11. \A x \in RESTKept(r) : x[1] = github[x[2]] /\ Rank(x, Listing) <= top
        <5>1. \A x \in r.page : Rank(x, Listing) <= top
          BY <4>2, <4>3, <4>4, <2>a
        <5>2. \A x \in fresh : Rank(x, Listing) <= top
          BY <4>2, <4>5, <2>a
        <5>3. \A x \in Listing : x[1] = github[x[2]]
          BY DEF Listing
        <5> QED BY <5>1, <5>2, <5>3, <4>7, <4>8
      <4>12. CASE RESTEnds(r)
        BY <4>10, <4>11, <4>12, <4>a, <3>1, <3>2 DEF RunCovers
      <4>13. CASE ~RESTEnds(r)
        <5>1. r.pageNo + 1 <= RESTPages
          BY <4>13, <4>3, <4>1 DEF RESTEnds
        <5>2. (n.pageNo - 1) * Page(n) = top
          BY <4>13, <3>1, <3>2, <4>1 DEF top
        <5>3. \A p \in PRs :
                github'[p] < n.since
                  \/ Rank(<<github'[p], p>>, Listing') <= (n.pageNo - 1) * Page(n) => InHand(n, p)'
          <6> SUFFICES ASSUME NEW p \in PRs,
                              github'[p] < n.since
                                \/ Rank(<<github'[p], p>>, Listing') <= (n.pageNo - 1) * Page(n)
                       PROVE  InHand(n, p)'
            OBVIOUS
          <6>1. github[p] < r.since \/ Rank(<<github[p], p>>, Listing) <= top
            BY <5>2, <4>13, <3>1, <3>2
          <6>2. Held(p)
            BY <6>1, <4>9
          <6> QED BY <6>2, <4>a
        <5>4. \A x \in n.page : x[1] = github'[x[2]] /\ Rank(x, Listing') <= (n.pageNo - 1) * Page(n)
          BY <5>2, <4>11, <3>1, <3>2
        <5> QED BY <5>1, <5>3, <5>4, <4>13, <3>1, <3>2 DEF RunCovers
      <4> QED BY <4>12, <4>13
    <3>4. Roomy(n)
      BY <3>1 DEF Roomy
    <3> QED BY <3>b, <3>3, <3>4, <2>e, <2>f, BecomesCovers
  <2>9. ASSUME NEW s \in Syncers, RESTRowFails(s) PROVE SyncCovers'
    <3> PICK r \in Run : r = run[s]
      BY <2>d
    <3>1. PICK n : n = [r EXCEPT !.page = {}]
      OBVIOUS
    <3>2. Becomes(s, n) /\ disturbed' = TRUE /\ UNCHANGED <<github, ceiling>> /\ r.pc = "rows"
      BY <2>9, <3>1 DEF RESTRowFails, Becomes
    <3>3. Roomy(n)
      BY <3>1, <3>2 DEF Roomy, Run
    <3> QED BY <3>2, <3>3, <2>f, BecomesCovers
  <2>10. ASSUME NEW s \in Syncers, RESTStored(s) PROVE SyncCovers'
    <3> PICK r \in Run : r = run[s]
      BY <2>d
    <3>1. PICK n : n = RunAt("fetched", r, {})
      OBVIOUS
    <3>2. /\ UNCHANGED <<clock, github, cached, cursor, ceiling, lastSync, disturbed>>
          /\ r.pc = "rows" /\ r.page = {} /\ n.pc = "fetched" /\ n.page = {} /\ Becomes(s, n)
      BY <2>10, <3>1 DEF RESTStored, Becomes, RunAt, NoRun
    <3>3. \A p \in PRs : (InHand(r, p) <=> Covered(p)) /\ (Covered(p)' <=> Covered(p))
      BY <3>2 DEF InHand, Covered
    <3>4. Roomy(n)
      BY <3>2 DEF Roomy
    <3>5. ~disturbed => RunCovers(r)
      BY <2>f
    <3>6. ~disturbed' => RunCovers(n)'
      BY <3>2, <3>3, <3>5 DEF RunCovers
    <3> QED BY <3>2, <3>4, <3>6, <2>e, <2>f, BecomesCovers
  <2>11. CASE LastProgress
    <3>s. Command \in Syncers
      BY DEF Syncers
    <3> PICK r \in Run : r = run[Command]
      BY <3>s, <2>d
    <3>1. PICK n : n = [r EXCEPT !.pc = "done"]
      OBVIOUS
    <3>2. /\ UNCHANGED <<clock, github, cached, ceiling, lastSync, disturbed>> /\ cursor' = 0
          /\ r.pc = "fetched" /\ n.pc = "done" /\ n.page = r.page /\ Becomes(Command, n)
      BY <2>11, <3>1 DEF LastProgress, Run, Becomes
    <3>3. \A p \in PRs : Covered(p)' <=> Covered(p)
      BY <3>2 DEF Covered
    <3>4. Roomy(n)
      BY <3>2 DEF Roomy
    <3>5. ~disturbed => RunCovers(r) /\ CursorCovers
      BY <3>s, <2>f
    <3>6. ~disturbed' => RunCovers(n)' /\ CursorCovers'
      BY <3>2, <3>3, <3>5, <2>b DEF RunCovers, CursorCovers
    <3> QED BY <3>s, <3>2, <3>3, <3>4, <3>6, <2>f, BecomesCovers
  <2>12. CASE CompleteSync
    <3>s. Command \in Syncers
      BY DEF Syncers
    <3>1. PICK n : n = NoRun
      OBVIOUS
    <3>2. /\ UNCHANGED <<github, cached, cursor, ceiling, disturbed>>
          /\ run[Command].pc = "done" /\ Becomes(Command, n)
      BY <2>12, <3>1 DEF CompleteSync, Becomes
    <3>3. ~disturbed => \A p \in PRs : Covered(p) /\ Covered(p)'
      BY <3>2, <3>s, <2>f DEF RunCovers, Covered
    <3>4. Roomy(n) /\ RunCovers(n)'
      BY <3>1, <2>c DEF Roomy, RunCovers
    <3>5. ~disturbed' => CursorCovers'
      BY <3>2, <3>3 DEF CursorCovers
    <3> QED BY <3>s, <3>2, <3>3, <3>4, <3>5, <2>f, BecomesCovers
  <2>13. ASSUME NEW s \in Syncers, ServedSyncEnds(s) \/ AbortSync(s) PROVE SyncCovers'
    <3>1. PICK n : n = NoRun
      OBVIOUS
    <3>2. UNCHANGED <<github, cached, cursor, ceiling, lastSync, disturbed>> /\ Becomes(s, n)
      BY <2>13, <3>1 DEF ServedSyncEnds, AbortSync, Becomes
    <3>3. Roomy(n) /\ RunCovers(n)'
      BY <3>1, <2>c DEF Roomy, RunCovers
    <3> QED BY <3>2, <3>3, <2>e, <2>f, BecomesCovers
  <2>14. CASE NewJob
    <3>1. /\ UNCHANGED <<clock, github, cached, lastSync, run, disturbed>> /\ cursor' = 0 /\ ceiling' = 0
      BY <2>14 DEF NewJob
    <3>2. \A p \in PRs : Covered(p) => Covered(p)'
      BY <3>1 DEF Covered
    <3>3. ASSUME CursorCovers, NEW p \in PRs, github'[p] <= lastSync' \/ github'[p] <= cursor'
          PROVE  Covered(p)'
      <4>1. 1 <= github[p] /\ github[p] \in Nat
        BY <2>b
      <4>2. github[p] <= lastSync
        BY <4>1, <3>1, <3>3
      <4> QED BY <4>2, <3>2, <3>3 DEF CursorCovers
    <3>4. ASSUME ~disturbed', NEW q \in Syncers PROVE RunCovers(run[q])'
      <4> PICK t : t = run[q] /\ t = run'[q]
        BY <3>1
      <4>1. RunCovers(t)'
        BY <3>1, <3>2, <3>4, <2>f, StillCovers
      <4> QED BY <4>1
    <3>5. CursorCovers => CursorCovers'
      BY <3>3 DEF CursorCovers
    <3> QED BY <3>1, <3>4, <3>5, <2>f DEF SyncCovers
  <2>15. ASSUME NEW p \in PRs, Update(p) PROVE SyncCovers'
    <3>1. /\ github' = [github EXCEPT ![p] = clock + 1] /\ disturbed' = (disturbed \/ Running)
          /\ UNCHANGED <<cached, cursor, ceiling, lastSync, run>>
      BY <2>15 DEF Update
    <3>2. ASSUME ~disturbed' PROVE CursorCovers' /\ \A s \in Syncers : RunCovers(run[s])'
      <4>1. ~disturbed /\ \A s \in Syncers : run[s] = NoRun
        BY <3>1, <3>2 DEF Running, FetchInv, SharedOK
      <4>2. \A s \in Syncers : RunCovers(run[s])'
        BY <3>1, <4>1, <2>c DEF RunCovers
      <4>3. ASSUME NEW q \in PRs, github'[q] <= lastSync' \/ github'[q] <= cursor'
            PROVE  Covered(q)'
        <5>1. q # p
          BY <3>1, <4>3, <2>d DEF FetchInv, FetchTypeOK, VersionsOK
        <5>2. github'[q] = github[q]
          BY <5>1, <3>1 DEF FetchInv, FetchTypeOK
        <5> QED BY <5>2, <4>1, <4>3, <3>1, <2>f DEF CursorCovers, Covered
      <4> QED BY <4>2, <4>3 DEF CursorCovers
    <3> QED BY <3>1, <3>2, <2>f DEF SyncCovers
  <2>16. CASE UNCHANGED fetchVars
    <3>1. UNCHANGED <<github, cached, cursor, ceiling, lastSync, run, disturbed>>
      BY <2>16 DEF fetchVars
    <3>2. Listing' = Listing
      BY <3>1 DEF Listing
    <3> QED BY <3>1, <3>2 DEF SyncCovers, CursorCovers, RunCovers, Covered, InHand
  <2> QED BY <2>1, <2>2, <2>3, <2>4, <2>5, <2>6, <2>7, <2>8, <2>9, <2>10, <2>11, <2>12, <2>13, <2>14,
             <2>15, <2>16 DEF FetchNext, SyncStep
<1> QED BY <1>1, <1>2, FetchInvariance, PTL DEF FetchSpec, CoverInv

\* SyncRepo's cursor (default_runner.go:215-227) skips nothing, whatever crashes,
\* retries, fallbacks and runs of serve came before, if no cap and no ceiling
\* cuts a run off.
THEOREM CursorIsSafe ==
    ASSUME NothingIsCutOff
    PROVE  FetchSpec => []CursorSkipsNothing
<1>1. CoverInv => CursorSkipsNothing
  BY DEF CoverInv, SyncCovers, CursorCovers, CursorSkipsNothing, Covered
<1> QED BY <1>1, CoverInvariance, PTL

\* MarkSyncJobComplete is reached only when every open pull request is in the
\* cache as GitHub has it, under the same hypothesis, unless the property says
\* that the run was disturbed.
THEOREM CompleteIsCovered ==
    ASSUME NothingIsCutOff
    PROVE  FetchSpec => CompleteCoversOpen
<1>1. CoverInv /\ [FetchNext]_fetchVars
        => [lastSync' # lastSync /\ ~disturbed => cached = github]_fetchVars
  <2> SUFFICES ASSUME CoverInv, [FetchNext]_fetchVars, lastSync' # lastSync, ~disturbed
               PROVE  cached = github
    OBVIOUS
  <2>1. CompleteSync
    BY DEF FetchNext, SyncStep, fetchVars, StartSync, StartNothing, FetchPage, FetchErrors, StorePR,
           NextPage, FallBackToREST, FetchRESTPage, RESTRowFails, RESTStored, LastProgress,
           ServedSyncEnds, AbortSync, NewJob, Update
  <2>2. Command \in Syncers
    BY DEF Syncers
  <2>3. \A p \in PRs : cached[p] = github[p]
    BY <2>1, <2>2 DEF CompleteSync, CoverInv, SyncCovers, RunCovers, Covered
  <2> QED BY <2>3 DEF CoverInv, FetchInv, FetchTypeOK
<1>2. QED BY <1>1, CoverInvariance, PTL DEF FetchSpec, CompleteCoversOpen
=============================================================================
