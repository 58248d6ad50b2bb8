------------------------------ MODULE SyncFetch ------------------------------
(***************************************************************************)
(* One repository's pull requests on their way from GitHub to the cache:   *)
(* Worker.SyncJob and githubMetadataSource.SyncRepo (internal/sync), the   *)
(* paging of Client.FetchPullRequests and FetchPullRequestsREST            *)
(* (internal/github), and the cursor, the last sync time and the rows that *)
(* they leave in the store (internal/cache).                               *)
(*                                                                         *)
(* The repository lock keeps the commands apart, so that they are one      *)
(* syncer here, Command; POST /api/repos/.../sync of a serve process takes *)
(* no lock and runs SyncRepo beside it, without a job.                     *)
(*                                                                         *)
(* A version of a pull request is the time of its last update, and the     *)
(* GraphQL listing is ordered by it, so that a cursor is the version after *)
(* which the next page begins.                                             *)
(***************************************************************************)
EXTENDS Naturals, FiniteSets

CONSTANTS PRs,                \* the pull requests, all open at first
          Command,            \* the command that holds the repository lock
          Servers,            \* the serve processes
          PageSize,           \* 100 in the code
          Caps,               \* chunk sizes: the cap on a run and its pages,
                              \* 0 without a budget or with a tight one
          RESTPages,          \* 50 in the code: the most pages read over REST
          MaxTime             \* bound on the clock

ASSUME FetchAssumption ==
    /\ IsFiniteSet(PRs) /\ Command \notin Servers
    /\ PageSize \in Nat \ {0} /\ RESTPages \in Nat \ {0}
    /\ Caps \subseteq Nat /\ MaxTime \in Nat

VARIABLES clock,
          github,    \* the version of every pull request
          cached,    \* the version in the cache, 0 without a row
          cursor,    \* sync_progress.cursor, 0 for empty
          ceiling,   \* sync_progress.snapshot_ceiling, 0 for none
          lastSync,  \* sync_progress.last_sync_at, 0 for never
          run,       \* the run of every syncer
          disturbed  \* while a sync ran GitHub has changed, or a row of a REST
                     \* listing has failed, or a run has not listed what there
                     \* is (a history variable)

fetchVars == <<clock, github, cached, cursor, ceiling, lastSync, run, disturbed>>

Syncers == {Command} \cup Servers

\* An item of a listing is a version and the pull request that has it; got
\* counts the items kept so far, of which page has those still to be stored.
\* shared (history) says that the run has met another one.
NoRun == [pc |-> "none", from |-> 0, since |-> 0, page |-> {}, got |-> 0,
          pageNo |-> 1, more |-> FALSE, cap |-> 0, limit |-> 0, shared |-> FALSE]

Busy(s) == run[s].pc # "none"
Running == \E s \in Syncers : Busy(s)
Total   == Cardinality(PRs)

Page(r) == IF r.cap \in 1..PageSize THEN r.cap ELSE PageSize   \* items of a page

\* What GitHub lists, oldest update first, as a set with a rank for every item.
Listing == {<<github[p], p>> : p \in PRs}
Rank(x, items) == Cardinality({y \in items : y[1] <= x[1]})
Oldest(n, items) == {x \in items : Rank(x, items) <= n}
Behind(version, items) == {x \in items : x[1] > version}
Fresh(r, items) == {x \in items : x[1] >= r.since}

\* A syncer starts with run r, beside those that run already.
Start(s, r) ==
    run' = [q \in Syncers |-> IF q = s THEN [r EXCEPT !.shared = Running]
                                       ELSE [run[q] EXCEPT !.shared = Busy(q)]]

Becomes(s, r) == run' = [run EXCEPT ![s] = r]

\* A run that needs no listing any more, with the rows it has to store.
RunAt(pc, r, items) == [NoRun EXCEPT !.pc = pc, !.page = items, !.shared = r.shared]

\* Mutant: the row gets the time it is stored at.
UpsertNow(item) == cached' = [cached EXCEPT ![item[2]] = clock]

\* Whatever version the row has.
Upsert(item) == cached' = [cached EXCEPT ![item[2]] = item[1]]

-----------------------------------------------------------------------------
\* SyncRepo resumes at a cursor, or else fetches what changed since the last
\* sync.  A GraphQL run ends at its cap, or at the ceiling stored with the
\* cursor, or at the number of pull requests there are.
StartSync(s) ==
    /\ ~Busy(s)
    /\ \E cap \in Caps :
         Start(s, [NoRun EXCEPT !.pc = "request", !.from = cursor, !.cap = cap,
                     !.since = IF cursor = 0 THEN lastSync ELSE 0,
                     !.limit = IF cap # 0 THEN cap
                               ELSE IF cursor # 0 /\ ceiling # 0 THEN ceiling ELSE Total])
    /\ UNCHANGED <<clock, github, cached, cursor, ceiling, lastSync, disturbed>>

\* With little left of the budget RateLimitRunner returns without an error and
\* without having run anything (RunOutcome of module Budget), and the command
\* completes its job.
StartNothing ==
    /\ ~Busy(Command)
    /\ Start(Command, [NoRun EXCEPT !.pc = "done"])
    /\ disturbed' = TRUE
    /\ UNCHANGED <<clock, github, cached, cursor, ceiling, lastSync>>

\* A page of the GraphQL listing arrives.  The progress callback of every item
\* it keeps stores an empty cursor for a command, and the ceiling as well for
\* workflow.
FetchPage(s) ==
    /\ run[s].pc = "request"
    /\ LET r      == run[s]
           behind == Behind(r.from, Listing)
           nodes  == Oldest(Page(r), behind)
           kept   == Oldest(r.limit - r.got, Fresh(r, nodes))
           got    == r.got + Cardinality(kept)
           ends   == {x \in nodes : \A y \in nodes : y[1] <= x[1]}
       IN  /\ \E end \in IF nodes = {} THEN {r.from} ELSE {x[1] : x \in ends} :
                Becomes(s, [r EXCEPT !.pc = "page", !.page = kept, !.got = got, !.from = end,
                              !.more = Cardinality(behind) > Page(r) /\ got < r.limit])
           /\ IF kept = {} \/ s # Command THEN UNCHANGED <<cursor, ceiling>>
              ELSE /\ cursor' = 0
                   /\ ceiling' \in {ceiling, IF r.limit < Total THEN r.limit ELSE Total}
    /\ UNCHANGED <<clock, github, cached, lastSync, disturbed>>

\* An answer with errors and without data is decoded as an empty last page.
FetchErrors(s) ==
    /\ run[s].pc = "request"
    /\ Becomes(s, [run[s] EXCEPT !.pc = "page", !.page = {}, !.more = FALSE])
    /\ disturbed' = TRUE
    /\ UNCHANGED <<clock, github, cached, cursor, ceiling, lastSync>>

\* Mutant: the cursor behind the page is stored before its rows.
StorePREarlyCursor(s) ==
    /\ run[s].pc \in {"page", "rows"}
    /\ cursor' = IF run[s].pc = "page" THEN run[s].from ELSE cursor
    /\ \E item \in run[s].page :
         /\ \A other \in run[s].page : item[1] <= other[1]
         /\ Upsert(item)
         /\ Becomes(s, [run[s] EXCEPT !.page = @ \ {item}])
    /\ UNCHANGED <<clock, github, ceiling, lastSync, disturbed>>

\* OnPage stores a page, one row at a time, in the order of the listing.
StorePR(s) ==
    /\ run[s].pc \in {"page", "rows"}
    /\ \E item \in run[s].page :
         /\ \A other \in run[s].page : item[1] <= other[1]
         /\ Upsert(item)
         /\ Becomes(s, [run[s] EXCEPT !.page = @ \ {item}])
    /\ UNCHANGED <<clock, github, cursor, ceiling, lastSync, disturbed>>

\* Behind the page SaveCursor stores the cursor of the next one, with the
\* ceiling if an item has been counted.
NextPage(s) ==
    /\ run[s].pc = "page" /\ run[s].page = {}
    /\ IF run[s].more
       THEN /\ cursor' = run[s].from
            /\ ceiling' = IF run[s].got = 0 THEN ceiling
                          ELSE IF run[s].limit < Total THEN run[s].limit ELSE Total
            /\ Becomes(s, [run[s] EXCEPT !.pc = "request"])
       ELSE /\ UNCHANGED <<cursor, ceiling>>
            /\ Becomes(s, RunAt("fetched", run[s], {}))
    /\ UNCHANGED <<clock, github, cached, lastSync, disturbed>>

\* GraphQL is rate limited: the REST listing is read from its first page,
\* whatever has been fetched, with the same options.
FallBackToREST(s) ==
    /\ run[s].pc = "request"
    /\ Becomes(s, [RunAt("rest", run[s], {}) EXCEPT !.since = run[s].since, !.cap = run[s].cap])
    /\ UNCHANGED <<clock, github, cached, cursor, ceiling, lastSync, disturbed>>

\* The items of the REST page that is read next: pages are counted, so that
\* they shift when the listing changes.
RESTNodes(r) ==
    {x \in Listing : Rank(x, Listing) \in (r.pageNo - 1) * Page(r) + 1 .. r.pageNo * Page(r)}

\* What is kept once that page is read: no more than the cap, if there is one.
RESTKept(r) ==
    LET fresh == Fresh(r, RESTNodes(r))
    IN  r.page \cup IF r.cap = 0 THEN fresh
                    ELSE Oldest(r.cap - Cardinality(r.page), fresh)

\* Mutant: a full page is taken for the last one.
RESTEndsEarly(r) ==
    \/ Cardinality(RESTNodes(r)) <= Page(r)
    \/ r.cap # 0 /\ Cardinality(RESTKept(r)) >= r.cap
    \/ r.pageNo = RESTPages

RESTEnds(r) ==
    \/ Cardinality(RESTNodes(r)) < Page(r)
    \/ r.cap # 0 /\ Cardinality(RESTKept(r)) >= r.cap
    \/ r.pageNo = RESTPages

\* A page of the REST listing; the rows are stored only after the last one,
\* and no progress is reported.
FetchRESTPage(s) ==
    /\ run[s].pc = "rest"
    /\ Becomes(s, IF RESTEnds(run[s])
                  THEN RunAt("rows", run[s], RESTKept(run[s]))
                  ELSE [run[s] EXCEPT !.pageNo = @ + 1, !.page = RESTKept(run[s])])
    /\ UNCHANGED <<clock, github, cached, cursor, ceiling, lastSync, disturbed>>

\* The error of a row of a REST listing is thrown away with the rows behind it.
RESTRowFails(s) ==
    /\ run[s].pc = "rows" /\ run[s].page # {}
    /\ Becomes(s, [run[s] EXCEPT !.page = {}])
    /\ disturbed' = TRUE
    /\ UNCHANGED <<clock, github, cached, cursor, ceiling, lastSync>>

RESTStored(s) ==
    /\ run[s].pc = "rows" /\ run[s].page = {}
    /\ Becomes(s, RunAt("fetched", run[s], {}))
    /\ UNCHANGED <<clock, github, cached, cursor, ceiling, lastSync, disturbed>>

\* The progress of the mirror and of the end stores an empty cursor for a
\* command.
LastProgress ==
    /\ run[Command].pc = "fetched"
    /\ cursor' = 0
    /\ Becomes(Command, [run[Command] EXCEPT !.pc = "done"])
    /\ UNCHANGED <<clock, github, cached, ceiling, lastSync, disturbed>>

\* MarkSyncJobComplete at the end: the time of the end becomes last_sync_at.
CompleteSync ==
    /\ run[Command].pc = "done" /\ clock < MaxTime
    /\ clock' = clock + 1
    /\ lastSync' = clock + 1
    /\ Becomes(Command, NoRun)
    /\ UNCHANGED <<github, cached, cursor, ceiling, disturbed>>

\* A sync without a job leaves the cursor, and no time.
ServedSyncEnds(s) ==
    /\ s # Command /\ run[s].pc = "fetched"
    /\ Becomes(s, NoRun)
    /\ UNCHANGED <<clock, github, cached, cursor, ceiling, lastSync, disturbed>>

\* The process dies, or a request, a row of a page or the mirror fails: what
\* is stored stays.
AbortSync(s) ==
    /\ Busy(s)
    /\ Becomes(s, NoRun)
    /\ UNCHANGED <<clock, github, cached, cursor, ceiling, lastSync, disturbed>>

\* CreateSyncJob begins the next job at an empty cursor; a job that a crash
\* left active is resumed with the cursor as it is.
NewJob ==
    /\ ~Busy(Command)
    /\ cursor' = 0 /\ ceiling' = 0
    /\ UNCHANGED <<clock, github, cached, lastSync, run, disturbed>>

\* Somebody updates a pull request.
Update(p) ==
    /\ clock < MaxTime
    /\ clock' = clock + 1
    /\ github' = [github EXCEPT ![p] = clock + 1]
    /\ disturbed' = (disturbed \/ Running)
    /\ UNCHANGED <<cached, cursor, ceiling, lastSync, run>>

-----------------------------------------------------------------------------
\* Every pull request has been updated at a time of its own.
FirstVersions ==
    CHOOSE f \in [PRs -> 1..Total] : \A p, q \in PRs : f[p] = f[q] => p = q

FetchInit ==
    /\ clock = Total
    /\ github = FirstVersions
    /\ cached = [p \in PRs |-> 0]
    /\ cursor = 0 /\ ceiling = 0 /\ lastSync = 0
    /\ run = [s \in Syncers |-> NoRun]
    /\ disturbed = FALSE

SyncStep(s) ==
    \/ StartSync(s) \/ FetchPage(s) \/ FetchErrors(s) \/ StorePR(s) \/ NextPage(s)
    \/ FallBackToREST(s) \/ FetchRESTPage(s) \/ RESTRowFails(s) \/ RESTStored(s)
    \/ ServedSyncEnds(s) \/ AbortSync(s)

FetchNext ==
    \/ \E s \in Syncers : SyncStep(s)
    \/ StartNothing \/ LastProgress \/ CompleteSync \/ NewJob
    \/ \E p \in PRs : Update(p)

FetchSpec == FetchInit /\ [][FetchNext]_fetchVars

-----------------------------------------------------------------------------
\* The cache refines an abstract replica: no page, fallback, crash or retry
\* ever puts an older version of a pull request over a newer one, unless two
\* runs have met, and none a version from the future.
Crowded == \E s \in Syncers : run[s].shared
AbstractReplica == INSTANCE Replica WITH remote <- github, copy <- cached, crowded <- Crowded
RefinesReplica  == AbstractReplica!RSpec

\* What the repository lock is for, and what serve, which does not take it,
\* breaks: no row of the cache goes back to an older version.
CacheMovesForward == [][\A p \in PRs : cached'[p] >= cached[p]]_fetchVars

\* When a sync completes, every open pull request is in the cache as GitHub
\* has it, through whatever aborted runs, resumed cursors, fallbacks and runs
\* of serve beside it, as long as nothing was ever updated while a sync ran,
\* and no run lost a row or ended without having listed all: last_sync_at is
\* the time of the end, and what was updated between a page and the end is
\* older.
CompleteCoversOpen ==
    [][lastSync' # lastSync /\ ~disturbed => cached = github]_fetchVars

\* A resumed run starts behind nothing it still needs: whatever lies before
\* a stored cursor, of a command or of serve, is in the cache, or has been
\* updated since and lies behind it (again while nothing was updated under a
\* running sync, and none ended early).
CursorSkipsNothing ==
    ~disturbed => \A p \in PRs : github[p] <= cursor => cached[p] = github[p]
=============================================================================
