# prATC: a verification development

prATC triages the pull requests of a repository: it syncs them from GitHub into
SQLite, reviews and groups them, plans what to merge, close or comment on, and
(`pratc serve --live`) carries the actions out. This directory holds TLA+ models
of the parts of prATC whose correctness depends on order, on failure, on several
actors or on rules that only fit together by care, the TLC configurations that
check them on small instances, and proofs that TLAPS checks for every value of
the constants. `PROJECT.json` ties every definition to the source lines it
models, every property to a run, and every hazard of the code to the properties
that would catch it.

    tlc -config MCWorkQueue.cfg MCWorkQueue     model-check one run
    tlapm WorkQueueProofs.tla                   check the proofs of one module

All paths below are relative to `src/`.

## 1. Inventory

| Component | Source (`internal/`) | State it keeps | Operations | What makes it hard |
|---|---|---|---|---|
| work queue | `workqueue/queue.go` | `action_work_items` (state, lease, payload), `action_proof_bundles`, `action_state_transitions`, `action_intents` | Upsert, EnqueueActionPlan, GetClaimable, Claim, Release, Heartbeat, ExpireLeases, Transition, AttachProof, UpsertIntent | a process mutex but no transaction: an operation is 2 to 2n statements, any of which may be the last; leases race the clock |
| live executor worker | `executor/{worker,executor,preflight,verification,live_mutator,circuit_breaker}.go` | goroutines, breaker counters | Run, ProcessOnce, ExecuteIntent, Acquire/release, fail, advance | writes to GitHub that cannot be undone, between database reads and writes; restarts, expired leases, re-planning |
| executor ledger | `cache/ledger.go`, `executor/ledger.go` | `executor_ledger` | RecordTransition, IsExecuted | it is the only memory of what was written to GitHub |
| queue HTTP API | `cmd/queue_api.go` | none | claim, release, heartbeat, proof, status | other workers, in between any two calls of the live worker |
| repository lock | `cmd/lock.go` | a lock file with a PID | AcquireRepoLock, ForceAcquireRepoLock, Release | a protocol over single system calls of several processes that may be killed |
| store | `cache/{sqlite,models}.go` | `sync_jobs`, `sync_progress`, `pull_requests`, `duplicate_groups`, `conflict_cache` | create, progress, pause, resume, complete, fail, cancel; upsert; save and load caches | several writers of one row, decided on rows read before; caches keyed by a fingerprint |
| sync commands | `cmd/{workflow,sync,sync_resumption,analyze}.go` | none but the job they run | take up, run, pause, sleep, resume, fail, complete | each has its own way to continue a job that another one left |
| resume scheduler | `sync/{scheduler,resume}.go` | running flag, cancel, done | Start, Stop, CheckAndResume | in another process and without the lock; Stop after Start after Stop |
| sync worker, metadata source | `sync/{worker,default_runner}.go`, `github/{client,rest}.go` | cursor, last sync time | SyncJob, SyncRepo, paging, fallback | the listing moves while it is paged; an aborted run is resumed |
| rate-limit budget | `telemetry/ratelimit/`, `sync/{chunk_sizing,ratelimit_runner,ratelimit_guard}.go` | remaining, reserved, reset time | Reserve, Release, RecordResponse, ShouldPause, chunk sizes | three rules for one number; arithmetic at the limits |
| per-PR sync queue | `sync/queue.go` | a list in memory | Enqueue, Dequeue, Process with backoff | retries among new items |
| sync progress events | `sync/sse.go` | a runner per repository, subscribers, replay | Start, publish, Stream | a stream that joins in the middle; a start racing the end of the run before |
| GitHub client | `github/`, `executor/auth.go` | none | reads and writes with retry, token fallback | answers that are lost, refused or final |
| git mirror | `repo/mirror.go`, `cmd/mirror.go` | refs of a bare repository | open, fetch, migrate, prune, clean | no lock: commands and syncs at once |
| analysis | `app/{service,actions}.go` | the caches above | Analyze, Actions: garbage, duplicates, conflicts, review, collapse, plan | groups pass through thresholds, caching and collapse |
| action lanes and plan | `actions/`, `app/actions.go` | none | classify, policy gate, preflights, intents, audit | what the queue and GitHub will be asked to do |
| planner and selection | `planning/`, `formula/`, `app/service.go` | none | filter, score, cut, select, order; pairwise shards | a pull request may be dropped at six places; goroutines over bounded channels |
| dependency and conflict graph | `graph/` | cached edges, fingerprints | build, incremental update, order | incremental result against full build |
| review | `review/` | none | four analyzers, vote, classifiers, layers, buckets, second passes | vocabularies and thresholds of many rules that must agree |
| settings | `settings/`, `cmd/serve.go` | one table | Get, Set, Delete, import, typed readings | check and write are two statements; two scopes |
| monitor | `monitor/data/`, `monitor/server/`, `monitor/tui/model.go` | subscribers, hashes | poll, broadcast, Stop, stream | closing channels others send on; dropped updates |
| HTTP server, other commands | `cmd/` | none | flags, wiring, output | what `serve` starts and stops |
| reports | `report/` | none | documents | layout |
| mutator wrappers, fix-and-merge, sandbox | `executor/{mutator,guarded,audit,fake_github}.go`, `cache/sqlite_ledger.go`, `sandbox/` | none | other entry points, test doubles | not reached from the worker |
| audit log, ML bridge, logging | `audit/`, `ml/`, `logger/`, `util/` | rows, a child process | append, call | nothing interleaves with the above |

How they interact. A command takes the repository lock and a sync job; the job's
worker asks GitHub, as far as the budget goes, for what changed since the last
sync and stores it row by row, then fetches refs into the mirror. A job that
runs out of budget is paused with a time to resume; the command sleeps, ends or
leaves it to the scheduler. The service reads the cache, peels off garbage,
groups duplicates, finds conflicts (both cached by a fingerprint of the corpus),
reviews each pull request, collapses the groups, and makes an action plan or a
merge plan. `EnqueueActionPlan` stores the plan's work items and then their
intents in the queue. Two kinds of clients work on the items: agents, through
the HTTP handlers, and the live worker, in goroutines of the server process.
Both go through `Queue`, whose mutex orders operations but does not make them
atomic with respect to a crash or a cancelled request. The worker reads the
intents of an item it claimed, passes the circuit breaker, consults the ledger,
asks GitHub (preflight), writes to GitHub, asks again (verification), writes the
ledger and finally moves the item through its states. The monitor polls the
store and hands what changed to the terminal and to WebSocket clients; settings
are rows that the handlers of `serve` change.

Some parts are complete but reached only from tests at this commit: `PRQueue`,
`QueueRunner`, `ResumeJob`, `IncrementalGraph`, the `Execute` methods of
`PairwiseExecutor`, `RunSecondPass`, `RunQuickWinPass`, `SetActionPlan` and
`WebSocketServer`. They are modelled (except `QueueRunner` and `ResumeJob`) by
what their code does; a test or a caller to come is their environment.

What correctness means:

- *Queue*: a live lease is never granted to somebody else; a stored lease means
  that the item is worked on; a proof reference is backed by a stored bundle;
  the trail never claims a state the item was not in; the states that stand for
  a write to GitHub are reached only in order; an expired claim comes back.
- *Executor*: the breaker's count is the number of live intents inside; nothing
  is written that no stored plan allowed; nothing is recorded as executed that
  GitHub did not do; nothing is written that is already recorded; verified items
  were executed; claimable work is taken.
- *Repository lock*: at most one holder, named by the file; a dead run's file
  does not keep the next run out.
- *Sync jobs*: nobody works on a job that the store shows as paused or finished;
  a sleeping job can be woken; no job stays active for ever.
- *Sync*: the cache is a replica of GitHub that never goes back; a resumed run
  skips nothing; a completed sync covers what is open; what is reported to have
  succeeded has; a mirror has what it does not report as skipped; a sync runs
  exactly as far as the budget lets it.
- *Analysis and planning*: similar pull requests stay together through caching,
  and what a collapse closes is superseded by what stays; every pull request has
  at most one fate in a plan; stacks are merged in order; the incremental graph
  is the full one; no goroutine waits for ever; what is to be merged now has
  nothing against it.
- *Settings and monitor*: valid settings stay valid; nothing is sent on a closed
  channel.

## 2. Plan

Done: `WorkQueue` (with `LeaseService`, which it implements), `Executor` (which
EXTENDS `WorkQueue` and composes it with worker goroutines, agents, the planner,
GitHub and restarts, and implements
`WriteLedger`), `RepoLock`, the modules of the sync side (checked through
`MCServices`) and those of the analysis side (checked through `MCPipeline`), and
the proofs of section 5 about all of them.

Every safety property and every action property that a passing run checks is
stated by a theorem, and so is every refinement. What is left to TLC is liveness
(section 5).

## 3. Modules

| Module | Models | Notes |
|---|---|---|
| `WorkQueue` | `workqueue/queue.go` | extended by everything about the queue |
| `LeaseService` | (abstract) | what a client may rely on about leases |
| `Executor` | `executor/`, the ledger, the handlers of `queue_api.go` | EXTENDS `WorkQueue` |
| `WriteLedger` | (abstract) | what the executor promises of its writes |
| `RepoLock` | `cmd/lock.go` | independent |
| `SyncJobs` | `sync_jobs` and `sync_progress` of the store, the commands, the scheduler's check | |
| `SyncFetch` | `SyncJob`, `SyncRepo`, the paging of both APIs, the rows | refines `Replica` |
| `Replica` | (abstract) | what a local copy promises |
| `Budget` | the budget manager, the estimate, both chunk rules | |
| `PRQueue`, `ResumeScheduler`, `ProgressEvents`, `GitHubCalls`, `Mirrors` | one file each, see `PROJECT.json` | |
| `Duplicates`, `ActionLanes` | grouping, nomination, collapse; lanes, policy gate, audit | operators |
| `Analysis` | `Service.Analyze` and `Actions` over several runs and the caches | EXTENDS both |
| `DependencyGraph`, `Formula` | `graph/graph.go`; `formula/` | operators |
| `Planning` | `PlanWithOptions`, pool selector, hierarchical planner | EXTENDS both |
| `IncrementalGraph` | `graph/incremental.go` | EXTENDS `DependencyGraph` |
| `PairwiseShards` | `planning/pairwise.go` | goroutines and channels |
| `Analyzers` | the four analyzers | operators |
| `Review` | the orchestrator, classifiers, layers, second passes | EXTENDS `Analyzers` |
| `Settings` | `settings/` and its handlers | |
| `Broadcaster` | `monitor/data/broadcaster.go` and its two subscribers | |
| `MCWorkQueue`, `MCExecutor`, `MCRepoLock` | | bounds, sets of values and symmetry for TLC |
| `MCServices`, `MCPipeline` | | the modules of the sync side and of the analysis side |
| `WorkQueueProofs`, `ExecutorProofs`, `RepoLockProofs`, `SyncFetchProofs`, `PlanningProofs` | | theorems about the module of that name |
| `ServicesProofs` | | theorems about `ResumeScheduler`, `GitHubCalls`, `Budget`, `Mirrors` |
| `SyncProofs` | | theorems about `SyncJobs`, `PRQueue`, `ProgressEvents` |
| `PipelineProofs` | | theorems about the other modules of the analysis side |

`MCServices` and `MCPipeline` hold the state of all their modules, and a constant
of the behaviour (`which`) says which one moves, so that one run checks each of
them by itself and never their product. They are separate programs or stages
that meet only in the rows named below, and each models what the others do to
those rows as actions of its own.

### 3.1 WorkQueue

`state`, `lease` and `refs` are the columns and the payload of
`action_work_items` (an item that is not stored is "absent"), `owner` the item of
each stored proof bundle, `tail` the `to_state` of an item's last transition row.
`clock` is `Queue.now`, in ticks; a lease with expiry `e` has expired when
`e <= clock`, and an empty expiry counts as expired, as in `leaseExpired`.

Granularity is the SQL statement. An operation takes `Queue.mu`, reads, decides
and issues its first statement in one action (reads under the mutex see what it
will overwrite). What it still has to issue is kept in `call` (the rest of
`Claim` over an expired claim, of `AttachProof`, of the `ExpireLeases` loop) and
in `row` (the transition row that follows a save). No other operation starts
until both are empty: `MuFree` is the mutex. `EnqueueActionPlan` takes the mutex
twice per item, so the row it logs in between is `late`. `Cancel` is a request
whose context is cancelled, or a statement that SQLite refuses: the rest of the
call is never issued. `Crash` is the death of the process. Both are bounded
together by `MaxCrash`.

Deliberate readings of the code: `Claim` refuses neither an escalated nor a
verified item, since an empty lease counts as expired (`queue.go:303-306`);
`Heartbeat` renews a lease that has already expired; `AttachProof` of a bundle
that is stored already asks neither for the lease nor for the state;
`Transition` ignores the actor; `ExpireLeases` reads the claimed items and the
clock once. Payload fields that nothing decides on, reasons and metadata of
rows, and the read-only reports are left out.

### 3.2 Executor

One record per goroutine (`th`): where it is in `Run`, `ProcessOnce` and
`ExecuteIntent`, the item, the intents it loaded (a snapshot: `batch`, `left`,
`cur`) and, on the way through the four `Transition` calls, the state it believes
the item to be in (`at`). Every call to the queue, the ledger or GitHub is a
step. A queue call of a goroutine is the queue's own action conjoined with the
goroutine's move; when the call needs more statements, `holder` remembers who
waits for it, so that a call cut short ends that goroutine, as an error of
`ProcessOnce` ends `Run`.

- `stored` is `action_intents`; `writing` the intents a plan has yet to store.
  `EnqueueActionPlan` is driven by the environment, one plan at a time.
- `ledger` is the executed row of an intent, with its dry-run flag. The other
  ledger rows are written and never read by the executor; they appear only where
  their failure ends the intent.
- `inFlight` is the breaker's counter. `serve` runs the worker for one
  repository, so the smaller of the global and the per-repository limit decides
  and one counter stands for both.
- `pr` and `landed` are GitHub: the state of each pull request and how often the
  write of each intent was performed. A call may fail before or after it took
  effect. A merge of a closed pull request is refused. `close` posts its reason
  and then closes; `landed` counts the comment.
- `granted` is a history variable, for `WritesGranted` and for
  `WritesFollowTheLedger`: the executor implements `WriteLedger`, in which an intent
  is written only when it was granted and is not recorded, is recorded only once
  it was performed, and nothing is taken back. What is recorded there are the
  live rows of `ledger`.
- The idempotency key is a function of the intent's id within a lane, and is
  identified with the id.
- The loop over intents may take them in any order; the code orders them.
- Agents issue every request of `queue_api.go` at any time, under worker ids
  that no server start uses. A start draws a fresh worker id.
- `ReadsFail` says whether a database read may fail (which `IsExecuted` answers
  with "no").

### 3.3 RepoLock

`path` is the inode the lock path names, if any, `written` says which files
already hold a PID; a file is named by the process that created it. `pc` walks a
process through `AcquireRepoLock`: create exclusively, write, or read the file
found, look the PID up in the process table and its command line
(`Matches`, `LooksStale`), remove what looks stale and create once more, undo on
a failure to write; `ForceAcquireRepoLock` removes and creates. `Crash` kills a
process anywhere. `Named` is the set of runs whose command line shows the
normalized repository name. `Recycle` lets a dead process's number be used by
a process that is not prATC; that it be used by another prATC run of the same
repository is left out. `disturbed` records that two attempts overlapped or that
a live lock was forced, and is used only to state what remains true without
that.

### 3.4 The sync side

`SyncJobs` keeps the status of every job, their order by `updated_at`, the
repository's progress row (whether it exists, its job, the resume time) and the
one command that holds the repository lock (`cmd`: which command, where in it,
its job). Every statement or transaction of the store is a step: `CreateSyncJob`
inserts the job and then makes or takes over the progress row (`LinkSyncJob`),
`MarkSyncJobComplete` finishes the job and then stamps the row (`Stamp`), and a
crash or a failing statement may come between. Pausing without a row loses the
resume time, and a row that only `SaveCursor` has made names no job, so that
resuming fails. Every command has its own continuation:
`workflow` sleeps after a pause and wakes the job, `sync --wait` sleeps and goes
on with its job as it is (an interrupt in the sleep fails it), `sync` ends,
`analyze` makes a job and ends, so that its background goroutine comes to nothing.
The
scheduler is in another process and takes no lock: it lists the paused jobs that
are due and resumes them one by one. A command may crash, also with its lock.

`SyncFetch` gives every pull request a version, the time of its last update; the
listing is the set of pairs of a version and its pull request, and the place of
an item in the listing is the number of items that are not newer. A cursor is the
version the page before it ends at. The lock keeps the commands apart, so that
they are one syncer (`Command`); each of `Servers` is a `serve` process whose
`POST /api/repos/.../sync` runs `SyncRepo` without the lock and without a job: it
saves cursors, and neither progress nor the time of its end. A run picks up a
cursor or what was updated since the last sync, and ends at its cap, at the
ceiling stored with the cursor or at the number of pull requests there are. Over
GraphQL it stores page after page, row by row, whatever version a row has; the
progress of a page stores an empty cursor and the ceiling, the end of a page the
cursor of the next one. An answer with errors and without data is an empty last
page (`FetchErrors`), and a command whose runner returns without having run
anything completes its job all the same (`StartNothing`).
Over REST, which it may fall back to at any page, it counts pages from the first
(so that items shift between them when GitHub changes), reads at most `RESTPages`
of them and stores the rows only at the end; a row that fails is thrown away with
those behind it, and the run goes on, because the error of `OnPage` is dropped
(`github/rest.go:201`). The progress of the mirror and of the end stores an empty
cursor once more before the run stores the time of its end as `last_sync_at`. A
run may be aborted anywhere; GitHub may change anywhere. Two history variables
serve the properties: `disturbed` remembers that GitHub changed while a run was at
work, that a REST row failed, or that a run ended without listing all
(`FetchErrors`, `StartNothing`); `shared`, in a run, that it has met another.
`Replica` is the abstract specification: the copy never has a version from the
future, and goes back only under a run that has met another (`crowded`).

`Budget` uses the code's own numbers (5000 requests, the tiers at 2000, 500 and
200, the chunk of at least 10, three requests per pull request) on values at
their borders. `PRQueue` is the list with its order and the two backoffs.
`ResumeScheduler` has one state per goroutine ever started and the handles that
`Stop` takes and both sides clear. `ProgressEvents` numbers the events; a stream
has what it has written and what waits in its channel. `GitHubCalls` is one call
made of stages, each tried until an answer counts; a write may take effect
though its answer is lost. GraphQL does not tell an answer with errors from a
good one, so that counts, checks and reviews may be missing from it; approving
reviews are counted among the first hundred in state APPROVED, two of one
reviewer as two. A merge of what is merged already, or of what has nothing to
merge, may be answered with a 409 or with a 2xx that has a message and no commit;
`Client.Merge` reports both as success. The model takes the message of such a 2xx
to be what the code's comment says it is, "No commits between" (`client.go:975`);
the code does not read it. `Mirrors` is the set of refs of each directory with
the version each was fetched at. A fetch either takes the pull requests one by
one and reports those that fail (`FetchAllWithSkipped`) or takes them in batches,
of which the first that fails ends it (`FetchAllBatched`); the mirror commands
move and remove directories meanwhile.

### 3.5 The analysis side

`Duplicates`, `ActionLanes`, `DependencyGraph`, `Formula` and `Analyzers` are pure
operators with the rules of the code; similarities are levels between the
thresholds the code compares with, scores are whole numbers. A corpus below
`ExactBelow` (150 in the code) compares every pair, a larger one the pairs whose
hashes collide in a band (`CandidatePairs`); which pairs these are (`colliding`) is an
input, drawn before the first step, since it depends on the texts of the two pull
requests alone. `Analysis` is the
service's run over them, phase by phase, with the rows both caches keep from run
to run and a change of the pull requests' contents between runs. `Planning` is
one call of `PlanWithOptions`, phase by phase, for any of the options and shapes
of pull requests; a sorted list of candidates is the set of them with their
ranks, and cutting the list keeps the first ranks. `Review` takes one pull request through the analyzers (each may
time out), vote, classifiers, layers and bucket, and then through the second
passes. `IncrementalGraph` interleaves updates with changes, closing and
reopening; `PairwiseShards` is every goroutine and channel of one execution, each
step under a guard of its own name (`MaySpawn` to `MayReturn`). A conflict is
counted with its sending; the code counts it in the statement behind, so that the
collector, which compares the count with the threshold, may see it without the
last of each running shard (`late`).
`Settings` has a request per client, each statement a step, and a table of rows
keyed by scope and key, where later values are laid over earlier ones. `Broadcaster`
has the goroutines that send (the poll loop and those of new action plans),
`Stop`, the subscribers' channels and what each subscriber shows.

## 4. Runs

| Run | Bounds | Shows |
|---|---|---|
| `wq_safety` | 2 items, 2 workers, 1 bundle, clock to 2, 1 cut | five queue properties, `LeaseService` refined |
| `wq_live` | 1 item, 2 workers, clock to 3, 1 cut | an expired claim is returned |
| `exec_serve` | 1 item with a comment and a merge, 1 goroutine, 2 server starts, 1 agent, 2 plans under any of three policies, failing reads | the configuration `serve --live` sets up |
| `exec_pool` | 1 item, 2 goroutines under one worker id, breaker limit 1, 1 agent with proofs | the breaker protects the ledger check; `WriteLedger` refined; work is taken |
| `lock_undisturbed` | 3 runs, one forcing, 1 kill | exclusion without overlap; stale files yield |
| `services` | 3 jobs, 2 errors, 1 crash, 2 checks of the scheduler; 3 pull requests in pages of 2, uncapped or with a cap of 3, 2 REST pages, clock to 6, one run at a time, and the same uncapped with a sync of `serve` beside the command's, clock to 4; budget values at every border, reserves 200 and 500; 3 queued items, 2 loops; 3 starts of the scheduler; 2 streams of capacity 2, 5 events, 2 runs; 2 tokens, 2 retries; 1 mirror of 3 pull requests in batches of 2 | the twelve properties of the sync side, `Replica` refined |
| `pipeline` | 3 pull requests, compared in full below 3 and by colliding hashes from 3 on, 2 analyses; 3 edits of the graph; 3 in the pool, shards of 1 or 2, 1 or 2 workers, 1 place in the channel; several hundred pull requests to review; 2 clients, 3 settings requests; 1 screen, 1 socket, 1 place, 1 change, 1 action plan | the twelve properties of the analysis side |
| `exec_once`, `exec_disjoint`, `lock_race`, `sync_capped`, `review_conflict` | as small as shows it | one disagreement each, section 6 |

The queue's type invariant is a part of `ExecTypeOK` and is checked by `exec_serve`.
`NoWriteAfterExecuted`, for which section 5 has a theorem, is what the refinement of
`WriteLedger` by live plans says of a write.

Why the bounds are enough. A lease needs one tick to expire; with a clock to 2 an
item is claimed, expires, is claimed by the other worker and expires again. Two
workers are what every race over a lease needs, and two items let a sweep be cut
between its items and a bundle id be presented for the wrong item. One cut
suffices to leave any operation unfinished; what follows it is an ordinary run
from a state that the cut made reachable. Two starts of the server give one
restart at any point, two plans let an item be re-planned under another policy
while a goroutine works on the older intents, and two writes per intent
(`MaxLanded`) let a write be repeated once, which is what the properties tell
apart. `serve` starts one goroutine; `exec_pool` uses two because
`WorkerConfig.Concurrency` allows it and the breaker exists for that case. Three
runs of the lock are a holder, an attempt, and one more that overlaps it.

Three sync jobs are one that a command left, one that the scheduler resumed and
the one that runs. Three pull requests in pages of two make a listing with a
border that an update moves a row across; the cap of 3 does not cut the list
short, since `sync_capped` shows what happens when it does. A clock to 6 lets each
pull request appear, one of them change, and two syncs run. Two runs at once take
the product of their places in the code, so that part (`which` is "served") has one
tick only: an update, between the runs or under them, or the end of a sync, at any
place of either run. Two retries of two
tokens exhaust each kind of loop. Two REST pages of two hold the
three as well. Three refs in batches of two make one full batch and one that is
not. Three pull requests
make a chain of duplicate groups and a stack with a cycle. A shard threshold of
one lets a shard stop early, a channel with one place lets every sender block.
The reviewed pull requests are built around the borders of each rule, each
differing from a harmless one in the features that some rule combines. The
number of edits lets a pull request change, close and come back with an update
of the graph in between.

Symmetry is used only for sets whose members no formula tells apart, and only in
runs without liveness properties.

CHECK_DEADLOCK is FALSE in every run: the clock and the counters are bounded, so
an instance may run out of steps, a queue without clients is at rest, and a
pipeline ends. `NobodyWaitsForever` states the absence of deadlock where the
code's goroutines wait for one another, over the guards of their steps (each step
but the cancellation is possible when its guard holds), and `EveryStepCounts` that
they cannot go on for ever: no step but the one cancellation leaves what is still
to be done (`Todo`) as it is, and none adds to it.

### Fairness

- `WorkQueue!FairSpec`: WF of `Statement` (a call that holds the mutex goes on:
  no statement waits for anything else), WF of `Tick`, SF of `ExpireLeases`.
  The last is an assumption about the clients: somebody polls. `GetClaimable`
  and the status handler both start with the sweep, the worker polls in a loop,
  and a waiting caller of `sync.Mutex` is not starved.
- `Executor!ExecFairSpec`: SF of each goroutine (for the same reason: it
  competes for the mutex with agents that may keep it busy), WF of queue
  statements and of time. Nothing is assumed of agents, of planners or of
  GitHub's answers.
- `RepoLock!FairSpec`: WF of each process's acquire steps. Nothing is assumed
  about a holder ever releasing.
- `SyncJobs!JobsFairness`, used by `services` for its part "jobs": SF of a sync ending with success or
  an error (the budget is reset every hour, so a run that is tried again and
  again is not paused for ever), WF of a command's next step, of time and of the
  scheduler's checks; WF of `StartWorkflow` says that somebody runs the workflow
  again, without which a job that a crash left would rightly stay as it is.
- `Broadcaster!MonitorFairness`, used by one counterexample only: goroutines that
  can go on do.

The clock stops at its bound, and a lease that ends later never expires in the
instance; the liveness properties speak of leases that have expired, for which
enough ticks are left.

## 5. Proofs

Every theorem is about the modules as the runs check them, for every value of
the constants that their `ASSUME`s allow; what a theorem assumes beyond that
is named here. Each invariant proof has the same shape: an inductive invariant,
its base case, one step per action, and a temporal step.

### The queue (`WorkQueueProofs`)

`TypeCorrect`, `LeasesAreWorked`, `ProofsAreBacked`, `ImplementsLeases` (the step
simulation against `LeaseService`), `StatesFollowTheTable`, `RowsAreTrue`, for any
items, workers, bundles, lease lengths and bounds.

None of the invariants is inductive alone: a statement that a call has yet to
issue rests on what the call read before its first one. `Inv` therefore adds
`CallOK`: a pending `claim` still finds its item claimed under an expired lease,
so that finishing it is a grant; a pending `attach` still finds its item claimed
and its bundle stored for that item; a pending sweep still finds its items
claimed. These facts survive because the mutex keeps other operations out and
time only makes leases expire. The refinement uses `Inv` for exactly that:
without `CallOK` the second half of a claim could grant over a live lease.
`RowsAreTrue` adds that a row which is still to be written names the state its
item has.

### The executor (`ExecutorProofs`)

`ExecTypeCorrect`, `SlotsAreAccounted`, `WritesAreGranted`, `ExecutedIsPerformed`,
`ExecutorKeepsLeases` (the queue with everything around it still implements
`LeaseService`), `VerifiedIsExecuted`, `NoWriteIsRepeated` and `ExecutorKeepsLedger`
(the executor implements `WriteLedger`).

`ExecInv` is the queue's `Inv` with `ThreadsOK`, `HolderOK` and `TablesOK`.
`ThreadOK` says of each goroutine, for each place in its code, what it remembers
and what the tables say about it: that the intents of its batch were granted,
that those it is through with have their rows in the ledger, that after the write
the write has landed. The tables it speaks of (`granted`, `ledger`, `landed`)
only grow, which is why no other goroutine, agent, plan or restart can make it
false; a goroutine's own steps are one lemma (`GoroutineStep`) and everything else
another (`OtherStep`). `HolderOK` says who waits for the rest of a queue call, so
that a call cut short stops the right goroutine. `SlotsAccounted` counts
goroutines, for which `Threads` must be finite.

`NoWriteIsRepeated` needs the breaker's default of one slot (`worker.go:46`), live
plans only and a ledger that can be read; then what a goroutine saw in the ledger
is still so when it writes (`Alone`), however many goroutines there are.
`ExecutorKeepsLedger` rests on the same three and says more: a stored plan grants, a
call that GitHub performed performs, the live row that a goroutine writes
records, and every other step of goroutines, agents, queue and restarts is none of
the ledger's. That a row follows its write is the part of `ThreadOK` about
`landed`.
Without the others both are false: a dry run takes no slot and its row may come
between another goroutine's check and its write, and a ledger read that fails
answers "not executed".

### The repository lock (`RepoLockProofs`)

`LockTypeCorrect`, and, if every command line shows the repository's name (`Named =
Procs`), `FileNamesHolderAlways` and from it `UndisturbedRunsExclude`: there is at
most one process inside. For any runs, any forcers and any number of kills.

The invariant has two layers. `LockInv` holds unconditionally: the types, and
that the process which created the file at the path is still writing it, holds
the lock or is dead. `Quiet` is what holds until attempts overlap or a live lock
is forced: at most one attempt; a holder's file is written and at the path; and
what the attempt knows at each of its steps (`Knows`), in particular that the PID
it read is the holder's, if there is a holder. The hypothesis is used in one
place, the step that decides that a PID is stale; `MCRepoLockCase.cfg` shows that
the step is wrong without it.

### The sync side (`SyncProofs`, `SyncFetchProofs`, `ServicesProofs`)

- `JobsAreOwned`, both properties of `SyncJobs`. `JobsInv` adds that the progress
  row links a job once there is one, unless a crash or a failure has cut
  `CreateSyncJob` (then `SleeperHasWakeUp` claims nothing, and `PausedIsLinked` in
  section 6 shows why), that `sync --wait` alone sleeps with its job
  in hand, and that from the pause on (not only while asleep) something can wake
  the job.
- `CacheIsReplica`: the refinement of `Replica`, with any number of serve processes
  beside the command. `FetchInv` says that no row is ahead of GitHub, that runs
  which are under way together know of each other, and that what a run that has
  met no other has yet to store is not behind its row; the last is why a late row
  cannot take the cache back; in company it can (`CacheMovesForward`, section 6).
- `CursorIsSafe` and `CompleteIsCovered`, with serve processes too, under `NothingIsCutOff`: every cap is 0 or
  at least the number of pull requests, and REST has pages for all of them.
  `sync_capped` shows that the hypothesis is needed. Both speak of syncs that were
  not `disturbed`. `CoverInv` says, of every run at once, how far each
  kind of run has come: a GraphQL run has, or has in hand, everything up to where
  it reads on; a REST run everything on its pages so far, by rank in the
  listing. The lemmas on listings (a page is closed towards older items; ranks
  are the numbers from one to the length) are by cardinality.
- `StopReachesTheLoop`, if one goroutine starts and stops the scheduler, as
  the program does. `SchedInv` adds that flag and handle agree and that a cancelled
  goroutine still has the handles or is waited for, so that what it clears is
  its own.
- `ReportsAreTrue`: `CallsInv` says, for each stage of a call, what an answer that
  counts was an answer to; a merge that succeeds has merged, or there was nothing
  left to merge.
- `BudgetIsSpentWell`: arithmetic over the two chunk rules and the tiers for every
  total, remainder and reservation.
- `MirrorIsFetched`: `MirrorsInv` says that a fetch under way has what it is
  through with, in the batches it has taken, or has reported it.
- `QueueServesInOrder`: the list is sorted, through the binary insertion's
  position and the removal's shift.
- `EventsComeInOrder`: what a stream gets is a run of consecutive events, where
  replay goes over into the channel and where a slow stream lost some.

### The analysis side (`PipelineProofs`, `PlanningProofs`)

- `GlobalSettingsStayValid`: what a client that is not outdated has read is what
  is stored (`ReadsAreFresh`), and validity depends on keys and values only.
- `PollsNeverPanic`: the channels listed are open; `Stop` waits for the loop; the
  copy that a poll sends to is open while it is counted in.
- `PartialListsTell`: nothing that a shard found is lost between its worker, the
  channels and the list, and each pair of the pool is in some shard.
- `ComparisonGoesOn`, the absence of deadlock: shards are started in order and the
  metrics channel holds what ended shards sent (`WaitInv`), hence there is a place
  in it for each shard; a shard that waits for a place in the conflict channel
  leaves the caller one to read. It speaks of the guards of the steps and not of
  ENABLED.
- `EveryStepIsProgress`: shards share the pairs out, and no pair is in the channel
  twice, or there and still before a shard (`SharedOut`); so what is sent or read
  is out of `Todo` for good.
- `UpdateFindsTheBuild`, if no head has the name of its base: an update visits the
  pairs with a changed member, and every edge is found again by its key. A
  fork's head may have that name, and then the two differ (section 6): the test
  of `graph.go` that stacks are on different bases has no counterpart in
  `incremental.go`.
- `GroupsKeepThePairs`, `OnlySupersededAreClosed`, `PlansAreSafe`: groups are the
  pairs above the thresholds among those compared (all, or those whose hashes
  collide), from a comparison as from the cache; a chain of
  groups has a top, since "better" is a strict order on a finite set; and
  classification, gate and audits agree on what may be merged or closed, through
  scores that are shown to be percentages.
- `MergeNowIsClean`: what a second pass recovers is marked (`RecoveredIsMarked`),
  and the first bucket takes nothing with a blocker.
- `FatesAreSingle`: `FatesAgree` follows the candidates through the stages of a plan.
  Until the selection a candidate has no rejection and every other pull request
  one at most; whichever of the strategies then selects, what it does not select
  is rejected once. For the formula engine this rests on its selections being of
  the pool and of the target's size at most; for the rankings of both
  strategies, on ranks of a strict order being the numbers from one to the size
  of what is ranked.
- `OrderIsSound`: the merge order is the last value of a recursive function, which
  places one pull request more for each number. That such a function exists, and
  that each of its values lists its pull requests once and behind what they
  need, is shown by least counterexamples, for want of an induction rule.
  When none of the rest is ready the rest holds a circle of stacks, and the
  order falls back to numbers. `ConflictsExcluded` says that a candidate that
  is kept under `exclude_conflicts` is in no warning, so that no part of what is
  kept conflicts.

The assumptions that these proofs brought to light are stated in the modules:
finitely many goroutines (`Executor`) and pull requests (`Analysis`, `Planning`),
and counts, scores and targets that are natural numbers (`Analysis`, `Review`,
`Planning`).

### Only model-checked

- Liveness, since fairness is out of the prover's reach: `ExpiredClaimReturned`,
  `WorkIsTaken`, `StaleLockYields`, `ActiveDrained`.
- That a comparison returns, given that its goroutines are scheduled, is argued
  here and not stated as a formula: `ComparisonGoesOn` gives some goroutine its next
  step, `EveryStepIsProgress` makes each step but the cancellation shrink one of
  finitely many finite sets.
- Every property of a run that expects a violation, of course.

No RECURSIVE operator is used in any module.

## 6. Where the program differs from what it says

Each of these is a run whose expected outcome is a violation.

- `exec_once`: a restart between a write to GitHub and the ledger row repeats the
  write (`VERSION2.0.md:385`).
- `exec_disjoint`: the worker sends no heartbeat, and its `Transition` after the
  lease ran out takes the item from the agent that claimed it
  (`VERSION2.0.md:358`).
- `lock_race`: a lock file is created before it is written, and an empty file
  looks stale (`README.md:71`).
- `sync_capped`: every sync is capped at one chunk of the budget and marked
  complete all the same; what is beyond never arrives, because the next sync asks
  for what changed since (`docs/maxprs-cap-audit.md:38`).
- `review_conflict`: a pull request with conflicts is not recognised as one by the
  merge classifier and may be put into the now bucket
  (`analyzer_reliability.go:266`).

### Further counterexamples

Each property below states what one might expect and is violated by what the code
does (`tlc -config X.cfg M`, with the module that the name begins with; where the
table says "with", put the property in the place of that configuration's own):

| Configuration | Property | What happens |
|---|---|---|
| `MCWorkQueueSweep` | `ExpiredLeaseReturned` | the lease of an item that `AttachProof` moved to preflighted is never returned (`VERSION2.0.md:359`) |
| `MCExecutorStranded` | `NeverInvisible` | an item between two of the four `Transition` calls is listed by nobody after a restart (`TODO.md:142`) |
| `MCRepoLockCase` | `UndisturbedExclusion` | a command line with capitals in the repository name is not recognised (`README.md:71-72`) |
| `MCServices`, with | `TerminalStays` | a job that `sync --wait` completes after the scheduler listed it as paused is resumed |
| `MCServices`, with | `CacheMovesForward` | the sync that `serve` starts takes no repository lock (`cmd/serve.go:860`) and the upsert is unconditional (`sqlite.go:90-118`), so that a page fetched before an update overwrites the row that the command's sync stored after it (`README.md:71`) |
| `MCServices`, with | `PausedIsLinked` | `CreateSyncJob` is two statements without a transaction (`sqlite.go:459-482`); a job whose progress row was lost to a crash is taken up, paused, and can never be resumed (`ROADMAP.md:128`) |
| `MCServices`, with | `TrackedMirrorsKept` | `mirror prune` removes mirrors of repositories that are tracked (`cmd/mirror.go:262`) |
| `MCPipeline`, with | `GroupsAreSaved` | two groups with one canonical meet the primary key of the cache, whose rows are then not saved at all |
| `MCPipelineStale` | `ConflictsAreCurrent` | conflicts are cached by the set of numbers, so those of changed pull requests are stale |
| `MCPipeline`, with | `EveryPRAccountedFor` | what the pool selector leaves out is neither selected nor rejected (`README.md:227`) |
| `MCPipeline`, with | `JunkIsNotNow` | a pull request that exits at the junk gate may be in the now bucket (`orchestrator.go:481`) |
| `MCPipeline`, with | `EffectiveStaysValid` | a global write after a repository's override leaves settings in effect that no write would be allowed to make, and every later write for that repository is refused |
| `MCPipeline`, with | `FlagIsTurnedOff` | a `github_runtime` object that does not mention a flag turns it off, although its default is on |
| `MCPipeline`, with | `NobodyPanics` | the goroutine of a new action plan counts itself in after `Stop` has waited, and sends on a closed channel |
| `MCPipelineScreen` | `JobsAreShown` | the terminal forwards updates into a channel that nothing reads (`cmd/monitor.go:30`) |

### Read in the code, and kept in the models as it is

- Duplicates: live groups are formed at 0.85 and those of a cached corpus split
  at 0.80, so a pair may change sides between runs. The canonical of a group may
  itself be one to reject or close, the collapse's canonical is the lowest number
  even of a draft, and a canonical's conflict evidence is that of the candidate's
  own footprint. Only the canonical is told of its duplicates
  (`service.go:801`). Garbage and pull requests whose review failed get no work
  item.
- Planning: the hierarchical planner may select pull requests of clusters it did
  not select; `IsPartial` never reaches `Partial` of the answer; the early return
  of an empty pool leaves the truncation fields out; a blocked pull request in
  merge_now keeps the next action "merge".
- Pairwise: a cancelled execution returns no error; one conflicting side is enough
  there, where the graph needs both. The incremental graph keeps the reasons of
  edges from when they were made and takes a fork's head for a base branch of the
  same name.
- Review: evidence from diffs is never available from the program's own mirrors,
  which are fetched to `refs/pr/N/head` and read at `refs/pull/N/head`; were it
  available, subsystem tags alone would keep every analyzer from merge_now. The
  guard of the quick-win pass at `quickwin.go:139` excludes nothing.
- Sync: a sync whose budget check passes while it should pause does nothing and
  is marked complete; the `errors` of a GraphQL answer are ignored; `sync --wait` runs its job while the row says paused; a
  workflow whose job the scheduler has resumed fails to find a paused one; the
  creation or resumption of a job clears the schedule other jobs share; the
  cursor that progress clears is documented as resumable
  (`docs/database-schema.md:277`); closed pull requests stay in the cache; the
  time of the end becomes `last_sync_at`, so that an update during a sync may be
  missed by the next. A live fetch that fails falls back to fixtures.
- GitHub: a comment is a POST that is sent again after a server error; a merge
  with nothing to merge is reported as success.
- Duplicates of a large corpus: a similar pair whose hashes differ in both bands
  is not compared, so that a group may disappear as the corpus grows past 150.
- Progress events: a Start between the last event of a run and the end of its
  goroutine is swallowed.
- Settings: a GET ignores its scope; zero cannot override; objects that cannot be
  read are passed over; values of the rate policy are not validated and
  `ResolveGitHubAccess` discards the policy it reads; `max_prs` is never used.
- Monitor: the hash of the jobs is an exclusive or without their progress, so equal
  statuses cancel; a dropped update is remembered as sent; a late subscriber sees
  nothing until a value changes.

## 7. Not modelled

- The bootstrap file (`PRATC_BOOTSTRAP_PATH`), which a sync may read before it
  asks GitHub and which may then overwrite rows with older ones: `Replica` is
  refined only without it.
- A GraphQL answer with errors and part of a page: `FetchErrors` has those without
  data only.
- Cluster building, similarity scores and time decay are floating-point
  arithmetic over texts and appear as inputs. The `planner` and `filter` packages
  are used for clusters only.
- `QueueRunner` with its policy and `ResumeJob`, which no command uses.
- `merged_pr_index`, `pr_files` and `ci_status` of the store (their content is an
  input of the analysis; the instance of `pipeline` has no merged pull requests),
  migrations, etags, the discovery of logins, the timeline of the monitor, DOT
  output: single reads or writes that nothing interleaves with.
- Reports and the panels of the terminal lay out finished results. Commands
  parse flags and print, except where sections 3.1 to 3.5 say otherwise.
- `ExecuteFixAndMerge`, the sandbox and the mutator wrappers of the executor are
  not called by the worker; the ML bridge calls a child process; the audit log
  appends rows.

`PROJECT.json` lists every component with its status, and every hazard that no
property covers with the reason.
