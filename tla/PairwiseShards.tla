--------------------------- MODULE PairwiseShards ---------------------------
(***************************************************************************)
(* PairwiseExecutor (internal/planning/pairwise.go): the pairs of a pool   *)
(* are compared by one goroutine per shard, at most MaxWorkers at a time;  *)
(* the conflicts go through a channel of BackpressureSize places to the    *)
(* caller, which reads the channel of metrics only when the conflicts are  *)
(* all read.  A shard ends early at its threshold (ExecuteSharded), or all *)
(* of them at a common one (ExecuteWithEarlyExit), and the context may be  *)
(* cancelled at any time.                                                  *)
(***************************************************************************)
EXTENDS Integers, Sequences, FiniteSets, FiniteSetsExt

CONSTANTS
  Pool,              \* number of pull requests of the pool, 1..Pool in order
  ShardSizes, Workers, Thresholds, Backpressures   \* configurations

ASSUME ShardsAssumption ==
  /\ Pool \in Nat \ {0}
  /\ ShardSizes \union Workers \union Backpressures \subseteq Nat \ {0}
  /\ Thresholds \subseteq Nat

Pairs == {p \in (1..Pool) \X (1..Pool) : p[1] < p[2]}

VARIABLES
  config,      \* the executor's configuration, and which Execute runs
  clashing, \* pairs that conflict
  spawned,     \* shards started
  shard,       \* of each shard: where it is, the pairs it has before it, what it found
  queue,       \* the conflict channel
  reported,   \* what the caller, or the collector, has read
  metrics,     \* shards whose metrics are in the channel
  found,       \* conflictsFound, all shards together
  exit,        \* earlyExitTriggered
  cancelled,   \* ctx.Done
  result       \* what Execute returned, or None

shardVars == <<config, clashing, spawned, shard, queue, reported, metrics, found,
               exit, cancelled, result>>

None == [done |-> FALSE]
Global == config.global

ShardsTotal == (Pool + config.shardSize - 1) \div config.shardSize
Shards == 1..ShardsTotal

(* Shard s takes the rows of its slice against every later column, so that *)
(* the shards share the pairs out; it goes through them in order.          *)
Rows(s) == (s - 1) * config.shardSize + 1 .. Min({s * config.shardSize, Pool})
PairsOf(s) == {p \in Pairs : p[1] \in Rows(s)}
Before(p, q) == p[1] < q[1] \/ (p[1] = q[1] /\ p[2] < q[2])
First(ps) == CHOOSE p \in ps : \A q \in ps \ {p} : Before(p, q)

(* Mutant: the channel of metrics is as long as there are workers.         *)
MetricsCapacityOfWorkers == config.workers

MetricsCapacity == ShardsTotal

ShardInit ==
  /\ config \in [shardSize : ShardSizes, workers : Workers, threshold : Thresholds,
                 backpressure : Backpressures, global : BOOLEAN]
  /\ clashing \in SUBSET Pairs
  /\ spawned = 0 /\ shard = [s \in Shards |-> [at |-> "none", left |-> PairsOf(s),
                                               found |-> 0]]
  /\ queue = <<>> /\ reported = {} /\ metrics = {} /\ found = 0
  /\ exit = FALSE /\ cancelled = FALSE /\ result = None

Running == {s \in Shards : shard[s].at \in {"scan", "send", "report"}}
To(s, at) == [shard EXCEPT ![s].at = at]

(* ExecuteSharded starts every shard, and each waits for a slot by itself; *)
(* ExecuteWithEarlyExit waits for the slot of one before it comes to the   *)
(* next, and starts no more once the common threshold is reached.          *)
MaySpawn ==
  /\ result = None /\ spawned < ShardsTotal
  /\ Global => ~exit /\ \A s \in Shards : shard[s].at /= "wait"

Spawn ==
  /\ MaySpawn
  /\ spawned' = spawned + 1
  /\ shard' = To(spawned', "wait")
  /\ UNCHANGED <<config, clashing, queue, reported, metrics, found, exit, cancelled, result>>

MayTakeSlot(s) == shard[s].at = "wait" /\ Cardinality(Running) < config.workers

TakeSlot(s) ==
  /\ MayTakeSlot(s)
  /\ shard' = To(s, "scan")
  /\ UNCHANGED <<config, clashing, spawned, queue, reported, metrics, found, exit,
                 cancelled, result>>

(* A shard that ends: one of ExecuteSharded has metrics to send first.     *)
Ending == IF Global THEN "done" ELSE "report"

AtThreshold(s) == ~Global /\ config.threshold > 0 /\ shard[s].found >= config.threshold

(* One pair.  The context is looked at for every pair, the common exit at  *)
(* the start of a row.                                                     *)
RowStarts(s) ==
  \A q \in PairsOf(s) : q[1] = First(shard[s].left)[1] => q \in shard[s].left

MayScan(s) ==
  /\ shard[s].at = "scan" /\ shard[s].left /= {} /\ ~AtThreshold(s) /\ ~cancelled
  /\ ~(Global /\ exit /\ RowStarts(s))

Scan(s) ==
  /\ MayScan(s)
  /\ IF First(shard[s].left) \in clashing THEN shard' = To(s, "send")
     ELSE shard' = [shard EXCEPT ![s].left = @ \ {First(@)}]
  /\ UNCHANGED <<config, clashing, spawned, queue, reported, metrics, found, exit,
                 cancelled, result>>

MaySend(s) == shard[s].at = "send" /\ Len(queue) < config.backpressure

(* Mutant: a pair that was sent stays before the shard.                    *)
SendAgain(s) ==
  /\ MaySend(s)
  /\ queue' = Append(queue, First(shard[s].left))
  /\ shard' = [shard EXCEPT ![s].at = "scan", ![s].found = @ + 1]
  /\ found' = found + 1
  /\ UNCHANGED <<config, clashing, spawned, reported, metrics, exit, cancelled, result>>

Send(s) ==
  /\ MaySend(s)
  /\ queue' = Append(queue, First(shard[s].left))
  /\ shard' = [shard EXCEPT ![s] = [at |-> "scan", left |-> @.left \ {First(@.left)},
                                    found |-> @.found + 1]]
  /\ found' = found + 1
  /\ UNCHANGED <<config, clashing, spawned, reported, metrics, exit, cancelled, result>>

(* The shard counts as completed when it ran out of pairs or stopped at    *)
(* its own threshold, not when it was cancelled or stopped by the others.  *)
MayFinish(s) == shard[s].at = "scan" /\ (shard[s].left = {} \/ AtThreshold(s))

Finish(s) ==
  /\ MayFinish(s)
  /\ shard' = To(s, Ending)
  /\ UNCHANGED <<config, clashing, spawned, queue, reported, metrics, found, exit,
                 cancelled, result>>

(* Mutant: a shard that gives up counts as completed.                      *)
GiveUpCompleted(s) ==
  /\ shard[s].at = "scan" /\ (cancelled \/ (Global /\ exit)) /\ shard[s].left /= {}
  /\ shard' = To(s, Ending)
  /\ UNCHANGED <<config, clashing, spawned, queue, reported, metrics, found, exit,
                 cancelled, result>>

(* The last row of the pool has no pairs, but the exit is looked at there. *)
MayGiveUp(s) ==
  \/ shard[s].at \in {"scan", "send"} /\ cancelled /\ shard[s].left /= {} /\ ~AtThreshold(s)
  \/ /\ shard[s].at = "scan" /\ Global /\ exit
     /\ IF shard[s].left = {} THEN Pool \in Rows(s) ELSE RowStarts(s)

GiveUp(s) ==
  /\ MayGiveUp(s)
  /\ shard' = [shard EXCEPT ![s] = [at |-> Ending, left |-> @.left, found |-> -1]]
  /\ UNCHANGED <<config, clashing, spawned, queue, reported, metrics, found, exit,
                 cancelled, result>>

MayReport(s) == shard[s].at = "report" /\ Cardinality(metrics) < MetricsCapacity

Report(s) ==
  /\ MayReport(s)
  /\ metrics' = metrics \union {s}
  /\ shard' = To(s, "done")
  /\ UNCHANGED <<config, clashing, spawned, queue, reported, found, exit, cancelled, result>>

(* The reader of the conflicts; the collector of ExecuteWithEarlyExit      *)
(* raises the exit when what was counted so far reaches the threshold; a   *)
(* shard counts after it sent, so that the last ones may be missing.       *)
Receive ==
  /\ queue /= <<>>
  /\ queue' = Tail(queue)
  /\ reported' = reported \union {Head(queue)}
  /\ \E late \in 0..Cardinality(Running) :
       exit' = (exit \/ (Global /\ config.threshold > 0 /\ found - late >= config.threshold))
  /\ UNCHANGED <<config, clashing, spawned, shard, metrics, found, cancelled, result>>

Cancel ==
  /\ ~cancelled /\ result = None
  /\ cancelled' = TRUE
  /\ UNCHANGED <<config, clashing, spawned, shard, queue, reported, metrics, found, exit, result>>

(* Both return no error, whatever stopped them.                            *)
MayReturn ==
  /\ result = None /\ queue = <<>>
  /\ spawned = ShardsTotal \/ (Global /\ exit)
  /\ \A s \in 1..spawned : shard[s].at = "done"

Return ==
  /\ MayReturn
  /\ LET ended == {s \in 1..spawned : shard[s].found >= 0}
     IN result' = [done |-> TRUE, conflicts |-> reported,
          shardsTotal |-> IF Global /\ spawned < ShardsTotal THEN spawned + 1 ELSE ShardsTotal,
          completed |-> Cardinality(ended),
          earlyExits |-> IF Global THEN IF exit THEN 1 ELSE 0
                         ELSE Cardinality({s \in ended : AtThreshold(s)})]
  /\ UNCHANGED <<config, clashing, spawned, shard, queue, reported, metrics, found,
                 exit, cancelled>>

Step ==
  \/ Spawn \/ Receive \/ Return
  \/ \E s \in Shards : TakeSlot(s) \/ Scan(s) \/ Send(s) \/ Finish(s) \/ GiveUp(s) \/ Report(s)

ShardNext == Step \/ Cancel
-----------------------------------------------------------------------------
(* A result that counts every shard as completed and no early exit lists   *)
(* every conflict of the pool, once; and no result lists a pair that does  *)
(* not conflict.  The result carries no error, so these counters are all   *)
(* its reader has to tell a partial list by                                *)
(* (pairwise.go:140-231, 261-300, 330-457).                                *)
CountersTellPartial ==
  result.done =>
    /\ result.conflicts \subseteq clashing
    /\ (result.completed = result.shardsTotal /\ result.earlyExits = 0
          => result.conflicts = clashing)

(* Workers waiting for a slot, for room in the channel or to report, and   *)
(* the caller waiting for them, never all wait at once: the metrics are    *)
(* read only after the last worker ended, so their channel must hold the   *)
(* metrics of every shard (pairwise.go:131-133, 223, 261-300).  Every step *)
(* but Cancel is taken when its guard holds, so that this says what        *)
(* result.done \/ ENABLED Step does.                                       *)
NobodyWaitsForever ==
  \/ result.done
  \/ MaySpawn \/ queue /= <<>> \/ MayReturn
  \/ \E s \in Shards : \/ MayTakeSlot(s) \/ MayScan(s) \/ MaySend(s)
                        \/ MayFinish(s) \/ MayGiveUp(s) \/ MayReport(s)

(* What may still happen: the stages before every shard, the comparisons,  *)
(* sends and reads of the pairs that a shard has before it or has sent,    *)
(* and the caller's return.                                                *)
Ahead(at) == CASE at = "none" -> {"start", "slot", "end", "report"}
               [] at = "wait" -> {"slot", "end", "report"}
               [] at \in {"scan", "send"} -> {"end", "report"}
               [] at = "report" -> {"report"}
               [] at = "done" -> {}

StagesAhead == {x \in {"start", "slot", "end", "report"} \X Shards : x[1] \in Ahead(shard[x[2]].at)}

Ended(s) == shard[s].at \in {"report", "done"}
Sends == UNION {shard[s].left : s \in {t \in Shards : ~Ended(t)}}
Compares == Sends \ {First(shard[s].left) : s \in {t \in Shards : shard[t].at = "send"}}
Reads == Sends \union {queue[i] : i \in DOMAIN queue}
Todo == <<StagesAhead, Compares, Sends, Reads, IF result.done THEN {} ELSE {"return"}>>

(* Every step of a shard or the caller takes away something of what may    *)
(* still happen and brings nothing back, and only the cancellation, which  *)
(* happens once, takes nothing: no pair is compared, sent or read twice.   *)
(* As these are finite sets and somebody can always go on, every           *)
(* comparison returns (pairwise.go:127-300, 302-457).                      *)
EveryStepCounts ==
  [][/\ \A i \in DOMAIN Todo : Todo'[i] \subseteq Todo[i]
     /\ Todo' = Todo => ~cancelled /\ cancelled']_shardVars
=============================================================================
