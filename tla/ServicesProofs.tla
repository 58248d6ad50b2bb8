--------------------------- MODULE ServicesProofs ----------------------------
(***************************************************************************)
(* The parts around the analysis for every value of their bounds: Stop     *)
(* reaches the goroutine of the resume scheduler that checks               *)
(* (StopReachesTheLoop), what a GitHub call reports is so                  *)
(* (ReportsAreTrue), a sync runs as far as the request budget lets it      *)
(* (BudgetIsSpentWell), and a git mirror has what a fetch did not report   *)
(* as skipped (MirrorIsFetched).                                           *)
(***************************************************************************)
EXTENDS ResumeScheduler, GitHubCalls, Budget, Mirrors, FiniteSetTheorems, TLAPS

-----------------------------------------------------------------------------
(* The resume scheduler. *)

SchedulerSpec == SchedulerInit /\ [][SchedulerNext]_schedVars

SchedulerTypeOK ==
    /\ running \in BOOLEAN /\ handle \in 0..MaxStarts /\ started \in 0..MaxStarts
    /\ loops \in [1..MaxStarts -> {"none", "checks", "canceled", "cleared", "done"}]
    /\ caller \in [Callers -> 0..MaxStarts]

\* The flag and the handle go together; what is running was started, and
\* nobody is in Stop meanwhile.
HandlesAgree ==
    /\ running <=> handle # 0
    /\ handle <= started
    /\ running => \A c \in Callers : caller[c] = 0
    /\ \A g \in 1..MaxStarts : g > started => loops[g] = "none"

\* A goroutine that is cancelled still has the handles, or its Stop waits for
\* it: whatever it clears is its own.
CanceledIsAwaited ==
    \A g \in 1..MaxStarts :
        loops[g] = "canceled" => (running /\ handle = g) \/ \E c \in Callers : caller[c] = g

SchedInv == SchedulerTypeOK /\ HandlesAgree /\ CheckingIsStoppable /\ CanceledIsAwaited

\* With one goroutine that starts and stops the scheduler, as in the program,
\* one that checks can always be stopped, however often it is started and
\* whoever cancels it (sync/scheduler.go:46-130).
THEOREM StopReachesTheLoop ==
    ASSUME \A c, d \in Callers : c = d
    PROVE  SchedulerSpec => []CheckingIsStoppable
<1>1. SchedulerInit => SchedInv
  <2> SUFFICES ASSUME SchedulerInit PROVE SchedInv
    OBVIOUS
  <2>1. SchedulerTypeOK
    <3>1. 0 \in 0..MaxStarts
      BY SchedulerAssumption
    <3>4. running \in BOOLEAN /\ handle = 0 /\ started = 0
      BY DEF SchedulerInit
    <3>2. loops \in [1..MaxStarts -> {"none", "checks", "canceled", "cleared", "done"}]
      BY DEF SchedulerInit
    <3>3. caller \in [Callers -> 0..MaxStarts]
      BY <3>1 DEF SchedulerInit
    <3> QED BY <3>1, <3>2, <3>3, <3>4 DEF SchedulerTypeOK
  <2>2. HandlesAgree
    BY SchedulerAssumption DEF SchedulerInit, HandlesAgree
  <2>3. CheckingIsStoppable /\ CanceledIsAwaited
    BY DEF SchedulerInit, CheckingIsStoppable, CanceledIsAwaited
  <2> QED BY <2>1, <2>2, <2>3 DEF SchedInv
<1>2. SchedInv /\ [SchedulerNext]_schedVars => SchedInv'
  <2> SUFFICES ASSUME SchedInv, [SchedulerNext]_schedVars PROVE SchedInv'
    OBVIOUS
  <2> USE SchedulerAssumption
      DEF SchedInv, SchedulerTypeOK, HandlesAgree, CheckingIsStoppable, CanceledIsAwaited
  <2>1. ASSUME NEW c \in Callers, SchedulerStart(c) PROVE SchedInv'
    <3>1. /\ ~running /\ running' = TRUE /\ started + 1 \in 1..MaxStarts
          /\ handle' = started + 1 /\ started' = started + 1 /\ caller' = caller
          /\ loops' = [loops EXCEPT ![started + 1] = "checks"] /\ caller[c] = 0
      BY <2>1 DEF SchedulerStart
    <3>2. SchedulerTypeOK'
      BY <3>1
    <3>3. HandlesAgree'
      BY <3>1
    <3>4. CheckingIsStoppable'
      BY <3>1
    <3>5. CanceledIsAwaited'
      BY <3>1
    <3> HIDE DEF SchedulerTypeOK, HandlesAgree, CheckingIsStoppable, CanceledIsAwaited
    <3> QED BY <3>2, <3>3, <3>4, <3>5
  <2>2. ASSUME NEW c \in Callers, SchedulerStop(c) PROVE SchedInv'
    <3>1. /\ running /\ running' = FALSE /\ handle' = 0 /\ started' = started
          /\ caller' = [caller EXCEPT ![c] = handle] /\ handle \in 1..MaxStarts
          /\ loops' = [loops EXCEPT ![handle] =
                           IF loops[handle] = "checks" THEN "canceled" ELSE loops[handle]]
      BY <2>2 DEF SchedulerStop
    <3>2. SchedulerTypeOK'
      <4>1. running' \in BOOLEAN
        BY <3>1
      <4>2. handle' \in 0..MaxStarts /\ started' \in 0..MaxStarts
        BY <3>1
      <4>3. loops' \in [1..MaxStarts -> {"none", "checks", "canceled", "cleared", "done"}]
        BY <3>1
      <4>4. caller' \in [Callers -> 0..MaxStarts]
        BY <3>1
      <4> QED BY <4>1, <4>2, <4>3, <4>4
    <3>3. HandlesAgree'
      BY <3>1
    <3>4. CheckingIsStoppable'
      BY <3>1
    <3>5. CanceledIsAwaited'
      <4>1. caller'[c] = handle
        BY <3>1
      <4>2. \A g \in 1..MaxStarts : g # handle => loops'[g] = loops[g]
        BY <3>1
      <4>3. \A g \in 1..MaxStarts : loops[g] = "canceled" => handle = g
        BY <3>1
      <4> QED BY <4>1, <4>2, <4>3
    <3> HIDE DEF SchedulerTypeOK, HandlesAgree, CheckingIsStoppable, CanceledIsAwaited
    <3> QED BY <3>2, <3>3, <3>4, <3>5
  <2>3. ASSUME NEW c \in Callers, StopReturns(c) PROVE SchedInv'
    BY <2>3 DEF StopReturns
  <2>4. ASSUME NEW g \in 1..MaxStarts, ContextEnds(g) PROVE SchedInv'
    <3>1. /\ loops[g] = "checks" /\ loops' = [loops EXCEPT ![g] = "canceled"]
          /\ UNCHANGED <<running, handle, started, caller>>
      BY <2>4 DEF ContextEnds
    <3>2. running /\ handle = g
      BY <3>1
    <3>2a. SchedulerTypeOK'
      BY <3>1
    <3>3. HandlesAgree'
      BY <3>1
    <3>4. CheckingIsStoppable'
      BY <3>1
    <3>5. CanceledIsAwaited'
      BY <3>1, <3>2
    <3> HIDE DEF SchedulerTypeOK, HandlesAgree, CheckingIsStoppable, CanceledIsAwaited
    <3> QED BY <3>2a, <3>3, <3>4, <3>5
  <2>5. ASSUME NEW g \in 1..MaxStarts, LoopClears(g) PROVE SchedInv'
    <3>1. /\ loops[g] = "canceled" /\ loops' = [loops EXCEPT ![g] = "cleared"]
          /\ running' = FALSE /\ handle' = 0 /\ started' = started /\ caller' = caller
      BY <2>5 DEF LoopClears
    <3>2. running => handle = g
      BY <3>1
    <3>3. \A h \in 1..MaxStarts : h # g => loops'[h] = loops[h]
      BY <3>1
    <3>4. SchedulerTypeOK'
      <4>1. running' \in BOOLEAN
        BY <3>1
      <4>2. handle' \in 0..MaxStarts /\ started' \in 0..MaxStarts
        BY <3>1
      <4>3. loops' \in [1..MaxStarts -> {"none", "checks", "canceled", "cleared", "done"}]
        BY <3>1
      <4>4. caller' \in [Callers -> 0..MaxStarts]
        BY <3>1
      <4> QED BY <4>1, <4>2, <4>3, <4>4
    <3>5. HandlesAgree'
      BY <3>1
    <3>6. CheckingIsStoppable'
      BY <3>1, <3>2, <3>3
    <3>7. CanceledIsAwaited'
      BY <3>1, <3>2, <3>3
    <3> HIDE DEF SchedulerTypeOK, HandlesAgree, CheckingIsStoppable, CanceledIsAwaited
    <3> QED BY <3>4, <3>5, <3>6, <3>7
  <2>6. ASSUME NEW g \in 1..MaxStarts, LoopEnds(g) PROVE SchedInv'
    BY <2>6 DEF LoopEnds
  <2>7. CASE UNCHANGED schedVars
    BY <2>7 DEF schedVars
  <2> QED BY <2>1, <2>2, <2>3, <2>4, <2>5, <2>6, <2>7 DEF SchedulerNext
<1> QED BY <1>1, <1>2, PTL DEF SchedulerSpec, SchedInv

-----------------------------------------------------------------------------
(* A call of the GitHub client. *)

CallsSpec == CallsInit /\ [][CallsNext]_callVars

Calls == [op : DOMAIN Stages, stage : Nat, retries : Nat, token : Nat,
          outcome : {"none", "success", "failed"}]

Servers == [merged : BOOLEAN, empty : BOOLEAN, open : BOOLEAN, comments : Nat, labelled : BOOLEAN,
            required : Nat, approvals : Nat, ci : {"pass", "fail"}]

Reads == [ci : {"none", "pass", "fail", "unknown", ""}, reviewed : BOOLEAN,
          protection : {"none"} \union Replies]

LastStage(op) == IF op = "get" THEN 4 ELSE 1

CallsTypeOK ==
    /\ call \in Calls /\ server \in Servers /\ pr \in Reads /\ lost \in Nat
    /\ call.stage \in 1..LastStage(call.op)

\* A comment is at GitHub once for every answer that was lost, and once more
\* when the call has succeeded.
CommentsAreCounted ==
    call.op = "comment" => server.comments = lost + (IF call.outcome = "success" THEN 1 ELSE 0)

\* Until the reviews or the protection are read, they do not count as given.
ReviewsAreRead == Pending => ~pr.reviewed

\* SuccessIsReal, operation by operation.
Reports ==
    call.outcome = "success" =>
        /\ call.op = "merge" => server.merged \/ server.empty
        /\ call.op = "close" => ~server.open
        /\ call.op = "label" => server.labelled
        /\ call.op = "get" /\ pr.reviewed =>
              pr.protection # "ok" \/ server.approvals >= server.required

CallsInv == CallsTypeOK /\ CommentsAreCounted /\ ReviewsAreRead /\ Reports

\* Which request a call is at tells its operation and its stage.
LEMMA StageTellsOp ==
    ASSUME CallsTypeOK
    PROVE  /\ Stage \in {"graphql", "pr", "merge", "close", "comment", "label"} => call.stage = 1
           /\ Stage = "graphql" => call.op = "count"
           /\ Stage = "pr" => call.op = "get"
           /\ Stage = "ci" => call.op = "get" /\ call.stage = 2
           /\ Stage = "protection" => call.op = "get" /\ call.stage = 3
           /\ Stage = "reviews" => call.op = "get" /\ call.stage = 4
           /\ \A op \in {"merge", "close", "comment", "label"} : Stage = op => call.op = op
           /\ Len(Stages[call.op]) = LastStage(call.op)
<1>1. call.op \in {"count", "get", "merge", "close", "comment", "label"}
  BY DEF CallsTypeOK, Calls, Stages
<1>2. call.stage \in 1..LastStage(call.op)
  BY DEF CallsTypeOK
<1>3. CASE call.op = "get"
  <2>1. Stages[call.op] = <<"pr", "ci", "protection", "reviews">>
    BY <1>3 DEF Stages
  <2>2. call.stage \in 1..4
    BY <1>2, <1>3 DEF LastStage
  <2> QED BY <1>3, <2>1, <2>2 DEF Stage, LastStage
<1>4. CASE call.op # "get"
  <2>1. call.stage = 1
    BY <1>2, <1>4 DEF LastStage
  <2>2. Stages[call.op] = IF call.op = "count" THEN <<"graphql">> ELSE <<call.op>>
    BY <1>1, <1>4 DEF Stages
  <2> QED BY <1>1, <1>4, <2>1, <2>2 DEF Stage, LastStage
<1> QED BY <1>3, <1>4

\* What a step does to the call.
LEMMA CallMoves ==
    ASSUME CallsTypeOK
    PROVE  /\ TryAgain => /\ call' \in Calls /\ call'.op = call.op /\ call'.stage = call.stage
                          /\ call'.outcome = call.outcome
           /\ NextStage => /\ call' \in Calls /\ call'.op = call.op
                           /\ call'.stage \in 1..LastStage(call.op)
                           /\ call.stage = LastStage(call.op) => call'.outcome = "success"
                           /\ call.stage # LastStage(call.op) => call'.outcome = call.outcome
           /\ \A outcome \in {"success", "failed"} :
                 EndCall(outcome) => /\ call' \in Calls /\ call'.op = call.op
                                     /\ call'.stage = call.stage /\ call'.outcome = outcome
           /\ \A a : FailCall(a) => /\ call' \in Calls /\ call'.op = call.op
                                    /\ call'.stage \in 1..LastStage(call.op)
                                    /\ call'.outcome \in {call.outcome, "failed"}
<1>1. /\ call \in Calls /\ call.stage \in 1..LastStage(call.op)
      /\ Len(Stages[call.op]) = LastStage(call.op) /\ LastStage(call.op) \in {1, 4}
  BY StageTellsOp DEF CallsTypeOK, LastStage
<1>2. TryAgain => /\ call' \in Calls /\ call'.op = call.op /\ call'.stage = call.stage
                  /\ call'.outcome = call.outcome
  BY <1>1 DEF TryAgain, Calls
<1>3. \A outcome \in {"success", "failed"} :
         EndCall(outcome) => /\ call' \in Calls /\ call'.op = call.op
                             /\ call'.stage = call.stage /\ call'.outcome = outcome
  BY <1>1 DEF EndCall, Calls
<1>4. NextStage => /\ call' \in Calls /\ call'.op = call.op
                   /\ call'.stage \in 1..LastStage(call.op)
                   /\ call.stage = LastStage(call.op) => call'.outcome = "success"
                   /\ call.stage # LastStage(call.op) => call'.outcome = call.outcome
  <2>1. CASE call.stage = LastStage(call.op)
    BY <1>1, <1>3, <2>1 DEF NextStage
  <2>2. CASE call.stage # LastStage(call.op)
    <3>1. call.stage + 1 \in 1..LastStage(call.op) /\ call.stage + 1 \in Nat
      BY <1>1, <2>2
    <3>2. NextStage => call' = [call EXCEPT !.stage = @ + 1, !.retries = 0]
      BY <1>1, <2>2 DEF NextStage
    <3>3. ASSUME NextStage
          PROVE  /\ call' \in Calls /\ call'.op = call.op /\ call'.stage = call.stage + 1
                 /\ call'.outcome = call.outcome
      <4>1. call' = [call EXCEPT !.stage = call.stage + 1, !.retries = 0]
        BY <3>2, <3>3
      <4>2. call \in Calls /\ call.stage + 1 \in Nat
        BY <1>1, <3>1
      <4>3. call' \in Calls
        BY <4>1, <4>2 DEF Calls
      <4> QED BY <4>1, <4>2 DEF Calls
    <3> QED BY <2>2, <3>1, <3>3
  <2> QED BY <2>1, <2>2
<1>5. ASSUME NEW a, FailCall(a)
      PROVE  /\ call' \in Calls /\ call'.op = call.op
             /\ call'.stage \in 1..LastStage(call.op)
             /\ call'.outcome \in {call.outcome, "failed"}
  <2>1. CASE call' = [call EXCEPT !.token = @ + 1, !.stage = 1, !.retries = 0]
    <3>1. call.token + 1 \in Nat
      BY <1>1 DEF Calls
    <3>2. /\ call' \in Calls /\ call'.op = call.op /\ call'.stage = 1
          /\ call'.outcome = call.outcome
      BY <1>1, <2>1, <3>1 DEF Calls
    <3> QED BY <1>1, <3>2
  <2>2. CASE EndCall("failed")
    BY <1>1, <1>3, <2>2
  <2> QED BY <1>5, <2>1, <2>2 DEF FailCall
<1> QED BY <1>2, <1>3, <1>4, <1>5

\* What GitHub does with a request that writes.
LEMMA WriteApplies ==
    ASSUME CallsTypeOK, NEW op \in {"merge", "close", "comment", "label"}, NEW a, Answered(op, a)
    PROVE  /\ server' \in Servers /\ lost' \in Nat
           /\ server'.approvals = server.approvals /\ server'.required = server.required
           /\ op # "comment" => server'.comments = server.comments
           /\ a = "ok" => /\ op = "merge" => server'.merged
                          /\ op = "close" => ~server'.open
                          /\ op = "label" => server'.labelled
           /\ op = "comment" /\ a = "ok" => server'.comments = server.comments + 1 /\ lost' = lost
           /\ op = "comment" /\ a # "ok" => server'.comments - lost' = server.comments - lost
<1>1. server \in Servers /\ lost \in Nat
  BY DEF CallsTypeOK
<1>2. CASE server' = Applied(op)
  <2>1. /\ op = "merge" => server' = [server EXCEPT !.merged = TRUE]
        /\ op = "close" => server' = [server EXCEPT !.open = FALSE]
        /\ op = "comment" => server' = [server EXCEPT !.comments = server.comments + 1]
        /\ op = "label" => server' = [server EXCEPT !.labelled = TRUE]
    BY <1>2 DEF Applied
  <2>2. (a = "ok" /\ lost' = lost) \/ (a # "ok" /\ lost' = lost + 1)
        \/ (a # "ok" /\ lost' = lost /\ server' = server)
    BY DEF Answered
  <2>3. CASE op = "comment"
    BY <1>1, <2>1, <2>2, <2>3 DEF Servers
  <2>4. CASE op # "comment"
    <3>1. lost' \in Nat
      BY <1>1, <2>2
    <3> QED BY <1>1, <2>1, <2>4, <3>1 DEF Servers
  <2> QED BY <2>3, <2>4
<1>3. CASE a # "ok" /\ UNCHANGED <<server, lost>>
  BY <1>1, <1>3 DEF Servers
<1> QED BY <1>2, <1>3 DEF Answered

\* Only an answer that arrives and is understood makes a write succeed.
LEMMA WriteSettles ==
    ASSUME CallsTypeOK, Pending, call.op \in {"merge", "close", "comment", "label"},
           NEW a, Settle(a)
    PROVE  /\ call' \in Calls /\ call'.op = call.op /\ call'.stage \in 1..LastStage(call.op)
           /\ call'.outcome = "success" <=> a = "ok"
<1>1. call.stage = LastStage(call.op) /\ call.stage \in 1..LastStage(call.op)
  BY DEF CallsTypeOK, LastStage
<1>2. CASE Retries(a) /\ TryAgain
  BY <1>1, <1>2, CallMoves DEF Retries, Transient, Pending
<1>3. CASE a # "ok" /\ EndCall("failed")
  BY <1>1, <1>3, CallMoves
<1>4. CASE a = "ok" /\ NextStage
  BY <1>1, <1>4, CallMoves
<1> QED BY <1>2, <1>3, <1>4 DEF Settle

\* A call that reports success has done what it says (a merge: unless nothing
\* was left to merge), whatever answers were lost and requests sent again before; comments are there once for every
\* answer that was lost besides, and reviews count as given without being so
\* only when the protection of the branch could not be read, for every number
\* of tokens and retries (github/client.go:486-564, 777-1177, auth.go:693-714).
THEOREM ReportsAreTrue == CallsSpec => []SuccessIsReal
<1>1. CallsInit => CallsInv
  <2> SUFFICES ASSUME CallsInit PROVE CallsInv
    OBVIOUS
  <2>1. PICK op \in DOMAIN Stages :
          call = [op |-> op, stage |-> 1, retries |-> 0, token |-> 1, outcome |-> "none"]
    BY DEF CallsInit
  <2>2. call \in Calls /\ call.stage \in 1..LastStage(call.op) /\ call.outcome = "none"
    BY <2>1 DEF Calls, LastStage
  <2>3. server \in Servers /\ server.comments = 0
    BY DEF CallsInit, Servers
  <2>4. pr \in Reads /\ ~pr.reviewed /\ lost = 0
    BY DEF CallsInit, Reads
  <2> QED BY <2>2, <2>3, <2>4 DEF CallsInv, CallsTypeOK, CommentsAreCounted, ReviewsAreRead, Reports
<1>2. CallsInv /\ [CallsNext]_callVars => CallsInv'
  <2> SUFFICES ASSUME CallsInv, [CallsNext]_callVars PROVE CallsInv'
    OBVIOUS
  <2> DEFINE As == Replies \union {"errors", "noop"}
  <2>a. CallsTypeOK /\ server \in Servers /\ pr \in Reads /\ lost \in Nat
    BY DEF CallsInv, CallsTypeOK
  <2>b. Pending => pr.reviewed = FALSE
    BY <2>a DEF CallsInv, ReviewsAreRead, Reads
  <2>c. \A a \in As : a = "ok" => Final(a)
    BY DEF Final, Retries, Transient, Replies
  <2>1. ASSUME NEW a \in As, ReadGraphQL(a) \/ ReadPR(a) PROVE CallsInv'
    <3>1. /\ Pending /\ UNCHANGED <<server, pr, lost>> /\ call.op \in {"count", "get"}
          /\ TryAgain \/ FailCall(a) \/ NextStage
      BY <2>1, <2>a, StageTellsOp DEF ReadGraphQL, ReadPR
    <3>2. /\ call' \in Calls /\ call'.op = call.op /\ call'.stage \in 1..LastStage(call.op)
          /\ call'.op = "get" => call'.outcome # "success"
      <4>1. call.op = "get" => call.stage # LastStage(call.op)
        BY <2>1, <2>a, StageTellsOp DEF ReadGraphQL, ReadPR, LastStage
      <4> QED BY <3>1, <2>a, <4>1, CallMoves DEF Pending, CallsTypeOK
    <3> QED BY <3>1, <3>2, <2>a, <2>b
            DEF CallsInv, CallsTypeOK, CommentsAreCounted, ReviewsAreRead, Reports
  <2>2. ASSUME NEW a \in As, ReadCI(a) PROVE CallsInv'
    <3> DEFINE cis == CASE a = "ok" -> {server.ci} [] a = "errors" -> {server.ci, ""} [] OTHER -> {"unknown"}
    <3>a. cis \subseteq {server.ci, "", "unknown"}
      OBVIOUS
    <3>b. /\ Pending /\ UNCHANGED <<server, lost>> /\ Stage = "ci"
          /\ \/ TryAgain /\ pr' = pr
             \/ NextStage /\ \E ci \in cis : pr' = [pr EXCEPT !.ci = ci]
      BY <2>2 DEF ReadCI
    <3> HIDE DEF cis
    <3>1. /\ Pending /\ UNCHANGED <<server, lost>> /\ call.op = "get" /\ call.stage # LastStage(call.op)
          /\ TryAgain \/ NextStage
          /\ pr' = pr \/ \E ci \in {server.ci, "", "unknown"} : pr' = [pr EXCEPT !.ci = ci]
      <4>1. call.op = "get" /\ call.stage # LastStage(call.op)
        BY <3>b, <2>a, StageTellsOp DEF LastStage
      <4> QED BY <3>a, <3>b, <4>1
    <3>2. /\ call' \in Calls /\ call'.op = "get" /\ call'.stage \in 1..LastStage(call.op)
          /\ call'.outcome = "none"
      BY <3>1, <2>a, CallMoves DEF Pending, CallsTypeOK
    <3>3. pr' \in Reads /\ pr'.reviewed = FALSE
      BY <3>1, <2>a, <2>b DEF Reads, Servers
    <3> QED BY <3>1, <3>2, <3>3, <2>a
            DEF CallsInv, CallsTypeOK, CommentsAreCounted, ReviewsAreRead, Reports
  <2>3. ASSUME NEW a \in Replies, ReadProtection(a) PROVE CallsInv'
    <3>1. Pending /\ UNCHANGED <<server, lost>> /\ call.op = "get" /\ call.stage = 3 /\ LastStage("get") = 4
      BY <2>3, <2>a, StageTellsOp DEF ReadProtection, LastStage
    <3>2. CASE TryAgain /\ UNCHANGED pr
      BY <3>1, <3>2, <2>a, <2>b, CallMoves
         DEF Pending, CallsInv, CallsTypeOK, CommentsAreCounted, ReviewsAreRead, Reports
    <3>3. CASE /\ a # "ok" \/ server.required = 0
               /\ EndCall("success")
               /\ pr' = [pr EXCEPT !.reviewed = TRUE, !.protection = a]
      <4>1. pr' \in Reads /\ pr'.protection = a
        BY <3>3, <2>a DEF Reads
      <4>2. call' \in Calls /\ call'.op = "get" /\ call'.stage = 3 /\ call'.outcome = "success"
        BY <3>1, <3>3, <2>a, CallMoves
      <4>3. a # "ok" \/ server'.approvals >= server'.required
        BY <3>1, <3>3, <2>a DEF Servers
      <4> QED BY <3>1, <4>1, <4>2, <4>3, <2>a
              DEF CallsInv, CallsTypeOK, CommentsAreCounted, ReviewsAreRead, Reports, Pending
    <3>4. CASE NextStage /\ a = "ok" /\ pr' = [pr EXCEPT !.protection = a]
      <4>1. pr' \in Reads /\ pr'.reviewed = FALSE
        BY <3>1, <3>4, <2>a, <2>b DEF Reads
      <4>2. /\ call' \in Calls /\ call'.op = "get" /\ call'.stage \in 1..LastStage(call.op)
            /\ call'.outcome = "none"
        BY <3>1, <3>4, <2>a, CallMoves DEF Pending
      <4> QED BY <3>1, <4>1, <4>2, <2>a
              DEF CallsInv, CallsTypeOK, CommentsAreCounted, ReviewsAreRead, Reports
    <3> QED BY <2>3, <3>2, <3>3, <3>4 DEF ReadProtection
  <2>4. ASSUME NEW a \in As, ReadReviews(a) PROVE CallsInv'
    <3>1. Pending /\ UNCHANGED <<server, lost>> /\ call.op = "get" /\ call.stage = 4 /\ LastStage("get") = 4
      BY <2>4, <2>a, StageTellsOp DEF ReadReviews, LastStage
    <3>2. CASE TryAgain /\ UNCHANGED pr
      BY <3>1, <3>2, <2>a, <2>b, CallMoves
         DEF Pending, CallsInv, CallsTypeOK, CommentsAreCounted, ReviewsAreRead, Reports
    <3>3. CASE /\ NextStage
               /\ \E approved \in 0..server.approvals :
                    pr' = [pr EXCEPT !.reviewed = (Read(a) /\ approved >= server.required)]
      <4>1. pr' \in Reads /\ (pr'.reviewed => server.approvals >= server.required)
        <5>1. PICK approved \in 0..server.approvals :
                     pr' = [pr EXCEPT !.reviewed = (Read(a) /\ approved >= server.required)]
          BY <3>3
        <5>2. (Read(a) /\ approved >= server.required) \in BOOLEAN
          BY DEF Read
        <5>3. pr' \in Reads /\ pr'.reviewed = (Read(a) /\ approved >= server.required)
          BY <5>1, <5>2, <2>a DEF Reads
        <5>4. approved \in Nat /\ server.approvals \in Nat /\ server.required \in Nat
              /\ approved <= server.approvals
          BY <2>a DEF Servers
        <5>5. pr'.reviewed => approved >= server.required
          BY <5>3, Zenon
        <5>6. approved >= server.required => server.approvals >= server.required
          BY <5>4
        <5> QED BY <5>3, <5>5, <5>6
      <4>2. /\ call' \in Calls /\ call'.op = "get" /\ call'.stage \in 1..LastStage(call.op)
            /\ call'.outcome = "success"
        BY <3>1, <3>3, <2>a, CallMoves
      <4> QED BY <3>1, <4>1, <4>2, <2>a
              DEF CallsInv, CallsTypeOK, CommentsAreCounted, ReviewsAreRead, Reports, Pending
    <3>4. server.approvals \in 0..server.approvals
      BY <2>a DEF Servers
    <3> QED BY <2>4, <3>2, <3>3, <3>4 DEF ReadReviews
  <2>5. ASSUME NEW a \in As, NEW op \in {"merge", "close", "comment", "label"},
               Pending, Stage = op, Answered(op, a), Settle(a), UNCHANGED pr
        PROVE  CallsInv'
    <3>1. call.op = op /\ op # "get"
      BY <2>5, <2>a, StageTellsOp
    <3>2. /\ call' \in Calls /\ call'.op = op /\ call'.stage \in 1..LastStage(op)
          /\ call'.outcome = "success" <=> a = "ok"
      BY <2>5, <2>a, <3>1, WriteSettles
    <3>3. /\ server' \in Servers /\ lost' \in Nat
          /\ a = "ok" => /\ op = "merge" => server'.merged
                         /\ op = "close" => ~server'.open
                         /\ op = "label" => server'.labelled
          /\ op = "comment" /\ a = "ok" => server'.comments = server.comments + 1 /\ lost' = lost
          /\ op = "comment" /\ a # "ok" => server'.comments - lost' = server.comments - lost
      BY <2>5, <2>a, WriteApplies
    <3>4. op = "comment" => server.comments = lost
      BY <2>5, <2>a, <3>1 DEF CallsInv, CommentsAreCounted, Pending
    <3>5. op = "comment" => server'.comments = lost' + (IF a = "ok" THEN 1 ELSE 0)
      BY <3>3, <3>4, <2>a DEF Servers
    <3> QED BY <2>5, <3>1, <3>2, <3>3, <3>5, <2>a, <2>b
            DEF CallsInv, CallsTypeOK, CommentsAreCounted, ReviewsAreRead, Reports
  <2>6. ASSUME NEW a \in As, Merge(a) PROVE CallsInv'
    <3>1. CASE Answered("merge", a) /\ Settle(a)
      BY <2>5, <2>6, <3>1 DEF Merge
    <3>2. CASE /\ ~Mergeable /\ UNCHANGED <<server, lost>>
               /\ (a # "ok" /\ Settle(a)) \/ EndCall("success")
      <4>1. Pending /\ call.op = "merge" /\ UNCHANGED pr
        BY <2>6, <2>a, StageTellsOp DEF Merge
      <4>2. call' \in Calls /\ call'.op = "merge" /\ call'.stage \in 1..LastStage("merge")
        <5>1. CASE Settle(a)
          BY <4>1, <5>1, <2>a, WriteSettles
        <5>2. CASE EndCall("success")
          BY <4>1, <5>2, <2>a, CallMoves DEF CallsTypeOK
        <5> QED BY <3>2, <5>1, <5>2
      <4>3. server.merged \/ server.empty
        BY <3>2, <2>a DEF Mergeable, Servers
      <4> QED BY <3>2, <4>1, <4>2, <4>3, <2>a, <2>b
              DEF CallsInv, CallsTypeOK, CommentsAreCounted, ReviewsAreRead, Reports
    <3> QED BY <2>6, <3>1, <3>2 DEF Merge
  <2>7. ASSUME NEW a \in As, Close(a) \/ CreateComment(a) \/ AddLabels(a) PROVE CallsInv'
    BY <2>5, <2>7 DEF Close, CreateComment, AddLabels
  <2>8. CASE MergedElsewhere \/ HeadMoves
    <3>1. /\ Pending /\ UNCHANGED <<call, pr, lost>> /\ server' \in Servers
          /\ server'.comments = server.comments
      BY <2>8, <2>a DEF MergedElsewhere, HeadMoves, Servers
    <3> QED BY <3>1, <2>a DEF CallsInv, CallsTypeOK, CommentsAreCounted, ReviewsAreRead, Reports, Pending
  <2>9. CASE UNCHANGED callVars
    BY <2>9, <2>a DEF callVars, CallsInv, CallsTypeOK, CommentsAreCounted, ReviewsAreRead, Reports, Pending
  <2> QED BY <2>1, <2>2, <2>3, <2>4, <2>6, <2>7, <2>8, <2>9 DEF CallsNext
<1>3. CallsInv => SuccessIsReal
  <2> SUFFICES ASSUME CallsInv, call.outcome = "success" PROVE SuccessIsReal
    BY DEF SuccessIsReal
  <2>1. call.op \in {"count", "get", "merge", "close", "comment", "label"} /\ lost \in Nat
    BY DEF CallsInv, CallsTypeOK, Calls, Stages
  <2> QED BY <2>1 DEF CallsInv, Reports, CommentsAreCounted, SuccessIsReal
<1> QED BY <1>1, <1>2, <1>3, PTL DEF CallsSpec

-----------------------------------------------------------------------------
(* The request budget. *)

BudgetSpec == BudgetInit /\ [][BudgetNext]_budgetVars

BudgetTypeOK == left \in Int /\ reserved \in Int /\ reserve \in Int

LEMMA MinOfTwo ==
    ASSUME NEW a \in Int, NEW b \in Int
    PROVE  Min({a, b}) = IF a <= b THEN a ELSE b
<1>1. \E x \in {a, b} : \A y \in {a, b} : x =< y
  BY SMT
<1>2. /\ Min({a, b}) \in {a, b}
      /\ \A y \in {a, b} : Min({a, b}) =< y
  BY <1>1 DEF Min
<1> QED BY <1>2

LEMMA MaxOfTwo ==
    ASSUME NEW a \in Int, NEW b \in Int
    PROVE  Max({a, b}) = IF a >= b THEN a ELSE b
<1>1. \E x \in {a, b} : \A y \in {a, b} : x >= y
  BY SMT
<1>2. /\ Max({a, b}) \in {a, b}
      /\ \A y \in {a, b} : Max({a, b}) >= y
  BY <1>1 DEF Max
<1> QED BY <1>2

\* With the reserve of 200 the chunk is what three requests for each pull
\* request leave room for, at least 10 from 230 available requests on, and
\* both copies of the rule say the same where they run at all.
LEMMA ChunkFits ==
    ASSUME reserve = 200, Available \in Int
    PROVE  /\ RunnerChunk \in Nat /\ SourceChunk \in Nat
           /\ Available >= 230 => /\ RunnerChunk >= 10 /\ SourceChunk = RunnerChunk
                                  /\ 3 * RunnerChunk <= Available - 200
           /\ Available < 230 => RunnerChunk = 0
<1> DEFINE A == Available
<1> HIDE DEF A
<1>1. A \in Int /\ Available = A
  BY DEF A
<1>2. Tier(A) = IF A > 2000 THEN 100 ELSE IF A > 500 THEN 50 ELSE IF A > 200 THEN 25 ELSE 0
  BY <1>1 DEF Tier
<1>3. Affordable(A) = IF (A - 200) \div 3 < 10 THEN 0 ELSE (A - 200) \div 3
  BY DEF Affordable
<1>4. \A n \in Nat : CanAfford(n) <=> A - n >= 200
  BY <1>1 DEF CanAfford
<1>5. /\ A - 200 >= 3 * ((A - 200) \div 3) /\ (A - 200) \div 3 \in Int
      /\ 3 * ((A - 200) \div 3) + 3 > A - 200
  BY <1>1
<1>6. 3 * Tier(A) \in Nat
  BY <1>2
<1>7. RunnerChunk = IF A - 3 * Tier(A) >= 200 THEN Tier(A) ELSE Affordable(A)
  BY <1>1, <1>4, <1>6 DEF RunnerChunk
<1>8. SourceChunk = IF A <= 200 THEN 0 ELSE IF A - 3 * Tier(A) >= 200 THEN Tier(A) ELSE Affordable(A)
  BY <1>1, <1>4, <1>6 DEF SourceChunk
<1>9. CASE A > 2000
  BY <1>1, <1>2, <1>7, <1>8, <1>9
<1>10. CASE A > 500 /\ A <= 2000
  BY <1>1, <1>2, <1>7, <1>8, <1>10
<1>11. CASE A >= 275 /\ A <= 500
  BY <1>1, <1>2, <1>7, <1>8, <1>11
<1>12. CASE A > 200 /\ A < 275
  BY <1>1, <1>2, <1>3, <1>5, <1>7, <1>8, <1>12
<1>13. CASE A <= 200
  BY <1>1, <1>2, <1>3, <1>5, <1>7, <1>8, <1>13
<1> QED BY <1>1, <1>9, <1>10, <1>11, <1>12, <1>13

\* Whatever the limit, the answers and the reservations have left of the
\* budget, a sync with the default reserve runs when thirty requests are to
\* be had above it, and what it then fetches leaves the reserve
\* (sync/ratelimit_runner.go:41-161, chunk_sizing.go:22-55,
\* telemetry/ratelimit/budget.go:87-221).
THEOREM BudgetIsSpentWell == BudgetSpec => []RunsWhatItCanAfford
<1>1. BudgetInit => BudgetTypeOK
  BY MinOfTwo, BudgetAssumption DEF BudgetInit, BudgetTypeOK
<1>2. BudgetTypeOK /\ [BudgetNext]_budgetVars => BudgetTypeOK'
  <2> SUFFICES ASSUME BudgetTypeOK, [BudgetNext]_budgetVars PROVE BudgetTypeOK'
    OBVIOUS
  <2> USE DEF BudgetTypeOK
  <2>1. ASSUME NEW n \in Amounts \cup {Available}, Reserve(n) PROVE BudgetTypeOK'
    BY <2>1, BudgetAssumption DEF Reserve, Available
  <2>2. ASSUME NEW n \in Amounts, Release(n) PROVE BudgetTypeOK'
    <3>1. Min({n, reserved}) \in Int
      BY MinOfTwo, BudgetAssumption
    <3> QED BY <2>2, <3>1 DEF Release
  <2>3. ASSUME NEW r \in Answers, RecordResponse(r) PROVE BudgetTypeOK'
    <3>1. Max({r, 0}) \in Int
      BY MaxOfTwo, BudgetAssumption
    <3> QED BY <2>3, <3>1 DEF RecordResponse
  <2>4. CASE UNCHANGED budgetVars
    BY <2>4 DEF budgetVars
  <2> QED BY <2>1, <2>2, <2>3, <2>4 DEF BudgetNext
<1>3. BudgetTypeOK => RunsWhatItCanAfford
  <2> SUFFICES ASSUME BudgetTypeOK, reserve = 200, NEW total \in Totals
               PROVE  /\ Available >= 230 => RunOutcome(total) = "ran"
                      /\ total > 0 /\ RunOutcome(total) = "ran" =>
                            SourceChunk > 0 /\ Available - EstimateRequests(SourceChunk) >= 200
    BY DEF RunsWhatItCanAfford
  <2>1. Available \in Int /\ total \in Nat
    BY BudgetAssumption DEF BudgetTypeOK, Available
  <2>2. /\ RunnerChunk \in Nat /\ SourceChunk \in Nat
        /\ Available >= 230 => /\ RunnerChunk >= 10 /\ SourceChunk = RunnerChunk
                               /\ 3 * RunnerChunk <= Available - 200
        /\ Available < 230 => RunnerChunk = 0
    BY <2>1, ChunkFits
  <2>3. \A n \in Nat : CanAfford(n) <=> Available - n >= 200
    BY <2>1 DEF CanAfford
  <2>4. \A n \in Nat : EstimateRequests(n) \in Nat /\ EstimateRequests(n) <= 3 * n
    BY DEF EstimateRequests
  <2>5. CASE Available >= 230
    <3>1. ~WouldPause /\ ~(total > 0 /\ RunnerChunk <= 0)
      BY <2>1, <2>2, <2>5 DEF WouldPause
    <3>2. RunOutcome(total) = IF CanAfford(EstimateRequests(Min({RunnerChunk, total})))
                              THEN "ran" ELSE "paused"
      BY <2>1, <2>2, <2>5, <3>1 DEF RunOutcome
    <3>3. Min({RunnerChunk, total}) \in Nat /\ Min({RunnerChunk, total}) <= RunnerChunk
      BY <2>1, <2>2, MinOfTwo
    <3>4. Available - EstimateRequests(Min({RunnerChunk, total})) >= 200
      BY <2>1, <2>2, <2>4, <2>5, <3>3
    <3>5. RunOutcome(total) = "ran"
      BY <2>3, <2>4, <3>2, <3>3, <3>4
    <3>6. SourceChunk > 0 /\ Available - EstimateRequests(SourceChunk) >= 200
      BY <2>1, <2>2, <2>4, <2>5
    <3> QED BY <3>5, <3>6
  <2>6. CASE Available < 230
    <3>1. total > 0 => RunOutcome(total) # "ran"
      BY <2>1, <2>2, <2>6 DEF RunOutcome
    <3> QED BY <2>1, <2>6, <3>1
  <2> QED BY <2>1, <2>5, <2>6
<1> QED BY <1>1, <1>2, <1>3, PTL DEF BudgetSpec

-----------------------------------------------------------------------------
(* The git mirrors. *)

MirrorsSpec == MirrorsInit /\ [][MirrorsNext]_mirrorVars

Versions == 0..MaxVersion

MirrorStates == [present : BOOLEAN, refs : SUBSET ({LocalRef(p) : p \in MirrorPRs} \X Versions)]

\* A mirror with one version of every ref it has.
Proper(m) ==
    /\ m \in MirrorStates
    /\ \A n \in MirrorPRs, v, w \in Versions :
          <<LocalRef(n), v>> \in m.refs /\ <<LocalRef(n), w>> \in m.refs => v = w

HasSince(m, n, v) == \E w \in Versions : <<LocalRef(n), w>> \in m.refs /\ w >= v

MirrorsTypeOK ==
    /\ upstream \in [Repos -> [MirrorPRs -> Versions]]
    /\ \A r \in Repos : Proper(mirror[r]) /\ Proper(legacy[r])
    /\ mirror \in [Repos -> MirrorStates] /\ legacy \in [Repos -> MirrorStates]

\* A fetch that runs: what it has not reported or still to fetch the mirror
\* has, at least as new as it was at the start; pushes only make it newer.
FetchKeepsUp ==
    fetch.on =>
        /\ fetch.repo \in Repos /\ fetch.todo \subseteq MirrorPRs
        /\ \A x \in fetch.from :
              /\ x[1] \in MirrorPRs /\ x[2] \in Versions /\ x[2] <= upstream[fetch.repo][x[1]]
              /\ ~fetch.gone => \/ x[1] \in fetch.todo \cup fetch.skipped
                                \/ HasSince(mirror[fetch.repo], x[1], x[2])

\* The mirror of a fetch is there unless it was removed.
FetchHasMirror == fetch.on /\ ~fetch.gone => mirror[fetch.repo].present

FetchTypeOK ==
    fetch \in [on : BOOLEAN, batched : BOOLEAN, repo : Repos \cup {""}, todo : SUBSET MirrorPRs,
               skipped : SUBSET MirrorPRs, from : SUBSET (MirrorPRs \X Versions), gone : BOOLEAN]

MirrorsInv == MirrorsTypeOK /\ FetchTypeOK /\ FetchKeepsUp /\ FetchHasMirror

\* A mirror that has fetched the pull requests of S, at the versions of up.
WithFetched(m, S, up) ==
    [m EXCEPT !.refs = {x \in @ : \A p \in S : x[1] # LocalRef(p)} \cup {<<LocalRef(p), up[p]>> : p \in S}]

\* Fetching refs replaces their versions and leaves the others.
LEMMA RefsReplaced ==
    ASSUME NEW m, Proper(m), NEW S \in SUBSET MirrorPRs, NEW up \in [MirrorPRs -> Versions]
    PROVE  /\ Proper(WithFetched(m, S, up)) /\ WithFetched(m, S, up).present = m.present
           /\ \A p \in S : <<LocalRef(p), up[p]>> \in WithFetched(m, S, up).refs
           /\ \A p \in MirrorPRs \ S, v \in Versions :
                 <<LocalRef(p), v>> \in WithFetched(m, S, up).refs <=> <<LocalRef(p), v>> \in m.refs
<1> DEFINE new == WithFetched(m, S, up)
<1>1. \A p, q \in MirrorPRs : LocalRef(p) = LocalRef(q) => p = q
  BY DEF LocalRef
<1>2. /\ m \in MirrorStates
      /\ \A n \in MirrorPRs, v, w \in Versions :
            <<LocalRef(n), v>> \in m.refs /\ <<LocalRef(n), w>> \in m.refs => v = w
  BY DEF Proper
<1>3. /\ new.present = m.present
      /\ new.refs = {x \in m.refs : \A p \in S : x[1] # LocalRef(p)}
                      \cup {<<LocalRef(p), up[p]>> : p \in S}
  BY <1>2 DEF MirrorStates, WithFetched
<1> HIDE DEF new
<1>4. \A p \in S : <<LocalRef(p), up[p]>> \in new.refs
  BY <1>3
<1>5. \A p \in MirrorPRs \ S, v \in Versions :
         <<LocalRef(p), v>> \in new.refs <=> <<LocalRef(p), v>> \in m.refs
  BY <1>1, <1>3
<1>6. \A p \in S, v \in Versions : <<LocalRef(p), v>> \in new.refs => v = up[p]
  BY <1>1, <1>3
<1>7. new \in MirrorStates
  <2>1. new.refs \in SUBSET ({LocalRef(p) : p \in MirrorPRs} \X Versions)
    BY <1>2, <1>3 DEF MirrorStates
  <2>2. new = [present |-> m.present, refs |-> new.refs]
    BY <1>2, <1>3 DEF MirrorStates, WithFetched, new
  <2> QED BY <1>2, <2>1, <2>2 DEF MirrorStates
<1>8. ASSUME NEW n \in MirrorPRs, NEW v \in Versions, NEW w \in Versions,
             <<LocalRef(n), v>> \in new.refs, <<LocalRef(n), w>> \in new.refs
      PROVE  v = w
  <2>1. CASE n \in S
    BY <1>6, <1>8, <2>1
  <2>2. CASE n \notin S
    BY <1>2, <1>5, <1>8, <2>2
  <2> QED BY <2>1, <2>2
<1> QED BY <1>3, <1>4, <1>5, <1>7, <1>8 DEF Proper, new

\* At the end of a fetch every open pull request is in the mirror at least as
\* new as it was at the start, or it is reported as skipped, for every number
\* of repositories, pull requests and pushes and every length of a batch,
\* whatever the mirror commands move and remove meanwhile
\* (repo/mirror.go:170-261).
THEOREM MirrorIsFetched == MirrorsSpec => []FetchedOrSkipped
<1>0. 0 \in Versions /\ 1 \in Versions /\ Versions \subseteq Nat
  BY MirrorsAssumption DEF Versions
<1>1. MirrorsInit => MirrorsInv
  <2> SUFFICES ASSUME MirrorsInit PROVE MirrorsInv
    OBVIOUS
  <2>1. Proper(Absent)
    BY DEF Proper, MirrorStates, Absent
  <2>2. Proper([present |-> TRUE, refs |-> {<<LocalRef(p), 1>> : p \in MirrorPRs}])
    <3>1. [present |-> TRUE, refs |-> {<<LocalRef(p), 1>> : p \in MirrorPRs}] \in MirrorStates
      BY <1>0 DEF MirrorStates
    <3>2. \A n \in MirrorPRs, v \in Versions :
             <<LocalRef(n), v>> \in {<<LocalRef(p), 1>> : p \in MirrorPRs} => v = 1
      OBVIOUS
    <3> QED BY <3>1, <3>2 DEF Proper
  <2>3. \A r \in Repos : Proper(mirror[r]) /\ Proper(legacy[r])
    BY <2>1, <2>2 DEF MirrorsInit
  <2>4. mirror \in [Repos -> MirrorStates] /\ legacy \in [Repos -> MirrorStates]
    BY <2>1, <2>2 DEF MirrorsInit, Proper
  <2>5. upstream \in [Repos -> [MirrorPRs -> Versions]]
    BY <1>0 DEF MirrorsInit
  <2>6. fetch = NoFetch
    BY DEF MirrorsInit
  <2> QED BY <2>3, <2>4, <2>5, <2>6
          DEF MirrorsInv, MirrorsTypeOK, FetchTypeOK, FetchKeepsUp, FetchHasMirror, NoFetch
<1>2. MirrorsInv /\ [MirrorsNext]_mirrorVars => MirrorsInv'
  <2> SUFFICES ASSUME MirrorsInv, [MirrorsNext]_mirrorVars PROVE MirrorsInv'
    OBVIOUS
  <2>a. MirrorsTypeOK /\ FetchTypeOK /\ FetchKeepsUp /\ FetchHasMirror
    BY DEF MirrorsInv
  <2>b. \A r \in Repos : Proper(mirror[r]) /\ Proper(legacy[r]) /\ upstream[r] \in [MirrorPRs -> Versions]
    BY <2>a DEF MirrorsTypeOK
  <2>c. \A m : Proper(m) => m \in MirrorStates /\ m.present \in BOOLEAN
    BY DEF Proper, MirrorStates
  <2>d. Proper(Absent) /\ Proper(Empty)
    BY DEF Proper, MirrorStates, Absent, Empty
  \* A mirror is made, moved or removed.
  <2>e. ASSUME NEW r \in Repos, NEW m, Proper(m), mirror' = [mirror EXCEPT ![r] = m],
               UNCHANGED <<upstream, legacy>>
        PROVE  MirrorsTypeOK' /\ mirror'[r] = m /\ \A q \in Repos : q # r => mirror'[q] = mirror[q]
    BY <2>a, <2>b, <2>c, <2>e DEF MirrorsTypeOK
  <2>f. ASSUME fetch' = NoFetch PROVE FetchTypeOK' /\ FetchKeepsUp' /\ FetchHasMirror'
    BY <2>f DEF FetchTypeOK, FetchKeepsUp, FetchHasMirror, NoFetch
  \* The refs of S are fetched.
  <2>g. ASSUME NEW S \in SUBSET fetch.todo, fetch.on, mirror[fetch.repo].present,
               mirror' = [mirror EXCEPT ![fetch.repo] = WithFetched(@, S, upstream[fetch.repo])],
               fetch' = [fetch EXCEPT !.todo = @ \ S], UNCHANGED <<upstream, legacy>>
        PROVE  MirrorsInv'
    <3> DEFINE r == fetch.repo
               old == mirror[r]
               new == WithFetched(old, S, upstream[r])
    <3>1. r \in Repos /\ fetch.todo \subseteq MirrorPRs
      BY <2>a, <2>g DEF FetchKeepsUp
    <3>2. Proper(old) /\ upstream[r] \in [MirrorPRs -> Versions]
      BY <2>b, <3>1
    <3>3. S \in SUBSET MirrorPRs
      BY <3>1
    <3>4. /\ Proper(new) /\ new.present = old.present
          /\ \A p \in S : <<LocalRef(p), upstream[r][p]>> \in new.refs
          /\ \A p \in MirrorPRs \ S, v \in Versions :
                <<LocalRef(p), v>> \in new.refs <=> <<LocalRef(p), v>> \in old.refs
      BY <3>2, <3>3, RefsReplaced
    <3>5. mirror' = [mirror EXCEPT ![r] = new]
      BY <2>g
    <3> HIDE DEF new
    <3>6. MirrorsTypeOK' /\ mirror'[r] = new
      BY <2>e, <2>g, <3>1, <3>4, <3>5
    <3>7. /\ FetchTypeOK' /\ fetch'.on /\ fetch'.repo = r /\ fetch'.todo = fetch.todo \ S
          /\ fetch'.skipped = fetch.skipped /\ fetch'.from = fetch.from /\ fetch'.gone = fetch.gone
      BY <2>a, <2>g DEF FetchTypeOK
    <3>8. FetchHasMirror'
      BY <2>g, <3>4, <3>6, <3>7 DEF FetchHasMirror
    <3>9. ASSUME NEW x \in fetch.from, ~fetch.gone, x[1] \notin fetch'.todo \cup fetch'.skipped
          PROVE  HasSince(new, x[1], x[2])
      <4>1. x[1] \in MirrorPRs /\ x[2] \in Versions /\ x[2] <= upstream[r][x[1]]
        BY <2>a, <2>g DEF FetchKeepsUp
      <4>2. CASE x[1] \in S
        <5>1. <<LocalRef(x[1]), upstream[r][x[1]]>> \in new.refs
          BY <3>4, <4>2
        <5>2. upstream[r][x[1]] \in Versions /\ upstream[r][x[1]] >= x[2]
          BY <1>0, <3>2, <4>1
        <5> QED BY <5>1, <5>2 DEF HasSince
      <4>3. CASE x[1] \notin S
        <5>1. HasSince(old, x[1], x[2])
          BY <2>a, <2>g, <3>7, <3>9, <4>3 DEF FetchKeepsUp
        <5> QED BY <3>4, <4>1, <4>3, <5>1 DEF HasSince
      <4> QED BY <4>2, <4>3
    <3>10. FetchKeepsUp'
      BY <2>a, <2>g, <3>1, <3>6, <3>7, <3>9 DEF FetchKeepsUp
    <3> QED BY <3>6, <3>7, <3>8, <3>10 DEF MirrorsInv
  <2>1. ASSUME NEW r \in Repos, NEW batched \in BOOLEAN, OpenOrCreate(r, batched) PROVE MirrorsInv'
    <3>1. mirror' = [mirror EXCEPT ![r] = IF mirror[r].present THEN mirror[r] ELSE Empty]
      BY <2>1 DEF OpenOrCreate
    <3>2. /\ Proper(IF mirror[r].present THEN mirror[r] ELSE Empty)
          /\ (IF mirror[r].present THEN mirror[r] ELSE Empty).present
      BY <2>b, <2>d DEF Empty
    <3>3. MirrorsTypeOK' /\ mirror'[r].present
      BY <2>1, <2>e, <3>1, <3>2 DEF OpenOrCreate
    <3>4. fetch' = [on |-> TRUE, batched |-> batched, repo |-> r, todo |-> MirrorPRs, skipped |-> {},
                    from |-> {<<p, upstream[r][p]>> : p \in MirrorPRs}, gone |-> FALSE]
      BY <2>1 DEF OpenOrCreate, NoFetch
    <3>5. FetchTypeOK'
      <4>1. {<<p, upstream[r][p]>> : p \in MirrorPRs} \in SUBSET (MirrorPRs \X Versions)
        BY <2>b
      <4> QED BY <3>4, <4>1 DEF FetchTypeOK
    <3>6. FetchKeepsUp'
      <4>1. \A x \in fetch'.from : /\ x[1] \in MirrorPRs /\ x[2] \in Versions
                                   /\ x[2] = upstream[r][x[1]]
        BY <2>b, <3>4
      <4>2. upstream' = upstream
        BY <2>1 DEF OpenOrCreate
      <4>3. /\ fetch'.repo = r /\ fetch'.todo = MirrorPRs
        BY <3>4
      <4>4. ASSUME NEW x \in fetch'.from PROVE x[2] <= upstream'[r][x[1]]
        <5>1. x[2] = upstream'[r][x[1]] /\ x[2] \in Nat
          BY <1>0, <4>1, <4>2
        <5> QED BY <5>1
      <4> QED BY <4>1, <4>3, <4>4 DEF FetchKeepsUp
    <3> QED BY <3>3, <3>4, <3>5, <3>6 DEF MirrorsInv, FetchHasMirror
  <2>2. CASE FetchOne
    <3>1. PICK p \in fetch.todo :
             \/ /\ mirror[fetch.repo].present
                /\ mirror' = [mirror EXCEPT ![fetch.repo] = Set(@, p, upstream[fetch.repo][p])]
                /\ fetch' = [fetch EXCEPT !.todo = @ \ {p}]
             \/ /\ fetch' = [fetch EXCEPT !.todo = @ \ {p}, !.skipped = @ \cup {p}]
                /\ UNCHANGED mirror
      BY <2>2 DEF FetchOne
    <3>2. fetch.on /\ UNCHANGED <<upstream, legacy>>
      BY <2>2 DEF FetchOne
    <3>3. CASE /\ mirror[fetch.repo].present
               /\ mirror' = [mirror EXCEPT ![fetch.repo] = Set(@, p, upstream[fetch.repo][p])]
               /\ fetch' = [fetch EXCEPT !.todo = @ \ {p}]
      <4>1. /\ {x \in mirror[fetch.repo].refs : x[1] # LocalRef(p)}
                 = {x \in mirror[fetch.repo].refs : \A q \in {p} : x[1] # LocalRef(q)}
            /\ {<<LocalRef(p), upstream[fetch.repo][p]>>}
                 = {<<LocalRef(q), upstream[fetch.repo][q]>> : q \in {p}}
        OBVIOUS
      <4>3. Set(mirror[fetch.repo], p, upstream[fetch.repo][p])
              = WithFetched(mirror[fetch.repo], {p}, upstream[fetch.repo])
        BY <4>1 DEF Set, WithFetched
      <4>2. mirror' = [mirror EXCEPT ![fetch.repo] = WithFetched(@, {p}, upstream[fetch.repo])]
        BY <3>3, <4>3
      <4>4. {p} \in SUBSET fetch.todo
        BY <3>1
      <4>5. fetch' = [fetch EXCEPT !.todo = @ \ {p}] /\ mirror[fetch.repo].present
        BY <3>3
      <4> QED BY <2>g, <3>2, <4>2, <4>4, <4>5
    <3>4. CASE /\ fetch' = [fetch EXCEPT !.todo = @ \ {p}, !.skipped = @ \cup {p}]
               /\ UNCHANGED mirror
      <4>1. fetch.todo \subseteq MirrorPRs
        BY <2>a, <3>2 DEF FetchKeepsUp
      <4>2. /\ FetchTypeOK' /\ fetch'.on /\ fetch'.repo = fetch.repo
            /\ fetch'.todo = fetch.todo \ {p} /\ fetch'.skipped = fetch.skipped \cup {p}
            /\ fetch'.from = fetch.from /\ fetch'.gone = fetch.gone
        BY <2>a, <3>1, <3>2, <3>4, <4>1 DEF FetchTypeOK
      <4>3. FetchKeepsUp'
        BY <2>a, <3>2, <3>4, <4>1, <4>2 DEF FetchKeepsUp
      <4> QED BY <2>a, <3>2, <3>4, <4>2, <4>3 DEF MirrorsInv, MirrorsTypeOK, FetchHasMirror
    <3> QED BY <3>1, <3>3, <3>4
  <2>3. CASE FetchBatch
    <3>1. CASE fetch' = NoFetch /\ UNCHANGED mirror
      BY <2>3, <2>a, <2>f, <3>1 DEF FetchBatch, MirrorsInv, MirrorsTypeOK
    <3>2. CASE /\ mirror[fetch.repo].present
               /\ \E batch \in Batches :
                    /\ mirror' = [mirror EXCEPT ![fetch.repo].refs =
                                    {x \in @ : \A p \in batch : x[1] # LocalRef(p)}
                                      \cup {<<LocalRef(p), upstream[fetch.repo][p]>> : p \in batch}]
                    /\ fetch' = [fetch EXCEPT !.todo = @ \ batch]
      <4>1. PICK batch \in SUBSET fetch.todo :
              /\ mirror' = [mirror EXCEPT ![fetch.repo].refs =
                                {x \in @ : \A p \in batch : x[1] # LocalRef(p)}
                                  \cup {<<LocalRef(p), upstream[fetch.repo][p]>> : p \in batch}]
              /\ fetch' = [fetch EXCEPT !.todo = @ \ batch]
        BY <3>2 DEF Batches
      <4>2. mirror' = [mirror EXCEPT ![fetch.repo] = WithFetched(@, batch, upstream[fetch.repo])]
        BY <4>1 DEF WithFetched
      <4> QED BY <2>3, <2>g, <3>2, <4>1, <4>2 DEF FetchBatch
    <3> QED BY <2>3, <3>1, <3>2 DEF FetchBatch
  <2>4. CASE EndFetch
    BY <2>4, <2>a, <2>f DEF EndFetch, MirrorsInv, MirrorsTypeOK
  <2>5. ASSUME NEW r \in Repos, NEW p \in MirrorPRs, Push(r, p) PROVE MirrorsInv'
    <3>1. /\ upstream[r][p] + 1 \in Versions /\ upstream[r][p] \in Versions
          /\ upstream' = [upstream EXCEPT ![r][p] = upstream[r][p] + 1]
          /\ UNCHANGED <<mirror, legacy, fetch>>
      BY <2>5, <2>b, MirrorsAssumption DEF Push, Versions
    <3>2. /\ upstream' \in [Repos -> [MirrorPRs -> Versions]]
          /\ \A q \in Repos, n \in MirrorPRs : upstream[q][n] <= upstream'[q][n]
      <4>1. upstream \in [Repos -> [MirrorPRs -> Versions]]
        BY <2>a DEF MirrorsTypeOK
      <4>2. \A q \in Repos, n \in MirrorPRs :
               upstream'[q][n] = IF q = r /\ n = p THEN upstream[r][p] + 1 ELSE upstream[q][n]
        BY <3>1, <4>1
      <4>3. upstream' \in [Repos -> [MirrorPRs -> Versions]]
        BY <3>1, <4>1
      <4>4. \A q \in Repos, n \in MirrorPRs : upstream[q][n] \in Nat
        BY <1>0, <4>1
      <4> QED BY <4>2, <4>3, <4>4
    <3>3. \A q \in Repos, n \in MirrorPRs : upstream[q][n] \in Nat /\ upstream'[q][n] \in Nat
      BY <1>0, <2>b, <3>2
    <3>4. FetchKeepsUp'
      <4> SUFFICES ASSUME fetch.on
                   PROVE  \A x \in fetch.from : x[2] <= upstream'[fetch.repo][x[1]]
        BY <2>a, <3>1 DEF FetchKeepsUp, HasSince
      <4>1. \A x \in fetch.from : /\ fetch.repo \in Repos /\ x[1] \in MirrorPRs /\ x[2] \in Nat
                                  /\ x[2] <= upstream[fetch.repo][x[1]]
        BY <1>0, <2>a DEF FetchKeepsUp
      <4> QED BY <3>2, <3>3, <4>1
    <3> QED BY <2>a, <3>1, <3>2, <3>4 DEF MirrorsInv, MirrorsTypeOK, FetchTypeOK, FetchHasMirror
  <2>6. ASSUME NEW r \in Repos, MigrateLegacyMirror(r) PROVE MirrorsInv'
    <3>1. UNCHANGED <<upstream, fetch>>
      BY <2>6 DEF MigrateLegacyMirror
    <3>2. CASE mirror[r].present
      BY <2>6, <2>a, <3>1, <3>2
         DEF MigrateLegacyMirror, MirrorsInv, MirrorsTypeOK, FetchTypeOK, FetchKeepsUp, FetchHasMirror
    <3>3. CASE ~mirror[r].present
      <4>1. /\ mirror' = [mirror EXCEPT ![r] = legacy[r]]
            /\ legacy' = [legacy EXCEPT ![r] = Absent]
        BY <2>6, <3>3 DEF MigrateLegacyMirror
      <4>2. MirrorsTypeOK'
        BY <2>a, <2>b, <2>c, <2>d, <3>1, <4>1 DEF MirrorsTypeOK
      <4>3. fetch.on /\ ~fetch.gone => fetch.repo # r
        BY <2>a, <3>3 DEF FetchHasMirror
      <4>4. fetch.on /\ ~fetch.gone => mirror'[fetch.repo] = mirror[fetch.repo]
        BY <2>a, <4>1, <4>3 DEF MirrorsTypeOK, FetchKeepsUp
      <4>5. FetchKeepsUp'
        BY <2>a, <3>1, <4>4 DEF FetchKeepsUp
      <4> QED BY <2>a, <3>1, <4>2, <4>4, <4>5 DEF MirrorsInv, FetchTypeOK, FetchHasMirror
    <3> QED BY <3>2, <3>3
  <2>7. ASSUME NEW r \in Repos, RemoveDir(r) PROVE MirrorsInv'
    <3>1. /\ mirror' = [mirror EXCEPT ![r] = Absent] /\ UNCHANGED <<upstream, legacy>>
          /\ fetch' = [fetch EXCEPT !.gone = (fetch.gone \/ fetch.repo = r)]
      BY <2>7 DEF RemoveDir
    <3>2. MirrorsTypeOK' /\ \A q \in Repos : q # r => mirror'[q] = mirror[q]
      BY <2>d, <2>e, <3>1
    <3>3. /\ FetchTypeOK' /\ fetch'.on = fetch.on /\ fetch'.repo = fetch.repo
          /\ fetch'.todo = fetch.todo /\ fetch'.skipped = fetch.skipped /\ fetch'.from = fetch.from
          /\ ~fetch'.gone => ~fetch.gone /\ fetch.repo # r
      BY <2>a, <3>1 DEF FetchTypeOK
    <3>4. FetchKeepsUp'
      BY <2>a, <3>1, <3>2, <3>3 DEF FetchKeepsUp
    <3>5. FetchHasMirror'
      BY <2>a, <3>2, <3>3 DEF FetchHasMirror, FetchKeepsUp
    <3> QED BY <3>2, <3>3, <3>4, <3>5 DEF MirrorsInv
  <2>8. CASE \/ Prune \/ Clean \/ \E r \in Repos : PlanLegacyMirrorMigration(r)
             \/ UNCHANGED mirrorVars
    <3>1. UNCHANGED <<upstream, mirror, legacy, fetch>>
      BY <2>8 DEF Prune, Clean, PlanLegacyMirrorMigration, mirrorVars
    <3> QED BY <2>a, <3>1
            DEF MirrorsInv, MirrorsTypeOK, FetchTypeOK, FetchKeepsUp, FetchHasMirror
  <2> QED BY <2>1, <2>2, <2>3, <2>4, <2>5, <2>6, <2>7, <2>8 DEF MirrorsNext
<1>3. MirrorsInv => FetchedOrSkipped
  <2> SUFFICES ASSUME MirrorsInv, fetch.on, fetch.todo = {}, ~fetch.gone, NEW x \in fetch.from,
                      x[1] \notin fetch.skipped
               PROVE  Version(mirror[fetch.repo], LocalRef(x[1])) >= x[2]
    BY DEF FetchedOrSkipped
  <2>1. x[1] \in MirrorPRs /\ Proper(mirror[fetch.repo]) /\ HasSince(mirror[fetch.repo], x[1], x[2])
    BY DEF MirrorsInv, FetchKeepsUp, MirrorsTypeOK
  <2>2. PICK w \in Versions : <<LocalRef(x[1]), w>> \in mirror[fetch.repo].refs /\ w >= x[2]
    BY <2>1 DEF HasSince
  <2>3. Version(mirror[fetch.repo], LocalRef(x[1])) = w
    BY <2>1, <2>2 DEF Version, Proper, Versions
  <2> QED BY <2>2, <2>3
<1> QED BY <1>1, <1>2, <1>3, PTL DEF MirrorsSpec
=============================================================================
