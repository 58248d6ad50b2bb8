----------------------------- MODULE GitHubCalls ------------------------------
(***************************************************************************)
(* One call of the GitHub client (internal/github/client.go) with its      *)
(* retries, and the fallback to the next token around it (auth.go).  A     *)
(* call is made of stages, each a request that is tried until it has an    *)
(* answer that counts: reading goes through graphQL or REST, GetPR reads   *)
(* a pull request and enriches it with three more reads, and the writes    *)
(* are single requests.  Waits are left out; whether an answer is a rate   *)
(* limit, a transient failure or final is kept.                            *)
(***************************************************************************)
EXTENDS Naturals, Sequences, FiniteSets

CONSTANTS Tokens,     \* number of tokens discovered
          MaxRetries  \* maxSecondaryRetries

ASSUME CallsAssumption == Tokens \in Nat \ {0} /\ MaxRetries \in Nat

VARIABLES server,  \* the pull request at GitHub
          call,    \* the call: operation, stage, retries, token, outcome
          pr,      \* what GetPR has put together
          lost     \* writes that took effect without their answer arriving

callVars == <<server, call, pr, lost>>

Stages == [count |-> <<"graphql">>, get |-> <<"pr", "ci", "protection", "reviews">>,
           merge |-> <<"merge">>, close |-> <<"close">>, comment |-> <<"comment">>,
           label |-> <<"label">>]

Stage   == Stages[call.op][call.stage]
GraphQL == Stage \in {"graphql", "ci", "reviews"}
Pending == call.outcome = "none"

-----------------------------------------------------------------------------
(* Answers: "ok", "limited" (403), "401", "5xx", "refused" (any other      *)
(* status from 300), "timeout" (a transient transport error) and "broken"  *)
(* (another transport error, or a read whose answer cannot be decoded).    *)
(* GraphQL also knows "errors", a status of 200 with errors and with part  *)
(* of the data or none, which is not told from "ok"; and a merge "noop", a *)
(* 409 that says merged already or no commits between, or a 2xx with a     *)
(* message and no commit.                                                  *)

Replies == {"ok", "limited", "401", "5xx", "refused", "timeout", "broken"}
Read(a) == a \in {"ok", "errors"}

Transient(a) == a \in {"5xx", "timeout"} \/ (GraphQL /\ a = "limited")

\* What another token may help against.
IsRetryableError(a) == a \in {"limited", "401"}

TryAgain == call' = [call EXCEPT !.retries = @ + 1]
EndCall(outcome) == call' = [call EXCEPT !.outcome = outcome]
NextStage == IF call.stage = Len(Stages[call.op]) THEN EndCall("success")
             ELSE call' = [call EXCEPT !.stage = @ + 1, !.retries = 0]

Retries(a) == Transient(a) /\ call.retries < MaxRetries
Final(a)   == ~Retries(a)

\* AttemptWithTokenFallback around FetchOpenPRCount: the call again with the
\* next token.
FailCall(a) ==
    IF call.op = "count" /\ IsRetryableError(a) /\ call.token < Tokens
    THEN call' = [call EXCEPT !.token = @ + 1, !.stage = 1, !.retries = 0]
    ELSE EndCall("failed")

-----------------------------------------------------------------------------
(* Reads. *)

\* The count is 0 where the answer has only errors.
ReadGraphQL(a) ==
    /\ Pending /\ Stage = "graphql"
    /\ \/ Retries(a) /\ TryAgain
       \/ Final(a) /\ ~Read(a) /\ FailCall(a)
       \/ Read(a) /\ NextStage
    /\ UNCHANGED <<server, pr, lost>>

ReadPR(a) ==
    /\ Pending /\ Stage = "pr"
    /\ \/ Retries(a) /\ TryAgain
       \/ Final(a) /\ a # "ok" /\ FailCall(a)
       \/ a = "ok" /\ NextStage
    /\ UNCHANGED <<server, pr, lost>>

\* The checks are "unknown" when they cannot be read, and empty when GitHub
\* answers without them.
ReadCI(a) ==
    /\ Pending /\ Stage = "ci"
    /\ \/ Retries(a) /\ TryAgain /\ UNCHANGED pr
       \/ Final(a) /\ NextStage
          /\ \E ci \in CASE a = "ok" -> {server.ci} [] a = "errors" -> {server.ci, ""}
                         [] OTHER -> {"unknown"} :
               pr' = [pr EXCEPT !.ci = ci]
    /\ UNCHANGED <<server, lost>>

\* Without an answer, or when no review is required, reviews count as there.
\* ("refused" stands for 404, no protection, as well as for other errors.)
ReadProtection(a) ==
    /\ Pending /\ Stage = "protection"
    /\ \/ Retries(a) /\ TryAgain /\ UNCHANGED pr
       \/ Final(a) /\ (a # "ok" \/ server.required = 0)
          /\ EndCall("success")
          /\ pr' = [pr EXCEPT !.reviewed = TRUE, !.protection = a]
       \/ a = "ok" /\ server.required > 0
          /\ NextStage
          /\ pr' = [pr EXCEPT !.protection = a]
    /\ UNCHANGED <<server, lost>>

\* Approving reviews are counted, two of one reviewer as two; with errors
\* some or all of them are missing.
ReadReviews(a) ==
    /\ Pending /\ Stage = "reviews"
    /\ \/ Retries(a) /\ TryAgain /\ UNCHANGED pr
       \/ Final(a) /\ NextStage
          /\ \E approved \in IF a = "ok" THEN {server.approvals} ELSE 0..server.approvals :
               pr' = [pr EXCEPT !.reviewed = (Read(a) /\ approved >= server.required)]
    /\ UNCHANGED <<server, lost>>

-----------------------------------------------------------------------------
(* Writes.  GitHub applies a request or not; only an "ok" shows that it    *)
(* did, and after a transient failure the request is sent again.           *)

Applied(op) ==
    CASE op = "merge"   -> [server EXCEPT !.merged = TRUE]
      [] op = "close"   -> [server EXCEPT !.open = FALSE]
      [] op = "comment" -> [server EXCEPT !.comments = @ + 1]
      [] op = "label"   -> [server EXCEPT !.labelled = TRUE]

Answered(op, a) ==
    \/ a = "ok" /\ server' = Applied(op) /\ UNCHANGED lost
    \/ a \in {"5xx", "timeout", "broken"} /\ server' = Applied(op) /\ lost' = lost + 1
    \/ a # "ok" /\ UNCHANGED <<server, lost>>

Settle(a) ==
    \/ Retries(a) /\ TryAgain
    \/ Final(a) /\ a # "ok" /\ EndCall("failed")
    \/ a = "ok" /\ NextStage

Mergeable == ~server.merged /\ ~server.empty

\* Mutant: every refusal is taken for "merged already".
MergeRefusedIsMerged(a) ==
    /\ Pending /\ Stage = "merge"
    /\ \/ Mergeable /\ a \notin {"noop", "refused"} /\ Answered("merge", a) /\ Settle(a)
       \/ (a = "refused" \/ (~Mergeable /\ a = "noop"))
          /\ EndCall("success") /\ UNCHANGED <<server, lost>>
    /\ UNCHANGED pr

\* A pull request that is merged, or that has nothing to merge, is not merged
\* again: GitHub says so, which is a success, or refuses, or fails.
Merge(a) ==
    /\ Pending /\ Stage = "merge"
    /\ \/ Mergeable /\ a # "noop" /\ Answered("merge", a) /\ Settle(a)
       \/ ~Mergeable /\ a = "noop" /\ EndCall("success") /\ UNCHANGED <<server, lost>>
       \/ ~Mergeable /\ a \notin {"ok", "noop"} /\ Settle(a) /\ UNCHANGED <<server, lost>>
    /\ UNCHANGED pr

Close(a) ==
    /\ Pending /\ Stage = "close"
    /\ Answered("close", a) /\ Settle(a)
    /\ UNCHANGED pr

CreateComment(a) ==
    /\ Pending /\ Stage = "comment"
    /\ Answered("comment", a) /\ Settle(a)
    /\ UNCHANGED pr

AddLabels(a) ==
    /\ Pending /\ Stage = "label"
    /\ Answered("label", a) /\ Settle(a)
    /\ UNCHANGED pr

\* Somebody else merges the pull request.
MergedElsewhere ==
    /\ Pending /\ ~server.merged
    /\ server' = [server EXCEPT !.merged = TRUE]
    /\ UNCHANGED <<call, pr, lost>>

\* A push, here or to the base, leaves nothing to merge, or something again.
HeadMoves ==
    /\ Pending /\ ~server.merged
    /\ server' = [server EXCEPT !.empty = ~@]
    /\ UNCHANGED <<call, pr, lost>>

CallsInit ==
    /\ \E required, approvals \in 0..2, ci \in {"pass", "fail"} :
          server = [merged |-> FALSE, empty |-> FALSE, open |-> TRUE, comments |-> 0, labelled |-> FALSE,
                    required |-> required, approvals |-> approvals, ci |-> ci]
    /\ \E op \in DOMAIN Stages :
          call = [op |-> op, stage |-> 1, retries |-> 0, token |-> 1, outcome |-> "none"]
    /\ pr = [ci |-> "none", reviewed |-> FALSE, protection |-> "none"]
    /\ lost = 0

CallsNext ==
    \/ \E a \in Replies \union {"errors"} : ReadGraphQL(a) \/ ReadCI(a) \/ ReadReviews(a)
    \/ \E a \in Replies \union {"noop"} : Merge(a)
    \/ \E a \in Replies : \/ ReadPR(a) \/ ReadProtection(a)
                         \/ Close(a) \/ CreateComment(a) \/ AddLabels(a)
    \/ MergedElsewhere \/ HeadMoves

-----------------------------------------------------------------------------
\* What the client reports is so.  A write that reports success is in effect
\* at GitHub, whatever was lost and sent again before, except that a merge
\* also succeeds where nothing was left to merge; a comment is there more
\* than once only because an answer was lost, never because one that arrived
\* was not understood; and reviews count as given with too few that approve
\* only when the protection of the branch could not be read, not when the
\* reviews could not, or only some.
SuccessIsReal ==
    call.outcome = "success" =>
        CASE call.op = "merge"   -> server.merged \/ server.empty
          [] call.op = "close"   -> ~server.open
          [] call.op = "comment" -> server.comments = lost + 1
          [] call.op = "label"   -> server.labelled
          [] call.op = "get"     ->
               pr.reviewed => pr.protection # "ok" \/ server.approvals >= server.required
          [] OTHER               -> TRUE
=============================================================================
