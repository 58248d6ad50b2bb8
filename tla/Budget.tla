-------------------------------- MODULE Budget --------------------------------
(***************************************************************************)
(* The request budget (telemetry/ratelimit) and what RateLimitRunner and   *)
(* RateLimitGuard (internal/sync) decide from it: how many pull requests a *)
(* sync may take, and whether it runs, pauses its job or does neither.     *)
(* The tiers and the 200 of the chunk arithmetic are the code's own        *)
(* numbers; the reserve buffer is configurable (--reserve-buffer).         *)
(***************************************************************************)
EXTENDS Integers, FiniteSetsExt

CONSTANTS Limit,     \* requests per hour, 5000 in the code
          Reserves,  \* reserve buffers the manager may be made with
          Amounts,   \* sizes of reservations
          Answers,   \* values of X-RateLimit-Remaining that GitHub may send
          Totals     \* numbers of cached pull requests a run may start from

ASSUME BudgetAssumption ==
    /\ Limit \in Nat /\ Reserves \subseteq Nat /\ Amounts \subseteq Nat
    /\ Answers \subseteq Int /\ Totals \subseteq Nat

VARIABLES left,      \* RemainingVal
          reserved,  \* reservedCount
          reserve    \* reserveBuffer

budgetVars == <<left, reserved, reserve>>

Available  == left - reserved
WouldPause == Available <= reserve

CanAfford(n) ==
    \/ n = 0 /\ Available >= reserve
    \/ Available - n >= reserve

\* The tiers of chunk_sizing.go and, written once more, of ratelimit_runner.go.
Tier(avail) ==
    IF avail > 2000 THEN 100 ELSE IF avail > 500 THEN 50 ELSE IF avail > 200 THEN 25 ELSE 0

\* Mutant: ten pull requests are too few.
AffordableAboveTen(avail) ==
    LET n == (avail - 200) \div 3 IN IF n <= 10 THEN 0 ELSE n

Affordable(avail) ==
    LET n == (avail - 200) \div 3 IN IF n < 10 THEN 0 ELSE n

SourceChunk ==
    IF Available <= 200 THEN 0
    ELSE IF CanAfford(3 * Tier(Available)) THEN Tier(Available) ELSE Affordable(Available)

RunnerChunk ==
    IF CanAfford(3 * Tier(Available)) THEN Tier(Available) ELSE Affordable(Available)

\* Pages of 100, and files and reviews of every pull request.
EstimateRequests(total) ==
    IF total <= 0 THEN 0 ELSE (total + 99) \div 100 + 2 * total

\* What a run over total cached pull requests does: CheckBudget passes or
\* pauses the job, and what passes is not always run.
RunOutcome(total) ==
    LET chunk     == RunnerChunk
        effective == IF chunk > 0 THEN Min({chunk, total}) ELSE total
        Gate(n, passed) == IF CanAfford(n) THEN passed ELSE "paused"
    IN  IF WouldPause THEN Gate(total, "nothing")
        ELSE IF total > 0 /\ chunk <= 0 THEN Gate(EstimateRequests(total), "nothing")
        ELSE Gate(EstimateRequests(effective), "ran")

-----------------------------------------------------------------------------
\* A reservation keeps the reserve, or takes exactly what is left.
Reserve(n) ==
    /\ Available >= n
    /\ Available - n >= reserve \/ n = Available
    /\ reserved' = reserved + n
    /\ UNCHANGED <<left, reserve>>

Release(n) ==
    /\ reserved' = reserved - Min({n, reserved})
    /\ UNCHANGED <<left, reserve>>

\* The header of an answer; reservations stay as they are.
RecordResponse(r) ==
    /\ left' = Max({r, 0})
    /\ UNCHANGED <<reserved, reserve>>

BudgetInit ==
    /\ left = Min({5000, Limit})
    /\ reserved = 0
    /\ reserve \in Reserves

BudgetNext ==
    \/ \E n \in Amounts \cup {Available} : n >= 0 /\ Reserve(n)
    \/ \E n \in Amounts : Release(n)
    \/ \E r \in Answers : RecordResponse(r)

-----------------------------------------------------------------------------
\* With the default reserve a sync runs exactly as far as it may, whatever
\* GitHub's answers and the reservations have left: thirty requests above the
\* reserve are always enough to run, and what the source then fetches, by
\* its own copy of the chunk rule, leaves the reserve.  (With an empty cache
\* a sync also runs with less than that, and without a cap.)
RunsWhatItCanAfford ==
    reserve = 200 => \A total \in Totals :
        /\ Available >= 230 => RunOutcome(total) = "ran"
        /\ total > 0 /\ RunOutcome(total) = "ran" =>
              SourceChunk > 0 /\ Available - EstimateRequests(SourceChunk) >= reserve
=============================================================================
