----------------------------- MODULE WriteLedger -----------------------------
(***************************************************************************)
(* What the live executor promises of the writes to GitHub, whatever its   *)
(* goroutines, its queue and its restarts do: an intent is written only    *)
(* when it was granted and is not recorded as executed, it is recorded     *)
(* only once GitHub performed it, and neither is ever taken back.          *)
(***************************************************************************)
EXTENDS Integers

CONSTANTS
    Intents,
    Empty      \* the intents that write nothing

VARIABLES
    granted,   \* the intents some plan allowed
    landed,    \* how often GitHub performed each of them
    recorded   \* the intents with a live row in the ledger

vars == <<granted, landed, recorded>>

Grant(a) ==
    /\ granted' = granted \cup {a}
    /\ UNCHANGED <<landed, recorded>>

Perform(a) ==
    /\ a \in granted \ recorded
    /\ landed' = [landed EXCEPT ![a] = @ + 1]
    /\ UNCHANGED <<granted, recorded>>

Record(a) ==
    /\ a \in granted
    /\ landed[a] > 0 \/ a \in Empty
    /\ recorded' = recorded \cup {a}
    /\ UNCHANGED <<granted, landed>>

Init ==
    /\ granted = {} /\ recorded = {}
    /\ landed = [a \in Intents |-> 0]

Next == \E a \in Intents : Grant(a) \/ Perform(a) \/ Record(a)

Spec == Init /\ [][Next]_vars
=============================================================================
