---------------------------- MODULE LeaseService ----------------------------
(***************************************************************************)
(* What a client of the work queue may rely on about leases, whatever the  *)
(* states, rows and proofs around them do: an item has at most one lease,  *)
(* a lease is granted only when none is alive, only its holder renews it,  *)
(* and it may be withdrawn at any moment.                                  *)
(***************************************************************************)
EXTENDS Integers

CONSTANTS Items, Workers, Expiries, MaxTime, NoWorker

VARIABLES clock, lease

vars == <<clock, lease>>

NoLease == [by |-> NoWorker, exp |-> 0]

Alive(i) == lease[i].exp > clock

Grant(i, w, e) ==
    /\ ~Alive(i)
    /\ lease' = [lease EXCEPT ![i] = [by |-> w, exp |-> e]]
    /\ UNCHANGED clock

Renew(i, e) ==
    /\ lease[i] # NoLease
    /\ lease' = [lease EXCEPT ![i].exp = e]
    /\ UNCHANGED clock

Withdraw(i) ==
    /\ lease' = [lease EXCEPT ![i] = NoLease]
    /\ UNCHANGED clock

Tick ==
    /\ clock' = clock + 1
    /\ UNCHANGED lease

Init == clock = 0 /\ lease = [i \in Items |-> NoLease]

Next ==
    \/ \E i \in Items, w \in Workers, e \in Expiries : Grant(i, w, e)
    \/ \E i \in Items, e \in Expiries : Renew(i, e)
    \/ \E i \in Items : Withdraw(i)
    \/ Tick

Spec == Init /\ [][Next]_vars
=============================================================================
