----------------------------- MODULE MCEndToEnd -----------------------------
(* Instances of EndToEnd for TLC. *)
EXTENDS EndToEnd

CONSTANTS a, b, ana

Txn(id, time) == [id |-> id, customer |-> ana, time |-> time, amount |-> 1]

\* Two transactions of one customer in the one window there is.
MCEvents == {Txn(a, 0), Txn(b, 1)}
=============================================================================
