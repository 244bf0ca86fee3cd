------------------------ MODULE MCVelocityPipeline ------------------------
(* Instances of VelocityPipeline for TLC. *)
EXTENDS VelocityPipeline

CONSTANTS a, b, ana, blas

Txn(id, customer, time, amount) ==
    [id |-> id, customer |-> customer, time |-> time, amount |-> amount]

\* One customer: the same id twice, the second time with another time and
\* amount, and another id.
MCSlidingEvents ==
    {Txn(a, ana, 0, 1), Txn(a, ana, 1, 3), Txn(b, ana, 1, 1)}

\* Two customers that use the same id.
MCCustomerEvents ==
    {Txn(a, ana, 0, 1), Txn(b, ana, 1, 1), Txn(a, blas, 1, 2)}
=============================================================================
