--------------------------- MODULE MCSkewAnalysis ---------------------------
(* Instances of SkewAnalysis for TLC. *)
EXTENDS SkewAnalysis

Half == [num |-> 1, den |-> 2]   \* of three events, two are hot; of two, one
Sixth == [num |-> 1, den |-> 6]  \* of three events, none: a tie rounds to even

Invoked(mode, partitions, events, share) ==
    [mode |-> mode, partitions |-> partitions, events |-> events,
     share |-> share]

\* Three partitions are what the topic has.  Two are too few for what is
\* observed, and four more than it can be.
MCInvocations ==
    {Invoked("simulate", n, 3, s) : n \in 1 .. 4, s \in {Half, Sixth}}
    \union {Invoked("publish", 3, 3, Half)}
    \union {Invoked("publish", n, 2, Half) : n \in {2, 4}}

\* Customers of a kind spread, and the hot key shares its partition.
MCCrc32(customer) ==
    customer[2] + (IF customer[1] = "cust-hot" THEN 5 ELSE 0)

\* docs/analisis-skew.md has librdkafka assign by CRC32 too.
MCPartitioner(customer, count) == MCCrc32(customer) % count
=============================================================================
