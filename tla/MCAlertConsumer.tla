-------------------------- MODULE MCAlertConsumer --------------------------
(* Instances of AlertConsumer for TLC. *)
EXTENDS AlertConsumer, TLC

CONSTANTS k1, k2, p, q, c1, c2

Alert(key, revision, payload) ==
    [key |-> key, revision |-> revision, payload |-> payload,
     wellFormed |-> TRUE]

\* Two revisions of a key, the newer one with two contents (a second run of
\* the pipeline), an alert of another key, and a record that is no alert.
MCRecords ==
    {Alert(k1, 0, p), Alert(k1, 1, p), Alert(k1, 1, q), Alert(k2, 0, p),
     [Alert(k2, 1, q) EXCEPT !.wellFormed = FALSE]}

\* Well-formed alerts only.
MCAlerts == {Alert(k1, 0, p), Alert(k1, 1, p), Alert(k2, 0, p)}

\* The two processes are interchangeable.
MCSymmetry == Permutations({c1, c2})
=============================================================================
