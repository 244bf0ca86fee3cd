------------------------- MODULE LatestRevisionView -------------------------
(***************************************************************************)
(* What the materializer promises, without offsets, groups, processes or   *)
(* crashes: a view of the published alerts that holds, per stable key, the *)
(* highest revision taken so far, the first one taken among equals.        *)
(* AlertConsumer implements it; EndToEnd builds on it.                     *)
(***************************************************************************)
EXTENDS Integers

CONSTANTS
    Keys,     \* idempotency keys
    Records,  \* the alerts that may be published
    Absent    \* no row in the view

VARIABLES
    published,  \* the alerts published so far
    view        \* per key: a published alert or Absent

viewVars == <<published, view>>

EmptyView == [k \in Keys |-> Absent]

Init ==
    /\ published = {}
    /\ view = EmptyView

Publish(r) ==
    /\ published' = published \union {r}
    /\ UNCHANGED view

\* A published alert is taken, for the first time or again.
Take(r) ==
    /\ r \in published
    /\ view' = IF view[r.key] = Absent \/ view[r.key].revision < r.revision
                 THEN [view EXCEPT ![r.key] = r]
                 ELSE view
    /\ UNCHANGED published

Next ==
    \/ \E r \in Records : Publish(r)
    \/ \E r \in published : Take(r)

Spec == Init /\ [][Next]_viewVars
=============================================================================
