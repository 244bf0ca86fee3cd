--------------------------- MODULE VelocityLedger ---------------------------
(***************************************************************************)
(* What the domain chain promises, without watermarks, timers, deliveries  *)
(* or the deduplicator: a ledger of the transactions counted in each       *)
(* window of each customer, an event_id at most once, and, for each window *)
(* over a threshold, revisions numbered upwards that carry what the ledger *)
(* says at that moment.  VelocityPipeline implements it; EndToEnd builds   *)
(* on it.                                                                  *)
(***************************************************************************)
EXTENDS VelocityRule

VARIABLES
    counted,  \* per key: the transactions in the ledger
    total,    \* per key: the sum of their amounts
    pane,     \* per key: news to tell, on-time pane out, next revision
    alerts    \* per key: the revisions published, in order

ledgerVars == <<counted, total, pane, alerts>>

Entry(k) == [count |-> Cardinality(Ids(counted[k])), total |-> total[k]]

NewPane == [pending |-> FALSE, onTime |-> FALSE, index |-> 0]

Init ==
    /\ counted = [k \in Keys |-> {}]
    /\ total = [k \in Keys |-> 0]
    /\ pane = [k \in Keys |-> NewPane]
    /\ alerts = [k \in Keys |-> << >>]

\* A transaction enters one of its windows, once.
Count(e, k) ==
    /\ k \in KeysOf(e)
    /\ e.id \notin Ids(counted[k])
    /\ counted' = [counted EXCEPT ![k] = @ \union {e}]
    /\ total' = [total EXCEPT ![k] = @ + e.amount]
    /\ pane' = [pane EXCEPT ![k].pending = TRUE]
    /\ UNCHANGED alerts

\* A pane has news, or it is the on-time one.
MayFire(k, onTime) ==
    /\ counted[k] # {}
    /\ pane[k].onTime => onTime
    /\ pane[k].pending \/ (onTime /\ ~pane[k].onTime)

\* Its number is the index of the pane, not the nonspeculative one.
RevisionNonspeculative(k) ==  \* mutant: early panes have none
    [revision |-> IF pane[k].onTime THEN pane[k].index ELSE 0,
     count |-> Entry(k).count, total |-> total[k]]
Revision(k) == [revision |-> pane[k].index, count |-> Entry(k).count,
                total |-> total[k]]

\* It publishes the entry of its window, if that is over a threshold.
Fire(k, onTime) ==
    /\ MayFire(k, onTime)
    /\ alerts' = [alerts EXCEPT ![k] = IF Breach(Entry(k))
                                         THEN Append(@, Revision(k))
                                         ELSE @]
    /\ pane' = [pane EXCEPT ![k] = [pending |-> FALSE, onTime |-> onTime,
                                    index |-> @.index + 1]]
    /\ UNCHANGED <<counted, total>>

Next ==
    \/ \E e \in Events, k \in Keys : Count(e, k)
    \/ \E k \in Keys, onTime \in BOOLEAN : Fire(k, onTime)

Spec == Init /\ [][Next]_ledgerVars
=============================================================================
