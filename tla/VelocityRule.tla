---------------------------- MODULE VelocityRule ----------------------------
(***************************************************************************)
(* The velocity rule, without the machinery that applies it: the sliding   *)
(* windows of WindowVelocityEvents, the VelocityCombineFn of               *)
(* src/src/pipeline/aggregation.py and the thresholds of                   *)
(* src/src/pipeline/alerts.py.                                             *)
(***************************************************************************)
EXTENDS Integers, Sequences, FiniteSets, FiniteSetsExt, SequencesExt

CONSTANTS
    Events,            \* validated events a producer may publish
    EventIds,          \* the event_id values
    Customers,         \* the customer_id values
    Horizon,           \* BOUND: largest event time
    WindowSize,        \* WINDOW_SIZE_SECONDS
    WindowPeriod,      \* WINDOW_PERIOD_SECONDS
    CountThreshold,    \* TRANSACTION_COUNT_THRESHOLD
    AmountThreshold    \* TOTAL_AMOUNT_THRESHOLD

\* The constructor checks of WindowVelocityEvents and BuildVelocityAlert.
WindowOptions == WindowSize \in Nat \ {0} /\ WindowPeriod \in 1 .. WindowSize

ThresholdOptions ==
    CountThreshold \in Nat \ {0} /\ AmountThreshold \in Nat \ {0}

\* What _amount_by_customer requires and validate_transaction_event ensures: a
\* positive integer amount under a text customer.
AggregatedEvents == [id : EventIds, customer : Customers,
                     time : 0 .. Horizon, amount : Nat \ {0}]

ASSUME WindowAssumption == Horizon \in Nat /\ WindowOptions

ASSUME ThresholdAssumption == ThresholdOptions

ASSUME EventAssumption == Events \subseteq AggregatedEvents

-----------------------------------------------------------------------------
(* Windows and keys *)

WindowStarts == {w \in (1 - WindowSize) .. Horizon : w % WindowPeriod = 0}

\* The stable identity of a pane: velocity_alert_key of customer and window.
Keys == [customer : Customers, start : WindowStarts]

WindowEnd(k) == k.start + WindowSize

\* SlidingWindows puts an event in every window that contains its time;
\* _key_by_customer_id chooses the customer.
KeysOf(e) == {k \in Keys : /\ k.customer = e.customer
                           /\ k.start <= e.time
                           /\ e.time < WindowEnd(k)}

Ids(S) == {e.id : e \in S}

-----------------------------------------------------------------------------
(* VelocityCombineFn *)

Accumulators == [count : Nat, total : Nat]

CreateAccumulator == [count |-> 0, total |-> 0]

AddInput(acc, amount) ==
    [count |-> acc.count + 1, total |-> acc.total + amount]

MergeCountingPartials(accs) ==  \* mutant: a partial counts as one transaction
    FoldLeft(LAMBDA m, a : AddInput(m, a.total), CreateAccumulator, accs)
MergeAccumulators(accs) ==
    FoldLeft(LAMBDA m, a : [count |-> m.count + a.count,
                            total |-> m.total + a.total],
             CreateAccumulator, accs)

\* What a worker that has been given the events of S holds.
PartialOf(S) ==
    FoldSet(LAMBDA e, acc : AddInput(acc, e.amount), CreateAccumulator, S)

\* build_velocity_alert returns an alert: not the neutral accumulator, and at
\* or above one of the thresholds.
Breach(acc) ==
    /\ acc.count # 0
    /\ \/ acc.count >= CountThreshold
       \/ acc.total >= AmountThreshold
=============================================================================
