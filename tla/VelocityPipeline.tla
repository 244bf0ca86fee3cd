-------------------------- MODULE VelocityPipeline --------------------------
(***************************************************************************)
(* The domain chain of build_kafka_pipeline (src/src/pipeline): sliding    *)
(* windows, deduplication by event_id, accumulation of count and total,    *)
(* the trigger policy, and the alert revisions it publishes.               *)
(*                                                                         *)
(* The chain runs as two stages of the Beam runner.  The first one keys a  *)
(* validated event by customer and deduplicates it in each of its windows  *)
(* (DeduplicateByEventId, a stateful DoFn with an expiry timer).  The      *)
(* second one is the CombinePerKey, which groups by customer and window,   *)
(* fires panes, and whose panes become alerts.  The runner shuffles the    *)
(* elements between them and each stage sees a watermark of its own; that  *)
(* of the second stage trails.                                             *)
(***************************************************************************)
EXTENDS VelocityRule

CONSTANTS
    AllowedLateness,   \* ALLOWED_LATENESS_SECONDS, as given to WindowInto
    DedupLateness,     \* allowed_lateness_seconds of DeduplicateByEventId
    EarlyFirings,      \* FALSE under --directrunner-smoke-mode
    MaxWatermark,      \* BOUND: the watermark stops there
    MaxDeliveries      \* BOUND: records delivered, replays included

\* The constructor checks of the deduplicator, and the wiring of
\* build_kafka_pipeline: it keeps an id at least as long as the aggregation
\* accepts a late element.
LatenessOptions ==
    /\ AllowedLateness \in Nat
    /\ DedupLateness \in Nat
    /\ DedupLateness >= AllowedLateness

ASSUME LatenessAssumption == LatenessOptions

ASSUME BoundAssumption ==
    /\ EarlyFirings \in BOOLEAN
    /\ MaxWatermark \in Nat
    /\ MaxDeliveries \in Nat

VARIABLES
    watermark,     \* of the deduplication stage
    aggWatermark,  \* of the aggregation stage
    seen,          \* SEEN_IDS: per customer and window, the event ids kept
    expiryArmed,   \* STATE_EXPIRY: is the timer of that state set?
    inFlight,      \* elements between the two stages
    accumulator,   \* VelocityAccumulator: per customer and window
    pane,          \* trigger state: new input, on-time pane out, next index
    alerts,        \* alert revisions published, in order, per stable key
    counted,       \* HISTORY: the events an accumulator has absorbed
    punctual,      \* HISTORY: ids that arrived before their window's watermark
    deliveries     \* records delivered so far

dedupVars == <<seen, expiryArmed>>
aggVars == <<accumulator, pane, alerts, counted>>
vars == <<watermark, aggWatermark, dedupVars, inFlight, aggVars,
          punctual, deliveries>>

-----------------------------------------------------------------------------
(* Keys and times *)

\* The runner drops an element once its window, lateness included, is over.
DropsAt(wm, k) == wm >= WindowEnd(k) + AllowedLateness

\* Where DeduplicateByEventId.process sets the STATE_EXPIRY timer.
ExpiryTimeWithoutLateness(k) == WindowEnd(k)  \* mutant: drops the lateness
ExpiryTime(k) == WindowEnd(k) + DedupLateness

PaneStates == [pending : BOOLEAN, onTime : BOOLEAN, index : Nat]
Alerts == [revision : Nat, count : Nat, total : Nat]
Elements == [event : Events, key : Keys]

-----------------------------------------------------------------------------
Init ==
    /\ watermark = 0
    /\ aggWatermark = 0
    /\ seen = [k \in Keys |-> {}]
    /\ expiryArmed = [k \in Keys |-> FALSE]
    /\ inFlight = {}
    /\ accumulator = [k \in Keys |-> CreateAccumulator]
    /\ pane = [k \in Keys |-> [pending |-> FALSE, onTime |-> FALSE,
                               index |-> 0]]
    /\ alerts = [k \in Keys |-> << >>]
    /\ counted = [k \in Keys |-> {}]
    /\ punctual = [k \in Keys |-> {}]
    /\ deliveries = 0

-----------------------------------------------------------------------------
(* The deduplication stage *)

\* The windows process runs for: in front of a stateful DoFn the runner drops
\* the elements of windows whose lateness is over.
LiveKeys(e) == {k \in KeysOf(e) : ~DropsAt(watermark, k)}

\* The windows whose expiry timer it sets: every one, new id or not.
ArmedKeysOfKnown(e) ==  \* mutant: only where there is state already
    {k \in LiveKeys(e) : seen[k] # {}}
ArmedKeys(e) == LiveKeys(e)

\* The windows it lets the element through for: the first time only.
FreshKeysAlways(e) == LiveKeys(e)  \* mutant: no duplicate check
FreshKeysOneWindow(e) ==  \* mutant: only the last of the sliding windows
    {k \in LiveKeys(e) : /\ e.id \notin seen[k]
                         /\ \A j \in LiveKeys(e) : j.start <= k.start}
FreshKeysAnyCustomer(e) ==  \* mutant: state not keyed by customer
    {k \in LiveKeys(e) : \A j \in Keys :
                            j.start = k.start => e.id \notin seen[j]}
FreshKeys(e) == {k \in LiveKeys(e) : e.id \notin seen[k]}

\* What process yields, an element for each of those windows.
YieldedNever(e) == {}  \* mutant: the id is added, then looked up
Yielded(e) == {[event |-> e, key |-> k] : k \in FreshKeys(e)}

\* One record of the input topic, new or redelivered.
ProcessRecord(e) ==
    /\ deliveries < MaxDeliveries
    /\ expiryArmed' = [k \in Keys |-> expiryArmed[k] \/ k \in ArmedKeys(e)]
    /\ seen' = [k \in Keys |-> IF k \in FreshKeys(e)
                                 THEN seen[k] \union {e.id}
                                 ELSE seen[k]]
    /\ inFlight' = inFlight \union Yielded(e)
    /\ punctual' = [k \in Keys |-> IF k \in KeysOf(e) /\ e.time >= watermark
                                     THEN punctual[k] \union {e.id}
                                     ELSE punctual[k]]
    /\ deliveries' = deliveries + 1
    /\ UNCHANGED <<watermark, aggWatermark, aggVars>>

\* STATE_EXPIRY is due: clear_seen_ids.
ExpireState(k) ==
    /\ expiryArmed[k]
    /\ watermark >= ExpiryTime(k)
    /\ expiryArmed' = [expiryArmed EXCEPT ![k] = FALSE]
    /\ seen' = [seen EXCEPT ![k] = {}]
    /\ UNCHANGED <<watermark, aggWatermark, inFlight, aggVars, punctual,
                   deliveries>>

-----------------------------------------------------------------------------
(* The aggregation stage *)

\* The window accepts nothing more.
TooLate(k) == DropsAt(aggWatermark, k)

\* CombinePerKey takes one element: too late for its window it is dropped,
\* otherwise add_input absorbs its amount and the trigger has new input.
Aggregate(x) ==
    /\ x \in inFlight
    /\ inFlight' = inFlight \ {x}
    /\ IF TooLate(x.key)
         THEN UNCHANGED aggVars
         ELSE /\ accumulator' = [accumulator EXCEPT
                                   ![x.key] = AddInput(@, x.event.amount)]
              /\ counted' = [counted EXCEPT ![x.key] = @ \union {x.event}]
              /\ pane' = [pane EXCEPT ![x.key].pending = TRUE]
              /\ UNCHANGED alerts
    /\ UNCHANGED <<watermark, aggWatermark, dedupVars, punctual, deliveries>>

\* The pane that k fires now becomes an alert.
PublishesOnce(k) == Breach(accumulator[k]) /\ alerts[k] = << >>  \* mutant
Publishes(k) == Breach(accumulator[k])

\* The alert's revision: the index of the pane.
RevisionOfPrevious(k) == pane[k].index - 1  \* mutant
RevisionOf(k) == pane[k].index

\* A pane consumes its index whether or not it becomes an alert.
NextIndexNonspeculative(k, onTime) ==  \* mutant: early panes have no index
    IF onTime THEN pane[k].index + 1 ELSE pane[k].index
NextIndex(k, onTime) == pane[k].index + 1

\* What k has published once this pane is fired.
PublishedBy(k) ==
    IF Publishes(k)
      THEN Append(alerts[k], [revision |-> RevisionOf(k),
                              count |-> accumulator[k].count,
                              total |-> accumulator[k].total])
      ELSE alerts[k]

\* A pane is fired: ACCUMULATING keeps the accumulator for the next one.
FirePane(k, onTime) ==
    /\ alerts' = [alerts EXCEPT ![k] = PublishedBy(k)]
    /\ pane' = [pane EXCEPT ![k] = [pending |-> FALSE, onTime |-> onTime,
                                    index |-> NextIndex(k, onTime)]]
    /\ UNCHANGED <<watermark, aggWatermark, dedupVars, inFlight, accumulator,
                   counted, punctual, deliveries>>

\* The trigger of early and late panes asks for input since the last pane.
HasNewsAlways(k) == accumulator[k].count > 0  \* mutant: fires without any
HasNews(k) == pane[k].pending

\* Repeatedly(AfterProcessingTime): any moment after new input, before the
\* watermark reaches the end of the window.
FireEarly(k) ==
    /\ EarlyFirings
    /\ HasNews(k)
    /\ aggWatermark < WindowEnd(k)
    /\ FirePane(k, FALSE)

\* AfterWatermark: once, with or without input since the last early pane.
FireOnTime(k) ==
    /\ accumulator[k].count > 0
    /\ ~pane[k].onTime
    /\ aggWatermark >= WindowEnd(k)
    /\ FirePane(k, TRUE)

\* late=AfterCount(1).
FireLateNever(k) == FALSE /\ FirePane(k, TRUE)  \* mutant: no late trigger
FireLate(k) ==
    /\ pane[k].onTime
    /\ HasNews(k)
    /\ FirePane(k, TRUE)

-----------------------------------------------------------------------------
(* Watermarks *)

\* The source runs with timestamp_policy="ProcessingTime": its watermark
\* follows the clock, whatever the event times of the records still to come.
AdvanceWatermark ==
    /\ watermark < MaxWatermark
    /\ watermark' = watermark + 1
    /\ UNCHANGED <<aggWatermark, dedupVars, inFlight, aggVars, punctual,
                   deliveries>>

\* The second stage follows the first.  An element between them that is not
\* late yet holds the watermark back; a late one does not.
AdvanceAggWatermark ==
    /\ aggWatermark < watermark
    /\ \A x \in inFlight : x.event.time # aggWatermark
    /\ aggWatermark' = aggWatermark + 1
    /\ UNCHANGED <<watermark, dedupVars, inFlight, aggVars, punctual,
                   deliveries>>

Next ==
    \/ \E e \in Events : ProcessRecord(e)
    \/ \E k \in Keys : ExpireState(k)
    \/ \E x \in inFlight : Aggregate(x)
    \/ \E k \in Keys : FireEarly(k)
    \/ \E k \in Keys : FireOnTime(k)
    \/ \E k \in Keys : FireLate(k)
    \/ AdvanceWatermark
    \/ AdvanceAggWatermark

Spec == Init /\ [][Next]_vars

\* The runner keeps its clock moving, delivers what it shuffled and fires the
\* timers and triggers that are due.  Nothing obliges a producer to publish.
Fairness ==
    /\ WF_vars(AdvanceWatermark)
    /\ WF_vars(AdvanceAggWatermark)
    /\ \A x \in Elements : WF_vars(Aggregate(x))
    /\ \A k \in Keys : /\ WF_vars(ExpireState(k))
                       /\ WF_vars(FireOnTime(k))
                       /\ WF_vars(FireLate(k))

FairSpec == Spec /\ Fairness

-----------------------------------------------------------------------------
(* Properties *)

LastAlert(k) == alerts[k][Len(alerts[k])]

\* Every variable has its type.
TypeOK ==
    /\ watermark \in Nat
    /\ aggWatermark \in Nat
    /\ seen \in [Keys -> SUBSET EventIds]
    /\ expiryArmed \in [Keys -> BOOLEAN]
    /\ inFlight \in SUBSET Elements
    /\ accumulator \in [Keys -> Accumulators]
    /\ pane \in [Keys -> PaneStates]
    /\ alerts \in [Keys -> Seq(Alerts)]
    /\ counted \in [Keys -> SUBSET Events]
    /\ punctual \in [Keys -> SUBSET EventIds]
    /\ deliveries \in Nat

\* However often a record is redelivered, and whenever its dedup state is
\* released, a window of a customer counts an event_id at most once: the
\* accumulator's count is the number of distinct ids it absorbed.
NoDoubleCount ==
    \A k \in Keys : accumulator[k].count = Cardinality(Ids(counted[k]))

\* The total is the sum of the amounts of exactly those events, each added
\* once, the first copy of an id standing for all its later ones.
TotalIsExact ==
    \A k \in Keys :
        accumulator[k].total = MapThenSumSet(LAMBDA e : e.amount, counted[k])

\* An id that the deduplicator suppresses is never lost: it was absorbed, is
\* on its way, or belongs to a window that accepts nothing any more.
SeenIsAccounted ==
    \A k \in Keys : \A id \in seen[k] :
        \/ id \in Ids(counted[k])
        \/ \E x \in inFlight : x.key = k /\ x.event.id = id
        \/ DropsAt(aggWatermark, k)

\* An id whose records agree on their time, so that a second one is a true
\* duplicate of the first.
HasOneTime(id, customer) ==
    \A e, f \in Events :
        (e.id = id /\ f.id = id /\ e.customer = customer /\ f.customer = customer)
            => e.time = f.time

\* A record that is not late when it arrives is counted in each of its
\* windows, or still held in front of a watermark that waits for it: neither
\* deduplication nor lateness can take it out.
PunctualIsCounted ==
    \A k \in Keys : \A id \in punctual[k] :
        HasOneTime(id, k.customer) =>
            \/ id \in Ids(counted[k])
            \/ \E x \in inFlight : /\ x.key = k
                                   /\ x.event.id = id
                                   /\ aggWatermark <= x.event.time

\* When a window has fired all its input and its aggregate is over a
\* threshold, the last revision published under its key carries exactly that
\* aggregate: a consumer that keeps the last revision has the truth.
AlertIsCurrent ==
    \A k \in Keys :
        (~pane[k].pending /\ Breach(accumulator[k])) =>
            /\ alerts[k] # << >>
            /\ LastAlert(k).count = accumulator[k].count
            /\ LastAlert(k).total = accumulator[k].total

\* Under one key a higher revision supersedes a lower one: its number is
\* strictly greater and its accumulated aggregate never smaller.  This is
\* what the conditional upsert of the materializer relies on.
RevisionsSupersede ==
    \A k \in Keys : \A i, j \in 1 .. Len(alerts[k]) :
        i < j => /\ alerts[k][i].revision < alerts[k][j].revision
                 /\ alerts[k][i].count <= alerts[k][j].count
                 /\ alerts[k][i].total <= alerts[k][j].total

\* The runner may combine in parts, on several workers, and merge.  However
\* the events of a window are split in two, what merge_accumulators makes of
\* the parts is the accumulator of the one worker modelled here.
LiftingAgrees ==
    \A k \in Keys : \A S \in SUBSET counted[k] :
        MergeAccumulators(<<PartialOf(S), PartialOf(counted[k] \ S)>>)
            = accumulator[k]

\* The chain, with its two watermarks, timer, redeliveries and shuffle, does
\* nothing a ledger that counts each id once and numbers its revisions does
\* not do: every step is a step of VelocityLedger or changes nothing there.
Ledger == INSTANCE VelocityLedger
            WITH total <- [k \in Keys |-> accumulator[k].total]

ImplementsLedger == Ledger!Spec

\* The ids kept for a window are eventually released: the state of the
\* deduplicator stays bounded.
StateReleased ==
    \A k \in Keys : (seen[k] # {}) ~> (seen[k] = {})

\* Once the events absorbed by a window breach a threshold, a revision with
\* at least that many transactions is eventually published.
BreachIsAlerted ==
    \A k \in Keys : \A n \in 1 .. MaxDeliveries :
        (Breach(accumulator[k]) /\ accumulator[k].count = n)
            ~> (alerts[k] # << >> /\ LastAlert(k).count >= n)
=============================================================================
