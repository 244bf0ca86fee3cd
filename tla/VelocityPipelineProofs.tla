---------------------- MODULE VelocityPipelineProofs ----------------------
(***************************************************************************)
(* Theorems about VelocityPipeline, for any events, windows, lateness,     *)
(* thresholds and bounds that satisfy its assumptions.                     *)
(***************************************************************************)
EXTENDS VelocityPipeline, CollectionLemmas

\* Every key has an end, and every end is an integer.
LEMMA KeysTyped ==
    \A k \in Keys : /\ k.customer \in Customers
                    /\ k.start \in Int
                    /\ WindowEnd(k) \in Int
  BY WindowAssumption DEF WindowOptions, Keys, WindowStarts, WindowEnd

\* The initial state has the right types.
LEMMA InitTyped == Init => TypeOK
  BY DEF Init, TypeOK, CreateAccumulator, Accumulators, PaneStates, Alerts,
         Elements

\* Every step keeps the types.
LEMMA StepTyped == TypeOK /\ [Next]_vars => TypeOK'
  <1> SUFFICES ASSUME TypeOK, [Next]_vars
               PROVE  TypeOK'
    OBVIOUS
  <1> USE DEF TypeOK
  <1>1. ASSUME NEW e \in Events, ProcessRecord(e)
        PROVE  TypeOK'
    <2>1. e.id \in EventIds
      BY EventAssumption DEF AggregatedEvents
    <2>2. FreshKeys(e) \subseteq Keys
      BY DEF FreshKeys, LiveKeys, KeysOf
    <2>3. {[event |-> e, key |-> k] : k \in FreshKeys(e)} \subseteq Elements
      BY <2>2 DEF Elements
    <2>4. inFlight' \in SUBSET Elements
      BY <1>1, <2>3 DEF ProcessRecord, Yielded
    <2>5. seen' \in [Keys -> SUBSET EventIds]
      BY <1>1, <2>1 DEF ProcessRecord
    <2>6. punctual' \in [Keys -> SUBSET EventIds]
      BY <1>1, <2>1 DEF ProcessRecord
    <2>7. expiryArmed' \in [Keys -> BOOLEAN]
      <3>1. \A k \in Keys : (expiryArmed[k] \/ k \in ArmedKeys(e)) \in BOOLEAN
        OBVIOUS
      <3> QED
        BY <1>1, <3>1 DEF ProcessRecord
    <2> QED
      BY <1>1, <2>4, <2>5, <2>6, <2>7 DEF ProcessRecord, aggVars
  <1>2. ASSUME NEW k \in Keys, ExpireState(k)
        PROVE  TypeOK'
    BY <1>2 DEF ExpireState, aggVars
  <1>3. ASSUME NEW x \in inFlight, Aggregate(x)
        PROVE  TypeOK'
    <2>1. x.key \in Keys /\ x.event \in Events /\ x.event.amount \in Nat
      BY EventAssumption DEF AggregatedEvents, Elements
    <2>2. CASE TooLate(x.key)
      BY <1>3, <2>2 DEF Aggregate, aggVars, dedupVars
    <2>3. CASE ~TooLate(x.key)
      <3>0. accumulator[x.key] \in Accumulators
        BY <2>1 DEF TypeOK
      <3>1. AddInput(accumulator[x.key], x.event.amount) \in Accumulators
        BY <2>1, <3>0 DEF AddInput, Accumulators
      <3>2. [pane[x.key] EXCEPT !.pending = TRUE] \in PaneStates
        BY <2>1 DEF PaneStates
      <3>3. accumulator' \in [Keys -> Accumulators]
        BY <1>3, <2>1, <2>3, <3>1 DEF Aggregate
      <3>4. pane' \in [Keys -> PaneStates]
        BY <1>3, <2>1, <2>3, <3>2 DEF Aggregate
      <3>5. counted' \in [Keys -> SUBSET Events]
        <4>1. counted[x.key] \union {x.event} \in SUBSET Events
          BY <2>1
        <4> QED
          BY <1>3, <2>3, <4>1 DEF Aggregate
      <3> QED
        BY <1>3, <2>3, <3>3, <3>4, <3>5 DEF Aggregate, dedupVars
    <2> QED
      BY <2>2, <2>3
  <1>4. ASSUME NEW k \in Keys, NEW b \in BOOLEAN, FirePane(k, b)
        PROVE  TypeOK'
    <2>1. [pending |-> FALSE, onTime |-> b, index |-> pane[k].index + 1]
            \in PaneStates
      BY DEF PaneStates
    <2>2. [revision |-> pane[k].index, count |-> accumulator[k].count,
           total |-> accumulator[k].total] \in Alerts
      BY DEF Alerts, PaneStates, Accumulators
    <2>3. PublishedBy(k) \in Seq(Alerts)
      BY <2>2 DEF PublishedBy, Publishes, RevisionOf
    <2> QED
      BY <1>4, <2>1, <2>3 DEF FirePane, NextIndex, dedupVars
  <1>5. CASE AdvanceWatermark
    BY <1>5 DEF AdvanceWatermark, dedupVars, aggVars
  <1>6. CASE AdvanceAggWatermark
    BY <1>6 DEF AdvanceAggWatermark, dedupVars, aggVars
  <1>7. CASE UNCHANGED vars
    BY <1>7 DEF vars, dedupVars, aggVars
  <1> QED
    BY <1>1, <1>2, <1>3, <1>4, <1>5, <1>6, <1>7
       DEF Next, FireEarly, FireOnTime, FireLate

\* Every reachable state of the pipeline has the types of TypeOK.
THEOREM TypeCorrect == Spec => []TypeOK
  BY InitTyped, StepTyped, PTL DEF Spec

-----------------------------------------------------------------------------
(* Deduplication and lateness together count an id once *)

\* The strengthening that makes NoDoubleCount inductive.  As long as the
\* deduplicator of a window may not be cleared, it remembers every id that
\* went through it; and no id is in flight twice, or in flight and counted.
CountInv ==
    /\ TypeOK
    /\ aggWatermark <= watermark
    /\ \A x \in inFlight :
          watermark < WindowEnd(x.key) + DedupLateness
              => x.event.id \in seen[x.key]
    /\ \A k \in Keys : \A id \in Ids(counted[k]) :
          watermark < WindowEnd(k) + DedupLateness => id \in seen[k]
    /\ \A x \in inFlight : x.event.id \notin Ids(counted[x.key])
    /\ \A x, y \in inFlight :
          x.key = y.key /\ x.event.id = y.event.id => x = y
    /\ \A k \in Keys : /\ IsFiniteSet(Ids(counted[k]))
                       /\ accumulator[k].count = Cardinality(Ids(counted[k]))

\* Nothing is counted or in flight at the start.
LEMMA InitCounts == Init => CountInv
  <1> SUFFICES ASSUME Init
               PROVE  CountInv
    OBVIOUS
  <1>1. Ids({}) = {}
    BY DEF Ids
  <1>2. IsFiniteSet({}) /\ Cardinality({}) = 0
    BY FS_EmptySet
  <1>3. \A k \in Keys : /\ Ids(counted[k]) = {}
                        /\ accumulator[k].count = 0
    BY <1>1 DEF Init, CreateAccumulator
  <1>4. inFlight = {} /\ watermark = 0 /\ aggWatermark = 0
    BY DEF Init
  <1> QED
    BY <1>2, <1>3, <1>4, InitTyped DEF CountInv

\* An id that is let through is neither counted nor in flight for that key:
\* it would still be remembered.
LEMMA FreshIsNew ==
    ASSUME CountInv, NEW e \in Events, NEW k \in FreshKeys(e)
    PROVE  /\ k \in Keys
           /\ e.id \notin seen[k]
           /\ e.id \notin Ids(counted[k])
           /\ \A x \in inFlight : x.key = k => x.event.id # e.id
  <1>1. /\ k \in Keys
        /\ e.id \notin seen[k]
        /\ ~ (watermark >= WindowEnd(k) + AllowedLateness)
    BY DEF FreshKeys, LiveKeys, KeysOf, DropsAt
  <1>2. WindowEnd(k) \in Int /\ watermark \in Nat
    BY <1>1, KeysTyped DEF CountInv, TypeOK
  <1>3. watermark < WindowEnd(k) + DedupLateness
    BY <1>1, <1>2, LatenessAssumption DEF LatenessOptions
  <1> QED
    BY <1>1, <1>3 DEF CountInv

\* Every step keeps the strengthened invariant.
LEMMA StepCounts == CountInv /\ [Next]_vars => CountInv'
  <1> SUFFICES ASSUME CountInv, [Next]_vars
               PROVE  CountInv'
    OBVIOUS
  <1>0. TypeOK /\ TypeOK'
    BY StepTyped DEF CountInv
  <1>1. ASSUME NEW e \in Events, ProcessRecord(e)
        PROVE  CountInv'
    <2> DEFINE New == {[event |-> e, key |-> k] : k \in FreshKeys(e)}
    <2>1. /\ inFlight' = inFlight \union New
          /\ watermark' = watermark /\ aggWatermark' = aggWatermark
          /\ counted' = counted /\ accumulator' = accumulator
          /\ \A k \in Keys : seen[k] \subseteq seen'[k]
          /\ \A k \in Keys : k \in FreshKeys(e) => e.id \in seen'[k]
      BY <1>1 DEF ProcessRecord, Yielded, aggVars
    <2>2. \A y \in New : /\ y.event = e
                         /\ y.key \in FreshKeys(e)
                         /\ y = [event |-> e, key |-> y.key]
      OBVIOUS
    <2>3. \A x \in inFlight' : x.key \in Keys
      BY <1>0 DEF TypeOK, Elements
    <2>4. \A x \in inFlight' :
             watermark' < WindowEnd(x.key) + DedupLateness
                 => x.event.id \in seen'[x.key]
      BY <2>1, <2>2, <2>3 DEF CountInv
    <2>5. \A k \in Keys : \A id \in Ids(counted'[k]) :
             watermark' < WindowEnd(k) + DedupLateness => id \in seen'[k]
      BY <2>1 DEF CountInv
    <2>6. \A x \in inFlight' : x.event.id \notin Ids(counted'[x.key])
      BY <2>1, <2>2, FreshIsNew DEF CountInv
    <2>7. \A x, y \in inFlight' :
             x.key = y.key /\ x.event.id = y.event.id => x = y
      BY <2>1, <2>2, FreshIsNew DEF CountInv
    <2> QED
      BY <1>0, <2>1, <2>4, <2>5, <2>6, <2>7 DEF CountInv
  <1>2. ASSUME NEW k \in Keys, ExpireState(k)
        PROVE  CountInv'
    <2>1. /\ watermark' = watermark /\ aggWatermark' = aggWatermark
          /\ inFlight' = inFlight /\ counted' = counted
          /\ accumulator' = accumulator
          /\ \A j \in Keys : j # k => seen'[j] = seen[j]
      BY <1>0, <1>2 DEF ExpireState, aggVars, TypeOK
    <2>2. ~ (watermark < WindowEnd(k) + DedupLateness)
      BY <1>0, <1>2, KeysTyped, LatenessAssumption
         DEF LatenessOptions, ExpireState, ExpiryTime, TypeOK
    <2>3. \A x \in inFlight : x.key \in Keys
      BY <1>0 DEF TypeOK, Elements
    <2> QED
      BY <1>0, <2>1, <2>2, <2>3 DEF CountInv
  <1>3. ASSUME NEW x \in inFlight, Aggregate(x)
        PROVE  CountInv'
    <2>1. /\ watermark' = watermark /\ aggWatermark' = aggWatermark
          /\ seen' = seen
          /\ inFlight' = inFlight \ {x}
          /\ x.key \in Keys
      BY <1>0, <1>3 DEF Aggregate, dedupVars, TypeOK, Elements
    <2>2. CASE TooLate(x.key)
      <3>1. counted' = counted /\ accumulator' = accumulator
        BY <1>3, <2>2 DEF Aggregate, aggVars
      <3> QED
        BY <1>0, <2>1, <3>1 DEF CountInv
    <2>3. CASE ~TooLate(x.key)
      <3>1. /\ accumulator'[x.key].count = accumulator[x.key].count + 1
            /\ counted'[x.key] = counted[x.key] \union {x.event}
        BY <1>0, <1>3, <2>1, <2>3 DEF Aggregate, AddInput, TypeOK
      <3>2. \A k \in Keys : k # x.key => /\ accumulator'[k] = accumulator[k]
                                         /\ counted'[k] = counted[k]
        BY <1>0, <1>3, <2>1, <2>3 DEF Aggregate, TypeOK
      <3>3. Ids(counted'[x.key]) = Ids(counted[x.key]) \union {x.event.id}
        BY <3>1 DEF Ids
      <3>4. x.event.id \notin Ids(counted[x.key])
        BY DEF CountInv
      <3>5. /\ IsFiniteSet(Ids(counted'[x.key]))
            /\ Cardinality(Ids(counted'[x.key]))
                 = Cardinality(Ids(counted[x.key])) + 1
        <4>1. IsFiniteSet(Ids(counted[x.key]))
          BY <2>1 DEF CountInv
        <4> QED
          BY <3>3, <3>4, <4>1, FS_AddElement
      <3>6. \A k \in Keys : /\ IsFiniteSet(Ids(counted'[k]))
                            /\ accumulator'[k].count
                                 = Cardinality(Ids(counted'[k]))
        BY <2>1, <3>1, <3>2, <3>5 DEF CountInv
      <3>7. \A k \in Keys : \A id \in Ids(counted'[k]) :
               watermark' < WindowEnd(k) + DedupLateness => id \in seen'[k]
        BY <2>1, <3>2, <3>3 DEF CountInv
      <3>8. \A y \in inFlight' : y.event.id \notin Ids(counted'[y.key])
        <4> SUFFICES ASSUME NEW y \in inFlight'
                     PROVE  y.event.id \notin Ids(counted'[y.key])
          OBVIOUS
        <4>1. y \in inFlight /\ y # x /\ y.key \in Keys
          BY <1>0, <2>1 DEF TypeOK, Elements
        <4>2. y.event.id \notin Ids(counted[y.key])
          BY <4>1 DEF CountInv
        <4>3. y.key = x.key => y.event.id # x.event.id
          BY <4>1 DEF CountInv
        <4> QED
          BY <3>2, <3>3, <4>1, <4>2, <4>3
      <3> QED
        BY <1>0, <2>1, <3>6, <3>7, <3>8 DEF CountInv
    <2> QED
      BY <2>2, <2>3
  <1>4. ASSUME NEW k \in Keys, NEW b \in BOOLEAN, FirePane(k, b)
        PROVE  CountInv'
    BY <1>0, <1>4 DEF FirePane, dedupVars, CountInv
  <1>5. CASE AdvanceWatermark
    <2>1. /\ watermark' = watermark + 1 /\ aggWatermark' = aggWatermark
          /\ seen' = seen /\ inFlight' = inFlight
          /\ counted' = counted /\ accumulator' = accumulator
      BY <1>5 DEF AdvanceWatermark, dedupVars, aggVars
    <2>2. \A k \in Keys : watermark' < WindowEnd(k) + DedupLateness
                            => watermark < WindowEnd(k) + DedupLateness
      BY <1>0, <2>1, KeysTyped, LatenessAssumption DEF LatenessOptions, TypeOK
    <2>3. \A x \in inFlight : x.key \in Keys
      BY <1>0 DEF TypeOK, Elements
    <2>4. aggWatermark' <= watermark'
      BY <1>0, <2>1 DEF CountInv, TypeOK
    <2> QED
      BY <1>0, <2>1, <2>2, <2>3, <2>4 DEF CountInv
  <1>6. CASE AdvanceAggWatermark
    <2>1. aggWatermark' <= watermark'
      BY <1>0, <1>6 DEF AdvanceAggWatermark, TypeOK
    <2> QED
      BY <1>0, <1>6, <2>1 DEF AdvanceAggWatermark, dedupVars, aggVars, CountInv
  <1>7. CASE UNCHANGED vars
    BY <1>0, <1>7 DEF vars, dedupVars, aggVars, CountInv
  <1> QED
    BY <1>1, <1>2, <1>3, <1>4, <1>5, <1>6, <1>7
       DEF Next, FireEarly, FireOnTime, FireLate

\* However records are redelivered, and however the two watermarks and the
\* release of the dedup state interleave, a window of a customer counts an
\* event_id at most once.
THEOREM CountsEachIdOnce == Spec => []NoDoubleCount
  <1>1. CountInv => NoDoubleCount
    BY DEF CountInv, NoDoubleCount
  <1> QED
    BY <1>1, InitCounts, StepCounts, PTL DEF Spec

-----------------------------------------------------------------------------
(* What is suppressed was counted *)

AccountInv == TypeOK /\ SeenIsAccounted

\* Every step keeps suppressed ids accounted for.
LEMMA StepAccounts == AccountInv /\ [Next]_vars => AccountInv'
  <1> SUFFICES ASSUME AccountInv, [Next]_vars
               PROVE  SeenIsAccounted'
    BY StepTyped DEF AccountInv
  <1>0. TypeOK /\ TypeOK'
    BY StepTyped DEF AccountInv
  <1> SUFFICES ASSUME NEW k \in Keys, NEW id \in seen'[k]
               PROVE  \/ id \in Ids(counted'[k])
                      \/ \E x \in inFlight' : x.key = k /\ x.event.id = id
                      \/ DropsAt(aggWatermark', k)
    BY DEF SeenIsAccounted, DropsAt, Ids
  <1>1. id \in seen[k] => \/ id \in Ids(counted[k])
                          \/ \E x \in inFlight : x.key = k /\ x.event.id = id
                          \/ DropsAt(aggWatermark, k)
    BY DEF AccountInv, SeenIsAccounted
  <1>2. ASSUME NEW e \in Events, ProcessRecord(e)
        PROVE  \/ id \in Ids(counted'[k])
               \/ \E x \in inFlight' : x.key = k /\ x.event.id = id
               \/ DropsAt(aggWatermark', k)
    <2>1. /\ counted' = counted /\ aggWatermark' = aggWatermark
          /\ inFlight \subseteq inFlight'
      BY <1>2 DEF ProcessRecord, aggVars
    <2>2. CASE id \in seen[k]
      BY <1>1, <2>1, <2>2
    <2>3. CASE id \notin seen[k]
      <3>1. k \in FreshKeys(e) /\ id = e.id
        BY <1>2, <2>3 DEF ProcessRecord
      <3>2. [event |-> e, key |-> k] \in inFlight'
        BY <1>2, <3>1 DEF ProcessRecord, Yielded
      <3> QED
        BY <3>1, <3>2
    <2> QED
      BY <2>2, <2>3
  <1>3. ASSUME NEW j \in Keys, ExpireState(j)
        PROVE  \/ id \in Ids(counted'[k])
               \/ \E x \in inFlight' : x.key = k /\ x.event.id = id
               \/ DropsAt(aggWatermark', k)
    <2>1. id \in seen[k]
      BY <1>0, <1>3 DEF ExpireState, TypeOK
    <2> QED
      BY <1>1, <1>3, <2>1 DEF ExpireState, aggVars
  <1>4. ASSUME NEW y \in inFlight, Aggregate(y)
        PROVE  \/ id \in Ids(counted'[k])
               \/ \E x \in inFlight' : x.key = k /\ x.event.id = id
               \/ DropsAt(aggWatermark', k)
    <2>1. /\ seen' = seen /\ aggWatermark' = aggWatermark
          /\ inFlight' = inFlight \ {y} /\ y.key \in Keys
      BY <1>0, <1>4 DEF Aggregate, dedupVars, TypeOK, Elements
    <2>2. CASE TooLate(y.key)
      <3>1. counted' = counted
        BY <1>4, <2>2 DEF Aggregate, aggVars
      <3> QED
        BY <1>1, <2>1, <2>2, <3>1 DEF TooLate
    <2>3. CASE ~TooLate(y.key)
      <3>1. Ids(counted[k]) \subseteq Ids(counted'[k])
        <4>1. counted' = [counted EXCEPT ![y.key] = @ \union {y.event}]
          BY <1>4, <2>3 DEF Aggregate
        <4>2. DOMAIN counted = Keys
          BY <1>0 DEF TypeOK
        <4>3. counted[k] \subseteq counted'[k]
          BY <4>1, <4>2
        <4> QED
          BY <4>3 DEF Ids
      <3>2. y.key = k => y.event.id \in Ids(counted'[k])
        BY <1>0, <1>4, <2>3 DEF Aggregate, TypeOK, Ids
      <3> QED
        BY <1>1, <2>1, <3>1, <3>2
    <2> QED
      BY <2>2, <2>3
  <1>5. ASSUME NEW j \in Keys, NEW b \in BOOLEAN, FirePane(j, b)
        PROVE  \/ id \in Ids(counted'[k])
               \/ \E x \in inFlight' : x.key = k /\ x.event.id = id
               \/ DropsAt(aggWatermark', k)
    BY <1>1, <1>5 DEF FirePane, dedupVars
  <1>6. CASE AdvanceWatermark
    BY <1>1, <1>6 DEF AdvanceWatermark, dedupVars, aggVars
  <1>7. CASE AdvanceAggWatermark
    <2>1. DropsAt(aggWatermark, k) => DropsAt(aggWatermark', k)
      BY <1>0, <1>7, KeysTyped, LatenessAssumption
         DEF LatenessOptions, AdvanceAggWatermark, DropsAt, TypeOK
    <2> QED
      BY <1>1, <1>7, <2>1 DEF AdvanceAggWatermark, dedupVars, aggVars
  <1>8. CASE UNCHANGED vars
    BY <1>1, <1>8 DEF vars, dedupVars, aggVars
  <1> QED
    BY <1>2, <1>3, <1>4, <1>5, <1>6, <1>7, <1>8
       DEF Next, FireEarly, FireOnTime, FireLate

\* An id the deduplicator suppresses was absorbed by the aggregation, is on
\* its way to it, or belongs to a window that is over.
THEOREM SuppressedIsAccounted == Spec => []SeenIsAccounted
  <1>1. Init => AccountInv
    BY InitTyped DEF Init, AccountInv, SeenIsAccounted
  <1>2. AccountInv => SeenIsAccounted
    BY DEF AccountInv
  <1> QED
    BY <1>1, <1>2, StepAccounts, PTL DEF Spec

-----------------------------------------------------------------------------
(* Revisions *)

\* The strengthening that makes RevisionsSupersede inductive: what a key has
\* published is older than its next pane and no larger than its accumulator.
RevisionInv ==
    /\ TypeOK
    /\ RevisionsSupersede
    /\ \A k \in Keys : \A i \in 1 .. Len(alerts[k]) :
          /\ alerts[k][i].revision < pane[k].index
          /\ alerts[k][i].count <= accumulator[k].count
          /\ alerts[k][i].total <= accumulator[k].total

\* A pane appends at most one alert, numbered by the pane's index and
\* carrying the accumulator.
LEMMA FiredPane ==
    ASSUME TypeOK, NEW k \in Keys, NEW b \in BOOLEAN, FirePane(k, b)
    PROVE  /\ pane'[k].index = pane[k].index + 1
           /\ ~pane'[k].pending
           /\ accumulator' = accumulator
           /\ \A j \in Keys : j # k => alerts'[j] = alerts[j] /\ pane'[j] = pane[j]
           /\ ~Breach(accumulator[k]) => alerts'[k] = alerts[k]
           /\ Breach(accumulator[k]) =>
                /\ Len(alerts'[k]) = Len(alerts[k]) + 1
                /\ \A i \in 1 .. Len(alerts[k]) : alerts'[k][i] = alerts[k][i]
                /\ LastAlert(k)'.revision = pane[k].index
                /\ LastAlert(k)'.count = accumulator[k].count
                /\ LastAlert(k)'.total = accumulator[k].total
  <1> DEFINE new == [revision |-> pane[k].index, count |-> accumulator[k].count,
                     total |-> accumulator[k].total]
  <1>1. /\ pane'[k].index = pane[k].index + 1
        /\ ~pane'[k].pending
        /\ accumulator' = accumulator
        /\ \A j \in Keys : j # k => alerts'[j] = alerts[j] /\ pane'[j] = pane[j]
        /\ alerts'[k] = PublishedBy(k)
    BY DEF FirePane, NextIndex, TypeOK
  <1>2. new \in Alerts /\ alerts[k] \in Seq(Alerts)
    BY DEF TypeOK, Alerts, PaneStates, Accumulators
  <1>3. CASE Breach(accumulator[k])
    <2>1. alerts'[k] = Append(alerts[k], new)
      BY <1>1, <1>3 DEF PublishedBy, Publishes, RevisionOf
    <2>2. /\ Len(Append(alerts[k], new)) = Len(alerts[k]) + 1
          /\ Append(alerts[k], new)[Len(alerts[k]) + 1] = new
          /\ \A i \in 1 .. Len(alerts[k]) :
                Append(alerts[k], new)[i] = alerts[k][i]
      BY <1>2
    <2>3. LastAlert(k)' = new
      BY <1>2, <2>1, <2>2 DEF LastAlert
    <2> QED
      BY <1>1, <1>3, <2>1, <2>2, <2>3
  <1>4. CASE ~Breach(accumulator[k])
    BY <1>1, <1>4 DEF PublishedBy, Publishes, RevisionOf
  <1> QED
    BY <1>3, <1>4

\* Every step keeps the strengthened invariant.
LEMMA StepRevisions == RevisionInv /\ [Next]_vars => RevisionInv'
  <1> SUFFICES ASSUME RevisionInv, [Next]_vars
               PROVE  RevisionInv'
    OBVIOUS
  <1>0. TypeOK /\ TypeOK'
    BY StepTyped DEF RevisionInv
  <1>1. ASSUME alerts' = alerts, pane' = pane, accumulator' = accumulator
        PROVE  RevisionInv'
    BY <1>0, <1>1 DEF RevisionInv, RevisionsSupersede
  <1>2. ASSUME NEW x \in inFlight, Aggregate(x)
        PROVE  RevisionInv'
    <2>1. x.key \in Keys /\ x.event.amount \in Nat
      BY <1>0, EventAssumption DEF AggregatedEvents, TypeOK, Elements
    <2>2. CASE TooLate(x.key)
      BY <1>1, <1>2, <2>2 DEF Aggregate, aggVars
    <2>3. CASE ~TooLate(x.key)
      <3>1. /\ alerts' = alerts
            /\ accumulator' = [accumulator EXCEPT
                                 ![x.key] = AddInput(@, x.event.amount)]
            /\ pane' = [pane EXCEPT ![x.key].pending = TRUE]
        BY <1>2, <2>3 DEF Aggregate
      <3>2. \A k \in Keys : /\ accumulator[k].count <= accumulator'[k].count
                            /\ accumulator[k].total <= accumulator'[k].total
        <4>1. accumulator \in [Keys -> Accumulators]
          BY <1>0 DEF TypeOK
        <4>2. /\ accumulator'[x.key].count = accumulator[x.key].count + 1
              /\ accumulator'[x.key].total
                   = accumulator[x.key].total + x.event.amount
          BY <2>1, <3>1, <4>1 DEF AddInput
        <4>3. \A k \in Keys : k # x.key => accumulator'[k] = accumulator[k]
          BY <2>1, <3>1, <4>1
        <4> QED
          BY <2>1, <4>1, <4>2, <4>3 DEF Accumulators
      <3>3. \A k \in Keys : pane'[k].index = pane[k].index
        BY <1>0, <2>1, <3>1 DEF TypeOK, PaneStates
      <3>4. \A k \in Keys : /\ accumulator[k] \in Accumulators
                            /\ accumulator'[k] \in Accumulators
                            /\ \A i \in 1 .. Len(alerts[k]) :
                                  alerts[k][i] \in Alerts
        BY <1>0 DEF TypeOK
      <3>5. \A k \in Keys : \A i \in 1 .. Len(alerts[k]) :
               /\ alerts[k][i].count <= accumulator'[k].count
               /\ alerts[k][i].total <= accumulator'[k].total
        <4>1. ASSUME NEW k \in Keys, NEW i \in 1 .. Len(alerts[k])
              PROVE  /\ alerts[k][i].count <= accumulator'[k].count
                     /\ alerts[k][i].total <= accumulator'[k].total
          <5>1. /\ alerts[k][i].count \in Nat /\ alerts[k][i].total \in Nat
                /\ accumulator[k].count \in Nat /\ accumulator[k].total \in Nat
                /\ accumulator'[k].count \in Nat
                /\ accumulator'[k].total \in Nat
            BY <3>4 DEF Alerts, Accumulators
          <5>2. /\ alerts[k][i].count <= accumulator[k].count
                /\ alerts[k][i].total <= accumulator[k].total
            BY DEF RevisionInv
          <5> QED
            BY <3>2, <5>1, <5>2
        <4> QED
          BY <4>1
      <3>6. RevisionsSupersede'
        BY <3>1 DEF RevisionInv, RevisionsSupersede
      <3>7. \A k \in Keys : \A i \in 1 .. Len(alerts[k]) :
               alerts[k][i].revision < pane'[k].index
        BY <3>3 DEF RevisionInv
      <3> QED
        BY <1>0, <3>1, <3>5, <3>6, <3>7 DEF RevisionInv
    <2> QED
      BY <2>2, <2>3
  <1>3. ASSUME NEW k \in Keys, NEW b \in BOOLEAN, FirePane(k, b)
        PROVE  RevisionInv'
    <2>1. pane[k].index \in Nat /\ accumulator[k] \in Accumulators
      BY <1>0 DEF TypeOK, PaneStates
    <2>2. Len(alerts[k]) \in Nat
      BY <1>0 DEF TypeOK
    <2>3. \A i \in 1 .. Len(alerts[k]) : alerts[k][i] \in Alerts
      BY <1>0 DEF TypeOK
    <2>4. CASE ~Breach(accumulator[k])
      <3>1. /\ alerts' = alerts /\ accumulator' = accumulator
            /\ pane'[k].index = pane[k].index + 1
            /\ \A j \in Keys : j # k => pane'[j] = pane[j]
        <4>1. \A j \in Keys : alerts'[j] = alerts[j]
          BY <1>0, <1>3, <2>4, FiredPane
        <4> QED
          BY <1>0, <1>3, <4>1, FiredPane DEF TypeOK
      <3>2. \A i \in 1 .. Len(alerts[k]) :
               alerts[k][i].revision < pane'[k].index
        BY <2>1, <2>2, <2>3, <3>1 DEF RevisionInv, Alerts
      <3> QED
        BY <1>0, <3>1, <3>2 DEF RevisionInv, RevisionsSupersede
    <2>5. CASE Breach(accumulator[k])
      <3> DEFINE n == Len(alerts[k])
      <3>1. /\ Len(alerts'[k]) = n + 1
            /\ \A i \in 1 .. n : alerts'[k][i] = alerts[k][i]
            /\ alerts'[k][n + 1].revision = pane[k].index
            /\ alerts'[k][n + 1].count = accumulator[k].count
            /\ alerts'[k][n + 1].total = accumulator[k].total
            /\ pane'[k].index = pane[k].index + 1
            /\ accumulator' = accumulator
            /\ \A j \in Keys : j # k => alerts'[j] = alerts[j] /\ pane'[j] = pane[j]
        BY <1>0, <1>3, <2>5, FiredPane DEF LastAlert
      <3>2. \A i \in 1 .. n : /\ alerts[k][i].revision \in Nat
                              /\ alerts[k][i].revision < pane[k].index
                              /\ alerts[k][i].count <= accumulator[k].count
                              /\ alerts[k][i].total <= accumulator[k].total
        BY <2>3 DEF RevisionInv, Alerts
      <3>3. \A i \in 1 .. n + 1 : i \in 1 .. n \/ i = n + 1
        BY <2>2
      <3>4. \A i \in 1 .. Len(alerts'[k]) :
               /\ alerts'[k][i].revision < pane'[k].index
               /\ alerts'[k][i].count <= accumulator[k].count
               /\ alerts'[k][i].total <= accumulator[k].total
        <4>1. /\ alerts'[k][n + 1].revision < pane'[k].index
              /\ alerts'[k][n + 1].count <= accumulator[k].count
              /\ alerts'[k][n + 1].total <= accumulator[k].total
          BY <2>1, <3>1 DEF Accumulators
        <4>2. ASSUME NEW i \in 1 .. n
              PROVE  /\ alerts'[k][i].revision < pane'[k].index
                     /\ alerts'[k][i].count <= accumulator[k].count
                     /\ alerts'[k][i].total <= accumulator[k].total
          <5>1. alerts'[k][i] = alerts[k][i]
            BY <3>1
          <5>2. alerts[k][i].revision < pane[k].index + 1
            BY <2>1, <3>2
          <5> QED
            BY <3>1, <3>2, <5>1, <5>2
        <4> QED
          BY <3>1, <3>3, <4>1, <4>2
      <3>5. \A i, j \in 1 .. n :
               i < j => /\ alerts[k][i].revision < alerts[k][j].revision
                        /\ alerts[k][i].count <= alerts[k][j].count
                        /\ alerts[k][i].total <= alerts[k][j].total
        BY DEF RevisionInv, RevisionsSupersede
      <3>6. ASSUME NEW i \in 1 .. n + 1, NEW j \in 1 .. n + 1, i < j
            PROVE  /\ alerts'[k][i].revision < alerts'[k][j].revision
                   /\ alerts'[k][i].count <= alerts'[k][j].count
                   /\ alerts'[k][i].total <= alerts'[k][j].total
        <4>1. i \in 1 .. n
          BY <2>2, <3>6
        <4>2. CASE j \in 1 .. n
          BY <3>1, <3>5, <3>6, <4>1, <4>2
        <4>3. CASE j = n + 1
          BY <3>1, <3>2, <4>1, <4>3
        <4> QED
          BY <3>3, <4>2, <4>3
      <3>7. \A i, j \in 1 .. Len(alerts'[k]) :
               i < j => /\ alerts'[k][i].revision < alerts'[k][j].revision
                        /\ alerts'[k][i].count <= alerts'[k][j].count
                        /\ alerts'[k][i].total <= alerts'[k][j].total
        BY <3>1, <3>6
      <3> HIDE DEF n
      <3> QED
        BY <1>0, <3>1, <3>4, <3>7 DEF RevisionInv, RevisionsSupersede
    <2> QED
      BY <2>4, <2>5
  <1> QED
    BY <1>1, <1>2, <1>3
       DEF Next, ProcessRecord, ExpireState, FireEarly, FireOnTime, FireLate,
           AdvanceWatermark, AdvanceAggWatermark, aggVars, vars

\* Under a stable key, a later revision has a strictly higher number and an
\* aggregate at least as large.
THEOREM RevisionsAreOrdered == Spec => []RevisionsSupersede
  <1>1. Init => RevisionInv
    BY InitTyped DEF Init, RevisionInv, RevisionsSupersede
  <1>2. RevisionInv => RevisionsSupersede
    BY DEF RevisionInv
  <1> QED
    BY <1>1, <1>2, StepRevisions, PTL DEF Spec

\* Whenever a window has fired all its input and is over a threshold, its
\* last revision carries exactly its aggregate.
THEOREM LastAlertIsCurrent == Spec => []AlertIsCurrent
  <1> DEFINE Inv == TypeOK /\ AlertIsCurrent
  <1>1. Init => Inv
    BY InitTyped DEF Init, AlertIsCurrent, Breach, CreateAccumulator
  <1>2. Inv /\ [Next]_vars => Inv'
    <2> SUFFICES ASSUME Inv, [Next]_vars
                 PROVE  AlertIsCurrent'
      BY StepTyped
    <2>0. TypeOK /\ TypeOK'
      BY StepTyped
    <2>1. ASSUME alerts' = alerts, pane' = pane, accumulator' = accumulator
          PROVE  AlertIsCurrent'
      BY <2>1 DEF AlertIsCurrent, LastAlert, Breach
    <2>2. ASSUME NEW x \in inFlight, Aggregate(x)
          PROVE  AlertIsCurrent'
      <3>1. CASE TooLate(x.key)
        BY <2>1, <2>2, <3>1 DEF Aggregate, aggVars
      <3>2. CASE ~TooLate(x.key)
        <4>1. x.key \in Keys
          BY <2>0 DEF TypeOK, Elements
        <4>2. /\ alerts' = alerts
              /\ pane'[x.key].pending
              /\ \A k \in Keys : k # x.key => /\ pane'[k] = pane[k]
                                              /\ accumulator'[k] = accumulator[k]
          BY <2>0, <2>2, <3>2, <4>1 DEF Aggregate, TypeOK, PaneStates
        <4> QED
          BY <4>2 DEF AlertIsCurrent, LastAlert, Breach
      <3> QED
        BY <3>1, <3>2
    <2>3. ASSUME NEW k \in Keys, NEW b \in BOOLEAN, FirePane(k, b)
          PROVE  AlertIsCurrent'
      <3>1. /\ accumulator' = accumulator
            /\ \A j \in Keys : j # k => alerts'[j] = alerts[j] /\ pane'[j] = pane[j]
            /\ Breach(accumulator[k]) =>
                  /\ Len(alerts'[k]) = Len(alerts[k]) + 1
                  /\ alerts'[k][Len(alerts'[k])].count = accumulator[k].count
                  /\ alerts'[k][Len(alerts'[k])].total = accumulator[k].total
        BY <2>0, <2>3, FiredPane DEF LastAlert
      <3>2. Breach(accumulator[k]) => alerts'[k] # << >>
        BY <2>0, <3>1 DEF TypeOK
      <3> QED
        BY <3>1, <3>2 DEF AlertIsCurrent, LastAlert, Breach
    <2> QED
      BY <2>1, <2>2, <2>3
         DEF Next, ProcessRecord, ExpireState, FireEarly, FireOnTime, FireLate,
             AdvanceWatermark, AdvanceAggWatermark, aggVars, vars
  <1> QED
    BY <1>1, <1>2, PTL DEF Spec

-----------------------------------------------------------------------------
(* The ledger *)

\* What a step needs beyond CountInv to be one of the ledger: an element is in
\* flight for a window of its own, news is news of something counted, and the
\* on-time pane comes after the end of its window.
LedgerInv ==
    /\ CountInv
    /\ \A x \in inFlight : x.key \in KeysOf(x.event)
    /\ \A k \in Keys : pane[k].pending => counted[k] # {}
    /\ \A k \in Keys : pane[k].onTime => aggWatermark >= WindowEnd(k)

\* Nothing is in flight, counted or fired at the start.
LEMMA InitLedger == Init => LedgerInv
  BY InitCounts DEF Init, LedgerInv

\* Every step keeps the strengthened invariant.
LEMMA StepLedger == LedgerInv /\ [Next]_vars => LedgerInv'
  <1> SUFFICES ASSUME LedgerInv, [Next]_vars
               PROVE  LedgerInv'
    OBVIOUS
  <1>0. CountInv' /\ TypeOK /\ TypeOK'
    BY StepCounts DEF LedgerInv, CountInv
  <1>1. ASSUME NEW e \in Events, ProcessRecord(e)
        PROVE  LedgerInv'
    <2>1. /\ aggWatermark' = aggWatermark
          /\ counted' = counted /\ pane' = pane
          /\ inFlight' = inFlight \union Yielded(e)
      BY <1>1 DEF ProcessRecord, aggVars
    <2>2. \A x \in Yielded(e) : x.key \in KeysOf(x.event)
      BY DEF Yielded, FreshKeys, LiveKeys
    <2> QED
      BY <1>0, <2>1, <2>2 DEF LedgerInv
  <1>2. ASSUME NEW x \in inFlight, Aggregate(x)
        PROVE  LedgerInv'
    <2>1. aggWatermark' = aggWatermark /\ inFlight' \subseteq inFlight
      BY <1>2 DEF Aggregate
    <2>2. CASE TooLate(x.key)
      BY <1>0, <1>2, <2>1, <2>2 DEF Aggregate, aggVars, LedgerInv
    <2>3. CASE ~TooLate(x.key)
      <3>1. \A k \in Keys : /\ pane'[k].onTime = pane[k].onTime
                            /\ counted[k] \subseteq counted'[k]
                            /\ k # x.key => pane'[k] = pane[k]
        <4>1. /\ counted' = [counted EXCEPT ![x.key] = @ \union {x.event}]
              /\ pane' = [pane EXCEPT ![x.key].pending = TRUE]
          BY <1>2, <2>3 DEF Aggregate
        <4>2. \A k \in Keys : counted[k] \subseteq counted'[k]
          BY <1>0, <4>1 DEF TypeOK
        <4>3. \A k \in Keys : k # x.key => pane'[k] = pane[k]
          BY <1>0, <4>1 DEF TypeOK
        <4>4. x.key \in Keys => pane'[x.key] = [pane[x.key] EXCEPT !.pending = TRUE]
          BY <1>0, <4>1 DEF TypeOK
        <4>5. \A k \in Keys : [pane[k] EXCEPT !.pending = TRUE].onTime
                                 = pane[k].onTime
          BY <1>0 DEF TypeOK, PaneStates
        <4> QED
          BY <4>2, <4>3, <4>4, <4>5
      <3>2. x.key \in Keys => x.event \in counted'[x.key]
        BY <1>0, <1>2, <2>3 DEF Aggregate, TypeOK
      <3>3. \A k \in Keys : pane'[k].pending => counted'[k] # {}
        BY <3>1, <3>2 DEF LedgerInv
      <3> QED
        BY <1>0, <2>1, <3>1, <3>3 DEF LedgerInv
    <2> QED
      BY <2>2, <2>3
  <1>3. ASSUME NEW k \in Keys, NEW b \in BOOLEAN, FirePane(k, b),
               b => aggWatermark >= WindowEnd(k)
        PROVE  LedgerInv'
    <2>1. /\ aggWatermark' = aggWatermark
          /\ counted' = counted /\ inFlight' = inFlight
      BY <1>3 DEF FirePane
    <2>2. /\ \A j \in Keys : j # k => pane'[j] = pane[j]
          /\ pane'[k].pending = FALSE /\ pane'[k].onTime = b
      BY <1>0, <1>3 DEF FirePane, TypeOK
    <2> QED
      BY <1>0, <1>3, <2>1, <2>2 DEF LedgerInv
  <1>4. ASSUME NEW k \in Keys, FireLate(k)
        PROVE  LedgerInv'
    BY <1>3, <1>4 DEF FireLate, LedgerInv
  <1>5. CASE AdvanceAggWatermark
    <2>1. \A k \in Keys : aggWatermark >= WindowEnd(k)
                            => aggWatermark' >= WindowEnd(k)
      BY <1>0, <1>5, KeysTyped DEF AdvanceAggWatermark, TypeOK
    <2> QED
      BY <1>0, <1>5, <2>1 DEF AdvanceAggWatermark, aggVars, LedgerInv
  <1>6. CASE AdvanceWatermark \/ UNCHANGED vars
               \/ \E k \in Keys : ExpireState(k)
    BY <1>0, <1>6
       DEF AdvanceWatermark, ExpireState, vars, aggVars, LedgerInv
  <1> QED
    BY <1>1, <1>2, <1>3, <1>4, <1>5, <1>6 DEF Next, FireEarly, FireOnTime

\* The ledger speaks of the same windows and the same rule.
LEMMA SameRule ==
    /\ Ledger!Keys = Keys
    /\ \A e : Ledger!KeysOf(e) = KeysOf(e)
    /\ \A S : Ledger!Ids(S) = Ids(S)
    /\ \A acc : Ledger!Breach(acc) = Breach(acc)
  <1>1. Ledger!WindowStarts = WindowStarts
    BY DEF Ledger!WindowStarts, WindowStarts
  <1>2. Ledger!Keys = Keys
    BY <1>1 DEF Ledger!Keys, Keys
  <1>3. \A k : Ledger!WindowEnd(k) = WindowEnd(k)
    BY DEF Ledger!WindowEnd, WindowEnd
  <1> QED
    BY <1>2, <1>3 DEF Ledger!KeysOf, KeysOf, Ledger!Ids, Ids,
                      Ledger!Breach, Breach

\* It counts with the same operator.
LEMMA SameCardinality == \A S : Ledger!Cardinality(S) = Cardinality(S)
  BY DEF Ledger!Cardinality, Cardinality

\* The pipeline starts with the empty ledger.
LEMMA LedgerStarts == Init => Ledger!Init
  BY SameRule DEF Init, Ledger!Init, Ledger!NewPane, CreateAccumulator

\* An element that is not too late enters the ledger.
LEMMA AggregateCounts ==
    ASSUME LedgerInv, NEW x \in inFlight, Aggregate(x), ~TooLate(x.key)
    PROVE  Ledger!Count(x.event, x.key) /\ x.event \in Events /\ x.key \in Keys
  <1> DEFINE k == x.key
             e == x.event
  <1>1. TypeOK /\ e \in Events /\ k \in Keys
    BY DEF LedgerInv, CountInv, TypeOK, Elements
  <1>2. k \in KeysOf(e) /\ e.id \notin Ids(counted[k])
    BY DEF LedgerInv, CountInv
  <1>3. /\ counted' = [counted EXCEPT ![k] = @ \union {e}]
        /\ pane' = [pane EXCEPT ![k].pending = TRUE]
        /\ alerts' = alerts
        /\ accumulator' = [accumulator EXCEPT ![k] = AddInput(@, e.amount)]
    BY DEF Aggregate
  <1>4. [j \in Keys |-> accumulator'[j].total]
          = [[j \in Keys |-> accumulator[j].total]
               EXCEPT ![k] = @ + e.amount]
    BY <1>1, <1>3 DEF AddInput, TypeOK
  <1> QED
    BY <1>1, <1>2, <1>3, <1>4, SameRule DEF Ledger!Count

\* A pane that is allowed to fire publishes what the ledger says.
LEMMA PaneFires ==
    ASSUME LedgerInv, NEW k \in Keys, NEW b \in BOOLEAN, FirePane(k, b),
           Ledger!MayFire(k, b)
    PROVE  Ledger!Fire(k, b)
  <1> DEFINE total == [j \in Keys |-> accumulator[j].total]
  <1>1. accumulator[k] = [count |-> Cardinality(Ids(counted[k])),
                          total |-> total[k]]
    BY DEF LedgerInv, CountInv, TypeOK, Accumulators
  <1>2. /\ Ledger!Entry(k) = accumulator[k]
        /\ Ledger!Revision(k) = [revision |-> pane[k].index,
                                 count |-> accumulator[k].count,
                                 total |-> accumulator[k].total]
    <2>1. Ledger!Ids(counted[k]) = Ids(counted[k])
      BY SameRule
    <2>2. Ledger!Entry(k) = accumulator[k]
      BY <1>1, <2>1, SameCardinality DEF Ledger!Entry
    <2>3. [j \in Keys |-> accumulator[j].total][k] = accumulator[k].total
      OBVIOUS
    <2> QED
      BY <2>2, <2>3 DEF Ledger!Revision
  <1>3. alerts' = [alerts EXCEPT ![k] = IF Ledger!Breach(Ledger!Entry(k))
                                          THEN Append(@, Ledger!Revision(k))
                                          ELSE @]
    BY <1>2, SameRule DEF FirePane, PublishedBy, Publishes, RevisionOf,
                          LedgerInv, CountInv, TypeOK
  <1>4. pane' = [pane EXCEPT ![k] = [pending |-> FALSE, onTime |-> b,
                                     index |-> @.index + 1]]
    BY DEF FirePane, NextIndex, LedgerInv, CountInv, TypeOK
  <1>5. counted' = counted /\ accumulator' = accumulator
    BY DEF FirePane
  <1> QED
    BY <1>3, <1>4, <1>5, SameRule DEF Ledger!Fire

\* Every step of the pipeline is one of the ledger, or changes nothing in it.
LEMMA LedgerSteps == LedgerInv /\ [Next]_vars => [Ledger!Next]_Ledger!ledgerVars
  <1> SUFFICES ASSUME LedgerInv, [Next]_vars
               PROVE  Ledger!Next \/ UNCHANGED Ledger!ledgerVars
    OBVIOUS
  <1>0. TypeOK
    BY DEF LedgerInv, CountInv
  <1>1. ASSUME NEW x \in inFlight, Aggregate(x)
        PROVE  Ledger!Next \/ UNCHANGED Ledger!ledgerVars
    <2>1. CASE TooLate(x.key)
      BY <1>1, <2>1 DEF Aggregate, aggVars, Ledger!ledgerVars
    <2>2. CASE ~TooLate(x.key)
      BY <1>1, <2>2, AggregateCounts, SameRule DEF Ledger!Next
    <2> QED
      BY <2>1, <2>2
  <1>2. ASSUME NEW k \in Keys, accumulator[k].count > 0
        PROVE  counted[k] # {}
    <2>1. Ids({}) = {} /\ Cardinality({}) = 0
      BY FS_EmptySet DEF Ids
    <2>2. accumulator[k].count = Cardinality(Ids(counted[k]))
      BY <1>2 DEF LedgerInv, CountInv
    <2>3. counted[k] = {} => accumulator[k].count = 0
      BY <2>1, <2>2
    <2> QED
      BY <1>2, <2>3
  <1>3. ASSUME NEW k \in Keys, FireEarly(k)
        PROVE  Ledger!Next
    <2>1. Ledger!MayFire(k, FALSE) /\ FirePane(k, FALSE)
      <3>1. pane[k].pending /\ counted[k] # {} /\ FirePane(k, FALSE)
        BY <1>3 DEF FireEarly, HasNews, LedgerInv
      <3>2. ~ (aggWatermark >= WindowEnd(k))
        BY <1>0, <1>3, KeysTyped DEF FireEarly, TypeOK
      <3>3. pane[k].onTime => aggWatermark >= WindowEnd(k)
        BY DEF LedgerInv
      <3> QED
        BY <3>1, <3>2, <3>3 DEF Ledger!MayFire
    <2> QED
      BY <2>1, PaneFires, SameRule DEF Ledger!Next
  <1>4. ASSUME NEW k \in Keys, FireOnTime(k)
        PROVE  Ledger!Next
    <2>1. Ledger!MayFire(k, TRUE) /\ FirePane(k, TRUE)
      BY <1>2, <1>4 DEF FireOnTime, Ledger!MayFire
    <2> QED
      BY <2>1, PaneFires, SameRule DEF Ledger!Next
  <1>5. ASSUME NEW k \in Keys, FireLate(k)
        PROVE  Ledger!Next
    <2>1. Ledger!MayFire(k, TRUE) /\ FirePane(k, TRUE)
      BY <1>5 DEF FireLate, HasNews, LedgerInv, Ledger!MayFire
    <2> QED
      BY <2>1, PaneFires, SameRule DEF Ledger!Next
  <1>6. CASE \/ \E e \in Events : ProcessRecord(e)
             \/ \E k \in Keys : ExpireState(k)
             \/ AdvanceWatermark \/ AdvanceAggWatermark \/ UNCHANGED vars
    BY <1>6 DEF ProcessRecord, ExpireState, AdvanceWatermark,
                AdvanceAggWatermark, vars, aggVars, Ledger!ledgerVars
  <1> QED
    BY <1>1, <1>3, <1>4, <1>5, <1>6 DEF Next

\* The chain, with its two watermarks, timer, redeliveries and shuffle,
\* implements the ledger that counts each id once per window and numbers the
\* revisions of a window upwards.
THEOREM PipelineImplementsLedger == Spec => ImplementsLedger
  BY InitLedger, StepLedger, LedgerStarts, LedgerSteps, PTL
     DEF Spec, ImplementsLedger, Ledger!Spec

-----------------------------------------------------------------------------
(* What is on time is counted *)

\* On its way to a window of its own, or counted there: where an id that
\* arrived before the watermark of its window may be.
OnTheWay(id, k) ==
    \E x \in inFlight : /\ x.key = k
                        /\ x.event.id = id
                        /\ aggWatermark <= x.event.time

\* A record that is suppressed as a duplicate arrives when the window still
\* waits for the first copy, so that this copy is not late.
PunctualInv == LedgerInv /\ AccountInv /\ PunctualIsCounted

\* The window of an event ends after it.
LEMMA TimeInWindow ==
    ASSUME NEW e \in Events, NEW k \in KeysOf(e)
    PROVE  /\ k \in Keys /\ k.customer = e.customer
           /\ WindowEnd(k) \in Int /\ e.time \in Nat /\ e.time < WindowEnd(k)
  BY KeysTyped, EventAssumption, WindowAssumption DEF KeysOf, AggregatedEvents

\* A record that arrives before the watermark of its window is counted there
\* or on its way, a new one and one whose id is known already.
LEMMA PunctualArrival ==
    ASSUME PunctualInv, NEW e \in Events, ProcessRecord(e), NEW k \in KeysOf(e),
           e.time >= watermark, HasOneTime(e.id, k.customer)
    PROVE  e.id \in Ids(counted[k]) \/ OnTheWay(e.id, k)'
  <1>0. TypeOK /\ watermark \in Nat /\ aggWatermark \in Nat
        /\ aggWatermark <= watermark /\ aggWatermark' = aggWatermark
    BY DEF PunctualInv, AccountInv, LedgerInv, CountInv, TypeOK, ProcessRecord
  <1>1. /\ k \in Keys /\ k.customer = e.customer
        /\ WindowEnd(k) \in Int /\ e.time \in Nat /\ e.time < WindowEnd(k)
    BY TimeInWindow
  <1>2. ~DropsAt(watermark, k) /\ ~DropsAt(aggWatermark, k)
    BY <1>0, <1>1, LatenessAssumption DEF DropsAt, LatenessOptions
  <1>3. CASE e.id \notin seen[k]
    <2>1. k \in FreshKeys(e)
      BY <1>1, <1>2, <1>3 DEF FreshKeys, LiveKeys
    <2>2. [event |-> e, key |-> k] \in inFlight'
      BY <2>1 DEF ProcessRecord, Yielded
    <2> QED
      BY <1>0, <1>1, <2>2 DEF OnTheWay
  <1>4. CASE e.id \in seen[k] /\ e.id \notin Ids(counted[k])
    <2>1. PICK x \in inFlight : x.key = k /\ x.event.id = e.id
      BY <1>1, <1>2, <1>4 DEF PunctualInv, AccountInv, SeenIsAccounted
    <2>2. x.event \in Events /\ x.key \in KeysOf(x.event)
      BY <1>0 DEF PunctualInv, LedgerInv, TypeOK, Elements
    <2>3. x.event.customer = k.customer
      BY <2>1, <2>2, TimeInWindow
    <2>4. x.event.time = e.time
      BY <1>1, <2>1, <2>2, <2>3 DEF HasOneTime
    <2>5. x \in inFlight'
      BY DEF ProcessRecord
    <2> QED
      BY <1>0, <1>1, <2>1, <2>4, <2>5 DEF OnTheWay
  <1> QED
    BY <1>3, <1>4

\* Every step keeps punctual ids counted or on their way.
LEMMA StepPunctual == PunctualInv /\ [Next]_vars => PunctualInv'
  <1> SUFFICES ASSUME PunctualInv, [Next]_vars
               PROVE  PunctualIsCounted'
    BY StepLedger, StepAccounts DEF PunctualInv
  <1>0. TypeOK
    BY DEF PunctualInv, AccountInv
  <1> SUFFICES ASSUME NEW k \in Keys, NEW id \in punctual'[k],
                      HasOneTime(id, k.customer)
               PROVE  id \in Ids(counted'[k]) \/ OnTheWay(id, k)'
    BY DEF PunctualIsCounted, OnTheWay, HasOneTime
  <1>1. id \in punctual[k] => id \in Ids(counted[k]) \/ OnTheWay(id, k)
    BY DEF PunctualInv, PunctualIsCounted, OnTheWay
  <1>2. ASSUME NEW e \in Events, ProcessRecord(e)
        PROVE  id \in Ids(counted'[k]) \/ OnTheWay(id, k)'
    <2>1. /\ counted' = counted /\ aggWatermark' = aggWatermark
          /\ inFlight \subseteq inFlight'
      BY <1>2 DEF ProcessRecord, aggVars
    <2>2. CASE id \in punctual[k]
      BY <1>1, <2>1, <2>2 DEF OnTheWay
    <2>3. CASE id \notin punctual[k]
      <3>1. k \in KeysOf(e) /\ e.time >= watermark /\ id = e.id
        BY <1>2, <2>3 DEF ProcessRecord
      <3> QED
        BY <1>2, <2>1, <3>1, PunctualArrival
    <2> QED
      BY <2>2, <2>3
  <1>3. ASSUME NEW y \in inFlight, Aggregate(y)
        PROVE  id \in Ids(counted'[k]) \/ OnTheWay(id, k)'
    <2>1. /\ punctual' = punctual /\ aggWatermark' = aggWatermark
          /\ inFlight' = inFlight \ {y} /\ y.key \in Keys
          /\ y.event \in Events /\ y.key \in KeysOf(y.event)
      BY <1>0, <1>3 DEF Aggregate, TypeOK, Elements, PunctualInv, LedgerInv
    <2>2. CASE TooLate(y.key)
      <3>1. ~ (aggWatermark <= y.event.time)
        BY <1>0, <2>1, <2>2, TimeInWindow, LatenessAssumption
           DEF TooLate, DropsAt, LatenessOptions, TypeOK
      <3>2. counted' = counted
        BY <1>3, <2>2 DEF Aggregate, aggVars
      <3> QED
        BY <1>1, <2>1, <3>1, <3>2 DEF OnTheWay
    <2>3. CASE ~TooLate(y.key)
      <3>1. counted' = [counted EXCEPT ![y.key] = @ \union {y.event}]
        BY <1>3, <2>3 DEF Aggregate
      <3>2. DOMAIN counted = Keys
        BY <1>0 DEF TypeOK
      <3>3. counted[k] \subseteq counted'[k]
        BY <3>1, <3>2
      <3>4. y.key = k => y.event \in counted'[k]
        BY <3>1, <3>2
      <3> QED
        BY <1>1, <2>1, <3>3, <3>4 DEF OnTheWay, Ids
    <2> QED
      BY <2>2, <2>3
  <1>4. CASE AdvanceAggWatermark
    <2>1. ASSUME NEW x \in inFlight, aggWatermark <= x.event.time
          PROVE  aggWatermark' <= x.event.time
      <3>1. x.event.time \in Nat
        BY <1>0, EventAssumption DEF TypeOK, Elements, AggregatedEvents
      <3> QED
        BY <1>0, <1>4, <2>1, <3>1 DEF AdvanceAggWatermark, TypeOK
    <2> QED
      BY <1>1, <1>4, <2>1 DEF AdvanceAggWatermark, aggVars, OnTheWay
  <1>5. ASSUME NEW j \in Keys, NEW b \in BOOLEAN, FirePane(j, b)
        PROVE  id \in Ids(counted'[k]) \/ OnTheWay(id, k)'
    BY <1>1, <1>5 DEF FirePane, OnTheWay
  <1>6. CASE \/ \E j \in Keys : ExpireState(j)
             \/ AdvanceWatermark \/ UNCHANGED vars
    BY <1>1, <1>6 DEF ExpireState, AdvanceWatermark, vars, aggVars, OnTheWay
  <1> QED
    BY <1>2, <1>3, <1>4, <1>5, <1>6 DEF Next, FireEarly, FireOnTime, FireLate

\* A record that is not late when it arrives is counted in each of its
\* windows, or on its way there in front of a watermark that waits for it.
THEOREM PunctualRecordsCount == Spec => []PunctualIsCounted
  <1>1. Init => PunctualInv
    BY InitLedger, InitTyped
       DEF Init, PunctualInv, AccountInv, SeenIsAccounted, PunctualIsCounted
  <1>2. PunctualInv => PunctualIsCounted
    BY DEF PunctualInv
  <1> QED
    BY <1>1, <1>2, StepPunctual, PTL DEF Spec

-----------------------------------------------------------------------------
(* Amounts *)

Amounts == [e \in Events |-> e.amount]

\* The strengthening for the sums: what a window has counted is finitely many
\* events, and its accumulator has their number and the sum of their amounts.
TotalInv ==
    /\ CountInv
    /\ \A k \in Keys : /\ IsFiniteSet(counted[k])
                       /\ accumulator[k].count = Cardinality(counted[k])
                       /\ accumulator[k].total = Total(Amounts, counted[k])

\* Every event has an amount to add.
LEMMA AmountsTyped == \A e \in Events : /\ Amounts[e] = e.amount
                                        /\ Amounts[e] \in Nat
  BY EventAssumption DEF Amounts, AggregatedEvents

\* An empty window has no amount.
LEMMA InitTotals == Init => TotalInv
  <1> SUFFICES ASSUME Init
               PROVE  TotalInv
    OBVIOUS
  <1>1. Total(Amounts, {}) = 0 /\ Cardinality({}) = 0 /\ IsFiniteSet({})
    <2>1. Pile(Amounts, {}) = {}
      BY DEF Pile
    <2> QED
      BY <2>1, FS_EmptySet DEF Total
  <1>2. \A k \in Keys : counted[k] = {} /\ accumulator[k] = CreateAccumulator
    BY DEF Init
  <1> QED
    BY <1>1, <1>2, InitCounts DEF TotalInv, CreateAccumulator

\* Every step keeps number and sum: what add_input absorbs was not counted.
LEMMA StepTotals == TotalInv /\ [Next]_vars => TotalInv'
  <1> SUFFICES ASSUME TotalInv, [Next]_vars
               PROVE  TotalInv'
    OBVIOUS
  <1>0. CountInv /\ CountInv' /\ TypeOK
    BY StepCounts DEF TotalInv, CountInv
  <1>1. ASSUME NEW x \in inFlight, Aggregate(x), ~TooLate(x.key)
        PROVE  TotalInv'
    <2> DEFINE j == x.key
               e == x.event
    <2>1. j \in Keys /\ e \in Events
      BY <1>0 DEF TypeOK, Elements
    <2>2. /\ accumulator' = [accumulator EXCEPT ![j] = AddInput(@, e.amount)]
          /\ counted' = [counted EXCEPT ![j] = @ \union {e}]
      BY <1>1 DEF Aggregate
    <2>3. /\ accumulator'[j].count = accumulator[j].count + 1
          /\ accumulator'[j].total = accumulator[j].total + e.amount
          /\ counted'[j] = counted[j] \union {e}
      BY <1>0, <2>1, <2>2 DEF AddInput, TypeOK
    <2>4. \A k \in Keys : k # j => /\ accumulator'[k] = accumulator[k]
                                   /\ counted'[k] = counted[k]
      BY <1>0, <2>1, <2>2 DEF TypeOK
    <2>5. e \notin counted[j]
      BY <1>0 DEF CountInv, Ids
    <2>6. /\ IsFiniteSet(counted[j])
          /\ counted[j] \in SUBSET Events
          /\ accumulator[j].count = Cardinality(counted[j])
          /\ accumulator[j].total = Total(Amounts, counted[j])
          /\ accumulator[j].total \in Nat
      BY <1>0, <2>1 DEF TotalInv, TypeOK, Accumulators
    <2> HIDE DEF j, e
    <2>7. /\ IsFiniteSet(counted'[j])
          /\ accumulator'[j].count = Cardinality(counted'[j])
      BY <2>3, <2>5, <2>6, FS_AddElement
    <2>8. accumulator'[j].total = Total(Amounts, counted'[j])
      <3>1. IsFiniteSet(Pile(Amounts, counted[j]))
        BY <2>6, AmountsTyped, TotalGrows
      <3>2. Total(Amounts, counted[j] \union {e})
              = Amounts[e] + Total(Amounts, counted[j])
        BY <2>1, <2>5, <3>1, AmountsTyped, PileAdds
      <3> QED
        BY <2>1, <2>3, <2>6, <3>2, AmountsTyped
    <2> QED
      BY <1>0, <2>1, <2>4, <2>7, <2>8, <2>6 DEF TotalInv
  <1>2. CASE UNCHANGED <<accumulator, counted>>
    BY <1>0, <1>2 DEF TotalInv
  <1>3. \/ UNCHANGED <<accumulator, counted>>
        \/ \E x \in inFlight : Aggregate(x) /\ ~TooLate(x.key)
    BY DEF Next, ProcessRecord, ExpireState, Aggregate, FireEarly, FireOnTime,
           FireLate, FirePane, AdvanceWatermark, AdvanceAggWatermark, aggVars,
           vars
  <1> QED
    BY <1>1, <1>2, <1>3

\* The sum that MapThenSumSet computes is that sum.
LEMMA SumOfAmounts ==
    ASSUME NEW S \in SUBSET Events, IsFiniteSet(S)
    PROVE  MapThenSumSet(LAMBDA e : e.amount, S) = Total(Amounts, S)
  <1> DEFINE Sum(f) == [s \in SUBSET S |->
                          IF s = {} THEN 0
                          ELSE Amounts[CHOOSE x \in s : TRUE]
                                 + f[s \ {CHOOSE x \in s : TRUE}]]
             Step(f) == [s \in SUBSET S |->
                           IF s = {} THEN 0
                           ELSE (CHOOSE x \in s : TRUE).amount
                                  + f[s \ {CHOOSE x \in s : TRUE}]]
             h == CHOOSE f : f = Step(f)
  <1>1. \A s \in SUBSET S : s # {} => (CHOOSE x \in s : TRUE) \in Events
    OBVIOUS
  <1>2. \A f : Step(f) = Sum(f)
    BY <1>1, AmountsTyped
  <1>3. (\E f : f = Sum(f)) /\ \A f : f = Sum(f) => f[S] = Total(Amounts, S)
    BY AmountsTyped, SumFold
  <1>4. MapThenSumSet(LAMBDA e : e.amount, S) = h[S]
    BY DEF MapThenSumSet, MapThenFoldSet
  <1> HIDE DEF Sum, Step
  <1>5. h = Step(h)
    BY <1>2, <1>3
  <1> QED
    BY <1>2, <1>3, <1>4, <1>5

\* The total of a window is the sum of the amounts of exactly the events it
\* has counted, whichever records come twice, late or out of order.
THEOREM TotalIsTheSum == Spec => []TotalIsExact
  <1>1. TotalInv => TotalIsExact
    BY SumOfAmounts DEF TotalInv, CountInv, TypeOK, TotalIsExact
  <1> QED
    BY <1>1, InitTotals, StepTotals, PTL DEF Spec

\* What a worker holds that has been given a part of a window's events.
LEMMA PartialTallies ==
    ASSUME NEW S \in SUBSET Events, IsFiniteSet(S)
    PROVE  PartialOf(S) = [count |-> Cardinality(S),
                           total |-> Total(Amounts, S)]
  <1> DEFINE Tally(f) == [s \in SUBSET S |->
                IF s = {} THEN [count |-> 0, total |-> 0]
                ELSE [count |-> f[s \ {CHOOSE x \in s : TRUE}].count + 1,
                      total |-> f[s \ {CHOOSE x \in s : TRUE}].total
                                  + Amounts[CHOOSE x \in s : TRUE]]]
             Step(f) == [s \in SUBSET S |->
                IF s = {} THEN CreateAccumulator
                ELSE AddInput(f[s \ {CHOOSE x \in s : TRUE}],
                              (CHOOSE x \in s : TRUE).amount)]
             h == CHOOSE f : f = Step(f)
  <1>1. \A s \in SUBSET S : s # {} => (CHOOSE x \in s : TRUE) \in Events
    OBVIOUS
  <1>2. \A f : Step(f) = Tally(f)
    BY <1>1, AmountsTyped DEF CreateAccumulator, AddInput
  <1>3. /\ \E f : f = Tally(f)
        /\ \A f : f = Tally(f) => f[S] = [count |-> Cardinality(S),
                                          total |-> Total(Amounts, S)]
    BY AmountsTyped, TallyFold
  <1>4. PartialOf(S) = h[S]
    BY DEF PartialOf, FoldSet, MapThenFoldSet
  <1> HIDE DEF Tally, Step
  <1>5. h = Step(h)
    BY <1>2, <1>3
  <1> QED
    BY <1>2, <1>3, <1>4, <1>5

\* merge_accumulators of two partials adds their counts and their totals.
LEMMA MergeOfTwo ==
    ASSUME NEW a \in Accumulators, NEW b \in Accumulators
    PROVE  MergeAccumulators(<<a, b>>) = [count |-> a.count + b.count,
                                          total |-> a.total + b.total]
  <1> DEFINE D == DOMAIN <<a, b>>
             Add(m, x) == [count |-> m.count + x.count,
                           total |-> m.total + x.total]
             Step(f) == [s \in SUBSET D |->
                           IF s = {} THEN CreateAccumulator
                           ELSE Add(f[s \ {Max(s)}], <<a, b>>[Max(s)])]
             h == CHOOSE f : f = Step(f)
             g == [s \in SUBSET D |->
                     IF 2 \in s THEN IF 1 \in s THEN Add(a, b) ELSE b
                                ELSE IF 1 \in s THEN a ELSE CreateAccumulator]
  <1>1. D = {1, 2} /\ SUBSET D = {{}, {1}, {2}, {1, 2}}
    OBVIOUS
  <1>2. Max({1}) = 1 /\ Max({2}) = 2 /\ Max({1, 2}) = 2
    BY DEF Max
  <1>3. MergeAccumulators(<<a, b>>) = h[D]
    BY DEF MergeAccumulators, FoldLeft, MapThenFoldSet
  <1>4. /\ Add(CreateAccumulator, a) = a /\ Add(CreateAccumulator, b) = b
        /\ a.count \in Nat /\ b.count \in Nat
    BY DEF CreateAccumulator, Accumulators
  <1> DEFINE u == <<a, b>>
             c == CreateAccumulator
  <1>5. ASSUME NEW f
        PROVE  /\ Step(f) = [s \in SUBSET D |-> Step(f)[s]]
               /\ Step(f)[{}] = c
               /\ Step(f)[{1}] = Add(f[{}], a)
               /\ Step(f)[{2}] = Add(f[{}], b)
               /\ Step(f)[{1, 2}] = Add(f[{1}], b)
    <2>1. /\ {1} \ {1} = {} /\ {2} \ {2} = {} /\ {1, 2} \ {2} = {1}
          /\ u[1] = a /\ u[2] = b
          /\ {1} # {} /\ {2} # {} /\ {1, 2} # {}
      OBVIOUS
    <2>2. \A s \in SUBSET D : Step(f)[s] = IF s = {} THEN c
                                ELSE Add(f[s \ {Max(s)}], u[Max(s)])
      OBVIOUS
    <2>3. Step(f) = [s \in SUBSET D |-> Step(f)[s]]
      OBVIOUS
    <2> HIDE DEF Add, u, c, D, Step
    <2> QED
      BY <1>1, <1>2, <2>1, <2>2, <2>3
  <1>6. ASSUME NEW f, f = Step(f)
        PROVE  f[D] = Add(a, b)
    <2> HIDE DEF Add, Step, D
    <2> QED
      BY <1>1, <1>4, <1>5, <1>6
  <1>8. g = Step(g)
    <2>2. /\ g[{}] = c /\ g[{1}] = a /\ g[{2}] = b /\ g[{1, 2}] = Add(a, b)
          /\ g = [s \in SUBSET D |-> g[s]]
      <3>1. {} \in SUBSET D /\ {1} \in SUBSET D /\ {2} \in SUBSET D
            /\ {1, 2} \in SUBSET D
        OBVIOUS
      <3>2. 1 \notin {2} /\ 2 \notin {1}
        OBVIOUS
      <3> DEFINE both == Add(a, b)
      <3> HIDE DEF both, c, D
      <3>3. g = [s \in SUBSET D |-> g[s]]
        OBVIOUS
      <3>4. g[{}] = c
        BY <3>1 DEF c
      <3>5. g[{1}] = a
        BY <3>1, <3>2
      <3>6. g[{2}] = b
        BY <3>1, <3>2
      <3>7. g[{1, 2}] = both
        BY <3>1 DEF both
      <3> QED
        BY <3>3, <3>4, <3>5, <3>6, <3>7 DEF both
    <2>3. /\ Step(g)[{}] = c /\ Step(g)[{1}] = Add(c, a)
          /\ Step(g)[{2}] = Add(c, b) /\ Step(g)[{1, 2}] = Add(a, b)
          /\ Step(g) = [s \in SUBSET D |-> Step(g)[s]]
      <3> HIDE DEF Add, Step, D, g, c
      <3> QED
        BY <1>5, <2>2
    <2> HIDE DEF Add, Step, D, g
    <2>4. ASSUME NEW s \in SUBSET D
          PROVE  g[s] = Step(g)[s]
      <3>1. s = {} \/ s = {1} \/ s = {2} \/ s = {1, 2}
        BY <1>1
      <3> HIDE DEF c, u
      <3>2. Add(c, a) = a /\ Add(c, b) = b
        BY <1>4 DEF c
      <3> QED
        BY <2>2, <2>3, <3>1, <3>2
    <2> QED
      BY <2>2, <2>3, <2>4
  <1>7. h = Step(h)
    <2> HIDE DEF Step, g
    <2> QED
      BY <1>8
  <1> QED
    BY <1>3, <1>6, <1>7

\* However the runner splits the events of a window between two workers,
\* merging what they hold gives the accumulator of the one modelled here.
THEOREM LiftingIsSound == Spec => []LiftingAgrees
  <1>1. TotalInv => LiftingAgrees
    <2> SUFFICES ASSUME TotalInv, NEW k \in Keys, NEW S \in SUBSET counted[k]
                 PROVE  MergeAccumulators(<<PartialOf(S),
                                            PartialOf(counted[k] \ S)>>)
                          = accumulator[k]
      BY DEF LiftingAgrees
    <2> DEFINE C == counted[k]
               T == counted[k] \ S
    <2>1. /\ C \in SUBSET Events /\ S \in SUBSET Events /\ T \in SUBSET Events
          /\ accumulator[k] \in Accumulators
          /\ IsFiniteSet(C)
          /\ accumulator[k].count = Cardinality(C)
          /\ accumulator[k].total = Total(Amounts, C)
      BY DEF TotalInv, CountInv, TypeOK
    <2>2. IsFiniteSet(S) /\ IsFiniteSet(T)
      BY <2>1, FS_Subset
    <2>3. /\ Cardinality(S) \in Nat /\ Cardinality(T) \in Nat
          /\ Total(Amounts, S) \in Nat /\ Total(Amounts, T) \in Nat
      BY <2>1, <2>2, AmountsTyped, TotalGrows, FS_CardinalityType
    <2>4. /\ Cardinality(S) + Cardinality(T) = Cardinality(C)
          /\ Total(Amounts, S) + Total(Amounts, T) = Total(Amounts, C)
      BY <2>1, AmountsTyped, SplitAdds
    <2> DEFINE a == [count |-> Cardinality(S), total |-> Total(Amounts, S)]
               b == [count |-> Cardinality(T), total |-> Total(Amounts, T)]
    <2>5. PartialOf(S) = a /\ PartialOf(T) = b
      BY <2>1, <2>2, PartialTallies
    <2>6. a \in Accumulators /\ b \in Accumulators
      BY <2>3 DEF Accumulators
    <2>7. accumulator[k] = [count |-> a.count + b.count,
                            total |-> a.total + b.total]
      BY <2>1, <2>4 DEF Accumulators
    <2> HIDE DEF a, b, T
    <2>8. MergeAccumulators(<<PartialOf(S), PartialOf(T)>>) = accumulator[k]
      BY <2>5, <2>6, <2>7, MergeOfTwo
    <2> QED
      BY <2>8 DEF T
  <1> QED
    BY <1>1, InitTotals, StepTotals, PTL DEF Spec
=============================================================================
