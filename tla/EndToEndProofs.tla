---------------------------- MODULE EndToEndProofs ----------------------------
(* Theorems about EndToEnd, for any events, windows, thresholds, groups,     *)
(* number of runs and of alerts written again, with their proofs.            *)
EXTENDS EndToEnd, CollectionLemmas

Amounts == [e \in Events |-> e.amount]

-----------------------------------------------------------------------------
(* Types *)

\* The ledger of this run: what it has counted was published, and its total is
\* the sum of the amounts.
TypeInv ==
    /\ TypeOK
    /\ \A k \in Keys :
          /\ IsFiniteSet(counted[k])
          /\ total[k] = Total(Amounts, counted[k])
          /\ counted[k] \subseteq PublishedIn(k)

\* Every event has an amount to add.
LEMMA AmountsTyped == \A e \in Events : /\ Amounts[e] = e.amount
                                        /\ Amounts[e] \in Nat
  BY EventAssumption DEF Amounts, AggregatedEvents

\* The ids of finitely many events.
LEMMA IdsFinite ==
    ASSUME NEW S, IsFiniteSet(S)
    PROVE  IsFiniteSet(Ids(S)) /\ Cardinality(Ids(S)) \in Nat
  <1> DEFINE f == [e \in S |-> e.id]
  <1>1. Ids(S) = {f[e] : e \in S}
    BY DEF Ids
  <1> HIDE DEF f
  <1>2. IsFiniteSet(Ids(S))
    BY <1>1, ImageIsFinite
  <1> QED
    BY <1>2, FS_CardinalityType

\* A window that has counted nothing.
LEMMA NothingCounted ==
    /\ IsFiniteSet({})
    /\ Total(Amounts, {}) = 0
    /\ Cardinality(Ids({})) = 0
  <1>1. Pile(Amounts, {}) = {} /\ Ids({}) = {}
    BY DEF Pile, Ids
  <1> QED
    BY <1>1, FS_EmptySet DEF Total

\* The entry of a window is what an alert can carry.
LEMMA EntryTyped ==
    ASSUME TypeInv, NEW k \in Keys
    PROVE  /\ Entry(k).count \in Nat /\ Entry(k).total \in Nat
           /\ Entry(k).total = total[k]
           /\ Revision(k) \in Revisions
           /\ Encoded(k, Revision(k)) \in AlertRecords
           /\ Encoded(k, Revision(k)).key = k
           /\ Encoded(k, Revision(k)).revision = pane[k].index
           /\ Encoded(k, Revision(k)).count = Entry(k).count
           /\ Encoded(k, Revision(k)).total = Entry(k).total
           /\ Breach(Entry(k)) => Breach(Encoded(k, Revision(k)))
  <1>1. Entry(k).count \in Nat /\ Entry(k).total = total[k]
    BY IdsFinite DEF TypeInv, Entry
  <1>2. total[k] \in Nat /\ pane[k].index \in Nat
    BY DEF TypeInv, TypeOK, PaneStates
  <1>3. Encoded(k, Revision(k)) = [key |-> k, revision |-> pane[k].index,
                                   count |-> Entry(k).count,
                                   total |-> total[k]]
    BY DEF Encoded, Revision
  <1>4. Revision(k) \in Revisions
    BY <1>1, <1>2 DEF Revision, Revisions
  <1> QED
    BY <1>1, <1>2, <1>3, <1>4 DEF AlertRecords, Breach

\* The pipeline and the materializers meet in the log only.
LEMMA PipelineStep ==
    ASSUME [EndNext]_vars
    PROVE  \/ \E e \in Events : Produce(e)
           \/ Read
           \/ \E e \in Events, k \in Keys : Enter(e, k)
           \/ \E k \in Keys, onTime \in BOOLEAN : FirePane(k, onTime)
           \/ \E i \in DOMAIN log : WriteAgain(i)
           \/ Stop
           \/ Rerun
           \/ UNCHANGED <<topic, resumed, next, counted, total, pane, alerts,
                          running, runs, log, rewrites>>
  <1>1. ASSUME NEW g \in Groups,
               \/ StartMaterializer(g) \/ Materialize(g)
               \/ DieUncommitted(g) \/ EndMaterializer(g)
        PROVE  UNCHANGED <<topic, resumed, next, counted, total, pane, alerts,
                           running, runs, log, rewrites>>
    BY <1>1 DEF StartMaterializer, Materialize, DieUncommitted,
                EndMaterializer, sourceVars, ledgerVars, runVars, logVars
  <1> QED
    BY <1>1 DEF EndNext, vars, sourceVars, ledgerVars, runVars, logVars

LEMMA ViewStep ==
    ASSUME [EndNext]_vars
    PROVE  \/ \E g \in Groups : \/ StartMaterializer(g) \/ Materialize(g)
                               \/ DieUncommitted(g) \/ EndMaterializer(g)
           \/ UNCHANGED <<reading, committed, position, joined, store>>
  BY DEF EndNext, Produce, Read, Enter, FirePane, WriteAgain, Stop, Rerun,
         vars, groupVars

\* Of the log a step leaves what there is; it may append the alert of a pane,
\* or one that is there already.
LEMMA StepLog ==
    ASSUME TypeInv, [EndNext]_vars
    PROVE  \/ UNCHANGED log
           \/ \E k \in Keys, onTime \in BOOLEAN :
                 /\ FirePane(k, onTime) /\ Breach(Entry(k))
                 /\ log' = Append(log, Encoded(k, Revision(k)))
           \/ /\ UNCHANGED <<topic, ledgerVars, runVars, groupVars, store>>
              /\ \E y \in ToSet(log) : log' = Append(log, y)
  <1>1. ASSUME NEW i \in DOMAIN log, WriteAgain(i)
        PROVE  /\ UNCHANGED <<topic, ledgerVars, runVars, groupVars, store>>
               /\ \E y \in ToSet(log) : log' = Append(log, y)
    BY <1>1 DEF WriteAgain, ToSet
  <1> QED
    BY <1>1, PipelineStep
       DEF Produce, Read, Enter, FirePane, Stop, Rerun, logVars

\* So the log has old records and at most one that is new.
LEMMA LogGrows ==
    ASSUME TypeInv, [EndNext]_vars
    PROVE  /\ log' \in Seq(AlertRecords)
           /\ Len(log) \in Nat /\ Len(log') \in Nat /\ Len(log) <= Len(log')
           /\ DOMAIN log = 1 .. Len(log) /\ DOMAIN log' = 1 .. Len(log')
           /\ \A n \in 1 .. Len(log) : log'[n] = log[n]
           /\ ToSet(log) \subseteq ToSet(log')
           /\ \A y \in ToSet(log') \ ToSet(log) :
                 \E k \in Keys, onTime \in BOOLEAN :
                    /\ FirePane(k, onTime) /\ Breach(Entry(k))
                    /\ y = Encoded(k, Revision(k))
           /\ \A k \in Keys, onTime \in BOOLEAN :
                 FirePane(k, onTime) /\ Breach(Entry(k)) =>
                    /\ ToSet(log') = ToSet(log)
                                       \union {Encoded(k, Revision(k))}
                    /\ UNCHANGED <<topic, runVars, counted, total>>
  <1>0. /\ log \in Seq(AlertRecords) /\ Len(log) \in Nat
        /\ DOMAIN log = 1 .. Len(log)
        /\ ToSet(log) \subseteq AlertRecords
    BY DEF TypeInv, TypeOK, ToSet
  <1>1. ASSUME NEW y \in AlertRecords, log' = Append(log, y)
        PROVE  /\ log' \in Seq(AlertRecords)
               /\ Len(log') = Len(log) + 1
               /\ DOMAIN log' = 1 .. Len(log')
               /\ \A n \in 1 .. Len(log) : log'[n] = log[n]
               /\ ToSet(log') = ToSet(log) \union {y}
    BY <1>0, <1>1, AppendMeans
  <1>2. ASSUME NEW k \in Keys, NEW onTime \in BOOLEAN,
               FirePane(k, onTime), Breach(Entry(k))
        PROVE  /\ log' = Append(log, Encoded(k, Revision(k)))
               /\ Encoded(k, Revision(k)) \in AlertRecords
               /\ UNCHANGED <<topic, runVars, counted, total>>
    BY <1>2, EntryTyped DEF FirePane, Fire
  <1>3. CASE UNCHANGED log
    <2>1. \A k \in Keys, onTime \in BOOLEAN :
             ~ (FirePane(k, onTime) /\ Breach(Entry(k)))
      <3> SUFFICES ASSUME NEW k \in Keys, NEW onTime \in BOOLEAN,
                          FirePane(k, onTime), Breach(Entry(k))
                   PROVE  FALSE
        OBVIOUS
      <3>1. Len(log') = Len(log) + 1
        BY <1>1, <1>2
      <3> QED
        BY <1>0, <1>3, <3>1
    <2> QED
      BY <1>0, <1>3, <2>1
  <1>4. CASE \E k \in Keys, onTime \in BOOLEAN :
                /\ FirePane(k, onTime) /\ Breach(Entry(k))
                /\ log' = Append(log, Encoded(k, Revision(k)))
    <2>1. PICK k \in Keys, onTime \in BOOLEAN :
                /\ FirePane(k, onTime) /\ Breach(Entry(k))
                /\ log' = Append(log, Encoded(k, Revision(k)))
      BY <1>4
    <2>2. /\ log' \in Seq(AlertRecords)
          /\ Len(log') = Len(log) + 1
          /\ DOMAIN log' = 1 .. Len(log')
          /\ \A n \in 1 .. Len(log) : log'[n] = log[n]
          /\ ToSet(log') = ToSet(log) \union {Encoded(k, Revision(k))}
      BY <1>1, <1>2, <2>1
    <2> QED
      BY <1>0, <1>1, <1>2, <2>1, <2>2
  <1>5. CASE /\ UNCHANGED <<topic, ledgerVars, runVars, groupVars, store>>
             /\ \E y \in ToSet(log) : log' = Append(log, y)
    <2>1. PICK y \in ToSet(log) : log' = Append(log, y)
      BY <1>5
    <2>2. /\ log' \in Seq(AlertRecords)
          /\ Len(log') = Len(log) + 1
          /\ DOMAIN log' = 1 .. Len(log')
          /\ \A n \in 1 .. Len(log) : log'[n] = log[n]
          /\ ToSet(log') = ToSet(log)
      BY <1>0, <1>1, <2>1
    <2>3. \A k \in Keys, onTime \in BOOLEAN :
             FirePane(k, onTime) /\ Breach(Entry(k)) =>
                ToSet(log') = ToSet(log) \union {Encoded(k, Revision(k))}
      BY <1>1, <1>2
    <2> QED
      BY <1>0, <1>2, <2>2, <2>3
  <1> QED
    BY <1>3, <1>4, <1>5, StepLog

\* What was published stays published.
LEMMA TopicGrows ==
    ASSUME TypeInv, [EndNext]_vars
    PROVE  /\ topic' \in Seq(Events) /\ Len(topic) <= Len(topic')
           /\ Len(topic) \in Nat /\ Len(topic') \in Nat
           /\ \A k \in Keys : PublishedIn(k) \subseteq PublishedIn(k)'
  <1>1. CASE UNCHANGED topic
    BY <1>1 DEF PublishedIn, TypeInv, TypeOK
  <1>2. ASSUME NEW e \in Events, topic' = Append(topic, e)
        PROVE  /\ topic' \in Seq(Events) /\ Len(topic) <= Len(topic')
               /\ Len(topic) \in Nat /\ Len(topic') \in Nat
               /\ ToSet(topic) \subseteq ToSet(topic')
    <2>1. topic \in Seq(Events)
      BY DEF TypeInv, TypeOK
    <2>2. /\ topic' \in Seq(Events) /\ Len(topic) \in Nat
          /\ ToSet(topic') = ToSet(topic) \union {e}
      BY <1>2, <2>1, AppendMeans
    <2>3. Len(topic') = Len(topic) + 1
      BY <1>2, <2>1
    <2> QED
      BY <2>2, <2>3
  <1>3. \/ UNCHANGED topic
        \/ \E e \in Events : topic' = Append(topic, e)
    BY PipelineStep
       DEF Produce, Read, Enter, FirePane, WriteAgain, Stop, Rerun
  <1> QED
    BY <1>1, <1>2, <1>3 DEF PublishedIn

\* What enters a window was read from the topic.
LEMMA EnteredIsPublished ==
    ASSUME TypeInv, NEW e \in Events, NEW k \in Keys, Enter(e, k)
    PROVE  e \in PublishedIn(k)
  <1> DEFINE s == SubSeq(topic, resumed, next - 1)
  <1>1. /\ topic \in Seq(Events) /\ Len(topic) \in Nat
        /\ next \in 1 .. Len(topic) + 1 /\ resumed \in 1 .. next
        /\ DOMAIN topic = 1 .. Len(topic)
    BY DEF TypeInv, TypeOK
  <1>2. /\ s \in Seq(Events) /\ Len(s) = next - resumed
        /\ \A n \in 1 .. next - resumed : s[n] = topic[resumed + n - 1]
    BY <1>1, SubSeqProperties
  <1>3. DOMAIN s = 1 .. next - resumed
    BY <1>1, <1>2
  <1>4. e \in ToSet(s) /\ k \in KeysOf(e)
    BY DEF Enter, Count
  <1> HIDE DEF s
  <1>5. PICK n \in 1 .. next - resumed : e = s[n]
    BY <1>3, <1>4 DEF ToSet
  <1>6. e = topic[resumed + n - 1] /\ resumed + n - 1 \in 1 .. Len(topic)
    BY <1>1, <1>2, <1>5
  <1>7. e \in ToSet(topic)
    BY <1>1, <1>6 DEF ToSet
  <1> QED
    BY <1>4, <1>7 DEF PublishedIn

\* Every step keeps the types of the ledger.
LEMMA StepLedgerTyped ==
    ASSUME TypeInv, [EndNext]_vars
    PROVE  /\ counted' \in [Keys -> SUBSET Events]
           /\ total' \in [Keys -> Nat]
           /\ pane' \in [Keys -> PaneStates]
           /\ alerts' \in [Keys -> Seq(Revisions)]
           /\ \A k \in Keys :
                 /\ IsFiniteSet(counted'[k])
                 /\ total'[k] = Total(Amounts, counted'[k])
                 /\ counted'[k] \subseteq PublishedIn(k)'
  <1>0. /\ counted \in [Keys -> SUBSET Events] /\ total \in [Keys -> Nat]
        /\ pane \in [Keys -> PaneStates]
        /\ alerts \in [Keys -> Seq(Revisions)]
        /\ \A k \in Keys : /\ IsFiniteSet(counted[k])
                           /\ total[k] = Total(Amounts, counted[k])
                           /\ counted[k] \subseteq PublishedIn(k)'
    BY TopicGrows DEF TypeInv, TypeOK
  <1>1. ASSUME NEW e \in Events, NEW j \in Keys, Enter(e, j)
        PROVE  /\ counted' \in [Keys -> SUBSET Events]
               /\ total' \in [Keys -> Nat]
               /\ pane' \in [Keys -> PaneStates] /\ alerts' = alerts
               /\ \A k \in Keys :
                     /\ IsFiniteSet(counted'[k])
                     /\ total'[k] = Total(Amounts, counted'[k])
                     /\ counted'[k] \subseteq PublishedIn(k)'
    <2>1. /\ counted' = [counted EXCEPT ![j] = @ \union {e}]
          /\ total' = [total EXCEPT ![j] = @ + e.amount]
          /\ pane' = [pane EXCEPT ![j].pending = TRUE]
          /\ alerts' = alerts
          /\ e.id \notin Ids(counted[j])
      BY <1>1 DEF Enter, Count
    <2>2. e.amount \in Nat /\ Amounts[e] = e.amount
      BY AmountsTyped
    <2>3. counted' \in [Keys -> SUBSET Events] /\ total' \in [Keys -> Nat]
      BY <1>0, <2>1, <2>2
    <2>4. pane' \in [Keys -> PaneStates]
      <3>1. [pane[j] EXCEPT !.pending = TRUE] \in PaneStates
        BY <1>0 DEF PaneStates
      <3> QED
        BY <1>0, <2>1, <3>1
    <2>5. /\ IsFiniteSet(counted'[j])
          /\ counted'[j] = counted[j] \union {e}
          /\ total'[j] = total[j] + e.amount
          /\ total[j] \in Nat /\ counted[j] \in SUBSET Events
      BY <1>0, <2>1, FS_AddElement
    <2>6. total'[j] = Total(Amounts, counted'[j])
      <3>1. e \notin counted[j]
        BY <2>1 DEF Ids
      <3>2. IsFiniteSet(Pile(Amounts, counted[j]))
        BY <1>0, <2>5, AmountsTyped, TotalGrows
      <3>3. Total(Amounts, counted[j] \union {e})
              = Amounts[e] + Total(Amounts, counted[j])
        BY <2>2, <3>1, <3>2, PileAdds
      <3>4. total[j] = Total(Amounts, counted[j])
        BY <1>0
      <3> QED
        BY <2>2, <2>5, <3>3, <3>4
    <2>7. counted'[j] \subseteq PublishedIn(j)'
      BY <1>0, <1>1, <2>5, EnteredIsPublished, TopicGrows
    <2>8. \A k \in Keys : k # j => /\ counted'[k] = counted[k]
                                   /\ total'[k] = total[k]
      BY <1>0, <2>1
    <2> QED
      BY <1>0, <2>1, <2>3, <2>4, <2>5, <2>6, <2>7, <2>8
  <1>2. ASSUME NEW j \in Keys, NEW onTime \in BOOLEAN, FirePane(j, onTime)
        PROVE  /\ UNCHANGED <<counted, total>>
               /\ pane' \in [Keys -> PaneStates]
               /\ alerts' \in [Keys -> Seq(Revisions)]
    <2>1. [pending |-> FALSE, onTime |-> onTime, index |-> pane[j].index + 1]
            \in PaneStates
      BY <1>0 DEF PaneStates
    <2>2. pane' \in [Keys -> PaneStates] /\ UNCHANGED <<counted, total>>
      BY <1>0, <1>2, <2>1 DEF FirePane, Fire
    <2>3. Append(alerts[j], Revision(j)) \in Seq(Revisions)
      BY <1>0, EntryTyped
    <2>4. alerts' = [alerts EXCEPT ![j] = IF Breach(Entry(j))
                                            THEN Append(@, Revision(j))
                                            ELSE @]
      BY <1>2 DEF FirePane, Fire
    <2>5. alerts' \in [Keys -> Seq(Revisions)]
      BY <1>0, <2>3, <2>4
    <2> QED
      BY <2>2, <2>5
  <1>3. CASE Rerun
    <2>1. /\ counted' = [k \in Keys |-> {}]
          /\ total' = [k \in Keys |-> 0]
          /\ pane' = [k \in Keys |-> NewPane]
          /\ alerts' = [k \in Keys |-> << >>]
      BY <1>3 DEF Rerun, TotalsAtStart
    <2>2. NewPane \in PaneStates
      BY DEF NewPane, PaneStates
    <2> QED
      BY <2>1, <2>2, NothingCounted
  <1>4. CASE UNCHANGED <<counted, total, pane, alerts>>
    BY <1>0, <1>4
  <1>5. \/ \E e \in Events, k \in Keys : Enter(e, k)
        \/ \E k \in Keys, onTime \in BOOLEAN : FirePane(k, onTime)
        \/ Rerun
        \/ UNCHANGED <<counted, total, pane, alerts>>
    BY PipelineStep DEF Produce, Read, WriteAgain, Stop, ledgerVars
  <1> QED
    BY <1>0, <1>1, <1>2, <1>3, <1>4, <1>5

\* What a materializer does with the alert it takes.
LEMMA TakeMeans ==
    ASSUME TypeInv, NEW g \in Groups, Materialize(g) \/ DieUncommitted(g)
    PROVE  LET r == log[position[g]]
           IN  /\ r \in ToSet(log) /\ r \in AlertRecords /\ r.key \in Keys
               /\ position[g] \in 1 .. Len(log)
               /\ UNCHANGED log
               /\ store' = IF \/ store[r.key] = Absent
                              \/ store[r.key].revision < r.revision
                             THEN [store EXCEPT ![r.key] = r]
                             ELSE store
  <1>1. /\ position[g] \in 1 .. Len(log) /\ log \in Seq(AlertRecords)
        /\ log' = log
    BY DEF TypeInv, TypeOK, Materialize, DieUncommitted, logVars
  <1>2. log[position[g]] \in ToSet(log) /\ log[position[g]] \in AlertRecords
    BY <1>1 DEF ToSet
  <1>3. log[position[g]].key \in Keys
    BY <1>2 DEF AlertRecords
  <1> QED
    BY <1>1, <1>2, <1>3 DEF Materialize, DieUncommitted, View!Take

\* Every step keeps the types of the groups.
LEMMA StepGroupsTyped ==
    ASSUME TypeInv, [EndNext]_vars
    PROVE  /\ reading' \subseteq Groups
           /\ committed' \in [Groups -> Nat]
           /\ position' \in [Groups -> Nat \ {0}]
           /\ joined' \in [Groups -> Nat]
  <1>0. /\ reading \subseteq Groups /\ committed \in [Groups -> Nat]
        /\ position \in [Groups -> Nat \ {0}] /\ joined \in [Groups -> Nat]
        /\ Len(log) \in Nat
    BY DEF TypeInv, TypeOK
  <1>1. ASSUME NEW g \in Groups, StartMaterializer(g)
        PROVE  /\ reading' \subseteq Groups /\ committed' = committed
               /\ position' \in [Groups -> Nat \ {0}]
               /\ joined' \in [Groups -> Nat]
    <2>0. reading' \subseteq Groups /\ committed' = committed
      BY <1>0, <1>1 DEF StartMaterializer
    <2>1. CASE committed[g] = 0
      <3>1. PICK reset \in Resets :
               position' = [position EXCEPT ![g] = ResetPosition(reset)]
        BY <1>1, <2>1 DEF StartMaterializer
      <3>2. ResetPosition(reset) \in Nat \ {0}
        BY <1>0 DEF ResetPosition
      <3>3. position' \in [Groups -> Nat \ {0}] /\ position'[g] \in Nat
        BY <1>0, <3>1, <3>2
      <3>4. joined' = [joined EXCEPT ![g] = position'[g]]
        BY <1>1, <2>1 DEF StartMaterializer
      <3> QED
        BY <1>0, <2>0, <3>3, <3>4
    <2>2. CASE committed[g] # 0
      <3>1. /\ position' = [position EXCEPT ![g] = committed[g]]
            /\ joined' = joined
        BY <1>1, <2>2 DEF StartMaterializer
      <3> QED
        BY <1>0, <2>0, <2>2, <3>1
    <2> QED
      BY <2>1, <2>2
  <1>2. ASSUME NEW g \in Groups, Materialize(g)
        PROVE  /\ reading' = reading /\ joined' = joined
               /\ position' \in [Groups -> Nat \ {0}]
               /\ committed' \in [Groups -> Nat]
    <2>1. /\ position' = [position EXCEPT ![g] = @ + 1]
          /\ committed' = [committed EXCEPT ![g] = position[g] + 1]
          /\ reading' = reading /\ joined' = joined
      BY <1>2 DEF Materialize
    <2>2. position[g] + 1 \in Nat \ {0}
      BY <1>0
    <2> QED
      BY <1>0, <2>1, <2>2
  <1>3. ASSUME NEW g \in Groups, DieUncommitted(g) \/ EndMaterializer(g)
        PROVE  /\ reading' \subseteq Groups
               /\ UNCHANGED <<committed, position, joined>>
    BY <1>0, <1>3 DEF DieUncommitted, EndMaterializer
  <1> QED
    BY <1>0, <1>1, <1>2, <1>3, ViewStep

\* Every step keeps the types.
LEMMA StepTyped ==
    ASSUME TypeInv, [EndNext]_vars
    PROVE  TypeInv'
  <1>0. /\ topic \in Seq(Events) /\ Len(topic) \in Nat
        /\ next \in 1 .. Len(topic) + 1 /\ resumed \in 1 .. next
        /\ running \in BOOLEAN /\ runs \in 1 .. MaxRuns
        /\ log \in Seq(AlertRecords)
        /\ store \in [Keys -> ToSet(log) \union {Absent}]
        /\ \A k \in Keys : store[k] # Absent => store[k].key = k
        /\ rewrites \in 0 .. MaxRewrites
        /\ MaxRuns \in Nat /\ MaxRewrites \in Nat
    BY BoundAssumption DEF TypeInv, TypeOK
  <1>1. next' \in 1 .. Len(topic') + 1 /\ resumed' \in 1 .. next'
    <2>1. CASE Read
      BY <1>0, <2>1, TopicGrows DEF Read
    <2>2. CASE Rerun
      BY <1>0, <2>2, TopicGrows DEF Rerun, ResumeOffsets
    <2>3. CASE UNCHANGED <<resumed, next>>
      BY <1>0, <2>3, TopicGrows
    <2>4. Read \/ Rerun \/ UNCHANGED <<resumed, next>>
      BY PipelineStep
         DEF Produce, Enter, FirePane, WriteAgain, Stop, sourceVars
    <2> QED
      BY <2>1, <2>2, <2>3, <2>4
  <1>2. running' \in BOOLEAN /\ runs' \in 1 .. MaxRuns
    <2>1. CASE Rerun
      BY <1>0, <2>1 DEF Rerun
    <2>2. CASE Stop
      BY <1>0, <2>2 DEF Stop
    <2>3. CASE UNCHANGED runVars
      BY <1>0, <2>3 DEF runVars
    <2>4. Rerun \/ Stop \/ UNCHANGED runVars
      BY PipelineStep DEF Produce, Read, Enter, FirePane, WriteAgain, runVars
    <2> QED
      BY <2>1, <2>2, <2>3, <2>4
  <1>3. rewrites' \in 0 .. MaxRewrites
    <2>1. \/ rewrites' = rewrites
          \/ rewrites < MaxRewrites /\ rewrites' = rewrites + 1
      BY PipelineStep
         DEF Produce, Read, Enter, FirePane, WriteAgain, Stop, Rerun, logVars
    <2> QED
      BY <1>0, <2>1
  <1>4. /\ store' \in [Keys -> ToSet(log') \union {Absent}]
        /\ \A k \in Keys : store'[k] # Absent => store'[k].key = k
    <2>1. ASSUME NEW g \in Groups, Materialize(g) \/ DieUncommitted(g)
          PROVE  <1>4!1 /\ <1>4!2
      <3> DEFINE r == log[position[g]]
      <3>1. /\ r \in ToSet(log) /\ r.key \in Keys /\ log' = log
            /\ store' = IF \/ store[r.key] = Absent
                           \/ store[r.key].revision < r.revision
                          THEN [store EXCEPT ![r.key] = r]
                          ELSE store
        BY <2>1, TakeMeans
      <3> HIDE DEF r
      <3> QED
        BY <1>0, <3>1
    <2>2. CASE UNCHANGED store
      BY <1>0, <2>2, LogGrows
    <2>3. \/ \E g \in Groups : Materialize(g) \/ DieUncommitted(g)
          \/ UNCHANGED store
      BY ViewStep DEF StartMaterializer, EndMaterializer
    <2> QED
      BY <2>1, <2>2, <2>3
  <1>5. TypeOK'
    BY <1>1, <1>2, <1>3, <1>4, StepLedgerTyped, StepGroupsTyped, TopicGrows,
       LogGrows DEF TypeOK
  <1> QED
    BY <1>5, StepLedgerTyped DEF TypeInv

-----------------------------------------------------------------------------
(* What alerts say *)

\* An alert in the log is over a threshold, and says no more than the topic
\* has for its window.
LogInv ==
    \A y \in ToSet(log) :
        /\ Breach(y)
        /\ y.count <= Cardinality(Ids(PublishedIn(y.key)))
        /\ y.total <= Total(Amounts, PublishedIn(y.key))

\* The records of a topic are finitely many.
LEMMA RecordsFinite ==
    ASSUME NEW s \in Seq(Events)
    PROVE  \A T \in SUBSET ToSet(s) : IsFiniteSet(T) /\ T \in SUBSET Events
  <1>1. DOMAIN s = 1 .. Len(s) /\ Len(s) \in Nat
    OBVIOUS
  <1>2. IsFiniteSet(DOMAIN s)
    BY <1>1, FS_Interval
  <1>3. ToSet(s) = {s[n] : n \in DOMAIN s}
    BY DEF ToSet
  <1>4. IsFiniteSet(ToSet(s))
    BY <1>2, <1>3, ImageIsFinite
  <1>5. ToSet(s) \in SUBSET Events
    BY <1>1, <1>3
  <1> QED
    BY <1>4, <1>5, FS_Subset

\* More events have no fewer ids and no smaller amount.
LEMMA MoreEvents ==
    ASSUME NEW T \in SUBSET Events, IsFiniteSet(T), NEW S \in SUBSET T
    PROVE  /\ Cardinality(Ids(S)) \in Nat /\ Cardinality(Ids(T)) \in Nat
           /\ Total(Amounts, S) \in Nat /\ Total(Amounts, T) \in Nat
           /\ Cardinality(Ids(S)) <= Cardinality(Ids(T))
           /\ Total(Amounts, S) <= Total(Amounts, T)
  <1>1. IsFiniteSet(S)
    BY FS_Subset
  <1>2. /\ Total(Amounts, S) \in Nat /\ Total(Amounts, T) \in Nat
        /\ Total(Amounts, S) <= Total(Amounts, T)
    BY AmountsTyped, TotalGrows
  <1>3. /\ IsFiniteSet(Ids(T)) /\ Cardinality(Ids(S)) \in Nat
        /\ Cardinality(Ids(T)) \in Nat
    BY <1>1, IdsFinite
  <1>4. Ids(S) \in SUBSET Ids(T)
    BY DEF Ids
  <1> QED
    BY <1>2, <1>3, <1>4, FS_Subset

\* Every step keeps what alerts say: a new one says what is counted.
LEMMA StepSays ==
    ASSUME TypeInv, LogInv, [EndNext]_vars
    PROVE  LogInv'
  <1> DEFINE cnt(k) == Cardinality(Ids(PublishedIn(k)))
             sum(k) == Total(Amounts, PublishedIn(k))
  <1>0. TypeInv' /\ ToSet(log) \subseteq AlertRecords
    <2>1. TypeInv'
      BY StepTyped
    <2>2. log \in Seq(AlertRecords)
      BY DEF TypeInv, TypeOK
    <2> QED
      BY <2>1, <2>2 DEF ToSet
  <1>1. ASSUME NEW k \in Keys
        PROVE  /\ cnt(k) \in Nat /\ sum(k) \in Nat
               /\ cnt(k)' \in Nat /\ sum(k)' \in Nat
               /\ cnt(k) <= cnt(k)' /\ sum(k) <= sum(k)'
               /\ IsFiniteSet(PublishedIn(k))
               /\ PublishedIn(k) \in SUBSET Events
    <2>1. topic \in Seq(Events) /\ topic' \in Seq(Events)
      BY TopicGrows DEF TypeInv, TypeOK
    <2>2. /\ PublishedIn(k) \in SUBSET ToSet(topic)
          /\ PublishedIn(k)' \in SUBSET ToSet(topic')
      BY DEF PublishedIn
    <2>3. /\ IsFiniteSet(PublishedIn(k)) /\ PublishedIn(k) \in SUBSET Events
          /\ IsFiniteSet(PublishedIn(k)') /\ PublishedIn(k)' \in SUBSET Events
      BY <2>1, <2>2, RecordsFinite
    <2>4. PublishedIn(k) \in SUBSET PublishedIn(k)'
      BY TopicGrows
    <2>5. /\ Cardinality(Ids(PublishedIn(k))) \in Nat
          /\ Cardinality(Ids(PublishedIn(k)')) \in Nat
          /\ Total(Amounts, PublishedIn(k)) \in Nat
          /\ Total(Amounts, PublishedIn(k)') \in Nat
          /\ Cardinality(Ids(PublishedIn(k)))
               <= Cardinality(Ids(PublishedIn(k)'))
          /\ Total(Amounts, PublishedIn(k)) <= Total(Amounts, PublishedIn(k)')
      BY <2>3, <2>4, MoreEvents
    <2>6. Ids(PublishedIn(k))' = Ids(PublishedIn(k)')
      BY DEF Ids
    <2>7. Total(Amounts, PublishedIn(k))' = Total(Amounts, PublishedIn(k)')
      BY DEF Amounts
    <2> QED
      BY <2>3, <2>5, <2>6, <2>7
  <1> SUFFICES ASSUME NEW y \in ToSet(log')
               PROVE  /\ Breach(y)
                      /\ y.count <= cnt(y.key)'
                      /\ y.total <= sum(y.key)'
    BY DEF LogInv
  <1>2. CASE y \in ToSet(log)
    <2>1. y.key \in Keys /\ y.count \in Nat /\ y.total \in Nat
      BY <1>0, <1>2 DEF AlertRecords
    <2>2. Breach(y) /\ y.count <= cnt(y.key) /\ y.total <= sum(y.key)
      BY <1>2 DEF LogInv
    <2> HIDE DEF cnt, sum
    <2> QED
      BY <1>1, <2>1, <2>2
  <1>3. CASE y \notin ToSet(log)
    <2>1. PICK k \in Keys, onTime \in BOOLEAN :
             /\ FirePane(k, onTime) /\ Breach(Entry(k))
             /\ y = Encoded(k, Revision(k))
      BY <1>3, LogGrows
    <2>2. /\ y.key = k /\ y.count = Entry(k).count /\ y.total = total[k]
          /\ Breach(y)
      BY <2>1, EntryTyped
    <2>3. /\ y.count = Cardinality(Ids(counted[k]))
          /\ y.total = Total(Amounts, counted[k])
          /\ counted[k] \in SUBSET PublishedIn(k)
      BY <2>2 DEF TypeInv, Entry
    <2>4. /\ y.count <= cnt(k) /\ y.total <= sum(k)
          /\ y.count \in Nat /\ y.total \in Nat
      BY <1>1, <2>3, MoreEvents
    <2> HIDE DEF cnt, sum
    <2> QED
      BY <1>1, <2>2, <2>4
  <1> QED
    BY <1>2, <1>3

-----------------------------------------------------------------------------
(* What panes have told *)

\* In any run, a window over a threshold whose panes have no news has told the
\* log so: the log has alerts of its key.
ToldInv ==
    \A k \in Keys : Breach(Entry(k)) /\ ~pane[k].pending =>
        \E y \in ToSet(log) : y.key = k

\* In the first run there is one alert of a revision, older panes have lower
\* ones, and the highest says what is counted.
FirstRunInv ==
    runs = 1 =>
        /\ \A y \in ToSet(log) : y.revision < pane[y.key].index
        /\ \A y, z \in ToSet(log) :
              y.key = z.key /\ y.revision = z.revision => y = z
        /\ \A k \in Keys : Breach(Entry(k)) /\ ~pane[k].pending =>
              \E y \in ToSet(log) :
                 /\ y.key = k
                 /\ y.count = Entry(k).count /\ y.total = Entry(k).total
                 /\ \A z \in ToSet(log) :
                       z.key = k => z.revision <= y.revision

\* Of the ledger a step changes one window at most, or a new run forgets it.
Hears(j) ==
    /\ pane'[j].pending
    /\ pane'[j].index = pane[j].index
    /\ \A k \in Keys \ {j} : Entry(k)' = Entry(k) /\ pane'[k] = pane[k]
    /\ runs' = runs /\ ToSet(log') = ToSet(log)

Tells(j) ==
    /\ \E onTime \in BOOLEAN : FirePane(j, onTime)
    /\ \A k \in Keys : Entry(k)' = Entry(k)
    /\ \A k \in Keys \ {j} : pane'[k] = pane[k]
    /\ pane'[j].index = pane[j].index + 1
    /\ runs' = runs
    /\ ~ Breach(Entry(j)) => log' = log

Forgets ==
    /\ runs' # 1
    /\ \A k \in Keys : ~ Breach(Entry(k)')

Rests ==
    /\ \A k \in Keys : Entry(k)' = Entry(k) /\ pane'[k] = pane[k]
    /\ runs' = runs /\ ToSet(log') = ToSet(log)

LEMMA WindowStep ==
    ASSUME TypeInv, [EndNext]_vars
    PROVE  \/ \E j \in Keys : Hears(j) \/ Tells(j)
           \/ Forgets
           \/ Rests
  <1>0. /\ counted \in [Keys -> SUBSET Events] /\ total \in [Keys -> Nat]
        /\ pane \in [Keys -> PaneStates]
    BY DEF TypeInv, TypeOK
  <1>1. ASSUME NEW e \in Events, NEW j \in Keys, Enter(e, j)
        PROVE  Hears(j)
    <2>1. /\ counted' = [counted EXCEPT ![j] = @ \union {e}]
          /\ total' = [total EXCEPT ![j] = @ + e.amount]
          /\ pane' = [pane EXCEPT ![j].pending = TRUE]
          /\ runs' = runs /\ log' = log
      BY <1>1 DEF Enter, Count, runVars, logVars
    <2>2. pane'[j] = [pane[j] EXCEPT !.pending = TRUE]
      BY <1>0, <2>1
    <2>3. \A k \in Keys \ {j} : /\ counted'[k] = counted[k]
                                /\ total'[k] = total[k]
                                /\ pane'[k] = pane[k]
      BY <1>0, <2>1
    <2>4. pane[j] \in PaneStates
      BY <1>0
    <2> QED
      BY <2>1, <2>2, <2>3, <2>4 DEF Entry, PaneStates, Hears
  <1>2. ASSUME NEW j \in Keys, NEW onTime \in BOOLEAN, FirePane(j, onTime)
        PROVE  Tells(j)
    <2>1. /\ counted' = counted /\ total' = total /\ runs' = runs
          /\ pane' = [pane EXCEPT ![j] = [pending |-> FALSE, onTime |-> onTime,
                                          index |-> @.index + 1]]
          /\ ~ Breach(Entry(j)) => log' = log
      BY <1>2 DEF FirePane, Fire, runVars
    <2>2. /\ \A k \in Keys : Entry(k)' = Entry(k)
          /\ \A k \in Keys \ {j} : pane'[k] = pane[k]
          /\ pane'[j].index = pane[j].index + 1
      BY <1>0, <2>1 DEF Entry
    <2> QED
      BY <1>2, <2>1, <2>2 DEF Tells
  <1>3. CASE Rerun
    <2>1. /\ runs' = runs + 1 /\ runs \in 1 .. MaxRuns /\ MaxRuns \in Nat
          /\ counted' = [k \in Keys |-> {}]
      BY <1>3, BoundAssumption DEF Rerun, TypeInv, TypeOK
    <2>2. \A k \in Keys : Entry(k)'.count = 0
      BY <2>1, NothingCounted DEF Entry
    <2> QED
      BY <2>1, <2>2 DEF Breach, Forgets
  <1>4. CASE UNCHANGED <<counted, total, pane, runs, log>>
    BY <1>4 DEF Entry, Rests
  <1>5. ASSUME NEW i \in DOMAIN log, WriteAgain(i)
        PROVE  Rests
    <2>1. log \in Seq(AlertRecords)
      BY DEF TypeInv, TypeOK
    <2>2. PICK y \in AlertRecords : y \in ToSet(log) /\ log' = Append(log, y)
      BY <1>5, <2>1 DEF WriteAgain, ToSet
    <2>3. ToSet(log') = ToSet(log)
      <3>1. ToSet(log') = ToSet(log) \union {y}
        BY <2>1, <2>2, AppendMeans
      <3> QED
        BY <2>2, <3>1
    <2>4. UNCHANGED <<counted, total, pane, runs>>
      BY <1>5 DEF WriteAgain, ledgerVars, runVars
    <2> QED
      BY <2>3, <2>4 DEF Entry, Rests
  <1>6. \/ \E e \in Events, k \in Keys : Enter(e, k)
        \/ \E k \in Keys, onTime \in BOOLEAN : FirePane(k, onTime)
        \/ Rerun
        \/ \E i \in DOMAIN log : WriteAgain(i)
        \/ UNCHANGED <<counted, total, pane, runs, log>>
    BY PipelineStep DEF Produce, Read, Stop, ledgerVars, runVars, logVars
  <1> QED
    BY <1>1, <1>2, <1>3, <1>4, <1>5, <1>6

\* Every step keeps what panes have told.
LEMMA StepTells ==
    ASSUME TypeInv, ToldInv, FirstRunInv, [EndNext]_vars
    PROVE  ToldInv' /\ FirstRunInv'
  <1>0. /\ pane \in [Keys -> PaneStates]
        /\ \A k \in Keys : pane[k].index \in Nat
        /\ \A y \in ToSet(log) : y \in AlertRecords
    BY DEF TypeInv, TypeOK, PaneStates, ToSet
  <1>1. ASSUME NEW j \in Keys, Hears(j)
        PROVE  ToldInv' /\ FirstRunInv'
    <2>1. \A k \in Keys : ~ pane'[k].pending =>
             Entry(k)' = Entry(k) /\ pane'[k] = pane[k]
      BY <1>1 DEF Hears
    <2>2. \A k \in Keys : pane'[k].index = pane[k].index
      BY <1>1 DEF Hears
    <2>3. runs' = runs /\ ToSet(log') = ToSet(log)
      BY <1>1 DEF Hears
    <2>4. \A y \in ToSet(log) : y.key \in Keys
      BY <1>0 DEF AlertRecords
    <2>5. ToldInv'
      BY <2>1, <2>3 DEF ToldInv
    <2>6. FirstRunInv'
      BY <2>1, <2>2, <2>3, <2>4 DEF FirstRunInv
    <2> QED
      BY <2>5, <2>6
  <1>2. ASSUME NEW j \in Keys, Tells(j)
        PROVE  ToldInv' /\ FirstRunInv'
    <2>0. /\ runs' = runs
          /\ \A k \in Keys : Entry(k)' = Entry(k)
          /\ \A k \in Keys \ {j} : pane'[k] = pane[k]
          /\ pane'[j].index = pane[j].index + 1
      BY <1>2 DEF Tells
    <2>1. CASE ~ Breach(Entry(j))
      <3>1. log' = log /\ ~ Breach(Entry(j)')
        BY <1>2, <2>0, <2>1 DEF Tells
      <3>2. \A y \in ToSet(log) : y.key \in Keys /\ y.revision \in Nat
        BY <1>0 DEF AlertRecords
      <3>3. \A y \in ToSet(log) : y.revision < pane[y.key].index
                                    => y.revision < pane'[y.key].index
        BY <1>0, <2>0, <3>2
      <3>4. \A k \in Keys : Breach(Entry(k)') /\ ~ pane'[k].pending =>
               Breach(Entry(k)) /\ ~ pane[k].pending
        BY <2>0, <3>1
      <3>5. ToldInv'
        BY <3>1, <3>4 DEF ToldInv
      <3>6. FirstRunInv'
        BY <2>0, <3>1, <3>3, <3>4 DEF FirstRunInv
      <3> QED
        BY <3>5, <3>6
    <2>2. CASE Breach(Entry(j))
      <3> DEFINE r == Encoded(j, Revision(j))
      <3>1. /\ ToSet(log') = ToSet(log) \union {r}
            /\ r.key = j /\ r.revision = pane[j].index
            /\ r.count = Entry(j).count /\ r.total = Entry(j).total
        BY <1>2, <2>2, LogGrows, EntryTyped DEF Tells
      <3> HIDE DEF r
      <3>2. \A y \in ToSet(log) : y.key \in Keys /\ y.revision \in Nat
        BY <1>0 DEF AlertRecords
      <3>3. \A k \in Keys \ {j} : pane'[k].pending = pane[k].pending
        BY <2>0
      <3>4. ToldInv'
        BY <2>0, <3>1, <3>3 DEF ToldInv
      <3>5. ASSUME runs = 1
            PROVE  /\ \A y \in ToSet(log') : y.revision < pane'[y.key].index
                   /\ \A y, z \in ToSet(log') :
                         y.key = z.key /\ y.revision = z.revision => y = z
        <4>1. \A y \in ToSet(log) : y.revision < pane[y.key].index
          BY <3>5 DEF FirstRunInv
        <4>2. \A y \in ToSet(log') : y.revision < pane'[y.key].index
          BY <1>0, <2>0, <3>1, <3>2, <4>1
        <4>3. \A y \in ToSet(log) : y.key = j => y.revision # r.revision
          BY <1>0, <3>1, <3>2, <4>1
        <4> QED
          BY <3>1, <3>5, <4>2, <4>3 DEF FirstRunInv
      <3>6. ASSUME runs = 1, NEW k \in Keys,
                   Breach(Entry(k)'), ~ pane'[k].pending
            PROVE  \E y \in ToSet(log') :
                      /\ y.key = k
                      /\ y.count = Entry(k)'.count
                      /\ y.total = Entry(k)'.total
                      /\ \A z \in ToSet(log') :
                            z.key = k => z.revision <= y.revision
        <4>1. CASE k = j
          <5>1. \A z \in ToSet(log) : z.key = j => z.revision <= r.revision
            BY <1>0, <3>1, <3>2, <3>6 DEF FirstRunInv
          <5>2. r.revision <= r.revision
            BY <1>0, <3>1
          <5> QED
            BY <2>0, <3>1, <4>1, <5>1, <5>2
        <4>2. CASE k # j
          BY <2>0, <3>1, <3>3, <3>6, <4>2 DEF FirstRunInv
        <4> QED
          BY <4>1, <4>2
      <3>7. FirstRunInv'
        BY <2>0, <3>5, <3>6 DEF FirstRunInv
      <3> QED
        BY <3>4, <3>7
    <2> QED
      BY <2>1, <2>2
  <1>3. CASE Forgets
    BY <1>3 DEF Forgets, ToldInv, FirstRunInv
  <1>4. CASE Rests
    <2>1. \A k \in Keys : Entry(k)' = Entry(k) /\ pane'[k] = pane[k]
      BY <1>4 DEF Rests
    <2>2. runs' = runs /\ ToSet(log') = ToSet(log)
      BY <1>4 DEF Rests
    <2>3. \A y \in ToSet(log) : y.key \in Keys
      BY <1>0 DEF AlertRecords
    <2> QED
      BY <2>1, <2>2, <2>3 DEF ToldInv, FirstRunInv
  <1> QED
    BY <1>1, <1>2, <1>3, <1>4, WindowStep

-----------------------------------------------------------------------------
(* What the materializers have taken *)

\* The view is not behind the alert at an offset of the log.
Shown(n) == /\ store[log[n].key] # Absent
            /\ store[log[n].key].revision >= log[n].revision

\* No group is past the end of the log, no commit is past its group, and the
\* view is not behind any alert that a group has had since it started without
\* a commit.
TakenInv ==
    \A g \in Groups :
        /\ position[g] <= Len(log) + 1
        /\ committed[g] <= position[g]
        /\ \A n \in 1 .. Len(log) :
              joined[g] <= n /\ n < position[g] => Shown(n)

\* What is shown stays shown, a row being replaced by higher revisions only,
\* and what is taken is shown.
LEMMA StepShows ==
    ASSUME TypeInv, [EndNext]_vars, NEW n \in 1 .. Len(log)
    PROVE  /\ Shown(n) => Shown(n)'
           /\ \A g \in Groups :
                 (Materialize(g) \/ DieUncommitted(g)) /\ position[g] = n
                    => Shown(n)'
  <1>0. /\ store \in [Keys -> ToSet(log) \union {Absent}]
        /\ ToSet(log) \subseteq AlertRecords
        /\ log[n].key \in Keys /\ log[n].revision \in Nat
        /\ log'[n] = log[n]
    <2>1. /\ log \in Seq(AlertRecords) /\ DOMAIN log = 1 .. Len(log)
          /\ store \in [Keys -> ToSet(log) \union {Absent}]
      BY DEF TypeInv, TypeOK
    <2>2. log[n] \in AlertRecords
      BY <2>1
    <2>3. ToSet(log) \subseteq AlertRecords
      BY <2>1 DEF ToSet
    <2> QED
      BY <2>1, <2>2, <2>3, LogGrows DEF AlertRecords
  <1>1. \A j \in Keys : store[j] # Absent => store[j].revision \in Nat
    BY <1>0 DEF AlertRecords
  <1>2. ASSUME NEW g \in Groups, Materialize(g) \/ DieUncommitted(g)
        PROVE  /\ Shown(n) => Shown(n)'
               /\ position[g] = n => Shown(n)'
    <2> DEFINE r == log[position[g]]
               j == log[n].key
    <2>1. /\ r \in AlertRecords /\ r.key \in Keys
          /\ store' = IF \/ store[r.key] = Absent
                         \/ store[r.key].revision < r.revision
                        THEN [store EXCEPT ![r.key] = r]
                        ELSE store
      BY <1>2, TakeMeans
    <2>2. r.revision \in Nat /\ r # Absent
      BY <2>1, AbsentAssumption DEF AlertRecords
    <2>3. j \in Keys
      BY <1>0
    <2>4. position[g] = n => r = log[n]
      OBVIOUS
    <2> HIDE DEF r, j
    <2>5. store[j] # Absent =>
             /\ store'[j] # Absent
             /\ store'[j].revision >= store[j].revision
             /\ store'[j].revision \in Nat
      BY <1>0, <1>1, <2>1, <2>2, <2>3
    <2>6. store'[r.key] # Absent /\ store'[r.key].revision >= r.revision
      BY <1>0, <1>1, <2>1, <2>2
    <2>7. Shown(n) => Shown(n)'
      <3>1. Shown(n) <=> /\ store[j] # Absent
                         /\ store[j].revision >= log[n].revision
        BY DEF Shown, j
      <3>2. Shown(n)' <=> /\ store'[j] # Absent
                          /\ store'[j].revision >= log[n].revision
        BY <1>0 DEF Shown, j
      <3> QED
        BY <1>0, <1>1, <2>3, <2>5, <3>1, <3>2
    <2>8. position[g] = n => Shown(n)'
      BY <1>0, <2>4, <2>6 DEF Shown
    <2> QED
      BY <2>7, <2>8
  <1>3. UNCHANGED store /\ Shown(n) => Shown(n)'
    BY <1>0 DEF Shown
  <1>4. \/ \E g \in Groups : Materialize(g) \/ DieUncommitted(g)
        \/ UNCHANGED store
    BY ViewStep DEF StartMaterializer, EndMaterializer
  <1> QED
    BY <1>2, <1>3, <1>4

\* Every step keeps it.
LEMMA StepTakes ==
    ASSUME TypeInv, TakenInv, [EndNext]_vars
    PROVE  TakenInv'
  <1>0. /\ Len(log) \in Nat /\ Len(log') \in Nat /\ Len(log) <= Len(log')
        /\ committed \in [Groups -> Nat] /\ position \in [Groups -> Nat \ {0}]
        /\ joined \in [Groups -> Nat]
    BY LogGrows DEF TypeInv, TypeOK
  <1>1. /\ committed' \in [Groups -> Nat]
        /\ position' \in [Groups -> Nat \ {0}] /\ joined' \in [Groups -> Nat]
    BY StepGroupsTyped
  \* A group that stays where it was keeps what it has.
  <1>2. ASSUME NEW g \in Groups, committed'[g] = committed[g],
               position'[g] = position[g], joined'[g] = joined[g]
        PROVE  /\ position'[g] <= Len(log') + 1
               /\ committed'[g] <= position'[g]
               /\ \A n \in 1 .. Len(log') :
                     joined'[g] <= n /\ n < position'[g] => Shown(n)'
    <2>1. position[g] <= Len(log) + 1 /\ committed[g] <= position[g]
      BY DEF TakenInv
    <2>2. ASSUME NEW n \in 1 .. Len(log'), joined[g] <= n, n < position[g]
          PROVE  Shown(n)'
      <3>1. n \in 1 .. Len(log)
        BY <1>0, <2>1, <2>2
      <3>2. Shown(n)
        BY <2>2, <3>1 DEF TakenInv
      <3> QED
        BY <3>1, <3>2, StepShows
    <2> QED
      BY <1>0, <1>2, <2>1, <2>2
  <1>3. ASSUME NEW g \in Groups, StartMaterializer(g)
        PROVE  /\ position'[g] <= Len(log') + 1
               /\ committed'[g] <= position'[g]
               /\ \A n \in 1 .. Len(log') :
                     joined'[g] <= n /\ n < position'[g] => Shown(n)'
    <2>0. committed' = committed /\ log' = log
      BY <1>3 DEF StartMaterializer, logVars
    <2>1. CASE committed[g] = 0
      <3>1. /\ \E reset \in Resets :
                  position' = [position EXCEPT ![g] = ResetPosition(reset)]
            /\ joined' = [joined EXCEPT ![g] = position'[g]]
        BY <1>3, <2>1 DEF StartMaterializer
      <3>2. /\ joined'[g] = position'[g]
            /\ position'[g] = 1 \/ position'[g] = Len(log) + 1
        BY <1>0, <3>1 DEF ResetPosition
      <3> QED
        BY <1>0, <1>1, <2>0, <2>1, <3>2
    <2>2. CASE committed[g] # 0
      <3>1. position'[g] = committed[g] /\ joined' = joined
        BY <1>0, <1>3, <2>2 DEF StartMaterializer
      <3>2. position[g] <= Len(log) + 1 /\ committed[g] <= position[g]
        BY DEF TakenInv
      <3>3. ASSUME NEW n \in 1 .. Len(log), joined[g] <= n, n < committed[g]
            PROVE  Shown(n)'
        <4>1. n < position[g]
          BY <1>0, <3>2, <3>3
        <4>2. Shown(n)
          BY <3>3, <4>1 DEF TakenInv
        <4> QED
          BY <4>2, StepShows
      <3> QED
        BY <1>0, <2>0, <3>1, <3>2, <3>3
    <2> QED
      BY <2>1, <2>2
  <1>4. ASSUME NEW g \in Groups, Materialize(g)
        PROVE  /\ position'[g] <= Len(log') + 1
               /\ committed'[g] <= position'[g]
               /\ \A n \in 1 .. Len(log') :
                     joined'[g] <= n /\ n < position'[g] => Shown(n)'
    <2>1. /\ position'[g] = position[g] + 1 /\ joined' = joined
          /\ committed'[g] = position[g] + 1 /\ log' = log
          /\ position[g] \in 1 .. Len(log)
      BY <1>0, <1>4, TakeMeans DEF Materialize
    <2>2. ASSUME NEW n \in 1 .. Len(log), joined[g] <= n, n < position[g] + 1
          PROVE  Shown(n)'
      <3>1. CASE n = position[g]
        BY <1>4, <3>1, StepShows
      <3>2. CASE n # position[g]
        <4>1. n < position[g]
          BY <1>0, <2>2, <3>2
        <4>2. Shown(n)
          BY <2>2, <4>1 DEF TakenInv
        <4> QED
          BY <4>2, StepShows
      <3> QED
        BY <3>1, <3>2
    <2> QED
      BY <1>0, <2>1, <2>2
  \* One group moves at a time.
  <1>5. ASSUME NEW g \in Groups
        PROVE  \/ StartMaterializer(g) \/ Materialize(g)
               \/ /\ committed'[g] = committed[g]
                  /\ position'[g] = position[g]
                  /\ joined'[g] = joined[g]
    <2>1. ASSUME NEW h \in Groups, h # g, StartMaterializer(h)
          PROVE  /\ committed'[g] = committed[g]
                 /\ position'[g] = position[g]
                 /\ joined'[g] = joined[g]
      BY <1>0, <2>1 DEF StartMaterializer
    <2>2. ASSUME NEW h \in Groups, h # g, Materialize(h)
          PROVE  /\ committed'[g] = committed[g]
                 /\ position'[g] = position[g]
                 /\ joined'[g] = joined[g]
      BY <1>0, <2>2 DEF Materialize
    <2> QED
      BY <2>1, <2>2, ViewStep DEF DieUncommitted, EndMaterializer
  <1> QED
    BY <1>2, <1>3, <1>4, <1>5 DEF TakenInv

-----------------------------------------------------------------------------
(* What the view says *)

\* The rows of the view are alerts, and once a group has read through, none is
\* behind an alert of its key.
LEMMA RowsAreAlerts ==
    ASSUME TypeInv
    PROVE  /\ ToSet(log) \subseteq AlertRecords
           /\ \A k \in Keys : store[k] # Absent =>
                 store[k] \in ToSet(log) /\ store[k].key = k
           /\ TakenInv /\ ReadThrough =>
                 \A y \in ToSet(log) : /\ store[y.key] # Absent
                                       /\ store[y.key].revision >= y.revision
  <1>1. /\ log \in Seq(AlertRecords) /\ position \in [Groups -> Nat \ {0}]
        /\ Len(log) \in Nat /\ DOMAIN log = 1 .. Len(log)
        /\ store \in [Keys -> ToSet(log) \union {Absent}]
        /\ \A k \in Keys : store[k] # Absent => store[k].key = k
    BY DEF TypeInv, TypeOK
  <1>2. ToSet(log) \subseteq AlertRecords
    BY <1>1 DEF ToSet
  <1>3. ASSUME TakenInv, ReadThrough, NEW y \in ToSet(log)
        PROVE  store[y.key] # Absent /\ store[y.key].revision >= y.revision
    <2>1. PICK n \in 1 .. Len(log) : y = log[n]
      BY <1>1, <1>3 DEF ToSet
    <2>2. PICK g \in Groups : joined[g] = 1 /\ position[g] > Len(log)
      BY <1>3 DEF ReadThrough
    <2>3. joined[g] <= n /\ n < position[g]
      BY <1>1, <2>2
    <2>4. Shown(n)
      BY <1>3, <2>3 DEF TakenInv
    <2> QED
      BY <2>1, <2>4 DEF Shown
  <1> QED
    BY <1>1, <1>2, <1>3

\* A settled window over a threshold has a row over it.
LEMMA BreachShows ==
    ASSUME TypeInv, LogInv, ToldInv, TakenInv
    PROVE  BreachIsNotSilent
  <1> SUFFICES ASSUME NEW k \in Keys, Settled(k), Breach(Entry(k))
               PROVE  store[k] # Absent /\ Breach(store[k])
    BY DEF BreachIsNotSilent
  <1>1. PICK y \in ToSet(log) : y.key = k
    BY DEF Settled, ToldInv
  <1>2. store[k] # Absent
    BY <1>1, RowsAreAlerts DEF Settled
  <1> QED
    BY <1>2, RowsAreAlerts DEF LogInv

\* In the first run that row is what is counted.
LEMMA FirstRunShows ==
    ASSUME TypeInv, FirstRunInv, TakenInv
    PROVE  FirstRunSettles
  <1> SUFFICES ASSUME runs = 1, NEW k \in Keys, Settled(k), Breach(Entry(k))
               PROVE  /\ store[k] # Absent
                      /\ store[k].count = Entry(k).count
                      /\ store[k].total = Entry(k).total
    BY DEF FirstRunSettles
  <1>1. PICK y \in ToSet(log) :
           /\ y.key = k
           /\ y.count = Entry(k).count /\ y.total = Entry(k).total
           /\ \A z \in ToSet(log) : z.key = k => z.revision <= y.revision
    BY DEF FirstRunInv, Settled
  <1>2. store[k] # Absent /\ store[k].revision >= y.revision
    BY <1>1, RowsAreAlerts DEF Settled
  <1>3. store[k] \in ToSet(log) /\ store[k].key = k
    BY <1>2, RowsAreAlerts
  <1>4. store[k].revision \in Nat /\ y.revision \in Nat
    BY <1>3, RowsAreAlerts DEF AlertRecords
  <1>5. store[k].revision = y.revision
    BY <1>1, <1>2, <1>3, <1>4
  <1>6. store[k] = y
    BY <1>1, <1>3, <1>5 DEF FirstRunInv
  <1> QED
    BY <1>1, <1>2, <1>6

\* What the rule makes of the events published in a window.
LEMMA PartialTotal ==
    ASSUME NEW S \in SUBSET Events, IsFiniteSet(S)
    PROVE  PartialOf(S).total = Total(Amounts, S)
  <1> DEFINE Tally(f) == [s \in SUBSET S |->
                IF s = {} THEN [count |-> 0, total |-> 0]
                ELSE [count |-> f[s \ {CHOOSE x \in s : TRUE}].count + 1,
                      total |-> f[s \ {CHOOSE x \in s : TRUE}].total
                                  + Amounts[CHOOSE x \in s : TRUE]]]
             Step(f) == [s \in SUBSET S |->
                IF s = {} THEN CreateAccumulator
                ELSE AddInput(f[s \ {CHOOSE x \in s : TRUE}],
                              (CHOOSE x \in s : TRUE).amount)]
             h == CHOOSE f : f = Step(f)
  <1>1. \A s \in SUBSET S : s # {} => (CHOOSE x \in s : TRUE) \in Events
    OBVIOUS
  <1>2. \A f : Step(f) = Tally(f)
    BY <1>1, AmountsTyped DEF CreateAccumulator, AddInput
  <1>3. /\ \E f : f = Tally(f)
        /\ \A f : f = Tally(f) => f[S] = [count |-> Cardinality(S),
                                          total |-> Total(Amounts, S)]
    BY AmountsTyped, TallyFold
  <1>4. PartialOf(S) = h[S]
    BY DEF PartialOf, FoldSet, MapThenFoldSet
  <1> HIDE DEF Tally, Step
  <1>5. h = Step(h)
    BY <1>2, <1>3
  <1>6. PartialOf(S) = [count |-> Cardinality(S), total |-> Total(Amounts, S)]
    BY <1>2, <1>3, <1>4, <1>5
  <1> QED
    BY <1>6

\* No row says more than the topic has.
LEMMA RowsAreModest ==
    ASSUME TypeInv, LogInv
    PROVE  NeverOverstated
  <1> SUFFICES ASSUME NEW k \in Keys, store[k] # Absent
               PROVE  /\ store[k].count <= Cardinality(Ids(PublishedIn(k)))
                      /\ store[k].total <= PartialOf(PublishedIn(k)).total
    BY DEF NeverOverstated
  <1>1. store[k] \in ToSet(log) /\ store[k].key = k
    BY RowsAreAlerts
  <1>2. /\ store[k].count <= Cardinality(Ids(PublishedIn(k)))
        /\ store[k].total <= Total(Amounts, PublishedIn(k))
    BY <1>1 DEF LogInv
  <1>3. IsFiniteSet(PublishedIn(k)) /\ PublishedIn(k) \in SUBSET Events
    BY RecordsFinite DEF TypeInv, TypeOK, PublishedIn
  <1> QED
    BY <1>2, <1>3, PartialTotal

-----------------------------------------------------------------------------
(* Theorems *)

\* The inductive invariant: types and the ledger, what the alerts of the log
\* say, what panes have told, and what the materializer has taken.
IInv == TypeInv /\ LogInv /\ ToldInv /\ FirstRunInv /\ TakenInv

LEMMA InvStarts == EndInit => IInv
  <1> SUFFICES ASSUME EndInit
               PROVE  IInv
    OBVIOUS
  <1>1. /\ topic = << >> /\ log = << >> /\ next = 1 /\ resumed = 1
        /\ running = TRUE /\ runs = 1 /\ rewrites = 0 /\ reading = {}
        /\ committed = [g \in Groups |-> 0]
        /\ position = [g \in Groups |-> 1]
        /\ joined = [g \in Groups |-> 0]
        /\ store = [k \in Keys |-> Absent]
        /\ counted = [k \in Keys |-> {}]
        /\ total = [k \in Keys |-> 0]
        /\ pane = [k \in Keys |-> NewPane]
        /\ alerts = [k \in Keys |-> << >>]
    BY DEF EndInit, Init, View!EmptyView
  <1>2. ToSet(log) = {}
    BY <1>1 DEF ToSet
  <1>3. TypeOK
    <2>1. NewPane \in PaneStates /\ << >> \in Seq(Revisions)
      BY DEF NewPane, PaneStates
    <2>2. /\ pane \in [Keys -> PaneStates]
          /\ alerts \in [Keys -> Seq(Revisions)]
      BY <1>1, <2>1
    <2>3. /\ committed \in [Groups -> Nat] /\ joined \in [Groups -> Nat]
          /\ position \in [Groups -> Nat \ {0}] /\ reading \subseteq Groups
      BY <1>1
    <2> QED
      BY <1>1, <1>2, <2>2, <2>3, BoundAssumption DEF TypeOK
  <1>4. TypeInv
    BY <1>1, <1>3, NothingCounted DEF TypeInv
  <1>5. \A k \in Keys : Entry(k).count = 0
    BY <1>1, NothingCounted DEF Entry
  <1> QED
    BY <1>1, <1>2, <1>4, <1>5
       DEF IInv, LogInv, ToldInv, FirstRunInv, TakenInv, Breach

THEOREM InvHolds == EndSpec => []IInv
  <1>1. IInv /\ [EndNext]_vars => IInv'
    BY StepTyped, StepSays, StepTells, StepTakes DEF IInv
  <1> QED
    BY InvStarts, <1>1, PTL DEF EndSpec

\* Every variable of the composition keeps its type: the source is at most
\* behind the last record, and the view has rows of the alert topic only.
THEOREM TypeCorrect == EndSpec => []TypeOK
  <1>1. IInv => TypeOK
    BY DEF IInv, TypeInv
  <1> QED
    BY <1>1, InvHolds, PTL

\* While the pipeline has run once, and once a group that started at the first
\* offset has read everything, the row of a window over a threshold whose panes
\* have no news is what was counted in it, whatever was published, written or
\* read twice.
THEOREM FirstRunIsExact == EndSpec => []FirstRunSettles
  <1>1. IInv => FirstRunSettles
    BY FirstRunShows DEF IInv
  <1> QED
    BY <1>1, InvHolds, PTL

\* However often main is run again, and from whatever offset, no row ever
\* says more than was published: no transaction is counted twice.
THEOREM RowsNeverOverstate == EndSpec => []NeverOverstated
  <1>1. IInv => NeverOverstated
    BY RowsAreModest DEF IInv
  <1> QED
    BY <1>1, InvHolds, PTL

\* In any run, once a group that started at the first offset has read
\* everything, a window over a threshold whose panes have no news has a row
\* that is over one.
THEOREM BreachIsShown == EndSpec => []BreachIsNotSilent
  <1>1. IInv => BreachIsNotSilent
    BY BreachShows DEF IInv
  <1> QED
    BY <1>1, InvHolds, PTL
=============================================================================
