------------------------- MODULE SkewAnalysisProofs -------------------------
(* Theorems about SkewAnalysis, for every set of options, number of          *)
(* partitions of the topic, room in the client's queue, hash of the program  *)
(* and partitioner of the client, with their proofs.                         *)
EXTENDS SkewAnalysis, KafkaClientProofs, FiniteSetTheorems

-----------------------------------------------------------------------------
(* Types *)

\* The scenarios are built where main goes on.
TypeInv ==
    /\ TypeOK
    /\ status \notin {"parsed", "raised"} => Buildable

LEMMA ScenariosAre ==
    /\ Len(Scenarios) = 2 /\ DOMAIN Scenarios = {1, 2}
    /\ Scenarios[1] = "balanced" /\ Scenarios[2] = "hot_key"
    /\ Names = {"balanced", "hot_key"}
  <1>1. /\ Len(Scenarios) = 2 /\ DOMAIN Scenarios = 1 .. 2
        /\ Scenarios[1] = "balanced" /\ Scenarios[2] = "hot_key"
    BY DEF Scenarios
  <1>2. 1 .. 2 = {1, 2}
    OBVIOUS
  <1> QED
    BY <1>1, <1>2 DEF Names, ToSet

\* What parse_args has let through.
LEMMA ArgsTyped ==
    TypeOK => /\ args.mode \in {"simulate", "publish"}
              /\ args.partitions \in Nat \ {0}
              /\ args.events \in Nat \ {0}
  BY OptionAssumption DEF TypeOK, Options

\* Every record of the scenarios has a key and, for it, a partition.
LEMMA MessageTyped ==
    ASSUME TypeOK, Buildable, NEW name \in Names, NEW i \in Indices
    PROVE  Message(name, i) \in Messages
  <1>1. args \in Invocations /\ args.events \in Nat \ {0}
    BY ArgsTyped DEF TypeOK
  <1>2. /\ i \in 0 .. args.events - 1
        /\ HotEventCount \in 1 .. args.events - 1
    BY DEF Indices, Buildable
  <1>3. \E kind \in {"cust-balanced", "cust-hot", "cust-cold"},
           n \in 0 .. args.events : CustomerOf(name, i) = <<kind, n>>
    <2>1. CASE name = "balanced"
      BY <1>1, <1>2, <2>1 DEF CustomerOf
    <2>2. CASE name = "hot_key" /\ i < HotEventCount
      <3>1. CustomerOf(name, i) = <<"cust-hot", 1>> /\ 1 \in 0 .. args.events
        BY <1>1, <2>2 DEF CustomerOf, HotCustomer
      <3> QED
        BY <3>1
    <2>3. CASE name = "hot_key" /\ ~ (i < HotEventCount)
      <3>1. /\ CustomerOf(name, i) = <<"cust-cold", i - HotEventCount>>
            /\ i - HotEventCount \in 0 .. args.events
        BY <1>1, <1>2, <2>3 DEF CustomerOf
      <3> QED
        BY <3>1
    <2> QED
      BY <2>1, <2>2, <2>3, ScenariosAre
  <1>4. CustomerOf(name, i) \in Customers
    BY <1>1, <1>3 DEF Customers
  <1>5. PublishedTo(name, i) \in 0 .. TopicPartitions - 1
    BY <1>1, <1>3, PartitionerAssumption DEF PublishedTo
  <1> QED
    BY <1>2, <1>4, <1>5 DEF Message, Messages

-----------------------------------------------------------------------------
(* Records *)

\* The scenario is one that publish_scenarios has left, or the record is one
\* it has passed.
Behind(m) ==
    \/ \E s \in 1 .. scenario - 1 : m.name = Scenarios[s]
    \/ m.name = Scenarios[scenario] /\ m.index < index

\* What is pending or written is a record of the scenarios, made before the
\* next one.
OwnInv ==
    /\ \A m \in Pending \union Written :
          /\ m.name \in Names /\ m.index \in Indices
          /\ m = Message(m.name, m.index)
          /\ status = "publishing" => Behind(m)
    /\ status = "parsed" => Pending \union Written = {}

\* The next record of publish_scenarios, while it publishes.
NextRecord == Message(Scenarios[scenario], index)

\* A record is produced once.
LEMMA RecordIsNew ==
    ASSUME TypeInv, OwnInv, status = "publishing"
    PROVE  /\ NextRecord \in Messages
           /\ NextRecord \notin Pending \union Written
  <1>1. /\ scenario \in {1, 2} /\ index \in Indices /\ index \in Nat
        /\ Scenarios[scenario] \in Names
    BY ScenariosAre, ArgsTyped DEF TypeInv, TypeOK, Indices
  <1>2. NextRecord \in Messages
    BY <1>1, MessageTyped DEF NextRecord, TypeInv
  <1>3. NextRecord.name = Scenarios[scenario] /\ NextRecord.index = index
    BY DEF NextRecord, Message
  <1>4. ~ Behind(NextRecord)
    BY <1>1, <1>3, ScenariosAre DEF Behind
  <1> QED
    BY <1>2, <1>4 DEF OwnInv

\* No step changes the options.
LEMMA StepArgs == [Next]_vars => args' = args
  BY DEF Next, Build, Produce, AwaitRoom, FlushServes, FlushSucceeds,
         FlushFails, Summarize, vars, programVars

\* Of the records there are, a step produces one or moves one at most.
LEMMA StepMoves ==
    ASSUME TypeInv, ClientInv, OwnInv, [Next]_vars
    PROVE  /\ ClientTyped(Messages)' /\ ClientInv'
           /\ Written \subseteq Written'
           /\ \/ /\ Produce
                 /\ (Pending \union Written)'
                       = (Pending \union Written) \union {NextRecord}
              \/ (Pending \union Written)' = Pending \union Written
  <1>0. ClientTyped(Messages)
    BY DEF TypeInv, TypeOK
  <1>1. CASE Produce
    <2>1. /\ NextRecord \in Messages /\ EnqueueAndPoll(NextRecord)
          /\ NextRecord \notin Queued /\ NextRecord \notin adrift
      BY <1>1, RecordIsNew DEF Produce, Pending, NextRecord
    <2>2. /\ ClientTyped(Messages)' /\ ClientInv'
          /\ Queued' = Queued \union {NextRecord}
          /\ topic' = topic /\ adrift' = adrift
      BY <1>0, <2>1, ProduceQueues
    <2> QED
      BY <1>1, <2>2 DEF Pending, Written
  <1>2. CASE \/ UNCHANGED clientVars
             \/ ServeReports
             \/ CloseClient
             \/ ClientStep
    BY <1>0, <1>2, ClientGoesOn
  <1> QED
    BY <1>1, <1>2
       DEF Next, Build, AwaitRoom, FlushServes, FlushSucceeds, FlushFails,
           Summarize, vars

\* Where publish_scenarios goes with a record.
LEMMA StepOfLoop ==
    ASSUME TypeInv, [Next]_vars, status' = "publishing"
    PROVE  \/ status = "parsed" /\ ~ Produce
           \/ /\ status = "publishing" /\ ~ Produce
              /\ UNCHANGED <<scenario, index>>
           \/ /\ status = "publishing" /\ Produce
              /\ \/ index' = index + 1 /\ scenario' = scenario
                 \/ index' = 0 /\ scenario' = scenario + 1
  BY DEF Next, Build, Produce, AwaitRoom, FlushServes, FlushSucceeds,
         FlushFails, Summarize, vars, programVars

\* Every step keeps the records those of the scenarios.
LEMMA StepOwn ==
    ASSUME TypeInv, ClientInv, OwnInv, [Next]_vars
    PROVE  OwnInv'
  <1>0. /\ args' = args /\ scenario \in {1, 2} /\ index \in Nat
        /\ Scenarios[scenario] \in Names /\ index \in Indices
    BY ScenariosAre, StepArgs, ArgsTyped DEF TypeInv, TypeOK, Indices
  <1>1. /\ Indices' = Indices
        /\ \A name, i : Message(name, i)' = Message(name, i)
    BY <1>0 DEF Indices, Message, CustomerOf, HotEventCount, PublishedTo
  <1>2. /\ NextRecord.name = Scenarios[scenario] /\ NextRecord.index = index
        /\ NextRecord = Message(NextRecord.name, NextRecord.index)
    BY DEF NextRecord, Message
  <1>3. ASSUME NEW m \in (Pending \union Written)'
        PROVE  /\ m.name \in Names /\ m.index \in Indices
               /\ m = Message(m.name, m.index)
               /\ \/ m \in Pending \union Written
                  \/ Produce /\ m = NextRecord
    BY <1>0, <1>2, <1>3, StepMoves DEF OwnInv
  <1>4. ASSUME NEW m \in (Pending \union Written)', status' = "publishing"
        PROVE  Behind(m)'
    <2>1. CASE status = "parsed" /\ ~ Produce
      BY <1>3, <1>4, <2>1 DEF OwnInv
    <2>2. CASE /\ status = "publishing" /\ ~ Produce
               /\ UNCHANGED <<scenario, index>>
      BY <1>3, <1>4, <2>2 DEF OwnInv, Behind
    <2>3. CASE /\ status = "publishing" /\ Produce
               /\ \/ index' = index + 1 /\ scenario' = scenario
                  \/ index' = 0 /\ scenario' = scenario + 1
      <3>1. \/ \E s \in 1 .. scenario - 1 : m.name = Scenarios[s]
            \/ m.name = Scenarios[scenario] /\ m.index <= index
        <4>1. CASE m \in Pending \union Written
          <5>1. m.index \in Nat
            BY <1>3, <1>4, ArgsTyped DEF Indices, TypeInv
          <5> QED
            BY <1>0, <2>3, <4>1, <5>1 DEF OwnInv, Behind
        <4>2. CASE m = NextRecord
          BY <1>0, <1>2, <4>2
        <4> QED
          BY <1>3, <1>4, <4>1, <4>2
      <3>2. m.index \in Nat
        BY <1>3, <1>4, ArgsTyped DEF Indices, TypeInv
      <3>3. CASE index' = index + 1 /\ scenario' = scenario
        BY <1>0, <3>1, <3>2, <3>3 DEF Behind
      <3>4. CASE index' = 0 /\ scenario' = scenario + 1
        <4>1. \E s \in 1 .. scenario : m.name = Scenarios[s]
          BY <1>0, <3>1
        <4>2. 1 .. scenario = 1 .. scenario' - 1
          BY <1>0, <3>4
        <4> QED
          BY <4>1, <4>2 DEF Behind
      <3> QED
        BY <2>3, <3>3, <3>4
    <2> QED
      BY <1>4, <2>1, <2>2, <2>3, StepOfLoop
  <1>5. status' = "parsed" => (Pending \union Written)' = {}
    <2>1. status' = "parsed" => status = "parsed" /\ ~ Produce
      BY DEF Next, Build, Produce, AwaitRoom, FlushServes, FlushSucceeds,
             FlushFails, Summarize, vars, programVars
    <2> QED
      BY <2>1, StepMoves DEF OwnInv
  <1>6. \A m \in (Pending \union Written)' :
           /\ m.name \in Names /\ (m.index \in Indices)'
           /\ m = Message(m.name, m.index)'
           /\ status' = "publishing" => Behind(m)'
    BY <1>1, <1>3, <1>4
  <1> QED
    BY <1>5, <1>6 DEF OwnInv, Names

\* The messages reported as delivered are records in the topic.
LEMMA ConfirmedAreWritten ==
    ClientInv /\ OwnInv =>
        \A m \in Confirmed : m \in Written /\ m = Message(m.name, m.index)
  BY DEF Confirmed, ClientInv, OwnInv

\* Every step keeps the types.
LEMMA StepTyped ==
    ASSUME TypeInv, ClientInv, OwnInv, [Next]_vars
    PROVE  TypeInv'
  <1>0. /\ args' = args /\ args \in Invocations
        /\ args.mode \in {"simulate", "publish"} /\ args.events \in Nat \ {0}
        /\ scenario \in {1, 2} /\ index \in Nat /\ index \in Indices
        /\ Len(Scenarios) = 2
    BY StepArgs, ScenariosAre, ArgsTyped DEF TypeInv, TypeOK, Indices
  <1>1. Indices' = Indices /\ Buildable' = Buildable
    BY <1>0 DEF Indices, Buildable, HotEventCount
  <1>2. ClientTyped(Messages)'
    BY StepMoves
  <1>3. /\ status' \in {"parsed", "publishing", "flushing", "summarizing"}
                          \union Ended
        /\ status' \notin {"parsed", "raised"} => Buildable
    <2>1. CASE Build
      BY <1>0, <2>1 DEF Build, Ended
    <2>2. CASE FlushSucceeds
      BY <2>2 DEF FlushSucceeds, Ended, TypeInv
    <2>3. CASE Summarize
      BY <2>3 DEF Summarize, Ended, TypeInv
    <2>4. CASE Produce \/ AwaitRoom \/ FlushServes \/ FlushFails
      BY <2>4 DEF Produce, AwaitRoom, FlushServes, FlushFails, Ended, TypeInv,
                  TypeOK
    <2>5. CASE UNCHANGED programVars
      BY <2>5 DEF programVars, TypeInv, TypeOK
    <2> QED
      BY <2>1, <2>2, <2>3, <2>4, <2>5 DEF Next, vars
  <1>4. scenario' \in {1, 2} /\ index' \in Indices
    <2>1. CASE Produce
      <3>1. CASE ~ LastRecord /\ index' = index + 1 /\ scenario' = scenario
        BY <1>0, <3>1 DEF LastRecord, Indices
      <3>2. CASE scenario < Len(Scenarios) /\ index' = 0
                 /\ scenario' = scenario + 1
        BY <1>0, <3>2 DEF Indices
      <3>3. CASE UNCHANGED <<scenario, index>>
        BY <1>0, <3>3
      <3> QED
        BY <2>1, <3>1, <3>2, <3>3 DEF Produce
    <2>2. UNCHANGED <<scenario, index>> \/ Produce
      BY DEF Next, Build, AwaitRoom, FlushServes, FlushSucceeds, FlushFails,
             Summarize, vars, programVars
    <2> QED
      BY <1>0, <2>1, <2>2
  <1>5. /\ observed' \in [Names -> [Indices -> {None}
                                      \union 0 .. TopicPartitions - 1]]
        /\ failed' \in BOOLEAN
    <2>1. CASE UNCHANGED <<observed, failed>>
      BY <2>1 DEF TypeInv, TypeOK
    <2>2. CASE Callbacks
      <3>1. \A m \in Confirmed : m.partition \in 0 .. TopicPartitions - 1
        <4>1. Written \subseteq Messages
          BY DEF TypeInv, TypeOK, ClientTyped, Written, ToSet
        <4> QED
          BY <4>1, ConfirmedAreWritten DEF Messages
      <3>2. ASSUME NEW name \in Names, NEW i \in Indices
            PROVE  (IF \E m \in Confirmed : Slot(m) = <<name, i>>
                      THEN (CHOOSE m \in Confirmed :
                               Slot(m) = <<name, i>>).partition
                      ELSE observed[name][i])
                     \in {None} \union 0 .. TopicPartitions - 1
        BY <3>1 DEF TypeInv, TypeOK
      <3>3. failed' \in BOOLEAN
        BY <2>2 DEF Callbacks, TypeInv, TypeOK
      <3> QED
        BY <2>2, <3>2, <3>3 DEF Callbacks
    <2> QED
      BY <2>1, <2>2 DEF Next, Build, Produce, AwaitRoom, FlushServes,
                        FlushSucceeds, FlushFails, Summarize, vars, programVars
  <1> QED
    BY <1>0, <1>1, <1>2, <1>3, <1>4, <1>5, ScenariosAre DEF TypeInv, TypeOK

-----------------------------------------------------------------------------
(* Observations *)

\* A partition noted for a record is the one it was written to, and no record
\* of a publication lacks one once publish_scenarios has returned.
ObservedInv ==
    /\ \A name \in Names, i \in Indices :
          observed[name][i] # None =>
              /\ Message(name, i) \in Written
              /\ observed[name][i] = PublishedTo(name, i)
    /\ (status \in {"summarizing", "reported"} /\ args.mode = "publish") =>
          \A name \in Names, i \in Indices : observed[name][i] # None

\* The callbacks note what is true.
LEMMA CallbacksNote ==
    ASSUME TypeInv, ClientInv, OwnInv, ObservedInv, Callbacks,
           NEW name \in Names, NEW i \in Indices, observed'[name][i] # None
    PROVE  /\ Message(name, i) \in Written
           /\ observed'[name][i] = PublishedTo(name, i)
  <1>1. observed'[name][i] =
           IF \E m \in Confirmed : Slot(m) = <<name, i>>
             THEN (CHOOSE m \in Confirmed : Slot(m) = <<name, i>>).partition
             ELSE observed[name][i]
    BY DEF Callbacks
  <1>2. CASE \E m \in Confirmed : Slot(m) = <<name, i>>
    <2>1. PICK m \in Confirmed :
             /\ Slot(m) = <<name, i>>
             /\ observed'[name][i] = m.partition
      BY <1>1, <1>2
    <2>2. m \in Written /\ m = Message(name, i)
      BY <2>1, ConfirmedAreWritten DEF Slot
    <2> QED
      BY <2>1, <2>2 DEF Message
  <1>3. CASE ~ \E m \in Confirmed : Slot(m) = <<name, i>>
    BY <1>1, <1>3 DEF ObservedInv
  <1> QED
    BY <1>2, <1>3

\* Every step keeps the observations true.
LEMMA StepObserved ==
    ASSUME TypeInv, ClientInv, OwnInv, ObservedInv, [Next]_vars
    PROVE  ObservedInv'
  <1>0. args' = args
    BY StepArgs
  <1>1. /\ Indices' = Indices
        /\ \A name, i : Message(name, i)' = Message(name, i)
        /\ \A name, i : PublishedTo(name, i)' = PublishedTo(name, i)
    BY <1>0 DEF Indices, Message, CustomerOf, HotEventCount, PublishedTo
  <1>2. Written \subseteq Written'
    BY StepMoves
  <1>3. ASSUME NEW name \in Names, NEW i \in Indices, observed'[name][i] # None
        PROVE  /\ Message(name, i) \in Written
               /\ observed'[name][i] = PublishedTo(name, i)
    <2>1. CASE UNCHANGED observed
      BY <1>3, <2>1 DEF ObservedInv
    <2>2. CASE Callbacks
      BY <1>3, <2>2, CallbacksNote
    <2> QED
      BY <2>1, <2>2 DEF Next, Build, Produce, AwaitRoom, FlushServes,
                        FlushSucceeds, FlushFails, Summarize, vars, programVars
  <1>4. ASSUME status' \in {"summarizing", "reported"}, args.mode = "publish"
        PROVE  \A name \in Names, i \in Indices : observed'[name][i] # None
    <2>1. CASE FlushSucceeds
      BY <1>4, <2>1 DEF FlushSucceeds
    <2>2. CASE Summarize
      BY <1>4, <2>2 DEF Summarize, ObservedInv
    <2>3. CASE UNCHANGED programVars
      BY <1>4, <2>3 DEF programVars, ObservedInv
    <2>4. ~ Build /\ ~ Produce /\ ~ AwaitRoom /\ ~ FlushServes /\ ~ FlushFails
      BY <1>4 DEF Build, Produce, AwaitRoom, FlushServes, FlushFails
    <2> QED
      BY <2>1, <2>2, <2>3, <2>4 DEF Next, vars
  <1> QED
    BY <1>0, <1>1, <1>2, <1>3, <1>4 DEF ObservedInv

\* A record that was noted is in the topic once, in the partition noted.
LEMMA ObservedSays ==
    ASSUME TypeInv, ClientInv, OwnInv, ObservedInv
    PROVE  ObservationsAreTrue
  <1> SUFFICES ASSUME NEW name \in Names, NEW i \in Indices,
                      observed[name][i] # None
               PROVE  /\ Cardinality(InTopic(name, i)) = 1
                      /\ \A n \in InTopic(name, i) :
                            topic[n].partition = observed[name][i]
    BY DEF ObservationsAreTrue
  <1>1. PICK p \in DOMAIN topic : topic[p] = Message(name, i)
    BY DEF ObservedInv, Written, ToSet
  <1>2. ASSUME NEW q \in InTopic(name, i)
        PROVE  q = p
    <2>1. /\ q \in DOMAIN topic /\ topic[q] \in Written
          /\ topic[q].name = name /\ topic[q].index = i
      BY <1>2 DEF InTopic, Written, ToSet
    <2>2. topic[q] = Message(name, i)
      BY <2>1 DEF OwnInv
    <2> QED
      BY <1>1, <2>1, <2>2 DEF ClientInv, IsInjective
  <1>3. InTopic(name, i) = {p}
    BY <1>1, <1>2 DEF InTopic, Message
  <1>4. topic[p].partition = observed[name][i]
    BY <1>1 DEF ObservedInv, Message
  <1> QED
    BY <1>3, <1>4, FS_Singleton

-----------------------------------------------------------------------------
(* The report *)

\* What is reported is in range: main checked it, and nothing is observed after.
RangeInv == status = "reported" => \A name \in Names : Summarizable(name)

\* Every step keeps the range.
LEMMA StepRange ==
    ASSUME TypeInv, RangeInv, [Next]_vars
    PROVE  RangeInv'
  <1> SUFFICES ASSUME status' = "reported"
               PROVE  \A name \in Names : Summarizable(name)'
    BY DEF RangeInv, Names
  <1>1. ASSUME args' = args, observed' = observed
        PROVE  \A name : Summarizable(name)' = Summarizable(name)
    BY <1>1 DEF Summarizable, Assignments, Indices, PartitionRange, CustomerOf,
                HotEventCount
  <1>2. CASE Summarize
    BY <1>1, <1>2 DEF Summarize
  <1>3. CASE UNCHANGED programVars
    BY <1>1, <1>3 DEF programVars, RangeInv
  <1>4. /\ ~ Build /\ ~ Produce /\ ~ AwaitRoom
        /\ ~ FlushServes /\ ~ FlushSucceeds /\ ~ FlushFails
    <2>1. ~ Build
      BY ArgsTyped DEF Build, TypeInv
    <2> QED
      BY <2>1 DEF Produce, AwaitRoom, FlushServes, FlushSucceeds, FlushFails
  <1> QED
    BY <1>2, <1>3, <1>4 DEF Next, vars

\* A report has a partition in range for every record, the same for records of
\* one key; the records of a partition are finitely many.
LEMMA ReportedParts ==
    ASSUME TypeInv, ObservedInv, RangeInv, status = "reported",
           NEW name \in Names
    PROVE  /\ IsFiniteSet(PartitionRange) /\ IsFiniteSet(Indices)
           /\ Cardinality(Indices) = args.events
           /\ \A i \in Indices : Assignments(name)[i] \in PartitionRange
           /\ \A i, j \in Indices :
                 CustomerOf(name, i) = CustomerOf(name, j)
                    => Assignments(name)[i] = Assignments(name)[j]
           /\ \A p : /\ IsFiniteSet(EventsIn(name, p))
                     /\ EventCount(name, p) \in Nat
                     /\ EventCount(name, p) <= args.events
  <1>0. /\ args.events \in Nat \ {0} /\ args.partitions \in Nat \ {0}
        /\ args.mode \in {"simulate", "publish"}
    BY ArgsTyped DEF TypeInv
  <1>1. /\ IsFiniteSet(PartitionRange) /\ IsFiniteSet(Indices)
        /\ Cardinality(Indices) = args.events
    <2>1. 0 \in Int /\ args.events - 1 \in Int /\ args.partitions - 1 \in Int
      BY <1>0
    <2>2. /\ IsFiniteSet(0 .. args.events - 1)
          /\ Cardinality(0 .. args.events - 1)
               = IF 0 > args.events - 1 THEN 0 ELSE args.events - 1 - 0 + 1
          /\ IsFiniteSet(0 .. args.partitions - 1)
      BY <2>1, FS_Interval
    <2>3. ~ (0 > args.events - 1) /\ args.events - 1 - 0 + 1 = args.events
      BY <1>0
    <2> QED
      BY <2>2, <2>3 DEF PartitionRange, Indices
  <1>2. \A i \in Indices : Assignments(name)[i] \in PartitionRange
    BY DEF RangeInv, Summarizable
  <1>3. ASSUME NEW i \in Indices, NEW j \in Indices,
               CustomerOf(name, i) = CustomerOf(name, j)
        PROVE  Assignments(name)[i] = Assignments(name)[j]
    <2>1. CASE args.mode = "publish"
      BY <1>3, <2>1 DEF ObservedInv, Assignments, PublishedTo
    <2>2. CASE args.mode = "simulate"
      BY <1>3, <2>2 DEF Assignments
    <2> QED
      BY <1>0, <2>1, <2>2
  <1>4. ASSUME NEW p
        PROVE  /\ IsFiniteSet(EventsIn(name, p))
               /\ EventCount(name, p) \in Nat
               /\ EventCount(name, p) <= args.events
    <2>1. EventsIn(name, p) \in SUBSET Indices
      BY DEF EventsIn
    <2> QED
      BY <1>1, <2>1, FS_Subset, FS_CardinalityType DEF EventCount
  <1> QED
    BY <1>1, <1>2, <1>3, <1>4

\* The event counts of the partitions add up to the events of the scenario.
LEMMA EventCountsAdd ==
    ASSUME TypeInv, ObservedInv, RangeInv, status = "reported",
           NEW name \in Names
    PROVE  MapThenSumSet(LAMBDA p : EventCount(name, p), PartitionRange)
             = args.events
  <1> DEFINE R == PartitionRange
             A == [p \in R |-> EventsIn(name, p)]
             w == [p \in R |-> EventCount(name, p)]
             Step(f) == [s \in SUBSET R |->
                           IF s = {} THEN 0
                           ELSE EventCount(name, CHOOSE x \in s : TRUE)
                                  + f[s \ {CHOOSE x \in s : TRUE}]]
             h == CHOOSE f : f = Step(f)
  <1>1. /\ IsFiniteSet(R) /\ \A p \in R : w[p] \in Nat
        /\ \A p \in R : IsFiniteSet(A[p]) /\ w[p] = Cardinality(A[p])
    BY ReportedParts DEF EventCount
  <1>2. \A p, q \in R : p # q => A[p] \intersect A[q] = {}
    BY DEF EventsIn
  <1>3. UNION {A[p] : p \in R} = Indices
    BY ReportedParts DEF EventsIn
  <1>4. Total(w, R) = args.events
    <2>1. Cardinality(Indices) = args.events
      BY ReportedParts
    <2> HIDE DEF A, w, R
    <2>2. Total(w, R) = Cardinality(UNION {A[p] : p \in R})
      BY <1>1, <1>2, PartsAdd
    <2> QED
      BY <1>3, <2>1, <2>2
  <1>5. \A f : Step(f) = [s \in SUBSET R |->
                            IF s = {} THEN 0
                            ELSE w[CHOOSE x \in s : TRUE]
                                   + f[s \ {CHOOSE x \in s : TRUE}]]
    OBVIOUS
  <1>6. /\ \E f : f = Step(f)
        /\ \A f : f = Step(f) => f[R] = Total(w, R)
    <2>1. /\ \E f : f = [s \in SUBSET R |->
                            IF s = {} THEN 0
                            ELSE w[CHOOSE x \in s : TRUE]
                                   + f[s \ {CHOOSE x \in s : TRUE}]]
          /\ \A f : f = [s \in SUBSET R |->
                            IF s = {} THEN 0
                            ELSE w[CHOOSE x \in s : TRUE]
                                   + f[s \ {CHOOSE x \in s : TRUE}]]
                => f[R] = Total(w, R)
      <3> HIDE DEF w, R
      <3> QED
        BY <1>1, SumFold
    <2> HIDE DEF Step, w, R
    <2> QED
      BY <1>5, <2>1
  <1>7. MapThenSumSet(LAMBDA p : EventCount(name, p), R) = h[R]
    BY DEF MapThenSumSet, MapThenFoldSet
  <1>8. h = Step(h)
    <2> HIDE DEF Step
    <2> QED
      BY <1>6
  <1> QED
    BY <1>4, <1>6, <1>7, <1>8

\* So do the keys, of which no one is in two partitions.
LEMMA KeyCountsAdd ==
    ASSUME TypeInv, ObservedInv, RangeInv, status = "reported",
           NEW name \in Names
    PROVE  MapThenSumSet(LAMBDA p : UniqueKeyCount(name, p), PartitionRange)
             = Cardinality({CustomerOf(name, i) : i \in Indices})
  <1> DEFINE R == PartitionRange
             A == [p \in R |-> {CustomerOf(name, i) : i \in EventsIn(name, p)}]
             w == [p \in R |-> UniqueKeyCount(name, p)]
             Step(f) == [s \in SUBSET R |->
                           IF s = {} THEN 0
                           ELSE UniqueKeyCount(name, CHOOSE x \in s : TRUE)
                                  + f[s \ {CHOOSE x \in s : TRUE}]]
             h == CHOOSE f : f = Step(f)
  <1>1. /\ IsFiniteSet(R) /\ \A p \in R : w[p] \in Nat
        /\ \A p \in R : IsFiniteSet(A[p]) /\ w[p] = Cardinality(A[p])
    <2>1. ASSUME NEW p \in R
          PROVE  /\ IsFiniteSet(A[p]) /\ w[p] = Cardinality(A[p])
                 /\ w[p] \in Nat
      <3> DEFINE E == EventsIn(name, p)
                 k == [i \in E |-> CustomerOf(name, i)]
      <3>1. IsFiniteSet(E)
        BY ReportedParts
      <3>2. A[p] = {k[i] : i \in E}
        OBVIOUS
      <3>3. IsFiniteSet(A[p])
        <4> HIDE DEF A, E, k
        <4> QED
          BY <3>1, <3>2, ImageIsFinite
      <3>4. w[p] = Cardinality(A[p])
        BY DEF UniqueKeyCount
      <3> HIDE DEF A, w
      <3> QED
        BY <3>3, <3>4, FS_CardinalityType
    <2> QED
      BY <2>1, ReportedParts
  <1>2. \A p, q \in R : p # q => A[p] \intersect A[q] = {}
    BY ReportedParts DEF EventsIn
  <1>3. UNION {A[p] : p \in R} = {CustomerOf(name, i) : i \in Indices}
    BY ReportedParts DEF EventsIn
  <1>4. Total(w, R) = Cardinality({CustomerOf(name, i) : i \in Indices})
    <2> HIDE DEF A, w, R
    <2>1. Total(w, R) = Cardinality(UNION {A[p] : p \in R})
      BY <1>1, <1>2, PartsAdd
    <2> QED
      BY <1>3, <2>1
  <1>5. \A f : Step(f) = [s \in SUBSET R |->
                            IF s = {} THEN 0
                            ELSE w[CHOOSE x \in s : TRUE]
                                   + f[s \ {CHOOSE x \in s : TRUE}]]
    OBVIOUS
  <1>6. /\ \E f : f = Step(f)
        /\ \A f : f = Step(f) => f[R] = Total(w, R)
    <2>1. /\ \E f : f = [s \in SUBSET R |->
                            IF s = {} THEN 0
                            ELSE w[CHOOSE x \in s : TRUE]
                                   + f[s \ {CHOOSE x \in s : TRUE}]]
          /\ \A f : f = [s \in SUBSET R |->
                            IF s = {} THEN 0
                            ELSE w[CHOOSE x \in s : TRUE]
                                   + f[s \ {CHOOSE x \in s : TRUE}]]
                => f[R] = Total(w, R)
      <3> HIDE DEF w, R
      <3> QED
        BY <1>1, SumFold
    <2> HIDE DEF Step, w, R
    <2> QED
      BY <1>5, <2>1
  <1>7. MapThenSumSet(LAMBDA p : UniqueKeyCount(name, p), R) = h[R]
    BY DEF MapThenSumSet, MapThenFoldSet
  <1>8. h = Step(h)
    <2> HIDE DEF Step
    <2> QED
      BY <1>6
  <1> QED
    BY <1>4, <1>6, <1>7, <1>8

\* Some partition has most events, and is the first that has so many.
LEMMA BusiestIsBusiest ==
    ASSUME TypeInv, ObservedInv, RangeInv, status = "reported",
           NEW name \in Names
    PROVE  /\ Busiest(name) \in PartitionRange
           /\ \A q \in PartitionRange :
                 EventCount(name, q) <= EventCount(name, Busiest(name))
  <1> DEFINE R == PartitionRange
             C(p) == EventCount(name, p)
             Spare == {args.events - C(p) : p \in R}
  <1>0. /\ args.events \in Nat /\ args.partitions \in Nat \ {0}
        /\ R \in SUBSET Nat /\ R # {}
    BY ArgsTyped DEF TypeInv, PartitionRange
  <1>1. \A p : C(p) \in Nat /\ C(p) <= args.events
    BY ReportedParts
  <1> HIDE DEF C, R
  <1>2. Spare \in SUBSET Nat /\ Spare # {}
    <2>1. \A r \in R : args.events - C(r) \in Nat
      BY <1>0, <1>1
    <2>2. PICK r \in R : TRUE
      BY <1>0
    <2>3. args.events - C(r) \in Spare
      BY <2>2
    <2> QED
      BY <2>1, <2>3
  <1>3. PICK n \in Spare : \A m \in Spare : n <= m
    BY <1>2, LeastNumber
  <1> DEFINE Most == {p \in R : args.events - C(p) = n}
  <1>4. Most \in SUBSET Nat /\ Most # {}
    BY <1>0, <1>3
  <1>5. PICK p \in Most : \A q \in Most : p <= q
    BY <1>4, LeastNumber
  <1>6. \A q \in R : C(q) <= C(p)
    <2> SUFFICES ASSUME NEW q \in R
                 PROVE  C(q) <= C(p)
      OBVIOUS
    <2>1. n = args.events - C(p)
      BY <1>5
    <2>2. args.events - C(q) \in Spare
      OBVIOUS
    <2>3. n <= args.events - C(q)
      BY <1>3, <2>2
    <2> QED
      BY <1>0, <1>1, <2>1, <2>3
  <1>7. \A q \in R \ {p} : \/ C(q) < C(p)
                           \/ C(q) = C(p) /\ p < q
    <2> SUFFICES ASSUME NEW q \in R \ {p}, ~ (C(q) < C(p))
                 PROVE  C(q) = C(p) /\ p < q
      OBVIOUS
    <2>1. C(q) = C(p)
      BY <1>1, <1>6
    <2>2. q \in Most /\ p <= q /\ p \in Nat /\ q \in Nat
      BY <1>0, <1>5, <2>1
    <2> QED
      BY <2>1, <2>2
  <1>8. /\ Busiest(name) \in R
        /\ \A q \in R \ {Busiest(name)} :
              \/ C(q) < C(Busiest(name))
              \/ C(q) = C(Busiest(name)) /\ Busiest(name) < q
    <2>1. \E b \in PartitionRange : \A q \in PartitionRange \ {b} :
             \/ EventCount(name, q) < EventCount(name, b)
             \/ EventCount(name, q) = EventCount(name, b) /\ b < q
      BY <1>5, <1>7 DEF R, C
    <2> QED
      BY <2>1 DEF Busiest, R, C
  <1>9. \A q \in R : C(q) <= C(Busiest(name))
    BY <1>1, <1>8
  <1> QED
    BY <1>8, <1>9 DEF R, C

\* So the report holds the hot key together.
LEMMA HotKeySays ==
    ASSUME TypeInv, ObservedInv, RangeInv
    PROVE  HotKeyIsNotSplit
  <1> SUFFICES ASSUME status = "reported"
               PROVE  /\ HotIndices \notin {{}, Indices}
                      /\ \E p \in PartitionRange :
                            HotIndices \subseteq EventsIn("hot_key", p)
                      /\ EventCount("hot_key", Busiest("hot_key"))
                           >= HotEventCount
    BY KeyCountsAdd DEF HotKeyIsNotSplit
  <1>0. /\ HotEventCount \in 1 .. args.events - 1
        /\ args.events \in Nat \ {0} /\ "hot_key" \in Names
    BY ArgsTyped, ScenariosAre DEF TypeInv, Buildable
  <1>1. /\ HotIndices \subseteq Indices /\ 0 \in HotIndices
        /\ args.events - 1 \in Indices \ HotIndices
        /\ \A i \in HotIndices : CustomerOf("hot_key", i) = HotCustomer
    BY <1>0 DEF HotIndices, Indices, CustomerOf
  <1> DEFINE p == Assignments("hot_key")[0]
  <1>2. p \in PartitionRange /\ HotIndices \subseteq EventsIn("hot_key", p)
    BY <1>0, <1>1, ReportedParts DEF EventsIn
  <1>3. Cardinality(HotIndices) = HotEventCount
    <2>1. /\ 0 \in Int /\ HotEventCount - 1 \in Int
          /\ ~ (0 > HotEventCount - 1)
          /\ HotEventCount - 1 - 0 + 1 = HotEventCount
      BY <1>0
    <2>2. Cardinality(0 .. HotEventCount - 1)
            = IF 0 > HotEventCount - 1 THEN 0 ELSE HotEventCount - 1 - 0 + 1
      BY <2>1, FS_Interval
    <2> QED
      BY <2>1, <2>2 DEF HotIndices
  <1>4. HotEventCount <= EventCount("hot_key", p)
    <2>1. IsFiniteSet(EventsIn("hot_key", p))
      BY <1>0, ReportedParts
    <2> HIDE DEF p
    <2> QED
      BY <1>2, <1>3, <2>1, FS_Subset DEF EventCount
  <1>5. /\ EventCount("hot_key", p) \in Nat
        /\ EventCount("hot_key", Busiest("hot_key")) \in Nat
        /\ EventCount("hot_key", p)
             <= EventCount("hot_key", Busiest("hot_key"))
    BY <1>0, <1>2, ReportedParts, BusiestIsBusiest
  <1>6. EventCount("hot_key", Busiest("hot_key")) >= HotEventCount
    BY <1>0, <1>4, <1>5
  <1>7. HotIndices \notin {{}, Indices}
    BY <1>1
  <1> QED
    BY <1>2, <1>6, <1>7

\* And a report on a publication counts what is in the topic.
LEMMA TopicSays ==
    ASSUME TypeInv, ClientInv, OwnInv, ObservedInv, RangeInv
    PROVE  ReportIsTheTopic
  <1> SUFFICES ASSUME status = "reported", args.mode = "publish",
                      NEW name \in Names, NEW p \in PartitionRange
               PROVE  EventCount(name, p) =
                        Cardinality({n \in DOMAIN topic :
                                        /\ topic[n].name = name
                                        /\ topic[n].partition = p})
    BY EventCountsAdd DEF ReportIsTheTopic
  <1> DEFINE T == {n \in DOMAIN topic : /\ topic[n].name = name
                                        /\ topic[n].partition = p}
             E == EventsIn(name, p)
             f == [n \in T |-> topic[n].index]
  <1>1. \A i \in Indices : /\ Message(name, i) \in Written
                           /\ Assignments(name)[i] = PublishedTo(name, i)
    BY DEF ObservedInv, Assignments
  <1>2. ASSUME NEW n \in T
        PROVE  /\ f[n] \in E
               /\ topic[n] = Message(name, f[n])
    <2>1. topic[n] \in Written /\ topic[n].name = name /\ topic[n].partition = p
      BY <1>2 DEF Written, ToSet
    <2>2. /\ topic[n].index \in Indices
          /\ topic[n] = Message(name, topic[n].index)
      BY <2>1 DEF OwnInv
    <2>3. Message(name, topic[n].index).partition
            = PublishedTo(name, topic[n].index)
      BY DEF Message
    <2> QED
      BY <1>1, <2>1, <2>2, <2>3 DEF EventsIn
  <1>3. \A m, n \in T : f[m] = f[n] => m = n
    BY <1>2 DEF ClientInv, IsInjective
  <1>4. ASSUME NEW i \in E
        PROVE  \E n \in T : f[n] = i
    <2>1. i \in Indices /\ Assignments(name)[i] = p
      BY <1>4 DEF EventsIn
    <2>2. PICK n \in DOMAIN topic : topic[n] = Message(name, i)
      BY <1>1, <2>1 DEF Written, ToSet
    <2>3. n \in T /\ f[n] = i
      BY <1>1, <2>1, <2>2 DEF Message
    <2> QED
      BY <2>3
  <1>5. IsFiniteSet(T)
    <2>1. DOMAIN topic = 1 .. Len(topic) /\ Len(topic) \in Nat
      BY DEF TypeInv, ClientTyped
    <2>2. IsFiniteSet(DOMAIN topic)
      BY <2>1, FS_Interval
    <2> QED
      BY <2>2, FS_Subset
  <1>6. ExistsBijection(T, E)
    <2>1. f \in [T -> E]
      BY <1>2
    <2> HIDE DEF f, T, E
    <2>2. f \in Bijection(T, E)
      BY <1>3, <1>4, <2>1 DEF Bijection, Injection, Surjection, IsInjective
    <2> QED
      BY <2>2 DEF ExistsBijection
  <1>7. Cardinality(E) = Cardinality(T)
    BY <1>5, <1>6, FS_Bijection
  <1> QED
    BY <1>7 DEF EventCount

-----------------------------------------------------------------------------
(* Theorems *)

\* The inductive invariant: types, the client's guarantees, and what is true
\* of the records, their observed partitions and the partitions of a report.
IInv == TypeInv /\ ClientInv /\ OwnInv /\ ObservedInv /\ RangeInv

LEMMA InvStarts == Init => IInv
  <1> SUFFICES ASSUME Init
               PROVE  IInv
    OBVIOUS
  <1>1. /\ ClientTyped(Messages) /\ ClientInv
        /\ Queued = {} /\ Written = {} /\ adrift = {}
    BY ClientStarts DEF Init
  <1>2. args \in Invocations /\ args.events \in Nat \ {0}
    BY OptionAssumption DEF Init, Options
  <1>3. TypeInv
    <2>1. /\ status = "parsed" /\ scenario \in DOMAIN Scenarios
          /\ failed \in BOOLEAN
      BY ScenariosAre DEF Init
    <2>2. index \in Indices
      BY <1>2 DEF Init, Indices
    <2>3. observed \in [Names -> [Indices -> {None}
                                    \union 0 .. TopicPartitions - 1]]
      BY DEF Init
    <2> QED
      BY <1>1, <1>2, <2>1, <2>2, <2>3 DEF TypeInv, TypeOK
  <1>4. OwnInv
    BY <1>1 DEF OwnInv, Pending
  <1>5. ObservedInv
    BY DEF Init, ObservedInv
  <1>6. RangeInv
    BY DEF Init, RangeInv
  <1> QED
    BY <1>1, <1>3, <1>4, <1>5, <1>6 DEF IInv

THEOREM InvHolds == Spec => []IInv
  <1>1. IInv /\ [Next]_vars => IInv'
    BY StepTyped, StepMoves, StepOwn, StepObserved, StepRange DEF IInv
  <1> QED
    BY InvStarts, <1>1, PTL DEF Spec

\* Every variable of the analysis has its type: publish_scenarios never runs
\* past the records of a scenario, and notes partitions of the topic.
THEOREM TypeCorrect == Spec => []TypeOK
  <1>1. IInv => TypeOK
    BY DEF IInv, TypeInv
  <1> QED
    BY <1>1, InvHolds, PTL

\* A partition noted for a record is the one that record is in, once, whatever
\* the order in which callbacks run and whichever records fail.
THEOREM ObservedIsWritten == Spec => []ObservationsAreTrue
  <1>1. IInv => ObservationsAreTrue
    BY ObservedSays DEF IInv
  <1> QED
    BY <1>1, InvHolds, PTL

\* A report on a publication counts each record of a scenario once, in the
\* partition of the topic that holds it.
THEOREM ReportCountsTheTopic == Spec => []ReportIsTheTopic
  <1>1. IInv => ReportIsTheTopic
    BY TopicSays DEF IInv
  <1> QED
    BY <1>1, InvHolds, PTL

\* What render_report concludes holds for every hash and number of partitions:
\* the unique keys of the partitions add up to those of the scenario, and one
\* partition holds the hot key whole.
THEOREM HotKeyStaysWhole == Spec => []HotKeyIsNotSplit
  <1>1. IInv => HotKeyIsNotSplit
    BY HotKeySays DEF IInv
  <1> QED
    BY <1>1, InvHolds, PTL
=============================================================================
