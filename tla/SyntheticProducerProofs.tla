----------------------- MODULE SyntheticProducerProofs -----------------------
(* Theorems about SyntheticProducer, for every scenario, spacing and number  *)
(* of cycles and runs, with their proofs.                                    *)
EXTENDS SyntheticProducer, KafkaClientProofs, FiniteSetTheorems

Active == status \in {Publishing, Flushing}

\* The message of event i of cycle n of this run.
MessageAt(n, i) == [run |-> run, cycle |-> n, index |-> i,
                    key |-> Scenario[i].customer, event |-> BuildEvent(n, i)]

\* The event that event i of the scenario is for base second t.
EventOf(i, t) == [id |-> <<Scenario[i].name, t>>,
                  customer |-> Scenario[i].customer,
                  time |-> (t + Scenario[i].seconds) * TicksPerSecond]

-----------------------------------------------------------------------------
(* Types *)

\* TypeOK with the client's part apart, and a cycle while one is published.
TypeInv ==
    /\ TypeOK
    /\ Active => cycle \in Nat \ {0}

\* The client's part of TypeOK.
LEMMA ClientPart == TypeOK => ClientTyped(Messages)
  BY DEF TypeOK, ClientTyped

\* A scenario is a list of its events.
LEMMA ScenarioTyped ==
    /\ Len(Scenario) \in Nat
    /\ DOMAIN Scenario = 1 .. Len(Scenario)
    /\ \A i \in DOMAIN Scenario : /\ Scenario[i].name \in STRING
                                  /\ Scenario[i].customer \in STRING
                                  /\ Scenario[i].seconds \in Nat
  <1> DEFINE E == [name : STRING, customer : STRING, seconds : Nat]
  <1>1. Scenario \in Seq(E)
    BY ScenarioAssumption
  <1>2. /\ Len(Scenario) \in Nat /\ DOMAIN Scenario = 1 .. Len(Scenario)
        /\ \A i \in DOMAIN Scenario : Scenario[i] \in E
    BY <1>1, LenProperties, ElementOfSeq
  <1> QED
    BY <1>2

\* build_demo_scenario makes events of the scenario, for a second of the base
\* time of the cycle.
LEMMA BuildTyped ==
    ASSUME base \in Nat, NEW n \in Nat \ {0}, NEW i \in DOMAIN Scenario
    PROVE  /\ TokenSecond(n) \in Nat
           /\ BuildEvent(n, i) = EventOf(i, TokenSecond(n))
           /\ BuildEvent(n, i) \in Events
  <1>1. Spacing \in Nat /\ TicksPerSecond \in Nat \ {0}
    BY OptionAssumption DEF Options
  <1>2. CycleBase(n) \in Nat
    <2>1. n - 1 \in Nat
      OBVIOUS
    <2>2. (n - 1) * Spacing \in Nat
      BY <1>1, <2>1
    <2> QED
      BY <2>2 DEF CycleBase
  <1>3. TokenSecond(n) \in Nat
    BY <1>1, <1>2 DEF TokenSecond
  <1>4. (TokenSecond(n) + Scenario[i].seconds) * TicksPerSecond \in Nat
    <2>1. TokenSecond(n) + Scenario[i].seconds \in Nat
      BY <1>3, ScenarioTyped
    <2> QED
      BY <1>1, <2>1
  <1>5. BuildEvent(n, i) = EventOf(i, TokenSecond(n))
    BY DEF BuildEvent, EventOf
  <1>6. BuildEvent(n, i) \in Events
    BY <1>3, <1>4, ScenarioTyped DEF BuildEvent, Events
  <1> QED
    BY <1>3, <1>5, <1>6

\* What publish_scenario produces is a message.
LEMMA MessageTyped ==
    ASSUME TypeInv, status = Publishing, index <= Len(Scenario)
    PROVE  /\ index \in DOMAIN Scenario
           /\ Message(index) = MessageAt(cycle, index)
           /\ Message(index) \in Messages
  <1>1. /\ index \in DOMAIN Scenario /\ run \in Nat /\ base \in Nat
        /\ cycle \in Nat \ {0}
    BY ScenarioTyped, OptionAssumption DEF TypeInv, TypeOK, Active
  <1>2. BuildEvent(cycle, index) \in Events
    BY <1>1, BuildTyped
  <1> QED
    BY <1>1, <1>2, ScenarioTyped DEF Message, MessageAt, Messages

\* The messages with failed reports are messages.
LEMMA FailedTyped == TypeOK => Failed \subseteq Messages
  <1> SUFFICES ASSUME TypeOK, NEW i \in DOMAIN reports
               PROVE  reports[i].message \in Messages
    BY DEF Failed, ReportsOf
  <1>1. /\ reports \in Seq([message : Messages, delivered : BOOLEAN])
        /\ i \in 1 .. Len(reports)
    BY LenProperties DEF TypeOK, ClientTyped
  <1>2. reports[i] \in [message : Messages, delivered : BOOLEAN]
    BY <1>1, ElementOfSeq
  <1> QED
    BY <1>2

-----------------------------------------------------------------------------
(* Messages *)

\* A message of this run is what the run makes of its cycle and index, and of
\* those of the open cycle only the ones before the index have been produced.
\* No message is of a later run.
OwnInv ==
    \A m \in Pending \union Written :
        /\ m.run <= run
        /\ m.run = run =>
              /\ m = MessageAt(m.cycle, m.index)
              /\ m.cycle <= cycle
              /\ Active /\ m.cycle = cycle => m.index < index

\* A message is made once.
LEMMA MessageIsNew ==
    ASSUME TypeInv, OwnInv, status = Publishing
    PROVE  Message(index) \notin Pending \union Written
  <1>1. /\ Message(index).run = run /\ Message(index).cycle = cycle
        /\ Message(index).index = index
    BY DEF Message
  <1>2. index \in Int /\ Active
    BY ScenarioTyped DEF TypeInv, TypeOK, Active
  <1> QED
    BY <1>1, <1>2 DEF OwnInv

\* Every step keeps what the client guarantees.
LEMMA StepClient ==
    ASSUME TypeInv, ClientInv, OwnInv, [Next]_vars
    PROVE  ClientTyped(Messages)' /\ ClientInv'
  <1>0. ClientTyped(Messages)
    BY ClientPart DEF TypeInv
  <1>1. CASE Produce
    <2>1. /\ Message(index) \in Messages /\ EnqueueAndPoll(Message(index))
          /\ Message(index) \notin Queued /\ Message(index) \notin adrift
      BY <1>1, MessageTyped, MessageIsNew DEF Produce, Pending
    <2> QED
      BY <1>0, <2>1, ProduceQueues
  <1>2. CASE \/ UNCHANGED clientVars
             \/ ServeReports
             \/ CloseClient
             \/ ClientStep
    BY <1>0, <1>2, ClientGoesOn
  <1> QED
    BY <1>1, <1>2
       DEF Next, Start, EnterFlush, FlushServes, FlushSucceeds, FlushFails,
           Interrupt, Exit, vars

\* The program's part of TypeOK.
ProgramTyped ==
    /\ run \in 0 .. MaxRuns
    /\ base \in Bases \union {0}
    /\ cycle \in Nat
    /\ Active => cycle # 0
    /\ Cycles # 0 => cycle <= Cycles
    /\ index \in 1 .. Len(Scenario) + 1
    /\ status \in Ended \union {Publishing, Flushing}
    /\ deliveryErrors \subseteq Messages

\* Every step keeps the types.
LEMMA StepTyped ==
    ASSUME TypeInv, ClientInv, OwnInv, [Next]_vars
    PROVE  TypeInv'
  <1>a. ClientTyped(Messages)'
    BY StepClient
  <1> SUFFICES ProgramTyped'
    BY <1>a DEF TypeInv, TypeOK, ProgramTyped, ClientTyped
  <1>0. /\ ProgramTyped /\ Failed \subseteq Messages
        /\ MaxRuns \in Nat /\ Bases \subseteq Nat /\ Cycles \in Nat
        /\ Len(Scenario) \in Nat
    BY FailedTyped, ScenarioTyped, OptionAssumption
       DEF TypeInv, TypeOK, ProgramTyped, Options
  <1>1. CASE UNCHANGED programVars
    BY <1>0, <1>1 DEF programVars, ProgramTyped, Active
  <1>2. CASE Start
    <2>1. run' \in 0 .. MaxRuns
      BY <1>0, <1>2 DEF Start, ProgramTyped
    <2> QED
      BY <1>0, <1>2, <2>1 DEF Start, ProgramTyped, Active
  <1>3. CASE Produce \/ FlushServes
    <2>1. deliveryErrors' = deliveryErrors \union Failed
      BY <1>3 DEF Produce, FlushServes, ErrorsServed, Failed
    <2>2. index' \in 1 .. Len(Scenario) + 1
      BY <1>0, <1>3 DEF Produce, FlushServes, ProgramTyped
    <2>3. UNCHANGED <<run, base, cycle, status>>
      BY <1>3 DEF Produce, FlushServes
    <2> QED
      BY <1>0, <2>1, <2>2, <2>3 DEF ProgramTyped, Active
  <1>4. CASE EnterFlush
    BY <1>0, <1>4 DEF EnterFlush, ProgramTyped, Active
  <1>5. CASE FlushSucceeds
    <2>1. /\ cycle' \in Nat
          /\ cycle # 0 => cycle' # 0
          /\ Cycles # 0 => cycle' <= Cycles
      BY <1>0, <1>5 DEF FlushSucceeds, MoreCycles, NextCycle, ProgramTyped
    <2>2. /\ index' = 1 \/ index' = index
          /\ status' \in {"returned", Publishing}
      BY <1>5 DEF FlushSucceeds, MoreCycles
    <2>3. deliveryErrors' = {} /\ run' = run /\ base' = base /\ Active
      BY <1>5 DEF FlushSucceeds, Active
    <2>4. cycle' # 0 /\ index' \in 1 .. Len(Scenario) + 1
      BY <1>0, <2>1, <2>2, <2>3 DEF ProgramTyped
    <2>5. status' \in Ended \union {Publishing, Flushing}
      BY <2>2 DEF Ended
    <2> QED
      BY <1>0, <2>1, <2>3, <2>4, <2>5 DEF ProgramTyped
  <1>6. CASE FlushFails \/ Interrupt
    <2>1. /\ status' \in {"raised", "interrupted"}
          /\ UNCHANGED <<run, base, cycle, index, deliveryErrors>>
      BY <1>6 DEF FlushFails, Interrupt, Exit
    <2> QED
      BY <1>0, <2>1 DEF ProgramTyped, Active, Ended, Publishing, Flushing
  <1> QED
    BY <1>1, <1>2, <1>3, <1>4, <1>5, <1>6 DEF Next, vars
-----------------------------------------------------------------------------
(* Steps *)

\* Of the messages there are, a step makes one new or moves one at most.
LEMMA StepMoves ==
    ASSUME TypeInv, ClientInv, OwnInv, [Next]_vars
    PROVE  \/ /\ Produce
              /\ Pending' = Pending \union {Message(index)}
              /\ topic' = topic
           \/ /\ (Pending \union Written)' = Pending \union Written
              /\ Pending' \subseteq Pending
              /\ Written \subseteq Written'
              /\ \/ topic' = topic
                 \/ \E m \in Pending : topic' = Append(topic, m)
  <1>0. ClientTyped(Messages)
    BY ClientPart DEF TypeInv
  <1>1. CASE Produce
    <2>1. /\ Message(index) \in Messages /\ EnqueueAndPoll(Message(index))
          /\ Message(index) \notin Queued /\ Message(index) \notin adrift
      BY <1>1, MessageTyped, MessageIsNew DEF Produce, Pending
    <2>2. /\ Queued' = Queued \union {Message(index)}
          /\ topic' = topic /\ adrift' = adrift
      BY <1>0, <2>1, ProduceQueues
    <2> QED
      BY <1>1, <2>2 DEF Pending
  <1>2. CASE \/ UNCHANGED clientVars
             \/ ServeReports
             \/ CloseClient
             \/ ClientStep
    BY <1>0, <1>2, ClientGoesOn
  <1> QED
    BY <1>1, <1>2
       DEF Next, Start, EnterFlush, FlushServes, FlushSucceeds, FlushFails,
           Interrupt, Exit, vars

\* A run goes forward, and its base time stays.
LEMMA StepOfRun ==
    ASSUME TypeInv, [Next]_vars
    PROVE  \/ run' = run + 1 /\ Start
           \/ /\ run' = run /\ base' = base
              /\ cycle <= cycle'
              /\ Active' => Active
              /\ Active' /\ cycle' = cycle => index <= index'
  <1>0. cycle \in Nat /\ index \in Nat
    BY ScenarioTyped DEF TypeInv, TypeOK
  <1>1. CASE Start
    BY <1>1 DEF Start
  <1>2. CASE UNCHANGED programVars
    BY <1>0, <1>2 DEF programVars, Active
  <1>3. CASE Produce \/ EnterFlush \/ FlushServes
    BY <1>0, <1>3 DEF Produce, EnterFlush, FlushServes, Active
  <1>4. CASE FlushSucceeds
    <2>1. CASE MoreCycles
      BY <1>0, <1>4, <2>1 DEF FlushSucceeds, NextCycle, Active
    <2>2. CASE ~ MoreCycles
      BY <1>0, <1>4, <2>2 DEF FlushSucceeds, Active
    <2> QED
      BY <2>1, <2>2
  <1>5. CASE FlushFails \/ Interrupt
    BY <1>0, <1>5 DEF FlushFails, Interrupt, Exit, Active, Publishing, Flushing
  <1> QED
    BY <1>1, <1>2, <1>3, <1>4, <1>5 DEF Next, vars

\* While run and base time stay, so do the messages of the run.
LEMMA SameMessages ==
    ASSUME UNCHANGED <<run, base>>
    PROVE  \A n, i : MessageAt(n, i)' = MessageAt(n, i)
  BY DEF MessageAt, BuildEvent, TokenSecond, CycleBase

\* The messages there are have a message's type.
LEMMA KnownTyped == TypeInv => Pending \union Written \subseteq Messages
  BY DEF TypeInv, TypeOK, ClientTyped, Pending, Queued, Written, ToSet

\* Every step keeps a run's messages its own.
LEMMA StepOwn ==
    ASSUME TypeInv, ClientInv, OwnInv, [Next]_vars
    PROVE  OwnInv'
  <1>0. /\ run \in Nat /\ cycle \in Nat /\ index \in Nat
        /\ Pending \union Written \subseteq Messages
        /\ run' \in Nat /\ cycle' \in Nat /\ index' \in Nat
    <2>1. TypeInv'
      BY StepTyped
    <2> QED
      BY <2>1, KnownTyped, ScenarioTyped, OptionAssumption DEF TypeInv, TypeOK
  <1>1. ASSUME NEW m \in Pending \union Written
        PROVE  /\ m.run <= run'
               /\ m.run = run' =>
                    /\ m = MessageAt(m.cycle, m.index)'
                    /\ m.cycle <= cycle'
                    /\ Active' /\ m.cycle = cycle' => m.index < index'
    <2>0. m.run \in Nat /\ m.cycle \in Nat /\ m.index \in Nat
      BY <1>0, ScenarioTyped DEF Messages
    <2>1. /\ m.run <= run
          /\ m.run = run =>
               /\ m = MessageAt(m.cycle, m.index)
               /\ m.cycle <= cycle
               /\ Active /\ m.cycle = cycle => m.index < index
      BY DEF OwnInv
    <2>2. CASE run' = run + 1
      BY <1>0, <2>0, <2>1, <2>2
    <2>3. CASE /\ run' = run /\ base' = base
               /\ cycle <= cycle'
               /\ Active' => Active
               /\ Active' /\ cycle' = cycle => index <= index'
      <3>1. MessageAt(m.cycle, m.index)' = MessageAt(m.cycle, m.index)
        BY <2>3, SameMessages
      <3>2. m.run = run => m.cycle <= cycle'
        BY <1>0, <2>0, <2>1, <2>3
      <3>3. ASSUME m.run = run, Active', m.cycle = cycle'
            PROVE  m.index < index'
        <4>1. cycle' = cycle
          BY <1>0, <2>0, <2>1, <2>3, <3>3
        <4> QED
          BY <1>0, <2>0, <2>1, <2>3, <3>3, <4>1
      <3> QED
        BY <2>1, <2>3, <3>1, <3>2, <3>3
    <2> QED
      BY <2>2, <2>3, StepOfRun
  <1>2. CASE /\ Produce
             /\ Pending' = Pending \union {Message(index)}
             /\ topic' = topic
    <2>1. /\ Message(index) = MessageAt(cycle, index)
          /\ Message(index).run = run /\ Message(index).cycle = cycle
          /\ Message(index).index = index
      BY <1>2, MessageTyped DEF Produce, Message
    <2>2. UNCHANGED <<run, base, cycle>> /\ index' = index + 1
      BY <1>2 DEF Produce
    <2>3. \A n, i : MessageAt(n, i)' = MessageAt(n, i)
      BY <2>2, SameMessages
    <2>4. (Pending \union Written)'
             = (Pending \union Written) \union {Message(index)}
      BY <1>2 DEF Written
    <2>5. ASSUME NEW m \in (Pending \union Written)'
          PROVE  /\ m.run <= run'
                 /\ m.run = run' =>
                      /\ m = MessageAt(m.cycle, m.index)'
                      /\ m.cycle <= cycle'
                      /\ Active' /\ m.cycle = cycle' => m.index < index'
      <3>1. CASE m = Message(index)
        <4>1. /\ m.run = run /\ m.cycle = cycle /\ m.index = index
              /\ m = MessageAt(m.cycle, m.index)
          BY <2>1, <3>1
        <4>2. MessageAt(m.cycle, m.index)' = MessageAt(m.cycle, m.index)
          BY <2>3
        <4> QED
          BY <1>0, <2>2, <4>1, <4>2
      <3> QED
        BY <1>1, <2>4, <2>5, <3>1
    <2> QED
      BY <2>5 DEF OwnInv
  <1>3. CASE (Pending \union Written)' = Pending \union Written
    BY <1>1, <1>3 DEF OwnInv
  <1> QED
    BY <1>2, <1>3, StepMoves
-----------------------------------------------------------------------------
(* Events *)

\* What is pending or written is an event of the scenario for some second.
EventInv ==
    \A m \in Pending \union Written :
        \E i \in DOMAIN Scenario, t \in Nat : m.event = EventOf(i, t)

\* Every step publishes events of the scenario only.
LEMMA StepEvent ==
    ASSUME TypeInv, ClientInv, OwnInv, EventInv, [Next]_vars
    PROVE  EventInv'
  <1>1. CASE /\ Produce
             /\ Pending' = Pending \union {Message(index)}
             /\ topic' = topic
    <2>1. /\ index \in DOMAIN Scenario
          /\ base \in Nat /\ cycle \in Nat \ {0}
      BY <1>1, MessageTyped, OptionAssumption
         DEF Produce, TypeInv, TypeOK, Active
    <2>2. /\ TokenSecond(cycle) \in Nat
          /\ Message(index).event = EventOf(index, TokenSecond(cycle))
      BY <2>1, BuildTyped DEF Message
    <2>3. (Pending \union Written)'
             = (Pending \union Written) \union {Message(index)}
      BY <1>1 DEF Written
    <2> DEFINE Made(m) ==
                 \E i \in DOMAIN Scenario, t \in Nat : m.event = EventOf(i, t)
    <2>4. \A m \in (Pending \union Written)' : Made(m)
      BY <2>1, <2>2, <2>3 DEF EventInv
    <2> QED
      BY <2>4 DEF EventInv, EventOf
  <1>2. CASE (Pending \union Written)' = Pending \union Written
    BY <1>2 DEF EventInv, EventOf
  <1> QED
    BY <1>1, <1>2, StepMoves

\* Two events of the scenario with the same event_id are equal.
LEMMA EventsNamed ==
    ASSUME NEW i \in DOMAIN Scenario, NEW j \in DOMAIN Scenario,
           NEW t \in Nat, NEW u \in Nat, EventOf(i, t).id = EventOf(j, u).id
    PROVE  EventOf(i, t) = EventOf(j, u)
  <1>1. Scenario[i].name = Scenario[j].name /\ t = u
    BY DEF EventOf
  <1>2. Scenario[i] = Scenario[j]
    BY <1>1, NamesAssumption
  <1> QED
    BY <1>1, <1>2 DEF EventOf

\* So an event_id in the topic stands for one event.
LEMMA EventsSay == EventInv => IdNamesOneEvent
  <1> SUFFICES ASSUME EventInv, NEW p \in DOMAIN topic, NEW q \in DOMAIN topic,
                      topic[p].event.id = topic[q].event.id
               PROVE  topic[p].event = topic[q].event
    BY DEF IdNamesOneEvent
  <1>1. topic[p] \in Written /\ topic[q] \in Written
    BY DEF Written, ToSet
  <1>2. PICK i \in DOMAIN Scenario, t \in Nat : topic[p].event = EventOf(i, t)
    BY <1>1 DEF EventInv
  <1>3. PICK j \in DOMAIN Scenario, u \in Nat : topic[q].event = EventOf(j, u)
    BY <1>1 DEF EventInv
  <1> QED
    BY <1>2, <1>3, EventsNamed

-----------------------------------------------------------------------------
(* The flush *)

\* Errors this cycle has had, served or not.
Errors == Failed \union deliveryErrors

\* Within a cycle a step forgets no error; what it sets adrift has failed, and
\* what leaves the queue is written or has failed.
LEMMA StepErrors ==
    ASSUME TypeInv, ClientInv, OwnInv, [Next]_vars, Active'
    PROVE  \/ Start
           \/ FlushSucceeds
           \/ /\ Active /\ UNCHANGED <<run, base, cycle>>
              /\ Errors \subseteq Errors'
              /\ adrift' \subseteq adrift \union Errors'
              /\ Queued \subseteq (Queued \union Written \union Errors)'
              /\ \/ index' = index
                 \/ /\ Produce
                    /\ Message(index) \in Queued'
                    /\ adrift' = adrift
  <1>0. ClientTyped(Messages)
    BY ClientPart DEF TypeInv
  <1>1. CASE UNCHANGED vars \/ EnterFlush
    <2>1. /\ UNCHANGED clientVars
          /\ UNCHANGED <<run, base, cycle, index, deliveryErrors>> /\ Active
      BY <1>1 DEF vars, programVars, EnterFlush, Active
    <2>2. /\ Failed' = Failed /\ Queued' = Queued /\ adrift' = adrift
      BY <1>0, <2>1, ClientUntouched DEF Failed
    <2> QED
      BY <2>1, <2>2 DEF Errors
  <1>2. CASE Produce
    <2>1. /\ Message(index) \in Messages /\ EnqueueAndPoll(Message(index))
          /\ Message(index) \notin Queued /\ Message(index) \notin adrift
          /\ deliveryErrors' = deliveryErrors \union Failed
          /\ Active /\ UNCHANGED <<run, base, cycle>>
      BY <1>2, MessageTyped, MessageIsNew
         DEF Produce, Pending, ErrorsServed, Failed, Active
    <2>2. Queued' = Queued \union {Message(index)} /\ adrift' = adrift
      BY <1>0, <2>1, ProduceQueues
    <2> QED
      BY <1>2, <2>1, <2>2 DEF Errors
  <1>3. CASE FlushServes
    <2>1. /\ ServeReports /\ deliveryErrors' = deliveryErrors \union Failed
          /\ Active /\ UNCHANGED <<run, base, cycle, index>>
      BY <1>3 DEF FlushServes, ErrorsServed, Failed, Active
    <2>2. Queued' = Queued /\ adrift' = adrift
      BY <1>0, <2>1, PollServes
    <2> QED
      BY <2>1, <2>2 DEF Errors
  <1>4. CASE ClientStep /\ UNCHANGED programVars
    <2>1. /\ Failed \subseteq Failed'
          /\ Queued \subseteq (Queued \union Written \union Failed)'
          /\ adrift' \subseteq adrift \union Failed'
      BY <1>0, <1>4, ClientConserves
    <2>2. /\ UNCHANGED <<run, base, cycle, index, deliveryErrors>> /\ Active
      BY <1>4 DEF programVars, Active
    <2> QED
      BY <2>1, <2>2 DEF Errors
  <1>5. ~ FlushFails /\ ~ Interrupt
    BY DEF FlushFails, Interrupt, Exit, Active, Publishing, Flushing
  <1> QED
    BY <1>1, <1>2, <1>3, <1>4, <1>5 DEF Next

\* When publish_scenario returns, its client has no message and no error.
LEMMA FlushIsClean ==
    ASSUME TypeInv, FlushSucceeds
    PROVE  /\ Active /\ status = Flushing
           /\ Queued = {} /\ Errors = {}
           /\ run' = run /\ base' = base /\ topic' = topic /\ adrift' = adrift
           /\ Queued' = {}
           /\ \/ /\ cycle' = cycle + 1 /\ index' = 1 /\ status' = Publishing
              \/ /\ cycle' = cycle /\ status' = "returned"
  <1>0. ClientTyped(Messages)
    BY ClientPart DEF TypeInv
  <1>1. Remaining = 0 /\ deliveryErrors = {}
    BY DEF FlushSucceeds, Published
  <1>2. Queued = {} /\ Failed = {}
    BY <1>0, <1>1, NothingRemains DEF Failed
  <1>3. /\ UNCHANGED <<run, base, clientVars>> /\ status = Flushing
        /\ \/ /\ cycle' = cycle + 1 /\ index' = 1 /\ status' = Publishing
           \/ /\ cycle' = cycle /\ status' = "returned"
    BY DEF FlushSucceeds, NextCycle
  <1> QED
    BY <1>1, <1>2, <1>3 DEF Errors, Active, clientVars, Queued
-----------------------------------------------------------------------------
(* The order of the cycles *)

\* What is pending is of the last cycle its run has published, in a run that
\* is still publishing the open one; there a message is adrift only after an
\* error, which is why the cycle is not left.
OrderInv ==
    /\ \A m \in Pending, w \in Pending \union Written :
          m.run = w.run => w.cycle <= m.cycle
    /\ Active => \A m \in Pending : m.run = run => m.cycle = cycle
    /\ Active => \A m \in adrift : m.run = run => Errors # {}
    /\ CyclesInOrder

\* Every step keeps the pending messages behind no later cycle.
LEMMA StepLatest ==
    ASSUME TypeInv, ClientInv, OwnInv, OrderInv, [Next]_vars
    PROVE  \A m \in Pending', w \in (Pending \union Written)' :
              m.run = w.run => w.cycle <= m.cycle
  <1>0. cycle \in Nat
    BY DEF TypeInv, TypeOK
  <1>1. CASE /\ Produce
             /\ Pending' = Pending \union {Message(index)}
             /\ topic' = topic
    <2>1. /\ Message(index).run = run /\ Message(index).cycle = cycle
          /\ Active
      BY <1>1 DEF Produce, Message, Active
    <2>2. (Pending \union Written)'
             = (Pending \union Written) \union {Message(index)}
      BY <1>1 DEF Written
    <2>3. \A w \in Pending \union Written : w.run = run => w.cycle <= cycle
      BY DEF OwnInv
    <2>4. \A m \in Pending : m.run = run => m.cycle = cycle
      BY <2>1 DEF OrderInv
    <2>5. ASSUME NEW m \in Pending', NEW w \in (Pending \union Written)',
                 m.run = w.run
          PROVE  w.cycle <= m.cycle
      <3>1. CASE m \in Pending /\ w \in Pending \union Written
        BY <2>5, <3>1 DEF OrderInv
      <3>2. CASE m = Message(index) /\ w \in Pending \union Written
        BY <2>1, <2>3, <2>5, <3>2
      <3>3. CASE w = Message(index)
        <4>1. m.cycle = cycle /\ w.cycle = cycle
          BY <1>1, <2>1, <2>4, <2>5, <3>3
        <4> QED
          BY <1>0, <4>1
      <3> QED
        BY <1>1, <2>2, <2>5, <3>1, <3>2, <3>3
    <2> QED
      BY <2>5
  <1>2. CASE /\ (Pending \union Written)' = Pending \union Written
             /\ Pending' \subseteq Pending
    BY <1>2 DEF OrderInv
  <1> QED
    BY <1>1, <1>2, StepMoves

\* Every step of a run that goes on leaves pending only its open cycle.
LEMMA StepCurrent ==
    ASSUME TypeInv, ClientInv, OwnInv, OrderInv, [Next]_vars, Active'
    PROVE  /\ \A m \in Pending' : m.run = run' => m.cycle = cycle'
           /\ \A m \in adrift' : m.run = run' => Errors' # {}
  <1>0. /\ run \in Nat
        /\ \A m \in Pending : m.run <= run /\ m.run \in Nat
    BY KnownTyped, OptionAssumption DEF OwnInv, TypeInv, TypeOK, Messages
  <1>1. CASE Start
    <2>1. UNCHANGED clientVars /\ run' = run + 1
      BY <1>1 DEF Start
    <2>2. Pending' = Pending /\ adrift' \subseteq Pending
      BY <2>1 DEF clientVars, Pending, Queued
    <2>3. \A m \in Pending : m.run # run'
      BY <1>0, <2>1
    <2> QED
      BY <2>2, <2>3
  <1>2. CASE FlushSucceeds
    <2>1. /\ Active /\ Queued = {} /\ Errors = {}
          /\ run' = run /\ adrift' = adrift /\ Queued' = {}
      BY <1>2, FlushIsClean
    <2>2. \A m \in adrift : m.run # run
      BY <2>1 DEF OrderInv
    <2> QED
      BY <2>1, <2>2 DEF Pending
  <1>3. CASE /\ Active /\ UNCHANGED <<run, base, cycle>>
             /\ Errors \subseteq Errors'
             /\ adrift' \subseteq adrift \union Errors'
    <2>1. \A m \in Pending : m.run = run => m.cycle = cycle
      BY <1>3 DEF OrderInv
    <2>2. Pending' \subseteq Pending \union {Message(index)}
      BY StepMoves
    <2>3. Message(index).cycle = cycle
      BY DEF Message
    <2>4. \A m \in Pending' : m.run = run' => m.cycle = cycle'
      BY <1>3, <2>1, <2>2, <2>3
    <2>5. \A m \in adrift : m.run = run => Errors # {}
      BY <1>3 DEF OrderInv
    <2>6. \A m \in adrift' : m.run = run' => Errors' # {}
      BY <1>3, <2>5
    <2> QED
      BY <2>4, <2>6
  <1> QED
    BY <1>1, <1>2, <1>3, StepErrors

\* Every step keeps the cycles in order.
LEMMA StepOrder ==
    ASSUME TypeInv, ClientInv, OwnInv, OrderInv, [Next]_vars
    PROVE  OrderInv'
  <1>1. CyclesInOrder'
    <2>1. CASE topic' = topic
      BY <2>1 DEF OrderInv, CyclesInOrder
    <2>2. ASSUME NEW m \in Pending, topic' = Append(topic, m)
          PROVE  CyclesInOrder'
      <3>0. topic \in Seq(Messages) /\ m \in Messages
        BY KnownTyped DEF TypeInv, TypeOK, ClientTyped
      <3>1. /\ DOMAIN topic = 1 .. Len(topic) /\ Len(topic) \in Nat
            /\ DOMAIN topic' = 1 .. Len(topic) + 1
            /\ \A j \in 1 .. Len(topic) : topic'[j] = topic[j]
            /\ topic'[Len(topic) + 1] = m
        BY <2>2, <3>0, AppendMeans
      <3>2. \A j \in DOMAIN topic : topic[j] \in Written
        BY DEF Written, ToSet
      <3> SUFFICES ASSUME NEW p \in DOMAIN topic', NEW q \in DOMAIN topic',
                          p < q, topic'[p].run = topic'[q].run
                   PROVE  topic'[p].cycle <= topic'[q].cycle
        BY DEF CyclesInOrder
      <3>3. CASE q = Len(topic) + 1
        <4>1. p \in DOMAIN topic /\ topic'[p] \in Written /\ topic'[q] = m
          BY <3>1, <3>2, <3>3
        <4> QED
          BY <2>2, <4>1 DEF OrderInv
      <3>4. CASE q # Len(topic) + 1
        <4>1. /\ p \in DOMAIN topic /\ q \in DOMAIN topic
              /\ topic'[p] = topic[p] /\ topic'[q] = topic[q]
          BY <3>1, <3>4
        <4> QED
          BY <4>1 DEF OrderInv, CyclesInOrder
      <3> QED
        BY <3>3, <3>4
    <2> QED
      BY <2>1, <2>2, StepMoves
  <1> QED
    BY <1>1, StepLatest, StepCurrent DEF OrderInv

-----------------------------------------------------------------------------
(* What has been flushed *)

\* What the open cycle has produced is with the client, written or known as an
\* error, and the flush begins after the last event; what an earlier cycle
\* has produced is written.
FlushedInv ==
    /\ Active =>
          \A i \in 1 .. index - 1 :
              MessageAt(cycle, i) \in Queued \union Written \union Errors
    /\ status = Flushing => index > Len(Scenario)
    /\ \A n \in FlushedCycles : \A i \in DOMAIN Scenario :
          MessageAt(n, i) \in Written

\* Every step accounts for what the open cycle has produced.
LEMMA StepProduced ==
    ASSUME TypeInv, ClientInv, OwnInv, FlushedInv, [Next]_vars, Active'
    PROVE  \A i \in 1 .. index' - 1 :
              MessageAt(cycle, i)' \in (Queued \union Written \union Errors)'
  <1>0. index \in Nat
    BY ScenarioTyped DEF TypeInv, TypeOK
  <1>1. CASE Start \/ FlushSucceeds
    <2>1. index' = 1
      BY <1>1, FlushIsClean DEF Start, Active, Publishing, Flushing
    <2> QED
      BY <2>1
  <1>2. CASE /\ Active /\ UNCHANGED <<run, base, cycle>>
             /\ Errors \subseteq Errors'
             /\ Queued \subseteq (Queued \union Written \union Errors)'
             /\ \/ index' = index
                \/ Produce /\ Message(index) \in Queued'
    <2>1. \A n, i : MessageAt(n, i)' = MessageAt(n, i)
      BY <1>2, SameMessages
    <2>2. Written \subseteq Written'
      BY StepMoves DEF Written
    <2>3. ASSUME NEW i \in 1 .. index - 1
          PROVE  MessageAt(cycle, i)' \in (Queued \union Written \union Errors)'
      <3>1. MessageAt(cycle, i) \in Queued \union Written \union Errors
        BY <1>2 DEF FlushedInv
      <3>2. MessageAt(cycle, i)' = MessageAt(cycle, i)
        BY <1>2 DEF MessageAt, BuildEvent, TokenSecond, CycleBase
      <3> QED
        BY <1>2, <2>2, <3>1, <3>2
    <2>4. CASE index' = index
      BY <2>3, <2>4
    <2>5. CASE Produce /\ Message(index) \in Queued'
      <3>1. index' = index + 1 /\ Message(index) = MessageAt(cycle, index)
        BY <2>5, MessageTyped DEF Produce
      <3>2. ASSUME NEW i, i = index
            PROVE  MessageAt(cycle, i)' = MessageAt(cycle, i)
        BY <1>2 DEF MessageAt, BuildEvent, TokenSecond, CycleBase
      <3>3. ASSUME NEW i \in 1 .. index' - 1
            PROVE  MessageAt(cycle, i)'
                     \in (Queued \union Written \union Errors)'
        <4>1. i \in 1 .. index - 1 \/ i = index
          BY <1>0, <3>1
        <4>2. CASE i = index
          BY <2>5, <3>1, <3>2, <4>2
        <4> QED
          BY <2>3, <4>1, <4>2
      <3> QED
        BY <3>3
    <2> QED
      BY <1>2, <2>4, <2>5
  <1> QED
    BY <1>1, <1>2, StepErrors

\* Every step keeps the flushed cycles written, and adds the one it flushes.
LEMMA StepFlushed ==
    ASSUME TypeInv, ClientInv, OwnInv, FlushedInv, [Next]_vars
    PROVE  FlushedInv'
  <1>0. cycle \in Nat /\ index \in Nat /\ Len(Scenario) \in Nat
        /\ DOMAIN Scenario = 1 .. Len(Scenario)
    BY ScenarioTyped DEF TypeInv, TypeOK
  <1>1. (status = Flushing => index > Len(Scenario))'
    <2>1. CASE UNCHANGED programVars
      BY <2>1 DEF programVars, FlushedInv
    <2>2. CASE Start \/ Produce \/ EnterFlush
      BY <2>2 DEF Start, Produce, EnterFlush, Publishing, Flushing
    <2>3. CASE FlushServes
      BY <2>3 DEF FlushServes, FlushedInv
    <2>4. CASE FlushSucceeds \/ FlushFails \/ Interrupt
      BY <2>4 DEF FlushSucceeds, FlushFails, Interrupt, Exit, Publishing,
                  Flushing
    <2> QED
      BY <2>1, <2>2, <2>3, <2>4 DEF Next, vars
  <1>2. Written \subseteq Written'
    BY StepMoves DEF Written
  <1>3. ASSUME NEW n \in FlushedCycles', NEW i \in DOMAIN Scenario
        PROVE  MessageAt(n, i)' \in Written'
    <2>1. CASE Start
      BY <1>3, <2>1 DEF Start, FlushedCycles, Publishing
    <2>2. CASE FlushSucceeds
      <3>1. /\ Active /\ status = Flushing
            /\ Queued = {} /\ Errors = {}
            /\ run' = run /\ base' = base /\ topic' = topic
            /\ \/ /\ cycle' = cycle + 1 /\ index' = 1 /\ status' = Publishing
               \/ /\ cycle' = cycle /\ status' = "returned"
        BY <2>2, FlushIsClean
      <3>2. n \in 1 .. cycle
        BY <1>0, <1>3, <3>1 DEF FlushedCycles, Publishing
      <3>3. MessageAt(n, i) \in Written
        <4>1. CASE n = cycle
          <5>1. i \in 1 .. index - 1
            BY <1>0, <3>1 DEF FlushedInv
          <5> QED
            BY <3>1, <4>1, <5>1 DEF FlushedInv
        <4>2. CASE n # cycle
          <5>1. n \in FlushedCycles
            BY <1>0, <3>1, <3>2, <4>2 DEF FlushedCycles, Flushing
          <5> QED
            BY <5>1 DEF FlushedInv
        <4> QED
          BY <4>1, <4>2
      <3> QED
        BY <1>2, <3>1, <3>3, SameMessages
    <2>3. CASE UNCHANGED programVars \/ Produce \/ EnterFlush \/ FlushServes
               \/ FlushFails \/ Interrupt
      <3>1. UNCHANGED <<run, base, cycle>>
            /\ (status' = "returned" => status = "returned")
            /\ (status = "returned" => status' = "returned")
        BY <2>3 DEF programVars, Produce, EnterFlush, FlushServes, FlushFails,
                    Interrupt, Exit, Publishing, Flushing
      <3>2. n \in FlushedCycles
        BY <1>3, <3>1 DEF FlushedCycles
      <3> QED
        BY <1>2, <3>1, <3>2, SameMessages DEF FlushedInv
    <2> QED
      BY <2>1, <2>2, <2>3 DEF Next, vars
  <1>4. Active' =>
          \A i \in 1 .. index' - 1 :
              MessageAt(cycle, i)' \in (Queued \union Written \union Errors)'
    BY StepProduced
  <1> QED
    BY <1>1, <1>3, <1>4 DEF FlushedInv

\* What has been flushed is in the topic once.
LEMMA FlushedSays ==
    ASSUME TypeInv, ClientInv, OwnInv, FlushedInv
    PROVE  FlushedCyclesDelivered
  <1> SUFFICES ASSUME NEW n \in FlushedCycles, NEW i \in DOMAIN Scenario
               PROVE  Cardinality(Arrivals(n, i)) = 1
    BY DEF FlushedCyclesDelivered
  <1>1. PICK p \in DOMAIN topic : topic[p] = MessageAt(n, i)
    BY DEF FlushedInv, Written, ToSet
  <1>2. ASSUME NEW q \in Arrivals(n, i)
        PROVE  q = p
    <2>1. /\ q \in DOMAIN topic /\ topic[q] \in Written
          /\ topic[q].run = run /\ topic[q].cycle = n /\ topic[q].index = i
      BY <1>2 DEF Arrivals, Written, ToSet
    <2>2. topic[q] = MessageAt(n, i)
      BY <2>1 DEF OwnInv
    <2> QED
      BY <1>1, <2>1, <2>2 DEF ClientInv, IsInjective
  <1>3. p \in Arrivals(n, i)
    BY <1>1 DEF Arrivals, MessageAt
  <1>4. Arrivals(n, i) = {p}
    BY <1>2, <1>3
  <1> QED
    BY <1>4, FS_Singleton
-----------------------------------------------------------------------------
(* Theorems *)

\* The inductive invariant: types, the client's guarantees, and what is true
\* of the messages, the order of their cycles and the flushed ones.
IInv == TypeInv /\ ClientInv /\ OwnInv /\ EventInv /\ OrderInv /\ FlushedInv

LEMMA InvStarts == Init => IInv
  <1> SUFFICES ASSUME Init
               PROVE  IInv
    OBVIOUS
  <1>1. /\ ClientTyped(Messages) /\ ClientInv
        /\ Queued = {} /\ Written = {} /\ adrift = {}
        /\ topic = << >>
    BY ClientStarts DEF Init, ClientInit
  <1>2. /\ run = 0 /\ base = 0 /\ cycle = 0 /\ index = 1
        /\ status = "not run" /\ deliveryErrors = {}
    BY DEF Init
  <1>3. ~ Active /\ Pending \union Written = {} /\ FlushedCycles = {}
    <2>1. ~ Active /\ status # "returned"
      BY <1>2 DEF Active, Publishing, Flushing
    <2>2. FlushedCycles = 1 .. 0 - 1
      BY <1>2, <2>1 DEF FlushedCycles
    <2> QED
      BY <1>1, <2>1, <2>2 DEF Pending
  <1>4. TypeInv
    <2>1. /\ run \in 0 .. MaxRuns /\ cycle \in Nat
          /\ index \in 1 .. Len(Scenario) + 1
          /\ Cycles # 0 => cycle <= Cycles
      <3>1. MaxRuns \in Nat /\ Cycles \in Nat /\ Len(Scenario) \in Nat
        BY ScenarioTyped, OptionAssumption DEF Options
      <3>2. /\ 0 \in 0 .. MaxRuns /\ 0 \in Nat /\ 0 <= Cycles
            /\ 1 \in 1 .. Len(Scenario) + 1
        BY <3>1
      <3>3. run = 0 /\ cycle = 0 /\ index = 1
        BY <1>2
      <3> QED
        BY <3>2, <3>3, Zenon
    <2> QED
      BY <1>1, <1>2, <1>3, <2>1 DEF TypeInv, TypeOK, ClientTyped, Ended
  <1>5. OwnInv /\ EventInv
    BY <1>3 DEF OwnInv, EventInv
  <1>6. OrderInv
    BY <1>1, <1>3 DEF OrderInv, CyclesInOrder
  <1>7. FlushedInv
    BY <1>2, <1>3 DEF FlushedInv, Flushing
  <1> QED
    BY <1>1, <1>4, <1>5, <1>6, <1>7 DEF IInv

THEOREM InvHolds == Spec => []IInv
  <1>1. IInv /\ [Next]_vars => IInv'
    BY StepTyped, StepClient, StepOwn, StepEvent, StepOrder, StepFlushed
       DEF IInv
  <1> QED
    BY InvStarts, <1>1, PTL DEF Spec

\* Every variable of the producer has its type, and no run publishes more
\* cycles than --cycles asks for.
THEOREM TypeCorrect == Spec => []TypeOK
  <1>1. IInv => TypeOK
    BY DEF IInv, TypeInv
  <1> QED
    BY <1>1, InvHolds, PTL

\* A cycle publish_scenario has returned from is in the topic, each event
\* once, whatever the client, the broker and Ctrl+C did: flush's answer and
\* the delivery errors together are enough to know.
THEOREM FlushMeansDelivered == Spec => []FlushedCyclesDelivered
  <1>1. IInv => FlushedCyclesDelivered
    BY FlushedSays DEF IInv
  <1> QED
    BY <1>1, InvHolds, PTL

\* Cycles of a run do not mix in the topic, records given up that arrive late
\* included.
THEOREM CyclesStayInOrder == Spec => []CyclesInOrder
  <1>1. IInv => CyclesInOrder
    BY DEF IInv, OrderInv
  <1> QED
    BY <1>1, InvHolds, PTL

\* An event_id published by build_demo_scenario names one transaction, in
\* every cycle and run, for every base time.
THEOREM IdsNameOneEvent == Spec => []IdNamesOneEvent
  <1>1. IInv => IdNamesOneEvent
    BY EventsSay DEF IInv
  <1> QED
    BY <1>1, InvHolds, PTL

\* The demo scenario is one NamesAssumption allows: the two of its events that
\* have one name are the same event.
THEOREM DemoScenarioIsNamed ==
    \A i, j \in DOMAIN DemoScenario :
        DemoScenario[i].name = DemoScenario[j].name
            => DemoScenario[i] = DemoScenario[j]
  <1> DEFINE D == DemoScenario
  <1>1. DOMAIN D = 1 .. 8
    <2>1. \A a, b, c, d, e, f, g, h :
             DOMAIN <<a, b, c, d, e, f, g, h>> = 1 .. 8
      OBVIOUS
    <2> QED
      BY <2>1 DEF DemoScenario
  <1>2. /\ D[1].name = "normal-001" /\ D[2].name = "velocity-001"
        /\ D[3].name = "velocity-002" /\ D[4].name = "velocity-004"
        /\ D[5].name = "velocity-003" /\ D[6].name = "velocity-002"
        /\ D[7].name = "velocity-005" /\ D[8].name = "velocity-late-001"
        /\ D[3] = D[6]
    BY DEF DemoScenario, DemoEvent
  <1> HIDE DEF D
  <1>3. ASSUME NEW i \in 1 .. 8, NEW j \in 1 .. 8, D[i].name = D[j].name
        PROVE  D[i] = D[j]
    <2>1. /\ i \in {1, 2, 3, 4, 5, 6, 7, 8}
          /\ j \in {1, 2, 3, 4, 5, 6, 7, 8}
      OBVIOUS
    <2> QED
      BY <1>2, <1>3, <2>1
  <1> QED
    BY <1>1, <1>3 DEF D
=============================================================================
