------------------------- MODULE SyntheticProducer -------------------------
(***************************************************************************)
(* The synthetic producer, src/src/producer/synthetic_producer.py: main    *)
(* publishes the demo scenario once per cycle through the asynchronous     *)
(* client of KafkaClient.  A cycle ends with a flush that may give up, and *)
(* Ctrl+C may come at any moment.  The program may then be run again, with *)
(* the same --base-time or another.                                        *)
(*                                                                         *)
(* A cycle has eight messages and the client's queue room for a hundred    *)
(* thousand, so produce never finds it full.                               *)
(***************************************************************************)
EXTENDS KafkaClient

CONSTANTS
    Scenario,        \* the events of one cycle, in publication order
    TicksPerSecond,  \* resolution of --base-time and of the spacing
    Spacing,         \* --cycle-spacing-seconds, in ticks
    Bases,           \* base times of a run, in ticks
    Cycles,          \* --cycles, 0 to repeat until Ctrl+C
    MaxRuns          \* BOUND: times main is run

\* What parse_args accepts.
Options == Spacing \in Nat \ {0} /\ Cycles \in Nat

ASSUME OptionAssumption ==
    /\ Options
    /\ TicksPerSecond \in Nat \ {0}
    /\ Bases \subseteq Nat
    /\ MaxRuns \in Nat

ASSUME ScenarioAssumption ==
    Scenario \in Seq([name : STRING, customer : STRING, seconds : Nat])

\* A name stands for one event, as in build_demo_scenario, whose duplicate is
\* a copy.
ASSUME NamesAssumption ==
    \A i, j \in DOMAIN Scenario :
        Scenario[i].name = Scenario[j].name => Scenario[i] = Scenario[j]

VARIABLES
    run,             \* runs of main so far
    base,            \* base_time of this run
    cycle,           \* as in main
    index,           \* next event of the scenario
    status,          \* where this run is, or how it ended
    deliveryErrors   \* messages with a failed report, in this cycle

programVars == <<run, base, cycle, index, status, deliveryErrors>>
vars == <<programVars, clientVars>>

Publishing == "publishing"    \* in the loop of publish_scenario
Flushing == "flushing"        \* in flush
Ended == {"not run", "returned", "raised", "interrupted"}

-----------------------------------------------------------------------------
(* build_demo_scenario *)

DemoEvent(name, customer, seconds) ==
    [name |-> name, customer |-> customer, seconds |-> seconds]

DemoScenario ==
    << DemoEvent("normal-001", "cust-normal-001", 5),
       DemoEvent("velocity-001", "cust-velocity-001", 0),
       DemoEvent("velocity-002", "cust-velocity-001", 20),
       DemoEvent("velocity-004", "cust-velocity-001", 50),
       DemoEvent("velocity-003", "cust-velocity-001", 40),
       DemoEvent("velocity-002", "cust-velocity-001", 20),
       DemoEvent("velocity-005", "cust-velocity-001", 120),
       DemoEvent("velocity-late-001", "cust-velocity-001", 10) >>

\* The second that names the run_token of a cycle: its base time is cut to
\* whole seconds first, and event times are counted from there.
CycleBase(n) == base + (n - 1) * Spacing

TokenSecond(n) == CycleBase(n) \div TicksPerSecond

BuildEventFromFraction(n, i) ==  \* mutant: base_time keeps its fraction
    [id |-> <<Scenario[i].name, TokenSecond(n)>>,
     customer |-> Scenario[i].customer,
     time |-> CycleBase(n) + Scenario[i].seconds * TicksPerSecond]
BuildEvent(n, i) ==
    [id |-> <<Scenario[i].name, TokenSecond(n)>>,
     customer |-> Scenario[i].customer,
     time |-> (TokenSecond(n) + Scenario[i].seconds) * TicksPerSecond]

Message(i) == [run |-> run, cycle |-> cycle, index |-> i,
               key |-> Scenario[i].customer, event |-> BuildEvent(cycle, i)]

-----------------------------------------------------------------------------
Init ==
    /\ run = 0
    /\ base = 0
    /\ cycle = 0
    /\ index = 1
    /\ status = "not run"
    /\ deliveryErrors = {}
    /\ ClientInit

-----------------------------------------------------------------------------
(* The program *)

\* main begins, with a base time from the option or the clock.
Start ==
    /\ status \in Ended
    /\ run < MaxRuns
    /\ run' = run + 1
    /\ base' \in Bases
    /\ cycle' = 1
    /\ index' = 1
    /\ status' = Publishing
    /\ deliveryErrors' = {}
    /\ UNCHANGED clientVars

\* on_delivery, called for each report that poll or flush serves.
ErrorsServed == deliveryErrors \union ReportsOf(FALSE)

\* produce, and the poll behind it that serves the reports there are.
Produce ==
    /\ status = Publishing
    /\ index <= Len(Scenario)
    /\ EnqueueAndPoll(Message(index))
    /\ deliveryErrors' = ErrorsServed
    /\ index' = index + 1
    /\ UNCHANGED <<run, base, cycle, status>>

EnterFlush ==
    /\ status = Publishing
    /\ index > Len(Scenario)
    /\ status' = Flushing
    /\ UNCHANGED <<run, base, cycle, index, deliveryErrors, clientVars>>

\* flush runs callbacks while it waits.
FlushServes ==
    /\ status = Flushing
    /\ reports # << >>
    /\ ServeReports
    /\ deliveryErrors' = ErrorsServed
    /\ UNCHANGED <<run, base, cycle, index, status>>

\* The client settled everything and no report was an error.
PublishedUnflushed == deliveryErrors = {}  \* mutant: flush's answer is ignored
PublishedUnreported == Remaining = 0  \* mutant: errors are only printed
Published == Remaining = 0 /\ deliveryErrors = {}

\* main's loop goes on, or is over.
MoreCyclesInclusive == Cycles = 0 \/ cycle <= Cycles  \* mutant: off by one
MoreCycles == Cycles = 0 \/ cycle < Cycles

NextCycleForgotten == cycle  \* mutant: cycle += 1 is missing
NextCycle == cycle + 1

\* publish_scenario returns, and begins the next cycle with no errors.
FlushSucceeds ==
    /\ status = Flushing
    /\ Published
    /\ deliveryErrors' = {}
    /\ IF MoreCycles
         THEN cycle' = NextCycle /\ index' = 1 /\ status' = Publishing
         ELSE status' = "returned" /\ UNCHANGED <<cycle, index>>
    /\ UNCHANGED <<run, base, clientVars>>

Exit(how) ==
    /\ status' = how
    /\ CloseClient
    /\ UNCHANGED <<run, base, cycle, index, deliveryErrors>>

\* publish_scenario raises: some report was an error, or the fifteen seconds
\* are over with messages remaining.
FlushFails == status = Flushing /\ ~Published /\ Exit("raised")

\* KeyboardInterrupt, which main answers with status 0.
Interrupt == status \in {Publishing, Flushing} /\ Exit("interrupted")

Next ==
    \/ Start
    \/ Produce
    \/ EnterFlush
    \/ FlushServes
    \/ FlushSucceeds
    \/ FlushFails
    \/ Interrupt
    \/ ClientStep /\ UNCHANGED programVars

Spec == Init /\ [][Next]_vars

\* The program takes its next step, and the client settles every message
\* within its timeout, with or without a broker.
Fairness ==
    /\ WF_vars(Produce)
    /\ WF_vars(EnterFlush)
    /\ WF_vars(FlushServes)
    /\ WF_vars(FlushSucceeds)
    /\ WF_vars(FlushFails)
    /\ WF_vars(Settle /\ UNCHANGED programVars)

FairSpec == Spec /\ Fairness

-----------------------------------------------------------------------------
(* Properties *)

Events == [id : (STRING \X Nat), customer : STRING, time : Nat]
Messages == [run : Nat, cycle : Nat \ {0}, index : DOMAIN Scenario,
             key : STRING, event : Events]

\* Every variable has its type, and no run has more cycles than it was asked.
TypeOK ==
    /\ run \in 0 .. MaxRuns
    /\ base \in Bases \union {0}
    /\ cycle \in Nat
    /\ Cycles # 0 => cycle <= Cycles
    /\ index \in 1 .. Len(Scenario) + 1
    /\ status \in Ended \union {Publishing, Flushing}
    /\ deliveryErrors \subseteq Messages
    /\ ClientTyped(Messages)

\* The cycles of this run that publish_scenario has returned from.
FlushedCycles == IF status = "returned" THEN 1 .. cycle ELSE 1 .. cycle - 1

Arrivals(n, i) == {p \in DOMAIN topic : /\ topic[p].run = run
                                        /\ topic[p].cycle = n
                                        /\ topic[p].index = i}

\* A cycle that is reported as published is in the topic, each of its events
\* once: before the next cycle starts, after a normal return, and also when a
\* later cycle fails or is interrupted.
FlushedCyclesDelivered ==
    \A n \in FlushedCycles : \A i \in DOMAIN Scenario :
        Cardinality(Arrivals(n, i)) = 1

\* Within a run no event of a cycle arrives behind one of a later cycle: the
\* flush keeps their disorder apart, late arrivals included.
CyclesInOrder ==
    \A p, q \in DOMAIN topic :
        (p < q /\ topic[p].run = topic[q].run)
            => topic[p].cycle <= topic[q].cycle

\* An event_id names one transaction: whatever is published under it again,
\* by the intentional duplicate, a close cycle or another run, is equal to
\* the first.  The deduplication takes the first copy for all of them.
IdNamesOneEvent ==
    \A p, q \in DOMAIN topic :
        topic[p].event.id = topic[q].event.id
            => topic[p].event = topic[q].event

\* A run with a number of cycles ends, with or without a broker.
Terminates == (status \in {Publishing, Flushing}) ~> (status \in Ended)
=============================================================================
