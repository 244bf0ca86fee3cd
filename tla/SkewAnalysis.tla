---------------------------- MODULE SkewAnalysis ----------------------------
(***************************************************************************)
(* The skew analysis, src/src/producer/skew_analysis.py: main builds a     *)
(* balanced and a hot-key scenario of equal volume, simulates or publishes *)
(* them, and reports how their records spread over the partitions.         *)
(*                                                                         *)
(* In publish mode the partitions come from the delivery reports of the    *)
(* client of KafkaClient, and the records are so many that its queue may   *)
(* be full: produce then raises BufferError and is tried again behind a    *)
(* poll.                                                                   *)
(***************************************************************************)
EXTENDS KafkaClient, FiniteSetsExt

CONSTANTS
    Invocations,      \* the options main may be given; a share is a fraction
    TopicPartitions,  \* partitions the topic really has
    QueueLimit,       \* messages the client's queue has room for
    Crc32(_),         \* zlib.crc32 of a customer's key
    Partitioner(_, _) \* what the client's "consistent_random" makes of a key
                      \* that is not empty and a number of partitions

\* What _positive_int and _hot_key_share accept.
Options ==
    \A a \in Invocations :
        /\ a.mode \in {"simulate", "publish"}
        /\ a.partitions \in Nat \ {0}
        /\ a.events \in Nat \ {0}
        /\ 0 < a.share.num /\ a.share.num < a.share.den

ASSUME OptionAssumption ==
    /\ Options
    /\ TopicPartitions \in Nat \ {0}
    /\ QueueLimit \in Nat \ {0}

\* The client puts the key of a customer that the scenarios may name in a
\* partition that the topic has.
ASSUME PartitionerAssumption ==
    \A a \in Invocations :
        \A kind \in {"cust-balanced", "cust-hot", "cust-cold"},
           i \in 0 .. a.events :
              Partitioner(<<kind, i>>, TopicPartitions)
                 \in 0 .. TopicPartitions - 1

VARIABLES
    args,      \* the options of this run
    status,    \* where main is, or how it ended
    scenario,  \* scenario that publish_scenarios is in
    index,     \* its next record
    observed,  \* per scenario and record: the partition reported, or None
    failed     \* delivery_errors is not empty

programVars == <<args, status, scenario, index, observed, failed>>
vars == <<programVars, clientVars>>

Scenarios == <<"balanced", "hot_key">>
Names == ToSet(Scenarios)
Indices == 0 .. args.events - 1
None == -1
Ended == {"reported", "raised"}

-----------------------------------------------------------------------------
(* build_reference_scenarios *)

\* Python's round: to the nearest integer, ties to the even one.
Rounded(num, den) ==
    LET q == num \div den
        r == num % den
    IN  CASE 2 * r < den -> q
          [] 2 * r > den -> q + 1
          [] 2 * r = den -> q + (q % 2)

HotEventCount == Rounded(args.events * args.share.num, args.share.den)

\* It raises unless both kinds of key have an event.
Buildable == HotEventCount \in 1 .. args.events - 1

HotCustomer == <<"cust-hot", 1>>

CustomerOf(name, i) ==
    CASE name = "balanced" -> <<"cust-balanced", i>>
      [] name = "hot_key" /\ i < HotEventCount -> HotCustomer
      [] OTHER -> <<"cust-cold", i - HotEventCount>>

-----------------------------------------------------------------------------
(* The program's own hash, and the partitioner of the client *)

PartitionForKey(customer, count) == Crc32(customer) % count

PublishedToInTurn(name, i) == i % TopicPartitions  \* mutant: ignores the key
PublishedTo(name, i) == Partitioner(CustomerOf(name, i), TopicPartitions)

-----------------------------------------------------------------------------
(* summarize_scenario *)

Assignments(name) ==
    IF args.mode = "publish"
      THEN observed[name]
      ELSE [i \in Indices |-> PartitionForKey(CustomerOf(name, i),
                                              args.partitions)]

PartitionRange == 0 .. args.partitions - 1

\* It raises for an assignment outside the range.
Summarizable(name) == \A i \in Indices : Assignments(name)[i] \in PartitionRange

EventsIn(name, p) == {i \in Indices : Assignments(name)[i] = p}

UniqueKeyCount(name, p) ==
    Cardinality({CustomerOf(name, i) : i \in EventsIn(name, p)})

EventCountOfKeys(name, p) == UniqueKeyCount(name, p)  \* mutant
EventCount(name, p) == Cardinality(EventsIn(name, p))

\* The partition with most events, the first of them on a tie.
Busiest(name) ==
    CHOOSE p \in PartitionRange :
        \A q \in PartitionRange \ {p} :
            \/ EventCount(name, q) < EventCount(name, p)
            \/ EventCount(name, q) = EventCount(name, p) /\ p < q

\* render_report computes this partition anew.
HotPartition == PartitionForKey(HotCustomer, args.partitions)

-----------------------------------------------------------------------------
Init ==
    /\ args \in Invocations
    /\ status = "parsed"
    /\ scenario = 1
    /\ index = 0
    /\ observed = [name \in Names |-> [i \in Indices |-> None]]
    /\ failed = FALSE
    /\ ClientInit

\* main builds the scenarios.
Build ==
    /\ status = "parsed"
    /\ status' = CASE ~Buildable -> "raised"
                   [] Buildable /\ args.mode = "publish" -> "publishing"
                   [] Buildable /\ args.mode = "simulate" -> "summarizing"
    /\ UNCHANGED <<args, scenario, index, observed, failed, clientVars>>

-----------------------------------------------------------------------------
(* publish_scenarios *)

\* Where on_delivery writes: callback_for binds the record of each message.
SlotAtCallback(m) == <<Scenarios[scenario], index>>  \* mutant: late binding
Slot(m) == <<m.name, m.index>>

\* The reports on_delivery takes for deliveries.
ConfirmedAny == ReportsOf(TRUE) \union ReportsOf(FALSE)  \* mutant: no return
Confirmed == ReportsOf(TRUE)

\* on_delivery, for each report that poll or flush serves.
Callbacks ==
    /\ failed' = (failed \/ ReportsOf(FALSE) # {})
    /\ observed' =
         [name \in Names |-> [i \in Indices |->
            IF \E m \in Confirmed : Slot(m) = <<name, i>>
              THEN (CHOOSE m \in Confirmed : Slot(m) = <<name, i>>).partition
              ELSE observed[name][i]]]

Message(name, i) == [name |-> name, index |-> i, key |-> CustomerOf(name, i),
                     partition |-> PublishedTo(name, i)]

LastRecordInclusive == index >= args.events  \* mutant: one iteration more
LastRecord == index + 1 >= args.events

\* A message keeps its place until its report is served.
QueueFull == Remaining >= QueueLimit

Produce ==
    /\ status = "publishing"
    /\ ~QueueFull
    /\ EnqueueAndPoll(Message(Scenarios[scenario], index))
    /\ Callbacks
    /\ \/ /\ ~LastRecord
          /\ index' = index + 1
          /\ UNCHANGED <<scenario, status>>
       \/ /\ LastRecord
          /\ scenario < Len(Scenarios)
          /\ index' = 0
          /\ scenario' = scenario + 1
          /\ UNCHANGED status
       \/ /\ LastRecord
          /\ scenario = Len(Scenarios)
          /\ status' = "flushing"
          /\ UNCHANGED <<scenario, index>>
    /\ UNCHANGED args

\* BufferError: poll, then produce again.  A poll without reports changes
\* nothing.
AwaitRoomAsleep == QueueFull /\ UNCHANGED vars  \* mutant: sleeps, no poll
AwaitRoom ==
    /\ status = "publishing"
    /\ QueueFull
    /\ reports # << >>
    /\ ServeReports
    /\ Callbacks
    /\ UNCHANGED <<args, status, scenario, index>>

FlushServes ==
    /\ status = "flushing"
    /\ reports # << >>
    /\ ServeReports
    /\ Callbacks
    /\ UNCHANGED <<args, status, scenario, index>>

\* flush settled everything, and no report was an error.
Published == Remaining = 0 /\ ~failed

\* publish_scenarios returns, unless a report is missing.
FlushSucceeds ==
    /\ status = "flushing"
    /\ Published
    /\ status' = IF \E name \in Names, i \in Indices : observed[name][i] = None
                   THEN "raised"
                   ELSE "summarizing"
    /\ UNCHANGED <<args, scenario, index, observed, failed, clientVars>>

\* Some report was an error, or the thirty seconds are over.
FlushFails ==
    /\ status = "flushing"
    /\ ~Published
    /\ status' = "raised"
    /\ CloseClient
    /\ UNCHANGED <<args, scenario, index, observed, failed>>

\* main summarizes both scenarios and prints the report.
Summarize ==
    /\ status = "summarizing"
    /\ status' = IF \A name \in Names : Summarizable(name) THEN "reported"
                                                           ELSE "raised"
    /\ UNCHANGED <<args, scenario, index, observed, failed, clientVars>>

Next ==
    \/ Build
    \/ Produce
    \/ AwaitRoom
    \/ FlushServes
    \/ FlushSucceeds
    \/ FlushFails
    \/ Summarize
    \/ ClientStep /\ UNCHANGED programVars

Spec == Init /\ [][Next]_vars

\* The program takes its next step, and the client settles every message
\* within its timeout, with or without a broker.
Fairness ==
    /\ WF_vars(Build)
    /\ WF_vars(Produce)
    /\ WF_vars(AwaitRoom)
    /\ WF_vars(FlushServes)
    /\ WF_vars(FlushSucceeds)
    /\ WF_vars(FlushFails)
    /\ WF_vars(Summarize)
    /\ WF_vars(Settle /\ UNCHANGED programVars)

FairSpec == Spec /\ Fairness

-----------------------------------------------------------------------------
(* Properties *)

\* The messages of publish_scenarios.
Customers == {"cust-balanced", "cust-hot", "cust-cold"} \X Nat

Messages == [name : Names, index : Nat, key : Customers,
             partition : 0 .. TopicPartitions - 1]

\* Types: a scenario's next record is one it has, what is noted for a record
\* is a partition of the topic, and the client handles messages only.
TypeOK ==
    /\ args \in Invocations
    /\ status \in {"parsed", "publishing", "flushing", "summarizing"}
                     \union Ended
    /\ scenario \in DOMAIN Scenarios
    /\ index \in Indices
    /\ observed \in [Names -> [Indices -> {None}
                                   \union 0 .. TopicPartitions - 1]]
    /\ failed \in BOOLEAN
    /\ ClientTyped(Messages)

HotIndices == 0 .. HotEventCount - 1

InTopic(name, i) == {n \in DOMAIN topic : /\ topic[n].name = name
                                          /\ topic[n].index = i}

\* Whatever the order in which records arrive, time out and are reported, a
\* partition noted for a record is the one that record is in, and it is there
\* once.  A partial failure leaves no observation of what was not delivered.
ObservationsAreTrue ==
    \A name \in Names, i \in Indices :
        observed[name][i] # None =>
            /\ Cardinality(InTopic(name, i)) = 1
            /\ \A n \in InTopic(name, i) :
                  topic[n].partition = observed[name][i]

\* A report on a publication counts every record of a scenario in the
\* partition it is in, none missing and none twice.
ReportIsTheTopic ==
    (status = "reported" /\ args.mode = "publish") =>
        \A name \in Names :
            /\ MapThenSumSet(LAMBDA p : EventCount(name, p), PartitionRange)
                 = args.events
            /\ \A p \in PartitionRange :
                  EventCount(name, p) =
                      Cardinality({n \in DOMAIN topic :
                                      /\ topic[n].name = name
                                      /\ topic[n].partition = p})

\* However many partitions there are, and whether they were simulated or
\* observed, no key is in two of them, so all events of the hot key, some of
\* the scenario's but not all, are in one and the busiest has at least as
\* many: what render_report concludes.
HotKeyIsNotSplit ==
    status = "reported" =>
        /\ \A name \in Names :
              MapThenSumSet(LAMBDA p : UniqueKeyCount(name, p), PartitionRange)
                = Cardinality({CustomerOf(name, i) : i \in Indices})
        /\ HotIndices \notin {{}, Indices}
        /\ \E p \in PartitionRange : HotIndices \subseteq EventsIn("hot_key", p)
        /\ EventCount("hot_key", Busiest("hot_key")) >= HotEventCount

\* What a publication prints comes from the delivery callbacks: the partition
\* that the HOT_KEY line names is the one the hot key's events were put in.
HotLineIsObserved ==
    (status = "reported" /\ args.mode = "publish") =>
        HotIndices \subseteq EventsIn("hot_key", HotPartition)

\* The analysis ends, whether or not the broker answers and however small the
\* client's queue is.
Terminates == (status = "parsed") ~> (status \in Ended)
=============================================================================
