---------------------------- MODULE KafkaClient ----------------------------
(***************************************************************************)
(* The asynchronous producer of confluent_kafka and the broker, as the     *)
(* producers of src/src/producer use them.  produce only enqueues; a       *)
(* thread of the client sends, the broker answers or the message times     *)
(* out, and the delivery callbacks run inside poll and flush.  The         *)
(* programs extend this module and take its steps between their own.       *)
(***************************************************************************)
EXTENDS Integers, Sequences, FiniteSets, SequencesExt

VARIABLES
    queue,    \* messages the client has not settled; each has a key
    reports,  \* delivery reports that no poll has served
    topic,    \* bank.transactions.raw, in the order of arrival
    adrift    \* messages given up that may still reach the broker

clientVars == <<queue, reports, topic, adrift>>

\* The types of the client and the topic, for messages of the set M.
ClientTyped(M) ==
    /\ queue \in Seq(M)
    /\ reports \in Seq([message : M, delivered : BOOLEAN])
    /\ topic \in Seq(M)
    /\ adrift \subseteq M

ClientInit ==
    /\ queue = << >>
    /\ reports = << >>
    /\ topic = << >>
    /\ adrift = {}

-----------------------------------------------------------------------------
(* What a program calls *)

\* poll or flush runs the callbacks of the reports there are.
ServeReports ==
    /\ reports' = << >>
    /\ UNCHANGED <<queue, topic, adrift>>

\* produce, and the poll behind it.
EnqueueAndPoll(message) ==
    /\ queue' = Append(queue, message)
    /\ reports' = << >>
    /\ UNCHANGED <<topic, adrift>>

ReportsOf(delivered) ==
    {reports[i].message : i \in {j \in DOMAIN reports :
                                    reports[j].delivered = delivered}}

\* Messages that flush returns as remaining.
Remaining == Len(queue) + Len(reports)

\* The process ends: what its client had queued was never sent or is adrift.
CloseClient ==
    /\ adrift' = adrift \union (ToSet(queue) \ ToSet(topic))
    /\ queue' = << >>
    /\ reports' = << >>
    /\ UNCHANGED topic

-----------------------------------------------------------------------------
(* The client's thread and the broker *)

\* A record reaches the broker.  The idempotent client writes each message
\* once, and those of one key, that is of one partition, in order.
BrokerAppends(i) ==
    /\ queue[i] \notin ToSet(topic)
    /\ \A j \in 1 .. i - 1 :
          queue[j].key = queue[i].key => queue[j] \in ToSet(topic)
    /\ topic' = Append(topic, queue[i])
    /\ UNCHANGED <<queue, reports, adrift>>

Report(i, delivered) ==
    /\ queue' = RemoveAt(queue, i)
    /\ reports' = Append(reports, [message |-> queue[i],
                                   delivered |-> delivered])
    /\ UNCHANGED topic

Acknowledge(i) ==
    /\ queue[i] \in ToSet(topic)
    /\ Report(i, TRUE)
    /\ UNCHANGED adrift

\* delivery.timeout.ms, whether or not the record was or will be written.
TimeOut(i) ==
    /\ Report(i, FALSE)
    /\ adrift' = adrift \union ({queue[i]} \ ToSet(topic))

\* A record the client has given up reaches the broker after all.
Arrive(m) ==
    /\ topic' = Append(topic, m)
    /\ adrift' = adrift \ {m}
    /\ UNCHANGED <<queue, reports>>

Settle == \E i \in DOMAIN queue : Acknowledge(i) \/ TimeOut(i)

ClientStep ==
    \/ \E i \in DOMAIN queue : BrokerAppends(i)
    \/ Settle
    \/ \E m \in adrift : Arrive(m)
=============================================================================
