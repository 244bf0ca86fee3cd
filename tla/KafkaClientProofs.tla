-------------------------- MODULE KafkaClientProofs --------------------------
(* What the client of the producers and the broker guarantee whatever the    *)
(* program around them does: no message is written twice, and one that has   *)
(* left the client is settled.  The proofs about the producers cite them.    *)
EXTENDS KafkaClient, CollectionLemmas

Queued == ToSet(queue)
Written == ToSet(topic)
Failed == ReportsOf(FALSE)

\* No message is in two places of the client or twice in the topic, and one
\* with the report of a delivery is in the topic.
ClientInv ==
    /\ IsInjective(queue)
    /\ IsInjective(topic)
    /\ Queued \intersect adrift = {}
    /\ Written \intersect adrift = {}
    /\ ReportsOf(TRUE) \subseteq Written

-----------------------------------------------------------------------------
(* Reports *)

\* A new report adds its message to those reported the same way.
LEMMA NewReport ==
    ASSUME NEW M, NEW m \in M, NEW d \in BOOLEAN,
           reports \in Seq([message : M, delivered : BOOLEAN]),
           reports' = Append(reports, [message |-> m, delivered |-> d])
    PROVE  /\ reports' \in Seq([message : M, delivered : BOOLEAN])
           /\ ReportsOf(d)' = ReportsOf(d) \union {m}
           /\ ReportsOf(~d)' = ReportsOf(~d)
  <1> DEFINE r == [message |-> m, delivered |-> d]
             n == Len(reports)
  <1>1. r \in [message : M, delivered : BOOLEAN]
    OBVIOUS
  <1>2. /\ reports' \in Seq([message : M, delivered : BOOLEAN])
        /\ n \in Nat /\ DOMAIN reports = 1 .. n
        /\ DOMAIN reports' = 1 .. n + 1
        /\ \A j \in 1 .. n : reports'[j] = reports[j]
        /\ reports'[n + 1] = r
    BY <1>1, AppendMeans
  <1>3. 1 .. n + 1 = (1 .. n) \union {n + 1}
    BY <1>2
  <1>4. ASSUME NEW b \in BOOLEAN
        PROVE  ReportsOf(b)' = ReportsOf(b)
                                 \union (IF b = d THEN {m} ELSE {})
    BY <1>2, <1>3 DEF ReportsOf
  <1>5. ReportsOf(~d)' = ReportsOf(~d)
    BY <1>4
  <1> QED
    BY <1>2, <1>4, <1>5

\* Once reports have been served there are none.
LEMMA NoReports == \A b : reports = << >> => ReportsOf(b) = {}
  BY DEF ReportsOf

\* When nothing remains, nothing is queued and no report is missing.
LEMMA NothingRemains ==
    ASSUME NEW M, ClientTyped(M), Remaining = 0
    PROVE  Queued = {} /\ \A b : ReportsOf(b) = {}
  <1>1. /\ queue \in Seq(M) /\ reports \in Seq([message : M, delivered : BOOLEAN])
        /\ Len(queue) + Len(reports) = 0
    BY DEF ClientTyped, Remaining
  <1>2. Len(queue) \in Nat /\ Len(reports) \in Nat
    BY <1>1
  <1>3. Len(queue) = 0 /\ Len(reports) = 0
    BY <1>1, <1>2
  <1>4. DOMAIN queue = {} /\ DOMAIN reports = {}
    BY <1>1, <1>3
  <1> QED
    BY <1>4 DEF Queued, ToSet, ReportsOf

-----------------------------------------------------------------------------
(* The client's own steps, as what becomes of one message *)

KeepsReports == \A b \in BOOLEAN : ReportsOf(b)' = ReportsOf(b)

Appends(m) ==
    /\ m \in Queued /\ m \notin Written
    /\ topic' = Append(topic, m)
    /\ Queued' = Queued /\ adrift' = adrift /\ KeepsReports

Arrives(m) ==
    /\ m \in adrift
    /\ topic' = Append(topic, m)
    /\ adrift' = adrift \ {m}
    /\ Queued' = Queued /\ KeepsReports

IsAcknowledged(m) ==
    /\ m \in Queued /\ m \in Written
    /\ Queued' = Queued \ {m}
    /\ ReportsOf(TRUE)' = ReportsOf(TRUE) \union {m}
    /\ Failed' = Failed /\ adrift' = adrift /\ topic' = topic

IsGivenUp(m) ==
    /\ m \in Queued
    /\ Queued' = Queued \ {m}
    /\ adrift' = adrift \union ({m} \ Written)
    /\ Failed' = Failed \union {m}
    /\ ReportsOf(TRUE)' = ReportsOf(TRUE) /\ topic' = topic

\* A step of the client or the broker moves one message, and keeps the types.
LEMMA ClientMoves ==
    ASSUME NEW M, ClientTyped(M), ClientInv, ClientStep
    PROVE  /\ ClientTyped(M)'
           /\ \E m \in M : \/ Appends(m) \/ Arrives(m)
                           \/ IsAcknowledged(m) \/ IsGivenUp(m)
  <1>0. /\ queue \in Seq(M) /\ topic \in Seq(M) /\ adrift \subseteq M
        /\ reports \in Seq([message : M, delivered : BOOLEAN])
        /\ IsInjective(queue)
    BY DEF ClientTyped, ClientInv
  <1>1. \A i \in DOMAIN queue : queue[i] \in M /\ queue[i] \in Queued
    BY <1>0 DEF Queued, ToSet
  <1>2. ASSUME NEW i \in DOMAIN queue, BrokerAppends(i)
        PROVE  Appends(queue[i]) /\ ClientTyped(M)'
    <2>1. topic' \in Seq(M)
      BY <1>0, <1>1, <1>2 DEF BrokerAppends
    <2> QED
      BY <1>0, <1>1, <1>2, <2>1
         DEF BrokerAppends, Appends, KeepsReports, ReportsOf, Queued, Written,
             ClientTyped
  <1>3. ASSUME NEW i \in DOMAIN queue, NEW d \in BOOLEAN, Report(i, d)
        PROVE  /\ queue' \in Seq(M) /\ topic' = topic
               /\ Queued' = Queued \ {queue[i]}
               /\ reports' \in Seq([message : M, delivered : BOOLEAN])
               /\ ReportsOf(d)' = ReportsOf(d) \union {queue[i]}
               /\ ReportsOf(~d)' = ReportsOf(~d)
    <2>1. queue' = RemoveAt(queue, i) /\ topic' = topic
      BY <1>3 DEF Report
    <2>2. queue' \in Seq(M) /\ ToSet(queue)' = ToSet(queue) \ {queue[i]}
      BY <1>0, <2>1, RemoveMeans
    <2>3. /\ reports' \in Seq([message : M, delivered : BOOLEAN])
          /\ ReportsOf(d)' = ReportsOf(d) \union {queue[i]}
          /\ ReportsOf(~d)' = ReportsOf(~d)
      BY <1>0, <1>1, <1>3, NewReport DEF Report
    <2> QED
      BY <2>1, <2>2, <2>3 DEF Queued
  <1>4. ASSUME NEW i \in DOMAIN queue, Acknowledge(i)
        PROVE  IsAcknowledged(queue[i]) /\ ClientTyped(M)'
    <2>1. Report(i, TRUE) /\ queue[i] \in Written /\ adrift' = adrift
      BY <1>4 DEF Acknowledge, Written
    <2> QED
      BY <1>0, <1>1, <1>3, <2>1 DEF IsAcknowledged, ClientTyped, Failed
  <1>5. ASSUME NEW i \in DOMAIN queue, TimeOut(i)
        PROVE  IsGivenUp(queue[i]) /\ ClientTyped(M)'
    <2>1. /\ Report(i, FALSE)
          /\ adrift' = adrift \union ({queue[i]} \ Written)
      BY <1>5 DEF TimeOut, Written
    <2> QED
      BY <1>0, <1>1, <1>3, <2>1 DEF IsGivenUp, ClientTyped, Failed
  <1>6. ASSUME NEW m \in adrift, Arrive(m)
        PROVE  Arrives(m) /\ ClientTyped(M)'
    <2>1. topic' \in Seq(M)
      BY <1>0, <1>6 DEF Arrive
    <2> QED
      BY <1>0, <1>6, <2>1
         DEF Arrive, Arrives, KeepsReports, ReportsOf, Queued, ClientTyped
  <1>7. \/ \E i \in DOMAIN queue : \/ BrokerAppends(i)
                                   \/ Acknowledge(i) \/ TimeOut(i)
        \/ \E m \in adrift : Arrive(m)
    BY DEF ClientStep, Settle
  <1> QED
    BY <1>0, <1>1, <1>2, <1>4, <1>5, <1>6, <1>7

\* What moves a message keeps it in one place.
LEMMA ClientStepKeeps ==
    ASSUME NEW M, ClientTyped(M), ClientInv, ClientStep
    PROVE  ClientInv'
  <1>0. queue \in Seq(M) /\ topic \in Seq(M) /\ IsInjective(queue)
        /\ IsInjective(topic)
    BY DEF ClientTyped, ClientInv
  <1>1. PICK m \in M : \/ Appends(m) \/ Arrives(m)
                       \/ IsAcknowledged(m) \/ IsGivenUp(m)
    BY ClientMoves
  <1>2. IsInjective(queue')
    <2>1. queue' = queue \/ \E i \in DOMAIN queue : queue' = RemoveAt(queue, i)
      BY DEF ClientStep, Settle, BrokerAppends, Acknowledge, TimeOut, Report,
             Arrive
    <2> QED
      BY <1>0, <2>1, RemoveMeans
  <1>3. ASSUME topic' = Append(topic, m), m \notin Written
        PROVE  IsInjective(topic') /\ Written' = Written \union {m}
    BY <1>0, <1>3, AppendMeans, AppendNew DEF Written
  <1>4. CASE Appends(m)
    <2>1. m \notin adrift
      BY <1>4 DEF Appends, ClientInv
    <2> QED
      BY <1>2, <1>3, <1>4, <2>1 DEF Appends, KeepsReports, ClientInv
  <1>5. CASE Arrives(m)
    <2>1. m \notin Written
      BY <1>5 DEF Arrives, ClientInv
    <2> QED
      BY <1>2, <1>3, <1>5, <2>1 DEF Arrives, KeepsReports, ClientInv
  <1>6. CASE IsAcknowledged(m)
    <2>1. Written' = Written
      BY <1>6 DEF IsAcknowledged, Written
    <2> QED
      BY <1>0, <1>2, <1>6, <2>1 DEF IsAcknowledged, ClientInv
  <1>7. CASE IsGivenUp(m)
    <2>1. Written' = Written
      BY <1>7 DEF IsGivenUp, Written
    <2> QED
      BY <1>0, <1>2, <1>7, <2>1 DEF IsGivenUp, ClientInv
  <1> QED
    BY <1>1, <1>4, <1>5, <1>6, <1>7

Pending == Queued \union adrift

\* The client and the broker lose no message and make up none: one that is
\* written was pending, one that leaves the queue is written or has failed.
LEMMA ClientConserves ==
    ASSUME NEW M, ClientTyped(M), ClientInv, ClientStep
    PROVE  /\ (Pending \union Written)' = Pending \union Written
           /\ Pending' \subseteq Pending
           /\ Written \subseteq Written'
           /\ Failed \subseteq Failed'
           /\ Queued \subseteq (Queued \union Written \union Failed)'
           /\ adrift' \subseteq adrift \union Failed'
           /\ \/ topic' = topic
              \/ \E m \in Pending : topic' = Append(topic, m)
  <1>1. PICK m \in M : \/ Appends(m) \/ Arrives(m)
                       \/ IsAcknowledged(m) \/ IsGivenUp(m)
    BY ClientMoves
  <1>2. topic' = topic => Written' = Written
    BY DEF Written
  <1>3. topic' = Append(topic, m) => Written' = Written \union {m}
    BY AppendMeans DEF Written, ClientTyped
  <1>4. CASE Appends(m)
    BY <1>3, <1>4 DEF Appends, KeepsReports, Pending, Failed
  <1>5. CASE Arrives(m)
    BY <1>3, <1>5 DEF Arrives, KeepsReports, Pending, Failed
  <1>6. CASE IsAcknowledged(m)
    BY <1>2, <1>6 DEF IsAcknowledged, Pending
  <1>7. CASE IsGivenUp(m)
    BY <1>2, <1>7 DEF IsGivenUp, Pending
  <1> QED
    BY <1>1, <1>4, <1>5, <1>6, <1>7

-----------------------------------------------------------------------------
(* What a program calls *)

\* A client starts with nothing.
LEMMA ClientStarts ==
    ASSUME NEW M, ClientInit
    PROVE  /\ ClientTyped(M) /\ ClientInv
           /\ Queued = {} /\ Written = {} /\ adrift = {}
           /\ \A b : ReportsOf(b) = {}
  BY DEF ClientInit, ClientTyped, ClientInv, Queued, Written, ToSet,
         ReportsOf, IsInjective

\* produce queues a message that is new, and its poll serves the reports.
LEMMA ProduceQueues ==
    ASSUME NEW M, NEW m \in M, ClientTyped(M), ClientInv, EnqueueAndPoll(m),
           m \notin Queued, m \notin adrift
    PROVE  /\ ClientTyped(M)' /\ ClientInv'
           /\ Queued' = Queued \union {m}
           /\ \A b : ReportsOf(b)' = {}
           /\ topic' = topic /\ adrift' = adrift
  <1>1. /\ queue' = Append(queue, m) /\ reports' = << >>
        /\ topic' = topic /\ adrift' = adrift
    BY DEF EnqueueAndPoll
  <1>2. queue \in Seq(M) /\ IsInjective(queue)
    BY DEF ClientTyped, ClientInv
  <1>3. queue' \in Seq(M) /\ Queued' = Queued \union {m} /\ IsInjective(queue')
    BY <1>1, <1>2, AppendMeans, AppendNew DEF Queued
  <1>4. \A b : ReportsOf(b)' = {}
    BY <1>1 DEF ReportsOf
  <1>5. Written' = Written
    BY <1>1 DEF Written
  <1>6. ClientTyped(M)'
    BY <1>1, <1>3 DEF ClientTyped
  <1>7. ClientInv'
    BY <1>1, <1>3, <1>4, <1>5 DEF ClientInv
  <1> QED
    BY <1>1, <1>3, <1>4, <1>6, <1>7

\* poll and flush change nothing but the reports, which are served.
LEMMA PollServes ==
    ASSUME NEW M, ClientTyped(M), ClientInv, ServeReports
    PROVE  /\ ClientTyped(M)' /\ ClientInv'
           /\ \A b : ReportsOf(b)' = {}
           /\ Queued' = Queued /\ topic' = topic /\ adrift' = adrift
  <1>1. reports' = << >> /\ UNCHANGED <<queue, topic, adrift>>
    BY DEF ServeReports
  <1>2. \A b : ReportsOf(b)' = {}
    BY <1>1 DEF ReportsOf
  <1>3. Queued' = Queued /\ Written' = Written
    BY <1>1 DEF Queued, Written
  <1>4. ClientTyped(M)'
    BY <1>1 DEF ClientTyped
  <1>5. ClientInv'
    BY <1>1, <1>2, <1>3 DEF ClientInv
  <1> QED
    BY <1>1, <1>2, <1>3, <1>4, <1>5

\* A process that ends leaves adrift what was queued and is not written.
LEMMA CloseLeaves ==
    ASSUME NEW M, ClientTyped(M), ClientInv, CloseClient
    PROVE  /\ ClientTyped(M)' /\ ClientInv'
           /\ Queued' = {} /\ \A b : ReportsOf(b)' = {}
           /\ adrift' = adrift \union (Queued \ Written) /\ topic' = topic
  <1>1. /\ queue' = << >> /\ reports' = << >> /\ topic' = topic
        /\ adrift' = adrift \union (Queued \ Written)
    BY DEF CloseClient, Queued, Written
  <1>2. Queued \subseteq M
    BY DEF Queued, ToSet, ClientTyped
  <1>3. /\ \A b : ReportsOf(b)' = {}
        /\ Queued' = {} /\ Written' = Written /\ IsInjective(queue')
    BY <1>1 DEF ReportsOf, Queued, Written, ToSet, IsInjective
  <1>4. ClientTyped(M)'
    BY <1>1, <1>2 DEF ClientTyped
  <1>5. ClientInv'
    BY <1>1, <1>3 DEF ClientInv
  <1> QED
    BY <1>1, <1>3, <1>4, <1>5

\* What leaves the client alone keeps its invariant.
LEMMA ClientUntouched ==
    ASSUME NEW M, ClientTyped(M), ClientInv, UNCHANGED clientVars
    PROVE  /\ ClientTyped(M)' /\ ClientInv'
           /\ \A b : ReportsOf(b)' = ReportsOf(b)
           /\ Queued' = Queued /\ Written' = Written /\ adrift' = adrift
           /\ topic' = topic
  BY DEF clientVars, ClientTyped, ClientInv, ReportsOf, Queued, Written

\* So whatever is not a produce moves one message at most.
LEMMA ClientGoesOn ==
    ASSUME NEW M, ClientTyped(M), ClientInv,
           \/ UNCHANGED clientVars
           \/ ServeReports
           \/ CloseClient
           \/ ClientStep
    PROVE  /\ ClientTyped(M)' /\ ClientInv'
           /\ (Pending \union Written)' = Pending \union Written
           /\ Pending' \subseteq Pending
           /\ Written \subseteq Written'
           /\ \/ topic' = topic
              \/ \E m \in Pending : topic' = Append(topic, m)
  <1>1. CASE UNCHANGED clientVars
    BY <1>1, ClientUntouched DEF Pending
  <1>2. CASE ServeReports
    <2>1. /\ ClientTyped(M)' /\ ClientInv'
          /\ Queued' = Queued /\ topic' = topic /\ adrift' = adrift
      BY <1>2, PollServes
    <2> QED
      BY <2>1 DEF Pending, Written
  <1>3. CASE CloseClient
    <2>1. /\ ClientTyped(M)' /\ ClientInv'
          /\ Queued' = {} /\ topic' = topic
          /\ adrift' = adrift \union (Queued \ Written)
      BY <1>3, CloseLeaves
    <2>2. Written' = Written
      BY <2>1 DEF Written
    <2> QED
      BY <2>1, <2>2 DEF Pending
  <1>4. CASE ClientStep
    BY <1>4, ClientMoves, ClientStepKeeps, ClientConserves
  <1> QED
    BY <1>1, <1>2, <1>3, <1>4
=============================================================================
