--------------------------- MODULE AlertConsumer ---------------------------
(***************************************************************************)
(* The materializer, src/src/materializer/alert_consumer.py: processes     *)
(* that read the alert topic and keep, in one SQLite file, the highest     *)
(* revision of every stable key.                                           *)
(*                                                                         *)
(* risk.alerts.velocity has one partition (compose.yaml), so the topic is  *)
(* one log.  A process polls a record, upserts it and commits its offset   *)
(* synchronously; it may stop between any two of these.  Each process of   *)
(* the model has a consumer group of its own, as every invocation of       *)
(* consume-alerts.ps1 has, and all share the database file.  A restarted   *)
(* process resumes its group.                                              *)
(***************************************************************************)
EXTENDS Integers, Sequences, SequencesExt

CONSTANTS
    Keys,           \* idempotency keys
    Revisions,      \* revision numbers
    Payloads,       \* the rest of an alert's content
    Records,        \* the records a producer may append to the topic
    Consumers,      \* materializer processes
    FromBeginning,  \* --from-beginning: auto.offset.reset is earliest
    MaxMessages,    \* --max-messages, 0 for None
    MaxLog,         \* BOUND: records in the log
    MaxCrashes,     \* BOUND: processes killed, over all of them
    Absent          \* no row in the store

\* A record is wellFormed when _decode_message and _validated_candidate accept
\* it: a key and a value, the key equal to idempotency_key, a revision that is
\* a non-negative integer.
AllRecords == [key : Keys, revision : Revisions, payload : Payloads,
               wellFormed : BOOLEAN]

ASSUME RecordAssumption ==
    /\ Revisions \subseteq Nat
    /\ Records \subseteq AllRecords
    /\ Absent \notin AllRecords

\* What parse_args accepts.
Options == FromBeginning \in BOOLEAN /\ MaxMessages \in Nat

ASSUME OptionAssumption ==
    /\ Options
    /\ MaxLog \in Nat
    /\ MaxCrashes \in Nat

VARIABLES
    log,           \* the alert topic; an offset is a position in it, from 1
    live,          \* offsets the broker's compaction has not removed
    committed,     \* per group: next offset to read, 0 when none is committed
    status,        \* per process: where main is in its loop
    position,      \* per process: next offset its consumer fetches
    hand,          \* per process: offset of the message it polled last
    messagesRead,  \* per process: as in main
    store,         \* the velocity_alerts table: per key a record or Absent
    crashes,       \* processes killed so far
    joined,        \* HISTORY: offset where a group without commits started
    polled,        \* HISTORY: offsets a process ever got from poll
    applied        \* HISTORY: offsets upserted, in the order of the first time

consumerVars == <<committed, status, position, hand, messagesRead>>
history == <<joined, polled, applied>>
vars == <<log, live, consumerVars, store, crashes, history>>

Stopped == "stopped"    \* no process
Polling == "polling"    \* about to call poll
Holding == "holding"    \* poll returned a message
Stored == "stored"      \* upsert returned, commit not yet

Offsets == 1 .. Len(log)

-----------------------------------------------------------------------------
(* The store *)

\* A candidate replaces the row when there is none or an older revision: the
\* WHERE clause of the upsert, and the test of materialize_latest_alerts.
SupersedesNotOlder(candidate, current) ==  \* mutant: >= for >
    current = Absent \/ candidate.revision >= current.revision
SupersedesAlways(candidate, current) == TRUE  \* mutant: no WHERE clause
Supersedes(candidate, current) ==
    current = Absent \/ candidate.revision > current.revision

Latest(rows, r) ==
    IF Supersedes(r, rows[r.key]) THEN [rows EXCEPT ![r.key] = r] ELSE rows

EmptyView == [k \in Keys |-> Absent]

\* materialize_latest_alerts: the reference fold over a sequence of records.
MaterializeLatest(records) == FoldLeft(Latest, EmptyView, records)

\* SQLiteAlertStore.upsert: one conditional statement in one transaction.
UpsertFirst(r) ==  \* mutant: DO NOTHING on conflict
    IF store[r.key] = Absent THEN [store EXCEPT ![r.key] = r] ELSE store
UpsertInto(r) == Latest(store, r)

\* The store holds the alert at offset o, or a revision that supersedes it.
Materialized(o) ==
    /\ store[log[o].key] # Absent
    /\ store[log[o].key].revision >= log[o].revision

-----------------------------------------------------------------------------
Init ==
    /\ log = << >>
    /\ live = {}
    /\ committed = [c \in Consumers |-> 0]
    /\ status = [c \in Consumers |-> Stopped]
    /\ position = [c \in Consumers |-> 1]
    /\ hand = [c \in Consumers |-> 0]
    /\ messagesRead = [c \in Consumers |-> 0]
    /\ store = EmptyView
    /\ crashes = 0
    /\ joined = [c \in Consumers |-> 1]
    /\ polled = [c \in Consumers |-> {}]
    /\ applied = << >>

-----------------------------------------------------------------------------
(* The topic *)

\* The pipeline's WriteToKafka appends an alert: the same one twice, or an
\* older revision after a newer one, when it retries or is run again.
Publish(r) ==
    /\ Len(log) < MaxLog
    /\ log' = Append(log, r)
    /\ live' = live \union {Len(log) + 1}
    /\ UNCHANGED <<consumerVars, store, crashes, history>>

\* cleanup.policy=compact: the broker may remove a record when a later one
\* has its key.
Compact(o) ==
    /\ \E p \in live : p > o /\ log[p].key = log[o].key
    /\ live' = live \ {o}
    /\ UNCHANGED <<log, consumerVars, store, crashes, history>>

-----------------------------------------------------------------------------
(* A materializer process *)

\* Where auto.offset.reset puts a group that has committed nothing.
ResetPositionFromZero ==  \* mutant: offsets start at 0
    IF FromBeginning THEN 0 ELSE Len(log) + 1
ResetPositionLatest == Len(log) + 1  \* mutant: --from-beginning ignored
ResetPosition == IF FromBeginning THEN 1 ELSE Len(log) + 1

\* main begins: the consumer resumes at the committed offset of its group.
Start(c) ==
    /\ status[c] = Stopped
    /\ status' = [status EXCEPT ![c] = Polling]
    /\ messagesRead' = [messagesRead EXCEPT ![c] = 0]
    /\ IF committed[c] = 0
         THEN /\ position' = [position EXCEPT ![c] = ResetPosition]
              /\ joined' = [joined EXCEPT ![c] = ResetPosition]
         ELSE /\ position' = [position EXCEPT ![c] = committed[c]]
              /\ UNCHANGED joined
    /\ UNCHANGED <<log, live, committed, hand, store, crashes, polled, applied>>

MayRead(c) == MaxMessages = 0 \/ messagesRead[c] < MaxMessages

\* The next record of the log that compaction has left.
IsNext(c, o) ==
    /\ o \in live
    /\ o >= position[c]
    /\ \A p \in live : p >= position[c] => o <= p

\* What the client commits by itself as poll returns offset o: nothing,
\* enable.auto.commit is False.
CommittedByClientToo(c, o) == [committed EXCEPT ![c] = o + 1]  \* mutant
CommittedByClient(c, o) == committed

\* poll returns a message.
Poll(c) ==
    /\ status[c] = Polling
    /\ MayRead(c)
    /\ \E o \in live :
          /\ IsNext(c, o)
          /\ hand' = [hand EXCEPT ![c] = o]
          /\ position' = [position EXCEPT ![c] = o + 1]
          /\ committed' = CommittedByClient(c, o)
          /\ polled' = [polled EXCEPT ![c] = @ \union {o}]
    /\ status' = [status EXCEPT ![c] = Holding]
    /\ UNCHANGED <<log, live, messagesRead, store, crashes, joined, applied>>

\* The loop ends in front of poll: nothing is committed on the way out.
LeaveLoop(c) ==
    /\ status[c] = Polling
    /\ status' = [status EXCEPT ![c] = Stopped]
    /\ UNCHANGED <<log, live, committed, position, hand, messagesRead, store,
                   crashes, history>>

\* The while condition: max_messages are read.
ReachLimit(c) == ~MayRead(c) /\ LeaveLoop(c)

\* poll timed out, though there may be records left, or returned an error.
PollFails(c) == MayRead(c) /\ LeaveLoop(c)

\* _decode_message or _validated_candidate raises: the process ends with the
\* record uncommitted.
Reject(c) ==
    /\ status[c] = Holding
    /\ ~log[hand[c]].wellFormed
    /\ status' = [status EXCEPT ![c] = Stopped]
    /\ UNCHANGED <<log, live, committed, position, hand, messagesRead, store,
                   crashes, history>>

Upsert(c) ==
    /\ status[c] = Holding
    /\ log[hand[c]].wellFormed
    /\ store' = UpsertInto(log[hand[c]])
    /\ applied' = IF \E i \in DOMAIN applied : applied[i] = hand[c]
                    THEN applied
                    ELSE Append(applied, hand[c])
    /\ status' = [status EXCEPT ![c] = Stored]
    /\ UNCHANGED <<log, live, committed, position, hand, messagesRead, crashes,
                   joined, polled>>

\* commit(message=message) commits the offset behind the message.
OffsetOf(c) == hand[c]  \* mutant: the offset of the message itself
OffsetToCommit(c) == hand[c] + 1

Commit(c) ==
    /\ status[c] = Stored
    /\ committed' = [committed EXCEPT ![c] = OffsetToCommit(c)]
    /\ messagesRead' = [messagesRead EXCEPT ![c] = @ + 1]
    /\ status' = [status EXCEPT ![c] = Polling]
    /\ UNCHANGED <<log, live, position, hand, store, crashes, history>>

\* The process is killed, or upsert or commit raises: no commit, and the
\* database keeps what its last transaction wrote.
Crash(c) ==
    /\ status[c] # Stopped
    /\ crashes < MaxCrashes
    /\ crashes' = crashes + 1
    /\ status' = [status EXCEPT ![c] = Stopped]
    /\ UNCHANGED <<log, live, committed, position, hand, messagesRead, store,
                   history>>

Next ==
    \/ \E r \in Records : Publish(r)
    \/ \E o \in live : Compact(o)
    \/ \E c \in Consumers : Start(c)
    \/ \E c \in Consumers : Poll(c)
    \/ \E c \in Consumers : ReachLimit(c)
    \/ \E c \in Consumers : PollFails(c)
    \/ \E c \in Consumers : Reject(c)
    \/ \E c \in Consumers : Upsert(c)
    \/ \E c \in Consumers : Commit(c)
    \/ \E c \in Consumers : Crash(c)

Spec == Init /\ [][Next]_vars

\* The materializer is run again whenever it stopped, a running process takes
\* its next step, and poll does not time out for ever in front of records.
\* That is someone who runs a standing --consumer-group again and again, not
\* consume-alerts.ps1 with its new group and three messages every time.
Fairness ==
    \A c \in Consumers : /\ WF_vars(Start(c))
                         /\ SF_vars(Poll(c))
                         /\ WF_vars(ReachLimit(c))
                         /\ WF_vars(Upsert(c))
                         /\ WF_vars(Commit(c))

FairSpec == Spec /\ Fairness

-----------------------------------------------------------------------------
(* Properties *)

\* Every variable has its type, and a message in hand is in the log.
TypeOK ==
    /\ log \in Seq(Records)
    /\ live \in SUBSET Offsets
    /\ committed \in [Consumers -> Nat]
    /\ status \in [Consumers -> {Stopped, Polling, Holding, Stored}]
    /\ position \in [Consumers -> Nat \ {0}]
    /\ hand \in [Consumers -> Nat]
    /\ messagesRead \in [Consumers -> Nat]
    /\ store \in [Keys -> Records \union {Absent}]
    /\ crashes \in Nat
    /\ joined \in [Consumers -> Nat \ {0}]
    /\ polled \in [Consumers -> SUBSET Nat]
    /\ applied \in Seq(Nat)
    /\ \A c \in Consumers :
          status[c] \in {Holding, Stored} => hand[c] \in Offsets

\* Offsets are confirmed after their alerts are persisted, whatever is killed
\* in between: behind the next fetch of a polling process, and behind the
\* committed offset of its group, every alert since the group started reading
\* is in the store, or a revision that supersedes it.
NothingSkipped ==
    \A c \in Consumers : \A o \in live :
        /\ (status[c] = Polling /\ joined[c] <= o /\ o < position[c])
              => Materialized(o)
        /\ (joined[c] <= o /\ o < committed[c]) => Materialized(o)

\* At-least-once: a polling process never has behind it an alert it polled
\* once, in this run or before a crash, that is not in the store.
NoPolledAlertLost ==
    \A c \in Consumers : \A o \in live \intersect polled[c] :
        (status[c] = Polling /\ o < position[c]) => Materialized(o)

\* No step of any process replaces a stored alert by an older revision, by
\* another alert of the same revision, or by nothing: with several processes
\* on one database file the test and the write are one step.
StoreOnlyAdvances ==
    [][\A k \in Keys : (store[k] # Absent /\ store'[k] # store[k])
                          => /\ store'[k] # Absent
                             /\ store'[k].revision > store[k].revision]_vars

\* Replays are harmless: however often records are polled and upserted again,
\* by whichever process, the store is what the reference fold makes of each
\* record taken once.
ReplayIsIdempotent ==
    store = MaterializeLatest([i \in DOMAIN applied |-> log[applied[i]]])

\* Processes, groups, offsets and crashes do nothing to the store that a view
\* of the published alerts, which keeps the highest revision taken, would not
\* do: every step is a step of LatestRevisionView or changes nothing there.
View == INSTANCE LatestRevisionView
          WITH published <- {r \in ToSet(log) : r.wellFormed}, view <- store

ImplementsView == View!Spec

\* The alert of every offset that compaction leaves ends up materialized, by
\* groups that start from the beginning and go on behind their commits.
Converges ==
    \A o \in 1 .. MaxLog :
        (o \in live) ~> (o \notin live \/ Materialized(o))
=============================================================================
