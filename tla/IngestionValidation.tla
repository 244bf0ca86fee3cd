------------------------ MODULE IngestionValidation ------------------------
(***************************************************************************)
(* The head of the pipeline: ReadFromKafka, ParseAndValidateKafkaRecord    *)
(* (src/src/pipeline/validation.py), the event contract it applies         *)
(* (src/src/common/event_contract.py) and the encoding of invalid records. *)
(*                                                                         *)
(* The runner reads the topic in bundles.  A record of a bundle becomes a  *)
(* valid event or an invalid record; the outputs of the bundle are made    *)
(* durable and only then its offsets are committed                         *)
(* (commit_offset_in_finalize).  An exception aborts the bundle, which the *)
(* runner then reads again.                                                *)
(*                                                                         *)
(* A field of a record is the class of its value: what the code can tell   *)
(* apart.  A text that is none of the classes stands for itself.           *)
(***************************************************************************)
EXTENDS Integers, Sequences

CONSTANTS
    Texts,       \* non-blank strings, the customer ids among them
    Records,     \* the records a producer may have put in the topic
    TopicLength, \* BOUND: records in the partition
    MaxCrashes   \* BOUND: worker restarts

\* Classes of a value that is no non-blank string.  The JSON text of a lone
\* surrogate is a non-blank string that no UTF-8 encoder accepts.
Missing == "missing"
NotText == "not text"
Blank == "blank"
Surrogate == "lone surrogate"

KeyClasses == Texts \union {"null", "not bytes", "not utf-8", Blank}
\* A text that json.loads refuses is "not json" when it raises JSONDecodeError
\* and "unloadable" when it raises anything else: a number of too many digits
\* (ValueError), nesting that is too deep (RecursionError).
FormClasses == {"not bytes", "not utf-8", "not json", "unloadable",
                "not object", "object"}
NameClasses == Texts \union {Missing, NotText, Blank, Surrogate}
TimeClasses == {"zoned", "naive", "malformed", NotText, "beyond range"}
AmountClasses == {"positive", "not positive", "boolean", "not integer"}
ChoiceClasses == {"allowed", "unknown", "unhashable"}

\* The decoded JSON object; hasPayload is FALSE when payload is no object, and
\* then the fields after it mean nothing.
EventClasses ==
    [version : BOOLEAN, eventId : NameClasses, customerId : NameClasses,
     time : TimeClasses, hasPayload : BOOLEAN, amount : AmountClasses,
     currency : BOOLEAN, type : ChoiceClasses, channel : ChoiceClasses]

\* No text is taken for one of the other classes.
ASSUME TextAssumption ==
    Texts \intersect {Missing, NotText, Blank, Surrogate,
                      "null", "not bytes", "not utf-8"} = {}

ASSUME RecordAssumption ==
    Records \subseteq [key : KeyClasses, form : FormClasses,
                       event : EventClasses]

ASSUME BoundAssumption ==
    /\ TopicLength \in Nat
    /\ MaxCrashes \in Nat

VARIABLES
    topic,      \* one partition of bank.transactions.raw
    committed,  \* offset the consumer group resumes at
    next,       \* offset of the next record of the open bundle
    pending,    \* outputs of the open bundle
    outputs,    \* outputs made durable: <<offset, tag>>
    crashes     \* worker restarts so far

vars == <<topic, committed, next, pending, outputs, crashes>>

-----------------------------------------------------------------------------
(* The contract *)

IsName(x) == x \notin {Missing, NotText, Blank}

\* parse_event_time raises ValueError, which the contract reports.
TimeRejected(t) == t \in {"naive", "malformed", NotText}

PayloadErrors(e) ==
    { x \in {"amount", "currency", "type", "channel"} :
        \/ x = "amount" /\ e.amount # "positive"
        \/ x = "currency" /\ ~e.currency
        \/ x = "type" /\ e.type # "allowed"
        \/ x = "channel" /\ e.channel # "allowed" }

\* validate_transaction_event: the rules a JSON object breaks.
ContractErrors(e) ==
    { x \in {"version", "eventId", "customerId", "time", "payload"} :
        \/ x = "version" /\ ~e.version
        \/ x = "eventId" /\ ~IsName(e.eventId)
        \/ x = "customerId" /\ ~IsName(e.customerId)
        \/ x = "time" /\ TimeRejected(e.time)
        \/ x = "payload" /\ ~e.hasPayload }
    \union (IF e.hasPayload THEN PayloadErrors(e) ELSE {})

\* What it raises instead: OverflowError from astimezone(UTC), TypeError from
\* the membership test of an unhashable value.
ContractRaises(e) ==
    \/ e.time = "beyond range"
    \/ e.hasPayload /\ "unhashable" \in {e.type, e.channel}

\* encode_transaction_event gives bytes: the event keeps the contract and all
\* its text is UTF-8, which json.dumps leaves to the encoder.
EncodesEscaped(e) ==  \* mutant: json.dumps escapes what is not ASCII
    ~ContractRaises(e) /\ ContractErrors(e) = {}
Encodes(e) ==
    /\ ~ContractRaises(e)
    /\ ContractErrors(e) = {}
    /\ Surrogate \notin {e.eventId, e.customerId}

\* A record the producers of src/src/producer may send: an event they encode
\* under transaction_kafka_key.
Produced(r) ==
    /\ r.form = "object"
    /\ Encodes(r.event)
    /\ r.key = r.event.customerId

-----------------------------------------------------------------------------
(* ParseAndValidateKafkaRecord.process *)

KeyErrors(r) ==
    IF r.key \in {"null", "not bytes", "not utf-8", Blank} THEN {"key"} ELSE {}

\* kafka_key is not None: the key decoded.
KeyDecoded(r) == r.key \notin {"null", "not bytes", "not utf-8"}

MismatchUnchecked(r) == FALSE  \* mutant: the key is not compared
Mismatch(r) ==
    /\ KeyDecoded(r)
    /\ IsName(r.event.customerId)
    /\ r.event.customerId # r.key

\* The value is not handled at all when json.loads escapes.
ValueErrors(r) ==
    CASE r.form \in {"not bytes", "not utf-8", "not json"} -> {"value"}
      [] r.form = "not object" -> {"event"}
      [] r.form = "object" ->
            ContractErrors(r.event)
              \union (IF Mismatch(r) THEN {"mismatch"} ELSE {})

Errors(r) == KeyErrors(r) \union ValueErrors(r)

Tag(r) == IF Errors(r) = {} THEN "valid" ELSE "invalid"

\* An invalid record that invalid_to_kafka_record cannot encode as UTF-8.
Unencodable(r) ==
    /\ r.form = "object"
    /\ r.event.eventId = Surrogate
    /\ Errors(r) # {}

\* A valid event that cannot be encoded as UTF-8 either, on its way to
\* DeduplicateByEventId: KeyByCustomerId puts it out for a shuffle by key.
Unstorable(r) ==
    /\ r.form = "object"
    /\ r.event.eventId = Surrogate
    /\ Errors(r) = {}

\* process catches JSONDecodeError only.
LoadsRaises(r) == r.form = "unloadable"

\* Handling the record ends in an exception.
Raises(r) ==
    \/ LoadsRaises(r)
    \/ r.form = "object" /\ ContractRaises(r.event)
    \/ Unencodable(r)
    \/ Unstorable(r)

-----------------------------------------------------------------------------
Init ==
    /\ topic \in [1 .. TopicLength -> Records]
    /\ committed = 1
    /\ next = 1
    /\ pending = {}
    /\ outputs = {}
    /\ crashes = 0

\* The runner has a record to read; it closes a bundle where it likes.
HasRecord == next <= Len(topic)

\* What reading a record commits: nothing, enable.auto.commit is "false".
CommittedByReadToo == next + 1  \* mutant: the option is left on
CommittedByRead == committed

\* process yields one output, on the main output or on INVALID_EVENTS_TAG.
Process ==
    /\ HasRecord
    /\ ~Raises(topic[next])
    /\ pending' = pending \union {<<next, Tag(topic[next])>>}
    /\ next' = next + 1
    /\ committed' = CommittedByRead
    /\ UNCHANGED <<topic, outputs, crashes>>

\* The bundle is aborted and read again from its first record.
ProcessRaises ==
    /\ HasRecord
    /\ Raises(topic[next])
    /\ pending' = {}
    /\ next' = committed
    /\ UNCHANGED <<topic, committed, outputs, crashes>>

\* What the bundle has put out so far becomes durable.
WriteBundle ==
    /\ pending # {}
    /\ outputs' = outputs \union pending
    /\ pending' = {}
    /\ UNCHANGED <<topic, committed, next, crashes>>

\* commit_offset_in_finalize: the offset behind the bundle, once what it put
\* out is durable.
DurableAlways == TRUE  \* mutant: without waiting for that
Durable == pending = {}

FinalOffsetBehind == next + 1  \* mutant: off by one
FinalOffset == next

FinalizeBundle ==
    /\ next > committed
    /\ Durable
    /\ committed' = FinalOffset
    /\ UNCHANGED <<topic, next, pending, outputs, crashes>>

\* The worker restarts and resumes at the committed offset.
Crash ==
    /\ crashes < MaxCrashes
    /\ crashes' = crashes + 1
    /\ next' = committed
    /\ pending' = {}
    /\ UNCHANGED <<topic, committed, outputs>>

Next ==
    \/ Process
    \/ ProcessRaises
    \/ WriteBundle
    \/ FinalizeBundle
    \/ Crash

Spec == Init /\ [][Next]_vars

\* A running worker goes on reading, writing and committing.
Fairness ==
    /\ WF_vars(Process)
    /\ WF_vars(ProcessRaises)
    /\ WF_vars(WriteBundle)
    /\ WF_vars(FinalizeBundle)

FairSpec == Spec /\ Fairness

-----------------------------------------------------------------------------
(* Properties *)

\* Every variable has its type.
TypeOK ==
    /\ topic \in [1 .. TopicLength -> Records]
    /\ committed \in 1 .. TopicLength + 1
    /\ next \in committed .. TopicLength + 1
    /\ pending \subseteq (1 .. TopicLength) \X {"valid", "invalid"}
    /\ outputs \subseteq (1 .. TopicLength) \X {"valid", "invalid"}
    /\ crashes \in 0 .. MaxCrashes

\* A record whose offset is committed was answered, and every answer it ever
\* got, in a first bundle or in one read again, is the same.
CommittedIsAnswered ==
    /\ \A o \in 1 .. committed - 1 : \E tag \in {"valid", "invalid"} :
          <<o, tag>> \in outputs
    /\ \A x, y \in outputs \union pending : x[1] = y[1] => x[2] = y[2]

\* The checks that the stages behind the validation make again and raise on:
\* a text customer_id, which is also the record's partition key
\* (_key_by_customer_id, _amount_by_customer), a text event_id
\* (DeduplicateByEventId), a positive integer amount (_amount_by_customer,
\* build_velocity_alert), and an event time with a zone, as windowing has it.
\* No stage checks a range: that an amount fits the runner's coder for int, or
\* that a window ends before the year 10000, is not part of this.
Acceptable(r) ==
    /\ r.form = "object"
    /\ r.event.customerId \in Texts
    /\ r.key = r.event.customerId
    /\ r.event.eventId \in Texts
    /\ r.event.hasPayload
    /\ r.event.amount = "positive"
    /\ r.event.time = "zoned"

\* No event that leaves the validation fails a check that a later stage makes
\* again, or lies in another partition than its customer's, and none that
\* would pass them is refused for a reason other than its version, currency,
\* type or channel.  (Amounts and times that pass every check and are too
\* large for the code behind it are not spoken of.)
LaterChecksPass ==
    \A x \in outputs \union pending :
        /\ x[2] = "valid" => Acceptable(topic[x[1]])
        /\ x[2] = "invalid" =>
              \/ ~Acceptable(topic[x[1]])
              \/ Errors(topic[x[1]]) \subseteq
                    {"version", "currency", "type", "channel"}

\* A record of the project's own producers never lands on the invalid output
\* and never aborts the bundle it is validated in: what they encode, the
\* validation reads back as a valid event that can be encoded again.
ProducedIsValid ==
    \A o \in DOMAIN topic :
        Produced(topic[o]) => /\ ~Raises(topic[o])
                              /\ <<o, "invalid">> \notin outputs \union pending

Answered(o) == \E tag \in {"valid", "invalid"} : <<o, tag>> \in outputs

\* Every record of the topic ends up on one of the two outputs, however bad
\* it is, and however often the worker restarts.
EveryRecordAnswered == \A o \in 1 .. TopicLength : <>Answered(o)

\* The same for a topic without a record whose handling raises.  (With one,
\* even the records in front of it may never be answered: the bundle they
\* share with it is aborted each time.)
HandledTopicIsAnswered ==
    \A o \in 1 .. TopicLength :
        <>(Answered(o) \/ \E p \in 1 .. TopicLength : Raises(topic[p]))
=============================================================================
