---------------------- MODULE IngestionValidationProofs ----------------------
(* Theorems about IngestionValidation, for every topic, any number of worker *)
(* restarts and every set of records, with their proofs.                     *)
EXTENDS IngestionValidation, TLAPS

Tags == {"valid", "invalid"}

\* The partition is a sequence of the records it was given.
LEMMA TopicTyped ==
    ASSUME TypeOK
    PROVE  /\ Len(topic) = TopicLength
           /\ \A o \in 1 .. TopicLength : topic[o] \in Records
  <1>1. topic \in [1 .. TopicLength -> Records] /\ TopicLength \in Nat
    BY BoundAssumption DEF TypeOK
  <1>2. topic \in Seq(Records)
    BY <1>1
  <1> QED
    BY <1>1, <1>2

-----------------------------------------------------------------------------
(* Types *)

\* The initial state has the types of TypeOK.
LEMMA InitTyped == Init => TypeOK
  BY BoundAssumption DEF Init, TypeOK

\* Every step keeps the types.
LEMMA StepTyped == TypeOK /\ [Next]_vars => TypeOK'
  <1> SUFFICES ASSUME TypeOK, [Next]_vars
               PROVE  TypeOK'
    OBVIOUS
  <1>0. TopicLength \in Nat /\ MaxCrashes \in Nat
    BY BoundAssumption
  <1>1. CASE Process
    <2>1. next \in 1 .. TopicLength /\ committed \in 1 .. TopicLength + 1
      BY <1>0, <1>1, TopicTyped DEF Process, HasRecord, TypeOK
    <2>2. Tag(topic[next]) \in Tags
      BY DEF Tag, Tags
    <2> QED
      BY <1>0, <1>1, <2>1, <2>2
         DEF Process, CommittedByRead, TypeOK, Tags
  <1>2. CASE ProcessRaises
    BY <1>0, <1>2 DEF ProcessRaises, TypeOK
  <1>3. CASE WriteBundle
    BY <1>0, <1>3 DEF WriteBundle, TypeOK
  <1>4. CASE FinalizeBundle
    BY <1>0, <1>4 DEF FinalizeBundle, FinalOffset, TypeOK
  <1>5. CASE Crash
    BY <1>0, <1>5 DEF Crash, TypeOK
  <1>6. CASE UNCHANGED vars
    BY <1>6 DEF vars, TypeOK
  <1> QED
    BY <1>1, <1>2, <1>3, <1>4, <1>5, <1>6 DEF Next

\* Every reachable state of the validation has the types of TypeOK.
THEOREM TypeCorrect == Spec => []TypeOK
  BY InitTyped, StepTyped, PTL DEF Spec

-----------------------------------------------------------------------------
(* Bundles *)

\* What makes the two safety properties inductive: every record before the
\* position was answered, durably or in the open bundle, those before the
\* committed offset durably; an answer is the tag of the record, and no
\* record with an answer raises.
AnswerInv ==
    /\ TypeOK
    /\ \A o \in 1 .. next - 1 : \E tag \in Tags :
          <<o, tag>> \in outputs \union pending
    /\ \A o \in 1 .. committed - 1 : \E tag \in Tags : <<o, tag>> \in outputs
    /\ \A x \in outputs \union pending :
          /\ x[2] = Tag(topic[x[1]])
          /\ ~Raises(topic[x[1]])

\* Nothing is behind the first offset.
LEMMA InitAnswers == Init => AnswerInv
  BY InitTyped DEF Init, AnswerInv

\* Every step keeps the strengthened invariant.
LEMMA StepAnswers == AnswerInv /\ [Next]_vars => AnswerInv'
  <1> SUFFICES ASSUME AnswerInv, [Next]_vars
               PROVE  AnswerInv'
    OBVIOUS
  <1>0. TypeOK /\ TypeOK' /\ next \in Nat /\ committed \in Nat
    BY StepTyped, BoundAssumption DEF AnswerInv, TypeOK
  <1>1. CASE Process
    <2>1. /\ topic' = topic /\ outputs' = outputs /\ committed' = committed
          /\ pending' = pending \union {<<next, Tag(topic[next])>>}
          /\ next' = next + 1
          /\ ~Raises(topic[next])
      BY <1>1 DEF Process, CommittedByRead
    <2>2. Tag(topic[next]) \in Tags
      BY DEF Tag, Tags
    <2>3. \A o \in 1 .. next' - 1 : \E tag \in Tags :
             <<o, tag>> \in outputs' \union pending'
      <3> SUFFICES ASSUME NEW o \in 1 .. next' - 1
                   PROVE  \E tag \in Tags : <<o, tag>> \in outputs' \union pending'
        OBVIOUS
      <3>1. CASE o = next
        BY <2>1, <2>2, <3>1
      <3>2. CASE o # next
        <4>1. o \in 1 .. next - 1
          BY <1>0, <2>1, <3>2
        <4> QED
          BY <2>1, <4>1 DEF AnswerInv
      <3> QED
        BY <3>1, <3>2
    <2> QED
      BY <1>0, <2>1, <2>3 DEF AnswerInv
  <1>2. CASE ProcessRaises \/ Crash
    <2>1. /\ topic' = topic /\ outputs' = outputs /\ committed' = committed
          /\ pending' = {} /\ next' = committed
      BY <1>2 DEF ProcessRaises, Crash
    <2> QED
      BY <1>0, <2>1 DEF AnswerInv
  <1>3. CASE WriteBundle
    <2>1. /\ topic' = topic /\ committed' = committed /\ next' = next
          /\ outputs' = outputs \union pending /\ pending' = {}
      BY <1>3 DEF WriteBundle
    <2> QED
      BY <1>0, <2>1 DEF AnswerInv
  <1>4. CASE FinalizeBundle
    <2>1. /\ topic' = topic /\ outputs' = outputs /\ next' = next
          /\ pending' = {} /\ pending = {} /\ committed' = next
      BY <1>4 DEF FinalizeBundle, Durable, FinalOffset
    <2> QED
      BY <1>0, <2>1 DEF AnswerInv
  <1>5. CASE UNCHANGED vars
    BY <1>0, <1>5 DEF vars, AnswerInv
  <1> QED
    BY <1>1, <1>2, <1>3, <1>4, <1>5 DEF Next

\* The answers there are belong to records of the topic.
LEMMA AnswersTyped ==
    ASSUME TypeOK, NEW x \in outputs \union pending
    PROVE  x[1] \in 1 .. TopicLength /\ x[2] \in Tags /\ topic[x[1]] \in Records
  BY TopicTyped DEF TypeOK, Tags

\* A record whose offset is committed was answered, durably and always the
\* same, wherever bundles are aborted and workers restarted.
THEOREM CommitsFollowOutputs == Spec => []CommittedIsAnswered
  <1>1. AnswerInv => CommittedIsAnswered
    BY DEF AnswerInv, CommittedIsAnswered, Tags
  <1> QED
    BY <1>1, InitAnswers, StepAnswers, PTL DEF Spec

-----------------------------------------------------------------------------
(* The contract and the stages behind it *)

\* The contract does not refuse an event only if nothing is wrong with it.
LEMMA ContractHolds ==
    ASSUME NEW e, ContractErrors(e) = {}
    PROVE  /\ IsName(e.eventId) /\ IsName(e.customerId)
           /\ ~TimeRejected(e.time)
           /\ e.hasPayload /\ e.amount = "positive"
  <1>1. /\ "eventId" \notin ContractErrors(e)
        /\ "customerId" \notin ContractErrors(e)
        /\ "time" \notin ContractErrors(e)
        /\ "payload" \notin ContractErrors(e)
    OBVIOUS
  <1>2. IsName(e.eventId) /\ IsName(e.customerId) /\ ~TimeRejected(e.time)
        /\ e.hasPayload
    BY <1>1 DEF ContractErrors
  <1>3. "amount" \notin PayloadErrors(e)
    BY <1>2 DEF ContractErrors
  <1> QED
    BY <1>2, <1>3 DEF PayloadErrors

\* An event that leaves the validation as valid passes every check that is
\* made again behind it.
LEMMA ValidIsAcceptable ==
    ASSUME NEW r \in Records, Errors(r) = {}, ~Raises(r)
    PROVE  Acceptable(r)
  <1>1. /\ r.key \in KeyClasses /\ r.form \in FormClasses
        /\ r.event \in EventClasses
    BY RecordAssumption
  <1>2. r.key \in Texts
    BY <1>1 DEF Errors, KeyErrors, KeyClasses
  <1>3. r.form = "object"
    BY <1>1 DEF Errors, ValueErrors, FormClasses, Raises, LoadsRaises
  <1>4. ContractErrors(r.event) = {} /\ ~Mismatch(r)
    BY <1>3 DEF Errors, ValueErrors
  <1>5. /\ IsName(r.event.eventId) /\ IsName(r.event.customerId)
        /\ ~TimeRejected(r.event.time)
        /\ r.event.hasPayload /\ r.event.amount = "positive"
    BY <1>4, ContractHolds
  <1>6. KeyDecoded(r)
    BY <1>2, TextAssumption DEF KeyDecoded
  <1>7. r.event.customerId = r.key
    BY <1>4, <1>5, <1>6 DEF Mismatch
  <1>8. r.event.eventId # Surrogate /\ r.event.time # "beyond range"
    BY <1>3 DEF Raises, Unstorable, ContractRaises
  <1>9. r.event.eventId \in NameClasses /\ r.event.time \in TimeClasses
    BY <1>1 DEF EventClasses
  <1>10. r.event.eventId \in Texts
    BY <1>5, <1>8, <1>9 DEF IsName, NameClasses
  <1>11. r.event.time = "zoned"
    BY <1>5, <1>8, <1>9 DEF TimeRejected, TimeClasses
  <1> QED
    BY <1>2, <1>3, <1>5, <1>7, <1>10, <1>11 DEF Acceptable

\* A record that could be handled is refused only for its version, currency,
\* type or channel.
LEMMA AcceptableErrors ==
    ASSUME NEW r, Acceptable(r)
    PROVE  Errors(r) \subseteq {"version", "currency", "type", "channel"}
  <1>1. /\ r.form = "object" /\ r.key = r.event.customerId
        /\ r.key \in Texts /\ r.event.eventId \in Texts
        /\ r.event.hasPayload /\ r.event.amount = "positive"
        /\ r.event.time = "zoned"
    BY DEF Acceptable
  <1>2. KeyErrors(r) = {}
    BY <1>1, TextAssumption DEF KeyErrors
  <1>3. ~Mismatch(r)
    BY <1>1 DEF Mismatch
  <1>4. IsName(r.event.eventId) /\ IsName(r.event.customerId)
    BY <1>1, TextAssumption DEF IsName
  <1>5. ~TimeRejected(r.event.time)
    BY <1>1 DEF TimeRejected, NotText
  <1>6. PayloadErrors(r.event) \subseteq {"currency", "type", "channel"}
    BY <1>1 DEF PayloadErrors
  <1>7. ContractErrors(r.event)
          \subseteq {"version", "currency", "type", "channel"}
    BY <1>1, <1>4, <1>5, <1>6 DEF ContractErrors
  <1> QED
    BY <1>1, <1>2, <1>3, <1>7 DEF Errors, ValueErrors

\* No event that leaves the validation fails a check that a later stage makes
\* again, and none that would pass them is refused for what they are about.
THEOREM ValidEventsAreAcceptable == Spec => []LaterChecksPass
  <1>1. AnswerInv => LaterChecksPass
    <2> SUFFICES ASSUME AnswerInv, NEW x \in outputs \union pending
                 PROVE  /\ x[2] = "valid" => Acceptable(topic[x[1]])
                        /\ x[2] = "invalid" =>
                              \/ ~Acceptable(topic[x[1]])
                              \/ Errors(topic[x[1]]) \subseteq
                                    {"version", "currency", "type", "channel"}
      BY DEF LaterChecksPass
    <2>1. topic[x[1]] \in Records
      BY AnswersTyped DEF AnswerInv
    <2>2. x[2] = Tag(topic[x[1]]) /\ ~Raises(topic[x[1]])
      BY DEF AnswerInv
    <2>3. x[2] = "valid" => Errors(topic[x[1]]) = {}
      BY <2>2 DEF Tag
    <2> QED
      BY <2>1, <2>2, <2>3, ValidIsAcceptable, AcceptableErrors
  <1> QED
    BY <1>1, InitAnswers, StepAnswers, PTL DEF Spec

\* What a producer of the project encodes raises nowhere and breaks no rule.
LEMMA ProducedPasses ==
    ASSUME NEW r \in Records, Produced(r)
    PROVE  ~Raises(r) /\ Tag(r) = "valid"
  <1>1. /\ r.form = "object" /\ r.key = r.event.customerId
        /\ ~ContractRaises(r.event) /\ ContractErrors(r.event) = {}
        /\ r.event.eventId # Surrogate /\ r.event.customerId # Surrogate
    BY DEF Produced, Encodes
  <1>2. IsName(r.event.customerId)
    BY <1>1, ContractHolds
  <1>3. r.event.customerId \in NameClasses
    BY RecordAssumption DEF EventClasses
  <1>4. r.key \in Texts
    BY <1>1, <1>2, <1>3 DEF IsName, NameClasses
  <1>5. KeyErrors(r) = {}
    BY <1>4, TextAssumption DEF KeyErrors
  <1>6. Errors(r) = {}
    BY <1>1, <1>5 DEF Errors, ValueErrors, Mismatch
  <1> QED
    BY <1>1, <1>6 DEF Raises, LoadsRaises, Unencodable, Unstorable, Tag

\* A record of the project's own producers is never refused and never aborts
\* the bundle it is in.
THEOREM ProducedRecordsPass == Spec => []ProducedIsValid
  <1>1. AnswerInv => ProducedIsValid
    <2> SUFFICES ASSUME AnswerInv, NEW o \in DOMAIN topic, Produced(topic[o])
                 PROVE  /\ ~Raises(topic[o])
                        /\ <<o, "invalid">> \notin outputs \union pending
      BY DEF ProducedIsValid
    <2>1. topic[o] \in Records
      BY DEF AnswerInv, TypeOK
    <2>2. ~Raises(topic[o]) /\ Tag(topic[o]) = "valid"
      BY <2>1, ProducedPasses
    <2>3. <<o, "invalid">> \in outputs \union pending => Tag(topic[o]) = "invalid"
      BY DEF AnswerInv
    <2> QED
      BY <2>2, <2>3
  <1> QED
    BY <1>1, InitAnswers, StepAnswers, PTL DEF Spec
=============================================================================
