----------------------- MODULE AlertConsumerProofs -----------------------
(***************************************************************************)
(* Theorems about AlertConsumer, for any records, processes, bounds and    *)
(* command-line options that satisfy its assumptions.                      *)
(***************************************************************************)
EXTENDS AlertConsumer, CollectionLemmas

\* What is known of a record.
LEMMA RecordsTyped ==
    \A r \in Records : r.key \in Keys /\ r.revision \in Nat /\ r # Absent
  BY RecordAssumption DEF AllRecords

\* An offset names a record.
LEMMA LogTyped ==
    ASSUME TypeOK, NEW o \in Offsets
    PROVE  log[o] \in Records /\ o \in Nat \ {0}
  BY DEF TypeOK, Offsets

\* The initial state has the right types.
LEMMA InitTyped == Init => TypeOK
  BY DEF Init, TypeOK, EmptyView, Stopped, Polling, Holding, Stored, Offsets

\* Poll takes one record; its offset is in the log.
LEMMA PollTakes ==
    ASSUME TypeOK, NEW c \in Consumers, Poll(c)
    PROVE  \E o \in live : /\ o \in Offsets
                           /\ IsNext(c, o)
                           /\ hand' = [hand EXCEPT ![c] = o]
                           /\ position' = [position EXCEPT ![c] = o + 1]
                           /\ polled' = [polled EXCEPT ![c] = @ \union {o}]
           /\ committed' = committed
  BY DEF Poll, CommittedByClient, TypeOK

\* Upserting a record leaves rows that are records.
LEMMA UpsertTyped ==
    ASSUME TypeOK, NEW r \in Records
    PROVE  UpsertInto(r) \in [Keys -> Records \union {Absent}]
  BY RecordsTyped DEF UpsertInto, Latest, TypeOK

\* Every step keeps the types.
LEMMA StepTyped == TypeOK /\ [Next]_vars => TypeOK'
  <1> SUFFICES ASSUME TypeOK, [Next]_vars
               PROVE  TypeOK'
    OBVIOUS
  <1> USE DEF Stopped, Polling, Holding, Stored
  <1>1. ASSUME NEW r \in Records, Publish(r)
        PROVE  TypeOK'
    <2>1. log \in Seq(Records) /\ live \in SUBSET Offsets
      BY DEF TypeOK
    <2>2. log' \in Seq(Records) /\ Len(log') = Len(log) + 1 /\ Len(log) \in Nat
      BY <1>1, <2>1 DEF Publish
    <2>3. Offsets' = Offsets \union {Len(log) + 1}
      BY <2>2 DEF Offsets
    <2>4. live' \in SUBSET Offsets'
      BY <1>1, <2>1, <2>3 DEF Publish
    <2>5. UNCHANGED <<consumerVars, store, crashes, history>>
      BY <1>1 DEF Publish
    <2> QED
      BY <2>2, <2>3, <2>4, <2>5 DEF TypeOK, consumerVars, history
  <1>2. ASSUME NEW o \in live, Compact(o)
        PROVE  TypeOK'
    BY <1>2 DEF Compact, TypeOK, consumerVars, history, Offsets
  <1>3. ASSUME NEW c \in Consumers, Start(c)
        PROVE  TypeOK'
    <2>1. ResetPosition \in Nat \ {0}
      BY DEF ResetPosition, TypeOK
    <2>2. position' \in [Consumers -> Nat \ {0}]
      BY <1>3, <2>1 DEF Start, TypeOK
    <2>3. joined' \in [Consumers -> Nat \ {0}]
      BY <1>3, <2>1 DEF Start, TypeOK
    <2>4. /\ status' = [status EXCEPT ![c] = Polling]
          /\ messagesRead' = [messagesRead EXCEPT ![c] = 0]
          /\ UNCHANGED <<log, live, committed, hand, store, crashes, polled,
                         applied>>
      BY <1>3 DEF Start
    <2> QED
      BY <2>2, <2>3, <2>4 DEF TypeOK, Offsets
  <1>4. ASSUME NEW c \in Consumers, Poll(c)
        PROVE  TypeOK'
    <2>1. PICK o \in live : /\ o \in Offsets
                            /\ hand' = [hand EXCEPT ![c] = o]
                            /\ position' = [position EXCEPT ![c] = o + 1]
                            /\ polled' = [polled EXCEPT ![c] = @ \union {o}]
      BY <1>4, PollTakes
    <2>2. o \in Nat /\ o + 1 \in Nat \ {0}
      BY <2>1, LogTyped
    <2>3. polled' \in [Consumers -> SUBSET Nat]
      BY <2>1, <2>2 DEF TypeOK
    <2>4. hand' \in [Consumers -> Nat] /\ position' \in [Consumers -> Nat \ {0}]
      BY <2>1, <2>2 DEF TypeOK
    <2>5. /\ status' = [status EXCEPT ![c] = Holding]
          /\ UNCHANGED <<log, live, committed, messagesRead, store, crashes,
                         joined, applied>>
      BY <1>4 DEF Poll, CommittedByClient
    <2>6. \A d \in Consumers :
             status'[d] \in {Holding, Stored} => hand'[d] \in Offsets
      BY <2>1, <2>5 DEF TypeOK
    <2> QED
      BY <2>3, <2>4, <2>5, <2>6 DEF TypeOK, Offsets
  <1>5. ASSUME NEW c \in Consumers, LeaveLoop(c) \/ Reject(c)
        PROVE  TypeOK'
    BY <1>5 DEF LeaveLoop, Reject, TypeOK, history, Offsets
  <1>6. ASSUME NEW c \in Consumers, Upsert(c)
        PROVE  TypeOK'
    <2>0. hand[c] \in Offsets
      BY <1>6 DEF Upsert, TypeOK
    <2>1. store' \in [Keys -> Records \union {Absent}]
      BY <1>6, <2>0, LogTyped, UpsertTyped DEF Upsert
    <2>2. applied' \in Seq(Nat)
      BY <1>6 DEF Upsert, TypeOK
    <2> QED
      BY <1>6, <2>1, <2>2 DEF Upsert, TypeOK, Offsets
  <1>7. ASSUME NEW c \in Consumers, Commit(c)
        PROVE  TypeOK'
    <2>1. hand[c] + 1 \in Nat /\ messagesRead[c] + 1 \in Nat
      BY DEF TypeOK
    <2>2. /\ committed' \in [Consumers -> Nat]
          /\ messagesRead' \in [Consumers -> Nat]
          /\ status' \in [Consumers -> {Stopped, Polling, Holding, Stored}]
      BY <1>7, <2>1 DEF Commit, OffsetToCommit, TypeOK
    <2>3. \A d \in Consumers :
             status'[d] \in {Holding, Stored} => status[d] \in {Holding, Stored}
      BY <1>7 DEF Commit, TypeOK, Polling, Holding, Stored
    <2>4. /\ hand' = hand /\ log' = log /\ live' = live
          /\ position' = position /\ store' = store /\ crashes' = crashes
          /\ joined' = joined /\ polled' = polled /\ applied' = applied
      BY <1>7 DEF Commit, history
    <2> QED
      BY <2>2, <2>3, <2>4 DEF TypeOK, Offsets
  <1>8. ASSUME NEW c \in Consumers, Crash(c)
        PROVE  TypeOK'
    BY <1>8 DEF Crash, TypeOK, history, Offsets
  <1>9. CASE UNCHANGED vars
    BY <1>9 DEF vars, consumerVars, history, TypeOK, Offsets
  <1> QED
    BY <1>1, <1>2, <1>3, <1>4, <1>5, <1>6, <1>7, <1>8, <1>9
       DEF Next, ReachLimit, PollFails

\* Every reachable state has the types of TypeOK.
THEOREM TypeCorrect == Spec => []TypeOK
  BY InitTyped, StepTyped, PTL DEF Spec

-----------------------------------------------------------------------------
(* The store only advances *)

\* One upsert replaces no row by an older or an equal revision.
LEMMA UpsertAdvances ==
    ASSUME TypeOK, NEW c \in Consumers, Upsert(c), NEW k \in Keys
    PROVE  \/ store'[k] = store[k]
           \/ /\ store'[k] # Absent
              /\ store[k] # Absent => store'[k].revision > store[k].revision
  <1>1. hand[c] \in Offsets
    BY DEF Upsert, TypeOK, Holding
  <1>2. log[hand[c]] \in Records
    BY <1>1, LogTyped
  <1>3. store' = Latest(store, log[hand[c]])
    BY DEF Upsert, UpsertInto
  <1> QED
    BY <1>2, <1>3, RecordsTyped DEF Latest, Supersedes, TypeOK

\* The record an upsert had in hand is materialized.
LEMMA UpsertMaterializes ==
    ASSUME TypeOK, NEW c \in Consumers, Upsert(c)
    PROVE  Materialized(hand[c])'
  <1>1. hand[c] \in Offsets
    BY DEF Upsert, TypeOK, Holding
  <1> DEFINE r == log[hand[c]]
  <1>2. r \in Records /\ r.key \in Keys /\ r.revision \in Nat /\ r # Absent
    BY <1>1, LogTyped, RecordsTyped
  <1>3. store' = Latest(store, r) /\ log' = log /\ hand' = hand
    BY DEF Upsert, UpsertInto
  <1>4. store[r.key] # Absent => store[r.key].revision \in Nat
    BY <1>2, RecordsTyped DEF TypeOK
  <1>5. store'[r.key] # Absent /\ store'[r.key].revision >= r.revision
    <2>1. CASE Supersedes(r, store[r.key])
      <3>1. store'[r.key] = r
        BY <1>2, <1>3, <2>1 DEF Latest, TypeOK
      <3> QED
        BY <1>2, <3>1
    <2>2. CASE ~Supersedes(r, store[r.key])
      <3>1. store'[r.key] = store[r.key]
        BY <1>3, <2>2 DEF Latest
      <3> QED
        BY <1>2, <1>4, <2>2, <3>1 DEF Supersedes
    <2> QED
      BY <2>1, <2>2
  <1> QED
    BY <1>3, <1>5 DEF Materialized

\* A step other than an upsert leaves the store alone.
LEMMA OthersKeepStore ==
    ASSUME [Next]_vars, \A c \in Consumers : ~Upsert(c)
    PROVE  store' = store
  BY DEF Next, vars, Publish, Compact, Start, Poll, ReachLimit, PollFails,
         LeaveLoop, Reject, Commit, Crash

\* No step replaces a row by an older revision, by another alert of the same
\* revision, or by nothing, whichever processes share the database.
THEOREM StoreNeverRegresses == Spec => StoreOnlyAdvances
  <1>1. ASSUME TypeOK, [Next]_vars, NEW k \in Keys,
               store[k] # Absent, store'[k] # store[k]
        PROVE  store'[k] # Absent /\ store'[k].revision > store[k].revision
    BY <1>1, OthersKeepStore, UpsertAdvances
  <1>2. TypeOK /\ [Next]_vars
          => [\A k \in Keys : (store[k] # Absent /\ store'[k] # store[k])
                                => /\ store'[k] # Absent
                                   /\ store'[k].revision > store[k].revision]_vars
    BY <1>1
  <1> QED
    BY <1>2, TypeCorrect, PTL DEF Spec, StoreOnlyAdvances

-----------------------------------------------------------------------------
(* Nothing is skipped *)

\* All that is left of the log from offset a up to, not including, b is
\* materialized.
Done(a, b) == \A o \in live : (a <= o /\ o < b) => Materialized(o)

\* The strengthening that makes NothingSkipped inductive: it also says what a
\* process holding a message has behind it, that it fetches next what follows,
\* and that no position runs ahead of the log.
SkipOK(c) ==
    /\ Done(joined[c], committed[c])
    /\ status[c] = Polling => Done(joined[c], position[c])
    /\ status[c] \in {Holding, Stored} =>
          /\ Done(joined[c], hand[c])
          /\ position[c] = hand[c] + 1
    /\ status[c] = Stored => Materialized(hand[c])
    /\ committed[c] <= Len(log) + 1
    /\ status[c] = Polling => position[c] <= Len(log) + 1

SkipInv == TypeOK /\ \A c \in Consumers : SkipOK(c)

\* What is materialized stays so, and the log keeps its records.
LEMMA MaterializedStays ==
    ASSUME TypeOK, [Next]_vars, NEW o \in Offsets
    PROVE  /\ o \in Offsets'
           /\ Materialized(o) => Materialized(o)'
  <1>1. o \in Offsets' /\ log'[o] = log[o]
    <2>1. CASE log' = log
      BY <2>1 DEF Offsets
    <2>2. ASSUME NEW r \in Records, Publish(r)
          PROVE  o \in Offsets' /\ log'[o] = log[o]
      <3>1. log' = Append(log, r) /\ log \in Seq(Records)
        BY <2>2 DEF Publish, TypeOK
      <3> QED
        BY <3>1 DEF Offsets
    <2>3. log' = log \/ \E r \in Records : Publish(r)
      BY DEF Next, vars, Compact, Start, Poll, ReachLimit, PollFails, LeaveLoop,
             Reject, Upsert, Commit, Crash
    <2> QED
      BY <2>1, <2>2, <2>3
  <1>2. log[o] \in Records /\ log[o].key \in Keys /\ log[o].revision \in Nat
    BY LogTyped, RecordsTyped
  <1> DEFINE k == log[o].key
  <1>3. ASSUME store[k] # Absent, store[k].revision >= log[o].revision
        PROVE  store'[k] # Absent /\ store'[k].revision >= log[o].revision
    <2>1. store[k].revision \in Nat
      BY <1>2, <1>3, RecordsTyped DEF TypeOK
    <2>2. \/ store'[k] = store[k]
          \/ store'[k] # Absent /\ store'[k].revision > store[k].revision
      BY <1>2, <1>3, OthersKeepStore, UpsertAdvances
    <2>3. CASE store'[k] = store[k]
      BY <1>3, <2>3
    <2>4. CASE store'[k] # Absent /\ store'[k].revision > store[k].revision
      <3>1. TypeOK'
        BY StepTyped
      <3>2. store'[k] \in Records
        BY <1>2, <2>4, <3>1 DEF TypeOK
      <3>3. store'[k].revision \in Nat
        BY <3>2, RecordsTyped
      <3> QED
        BY <1>2, <1>3, <2>1, <2>4, <3>3
    <2> QED
      BY <2>2, <2>3, <2>4
  <1> QED
    BY <1>1, <1>3 DEF Materialized

\* What is done stays done below the old end of the log.
LEMMA DoneStays ==
    ASSUME TypeOK, [Next]_vars, NEW a \in Nat, NEW b \in Nat,
           Done(a, b), b <= Len(log) + 1
    PROVE  \A o \in live' : (a <= o /\ o < b) => Materialized(o)'
  <1> SUFFICES ASSUME NEW o \in live', a <= o, o < b
               PROVE  Materialized(o)'
    OBVIOUS
  <1>1. o \in live
    <2>1. live' \subseteq live \/ live' = live \union {Len(log) + 1}
      BY DEF Next, vars, Publish, Compact, Start, Poll, ReachLimit, PollFails,
             LeaveLoop, Reject, Upsert, Commit, Crash
    <2>2. Len(log) \in Nat
      BY DEF TypeOK
    <2>3. o # Len(log) + 1
      BY <2>2
    <2> QED
      BY <2>1, <2>3
  <1>2. o \in Offsets
    BY <1>1 DEF TypeOK
  <1> QED
    BY <1>1, <1>2, MaterializedStays DEF Done

\* A process that takes no part in a step keeps its part of the invariant.
LEMMA IdleKeepsSkip ==
    ASSUME SkipInv, [Next]_vars, NEW c \in Consumers,
           committed'[c] = committed[c], status'[c] = status[c],
           position'[c] = position[c], hand'[c] = hand[c],
           joined'[c] = joined[c]
    PROVE  SkipOK(c)'
  <1> USE DEF Stopped, Polling, Holding, Stored
  <1>0. TypeOK /\ SkipOK(c)
    BY DEF SkipInv
  <1>1. /\ joined[c] \in Nat /\ committed[c] \in Nat /\ position[c] \in Nat
        /\ hand[c] \in Nat /\ Len(log) \in Nat
    BY <1>0 DEF TypeOK
  <1>2. Len(log') \in Nat /\ Len(log) <= Len(log')
    <2>1. log' = log \/ \E r \in Records : log' = Append(log, r)
      BY DEF Next, vars, Publish, Compact, Start, Poll, ReachLimit, PollFails,
             LeaveLoop, Reject, Upsert, Commit, Crash
    <2> QED
      BY <1>0, <1>1, <2>1 DEF TypeOK
  <1>3. Done(joined[c], committed[c])'
    BY <1>0, <1>1, DoneStays DEF SkipOK, Done
  <1>4. status'[c] = Polling => Done(joined[c], position[c])'
    BY <1>0, <1>1, DoneStays DEF SkipOK, Done
  <1>5. status[c] \in {Holding, Stored} => hand[c] \in Offsets
    BY <1>0 DEF TypeOK
  <1>6. status'[c] \in {Holding, Stored} =>
           /\ Done(joined[c], hand[c])'
           /\ position'[c] = hand'[c] + 1
    <2>1. status[c] \in {Holding, Stored} => hand[c] <= Len(log) + 1
      BY <1>1, <1>5 DEF Offsets
    <2> QED
      BY <1>0, <1>1, <2>1, DoneStays DEF SkipOK, Done
  <1>7. status'[c] = Stored => Materialized(hand[c])'
    <2>1. status[c] = Stored => Materialized(hand[c]) /\ hand[c] \in Offsets
      BY <1>0, <1>5 DEF SkipOK
    <2>2. ASSUME status[c] = Stored
          PROVE  \A o \in Offsets : Materialized(o) => Materialized(o)'
      BY <1>0, MaterializedStays
    <2>3. \A o \in Offsets : o = hand[c] /\ Materialized(o)' => Materialized(hand[c])'
      BY DEF Materialized
    <2> QED
      BY <2>1, <2>2, <2>3
  <1>8. committed'[c] <= Len(log') + 1
    BY <1>0, <1>1, <1>2 DEF SkipOK
  <1>9. status'[c] = Polling => position'[c] <= Len(log') + 1
    BY <1>0, <1>1, <1>2 DEF SkipOK
  <1> QED
    BY <1>3, <1>4, <1>6, <1>7, <1>8, <1>9 DEF SkipOK

\* Every step keeps the strengthened invariant.
LEMMA StepSkips == SkipInv /\ [Next]_vars => SkipInv'
  <1> SUFFICES ASSUME SkipInv, [Next]_vars, NEW c \in Consumers
               PROVE  SkipOK(c)'
    BY StepTyped DEF SkipInv
  <1> USE DEF Stopped, Polling, Holding, Stored
  <1>0. TypeOK /\ TypeOK' /\ SkipOK(c)
    BY StepTyped DEF SkipInv
  <1>t. /\ joined[c] \in Nat \ {0} /\ committed[c] \in Nat
        /\ position[c] \in Nat \ {0} /\ hand[c] \in Nat /\ Len(log) \in Nat
        /\ \A o \in live : o \in Nat
    BY <1>0 DEF TypeOK, Offsets
  <1>1. CASE Start(c)
    <2>1. /\ live' = live /\ log' = log /\ store' = store
          /\ committed' = committed /\ status'[c] = Polling
      BY <1>0, <1>1 DEF Start, TypeOK
    <2>2. \A o \in live : Materialized(o)' <=> Materialized(o)
      BY <2>1 DEF Materialized
    <2>3. CASE committed[c] = 0
      <3>1. /\ position'[c] = joined'[c]
            /\ joined'[c] \in Nat \ {0} /\ joined'[c] <= Len(log) + 1
        BY <1>0, <1>t, <1>1, <2>3 DEF Start, ResetPosition, TypeOK
      <3> QED
        BY <1>t, <2>1, <2>3, <3>1 DEF SkipOK, Done
    <2>4. CASE committed[c] # 0
      <3>1. position'[c] = committed[c] /\ joined' = joined
        BY <1>0, <1>1, <2>4 DEF Start, TypeOK
      <3> QED
        BY <1>0, <2>1, <2>2, <3>1 DEF SkipOK, Done
    <2> QED
      BY <2>3, <2>4
  <1>2. CASE Poll(c)
    <2>0. PICK o \in live : /\ IsNext(c, o)
                            /\ hand' = [hand EXCEPT ![c] = o]
                            /\ position' = [position EXCEPT ![c] = o + 1]
      BY <1>0, <1>2, PollTakes
    <2>1. IsNext(c, o) /\ hand'[c] = o /\ position'[c] = o + 1
      BY <1>0, <2>0 DEF TypeOK
    <2>2. /\ live' = live /\ log' = log /\ store' = store
          /\ committed' = committed /\ joined' = joined
          /\ status[c] = Polling /\ status'[c] = Holding
      BY <1>0, <1>2 DEF Poll, CommittedByClient, TypeOK
    <2>3. \A p \in live : Materialized(p)' <=> Materialized(p)
      BY <2>2 DEF Materialized
    <2>4. Done(joined[c], o)
      BY <1>0, <1>t, <2>1, <2>2 DEF SkipOK, Done, IsNext
    <2> QED
      BY <1>0, <2>1, <2>2, <2>3, <2>4 DEF SkipOK, Done
  <1>3. CASE LeaveLoop(c) \/ Reject(c) \/ Crash(c)
    <2>1. /\ live' = live /\ log' = log /\ store' = store
          /\ committed' = committed /\ joined' = joined
          /\ status'[c] = Stopped
      BY <1>0, <1>3 DEF LeaveLoop, Reject, Crash, history, TypeOK
    <2>2. \A p \in live : Materialized(p)' <=> Materialized(p)
      BY <2>1 DEF Materialized
    <2> QED
      BY <1>0, <2>1, <2>2 DEF SkipOK, Done
  <1>4. CASE Upsert(c)
    <2>1. /\ live' = live /\ log' = log /\ hand' = hand
          /\ committed' = committed /\ joined' = joined
          /\ position' = position
          /\ status[c] = Holding /\ status'[c] = Stored
      BY <1>0, <1>4 DEF Upsert, TypeOK
    <2>2. Materialized(hand[c])'
      BY <1>0, <1>4, UpsertMaterializes
    <2>3. \A o \in live : Materialized(o) => Materialized(o)'
      BY <1>0, MaterializedStays DEF TypeOK
    <2> QED
      BY <1>0, <2>1, <2>2, <2>3 DEF SkipOK, Done
  <1>5. CASE Commit(c)
    <2>1. /\ live' = live /\ log' = log /\ store' = store /\ hand' = hand
          /\ committed'[c] = hand[c] + 1 /\ joined' = joined
          /\ position' = position
          /\ status[c] = Stored /\ status'[c] = Polling
      BY <1>0, <1>5 DEF Commit, OffsetToCommit, history, TypeOK
    <2>2. \A p \in live : Materialized(p)' <=> Materialized(p)
      BY <2>1 DEF Materialized
    <2>3. hand[c] <= Len(log)
      BY <1>0, <1>t, <2>1 DEF TypeOK, Offsets
    <2>4. Done(joined[c], hand[c] + 1)
      BY <1>0, <1>t, <2>1 DEF SkipOK, Done
    <2>5. position[c] = hand[c] + 1
      BY <1>0, <2>1 DEF SkipOK
    <2> QED
      BY <1>t, <2>1, <2>2, <2>3, <2>4, <2>5 DEF SkipOK, Done
  <1>6. CASE ~(\/ Start(c) \/ Poll(c) \/ LeaveLoop(c) \/ Reject(c)
               \/ Crash(c) \/ Upsert(c) \/ Commit(c))
    <2>1. /\ committed'[c] = committed[c] /\ status'[c] = status[c]
          /\ position'[c] = position[c] /\ hand'[c] = hand[c]
          /\ joined'[c] = joined[c]
      <3>1. ASSUME NEW d \in Consumers, d # c,
                   \/ Start(d) \/ Poll(d) \/ LeaveLoop(d) \/ Reject(d)
                   \/ Crash(d) \/ Upsert(d) \/ Commit(d)
            PROVE  /\ committed'[c] = committed[c] /\ status'[c] = status[c]
                   /\ position'[c] = position[c] /\ hand'[c] = hand[c]
                   /\ joined'[c] = joined[c]
        <4>1. CASE Start(d)
          BY <1>0, <3>1, <4>1 DEF Start, TypeOK
        <4>2. CASE Poll(d)
          <5>1. \E o \in live : /\ hand' = [hand EXCEPT ![d] = o]
                                /\ position' = [position EXCEPT ![d] = o + 1]
            BY <1>0, <4>2, PollTakes
          <5>2. hand'[c] = hand[c] /\ position'[c] = position[c]
            BY <1>0, <3>1, <5>1 DEF TypeOK
          <5> QED
            BY <1>0, <3>1, <4>2, <5>2 DEF Poll, CommittedByClient, TypeOK
        <4>3. CASE LeaveLoop(d) \/ Reject(d) \/ Crash(d)
          BY <1>0, <3>1, <4>3 DEF LeaveLoop, Reject, Crash, history, TypeOK
        <4>4. CASE Upsert(d)
          BY <1>0, <3>1, <4>4 DEF Upsert, TypeOK
        <4>5. CASE Commit(d)
          BY <1>0, <3>1, <4>5 DEF Commit, OffsetToCommit, history, TypeOK
        <4> QED
          BY <3>1, <4>1, <4>2, <4>3, <4>4, <4>5
      <3>2. CASE UNCHANGED <<consumerVars, history>>
        BY <3>2 DEF consumerVars, history
      <3> QED
        BY <1>6, <3>1, <3>2
           DEF Next, vars, Publish, Compact, ReachLimit, PollFails
    <2> QED
      BY <2>1, IdleKeepsSkip
  <1> QED
    BY <1>1, <1>2, <1>3, <1>4, <1>5, <1>6

\* Nothing has been read at the start.
LEMMA InitSkips == Init => SkipInv
  BY InitTyped
     DEF Init, SkipInv, SkipOK, Done, Stopped, Polling, Holding, Stored

\* Whatever is killed between a poll, an upsert and a commit, and however
\* many processes share the database: behind the position of a process and
\* behind its committed offset everything is materialized.
THEOREM CommitsFollowUpserts == Spec => []NothingSkipped
  <1>1. SkipInv => NothingSkipped
    BY DEF SkipInv, SkipOK, NothingSkipped, Done
  <1> QED
    BY <1>1, InitSkips, StepSkips, PTL DEF Spec

\* With --from-beginning, delivery is at least once: no process ever has
\* behind it an alert it polled that is not in the store.
THEOREM FromBeginningLosesNothing ==
    ASSUME FromBeginning
    PROVE  Spec => []NoPolledAlertLost
  <1> DEFINE J == \A c \in Consumers : joined[c] = 1
  <1>1. Init => J
    BY DEF Init
  <1>2. TypeOK /\ J /\ [Next]_vars => J'
    <2> SUFFICES ASSUME TypeOK, J, [Next]_vars, NEW c \in Consumers
                 PROVE  joined'[c] = 1
      OBVIOUS
    <2>1. ASSUME NEW d \in Consumers, Start(d)
          PROVE  joined'[c] = 1
      BY <2>1 DEF Start, ResetPosition, TypeOK
    <2>2. joined' = joined \/ \E d \in Consumers : Start(d)
      BY DEF Next, vars, history, Publish, Compact, Poll, ReachLimit,
             PollFails, LeaveLoop, Reject, Upsert, Commit, Crash
    <2> QED
      BY <2>1, <2>2
  <1>3. TypeOK /\ J /\ NothingSkipped => NoPolledAlertLost
    BY DEF TypeOK, NothingSkipped, NoPolledAlertLost, Offsets
  <1> QED
    BY <1>1, <1>2, <1>3, TypeCorrect, CommitsFollowUpserts, PTL DEF Spec

-----------------------------------------------------------------------------
(* The view *)

\* The alerts that the topic has published and a materializer accepts.
Accepted == {r \in ToSet(log) : r.wellFormed}

\* Appending a record publishes that record and nothing else.
LEMMA AppendPublishes ==
    ASSUME TypeOK, NEW r \in Records, log' = Append(log, r)
    PROVE  ToSet(log)' = ToSet(log) \union {r}
  <1>1. log \in Seq(Records) /\ log' \in Seq(Records)
    BY DEF TypeOK
  <1>2. DOMAIN log = 1 .. Len(log) /\ DOMAIN log' = 1 .. Len(log) + 1
    BY <1>1
  <1>3. /\ \A i \in 1 .. Len(log) : log'[i] = log[i]
        /\ log'[Len(log) + 1] = r
        /\ Len(log) \in Nat
    BY <1>1
  <1>4. 1 .. Len(log) + 1 = (1 .. Len(log)) \union {Len(log) + 1}
    BY <1>3
  <1> QED
    BY <1>2, <1>3, <1>4 DEF ToSet

\* Every materializer starts with the empty view of nothing published.
LEMMA ViewStarts == Init => View!Init
  BY DEF Init, View!Init, EmptyView, View!EmptyView, ToSet

\* An upsert takes the alert it has in hand.
LEMMA UpsertTakes ==
    ASSUME TypeOK, NEW c \in Consumers, Upsert(c)
    PROVE  View!Take(log[hand[c]]) /\ log[hand[c]] \in Accepted
  <1> DEFINE r == log[hand[c]]
  <1>1. hand[c] \in Offsets
    BY DEF Upsert, TypeOK, Holding
  <1>2. r \in Records /\ r.key \in Keys /\ r.revision \in Nat
    BY <1>1, LogTyped, RecordsTyped
  <1>3. r \in Accepted
    BY <1>1 DEF Upsert, Accepted, ToSet, Offsets, TypeOK
  <1>4. store' = Latest(store, r) /\ log' = log
    BY DEF Upsert, UpsertInto
  <1>5. store[r.key] # Absent => store[r.key].revision \in Nat
    BY <1>2, RecordsTyped DEF TypeOK
  <1>6. Supersedes(r, store[r.key])
          <=> store[r.key] = Absent \/ store[r.key].revision < r.revision
    BY <1>2, <1>5 DEF Supersedes
  <1> QED
    BY <1>3, <1>4, <1>6 DEF View!Take, Latest, Accepted

\* Every step of the materializers and the topic is one of the view, or
\* changes nothing in it.
LEMMA ViewSteps == TypeOK /\ [Next]_vars => [View!Next]_View!viewVars
  <1> SUFFICES ASSUME TypeOK, [Next]_vars
               PROVE  View!Next \/ UNCHANGED View!viewVars
    OBVIOUS
  <1>1. ASSUME NEW r \in Records, Publish(r)
        PROVE  View!Next \/ UNCHANGED View!viewVars
    <2>1. store' = store /\ ToSet(log)' = ToSet(log) \union {r}
      BY <1>1, AppendPublishes DEF Publish
    <2>2. CASE r.wellFormed
      <3>1. View!Publish(r)
        BY <2>1, <2>2 DEF View!Publish
      <3> QED
        BY <3>1 DEF View!Next
    <2>3. CASE ~r.wellFormed
      BY <2>1, <2>3 DEF View!viewVars
    <2> QED
      BY <2>2, <2>3
  <1>2. ASSUME NEW c \in Consumers, Upsert(c)
        PROVE  View!Next
    BY <1>2, UpsertTakes DEF View!Next, Accepted
  <1>3. ASSUME \A r \in Records : ~Publish(r), \A c \in Consumers : ~Upsert(c)
        PROVE  UNCHANGED View!viewVars
    <2>1. log' = log
      BY <1>3 DEF Next, vars, Compact, Start, Poll, ReachLimit, PollFails,
                  LeaveLoop, Reject, Commit, Crash
    <2> QED
      BY <1>3, <2>1, OthersKeepStore DEF View!viewVars
  <1> QED
    BY <1>1, <1>2, <1>3

\* The materializers, with their offsets, groups, compaction and crashes,
\* implement the view that holds the highest revision taken per key.
THEOREM MaterializerImplementsView == Spec => ImplementsView
  BY ViewStarts, ViewSteps, TypeCorrect, PTL
     DEF Spec, ImplementsView, View!Spec

-----------------------------------------------------------------------------
(* Replays *)

Views == [Keys -> Records \union {Absent}]

LatestStep == [p \in Views \X Records |-> Latest(p[1], p[2])]

LEMMA LatestTyped ==
    /\ EmptyView \in Views
    /\ LatestStep \in [Views \X Records -> Views]
  BY RecordsTyped DEF EmptyView, Views, LatestStep, Latest

\* materialize_latest_alerts is a fold from the left.
LEMMA LatestIsFold ==
    ASSUME NEW q \in Seq(Records)
    PROVE  \E f \in [SUBSET DOMAIN q -> Views] :
              /\ LeftFold(f, q, EmptyView, LatestStep)
              /\ MaterializeLatest(q) = f[DOMAIN q]
  <1> DEFINE n == Len(q)
             Step(f) == [s \in SUBSET DOMAIN q |->
                           IF s = {} THEN EmptyView
                           ELSE Latest(f[s \ {Max(s)}], q[Max(s)])]
             h == CHOOSE f : f = Step(f)
  <1>1. n \in Nat /\ DOMAIN q = 1 .. n
    OBVIOUS
  <1>2. PICK f \in [SUBSET DOMAIN q -> Views] :
           LeftFold(f, q, EmptyView, LatestStep)
    BY LatestTyped, LeftFoldExists
  <1>3. \A s \in SUBSET DOMAIN q : s # {} =>
           /\ Max(s) \in DOMAIN q /\ q[Max(s)] \in Records
           /\ f[s \ {Max(s)}] \in Views
           /\ s \ {Max(s)} \in SUBSET DOMAIN q
    BY <1>1, LastOfChooses
  <1>4. f = Step(f)
    <2>1. f = [s \in SUBSET DOMAIN q |->
                 IF s = {} THEN EmptyView
                 ELSE LatestStep[<<f[s \ {Max(s)}], q[Max(s)]>>]]
      BY <1>2 DEF LeftFold
    <2>2. \A s \in SUBSET DOMAIN q : s # {} =>
             LatestStep[<<f[s \ {Max(s)}], q[Max(s)]>>]
               = Latest(f[s \ {Max(s)}], q[Max(s)])
      BY <1>3 DEF LatestStep
    <2> QED
      BY <2>1, <2>2
  <1>5. h = Step(h)
    <2> HIDE DEF Step
    <2> QED
      BY <1>4
  <1>6. h[DOMAIN q] = f[DOMAIN q]
    <2> DEFINE S == 1 .. n
               c == LastOf(n)
               T == {s \in SUBSET S : h[s] = f[s]}
    <2>1. h[{}] = EmptyView /\ f[{}] = EmptyView
      BY <1>4, <1>5
    <2>2. {} \in T
      BY <2>1
    <2>3. ASSUME NEW s \in SUBSET S, s # {}, s \ {c[s]} \in T
          PROVE  s \in T
      <3>1. c[s] = Max(s)
        BY DEF LastOf
      <3>2. /\ h[s] = Latest(h[s \ {Max(s)}], q[Max(s)])
            /\ f[s] = Latest(f[s \ {Max(s)}], q[Max(s)])
        BY <1>1, <1>4, <1>5, <2>3
      <3> QED
        BY <2>3, <3>1, <3>2
    <2>4. IsFiniteSet(S) /\ IsChoice(c, S)
      BY <1>1, FS_Interval, LastOfChooses
    <2> HIDE DEF T, S, c
    <2>5. SUBSET S \subseteq T
      BY <2>2, <2>3, <2>4, SetInduction
    <2> QED
      BY <1>1, <2>5 DEF T, S
  <1>7. MaterializeLatest(q) = h[DOMAIN q]
    BY DEF MaterializeLatest, FoldLeft, MapThenFoldSet
  <1> QED
    BY <1>2, <1>6, <1>7

\* So one more alert is one more step of it, and no alert leaves no row.
LEMMA LatestOfMore ==
    /\ MaterializeLatest(<< >>) = EmptyView
    /\ \A q \in Seq(Records), r \in Records :
          MaterializeLatest(Append(q, r)) = Latest(MaterializeLatest(q), r)
  <1>1. MaterializeLatest(<< >>) = EmptyView
    <2>1. << >> \in Seq(Records) /\ DOMAIN << >> = {}
      OBVIOUS
    <2>2. PICK f : /\ LeftFold(f, << >>, EmptyView, LatestStep)
                   /\ MaterializeLatest(<< >>) = f[DOMAIN << >>]
      BY <2>1, LatestIsFold
    <2> QED
      BY <2>1, <2>2 DEF LeftFold
  <1>2. ASSUME NEW q \in Seq(Records), NEW r \in Records
        PROVE  MaterializeLatest(Append(q, r)) = Latest(MaterializeLatest(q), r)
    <2>1. PICK f \in [SUBSET DOMAIN q -> Views] :
             /\ LeftFold(f, q, EmptyView, LatestStep)
             /\ MaterializeLatest(q) = f[DOMAIN q]
      BY LatestIsFold
    <2>2. Append(q, r) \in Seq(Records)
      OBVIOUS
    <2>3. PICK g :
             /\ LeftFold(g, Append(q, r), EmptyView, LatestStep)
             /\ MaterializeLatest(Append(q, r)) = g[DOMAIN Append(q, r)]
      BY <2>2, LatestIsFold
    <2>4. g[DOMAIN Append(q, r)] = LatestStep[<<f[DOMAIN q], r>>]
      BY <2>1, <2>3, LeftFoldAppends
    <2>5. f[DOMAIN q] \in Views
      BY <2>1
    <2> QED
      BY <2>1, <2>3, <2>4, <2>5 DEF LatestStep
  <1> QED
    BY <1>1, <1>2

\* The records taken, each once, in the order of the first time.
Taken == [i \in DOMAIN applied |-> log[applied[i]]]

\* The strengthening for replays: what was taken is materialized, so that
\* taking it again changes nothing.
ReplayInv ==
    /\ TypeOK
    /\ \A i \in DOMAIN applied : /\ applied[i] \in Offsets
                                 /\ Materialized(applied[i])
    /\ store = MaterializeLatest(Taken)

LEMMA InitReplays == Init => ReplayInv
  <1> SUFFICES ASSUME Init
               PROVE  ReplayInv
    OBVIOUS
  <1>1. applied = << >> /\ store = EmptyView /\ DOMAIN applied = {}
    BY DEF Init
  <1>2. Taken = << >>
    BY <1>1 DEF Taken
  <1> QED
    BY <1>1, <1>2, InitTyped, LatestOfMore DEF ReplayInv

\* Every step keeps it: an upsert of a record taken before does nothing, and
\* one of a new record is the next step of the fold.
LEMMA StepReplays == ReplayInv /\ [Next]_vars => ReplayInv'
  <1> SUFFICES ASSUME ReplayInv, [Next]_vars
               PROVE  ReplayInv'
    OBVIOUS
  <1>0. /\ TypeOK /\ TypeOK'
        /\ applied \in Seq(Nat) /\ log \in Seq(Records) /\ Len(log) \in Nat
        /\ DOMAIN applied = 1 .. Len(applied) /\ Len(applied) \in Nat
        /\ \A i \in DOMAIN applied : applied[i] \in 1 .. Len(log)
    <2>1. TypeOK /\ TypeOK'
      BY StepTyped DEF ReplayInv
    <2>2. applied \in Seq(Nat) /\ log \in Seq(Records)
      BY <2>1 DEF TypeOK
    <2>3. /\ Len(log) \in Nat
          /\ DOMAIN applied = 1 .. Len(applied) /\ Len(applied) \in Nat
      BY <2>2
    <2>4. \A i \in DOMAIN applied : applied[i] \in 1 .. Len(log)
      BY DEF ReplayInv, Offsets
    <2> QED
      BY <2>1, <2>2, <2>3, <2>4
  <1>1. /\ Offsets \subseteq Offsets'
        /\ \A o \in Offsets : log'[o] = log[o]
        /\ \A o \in Offsets : Materialized(o) => Materialized(o)'
    <2>1. \A o \in Offsets : Materialized(o) => Materialized(o)'
      BY <1>0, MaterializedStays
    <2>2. log' = log \/ \E r \in Records : log' = Append(log, r)
      BY DEF Next, Publish, Compact, Start, Poll, ReachLimit, PollFails,
             LeaveLoop, Reject, Upsert, Commit, Crash, vars
    <2>3. CASE log' = log
      BY <2>1, <2>3 DEF Offsets
    <2>4. ASSUME NEW r \in Records, log' = Append(log, r)
          PROVE  /\ Offsets \subseteq Offsets'
                 /\ \A o \in Offsets : log'[o] = log[o]
      <3>1. /\ Len(log') = Len(log) + 1
            /\ \A o \in 1 .. Len(log) : log'[o] = log[o]
        BY <1>0, <2>4
      <3> QED
        BY <1>0, <3>1 DEF Offsets
    <2> QED
      BY <2>1, <2>2, <2>3, <2>4
  <1>2. ASSUME applied' = applied, store' = store
        PROVE  ReplayInv'
    <2>1. \A i \in DOMAIN applied : log'[applied[i]] = log[applied[i]]
      BY <1>0, <1>1 DEF Offsets
    <2>2. Taken' = Taken
      BY <1>2, <2>1 DEF Taken
    <2>3. MaterializeLatest(Taken)' = MaterializeLatest(Taken)
      BY <2>2 DEF MaterializeLatest, EmptyView
    <2>4. \A i \in DOMAIN applied' : /\ applied'[i] \in Offsets'
                                     /\ Materialized(applied[i])'
      BY <1>0, <1>1, <1>2 DEF ReplayInv
    <2> QED
      BY <1>0, <1>2, <2>3, <2>4 DEF ReplayInv
  <1>3. ASSUME NEW c \in Consumers, Upsert(c)
        PROVE  ReplayInv'
    <2> DEFINE r == log[hand[c]]
    <2>1. /\ hand[c] \in Offsets /\ hand[c] \in Nat
          /\ r \in Records /\ r.key \in Keys /\ r.revision \in Nat
      BY <1>0, <1>3, LogTyped, RecordsTyped DEF Upsert, TypeOK, Holding
    <2>2. store' = Latest(store, r) /\ log' = log /\ hand' = hand
      BY <1>3 DEF Upsert, UpsertInto
    <2>3. CASE \E i \in DOMAIN applied : applied[i] = hand[c]
      <3>1. Materialized(hand[c])
        BY <2>3 DEF ReplayInv
      <3>2. store[r.key] # Absent /\ store[r.key].revision >= r.revision
        BY <3>1 DEF Materialized
      <3>3. store[r.key].revision \in Nat
        BY <1>0, <2>1, <3>2, RecordsTyped DEF TypeOK
      <3>4. ~ Supersedes(r, store[r.key])
        BY <2>1, <3>2, <3>3 DEF Supersedes
      <3>5. store' = store
        BY <2>2, <3>4 DEF Latest
      <3>6. applied' = applied
        BY <1>3, <2>3 DEF Upsert
      <3> QED
        BY <1>2, <3>5, <3>6
    <2>4. CASE ~ \E i \in DOMAIN applied : applied[i] = hand[c]
      <3>0. PICK n \in Nat : n = Len(applied)
        BY <1>0
      <3>1. applied' = Append(applied, hand[c])
        BY <1>3, <2>4 DEF Upsert
      <3>2. /\ n \in Nat /\ DOMAIN applied' = 1 .. n + 1
            /\ \A i \in 1 .. n : applied'[i] = applied[i]
            /\ applied'[n + 1] = hand[c]
        BY <1>0, <2>1, <3>0, <3>1, AppendMeans
      <3>3. Taken \in Seq(Records) /\ Len(Taken) = n
        BY <1>0, <3>0 DEF Taken
      <3>4. Taken' = Append(Taken, r)
        BY <1>0, <2>1, <2>2, <3>0, <3>2, <3>3 DEF Taken
      <3>5. MaterializeLatest(Taken)' = MaterializeLatest(Append(Taken, r))
        BY <3>4 DEF MaterializeLatest, EmptyView
      <3>6. store' = MaterializeLatest(Taken)'
        BY <2>1, <2>2, <3>3, <3>5, LatestOfMore DEF ReplayInv
      <3>7. \A i \in 1 .. n : /\ applied'[i] \in Offsets'
                              /\ Materialized(applied[i])'
        BY <1>0, <1>1, <3>0, <3>2 DEF ReplayInv, Materialized
      <3>8. /\ applied'[n + 1] \in Offsets'
            /\ Materialized(applied[n + 1])'
        <4>1. Materialized(hand[c])'
          BY <1>0, <1>3, UpsertMaterializes
        <4>2. applied'[n + 1] = hand'[c] /\ hand'[c] \in Offsets'
          BY <1>1, <2>1, <2>2, <3>2
        <4> QED
          BY <4>1, <4>2 DEF Materialized
      <3>9. \A i \in 1 .. n + 1 : i \in 1 .. n \/ i = n + 1
        BY <3>0
      <3>10. ASSUME NEW i \in DOMAIN applied'
             PROVE  /\ applied'[i] \in Offsets'
                    /\ Materialized(applied[i])'
        <4>1. CASE i \in 1 .. n
          BY <3>7, <4>1
        <4>2. CASE i = n + 1
          BY <3>8, <4>2 DEF Materialized
        <4> QED
          BY <3>2, <3>9, <4>1, <4>2
      <3> QED
        BY <1>0, <3>6, <3>10 DEF ReplayInv
    <2> QED
      BY <2>3, <2>4
  <1>4. ASSUME \A c \in Consumers : ~ Upsert(c)
        PROVE  applied' = applied /\ store' = store
    BY <1>4, OthersKeepStore
       DEF Next, Publish, Compact, Start, Poll, ReachLimit, PollFails,
           LeaveLoop, Reject, Commit, Crash, history, vars
  <1> QED
    BY <1>2, <1>3, <1>4

\* However often records are polled and upserted again, by whichever process,
\* after whichever crash, the table is what materialize_latest_alerts makes of
\* each record once.
THEOREM ReplaysAreHarmless == Spec => []ReplayIsIdempotent
  <1>1. ReplayInv => ReplayIsIdempotent
    BY DEF ReplayInv, ReplayIsIdempotent, Taken
  <1> QED
    BY <1>1, InitReplays, StepReplays, PTL DEF Spec
=============================================================================
