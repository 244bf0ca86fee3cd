------------------------------ MODULE EndToEnd ------------------------------
(***************************************************************************)
(* The whole chain, from bank.transactions.raw to the SQLite view:         *)
(* build_kafka_pipeline and main of src/src/pipeline/streaming_pipeline.py *)
(* over the alert topic and the materializer.  The domain chain is         *)
(* VelocityLedger, which VelocityPipeline implements, and the materializer *)
(* LatestRevisionView, which AlertConsumer implements; here are the seams: *)
(* source offsets, the writes of WriteToKafka, and runs of the pipeline    *)
(* that are stopped and started again.                                     *)
(*                                                                         *)
(* Nothing passes the runner's state from one run to the next: a new run   *)
(* has an empty deduplicator, empty accumulators and panes numbered from   *)
(* zero, while the topics, the committed offsets and the view stay.  A     *)
(* restart that resumes from a runner's checkpoint is not one: it is no    *)
(* step here, apart from the alerts it may write again.                    *)
(***************************************************************************)
EXTENDS VelocityLedger

CONSTANTS
    MaxTopic,     \* BOUND: transactions published
    MaxRuns,      \* BOUND: runs of the pipeline
    MaxRewrites,  \* BOUND: alerts written again
    Groups,       \* consumer groups of materializers over one view
    Resets,       \* auto.offset.reset of those who start them
    Absent        \* no row in the view

ASSUME BoundAssumption ==
    MaxTopic \in Nat /\ MaxRuns \in Nat \ {0} /\ MaxRewrites \in Nat

\* --from-beginning or, by default, not.
ASSUME ResetAssumption == Resets \subseteq {"earliest", "latest"}

VARIABLES
    topic,      \* bank.transactions.raw: valid transactions as published
    resumed,    \* where the source of this run resumed in it
    next,       \* position of that source
    running,    \* the pipeline is running
    runs,       \* runs so far
    log,        \* risk.alerts.velocity, over all runs
    rewrites,   \* alerts written again so far
    reading,    \* groups with a materializer at work
    committed,  \* per group: the offset it has committed, or 0
    position,   \* per group: of its last materializer in the log
    joined,     \* HISTORY per group: where it started without a commit, or 0
    store       \* the view of all of them

sourceVars == <<resumed, next>>
runVars == <<running, runs>>
logVars == <<log, rewrites>>
groupVars == <<reading, committed, position, joined>>
vars == <<topic, sourceVars, ledgerVars, runVars, logVars, groupVars, store>>

\* The alert of alert_to_kafka_record: the stable key and the revision.
AlertRecords == [key : Keys, revision : Nat, count : Nat, total : Nat]

\* No row is no alert.
ASSUME AbsentAssumption == Absent \notin AlertRecords

Encoded(k, r) ==
    [key |-> k, revision |-> r.revision, count |-> r.count, total |-> r.total]

View == INSTANCE LatestRevisionView
            WITH Records <- AlertRecords, published <- ToSet(log), view <- store

-----------------------------------------------------------------------------
EndInit ==
    /\ Init
    /\ topic = << >>
    /\ resumed = 1
    /\ next = 1
    /\ running = TRUE
    /\ runs = 1
    /\ log = << >>
    /\ rewrites = 0
    /\ reading = {}
    /\ committed = [g \in Groups |-> 0]
    /\ position = [g \in Groups |-> 1]
    /\ joined = [g \in Groups |-> 0]
    /\ store = View!EmptyView

\* A producer publishes a transaction, or the same one again.
Produce(e) ==
    /\ Len(topic) < MaxTopic
    /\ topic' = Append(topic, e)
    /\ UNCHANGED <<sourceVars, ledgerVars, runVars, logVars, groupVars, store>>

-----------------------------------------------------------------------------
(* The pipeline *)

\* ReadFromKafka delivers the next record to the stages.
Read ==
    /\ running
    /\ next <= Len(topic)
    /\ next' = next + 1
    /\ UNCHANGED <<topic, resumed, ledgerVars, runVars, logVars, groupVars,
                   store>>

\* A transaction that this run has read gets through to one of its windows.
\* It may also be too late for it, and never get there.
Enter(e, k) ==
    /\ running
    /\ e \in ToSet(SubSeq(topic, resumed, next - 1))
    /\ Count(e, k)
    /\ UNCHANGED <<topic, sourceVars, runVars, logVars, groupVars, store>>

\* A pane fires, and its alert, if it has one, is written to the topic.
FirePane(k, onTime) ==
    /\ running
    /\ Fire(k, onTime)
    /\ log' = IF Breach(Entry(k)) THEN Append(log, Encoded(k, Revision(k)))
                                  ELSE log
    /\ UNCHANGED <<topic, sourceVars, runVars, rewrites, groupVars, store>>

\* A bundle of WriteToKafka is tried again though its records were written.
WriteAgain(i) ==
    /\ running
    /\ rewrites < MaxRewrites
    /\ rewrites' = rewrites + 1
    /\ log' = Append(log, log[i])
    /\ UNCHANGED <<topic, sourceVars, ledgerVars, runVars, groupVars, store>>

\* Ctrl+C, --max-num-records, or the process is killed.
Stop ==
    /\ running
    /\ running' = FALSE
    /\ UNCHANGED <<topic, sourceVars, ledgerVars, runs, logVars, groupVars,
                   store>>

\* Where the source resumes: with the group of the last run at an offset that
\* run committed behind what it had read, with a group of its own, as
\* run-pipeline-directrunner.ps1 has, at the earliest.
ResumePastRead == 1 .. next + 1  \* mutant: one record further
ResumeOffsets == 1 .. next

\* The accumulators of a new run.
TotalsKept == total  \* mutant: the accumulators outlive the deduplicator
TotalsAtStart == [k \in Keys |-> 0]

\* main again: the stages start empty.
Rerun ==
    /\ ~running
    /\ runs < MaxRuns
    /\ runs' = runs + 1
    /\ running' = TRUE
    /\ next' \in ResumeOffsets
    /\ resumed' = next'
    /\ counted' = [k \in Keys |-> {}]
    /\ total' = TotalsAtStart
    /\ pane' = [k \in Keys |-> NewPane]
    /\ alerts' = [k \in Keys |-> << >>]
    /\ UNCHANGED <<topic, logVars, groupVars, store>>

-----------------------------------------------------------------------------
(* The materializers, one at a time in each group *)

\* Where a group without a commit starts.
ResetPosition(reset) == IF reset = "earliest" THEN 1 ELSE Len(log) + 1

\* main: the group resumes at its commit, or where auto.offset.reset says.
StartMaterializer(g) ==
    /\ g \notin reading
    /\ reading' = reading \union {g}
    /\ \/ /\ committed[g] = 0
          /\ \E reset \in Resets :
                position' = [position EXCEPT ![g] = ResetPosition(reset)]
          /\ joined' = [joined EXCEPT ![g] = position'[g]]
       \/ /\ committed[g] # 0
          /\ position' = [position EXCEPT ![g] = committed[g]]
          /\ UNCHANGED joined
    /\ UNCHANGED <<topic, sourceVars, ledgerVars, runVars, logVars, committed,
                   store>>

\* poll, upsert, and the commit of the offset behind the message.
Materialize(g) ==
    /\ g \in reading
    /\ position[g] <= Len(log)
    /\ position' = [position EXCEPT ![g] = @ + 1]
    /\ committed' = [committed EXCEPT ![g] = position[g] + 1]
    /\ UNCHANGED <<topic, sourceVars, ledgerVars, runVars, logVars, reading,
                   joined>>
    /\ View!Take(log[position[g]])

\* mutant: the commit comes before the upsert
DieCommitted(g) ==
    /\ g \in reading
    /\ position[g] <= Len(log)
    /\ reading' = reading \ {g}
    /\ committed' = [committed EXCEPT ![g] = position[g] + 1]
    /\ position' = [position EXCEPT ![g] = @ + 1]
    /\ UNCHANGED <<topic, sourceVars, ledgerVars, runVars, logVars, joined,
                   store>>

\* The process is killed, or the commit fails, behind the upsert.
DieUncommitted(g) ==
    /\ g \in reading
    /\ position[g] <= Len(log)
    /\ reading' = reading \ {g}
    /\ UNCHANGED <<topic, sourceVars, ledgerVars, runVars, logVars, committed,
                   position, joined>>
    /\ View!Take(log[position[g]])

\* --max-messages, a poll without an answer, an error, or the process is
\* killed between two messages.
EndMaterializer(g) ==
    /\ g \in reading
    /\ reading' = reading \ {g}
    /\ UNCHANGED <<topic, sourceVars, ledgerVars, runVars, logVars, committed,
                   position, joined, store>>

EndNext ==
    \/ \E e \in Events : Produce(e)
    \/ Read
    \/ \E e \in Events, k \in Keys : Enter(e, k)
    \/ \E k \in Keys, onTime \in BOOLEAN : FirePane(k, onTime)
    \/ \E i \in DOMAIN log : WriteAgain(i)
    \/ Stop
    \/ Rerun
    \/ \E g \in Groups : \/ StartMaterializer(g)
                         \/ Materialize(g)
                         \/ DieUncommitted(g)
                         \/ EndMaterializer(g)

EndSpec == EndInit /\ [][EndNext]_vars

\* A running pipeline fires its panes (BreachIsAlerted of VelocityPipeline).
\* A materializer of each group is started again and again, and, as often as
\* it is stopped, gets a message through again and again (Converges of
\* AlertConsumer): that is a standing --consumer-group, not the groups that
\* consume-alerts.ps1 makes anew, each for three messages.  Reading, stopping
\* and running the pipeline again are up to others.
Fairness ==
    /\ \A k \in Keys : WF_vars(\E onTime \in BOOLEAN : FirePane(k, onTime))
    /\ \A g \in Groups : /\ WF_vars(StartMaterializer(g))
                         /\ SF_vars(Materialize(g))

FairSpec == EndSpec /\ Fairness

-----------------------------------------------------------------------------
(* Properties *)

\* The alerts of the whole log have been taken: by a group that started at
\* the first offset, with --from-beginning or before there was an alert.  One
\* that starts at the latest, the default, may never see those before it.
ReadThrough == \E g \in Groups : joined[g] = 1 /\ position[g] > Len(log)

\* The panes have told what the ledger of this run has of a window, and the
\* materializers have read everything.
Settled(k) == ReadThrough /\ ~pane[k].pending

\* What the whole topic has for a window, an id counted once.
PublishedIn(k) == {e \in ToSet(topic) : k \in KeysOf(e)}

PaneStates == [pending : BOOLEAN, onTime : BOOLEAN, index : Nat]
Revisions == [revision : Nat, count : Nat, total : Nat]

\* Types; the source is at most behind the last record, and the view has rows
\* of the alert topic only.
TypeOK ==
    /\ topic \in Seq(Events)
    /\ next \in 1 .. Len(topic) + 1
    /\ resumed \in 1 .. next
    /\ running \in BOOLEAN
    /\ runs \in 1 .. MaxRuns
    /\ counted \in [Keys -> SUBSET Events]
    /\ total \in [Keys -> Nat]
    /\ pane \in [Keys -> PaneStates]
    /\ alerts \in [Keys -> Seq(Revisions)]
    /\ log \in Seq(AlertRecords)
    /\ rewrites \in 0 .. MaxRewrites
    /\ reading \subseteq Groups
    /\ committed \in [Groups -> Nat]
    /\ position \in [Groups -> Nat \ {0}]
    /\ joined \in [Groups -> Nat]
    /\ store \in [Keys -> ToSet(log) \union {Absent}]
    /\ \A k \in Keys : store[k] # Absent => store[k].key = k

\* While the pipeline has run once, whatever is published twice, written
\* twice, read again or dropped as late in between: when things are settled,
\* a group that started at the first offset having read everything, the row of
\* a window over a threshold is what the pipeline has counted in it.
FirstRunSettles ==
    runs = 1 =>
        \A k \in Keys :
            (Settled(k) /\ Breach(Entry(k))) =>
                /\ store[k] # Absent
                /\ store[k].count = Entry(k).count
                /\ store[k].total = Entry(k).total

\* Whatever is stopped, run again and read again, a row never says more than
\* was published: no transaction is counted twice across runs either.
NeverOverstated ==
    \A k \in Keys : store[k] # Absent =>
        /\ store[k].count <= Cardinality(Ids(PublishedIn(k)))
        /\ store[k].total <= PartialOf(PublishedIn(k)).total

\* In any run a window over a threshold has a row that is over it too once a
\* group that started at the first offset has read everything, through kills,
\* commits and restarts: an old row may be stale, but there is one.
BreachIsNotSilent ==
    \A k \in Keys :
        (Settled(k) /\ Breach(Entry(k))) =>
            store[k] # Absent /\ Breach(store[k])

\* A breach of the first run reaches the view, unless that run is stopped or no
\* group is left that started at the first offset: however its materializers
\* are stopped and killed, such a group gets through.
BreachIsMaterialized ==
    \A k \in Keys : \A n \in 1 .. Cardinality(Events) :
        (runs = 1 /\ Breach(Entry(k)) /\ Entry(k).count = n)
            ~> \/ ~running \/ runs > 1
               \/ \A g \in Groups : joined[g] > 1
               \/ store[k] # Absent /\ store[k].count >= n

\* In any run the settled row is at least what this run has published last,
\* as "a consumer may keep the numerically greatest revision" has it.
StoreIsNotBehind ==
    \A k \in Keys :
        (Settled(k) /\ alerts[k] # << >>) =>
            store[k].total >= Last(alerts[k]).total
=============================================================================
