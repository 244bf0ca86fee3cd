# Velocity-alert streaming: TLA+ models and proofs

The repository reads bank transactions from Kafka, counts and sums them per
customer in sliding event-time windows, publishes revisions of velocity
alerts, and keeps the newest revision of each alert in SQLite. This directory
models it in TLA+, checks the models with TLC on small instances, and proves
their safety properties with TLAPS for every value of the constants. Paths
below are relative to the repository, whose README is quoted as "README".

## The system

```
synthetic_producer --> bank.transactions.raw --> validation --> windows --> dedup --> aggregation --> alerts
skew_analysis                (3 partitions)          |                                                  |
                                                     v                                                  v
                                        bank.transactions.invalid                         risk.alerts.velocity (1 partition, compacted)
                                                                                                        |
                                                                             materializer(s) --> SQLite: key -> highest revision
```

| Component | State it keeps | Operations | Interacts by | Hard behaviour | Correct when |
|---|---|---|---|---|---|
| Event contract, `src/common/event_contract.py` | none | build, encode, validate, parse time | called by producers and validation | values that make it raise instead of report | what it accepts passes the checks that later stages make again; it accepts what producers encode |
| Synthetic producer, `src/producer/synthetic_producer.py` | cycle, local queue of the client, delivery errors | publish a scenario, flush, Ctrl+C | asynchronous produce, callbacks in `poll`/`flush` | failure and timeout of some records, late arrivals, repeated runs | a cycle reported as published is there, cycles do not mix, an id names one event |
| Skew analysis, `src/producer/skew_analysis.py` | observed partition per record | publish two scenarios, summarise | as above, retry on a full queue | a missing or misplaced report | every observation belongs to its record, and what is printed was observed |
| Ingestion validation, `src/pipeline/validation.py` | none of its own; the bundle and the offsets of the source | one record to one of two outputs | tagged outputs, exceptions abort a bundle | raising records, bundle retries, offsets | every committed record is answered, the same way each time |
| Deduplication, `src/pipeline/deduplication.py` | event ids per customer and window, an expiry timer | process an element, clear on timer | stateful DoFn, watermark timer | late and repeated elements, its watermark ahead of the aggregation's | nothing counted twice, nothing suppressed that was not counted, state released |
| Windowing, aggregation, `src/pipeline/aggregation.py` | count and total per customer and window, trigger state | absorb, fire early, on-time and late panes | `CombinePerKey`, triggers | order of panes, lateness | the aggregate is that of the distinct events |
| Alerts, `src/pipeline/alerts.py` | none (the pane index comes with the pane) | a pane to a revision or nothing | `WriteToKafka` | below-threshold panes, revision order | the last revision is the truth, higher supersedes lower |
| Wiring, `src/pipeline/streaming_pipeline.py` | offsets of the source group | build the graph, encode outputs | Kafka source and sinks | `commit_offset_in_finalize`, ProcessingTime watermark, restart | at-least-once |
| Materializer, `src/materializer/alert_consumer.py` | SQLite table, group offsets | poll, upsert, commit | several processes on one database | kill between steps, replays, stale revisions, compaction, malformed alerts | nothing skipped, the store never regresses, replays change nothing |
| Topics, `compose.yaml` | logs | append, compact | | compaction keeps the last offset, not the highest revision | |
| Launchers, `scripts/consume-alerts.ps1`, `scripts/run-pipeline-directrunner.ps1` | none | start a pipeline or a materializer with a group of its own | consumer groups | what is read again, with which state gone | a run more changes nothing that was right |
| Verification, `scripts/verify*` | none | run the tests | | | not part of the system's behaviour |

External: the Kafka broker and client, the Beam runner, SQLite. They are
modelled from how the code uses them and marked external in `PROJECT.json`.

The list of what is hard to test, line by line, with the properties that cover
it, is `hazards` in `PROJECT.json`.

## Modules

| Module | Models | Theorems in |
|---|---|---|
| `VelocityRule` | the pure rule: windows, `VelocityCombineFn`, thresholds | |
| `VelocityLedger` | abstract: what the domain chain promises | |
| `VelocityPipeline` | windows, deduplication, aggregation, triggers, alerts; implements `VelocityLedger` | `VelocityPipelineProofs` |
| `LatestRevisionView` | abstract: what the materializer promises | |
| `AlertConsumer` | the alert topic and the materializers; implements `LatestRevisionView` | `AlertConsumerProofs` |
| `EndToEnd` | the composition of both promises, over runs of the pipeline | `EndToEndProofs` |
| `IngestionValidation` | contract, validation, bundles and offsets | `IngestionValidationProofs` |
| `KafkaClient` | external: the asynchronous producer client and the broker | `KafkaClientProofs` (lemmas) |
| `SyntheticProducer` | demo scenario, asynchronous publication (extends `KafkaClient`) | `SyntheticProducerProofs` |
| `SkewAnalysis` | scenarios, observed partitions, report (extends `KafkaClient`) | `SkewAnalysisProofs` |
| | finite sums, folds, sequences | `CollectionLemmas` (lemmas) |
| `MC...` | instances for TLC; each `.cfg` says which | |

Operators marked `\* mutant` in a module are variants of the definition that
follows them, each a plausible bug. No action uses them. Substituted for that
definition, each one makes a run fail (`mutants` in `PROJECT.json`), which
shows that the property of the run is sensitive to that code.

### VelocityPipeline

`ProcessRecord(e)` is one delivery of a validated event: `KeysOf` are the
windows `SlidingWindows` assigns, `LiveKeys` those the runner has not closed,
`ArmedKeys` where `process` sets the timer and `FreshKeys` where it yields.
`ExpireState` is `clear_seen_ids`. The runner shuffles the yielded elements
(`inFlight`) to `CombinePerKey`: `Aggregate` absorbs one or drops it as late.
`FireEarly`, `FireOnTime` and `FireLate` are the three triggers; each goes
through `BuildVelocityAlert.process` in `FirePane`, so a pane and the alert it
may give are one step. A pane index is consumed whether or not the thresholds
are reached, as `revision` is the runner's pane index.

The two stages have a watermark each. `watermark` advances by itself, because
the source uses `timestamp_policy="ProcessingTime"` and its watermark does not
know event times (README, "Alcance del watermark"). `aggWatermark` follows it,
held back by elements in flight that are not yet behind it; that the
aggregation may be behind is what makes it possible to suppress an id whose
element is still on its way. The model relies on two promises of the runner:
this hold, on which `PunctualIsCounted` rests, and that elements of a window
whose lateness is over are dropped in front of the stateful DoFn, as in front
of the aggregation (`LiveKeys`), on which `NoDoubleCount` rests: the code's own
timer forgets an id at that moment, and nothing in `process` would refuse it.

Abstractions: time has whole units; a window is its start; amounts are small
positive integers (Python's are unbounded); alert content is count, total and
revision. `counted`, `punctual` and `deliveries` are history or bounds.
The accumulator of a window is one value in the model; `LiftingAgrees` shows
that a runner that lifts the combiner and calls `merge_accumulators` on any
two-way split of the window's events gets the same one.

Properties: `NoDoubleCount`, `TotalIsExact` (the aggregate is the sum over the
distinct ids, the first copy of an id standing for it), `SeenIsAccounted`
(suppressing a duplicate never loses the transaction), `PunctualIsCounted`
(an event that is not late when it arrives is counted in each of its windows;
for ids whose copies agree on the time, since the first copy stands for all),
`AlertIsCurrent` and `RevisionsSupersede` (what README:135 and the conditional
upsert rely on), `LiftingAgrees`, `StateReleased` and `BreachIsAlerted`
(liveness).

`ImplementsLedger` is the refinement: with `total` mapped to the total of the
accumulator and the other variables to themselves, every behaviour of the
chain is one of `VelocityLedger`, where a transaction enters a window once
(`Count`) and a window with news, or at its on-time moment, publishes what the
ledger says under the next number (`Fire`). Watermarks, timers, the
deduplicator, the shuffle and redeliveries disappear. In particular the count
of the ledger is the number of distinct ids, so the refinement contains
`NoDoubleCount`.

### AlertConsumer

One log with offsets, `live` the offsets compaction has left. `Publish` is the
pipeline's sink: any record in any order, since the sink retries and the
pipeline may be run again. A process goes `stopped -> polling -> holding ->
stored -> polling`; `Start`, `Poll`, `Upsert`, `Commit` are the lines of
`main`, `Reject` the exceptions of decoding and validation, `ReachLimit` and
`PollFails` the ways out of the loop, and `Crash` a kill or an error of SQLite
or of the commit at any point. Several processes share the store, each with
its own group. `Absent` is a missing row.

Properties: `NothingSkipped` (offsets are confirmed after persistence,
README:136), `NoPolledAlertLost` (at-least-once), `StoreOnlyAdvances`,
`ReplayIsIdempotent` (the store equals `materialize_latest_alerts` over each
record taken once), `Converges`. `ImplementsView` is the refinement: the store
is the view, the well-formed records of the log are what was published, and an
upsert is a `Take`; offsets, groups, processes, compaction and crashes change
nothing in the view.

### EndToEnd

The composition builds on the two abstract specifications, so that its state
is only what the seams add: the source's `resumed` and `next`, the `log` of
alerts over all runs, what each group of materializers has (`reading`,
`committed`, `position`) and the `store`. It extends `VelocityLedger` for the
stages of the current run and takes `View!Take` as the upsert of a
materializer. `Enter` is a transaction that this run has read, between
`resumed` and `next`, and that gets through to a window; one that is late
simply never enters. `FirePane` is a pane and the write of its alert,
`WriteAgain` the retried bundle of `WriteToKafka`. `Stop` and `Rerun` are
`main` ending and being called again: the ledger is empty again
(`TotalsAtStart`, `NewPane`), the source resumes at `ResumeOffsets`, which are
those of a group that committed or of the new group that
`run-pipeline-directrunner.ps1` makes, and topics and view stay. A restart of
a runner that recovers its own checkpoint is no step of the model.

A group has one materializer at a time. `StartMaterializer` resumes at the
group's commit or, without one, where `auto.offset.reset` says: at the first
offset with `--from-beginning`, behind the last one by default. `Materialize`
is poll, upsert and commit, `DieUncommitted` a kill behind the upsert, and
`EndMaterializer` every other end, `--max-messages` among them. `joined` is
history: where the group last started without a commit.

Properties: `FirstRunSettles` (the row of a window over a threshold is exactly
the ledger's entry while the pipeline has run once), `NeverOverstated` and
`BreachIsNotSilent` (what is left of that over several runs: a row may be
stale, but does not say too much and is not missing), `BreachIsMaterialized`
(liveness). The first, the third and the last have a premise: there is a group
that started at the first offset, with `--from-beginning` or while there was
no alert (`joined = 1`), and, for the first and the third, it has read
everything (`ReadThrough`). Without it there is no promise: a group that starts with the
default reset has all earlier alerts behind it, and so has one that is killed
before its first commit (finding 1). `NeverOverstated` has no premise.
`StoreIsNotBehind` is false, see the findings.

### IngestionValidation

A field of a record is the class of values the code can tell apart ("naive",
"beyond range", "unhashable", ...). `Errors` is the list of rules broken,
`Raises` the exceptions that escape: of `json.loads`, where it is not the
`JSONDecodeError` that `process` catches (form "unloadable": an integer of too
many digits, a value nested too deep), of the contract, and of the encodings
behind it. A bundle reads records from `committed`
on; `WriteBundle` makes its outputs durable, `FinalizeBundle` commits
(`commit_offset_in_finalize`), `ProcessRaises` aborts it and `Crash` restarts
the worker.

Properties: `CommittedIsAnswered`, `LaterChecksPass` (the checks that later
stages make again and raise on, a customer and an event id, a positive whole
amount and a time that parses, hold for what is let through; the ranges of
coders and of `datetime` are not among them, see "Not modelled"),
`ProducedIsValid` (what the project's producers encode is neither refused nor
raised on; `Encodes` is `encode_transaction_event`, whose UTF-8 step refuses
the lone surrogate that the contract lets through), `HandledTopicIsAnswered`.
`EveryRecordAnswered` is what the docstrings say and is false.

### KafkaClient and SyntheticProducer

`Produce` enqueues and polls; the client's thread and the broker are
`BrokerAppends`, `Acknowledge`, `TimeOut` and `Arrive`, the last for a record
given up and yet written. `FlushSucceeds` and `FlushFails` are the end of
`publish_scenario`, `Interrupt` the Ctrl+C that `main` answers with status 0.
Times are ticks, several to a second, because `run_token` has whole seconds
and the options may have fractions.

Properties: `FlushedCyclesDelivered`, `CyclesInOrder`, `IdNamesOneEvent`,
`Terminates`. `IdNamesOneEvent` is the premise of `PunctualIsCounted`
(`HasOneTime`) for this producer.

### SkewAnalysis

`Build` is `build_reference_scenarios` (a share that leaves no hot or no cold
event ends the run), `Produce` an iteration of `publish_scenarios` that finds
room in the client's queue and `AwaitRoom` one that gets `BufferError` and
polls. `Callbacks` is `on_delivery` for every report that a poll or the flush
serves; `Slot` is what `callback_for` bound when the message was produced.
`FlushSucceeds`, `FlushFails` and `Summarize` are the ends of
`publish_scenarios` and of `main`. `summarize_scenario` and the hot key's line
of `render_report` are operators over `Assignments`, the partitions simulated
or observed. The CRC32 mirror and the client's partitioner are two parameters:
of the hash the simulation needs nothing, and of the partitioner
`PartitionerAssumption` says that it puts a key in one of the partitions there
are. That the mirror is the client's function is a claim about librdkafka that
no line of the repository decides; the instances have it so.

Properties: `ObservationsAreTrue` and `ReportIsTheTopic` (each observation
belongs to its record, a report has no hole), `HotKeyIsNotSplit` (the
`CONCLUSION` line), `Terminates`. `HotLineIsObserved` says that the partition
in the `HOT_KEY` line of a publication is where the hot key's events are; it
is false, see the findings.

## Runs

| Run | Bounds | Shows |
|---|---|---|
| `velocity_sliding` | 1 customer, 2 ids, 3 events (one id with two times and amounts), windows of size 2 and period 1, lateness 1, 3 deliveries, watermark to 4 | all safety properties with overlapping windows |
| `velocity_customers` | 2 customers sharing an id, 3 events, disjoint windows, 4 deliveries | isolation of customers, merged accumulators, the refinement to the ledger; state is released, breaches are alerted |
| `consumer_replay` | 2 processes, 2 keys, 5 kinds of record (one malformed), log of 3, 1 crash, from the beginning | materializer safety, the refinement to the view; deadlock freedom |
| `consumer_liveness` | 2 processes, `--max-messages 1`, log of 2, 1 crash | convergence |
| `consumer_lost` | 1 process, default reset, 1 crash | finding 1 |
| `ingestion` | every single fault and combinations that interact, 2 records, 1 restart | ingestion safety and progress |
| `ingestion_raises` | a good record and those the contract raises on | finding 2 |
| `producer` | 2 customers, 2 cycles half a second apart, 2 runs, 2 base times | publication safety and termination |
| `skew` | 3 events (2 hot), or 2; a queue of 2; a topic of 3 partitions, `--partitions` 1 to 4; shares 1/2 and 1/6 | observations, report, termination |
| `skew_hot_line` | the same | finding 4 |
| `end_to_end` | 1 customer, 2 ids, 1 window, 2 transactions published, repetitions included, 2 runs, 1 retried write, 1 group with either offset reset, killed and started any number of times | the composition |
| `end_to_end_restart` | the same, 3 transactions published | finding 3 |

Why the bounds are enough: a double count needs one id delivered twice around
an expiry, which three deliveries and a watermark that passes window end,
lateness and expiry give; the watermark bound 4 lies beyond the expiry of the
last window (end 3, lateness 1). A lost or regressed alert needs two records
of one key and a crash; the log of three adds one of another key or a
malformed one between them. A bundle retry needs two records. Cycles mix with
two cycles. A full queue needs more records than it has room for, and a
callback that looks at the loop's variables is seen with two records. A stale
row needs two runs and two transactions of one window; several windows and
customers are independent in `EndToEnd` except for the order of the log, and
`velocity_sliding` and `velocity_customers` have them. Several groups over one
view only add upserts, and `consumer_replay` has two. Liveness is checked with
windows that do not overlap: timers and panes are per window. The proofs remove
the bounds for the properties they cover.

`CHECK_DEADLOCK FALSE` is set where the bounds end every behaviour: the
watermark and the deliveries stop, a finite topic is read, a finite number of
runs ends. The consumer runs check deadlock.

## Fairness

* `VelocityPipeline`: the clock goes on, the runner delivers what it shuffled
  and fires timers and triggers that are due. Producers owe nothing, early
  panes are not assumed, so that what is shown holds in smoke mode too, which
  has none; there the source closes at the end, which is the watermark's last
  step.
* `AlertConsumer`: a stopped materializer is run again (its scripts are run by
  hand; convergence can only be claimed for an operator who does), a running
  one takes its next step. `Poll` has strong fairness, for the loop may end in
  front of it, by the timeout, and be entered again: poll must not time out
  for ever with records to read. `Crash`, `Reject` and `PollFails` have none.
* `IngestionValidation`: a running worker reads, writes and commits.
* `SyntheticProducer`, `SkewAnalysis`: the program takes its next step, the
  client settles each message within its timeout, acknowledged or not. The
  broker owes nothing.
* `EndToEnd`: panes fire while the pipeline runs (what `BreachIsAlerted` shows
  of the chain); a materializer of each group is started again and again, and
  gets a message through again and again, however often it ends or is killed
  (`Converges`). Reading, stopping and running the pipeline again owe nothing.

Both `Converges` and `BreachIsMaterialized` are of a standing
`--consumer-group` that is run again. `scripts/consume-alerts.ps1` is not such
an operator: it makes a new group each time and stops after three messages, so
with more than three alerts in the topic it reads the first three again and
never those behind them. No property speaks of it.

## What is proved

Every invariant and every action property of the runs that pass, and both
refinements, are theorems of the specifications, for every value of the
constants that the named assumptions allow. The bounds (`MaxLog`, `MaxRuns`,
...) are natural numbers of any size. The assumptions say what the code checks
(`parse_args`, `PipelineConfig`) or how its data is made;
TLC evaluates each of them on the instances it checks.

`VelocityPipelineProofs` (from `WindowAssumption`, `LatenessAssumption`,
`ThresholdAssumption`, `BoundAssumption`, `EventAssumption`):

* `TypeCorrect`: `Spec => []TypeOK`.
* `CountsEachIdOnce`: `Spec => []NoDoubleCount`. The property alone is not
  inductive. `CountInv` adds: as long as the dedup state of a window cannot
  have expired (`watermark < WindowEnd + DedupLateness`), every id counted or
  in flight for the window is in `seen`; an id is in flight for a window at
  most once, and not once it is counted. The argument is
  `DedupLateness >= AllowedLateness`: an element is let through only while
  `watermark < WindowEnd + AllowedLateness`, when nothing has been forgotten.
* `SuppressedIsAccounted`: `Spec => []SeenIsAccounted`.
* `PunctualRecordsCount`: `Spec => []PunctualIsCounted`, with `PunctualInv`,
  which joins the two above to the property. A punctual record that is
  suppressed has a first copy, counted or on its way; with one time for both
  copies that one is not late either. One on its way is held in front of an
  aggregation watermark that waits for it, so `Aggregate` cannot drop it.
* `TotalIsTheSum`: `Spec => []TotalIsExact`, with `TotalInv`: what a window has
  counted is finitely many events, as many as the accumulator says, with the
  sum of their amounts as its total.
* `LiftingIsSound`: `Spec => []LiftingAgrees`, from `TotalInv` and the lemma
  that sums over two disjoint parts add up.
* `RevisionsAreOrdered`: `Spec => []RevisionsSupersede`, with `RevisionInv`:
  every published revision is below the next pane index and its aggregate at
  most the accumulator's.
* `LastAlertIsCurrent`: `Spec => []AlertIsCurrent`.
* `PipelineImplementsLedger`: `Spec => ImplementsLedger`. `Aggregate` of an
  element that is not too late is `Count`, the three firings are `Fire`, all
  else stutters. `LedgerInv` adds to `CountInv` what the guards of those two
  need: an element is in flight for a window of its own and not yet counted,
  a pane with news has counted something, an on-time pane out means that the
  window has ended.

`AlertConsumerProofs` (from `RecordAssumption`, `OptionAssumption`):

* `TypeCorrect`: `Spec => []TypeOK`.
* `StoreNeverRegresses`: `Spec => StoreOnlyAdvances`, for any number of
  processes on one database.
* `CommitsFollowUpserts`: `Spec => []NothingSkipped` for both offset resets,
  with `SkipInv`: the committed offset never passes the position, and
  everything the process has passed, except the message in hand, is
  materialized.
* `FromBeginningLosesNothing`: with `--from-beginning`,
  `Spec => []NoPolledAlertLost`. The run `consumer_lost` shows that the
  assumption is needed.
* `ReplaysAreHarmless`: `Spec => []ReplayIsIdempotent`, with `ReplayInv`: every
  record taken once is materialized, so that an upsert of it again changes
  nothing; an upsert of a new one is the next step of the fold that
  `materialize_latest_alerts` is (`LatestOfMore`).
* `MaterializerImplementsView`: `Spec => ImplementsView`. `Publish` of a
  well-formed alert is the view's `Publish`, `Upsert` is `Take`; malformed
  alerts, polls, commits, crashes and compaction stutter. `TypeOK` is enough.

`IngestionValidationProofs` (from `RecordAssumption`, `BoundAssumption` and
`TextAssumption`: an ordinary text is none of the special values of a field):

* `TypeCorrect`, and `CommitsFollowOutputs`: `Spec => []CommittedIsAnswered`,
  with `AnswerInv`: every record in front of the worker's position has an
  answer, in the open bundle or durably, every record in front of the committed
  offset a durable one, and an answer is always the tag that the record's
  content calls for. The last part is what makes two readings agree.
* `ValidEventsAreAcceptable`: `Spec => []LaterChecksPass`, and
  `ProducedRecordsPass`: `Spec => []ProducedIsValid`. Both follow from
  `AnswerInv` and the definitions of `Errors`, `Raises` and `Encodes`, for any
  set of texts and of records.

`KafkaClientProofs` has no theorem of its own. `ClientInv` is what both
publishers rely on: neither the queue nor the topic holds a message twice, one
that is adrift, which the broker may still write, is neither queued nor
written, and one that is reported as delivered is written. Its lemmas say
that each step of the client or the broker moves one message and keeps
`ClientInv` (`ClientStepKeeps`), and loses or makes up none
(`ClientConserves`).

`SyntheticProducerProofs` (from `OptionAssumption`, `ScenarioAssumption` and
`NamesAssumption`: events of one name are copies, which `DemoScenarioIsNamed`
proves of `build_demo_scenario`). The inductive invariant is `IInv`, of the
parts `TypeInv`, `ClientInv` and

* `OwnInv`: a message of this run is what the run makes of its cycle and
  index, and those of the open cycle lie below the index; hence what is
  produced next is new, which `ClientInv` needs;
* `FlushedInv`: what the open cycle has produced is with the client, written or
  known as an error; what a cycle that was passed has produced is written. It
  gives `FlushMeansDelivered`: `Spec => []FlushedCyclesDelivered`, with "once"
  from `ClientInv`;
* `OrderInv`: pending messages of a run belong to the last cycle it has
  published, and one given up in the open cycle is a known error, which is why
  the cycle is not left. It gives `CyclesStayInOrder`:
  `Spec => []CyclesInOrder`;
* `EventInv`: a message carries an event of the scenario for some whole
  second, of which id and time are both made. It gives `IdsNameOneEvent`:
  `Spec => []IdNamesOneEvent`.

`SkewAnalysisProofs` (from `OptionAssumption` and `PartitionerAssumption`: the
client's partitioner is a function of the key into the partitions there are,
`consistent_random` for a key that is not empty). `IInv` has the parts
`TypeInv`, `ClientInv`, `OwnInv` (what is with the client is a record the loop
has passed), `ObservedInv` (a partition noted is the one written to, and no
record lacks one when a publication has returned) and `RangeInv` (what is
reported was checked). From it:

* `TypeCorrect`: `Spec => []TypeOK`, for the variables of the client too;
* `ObservedIsWritten`: `Spec => []ObservationsAreTrue`;
* `ReportCountsTheTopic`: `Spec => []ReportIsTheTopic`. Records of the topic
  and indices of the scenario are in bijection, partition by partition, and
  the sizes of the partitions add up (`PartsAdd`);
* `HotKeyStaysWhole`: `Spec => []HotKeyIsNotSplit`, for every hash, every such
  partitioner and every number of partitions: equal keys are in one partition,
  so the sets of customers of the partitions are disjoint and their sizes add
  up too.

`EndToEndProofs` (from the assumptions of `VelocityRule`, `BoundAssumption`,
and `AbsentAssumption`: a missing row is no alert). They hold for every set of
groups and of offset resets. `IInv` has `TypeInv` (`TypeOK` and of the ledger:
what a window has counted was published, its total is the sum) and

* `LogInv`: an alert in the log, of whichever run, is over a threshold and says
  no more than the topic has for its window;
* `ToldInv`: a window over a threshold without news has alerts in the log;
* `FirstRunInv`: in the first run there is one alert of a revision, and the
  highest says what the ledger has;
* `TakenInv`: no group is past the end of the log, no commit past its group,
  and the view is not behind any alert between where the group `joined` and
  where it is. A start at a commit keeps that, one without a commit empties
  the range, and a kill between upsert and commit only adds to the view.

`TypeCorrect` is of every variable. `LogInv` gives `RowsNeverOverstate`
(`NeverOverstated`), `ToldInv` and `TakenInv` give `BreachIsShown`
(`BreachIsNotSilent`), for any number of runs, and `FirstRunInv` and `TakenInv`
give `FirstRunIsExact` (`FirstRunSettles`). Of a group with `joined = 1` the
range of `TakenInv` begins with the first alert, which is why the two last
theorems have that premise and are of windows over a threshold only.
`FirstRunInv` is where a second run breaks the argument: it numbers its panes
from 0 again (finding 3).

### Sums and folds

Sums, tallies and `MaterializeLatest` are folds of the community modules, each
a function chosen with `CHOOSE` by its recursive equation. Nothing the provers
have unfolds them, and the library's induction theorems take an operator, which
cannot be instantiated. `CollectionLemmas` goes around this with sets:

* `SetInduction` is induction over the subsets of a finite set, stated with a
  set `T` in place of a predicate; it rests on the least number of a set.
* `FoldExists` shows that the recursive equation has a solution, from which it
  follows that the chosen function satisfies it.
* The sum of weights `w` over a set is the size of a pile with one item per
  unit (`Total`), so that sums are compared by the library's theorems on
  cardinalities; `FoldIsTotal`, `SumFold` and `TallyFold` show that
  `MapThenSumSet` and the fold over `AddInput` compute it, in any order.
* `LeftFoldExists` and `LeftFoldAppends` do the same for a fold from the left
  over a sequence, by its set of positions.

### Only model-checked

The liveness properties, `StateReleased`, `BreachIsAlerted`, `Converges`,
`HandledTopicIsAnswered`, `Terminates` (of the producer and of the skew
analysis) and `BreachIsMaterialized`: they rest on fairness, and the provers
do not reason about `ENABLED`. `NoPolledAlertLost` without `--from-beginning`,
`EveryRecordAnswered`, `HotLineIsObserved` and `StoreIsNotBehind` are false.

## Findings

1. `consumer_lost`: with the default `auto.offset.reset` (`latest`,
   `alert_consumer.py:161`) a new group whose process is killed after a poll
   and before its first commit restarts at the end of the log. The alert it
   had in hand is never materialized, against README:136 and 138.
2. `ingestion_raises`: `validate_transaction_event` raises on a list or object
   as `transaction_type` or `channel`, and on times that leave the range of
   `datetime` in UTC, against its docstring (`event_contract.py:82`). The
   record reaches neither output and its bundle is aborted, each time a runner
   reads it again. `json.loads` has the same effect with exceptions other than
   the `JSONDecodeError` that `validation.py:110` catches. An `event_id` that
   is a lone surrogate passes the contract and has the same effect when it is
   encoded (`Unencodable`, `Unstorable`).
3. `end_to_end_restart`: the revision of an alert is the pane's index
   (`alerts.py:129`), and panes are numbered from 0 in every run of the
   pipeline. `run-pipeline-directrunner.ps1` reads the topic from its
   beginning in each run. If transactions were published since, the second run
   publishes, for a window the view knows, a larger aggregate under a number
   that is not greater, and the conditional upsert refuses it as old. README:133
   says that a consumer may keep the numerically greatest revision of a window,
   and README:135 that it is duplicates and obsolete revisions that leave the
   view unchanged. The row is stale, not missing (`BreachIsNotSilent`). The
   same happens when the Kafka volume is removed and `data/` kept.
4. `skew_hot_line`: the `HOT_KEY` line takes its partition from `--partitions`
   and the CRC32 mirror (`skew_analysis.py:299`), also in a publication. With
   `--partitions 4` and a topic of three, the analysis names partition 2 while
   every event of the hot key was reported in partition 0, and the `PARTITION`
   lines of the same report say so. `docs/analisis-skew.md:35` says that
   `publish` computes the distribution from the partitions of the delivery
   callbacks, and line 41 that its counts come from confirmed deliveries.

## Not modelled

* `scripts/verify_project.py` and `scripts/verify.ps1`: development tools that
  run the tests in sequence and keep no state of the system.
* Option parsing and the checks of `PipelineConfig`, which decide only whether
  a run starts; printing, logging and the layout of JSON, alerts and reports.
* Retention by time, several brokers, transactions of Kafka.
* Runner restarts that recover a checkpoint: the models of the stages treat a
  stage's state as durable, `EndToEnd` as gone.
* A skew analysis published twice with different base times.
* Ranges of values behind the contract: an amount of 2^63 or more passes it and
  does not fit the coder of `KV[str, int]` (`aggregation.py:153`); over a
  threshold, the window of a transaction in the last minute of year 9999 has an
  end that cannot be written (`alerts.py:42`). The models have classes of
  fields and small numbers. A `--base-time` that late is not modelled either.
* The accumulation mode as a choice: panes are accumulating.
* A single launcher session of `consume-alerts.ps1` is a materializer that ends
  (`EndMaterializer`, `ReachLimit`); what a sequence of them reaches is not
  claimed.

## Plan

Done: the modules above, with the proofs of every invariant, action property
and refinement that the runs check. Next, in this order:

1. State as a refinement of its own that the rows of `EndToEnd` are a
   `LatestRevisionView` of its log, model-check and prove it.
2. Give amounts and times their ranges, and state what leaves the validation
   and still cannot be encoded.
3. State and prove what `merge_accumulators` gives for any number of parts; the
   property is on two.
4. Shorten the longest proofs where lemmas now in `CollectionLemmas` serve.
