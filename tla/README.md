# CryptoPulse in TLA+

Formal models of CryptoPulse: a trade feed that is read from an exchange,
published to Kafka, preserved in PostgreSQL (Bronze), validated (Silver or
Quarantine) and aggregated into market windows (Gold). The modules are
translated from the Python code; line references below are to files of the
repository.

1. [The system](#1-the-system) – components, state, interactions, what is hard
2. [The modules](#2-the-modules) – what models what, and how to read them
3. [The runs](#3-the-runs) – what TLC checks, bounds, fairness
4. [The proofs](#4-the-proofs) – what TLAPS proves and how
5. [Disagreements](#5-disagreements) – where the code and its documentation differ
6. [Not modelled](#6-not-modelled)
7. [Plan](#7-plan)

Reproduce with `tlc -workers 2 -config Bronze.cfg MCBronzeIngestion` (each run's
module is in PROJECT.json) and `tlapm BronzeIngestionProofs.tla`.

## 1. The system

```
exchange --> Coinbase connector --.   run_producer(), one run
                                   >--> EventPreparer --> KafkaPublisher --> topic
             Dev connector -------'          (IngestionPipeline)         |
             run_processing(), any number of one-shot workers            |
                                                                         v
   BronzeIngestionService --> bronze.events --> TrustRoutingService
                                                  |            |
                                          silver.events   quarantine.events
                                                  |
                                      GoldProcessingService --> gold.market_windows
```

| component | state | operations | talks to |
|---|---|---|---|
| Coinbase connector (`producer/connectors/coinbase.py`) | `_state`, `_stop_requested`, `_context`, `_ws`; `consecutive_failures` of `stream()` | connect, stream (retry loop), reconnect, disconnect, `_open`, `_close` | exchange websocket |
| Dev connector (`producer/connectors/dev.py`) | `_state`, `_stop_requested`; the position of the generator `stream()` | connect, stream, reconnect, disconnect | a script of events |
| Event preparation (`producer/preparation/`) | none | can_prepare, prepare (Coinbase, dev) | – |
| Producer pipeline (`producer/pipeline.py`) | counter of one `run()` | run: connect, prepare, publish, finally disconnect | connector, preparer, publisher |
| Producer entry point (`producer/main.py`, `factory.py`) | the run | build_connector, build_preparer, run_producer | publisher, pipeline |
| Kafka publisher / codec (`messaging/`) | `_producer` | start, publish, close; encode, decode | topic |
| Kafka consumer (`messaging/consumer.py`) | client with group membership and fetch positions | start, stream_events, acknowledge, close | topic, group coordinator |
| Bronze ingestion (`processing/bronze_ingestion.py`) | `persisted` of one `ingest()` | start, ingest, close | consumer, Bronze |
| Bronze, Silver, Quarantine, Gold repositories (`warehouse/repositories/`) | one table each | append / append_record / upsert; replay, read, read_window, get | PostgreSQL |
| Validation engine and its eight rules (`processing/validation/`) | none | validate | – |
| Trust routing (`processing/validation/service.py`) | page and position in it of one `process_batch()` | process_batch, process_event | Bronze, engine, Silver, Quarantine |
| Gold processing (`processing/gold/service.py`) | candidate windows of one `process_batch()` | process_batch, recompute_window | Silver, Gold |
| Gold windows (`processing/gold/windows.py`) | none | window_start_for, is_final_for, aggregate_window | – |
| Processing pipeline (`processing/pipeline.py`, `main.py`) | stage of the run | start, run_once, close | the three services, migrations |
| Migration runner (`warehouse/migrations/`) | pending files of one call | apply_migrations | catalog and history of PostgreSQL |
| Contracts (`common/contracts/`) | the values of events | – | – |
| Settings, health server, placeholders | see section 6 | | |

What is hard, and which properties it is about (PROJECT.json lists every hazard
at its line):

- **Three-step commits across systems.** A message is delivered, its row is
  committed in PostgreSQL, its offset is committed in Kafka. The worker may die
  or lose the partition between any two, a failed call may have taken effect, and
  a committed offset speaks for all messages below it. *AckedIsPersisted,
  FetchedIsPersisted, RefinesLandingZone, EventuallyPreserved.*
- **Workers that know nothing of each other.** Every worker replays the same
  pages of the same tables; the only coordination is `ON CONFLICT` and a primary
  key. *TrustIsExclusive, VerdictsMatchBronze, EachRejectionVisible,
  SilverIsStable, ImprovesUnlessOvertaken.*
- **Read, compute, write.** A window is read, the clock is taken and the row is
  upserted in three steps, with no comparison to the row in place.
  *ImprovesUnlessOvertaken, RowOnlyImproves, GoldConverges.*
- **Aggregates of a set that grows.** Trades come late and in any order, at the
  boundaries of windows and at one instant; the VWAP is rounded, and has a limit
  beyond which the computation raises; every sum and product is rounded to the
  digits of the decimal context. *CandleIsConsistent, GoldConverges.*
- **Stages that stop half-way.** Any step fails, any process dies; the next run
  takes up what is there. *EventuallyRouted, LeftoversProcessed, RefinesLedger.*
- **Always the first page.** Stages read offset 0 on every pass and nothing is
  ever removed. *EventuallyRouted.*
- **One boundary, two authors.** What an exchange sends is first prepared and
  much later validated, by code that shares nothing but the event; each repeats some checks of
  the other. *AcceptedIfUsable*, and the theorems *TrustedIsPositive* and
  *EventIdsUnambiguous*.
- **Leaving by every door.** A producer run may end by a refused connection, a failed
  publication, a stream that ends or raises, or a preparation nobody expects to raise; the
  event at hand is not dropped silently. The client sends an event again when the answer is
  late, without idempotence and without a key: it may be in the topic several times, and there is an
  order within a partition only, repetitions aside. *ProducerInv, PublishedInOrder, DevRunEnds.*
- **`await` in the middle of state changes.** The connector's reconnect loop
  shares attributes with a `disconnect()` of another task, and the dev connector
  looks at its stop flag before it sleeps. *IteratesItsSocket, StopEndsSession,
  ReconnectsBounded, AtMostOneLate*, and for sessions nobody stops *EndReleases*.
- **Migrations that race.** Every worker migrates first; `IF NOT EXISTS` is not
  atomic with the creation. *AllOrNothing, InOrder, HistoryIsTrue,
  ReturnMeansComplete, EventuallyComplete.*

## 2. The modules

| module | models | proofs |
|---|---|---|
| `Contracts` | the values of raw and internal events | – |
| `EventPreparation` | both preparers, as operators | `ProducerRunProofs` |
| `ValidationRules` | the eight rules, as operators | `ProducerRunProofs` |
| `ProducerRun` | one run of the producer: factory, publisher, pipeline, dev connector | `ProducerRunProofs` |
| `CoinbaseSession` | the Coinbase connector under that pipeline, with other tasks | `CoinbaseSessionProofs` |
| `LandingZone` | abstract: what Bronze promises to readers of the topic | – |
| `BronzeIngestion` | consumer, ingestion service, Bronze append | `BronzeIngestionProofs` |
| `TrustRouting` | engine, trust routing, Silver and Quarantine writes | `TrustRoutingProofs` |
| `GoldProcessing` | window discovery, reads, aggregation, upsert | `GoldProcessingProofs` |
| `MarketWindows` | alignment and the numbers of an aggregate, as operators over `GoldProcessing` | `GoldRacesProofs` |
| `GoldRaces` | `GoldProcessing` with a history of who was overtaken | `GoldRacesProofs` |
| `ProcessingPipeline` | composition of the three stages over shared tables; `run_processing()` | `ProcessingPipelineProofs` |
| `EventLedger` | abstract: what the processing side promises about one event | – |
| `Migrations` | concurrent migration runners on one database | `MigrationsProofs` |
| `MC…` | values of the constants for TLC | |

Conventions. An action is what runs between two awaits (or between two effects
another process can see), with all state changes of that stretch. A definition
introduced by "Mutant of X" is never used by the specification: it is a plausible
bug in `X`, and the mutant table of PROJECT.json says which property notices it.
Constants called `Max…` in the bounds are bounds of the model, not of the code,
unless their comment says so (`MaxEvents`, `MaxReconnects` are settings).

**Contracts, EventPreparation, ValidationRules.** Values are kept as far as the code
tells them apart: of a string what `strip()` leaves of it, of a number whether it is
finite and positive, of a time whether it parses, has an offset, and whether `datetime` has room
for it. `Raw` is what JSON can bring; `InternalEvent` has the types that pydantic enforces
(finite decimals, known side and type). An event_id is a string joined with colons, and a
trade_id may hold colons itself; so a string is known by its parts between colons
(`Split`), and an event_id is the sequence of all its parts, which does not tell where the trade_id
ends. `Refuses` is when `prepare()` raises
`PreparationError`, `Escapes` when it raises something else; the order in which the
fields are read decides between them. A rule is a function from an event to the set
of its failure codes, and `FailedRules` what the engine collects.

**ProducerRun.** `pc` is the await `run_producer()` is suspended at. `Build` =
`build_connector` and `build_preparer`, `Started/StartFails` = `KafkaPublisher.start`,
`Connected/ConnectFails` = `connect()` of Coinbase (the dev connector connects without
an await, in `Started`), `Resume` and `Awake` = the dev connector's `stream()` before and after
its sleep, `Message` and `StreamEnds` = what the Coinbase connector yields and how it
ends, `Published/PublishFails` = `publish()`, `Finally` = the `finally` of `run()`,
`Close` = that of `run_producer()`. `Yield` is the body of the pipeline's loop up to
its await. `Disconnect` and `Reconnect` are another task's calls on the dev connector, at any
await of a dev run, those of the publisher's `start()` and `close()` included.
`sent` is the history of what `send_and_wait()` was given, each with the partition the client
chose; `topic` holds the copies that arrived. `Arrive` is the client's sender and the broker
(external, from how the publisher configures the client: retries, no `enable_idempotence`, no key): a copy
of any event sent may arrive at any time, also when its `publish()` returned or raised long ago.
`publish()` returns when at least one copy has arrived.

**BronzeIngestion.** `topic`, `owner`, `position`, `committed` are the broker's
(external, from how the consumer uses it: a member that is assigned a partition
fetches from the committed offset; only the owner may commit). `bronze` is the
table keyed by event_id. `stage[w]`, `consumed[w]`, `persisted[w]` are the worker:
`Start` = `KafkaConsumer.start`, `Ingest` = entry of `ingest()`, `Deliver` and
`SkipUnreadable` = one turn of `stream_events()`, `AppendOk/AppendFail/AppendRefused`
= `append()`, `AckOk/AckFail` = `acknowledge()` and the loop condition, `Close` =
the `finally` of `run_processing()`, `Crash` = death of the process. Failed writes
and commits choose whether they took effect. A failed call ends the run: the only
caller, `run_processing()`, leaves the group after it. A body stands for everything
of an event besides its event_id; an unstorable body is one PostgreSQL always
refuses. Errors of the poll itself are `Crash` out of "polling": the run ends and the group is left in both cases.

**TrustRouting.** Rows carry `received` (replay order), and the finding of each
rule (pass, fail, raise). `ReadPage` = `replay(offset=0)`, `Validate` = one turn
of the loop up to the write (the outcome and the time stamp are fixed here),
`Store` = the write, `StoreCollides` = primary key of Quarantine already taken,
`StoreFails`, `Crash`, `Return`, `ProcessEvent` = the single-event entry point.
`Land` (ingestion) and `Tick` are the environment. The clock stops at `MaxClock`,
which stands for all later instants; two records at that instant therefore do
not collide and are not told apart.

**GoldProcessing.** An aggregate is a function of the set of events it is made of,
so a Gold row is that set with `computed` and `final`. `Discover` = page and
candidate windows, `ReadWindow` = `read_window()` (with its limit),
`Aggregate` = `datetime.now()` and `aggregate_window`, `AggregateFails` = the same
when `quantize()` raises, `Upsert` = `ON CONFLICT DO UPDATE`; `SkipEmpty`,
`UpsertFails`, `Crash`, `Return`, and `Recompute` for direct calls of
`recompute_window()`. `Trust` lets an event become trusted with a validated_at in the past,
as a slow validator stamps it. The identity of a window is symbol and start:
`window_seconds` is constant during a run.

**MarketWindows, GoldRaces.** `MarketWindows` computes from the set of events what the
row's columns hold; prices and quantities are natural numbers of a smallest unit, and
`VwapUnit` is 10^-vwap_scale in it. `Context` is 10^28, the decimal context's: the result of each
addition, product and quotient is the nearest number with so many digits (`Rounded`, ties to even), and
`quantize()` rounds the quotient once more, half up, or raises when it needs more digits.
`TooManyDigits` is what `Unquantizable` of `GoldProcessing` stands for. `RunningSum` adds the trades in
the order of the loop.
`window_start_for` is over integers, with the truncation of `int()`. `GoldRaces` adds the
variable `overtaken[w]`: since w read its window, somebody else wrote that window's row. It records and
never restricts.

**ProcessingPipeline.** Instances `B`, `T`, `G` of the three modules over one
`bronze` and one `silver`; `ValidatedAt` maps Silver rows to what Gold reads.
`phase[w]` is the position in `run_processing()`. A stage's `Land` or `Trust` is
the previous stage's write. An exception of a stage goes to "close"; `Close`
leaves the group. `Crash` is death in any phase, also between two stages, before the next one
has read anything. The batch size is one constant for all stages, as in `run_once`.

**EventLedger.** The promise of the processing side as a whole: an event is published,
preserved, judged and counted, in this order, the first judgement stays, and a candle is replaced
as a whole by trusted events of its own. `ProcessingPipeline` reads it from its tables
(`Published`, `bronze`, `Verdict`, `Counted`) and implements it. It does not promise that what is
counted stays counted: of two workers the one that was overtaken may take entries away
again (`ImprovesUnlessOvertaken`).

**CoinbaseSession.** `pc` is the await the session's task is suspended at; the
local variable `context` of `_open` and `_close` is `held` (and `taken[s]` in
the other task), because those functions read the attribute once and await with
the local. `FinishIn` is every way out of `stream()` followed by the `finally`
of `run()` up to its first await. A message of kind "halting" makes the session raise what
nobody catches: a preparation that escapes (`EventPreparation!Escapes`), or a type
that cannot be looked up in a set.

**Migrations.** A file is the sequence of objects it creates (schemas, tables,
the history), in the order of the SQL; indexes are left out (they add objects of
the same kind to the same file). `Check` = IF NOT EXISTS against the committed
catalog, `Insert` = the catalog insertion, which waits for a concurrent creator
and fails (`Collide`) if that one committed. The database starts empty or with the schemas
of `docker/postgres/init/init.sql`.

## 3. The runs

| run | instance | checks |
|---|---|---|
| `Producer` | 3 exchanges, a script of 4 events, 7 kinds of messages up to 3 in a session, 3 calls by another task, 2 partitions, 2 copies beyond one per event | inductive invariant, every event in the topic in the order of its partition, repetitions aside, one late event at most, agreement of preparation and rules, a dev run ends |
| `Session` | 2 other tasks, retry budget 3, 9 sockets | inductive invariant, ownership of the socket, retry budget, release, stop |
| `Bronze` | 2 workers, 1 partition, 2 ids, 3 bodies (one unstorable), 2 messages, 2 failures, 2 rebalances | inductive invariant, ack-after-persist, refinement of `LandingZone`, every message preserved |
| `Trust` | 2 workers, 2 ids, 2 rules, 3 kinds of rows, page 2, 2 instants, 1 failure | inductive invariant, verdicts, exclusiveness, nothing dropped, first validation wins, rejections visible, everything routed |
| `GoldOneWorker` | 1 worker, 4 trades in 3 windows of 2 symbols, page 3, scan 2, 4 instants, 1 failure, the middle window unquantizable | inductive invariant, rows only improve, convergence of all windows but those held back |
| `GoldWorkers` | 2 workers, 1 window of 3 trades, page 2, a decimal context of 2 digits, 3 instants, 1 failure | numbers of the row, only overtaken workers make a row worse, convergence |
| `Pipeline` | 2 pipelines, 2 ids, a valid and an invalid body, batch 1, 2 messages, 1 failure per stage, deaths between stages among them | provenance, refinement of the three stages and of `EventLedger`, progress |
| `Migrations` | 2 runners, the 4 files, empty or prepared database, 2 failures | inductive invariant, atomicity, order, history, completeness on return and in the end |
| `BronzeUnreadable`, `TrustStarvation`, `SessionLost`, `ProducerHalted` | small | each is violated: section 5 |

Why the bounds are enough to be interesting:

- *Bronze*: two messages are the least for one offset to settle another message,
  two rebalances let a partition go away and come back (the late commit of a
  former owner), two failures allow a write that failed and a commit that failed
  in one history. The same event_id comes twice with different content.
- *Trust*: two ids let one batch stop between two events; two instants give both
  a colliding key and a record of its own; both workers may hold the same event.
- *Producer*: the messages are one trade under two types and two types of
  trade_id, a blank symbol with a price of zero, a missing key, a naive time, and the two that escape;
  the script has a trade_id and the same with a time behind its colon, a padded symbol, a number
  that is none and a blank trade_id. So every outcome of the preparers and of the rules on
  their data occurs. Two partitions separate neighbouring events, and two extra copies
  repeat an event twice or two events once, also one whose publication failed, after the run is over. Three
  calls of the other task give stop, reconnect, stop around one sleep and one publication.
- *Gold*: lateness and windows with four instants give the provisional,
  the boundary and the final case; four trades with a page of three exercise the
  order of the page, two trades per window with a scan of two its order, without a window that starves or a scan
  that is cut short: what those lead to is in the theorems (`LeftBehindForGood`, hypothesis `WindowsFit`); windows at the same
  start and of two symbols exercise the order, and the one that cannot be aggregated
  sorts between the other two. In `GoldWorkers` two workers on one window are the race, lateness 0
  makes the row final with its end, and a page of two of the three trades suffices to discover the
  window. Of the trades the one numbered first is not the one traded first. They have prices 100, 20
  and 37 and quantities 1 (bought), 2 and 99 (sold). With two digits the VWAP of the first trade alone
  has too many; the sums of the first two are exact and their VWAP is rounded; with the third 1 is
  bought, 100 sold, and the volume is 100: the case that is excepted from the exact sums occurs as well.
- *Pipeline*: batch 1 with two messages means a second run finds the rows of the first one
  in Bronze; a duplicate, a valid and an invalid event, and a crash in each stage
  are all reachable, and so is a death between two stages, which counts as a setback of the stage
  before. `LeftoversProcessed` asks for progress after one setback and after two. It is about a run that has its batch, so
  waiting for messages (section 5) does not excuse it; a page that Bronze has
  outgrown (disagreement 2) does. Rebalances are left to `Bronze`, whose behaviours the
  pipeline is shown to refine. Both events trade in one candle; that an upsert leaves all other
  candles alone is covered by the proof of `ImplementsLedger`.
- *Migrations*: the real four files. *Session*: nine sockets are more than the
  retry budget, so exhaustion and a reset of the counter both occur; of the two tasks one
  may stop what the other has stopped, between its detaching and its leaving.

Deadlock checking is off in every configuration: sessions end, workers may wait for
messages nobody publishes, and a bounded model runs out of failures. Progress is
stated by the liveness properties instead.

**Fairness.** Only steps of a running program are fair: the event loop resumes a
task whose await is over (`WF` of `Step`), the group coordinator assigns a free
partition while there are members, time goes on. Messages of an exchange or of the
topic, failures, crashes, rebalances, other callers and stop requests are never fair:
`DevRunEnds` needs the event loop only, and of a Coinbase run no end is promised. Two assumptions deserve
their name: (1) *a worker that exits is started again*. `processing/main.py` runs
one pass and exits; `processing/pipeline.py:20-24` leaves repetition to whoever
schedules it. Without repetition, none of the "eventually" properties has a
reason to hold. (2) *Strong* fairness of `ReadPage` and `Discover`: direct calls
of `process_event()` or `recompute_window()` by the same worker may come
between two passes, but not forever instead of them. That is an assumption
about those callers; in the repository there are none.

## 4. The proofs

TLAPS checks these for every set of workers, partitions, ids, rules and events and
every value of the bounds, from the assumptions on the constants only.

| theorem | says | rests on |
|---|---|---|
| `IngestionInvariant`, `AckAfterPersist`, `FetchedOrInHand` | ack-after-persist under any interleaving, crash, rebalance | the invariant `IInv` |
| `ImplementsLandingZone` | every ingestion step is a step of `LandingZone` or none | `IInv` before and after the step |
| `RoutingInvariant`, `VerdictsRight`, `Exclusive` | verdicts are those of the preserved rows, and exclusive | `RoutingInv` |
| `RowsFromTopic` | every Bronze row is the content of a message of the topic | `IInv` |
| `FirstValidationWins`, `BatchDropsNothing`, `RejectionsVisible` | action properties of Silver, of a batch and of Quarantine | `RoutingInv` |
| `StampedBeforeStored` | a verdict is not stamped with a time to come | `RoutingInv` |
| `GoldInvariant`, `DerivedFromSilver` | Gold rows come from trusted events of their window and are final only after the lateness, for any number of workers | `GoldInv` |
| `OneWorkerOnlyImproves` | a row is replaced only by a better one | `GoldInv /\ ReadIsFresh`, `OneWorker`, `WindowsFit` |
| `OnlyOvertakenWorkersLose` | with any number of workers, a row gets worse only through one that was overtaken | `GoldInv /\ FreshUnlessOvertaken`, `WindowsFit` |
| `CandlesConsistent` | open and close are prices of a first and a last trade, none is outside low..high, something was traded and on neither side more than in all; unless the context rounds a sum or product, bought and sold add up and the VWAP is between low and high, its own two roundings included; for any number of trades, prices and quantities and any digits of the context | `GoldInv`, rounding keeps order, induction over the trades of a window |
| `BatchGoesOn`, `PassesGoOn` | of what a batch or pass has left there is exactly one to take next, and a batch has no more than its limit; the orders of `read()` and `sorted(candidates)` know no ties | `RoutingInv`, `GoldInv` |
| `LeftBehindForGood` (Trust, Gold) | what is beyond the page of a pass stays beyond it for every limit: only `process_event()` takes up such a row, only `recompute_window()` or a trade stamped early enough such a window | `RoutingInv`, `GoldInv`, ranks only grow |
| `WindowHoldsItsTimestamp`, `WindowsAreTheCodes` | the window of a time from 1970 on is aligned and contains it, half-open; `window_bounds_for`, which truncates to whole seconds first, gives the bounds of the windows of `GoldProcessing`, also for timestamps between two seconds | arithmetic |
| `ImplementsIngestion`, `ImplementsRouting`, `ImplementsGold` | the pipeline's steps are, for each stage, steps of that stage or stutter | the invariants of the stage before |
| `ImplementsLedger` | every step of any run is one entry of `EventLedger` or none | the invariants of all three stages |
| `OneStageAtATime` | a run has work in one stage only, in the order of `run_once()`, and none and no partition after its end | `StagesInTurn`, with the invariants of the stages |
| `LeftUnroutedForGood`, `LeftUncountedForGood` | no run of the pipeline reaches what is beyond the page, whatever the number of runs | `LeftBehindForGood` of the stages; a run calls `process_batch()` only |
| `OneProcessOnlyImproves` | `OneWorkerOnlyImproves` with ingestion and routing going on | `ImplementsGold` |
| `TablesAlwaysAgree`, `NeverUndone` | preserved implies published, a verdict is the rules' on the preserved row, a candle counts its own trusted events; nothing published, preserved or judged is undone | `ImplementsLedger`, the steps of `EventLedger` |
| `Traceable` | provenance of every trade that Gold counts, across all tables | the theorems of the three stages |
| `ProducerInvariant`, `OneLate` | a run holds its client and its connector where the code is, however it is left; a stop is late by one event at most | `ProducerInv`, `LateInv` |
| `RulesAgree` | the rules accept what a run published exactly when the exchange's data is usable | the fields of a prepared event (`PreparedFields`) |
| `AtLeastOnceInOrder` | what a producer sent is what it received and could prepare, in that order; what it counts as published is in the topic at least once, and in its partition a message behind a later one is a repetition | `ProducerInv /\ PublishedInv`, induction over the received events |
| `OneEscapeEndsTheRun` | the first raw event that `prepare()` escapes from is the last one received, and nothing else ends a run that way | `ProducerInv` |
| `TrustedIsPositive` | an accepted event can be aggregated | the operators |
| `EventIdsUnambiguous` | although a trade_id may hold colons, two event_ids are equal exactly when source, str(trade_id) and (dev) time are; what else tells two trades apart, as Coinbase's product, is not in them | the parts of a string between its colons |
| `SessionInvariant`, `IteratesOwnSocket`, `BudgetKept`, `EndReleasesAll` | the session's hold on its sockets, for any budget and any stopping tasks | `SessionInv` |
| `NeverTwoSockets` | at most one websocket of a session is open, also when other tasks stop it | `SessionInv /\ ClosesTheLatest` |
| `MigrationsInvariant`, `Atomic`, `Ordered`, `HistoryTrue`, `ReturnComplete` | runners that race keep files whole and in order, and a return means the whole schema | `MigrationsInv` |

`TypeCorrect` is proved for the three stages and for the pipeline. `OneWorker` and
`WindowsFit` are hypotheses of the theorems that need them, not assumptions
of the model.

*Why ack-after-persist needs a strengthening.* `AckedIsPersisted` speaks of
committed offsets; a commit raises one to whatever the worker holds. So the
invariant must say that a worker about to commit has everything below its message
in Bronze (`HeldPrefixPersisted`), also when it no longer owns the partition,
since it may get it back before the commit. That is established at delivery, from
what an owner has fetched (`FetchedIsPersisted`): all of it is in Bronze but the one
message in hand. And this holds at an assignment because fetching restarts at the
committed offset, which is `AckedIsPersisted` again. `OffsetsInTopic` and
`BatchBounded` keep the terms defined. The case that would break the circle, a failed
append after which the same member fetches on, is closed by leaving the group.

*Why verdicts are exclusive.* Nothing compares Silver with Quarantine. But rows
of Bronze never change, so a worker holds what Bronze holds (`HoldsBronzeRows`)
however long ago it read the page; validation is a function of the row; so all workers reach
the same verdict, and `VerdictsMatchBronze` implies `TrustIsExclusive`.

*When a Gold row improves.* `ReadIsFresh` (the events read include those of the row in
place) is stable only while nobody else upserts: with one worker it makes every
replacement an improvement. With several, the same argument holds for each worker until another one writes the
row (`FreshUnlessOvertaken`), and nothing more is true: in `GoldWorkers` an overtaken
worker does replace a newer row by an older one. `WindowsFit` says that a window
has no more events than `read_window()` returns; beyond that an event that trades
earlier may push another out of the scan.

*Why a session holds its socket.* `context`, `ws` and the local variable of `_open` are
set at different awaits and cleared by anybody who stops. `HoldsLatest` says what they
are at each await while nobody has: the latest context created; `StopsStay` that a
stop once requested is never taken back, because `connect()` runs only once. The
retry budget needs `WithinBudget`: a socket opened in silence was paid for by a
failure, which only a message forgives. `EndReleases` needs `NothingLeaks`, that nothing
is open but what the session's attributes or its local variable name.

*Why preparation and rules agree.* A published event is what `prepare()` made of
some message that it neither refused nor escaped from. Of such a message the strings are not empty, side and
type are known, numbers are finite and the time has an offset, so the
rules on identity, side and timestamps cannot fail; what is left for the others is a blank or
padded symbol, a blank trade_id and a number that is not positive: `IsUsable`, said of
the exchange's data.

*Why the pipeline implements its stages.* `ProcessingPipelineProofs` instantiates
the proof modules of the stages over the tables of the pipeline (`BI`, `TI`, `GI`)
and takes their theorems from there once the refinement is shown. The refinements
depend on one another in the order of the data: an event may land for the routing
because it is a new row of the ingestion (`AppendLands`, from `IInv`); a trade may
become trusted for the aggregation because the Silver row is new and stamped in
the past (`AppendTrusts`, from `RoutingInv` and `StampedBeforeStored`). `Traceable` then
composes three facts that no stage has alone: the counted trade is in Silver
(`GoldInv`), Silver holds what Bronze holds and Quarantine holds only what a rule
rejects (`VerdictsMatchBronze`), and Bronze holds what the topic held (`RowsFromTopic`).

*Why the pipeline implements the ledger.* An upsert writes what a worker computed long ago. It is one
entry all the same, because the trades it holds are in Silver (`WorkFromSilver`) and Silver
rows neither change nor go (`TrustedTrade`). A verdict stored late is an entry, or the one that is
there, because every verdict is a function of a row that stays (`RoutedIsEntered`).

*Why racing migrations are atomic and in order.* Only `Commit` changes the catalog or
the history, so the three properties of the catalog are about the file it commits.
`RunnersOnTrack` says what its runner knows by then: every object before the current
statement is there or its own, and all files it has behind it are complete, because it
applied them or the history vouches for them (`HistoryIsTrue`, which makes the parts of the
invariant depend on each other). The proof uses that no two files create the same object
(`MigrationsAssumption`, true of the four files); with a shared object the commit of one
file would make part of another visible.

*How induction over data is done.* The induction theorems of the library take an
operator, which no prover here can instantiate. The proof modules state induction about
sets instead: a nonempty set of naturals has a least element (`LeastNatural`, from the
well-foundedness of `<`), so a set that holds 0 and with n also n + 1 is `Nat` (`SetInduction`).
`SubsetInduction` does the same for the subsets of a finite set, over their cardinality.

*Why candles are consistent.* A running sum is a recursive function over the set of trades that takes
out the last one, and the recursion has a value on every set (`SumExists`, by induction over its
size). `RoundedIsNearest` shows that the nearest number of the context exists and is one only, ties
included; `RoundedKeepsBounds` that a result never leaves a number of the context that
bounds the exact one. So sums grow with what is summed, and neither side exceeds the volume
(`SidesBelow`). No more can be said in general: bought and sold need not add up. Where nothing is rounded they
do (`ExactSums`, `SidesAddUp`), low * volume <= notional <= high * volume (`NotionalBounds`), and
low and high, which have digits enough themselves, bound the quotient after its rounding and the
rounding half up to the unit (`VwapBounds`, `HalfUpBelow`, `HalfUpAbove`).

*Why the topic is in order.* `PublishedInv` says at every step of the producer's loop what has been
sent: the publishable ones of the events received. `PublishablesAppend`
is the step of the induction: one more event received adds its message, if it
has one, at the end. For a dev run the invariant
adds that what was received is the script so far, which no `reconnect()` rewinds. An event is sent only when the
one before is acknowledged, that is, has a copy in its partition; so whenever a copy arrives, the earlier
events of that partition are there already, before it (`Placed`, kept by `ArrivePlaces`), and what arrives
behind a later event has been there once.

*Why the page starves.* Rows are ordered by a key that never changes and never go, so the number of
rows before a given one only grows (`BeyondStaysBeyond`); what a page of `Limit` rows does not show now
no later page will. The finding `TrustStarvation` shows one behaviour for a page of one row; these
theorems say that it is so in every behaviour and for every limit. In the
pipeline nothing calls `process_event()` or `recompute_window()`, so the exceptions that the stages
alone allow are gone, except the trade whose verdict was stamped earlier
than what the page shows and stored later.

Only model-checked: the liveness properties (`EventuallyPreserved`, `EventuallyRouted`,
`GoldConverges`, `LeftoversProcessed`, `EventuallyComplete`, `StopEndsSession`, `DevRunEnds`). They
rest on fairness and enabledness, which the prover does not handle. Every other property of a
passing run is a theorem.

## 5. Disagreements

Shown by runs that are expected to be violated:

1. `BronzeUnreadable`: `messaging/consumer.py:167-169` says that offsets of
   undecodable messages "are NOT advanced, so a group restart reads them again".
   The next acknowledged message of the partition commits past them.
2. `TrustStarvation`: `processing/pipeline.py:30-32` says that what an earlier run
   left in Bronze is processed. `process_batch()` reads offset 0 on every pass
   (`processing/validation/service.py:125`), rows are never removed, and the page
   is bounded: rows beyond the first page are never routed (`LeftUnroutedForGood`, for every limit). Gold's page
   (`processing/gold/service.py:108`) has the same shape.
3. `SessionLost`: `producer/connectors/coinbase.py:29-31` promises retries up to
   `max_reconnect_attempts`. `reconnect()` is awaited inside the `except` handler of
   `stream()`, so the first refused reconnect leaves the generator.
4. `ProducerHalted`: `producer/pipeline.py:23-24` says that a raw event that cannot be
   prepared "does not halt ingestion". `run()` catches `PreparationError` only, and
   `prepare()` raises pydantic's `ValidationError` for a price or quantity of NaN or
   Infinity, and `OverflowError` or `ValueError` for a time beyond the range of
   `datetime` (`producer/preparation/coinbase.py:104`, `dev.py:80`). It happens at the first such
   event and at no other (`OneEscapeEndsTheRun`).

Seen while reading and modelling, without a run of their own:

- `processing/bronze_ingestion.py:79-80` calls a failed append a "safe retry". It
  is safe because `run_processing()` leaves the group; a second `ingest()` on the same
  service would continue after the failed message, and its next acknowledgement
  would settle it.
- `messaging/consumer.py:48-49` says an acknowledged message is never delivered to
  the group again. A member that lost a partition and got it back may commit an
  older offset than the one in place. Harmless to ack-after-persist, which is why
  the invariant does not ask for committed offsets to grow.
- `common/contracts/gold.py:21-23`: a window that is final is "closed for late
  arrivals"; a trusted event that arrives after finality still changes its row.
- `processing/gold/service.py:24-25` says windows are recomputed from the complete
  set of events; `read_window()` silently stops at its limit
  (`warehouse/repositories/silver.py:186`).
- `warehouse/migrations/runner.py:4-6` says applied migrations are recorded. The
  runner records nothing, and of the files only 001 inserts itself: 002 to 004 run
  again every time. They are idempotent, so `HistoryIsTrue` and
  `ReturnMeansComplete` hold.
- `producer/pipeline.py:26-27` says resources are always released. A `disconnect()`
  of another task while `_open()` is inside `__aenter__` leaves the context before
  it is entered; the websocket opened after that is owned by nobody. No task in
  the repository does that today, hence the condition in `EndReleases`; it is never more than
  that one socket (`NeverTwoSockets`).
- `producer/main.py:55-65` describes a stop event that nothing reads: since the
  handler replaces the default one, SIGTERM does not end a live session.
- `warehouse/repositories/gold.py:50-51` says that a recomputed window "always reflects
  the latest trusted data". Of two workers the one that read earlier may upsert later;
  the row loses trades until it is recomputed (`ImprovesUnlessOvertaken` says
  exactly when, `GoldConverges` that the next passes repair it).
- `processing/pipeline.py:30-32` says that a run that ingests nothing still runs the
  later stages. `ingest()` has no timeout: it returns at `max_events` or not at all
  (`processing/bronze_ingestion.py:97-131`).
- `processing/gold/windows.py:128`: a VWAP with more digits than the Decimal context
  has raises `InvalidOperation`, which ends the pass; the windows sorted behind it are not
  computed in any pass (`HeldBack` in `GoldConverges`).
- `common/contracts/gold.py:16-18` says that the VWAP is "computed with exact Decimal arithmetic".
  Each `+=`, `*` and `/` of `processing/gold/windows.py:111-128` rounds to the 28 digits of the
  decimal context, and `quantize()` rounds the quotient again. Quantities and prices have any number of digits: a bought
  quantity of 1E28 and a sold one of 1 add up to a volume of 1E28. `CandleIsConsistent` says what
  holds in spite of it.
- `messaging/publisher.py:71-74` configures a client that retries without idempotence, and
  line 89 sends without a key. An event may be in the topic more than once although it was published
  once, and events in different partitions have no order. Nothing in the repository promises otherwise; the
  ingestion keeps one row per event_id.
- `producer/preparation/dev.py:94-97`: raw events that share a trade_id "but differ in any other
  field produce distinct event_ids". They do only if the time differs (`EventIdsUnambiguous`).
- `producer/connectors/dev.py:130-132`: `reconnect()` "resets its stream position". The
  position is the generator's and stays, which is why no event of the script is taken up twice
  (`PublishedInOrder`).
- `producer/connectors/dev.py:21-22`: `disconnect()` "stops the stream between
  events"; one more event follows if its sleep had begun.
- `messaging/codec.py:49` raises `SerializationError`, which is not the `PublishError`
  of the publisher's contract (`messaging/publisher.py:43-44`); the run ends in either case.
- `processing/validation/rules.py`: no rule looks at `event_type`, so a dev event of
  type ticker is trusted and aggregated like a trade.
- `producer/preparation/coinbase.py:116-117` takes a `trade_id` to be unique across
  products; the event_id does not contain the product.
- `producer/config/settings.py`: `buffer_size` and `heartbeat_interval_seconds` are read by nothing.

## 6. Not modelled

- `KafkaConsumer.stream()` and `enable_auto_commit = true`, an operator's setting that would
  break ack-after-persist: the services use neither.
- Contents: codec and row conversions are faithful round trips in the models; a
  message decodes or does not, PostgreSQL takes a row or does not. The CHECK constraints
  keep rows that do not map back out of the tables. Strings are valid Unicode.
- The ends of the decimal exponent's range: amounts are whole numbers of a unit that may be chosen as
  small as needed, and `Units` reaches as high as needed.
- The broker: what it has acknowledged it keeps, and a copy that is sent again goes to the partition chosen
  for the event, as the client does within a batch. Losing an acknowledged message (acks of the leader only)
  is not modelled.
- Reads that change nothing: `get`, `latest_by_symbol`, `list_symbols`, and
  `PostgresQuarantineRepository.append()`, which no service calls.
- The fallback of `GoldProcessingService._read_window` for repositories without
  `read_window()`: the PostgreSQL repository has it.
- Configuration changes between runs (another `window_seconds`).
- Trades made while the exchange's connection is down: nothing in the code notices
  them, and the exchange is external.
- A second `connect()` or `stream()` on one Coinbase connector: the pipeline makes one of each.
- Signals (they change nothing the program reads), settings, logging, the health
  server; the placeholders of analytics, jobs, dashboards.

## 7. Plan

Done, in this order: `LandingZone`, `BronzeIngestion`, `TrustRouting`,
`GoldProcessing`, `ProcessingPipeline`, `CoinbaseSession`, `Migrations`, `MarketWindows`,
`GoldRaces`, `Contracts`, `EventPreparation`, `ValidationRules`, `ProducerRun`, `EventLedger`, and
the proofs of all of them.

Next, by importance:

1. A configuration change between runs: `window_id` does not contain
   `window_seconds`, so rows of both sizes share identities.
2. `CoinbaseSession` as the source of `ProducerRun`, by a refinement in place of the
   external `Message` and `StreamEnds`.
3. `replay()` and `read()` with an offset while rows are inserted, and
   `PostgresQuarantineRepository.append()`, when a caller uses them.
4. Theorems still worth having: an undisturbed Gold pass leaves every window of its
   page complete (the safety part of `GoldConverges`), which needs a history of what was
   trusted since the read; the candles of `MarketWindows` inside the pipeline, where
   `TrustedIsPositive` would discharge the assumption on prices and quantities.
