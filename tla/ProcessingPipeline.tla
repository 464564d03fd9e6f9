------------------------- MODULE ProcessingPipeline -------------------------
(***************************************************************************)
(* One run of the processing side: run_processing() (processing/main.py)   *)
(* and ProcessingPipeline.run_once() (processing/pipeline.py), which drive *)
(* the three stages one after the other over shared tables:                *)
(*                                                                         *)
(*   ingest  BronzeIngestion  Kafka to Bronze, until batch_size events     *)
(*   trust   TrustRouting     Bronze to Silver or Quarantine, one page     *)
(*   gold    GoldProcessing   Silver to Gold, the windows of one page      *)
(*                                                                         *)
(* A stage that raises ends the run; finally leaves the consumer group.    *)
(* The stages are the modules above, instantiated over the same Bronze and *)
(* Silver tables: what one of them takes for its environment (rows that    *)
(* land, events that become trusted) is here the stage before it.          *)
(***************************************************************************)
EXTENDS Naturals, Sequences, FiniteSets

CONSTANTS
  Workers,        \* processes that execute run_processing()
  Partitions,     \* partitions of the market events topic
  Ids,            \* event_id values, numbered in their text order
  Rules,          \* the configured validation rules
  Bodies,         \* what an event carries besides its event_id
  UnstorableBodies,
  Unreadable,
  NoRow,
  NoWorker,
  NoEvent,
  BatchSize,      \* batch_size of the pipeline, for all three stages
  WindowSeconds,
  Lateness,
  ScanLimit,
  MaxClock,       \* bound: the last instant stands for all later ones
  MaxLog,         \* bound: messages published per partition
  MaxFailures,    \* bound: failures and crashes in each stage
  MaxRebalances   \* bound: partitions moved away from a live owner

VARIABLES
  topic, owner, position, committed,            \* the broker
  bronze, silver, quarantine, gold,             \* the warehouse
  clock,                                        \* datetime.now(UTC)
  phase,                                        \* phase[w]: where its run is
  ingestStage, consumed, persisted,             \* BronzeIngestionService
  routeStage, page, current, stamp,             \* TrustRoutingService
  goldStage, candidates, window, events, row,   \* GoldProcessingService
  ingestFailures, routeFailures, goldFailures, rebalances   \* bounds

brokerVars == <<topic, owner, position, committed>>
ingestVars == <<brokerVars, ingestStage, consumed, persisted, ingestFailures, rebalances>>
routeVars == <<silver, quarantine, routeStage, page, current, stamp, routeFailures>>
goldVars == <<gold, goldStage, candidates, window, events, row, goldFailures>>
vars == <<bronze, clock, phase, ingestVars, routeVars, goldVars>>

\* A trusted event as the aggregation sees it. Every VWAP of these trades can
\* be quantized: the pass that raises is an action of GoldProcessing only.
TradeOf(id, body) == [id |-> id, symbol |-> body.symbol, traded |-> body.traded]
Trades == {TradeOf(id, body) : id \in Ids, body \in Bodies}

\* Mutant of ValidatedAt: the Gold stage is wired to the Bronze repository.
ReceivedAt ==
  [e \in Trades |->
     IF bronze[e.id] # NoRow /\ TradeOf(e.id, bronze[e.id]) = e THEN 0 ELSE NoRow]

\* validated_at of the Silver row that is this trade.
ValidatedAt ==
  [e \in Trades |->
     IF silver[e.id] # NoRow /\ TradeOf(e.id, silver[e.id].body) = e
     THEN silver[e.id].validated ELSE NoRow]

B == INSTANCE BronzeIngestion WITH
       MaxEvents <- BatchSize, stage <- ingestStage, failures <- ingestFailures

T == INSTANCE TrustRouting WITH
       Limit <- BatchSize, stage <- routeStage, failures <- routeFailures

G == INSTANCE GoldProcessing WITH
       Events <- Trades, silver <- ValidatedAt, Limit <- BatchSize, Unquantizable <- {},
       stage <- goldStage, failures <- goldFailures

ASSUME PipelineAssumption ==
  B!IngestionAssumption /\ T!RoutingAssumption /\ G!GoldAssumption

Init ==
  /\ B!Init
  /\ T!Init
  /\ phase = [w \in Workers |-> "off"]
  /\ gold = [win \in G!Windows |-> NoRow]
  /\ goldStage = [w \in Workers |-> "idle"]
  /\ candidates = [w \in Workers |-> {}]
  /\ window = [w \in Workers |-> {}]
  /\ events = [w \in Workers |-> {}]
  /\ row = [w \in Workers |-> NoRow]
  /\ goldFailures = 0

GoTo(w, next) == phase' = [phase EXCEPT ![w] = next]

----------------------------------------------------------------------------
(* The environment: producers, the group coordinator, time.                *)

Publish(p, m) ==
  /\ B!Publish(p, m)
  /\ UNCHANGED <<clock, phase, routeVars, goldVars>>

Assign(p, w) ==
  /\ B!Assign(p, w)
  /\ UNCHANGED <<clock, phase, routeVars, goldVars>>

Tick ==
  /\ UNCHANGED <<phase, ingestVars, routeVars, goldVars>>
  /\ T!Tick

----------------------------------------------------------------------------
(* One run.                                                                *)

\* run_processing() up to run_once(): pool, migrations, consumer.start().
Begin(w) ==
  /\ phase[w] = "off"
  /\ B!Start(w)
  /\ GoTo(w, "ingest")
  /\ UNCHANGED <<clock, routeVars, goldVars>>

\* await self._ingestion.ingest(): it returns at the batch_size-th event,
\* and not before, however long the topic stays silent.
Ingesting(w) ==
  /\ phase[w] = "ingest"
  /\ \/ B!Ingest(w)
     \/ \E p \in Partitions : B!Deliver(w, p) \/ B!SkipUnreadable(w, p)
     \/ B!AppendOk(w) \/ B!AppendFail(w) \/ B!AppendRefused(w)
     \/ B!AckOk(w) \/ B!AckFail(w)
  /\ UNCHANGED <<clock, phase, routeVars, goldVars>>

\* await self._trust.process_batch(): the ingest returned.
BeginTrust(w) ==
  /\ phase[w] = "ingest"
  /\ ingestStage[w] = "returned"
  /\ UNCHANGED <<ingestVars, goldVars>>
  /\ \/ T!ReadPage(w) /\ GoTo(w, "trust")
     \/ /\ T!FirstPage = {}
        /\ GoTo(w, "gold")
        /\ UNCHANGED <<bronze, clock, routeVars>>

\* Mutant of Trusting: the run ends when the events are routed.
TrustingLast(w) ==
  /\ phase[w] = "trust"
  /\ UNCHANGED <<ingestVars, goldVars>>
  /\ \/ (T!Validate(w) \/ T!Store(w)) /\ UNCHANGED phase
     \/ (T!Return(w) \/ T!StoreCollides(w) \/ T!StoreFails(w)) /\ GoTo(w, "close")

Trusting(w) ==
  /\ phase[w] = "trust"
  /\ UNCHANGED <<ingestVars, goldVars>>
  /\ \/ (T!Validate(w) \/ T!Store(w)) /\ UNCHANGED phase
     \/ T!Return(w) /\ GoTo(w, "gold")
     \/ (T!StoreCollides(w) \/ T!StoreFails(w)) /\ GoTo(w, "close")

\* await self._gold.process_batch(): the trust stage returned.
BeginGold(w) ==
  /\ phase[w] = "gold"
  /\ goldStage[w] = "idle"
  /\ UNCHANGED <<bronze, ingestVars, routeVars>>
  /\ \/ G!Discover(w) /\ UNCHANGED phase
     \/ /\ G!FirstPage = {}
        /\ GoTo(w, "close")
        /\ UNCHANGED <<clock, goldVars>>

Aggregating(w) ==
  /\ phase[w] = "gold"
  /\ UNCHANGED <<bronze, ingestVars, routeVars>>
  /\ \/ G!ReadWindow(w) /\ UNCHANGED phase
     \/ G!SkipEmpty(w) /\ UNCHANGED phase
     \/ G!Aggregate(w) /\ UNCHANGED phase
     \/ G!Upsert(w) /\ UNCHANGED phase
     \/ (G!Return(w) \/ G!UpsertFails(w)) /\ GoTo(w, "close")

\* Mutant of Close: the consumer commits its positions when it is stopped.
CloseCommitting(w) ==
  /\ phase[w] = "close" \/ (phase[w] = "ingest" /\ ingestStage[w] = "failed")
  /\ ingestStage' = [ingestStage EXCEPT ![w] = "down"]
  /\ committed' = [p \in Partitions |-> IF owner[p] = w THEN position[p] ELSE committed[p]]
  /\ owner' = B!Released(w)
  /\ consumed' = [consumed EXCEPT ![w] = <<>>]
  /\ GoTo(w, "off")
  /\ UNCHANGED <<topic, position, bronze, persisted, ingestFailures, rebalances, clock,
                 routeVars, goldVars>>

\* finally: pipeline.close(), after run_once() returned or raised.
Close(w) ==
  /\ phase[w] = "close" \/ (phase[w] = "ingest" /\ ingestStage[w] = "failed")
  /\ B!Close(w)
  /\ GoTo(w, "off")
  /\ UNCHANGED <<clock, routeVars, goldVars>>

\* The process dies; its session expires. It dies in the middle of a stage, or
\* between two of them or before close() is reached.
Crash(w) ==
  /\ GoTo(w, "off")
  /\ \/ /\ phase[w] \in {"ingest", "close"} \/ (phase[w] = "gold" /\ goldStage[w] = "idle")
        /\ B!Crash(w)
        /\ UNCHANGED <<clock, routeVars, goldVars>>
     \/ /\ phase[w] = "trust"
        /\ B!Close(w)
        /\ UNCHANGED goldVars
        /\ T!Crash(w)
     \/ /\ phase[w] = "gold"
        /\ B!Close(w)
        /\ UNCHANGED routeVars
        /\ G!Crash(w)

Step(w) ==
  \/ Begin(w) \/ Ingesting(w) \/ BeginTrust(w) \/ Trusting(w)
  \/ BeginGold(w) \/ Aggregating(w) \/ Close(w)

Next ==
  \/ \E p \in Partitions, m \in B!Message : Publish(p, m)
  \/ \E p \in Partitions, w \in Workers : Assign(p, w)
  \/ Tick
  \/ \E w \in Workers : Step(w) \/ Crash(w)

Spec == Init /\ [][Next]_vars

\* A run that ended is started again, the coordinator assigns every free
\* partition, and time goes on. Nothing makes messages be published.
FairSpec ==
  /\ Spec
  /\ WF_vars(Tick)
  /\ \A w \in Workers : WF_vars(Step(w))
  /\ \A p \in Partitions :
       WF_vars(owner[p] = NoWorker /\ \E w \in Workers : Assign(p, w))

----------------------------------------------------------------------------
(* Properties.                                                             *)

TypeOK ==
  /\ B!TypeOK
  /\ T!TypeOK
  /\ G!TypeOK
  /\ phase \in [Workers -> {"off", "ingest", "trust", "gold", "close"}]

\* Provenance, across all stages: a trade counted in Gold is the trusted
\* event of its id, which every rule passed and Quarantine does not know,
\* which Bronze preserves, and which is in the topic.
GoldIsTraceable ==
  \A win \in G!Windows : gold[win] # NoRow =>
    \A e \in gold[win].trades :
      /\ silver[e.id] # NoRow
      /\ silver[e.id].body = bronze[e.id]
      /\ TradeOf(e.id, bronze[e.id]) = e
      /\ T!Valid(bronze[e.id])
      /\ \A q \in quarantine : q.id # e.id
      /\ \E p \in Partitions : \E o \in DOMAIN topic[p] :
           topic[p][o] = [id |-> e.id, body |-> bronze[e.id]]

\* Each stage meets what the next one assumes of its environment, so what is
\* proved of the stages alone holds of them in the pipeline.
RefinesIngestion == B!Spec
RefinesRouting == T!Spec
RefinesGold == G!Spec

\* The life of an event as the tables show it.
Published == {m \in B!Event : \E p \in Partitions : \E o \in DOMAIN topic[p] : topic[p][o] = m}

Verdict ==
  [id \in Ids |->
     IF silver[id] # NoRow THEN "trusted"
     ELSE IF \E q \in quarantine : q.id = id THEN "rejected" ELSE "none"]

Counted ==
  UNION {{[id |-> e.id, candle |-> win] : e \in gold[win].trades} :
           win \in {x \in G!Windows : gold[x] # NoRow}}

L == INSTANCE EventLedger WITH
       Accepted <- {body \in Bodies : T!Valid(body)},
       CandleOf <- [body \in Bodies |-> G!WindowOf(body)],
       published <- Published, preserved <- bronze, verdict <- Verdict, counted <- Counted

\* End to end (pipeline.py:1-32): over all runs of all workers an event is
\* preserved once, judged once and on what is preserved, and counted only in
\* its own candle and only after it was trusted. No run skips a stage for an
\* event or undoes one.
RefinesLedger == L!Spec

IsCounted(id) ==
  /\ silver[id] # NoRow
  /\ LET e == TradeOf(id, silver[id].body)
     IN gold[G!WindowOf(e)] # NoRow /\ e \in gold[G!WindowOf(e)].trades

IsDone(id) == IsCounted(id) \/ \E q \in quarantine : q.id = id

\* Failures and crashes so far.
Setbacks == ingestFailures + routeFailures + goldFailures

\* Some run has its batch and goes on to the trust stage, at an instant at
\* which quarantine keys no longer collide.
SomeRunGoesOn ==
  /\ clock = MaxClock
  /\ \E w \in Workers : phase[w] = "ingest" /\ ingestStage[w] = "returned"

\* After a run failed, the next run that gets beyond ingestion processes all
\* that Bronze holds, also what the failed one left there (pipeline.py:30-32),
\* unless it fails too or Bronze has outgrown the page.
LeftoversProcessed ==
  \A id \in Ids, n \in 1..2 :
    (SomeRunGoesOn /\ bronze[id] # NoRow /\ Setbacks = n)
      ~> (IsDone(id) \/ Setbacks > n \/ Cardinality(T!Stored) > BatchSize)
=============================================================================
