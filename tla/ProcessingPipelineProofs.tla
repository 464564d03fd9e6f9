---------------------- MODULE ProcessingPipelineProofs ----------------------
(* For every value of the constants the pipeline implements each of its    *)
(* stages, so what is proved of them alone holds in it, and with their     *)
(* invariants together it implements EventLedger. Ingestion comes first:   *)
(* the later stages of a run neither write Bronze nor touch the broker.    *)
(* What follows is what only the composition has: stages that take turns,  *)
(* pages that no run gets beyond, tables that agree across all stages.     *)
EXTENDS ProcessingPipeline, TLAPS

\* The two stages after ingestion only read Bronze and leave the broker alone.
LEMMA LaterStagesLeaveIngestion ==
  ASSUME NEW w \in Workers,
         BeginTrust(w) \/ Trusting(w) \/ BeginGold(w) \/ Aggregating(w)
  PROVE  UNCHANGED <<bronze, ingestVars>>
<1>1. UNCHANGED ingestVars
  BY DEF BeginTrust, Trusting, BeginGold, Aggregating
<1>2. UNCHANGED bronze
  BY DEF BeginTrust, Trusting, BeginGold, Aggregating, T!ReadPage, T!Validate,
         T!Store, T!Return, T!StoreCollides, T!StoreFails, T!tableVars
<1> QED
  BY <1>1, <1>2

\* The ingestion stage inside the pipeline is BronzeIngestion: the end of a
\* run is its Close or its Crash.
THEOREM ImplementsIngestion == Spec => RefinesIngestion
<1>1. Init => B!Init
  BY DEF Init
<1>2. ASSUME [Next]_vars PROVE [B!Next]_(B!vars)
  <2>1. UNCHANGED <<bronze, ingestVars>> => UNCHANGED (B!vars)
    BY DEF B!vars, B!brokerVars, B!workerVars, B!boundVars, ingestVars, brokerVars
  <2>2. ASSUME NEW p \in Partitions, NEW m \in B!Message, Publish(p, m)
        PROVE  B!Next
    BY <2>2 DEF Publish, B!Next
  <2>3. ASSUME NEW p \in Partitions, NEW w \in Workers, Assign(p, w)
        PROVE  B!Next
    BY <2>3 DEF Assign, B!Next
  <2>4. CASE Tick
    BY <2>1, <2>4 DEF Tick, T!Tick, T!tableVars
  <2>5. ASSUME NEW w \in Workers, Begin(w) \/ Ingesting(w) \/ Close(w) \/ Crash(w)
        PROVE  B!Next
    BY <2>5 DEF Begin, Ingesting, Close, Crash, B!Next
  <2>6. ASSUME NEW w \in Workers,
               BeginTrust(w) \/ Trusting(w) \/ BeginGold(w) \/ Aggregating(w)
        PROVE  UNCHANGED (B!vars)
    BY <2>1, <2>6, LaterStagesLeaveIngestion
  <2>7. CASE UNCHANGED vars
    BY <2>1, <2>7 DEF vars
  <2> QED
    BY <1>2, <2>2, <2>3, <2>4, <2>5, <2>6, <2>7 DEF Next, Step
<1> QED
  BY <1>1, <1>2, PTL DEF Spec, RefinesIngestion, B!Spec

----------------------------------------------------------------------------
(* What is proved of a stage alone holds of it in the pipeline. The proof  *)
(* modules are instantiated as the stages are, and speak of the same       *)
(* formulas.                                                               *)

BI == INSTANCE BronzeIngestionProofs WITH
        MaxEvents <- BatchSize, stage <- ingestStage, failures <- ingestFailures

\* The ingestion of the pipeline and of its proofs is the same.
LEMMA SameIngestion ==
  /\ B!Init <=> BI!Init
  /\ [B!Next]_(B!vars) <=> [BI!Next]_(BI!vars)
<1> USE DEF B!brokerVars, B!workerVars, B!boundVars, B!vars,
            BI!brokerVars, BI!workerVars, BI!boundVars, BI!vars
<1>1. B!Init <=> BI!Init
  BY DEF B!Init, BI!Init
<1>2. [B!Next]_(B!vars) <=> [BI!Next]_(BI!vars)
  BY DEF B!Event, B!Message, B!Readable, B!Held, B!Publish, B!Assign, B!Released,
         B!Start, B!Ingest, B!Deliver, B!SkipUnreadable, B!Inserted, B!AppendOk,
         B!AppendFail, B!AppendRefused, B!CommittedBy, B!AckOk, B!AckFail, B!Close,
         B!Crash, B!Next,
         BI!Event, BI!Message, BI!Readable, BI!Held, BI!Publish, BI!Assign, BI!Released,
         BI!Start, BI!Ingest, BI!Deliver, BI!SkipUnreadable, BI!Inserted, BI!AppendOk,
         BI!AppendFail, BI!AppendRefused, BI!CommittedBy, BI!AckOk, BI!AckFail, BI!Close,
         BI!Crash, BI!Next
<1> QED
  BY <1>1, <1>2

\* The pipeline keeps the inductive invariant of the ingestion, and its rows
\* come from the topic.
LEMMA PipelineIngests == Spec => [](BI!IInv /\ BI!RowsAreMessages)
<1>1. BI!Spec => []BI!IInv
  BY BI!IngestionInvariant, PipelineAssumption, PTL
<1>2. BI!Spec => []BI!RowsAreMessages
  BY BI!RowsFromTopic, PipelineAssumption, PTL
<1>3. /\ B!Init <=> BI!Init
      /\ [B!Next]_(B!vars) <=> [BI!Next]_(BI!vars)
  BY SameIngestion
<1> QED
  BY <1>1, <1>2, <1>3, ImplementsIngestion, PTL DEF RefinesIngestion, B!Spec, BI!Spec

----------------------------------------------------------------------------
(* The second stage.                                                       *)

\* What a worker appends is an event: the append lands a row for the routing,
\* or leaves the one that is there.
LEMMA AppendLands ==
  ASSUME BI!IInv, NEW w \in Workers, ingestStage[w] = "appending",
         bronze' = B!Inserted(B!Held(w)), UNCHANGED <<clock, routeVars>>
  PROVE  [T!Next]_(T!vars)
<1> DEFINE e == B!Held(w)
<1>1. e \in BI!Event
  <2>1. BI!TypeOK /\ BI!OffsetsInTopic
    BY DEF BI!IInv
  <2>2. BI!Held(w) \in BI!Event
    BY <2>1, BI!HeldIsEvent, PipelineAssumption
  <2> QED
    BY <2>2 DEF B!Held, BI!Held
<1>2. e.id \in Ids /\ e.body \in Bodies
  BY <1>1 DEF BI!Event
<1>3. CASE bronze[e.id] = NoRow
  <2>1. bronze' = [bronze EXCEPT ![e.id] = e.body]
    BY <1>3 DEF B!Inserted
  <2>2. T!Land(e.id, e.body)
    BY <1>3, <2>1 DEF T!Land, routeVars, T!workerVars
  <2> QED
    BY <1>2, <2>2 DEF T!Next
<1>4. CASE bronze[e.id] # NoRow
  BY <1>4 DEF B!Inserted, T!vars, T!tableVars, T!workerVars, routeVars
<1> QED
  BY <1>3, <1>4

\* Every step of ingestion is a step of the routing's environment, or none.
LEMMA IngestingForRouting ==
  ASSUME BI!IInv, NEW w \in Workers, Ingesting(w)
  PROVE  [T!Next]_(T!vars)
<1>1. UNCHANGED <<clock, routeVars>>
  BY DEF Ingesting
<1>2. \/ UNCHANGED bronze
      \/ ingestStage[w] = "appending" /\ bronze' = B!Inserted(B!Held(w))
  BY DEF Ingesting, B!Ingest, B!Deliver, B!SkipUnreadable, B!AppendOk, B!AppendFail,
         B!AppendRefused, B!AckOk, B!AckFail
<1>3. CASE UNCHANGED bronze
  BY <1>1, <1>3 DEF T!vars, T!tableVars, T!workerVars, routeVars
<1> QED
  BY <1>1, <1>2, <1>3, AppendLands

\* The pipeline implements the specification of its trust stage: what the
\* ingestion of any worker does to Bronze is what the routing takes for its
\* environment, rows that land once and stay.
THEOREM ImplementsRouting == Spec => RefinesRouting
<1>1. Init => T!Init
  BY DEF Init
<1>2. ASSUME BI!IInv, [Next]_vars PROVE [T!Next]_(T!vars)
  <2>1. UNCHANGED <<bronze, clock, routeVars>> => UNCHANGED (T!vars)
    BY DEF T!vars, T!tableVars, T!workerVars, routeVars
  <2>2. CASE \/ \E p \in Partitions, m \in B!Message : Publish(p, m)
             \/ \E p \in Partitions, w \in Workers : Assign(p, w)
    BY <2>1, <2>2 DEF Publish, Assign, B!Publish, B!Assign
  <2>3. CASE Tick
    BY <2>3 DEF Tick, T!Next
  <2>4. ASSUME NEW w \in Workers, Ingesting(w)
        PROVE  [T!Next]_(T!vars)
    BY <1>2, <2>4, IngestingForRouting
  <2>5. ASSUME NEW w \in Workers, Begin(w) \/ Close(w)
        PROVE  UNCHANGED (T!vars)
    BY <2>1, <2>5 DEF Begin, Close, B!Start, B!Close
  <2>6. ASSUME NEW w \in Workers, BeginTrust(w) \/ Trusting(w)
        PROVE  [T!Next]_(T!vars)
    <3>1. CASE BeginTrust(w)
      BY <2>1, <3>1 DEF BeginTrust, T!Next, T!Step
    <3>2. CASE Trusting(w)
      BY <3>2 DEF Trusting, T!Next, T!Step
    <3> QED
      BY <2>6, <3>1, <3>2
  <2>7. ASSUME NEW w \in Workers, BeginGold(w) \/ Aggregating(w)
        PROVE  UNCHANGED (T!vars)
    BY <2>1, <2>7
    DEF BeginGold, Aggregating, G!Discover, G!ReadWindow, G!SkipEmpty, G!Aggregate,
        G!Upsert, G!Return, G!UpsertFails
  <2>8. ASSUME NEW w \in Workers, Crash(w)
        PROVE  [T!Next]_(T!vars)
    BY <2>1, <2>8 DEF Crash, B!Crash, B!Close, T!Next, G!Crash
  <2>9. CASE UNCHANGED vars
    BY <2>1, <2>9 DEF vars
  <2> QED
    BY <1>2, <2>2, <2>3, <2>4, <2>5, <2>6, <2>7, <2>8, <2>9 DEF Next, Step
<1>3. Spec => []BI!IInv
  BY PipelineIngests, PTL
<1> QED
  BY <1>1, <1>2, <1>3, PTL DEF Spec, RefinesRouting, T!Spec

----------------------------------------------------------------------------
(* The third stage.                                                        *)

TI == INSTANCE TrustRoutingProofs WITH
        Limit <- BatchSize, stage <- routeStage, failures <- routeFailures

\* The routing of the pipeline and of its proofs is the same.
LEMMA SameRouting ==
  /\ T!Init <=> TI!Init
  /\ [T!Next]_(T!vars) <=> [TI!Next]_(TI!vars)
<1> USE DEF T!tableVars, T!workerVars, T!vars, TI!tableVars, TI!workerVars, TI!vars
<1>1. T!Init <=> TI!Init
  BY DEF T!Init, TI!Init
<1>2. [T!Next]_(T!vars) <=> [TI!Next]_(TI!vars)
  BY DEF T!Event, T!RuleFailures, T!Valid, T!Stored, T!Precedes, T!BronzeEvents,
         T!FirstPage, T!IsNext, T!Land, T!Tick, T!ReadPage, T!ProcessEvent, T!Validate,
         T!TrustedRowOf, T!SilverAppended, T!RecordOf, T!KeyTaken, T!Routed, T!Store,
         T!Leave, T!Return, T!StoreCollides, T!StoreFails, T!Crash, T!Step, T!Next,
         TI!Event, TI!RuleFailures, TI!Valid, TI!Stored, TI!Precedes, TI!BronzeEvents,
         TI!FirstPage, TI!IsNext, TI!Land, TI!Tick, TI!ReadPage, TI!ProcessEvent, TI!Validate,
         TI!TrustedRowOf, TI!SilverAppended, TI!RecordOf, TI!KeyTaken, TI!Routed, TI!Store,
         TI!Leave, TI!Return, TI!StoreCollides, TI!StoreFails, TI!Crash, TI!Step, TI!Next,
         T!Cardinality, TI!Cardinality
<1> QED
  BY <1>1, <1>2

\* The pipeline keeps the inductive invariant of the routing, and stamps
\* verdicts before it stores them.
LEMMA PipelineRoutes == Spec => [](TI!RoutingInv /\ TI!StampsInThePast)
<1>0. TI!RoutingAssumption
  BY PipelineAssumption
  DEF T!RoutingAssumption, T!Findings, T!IsFiniteSet,
      TI!RoutingAssumption, TI!Findings, TI!IsFiniteSet
<1>1. TI!Spec => []TI!RoutingInv
  BY <1>0, TI!RoutingInvariant, PTL
<1>2. TI!Spec => []TI!StampsInThePast
  BY <1>0, TI!StampedBeforeStored, PTL
<1>3. /\ T!Init <=> TI!Init
      /\ [T!Next]_(T!vars) <=> [TI!Next]_(TI!vars)
  BY SameRouting
<1> QED
  BY <1>1, <1>2, <1>3, ImplementsRouting, PTL DEF RefinesRouting, T!Spec, TI!Spec

\* A trade of the aggregation is that of one id.
LEMMA TradesOfIds ==
  ASSUME NEW e \in Trades
  PROVE  e.id \in Ids
  BY DEF Trades, TradeOf

\* A Silver row appended by the routing is one event trusted for Gold.
LEMMA AppendTrusts ==
  ASSUME TI!RoutingInv, TI!StampsInThePast,
         NEW w \in Workers, routeStage[w] = "storing",
         silver[current[w].id] = NoRow,
         silver' = [silver EXCEPT ![current[w].id] =
                      [body |-> current[w].body, validated |-> stamp[w]]],
         UNCHANGED <<clock, goldVars>>
  PROVE  G!Next
<1> DEFINE id == current[w].id
           body == current[w].body
           e == TradeOf(id, body)
           new == [body |-> body, validated |-> stamp[w]]
<1>1. /\ id \in Ids /\ body \in Bodies
      /\ stamp[w] \in 0..MaxClock /\ stamp[w] <= clock
      /\ silver \in [Ids -> TI!TrustedRow \cup {NoRow}]
  BY DEF TI!RoutingInv, TI!TypeOK, TI!HoldsBronzeRows, TI!StampsInThePast, TI!Event
<1>2. e \in Trades /\ e.id = id
  BY <1>1 DEF Trades, TradeOf
<1>3. new # NoRow
  BY <1>1, PipelineAssumption DEF T!RoutingAssumption
<1>4. ASSUME NEW x \in Trades
      PROVE  ValidatedAt'[x] = IF x = e THEN stamp[w] ELSE ValidatedAt[x]
  <2>1. x.id \in Ids
    BY TradesOfIds
  <2>2. CASE x.id = id
    <3>1. silver'[x.id] = new /\ silver[x.id] = NoRow
      BY <1>1, <2>2
    <3>2. TradeOf(x.id, silver'[x.id].body) = e
      BY <2>2, <3>1
    <3>3. ValidatedAt'[x] = IF e = x THEN stamp[w] ELSE NoRow
      BY <1>3, <3>1, <3>2 DEF ValidatedAt
    <3>4. ValidatedAt[x] = NoRow
      BY <3>1 DEF ValidatedAt
    <3> QED
      BY <3>3, <3>4
  <2>3. CASE x.id # id
    <3>1. silver'[x.id] = silver[x.id]
      BY <1>1, <2>1, <2>3
    <3> QED
      BY <1>2, <2>3, <3>1 DEF ValidatedAt
  <2> QED
    BY <2>2, <2>3
<1>5. ValidatedAt[e] = NoRow
  BY <1>2 DEF ValidatedAt
<1>6. ValidatedAt' = [ValidatedAt EXCEPT ![e] = stamp[w]]
  <2>1. /\ ValidatedAt = [x \in Trades |-> ValidatedAt[x]]
        /\ ValidatedAt' = [x \in Trades |-> ValidatedAt'[x]]
    BY DEF ValidatedAt
  <2> QED
    BY <1>2, <1>4, <2>1
<1>7. G!Trust(e, stamp[w])
  BY <1>1, <1>5, <1>6 DEF G!Trust, G!workerVars, goldVars
<1> QED
  BY <1>1, <1>2, <1>7 DEF G!Next

\* Whatever a run does in its trust stage, a trusted row appears or none.
LEMMA TrustingForGold ==
  ASSUME TI!RoutingInv, TI!StampsInThePast, NEW w \in Workers, Trusting(w)
  PROVE  [G!Next]_(G!vars)
<1>1. UNCHANGED <<clock, goldVars>>
  BY DEF Trusting, T!Validate, T!Store, T!Return, T!StoreCollides, T!StoreFails
<1>2. \/ UNCHANGED silver
      \/ routeStage[w] = "storing" /\ silver' = T!SilverAppended(w)
  BY DEF Trusting, T!Validate, T!Store, T!Return, T!StoreCollides, T!StoreFails,
         T!Routed, T!tableVars
<1>3. CASE UNCHANGED silver
  BY <1>1, <1>3 DEF ValidatedAt, G!vars, G!workerVars, goldVars
<1>4. CASE /\ routeStage[w] = "storing" /\ silver' = T!SilverAppended(w)
           /\ silver' # silver
  <2>1. /\ silver[current[w].id] = NoRow
        /\ silver' = [silver EXCEPT ![current[w].id] =
                        [body |-> current[w].body, validated |-> stamp[w]]]
    BY <1>4 DEF T!SilverAppended, T!TrustedRowOf
  <2> QED
    BY <1>1, <1>4, <2>1, AppendTrusts
<1> QED
  BY <1>2, <1>3, <1>4

\* The pipeline implements the specification of its Gold stage: the trust
\* stages of all workers are what the aggregation takes for its environment,
\* events that become trusted once, with a validated_at that has passed.
THEOREM ImplementsGold == Spec => RefinesGold
<1>1. Init => G!Init
  <2> SUFFICES ASSUME Init PROVE G!Init
    OBVIOUS
  <2>1. silver = [id \in Ids |-> NoRow] /\ clock = 0
    BY DEF Init, T!Init
  <2>2. ValidatedAt = [e \in Trades |-> NoRow]
    BY <2>1, TradesOfIds DEF ValidatedAt
  <2> QED
    BY <2>1, <2>2 DEF Init, G!Init
<1>2. ASSUME TI!RoutingInv, TI!StampsInThePast, [Next]_vars
      PROVE  [G!Next]_(G!vars)
  <2>1. UNCHANGED <<silver, clock, goldVars>> => UNCHANGED (G!vars)
    BY DEF ValidatedAt, G!vars, G!workerVars, goldVars
  <2>2. CASE \/ \E p \in Partitions, m \in B!Message : Publish(p, m)
             \/ \E p \in Partitions, w \in Workers : Assign(p, w)
    BY <2>1, <2>2 DEF Publish, Assign, routeVars
  <2>3. CASE Tick
    <3>1. UNCHANGED ValidatedAt
      BY <2>3 DEF Tick, ValidatedAt, routeVars
    <3>2. G!Tick
      BY <2>3, <3>1 DEF Tick, T!Tick, G!Tick, G!workerVars, goldVars
    <3> QED
      BY <3>2 DEF G!Next
  <2>4. ASSUME NEW w \in Workers,
               Begin(w) \/ Ingesting(w) \/ BeginTrust(w) \/ Close(w)
        PROVE  UNCHANGED (G!vars)
    BY <2>1, <2>4 DEF Begin, Ingesting, BeginTrust, Close, T!ReadPage, T!tableVars, routeVars
  <2>5. ASSUME NEW w \in Workers, Trusting(w)
        PROVE  [G!Next]_(G!vars)
    BY <1>2, <2>5, TrustingForGold
  <2>6. ASSUME NEW w \in Workers, BeginGold(w) \/ Aggregating(w)
        PROVE  [G!Next]_(G!vars)
    <3>1. CASE BeginGold(w)
      BY <2>1, <3>1 DEF BeginGold, G!Next, G!Step, routeVars
    <3>2. CASE Aggregating(w)
      BY <3>2 DEF Aggregating, G!Next, G!Step
    <3> QED
      BY <2>6, <3>1, <3>2
  <2>7. ASSUME NEW w \in Workers, Crash(w)
        PROVE  [G!Next]_(G!vars)
    <3>1. \/ G!Crash(w)
          \/ UNCHANGED <<silver, clock, goldVars>>
      BY <2>7 DEF Crash, T!Crash, T!tableVars, routeVars
    <3> QED
      BY <2>1, <3>1 DEF G!Next
  <2>8. CASE UNCHANGED vars
    BY <2>1, <2>8 DEF vars, routeVars
  <2> QED
    BY <1>2, <2>2, <2>3, <2>4, <2>5, <2>6, <2>7, <2>8 DEF Next, Step
<1> QED
  BY <1>1, <1>2, PipelineRoutes, PTL DEF Spec, RefinesGold, G!Spec

----------------------------------------------------------------------------
(* Across the stages.                                                      *)

GI == INSTANCE GoldProcessingProofs WITH
        Events <- Trades, silver <- ValidatedAt, Limit <- BatchSize, Unquantizable <- {},
        stage <- goldStage, failures <- goldFailures

\* The Gold stage of the pipeline and of its proofs is the same.
LEMMA SameGold ==
  /\ G!Init <=> GI!Init
  /\ [G!Next]_(G!vars) <=> [GI!Next]_(GI!vars)
<1> USE DEF G!workerVars, G!vars, GI!workerVars, GI!vars
<1>1. G!Init <=> GI!Init
  BY DEF G!Init, G!Windows, G!WindowOf, GI!Init, GI!Windows, GI!WindowOf
<1>2. [G!Next]_(G!vars) <=> [GI!Next]_(GI!vars)
  BY DEF G!WindowOf, G!Windows, G!WindowEnd, G!IsFinal, G!Trusted, G!ValidatedBefore,
         G!FirstPage, G!InWindow, G!TradedBefore, G!ScanOf, G!SortedBefore, G!IsNext, G!Trust, G!Tick,
         G!Discover, G!Recompute, G!ReadWindow, G!SkipEmpty, G!AggregateOf, G!Aggregate,
         G!Upserted, G!Upsert, G!Leave, G!Return, G!AggregateFails, G!UpsertFails, G!Crash, G!Step, G!Next,
         GI!WindowOf, GI!Windows, GI!WindowEnd, GI!IsFinal, GI!Trusted, GI!ValidatedBefore,
         GI!FirstPage, GI!InWindow, GI!TradedBefore, GI!ScanOf, GI!SortedBefore, GI!IsNext, GI!Trust, GI!Tick,
         GI!Discover, GI!Recompute, GI!ReadWindow, GI!SkipEmpty, GI!AggregateOf, GI!Aggregate,
         GI!Upserted, GI!Upsert, GI!Leave, GI!Return, GI!AggregateFails, GI!UpsertFails, GI!Crash, GI!Step, GI!Next,
         G!Cardinality, GI!Cardinality
<1> QED
  BY <1>1, <1>2

\* The pipeline keeps the inductive invariant of the aggregation, so Gold is
\* derived from Silver in it too.
LEMMA PipelineAggregates == Spec => []GI!GoldInv
<1>1. GI!GoldAssumption
  BY PipelineAssumption
  DEF G!GoldAssumption, G!IsFiniteSet, GI!GoldAssumption, GI!IsFiniteSet
<1>2. GI!Spec => []GI!GoldInv
  BY <1>1, GI!GoldInvariant, PTL
<1>3. /\ G!Init <=> GI!Init
      /\ [G!Next]_(G!vars) <=> [GI!Next]_(GI!vars)
  BY SameGold
<1> QED
  BY <1>2, <1>3, ImplementsGold, PTL DEF RefinesGold, G!Spec, GI!Spec

\* Provenance: in every run of any number of pipelines a trade counted in Gold
\* is the trusted event of its id, which every rule passed and Quarantine does
\* not know, which Bronze preserves, and which was published.
THEOREM Traceable == Spec => []GoldIsTraceable
<1>1. ASSUME BI!RowsAreMessages, TI!RoutingInv, GI!GoldInv
      PROVE  GoldIsTraceable
  <2> SUFFICES ASSUME NEW win \in G!Windows, gold[win] # NoRow,
                      NEW e \in gold[win].trades
               PROVE  /\ silver[e.id] # NoRow
                      /\ silver[e.id].body = bronze[e.id]
                      /\ TradeOf(e.id, bronze[e.id]) = e
                      /\ T!Valid(bronze[e.id])
                      /\ \A q \in quarantine : q.id # e.id
                      /\ \E p \in Partitions : \E o \in DOMAIN topic[p] :
                           topic[p][o] = [id |-> e.id, body |-> bronze[e.id]]
    BY DEF GoldIsTraceable
  <2>1. e \in Trades /\ ValidatedAt[e] # NoRow
    <3>1. win \in GI!Windows
      BY DEF G!Windows, G!WindowOf, GI!Windows, GI!WindowOf
    <3>2. e \in GI!InWindow(win)
      BY <1>1, <3>1 DEF GI!GoldInv, GI!GoldFromSilver
    <3> QED
      BY <3>2 DEF GI!InWindow, GI!Trusted
  <2>2. e.id \in Ids
    BY <2>1, TradesOfIds
  <2>3. silver[e.id] # NoRow /\ TradeOf(e.id, silver[e.id].body) = e
    BY <2>1 DEF ValidatedAt
  <2>4. /\ silver[e.id].body = bronze[e.id]
        /\ \A r \in Rules : bronze[e.id].findings[r] = "pass"
        /\ \A q \in quarantine :
             q.failures = {r \in Rules : bronze[q.id].findings[r] # "pass"} /\ q.failures # {}
    BY <1>1, <2>2, <2>3 DEF TI!RoutingInv, TI!VerdictsMatchBronze
  <2>5. bronze[e.id] # NoRow
    <3>1. silver[e.id] \in TI!TrustedRow
      BY <1>1, <2>2, <2>3 DEF TI!RoutingInv, TI!TypeOK
    <3>2. silver[e.id].body \in Bodies
      BY <3>1 DEF TI!TrustedRow
    <3> QED
      BY <2>4, <3>2, PipelineAssumption DEF T!RoutingAssumption
  <2>6. \E p \in Partitions : \E o \in DOMAIN topic[p] :
          topic[p][o] = [id |-> e.id, body |-> bronze[e.id]]
    BY <1>1, <2>2, <2>5 DEF BI!RowsAreMessages
  <2> QED
    BY <2>3, <2>4, <2>6 DEF T!Valid, T!RuleFailures
<1> QED
  BY <1>1, PipelineIngests, PipelineRoutes, PipelineAggregates, PTL

----------------------------------------------------------------------------
(* The pipeline implements the ledger of its events. Each step of a run is *)
(* at most one entry of the ledger, because a verdict is about the row     *)
(* Bronze holds (TI!RoutingInv) and a recomputed candle about rows of       *)
(* Silver (GI!GoldInv).                                                    *)

\* What the ledger is about.
ledgerTables == <<topic, bronze, silver, quarantine, gold>>

\* Without a change of the tables the ledger stands still.
LEMMA LedgerRests == UNCHANGED ledgerTables => UNCHANGED (L!ledgerVars)
  BY DEF ledgerTables, L!ledgerVars, Published, Verdict, Counted

\* A readable message published is an entry; any other is none.
LEMMA PublishIsEntered ==
  ASSUME BI!TypeOK, NEW p \in Partitions, NEW m \in B!Message, Publish(p, m)
  PROVE  [L!Next]_(L!ledgerVars)
<1>1. /\ topic' = [topic EXCEPT ![p] = Append(@, m)]
      /\ UNCHANGED <<bronze, silver, quarantine, gold>>
  BY DEF Publish, B!Publish, routeVars, goldVars
<1>2. topic \in [Partitions -> Seq(B!Message)]
  BY DEF BI!TypeOK, BI!Message, BI!Event, B!Message, B!Event
<1>3. ASSUME NEW x \in B!Event
      PROVE  x \in Published' <=> x \in Published \/ x = m
  <2>1. ASSUME NEW q \in Partitions
        PROVE  (\E o \in DOMAIN topic'[q] : topic'[q][o] = x)
                 <=> (\E o \in DOMAIN topic[q] : topic[q][o] = x) \/ (q = p /\ x = m)
    <3>1. CASE q # p
      BY <1>1, <1>2, <3>1
    <3>2. CASE q = p
      <4> DEFINE s == topic[p]
      <4>1. topic'[q] = Append(s, m) /\ s \in Seq(B!Message)
        BY <1>1, <1>2, <3>2
      <4>2. /\ DOMAIN Append(s, m) = DOMAIN s \cup {Len(s) + 1}
            /\ \A o \in DOMAIN s : Append(s, m)[o] = s[o]
            /\ Append(s, m)[Len(s) + 1] = m
        BY <4>1
      <4> QED
        BY <3>2, <4>1, <4>2
    <3> QED
      BY <3>1, <3>2
  <2> QED
    BY <2>1 DEF Published
<1>4. UNCHANGED <<bronze, Verdict, Counted>>
  BY <1>1 DEF Verdict, Counted
<1>5. CASE m \in B!Event
  <2>1. Published' = Published \cup {m}
    BY <1>3, <1>5 DEF Published
  <2> QED
    BY <1>4, <1>5, <2>1 DEF L!Publish, L!Next, L!Event, B!Event
<1>6. CASE m \notin B!Event
  <2>1. Published' = Published
    BY <1>3, <1>6 DEF Published
  <2> QED
    BY <1>4, <2>1 DEF L!ledgerVars
<1> QED
  BY <1>5, <1>6

\* The append of a version the topic holds preserves it, or finds another.
LEMMA AppendIsEntered ==
  ASSUME BI!IInv, NEW w \in Workers, ingestStage[w] = "appending",
         bronze' = B!Inserted(B!Held(w)), UNCHANGED <<topic, silver, quarantine, gold>>
  PROVE  [L!Next]_(L!ledgerVars)
<1> DEFINE e == B!Held(w)
<1>1. e \in B!Event /\ e \in Published
  <2>1. BI!TypeOK /\ BI!OffsetsInTopic
    BY DEF BI!IInv
  <2>2. /\ consumed[w][1] \in Partitions
        /\ consumed[w][2] \in 1..Len(topic[consumed[w][1]])
        /\ BI!Held(w) \in BI!Event
        /\ BI!Held(w) = topic[consumed[w][1]][consumed[w][2]]
    BY <2>1, BI!HeldIsEvent, PipelineAssumption
  <2>3. topic[consumed[w][1]] \in Seq(BI!Message)
    BY <2>1, <2>2 DEF BI!TypeOK
  <2> QED
    BY <2>2, <2>3 DEF Published, B!Held, BI!Event, B!Event
<1>2. UNCHANGED <<Published, Verdict, Counted>>
  BY DEF Published, Verdict, Counted
<1>3. CASE bronze[e.id] = NoRow
  BY <1>1, <1>2, <1>3 DEF B!Inserted, L!Preserve, L!Next, L!Event, B!Event
<1>4. CASE bronze[e.id] # NoRow
  BY <1>2, <1>4 DEF B!Inserted, L!ledgerVars
<1> QED
  BY <1>3, <1>4

\* The routing of an event judges it, or repeats the verdict it has.
LEMMA RoutedIsEntered ==
  ASSUME TI!RoutingInv, NEW w \in Workers, routeStage[w] = "storing", T!Routed(w),
         UNCHANGED <<topic, bronze, gold>>
  PROVE  [L!Next]_(L!ledgerVars)
<1> DEFINE id == current[w].id
           body == current[w].body
<1>1. /\ id \in Ids /\ body \in Bodies
      /\ bronze[id] = body /\ body # NoRow
      /\ silver \in [Ids -> TI!TrustedRow \cup {NoRow}]
  BY PipelineAssumption
  DEF TI!RoutingInv, TI!TypeOK, TI!HoldsBronzeRows, TI!Event, T!RoutingAssumption
<1>2. UNCHANGED <<Published, bronze, Counted>>
  BY DEF Published, Counted
<1>3. Verdict = [i \in Ids |-> Verdict[i]] /\ Verdict' = [i \in Ids |-> Verdict'[i]]
  BY DEF Verdict
<1>4. CASE T!Valid(body)
  <2>1. silver' = T!SilverAppended(w) /\ quarantine' = quarantine
    BY <1>4 DEF T!Routed
  <2>2. CASE silver[id] # NoRow
    <3>1. UNCHANGED Verdict
      BY <2>1, <2>2 DEF T!SilverAppended, Verdict
    <3> QED
      BY <1>2, <3>1 DEF L!ledgerVars
  <2>3. CASE silver[id] = NoRow
    <3>1. \A q \in quarantine : q.id # id
      BY <1>1, <1>4 DEF TI!RoutingInv, TI!VerdictsMatchBronze, T!Valid, T!RuleFailures
    <3>2. Verdict[id] = "none"
      BY <1>1, <2>3, <3>1 DEF Verdict
    <3>3. silver' = [silver EXCEPT ![id] = T!TrustedRowOf(w)]
      BY <2>1, <2>3 DEF T!SilverAppended
    <3>4. T!TrustedRowOf(w) # NoRow
      BY <1>1, PipelineAssumption
      DEF T!TrustedRowOf, T!RoutingAssumption, TI!RoutingInv, TI!TypeOK
    <3>5. Verdict' = [Verdict EXCEPT ![id] = "trusted"]
      <4>1. \A i \in Ids : Verdict'[i] = IF i = id THEN "trusted" ELSE Verdict[i]
        BY <1>1, <2>1, <3>3, <3>4 DEF Verdict
      <4> QED
        BY <1>1, <1>3, <4>1
    <3>6. L!Judge(id)
      BY <1>1, <1>2, <1>4, <3>2, <3>5 DEF L!Judge
    <3> QED
      BY <1>1, <3>6 DEF L!Next
  <2> QED
    BY <2>2, <2>3
<1>5. CASE ~T!Valid(body)
  <2>1. silver' = silver /\ quarantine' = quarantine \cup {T!RecordOf(w)}
    BY <1>5 DEF T!Routed
  <2>2. T!RecordOf(w).id = id
    BY DEF T!RecordOf
  <2>3. silver[id] = NoRow
    BY <1>1, <1>5 DEF TI!RoutingInv, TI!VerdictsMatchBronze, T!Valid, T!RuleFailures
  <2>4. \A i \in Ids : Verdict'[i] = IF i = id THEN "rejected" ELSE Verdict[i]
    BY <1>1, <2>1, <2>2, <2>3 DEF Verdict
  <2>5. Verdict' = [Verdict EXCEPT ![id] = "rejected"]
    BY <1>1, <1>3, <2>4
  <2>6. CASE Verdict[id] = "none"
    <3>1. L!Judge(id)
      BY <1>1, <1>2, <1>5, <2>5, <2>6 DEF L!Judge
    <3> QED
      BY <1>1, <3>1 DEF L!Next
  <2>7. CASE Verdict[id] # "none"
    <3>1. Verdict[id] = "rejected"
      BY <1>1, <2>3, <2>7 DEF Verdict
    <3>2. UNCHANGED Verdict
      BY <1>1, <1>3, <2>4, <3>1
    <3> QED
      BY <1>2, <3>2 DEF L!ledgerVars
  <2> QED
    BY <2>6, <2>7
<1> QED
  BY <1>4, <1>5

\* A trade that Silver holds is a trusted event of its candle.
LEMMA TrustedTrade ==
  ASSUME TI!RoutingInv, NEW e \in Trades, ValidatedAt[e] # NoRow
  PROVE  e.id \in L!TrustedIn(G!WindowOf(e))
<1>1. /\ e.id \in Ids
      /\ silver[e.id] # NoRow
      /\ e = TradeOf(e.id, silver[e.id].body)
  BY TradesOfIds DEF ValidatedAt
<1>2. silver[e.id].body = bronze[e.id] /\ bronze[e.id] \in Bodies
  <2>1. silver[e.id] \in TI!TrustedRow
    BY <1>1 DEF TI!RoutingInv, TI!TypeOK
  <2> QED
    BY <1>1, <2>1 DEF TI!RoutingInv, TI!VerdictsMatchBronze, TI!TrustedRow
<1>3. G!WindowOf(bronze[e.id]) = G!WindowOf(e)
  <2>1. e.symbol = bronze[e.id].symbol /\ e.traded = bronze[e.id].traded
    BY <1>1, <1>2 DEF TradeOf
  <2> QED
    BY <2>1 DEF G!WindowOf
<1>4. Verdict[e.id] = "trusted"
  BY <1>1 DEF Verdict
<1> QED
  BY <1>1, <1>2, <1>3, <1>4 DEF L!TrustedIn

\* The upsert of a window replaces the entries of its candle.
LEMMA UpsertIsEntered ==
  ASSUME TI!RoutingInv, GI!GoldInv,
         NEW w \in Workers, goldStage[w] = "upserting", G!Upserted(w),
         UNCHANGED <<topic, bronze, silver, quarantine>>
  PROVE  [L!Next]_(L!ledgerVars)
<1>1. PICK win \in window[w] : gold' = [gold EXCEPT ![win] = row[w]]
  BY DEF G!Upserted
<1>2. /\ win \in G!Windows /\ win \in GI!Windows
      /\ gold \in [G!Windows -> GI!MarketWindow \cup {NoRow}]
      /\ row[w] # NoRow /\ row[w].trades # {}
  BY DEF GI!GoldInv, GI!TypeOK, GI!WorkFromSilver, G!Windows, G!WindowOf, GI!Windows, GI!WindowOf
<1>3. UNCHANGED <<Published, bronze, Verdict>>
  BY DEF Published, Verdict
<1>4. ASSUME NEW e \in row[w].trades
      PROVE  e.id \in L!TrustedIn(win)
  <2>1. e \in Trades /\ ValidatedAt[e] # NoRow /\ GI!WindowOf(e) = win
    BY <1>1, <1>2 DEF GI!GoldInv, GI!WorkFromSilver, GI!InWindow, GI!Trusted
  <2>2. G!WindowOf(e) = win
    BY <2>1 DEF G!WindowOf, GI!WindowOf
  <2> QED
    BY <2>1, <2>2, TrustedTrade
<1> DEFINE some == {e.id : e \in row[w].trades}
           new == {[id |-> i, candle |-> win] : i \in some}
<1>5. some \in SUBSET L!TrustedIn(win) /\ some # {}
  BY <1>2, <1>4
<1>6. Counted' = {x \in Counted : x.candle # win} \cup new
  <2>1. ASSUME NEW x
        PROVE  x \in Counted' <=> (x \in Counted /\ x.candle # win) \/ x \in new
    BY <1>1, <1>2 DEF Counted
  <2> QED
    BY <2>1
<1>7. L!Recount(win)
  BY <1>3, <1>5, <1>6 DEF L!Recount
<1>8. PICK body \in Bodies : win = G!WindowOf(body)
  BY <1>2 DEF G!Windows, G!WindowOf, Trades, TradeOf
<1> QED
  BY <1>7, <1>8 DEF L!Next

\* A step of ingestion preserves one event, or none.
LEMMA IngestingIsEntered ==
  ASSUME BI!IInv, NEW w \in Workers, Ingesting(w)
  PROVE  [L!Next]_(L!ledgerVars)
<1>1. UNCHANGED <<topic, silver, quarantine, gold>>
  BY DEF Ingesting, routeVars, goldVars, B!Ingest, B!Deliver, B!SkipUnreadable,
         B!AppendOk, B!AppendFail, B!AppendRefused, B!AckOk, B!AckFail, B!brokerVars
<1>2. \/ UNCHANGED bronze
      \/ ingestStage[w] = "appending" /\ bronze' = B!Inserted(B!Held(w))
  BY DEF Ingesting, B!Ingest, B!Deliver, B!SkipUnreadable, B!AppendOk, B!AppendFail,
         B!AppendRefused, B!AckOk, B!AckFail
<1>3. CASE UNCHANGED bronze
  BY <1>1, <1>3, LedgerRests DEF ledgerTables
<1> QED
  BY <1>1, <1>2, <1>3, AppendIsEntered

\* A step of the trust stage judges one event, or none.
LEMMA TrustingIsEntered ==
  ASSUME TI!RoutingInv, NEW w \in Workers, Trusting(w)
  PROVE  [L!Next]_(L!ledgerVars)
<1>1. UNCHANGED <<topic, bronze, gold>>
  BY DEF Trusting, ingestVars, brokerVars, goldVars, T!Validate, T!Store, T!Return,
         T!StoreCollides, T!StoreFails, T!tableVars
<1>2. \/ UNCHANGED <<silver, quarantine>>
      \/ routeStage[w] = "storing" /\ T!Routed(w)
  BY DEF Trusting, T!Validate, T!Store, T!Return, T!StoreCollides, T!StoreFails, T!tableVars
<1>3. CASE UNCHANGED <<silver, quarantine>>
  BY <1>1, <1>3, LedgerRests DEF ledgerTables
<1> QED
  BY <1>1, <1>2, <1>3, RoutedIsEntered

\* A step of the Gold stage replaces one candle, or none.
LEMMA AggregatingIsEntered ==
  ASSUME TI!RoutingInv, GI!GoldInv, NEW w \in Workers, Aggregating(w)
  PROVE  [L!Next]_(L!ledgerVars)
<1>1. UNCHANGED <<topic, bronze, silver, quarantine>>
  BY DEF Aggregating, ingestVars, brokerVars, routeVars
<1>2. \/ UNCHANGED gold
      \/ goldStage[w] = "upserting" /\ G!Upserted(w)
  BY DEF Aggregating, G!ReadWindow, G!SkipEmpty, G!Aggregate, G!Upsert, G!Return, G!UpsertFails
<1>3. CASE UNCHANGED gold
  BY <1>1, <1>3, LedgerRests DEF ledgerTables
<1> QED
  BY <1>1, <1>2, <1>3, UpsertIsEntered

\* End to end: over all runs of any number of workers, with their crashes and
\* failures, every event is preserved once, judged once and on what Bronze
\* preserves, and counted only in its candle and only when trusted.
THEOREM ImplementsLedger == Spec => RefinesLedger
<1>1. Init => L!Init
  BY DEF Init, B!Init, T!Init, L!Init, Published, Verdict, Counted
<1>2. ASSUME BI!IInv, TI!RoutingInv, GI!GoldInv, [Next]_vars
      PROVE  [L!Next]_(L!ledgerVars)
  <2>1. ASSUME NEW p \in Partitions, NEW m \in B!Message, Publish(p, m)
        PROVE  [L!Next]_(L!ledgerVars)
    BY <1>2, <2>1, PublishIsEntered DEF BI!IInv
  <2>2. CASE \/ \E p \in Partitions, w \in Workers : Assign(p, w)
             \/ Tick
             \/ \E w \in Workers : Begin(w) \/ BeginTrust(w) \/ BeginGold(w) \/ Close(w)
             \/ \E w \in Workers : Crash(w)
             \/ UNCHANGED vars
    <3>1. UNCHANGED ledgerTables
      BY <2>2
      DEF ledgerTables, vars, ingestVars, brokerVars, routeVars, goldVars,
          Assign, Tick, Begin, BeginTrust, BeginGold, Close, Crash,
          B!Assign, B!Start, B!Close, B!Crash, B!brokerVars,
          T!Tick, T!ReadPage, T!Crash, T!tableVars, G!Discover, G!Crash
    <3> QED
      BY <3>1, LedgerRests
  <2>3. ASSUME NEW w \in Workers, Ingesting(w) \/ Trusting(w) \/ Aggregating(w)
        PROVE  [L!Next]_(L!ledgerVars)
    BY <1>2, <2>3, IngestingIsEntered, TrustingIsEntered, AggregatingIsEntered
  <2> QED
    BY <1>2, <2>1, <2>2, <2>3 DEF Next, Step
<1> QED
  BY <1>1, <1>2, PipelineIngests, PipelineRoutes, PipelineAggregates, PTL DEF Spec, RefinesLedger, L!Spec

----------------------------------------------------------------------------
(* Types.                                                                  *)

PhaseOK == phase \in [Workers -> {"off", "ingest", "trust", "gold", "close"}]

\* Every step of a run leads to another of its stages.
LEMMA PhaseStep == PhaseOK /\ [Next]_vars => PhaseOK'
  BY DEF PhaseOK, Next, Step, Publish, Assign, Tick, Begin, Ingesting, BeginTrust, Trusting,
         BeginGold, Aggregating, Close, Crash, GoTo, vars

\* The broker, the tables and all three stages of every run keep their types.
THEOREM TypeCorrect == Spec => []TypeOK
<1>1. Init => PhaseOK
  BY DEF Init, PhaseOK
<1>2. BI!IInv => B!TypeOK
  BY DEF BI!IInv, BI!TypeOK, BI!Message, BI!Event, BI!Stages, BI!Place,
         B!TypeOK, B!Message, B!Event, B!Stages, B!Place
<1>3. TI!RoutingInv => T!TypeOK
  BY DEF TI!RoutingInv, TI!TypeOK, TI!Event, TI!TrustedRow, TI!QuarantineRecord,
         T!TypeOK, T!Event, T!TrustedRow, T!QuarantineRecord
<1>4. GI!GoldInv => G!TypeOK
  BY DEF GI!GoldInv, GI!TypeOK, GI!Windows, GI!WindowOf, GI!MarketWindow,
         G!TypeOK, G!Windows, G!WindowOf, G!MarketWindow
<1>5. B!TypeOK /\ T!TypeOK /\ G!TypeOK /\ PhaseOK => TypeOK
  BY DEF TypeOK, PhaseOK
<1> QED
  BY <1>1, <1>2, <1>3, <1>4, <1>5, PhaseStep, PipelineIngests, PipelineRoutes, PipelineAggregates, PTL
  DEF Spec

----------------------------------------------------------------------------
(* One stage after the other.                                              *)

\* The order of run_once() and of the finally around it: a run routes only
\* when its ingest() returned and aggregates only when its routing did, and a
\* run that ended, however it ended, holds no partition and no work.
StagesInTurn ==
  \A w \in Workers :
    /\ phase[w] = "off" => ingestStage[w] = "down" /\ \A p \in Partitions : owner[p] # w
    /\ phase[w] = "ingest" => ingestStage[w] # "down"
    /\ phase[w] \in {"trust", "gold", "close"} => ingestStage[w] = "returned"
    /\ routeStage[w] # "idle" <=> phase[w] = "trust"
    /\ goldStage[w] # "idle" => phase[w] = "gold"

StagesOK ==
  /\ PhaseOK
  /\ ingestStage \in [Workers -> BI!Stages]
  /\ owner \in [Partitions -> Workers \cup {NoWorker}]
  /\ routeStage \in [Workers -> {"idle", "routing", "storing"}]
  /\ goldStage \in [Workers -> {"idle", "looping", "aggregating", "upserting"}]

\* No step of a run leaves its stage open, the step of another one neither.
LEMMA TurnStep == StagesOK /\ StagesInTurn /\ [Next]_vars => StagesInTurn'
<1> SUFFICES ASSUME StagesOK, StagesInTurn, [Next]_vars PROVE StagesInTurn'
  OBVIOUS
<1> USE DEF StagesOK, StagesInTurn, PhaseOK, BI!Stages
<1>1. ASSUME UNCHANGED <<phase, ingestStage, owner, routeStage, goldStage>>
      PROVE  StagesInTurn'
  BY <1>1
<1>2. ASSUME NEW p \in Partitions, NEW m \in B!Message, Publish(p, m)
      PROVE  StagesInTurn'
  BY <1>1, <1>2 DEF Publish, B!Publish, B!workerVars, routeVars, goldVars
<1>3. ASSUME NEW p \in Partitions, NEW w \in Workers, Assign(p, w)
      PROVE  StagesInTurn'
  BY <1>3 DEF Assign, B!Assign, B!workerVars, routeVars, goldVars
<1>4. CASE Tick
  BY <1>1, <1>4 DEF Tick, ingestVars, brokerVars, routeVars, goldVars
<1>5. ASSUME NEW w \in Workers, Begin(w)
      PROVE  StagesInTurn'
  BY <1>5 DEF Begin, B!Start, B!brokerVars, GoTo, routeVars, goldVars
<1>6. ASSUME NEW w \in Workers, Ingesting(w)
      PROVE  StagesInTurn'
  <2>1. phase[w] = "ingest" /\ UNCHANGED <<phase, owner, routeStage, goldStage>>
    BY <1>6 DEF Ingesting, B!Ingest, B!Deliver, B!SkipUnreadable, B!AppendOk, B!AppendFail,
       B!AppendRefused, B!AckOk, B!AckFail, B!brokerVars, routeVars, goldVars
  <2>2. \E next \in BI!Stages \ {"down"} : ingestStage' = [ingestStage EXCEPT ![w] = next]
    BY <1>6 DEF Ingesting, B!Ingest, B!Deliver, B!SkipUnreadable, B!AppendOk, B!AppendFail,
       B!AppendRefused, B!AckOk, B!AckFail, B!workerVars
  <2> QED
    BY <2>1, <2>2
<1>7. ASSUME NEW w \in Workers, BeginTrust(w)
      PROVE  StagesInTurn'
  BY <1>7 DEF BeginTrust, T!ReadPage, GoTo, ingestVars, brokerVars, goldVars, routeVars
<1>8. ASSUME NEW w \in Workers, Trusting(w)
      PROVE  StagesInTurn'
  BY <1>8 DEF Trusting, T!Validate, T!Store, T!Return, T!StoreCollides, T!StoreFails, T!Leave,
     GoTo, ingestVars, brokerVars, goldVars
<1>9. ASSUME NEW w \in Workers, BeginGold(w) \/ Aggregating(w)
      PROVE  StagesInTurn'
  BY <1>9 DEF BeginGold, Aggregating, G!Discover, G!ReadWindow, G!SkipEmpty, G!Aggregate,
     G!Upsert, G!Return, G!UpsertFails, G!Leave, GoTo, ingestVars, brokerVars, routeVars, goldVars
<1>10. ASSUME NEW w \in Workers, Close(w)
       PROVE  StagesInTurn'
  BY <1>10, PipelineAssumption
  DEF Close, B!Close, B!Released, B!IngestionAssumption, GoTo, routeVars, goldVars
<1>11. ASSUME NEW w \in Workers, Crash(w)
       PROVE  StagesInTurn'
  BY <1>11, PipelineAssumption
  DEF Crash, B!Crash, B!Close, B!Released, B!IngestionAssumption, T!Crash, T!Leave, G!Crash,
      G!Leave, GoTo, routeVars, goldVars
<1> QED
  BY <1>1, <1>2, <1>3, <1>4, <1>5, <1>6, <1>7, <1>8, <1>9, <1>10, <1>11
  DEF Next, Step, vars, ingestVars, brokerVars, routeVars, goldVars

\* In every behaviour the stages of a run take their turns.
THEOREM OneStageAtATime == Spec => []StagesInTurn
<1>1. Init => StagesInTurn
  BY PipelineAssumption DEF Init, B!Init, T!Init, StagesInTurn, B!IngestionAssumption
<1>2. BI!IInv /\ TI!RoutingInv /\ GI!GoldInv /\ PhaseOK => StagesOK
  BY DEF StagesOK, BI!IInv, BI!TypeOK, TI!RoutingInv, TI!TypeOK, GI!GoldInv, GI!TypeOK
<1>3. Init => PhaseOK
  BY DEF Init, PhaseOK
<1> QED
  BY <1>1, <1>2, <1>3, PhaseStep, TurnStep, PipelineIngests, PipelineRoutes, PipelineAggregates, PTL
  DEF Spec

----------------------------------------------------------------------------
(* What is beyond the page of a stage.                                     *)

\* The later stages run "because Bronze/Silver may already hold unprocessed
\* data from an earlier run" (pipeline.py:30-32), as far as the page goes: a
\* row of Bronze beyond it, without a verdict and in nobody's hands, stays so
\* in every step of every run.
NoRunReaches == [][TI!LeftBehind \subseteq TI!LeftBehind']_vars

\* The pipeline calls process_batch() only, and its page is the first one.
LEMMA NoCallerInARun ==
  ASSUME BI!IInv, TI!RoutingInv, StagesOK, [Next]_vars,
         NEW e \in TI!LeftBehind, NEW w \in Workers
  PROVE  ~TI!ProcessEvent(w, e)
<1> SUFFICES ASSUME TI!ProcessEvent(w, e) PROVE FALSE
  OBVIOUS
<1>1. /\ routeStage[w] = "idle"
      /\ routeStage'[w] = "routing"
      /\ page'[w] = {e}
  BY DEF TI!ProcessEvent, StagesOK, TI!RoutingInv, TI!TypeOK
<1>2. e \notin T!FirstPage
  BY DEF TI!LeftBehind, TI!FirstPage, TI!BronzeEvents, TI!Stored, TI!Precedes, TI!Cardinality,
     T!FirstPage, T!BronzeEvents, T!Stored, T!Precedes, T!Cardinality
<1>3. ASSUME NEW v \in Workers, BeginTrust(v)
      PROVE  page' = page \/ page' = [page EXCEPT ![v] = T!FirstPage]
  BY <1>3 DEF BeginTrust, T!ReadPage, routeVars
<1>4. ASSUME NEW v \in Workers, Trusting(v)
      PROVE  routeStage[v] # "idle" /\ \E next \in {"idle", "routing", "storing"} :
               routeStage' = [routeStage EXCEPT ![v] = next]
  BY <1>4 DEF Trusting, T!Validate, T!Store, T!Return, T!StoreCollides, T!StoreFails, T!Leave
<1>5. ASSUME NEW v \in Workers, Crash(v)
      PROVE  routeStage' = routeStage \/ routeStage' = [routeStage EXCEPT ![v] = "idle"]
  BY <1>5 DEF Crash, T!Crash, T!Leave, routeVars
<1>6. \/ routeStage' = routeStage
      \/ \E v \in Workers : BeginTrust(v) \/ Trusting(v) \/ Crash(v)
  BY DEF Next, Step, Publish, Assign, Tick, Begin, Ingesting, BeginGold, Aggregating, Close,
     vars, routeVars
<1>7. PICK v \in Workers : BeginTrust(v) \/ Trusting(v) \/ Crash(v)
  BY <1>1, <1>6
<1>8. CASE BeginTrust(v)
  <2>1. page'[w] = page[w] \/ page'[w] = T!FirstPage
    BY <1>3, <1>8 DEF TI!RoutingInv, TI!TypeOK
  <2>2. e \notin page[w]
    BY DEF TI!LeftBehind, TI!InHands
  <2> QED
    BY <1>1, <1>2, <2>1, <2>2
<1>9. CASE Trusting(v) \/ Crash(v)
  BY <1>1, <1>4, <1>5, <1>9 DEF StagesOK
<1> QED
  BY <1>7, <1>8, <1>9

\* In every behaviour of any number of runs, for every batch size.
THEOREM LeftUnroutedForGood == Spec => NoRunReaches
<1>0. TI!RoutingAssumption
  BY PipelineAssumption
  DEF T!RoutingAssumption, T!Findings, T!IsFiniteSet,
      TI!RoutingAssumption, TI!Findings, TI!IsFiniteSet
<1>1. TI!Spec => TI!OnlyCallersReach
  BY <1>0, TI!LeftBehindForGood, PTL
<1>2. /\ T!Init <=> TI!Init
      /\ [T!Next]_(T!vars) <=> [TI!Next]_(TI!vars)
  BY SameRouting
<1>3. BI!IInv /\ TI!RoutingInv /\ GI!GoldInv /\ PhaseOK => StagesOK
  BY DEF StagesOK, BI!IInv, BI!TypeOK, TI!RoutingInv, TI!TypeOK, GI!GoldInv, GI!TypeOK
<1>4. Init => PhaseOK
  BY DEF Init, PhaseOK
<1>5. ASSUME BI!IInv, TI!RoutingInv, StagesOK, [Next]_vars,
             [\A e \in TI!LeftBehind :
                e \in TI!LeftBehind' \/ \E w \in Workers : TI!ProcessEvent(w, e)]_(TI!vars)
      PROVE  [TI!LeftBehind \subseteq TI!LeftBehind']_vars
  <2>1. CASE UNCHANGED (TI!vars)
    BY <2>1 DEF TI!vars, TI!tableVars, TI!workerVars, TI!LeftBehind, TI!InHands, TI!IsRouted,
       TI!FirstPage, TI!BronzeEvents, TI!Stored, TI!Precedes
  <2> QED
    BY <1>5, <2>1, NoCallerInARun
<1> QED
  BY <1>1, <1>2, <1>3, <1>4, <1>5, PhaseStep, PipelineIngests, PipelineRoutes, PipelineAggregates,
     ImplementsRouting, PTL
  DEF Spec, RefinesRouting, T!Spec, TI!Spec, TI!OnlyCallersReach, NoRunReaches

\* A window of which the page of Silver shows no trade keeps the row it has,
\* or none, until a trade of it is appended that an earlier validated_at puts
\* on the page.
OnlyEarlyTradesCount ==
  [][\A win \in GI!LeftBehind :
       \/ win \in GI!LeftBehind' /\ gold'[win] = gold[win]
       \/ \E e \in Trades, validated \in 0..MaxClock :
            GI!Trust(e, validated) /\ GI!WindowOf(e) = win /\ e \in GI!FirstPage']_vars

\* The pipeline never calls recompute_window() for a window of its own choice.
LEMMA NoRecomputeInARun ==
  ASSUME GI!GoldInv, StagesOK, [Next]_vars, NEW win \in GI!LeftBehind, NEW w \in Workers
  PROVE  ~GI!Recompute(w, win)
<1> SUFFICES ASSUME GI!Recompute(w, win) PROVE FALSE
  OBVIOUS
<1>1. /\ goldStage[w] = "idle"
      /\ goldStage'[w] = "looping"
      /\ candidates'[w] = {win}
  BY DEF GI!Recompute, StagesOK, GI!GoldInv, GI!TypeOK
<1>2. win \notin {G!WindowOf(e) : e \in G!FirstPage}
  <2>1. ASSUME NEW e \in G!FirstPage, win = G!WindowOf(e)
        PROVE  FALSE
    <3>1. e \in GI!FirstPage
      BY DEF GI!FirstPage, GI!Trusted, GI!ValidatedBefore, GI!Cardinality,
         G!FirstPage, G!Trusted, G!ValidatedBefore, G!Cardinality
    <3>2. e \in GI!InWindow(win)
      BY <2>1, <3>1 DEF GI!InWindow, GI!FirstPage, GI!WindowOf, G!WindowOf
    <3> QED
      BY <3>1, <3>2 DEF GI!LeftBehind
  <2> QED
    BY <2>1
<1>3. ASSUME NEW v \in Workers, BeginGold(v)
      PROVE  candidates' = candidates \/
             candidates' = [candidates EXCEPT ![v] = {G!WindowOf(e) : e \in G!FirstPage}]
  BY <1>3 DEF BeginGold, G!Discover, goldVars
<1>4. ASSUME NEW v \in Workers, Aggregating(v)
      PROVE  goldStage[v] # "idle" /\ \E next \in {"idle", "looping", "aggregating", "upserting"} :
               goldStage' = [goldStage EXCEPT ![v] = next]
  BY <1>4 DEF Aggregating, G!ReadWindow, G!SkipEmpty, G!Aggregate, G!Upsert, G!Return,
     G!UpsertFails, G!Leave
<1>5. ASSUME NEW v \in Workers, Crash(v)
      PROVE  goldStage' = goldStage \/ goldStage' = [goldStage EXCEPT ![v] = "idle"]
  BY <1>5 DEF Crash, G!Crash, G!Leave, goldVars
<1>6. \/ goldStage' = goldStage
      \/ \E v \in Workers : BeginGold(v) \/ Aggregating(v) \/ Crash(v)
  BY DEF Next, Step, Publish, Assign, Tick, Begin, Ingesting, BeginTrust, Trusting, Close,
     vars, goldVars
<1>7. PICK v \in Workers : BeginGold(v) \/ Aggregating(v) \/ Crash(v)
  BY <1>1, <1>6
<1>8. CASE BeginGold(v)
  <2>1. candidates'[w] = candidates[w] \/ candidates'[w] = {G!WindowOf(e) : e \in G!FirstPage}
    BY <1>3, <1>8 DEF GI!GoldInv, GI!TypeOK
  <2>2. win \notin candidates[w]
    BY DEF GI!LeftBehind
  <2> QED
    BY <1>1, <1>2, <2>1, <2>2
<1>9. CASE Aggregating(v) \/ Crash(v)
  BY <1>1, <1>4, <1>5, <1>9 DEF StagesOK
<1> QED
  BY <1>7, <1>8, <1>9

\* In every behaviour of any number of runs, for every batch size.
THEOREM LeftUncountedForGood == Spec => OnlyEarlyTradesCount
<1>0. GI!GoldAssumption
  BY PipelineAssumption
  DEF G!GoldAssumption, G!IsFiniteSet, GI!GoldAssumption, GI!IsFiniteSet
<1>1. GI!Spec => GI!OnlyEarlyTradesReach
  BY <1>0, GI!LeftBehindForGood, PTL
<1>2. /\ G!Init <=> GI!Init
      /\ [G!Next]_(G!vars) <=> [GI!Next]_(GI!vars)
  BY SameGold
<1>3. BI!IInv /\ TI!RoutingInv /\ GI!GoldInv /\ PhaseOK => StagesOK
  BY DEF StagesOK, BI!IInv, BI!TypeOK, TI!RoutingInv, TI!TypeOK, GI!GoldInv, GI!TypeOK
<1>4. Init => PhaseOK
  BY DEF Init, PhaseOK
<1>5. ASSUME GI!GoldInv, StagesOK, [Next]_vars,
             [\A win \in GI!LeftBehind :
                \/ win \in GI!LeftBehind' /\ gold'[win] = gold[win]
                \/ \E w \in Workers : GI!Recompute(w, win)
                \/ \E e \in Trades, validated \in 0..MaxClock :
                     GI!Trust(e, validated) /\ GI!WindowOf(e) = win /\ e \in GI!FirstPage']_(GI!vars)
      PROVE  [\A win \in GI!LeftBehind :
                \/ win \in GI!LeftBehind' /\ gold'[win] = gold[win]
                \/ \E e \in Trades, validated \in 0..MaxClock :
                     GI!Trust(e, validated) /\ GI!WindowOf(e) = win /\ e \in GI!FirstPage']_vars
  <2>1. CASE UNCHANGED (GI!vars)
    <3>1. UNCHANGED <<GI!LeftBehind, gold>>
      BY <2>1 DEF GI!vars, GI!workerVars, GI!LeftBehind, GI!InWindow, GI!FirstPage, GI!Trusted,
         GI!ValidatedBefore, GI!WindowEnd
    <3> QED
      BY <3>1
  <2> QED
    BY <1>5, <2>1, NoRecomputeInARun
<1> QED
  BY <1>1, <1>2, <1>3, <1>4, <1>5, PhaseStep, PipelineIngests, PipelineRoutes, PipelineAggregates,
     ImplementsGold, PTL
  DEF Spec, RefinesGold, G!Spec, GI!Spec, GI!OnlyEarlyTradesReach, OnlyEarlyTradesCount

\* With a single process and whole windows the Gold rows only improve, also
\* while the same process ingests and routes between the passes.
THEOREM OneProcessOnlyImproves ==
  ASSUME GI!OneWorker, GI!WindowsFit
  PROVE  Spec => GI!RowOnlyImproves
<1>0. GI!GoldAssumption
  BY PipelineAssumption
  DEF G!GoldAssumption, G!IsFiniteSet, GI!GoldAssumption, GI!IsFiniteSet
<1>1. GI!Spec => GI!RowOnlyImproves
  BY <1>0, GI!OneWorkerOnlyImproves, GI!OneWorker, GI!WindowsFit, PTL
<1>2. /\ G!Init <=> GI!Init
      /\ [G!Next]_(G!vars) <=> [GI!Next]_(GI!vars)
  BY SameGold
<1> QED
  BY <1>1, <1>2, ImplementsGold, PTL DEF RefinesGold, G!Spec, GI!Spec

----------------------------------------------------------------------------
(* What the ledger amounts to. Its own steps keep these, so they hold in   *)
(* every behaviour of the pipeline, which implements it.                   *)

LedgerTypeOK ==
  /\ Published \subseteq L!Event
  /\ bronze \in [Ids -> Bodies \cup {NoRow}]
  /\ Verdict \in [Ids -> {"none", "trusted", "rejected"}]
  /\ \A x \in Counted : x = [id |-> x.id, candle |-> x.candle]

\* The tables agree on every event: what is preserved was published, a verdict
\* is on a preserved event and is what the rules say of the preserved version,
\* and a candle counts only its own trusted events.
TablesAgree ==
  /\ \A id \in Ids : bronze[id] # NoRow => [id |-> id, body |-> bronze[id]] \in Published
  /\ \A id \in Ids : Verdict[id] # "none" =>
       /\ bronze[id] # NoRow
       /\ Verdict[id] = IF T!Valid(bronze[id]) THEN "trusted" ELSE "rejected"
  /\ \A x \in Counted : x.id \in L!TrustedIn(x.candle)

\* Nothing that was recorded of an event is taken back or replaced.
NothingUndone ==
  [][/\ Published \subseteq Published'
     /\ \A id \in Ids :
          /\ bronze[id] # NoRow => bronze'[id] = bronze[id]
          /\ Verdict[id] # "none" => Verdict'[id] = Verdict[id]]_(L!ledgerVars)

\* Every entry of the ledger keeps the tables in agreement.
LEMMA LedgerStep ==
  ASSUME LedgerTypeOK, TablesAgree, [L!Next]_(L!ledgerVars)
  PROVE  /\ LedgerTypeOK' /\ TablesAgree'
         /\ Published \subseteq Published'
         /\ \A id \in Ids :
              /\ bronze[id] # NoRow => bronze'[id] = bronze[id]
              /\ Verdict[id] # "none" => Verdict'[id] = Verdict[id]
<1> DEFINE Goal == /\ LedgerTypeOK' /\ TablesAgree'
                   /\ Published \subseteq Published'
                   /\ \A id \in Ids :
                        /\ bronze[id] # NoRow => bronze'[id] = bronze[id]
                        /\ Verdict[id] # "none" => Verdict'[id] = Verdict[id]
<1> USE DEF LedgerTypeOK, TablesAgree, L!Event
<1>1. ASSUME NEW e \in L!Event, L!Publish(e)
      PROVE  Goal
  BY <1>1 DEF L!Publish, L!TrustedIn
<1>2. ASSUME NEW e \in L!Event, L!Preserve(e)
      PROVE  Goal
  BY <1>2 DEF L!Preserve, L!TrustedIn
<1>3. ASSUME NEW id \in Ids, L!Judge(id)
      PROVE  Goal
  <2>1. /\ bronze[id] # NoRow /\ Verdict[id] = "none"
        /\ bronze[id] \in Bodies
        /\ Verdict' = [Verdict EXCEPT ![id] = IF T!Valid(bronze[id]) THEN "trusted" ELSE "rejected"]
        /\ UNCHANGED <<Published, bronze, Counted>>
    BY <1>3 DEF L!Judge
  <2>2. ASSUME NEW x \in Counted PROVE x.id \in L!TrustedIn(x.candle)'
    BY <2>1, <2>2 DEF L!TrustedIn
  <2> QED
    BY <2>1, <2>2
<1>4. ASSUME NEW body \in Bodies, L!Recount(G!WindowOf(body))
      PROVE  Goal
  <2> DEFINE candle == G!WindowOf(body)
  <2>1. PICK some \in SUBSET L!TrustedIn(candle) :
          Counted' = {x \in Counted : x.candle # candle}
                       \cup {[id |-> id, candle |-> candle] : id \in some}
    BY <1>4 DEF L!Recount
  <2>2. UNCHANGED <<Published, bronze, Verdict>>
    BY <1>4 DEF L!Recount
  <2>3. ASSUME NEW x \in Counted'
        PROVE  x = [id |-> x.id, candle |-> x.candle] /\ x.id \in L!TrustedIn(x.candle)'
    <3> HIDE DEF candle
    <3>1. CASE x \in Counted
      BY <2>2, <3>1 DEF L!TrustedIn
    <3>2. ASSUME NEW id \in some, x = [id |-> id, candle |-> candle]
          PROVE  x.id = id /\ x.candle = candle /\ id \in L!TrustedIn(candle)'
      BY <2>2, <3>2 DEF L!TrustedIn
    <3> QED
      BY <2>1, <2>3, <3>1, <3>2
  <2> QED
    BY <2>2, <2>3
<1>5. CASE UNCHANGED (L!ledgerVars)
  BY <1>5 DEF L!ledgerVars, L!TrustedIn
<1> QED
  BY <1>1, <1>2, <1>3, <1>4, <1>5 DEF L!Next

\* In every behaviour of any number of runs the tables agree on every event.
THEOREM TablesAlwaysAgree == Spec => []TablesAgree
<1>1. L!Init => LedgerTypeOK /\ TablesAgree
  BY DEF L!Init, LedgerTypeOK, TablesAgree, L!TrustedIn
<1>2. LedgerTypeOK /\ TablesAgree /\ [L!Next]_(L!ledgerVars) => (LedgerTypeOK /\ TablesAgree)'
  BY LedgerStep
<1> QED
  BY <1>1, <1>2, ImplementsLedger, PTL DEF RefinesLedger, L!Spec

\* And no run undoes what another recorded of an event.
THEOREM NeverUndone == Spec => NothingUndone
<1>1. L!Init => LedgerTypeOK /\ TablesAgree
  BY DEF L!Init, LedgerTypeOK, TablesAgree, L!TrustedIn
<1>2. LedgerTypeOK /\ TablesAgree /\ [L!Next]_(L!ledgerVars) => (LedgerTypeOK /\ TablesAgree)'
  BY LedgerStep
<1>3. LedgerTypeOK /\ TablesAgree /\ [L!Next]_(L!ledgerVars) =>
        [/\ Published \subseteq Published'
         /\ \A id \in Ids :
              /\ bronze[id] # NoRow => bronze'[id] = bronze[id]
              /\ Verdict[id] # "none" => Verdict'[id] = Verdict[id]]_(L!ledgerVars)
  BY LedgerStep
<1> QED
  BY <1>1, <1>2, <1>3, ImplementsLedger, PTL DEF RefinesLedger, L!Spec, NothingUndone
=============================================================================
