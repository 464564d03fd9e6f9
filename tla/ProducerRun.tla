----------------------------- MODULE ProducerRun -----------------------------
(***************************************************************************)
(* One run of the producer: run_producer (producer/main.py) with the       *)
(* selection of the exchange (factory.py), IngestionPipeline.run           *)
(* (pipeline.py), the lifecycle of KafkaPublisher (messaging/publisher.py) *)
(* and all of DevExchangeConnector (connectors/dev.py), on which another   *)
(* task may call disconnect() and reconnect() while the run is suspended.  *)
(*                                                                         *)
(* Of the Coinbase connector only what the pipeline sees of it is here: it *)
(* connects or not, yields match messages, and its stream ends or raises   *)
(* (CoinbaseSession has the rest). Each step is what the event loop runs   *)
(* between two awaits. The broker and the client's sender are external:    *)
(* an event is sent to one partition, nobody says which, and sent again    *)
(* when the answer is late, so that a copy may arrive at any time.         *)
(***************************************************************************)
EXTENDS EventPreparation, ValidationRules, FiniteSets, SequencesExt

CONSTANTS
  Exchanges,  \* values of EXCHANGE_NAME, stripped and in lower case
  Script,     \* the events of the dev connector
  Live,       \* the messages Coinbase may send
  Now,        \* the clock's answers, datetime.now(UTC)
  Partitions, \* of the topic
  MaxLive,    \* bound: messages of a Coinbase session
  MaxCalls,   \* bound: disconnect() and reconnect() by another task
  MaxCopies   \* bound: messages of the topic beyond one for each event

ASSUME ProducerAssumption ==
  /\ Script \in Seq(Raw)
  /\ Live \subseteq Raw
  /\ Now \subseteq Instants
  /\ Partitions # {}
  /\ MaxLive \in Nat
  /\ MaxCalls \in Nat
  /\ MaxCopies \in Nat

VARIABLES
  exchange,   \* settings.exchange.name
  paced,      \* dev: interval_seconds > 0
  producer,   \* KafkaPublisher._producer is set
  state,      \* the connector's _state
  stop,       \* the connector's _stop_requested
  pc,         \* where run_producer() is
  received,   \* history: what stream() has yielded
  sent,       \* history: the events handed to the client, and where they go
  topic,      \* per partition the copies that arrived, by position in sent
  published,  \* the counter of run()
  outcome,    \* how the run ended
  calls,      \* calls of the other task so far
  late        \* history: events yielded since disconnect()

connectorVars == <<state, stop>>
runVars == <<received, sent, topic, published>>
vars == <<exchange, paced, producer, connectorVars, pc, runVars, outcome, calls, late>>

\* An event handed to the client, and the partition chosen for it.
Envelope == [event: InternalEvent, partition: Partitions]

TypeOK ==
  /\ exchange \in Exchanges
  /\ paced \in BOOLEAN
  /\ producer \in BOOLEAN
  /\ state \in {"disconnected", "connecting", "connected"}
  /\ stop \in BOOLEAN
  /\ pc \in {"off", "starting", "connecting", "streaming", "sleeping", "publishing",
             "closing", "ended"}
  /\ received \in Seq(Raw)
  /\ sent \in Seq(Envelope)
  /\ topic \in [Partitions -> Seq(DOMAIN sent)]
  /\ published \in Nat
  /\ outcome \in {"none", "unsupported", "unstarted", "unconnected", "completed",
                  "broken", "escaped", "unpublished"}
  /\ calls \in 0..MaxCalls
  /\ late \in Nat

Init ==
  /\ exchange \in Exchanges
  /\ paced \in BOOLEAN
  /\ producer = FALSE
  /\ state = "disconnected" /\ stop = FALSE
  /\ pc = "off"
  /\ received = <<>> /\ sent = <<>> /\ published = 0
  /\ topic = [p \in Partitions |-> <<>>]
  /\ outcome = "none" /\ calls = 0 /\ late = 0

----------------------------------------------------------------------------
(* run_producer() up to the stream.                                        *)

\* build_connector() and build_preparer(), then the await of start().
Build ==
  /\ pc = "off"
  /\ IF exchange \in Sources
     THEN pc' = "starting" /\ UNCHANGED outcome
     ELSE pc' = "ended" /\ outcome' = "unsupported"
  /\ UNCHANGED <<exchange, paced, producer, connectorVars, runVars, calls, late>>

\* The publisher's client starts. The dev connector connects without an await,
\* or is connected already.
Started ==
  /\ pc = "starting"
  /\ producer' = TRUE
  /\ stop' = IF state = "connected" THEN stop ELSE FALSE
  /\ IF exchange = "dev"
     THEN state' = "connected" /\ pc' = "streaming"
     ELSE state' = "connecting" /\ pc' = "connecting"
  /\ UNCHANGED <<exchange, paced, runVars, outcome, calls, late>>

\* start() raises: the client is not kept, and the try was not entered.
StartFails ==
  /\ pc = "starting"
  /\ pc' = "ended"
  /\ outcome' = "unstarted"
  /\ UNCHANGED <<exchange, paced, producer, connectorVars, runVars, calls, late>>

Connected ==
  /\ pc = "connecting"
  /\ state' = "connected"
  /\ pc' = "streaming"
  /\ UNCHANGED <<exchange, paced, producer, stop, runVars, outcome, calls, late>>

\* connect() raises outside the pipeline's try: nobody disconnects.
ConnectFails ==
  /\ pc = "connecting"
  /\ pc' = "closing"
  /\ outcome' = "unconnected"
  /\ UNCHANGED <<exchange, paced, producer, connectorVars, runVars, calls, late>>

----------------------------------------------------------------------------
(* The loop over stream().                                                 *)

\* Mutant of Finally: run() has no finally.
Leave(how) ==
  /\ outcome' = how
  /\ pc' = "closing"
  /\ UNCHANGED connectorVars

\* The loop is left, and run()'s finally disconnects the connector.
Finally(how) ==
  /\ outcome' = how
  /\ pc' = "closing"
  /\ stop' = TRUE
  /\ state' = "disconnected"

\* A raw event reaches the pipeline: it is prepared, handed to the client and
\* its acknowledgement awaited, or logged and passed over, or its preparation
\* raises something that nobody expects. Without a key the partition is the
\* client's choice.
Yield(raw) ==
  /\ received' = Append(received, raw)
  /\ late' = IF stop THEN late + 1 ELSE late
  /\ \/ /\ ~can_prepare(exchange, raw) \/ Refuses(exchange, raw)
        /\ pc' = "streaming"
        /\ UNCHANGED <<connectorVars, sent, outcome>>
     \/ /\ can_prepare(exchange, raw) /\ Escapes(exchange, raw)
        /\ Finally("escaped")
        /\ UNCHANGED sent
     \/ /\ can_prepare(exchange, raw) /\ Prepares(exchange, raw)
        /\ \E now \in Now, p \in Partitions :
             sent' = Append(sent, [event |-> prepare(exchange, raw, now), partition |-> p])
        /\ pc' = "publishing"
        /\ UNCHANGED <<connectorVars, outcome>>

\* Mutant of Ended: the stream does not look at the stop.
EndedAtLast == Len(received) = Len(Script)

\* stream() of the dev connector returns: the script is over, or the check
\* before the next event finds a stop.
Ended == Len(received) = Len(Script) \/ stop \/ state # "connected"

\* The dev connector resumes after an event: it returns, sleeps, or goes on
\* with the next event at once.
Resume ==
  /\ pc = "streaming"
  /\ exchange = "dev"
  /\ IF Ended
     THEN Finally("completed") /\ UNCHANGED <<received, sent, late>>
     ELSE IF paced
     THEN pc' = "sleeping" /\ UNCHANGED <<connectorVars, sent, outcome, received, late>>
     ELSE Yield(Script[Len(received) + 1])
  /\ UNCHANGED <<exchange, paced, producer, topic, published, calls>>

\* Mutant of Awake: a stopped connector sleeps on.
AwakeUnlessStopped ==
  /\ pc = "sleeping"
  /\ ~stop
  /\ Yield(Script[Len(received) + 1])
  /\ UNCHANGED <<exchange, paced, producer, topic, published, calls>>

\* The sleep is over. Whether to stop was decided before it.
Awake ==
  /\ pc = "sleeping"
  /\ Yield(Script[Len(received) + 1])
  /\ UNCHANGED <<exchange, paced, producer, topic, published, calls>>

\* Coinbase sends a match message.
Message(raw) ==
  /\ pc = "streaming"
  /\ exchange = "coinbase"
  /\ Len(received) < MaxLive
  /\ raw.type \in MatchTypes
  /\ Yield(raw)
  /\ UNCHANGED <<exchange, paced, producer, topic, published, calls>>

\* The Coinbase stream returns (stopped, retries exhausted) or raises.
StreamEnds ==
  /\ pc = "streaming"
  /\ exchange = "coinbase"
  /\ Finally("completed") \/ Finally("broken")
  /\ UNCHANGED <<exchange, paced, producer, runVars, calls, late>>

----------------------------------------------------------------------------
(* Publishing.                                                             *)

\* The topic holds a copy of the n-th event sent.
Holds(n) == \E p \in Partitions : n \in Range(topic[p])

TopicLength == MapThenSumSet(LAMBDA p : Len(topic[p]), Partitions)

\* The broker appends a copy: the client has sent the event at least once, and
\* a request may still be under way when its publish() is long over.
Arrive(n) ==
  /\ TopicLength < Len(sent) + MaxCopies
  /\ topic' = [topic EXCEPT ![sent[n].partition] = Append(@, n)]
  /\ UNCHANGED <<exchange, paced, producer, connectorVars, pc, received, sent, published,
                 outcome, calls, late>>

\* Mutant of Published: publish() does not wait for the acknowledgement.
PublishedUnheard ==
  /\ pc = "publishing"
  /\ published' = published + 1
  /\ pc' = "streaming"
  /\ UNCHANGED <<exchange, paced, producer, connectorVars, received, sent, topic, outcome,
                 calls, late>>

\* publish() returns: the broker has acknowledged a copy.
Published ==
  /\ pc = "publishing"
  /\ Holds(Len(sent))
  /\ published' = published + 1
  /\ pc' = "streaming"
  /\ UNCHANGED <<exchange, paced, producer, connectorVars, received, sent, topic, outcome,
                 calls, late>>

\* publish() raises; the broker may hold the event all the same.
PublishFails ==
  /\ pc = "publishing"
  /\ Finally("unpublished")
  /\ UNCHANGED <<exchange, paced, producer, runVars, calls, late>>

\* run_producer()'s finally closes the publisher. When the client's stop()
\* raises, the publisher keeps it.
Close ==
  /\ pc = "closing"
  /\ pc' = "ended"
  /\ producer' \in BOOLEAN
  /\ UNCHANGED <<exchange, paced, connectorVars, runVars, outcome, calls, late>>

----------------------------------------------------------------------------
(* Another task and the dev connector.                                     *)

Suspended ==
  /\ exchange = "dev"
  /\ pc \in {"starting", "sleeping", "publishing", "closing"}
  /\ calls < MaxCalls

Disconnect ==
  /\ Suspended
  /\ stop' = TRUE
  /\ state' = "disconnected"
  /\ late' = IF stop THEN late ELSE 0
  /\ calls' = calls + 1
  /\ UNCHANGED <<exchange, paced, producer, pc, runVars, outcome>>

\* reconnect() keeps the position: it belongs to the generator.
Reconnect ==
  /\ Suspended
  /\ stop' = FALSE
  /\ state' = "connected"
  /\ late' = 0
  /\ calls' = calls + 1
  /\ UNCHANGED <<exchange, paced, producer, pc, runVars, outcome>>

\* What the run does without a message from Coinbase.
Step ==
  \/ Build \/ Started \/ StartFails \/ Connected \/ ConnectFails
  \/ Resume \/ Awake \/ Published \/ PublishFails \/ Close

Next ==
  \/ Step
  \/ \E raw \in Live : Message(raw)
  \/ StreamEnds
  \/ \E n \in DOMAIN sent : Arrive(n)
  \/ Disconnect \/ Reconnect

Spec == Init /\ [][Next]_vars

\* The event loop resumes the run when its await is over; publish() returns or,
\* when no acknowledgement comes, raises. No request need ever arrive, and
\* Coinbase owes nobody a message or an end of the stream.
FairSpec == Spec /\ WF_vars(Step)

----------------------------------------------------------------------------
(* Properties.                                                             *)

\* Where the run is decides what it holds: whichever way the loop was left, the
\* connector is let go before the publisher is closed, unless it was never
\* connected (pipeline.py:75, 102-103) or another task has connected it again,
\* and only a run under way has a client.
HoldsResources ==
  /\ pc \in {"off", "starting"} => ~producer
  /\ pc \in {"connecting", "streaming", "sleeping", "publishing", "closing"} => producer
  /\ pc \in {"off", "starting", "closing", "ended"} /\ (stop \/ calls = 0)
       => state = "disconnected" \/ outcome = "unconnected"
  /\ pc \in {"starting", "connecting", "streaming", "sleeping", "publishing"} =>
       exchange \in Sources
  /\ pc = "sleeping" => exchange = "dev" /\ paced /\ Len(received) < Len(Script)
  /\ pc = "publishing" => sent # <<>>
  /\ pc = "closing" => outcome # "none"
  /\ outcome # "none" => pc \in {"closing", "ended"}
  /\ exchange = "dev" => Len(received) <= Len(Script)

ProducerInv == TypeOK /\ HoldsResources

\* The raw events among raws that can be published, in their order.
Publishables(source, raws) ==
  LET kept[i \in 0..Len(raws)] ==
        IF i = 0 THEN <<>>
        ELSE IF can_prepare(source, raws[i]) /\ Prepares(source, raws[i])
        THEN Append(kept[i - 1], raws[i])
        ELSE kept[i - 1]
  IN kept[Len(raws)]

\* The events that what was received should have become, received_at aside.
Publishable == Publishables(exchange, received)
Payloads(messages) == [n \in DOMAIN messages |-> messages[n].event.payload]

\* The event in hand, or the one whose publication failed.
Unanswered == pc = "publishing" \/ outcome = "unpublished"

\* Every event that can be published is sent, in the order of the exchange, and
\* is in the topic at least once, but for the one being published or whose
\* publication failed (pipeline.py:25-27: "rather than silently dropping
\* events"); the result counts those acknowledged. In a partition a message
\* that comes after a later one is a repetition. A dev run that nobody disturbs
\* takes up its whole script, and no reconnect() repeats any of it.
PublishedInOrder ==
  /\ Payloads(sent) = Publishable
  /\ published = IF Unanswered THEN Len(sent) - 1 ELSE Len(sent)
  /\ \A n \in 1..published : Holds(n)
  /\ \A p \in Partitions : \A j \in DOMAIN topic[p] : \A i \in 1..j :
       topic[p][i] > topic[p][j] => \E k \in 1..i : topic[p][k] = topic[p][j]
  /\ exchange = "dev" =>
       /\ IsPrefix(received, Script)
       /\ outcome = "completed" /\ calls = 0 => received = Script

\* After disconnect() the dev connector stops between events (dev.py:21-22),
\* but for the one event whose sleep had begun.
AtMostOneLate == late <= IF paced THEN 1 ELSE 0

\* A raw event whose data the trust boundary has no objection to.
IsUsable(raw) ==
  /\ raw.symbol \notin Blanks \cup Padded
  /\ raw.trade_id \notin Blanks
  /\ {raw.price, raw.quantity} \subseteq Positive

\* Preparation and validation agree: the rules object to a published event
\* only because of the exchange's own data, never because of what the
\* preparation made of it, and an event they accept can be aggregated.
AcceptedIfUsable ==
  \A n \in DOMAIN sent :
    /\ sent[n].event \in InternalEvent
    /\ IsValid(sent[n].event) <=> IsUsable(sent[n].event.payload)

\* What AtMostOneLate rests on: an event is late only between a stop and the
\* next look at it, which no event follows; without a sleep there is no such
\* event, and the Coinbase connector is stopped by the end of its run alone.
LateInv ==
  /\ AtMostOneLate
  /\ ~stop => late = 0
  /\ state = "connected" \/ pc = "connecting" => ~stop
  /\ pc \in {"off", "starting", "sleeping"} => late = 0
  /\ exchange = "coinbase" => late = 0
  /\ stop => exchange = "dev" \/ pc \in {"closing", "ended"}

\* A dev run ends, whatever the other task does (main.py:57-59).
DevRunEnds == (exchange = "dev") ~> (pc = "ended")

\* What pipeline.py:23-24 says: a raw event that cannot be prepared does not
\* halt ingestion.
NeverHalted == outcome # "escaped"
=============================================================================
