--------------------------- MODULE BronzeIngestion ---------------------------
(***************************************************************************)
(* Kafka to Bronze: BronzeIngestionService.ingest (processing/             *)
(* bronze_ingestion.py) driving KafkaConsumer (messaging/consumer.py) and  *)
(* PostgresBronzeRepository.append (warehouse/repositories/bronze.py), run *)
(* by any number of one-shot processing workers that share one consumer    *)
(* group and one table.                                                    *)
(*                                                                         *)
(* A worker holds at most one message between the yield of stream_events() *)
(* and its acknowledge(). The broker's side (membership, fetch positions,  *)
(* committed offsets) is external and modelled from how the consumer uses  *)
(* it. Offsets count messages: position[p] = k means that the next fetch   *)
(* returns topic[p][k + 1].                                                *)
(***************************************************************************)
EXTENDS Naturals, Sequences

CONSTANTS
  Workers,          \* processing workers (one process each)
  Partitions,       \* partitions of the market events topic
  Ids,              \* event_id values
  Bodies,           \* everything else an InternalEvent carries
  UnstorableBodies, \* bodies PostgreSQL refuses whenever they are inserted
  Unreadable,       \* a broker message that does not decode
  NoRow,            \* absence of a Bronze row
  NoWorker,         \* no member of the group owns the partition
  MaxEvents,        \* max_events of one ingest() call
  MaxLog,           \* bound: messages published per partition
  MaxFailures,      \* bound: failed appends and failed commits in all
  MaxRebalances     \* bound: partitions moved away from a live owner, or reset

ASSUME IngestionAssumption ==
  /\ NoRow \notin Bodies
  /\ NoWorker \notin Workers
  /\ UnstorableBodies \subseteq Bodies
  /\ Unreadable \notin [id: Ids, body: Bodies]
  /\ MaxEvents \in Nat \ {0}
  /\ MaxLog \in Nat
  /\ MaxFailures \in Nat
  /\ MaxRebalances \in Nat

VARIABLES
  topic,      \* topic[p]: the messages of partition p, in offset order
  owner,      \* owner[p]: the group member partition p is assigned to
  position,   \* position[p]: how many messages of p its owner has fetched
  committed,  \* committed[p]: the group's committed offset
  bronze,     \* bronze[id]: the body of the Bronze row, or NoRow
  stage,      \* stage[w]: where worker w is in its run
  consumed,   \* consumed[w]: partition and offset of the ConsumedEvent held
  persisted,  \* persisted[w]: the local counter of the current ingest()
  failures,   \* failed appends and commits so far (bounded)
  rebalances  \* reassignments of owned partitions so far (bounded)

brokerVars == <<topic, owner, position, committed>>
workerVars == <<stage, consumed, persisted>>
boundVars == <<failures, rebalances>>
vars == <<brokerVars, bronze, workerVars, boundVars>>

Event == [id: Ids, body: Bodies]
Message == Event \cup {Unreadable}

Stages == {"down", "ready", "polling", "appending", "acking", "failed", "returned"}

\* A partition and a one-based offset in it.
Place == Partitions \X (Nat \ {0})

TypeOK ==
  /\ topic \in [Partitions -> Seq(Message)]
  /\ owner \in [Partitions -> Workers \cup {NoWorker}]
  /\ position \in [Partitions -> Nat]
  /\ committed \in [Partitions -> Nat]
  /\ bronze \in [Ids -> Bodies \cup {NoRow}]
  /\ stage \in [Workers -> Stages]
  /\ consumed \in [Workers -> Place \cup {<<>>}]
  /\ persisted \in [Workers -> 0..MaxEvents]
  /\ failures \in 0..MaxFailures
  /\ rebalances \in 0..MaxRebalances

\* _decode_message returns an event rather than None.
Readable(m) == m # Unreadable

\* The message a worker holds.
Held(w) == topic[consumed[w][1]][consumed[w][2]]

Init ==
  /\ topic = [p \in Partitions |-> <<>>]
  /\ owner = [p \in Partitions |-> NoWorker]
  /\ position = [p \in Partitions |-> 0]
  /\ committed = [p \in Partitions |-> 0]
  /\ bronze = [id \in Ids |-> NoRow]
  /\ stage = [w \in Workers |-> "down"]
  /\ consumed = [w \in Workers |-> <<>>]
  /\ persisted = [w \in Workers |-> 0]
  /\ failures = 0
  /\ rebalances = 0

----------------------------------------------------------------------------
(* The broker and the consumer group.                                      *)

\* A producer's publish(), or anything else that writes to the topic. The
\* same event_id may come again, with the same body or with another one (a
\* preparer run twice stamps another received_at).
Publish(p, m) ==
  /\ Len(topic[p]) < MaxLog
  /\ topic' = [topic EXCEPT ![p] = Append(@, m)]
  /\ UNCHANGED <<owner, position, committed, bronze, workerVars, boundVars>>

\* Mutant of Assign: an assigned member starts at the end of the partition.
AssignAtEnd(p, w) ==
  /\ stage[w] # "down"
  /\ \/ owner[p] = NoWorker /\ UNCHANGED rebalances
     \/ /\ owner[p] # NoWorker
        /\ rebalances < MaxRebalances
        /\ rebalances' = rebalances + 1
  /\ owner' = [owner EXCEPT ![p] = w]
  /\ position' = [position EXCEPT ![p] = Len(topic[p])]
  /\ UNCHANGED <<topic, committed, bronze, workerVars, failures>>

\* The coordinator assigns p to a member, which refetches from the committed
\* offset. It may take p from a live owner, or hand it back to the same one.
Assign(p, w) ==
  /\ stage[w] # "down"
  /\ \/ /\ owner[p] = NoWorker
        /\ UNCHANGED rebalances
     \/ /\ owner[p] # NoWorker
        /\ rebalances < MaxRebalances
        /\ rebalances' = rebalances + 1
  /\ owner' = [owner EXCEPT ![p] = w]
  /\ position' = [position EXCEPT ![p] = committed[p]]
  /\ UNCHANGED <<topic, committed, bronze, workerVars, failures>>

\* Partitions of a worker that left the group, or whose session expired.
Released(w) == [p \in Partitions |-> IF owner[p] = w THEN NoWorker ELSE owner[p]]

----------------------------------------------------------------------------
(* One worker.                                                             *)

\* KafkaConsumer.start(): join the group; partitions follow by Assign.
Start(w) ==
  /\ stage[w] = "down"
  /\ stage' = [stage EXCEPT ![w] = "ready"]
  /\ UNCHANGED <<brokerVars, bronze, consumed, persisted, boundVars>>

\* ingest() is entered: persisted = 0 and a new stream_events() generator.
Ingest(w) ==
  /\ stage[w] = "ready"
  /\ stage' = [stage EXCEPT ![w] = "polling"]
  /\ persisted' = [persisted EXCEPT ![w] = 0]
  /\ UNCHANGED <<brokerVars, bronze, consumed, boundVars>>

\* The next message of an owned partition decodes: stream_events() yields it.
Deliver(w, p) ==
  /\ stage[w] = "polling"
  /\ owner[p] = w
  /\ position[p] < Len(topic[p])
  /\ Readable(topic[p][position[p] + 1])
  /\ position' = [position EXCEPT ![p] = @ + 1]
  /\ consumed' = [consumed EXCEPT ![w] = <<p, position[p] + 1>>]
  /\ stage' = [stage EXCEPT ![w] = "appending"]
  /\ UNCHANGED <<topic, owner, committed, bronze, persisted, boundVars>>

\* The next message does not decode: it is logged and skipped, uncommitted.
SkipUnreadable(w, p) ==
  /\ stage[w] = "polling"
  /\ owner[p] = w
  /\ position[p] < Len(topic[p])
  /\ ~Readable(topic[p][position[p] + 1])
  /\ position' = [position EXCEPT ![p] = @ + 1]
  /\ UNCHANGED <<topic, owner, committed, bronze, workerVars, boundVars>>

\* Mutant of Inserted: ON CONFLICT (event_id) DO UPDATE.
InsertedOrReplaced(e) == [bronze EXCEPT ![e.id] = e.body]

\* INSERT ... ON CONFLICT (event_id) DO NOTHING of the event held.
Inserted(e) ==
  IF bronze[e.id] = NoRow THEN [bronze EXCEPT ![e.id] = e.body] ELSE bronze

\* append() returns: the transaction committed.
AppendOk(w) ==
  /\ stage[w] = "appending"
  /\ Held(w).body \notin UnstorableBodies
  /\ bronze' = Inserted(Held(w))
  /\ stage' = [stage EXCEPT ![w] = "acking"]
  /\ UNCHANGED <<brokerVars, consumed, persisted, boundVars>>

\* Mutant of AppendFail: ingest() swallows the error and acknowledges.
AppendFailSwallowed(w) ==
  /\ stage[w] = "appending"
  /\ Held(w).body \notin UnstorableBodies
  /\ failures < MaxFailures
  /\ failures' = failures + 1
  /\ bronze' \in {bronze, Inserted(Held(w))}
  /\ stage' = [stage EXCEPT ![w] = "acking"]
  /\ UNCHANGED <<brokerVars, consumed, persisted, rebalances>>

\* append() raises StorageError and ingest() re-raises it without
\* acknowledging. When the connection is lost around COMMIT the row may be
\* there all the same.
AppendFail(w) ==
  /\ stage[w] = "appending"
  /\ Held(w).body \notin UnstorableBodies
  /\ failures < MaxFailures
  /\ failures' = failures + 1
  /\ bronze' \in {bronze, Inserted(Held(w))}
  /\ stage' = [stage EXCEPT ![w] = "failed"]
  /\ UNCHANGED <<brokerVars, consumed, persisted, rebalances>>

\* append() of a row that PostgreSQL or its driver can never take.
AppendRefused(w) ==
  /\ stage[w] = "appending"
  /\ Held(w).body \in UnstorableBodies
  /\ stage' = [stage EXCEPT ![w] = "failed"]
  /\ UNCHANGED <<brokerVars, bronze, consumed, persisted, boundVars>>

\* Mutant of CommittedBy: the offset after the next one is committed.
CommittedTooFar(w) == [committed EXCEPT ![consumed[w][1]] = consumed[w][2] + 1]

\* commit({partition: offset + 1}) as the broker applies it.
CommittedBy(w) == [committed EXCEPT ![consumed[w][1]] = consumed[w][2]]

\* acknowledge() succeeds: only a member that owns the partition may commit.
\* The call returns to its caller at the max_events-th event.
AckOk(w) ==
  /\ stage[w] = "acking"
  /\ owner[consumed[w][1]] = w
  /\ committed' = CommittedBy(w)
  /\ persisted' = [persisted EXCEPT ![w] = @ + 1]
  /\ stage' = [stage EXCEPT ![w] = IF persisted[w] + 1 >= MaxEvents
                                   THEN "returned" ELSE "polling"]
  /\ UNCHANGED <<topic, owner, position, bronze, consumed, boundVars>>

\* acknowledge() raises ConsumeError: the partition was lost, or the commit
\* request failed, before or after the broker applied it.
AckFail(w) ==
  /\ stage[w] = "acking"
  /\ \/ /\ owner[consumed[w][1]] # w
        /\ UNCHANGED <<committed, failures>>
     \/ /\ owner[consumed[w][1]] = w
        /\ failures < MaxFailures
        /\ failures' = failures + 1
        /\ committed' \in {committed, CommittedBy(w)}
  /\ stage' = [stage EXCEPT ![w] = "failed"]
  /\ UNCHANGED <<topic, owner, position, bronze, consumed, persisted, rebalances>>

\* Mutant of Close: the membership outlives the run, and the next run goes on
\* after the last message fetched.
CloseWithoutLeaving(w) ==
  /\ stage[w] \in {"returned", "failed"}
  /\ stage' = [stage EXCEPT ![w] = "down"]
  /\ consumed' = [consumed EXCEPT ![w] = <<>>]
  /\ UNCHANGED <<brokerVars, bronze, persisted, boundVars>>

\* run_processing()'s finally: the consumer leaves the group, committing
\* nothing, after the call returned or failed.
Close(w) ==
  /\ stage[w] \in {"returned", "failed"}
  /\ stage' = [stage EXCEPT ![w] = "down"]
  /\ owner' = Released(w)
  /\ consumed' = [consumed EXCEPT ![w] = <<>>]
  /\ UNCHANGED <<topic, position, committed, bronze, persisted, boundVars>>

\* The process dies anywhere; its session expires.
Crash(w) ==
  /\ stage[w] # "down"
  /\ failures < MaxFailures
  /\ failures' = failures + 1
  /\ stage' = [stage EXCEPT ![w] = "down"]
  /\ owner' = Released(w)
  /\ consumed' = [consumed EXCEPT ![w] = <<>>]
  /\ UNCHANGED <<topic, position, committed, bronze, persisted, rebalances>>

Next ==
  \/ \E p \in Partitions, m \in Message : Publish(p, m)
  \/ \E p \in Partitions, w \in Workers :
       Assign(p, w) \/ Deliver(w, p) \/ SkipUnreadable(w, p)
  \/ \E w \in Workers :
       \/ Start(w) \/ Ingest(w)
       \/ AppendOk(w) \/ AppendFail(w) \/ AppendRefused(w)
       \/ AckOk(w) \/ AckFail(w)
       \/ Close(w) \/ Crash(w)

Spec == Init /\ [][Next]_vars

\* What a scheduled worker does when nothing kills it.
Step(w) ==
  \/ Start(w) \/ Ingest(w)
  \/ \E p \in Partitions : Deliver(w, p) \/ SkipUnreadable(w, p)
  \/ AppendOk(w) \/ AppendFail(w) \/ AppendRefused(w)
  \/ AckOk(w) \/ AckFail(w)
  \/ Close(w)

\* The one-shot worker is run again whenever it exits, the event loop serves
\* its only task, and the coordinator assigns every partition while the group
\* has members. Neither producers, failures, crashes nor rebalances are fair.
FairSpec ==
  /\ Spec
  /\ \A w \in Workers : WF_vars(Step(w))
  /\ \A p \in Partitions :
       WF_vars(owner[p] = NoWorker /\ \E w \in Workers : Assign(p, w))

----------------------------------------------------------------------------
(* Properties.                                                             *)

\* Message o of partition p either decodes to nothing or has a row under its
\* event_id.
PersistedAt(p, o) ==
  Readable(topic[p][o]) => bronze[topic[p][o].id] # NoRow

\* Ack-after-persist (bronze_ingestion.py:73-134): whatever crashes, failed
\* calls and rebalances happen, and whichever worker committed, no readable
\* message lies below the committed offset without a Bronze row.
AckedIsPersisted ==
  \A p \in Partitions : \A o \in 1..committed[p] : PersistedAt(p, o)

\* The in-process half of the same argument (consumer.py:164-182): everything
\* the current owner has fetched is in Bronze, except the one message whose
\* append is running or has failed. So committing offset + 1 of the message
\* just appended never jumps over an earlier one.
FetchedIsPersisted ==
  \A p \in Partitions : \A w \in Workers :
    owner[p] = w =>
      \A o \in 1..position[p] :
        \/ PersistedAt(p, o)
        \/ stage[w] \in {"appending", "failed"} /\ consumed[w] = <<p, o>>

\* Offsets in use lie inside the topic, and a held message is readable.
OffsetsInTopic ==
  /\ \A p \in Partitions : committed[p] <= Len(topic[p]) /\ position[p] <= Len(topic[p])
  /\ \A w \in Workers : stage[w] \in {"appending", "acking"} =>
       /\ consumed[w] \in Place
       /\ consumed[w][2] <= Len(topic[consumed[w][1]])
       /\ Readable(Held(w))

\* A worker on its way to acknowledge an offset has everything below it in
\* Bronze, and the message itself too once append() returned. This survives
\* the loss of the partition, so a late commit by a member that got it back is
\* harmless to AckedIsPersisted.
HeldPrefixPersisted ==
  \A w \in Workers :
    /\ stage[w] \in {"appending", "acking"} =>
         \A o \in 1..(consumed[w][2] - 1) : PersistedAt(consumed[w][1], o)
    /\ stage[w] = "acking" => bronze[Held(w).id] # NoRow

\* ingest() stops at max_events: a worker still inside the loop has
\* acknowledged fewer (bronze_ingestion.py:124-131).
BatchBounded ==
  \A w \in Workers :
    stage[w] \in {"polling", "appending", "acking"} => persisted[w] < MaxEvents

\* The inductive invariant behind AckedIsPersisted: a commit is safe because
\* of what the committing worker holds, and that because of what an owner has
\* fetched when it is delivered the next message.
IInv ==
  /\ TypeOK
  /\ OffsetsInTopic
  /\ BatchBounded
  /\ HeldPrefixPersisted
  /\ FetchedIsPersisted
  /\ AckedIsPersisted

\* The worker's whole run promises no more and no less than the landing zone.
LZ == INSTANCE LandingZone WITH rows <- bronze, settled <- committed
RefinesLandingZone == LZ!Spec

\* Some message can never be stored: its partition cannot get past it, and a
\* worker that owns other partitions too fails on it again and again.
PoisonPublished ==
  \E p \in Partitions : \E o \in DOMAIN topic[p] :
    Readable(topic[p][o]) /\ topic[p][o].body \in UnstorableBodies

\* At-least-once (consumer.py:44-53): a readable message, once published, gets
\* its Bronze row however often workers fail on the way, unless some message
\* is unstorable.
EventuallyPreserved ==
  \A p \in Partitions : \A o \in 1..MaxLog :
    (o <= Len(topic[p])) ~>
      (PoisonPublished \/ (o <= Len(topic[p]) /\ PersistedAt(p, o)))

\* What consumer.py:167-169 says of undecodable messages: their offsets are
\* not advanced, so that a group restart reads them again.
UnreadableStaysUncommitted ==
  \A p \in Partitions : \A o \in 1..committed[p] : Readable(topic[p][o])
=============================================================================
