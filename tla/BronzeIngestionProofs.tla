------------------------ MODULE BronzeIngestionProofs ------------------------
(***************************************************************************)
(* Ack-after-persist for every set of workers, partitions, event ids and   *)
(* bodies, every batch size and every number of failures and rebalances.   *)
(*                                                                         *)
(* Layout: type correctness; then IInv, one step per action and one        *)
(* substep per conjunct the action can disturb; then the consequences.     *)
(***************************************************************************)
EXTENDS BronzeIngestion, TLAPS

\* A message already published keeps its offset and its content when another
\* one is appended to the topic.
LEMMA TopicAppendOnly ==
  ASSUME TypeOK,
         NEW q \in Partitions, NEW m \in Message, Publish(q, m),
         NEW p \in Partitions
  PROVE  /\ Len(topic[p]) <= Len(topic'[p])
         /\ \A o \in 1..Len(topic[p]) : topic'[p][o] = topic[p][o]
  BY DEF TypeOK, Publish

\* Typing holds initially.
LEMMA InitTypeOK == Init => TypeOK
  BY IngestionAssumption DEF Init, TypeOK, Stages

\* The insert of a held event keeps the table well typed and never touches a
\* row that is there.
LEMMA InsertedKeepsRows ==
  ASSUME TypeOK, NEW e \in Event
  PROVE  /\ Inserted(e) \in [Ids -> Bodies \cup {NoRow}]
         /\ \A id \in Ids : bronze[id] # NoRow => Inserted(e)[id] = bronze[id]
         /\ Inserted(e)[e.id] # NoRow
  BY IngestionAssumption DEF TypeOK, Inserted, Event

\* A readable message inside the topic is an Event.
LEMMA ReadableIsEvent ==
  ASSUME TypeOK, NEW p \in Partitions, NEW o \in 1..Len(topic[p]), Readable(topic[p][o])
  PROVE  topic[p][o] \in Event
  BY DEF TypeOK, Message, Readable

\* What a worker between deliver and acknowledge holds is an Event.
LEMMA HeldIsEvent ==
  ASSUME TypeOK, OffsetsInTopic,
         NEW w \in Workers, stage[w] \in {"appending", "acking"}
  PROVE  /\ consumed[w][1] \in Partitions
         /\ consumed[w][2] \in 1..Len(topic[consumed[w][1]])
         /\ Held(w) \in Event
         /\ Held(w) = topic[consumed[w][1]][consumed[w][2]]
  <1>1. /\ consumed[w][1] \in Partitions
        /\ consumed[w][2] \in 1..Len(topic[consumed[w][1]])
    BY DEF TypeOK, OffsetsInTopic, Place
  <1>2. Readable(topic[consumed[w][1]][consumed[w][2]])
    BY DEF OffsetsInTopic, Held
  <1>3. QED
    BY <1>1, <1>2, ReadableIsEvent DEF Held

\* Every action keeps the types; an append needs that the worker holds an
\* event, an acknowledgement that the batch is not yet full.
LEMMA StepTypeOK ==
  ASSUME TypeOK, OffsetsInTopic, BatchBounded, [Next]_vars
  PROVE  TypeOK'
  <1> USE IngestionAssumption
  <1>1. ASSUME NEW p \in Partitions, NEW m \in Message, Publish(p, m)
        PROVE  TypeOK'
    BY <1>1 DEF TypeOK, Publish, workerVars, boundVars
  <1>2. ASSUME NEW p \in Partitions, NEW w \in Workers, Assign(p, w)
        PROVE  TypeOK'
    BY <1>2 DEF TypeOK, Assign, workerVars
  <1>3. ASSUME NEW p \in Partitions, NEW w \in Workers, Deliver(w, p)
        PROVE  TypeOK'
    BY <1>3 DEF TypeOK, Deliver, boundVars, Stages, Place
  <1>4. ASSUME NEW p \in Partitions, NEW w \in Workers, SkipUnreadable(w, p)
        PROVE  TypeOK'
    BY <1>4 DEF TypeOK, SkipUnreadable, workerVars, boundVars
  <1>5. ASSUME NEW w \in Workers, Start(w) \/ Ingest(w)
        PROVE  TypeOK'
    <2>1. CASE Start(w)
      BY <2>1 DEF TypeOK, Start, brokerVars, boundVars, Stages
    <2>2. CASE Ingest(w)
      BY <2>2 DEF TypeOK, Ingest, brokerVars, boundVars, Stages
    <2>3. QED
      BY <1>5, <2>1, <2>2
  <1>6. ASSUME NEW w \in Workers, AppendOk(w) \/ AppendFail(w) \/ AppendRefused(w)
        PROVE  TypeOK'
    <2>1. stage[w] = "appending"
      BY <1>6 DEF AppendOk, AppendFail, AppendRefused
    <2>2. Inserted(Held(w)) \in [Ids -> Bodies \cup {NoRow}]
      BY <2>1, HeldIsEvent, InsertedKeepsRows
    <2>3. CASE AppendOk(w)
      BY <2>2, <2>3 DEF TypeOK, AppendOk, brokerVars, boundVars, Stages
    <2>4. CASE AppendFail(w)
      <3>1. bronze' \in [Ids -> Bodies \cup {NoRow}]
        BY <2>2, <2>4 DEF TypeOK, AppendFail
      <3>2. failures' \in 0..MaxFailures
        BY <2>4 DEF TypeOK, AppendFail
      <3>3. QED
        BY <3>1, <3>2, <2>4 DEF TypeOK, AppendFail, brokerVars, Stages
    <2>5. CASE AppendRefused(w)
      BY <2>5 DEF TypeOK, AppendRefused, brokerVars, boundVars, Stages
    <2>6. QED
      BY <1>6, <2>3, <2>4, <2>5
  <1>7. ASSUME NEW w \in Workers, AckOk(w) \/ AckFail(w)
        PROVE  TypeOK'
    <2>1. stage[w] = "acking"
      BY <1>7 DEF AckOk, AckFail
    <2>2. CommittedBy(w) \in [Partitions -> Nat]
      BY <2>1, HeldIsEvent DEF CommittedBy, TypeOK
    <2>3. persisted[w] + 1 \in 0..MaxEvents
      BY <2>1 DEF BatchBounded, TypeOK
    <2>4. CASE AckOk(w)
      BY <2>2, <2>3, <2>4 DEF TypeOK, AckOk, boundVars, Stages
    <2>5. CASE AckFail(w)
      <3>1. committed' \in [Partitions -> Nat]
        BY <2>2, <2>5 DEF TypeOK, AckFail
      <3>2. failures' \in 0..MaxFailures
        BY <2>5 DEF TypeOK, AckFail
      <3>3. QED
        BY <3>1, <3>2, <2>5 DEF TypeOK, AckFail, Stages
    <2>6. QED
      BY <1>7, <2>4, <2>5
  <1>8. ASSUME NEW w \in Workers, Close(w) \/ Crash(w)
        PROVE  TypeOK'
    <2>1. Released(w) \in [Partitions -> Workers \cup {NoWorker}]
      BY DEF TypeOK, Released
    <2>2. [consumed EXCEPT ![w] = <<>>] \in [Workers -> Place \cup {<<>>}]
      BY DEF TypeOK
    <2>3. CASE Close(w)
      BY <2>1, <2>2, <2>3 DEF TypeOK, Close, boundVars, Stages
    <2>4. CASE Crash(w)
      BY <2>1, <2>2, <2>4 DEF TypeOK, Crash, Stages
    <2>5. QED
      BY <1>8, <2>3, <2>4
  <1>9. CASE UNCHANGED vars
    BY <1>9 DEF TypeOK, vars, brokerVars, workerVars, boundVars
  <1>10. QED
    BY <1>1, <1>2, <1>3, <1>4, <1>5, <1>6, <1>7, <1>8, <1>9 DEF Next

\* A step publishes or leaves the topic alone.
LEMMA TopicStep ==
  ASSUME TypeOK, [Next]_vars, NEW p \in Partitions
  PROVE  /\ Len(topic[p]) \in Nat /\ Len(topic'[p]) \in Nat
         /\ Len(topic[p]) <= Len(topic'[p])
         /\ \A o \in 1..Len(topic[p]) : topic'[p][o] = topic[p][o]
  <1>1. CASE topic' = topic
    BY <1>1 DEF TypeOK
  <1>2. CASE \E q \in Partitions, m \in Message : Publish(q, m)
    <2>1. PICK q \in Partitions, m \in Message : Publish(q, m)
      BY <1>2
    <2>2. Len(topic[p]) \in Nat /\ Len(topic'[p]) \in Nat
      BY <2>1 DEF TypeOK, Publish
    <2>3. QED
      BY <2>1, <2>2, TopicAppendOnly
  <1>3. topic' = topic \/ \E q \in Partitions, m \in Message : Publish(q, m)
    BY DEF Next, vars, brokerVars, Assign, Deliver, SkipUnreadable, Start, Ingest,
           AppendOk, AppendFail, AppendRefused, AckOk, AckFail, Close, Crash
  <1>4. QED
    BY <1>1, <1>2, <1>3

\* No step changes or removes a Bronze row.
LEMMA RowsStep ==
  ASSUME TypeOK, OffsetsInTopic, [Next]_vars, NEW id \in Ids, bronze[id] # NoRow
  PROVE  bronze'[id] = bronze[id]
  <1>1. CASE bronze' = bronze
    BY <1>1
  <1>2. ASSUME NEW w \in Workers, stage[w] = "appending", bronze' = Inserted(Held(w))
        PROVE  bronze'[id] = bronze[id]
    BY <1>2, HeldIsEvent, InsertedKeepsRows
  <1>3. \/ bronze' = bronze
        \/ \E w \in Workers : stage[w] = "appending" /\ bronze' = Inserted(Held(w))
    BY DEF Next, vars, Publish, Assign, Deliver, SkipUnreadable, Start, Ingest,
           AppendOk, AppendFail, AppendRefused, AckOk, AckFail, Close, Crash
  <1>4. QED
    BY <1>1, <1>2, <1>3

\* Once a published message is accounted for, it stays so.
LEMMA PersistedIsStable ==
  ASSUME TypeOK, OffsetsInTopic, [Next]_vars,
         NEW p \in Partitions, NEW o \in 1..Len(topic[p]), PersistedAt(p, o)
  PROVE  PersistedAt(p, o)'
  <1>1. topic'[p][o] = topic[p][o]
    BY TopicStep
  <1>2. CASE ~Readable(topic[p][o])
    BY <1>1, <1>2 DEF PersistedAt, Readable
  <1>3. CASE Readable(topic[p][o])
    <2>1. topic[p][o].id \in Ids
      BY <1>3, ReadableIsEvent DEF Event
    <2>2. bronze[topic[p][o].id] # NoRow
      BY <1>3 DEF PersistedAt
    <2>3. bronze'[topic[p][o].id] # NoRow
      BY <2>1, <2>2, RowsStep
    <2>4. QED
      BY <1>1, <2>3 DEF PersistedAt
  <1>4. QED
    BY <1>2, <1>3

\* Who holds what: a worker's stage and message change only by its own
\* actions, which either leave the loop, fetch a new message, or move from
\* append to acknowledge with the same one.
LEMMA HeldStep ==
  ASSUME TypeOK, [Next]_vars, NEW w \in Workers,
         stage'[w] \in {"appending", "acking"}
  PROVE  \/ /\ stage'[w] = stage[w]
            /\ consumed'[w] = consumed[w]
         \/ AppendOk(w)
         \/ \E p \in Partitions : Deliver(w, p)
  <1>1. CASE \E v \in Workers : v # w /\ \/ \E p \in Partitions : Deliver(v, p)
                                         \/ AppendOk(v)
    BY <1>1 DEF TypeOK, Deliver, AppendOk
  <1>2. CASE \E v \in Workers :
               \/ Start(v) \/ Ingest(v) \/ AppendFail(v) \/ AppendRefused(v)
               \/ AckOk(v) \/ AckFail(v)
    BY <1>2 DEF TypeOK, Start, Ingest, AppendFail, AppendRefused, AckOk, AckFail
  <1>3. CASE \E v \in Workers : Close(v) \/ Crash(v)
    BY <1>3 DEF TypeOK, Close, Crash
  <1>4. CASE \/ \E p \in Partitions, m \in Message : Publish(p, m)
             \/ \E p \in Partitions, v \in Workers : Assign(p, v) \/ SkipUnreadable(v, p)
    BY <1>4 DEF Publish, Assign, SkipUnreadable, workerVars
  <1>5. CASE UNCHANGED vars
    BY <1>5 DEF vars, workerVars
  <1>6. QED
    BY <1>1, <1>2, <1>3, <1>4, <1>5 DEF Next

\* The committed offset of a partition moves only to the offset that a worker
\* in the acknowledging stage holds.
LEMMA CommitStep ==
  ASSUME TypeOK, OffsetsInTopic, [Next]_vars, NEW p \in Partitions
  PROVE  \/ committed'[p] = committed[p]
         \/ \E w \in Workers : /\ stage[w] = "acking"
                               /\ consumed[w][1] = p
                               /\ committed'[p] = consumed[w][2]
  <1>1. CASE committed' = committed
    BY <1>1
  <1>2. ASSUME NEW w \in Workers, stage[w] = "acking", committed' = CommittedBy(w)
        PROVE  \/ committed'[p] = committed[p]
               \/ consumed[w][1] = p /\ committed'[p] = consumed[w][2]
    BY <1>2, HeldIsEvent DEF TypeOK, CommittedBy
  <1>3. \/ committed' = committed
        \/ \E w \in Workers : stage[w] = "acking" /\ committed' = CommittedBy(w)
    BY DEF Next, vars, brokerVars, Publish, Assign, Deliver, SkipUnreadable, Start,
           Ingest, AppendOk, AppendFail, AppendRefused, AckOk, AckFail, Close, Crash
  <1>4. QED
    BY <1>1, <1>2, <1>3

\* A fetch position stays, is reset to the committed offset, or advances by
\* one message inside the topic.
LEMMA PositionStep ==
  ASSUME TypeOK, [Next]_vars, NEW p \in Partitions
  PROVE  \/ position'[p] = position[p]
         \/ position'[p] = committed[p]
         \/ position[p] < Len(topic[p]) /\ position'[p] = position[p] + 1
  <1>1. CASE position' = position
    BY <1>1
  <1>2. CASE \E q \in Partitions, w \in Workers : Assign(q, w)
    BY <1>2 DEF TypeOK, Assign
  <1>3. CASE \E q \in Partitions, w \in Workers : Deliver(w, q) \/ SkipUnreadable(w, q)
    BY <1>3 DEF TypeOK, Deliver, SkipUnreadable
  <1>4. QED
    BY <1>1, <1>2, <1>3
    DEF Next, vars, brokerVars, Publish, Start, Ingest, AppendOk, AppendFail,
        AppendRefused, AckOk, AckFail, Close, Crash

\* Offsets stay inside the topic, and what is held stays readable.
LEMMA StepOffsetsInTopic ==
  ASSUME TypeOK, TypeOK', OffsetsInTopic, [Next]_vars
  PROVE  OffsetsInTopic'
  <1>1. ASSUME NEW p \in Partitions
        PROVE  committed'[p] <= Len(topic'[p]) /\ position'[p] <= Len(topic'[p])
    <2>1. committed'[p] <= Len(topic[p])
      <3>1. CASE committed'[p] = committed[p]
        BY <3>1 DEF OffsetsInTopic
      <3>2. ASSUME NEW w \in Workers, stage[w] = "acking",
                   consumed[w][1] = p, committed'[p] = consumed[w][2]
            PROVE  committed'[p] <= Len(topic[p])
        BY <3>2 DEF OffsetsInTopic
      <3>3. QED
        BY <3>1, <3>2, CommitStep
    <2>2. position'[p] <= Len(topic[p])
      <3>1. /\ position[p] \in Nat /\ Len(topic[p]) \in Nat
            /\ position[p] <= Len(topic[p]) /\ committed[p] <= Len(topic[p])
        BY TopicStep DEF OffsetsInTopic, TypeOK
      <3>2. QED
        BY <3>1, PositionStep
    <2>3. QED
      BY <2>1, <2>2, TopicStep DEF TypeOK
  <1>2. ASSUME NEW w \in Workers, stage'[w] \in {"appending", "acking"}
        PROVE  /\ consumed'[w] \in Place
               /\ consumed'[w][2] <= Len(topic'[consumed'[w][1]])
               /\ Readable(Held(w)')
    <2>1. CASE stage'[w] = stage[w] /\ consumed'[w] = consumed[w]
      <3>1. /\ consumed[w] \in Place
            /\ consumed[w][1] \in Partitions
            /\ consumed[w][2] \in 1..Len(topic[consumed[w][1]])
            /\ Readable(topic[consumed[w][1]][consumed[w][2]])
        BY <1>2, <2>1 DEF OffsetsInTopic, Place, TypeOK, Held
      <3>2. QED
        BY <2>1, <3>1, TopicStep DEF Held
    <2>2. CASE AppendOk(w)
      BY <2>2 DEF AppendOk, brokerVars, OffsetsInTopic, Held
    <2>3. ASSUME NEW p \in Partitions, Deliver(w, p)
          PROVE  /\ consumed'[w] \in Place
                 /\ consumed'[w][2] <= Len(topic'[consumed'[w][1]])
                 /\ Readable(Held(w)')
      BY <2>3 DEF Deliver, TypeOK, Place, Held
    <2>4. QED
      BY <1>2, <2>1, <2>2, <2>3, HeldStep
  <1>3. QED
    BY <1>1, <1>2 DEF OffsetsInTopic

\* The counter stays below the batch size inside the loop.
LEMMA StepBatchBounded ==
  ASSUME TypeOK, BatchBounded, [Next]_vars
  PROVE  BatchBounded'
  <1> USE IngestionAssumption
  <1> SUFFICES ASSUME NEW w \in Workers,
                      stage'[w] \in {"polling", "appending", "acking"}
               PROVE  persisted'[w] < MaxEvents
    BY DEF BatchBounded
  <1>1. ASSUME NEW v \in Workers, Start(v) \/ Ingest(v)
        PROVE  persisted'[w] < MaxEvents
    <2>1. CASE Start(v)
      BY <2>1 DEF TypeOK, BatchBounded, Start
    <2>2. CASE Ingest(v) /\ v = w
      BY <2>2 DEF TypeOK, Ingest
    <2>3. CASE Ingest(v) /\ v # w
      BY <2>3 DEF TypeOK, BatchBounded, Ingest
    <2>4. QED
      BY <1>1, <2>1, <2>2, <2>3
  <1>2. CASE \E v \in Workers : AckOk(v) \/ AckFail(v)
    BY <1>2 DEF TypeOK, BatchBounded, AckOk, AckFail
  <1>3. CASE \E v \in Workers : \/ AppendOk(v) \/ AppendFail(v) \/ AppendRefused(v)
                                \/ Close(v) \/ Crash(v)
                                \/ \E p \in Partitions : Deliver(v, p)
    BY <1>3 DEF TypeOK, BatchBounded, AppendOk, AppendFail, AppendRefused, Close,
                Crash, Deliver
  <1>4. CASE \/ \E p \in Partitions, m \in Message : Publish(p, m)
             \/ \E p \in Partitions, v \in Workers : Assign(p, v) \/ SkipUnreadable(v, p)
             \/ UNCHANGED vars
    BY <1>4 DEF BatchBounded, Publish, Assign, SkipUnreadable, workerVars, vars
  <1>5. QED
    BY <1>1, <1>2, <1>3, <1>4 DEF Next

\* Acknowledging stays safe: below the offset a worker holds everything has a
\* row, because the message was delivered to an owner that had finished with
\* all earlier ones, and rows never go away.
LEMMA StepHeldPrefix ==
  ASSUME IInv, TypeOK', [Next]_vars
  PROVE  HeldPrefixPersisted'
  <1> USE DEF IInv
  <1> SUFFICES ASSUME NEW w \in Workers, stage'[w] \in {"appending", "acking"},
                      NEW p, p = consumed'[w][1],
                      NEW n, n = consumed'[w][2]
               PROVE  /\ \A o \in 1..(n - 1) : PersistedAt(p, o)'
                      /\ stage'[w] = "acking" => bronze'[topic'[p][n].id] # NoRow
    BY DEF HeldPrefixPersisted, PersistedAt, Held
  <1>1. ASSUME stage[w] \in {"appending", "acking"}, consumed'[w] = consumed[w]
        PROVE  /\ p \in Partitions /\ n \in 1..Len(topic[p])
               /\ Held(w) \in Event
               /\ Held(w) = topic[p][n] /\ topic'[p][n] = topic[p][n]
               /\ \A o \in 1..(n - 1) : PersistedAt(p, o)'
    <2>1. /\ p \in Partitions /\ n \in 1..Len(topic[p])
          /\ Held(w) \in Event /\ Held(w) = topic[p][n]
      BY <1>1, HeldIsEvent
    <2>2. topic'[p][n] = topic[p][n]
      BY <2>1, TopicStep
    <2>3. ASSUME NEW o \in 1..(n - 1)
          PROVE  PersistedAt(p, o)'
      <3>1. PersistedAt(p, o)
        BY <1>1 DEF HeldPrefixPersisted
      <3>2. o \in 1..Len(topic[p])
        BY <2>1
      <3>3. QED
        BY <2>1, <3>1, <3>2, PersistedIsStable
    <2>4. QED
      BY <2>1, <2>2, <2>3
  <1>2. CASE stage'[w] = stage[w] /\ consumed'[w] = consumed[w]
    <2>1. stage[w] = "acking" => bronze'[Held(w).id] # NoRow
      BY <1>1, <1>2, RowsStep DEF HeldPrefixPersisted, Event
    <2>2. QED
      BY <1>1, <1>2, <2>1
  <1>3. CASE AppendOk(w)
    <2>1. consumed'[w] = consumed[w] /\ stage[w] = "appending"
      BY <1>3 DEF AppendOk
    <2>2. bronze'[Held(w).id] # NoRow
      BY <1>1, <1>3, <2>1, InsertedKeepsRows DEF AppendOk
    <2>3. QED
      BY <1>1, <2>1, <2>2
  <1>4. ASSUME NEW q \in Partitions, Deliver(w, q)
        PROVE  /\ \A o \in 1..(n - 1) : PersistedAt(p, o)'
               /\ stage'[w] # "acking"
    <2>1. /\ p = q /\ n = position[p] + 1
          /\ stage'[w] = "appending"
          /\ position[p] \in Nat /\ position[p] < Len(topic[p])
          /\ owner[p] = w /\ stage[w] = "polling"
      BY <1>4 DEF Deliver, TypeOK
    <2>2. ASSUME NEW o \in 1..(n - 1)
          PROVE  PersistedAt(p, o)'
      <3>1. PersistedAt(p, o)
        BY <2>1 DEF FetchedIsPersisted
      <3>2. o \in 1..Len(topic[p])
        BY <2>1, TopicStep
      <3>3. QED
        BY <2>1, <3>1, <3>2, PersistedIsStable
    <2>3. QED
      BY <2>1, <2>2
  <1>5. QED
    BY <1>2, <1>3, <1>4, HeldStep

\* The committed prefix stays persisted: an acknowledgement adds only what
\* HeldPrefixPersisted covers.
LEMMA StepAcked ==
  ASSUME IInv, TypeOK', [Next]_vars
  PROVE  AckedIsPersisted'
  <1> USE DEF IInv
  <1> SUFFICES ASSUME NEW p \in Partitions, NEW o \in 1..committed'[p]
               PROVE  PersistedAt(p, o)'
    BY DEF AckedIsPersisted
  <1>1. CASE committed'[p] = committed[p]
    <2>1. PersistedAt(p, o)
      BY <1>1 DEF AckedIsPersisted
    <2>2. o \in 1..Len(topic[p])
      BY <1>1, TopicStep DEF OffsetsInTopic, TypeOK
    <2>3. QED
      BY <2>1, <2>2, PersistedIsStable
  <1>2. ASSUME NEW w \in Workers, stage[w] = "acking",
               consumed[w][1] = p, committed'[p] = consumed[w][2]
        PROVE  PersistedAt(p, o)'
    <2>1. /\ consumed[w][2] \in 1..Len(topic[p])
          /\ Held(w) = topic[p][consumed[w][2]]
      BY <1>2, HeldIsEvent
    <2>2. PersistedAt(p, o)
      <3>1. CASE o = consumed[w][2]
        BY <1>2, <2>1, <3>1 DEF HeldPrefixPersisted, PersistedAt
      <3>2. CASE o # consumed[w][2]
        <4>1. o \in 1..(consumed[w][2] - 1)
          BY <1>2, <2>1, <3>2
        <4>2. QED
          BY <1>2, <4>1 DEF HeldPrefixPersisted
      <3>3. QED
        BY <3>1, <3>2
    <2>3. o \in 1..Len(topic[p])
      BY <1>2, <2>1, TopicStep
    <2>4. QED
      BY <2>2, <2>3, PersistedIsStable
  <1>3. QED
    BY <1>1, <1>2, CommitStep

\* What an owner has fetched stays accounted for: a new owner starts from the
\* committed prefix, an owner fetches on only when it holds nothing.
LEMMA StepFetched ==
  ASSUME IInv, TypeOK', [Next]_vars
  PROVE  FetchedIsPersisted'
  <1> USE IngestionAssumption DEF IInv
  <1> SUFFICES ASSUME NEW p \in Partitions, NEW w \in Workers, owner'[p] = w,
                      NEW o \in 1..position'[p]
               PROVE  \/ PersistedAt(p, o)'
                      \/ stage'[w] \in {"appending", "failed"} /\ consumed'[w] = <<p, o>>
    BY DEF FetchedIsPersisted
  <1> DEFINE Done == \/ PersistedAt(p, o)'
                     \/ stage'[w] \in {"appending", "failed"} /\ consumed'[w] = <<p, o>>
  <1>a. o \in Nat /\ o >= 1 /\ o <= position'[p]
    BY DEF TypeOK
  <1>b. /\ position[p] \in Nat /\ Len(topic[p]) \in Nat
        /\ position[p] <= Len(topic[p])
        /\ committed[p] \in Nat /\ committed[p] <= Len(topic[p])
    BY TopicStep DEF OffsetsInTopic, TypeOK
  <1>1. ASSUME PersistedAt(p, o), o <= Len(topic[p])
        PROVE  Done
    BY <1>a, <1>b, <1>1, PersistedIsStable
  <1>2. ASSUME owner[p] = w, position'[p] = position[p],
               stage[w] \notin {"appending", "failed"}
        PROVE  Done
    <2>1. PersistedAt(p, o)
      BY <1>2 DEF FetchedIsPersisted
    <2>2. QED
      BY <1>1, <1>2, <1>a, <1>b, <2>1
  <1>3. ASSUME owner[p] = w, position'[p] = position[p],
               stage[w] \in {"appending", "failed"} => stage'[w] \in {"appending", "failed"},
               consumed'[w] = consumed[w]
        PROVE  Done
    <2>1. \/ PersistedAt(p, o)
          \/ stage[w] \in {"appending", "failed"} /\ consumed[w] = <<p, o>>
      BY <1>3 DEF FetchedIsPersisted
    <2>2. QED
      BY <1>1, <1>3, <1>a, <1>b, <2>1
  <1>4. ASSUME NEW q \in Partitions, NEW m \in Message, Publish(q, m)
        PROVE  Done
    BY <1>3, <1>4 DEF Publish, workerVars
  <1>5. ASSUME NEW q \in Partitions, NEW v \in Workers, Assign(q, v)
        PROVE  Done
    <2>1. CASE q = p
      <3>1. position'[p] = committed[p]
        BY <1>5, <2>1 DEF Assign, TypeOK
      <3>2. PersistedAt(p, o)
        BY <3>1 DEF AckedIsPersisted
      <3>3. QED
        BY <1>1, <1>a, <1>b, <3>1, <3>2
    <2>2. CASE q # p
      BY <1>3, <1>5, <2>2 DEF Assign, TypeOK, workerVars
    <2>3. QED
      BY <2>1, <2>2
  <1>6. ASSUME NEW q \in Partitions, NEW v \in Workers,
               Deliver(v, q) \/ SkipUnreadable(v, q)
        PROVE  Done
    <2>1. owner[p] = w /\ stage[v] = "polling" /\ owner[q] = v
      BY <1>6 DEF Deliver, SkipUnreadable
    <2>2. CASE q # p /\ v = w
      <3>1. position'[p] = position[p]
        BY <1>6, <2>2 DEF Deliver, SkipUnreadable, TypeOK
      <3>2. QED
        BY <1>2, <2>1, <2>2, <3>1
    <2>3. CASE q # p /\ v # w
      <3>1. position'[p] = position[p] /\ stage'[w] = stage[w] /\ consumed'[w] = consumed[w]
        BY <1>6, <2>3 DEF Deliver, SkipUnreadable, TypeOK, workerVars
      <3>2. QED
        BY <1>3, <2>1, <3>1
    <2>4. CASE q = p
      <3>1. v = w /\ position'[p] = position[p] + 1 /\ position[p] < Len(topic[p])
        BY <1>6, <2>1, <2>4 DEF Deliver, SkipUnreadable, TypeOK
      <3>2. CASE o <= position[p]
        <4>1. PersistedAt(p, o)
          BY <2>1, <3>1, <3>2, <1>a, <1>b DEF FetchedIsPersisted
        <4>2. QED
          BY <1>1, <1>b, <1>a, <3>2, <4>1
      <3>3. CASE o = position[p] + 1 /\ Deliver(v, q)
        BY <2>4, <3>1, <3>3 DEF Deliver, TypeOK
      <3>4. CASE o = position[p] + 1 /\ SkipUnreadable(v, q)
        <4>1. PersistedAt(p, o) /\ o <= Len(topic[p])
          BY <2>4, <3>1, <3>4, <1>b DEF SkipUnreadable, PersistedAt
        <4>2. QED
          BY <1>1, <4>1
      <3>5. QED
        BY <1>6, <1>a, <1>b, <3>1, <3>2, <3>3, <3>4
    <2>5. QED
      BY <2>2, <2>3, <2>4
  <1>7. ASSUME NEW v \in Workers,
               \/ Start(v) \/ Ingest(v) \/ AckOk(v) \/ AckFail(v)
               \/ AppendFail(v) \/ AppendRefused(v)
        PROVE  Done
    <2>1. owner[p] = w /\ position'[p] = position[p] /\ consumed'[w] = consumed[w]
      BY <1>7 DEF Start, Ingest, AckOk, AckFail, AppendFail, AppendRefused, brokerVars
    <2>2. \/ stage[w] \notin {"appending", "failed"}
          \/ stage'[w] \in {"appending", "failed"}
      BY <1>7 DEF Start, Ingest, AckOk, AckFail, AppendFail, AppendRefused, TypeOK
    <2>3. QED
      BY <1>2, <1>3, <2>1, <2>2
  <1>8. ASSUME NEW v \in Workers, AppendOk(v)
        PROVE  Done
    <2>1. owner[p] = w /\ position'[p] = position[p] /\ consumed'[w] = consumed[w]
      BY <1>8 DEF AppendOk, brokerVars
    <2>2. CASE v # w
      BY <1>3, <1>8, <2>1, <2>2 DEF AppendOk, TypeOK
    <2>3. CASE v = w /\ consumed[w] = <<p, o>>
      <3>1. /\ Held(w) \in Event /\ Held(w) = topic[p][o] /\ o \in 1..Len(topic[p])
        BY <1>8, <2>3, HeldIsEvent DEF AppendOk
      <3>2. bronze'[Held(w).id] # NoRow
        BY <1>8, <2>3, <3>1, InsertedKeepsRows DEF AppendOk
      <3>3. QED
        BY <3>1, <3>2, TopicStep DEF PersistedAt
    <2>4. CASE v = w /\ consumed[w] # <<p, o>>
      <3>1. PersistedAt(p, o)
        BY <2>1, <2>4 DEF FetchedIsPersisted
      <3>2. QED
        BY <1>1, <1>a, <1>b, <2>1, <3>1
    <2>5. QED
      BY <2>2, <2>3, <2>4
  <1>9. ASSUME NEW v \in Workers, Close(v) \/ Crash(v)
        PROVE  Done
    <2>1. owner' = Released(v) /\ position' = position
      BY <1>9 DEF Close, Crash
    <2>2. v # w /\ owner[p] = w
      BY <2>1 DEF Released, TypeOK
    <2>3. stage'[w] = stage[w] /\ consumed'[w] = consumed[w]
      BY <1>9, <2>2 DEF Close, Crash, TypeOK
    <2>4. QED
      BY <1>3, <2>1, <2>2, <2>3
  <1>10. CASE UNCHANGED vars
    BY <1>3, <1>10 DEF vars, brokerVars, workerVars
  <1>11. QED
    BY <1>4, <1>5, <1>6, <1>7, <1>8, <1>9, <1>10 DEF Next

\* The invariant holds in every reachable state.
THEOREM IngestionInvariant == Spec => []IInv
  <1>1. Init => IInv
    <2>1. Init => OffsetsInTopic /\ BatchBounded
      BY DEF Init, OffsetsInTopic, BatchBounded
    <2>2. Init => HeldPrefixPersisted
      BY DEF Init, HeldPrefixPersisted
    <2>3. Init => FetchedIsPersisted /\ AckedIsPersisted
      BY DEF Init, FetchedIsPersisted, AckedIsPersisted
    <2>4. QED
      BY <2>1, <2>2, <2>3, InitTypeOK DEF IInv
  <1>2. IInv /\ [Next]_vars => IInv'
    <2> SUFFICES ASSUME IInv, [Next]_vars PROVE IInv'
      OBVIOUS
    <2>1. TypeOK'
      BY StepTypeOK DEF IInv
    <2>2. OffsetsInTopic' /\ BatchBounded'
      BY <2>1, StepOffsetsInTopic, StepBatchBounded DEF IInv
    <2>3. HeldPrefixPersisted' /\ FetchedIsPersisted' /\ AckedIsPersisted'
      BY <2>1, StepHeldPrefix, StepFetched, StepAcked
    <2>4. QED
      BY <2>1, <2>2, <2>3 DEF IInv
  <1>3. QED
    BY <1>1, <1>2, PTL DEF Spec

\* Types are kept by every operation of the ingestion stage.
THEOREM TypeCorrect == Spec => []TypeOK
  BY IngestionInvariant, PTL DEF IInv

\* Whatever its owner has fetched of a partition is in Bronze, but for the one
\* message in its hands.
THEOREM FetchedOrInHand == Spec => []FetchedIsPersisted
  BY IngestionInvariant, PTL DEF IInv

\* Ack-after-persist (bronze_ingestion.py:73-134) for any number of workers
\* and partitions and any crashes, failures and rebalances.
THEOREM AckAfterPersist == Spec => []AckedIsPersisted
  BY IngestionInvariant, PTL DEF IInv

\* A step that may insert the held event preserves one more message for the
\* landing zone, or nothing.
LEMMA InsertIsPreserve ==
  ASSUME TypeOK, OffsetsInTopic,
         NEW w \in Workers, stage[w] = "appending",
         bronze' \in {bronze, Inserted(Held(w))}, topic' = topic, committed' = committed
  PROVE  [LZ!Next]_(LZ!lzVars)
  <1>1. CASE bronze' = bronze
    BY <1>1 DEF LZ!lzVars
  <1>2. CASE bronze' = Inserted(Held(w)) /\ bronze[Held(w).id] = NoRow
    <2>1. /\ consumed[w][1] \in Partitions
          /\ consumed[w][2] \in 1..Len(topic[consumed[w][1]])
          /\ Held(w) = topic[consumed[w][1]][consumed[w][2]]
      BY HeldIsEvent
    <2>2. Readable(Held(w))
      BY DEF OffsetsInTopic
    <2>3. LZ!Preserve
      BY <1>2, <2>1, <2>2 DEF LZ!Preserve, LZ!Readable, Readable, Inserted
    <2>4. QED
      BY <2>3 DEF LZ!Next
  <1>3. CASE bronze' = Inserted(Held(w)) /\ bronze[Held(w).id] # NoRow
    BY <1>3 DEF Inserted, LZ!lzVars
  <1>4. QED
    BY <1>1, <1>2, <1>3

\* A step that may commit the held offset settles a prefix that is preserved,
\* or nothing.
LEMMA CommitIsSettle ==
  ASSUME IInv, NEW w \in Workers, stage[w] = "acking",
         committed' \in {committed, CommittedBy(w)}, topic' = topic, bronze' = bronze
  PROVE  [LZ!Next]_(LZ!lzVars)
  <1> USE DEF IInv
  <1>1. CASE committed' = committed
    BY <1>1 DEF LZ!lzVars
  <1>2. CASE committed' = CommittedBy(w)
    <2>1. PICK p \in Partitions, n \in Nat :
            /\ n \in 1..Len(topic[p])
            /\ consumed[w][1] = p /\ consumed[w][2] = n
            /\ Held(w) = topic[p][n]
      BY HeldIsEvent
    <2>2. ASSUME NEW o \in 1..n
          PROVE  PersistedAt(p, o)
      <3>1. CASE o = n
        BY <2>1, <3>1 DEF HeldPrefixPersisted, PersistedAt
      <3>2. CASE o # n
        BY <2>1, <3>2 DEF HeldPrefixPersisted
      <3>3. QED
        BY <3>1, <3>2
    <2>3. LZ!PreservedUpTo(p, n)
      BY <2>2 DEF LZ!PreservedUpTo, LZ!Readable, PersistedAt, Readable
    <2>4. n \in 0..Len(topic[p])
      BY <2>1
    <2>5. LZ!Settle
      BY <1>2, <2>1, <2>3, <2>4 DEF LZ!Settle, CommittedBy
    <2>6. QED
      BY <2>5 DEF LZ!Next
  <1>3. QED
    BY <1>1, <1>2

\* BronzeIngestion implements LandingZone: rows are contents of published
\* messages, are never replaced, and an offset is committed only over rows.
THEOREM ImplementsLandingZone == Spec => RefinesLandingZone
  <1>1. Init => LZ!Init
    BY DEF Init, LZ!Init
  <1>2. IInv /\ [Next]_vars => [LZ!Next]_(LZ!lzVars)
    <2> SUFFICES ASSUME IInv, [Next]_vars PROVE [LZ!Next]_(LZ!lzVars)
      OBVIOUS
    <2>1. CASE \E p \in Partitions, m \in Message : Publish(p, m)
      <3>1. LZ!Publish
        BY <2>1 DEF Publish, LZ!Publish, LZ!Message, LZ!Event, Message, Event
      <3>2. QED
        BY <3>1 DEF LZ!Next
    <2>2. ASSUME NEW w \in Workers, AppendOk(w) \/ AppendFail(w)
          PROVE  [LZ!Next]_(LZ!lzVars)
      <3>1. /\ stage[w] = "appending"
            /\ bronze' \in {bronze, Inserted(Held(w))}
            /\ topic' = topic /\ committed' = committed
        BY <2>2 DEF AppendOk, AppendFail, brokerVars
      <3>2. QED
        BY <3>1, InsertIsPreserve DEF IInv
    <2>3. ASSUME NEW w \in Workers, AckOk(w) \/ AckFail(w)
          PROVE  [LZ!Next]_(LZ!lzVars)
      <3>1. /\ stage[w] = "acking"
            /\ committed' \in {committed, CommittedBy(w)}
            /\ topic' = topic /\ bronze' = bronze
        BY <2>3 DEF AckOk, AckFail
      <3>2. QED
        BY <3>1, CommitIsSettle
    <2>4. CASE \/ \E p \in Partitions, w \in Workers :
                    Assign(p, w) \/ Deliver(w, p) \/ SkipUnreadable(w, p)
               \/ \E w \in Workers : \/ Start(w) \/ Ingest(w) \/ AppendRefused(w)
                                     \/ Close(w) \/ Crash(w)
               \/ UNCHANGED vars
      BY <2>4 DEF Assign, Deliver, SkipUnreadable, Start, Ingest, AppendRefused,
                  Close, Crash, vars, brokerVars, LZ!lzVars
    <2>5. QED
      BY <2>1, <2>2, <2>3, <2>4 DEF Next
  <1>3. QED
    BY <1>1, <1>2, IngestionInvariant, PTL DEF Spec, RefinesLandingZone, LZ!Spec

\* Every row is the content of a message of the topic.
RowsAreMessages ==
  \A id \in Ids : bronze[id] # NoRow =>
    \E p \in Partitions : \E o \in DOMAIN topic[p] :
      topic[p][o] = [id |-> id, body |-> bronze[id]]

\* A message keeps its place in the topic.
LEMMA MessageStays ==
  ASSUME IInv, [Next]_vars,
         NEW p \in Partitions, NEW o \in DOMAIN topic[p]
  PROVE  o \in DOMAIN topic'[p] /\ topic'[p][o] = topic[p][o]
  <1> USE DEF IInv
  <1>1. /\ Len(topic[p]) \in Nat /\ Len(topic'[p]) \in Nat
        /\ Len(topic[p]) <= Len(topic'[p])
        /\ \A i \in 1..Len(topic[p]) : topic'[p][i] = topic[p][i]
    BY TopicStep
  <1>2. topic[p] \in Seq(Message) /\ topic'[p] \in Seq(Message)
    BY StepTypeOK DEF TypeOK
  <1>3. DOMAIN topic[p] = 1..Len(topic[p]) /\ DOMAIN topic'[p] = 1..Len(topic'[p])
    BY <1>2
  <1>4. QED
    BY <1>1, <1>3

\* Bronze holds nothing but what was published (bronze_ingestion.py:99-112):
\* the row of an event_id is the body of one of its messages.
THEOREM RowsFromTopic == Spec => []RowsAreMessages
  <1>1. Init => RowsAreMessages
    BY DEF Init, RowsAreMessages
  <1>2. IInv /\ RowsAreMessages /\ [Next]_vars => RowsAreMessages'
    <2> SUFFICES ASSUME IInv, RowsAreMessages, [Next]_vars,
                        NEW id \in Ids, bronze'[id] # NoRow
                 PROVE  \E p \in Partitions : \E o \in DOMAIN topic'[p] :
                          topic'[p][o] = [id |-> id, body |-> bronze'[id]]
      BY DEF RowsAreMessages
    <2> USE DEF IInv
    <2>1. CASE bronze[id] # NoRow
      <3>1. PICK p \in Partitions : \E o \in DOMAIN topic[p] :
              topic[p][o] = [id |-> id, body |-> bronze[id]]
        BY <2>1 DEF RowsAreMessages
      <3>2. PICK o \in DOMAIN topic[p] : topic[p][o] = [id |-> id, body |-> bronze[id]]
        BY <3>1
      <3>3. bronze'[id] = bronze[id]
        BY <2>1, RowsStep
      <3>4. QED
        BY <3>2, <3>3, MessageStays
    <2>2. CASE bronze[id] = NoRow
      <3>1. PICK w \in Workers : stage[w] = "appending" /\ bronze' = Inserted(Held(w))
        BY <2>2 DEF Next, vars, Publish, Assign, Deliver, SkipUnreadable, Start, Ingest,
               AppendOk, AppendFail, AppendRefused, AckOk, AckFail, Close, Crash
      <3>2. /\ consumed[w][1] \in Partitions
            /\ consumed[w][2] \in 1..Len(topic[consumed[w][1]])
            /\ Held(w) = topic[consumed[w][1]][consumed[w][2]]
            /\ Held(w) \in Event
        BY <3>1, HeldIsEvent
      <3>3. id = Held(w).id /\ bronze'[id] = Held(w).body
        BY <2>2, <3>1, <3>2 DEF Inserted, TypeOK, Event
      <3>4. Held(w) = [id |-> id, body |-> bronze'[id]]
        BY <3>2, <3>3 DEF Event
      <3>5. consumed[w][2] \in DOMAIN topic[consumed[w][1]]
        BY <3>2 DEF TypeOK
      <3>6. /\ consumed[w][2] \in DOMAIN topic'[consumed[w][1]]
            /\ topic'[consumed[w][1]][consumed[w][2]] = Held(w)
        BY <3>2, <3>5, MessageStays
      <3>7. QED
        BY <3>2, <3>4, <3>6
    <2>3. QED
      BY <2>1, <2>2
  <1>3. QED
    BY <1>1, <1>2, IngestionInvariant, PTL DEF Spec
=============================================================================
