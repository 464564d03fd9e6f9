-------------------------- MODULE ProducerRunProofs --------------------------
(***************************************************************************)
(* Proofs about ProducerRun, for any script, any messages and any calls of *)
(* another task, and about the pure functions it is built from.            *)
(***************************************************************************)
EXTENDS ProducerRun, WellFoundedInduction, SequenceTheorems, TLAPS

----------------------------------------------------------------------------
(* Preparation and validation, for every raw event.                        *)

\* What prepare() knows of an event when it raises nothing.
LEMMA PreparedFields ==
  ASSUME NEW source \in Sources, NEW raw \in Raw, Prepares(source, raw)
  PROVE  /\ Str[raw.side] \in Sides
         /\ raw.symbol \in Strings
         /\ raw.trade_id \in Strings \cup NonStrings
         /\ Str[raw.trade_id] \in Strings
         /\ Str[raw.trade_id] \in Blanks <=> raw.trade_id \in Blanks
         /\ source = "dev" => raw.trade_id \in Strings /\ EventTypeOf(raw) \in EventTypes
         /\ raw.time \in Instants
         /\ raw.price \in Decimals \ NonFinite
         /\ raw.quantity \in Decimals \ NonFinite
<1>1. ~FieldsRefused(source, raw)
  BY DEF Prepares, Refuses
<1>2. raw.time \in Instants
  BY <1>1 DEF Prepares, Escapes, FieldsRefused, Raw
<1>3. raw.time \notin FarInstants
  BY <1>2, ContractsAssumption
<1>4. raw.price \in Decimals \ NonFinite /\ raw.quantity \in Decimals \ NonFinite
  BY <1>1, <1>3 DEF Prepares, Refuses, Escapes, NumbersRefused, Raw
<1>5. Str[raw.side] \in Sides /\ raw.symbol \in Strings
  BY <1>1 DEF FieldsRefused, SideKnown, NonEmptyString
<1>6. raw.trade_id \in Strings \cup NonStrings
  BY <1>1 DEF FieldsRefused, NonEmptyString, Raw, Sources
<1>7. Str[raw.trade_id] \in Strings
  BY <1>6, ContractsAssumption
<1>8. Str[raw.trade_id] \in Blanks <=> raw.trade_id \in Blanks
  BY <1>6, ContractsAssumption
<1>9. source = "dev" => raw.trade_id \in Strings /\ EventTypeOf(raw) \in EventTypes
  BY <1>1 DEF FieldsRefused, NonEmptyString, TypeKnown, EventTypeOf, EventTypes
<1> QED BY <1>2, <1>4, <1>5, <1>6, <1>7, <1>8, <1>9

\* What an event_id says behind its source, and that it says it.
IdDetail(source, raw) ==
  IF source = "coinbase" THEN Split[Str[raw.trade_id]]
                         ELSE Split[Str[raw.trade_id]] \o <<raw.time>>

LEMMA IdParts ==
  ASSUME NEW source \in Sources, NEW raw \in Raw, Prepares(source, raw)
  PROVE  /\ source \in Strings
         /\ Split[Str[raw.trade_id]] \in Seq(Strings \cup Instants)
         /\ Split[Str[raw.trade_id]] # <<>>
         /\ IdDetail(source, raw) \in Seq(Strings \cup Instants)
         /\ EventId(source, raw) = <<source>> \o IdDetail(source, raw)
<1> DEFINE Parts == Strings \cup Instants
           id == Split[Str[raw.trade_id]]
<1>1. source \in Strings
  BY ContractsAssumption DEF Sources
<1>2. /\ raw.time \in Instants /\ Str[raw.trade_id] \in Strings
      /\ source = "dev" => raw.trade_id \in Strings
  BY PreparedFields
<1>3. id \in Seq(Parts) /\ id # <<>>
  BY <1>2, ContractsAssumption
<1>4. source = "dev" => Split[raw.trade_id] = id
  BY <1>2, ContractsAssumption
<1>5. source \in Parts /\ raw.time \in Parts
  BY <1>1, <1>2
<1> HIDE DEF Parts
<1>6. CASE source = "coinbase"
  BY <1>1, <1>3, <1>6 DEF EventId, IdDetail, Parts
<1>7. CASE source = "dev"
  <2>1. EventId(source, raw) = <<source>> \o id \o <<raw.time>>
    BY <1>4, <1>7 DEF EventId
  <2>2. IdDetail(source, raw) = id \o <<raw.time>>
    BY <1>7 DEF IdDetail
  <2> HIDE DEF id
  <2>3. /\ id \o <<raw.time>> \in Seq(Parts)
        /\ <<source>> \o id \o <<raw.time>> = <<source>> \o (id \o <<raw.time>>)
    BY <1>3, <1>5
  <2> QED BY <1>1, <1>3, <2>1, <2>2, <2>3 DEF Parts, id
<1> QED BY <1>6, <1>7 DEF Sources

LEMMA PreparedType ==
  ASSUME NEW source \in Sources, NEW raw \in Raw, NEW now \in Instants,
         Prepares(source, raw)
  PROVE  prepare(source, raw, now) \in InternalEvent
<1> DEFINE Parts == Strings \cup Instants
<1>1. source \in Strings
  BY IdParts
<1>2. EventId(source, raw) \in Seq(Parts)
  <2>1. source \in Parts /\ IdDetail(source, raw) \in Seq(Parts)
    BY IdParts
  <2> HIDE DEF Parts
  <2>2. <<source>> \o IdDetail(source, raw) \in Seq(Parts)
    BY <2>1
  <2> QED BY <2>2, IdParts
<1>3. (IF source = "coinbase" THEN "trade" ELSE EventTypeOf(raw)) \in EventTypes
  BY PreparedFields DEF EventTypes, Sources
<1> QED BY <1>1, <1>2, <1>3, PreparedFields DEF prepare, InternalEvent

\* The only rules a prepared event can fail are those about the exchange's data.
LEMMA PreparedVerdict ==
  ASSUME NEW source \in Sources, NEW raw \in Raw, NEW now \in Instants,
         Prepares(source, raw)
  PROVE  IsValid(prepare(source, raw, now)) <=> IsUsable(raw)
<1> DEFINE made == prepare(source, raw, now)
<1>1. ~BlankId(made.event_id)
  <2>1. IdDetail(source, raw) \in Seq(Strings \cup Instants) /\ IdDetail(source, raw) # <<>>
    <3> DEFINE id == Split[Str[raw.trade_id]]
    <3>1. id \in Seq(Strings \cup Instants) /\ id # <<>>
      BY IdParts
    <3>2. IdDetail(source, raw) \in {id, id \o <<raw.time>>}
      BY DEF IdDetail
    <3> HIDE DEF id
    <3>3. id \o <<raw.time>> # <<>>
      BY <3>1
    <3> QED BY <3>1, <3>2, <3>3, IdParts
  <2>2. Len(<<source>> \o IdDetail(source, raw)) > 1
    BY <2>1
  <2>4. Len(EventId(source, raw)) > 1
    BY <2>2, IdParts
  <2>5. made.event_id = EventId(source, raw)
    BY DEF prepare
  <2> QED BY <2>4, <2>5 DEF BlankId
<1>2. source \in Strings \ Blanks
  BY ContractsAssumption DEF Sources
<1>3. /\ event_identity(made) = {}
      /\ trade_side_validity(made) = {}
      /\ timestamp_validity(made) = {}
  BY <1>1, PreparedFields DEF event_identity, trade_side_validity, timestamp_validity, Code, prepare
<1>4. trade_identity(made) = {} <=> raw.trade_id \notin Blanks
  BY PreparedFields DEF trade_identity, Code, BlankText, prepare
<1>5. symbol_validity(made) = {} <=> raw.symbol \notin Blanks \cup Padded
  BY PreparedFields DEF symbol_validity, Code, BlankText, prepare
<1>6. required_fields(made) = {} <=> raw.trade_id \notin Blanks /\ raw.symbol \notin Blanks
  BY <1>1, <1>2, PreparedFields DEF required_fields, Code, BlankText, prepare
<1>7. AmountCodes(made.price) = {} <=> raw.price \in Positive
  BY PreparedFields DEF AmountCodes, Code, prepare
<1>8. AmountCodes(made.quantity) = {} <=> raw.quantity \in Positive
  BY PreparedFields DEF AmountCodes, Code, prepare
<1>9. IsValid(made) <=>
        /\ required_fields(made) = {} /\ event_identity(made) = {}
        /\ trade_identity(made) = {} /\ symbol_validity(made) = {}
        /\ trade_side_validity(made) = {} /\ AmountCodes(made.price) = {}
        /\ AmountCodes(made.quantity) = {} /\ timestamp_validity(made) = {}
  BY DEF IsValid, FailedRules, default_rules
<1> QED BY <1>3, <1>4, <1>5, <1>6, <1>7, <1>8, <1>9 DEF IsUsable

\* Every event the rules accept has a positive price and a positive quantity,
\* which the aggregation divides by (windows.py:121-128).
THEOREM TrustedIsPositive ==
  ASSUME NEW e \in InternalEvent, IsValid(e)
  PROVE  e.price \in Positive /\ e.quantity \in Positive
<1>1. AmountCodes(e.price) = {} /\ AmountCodes(e.quantity) = {}
  BY DEF IsValid, FailedRules, default_rules
<1> QED BY <1>1 DEF AmountCodes, Code

\* What follows a first part is read off.
LEMMA CancelFirst ==
  ASSUME NEW S, NEW a \in Seq(S), NEW b \in Seq(S), NEW v, NEW w,
         <<v>> \o a = <<w>> \o b
  PROVE  v = w /\ a = b
<1> DEFINE long == <<v>> \o a
           other == <<w>> \o b
<1>1. Len(long) = Len(a) + 1 /\ Len(other) = Len(b) + 1 /\ long[1] = v /\ other[1] = w
  OBVIOUS
<1>2. /\ \A i \in 1..Len(a) : long[i + 1] = a[i]
      /\ \A i \in 1..Len(b) : other[i + 1] = b[i]
  OBVIOUS
<1>3. long = other
  OBVIOUS
<1> HIDE DEF long, other
<1>4. Len(a) = Len(b) /\ v = w
  BY <1>1, <1>3
<1>5. \A i \in 1..Len(a) : a[i] = b[i]
  BY <1>2, <1>3, <1>4
<1> QED BY <1>4, <1>5, SeqEqual

\* So is what precedes a last one.
LEMMA CancelLast ==
  ASSUME NEW S, NEW a \in Seq(S), NEW b \in Seq(S), NEW v, NEW w,
         a \o <<v>> = b \o <<w>>
  PROVE  v = w /\ a = b
<1> DEFINE long == a \o <<v>>
           other == b \o <<w>>
<1>1. /\ Len(long) = Len(a) + 1 /\ Len(other) = Len(b) + 1
      /\ long[Len(a) + 1] = v /\ other[Len(b) + 1] = w
  OBVIOUS
<1>2. /\ \A i \in 1..Len(a) : long[i] = a[i]
      /\ \A i \in 1..Len(b) : other[i] = b[i]
  OBVIOUS
<1>3. long = other
  OBVIOUS
<1> HIDE DEF long, other
<1>4. Len(a) = Len(b) /\ v = w
  BY <1>1, <1>3
<1>5. \A i \in 1..Len(a) : a[i] = b[i]
  BY <1>2, <1>3, <1>4
<1> QED BY <1>4, <1>5, SeqEqual

\* Two events have one event_id exactly when they have one source, one
\* str(trade_id) and, for dev, one time: no trade_id, whatever colons it holds,
\* runs into the source before it or the time behind it (dev.py:155,
\* coinbase.py:185). Nothing else of an event is in its event_id, on which
\* Bronze keeps the first row only.
THEOREM EventIdsUnambiguous ==
  ASSUME NEW s1 \in Sources, NEW s2 \in Sources, NEW r1 \in Raw, NEW r2 \in Raw,
         NEW now1, NEW now2,
         Prepares(s1, r1), Prepares(s2, r2)
  PROVE  prepare(s1, r1, now1).event_id = prepare(s2, r2, now2).event_id
           <=> /\ s1 = s2
               /\ Str[r1.trade_id] = Str[r2.trade_id]
               /\ s1 = "dev" => r1.time = r2.time
<1> DEFINE Parts == Strings \cup Instants
<1>1. /\ prepare(s1, r1, now1).event_id = EventId(s1, r1)
      /\ prepare(s2, r2, now2).event_id = EventId(s2, r2)
  BY DEF prepare
<1>2. /\ Str[r1.trade_id] \in Strings /\ Str[r2.trade_id] \in Strings
      /\ Split[Str[r1.trade_id]] = Split[Str[r2.trade_id]]
           => Str[r1.trade_id] = Str[r2.trade_id]
  BY PreparedFields, ContractsAssumption
<1> DEFINE a == IdDetail(s1, r1)
           b == IdDetail(s2, r2)
           c == Split[Str[r1.trade_id]]
           d == Split[Str[r2.trade_id]]
<1>4. /\ EventId(s1, r1) = <<s1>> \o a /\ a \in Seq(Parts) /\ c \in Seq(Parts)
      /\ EventId(s2, r2) = <<s2>> \o b /\ b \in Seq(Parts) /\ d \in Seq(Parts)
  BY IdParts
<1>5. ASSUME EventId(s1, r1) = EventId(s2, r2)
      PROVE  /\ s1 = s2 /\ Str[r1.trade_id] = Str[r2.trade_id]
             /\ s1 = "dev" => r1.time = r2.time
  <2>1. s1 = s2 /\ a = b
    <3>1. <<s1>> \o a = <<s2>> \o b
      BY <1>4, <1>5
    <3> HIDE DEF a, b, Parts
    <3> QED BY <1>4, <3>1, CancelFirst, Zenon
  <2>2. CASE s1 = "coinbase"
    BY <1>2, <2>1, <2>2 DEF IdDetail
  <2>3. CASE s1 = "dev"
    <3>1. c \o <<r1.time>> = d \o <<r2.time>>
      BY <2>1, <2>3 DEF IdDetail
    <3>2. r1.time = r2.time /\ c = d
      <4> DEFINE v == r1.time
                 w == r2.time
      <4> HIDE DEF c, d, v, w, Parts
      <4>1. c \in Seq(Parts) /\ d \in Seq(Parts) /\ c \o <<v>> = d \o <<w>>
        BY <1>4, <3>1 DEF v, w
      <4>2. v = w /\ c = d
        BY <4>1, CancelLast
      <4> QED BY <4>2 DEF v, w
    <3> QED BY <1>2, <2>1, <3>2
  <2> QED BY <2>1, <2>2, <2>3 DEF Sources
<1>6. ASSUME s1 = s2, Str[r1.trade_id] = Str[r2.trade_id], s1 = "dev" => r1.time = r2.time
      PROVE  EventId(s1, r1) = EventId(s2, r2)
  BY <1>4, <1>6 DEF Sources, IdDetail
<1> QED BY <1>1, <1>5, <1>6

----------------------------------------------------------------------------
(* The run.                                                                *)

\* What preparation makes of a raw event, validation takes for what it is.
Agreed(e) == e \in InternalEvent /\ (IsValid(e) <=> IsUsable(e.payload))

\* One more event is sent.
LEMMA SentGrows ==
  ASSUME TypeOK, NEW m \in Envelope, sent' = Append(sent, m), topic' = topic
  PROVE  /\ sent' \in Seq(Envelope) /\ Len(sent') = Len(sent) + 1
         /\ sent'[Len(sent) + 1] = m
         /\ DOMAIN sent \subseteq DOMAIN sent'
         /\ \A n \in DOMAIN sent : sent'[n] = sent[n]
         /\ topic' \in [Partitions -> Seq(DOMAIN sent')]
<1>1. sent \in Seq(Envelope) /\ topic \in [Partitions -> Seq(DOMAIN sent)]
  BY DEF TypeOK
<1>2. /\ sent' \in Seq(Envelope) /\ Len(sent') = Len(sent) + 1
      /\ sent'[Len(sent) + 1] = m
      /\ DOMAIN sent = 1..Len(sent) /\ DOMAIN sent' = 1..(Len(sent) + 1)
      /\ \A n \in DOMAIN sent : sent'[n] = sent[n]
      /\ Len(sent) \in Nat
  BY <1>1
<1>3. DOMAIN sent \subseteq DOMAIN sent'
  BY <1>2
<1>4. \A t \in Seq(DOMAIN sent) : t \in Seq(DOMAIN sent')
  <2> DEFINE A == DOMAIN sent
             B == DOMAIN sent'
  <2>1. A \subseteq B
    BY <1>3
  <2> HIDE DEF A, B
  <2>2. \A t \in Seq(A) : t \in Seq(B)
    BY <2>1
  <2> QED BY <2>2 DEF A, B
<1> QED BY <1>1, <1>2, <1>3, <1>4

\* What yielding a raw event does, in the three cases.
LEMMA YieldEffect ==
  ASSUME ProducerInv, pc \in {"streaming", "sleeping"}, NEW raw \in Raw, Yield(raw)
  PROVE  /\ received' = Append(received, raw)
         /\ received' \in Seq(Raw) /\ Len(received') = Len(received) + 1
         /\ late' = (IF stop THEN late + 1 ELSE late)
         /\ \/ /\ pc' = "streaming"
               /\ ~(can_prepare(exchange, raw) /\ Prepares(exchange, raw))
               /\ UNCHANGED <<sent, state, stop, outcome>>
            \/ /\ pc' = "closing" /\ outcome' = "escaped"
               /\ ~(can_prepare(exchange, raw) /\ Prepares(exchange, raw))
               /\ stop' = TRUE /\ state' = "disconnected"
               /\ UNCHANGED sent
            \/ /\ pc' = "publishing"
               /\ can_prepare(exchange, raw) /\ Prepares(exchange, raw)
               /\ \E m \in Envelope : /\ sent' = Append(sent, m)
                                     /\ m.event.payload = raw /\ Agreed(m.event)
               /\ UNCHANGED <<state, stop, outcome>>
<1>1. exchange \in Sources /\ received \in Seq(Raw)
  BY DEF ProducerInv, HoldsResources, TypeOK
<1>2. /\ received' = Append(received, raw)
      /\ received' \in Seq(Raw) /\ Len(received') = Len(received) + 1
      /\ late' = (IF stop THEN late + 1 ELSE late)
  BY <1>1 DEF Yield
<1>3. CASE ~can_prepare(exchange, raw) \/ Refuses(exchange, raw)
  BY <1>2, <1>3 DEF Yield, connectorVars, Finally, Prepares, Escapes, Refuses
<1>4. CASE can_prepare(exchange, raw) /\ Escapes(exchange, raw) /\ ~Refuses(exchange, raw)
  BY <1>2, <1>4 DEF Yield, Finally, Prepares
<1>5. CASE can_prepare(exchange, raw) /\ Prepares(exchange, raw)
  <2>1. PICK now \in Now, p \in Partitions :
          sent' = Append(sent, [event |-> prepare(exchange, raw, now), partition |-> p])
    BY <1>5 DEF Yield, Prepares
  <2> DEFINE e == prepare(exchange, raw, now)
  <2>2. e \in InternalEvent /\ (IsValid(e) <=> IsUsable(raw))
    BY <1>1, <1>5, PreparedType, PreparedVerdict, ProducerAssumption
  <2>3. e.payload = raw
    BY DEF prepare
  <2> HIDE DEF e
  <2>4. [event |-> e, partition |-> p] \in Envelope
    BY <2>2 DEF Envelope
  <2>5. Agreed(e)
    BY <2>2, <2>3 DEF Agreed
  <2>6. \E m \in Envelope : /\ sent' = Append(sent, m)
                           /\ m.event.payload = raw /\ Agreed(m.event)
    BY <2>1, <2>3, <2>4, <2>5 DEF e
  <2>7. pc' = "publishing" /\ UNCHANGED <<state, stop, outcome>>
    BY <1>5 DEF Yield, connectorVars, Prepares
  <2> QED BY <1>2, <1>5, <2>6, <2>7
<1> QED BY <1>3, <1>4, <1>5 DEF Prepares

LEMMA InitInv == Init => ProducerInv /\ LateInv
<1> SUFFICES ASSUME Init PROVE ProducerInv /\ LateInv
  OBVIOUS
<1>0. <<>> \in Seq(Raw) /\ 0 \in 0..MaxCalls /\ <<>> \in Seq(Envelope)
      /\ <<>> \in Seq(DOMAIN <<>>)
  BY ProducerAssumption
<1>1. TypeOK
  BY <1>0 DEF Init, TypeOK
<1>2. HoldsResources
  BY ProducerAssumption DEF Init, HoldsResources
<1>3. LateInv
  BY DEF Init, LateInv, AtMostOneLate
<1> QED BY <1>1, <1>2, <1>3 DEF ProducerInv

\* The three ways a step can take up a raw event.
LEMMA Yielding ==
  ASSUME ProducerInv
  PROVE  /\ Resume /\ ~Ended => Len(received) + 1 \in DOMAIN Script
         /\ Awake => Len(received) + 1 \in DOMAIN Script
         /\ \A i \in DOMAIN Script : Script[i] \in Raw
<1>1. received \in Seq(Raw) /\ Script \in Seq(Raw)
  BY ProducerAssumption DEF ProducerInv, TypeOK
<1>2. Resume /\ ~Ended => Len(received) < Len(Script)
  BY <1>1 DEF Resume, Ended, ProducerInv, HoldsResources
<1>3. Awake => Len(received) < Len(Script)
  BY DEF Awake, ProducerInv, HoldsResources
<1> QED BY <1>1, <1>2, <1>3

\* Every step preserves the invariant. The steps that yield an event are
\* known by YieldEffect.
LEMMA InvStep ==
  ASSUME ProducerInv, [Next]_vars
  PROVE  ProducerInv'
<1>0. TypeOK /\ HoldsResources
  BY DEF ProducerInv
<1>n. Len(received) \in Nat /\ Len(Script) \in Nat
  BY <1>0, ProducerAssumption DEF TypeOK
<1>y. ASSUME NEW raw \in Raw, Yield(raw), pc \in {"streaming", "sleeping"},
             UNCHANGED <<exchange, paced, producer, topic, published, calls>>,
             exchange = "dev" => Len(received) < Len(Script)
      PROVE  ProducerInv'
  <2>1. late' \in Nat
    BY <1>0, <1>y DEF Yield, TypeOK
  <2>2. sent' \in Seq(Envelope) /\ topic' \in [Partitions -> Seq(DOMAIN sent')]
    <3>1. CASE UNCHANGED sent
      BY <1>0, <1>y, <3>1 DEF TypeOK
    <3>2. CASE \E m \in Envelope : sent' = Append(sent, m)
      BY <1>0, <1>y, <3>2, SentGrows
    <3> QED BY <1>y, <3>1, <3>2, YieldEffect
  <2>3. pc' = "publishing" => sent' # <<>>
    <3>1. \A m \in Envelope : Append(sent, m) # <<>>
      BY <1>0 DEF TypeOK
    <3> QED BY <1>y, <3>1, YieldEffect
  <2>4. TypeOK'
    BY <1>0, <1>y, <2>1, <2>2, YieldEffect DEF TypeOK
  <2>5. HoldsResources'
    <3>1. exchange \in Sources /\ producer
      BY <1>0, <1>y DEF HoldsResources
    <3>2. exchange = "dev" => Len(received') <= Len(Script)
      <4>1. Len(received') = Len(received) + 1
        BY <1>y, YieldEffect
      <4> QED BY <1>n, <1>y, <4>1
    <3>3. pc' \in {"streaming", "publishing"} => outcome' = "none"
      BY <1>0, <1>y, YieldEffect DEF HoldsResources, TypeOK
    <3> QED BY <1>y, <2>3, <3>1, <3>2, <3>3, YieldEffect DEF HoldsResources
  <2> QED BY <2>4, <2>5 DEF ProducerInv
<1>1. CASE Build
  BY <1>0, <1>1 DEF Build, ProducerInv, TypeOK, HoldsResources, connectorVars, runVars
<1>2. CASE Started
  BY <1>0, <1>2 DEF Started, ProducerInv, TypeOK, HoldsResources, connectorVars, runVars
<1>3. CASE StartFails
  BY <1>0, <1>3 DEF StartFails, ProducerInv, TypeOK, HoldsResources, connectorVars, runVars
<1>4. CASE Connected
  BY <1>0, <1>4 DEF Connected, ProducerInv, TypeOK, HoldsResources, connectorVars, runVars
<1>5. CASE ConnectFails
  BY <1>0, <1>5 DEF ConnectFails, ProducerInv, TypeOK, HoldsResources, connectorVars, runVars
<1>6. CASE Resume
  <2>1. CASE Ended
    BY <1>0, <1>6, <2>1
    DEF Resume, Finally, ProducerInv, TypeOK, HoldsResources
  <2>2. CASE ~Ended /\ paced
    BY <1>0, <1>n, <1>6, <2>2
    DEF Resume, Ended, ProducerInv, TypeOK, HoldsResources, connectorVars
  <2>3. CASE ~Ended /\ ~paced
    BY <1>0, <1>n, <1>6, <1>y, <2>3, Yielding DEF Resume, Ended, HoldsResources
  <2> QED BY <2>1, <2>2, <2>3
<1>7. CASE Awake
  BY <1>0, <1>7, <1>y, Yielding DEF Awake, HoldsResources
<1>8. ASSUME NEW raw \in Live, Message(raw) PROVE ProducerInv'
  BY <1>8, <1>y, ProducerAssumption DEF Message
<1>9. CASE StreamEnds
  BY <1>0, <1>9 DEF StreamEnds, Finally, ProducerInv, TypeOK, HoldsResources, runVars
<1>10. CASE Published
  BY <1>0, <1>10 DEF Published, ProducerInv, TypeOK, HoldsResources, connectorVars
<1>11. CASE PublishFails
  BY <1>0, <1>11 DEF PublishFails, Finally, ProducerInv, TypeOK, HoldsResources, runVars
<1>12. CASE Close
  BY <1>0, <1>12 DEF Close, ProducerInv, TypeOK, HoldsResources, connectorVars, runVars
<1>13. CASE Disconnect
  <2>1. late' \in Nat /\ calls' \in 0..MaxCalls
    BY <1>0, <1>13, ProducerAssumption DEF Disconnect, Suspended, TypeOK
  <2>2. TypeOK'
    BY <1>0, <1>13, <2>1 DEF Disconnect, TypeOK, runVars
  <2>3. HoldsResources'
    BY <1>0, <1>13 DEF Disconnect, Suspended, HoldsResources, runVars
  <2> QED BY <2>2, <2>3 DEF ProducerInv
<1>14. CASE Reconnect
  <2>1. late' \in Nat /\ calls' \in 0..MaxCalls
    BY <1>0, <1>14, ProducerAssumption DEF Reconnect, Suspended, TypeOK
  <2>2. TypeOK'
    BY <1>0, <1>14, <2>1 DEF Reconnect, TypeOK, runVars
  <2>3. calls' # 0 /\ ~stop'
    BY <1>0, <1>14 DEF Reconnect, TypeOK
  <2>4. HoldsResources'
    BY <1>0, <1>14, <2>3 DEF Reconnect, Suspended, HoldsResources, runVars
  <2> QED BY <2>2, <2>4 DEF ProducerInv
<1>16. ASSUME NEW n \in DOMAIN sent, Arrive(n) PROVE ProducerInv'
  <2> DEFINE p == sent[n].partition
  <2>0. sent[n] \in Envelope
    BY <1>0 DEF TypeOK
  <2>1. p \in Partitions /\ topic[p] \in Seq(DOMAIN sent)
    BY <1>0, <2>0 DEF TypeOK, Envelope
  <2>2. Append(topic[p], n) \in Seq(DOMAIN sent)
    BY <2>1
  <2>3. topic' = [topic EXCEPT ![p] = Append(topic[p], n)] /\ sent' = sent
    BY <1>16 DEF Arrive
  <2> HIDE DEF p
  <2>4. topic' \in [Partitions -> Seq(DOMAIN sent')]
    BY <1>0, <2>1, <2>2, <2>3 DEF TypeOK
  <2> QED BY <1>0, <1>16, <2>4 DEF Arrive, ProducerInv, TypeOK, HoldsResources, connectorVars
<1>15. CASE UNCHANGED vars
  BY <1>0, <1>15 DEF vars, connectorVars, runVars, ProducerInv, TypeOK, HoldsResources
<1> QED
  BY <1>1, <1>2, <1>3, <1>4, <1>5, <1>6, <1>7, <1>8, <1>9, <1>10, <1>11, <1>12, <1>13, <1>14,
     <1>15, <1>16 DEF Next, Step

\* A late event is yielded only by a sleep that began before the stop.
LEMMA LateStep ==
  ASSUME ProducerInv, LateInv, [Next]_vars
  PROVE  LateInv'
<1>0. /\ late \in Nat
      /\ late <= (IF paced THEN 1 ELSE 0)
      /\ ~stop => late = 0
      /\ state = "connected" \/ pc = "connecting" => ~stop
      /\ pc \in {"off", "starting", "sleeping"} => late = 0
      /\ exchange = "coinbase" => late = 0
      /\ stop => exchange = "dev" \/ pc \in {"closing", "ended"}
      /\ pc = "sleeping" => paced
      /\ stop \in BOOLEAN /\ paced \in BOOLEAN
  BY DEF LateInv, AtMostOneLate, ProducerInv, TypeOK, HoldsResources
<1>y. ASSUME NEW raw \in Raw, Yield(raw), pc \in {"streaming", "sleeping"},
             UNCHANGED <<exchange, paced>>, ~stop \/ pc = "sleeping",
             pc = "sleeping" => exchange = "dev"
      PROVE  LateInv'
  <2>1. /\ late' = (IF stop THEN late + 1 ELSE late)
        /\ pc' \in {"streaming", "publishing", "closing"}
        /\ \/ stop' = stop /\ state' = state
           \/ stop' = TRUE /\ state' = "disconnected" /\ pc' = "closing"
    BY <1>y, YieldEffect
  <2>2. late = 0 /\ (exchange = "coinbase" => ~stop)
    BY <1>0, <1>y
  <2>3. (stop => paced) /\ exchange' = exchange /\ paced' = paced
    BY <1>0, <1>y
  <2>4. late' = (IF stop THEN 1 ELSE 0)
    BY <2>1, <2>2
  <2>5. AtMostOneLate' /\ (~stop' => late' = 0)
    BY <1>0, <2>1, <2>3, <2>4 DEF AtMostOneLate
  <2>6. (state' = "connected" => ~stop') /\ (exchange' = "coinbase" => late' = 0)
    BY <1>0, <2>1, <2>2, <2>3, <2>4
  <2>7. stop' => exchange' = "dev" \/ pc' \in {"closing", "ended"}
    BY <1>0, <1>y, <2>1, <2>3
  <2> QED BY <2>1, <2>5, <2>6, <2>7 DEF LateInv
<1>1. CASE Build \/ StartFails \/ Connected \/ ConnectFails \/ Close
  BY <1>0, <1>1
  DEF Build, StartFails, Connected, ConnectFails, Close, connectorVars, LateInv, AtMostOneLate
<1>2. CASE Started
  BY <1>0, <1>2 DEF Started, LateInv, AtMostOneLate
<1>3. CASE Resume
  <2>1. CASE Ended
    BY <1>0, <1>3, <2>1 DEF Resume, Finally, LateInv, AtMostOneLate
  <2>2. CASE ~Ended /\ paced
    BY <1>0, <1>3, <2>2 DEF Resume, Ended, connectorVars, LateInv, AtMostOneLate
  <2>3. CASE ~Ended /\ ~paced
    BY <1>3, <1>y, <2>3, Yielding DEF Resume, Ended
  <2> QED BY <2>1, <2>2, <2>3
<1>4. CASE Awake
  BY <1>4, <1>y, Yielding DEF Awake, ProducerInv, HoldsResources
<1>5. ASSUME NEW raw \in Live, Message(raw) PROVE LateInv'
  BY <1>0, <1>5, <1>y, ProducerAssumption DEF Message
<1>6. CASE StreamEnds
  BY <1>0, <1>6 DEF StreamEnds, Finally, LateInv, AtMostOneLate
<1>7. CASE Published
  BY <1>0, <1>7 DEF Published, connectorVars, LateInv, AtMostOneLate
<1>8. CASE PublishFails
  BY <1>0, <1>8 DEF PublishFails, Finally, LateInv, AtMostOneLate
<1>9. CASE Disconnect
  BY <1>0, <1>9 DEF Disconnect, Suspended, LateInv, AtMostOneLate
<1>10. CASE Reconnect
  BY <1>0, <1>10 DEF Reconnect, Suspended, LateInv, AtMostOneLate
<1>12. ASSUME NEW n \in DOMAIN sent, Arrive(n) PROVE LateInv'
  BY <1>0, <1>12 DEF Arrive, connectorVars, LateInv, AtMostOneLate
<1>11. CASE UNCHANGED vars
  BY <1>0, <1>11 DEF vars, connectorVars, LateInv, AtMostOneLate
<1> QED
  BY <1>1, <1>2, <1>3, <1>4, <1>5, <1>6, <1>7, <1>8, <1>9, <1>10, <1>11, <1>12 DEF Next, Step

\* The run's types and resources, for every script and every other task.
THEOREM ProducerInvariant == Spec => []ProducerInv
<1>1. Init => ProducerInv
  BY InitInv
<1>2. ProducerInv /\ [Next]_vars => ProducerInv'
  BY InvStep
<1> QED BY <1>1, <1>2, PTL DEF Spec

\* After a stop the dev connector yields one more event at most, and none
\* without an interval, whenever disconnect() and reconnect() are called.
THEOREM OneLate == Spec => []AtMostOneLate
<1>1. Init => LateInv
  BY InitInv
<1>2. ProducerInv /\ LateInv /\ [Next]_vars => LateInv'
  BY LateStep
<1>3. LateInv => AtMostOneLate
  BY DEF LateInv
<1> QED BY <1>1, <1>2, <1>3, ProducerInvariant, PTL DEF Spec

LEMMA AgreedStep ==
  ASSUME ProducerInv, AcceptedIfUsable, [Next]_vars
  PROVE  AcceptedIfUsable'
<1>0. TypeOK
  BY DEF ProducerInv
<1>1. ASSUME UNCHANGED sent PROVE AcceptedIfUsable'
  BY <1>1 DEF AcceptedIfUsable, IsValid, FailedRules, IsUsable
<1>2. ASSUME NEW raw \in Raw, Yield(raw), pc \in {"streaming", "sleeping"}, UNCHANGED topic
      PROVE  AcceptedIfUsable'
  <2>1. CASE UNCHANGED sent
    BY <1>1, <2>1
  <2>2. ASSUME NEW m \in Envelope, sent' = Append(sent, m), Agreed(m.event)
        PROVE  AcceptedIfUsable'
    <3>1. sent \in Seq(Envelope)
      BY <1>0 DEF TypeOK
    <3> SUFFICES ASSUME NEW n \in DOMAIN sent' PROVE Agreed(sent'[n].event)
      BY DEF AcceptedIfUsable, Agreed
    <3>2. CASE n \in DOMAIN sent
      BY <2>2, <3>1, <3>2 DEF AcceptedIfUsable, Agreed
    <3>3. CASE n \notin DOMAIN sent
      BY <2>2, <3>1, <3>3
    <3> QED BY <3>2, <3>3
  <2> QED BY <1>2, <2>1, <2>2, YieldEffect
<1>3. CASE Resume
  <2>1. CASE Ended \/ paced
    BY <1>1, <1>3, <2>1 DEF Resume, Finally
  <2>2. CASE ~Ended /\ ~paced
    BY <1>2, <1>3, <2>2, Yielding DEF Resume
  <2> QED BY <2>1, <2>2
<1>4. CASE Awake
  BY <1>2, <1>4, Yielding DEF Awake
<1>5. ASSUME NEW raw \in Live, Message(raw) PROVE AcceptedIfUsable'
  BY <1>2, <1>5, ProducerAssumption DEF Message
<1>6. ASSUME NEW n \in DOMAIN sent, Arrive(n) PROVE AcceptedIfUsable'
  BY <1>1, <1>6 DEF Arrive
<1>7. CASE Build \/ Started \/ StartFails \/ Connected \/ ConnectFails \/ StreamEnds
           \/ Published \/ PublishFails \/ Close \/ Disconnect \/ Reconnect \/ UNCHANGED vars
  BY <1>1, <1>7 DEF Build, Started, StartFails, Connected, ConnectFails, StreamEnds, Published,
                    PublishFails, Close, Disconnect, Reconnect, vars, runVars
<1> QED BY <1>3, <1>4, <1>5, <1>6, <1>7 DEF Next, Step

\* Whatever the exchange sends, the rules object to a published event exactly
\* when the exchange's own data is at fault.
THEOREM RulesAgree == Spec => []AcceptedIfUsable
<1>1. Init => AcceptedIfUsable
  BY DEF Init, AcceptedIfUsable
<1>2. ProducerInv /\ AcceptedIfUsable /\ [Next]_vars => AcceptedIfUsable'
  BY AgreedStep
<1> QED BY <1>1, <1>2, ProducerInvariant, PTL DEF Spec

----------------------------------------------------------------------------
(* Induction over the natural numbers.                                     *)

\* < is well-founded, so a set of natural numbers has a least one.
LEMMA LeastNatural ==
  ASSUME NEW T \in SUBSET Nat, T # {}
  PROVE  \E n \in T : \A m \in T : n <= m
<1> DEFINE R == OpToRel(<, Nat)
<1>1. IsWellFoundedOn(R, Nat)
  BY NatLessThanWellFounded
<1>2. PICK n \in T : \A m \in T : ~(<<m, n>> \in R)
  BY <1>1, WFMin
<1>3. \A m \in T : ~(m < n)
  BY <1>2 DEF OpToRel
<1> QED BY <1>3

\* Induction, on a set that holds 0 and every successor: the set says what an
\* operator would say in the theorems of NaturalsInduction.
LEMMA SetInduction ==
  ASSUME NEW T, 0 \in T, \A n \in Nat : n \in T => n + 1 \in T
  PROVE  Nat \subseteq T
<1> DEFINE U == Nat \ T
<1>1. SUFFICES ASSUME U # {} PROVE FALSE
  OBVIOUS
<1>2. PICK n \in U : \A m \in U : n <= m
  BY <1>1, LeastNatural
<1>3. n # 0 /\ n - 1 \in Nat
  OBVIOUS
<1>4. n - 1 \in T
  BY <1>2, <1>3
<1> QED BY <1>3, <1>4

----------------------------------------------------------------------------
(* What the topic should hold, one raw event after another.                *)

\* One step of the recursion of Publishables.
KeptStep(kept, source, raws, i) ==
  IF i = 0 THEN <<>>
  ELSE IF can_prepare(source, raws[i]) /\ Prepares(source, raws[i])
  THEN Append(kept[i - 1], raws[i])
  ELSE kept[i - 1]

\* The recursion has a solution.
LEMMA KeptExists ==
  ASSUME NEW source, NEW raws, NEW n \in Nat
  PROVE  \E kept : kept = [i \in 0..n |-> KeptStep(kept, source, raws, i)]
<1> DEFINE U == {m \in Nat : \E kept : kept = [i \in 0..m |-> KeptStep(kept, source, raws, i)]}
<1>1. 0 \in U
  <2> DEFINE kept == [i \in 0..0 |-> <<>>]
  <2>1. kept = [i \in 0..0 |-> KeptStep(kept, source, raws, i)]
    BY DEF KeptStep
  <2> QED BY <2>1
<1>2. ASSUME NEW m \in Nat, m \in U PROVE m + 1 \in U
  <2>1. PICK kept : kept = [i \in 0..m |-> KeptStep(kept, source, raws, i)]
    BY <1>2
  <2> DEFINE next == [i \in 0..(m + 1) |-> KeptStep(kept, source, raws, i)]
  <2>2. ASSUME NEW i \in 0..(m + 1)
        PROVE  KeptStep(next, source, raws, i) = KeptStep(kept, source, raws, i)
    <3>1. CASE i = 0
      BY <3>1 DEF KeptStep
    <3>2. CASE i # 0
      <4>1. i - 1 \in 0..m /\ i - 1 \in 0..(m + 1)
        BY <3>2
      <4>2. next[i - 1] = kept[i - 1]
        BY <2>1, <4>1
      <4> HIDE DEF next
      <4> QED BY <3>2, <4>2 DEF KeptStep
    <3> QED BY <3>1, <3>2
  <2>3. next = [i \in 0..(m + 1) |-> KeptStep(next, source, raws, i)]
    BY <2>2
  <2>4. \E k : k = [i \in 0..(m + 1) |-> KeptStep(k, source, raws, i)]
    <3> HIDE DEF next
    <3> QED BY <2>3
  <2> QED BY <2>4
<1>3. Nat \subseteq U
  <2> HIDE DEF U
  <2> QED BY <1>1, <1>2, SetInduction
<1> QED BY <1>3

\* Publishables is read off that solution.
LEMMA KeptDefined ==
  ASSUME NEW source, NEW raws, Len(raws) \in Nat
  PROVE  \E kept : /\ kept = [i \in 0..Len(raws) |-> KeptStep(kept, source, raws, i)]
                   /\ Publishables(source, raws) = kept[Len(raws)]
<1> DEFINE Rhs(k) == [i \in 0..Len(raws) |->
             IF i = 0 THEN <<>>
             ELSE IF can_prepare(source, raws[i]) /\ Prepares(source, raws[i])
             THEN Append(k[i - 1], raws[i])
             ELSE k[i - 1]]
           kept == CHOOSE k : k = Rhs(k)
<1>1. \A k : Rhs(k) = [i \in 0..Len(raws) |-> KeptStep(k, source, raws, i)]
  BY DEF KeptStep
<1>2. Publishables(source, raws) = kept[Len(raws)]
  BY DEF Publishables
<1> HIDE DEF Rhs
<1>3. \E k : k = Rhs(k)
  BY <1>1, KeptExists
<1>4. kept = Rhs(kept)
  BY <1>3
<1> HIDE DEF kept
<1>5. kept = [i \in 0..Len(raws) |-> KeptStep(kept, source, raws, i)]
  BY <1>1, <1>4
<1> QED BY <1>2, <1>5

\* Of no raw events none can be published.
LEMMA PublishablesEmpty == \A source : Publishables(source, <<>>) = <<>>
<1> TAKE source
<1>1. Len(<<>>) = 0
  OBVIOUS
<1>2. PICK kept : /\ kept = [i \in 0..Len(<<>>) |-> KeptStep(kept, source, <<>>, i)]
                  /\ Publishables(source, <<>>) = kept[Len(<<>>)]
  BY <1>1, KeptDefined
<1> QED BY <1>1, <1>2 DEF KeptStep

\* What one more raw event adds.
LEMMA PublishablesAppend ==
  ASSUME NEW source, NEW raws \in Seq(Raw), NEW raw \in Raw
  PROVE  Publishables(source, Append(raws, raw)) =
           IF can_prepare(source, raw) /\ Prepares(source, raw)
           THEN Append(Publishables(source, raws), raw)
           ELSE Publishables(source, raws)
<1> DEFINE n == Len(raws)
           more == Append(raws, raw)
<1>1. n \in Nat /\ Len(more) = n + 1 /\ more[n + 1] = raw /\ \A i \in 1..n : more[i] = raws[i]
  OBVIOUS
<1>2. PICK kept : /\ kept = [i \in 0..n |-> KeptStep(kept, source, raws, i)]
                  /\ Publishables(source, raws) = kept[n]
  BY <1>1, KeptDefined
<1>3. Len(more) \in Nat
  BY <1>1
<1> HIDE DEF n, more
<1>4. PICK next : /\ next = [i \in 0..Len(more) |-> KeptStep(next, source, more, i)]
                  /\ Publishables(source, more) = next[Len(more)]
  BY <1>3, KeptDefined
<1>5. /\ \A i \in 0..(n + 1) : next[i] = KeptStep(next, source, more, i)
      /\ Publishables(source, more) = next[n + 1]
  BY <1>1, <1>4
<1> DEFINE T == {i \in Nat : i <= n => next[i] = kept[i]}
<1>6. 0 \in T
  BY <1>1, <1>2, <1>5 DEF KeptStep
<1>7. ASSUME NEW i \in Nat, i \in T PROVE i + 1 \in T
  <2> SUFFICES ASSUME i + 1 <= n PROVE next[i + 1] = kept[i + 1]
    OBVIOUS
  <2>1. next[i] = kept[i] /\ more[i + 1] = raws[i + 1]
    BY <1>1, <1>7
  <2>0. i + 1 \in 0..n /\ i + 1 \in 0..(n + 1)
    BY <1>1
  <2>2. next[i + 1] = KeptStep(next, source, more, i + 1)
    BY <1>5, <2>0
  <2>3. kept[i + 1] = KeptStep(kept, source, raws, i + 1)
    BY <1>2, <2>0
  <2>4. i + 1 # 0 /\ (i + 1) - 1 = i
    OBVIOUS
  <2> QED BY <2>1, <2>2, <2>3, <2>4 DEF KeptStep
<1>8. Nat \subseteq T
  <2> HIDE DEF T
  <2> QED BY <1>6, <1>7, SetInduction
<1>9. next[n] = kept[n]
  BY <1>1, <1>8
<1>10. next[n + 1] = KeptStep(next, source, more, n + 1)
  BY <1>1, <1>5
<1>11. n + 1 # 0 /\ (n + 1) - 1 = n
  BY <1>1
<1> QED BY <1>1, <1>2, <1>5, <1>9, <1>10, <1>11 DEF KeptStep, more

\* It is a sequence of raw events.
LEMMA PublishablesType ==
  ASSUME NEW source, NEW raws \in Seq(Raw)
  PROVE  Publishables(source, raws) \in Seq(Raw)
<1> DEFINE n == Len(raws)
<1>1. n \in Nat /\ \A i \in 1..n : raws[i] \in Raw
  OBVIOUS
<1>2. PICK kept : /\ kept = [i \in 0..n |-> KeptStep(kept, source, raws, i)]
                  /\ Publishables(source, raws) = kept[n]
  BY <1>1, KeptDefined
<1> HIDE DEF n
<1> DEFINE T == {i \in Nat : i <= n => kept[i] \in Seq(Raw)}
<1>3. 0 \in T
  BY <1>1, <1>2 DEF KeptStep
<1>4. ASSUME NEW i \in Nat, i \in T PROVE i + 1 \in T
  <2> SUFFICES ASSUME i + 1 <= n PROVE kept[i + 1] \in Seq(Raw)
    OBVIOUS
  <2>1. kept[i] \in Seq(Raw) /\ raws[i + 1] \in Raw
    BY <1>1, <1>4
  <2>2. kept[i + 1] = KeptStep(kept, source, raws, i + 1)
    BY <1>1, <1>2
  <2>3. i + 1 # 0 /\ (i + 1) - 1 = i
    OBVIOUS
  <2> QED BY <2>1, <2>2, <2>3 DEF KeptStep
<1>5. Nat \subseteq T
  <2> HIDE DEF T
  <2> QED BY <1>3, <1>4, SetInduction
<1> QED BY <1>1, <1>2, <1>5

----------------------------------------------------------------------------
(* The topic in order.                                                     *)

\* What one more event sent adds to the payloads.
LEMMA PayloadsAppend ==
  ASSUME NEW s \in Seq(Envelope), NEW m \in Envelope
  PROVE  /\ Payloads(s) \in Seq(Raw) /\ Len(Payloads(s)) = Len(s)
         /\ Payloads(Append(s, m)) = Append(Payloads(s), m.event.payload)
<1>1. \A f \in Envelope : f.event.payload \in Raw
  BY DEF Envelope, InternalEvent
<1>2. Payloads(s) \in Seq(Raw) /\ Len(Payloads(s)) = Len(s)
  BY <1>1 DEF Payloads
<1> DEFINE long == Payloads(Append(s, m))
           more == Append(Payloads(s), m.event.payload)
<1>3. long \in Seq(Raw) /\ more \in Seq(Raw) /\ Len(long) = Len(s) + 1 /\ Len(more) = Len(s) + 1
  BY <1>1, <1>2 DEF Payloads
<1>4. \A i \in 1..(Len(s) + 1) : long[i] = more[i]
  BY <1>1, <1>2 DEF Payloads
<1> HIDE DEF long, more
<1>5. long = more
  BY <1>3, <1>4, SeqEqual
<1> QED BY <1>2, <1>5 DEF long, more

\* A copy is where its event was sent to, and behind a copy of every event
\* that was sent there before.
Placed ==
  \A p \in Partitions : \A i \in DOMAIN topic[p] :
    /\ sent[topic[p][i]].partition = p
    /\ \A n \in DOMAIN sent :
         n < topic[p][i] /\ sent[n].partition = p => \E k \in 1..i : topic[p][k] = n

\* What PublishedInOrder rests on. A dev run that nobody disturbed is connected.
PublishedInv ==
  /\ Payloads(sent) = Publishable
  /\ published = IF Unanswered THEN Len(sent) - 1 ELSE Len(sent)
  /\ \A n \in 1..published : Holds(n)
  /\ Placed
  /\ exchange = "dev" =>
       /\ pc # "connecting"
       /\ state = "connected" => ~stop
       /\ \A i \in DOMAIN received : received[i] = Script[i]
       /\ calls = 0 /\ pc \in {"streaming", "sleeping", "publishing"} =>
            ~stop /\ state = "connected"
       /\ calls = 0 /\ outcome = "completed" => Len(received) = Len(Script)

\* The invariant says what the property says.
LEMMA PublishedInOrderFromInv ==
  ASSUME ProducerInv, PublishedInv
  PROVE  PublishedInOrder
<1>1. /\ received \in Seq(Raw) /\ Script \in Seq(Raw)
      /\ topic \in [Partitions -> Seq(DOMAIN sent)]
  BY ProducerAssumption DEF ProducerInv, TypeOK
<1>2. ASSUME NEW p \in Partitions, NEW j \in DOMAIN topic[p], NEW i \in 1..j,
             topic[p][i] > topic[p][j]
      PROVE  \E k \in 1..i : topic[p][k] = topic[p][j]
  <2>1. topic[p] \in Seq(DOMAIN sent) /\ i \in DOMAIN topic[p] /\ topic[p][j] \in DOMAIN sent
    BY <1>1
  <2>2. sent[topic[p][j]].partition = p
    BY DEF PublishedInv, Placed
  <2>3. topic[p][j] < topic[p][i]
    <3>1. topic[p][j] \in Int /\ topic[p][i] \in Int
      BY <2>1 DEF ProducerInv, TypeOK
    <3> QED BY <1>2, <3>1
  <2> QED BY <2>1, <2>2, <2>3 DEF PublishedInv, Placed
<1>5. exchange = "dev" => IsPrefix(received, Script)
  <2> SUFFICES ASSUME exchange = "dev" PROVE IsPrefix(received, Script)
    OBVIOUS
  <2>1. Len(received) <= Len(Script) /\ Len(received) \in Nat /\ Len(Script) \in Nat
    BY <1>1 DEF ProducerInv, HoldsResources
  <2> DEFINE a == SubSeq(received, 1, Len(received))
             b == SubSeq(Script, 1, Len(received))
  <2>2. a \in Seq(Raw) /\ b \in Seq(Raw) /\ Len(a) = Len(received) /\ Len(b) = Len(received)
    BY <1>1, <2>1, SubSeqProperties
  <2>3. \A i \in 1..Len(received) : a[i] = received[i] /\ b[i] = Script[i]
    BY <1>1, <2>1, SubSeqProperties
  <2>4. \A i \in 1..Len(received) : received[i] = Script[i]
    BY <1>1 DEF PublishedInv
  <2> HIDE DEF a, b
  <2>5. a = b
    BY <2>2, <2>3, <2>4, SeqEqual
  <2> QED BY <2>1, <2>5 DEF a, b, IsPrefix
<1>6. exchange = "dev" /\ outcome = "completed" /\ calls = 0 => received = Script
  <2> SUFFICES ASSUME exchange = "dev", outcome = "completed", calls = 0
               PROVE  received = Script
    OBVIOUS
  <2>1. Len(received) = Len(Script) /\ \A i \in 1..Len(received) : received[i] = Script[i]
    BY <1>1 DEF PublishedInv
  <2> QED BY <1>1, <2>1, SeqEqual
<1> QED BY <1>2, <1>5, <1>6 DEF PublishedInOrder, PublishedInv

\* A raw event is taken up: what can be published is sent.
LEMMA YieldPublishes ==
  ASSUME ProducerInv, PublishedInv, NEW raw \in Raw, Yield(raw),
         pc \in {"streaming", "sleeping"},
         UNCHANGED <<exchange, topic, published, calls>>,
         exchange = "dev" => Len(received) < Len(Script) /\ raw = Script[Len(received) + 1]
  PROVE  PublishedInv'
<1>1. /\ TypeOK /\ outcome = "none"
      /\ received \in Seq(Raw) /\ Script \in Seq(Raw)
      /\ received' = Append(received, raw)
      /\ sent \in Seq(Envelope) /\ topic \in [Partitions -> Seq(DOMAIN sent)]
  BY ProducerAssumption DEF ProducerInv, TypeOK, HoldsResources, Yield
<1>2. Payloads(sent) = Publishable /\ published = Len(sent)
  BY <1>1 DEF PublishedInv, Unanswered
<1>3. Publishable' = IF can_prepare(exchange, raw) /\ Prepares(exchange, raw)
                     THEN Append(Publishable, raw)
                     ELSE Publishable
  BY <1>1, PublishablesAppend DEF Publishable
<1>4. exchange' = exchange /\ topic' = topic /\ published' = published /\ calls' = calls
  OBVIOUS
<1>5. \A n \in 1..published' : Holds(n)'
  BY <1>4 DEF PublishedInv, Holds
<1>6. exchange = "dev" => \A i \in DOMAIN received' : received'[i] = Script[i]
  <2> SUFFICES ASSUME exchange = "dev", NEW i \in DOMAIN received'
               PROVE  received'[i] = Script[i]
    OBVIOUS
  <2>1. CASE i \in DOMAIN received
    BY <1>1, <2>1 DEF PublishedInv
  <2>2. CASE i \notin DOMAIN received
    BY <1>1, <2>2
  <2> QED BY <2>1, <2>2
<1>7. CASE pc' \in {"streaming", "closing"}
  <2>1. /\ sent' = sent /\ Publishable' = Publishable
        /\ outcome' \in {"none", "escaped"}
        /\ pc' = "streaming" => UNCHANGED <<state, stop>>
        /\ pc' = "closing" => outcome' = "escaped" /\ state' = "disconnected"
    BY <1>1, <1>3, <1>7, YieldEffect
  <2>2. Payloads(sent)' = Publishable'
    BY <1>2, <2>1 DEF Payloads
  <2>3. published' = Len(sent') /\ ~Unanswered'
    BY <1>2, <1>7, <2>1 DEF Unanswered
  <2>4. Placed'
    BY <1>4, <2>1 DEF PublishedInv, Placed
  <2> QED BY <1>4, <1>5, <1>6, <1>7, <2>1, <2>2, <2>3, <2>4 DEF PublishedInv
<1>8. CASE pc' = "publishing"
  <2>1. PICK m \in Envelope : sent' = Append(sent, m) /\ m.event.payload = raw
    BY <1>8, YieldEffect
  <2>2. Publishable' = Append(Publishable, raw) /\ UNCHANGED <<state, stop, outcome>>
    BY <1>3, <1>8, YieldEffect
  <2>3. Payloads(sent)' = Publishable'
    <3>1. Payloads(sent)' = Payloads(sent')
      BY DEF Payloads
    <3> QED BY <1>1, <1>2, <2>1, <2>2, <3>1, PayloadsAppend
  <2>4. published' = Len(sent') - 1 /\ Unanswered'
    BY <1>1, <1>2, <1>8, <2>1 DEF Unanswered
  <2>5. /\ \A n \in DOMAIN sent : sent'[n] = sent[n]
        /\ DOMAIN sent' = 1..(Len(sent) + 1) /\ DOMAIN sent = 1..Len(sent)
        /\ Len(sent) \in Nat
    BY <1>1, <2>1
  <2>6. Placed'
    <3> SUFFICES ASSUME NEW p \in Partitions, NEW i \in DOMAIN topic[p]
                 PROVE  /\ sent'[topic[p][i]].partition = p
                        /\ \A n \in DOMAIN sent' :
                             n < topic[p][i] /\ sent'[n].partition = p
                               => \E k \in 1..i : topic[p][k] = n
      BY <1>4 DEF Placed
    <3>1. topic[p][i] \in DOMAIN sent
      BY <1>1
    <3>2. /\ sent[topic[p][i]].partition = p
          /\ \A n \in DOMAIN sent : n < topic[p][i] /\ sent[n].partition = p
                                      => \E k \in 1..i : topic[p][k] = n
      BY DEF PublishedInv, Placed
    <3>3. \A n \in DOMAIN sent' : n < topic[p][i] => n \in DOMAIN sent
      BY <2>5, <3>1
    <3> QED BY <2>5, <3>1, <3>2, <3>3
  <2> QED BY <1>4, <1>5, <1>6, <1>8, <2>2, <2>3, <2>4, <2>6 DEF PublishedInv
<1> QED BY <1>7, <1>8, YieldEffect

\* A copy arrives: every event sent to its partition before it is there.
LEMMA ArrivePlaces ==
  ASSUME ProducerInv, PublishedInv, NEW n \in DOMAIN sent, Arrive(n)
  PROVE  Placed' /\ \A m \in 1..published : Holds(m)'
<1> DEFINE p == sent[n].partition
<1>0. sent[n] \in Envelope
  BY DEF ProducerInv, TypeOK
<1>1. /\ sent \in Seq(Envelope) /\ topic \in [Partitions -> Seq(DOMAIN sent)]
      /\ p \in Partitions /\ Len(sent) \in Nat /\ DOMAIN sent = 1..Len(sent)
  BY <1>0 DEF ProducerInv, TypeOK, Envelope
<1>2. topic' = [topic EXCEPT ![p] = Append(topic[p], n)] /\ sent' = sent
  BY DEF Arrive
<1> HIDE DEF p
<1>3. topic[p] \in Seq(DOMAIN sent) /\ topic'[p] = Append(topic[p], n)
  BY <1>1, <1>2
<1>4. \A q \in Partitions : /\ topic[q] \in Seq(DOMAIN sent)
                            /\ q # p => topic'[q] = topic[q]
  BY <1>1, <1>2
<1>5. /\ Len(topic[p]) \in Nat /\ Len(topic'[p]) = Len(topic[p]) + 1
      /\ DOMAIN topic'[p] = 1..(Len(topic[p]) + 1) /\ DOMAIN topic[p] = 1..Len(topic[p])
      /\ topic'[p][Len(topic[p]) + 1] = n
      /\ \A i \in DOMAIN topic[p] : topic'[p][i] = topic[p][i]
  BY <1>3
<1>6. \A q \in Partitions : \A i \in DOMAIN topic[q] :
        /\ i \in DOMAIN topic'[q] /\ topic'[q][i] = topic[q][i]
        /\ \A k \in 1..i : k \in DOMAIN topic[q]
  BY <1>4, <1>5
<1>7. \A m \in 1..published : Holds(m)'
  <2> SUFFICES ASSUME NEW m \in 1..published PROVE \E q \in Partitions : m \in Range(topic'[q])
    BY DEF Holds
  <2>1. PICK q \in Partitions : m \in Range(topic[q])
    BY DEF PublishedInv, Holds
  <2>2. PICK i \in DOMAIN topic[q] : topic[q][i] = m
    BY <2>1 DEF Range
  <2>3. i \in DOMAIN topic'[q] /\ topic'[q][i] = m
    BY <1>6, <2>2
  <2>4. m \in Range(topic'[q])
    BY <2>3 DEF Range
  <2> QED BY <2>4
<1>8. ASSUME NEW m \in DOMAIN sent, m < n, sent[m].partition = p
      PROVE  \E k \in 1..Len(topic[p]) : topic[p][k] = m
  <2>0. published \in {Len(sent) - 1, Len(sent)}
    BY DEF PublishedInv
  <2>9. m \in 1..Len(sent) /\ n \in 1..Len(sent) /\ Len(sent) \in Nat
    BY <1>1
  <2>1. m \in 1..published
    BY <1>8, <2>0, <2>9
  <2>2. PICK q \in Partitions : m \in Range(topic[q])
    BY <2>1 DEF PublishedInv, Holds
  <2>3. PICK k \in DOMAIN topic[q] : topic[q][k] = m
    BY <2>2 DEF Range
  <2>4. q = p
    BY <1>8, <2>3 DEF PublishedInv, Placed
  <2> QED BY <1>5, <2>3, <2>4
<1>9. Placed'
  <2> SUFFICES ASSUME NEW q \in Partitions, NEW i \in DOMAIN topic'[q]
               PROVE  /\ sent[topic'[q][i]].partition = q
                      /\ \A m \in DOMAIN sent : m < topic'[q][i] /\ sent[m].partition = q
                           => \E k \in 1..i : topic'[q][k] = m
    BY <1>2 DEF Placed
  <2>1. CASE i \in DOMAIN topic[q]
    <3>1. /\ sent[topic[q][i]].partition = q
          /\ \A m \in DOMAIN sent : m < topic[q][i] /\ sent[m].partition = q
               => \E k \in 1..i : topic[q][k] = m
      BY <2>1 DEF PublishedInv, Placed
    <3> QED BY <1>6, <2>1, <3>1
  <2>2. CASE i \notin DOMAIN topic[q]
    <3>1. q = p /\ i = Len(topic[p]) + 1 /\ topic'[q][i] = n
      BY <1>4, <1>5, <2>2
    <3>2. sent[n].partition = p
      BY DEF p
    <3>3. \A k \in 1..Len(topic[p]) : k \in 1..i /\ topic'[p][k] = topic[p][k]
      BY <1>5, <3>1
    <3> QED BY <1>8, <3>1, <3>2, <3>3
  <2> QED BY <2>1, <2>2
<1> QED BY <1>7, <1>9

\* Every step keeps it.
LEMMA PublishedStep ==
  ASSUME ProducerInv, PublishedInv, [Next]_vars
  PROVE  PublishedInv'
<1>0. /\ received \in Seq(Raw) /\ Script \in Seq(Raw) /\ sent \in Seq(Envelope)
      /\ outcome # "none" => pc \in {"closing", "ended"}
      /\ calls \in Nat /\ Len(sent) \in Nat
      /\ calls = 0 /\ pc = "starting" => state = "disconnected"
  BY ProducerAssumption DEF ProducerInv, TypeOK, HoldsResources
<1>same. ASSUME UNCHANGED <<exchange, received, sent, topic, published>>
      PROVE  /\ Payloads(sent)' = Publishable' /\ Placed' /\ \A n \in 1..published' : Holds(n)'
             /\ Unanswered' = Unanswered =>
                  published' = IF Unanswered' THEN Len(sent') - 1 ELSE Len(sent')
             /\ exchange' = "dev" => \A i \in DOMAIN received' : received'[i] = Script[i]
  <2>1. Payloads(sent)' = Payloads(sent) /\ Publishable' = Publishable
    BY <1>same DEF Payloads, Publishable
  <2>2. Placed' /\ \A n \in 1..published' : Holds(n)'
    BY <1>same DEF PublishedInv, Placed, Holds
  <2> QED BY <1>same, <2>1, <2>2 DEF PublishedInv
<1>1. CASE Build
  BY <1>0, <1>1, <1>same DEF Build, PublishedInv, Unanswered, connectorVars, runVars
<1>2. CASE Started
  BY <1>0, <1>2, <1>same DEF Started, PublishedInv, Unanswered, runVars
<1>3. CASE StartFails
  BY <1>0, <1>3, <1>same DEF StartFails, PublishedInv, Unanswered, connectorVars, runVars
<1>4. CASE Connected
  BY <1>0, <1>4, <1>same DEF Connected, PublishedInv, Unanswered, runVars
<1>5. CASE ConnectFails
  BY <1>0, <1>5, <1>same DEF ConnectFails, PublishedInv, Unanswered, connectorVars, runVars
<1>6. CASE Resume
  <2>1. CASE Ended
    BY <1>0, <1>6, <1>same, <2>1 DEF Resume, Finally, Ended, PublishedInv, Unanswered
  <2>2. CASE ~Ended /\ paced
    BY <1>0, <1>6, <1>same, <2>2 DEF Resume, connectorVars, PublishedInv, Unanswered
  <2>3. CASE ~Ended /\ ~paced
    <3>1. Len(received) < Len(Script)
      BY <1>0, <1>6, <2>3 DEF Ended, ProducerInv, HoldsResources, Resume
    <3> QED BY <1>6, <2>3, <3>1, Yielding, YieldPublishes DEF Resume
  <2> QED BY <2>1, <2>2, <2>3
<1>7. CASE Awake
  <2>1. Len(received) < Len(Script)
    BY <1>7 DEF Awake, ProducerInv, HoldsResources
  <2> QED BY <1>7, <2>1, Yielding, YieldPublishes DEF Awake
<1>8. ASSUME NEW raw \in Live, Message(raw) PROVE PublishedInv'
  BY <1>8, YieldPublishes, ProducerAssumption DEF Message
<1>9. CASE StreamEnds
  BY <1>0, <1>9, <1>same DEF StreamEnds, Finally, PublishedInv, Unanswered, runVars
<1>10. CASE Published
  <2>1. /\ UNCHANGED <<exchange, received, sent, topic, state, stop, outcome, calls>>
        /\ published' = published + 1 /\ pc' = "streaming" /\ pc = "publishing"
        /\ Holds(Len(sent)) /\ outcome = "none"
    BY <1>0, <1>10 DEF Published, connectorVars, ProducerInv, TypeOK
  <2>2. published = Len(sent) - 1
    BY <2>1 DEF PublishedInv, Unanswered
  <2>3. Payloads(sent)' = Publishable'
    BY <2>1 DEF PublishedInv, Payloads, Publishable
  <2>4. Placed'
    BY <2>1 DEF PublishedInv, Placed
  <2>5. \A n : Holds(n)' <=> Holds(n)
    BY <2>1 DEF Holds
  <2>6. \A n \in 1..published' : n \in 1..published \/ n = Len(sent)
    BY <1>0, <2>1, <2>2
  <2>7. \A n \in 1..published' : Holds(n)'
    BY <2>1, <2>5, <2>6 DEF PublishedInv
  <2>8. published' = Len(sent') /\ ~Unanswered'
    BY <1>0, <2>1, <2>2 DEF Unanswered
  <2> QED BY <2>1, <2>3, <2>4, <2>7, <2>8 DEF PublishedInv
<1>11. CASE PublishFails
  BY <1>0, <1>11, <1>same DEF PublishFails, Finally, PublishedInv, Unanswered, runVars
<1>12. CASE Close
  BY <1>0, <1>12, <1>same DEF Close, PublishedInv, Unanswered, connectorVars, runVars
<1>13. CASE Disconnect \/ Reconnect
  <2>1. calls' = calls + 1 /\ calls' # 0
    BY <1>0, <1>13 DEF Disconnect, Reconnect
  <2> QED BY <1>0, <1>13, <1>same, <2>1
          DEF Disconnect, Reconnect, Suspended, PublishedInv, Unanswered, runVars
<1>15. ASSUME NEW n \in DOMAIN sent, Arrive(n) PROVE PublishedInv'
  <2>1. Placed' /\ \A m \in 1..published : Holds(m)'
    BY <1>15, ArrivePlaces
  <2>2. /\ UNCHANGED <<exchange, received, sent, published, pc, state, stop, outcome, calls>>
    BY <1>15 DEF Arrive, connectorVars
  <2>3. Payloads(sent)' = Publishable'
    BY <2>2 DEF PublishedInv, Payloads, Publishable
  <2> QED BY <2>1, <2>2, <2>3 DEF PublishedInv, Unanswered
<1>14. CASE UNCHANGED vars
  BY <1>0, <1>14, <1>same DEF vars, connectorVars, runVars, PublishedInv, Unanswered
<1> QED
  BY <1>1, <1>2, <1>3, <1>4, <1>5, <1>6, <1>7, <1>8, <1>9, <1>10, <1>11, <1>12, <1>13, <1>14,
     <1>15 DEF Next, Step

\* Whatever fails, whoever interferes and however often and late the client
\* sends an event again: what was received is in the topic in the order of the
\* exchange, partition by partition and repetitions aside, and none left out.
THEOREM AtLeastOnceInOrder == Spec => []PublishedInOrder
<1>1. Init => PublishedInv
  <2> SUFFICES ASSUME Init PROVE PublishedInv
    OBVIOUS
  <2>1. Payloads(sent) = <<>> /\ Len(sent) = 0 /\ received = <<>> /\ published = 0
    BY DEF Init, Payloads
  <2>2. Publishable = <<>>
    BY <2>1, PublishablesEmpty DEF Publishable
  <2>3. Placed
    BY DEF Init, Placed
  <2>4. \A n \in 1..0 : Holds(n)
    OBVIOUS
  <2> QED BY <2>1, <2>2, <2>3, <2>4 DEF Init, PublishedInv, Unanswered
<1>2. ProducerInv /\ PublishedInv /\ [Next]_vars => PublishedInv'
  BY PublishedStep
<1>3. ProducerInv /\ PublishedInv => PublishedInOrder
  BY PublishedInOrderFromInv
<1> QED BY <1>1, <1>2, <1>3, ProducerInvariant, PTL DEF Spec

----------------------------------------------------------------------------
(* The raw event that halts a run.                                         *)

\* A raw event whose preparation raises what run() does not catch.
Halts(raw) == can_prepare(exchange, raw) /\ Escapes(exchange, raw)

\* "Does not halt ingestion" (pipeline.py:23-24) fails for these, and for
\* these alone: the first of them is the last event that a run receives, and
\* no other event makes a run end that way.
HaltedByEscapesOnly ==
  /\ \A i \in DOMAIN received : Halts(received[i]) => i = Len(received) /\ outcome = "escaped"
  /\ outcome = "escaped" => received # <<>> /\ Halts(received[Len(received)])

\* The event yielded halts the run, or the run goes on.
LEMMA YieldHalts ==
  ASSUME ProducerInv, HaltedByEscapesOnly, NEW raw \in Raw, Yield(raw),
         pc \in {"streaming", "sleeping"}, UNCHANGED exchange
  PROVE  HaltedByEscapesOnly'
<1> DEFINE n == Len(received)
<1>1. /\ received \in Seq(Raw) /\ n \in Nat /\ received' = Append(received, raw)
      /\ outcome = "none"
  BY DEF ProducerInv, TypeOK, HoldsResources, Yield
<1>2. /\ Len(received') = n + 1 /\ received' # <<>> /\ received'[n + 1] = raw
      /\ DOMAIN received' = 1..n + 1
      /\ \A i \in 1..n : received'[i] = received[i]
  BY <1>1
<1>3. \A i \in 1..n : ~Halts(received[i])
  BY <1>1 DEF HaltedByEscapesOnly
<1>4. outcome' = "escaped" <=> Halts(raw)
  BY <1>1 DEF Yield, Finally, Halts, Prepares, Refuses, Escapes
<1>5. \A e : Halts(e)' <=> Halts(e)
  BY DEF Halts
<1> HIDE DEF Halts, n
<1>6. ASSUME NEW i \in 1..n + 1, Halts(received'[i])
      PROVE  i = n + 1
  BY <1>1, <1>2, <1>3, <1>6 DEF n
<1> QED BY <1>2, <1>4, <1>5, <1>6 DEF HaltedByEscapesOnly

\* In every run, whatever the exchange sends: one raw event of these ends it.
THEOREM OneEscapeEndsTheRun == Spec => []HaltedByEscapesOnly
<1>1. Init => HaltedByEscapesOnly
  BY DEF Init, HaltedByEscapesOnly
<1>2. ASSUME ProducerInv, HaltedByEscapesOnly, [Next]_vars
      PROVE  HaltedByEscapesOnly'
  <2>0. /\ received \in Seq(Raw) /\ Script \in Seq(Raw)
        /\ outcome # "none" => pc \in {"closing", "ended"}
    BY <1>2, ProducerAssumption DEF ProducerInv, TypeOK, HoldsResources
  <2>1. ASSUME UNCHANGED <<received, exchange>>, outcome' = outcome \/ outcome = "none",
               outcome' = "escaped" => outcome = "escaped"
        PROVE  HaltedByEscapesOnly'
    BY <1>2, <2>1 DEF HaltedByEscapesOnly, Halts
  <2>2. ASSUME NEW raw \in Raw, Yield(raw), pc \in {"streaming", "sleeping"}, UNCHANGED exchange
        PROVE  HaltedByEscapesOnly'
    BY <1>2, <2>2, YieldHalts
  <2>3. CASE Resume
    <3>1. CASE Ended \/ paced
      BY <2>0, <2>1, <2>3, <3>1 DEF Resume, Finally
    <3>2. CASE ~Ended /\ ~paced
      <4>1. Len(received) < Len(Script)
        BY <1>2, <2>0, <2>3, <3>2 DEF Ended, ProducerInv, HoldsResources, Resume
      <4> QED BY <1>2, <2>2, <2>3, <3>2, <4>1, Yielding DEF Resume
    <3> QED BY <3>1, <3>2
  <2>4. CASE Awake
    <3>1. Len(received) < Len(Script)
      BY <1>2, <2>4 DEF Awake, ProducerInv, HoldsResources
    <3> QED BY <1>2, <2>2, <2>4, <3>1, Yielding DEF Awake
  <2>5. ASSUME NEW raw \in Live, Message(raw) PROVE HaltedByEscapesOnly'
    BY <2>2, <2>5, ProducerAssumption DEF Message
  <2>7. ASSUME NEW n \in DOMAIN sent, Arrive(n) PROVE HaltedByEscapesOnly'
    BY <2>1, <2>7 DEF Arrive
  <2>6. CASE \/ Build \/ Started \/ StartFails \/ Connected \/ ConnectFails \/ StreamEnds
             \/ Published \/ PublishFails \/ Close \/ Disconnect \/ Reconnect \/ UNCHANGED vars
    BY <2>0, <2>1, <2>6
    DEF Build, Started, StartFails, Connected, ConnectFails, StreamEnds, Published, PublishFails,
        Close, Disconnect, Reconnect, Finally, vars, runVars
  <2> QED BY <1>2, <2>3, <2>4, <2>5, <2>6, <2>7 DEF Next, Step
<1> QED BY <1>1, <1>2, ProducerInvariant, PTL DEF Spec
=============================================================================
