-------------------------- MODULE EventPreparation --------------------------
(***************************************************************************)
(* Raw dictionary to InternalEvent: CoinbaseEventPreparer                  *)
(* (producer/preparation/coinbase.py) and DevEventPreparer (dev.py).       *)
(*                                                                         *)
(* A check that fails raises PreparationError, which the pipeline logs and *)
(* passes over (Refuses). Two steps raise something else, which it does    *)
(* not catch (Escapes): a time that datetime has no room for, and pydantic *)
(* on a number that is not finite. Which of several problems is met first  *)
(* decides; the fields are read in the order of the code.                  *)
(***************************************************************************)
EXTENDS Contracts

MatchTypes == {"match", "last_match"}

\* can_prepare(): dev takes whatever it is given (base.py).
can_prepare(source, raw) ==
  source = "coinbase" => raw.type \in MatchTypes /\ raw.symbol # Missing

\* EventType(str(raw_event.get("type", "trade"))); str(None) is no EventType.
TypeKnown(raw) ==
  \/ raw.type = Missing
  \/ raw.type # Null /\ Str[raw.type] \in EventTypes
EventTypeOf(raw) == IF raw.type = Missing THEN "trade" ELSE Str[raw.type]

\* TradeSide(str(_require(raw_event, "side"))).
SideKnown(raw) == raw.side \notin Absent /\ Str[raw.side] \in Sides

\* isinstance(value, str) and value.
NonEmptyString(v) == v \in Strings \ {Empty}

\* The checks before the time is converted, and of its form.
FieldsRefused(source, raw) ==
  \/ ~SideKnown(raw)
  \/ ~NonEmptyString(raw.symbol)
  \/ raw.time \in Absent \cup {NotATime, NaiveTime}
  \/ CASE source = "coinbase" -> raw.type \notin MatchTypes
                                 \/ raw.trade_id \in Absent \cup {Empty}
       [] source = "dev" -> ~TypeKnown(raw)
                            \/ ~NonEmptyString(raw.trade_id)

\* _to_decimal() of price and quantity, after the time.
NumbersRefused(raw) == {raw.price, raw.quantity} \cap (Absent \cup {NotADecimal}) # {}

\* prepare() raises PreparationError.
Refuses(source, raw) ==
  \/ FieldsRefused(source, raw)
  \/ raw.time \notin FarInstants /\ NumbersRefused(raw)

\* prepare() raises OverflowError (astimezone, fromtimestamp) or pydantic's
\* ValidationError.
Escapes(source, raw) ==
  /\ ~FieldsRefused(source, raw)
  /\ \/ raw.time \in FarInstants
     \/ ~NumbersRefused(raw) /\ {raw.price, raw.quantity} \cap NonFinite # {}

Prepares(source, raw) == ~Refuses(source, raw) /\ ~Escapes(source, raw)

\* coinbase:{trade_id}, dev:{trade_id}:{trade_time_ms}. A trade_id may hold
\* colons of its own.
EventId(source, raw) ==
  IF source = "coinbase" THEN <<source>> \o Split[Str[raw.trade_id]]
                         ELSE <<source>> \o Split[raw.trade_id] \o <<raw.time>>

\* Mutant of prepare: the symbol and the trade_id are swapped.
PreparedSwapped(source, raw, now) ==
  [event_id |-> EventId(source, raw),
   source |-> source,
   event_type |-> IF source = "coinbase" THEN "trade" ELSE EventTypeOf(raw),
   received_at |-> now,
   symbol |-> Str[raw.trade_id],
   price |-> raw.price,
   quantity |-> raw.quantity,
   side |-> Str[raw.side],
   trade_id |-> raw.symbol,
   trade_timestamp |-> raw.time,
   payload |-> raw]

\* The event, received at now.
prepare(source, raw, now) ==
  [event_id |-> EventId(source, raw),
   source |-> source,
   event_type |-> IF source = "coinbase" THEN "trade" ELSE EventTypeOf(raw),
   received_at |-> now,
   symbol |-> raw.symbol,
   price |-> raw.price,
   quantity |-> raw.quantity,
   side |-> Str[raw.side],
   trade_id |-> Str[raw.trade_id],
   trade_timestamp |-> raw.time,
   payload |-> raw]
=============================================================================
