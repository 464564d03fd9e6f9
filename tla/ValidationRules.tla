--------------------------- MODULE ValidationRules ---------------------------
(***************************************************************************)
(* The eight rules of the Validation Engine: processing/validation/rules.py *)
(* as functions from an event to the codes of its failures. The types that  *)
(* pydantic guarantees are checked once more by the code and here.          *)
(***************************************************************************)
EXTENDS Contracts

\* value.strip() is empty; an event_id of more than one part has a colon.
BlankText(v) == v \notin Strings \/ v \in Blanks
BlankId(id) == id = <<>> \/ (Len(id) = 1 /\ BlankText(id[1]))

Code(condition, code) == IF condition THEN {code} ELSE {}

required_fields(event) ==
  Code(BlankId(event.event_id) \/ \E v \in {event.source, event.symbol, event.trade_id} :
                                     BlankText(v), "missing_or_empty")
    \cup Code(event.payload \notin Raw, "payload_not_object")

event_identity(event) == Code(BlankId(event.event_id), "missing_event_id")

trade_identity(event) == Code(BlankText(event.trade_id), "missing_trade_id")

symbol_validity(event) ==
  Code(BlankText(event.symbol) \/ event.symbol \in Padded, "invalid_symbol")

trade_side_validity(event) == Code(event.side \notin Sides, "unsupported_side")

\* price_validity and quantity_validity.
AmountCodes(v) ==
  IF v \notin Decimals \ NonFinite THEN {"not_finite_decimal"}
  ELSE Code(v \notin Positive, "non_positive")

timestamp_validity(event) ==
  Code(event.trade_timestamp \notin Instants, "naive_trade_timestamp")
    \cup Code(event.received_at \notin Instants, "naive_received_at")

\* default_rules(), by name.
default_rules(event) ==
  [required_fields |-> required_fields(event),
   event_identity |-> event_identity(event),
   trade_identity |-> trade_identity(event),
   symbol_validity |-> symbol_validity(event),
   trade_side_validity |-> trade_side_validity(event),
   price_validity |-> AmountCodes(event.price),
   quantity_validity |-> AmountCodes(event.quantity),
   timestamp_validity |-> timestamp_validity(event)]

\* The rules an event fails, as the engine collects them; it is valid when
\* there are none.
FailedRules(event) ==
  {rule \in DOMAIN default_rules(event) : default_rules(event)[rule] # {}}
IsValid(event) == FailedRules(event) = {}
=============================================================================
