----------------------------- MODULE Contracts -----------------------------
(***************************************************************************)
(* The values of events: common/contracts/events.py and what JSON gives    *)
(* the producer in their place. Only what the code tells apart is kept: of *)
(* a string, what strip() leaves of it; of a number, its sign; of a time,  *)
(* whether it is one and whether datetime has room for it.                 *)
(*                                                                         *)
(* Strings are valid Unicode, as pydantic demands.                         *)
(***************************************************************************)
EXTENDS Naturals, Sequences

CONSTANTS
  Missing,      \* a key that is not there
  Null,         \* None
  Strings,      \* the strings of the instance
  Empty,        \* ""
  Blanks,       \* those strip() leaves nothing of
  Padded,       \* those strip() leaves something shorter of
  NonStrings,   \* other JSON values in the place of a string
  Str,          \* Str[v]: str(v)
  Split,        \* Split[s]: the parts of s between its colons
  Decimals,     \* what Decimal(str(v)) can be
  Positive,     \* the finite ones above zero
  NonFinite,    \* NaN and the infinities
  NotADecimal,  \* a value that Decimal() refuses
  Instants,     \* times that datetime represents
  FarInstants,  \* times it has no room for
  NaiveTime,    \* an ISO-8601 time without an offset
  NotATime      \* a value of the wrong type, or that does not parse

Sides == {"buy", "sell"}
EventTypes == {"trade", "ticker", "orderbook", "unknown"}
Sources == {"coinbase", "dev"}

Absent == {Missing, Null}

ASSUME ContractsAssumption ==
  /\ Sides \cup EventTypes \cup Sources \cup {"match", "last_match"} \subseteq Strings
  /\ Empty \in Blanks
  /\ Blanks \subseteq Strings
  /\ Padded \subseteq Strings \ Blanks
  /\ (Blanks \cup Padded) \cap (Sides \cup EventTypes \cup Sources) = {}
  /\ NonStrings \cap Strings = {}
  /\ Str \in [Strings \cup NonStrings -> Strings]
  /\ \A s \in Strings : Str[s] = s
  /\ \A v \in NonStrings : Str[v] \notin Blanks \cup Padded
  /\ Split \in [Strings -> Seq(Strings \cup Instants)]
  /\ \A s \in Strings : Split[s] # <<>>
  /\ \A s, t \in Strings : Split[s] = Split[t] => s = t
  /\ Positive \subseteq Decimals
  /\ NonFinite \subseteq Decimals \ Positive
  /\ NotADecimal \notin Decimals
  /\ FarInstants \cap Instants = {}
  /\ {NaiveTime, NotATime} \cap (Instants \cup FarInstants) = {}
  /\ Absent \cap (Strings \cup NonStrings \cup Decimals \cup Instants \cup FarInstants) = {}
  /\ {NotADecimal, NaiveTime, NotATime} \cap Absent = {}

\* A dictionary received from an exchange. Coinbase calls the symbol
\* product_id, the quantity size and the time time; dev has trade_time_ms.
Raw ==
  LET text == Strings \cup NonStrings \cup Absent
      number == Decimals \cup {NotADecimal} \cup Absent
  IN [type: text, side: text, symbol: text, trade_id: text,
      time: Instants \cup FarInstants \cup {NaiveTime, NotATime} \cup Absent,
      price: number, quantity: number]

\* An event_id is known by the parts between its colons, those that its
\* trade_id brings included. A part that spells a time in milliseconds is that
\* time.
InternalEvent ==
  [event_id: Seq(Strings \cup Instants), source: Strings, event_type: EventTypes,
   received_at: Instants, symbol: Strings, price: Decimals \ NonFinite,
   quantity: Decimals \ NonFinite, side: Sides, trade_id: Strings,
   trade_timestamp: Instants, payload: Raw]
=============================================================================
