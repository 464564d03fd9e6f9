--------------------------- MODULE MCProducerRun ---------------------------
(* Instances of ProducerRun for TLC. *)
EXTENDS ProducerRun

CONSTANTS ten, t1, t2, t3, one, zero, nan, t9, p1, p2

SomeStrings == {"buy", "sell", "trade", "ticker", "orderbook", "unknown", "coinbase", "dev",
                "match", "last_match", "BTC-USD", " BTC-USD", "10", "10:1", " ", ""}
SomeBlanks == {" ", ""}
SomePadded == {" BTC-USD"}
SomeNonStrings == {ten}
StrOf == [v \in SomeStrings \cup SomeNonStrings |-> IF v = ten THEN "10" ELSE v]
SplitOf == [s \in SomeStrings |-> IF s = "10:1" THEN <<"10", t1>> ELSE <<s>>]
SomeDecimals == {one, zero, nan}
OnlyOne == {one}
OnlyNan == {nan}
SomeInstants == {t1, t2, t3}
ReceivedAt == {t3}
Later == {t9}
TwoPartitions == {p1, p2}
AllExchanges == Sources \cup {"binance"}

Trade(type, symbol, id, time, price) ==
  [type |-> type, side |-> "buy", symbol |-> symbol, trade_id |-> id, time |-> time,
   price |-> price, quantity |-> one]

\* One trade under two types and two types of trade_id; a blank symbol and no
\* price; no product_id; a time without offset; two that raise something else.
SomeMessages ==
  {Trade("match", "BTC-USD", ten, t1, one), Trade("last_match", "BTC-USD", "10", t1, one),
   Trade("match", " ", ten, t2, zero), Trade("match", Missing, ten, t1, one),
   Trade("match", "BTC-USD", ten, NaiveTime, one),
   Trade("match", "BTC-USD", ten, t2, nan), Trade("match", "BTC-USD", ten, t9, one)}

\* A trade_id and the same with a time behind it, a symbol with a space, and a
\* bad number.
FourEvents ==
  <<Trade("trade", "BTC-USD", "10", t1, one), Trade(Missing, " BTC-USD", "10:1", t2, one),
    Trade("trade", "BTC-USD", "10", t2, NotADecimal), Trade("ticker", "BTC-USD", " ", t1, one)>>
=============================================================================
