---------------------------- MODULE MarketWindows ----------------------------
(***************************************************************************)
(* The values of a Gold row: processing/gold/windows.py, pure functions of *)
(* a set of trusted events, and what they promise of the rows in Gold.     *)
(*                                                                         *)
(* Decimal values are natural numbers of a smallest unit: the price and    *)
(* quantity of a trusted event are positive, which the validation rules    *)
(* guarantee (ProducerRunProofs, TrustedIsPositive). Each sum, product and *)
(* quotient is rounded to the digits of the decimal context.               *)
(***************************************************************************)
EXTENDS GoldProcessing, Integers

F == INSTANCE FiniteSetsExt

CONSTANTS
  Price,       \* Price[id]: the price of that trade
  Quantity,    \* Quantity[id]: its quantity
  Side,        \* Side[id]: "buy" or "sell"
  VwapUnit,    \* 10^-vwap_scale, in units of price
  Context,     \* 10^prec of the decimal context (prec is 28)
  Units,       \* powers of ten, up to the largest a number of the run needs
  Second       \* one second, in units of trade_timestamp

ASSUME MarketAssumption ==
  /\ \A e, f \in Events : e.id = f.id => e = f
  /\ \A e \in Events :
       /\ Price[e.id] \in Nat \ {0}
       /\ Quantity[e.id] \in Nat \ {0}
       /\ Side[e.id] \in {"buy", "sell"}
  /\ VwapUnit \in Nat \ {0}
  /\ Context \in Nat \ {0, 1}
  /\ Units \subseteq Nat \ {0}
  /\ {1, Context} \subseteq Units
  /\ \A u \in Units \ {1} : u % 10 = 0 /\ u \div 10 \in Units
  /\ Second \in Nat \ {0}

----------------------------------------------------------------------------
(* The window of a timestamp.                                              *)

\* int() truncates towards zero.
WholeSeconds(t) == IF t >= 0 THEN t \div Second ELSE -((-t) \div Second)

window_start_for(t) == (WholeSeconds(t) - (WholeSeconds(t) % WindowSeconds)) * Second

window_bounds_for(t) ==
  <<window_start_for(t), window_start_for(t) + WindowSeconds * Second>>

----------------------------------------------------------------------------
(* The arithmetic of decimal.Decimal.                                      *)

\* The numbers a result can be: digits of the context and an exponent.
Decimals == {c * u : c \in 0..(Context - 1), u \in Units}

\* n / d as the result of an operation: the nearest of these numbers and, of
\* two that are equally near, the one whose last digit is even.
Rounded(n, d) ==
  LET distance(m) == IF m * d <= n THEN n - m * d ELSE m * d - n
      gap(m, o) == IF m <= o THEN o - m ELSE m - o
  IN CHOOSE m \in Decimals : \A o \in Decimals \ {m} :
       \/ distance(m) < distance(o)
       \/ distance(m) = distance(o) /\ (m \div gap(m, o)) % 2 = 0

\* quantize(..., ROUND_HALF_UP) of the quotient n / d, before its limit.
RoundHalfUp(n, d) == (2 * n + d) \div (2 * d)

----------------------------------------------------------------------------
(* aggregate_window().                                                     *)

\* Mutant of First: the trade that was numbered first.
FirstNumbered(trades) == CHOOSE e \in trades : \A f \in trades \ {e} : e.id < f.id

\* ordered[0] and ordered[-1], sorted by trade_timestamp, then event_id.
First(trades) == CHOOSE e \in trades : \A f \in trades \ {e} : TradedBefore(e, f)
Last(trades) == CHOOSE e \in trades : \A f \in trades \ {e} : TradedBefore(f, e)

\* `total += value` for each trade, in order.
RunningSum(value, trades) ==
  LET sum[s \in SUBSET trades] ==
        IF s = {} THEN 0 ELSE Rounded(sum[s \ {Last(s)}] + value[Last(s)], 1)
  IN sum[trades]

Quantities == [e \in Events |-> Quantity[e.id]]
Values == [e \in Events |-> Rounded(Price[e.id] * Quantity[e.id], 1)]

Prices(trades) == {Price[e.id] : e \in trades}
Volume(trades) == RunningSum(Quantities, trades)
Notional(trades) == RunningSum(Values, trades)
OfSide(side, trades) == {e \in trades : Side[e.id] = side}

\* (notional / total_quantity).quantize(...). A mean price has digits enough
\* before 1 / Context that no digit of the quotient is beyond it.
vwap(trades) ==
  RoundHalfUp(Rounded(Notional(trades) * Context, Volume(trades)), VwapUnit * Context)

aggregate_window(trades) ==
  [trades |-> trades,
   open |-> Price[First(trades).id],
   high |-> F!Max(Prices(trades)),
   low |-> F!Min(Prices(trades)),
   close |-> Price[Last(trades).id],
   trade_count |-> Cardinality(trades),
   volume |-> Volume(trades),
   buy_volume |-> Volume(OfSide("buy", trades)),
   sell_volume |-> Volume(OfSide("sell", trades)),
   vwap |-> vwap(trades)]

\* The candles that sets of trades give.
Candles == {aggregate_window(trades) : trades \in (SUBSET Events) \ {{}}}

\* quantize() raises when its result has more digits than the context: what
\* Unquantizable is.
TooManyDigits == {c.trades : c \in {c \in Candles : c.vwap >= Context}}

----------------------------------------------------------------------------
(* Properties.                                                             *)

\* The sets of trades of which no sum or product is rounded: all their
\* numbers have digits no more than the context.
NothingRounded ==
  {trades \in SUBSET Events :
     /\ \A e \in trades : Price[e.id] * Context \in Decimals
     /\ \A e \in trades : Price[e.id] * Quantity[e.id] \in Decimals
     /\ \A value \in {Quantities, Values}, part \in (SUBSET trades) \ {{}} :
          RunningSum(value, part \ {Last(part)}) + value[Last(part)] \in Decimals}

\* What gold.py:11-20 says of the numbers of a row, whichever trades reached
\* it in whichever order: open and close are prices of trades no other trade
\* of the row precedes or follows, no price is outside low..high (also the
\* table's CHECK), and something was traded (windows.py:124), no less than on
\* either side. Bought and sold add up to the volume, and the VWAP leaves
\* low..high by its own rounding only, unless the context rounded a sum.
CandleIsConsistent ==
  \A win \in Windows : gold[win] # NoRow => \E c \in Candles :
    /\ c.trades = gold[win].trades
    /\ c.trade_count > 0
    /\ \E e \in c.trades : Price[e.id] = c.open /\ \A f \in c.trades : ~TradedBefore(f, e)
    /\ \E e \in c.trades : Price[e.id] = c.close /\ \A f \in c.trades : ~TradedBefore(e, f)
    /\ \A e \in c.trades : c.low <= Price[e.id] /\ Price[e.id] <= c.high
    /\ c.volume > 0 /\ c.buy_volume <= c.volume /\ c.sell_volume <= c.volume
    /\ c.trades \in NothingRounded =>
         /\ c.volume = c.buy_volume + c.sell_volume
         /\ RoundHalfUp(c.low, VwapUnit) <= c.vwap
         /\ c.vwap <= RoundHalfUp(c.high, VwapUnit)
=============================================================================
