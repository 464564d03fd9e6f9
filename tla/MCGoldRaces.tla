---------------------------- MODULE MCGoldRaces ----------------------------
(* An instance of GoldRaces for TLC. *)
EXTENDS GoldRaces

CONSTANTS w1, w2

TwoWorkers == {w1, w2}

\* Three trades of one window, numbered against their order.
Trades3 ==
  {[id |-> 1, symbol |-> 1, traded |-> 1],
   [id |-> 2, symbol |-> 1, traded |-> 0],
   [id |-> 3, symbol |-> 1, traded |-> 0]}

\* In a context of two digits, the price of the first alone has too many;
\* the sums of the first two are exact, those with the third are rounded.
Prices3 == <<100, 20, 37>>
Quantities3 == <<1, 2, 99>>
Sides3 == <<"buy", "sell", "sell">>

PowersOfTen == {1, 10, 100, 1000, 10000}
=============================================================================
