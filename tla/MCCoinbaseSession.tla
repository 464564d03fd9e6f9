------------------------- MODULE MCCoinbaseSession -------------------------
(* Instances of CoinbaseSession for TLC. *)
EXTENDS CoinbaseSession

CONSTANTS other, another

NoStopper == {}
TwoStoppers == {other, another}
=============================================================================
