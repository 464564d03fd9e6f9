-------------------------- MODULE MCGoldProcessing --------------------------
(* Instances of GoldProcessing for TLC. *)
EXTENDS GoldProcessing

CONSTANT w1

OneWorker == {w1}

Traded(i, s, t) == [id |-> i, symbol |-> s, traded |-> t]

\* Two trades of one window.
OneWindow == {Traded(1, 1, 0), Traded(2, 1, 0)}

\* Those, one of another symbol at the same time and one of the next window.
ThreeWindows == OneWindow \cup {Traded(3, 2, 0), Traded(4, 1, 1)}

\* The window between the other two cannot be aggregated.
MiddleWindow == {{Traded(3, 2, 0)}}
=============================================================================
