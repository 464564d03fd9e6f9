-------------------------- MODULE MCBronzeIngestion --------------------------
(* Instances of BronzeIngestion for TLC. *)
EXTENDS BronzeIngestion

CONSTANTS w1, w2, p1, idA, idB, first, again, poison

OneWorker == {w1}
TwoWorkers == {w1, w2}
OnePartition == {p1}
OneId == {idA}
TwoIds == {idA, idB}
=============================================================================
