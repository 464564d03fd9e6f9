--------------------------- MODULE MCTrustRouting ---------------------------
(* Instances of TrustRouting for TLC. *)
EXTENDS TrustRouting, TLC

CONSTANTS w1, w2, form, price

OneWorker == {w1}
TwoWorkers == {w1, w2}
BothRules == {form, price}

Row(t, f, p) == [received |-> t, findings |-> (form :> f @@ price :> p)]

\* A trusted row, one rejected by one rule, one on which a rule raises.
MixedBodies == {Row(0, "pass", "pass"), Row(0, "pass", "fail"), Row(1, "raise", "fail")}

\* Trusted and rejected rows at two arrival times.
TimedBodies == {Row(0, "pass", "pass"), Row(1, "pass", "pass"), Row(0, "raise", "pass")}
=============================================================================
