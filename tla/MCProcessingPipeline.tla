------------------------ MODULE MCProcessingPipeline ------------------------
(* Instances of ProcessingPipeline for TLC. *)
EXTENDS ProcessingPipeline, TLC

CONSTANTS w1, w2, p1, form

TwoWorkers == {w1, w2}
OnePartition == {p1}
OneRule == {form}

Body(finding, traded) ==
  [received |-> 0, findings |-> (form :> finding), symbol |-> 1, traded |-> traded]

\* A trusted event and a rejected one.
Mixed == {Body("pass", 0), Body("fail", 0)}
=============================================================================
