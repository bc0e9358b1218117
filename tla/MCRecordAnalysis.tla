-------------------------- MODULE MCRecordAnalysis --------------------------
(* A small field graph for TLC: reason reads summary and need, advice reads reason. *)
EXTENDS RecordAnalysis

Graph == [f \in Field |->
  CASE f = "reason" -> {"summary", "need"}
    [] f = "advice" -> {"reason"}
    [] OTHER -> {}]
=============================================================================
