------------------------ MODULE MCCandidatePipeline ------------------------
(* CandidatePipeline at the code's own bound: at most five skills and five  *)
(* features of an extraction become rows.                                   *)
EXTENDS CandidatePipeline
=============================================================================
