--------------------------- MODULE MCReportPipeline ---------------------------
(* Instances of ReportPipeline for TLC. Task slots are interchangeable, so  *)
(* the safety runs use them as a symmetry set.                              *)
EXTENDS ReportPipeline, TLC

SlotSymmetry == Permutations(Slots)
=============================================================================
