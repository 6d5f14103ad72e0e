---------------------------- MODULE MCAnalysisQueue ----------------------------
(***************************************************************************)
(* Small instances of AnalysisQueue for TLC.                               *)
(***************************************************************************)
EXTENDS AnalysisQueue, TLC

\* Games and workers are interchangeable: no property names one of them.
Symmetry == Permutations(Games) \cup Permutations(Workers)
=============================================================================
