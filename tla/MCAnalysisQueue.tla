--------------------------- MODULE MCAnalysisQueue ---------------------------
(***************************************************************************)
(* Small instances of AnalysisQueue: two jobs, two processes.              *)
(***************************************************************************)
EXTENDS AnalysisQueue, TLC

MCSymmetry ==
    Permutations(Jobs) \cup Permutations(Workers) \cup Permutations(Slots)

=============================================================================
