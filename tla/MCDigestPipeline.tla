--------------------------- MODULE MCDigestPipeline ---------------------------
(***************************************************************************)
(* Small instances of DigestPipeline, by what is allowed to go wrong.      *)
(***************************************************************************)
EXTENDS DigestPipeline, TLC

\* a task stops, or another outlasts its lease, or a statement fails
TasksFail == {{"task stops"}, {"late task"}, {"error"}}

\* a collector stops and another outlasts its lease
CollectorsFail == {{"collector stops", "late collector"}}

MCSymmetry ==
    Permutations(Stories) \cup Permutations(Tasks) \cup Permutations(Collectors)

=============================================================================
