------------------------- MODULE MCNewsletterDelivery -------------------------
(***************************************************************************)
(* Small instances of NewsletterDelivery, by what is allowed to go wrong.  *)
(***************************************************************************)
EXTENDS NewsletterDelivery, TLC

Once(kinds) == [k \in MishapKinds |-> IF k \in kinds THEN 1 ELSE 0]

NothingGoesWrong == Once({})

\* a call outlasts the minute of its claim, a retry the day of its key
WorkersLate == Once({"late", "forgotten"})

\* a process stops, a statement fails, a released run is taken back
StatementsFail == Once({"stop", "error", "withdrawal"})

AllMorning == [r \in Runs |-> "morning"]

MCSymmetry == Permutations(Workers)

=============================================================================
