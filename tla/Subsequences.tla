------------------------------ MODULE Subsequences ------------------------------
(***************************************************************************)
(* What filter leaves of an array.                                         *)
(***************************************************************************)
EXTENDS Integers, Sequences

\* the entries of seq at the places in S, in their order
EntriesAt(seq, S) ==
    LET upTo[n \in 0 .. Len(seq)] ==
            IF n = 0 THEN <<>>
            ELSE IF n \in S THEN Append(upTo[n - 1], seq[n]) ELSE upTo[n - 1]
    IN  upTo[Len(seq)]

=============================================================================
