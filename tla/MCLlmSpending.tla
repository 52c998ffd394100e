----------------------------- MODULE MCLlmSpending -----------------------------
EXTENDS LlmSpending

CONSTANTS A1, A2, B1

MCHomeOf == [t \in Tasks |-> IF t = B1 THEN "B" ELSE "A"]
=============================================================================
