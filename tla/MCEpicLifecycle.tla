--------------------------- MODULE MCEpicLifecycle ---------------------------
(* A small instance of EpicLifecycle for TLC: one review that runs and one *)
(* that passed before, each in a chain of its own.                         *)
EXTENDS EpicLifecycle

CONSTANTS prep, c1, c2, r1, r2, m1, v1

ChainOfReview == [j \in {r1, r2} |-> IF j = r1 THEN c1 ELSE c2]
SecondPassed == <<r2>>
=============================================================================
