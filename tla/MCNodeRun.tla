------------------------------ MODULE MCNodeRun -------------------------------
(* A small instance of NodeRun for TLC. *)
EXTENDS NodeRun

CONSTANTS m1, c

OneMember == {m1}
OneSpeaks == [w \in {m1, c} |-> IF w = c THEN 1 ELSE 0]
NoPipe    == {<<c, 2>>}
=============================================================================
