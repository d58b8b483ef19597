-------------------------- MODULE MCWorkspaceLease --------------------------
(* Small instances of WorkspaceLease for TLC. *)
EXTENDS WorkspaceLease, TLC

CONSTANTS p1, p2, p3, a1, a2

TwoPids == {p1, p2}
ThreePids == {p1, p2, p3}
TwoActs == {a1, a2}
NoPids == {}
OnePid == {p1}
=============================================================================
