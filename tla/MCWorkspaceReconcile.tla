------------------------ MODULE MCWorkspaceReconcile ------------------------
(* Small instances of WorkspaceReconcile for TLC. *)
EXTENDS WorkspaceReconcile, TLC

CONSTANTS p1, p2, p3, a1, a2

TwoPids == {p1, p2}
ThreePids == {p1, p2, p3}
LastPid == {p3}
TwoActs == {a1, a2}
NoPids == {}
=============================================================================
