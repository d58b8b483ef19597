-------------------------- MODULE MCActivationHost --------------------------
(* Small instances of ActivationHost for TLC. *)
EXTENDS ActivationHost

CONSTANT w1

OneWriter == {w1}
AllCalls == {"resume", "retry", "override", "stop"}
StopOnly == {"stop"}
=============================================================================
