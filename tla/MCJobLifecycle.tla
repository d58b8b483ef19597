---------------------------- MODULE MCJobLifecycle ----------------------------
(* Small instances of JobLifecycle for TLC. *)
EXTENDS JobLifecycle

CONSTANTS a, b, o1

OneJob == {a}
TwoJobs == {a, b}
Nobody == {}
OneOperator == {o1}
=============================================================================
