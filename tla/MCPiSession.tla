---------------------------- MODULE MCPiSession ----------------------------
(* A small instance of PiSession for TLC                                   *)
EXTENDS PiSession
=============================================================================
