-------------------------- MODULE MCPeerInteraction --------------------------
(* A small instance of PeerInteraction for TLC *)
EXTENDS PeerInteraction
CONSTANTS q1, q2
=============================================================================
