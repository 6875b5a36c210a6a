--------------------------- MODULE MCNegotiation ---------------------------
(* Instances of Negotiation for TLC. *)
EXTENDS Negotiation
=============================================================================
