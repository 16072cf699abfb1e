--------------------------- MODULE MCRingAccess ----------------------------
(* Model-checking instance of RingAccess. *)
EXTENDS RingAccess
=============================================================================
