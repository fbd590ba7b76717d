---------------------------- MODULE MCTlsSession ----------------------------
(* TLC instance of TlsSession: the bounds are in the .cfg.  The invariants *)
(* of the proof are at hand.                                               *)
EXTENDS TlsInvariants
=============================================================================
