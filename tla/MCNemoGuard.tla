---------------------------- MODULE MCNemoGuard ----------------------------
(***************************************************************************)
(* An instance of NemoGuard for TLC: one request (requests share nothing   *)
(* but the timeout), durations of four bits in half seconds, and every     *)
(* timeoutSeconds four bits can hold.                                      *)
(***************************************************************************)
EXTENDS NemoGuard

MCConfigured == -8 .. 7
=============================================================================
