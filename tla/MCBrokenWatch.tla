---------------------------- MODULE MCBrokenWatch ----------------------------
(***************************************************************************)
(* The instance of BrokenWatch for TLC, with the objects and resources of  *)
(* the other instances of ExternalModelReconciler.                         *)
(***************************************************************************)
EXTENDS BrokenWatch, MCExternalModelReconciler
=============================================================================
