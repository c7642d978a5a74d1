----------------------------- MODULE MCFSLayout -----------------------------
(***************************************************************************)
(* Instances of FSLayout for TLC.                                          *)
(***************************************************************************)
EXTENDS FSLayout

=============================================================================
