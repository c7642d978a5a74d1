--------------------------- MODULE MCPathResolver ---------------------------
(***************************************************************************)
(* An instance of PathResolver for TLC: four paths of different lengths.   *)
(***************************************************************************)
EXTENDS PathResolver

Sizes == <<2, 3, 4, 5>>

=============================================================================
