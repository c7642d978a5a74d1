------------------------------ MODULE MCFSync ------------------------------
(***************************************************************************)
(* Instances of FSync for TLC.                                             *)
(***************************************************************************)
EXTENDS FSync, TLC

TwoAndOne == <<2, 1>>

(* Contents are only compared for equality. *)
Symmetry == Permutations(Val)

(* No action looks at ret: states that differ in it alone are the same. *)
SyncView == <<inode, live, torn, used, entry, clobbered, data, disk, synced>>

=============================================================================
