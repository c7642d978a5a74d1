----------------------------- MODULE MCLRUCache -----------------------------
(***************************************************************************)
(* Instances of LRUCache for TLC.                                          *)
(***************************************************************************)
EXTENDS LRUCache, TLC

(* Block ids and contents are only compared for equality. *)
Symmetry == Permutations(Blk) \cup Permutations(Data)

=============================================================================
