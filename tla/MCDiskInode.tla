----------------------------- MODULE MCDiskInode -----------------------------
(***************************************************************************)
(* Instances of DiskInode for TLC: the sizes the files may be given.       *)
(***************************************************************************)
EXTENDS DiskInode

LargeAndSmall == <<5, 1>>

(* No action looks at ret, and none but Wrecked is enabled once the        *)
(* metadata is not intact: states that differ in ret, or in the rest then, *)
(* are the same.                                                           *)
MapView ==
    <<live, torn, clobbered, IF Intact THEN <<inode, used, entry>> ELSE <<>> >>

=============================================================================
