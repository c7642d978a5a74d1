----------------------------- MODULE NameSpace -----------------------------
(***************************************************************************)
(* Directories and inodes: Inode::create, find, link, unlink and remove    *)
(* (src/inode.cpp) over the inode table and the inode bitmap.              *)
(*                                                                         *)
(* An operation takes the state of the disk and returns the new one, so    *)
(* that a callback can run several in a row.  The state is a record:       *)
(*   node   the DiskInode of every inode: its type, its link_cnt and, for  *)
(*          a directory, the entries its size covers, "." and ".." among   *)
(*          them; what a free inode holds is not kept                      *)
(*   used   the inodes marked in the inode bitmap                          *)
(*   room   the free blocks of the data bitmap                             *)
(*   short  a block was asked for and there was none                       *)
(* Names are opaque.  A directory block holds E entries.  The block device *)
(* does not fail.                                                          *)
(***************************************************************************)
EXTENDS Integers, SequencesExt, FiniteSetsExt

CONSTANTS
    NInodes,    (* inodes of the inode area                                *)
    E,          (* kDirEntries, entries of a directory block               *)
    D           (* INODE_DIRECT_COUNT                                      *)

ASSUME NameSpaceAssumption ==
    /\ NInodes \in Nat \ {0}
    /\ E \in Nat \ {0, 1}
    /\ D \in Nat \ {0}

Inodes == 1 .. NInodes
Root   == 1
None   == 0         (* Inode::invalid() *)
Bad    == -1        (* the inode whose id is kFail: past the device *)

Dot    == "."
DotDot == ".."

Entry(n, i) == [name |-> n, inode |-> i]
Node(type, link, ents) == [type |-> type, link |-> link, ents |-> ents]
Disk(nd, us, room, short) == [node |-> nd, used |-> us, room |-> room, short |-> short]

(* DiskInode(type), and for a directory the two entries create() adds. *)
NewNode(type, self, parent) ==
    Node(type, 1, IF type = "dir" THEN <<Entry(Dot, self), Entry(DotDot, parent)>> ELSE <<>>)

(* A free inode.  What remove() leaves of the old one on disk is not kept: *)
(* a create() that succeeds overwrites it unread.  The handle that         *)
(* sb_create() opens when it did not may sit on it, and is not followed.   *)
FreeNode == Node("file", 0, <<>>)

(* The inode table with the entries of d, or the count of i, changed. *)
SetEnts(nd, d, ents)  == [nd EXCEPT ![d] = Node(nd[d].type, nd[d].link, ents)]
AddLink(nd, i, delta) == [nd EXCEPT ![i] = Node(nd[i].type, nd[i].link + delta, nd[i].ents)]

-----------------------------------------------------------------------------
(* data_blocks() of a directory of n entries; the blocks it takes with its *)
(* index block; total_blocks(), which counts the index block too early.    *)
(* Directories of more than D + I blocks are left out.                     *)
data_blocks(n)  == (n + E - 1) \div E
Blocks(n)       == data_blocks(n) + (IF data_blocks(n) > D THEN 1 ELSE 0)
total_blocks(n) == data_blocks(n) + (IF data_blocks(n) >= D THEN 1 ELSE 0)

(* The first entry of that name, or 0.  The loops read block after block   *)
(* into one DirBlock: behind the last entry it shows those of the block    *)
(* before, which were looked at already.                                   *)
At(ents, n) ==
    LET P == {j \in DOMAIN ents : ents[j].name = n}
    IN  IF P = {} THEN 0 ELSE Min(P)

(* Whether a search that finds nothing ends well.  It reads total_blocks() *)
(* blocks, and the read of a block past the end fails, unless it starts at *)
(* the very end of the file and a stale index entry leads to some block.   *)
ScanEnds(ents, stale) ==
    \/ total_blocks(Len(ents)) = data_blocks(Len(ents))
    \/ stale /\ Len(ents) % E = 0

(* Inode::find() *)
find(nd, d, n) ==
    LET j == At(nd[d].ents, n)
    IN  IF nd[d].type = "dir" /\ j # 0 THEN nd[d].ents[j].inode ELSE None

(* Mutant of Without: the last entry is not moved to the free place. *)
WithoutLast(ents, j) == Front(ents)

(* An entry is taken out: the last one is moved to its place. *)
Without(ents, j) == Front([ents EXCEPT ![j] = Last(ents)])

-----------------------------------------------------------------------------
(***************************************************************************)
(* Inode::create().  alloc_inode() comes first and its result is not       *)
(* looked at.  Then the parent's block, the new directory's block, the new *)
(* inode; the parent's new size is saved last, so that a failure before    *)
(* leaves its entry out of sight and the new inode marked.                 *)
(***************************************************************************)
alloc_inode(us) == IF Inodes \subseteq us THEN Bad ELSE Min(Inodes \ us)

(* The blocks a directory of these entries takes for one more. *)
Need(ents) == Blocks(Len(ents) + 1) - Blocks(Len(ents))

(* Mutant of create: the parent is saved whatever became of the inode. *)
createParentFirst(F, d, n, type) ==
    LET new  == alloc_inode(F.used)
        ents == F.node[d].ents
        need == Need(ents) + (IF type = "dir" THEN 1 ELSE 0)
        full == need > F.room
        nd   == SetEnts(F.node, d, Append(ents, Entry(n, new)))
    IN  [disk  |-> Disk(IF full \/ new = Bad THEN nd
                          ELSE [nd EXCEPT ![new] = NewNode(type, new, d)],
                        F.used \cup ({new} \ {Bad}),
                        IF full THEN 0 ELSE F.room - need,
                        F.short \/ full),
         inode |-> new]

create(F, d, n, type) ==
    LET new  == alloc_inode(F.used)
        ents == F.node[d].ents
        need == Need(ents) + (IF type = "dir" THEN 1 ELSE 0)
        full == need > F.room
        nd   == SetEnts(F.node, d, Append(ents, Entry(n, new)))
    IN  [disk  |-> Disk(IF full \/ new = Bad THEN F.node
                          ELSE [nd EXCEPT ![new] = NewNode(type, new, d)],
                        F.used \cup ({new} \ {Bad}),
                        IF full THEN 0 ELSE F.room - need,
                        F.short \/ full),
         inode |-> new]

(***************************************************************************)
(* Inode::link().  The count is raised before the directory is grown.      *)
(***************************************************************************)
(* Mutant of link: the link count is not raised. *)
linkUncounted(F, d, n, i, replace, stale) ==
    LET ents == F.node[d].ents
        j    == At(ents, n)
    IN  IF j # 0 THEN
          IF replace THEN Disk(SetEnts(F.node, d, [ents EXCEPT ![j] = Entry(n, i)]), F.used, F.room, F.short)
          ELSE F
        ELSE IF ~ScanEnds(ents, stale) THEN F
        ELSE IF Need(ents) > F.room THEN Disk(F.node, F.used, F.room, TRUE)
        ELSE Disk(SetEnts(F.node, d, Append(ents, Entry(n, i))), F.used, F.room - Need(ents), F.short)

link(F, d, n, i, replace, stale) ==
    LET ents    == F.node[d].ents
        j       == At(ents, n)
        counted == AddLink(F.node, i, 1)
    IN  IF j # 0 THEN
          IF replace THEN Disk(SetEnts(counted, d, [ents EXCEPT ![j] = Entry(n, i)]), F.used, F.room, F.short)
          ELSE F
        ELSE IF ~ScanEnds(ents, stale) THEN F
        ELSE IF Need(ents) > F.room THEN Disk(counted, F.used, F.room, TRUE)
        ELSE Disk(SetEnts(counted, d, Append(ents, Entry(n, i))), F.used, F.room - Need(ents), F.short)

(* The free blocks once a directory of these entries has lost one. *)
Regained(F, ents) == F.room + Blocks(Len(ents)) - Blocks(Len(ents) - 1)

(* Mutant of unlink: the inode is freed when its last name goes. *)
unlinkFrees(F, d, n) ==
    LET ents == F.node[d].ents
        i    == ents[At(ents, n)].inode
    IN  Disk(AddLink(SetEnts(F.node, d, Without(ents, At(ents, n))), i, -1),
             F.used \ {i}, Regained(F, ents), F.short)

(* Inode::unlink() of a name that is there: the inode itself is kept. *)
unlink(F, d, n) ==
    LET ents == F.node[d].ents
        i    == ents[At(ents, n)].inode
    IN  Disk(AddLink(SetEnts(F.node, d, Without(ents, At(ents, n))), i, -1),
             F.used, Regained(F, ents), F.short)

(* Inode::remove() of a name that is there.  When other links are left     *)
(* neither the entry nor the count on disk changes.                        *)
remove(F, d, n) ==
    LET ents == F.node[d].ents
        i    == ents[At(ents, n)].inode
    IN  IF F.node[i].link # 1 THEN F
        ELSE Disk([SetEnts(F.node, d, Without(ents, At(ents, n))) EXCEPT ![i] = FreeNode],
                  F.used \ {i}, Regained(F, ents), F.short)

(* sb_rmdir(): what it takes for an empty directory. *)
IsEmptyDir(nd, i) ==
    /\ total_blocks(Len(nd[i].ents)) <= 1
    /\ \A j \in DOMAIN nd[i].ents : nd[i].ents[j].name \in {Dot, DotDot}

=============================================================================
