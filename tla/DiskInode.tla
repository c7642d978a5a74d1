------------------------------ MODULE DiskInode ------------------------------
(***************************************************************************)
(* The block map of a file: DiskInode's direct, indirect1 and indirect2    *)
(* pointers (src/disk_inode.cpp), the index blocks they lead to, and the   *)
(* data bitmap the blocks come from (src/bitmap.cpp), as Inode::resize,    *)
(* Inode::write_data, Inode::create and Inode::remove use them.            *)
(*                                                                         *)
(* Sizes are counted in blocks.  Of the blocks' contents only the index    *)
(* entries are kept: entry[<<b, k>>] is the k-th id in block b.  It is     *)
(* Junk, which stands for any id, in a block that is free or that file     *)
(* data was written to.  The block device never fails here.                *)
(*                                                                         *)
(* The code can overwrite blocks before the data area (clobbered) and save *)
(* an inode with blocks it never got (torn).  The module follows the file  *)
(* system as far as its metadata is Intact, which the loss of the super    *)
(* block does not change: it is read when the file system is mounted.      *)
(***************************************************************************)
EXTENDS Integers, FiniteSets

CONSTANTS
    File,       (* inodes in the inode area                                *)
    D,          (* INODE_DIRECT_COUNT                                      *)
    I,          (* INODE_INDIRECT_COUNT                                    *)
    Start,      (* data_segment_offset of the data bitmap; the blocks      *)
                (* before it are the super block, the bitmaps and inodes   *)
    NData,      (* blocks of the data area                                 *)
    MaxSize     (* bound: largest size each file is given, in blocks       *)

ASSUME GeometryAssumption ==
    /\ D \in Nat \ {0}
    /\ I \in Nat \ {0}
    /\ NData \in Nat
    /\ Start \in Nat /\ I <= Start   (* 1024 and 1153 in config.h: the place  *)
                                     (* of a leaf is no block of the data area *)
    /\ MaxSize \in [File -> 0 .. D + I + I * I]

VARIABLES
    inode,      (* inode[f]: size and pointers of f's DiskInode            *)
    live,       (* the inodes in use                                       *)
    torn,       (* inodes saved with blocks they could not get             *)
    used,       (* the data bitmap: ids of the blocks taken                *)
    entry,      (* index entries of the blocks, <<block, position>> -> id  *)
    clobbered,  (* blocks before the data area that were overwritten       *)
    ret         (* file of the last operation and its result               *)

vars == <<inode, live, torn, used, entry, clobbered, ret>>

kSuccess == 0
kFail    == -1
Bad      == -1      (* kFail as a block id *)
Junk     == -2

DataBlks == Start .. Start + NData - 1
Blks     == 0 .. Start + NData - 1
Idx      == 0 .. I - 1

(* What every operation relies on: no inode is torn, and the bitmaps and   *)
(* inodes, which are in the blocks after the super block, are as they were *)
(* written.                                                                *)
SuperBlk == 0
Intact   == torn = {} /\ clobbered \subseteq {SuperBlk}

-----------------------------------------------------------------------------
(***************************************************************************)
(* Arithmetic of the map.  A place is where the id of a block is kept:     *)
(* "direct" i, "indirect1", "entry1" k in the block of indirect1,          *)
(* "indirect2", "leaf" b in the block of indirect2, and "entry2" j, the    *)
(* j-th data block behind indirect2.                                       *)
(***************************************************************************)
Place(kind, i) == <<kind, i>>

AllPlaces ==
    ({"direct"} \X (0 .. D - 1)) \cup ({"indirect1", "indirect2"} \X {0})
    \cup ({"entry1", "leaf"} \X Idx) \cup ({"entry2"} \X (0 .. I * I - 1))

(* A file has a block at p when it has more than From(p) data blocks. *)
From(p) ==
    CASE p[1] = "direct"    -> p[2]
      [] p[1] = "indirect1" -> D
      [] p[1] = "entry1"    -> D + p[2]
      [] p[1] = "indirect2" -> D + I
      [] p[1] = "leaf"      -> D + I + p[2] * I
      [] p[1] = "entry2"    -> D + I + p[2]

(* What a file of n data blocks takes: its data and its index blocks. *)
PlacesOf(n) == {p \in AllPlaces : From(p) < n}

(* The id kept at a place. *)
Leaf(ino, e, b) == e[<<ino.indirect2, b>>]
Loc(ino, e, p) ==
    CASE p[1] = "direct"    -> ino.direct[p[2]]
      [] p[1] = "indirect1" -> ino.indirect1
      [] p[1] = "entry1"    -> e[<<ino.indirect1, p[2]>>]
      [] p[1] = "indirect2" -> ino.indirect2
      [] p[1] = "leaf"      -> Leaf(ino, e, p[2])
      [] p[1] = "entry2"    -> e[<<Leaf(ino, e, p[2] \div I), p[2] % I>>]

(* The place of the i-th data block of a file. *)
DataPlace(i) ==
    IF i < D THEN Place("direct", i)
    ELSE IF i < D + I THEN Place("entry1", i - D)
    ELSE Place("entry2", i - D - I)

(* The k-th id in the index block b: the read of block kFail fails, and a  *)
(* block before the data area (0, when the pointer is not set) is read as  *)
(* if it held ids.                                                         *)
EntryAt(e, b, k) ==
    IF b = Bad THEN Bad ELSE IF b \in DataBlks THEN e[<<b, k>>] ELSE Junk

(* block_id(), the id of the i-th data block. *)
block_id(ino, e, i) ==
    LET p == DataPlace(i)
    IN  CASE p[1] = "direct" -> ino.direct[p[2]]
          [] p[1] = "entry1" -> EntryAt(e, ino.indirect1, p[2])
          [] p[1] = "entry2" -> EntryAt(e, EntryAt(e, ino.indirect2, p[2] \div I), p[2] % I)

-----------------------------------------------------------------------------
(***************************************************************************)
(* increase(): the blocks it asks the bitmap for, in the order it does.    *)
(***************************************************************************)
BlkLimit(old) == IF old - D - I - 1 < 0 THEN -1 ELSE (old - D - I - 1) \div I

(* Mutant of Unset: an index block is allocated on every growth. *)
UnsetAlways(id) == TRUE

(* An index block is allocated when the pointer to it is 0. *)
Unset(id) == id = 0

Needed(ino, old, new) ==
    LET gained == old .. new - 1
        behind == {i - D - I : i \in {i \in gained : i >= D + I}}
    IN  {Place("direct", i) : i \in {i \in gained : i < D}}
        \cup {q \in {Place("indirect1", 0)} : new > D /\ Unset(ino.indirect1)}
        \cup {Place("entry1", i - D) : i \in {i \in gained : D <= i /\ i < D + I}}
        \cup {q \in {Place("indirect2", 0)} : new > D + I /\ Unset(ino.indirect2)}
        \cup {Place("leaf", j \div I) : j \in {j \in behind : j \div I > BlkLimit(old)}}
        \cup {Place("entry2", j) : j \in behind}

(* The order in which it asks: data block by data block, and for each the  *)
(* index blocks above it first.                                            *)
Depth(p) == CASE p[1] = "entry2" -> 2 [] p[1] \in {"entry1", "leaf"} -> 1 [] OTHER -> 0
Order(p) == 3 * From(p) + Depth(p)
Turn(want, p) == Cardinality({q \in want : Order(q) < Order(p)})

(* Mutant of alloc: the position is counted from one. *)
allocFromOne(k) == 1 + CHOOSE b \in DataBlks \ used :
                           Cardinality({c \in DataBlks \ used : c < b}) = k

(* Bitmap::alloc() hands out the lowest free block: the one after k others *)
(* of the same increase() is the one with k free blocks below it.          *)
alloc(k) == CHOOSE b \in DataBlks \ used :
                Cardinality({c \in DataBlks \ used : c < b}) = k

NFree == NData - Cardinality(used)

(* What the places get, until there is no free block, and the place for    *)
(* which there is none.                                                    *)
NewBlks(want) == [p \in {q \in want : Turn(want, q) < NFree} |-> alloc(Turn(want, p))]
Lacking(want) == {p \in want : Turn(want, p) = NFree}

(* The block at a place once the new ones are handed out, and where the id *)
(* of a place in an index block is kept: the index block's own place, and  *)
(* the position in it.                                                     *)
At(ino, new_blk, p) == IF p \in DOMAIN new_blk THEN new_blk[p] ELSE Loc(ino, entry, p)
Holder(p) ==
    CASE p[1] = "entry1" -> Place("indirect1", 0)
      [] p[1] = "leaf"   -> Place("indirect2", 0)
      [] p[1] = "entry2" -> Place("leaf", p[2] \div I)
Slot(p) == IF p[1] = "entry2" THEN p[2] % I ELSE p[2]
Address(ino, new_blk, p) == <<At(ino, new_blk, Holder(p)), Slot(p)>>

(* The entries that reach the index blocks: the block of indirect1 is      *)
(* written once it is complete, those behind indirect2 after every         *)
(* allocation.                                                             *)
Written(want, new_blk) ==
    {p \in DOMAIN new_blk :
        \/ p[1] \in {"leaf", "entry2"}
        \/ p[1] = "entry1" /\ \A q \in Lacking(want) : q[1] # "entry1"}

(***************************************************************************)
(* increase(ino, old, new).  The pointers of the DiskInode change in       *)
(* memory only.                                                            *)
(***************************************************************************)
Increase(ino, old, new) ==
    LET want    == Needed(ino, old, new)
        new_blk == NewBlks(want)
        pointer(p) == IF p \in Lacking(want) THEN Bad ELSE At(ino, new_blk, p)
        written == Written(want, new_blk)
        address == [p \in written |-> Address(ino, new_blk, p)]
    IN  [ok    |-> Cardinality(want) <= NFree,
         inode |-> [size |-> new,
                    direct |-> [i \in 0 .. D - 1 |-> At(ino, new_blk, Place("direct", i))],
                    indirect1 |-> pointer(Place("indirect1", 0)),
                    indirect2 |-> pointer(Place("indirect2", 0))],
         used  |-> used \cup {new_blk[p] : p \in DOMAIN new_blk},
         entry |-> [a \in DOMAIN entry |->
                      IF \E p \in written : address[p] = a
                        THEN new_blk[CHOOSE p \in written : address[p] = a] ELSE entry[a]]]

(***************************************************************************)
(* decrease(ino, old, new).  ri and rj are the last positions behind       *)
(* indirect2 that the file keeps and that it had; a position r is entry    *)
(* r % I of leaf r \div I.                                                 *)
(***************************************************************************)
BlksOfLeaf(b, lo, hi) == {Place("entry2", b * I + k) : k \in lo .. hi}

(* Whether leaf b is the one with the last position the file keeps. *)
IsLastKept(b, ri) == ri >= 0 /\ b = ri \div I

(* Mutant of LeafReleased: the leaves that become empty are kept. *)
LeafReleasedKept(b, ri, rj) ==
    BlksOfLeaf(b, IF IsLastKept(b, ri) THEN (ri % I) + 1 ELSE 0,
                  IF b = rj \div I THEN rj % I ELSE I - 1)

(* Mutant of LeafReleased: the last entry the file keeps goes as well. *)
LeafReleasedOneMore(b, ri, rj) ==
    BlksOfLeaf(b, IF IsLastKept(b, ri) THEN ri % I ELSE 0,
                  IF b = rj \div I THEN rj % I ELSE I - 1)
    \cup {q \in {Place("leaf", b)} : ~IsLastKept(b, ri)}

(* The round of the loop for leaf b: the entries after the last one kept   *)
(* up to the last one there is, and the leaf, if it keeps none.            *)
LeafReleased(b, ri, rj) ==
    BlksOfLeaf(b, IF IsLastKept(b, ri) THEN (ri % I) + 1 ELSE 0,
                  IF b = rj \div I THEN rj % I ELSE I - 1)
    \cup {q \in {Place("leaf", b)} : ~IsLastKept(b, ri)}

(* The places whose blocks are put on bitmap_to_free. *)
Released(ino, old, new) ==
    LET ri     == new - D - I - 1
        rj     == old - D - I - 1
        leaves == IF rj < 0 THEN {}
                  ELSE (IF ri < 0 THEN 0 ELSE ri \div I) .. rj \div I
    IN  {Place("direct", i) : i \in {i \in new .. old - 1 : i < D}}
        \cup (IF ino.indirect1 = 0 THEN {} ELSE
                {Place("entry1", i - D) : i \in {i \in new .. old - 1 : D <= i /\ i < D + I}}
                \cup {q \in {Place("indirect1", 0)} : new <= D})
        \cup (IF ino.indirect2 = 0 THEN {} ELSE
                (UNION {LeafReleased(b, ri, rj) : b \in leaves})
                \cup {q \in {Place("indirect2", 0)} : ri < 0 /\ rj >= 0})

(***************************************************************************)
(* The blocks given up are marked free after the inode is written.  A leaf *)
(* that keeps some of its entries is written back to the block whose       *)
(* NUMBER is its position in the block of indirect2, which is a block      *)
(* before the data area.                                                   *)
(***************************************************************************)
Decrease(ino, old, new) ==
    LET gone   == Released(ino, old, new)
        freed  == {Loc(ino, entry, p) : p \in gone}
        pi     == BlkLimit(new)     (* posi.first and posj.first, when not -1 *)
        pj     == BlkLimit(old)
        cleared(a) ==
            /\ new > D
            /\ a[1] = ino.indirect1
            /\ Place("entry1", a[2]) \in gone
    IN  [inode |-> [size |-> new,
                    direct |-> [i \in 0 .. D - 1 |->
                        IF Place("direct", i) \in gone THEN Bad ELSE ino.direct[i]],
                    indirect1 |-> IF new <= D THEN 0 ELSE ino.indirect1,
                    indirect2 |-> IF pi < 0 THEN 0 ELSE ino.indirect2],
         used  |-> used \ freed,
         entry |-> [a \in DOMAIN entry |-> IF a[1] \in freed THEN Junk
                                          ELSE IF cleared(a) THEN Bad ELSE entry[a]],
         stray |-> IF pi >= 0 /\ pj >= 0 THEN {pi} ELSE {}]

-----------------------------------------------------------------------------
(***************************************************************************)
(* Operations.                                                             *)
(***************************************************************************)
Answer(f, rc) == [file |-> f, rc |-> rc]

(* DiskInode(type): memset to zero. *)
NewInode == [size |-> 0, direct |-> [i \in 0 .. D - 1 |-> 0], indirect1 |-> 0, indirect2 |-> 0]

(* A DiskInode in a block that was overwritten: its fields may hold        *)
(* anything.                                                               *)
Lost == [size |-> Junk, direct |-> [i \in 0 .. D - 1 |-> Junk], indirect1 |-> Junk, indirect2 |-> Junk]

(* The inodes after the blocks in stray are overwritten.  Which inodes the *)
(* block holds, and what the loss of a bitmap block will do to them, is    *)
(* not kept: any inode may be lost.                                        *)
InodesAfter(stray) == [g \in File |-> IF stray \subseteq {SuperBlk} THEN inode[g] ELSE Lost]

(* The operations on f are modelled as long as the metadata is intact. *)
Usable(f) == Intact /\ f \in live

(* Inode::create() writes a new inode where alloc_inode() found a free one. *)
Create(f) ==
    /\ Intact
    /\ f \notin live
    /\ live' = live \cup {f}
    /\ inode' = [inode EXCEPT ![f] = NewInode]
    /\ ret' = Answer(f, kSuccess)
    /\ UNCHANGED <<torn, used, entry, clobbered>>

(* The end of Inode::remove() on the last link: resize(0) without an inode *)
(* to write.  What the free inode holds is not kept: create() overwrites   *)
(* it unread.                                                              *)
RemoveFile(f) ==
    LET r == Decrease(inode[f], inode[f].size, 0)
    IN  /\ Usable(f)
        /\ live' = live \ {f}
        /\ inode' = [inode EXCEPT ![f] = NewInode]
        /\ used' = r.used
        /\ entry' = r.entry
        /\ clobbered' = clobbered \cup r.stray
        /\ ret' = Answer(f, kSuccess)
        /\ UNCHANGED torn

(* Mutant of Grow: the inode is written whatever increase() returned. *)
GrowUnchecked(f, n) ==
    LET r == Increase(inode[f], inode[f].size, n)
    IN  /\ Usable(f)
        /\ n > inode[f].size
        /\ inode' = [inode EXCEPT ![f] = r.inode]
        /\ used' = r.used
        /\ entry' = r.entry
        /\ ret' = Answer(f, IF r.ok THEN kSuccess ELSE kFail)
        /\ UNCHANGED <<live, torn, clobbered>>

(* Inode::resize() to a larger size: the inode is written if increase()    *)
(* succeeded, and what it allocated stays allocated if it did not.         *)
Grow(f, n) ==
    LET r == Increase(inode[f], inode[f].size, n)
    IN  /\ Usable(f)
        /\ n > inode[f].size
        /\ inode' = IF r.ok THEN [inode EXCEPT ![f] = r.inode] ELSE inode
        /\ used' = r.used
        /\ entry' = r.entry
        /\ ret' = Answer(f, IF r.ok THEN kSuccess ELSE kFail)
        /\ UNCHANGED <<live, torn, clobbered>>

Shrink(f, n) ==
    LET r == Decrease(inode[f], inode[f].size, n)
    IN  /\ Usable(f)
        /\ n < inode[f].size
        /\ inode' = [InodesAfter(r.stray) EXCEPT ![f] = r.inode]
        /\ used' = r.used
        /\ entry' = r.entry
        /\ clobbered' = clobbered \cup r.stray
        /\ ret' = Answer(f, kSuccess)
        /\ UNCHANGED <<live, torn>>

(* The size stays in the same number of blocks: only the inode is written. *)
Keep(f) ==
    /\ Usable(f)
    /\ ret' = Answer(f, kSuccess)
    /\ UNCHANGED <<inode, live, torn, used, entry, clobbered>>

(* File data over a block. *)
Overwritten(e, b) == [a \in DOMAIN e |-> IF a[1] = b THEN Junk ELSE e[a]]

(***************************************************************************)
(* Inode::write_data() of the block at offset i.  It grows the file first  *)
(* and does not look at the result.                                        *)
(***************************************************************************)
Resized(f, i) ==
    IF i < inode[f].size
      THEN [ok |-> TRUE, inode |-> inode[f], used |-> used, entry |-> entry]
      ELSE Increase(inode[f], inode[f].size, i + 1)

Write(f, i) ==
    LET r == Resized(f, i)
    IN  /\ Usable(f)
        /\ r.ok
        /\ inode' = [inode EXCEPT ![f] = r.inode]
        /\ used' = r.used
        /\ entry' = Overwritten(r.entry, block_id(r.inode, r.entry, i))
        /\ ret' = Answer(f, kSuccess)
        /\ UNCHANGED <<live, torn, clobbered>>

(***************************************************************************)
(* The same when the data area is too small.  The id found for the block   *)
(* is what was there before, and Junk may be any id.  If it is readable    *)
(* the data goes there and the inode, which is torn now, is saved with its *)
(* new size.                                                               *)
(***************************************************************************)
WriteNoSpace(f, i) ==
    /\ Usable(f)
    /\ \E r \in {Resized(f, i)} :
         LET id == block_id(r.inode, r.entry, i)
         IN  /\ ~r.ok
             /\ used' = r.used
             /\ \E b \in IF id = Junk THEN {Bad} \cup Blks ELSE {id} :
                   IF b = Bad
                     THEN /\ entry' = r.entry
                          /\ ret' = Answer(f, kFail)
                          /\ UNCHANGED <<inode, torn, clobbered>>
                     ELSE /\ entry' = Overwritten(r.entry, b)
                          /\ inode' = [InodesAfter({b} \ DataBlks) EXCEPT ![f] = r.inode]
                          /\ torn' = torn \cup {f}
                          /\ clobbered' = clobbered \cup ({b} \ DataBlks)
                          /\ ret' = Answer(f, kSuccess)
    /\ UNCHANGED live

-----------------------------------------------------------------------------
Init ==
    /\ inode = [f \in File |-> NewInode]
    /\ live = {}
    /\ torn = {}
    /\ used = {}
    /\ entry = [a \in DataBlks \X Idx |-> Junk]
    /\ clobbered = {}
    /\ \E f \in File : ret = Answer(f, kSuccess)

(* What the program does with lost or torn inodes, or with bitmaps that    *)
(* were overwritten, is not modelled.                                      *)
Wrecked ==
    /\ ~Intact
    /\ UNCHANGED vars

Next ==
    \/ \E f \in File :
         \/ Create(f)
         \/ RemoveFile(f)
         \/ \E n \in 0 .. MaxSize[f] : Grow(f, n) \/ Shrink(f, n)
         \/ Keep(f)
         \/ \E i \in 0 .. MaxSize[f] - 1 : Write(f, i) \/ WriteNoSpace(f, i)
    \/ Wrecked

Spec == Init /\ [][Next]_vars

-----------------------------------------------------------------------------
(***************************************************************************)
(* Properties.                                                             *)
(***************************************************************************)
Ids == Blks \cup {Bad, Junk}

MaxBlocks == D + I + I * I
InodeType ==
    [size : 0 .. MaxBlocks, direct : [0 .. D - 1 -> Ids], indirect1 : Ids, indirect2 : Ids]

(* The pointers and index entries are ids, 0, or kFail, unless the inode   *)
(* was overwritten.                                                        *)
TypeOK ==
    /\ inode \in [File -> InodeType \cup {Lost}]
    /\ live \subseteq File
    /\ torn \subseteq live
    /\ used \subseteq DataBlks
    /\ entry \in [DataBlks \X Idx -> Ids]
    /\ clobbered \subseteq Blks

Taken(f) == {<<f, p>> : p \in PlacesOf(inode[f].size)}
AllTaken == UNION {Taken(f) : f \in live}
LocOf(t) == Loc(inode[t[1]], entry, t[2])

(* As long as the metadata is intact, the following hold.                  *)

(* No block belongs to two files or to two places of one file, and each is *)
(* marked in the bitmap: nothing one file does to its blocks can reach     *)
(* another's data or index, whatever was allocated and freed before, and   *)
(* also after a resize that ran out of space half way.                     *)
NoSharing ==
    Intact => /\ \A t \in AllTaken : LocOf(t) \in used
              /\ \A s, t \in AllTaken : LocOf(s) = LocOf(t) => s = t

(* The blocks marked in the bitmap that no file can reach. *)
Leaked == used \ {LocOf(t) : t \in AllTaken}

(* An operation that succeeds leaks no block: a shrink or a removal gives  *)
(* back all the file no longer uses, at every border between the levels,   *)
(* and a grow uses all it takes, also after earlier ones ran out of space. *)
NoLeak == [][Intact' /\ ret'.rc = kSuccess => Leaked' \subseteq Leaked]_vars

(* The blocks of a file, in order. *)
Map(f) == [i \in 0 .. inode[f].size - 1 |-> block_id(inode[f], entry, i)]

(* An operation changes no other file's map, and a resize that fails not   *)
(* even the file's own.                                                    *)
MapsKept ==
    [][Intact' => \A f \in live \cap live' :
         f # ret'.file \/ ret'.rc = kFail => Map(f)' = Map(f)]_vars

(* A resize keeps the blocks below the new size where they are.            *)
PrefixKept ==
    [][Intact' => \A f \in live \cap live' :
         \A i \in DOMAIN Map(f) \cap DOMAIN Map(f)' : Map(f)'[i] = Map(f)[i]]_vars

(* fs_layout.h: the super block is at block 0.  Nothing a file operation   *)
(* does overwrites a block before the data area.                           *)
MetadataIntact == clobbered = {}

=============================================================================
