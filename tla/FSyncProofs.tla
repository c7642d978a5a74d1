---------------------------- MODULE FSyncProofs ----------------------------
(***************************************************************************)
(* What fsync saves stays saved, for any number of files, blocks and       *)
(* values, as long as the files keep to the direct blocks.  (A file with   *)
(* an index block may be lost: sync_data() does not write it.)             *)
(***************************************************************************)
EXTENDS FSync, DiskInodeProofs

(* The files keep to the direct blocks. *)
DirectOnly == \A f \in File : MaxSize[f] <= D

Blk(f, i) == inode[f].direct[i]
Used(f)   == 0 .. inode[f].size - 1

(* The file as fsync saved it, s, is what it holds; the inode in the disk  *)
(* file is its inode, and so are the contents of its blocks.               *)
Saved(f, s) ==
    /\ f \in live
    /\ s = Contents(f)
    /\ disk.inode[f] = inode[f]
    /\ \A i \in Used(f) : disk.data[Blk(f, i)] = data[Blk(f, i)]

DiskType == [inode : [File -> InodeType], entry : [DataBlks \X Idx -> Ids], data : [DataBlks -> Val]]

(* SyncedOnDisk is not inductive: it says nothing of what the running      *)
(* program holds, which may be written back at any time, nor of whether    *)
(* two files could share a block.                                          *)
SInv ==
    /\ IInv
    /\ data \in [DataBlks -> Val]
    /\ disk \in DiskType
    /\ DOMAIN synced = File
    /\ \A f \in File : \A s \in synced[f] : Saved(f, s)

-----------------------------------------------------------------------------
(* The blocks of a small file are where its direct pointers say, and they  *)
(* are its own.                                                            *)
LEMMA SmallFile ==
    ASSUME DirectOnly, IInv, NEW f \in File
    PROVE  /\ inode[f].size \in Nat /\ inode[f].size <= D
           /\ \A i \in Used(f) : /\ block_id(inode[f], entry, i) = Blk(f, i)
                                 /\ Place("direct", i) \in Own(f)
                                 /\ Blk(f, i) = L(f, Place("direct", i))
                                 /\ Blk(f, i) \in DataBlks
<1>1. D \in Nat /\ MaxSize[f] \in Nat /\ MaxSize[f] <= D
  BY GeometryAssumption DEF DirectOnly
<1>2. inode[f].size \in Nat /\ inode[f].size <= D
  BY <1>1, FileFacts DEF IInv
<1>3. ASSUME NEW i \in Used(f)
      PROVE  /\ block_id(inode[f], entry, i) = Blk(f, i)
             /\ Place("direct", i) \in Own(f)
             /\ Blk(f, i) = L(f, Place("direct", i))
             /\ Blk(f, i) \in DataBlks
  <2>1. i \in Nat /\ i < D /\ i < inode[f].size
    BY <1>1, <1>2 DEF Used
  <2>2. block_id(inode[f], entry, i) = Blk(f, i)
    BY <2>1 DEF block_id, DataPlace, Place, Blk
  <2>3. Place("direct", i) \in Own(f) /\ Blk(f, i) = L(f, Place("direct", i))
    BY <1>1, <2>1 DEF Own, PlacesOf, AllPlaces, From, Place, L, Loc, Blk
  <2> QED
    BY <2>2, <2>3, FileFacts
<1> QED
  BY <1>2, <1>3

(* The place of a direct block. *)
LEMMA DirectPlace ==
    ASSUME NEW i \in Nat, i < D, NEW ino, NEW e
    PROVE  /\ i < ino.size => Place("direct", i) \in PlacesOf(ino.size)
           /\ Loc(ino, e, Place("direct", i)) = ino.direct[i]
<1>1. D \in Nat
  BY GeometryAssumption
<1>2. Place("direct", i) \in AllPlaces /\ From(Place("direct", i)) = i
  BY <1>1 DEF AllPlaces, From, Place
<1> QED
  BY <1>2 DEF PlacesOf, Place, Loc

(* What a small file holds. *)
LEMMA SmallContents ==
    ASSUME DirectOnly, IInv, NEW f \in File, NEW e, NEW d
    PROVE  ContentsOf(inode[f], e, d) = [i \in Used(f) |-> d[Blk(f, i)]]
<1>1. \A i \in Used(f) : block_id(inode[f], e, i) = Blk(f, i) /\ Blk(f, i) \in DataBlks
  <2> SUFFICES ASSUME NEW i \in Used(f) PROVE block_id(inode[f], e, i) = Blk(f, i) /\ Blk(f, i) \in DataBlks
    OBVIOUS
  <2>1. i \in Nat /\ i < D
    BY SmallFile, GeometryAssumption DEF Used
  <2> QED
    BY <2>1, SmallFile DEF block_id, DataPlace, Place, Blk
<1> QED
  BY <1>1 DEF ContentsOf, Used

(* The invariant gives the property. *)
LEMMA SavedOnDisk == DirectOnly /\ SInv => SyncedOnDisk
<1> SUFFICES ASSUME DirectOnly, SInv, NEW f \in File, NEW s \in synced[f] PROVE OnDisk(f) = s
  BY DEF SyncedOnDisk
<1>1. Saved(f, s) /\ IInv
  BY DEF SInv
<1>2. OnDisk(f) = [i \in Used(f) |-> disk.data[Blk(f, i)]]
  <2>1. ContentsOf(inode[f], disk.entry, disk.data) = [i \in Used(f) |-> disk.data[Blk(f, i)]]
    BY <1>1, SmallContents
  <2> QED
    BY <1>1, <2>1 DEF OnDisk, Saved
<1>3. s = [i \in Used(f) |-> data[Blk(f, i)]]
  BY <1>1, SmallContents DEF Saved, Contents
<1> QED
  BY <1>1, <1>2, <1>3 DEF Saved

-----------------------------------------------------------------------------
(* A step that writes inodes or blocks to the disk file. *)
ToDisk(B) ==
    /\ disk' \in DiskType
    /\ disk'.inode \in {disk.inode, inode}
    /\ \A b \in DataBlks : disk'.data[b] = IF b \in B THEN data[b] ELSE disk.data[b]

LEMMA WrittenIsToDisk ==
    ASSUME SInv, NEW B, disk' \in {BlocksWritten(disk, B), InodesWritten(BlocksWritten(disk, B))}
    PROVE  ToDisk(B)
<1>1. /\ inode \in [File -> InodeType] /\ entry \in [DataBlks \X Idx -> Ids]
      /\ data \in [DataBlks -> Val] /\ disk \in DiskType
  BY DEF SInv, IInv, TypeOK, InodeType, MaxBlocks
<1>2. BlocksWritten(disk, B) \in DiskType
  BY <1>1 DEF BlocksWritten, DiskType
<1>3. InodesWritten(BlocksWritten(disk, B)) \in DiskType
  BY <1>1, <1>2 DEF InodesWritten, DiskType
<1>4. /\ BlocksWritten(disk, B).inode = disk.inode
      /\ BlocksWritten(disk, B).data = [b \in DataBlks |-> IF b \in B THEN data[b] ELSE disk.data[b]]
  BY <1>1 DEF BlocksWritten, DiskType
<1>5. /\ InodesWritten(BlocksWritten(disk, B)).inode = inode
      /\ InodesWritten(BlocksWritten(disk, B)).data = BlocksWritten(disk, B).data
  BY <1>2 DEF InodesWritten, DiskType
<1> QED
  BY <1>2, <1>3, <1>4, <1>5 DEF ToDisk

(* The step keeps what was saved. *)
LEMMA ToDiskKeeps ==
    ASSUME DirectOnly, SInv, NEW B, ToDisk(B), UNCHANGED <<inode, live, torn, used, entry, clobbered, data>>
    PROVE  IInv' /\ \A f \in File : \A s : Saved(f, s) => Saved(f, s)'
<1>1. IInv'
  BY DEF SInv, IInv, TypeOK, Intact, Apart, Own, L
<1>2. ASSUME NEW f \in File, NEW s, Saved(f, s) PROVE Saved(f, s)'
  <2>1. Contents(f)' = Contents(f) /\ Used(f)' = Used(f) /\ \A i : Blk(f, i)' = Blk(f, i)
    BY DEF Contents, Used, Blk
  <2>2. \A i \in Used(f) : Blk(f, i) \in DataBlks
    BY SmallFile DEF SInv
  <2>3. \A i \in Used(f) : disk'.data[Blk(f, i)] = data[Blk(f, i)]
    BY <1>2, <2>2 DEF ToDisk, Saved
  <2>4. disk'.inode[f] = inode[f]
    BY <1>2 DEF ToDisk, Saved
  <2> QED
    BY <1>2, <2>1, <2>3, <2>4 DEF Saved
<1> QED
  BY <1>1, <1>2

(* Only block b of the contents changes, and no other file than g has it. *)
Elsewhere(g, b) ==
    /\ \A c \in DataBlks : c # b => data'[c] = data[c]
    /\ \A f \in File \ {g} : \A i \in Used(f) : Blk(f, i) # b

(* A step of DiskInode on file g: it moves g, its data goes to a block b   *)
(* that no other file has, and g is no longer saved unless it failed.      *)
LEMMA ChangeKeeps ==
    ASSUME DirectOnly, SInv, NEW g \in File, NEW ino, Stepped(g, ino), Changed(g),
           ret'.rc = kFail => data' = data /\ live' = live,
           data' \in [DataBlks -> Val], NEW b, Elsewhere(g, b)
    PROVE  SInv'
<1>1. IInv /\ IInv' /\ live' \subseteq File /\ live' \ {g} = live \ {g} /\ live \subseteq File
  BY SteppedKeeps DEF SInv, Stepped, IInv, TypeOK
<1>2. inode'[g] = ino /\ \A f \in File \ {g} : inode'[f] = inode[f]
  BY <1>1 DEF Stepped, IInv, TypeOK
<1>3. ASSUME NEW f \in File, inode'[f] = inode[f], f \in live => f \in live',
             \A i \in Used(f) : data'[Blk(f, i)] = data[Blk(f, i)],
             NEW s, Saved(f, s)
      PROVE  Saved(f, s)'
  <2>1. Used(f)' = Used(f) /\ \A i : Blk(f, i)' = Blk(f, i)
    BY <1>3 DEF Used, Blk
  <2>2. disk' = disk
    BY DEF Changed
  <2>3. Contents(f) = [i \in Used(f) |-> data[Blk(f, i)]]
    BY <1>1, SmallContents DEF Contents
  <2>4. Contents(f)' = [i \in Used(f) |-> data'[Blk(f, i)]]
    <3>1. ContentsOf(inode[f], entry', data') = [i \in Used(f) |-> data'[Blk(f, i)]]
      BY <1>1, SmallContents
    <3> QED
      BY <1>3, <3>1 DEF Contents
  <2>5. Contents(f)' = Contents(f)
    BY <1>3, <2>3, <2>4
  <2> QED
    BY <1>3, <2>1, <2>2, <2>5 DEF Saved
<1>4. ASSUME NEW f \in File, NEW s \in synced'[f] PROVE Saved(f, s)'
  <2>1. DOMAIN synced = File
    BY DEF SInv
  <2>2. s \in synced[f] /\ (f # g \/ ret'.rc = kFail)
    BY <2>1, <1>4 DEF Changed
  <2>3. Saved(f, s)
    BY <2>2 DEF SInv
  <2>4. CASE f # g
    <3>1. \A i \in Used(f) : data'[Blk(f, i)] = data[Blk(f, i)]
      BY <1>1, <2>4, SmallFile DEF Elsewhere
    <3> QED
      BY <1>1, <1>2, <1>3, <2>3, <2>4, <3>1
  <2>5. CASE f = g /\ ret'.rc = kFail
    <3>1. inode'[f] = inode[f]
      BY <1>2, <2>5 DEF Stepped
    <3>2. f \in live'
      BY <2>3, <2>5 DEF Stepped, Saved
    <3> QED
      BY <1>3, <2>3, <2>5, <3>1, <3>2
  <2> QED
    BY <2>2, <2>4, <2>5
<1>5. DOMAIN synced' = File /\ disk' \in DiskType
  BY DEF SInv, Changed
<1> QED
  BY <1>1, <1>4, <1>5 DEF SInv

(* A file of direct blocks has no leaf to write back. *)
LEMMA ShrinkStays ==
    ASSUME DirectOnly, IInv, NEW g \in File, NEW n \in 0 .. MaxSize[g], Shrink(g, n)
    PROVE  Intact'
<1>1. n \in Nat /\ n <= D /\ D \in Nat /\ I \in Nat
  BY GeometryAssumption DEF DirectOnly
<1>2. BlkLimit(n) = -1
  BY <1>1 DEF BlkLimit
<1>3. Decrease(inode[g], inode[g].size, n).stray = {}
  BY <1>2 DEF Decrease
<1> QED
  BY <1>3 DEF Shrink, IInv, Intact

(* create(), remove() and resize(), and write_data(). *)
LEMMA ResizeKeeps ==
    ASSUME DirectOnly, SInv, NEW g \in File, Resize(g)
    PROVE  SInv'
<1>1. IInv /\ data' = data /\ data \in [DataBlks -> Val]
  BY DEF SInv, Resize
<1>2. \E ino : Stepped(g, ino)
  <2>1. \A n \in 0 .. MaxSize[g] : Shrink(g, n) => Intact'
    BY <1>1, ShrinkStays
  <2> QED
    BY <1>1, <2>1, CreateSteps, RemoveSteps, GrowSteps, ShrinkSteps DEF Resize
<1>3. ret'.rc = kFail => live' = live
  BY DEF Resize, Create, RemoveFile, Grow, Shrink, Answer, kSuccess, kFail
<1>4. PICK ino : Stepped(g, ino)
  BY <1>2
<1>5. PICK b : b \notin DataBlks
  <2>1. Bad \notin DataBlks
    BY GeometryAssumption DEF DataBlks, Bad
  <2> QED
    BY <2>1
<1>6. Elsewhere(g, b)
  BY <1>1, <1>5, SmallFile DEF Elsewhere
<1>7. Changed(g)
  BY DEF Resize
<1> QED
  BY <1>1, <1>3, <1>4, <1>6, <1>7, ChangeKeeps

LEMMA WriteKeeps ==
    ASSUME DirectOnly, SInv, NEW g \in File, NEW i \in 0 .. MaxSize[g] - 1, NEW v \in Val,
           WriteValue(g, i, v)
    PROVE  SInv'
<1>1. IInv /\ data \in [DataBlks -> Val] /\ Changed(g) /\ Write(g, i)
  BY DEF SInv, WriteValue
<1>2. PICK ino : Stepped(g, ino)
  BY <1>1, WriteSteps
<1>3. IInv' /\ inode'[g] = ino /\ \A f \in File \ {g} : inode'[f] = inode[f]
  <2>1. IInv'
    BY <1>1, <1>2, SteppedKeeps
  <2> QED
    BY <1>1, <1>2, <2>1 DEF Stepped, IInv, TypeOK
<1>4. i \in Nat /\ i < D /\ i < ino.size
  <2>1. MaxSize[g] \in Nat /\ MaxSize[g] <= D /\ D \in Nat
    BY GeometryAssumption DEF DirectOnly
  <2>2. Resized(g, i).inode.size > i
    BY <2>1 DEF Resized, Increase
  <2>3. inode'[g] = Resized(g, i).inode
    BY <1>1 DEF Write, IInv, TypeOK
  <2> QED
    BY <1>3, <2>1, <2>2, <2>3
<1>5. PICK b : b = block_id(inode'[g], entry', i)
  OBVIOUS
<1>6. b = ino.direct[i]
  BY <1>3, <1>4, <1>5 DEF block_id, DataPlace, Place
<1>7. Place("direct", i) \in Own(g)' /\ L(g, Place("direct", i))' = b
  BY <1>3, <1>4, <1>6, DirectPlace DEF Own, L
<1>8. b \in DataBlks
  BY <1>3, <1>7 DEF IInv, Apart, TypeOK
<1>9. data' = [data EXCEPT ![b] = v]
  BY <1>5 DEF WriteValue
<1>10. data' \in [DataBlks -> Val] /\ \A c \in DataBlks : c # b => data'[c] = data[c]
  BY <1>1, <1>9
<1>11. ASSUME NEW f \in File \ {g}, NEW j \in Used(f) PROVE Blk(f, j) # b
  <2>1. j \in Nat /\ j < D /\ j < inode[f].size
    BY <1>1, SmallFile, GeometryAssumption DEF Used
  <2>2. Place("direct", j) \in Own(f)' /\ L(f, Place("direct", j))' = Blk(f, j)
    BY <1>3, <2>1, DirectPlace DEF Own, L, Blk
  <2> QED
    BY <1>3, <1>7, <2>2 DEF IInv, Apart
<1>12. ret'.rc # kFail
  BY <1>1 DEF Write, Answer, kSuccess, kFail
<1>13. Elsewhere(g, b) /\ data' \in [DataBlks -> Val]
  BY <1>10, <1>11 DEF Elsewhere
<1> QED
  BY <1>1, <1>2, <1>12, <1>13, ChangeKeeps

(* The cache writes back; fsync. *)
LEMMA DiskKeeps ==
    ASSUME DirectOnly, SInv, NEW B, ToDisk(B), UNCHANGED <<inode, live, torn, used, entry, clobbered, data>>,
           synced' = synced
    PROVE  SInv'
<1>1. IInv' /\ \A f \in File : \A s : Saved(f, s) => Saved(f, s)'
  BY ToDiskKeeps
<1>2. \A f \in File : \A s \in synced'[f] : Saved(f, s)'
  BY <1>1 DEF SInv
<1> QED
  BY <1>1, <1>2 DEF SInv, ToDisk

LEMMA WriteBackKeeps ==
    ASSUME DirectOnly, SInv, WriteBack
    PROVE  SInv'
<1>1. UNCHANGED <<inode, live, torn, used, entry, clobbered, data>> /\ synced' = synced
  BY DEF WriteBack, vars
<1>2. CASE disk' = InodesWritten(disk)
  <2>1. disk \in DiskType /\ inode \in [File -> InodeType]
    BY DEF SInv, IInv, TypeOK, InodeType, MaxBlocks
  <2>2. ToDisk({})
    BY <1>2, <2>1 DEF ToDisk, InodesWritten, DiskType
  <2> QED
    BY <1>1, <2>2, DiskKeeps
<1>3. CASE \E b \in DataBlks : disk' = BlocksWritten(disk, {b})
  <2>1. PICK B : disk' = BlocksWritten(disk, B)
    BY <1>3
  <2>2. ToDisk(B)
    BY <2>1, WrittenIsToDisk
  <2> QED
    BY <1>1, <2>2, DiskKeeps
<1> QED
  BY <1>2, <1>3 DEF WriteBack

LEMMA FsyncFailsKeeps ==
    ASSUME DirectOnly, SInv, NEW g \in File, FsyncFails(g)
    PROVE  SInv'
<1>1. UNCHANGED <<inode, live, torn, used, entry, clobbered, data>> /\ synced' = synced
  BY DEF FsyncFails
<1>2. PICK B : disk' = BlocksWritten(disk, B)
  BY DEF FsyncFails
<1>3. ToDisk(B)
  BY <1>2, WrittenIsToDisk
<1> QED
  BY <1>1, <1>3, DiskKeeps

(* sb_fsync() that returns 0 saves the file: the blocks it goes through    *)
(* are all the blocks of the file.                                         *)
LEMMA FsyncKeeps ==
    ASSUME DirectOnly, SInv, NEW g \in File, NEW metadata \in BOOLEAN, Fsync(g, metadata)
    PROVE  SInv'
<1>1. UNCHANGED <<inode, live, torn, used, entry, clobbered, data>> /\ g \in live
  BY DEF Fsync, Usable
<1>2. PICK B : B = Range(SyncedBlocks(g))
  OBVIOUS
<1>3. disk' = IF metadata THEN InodesWritten(BlocksWritten(disk, B)) ELSE BlocksWritten(disk, B)
  BY <1>2 DEF Fsync
<1>4. ToDisk(B)
  BY <1>3, WrittenIsToDisk
<1>5. CASE ~metadata
  BY <1>1, <1>4, <1>5, DiskKeeps DEF Fsync
<1>6. CASE metadata
  <2>1. IInv' /\ \A f \in File : \A s : Saved(f, s) => Saved(f, s)'
    BY <1>1, <1>4, ToDiskKeeps
  <2>2. synced' = [synced EXCEPT ![g] = {Contents(g)}] /\ DOMAIN synced = File
    BY <1>6 DEF Fsync, SInv
  <2>3. \A i \in Used(g) : Blk(g, i) \in B
    <3> SUFFICES ASSUME NEW i \in Used(g) PROVE Blk(g, i) \in B
      OBVIOUS
    <3>1. i + 1 \in 1 .. inode[g].size /\ (i + 1) - 1 = i
      BY SmallFile DEF Used, SInv
    <3>2. SyncedBlocks(g)[i + 1] = Blk(g, i) /\ i + 1 \in DOMAIN SyncedBlocks(g)
      BY <3>1, SmallFile DEF SyncedBlocks, SInv
    <3> QED
      BY <1>2, <3>2 DEF Range
  <2>4. disk'.inode = inode
    <3>1. BlocksWritten(disk, B) \in DiskType
      <4>1. /\ entry \in [DataBlks \X Idx -> Ids]
            /\ data \in [DataBlks -> Val] /\ disk \in DiskType
        BY DEF SInv, IInv, TypeOK
      <4> QED
        BY <4>1 DEF BlocksWritten, DiskType
    <3> QED
      BY <1>3, <1>6, <3>1 DEF InodesWritten, DiskType
  <2>5. Saved(g, Contents(g))'
    <3>1. Contents(g)' = Contents(g) /\ Used(g)' = Used(g) /\ \A i : Blk(g, i)' = Blk(g, i)
      BY <1>1 DEF Contents, Used, Blk
    <3>2. \A i \in Used(g) : disk'.data[Blk(g, i)] = data[Blk(g, i)]
      BY <1>4, <2>3, SmallFile DEF ToDisk, SInv
    <3> QED
      BY <1>1, <2>4, <3>1, <3>2 DEF Saved
  <2>6. Contents(g)' = Contents(g)
    BY <1>1 DEF Contents
  <2>7. ASSUME NEW f \in File, NEW s \in synced'[f] PROVE Saved(f, s)'
    <3>1. CASE f = g
      <4>1. s = Contents(g)'
        BY <2>2, <2>6, <2>7, <3>1
      <4> QED
        BY <2>5, <3>1, <4>1 DEF Saved
    <3>2. CASE f # g
      <4>1. s \in synced[f]
        BY <2>2, <2>7, <3>2
      <4> QED
        BY <2>1, <4>1 DEF SInv
    <3> QED
      BY <3>1, <3>2
  <2> QED
    BY <1>1, <1>4, <2>1, <2>2, <2>7 DEF SInv, ToDisk
<1> QED
  BY <1>5, <1>6

-----------------------------------------------------------------------------
(* sb_fsync(): a file reported as saved, and not changed since, reads the  *)
(* same after a crash, if no file has more than the direct blocks.         *)
THEOREM FsyncSaves == DirectOnly => (SpecSync => []SyncedOnDisk)
<1> SUFFICES ASSUME DirectOnly PROVE SpecSync => []SyncedOnDisk
  OBVIOUS
<1>1. InitSync => SInv
  <2> SUFFICES ASSUME InitSync PROVE SInv
    OBVIOUS
  <2>1. IInv
    BY InitIInv DEF InitSync
  <2>2. inode \in [File -> InodeType] /\ entry \in [DataBlks \X Idx -> Ids]
    BY <2>1 DEF IInv, TypeOK, InodeType, MaxBlocks
  <2> QED
    BY <2>1, <2>2 DEF InitSync, SInv, DiskType
<1>2. SInv /\ [NextSync]_syncVars => SInv'
  <2> SUFFICES ASSUME SInv, [NextSync]_syncVars PROVE SInv'
    OBVIOUS
  <2>1. CASE UNCHANGED syncVars
    <3>1. UNCHANGED <<inode, live, torn, used, entry, clobbered, data, disk, synced>>
      BY <2>1 DEF syncVars, vars
    <3>2. ToDisk({})
      BY <3>1 DEF ToDisk, SInv
    <3> QED
      BY <3>1, <3>2, DiskKeeps
  <2>2. CASE NextSync
    BY <2>2, ResizeKeeps, WriteKeeps, FsyncKeeps, FsyncFailsKeeps, WriteBackKeeps DEF NextSync
  <2> QED
    BY <2>1, <2>2
<1>3. SInv => SyncedOnDisk
  BY SavedOnDisk
<1> QED
  BY <1>1, <1>2, <1>3, PTL DEF SpecSync
=============================================================================
