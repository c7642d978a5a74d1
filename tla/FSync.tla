------------------------------- MODULE FSync -------------------------------
(***************************************************************************)
(* fsync: sb_fsync, Inode::sync and DiskInode::sync_data, over the block   *)
(* map of DiskInode and a block device that keeps what is written in its   *)
(* cache and writes blocks to the disk file when it likes.                 *)
(*                                                                         *)
(* The variables of DiskInode and data are what the running program reads; *)
(* disk is what a program started after a crash would.  All inodes of the  *)
(* instance lie in one block.  The bitmaps on disk are left out: nothing   *)
(* here reads them.  The device does not fail.                             *)
(***************************************************************************)
EXTENDS DiskInode, Functions

CONSTANTS
    Val,        (* contents of a data block                                *)
    NoVal       (* what a block of the data area is not found to hold      *)

ASSUME ValAssumption == NoVal \notin Val

VARIABLES
    data,       (* contents of the blocks of the data area                 *)
    disk,       (* inodes, index entries and contents in the disk file     *)
    synced      (* the contents of a file when fsync last returned 0; {}   *)
                (* when the file was changed since                         *)

syncVars == <<vars, data, disk, synced>>

-----------------------------------------------------------------------------
(* The contents of a file found by its block map. *)
ContentsOf(ino, e, d) ==
    [i \in 0 .. ino.size - 1 |->
       LET b == block_id(ino, e, i) IN IF b \in DataBlks THEN d[b] ELSE NoVal]

Contents(f) == ContentsOf(inode[f], entry, data)
OnDisk(f)   == ContentsOf(disk.inode[f], disk.entry, disk.data)

(* The disk file after the inodes, or some blocks, were written to it. *)
InodesWritten(dsk) == [dsk EXCEPT !.inode = inode]
BlocksWritten(dsk, B) ==
    [dsk EXCEPT !.data  = [b \in DataBlks |-> IF b \in B THEN data[b] ELSE @[b]],
                !.entry = [a \in DOMAIN entry |-> IF a[1] \in B THEN entry[a] ELSE @[a]]]

(* A block the cache may have written back and dropped. *)
MayBeGone(b) == BlocksWritten(disk, {b}) = disk

-----------------------------------------------------------------------------
(* An operation of DiskInode that does not fail ends what fsync promised. *)
Changed(f) ==
    /\ synced' = IF ret'.rc = kFail THEN synced ELSE [synced EXCEPT ![f] = {}]
    /\ UNCHANGED disk

Resize(f) ==
    /\ Create(f) \/ RemoveFile(f) \/ \E n \in 0 .. MaxSize[f] : Grow(f, n) \/ Shrink(f, n)
    /\ Changed(f)
    /\ UNCHANGED data

WriteValue(f, i, v) ==
    /\ Write(f, i)
    /\ data' = [data EXCEPT ![block_id(inode'[f], entry', i)] = v]
    /\ Changed(f)

(* The cache evicts a dirty block. *)
WriteBack ==
    /\ \/ disk' = InodesWritten(disk)
       \/ \E b \in DataBlks : disk' = BlocksWritten(disk, {b})
    /\ UNCHANGED <<vars, data, synced>>

(* Mutant of SyncedBlocks: the last one is left out. *)
SyncedBlocksButLast(f) == [i \in 1 .. inode[f].size - 1 |-> block_id(inode[f], entry, i - 1)]

(* The blocks sync_data() goes through: the data, and no index block. *)
SyncedBlocks(f) == [i \in 1 .. inode[f].size |-> block_id(inode[f], entry, i - 1)]

(***************************************************************************)
(* sb_fsync() with datasync == 0 (metadata) or not.  The sync of a block   *)
(* that is not in the cache fails, although it is in the disk file, and    *)
(* ends the call.  A block that is clean may be in the cache or not: reads *)
(* bring blocks there and are not modelled.                                *)
(***************************************************************************)
Fsync(f, metadata) ==
    LET blks == SyncedBlocks(f)
        done == BlocksWritten(disk, Range(blks))
    IN  /\ Usable(f)
        /\ disk' = IF metadata THEN InodesWritten(done) ELSE done
        /\ synced' = IF metadata THEN [synced EXCEPT ![f] = {Contents(f)}] ELSE synced
        /\ ret' = Answer(f, kSuccess)
        /\ UNCHANGED <<inode, live, torn, used, entry, clobbered, data>>

FsyncFails(f) ==
    LET blks == SyncedBlocks(f)
    IN  /\ Usable(f)
        /\ \/ \E i \in DOMAIN blks :
                /\ MayBeGone(blks[i])
                /\ disk' = BlocksWritten(disk, {blks[j] : j \in 1 .. i - 1})
           \/ /\ disk.inode = inode
              /\ disk' = BlocksWritten(disk, Range(blks))
        /\ ret' = Answer(f, kFail)
        /\ UNCHANGED <<inode, live, torn, used, entry, clobbered, data, synced>>

-----------------------------------------------------------------------------
InitSync ==
    /\ Init
    /\ data \in [DataBlks -> Val]
    /\ disk = [inode |-> inode, entry |-> entry, data |-> data]
    /\ synced = [f \in File |-> {}]

NextSync ==
    \/ \E f \in File :
         \/ Resize(f)
         \/ \E i \in 0 .. MaxSize[f] - 1, v \in Val : WriteValue(f, i, v)
         \/ \E metadata \in BOOLEAN : Fsync(f, metadata)
         \/ FsyncFails(f)
    \/ WriteBack

SpecSync == InitSync /\ [][NextSync]_syncVars

-----------------------------------------------------------------------------
(***************************************************************************)
(* Properties.                                                             *)
(***************************************************************************)
(* inode.h: sync() is to "sync data (and inode metadata) to disk".  A file *)
(* that fsync reported as saved and that was not changed since reads the   *)
(* same after a crash, whatever the cache wrote back in the meantime and   *)
(* whatever other files gained, gave up and wrote.                         *)
SyncedOnDisk == \A f \in File : \A saved \in synced[f] : OnDisk(f) = saved

=============================================================================
