------------------------------ MODULE FSLayout ------------------------------
(***************************************************************************)
(* Where things are on an SBFS disk: SBFileSystem (src/sbfs.cpp) lays out  *)
(* super block, inode bitmap, inodes, data bitmap and data, and hands out  *)
(* inodes and data blocks through its two Bitmaps (src/bitmap.cpp).        *)
(*                                                                         *)
(* A bitmap is kept bit by bit, as alloc() and free() address it: block,   *)
(* word of the block, bit of the word.                                     *)
(***************************************************************************)
EXTENDS Integers, FiniteSets

CONSTANTS
    SlotsPerBlock,      (* kBlockSize * 8                                  *)
    WordBits,           (* bits of a uint64_t                              *)
    InodesInABlock,     (* kInodesInABlock                                 *)
    TotalBlocks,        (* total_blocks, the blocks of the device          *)
    InodeBitmapBlocks   (* kInodeBitmapBlocks                              *)

ASSUME LayoutAssumption ==
    /\ WordBits \in Nat \ {0} /\ InodesInABlock \in Nat \ {0}
    /\ SlotsPerBlock \in Nat \ {0} /\ SlotsPerBlock % WordBits = 0
    /\ InodeBitmapBlocks \in Nat \ {0}
    /\ TotalBlocks \in Nat

VARIABLES
    inode_bits, data_bits,  (* the bits that are set in the two bitmaps    *)
    inodes, blocks,         (* the ids that are handed out                 *)
    ret                     (* what the last alloc_*() returned            *)

vars == <<inode_bits, data_bits, inodes, blocks, ret>>

kFail == -1

-----------------------------------------------------------------------------
(* create() and initBitmapAndBlock(): the segments, in blocks. *)
inode_area_blocks  == (InodeBitmapBlocks * SlotsPerBlock) \div InodesInABlock
remaining_blocks   == TotalBlocks - InodeBitmapBlocks - inode_area_blocks
data_bitmap_blocks == remaining_blocks \div (1 + SlotsPerBlock)
data_area_blocks   == data_bitmap_blocks * SlotsPerBlock

inode_bitmap_offset == 1
inode_area_offset   == inode_bitmap_offset + InodeBitmapBlocks
data_bitmap_offset  == inode_area_offset + inode_area_blocks

(* Mutant of data_area_offset: the data bitmap is forgotten. *)
DataAreaTooLow == data_bitmap_offset

data_area_offset == data_bitmap_offset + data_bitmap_blocks

(* The device has room for a data bitmap, in which createRoot() takes the  *)
(* first bit: 127 blocks in the build.                                     *)
ASSUME DiskAssumption == data_bitmap_blocks >= 1

(* Bitmap(start_block_id, num_blocks, data_segment_offset). *)
inode_bitmap == [num_blocks |-> InodeBitmapBlocks,  data_segment_offset |-> inode_area_offset]
data_bitmap  == [num_blocks |-> data_bitmap_blocks, data_segment_offset |-> data_area_offset]

-----------------------------------------------------------------------------
(* The bits of a bitmap, and the one alloc() finds: the first block with a *)
(* zero, its first word with one, its lowest bit.                          *)
Bits(bm) == (0 .. bm.num_blocks - 1) \X (0 .. SlotsPerBlock \div WordBits - 1) \X (0 .. WordBits - 1)
Before(x, y) ==
    \/ x[1] < y[1]
    \/ x[1] = y[1] /\ x[2] < y[2]
    \/ x[1] = y[1] /\ x[2] = y[2] /\ x[3] < y[3]
FirstZero(bm, set) ==
    CHOOSE x \in Bits(bm) \ set : \A y \in Bits(bm) \ set : x = y \/ Before(x, y)

(* Mutant of IdOf: the word is counted as if it had one bit. *)
IdOfUnscaled(bm, x) == x[1] * SlotsPerBlock + x[2] + x[3] + bm.data_segment_offset

(* alloc(): the id it returns for a bit. *)
IdOf(bm, x) == x[1] * SlotsPerBlock + x[2] * WordBits + x[3] + bm.data_segment_offset

(* free(): the bit it clears for an id. *)
BitOf(bm, id) ==
    LET block_id == id - bm.data_segment_offset
        slot     == block_id % SlotsPerBlock
    IN  <<block_id \div SlotsPerBlock, slot \div WordBits, slot % WordBits>>

(* Mutant of getDiskInodePos: the offset in the block is not reduced. *)
SamePos(id) == [block_id |-> inode_area_offset + id \div InodesInABlock, block_offset |-> 0]

(* The offset is in units of sizeof(DiskInode). *)
getDiskInodePos(id) ==
    [block_id |-> inode_area_offset + id \div InodesInABlock, block_offset |-> id % InodesInABlock]
getDiskInodeId(pos) == (pos.block_id - inode_area_offset) * InodesInABlock + pos.block_offset

-----------------------------------------------------------------------------
(* alloc_inode(), alloc_data(), free_inode(), free_data(). *)
alloc_inode ==
    /\ IF Bits(inode_bitmap) \subseteq inode_bits
         THEN /\ ret' = kFail
              /\ UNCHANGED <<inode_bits, inodes>>
         ELSE LET x == FirstZero(inode_bitmap, inode_bits)
              IN  /\ inode_bits' = inode_bits \cup {x}
                  /\ inodes' = inodes \cup {IdOf(inode_bitmap, x)}
                  /\ ret' = IdOf(inode_bitmap, x)
    /\ UNCHANGED <<data_bits, blocks>>

alloc_data ==
    /\ IF Bits(data_bitmap) \subseteq data_bits
         THEN /\ ret' = kFail
              /\ UNCHANGED <<data_bits, blocks>>
         ELSE LET x == FirstZero(data_bitmap, data_bits)
              IN  /\ data_bits' = data_bits \cup {x}
                  /\ blocks' = blocks \cup {IdOf(data_bitmap, x)}
                  /\ ret' = IdOf(data_bitmap, x)
    /\ UNCHANGED <<inode_bits, inodes>>

free_inode(id) ==
    /\ id \in inodes
    /\ inode_bits' = inode_bits \ {BitOf(inode_bitmap, id)}
    /\ inodes' = inodes \ {id}
    /\ UNCHANGED <<data_bits, blocks, ret>>

free_data(id) ==
    /\ id \in blocks
    /\ data_bits' = data_bits \ {BitOf(data_bitmap, id)}
    /\ blocks' = blocks \ {id}
    /\ UNCHANGED <<inode_bits, inodes, ret>>

(* A new disk, after createRoot() took an inode and a data block. *)
root_inode_id == IdOf(inode_bitmap, FirstZero(inode_bitmap, {}))
root_data_id  == IdOf(data_bitmap, FirstZero(data_bitmap, {}))

Init ==
    /\ inode_bits = {FirstZero(inode_bitmap, {})}
    /\ data_bits = {FirstZero(data_bitmap, {})}
    /\ inodes = {root_inode_id}
    /\ blocks = {root_data_id}
    /\ ret = root_data_id

Next ==
    \/ alloc_inode
    \/ alloc_data
    \/ \E id \in inodes \ {root_inode_id} : free_inode(id)
    \/ \E id \in blocks \ {root_data_id} : free_data(id)

Spec == Init /\ [][Next]_vars

-----------------------------------------------------------------------------
(***************************************************************************)
(* Properties.                                                             *)
(***************************************************************************)

(* The bits that are set are those of the ids handed out, one for each:    *)
(* what free() computes from an id undoes what alloc() computed for it, so *)
(* nothing is handed out twice and nothing is lost.                        *)
BitsExact ==
    /\ inode_bits = {BitOf(inode_bitmap, id) : id \in inodes}
    /\ data_bits = {BitOf(data_bitmap, id) : id \in blocks}
    /\ Cardinality(inode_bits) = Cardinality(inodes)
    /\ Cardinality(data_bits) = Cardinality(blocks)

(* Data blocks lie behind the data bitmap and inside the device.           *)
DataInArea ==
    blocks \subseteq data_bitmap_offset + data_bitmap_blocks .. TotalBlocks - 1

(* No two inodes have the same place, and getDiskInodeId() finds an        *)
(* inode's id from its place, as rename and ".." entries rely on.          *)
InodesApart ==
    \A i \in inodes :
        /\ getDiskInodeId(getDiskInodePos(i)) = i
        /\ \A j \in inodes : getDiskInodePos(i) = getDiskInodePos(j) => i = j

(* fs_layout.h: the inodes lie between the inode bitmap and the data       *)
(* bitmap.                                                                 *)
InodesInArea ==
    \A i \in inodes :
        getDiskInodePos(i).block_id \in inode_area_offset .. data_bitmap_offset - 1

=============================================================================
