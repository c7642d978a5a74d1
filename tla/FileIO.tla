------------------------------- MODULE FileIO -------------------------------
(***************************************************************************)
(* The bytes of one open file: sb_read, sb_write and sb_truncate           *)
(* (src/vfs.cpp), Inode::read_data, write_data and resize (src/inode.cpp)  *)
(* and DiskInode::read_data and write_data (src/disk_inode.cpp), with the  *)
(* widths of their integers: off_t is wide, uint32_t holds twice as many   *)
(* values as int has from 0 up, and the code copies offsets into int.      *)
(*                                                                         *)
(* The block map is the subject of DiskInode: here the data block i of the *)
(* file is there when i < data_blocks(size), and the bitmap never runs     *)
(* out.  bytes[p] is the byte at position p of the file, also behind its   *)
(* end in its last block.  A block the file gains has any contents.        *)
(***************************************************************************)
EXTENDS Integers, Sequences

CONSTANTS
    Data,       (* values of a byte                                        *)
    BlockSize,  (* kBlockSize                                              *)
    Half,       (* 2 ^ 31: int holds -Half .. Half - 1                     *)
    MaxOff,     (* bound: offsets and sizes given by the caller            *)
    MaxLen      (* bound: lengths                                          *)

ASSUME WidthAssumption ==
    /\ Data # {}
    /\ BlockSize \in Nat \ {0}
    /\ Half \in Nat \ {0} /\ Half % BlockSize = 0
    /\ MaxOff \in Nat /\ MaxLen \in Nat

VARIABLES
    size,       (* DiskInode::size                                         *)
    bytes,      (* the contents of the file's blocks                       *)
    ret         (* the last call and its answer                            *)

vars == <<size, bytes, ret>>

kFail == -1
Unset == -1     (* a byte of the caller's buffer that was not filled *)

(* A call, its result and the bytes it was given or gave. *)
Answer(op, off, len, rc, bs) == [op |-> op, off |-> off, len |-> len, rc |-> rc, bytes |-> bs]

ToUint(x) == x % (2 * Half)
ToInt(x)  == IF x < Half THEN x ELSE x - 2 * Half

Positions == 0 .. 2 * Half - 1
data_blocks(n) == (n + BlockSize - 1) \div BlockSize

(* The block of a position: an int divided by the uint64_t kBlockSize and  *)
(* stored in an int again keeps its sign.                                  *)
BlockOf(x) == x \div BlockSize

(* block_id() and the read of that block.  A negative block number is past *)
(* MAX_BLOCK_SIZE.  Past the end of the file the pointer is what an        *)
(* earlier use left there, and the read may work or not.                   *)
Readable(blk) == blk \in 0 .. data_blocks(size) - 1
MayRead(blk)  == blk >= 0

-----------------------------------------------------------------------------
(***************************************************************************)
(* The length read_data() and write_data() work with, and their block loop *)
(* as the set of positions it copies: the part of the first block, the     *)
(* blocks between, and the part of the last one.                           *)
(***************************************************************************)
Cut(offset, len, sz) ==
    IF ToUint(offset + len) >= sz THEN ToUint(sz - offset) ELSE len

(* Mutant of Copied: the last block is copied only when it is full. *)
CopiedNoTail(l, r) ==
    LET lid == BlockOf(l)
        rid == BlockOf(r)
    IN  IF lid = rid THEN l .. r - 1
        ELSE (l .. (lid + 1) * BlockSize - 1) \cup ((lid + 1) * BlockSize .. rid * BlockSize - 1)

Copied(l, r) ==
    LET lid == BlockOf(l)
        rid == BlockOf(r)
    IN  IF lid = rid THEN l .. r - 1
        ELSE (l .. (lid + 1) * BlockSize - 1)
             \cup ((lid + 1) * BlockSize .. rid * BlockSize - 1)
             \cup (rid * BlockSize .. r - 1)

(* The last block is looked at only if a part of it is wanted. *)
NeedsLast(l, r) == BlockOf(l) # BlockOf(r) /\ r % BlockSize > 0

(* sb_read(). *)
Read(off, len) ==
    LET offset == ToUint(off)
        n      == Cut(offset, len, size)
        l      == ToInt(offset)
        r      == ToInt(ToUint(offset + n))
    IN  /\ \/ /\ offset > size \/ ~Readable(BlockOf(l)) \/ (NeedsLast(l, r) /\ ~Readable(BlockOf(r)))
              /\ ret' = Answer("read", off, len, kFail, <<>>)
           \/ /\ offset <= size
              /\ MayRead(BlockOf(l)) /\ (NeedsLast(l, r) => MayRead(BlockOf(r)))
              /\ ret' = Answer("read", off, len, n, [k \in 1 .. n |->
                             IF offset + k - 1 \in Copied(l, r) THEN bytes[offset + k - 1] ELSE Unset])
        /\ UNCHANGED <<size, bytes>>

(* resize(): what new blocks hold is not cleared, and may be anything. *)
Contents(old, new) ==
    LET gained == data_blocks(old) * BlockSize .. data_blocks(new) * BlockSize - 1
    IN  {[p \in Positions |-> IF p \in gained THEN g[p] ELSE bytes[p]] : g \in [gained -> Data]}

(* sb_truncate(). *)
Truncate(off) ==
    /\ off < 2 * Half
    /\ size' = off
    /\ bytes' \in Contents(size, off)
    /\ ret' = Answer("truncate", off, 0, 0, <<>>)

(***************************************************************************)
(* sb_write().  When a block cannot be read the call fails, and the inode  *)
(* with the new size is not written.  The blocks before it are.            *)
(***************************************************************************)
Write(off, buf) ==
    LET offset == ToUint(off)
        end    == ToUint(offset + Len(buf))
        grown  == IF size < end THEN end ELSE size
        n      == Cut(offset, Len(buf), grown)
        l      == ToInt(offset)
        r      == ToInt(ToUint(offset + n))
        put(g, P) == [p \in Positions |-> IF p \in P THEN buf[p - offset + 1] ELSE g[p]]
    IN  \E g \in Contents(size, grown) :
          IF offset > grown \/ BlockOf(l) < 0
            THEN /\ ret' = Answer("write", off, Len(buf), kFail, buf)
                 /\ bytes' = g
                 /\ UNCHANGED size
            ELSE /\ bytes' = put(g, Copied(l, r))
                 /\ IF NeedsLast(l, r) /\ BlockOf(r) < 0
                      THEN /\ ret' = Answer("write", off, Len(buf), kFail, buf)
                           /\ UNCHANGED size
                      ELSE /\ ret' = Answer("write", off, Len(buf), n, buf)
                           /\ size' = grown

Init ==
    /\ size = 0
    /\ bytes = [p \in Positions |-> CHOOSE d \in Data : TRUE]
    /\ ret = Answer("open", 0, 0, 0, <<>>)

Next ==
    \E off \in 0 .. MaxOff :
        \/ Truncate(off)
        \/ \E len \in 1 .. MaxLen :
             \/ \E buf \in [1 .. len -> Data] : Write(off, buf)
             \/ Read(off, len)

Spec == Init /\ [][Next]_vars

-----------------------------------------------------------------------------
(***************************************************************************)
(* Properties.                                                             *)
(***************************************************************************)

(* The file is the bytes before its size. *)
Bytes == [i \in 1 .. size |-> bytes[i - 1]]

(* Reads and writes over block borders, at the end of the file and over    *)
(* it, and after growing and shrinking, are those of a sequence of bytes.  *)
File == INSTANCE ByteFile WITH file <- Bytes
FileSpec == File!Spec

=============================================================================
