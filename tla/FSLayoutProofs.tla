--------------------------- MODULE FSLayoutProofs ---------------------------
(***************************************************************************)
(* Proofs about FSLayout, for every geometry: what free() computes from an *)
(* id undoes what alloc() computed for a bit, so that the two bitmaps and  *)
(* the ids handed out never disagree (bitmap.cpp); data blocks stay in the *)
(* data area (sbfs.cpp); inodes have places of their own.                  *)
(***************************************************************************)
EXTENDS FSLayout, FiniteSetTheorems, WellFoundedInduction, TLAPS

-----------------------------------------------------------------------------
(***************************************************************************)
(* Arithmetic.                                                             *)
(***************************************************************************)
(* A set of naturals has a least element. *)
LEMMA Least ==
    ASSUME NEW S, S \subseteq Nat, S # {}
    PROVE  \E m \in S : \A k \in S : m <= k
<1>1. PICK m \in S : \A k \in S : <<k, m>> \notin OpToRel(<, Nat)
  BY WFMin, NatLessThanWellFounded, Zenon
<1>2. \A k \in S : ~(k < m)
  BY <1>1 DEF OpToRel
<1> QED
  BY <1>2

(* Division with remainder. *)
LEMMA DivMod ==
    ASSUME NEW a \in Int, NEW b \in Nat, b > 0
    PROVE  /\ a \div b \in Int /\ a % b \in 0 .. b - 1
           /\ a = b * (a \div b) + (a % b)
  OBVIOUS

(* Quotient and remainder are the only ones. *)
LEMMA DivUnique ==
    ASSUME NEW b \in Nat, NEW q \in Int, NEW r \in 0 .. b - 1
    PROVE  (q * b + r) \div b = q /\ (q * b + r) % b = r
<1> DEFINE a == q * b + r
<1>1. a \in Int /\ a \div b \in Int /\ a % b \in 0 .. b - 1 /\ a = b * (a \div b) + (a % b)
  OBVIOUS
<1>2. b * (q - a \div b) = (a % b) - r
  BY <1>1
<1>3. q - a \div b = 0
  BY <1>1, <1>2
<1> QED
  BY <1>1, <1>3

(* A digit more is worth the base at least. *)
LEMMA DigitMore ==
    ASSUME NEW a \in Int, NEW b \in Int, NEW c \in Nat, a < b
    PROVE  a * c \in Int /\ b * c \in Int /\ a * c + c <= b * c
<1>1. (a + 1) * c <= b * c
  OBVIOUS
<1>2. (a + 1) * c = a * c + c
  OBVIOUS
<1> QED
  BY <1>1, <1>2

(* A digit below the base, added to a number below q digits' worth. *)
LEMMA Below ==
    ASSUME NEW b \in Nat, NEW q \in Nat, NEW x \in 0 .. q - 1, NEW r \in 0 .. b - 1
    PROVE  x * b + r \in 0 .. q * b - 1
<1>1. x + 1 <= q /\ b \in Nat
  OBVIOUS
<1>2. (x + 1) * b <= q * b
  BY <1>1
<1>3. (x + 1) * b = x * b + b /\ x * b \in Nat
  OBVIOUS
<1> QED
  BY <1>2, <1>3

-----------------------------------------------------------------------------
(***************************************************************************)
(* Bits and ids.                                                           *)
(***************************************************************************)
Words == SlotsPerBlock \div WordBits

(* A bitmap block holds a whole number of words, at least one. *)
LEMMA WordsFact == Words \in Nat /\ Words > 0 /\ SlotsPerBlock = Words * WordBits
<1>1. /\ SlotsPerBlock \in Nat /\ SlotsPerBlock > 0 /\ WordBits \in Nat /\ WordBits > 0
      /\ SlotsPerBlock % WordBits = 0
  BY LayoutAssumption
<1>2. Words \in Int /\ SlotsPerBlock = WordBits * Words
  BY <1>1, DivMod DEF Words
<1>3. Words > 0
  BY <1>1, <1>2
<1> QED
  BY <1>1, <1>2, <1>3

(* A bitmap as Bitmap's constructor is given it. *)
IsBitmap(bm) == bm.num_blocks \in Nat /\ bm.data_segment_offset \in Int

(* The id of a bit without the offset of the segment. *)
Slot(x) == x[1] * SlotsPerBlock + (x[2] * WordBits + x[3])

(* free() finds the bit alloc() set. *)
LEMMA BitOfIdOf ==
    ASSUME NEW bm, IsBitmap(bm), NEW x \in Bits(bm)
    PROVE  /\ IdOf(bm, x) = Slot(x) + bm.data_segment_offset
           /\ Slot(x) \in 0 .. bm.num_blocks * SlotsPerBlock - 1
           /\ BitOf(bm, IdOf(bm, x)) = x
<1> USE LayoutAssumption
<1> DEFINE s == x[2] * WordBits + x[3]
<1>1. /\ x[1] \in 0 .. bm.num_blocks - 1 /\ x[2] \in 0 .. Words - 1 /\ x[3] \in 0 .. WordBits - 1
      /\ x = <<x[1], x[2], x[3]>>
  BY DEF Bits, Words
<1>2. s \in 0 .. Words * WordBits - 1
  BY <1>1, WordsFact, Below
<1>3. s \in 0 .. SlotsPerBlock - 1
  BY <1>2, WordsFact
<1>4. x[1] * SlotsPerBlock + s \in 0 .. bm.num_blocks * SlotsPerBlock - 1
  <2> HIDE DEF s
  <2> QED BY <1>1, <1>3, Below DEF IsBitmap
<1>5. IdOf(bm, x) = Slot(x) + bm.data_segment_offset
  BY <1>1, WordsFact DEF IdOf, Slot, IsBitmap
<1>6. Slot(x) \in Int /\ IdOf(bm, x) - bm.data_segment_offset = Slot(x)
  BY <1>4, <1>5 DEF Slot, IsBitmap
<1>7. Slot(x) \div SlotsPerBlock = x[1] /\ Slot(x) % SlotsPerBlock = s
  <2>1. x[1] \in Int /\ SlotsPerBlock \in Nat
    BY <1>1
  <2> HIDE DEF s
  <2>2. (x[1] * SlotsPerBlock + s) \div SlotsPerBlock = x[1] /\ (x[1] * SlotsPerBlock + s) % SlotsPerBlock = s
    BY <1>3, <2>1, DivUnique
  <2> QED BY <2>2 DEF Slot, s
<1>8. s \div WordBits = x[2] /\ s % WordBits = x[3]
  BY <1>1, DivUnique
<1> QED
  BY <1>1, <1>4, <1>5, <1>6, <1>7, <1>8 DEF BitOf, Slot

(* Different bits have different ids. *)
LEMMA IdOfInjective ==
    ASSUME NEW bm, IsBitmap(bm), NEW x \in Bits(bm), NEW y \in Bits(bm), IdOf(bm, x) = IdOf(bm, y)
    PROVE  x = y
  BY BitOfIdOf

(* A bit with a smaller id comes first in alloc()'s search. *)
LEMMA SlotOrder ==
    ASSUME NEW bm, IsBitmap(bm), NEW x \in Bits(bm), NEW y \in Bits(bm), Slot(x) <= Slot(y)
    PROVE  x = y \/ Before(x, y)
<1> DEFINE s == x[2] * WordBits + x[3]
           t == y[2] * WordBits + y[3]
<1>1. /\ x[1] \in Int /\ x[2] \in 0 .. Words - 1 /\ x[3] \in 0 .. WordBits - 1
      /\ y[1] \in Int /\ y[2] \in 0 .. Words - 1 /\ y[3] \in 0 .. WordBits - 1
      /\ x = <<x[1], x[2], x[3]>> /\ y = <<y[1], y[2], y[3]>>
      /\ SlotsPerBlock \in Nat /\ WordBits \in Nat
  BY LayoutAssumption DEF Bits, Words, IsBitmap
<1>2. s \in 0 .. SlotsPerBlock - 1 /\ t \in 0 .. SlotsPerBlock - 1
  BY <1>1, Below, WordsFact
<1>3. x[1] * SlotsPerBlock + s <= y[1] * SlotsPerBlock + t
  BY DEF Slot
<1>4. x[1] <= y[1]
  <2> HIDE DEF s, t
  <2> SUFFICES ASSUME y[1] < x[1] PROVE FALSE
    BY <1>1
  <2>1. /\ y[1] * SlotsPerBlock \in Int /\ x[1] * SlotsPerBlock \in Int
        /\ y[1] * SlotsPerBlock + SlotsPerBlock <= x[1] * SlotsPerBlock
    BY <1>1, DigitMore
  <2> QED
    BY <1>1, <1>2, <1>3, <2>1
<1>5. CASE x[1] = y[1]
  <2>1. x[2] * WordBits + x[3] <= y[2] * WordBits + y[3]
    <3> HIDE DEF s, t
    <3>1. s <= t
      BY <1>1, <1>2, <1>3, <1>5
    <3> QED BY <3>1 DEF s, t
  <2>2. x[2] <= y[2]
    <3>0. x[2] \in Int /\ y[2] \in Int
      BY <1>1, WordsFact
    <3> SUFFICES ASSUME y[2] < x[2] PROVE FALSE
      BY <3>0
    <3>1. /\ y[2] * WordBits \in Int /\ x[2] * WordBits \in Int
          /\ y[2] * WordBits + WordBits <= x[2] * WordBits
      BY <1>1, <3>0, DigitMore
    <3> QED
      BY <1>1, <2>1, <3>1
  <2>3. x[2] = y[2] => x[3] <= y[3]
    BY <1>1, <2>1
  <2> QED BY <1>1, <1>5, <2>2, <2>3 DEF Before
<1>6. x[1] = y[1] \/ x[1] < y[1]
  BY <1>1, <1>4
<1> QED
  BY <1>5, <1>6 DEF Before

(* alloc() finds a zero bit as long as there is one. *)
LEMMA FirstZeroFact ==
    ASSUME NEW bm, IsBitmap(bm), NEW set, ~(Bits(bm) \subseteq set)
    PROVE  FirstZero(bm, set) \in Bits(bm) \ set
<1> DEFINE Z == Bits(bm) \ set
           S == {Slot(x) : x \in Z}
<1>1. S \subseteq Nat
  BY BitOfIdOf
<1>2. PICK m \in S : \A k \in S : m <= k
  BY <1>1, Least
<1>3. PICK x \in Z : m = Slot(x)
  BY <1>2
<1>4. \A y \in Z : x = y \/ Before(x, y)
  BY <1>2, <1>3, SlotOrder
<1> QED
  BY <1>4 DEF FirstZero

-----------------------------------------------------------------------------
(***************************************************************************)
(* The segments.                                                           *)
(***************************************************************************)
(* The two bitmaps, and where the data area ends: one block past the last  *)
(* of the device at most.                                                  *)
LEMMA Segments ==
    /\ IsBitmap(inode_bitmap) /\ inode_bitmap.num_blocks > 0
    /\ IsBitmap(data_bitmap) /\ data_bitmap.num_blocks > 0
    /\ data_area_offset \in Nat /\ inode_area_offset \in Nat
    /\ data_bitmap_blocks \in Nat /\ inode_area_blocks \in Nat
    /\ data_area_offset + data_bitmap_blocks * SlotsPerBlock
         = TotalBlocks + 1 - (remaining_blocks % (1 + SlotsPerBlock))
<1> USE LayoutAssumption, DiskAssumption
<1>1. inode_area_blocks \in Nat
  <2>1. InodeBitmapBlocks * SlotsPerBlock \in Nat
    OBVIOUS
  <2>2. \A a \in Nat, b \in Nat \ {0} : a \div b \in Nat
    OBVIOUS
  <2> QED
    BY <2>1, <2>2 DEF inode_area_blocks
<1>2. remaining_blocks \in Int
  BY <1>1 DEF remaining_blocks
<1>3. /\ data_bitmap_blocks \in Int
      /\ remaining_blocks = (1 + SlotsPerBlock) * data_bitmap_blocks
                               + (remaining_blocks % (1 + SlotsPerBlock))
      /\ remaining_blocks % (1 + SlotsPerBlock) \in Int
  <2> DEFINE b == 1 + SlotsPerBlock
  <2>1. b \in Nat /\ b > 0
    OBVIOUS
  <2> HIDE LayoutAssumption, DiskAssumption DEF b
  <2>2. /\ remaining_blocks \div b \in Int /\ remaining_blocks % b \in Int
        /\ remaining_blocks = b * (remaining_blocks \div b) + (remaining_blocks % b)
    BY <1>2, <2>1, DivMod
  <2> QED
    BY <2>2 DEF data_bitmap_blocks, b
<1>4. data_bitmap_blocks \in Nat /\ data_bitmap_blocks > 0
  BY <1>3
<1>5. (1 + SlotsPerBlock) * data_bitmap_blocks = data_bitmap_blocks + data_bitmap_blocks * SlotsPerBlock
  BY <1>4
<1>6. inode_area_offset \in Nat /\ data_area_offset \in Nat
  BY <1>1, <1>4 DEF data_area_offset, data_bitmap_offset, inode_area_offset, inode_bitmap_offset
<1>7. data_area_offset = 1 + InodeBitmapBlocks + inode_area_blocks + data_bitmap_blocks
  BY <1>1, <1>4 DEF data_area_offset, data_bitmap_offset, inode_area_offset, inode_bitmap_offset
<1>8. remaining_blocks = TotalBlocks - InodeBitmapBlocks - inode_area_blocks
  BY DEF remaining_blocks
<1>9. data_bitmap_blocks * SlotsPerBlock \in Int
  BY <1>4
<1>10. data_area_offset + data_bitmap_blocks * SlotsPerBlock
         = TotalBlocks + 1 - (remaining_blocks % (1 + SlotsPerBlock))
  BY <1>1, <1>3, <1>4, <1>5, <1>7, <1>8, <1>9
<1> QED
  BY <1>1, <1>4, <1>6, <1>10 DEF IsBitmap, inode_bitmap, data_bitmap

-----------------------------------------------------------------------------
(***************************************************************************)
(* The inductive invariant.  BitsExact is not inductive: a free() clears   *)
(* one bit of one id only if every id in use is the id of a bit of the     *)
(* bitmap.                                                                 *)
(***************************************************************************)
Exact(bm, bits, ids) == bits \subseteq Bits(bm) /\ ids = {IdOf(bm, x) : x \in bits}

IInv ==
    /\ Exact(inode_bitmap, inode_bits, inodes)
    /\ Exact(data_bitmap, data_bits, blocks)

(* alloc() keeps a bitmap and its ids together. *)
LEMMA AllocExact ==
    ASSUME NEW bm, IsBitmap(bm), NEW bits, NEW ids, Exact(bm, bits, ids), NEW x \in Bits(bm)
    PROVE  Exact(bm, bits \cup {x}, ids \cup {IdOf(bm, x)})
  BY DEF Exact

(* So does free(): no other id has the bit it clears. *)
LEMMA FreeExact ==
    ASSUME NEW bm, IsBitmap(bm), NEW bits, NEW ids, Exact(bm, bits, ids), NEW id \in ids
    PROVE  Exact(bm, bits \ {BitOf(bm, id)}, ids \ {id})
<1>1. PICK x \in bits : id = IdOf(bm, x)
  BY DEF Exact
<1>2. BitOf(bm, id) = x
  BY <1>1, BitOfIdOf DEF Exact
<1>3. \A y \in bits : IdOf(bm, y) = id => y = x
  BY <1>1, IdOfInjective DEF Exact
<1> QED
  BY <1>1, <1>2, <1>3 DEF Exact

(* A new disk has both. *)
LEMMA InitIInv == Init => IInv
<1> SUFFICES ASSUME Init PROVE IInv
  OBVIOUS
<1>1. ASSUME NEW bm, IsBitmap(bm), bm.num_blocks > 0
      PROVE  FirstZero(bm, {}) \in Bits(bm)
  <2>1. <<0, 0, 0>> \in Bits(bm)
    BY <1>1, WordsFact, LayoutAssumption DEF Bits, Words, IsBitmap
  <2> QED
    BY <1>1, <2>1, FirstZeroFact
<1> QED
  BY <1>1, Segments DEF Init, IInv, Exact, root_inode_id, root_data_id

(* Every operation keeps it. *)
LEMMA NextIInv == IInv /\ [Next]_vars => IInv'
<1> SUFFICES ASSUME IInv, [Next]_vars PROVE IInv'
  OBVIOUS
<1> USE Segments DEF IInv
<1>1. CASE alloc_inode
  BY <1>1, FirstZeroFact, AllocExact DEF alloc_inode
<1>2. CASE alloc_data
  BY <1>2, FirstZeroFact, AllocExact DEF alloc_data
<1>3. ASSUME NEW id \in inodes, free_inode(id) PROVE IInv'
  BY <1>3, FreeExact DEF free_inode
<1>4. ASSUME NEW id \in blocks, free_data(id) PROVE IInv'
  BY <1>4, FreeExact DEF free_data
<1>5. CASE UNCHANGED vars
  BY <1>5 DEF vars
<1> QED
  BY <1>1, <1>2, <1>3, <1>4, <1>5 DEF Next

(* A bitmap's bits can be counted. *)
LEMMA BitsFinite == ASSUME NEW bm, IsBitmap(bm) PROVE IsFiniteSet(Bits(bm))
<1> DEFINE A == 0 .. bm.num_blocks - 1
           B == 0 .. Words - 1
           C == 0 .. WordBits - 1
           K == bm.num_blocks * SlotsPerBlock
<1>1. K \in Int
  BY LayoutAssumption DEF IsBitmap
<1>2. IsFiniteSet(0 .. K - 1)
  BY <1>1, FS_Interval
<1> DEFINE f == [x \in Bits(bm) |-> Slot(x)]
<1>3. f \in Injection(Bits(bm), 0 .. K - 1)
  <2>1. f \in [Bits(bm) -> 0 .. K - 1]
    BY BitOfIdOf
  <2>2. \A x, y \in Bits(bm) : f[x] = f[y] => x = y
    BY BitOfIdOf, IdOfInjective
  <2> QED
    BY <2>1, <2>2 DEF Injection, IsInjective
<1> QED
  BY <1>2, <1>3, FS_Injection

(* What the invariant says of the numbers of bits and ids. *)
LEMMA ExactBits ==
    ASSUME NEW bm, IsBitmap(bm), NEW bits, NEW ids, Exact(bm, bits, ids)
    PROVE  bits = {BitOf(bm, id) : id \in ids} /\ Cardinality(bits) = Cardinality(ids)
<1>1. bits = {BitOf(bm, id) : id \in ids}
  BY BitOfIdOf DEF Exact
<1>2. IsFiniteSet(bits)
  BY BitsFinite, FS_Subset DEF Exact
<1> DEFINE f == [x \in bits |-> IdOf(bm, x)]
<1>3. f \in Bijection(bits, ids)
  <2>1. f \in [bits -> ids]
    BY DEF Exact
  <2>2. \A x, y \in bits : f[x] = f[y] => x = y
    BY IdOfInjective DEF Exact
  <2>3. \A id \in ids : \E x \in bits : f[x] = id
    BY DEF Exact
  <2> QED
    BY <2>1, <2>2, <2>3 DEF Bijection, Injection, Surjection, IsInjective
<1>4. Cardinality(bits) = Cardinality(ids)
  BY <1>2, <1>3, FS_Bijection DEF ExistsBijection
<1> QED
  BY <1>1, <1>4

-----------------------------------------------------------------------------
(***************************************************************************)
(* Theorems.                                                               *)
(***************************************************************************)
(* alloc() and free() of bitmap.cpp undo each other: the bits set are      *)
(* always those of the ids handed out, one for each.                       *)
THEOREM BitsStayExact == Spec => []BitsExact
<1>1. IInv => BitsExact
  BY Segments, ExactBits DEF IInv, BitsExact
<1> QED
  BY <1>1, InitIInv, NextIInv, PTL DEF Spec

(* create() (sbfs.cpp:18) takes the super block for a block that is left:  *)
(* remaining_blocks is one too many.  No data block lies past the end of   *)
(* the device as long as its division into bitmap and data blocks leaves a *)
(* remainder, as in the build.                                             *)
THEOREM DataStaysInArea ==
    ASSUME remaining_blocks % (1 + SlotsPerBlock) # 0
    PROVE  Spec => []DataInArea
<1>1. IInv => DataInArea
  <2> SUFFICES ASSUME IInv, NEW id \in blocks
               PROVE  id \in data_bitmap_offset + data_bitmap_blocks .. TotalBlocks - 1
    BY DEF DataInArea
  <2>1. PICK x \in Bits(data_bitmap) : id = IdOf(data_bitmap, x)
    BY DEF IInv, Exact
  <2>2. /\ id = Slot(x) + data_area_offset
        /\ Slot(x) \in 0 .. data_bitmap_blocks * SlotsPerBlock - 1
    BY <2>1, BitOfIdOf, Segments DEF data_bitmap
  <2>3. remaining_blocks % (1 + SlotsPerBlock) \in Nat /\ remaining_blocks % (1 + SlotsPerBlock) >= 1
    <3>1. remaining_blocks \in Int
      BY Segments, LayoutAssumption DEF remaining_blocks
    <3>2. 1 + SlotsPerBlock \in Nat /\ 1 + SlotsPerBlock > 0
      BY LayoutAssumption
    <3> QED
      BY <3>1, <3>2, DivMod
  <2>4. data_bitmap_blocks * SlotsPerBlock \in Int /\ data_area_offset \in Nat
    BY Segments, LayoutAssumption
  <2>5. TotalBlocks \in Int
    BY LayoutAssumption
  <2>6. id >= data_area_offset /\ id <= TotalBlocks - 1 /\ id \in Int
    BY <2>2, <2>3, <2>4, <2>5, Segments
  <2> QED
    BY <2>6 DEF data_area_offset
<1> QED
  BY <1>1, InitIInv, NextIInv, PTL DEF Spec

(* getDiskInodePos() and getDiskInodeId() (sbfs.cpp) undo each other, so   *)
(* that no two inodes in use have one place on disk.                       *)
THEOREM InodesStayApart == Spec => []InodesApart
<1>1. IInv => InodesApart
  <2> SUFFICES ASSUME IInv PROVE InodesApart
    OBVIOUS
  <2>1. ASSUME NEW i \in inodes PROVE getDiskInodeId(getDiskInodePos(i)) = i
    <3>1. i \in Int
      <4>1. PICK x \in Bits(inode_bitmap) : i = IdOf(inode_bitmap, x)
        BY DEF IInv, Exact
      <4> QED
        BY <4>1, BitOfIdOf, Segments DEF IsBitmap
    <3>2. /\ i \div InodesInABlock \in Int /\ i % InodesInABlock \in Int
          /\ i = InodesInABlock * (i \div InodesInABlock) + (i % InodesInABlock)
      BY <3>1, DivMod, LayoutAssumption
    <3> QED
      BY <3>2, Segments, LayoutAssumption DEF getDiskInodePos, getDiskInodeId
  <2> QED
    BY <2>1, Zenon DEF InodesApart
<1> QED
  BY <1>1, InitIInv, NextIInv, PTL DEF Spec

=============================================================================
