---------------------------- MODULE FileIOProofs ----------------------------
(***************************************************************************)
(* Reads, writes and truncations of an open file (FileIO) are those of a   *)
(* sequence of bytes (ByteFile), for every block size, as long as offsets  *)
(* and lengths stay below 2 ^ 31, where the code's copies into int change  *)
(* nothing.                                                                *)
(***************************************************************************)
EXTENDS FileIO, SequenceTheorems, TLAPS

-----------------------------------------------------------------------------
(***************************************************************************)
(* Blocks and positions.                                                   *)
(***************************************************************************)
(* A position lies in its block. *)
LEMMA InBlock ==
    ASSUME NEW x \in Nat
    PROVE  /\ BlockOf(x) \in Nat /\ x % BlockSize \in Nat
           /\ x = BlockSize * BlockOf(x) + (x % BlockSize)
           /\ x % BlockSize < BlockSize
           /\ BlockSize * BlockOf(x) \in Nat
<1>1. /\ BlockOf(x) \in Nat /\ x % BlockSize \in Nat
      /\ x = BlockSize * BlockOf(x) + (x % BlockSize)
      /\ x % BlockSize < BlockSize
  BY WidthAssumption DEF BlockOf
<1>2. \A a, b \in Nat : a * b \in Nat
  OBVIOUS
<1> QED
  BY <1>1, <1>2, WidthAssumption

(* The smaller multiple has the smaller factor. *)
LEMMA Factor ==
    ASSUME NEW a \in Nat, NEW b \in Nat, BlockSize * a < BlockSize * b
    PROVE  a < b /\ BlockSize * a + BlockSize <= BlockSize * b
<1>1. a < b
  BY WidthAssumption
<1>2. BlockSize * (a + 1) <= BlockSize * b
  BY <1>1, WidthAssumption
<1>3. BlockSize * (a + 1) = BlockSize * a + BlockSize
  BY WidthAssumption
<1> QED
  BY <1>1, <1>2, <1>3

(* A file's blocks hold it. *)
LEMMA BlocksHold ==
    ASSUME NEW n \in Nat
    PROVE  /\ data_blocks(n) \in Nat /\ n <= BlockSize * data_blocks(n)
           /\ BlockSize * data_blocks(n) \in Nat
<1> DEFINE a == n + BlockSize - 1
<1>1. a \in Nat /\ BlockSize \in Nat
  BY WidthAssumption
<1>2. a \div BlockSize \in Nat /\ a = BlockSize * (a \div BlockSize) + (a % BlockSize) /\ a % BlockSize < BlockSize
  <2> HIDE DEF a
  <2> QED
    BY <1>1, InBlock DEF BlockOf
<1>3. BlockSize * (a \div BlockSize) \in Nat /\ a % BlockSize \in Nat
  <2> HIDE DEF a
  <2> QED
    BY <1>1, InBlock DEF BlockOf
<1> QED
  BY <1>1, <1>2, <1>3 DEF data_blocks

(* A position before the end of the file is in a block of the file. *)
LEMMA ReadableBefore ==
    ASSUME NEW x \in Nat, size \in Nat,
           x < size \/ (x <= size /\ x % BlockSize > 0)
    PROVE  Readable(BlockOf(x))
<1> DEFINE u == BlockSize * BlockOf(x)
           v == BlockSize * data_blocks(size)
           w == x % BlockSize
<1>1. u \in Nat /\ w \in Nat /\ x = u + w /\ v \in Nat /\ size <= v
  BY InBlock, BlocksHold
<1>2. u < v
  <2> HIDE DEF u, v
  <2> QED
    BY <1>1
<1>3. BlockOf(x) < data_blocks(size)
  BY <1>2, Factor, InBlock, BlocksHold
<1> QED
  BY <1>3, InBlock, BlocksHold DEF Readable

(* The block loop of read_data() and write_data() copies every position it *)
(* should, and no other.                                                   *)
LEMMA CopiedAll ==
    ASSUME NEW l \in Nat, NEW r \in Nat, l <= r
    PROVE  Copied(l, r) = l .. r - 1
<1> DEFINE a == BlockOf(l)
           b == BlockOf(r)
<1>1. CASE a = b
  BY <1>1 DEF Copied
<1>2. CASE a # b
  <2>1. /\ a \in Nat /\ b \in Nat /\ BlockSize \in Nat
        /\ BlockSize * a \in Nat /\ BlockSize * b \in Nat
        /\ BlockSize * a <= l /\ l < BlockSize * a + BlockSize
        /\ BlockSize * b <= r /\ r < BlockSize * b + BlockSize
    <3>1. ASSUME NEW x \in Nat
          PROVE  BlockSize * BlockOf(x) <= x /\ x < BlockSize * BlockOf(x) + BlockSize
      <4> DEFINE u == BlockSize * BlockOf(x)
                 w == x % BlockSize
      <4>1. u \in Nat /\ w \in Nat /\ x = u + w /\ w < BlockSize /\ BlockSize \in Nat
        BY InBlock, WidthAssumption
      <4> HIDE DEF u, w
      <4>2. u <= x /\ x < u + BlockSize
        BY <4>1
      <4> QED
        BY <4>2 DEF u
    <3> QED
      BY <3>1, InBlock, WidthAssumption
  <2> HIDE DEF a, b
  <2>2. a < b
    <3> SUFFICES ASSUME b < a PROVE FALSE
      BY <1>2, <2>1
    <3>1. BlockSize * b < BlockSize * a
      BY <2>1, WidthAssumption
    <3> QED
      BY <2>1, <3>1, Factor
  <2>3. BlockSize * a < BlockSize * b
    BY <2>1, <2>2, WidthAssumption
  <2>4. BlockSize * a + BlockSize <= BlockSize * b
    BY <2>1, <2>3, Factor
  <2>5. (a + 1) * BlockSize = BlockSize * a + BlockSize /\ b * BlockSize = BlockSize * b
    BY <2>1
  <2>6. Copied(l, r) = (l .. (a + 1) * BlockSize - 1)
                         \cup ((a + 1) * BlockSize .. b * BlockSize - 1)
                         \cup (b * BlockSize .. r - 1)
    BY <1>2 DEF Copied, a, b
  <2> DEFINE m == BlockSize * a + BlockSize
             n == BlockSize * b
  <2>7. Copied(l, r) = (l .. m - 1) \cup (m .. n - 1) \cup (n .. r - 1)
    BY <2>5, <2>6
  <2>8. m \in Nat /\ n \in Nat /\ l < m /\ m <= n /\ n <= r
    BY <2>1, <2>4
  <2> HIDE DEF m, n
  <2> QED
    BY <2>7, <2>8
<1> QED
  BY <1>1, <1>2

-----------------------------------------------------------------------------
(***************************************************************************)
(* Types.  The bytes behind the end of the file have values too: a write   *)
(* or truncation that grows the file brings them back.                     *)
(***************************************************************************)
Small == MaxOff + MaxLen < Half

IInv == size \in 0 .. MaxOff + MaxLen /\ bytes \in [Positions -> Data]

(* Below 2 ^ 31 the copies into uint32_t and int change nothing. *)
LEMMA Unchanged ==
    ASSUME Small, NEW x \in 0 .. MaxOff + MaxLen
    PROVE  ToUint(x) = x /\ ToInt(x) = x
<1>1. Half \in Nat /\ x \in 0 .. 2 * Half - 1 /\ x < Half
  BY WidthAssumption DEF Small
<1> QED
  BY <1>1 DEF ToUint, ToInt

(* What resize() leaves: values everywhere, and the old ones before the    *)
(* end of the file.                                                        *)
LEMMA ContentsKept ==
    ASSUME IInv, Small, NEW new \in 0 .. MaxOff + MaxLen, NEW g \in Contents(size, new)
    PROVE  /\ g \in [Positions -> Data]
           /\ \A p \in 0 .. size - 1 : g[p] = bytes[p]
<1> DEFINE gained == data_blocks(size) * BlockSize .. data_blocks(new) * BlockSize - 1
<1>1. PICK h \in [gained -> Data] : g = [p \in Positions |-> IF p \in gained THEN h[p] ELSE bytes[p]]
  BY DEF Contents
<1>2. g \in [Positions -> Data]
  <2> HIDE DEF gained
  <2> QED
    BY <1>1 DEF IInv
<1>3. ASSUME NEW p \in 0 .. size - 1 PROVE p \in Positions /\ p \notin gained
  <2>1. size \in Nat /\ size < Half /\ Half \in Nat /\ BlockSize \in Nat
    BY WidthAssumption DEF IInv, Small
  <2>2. p \in Positions
    BY <2>1 DEF Positions
  <2>3. data_blocks(size) \in Nat /\ size <= BlockSize * data_blocks(size)
    BY <2>1, BlocksHold
  <2>4. data_blocks(size) * BlockSize = BlockSize * data_blocks(size) /\ BlockSize * data_blocks(size) \in Nat
    BY <2>1, <2>3
  <2> QED
    BY <2>1, <2>2, <2>3, <2>4
<1> QED
  BY <1>1, <1>2, <1>3

(* The calls with offsets and lengths below 2 ^ 31, read from the code:    *)
(* what is left when nothing wraps.                                        *)
LEMMA ReadSmall ==
    ASSUME IInv, Small, NEW off \in 0 .. MaxOff, NEW len \in 1 .. MaxLen, Read(off, len)
    PROVE  LET n == IF off + len >= size THEN size - off ELSE len
           IN  /\ \/ off >= size /\ ret' = Answer("read", off, len, kFail, <<>>)
                  \/ /\ off <= size
                     /\ ret' = Answer("read", off, len, n, [k \in 1 .. n |-> bytes[off + k - 1]])
               /\ UNCHANGED <<size, bytes>>
<1> DEFINE n == IF off + len >= size THEN size - off ELSE len
           n1 == Cut(off, len, size)
           l == ToInt(off)
           r == ToInt(ToUint(off + n1))
<1>1. size \in 0 .. MaxOff + MaxLen /\ off \in Nat /\ len \in Nat /\ off + len \in 0 .. MaxOff + MaxLen
  BY WidthAssumption DEF IInv
<1>2. ToUint(off) = off /\ ToInt(off) = off /\ ToUint(off + len) = off + len
  BY <1>1, Unchanged, WidthAssumption
<1>3. off <= size => /\ n1 = n /\ n \in Nat /\ off + n \in 0 .. MaxOff + MaxLen /\ off + n <= size
  <2> SUFFICES ASSUME off <= size PROVE n1 = n /\ n \in Nat /\ off + n \in 0 .. MaxOff + MaxLen /\ off + n <= size
    OBVIOUS
  <2>1. ToUint(size - off) = size - off
    <3>1. size - off \in 0 .. MaxOff + MaxLen
      BY <1>1, WidthAssumption
    <3> QED
      BY <3>1, Unchanged
  <2> QED
    BY <1>1, <1>2, <2>1, WidthAssumption DEF Cut
<1>4. off <= size => l = off /\ r = off + n
  BY <1>2, <1>3, Unchanged
<1>5. CASE /\ off > size \/ ~Readable(BlockOf(l)) \/ (NeedsLast(l, r) /\ ~Readable(BlockOf(r)))
           /\ ret' = Answer("read", off, len, kFail, <<>>)
  <2>1. off >= size
    <3> SUFFICES ASSUME off < size PROVE FALSE
      BY <1>1, WidthAssumption
    <3>1. Readable(BlockOf(l))
      BY <1>1, <1>4, ReadableBefore, WidthAssumption
    <3>2. NeedsLast(l, r) => Readable(BlockOf(r))
      BY <1>1, <1>3, <1>4, ReadableBefore, WidthAssumption DEF NeedsLast
    <3> QED
      BY <1>1, <1>5, <3>1, <3>2, WidthAssumption
  <2> QED
    BY <1>2, <1>5, <2>1 DEF Read
<1>6. CASE /\ off <= size
           /\ ret' = Answer("read", off, len, n1, [k \in 1 .. n1 |->
                           IF off + k - 1 \in Copied(l, r) THEN bytes[off + k - 1] ELSE Unset])
  <2>1. Copied(l, r) = off .. off + n - 1
    BY <1>1, <1>3, <1>4, <1>6, CopiedAll
  <2>2. \A k \in 1 .. n : off + k - 1 \in Copied(l, r)
    BY <1>1, <1>3, <1>6, <2>1
  <2>3. n1 = n
    BY <1>3, <1>6
  <2> HIDE DEF n, n1
  <2>4. [k \in 1 .. n1 |-> IF off + k - 1 \in Copied(l, r) THEN bytes[off + k - 1] ELSE Unset]
          = [k \in 1 .. n |-> bytes[off + k - 1]]
    BY <2>2, <2>3
  <2>5. ret' = Answer("read", off, len, n, [k \in 1 .. n |-> bytes[off + k - 1]])
    BY <1>6, <2>3, <2>4
  <2> QED
    BY <1>6, <2>5, Read(off, len) DEF Read, n
<1>7. \/ /\ off > size \/ ~Readable(BlockOf(l)) \/ (NeedsLast(l, r) /\ ~Readable(BlockOf(r)))
         /\ ret' = Answer("read", off, len, kFail, <<>>)
      \/ /\ off <= size
         /\ ret' = Answer("read", off, len, n1, [k \in 1 .. n1 |->
                         IF off + k - 1 \in Copied(l, r) THEN bytes[off + k - 1] ELSE Unset])
  BY <1>2 DEF Read
<1> QED
  BY <1>5, <1>6, <1>7

(* A buffer is a sequence. *)
LEMMA Buffer ==
    ASSUME NEW S, NEW n \in Nat, NEW f \in [1 .. n -> S]
    PROVE  f \in Seq(S) /\ Len(f) = n /\ \A i \in 1 .. n : f[i] \in S
<1>1. f \in Seq(S)
  BY SeqDef
<1>2. Len(f) \in Nat /\ DOMAIN f = 1 .. Len(f) /\ DOMAIN f = 1 .. n
  BY <1>1, LenProperties
<1> QED
  BY <1>1, <1>2

LEMMA WriteSmall ==
    ASSUME IInv, Small, NEW off \in 0 .. MaxOff, NEW len \in 1 .. MaxLen,
           NEW buf \in [1 .. len -> Data], Write(off, buf)
    PROVE  LET grown == IF size < off + len THEN off + len ELSE size
           IN  /\ grown \in 0 .. MaxOff + MaxLen
               /\ ret' = Answer("write", off, len, len, buf)
               /\ size' = grown
               /\ \E g \in Contents(size, grown) :
                    bytes' = [p \in Positions |->
                                IF p \in off .. off + len - 1 THEN buf[p - off + 1] ELSE g[p]]
<1> DEFINE grown == IF size < off + len THEN off + len ELSE size
           n == Cut(off, len, grown)
           l == ToInt(off)
           r == ToInt(ToUint(off + n))
<1>1. /\ size \in 0 .. MaxOff + MaxLen /\ off \in Nat /\ len \in Nat
      /\ off + len \in 0 .. MaxOff + MaxLen /\ off \in 0 .. MaxOff + MaxLen
      /\ MaxOff \in Nat /\ MaxLen \in Nat
  BY WidthAssumption DEF IInv
<1>2. /\ ToUint(off) = off /\ l = off
      /\ ToUint(off + len) = off + len /\ ToInt(off + len) = off + len
      /\ ToUint(len) = len
  BY <1>1, Unchanged
<1>3. Len(buf) = len
  BY <1>1, Buffer
<1>4. grown \in 0 .. MaxOff + MaxLen /\ off + len <= grown
  BY <1>1
<1>5. n = len
  BY <1>1, <1>2 DEF Cut
<1>6. r = off + len
  BY <1>2, <1>5
<1>7. BlockOf(off) \in Nat /\ BlockOf(off + len) \in Nat
  <2>1. \A x \in Nat : BlockOf(x) \in Nat
    BY InBlock
  <2>2. off + len \in Nat
    BY <1>1
  <2> QED
    BY <1>1, <2>1, <2>2
<1>8. ~(off > grown \/ BlockOf(l) < 0) /\ ~(BlockOf(r) < 0)
  BY <1>1, <1>2, <1>4, <1>6, <1>7
<1>9. Copied(l, r) = off .. off + len - 1
  BY <1>1, <1>2, <1>6, CopiedAll
<1> HIDE DEF n, l, r, grown
<1>10. \E g \in Contents(size, grown) :
         IF off > grown \/ BlockOf(l) < 0
           THEN /\ ret' = Answer("write", off, len, kFail, buf)
                /\ bytes' = g
                /\ UNCHANGED size
           ELSE /\ bytes' = [p \in Positions |-> IF p \in Copied(l, r) THEN buf[p - off + 1] ELSE g[p]]
                /\ IF NeedsLast(l, r) /\ BlockOf(r) < 0
                     THEN /\ ret' = Answer("write", off, len, kFail, buf)
                          /\ UNCHANGED size
                     ELSE /\ ret' = Answer("write", off, len, n, buf)
                          /\ size' = grown
  BY <1>2, <1>3 DEF Write, n, l, r, grown
<1>11. /\ ret' = Answer("write", off, len, len, buf) /\ size' = grown
       /\ \E g \in Contents(size, grown) :
            bytes' = [p \in Positions |->
                        IF p \in off .. off + len - 1 THEN buf[p - off + 1] ELSE g[p]]
  BY <1>5, <1>8, <1>9, <1>10
<1> QED
  BY <1>4, <1>11 DEF grown

-----------------------------------------------------------------------------
(***************************************************************************)
(* The invariant.                                                          *)
(***************************************************************************)
(* A file that was just created has no bytes. *)
LEMMA InitIInv == Init => IInv
<1> SUFFICES ASSUME Init PROVE IInv
  OBVIOUS
<1>1. (CHOOSE d \in Data : TRUE) \in Data
  BY WidthAssumption
<1>2. bytes \in [Positions -> Data]
  BY <1>1 DEF Init
<1>3. size \in 0 .. MaxOff + MaxLen
  BY WidthAssumption DEF Init
<1> QED
  BY <1>2, <1>3 DEF IInv

(* Every call keeps IInv. *)
LEMMA NextIInv == Small /\ IInv /\ [Next]_vars => IInv'
<1> SUFFICES ASSUME Small, IInv, [Next]_vars PROVE IInv'
  OBVIOUS
<1>1. ASSUME NEW off \in 0 .. MaxOff, Truncate(off) PROVE IInv'
  BY <1>1, ContentsKept, WidthAssumption DEF Truncate, IInv
<1>2. ASSUME NEW off \in 0 .. MaxOff, NEW len \in 1 .. MaxLen, NEW buf \in [1 .. len -> Data],
             Write(off, buf)
      PROVE  IInv'
  <2> DEFINE grown == IF size < off + len THEN off + len ELSE size
  <2>1. grown \in 0 .. MaxOff + MaxLen /\ size' = grown
    BY <1>2, WriteSmall
  <2>2. PICK g \in Contents(size, grown) :
          bytes' = [p \in Positions |->
                      IF p \in off .. off + len - 1 THEN buf[p - off + 1] ELSE g[p]]
    BY <1>2, WriteSmall
  <2>3. g \in [Positions -> Data]
    BY <2>1, <2>2, ContentsKept
  <2>4. \A p \in off .. off + len - 1 : buf[p - off + 1] \in Data
    OBVIOUS
  <2> QED
    BY <2>1, <2>2, <2>3, <2>4 DEF IInv
<1>3. ASSUME NEW off \in 0 .. MaxOff, NEW len \in 1 .. MaxLen, Read(off, len) PROVE IInv'
  BY <1>3 DEF Read, IInv
<1>4. CASE UNCHANGED vars
  BY <1>4 DEF vars, IInv
<1> QED
  BY <1>1, <1>2, <1>3, <1>4 DEF Next

-----------------------------------------------------------------------------
(***************************************************************************)
(* The refinement.                                                         *)
(***************************************************************************)
(* The file as ByteFile sees it. *)
LEMMA FileBytes ==
    ASSUME IInv, Small
    PROVE  /\ Bytes \in Seq(Data) /\ Len(Bytes) = size
           /\ \A i \in 1 .. size : Bytes[i] = bytes[i - 1] /\ Bytes[i] \in Data
<1>1. size \in Nat /\ size < Half /\ Half \in Nat
  BY WidthAssumption DEF IInv, Small
<1>2. \A i \in 1 .. size : bytes[i - 1] \in Data
  BY <1>1 DEF IInv, Positions
<1>3. Bytes \in [1 .. size -> Data]
  BY <1>2 DEF Bytes
<1> QED
  BY <1>1, <1>2, <1>3, Buffer DEF Bytes

(* resize() gives the file one of the contents ByteFile allows. *)
LEMMA Resized ==
    ASSUME IInv, Small, NEW new \in 0 .. MaxOff + MaxLen, NEW g \in Contents(size, new)
    PROVE  [i \in 1 .. new |-> g[i - 1]] \in File!Extensions(new)
<1> DEFINE h == [i \in 1 .. new |-> g[i - 1]]
<1>1. size \in Nat /\ new \in Nat /\ new < Half /\ Half \in Nat /\ size < Half
  BY WidthAssumption DEF IInv, Small
<1>2. \A i \in 1 .. new : g[i - 1] \in Data
  BY <1>1, ContentsKept DEF Positions
<1>3. h \in [1 .. new -> Data]
  BY <1>2
<1>4. h \in Seq(Data) /\ Len(h) = new
  <2> HIDE DEF h
  <2> QED
    BY <1>1, <1>3, Buffer
<1>5. \A i \in 1 .. new : i <= size => h[i] = Bytes[i]
  BY <1>1, ContentsKept, FileBytes
<1>6. CASE new <= size
  <2>1. /\ SubSeq(Bytes, 1, new) \in Seq(Data) /\ Len(SubSeq(Bytes, 1, new)) = new
        /\ \A i \in 1 .. new : SubSeq(Bytes, 1, new)[i] = Bytes[i]
    <3>1. \A i \in 1 .. new : Bytes[i] \in Data
      BY <1>1, <1>6, FileBytes
    <3>2. /\ SubSeq(Bytes, 1, new) \in Seq(Data)
          /\ Len(SubSeq(Bytes, 1, new)) = IF 1 <= new THEN new - 1 + 1 ELSE 0
          /\ \A i \in 1 .. new - 1 + 1 : SubSeq(Bytes, 1, new)[i] = Bytes[1 + i - 1]
      BY <1>1, <3>1, SubSeqProperties
    <3> QED
      BY <1>1, <3>2
  <2>2. h = SubSeq(Bytes, 1, new)
    <3> HIDE DEF h
    <3>1. \A i \in 1 .. Len(h) : h[i] = SubSeq(Bytes, 1, new)[i]
      BY <1>1, <1>4, <1>5, <1>6, <2>1
    <3> QED
      BY <1>4, <2>1, <3>1, SeqEqual
  <2> QED
    BY <1>6, <2>2, FileBytes DEF File!Extensions
<1>7. CASE size < new
  <2> DEFINE k == [i \in 1 .. new - size |-> g[size + i - 1]]
  <2>1. k \in [1 .. new - size -> Data]
    <3>1. \A i \in 1 .. new - size : size + i - 1 \in Positions
      BY <1>1 DEF Positions
    <3> QED
      BY <3>1, ContentsKept
  <2>2. k \in Seq(Data) /\ Len(k) = new - size
    <3>1. new - size \in Nat
      BY <1>1, <1>7
    <3> HIDE DEF k
    <3> QED
      BY <2>1, <3>1, Buffer
  <2>3. \A i \in 1 .. new : i > size => h[i] = k[i - size]
    BY <1>1
  <2> HIDE DEF h, k
  <2>4. /\ Bytes \o k \in Seq(Data) /\ Len(Bytes \o k) = new
        /\ \A i \in 1 .. new : (Bytes \o k)[i] = IF i <= size THEN Bytes[i] ELSE k[i - size]
    <3>1. /\ Bytes \o k \in Seq(Data) /\ Len(Bytes \o k) = Len(Bytes) + Len(k)
          /\ \A i \in 1 .. Len(Bytes) + Len(k) :
               (Bytes \o k)[i] = IF i <= Len(Bytes) THEN Bytes[i] ELSE k[i - Len(Bytes)]
      BY <2>2, FileBytes, ConcatProperties
    <3>2. Len(Bytes) = size
      BY FileBytes
    <3>3. Len(Bytes) + Len(k) = new
      BY <1>1, <2>2, <3>2
    <3> QED
      BY <3>1, <3>2, <3>3
  <2>5. h = Bytes \o k
    <3>1. ASSUME NEW i \in 1 .. new PROVE h[i] = (Bytes \o k)[i]
      <4>1. CASE i <= size
        BY <1>1, <1>4, <1>5, <2>4, <4>1
      <4>2. CASE i > size
        <5>1. h[i] = k[i - size]
          BY <2>3, <4>2
        <5>2. ~(i <= size)
          BY <1>1, <4>2
        <5> QED
          BY <2>4, <5>1, <5>2
      <4>3. i <= size \/ i > size
        BY <1>1
      <4> QED
        BY <4>1, <4>2, <4>3
    <3>2. Len(h) = new
      BY <1>4
    <3> QED
      BY <1>4, <2>4, <3>1, <3>2, SeqEqual
  <2>6. \E f \in [1 .. new - size -> Data] : h = Bytes \o f
    BY <2>1, <2>5
  <2>7. h \in File!Extensions(new)
    BY <1>1, <1>7, <2>6, FileBytes DEF File!Extensions
  <2> QED
    BY <2>7 DEF h
<1> QED
  BY <1>1, <1>6, <1>7

(* Every call is a call of ByteFile with the same answer. *)
LEMMA StepRefines ==
    ASSUME Small, IInv, IInv', [Next]_vars
    PROVE  [File!Next]_(File!vars)
<1>1. ASSUME NEW off \in 0 .. MaxOff, Truncate(off) PROVE File!Next
  <2>1. off \in 0 .. MaxOff + MaxLen /\ size' = off /\ bytes' \in Contents(size, off)
    BY <1>1, WidthAssumption DEF Truncate
  <2>2. Bytes' \in File!Extensions(off)
    BY <2>1, Resized DEF Bytes
  <2>3. File!Truncate(off)
    BY <1>1, <2>2 DEF Truncate, File!Truncate, Answer, File!Answer
  <2> QED
    BY <2>3 DEF File!Next
<1>2. ASSUME NEW off \in 0 .. MaxOff, NEW len \in 1 .. MaxLen, NEW buf \in [1 .. len -> Data],
             Write(off, buf)
      PROVE  File!Next
  <2> DEFINE grown == IF size < off + len THEN off + len ELSE size
  <2>1. /\ grown \in 0 .. MaxOff + MaxLen /\ size' = grown
        /\ ret' = Answer("write", off, len, len, buf)
    BY <1>2, WriteSmall
  <2>2. PICK g \in Contents(size, grown) :
          bytes' = [p \in Positions |->
                      IF p \in off .. off + len - 1 THEN buf[p - off + 1] ELSE g[p]]
    BY <1>2, WriteSmall
  <2> DEFINE h == [i \in 1 .. grown |-> g[i - 1]]
  <2>3. h \in File!Extensions(grown)
    <3> HIDE DEF grown
    <3> QED
      BY <2>1, Resized
  <2>4. Len(buf) = len /\ Len(Bytes) = size /\ len \in Nat /\ off \in Nat /\ size \in Nat
    BY Buffer, FileBytes, WidthAssumption DEF IInv
  <2>5. grown = IF off + Len(buf) > Len(Bytes) THEN off + Len(buf) ELSE Len(Bytes)
    BY <2>4
  <2> HIDE DEF grown
  <2>6. grown \in Nat /\ grown < Half /\ Half \in Nat
    BY <2>1, WidthAssumption DEF Small
  <2>7. \A i \in 1 .. grown :
          bytes'[i - 1] = IF i \in off + 1 .. off + Len(buf) THEN buf[i - off] ELSE h[i]
    <3> SUFFICES ASSUME NEW i \in 1 .. grown
                 PROVE  bytes'[i - 1] = IF i \in off + 1 .. off + Len(buf) THEN buf[i - off] ELSE h[i]
      OBVIOUS
    <3>1. i - 1 \in Positions
      BY <2>6 DEF Positions
    <3>2. i - 1 \in off .. off + len - 1 <=> i \in off + 1 .. off + Len(buf)
      BY <2>4
    <3>3. (i - 1) - off + 1 = i - off
      BY <2>4
    <3>4. bytes'[i - 1] = IF i - 1 \in off .. off + len - 1 THEN buf[(i - 1) - off + 1] ELSE g[i - 1]
      BY <2>2, <3>1
    <3> QED
      BY <3>2, <3>3, <3>4
  <2>8. Bytes' = [i \in 1 .. grown |->
                    IF i \in off + 1 .. off + Len(buf) THEN buf[i - off] ELSE h[i]]
    <3> HIDE DEF h
    <3> QED
      BY <2>1, <2>7 DEF Bytes
  <2> HIDE DEF h
  <2>9. File!Write(off, buf)
    BY <2>1, <2>3, <2>4, <2>5, <2>8 DEF File!Write, Answer, File!Answer
  <2> QED
    BY <2>9 DEF File!Next
<1>3. ASSUME NEW off \in 0 .. MaxOff, NEW len \in 1 .. MaxLen, Read(off, len) PROVE File!Next
  <2> DEFINE n == IF off + len >= size THEN size - off ELSE len
             end == IF off + len > Len(Bytes) THEN Len(Bytes) ELSE off + len
  <2>1. /\ \/ off >= size /\ ret' = Answer("read", off, len, kFail, <<>>)
           \/ /\ off <= size
              /\ ret' = Answer("read", off, len, n, [k \in 1 .. n |-> bytes[off + k - 1]])
        /\ UNCHANGED <<size, bytes>>
    BY <1>3, ReadSmall
  <2>2. UNCHANGED Bytes
    BY <2>1 DEF Bytes
  <2>3. Len(Bytes) = size /\ size \in Nat /\ off \in Nat /\ len \in Nat
    BY FileBytes, WidthAssumption DEF IInv
  <2>4. CASE off >= size /\ ret' = Answer("read", off, len, kFail, <<>>)
    BY <2>2, <2>3, <2>4 DEF File!Next, File!Read, Answer, File!Answer, kFail, File!kFail
  <2>5. CASE /\ off <= size
             /\ ret' = Answer("read", off, len, n, [k \in 1 .. n |-> bytes[off + k - 1]])
    <3>1. n = end - off /\ n \in Nat /\ end \in Nat /\ end <= size
      BY <2>3, <2>5
    <3> DEFINE h == [k \in 1 .. n |-> bytes[off + k - 1]]
               s == SubSeq(Bytes, off + 1, end)
    <3> HIDE DEF n, end
    <3>2. \A k \in 1 .. n : Bytes[off + k] = bytes[off + k - 1] /\ Bytes[off + k] \in Data
      <4> SUFFICES ASSUME NEW k \in 1 .. n
                   PROVE  Bytes[off + k] = bytes[off + k - 1] /\ Bytes[off + k] \in Data
        OBVIOUS
      <4>1. off + k \in 1 .. size
        BY <2>3, <3>1
      <4> QED
        BY <4>1, FileBytes
    <3>3. h \in Seq(Data) /\ Len(h) = n
      <4>1. h \in [1 .. n -> Data]
        BY <3>2
      <4> HIDE DEF h
      <4> QED
        BY <3>1, <4>1, Buffer
    <3>4. s \in Seq(Data) /\ Len(s) = n /\ \A k \in 1 .. n : s[k] = Bytes[off + k]
      <4>1. \A i \in off + 1 .. end : Bytes[i] \in Data
        BY <2>3, <3>1, FileBytes
      <4>2. /\ s \in Seq(Data)
            /\ Len(s) = IF off + 1 <= end THEN end - (off + 1) + 1 ELSE 0
            /\ \A k \in 1 .. end - (off + 1) + 1 : s[k] = Bytes[off + 1 + k - 1]
        BY <2>3, <3>1, <4>1, SubSeqProperties
      <4>3. end - (off + 1) + 1 = n /\ \A k \in 1 .. n : off + 1 + k - 1 = off + k
        BY <2>3, <3>1
      <4> HIDE DEF s
      <4> QED
        BY <2>3, <2>5, <3>1, <4>2, <4>3
    <3>5. h = s
      <4>1. \A k \in 1 .. n : h[k] = s[k]
        BY <3>2, <3>4
      <4> HIDE DEF h, s
      <4> QED
        BY <3>3, <3>4, <4>1, SeqEqual
    <3>6. ret' = File!Answer("read", off, len, end - off, SubSeq(Bytes, off + 1, end))
      BY <2>5, <3>1, <3>5 DEF Answer, File!Answer, n
    <3>7. File!Read(off, len)
      BY <2>2, <2>3, <2>5, <3>6 DEF File!Read, end
    <3> QED
      BY <3>7 DEF File!Next
  <2> QED
    BY <2>1, <2>4, <2>5
<1>4. CASE UNCHANGED vars
  BY <1>4 DEF vars, File!vars, Bytes
<1> QED
  BY <1>1, <1>2, <1>3, <1>4 DEF Next

(* sb_read, sb_write and sb_truncate over the block loops of disk_inode.cpp *)
(* are those of a plain sequence of bytes, for every block size and        *)
(* contents, as long as offset plus length stays below 2 ^ 31.             *)
THEOREM ImplementsByteFile == MaxOff + MaxLen < Half => (Spec => FileSpec)
<1> SUFFICES ASSUME Small PROVE Spec => FileSpec
  BY DEF Small
<1>1. Init => File!Init
  <2> SUFFICES ASSUME Init PROVE File!Init
    OBVIOUS
  <2>1. Bytes = <<>>
    <3>1. Bytes \in [1 .. 0 -> Data]
      BY DEF Init, Bytes
    <3>2. Bytes \in Seq(Data) /\ Len(Bytes) = 0
      BY <3>1, Buffer
    <3> QED
      BY <3>2, EmptySeq
  <2> QED
    BY <2>1 DEF Init, File!Init, Answer, File!Answer
<1>2. IInv /\ IInv' /\ [Next]_vars => [File!Next]_(File!vars)
  BY StepRefines
<1>3. IInv /\ [Next]_vars => IInv'
  BY NextIInv
<1> QED
  BY <1>1, <1>2, <1>3, InitIInv, PTL DEF Spec, FileSpec, File!Spec

=============================================================================
