-------------------------- MODULE DiskInodeProofs --------------------------
(***************************************************************************)
(* Proofs about DiskInode, for every geometry and any set of files: as     *)
(* long as no inode is torn and no block but the super block is            *)
(* overwritten (Intact), no block belongs to two places of the files       *)
(* (NoSharing), operations leak no block (NoLeak), and they keep the block *)
(* maps they should (MapsKept, PrefixKept).                                *)
(*                                                                         *)
(* The argument.  What increase() asks for is what PlacesOf says a file of *)
(* the new size has and one of the old size has not (NeededExact), and     *)
(* what decrease() frees is the reverse (ReleasedExact).  The blocks that  *)
(* increase() gets are free and different (NewBlksFacts).  An operation on *)
(* a file changes index entries only in blocks of that file and in blocks  *)
(* that were free, so that every other file keeps its map (StepApart).     *)
(***************************************************************************)
EXTENDS DiskInode, FiniteSetTheorems, WellFoundedInduction, TLAPS

-----------------------------------------------------------------------------
(***************************************************************************)
(* Numbers and finite sets.                                                *)
(***************************************************************************)
(* A set of naturals has a least element. *)
LEMMA Least ==
    ASSUME NEW S, S \subseteq Nat, S # {}
    PROVE  \E m \in S : \A k \in S : m <= k
<1>1. PICK m \in S : \A k \in S : <<k, m>> \notin OpToRel(<, Nat)
  BY WFMin, NatLessThanWellFounded, Zenon
<1>2. \A k \in S : ~(k < m)
  BY <1>1 DEF OpToRel
<1> QED
  BY <1>2

(* In a finite set of naturals there is, for every k below its size, an    *)
(* element with k others below it.  Otherwise take the least such k.       *)
LEMMA KthExists ==
    ASSUME NEW F, F \subseteq Nat, IsFiniteSet(F), NEW k \in Nat, k < Cardinality(F)
    PROVE  \E b \in F : Cardinality({c \in F : c < b}) = k
<1> DEFINE Has(n) == \E b \in F : Cardinality({c \in F : c < b}) = n
           Miss == {n \in Nat : n < Cardinality(F) /\ ~Has(n)}
<1> SUFFICES ASSUME Miss # {} PROVE FALSE
  OBVIOUS
<1>0. Cardinality(F) \in Nat /\ \A c \in F : c \in Nat
  BY FS_CardinalityType
<1>1. PICK n \in Miss : \A m \in Miss : n <= m
  BY Least
<1>2. n \in Nat /\ n < Cardinality(F) /\ ~Has(n)
  BY <1>1
<1>3. CASE n = 0
  <2>1. F # {}
    BY <1>2, <1>3, FS_EmptySet
  <2>2. PICK b \in F : \A c \in F : b <= c
    BY <2>1, Least
  <2>3. {c \in F : c < b} = {}
    <3>1. \A c \in F : ~(c < b)
      BY <1>0, <2>2
    <3> QED
      BY <3>1
  <2> QED
    BY <1>2, <1>3, <2>3, FS_EmptySet
<1>4. CASE n > 0
  <2>1. n - 1 \in Nat /\ n - 1 < Cardinality(F) /\ ~(n <= n - 1)
    BY <1>0, <1>2, <1>4
  <2>2. Has(n - 1)
    BY <1>1, <2>1
  <2>3. PICK b \in F : Cardinality({c \in F : c < b}) = n - 1
    BY <2>2
  <2> DEFINE low == {c \in F : c < b}
             low1 == low \cup {b}
             high == F \ low1
  <2>4. IsFiniteSet(low) /\ IsFiniteSet(low1) /\ Cardinality(low1) = n
    <3>1. IsFiniteSet(low)
      BY FS_Subset
    <3>2. b \notin low
      OBVIOUS
    <3> HIDE DEF low
    <3>3. Cardinality(low) = n - 1
      BY <2>3 DEF low
    <3>4. IsFiniteSet(low1) /\ Cardinality(low1) = Cardinality(low) + 1
      BY <3>1, <3>2, FS_AddElement
    <3> QED
      BY <1>2, <3>1, <3>3, <3>4
  <2>5. high # {}
    <3>1. low1 \subseteq F
      OBVIOUS
    <3>2. low1 # F
      <4> HIDE DEF low1, Has
      <4> QED
        BY <1>0, <1>2, <2>4
    <3> QED
      BY <3>1, <3>2
  <2>6. PICK d \in high : \A c \in high : d <= c
    BY <2>5, Least
  <2>7. {c \in F : c < d} = low1
    <3>1. d \in F /\ d \in Nat /\ b \in Nat /\ ~(d < b) /\ d # b
      BY <1>0, <2>6
    <3>2. \A c \in F : c < d => c \in low1
      BY <1>0, <2>6, <3>1
    <3>3. \A c \in low1 : c \in F /\ c < d
      BY <1>0, <3>1
    <3> HIDE DEF low1
    <3> QED
      BY <3>2, <3>3
  <2> QED
    BY <1>2, <2>4, <2>6, <2>7
<1> QED
  BY <1>2, <1>3, <1>4

-----------------------------------------------------------------------------
(***************************************************************************)
(* Places.                                                                 *)
(***************************************************************************)
Kinds == {"direct", "indirect1", "entry1", "indirect2", "leaf", "entry2"}
InIndex(p) == p[1] \in {"entry1", "leaf", "entry2"}

(* What a place looks like. *)
LEMMA PlaceFacts ==
    ASSUME NEW p \in AllPlaces
    PROVE  /\ p = <<p[1], p[2]>> /\ p[1] \in Kinds /\ p[2] \in Nat
           /\ p[1] = "direct" => p[2] \in 0 .. D - 1
           /\ p[1] \in {"indirect1", "indirect2"} => p[2] = 0
           /\ p[1] \in {"entry1", "leaf"} => p[2] \in 0 .. I - 1
           /\ p[1] = "entry2" => p[2] \in 0 .. I * I - 1
<1> USE GeometryAssumption
<1>1. I * I \in Nat /\ I \in Nat /\ D \in Nat
  OBVIOUS
<1> QED
  BY <1>1 DEF AllPlaces, Kinds, Idx

(* The digits of a position behind indirect2. *)
LEMMA Digits ==
    ASSUME NEW j \in Nat
    PROVE  /\ j \div I \in Nat /\ j % I \in 0 .. I - 1
           /\ j = (j \div I) * I + (j % I)
           /\ (j \div I) * I \in Nat
           /\ j < I * I => j \div I < I
<1>1. I \in Nat /\ I > 0
  BY GeometryAssumption
<1>2. /\ j \div I \in Nat /\ j % I \in 0 .. I - 1
      /\ j = I * (j \div I) + (j % I)
  BY <1>1
<1>3. \A a, b \in Nat : a * b \in Nat /\ a * b = b * a
  OBVIOUS
<1>4. j = (j \div I) * I + (j % I) /\ (j \div I) * I \in Nat
  BY <1>1, <1>2, <1>3
<1>5. ASSUME j < I * I, j \div I >= I PROVE FALSE
  <2> DEFINE q == j \div I
  <2>1. q \in Nat /\ q >= I
    BY <1>2, <1>5
  <2> HIDE DEF q
  <2>2. q * I >= I * I
    BY <1>1, <2>1
  <2>3. q * I <= j
    BY <1>2, <1>4 DEF q
  <2>4. q * I \in Nat /\ I * I \in Nat
    BY <1>1, <1>3, <2>1
  <2> QED
    BY <1>5, <2>2, <2>3, <2>4
<1> QED
  BY <1>1, <1>2, <1>4, <1>5

(* A larger factor gives a product larger by I at least. *)
LEMMA Factor ==
    ASSUME NEW a \in Nat, NEW b \in Nat
    PROVE  /\ a * I \in Nat /\ b * I \in Nat
           /\ a < b => a * I + I <= b * I
           /\ a * I = b * I => a = b
<1>1. I \in Nat /\ I > 0
  BY GeometryAssumption
<1>2. a < b => (a + 1) * I <= b * I
  BY <1>1
<1>3. b < a => (b + 1) * I <= a * I
  BY <1>1
<1>4. (a + 1) * I = a * I + I /\ (b + 1) * I = b * I + I /\ a * I \in Nat /\ b * I \in Nat
  BY <1>1
<1> QED
  BY <1>1, <1>2, <1>3, <1>4

(* From and Order are numbers, and an index block comes before the blocks  *)
(* it leads to.                                                            *)
LEMMA FromFacts ==
    ASSUME NEW p \in AllPlaces
    PROVE  /\ From(p) \in Nat /\ From(p) < D + I + I * I
           /\ Depth(p) \in 0 .. 2
           /\ Order(p) \in Nat /\ Order(p) < 3 * (D + I + I * I)
<1>1. D \in Nat /\ I \in Nat /\ I * I \in Nat /\ D > 0 /\ I > 0
  BY GeometryAssumption
<1>2. p[1] = "leaf" => p[2] * I \in Nat /\ p[2] * I < I * I
  <2> SUFFICES ASSUME p[1] = "leaf" PROVE p[2] * I \in Nat /\ p[2] * I < I * I
    OBVIOUS
  <2>1. p[2] \in Nat /\ p[2] < I
    BY <1>1, PlaceFacts
  <2>2. p[2] * I + I <= I * I /\ p[2] * I \in Nat
    BY <1>1, <2>1, Factor
  <2> QED
    BY <1>1, <2>2
<1>3. From(p) \in Nat /\ From(p) < D + I + I * I
  BY <1>1, <1>2, PlaceFacts DEF From, Kinds
<1>4. Depth(p) \in 0 .. 2
  BY DEF Depth
<1> QED
  BY <1>1, <1>3, <1>4 DEF Order

(* No two places are asked for at once. *)
LEMMA OrderInjective ==
    ASSUME NEW p \in AllPlaces, NEW q \in AllPlaces, Order(p) = Order(q)
    PROVE  p = q
<1>1. D \in Nat /\ I \in Nat /\ D > 0 /\ I > 0
  BY GeometryAssumption
<1>2. From(p) = From(q) /\ Depth(p) = Depth(q)
  BY FromFacts DEF Order
<1>3. p[2] \in Nat /\ q[2] \in Nat /\ p[2] * I \in Nat /\ q[2] * I \in Nat /\ (p[2] * I = q[2] * I => p[2] = q[2])
  BY PlaceFacts, Factor
<1>4. p[1] = q[1]
  BY <1>1, <1>2, <1>3, PlaceFacts DEF From, Depth, Kinds
<1>5. p[2] = q[2]
  BY <1>1, <1>2, <1>3, <1>4, PlaceFacts DEF From, Depth, Kinds
<1> QED
  BY <1>4, <1>5, PlaceFacts

(* There are finitely many places. *)
LEMMA PlacesFinite == IsFiniteSet(AllPlaces)
<1> DEFINE N == 3 * (D + I + I * I)
           f == [p \in AllPlaces |-> Order(p)]
<1>1. N \in Nat
  BY GeometryAssumption
<1>2. IsFiniteSet(0 .. N)
  BY <1>1, FS_Interval
<1>3. f \in Injection(AllPlaces, 0 .. N)
  <2>1. \A p \in AllPlaces : Order(p) \in 0 .. N
    <3> SUFFICES ASSUME NEW p \in AllPlaces PROVE Order(p) \in 0 .. N
      OBVIOUS
    <3>1. Order(p) \in Nat /\ Order(p) < N
      BY FromFacts
    <3> HIDE DEF N
    <3> QED
      BY <1>1, <3>1
  <2>2. \A p, q \in AllPlaces : f[p] = f[q] => p = q
    BY OrderInjective
  <2> QED
    BY <2>1, <2>2 DEF Injection, IsInjective
<1> QED
  BY <1>2, <1>3, FS_Injection

-----------------------------------------------------------------------------
(***************************************************************************)
(* Allocation.                                                             *)
(***************************************************************************)
(* Two places of a request have different turns, and an earlier one is     *)
(* served first.                                                           *)
LEMMA TurnFacts ==
    ASSUME NEW W, W \subseteq AllPlaces, NEW p \in W
    PROVE  /\ Turn(W, p) \in Nat /\ Turn(W, p) < Cardinality(W) /\ Cardinality(W) \in Nat
           /\ \A q \in W : Order(q) < Order(p) => Turn(W, q) < Turn(W, p)
<1> DEFINE B(x) == {q \in W : Order(q) < Order(x)}
<1>1. IsFiniteSet(W)
  BY PlacesFinite, FS_Subset
<1>2. ASSUME NEW S, S \subseteq W, NEW x \in W, x \notin S
      PROVE  Cardinality(S) \in Nat /\ Cardinality(S) < Cardinality(W)
  <2>1. IsFiniteSet(S) /\ Cardinality(S) <= Cardinality(W) /\ Cardinality(S) # Cardinality(W)
    BY <1>1, <1>2, FS_Subset
  <2>2. Cardinality(S) \in Nat /\ Cardinality(W) \in Nat
    BY <1>1, <2>1, FS_CardinalityType
  <2> QED
    BY <2>1, <2>2
<1>3. Turn(W, p) \in Nat /\ Turn(W, p) < Cardinality(W) /\ Cardinality(W) \in Nat
  <2>1. B(p) \subseteq W /\ p \notin B(p)
    BY FromFacts
  <2>2. Cardinality(B(p)) \in Nat /\ Cardinality(B(p)) < Cardinality(W)
    <3> HIDE DEF B
    <3> QED
      BY <1>2, <2>1
  <2> QED
    BY <1>1, <2>2, FS_CardinalityType DEF Turn
<1>4. ASSUME NEW q \in W, Order(q) < Order(p) PROVE Turn(W, q) < Turn(W, p)
  <2>1. B(q) \subseteq B(p) /\ q \in B(p) /\ q \notin B(q)
    BY <1>4, FromFacts
  <2>2. IsFiniteSet(B(p))
    BY <1>1, FS_Subset
  <2> HIDE DEF B
  <2>3. IsFiniteSet(B(q)) /\ Cardinality(B(q)) <= Cardinality(B(p)) /\ Cardinality(B(q)) # Cardinality(B(p))
    BY <2>1, <2>2, FS_Subset
  <2>4. Cardinality(B(q)) \in Nat /\ Cardinality(B(p)) \in Nat
    BY <2>2, <2>3, FS_CardinalityType
  <2> QED
    BY <2>3, <2>4 DEF Turn, B
<1> QED
  BY <1>3, <1>4

(* The blocks nb handed out for the request W are free ones, a different   *)
(* one to each place, to the earlier places first, and to every place if   *)
(* there are enough.                                                       *)
HandedOut(W, nb) ==
    /\ DOMAIN nb \subseteq W
    /\ \A p \in DOMAIN nb : nb[p] \in DataBlks \ used
    /\ \A p, q \in DOMAIN nb : nb[p] = nb[q] => p = q
    /\ \A p \in DOMAIN nb, q \in W : Order(q) < Order(p) => q \in DOMAIN nb
    /\ Cardinality(W) <= NFree => DOMAIN nb = W /\ Lacking(W) = {}

LEMMA NewBlksFacts ==
    ASSUME NEW W, W \subseteq AllPlaces, used \subseteq DataBlks, NEW nb, nb = NewBlks(W)
    PROVE  HandedOut(W, nb)
<1> DEFINE F == DataBlks \ used
<1>1. DataBlks \subseteq Nat /\ IsFiniteSet(DataBlks) /\ Cardinality(DataBlks) = NData
  <2>1. Start \in Nat /\ NData \in Nat /\ Start + NData - 1 \in Int
    BY GeometryAssumption
  <2>2. /\ IsFiniteSet(Start .. Start + NData - 1)
        /\ Cardinality(Start .. Start + NData - 1)
             = IF Start > Start + NData - 1 THEN 0 ELSE (Start + NData - 1) - Start + 1
    BY <2>1, FS_Interval
  <2> QED
    BY <2>1, <2>2 DEF DataBlks
<1>2. F \subseteq Nat /\ IsFiniteSet(F) /\ Cardinality(F) = NFree /\ NFree \in Nat
  <2>1. IsFiniteSet(F) /\ IsFiniteSet(used)
    BY <1>1, FS_Subset
  <2>2. F \cup used = DataBlks /\ F \cap used = {}
    OBVIOUS
  <2>3. Cardinality(DataBlks) = Cardinality(F) + Cardinality(used) - Cardinality({})
    <3> HIDE DEF F
    <3> QED
      BY <2>1, <2>2, FS_Union
  <2>4. Cardinality(F) \in Nat /\ Cardinality(used) \in Nat /\ Cardinality({}) = 0
    BY <2>1, FS_CardinalityType, FS_EmptySet
  <2> QED
    BY <1>1, <2>1, <2>3, <2>4 DEF NFree
<1>3. \A k \in Nat : k < NFree => alloc(k) \in F /\ Cardinality({c \in F : c < alloc(k)}) = k
  <2> SUFFICES ASSUME NEW k \in Nat, k < NFree
               PROVE  alloc(k) \in F /\ Cardinality({c \in F : c < alloc(k)}) = k
    OBVIOUS
  <2>1. \E b \in F : Cardinality({c \in F : c < b}) = k
    <3> HIDE DEF F
    <3> QED
      BY <1>2, KthExists
  <2> QED
    BY <2>1 DEF alloc
<1>4. DOMAIN nb = {q \in W : Turn(W, q) < NFree} /\ \A p \in DOMAIN nb : nb[p] = alloc(Turn(W, p))
  BY DEF NewBlks
<1>5. \A p \in DOMAIN nb : p \in W /\ Turn(W, p) \in Nat /\ Turn(W, p) < NFree
  BY <1>4, TurnFacts
<1> HIDE DEF F
<1>6. \A p \in DOMAIN nb : nb[p] \in F
  BY <1>3, <1>4, <1>5
<1>7. ASSUME NEW p \in DOMAIN nb, NEW q \in DOMAIN nb, nb[p] = nb[q] PROVE p = q
  <2>1. Turn(W, p) = Turn(W, q)
    BY <1>3, <1>4, <1>5, <1>7
  <2>2. ~(Order(p) < Order(q)) /\ ~(Order(q) < Order(p))
    <3>1. p \in W /\ q \in W
      BY <1>5
    <3>2. /\ Order(p) < Order(q) => Turn(W, p) < Turn(W, q)
          /\ Order(q) < Order(p) => Turn(W, q) < Turn(W, p)
      BY <3>1, TurnFacts
    <3> QED
      BY <1>5, <2>1, <3>2
  <2>3. p \in AllPlaces /\ q \in AllPlaces
    BY <1>5
  <2>4. Order(p) = Order(q)
    BY <2>2, <2>3, FromFacts
  <2> QED
    BY <2>3, <2>4, OrderInjective
<1>8. ASSUME NEW p \in DOMAIN nb, NEW q \in W, Order(q) < Order(p) PROVE q \in DOMAIN nb
  <2>1. Turn(W, q) < Turn(W, p) /\ Turn(W, q) \in Nat
    BY <1>5, <1>8, TurnFacts
  <2> QED
    BY <1>2, <1>4, <1>5, <2>1
<1>9. ASSUME Cardinality(W) <= NFree PROVE \A p \in W : Turn(W, p) < NFree /\ Turn(W, p) # NFree
  BY <1>2, <1>9, TurnFacts
<1>10. Cardinality(W) <= NFree => DOMAIN nb = W /\ Lacking(W) = {}
  BY <1>4, <1>9 DEF Lacking
<1> QED
  BY <1>4, <1>6, <1>7, <1>8, <1>10 DEF F, HandedOut

-----------------------------------------------------------------------------
(***************************************************************************)
(* The places of a file.                                                   *)
(***************************************************************************)
(* A file of at most D blocks has no indirect1, one of at most D + I       *)
(* blocks no indirect2: the pointers increase() tests are right.           *)
Shape(ino) ==
    /\ ino.size <= D => ino.indirect1 = 0
    /\ ino.size <= D + I => ino.indirect2 = 0

(* increase() asks for the places the file does not have yet. *)
LEMMA NeededExact ==
    ASSUME NEW ino, NEW old \in Nat, NEW new \in Nat, old < new, new <= MaxBlocks,
           old <= D => ino.indirect1 = 0, old > D => ino.indirect1 # 0,
           old <= D + I => ino.indirect2 = 0, old > D + I => ino.indirect2 # 0
    PROVE  Needed(ino, old, new) = PlacesOf(new) \ PlacesOf(old)
<1> DEFINE N == Needed(ino, old, new)
           P == PlacesOf(new) \ PlacesOf(old)
<1>1. D \in Nat /\ I \in Nat /\ D > 0 /\ I > 0 /\ I * I \in Nat
  BY GeometryAssumption
<1>2. \A p \in AllPlaces : From(p) \in Nat /\ p[1] \in Kinds /\ p = <<p[1], p[2]>>
  BY FromFacts, PlaceFacts
<1>3. P = {p \in AllPlaces : old <= From(p) /\ From(p) < new}
  BY <1>2 DEF PlacesOf
<1>4. \A i : /\ Place("direct", i) \in N <=> i \in old .. new - 1 /\ i < D
             /\ Place("direct", i) \in P <=> i \in 0 .. D - 1 /\ old <= i /\ i < new
  <2>1. \A i : Place("direct", i) \in N <=> i \in old .. new - 1 /\ i < D
    BY DEF Needed, Place
  <2>2. \A i : Place("direct", i) \in AllPlaces <=> i \in 0 .. D - 1
    BY DEF AllPlaces, Place
  <2> QED
    BY <1>3, <2>1, <2>2 DEF From, Place
<1>5. Place("indirect1", 0) \in N <=> Place("indirect1", 0) \in P
  <2>1. Place("indirect1", 0) \in N <=> new > D /\ ino.indirect1 = 0
    BY DEF Needed, Place, Unset
  <2>2. Place("indirect1", 0) \in AllPlaces /\ From(Place("indirect1", 0)) = D
    BY DEF AllPlaces, Place, From
  <2> QED
    BY <1>1, <1>3, <2>1, <2>2
<1>6. Place("indirect2", 0) \in N <=> Place("indirect2", 0) \in P
  <2>1. Place("indirect2", 0) \in N <=> new > D + I /\ ino.indirect2 = 0
    BY DEF Needed, Place, Unset
  <2>2. Place("indirect2", 0) \in AllPlaces /\ From(Place("indirect2", 0)) = D + I
    BY DEF AllPlaces, Place, From
  <2> QED
    BY <1>1, <1>3, <2>1, <2>2
<1>7. \A k : Place("entry1", k) \in N <=> Place("entry1", k) \in P
  <2> SUFFICES ASSUME NEW k PROVE Place("entry1", k) \in N <=> Place("entry1", k) \in P
    OBVIOUS
  <2>1. Place("entry1", k) \in N <=> \E i \in old .. new - 1 : D <= i /\ i < D + I /\ k = i - D
    BY DEF Needed, Place
  <2>2. Place("entry1", k) \in AllPlaces <=> k \in 0 .. I - 1
    BY DEF AllPlaces, Place, Idx
  <2>3. From(Place("entry1", k)) = D + k
    BY DEF Place, From
  <2>4. ASSUME Place("entry1", k) \in P PROVE Place("entry1", k) \in N
    <3>1. k \in 0 .. I - 1 /\ old <= D + k /\ D + k < new
      BY <1>3, <2>2, <2>3, <2>4
    <3>2. D + k \in old .. new - 1 /\ D <= D + k /\ D + k < D + I /\ k = (D + k) - D
      BY <1>1, <3>1
    <3> QED
      BY <2>1, <3>2
  <2>5. ASSUME Place("entry1", k) \in N PROVE Place("entry1", k) \in P
    <3>1. PICK i \in old .. new - 1 : D <= i /\ i < D + I /\ k = i - D
      BY <2>1, <2>5
    <3>2. k \in 0 .. I - 1 /\ D + k = i
      BY <1>1, <3>1
    <3> QED
      BY <1>1, <1>3, <2>2, <2>3, <3>1, <3>2
  <2> QED
    BY <2>4, <2>5
<1> DEFINE behind == {i - D - I : i \in {i \in old .. new - 1 : i >= D + I}}
<1>8. \A j : j \in behind <=> j \in Nat /\ old <= D + I + j /\ D + I + j < new
  <2> SUFFICES ASSUME NEW j PROVE j \in behind <=> j \in Nat /\ old <= D + I + j /\ D + I + j < new
    OBVIOUS
  <2>1. ASSUME j \in behind PROVE j \in Nat /\ old <= D + I + j /\ D + I + j < new
    BY <1>1, <2>1
  <2>2. ASSUME j \in Nat, old <= D + I + j, D + I + j < new PROVE j \in behind
    <3>1. D + I + j \in old .. new - 1 /\ D + I + j >= D + I /\ j = (D + I + j) - D - I
      BY <1>1, <2>2
    <3> QED
      BY <3>1
  <2> QED
    BY <2>1, <2>2
<1>9. \A j \in behind : j < I * I
  BY <1>1, <1>8 DEF MaxBlocks
<1>10. \A j : Place("entry2", j) \in N <=> Place("entry2", j) \in P
  <2> SUFFICES ASSUME NEW j PROVE Place("entry2", j) \in N <=> Place("entry2", j) \in P
    OBVIOUS
  <2>1. Place("entry2", j) \in N <=> j \in behind
    BY DEF Needed, Place
  <2>2. Place("entry2", j) \in AllPlaces <=> j \in 0 .. I * I - 1
    BY DEF AllPlaces, Place
  <2>3. From(Place("entry2", j)) = D + I + j
    BY DEF Place, From
  <2> HIDE DEF behind, N
  <2> QED
    BY <1>1, <1>3, <1>8, <1>9, <2>1, <2>2, <2>3
<1>11. \A b : Place("leaf", b) \in N <=> Place("leaf", b) \in P
  <2> SUFFICES ASSUME NEW b PROVE Place("leaf", b) \in N <=> Place("leaf", b) \in P
    OBVIOUS
  <2>1. Place("leaf", b) \in N <=> \E j \in behind : j \div I > BlkLimit(old) /\ b = j \div I
    BY DEF Needed, Place
  <2>2. Place("leaf", b) \in AllPlaces <=> b \in 0 .. I - 1
    BY DEF AllPlaces, Place, Idx
  <2>3. From(Place("leaf", b)) = D + I + b * I
    BY DEF Place, From
  <2> HIDE DEF behind, N
  <2>4. ASSUME Place("leaf", b) \in P PROVE Place("leaf", b) \in N
    <3>1. b \in Nat /\ b < I /\ old <= D + I + b * I /\ D + I + b * I < new /\ b * I \in Nat
      BY <1>1, <1>3, <2>2, <2>3, <2>4, Factor
    <3>2. b * I \in behind
      BY <1>8, <3>1
    <3>3. (b * I) \div I = b
      BY <1>1, <3>1
    <3>4. b > BlkLimit(old)
      <4>1. CASE old - D - I - 1 < 0
        BY <3>1, <4>1 DEF BlkLimit
      <4>2. CASE old - D - I - 1 >= 0
        <5> DEFINE m == old - D - I - 1
        <5>1. m \in Nat /\ m < b * I
          BY <1>1, <3>1, <4>2
        <5>2. m \div I \in Nat /\ (m \div I) * I \in Nat /\ (m \div I) * I <= m
          BY <5>1, Digits
        <5>3. BlkLimit(old) = m \div I
          BY <1>1, <4>2 DEF BlkLimit
        <5> HIDE DEF m
        <5>4. m \div I < b
          <6> SUFFICES ASSUME b <= m \div I PROVE FALSE
            BY <3>1, <5>2
          <6>1. b * I <= (m \div I) * I
            <7>1. b = m \div I \/ b < m \div I
              BY <3>1, <5>2
            <7> QED
              BY <1>1, <3>1, <5>2, <7>1, Factor
          <6> QED
            BY <3>1, <5>1, <5>2, <6>1
        <5> QED
          BY <3>1, <5>2, <5>3, <5>4
      <4> QED
        BY <1>1, <4>1, <4>2
    <3> QED
      BY <2>1, <3>2, <3>3, <3>4
  <2>5. ASSUME Place("leaf", b) \in N PROVE Place("leaf", b) \in P
    <3>1. PICK j \in behind : j \div I > BlkLimit(old) /\ b = j \div I
      BY <2>1, <2>5
    <3>2. j \in Nat /\ old <= D + I + j /\ D + I + j < new /\ j < I * I
      BY <1>8, <1>9
    <3>3. b \in Nat /\ b < I /\ b * I \in Nat /\ b * I <= j
      BY <3>1, <3>2, Digits
    <3>4. D + I + b * I < new
      BY <1>1, <3>2, <3>3
    <3>5. old <= D + I + b * I
      <4>1. CASE old - D - I - 1 < 0
        BY <1>1, <3>3, <4>1
      <4>2. CASE old - D - I - 1 >= 0
        <5> DEFINE m == old - D - I - 1
        <5>1. m \in Nat
          BY <1>1, <4>2
        <5>2. BlkLimit(old) = m \div I
          BY <1>1, <4>2 DEF BlkLimit
        <5> HIDE DEF m
        <5>3. m \div I \in Nat /\ m % I \in 0 .. I - 1 /\ m = (m \div I) * I + (m % I) /\ (m \div I) * I \in Nat
          BY <5>1, Digits
        <5>4. (m \div I) * I + I <= b * I
          BY <3>1, <3>3, <5>2, <5>3, Factor
        <5>5. m < b * I
          BY <1>1, <3>3, <5>1, <5>3, <5>4
        <5> QED
          BY <1>1, <3>3, <5>5 DEF m
      <4> QED
        BY <1>1, <4>1, <4>2
    <3> QED
      BY <1>1, <1>3, <2>2, <2>3, <3>3, <3>4, <3>5
  <2> QED
    BY <2>4, <2>5
<1>12. \A p \in N : \/ \E i : p = Place("direct", i) \/ p = Place("entry1", i)
                              \/ p = Place("leaf", i) \/ p = Place("entry2", i)
                    \/ p = Place("indirect1", 0) \/ p = Place("indirect2", 0)
  BY DEF Needed
<1>13. \A p \in P : \/ \E i : p = Place("direct", i) \/ p = Place("entry1", i)
                              \/ p = Place("leaf", i) \/ p = Place("entry2", i)
                    \/ p = Place("indirect1", 0) \/ p = Place("indirect2", 0)
  BY <1>3 DEF AllPlaces, Place
<1>14. \A i : Place("direct", i) \in N <=> Place("direct", i) \in P
  BY <1>1, <1>4
<1> HIDE DEF N, P
<1>15. N = P
  BY <1>5, <1>6, <1>7, <1>10, <1>11, <1>12, <1>13, <1>14
<1> QED
  BY <1>15 DEF N, P

(* Positions behind indirect2 are ordered as their leaves and entries are. *)
LEMMA Behind ==
    ASSUME NEW r \in Nat, NEW b \in Nat, NEW k \in 0 .. I - 1
    PROVE  /\ b * I + k \in Nat
           /\ b * I + k <= r <=> b < r \div I \/ (b = r \div I /\ k <= r % I)
           /\ b * I <= r <=> b <= r \div I
<1>1. I \in Nat /\ I > 0 /\ b * I \in Nat
  BY GeometryAssumption
<1>2. PICK q \in Nat, m \in 0 .. I - 1 :
        q = r \div I /\ m = r % I /\ r = q * I + m /\ q * I \in Nat
  BY Digits
<1>3. CASE b = q
  BY <1>1, <1>2, <1>3
<1>4. CASE b < q
  <2>1. b * I + I <= q * I
    BY <1>2, <1>4, Factor
  <2> QED
    BY <1>1, <1>2, <1>4, <2>1
<1>5. CASE q < b
  <2>1. q * I + I <= b * I
    BY <1>2, <1>5, Factor
  <2> QED
    BY <1>1, <1>2, <1>5, <2>1
<1> QED
  BY <1>2, <1>3, <1>4, <1>5

(* decrease() puts the places that the file no longer has on its list, and *)
(* each of them: the loops over the leaves end and begin at the right one. *)
LEMMA ReleasedExact ==
    ASSUME NEW ino, NEW old \in Nat, NEW new \in Nat, new <= old, old <= MaxBlocks,
           old <= D => ino.indirect1 = 0, old > D => ino.indirect1 # 0,
           old <= D + I => ino.indirect2 = 0, old > D + I => ino.indirect2 # 0
    PROVE  Released(ino, old, new) = PlacesOf(old) \ PlacesOf(new)
<1> DEFINE R == Released(ino, old, new)
           P == PlacesOf(old) \ PlacesOf(new)
<1>1. D \in Nat /\ I \in Nat /\ D > 0 /\ I > 0 /\ I * I \in Nat /\ 0 \in 0 .. I - 1
  BY GeometryAssumption
<1>2. \A p \in AllPlaces : From(p) \in Nat /\ p[1] \in Kinds /\ p = <<p[1], p[2]>>
  BY FromFacts, PlaceFacts
<1>3. P = {p \in AllPlaces : new <= From(p) /\ From(p) < old}
  BY <1>2 DEF PlacesOf
<1> DEFINE ri     == new - D - I - 1
           rj     == old - D - I - 1
           leaves == IF rj < 0 THEN {} ELSE (IF ri < 0 THEN 0 ELSE ri \div I) .. rj \div I
<1>4. ri \in Int /\ rj \in Int /\ ri = new - D - I - 1 /\ rj = old - D - I - 1
  BY <1>1
<1>5. leaves = IF rj < 0 THEN {} ELSE (IF ri < 0 THEN 0 ELSE ri \div I) .. rj \div I
  OBVIOUS
<1>6. \A q : q \in R <=>
        \/ \E i \in new .. old - 1 : i < D /\ q = Place("direct", i)
        \/ /\ ino.indirect1 # 0
           /\ \E i \in new .. old - 1 : D <= i /\ i < D + I /\ q = Place("entry1", i - D)
        \/ ino.indirect1 # 0 /\ new <= D /\ q = Place("indirect1", 0)
        \/ ino.indirect2 # 0 /\ \E b \in leaves : q \in LeafReleased(b, ri, rj)
        \/ ino.indirect2 # 0 /\ ri < 0 /\ rj >= 0 /\ q = Place("indirect2", 0)
  <2> DEFINE direct == {Place("direct", i) : i \in {i \in new .. old - 1 : i < D}}
             single == {Place("entry1", i - D) : i \in {i \in new .. old - 1 : D <= i /\ i < D + I}}
             double == UNION {LeafReleased(b, ri, rj) : b \in leaves}
  <2>4. R = direct
            \cup (IF ino.indirect1 = 0 THEN {} ELSE
                    single \cup {q \in {Place("indirect1", 0)} : new <= D})
            \cup (IF ino.indirect2 = 0 THEN {} ELSE
                    double \cup {q \in {Place("indirect2", 0)} : ri < 0 /\ rj >= 0})
    BY DEF Released
  <2>5. \A q : q \in direct <=> \E i \in new .. old - 1 : i < D /\ q = Place("direct", i)
    OBVIOUS
  <2>6. \A q : q \in single <=>
          \E i \in new .. old - 1 : D <= i /\ i < D + I /\ q = Place("entry1", i - D)
    OBVIOUS
  <2>7. \A q : q \in double <=> \E b \in leaves : q \in LeafReleased(b, ri, rj)
    OBVIOUS
  <2> HIDE DEF R, direct, single, double
  <2>8. \A q : q \in R <=>
          \/ q \in direct
          \/ ino.indirect1 # 0 /\ q \in single
          \/ ino.indirect1 # 0 /\ new <= D /\ q = Place("indirect1", 0)
          \/ ino.indirect2 # 0 /\ q \in double
          \/ ino.indirect2 # 0 /\ ri < 0 /\ rj >= 0 /\ q = Place("indirect2", 0)
    BY <2>4
  <2> QED
    BY <2>5, <2>6, <2>7, <2>8
<1>7. \A q, b : q \in LeafReleased(b, ri, rj) <=>
         \/ q = Place("leaf", b) /\ ~IsLastKept(b, ri)
         \/ \E k \in (IF IsLastKept(b, ri) THEN (ri % I) + 1 ELSE 0)
                     .. (IF b = rj \div I THEN rj % I ELSE I - 1) : q = Place("entry2", b * I + k)
  BY DEF LeafReleased, BlksOfLeaf
<1>18. \A k, i, l, j : Place(k, i) = Place(l, j) <=> k = l /\ i = j
  BY DEF Place
<1> HIDE DEF R, P, ri, rj, leaves
<1>8. \A i : Place("direct", i) \in R <=> Place("direct", i) \in P
  <2>1. \A i : Place("direct", i) \in R <=> i \in new .. old - 1 /\ i < D
    BY <1>6, <1>7, <1>18
  <2>2. \A i : Place("direct", i) \in AllPlaces <=> i \in 0 .. D - 1
    BY DEF AllPlaces, Place
  <2>3. \A i : From(Place("direct", i)) = i
    BY DEF From, Place
  <2> QED
    BY <1>1, <1>3, <2>1, <2>2, <2>3
<1>9. Place("indirect1", 0) \in R <=> Place("indirect1", 0) \in P
  <2>1. Place("indirect1", 0) \in R <=> ino.indirect1 # 0 /\ new <= D
    BY <1>6, <1>7, <1>18
  <2>2. Place("indirect1", 0) \in AllPlaces /\ From(Place("indirect1", 0)) = D
    BY DEF AllPlaces, Place, From
  <2> QED
    BY <1>1, <1>3, <2>1, <2>2
<1>10. Place("indirect2", 0) \in R <=> Place("indirect2", 0) \in P
  <2>1. Place("indirect2", 0) \in R <=> ino.indirect2 # 0 /\ ri < 0 /\ rj >= 0
    BY <1>6, <1>7, <1>18
  <2>2. Place("indirect2", 0) \in AllPlaces /\ From(Place("indirect2", 0)) = D + I
    BY DEF AllPlaces, Place, From
  <2> QED
    BY <1>1, <1>3, <1>4, <2>1, <2>2
<1>11. \A k : Place("entry1", k) \in R <=> Place("entry1", k) \in P
  <2> SUFFICES ASSUME NEW k PROVE Place("entry1", k) \in R <=> Place("entry1", k) \in P
    OBVIOUS
  <2>1. Place("entry1", k) \in R <=>
          ino.indirect1 # 0 /\ \E i \in new .. old - 1 : D <= i /\ i < D + I /\ k = i - D
    BY <1>6, <1>7, <1>18
  <2>2. Place("entry1", k) \in AllPlaces <=> k \in 0 .. I - 1
    BY DEF AllPlaces, Place, Idx
  <2>3. From(Place("entry1", k)) = D + k
    BY DEF Place, From
  <2>4. ASSUME Place("entry1", k) \in P PROVE Place("entry1", k) \in R
    <3>1. k \in 0 .. I - 1 /\ new <= D + k /\ D + k < old
      BY <1>3, <2>2, <2>3, <2>4
    <3>2. D + k \in new .. old - 1 /\ D <= D + k /\ D + k < D + I /\ k = (D + k) - D /\ old > D
      BY <1>1, <3>1
    <3> QED
      BY <2>1, <3>2
  <2>5. ASSUME Place("entry1", k) \in R PROVE Place("entry1", k) \in P
    <3>1. PICK i \in new .. old - 1 : D <= i /\ i < D + I /\ k = i - D
      BY <2>1, <2>5
    <3>2. k \in 0 .. I - 1 /\ D + k = i
      BY <1>1, <3>1
    <3> QED
      BY <1>1, <1>3, <2>2, <2>3, <3>1, <3>2
  <2> QED
    BY <2>4, <2>5
<1>12. ASSUME NEW b, b \in leaves
       PROVE  /\ b \in Nat /\ rj \in Nat /\ b <= rj \div I /\ rj \div I \in Nat
              /\ ri >= 0 => ri \in Nat /\ ri \div I \in Nat /\ ri \div I <= b
  <2>1. rj >= 0 /\ b \in (IF ri < 0 THEN 0 ELSE ri \div I) .. rj \div I
    BY <1>4, <1>5, <1>12
  <2>2. rj \in Nat /\ rj \div I \in Nat
    BY <1>4, <2>1, Digits
  <2>3. ri >= 0 => ri \in Nat /\ ri \div I \in Nat
    <3>1. ri >= 0 => ri \in Nat
      BY <1>4
    <3> QED
      BY <3>1, Digits
  <2> QED
    BY <1>4, <2>1, <2>2, <2>3
<1>13. \A b : Place("leaf", b) \in R <=> Place("leaf", b) \in P
  <2> SUFFICES ASSUME NEW b PROVE Place("leaf", b) \in R <=> Place("leaf", b) \in P
    OBVIOUS
  <2>1. Place("leaf", b) \in R <=> ino.indirect2 # 0 /\ b \in leaves /\ ~IsLastKept(b, ri)
    BY <1>6, <1>7, <1>18
  <2>2. Place("leaf", b) \in AllPlaces <=> b \in 0 .. I - 1
    BY DEF AllPlaces, Place, Idx
  <2>3. From(Place("leaf", b)) = D + I + b * I
    BY DEF Place, From
  <2>4. ASSUME Place("leaf", b) \in P PROVE Place("leaf", b) \in R
    <3>1. b \in Nat /\ b * I \in Nat /\ new <= D + I + b * I /\ D + I + b * I < old
      BY <1>1, <1>3, <2>2, <2>3, <2>4, Factor
    <3>2. rj \in Nat /\ b * I <= rj
      BY <1>1, <1>4, <3>1
    <3>3. b <= rj \div I /\ rj \div I \in Nat
      BY <1>1, <3>1, <3>2, Behind, Digits
    <3>4. CASE ri < 0
      BY <1>1, <1>4, <1>5, <2>1, <3>1, <3>2, <3>3, <3>4 DEF IsLastKept
    <3>5. CASE ri >= 0
      <4>1. ri \in Nat /\ ri \div I \in Nat /\ ~(b * I <= ri)
        BY <1>1, <1>4, <3>1, <3>5, Digits
      <4>2. ~(b <= ri \div I)
        BY <1>1, <3>1, <4>1, Behind
      <4>3. ino.indirect2 # 0
        BY <1>1, <3>1
      <4>4. b \in leaves
        BY <1>5, <3>1, <3>2, <3>3, <3>5, <4>1, <4>2
      <4> QED
        BY <2>1, <3>1, <4>1, <4>2, <4>3, <4>4 DEF IsLastKept
    <3> QED
      BY <1>4, <3>4, <3>5
  <2>5. ASSUME Place("leaf", b) \in R PROVE Place("leaf", b) \in P
    <3>1. b \in leaves /\ ~IsLastKept(b, ri)
      BY <2>1, <2>5
    <3>2. /\ b \in Nat /\ rj \in Nat /\ b <= rj \div I /\ rj \div I \in Nat
          /\ ri >= 0 => ri \in Nat /\ ri \div I \in Nat /\ ri \div I <= b
      BY <1>12, <3>1
    <3>3. b * I <= rj /\ b * I \in Nat
      BY <1>1, <3>2, Behind, Factor
    <3>4. D + I + b * I < old
      BY <1>1, <1>4, <3>3
    <3>5. b < I
      <4>1. rj < I * I
        BY <1>1, <1>4 DEF MaxBlocks
      <4>2. rj \div I < I
        BY <3>2, <4>1, Digits
      <4> QED
        BY <1>1, <3>2, <4>2
    <3>6. new <= D + I + b * I
      <4>1. CASE ri < 0
        BY <1>1, <1>4, <3>3, <4>1
      <4>2. CASE ri >= 0
        <5>1. ~(b <= ri \div I)
          BY <3>1, <3>2, <4>2 DEF IsLastKept
        <5>2. ~(b * I <= ri)
          BY <1>1, <3>2, <4>2, <5>1, Behind
        <5> QED
          BY <1>1, <1>4, <3>3, <5>2
      <4> QED
        BY <1>4, <4>1, <4>2
    <3>7. b \in 0 .. I - 1
      BY <1>1, <3>2, <3>5
    <3> QED
      BY <1>3, <2>2, <2>3, <3>4, <3>6, <3>7
  <2> QED
    BY <2>4, <2>5
<1>14. \A j : Place("entry2", j) \in R <=> Place("entry2", j) \in P
  <2> SUFFICES ASSUME NEW j PROVE Place("entry2", j) \in R <=> Place("entry2", j) \in P
    OBVIOUS
  <2>1. Place("entry2", j) \in R <=>
          /\ ino.indirect2 # 0
          /\ \E b \in leaves : \E k \in (IF IsLastKept(b, ri) THEN (ri % I) + 1 ELSE 0)
                                        .. (IF b = rj \div I THEN rj % I ELSE I - 1) : j = b * I + k
    BY <1>6, <1>7, <1>18
  <2>2. Place("entry2", j) \in AllPlaces <=> j \in 0 .. I * I - 1
    BY DEF AllPlaces, Place
  <2>3. From(Place("entry2", j)) = D + I + j
    BY DEF Place, From
  <2>4. ASSUME Place("entry2", j) \in P PROVE Place("entry2", j) \in R
    <3>1. j \in Nat /\ new <= D + I + j /\ D + I + j < old
      BY <1>1, <1>3, <2>2, <2>3, <2>4
    <3>2. PICK b \in Nat, k \in 0 .. I - 1 : b = j \div I /\ k = j % I /\ j = b * I + k
      BY <3>1, Digits
    <3>3. rj \in Nat /\ rj \div I \in Nat /\ rj % I \in 0 .. I - 1 /\ b * I + k <= rj
      BY <1>1, <1>4, <3>1, <3>2, Digits
    <3>4. b < rj \div I \/ (b = rj \div I /\ k <= rj % I)
      BY <3>2, <3>3, Behind
    <3>5. ino.indirect2 # 0
      BY <1>1, <3>1
    <3>6. b \in leaves /\ (IsLastKept(b, ri) => (ri % I) + 1 <= k)
      <4>1. CASE ri < 0
        BY <1>4, <1>5, <3>2, <3>3, <3>4, <4>1 DEF IsLastKept
      <4>2. CASE ri >= 0
        <5>1. ri \in Nat /\ ri \div I \in Nat /\ ri % I \in 0 .. I - 1
          <6>1. ri \in Nat
            BY <1>4, <4>2
          <6> QED
            BY <6>1, Digits
        <5>2. ~(b * I + k <= ri)
          BY <1>1, <1>4, <3>1, <3>2, <5>1
        <5>3. ~(b < ri \div I) /\ ~(b = ri \div I /\ k <= ri % I)
          BY <3>2, <5>1, <5>2, Behind
        <5>4. b \in leaves
          BY <1>5, <3>2, <3>3, <3>4, <4>2, <5>1, <5>3
        <5>5. IsLastKept(b, ri) => (ri % I) + 1 <= k
          BY <1>1, <3>2, <5>1, <5>3 DEF IsLastKept
        <5> QED
          BY <5>4, <5>5
      <4> QED
        BY <1>4, <4>1, <4>2
    <3>7. k \in (IF IsLastKept(b, ri) THEN (ri % I) + 1 ELSE 0)
                .. (IF b = rj \div I THEN rj % I ELSE I - 1)
      <4>1. CASE IsLastKept(b, ri)
        <5>1. ri % I \in Int
          <6>1. ri \in Nat
            BY <1>4, <4>1 DEF IsLastKept
          <6> QED
            BY <6>1, Digits
        <5> QED
          BY <1>1, <3>2, <3>3, <3>4, <3>6, <4>1, <5>1
      <4>2. CASE ~IsLastKept(b, ri)
        BY <1>1, <3>2, <3>3, <3>4, <4>2
      <4> QED
        BY <4>1, <4>2
    <3> QED
      BY <2>1, <3>2, <3>5, <3>6, <3>7
  <2>5. ASSUME Place("entry2", j) \in R PROVE Place("entry2", j) \in P
    <3>1. PICK b \in leaves : \E k \in (IF IsLastKept(b, ri) THEN (ri % I) + 1 ELSE 0)
                                       .. (IF b = rj \div I THEN rj % I ELSE I - 1) : j = b * I + k
      BY <2>1, <2>5
    <3>2. PICK k \in (IF IsLastKept(b, ri) THEN (ri % I) + 1 ELSE 0)
                     .. (IF b = rj \div I THEN rj % I ELSE I - 1) : j = b * I + k
      BY <3>1
    <3>3. /\ b \in Nat /\ rj \in Nat /\ b <= rj \div I /\ rj \div I \in Nat
          /\ ri >= 0 => ri \in Nat /\ ri \div I \in Nat /\ ri \div I <= b
      BY <1>12
    <3>4. rj % I \in 0 .. I - 1 /\ (ri >= 0 => ri % I \in 0 .. I - 1)
      BY <3>3, Digits
    <3>5. k \in 0 .. I - 1
      <4>1. CASE IsLastKept(b, ri)
        BY <1>1, <3>2, <3>4, <4>1 DEF IsLastKept
      <4>2. CASE ~IsLastKept(b, ri)
        BY <1>1, <3>2, <3>4, <4>2
      <4> QED
        BY <4>1, <4>2
    <3>6. b < rj \div I \/ (b = rj \div I /\ k <= rj % I)
      <4>1. CASE b = rj \div I
        <5>1. k <= rj % I
          <6>1. CASE IsLastKept(b, ri)
            BY <3>2, <3>4, <4>1, <6>1 DEF IsLastKept
          <6>2. CASE ~IsLastKept(b, ri)
            BY <3>2, <3>4, <4>1, <6>2
          <6> QED
            BY <6>1, <6>2
        <5> QED
          BY <4>1, <5>1
      <4>2. CASE b # rj \div I
        BY <3>3, <4>2
      <4> QED
        BY <4>1, <4>2
    <3>7. j \in Nat /\ j <= rj
      BY <3>2, <3>3, <3>5, <3>6, Behind
    <3>8. j \in 0 .. I * I - 1 /\ D + I + j < old
      BY <1>1, <1>4, <3>7 DEF MaxBlocks
    <3>9. new <= D + I + j
      <4>1. CASE ri < 0
        BY <1>1, <1>4, <3>7, <4>1
      <4>2. CASE ri >= 0
        <5>1. ~(b < ri \div I) /\ ~(b = ri \div I /\ k <= ri % I)
          <6>1. b = ri \div I => (ri % I) + 1 <= k
            BY <3>2, <3>4, <4>2 DEF IsLastKept
          <6> QED
            BY <1>1, <3>3, <3>4, <3>5, <4>2, <6>1
        <5>2. ~(j <= ri)
          BY <3>2, <3>3, <3>5, <4>2, <5>1, Behind
        <5> QED
          BY <1>1, <1>4, <3>7, <5>2
      <4> QED
        BY <1>4, <4>1, <4>2
    <3> QED
      BY <1>3, <2>2, <2>3, <3>8, <3>9
  <2> QED
    BY <2>4, <2>5
<1>15. \A p \in R : \/ \E i : p = Place("direct", i) \/ p = Place("entry1", i)
                              \/ p = Place("leaf", i) \/ p = Place("entry2", i)
                    \/ p = Place("indirect1", 0) \/ p = Place("indirect2", 0)
  <2>1. \A b : \A p \in LeafReleased(b, ri, rj) :
           \E i : p = Place("leaf", i) \/ p = Place("entry2", i)
    BY <1>7
  <2> QED
    BY <1>6, <2>1
<1>16. \A p \in P : \/ \E i : p = Place("direct", i) \/ p = Place("entry1", i)
                              \/ p = Place("leaf", i) \/ p = Place("entry2", i)
                    \/ p = Place("indirect1", 0) \/ p = Place("indirect2", 0)
  BY <1>3 DEF AllPlaces, Place
<1>17. R = P
  BY <1>8, <1>9, <1>10, <1>11, <1>13, <1>14, <1>15, <1>16
<1> QED
  BY <1>17 DEF R, P

(* A larger file has the places of a smaller one. *)
LEMMA PlacesGrow ==
    ASSUME NEW m \in Int, NEW n \in Int, m <= n
    PROVE  PlacesOf(m) \subseteq PlacesOf(n)
  BY FromFacts DEF PlacesOf

(* An empty file has none. *)
LEMMA PlacesOfEmpty == PlacesOf(0) = {}
  BY FromFacts DEF PlacesOf

(* The index block that leads to a place: a file that has the place has    *)
(* it, it is asked for earlier, and it leads to one place per position.    *)
LEMMA HolderFacts ==
    ASSUME NEW p \in AllPlaces, InIndex(p)
    PROVE  /\ Holder(p) \in AllPlaces /\ Slot(p) \in Idx
           /\ Holder(p)[1] \in {"indirect1", "indirect2", "leaf"}
           /\ \A n \in Int : p \in PlacesOf(n) => Holder(p) \in PlacesOf(n)
           /\ Order(Holder(p)) < Order(p)
           /\ p[1] = "entry2" => InIndex(Holder(p))
           /\ \A q \in AllPlaces :
                InIndex(q) /\ Holder(p) = Holder(q) /\ Slot(p) = Slot(q) => p = q
<1>1. D \in Nat /\ I \in Nat /\ D > 0 /\ I > 0 /\ I * I \in Nat
  BY GeometryAssumption
<1>2. /\ Holder(p) \in AllPlaces /\ Slot(p) \in Idx
      /\ Holder(p)[1] \in {"indirect1", "indirect2", "leaf"}
      /\ From(Holder(p)) <= From(p) /\ Depth(Holder(p)) < Depth(p)
      /\ p[1] = "entry2" => InIndex(Holder(p))
  <2>1. CASE p[1] = "entry1"
    BY <1>1, <2>1, PlaceFacts DEF Holder, Slot, Place, AllPlaces, From, Depth, Idx, InIndex
  <2>2. CASE p[1] = "leaf"
    <3>1. p[2] \in 0 .. I - 1 /\ p[2] * I \in Nat
      BY <1>1, <2>2, PlaceFacts, Factor
    <3> QED
      BY <1>1, <2>2, <3>1 DEF Holder, Slot, Place, AllPlaces, From, Depth, Idx, InIndex
  <2>3. CASE p[1] = "entry2"
    <3>1. p[2] \in Nat /\ p[2] < I * I
      BY <1>1, <2>3, PlaceFacts
    <3>2. /\ p[2] \div I \in Nat /\ p[2] \div I < I /\ p[2] % I \in 0 .. I - 1
          /\ (p[2] \div I) * I \in Nat /\ (p[2] \div I) * I <= p[2]
      BY <3>1, Digits
    <3>3. Holder(p) = <<"leaf", p[2] \div I>> /\ Slot(p) = p[2] % I
      BY <2>3 DEF Holder, Slot, Place
    <3>4. Holder(p) \in AllPlaces /\ Slot(p) \in Idx
      BY <1>1, <3>2, <3>3 DEF AllPlaces, Idx
    <3>5. From(Holder(p)) = D + I + (p[2] \div I) * I /\ From(p) = D + I + p[2]
      BY <2>3, <3>3 DEF From
    <3> QED
      BY <1>1, <2>3, <3>1, <3>2, <3>3, <3>4, <3>5 DEF Depth, InIndex
  <2> QED
    BY <2>1, <2>2, <2>3 DEF InIndex
<1>3. Order(Holder(p)) < Order(p)
  BY <1>2, FromFacts DEF Order
<1>4. \A n \in Int : p \in PlacesOf(n) => Holder(p) \in PlacesOf(n)
  BY <1>2, FromFacts DEF PlacesOf
<1>5. ASSUME NEW q \in AllPlaces, InIndex(q), Holder(p) = Holder(q), Slot(p) = Slot(q) PROVE p = q
  <2>1. p[1] = q[1]
    BY <1>5 DEF InIndex, Holder, Place
  <2>2. p[2] = q[2]
    <3>1. CASE p[1] # "entry2"
      BY <1>5, <2>1, <3>1 DEF Slot
    <3>2. CASE p[1] = "entry2"
      <4>1. p[2] \in Nat /\ q[2] \in Nat
        BY PlaceFacts
      <4>2. p[2] \div I = q[2] \div I /\ p[2] % I = q[2] % I
        BY <1>5, <2>1, <3>2 DEF Slot, Holder, Place
      <4>3. p[2] = (p[2] \div I) * I + (p[2] % I) /\ q[2] = (q[2] \div I) * I + (q[2] % I)
        BY <4>1, Digits
      <4> QED
        BY <4>2, <4>3
    <3> QED
      BY <3>1, <3>2
  <2> QED
    BY <2>1, <2>2, PlaceFacts
<1> QED
  BY <1>2, <1>3, <1>4, <1>5

(* The id of a place in an index block is the entry there. *)
LEMMA LocEntry ==
    ASSUME NEW p \in AllPlaces, InIndex(p), NEW ino, NEW e
    PROVE  Loc(ino, e, p) = e[<<Loc(ino, e, Holder(p)), Slot(p)>>]
  BY DEF InIndex, Loc, Leaf, Holder, Slot, Place

(* X gives the blocks of the first n places as the pointers of ino and the *)
(* entries e do.                                                           *)
Agrees(n, ino, e, X) ==
    /\ \A p \in PlacesOf(n) : p[1] = "direct" => ino.direct[p[2]] = X[p]
    /\ \A p \in PlacesOf(n) : p[1] = "indirect1" => ino.indirect1 = X[p]
    /\ \A p \in PlacesOf(n) : p[1] = "indirect2" => ino.indirect2 = X[p]
    /\ \A p \in PlacesOf(n) : InIndex(p) => e[<<X[Holder(p)], Slot(p)>>] = X[p]

(* Places are found where the pointers and the entries say. *)
LEMMA LocAgree ==
    ASSUME NEW n \in Int, NEW ino, NEW e, NEW X, Agrees(n, ino, e, X)
    PROVE  \A p \in PlacesOf(n) : Loc(ino, e, p) = X[p]
<1> USE DEF Agrees
<1>1. \A p \in PlacesOf(n) : p \in AllPlaces /\ p[1] \in Kinds
  BY PlaceFacts DEF PlacesOf
<1>2. \A p \in PlacesOf(n) : ~InIndex(p) => Loc(ino, e, p) = X[p]
  BY <1>1 DEF InIndex, Loc, Kinds
<1>3. \A p \in PlacesOf(n) : InIndex(p) /\ p[1] # "entry2" => Loc(ino, e, p) = X[p]
  <2> SUFFICES ASSUME NEW p \in PlacesOf(n), InIndex(p), p[1] # "entry2"
               PROVE  Loc(ino, e, p) = X[p]
    OBVIOUS
  <2>1. Holder(p) \in PlacesOf(n)
    BY <1>1, HolderFacts
  <2>2. ~InIndex(Holder(p))
    BY DEF InIndex, Holder, Place
  <2>3. Loc(ino, e, Holder(p)) = X[Holder(p)]
    BY <1>2, <2>1, <2>2
  <2>4. Loc(ino, e, p) = e[<<Loc(ino, e, Holder(p)), Slot(p)>>]
    BY <1>1, LocEntry
  <2> QED
    BY <2>3, <2>4
<1>4. \A p \in PlacesOf(n) : p[1] = "entry2" => Loc(ino, e, p) = X[p]
  <2> SUFFICES ASSUME NEW p \in PlacesOf(n), p[1] = "entry2" PROVE Loc(ino, e, p) = X[p]
    OBVIOUS
  <2>1. InIndex(p) /\ InIndex(Holder(p)) /\ Holder(p)[1] # "entry2"
    BY DEF InIndex, Holder, Place
  <2>2. Holder(p) \in PlacesOf(n)
    BY <1>1, <2>1, HolderFacts
  <2>3. Loc(ino, e, Holder(p)) = X[Holder(p)]
    BY <1>3, <2>1, <2>2
  <2>4. Loc(ino, e, p) = e[<<Loc(ino, e, Holder(p)), Slot(p)>>]
    BY <1>1, <2>1, LocEntry
  <2> QED
    BY <2>1, <2>3, <2>4
<1> QED
  BY <1>2, <1>3, <1>4

(* The place of a data block. *)
LEMMA DataPlaceFacts ==
    ASSUME NEW i \in Nat, NEW n \in Int, i < n, n <= MaxBlocks
    PROVE  /\ DataPlace(i) \in PlacesOf(n)
           /\ DataPlace(i)[1] \notin {"indirect1", "indirect2", "leaf"}
           /\ From(DataPlace(i)) = i
<1>1. D \in Nat /\ I \in Nat /\ D > 0 /\ I > 0 /\ I * I \in Nat
  BY GeometryAssumption
<1>2. DataPlace(i) \in AllPlaces /\ DataPlace(i)[1] \notin {"indirect1", "indirect2", "leaf"}
      /\ From(DataPlace(i)) = i
  BY <1>1 DEF DataPlace, Place, AllPlaces, From, MaxBlocks, Idx
<1> QED
  BY <1>2 DEF PlacesOf

(* block_id() finds a data block when the index blocks are in the data     *)
(* area.                                                                   *)
LEMMA BlockId ==
    ASSUME NEW i \in Nat, NEW n \in Int, i < n, n <= MaxBlocks, NEW ino, NEW e,
           \A p \in PlacesOf(n) : Loc(ino, e, p) \in DataBlks
    PROVE  block_id(ino, e, i) = Loc(ino, e, DataPlace(i))
<1> DEFINE p == DataPlace(i)
<1>1. p \in PlacesOf(n) /\ p \in AllPlaces /\ p[1] \notin {"indirect1", "indirect2", "leaf"} /\ p[1] \in Kinds
  BY DataPlaceFacts, PlaceFacts DEF PlacesOf
<1>2. \A b \in DataBlks : b # Bad
  BY GeometryAssumption DEF DataBlks, Bad
<1>3. CASE p[1] = "direct"
  BY <1>3 DEF block_id, Loc
<1>4. CASE p[1] = "entry1"
  <2>1. ino.indirect1 \in DataBlks
    <3>1. Holder(p) \in PlacesOf(n) /\ Loc(ino, e, Holder(p)) = ino.indirect1
      BY <1>1, <1>4, HolderFacts DEF InIndex, Holder, Loc, Place
    <3> QED
      BY <3>1
  <2> QED
    BY <1>2, <1>4, <2>1 DEF block_id, Loc, EntryAt
<1>5. CASE p[1] = "entry2"
  <2>1. Holder(p) \in PlacesOf(n) /\ Holder(p) \in AllPlaces /\ InIndex(Holder(p))
    BY <1>1, <1>5, HolderFacts DEF InIndex
  <2>2. Holder(Holder(p)) \in PlacesOf(n)
    BY <2>1, HolderFacts
  <2>3. /\ Loc(ino, e, Holder(p)) = e[<<ino.indirect2, p[2] \div I>>]
        /\ Loc(ino, e, Holder(Holder(p))) = ino.indirect2
        /\ Loc(ino, e, p) = e[<<e[<<ino.indirect2, p[2] \div I>>], p[2] % I>>]
    BY <1>5 DEF Holder, Loc, Place, Leaf
  <2>4. ino.indirect2 \in DataBlks /\ e[<<ino.indirect2, p[2] \div I>>] \in DataBlks
    BY <2>1, <2>2, <2>3
  <2> QED
    BY <1>2, <1>5, <2>3, <2>4 DEF block_id, EntryAt
<1> QED
  BY <1>1, <1>3, <1>4, <1>5 DEF Kinds

-----------------------------------------------------------------------------
(***************************************************************************)
(* The inductive invariant.  NoSharing alone is not inductive: increase()  *)
(* takes an index block only when the pointer to it is 0, so the pointers  *)
(* of files that need none must be 0 (Shape).                              *)
(***************************************************************************)
Own(f)   == PlacesOf(inode[f].size)
L(f, p)  == Loc(inode[f], entry, p)
Locs(f)  == {L(f, p) : p \in Own(f)}

(* Every place of a file has a block of its own that is marked. *)
Apart ==
    /\ \A f \in File : \A p \in Own(f) : L(f, p) \in used
    /\ \A f, g \in File : \A p \in Own(f), q \in Own(g) : L(f, p) = L(g, q) => f = g /\ p = q

IInv ==
    /\ TypeOK
    /\ Intact
    /\ inode \in [File -> InodeType]
    /\ \A f \in File : Shape(inode[f]) /\ (f \notin live => inode[f].size = 0)
    /\ \A f \in File : inode[f].size <= MaxSize[f]
    /\ Apart


(***************************************************************************)
(* What an operation on f may do: leave f with the DiskInode ino, the      *)
(* bitmap u and the entries e, in which only blocks that were free or f's  *)
(* own have changed hands, the places of f are apart, and those that f had *)
(* before are where they were.                                             *)
(***************************************************************************)
Typed(ino, u, e) ==
    ino \in InodeType /\ Shape(ino) /\ u \subseteq DataBlks /\ e \in [DataBlks \X Idx -> Ids]

Confined(f, u, e) ==
    /\ \A a \in DataBlks \X Idx : e[a] # entry[a] => a[1] \notin used \ Locs(f)
    /\ used \ Locs(f) \subseteq u

Placed(f, ino, u, e) ==
    /\ \A p \in PlacesOf(ino.size) : Loc(ino, e, p) \in u /\ Loc(ino, e, p) \notin used \ Locs(f)
    /\ \A p, q \in PlacesOf(ino.size) : Loc(ino, e, p) = Loc(ino, e, q) => p = q
    /\ \A p \in PlacesOf(ino.size) : p \in Own(f) => Loc(ino, e, p) = L(f, p)

Moved(f, ino, u, e) == Typed(ino, u, e) /\ Confined(f, u, e) /\ Placed(f, ino, u, e)

(* Every block that is marked belongs to a place of f, or did not belong   *)
(* to f and was marked before.                                             *)
Accounted(f, ino, u, e) ==
    \A b \in u : b \in used \ Locs(f) \/ \E p \in PlacesOf(ino.size) : b = Loc(ino, e, p)

(* What such a step leaves of the invariant, and of the other files. *)
LEMMA StepApart ==
    ASSUME IInv, NEW f \in File, NEW ino, inode' = [inode EXCEPT ![f] = ino],
           Confined(f, used', entry'), Placed(f, ino, used', entry')
    PROVE  /\ Apart'
           /\ inode'[f] = ino
           /\ \A g \in File \ {f} : inode'[g] = inode[g] /\ \A p \in Own(g) : L(g, p)' = L(g, p)
<1>1. \A g \in File \ {f} : inode'[g] = inode[g]
  BY DEF IInv, TypeOK
<1>2. inode'[f] = ino
  BY DEF IInv, TypeOK
<1>3. \A g \in File : inode[g].size \in Int
  BY GeometryAssumption DEF IInv, InodeType, MaxBlocks
<1>4. ASSUME NEW g \in File \ {f} PROVE \A p \in Own(g) : L(g, p)' = L(g, p) /\ L(g, p) \in used \ Locs(f)
  <2>1. \A p \in Own(g) : L(g, p) \in used \ Locs(f) /\ L(g, p) \in DataBlks
    BY DEF IInv, Apart, Locs, TypeOK
  <2> DEFINE X == [p \in Own(g) |-> L(g, p)]
  <2>2. \A p \in Own(g) : p \in AllPlaces /\ p[1] \in Kinds
    BY PlaceFacts DEF Own, PlacesOf
  <2>3. \A p \in Own(g) : p[1] = "direct" => inode[g].direct[p[2]] = X[p]
    BY DEF L, Loc
  <2>4. \A p \in Own(g) : p[1] = "indirect1" => inode[g].indirect1 = X[p]
    BY DEF L, Loc
  <2>5. \A p \in Own(g) : p[1] = "indirect2" => inode[g].indirect2 = X[p]
    BY DEF L, Loc
  <2>6. ASSUME NEW p \in Own(g), InIndex(p) PROVE entry'[<<X[Holder(p)], Slot(p)>>] = X[p]
    <3>1. Holder(p) \in Own(g) /\ Slot(p) \in Idx
      BY <1>3, <2>2, <2>6, HolderFacts DEF Own
    <3>2. L(g, Holder(p)) \in used \ Locs(f) /\ L(g, Holder(p)) \in DataBlks
      BY <2>1, <3>1
    <3>3. entry'[<<L(g, Holder(p)), Slot(p)>>] = entry[<<L(g, Holder(p)), Slot(p)>>]
      BY <3>1, <3>2 DEF Confined
    <3>4. L(g, p) = entry[<<L(g, Holder(p)), Slot(p)>>]
      BY <2>2, <2>6, LocEntry DEF L
    <3> QED
      BY <3>1, <3>3, <3>4
  <2> HIDE DEF X
  <2>7. \A p \in PlacesOf(inode[g].size) : Loc(inode[g], entry', p) = X[p]
    <3> DEFINE n == inode[g].size
    <3>1. n \in Int /\ Own(g) = PlacesOf(n)
      BY <1>3 DEF Own
    <3> HIDE DEF n
    <3>2. \A p \in PlacesOf(n) : InIndex(p) => entry'[<<X[Holder(p)], Slot(p)>>] = X[p]
      BY <2>6, <3>1
    <3>3. /\ \A p \in PlacesOf(n) : p[1] = "direct" => inode[g].direct[p[2]] = X[p]
          /\ \A p \in PlacesOf(n) : p[1] = "indirect1" => inode[g].indirect1 = X[p]
          /\ \A p \in PlacesOf(n) : p[1] = "indirect2" => inode[g].indirect2 = X[p]
      BY <2>3, <2>4, <2>5, <3>1
    <3>4. Agrees(n, inode[g], entry', X)
      BY <3>2, <3>3 DEF Agrees
    <3>5. \A p \in PlacesOf(n) : Loc(inode[g], entry', p) = X[p]
      BY <3>1, <3>4, LocAgree
    <3> QED
      BY <3>5 DEF n
  <2> QED
    BY <1>1, <2>1, <2>7 DEF L, Own, X
<1>5. \A p \in Own(f)' : L(f, p)' = Loc(ino, entry', p)
  BY <1>2 DEF L
<1>6. Own(f)' = PlacesOf(ino.size) /\ \A g \in File \ {f} : Own(g)' = Own(g)
  BY <1>1, <1>2 DEF Own
<1>7. \A g \in File : \A p \in Own(g)' : L(g, p)' \in used'
  BY <1>4, <1>5, <1>6 DEF Confined, Placed
<1>8. ASSUME NEW g \in File, NEW h \in File, NEW p \in Own(g)', NEW q \in Own(h)', L(g, p)' = L(h, q)'
      PROVE  g = h /\ p = q
  <2>1. CASE g = f /\ h = f
    BY <1>5, <1>6, <1>8, <2>1 DEF Placed
  <2>2. CASE g # f /\ h # f
    BY <1>4, <1>6, <1>8, <2>2 DEF IInv, Apart
  <2>3. CASE (g = f) # (h = f)
    BY <1>4, <1>5, <1>6, <1>8, <2>3 DEF Placed
  <2> QED
    BY <2>1, <2>2, <2>3
<1> QED
  BY <1>1, <1>2, <1>4, <1>7, <1>8 DEF Apart


(* The invariant gives a file its size and pointers, and each of its       *)
(* places a block of the data area.                                        *)
LEMMA FileFacts ==
    ASSUME IInv, NEW f \in File
    PROVE  /\ inode[f] \in InodeType /\ Shape(inode[f])
           /\ inode[f].size \in Nat /\ inode[f].size <= MaxBlocks
           /\ \A p \in Own(f) : p \in AllPlaces /\ L(f, p) \in used /\ L(f, p) \in DataBlks
           /\ \A p, q \in Own(f) : L(f, p) = L(f, q) => p = q
           /\ inode[f].size > D => Place("indirect1", 0) \in Own(f) /\ inode[f].indirect1 # 0
           /\ inode[f].size > D + I => Place("indirect2", 0) \in Own(f) /\ inode[f].indirect2 # 0
<1>1. D \in Nat /\ I \in Nat /\ D > 0 /\ I > 0 /\ I * I \in Nat /\ MaxBlocks \in Nat
  BY GeometryAssumption DEF MaxBlocks
<1>2. inode[f] \in InodeType
  BY DEF IInv
<1>3. inode[f].size \in Nat /\ inode[f].size <= MaxBlocks
  BY <1>1, <1>2 DEF InodeType
<1>4. \A p \in Own(f) : p \in AllPlaces /\ L(f, p) \in used /\ L(f, p) \in DataBlks
  BY DEF IInv, Apart, TypeOK, Own, PlacesOf
<1>5. \A p, q \in Own(f) : L(f, p) = L(f, q) => p = q
  BY DEF IInv, Apart
<1>6. 0 \notin DataBlks
  BY GeometryAssumption DEF DataBlks
<1>7. /\ Place("indirect1", 0) \in AllPlaces /\ From(Place("indirect1", 0)) = D
      /\ Place("indirect2", 0) \in AllPlaces /\ From(Place("indirect2", 0)) = D + I
      /\ L(f, Place("indirect1", 0)) = inode[f].indirect1
      /\ L(f, Place("indirect2", 0)) = inode[f].indirect2
  BY DEF Place, AllPlaces, From, L, Loc
<1>8. inode[f].size > D => Place("indirect1", 0) \in Own(f)
  BY <1>1, <1>3, <1>7 DEF Own, PlacesOf
<1>9. inode[f].size > D + I => Place("indirect2", 0) \in Own(f)
  BY <1>1, <1>3, <1>7 DEF Own, PlacesOf
<1> QED
  BY <1>2, <1>3, <1>4, <1>5, <1>6, <1>7, <1>8, <1>9 DEF IInv

(* A step that moves f keeps the invariant, if the rest of it is in order. *)
LEMMA MoveKeeps ==
    ASSUME IInv, NEW f \in File, NEW ino, inode' = [inode EXCEPT ![f] = ino],
           Moved(f, ino, used', entry'),
           live' \subseteq File, live' \ {f} = live \ {f}, f \notin live' => ino.size = 0,
           ino.size <= MaxSize[f], torn' = torn, clobbered' \subseteq {SuperBlk}
    PROVE  /\ IInv'
           /\ \A g \in File \ {f} : inode'[g] = inode[g] /\ \A p \in Own(g) : L(g, p)' = L(g, p)
           /\ \A p \in Own(f) : p \in Own(f)' => L(f, p)' = L(f, p)
<1>1. Typed(ino, used', entry') /\ Confined(f, used', entry') /\ Placed(f, ino, used', entry')
  BY DEF Moved
<1>2. /\ Apart' /\ inode'[f] = ino
      /\ \A g \in File \ {f} : inode'[g] = inode[g] /\ \A p \in Own(g) : L(g, p)' = L(g, p)
  BY <1>1, StepApart
<1>3. TypeOK'
  <2>1. inode' \in [File -> InodeType]
    BY <1>1 DEF IInv, Typed
  <2>2. torn' = {} /\ clobbered' \subseteq Blks
    BY GeometryAssumption DEF IInv, Intact, SuperBlk, Blks
  <2> QED
    BY <1>1, <2>1, <2>2 DEF TypeOK, Typed
<1>4. \A g \in File : /\ Shape(inode'[g]) /\ (g \notin live' => inode'[g].size = 0)
                       /\ inode'[g].size <= MaxSize[g]
  BY <1>1, <1>2 DEF IInv, Typed
<1>5. IInv'
  <2>1. inode' \in [File -> InodeType] /\ Intact'
    BY <1>1 DEF IInv, Typed, Intact
  <2> QED
    BY <1>2, <1>3, <1>4, <2>1 DEF IInv, Shape
<1>6. \A p \in Own(f) : p \in Own(f)' => L(f, p)' = L(f, p)
  <2>1. Own(f)' = PlacesOf(ino.size)
    BY <1>2 DEF Own
  <2>2. \A p \in PlacesOf(ino.size) : p \in Own(f) => Loc(ino, entry', p) = L(f, p)
    BY <1>1 DEF Placed
  <2>3. \A p : L(f, p)' = Loc(ino, entry', p)
    BY <1>2 DEF L
  <2> QED
    BY <2>1, <2>2, <2>3
<1> QED
  BY <1>2, <1>5, <1>6

(* The places of the live files. *)
LEMMA TakenIs ==
    \A t : t \in AllTaken <=> \E g \in live : \E p \in Own(g) : t = <<g, p>>
<1>1. \A t, g : t \in Taken(g) <=> \E p \in Own(g) : t = <<g, p>>
  BY DEF Taken, Own
<1>2. \A t : t \in AllTaken <=> \E g \in live : t \in Taken(g)
  BY DEF AllTaken
<1> QED
  BY <1>1, <1>2

(* The blocks that are marked and at no place of a live file. *)
Unplaced == {b \in used : \A g \in live : \A p \in Own(g) : b # L(g, p)}

LEMMA LeakedIs == Leaked = Unplaced
<1>1. \A g, p : LocOf(<<g, p>>) = L(g, p)
  BY DEF LocOf, L
<1>2. ASSUME NEW t \in AllTaken PROVE \E g \in live : \E p \in Own(g) : LocOf(t) = L(g, p)
  BY <1>1, TakenIs
<1>3. ASSUME NEW g \in live, NEW p \in Own(g) PROVE L(g, p) \in {LocOf(t) : t \in AllTaken}
  <2>1. <<g, p>> \in AllTaken
    BY TakenIs
  <2> QED
    BY <1>1, <2>1
<1> QED
  BY <1>2, <1>3 DEF Leaked, Unplaced

(* A step that moves f and accounts for the blocks of f leaks none. *)
LEMMA MoveLeaksNone ==
    ASSUME IInv, NEW f \in File, NEW ino, inode'[f] = ino,
           Accounted(f, ino, used', entry'),
           live \ {f} \subseteq live', ino.size = 0 \/ f \in live',
           \A g \in File \ {f} : inode'[g] = inode[g] /\ \A p \in Own(g) : L(g, p)' = L(g, p)
    PROVE  Leaked' \subseteq Leaked
<1> SUFFICES ASSUME NEW b \in Leaked' PROVE b \in Leaked
  OBVIOUS
<1>1. (Leaked = Unplaced)'
  BY LeakedIs, PTL
<1>2. b \in used' /\ \A g \in live' : \A p \in Own(g)' : b # L(g, p)'
  BY <1>1 DEF Unplaced
<1>3. Own(f)' = PlacesOf(ino.size) /\ \A p : L(f, p)' = Loc(ino, entry', p)
  BY DEF Own, L
<1>4. ~\E p \in PlacesOf(ino.size) : b = Loc(ino, entry', p)
  <2>1. CASE f \in live'
    BY <1>2, <1>3, <2>1
  <2>2. CASE ino.size = 0
    BY <2>2, PlacesOfEmpty
  <2> QED
    BY <2>1, <2>2
<1>5. b \in used /\ b \notin Locs(f)
  BY <1>2, <1>4 DEF Accounted
<1>6. ASSUME NEW g \in live, NEW p \in Own(g) PROVE b # L(g, p)
  <2>1. CASE g = f
    BY <1>5, <2>1 DEF Locs
  <2>2. CASE g # f
    <3>1. g \in File \ {f} /\ g \in live'
      BY <2>2 DEF IInv, TypeOK
    <3>2. Own(g)' = Own(g)
      BY <3>1 DEF Own
    <3> QED
      BY <1>2, <3>1, <3>2
  <2> QED
    BY <2>1, <2>2
<1> QED
  BY <1>5, <1>6, LeakedIs DEF Unplaced


-----------------------------------------------------------------------------
(***************************************************************************)
(* The operations move a file.                                             *)
(***************************************************************************)
(* So does one that changes nothing. *)
LEMMA StayMoves ==
    ASSUME IInv, NEW f \in File
    PROVE  Moved(f, inode[f], used, entry) /\ Accounted(f, inode[f], used, entry)
<1>1. Typed(inode[f], used, entry)
  BY FileFacts DEF Typed, IInv, TypeOK
<1>2. Confined(f, used, entry)
  BY DEF Confined
<1>3. Placed(f, inode[f], used, entry)
  BY FileFacts DEF Placed, Own, L, Locs
<1> QED
  BY <1>1, <1>2, <1>3 DEF Moved, Accounted, Locs, Own, L

(* DiskInode() in place of an inode without blocks. *)
LEMMA FreshMoves ==
    ASSUME IInv, NEW f \in File, NEW u, NEW e, u \subseteq DataBlks, e \in [DataBlks \X Idx -> Ids],
           Confined(f, u, e)
    PROVE  Moved(f, NewInode, u, e)
<1>1. NewInode \in InodeType /\ Shape(NewInode)
  BY GeometryAssumption DEF NewInode, InodeType, Shape, MaxBlocks, Ids, Blks
<1>2. PlacesOf(NewInode.size) = {}
  BY PlacesOfEmpty DEF NewInode
<1> QED
  BY <1>1, <1>2 DEF Moved, Typed, Placed

(* File data over a data block of the file. *)
LEMMA OverwriteMoves ==
    ASSUME IInv, NEW f \in File, NEW ino, NEW u, NEW e, Moved(f, ino, u, e),
           NEW i \in Nat, i < ino.size
    PROVE  LET over == Overwritten(e, block_id(ino, e, i))
           IN  Moved(f, ino, u, over) /\ (Accounted(f, ino, u, e) => Accounted(f, ino, u, over))
<1>1. Typed(ino, u, e) /\ Confined(f, u, e) /\ Placed(f, ino, u, e)
  BY DEF Moved
<1>2. PICK n \in Int : n = ino.size
  BY <1>1 DEF Typed, InodeType
<1>3. i < n /\ n <= MaxBlocks
  BY <1>1, <1>2, GeometryAssumption DEF Typed, InodeType, MaxBlocks
<1>4. PICK X : X = [p \in PlacesOf(n) |-> Loc(ino, e, p)]
  OBVIOUS
<1>5. \A p \in PlacesOf(n) : p \in AllPlaces /\ X[p] = Loc(ino, e, p) /\ X[p] \in u /\ X[p] \in DataBlks
  BY <1>1, <1>2, <1>4 DEF Typed, Placed, PlacesOf
<1>6. \A p, q \in PlacesOf(n) : X[p] = X[q] => p = q
  BY <1>1, <1>2, <1>5 DEF Placed
<1>7. DataPlace(i) \in PlacesOf(n) /\ DataPlace(i)[1] \notin {"indirect1", "indirect2", "leaf"}
  BY <1>3, DataPlaceFacts
<1>8. PICK b : b = block_id(ino, e, i)
  OBVIOUS
<1>9. b = X[DataPlace(i)]
  <2>1. \A p \in PlacesOf(n) : Loc(ino, e, p) \in DataBlks
    BY <1>5
  <2>2. block_id(ino, e, i) = Loc(ino, e, DataPlace(i))
    BY <1>3, <2>1, BlockId
  <2> QED
    BY <1>5, <1>7, <1>8, <2>2
<1>10. PICK over : over = Overwritten(e, b)
  OBVIOUS
<1>11. /\ over \in [DataBlks \X Idx -> Ids]
       /\ \A a \in DataBlks \X Idx : over[a] = IF a[1] = b THEN Junk ELSE e[a]
  BY <1>1, <1>10 DEF Overwritten, Typed, Ids
<1>12. Agrees(n, ino, over, X)
  <2>1. ASSUME NEW p \in PlacesOf(n), InIndex(p) PROVE over[<<X[Holder(p)], Slot(p)>>] = X[p]
    <3>1. Holder(p) \in PlacesOf(n) /\ Slot(p) \in Idx /\ Holder(p)[1] \in {"indirect1", "indirect2", "leaf"}
      BY <1>5, <2>1, HolderFacts
    <3>2. X[Holder(p)] # b /\ X[Holder(p)] \in DataBlks
      BY <1>5, <1>6, <1>7, <1>9, <3>1
    <3>3. over[<<X[Holder(p)], Slot(p)>>] = e[<<X[Holder(p)], Slot(p)>>]
      BY <1>11, <3>1, <3>2
    <3>4. Loc(ino, e, p) = e[<<Loc(ino, e, Holder(p)), Slot(p)>>]
      BY <1>5, <2>1, LocEntry
    <3> QED
      BY <1>5, <3>1, <3>3, <3>4
  <2>2. /\ \A p \in PlacesOf(n) : p[1] = "direct" => ino.direct[p[2]] = X[p]
        /\ \A p \in PlacesOf(n) : p[1] = "indirect1" => ino.indirect1 = X[p]
        /\ \A p \in PlacesOf(n) : p[1] = "indirect2" => ino.indirect2 = X[p]
    BY <1>5 DEF Loc
  <2> QED
    BY <2>1, <2>2 DEF Agrees
<1>13. \A p \in PlacesOf(n) : Loc(ino, over, p) = Loc(ino, e, p)
  <2>1. \A p \in PlacesOf(n) : Loc(ino, over, p) = X[p]
    BY <1>12, LocAgree
  <2> QED
    BY <1>5, <2>1
<1>14. b \notin used \ Locs(f)
  BY <1>1, <1>2, <1>5, <1>7, <1>9 DEF Placed
<1>15. Confined(f, u, over)
  BY <1>1, <1>11, <1>14 DEF Confined
<1>16. Placed(f, ino, u, over)
  BY <1>1, <1>2, <1>13 DEF Placed
<1>17. Typed(ino, u, over)
  BY <1>1, <1>11 DEF Typed
<1>18. Accounted(f, ino, u, e) => Accounted(f, ino, u, over)
  BY <1>2, <1>13 DEF Accounted
<1> QED
  BY <1>8, <1>10, <1>15, <1>16, <1>17, <1>18 DEF Moved

(* decrease(): the blocks of the places given up are freed, the others     *)
(* stay where they are.  The block it clobbers is one before the data      *)
(* area, and there is none unless blocks behind indirect2 stay.            *)
LEMMA ShrinkMoves ==
    ASSUME IInv, NEW f \in File, NEW n \in Nat, n <= inode[f].size
    PROVE  LET r == Decrease(inode[f], inode[f].size, n)
           IN  /\ Confined(f, r.used, r.entry)
               /\ r.used \subseteq DataBlks /\ r.entry \in [DataBlks \X Idx -> Ids]
               /\ r.inode.size = n
               /\ Moved(f, r.inode, r.used, r.entry)
               /\ Accounted(f, r.inode, r.used, r.entry)
               /\ r.stray \subseteq Blks /\ (n <= D + I => r.stray = {})
<1>1. D \in Nat /\ I \in Nat /\ D > 0 /\ I > 0 /\ I * I \in Nat /\ Start \in Nat /\ NData \in Nat /\ I <= Start
      /\ MaxBlocks = D + I + I * I
  BY GeometryAssumption DEF MaxBlocks
<1>2. PICK ino, old : ino = inode[f] /\ old = inode[f].size
  OBVIOUS
<1>3. PICK r : r = Decrease(ino, old, n)
  OBVIOUS
<1>4. ino \in InodeType /\ Shape(ino) /\ old \in Nat /\ old <= MaxBlocks /\ n <= old
  BY <1>2, FileFacts
<1>5. PlacesOf(n) \subseteq PlacesOf(old) /\ Own(f) = PlacesOf(old)
  BY <1>2, <1>4, PlacesGrow DEF Own
<1>6. PICK gone, freed : gone = PlacesOf(old) \ PlacesOf(n) /\ freed = {Loc(ino, entry, p) : p \in gone}
  OBVIOUS
<1>0. gone = Released(ino, old, n)
  <2>1. /\ old <= D => ino.indirect1 = 0
        /\ old > D => ino.indirect1 # 0
        /\ old <= D + I => ino.indirect2 = 0
        /\ old > D + I => ino.indirect2 # 0
    BY <1>2, <1>4, FileFacts DEF Shape
  <2> QED
    BY <1>4, <1>6, <2>1, ReleasedExact
<1>7. /\ r.used = used \ freed /\ r.inode.size = n
      /\ r.inode.direct = [i \in 0 .. D - 1 |-> IF Place("direct", i) \in gone THEN Bad ELSE ino.direct[i]]
      /\ r.inode.indirect1 = IF n <= D THEN 0 ELSE ino.indirect1
      /\ r.inode.indirect2 = IF BlkLimit(n) < 0 THEN 0 ELSE ino.indirect2
      /\ r.inode = [size |-> n, direct |-> r.inode.direct,
                    indirect1 |-> r.inode.indirect1, indirect2 |-> r.inode.indirect2]
  BY <1>0, <1>3, <1>6 DEF Decrease
<1>8. /\ DOMAIN r.entry = DOMAIN entry
      /\ \A a \in DOMAIN entry : a[1] \in freed => r.entry[a] = Junk
      /\ \A a \in DOMAIN entry : r.entry[a] # entry[a] =>
           \/ a[1] \in freed
           \/ n > D /\ a[1] = ino.indirect1 /\ Place("entry1", a[2]) \in gone
      /\ \A a \in DOMAIN entry : r.entry[a] \in {Junk, Bad, entry[a]}
      /\ r.entry = [a \in DOMAIN entry |-> r.entry[a]]
  BY <1>0, <1>3, <1>6 DEF Decrease
<1>9. \A p \in PlacesOf(old) : p \in AllPlaces /\ Loc(ino, entry, p) \in used /\ Loc(ino, entry, p) \in DataBlks
  BY <1>2, <1>5, FileFacts DEF L
<1>10. \A p, q \in PlacesOf(old) : Loc(ino, entry, p) = Loc(ino, entry, q) => p = q
  BY <1>2, <1>5, FileFacts DEF L
<1>11. Locs(f) = {Loc(ino, entry, p) : p \in PlacesOf(old)} /\ freed \subseteq Locs(f)
  BY <1>2, <1>5, <1>6 DEF Locs, L
<1>12. n > D => Place("indirect1", 0) \in PlacesOf(n) /\ Loc(ino, entry, Place("indirect1", 0)) = ino.indirect1
  BY <1>1 DEF Place, PlacesOf, AllPlaces, From, Loc
<1>13. BlkLimit(n) \in Int /\ (BlkLimit(n) < 0 <=> n <= D + I)
  <2>1. CASE n - D - I - 1 < 0
    BY <1>1, <2>1 DEF BlkLimit
  <2>2. CASE n - D - I - 1 >= 0
    <3>1. n - D - I - 1 \in Nat
      BY <1>1, <2>2
    <3>2. (n - D - I - 1) \div I \in Nat
      BY <3>1, Digits
    <3> QED
      BY <1>1, <2>2, <3>2 DEF BlkLimit
  <2> QED
    BY <1>1, <2>1, <2>2
<1>14. Confined(f, r.used, r.entry)
  <2>1. \A a \in DOMAIN entry : r.entry[a] # entry[a] => a[1] \in Locs(f)
    BY <1>5, <1>8, <1>11, <1>12
  <2>2. DOMAIN entry = DataBlks \X Idx
    BY DEF IInv, TypeOK
  <2> QED
    BY <1>7, <1>11, <2>1, <2>2 DEF Confined
<1>15. r.used \subseteq DataBlks /\ r.entry \in [DataBlks \X Idx -> Ids]
  <2>1. used \subseteq DataBlks /\ entry \in [DataBlks \X Idx -> Ids]
    BY DEF IInv, TypeOK
  <2> QED
    BY <1>7, <1>8, <2>1 DEF Ids
<1>16. PICK X : X = [p \in PlacesOf(n) |-> Loc(ino, entry, p)]
  OBVIOUS
<1>17. \A p \in PlacesOf(n) : p \in AllPlaces /\ X[p] = Loc(ino, entry, p) /\ X[p] \in DataBlks /\ X[p] \notin freed
  BY <1>5, <1>6, <1>9, <1>10, <1>16
<1>18. Agrees(n, r.inode, r.entry, X)
  <2>1. \A p \in PlacesOf(n) : p[1] = "direct" => r.inode.direct[p[2]] = X[p]
    <3> SUFFICES ASSUME NEW p \in PlacesOf(n), p[1] = "direct" PROVE r.inode.direct[p[2]] = X[p]
      OBVIOUS
    <3>1. p = Place("direct", p[2]) /\ p[2] \in 0 .. D - 1 /\ p \notin gone
      BY <1>6, <1>17, PlaceFacts DEF Place
    <3> QED
      BY <1>7, <1>17, <3>1 DEF Loc
  <2>2. \A p \in PlacesOf(n) : p[1] = "indirect1" => r.inode.indirect1 = X[p]
    <3> SUFFICES ASSUME NEW p \in PlacesOf(n), p[1] = "indirect1" PROVE r.inode.indirect1 = X[p]
      OBVIOUS
    <3>1. ~(n <= D)
      BY <1>1 DEF PlacesOf, From
    <3>2. Loc(ino, entry, p) = ino.indirect1
      BY DEF Loc
    <3> QED
      BY <1>7, <1>17, <3>1, <3>2
  <2>3. \A p \in PlacesOf(n) : p[1] = "indirect2" => r.inode.indirect2 = X[p]
    <3> SUFFICES ASSUME NEW p \in PlacesOf(n), p[1] = "indirect2" PROVE r.inode.indirect2 = X[p]
      OBVIOUS
    <3>1. ~(n <= D + I)
      BY <1>1 DEF PlacesOf, From
    <3>2. Loc(ino, entry, p) = ino.indirect2
      BY DEF Loc
    <3> QED
      BY <1>7, <1>13, <1>17, <3>1, <3>2
  <2>4. ASSUME NEW p \in PlacesOf(n), InIndex(p) PROVE r.entry[<<X[Holder(p)], Slot(p)>>] = X[p]
    <3>1. Holder(p) \in PlacesOf(n) /\ Slot(p) \in Idx
      BY <1>17, <2>4, HolderFacts
    <3> DEFINE a == <<X[Holder(p)], Slot(p)>>
    <3>2. a \in DOMAIN entry /\ a[1] \notin freed
      BY <1>17, <3>1 DEF IInv, TypeOK
    <3>3. ASSUME n > D, a[1] = ino.indirect1 PROVE Place("entry1", a[2]) \notin gone
      <4>1. Holder(p) = Place("indirect1", 0)
        BY <1>5, <1>10, <1>12, <1>17, <3>1, <3>3
      <4>2. p[1] = "entry1"
        BY <2>4, <4>1 DEF InIndex, Holder, Place
      <4>3. p = Place("entry1", a[2])
        BY <1>17, <4>2, PlaceFacts DEF Slot, Place
      <4> QED
        BY <1>6, <4>3
    <3>4. r.entry[a] = entry[a]
      BY <1>8, <3>2, <3>3
    <3>5. Loc(ino, entry, p) = entry[<<Loc(ino, entry, Holder(p)), Slot(p)>>]
      BY <1>17, <2>4, LocEntry
    <3> QED
      BY <1>17, <3>1, <3>4, <3>5
  <2> QED
    BY <2>1, <2>2, <2>3, <2>4 DEF Agrees
<1>19. \A p \in PlacesOf(n) : Loc(r.inode, r.entry, p) = X[p]
  BY <1>18, LocAgree
<1>20. Placed(f, r.inode, r.used, r.entry)
  BY <1>2, <1>5, <1>7, <1>9, <1>10, <1>11, <1>17, <1>19 DEF Placed, L
<1>21. r.inode \in InodeType /\ Shape(r.inode)
  <2>1. ino.direct \in [0 .. D - 1 -> Ids] /\ ino.indirect1 \in Ids /\ ino.indirect2 \in Ids
    BY <1>4 DEF InodeType
  <2>2. 0 \in Ids /\ Bad \in Ids
    BY <1>1 DEF Ids, Blks
  <2>3. n \in 0 .. MaxBlocks
    BY <1>1, <1>4
  <2>4. r.inode.direct \in [0 .. D - 1 -> Ids] /\ r.inode.indirect1 \in Ids /\ r.inode.indirect2 \in Ids
    BY <1>7, <2>1, <2>2
  <2> QED
    BY <1>1, <1>7, <1>13, <2>3, <2>4 DEF InodeType, Shape
<1>22. Accounted(f, r.inode, r.used, r.entry)
  <2>1. \A b \in used : b \notin freed => b \notin Locs(f) \/ \E p \in PlacesOf(n) : b = Loc(ino, entry, p)
    BY <1>6, <1>11
  <2> QED
    BY <1>7, <1>17, <1>19, <2>1 DEF Accounted
<1>23. r.stray \subseteq {BlkLimit(n)} /\ (BlkLimit(n) < 0 => r.stray = {})
  BY <1>3, <1>13 DEF Decrease
<1>24. r.stray \subseteq Blks
  <2>1. CASE n <= D + I
    BY <1>13, <1>23, <2>1
  <2>2. CASE n > D + I
    <3> DEFINE m == n - D - I - 1
    <3>1. m \in Nat /\ m < I * I
      BY <1>1, <1>4, <2>2
    <3>2. BlkLimit(n) = m \div I
      BY <1>1, <3>1 DEF BlkLimit
    <3> HIDE DEF m
    <3>3. m \div I \in Nat /\ m \div I < I
      BY <3>1, Digits
    <3>4. BlkLimit(n) \in Blks
      BY <1>1, <3>2, <3>3 DEF Blks
    <3> QED
      BY <1>23, <3>4
  <2> QED
    BY <1>1, <2>1, <2>2
<1> QED
  BY <1>2, <1>3, <1>7, <1>14, <1>15, <1>20, <1>21, <1>22, <1>13, <1>23, <1>24 DEF Moved, Typed

(* increase(): the file keeps its blocks and gets free ones.  If it fails, *)
(* what it took stays marked, and the DiskInode that is not saved keeps    *)
(* its map: the index entries that were written are none of its own.       *)
LEMMA GrowMoves ==
    ASSUME IInv, NEW f \in File, NEW n \in Nat, inode[f].size < n, n <= MaxBlocks
    PROVE  LET r == Increase(inode[f], inode[f].size, n)
           IN  /\ Moved(f, inode[f], r.used, r.entry)
               /\ r.inode \in InodeType
               /\ r.ok => /\ Moved(f, r.inode, r.used, r.entry)
                          /\ Accounted(f, r.inode, r.used, r.entry)
                          /\ r.inode.size = n
<1>1. D \in Nat /\ I \in Nat /\ D > 0 /\ I > 0 /\ I * I \in Nat /\ MaxBlocks \in Nat
  BY GeometryAssumption DEF MaxBlocks
<1>2. PICK ino, old : ino = inode[f] /\ old = inode[f].size
  OBVIOUS
<1>3. PICK r : r = Increase(ino, old, n)
  OBVIOUS
<1>4. ino \in InodeType /\ Shape(ino) /\ old \in Nat /\ old < n /\ old = ino.size
  BY <1>2, FileFacts
<1>5. PlacesOf(old) \subseteq PlacesOf(n) /\ Own(f) = PlacesOf(old)
  BY <1>2, <1>4, PlacesGrow DEF Own
<1>6. PICK W : W = Needed(ino, old, n)
  OBVIOUS
<1>7. W = PlacesOf(n) \ PlacesOf(old) /\ W \subseteq AllPlaces
  <2>1. /\ old <= D => ino.indirect1 = 0
        /\ old > D => ino.indirect1 # 0
        /\ old <= D + I => ino.indirect2 = 0
        /\ old > D + I => ino.indirect2 # 0
    BY <1>2, <1>4, FileFacts DEF Shape
  <2>2. Needed(ino, old, n) = PlacesOf(n) \ PlacesOf(old)
    BY <1>4, <2>1, NeededExact
  <2> QED
    BY <1>6, <2>2 DEF PlacesOf
<1>8. used \subseteq DataBlks /\ entry \in [DataBlks \X Idx -> Ids] /\ DataBlks \subseteq Ids
  BY GeometryAssumption DEF IInv, TypeOK, Ids, Blks, DataBlks
<1>9. PICK nb : nb = NewBlks(W)
  OBVIOUS
<1>10. /\ DOMAIN nb \subseteq W
       /\ \A p \in DOMAIN nb : nb[p] \in DataBlks \ used
       /\ \A p, q \in DOMAIN nb : nb[p] = nb[q] => p = q
       /\ \A p \in DOMAIN nb, q \in W : Order(q) < Order(p) => q \in DOMAIN nb
       /\ Cardinality(W) <= NFree => DOMAIN nb = W /\ Lacking(W) = {}
  <2>1. HandedOut(W, nb)
    BY <1>7, <1>8, <1>9, NewBlksFacts
  <2> QED
    BY <2>1 DEF HandedOut
<1>11. PICK G : G = PlacesOf(old) \cup DOMAIN nb
  OBVIOUS
<1>12. PICK X : X = [p \in AllPlaces |-> At(ino, nb, p)]
  OBVIOUS
<1>13. /\ \A p \in DOMAIN nb : X[p] = nb[p] /\ p \notin PlacesOf(old)
       /\ \A p \in AllPlaces : p \notin DOMAIN nb => X[p] = Loc(ino, entry, p)
       /\ \A p \in PlacesOf(old) : X[p] = L(f, p) /\ X[p] \in used /\ X[p] \in DataBlks
       /\ \A p \in G : p \in PlacesOf(n) /\ p \in AllPlaces
  BY <1>2, <1>5, <1>7, <1>10, <1>11, <1>12, FileFacts DEF At, L
<1>14. \A p \in G : X[p] \in DataBlks
  BY <1>10, <1>11, <1>13
<1>15. \A p, q \in G : X[p] = X[q] => p = q
  <2> SUFFICES ASSUME NEW p \in G, NEW q \in G, X[p] = X[q] PROVE p = q
    OBVIOUS
  <2>1. CASE p \in DOMAIN nb /\ q \in DOMAIN nb
    BY <1>10, <1>13, <2>1
  <2>2. CASE p \in PlacesOf(old) /\ q \in PlacesOf(old)
    BY <1>5, <1>13, <2>2, FileFacts
  <2>3. CASE (p \in DOMAIN nb /\ q \in PlacesOf(old)) \/ (p \in PlacesOf(old) /\ q \in DOMAIN nb)
    BY <1>10, <1>13, <2>3
  <2> QED
    BY <1>11, <2>1, <2>2, <2>3
<1>16. ASSUME NEW p \in G, InIndex(p) PROVE Holder(p) \in G /\ Slot(p) \in Idx
  <2>1. Holder(p) \in PlacesOf(n) /\ Slot(p) \in Idx /\ Order(Holder(p)) < Order(p)
    BY <1>13, <1>16, HolderFacts
  <2>2. CASE p \in PlacesOf(old)
    BY <1>4, <1>11, <1>13, <1>16, <2>1, <2>2, HolderFacts
  <2>3. CASE p \in DOMAIN nb
    BY <1>7, <1>10, <1>11, <2>1, <2>3
  <2> QED
    BY <1>11, <2>1, <2>2, <2>3
<1>17. PICK addr : addr = [p \in G |-> <<X[Holder(p)], Slot(p)>>]
  OBVIOUS
<1>18. \A p \in G : InIndex(p) => addr[p] = <<X[Holder(p)], Slot(p)>> /\ addr[p] \in DataBlks \X Idx
  BY <1>14, <1>16, <1>17
<1>19. \A p, q \in G : InIndex(p) /\ InIndex(q) /\ addr[p] = addr[q] => p = q
  <2> SUFFICES ASSUME NEW p \in G, NEW q \in G, InIndex(p), InIndex(q), addr[p] = addr[q] PROVE p = q
    OBVIOUS
  <2>1. X[Holder(p)] = X[Holder(q)] /\ Slot(p) = Slot(q)
    BY <1>18
  <2>2. Holder(p) = Holder(q)
    BY <1>15, <1>16, <2>1
  <2> QED
    BY <1>13, <2>1, <2>2, HolderFacts
<1>20. PICK S : S = Written(W, nb)
  OBVIOUS
<1>21. /\ S \subseteq DOMAIN nb /\ S \subseteq G /\ \A p \in S : InIndex(p)
       /\ Lacking(W) = {} => \A p \in DOMAIN nb : InIndex(p) => p \in S
  BY <1>11, <1>20 DEF Written, InIndex
<1>22. \A p \in S : Address(ino, nb, p) = addr[p]
  <2> SUFFICES ASSUME NEW p \in S PROVE Address(ino, nb, p) = addr[p]
    OBVIOUS
  <2>1. Holder(p) \in AllPlaces
    BY <1>13, <1>16, <1>21
  <2> QED
    BY <1>12, <1>18, <1>21, <2>1 DEF Address
<1>23. /\ DOMAIN r.entry = DataBlks \X Idx
       /\ r.entry = [a \in DataBlks \X Idx |-> r.entry[a]]
       /\ \A a \in DataBlks \X Idx : (\A p \in S : addr[p] # a) => r.entry[a] = entry[a]
       /\ \A p \in S : r.entry[addr[p]] = nb[p]
  <2>1. r.entry = [a \in DOMAIN entry |->
                     IF \E p \in S : [q \in S |-> Address(ino, nb, q)][p] = a
                       THEN nb[CHOOSE p \in S : [q \in S |-> Address(ino, nb, q)][p] = a] ELSE entry[a]]
    BY <1>3, <1>6, <1>9, <1>20 DEF Increase
  <2>2. \A p \in S : [q \in S |-> Address(ino, nb, q)][p] = addr[p]
    BY <1>22
  <2>3. DOMAIN entry = DataBlks \X Idx
    BY <1>8
  <2>4. \A a \in DataBlks \X Idx : (\A p \in S : addr[p] # a) => r.entry[a] = entry[a]
    BY <2>1, <2>2, <2>3
  <2>5. ASSUME NEW p \in S PROVE r.entry[addr[p]] = nb[p]
    <3>1. addr[p] \in DataBlks \X Idx
      BY <1>18, <1>21
    <3> DEFINE c == CHOOSE q \in S : [s \in S |-> Address(ino, nb, s)][q] = addr[p]
    <3>2. r.entry[addr[p]] = nb[c]
      BY <2>1, <2>2, <2>3, <3>1
    <3>3. c \in S /\ [s \in S |-> Address(ino, nb, s)][c] = addr[p]
      BY <2>2
    <3> HIDE DEF c
    <3>4. c = p
      BY <1>19, <1>21, <2>2, <3>3
    <3> QED
      BY <3>2, <3>4
  <2> QED
    BY <2>1, <2>3, <2>4, <2>5
<1>24. r.entry \in [DataBlks \X Idx -> Ids]
  <2> SUFFICES ASSUME NEW a \in DataBlks \X Idx PROVE r.entry[a] \in Ids
    BY <1>23
  <2>1. CASE \A p \in S : addr[p] # a
    BY <1>8, <1>23, <2>1
  <2>2. CASE \E p \in S : addr[p] = a
    <3>1. PICK p \in S : addr[p] = a
      BY <2>2
    <3>2. r.entry[a] = nb[p] /\ nb[p] \in DataBlks
      BY <1>10, <1>21, <1>23, <3>1
    <3> QED
      BY <1>8, <3>2
  <2> QED
    BY <2>1, <2>2
<1>25. r.used = used \cup {nb[p] : p \in DOMAIN nb} /\ r.used \subseteq DataBlks
  <2>1. r.used = used \cup {nb[p] : p \in DOMAIN nb}
    BY <1>3, <1>6, <1>9 DEF Increase
  <2> QED
    BY <1>8, <1>10, <2>1
<1>26. Confined(f, r.used, r.entry)
  <2>1. \A p \in G : X[p] \notin used \ Locs(f)
    BY <1>5, <1>10, <1>11, <1>13 DEF Locs
  <2>2. ASSUME NEW a \in DataBlks \X Idx, r.entry[a] # entry[a] PROVE a[1] \notin used \ Locs(f)
    <3>1. PICK p \in S : addr[p] = a
      BY <1>23, <2>2
    <3> QED
      BY <1>16, <1>18, <1>21, <2>1, <3>1
  <2> QED
    BY <1>25, <2>2 DEF Confined
<1>27. \A p \in PlacesOf(old) : InIndex(p) => r.entry[addr[p]] = X[p]
  <2> SUFFICES ASSUME NEW p \in PlacesOf(old), InIndex(p) PROVE r.entry[addr[p]] = X[p]
    OBVIOUS
  <2>1. p \in G /\ addr[p] \in DataBlks \X Idx /\ Holder(p) \in PlacesOf(old)
    BY <1>4, <1>11, <1>13, <1>18, HolderFacts
  <2>2. \A q \in S : addr[q] # addr[p]
    BY <1>13, <1>19, <1>21, <2>1
  <2>3. r.entry[addr[p]] = entry[addr[p]]
    BY <1>23, <2>1, <2>2
  <2>4. Loc(ino, entry, p) = entry[<<Loc(ino, entry, Holder(p)), Slot(p)>>]
    BY <1>13, <2>1, LocEntry
  <2> QED
    BY <1>2, <1>13, <1>18, <2>1, <2>3, <2>4 DEF L
<1>28. Moved(f, ino, r.used, r.entry)
  <2>1. Agrees(old, ino, r.entry, X)
    <3>1. \A p \in PlacesOf(old) : InIndex(p) => r.entry[<<X[Holder(p)], Slot(p)>>] = X[p]
      BY <1>11, <1>18, <1>27
    <3>2. /\ \A p \in PlacesOf(old) : p[1] = "direct" => ino.direct[p[2]] = X[p]
          /\ \A p \in PlacesOf(old) : p[1] = "indirect1" => ino.indirect1 = X[p]
          /\ \A p \in PlacesOf(old) : p[1] = "indirect2" => ino.indirect2 = X[p]
      BY <1>2, <1>13 DEF L, Loc
    <3> QED
      BY <3>1, <3>2 DEF Agrees
  <2>2. \A p \in PlacesOf(old) : Loc(ino, r.entry, p) = X[p]
    BY <1>4, <2>1, LocAgree
  <2>3. Placed(f, ino, r.used, r.entry)
    <3>1. \A p \in PlacesOf(old) : X[p] \in r.used /\ X[p] \in Locs(f)
      BY <1>5, <1>13, <1>25 DEF Locs
    <3> QED
      BY <1>4, <1>11, <1>13, <1>15, <2>2, <3>1 DEF Placed
  <2> QED
    BY <1>4, <1>24, <1>25, <1>26, <2>3 DEF Moved, Typed
<1>30. r.inode \in InodeType
  <2>1. /\ \A i \in 0 .. D - 1 : Place("direct", i) \in AllPlaces
        /\ Place("indirect1", 0) \in AllPlaces /\ Place("indirect2", 0) \in AllPlaces
    BY DEF Place, AllPlaces
  <2>2. \A p \in AllPlaces : ~InIndex(p) => X[p] \in Ids
    <3> SUFFICES ASSUME NEW p \in AllPlaces, ~InIndex(p) PROVE X[p] \in Ids
      OBVIOUS
    <3>1. CASE p \in DOMAIN nb
      BY <1>8, <1>10, <1>13, <3>1
    <3>2. CASE p \notin DOMAIN nb
      <4>1. p[1] \in {"direct", "indirect1", "indirect2"} /\ (p[1] = "direct" => p[2] \in 0 .. D - 1)
        BY PlaceFacts DEF InIndex, Kinds
      <4>2. X[p] = Loc(ino, entry, p)
        BY <1>13, <3>2
      <4>3. /\ \A i \in 0 .. D - 1 : ino.direct[i] \in Ids
            /\ ino.indirect1 \in Ids /\ ino.indirect2 \in Ids
        BY <1>4 DEF InodeType
      <4> QED
        BY <4>1, <4>2, <4>3 DEF Loc
    <3> QED
      BY <3>1, <3>2
  <2>3. /\ r.inode = [size |-> n, direct |-> r.inode.direct,
                      indirect1 |-> r.inode.indirect1, indirect2 |-> r.inode.indirect2]
        /\ r.inode.direct = [i \in 0 .. D - 1 |-> At(ino, nb, Place("direct", i))]
        /\ r.inode.indirect1 \in {Bad, At(ino, nb, Place("indirect1", 0))}
        /\ r.inode.indirect2 \in {Bad, At(ino, nb, Place("indirect2", 0))}
    BY <1>3, <1>6, <1>9 DEF Increase
  <2>4. /\ \A i \in 0 .. D - 1 : At(ino, nb, Place("direct", i)) \in Ids
        /\ At(ino, nb, Place("indirect1", 0)) \in Ids /\ At(ino, nb, Place("indirect2", 0)) \in Ids
    BY <1>12, <2>1, <2>2 DEF InIndex, Place
  <2>5. Bad \in Ids /\ n \in 0 .. MaxBlocks
    BY <1>1 DEF Ids
  <2> QED
    BY <2>3, <2>4, <2>5 DEF InodeType
<1>29. ASSUME r.ok PROVE Moved(f, r.inode, r.used, r.entry) /\ Accounted(f, r.inode, r.used, r.entry) /\ r.inode.size = n
  <2>1. DOMAIN nb = W /\ Lacking(W) = {} /\ G = PlacesOf(n)
    <3>1. r.ok = (Cardinality(W) <= NFree)
      BY <1>3, <1>6 DEF Increase
    <3> QED
      BY <1>5, <1>7, <1>10, <1>11, <1>29, <3>1
  <2>2. /\ r.inode = [size |-> n, direct |-> r.inode.direct,
                      indirect1 |-> r.inode.indirect1, indirect2 |-> r.inode.indirect2]
        /\ r.inode.size = n
        /\ r.inode.direct = [i \in 0 .. D - 1 |-> At(ino, nb, Place("direct", i))]
        /\ r.inode.indirect1 = At(ino, nb, Place("indirect1", 0))
        /\ r.inode.indirect2 = At(ino, nb, Place("indirect2", 0))
    BY <1>3, <1>6, <1>9, <2>1 DEF Increase
  <2>3. /\ \A i \in 0 .. D - 1 : Place("direct", i) \in AllPlaces
        /\ Place("indirect1", 0) \in AllPlaces /\ Place("indirect2", 0) \in AllPlaces
    BY DEF Place, AllPlaces
  <2>4. /\ \A i \in 0 .. D - 1 : r.inode.direct[i] = X[Place("direct", i)]
        /\ r.inode.indirect1 = X[Place("indirect1", 0)]
        /\ r.inode.indirect2 = X[Place("indirect2", 0)]
    BY <1>12, <2>2, <2>3
  <2>5. Agrees(n, r.inode, r.entry, X)
    <3>1. \A p \in PlacesOf(n) : InIndex(p) => r.entry[<<X[Holder(p)], Slot(p)>>] = X[p]
      BY <1>11, <1>13, <1>18, <1>21, <1>23, <1>27, <2>1
    <3>2. \A p \in PlacesOf(n) : p[1] \in {"direct", "indirect1", "indirect2"} =>
            /\ p = Place(p[1], p[2]) /\ (p[1] = "direct" => p[2] \in 0 .. D - 1)
            /\ (p[1] # "direct" => p[2] = 0)
      BY <1>13, <2>1, PlaceFacts DEF Place
    <3> QED
      BY <2>4, <3>1, <3>2 DEF Agrees
  <2>6. \A p \in PlacesOf(n) : Loc(r.inode, r.entry, p) = X[p]
    BY <2>5, LocAgree
  <2>7. \A p \in PlacesOf(n) : X[p] \in r.used /\ X[p] \notin used \ Locs(f)
    BY <1>5, <1>10, <1>11, <1>13, <1>25, <2>1 DEF Locs
  <2>8. Placed(f, r.inode, r.used, r.entry)
    BY <1>5, <1>13, <1>15, <2>1, <2>2, <2>6, <2>7 DEF Placed
  <2>9. Accounted(f, r.inode, r.used, r.entry)
    <3>1. \A b \in r.used : b \in used \ Locs(f) \/ \E p \in PlacesOf(n) : b = X[p]
      BY <1>5, <1>7, <1>10, <1>13, <1>25 DEF Locs
    <3> QED
      BY <2>2, <2>6, <3>1 DEF Accounted
  <2>11. Shape(r.inode)
    <3>1. n <= D => Place("indirect1", 0) \notin PlacesOf(n)
      BY <1>1 DEF PlacesOf, From, Place
    <3>2. n <= D + I => Place("indirect2", 0) \notin PlacesOf(n)
      BY <1>1 DEF PlacesOf, From, Place
    <3>3. /\ Loc(ino, entry, Place("indirect1", 0)) = ino.indirect1
          /\ Loc(ino, entry, Place("indirect2", 0)) = ino.indirect2
      BY DEF Loc, Place
    <3>4. n <= D => r.inode.indirect1 = 0
      BY <1>1, <1>4, <1>13, <2>1, <2>3, <2>4, <3>1, <3>3, <1>7 DEF Shape
    <3>5. n <= D + I => r.inode.indirect2 = 0
      BY <1>1, <1>4, <1>13, <2>1, <2>3, <2>4, <3>2, <3>3, <1>7 DEF Shape
    <3> QED
      BY <2>2, <3>4, <3>5 DEF Shape
  <2> QED
    BY <1>24, <1>25, <1>26, <1>30, <2>2, <2>8, <2>9, <2>11 DEF Moved, Typed
<1> QED
  BY <1>2, <1>3, <1>28, <1>29, <1>30

-----------------------------------------------------------------------------
(***************************************************************************)
(* The steps.                                                              *)
(***************************************************************************)
(* A step that moves f and leaves it with the DiskInode ino. *)
Stepped(f, ino) ==
    /\ inode' = [inode EXCEPT ![f] = ino]
    /\ Moved(f, ino, used', entry')
    /\ live' \subseteq File /\ live' \ {f} = live \ {f} /\ (f \in live' \/ ino.size = 0)
    /\ ino.size <= MaxSize[f]
    /\ torn' = torn /\ clobbered' \subseteq {SuperBlk}
    /\ ret'.file = f
    /\ ret'.rc = kSuccess => Accounted(f, ino, used', entry')
    /\ ret'.rc = kFail => ino = inode[f]

(* The places every step keeps, and the blocks it does not leak. *)
Kept ==
    /\ ret'.rc = kSuccess => Leaked' \subseteq Leaked
    /\ \A g \in live \cap live' : g # ret'.file \/ ret'.rc = kFail =>
         inode'[g].size = inode[g].size
    /\ \A g \in live \cap live' : \A p \in Own(g) : p \in Own(g)' => L(g, p)' = L(g, p)

LEMMA SteppedKeeps ==
    ASSUME IInv, NEW f \in File, NEW ino, Stepped(f, ino)
    PROVE  IInv' /\ Kept
<1> USE DEF Stepped
<1>1. /\ IInv' /\ inode'[f] = ino
      /\ \A g \in File \ {f} : inode'[g] = inode[g] /\ \A p \in Own(g) : L(g, p)' = L(g, p)
      /\ \A p \in Own(f) : p \in Own(f)' => L(f, p)' = L(f, p)
  <2>1. inode'[f] = ino
    BY DEF IInv, TypeOK
  <2> QED
    BY <2>1, MoveKeeps
<1>2. ret'.rc = kSuccess => Leaked' \subseteq Leaked
  BY <1>1, MoveLeaksNone
<1>3. live \subseteq File
  BY DEF IInv, TypeOK
<1>4. \A g \in live \cap live' : g # ret'.file \/ ret'.rc = kFail => inode'[g].size = inode[g].size
  BY <1>1, <1>3
<1>5. \A g \in live \cap live' : \A p \in Own(g) : p \in Own(g)' => L(g, p)' = L(g, p)
  BY <1>1, <1>3
<1> QED
  BY <1>1, <1>2, <1>4, <1>5 DEF Kept

(* A bound on the sizes of a file is one of the geometry. *)
LEMMA SizeBound ==
    ASSUME NEW f \in File, NEW n \in 0 .. MaxSize[f]
    PROVE  n \in Nat /\ n <= MaxBlocks /\ n <= MaxSize[f] /\ MaxSize[f] \in Nat
<1>1. MaxSize[f] \in 0 .. D + I + I * I /\ D + I + I * I \in Nat
  BY GeometryAssumption
<1> QED
  BY <1>1 DEF MaxBlocks

(* An empty file is within it. *)
LEMMA EmptyBound ==
    ASSUME NEW f \in File
    PROVE  NewInode.size = 0 /\ NewInode.size <= MaxSize[f]
  BY GeometryAssumption DEF NewInode

LEMMA CreateSteps ==
    ASSUME IInv, NEW f \in File, Create(f)
    PROVE  Stepped(f, NewInode)
<1>1. inode[f].size = 0 /\ used' = used /\ entry' = entry
  BY DEF Create, IInv
<1>2. Own(f) = {} /\ Locs(f) = {}
  BY <1>1, PlacesOfEmpty DEF Own, Locs
<1>3. Moved(f, NewInode, used', entry')
  <2>1. Confined(f, used, entry) /\ used \subseteq DataBlks /\ entry \in [DataBlks \X Idx -> Ids]
    BY DEF Confined, IInv, TypeOK
  <2> QED
    BY <1>1, <2>1, FreshMoves
<1>4. Accounted(f, NewInode, used', entry')
  BY <1>1, <1>2 DEF Accounted
<1> QED
  BY <1>3, <1>4, EmptyBound DEF Stepped, Create, Intact, Answer, IInv, TypeOK, kSuccess, kFail

LEMMA RemoveSteps ==
    ASSUME IInv, NEW f \in File, RemoveFile(f)
    PROVE  Stepped(f, NewInode)
<1>0. PICK n \in Nat : n = 0
  OBVIOUS
<1>1. n <= inode[f].size
  BY <1>0, FileFacts
<1>2. PICK r : r = Decrease(inode[f], inode[f].size, n)
  OBVIOUS
<1>3. /\ Confined(f, r.used, r.entry)
      /\ r.used \subseteq DataBlks /\ r.entry \in [DataBlks \X Idx -> Ids]
      /\ Accounted(f, r.inode, r.used, r.entry) /\ r.inode.size = n
      /\ r.stray = {}
  <2>1. n <= D + I
    BY <1>0, GeometryAssumption
  <2> QED
    BY <1>1, <1>2, <2>1, ShrinkMoves
<1>4. used' = r.used /\ entry' = r.entry /\ clobbered' = clobbered
  BY <1>0, <1>2, <1>3 DEF RemoveFile
<1>5. Moved(f, NewInode, used', entry')
  BY <1>3, <1>4, FreshMoves
<1>6. Accounted(f, NewInode, used', entry')
  BY <1>0, <1>3, <1>4, PlacesOfEmpty DEF Accounted, NewInode
<1> QED
  BY <1>3, <1>4, <1>5, <1>6, EmptyBound DEF Stepped, RemoveFile, Usable, Intact, Answer, IInv, TypeOK, kSuccess, kFail

LEMMA GrowSteps ==
    ASSUME IInv, NEW f \in File, NEW n \in 0 .. MaxSize[f], Grow(f, n)
    PROVE  \E ino : Stepped(f, ino)
<1>1. n \in Nat /\ n <= MaxBlocks /\ n <= MaxSize[f] /\ inode[f].size < n
  BY SizeBound, FileFacts DEF Grow
<1>2. PICK r : r = Increase(inode[f], inode[f].size, n)
  OBVIOUS
<1>3. /\ Moved(f, inode[f], r.used, r.entry)
      /\ r.ok => /\ Moved(f, r.inode, r.used, r.entry) /\ Accounted(f, r.inode, r.used, r.entry)
                 /\ r.inode.size = n
  BY <1>1, <1>2, GrowMoves
<1>4. /\ used' = r.used /\ entry' = r.entry
      /\ inode' = IF r.ok THEN [inode EXCEPT ![f] = r.inode] ELSE inode
      /\ ret' = Answer(f, IF r.ok THEN kSuccess ELSE kFail)
      /\ f \in live /\ live' = live /\ torn' = torn /\ clobbered' = clobbered
  BY <1>2 DEF Grow, Usable
<1>5. CASE r.ok
  <2>1. Stepped(f, r.inode)
    BY <1>1, <1>3, <1>4, <1>5 DEF Stepped, Intact, Answer, IInv, TypeOK, kSuccess, kFail
  <2> QED
    BY <2>1
<1>6. CASE ~r.ok
  <2>1. inode' = [inode EXCEPT ![f] = inode[f]]
    BY <1>4, <1>6 DEF IInv, TypeOK
  <2>2. Stepped(f, inode[f])
    BY <1>3, <1>4, <1>6, <2>1 DEF Stepped, Intact, Answer, IInv, TypeOK, kSuccess, kFail
  <2> QED
    BY <2>2
<1> QED
  BY <1>5, <1>6

LEMMA ShrinkSteps ==
    ASSUME IInv, NEW f \in File, NEW n \in 0 .. MaxSize[f], Shrink(f, n), Intact'
    PROVE  \E ino : Stepped(f, ino)
<1>1. n \in Nat /\ n <= inode[f].size /\ n <= MaxSize[f]
  BY SizeBound, FileFacts DEF Shrink
<1>2. PICK r : r = Decrease(inode[f], inode[f].size, n)
  OBVIOUS
<1>3. /\ Moved(f, r.inode, r.used, r.entry) /\ Accounted(f, r.inode, r.used, r.entry)
      /\ r.inode.size = n
  BY <1>1, <1>2, ShrinkMoves
<1>4. /\ used' = r.used /\ entry' = r.entry
      /\ inode' = [InodesAfter(r.stray) EXCEPT ![f] = r.inode]
      /\ f \in live /\ live' = live /\ torn' = torn /\ clobbered' = clobbered \cup r.stray
      /\ ret' = Answer(f, kSuccess)
  BY <1>2 DEF Shrink, Usable
<1>6. clobbered' \subseteq {SuperBlk} /\ InodesAfter(r.stray) = inode
  <2>1. clobbered' \subseteq {SuperBlk}
    BY DEF Intact
  <2> QED
    BY <1>4, <2>1 DEF InodesAfter, IInv
<1>5. Stepped(f, r.inode)
  BY <1>1, <1>3, <1>4, <1>6 DEF Stepped, Intact, Answer, IInv, TypeOK, kSuccess, kFail
<1> QED
  BY <1>5

LEMMA KeepSteps ==
    ASSUME IInv, NEW f \in File, Keep(f)
    PROVE  Stepped(f, inode[f])
<1>1. inode' = [inode EXCEPT ![f] = inode[f]]
  BY DEF IInv, Keep
<1>2. Moved(f, inode[f], used, entry) /\ Accounted(f, inode[f], used, entry)
  BY StayMoves
<1> QED
  BY <1>1, <1>2 DEF Stepped, Keep, Usable, Intact, Answer, IInv, TypeOK

LEMMA WriteSteps ==
    ASSUME IInv, NEW f \in File, NEW i \in 0 .. MaxSize[f] - 1, Write(f, i)
    PROVE  \E ino : Stepped(f, ino)
<1>1. i \in Nat /\ i + 1 \in Nat /\ i + 1 <= MaxBlocks /\ i + 1 <= MaxSize[f] /\ inode[f].size \in Nat
  <2>1. MaxSize[f] \in Nat
    BY GeometryAssumption
  <2>2. i \in Nat /\ i + 1 \in 0 .. MaxSize[f]
    BY <2>1
  <2> QED
    BY <2>2, SizeBound, FileFacts
<1>2. PICK r : r = Resized(f, i)
  OBVIOUS
<1>3. PICK ino, u, e : ino = r.inode /\ u = r.used /\ e = r.entry
  OBVIOUS
<1>4. r.ok
  BY <1>2 DEF Write
<1>5. Moved(f, ino, u, e) /\ Accounted(f, ino, u, e) /\ i < ino.size /\ ino.size <= MaxSize[f]
  <2>1. CASE i < inode[f].size
    <3>1. ino = inode[f] /\ u = used /\ e = entry
      BY <1>2, <1>3, <2>1 DEF Resized
    <3> QED
      BY <2>1, <3>1, StayMoves DEF IInv
  <2>2. CASE ~(i < inode[f].size)
    <3>1. PICK n \in Nat : n = i + 1
      BY <1>1
    <3>2. r = Increase(inode[f], inode[f].size, n)
      BY <1>2, <2>2, <3>1 DEF Resized
    <3>3. Moved(f, r.inode, r.used, r.entry) /\ Accounted(f, r.inode, r.used, r.entry) /\ r.inode.size = n
      BY <1>1, <1>4, <2>2, <3>1, <3>2, GrowMoves
    <3> QED
      BY <1>1, <1>3, <3>1, <3>3
  <2> QED
    BY <2>1, <2>2
<1>6. PICK over : over = Overwritten(e, block_id(ino, e, i))
  OBVIOUS
<1>7. Moved(f, ino, u, over) /\ Accounted(f, ino, u, over)
  BY <1>1, <1>5, <1>6, OverwriteMoves
<1>8. /\ used' = u /\ entry' = over /\ inode' = [inode EXCEPT ![f] = ino]
      /\ f \in live /\ live' = live /\ torn' = torn /\ clobbered' = clobbered
      /\ ret' = Answer(f, kSuccess)
  BY <1>2, <1>3, <1>6 DEF Write, Usable
<1>9. Stepped(f, ino)
  BY <1>5, <1>7, <1>8 DEF Stepped, Intact, Answer, IInv, TypeOK, kSuccess, kFail
<1> QED
  BY <1>9

(* block_id() gives an id, or a word of a block before the data area. *)
LEMMA BlockIdType ==
    ASSUME NEW ino \in InodeType, NEW e \in [DataBlks \X Idx -> Ids], NEW i \in Nat, i < MaxBlocks
    PROVE  block_id(ino, e, i) \in Ids
<1>1. D \in Nat /\ I \in Nat /\ D > 0 /\ I > 0 /\ I * I \in Nat
  BY GeometryAssumption
<1>2. \A b \in Ids, k \in Idx : EntryAt(e, b, k) \in Ids
  BY DEF EntryAt, Ids
<1>3. ino.indirect1 \in Ids /\ ino.indirect2 \in Ids /\ \A k \in 0 .. D - 1 : ino.direct[k] \in Ids
  BY DEF InodeType
<1>4. CASE i < D
  BY <1>1, <1>3, <1>4 DEF block_id, DataPlace, Place
<1>5. CASE ~(i < D) /\ i < D + I
  <2>1. i - D \in Idx
    BY <1>1, <1>5 DEF Idx
  <2>2. block_id(ino, e, i) = EntryAt(e, ino.indirect1, i - D)
    BY <1>5 DEF block_id, DataPlace, Place
  <2> QED
    BY <1>2, <1>3, <2>1, <2>2
<1>6. CASE ~(i < D) /\ ~(i < D + I)
  <2>1. PICK j \in Nat : j = i - D - I /\ j < I * I
    BY <1>1, <1>6 DEF MaxBlocks
  <2>2. j \div I \in Idx /\ j % I \in Idx
    BY <1>1, <2>1, Digits DEF Idx
  <2>3. block_id(ino, e, i) = EntryAt(e, EntryAt(e, ino.indirect2, j \div I), j % I)
    BY <1>6, <2>1 DEF block_id, DataPlace, Place
  <2> QED
    BY <1>2, <1>3, <2>2, <2>3
<1> QED
  BY <1>4, <1>5, <1>6

(* A write that runs out of space: if it fails, the DiskInode that is not  *)
(* saved keeps its map.  If it does not, what it leaves has the types it   *)
(* should have.                                                            *)
LEMMA NoSpaceSteps ==
    ASSUME IInv, NEW f \in File, NEW i \in 0 .. MaxSize[f] - 1, WriteNoSpace(f, i)
    PROVE  TypeOK' /\ (Intact' => Stepped(f, inode[f]))
<1>1. i \in Nat /\ i + 1 \in Nat /\ i < MaxBlocks /\ i + 1 <= MaxBlocks /\ inode[f].size \in Nat
  <2>1. MaxSize[f] \in Nat
    BY GeometryAssumption
  <2>2. i \in Nat /\ i + 1 \in 0 .. MaxSize[f]
    BY <2>1
  <2>3. MaxBlocks \in Nat
    BY GeometryAssumption DEF MaxBlocks
  <2> QED
    BY <2>2, <2>3, SizeBound, FileFacts
<1>2. PICK r : r = Resized(f, i)
  OBVIOUS
<1>3. ~r.ok /\ f \in live /\ live' = live /\ used' = r.used
  BY <1>2 DEF WriteNoSpace, Usable
<1>4. ~(i < inode[f].size)
  BY <1>2, <1>3 DEF Resized
<1>5. PICK n \in Nat : n = i + 1
  BY <1>1
<1>6. r = Increase(inode[f], inode[f].size, n)
  BY <1>2, <1>4, <1>5 DEF Resized
<1>7. Moved(f, inode[f], r.used, r.entry) /\ r.inode \in InodeType
  BY <1>1, <1>4, <1>5, <1>6, GrowMoves
<1>8. r.used \subseteq DataBlks /\ r.entry \in [DataBlks \X Idx -> Ids]
  BY <1>7 DEF Moved, Typed
<1>9. PICK id : id = block_id(r.inode, r.entry, i)
  OBVIOUS
<1>10. id \in Ids
  BY <1>1, <1>7, <1>8, <1>9, BlockIdType
<1>11. PICK b \in IF id = Junk THEN {Bad} \cup Blks ELSE {id} :
          IF b = Bad
            THEN /\ entry' = r.entry
                 /\ ret' = Answer(f, kFail)
                 /\ UNCHANGED <<inode, torn, clobbered>>
            ELSE /\ entry' = Overwritten(r.entry, b)
                 /\ inode' = [InodesAfter({b} \ DataBlks) EXCEPT ![f] = r.inode]
                 /\ torn' = torn \cup {f}
                 /\ clobbered' = clobbered \cup ({b} \ DataBlks)
                 /\ ret' = Answer(f, kSuccess)
  BY <1>2, <1>9 DEF WriteNoSpace
<1>12. CASE b = Bad
  <2>1. /\ entry' = r.entry /\ ret' = Answer(f, kFail) /\ inode' = inode /\ torn' = torn
        /\ clobbered' = clobbered
    BY <1>11, <1>12
  <2>2. inode' = [inode EXCEPT ![f] = inode[f]]
    BY <2>1 DEF IInv
  <2>3. TypeOK'
    BY <1>3, <1>8, <2>1 DEF IInv, TypeOK
  <2>4. Stepped(f, inode[f])
    <3>1. live \subseteq File /\ inode[f].size <= MaxSize[f] /\ clobbered \subseteq {SuperBlk}
      BY DEF IInv, TypeOK, Intact
    <3>2. Moved(f, inode[f], used', entry')
      BY <1>3, <1>7, <2>1
    <3>3. ret'.file = f /\ ret'.rc # kSuccess
      BY <2>1 DEF Answer, kSuccess, kFail
    <3> QED
      BY <1>3, <2>1, <2>2, <3>1, <3>2, <3>3 DEF Stepped
  <2> QED
    BY <2>3, <2>4
<1>13. CASE b # Bad
  <2>1. /\ entry' = Overwritten(r.entry, b)
        /\ inode' = [InodesAfter({b} \ DataBlks) EXCEPT ![f] = r.inode]
        /\ torn' = torn \cup {f} /\ clobbered' = clobbered \cup ({b} \ DataBlks)
    BY <1>11, <1>13
  <2>2. b \in Blks
    BY <1>10, <1>11, <1>13 DEF Ids
  <2>3. entry' \in [DataBlks \X Idx -> Ids]
    BY <1>8, <2>1 DEF Overwritten, Ids
  <2>4. inode' \in [File -> InodeType \cup {Lost}]
    BY <1>7, <2>1 DEF InodesAfter, IInv
  <2>5. TypeOK' /\ ~Intact'
    BY <1>3, <1>8, <2>1, <2>2, <2>3, <2>4 DEF IInv, TypeOK, Intact
  <2> QED
    BY <2>5
<1> QED
  BY <1>12, <1>13

(* A shrink that clobbers more than the super block. *)
LEMMA ShrinkTyped ==
    ASSUME IInv, NEW f \in File, NEW n \in 0 .. MaxSize[f], Shrink(f, n)
    PROVE  TypeOK'
<1>1. n \in Nat /\ n <= inode[f].size
  BY SizeBound, FileFacts DEF Shrink
<1>2. PICK r : r = Decrease(inode[f], inode[f].size, n)
  OBVIOUS
<1>3. Moved(f, r.inode, r.used, r.entry) /\ r.stray \subseteq Blks
  BY <1>1, <1>2, ShrinkMoves
<1>4. /\ used' = r.used /\ entry' = r.entry
      /\ inode' = [InodesAfter(r.stray) EXCEPT ![f] = r.inode]
      /\ live' = live /\ torn' = torn /\ clobbered' = clobbered \cup r.stray
  BY <1>2 DEF Shrink
<1>5. inode' \in [File -> InodeType \cup {Lost}]
  BY <1>3, <1>4 DEF Moved, Typed, InodesAfter, IInv
<1> QED
  BY <1>3, <1>4, <1>5 DEF Moved, Typed, IInv, TypeOK

(* The invariant is kept as long as the metadata is intact, and the types  *)
(* always.                                                                 *)
Inv == TypeOK /\ (Intact => IInv)

LEMMA StepKeeps ==
    ASSUME Inv, [Next]_vars
    PROVE  Inv' /\ (Intact' /\ ~UNCHANGED vars => IInv /\ IInv' /\ Kept)
<1>1. CASE UNCHANGED vars
  <2>1. Inv'
    BY <1>1 DEF Inv, IInv, TypeOK, Intact, Apart, Own, L, vars
  <2> QED
    BY <1>1, <2>1
<1>2. CASE ~UNCHANGED vars
  <2>1. PICK f \in File : \/ Create(f) \/ RemoveFile(f) \/ Keep(f)
                          \/ \E n \in 0 .. MaxSize[f] : Grow(f, n) \/ Shrink(f, n)
                          \/ \E i \in 0 .. MaxSize[f] - 1 : Write(f, i) \/ WriteNoSpace(f, i)
    BY <1>2 DEF Next, Wrecked
  <2>2. IInv
    BY <2>1 DEF Inv, Create, RemoveFile, Keep, Grow, Shrink, Write, WriteNoSpace, Usable
  <2>3. \/ \E ino : Stepped(f, ino)
        \/ \E n \in 0 .. MaxSize[f] : Shrink(f, n)
        \/ \E i \in 0 .. MaxSize[f] - 1 : WriteNoSpace(f, i)
    BY <2>1, <2>2, CreateSteps, RemoveSteps, KeepSteps, GrowSteps, WriteSteps
  <2>4. CASE \E ino : Stepped(f, ino)
    <3>1. IInv' /\ Kept
      BY <2>2, <2>4, SteppedKeeps
    <3> QED
      BY <2>2, <3>1 DEF Inv, IInv
  <2>5. CASE \E n \in 0 .. MaxSize[f] : Shrink(f, n)
    <3>1. TypeOK' /\ (Intact' => \E ino : Stepped(f, ino))
      BY <2>2, <2>5, ShrinkTyped, ShrinkSteps
    <3>2. Intact' => IInv' /\ Kept
      BY <2>2, <3>1, SteppedKeeps
    <3> QED
      BY <2>2, <3>1, <3>2 DEF Inv
  <2>6. CASE \E i \in 0 .. MaxSize[f] - 1 : WriteNoSpace(f, i)
    <3>1. TypeOK' /\ (Intact' => Stepped(f, inode[f]))
      BY <2>2, <2>6, NoSpaceSteps
    <3>2. Intact' => IInv' /\ Kept
      BY <2>2, <3>1, SteppedKeeps
    <3> QED
      BY <2>2, <3>1, <3>2 DEF Inv
  <2> QED
    BY <2>3, <2>4, <2>5, <2>6
<1> QED
  BY <1>1, <1>2

-----------------------------------------------------------------------------
(***************************************************************************)
(* Theorems.                                                               *)
(***************************************************************************)
LEMMA InitIInv == Init => IInv
<1> SUFFICES ASSUME Init PROVE IInv
  OBVIOUS
<1>1. NewInode \in InodeType /\ Shape(NewInode)
  BY GeometryAssumption DEF NewInode, InodeType, Shape, MaxBlocks, Ids, Blks
<1>2. \A f \in File : inode[f] = NewInode /\ inode[f].size = 0
  BY DEF Init, NewInode
<1>3. TypeOK /\ Intact /\ inode \in [File -> InodeType]
  BY <1>1 DEF Init, TypeOK, Intact, Ids
<1>4. \A f \in File : Own(f) = {}
  BY <1>2, PlacesOfEmpty DEF Own
<1> QED
  BY <1>1, <1>2, <1>3, <1>4, EmptyBound DEF IInv, Apart, Init

(* The inductive invariant. *)
LEMMA InductiveInvariant == Spec => []Inv
<1>1. Init => Inv
  BY InitIInv DEF Inv, IInv
<1>2. Inv /\ [Next]_vars => Inv'
  BY StepKeeps
<1> QED
  BY <1>1, <1>2, PTL DEF Spec

(* DiskInode's pointers and index entries are ids of the disk, 0 or kFail, *)
(* unless the block of the DiskInode was overwritten, and the bitmap marks *)
(* blocks of the data area only.                                           *)
THEOREM TypeInvariant == Spec => []TypeOK
<1>1. Inv => TypeOK
  BY DEF Inv
<1> QED
  BY <1>1, InductiveInvariant, PTL

(* As long as no inode is torn and nothing but the super block was         *)
(* overwritten, no block belongs to two places, of one file or of two, and *)
(* every block of a file is marked in the bitmap, whatever was created,    *)
(* grown, shrunk, written and removed before, and also after increase()    *)
(* ran out of space.                                                       *)
THEOREM BlocksStayApart == Spec => []NoSharing
<1>1. Inv => NoSharing
  <2> SUFFICES ASSUME IInv PROVE NoSharing
    BY DEF Inv, NoSharing
  <2>1. \A g, p : LocOf(<<g, p>>) = L(g, p)
    BY DEF LocOf, L
  <2>2. live \subseteq File
    BY DEF IInv, TypeOK
  <2>3. \A t \in AllTaken : \E g \in File : \E p \in Own(g) : t = <<g, p>> /\ LocOf(t) = L(g, p)
    BY <2>1, <2>2, TakenIs
  <2>4. \A t \in AllTaken : LocOf(t) \in used
    BY <2>3 DEF IInv, Apart
  <2>5. ASSUME NEW s \in AllTaken, NEW t \in AllTaken, LocOf(s) = LocOf(t) PROVE s = t
    <3>1. PICK g \in File : \E p \in Own(g) : s = <<g, p>> /\ LocOf(s) = L(g, p)
      BY <2>3
    <3>2. PICK h \in File : \E q \in Own(h) : t = <<h, q>> /\ LocOf(t) = L(h, q)
      BY <2>3
    <3> QED
      BY <2>5, <3>1, <3>2 DEF IInv, Apart
  <2> QED
    BY <2>4, <2>5 DEF NoSharing
<1> QED
  BY <1>1, InductiveInvariant, PTL

(* An operation that succeeds, and leaves the metadata intact, leaks no    *)
(* block.                                                                  *)
THEOREM SuccessLeaksNothing == Spec => NoLeak
<1>1. Inv /\ [Next]_vars => [Intact' /\ ret'.rc = kSuccess => Leaked' \subseteq Leaked]_vars
  BY StepKeeps DEF Kept
<1> QED
  BY <1>1, InductiveInvariant, PTL DEF Spec, NoLeak

(* block_id() finds the blocks of a file at the places of its data. *)
MapsRight ==
    \A f \in File :
        /\ DOMAIN Map(f) = 0 .. inode[f].size - 1
        /\ \A i \in DOMAIN Map(f) : DataPlace(i) \in Own(f) /\ Map(f)[i] = L(f, DataPlace(i))

LEMMA IInvMapsRight == IInv => MapsRight
<1> SUFFICES ASSUME IInv, NEW f \in File, NEW i \in DOMAIN Map(f)
             PROVE  DataPlace(i) \in Own(f) /\ Map(f)[i] = L(f, DataPlace(i))
  BY DEF MapsRight, Map
<1>1. PICK n \in Nat : n = inode[f].size /\ n <= MaxBlocks
  BY FileFacts
<1>2. i \in Nat /\ i < n
  BY <1>1 DEF Map
<1>3. \A p \in PlacesOf(n) : Loc(inode[f], entry, p) \in DataBlks
  BY <1>1, FileFacts DEF Own, L
<1>4. DataPlace(i) \in PlacesOf(n)
  BY <1>1, <1>2, DataPlaceFacts
<1>5. block_id(inode[f], entry, i) = Loc(inode[f], entry, DataPlace(i))
  BY <1>1, <1>2, <1>3, BlockId
<1> QED
  BY <1>1, <1>4, <1>5 DEF Map, Own, L

(* The maps before and after a step. *)
LEMMA MapSteps ==
    ASSUME Inv, [Next]_vars, Intact', ~UNCHANGED vars, NEW f \in live \cap live'
    PROVE  /\ f # ret'.file \/ ret'.rc = kFail => Map(f)' = Map(f)
           /\ \A i \in DOMAIN Map(f) \cap DOMAIN Map(f)' : Map(f)'[i] = Map(f)[i]
<1>1. IInv /\ IInv' /\ Kept /\ f \in File
  BY StepKeeps DEF IInv, TypeOK
<1>2. MapsRight /\ MapsRight'
  BY <1>1, IInvMapsRight, PTL
<1>3. /\ DOMAIN Map(f) = 0 .. inode[f].size - 1
      /\ \A i \in DOMAIN Map(f) : DataPlace(i) \in Own(f) /\ Map(f)[i] = L(f, DataPlace(i))
      /\ DOMAIN Map(f)' = 0 .. inode'[f].size - 1
      /\ \A i \in DOMAIN Map(f)' : DataPlace(i) \in Own(f)' /\ Map(f)'[i] = L(f, DataPlace(i))'
  BY <1>1, <1>2 DEF MapsRight
<1>4. \A i \in DOMAIN Map(f) \cap DOMAIN Map(f)' : Map(f)'[i] = Map(f)[i]
  BY <1>1, <1>3 DEF Kept
<1>5. ASSUME f # ret'.file \/ ret'.rc = kFail PROVE Map(f)' = Map(f)
  <2>1. inode'[f].size = inode[f].size
    BY <1>1, <1>5 DEF Kept
  <2>2. Map(f) = [i \in DOMAIN Map(f) |-> Map(f)[i]] /\ Map(f)' = [i \in DOMAIN Map(f)' |-> Map(f)'[i]]
    BY DEF Map
  <2> QED
    BY <1>3, <1>4, <2>1, <2>2
<1> QED
  BY <1>4, <1>5

(* An operation that leaves the metadata intact changes no other file's    *)
(* block map, and one that fails not even the map of its own file.         *)
THEOREM OtherMapsStay == Spec => MapsKept
<1>1. Inv /\ [Next]_vars => [Intact' => \A f \in live \cap live' :
         f # ret'.file \/ ret'.rc = kFail => Map(f)' = Map(f)]_vars
  BY MapSteps
<1> QED
  BY <1>1, InductiveInvariant, PTL DEF Spec, MapsKept

(* A resize or a write that leaves the metadata intact keeps the blocks    *)
(* below both sizes where they are.                                        *)
THEOREM PrefixStays == Spec => PrefixKept
<1>1. Inv /\ [Next]_vars => [Intact' => \A f \in live \cap live' :
         \A i \in DOMAIN Map(f) \cap DOMAIN Map(f)' : Map(f)'[i] = Map(f)[i]]_vars
  BY MapSteps
<1> QED
  BY <1>1, InductiveInvariant, PTL DEF Spec, PrefixKept

-----------------------------------------------------------------------------
(***************************************************************************)
(* What it takes to stay intact: with files of one leaf at most, only a    *)
(* write that runs out of space ends it.                                   *)
(***************************************************************************)
OneLeaf == \A f \in File : MaxSize[f] <= D + I + I

(* The leaf that is written back is the first, and goes to the super block. *)
LEMMA StrayBound ==
    ASSUME NEW ino, NEW old, NEW n \in Nat, n <= D + I + I
    PROVE  Decrease(ino, old, n).stray \subseteq {SuperBlk}
<1>1. D \in Nat /\ I \in Nat /\ I > 0
  BY GeometryAssumption
<1>2. BlkLimit(n) < 0 \/ BlkLimit(n) = 0
  <2>1. CASE n - D - I - 1 < 0
    BY <1>1, <2>1 DEF BlkLimit
  <2>2. CASE ~(n - D - I - 1 < 0)
    <3>1. PICK m \in Nat : m = n - D - I - 1 /\ m < I
      BY <1>1, <2>2
    <3>2. m \div I = 0
      BY <1>1, <3>1
    <3> QED
      BY <2>2, <3>1, <3>2 DEF BlkLimit
  <2> QED
    BY <2>1, <2>2
<1>3. Decrease(ino, old, n).stray =
        IF BlkLimit(n) >= 0 /\ BlkLimit(old) >= 0 THEN {BlkLimit(n)} ELSE {}
  BY DEF Decrease
<1>4. BlkLimit(n) \in Int
  BY <1>1 DEF BlkLimit
<1>5. CASE BlkLimit(n) = 0
  BY <1>3, <1>5 DEF SuperBlk
<1>6. CASE BlkLimit(n) < 0
  <2>1. ~(BlkLimit(n) >= 0)
    BY <1>4, <1>6
  <2> QED
    BY <1>3, <2>1
<1> QED
  BY <1>2, <1>5, <1>6

IntactUnlessTorn == torn = {} => Intact

LEMMA StepIntact ==
    ASSUME OneLeaf, [Next]_vars, IntactUnlessTorn
    PROVE  IntactUnlessTorn'
<1>1. CASE UNCHANGED vars
  BY <1>1 DEF IntactUnlessTorn, Intact, vars
<1>2. ASSUME NEW f \in File, RemoveFile(f) PROVE IntactUnlessTorn'
  <2>1. Decrease(inode[f], inode[f].size, 0).stray \subseteq {SuperBlk}
    BY GeometryAssumption, StrayBound
  <2> QED
    BY <1>2, <2>1 DEF RemoveFile, Usable, IntactUnlessTorn, Intact
<1>3. ASSUME NEW f \in File, NEW n \in 0 .. MaxSize[f], Shrink(f, n) PROVE IntactUnlessTorn'
  <2>1. n \in Nat /\ n <= D + I + I
    <3>1. MaxSize[f] \in Nat /\ MaxSize[f] <= D + I + I /\ D + I + I \in Nat
      BY GeometryAssumption DEF OneLeaf
    <3> QED
      BY <3>1
  <2>2. Decrease(inode[f], inode[f].size, n).stray \subseteq {SuperBlk}
    BY <2>1, StrayBound
  <2> QED
    BY <1>3, <2>2 DEF Shrink, Usable, IntactUnlessTorn, Intact
<1>4. ASSUME NEW f \in File,
             \/ Create(f) \/ Keep(f)
             \/ \E n \in 0 .. MaxSize[f] : Grow(f, n)
             \/ \E i \in 0 .. MaxSize[f] - 1 : Write(f, i)
      PROVE  IntactUnlessTorn'
  BY <1>4 DEF Create, Keep, Grow, Write, Usable, IntactUnlessTorn, Intact
<1>5. ASSUME NEW f \in File, NEW i \in 0 .. MaxSize[f] - 1, WriteNoSpace(f, i)
      PROVE  IntactUnlessTorn'
  <2>1. Intact /\ ((torn' = torn /\ clobbered' = clobbered) \/ torn' = torn \cup {f})
    BY <1>5 DEF WriteNoSpace, Usable
  <2> QED
    BY <2>1 DEF IntactUnlessTorn, Intact
<1>6. Wrecked => UNCHANGED vars
  BY DEF Wrecked
<1> QED
  BY <1>1, <1>2, <1>3, <1>4, <1>5, <1>6 DEF Next

(* With files of one leaf at most, no create, remove, resize or write      *)
(* overwrites a bitmap or an inode before a write has run out of space: up *)
(* to then the theorems above hold of every step of the program.           *)
THEOREM OneLeafStaysIntact == OneLeaf => (Spec => []IntactUnlessTorn)
<1> SUFFICES ASSUME OneLeaf PROVE Spec => []IntactUnlessTorn
  OBVIOUS
<1>1. Init => IntactUnlessTorn
  BY DEF Init, IntactUnlessTorn, Intact
<1>2. IntactUnlessTorn /\ [Next]_vars => IntactUnlessTorn'
  BY StepIntact
<1> QED
  BY <1>1, <1>2, PTL DEF Spec
=============================================================================
