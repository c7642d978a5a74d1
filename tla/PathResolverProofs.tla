------------------------- MODULE PathResolverProofs -------------------------
(***************************************************************************)
(* Safety of the path cache, for any set of paths and any sizes that are   *)
(* small against the cache: the clock hand never points to an erased       *)
(* entry, and the cache holds one path between two calls.                  *)
(***************************************************************************)
EXTENDS PathResolver, TLAPS

(* A size evict() has counted, or kept: that of one entry at most. *)
OneSize(n) == n = 0 \/ \E k \in Keys : n = SizeOf[k]

(* What holds at each place of resolve(): evict() finds one entry at most, *)
(* is always asked for more, and leaves the hand at the end.               *)
PlaceInv ==
    /\ \A j, k \in Cached : j = k
    /\ OneSize(cur_cache_size)
    /\ pc # "scan" => clock_iter = End
    /\ pc = "insert" => Cached = {}
    /\ pc = "evict" => size > 0 /\ OneSize(cur_size) /\ (Cached # {} => cur_size = 0)
    /\ pc = "scan" => size > 0 /\ cur_size = 0 /\ clock_iter \in Cached

(* TypeOK and the two safety invariants are not inductive: erasing under   *)
(* the hand is harmless only because the hand is at the end, and it is     *)
(* there only because evict() was asked for more than there is.            *)
IInv == TypeOK /\ PlaceInv

-----------------------------------------------------------------------------
(* A negative difference of size_t's wraps around to a large one. *)
LEMMA Wraps ==
    ASSUME NEW w \in Nat, NEW x \in Int, -w < x, x < 0
    PROVE  x % w = x + w
  OBVIOUS

(* The sizes are small against the cache, and the cache against size_t. *)
LEMMA OneSizeSmall ==
    ASSUME NEW n, OneSize(n)
    PROVE  n \in 0 .. W - 1 /\ n < W /\ \A k \in Keys : n + SizeOf[k] < max_cache_size
  BY SizeAssumption DEF OneSize

(* resolve() always asks evict() for more than the cache holds. *)
LEMMA AlwaysEvicts ==
    ASSUME OneSize(cur_cache_size), NEW k \in Keys
    PROVE  SizeToEvict(k) \in 1 .. W - 1
<1> DEFINE x == cur_cache_size + SizeOf[k] - max_cache_size
<1>1. cur_cache_size \in 0 .. W - 1 /\ cur_cache_size + SizeOf[k] < max_cache_size
  BY OneSizeSmall
<1>2. x \in Int /\ -W < x /\ x < 0
  BY <1>1, SizeAssumption
<1>3. x % W = x + W
  BY <1>2, Wraps, SizeAssumption
<1> QED
  BY <1>2, <1>3, SizeAssumption DEF SizeToEvict

(* The hand in a cache of one entry. *)
LEMMA OnlyOne ==
    ASSUME \A j, k \in Cached : j = k, Cached \subseteq Keys, NEW h \in Cached
    PROVE  First(Cached) = h /\ After(h, Cached) = End /\ next(h) = h
<1>1. Cached = {h} /\ h \in Nat
  BY SizeAssumption
<1>2. First(Cached) = h
  BY <1>1 DEF First
<1>3. {j \in Cached : j > h} = {}
  BY <1>1
<1>4. After(h, Cached) = End
  BY <1>3 DEF After, First
<1> QED
  BY <1>2, <1>4 DEF next

(* The cache after an erase and after an insertion. *)
LEMMA Erased ==
    ASSUME NEW S, path_cache' = Without(S)
    PROVE  Cached' = Cached \ S
  BY DEF Without, Cached

-----------------------------------------------------------------------------
LEMMA InitIInv == Init => IInv
  BY SizeAssumption DEF Init, IInv, TypeOK, PlaceInv, OneSize, Cached, End

LEMMA NextIInv == IInv /\ [Next]_vars => IInv'
<1> SUFFICES ASSUME IInv, [Next]_vars PROVE IInv'
  OBVIOUS
<1> USE DEF IInv
<1>0. End \notin Keys /\ W \in Nat
  BY SizeAssumption DEF End
<1>1. ASSUME NEW k \in Keys, Hit(k) PROVE IInv'
  <2>1. Cached' = Cached
    BY <1>1 DEF Hit, Cached
  <2> QED
    BY <1>1, <2>1 DEF Hit, resolving, TypeOK, PlaceInv, OneSize
<1>2. ASSUME NEW k \in Keys, Miss(k) PROVE IInv'
  <2>1. SizeToEvict(k) \in 1 .. W - 1
    BY AlwaysEvicts DEF PlaceInv
  <2>2. Cached' = Cached /\ pc' = "evict" /\ size' = SizeToEvict(k) /\ cur_size' = 0 /\ key' = k
        /\ clock_iter' = clock_iter /\ cur_cache_size' = cur_cache_size /\ pc = "idle"
    BY <1>2, <2>1, <1>0 DEF Miss, Cached
  <2>3. TypeOK'
    BY <2>1, <2>2, <1>0 DEF TypeOK
  <2>4. PlaceInv'
    BY <2>1, <2>2, <1>0 DEF PlaceInv, OneSize
  <2> QED
    BY <2>3, <2>4
<1>3. ASSUME EvictMore PROVE IInv'
  <2>1. PICK h \in Cached : TRUE
    BY <1>3 DEF EvictMore
  <2>2. First(Cached) = h /\ clock_iter = End
    BY <2>1, <1>3, OnlyOne DEF TypeOK, PlaceInv, EvictMore
  <2>3. Cached' = Cached /\ clock_iter' = h /\ pc' = "scan" /\ cur_cache_size' = cur_cache_size
        /\ key' = key /\ size' = size /\ cur_size' = cur_size /\ pc = "evict"
    BY <1>3, <2>2 DEF EvictMore, Cached
  <2>4. TypeOK'
    BY <2>1, <2>3 DEF TypeOK
  <2>5. PlaceInv'
    BY <2>1, <2>3 DEF PlaceInv, OneSize
  <2> QED
    BY <2>4, <2>5
<1>4. ASSUME EvictDone PROVE IInv'
  <2>1. Cached = {}
    BY <1>4 DEF EvictDone, PlaceInv, TypeOK
  <2>2. Cached' = Cached
    BY <1>4 DEF EvictDone, Cached
  <2> QED
    BY <1>4, <2>1, <2>2 DEF EvictDone, TypeOK, PlaceInv, OneSize
<1>5. ASSUME ScanVisited PROVE IInv'
  <2>1. Cached' = Cached
    BY <1>5 DEF ScanVisited, Cached
  <2>2. next(clock_iter) = clock_iter
    BY <1>5, OnlyOne DEF ScanVisited, PlaceInv, TypeOK
  <2> QED
    BY <1>5, <2>1, <2>2 DEF ScanVisited, resolving, TypeOK, PlaceInv, OneSize
<1>6. ASSUME EvictOne PROVE IInv'
  <2>1. clock_iter \in Cached /\ clock_iter \in Keys /\ cur_size = 0
    BY <1>6 DEF EvictOne, PlaceInv, TypeOK
  <2>2. After(clock_iter, Cached) = End /\ Cached = {clock_iter}
    BY <2>1, OnlyOne DEF PlaceInv, TypeOK
  <2>3. Cached' = {}
    BY <1>6, <2>2, Erased DEF EvictOne
  <2>4. cur_size' = SizeOf[clock_iter] /\ OneSize(SizeOf[clock_iter])
    BY <1>6, <2>1, SizeAssumption DEF EvictOne, OneSize
  <2>5. clock_iter' = End /\ pc' = "evict" /\ cur_cache_size' = cur_cache_size
        /\ key' = key /\ size' = size /\ pc = "scan"
    BY <1>6, <2>2 DEF EvictOne
  <2>6. cur_size' \in 0 .. W - 1
    BY <2>4, OneSizeSmall
  <2>7. TypeOK'
    BY <2>3, <2>5, <2>6 DEF TypeOK
  <2>8. PlaceInv'
    BY <2>3, <2>4, <2>5 DEF PlaceInv, OneSize
  <2> QED
    BY <2>7, <2>8
<1>7. ASSUME Insert PROVE IInv'
  <2>1. Cached = {} /\ key \in Keys
    BY <1>7 DEF Insert, PlaceInv, TypeOK
  <2>2. Cached' = {key}
    BY <1>7, <2>1 DEF Insert, Cached
  <2> QED
    BY <1>7, <2>1, <2>2 DEF Insert, TypeOK, PlaceInv, OneSize
<1>8. ASSUME NEW lo \in Keys, NEW hi \in Keys, RemovePrefix(lo, hi) PROVE IInv'
  <2>1. Cached' \subseteq Cached
    BY <1>8, Erased DEF RemovePrefix
  <2>2. End \notin lo .. hi
    BY SizeAssumption DEF End
  <2>3. clock_iter' = clock_iter
    BY <1>8, <2>2 DEF RemovePrefix, PlaceInv
  <2> QED
    BY <1>8, <2>1, <2>3 DEF RemovePrefix, resolving, TypeOK, PlaceInv, OneSize
<1>9. CASE UNCHANGED vars
  BY <1>9 DEF vars, TypeOK, PlaceInv, OneSize, Cached
<1> QED
  BY <1>1, <1>2, <1>3, <1>4, <1>5, <1>6, <1>7, <1>8, <1>9 DEF Next, Continue

-----------------------------------------------------------------------------
LEMMA IInvHolds == Spec => []IInv
  BY InitIInv, NextIInv, PTL DEF Spec

(* The sizes stay values of size_t, whatever wraps around. *)
THEOREM TypeCorrect == Spec => []TypeOK
<1>1. IInv => TypeOK
  BY DEF IInv
<1> QED
  BY <1>1, IInvHolds, PTL

(* removePrefix() never leaves the clock hand on an erased entry. *)
THEOREM HandStaysValid == Spec => []HandValid
<1>1. IInv => HandValid
  BY DEF IInv, PlaceInv, HandValid, TypeOK
<1> QED
  BY <1>1, IInvHolds, PTL

(* Between two calls the path cache holds one path at most: what VFS takes *)
(* for the path cache is all of it.                                        *)
THEOREM HoldsOneEntry == Spec => []OneEntry
<1>1. IInv => OneEntry
  BY DEF IInv, PlaceInv, OneEntry
<1> QED
  BY <1>1, IInvHolds, PTL

=============================================================================
