---------------------------- MODULE PathResolver ----------------------------
(***************************************************************************)
(* The path cache of PathResolver (src/path_resolver.cpp): a std::map from *)
(* paths to inodes, emptied by a clock algorithm.  The inodes a path leads *)
(* to are the subject of VFS; here are the map's iterators, the visited    *)
(* flags and the sizes, which are size_t.                                  *)
(*                                                                         *)
(* Paths are numbered in the order of the map, so that the paths that      *)
(* begin with one string are neighbours.  evict() is one step for each     *)
(* round of its loops.                                                     *)
(***************************************************************************)
EXTENDS Integers

CONSTANTS
    Keys,           (* the paths, a set of numbers                         *)
    SizeOf,         (* SizeOf[k]: bytes accounted for path k               *)
    max_cache_size, (* kPathCacheSize                                      *)
    W               (* size_t is taken modulo W                            *)

(* 32 MB hold more than two entries: a path has at most 4096 bytes. *)
ASSUME SizeAssumption ==
    /\ Keys \subseteq Nat \ {0}
    /\ SizeOf \in [Keys -> Nat \ {0}]
    /\ \A j, k \in Keys : SizeOf[j] + SizeOf[k] < max_cache_size
    /\ max_cache_size \in Nat
    /\ W \in Nat /\ max_cache_size < W

VARIABLES
    path_cache,     (* path -> visited                                     *)
    clock_iter,     (* the path the hand points to, End or Dangling        *)
    cur_cache_size,
    pc,             (* where resolve() is                                  *)
    key,            (* the path it inserts                                 *)
    size,           (* the argument of evict()                             *)
    cur_size        (* local of evict()                                    *)

vars == <<path_cache, clock_iter, cur_cache_size, pc, key, size, cur_size>>
resolving == <<cur_cache_size, pc, key, size, cur_size>>

End      == 0       (* path_cache_.end() *)
Dangling == -1      (* the entry was erased: the iterator is invalid *)

Cached == DOMAIN path_cache

(* erase(): the cache without the paths in S. *)
Without(S) == [k \in Cached \ S |-> path_cache[k]]

-----------------------------------------------------------------------------
(* begin(), and the iterator behind k. *)
First(S)    == IF S = {} THEN End ELSE CHOOSE k \in S : \A j \in S : k <= j
After(k, S) == First({j \in S : j > k})

(* PathResolver::next() goes round. *)
next(k) == IF After(k, Cached) = End THEN First(Cached) ELSE After(k, Cached)

(* Mutant of SizeToEvict: what the cache lacks for the path, which is      *)
(* nothing as long as there is room.                                       *)
SizeLacking(k) ==
    IF cur_cache_size + SizeOf[k] > max_cache_size
      THEN cur_cache_size + SizeOf[k] - max_cache_size ELSE 0

(* Mutant of SizeToEvict: a signed difference. *)
SizeSigned(k) == cur_cache_size + SizeOf[k] - max_cache_size

(* size_to_evict, a size_t. *)
SizeToEvict(k) == (cur_cache_size + SizeOf[k] - max_cache_size) % W

-----------------------------------------------------------------------------
(* resolve() finds a prefix of its path in the cache. *)
Hit(k) ==
    /\ pc = "idle"
    /\ k \in Cached
    /\ path_cache' = [path_cache EXCEPT ![k] = TRUE]
    /\ UNCHANGED <<clock_iter, resolving>>

(* resolve() has found the inode of a path behind the longest one cached. *)
Miss(k) ==
    /\ pc = "idle"
    /\ k \notin Cached
    /\ key' = k
    /\ size' = SizeToEvict(k)
    /\ cur_size' = 0
    /\ pc' = IF SizeToEvict(k) > 0 THEN "evict" ELSE "insert"
    /\ UNCHANGED <<path_cache, clock_iter, cur_cache_size>>

(* The head of evict()'s loop. *)
EvictMore ==
    /\ pc = "evict"
    /\ cur_size < size /\ Cached # {}
    /\ clock_iter' = IF clock_iter = End THEN First(Cached) ELSE clock_iter
    /\ pc' = "scan"
    /\ UNCHANGED <<path_cache, cur_cache_size, key, size, cur_size>>

(* The size kept is the size that was evicted. *)
EvictDone ==
    /\ pc = "evict"
    /\ cur_size >= size \/ Cached = {}
    /\ cur_cache_size' = cur_size
    /\ pc' = "insert"
    /\ UNCHANGED <<path_cache, clock_iter, key, size, cur_size>>

(* Mutant of ScanVisited: the flag is left set. *)
ScanVisitedKept ==
    /\ pc = "scan"
    /\ path_cache[clock_iter]
    /\ clock_iter' = next(clock_iter)
    /\ UNCHANGED <<path_cache, resolving>>

(* The inner loop: a visited entry gets a second chance. *)
ScanVisited ==
    /\ pc = "scan"
    /\ path_cache[clock_iter]
    /\ path_cache' = [path_cache EXCEPT ![clock_iter] = FALSE]
    /\ clock_iter' = next(clock_iter)
    /\ UNCHANGED resolving

(* Mutant of EvictOne: what erase() returns is dropped. *)
EvictOneHandKept ==
    /\ pc = "scan"
    /\ ~path_cache[clock_iter]
    /\ cur_size' = cur_size + SizeOf[clock_iter]
    /\ path_cache' = Without({clock_iter})
    /\ pc' = "evict"
    /\ UNCHANGED <<clock_iter, cur_cache_size, key, size>>

(* The entry under the hand is erased, and the hand goes to the next. *)
EvictOne ==
    /\ pc = "scan"
    /\ ~path_cache[clock_iter]
    /\ cur_size' = cur_size + SizeOf[clock_iter]
    /\ path_cache' = Without({clock_iter})
    /\ clock_iter' = After(clock_iter, Cached)
    /\ pc' = "evict"
    /\ UNCHANGED <<cur_cache_size, key, size>>

Insert ==
    /\ pc = "insert"
    /\ path_cache' = [k \in Cached \cup {key} |-> k = key \/ path_cache[k]]
    /\ pc' = "idle"
    /\ UNCHANGED <<clock_iter, cur_cache_size, key, size, cur_size>>

(* removePrefix() erases the paths lo .. hi. *)
RemovePrefix(lo, hi) ==
    /\ pc = "idle"
    /\ path_cache' = Without(lo .. hi)
    /\ clock_iter' = IF clock_iter \in lo .. hi THEN Dangling ELSE clock_iter
    /\ UNCHANGED resolving

-----------------------------------------------------------------------------
Init ==
    /\ path_cache = [k \in {} |-> FALSE]
    /\ clock_iter = End
    /\ cur_cache_size = 0
    /\ pc = "idle"
    /\ key \in Keys
    /\ size = 0
    /\ cur_size = 0

(* The rest of a call of resolve(). *)
Continue == EvictMore \/ EvictDone \/ ScanVisited \/ EvictOne \/ Insert

Next ==
    \/ \E k \in Keys : Hit(k) \/ Miss(k)
    \/ Continue
    \/ \E lo, hi \in Keys : lo <= hi /\ RemovePrefix(lo, hi)

(* A callback that has begun goes on: nothing in evict() waits. *)
Spec == Init /\ [][Next]_vars /\ WF_vars(Continue)

-----------------------------------------------------------------------------
(***************************************************************************)
(* Properties.                                                             *)
(***************************************************************************)
(* The sizes are values of size_t. *)
TypeOK ==
    /\ Cached \subseteq Keys
    /\ clock_iter \in Keys \cup {End, Dangling}
    /\ cur_cache_size \in 0 .. W - 1
    /\ pc \in {"idle", "evict", "scan", "insert"}
    /\ key \in Keys
    /\ size \in 0 .. W - 1
    /\ cur_size \in 0 .. W - 1

(* The hand points to an entry that is in the map or to its end.  Nothing  *)
(* keeps removePrefix() from erasing the entry under the hand; what saves  *)
(* the iterator is that evict() runs until the map is empty.               *)
HandValid == clock_iter \in Cached \cup {End}

(* The size to evict wraps around, so that between two calls the cache     *)
(* holds one path: the one resolve() inserted last.                        *)
OneEntry == pc = "idle" => \A j, k \in Cached : j = k

(* evict() ends, and resolve() with it: the hand does not go round for ever *)
(* among visited entries.                                                  *)
EvictEnds == pc # "idle" ~> pc = "idle"

=============================================================================
