--------------------------- MODULE LRUCacheProofs ---------------------------
(***************************************************************************)
(* Proofs about LRUCache, for any number of slots, blocks and I/O errors.  *)
(***************************************************************************)
EXTENDS LRUCache, TLAPS

USE SizeAssumption

(***************************************************************************)
(* The lists on their own, without the rest of the cache manager's state.  *)
(***************************************************************************)
ListType == [FREE_first : Slots \cup {Nil},
             LRU_first  : Slots \cup {Nil},
             LRU_last   : Slots \cup {Nil},
             prev : Links, next : Links]

FreeOf(l) == IF l.FREE_first = Nil THEN {} ELSE l.FREE_first .. Size - 1
UsedOf(l) == Slots \ FreeOf(l)

Apart(l) ==
    /\ l \in ListType
    /\ \A s \in UsedOf(l) : l.prev[s] \in UsedOf(l) \cup {Nil} /\ l.next[s] \in UsedOf(l) \cup {Nil}
    /\ \A s \in FreeOf(l) : l.next[s] = IF s = Size - 1 THEN Nil ELSE s + 1
    /\ l.LRU_first \in UsedOf(l) \cup {Nil}
    /\ l.LRU_last \in UsedOf(l) \cup {Nil}

(* Taking a used slot off the LRU list only changes links of used slots.   *)
LEMMA RemoveKeepsApart ==
    ASSUME NEW l, Apart(l), NEW s \in UsedOf(l)
    PROVE  /\ Apart(LRU_remove(l, s))
           /\ LRU_remove(l, s).FREE_first = l.FREE_first
<1> DEFINE r == LRU_remove(l, s)
<1>1. /\ l \in ListType /\ s \in Slots
      /\ l.prev[s] \in UsedOf(l) \cup {Nil} /\ l.next[s] \in UsedOf(l) \cup {Nil}
  BY DEF Apart, UsedOf
<1>2. /\ r \in ListType
      /\ r.FREE_first = l.FREE_first
      /\ r.LRU_first = IF l.LRU_first = s THEN l.next[s] ELSE l.LRU_first
      /\ r.LRU_last = IF l.LRU_last = s THEN l.prev[s] ELSE l.LRU_last
      /\ \A t \in Slots : r.next[t] = IF t = s THEN Nil
                                      ELSE IF t = l.prev[s] THEN l.next[s] ELSE l.next[t]
      /\ \A t \in Slots : r.prev[t] = IF t = s THEN Nil
                                      ELSE IF t = l.next[s] THEN l.prev[s] ELSE l.prev[t]
  BY <1>1 DEF ListType, Links, LRU_remove, Slots, Nil, UsedOf
<1>3. FreeOf(r) = FreeOf(l) /\ UsedOf(r) = UsedOf(l)
  BY <1>2 DEF FreeOf, UsedOf
<1>4. FreeOf(l) \subseteq Slots
  BY <1>1 DEF FreeOf, Slots, ListType, Nil
<1> HIDE DEF r
<1>5. \A t \in UsedOf(l) : r.prev[t] \in UsedOf(l) \cup {Nil} /\ r.next[t] \in UsedOf(l) \cup {Nil}
  BY <1>1, <1>2 DEF Apart, UsedOf
<1>6. \A t \in FreeOf(l) : r.next[t] = l.next[t]
  BY <1>1, <1>2, <1>4 DEF UsedOf, Nil, Slots
<1>7. r.LRU_first \in UsedOf(l) \cup {Nil} /\ r.LRU_last \in UsedOf(l) \cup {Nil}
  BY <1>1, <1>2 DEF Apart
<1>8. Apart(r)
  BY <1>2, <1>3, <1>5, <1>6, <1>7 DEF Apart
<1> QED
  BY <1>2, <1>8 DEF r

(* Putting a used slot at the front of the LRU list does so too, and       *)
(* leaves the list with a last slot.                                       *)
LEMMA AddKeepsApart ==
    ASSUME NEW l, Apart(l), NEW s \in UsedOf(l)
    PROVE  /\ Apart(LRU_add(l, s))
           /\ LRU_add(l, s).FREE_first = l.FREE_first
           /\ LRU_add(l, s).LRU_last # Nil
<1> DEFINE r == LRU_add(l, s)
<1>1. l \in ListType /\ s \in Slots
  BY DEF Apart, UsedOf
<1>2. /\ r \in ListType
      /\ r.FREE_first = l.FREE_first
      /\ r.LRU_first = s
      /\ r.LRU_last = IF l.LRU_last = Nil THEN s ELSE l.LRU_last
      /\ \A t \in Slots : r.next[t] = IF t = s THEN l.LRU_first ELSE l.next[t]
      /\ \A t \in Slots : r.prev[t] = IF t = l.LRU_first THEN s
                                      ELSE IF t = s THEN Nil ELSE l.prev[t]
  BY <1>1 DEF ListType, Links, LRU_add, Slots, Nil
<1>3. FreeOf(r) = FreeOf(l) /\ UsedOf(r) = UsedOf(l)
  BY <1>2 DEF FreeOf, UsedOf
<1>4. FreeOf(l) \subseteq Slots
  BY <1>1 DEF FreeOf, Slots, ListType, Nil
<1>5. r.LRU_last # Nil
  BY <1>1, <1>2 DEF Slots, Nil
<1> HIDE DEF r
<1>6. Apart(r)
  BY <1>1, <1>2, <1>3, <1>4 DEF Apart, UsedOf
<1> QED
  BY <1>2, <1>5, <1>6 DEF r

(* The two together, as every hit in get(), upsert() and sync() does them. *)
LEMMA TouchKeepsApart ==
    ASSUME NEW l, Apart(l), NEW s \in UsedOf(l)
    PROVE  /\ Apart(Touch(l, s))
           /\ Touch(l, s).FREE_first = l.FREE_first
           /\ Touch(l, s).LRU_last # Nil
<1>1. Apart(LRU_remove(l, s)) /\ LRU_remove(l, s).FREE_first = l.FREE_first
  BY RemoveKeepsApart
<1>2. s \in UsedOf(LRU_remove(l, s))
  BY <1>1 DEF UsedOf, FreeOf
<1> QED
  BY <1>1, <1>2, AddKeepsApart DEF Touch

(* alloc() takes one slot, the first free one or the last on the LRU list, *)
(* although it forgets the links of a slot that is still on that list.     *)
LEMMA AllocKeepsApart ==
    ASSUME Apart(lists), Evicting => lists.LRU_last # Nil
    PROVE  /\ Victim \in Slots
           /\ Apart(AllocLists)
           /\ Victim \in UsedOf(AllocLists)
           /\ FreeOf(AllocLists) = FreeOf(lists) \ {Victim}
           /\ AllocLists.LRU_last # Nil
<1> DEFINE p == [lists EXCEPT !.FREE_first = IF Evicting THEN @ ELSE lists.next[@]]
           q == InitLinks(p, Victim)
<1>1. lists \in ListType /\ FreeOf(lists) \subseteq Slots
  BY DEF Apart, ListType, FreeOf, Slots, Nil
<1>2. Victim \in Slots
  BY <1>1 DEF Victim, Evicting, ListType
<1>3. CASE Evicting
  <2>1. p = lists
    BY <1>1, <1>3 DEF ListType
  <2>2. /\ q \in ListType
        /\ q.FREE_first = lists.FREE_first /\ q.LRU_first = lists.LRU_first
        /\ q.LRU_last = lists.LRU_last
        /\ \A t \in Slots : q.next[t] = IF t = Victim THEN Nil ELSE lists.next[t]
        /\ \A t \in Slots : q.prev[t] = IF t = Victim THEN Nil ELSE lists.prev[t]
    BY <1>1, <1>2, <2>1 DEF InitLinks, ListType, Links
  <2> HIDE DEF q, p
  <2>3. FreeOf(q) = {} /\ FreeOf(lists) = {}
    BY <1>3, <2>2 DEF FreeOf, Evicting
  <2>4. Apart(q)
    BY <2>2, <2>3 DEF Apart, UsedOf
  <2>5. Victim \in UsedOf(q)
    BY <1>2, <2>3 DEF UsedOf
  <2>6. AllocLists = Touch(q, Victim)
    BY DEF AllocLists, q, p
  <2>7. /\ Apart(AllocLists) /\ AllocLists.FREE_first = q.FREE_first
        /\ AllocLists.LRU_last # Nil
    BY <2>4, <2>5, <2>6, TouchKeepsApart
  <2> QED
    BY <1>2, <2>3, <2>7 DEF FreeOf, UsedOf
<1>4. CASE ~Evicting
  <2>1. Victim = lists.FREE_first /\ Victim \in FreeOf(lists)
    BY <1>2, <1>4 DEF Victim, Evicting, FreeOf, Slots
  <2>2. lists.next[Victim] = IF Victim = Size - 1 THEN Nil ELSE Victim + 1
    BY <2>1 DEF Apart
  <2>3. /\ q \in ListType
        /\ q.FREE_first = lists.next[Victim] /\ q.LRU_first = lists.LRU_first
        /\ q.LRU_last = lists.LRU_last
        /\ \A t \in Slots : q.next[t] = IF t = Victim THEN Nil ELSE lists.next[t]
        /\ \A t \in Slots : q.prev[t] = IF t = Victim THEN Nil ELSE lists.prev[t]
    BY <1>1, <1>2, <1>4, <2>1 DEF InitLinks, ListType, Links
  <2> HIDE DEF q, p
  <2>4. FreeOf(q) = FreeOf(lists) \ {Victim}
    BY <1>1, <1>2, <1>4, <2>1, <2>2, <2>3 DEF FreeOf, Slots, Nil, Evicting
  <2>5. UsedOf(q) = UsedOf(lists) \cup {Victim} /\ Victim \in UsedOf(q)
    BY <1>2, <2>4 DEF UsedOf
  <2>6. Apart(q)
    BY <1>1, <2>3, <2>4, <2>5 DEF Apart, UsedOf
  <2>7. AllocLists = Touch(q, Victim)
    BY DEF AllocLists, q, p
  <2>8. /\ Apart(AllocLists) /\ AllocLists.FREE_first = q.FREE_first
        /\ AllocLists.LRU_last # Nil
    BY <2>5, <2>6, <2>7, TouchKeepsApart
  <2> QED
    BY <1>2, <2>4, <2>5, <2>8 DEF FreeOf, UsedOf
<1> QED
  BY <1>3, <1>4

-----------------------------------------------------------------------------
(***************************************************************************)
(* The invariant of the whole state.  ListsApart gives alloc() a slot to   *)
(* evict, SlotsFilled gives the writes a block to write: TypeOK is not     *)
(* inductive without them.                                                 *)
(***************************************************************************)
IInv == TypeOK /\ ListsApart /\ SlotsFilled

(* IInv without the variables that upsert() does not assign. *)
Mgr ==
    /\ Apart(lists)
    /\ Evicting => lists.LRU_last # Nil
    /\ hashtable \in [BlkIds -> Slots \cup {Nil}]
    /\ id \in [Slots -> BlkIds \cup {NoBlk}]
    /\ dirty \in [Slots -> BOOLEAN]
    /\ data \in [Slots -> Data \cup {NoData}]
    /\ disk \in [Blk -> Data]
    /\ faults \in 0 .. MaxFaults
    /\ \A b \in BlkIds : hashtable[b] # Nil =>
          hashtable[b] \in UsedOf(lists) /\ data[hashtable[b]] \in Data
    /\ \A s \in Slots : dirty[s] => s \in UsedOf(lists) /\ data[s] \in Data

Rest ==
    /\ sync_at \in 0 .. Size \cup {Nil}
    /\ ret \in [op : {"open", "read", "write", "sync", "sync_all"},
                blk : BlkIds \cup {NoBlk}, rc : {kSuccess, kFail},
                val : Data \cup {NoData}]

(* IInv splits along the variables: what upsert() assigns, and the rest.   *)
LEMMA IInvParts == IInv <=> Mgr /\ Rest
<1>1. Free = FreeOf(lists) /\ Used = UsedOf(lists)
  BY DEF Free, FreeOf, Used, UsedOf
<1>2. ListsApart /\ lists \in ListType <=> Apart(lists) /\ (Evicting => lists.LRU_last # Nil)
  BY <1>1 DEF ListsApart, Apart
<1>3. SlotsFilled <=>
        /\ \A b \in BlkIds : hashtable[b] # Nil =>
              hashtable[b] \in UsedOf(lists) /\ data[hashtable[b]] \in Data
        /\ \A s \in Slots : dirty[s] => s \in UsedOf(lists) /\ data[s] \in Data
  BY <1>1 DEF SlotsFilled
<1> QED
  BY <1>2, <1>3 DEF IInv, Mgr, Rest, TypeOK, ListType

(* A miss in upsert(): every outcome of its write-back and its read. *)
LEMMA UpsertKeepsMgr ==
    ASSUME Mgr, NEW b \in BlkIds, NEW v \in Data, NEW pw \in BOOLEAN, NEW pr \in BOOLEAN,
           UpsertMiss(b, v, pw, pr)
    PROVE  Mgr'
<1> DEFINE s == Victim
           allocated == NeedsWriteBack => pw
<1>1. /\ s \in Slots
      /\ Apart(AllocLists) /\ s \in UsedOf(AllocLists)
      /\ FreeOf(AllocLists) = FreeOf(lists) \ {s}
      /\ AllocLists.LRU_last # Nil
  BY AllocKeepsApart DEF Mgr
<1>2. /\ lists' = IF allocated THEN AllocLists ELSE lists
      /\ disk'  = IF NeedsWriteBack /\ pw THEN [disk EXCEPT ![id[s]] = data[s]] ELSE disk
      /\ hashtable' = Entered(b, allocated, pr)
      /\ id'    = [id EXCEPT ![s] = b]
      /\ data'  = [data EXCEPT ![s] = IF pr THEN v ELSE @]
      /\ dirty' = [dirty EXCEPT ![s] = pr \/ (~allocated /\ @)]
      /\ faults' = faults + Failures(b, pw, pr)
      /\ faults + Failures(b, pw, pr) <= MaxFaults
  BY DEF UpsertMiss, CanFail
<1> HIDE DEF s, allocated
<1>3. Apart(lists')
  BY <1>1, <1>2 DEF Mgr
<1>4. Evicting' => lists'.LRU_last # Nil
  BY <1>1, <1>2 DEF Mgr, Evicting
<1>5. UsedOf(lists) \subseteq UsedOf(lists') /\ s \in UsedOf(lists')
  <2>1. CASE allocated
    BY <1>1, <1>2, <2>1 DEF UsedOf
  <2>2. CASE ~allocated
    BY <1>1, <1>2, <2>2 DEF UsedOf, FreeOf, allocated, NeedsWriteBack, Evicting
  <2> QED
    BY <2>1, <2>2
<1>6. hashtable' \in [BlkIds -> Slots \cup {Nil}]
  BY <1>1, <1>2 DEF Mgr, Entered, Erased, s
<1>7. id' \in [Slots -> BlkIds \cup {NoBlk}]
  BY <1>1, <1>2 DEF Mgr
<1>8. dirty' \in [Slots -> BOOLEAN]
  BY <1>1, <1>2 DEF Mgr
<1>9. data' \in [Slots -> Data \cup {NoData}]
  BY <1>1, <1>2 DEF Mgr
<1>10. disk' \in [Blk -> Data]
  BY <1>1, <1>2 DEF Mgr, NeedsWriteBack, s
<1>11. faults' \in 0 .. MaxFaults
  <2>1. Failures(b, pw, pr) \in Nat
    BY DEF Failures
  <2> QED
    BY <1>2, <2>1, FaultsAssumption DEF Mgr
<1>12. \A x \in BlkIds : hashtable'[x] # Nil =>
          hashtable'[x] \in UsedOf(lists') /\ data'[hashtable'[x]] \in Data
  <2> SUFFICES ASSUME NEW x \in BlkIds, hashtable'[x] # Nil
               PROVE  hashtable'[x] \in UsedOf(lists') /\ data'[hashtable'[x]] \in Data
    OBVIOUS
  <2>1. CASE x = b /\ pr
    BY <1>1, <1>2, <1>5, <2>1 DEF Mgr, Entered, Erased, s
  <2>2. CASE ~(x = b /\ pr)
    <3>1. hashtable'[x] = hashtable[x] /\ hashtable[x] # Nil
      BY <1>1, <1>2, <2>2 DEF Mgr, Entered, Erased, s
    <3>2. hashtable[x] \in UsedOf(lists) /\ data[hashtable[x]] \in Data
      BY <3>1 DEF Mgr
    <3> QED
      BY <1>1, <1>2, <1>5, <3>1, <3>2 DEF Mgr, UsedOf
  <2> QED
    BY <2>1, <2>2
<1>13. \A t \in Slots : dirty'[t] => t \in UsedOf(lists') /\ data'[t] \in Data
  BY <1>1, <1>2, <1>5 DEF Mgr
<1> QED
  BY <1>3, <1>4, <1>6, <1>7, <1>8, <1>9, <1>10, <1>11, <1>12, <1>13 DEF Mgr

(* The lists as the constructor leaves them: every slot is free. *)
LEMMA EmptyListsApart ==
    /\ Apart(EmptyLists)
    /\ EmptyLists.FREE_first # Nil
<1>1. EmptyLists \in ListType
  BY DEF EmptyLists, ListType, Links, Slots, Nil
<1>2. FreeOf(EmptyLists) = Slots /\ UsedOf(EmptyLists) = {}
  BY DEF EmptyLists, FreeOf, UsedOf, Slots, Nil
<1>3. /\ EmptyLists.FREE_first # Nil /\ EmptyLists.LRU_first = Nil /\ EmptyLists.LRU_last = Nil
      /\ \A s \in Slots : EmptyLists.next[s] = IF s = Size - 1 THEN Nil ELSE s + 1
  BY DEF EmptyLists, Slots, Nil
<1> QED
  BY <1>1, <1>2, <1>3 DEF Apart

(* Opening the device establishes IInv. *)
LEMMA InitIInv == Init => IInv
<1> SUFFICES ASSUME Init PROVE Mgr /\ Rest
  BY IInvParts
<1>1. Mgr
  BY EmptyListsApart, FaultsAssumption
     DEF Init, Mgr, Evicting, NoEntries, NoIds, AllClean, AllUnread, Slots, Nil
<1>2. Rest
  BY DEF Init, Rest, Opened, Answer, kSuccess
<1> QED
  BY <1>1, <1>2

(* Every operation keeps IInv. *)
LEMMA NextIInv == IInv /\ [Next]_vars => IInv'
<1>0. (IInv <=> Mgr /\ Rest)'
  BY IInvParts, PTL
<1> SUFFICES ASSUME Mgr, Rest, [Next]_vars PROVE Mgr' /\ Rest'
  BY <1>0, IInvParts
<1>1. ASSUME NEW b \in BlkIds, ReadHit(b) PROVE Mgr' /\ Rest'
  <2>1. hashtable[b] \in UsedOf(lists) /\ data[hashtable[b]] \in Data
    BY <1>1 DEF Mgr, ReadHit
  <2>2. Apart(lists') /\ lists'.FREE_first = lists.FREE_first /\ lists'.LRU_last # Nil
    BY <1>1, <2>1, TouchKeepsApart DEF Mgr, ReadHit
  <2>3. UsedOf(lists') = UsedOf(lists)
    BY <2>2 DEF UsedOf, FreeOf
  <2>4. Mgr'
    BY <1>1, <2>2, <2>3 DEF Mgr, ReadHit
  <2>5. Rest'
    BY <1>1, <2>1 DEF Rest, ReadHit, Answer
  <2> QED
    BY <2>4, <2>5
<1>2. ASSUME NEW b \in BlkIds, ReadFails(b) PROVE Mgr' /\ Rest'
  <2>1. faults' \in 0 .. MaxFaults
    BY <1>2, FaultsAssumption DEF Mgr, ReadFails, CanFail, Failures
  <2>2. Mgr'
    BY <1>2, <2>1 DEF Mgr, ReadFails, Evicting
  <2>3. Rest'
    BY <1>2 DEF Rest, ReadFails, Answer
  <2> QED
    BY <2>2, <2>3
<1>3. ASSUME NEW b \in BlkIds, NEW pw \in BOOLEAN, NEW pr \in BOOLEAN, ReadMiss(b, pw, pr)
      PROVE  Mgr' /\ Rest'
  <2>1. disk[b] \in Data
    BY <1>3 DEF ReadMiss, Mgr
  <2>2. Mgr'
    BY <1>3, <2>1, UpsertKeepsMgr DEF ReadMiss
  <2>3. Rest'
    BY <1>3, <2>1 DEF Rest, ReadMiss, Answer
  <2> QED
    BY <2>2, <2>3
<1>4. ASSUME NEW b \in BlkIds, NEW v \in Data, WriteHit(b, v) PROVE Mgr' /\ Rest'
  <2>1. hashtable[b] \in UsedOf(lists) /\ hashtable[b] \in Slots
    BY <1>4 DEF Mgr, WriteHit, UsedOf
  <2>2. Apart(lists') /\ lists'.FREE_first = lists.FREE_first /\ lists'.LRU_last # Nil
    BY <1>4, <2>1, TouchKeepsApart DEF Mgr, WriteHit
  <2>3. UsedOf(lists') = UsedOf(lists)
    BY <2>2 DEF UsedOf, FreeOf
  <2>4. /\ data' \in [Slots -> Data \cup {NoData}] /\ dirty' \in [Slots -> BOOLEAN]
        /\ \A s \in Slots : data[s] \in Data => data'[s] \in Data
        /\ \A s \in Slots : dirty'[s] => dirty[s] \/ (s = hashtable[b] /\ data'[s] \in Data)
    BY <1>4, <2>1 DEF Mgr, WriteHit
  <2>5. Mgr'
    BY <1>4, <2>1, <2>2, <2>3, <2>4 DEF Mgr, WriteHit, UsedOf
  <2>6. Rest'
    BY <1>4 DEF Rest, WriteHit, Answer
  <2> QED
    BY <2>5, <2>6
<1>5. ASSUME NEW b \in BlkIds, NEW v \in Data, NEW pw \in BOOLEAN, NEW pr \in BOOLEAN,
             WriteMiss(b, v, pw, pr)
      PROVE  Mgr' /\ Rest'
  <2>1. Mgr'
    BY <1>5, UpsertKeepsMgr DEF WriteMiss
  <2>2. Rest'
    BY <1>5 DEF Rest, WriteMiss, Answer, Rc
  <2> QED
    BY <2>1, <2>2
<1>6. ASSUME NEW b \in BlkIds, NEW pw \in BOOLEAN, SyncHit(b, pw) PROVE Mgr' /\ Rest'
  <2>1. /\ hashtable[b] \in UsedOf(lists) /\ hashtable[b] \in Slots
        /\ data[hashtable[b]] \in Data
    BY <1>6 DEF Mgr, SyncHit, UsedOf
  <2>2. Apart(lists') /\ lists'.FREE_first = lists.FREE_first /\ lists'.LRU_last # Nil
    BY <1>6, <2>1, TouchKeepsApart DEF Mgr, SyncHit
  <2>3. UsedOf(lists') = UsedOf(lists)
    BY <2>2 DEF UsedOf, FreeOf
  <2>4. /\ disk' \in [Blk -> Data] /\ dirty' \in [Slots -> BOOLEAN]
        /\ \A s \in Slots : dirty'[s] => dirty[s]
    BY <1>6, <2>1 DEF Mgr, SyncHit
  <2>5. faults' \in 0 .. MaxFaults
    BY <1>6, FaultsAssumption DEF Mgr, SyncHit
  <2>6. Mgr'
    BY <1>6, <2>2, <2>3, <2>4, <2>5 DEF Mgr, SyncHit
  <2>7. Rest'
    BY <1>6 DEF Rest, SyncHit, Answer, Rc
  <2> QED
    BY <2>6, <2>7
<1>7. ASSUME NEW b \in BlkIds, SyncMiss(b) PROVE Mgr' /\ Rest'
  <2>1. Mgr'
    BY <1>7 DEF Mgr, SyncMiss, Evicting
  <2>2. Rest'
    BY <1>7 DEF Rest, SyncMiss, Answer
  <2> QED
    BY <2>1, <2>2
<1>8. CASE SyncAllStart
  <2>1. Mgr'
    BY <1>8 DEF Mgr, SyncAllStart, mgr, Evicting
  <2>2. Rest'
    BY <1>8 DEF Rest, SyncAllStart
  <2> QED
    BY <2>1, <2>2
<1>9. CASE SyncAllStep
  <2>1. disk' \in [Blk -> Data]
    BY <1>9 DEF Mgr, SyncAllStep
  <2>2. Mgr'
    BY <1>9, <2>1 DEF Mgr, SyncAllStep, mgr, Evicting
  <2>3. Rest'
    BY <1>9 DEF Rest, SyncAllStep, Slots
  <2> QED
    BY <2>2, <2>3
<1>10. CASE SyncAllFails
  <2>1. faults' \in 0 .. MaxFaults
    BY <1>10, FaultsAssumption DEF Mgr, SyncAllFails
  <2>2. Mgr'
    BY <1>10, <2>1 DEF Mgr, SyncAllFails, mgr, Evicting
  <2>3. Rest'
    BY <1>10 DEF Rest, SyncAllFails, Answer
  <2> QED
    BY <2>2, <2>3
<1>11. CASE SyncAllDone
  <2>1. Mgr'
    BY <1>11 DEF Mgr, SyncAllDone, mgr, Evicting
  <2>2. Rest'
    BY <1>11 DEF Rest, SyncAllDone, Answer
  <2> QED
    BY <2>1, <2>2
<1>12. CASE Crash
  <2>1. Mgr'
    BY <1>12, EmptyListsApart
       DEF Crash, Mgr, Evicting, NoEntries, NoIds, AllClean, AllUnread, Slots, Nil
  <2>2. Rest'
    BY <1>12 DEF Rest, Crash, Opened, Answer
  <2> QED
    BY <2>1, <2>2
<1>13. CASE UNCHANGED vars
  <2>1. Mgr'
    BY <1>13 DEF Mgr, vars, Evicting
  <2>2. Rest'
    BY <1>13 DEF Rest, vars
  <2> QED
    BY <2>1, <2>2
<1> QED
  BY <1>1, <1>2, <1>3, <1>4, <1>5, <1>6, <1>7, <1>8, <1>9, <1>10, <1>11, <1>12, <1>13
     DEF Next

(* The fields of the cache manager keep their types, whatever the disk     *)
(* file fails at and whenever the process dies: the links that alloc()     *)
(* follows stay inside _buffer.                                            *)
THEOREM TypeCorrect == Spec => []TypeOK
<1>1. IInv => TypeOK
  BY DEF IInv
<1> QED
  BY <1>1, InitIInv, NextIInv, PTL DEF Spec

(* The free list and the LRU list never run into each other, and a full    *)
(* cache has a slot to evict (alloc() in lru_cache.cpp).                   *)
THEOREM ListsStayApart == Spec => []ListsApart
<1>1. IInv => ListsApart
  BY DEF IInv
<1> QED
  BY <1>1, InitIInv, NextIInv, PTL DEF Spec

(* get() and the write-backs only touch slots with a block in them, after  *)
(* any failure of alloc() or of the read in get_page().                    *)
THEOREM SlotsStayFilled == Spec => []SlotsFilled
<1>1. IInv => SlotsFilled
  BY DEF IInv
<1> QED
  BY <1>1, InitIInv, NextIInv, PTL DEF Spec

=============================================================================
