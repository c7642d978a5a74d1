------------------------------ MODULE LRUCache ------------------------------
(***************************************************************************)
(* The block device of SBFS with its write-back cache: BlockDevice         *)
(* (src/blk_dev.cpp) over LRUCacheManager (src/lru_cache.cpp), as they are *)
(* built with -DBLOCK_CACHE.                                               *)
(*                                                                         *)
(* Every operation runs under the one mutex of vfs.cpp, so an operation is *)
(* one step.  The exception is sync_all: it is a loop over the slots, and  *)
(* a crash between two of its writes is visible in the disk file.          *)
(*                                                                         *)
(* The two intrusive lists share the prev and next fields of a slot, as in *)
(* BlockStatus.  Data blocks are opaque values.  A pread or pwrite of the  *)
(* disk file may fail, at most MaxFaults times in a behaviour.             *)
(***************************************************************************)
EXTENDS Integers

CONSTANTS
    Blk,        (* block ids inside the device                             *)
    BadBlk,     (* an id past the end of the device: pread returns 0 there *)
    Data,       (* block contents                                          *)
    NoData,     (* the content of a Block nobody has filled                *)
    NoBlk,      (* id of a slot that holds no block                        *)
    Size,       (* _size, the number of slots                              *)
    MaxFaults   (* bound: I/O errors of the disk file                      *)

ASSUME SizeAssumption == Size \in Nat \ {0}
ASSUME FaultsAssumption == MaxFaults \in Nat
ASSUME BlkAssumption ==
    /\ BadBlk \notin Blk
    /\ NoBlk \notin Blk \cup {BadBlk}
    /\ NoData \notin Data

VARIABLES
    lists,      (* FREE_first, LRU_first, LRU_last and every slot's links  *)
    hashtable,  (* hashtable[b]: slot of b, Nil when there is no entry     *)
    id,         (* id[s], dirty[s], data[s]: BlockStatus.id, its dirty bit *)
    dirty,      (*   and the Block of slot s                               *)
    data,
    disk,       (* the disk file                                           *)
    sync_at,    (* index of the running sync_all, Nil when none runs       *)
    faults,     (* I/O errors so far                                       *)
    ret         (* the last operation that returned, and its answer        *)

mgr  == <<lists, hashtable, id, dirty, data>>
vars == <<lists, hashtable, id, dirty, data, disk, sync_at, faults, ret>>

Nil      == -1
kSuccess == 0
kFail    == -1
Slots    == 0 .. Size - 1
BlkIds   == Blk \cup {BadBlk}

Answer(op, b, rc, v) == [op |-> op, blk |-> b, rc |-> rc, val |-> v]
Rc(ok) == IF ok THEN kSuccess ELSE kFail

-----------------------------------------------------------------------------
(***************************************************************************)
(* The lists.                                                              *)
(***************************************************************************)

(* Mutant of EmptyLists: the last slot is not singled out. *)
EmptyListsUnterminated ==
    [FREE_first |-> 0,
     LRU_first  |-> Nil,
     LRU_last   |-> Nil,
     prev       |-> [s \in Slots |-> s - 1],
     next       |-> [s \in Slots |-> s + 1]]

(* The constructor chains all the slots on the free list. *)
EmptyLists ==
    [FREE_first |-> 0,
     LRU_first  |-> Nil,
     LRU_last   |-> Nil,
     prev       |-> [s \in Slots |-> s - 1],
     next       |-> [s \in Slots |-> IF s = Size - 1 THEN Nil ELSE s + 1]]

(* Mutant of LRU_add: the first slot added is not the last one too. *)
LRU_addFrontOnly(l, s) ==
    [l EXCEPT !.LRU_first = s,
              !.next      = [@ EXCEPT ![s] = l.LRU_first],
              !.prev      = [t \in Slots |-> IF t = l.LRU_first THEN s
                                             ELSE IF t = s THEN Nil ELSE @[t]]]

LRU_add(l, s) ==
    [l EXCEPT !.LRU_first = s,
              !.LRU_last  = IF @ = Nil THEN s ELSE @,
              !.next      = [@ EXCEPT ![s] = l.LRU_first],
              !.prev      = [t \in Slots |-> IF t = l.LRU_first THEN s
                                             ELSE IF t = s THEN Nil ELSE @[t]]]

LRU_remove(l, s) ==
    [l EXCEPT !.LRU_first = IF @ = s THEN l.next[s] ELSE @,
              !.LRU_last  = IF @ = s THEN l.prev[s] ELSE @,
              !.next      = [t \in Slots |-> IF t = s THEN Nil
                                             ELSE IF t = l.prev[s] THEN l.next[s] ELSE @[t]],
              !.prev      = [t \in Slots |-> IF t = s THEN Nil
                                             ELSE IF t = l.next[s] THEN l.prev[s] ELSE @[t]]]

(* A use of a cached slot moves it to the front. *)
Touch(l, s) == LRU_add(LRU_remove(l, s), s)

(* The slot alloc() hands out, and whether it evicts a block to get it. *)
Evicting == lists.FREE_first = Nil
Victim   == IF Evicting THEN lists.LRU_last ELSE lists.FREE_first

(* BlockStatus::init() on the lists: it forgets the links of the slot. *)
InitLinks(l, s) == [l EXCEPT !.prev[s] = Nil, !.next[s] = Nil]

(* alloc() on the lists: init() comes before LRU_remove(), also for a slot *)
(* that is on the LRU list.                                                *)
AllocLists ==
    LET popped == [lists EXCEPT !.FREE_first = IF Evicting THEN @ ELSE lists.next[@]]
    IN  Touch(InitLinks(popped, Victim), Victim)

-----------------------------------------------------------------------------
(***************************************************************************)
(* The disk file.  Whether a pread or a pwrite succeeds is chosen here: it *)
(* fails past the end of the device, and while the budget of faults lasts. *)
(***************************************************************************)
(* Mutant of NeedsWriteBack: the victim's block is dropped. *)
NoWriteBack == FALSE

(* alloc() writes the victim's block to the disk file first if it is dirty. *)
NeedsWriteBack == Evicting /\ dirty[Victim]

Failures(b, pwrites, preads) ==
    (IF pwrites THEN 0 ELSE 1) + (IF b \in Blk /\ ~preads THEN 1 ELSE 0)

CanFail(b, pwrites, preads) ==
    /\ b = BadBlk => ~preads
    /\ faults + Failures(b, pwrites, preads) <= MaxFaults

(* Mutant of Erased: the victim's entry stays in the hash table. *)
EntryKept(allocated) == hashtable

(* The hash table after alloc(): the victim's id is erased. *)
Erased(allocated) ==
    IF Evicting /\ allocated THEN [hashtable EXCEPT ![id[Victim]] = Nil] ELSE hashtable

(* Mutant of Entered: the entry is made before the block is read. *)
EnteredEarly(b, allocated, preads) == [Erased(allocated) EXCEPT ![b] = Victim]

(* The hash table after get_page(). *)
Entered(b, allocated, preads) ==
    [Erased(allocated) EXCEPT ![b] = IF preads THEN Victim ELSE @]

(***************************************************************************)
(* upsert(b, v) of a block that is not in the hash table: get_page() with  *)
(* alloc() and read_from_disk() inside.  get_page() does not look at       *)
(* alloc()'s result, so after a failed write-back it goes on with the slot *)
(* it could not empty.  After a failed read the slot stays on the LRU list *)
(* with the block's id and no entry in the hash table.                     *)
(***************************************************************************)
UpsertMiss(b, v, pwrites, preads) ==
    LET s         == Victim
        allocated == NeedsWriteBack => pwrites
    IN  /\ ~pwrites => NeedsWriteBack
        /\ CanFail(b, pwrites, preads)
        /\ lists' = IF allocated THEN AllocLists ELSE lists
        /\ disk'  = IF NeedsWriteBack /\ pwrites
                      THEN [disk EXCEPT ![id[s]] = data[s]] ELSE disk
        /\ hashtable' = Entered(b, allocated, preads)
        /\ id'    = [id EXCEPT ![s] = b]
        /\ data'  = [data EXCEPT ![s] = IF preads THEN v ELSE @]
        /\ dirty' = [dirty EXCEPT ![s] = preads \/ (~allocated /\ @)]
        /\ faults' = faults + Failures(b, pwrites, preads)

-----------------------------------------------------------------------------
(***************************************************************************)
(* The operations of BlockDevice.                                          *)
(***************************************************************************)
Idle == sync_at = Nil

ReadHit(b) ==
    LET s == hashtable[b]
    IN  /\ Idle
        /\ s # Nil
        /\ lists' = Touch(lists, s)
        /\ ret' = Answer("read", b, kSuccess, data[s])
        /\ UNCHANGED <<hashtable, id, dirty, data, disk, sync_at, faults>>

(* pread() into the caller's buffer fails. *)
ReadFails(b) ==
    /\ Idle
    /\ hashtable[b] = Nil
    /\ CanFail(b, TRUE, FALSE)
    /\ faults' = faults + Failures(b, TRUE, FALSE)
    /\ ret' = Answer("read", b, kFail, NoData)
    /\ UNCHANGED <<lists, hashtable, id, dirty, data, disk, sync_at>>

(* What was read is put in the cache by upsert(), whose result is ignored. *)
ReadMiss(b, pwrites, preads) ==
    /\ Idle
    /\ b \in Blk
    /\ hashtable[b] = Nil
    /\ UpsertMiss(b, disk[b], pwrites, preads)
    /\ ret' = Answer("read", b, kSuccess, disk[b])
    /\ UNCHANGED sync_at

(* Mutant of WriteHit: the dirty bit is left as it was. *)
WriteHitClean(b, v) ==
    LET s == hashtable[b]
    IN  /\ Idle
        /\ s # Nil
        /\ lists' = Touch(lists, s)
        /\ data'  = [data EXCEPT ![s] = v]
        /\ ret' = Answer("write", b, kSuccess, NoData)
        /\ UNCHANGED <<hashtable, id, dirty, disk, sync_at, faults>>

WriteHit(b, v) ==
    LET s == hashtable[b]
    IN  /\ Idle
        /\ s # Nil
        /\ lists' = Touch(lists, s)
        /\ data'  = [data EXCEPT ![s] = v]
        /\ dirty' = [dirty EXCEPT ![s] = TRUE]
        /\ ret' = Answer("write", b, kSuccess, NoData)
        /\ UNCHANGED <<hashtable, id, disk, sync_at, faults>>

WriteMiss(b, v, pwrites, preads) ==
    /\ Idle
    /\ hashtable[b] = Nil
    /\ UpsertMiss(b, v, pwrites, preads)
    /\ ret' = Answer("write", b, Rc(preads), NoData)
    /\ UNCHANGED sync_at

(* The dirty bit is cleared before the write, whatever becomes of it. *)
SyncHit(b, pwrites) ==
    LET s == hashtable[b]
    IN  /\ Idle
        /\ s # Nil
        /\ ~pwrites => dirty[s] /\ faults < MaxFaults
        /\ lists' = Touch(lists, s)
        /\ dirty' = [dirty EXCEPT ![s] = FALSE]
        /\ disk'  = IF dirty[s] /\ pwrites THEN [disk EXCEPT ![b] = data[s]] ELSE disk
        /\ faults' = faults + (IF pwrites THEN 0 ELSE 1)
        /\ ret' = Answer("sync", b, Rc(pwrites), NoData)
        /\ UNCHANGED <<hashtable, id, data, sync_at>>

SyncMiss(b) ==
    /\ Idle
    /\ hashtable[b] = Nil
    /\ ret' = Answer("sync", b, kFail, NoData)
    /\ UNCHANGED <<lists, hashtable, id, dirty, data, disk, sync_at, faults>>

(* Mutant of SyncAllStart: the loop begins at slot 1. *)
SyncAllStartLate ==
    /\ Idle
    /\ sync_at' = 1
    /\ UNCHANGED <<mgr, disk, faults, ret>>

SyncAllStart ==
    /\ Idle
    /\ sync_at' = 0
    /\ UNCHANGED <<mgr, disk, faults, ret>>

(* One iteration: the slot is written when dirty and stays dirty. *)
SyncAllStep ==
    /\ sync_at \in Slots
    /\ disk' = IF dirty[sync_at] THEN [disk EXCEPT ![id[sync_at]] = data[sync_at]] ELSE disk
    /\ sync_at' = sync_at + 1
    /\ UNCHANGED <<mgr, faults, ret>>

(* The first write that fails ends the loop. *)
SyncAllFails ==
    /\ sync_at \in Slots
    /\ dirty[sync_at]
    /\ faults < MaxFaults
    /\ faults' = faults + 1
    /\ sync_at' = Nil
    /\ ret' = Answer("sync_all", NoBlk, kFail, NoData)
    /\ UNCHANGED <<mgr, disk>>

SyncAllDone ==
    /\ sync_at = Size
    /\ sync_at' = Nil
    /\ ret' = Answer("sync_all", NoBlk, kSuccess, NoData)
    /\ UNCHANGED <<mgr, disk, faults>>

-----------------------------------------------------------------------------
(* The state of a cache manager just constructed.  The id of a slot that   *)
(* was never handed out is zero in the code; nothing looks at it.          *)
NoEntries  == [b \in BlkIds |-> Nil]
NoIds      == [s \in Slots |-> NoBlk]
AllClean   == [s \in Slots |-> FALSE]
AllUnread  == [s \in Slots |-> NoData]
Opened     == Answer("open", NoBlk, kSuccess, NoData)

Init ==
    /\ lists = EmptyLists
    /\ hashtable = NoEntries
    /\ id = NoIds
    /\ dirty = AllClean
    /\ data = AllUnread
    /\ disk \in [Blk -> Data]
    /\ sync_at = Nil
    /\ faults = 0
    /\ ret = Opened

(* The process dies, in a running sync_all or not, and the device is       *)
(* opened again: the constructors run, the disk file is what it was.       *)
Crash ==
    /\ lists' = EmptyLists
    /\ hashtable' = NoEntries
    /\ id' = NoIds
    /\ dirty' = AllClean
    /\ data' = AllUnread
    /\ sync_at' = Nil
    /\ ret' = Opened
    /\ UNCHANGED <<disk, faults>>

Next ==
    \/ \E b \in BlkIds :
          \/ ReadHit(b)
          \/ ReadFails(b)
          \/ \E pw, pr \in BOOLEAN : ReadMiss(b, pw, pr)
          \/ \E v \in Data : WriteHit(b, v)
          \/ \E v \in Data, pw, pr \in BOOLEAN : WriteMiss(b, v, pw, pr)
          \/ \E pw \in BOOLEAN : SyncHit(b, pw)
          \/ SyncMiss(b)
    \/ SyncAllStart
    \/ SyncAllStep
    \/ SyncAllFails
    \/ SyncAllDone
    \/ Crash

Spec == Init /\ [][Next]_vars

-----------------------------------------------------------------------------
(***************************************************************************)
(* Properties.                                                             *)
(***************************************************************************)
Links == [Slots -> Slots \cup {Nil}]

(* Every field of the cache manager holds a value of its type; the links   *)
(* of the slots stay inside _buffer.                                       *)
TypeOK ==
    /\ lists \in [FREE_first : Slots \cup {Nil},
                  LRU_first  : Slots \cup {Nil},
                  LRU_last   : Slots \cup {Nil},
                  prev : Links, next : Links]
    /\ hashtable \in [BlkIds -> Slots \cup {Nil}]
    /\ id \in [Slots -> BlkIds \cup {NoBlk}]
    /\ dirty \in [Slots -> BOOLEAN]
    /\ data \in [Slots -> Data \cup {NoData}]
    /\ disk \in [Blk -> Data]
    /\ sync_at \in 0 .. Size \cup {Nil}
    /\ faults \in 0 .. MaxFaults
    /\ ret \in [op : {"open", "read", "write", "sync", "sync_all"},
                blk : BlkIds \cup {NoBlk}, rc : {kSuccess, kFail},
                val : Data \cup {NoData}]

(* The slots alloc() has not handed out yet are the last ones: nothing     *)
(* but alloc() takes from the free list and, without remove(), nothing     *)
(* gives back to it.                                                       *)
Free == IF lists.FREE_first = Nil THEN {} ELSE lists.FREE_first .. Size - 1
Used == Slots \ Free

(* The free list and the LRU list never run into each other, although they *)
(* share the link fields and although eviction leaves stale links behind:  *)
(* the links of a used slot lead to used slots, those of a free slot to    *)
(* the next free one, and a full cache always has a slot to evict, so that *)
(* alloc() never returns "no free block in cache" (lru_cache.cpp:197).     *)
ListsApart ==
    /\ \A s \in Used : {lists.prev[s], lists.next[s]} \subseteq Used \cup {Nil}
    /\ \A s \in Free : lists.next[s] = IF s = Size - 1 THEN Nil ELSE s + 1
    /\ {lists.LRU_first, lists.LRU_last} \subseteq Used \cup {Nil}
    /\ lists.LRU_last = Nil => ~Evicting

(* Whatever errors the disk file made, get() never returns and no write-   *)
(* back writes the buffer of a slot nobody has filled: the entries of the  *)
(* hash table and the dirty bits are those of slots with a block in them.  *)
SlotsFilled ==
    /\ \A b \in BlkIds : hashtable[b] # Nil =>
          hashtable[b] \in Used /\ data[hashtable[b]] \in Data
    /\ \A s \in Slots : dirty[s] => s \in Used /\ data[s] \in Data

(* The hash table and the slots' ids agree: an entry leads to a used slot  *)
(* with that id, and every used slot is the one its id leads to or the     *)
(* clean remains of a failed access past the end of the device.  So no two *)
(* blocks share a slot and no cached write is unreachable.                 *)
IndexSound ==
    /\ hashtable[BadBlk] = Nil
    /\ \A b \in Blk : hashtable[b] # Nil =>
          hashtable[b] \in Used /\ id[hashtable[b]] = b
    /\ \A s \in Used :
          \/ id[s] \in Blk /\ hashtable[id[s]] = s
          \/ id[s] = BadBlk /\ ~dirty[s]

(* What a read of each block returns. *)
Content == [b \in Blk |-> IF hashtable[b] = Nil THEN disk[b] ELSE data[hashtable[b]]]

(* A block the cache holds as clean is what the disk file holds, so that   *)
(* alloc() may drop it without a write.                                    *)
CleanIsOnDisk ==
    \A b \in Blk : hashtable[b] # Nil /\ ~dirty[hashtable[b]] => Content[b] = disk[b]

(* While sync_all() runs, what the slots behind its index hold is in the   *)
(* disk file, although their dirty bits stay set: a crash in the middle    *)
(* loses none of it.                                                       *)
SyncAllProgress ==
    sync_at # Nil =>
        \A b \in Blk : hashtable[b] # Nil /\ hashtable[b] < sync_at => Content[b] = disk[b]

(* The device with its cache implements the plain block store: reads       *)
(* return what was last written or survived the last crash, sync() and     *)
(* sync_all() make durable what they say, a crash loses nothing else.      *)
Store == INSTANCE BlockStore WITH content <- Content, durable <- disk
StoreSpec == Store!Spec

=============================================================================
