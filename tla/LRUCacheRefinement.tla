------------------------- MODULE LRUCacheRefinement -------------------------
(***************************************************************************)
(* As long as the disk file makes no error, the device with its cache is   *)
(* the plain block store of BlockStore: the proof, for any number of slots *)
(* and blocks.                                                             *)
(***************************************************************************)
EXTENDS LRUCacheProofs

(* What holds before the first error of the disk file. *)
Sound == IndexSound /\ CleanIsOnDisk /\ SyncAllProgress

(***************************************************************************)
(* A miss in upsert() without an error: the block evicted is in the disk   *)
(* file, b is v, all other blocks read as before.                          *)
(***************************************************************************)
LEMMA UpsertSound ==
    ASSUME Mgr, IndexSound, CleanIsOnDisk,
           NEW b \in BlkIds, NEW v \in Data, NEW pw \in BOOLEAN, NEW pr \in BOOLEAN,
           hashtable[b] = Nil, faults = 0, faults' = 0,
           UpsertMiss(b, v, pw, pr)
    PROVE  /\ pr <=> b \in Blk
           /\ IndexSound' /\ CleanIsOnDisk'
           /\ Content' = [x \in Blk |-> IF x = b THEN v ELSE Content[x]]
           /\ Store!WriteBack
<1> DEFINE s == Victim
<1>1. pw = TRUE /\ (pr <=> b \in Blk)
  BY BlkAssumption DEF UpsertMiss, CanFail, Failures, BlkIds
<1>2. /\ s \in Slots
      /\ FreeOf(AllocLists) = FreeOf(lists) \ {s}
      /\ s \in UsedOf(AllocLists)
  BY AllocKeepsApart DEF Mgr
<1>3. Used' = Used \cup {s}
  BY <1>1, <1>2 DEF UpsertMiss, Used, Free, FreeOf, UsedOf
<1>4. Evicting => s \in Used
  BY <1>2 DEF Evicting, Used, Free
<1>5. ~Evicting => s \notin Used
  BY <1>2 DEF Evicting, Victim, Used, Free, Slots, Nil
<1>6. /\ disk' = IF NeedsWriteBack THEN [disk EXCEPT ![id[s]] = data[s]] ELSE disk
      /\ hashtable' = Entered(b, TRUE, pr)
      /\ id' = [id EXCEPT ![s] = b]
      /\ data' = [data EXCEPT ![s] = IF pr THEN v ELSE @]
      /\ dirty' = [dirty EXCEPT ![s] = pr]
  <2>1. (NeedsWriteBack => pw) = TRUE
    BY <1>1
  <2> QED
    BY <1>1, <2>1 DEF UpsertMiss, Mgr
<1>7. \A x \in BlkIds : hashtable'[x] = IF x = b /\ pr THEN s
                                        ELSE IF Evicting /\ x = id[s] THEN Nil
                                        ELSE hashtable[x]
  BY <1>6 DEF Mgr, Entered, Erased
<1>8. NeedsWriteBack => id[s] \in Blk
  BY <1>4 DEF NeedsWriteBack, IndexSound
<1>9. \A x \in Blk : hashtable[x] = s => Evicting /\ x = id[s]
  BY <1>2, <1>5 DEF IndexSound, Slots, Nil
<1> HIDE DEF s
<1>10. b # id[s] \/ ~Evicting \/ b = BadBlk
  BY <1>2, <1>4 DEF IndexSound, Slots, Nil, BlkIds
<1>11. \A x \in Blk : disk'[x] = IF NeedsWriteBack /\ x = id[s] THEN data[s] ELSE disk[x]
  BY <1>6, <1>8 DEF Mgr
<1>12. disk' \in [Blk -> Data] /\ disk \in [Blk -> Data]
  BY UpsertKeepsMgr DEF Mgr
<1>13. \A x \in Blk : hashtable'[x] # Nil /\ x # b =>
          hashtable'[x] = hashtable[x] /\ hashtable[x] # s
  BY <1>7, <1>9 DEF BlkIds
<1>14. IndexSound'
  <2>1. hashtable'[BadBlk] = Nil
    BY <1>1, <1>7, BlkAssumption DEF IndexSound, BlkIds
  <2>2. \A x \in Blk : hashtable'[x] # Nil => hashtable'[x] \in Used' /\ id'[hashtable'[x]] = x
    <3> SUFFICES ASSUME NEW x \in Blk, hashtable'[x] # Nil
                 PROVE  hashtable'[x] \in Used' /\ id'[hashtable'[x]] = x
      OBVIOUS
    <3>1. CASE x = b
      BY <1>1, <1>2, <1>3, <1>6, <1>7, <3>1 DEF Mgr, BlkIds
    <3>2. CASE x # b
      <4>1. hashtable'[x] = hashtable[x] /\ hashtable[x] # s
        BY <1>13, <3>2
      <4>2. hashtable[x] \in Used /\ id[hashtable[x]] = x
        BY <4>1 DEF IndexSound
      <4>3. hashtable[x] \in Slots
        BY <4>2 DEF Used
      <4> QED
        BY <1>3, <1>6, <4>1, <4>2, <4>3 DEF Mgr
    <3> QED
      BY <3>1, <3>2
  <2>3. \A t \in Used' : \/ id'[t] \in Blk /\ hashtable'[id'[t]] = t
                         \/ id'[t] = BadBlk /\ ~dirty'[t]
    <3> SUFFICES ASSUME NEW t \in Used'
                 PROVE  \/ id'[t] \in Blk /\ hashtable'[id'[t]] = t
                        \/ id'[t] = BadBlk /\ ~dirty'[t]
      OBVIOUS
    <3>1. CASE t = s
      BY <1>1, <1>2, <1>6, <1>7, <3>1 DEF Mgr, BlkIds
    <3>2. CASE t # s
      <4>1. t \in Used /\ t \in Slots
        BY <1>3, <3>2 DEF Used
      <4>2. id'[t] = id[t] /\ dirty'[t] = dirty[t]
        BY <1>6, <3>2, <4>1 DEF Mgr
      <4>3. CASE id[t] \in Blk /\ hashtable[id[t]] = t
        <5>1. id[t] # b
          BY <4>1, <4>3 DEF Slots, Nil
        <5>2. Evicting => id[t] # id[s]
          BY <1>4, <3>2, <4>3, BlkAssumption DEF IndexSound
        <5> QED
          BY <1>7, <4>2, <4>3, <5>1, <5>2 DEF BlkIds
      <4>4. CASE id[t] = BadBlk /\ ~dirty[t]
        BY <4>2, <4>4
      <4> QED
        BY <4>1, <4>3, <4>4 DEF IndexSound
    <3> QED
      BY <3>1, <3>2
  <2> QED
    BY <2>1, <2>2, <2>3 DEF IndexSound
<1>15. \A x \in Blk : Content'[x] = IF x = b THEN v ELSE Content[x]
  <2> SUFFICES ASSUME NEW x \in Blk PROVE Content'[x] = IF x = b THEN v ELSE Content[x]
    OBVIOUS
  <2>0. Content'[x] = IF hashtable'[x] = Nil THEN disk'[x] ELSE data'[hashtable'[x]]
    BY DEF Content
  <2>1. CASE x = b
    <3>1. hashtable'[x] = s /\ s # Nil
      BY <1>1, <1>2, <1>7, <2>1 DEF BlkIds, Slots, Nil
    <3>2. data'[s] = v
      BY <1>1, <1>2, <1>6, <2>1 DEF Mgr
    <3> QED
      BY <2>0, <2>1, <3>1, <3>2
  <2>2. CASE x # b /\ hashtable'[x] # Nil
    <3>1. hashtable'[x] = hashtable[x] /\ hashtable[x] # s
      BY <1>13, <2>2
    <3>2. data'[hashtable[x]] = data[hashtable[x]]
      BY <1>6, <2>2, <3>1 DEF Mgr, BlkIds
    <3> QED
      BY <2>0, <2>2, <3>1, <3>2 DEF Content
  <2>3. CASE x # b /\ hashtable'[x] = Nil /\ Evicting /\ x = id[s]
    <3>1. hashtable[x] = s
      BY <1>4, <2>3, BlkAssumption DEF IndexSound
    <3>2. Content[x] = data[s]
      BY <1>2, <3>1 DEF Content, Slots, Nil
    <3>3. dirty[s] \/ data[s] = disk[x]
      BY <1>2, <3>1, <3>2 DEF CleanIsOnDisk, Slots, Nil
    <3>4. NeedsWriteBack <=> dirty[s]
      BY <2>3 DEF NeedsWriteBack, s
    <3> QED
      BY <1>11, <2>0, <2>3, <3>2, <3>3, <3>4
  <2>4. CASE x # b /\ hashtable'[x] = Nil /\ ~(Evicting /\ x = id[s])
    <3>1. hashtable[x] = Nil
      BY <1>7, <2>4 DEF BlkIds
    <3>2. disk'[x] = disk[x]
      BY <1>11, <2>4 DEF NeedsWriteBack
    <3> QED
      BY <2>0, <2>4, <3>1, <3>2 DEF Content
  <2> QED
    BY <2>1, <2>2, <2>3, <2>4
<1>16. Content' = [x \in Blk |-> IF x = b THEN v ELSE Content[x]]
  BY <1>15 DEF Content
<1>17. CleanIsOnDisk'
  <2> SUFFICES ASSUME NEW x \in Blk, hashtable'[x] # Nil, ~dirty'[hashtable'[x]]
               PROVE  Content'[x] = disk'[x]
    BY DEF CleanIsOnDisk
  <2>1. x # b
    BY <1>1, <1>2, <1>6, <1>7 DEF Mgr, BlkIds
  <2>2. hashtable'[x] = hashtable[x] /\ hashtable[x] # s
    BY <1>13, <2>1
  <2>3. dirty'[hashtable[x]] = dirty[hashtable[x]]
    BY <1>6, <2>2 DEF Mgr, BlkIds
  <2>4. Content[x] = disk[x]
    BY <2>2, <2>3 DEF CleanIsOnDisk
  <2>5. ~(Evicting /\ x = id[s])
    BY <1>7, <2>1 DEF BlkIds
  <2>6. disk'[x] = disk[x]
    BY <1>11, <2>5 DEF NeedsWriteBack
  <2> QED
    BY <1>15, <2>1, <2>4, <2>6
<1>18. Store!WriteBack
  <2> DEFINE S == IF NeedsWriteBack THEN {id[s]} ELSE {}
  <2>1. S \in SUBSET Blk
    BY <1>8
  <2>2. NeedsWriteBack => Content[id[s]] = data[s]
    BY <1>2, <1>4, <1>8, BlkAssumption DEF Content, IndexSound, NeedsWriteBack, Slots, Nil
  <2>3. disk' = [x \in Blk |-> IF x \in S THEN Content[x] ELSE disk[x]]
    BY <1>11, <1>12, <2>2
  <2> QED
    BY <2>1, <2>3 DEF Store!WriteBack
<1> QED
  BY <1>1, <1>14, <1>16, <1>17, <1>18

(***************************************************************************)
(* A hit changes no entry of the hash table and no id.  If in addition no  *)
(* slot is freed, the index stays sound.                                   *)
(***************************************************************************)
LEMMA HitKeepsIndex ==
    ASSUME Mgr, IndexSound, NEW b \in BlkIds, hashtable[b] # Nil,
           lists' = Touch(lists, hashtable[b]), hashtable' = hashtable, id' = id,
           \A t \in Slots : dirty'[t] => dirty[t] \/ t = hashtable[b]
    PROVE  b \in Blk /\ hashtable[b] \in Slots /\ id[hashtable[b]] = b /\ IndexSound'
<1>1. b \in Blk /\ hashtable[b] \in Used /\ id[hashtable[b]] = b
  BY DEF IndexSound, BlkIds
<1>2. hashtable[b] \in UsedOf(lists) /\ hashtable[b] \in Slots
  BY <1>1 DEF Used, Free, UsedOf, FreeOf
<1>3. lists'.FREE_first = lists.FREE_first
  BY <1>2, TouchKeepsApart DEF Mgr
<1>4. Used' = Used /\ Used \subseteq Slots
  BY <1>3 DEF Used, Free
<1>5. IndexSound'
  BY <1>1, <1>4, BlkAssumption DEF IndexSound
<1> QED
  BY <1>1, <1>2, <1>5

(* Nothing written: the store may always write back nothing. *)
LEMMA NothingWritten == disk \in [Blk -> Data] /\ disk' = disk => Store!WriteBack
<1> SUFFICES ASSUME disk \in [Blk -> Data], disk' = disk PROVE Store!WriteBack
  OBVIOUS
<1>1. {} \in SUBSET Blk /\ disk' = [x \in Blk |-> IF x \in {} THEN Content[x] ELSE disk[x]]
  OBVIOUS
<1> QED
  BY <1>1 DEF Store!WriteBack

(***************************************************************************)
(* Without an error every operation keeps Sound and is an operation of the *)
(* block store.  The dirty bits that sync_all() leaves set and the slots   *)
(* that an access past the end of the device leaves behind are harmless.   *)
(***************************************************************************)
LEMMA StepSound ==
    ASSUME Mgr, Rest, Sound, faults = 0, faults' = 0, [Next]_vars
    PROVE  Sound' /\ [Store!Next]_(Store!vars)
<1> USE DEF Sound
<1>1. ASSUME NEW b \in BlkIds, ReadHit(b) PROVE Sound' /\ Store!Next
  <2>1. b \in Blk /\ IndexSound'
    BY <1>1, HitKeepsIndex DEF ReadHit
  <2>2. Content' = Content
    BY <1>1 DEF ReadHit, Content
  <2>3. CleanIsOnDisk' /\ SyncAllProgress'
    BY <1>1, <2>2 DEF ReadHit, CleanIsOnDisk, SyncAllProgress
  <2>4. ret' = Store!Answer("read", b, Store!kSuccess, Content[b])
    BY <1>1, <2>1 DEF ReadHit, Answer, Store!Answer, kSuccess, Store!kSuccess, Content
  <2>5. Store!Read(b)
    BY <1>1, <2>1, <2>2, <2>4, NothingWritten DEF ReadHit, Mgr, Store!Read
  <2> QED
    BY <2>1, <2>3, <2>5 DEF Store!Next
<1>2. ASSUME NEW b \in BlkIds, ReadFails(b) PROVE Sound' /\ Store!Next
  <2>1. b = BadBlk /\ b \notin Blk
    BY <1>2, BlkAssumption DEF ReadFails, Failures, BlkIds
  <2>2. Content' = Content
    BY <1>2 DEF ReadFails, Content
  <2>3. IndexSound' /\ CleanIsOnDisk' /\ SyncAllProgress'
    BY <1>2, <2>2
       DEF ReadFails, IndexSound, CleanIsOnDisk, SyncAllProgress, Used, Free
  <2>4. ret' = Store!Answer("read", b, Store!kFail, NoData)
    BY <1>2 DEF ReadFails, Answer, Store!Answer, kFail, Store!kFail
  <2>5. Store!Read(b)
    BY <1>2, <2>1, <2>2, <2>4, NothingWritten DEF ReadFails, Mgr, Store!Read
  <2> QED
    BY <2>1, <2>3, <2>5 DEF Store!Next
<1>3. ASSUME NEW b \in BlkIds, NEW pw \in BOOLEAN, NEW pr \in BOOLEAN, ReadMiss(b, pw, pr)
      PROVE  Sound' /\ Store!Next
  <2>1. b \in Blk /\ disk[b] \in Data /\ Content[b] = disk[b]
    BY <1>3 DEF ReadMiss, Mgr, Content
  <2>2. /\ IndexSound' /\ CleanIsOnDisk' /\ Store!WriteBack
        /\ Content' = [x \in Blk |-> IF x = b THEN disk[b] ELSE Content[x]]
    BY <1>3, <2>1, UpsertSound DEF ReadMiss
  <2>3. Content' = Content
    BY <2>1, <2>2 DEF Content
  <2>4. SyncAllProgress'
    BY <1>3 DEF ReadMiss, Idle, SyncAllProgress
  <2>5. ret' = Store!Answer("read", b, Store!kSuccess, Content[b])
    BY <1>3, <2>1 DEF ReadMiss, Answer, Store!Answer, kSuccess, Store!kSuccess
  <2>6. Store!Read(b)
    BY <2>1, <2>2, <2>3, <2>5 DEF Store!Read
  <2> QED
    BY <2>1, <2>2, <2>4, <2>6 DEF Store!Next
<1>4. ASSUME NEW b \in BlkIds, NEW v \in Data, WriteHit(b, v) PROVE Sound' /\ Store!Next
  <2>1. /\ b \in Blk /\ hashtable[b] \in Slots /\ id[hashtable[b]] = b /\ IndexSound'
    BY <1>4, HitKeepsIndex DEF WriteHit, Mgr
  <2>2. \A x \in Blk : x # b => hashtable[x] # hashtable[b]
    BY <1>4, <2>1 DEF WriteHit, IndexSound
  <2>3. \A x \in Blk : Content'[x] = IF x = b THEN v ELSE Content[x]
    BY <1>4, <2>1, <2>2 DEF WriteHit, Content, Mgr, BlkIds
  <2>4. Content' = [Content EXCEPT ![b] = v]
    BY <2>1, <2>3 DEF Content
  <2>5. CleanIsOnDisk'
    BY <1>4, <2>1, <2>2, <2>3 DEF WriteHit, CleanIsOnDisk, Mgr, BlkIds
  <2>6. SyncAllProgress'
    BY <1>4 DEF WriteHit, Idle, SyncAllProgress
  <2>7. ret' = Store!Answer("write", b, Store!kSuccess, NoData)
    BY <1>4 DEF WriteHit, Answer, Store!Answer, kSuccess, Store!kSuccess
  <2>8. Store!Write(b, v)
    BY <1>4, <2>1, <2>4, <2>7, NothingWritten DEF WriteHit, Mgr, Store!Write
  <2> QED
    BY <2>1, <2>5, <2>6, <2>8 DEF Store!Next
<1>5. ASSUME NEW b \in BlkIds, NEW v \in Data, NEW pw \in BOOLEAN, NEW pr \in BOOLEAN,
             WriteMiss(b, v, pw, pr)
      PROVE  Sound' /\ Store!Next
  <2>1. /\ pr <=> b \in Blk
        /\ IndexSound' /\ CleanIsOnDisk' /\ Store!WriteBack
        /\ Content' = [x \in Blk |-> IF x = b THEN v ELSE Content[x]]
    BY <1>5, UpsertSound DEF WriteMiss
  <2>2. SyncAllProgress'
    BY <1>5 DEF WriteMiss, Idle, SyncAllProgress
  <2>3. ret' = Store!Answer("write", b, IF b \in Blk THEN Store!kSuccess ELSE Store!kFail, NoData)
    BY <1>5, <2>1
       DEF WriteMiss, Rc, Answer, Store!Answer, kSuccess, Store!kSuccess, kFail, Store!kFail
  <2>4. CASE b \in Blk
    <3>1. Content' = [Content EXCEPT ![b] = v]
      BY <2>1, <2>4 DEF Content
    <3>2. Store!Write(b, v)
      BY <2>1, <2>3, <2>4, <3>1 DEF Store!Write
    <3> QED
      BY <2>1, <2>2, <2>4, <3>2 DEF Store!Next
  <2>5. CASE b \notin Blk
    <3>1. Content' = Content
      BY <2>1, <2>5 DEF Content
    <3>2. Store!Write(b, v)
      BY <2>1, <2>3, <2>5, <3>1 DEF Store!Write
    <3> QED
      BY <2>1, <2>2, <2>5, <3>2 DEF Store!Next, BlkIds
  <2> QED
    BY <2>4, <2>5
<1>6. ASSUME NEW b \in BlkIds, NEW pw \in BOOLEAN, SyncHit(b, pw) PROVE Sound' /\ Store!Next
  <2>1. pw = TRUE
    BY <1>6 DEF SyncHit
  <2>2. /\ b \in Blk /\ hashtable[b] \in Slots /\ id[hashtable[b]] = b /\ IndexSound'
    BY <1>6, HitKeepsIndex DEF SyncHit, Mgr
  <2>3. \A x \in Blk : x # b => hashtable[x] # hashtable[b]
    BY <1>6, <2>2 DEF SyncHit, IndexSound
  <2>4. Content[b] = data[hashtable[b]]
    BY <1>6, <2>2 DEF SyncHit, Content
  <2>5. ~dirty[hashtable[b]] => Content[b] = disk[b]
    BY <1>6, <2>2 DEF SyncHit, CleanIsOnDisk
  <2>6. disk' = [disk EXCEPT ![b] = Content[b]]
    BY <1>6, <2>1, <2>2, <2>4, <2>5 DEF SyncHit, Mgr
  <2>7. \A x \in Blk : Content'[x] = Content[x]
    BY <1>6, <2>2, <2>4, <2>6 DEF SyncHit, Content, Mgr
  <2>8. Content' = Content
    BY <2>7 DEF Content
  <2>9. CleanIsOnDisk'
    BY <1>6, <2>2, <2>3, <2>6, <2>7 DEF SyncHit, CleanIsOnDisk, Mgr, BlkIds
  <2>10. SyncAllProgress'
    BY <1>6 DEF SyncHit, Idle, SyncAllProgress
  <2>11. ret' = Store!Answer("sync", b, Store!kSuccess, NoData)
    BY <1>6, <2>1 DEF SyncHit, Rc, Answer, Store!Answer, kSuccess, Store!kSuccess
  <2>12. Store!Sync(b)
    BY <2>2, <2>6, <2>8, <2>11 DEF Store!Sync
  <2> QED
    BY <2>2, <2>9, <2>10, <2>12 DEF Store!Next
<1>7. ASSUME NEW b \in BlkIds, SyncMiss(b) PROVE Sound' /\ Store!Next
  <2>1. Content' = Content
    BY <1>7 DEF SyncMiss, Content
  <2>2. IndexSound' /\ CleanIsOnDisk' /\ SyncAllProgress'
    BY <1>7, <2>1 DEF SyncMiss, IndexSound, CleanIsOnDisk, SyncAllProgress, Used, Free
  <2>3. ret' = Store!Answer("sync", b, Store!kFail, NoData)
    BY <1>7 DEF SyncMiss, Answer, Store!Answer, kFail, Store!kFail
  <2>4. Store!Sync(b)
    BY <1>7, <2>1, <2>3 DEF SyncMiss, Store!Sync
  <2> QED
    BY <2>2, <2>4 DEF Store!Next, BlkIds
<1>8. CASE SyncAllStart
  <2>1. Content' = Content
    BY <1>8 DEF SyncAllStart, mgr, Content
  <2>2. IndexSound' /\ CleanIsOnDisk'
    BY <1>8, <2>1 DEF SyncAllStart, mgr, IndexSound, CleanIsOnDisk, Used, Free
  <2>3. \A x \in Blk : hashtable'[x] # Nil => ~(hashtable'[x] < 0)
    BY <1>8 DEF SyncAllStart, mgr, Mgr, BlkIds, Slots, Nil
  <2>4. SyncAllProgress'
    BY <1>8, <2>3 DEF SyncAllStart, SyncAllProgress
  <2>5. Store!Flush
    BY <1>8, <2>1, NothingWritten DEF SyncAllStart, Mgr, Store!Flush
  <2> QED
    BY <2>2, <2>4, <2>5 DEF Store!Next
<1>9. CASE SyncAllStep
  <2> DEFINE s == sync_at
             S == IF dirty[s] THEN {id[s]} ELSE {}
  <2>1. s \in Slots /\ s # Nil
    BY <1>9 DEF SyncAllStep, Slots, Nil
  <2>2. dirty[s] => id[s] \in Blk /\ hashtable[id[s]] = s /\ Content[id[s]] = data[s]
    <3> SUFFICES ASSUME dirty[s] PROVE id[s] \in Blk /\ hashtable[id[s]] = s /\ Content[id[s]] = data[s]
      OBVIOUS
    <3>1. s \in Used
      BY <2>1 DEF Mgr, Used, Free, UsedOf, FreeOf
    <3>2. id[s] \in Blk /\ hashtable[id[s]] = s
      BY <3>1 DEF IndexSound
    <3> QED
      BY <2>1, <3>2 DEF Content
  <2>3. \A x \in Blk : disk'[x] = IF x \in S THEN Content[x] ELSE disk[x]
    BY <1>9, <2>1, <2>2 DEF SyncAllStep, Mgr
  <2>4. disk' \in [Blk -> Data] /\ disk \in [Blk -> Data]
    BY <1>9, <2>1 DEF SyncAllStep, Mgr
  <2>5. disk' = [x \in Blk |-> IF x \in S THEN Content[x] ELSE disk[x]]
    BY <2>3, <2>4
  <2>6. Store!WriteBack
    BY <2>2, <2>5 DEF Store!WriteBack
  <2>7. \A x \in Blk : Content'[x] = Content[x]
    BY <1>9, <2>1, <2>2, <2>3 DEF SyncAllStep, mgr, Content
  <2>8. Content' = Content
    BY <2>7 DEF Content
  <2>9. IndexSound'
    BY <1>9 DEF SyncAllStep, mgr, IndexSound, Used, Free
  <2>10. CleanIsOnDisk'
    BY <1>9, <2>3, <2>7 DEF SyncAllStep, mgr, CleanIsOnDisk
  <2>11. SyncAllProgress'
    <3> SUFFICES ASSUME NEW x \in Blk, hashtable'[x] # Nil, hashtable'[x] < sync_at'
                 PROVE  Content'[x] = disk'[x]
      BY DEF SyncAllProgress
    <3>1. hashtable'[x] = hashtable[x] /\ sync_at' = s + 1 /\ hashtable[x] \in Slots
      BY <1>9 DEF SyncAllStep, mgr, Mgr, BlkIds
    <3>2. hashtable[x] < s \/ hashtable[x] = s
      BY <2>1, <3>1 DEF Slots
    <3>3. CASE hashtable[x] < s
      BY <2>1, <2>3, <2>7, <3>1, <3>3 DEF SyncAllProgress
    <3>4. CASE hashtable[x] = s
      <4>1. id[s] = x
        BY <2>1, <3>4 DEF IndexSound
      <4>2. ~dirty[s] => Content[x] = disk[x]
        BY <2>1, <3>4 DEF CleanIsOnDisk
      <4> QED
        BY <2>3, <2>7, <4>1, <4>2
    <3> QED
      BY <3>2, <3>3, <3>4
  <2>12. Store!Flush
    BY <1>9, <2>6, <2>8 DEF SyncAllStep, Store!Flush
  <2> QED
    BY <2>9, <2>10, <2>11, <2>12 DEF Store!Next
<1>10. CASE SyncAllFails
  BY <1>10 DEF SyncAllFails
<1>11. CASE SyncAllDone
  <2>1. Content' = Content
    BY <1>11 DEF SyncAllDone, mgr, Content
  <2>2. IndexSound' /\ CleanIsOnDisk' /\ SyncAllProgress'
    BY <1>11, <2>1
       DEF SyncAllDone, mgr, IndexSound, CleanIsOnDisk, SyncAllProgress, Used, Free
  <2>3. \A x \in Blk : Content[x] = disk[x]
    <3> SUFFICES ASSUME NEW x \in Blk PROVE Content[x] = disk[x]
      OBVIOUS
    <3>1. hashtable[x] # Nil => hashtable[x] < sync_at
      BY <1>11, SizeAssumption DEF SyncAllDone, Mgr, BlkIds, Slots
    <3>2. sync_at # Nil
      BY <1>11, SizeAssumption DEF SyncAllDone, Nil
    <3> QED
      BY <3>1, <3>2 DEF SyncAllProgress, Content
  <2>4. disk' = Content
    BY <1>11, <2>3 DEF SyncAllDone, Content, Mgr
  <2>5. ret' = Store!Answer("sync_all", NoBlk, Store!kSuccess, NoData)
    BY <1>11 DEF SyncAllDone, Answer, Store!Answer, kSuccess, Store!kSuccess
  <2>6. Store!SyncAll
    BY <2>1, <2>4, <2>5 DEF Store!SyncAll
  <2> QED
    BY <2>2, <2>6 DEF Store!Next
<1>12. CASE Crash
  <2>1. Used' = {}
    BY <1>12 DEF Crash, EmptyLists, Used, Free, Slots, Nil
  <2>2. \A x \in BlkIds : hashtable'[x] = Nil
    BY <1>12 DEF Crash, NoEntries
  <2>3. IndexSound' /\ CleanIsOnDisk' /\ SyncAllProgress'
    BY <1>12, <2>1, <2>2 DEF Crash, IndexSound, CleanIsOnDisk, SyncAllProgress, BlkIds
  <2>4. Content' = disk
    BY <1>12, <2>2 DEF Crash, Content, Mgr, BlkIds
  <2>5. ret' = Store!Answer("open", NoBlk, Store!kSuccess, NoData)
    BY <1>12 DEF Crash, Opened, Answer, Store!Answer, kSuccess, Store!kSuccess
  <2>6. Store!Crash
    BY <1>12, <2>4, <2>5 DEF Crash, Store!Crash
  <2> QED
    BY <2>3, <2>6 DEF Store!Next
<1>13. CASE UNCHANGED vars
  <2>1. Content' = Content
    BY <1>13 DEF vars, Content
  <2>2. Sound'
    BY <1>13, <2>1 DEF vars, IndexSound, CleanIsOnDisk, SyncAllProgress, Used, Free
  <2>3. UNCHANGED Store!vars
    BY <1>13, <2>1 DEF vars, Store!vars
  <2> QED
    BY <2>2, <2>3
<1> QED
  BY <1>1, <1>2, <1>3, <1>4, <1>5, <1>6, <1>7, <1>8, <1>9, <1>10, <1>11, <1>12, <1>13
     DEF Next

-----------------------------------------------------------------------------
(* The whole inductive invariant: the lists and types always, the index    *)
(* and the contents until the first error.                                 *)
FInv == IInv /\ (faults = 0 => Sound)

(* Opening the device establishes FInv. *)
LEMMA InitFInv == Init => FInv
<1> SUFFICES ASSUME Init PROVE FInv
  OBVIOUS
<1>1. Used = {}
  BY DEF Init, EmptyLists, Used, Free, Slots, Nil
<1>2. IndexSound
  BY <1>1 DEF Init, NoEntries, IndexSound, BlkIds
<1>3. CleanIsOnDisk /\ SyncAllProgress
  BY DEF Init, NoEntries, CleanIsOnDisk, SyncAllProgress, BlkIds
<1> QED
  BY <1>2, <1>3, InitIInv DEF FInv, Sound

(* Errors are not forgotten. *)
LEMMA FaultsGrow == IInv /\ IInv' /\ [Next]_vars => faults <= faults'
<1> SUFFICES ASSUME IInv, IInv', [Next]_vars PROVE faults <= faults'
  OBVIOUS
<1>1. faults \in Nat /\ faults' \in Nat
  BY DEF IInv, TypeOK
<1>2. \/ faults' = faults
      \/ \E b \in BlkIds, pw, pr \in BOOLEAN : faults' = faults + Failures(b, pw, pr)
      \/ \E pw \in BOOLEAN : faults' = faults + (IF pw THEN 0 ELSE 1)
      \/ faults' = faults + 1
  <2>1. ASSUME NEW b \in BlkIds, NEW v, NEW pw \in BOOLEAN, NEW pr \in BOOLEAN,
               UpsertMiss(b, v, pw, pr)
        PROVE  faults' = faults + Failures(b, pw, pr)
    BY <2>1 DEF UpsertMiss
  <2>2. CASE \E b \in BlkIds :
               \/ ReadHit(b) \/ SyncMiss(b)
               \/ \E v \in Data : WriteHit(b, v)
    BY <2>2 DEF ReadHit, SyncMiss, WriteHit
  <2>3. CASE \E b \in BlkIds : ReadFails(b)
    BY <2>3 DEF ReadFails
  <2>4. CASE \E b \in BlkIds, pw, pr \in BOOLEAN : ReadMiss(b, pw, pr)
    BY <2>1, <2>4 DEF ReadMiss
  <2>5. CASE \E b \in BlkIds, v \in Data, pw, pr \in BOOLEAN : WriteMiss(b, v, pw, pr)
    BY <2>1, <2>5 DEF WriteMiss
  <2>6. CASE \E b \in BlkIds, pw \in BOOLEAN : SyncHit(b, pw)
    BY <2>6 DEF SyncHit
  <2>7. CASE SyncAllStart \/ SyncAllStep \/ SyncAllFails \/ SyncAllDone \/ Crash
    BY <2>7 DEF SyncAllStart, SyncAllStep, SyncAllFails, SyncAllDone, Crash
  <2>8. CASE UNCHANGED vars
    BY <2>8 DEF vars
  <2> QED
    BY <2>2, <2>3, <2>4, <2>5, <2>6, <2>7, <2>8 DEF Next
<1>3. \A b, pw, pr : Failures(b, pw, pr) \in Nat
  BY DEF Failures
<1> QED
  BY <1>1, <1>2, <1>3

(* Every operation keeps FInv. *)
LEMMA NextFInv == FInv /\ [Next]_vars => FInv'
<1> SUFFICES ASSUME FInv, [Next]_vars PROVE FInv'
  OBVIOUS
<1>1. IInv'
  BY NextIInv DEF FInv
<1>2. ASSUME faults' = 0 PROVE Sound'
  <2>1. faults = 0
    BY <1>1, <1>2, FaultsGrow DEF FInv, IInv, TypeOK
  <2>2. Mgr /\ Rest /\ Sound
    BY <2>1, IInvParts DEF FInv
  <2> QED
    BY <1>2, <2>1, <2>2, StepSound
<1> QED
  BY <1>1, <1>2 DEF FInv

(* Until the disk file makes an error, the hash table and the slots' ids   *)
(* agree, so that no two blocks share a slot and no cached write is        *)
(* unreachable (upsert(), get_page() and alloc() in lru_cache.cpp).        *)
THEOREM IndexStaysSound == Spec => [](faults = 0 => IndexSound)
<1>1. FInv => (faults = 0 => IndexSound)
  BY DEF FInv, Sound
<1> QED
  BY <1>1, InitFInv, NextFInv, PTL DEF Spec

(* Until then a clean block is what the disk file holds.                   *)
THEOREM CleanStaysOnDisk == Spec => [](faults = 0 => CleanIsOnDisk)
<1>1. FInv => (faults = 0 => CleanIsOnDisk)
  BY DEF FInv, Sound
<1> QED
  BY <1>1, InitFInv, NextFInv, PTL DEF Spec

(* Until then what the slots behind sync_all()'s index hold is in the disk *)
(* file: no step of its loop (lru_cache.cpp) undoes an earlier one.        *)
THEOREM SyncAllStaysSound == Spec => [](faults = 0 => SyncAllProgress)
<1>1. FInv => (faults = 0 => SyncAllProgress)
  BY DEF FInv, Sound
<1> QED
  BY <1>1, InitFInv, NextFInv, PTL DEF Spec

(* The device with its cache, over a disk file that makes no errors,       *)
(* implements the plain block store: BlockDevice's read, write, sync and   *)
(* sync_all, evictions, and a crash at any point.                          *)
THEOREM ImplementsBlockStore == MaxFaults = 0 => (Spec => StoreSpec)
<1> SUFFICES ASSUME MaxFaults = 0 PROVE Spec => StoreSpec
  OBVIOUS
<1>1. Init => Store!Init
  <2> SUFFICES ASSUME Init PROVE Store!Init
    OBVIOUS
  <2>1. Content = disk /\ disk \in [Blk -> Data]
    BY DEF Init, NoEntries, Content, BlkIds
  <2> QED
    BY <2>1 DEF Init, Opened, Answer, kSuccess, Store!Init, Store!Answer, Store!kSuccess
<1>2. FInv /\ FInv' /\ [Next]_vars => [Store!Next]_(Store!vars)
  <2> SUFFICES ASSUME FInv, FInv', [Next]_vars PROVE [Store!Next]_(Store!vars)
    OBVIOUS
  <2>1. faults = 0 /\ faults' = 0
    BY DEF FInv, IInv, TypeOK
  <2>2. Mgr /\ Rest /\ Sound
    BY <2>1, IInvParts DEF FInv
  <2> QED
    BY <2>1, <2>2, StepSound
<1> QED
  BY <1>1, <1>2, InitFInv, NextFInv, PTL DEF Spec, StoreSpec, Store!Spec

=============================================================================
