----------------------------- MODULE BlockStore -----------------------------
(***************************************************************************)
(* What the block device of SBFS promises to the layers above it           *)
(* (BlockDevice in include/blk_dev.h): an array of blocks that is read and *)
(* written one block at a time, with a write-back cache in front of the    *)
(* disk file.  There is no cache here, only the distinction a user of the  *)
(* device can observe: what a block contains now, and what it would        *)
(* contain if the process died now.                                        *)
(***************************************************************************)
EXTENDS Integers

CONSTANTS
    Blk,      (* block ids inside the device                               *)
    BadBlk,   (* an id past the end of the device, as left by a failed     *)
              (* allocation                                                *)
    Data,     (* block contents                                            *)
    NoData,   (* no content: nothing was read                              *)
    NoBlk     (* no block: the operation is not about one block            *)

VARIABLES
    content,  (* content[b]: what a read of b returns                      *)
    durable,  (* durable[b]: what is in the disk file                      *)
    ret       (* the last operation that returned, and its answer          *)

vars == <<content, durable, ret>>

kSuccess == 0
kFail    == -1

Answer(op, b, rc, v) == [op |-> op, blk |-> b, rc |-> rc, val |-> v]

Init ==
    /\ durable \in [Blk -> Data]
    /\ content = durable
    /\ ret = Answer("open", NoBlk, kSuccess, NoData)

(***************************************************************************)
(* Any operation may write any cached block back.                          *)
(***************************************************************************)
WriteBack ==
    \E S \in SUBSET Blk :
        durable' = [b \in Blk |-> IF b \in S THEN content[b] ELSE durable[b]]

Read(b) ==
    /\ ret' = IF b \in Blk THEN Answer("read", b, kSuccess, content[b])
                           ELSE Answer("read", b, kFail, NoData)
    /\ WriteBack
    /\ UNCHANGED content

Write(b, v) ==
    /\ IF b \in Blk
         THEN /\ content' = [content EXCEPT ![b] = v]
              /\ ret' = Answer("write", b, kSuccess, NoData)
         ELSE /\ ret' = Answer("write", b, kFail, NoData)
              /\ UNCHANGED content
    /\ WriteBack

(***************************************************************************)
(* A sync that succeeds leaves the block in the disk file.  It may fail    *)
(* without an error of the disk: the code fails it for a block that is not *)
(* in the cache.                                                           *)
(***************************************************************************)
Sync(b) ==
    /\ \/ /\ b \in Blk
          /\ durable' = [durable EXCEPT ![b] = content[b]]
          /\ ret' = Answer("sync", b, kSuccess, NoData)
       \/ /\ ret' = Answer("sync", b, kFail, NoData)
          /\ UNCHANGED durable
    /\ UNCHANGED content

SyncAll ==
    /\ durable' = content
    /\ ret' = Answer("sync_all", NoBlk, kSuccess, NoData)
    /\ UNCHANGED content

(* A part of a running sync_all. *)
Flush ==
    /\ WriteBack
    /\ UNCHANGED <<content, ret>>

(* The process dies and is started again on the same disk file. *)
Crash ==
    /\ content' = durable
    /\ ret' = Answer("open", NoBlk, kSuccess, NoData)
    /\ UNCHANGED durable

Next ==
    \/ \E b \in Blk \cup {BadBlk} :
          \/ Read(b)
          \/ \E v \in Data : Write(b, v)
          \/ Sync(b)
    \/ SyncAll
    \/ Flush
    \/ Crash

Spec == Init /\ [][Next]_vars

=============================================================================
