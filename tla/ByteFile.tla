------------------------------ MODULE ByteFile ------------------------------
(***************************************************************************)
(* What the comments of fs_layout.h and inode.h promise of the contents of *)
(* one file: a sequence of bytes.  Bytes that a file gains without being   *)
(* written may have any value.                                             *)
(***************************************************************************)
EXTENDS Integers, Sequences

CONSTANTS
    Data,       (* values of a byte          *)
    MaxOff,     (* bound: offsets and sizes  *)
    MaxLen      (* bound: lengths            *)

VARIABLES file, ret

vars == <<file, ret>>

kFail == -1

(* A call, its result and the bytes it was given or gave. *)
Answer(op, off, len, rc, bs) == [op |-> op, off |-> off, len |-> len, rc |-> rc, bytes |-> bs]

Init == file = <<>> /\ ret = Answer("open", 0, 0, 0, <<>>)

(* The files of length n that agree with this one as far as both go. *)
Extensions(n) ==
    IF n <= Len(file) THEN {SubSeq(file, 1, n)}
    ELSE {file \o g : g \in [1 .. n - Len(file) -> Data]}

Truncate(n) ==
    /\ ret' = Answer("truncate", n, 0, 0, <<>>)
    /\ file' \in Extensions(n)

(* The whole buffer is written, and nothing else changes. *)
Write(offset, buf) ==
    LET end == IF offset + Len(buf) > Len(file) THEN offset + Len(buf) ELSE Len(file)
    IN  /\ ret' = Answer("write", offset, Len(buf), Len(buf), buf)
        /\ \E g \in Extensions(end) :
             file' = [i \in 1 .. end |->
                        IF i \in offset + 1 .. offset + Len(buf) THEN buf[i - offset] ELSE g[i]]

(* The answer is what the file holds from offset on, cut at its end.  A    *)
(* read that starts at the end of the file or behind it may fail instead.  *)
Read(offset, len) ==
    LET end == IF offset + len > Len(file) THEN Len(file) ELSE offset + len
    IN  /\ \/ /\ offset <= Len(file)
              /\ ret' = Answer("read", offset, len, end - offset, SubSeq(file, offset + 1, end))
           \/ /\ offset >= Len(file)
              /\ ret' = Answer("read", offset, len, kFail, <<>>)
        /\ UNCHANGED file

Next ==
    \E offset \in 0 .. MaxOff :
        \/ Truncate(offset)
        \/ \E len \in 1 .. MaxLen :
             \/ \E buf \in [1 .. len -> Data] : Write(offset, buf)
             \/ Read(offset, len)

Spec == Init /\ [][Next]_vars

=============================================================================
