--------------------------- MODULE CircularBuffer ---------------------------
(***************************************************************************)
(* One CircularBuffer object and the calls sockets make on it: Write (the  *)
(* sender's BurstSend), GetSpace + GetBuffer + IncrementWritten (the       *)
(* receiver's recv), Read (packet handlers) and Remove (the writer's       *)
(* send).  A socket makes the calls on one buffer one at a time: output    *)
(* under m_writeMutex, input from the one worker thread.                   *)
(***************************************************************************)
EXTENDS BipBuffer

CONSTANT MaxRun   \* bound: the longest run of bytes one call passes

ASSUME MaxRunAssumption == MaxRun \in Nat

VARIABLES buf,    \* the buffer record
          taken   \* the bytes the last successful Read returned

vars == <<buf, taken>>

Runs == UNION {[1 .. n -> Byte] : n \in 0 .. MaxRun}

Init == /\ \E block \in [Cells -> Byte] : buf = Allocate(block)
        /\ taken = << >>

DoWrite == \E data \in Runs : buf' = Write(buf, data) /\ UNCHANGED taken

(* recv(fd, GetBuffer(), GetSpace()) then IncrementWritten. *)
DoRecv == \E data \in Runs :
            /\ Len(data) <= Space(buf)
            /\ buf' = Append_(ChooseRegion(buf), data)
            /\ UNCHANGED taken

DoRead == \E n \in 0 .. MaxRun :
            /\ buf' = Read(buf, n)
            /\ taken' = IF ReadOK(buf, n) THEN ReadBytes(buf, n) ELSE taken

(* send returned n <= GetContiguiousBytes: Remove what was sent. *)
DoRemove == \E n \in 1 .. GetContiguiousBytes(buf) :
              buf' = Remove(buf, n) /\ UNCHANGED taken

Next == DoWrite \/ DoRecv \/ DoRead \/ DoRemove

Spec == Init /\ [][Next]_vars

-----------------------------------------------------------------------------
(* The buffer is a record of in-range pointers and sizes, and the last     *)
(* read returned bytes.                                                    *)
TypeOK == /\ buf \in Buffer
          /\ taken \in Seq(Byte)

(* The pointer arithmetic of CircularBuffer.h never underflows and no      *)
(* memcpy leaves the block: A ends inside the block, B (when it exists)    *)
(* starts the block and ends before A, and B holds nothing when it does    *)
(* not exist.                                                              *)
RegionsInBounds ==
  /\ buf.a + buf.aSize <= Size
  /\ buf.b = NULL => buf.bSize = 0
  /\ buf.b # NULL => buf.bSize <= buf.a

(* Once drained, the buffer is back at its start without region B, so the  *)
(* next Write can use the whole block however the two regions had moved.   *)
DrainedIsWhole == GetSize(buf) = 0 => Space(buf) = Size

(* Region B can exist only beside a non-empty region A that has less room  *)
(* after it than before it, so the bytes the buffer refuses to use never   *)
(* exceed the larger of its two gaps.                                      *)
BOnlyWhenLarger ==
  buf.b # NULL => buf.aSize > 0 /\ GetAFreeSpace(buf) < GetSpaceBeforeA(buf)

(* The inductive invariant: the three above. *)
RegionInv == RegionsInBounds /\ BOnlyWhenLarger /\ (GetSize(buf) = 0 => buf.a = 0)

-----------------------------------------------------------------------------
(* Every call sequence behaves as a bounded FIFO of bytes: the bytes moved *)
(* between regions keep their order and none is lost, repeated or invented *)
(* (Read, Remove, Write and the recv path of SocketLinux.cpp).             *)
Fifo == INSTANCE ByteQueue WITH Capacity <- Size, queue <- Contents(buf)
FifoSpec == Fifo!Spec
=============================================================================
