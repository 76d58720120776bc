------------------------------ MODULE ByteQueue ------------------------------
(***************************************************************************)
(* What CircularBuffer promises its callers: a bounded first-in first-out  *)
(* queue of bytes.  A writer appends a run of bytes or is refused, a       *)
(* reader takes a prefix.                                                  *)
(***************************************************************************)
EXTENDS Integers, Sequences

CONSTANTS Capacity, Byte

VARIABLES queue,   \* the bytes held, oldest first
          taken    \* the bytes the last read returned

Init == queue = << >> /\ taken = << >>

Put == \E n \in 0 .. Capacity - Len(queue) : \E data \in [1 .. n -> Byte] :
         queue' = queue \o data /\ UNCHANGED taken

Get == \E n \in 0 .. Len(queue) :
         /\ taken' = SubSeq(queue, 1, n)
         /\ queue' = SubSeq(queue, n + 1, Len(queue))

Cut == \E n \in 0 .. Len(queue) :
         queue' = SubSeq(queue, n + 1, Len(queue)) /\ UNCHANGED taken

Next == Put \/ Get \/ Cut

Spec == Init /\ [][Next]_<<queue, taken>>
=============================================================================
