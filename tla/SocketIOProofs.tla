--------------------------- MODULE SocketIOProofs ---------------------------
(***************************************************************************)
(* For every set of senders, every size of the output buffer and of the    *)
(* kernel's, and every length of a Send: the send lock tells whether       *)
(* output waits, and the wire carries the bytes accepted, in order.        *)
(***************************************************************************)
EXTENDS SocketIO, SequenceTheorems, TLAPS

(* The write buffer is a CircularBuffer: what CircularBufferProofs shows   *)
(* of the operators of BipBuffer is shown of the socket's.                 *)
Buf == INSTANCE CircularBufferProofs WITH buf <- writeBuffer, taken <- << >>, MaxRun <- MaxChunk

Good(c) == Buf!Good(c)

(* So is the read buffer, of another size. *)
InBuf == INSTANCE CircularBufferProofs
         WITH Size <- ReadSize, Byte <- {0}, buf <- readBuffer, taken <- << >>, MaxRun <- MaxIn

(* What LockMeansData needs of the moments inside Send and inside the read *)
(* branch: a sender between BurstSend and BurstPush has bytes waiting, and *)
(* so has a worker about to post the write event, whose descriptor is open *)
(* because only the worker closes it; the lock is never held without       *)
(* bytes, and on an open socket never without the registration for output. *)
LockInv ==
  /\ lock = 1 => GetSize(writeBuffer) > 0
  /\ owner # "free" => GetSize(writeBuffer) > 0
  /\ owner = "free" /\ GetSize(writeBuffer) > 0 => lock = 1
  /\ worker = "posting" => connected /\ GetSize(writeBuffer) > 0
  /\ connected /\ lock = 1 => interest = "out"
  /\ connected /\ owner = "free" /\ interest = "out" => lock = 1

(* The inductive invariant. *)
IInv == TypeOK /\ Good(writeBuffer) /\ InBuf!Good(readBuffer) /\ InOrder /\ LockInv

USE SizeAssumption

(* A good buffer is one, with no more contiguous bytes than it holds. *)
LEMMA GoodBuffer ==
  ASSUME NEW c, Good(c)
  PROVE  /\ c \in Buffer
         /\ GetContiguiousBytes(c) \in Nat /\ GetContiguiousBytes(c) <= GetSize(c)
  BY DEF Good, Buf!Good, Buf!Fits, Buf!Buffer, Buf!Cells, Buf!NULL, Buffer, Cells, NULL,
         GetContiguiousBytes, GetSize

(* The operators of the instance are those of SocketIO. *)
LEMMA SameOperators ==
  /\ Cells = Buf!Cells
  /\ \A c : Contents(c) = Buf!Contents(c) /\ GetSize(c) = Buf!GetSize(c)
  /\ \A c : GetContiguiousBytes(c) = Buf!GetContiguiousBytes(c)
  /\ \A block : Allocate(block) = Buf!Allocate(block)
  /\ \A c, data : (WriteOK(c, data) <=> Buf!WriteOK(c, data)) /\ Write(c, data) = Buf!Write(c, data)
  /\ \A c, n : Remove(c, n) = Buf!Remove(c, n)
<1>1. /\ Cells = Buf!Cells
      /\ \A c : Contents(c) = Buf!Contents(c) /\ GetSize(c) = Buf!GetSize(c)
      /\ \A c : GetContiguiousBytes(c) = Buf!GetContiguiousBytes(c)
      /\ \A block : Allocate(block) = Buf!Allocate(block)
  BY DEF Cells, Contents, GetSize, GetContiguiousBytes, Allocate, NULL, Buf!Cells, Buf!Contents,
         Buf!GetSize, Buf!GetContiguiousBytes, Buf!Allocate, Buf!NULL
<1>2. \A c : ChooseRegion(c) = Buf!ChooseRegion(c) /\ Space(c) = Buf!Space(c)
  BY DEF ChooseRegion, AllocateB, GetAFreeSpace, GetSpaceBeforeA, NULL, Space, GetBFreeSpace,
         Buf!ChooseRegion, Buf!AllocateB, Buf!GetAFreeSpace, Buf!GetSpaceBeforeA, Buf!NULL,
         Buf!Space, Buf!GetBFreeSpace
<1>3. \A c, data : Append_(c, data) = Buf!Append_(c, data)
  BY DEF Append_, Store, Cells, GetBuffer, IncrementWritten, NULL, Buf!Append_, Buf!Store,
         Buf!Cells, Buf!GetBuffer, Buf!IncrementWritten, Buf!NULL
<1>4. \A c, data : /\ WriteOK(c, data) <=> Buf!WriteOK(c, data)
                   /\ Write(c, data) = Buf!Write(c, data)
  BY <1>2, <1>3 DEF WriteOK, Write, Buf!WriteOK, Buf!Write
<1>5. \A c : PromoteB(c) = Buf!PromoteB(c)
  BY DEF PromoteB, Cells, NULL, Buf!PromoteB, Buf!Cells, Buf!NULL
<1>6. \A c, n : Remove(c, n) = Buf!Remove(c, n)
  BY <1>5 DEF Remove, Least, Buf!Remove, Buf!Least
<1> QED
  BY <1>1, <1>4, <1>6

(* The lemmas on the buffer's operators, for the socket's buffer. *)
LEMMA ContentsSeq ==
  ASSUME NEW c, Good(c)
  PROVE  /\ Contents(c) \in Seq(Byte)
         /\ GetSize(c) \in Nat
         /\ Len(Contents(c)) = GetSize(c)
  BY SameOperators, Buf!ContentsSeq, ByteAssumption, SocketAssumption DEF Good

(* Allocate gives an empty buffer. *)
LEMMA AllocateGood ==
  ASSUME NEW block \in [Cells -> Byte]
  PROVE  Good(Allocate(block)) /\ Contents(Allocate(block)) = << >>
  BY SameOperators, Buf!AllocateGood, ByteAssumption, SocketAssumption DEF Good

(* Write appends what fits, and otherwise changes nothing that is held. *)
LEMMA WriteContents ==
  ASSUME NEW c, Good(c), NEW data \in Seq(Byte)
  PROVE  /\ Good(Write(c, data))
         /\ WriteOK(c, data) => /\ Contents(Write(c, data)) = Contents(c) \o data
                                /\ GetSize(Write(c, data)) = GetSize(c) + Len(data)
         /\ ~WriteOK(c, data) => /\ Contents(Write(c, data)) = Contents(c)
                                 /\ GetSize(Write(c, data)) = GetSize(c)
<1>1. Buf!Good(c)
  BY DEF Good
<1>2. /\ Buf!Good(Buf!Write(c, data))
      /\ Buf!WriteOK(c, data) =>
           /\ Buf!Contents(Buf!Write(c, data)) = Buf!Contents(c) \o data
           /\ Buf!GetSize(Buf!Write(c, data)) = Buf!GetSize(c) + Len(data)
      /\ ~Buf!WriteOK(c, data) =>
           /\ Buf!Contents(Buf!Write(c, data)) = Buf!Contents(c)
           /\ Buf!GetSize(Buf!Write(c, data)) = Buf!GetSize(c)
  BY <1>1, Buf!WriteContents, ByteAssumption, SocketAssumption
<1> QED
  BY <1>2, SameOperators DEF Good

(* Remove cuts a prefix. *)
LEMMA RemoveContents ==
  ASSUME NEW c, Good(c), NEW n \in Nat, n <= GetSize(c)
  PROVE  /\ Good(Remove(c, n))
         /\ Contents(Remove(c, n)) = SubSeq(Contents(c), n + 1, Len(Contents(c)))
         /\ GetSize(Remove(c, n)) = GetSize(c) - n
<1>1. Buf!Good(c) /\ n <= Buf!GetSize(c)
  BY SameOperators DEF Good
<1>2. Buf!Good(Buf!Remove(c, n))
  BY <1>1, Buf!RemoveFields, ByteAssumption, SocketAssumption
<1>3. /\ Buf!Contents(Buf!Remove(c, n)) = SubSeq(Buf!Contents(c), n + 1, Len(Buf!Contents(c)))
      /\ Buf!GetSize(Buf!Remove(c, n)) = Buf!GetSize(c) - n
  BY <1>1, Buf!RemoveContents, ByteAssumption, SocketAssumption
<1> QED
  BY <1>2, <1>3, SameOperators DEF Good

(* A send that took nothing removes nothing. *)
LEMMA RemoveNone ==
  ASSUME NEW c, Good(c), GetSize(c) > 0
  PROVE  Remove(c, 0) = c
  BY SameOperators, Buf!RemoveNone, ByteAssumption, SocketAssumption DEF Good

(* The next state's view of the buffer is the view of its next value. *)
LEMMA Primed ==
  /\ Good(writeBuffer)' <=> Good(writeBuffer')
  /\ GetSize(writeBuffer)' = GetSize(writeBuffer')
  /\ Contents(writeBuffer)' = Contents(writeBuffer')
  BY DEF Good, Buf!Good, Buf!Fits, Buf!Buffer, Buf!Cells, Buf!NULL, GetSize, Contents

(* The operators of the read buffer, as those of the write buffer. *)
LEMMA InSameOperators ==
  /\ In!Cells = InBuf!Cells
  /\ \A block : In!Allocate(block) = InBuf!Allocate(block)
  /\ \A c : In!Space(c) = InBuf!Space(c)
  /\ \A c, data : In!Append_(In!ChooseRegion(c), data) = InBuf!Append_(InBuf!ChooseRegion(c), data)
  /\ \A c, n : In!Remove(c, n) = InBuf!Remove(c, n)
<1>1. In!Cells = InBuf!Cells /\ \A block : In!Allocate(block) = InBuf!Allocate(block)
  BY DEF In!Cells, In!Allocate, In!NULL, InBuf!Cells, InBuf!Allocate, InBuf!NULL
<1>2. \A c : In!ChooseRegion(c) = InBuf!ChooseRegion(c) /\ In!Space(c) = InBuf!Space(c)
  BY DEF In!ChooseRegion, In!AllocateB, In!GetAFreeSpace, In!GetSpaceBeforeA, In!NULL, In!Space,
         In!GetBFreeSpace, InBuf!ChooseRegion, InBuf!AllocateB, InBuf!GetAFreeSpace,
         InBuf!GetSpaceBeforeA, InBuf!NULL, InBuf!Space, InBuf!GetBFreeSpace
<1>3. \A c, data : In!Append_(c, data) = InBuf!Append_(c, data)
  BY DEF In!Append_, In!Store, In!Cells, In!GetBuffer, In!IncrementWritten, In!NULL, InBuf!Append_,
         InBuf!Store, InBuf!Cells, InBuf!GetBuffer, InBuf!IncrementWritten, InBuf!NULL
<1>4. \A c : In!PromoteB(c) = InBuf!PromoteB(c)
  BY DEF In!PromoteB, In!Cells, In!NULL, InBuf!PromoteB, InBuf!Cells, InBuf!NULL
<1>5. \A c, n : In!Remove(c, n) = InBuf!Remove(c, n)
  BY <1>4 DEF In!Remove, In!Least, InBuf!Remove, InBuf!Least
<1> QED
  BY <1>1, <1>2, <1>3, <1>5

(* The read buffer: recv fills it no further than GetSpace allows, and     *)
(* OnRead takes no more than it holds.                                     *)
LEMMA Received ==
  ASSUME NEW c, InBuf!Good(c), NEW m \in Nat, NEW n, n = Least(m, In!Space(c)),
         NEW e, e = In!Append_(In!ChooseRegion(c), [i \in 1 .. n |-> 0])
  PROVE  /\ n \in Nat /\ n <= m
         /\ InBuf!Good(e)
         /\ \A k \in Nat : InBuf!Good(In!Remove(e, k))
<1> DEFINE data == [i \in 1 .. n |-> 0]
<1>0. ReadSize \in Nat \ {0} /\ {0} # {} /\ MaxIn \in Nat
  BY SocketAssumption
<1>1. InBuf!Space(c) \in Nat
  BY <1>0, InBuf!ChooseGood
<1>2. n \in Nat /\ n <= m /\ n <= InBuf!Space(c)
  BY <1>1, InSameOperators DEF Least
<1>3. data \in Seq({0}) /\ Len(data) = n
  BY <1>2
<1>4. e = InBuf!Append_(InBuf!ChooseRegion(c), data)
  BY InSameOperators
<1> HIDE DEF data
<1>5. InBuf!WriteOK(c, data) /\ e = InBuf!Write(c, data)
  BY <1>2, <1>3, <1>4 DEF InBuf!WriteOK, InBuf!Write
<1>6. InBuf!Good(e)
  BY <1>0, <1>3, <1>5, InBuf!WriteContents
<1>7. \A k \in Nat : InBuf!Good(InBuf!Remove(e, k))
  BY <1>0, <1>6, InBuf!RemoveFields
<1> QED
  BY <1>2, <1>6, <1>7, InSameOperators

(* A good read buffer has its type. *)
LEMMA GoodInput ==
  ASSUME NEW c, InBuf!Good(c)
  PROVE  c \in In!Buffer
  BY DEF InBuf!Good, InBuf!Buffer, InBuf!Cells, InBuf!NULL, In!Buffer, In!Cells, In!NULL

(* A step that leaves it alone, or gives it a good value. *)
LEMMA PrimedInput ==
  InBuf!Good(readBuffer)' <=> InBuf!Good(readBuffer')
  BY DEF InBuf!Good, InBuf!Fits, InBuf!Buffer, InBuf!Cells, InBuf!NULL

(* Numbered bytes behind the bytes numbered so far. *)
LEMMA Numbering ==
  ASSUME NEW k \in Nat, NEW n \in Nat, k + n <= MaxBytes
  PROVE  /\ [i \in 1 .. k |-> i] \in Seq(Byte)
         /\ [i \in 1 .. n |-> k + i] \in Seq(Byte)
         /\ Len([i \in 1 .. n |-> k + i]) = n
         /\ [i \in 1 .. k |-> i] \o [i \in 1 .. n |-> k + i] = [i \in 1 .. k + n |-> i]
<1> DEFINE p == [i \in 1 .. k |-> i]
           q == [i \in 1 .. n |-> k + i]
           r == [i \in 1 .. k + n |-> i]
<1>1. /\ p \in Seq(Byte) /\ Len(p) = k
      /\ q \in Seq(Byte) /\ Len(q) = n
      /\ r \in Seq(Byte) /\ Len(r) = k + n
  BY SocketAssumption, IsASeq
<1>2. /\ p \o q \in Seq(Byte) /\ Len(p \o q) = k + n
      /\ \A i \in 1 .. k + n : (p \o q)[i] = IF i <= k THEN p[i] ELSE q[i - k]
  BY <1>1, ConcatProperties
<1>3. \A i \in 1 .. k + n : (p \o q)[i] = r[i]
  BY <1>2
<1>4. p \o q = r
  BY <1>1, <1>2, <1>3, SeqEqual
<1> QED
  BY <1>1, <1>4

(* Allocate, then AddSocket. *)
LEMMA InitInv == Init => IInv
<1> SUFFICES ASSUME Init PROVE IInv
  OBVIOUS
<1> USE DEF Init
<1>1. [i \in Cells |-> 0] \in [Cells -> Byte]
  BY SocketAssumption
<1>2. Good(writeBuffer) /\ Contents(writeBuffer) = << >>
  BY <1>1, AllocateGood
<1>a. InBuf!Good(readBuffer)
  <2>1. [i \in In!Cells |-> 0] \in [InBuf!Cells -> {0}]
    BY InSameOperators
  <2> QED
    BY <2>1, InSameOperators, InBuf!AllocateGood, SocketAssumption
<1>3. TypeOK
  <2>1. accepted \in 0 .. MaxBytes /\ kroom \in 0 .. Room /\ inbox \in 0 .. MaxIn
    BY SocketAssumption
  <2>2. wire \in Seq(Byte)
    OBVIOUS
  <2> QED
    BY <1>2, <1>a, <2>1, <2>2, GoodBuffer, GoodInput DEF TypeOK
<1>4. InOrder
  BY <1>2 DEF InOrder
<1>5. GetSize(writeBuffer) = 0
  BY <1>2, ContentsSeq
<1>6. LockInv
  BY <1>5 DEF LockInv
<1> QED
  BY <1>2, <1>a, <1>3, <1>4, <1>6 DEF IInv

(* BurstSend: the bytes go behind those waiting, or nothing happens. *)
LEMMA SendBytesInv ==
  ASSUME IInv, NEW s \in Senders, NEW n \in 1 .. MaxChunk, SendBytes(s, n)
  PROVE  IInv'
<1> DEFINE data == [i \in 1 .. n |-> accepted + i]
<1> HIDE DEF data
<1> USE DEF IInv
<1>1. /\ accepted \in Nat /\ n \in Nat /\ n > 0 /\ accepted + n <= MaxBytes
      /\ Good(writeBuffer) /\ GetSize(writeBuffer) \in Nat
  BY SocketAssumption, ContentsSeq DEF SendBytes, TypeOK
<1>2. data \in Seq(Byte) /\ Len(data) = n
  BY <1>1, Numbering DEF data
<1>3. /\ owner = "free" /\ writeBuffer' = Write(writeBuffer, data)
      /\ UNCHANGED <<readBuffer, lock, connected, worker, interest, event, kroom, full, inbox, wire>>
      /\ WriteOK(writeBuffer, data) => owner' = s /\ accepted' = accepted + n
      /\ ~WriteOK(writeBuffer, data) => owner' = owner /\ accepted' = accepted
  BY DEF SendBytes, kernel, data
<1>a. InBuf!Good(readBuffer)'
  BY <1>3, PrimedInput
<1>4. CASE WriteOK(writeBuffer, data)
  <2>1. /\ Good(writeBuffer') /\ GetSize(writeBuffer') = GetSize(writeBuffer) + n
        /\ Contents(writeBuffer') = Contents(writeBuffer) \o data
    BY <1>1, <1>2, <1>3, <1>4, WriteContents
  <2>2. TypeOK'
    BY <1>1, <1>3, <1>4, <2>1, GoodBuffer, SocketAssumption DEF TypeOK
  <2>3. LockInv'
    BY <1>1, <1>3, <1>4, <2>1, Primed, SocketAssumption DEF LockInv, TypeOK
  <2>4. InOrder'
    <3> DEFINE q == Contents(writeBuffer)
    <3>1. q \in Seq(Byte) /\ wire \in Seq(Byte)
      BY <1>1, ContentsSeq DEF TypeOK
    <3>2. wire \o q = [i \in 1 .. accepted |-> i]
      BY DEF InOrder
    <3> HIDE DEF q
    <3>3. wire \o (q \o data) = (wire \o q) \o data
      BY <1>2, <3>1, ConcatAssociative, SMTT(20)
    <3>4. (wire \o q) \o data = [i \in 1 .. accepted + n |-> i]
      BY <1>1, <3>2, Numbering DEF data
    <3> QED
      BY <1>3, <1>4, <2>1, <3>3, <3>4, Primed DEF InOrder, q
  <2> QED
    BY <1>a, <2>1, <2>2, <2>3, <2>4, Primed
<1>5. CASE ~WriteOK(writeBuffer, data)
  <2>1. /\ Good(writeBuffer') /\ GetSize(writeBuffer') = GetSize(writeBuffer)
        /\ Contents(writeBuffer') = Contents(writeBuffer)
    BY <1>1, <1>2, <1>3, <1>5, WriteContents
  <2>2. TypeOK'
    BY <1>3, <1>5, <2>1, GoodBuffer DEF TypeOK
  <2>3. LockInv'
    BY <1>3, <1>5, <2>1, Primed DEF LockInv
  <2>4. InOrder'
    BY <1>3, <1>5, <2>1, Primed DEF InOrder
  <2> QED
    BY <1>a, <2>1, <2>2, <2>3, <2>4, Primed
<1> QED
  BY <1>4, <1>5

(* A step that leaves the output alone keeps its bytes good and in order. *)
LEMMA SameOutput ==
  ASSUME IInv, UNCHANGED <<writeBuffer, accepted, wire>>
  PROVE  /\ Good(writeBuffer)' /\ InOrder'
         /\ GetSize(writeBuffer)' = GetSize(writeBuffer) /\ GetSize(writeBuffer) \in Nat
<1>1. Good(writeBuffer)
  BY DEF IInv
<1> QED
  BY <1>1, ContentsSeq, Primed DEF IInv, InOrder

(* BurstPush and BurstEnd. *)
LEMMA SendPushInv ==
  ASSUME IInv, NEW s \in Senders, SendPush(s)
  PROVE  IInv'
<1>1. /\ Good(writeBuffer)' /\ InOrder'
      /\ GetSize(writeBuffer)' = GetSize(writeBuffer) /\ GetSize(writeBuffer) \in Nat
  BY SameOutput DEF SendPush
<1>2. TypeOK'
  <2>1. owner' \in Senders \union {"free"} /\ lock' \in {0, 1}
    BY DEF IInv, TypeOK, SendPush
  <2>2. interest' \in {"in", "out", "none"} /\ kroom' \in 0 .. Room /\ inbox' \in 0 .. MaxIn
    BY DEF IInv, TypeOK, SendPush, PostEvent, kernel
  <2>3. event' \in BOOLEAN /\ full' \in BOOLEAN
    <3>1. event \in BOOLEAN /\ full \in BOOLEAN
      BY DEF IInv, TypeOK
    <3>2. CASE lock = 0 /\ connected
      BY <3>2, SMT DEF SendPush, PostEvent
    <3>3. CASE ~(lock = 0 /\ connected)
      BY <3>1, <3>3 DEF SendPush, kernel
    <3> QED
      BY <3>2, <3>3
  <2> QED
    BY <2>1, <2>2, <2>3 DEF IInv, TypeOK, SendPush
<1>3. LockInv'
  BY <1>1, SocketAssumption DEF IInv, TypeOK, LockInv, SendPush, PostEvent, kernel
<1>4. InBuf!Good(readBuffer)'
  BY PrimedInput DEF IInv, SendPush
<1> QED
  BY <1>1, <1>2, <1>3, <1>4 DEF IInv

(* recv and OnRead. *)
LEMMA ReadInput ==
  ASSUME IInv, ReadCallback
  PROVE  InBuf!Good(readBuffer') /\ inbox' \in 0 .. MaxIn
<1> DEFINE n == Least(inbox, In!Space(readBuffer))
           e == In!Append_(In!ChooseRegion(readBuffer), [i \in 1 .. n |-> 0])
<1>1. InBuf!Good(readBuffer) /\ inbox \in Nat /\ MaxIn \in Nat /\ inbox <= MaxIn
  BY SocketAssumption DEF IInv, TypeOK
<1>2. /\ n \in Nat /\ n <= inbox /\ InBuf!Good(e)
      /\ \A k \in Nat : InBuf!Good(In!Remove(e, k))
  BY <1>1, Received
<1>3. /\ inbox' = inbox - n
      /\ \/ readBuffer' = e
         \/ \E k \in 0 .. In!GetSize(e) : readBuffer' = In!Remove(e, k)
  BY DEF ReadCallback
<1> HIDE DEF n, e
<1>4. \A k \in 0 .. In!GetSize(e) : k \in Nat
  OBVIOUS
<1> QED
  BY <1>1, <1>2, <1>3, <1>4

(* The worker's steps that leave the output alone, the closing of the      *)
(* descriptor, and the kernel's.                                           *)
LEMMA QuietInv ==
  ASSUME IInv, ReadCallback \/ PostWrite \/ Hangup \/ Arrive \/ Acknowledge
  PROVE  IInv'
<1>1. UNCHANGED <<writeBuffer, accepted, wire>>
  BY DEF ReadCallback, PostWrite, Hangup, Arrive, Acknowledge
<1>2. /\ Good(writeBuffer)' /\ InOrder'
      /\ GetSize(writeBuffer)' = GetSize(writeBuffer) /\ GetSize(writeBuffer) \in Nat
  BY <1>1, SameOutput
<1>3. TypeOK' /\ LockInv'
  <2>1. CASE ReadCallback
    <3>1. InBuf!Good(readBuffer') /\ inbox' \in 0 .. MaxIn
      BY <2>1, ReadInput
    <3>2. /\ worker = "wait" /\ connected
          /\ UNCHANGED <<lock, owner, kroom, full>>
          /\ \/ UNCHANGED worker /\ Closed
             \/ /\ event' = FALSE /\ UNCHANGED <<connected, interest>>
                /\ worker' = IF GetSize(writeBuffer) > 0 /\ lock = 0 THEN "posting" ELSE "wait"
      BY <2>1 DEF ReadCallback
    <3>3. TypeOK'
      BY <1>1, <3>1, <3>2, GoodInput DEF IInv, TypeOK, Closed
    <3>4. LockInv'
      BY <1>2, <3>2 DEF IInv, TypeOK, LockInv, Closed
    <3> QED
      BY <3>3, <3>4
  <2>2. CASE PostWrite
    BY <1>2, <2>2 DEF IInv, TypeOK, LockInv, PostWrite, PostEvent
  <2>3. CASE Hangup
    BY <1>2, <2>3 DEF IInv, TypeOK, LockInv, Hangup, Closed
  <2>4. CASE Arrive
    <3>1. inbox' \in 0 .. MaxIn
      BY <2>4, SocketAssumption DEF IInv, TypeOK, Arrive
    <3>2. TypeOK'
      BY <2>4, <3>1 DEF IInv, TypeOK, Arrive
    <3>3. LockInv'
      BY <1>2, <2>4 DEF IInv, TypeOK, LockInv, Arrive
    <3> QED
      BY <3>2, <3>3
  <2>5. CASE Acknowledge
    <3>1. kroom' \in 0 .. Room
      BY <2>5, SocketAssumption DEF Acknowledge
    <3>2. TypeOK'
      BY <2>5, <3>1 DEF IInv, TypeOK, Acknowledge
    <3>3. LockInv'
      BY <1>2, <2>5 DEF IInv, TypeOK, LockInv, Acknowledge
    <3> QED
      BY <3>2, <3>3
  <2> QED
    BY <2>1, <2>2, <2>3, <2>4, <2>5
<1>4. InBuf!Good(readBuffer)'
  <2>1. CASE ReadCallback
    BY <2>1, ReadInput, PrimedInput
  <2>2. CASE PostWrite \/ Hangup \/ Arrive \/ Acknowledge
    BY <2>2, PrimedInput DEF IInv, PostWrite, Hangup, Arrive, Acknowledge
  <2> QED
    BY <2>1, <2>2
<1> QED
  BY <1>2, <1>3, <1>4 DEF IInv

(* The write branch: what the kernel takes leaves the front of the buffer. *)
LEMMA WriteCallbackInv ==
  ASSUME IInv, WriteCallback
  PROVE  IInv'
<1> DEFINE n == Least(GetContiguiousBytes(writeBuffer), kroom)
           q == Contents(writeBuffer)
<1>1. /\ Good(writeBuffer) /\ GetSize(writeBuffer) \in Nat
      /\ q \in Seq(Byte) /\ Len(q) = GetSize(writeBuffer) /\ wire \in Seq(Byte)
  BY ContentsSeq DEF IInv, TypeOK
<1>2. /\ GetContiguiousBytes(writeBuffer) \in Nat
      /\ GetContiguiousBytes(writeBuffer) <= GetSize(writeBuffer)
  BY <1>1, GoodBuffer
<1>3. n \in Nat /\ n <= GetSize(writeBuffer) /\ n <= kroom
  <2>1. kroom \in Nat
    BY SocketAssumption DEF IInv, TypeOK
  <2> QED
    BY <1>1, <1>2, <2>1 DEF Least
<1>4. /\ worker = "wait" /\ connected /\ interest = "out" /\ owner = "free"
      /\ wire' = wire \o SubSeq(q, 1, n)
      /\ kroom' = kroom - n
      /\ writeBuffer' = Remove(writeBuffer, n)
      /\ AfterWrite(writeBuffer', n < GetContiguiousBytes(writeBuffer))
      /\ UNCHANGED <<readBuffer, owner, connected, accepted, worker, inbox>>
  BY DEF WriteCallback
<1> HIDE DEF n, q
<1>5. Good(writeBuffer')
  BY <1>1, <1>3, <1>4, RemoveContents
<1>6. /\ Contents(writeBuffer') = SubSeq(q, n + 1, Len(q))
      /\ GetSize(writeBuffer') = GetSize(writeBuffer) - n
  BY <1>1, <1>3, <1>4, RemoveContents DEF q
<1>7. SubSeq(q, 1, n) \in Seq(Byte) /\ SubSeq(q, n + 1, Len(q)) \in Seq(Byte)
  BY <1>1, <1>3
<1>8. lock = 1
  BY <1>4 DEF IInv, LockInv
<1>9. InOrder'
  <2>1. SubSeq(q, 1, n) \o SubSeq(q, n + 1, Len(q)) = q
    <3>1. SubSeq(q, 1, Len(q)) = q
      BY <1>1
    <3>2. 1 \in 1 .. Len(q) + 1 /\ n \in 1 - 1 .. Len(q) /\ Len(q) \in n .. Len(q)
      BY <1>1, <1>3
    <3>3. q \in Seq(Byte)
      BY <1>1
    <3>4. SubSeq(q, 1, n) \o SubSeq(q, n + 1, Len(q)) = SubSeq(q, 1, Len(q))
      BY <3>2, <3>3, ConcatAdjacentSubSeq
    <3> QED
      BY <3>1, <3>4
  <2>2. (wire \o SubSeq(q, 1, n)) \o SubSeq(q, n + 1, Len(q)) = wire \o q
    <3> DEFINE u == SubSeq(q, 1, n)
               v == SubSeq(q, n + 1, Len(q))
    <3>1. wire \in Seq(Byte) /\ u \in Seq(Byte) /\ v \in Seq(Byte)
      BY <1>1, <1>7
    <3>2. u \o v = q
      BY <2>1
    <3> HIDE DEF u, v
    <3>3. (wire \o u) \o v = wire \o (u \o v)
      BY <3>1, ConcatAssociative
    <3> QED
      BY <3>2, <3>3 DEF u, v
  <2>3. wire' \o Contents(writeBuffer') = wire \o q
    BY <1>4, <1>6, <2>2
  <2> QED
    BY <1>4, <2>3, Primed DEF IInv, InOrder, q
<1>10. TypeOK'
  <2>1. writeBuffer' \in Buffer /\ wire' \in Seq(Byte) /\ kroom' \in 0 .. Room
    <3>1. writeBuffer' \in Buffer
      BY <1>5, GoodBuffer
    <3>2. wire' \in Seq(Byte)
      BY <1>1, <1>4, <1>7, ConcatProperties
    <3>3. kroom' \in 0 .. Room
      BY <1>3, <1>4, SocketAssumption DEF IInv, TypeOK
    <3> QED
      BY <3>1, <3>2, <3>3
  <2>2. lock' \in {0, 1} /\ interest' \in {"in", "out", "none"}
    BY <1>4, <1>8 DEF AfterWrite, PostEvent, IInv, TypeOK
  <2>3. event' \in BOOLEAN /\ full' \in BOOLEAN
    <3>1. CASE GetSize(writeBuffer') > 0
      <4>1. event' = FALSE /\ full' = (n < GetContiguiousBytes(writeBuffer))
        BY <1>4, <3>1, Zenon DEF AfterWrite
      <4>2. (n < GetContiguiousBytes(writeBuffer)) \in BOOLEAN
        BY <1>2, <1>3
      <4> QED
        BY <4>1, <4>2, Zenon
    <3>2. CASE ~(GetSize(writeBuffer') > 0)
      BY <1>4, <3>2, SMT DEF AfterWrite, PostEvent
    <3> QED
      BY <3>1, <3>2
  <2> QED
    BY <1>4, <2>1, <2>2, <2>3 DEF IInv, TypeOK
<1>11. LockInv'
  BY <1>1, <1>3, <1>4, <1>6, <1>8, Primed DEF AfterWrite, PostEvent, IInv, TypeOK, LockInv
<1>12. InBuf!Good(readBuffer)'
  BY <1>4, PrimedInput DEF IInv
<1> QED
  BY <1>5, <1>9, <1>10, <1>11, <1>12, Primed DEF IInv

(* Every step keeps the invariant. *)
LEMMA NextInv == IInv /\ [Next]_vars => IInv'
<1> SUFFICES ASSUME IInv, [Next]_vars PROVE IInv'
  OBVIOUS
<1>1. CASE \E s \in Senders : (\E n \in 1 .. MaxChunk : SendBytes(s, n)) \/ SendPush(s)
  BY <1>1, SendBytesInv, SendPushInv
<1>2. CASE ReadCallback \/ PostWrite \/ Hangup \/ Arrive \/ Acknowledge
  BY <1>2, QuietInv
<1>3. CASE WriteCallback
  BY <1>3, WriteCallbackInv
<1>4. CASE UNCHANGED vars
  <2>1. Good(writeBuffer)' /\ InOrder' /\ GetSize(writeBuffer)' = GetSize(writeBuffer)
    BY <1>4, SameOutput DEF vars
  <2>2. InBuf!Good(readBuffer)'
    BY <1>4, PrimedInput DEF vars, IInv
  <2> QED
    BY <1>4, <2>1, <2>2 DEF vars, IInv, TypeOK, LockInv
<1> QED
  BY <1>1, <1>2, <1>3, <1>4 DEF Next

(* The invariant holds throughout every connection. *)
THEOREM Invariant == Spec => []IInv
  BY InitInv, NextInv, PTL DEF Spec

(* m_writeLock stays 0 or 1: DecSendLock is never reached with the lock at *)
(* zero, although the write event is also posted after a test made without *)
(* the mutex.                                                              *)
THEOREM TypeCorrect == Spec => []TypeOK
<1>1. IInv => TypeOK
  BY DEF IInv
<1> QED
  BY <1>1, Invariant, PTL

(* Outside Send, output waits exactly when the lock is held and the        *)
(* descriptor of an open socket is registered for output exactly then: the *)
(* unlocked test in the read branch breaks neither, whatever the senders   *)
(* do between the test and the PostEvent.                                  *)
THEOREM LockTellsData == Spec => []LockMeansData
<1>1. IInv => LockMeansData
  BY DEF IInv, TypeOK, LockInv, LockMeansData
<1> QED
  BY <1>1, Invariant, PTL

(* The bytes handed to the kernel, followed by those waiting, are the      *)
(* bytes accepted in the order of their Sends, through every wrap of the   *)
(* buffer and every short send.                                            *)
THEOREM OutputInOrder == Spec => []InOrder
<1>1. IInv => InOrder
  BY DEF IInv
<1> QED
  BY <1>1, Invariant, PTL

-----------------------------------------------------------------------------
(* The calls a socket makes on its output buffer are the ones              *)
(* CircularBuffer models, one at a time.                                   *)
LEMMA InitUsesBuffer == Init => Buf!Init
<1> SUFFICES ASSUME Init PROVE Buf!Init
  OBVIOUS
<1>1. [i \in Cells |-> 0] \in [Cells -> Byte]
  BY SocketAssumption
<1> QED
  BY <1>1, SameOperators DEF Init, Buf!Init

(* Every step of the socket is a Write, a Remove or no step of its buffer. *)
LEMMA NextUsesBuffer == IInv /\ [Next]_vars => [Buf!Next]_Buf!vars
<1> SUFFICES ASSUME IInv, Next, writeBuffer' # writeBuffer
             PROVE  Buf!DoWrite \/ Buf!DoRemove
  BY DEF Buf!Next, Buf!vars, vars
<1>1. Good(writeBuffer)
  BY DEF IInv
<1>2. ASSUME NEW s \in Senders, NEW n \in 1 .. MaxChunk, SendBytes(s, n)
      PROVE  Buf!DoWrite
  <2> DEFINE data == [i \in 1 .. n |-> accepted + i]
  <2>1. accepted \in Nat /\ n \in 0 .. MaxChunk /\ accepted + n <= MaxBytes
    BY <1>2, SocketAssumption DEF IInv, TypeOK, SendBytes
  <2>2. data \in [1 .. n -> Byte]
    BY <2>1, SocketAssumption
  <2>3. data \in Buf!Runs
    BY <2>1, <2>2 DEF Buf!Runs
  <2>4. writeBuffer' = Write(writeBuffer, data)
    BY <1>2 DEF SendBytes
  <2> HIDE DEF data
  <2> QED
    BY <2>3, <2>4, SameOperators DEF Buf!DoWrite
<1>3. CASE WriteCallback
  <2> DEFINE n == Least(GetContiguiousBytes(writeBuffer), kroom)
  <2>1. /\ writeBuffer' = Remove(writeBuffer, n) /\ GetSize(writeBuffer) > 0
    BY <1>3 DEF WriteCallback, IInv, LockInv
  <2>2. n \in 0 .. GetContiguiousBytes(writeBuffer) /\ GetContiguiousBytes(writeBuffer) \in Nat
    <3>1. kroom \in Nat
      BY SocketAssumption DEF IInv, TypeOK
    <3> QED
      BY <1>1, <3>1, GoodBuffer DEF Least
  <2> HIDE DEF n
  <2>3. n # 0
    BY <1>1, <2>1, RemoveNone
  <2>4. n \in 1 .. Buf!GetContiguiousBytes(writeBuffer)
    BY <2>2, <2>3, SameOperators
  <2> QED
    BY <2>1, <2>4, SameOperators DEF Buf!DoRemove
<1>4. CASE \E s \in Senders : SendPush(s)
  BY <1>4 DEF SendPush
<1>5. CASE ReadCallback \/ PostWrite \/ Hangup \/ Arrive \/ Acknowledge
  BY <1>5 DEF ReadCallback, PostWrite, Hangup, Arrive, Acknowledge
<1> QED
  BY <1>2, <1>3, <1>4, <1>5 DEF Next

(* Sockets compose with CircularBuffer: with any number of senders and the *)
(* worker, the output buffer sees a behaviour of CircularBuffer (Writes    *)
(* under m_writeMutex and Removes of what send took), so its theorems hold *)
(* of every socket's output.                                               *)
THEOREM UsesBuffer == Spec => Buf!Spec
  BY Invariant, InitUsesBuffer, NextUsesBuffer, PTL DEF Spec, Buf!Spec

(* Among them, that it implements the bounded queue of ByteQueue: between  *)
(* Send and the kernel the bytes wait in a first-in first-out queue of the *)
(* buffer's size, whatever the senders and the worker do.                  *)
THEOREM OutputIsQueue == Spec => Buf!FifoSpec
  BY UsesBuffer, Buf!Refinement, SizeAssumption, ByteAssumption, SocketAssumption, PTL
=============================================================================
