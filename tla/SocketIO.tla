------------------------------ MODULE SocketIO ------------------------------
(***************************************************************************)
(* One connected Socket of the epoll build: threads that Send, the socket  *)
(* worker that serves the descriptor's events, and the kernel's side of    *)
(* the descriptor.  The write buffer is the bip buffer of module BipBuffer *)
(* and holds the bytes sent, numbered in the order Send accepted them.     *)
(* Input is counted, not interpreted: OnRead takes some bytes off the read *)
(* buffer and leaves the rest, a packet that is not complete.              *)
(*                                                                         *)
(* Events are edge-triggered (EPOLLET): the kernel queues one when the     *)
(* interest is set (EPOLL_CTL_MOD) and the descriptor is ready, when input *)
(* arrives, and when room appears after a send that did not fit.           *)
(***************************************************************************)
EXTENDS BipBuffer

CONSTANTS Senders,   \* threads that call Send
          MaxChunk,  \* bound: the longest Send
          MaxBytes,  \* bound: bytes offered in all
          Room,      \* the kernel's send buffer
          ReadSize,  \* recvbuffersize
          MaxIn      \* bound: input bytes unread in the kernel

ASSUME SocketAssumption ==
  /\ MaxChunk \in Nat /\ MaxBytes \in Nat /\ Room \in Nat \ {0} /\ MaxIn \in Nat
  /\ ReadSize \in Nat \ {0}
  /\ Byte = 0 .. MaxBytes
  /\ "free" \notin Senders

VARIABLES writeBuffer,  \* the socket's output
          readBuffer,   \* its input, of bytes that are all alike
          lock,         \* m_writeLock
          owner,        \* who holds m_writeMutex between two steps, or "free"
          connected,    \* m_connected
          accepted,     \* number of bytes Send took
          interest,     \* the event the descriptor is registered for
          event,        \* whether that event is queued for the worker
          worker,       \* "wait", or "posting" after the test in the read branch
          kroom,        \* free room in the kernel's send buffer
          full,         \* the last send or registration found no room
          inbox,        \* input bytes waiting in the kernel
          wire          \* the bytes handed to the kernel

vars == <<writeBuffer, readBuffer, lock, owner, connected, accepted, interest, event, worker,
          kroom, full, inbox, wire>>
kernel == <<interest, event, kroom, full, inbox>>

In == INSTANCE BipBuffer WITH Size <- ReadSize, Byte <- {0}

(* epoll_ctl(EPOLL_CTL_MOD) with the new interest i: the descriptor is     *)
(* polled once, and remembers a failed poll for room.                      *)
PostEvent(i) ==
  /\ interest' = i
  /\ event' = (IF i = "in" THEN inbox > 0 ELSE kroom > 0)
  /\ full' = (i = "out" /\ kroom = 0)

(* Allocate, then Accept/_OnConnect and AddSocket: nothing to send yet, so *)
(* the descriptor is registered for input.                                 *)
Init ==
  /\ writeBuffer = Allocate([i \in Cells |-> 0])
  /\ readBuffer = In!Allocate([i \in In!Cells |-> 0])
  /\ lock = 0 /\ owner = "free" /\ connected = TRUE /\ accepted = 0
  /\ interest = "in" /\ event = FALSE /\ worker = "wait"
  /\ kroom = Room /\ full = FALSE /\ inbox = 0 /\ wire = << >>

-----------------------------------------------------------------------------
(* Send, first half: BurstBegin and BurstSend.  A refused write ends the   *)
(* call.                                                                   *)
SendBytes(s, n) ==
  LET data == [i \in 1 .. n |-> accepted + i]
  IN  /\ owner = "free"
      /\ accepted + n <= MaxBytes
      /\ writeBuffer' = Write(writeBuffer, data)
      /\ IF WriteOK(writeBuffer, data)
         THEN owner' = s /\ accepted' = accepted + n
         ELSE UNCHANGED <<owner, accepted>>
      /\ UNCHANGED <<readBuffer, lock, connected, worker, kernel, wire>>

(* Mutants of SendPush: the lock is taken without posting the event; the   *)
(* event is posted without taking the lock.                                *)
SendPushSilent(s) ==
  /\ owner = s /\ owner' = "free" /\ lock' = 1
  /\ UNCHANGED <<writeBuffer, readBuffer, connected, accepted, worker, kernel, wire>>
SendPushUnlocked(s) ==
  /\ owner = s /\ owner' = "free" /\ connected /\ PostEvent("out")
  /\ UNCHANGED <<writeBuffer, readBuffer, lock, connected, accepted, worker, kroom, inbox, wire>>

(* Send, second half: BurstPush (AcquireSendLock, PostEvent) and BurstEnd. *)
(* On a closed socket epoll_ctl fails.                                     *)
SendPush(s) ==
  /\ owner = s
  /\ owner' = "free"
  /\ lock' = IF lock = 0 THEN 1 ELSE lock
  /\ IF lock = 0 /\ connected
     THEN PostEvent("out") /\ UNCHANGED <<kroom, inbox>>
     ELSE UNCHANGED kernel
  /\ UNCHANGED <<writeBuffer, readBuffer, connected, accepted, worker, wire>>

-----------------------------------------------------------------------------
(* Disconnect, as far as the descriptor goes: it leaves the epoll set. *)
Closed == connected' = FALSE /\ interest' = "none" /\ event' = FALSE

(* The worker's EPOLLIN branch: one recv into the contiguous space         *)
(* GetSpace finds; what does not fit stays in the kernel, without an edge  *)
(* of its own.  A recv of length 0 returns 0, which is taken for the       *)
(* peer's end.  Then OnRead and, without the mutex, the test "changing to  *)
(* written state?".                                                        *)
ReadCallback ==
  LET n == Least(inbox, In!Space(readBuffer))
      filled == In!Append_(In!ChooseRegion(readBuffer), [i \in 1 .. n |-> 0])
  IN  /\ worker = "wait" /\ connected /\ event /\ interest = "in" /\ inbox > 0
      /\ inbox' = inbox - n
      /\ \/ n = 0 /\ Closed /\ readBuffer' = filled /\ UNCHANGED worker
         \/ /\ n > 0 /\ event' = FALSE /\ UNCHANGED <<connected, interest>>
            /\ \E k \in 0 .. In!GetSize(filled) : readBuffer' = In!Remove(filled, k)
            /\ worker' = IF GetSize(writeBuffer) > 0 /\ lock = 0 THEN "posting" ELSE "wait"
      /\ UNCHANGED <<writeBuffer, lock, owner, accepted, kroom, full, wire>>

(* ... and the PostEvent(EPOLLOUT) it may lead to. *)
PostWrite ==
  /\ worker = "posting"
  /\ worker' = "wait"
  /\ PostEvent("out")
  /\ UNCHANGED <<writeBuffer, readBuffer, lock, owner, connected, accepted, kroom, inbox, wire>>

(* Mutant: the descriptor stays registered for output. *)
AfterWriteStaysOut(b, short) ==
  /\ lock' = IF GetSize(b) > 0 THEN lock ELSE lock - 1
  /\ event' = FALSE /\ full' = short /\ UNCHANGED interest

(* After WriteCallback: with bytes left nothing is done, the next edge is  *)
(* relied on; otherwise the lock is returned and input asked for.  Only a  *)
(* short send has found the kernel full.                                   *)
AfterWrite(b, short) ==
  IF GetSize(b) > 0
  THEN event' = FALSE /\ full' = short /\ UNCHANGED <<lock, interest>>
  ELSE lock' = lock - 1 /\ PostEvent("in")

(* Mutant: what was offered to send is removed, not what it took. *)
WriteCallbackRemovesAll ==
  LET n == Least(GetContiguiousBytes(writeBuffer), kroom)
  IN  /\ worker = "wait" /\ connected /\ event /\ interest = "out" /\ owner = "free"
      /\ wire' = wire \o SubSeq(Contents(writeBuffer), 1, n)
      /\ kroom' = kroom - n
      /\ writeBuffer' = Remove(writeBuffer, GetContiguiousBytes(writeBuffer))
      /\ AfterWrite(writeBuffer', n < GetContiguiousBytes(writeBuffer))
      /\ UNCHANGED <<readBuffer, owner, connected, accepted, worker, inbox>>

(* The worker's EPOLLOUT branch: send takes from the first region what the *)
(* kernel has room for.                                                    *)
WriteCallback ==
  LET n == Least(GetContiguiousBytes(writeBuffer), kroom)
  IN  /\ worker = "wait" /\ connected /\ event /\ interest = "out" /\ owner = "free"
      /\ wire' = wire \o SubSeq(Contents(writeBuffer), 1, n)
      /\ kroom' = kroom - n
      /\ writeBuffer' = Remove(writeBuffer, n)
      /\ AfterWrite(writeBuffer', n < GetContiguiousBytes(writeBuffer))
      /\ UNCHANGED <<readBuffer, owner, connected, accepted, worker, inbox>>

(* The worker's EPOLLHUP/EPOLLERR branch, and the error returns of recv    *)
(* and send: the peer is gone.                                             *)
Hangup ==
  /\ worker = "wait" /\ connected
  /\ Closed
  /\ UNCHANGED <<writeBuffer, readBuffer, lock, owner, accepted, worker, kroom, full, inbox, wire>>

-----------------------------------------------------------------------------
(* Kernel: input arrives. *)
Arrive ==
  /\ connected /\ inbox < MaxIn
  /\ inbox' = inbox + 1
  /\ event' = (event \/ interest = "in")
  /\ UNCHANGED <<writeBuffer, readBuffer, lock, owner, connected, accepted, interest, worker,
                 kroom, full, wire>>

(* Kernel: the peer took bytes.  Only a descriptor that was found full is  *)
(* signalled.                                                              *)
Acknowledge ==
  /\ connected /\ kroom < Room
  /\ kroom' = Room
  /\ event' = (event \/ (full /\ interest = "out"))
  /\ full' = FALSE
  /\ UNCHANGED <<writeBuffer, readBuffer, lock, owner, connected, accepted, interest, worker,
                 inbox, wire>>

Next ==
  \/ \E s \in Senders : (\E n \in 1 .. MaxChunk : SendBytes(s, n)) \/ SendPush(s)
  \/ ReadCallback \/ PostWrite \/ WriteCallback \/ Hangup
  \/ Arrive \/ Acknowledge

(* The worker runs, a sender inside Send goes on, the peer keeps reading. *)
Fairness ==
  /\ WF_vars(ReadCallback) /\ WF_vars(PostWrite) /\ WF_vars(WriteCallback)
  /\ \A s \in Senders : WF_vars(SendPush(s))
  /\ WF_vars(Acknowledge)

Spec == Init /\ [][Next]_vars
FairSpec == Spec /\ Fairness

-----------------------------------------------------------------------------
(* Every component has its type; the unsigned m_writeLock stays 0 or 1. *)
TypeOK ==
  /\ writeBuffer \in Buffer /\ readBuffer \in In!Buffer
  /\ lock \in {0, 1} /\ owner \in Senders \union {"free"} /\ connected \in BOOLEAN
  /\ accepted \in 0 .. MaxBytes
  /\ interest \in {"in", "out", "none"} /\ event \in BOOLEAN
  /\ worker \in {"wait", "posting"}
  /\ kroom \in 0 .. Room /\ full \in BOOLEAN /\ inbox \in 0 .. MaxIn
  /\ wire \in Seq(Byte)

(* Outside Send, the send lock is held exactly while bytes wait, so        *)
(* DecSendLock never takes the unsigned lock below zero and no accepted    *)
(* byte waits without an owner of the write event.  The descriptor is      *)
(* registered for output exactly while the lock is held, although          *)
(* PostEvent is also called after a test made without the mutex            *)
(* (SocketMgrLinux.cpp:126).                                               *)
LockMeansData ==
  owner = "free" /\ connected =>
    /\ lock = 1 <=> GetSize(writeBuffer) > 0
    /\ worker = "wait" => (lock = 1 <=> interest = "out")

(* The peer sees the bytes of successful Sends, in the order they were     *)
(* accepted, with none lost or repeated across region changes and partial  *)
(* sends.                                                                  *)
InOrder == wire \o Contents(writeBuffer) = [i \in 1 .. accepted |-> i]

(* "we don't have to do anything here": bytes accepted on a connection     *)
(* that stays up are sent.                                                 *)
OutputDrains ==
  GetSize(writeBuffer) > 0 ~> GetSize(writeBuffer) = 0 \/ ~connected

(* The output never wraps into region B. *)
NeverWraps == [](writeBuffer.bSize = 0)

(* Accepted bytes are sent as long as the output never wraps: then a send  *)
(* that leaves bytes was cut short by the kernel (SocketLinux.cpp:53),     *)
(* which brings the next edge.                                             *)
OutputDrainsUnwrapped == NeverWraps => OutputDrains

(* Whenever the worker is told of input, it fits into the read buffer.     *)
InputFits == [](interest = "in" /\ event => inbox <= In!Space(readBuffer))

(* Under both conditions input is read, although the descriptor is not     *)
(* registered for it while output waits.  Input that does not fit is cut   *)
(* short by recv (SocketLinux.cpp:32), and its rest may wait for ever.     *)
InputServedFitting == NeverWraps /\ InputFits => (inbox > 0 ~> inbox = 0 \/ ~connected)
=============================================================================
