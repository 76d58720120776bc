--------------------------- MODULE DatabaseProofs ---------------------------
(***************************************************************************)
(* For every set of clients, every number of statements, connections and   *)
(* failing sends, with or without spurious wake-ups: the workers of        *)
(* Database sleep on no work, one client's statements of one kind are      *)
(* applied in order, and the executor's queue is empty when EndThreads     *)
(* returns.                                                                *)
(***************************************************************************)
EXTENDS Database, SequenceTheorems, FiniteSetTheorems, TLAPS

(* Where the workers are.  A statement is in hand only between its pop and *)
(* its send; the query thread keeps its connection from before the first   *)
(* pop to the end of its loop; the thread is announced as gone only at its *)
(* very end; a caller that works by itself has found it gone, and only     *)
(* such a caller holds a connection.                                       *)
PlaceInv ==
  /\ \A w \in Workers :
       /\ cur[w] # NoStatement => pc[w] \in {"connect", "perform", "reconnect", "last"}
       /\ pc[w] \in {"reconnect", "last"} => cur[w] # NoStatement
  /\ cur["query"] # NoStatement => pc["query"] # "connect"
  /\ pc["query"] \in {"pop", "asleep", "woken", "perform", "release"} => holds["query"]
  /\ \A w \in Workers : ~alive[w] => pc[w] = "done"
  /\ \A c \in Clients : call[c] # Idle =>
       IF call[c].push THEN call[c].kind \in Workers
       ELSE call[c].kind \in Workers => pc[call[c].kind] = "done"
  /\ \A c \in Clients : holds[c] => call[c] # Idle /\ ~call[c].push

(* Why the executor's queue is empty at the end.  Unless a call comes late *)
(* or a wake-up was spurious, no worker leaves its loop before EndThreads  *)
(* and no caller is in the database after it, so nothing joins a queue     *)
(* once its worker has found it empty.                                     *)
EndInv ==
  /\ running <=> ender = "up"
  /\ ender = "ended" => ~alive["executor"]
  /\ ~late /\ ender # "up" => \A c \in Clients : call[c] = Idle
  /\ ~late /\ running => \A w \in Workers :
       /\ pc[w] \in {"connect", "pop", "asleep", "woken", "perform"}
       /\ pc[w] = "perform" \/ (pc[w] = "connect" /\ w = "executor") => cur[w] # NoStatement
  /\ ~late => \A w \in Workers : pc[w] \in {"stop", "done"} => queue[w] = << >>

(* For each client, the highest number a statement can carry that is no    *)
(* longer in its hands.                                                    *)
Top == [c \in Clients |-> IF call[c] = Idle THEN issued ELSE call[c].n]

(* A worker's queue and its statement in hand are the worker's own, and    *)
(* older than what the client is about to pass.                            *)
KindInv ==
  /\ \A c \in Clients : Top[c] <= issued
  /\ \A w \in Workers : \A j \in 1 .. Len(queue[w]) :
       queue[w][j].kind = w /\ queue[w][j].n <= Top[queue[w][j].client]
  /\ \A w \in Workers : cur[w] # NoStatement =>
       cur[w].kind = w /\ cur[w].n <= Top[cur[w].client]

(* For one client: what is applied comes before what is in hand, what is   *)
(* in hand before what is queued, and the queue is in order.               *)
AppliedBelowTop ==
  \A c \in Clients : \A i \in 1 .. Len(applied[c]) : applied[c][i].n <= Top[c]

QueueSorted ==
  \A w \in Workers : \A i, j \in 1 .. Len(queue[w]) :
    i < j /\ queue[w][i].client = queue[w][j].client => queue[w][i].n <= queue[w][j].n

HandBeforeQueue ==
  \A w \in Workers : cur[w] # NoStatement =>
    \A j \in 1 .. Len(queue[w]) :
      queue[w][j].client = cur[w].client => cur[w].n <= queue[w][j].n

AppliedBeforeHand ==
  \A w \in Workers : cur[w] # NoStatement =>
    \A i \in 1 .. Len(applied[cur[w].client]) :
      applied[cur[w].client][i].kind = w => applied[cur[w].client][i].n <= cur[w].n

(* What is left in the queue of a worker that has stopped is never         *)
(* applied, and callers that work by themselves may overtake it.           *)
AppliedBeforeQueue ==
  \A w \in Workers : pc[w] \notin {"stop", "done"} =>
    \A j \in 1 .. Len(queue[w]) : \A i \in 1 .. Len(applied[queue[w][j].client]) :
      applied[queue[w][j].client][i].kind = w =>
        applied[queue[w][j].client][i].n <= queue[w][j].n

OrderInv == /\ AppliedBelowTop /\ QueueSorted /\ HandBeforeQueue
            /\ AppliedBeforeHand /\ AppliedBeforeQueue

(* The inductive invariant. *)
IInv == TypeOK /\ NoSleepOnWork /\ PlaceInv /\ EndInv /\ KindInv /\ OrderInv /\ InOrder

USE DatabaseAssumption

-----------------------------------------------------------------------------
(* A thread takes a free connection, or gives its own back: there are      *)
(* never more in use than there are.                                       *)
LEMMA ThreadsFinite == IsFiniteSet(Threads) /\ IsFiniteSet(Workers)
<1>1. IsFiniteSet({"executor"} \union {"query"})
  BY FS_Singleton, FS_Union
<1>2. Workers = {"executor"} \union {"query"}
  BY DEF Workers
<1> QED
  BY <1>1, <1>2, FS_Union DEF Threads

LEMMA HoldersFinite ==
  IsFiniteSet(Holders) /\ IsFiniteSet(Holders') /\ Cardinality(Holders) \in Nat
<1>1. Holders \subseteq Threads /\ Holders' \subseteq Threads
  BY DEF Holders
<1> QED
  BY <1>1, ThreadsFinite, FS_Subset, FS_CardinalityType

LEMMA TakesOne ==
  ASSUME TypeOK, NEW t \in Threads, GetFreeConnection(t)
  PROVE  holds' \in [Threads -> BOOLEAN] /\ Cardinality(Holders') <= Conns
<1>1. Holders' = Holders \union {t}
  BY DEF GetFreeConnection, Holders, TypeOK
<1>2. Cardinality(Holders) < Conns
  BY HoldersFinite DEF GetFreeConnection, FreeConnections
<1>3. Cardinality(Holders') <= Cardinality(Holders) + 1
  BY <1>1, HoldersFinite, FS_AddElement
<1>4. Cardinality(Holders') \in Nat
  BY HoldersFinite, FS_CardinalityType
<1>5. holds' \in [Threads -> BOOLEAN]
  BY DEF GetFreeConnection, TypeOK
<1> QED
  BY <1>2, <1>3, <1>4, <1>5, HoldersFinite

LEMMA GivesBack ==
  ASSUME TypeOK, NEW t \in Threads, BusyRelease(t)
  PROVE  holds' \in [Threads -> BOOLEAN] /\ Cardinality(Holders') <= Conns
<1>1. Holders' \subseteq Holders
  BY DEF BusyRelease, Holders, TypeOK
<1>2. Cardinality(Holders') <= Cardinality(Holders) /\ Cardinality(Holders') \in Nat
  BY <1>1, HoldersFinite, FS_Subset, FS_CardinalityType
<1>3. holds' \in [Threads -> BOOLEAN] /\ Cardinality(Holders) <= Conns
  BY DEF BusyRelease, TypeOK
<1> QED
  BY <1>2, <1>3, HoldersFinite

(* No statement is the null a pop returns, and none has the number 0. *)
LEMMA StatementFacts ==
  ASSUME NEW s \in Statements
  PROVE  s # NoStatement /\ s.client \in Clients /\ s.n \in Nat /\ s.kind \in Kinds
  BY DEF Statements, NoStatement

(* What the first element of a queue and the rest of it are. *)
LEMMA TakeFacts ==
  ASSUME NEW q \in Seq(Statements), q # << >>
  PROVE  /\ Head(q) = q[1] /\ Head(q) \in Statements /\ 1 \in 1 .. Len(q)
         /\ Tail(q) \in Seq(Statements) /\ Len(Tail(q)) = Len(q) - 1 /\ Len(q) \in Nat
         /\ \A j \in 1 .. Len(q) - 1 : Tail(q)[j] = q[j + 1] /\ j + 1 \in 1 .. Len(q)
  BY HeadTailProperties

(* A client's call that is not idle. *)
LEMMA CallFacts ==
  ASSUME TypeOK, NEW c \in Clients, call[c] # Idle
  PROVE  /\ call[c].kind \in Kinds /\ call[c].push \in BOOLEAN /\ call[c].n \in 1 .. MaxIssue
         /\ \A k \in Kinds : /\ Statement(c, k) \in Statements /\ Statement(c, k).kind = k
                             /\ Statement(c, k).client = c /\ Statement(c, k).n = call[c].n
<1>1. call[c] \in [kind : Kinds, push : BOOLEAN, n : 1 .. MaxIssue]
  BY DEF TypeOK
<1> QED
  BY <1>1 DEF Statement, Statements

(* Top is a number. *)
LEMMA TopNat ==
  ASSUME TypeOK, NEW c \in Clients
  PROVE  Top[c] \in Nat
<1>1. CASE call[c] = Idle
  BY <1>1 DEF TypeOK, Top
<1>2. CASE call[c] # Idle
  BY <1>2, CallFacts DEF Top
<1> QED
  BY <1>1, <1>2

(* What _SendQuery leaves applied: what was applied, and behind it, for    *)
(* the client of s, copies of s.                                           *)
LEMMA SendFacts ==
  ASSUME TypeOK, NEW s \in Statements, SendQuery(s)
  PROVE  /\ faults' \in 0 .. MaxFaults
         /\ applied' \in [Clients -> Seq(Statements)]
         /\ \A c \in Clients : c # s.client => applied'[c] = applied[c]
         /\ \A i \in 1 .. Len(applied'[s.client]) :
              applied'[s.client][i] = IF i <= Len(applied[s.client])
                                      THEN applied[s.client][i] ELSE s
<1>1. PICK r \in {Clean} \union Faulty :
        /\ r.failed => faults < MaxFaults
        /\ faults' = IF r.failed THEN faults + 1 ELSE faults
        /\ applied' = [applied EXCEPT ![s.client] = @ \o [i \in 1 .. r.times |-> s]]
  BY DEF SendQuery
<1>2. r.times \in Nat
  BY DEF Clean, Faulty, Resent
<1>3. faults' \in 0 .. MaxFaults
  BY <1>1 DEF TypeOK
<1> DEFINE q == applied[s.client]
           t == [i \in 1 .. r.times |-> s]
<1>4. s.client \in Clients
  BY StatementFacts
<1>5. q \in Seq(Statements) /\ applied \in [Clients -> Seq(Statements)]
  BY <1>4 DEF TypeOK
<1>6. t \in Seq(Statements) /\ Len(t) = r.times /\ \A i \in 1 .. r.times : t[i] = s
  BY <1>2, IsASeq
<1>7. applied' = [applied EXCEPT ![s.client] = q \o t]
  BY <1>1
<1> HIDE DEF q, t
<1>8. /\ q \o t \in Seq(Statements) /\ Len(q \o t) = Len(q) + r.times
      /\ \A i \in 1 .. Len(q) + r.times : (q \o t)[i] = IF i <= Len(q) THEN q[i] ELSE t[i - Len(q)]
  BY <1>5, <1>6, ConcatProperties
<1>9. Len(q) \in Nat
  BY <1>5
<1>10. \A i \in 1 .. Len(q) + r.times : (q \o t)[i] = IF i <= Len(q) THEN q[i] ELSE s
  BY <1>2, <1>6, <1>8, <1>9
<1>11. /\ applied' \in [Clients -> Seq(Statements)]
       /\ \A c \in Clients : c # s.client => applied'[c] = applied[c]
       /\ applied'[s.client] = q \o t
  BY <1>4, <1>5, <1>7, <1>8
<1> QED
  BY <1>3, <1>8, <1>10, <1>11 DEF q

(* Sending a statement that follows all its client has had applied of its  *)
(* kind keeps the order, and adds nothing but that statement.              *)
LEMMA SentInOrder ==
  ASSUME TypeOK, InOrder, NEW s \in Statements, SendQuery(s),
         \A i \in 1 .. Len(applied[s.client]) :
           applied[s.client][i].kind = s.kind => applied[s.client][i].n <= s.n
  PROVE  /\ InOrder'
         /\ \A c \in Clients : \A i \in 1 .. Len(applied'[c]) :
              \/ \E k \in 1 .. Len(applied[c]) : applied'[c][i] = applied[c][k]
              \/ c = s.client /\ applied'[c][i] = s
<1>1. /\ applied' \in [Clients -> Seq(Statements)] /\ applied \in [Clients -> Seq(Statements)]
      /\ \A c \in Clients : c # s.client => applied'[c] = applied[c]
      /\ \A i \in 1 .. Len(applied'[s.client]) :
           applied'[s.client][i] = IF i <= Len(applied[s.client])
                                   THEN applied[s.client][i] ELSE s
  BY SendFacts DEF TypeOK
<1>2. s.client \in Clients /\ s.n \in Nat
  BY StatementFacts
<1>3. \A c \in Clients : Len(applied[c]) \in Nat /\ Len(applied'[c]) \in Nat
  BY <1>1
<1>4. InOrder'
  <2> SUFFICES ASSUME NEW c \in Clients,
                      NEW i \in 1 .. Len(applied'[c]), NEW j \in 1 .. Len(applied'[c]),
                      i < j, applied'[c][i].kind = applied'[c][j].kind
               PROVE  applied'[c][i].n <= applied'[c][j].n
    BY DEF InOrder
  <2>1. CASE c # s.client
    BY <1>1, <2>1 DEF InOrder
  <2>2. CASE c = s.client
    <3>1. CASE j <= Len(applied[c])
      <4>1. /\ i \in 1 .. Len(applied[c]) /\ j \in 1 .. Len(applied[c])
            /\ applied'[c][i] = applied[c][i] /\ applied'[c][j] = applied[c][j]
        BY <1>1, <1>3, <2>2, <3>1
      <4> QED
        BY <4>1 DEF InOrder
    <3>2. CASE ~(j <= Len(applied[c])) /\ i <= Len(applied[c])
      <4>1. i \in 1 .. Len(applied[c]) /\ applied'[c][i] = applied[c][i] /\ applied'[c][j] = s
        BY <1>1, <1>3, <2>2, <3>2
      <4> QED
        BY <2>2, <4>1
    <3>3. CASE ~(j <= Len(applied[c])) /\ ~(i <= Len(applied[c]))
      <4>1. applied'[c][i] = s /\ applied'[c][j] = s
        BY <1>1, <2>2, <3>3
      <4> QED
        BY <1>2, <4>1
    <3> QED
      BY <3>1, <3>2, <3>3
  <2> QED
    BY <2>1, <2>2
<1>5. ASSUME NEW c \in Clients, NEW i \in 1 .. Len(applied'[c])
      PROVE  \/ \E k \in 1 .. Len(applied[c]) : applied'[c][i] = applied[c][k]
             \/ c = s.client /\ applied'[c][i] = s
  <2>1. CASE c = s.client /\ ~(i <= Len(applied[c]))
    BY <1>1, <2>1
  <2>2. CASE ~(c = s.client /\ ~(i <= Len(applied[c])))
    <3>1. i \in 1 .. Len(applied[c]) /\ applied'[c][i] = applied[c][i]
      BY <1>1, <1>3, <2>2
    <3> QED
      BY <3>1
  <2> QED
    BY <2>1, <2>2
<1> QED
  BY <1>4, <1>5

-----------------------------------------------------------------------------
(* The order invariants in one: what the lemmas below carry over a step.   *)
AllOrder == KindInv /\ OrderInv /\ InOrder

(* Steps that move no statement, and leave no stopped worker running. *)
LEMMA QuietOrder ==
  ASSUME IInv, UNCHANGED <<queue, cur, applied, call, issued>>,
         \A w \in Workers : pc[w] \in {"stop", "done"} => pc'[w] \in {"stop", "done"}
  PROVE  AllOrder'
<1>1. Top' = Top
  BY DEF Top
<1>2. KindInv' /\ InOrder'
  BY <1>1 DEF IInv, KindInv, InOrder
<1>3. OrderInv'
  BY <1>1 DEF IInv, OrderInv, AppliedBelowTop, QueueSorted, HandBeforeQueue,
         AppliedBeforeHand, AppliedBeforeQueue
<1> QED
  BY <1>2, <1>3 DEF AllOrder

(* A pop moves the first statement of the queue into the worker's hand. *)
LEMMA TakeOrder ==
  ASSUME IInv, NEW w \in Workers, queue[w] # << >>, Take(w), pc[w] \notin {"stop", "done"},
         UNCHANGED <<applied, call, issued>>,
         \A v \in Workers : pc[v] \in {"stop", "done"} => pc'[v] \in {"stop", "done"}
  PROVE  AllOrder'
<1> DEFINE q == queue[w]
           h == Head(q)
<1>1. /\ TypeOK /\ KindInv /\ InOrder /\ AppliedBelowTop /\ QueueSorted /\ HandBeforeQueue
      /\ AppliedBeforeHand /\ AppliedBeforeQueue
  BY DEF IInv, OrderInv
<1>2. queue \in [Workers -> Seq(Statements)] /\ q \in Seq(Statements)
  BY <1>1 DEF TypeOK
<1>3. /\ h = q[1] /\ h \in Statements /\ 1 \in 1 .. Len(q)
      /\ Len(Tail(q)) = Len(q) - 1 /\ Len(q) \in Nat
      /\ \A j \in 1 .. Len(q) - 1 : Tail(q)[j] = q[j + 1] /\ j + 1 \in 1 .. Len(q)
  BY <1>2, TakeFacts
<1>4. h # NoStatement /\ h.client \in Clients
  BY <1>3, StatementFacts
<1>5. /\ cur'[w] = h /\ \A v \in Workers : v # w => cur'[v] = cur[v]
      /\ queue'[w] = Tail(q) /\ \A v \in Workers : v # w => queue'[v] = queue[v]
  BY <1>1 DEF Take, TypeOK
<1> HIDE DEF q, h
<1>6. Top' = Top
  BY DEF Top
<1>7. KindInv'
  <2>1. ASSUME NEW v \in Workers, NEW j \in 1 .. Len(queue'[v])
        PROVE  queue'[v][j].kind = v /\ queue'[v][j].n <= Top[queue'[v][j].client]
    <3>1. CASE v = w
      <4>1. queue'[v][j] = q[j + 1] /\ j + 1 \in 1 .. Len(q)
        BY <1>3, <1>5, <3>1
      <4> QED
        BY <1>1, <3>1, <4>1 DEF KindInv, q
    <3>2. CASE v # w
      BY <1>1, <1>5, <3>2 DEF KindInv
    <3> QED
      BY <3>1, <3>2
  <2>2. ASSUME NEW v \in Workers, cur'[v] # NoStatement
        PROVE  cur'[v].kind = v /\ cur'[v].n <= Top[cur'[v].client]
    <3>1. CASE v = w
      BY <1>1, <1>3, <1>5, <3>1 DEF KindInv, q
    <3>2. CASE v # w
      BY <1>1, <1>5, <2>2, <3>2 DEF KindInv
    <3> QED
      BY <3>1, <3>2
  <2> QED
    BY <1>1, <1>6, <2>1, <2>2 DEF KindInv
<1>8. OrderInv'
  <2>1. \A c \in Clients : \A i \in 1 .. Len(applied'[c]) : applied'[c][i].n <= Top'[c]
    BY <1>1, <1>6 DEF AppliedBelowTop
  <2>2. ASSUME NEW v \in Workers, NEW i \in 1 .. Len(queue'[v]), NEW j \in 1 .. Len(queue'[v]),
               i < j, queue'[v][i].client = queue'[v][j].client
        PROVE  queue'[v][i].n <= queue'[v][j].n
    <3>1. CASE v = w
      <4>1. /\ queue'[v][i] = q[i + 1] /\ i + 1 \in 1 .. Len(q)
            /\ queue'[v][j] = q[j + 1] /\ j + 1 \in 1 .. Len(q)
        BY <1>3, <1>5, <3>1
      <4>2. i + 1 < j + 1
        BY <1>3, <1>5, <2>2, <3>1
      <4> QED
        BY <1>1, <2>2, <3>1, <4>1, <4>2 DEF QueueSorted, q
    <3>2. CASE v # w
      BY <1>1, <1>5, <2>2, <3>2 DEF QueueSorted
    <3> QED
      BY <3>1, <3>2
  <2>3. ASSUME NEW v \in Workers, cur'[v] # NoStatement, NEW j \in 1 .. Len(queue'[v]),
               queue'[v][j].client = cur'[v].client
        PROVE  cur'[v].n <= queue'[v][j].n
    <3>1. CASE v = w
      <4>1. /\ queue'[v][j] = q[j + 1] /\ j + 1 \in 1 .. Len(q) /\ 1 < j + 1
            /\ cur'[v] = q[1] /\ 1 \in 1 .. Len(q)
        BY <1>3, <1>5, <3>1
      <4> QED
        BY <1>1, <2>3, <3>1, <4>1 DEF QueueSorted, q
    <3>2. CASE v # w
      BY <1>1, <1>5, <2>3, <3>2 DEF HandBeforeQueue
    <3> QED
      BY <3>1, <3>2
  <2>4. ASSUME NEW v \in Workers, cur'[v] # NoStatement,
               NEW i \in 1 .. Len(applied'[cur'[v].client]),
               applied'[cur'[v].client][i].kind = v
        PROVE  applied'[cur'[v].client][i].n <= cur'[v].n
    <3>1. CASE v = w
      <4>1. cur'[v] = q[1] /\ 1 \in 1 .. Len(q)
        BY <1>3, <1>5, <3>1
      <4> QED
        BY <1>1, <2>4, <3>1, <4>1 DEF AppliedBeforeQueue, q
    <3>2. CASE v # w
      BY <1>1, <1>5, <2>4, <3>2 DEF AppliedBeforeHand
    <3> QED
      BY <3>1, <3>2
  <2>5. ASSUME NEW v \in Workers, pc'[v] \notin {"stop", "done"},
               NEW j \in 1 .. Len(queue'[v]), NEW i \in 1 .. Len(applied'[queue'[v][j].client]),
               applied'[queue'[v][j].client][i].kind = v
        PROVE  applied'[queue'[v][j].client][i].n <= queue'[v][j].n
    <3>1. CASE v = w
      <4>1. queue'[v][j] = q[j + 1] /\ j + 1 \in 1 .. Len(q)
        BY <1>3, <1>5, <3>1
      <4> QED
        BY <1>1, <2>5, <3>1, <4>1 DEF AppliedBeforeQueue, q
    <3>2. CASE v # w
      BY <1>1, <1>5, <2>5, <3>2 DEF AppliedBeforeQueue
    <3> QED
      BY <3>1, <3>2
  <2> QED
    BY <2>1, <2>2, <2>3, <2>4, <2>5 DEF OrderInv, AppliedBelowTop, QueueSorted, HandBeforeQueue, AppliedBeforeHand, AppliedBeforeQueue
<1>9. InOrder'
  BY <1>1 DEF InOrder
<1> QED
  BY <1>7, <1>8, <1>9 DEF AllOrder

(* Sending s: what is applied stays below what is in hand and in the       *)
(* queues when s follows all that was applied, its worker has nothing left *)
(* in hand, and s comes before what is left in a queue still worked off.   *)
LEMMA SentOrder ==
  ASSUME IInv, NEW s \in Statements, SendQuery(s), s.n <= Top[s.client],
         \A i \in 1 .. Len(applied[s.client]) :
           applied[s.client][i].kind = s.kind => applied[s.client][i].n <= s.n,
         \A v \in Workers : cur'[v] = NoStatement \/ (cur'[v] = cur[v] /\ s.kind # v),
         \A v \in Workers : \E d \in {0, 1} : \A j \in 1 .. Len(queue'[v]) :
           j + d \in 1 .. Len(queue[v]) /\ queue'[v][j] = queue[v][j + d],
         \A v \in Workers : pc'[v] \notin {"stop", "done"} =>
           /\ pc[v] \notin {"stop", "done"}
           /\ s.kind = v => \A j \in 1 .. Len(queue'[v]) :
                queue'[v][j].client = s.client => s.n <= queue'[v][j].n,
         \A c \in Clients : Top[c] \in Nat /\ Top'[c] \in Nat /\ Top[c] <= Top'[c]
                            /\ Top'[c] <= issued',
         queue' \in [Workers -> Seq(Statements)]
  PROVE  AllOrder'
<1>1. /\ TypeOK /\ KindInv /\ InOrder /\ AppliedBelowTop /\ QueueSorted /\ HandBeforeQueue
      /\ AppliedBeforeHand /\ AppliedBeforeQueue
  BY DEF IInv, OrderInv
<1>2. /\ InOrder'
      /\ \A c \in Clients : \A i \in 1 .. Len(applied'[c]) :
           \/ \E k \in 1 .. Len(applied[c]) : applied'[c][i] = applied[c][k]
           \/ c = s.client /\ applied'[c][i] = s
  BY <1>1, SentInOrder
<1>3. /\ \A v \in Workers : \A j \in 1 .. Len(queue[v]) : queue[v][j] \in Statements
      /\ \A c \in Clients : \A i \in 1 .. Len(applied[c]) : applied[c][i] \in Statements
      /\ \A v \in Workers : cur[v] # NoStatement => cur[v] \in Statements
  BY <1>1, ElementOfSeq DEF TypeOK
<1>4. \A v \in Workers : Len(queue'[v]) \in Nat
  OBVIOUS
<1>5. KindInv'
  <2>1. ASSUME NEW v \in Workers, NEW j \in 1 .. Len(queue'[v])
        PROVE  queue'[v][j].kind = v /\ queue'[v][j].n <= Top'[queue'[v][j].client]
    <3>1. PICK k \in 1 .. Len(queue[v]) : queue'[v][j] = queue[v][k]
      OBVIOUS
    <3>2. queue[v][k].client \in Clients /\ queue[v][k].n \in Nat
      BY <1>3, StatementFacts
    <3>3. queue[v][k].kind = v /\ queue[v][k].n <= Top[queue[v][k].client]
      BY <1>1 DEF KindInv
    <3> QED
      BY <3>1, <3>2, <3>3
  <2>2. ASSUME NEW v \in Workers, cur'[v] # NoStatement
        PROVE  cur'[v].kind = v /\ cur'[v].n <= Top'[cur'[v].client]
    <3>1. cur'[v] = cur[v]
      BY <2>2
    <3>2. cur[v].client \in Clients /\ cur[v].n \in Nat
      BY <1>3, <2>2, <3>1, StatementFacts
    <3>3. cur[v].kind = v /\ cur[v].n <= Top[cur[v].client]
      BY <1>1, <2>2, <3>1 DEF KindInv
    <3> QED
      BY <3>1, <3>2, <3>3
  <2> QED
    BY <2>1, <2>2 DEF KindInv
<1>6. OrderInv'
  <2>1. ASSUME NEW c \in Clients, NEW i \in 1 .. Len(applied'[c])
        PROVE  applied'[c][i].n <= Top'[c]
    <3>1. CASE \E k \in 1 .. Len(applied[c]) : applied'[c][i] = applied[c][k]
      <4>1. PICK k \in 1 .. Len(applied[c]) : applied'[c][i] = applied[c][k]
        BY <3>1
      <4>2. applied[c][k].n \in Nat /\ applied[c][k].n <= Top[c]
        BY <1>1, <1>3, StatementFacts DEF AppliedBelowTop
      <4> QED
        BY <4>1, <4>2
    <3>2. CASE c = s.client /\ applied'[c][i] = s
      BY <3>2, StatementFacts
    <3> QED
      BY <1>2, <3>1, <3>2
  <2>2. ASSUME NEW v \in Workers, NEW i \in 1 .. Len(queue'[v]), NEW j \in 1 .. Len(queue'[v]),
               i < j, queue'[v][i].client = queue'[v][j].client
        PROVE  queue'[v][i].n <= queue'[v][j].n
    <3>1. PICK d \in {0, 1} : \A k \in 1 .. Len(queue'[v]) :
            k + d \in 1 .. Len(queue[v]) /\ queue'[v][k] = queue[v][k + d]
      OBVIOUS
    <3>2. i + d < j + d
      BY <1>4, <2>2
    <3>3. /\ i + d \in 1 .. Len(queue[v]) /\ queue'[v][i] = queue[v][i + d]
          /\ j + d \in 1 .. Len(queue[v]) /\ queue'[v][j] = queue[v][j + d]
      BY <3>1
    <3>4. \A x, y \in 1 .. Len(queue[v]) :
            x < y /\ queue[v][x].client = queue[v][y].client => queue[v][x].n <= queue[v][y].n
      BY <1>1 DEF QueueSorted
    <3>5. queue[v][i + d].client = queue[v][j + d].client
      BY <2>2, <3>3
    <3>6. queue[v][i + d].n <= queue[v][j + d].n
      BY <3>2, <3>3, <3>4, <3>5
    <3> QED
      BY <3>3, <3>6
  <2>3. ASSUME NEW v \in Workers, cur'[v] # NoStatement, NEW j \in 1 .. Len(queue'[v]),
               queue'[v][j].client = cur'[v].client
        PROVE  cur'[v].n <= queue'[v][j].n
    <3>1. PICK k \in 1 .. Len(queue[v]) : queue'[v][j] = queue[v][k]
      OBVIOUS
    <3>2. cur'[v] = cur[v]
      BY <2>3
    <3>3. cur[v] # NoStatement /\ queue[v][k].client = cur[v].client
      BY <2>3, <3>1, <3>2
    <3>4. cur[v].n <= queue[v][k].n
      BY <1>1, <3>3 DEF HandBeforeQueue
    <3> QED
      BY <3>1, <3>2, <3>4
  <2>4. ASSUME NEW v \in Workers, cur'[v] # NoStatement,
               NEW i \in 1 .. Len(applied'[cur'[v].client]),
               applied'[cur'[v].client][i].kind = v
        PROVE  applied'[cur'[v].client][i].n <= cur'[v].n
    <3>1. cur'[v] = cur[v] /\ s.kind # v
      BY <2>4
    <3>2. cur[v].client \in Clients
      BY <1>3, <2>4, <3>1, StatementFacts
    <3> DEFINE c == cur[v].client
    <3>3. i \in 1 .. Len(applied'[c]) /\ applied'[c][i].kind = v
      BY <2>4, <3>1
    <3>4. PICK k \in 1 .. Len(applied[c]) : applied'[c][i] = applied[c][k]
      <4> HIDE DEF c
      <4> QED
        BY <1>2, <3>1, <3>2, <3>3 DEF c
    <3>5. applied[c][k].kind = v => applied[c][k].n <= cur[v].n
      BY <1>1, <2>4, <3>1 DEF AppliedBeforeHand
    <3> QED
      BY <3>1, <3>3, <3>4, <3>5
  <2>5. ASSUME NEW v \in Workers, pc'[v] \notin {"stop", "done"},
               NEW j \in 1 .. Len(queue'[v]), NEW i \in 1 .. Len(applied'[queue'[v][j].client]),
               applied'[queue'[v][j].client][i].kind = v
        PROVE  applied'[queue'[v][j].client][i].n <= queue'[v][j].n
    <3> DEFINE c == queue'[v][j].client
    <3>1. PICK k \in 1 .. Len(queue[v]) : queue'[v][j] = queue[v][k]
      OBVIOUS
    <3>2. c \in Clients
      BY <1>3, <3>1, StatementFacts
    <3>3. CASE \E m \in 1 .. Len(applied[c]) : applied'[c][i] = applied[c][m]
      <4>1. PICK m \in 1 .. Len(applied[c]) : applied'[c][i] = applied[c][m]
        BY <3>3
      <4>2. pc[v] \notin {"stop", "done"}
        BY <2>5
      <4>3. applied[c][m].kind = v => applied[c][m].n <= queue[v][k].n
        BY <1>1, <3>1, <4>2 DEF AppliedBeforeQueue
      <4> QED
        BY <2>5, <3>1, <4>1, <4>3
    <3>4. CASE c = s.client /\ applied'[c][i] = s
      BY <2>5, <3>4
    <3> QED
      BY <1>2, <3>2, <3>3, <3>4, SMTT(20)
  <2> QED
    BY <2>1, <2>2, <2>3, <2>4, <2>5 DEF OrderInv, AppliedBelowTop, QueueSorted, HandBeforeQueue, AppliedBeforeHand, AppliedBeforeQueue
<1> QED
  BY <1>2, <1>5, <1>6 DEF AllOrder

(* A new call only raises the highest number. *)
LEMMA RaisedOrder ==
  ASSUME IInv, UNCHANGED <<queue, cur, applied, pc>>,
         \A c \in Clients : Top[c] \in Nat /\ Top'[c] \in Nat /\ Top[c] <= Top'[c]
                            /\ Top'[c] <= issued'
  PROVE  AllOrder'
<1>1. /\ TypeOK /\ KindInv /\ InOrder /\ AppliedBelowTop /\ QueueSorted /\ HandBeforeQueue
      /\ AppliedBeforeHand /\ AppliedBeforeQueue
  BY DEF IInv, OrderInv
<1>2. /\ \A v \in Workers : \A j \in 1 .. Len(queue[v]) : queue[v][j] \in Statements
      /\ \A c \in Clients : \A i \in 1 .. Len(applied[c]) : applied[c][i] \in Statements
      /\ \A v \in Workers : cur[v] # NoStatement => cur[v] \in Statements
  BY <1>1, ElementOfSeq DEF TypeOK
<1>3. ASSUME NEW t \in Statements, t.n <= Top[t.client]
      PROVE  t.n <= Top'[t.client]
  BY <1>3, StatementFacts
<1>4. KindInv'
  BY <1>1, <1>2, <1>3 DEF KindInv
<1>5. ASSUME NEW c \in Clients, NEW i \in 1 .. Len(applied[c])
      PROVE  applied[c][i].n <= Top'[c]
  <2>1. applied[c][i].n \in Nat /\ applied[c][i].n <= Top[c]
    BY <1>1, <1>2, StatementFacts DEF AppliedBelowTop
  <2> QED
    BY <2>1
<1>6. OrderInv'
  BY <1>1, <1>5 DEF OrderInv, AppliedBelowTop, QueueSorted, HandBeforeQueue, AppliedBeforeHand, AppliedBeforeQueue
<1>7. InOrder'
  BY <1>1 DEF InOrder
<1> QED
  BY <1>4, <1>6, <1>7 DEF AllOrder

(* push puts the client's statement behind the queue. *)
LEMMA PushOrder ==
  ASSUME IInv, NEW c \in Clients, Push(c)
  PROVE  AllOrder'
<1> DEFINE w == call[c].kind
           s == Statement(c, w)
           q == queue[w]
<1>1. /\ TypeOK /\ KindInv /\ InOrder /\ AppliedBelowTop /\ QueueSorted /\ HandBeforeQueue
      /\ AppliedBeforeHand /\ AppliedBeforeQueue
  BY DEF IInv, OrderInv
<1>2. call[c] # Idle /\ w \in Workers /\ w \in Kinds
  BY DEF Push, IInv, PlaceInv, Kinds
<1>3. s \in Statements /\ s.kind = w /\ s.client = c /\ s.n = Top[c] /\ s.n \in Nat
  BY <1>1, <1>2, CallFacts, StatementFacts DEF Top
<1>4. q \in Seq(Statements)
  BY <1>1, <1>2 DEF TypeOK
<1>5. /\ Append(q, s) \in Seq(Statements) /\ Len(Append(q, s)) = Len(q) + 1 /\ Len(q) \in Nat
      /\ Append(q, s)[Len(q) + 1] = s /\ \A j \in 1 .. Len(q) : Append(q, s)[j] = q[j]
  BY <1>3, <1>4, AppendProperties
<1>6. /\ queue'[w] = Append(q, s) /\ \A v \in Workers : v # w => queue'[v] = queue[v]
      /\ queue' \in [Workers -> Seq(Statements)]
      /\ UNCHANGED <<cur, applied, issued>> /\ call' = [call EXCEPT ![c] = Idle]
  BY <1>1, <1>2, <1>5 DEF Push, TypeOK
<1>7. \A v \in Workers : pc'[v] \in {"stop", "done"} \/ pc[v] \notin {"stop", "done"}
  BY <1>1, <1>2 DEF Push, TypeOK
<1> HIDE DEF w, s, q
<1>8. \A d \in Clients : Top[d] \in Nat /\ Top'[d] \in Nat /\ Top[d] <= Top'[d]
                         /\ Top'[d] <= issued'
  <2> SUFFICES ASSUME NEW d \in Clients
               PROVE  Top[d] \in Nat /\ Top'[d] \in Nat /\ Top[d] <= Top'[d] /\ Top'[d] <= issued'
    OBVIOUS
  <2>1. Top[d] \in Nat /\ Top[d] <= issued /\ issued \in Nat
    BY <1>1, TopNat DEF KindInv, TypeOK
  <2>2. CASE d = c
    BY <1>1, <1>6, <2>1, <2>2 DEF Top, TypeOK
  <2>3. CASE d # c
    BY <1>1, <1>6, <2>1, <2>3 DEF Top, TypeOK
  <2> QED
    BY <2>2, <2>3
<1>9. /\ \A v \in Workers : \A j \in 1 .. Len(queue[v]) : queue[v][j] \in Statements
      /\ \A d \in Clients : \A i \in 1 .. Len(applied[d]) : applied[d][i] \in Statements
      /\ \A v \in Workers : cur[v] # NoStatement => cur[v] \in Statements
  BY <1>1, ElementOfSeq DEF TypeOK
<1>10. ASSUME NEW v \in Workers, NEW j \in 1 .. Len(queue'[v])
       PROVE  \/ j \in 1 .. Len(queue[v]) /\ queue'[v][j] = queue[v][j]
              \/ v = w /\ queue'[v][j] = s /\ j = Len(queue[v]) + 1
  <2>1. CASE v = w
    BY <1>5, <1>6, <2>1 DEF q
  <2>2. CASE v # w
    BY <1>6, <2>2
  <2> QED
    BY <2>1, <2>2
<1>11. KindInv'
  <2>1. ASSUME NEW t \in Statements, t.n <= Top[t.client]
        PROVE  t.n <= Top'[t.client]
    <3>1. t.n \in Nat /\ t.client \in Clients
      BY StatementFacts
    <3> QED
      BY <1>8, <2>1, <3>1
  <2>2. ASSUME NEW v \in Workers, NEW j \in 1 .. Len(queue'[v])
        PROVE  queue'[v][j].kind = v /\ queue'[v][j].n <= Top'[queue'[v][j].client]
    <3>1. CASE j \in 1 .. Len(queue[v]) /\ queue'[v][j] = queue[v][j]
      BY <1>1, <1>9, <2>1, <3>1 DEF KindInv
    <3>2. CASE v = w /\ queue'[v][j] = s
      BY <1>3, <1>8, <3>2
    <3> QED
      BY <1>10, <3>1, <3>2
  <2>3. ASSUME NEW v \in Workers, cur'[v] # NoStatement
        PROVE  cur'[v].kind = v /\ cur'[v].n <= Top'[cur'[v].client]
    BY <1>1, <1>6, <1>9, <2>1, <2>3 DEF KindInv
  <2> QED
    BY <1>8, <2>2, <2>3 DEF KindInv
<1>12. AppliedBelowTop'
  <2> SUFFICES ASSUME NEW d \in Clients, NEW i \in 1 .. Len(applied[d])
               PROVE  applied[d][i].n <= Top'[d]
    BY <1>6 DEF AppliedBelowTop
  <2>1. applied[d][i].n \in Nat /\ applied[d][i].n <= Top[d]
    BY <1>1, <1>9, StatementFacts DEF AppliedBelowTop
  <2> QED
    BY <1>8, <2>1
<1>13. QueueSorted'
  <2> SUFFICES ASSUME NEW v \in Workers,
                      NEW i \in 1 .. Len(queue'[v]), NEW j \in 1 .. Len(queue'[v]),
                      i < j, queue'[v][i].client = queue'[v][j].client
               PROVE  queue'[v][i].n <= queue'[v][j].n
    BY DEF QueueSorted
  <2>1. Len(queue'[v]) \in Nat /\ Len(queue[v]) \in Nat
    BY <1>1, <1>6 DEF TypeOK
  <2>2. CASE j \in 1 .. Len(queue[v]) /\ queue'[v][j] = queue[v][j]
    <3>1. i \in 1 .. Len(queue[v]) /\ queue'[v][i] = queue[v][i]
      BY <1>10, <2>1, <2>2
    <3> QED
      BY <1>1, <2>2, <3>1 DEF QueueSorted
  <2>3. CASE v = w /\ queue'[v][j] = s /\ j = Len(queue[v]) + 1
    <3>1. i \in 1 .. Len(queue[v]) /\ queue'[v][i] = queue[v][i]
      BY <1>10, <2>1, <2>3
    <3>2. queue[v][i].client = c /\ queue[v][i].n <= Top[c]
      BY <1>1, <1>3, <2>3, <3>1 DEF KindInv
    <3> QED
      BY <1>3, <2>3, <3>1, <3>2
  <2> QED
    BY <1>10, <2>2, <2>3
<1>14. HandBeforeQueue'
  <2> SUFFICES ASSUME NEW v \in Workers, cur[v] # NoStatement, NEW j \in 1 .. Len(queue'[v]),
                      queue'[v][j].client = cur[v].client
               PROVE  cur[v].n <= queue'[v][j].n
    BY <1>6 DEF HandBeforeQueue
  <2>1. CASE j \in 1 .. Len(queue[v]) /\ queue'[v][j] = queue[v][j]
    BY <1>1, <2>1 DEF HandBeforeQueue
  <2>2. CASE v = w /\ queue'[v][j] = s
    BY <1>1, <1>3, <2>2 DEF KindInv
  <2> QED
    BY <1>10, <2>1, <2>2
<1>15. AppliedBeforeHand'
  BY <1>1, <1>6 DEF AppliedBeforeHand
<1>16. AppliedBeforeQueue'
  <2> SUFFICES ASSUME NEW v \in Workers, pc'[v] \notin {"stop", "done"},
                      NEW j \in 1 .. Len(queue'[v]),
                      NEW i \in 1 .. Len(applied[queue'[v][j].client]),
                      applied[queue'[v][j].client][i].kind = v
               PROVE  applied[queue'[v][j].client][i].n <= queue'[v][j].n
    BY <1>6 DEF AppliedBeforeQueue
  <2>1. CASE j \in 1 .. Len(queue[v]) /\ queue'[v][j] = queue[v][j]
    BY <1>1, <1>7, <2>1 DEF AppliedBeforeQueue
  <2>2. CASE v = w /\ queue'[v][j] = s
    BY <1>1, <1>3, <2>2 DEF AppliedBelowTop
  <2> QED
    BY <1>10, <2>1, <2>2
<1>17. InOrder'
  BY <1>1, <1>6 DEF InOrder
<1> QED
  BY <1>11, <1>12, <1>13, <1>14, <1>15, <1>16, <1>17 DEF AllOrder, OrderInv

-----------------------------------------------------------------------------
(* A pop that finds a statement: the executor may still lack its           *)
(* connection, the query thread has it.                                    *)
LEMMA TakenInv ==
  ASSUME IInv, NEW w \in Workers, queue[w] # << >>, pc[w] \in {"pop", "woken"},
         pc' = [pc EXCEPT ![w] = AfterPop(w)], Take(w),
         UNCHANGED <<alive, holds, running, ender, call, issued, applied, faults, late>>
  PROVE  IInv'
<1>1. TypeOK /\ NoSleepOnWork /\ PlaceInv /\ EndInv
  BY DEF IInv
<1>2. /\ AfterPop(w) \in {"perform", "connect"}
      /\ w = "query" => AfterPop(w) = "perform"
  BY <1>1 DEF AfterPop, PlaceInv
<1>3. /\ Head(queue[w]) \in Statements /\ Tail(queue[w]) \in Seq(Statements)
      /\ Head(queue[w]) # NoStatement
  BY <1>1, TakeFacts, StatementFacts DEF TypeOK
<1>4. /\ cur' = [cur EXCEPT ![w] = Head(queue[w])]
      /\ queue' = [queue EXCEPT ![w] = Tail(queue[w])]
  BY DEF Take
<1>5. TypeOK'
  BY <1>1, <1>2, <1>3, <1>4 DEF TypeOK, Holders
<1>6. NoSleepOnWork'
  BY <1>1, <1>2, <1>4 DEF TypeOK, NoSleepOnWork
<1>7. PlaceInv'
  BY <1>1, <1>2, <1>4 DEF TypeOK, PlaceInv
<1>8. EndInv'
  BY <1>1, <1>2, <1>3, <1>4 DEF TypeOK, EndInv
<1>9. AllOrder'
  BY <1>1, <1>2, TakeOrder DEF TypeOK
<1> QED
  BY <1>5, <1>6, <1>7, <1>8, <1>9 DEF IInv, AllOrder

-----------------------------------------------------------------------------
(* The steps of the control: one lemma for each, with one step for each    *)
(* part of the invariant.                                                  *)
LEMMA PopInv ==
  ASSUME IInv, NEW w \in Workers, Pop(w)
  PROVE  IInv'
<1>1. TypeOK /\ NoSleepOnWork /\ PlaceInv /\ EndInv
  BY DEF IInv
<1>2. CASE queue[w] = << >>
  <2>1. /\ pc[w] = "pop" /\ pc' = [pc EXCEPT ![w] = "asleep"]
        /\ UNCHANGED <<queue, alive, cur, holds, running, ender, call, issued, applied, faults, late>>
    BY <1>2 DEF Pop, Goto
  <2>2. TypeOK'
    BY <1>1, <2>1 DEF TypeOK, Holders
  <2>3. NoSleepOnWork'
    BY <1>1, <1>2, <2>1 DEF TypeOK, NoSleepOnWork
  <2>4. PlaceInv'
    BY <1>1, <2>1 DEF TypeOK, PlaceInv
  <2>5. EndInv'
    BY <1>1, <2>1 DEF TypeOK, EndInv
  <2>6. AllOrder'
    BY <1>1, <2>1, QuietOrder DEF TypeOK
  <2> QED
    BY <2>2, <2>3, <2>4, <2>5, <2>6 DEF IInv, AllOrder
<1>3. CASE queue[w] # << >>
  <2>1. /\ pc[w] = "pop" /\ pc' = [pc EXCEPT ![w] = AfterPop(w)] /\ Take(w)
        /\ UNCHANGED <<alive, holds, running, ender, call, issued, applied, faults, late>>
    BY <1>3 DEF Pop, Goto
  <2> QED
    BY <1>1, <1>3, <2>1, TakenInv
<1> QED
  BY <1>2, <1>3


(* A sleeper wakes by itself. *)
LEMMA SpuriousInv ==
  ASSUME IInv, NEW w \in Workers, SpuriousWake(w)
  PROVE  IInv'
<1>1. TypeOK /\ NoSleepOnWork /\ PlaceInv /\ EndInv
  BY DEF IInv
<1>2. TypeOK'
  BY <1>1 DEF TypeOK, Holders, SpuriousWake, Goto
<1>3. NoSleepOnWork'
  BY <1>1 DEF TypeOK, NoSleepOnWork, SpuriousWake, Goto
<1>4. PlaceInv'
  BY <1>1 DEF TypeOK, PlaceInv, SpuriousWake, Goto
<1>5. EndInv'
  BY <1>1 DEF TypeOK, EndInv, PlaceInv, SpuriousWake, Goto
<1>6. AllOrder'
  BY <1>1, QuietOrder DEF TypeOK, SpuriousWake, Goto
<1> QED
  BY <1>2, <1>3, <1>4, <1>5, <1>6 DEF IInv, AllOrder

(* Workers and clients are threads, and different ones. *)
LEMMA ThreadFacts ==
  /\ \A w \in Workers : w \in Threads
  /\ \A c \in Clients : c \in Threads /\ c \notin Workers
  /\ "query" \in Workers /\ "executor" \in Workers
  BY DEF Threads, Workers

(* A worker gets its connection. *)
LEMMA ConnectInv ==
  ASSUME IInv, NEW w \in Workers, Connect(w)
  PROVE  IInv'
<1>1. TypeOK /\ NoSleepOnWork /\ PlaceInv /\ EndInv
  BY DEF IInv
<1>2. TypeOK'
  <2>1. GetFreeConnection(w)
    BY DEF Connect
  <2>2. holds' \in [Threads -> BOOLEAN] /\ Cardinality(Holders') <= Conns
    BY <1>1, <2>1, TakesOne, ThreadFacts
  <2> QED
    BY <1>1, <2>2 DEF TypeOK, Connect, Goto
<1>3. NoSleepOnWork'
  BY <1>1 DEF TypeOK, NoSleepOnWork, Connect, Goto
<1>4. PlaceInv'
  BY <1>1, ThreadFacts DEF TypeOK, PlaceInv, Connect, Goto, GetFreeConnection
<1>5. EndInv'
  BY <1>1 DEF TypeOK, EndInv, Connect, Goto, Workers
<1>6. AllOrder'
  BY <1>1, QuietOrder DEF TypeOK, Connect, Goto
<1> QED
  BY <1>2, <1>3, <1>4, <1>5, <1>6 DEF IInv, AllOrder

(* A worker leaves its loop. *)
LEMMA ReleaseInv ==
  ASSUME IInv, NEW w \in Workers, Release(w)
  PROVE  IInv'
<1>1. TypeOK /\ NoSleepOnWork /\ PlaceInv /\ EndInv
  BY DEF IInv
<1>2. TypeOK'
  <2>1. BusyRelease(w)
    BY DEF Release
  <2>2. holds' \in [Threads -> BOOLEAN] /\ Cardinality(Holders') <= Conns
    BY <1>1, <2>1, GivesBack, ThreadFacts
  <2> QED
    BY <1>1, <2>2 DEF TypeOK, Release, Goto
<1>3. NoSleepOnWork'
  BY <1>1 DEF TypeOK, NoSleepOnWork, Release, Goto
<1>4. PlaceInv'
  BY <1>1, ThreadFacts DEF TypeOK, PlaceInv, Release, Goto, BusyRelease
<1>5. EndInv'
  BY <1>1 DEF TypeOK, EndInv, PlaceInv, Release, Goto
<1>6. AllOrder'
  BY <1>1, QuietOrder DEF TypeOK, Release, Goto
<1> QED
  BY <1>2, <1>3, <1>4, <1>5, <1>6 DEF IInv, AllOrder

(* A worker announces its end. *)
LEMMA StopInv ==
  ASSUME IInv, NEW w \in Workers, Stop(w)
  PROVE  IInv'
<1>1. TypeOK /\ NoSleepOnWork /\ PlaceInv /\ EndInv
  BY DEF IInv
<1>2. TypeOK'
  BY <1>1 DEF TypeOK, Holders, Stop, Goto
<1>3. NoSleepOnWork'
  BY <1>1 DEF TypeOK, NoSleepOnWork, Stop, Goto
<1>4. PlaceInv'
  BY <1>1 DEF TypeOK, PlaceInv, Stop, Goto
<1>5. EndInv'
  BY <1>1 DEF TypeOK, EndInv, PlaceInv, Stop, Goto
<1>6. AllOrder'
  BY <1>1, QuietOrder DEF TypeOK, Stop, Goto
<1> QED
  BY <1>2, <1>3, <1>4, <1>5, <1>6 DEF IInv, AllOrder

(* EndThreads begins. *)
LEMMA TerminateInv ==
  ASSUME IInv, Terminate
  PROVE  IInv'
<1>1. TypeOK /\ NoSleepOnWork /\ PlaceInv /\ EndInv
  BY DEF IInv
<1>2. TypeOK'
  BY <1>1 DEF TypeOK, Holders, Terminate
<1>3. NoSleepOnWork'
  BY <1>1 DEF TypeOK, NoSleepOnWork, Terminate
<1>4. PlaceInv'
  BY <1>1 DEF TypeOK, PlaceInv, Terminate
<1>5. EndInv'
  BY <1>1 DEF TypeOK, EndInv, PlaceInv, Terminate
<1>6. AllOrder'
  BY <1>1, QuietOrder DEF TypeOK, Terminate
<1> QED
  BY <1>2, <1>3, <1>4, <1>5, <1>6 DEF IInv, AllOrder

(* EndThreads wakes the sleepers. *)
LEMMA BroadcastInv ==
  ASSUME IInv, Broadcast
  PROVE  IInv'
<1>1. TypeOK /\ NoSleepOnWork /\ PlaceInv /\ EndInv
  BY DEF IInv
<1>2. TypeOK'
  BY <1>1 DEF TypeOK, Holders, Broadcast
<1>3. NoSleepOnWork'
  BY <1>1 DEF TypeOK, NoSleepOnWork, Broadcast
<1>4. PlaceInv'
  <2>1. \/ pc' = pc
        \/ pc' = [w \in Workers |->
                     IF pc[w] = "asleep" /\ queue[w] = << >> THEN "woken" ELSE pc[w]]
    BY DEF Broadcast
  <2>2. "query" \in Workers
    BY DEF Workers
  <2>3. \A w \in Workers : pc'[w] = pc[w] \/ (pc[w] = "asleep" /\ pc'[w] = "woken")
    BY <1>1, <2>1 DEF TypeOK
  <2>4. UNCHANGED <<alive, cur, holds, call>>
    BY DEF Broadcast
  <2> QED
    BY <1>1, <2>2, <2>3, <2>4 DEF PlaceInv
<1>5. EndInv'
  BY <1>1 DEF TypeOK, EndInv, PlaceInv, Broadcast
<1>6. AllOrder'
  BY <1>1, QuietOrder DEF TypeOK, Broadcast
<1> QED
  BY <1>2, <1>3, <1>4, <1>5, <1>6 DEF IInv, AllOrder

(* EndThreads looks again. *)
LEMMA AfterSleepInv ==
  ASSUME IInv, AfterSleep
  PROVE  IInv'
<1>1. TypeOK /\ NoSleepOnWork /\ PlaceInv /\ EndInv
  BY DEF IInv
<1>2. TypeOK'
  BY <1>1 DEF TypeOK, Holders, AfterSleep
<1>3. NoSleepOnWork'
  BY <1>1 DEF TypeOK, NoSleepOnWork, AfterSleep
<1>4. PlaceInv'
  BY <1>1 DEF TypeOK, PlaceInv, AfterSleep
<1>5. EndInv'
  BY <1>1 DEF TypeOK, EndInv, PlaceInv, AfterSleep
<1>6. AllOrder'
  BY <1>1, QuietOrder DEF TypeOK, AfterSleep
<1> QED
  BY <1>2, <1>3, <1>4, <1>5, <1>6 DEF IInv, AllOrder

(* pop after its wait: a statement, or the null that ends the loop, which  *)
(* before EndThreads only a spurious wake-up brings.                       *)
LEMMA WokenInv ==
  ASSUME IInv, NEW w \in Workers, Woken(w)
  PROVE  IInv'
<1>1. TypeOK /\ NoSleepOnWork /\ PlaceInv /\ EndInv
  BY DEF IInv
<1>2. late' \in BOOLEAN /\ (late' <=> late \/ (queue[w] = << >> /\ running))
  BY <1>1 DEF Woken, TypeOK
<1>3. CASE queue[w] # << >>
  <2>1. late' = late
    BY <1>1, <1>2, <1>3 DEF TypeOK
  <2>2. /\ pc[w] = "woken" /\ pc' = [pc EXCEPT ![w] = AfterPop(w)] /\ Take(w)
        /\ UNCHANGED <<alive, holds, running, ender, call, issued, applied, faults, late>>
    BY <1>3, <2>1 DEF Woken, Goto
  <2> QED
    BY <1>3, <2>2, TakenInv
<1>4. CASE queue[w] = << >>
  <2>1. cur[w] = NoStatement /\ pc[w] = "woken"
    BY <1>1 DEF Woken, PlaceInv
  <2>2. /\ pc' = [pc EXCEPT ![w] = AfterPop(w)] /\ cur' = [cur EXCEPT ![w] = NoStatement]
        /\ UNCHANGED <<queue, alive, holds, running, ender, call, issued, applied, faults>>
    BY <1>4 DEF Woken, Goto, TakeNull
  <2>3. cur' = cur
    BY <1>1, <2>1, <2>2 DEF TypeOK
  <2>4. /\ AfterPop(w) \in {"perform", "connect"}
        /\ w = "query" => AfterPop(w) = "perform"
    BY <1>1, <2>1 DEF AfterPop, PlaceInv
  <2>5. TypeOK'
    BY <1>1, <1>2, <2>2, <2>3, <2>4 DEF TypeOK, Holders
  <2>6. NoSleepOnWork'
    BY <1>1, <2>2, <2>4 DEF TypeOK, NoSleepOnWork
  <2>7. PlaceInv'
    BY <1>1, <2>1, <2>2, <2>3, <2>4 DEF TypeOK, PlaceInv
  <2>8. EndInv'
    BY <1>1, <1>2, <1>4, <2>2, <2>3, <2>4 DEF TypeOK, EndInv
  <2>9. AllOrder'
    BY <1>1, <2>1, <2>2, <2>3, <2>4, QuietOrder DEF TypeOK
  <2> QED
    BY <2>5, <2>6, <2>7, <2>8, <2>9 DEF IInv, AllOrder
<1> QED
  BY <1>3, <1>4

(* The highest numbers, when no call begins or ends. *)
LEMMA SameTop ==
  ASSUME IInv, UNCHANGED <<call, issued>>
  PROVE  \A c \in Clients : Top[c] \in Nat /\ Top'[c] \in Nat /\ Top[c] <= Top'[c]
                            /\ Top'[c] <= issued'
<1>1. Top' = Top
  BY DEF Top
<1> QED
  BY <1>1, TopNat DEF IInv, KindInv

(* The loop's body. *)
LEMMA PerformInv ==
  ASSUME IInv, NEW w \in Workers, Perform(w)
  PROVE  IInv'
<1>1. /\ TypeOK /\ NoSleepOnWork /\ PlaceInv /\ EndInv /\ KindInv
      /\ HandBeforeQueue /\ AppliedBeforeHand
  BY DEF IInv, OrderInv
<1>2. /\ pc[w] = "perform" /\ cur' = [cur EXCEPT ![w] = NoStatement]
      /\ UNCHANGED <<queue, alive, holds, running, ender, call, issued, late>>
  BY DEF Perform
<1>3. /\ pc' = [pc EXCEPT ![w] = IF cur[w] # NoStatement /\ running THEN "pop" ELSE "release"]
      /\ cur[w] = NoStatement => UNCHANGED <<applied, faults>>
      /\ cur[w] # NoStatement => SendQuery(cur[w])
  BY DEF Perform, Goto
<1>4. cur[w] # NoStatement => cur[w] \in Statements
  BY <1>1 DEF TypeOK
<1>5. TypeOK'
  <2>1. faults' \in 0 .. MaxFaults /\ applied' \in [Clients -> Seq(Statements)]
    <3>1. CASE cur[w] = NoStatement
      BY <1>1, <1>3, <3>1 DEF TypeOK
    <3>2. CASE cur[w] # NoStatement
      BY <1>1, <1>3, <1>4, <3>2, SendFacts
    <3> QED
      BY <3>1, <3>2
  <2> QED
    BY <1>1, <1>2, <1>3, <2>1 DEF TypeOK, Holders
<1>6. NoSleepOnWork'
  BY <1>1, <1>2, <1>3 DEF TypeOK, NoSleepOnWork
<1>7. PlaceInv'
  BY <1>1, <1>2, <1>3 DEF TypeOK, PlaceInv
<1>8. EndInv'
  BY <1>1, <1>2, <1>3 DEF TypeOK, EndInv
<1>9. AllOrder'
  <2>1. CASE cur[w] = NoStatement
    <3>1. cur' = cur
      BY <1>1, <1>2, <2>1 DEF TypeOK
    <3> QED
      BY <1>1, <1>2, <1>3, <2>1, <3>1, QuietOrder DEF TypeOK
  <2>2. CASE cur[w] # NoStatement
    <3> DEFINE s == cur[w]
    <3>1. s \in Statements /\ SendQuery(s) /\ s.kind = w /\ s.n <= Top[s.client]
      BY <1>1, <1>3, <1>4, <2>2 DEF KindInv
    <3>2. \A i \in 1 .. Len(applied[s.client]) :
            applied[s.client][i].kind = s.kind => applied[s.client][i].n <= s.n
      BY <1>1, <2>2, <3>1 DEF AppliedBeforeHand
    <3>3. \A v \in Workers : cur'[v] = NoStatement \/ (cur'[v] = cur[v] /\ s.kind # v)
      BY <1>1, <1>2, <3>1 DEF TypeOK
    <3>4. \A v \in Workers : \E d \in {0, 1} : \A j \in 1 .. Len(queue'[v]) :
            j + d \in 1 .. Len(queue[v]) /\ queue'[v][j] = queue[v][j + d]
      <4> SUFFICES ASSUME NEW v \in Workers
                   PROVE  \A j \in 1 .. Len(queue'[v]) :
                            j + 0 \in 1 .. Len(queue[v]) /\ queue'[v][j] = queue[v][j + 0]
        OBVIOUS
      <4> QED
        BY <1>2
    <3>5. \A v \in Workers : pc'[v] \notin {"stop", "done"} =>
            /\ pc[v] \notin {"stop", "done"}
            /\ s.kind = v => \A j \in 1 .. Len(queue'[v]) :
                 queue'[v][j].client = s.client => s.n <= queue'[v][j].n
      BY <1>1, <1>2, <1>3, <2>2, <3>1 DEF TypeOK, HandBeforeQueue
    <3>6. queue' \in [Workers -> Seq(Statements)]
      BY <1>1, <1>2 DEF TypeOK
    <3>7. \A c \in Clients : Top[c] \in Nat /\ Top'[c] \in Nat /\ Top[c] <= Top'[c]
                             /\ Top'[c] <= issued'
      BY <1>2, SameTop
    <3> HIDE DEF s
    <3> QED
      BY <3>1, <3>2, <3>3, <3>4, <3>5, <3>6, <3>7, SentOrder
  <2> QED
    BY <2>1, <2>2
<1> QED
  BY <1>5, <1>6, <1>7, <1>8, <1>9 DEF IInv, AllOrder

(* The rest of the queue is worked off: a statement is taken ... *)
LEMMA DrainInv ==
  ASSUME IInv, NEW w \in Workers, Drain(w)
  PROVE  IInv'
<1>1. TypeOK /\ NoSleepOnWork /\ PlaceInv /\ EndInv
  BY DEF IInv
<1>2. /\ pc[w] = "drain"
      /\ UNCHANGED <<alive, holds, running, ender, call, issued, applied, faults, late>>
  BY DEF Drain
<1>3. CASE queue[w] = << >>
  <2>1. pc' = [pc EXCEPT ![w] = "stop"] /\ UNCHANGED <<queue, cur>>
    BY <1>3 DEF Drain, Goto
  <2>2. TypeOK'
    BY <1>1, <1>2, <2>1 DEF TypeOK, Holders
  <2>3. NoSleepOnWork'
    BY <1>1, <1>2, <2>1 DEF TypeOK, NoSleepOnWork
  <2>4. PlaceInv'
    BY <1>1, <1>2, <2>1 DEF TypeOK, PlaceInv
  <2>5. EndInv'
    BY <1>1, <1>2, <1>3, <2>1 DEF TypeOK, EndInv
  <2>6. AllOrder'
    BY <1>1, <1>2, <2>1, QuietOrder DEF TypeOK
  <2> QED
    BY <2>2, <2>3, <2>4, <2>5, <2>6 DEF IInv, AllOrder
<1>4. CASE queue[w] # << >>
  <2>1. /\ pc' = [pc EXCEPT ![w] = "reconnect"] /\ Take(w)
        /\ cur' = [cur EXCEPT ![w] = Head(queue[w])]
        /\ queue' = [queue EXCEPT ![w] = Tail(queue[w])]
    BY <1>4 DEF Drain, Goto, Take
  <2>2. /\ Head(queue[w]) \in Statements /\ Tail(queue[w]) \in Seq(Statements)
        /\ Head(queue[w]) # NoStatement
    BY <1>1, <1>4, TakeFacts, StatementFacts DEF TypeOK
  <2>3. TypeOK'
    BY <1>1, <1>2, <2>1, <2>2 DEF TypeOK, Holders
  <2>4. NoSleepOnWork'
    BY <1>1, <1>2, <2>1 DEF TypeOK, NoSleepOnWork
  <2>5. PlaceInv'
    BY <1>1, <1>2, <2>1, <2>2 DEF TypeOK, PlaceInv
  <2>6. EndInv'
    BY <1>1, <1>2, <2>1 DEF TypeOK, EndInv
  <2>7. AllOrder'
    BY <1>1, <1>2, <1>4, <2>1, TakeOrder DEF TypeOK
  <2> QED
    BY <2>3, <2>4, <2>5, <2>6, <2>7 DEF IInv, AllOrder
<1> QED
  BY <1>3, <1>4

(* ... gets a connection ... *)
LEMMA ReconnectInv ==
  ASSUME IInv, NEW w \in Workers, Reconnect(w)
  PROVE  IInv'
<1>1. TypeOK /\ NoSleepOnWork /\ PlaceInv /\ EndInv
  BY DEF IInv
<1>2. TypeOK'
  <2>1. GetFreeConnection(w)
    BY DEF Reconnect
  <2>2. holds' \in [Threads -> BOOLEAN] /\ Cardinality(Holders') <= Conns
    BY <1>1, <2>1, TakesOne, ThreadFacts
  <2> QED
    BY <1>1, <2>2 DEF TypeOK, Reconnect, Goto
<1>3. NoSleepOnWork'
  BY <1>1 DEF TypeOK, NoSleepOnWork, Reconnect, Goto
<1>4. PlaceInv'
  BY <1>1, ThreadFacts DEF TypeOK, PlaceInv, Reconnect, Goto, GetFreeConnection
<1>5. EndInv'
  BY <1>1 DEF TypeOK, EndInv, Reconnect, Goto
<1>6. AllOrder'
  BY <1>1, QuietOrder DEF TypeOK, Reconnect, Goto
<1> QED
  BY <1>2, <1>3, <1>4, <1>5, <1>6 DEF IInv, AllOrder

(* ... and is sent. *)
LEMMA PerformLastInv ==
  ASSUME IInv, NEW w \in Workers, PerformLast(w)
  PROVE  IInv'
<1> DEFINE s == cur[w]
<1>1. /\ TypeOK /\ NoSleepOnWork /\ PlaceInv /\ EndInv /\ KindInv
      /\ HandBeforeQueue /\ AppliedBeforeHand
  BY DEF IInv, OrderInv
<1>2. /\ pc[w] = "last" /\ cur' = [cur EXCEPT ![w] = NoStatement]
      /\ pc' = [pc EXCEPT ![w] = "drain"] /\ BusyRelease(w) /\ SendQuery(s)
      /\ UNCHANGED <<queue, alive, running, ender, call, issued, late>>
  BY DEF PerformLast, Goto
<1>3. s # NoStatement /\ s \in Statements /\ s.kind = w /\ s.n <= Top[s.client]
  BY <1>1, <1>2 DEF TypeOK, PlaceInv, KindInv
<1>4. TypeOK'
  <2>1. faults' \in 0 .. MaxFaults /\ applied' \in [Clients -> Seq(Statements)]
    BY <1>1, <1>2, <1>3, SendFacts
  <2>2. holds' \in [Threads -> BOOLEAN] /\ Cardinality(Holders') <= Conns
    BY <1>1, <1>2, GivesBack, ThreadFacts
  <2> QED
    BY <1>1, <1>2, <2>1, <2>2 DEF TypeOK
<1>5. NoSleepOnWork'
  BY <1>1, <1>2 DEF TypeOK, NoSleepOnWork
<1>6. PlaceInv'
  BY <1>1, <1>2, ThreadFacts DEF TypeOK, PlaceInv, BusyRelease
<1>7. EndInv'
  BY <1>1, <1>2 DEF TypeOK, EndInv
<1>8. AllOrder'
  <2>1. \A i \in 1 .. Len(applied[s.client]) :
          applied[s.client][i].kind = s.kind => applied[s.client][i].n <= s.n
    BY <1>1, <1>3 DEF AppliedBeforeHand
  <2>2. \A v \in Workers : cur'[v] = NoStatement \/ (cur'[v] = cur[v] /\ s.kind # v)
    BY <1>1, <1>2, <1>3 DEF TypeOK
  <2>3. \A v \in Workers : \E d \in {0, 1} : \A j \in 1 .. Len(queue'[v]) :
          j + d \in 1 .. Len(queue[v]) /\ queue'[v][j] = queue[v][j + d]
    <3> SUFFICES ASSUME NEW v \in Workers
                 PROVE  \A j \in 1 .. Len(queue'[v]) :
                          j + 0 \in 1 .. Len(queue[v]) /\ queue'[v][j] = queue[v][j + 0]
      OBVIOUS
    <3> QED
      BY <1>2
  <2>4. \A v \in Workers : pc'[v] \notin {"stop", "done"} =>
          /\ pc[v] \notin {"stop", "done"}
          /\ s.kind = v => \A j \in 1 .. Len(queue'[v]) :
               queue'[v][j].client = s.client => s.n <= queue'[v][j].n
    BY <1>1, <1>2, <1>3 DEF TypeOK, HandBeforeQueue
  <2>5. queue' \in [Workers -> Seq(Statements)]
    BY <1>1, <1>2 DEF TypeOK
  <2>6. \A c \in Clients : Top[c] \in Nat /\ Top'[c] \in Nat /\ Top[c] <= Top'[c]
                           /\ Top'[c] <= issued'
    BY <1>2, SameTop
  <2> HIDE DEF s
  <2> QED
    BY <1>2, <1>3, <2>1, <2>2, <2>3, <2>4, <2>5, <2>6, SentOrder
<1> QED
  BY <1>4, <1>5, <1>6, <1>7, <1>8 DEF IInv, AllOrder

(* Execute, AddQueryBuffer and WaitExecute begin. *)
LEMMA IssueInv ==
  ASSUME IInv, NEW c \in Clients, NEW k \in Kinds, Issue(c, k)
  PROVE  IInv'
<1> DEFINE r == [kind |-> k, push |-> k \in Workers /\ alive[k], n |-> issued + 1]
<1>1. TypeOK /\ NoSleepOnWork /\ PlaceInv /\ EndInv /\ KindInv
  BY DEF IInv
<1>2. /\ call[c] = Idle /\ issued < MaxIssue /\ issued' = issued + 1
      /\ UNCHANGED <<queue, alive, pc, cur, holds, running, ender, applied, faults>>
      /\ call' = [call EXCEPT ![c] = r]
  BY DEF Issue
<1>3. late' \in BOOLEAN /\ (late' <=> late \/ ender # "up")
  BY <1>1 DEF Issue, TypeOK
<1>4. r.push \in BOOLEAN /\ (r.push <=> k \in Workers /\ alive[k])
  BY <1>1 DEF TypeOK
<1>5. r \in [kind : Kinds, push : BOOLEAN, n : 1 .. MaxIssue] /\ r.kind = k /\ r.n = issued + 1
  BY <1>1, <1>2, <1>4 DEF TypeOK
<1> HIDE DEF r
<1>6. r # Idle
  BY <1>1, <1>5 DEF Idle, TypeOK
<1>7. /\ call' \in [Clients -> {Idle} \union [kind : Kinds, push : BOOLEAN, n : 1 .. MaxIssue]]
      /\ call'[c] = r /\ \A d \in Clients : d # c => call'[d] = call[d]
  BY <1>1, <1>2, <1>5 DEF TypeOK
<1>8. TypeOK'
  BY <1>1, <1>2, <1>3, <1>7 DEF TypeOK, Holders
<1>9. NoSleepOnWork'
  BY <1>1, <1>2 DEF NoSleepOnWork
<1>10. PlaceInv'
  <2>1. \A w \in Workers : ~alive[w] => pc[w] = "done"
    BY <1>1 DEF PlaceInv
  <2>2. IF r.push THEN r.kind \in Workers ELSE r.kind \in Workers => pc[r.kind] = "done"
    BY <1>4, <1>5, <2>1
  <2> QED
    BY <1>1, <1>2, <1>6, <1>7, <2>2 DEF PlaceInv
<1>11. EndInv'
  BY <1>1, <1>2, <1>3, <1>7 DEF EndInv
<1>12. ASSUME NEW d \in Clients
       PROVE  Top[d] \in Nat /\ Top'[d] \in Nat /\ Top[d] <= Top'[d] /\ Top'[d] <= issued'
  <2>1. Top[d] \in Nat /\ Top[d] <= issued /\ issued \in Nat
    BY <1>1, TopNat DEF KindInv, TypeOK
  <2>2. CASE d = c
    <3>1. Top[d] = issued /\ Top'[d] = issued + 1
      BY <1>2, <1>5, <1>6, <1>7, <2>2 DEF Top
    <3> QED
      BY <1>2, <2>1, <3>1
  <2>3. CASE d # c
    <3>1. Top'[d] = IF call[d] = Idle THEN issued + 1 ELSE Top[d]
      BY <1>2, <1>7, <2>3 DEF Top
    <3> QED
      BY <1>2, <2>1, <3>1
  <2> QED
    BY <2>2, <2>3
<1>13. AllOrder'
  BY <1>2, <1>12, RaisedOrder
<1> QED
  BY <1>8, <1>9, <1>10, <1>11, <1>13 DEF IInv, AllOrder

(* push. *)
LEMMA PushInv ==
  ASSUME IInv, NEW c \in Clients, Push(c)
  PROVE  IInv'
<1> DEFINE w == call[c].kind
           s == Statement(c, w)
<1>1. TypeOK /\ NoSleepOnWork /\ PlaceInv /\ EndInv
  BY DEF IInv
<1>2. call[c] # Idle /\ w \in Workers /\ w \in Kinds
  BY <1>1 DEF Push, PlaceInv, Kinds
<1>3. s \in Statements
  BY <1>1, <1>2, CallFacts
<1>4. /\ queue' = [queue EXCEPT ![w] = Append(queue[w], s)]
      /\ pc' = (IF queue[w] = << >> /\ pc[w] = "asleep" THEN [pc EXCEPT ![w] = "woken"] ELSE pc)
      /\ call' = [call EXCEPT ![c] = Idle]
      /\ UNCHANGED <<alive, cur, holds, running, ender, issued, applied, faults, late>>
  BY DEF Push
<1> HIDE DEF w, s
<1>5. Append(queue[w], s) \in Seq(Statements)
  BY <1>1, <1>2, <1>3, AppendProperties DEF TypeOK
<1>6. /\ queue' \in [Workers -> Seq(Statements)]
      /\ \A v \in Workers : v # w => queue'[v] = queue[v]
      /\ \A v \in Workers : pc'[v] = pc[v] \/ (v = w /\ pc[v] = "asleep" /\ pc'[v] = "woken")
      /\ pc'[w] # "asleep"
  BY <1>1, <1>2, <1>4, <1>5 DEF TypeOK, NoSleepOnWork
<1>7. TypeOK'
  BY <1>1, <1>2, <1>4, <1>6 DEF TypeOK, Holders
<1>8. NoSleepOnWork'
  BY <1>1, <1>6 DEF NoSleepOnWork
<1>9. PlaceInv'
  <2>1. \A d \in Clients : call'[d] # Idle => d # c /\ call'[d] = call[d]
    BY <1>1, <1>4 DEF TypeOK
  <2>2. "query" \in Workers
    BY DEF Workers
  <2>3. ~holds[c]
    BY <1>1 DEF Push, PlaceInv
  <2> QED
    BY <1>1, <1>4, <1>6, <2>1, <2>2, <2>3 DEF PlaceInv
<1>10. EndInv'
  <2>1. \A d \in Clients : call[d] = Idle => call'[d] = Idle
    BY <1>1, <1>4 DEF TypeOK
  <2>2. ~late => running
    BY <1>1, <1>2 DEF EndInv
  <2> QED
    BY <1>1, <1>4, <1>6, <2>1, <2>2 DEF EndInv
<1>11. AllOrder'
  BY PushOrder
<1> QED
  BY <1>7, <1>8, <1>9, <1>10, <1>11 DEF IInv, AllOrder

(* A caller gets a connection. *)
LEMMA CallerConnectInv ==
  ASSUME IInv, NEW c \in Clients, CallerConnect(c)
  PROVE  IInv'
<1>1. TypeOK /\ NoSleepOnWork /\ PlaceInv /\ EndInv
  BY DEF IInv
<1>2. TypeOK'
  <2>1. GetFreeConnection(c)
    BY DEF CallerConnect
  <2>2. holds' \in [Threads -> BOOLEAN] /\ Cardinality(Holders') <= Conns
    BY <1>1, <2>1, TakesOne, ThreadFacts
  <2> QED
    BY <1>1, <2>2 DEF TypeOK, CallerConnect
<1>3. NoSleepOnWork'
  BY <1>1 DEF NoSleepOnWork, CallerConnect
<1>4. PlaceInv'
  BY <1>1, ThreadFacts DEF TypeOK, PlaceInv, CallerConnect, GetFreeConnection
<1>5. EndInv'
  BY <1>1 DEF EndInv, CallerConnect
<1>6. AllOrder'
  BY <1>1, QuietOrder DEF CallerConnect
<1> QED
  BY <1>2, <1>3, <1>4, <1>5, <1>6 DEF IInv, AllOrder

(* A caller sends its statement itself: its thread has stopped for good,   *)
(* or the call was WaitExecute.                                            *)
LEMMA SendNowInv ==
  ASSUME IInv, NEW c \in Clients, SendNow(c)
  PROVE  IInv'
<1> DEFINE k == call[c].kind
           s == Statement(c, k)
<1>1. TypeOK /\ NoSleepOnWork /\ PlaceInv /\ EndInv /\ KindInv /\ AppliedBelowTop
  BY DEF IInv, OrderInv
<1>2. /\ call[c] # Idle /\ ~call[c].push /\ SendQuery(s) /\ call' = [call EXCEPT ![c] = Idle]
      /\ BusyRelease(c) /\ UNCHANGED <<queue, alive, pc, cur, running, ender, issued, late>>
  BY <1>1 DEF SendNow, PlaceInv
<1>3. k \in Kinds /\ s \in Statements /\ s.kind = k /\ s.client = c /\ s.n = Top[c]
  BY <1>1, <1>2, CallFacts DEF Top
<1>4. k \in Workers => pc[k] = "done" /\ cur[k] = NoStatement
  BY <1>1, <1>2 DEF PlaceInv
<1> HIDE DEF s, k
<1>5. faults' \in 0 .. MaxFaults /\ applied' \in [Clients -> Seq(Statements)]
  BY <1>1, <1>2, <1>3, SendFacts
<1>6. /\ call' \in [Clients -> {Idle} \union [kind : Kinds, push : BOOLEAN, n : 1 .. MaxIssue]]
      /\ call'[c] = Idle /\ \A d \in Clients : d # c => call'[d] = call[d]
  BY <1>1, <1>2 DEF TypeOK
<1>7. TypeOK'
  <2>1. holds' \in [Threads -> BOOLEAN] /\ Cardinality(Holders') <= Conns
    BY <1>1, <1>2, GivesBack, ThreadFacts
  <2> QED
    BY <1>1, <1>2, <1>5, <1>6, <2>1 DEF TypeOK
<1>8. NoSleepOnWork'
  BY <1>1, <1>2 DEF NoSleepOnWork
<1>9. PlaceInv'
  BY <1>1, <1>2, <1>6, ThreadFacts DEF TypeOK, PlaceInv, BusyRelease
<1>10. EndInv'
  BY <1>1, <1>2, <1>6 DEF EndInv
<1>11. ASSUME NEW d \in Clients
       PROVE  Top[d] \in Nat /\ Top'[d] \in Nat /\ Top[d] <= Top'[d] /\ Top'[d] <= issued'
  <2>1. Top[d] \in Nat /\ Top[d] <= issued /\ issued \in Nat
    BY <1>1, TopNat DEF KindInv, TypeOK
  <2>2. Top'[d] = IF d = c THEN issued ELSE Top[d]
    BY <1>2, <1>6 DEF Top
  <2> QED
    BY <1>2, <2>1, <2>2
<1>12. AllOrder'
  <2>1. s.n <= Top[s.client]
    BY <1>3, <1>11
  <2>2. \A i \in 1 .. Len(applied[s.client]) :
          applied[s.client][i].kind = s.kind => applied[s.client][i].n <= s.n
    BY <1>1, <1>3 DEF AppliedBelowTop
  <2>3. \A v \in Workers : cur'[v] = NoStatement \/ (cur'[v] = cur[v] /\ s.kind # v)
    BY <1>2, <1>3, <1>4
  <2>4. ASSUME NEW v \in Workers
        PROVE  \E d \in {0, 1} : \A j \in 1 .. Len(queue'[v]) :
                 j + d \in 1 .. Len(queue[v]) /\ queue'[v][j] = queue[v][j + d]
    <3>1. \A j \in 1 .. Len(queue'[v]) :
            j + 0 \in 1 .. Len(queue[v]) /\ queue'[v][j] = queue[v][j + 0]
      BY <1>2
    <3> QED
      BY <3>1
  <2>5. \A v \in Workers : pc'[v] \notin {"stop", "done"} =>
          /\ pc[v] \notin {"stop", "done"}
          /\ s.kind = v => \A j \in 1 .. Len(queue'[v]) :
               queue'[v][j].client = s.client => s.n <= queue'[v][j].n
    BY <1>2, <1>3, <1>4
  <2>6. queue' \in [Workers -> Seq(Statements)]
    BY <1>1, <1>2 DEF TypeOK
  <2> QED
    BY <1>2, <1>3, <1>11, <2>1, <2>2, <2>3, <2>4, <2>5, <2>6, SentOrder
<1> QED
  BY <1>7, <1>8, <1>9, <1>10, <1>12 DEF IInv, AllOrder

-----------------------------------------------------------------------------
(* Initialize. *)
LEMMA InitInv == Init => IInv
<1> SUFFICES ASSUME Init PROVE IInv
  OBVIOUS
<1>1. \A w \in Workers : queue[w] = << >> /\ Len(queue[w]) = 0 /\ cur[w] = NoStatement
  BY DEF Init
<1>2. \A c \in Clients : applied[c] = << >> /\ Len(applied[c]) = 0 /\ call[c] = Idle
  BY DEF Init
<1>3. TypeOK
  <2>1. queue \in [Workers -> Seq(Statements)] /\ applied \in [Clients -> Seq(Statements)]
    BY DEF Init
  <2>2. issued \in 0 .. MaxIssue /\ faults \in 0 .. MaxFaults
    BY DEF Init
  <2>3. Cardinality(Holders) <= Conns
    <3>1. Holders = {}
      BY DEF Init, Holders
    <3> QED
      BY <3>1, FS_EmptySet
  <2> QED
    BY <2>1, <2>2, <2>3 DEF Init, TypeOK
<1>4. NoSleepOnWork /\ PlaceInv /\ EndInv
  BY <1>1, <1>2 DEF Init, NoSleepOnWork, PlaceInv, EndInv, Workers, Threads
<1>5. \A c \in Clients : Top[c] = 0
  BY <1>2 DEF Top, Init
<1>6. KindInv
  BY <1>1, <1>5 DEF KindInv, Init
<1>7. OrderInv /\ InOrder
  BY <1>1, <1>2 DEF OrderInv, InOrder, AppliedBelowTop, QueueSorted, HandBeforeQueue,
                    AppliedBeforeHand, AppliedBeforeQueue
<1> QED
  BY <1>3, <1>4, <1>6, <1>7 DEF IInv

(* Every step keeps the invariant. *)
LEMMA NextInv == IInv /\ [Next]_vars => IInv'
<1> SUFFICES ASSUME IInv, [Next]_vars PROVE IInv'
  OBVIOUS
<1>1. ASSUME NEW w \in Workers, Worker(w) \/ SpuriousWake(w)
      PROVE  IInv'
  BY <1>1, PopInv, WokenInv, ConnectInv, PerformInv, ReleaseInv, DrainInv, ReconnectInv,
     PerformLastInv, StopInv, SpuriousInv DEF Worker
<1>2. ASSUME NEW c \in Clients, Client(c) \/ \E k \in Kinds : Issue(c, k)
      PROVE  IInv'
  BY <1>2, PushInv, CallerConnectInv, SendNowInv, IssueInv DEF Client
<1>3. ASSUME Terminate \/ Ender
      PROVE  IInv'
  BY <1>3, TerminateInv, BroadcastInv, AfterSleepInv DEF Ender
<1>4. CASE UNCHANGED vars
  <2>1. UNCHANGED <<queue, alive, pc, cur, holds, running, ender, call, issued, applied, faults,
                    late>>
    BY <1>4 DEF vars
  <2>2. TypeOK' /\ NoSleepOnWork' /\ PlaceInv' /\ EndInv'
    BY <2>1 DEF IInv, TypeOK, Holders, NoSleepOnWork, PlaceInv, EndInv
  <2>3. AllOrder'
    BY <2>1, QuietOrder
  <2> QED
    BY <2>2, <2>3 DEF IInv, AllOrder
<1> QED
  BY <1>1, <1>2, <1>3, <1>4 DEF Next

(* The invariant holds of every reachable state. *)
THEOREM Invariant == Spec => []IInv
  BY InitInv, NextInv, PTL DEF Spec

(* The queues, the workers and the callers keep their types under every    *)
(* interleaving, and no more connections are in use than there are: none   *)
(* is given to two threads.                                                *)
THEOREM TypeCorrect == Spec => []TypeOK
<1>1. IInv => TypeOK
  BY DEF IInv
<1> QED
  BY <1>1, Invariant, PTL

(* FQueue loses no wake-up: although push signals only for the first       *)
(* element and pop waits once, no worker sleeps while its queue holds a    *)
(* statement.                                                              *)
THEOREM NoLostWakeup == Spec => []NoSleepOnWork
<1>1. IInv => NoSleepOnWork
  BY DEF IInv
<1> QED
  BY <1>1, Invariant, PTL

(* What one client passes to Execute, to AddQueryBuffer or to WaitExecute  *)
(* is applied in the order it was passed, through re-sent statements and   *)
(* through the change to direct execution when the threads end.            *)
THEOREM AppliedInOrder == Spec => []InOrder
<1>1. IInv => InOrder
  BY DEF IInv
<1> QED
  BY <1>1, Invariant, PTL

(* EndThreads returns with nothing left to the executor, unless a call was *)
(* under way or came later, or a wake-up was spurious.                     *)
THEOREM NothingLeft == Spec => []ExecutorCleared
<1>1. IInv => ExecutorCleared
  <2>1. "executor" \in Workers
    BY DEF Workers
  <2> QED
    BY <2>1 DEF IInv, EndInv, PlaceInv, ExecutorCleared, Clear
<1> QED
  BY <1>1, Invariant, PTL
=============================================================================
