-------------------------- MODULE WorldLoginProofs --------------------------
(***************************************************************************)
(* For every set of connections and accounts, every player limit and every *)
(* number of lost logon connections: no pointer of the login dangles, who  *)
(* is admitted waits no more, an account that never waits has one session, *)
(* and the limit is passed by at most one.                                 *)
(***************************************************************************)
EXTENDS WorldLogin, SequenceTheorems, FiniteSetTheorems, TLAPS

(* The members of a queue, and that none is in it twice. *)
Waiting(q) == {q[i] : i \in 1 .. Len(q)}
Once(q) == \A i, j \in 1 .. Len(q) : q[i] = q[j] => i = j

(* A socket and its session: they point at each other or not at all, and   *)
(* then both are there; only an answered request makes a session.          *)
SockInv ==
  /\ \A s \in Sockets : mSession[s] <=> socket[s]
  /\ \A s \in Sockets : mSession[s] => conn[s] = "up" /\ session[s] = "live"
  /\ \A s \in Sockets : session[s] # "none" => authed[s]

(* The requests under way: the last one of a socket is the one the socket  *)
(* remembers, and withdraws when it closes.  A socket that has not been    *)
(* answered keeps the packet.                                              *)
PendInv ==
  \A r \in pending :
    /\ r.k # 0 /\ r.k <= asked[r.s]
    /\ conn[r.s] = "up" \/ r.k < asked[r.s] \/ world = At("withdraw", r.s)
    /\ r.k = asked[r.s] => mRequest[r.s] = r.k
    /\ ~authed[r.s] => packet[r.s]

(* World's two lists agree, except that the map may know less. *)
ListInv ==
  /\ \A a \in Accounts : sessions[a] # None => sessions[a] \in global /\ acct[sessions[a]] = a
  /\ \A s \in global : session[s] = "live" /\ ~mQueued[s] /\ told[s] = "ok"

(* The queue: its members wait for admission, and closing them finds       *)
(* mQueued set, but for the one whose handler has yet to set it.           *)
QueueInv ==
  /\ Once(queue)
  /\ \A s \in Waiting(queue) :
       /\ conn[s] = "up" \/ net = At("dequeue", s)
       /\ mQueued[s] \/ net = At("flag", s)
       /\ session[s] = "live" /\ packet[s] /\ s \notin global /\ acct[s] \notin GMs

(* The socket worker inside HandleSessionInfo: the session is new, and     *)
(* until it is queued nobody else knows it.                                *)
NetInv ==
  net.at \in {"enter", "queue", "flag"} =>
    /\ mSession[net.s] /\ packet[net.s] /\ net.s \notin global
    /\ net.at # "flag" => net.s \notin Waiting(queue) /\ ~(world.at = "admit" /\ world.s = net.s)
    /\ net.at # "enter" => acct[net.s] \notin GMs
    /\ net.at = "enter" /\ acct[net.s] \in GMs => sessions[acct[net.s]] = None

(* The world thread: whom it admits has left the queue and is not in the   *)
(* world; whom it closes is.                                               *)
WorldInv ==
  /\ world.at = "admit" =>
       /\ world.s \notin Waiting(queue) /\ world.s \notin global
       /\ session[world.s] # "none" /\ acct[world.s] \notin GMs
  /\ world.at = "withdraw" => world.s \in global

(* The players in the world without GM permissions, and those on their way *)
(* in after a test of the limit, one for each thread.                      *)
Players == {a \in Accounts : sessions[a] # None /\ a \notin GMs}
Entering == IF net.at = "enter" /\ acct[net.s] \notin GMs THEN 1 ELSE 0
Admitting == IF world.at = "admit" THEN 1 ELSE 0
LimitInv == Cardinality(Players) + Entering + Admitting <= PlayerLimit + 1

(* TypeOK with one conjunct for each variable. *)
Types ==
  /\ acct \in [Sockets -> Accounts] /\ acct \in Logins
  /\ conn \in [Sockets -> {"new", "up", "closed"}]
  /\ asked \in [Sockets -> Nat] /\ mRequest \in [Sockets -> Nat]
  /\ \A s \in Sockets : asked[s] <= MaxAsks[s] /\ mRequest[s] \in {0, asked[s]}
  /\ packet \in Flags /\ authed \in Flags /\ mSession \in Flags
  /\ mQueued \in Flags /\ socket \in Flags /\ logout \in Flags
  /\ told \in [Sockets -> {"nothing", "failed", "queued", "ok"}]
  /\ session \in [Sockets -> {"none", "live", "freed"}]
  /\ link \in BOOLEAN /\ ask \in Seq(Requests) /\ answer \in Seq(Requests)
  /\ pending \subseteq Requests /\ drops \in 0 .. MaxDrops
  /\ sessions \in [Accounts -> Sockets \union {None}]
  /\ global \subseteq Sockets /\ queue \in Seq(Sockets)
  /\ net \in {Idle} \union [at : {"enter", "queue", "flag", "dequeue"}, s : Sockets]
  /\ world \in {Idle} \union [at : {"admit", "release", "withdraw"}, s : Sockets]

(* The inductive invariant. *)
IInv == /\ Types /\ SockInv /\ PendInv /\ ListInv /\ QueueInv /\ NetInv /\ WorldInv
        /\ OneSessionUnqueued /\ LimitInv

-----------------------------------------------------------------------------
(* Types is TypeOK. *)
LEMMA TypesGive == Types => TypeOK
  BY DEF Types, TypeOK

(* The queue's operations on its members: push_back, the erasing of the    *)
(* first and RemoveQueuedSocket.                                           *)
LEMMA AppendWaits ==
  ASSUME NEW q \in Seq(Sockets), NEW s \in Sockets
  PROVE  /\ Append(q, s) \in Seq(Sockets) /\ Waiting(Append(q, s)) = Waiting(q) \union {s}
         /\ Once(q) /\ s \notin Waiting(q) => Once(Append(q, s))
<1> DEFINE r == Append(q, s)
<1>1. /\ r \in Seq(Sockets) /\ Len(r) = Len(q) + 1 /\ Len(q) \in Nat /\ r[Len(q) + 1] = s
      /\ \A i \in 1 .. Len(q) : r[i] = q[i]
  BY AppendProperties
<1> HIDE DEF r
<1>2. Waiting(r) = Waiting(q) \union {s}
  <2>1. \A x \in Waiting(r) : x \in Waiting(q) \union {s}
    BY <1>1 DEF Waiting
  <2>2. \A x \in Waiting(q) : x \in Waiting(r)
    BY <1>1 DEF Waiting
  <2>3. s \in Waiting(r)
    BY <1>1 DEF Waiting
  <2> QED
    BY <2>1, <2>2, <2>3
<1>3. ASSUME Once(q), s \notin Waiting(q)
      PROVE  Once(r)
  BY <1>1, <1>3 DEF Once, Waiting
<1> QED
  BY <1>1, <1>2, <1>3 DEF r

LEMMA TailWaits ==
  ASSUME NEW q \in Seq(Sockets), q # << >>
  PROVE  /\ Head(q) \in Waiting(q) /\ Head(q) \in Sockets
         /\ Tail(q) \in Seq(Sockets) /\ Waiting(Tail(q)) \subseteq Waiting(q)
         /\ Once(q) => Once(Tail(q)) /\ Waiting(Tail(q)) = Waiting(q) \ {Head(q)}
<1> DEFINE t == Tail(q)
           h == Head(q)
<1>1. /\ h = q[1] /\ h \in Sockets /\ t \in Seq(Sockets)
      /\ Len(t) = Len(q) - 1 /\ Len(q) \in Nat /\ Len(q) > 0
      /\ \A i \in 1 .. Len(q) - 1 : t[i] = q[i + 1]
  BY HeadTailProperties
<1> HIDE DEF t, h
<1>2. h \in Waiting(q)
  BY <1>1 DEF Waiting
<1>3. \A i \in 1 .. Len(t) : i + 1 \in 1 .. Len(q) /\ t[i] = q[i + 1]
  BY <1>1
<1>4. \A x \in Waiting(t) : x \in Waiting(q)
  BY <1>3 DEF Waiting
<1>5. ASSUME Once(q)
      PROVE  Once(t) /\ Waiting(t) = Waiting(q) \ {h}
  <2>1. Once(t)
    BY <1>1, <1>3, <1>5 DEF Once
  <2>2. \A i \in 1 .. Len(t) : t[i] # h
    BY <1>1, <1>3, <1>5 DEF Once
  <2>3. \A i \in 1 .. Len(q) : q[i] # h => i - 1 \in 1 .. Len(t) /\ q[i] = t[i - 1]
    BY <1>1
  <2>4. \A x \in Waiting(t) : x # h
    BY <2>2 DEF Waiting
  <2>5. \A x \in Waiting(q) : x # h => x \in Waiting(t)
    BY <2>3 DEF Waiting
  <2> QED
    BY <1>4, <2>1, <2>4, <2>5
<1> QED
  BY <1>1, <1>2, <1>4, <1>5 DEF t, h

LEMMA WithoutWaits ==
  ASSUME NEW q \in Seq(Sockets), NEW s \in Sockets, Once(q)
  PROVE  /\ Without(q, s) \in Seq(Sockets) /\ Once(Without(q, s))
         /\ Waiting(Without(q, s)) = Waiting(q) \ {s}
<1>1. CASE \A i \in 1 .. Len(q) : q[i] # s
  BY <1>1 DEF Without, Waiting
<1>2. CASE ~ \A i \in 1 .. Len(q) : q[i] # s
  <2> DEFINE P(i) == q[i] = s /\ \A j \in 1 .. i - 1 : q[j] # s
             k == CHOOSE i \in 1 .. Len(q) : P(i)
             r == [i \in 1 .. Len(q) - 1 |-> IF i < k THEN q[i] ELSE q[i + 1]]
  <2>1. PICK i \in 1 .. Len(q) : q[i] = s
    BY <1>2
  <2>2. Len(q) \in Nat
    OBVIOUS
  <2>3. P(i)
    BY <2>1, <2>2 DEF Once
  <2>4. k \in 1 .. Len(q) /\ q[k] = s
    BY <2>3
  <2>5. Without(q, s) = r
    BY <1>2 DEF Without
  <2> HIDE DEF P, k
  <2>6. /\ r \in Seq(Sockets) /\ Len(r) = Len(q) - 1
        /\ \A m \in 1 .. Len(q) - 1 : r[m] = IF m < k THEN q[m] ELSE q[m + 1]
    <3>1. \A m \in 1 .. Len(q) - 1 : (IF m < k THEN q[m] ELSE q[m + 1]) \in Sockets
      BY <2>2, <2>4
    <3> QED
      BY <2>2, <2>4, <3>1, IsASeq
  <2> HIDE DEF r
  <2>7. Once(r)
    <3> SUFFICES ASSUME NEW m \in 1 .. Len(r), NEW n \in 1 .. Len(r), r[m] = r[n]
                 PROVE  m = n
      BY DEF Once
    <3> DEFINE at(l) == IF l < k THEN l ELSE l + 1
    <3>1. \A l \in 1 .. Len(r) : at(l) \in 1 .. Len(q) /\ r[l] = q[at(l)]
      BY <2>2, <2>4, <2>6
    <3>2. at(m) = at(n)
      BY <2>2, <3>1 DEF Once
    <3> QED
      BY <2>4, <3>2
  <2>8. \A x \in Waiting(r) : x \in Waiting(q) /\ x # s
    BY <2>2, <2>4, <2>6 DEF Waiting, Once
  <2>9. \A m \in 1 .. Len(q) : q[m] # s => \E n \in 1 .. Len(r) : r[n] = q[m]
    <3> SUFFICES ASSUME NEW m \in 1 .. Len(q), q[m] # s
                 PROVE  \E n \in 1 .. Len(r) : r[n] = q[m]
      OBVIOUS
    <3>1. CASE m < k
      BY <2>2, <2>4, <2>6, <3>1
    <3>2. CASE ~(m < k)
      <4>1. m - 1 \in 1 .. Len(r) /\ r[m - 1] = q[m]
        BY <2>2, <2>4, <2>6, <3>2
      <4> QED
        BY <4>1
    <3> QED
      BY <3>1, <3>2
  <2>10. \A x \in Waiting(q) : x # s => x \in Waiting(r)
    BY <2>9 DEF Waiting
  <2> QED
    BY <2>5, <2>6, <2>7, <2>8, <2>10
<1> QED
  BY <1>1, <1>2

(* The players are finitely many, and fewer than the limit when a thread   *)
(* finds room: it counts the GMs as well.                                  *)
LEMMA PlayersCount ==
  ASSUME Types
  PROVE  /\ IsFiniteSet(Players) /\ Cardinality(Players) \in Nat
         /\ HasRoom => Cardinality(Players) < PlayerLimit
<1> DEFINE All == {a \in Accounts : sessions[a] # None}
<1>1. IsFiniteSet(All) /\ Players \subseteq All
  BY LoginAssumption, FS_Subset DEF Players
<1>2. /\ IsFiniteSet(Players) /\ Cardinality(Players) \in Nat /\ Cardinality(All) \in Nat
      /\ Cardinality(Players) <= Cardinality(All)
  BY <1>1, FS_Subset, FS_CardinalityType
<1> QED
  BY <1>2, LoginAssumption DEF HasRoom, SessionCount

(* A session that enters the map is at most one player more, and none if   *)
(* its account is a GM's.                                                  *)
LEMMA OneMore ==
  ASSUME Types, NEW a \in Accounts, NEW s \in Sockets,
         sessions' = [sessions EXCEPT ![a] = s]
  PROVE  /\ Cardinality(Players') \in Nat /\ Cardinality(Players') <= Cardinality(Players) + 1
         /\ a \in GMs => Players' = Players
<1>1. IsFiniteSet(Players) /\ Cardinality(Players) \in Nat
  BY PlayersCount
<1>2. \A b \in Accounts : sessions'[b] = IF b = a THEN s ELSE sessions[b]
  BY DEF Types
<1>3. Players' \subseteq Players \union {a}
  BY <1>2 DEF Players
<1>4. a \in GMs => Players' = Players
  BY <1>2 DEF Players
<1>5. /\ IsFiniteSet(Players \union {a})
      /\ Cardinality(Players \union {a}) <= Cardinality(Players) + 1
  <2>1. /\ IsFiniteSet(Players \union {a})
        /\ \/ Cardinality(Players \union {a}) = Cardinality(Players)
           \/ Cardinality(Players \union {a}) = Cardinality(Players) + 1
    BY <1>1, FS_AddElement, Zenon
  <2> QED
    BY <1>1, <2>1
<1>6. /\ Cardinality(Players \union {a}) \in Nat /\ IsFiniteSet(Players')
      /\ Cardinality(Players') <= Cardinality(Players \union {a})
  BY <1>3, <1>5, FS_Subset, FS_CardinalityType
<1>7. Cardinality(Players') \in Nat
  BY <1>6, FS_CardinalityType
<1> QED
  BY <1>1, <1>4, <1>5, <1>6, <1>7

(* A pending request is its socket's last, which the socket remembers, or  *)
(* an earlier one.                                                         *)
LEMMA EarlierRequest ==
  ASSUME Types, PendInv, NEW r \in pending
  PROVE  /\ r.s \in Sockets /\ r.k \in Nat /\ asked[r.s] \in Nat /\ r = Request(r.s, r.k)
         /\ r # Request(r.s, mRequest[r.s]) => r.k < asked[r.s]
<1>1. r \in Requests /\ r.s \in Sockets /\ r.k \in Nat /\ asked[r.s] \in Nat
  BY DEF Types, Requests
<1>2. r = Request(r.s, r.k)
  BY <1>1 DEF Requests, Request
<1>3. r.k <= asked[r.s] /\ (r.k = asked[r.s] => mRequest[r.s] = r.k)
  BY DEF PendInv
<1> QED
  BY <1>1, <1>2, <1>3

(* What becomes of the others when the last requests of some sockets are   *)
(* withdrawn, and only those sockets close or forget theirs.               *)
LEMMA PendKept ==
  ASSUME Types, PendInv, UNCHANGED asked,
         \A r \in pending' :
           /\ r \in pending
           /\ ~authed'[r.s] /\ packet[r.s] => packet'[r.s]
           /\ ~authed'[r.s] => ~authed[r.s]
           /\ \/ r # Request(r.s, mRequest[r.s])
              \/ /\ mRequest'[r.s] = mRequest[r.s] /\ (conn[r.s] = "up" => conn'[r.s] = "up")
                 /\ world = At("withdraw", r.s) => world' = At("withdraw", r.s)
  PROVE  PendInv'
<1> SUFFICES ASSUME NEW r \in pending'
             PROVE  /\ r.k # 0 /\ r.k <= asked[r.s]
                    /\ conn'[r.s] = "up" \/ r.k < asked[r.s] \/ world' = At("withdraw", r.s)
                    /\ r.k = asked[r.s] => mRequest'[r.s] = r.k
                    /\ ~authed'[r.s] => packet'[r.s]
  BY DEF PendInv
<1>1. /\ r.k # 0 /\ r.k <= asked[r.s]
      /\ conn[r.s] = "up" \/ r.k < asked[r.s] \/ world = At("withdraw", r.s)
      /\ r.k = asked[r.s] => mRequest[r.s] = r.k
      /\ ~authed[r.s] => packet[r.s]
  BY DEF PendInv
<1>2. r.k \in Nat /\ asked[r.s] \in Nat /\ (r # Request(r.s, mRequest[r.s]) => r.k < asked[r.s])
  BY EarlierRequest
<1> QED
  BY <1>1, <1>2

-----------------------------------------------------------------------------
(* Each action preserves the invariant. *)

(* A connection is accepted. *)
LEMMA AcceptInv ==
  ASSUME IInv, NEW s \in Sockets, Accept(s)
  PROVE  IInv'
<1>1. Types /\ SockInv /\ PendInv /\ ListInv /\ QueueInv /\ NetInv
      /\ WorldInv /\ OneSessionUnqueued /\ LimitInv
  BY DEF IInv
<1>2. Types'
  BY <1>1 DEF Types, Accept, sess, comm, lists, Set, At, Idle, Flags
<1>3. SockInv'
  BY <1>1 DEF Types, SockInv, Accept, sess, comm, lists, Set, Flags
<1>4. PendInv'
  BY <1>1 DEF Types, PendInv, Accept, sess, comm, lists, Set, Flags
<1>5. QueueInv'
  BY <1>1 DEF Types, QueueInv, Accept, sess, comm, lists, Set, At, Idle, Flags
<1>6. ListInv' /\ NetInv' /\ WorldInv' /\ OneSessionUnqueued' /\ LimitInv'
  BY <1>1 DEF ListInv, NetInv, WorldInv, OneSessionUnqueued, LimitInv, Accept, sess, comm, lists,
     Players, Entering, Admitting
<1> QED
  BY <1>2, <1>3, <1>4, <1>5, <1>6 DEF IInv

(* A request is sent, and takes the place of the socket's last. *)
LEMMA AuthSessionInv ==
  ASSUME IInv, NEW s \in Sockets, AuthSession(s)
  PROVE  IInv'
<1>1. Types /\ SockInv /\ PendInv /\ ListInv /\ QueueInv /\ NetInv
      /\ WorldInv /\ OneSessionUnqueued /\ LimitInv
  BY DEF IInv
<1>2. /\ asked' = [asked EXCEPT ![s] = asked[s] + 1] /\ asked[s] < MaxAsks[s]
      /\ mRequest' = [mRequest EXCEPT ![s] = asked[s] + 1] /\ conn[s] = "up"
      /\ packet' = [packet EXCEPT ![s] = TRUE] /\ ask' = Append(ask, Request(s, asked[s] + 1))
      /\ pending' = pending \union {Request(s, asked[s] + 1)}
      /\ UNCHANGED <<acct, conn, authed, mSession, mQueued, told, session, socket, logout, link, answer,
                     drops, sessions, global, queue, net, world>>
      /\ asked[s] + 1 \in Nat /\ MaxAsks[s] \in Nat /\ Request(s, asked[s] + 1) \in Requests
  BY <1>1, LoginAssumption DEF Types, AuthSession, Asks, Request, Requests, Set, sess, lists
<1>8. Types'
  <2>1. ask' \in Seq(Requests) /\ pending' \subseteq Requests
    BY <1>1, <1>2, AppendProperties DEF Types
  <2>2. /\ asked' \in [Sockets -> Nat] /\ mRequest' \in [Sockets -> Nat]
        /\ \A u \in Sockets : asked'[u] <= MaxAsks[u] /\ mRequest'[u] \in {0, asked'[u]}
    BY <1>1, <1>2 DEF Types
  <2>3. packet' \in Flags
    BY <1>1, <1>2 DEF Types, Flags
  <2> QED
    BY <1>1, <1>2, <2>1, <2>2, <2>3, Zenon DEF Types
<1>3. SockInv'
  BY <1>1 DEF Types, SockInv, AuthSession, Asks, Request, sess, lists, Set, Flags
<1>4. PendInv'
  <2> SUFFICES ASSUME NEW r \in pending'
               PROVE  /\ r.k # 0 /\ r.k <= asked'[r.s]
                      /\ conn[r.s] = "up" \/ r.k < asked'[r.s] \/ world = At("withdraw", r.s)
                      /\ r.k = asked'[r.s] => mRequest'[r.s] = r.k
                      /\ ~authed[r.s] => packet'[r.s]
    BY <1>2 DEF PendInv
  <2>1. CASE r = Request(s, asked[s] + 1)
    BY <1>1, <1>2, <2>1 DEF Types, Flags, Request
  <2>2. CASE r \in pending
    <3>1. /\ r.k # 0 /\ r.k <= asked[r.s] /\ r.k \in Nat /\ asked[r.s] \in Nat /\ r.s \in Sockets
          /\ conn[r.s] = "up" \/ r.k < asked[r.s] \/ world = At("withdraw", r.s)
          /\ r.k = asked[r.s] => mRequest[r.s] = r.k
          /\ ~authed[r.s] => packet[r.s]
      BY <1>1, <2>2, EarlierRequest DEF PendInv
    <3>2. CASE r.s = s
      BY <1>1, <1>2, <3>1, <3>2 DEF Types, Flags
    <3>3. CASE r.s # s
      BY <1>1, <1>2, <3>1, <3>3 DEF Types, Flags
    <3> QED
      BY <3>2, <3>3
  <2> QED
    BY <1>2, <2>1, <2>2
<1>5. QueueInv'
  BY <1>1 DEF Types, QueueInv, AuthSession, Asks, Request, sess, lists, Set, At, Idle, Flags
<1>6. NetInv'
  BY <1>1 DEF Types, NetInv, AuthSession, Asks, Request, sess, lists, Set, At, Idle, Flags
<1>7. ListInv' /\ WorldInv' /\ OneSessionUnqueued' /\ LimitInv'
  BY <1>1 DEF ListInv, WorldInv, OneSessionUnqueued, LimitInv, AuthSession, Asks, Request, sess, lists, Players,
     Entering, Admitting
<1> QED
  BY <1>8, <1>3, <1>4, <1>5, <1>6, <1>7 DEF IInv

(* No logon server: the socket closes, and its last request stays behind. *)
LEMMA AuthSessionRefusedInv ==
  ASSUME IInv, NEW s \in Sockets, AuthSessionRefused(s)
  PROVE  IInv'
<1>1. Types /\ SockInv /\ PendInv /\ ListInv /\ QueueInv /\ NetInv
      /\ WorldInv /\ OneSessionUnqueued /\ LimitInv
  BY DEF IInv
<1>2. /\ asked' = [asked EXCEPT ![s] = asked[s] + 1] /\ asked[s] < MaxAsks[s]
      /\ mRequest' = [mRequest EXCEPT ![s] = 0] /\ conn' = [conn EXCEPT ![s] = "closed"]
      /\ UNCHANGED <<packet, authed, pending, world>>
      /\ asked[s] + 1 \in Nat /\ MaxAsks[s] \in Nat
  BY <1>1, LoginAssumption DEF Types, AuthSessionRefused, Asks, Detach, comm, Set
<1>9. Types'
  <2>1. /\ asked' \in [Sockets -> Nat] /\ mRequest' \in [Sockets -> Nat]
        /\ \A u \in Sockets : asked'[u] <= MaxAsks[u] /\ mRequest'[u] \in {0, asked'[u]}
    BY <1>1, <1>2 DEF Types
  <2> QED
    BY <1>1, <2>1 DEF Types, AuthSessionRefused, Detach, comm, lists, Set, At, Idle, Flags
<1>3. SockInv'
  BY <1>1 DEF Types, SockInv, AuthSessionRefused, Asks, Detach, comm, lists, Set, Flags, PendInv
<1>4. PendInv'
  <2> SUFFICES ASSUME NEW r \in pending
               PROVE  /\ r.k # 0 /\ r.k <= asked'[r.s]
                      /\ conn'[r.s] = "up" \/ r.k < asked'[r.s] \/ world = At("withdraw", r.s)
                      /\ r.k = asked'[r.s] => mRequest'[r.s] = r.k
                      /\ ~authed[r.s] => packet[r.s]
    BY <1>2 DEF PendInv
  <2>1. /\ r.k # 0 /\ r.k <= asked[r.s] /\ r.k \in Nat /\ asked[r.s] \in Nat /\ r.s \in Sockets
        /\ conn[r.s] = "up" \/ r.k < asked[r.s] \/ world = At("withdraw", r.s)
        /\ r.k = asked[r.s] => mRequest[r.s] = r.k
        /\ ~authed[r.s] => packet[r.s]
    BY <1>1, EarlierRequest DEF PendInv
  <2>2. CASE r.s = s
    BY <1>1, <1>2, <2>1, <2>2 DEF Types
  <2>3. CASE r.s # s
    BY <1>1, <1>2, <2>1, <2>3 DEF Types
  <2> QED
    BY <2>2, <2>3
<1>5. QueueInv'
  BY <1>1 DEF Types, QueueInv, AuthSessionRefused, Asks, Detach, comm, lists, Set, At, Idle, Flags
<1>6. NetInv'
  BY <1>1 DEF Types, NetInv, AuthSessionRefused, Asks, Detach, comm, lists, Set, At, Idle, Flags
<1>7. LimitInv'
  BY <1>1 DEF Types, LimitInv, AuthSessionRefused, Asks, lists, At, Idle, Players, Entering, Admitting
<1>8. ListInv' /\ WorldInv' /\ OneSessionUnqueued'
  BY <1>1 DEF ListInv, WorldInv, OneSessionUnqueued, AuthSessionRefused, lists
<1> QED
  BY <1>9, <1>3, <1>4, <1>5, <1>6, <1>7, <1>8 DEF IInv

(* A client leaves: its session loses the socket, and its place in the queue *)
(* waits for the second half of OnDisconnect.                              *)
LEMMA CloseInv ==
  ASSUME IInv, NEW s \in Sockets, Close(s)
  PROVE  IInv'
<1>1. Types /\ SockInv /\ PendInv /\ ListInv /\ QueueInv /\ NetInv
      /\ WorldInv /\ OneSessionUnqueued /\ LimitInv
  BY DEF IInv
<1>2. Types'
  BY <1>1 DEF Types, Close, Detach, Withdraw, Withdrawn, Request, lists, Set, At, Idle, Flags
<1>3. SockInv'
  BY <1>1 DEF Types, SockInv, Close, Detach, Withdraw, Withdrawn, Request, lists, Set, Flags, PendInv
<1>4. PendInv'
  <2>1. /\ conn' = [conn EXCEPT ![s] = "closed"] /\ mRequest' = [mRequest EXCEPT ![s] = 0]
        /\ pending' = pending \ {Request(s, mRequest[s])}
        /\ UNCHANGED <<packet, asked, authed, world>>
    BY DEF Close, Detach, Withdraw, Withdrawn, Set
  <2>2. \A r \in pending : r.s # s => mRequest'[r.s] = mRequest[r.s] /\ conn'[r.s] = conn[r.s]
    BY <1>1, <2>1, EarlierRequest DEF Types
  <2> QED
    BY <1>1, <2>1, <2>2, PendKept
<1>5. QueueInv'
  BY <1>1 DEF Types, QueueInv, Close, Detach, Withdraw, Withdrawn, Request, lists, Set, At, Idle, Flags
<1>6. NetInv'
  BY <1>1 DEF Types, NetInv, Close, Detach, Withdraw, Withdrawn, Request, lists, Set, At, Idle, Flags
<1>7. LimitInv'
  BY <1>1 DEF Types, LimitInv, Close, Detach, Withdraw, Withdrawn, Request, lists, Set, At, Idle, Players, Entering, Admitting
<1>8. ListInv' /\ WorldInv' /\ OneSessionUnqueued'
  BY <1>1 DEF ListInv, WorldInv, OneSessionUnqueued, Close, Detach, Withdraw, Withdrawn, Request, lists
<1> QED
  BY <1>2, <1>3, <1>4, <1>5, <1>6, <1>7, <1>8 DEF IInv

(* OnDisconnect takes the socket out of the queue, and out of it only. *)
LEMMA CloseDequeueInv ==
  ASSUME IInv, CloseDequeue
  PROVE  IInv'
<1>1. Types /\ SockInv /\ PendInv /\ ListInv /\ QueueInv /\ NetInv
      /\ WorldInv /\ OneSessionUnqueued /\ LimitInv
  BY DEF IInv
<1>2. Types'
  BY <1>1, WithoutWaits DEF Types, CloseDequeue, Dequeue, QueueFree, sess, comm, Set, At, Idle,
     Flags, QueueInv
<1>3. ListInv'
  BY <1>1 DEF Types, ListInv, CloseDequeue, Dequeue, QueueFree, sess, comm, Set, Flags
<1>4. QueueInv'
  <2>1. PICK t \in Sockets : net = At("dequeue", t)
    BY <1>1 DEF Types, CloseDequeue, At, Idle
  <2>2. Once(queue') /\ Waiting(queue') = Waiting(queue) \ {t}
    <3>1. CASE mQueued[t]
      BY <1>1, <2>1, <3>1, WithoutWaits DEF CloseDequeue, Dequeue, At, QueueInv, Types
    <3>2. CASE ~mQueued[t]
      BY <1>1, <2>1, <3>2 DEF CloseDequeue, Dequeue, At, QueueInv
    <3> QED
      BY <3>1, <3>2
  <2>3. /\ mQueued' = [mQueued EXCEPT ![t] = FALSE]
        /\ UNCHANGED <<acct, conn, packet, session, global>>
    BY <2>1 DEF CloseDequeue, Dequeue, Set, At, sess
  <2>4. \A w \in Waiting(queue) : w \in Sockets
    BY <1>1 DEF Types, Waiting
  <2>5. \A w \in Waiting(queue') : /\ w # t /\ w \in Sockets /\ w \in Waiting(queue)
                                   /\ net # At("dequeue", w) /\ net # At("flag", w)
    BY <2>1, <2>2, <2>4 DEF At
  <2> QED
    BY <1>1, <2>2, <2>3, <2>5 DEF QueueInv, Types, Flags
<1>5. NetInv'
  BY <1>1 DEF Types, NetInv, CloseDequeue, Dequeue, QueueFree, sess, comm, Set, At, Idle, Flags
<1>6. WorldInv'
  BY <1>1 DEF Types, WorldInv, CloseDequeue, Dequeue, QueueFree, sess, comm, Set, At, Idle
<1>7. LimitInv'
  BY <1>1 DEF Types, LimitInv, CloseDequeue, Dequeue, QueueFree, sess, comm, Set, At, Idle,
     Players, Entering, Admitting
<1>8. SockInv' /\ PendInv' /\ OneSessionUnqueued'
  BY <1>1 DEF SockInv, PendInv, OneSessionUnqueued, CloseDequeue, Dequeue, sess, comm
<1> QED
  BY <1>2, <1>3, <1>4, <1>5, <1>6, <1>7, <1>8 DEF IInv

(* An answer nobody waits for is dropped. *)
LEMMA IgnoreAnswerInv ==
  ASSUME IInv, IgnoreAnswer
  PROVE  IInv'
<1>1. Types /\ SockInv /\ PendInv /\ ListInv /\ QueueInv /\ NetInv
      /\ WorldInv /\ OneSessionUnqueued /\ LimitInv
  BY DEF IInv
<1>2. Types'
  BY <1>1 DEF Types, IgnoreAnswer, sock, sess, lists, At, Idle, Flags
<1>3. SockInv' /\ PendInv' /\ ListInv' /\ QueueInv' /\ NetInv' /\ WorldInv' /\ OneSessionUnqueued' /\ LimitInv'
  BY <1>1 DEF SockInv, PendInv, ListInv, QueueInv, NetInv, WorldInv, OneSessionUnqueued, LimitInv,
     IgnoreAnswer, sock, sess, lists, Players, Entering, Admitting
<1> QED
  BY <1>2, <1>3 DEF IInv

(* The answer to a request that is not the last is dropped. *)
LEMMA SupersededInv ==
  ASSUME IInv, NEW s \in Sockets, Superseded(s)
  PROVE  IInv'
<1>1. Types /\ SockInv /\ PendInv /\ ListInv /\ QueueInv /\ NetInv
      /\ WorldInv /\ OneSessionUnqueued /\ LimitInv
  BY DEF IInv
<1>2. PICK k \in 1 .. asked[s] : Answered(s, k) /\ pending' = pending \ {Request(s, k)}
  BY DEF Superseded
<1>3. /\ answer # << >> /\ answer' = Tail(answer) /\ authed' = [authed EXCEPT ![s] = TRUE]
      /\ UNCHANGED <<acct, conn, packet, asked, mRequest, mSession, mQueued, told, session, socket,
                     logout, link, ask, drops, sessions, global, queue, net, world>>
  BY <1>2 DEF Superseded, Answered, Set, sess, lists
<1>4. Types'
  BY <1>1, <1>2, <1>3, HeadTailProperties DEF Types, Flags
<1>5. SockInv'
  BY <1>1, <1>3 DEF Types, SockInv, Flags
<1>6. PendInv'
  BY <1>1, <1>2, <1>3 DEF Types, PendInv, Flags, Requests
<1>7. ListInv' /\ QueueInv' /\ NetInv' /\ WorldInv' /\ OneSessionUnqueued' /\ LimitInv'
  BY <1>1, <1>3 DEF ListInv, QueueInv, NetInv, WorldInv, OneSessionUnqueued, LimitInv, Players,
     Entering, Admitting
<1> QED
  BY <1>4, <1>5, <1>6, <1>7 DEF IInv

(* An error answer: the socket has no session. *)
LEMMA RefusedInv ==
  ASSUME IInv, NEW s \in Sockets, Refused(s)
  PROVE  IInv'
<1>1. Types /\ SockInv /\ PendInv /\ ListInv /\ QueueInv /\ NetInv
      /\ WorldInv /\ OneSessionUnqueued /\ LimitInv
  BY DEF IInv
<1>2. Types'
  BY <1>1 DEF Types, Refused, Tell, sess, lists, Answered, Stale, Request, Withdraw, Withdrawn, Set, At, Idle, Flags
<1>3. SockInv'
  BY <1>1 DEF Types, SockInv, Refused, Tell, sess, lists, Answered, Stale, Request, Withdraw, Withdrawn, Set, Flags
<1>4. PendInv'
  BY <1>1 DEF Types, PendInv, Refused, Tell, sess, lists, Answered, Stale, Request, Withdraw, Withdrawn, Set, Flags
<1>5. ListInv'
  BY <1>1 DEF Types, ListInv, Refused, Tell, sess, lists, Answered, Stale, Request, Withdraw, Withdrawn, Set, Flags, SockInv,
     PendInv
<1>6. QueueInv' /\ NetInv' /\ WorldInv' /\ OneSessionUnqueued' /\ LimitInv'
  BY <1>1 DEF QueueInv, NetInv, WorldInv, OneSessionUnqueued, LimitInv, Refused, Tell, sess, lists,
     Answered, Players, Entering, Admitting
<1> QED
  BY <1>2, <1>3, <1>4, <1>5, <1>6 DEF IInv

(* A second login: the session in the world is another one than the new    *)
(* socket's, and loses its socket with everything that points at it.       *)
LEMMA AlreadyInInv ==
  ASSUME IInv, NEW s \in Sockets, AlreadyIn(s)
  PROVE  IInv'
<1>1. Types /\ SockInv /\ PendInv /\ ListInv /\ QueueInv /\ NetInv
      /\ WorldInv /\ OneSessionUnqueued /\ LimitInv
  BY DEF IInv
<1>2. PICK t \in Sockets : t = sessions[acct[s]]
  BY <1>1 DEF Types, AlreadyIn, FindSession
<1>3. /\ t # s /\ t \in global /\ s \notin global /\ acct[s] = acct[t]
      /\ ~mSession[s] /\ session[s] = "none" /\ authed[t]
  <2>1. ~authed[s]
    BY DEF AlreadyIn, Answered, Stale, Request
  <2>2. session[s] = "none" /\ ~mSession[s]
    BY <1>1, <2>1 DEF SockInv, Types
  <2>3. t \in global /\ acct[t] = acct[s]
    BY <1>1, <1>2, LoginAssumption DEF ListInv, Types
  <2>4. session[t] = "live" /\ authed[t] /\ s \notin global
    BY <1>1, <2>2, <2>3 DEF ListInv, SockInv
  <2> QED
    BY <2>1, <2>2, <2>3, <2>4
<1>4. /\ authed' = [authed EXCEPT ![s] = TRUE] /\ told' = [told EXCEPT ![s] = "failed"]
      /\ answer' = Tail(answer) /\ answer # << >>
      /\ logout' = [logout EXCEPT ![t] = TRUE] /\ conn[s] = "up"
      /\ UNCHANGED <<acct, packet, asked, session, link, ask, drops, sessions, global, queue, net, world>>
      /\ net = Idle
  BY <1>2 DEF AlreadyIn, Answered, Stale, Request, FindSession, Set, Tell, lists
<1> DEFINE Kicked ==
             /\ conn' = [conn EXCEPT ![t] = "closed"] /\ socket' = [socket EXCEPT ![t] = FALSE]
             /\ mSession' = [mSession EXCEPT ![t] = FALSE] /\ mQueued' = [mQueued EXCEPT ![t] = FALSE]
             /\ mRequest' = [mRequest EXCEPT ![t] = 0, ![s] = 0]
             /\ pending' = Withdrawn(s) \intersect Withdrawn(t)
           Gone ==
             /\ mRequest' = [mRequest EXCEPT ![s] = 0] /\ pending' = Withdrawn(s)
             /\ UNCHANGED conn /\ UNCHANGED socket /\ UNCHANGED mSession /\ UNCHANGED mQueued
<1>5. Kicked \/ Gone
  BY <1>2 DEF AlreadyIn, FindSession, Set, Withdraw
<1>6. Types'
  <2>1. answer' \in Seq(Requests) /\ pending' \subseteq Requests
    BY <1>1, <1>4, <1>5, HeadTailProperties DEF Types, Withdrawn
  <2>2. /\ authed' \in Flags /\ logout' \in Flags
        /\ told' \in [Sockets -> {"nothing", "failed", "queued", "ok"}]
    BY <1>1, <1>4 DEF Types, Flags
  <2>3. /\ conn' \in [Sockets -> {"new", "up", "closed"}]
        /\ mSession' \in Flags /\ mQueued' \in Flags /\ socket' \in Flags
        /\ mRequest' \in [Sockets -> Nat] /\ \A u \in Sockets : mRequest'[u] \in {0, asked[u]}
    <3>1. CASE Kicked
      BY <1>1, <3>1 DEF Types, Flags
    <3>2. CASE Gone
      BY <1>1, <3>2 DEF Types, Flags
    <3> QED
      BY <1>5, <3>1, <3>2
  <2> QED
    BY <1>1, <1>4, <2>1, <2>2, <2>3, Zenon DEF Types
<1>7. SockInv'
  <2>1. CASE Kicked
    <3>1. /\ \A u \in Sockets : mSession'[u] <=> mSession[u] /\ u # t
          /\ \A u \in Sockets : socket'[u] <=> socket[u] /\ u # t
      BY <1>1, <2>1 DEF Types, Flags
    <3>2. \A u \in Sockets : u # t => conn'[u] = conn[u]
      BY <1>1, <2>1 DEF Types
    <3>3. /\ \A u \in Sockets : authed'[u] <=> authed[u] \/ u = s
          /\ told'[s] = "failed" /\ \A u \in Sockets : u # s => told'[u] = told[u]
          /\ UNCHANGED session /\ UNCHANGED packet
      BY <1>1, <1>4 DEF Types, Flags
    <3> QED
      BY <1>1, <3>1, <3>2, <3>3 DEF SockInv
  <2>2. CASE Gone
    BY <1>1, <1>2, <1>3, <1>4, <2>2 DEF SockInv, Types, Flags, PendInv, ListInv, Idle, At
  <2> QED
    BY <1>5, <2>1, <2>2
<1>8. PendInv'
  <2>1. \A r \in pending' : r \in pending /\ r # Request(s, mRequest[s])
    BY <1>5 DEF Withdrawn
  <2>2. \A r \in pending' : r.s \in Sockets /\ (~authed'[r.s] => ~authed[r.s])
    BY <1>1, <1>4, <2>1, EarlierRequest DEF Types, Flags
  <2>3. CASE Kicked
    <3>1. \A r \in pending' : /\ r # Request(t, mRequest[t])
                              /\ r.s # s /\ r.s # t =>
                                   mRequest'[r.s] = mRequest[r.s] /\ conn'[r.s] = conn[r.s]
      BY <1>1, <2>2, <2>3 DEF Types, Withdrawn
    <3> QED
      BY <1>1, <1>4, <2>1, <2>2, <3>1, PendKept
  <2>4. CASE Gone
    <3>1. \A r \in pending' : r.s # s => mRequest'[r.s] = mRequest[r.s]
      BY <1>1, <2>2, <2>4 DEF Types
    <3> QED
      BY <1>1, <1>4, <2>1, <2>2, <2>4, <3>1, PendKept
  <2> QED
    BY <1>5, <2>3, <2>4
<1>9. ListInv'
  <2>1. \A g \in global : g \in Sockets /\ g # s /\ session[g] = "live" /\ ~mQueued[g] /\ told[g] = "ok"
    BY <1>1, <1>3 DEF ListInv, Types
  <2>2. \A g \in global : ~mQueued'[g] /\ told'[g] = "ok"
    <3>1. CASE Kicked
      BY <1>1, <1>4, <2>1, <3>1 DEF Types, Flags
    <3>2. CASE Gone
      BY <1>1, <1>4, <2>1, <3>2 DEF Types, Flags
    <3> QED
      BY <1>5, <3>1, <3>2
  <2> QED
    BY <1>1, <1>4, <2>1, <2>2 DEF ListInv
<1>10. QueueInv'
  <2>1. \A w \in Waiting(queue) : w \in Sockets /\ w # t /\ w \notin global
    BY <1>1, <1>3 DEF QueueInv, Types, Waiting
  <2>2. \A w \in Waiting(queue) : conn'[w] = conn[w] /\ mQueued'[w] = mQueued[w]
    <3>1. CASE Kicked
      BY <1>1, <2>1, <3>1 DEF Types, Flags
    <3>2. CASE Gone
      BY <3>2
    <3> QED
      BY <1>5, <3>1, <3>2
  <2> QED
    BY <1>1, <1>4, <2>2 DEF QueueInv
<1>11. NetInv'
  BY <1>1, <1>2, <1>3, <1>4, <1>5 DEF NetInv, Types, Flags, Idle, At
<1>12. WorldInv' /\ OneSessionUnqueued' /\ LimitInv'
  BY <1>1 DEF WorldInv, OneSessionUnqueued, LimitInv, AlreadyIn, Tell, lists, Answered, Players,
     Entering, Admitting
<1> QED
  BY <1>6, <1>7, <1>8, <1>9, <1>10, <1>11, <1>12 DEF IInv

(* A wrong digest: the socket has no session. *)
LEMMA WrongDigestInv ==
  ASSUME IInv, NEW s \in Sockets, WrongDigest(s)
  PROVE  IInv'
<1>1. Types /\ SockInv /\ PendInv /\ ListInv /\ QueueInv /\ NetInv
      /\ WorldInv /\ OneSessionUnqueued /\ LimitInv
  BY DEF IInv
<1>2. Types'
  BY <1>1 DEF Types, WrongDigest, Tell, sess, lists, Answered, Stale, Request, Withdraw, Withdrawn, Set, At, Idle, Flags
<1>3. SockInv'
  BY <1>1 DEF Types, SockInv, WrongDigest, Tell, sess, lists, Answered, Stale, Request, Withdraw, Withdrawn, Set, Flags
<1>4. PendInv'
  <2>1. /\ authed' = [authed EXCEPT ![s] = TRUE] /\ mRequest' = [mRequest EXCEPT ![s] = 0]
        /\ pending' = pending \ {Request(s, mRequest[s])}
        /\ UNCHANGED <<conn, packet, asked, world>>
    BY DEF WrongDigest, Answered, Withdraw, Withdrawn, Set
  <2>2. \A r \in pending : /\ r.s # s => mRequest'[r.s] = mRequest[r.s]
                           /\ ~authed'[r.s] => ~authed[r.s]
    BY <1>1, <2>1, EarlierRequest DEF Types, Flags
  <2> QED
    BY <1>1, <2>1, <2>2, PendKept
<1>5. ListInv'
  BY <1>1 DEF Types, ListInv, WrongDigest, Tell, sess, lists, Answered, Stale, Request, Withdraw, Withdrawn, Set, Flags, SockInv,
     PendInv
<1>6. QueueInv' /\ NetInv' /\ WorldInv' /\ OneSessionUnqueued' /\ LimitInv'
  BY <1>1 DEF QueueInv, NetInv, WorldInv, OneSessionUnqueued, LimitInv, WrongDigest, Tell, sess,
     lists, Answered, Players, Entering, Admitting
<1> QED
  BY <1>2, <1>3, <1>4, <1>5, <1>6 DEF IInv

(* A new session: nobody knows it yet, and it was let in only with room. *)
LEMMA NewSessionInv ==
  ASSUME IInv, NEW s \in Sockets, NewSession(s)
  PROVE  IInv'
<1>1. Types /\ SockInv /\ PendInv /\ ListInv /\ QueueInv /\ NetInv
      /\ WorldInv /\ OneSessionUnqueued /\ LimitInv
  BY DEF IInv
<1>2. Types'
  BY <1>1 DEF Types, NewSession, FindSession, lists, Answered, Stale, Request, Withdraw, Withdrawn, Set, At, Idle, Flags
<1>3. SockInv'
  BY <1>1 DEF Types, SockInv, NewSession, FindSession, lists, Answered, Stale, Request, Withdraw, Withdrawn, Set, Flags, PendInv
<1>4. PendInv'
  <2>1. /\ authed' = [authed EXCEPT ![s] = TRUE] /\ mRequest' = [mRequest EXCEPT ![s] = 0]
        /\ pending' = pending \ {Request(s, mRequest[s])}
        /\ UNCHANGED <<conn, packet, asked, world>>
    BY DEF NewSession, Answered, Withdraw, Withdrawn, Set
  <2>2. \A r \in pending : /\ r.s # s => mRequest'[r.s] = mRequest[r.s]
                           /\ ~authed'[r.s] => ~authed[r.s]
    BY <1>1, <2>1, EarlierRequest DEF Types, Flags
  <2> QED
    BY <1>1, <2>1, <2>2, PendKept
<1>5. ListInv'
  BY <1>1 DEF Types, ListInv, NewSession, FindSession, lists, Answered, Stale, Request, Withdraw, Withdrawn, Set, Flags
<1>6. QueueInv'
  BY <1>1 DEF Types, QueueInv, NewSession, FindSession, lists, Answered, Stale, Request, Withdraw, Withdrawn, Set, At, Idle,
     Flags
<1>7. NetInv'
  <2>1. ~authed[s] /\ packet[s] /\ session[s] = "none"
    BY <1>1 DEF NewSession, Answered, Stale, Request, PendInv, SockInv, Types
  <2>2. s \notin global /\ s \notin Waiting(queue) /\ ~(world.at = "admit" /\ world.s = s)
    BY <1>1, <2>1 DEF ListInv, QueueInv, WorldInv
  <2>3. /\ net' = At(IF HasRoom \/ acct[s] \in GMs THEN "enter" ELSE "queue", s)
        /\ mSession' = [mSession EXCEPT ![s] = TRUE] /\ sessions[acct[s]] = None
        /\ UNCHANGED <<acct, packet, sessions, global, queue, world>>
    BY DEF NewSession, Answered, FindSession, Set, lists
  <2> QED
    BY <1>1, <2>1, <2>2, <2>3 DEF NetInv, Types, Flags, At
<1>8. WorldInv'
  BY <1>1 DEF Types, WorldInv, NewSession, FindSession, lists, Answered, Stale, Request, Withdraw, Withdrawn, Set, At, Idle
<1>9. LimitInv'
  <2>1. Cardinality(Players) \in Nat /\ (HasRoom => Cardinality(Players) < PlayerLimit)
    BY <1>1, PlayersCount
  <2>2. Entering = 0 /\ Admitting \in 0 .. 1 /\ UNCHANGED <<Players, Admitting>>
    BY <1>1 DEF NewSession, Answered, Players, Entering, Admitting, Idle, lists
  <2>3. Entering' \in 0 .. 1 /\ (Entering' = 1 => HasRoom)
    BY <1>1 DEF NewSession, Entering, At
  <2> QED
    BY <1>1, <2>1, <2>2, <2>3, LoginAssumption DEF LimitInv
<1>10. OneSessionUnqueued'
  BY <1>1 DEF OneSessionUnqueued, NewSession, lists, Answered
<1> QED
  BY <1>2, <1>3, <1>4, <1>5, <1>6, <1>7, <1>8, <1>9, <1>10 DEF IInv

(* The socket worker lets its session in: it waits nowhere. *)
LEMMA EnterInv ==
  ASSUME IInv, Enter
  PROVE  IInv'
<1>1. Types /\ SockInv /\ PendInv /\ ListInv /\ QueueInv /\ NetInv
      /\ WorldInv /\ OneSessionUnqueued /\ LimitInv
  BY DEF IInv
<1>2. PICK t \in Sockets : net = At("enter", t) /\ acct[t] \in Accounts
  BY <1>1 DEF Types, Enter, At, Idle
<1>3. /\ mSession[t] /\ packet[t] /\ t \notin global /\ t \notin Waiting(queue)
      /\ ~(world.at = "admit" /\ world.s = t) /\ session[t] = "live" /\ authed[t]
      /\ acct[t] \in GMs => sessions[acct[t]] = None
  BY <1>1, <1>2 DEF NetInv, SockInv, At, Types
<1>4. /\ mQueued' = [mQueued EXCEPT ![t] = FALSE] /\ told' = [told EXCEPT ![t] = "ok"]
      /\ packet' = [packet EXCEPT ![t] = FALSE] /\ global' = global \union {t}
      /\ sessions' = [sessions EXCEPT ![acct[t]] = t] /\ net' = Idle
      /\ UNCHANGED <<acct, conn, asked, mRequest, authed, mSession, session, socket, logout, link, ask,
                     answer, pending, drops, queue, world>>
  BY <1>2, <1>3 DEF Enter, Authenticate, Set, Tell, At, sess, comm
<1>5. Types'
  BY <1>1, <1>2, <1>3, <1>4 DEF Types, Flags, Idle, At
<1>6. SockInv'
  BY <1>1, <1>2, <1>3, <1>4 DEF SockInv, Types, Flags, Idle, At
<1>7. PendInv'
  BY <1>1, <1>2, <1>3, <1>4 DEF PendInv, Types, Flags, Idle, At
<1>8. ListInv'
  BY <1>1, <1>2, <1>3, <1>4 DEF ListInv, Types, Flags, Idle, At
<1>9. QueueInv'
  BY <1>1, <1>2, <1>3, <1>4 DEF QueueInv, Types, At, Flags, Idle, At
<1>10. NetInv'
  BY <1>1, <1>2, <1>3, <1>4 DEF NetInv, Types, Idle, Flags, Idle, At
<1>11. WorldInv'
  BY <1>1, <1>2, <1>3, <1>4 DEF WorldInv, Types, Flags, Idle, At
<1>12. OneSessionUnqueued'
  <2>1. \A g \in global : g \in Sockets /\ g # t
    BY <1>1, <1>3 DEF Types
  <2>2. \A g \in global : acct[g] \in GMs => acct[g] # acct[t]
    BY <1>1, <1>3, <2>1, LoginAssumption DEF OneSessionUnqueued
  <2>3. sessions'[acct[t]] = t /\ \A b \in Accounts : b # acct[t] => sessions'[b] = sessions[b]
    BY <1>1, <1>2, <1>4 DEF Types
  <2> QED
    BY <1>1, <1>2, <1>4, <2>1, <2>2, <2>3 DEF OneSessionUnqueued, Types
<1>13. LimitInv'
  <2>1. Cardinality(Players) \in Nat /\ Admitting \in Nat /\ UNCHANGED Admitting /\ Entering' = 0
    BY <1>1, <1>4, PlayersCount DEF Admitting, Entering, Idle
  <2>2. Entering = IF acct[t] \in GMs THEN 0 ELSE 1
    BY <1>2 DEF Entering, At
  <2>3. /\ Cardinality(Players') \in Nat /\ Cardinality(Players') <= Cardinality(Players) + 1
        /\ acct[t] \in GMs => Players' = Players
    BY <1>1, <1>2, <1>4, OneMore
  <2> QED
    BY <1>1, <2>1, <2>2, <2>3, LoginAssumption DEF LimitInv
<1> QED
  BY <1>5, <1>6, <1>7, <1>8, <1>9, <1>10, <1>11, <1>12, <1>13 DEF IInv

(* The session joins the queue it was not in. *)
LEMMA EnqueueInv ==
  ASSUME IInv, Enqueue
  PROVE  IInv'
<1>1. Types /\ SockInv /\ PendInv /\ ListInv /\ QueueInv /\ NetInv
      /\ WorldInv /\ OneSessionUnqueued /\ LimitInv
  BY DEF IInv
<1>2. Types'
  BY <1>1 DEF Types, Enqueue, QueueFree, sock, sess, comm, At, Idle, Flags
<1>3. QueueInv'
  BY <1>1, AppendWaits DEF Types, QueueInv, Enqueue, QueueFree, sock, sess, comm, At, Idle, Flags,
     NetInv, SockInv
<1>4. NetInv'
  BY <1>1 DEF Types, NetInv, Enqueue, QueueFree, sock, sess, comm, At, Idle, Flags
<1>5. WorldInv'
  BY <1>1 DEF Types, WorldInv, Enqueue, QueueFree, sock, sess, comm, At, Idle
<1>6. LimitInv'
  BY <1>1 DEF Types, LimitInv, Enqueue, QueueFree, sock, sess, comm, At, Idle, Players, Entering,
     Admitting
<1>7. SockInv' /\ PendInv' /\ ListInv' /\ OneSessionUnqueued'
  BY <1>1 DEF SockInv, PendInv, ListInv, OneSessionUnqueued, Enqueue, sock, sess, comm
<1> QED
  BY <1>2, <1>3, <1>4, <1>5, <1>6, <1>7 DEF IInv

(* mQueued follows: nobody admitted it in between. *)
LEMMA FlagInv ==
  ASSUME IInv, Flag
  PROVE  IInv'
<1>1. Types /\ SockInv /\ PendInv /\ ListInv /\ QueueInv /\ NetInv
      /\ WorldInv /\ OneSessionUnqueued /\ LimitInv
  BY DEF IInv
<1>2. Types'
  BY <1>1 DEF Types, Flag, Tell, sess, comm, lists, Set, At, Idle, Flags
<1>3. SockInv'
  BY <1>1 DEF Types, SockInv, Flag, Tell, sess, comm, lists, Set, Flags
<1>4. ListInv'
  BY <1>1 DEF Types, ListInv, Flag, Tell, sess, comm, lists, Set, Flags, NetInv, SockInv
<1>5. QueueInv'
  BY <1>1 DEF Types, QueueInv, Flag, Tell, sess, comm, lists, Set, At, Idle, Flags, NetInv, SockInv
<1>6. NetInv'
  BY <1>1 DEF Types, NetInv, Flag, Tell, sess, comm, lists, Set, At, Idle, Flags
<1>7. LimitInv'
  BY <1>1 DEF Types, LimitInv, Flag, Tell, sess, comm, lists, Set, At, Idle, Players, Entering,
     Admitting
<1>8. PendInv' /\ WorldInv' /\ OneSessionUnqueued'
  BY <1>1 DEF PendInv, WorldInv, OneSessionUnqueued, Flag, Tell, sess, comm, lists
<1> QED
  BY <1>2, <1>3, <1>4, <1>5, <1>6, <1>7, <1>8 DEF IInv

(* The world thread takes the first of the queue, with room for it. *)
LEMMA GrabInv ==
  ASSUME IInv, Grab
  PROVE  IInv'
<1>1. Types /\ SockInv /\ PendInv /\ ListInv /\ QueueInv /\ NetInv
      /\ WorldInv /\ OneSessionUnqueued /\ LimitInv
  BY DEF IInv
<1>2. Types'
  BY <1>1 DEF Types, Grab, sock, sess, comm, At, Idle, Flags
<1>3. QueueInv'
  BY <1>1, TailWaits DEF Types, QueueInv, Grab, sock, sess, comm, At, Idle, Flags
<1>4. NetInv'
  BY <1>1, TailWaits DEF Types, NetInv, Grab, sock, sess, comm, At, Idle, Flags
<1>5. WorldInv'
  BY <1>1, TailWaits DEF Types, WorldInv, Grab, sock, sess, comm, At, Idle, QueueInv
<1>6. LimitInv'
  <2>1. Cardinality(Players) \in Nat /\ Cardinality(Players) < PlayerLimit
    BY <1>1, PlayersCount DEF Grab
  <2>2. Entering \in 0 .. 1 /\ Admitting' \in 0 .. 1 /\ UNCHANGED <<Players, Entering>>
    BY <1>1 DEF Grab, Players, Entering, Admitting, sock
  <2> QED
    BY <2>1, <2>2, LoginAssumption DEF LimitInv
<1>7. SockInv' /\ ListInv' /\ OneSessionUnqueued'
  BY <1>1 DEF SockInv, ListInv, OneSessionUnqueued, Grab, sock, sess, comm
<1>8. PendInv'
  <2>1. \A r \in pending : world # At("withdraw", r.s)
    BY DEF Grab, At, Idle
  <2> QED
    BY <1>1, <2>1, PendKept DEF Grab, sock, comm
<1> QED
  BY <1>2, <1>3, <1>4, <1>5, <1>6, <1>7, <1>8 DEF IInv

(* The world thread lets it in, unless its socket has left the session. *)
LEMMA AdmitInv ==
  ASSUME IInv, Admit
  PROVE  IInv'
<1>1. Types /\ SockInv /\ PendInv /\ ListInv /\ QueueInv /\ NetInv
      /\ WorldInv /\ OneSessionUnqueued /\ LimitInv
  BY DEF IInv
<1>2. PICK t \in Sockets : world = At("admit", t) /\ acct[t] \in Accounts
  BY <1>1 DEF Types, Admit, At, Idle
<1>3. /\ t \notin global /\ t \notin Waiting(queue) /\ session[t] # "none" /\ authed[t]
      /\ acct[t] \notin GMs /\ ~(net.at \in {"enter", "queue", "flag"} /\ net.s = t)
  BY <1>1, <1>2 DEF WorldInv, SockInv, Admit, DeleteMutexFree, At, Types
<1>4. /\ mQueued' = [mQueued EXCEPT ![t] = FALSE] /\ world' = At("release", t)
      /\ UNCHANGED <<acct, conn, asked, mRequest, authed, mSession, session, socket, logout, link, ask,
                     answer, pending, drops, queue, net>>
  BY <1>2 DEF Admit, Authenticate, Set, At, sess, comm
<1> DEFINE Admitted ==
             /\ mSession[t] /\ told' = [told EXCEPT ![t] = "ok"]
             /\ packet' = [packet EXCEPT ![t] = FALSE] /\ global' = global \union {t}
             /\ sessions' = [sessions EXCEPT ![acct[t]] = t]
           Gone == UNCHANGED told /\ UNCHANGED packet /\ UNCHANGED sessions /\ UNCHANGED global
<1>5. Admitted \/ Gone
  BY <1>2 DEF Admit, Authenticate, Set, At, Tell
<1>6. Types'
  <2>1. CASE Admitted
    BY <1>1, <1>2, <1>3, <1>4, <2>1 DEF Types, Flags, At
  <2>2. CASE Gone
    BY <1>1, <1>2, <1>3, <1>4, <2>2 DEF Types, Flags, At
  <2> QED
    BY <1>5, <2>1, <2>2
<1>7. SockInv'
  BY <1>1, <1>2, <1>3, <1>4, <1>5 DEF SockInv, Types, Flags, At
<1>8. PendInv'
  <2>1. \A r \in pending : r.s \in Sockets /\ world # At("withdraw", r.s)
    BY <1>1, <1>2, EarlierRequest DEF At
  <2>2. \A r \in pending : ~authed[r.s] => packet'[r.s] = packet[r.s]
    <3>1. CASE Admitted
      BY <1>1, <1>3, <2>1, <3>1 DEF Types, Flags
    <3>2. CASE Gone
      BY <3>2
    <3> QED
      BY <1>5, <3>1, <3>2
  <2> QED
    BY <1>1, <1>4, <2>1, <2>2, PendKept
<1>9. ListInv'
  <2>1. CASE Admitted
    <3>1. session[t] = "live"
      BY <1>1, <2>1 DEF SockInv
    <3>2. \A g \in global \union {t} : ~mQueued'[g] /\ told'[g] = "ok" /\ session[g] = "live"
      BY <1>1, <1>4, <2>1, <3>1 DEF ListInv, Types, Flags
    <3>3. \A a \in Accounts : sessions'[a] = IF a = acct[t] THEN t ELSE sessions[a]
      BY <1>1, <2>1 DEF Types
    <3> QED
      BY <1>1, <1>4, <2>1, <3>2, <3>3 DEF ListInv
  <2>2. CASE Gone
    BY <1>1, <1>4, <2>2 DEF ListInv, Types, Flags
  <2> QED
    BY <1>5, <2>1, <2>2
<1>10. QueueInv'
  <2>1. CASE Admitted
    BY <1>1, <1>2, <1>3, <1>4, <2>1 DEF QueueInv, Types, Flags, At
  <2>2. CASE Gone
    BY <1>1, <1>2, <1>3, <1>4, <2>2 DEF QueueInv, Types, Flags, At
  <2> QED
    BY <1>5, <2>1, <2>2
<1>11. NetInv'
  <2>1. CASE Admitted
    BY <1>1, <1>2, <1>3, <1>4, <2>1 DEF NetInv, Types, Flags, At
  <2>2. CASE Gone
    BY <1>1, <1>2, <1>3, <1>4, <2>2 DEF NetInv, Types, Flags, At
  <2> QED
    BY <1>5, <2>1, <2>2
<1>12. WorldInv'
  BY <1>1, <1>2, <1>3, <1>4, <1>5 DEF WorldInv, Types, Flags, At
<1>13. OneSessionUnqueued'
  BY <1>1, <1>2, <1>3, <1>4, <1>5 DEF OneSessionUnqueued, Types, ListInv, Flags, At
<1>14. LimitInv'
  <2>1. /\ Cardinality(Players) \in Nat /\ Entering \in Nat /\ UNCHANGED Entering
        /\ Admitting = 1 /\ Admitting' = 0
    BY <1>1, <1>2, <1>4, PlayersCount DEF Admitting, Entering, At
  <2>2. Cardinality(Players') \in Nat /\ Cardinality(Players') <= Cardinality(Players) + 1
    <3>1. CASE UNCHANGED sessions
      BY <2>1, <3>1 DEF Players
    <3>2. CASE sessions' = [sessions EXCEPT ![acct[t]] = t]
      BY <1>1, <1>2, <3>2, OneMore
    <3> QED
      BY <1>5, <3>1, <3>2
  <2> QED
    BY <1>1, <2>1, <2>2, LoginAssumption DEF LimitInv
<1> QED
  BY <1>6, <1>7, <1>8, <1>9, <1>10, <1>11, <1>12, <1>13, <1>14 DEF IInv

(* The world thread leaves the admitted session alone. *)
LEMMA ReleaseInv ==
  ASSUME IInv, Release
  PROVE  IInv'
<1>1. Types /\ SockInv /\ PendInv /\ ListInv /\ QueueInv /\ NetInv
      /\ WorldInv /\ OneSessionUnqueued /\ LimitInv
  BY DEF IInv
<1>2. Types'
  BY <1>1 DEF Types, Release, sock, sess, comm, lists, At, Idle, Flags
<1>3. NetInv'
  BY <1>1 DEF Types, NetInv, Release, sock, sess, comm, lists, At, Idle, Flags
<1>4. WorldInv'
  BY <1>1 DEF Types, WorldInv, Release, sock, sess, comm, lists, At, Idle
<1>5. LimitInv'
  BY <1>1 DEF Types, LimitInv, Release, sock, sess, comm, lists, At, Idle, Players, Entering,
     Admitting
<1>6. SockInv' /\ ListInv' /\ QueueInv' /\ OneSessionUnqueued'
  BY <1>1 DEF SockInv, ListInv, QueueInv, OneSessionUnqueued, Release, sock, sess, comm, lists
<1>7. PendInv'
  <2>1. \A r \in pending : world # At("withdraw", r.s)
    BY DEF Release, At
  <2> QED
    BY <1>1, <2>1, PendKept DEF Release, sock, comm
<1> QED
  BY <1>2, <1>3, <1>4, <1>5, <1>6, <1>7 DEF IInv

(* Only those in the queue are told that they wait. *)
LEMMA PositionsInv ==
  ASSUME IInv, Positions
  PROVE  IInv'
<1>1. Types /\ SockInv /\ PendInv /\ ListInv /\ QueueInv /\ NetInv
      /\ WorldInv /\ OneSessionUnqueued /\ LimitInv
  BY DEF IInv
<1>2. Types'
  BY <1>1 DEF Types, Positions, sess, comm, lists, At, Idle, Flags
<1>3. SockInv'
  BY <1>1 DEF Types, SockInv, Positions, sess, comm, lists, Flags
<1>4. ListInv'
  BY <1>1 DEF Types, ListInv, Positions, sess, comm, lists, Flags, QueueInv, Waiting
<1>5. PendInv' /\ QueueInv' /\ NetInv' /\ WorldInv' /\ OneSessionUnqueued' /\ LimitInv'
  BY <1>1 DEF PendInv, QueueInv, NetInv, WorldInv, OneSessionUnqueued, LimitInv, Positions, sess,
     comm, lists, Players, Entering, Admitting
<1> QED
  BY <1>2, <1>3, <1>4, <1>5 DEF IInv

(* The logout timer of a session without a socket. *)
LEMMA SetLogoutTimerInv ==
  ASSUME IInv, NEW s \in Sockets, SetLogoutTimer(s)
  PROVE  IInv'
<1>1. Types /\ SockInv /\ PendInv /\ ListInv /\ QueueInv /\ NetInv
      /\ WorldInv /\ OneSessionUnqueued /\ LimitInv
  BY DEF IInv
<1>2. Types'
  BY <1>1 DEF Types, SetLogoutTimer, sock, comm, lists, Set, At, Idle, Flags
<1>3. SockInv' /\ PendInv' /\ ListInv' /\ QueueInv' /\ NetInv' /\ WorldInv' /\ OneSessionUnqueued' /\ LimitInv'
  BY <1>1 DEF SockInv, PendInv, ListInv, QueueInv, NetInv, WorldInv, OneSessionUnqueued, LimitInv,
     SetLogoutTimer, sock, comm, lists, Players, Entering, Admitting
<1> QED
  BY <1>2, <1>3 DEF IInv

(* A session that goes had no socket and leaves both lists. *)
LEMMA DeleteSessionInv ==
  ASSUME IInv, NEW s \in Sockets, DeleteSession(s)
  PROVE  IInv'
<1>1. Types /\ SockInv /\ PendInv /\ ListInv /\ QueueInv /\ NetInv
      /\ WorldInv /\ OneSessionUnqueued /\ LimitInv
  BY DEF IInv
<1>2. Types'
  BY <1>1 DEF Types, DeleteSession, sock, comm, Set, At, Idle, Flags
<1>3. SockInv'
  BY <1>1 DEF Types, SockInv, DeleteSession, sock, comm, Set, Flags, ListInv
<1>4. ListInv'
  BY <1>1 DEF Types, ListInv, DeleteSession, sock, comm, Set, Flags
<1>5. QueueInv'
  BY <1>1 DEF Types, QueueInv, DeleteSession, sock, comm, Set, At, Idle, Flags
<1>6. NetInv'
  BY <1>1 DEF Types, NetInv, DeleteSession, sock, comm, Set, At, Idle, Flags
<1>7. WorldInv'
  BY <1>1 DEF Types, WorldInv, DeleteSession, sock, comm, Set, At, Idle
<1>8. OneSessionUnqueued'
  BY <1>1 DEF Types, OneSessionUnqueued, DeleteSession, sock, comm, Set
<1>9. LimitInv'
  <2>1. \A b \in Accounts : sessions'[b] = IF b = acct[s] THEN None ELSE sessions[b]
    BY <1>1 DEF DeleteSession, Types
  <2>2. Players' \subseteq Players
    BY <2>1 DEF Players
  <2>3. /\ Cardinality(Players) \in Nat /\ Cardinality(Players') \in Nat
        /\ Cardinality(Players') <= Cardinality(Players)
    BY <1>1, <2>2, PlayersCount, FS_Subset, FS_CardinalityType
  <2>4. Entering \in 0 .. 1 /\ Admitting \in 0 .. 1 /\ UNCHANGED <<Entering, Admitting>>
    BY DEF DeleteSession, Entering, Admitting
  <2> QED
    BY <1>1, <2>3, <2>4, LoginAssumption DEF LimitInv
<1>10. PendInv'
  BY <1>1 DEF PendInv, DeleteSession, sock, comm
<1> QED
  BY <1>2, <1>3, <1>4, <1>5, <1>6, <1>7, <1>8, <1>9, <1>10 DEF IInv

(* A session in the world loses its socket. *)
LEMMA PingTimeoutInv ==
  ASSUME IInv, NEW s \in Sockets, PingTimeout(s)
  PROVE  IInv'
<1>1. Types /\ SockInv /\ PendInv /\ ListInv /\ QueueInv /\ NetInv
      /\ WorldInv /\ OneSessionUnqueued /\ LimitInv
  BY DEF IInv
<1>2. Types'
  BY <1>1 DEF Types, PingTimeout, Detach, comm, lists, Set, At, Idle, Flags
<1>3. SockInv'
  BY <1>1 DEF Types, SockInv, PingTimeout, Detach, Set, Flags
<1>4. PendInv'
  BY <1>1 DEF Types, PendInv, PingTimeout, Detach, comm, Set, Flags, Requests, At, Idle
<1>5. QueueInv'
  <2>1. s \in global /\ s \notin Waiting(queue)
    BY <1>1 DEF PingTimeout, QueueInv
  <2>2. /\ conn' = [conn EXCEPT ![s] = "closed"]
        /\ UNCHANGED <<acct, packet, session, global, net, queue, mQueued>>
    BY DEF PingTimeout, Detach, lists, Set
  <2>3. \A w \in Waiting(queue) : w # s /\ conn'[w] = conn[w]
    BY <1>1, <2>1, <2>2 DEF Types, Waiting
  <2> QED
    BY <1>1, <2>2, <2>3 DEF QueueInv
<1>6. NetInv'
  <2>1. /\ s \in global /\ world' = At("withdraw", s)
        /\ UNCHANGED <<acct, packet, global, sessions, queue, net>>
    BY DEF PingTimeout, lists
  <2>2. mSession' = [mSession EXCEPT ![s] = FALSE]
    BY DEF PingTimeout, Detach, Set
  <2> QED
    BY <1>1, <2>1, <2>2 DEF NetInv, Types, Flags, At
<1>7. WorldInv' /\ LimitInv'
  BY <1>1 DEF WorldInv, LimitInv, PingTimeout, At, Idle, lists, Players, Entering, Admitting
<1>8. ListInv' /\ OneSessionUnqueued'
  BY <1>1 DEF ListInv, OneSessionUnqueued, PingTimeout, lists
<1> QED
  BY <1>2, <1>3, <1>4, <1>5, <1>6, <1>7, <1>8 DEF IInv

(* Its request is withdrawn; the socket did not wait. *)
LEMMA TimedOutInv ==
  ASSUME IInv, TimedOut
  PROVE  IInv'
<1>1. Types /\ SockInv /\ PendInv /\ ListInv /\ QueueInv /\ NetInv
      /\ WorldInv /\ OneSessionUnqueued /\ LimitInv
  BY DEF IInv
<1>2. PICK t \in Sockets : world = At("withdraw", t) /\ t \in global
  BY <1>1 DEF Types, TimedOut, WorldInv, At, Idle
<1>3. ~mQueued[t]
  BY <1>1, <1>2 DEF ListInv
<1>4. /\ mRequest' = [mRequest EXCEPT ![t] = 0] /\ pending' = pending \ {Request(t, mRequest[t])}
      /\ logout' = [logout EXCEPT ![t] = TRUE] /\ world' = Idle
      /\ UNCHANGED <<acct, conn, packet, asked, authed, mSession, told, session, socket, link, ask,
                     answer, drops, sessions, global, net>>
      /\ UNCHANGED queue
  BY <1>2, <1>3 DEF TimedOut, Withdraw, Withdrawn, Dequeue, Set, At
<1>5. UNCHANGED mQueued
  BY <1>1, <1>2, <1>3 DEF TimedOut, Dequeue, Set, At, Types, Flags
<1>6. Types'
  BY <1>1, <1>4, <1>5 DEF Types, Flags
<1>7. PendInv'
  <2>1. \A r \in pending : r.s # t => mRequest'[r.s] = mRequest[r.s] /\ world # At("withdraw", r.s)
    BY <1>1, <1>2, <1>4, EarlierRequest DEF Types, At
  <2> QED
    BY <1>1, <1>4, <2>1, PendKept
<1>8. NetInv' /\ WorldInv' /\ LimitInv'
  BY <1>1, <1>2, <1>4 DEF NetInv, WorldInv, LimitInv, At, Idle, Players, Entering, Admitting
<1>9. SockInv' /\ ListInv' /\ QueueInv' /\ OneSessionUnqueued'
  BY <1>1, <1>4, <1>5 DEF SockInv, ListInv, QueueInv, OneSessionUnqueued
<1> QED
  BY <1>6, <1>7, <1>8, <1>9 DEF IInv

(* The logon server answers. *)
LEMMA LogonAnswersInv ==
  ASSUME IInv, LogonAnswers
  PROVE  IInv'
<1>1. Types /\ SockInv /\ PendInv /\ ListInv /\ QueueInv /\ NetInv
      /\ WorldInv /\ OneSessionUnqueued /\ LimitInv
  BY DEF IInv
<1>2. Types'
  BY <1>1 DEF Types, LogonAnswers, sock, sess, lists, At, Idle, Flags
<1>3. SockInv' /\ PendInv' /\ ListInv' /\ QueueInv' /\ NetInv' /\ WorldInv' /\ OneSessionUnqueued' /\ LimitInv'
  BY <1>1 DEF SockInv, PendInv, ListInv, QueueInv, NetInv, WorldInv, OneSessionUnqueued, LimitInv,
     LogonAnswers, sock, sess, lists, Players, Entering, Admitting
<1> QED
  BY <1>2, <1>3 DEF IInv

(* The logon connection breaks. *)
LEMMA LinkDropsInv ==
  ASSUME IInv, LinkDrops
  PROVE  IInv'
<1>1. Types /\ SockInv /\ PendInv /\ ListInv /\ QueueInv /\ NetInv
      /\ WorldInv /\ OneSessionUnqueued /\ LimitInv
  BY DEF IInv
<1>2. Types'
  <2>1. drops' \in 0 .. MaxDrops
    BY <1>1, LoginAssumption DEF Types, LinkDrops
  <2>2. ask' \in Seq(Requests) /\ answer' \in Seq(Requests)
    BY DEF LinkDrops
  <2> QED
    BY <1>1, <2>1, <2>2 DEF Types, LinkDrops, sock, sess, lists
<1>3. SockInv' /\ PendInv' /\ ListInv' /\ QueueInv' /\ NetInv' /\ WorldInv' /\ OneSessionUnqueued' /\ LimitInv'
  BY <1>1 DEF SockInv, PendInv, ListInv, QueueInv, NetInv, WorldInv, OneSessionUnqueued, LimitInv,
     LinkDrops, sock, sess, lists, Players, Entering, Admitting
<1> QED
  BY <1>2, <1>3 DEF IInv

(* It is back. *)
LEMMA ReconnectInv ==
  ASSUME IInv, Reconnect
  PROVE  IInv'
<1>1. Types /\ SockInv /\ PendInv /\ ListInv /\ QueueInv /\ NetInv
      /\ WorldInv /\ OneSessionUnqueued /\ LimitInv
  BY DEF IInv
<1>2. Types'
  BY <1>1 DEF Types, Reconnect, sock, sess, lists, At, Idle, Flags
<1>3. SockInv' /\ PendInv' /\ ListInv' /\ QueueInv' /\ NetInv' /\ WorldInv' /\ OneSessionUnqueued' /\ LimitInv'
  BY <1>1 DEF SockInv, PendInv, ListInv, QueueInv, NetInv, WorldInv, OneSessionUnqueued, LimitInv,
     Reconnect, sock, sess, lists, Players, Entering, Admitting
<1> QED
  BY <1>2, <1>3 DEF IInv

-----------------------------------------------------------------------------
(* The program starts in it ... *)
LEMMA InitInv == Init => IInv
<1> SUFFICES ASSUME Init
             PROVE  IInv
  OBVIOUS
<1>1. Waiting(queue) = {} /\ Once(queue)
  BY DEF Init, Waiting, Once
<1>2. Types
  BY LoginAssumption DEF Init, Types, Flags
<1>3. SockInv /\ PendInv /\ ListInv /\ OneSessionUnqueued
  BY DEF Init, SockInv, PendInv, ListInv, OneSessionUnqueued
<1>4. QueueInv /\ NetInv /\ WorldInv
  BY <1>1 DEF Init, QueueInv, NetInv, WorldInv, Idle
<1>5. LimitInv
  <2>1. Players = {} /\ Entering = 0 /\ Admitting = 0
    BY DEF Init, Players, Entering, Admitting, Idle
  <2> QED
    BY <2>1, FS_EmptySet, LoginAssumption DEF LimitInv
<1> QED
  BY <1>2, <1>3, <1>4, <1>5 DEF IInv

(* ... and stays there. *)
LEMMA NextInv == IInv /\ [Next]_vars => IInv'
<1> SUFFICES ASSUME IInv, [Next]_vars
             PROVE  IInv'
  OBVIOUS
<1>1. CASE Handler
  BY <1>1, CloseDequeueInv, IgnoreAnswerInv, EnterInv, EnqueueInv, FlagInv, SupersededInv, RefusedInv,
     AlreadyInInv, WrongDigestInv, NewSessionInv DEF Handler
<1>2. CASE QueueUpdate
  BY <1>2, GrabInv, AdmitInv, ReleaseInv, TimedOutInv DEF QueueUpdate
<1>3. CASE Positions \/ LogonAnswers \/ LinkDrops \/ Reconnect
  BY <1>3, PositionsInv, LogonAnswersInv, LinkDropsInv, ReconnectInv
<1>4. CASE \E s \in Sockets :
             \/ Accept(s) \/ AuthSession(s) \/ AuthSessionRefused(s) \/ Close(s)
             \/ SetLogoutTimer(s) \/ DeleteSession(s) \/ PingTimeout(s)
  BY <1>4, AcceptInv, AuthSessionInv, AuthSessionRefusedInv, CloseInv, SetLogoutTimerInv,
     DeleteSessionInv, PingTimeoutInv
<1>5. CASE UNCHANGED vars
  BY <1>5 DEF vars, sock, sess, comm, lists, IInv, Types, SockInv, PendInv, ListInv, QueueInv,
              NetInv, WorldInv, OneSessionUnqueued, LimitInv, Players, Entering, Admitting
<1> QED
  BY <1>1, <1>2, <1>3, <1>4, <1>5 DEF Next

(* The inductive invariant holds in every reachable state. *)
THEOREM Invariant == Spec => []IInv
  BY InitInv, NextInv, PTL DEF Spec

(* Every component keeps its type. *)
THEOREM TypeCorrect == Spec => []TypeOK
<1>1. IInv => TypeOK
  BY TypesGive DEF IInv
<1> QED
  BY <1>1, Invariant, PTL

(* No pointer of the login outlives what it points to, whatever the socket *)
(* worker, the world thread and the logon server do in between: sockets,   *)
(* sessions, World's lists, the queue and pending_logons, in which only    *)
(* requests that a later one has replaced can be left behind.              *)
THEOREM PointersValid == Spec => []NoDangling
<1>1. IInv => NoDangling
  <2> SUFFICES ASSUME IInv
               PROVE  NoDangling
    OBVIOUS
  <2>1. Types /\ SockInv /\ PendInv /\ ListInv /\ QueueInv
    BY DEF IInv
  <2>2. \A i \in 1 .. Len(queue) : queue[i] \in Waiting(queue)
    BY DEF Waiting
  <2> QED
    BY <2>1, <2>2 DEF NoDangling, Types, SockInv, PendInv, ListInv, QueueInv
<1> QED
  BY <1>1, Invariant, PTL

(* An admitted client has been told so last, and nobody waits twice or     *)
(* waits while in the world.                                               *)
THEOREM AdmittedOnce == Spec => []AdmittedIsNotQueued
<1>1. IInv => AdmittedIsNotQueued
  <2> SUFFICES ASSUME IInv
               PROVE  AdmittedIsNotQueued
    OBVIOUS
  <2>1. ListInv /\ QueueInv
    BY DEF IInv
  <2>2. \A s \in global : ~Queued(s)
    BY <2>1 DEF QueueInv, Queued, Waiting
  <2> QED
    BY <2>1, <2>2 DEF AdmittedIsNotQueued, ListInv, QueueInv, Once
<1> QED
  BY <1>1, Invariant, PTL

(* An account that is never queued has one session in the world, the one   *)
(* the session map knows.                                                  *)
THEOREM UnqueuedLogsInOnce == Spec => []OneSessionUnqueued
<1>1. IInv => OneSessionUnqueued
  BY DEF IInv
<1> QED
  BY <1>1, Invariant, PTL

(* The player limit is passed by at most one player without GM             *)
(* permissions, for every limit.                                           *)
THEOREM LimitHeld == Spec => []AtMostOneOver
<1>1. IInv => AtMostOneOver
  <2> SUFFICES ASSUME IInv
               PROVE  AtMostOneOver
    OBVIOUS
  <2>1. Cardinality(Players) \in Nat
    BY PlayersCount DEF IInv
  <2>2. Entering \in 0 .. 1 /\ Admitting \in 0 .. 1 /\ LimitInv
    BY DEF IInv, Entering, Admitting
  <2>3. Cardinality(Players) <= PlayerLimit + 1
    BY <2>1, <2>2, LoginAssumption DEF LimitInv
  <2> QED
    BY <2>3 DEF AtMostOneOver, Players
<1> QED
  BY <1>1, Invariant, PTL
=============================================================================
