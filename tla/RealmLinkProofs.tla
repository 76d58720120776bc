-------------------------- MODULE RealmLinkProofs --------------------------
(***************************************************************************)
(* For every number of connections, failures and attempts: a realm shown   *)
(* online has a connection, and a world server that takes itself for       *)
(* linked is listed with the connection it uses, as long as no REGISTER    *)
(* is handled after that of a later connection.                            *)
(***************************************************************************)
EXTENDS RealmLink, SequenceTheorems, TLAPS

(* TypeOK with one conjunct for each variable. *)
Types ==
  /\ watcher \in {"start", "loop", "auth", "reg", "off"} /\ link \in 0 .. last
  /\ registered \in BOOLEAN /\ locked \in BOOLEAN /\ crossed \in BOOLEAN /\ tries \in 0 .. MaxTries
  /\ worker \in 0 .. last /\ last \in 0 .. MaxConn /\ faults \in 0 .. MaxFaults
  /\ client \in [Conns -> {"none", "open", "closed"}]
  /\ server \in [Conns -> {"none", "open", "closed"}]
  /\ authed \in [Conns -> {"waiting", "yes", "no"}]
  /\ hasId \in [Conns -> BOOLEAN] /\ removed \in [Conns -> BOOLEAN] /\ owns \in [Conns -> BOOLEAN]
  /\ realm \in [sock : 0 .. last, online : BOOLEAN] /\ adding \in 0 .. last
  /\ up \in [Conns -> Seq({"challenge", "register"})]
  /\ down \in [Conns -> Seq({"yes", "no", "registered"})] /\ cut \subseteq 1 .. last

(* One connection at a time: only the newest can be open at the world's    *)
(* end, and it is in the map then; the worker in ConnectionDropped comes   *)
(* from the newest, and while the watcher is inside Connect there is one.  *)
NewestInv ==
  /\ \A k \in Conns : client[k] = "open" => k = last /\ link = k
  /\ \A k \in Conns : client[k] = "none" <=> last < k
  /\ link \in {NoConn, last} /\ worker \in {NoConn, last}
  /\ worker # NoConn => client[worker] = "closed"
  /\ watcher = "start" => last = 0
  /\ watcher \in {"auth", "reg"} => last # 0

(* The logon server's end: of a connection that was made, and not timed    *)
(* out while it is open; nothing is on its way before it is made.          *)
ServerInv ==
  /\ \A k \in Conns : server[k] # "none" => client[k] # "none"
  /\ \A k \in Conns : server[k] = "open" => ~removed[k]
  /\ \A k \in Conns : last < k => down[k] = << >>

(* The realm is online for an open connection, whose server_ids has its id *)
(* or is about to.                                                         *)
RealmInv ==
  realm.online => /\ realm.sock # NoConn
                  /\ ~crossed => /\ server[realm.sock] = "open"
                                 /\ owns[realm.sock] \/ adding = realm.sock

(* The acknowledgement of a registration is on its way over connection k. *)
AckOn(q) == \E i \in 1 .. Len(q) : q[i] = "registered"

(* Acknowledged is the newest connection, and while it is open at the      *)
(* logon server the realm is listed with it.                               *)
AckInv ==
  /\ registered => last # 0
  /\ last # 0 /\ (registered \/ AckOn(down[last])) =>
       /\ server[last] # "none"
       /\ server[last] = "open" /\ ~crossed => realm = [sock |-> last, online |-> TRUE]
  /\ watcher = "loop" /\ link # NoConn => registered

(* The inductive invariant. *)
IInv == Types /\ NewestInv /\ ServerInv /\ RealmInv /\ AckInv

-----------------------------------------------------------------------------
(* Types is TypeOK. *)
LEMMA TypesGive == Types => TypeOK
  BY DEF Types, TypeOK

(* The empty entry of the realm list. *)
LEMMA NoRealmType ==
  ASSUME NEW n \in Nat
  PROVE  NoRealm \in [sock : 0 .. n, online : BOOLEAN]
<1>1. NoConn \in 0 .. n
  BY DEF NoConn
<1> QED
  BY <1>1 DEF NoRealm

(* The bound on failures holds. *)
LEMMA CostsBound ==
  ASSUME Types, NEW b \in BOOLEAN, Costs(b)
  PROVE  faults' \in 0 .. MaxFaults
  BY LinkAssumption DEF Types, Costs

(* What a queue's operations do to the acknowledgement in it. *)
LEMMA EmptyAck == ~AckOn(<< >>)
  BY DEF AckOn

LEMMA AppendAck ==
  ASSUME NEW S, NEW q \in Seq(S), NEW m \in S
  PROVE  /\ Append(q, m) \in Seq(S) /\ Append(q, m) # << >>
         /\ AckOn(Append(q, m)) => AckOn(q) \/ m = "registered"
<1> DEFINE r == Append(q, m)
<1>1. /\ r \in Seq(S) /\ r # << >> /\ Len(r) = Len(q) + 1 /\ Len(q) \in Nat /\ r[Len(q) + 1] = m
      /\ \A i \in 1 .. Len(q) : r[i] = q[i]
  BY AppendProperties
<1> HIDE DEF r
<1>2. AckOn(r) => AckOn(q) \/ m = "registered"
  BY <1>1 DEF AckOn
<1> QED
  BY <1>1, <1>2 DEF r

LEMMA TailAck ==
  ASSUME NEW S, NEW q \in Seq(S), q # << >>
  PROVE  /\ Tail(q) \in Seq(S) /\ Head(q) \in S
         /\ AckOn(Tail(q)) \/ Head(q) = "registered" => AckOn(q)
<1> DEFINE t == Tail(q)
           h == Head(q)
<1>1. /\ h = q[1] /\ h \in S /\ t \in Seq(S)
      /\ Len(t) = Len(q) - 1 /\ Len(q) \in Nat /\ Len(q) > 0
      /\ \A i \in 1 .. Len(q) - 1 : t[i] = q[i + 1]
  BY HeadTailProperties
<1> HIDE DEF t, h
<1>2. \A i \in 1 .. Len(t) : i + 1 \in 1 .. Len(q) /\ t[i] = q[i + 1]
  BY <1>1
<1>3. AckOn(t) \/ h = "registered" => AckOn(q)
  BY <1>1, <1>2 DEF AckOn
<1> QED
  BY <1>1, <1>3 DEF t, h

-----------------------------------------------------------------------------
(* Each action preserves the invariant. *)

(* The watcher gives up. *)
LEMMA GiveUpInv ==
  ASSUME IInv, GiveUp
  PROVE  IInv'
<1>1. Types /\ NewestInv /\ ServerInv /\ RealmInv /\ AckInv
  BY DEF IInv
<1>2. Types'
  <2>1. watcher' \in {"start", "loop", "auth", "reg", "off"}
    BY <1>1, LinkAssumption DEF Types, Conns, NoConn, GiveUp, logonSide, network
  <2> QED
    BY <1>1, <2>1 DEF Types, GiveUp, logonSide, network
<1>3. NewestInv'
  BY <1>1 DEF NewestInv, Types, GiveUp, logonSide, network, Conns, NoConn
<1>4. AckInv'
  BY <1>1 DEF AckInv, Types, GiveUp, logonSide, network, Conns, NoConn
<1>5. ServerInv' /\ RealmInv'
  BY <1>1 DEF ServerInv, RealmInv, GiveUp, logonSide, network, NoRealm
<1> QED
  BY <1>2, <1>3, <1>4, <1>5 DEF IInv

(* No connection is made. *)
LEMMA ConnectFailsInv ==
  ASSUME IInv, ConnectFails
  PROVE  IInv'
<1>1. Types /\ NewestInv /\ ServerInv /\ RealmInv /\ AckInv
  BY DEF IInv
<1>2. Types'
  <2>1. tries' \in 0 .. MaxTries
    BY <1>1, LinkAssumption DEF Types, Conns, NoConn, ConnectFails, MayConnect, AttemptLeft, Costs,
     logonSide, network
  <2>2. faults' \in 0 .. MaxFaults
    BY <1>1, CostsBound DEF ConnectFails, MayConnect, AttemptLeft, logonSide, network, NoConn,
     Expecting
  <2>3. /\ watcher' \in {"start", "loop", "auth", "reg", "off"}
        /\ registered' \in BOOLEAN
    BY <1>1, LinkAssumption DEF Types, Conns, NoConn, ConnectFails, MayConnect, AttemptLeft, Costs,
     logonSide, network
  <2> QED
    BY <1>1, <2>1, <2>2, <2>3 DEF Types, ConnectFails, MayConnect, AttemptLeft, Costs, logonSide,
     network
<1>3. NewestInv'
  BY <1>1 DEF NewestInv, Types, ConnectFails, MayConnect, AttemptLeft, Costs, logonSide, network,
     Conns, NoConn
<1>4. AckInv'
  BY <1>1 DEF AckInv, Types, ConnectFails, MayConnect, AttemptLeft, Costs, logonSide, network,
     Conns, NoConn, NewestInv
<1>5. ServerInv' /\ RealmInv'
  BY <1>1 DEF ServerInv, RealmInv, ConnectFails, MayConnect, AttemptLeft, Costs, logonSide,
     network, NoRealm
<1> QED
  BY <1>2, <1>3, <1>4, <1>5 DEF IInv

(* A new connection: no earlier one is open at this end. *)
LEMMA ConnectInv ==
  ASSUME IInv, Connect
  PROVE  IInv'
<1>1. Types /\ NewestInv /\ ServerInv /\ RealmInv /\ AckInv
  BY DEF IInv
<1>2. Types'
  <2>1. /\ tries' \in 0 .. MaxTries
        /\ last' \in 0 .. MaxConn
        /\ link' \in 0 .. last'
    BY <1>1, LinkAssumption DEF Types, Conns, NoConn, NewestInv, Connect, MayConnect, AttemptLeft,
     Set, Send, logonSide
  <2>2. client' \in [Conns -> {"none", "open", "closed"}]
    BY <1>1, LinkAssumption DEF Types, Conns, NoConn, NewestInv, Connect, MayConnect, AttemptLeft,
     Set, Send, logonSide
  <2>3. up' \in [Conns -> Seq({"challenge", "register"})]
    BY <1>1, AppendAck, TailAck DEF Types, Conns, NoConn, NewestInv, Connect, MayConnect,
     AttemptLeft, Set, Send, logonSide
  <2>4. /\ watcher' \in {"start", "loop", "auth", "reg", "off"}
        /\ locked' \in BOOLEAN
        /\ registered' \in BOOLEAN
    BY <1>1, LinkAssumption DEF Types, Conns, NoConn, NewestInv, Connect, MayConnect, AttemptLeft,
     Set, Send, logonSide
  <2> QED
    BY <1>1, <2>1, <2>2, <2>3, <2>4 DEF Types, Connect, MayConnect, AttemptLeft, Set, Send, logonSide
<1>3. NewestInv'
  BY <1>1 DEF NewestInv, Types, Connect, MayConnect, AttemptLeft, Set, Send, logonSide, Conns,
     NoConn
<1>4. ServerInv'
  BY <1>1 DEF ServerInv, Types, Connect, MayConnect, AttemptLeft, Set, Send, logonSide, Conns,
     NoConn
<1>5. AckInv'
  <2>1. last' \in Conns /\ last < last' /\ last' # 0 /\ ~registered' /\ watcher' = "auth"
    BY <1>1, LinkAssumption DEF Types, Connect, Conns
  <2>2. down'[last'] = << >>
    BY <1>1, <2>1 DEF ServerInv, Connect
  <2> QED
    BY <2>1, <2>2, EmptyAck DEF AckInv
<1>6. RealmInv'
  BY <1>1 DEF RealmInv, Connect, MayConnect, AttemptLeft, Set, Send, logonSide, NoRealm
<1> QED
  BY <1>2, <1>3, <1>4, <1>5, <1>6 DEF IInv

(* The registration is sent over the newest connection. *)
LEMMA AuthenticatedInv ==
  ASSUME IInv, Authenticated
  PROVE  IInv'
<1>1. Types /\ NewestInv /\ ServerInv /\ RealmInv /\ AckInv
  BY DEF IInv
<1>2. Types'
  <2>1. hasId' \in [Conns -> BOOLEAN]
    BY <1>1, LinkAssumption DEF Types, Conns, NoConn, NewestInv, Authenticated, SendUp, Set, Send,
     logonSide
  <2>2. up' \in [Conns -> Seq({"challenge", "register"})]
    BY <1>1, AppendAck, TailAck DEF Types, Conns, NoConn, NewestInv, Authenticated, SendUp, Set,
     Send, logonSide
  <2>3. watcher' \in {"start", "loop", "auth", "reg", "off"}
    BY <1>1, LinkAssumption DEF Types, Conns, NoConn, NewestInv, Authenticated, SendUp, Set, Send,
     logonSide
  <2> QED
    BY <1>1, <2>1, <2>2, <2>3 DEF Types, Authenticated, SendUp, Set, Send, logonSide
<1>3. NewestInv'
  BY <1>1 DEF NewestInv, Types, Authenticated, SendUp, Set, Send, logonSide, Conns, NoConn
<1>4. AckInv'
  BY <1>1 DEF AckInv, Types, Authenticated, SendUp, Set, Send, logonSide, Conns, NoConn
<1>5. ServerInv' /\ RealmInv'
  BY <1>1 DEF ServerInv, RealmInv, Authenticated, SendUp, Set, Send, logonSide, NoRealm
<1> QED
  BY <1>2, <1>3, <1>4, <1>5 DEF IInv

(* Connect fails and closes the newest connection. *)
LEMMA ConnectEndsInv ==
  ASSUME IInv, ConnectEnds
  PROVE  IInv'
<1>1. Types /\ NewestInv /\ ServerInv /\ RealmInv /\ AckInv
  BY DEF IInv
<1>2. Types'
  <2>1. link' \in 0 .. last'
    BY <1>1, LinkAssumption DEF Types, Conns, NoConn, NewestInv, ConnectEnds, TimesOut, Costs, Set,
     logonSide
  <2>2. faults' \in 0 .. MaxFaults
    BY <1>1, CostsBound DEF ConnectEnds, TimesOut, Set, logonSide, NoConn, Expecting
  <2>3. client' \in [Conns -> {"none", "open", "closed"}]
    BY <1>1, LinkAssumption DEF Types, Conns, NoConn, NewestInv, ConnectEnds, TimesOut, Costs, Set,
     logonSide
  <2>4. down' \in [Conns -> Seq({"yes", "no", "registered"})]
    BY <1>1, LinkAssumption DEF Types, Conns, NoConn, NewestInv, ConnectEnds, TimesOut, Costs,
     Set
  <2>5. /\ watcher' \in {"start", "loop", "auth", "reg", "off"}
        /\ locked' \in BOOLEAN
    BY <1>1, LinkAssumption DEF Types, Conns, NoConn, NewestInv, ConnectEnds, TimesOut, Costs, Set,
     logonSide
  <2> QED
    BY <1>1, <2>1, <2>2, <2>3, <2>4, <2>5 DEF Types, ConnectEnds, TimesOut, Costs, Set, logonSide
<1>3. NewestInv'
  BY <1>1 DEF NewestInv, Types, ConnectEnds, TimesOut, Costs, Set, logonSide, Conns, NoConn
<1>4. ServerInv'
  BY <1>1 DEF ServerInv, Types, ConnectEnds, TimesOut, Costs, Set, logonSide, Conns, NoConn
<1>5. AckInv'
  <2>1. last \in Conns /\ ~AckOn(down'[last])
    BY <1>1, EmptyAck DEF Types, NewestInv, ConnectEnds, TimesOut, Set, Conns
  <2> QED
    BY <1>1, <2>1 DEF AckInv, NoConn, Types, ConnectEnds, TimesOut, logonSide
<1>6. RealmInv'
  BY <1>1 DEF RealmInv, ConnectEnds, TimesOut, Costs, Set, logonSide, NoRealm
<1> QED
  BY <1>2, <1>3, <1>4, <1>5, <1>6 DEF IInv

(* Connect succeeds: the newest connection was acknowledged. *)
LEMMA RegisteredInv ==
  ASSUME IInv, Registered
  PROVE  IInv'
<1>1. Types /\ NewestInv /\ ServerInv /\ RealmInv /\ AckInv
  BY DEF IInv
<1>2. Types'
  <2>1. tries' \in 0 .. MaxTries
    BY <1>1, LinkAssumption DEF Types, Conns, NoConn, Registered, logonSide, network
  <2>2. /\ watcher' \in {"start", "loop", "auth", "reg", "off"}
        /\ locked' \in BOOLEAN
    BY <1>1, LinkAssumption DEF Types, Conns, NoConn, Registered, logonSide, network
  <2> QED
    BY <1>1, <2>1, <2>2 DEF Types, Registered, logonSide, network
<1>3. NewestInv'
  BY <1>1 DEF NewestInv, Types, Registered, logonSide, network, Conns, NoConn
<1>4. AckInv'
  BY <1>1 DEF AckInv, Types, Registered, logonSide, network, Conns, NoConn
<1>5. ServerInv' /\ RealmInv'
  BY <1>1 DEF ServerInv, RealmInv, Registered, logonSide, network, NoRealm
<1> QED
  BY <1>2, <1>3, <1>4, <1>5 DEF IInv

(* UpdateSockets closes the connection in the map. *)
LEMMA UpdateSocketsInv ==
  ASSUME IInv, UpdateSockets
  PROVE  IInv'
<1>1. Types /\ NewestInv /\ ServerInv /\ RealmInv /\ AckInv
  BY DEF IInv
<1>2. Types'
  <2>1. link' \in 0 .. last'
    BY <1>1, LinkAssumption DEF Types, Conns, NoConn, UpdateSockets, Costs, Set, logonSide
  <2>2. faults' \in 0 .. MaxFaults
    BY <1>1, CostsBound DEF UpdateSockets, Set, logonSide, NoConn, Expecting
  <2>3. /\ client' \in [Conns -> {"none", "open", "closed"}]
        /\ hasId' \in [Conns -> BOOLEAN]
    BY <1>1, LinkAssumption DEF Types, Conns, NoConn, UpdateSockets, Costs, Set, logonSide
  <2>4. down' \in [Conns -> Seq({"yes", "no", "registered"})]
    BY <1>1, LinkAssumption DEF Types, Conns, NoConn, UpdateSockets, Set
  <2> QED
    BY <1>1, <2>1, <2>2, <2>3, <2>4 DEF Types, UpdateSockets, Costs, Set, logonSide
<1>3. NewestInv'
  BY <1>1 DEF NewestInv, Types, UpdateSockets, Costs, Set, logonSide, Conns, NoConn
<1>4. ServerInv'
  BY <1>1 DEF ServerInv, Types, UpdateSockets, Costs, Set, logonSide, Conns, NoConn
<1>5. AckInv'
  BY <1>1 DEF AckInv, Types, UpdateSockets, Costs, Set, logonSide, Conns, NoConn
<1>6. RealmInv'
  BY <1>1 DEF RealmInv, UpdateSockets, Costs, Set, logonSide, NoRealm
<1> QED
  BY <1>2, <1>3, <1>4, <1>5, <1>6 DEF IInv

(* The answer to the challenge is taken off the connection. *)
LEMMA HandleAuthResponseInv ==
  ASSUME IInv, NEW k \in Conns, HandleAuthResponse(k)
  PROVE  IInv'
<1>1. Types /\ NewestInv /\ ServerInv /\ RealmInv /\ AckInv
  BY DEF IInv
<1>2. Types'
  <2>1. authed' \in [Conns -> {"waiting", "yes", "no"}]
    BY <1>1, LinkAssumption DEF Types, Conns, NoConn, HandleAuthResponse, Receives, Set, logonSide
  <2>2. down' \in [Conns -> Seq({"yes", "no", "registered"})]
    BY <1>1, AppendAck, TailAck DEF Types, Conns, NoConn, HandleAuthResponse, Receives, Set,
     logonSide
  <2> QED
    BY <1>1, <2>1, <2>2 DEF Types, HandleAuthResponse, Receives, Set, logonSide
<1>3. ServerInv'
  BY <1>1 DEF ServerInv, Types, HandleAuthResponse, Receives, Set, logonSide, Conns, NoConn
<1>4. AckInv'
  <2>1. ASSUME last # 0, AckOn(down'[last])
        PROVE  AckOn(down[last])
    <3>1. last \in Conns /\ down[k] # << >> /\ down' = [down EXCEPT ![k] = Tail(@)]
      BY <1>1, <2>1 DEF Types, Conns, HandleAuthResponse, Receives
    <3> QED
      BY <1>1, <2>1, <3>1, TailAck DEF Types
  <2> QED
    BY <1>1, <2>1 DEF AckInv, HandleAuthResponse, logonSide
<1>5. NewestInv' /\ RealmInv'
  BY <1>1 DEF NewestInv, RealmInv, HandleAuthResponse, Receives, Set, logonSide, NoRealm
<1> QED
  BY <1>2, <1>3, <1>4, <1>5 DEF IInv

(* The acknowledgement comes over the only open connection. *)
LEMMA AdditionAckInv ==
  ASSUME IInv, NEW k \in Conns, AdditionAck(k)
  PROVE  IInv'
<1>1. Types /\ NewestInv /\ ServerInv /\ RealmInv /\ AckInv
  BY DEF IInv
<1>2. Types'
  <2>1. down' \in [Conns -> Seq({"yes", "no", "registered"})]
    BY <1>1, AppendAck, TailAck DEF Types, Conns, NoConn, AdditionAck, Receives, logonSide
  <2>2. registered' \in BOOLEAN
    BY <1>1, LinkAssumption DEF Types, Conns, NoConn, AdditionAck, Receives, logonSide
  <2> QED
    BY <1>1, <2>1, <2>2 DEF Types, AdditionAck, Receives, logonSide
<1>3. ServerInv'
  BY <1>1 DEF ServerInv, Types, AdditionAck, Receives, logonSide, Conns, NoConn
<1>4. AckInv'
  <2>1. last \in Conns /\ k = last /\ last # 0 /\ down[k] # << >> /\ Head(down[k]) = "registered"
    BY <1>1 DEF Types, NewestInv, AdditionAck, Receives, Conns
  <2>2. AckOn(down[last])
    BY <1>1, <2>1, TailAck DEF Types
  <2> QED
    BY <1>1, <2>1, <2>2 DEF AckInv, Types, AdditionAck, logonSide
<1>5. NewestInv' /\ RealmInv'
  BY <1>1 DEF NewestInv, RealmInv, AdditionAck, Receives, logonSide, NoRealm
<1> QED
  BY <1>2, <1>3, <1>4, <1>5 DEF IInv

(* The newest connection is found closed. *)
LEMMA HangUpInv ==
  ASSUME IInv, NEW k \in Conns, HangUp(k)
  PROVE  IInv'
<1>1. Types /\ NewestInv /\ ServerInv /\ RealmInv /\ AckInv
  BY DEF IInv
<1>2. Types'
  <2>1. worker' \in 0 .. last'
    BY <1>1, LinkAssumption DEF Types, Conns, NoConn, NewestInv, HangUp, Set, logonSide
  <2>2. client' \in [Conns -> {"none", "open", "closed"}]
    BY <1>1, LinkAssumption DEF Types, Conns, NoConn, NewestInv, HangUp, Set, logonSide
  <2>3. down' \in [Conns -> Seq({"yes", "no", "registered"})]
    BY <1>1, LinkAssumption DEF Types, Conns, NoConn, NewestInv, HangUp, Set
  <2> QED
    BY <1>1, <2>1, <2>2, <2>3 DEF Types, HangUp, Set, logonSide
<1>3. NewestInv'
  BY <1>1 DEF NewestInv, Types, HangUp, Set, logonSide, Conns, NoConn
<1>4. ServerInv'
  BY <1>1 DEF ServerInv, Types, HangUp, Set, logonSide, Conns, NoConn
<1>5. AckInv'
  <2>1. last \in Conns /\ k = last /\ ~AckOn(down'[last])
    BY <1>1, EmptyAck DEF Types, NewestInv, HangUp, Set, Conns
  <2> QED
    BY <1>1, <2>1 DEF AckInv, Types, HangUp, logonSide
<1>6. RealmInv'
  BY <1>1 DEF RealmInv, HangUp, Set, logonSide, NoRealm
<1> QED
  BY <1>2, <1>3, <1>4, <1>5, <1>6 DEF IInv

(* The map's entry goes, and nothing open is in it. *)
LEMMA ConnectionDroppedInv ==
  ASSUME IInv, ConnectionDropped
  PROVE  IInv'
<1>1. Types /\ NewestInv /\ ServerInv /\ RealmInv /\ AckInv
  BY DEF IInv
<1>2. Types'
  <2>1. /\ link' \in 0 .. last'
        /\ worker' \in 0 .. last'
    BY <1>1, LinkAssumption DEF Types, Conns, NoConn, ConnectionDropped, logonSide, network
  <2> QED
    BY <1>1, <2>1 DEF Types, ConnectionDropped, logonSide, network
<1>3. NewestInv'
  BY <1>1 DEF NewestInv, Types, ConnectionDropped, logonSide, network, Conns, NoConn
<1>4. AckInv'
  BY <1>1 DEF AckInv, Types, ConnectionDropped, logonSide, network, Conns, NoConn
<1>5. ServerInv' /\ RealmInv'
  BY <1>1 DEF ServerInv, RealmInv, ConnectionDropped, logonSide, network, NoRealm
<1> QED
  BY <1>2, <1>3, <1>4, <1>5 DEF IInv

(* The logon server accepts a connection. *)
LEMMA OnConnectInv ==
  ASSUME IInv, NEW k \in Conns, OnConnect(k)
  PROVE  IInv'
<1>1. Types /\ NewestInv /\ ServerInv /\ RealmInv /\ AckInv
  BY DEF IInv
<1>2. Types'
  <2>1. /\ server' \in [Conns -> {"none", "open", "closed"}]
        /\ removed' \in [Conns -> BOOLEAN]
    BY <1>1, LinkAssumption DEF Types, Conns, NoConn, OnConnect, Set, worldSide, network
  <2> QED
    BY <1>1, <2>1 DEF Types, OnConnect, Set, worldSide, network
<1>3. ServerInv'
  BY <1>1 DEF ServerInv, Types, OnConnect, Set, worldSide, network, Conns, NoConn
<1>4. RealmInv'
  BY <1>1 DEF RealmInv, Types, OnConnect, Set, worldSide, network, Conns, NoConn, NoRealm
<1>5. AckInv'
  BY <1>1 DEF AckInv, Types, OnConnect, Set, worldSide, network, Conns, NoConn
<1>6. NewestInv'
  BY <1>1 DEF NewestInv, OnConnect, Set, worldSide, network
<1> QED
  BY <1>2, <1>3, <1>4, <1>5, <1>6 DEF IInv

(* The challenge is answered: no acknowledgement. *)
LEMMA HandleAuthChallengeInv ==
  ASSUME IInv, NEW k \in Conns, HandleAuthChallenge(k)
  PROVE  IInv'
<1>1. Types /\ NewestInv /\ ServerInv /\ RealmInv /\ AckInv
  BY DEF IInv
<1>2. Types'
  <2>1. faults' \in 0 .. MaxFaults
    BY <1>1, CostsBound DEF HandleAuthChallenge, Handles, SendDown, Send, worldSide, logonSide,
     NoConn, Expecting
  <2>2. /\ up' \in [Conns -> Seq({"challenge", "register"})]
        /\ down' \in [Conns -> Seq({"yes", "no", "registered"})]
    BY <1>1, AppendAck, TailAck DEF Types, Conns, NoConn, HandleAuthChallenge, Handles, SendDown,
     Send, Costs, worldSide, logonSide
  <2> QED
    BY <1>1, <2>1, <2>2 DEF Types, HandleAuthChallenge, Handles, SendDown, Send, Costs, worldSide,
     logonSide
<1>3. ServerInv'
  <2>1. \A j \in Conns : last < j => down'[j] = << >>
    BY <1>1 DEF Types, ServerInv, NewestInv, HandleAuthChallenge, SendDown, Send
  <2> QED
    BY <1>1, <2>1 DEF ServerInv, HandleAuthChallenge, worldSide, logonSide
<1>4. AckInv'
  <2>1. ASSUME last # 0, AckOn(down'[last])
        PROVE  AckOn(down[last])
    <3>1. last \in Conns
      BY <1>1, <2>1 DEF Types, Conns
    <3>2. \/ UNCHANGED down
          \/ \E m \in {"yes", "no"} : down' = [down EXCEPT ![k] = Append(@, m)]
      BY DEF HandleAuthChallenge, SendDown, Send
    <3>3. ASSUME NEW m \in {"yes", "no"}, down' = [down EXCEPT ![k] = Append(@, m)]
          PROVE  AckOn(down[last])
      BY <1>1, <2>1, <3>1, <3>3, AppendAck DEF Types
    <3> QED
      BY <2>1, <3>2, <3>3
  <2> QED
    BY <1>1, <2>1 DEF AckInv, HandleAuthChallenge, worldSide, logonSide
<1>5. NewestInv' /\ RealmInv'
  BY <1>1 DEF NewestInv, RealmInv, HandleAuthChallenge, Handles, SendDown, Send, Costs, worldSide,
     logonSide, NoRealm
<1> QED
  BY <1>2, <1>3, <1>4, <1>5 DEF IInv

(* A registration: of the newest connection, or crossed, or the realm was  *)
(* not listed with the newest.                                             *)
LEMMA HandleRegisterInv ==
  ASSUME IInv, NEW k \in Conns, HandleRegister(k)
  PROVE  IInv'
<1>1. Types /\ NewestInv /\ ServerInv /\ RealmInv /\ AckInv
  BY DEF IInv
<1>2. Types'
  <2>1. owns' \in [Conns -> BOOLEAN]
    BY <1>1, LinkAssumption DEF Types, Conns, NoConn, NewestInv, ServerInv, HandleRegister, Handles,
     Replaced, SendDown, Send, worldSide
  <2>2. /\ up' \in [Conns -> Seq({"challenge", "register"})]
        /\ down' \in [Conns -> Seq({"yes", "no", "registered"})]
    BY <1>1, AppendAck, TailAck DEF Types, Conns, NoConn, NewestInv, ServerInv, HandleRegister,
     Handles, Replaced, SendDown, Send, worldSide
  <2>3. /\ crossed' \in BOOLEAN
        /\ realm' \in [sock : 0 .. last', online : BOOLEAN]
        /\ adding' \in 0 .. last'
    BY <1>1, LinkAssumption DEF Types, Conns, NoConn, NewestInv, ServerInv, HandleRegister, Handles,
     Replaced, SendDown, Send, worldSide, NoRealm
  <2> QED
    BY <1>1, <2>1, <2>2, <2>3 DEF Types, HandleRegister, Handles, Replaced, SendDown, Send, worldSide
<1>3. ServerInv'
  <2>1. \A j \in Conns : last < j => down'[j] = << >>
    BY <1>1 DEF Types, ServerInv, NewestInv, HandleRegister, SendDown, Send
  <2> QED
    BY <1>1, <2>1 DEF ServerInv, HandleRegister, worldSide
<1>4. RealmInv'
  BY <1>1 DEF RealmInv, Types, HandleRegister, Handles, Replaced, SendDown, Send, worldSide, Conns,
     NoConn, NoRealm
<1>5. AckInv'
  <2>1. k \in 1 .. last /\ server[k] = "open"
    BY <1>1 DEF Types, NewestInv, ServerInv, HandleRegister, Handles, Conns
  <2>2. /\ realm' = [sock |-> k, online |-> TRUE] /\ (crossed \/ realm.sock > k => crossed')
        /\ UNCHANGED <<server, registered, last, watcher, link>>
    BY DEF HandleRegister, Replaced, worldSide
  <2>3. CASE k = last
    BY <1>1, <2>1, <2>2, <2>3 DEF AckInv
  <2>4. CASE k # last
    <3>1. k < last /\ last \in Conns /\ UNCHANGED down
      BY <1>1, <2>1, <2>4 DEF Types, Conns, NewestInv, HandleRegister, SendDown
    <3>2. realm = [sock |-> last, online |-> TRUE] => crossed'
      <4>1. realm = [sock |-> last, online |-> TRUE] => realm.sock = last
        OBVIOUS
      <4>2. last > k
        BY <1>1, <2>1, <3>1 DEF Types
      <4> QED
        BY <2>2, <4>1, <4>2
    <3> QED
      BY <1>1, <2>2, <3>1, <3>2 DEF AckInv, Types
  <2> QED
    BY <2>3, <2>4
<1>6. NewestInv'
  BY <1>1 DEF NewestInv, HandleRegister, Handles, Replaced, SendDown, Send, worldSide
<1> QED
  BY <1>2, <1>3, <1>4, <1>5, <1>6 DEF IInv

(* server_ids gets the id. *)
LEMMA InsertIdInv ==
  ASSUME IInv, InsertId
  PROVE  IInv'
<1>1. Types /\ NewestInv /\ ServerInv /\ RealmInv /\ AckInv
  BY DEF IInv
<1>2. Types'
  <2>1. owns' \in [Conns -> BOOLEAN]
    BY <1>1, LinkAssumption DEF Types, Conns, NoConn, InsertId, Set, worldSide, network
  <2>2. adding' \in 0 .. last'
    BY <1>1, LinkAssumption DEF Types, Conns, NoConn, InsertId, Set, worldSide, network
  <2> QED
    BY <1>1, <2>1, <2>2 DEF Types, InsertId, Set, worldSide, network
<1>3. RealmInv'
  <2>1. adding \in Conns /\ owns' = [owns EXCEPT ![adding] = TRUE]
    BY <1>1, LinkAssumption DEF Types, InsertId, Set, NoConn, Conns
  <2>2. realm.online => realm.sock \in Conns
    BY <1>1, LinkAssumption DEF Types, RealmInv, NoConn, Conns
  <2> QED
    BY <1>1, <2>1, <2>2 DEF RealmInv, Types, InsertId
<1>4. NewestInv' /\ ServerInv' /\ AckInv'
  BY <1>1 DEF NewestInv, ServerInv, AckInv, InsertId, Set, worldSide, network
<1> QED
  BY <1>2, <1>3, <1>4 DEF IInv

(* The end of a connection takes its realm offline. *)
LEMMA OnDisconnectInv ==
  ASSUME IInv, NEW k \in Conns, OnDisconnect(k)
  PROVE  IInv'
<1>1. Types /\ NewestInv /\ ServerInv /\ RealmInv /\ AckInv
  BY DEF IInv
<1>2. Types'
  <2>1. server' \in [Conns -> {"none", "open", "closed"}]
    BY <1>1, LinkAssumption DEF Types, Conns, NoConn, OnDisconnect, EndOfConnection, Offline, Set,
     worldSide
  <2>2. up' \in [Conns -> Seq({"challenge", "register"})]
    BY <1>1, AppendAck, TailAck DEF Types, Conns, NoConn, OnDisconnect, EndOfConnection, Offline,
     Set, worldSide
  <2>3. realm' \in [sock : 0 .. last', online : BOOLEAN]
    <3>1. (realm' = realm \/ realm' = NoRealm) /\ last' = last /\ last \in Nat
      BY <1>1, LinkAssumption DEF Types, OnDisconnect, EndOfConnection, Offline
    <3> QED
      BY <1>1, <3>1, NoRealmType, Zenon DEF Types
  <2> QED
    BY <1>1, <2>1, <2>2, <2>3 DEF Types, OnDisconnect, EndOfConnection, Offline, Set, worldSide
<1>3. ServerInv'
  BY <1>1 DEF ServerInv, Types, OnDisconnect, EndOfConnection, Offline, Set, worldSide, Conns,
     NoConn
<1>4. RealmInv'
  <2>1. realm.online => realm.sock \in Conns /\ realm.sock # NoConn
    BY <1>1, LinkAssumption DEF Types, RealmInv, NoConn, Conns
  <2>2. realm' = realm \/ realm' = NoRealm
    BY DEF OnDisconnect, EndOfConnection, Offline
  <2>3. server' = [server EXCEPT ![k] = "closed"] /\ UNCHANGED <<owns, adding>>
    BY DEF OnDisconnect, EndOfConnection, Set
  <2>4. realm.online /\ ~crossed' /\ realm.sock = k => realm' = NoRealm
    BY <1>1, <2>1 DEF RealmInv, ServerInv, Types, OnDisconnect, EndOfConnection, Offline
  <2>5. crossed => crossed'
    BY DEF OnDisconnect, EndOfConnection
  <2>6. ~NoRealm.online
    BY DEF NoRealm
  <2> QED
    BY <1>1, <2>1, <2>2, <2>3, <2>4, <2>5, <2>6 DEF RealmInv, Types
<1>5. AckInv'
  BY <1>1 DEF AckInv, Types, OnDisconnect, EndOfConnection, Offline, Set, worldSide, Conns, NoConn
<1>6. NewestInv'
  BY <1>1 DEF NewestInv, OnDisconnect, EndOfConnection, Offline, Set, worldSide
<1> QED
  BY <1>2, <1>3, <1>4, <1>5, <1>6 DEF IInv

(* TimeoutSockets does so too, or crosses HandleRegister. *)
LEMMA TimeoutSocketsInv ==
  ASSUME IInv, NEW k \in Conns, TimeoutSockets(k)
  PROVE  IInv'
<1>1. Types /\ NewestInv /\ ServerInv /\ RealmInv /\ AckInv
  BY DEF IInv
<1>2. Types'
  <2>1. faults' \in 0 .. MaxFaults
    BY <1>1, CostsBound DEF TimeoutSockets, Offline, Set, worldSide, NoConn, Expecting
  <2>2. /\ server' \in [Conns -> {"none", "open", "closed"}]
        /\ removed' \in [Conns -> BOOLEAN]
    BY <1>1, LinkAssumption DEF Types, Conns, NoConn, TimeoutSockets, Offline, Costs, Set, worldSide
  <2>3. up' \in [Conns -> Seq({"challenge", "register"})]
    BY <1>1, AppendAck, TailAck DEF Types, Conns, NoConn, TimeoutSockets, Offline, Costs, Set,
     worldSide
  <2>4. /\ crossed' \in BOOLEAN
        /\ realm' \in [sock : 0 .. last', online : BOOLEAN]
    BY <1>1, LinkAssumption DEF Types, Conns, NoConn, TimeoutSockets, Offline, Costs, Set, worldSide,
     NoRealm
  <2> QED
    BY <1>1, <2>1, <2>2, <2>3, <2>4 DEF Types, TimeoutSockets, Offline, Costs, Set, worldSide
<1>3. ServerInv'
  BY <1>1 DEF ServerInv, Types, TimeoutSockets, Offline, Costs, Set, worldSide, Conns, NoConn
<1>4. RealmInv'
  BY <1>1 DEF RealmInv, Types, TimeoutSockets, Offline, Costs, Set, worldSide, Conns, NoConn,
     NoRealm
<1>5. AckInv'
  <2>1. /\ server' = [server EXCEPT ![k] = "closed"] /\ (crossed => crossed') /\ server[k] = "open"
        /\ UNCHANGED <<registered, last, down, watcher, link>>
    BY DEF TimeoutSockets, Set, worldSide
  <2>2. realm.sock # k => realm' = realm
    BY DEF TimeoutSockets, Offline
  <2> QED
    BY <1>1, <2>1, <2>2 DEF AckInv, Types
<1>6. NewestInv'
  BY <1>1 DEF NewestInv, TimeoutSockets, Offline, Costs, Set, worldSide
<1> QED
  BY <1>2, <1>3, <1>4, <1>5, <1>6 DEF IInv

(* The network breaks a connection. *)
LEMMA BreakInv ==
  ASSUME IInv, NEW k \in Conns, Break(k)
  PROVE  IInv'
<1>1. Types /\ NewestInv /\ ServerInv /\ RealmInv /\ AckInv
  BY DEF IInv
<1>2. Types'
  <2>1. faults' \in 0 .. MaxFaults
    BY <1>1, CostsBound DEF Break, Set, worldSide, logonSide, NoConn, Expecting
  <2>2. /\ up' \in [Conns -> Seq({"challenge", "register"})]
        /\ down' \in [Conns -> Seq({"yes", "no", "registered"})]
    BY <1>1, AppendAck, TailAck DEF Types, Conns, NoConn, NewestInv, Break, Costs, Set, worldSide,
     logonSide
  <2>3. cut' \subseteq 1 .. last'
    BY <1>1, LinkAssumption DEF Types, Conns, NoConn, NewestInv, Break, Costs, Set, worldSide,
     logonSide
  <2> QED
    BY <1>1, <2>1, <2>2, <2>3 DEF Types, Break, Costs, Set, worldSide, logonSide
<1>3. ServerInv'
  BY <1>1 DEF ServerInv, Types, Break, Costs, Set, worldSide, logonSide, Conns, NoConn
<1>4. AckInv'
  <2>1. AckOn(down'[last]) /\ last # 0 => AckOn(down[last])
    BY <1>1, EmptyAck DEF Types, NewestInv, Break, Set, Conns
  <2> QED
    BY <1>1, <2>1 DEF AckInv, Break, worldSide, logonSide
<1>5. NewestInv' /\ RealmInv'
  BY <1>1 DEF NewestInv, RealmInv, Break, Costs, Set, worldSide, logonSide, NoRealm
<1> QED
  BY <1>2, <1>3, <1>4, <1>5 DEF IInv

-----------------------------------------------------------------------------
(* The program starts in it ... *)
LEMMA InitInv == Init => IInv
<1> SUFFICES ASSUME Init
             PROVE  IInv
  OBVIOUS
<1>1. Types
  <2>1. 0 \in 0 .. MaxConn /\ 0 \in 0 .. MaxFaults /\ 0 \in 0 .. MaxTries /\ 0 \in 0 .. 0
    BY LinkAssumption
  <2>2. realm \in [sock : 0 .. last, online : BOOLEAN]
    BY NoRealmType DEF Init
  <2>3. up \in [Conns -> Seq({"challenge", "register"})]
    BY DEF Init
  <2>4. down \in [Conns -> Seq({"yes", "no", "registered"})]
    BY DEF Init
  <2>5. /\ client \in [Conns -> {"none", "open", "closed"}]
        /\ server \in [Conns -> {"none", "open", "closed"}]
        /\ authed \in [Conns -> {"waiting", "yes", "no"}]
        /\ hasId \in [Conns -> BOOLEAN] /\ removed \in [Conns -> BOOLEAN] /\ owns \in [Conns -> BOOLEAN]
    BY DEF Init
  <2>6. /\ watcher \in {"start", "loop", "auth", "reg", "off"} /\ link \in 0 .. last
        /\ registered \in BOOLEAN /\ locked \in BOOLEAN /\ crossed \in BOOLEAN
        /\ tries \in 0 .. MaxTries /\ worker \in 0 .. last /\ last \in 0 .. MaxConn
        /\ faults \in 0 .. MaxFaults /\ adding \in 0 .. last /\ cut \subseteq 1 .. last
    BY <2>1 DEF Init, NoConn
  <2> QED
    BY <2>2, <2>3, <2>4, <2>5, <2>6 DEF Types
<1>2. NewestInv /\ ServerInv /\ RealmInv /\ AckInv
  BY DEF Init, NewestInv, ServerInv, RealmInv, AckInv, NoRealm, NoConn, Conns
<1> QED
  BY <1>1, <1>2 DEF IInv

(* ... and stays there. *)
LEMMA NextInv == IInv /\ [Next]_vars => IInv'
<1> SUFFICES ASSUME IInv, [Next]_vars
             PROVE  IInv'
  OBVIOUS
<1>1. CASE Watcher \/ ConnectFails \/ ConnectEnds \/ UpdateSockets
  BY <1>1, GiveUpInv, ConnectInv, AuthenticatedInv, RegisteredInv, ConnectFailsInv, ConnectEndsInv,
     UpdateSocketsInv DEF Watcher
<1>2. CASE WorldWorker
  BY <1>2, ConnectionDroppedInv, HandleAuthResponseInv, AdditionAckInv, HangUpInv DEF WorldWorker
<1>3. CASE LogonWorker
  BY <1>3, InsertIdInv, OnConnectInv, HandleAuthChallengeInv, HandleRegisterInv, OnDisconnectInv
     DEF LogonWorker
<1>4. CASE \E k \in Conns : TimeoutSockets(k) \/ Break(k)
  BY <1>4, TimeoutSocketsInv, BreakInv
<1>5. CASE UNCHANGED vars
  BY <1>5 DEF vars, worldSide, logonSide, network, IInv, Types, NewestInv, ServerInv, RealmInv,
              AckInv
<1> QED
  BY <1>1, <1>2, <1>3, <1>4, <1>5 DEF Next

(* The inductive invariant holds in every reachable state. *)
THEOREM Invariant == Spec => []IInv
  BY InitInv, NextInv, PTL DEF Spec

(* Every component keeps its type; the map never holds a connection that   *)
(* was not made, and the attempts stay within their bound.                 *)
THEOREM TypeCorrect == Spec => []TypeOK
<1>1. IInv => TypeOK
  BY TypesGive DEF IInv
<1> QED
  BY <1>1, Invariant, PTL

(* Every end of a connection, by the logon server's socket worker or by    *)
(* TimeoutSockets, takes the realm of that connection offline.             *)
THEOREM OnlineHasConnection == Spec => []OnlineIsAlive
<1>1. IInv => OnlineIsAlive
  BY DEF IInv, RealmInv, OnlineIsAlive
<1> QED
  BY <1>1, Invariant, PTL

(* A world server that takes itself for linked is listed online with the   *)
(* connection it uses, whatever became of the earlier ones.                *)
THEOREM LinkedIsListed == Spec => []LinkedIsListedInOrder
<1>1. IInv => LinkedIsListedInOrder
  <2> SUFFICES ASSUME IInv, Linked, ~crossed
               PROVE  realm = [sock |-> link, online |-> TRUE]
    BY DEF LinkedIsListedInOrder
  <2>1. link = last /\ last # 0 /\ registered
    BY DEF IInv, NewestInv, AckInv, Linked, NoConn
  <2> QED
    BY <2>1 DEF IInv, AckInv, Linked, Open
<1> QED
  BY <1>1, Invariant, PTL
=============================================================================
