----------------------------- MODULE RealmLink -----------------------------
(***************************************************************************)
(* How a world server gets its realm listed by the logon server and keeps  *)
(* it listed: LogonCommHandler and LogonCommClientSocket on one side,      *)
(* LogonCommServerSocket and InformationCore on the other.                 *)
(*                                                                         *)
(* Four threads act.  World server: the watcher (Connect, UpdateSockets)   *)
(* and the socket worker.  Logon server: its socket worker and the timer   *)
(* that calls TimeoutSockets.  Connections are numbered in the order they  *)
(* are made; each carries messages in order, and nothing orders two of     *)
(* them.  Pings are not messages here: a ping or a pong may be overdue.    *)
(* One world server, one realm.                                            *)
(***************************************************************************)
EXTENDS Integers, Sequences

CONSTANTS MaxConn,    \* bound: connections made
          MaxFaults,  \* bound: failures of the network and answers that are late
          MaxTries    \* the attempts of Connect before it asks for a restart (25)

ASSUME LinkAssumption == MaxConn \in Nat /\ MaxFaults \in Nat /\ MaxTries \in Nat

Conns == 1 .. MaxConn
NoConn == 0

VARIABLES watcher,     \* where the watcher is: start, loop, auth, reg, off
          link,        \* logons[server]
          registered,  \* server->Registered
          tries,       \* ReConCounter
          locked,      \* mapLock is held through Connect
          worker,      \* the connection whose ConnectionDropped waits for mapLock
          client,      \* the world's end of each connection: none, open, closed
          authed,      \* authenticated: waiting, yes, no
          hasId,       \* _id # 0
          server,      \* the logon's end: none, open, closed
          removed,     \* removed
          realm,       \* the entry of m_realms: its ServerSocket, and whether it is online
          owns,        \* whether server_ids has the id of that entry
          adding,      \* the connection whose HandleRegister has not inserted the id yet
          up, down,    \* messages on their way to the logon server and back
          cut,         \* connections the network has broken
          last,        \* connections made so far
          faults,
          crossed      \* history: a REGISTER handled after that of a later connection,
                       \* or while its connection was timed out

worldSide == <<watcher, link, registered, tries, locked, worker, client, authed, hasId>>
logonSide == <<server, removed, realm, owns, adding>>
network == <<up, down, cut, last>>
vars == <<worldSide, logonSide, network, faults, crossed>>

NoRealm == [sock |-> NoConn, online |-> FALSE]
Set(f, k, v) == [f EXCEPT ![k] = v]
Send(q, k, m) == [q EXCEPT ![k] = Append(@, m)]

(* A failure costs one of MaxFaults, unless it had to come. *)
Costs(k) == IF k THEN faults < MaxFaults /\ faults' = faults + 1 ELSE UNCHANGED faults

Init ==
  /\ watcher = "start" /\ link = NoConn /\ registered = FALSE /\ tries = 0 /\ locked = FALSE
  /\ worker = NoConn
  /\ client = [k \in Conns |-> "none"] /\ authed = [k \in Conns |-> "waiting"]
  /\ hasId = [k \in Conns |-> FALSE]
  /\ server = [k \in Conns |-> "none"] /\ removed = [k \in Conns |-> TRUE]
  /\ realm = NoRealm /\ owns = [k \in Conns |-> FALSE] /\ adding = NoConn
  /\ up = [k \in Conns |-> << >>] /\ down = [k \in Conns |-> << >>] /\ cut = {} /\ last = 0
  /\ faults = 0 /\ crossed = FALSE

-----------------------------------------------------------------------------
(* The watcher.  Connect is called from ConnectAll, without mapLock, and   *)
(* then from UpdateSockets, which holds it until Connect returns.          *)

(* Mutant: UpdateSockets does not try again. *)
MayConnectOnce == watcher = "start"

(* Before every pass but the first the watcher sleeps three seconds with   *)
(* mapLock free, and a worker that was waiting for it has had it.          *)
MayConnect == watcher = "start" \/ (watcher = "loop" /\ link = NoConn /\ worker = NoConn)

(* Mutant: one attempt too many. *)
AttemptLeftOneMore == tries <= MaxTries

AttemptLeft == tries < MaxTries

(* Too many attempts: a restart is asked for, and nothing else is tried. *)
GiveUp ==
  /\ MayConnect /\ ~AttemptLeft
  /\ watcher' = "off"
  /\ UNCHANGED <<link, registered, tries, locked, worker, client, authed, hasId, logonSide,
                 network, faults, crossed>>

ConnectFails ==
  /\ MayConnect /\ AttemptLeft /\ Costs(TRUE)
  /\ tries' = tries + 1 /\ registered' = FALSE /\ watcher' = "loop"
  /\ UNCHANGED <<link, locked, worker, client, authed, hasId, logonSide, network, crossed>>

Connect ==
  /\ MayConnect /\ AttemptLeft /\ last < MaxConn
  /\ tries' = tries + 1 /\ registered' = FALSE
  /\ last' = last + 1 /\ link' = last'
  /\ client' = Set(client, last', "open") /\ up' = Send(up, last', "challenge")
  /\ locked' = (watcher = "loop") /\ watcher' = "auth"
  /\ UNCHANGED <<worker, authed, hasId, logonSide, down, cut, faults, crossed>>

(* SendPacket does nothing on a closed connection. *)
SendUp(k, m) == up' = IF client[k] = "open" /\ k \notin cut THEN Send(up, k, m) ELSE up

(* The connection Connect works on: the newest. *)
Authenticated ==
  /\ watcher = "auth" /\ authed[last] = "yes"
  /\ hasId' = Set(hasId, last, TRUE) /\ SendUp(last, "register")
  /\ watcher' = "reg"
  /\ UNCHANGED <<link, registered, tries, locked, worker, client, authed, logonSide, down, cut,
                 last, faults, crossed>>

(* Whether the answer Connect waits for may still come. *)
Expecting == client[last] = "open" /\ server[last] # "closed" /\ last \notin cut /\ worker = NoConn

(* Mutant: Connect waits for the acknowledgement as long as it takes. *)
TimesOutInAuth == watcher = "auth" /\ authed[last] # "yes"

(* Authentication failed or timed out, or the registration timed out:      *)
(* disconnect.  The OnDisconnect this calls finds the entry empty.         *)
TimesOut == (watcher = "auth" /\ authed[last] # "yes") \/ (watcher = "reg" /\ ~registered)

ConnectEnds ==
  /\ TimesOut /\ Costs(authed[last] # "no" /\ Expecting)
  /\ link' = NoConn /\ client' = Set(client, last, "closed") /\ down' = Set(down, last, << >>)
  /\ watcher' = "loop" /\ locked' = FALSE
  /\ UNCHANGED <<registered, tries, worker, authed, hasId, logonSide, up, cut, last, crossed>>

Registered ==
  /\ watcher = "reg" /\ registered
  /\ tries' = 0 /\ watcher' = "loop" /\ locked' = FALSE
  /\ UNCHANGED <<link, registered, worker, client, authed, hasId, logonSide, network, faults,
                 crossed>>

(* UpdateSockets finds its connection closed, or its pong overdue. *)
UpdateSockets ==
  /\ watcher = "loop" /\ link # NoConn
  /\ Costs(client[link] = "open" /\ server[link] = "open" /\ link \notin cut)
  /\ link' = NoConn /\ hasId' = Set(hasId, link, FALSE)
  /\ client' = Set(client, link, "closed") /\ down' = Set(down, link, << >>)
  /\ UNCHANGED <<watcher, registered, tries, locked, worker, authed, logonSide, up, cut, last,
                 crossed>>

-----------------------------------------------------------------------------
(* The world's socket worker. *)

Receives(k, m) ==
  /\ worker = NoConn /\ client[k] = "open" /\ down[k] # << >> /\ Head(down[k]) = m
  /\ down' = [down EXCEPT ![k] = Tail(@)]

HandleAuthResponse(k) ==
  /\ \E result \in {"yes", "no"} : Receives(k, result) /\ authed' = Set(authed, k, result)
  /\ UNCHANGED <<watcher, link, registered, tries, locked, worker, client, hasId, logonSide,
                 up, cut, last, faults, crossed>>

(* HandleRegister of the client socket.  AdditionAck looks for the id, not *)
(* for the connection, so any that still has its id will do.               *)
AdditionAck(k) ==
  /\ Receives(k, "registered")
  /\ registered' = (registered \/ hasId[k])
  /\ UNCHANGED <<watcher, link, tries, locked, worker, client, authed, hasId, logonSide, up,
                 cut, last, faults, crossed>>

(* The connection is closed at the other end: Disconnect, OnDisconnect,    *)
(* after what was sent on it or, reset, instead of that.                   *)
HangUp(k) ==
  /\ worker = NoConn /\ client[k] = "open"
  /\ server[k] = "closed" \/ k \in cut
  /\ client' = Set(client, k, "closed") /\ down' = Set(down, k, << >>)
  /\ worker' = IF hasId[k] THEN k ELSE NoConn
  /\ UNCHANGED <<watcher, link, registered, tries, locked, authed, hasId, logonSide, up, cut,
                 last, faults, crossed>>

(* ConnectionDropped, once mapLock is free: whatever connection is in the  *)
(* map by then is taken out.                                               *)
ConnectionDropped ==
  /\ worker # NoConn /\ ~locked
  /\ link' = NoConn /\ worker' = NoConn
  /\ UNCHANGED <<watcher, registered, tries, locked, client, authed, hasId, logonSide, network,
                 faults, crossed>>

-----------------------------------------------------------------------------
(* The logon server's socket worker. *)

(* OnConnect: AddServerSocket, removed = false. *)
OnConnect(k) ==
  /\ adding = NoConn /\ client[k] # "none" /\ server[k] = "none"
  /\ server' = Set(server, k, "open") /\ removed' = Set(removed, k, FALSE)
  /\ UNCHANGED <<worldSide, realm, owns, adding, network, faults, crossed>>

Handles(k, m) ==
  /\ adding = NoConn /\ server[k] = "open" /\ up[k] # << >> /\ Head(up[k]) = m
  /\ up' = [up EXCEPT ![k] = Tail(@)]

(* SendPacket: lost when the other end is closed. *)
SendDown(k, m) == down' = IF client[k] = "open" /\ k \notin cut THEN Send(down, k, m) ELSE down

(* HandleAuthChallenge; a password that does not match is a failure. *)
HandleAuthChallenge(k) ==
  /\ Handles(k, "challenge")
  /\ \E answer \in {"yes", "no"} : SendDown(k, answer) /\ Costs(answer = "no")
  /\ UNCHANGED <<worldSide, logonSide, cut, last, crossed>>

(* Mutant: the entry found under the realm's name is kept. *)
ReplacedKept(k) == IF realm = NoRealm THEN [sock |-> k, online |-> TRUE] ELSE realm

(* HandleRegister: an entry of the same name is removed and a new one, of  *)
(* a new id, added.                                                        *)
Replaced(k) == [sock |-> k, online |-> TRUE]

HandleRegister(k) ==
  /\ Handles(k, "register")
  /\ realm' = Replaced(k) /\ owns' = [j \in Conns |-> FALSE]
  /\ SendDown(k, "registered") /\ adding' = k
  /\ crossed' = (crossed \/ realm.sock > k)
  /\ UNCHANGED <<worldSide, server, removed, cut, last, faults>>

(* ... and after the answer is sent the id is added to server_ids. *)
InsertId ==
  /\ adding # NoConn
  /\ owns' = Set(owns, adding, TRUE) /\ adding' = NoConn
  /\ UNCHANGED <<worldSide, server, removed, realm, network, faults, crossed>>

(* SetRealmOffline for every id of server_ids. *)
Offline(k) == realm' = IF owns[k] /\ realm.sock = k THEN NoRealm ELSE realm

(* Mutant: the end of a connection does not reach the realm list. *)
EndOfConnectionSilent(k) == UNCHANGED <<realm, removed>>

(* Disconnect and OnDisconnect: the realm goes offline unless              *)
(* TimeoutSockets has seen to it.                                          *)
EndOfConnection(k) ==
  /\ IF removed[k] THEN UNCHANGED realm ELSE Offline(k)
  /\ UNCHANGED removed

(* The connection is closed at the other end: likewise. *)
OnDisconnect(k) ==
  /\ adding = NoConn /\ server[k] = "open"
  /\ client[k] = "closed" \/ k \in cut
  /\ EndOfConnection(k)
  /\ server' = Set(server, k, "closed") /\ up' = Set(up, k, << >>)
  /\ UNCHANGED <<worldSide, owns, adding, down, cut, last, faults, crossed>>

(* TimeoutSockets, on another thread: no ping for 60 seconds.  It must     *)
(* come for a connection that the world server no longer keeps.            *)
TimeoutSockets(k) ==
  /\ server[k] = "open" /\ ~removed[k]
  /\ Costs(link = k \/ client[k] = "closed" \/ k \in cut)
  /\ removed' = Set(removed, k, TRUE) /\ Offline(k)
  /\ server' = Set(server, k, "closed") /\ up' = Set(up, k, << >>)
  /\ crossed' = (crossed \/ adding = k)
  /\ UNCHANGED <<worldSide, owns, adding, down, cut, last>>

-----------------------------------------------------------------------------
(* The network breaks a connection: what is on its way is lost. *)
Break(k) ==
  /\ client[k] = "open" /\ k \notin cut /\ Costs(TRUE)
  /\ cut' = cut \union {k}
  /\ up' = Set(up, k, << >>) /\ down' = Set(down, k, << >>)
  /\ UNCHANGED <<worldSide, logonSide, last, crossed>>

Watcher == GiveUp \/ Connect \/ Authenticated \/ Registered
Must(A) == A /\ UNCHANGED faults
WorldWorker ==
  ConnectionDropped \/ \E k \in Conns : HandleAuthResponse(k) \/ AdditionAck(k) \/ HangUp(k)
LogonWorker ==
  InsertId \/ \E k \in Conns : \/ OnConnect(k) \/ HandleAuthChallenge(k)
                               \/ HandleRegister(k) \/ OnDisconnect(k)

Next ==
  \/ Watcher \/ ConnectFails \/ ConnectEnds \/ UpdateSockets
  \/ WorldWorker \/ LogonWorker
  \/ \E k \in Conns : TimeoutSockets(k) \/ Break(k)

(* The four threads run.  What fails at a cost need not happen; a wait     *)
(* that cannot succeed ends, and an abandoned connection is timed out.     *)
Fairness ==
  /\ WF_vars(Watcher) /\ WF_vars(Must(ConnectEnds)) /\ WF_vars(Must(UpdateSockets))
  /\ WF_vars(WorldWorker) /\ WF_vars(LogonWorker)
  /\ \A k \in Conns : WF_vars(Must(TimeoutSockets(k)))

Spec == Init /\ [][Next]_vars
FairSpec == Spec /\ Fairness

-----------------------------------------------------------------------------
(* Every component has its type. *)
TypeOK ==
  /\ watcher \in {"start", "loop", "auth", "reg", "off"} /\ link \in 0 .. last
  /\ {registered, locked, crossed} \subseteq BOOLEAN /\ tries \in 0 .. MaxTries
  /\ worker \in 0 .. last /\ last \in 0 .. MaxConn /\ faults \in 0 .. MaxFaults
  /\ {client, server} \subseteq [Conns -> {"none", "open", "closed"}]
  /\ authed \in [Conns -> {"waiting", "yes", "no"}]
  /\ {hasId, removed, owns} \subseteq [Conns -> BOOLEAN]
  /\ realm \in [sock : 0 .. last, online : BOOLEAN] /\ adding \in 0 .. last
  /\ up \in [Conns -> Seq({"challenge", "register"})]
  /\ down \in [Conns -> Seq({"yes", "no", "registered"})] /\ cut \subseteq 1 .. last

Open(k) == client[k] = "open" /\ server[k] = "open" /\ k \notin cut

(* "socket timout will DC old id after a while, make sure it's not the one *)
(* we restarted": when the world server takes itself for connected and its *)
(* connection is open at both ends, the realm is listed online with that   *)
(* connection, whatever becomes of earlier ones (while no REGISTER is      *)
(* handled after that of a later connection).                              *)
Linked == watcher = "loop" /\ link # NoConn /\ Open(link)
LinkedIsListedInOrder == Linked /\ ~crossed => realm = [sock |-> link, online |-> TRUE]

(* A realm that is shown online has a connection at the logon server:      *)
(* every end of a connection, by either thread, takes its realm offline.   *)
OnlineIsAlive == realm.online /\ ~crossed => server[realm.sock] = "open"

(* The socket worker is not left waiting for mapLock, although the watcher *)
(* holds it while it waits for answers only that worker can receive.       *)
WorkerFreed == worker # NoConn ~> worker = NoConn

(* Once nothing fails any more the realm is online for good, over the      *)
(* connection the world server uses, or a restart has been asked for.      *)
SettlesDown == <>[](crossed \/ watcher = "off" \/ (Linked /\ realm = [sock |-> link, online |-> TRUE]))
=============================================================================
