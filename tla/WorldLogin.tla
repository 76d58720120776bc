----------------------------- MODULE WorldLogin -----------------------------
(***************************************************************************)
(* How a client gets into the world server: WorldSocket asks the logon     *)
(* server for the account's session key (LogonCommHandler), the answer     *)
(* creates a WorldSession, and the session enters World's session map or,  *)
(* when the realm is full, waits in World's queue.                         *)
(*                                                                         *)
(* Two threads act: the socket worker (there is one on Linux; it runs the  *)
(* handlers of the clients' sockets and of the logon server's socket one   *)
(* after the other) and the world thread (UpdateQueuedSessions and         *)
(* UpdateSessions).  Steps of one handler that the other thread can come   *)
(* between are steps of their own here.                                    *)
(*                                                                         *)
(* A client may send CMSG_AUTH_SESSION again at any time: each is a new    *)
(* request, and the socket remembers the last.  Only one answer per socket *)
(* gets through (Authed), so the socket names the session created for it.  *)
(***************************************************************************)
EXTENDS Integers, Sequences, FiniteSets

CONSTANTS Sockets,      \* client connections
          Accounts,
          Logins,       \* which connections log in to which accounts
          GMs,          \* the accounts with GM permissions
          PlayerLimit,  \* m_playerLimit
          MaxDrops,     \* bound: losses of the connection to the logon server
          MaxAsks,      \* bound: CMSG_AUTH_SESSIONs of each connection
          None

ASSUME LoginAssumption ==
  /\ Logins \subseteq [Sockets -> Accounts] /\ GMs \subseteq Accounts
  /\ PlayerLimit \in Nat /\ MaxDrops \in Nat /\ MaxAsks \in [Sockets -> Nat]
  /\ None \notin Sockets /\ IsFiniteSet(Accounts)

VARIABLES acct,      \* the account each connection logs in to
          conn,      \* each connection: new, up or closed
          packet,    \* pAuthenticationPacket # NULL
          asked,     \* requests made for it so far
          mRequest,  \* mRequestID: the number of its last request, or 0
          authed,    \* Authed
          mSession,  \* mSession # NULL
          mQueued,   \* mQueued
          told,      \* the last SMSG_AUTH_RESPONSE sent to it
          session,   \* its WorldSession: none, live or freed
          socket,    \* that session's _socket # NULL
          logout,    \* that session's _logoutTime # 0
          link,      \* logons[server] # NULL
          ask,       \* RCMSG_REQUEST_SESSION on their way, oldest first
          answer,    \* RSMSG_SESSION_RESULT on their way, oldest first
          pending,   \* pending_logons
          sessions,  \* m_sessions
          global,    \* GlobalSessions
          queue,     \* mQueuedSessions
          net,       \* where the socket worker is in a handler
          world,     \* where the world thread is in UpdateQueuedSessions, or in a
                     \* session's Disconnect in UpdateSessions
          drops      \* losses of the logon connection so far

sock == <<conn, packet, asked, mRequest, authed, mSession, mQueued, told>>
sess == <<session, socket, logout>>
comm == <<link, ask, answer, pending, drops>>
lists == <<sessions, global, queue>>
vars == <<acct, sock, sess, comm, lists, net, world>>

Idle == [at |-> "idle", s |-> None]
At(l, s) == [at |-> l, s |-> s]
SessionCount == Cardinality({a \in Accounts : sessions[a] # None})

HasRoom == SessionCount < PlayerLimit

(* A request_id, named for its socket. *)
Request(s, k) == [s |-> s, k |-> k]

(* queueMutex: UpdateQueuedSessions holds it for its whole loop. *)
QueueFree == world.at \notin {"admit", "release"}

(* pendingLock: HandleSessionInfo holds it until its socket's callback     *)
(* returns.  SessionsMutex: UpdateSessions holds it.                       *)
PendingFree == net.at \notin {"enter", "queue", "flag"}
SessionsFree == world.at # "withdraw"

Init ==
  /\ acct \in Logins
  /\ conn = [s \in Sockets |-> "new"]
  /\ packet = [s \in Sockets |-> FALSE]
  /\ asked = [s \in Sockets |-> 0] /\ mRequest = [s \in Sockets |-> 0]
  /\ authed = [s \in Sockets |-> FALSE] /\ mSession = [s \in Sockets |-> FALSE]
  /\ mQueued = [s \in Sockets |-> FALSE] /\ told = [s \in Sockets |-> "nothing"]
  /\ session = [s \in Sockets |-> "none"]
  /\ socket = [s \in Sockets |-> FALSE] /\ logout = [s \in Sockets |-> FALSE]
  /\ link = TRUE /\ ask = << >> /\ answer = << >> /\ pending = {} /\ drops = 0
  /\ sessions = [a \in Accounts |-> None] /\ global = {} /\ queue = << >>
  /\ net = Idle /\ world = Idle

Set(f, s, v) == [f EXCEPT ![s] = v]
Tell(s, what) == told' = Set(told, s, what)

-----------------------------------------------------------------------------
(* Mutant: a closed socket's request is not withdrawn. *)
WithdrawnNot(s) == pending

(* UnauthedSocketClose: only the last request of a socket is withdrawn. *)
Withdrawn(s) == pending \ {Request(s, mRequest[s])}

(* Socket::Disconnect and the first half of OnDisconnect: the session and  *)
(* the socket forget each other ...                                        *)
Detach(s) ==
  /\ conn' = Set(conn, s, "closed")
  /\ socket' = IF mSession[s] THEN Set(socket, s, FALSE) ELSE socket
  /\ mSession' = Set(mSession, s, FALSE)

(* ... and its request is withdrawn. *)
Withdraw(s) == mRequest' = Set(mRequest, s, 0) /\ pending' = Withdrawn(s)

(* World::RemoveQueuedSocket: the first entry that is s is erased. *)
Without(q, s) ==
  IF \A i \in 1 .. Len(q) : q[i] # s THEN q
  ELSE LET k == CHOOSE i \in 1 .. Len(q) : q[i] = s /\ \A j \in 1 .. i - 1 : q[j] # s
       IN  [i \in 1 .. Len(q) - 1 |-> IF i < k THEN q[i] ELSE q[i + 1]]

(* OnDisconnect, the rest: leave the queue. *)
Dequeue(s) ==
  /\ mQueued' = Set(mQueued, s, FALSE)
  /\ queue' = IF mQueued[s] THEN Without(queue, s) ELSE queue

-----------------------------------------------------------------------------
(* The socket worker. *)

Accept(s) ==
  /\ net = Idle /\ conn[s] = "new"
  /\ conn' = Set(conn, s, "up")
  /\ UNCHANGED <<acct, packet, asked, mRequest, authed, mSession, mQueued, told, sess, comm, lists, net, world>>

(* _HandleAuthSession, whatever came of an earlier one: a new request ... *)
Asks(s) ==
  /\ net = Idle /\ conn[s] = "up" /\ asked[s] < MaxAsks[s]
  /\ asked' = Set(asked, s, asked[s] + 1)

(* ... is sent to the logon server, and takes the place of the last ... *)
AuthSession(s) ==
  /\ Asks(s) /\ link
  /\ packet' = Set(packet, s, TRUE) /\ mRequest' = Set(mRequest, s, asked[s] + 1)
  /\ ask' = Append(ask, Request(s, asked[s] + 1))
  /\ pending' = pending \union {Request(s, asked[s] + 1)}
  /\ UNCHANGED <<acct, conn, authed, mSession, mQueued, told, sess, link, answer, drops, lists, net, world>>

(* ... or there is none: ClientConnected fails, and Disconnect finds       *)
(* mRequestID overwritten, so that it withdraws nothing.                   *)
AuthSessionRefused(s) ==
  /\ Asks(s) /\ ~link
  /\ Detach(s) /\ mRequest' = Set(mRequest, s, 0)
  /\ net' = IF mQueued[s] THEN At("dequeue", s) ELSE Idle
  /\ UNCHANGED <<acct, packet, authed, mQueued, told, session, logout, comm, lists, world>>

(* The client goes away. *)
Close(s) ==
  /\ net = Idle /\ conn[s] = "up"
  /\ Detach(s) /\ Withdraw(s)
  /\ net' = IF mQueued[s] THEN At("dequeue", s) ELSE Idle
  /\ UNCHANGED <<acct, packet, asked, authed, mQueued, told, session, logout, link, ask, answer,
                 drops, lists, world>>

CloseDequeue ==
  /\ net.at = "dequeue" /\ QueueFree
  /\ Dequeue(net.s)
  /\ net' = Idle
  /\ UNCHANGED <<acct, conn, packet, asked, mRequest, authed, mSession, told, sess, comm, sessions,
                 global, world>>

(* Mutant: the test of Authed is inverted. *)
StaleUnauthed(r) == r \notin pending \/ ~authed[r.s] \/ conn[r.s] # "up"

(* HandleSessionInfo finds no socket that still waits. *)
Stale(r) == r \notin pending \/ authed[r.s] \/ conn[r.s] # "up"

IgnoreAnswer ==
  /\ net = Idle /\ answer # << >> /\ Stale(Head(answer))
  /\ answer' = Tail(answer)
  /\ UNCHANGED <<acct, sock, sess, link, ask, pending, drops, lists, net, world>>

Answered(s, k) ==
  /\ net = Idle /\ answer # << >> /\ Head(answer) = Request(s, k) /\ ~Stale(Request(s, k))
  /\ answer' = Tail(answer)
  /\ authed' = Set(authed, s, TRUE)

(* InformationRetreiveCallback: the answer is not to the last request and  *)
(* is dropped, but Authed is set: the answer to the last will be, too.     *)
Superseded(s) ==
  /\ \E k \in 1 .. asked[s] :
       /\ k # mRequest[s] /\ Answered(s, k)
       /\ pending' = pending \ {Request(s, k)}
  /\ UNCHANGED <<acct, conn, packet, asked, mRequest, mSession, mQueued, told, sess, link, ask,
                 drops, lists, net, world>>

(* The answer is an error: the socket is told and stays open, with its     *)
(* mRequestID still set.                                                   *)
Refused(s) ==
  /\ Answered(s, mRequest[s]) /\ pending' = Withdrawn(s)
  /\ Tell(s, "failed")
  /\ UNCHANGED <<acct, conn, packet, asked, mRequest, mSession, mQueued, sess, link, ask, drops,
                 lists, net, world>>

(* Mutant: the account's session is not looked for. *)
FindNoSession(s) == None

(* World::FindSession for the account of s. *)
FindSession(s) == sessions[acct[s]]

(* The account is in the world already: that session is disconnected, and  *)
(* a request it has made again withdrawn, its logout timer is set, and     *)
(* this login fails.                                                       *)
AlreadyIn(s) ==
  /\ Answered(s, mRequest[s]) /\ FindSession(s) # None
  /\ LET t == FindSession(s) IN
       /\ logout' = Set(logout, t, TRUE)
       /\ IF socket[t] /\ conn[t] = "up"
          THEN /\ conn' = Set(conn, t, "closed") /\ socket' = Set(socket, t, FALSE)
               /\ mSession' = Set(mSession, t, FALSE) /\ mQueued' = Set(mQueued, t, FALSE)
               /\ mRequest' = [mRequest EXCEPT ![t] = 0, ![s] = 0]
               /\ pending' = Withdrawn(s) \intersect Withdrawn(t)
          ELSE Withdraw(s) /\ UNCHANGED <<conn, socket, mSession, mQueued>>
  /\ Tell(s, "failed")
  /\ UNCHANGED <<acct, packet, asked, session, link, ask, drops, lists, net, world>>

(* The client's digest does not match. *)
WrongDigest(s) ==
  /\ Answered(s, mRequest[s]) /\ FindSession(s) = None
  /\ Withdraw(s)
  /\ Tell(s, "failed")
  /\ UNCHANGED <<acct, conn, packet, asked, mSession, mQueued, sess, link, ask, drops, lists, net,
                 world>>

(* Mutant: the limit is not tested. *)
NewSessionUnlimited(s) ==
  /\ Answered(s, mRequest[s]) /\ FindSession(s) = None
  /\ Withdraw(s)
  /\ session' = Set(session, s, "live")
  /\ mSession' = Set(mSession, s, TRUE) /\ socket' = Set(socket, s, TRUE) /\ net' = At("enter", s)
  /\ UNCHANGED <<acct, conn, packet, asked, mQueued, told, logout, link, ask, drops, lists, world>>

(* A new session: into the world when there is room or for a GM, else      *)
(* into the queue.  The world thread may act before either happens.        *)
NewSession(s) ==
  /\ Answered(s, mRequest[s]) /\ FindSession(s) = None
  /\ Withdraw(s)
  /\ session' = Set(session, s, "live")
  /\ mSession' = Set(mSession, s, TRUE) /\ socket' = Set(socket, s, TRUE)
  /\ net' = At(IF HasRoom \/ acct[s] \in GMs THEN "enter" ELSE "queue", s)
  /\ UNCHANGED <<acct, conn, packet, asked, mQueued, told, logout, link, ask, drops, lists, world>>

(* WorldSocket::Authenticate, World::AddSession and AddGlobalSession. *)
Authenticate(s) ==
  /\ mQueued' = Set(mQueued, s, FALSE)
  /\ IF ~mSession[s] THEN UNCHANGED <<told, packet, sessions, global>>
     ELSE /\ Tell(s, "ok")
          /\ packet' = Set(packet, s, FALSE)
          /\ sessions' = [sessions EXCEPT ![acct[s]] = s]
          /\ global' = global \union {s}

Enter ==
  /\ net.at = "enter" /\ SessionsFree
  /\ Authenticate(net.s)
  /\ net' = Idle
  /\ UNCHANGED <<acct, conn, asked, mRequest, authed, mSession, sess, comm, queue, world>>

(* World::AddQueuedSocket ... *)
Enqueue ==
  /\ net.at = "queue" /\ QueueFree
  /\ queue' = Append(queue, net.s)
  /\ net' = At("flag", net.s)
  /\ UNCHANGED <<acct, sock, sess, comm, sessions, global, world>>

(* ... then mQueued and the position packet. *)
Flag ==
  /\ net.at = "flag"
  /\ mQueued' = Set(mQueued, net.s, TRUE)
  /\ Tell(net.s, "queued")
  /\ net' = Idle
  /\ UNCHANGED <<acct, conn, packet, asked, mRequest, authed, mSession, sess, comm, lists, world>>

-----------------------------------------------------------------------------
(* The world thread. *)

(* Mutant: the socket is read through the erased iterator. *)
GrabAfterErase ==
  /\ world = Idle /\ HasRoom /\ queue # << >>
  /\ queue' = Tail(queue)
  /\ world' = At("admit", IF Tail(queue) = << >> THEN None ELSE Head(Tail(queue)))
  /\ UNCHANGED <<acct, sock, sess, comm, sessions, global, net>>

(* Mutant: the last one in the queue is left waiting. *)
GrabButLast ==
  /\ world = Idle /\ HasRoom /\ Len(queue) > 1
  /\ queue' = Tail(queue)
  /\ world' = IF mSession[Head(queue)] THEN At("admit", Head(queue)) ELSE Idle
  /\ UNCHANGED <<acct, sock, sess, comm, sessions, global, net>>

(* UpdateQueuedSessions, one turn of its loop: take the first in the queue *)
(* out, and go on with it if it has a session.                             *)
Grab ==
  /\ world = Idle /\ HasRoom /\ queue # << >>
  /\ queue' = Tail(queue)
  /\ world' = IF mSession[Head(queue)] THEN At("admit", Head(queue)) ELSE Idle
  /\ UNCHANGED <<acct, sock, sess, comm, sessions, global, net>>

(* Mutant: the session's deleteMutex is not waited for. *)
DeleteMutexIgnored(s) == TRUE

(* The deleteMutex of a new session is held until its handler is over. *)
DeleteMutexFree(s) == net.s = s => net.at \notin {"enter", "queue", "flag"}

Admit ==
  /\ world.at = "admit" /\ DeleteMutexFree(world.s)
  /\ Authenticate(world.s)
  /\ world' = At("release", world.s)
  /\ UNCHANGED <<acct, conn, asked, mRequest, authed, mSession, sess, comm, queue, net>>

(* GetSession()->deleteMutex.Release(). *)
Release ==
  /\ world.at = "release"
  /\ world' = Idle
  /\ UNCHANGED <<acct, sock, sess, comm, lists, net>>

(* UpdateQueuedSessions, the rest: tell the others their positions. *)
Positions ==
  /\ world = Idle /\ queue # << >> /\ ~HasRoom
  /\ told' = [s \in Sockets |-> IF \E i \in 1 .. Len(queue) : queue[i] = s THEN "queued" ELSE told[s]]
  /\ UNCHANGED <<acct, conn, packet, asked, mRequest, authed, mSession, mQueued, sess, comm, lists,
                 net, world>>

(* WorldSession::Update(0) of a session without a socket: set the timer. *)
SetLogoutTimer(s) ==
  /\ world = Idle /\ s \in global /\ ~socket[s] /\ ~logout[s]
  /\ logout' = Set(logout, s, TRUE)
  /\ UNCHANGED <<acct, sock, session, socket, comm, lists, net, world>>

(* ... and when it has run out: DeleteGlobalSession, and out of            *)
(* GlobalSessions.                                                         *)
DeleteSession(s) ==
  /\ world = Idle /\ s \in global /\ ~socket[s] /\ logout[s]
  /\ session' = Set(session, s, "freed")
  /\ sessions' = [sessions EXCEPT ![acct[s]] = None]
  /\ global' = global \ {s}
  /\ UNCHANGED <<acct, sock, socket, logout, comm, queue, net, world>>

(* WorldSession::Update(0) when no ping came for long: Disconnect, which   *)
(* waits for pendingLock when the socket has a request, while              *)
(* UpdateSessions holds SessionsMutex.                                     *)
PingTimeout(s) ==
  /\ world = Idle /\ s \in global /\ socket[s] /\ conn[s] = "up"
  /\ Detach(s)
  /\ world' = At("withdraw", s)
  /\ UNCHANGED <<acct, packet, asked, mRequest, authed, mQueued, told, session, logout, comm, lists, net>>

TimedOut ==
  /\ world.at = "withdraw" /\ (mRequest[world.s] # 0 => PendingFree)
  /\ Withdraw(world.s) /\ Dequeue(world.s)
  /\ logout' = Set(logout, world.s, TRUE)
  /\ world' = Idle
  /\ UNCHANGED <<acct, conn, packet, asked, authed, mSession, told, session, socket, link, ask,
                 answer, drops, sessions, global, net>>

-----------------------------------------------------------------------------
(* The logon server answers requests in order (external). *)
LogonAnswers ==
  /\ link /\ ask # << >>
  /\ ask' = Tail(ask) /\ answer' = Append(answer, Head(ask))
  /\ UNCHANGED <<acct, sock, sess, link, pending, drops, lists, net, world>>

(* The connection to it breaks (ConnectionDropped): what is on its way is  *)
(* lost, and nobody tells the sockets that wait.                           *)
LinkDrops ==
  /\ link /\ drops < MaxDrops
  /\ link' = FALSE /\ ask' = << >> /\ answer' = << >> /\ drops' = drops + 1
  /\ UNCHANGED <<acct, sock, sess, pending, lists, net, world>>

(* The watcher thread connects again. *)
Reconnect ==
  /\ ~link /\ link' = TRUE
  /\ UNCHANGED <<acct, sock, sess, ask, answer, pending, drops, lists, net, world>>

Handler ==
  \/ CloseDequeue \/ IgnoreAnswer \/ Enter \/ Enqueue \/ Flag
  \/ \E s \in Sockets :
       Superseded(s) \/ Refused(s) \/ AlreadyIn(s) \/ WrongDigest(s) \/ NewSession(s)
QueueUpdate == Grab \/ Admit \/ Release \/ TimedOut

Next ==
  \/ Handler \/ QueueUpdate \/ Positions \/ LogonAnswers \/ LinkDrops \/ Reconnect
  \/ \E s \in Sockets :
       \/ Accept(s) \/ AuthSession(s) \/ AuthSessionRefused(s) \/ Close(s)
       \/ SetLogoutTimer(s) \/ DeleteSession(s) \/ PingTimeout(s)

(* The socket worker and the world thread run, the logon server answers. *)
Fairness ==
  /\ WF_vars(Handler) /\ WF_vars(QueueUpdate) /\ WF_vars(LogonAnswers)
  /\ \A s \in Sockets : WF_vars(SetLogoutTimer(s) \/ DeleteSession(s))

Spec == Init /\ [][Next]_vars
FairSpec == Spec /\ Fairness

-----------------------------------------------------------------------------
Flags == [Sockets -> BOOLEAN]
Requests == [s : Sockets, k : Nat]
Queued(s) == \E i \in 1 .. Len(queue) : queue[i] = s

(* Every component has its type. *)
TypeOK ==
  /\ acct \in Logins
  /\ conn \in [Sockets -> {"new", "up", "closed"}]
  /\ {packet, authed, mSession, mQueued, socket, logout} \subseteq Flags
  /\ {asked, mRequest} \subseteq [Sockets -> Nat]
  /\ \A s \in Sockets : asked[s] <= MaxAsks[s] /\ mRequest[s] \in {0, asked[s]}
  /\ told \in [Sockets -> {"nothing", "failed", "queued", "ok"}]
  /\ session \in [Sockets -> {"none", "live", "freed"}]
  /\ link \in BOOLEAN /\ ask \in Seq(Requests) /\ answer \in Seq(Requests)
  /\ pending \subseteq Requests /\ drops \in 0 .. MaxDrops
  /\ sessions \in [Accounts -> Sockets \union {None}]
  /\ global \subseteq Sockets /\ queue \in Seq(Sockets)
  /\ net \in {Idle} \union [at : {"enter", "queue", "flag", "dequeue"}, s : Sockets]
  /\ world \in {Idle} \union [at : {"admit", "release", "withdraw"}, s : Sockets]

(* No pointer outlives what it points to: the socket's session, the        *)
(* sessions of both of World's lists, the queue's sockets, which a closing *)
(* connection leaves before the next admission, and those of               *)
(* pending_logons, but for the requests that a later one of the same       *)
(* socket has taken the place of: their entries may stay behind.           *)
NoDangling ==
  /\ \A s \in Sockets : mSession[s] => session[s] = "live"
  /\ \A s \in Sockets : socket[s] => conn[s] = "up"
  /\ \A a \in Accounts : sessions[a] # None => session[sessions[a]] = "live"
  /\ \A s \in global : session[s] = "live"
  /\ \A r \in pending :
       conn[r.s] = "up" \/ r.k < asked[r.s] \/ world = At("withdraw", r.s)
  /\ \A i \in 1 .. Len(queue) : /\ conn[queue[i]] = "up" \/ net = At("dequeue", queue[i])
                                /\ session[queue[i]] = "live" /\ packet[queue[i]]

(* Whoever was admitted is told so last, is not marked as waiting and does *)
(* not wait, and nobody waits twice: the world thread may take a socket    *)
(* from the queue before the handler that put it there has set mQueued and *)
(* sent the position.                                                      *)
AdmittedIsNotQueued ==
  /\ \A s \in global : ~mQueued[s] /\ told[s] = "ok" /\ ~Queued(s)
  /\ \A i, j \in 1 .. Len(queue) : queue[i] = queue[j] => i = j

(* The player limit: the socket worker tests it before it adds a session,  *)
(* the world thread may admit another between, so the players without GM   *)
(* permissions are at most one too many.                                   *)
AtMostOneOver ==
  Cardinality({a \in Accounts : sessions[a] # None /\ a \notin GMs}) <= PlayerLimit + 1

(* "otherwise accounts dupe up and disasters happen": an account has at    *)
(* most one session in the world.                                          *)
OneSessionPerAccount ==
  \A s, t \in global : acct[s] = acct[t] => s = t

(* The same for accounts that never wait in the queue, however a second    *)
(* login of theirs, the disconnection of the first and its removal         *)
(* interleave; and the session map knows that session, so that the next    *)
(* login finds it.                                                         *)
OneSessionUnqueued ==
  \A s \in global : acct[s] \in GMs =>
    sessions[acct[s]] = s /\ \A t \in global : acct[s] = acct[t] => s = t

(* The world thread, with SessionsMutex, and the socket worker, with       *)
(* pendingLock, each wait for the other's: the socket that is closed for   *)
(* want of pings has asked again after its login.                          *)
Deadlocked == net.at = "enter" /\ world.at = "withdraw" /\ mRequest[world.s] # 0

(* A free place is given to the queue, unless the threads have locked each *)
(* other out.                                                              *)
PlaceIsGiven == (HasRoom /\ queue # << >>) ~> (~HasRoom \/ queue = << >> \/ Deadlocked)

(* A login gets an answer, unless the client leaves or asks again, the     *)
(* connection to the logon server was lost or the threads have locked each *)
(* other out.                                                              *)
LoginAnswered ==
  \A s \in Sockets : mRequest[s] # 0 ~>
    (told[s] # "nothing" \/ conn[s] = "closed" \/ asked[s] > 1 \/ drops > 0 \/ Deadlocked)
=============================================================================
