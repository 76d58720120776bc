-------------------------- MODULE SessionHandover --------------------------
(***************************************************************************)
(* How the threads of the world server pass a WorldSession to one another. *)
(* The world thread updates the sessions of GlobalSessions, each MapMgr's  *)
(* thread those of its MapSessions.  A session says by its instanceId      *)
(* whose it is: 0 for the world thread, else the instance of a map.  The   *)
(* lists are changed by their own threads alone, except that a map thread  *)
(* adds to GlobalSessions under SessionsMutex; nothing but instanceId      *)
(* keeps two threads apart.                                                *)
(***************************************************************************)
EXTENDS Naturals

CONSTANTS Sessions,
          Maps,        \* instance ids
          MaxPackets   \* bound: packets of each session that move its player or its timer

ASSUME HandoverAssumption == Maps \subseteq Nat \ {0} /\ MaxPackets \in [Sessions -> Nat]

World == 0
Threads == {World} \union Maps
NoMap == 0
Reasons == {"teleport", "packet", "timer", "gone", "units", "push"}

VARIABLES sessions,   \* GlobalSessions and each map's MapSessions
          instance,   \* instanceId
          player,     \* none, out (of the world), pushed (m_beingPushed: in an insert pool), in
          where,      \* the player's m_mapMgr
          socket,     \* _socket is set
          timer,      \* _logoutTime is set
          bDeleted,
          freed,      \* deleted by DeleteGlobalSession
          packets,    \* packets that may still be handled
          at,         \* where each thread is
          cur,        \* the session it handles
          dest,       \* the map it adds a player to
          todo,       \* what its loop over its list has still to visit
          why,        \* why it takes a player out of the world
          early       \* history: a thread took up a session another had not let go

thread == <<at, cur, dest, todo, why>>
vars == <<sessions, instance, player, where, socket, timer, bDeleted, freed, packets, thread,
          early>>

Init ==
  /\ sessions = [t \in Threads |-> IF t = World THEN Sessions ELSE {}]
  /\ instance = [s \in Sessions |-> World] /\ player = [s \in Sessions |-> "none"]
  /\ where = [s \in Sessions |-> NoMap]
  /\ socket = [s \in Sessions |-> TRUE] /\ timer = [s \in Sessions |-> FALSE]
  /\ bDeleted = [s \in Sessions |-> FALSE] /\ freed = [s \in Sessions |-> FALSE]
  /\ packets = MaxPackets
  /\ at = [t \in Threads |-> IF t = World THEN "idle" ELSE "push"]
  /\ cur \in [Threads -> Sessions] /\ \A t, u \in Threads : cur[t] = cur[u]
  /\ dest = [t \in Threads |-> NoMap]
  /\ todo = [t \in Threads |-> {}] /\ why = [t \in Threads |-> "units"] /\ early = FALSE

Goto(t, place) == at' = [at EXCEPT ![t] = place]
Erase(t, s) == sessions' = [sessions EXCEPT ![t] = @ \ {s}]
Visited(t, s) == todo' = [todo EXCEPT ![t] = @ \ {s}]

(* The thread has the session in its hands. *)
Holds(t, s) ==
  at[t] \in {"update", "ping", "locking", "entering", "adding", "left"} /\ cur[t] = s

(* Another thread still lists the session, or has it in its hands. *)
Listed(t, s) == \E u \in Threads \ {t} : s \in sessions[u] \/ Holds(u, s)

-----------------------------------------------------------------------------
(* A map's loop: the insert pool, the units and players, the sessions. *)

(* PushObject: into MapSessions, and out of the world thread's hands. *)
Pushed(m, s) ==
  /\ sessions' = [sessions EXCEPT ![m] = @ \union {s}]
  /\ instance' = [instance EXCEPT ![s] = m]

PushToWorld(m, s) ==
  /\ at[m] = "push" /\ player[s] = "pushed" /\ where[s] = m
  /\ Pushed(m, s) /\ player' = [player EXCEPT ![s] = "in"]
  /\ UNCHANGED <<where, socket, timer, bDeleted, freed, packets, thread, early>>

PoolEmpty(m) ==
  /\ at[m] = "push" /\ \A s \in Sessions : ~(player[s] = "pushed" /\ where[s] = m)
  /\ Goto(m, "units")
  /\ UNCHANGED <<sessions, instance, player, where, socket, timer, bDeleted, freed, packets,
                 cur, dest, todo, why, early>>

(* Mutant: m_mapMgr keeps the map the player has left. *)
RemoveFromWorldKept(t, s, reason) ==
  /\ player' = [player EXCEPT ![s] = "out"] /\ instance' = [instance EXCEPT ![s] = World]
  /\ why' = [why EXCEPT ![t] = reason] /\ Goto(t, "adding") /\ UNCHANGED where

(* RemoveFromWorld up to AddGlobalSession. *)
RemoveFromWorld(t, s, reason) ==
  /\ where' = [where EXCEPT ![s] = NoMap] /\ player' = [player EXCEPT ![s] = "out"]
  /\ instance' = [instance EXCEPT ![s] = World]
  /\ why' = [why EXCEPT ![t] = reason] /\ Goto(t, "adding")

(* PushObject of a player beyond the map's borders: he is teleported to    *)
(* his bind point, on another map, and his session was not in MapSessions. *)
PutOut(m, s) ==
  /\ at[m] = "push" /\ player[s] = "pushed" /\ where[s] = m
  /\ RemoveFromWorld(m, s, "push") /\ cur' = [cur EXCEPT ![m] = s]
  /\ early' = (early \/ Listed(m, s))
  /\ UNCHANGED <<sessions, socket, timer, bDeleted, freed, packets, dest, todo>>

(* m_objectinsertlock: the map keeps it meanwhile. *)
InsertLockFree(m) == ~(at[m] \in {"adding", "left"} /\ why[m] = "push")

(* A spell, an event or another player's packet moves a player away. *)
MoveOut(m, s) ==
  /\ at[m] = "units" /\ player[s] = "in" /\ where[s] = m
  /\ RemoveFromWorld(m, s, "units") /\ cur' = [cur EXCEPT ![m] = s]
  /\ early' = (early \/ Listed(m, s))
  /\ UNCHANGED <<sessions, socket, timer, bDeleted, freed, packets, dest, todo>>

-----------------------------------------------------------------------------
(* The loops over sessions.  The world thread's holds SessionsMutex. *)

BeginLoop(t) ==
  /\ at[t] = IF t = World THEN "idle" ELSE "units"
  /\ Goto(t, "loop") /\ todo' = [todo EXCEPT ![t] = sessions[t]]
  /\ UNCHANGED <<sessions, instance, player, where, socket, timer, bDeleted, freed, packets,
                 cur, dest, why, early>>

EndLoop(t) ==
  /\ at[t] = "loop" /\ todo[t] = {}
  /\ Goto(t, IF t = World THEN "idle" ELSE "push")
  /\ UNCHANGED <<sessions, instance, player, where, socket, timer, bDeleted, freed, packets,
                 cur, dest, todo, why, early>>

(* Not this thread's any more: erased from the list. *)
Moved(t, s) ==
  /\ at[t] = "loop" /\ s \in todo[t] /\ instance[s] # t
  /\ Erase(t, s) /\ Visited(t, s)
  /\ UNCHANGED <<instance, player, where, socket, timer, bDeleted, freed, packets, at, cur,
                 dest, why, early>>

(* A map does not update players who are not on it. *)
Elsewhere(m, s) ==
  /\ at[m] = "loop" /\ s \in todo[m] /\ instance[s] = m /\ where[s] # m
  /\ Visited(m, s)
  /\ UNCHANGED <<sessions, instance, player, where, socket, timer, bDeleted, freed, packets, at,
                 cur, dest, why, early>>

(* Mutant: no logout timer for a session without socket. *)
TimerAtStartNone(s) == timer[s]

(* A session without socket gets a logout timer. *)
TimerAtStart(s) == timer[s] \/ ~socket[s]

(* WorldSession::Update up to its packets; a player who is being pushed    *)
(* and has no socket is left for later.                                    *)
Update(t, s) ==
  /\ at[t] = "loop" /\ s \in todo[t] /\ instance[s] = t
  /\ t # World => where[s] = t
  /\ Visited(t, s) /\ early' = (early \/ Listed(t, s))
  /\ \/ /\ player[s] = "pushed" /\ ~socket[s]
        /\ UNCHANGED <<at, cur, timer>>
     \/ /\ player[s] # "pushed" \/ socket[s]
        /\ Goto(t, "update") /\ cur' = [cur EXCEPT ![t] = s]
        /\ timer' = [timer EXCEPT ![s] = TimerAtStart(s)]
  /\ UNCHANGED <<sessions, instance, player, where, socket, bDeleted, freed, packets, dest,
                 why>>

-----------------------------------------------------------------------------
(* Inside Update. *)

Packet(t) ==
  /\ at[t] = "update" /\ packets[cur[t]] > 0
  /\ packets' = [packets EXCEPT ![cur[t]] = @ - 1]

(* FullLogin, HandleMoveWorldportAckOpcode: Player::AddToWorld ... *)
AddToWorld(t) ==
  /\ Packet(t) /\ where[cur[t]] = NoMap
  /\ \E m \in Maps : dest' = [dest EXCEPT ![t] = m]
  /\ Goto(t, "locking")
  /\ UNCHANGED <<sessions, instance, player, where, socket, timer, bDeleted, freed, cur, todo, why,
                 early>>

(* ... as far as the map's insert pool. *)
AddObject(t) ==
  /\ at[t] = "locking" /\ InsertLockFree(dest[t])
  /\ where' = [where EXCEPT ![cur[t]] = dest[t]]
  /\ player' = [player EXCEPT ![cur[t]] = "pushed"] /\ Goto(t, "entering")
  /\ UNCHANGED <<sessions, instance, socket, timer, bDeleted, freed, packets, cur, dest, todo, why,
                 early>>

(* No such instance, or no entry to it: the player waits outside. *)
AddFails(t) ==
  /\ Packet(t) /\ where[cur[t]] = NoMap
  /\ player' = [player EXCEPT ![cur[t]] = "out"]
  /\ UNCHANGED <<sessions, instance, where, socket, timer, bDeleted, freed, thread, early>>

(* After a handler: a session that is on another instance now is returned  *)
(* with 2 and erased.                                                      *)
AfterHandler(t, id) ==
  IF id # t THEN Goto(t, "loop") /\ Erase(t, cur[t])
            ELSE Goto(t, "update") /\ UNCHANGED sessions

(* The rest of Player::AddToWorld: SetInstance, or, when the player has    *)
(* been taken off the map before m_mapMgr is read, what a failure to add   *)
(* does.                                                                   *)
SetInstance(t) ==
  /\ at[t] = "entering"
  /\ LET s == cur[t] IN
       \E id \in {dest[t]} \union (IF where[s] = NoMap THEN {instance[s]} ELSE {}) :
         instance' = [instance EXCEPT ![s] = id] /\ AfterHandler(t, id)
  /\ dest' = [dest EXCEPT ![t] = NoMap]
  /\ UNCHANGED <<player, where, socket, timer, bDeleted, freed, packets, cur, todo, why, early>>

(* _Relocate to another map. *)
Teleport(t) ==
  /\ Packet(t) /\ where[cur[t]] # NoMap
  /\ RemoveFromWorld(t, cur[t], "teleport")
  /\ UNCHANGED <<sessions, socket, timer, bDeleted, freed, cur, dest, todo, early>>

(* HandleLogoutRequestOpcode and HandleLogoutCancelOpcode. *)
LogoutTimer(t) ==
  /\ Packet(t) /\ player[cur[t]] # "none"
  /\ timer' = [timer EXCEPT ![cur[t]] = ~@]
  /\ UNCHANGED <<sessions, instance, player, where, socket, bDeleted, freed, thread, early>>

(* LogoutPlayer as far as AddGlobalSession, if the player is in the world. *)
LogoutPlayer(t, reason) ==
  IF where[cur[t]] # NoMap THEN RemoveFromWorld(t, cur[t], reason)
  ELSE /\ why' = [why EXCEPT ![t] = reason] /\ Goto(t, "left")
       /\ UNCHANGED <<instance, player, where>>

(* HandlePlayerLogoutOpcode of a GM. *)
PlayerLogout(t) ==
  /\ Packet(t) /\ player[cur[t]] # "none"
  /\ LogoutPlayer(t, "packet")
  /\ UNCHANGED <<sessions, socket, timer, bDeleted, freed, cur, dest, todo, early>>

(* The logout timer has run out: log out and, without a socket, delete. *)
TimerRuns(t) ==
  LET s == cur[t] IN
  /\ at[t] = "update" /\ timer[s] /\ instance[s] = t /\ player[s] # "pushed"
  /\ LogoutPlayer(t, IF socket[s] THEN "timer" ELSE "gone")
  /\ bDeleted' = [bDeleted EXCEPT ![s] = ~socket[s]]
  /\ UNCHANGED <<sessions, socket, timer, freed, packets, cur, dest, todo, early>>

(* Mutant: a session that is being deleted is handed over as well. *)
ToGlobalAlways(s) == TRUE

ToGlobal(s) == ~bDeleted[s]

(* AddGlobalSession waits for the world thread's loop to end. *)
AddGlobalSession(t) ==
  /\ at[t] = "adding" /\ (~ToGlobal(cur[t]) \/ t = World \/ at[World] = "idle")
  /\ sessions' = [sessions EXCEPT ![World] = IF ToGlobal(cur[t]) THEN @ \union {cur[t]} ELSE @]
  /\ Goto(t, "left")
  /\ UNCHANGED <<instance, player, where, socket, timer, bDeleted, freed, packets, cur, dest,
                 todo, why, early>>

(* What follows: nothing more for a player moved outside a handler; the    *)
(* test after a handler; the test of the last ping after the timer; return *)
(* 1 and DeleteGlobalSession for a session without socket.                 *)
Left(t) ==
  LET s == cur[t] IN
  /\ at[t] = "left"
  /\ \/ why[t] \in {"units", "push"} /\ Goto(t, why[t]) /\ UNCHANGED sessions
     \/ why[t] \in {"teleport", "packet"} /\ AfterHandler(t, instance[s])
     \/ why[t] = "timer" /\ Goto(t, "ping") /\ UNCHANGED sessions
     \/ why[t] = "gone" /\ Goto(t, "loop") /\ Erase(t, s)
  /\ freed' = [freed EXCEPT ![s] = @ \/ why[t] = "gone"]
  /\ IF why[t] \in {"packet", "timer", "gone"}
     THEN player' = [player EXCEPT ![s] = "none"] /\ timer' = [timer EXCEPT ![s] = FALSE]
     ELSE UNCHANGED <<player, timer>>
  /\ UNCHANGED <<instance, where, socket, bDeleted, packets, cur, dest, todo, why, early>>

(* The last ping is too old.  After a logout the instance is not tested    *)
(* again.                                                                  *)
PingTimeout(t) ==
  LET s == cur[t] IN
  /\ at[t] = "ping" \/ (at[t] = "update" /\ instance[s] = t)
  /\ player[s] # "pushed" /\ socket[s]
  /\ socket' = [socket EXCEPT ![s] = FALSE] /\ timer' = [timer EXCEPT ![s] = TRUE]
  /\ Goto(t, "loop")
  /\ UNCHANGED <<sessions, instance, player, where, bDeleted, freed, packets, cur, dest, todo,
                 why, early>>

(* The end of Update: return 0, or 2. *)
EndUpdate(t) ==
  /\ at[t] \in {"update", "ping"} /\ Goto(t, "loop")
  /\ IF at[t] = "update" /\ instance[cur[t]] # t THEN Erase(t, cur[t]) ELSE UNCHANGED sessions
  /\ UNCHANGED <<instance, player, where, socket, timer, bDeleted, freed, packets, cur, dest,
                 todo, why, early>>

-----------------------------------------------------------------------------
(* The socket worker: OnDisconnect. *)
Close(s) ==
  /\ socket[s] /\ ~freed[s]
  /\ socket' = [socket EXCEPT ![s] = FALSE]
  /\ UNCHANGED <<sessions, instance, player, where, timer, bDeleted, freed, packets, thread,
                 early>>

(* The steps a thread takes on its own. *)
Runs(t) ==
  \/ BeginLoop(t) \/ EndLoop(t) \/ AddObject(t) \/ SetInstance(t) \/ Left(t) \/ EndUpdate(t)
  \/ \E s \in Sessions : Moved(t, s) \/ Update(t, s)
MapRuns(m) == PoolEmpty(m) \/ \E s \in Sessions : PushToWorld(m, s) \/ Elsewhere(m, s)

Next ==
  \/ \E t \in Threads : \/ Runs(t) \/ AddGlobalSession(t) \/ TimerRuns(t) \/ PingTimeout(t)
                         \/ AddToWorld(t) \/ AddFails(t) \/ Teleport(t) \/ LogoutTimer(t)
                         \/ PlayerLogout(t)
  \/ \E m \in Maps : MapRuns(m) \/ \E s \in Sessions : PutOut(m, s) \/ MoveOut(m, s)
  \/ \E s \in Sessions : Close(s)

(* Threads run; SessionsMutex, free again and again, is obtained; time     *)
(* passes, so a logout timer that is left alone runs out.                  *)
Fairness ==
  /\ \A t \in Threads : WF_vars(Runs(t)) /\ SF_vars(AddGlobalSession(t)) /\ SF_vars(TimerRuns(t))
  /\ \A m \in Maps : WF_vars(MapRuns(m))

Spec == Init /\ [][Next]_vars
FairSpec == Spec /\ Fairness

-----------------------------------------------------------------------------
(* Every component has its type; a player has a map just when he is in the *)
(* world or on his way into it (until a thread takes up a session early).  *)
TypeOK ==
  /\ sessions \in [Threads -> SUBSET Sessions] /\ todo \in [Threads -> SUBSET Sessions]
  /\ instance \in [Sessions -> Threads] /\ where \in [Sessions -> {NoMap} \union Maps]
  /\ player \in [Sessions -> {"none", "out", "pushed", "in"}]
  /\ {socket, timer, bDeleted, freed} \subseteq [Sessions -> BOOLEAN]
  /\ packets \in [Sessions -> Nat] /\ \A s \in Sessions : packets[s] <= MaxPackets[s]
  /\ at \in [Threads -> {"idle", "push", "units", "loop", "update", "ping", "locking", "entering",
                         "adding", "left"}]
  /\ cur \in [Threads -> Sessions] /\ dest \in [Threads -> {NoMap} \union Maps]
  /\ why \in [Threads -> Reasons] /\ early \in BOOLEAN
  /\ early \/ \A s \in Sessions : where[s] # NoMap <=> player[s] \in {"pushed", "in"}

(* No session is lost on its way and none is used after its deletion: a    *)
(* live one is in the list of the thread its instanceId names, in that     *)
(* map's insert pool, or in the hands of the thread that moves it; a       *)
(* deleted one is in no list and no loop.  (Until a thread takes up a      *)
(* session that another has not let go.)                                   *)
OneHome ==
  ~early =>
    \A s \in Sessions :
      IF freed[s] THEN \A t \in Threads : s \notin sessions[t] \union todo[t] /\ ~Holds(t, s)
      ELSE \/ s \in sessions[instance[s]]
           \/ player[s] = "pushed" /\ where[s] = instance[s]
           \/ \E t \in Threads : Holds(t, s)

(* The world thread, with SessionsMutex, waits for the insert lock of a    *)
(* map that has it and waits for SessionsMutex to put a player out.        *)
Deadlocked ==
  /\ at[World] = "locking" /\ at[dest[World]] = "adding" /\ why[dest[World]] = "push"

(* A session whose socket is gone is deleted, on whatever list or way      *)
(* between two it was, although Update leaves a player who is being pushed *)
(* alone, unless the threads have locked each other out.                   *)
DeadSessionsGo == \A s \in Sessions : ~socket[s] ~> freed[s] \/ early \/ Deadlocked
=============================================================================
