----------------------- MODULE SessionHandoverProofs -----------------------
(***************************************************************************)
(* For every set of sessions and of maps: as long as no thread takes up a  *)
(* session another has not let go, no session is lost between two threads  *)
(* and none is used after its deletion.                                    *)
(***************************************************************************)
EXTENDS SessionHandover, TLAPS

(* A thread that has a session in its hands, and one that deletes it. *)
Holding(t) == at[t] \in {"update", "ping", "locking", "entering", "adding", "left"}
Going(t) == at[t] \in {"adding", "left"} /\ why[t] = "gone"

(* A map that puts a player out of its pool. *)
Ousting(t) == at[t] \in {"adding", "left"} /\ why[t] = "push"

(* Another list has the session. *)
Shared(t, s) == \E u \in Threads \ {t} : s \in sessions[u]

(* Where a thread can be. *)
Places == {"idle", "push", "units", "loop", "update", "ping", "locking", "entering", "adding",
           "left"}

(* TypeOK but for its last conjunct, one for each variable. *)
Types ==
  /\ sessions \in [Threads -> SUBSET Sessions] /\ todo \in [Threads -> SUBSET Sessions]
  /\ instance \in [Sessions -> Threads] /\ where \in [Sessions -> Threads]
  /\ player \in [Sessions -> {"none", "out", "pushed", "in"}]
  /\ socket \in [Sessions -> BOOLEAN] /\ timer \in [Sessions -> BOOLEAN]
  /\ bDeleted \in [Sessions -> BOOLEAN] /\ freed \in [Sessions -> BOOLEAN]
  /\ packets \in [Sessions -> Nat] /\ \A s \in Sessions : packets[s] <= MaxPackets[s]
  /\ at \in [Threads -> Places]
  /\ cur \in [Threads -> Sessions] /\ dest \in [Threads -> Threads]
  /\ why \in [Threads -> Reasons] /\ early \in BOOLEAN

(* A player on a map has its instance id, from the push or from            *)
(* SetInstance, whichever comes first; one on no map has the world's.      *)
PlaceInv ==
  \A s \in Sessions :
    /\ where[s] # NoMap <=> player[s] \in {"pushed", "in"}
    /\ where[s] = NoMap => instance[s] = World
    /\ where[s] # NoMap /\ instance[s] # where[s] =>
         /\ at[World] = "entering" /\ cur[World] = s
         /\ player[s] = "pushed" /\ instance[s] = World

(* One thread at a time has a session, which is in its list unless it was  *)
(* in its pool, and which its loop will not meet again.                    *)
HoldInv ==
  /\ \A t, u \in Threads : Holding(t) /\ Holding(u) /\ cur[t] = cur[u] => t = u
  /\ \A t \in Threads :
       Holding(t) => /\ cur[t] \in sessions[t] \/ Ousting(t)
                     /\ cur[t] \notin todo[t] /\ ~freed[cur[t]]

(* What a thread knows of the session in its hands: updated is its own;    *)
(* only the world thread adds to a map, and that map may be done first;    *)
(* a player on his way out is on no map, and GlobalSessions has him unless *)
(* his session goes.                                                       *)
StepInv ==
  \A t \in Threads :
    /\ at[t] = "update" => instance[cur[t]] = t
    /\ at[t] = "locking" => t = World /\ dest[t] # NoMap /\ where[cur[t]] = NoMap
    /\ at[t] = "entering" =>
         /\ t = World /\ dest[t] # NoMap /\ where[cur[t]] = dest[t]
         /\ \/ player[cur[t]] = "pushed"
            \/ instance[cur[t]] = dest[t] /\ cur[t] \in sessions[dest[t]]
    /\ at[t] \in {"adding", "left", "ping"} => where[cur[t]] = NoMap
    /\ (at[t] = "left" /\ why[t] # "gone") \/ at[t] = "ping" => cur[t] \in sessions[World]

(* No other list has a session that is being updated or deleted. *)
AloneInv ==
  \A t \in Threads :
    at[t] = "update" \/ Going(t) \/ (t = World /\ at[t] = "left") => ~Shared(t, cur[t])

(* The loops: what is still to visit is listed, and nothing is outside. *)
LoopInv ==
  \A t \in Threads :
    /\ todo[t] \subseteq sessions[t]
    /\ at[t] \in {"idle", "push", "units"} => todo[t] = {}
    /\ at[t] \in {"adding", "left"} /\ why[t] \in {"units", "push"} => todo[t] = {} /\ t # World
    /\ at[t] = "adding" => t # World

(* A session is marked deleted while a thread deletes it, and deleted it   *)
(* is on no map and in no list.                                            *)
GoneInv ==
  /\ \A t \in Threads : Going(t) => bDeleted[cur[t]]
  /\ \A s \in Sessions : bDeleted[s] /\ ~freed[s] => \E t \in Threads : Going(t) /\ cur[t] = s
  /\ \A s \in Sessions : freed[s] => where[s] = NoMap /\ \A t \in Threads : s \notin sessions[t]

(* A live session is where it can be found. *)
HomeInv ==
  \A s \in Sessions : ~freed[s] =>
    \/ s \in sessions[instance[s]]
    \/ player[s] = "pushed" /\ where[s] = instance[s]
    \/ \E t \in Threads : Holding(t) /\ cur[t] = s

(* The inductive invariant. *)
Order == PlaceInv /\ HoldInv /\ StepInv /\ AloneInv /\ LoopInv /\ GoneInv /\ HomeInv
IInv == Types /\ (~early => Order)

-----------------------------------------------------------------------------
(* The threads: the world's and one for each map. *)
LEMMA ThreadFacts ==
  /\ World \in Threads /\ NoMap = World /\ Threads = {World} \union Maps
  /\ \A m \in Maps : m \in Threads /\ m # World
  BY HandoverAssumption DEF World, NoMap, Threads

(* The packets that may still be handled do not become negative. *)
LEMMA PacketType ==
  ASSUME Types, NEW t \in Threads, Packet(t)
  PROVE  /\ packets' \in [Sessions -> Nat]
         /\ \A x \in Sessions : packets'[x] <= MaxPackets[x]
<1>1. /\ packets' = [packets EXCEPT ![cur[t]] = packets[cur[t]] - 1] /\ packets[cur[t]] > 0
      /\ cur[t] \in Sessions /\ packets \in [Sessions -> Nat]
      /\ \A x \in Sessions : packets[x] \in Nat /\ MaxPackets[x] \in Nat /\ packets[x] <= MaxPackets[x]
  BY HandoverAssumption DEF Types, Packet
<1>2. packets[cur[t]] - 1 \in Nat
  BY <1>1
<1> QED
  BY <1>1, <1>2

(* A thread goes to one of its places. *)
LEMMA GotoType ==
  ASSUME Types, NEW t \in Threads, NEW p \in Places, Goto(t, p)
  PROVE  at' \in [Threads -> Places]
  BY DEF Types, Goto

(* Erasing a session from a list leaves a list. *)
LEMMA EraseType ==
  ASSUME Types, NEW t \in Threads, NEW s, Erase(t, s)
  PROVE  sessions' \in [Threads -> SUBSET Sessions]
<1>1. sessions \in [Threads -> SUBSET Sessions]
  BY DEF Types
<1>2. sessions[t] \ {s} \in SUBSET Sessions
  BY <1>1
<1> QED
  BY <1>1, <1>2 DEF Erase

-----------------------------------------------------------------------------
(* Each action preserves the invariant. *)

(* The map takes a player from its pool: no thread but the one that is     *)
(* adding him can have his session.                                        *)
LEMMA PushToWorldInv ==
  ASSUME IInv, NEW m \in Maps, NEW s \in Sessions, PushToWorld(m, s)
  PROVE  IInv'
<1>1. Types /\ (~early => Order)
  BY DEF IInv
<1>2. Types'
  BY <1>1, ThreadFacts DEF Types, PushToWorld, Pushed, thread
<1>3. ASSUME ~early'
      PROVE  Order'
  <2>1. Types /\ ~early /\ PlaceInv /\ HoldInv /\ StepInv /\ AloneInv /\ LoopInv /\ GoneInv /\ HomeInv
    BY <1>1, <1>3 DEF Order, PushToWorld, Pushed, thread
  <2>2. /\ where[s] = m /\ player[s] = "pushed" /\ m # World /\ m \in Threads /\ ~Holding(m)
        /\ \A t \in Threads : Holding(t) /\ cur[t] = s => at[t] = "entering" /\ t = World /\ dest[t] = m
    BY <2>1, ThreadFacts DEF PushToWorld, Holding, StepInv, PlaceInv
  <2>3. /\ \A u \in Threads : sessions'[u] = IF u = m THEN sessions[m] \union {s} ELSE sessions[u]
        /\ \A x \in Sessions : /\ instance'[x] = IF x = s THEN m ELSE instance[x]
                               /\ player'[x] = IF x = s THEN "in" ELSE player[x]
        /\ UNCHANGED <<where, at, cur, dest, why>>
    BY <2>1, ThreadFacts DEF Types, PushToWorld, Pushed, thread
  <2>4. PlaceInv'
    BY <2>1, ThreadFacts DEF PlaceInv, Types, PushToWorld, Pushed, thread
  <2>5. HoldInv'
    BY <2>1, ThreadFacts DEF HoldInv, Ousting, Types, PushToWorld, Pushed, thread, Holding
  <2>6. StepInv'
    BY <2>1, <2>2, <2>3, ThreadFacts DEF StepInv, Types, Holding
  <2>7. AloneInv'
    BY <2>1, <2>2, <2>3, ThreadFacts DEF AloneInv, Types, Holding, Going, Shared
  <2>8. LoopInv'
    BY <2>1, ThreadFacts DEF LoopInv, Types, PushToWorld, Pushed, thread
  <2>9. GoneInv'
    BY <2>1, ThreadFacts DEF GoneInv, Types, PushToWorld, Pushed, thread, Going
  <2>10. HomeInv'
    BY <2>1, ThreadFacts DEF HomeInv, Types, PushToWorld, Pushed, thread, Holding
  <2> QED
    BY <2>4, <2>5, <2>6, <2>7, <2>8, <2>9, <2>10 DEF Order
<1> QED
  BY <1>2, <1>3 DEF IInv

(* The pool is empty. *)
LEMMA PoolEmptyInv ==
  ASSUME IInv, NEW m \in Maps, PoolEmpty(m)
  PROVE  IInv'
<1>1. Types /\ (~early => Order)
  BY DEF IInv
<1>2. Types'
  <2>1. at' \in [Threads -> Places]
    BY <1>1, GotoType, ThreadFacts DEF PoolEmpty, Places
  <2> QED
    BY <1>1, <2>1 DEF Types, PoolEmpty, Goto
<1>3. ASSUME ~early'
      PROVE  Order'
  <2>1. Types /\ ~early /\ PlaceInv /\ HoldInv /\ StepInv /\ AloneInv /\ LoopInv /\ GoneInv /\ HomeInv
    BY <1>1, <1>3 DEF Order, PoolEmpty, Goto
  <2>2. PlaceInv'
    BY <2>1, ThreadFacts DEF PlaceInv, Types, PoolEmpty, Goto
  <2>3. HoldInv'
    BY <2>1, ThreadFacts DEF HoldInv, Ousting, Types, PoolEmpty, Goto, Holding
  <2>4. StepInv'
    BY <2>1, ThreadFacts DEF StepInv, Types, PoolEmpty, Goto
  <2>5. AloneInv'
    BY <2>1, ThreadFacts DEF AloneInv, Types, PoolEmpty, Goto, Going, Shared
  <2>6. LoopInv'
    BY <2>1, ThreadFacts DEF LoopInv, Types, PoolEmpty, Goto
  <2>7. GoneInv'
    BY <2>1, ThreadFacts DEF GoneInv, Types, PoolEmpty, Goto, Going
  <2>8. HomeInv'
    BY <2>1, ThreadFacts DEF HomeInv, Types, PoolEmpty, Goto, Holding
  <2> QED
    BY <2>2, <2>3, <2>4, <2>5, <2>6, <2>7, <2>8 DEF Order
<1> QED
  BY <1>2, <1>3 DEF IInv

(* A map puts a player out of its pool: his session is in no list and in   *)
(* nobody's hands.                                                         *)
LEMMA PutOutInv ==
  ASSUME IInv, NEW m \in Maps, NEW s \in Sessions, PutOut(m, s)
  PROVE  IInv'
<1>1. Types /\ (~early => Order)
  BY DEF IInv
<1>2. Types'
  <2>1. /\ where' \in [Sessions -> Threads]
        /\ player' \in [Sessions -> {"none", "out", "pushed", "in"}]
        /\ instance' \in [Sessions -> Threads]
        /\ why' \in [Threads -> Reasons]
        /\ cur' \in [Threads -> Sessions]
    BY <1>1, ThreadFacts DEF Types, PutOut, RemoveFromWorld, Goto, Reasons
  <2>2. at' \in [Threads -> Places]
    BY <1>1, GotoType, ThreadFacts DEF PutOut, RemoveFromWorld, Places
  <2>3. early' \in BOOLEAN
    BY <1>1 DEF Types, PutOut, RemoveFromWorld, Goto
  <2> QED
    BY <1>1, <2>1, <2>2, <2>3 DEF Types, PutOut, RemoveFromWorld, Goto
<1>3. ASSUME ~early'
      PROVE  Order'
  <2>1. Types /\ ~early /\ PlaceInv /\ HoldInv /\ StepInv /\ AloneInv /\ LoopInv /\ GoneInv /\ HomeInv
    BY <1>1, <1>3 DEF Order, PutOut
  <2>2. /\ at[m] = "push" /\ player[s] = "pushed" /\ where[s] = m /\ m # World /\ m \in Threads
        /\ ~Shared(m, s) /\ (\A u \in Threads : Holding(u) => cur[u] # s) /\ ~Holding(m)
    BY <1>3, ThreadFacts DEF PutOut, Holding, Holds, Listed, Shared
  <2>3. /\ \A t \in Threads : Holding(t) => cur[t] # s
        /\ instance[s] = m /\ ~freed[s] /\ todo[m] = {}
    <3>1. \A t \in Threads : Holding(t) => cur[t] # s
      BY <2>2
    <3>2. instance[s] = m
      BY <2>1, <2>2, <3>1, ThreadFacts DEF PlaceInv, Holding
    <3>3. ~freed[s] /\ todo[m] = {}
      BY <2>1, <2>2, ThreadFacts DEF GoneInv, LoopInv
    <3> QED
      BY <3>1, <3>2, <3>3
  <2>4. /\ \A u \in Threads : /\ at'[u] = IF u = m THEN "adding" ELSE at[u]
                              /\ why'[u] = IF u = m THEN "push" ELSE why[u]
                              /\ cur'[u] = IF u = m THEN s ELSE cur[u]
        /\ \A x \in Sessions : /\ where'[x] = IF x = s THEN NoMap ELSE where[x]
                               /\ player'[x] = IF x = s THEN "out" ELSE player[x]
                               /\ instance'[x] = IF x = s THEN World ELSE instance[x]
        /\ UNCHANGED <<sessions, todo, dest, freed, bDeleted>>
    BY <2>1, ThreadFacts DEF Types, PutOut, RemoveFromWorld, Goto
  <2>5. PlaceInv'
    BY <2>1, <2>2, <2>3, <2>4, ThreadFacts DEF PlaceInv, Types, Holding
  <2>6. HoldInv'
    BY <2>1, <2>2, <2>3, <2>4, ThreadFacts DEF HoldInv, Ousting, Types, Holding
  <2>7. StepInv'
    BY <2>1, <2>2, <2>3, <2>4, ThreadFacts DEF StepInv, Types, Holding
  <2>8. AloneInv'
    BY <2>1, <2>2, <2>3, <2>4, ThreadFacts DEF AloneInv, Types, Holding, Going, Shared
  <2>9. LoopInv'
    BY <2>1, <2>2, <2>3, <2>4, ThreadFacts DEF LoopInv, Types, Holding
  <2>10. GoneInv'
    BY <2>1, <2>2, <2>3, <2>4, ThreadFacts DEF GoneInv, Types, Holding, Going
  <2>11. HomeInv'
    BY <2>1, <2>2, <2>3, <2>4, ThreadFacts DEF HomeInv, Types, Holding
  <2> QED
    BY <2>5, <2>6, <2>7, <2>8, <2>9, <2>10, <2>11 DEF Order
<1> QED
  BY <1>2, <1>3 DEF IInv

(* A map moves a player away: his session is in its list, in no other, and *)
(* in nobody's hands.                                                      *)
LEMMA MoveOutInv ==
  ASSUME IInv, NEW m \in Maps, NEW s \in Sessions, MoveOut(m, s)
  PROVE  IInv'
<1>1. Types /\ (~early => Order)
  BY DEF IInv
<1>2. Types'
  <2>1. /\ where' \in [Sessions -> Threads]
        /\ player' \in [Sessions -> {"none", "out", "pushed", "in"}]
        /\ instance' \in [Sessions -> Threads]
        /\ why' \in [Threads -> Reasons]
        /\ cur' \in [Threads -> Sessions]
    BY <1>1, ThreadFacts DEF Types, MoveOut, RemoveFromWorld, Goto, Reasons
  <2>2. at' \in [Threads -> Places]
    BY <1>1, GotoType, ThreadFacts DEF MoveOut, RemoveFromWorld, Places
  <2>3. early' \in BOOLEAN
    BY <1>1 DEF Types, MoveOut, RemoveFromWorld, Goto
  <2> QED
    BY <1>1, <2>1, <2>2, <2>3 DEF Types, MoveOut, RemoveFromWorld, Goto
<1>3. ASSUME ~early'
      PROVE  Order'
  <2>1. Types /\ ~early /\ PlaceInv /\ HoldInv /\ StepInv /\ AloneInv /\ LoopInv /\ GoneInv /\ HomeInv
    BY <1>1, <1>3 DEF Order, MoveOut
  <2>2. /\ at[m] = "units" /\ player[s] = "in" /\ where[s] = m /\ m # World /\ m \in Threads
        /\ ~Shared(m, s) /\ (\A u \in Threads : Holding(u) => cur[u] # s) /\ ~Holding(m)
    BY <1>3, ThreadFacts DEF MoveOut, Holding, Holds, Listed, Shared
  <2>3. /\ \A t \in Threads : Holding(t) => cur[t] # s
        /\ s \in sessions[m] /\ instance[s] = m /\ ~freed[s] /\ todo[m] = {}
    <3>1. \A t \in Threads : Holding(t) => cur[t] # s
      BY <2>2
    <3>2. instance[s] = m
      BY <2>1, <2>2, <3>1, ThreadFacts DEF PlaceInv, Holding
    <3>3. ~freed[s] /\ todo[m] = {}
      BY <2>1, <2>2, ThreadFacts DEF GoneInv, LoopInv
    <3> QED
      BY <2>1, <2>2, <3>1, <3>2, <3>3 DEF HomeInv
  <2>4. /\ \A u \in Threads : /\ at'[u] = IF u = m THEN "adding" ELSE at[u]
                              /\ why'[u] = IF u = m THEN "units" ELSE why[u]
                              /\ cur'[u] = IF u = m THEN s ELSE cur[u]
        /\ \A x \in Sessions : /\ where'[x] = IF x = s THEN NoMap ELSE where[x]
                               /\ player'[x] = IF x = s THEN "out" ELSE player[x]
                               /\ instance'[x] = IF x = s THEN World ELSE instance[x]
        /\ UNCHANGED <<sessions, todo, dest, freed, bDeleted>>
    BY <2>1, ThreadFacts DEF Types, MoveOut, RemoveFromWorld, Goto
  <2>5. PlaceInv'
    BY <2>1, <2>2, <2>3, <2>4, ThreadFacts DEF PlaceInv, Types, Holding
  <2>6. HoldInv'
    BY <2>1, <2>2, <2>3, <2>4, ThreadFacts DEF HoldInv, Ousting, Types, Holding
  <2>7. StepInv'
    BY <2>1, <2>2, <2>3, <2>4, ThreadFacts DEF StepInv, Types, Holding
  <2>8. AloneInv'
    BY <2>1, <2>2, <2>3, <2>4, ThreadFacts DEF AloneInv, Types, Holding, Going, Shared
  <2>9. LoopInv'
    BY <2>1, <2>2, <2>3, <2>4, ThreadFacts DEF LoopInv, Types, Holding
  <2>10. GoneInv'
    BY <2>1, <2>2, <2>3, <2>4, ThreadFacts DEF GoneInv, Types, Holding, Going
  <2>11. HomeInv'
    BY <2>1, <2>2, <2>3, <2>4, ThreadFacts DEF HomeInv, Types, Holding
  <2> QED
    BY <2>5, <2>6, <2>7, <2>8, <2>9, <2>10, <2>11 DEF Order
<1> QED
  BY <1>2, <1>3 DEF IInv

(* A loop begins with all the list. *)
LEMMA BeginLoopInv ==
  ASSUME IInv, NEW t \in Threads, BeginLoop(t)
  PROVE  IInv'
<1>1. Types /\ (~early => Order)
  BY DEF IInv
<1>2. Types'
  <2>1. at' \in [Threads -> Places]
    BY <1>1, GotoType DEF BeginLoop, Places
  <2>2. todo' \in [Threads -> SUBSET Sessions]
    BY <1>1 DEF Types, BeginLoop, Goto
  <2> QED
    BY <1>1, <2>1, <2>2 DEF Types, BeginLoop, Goto
<1>3. ASSUME ~early'
      PROVE  Order'
  <2>1. Types /\ ~early /\ PlaceInv /\ HoldInv /\ StepInv /\ AloneInv /\ LoopInv /\ GoneInv /\ HomeInv
    BY <1>1, <1>3 DEF Order, BeginLoop, Goto
  <2>2. PlaceInv'
    BY <2>1, ThreadFacts DEF PlaceInv, Types, BeginLoop, Goto
  <2>3. HoldInv'
    BY <2>1, ThreadFacts DEF HoldInv, Ousting, Types, BeginLoop, Goto, Holding
  <2>4. StepInv'
    BY <2>1, ThreadFacts DEF StepInv, Types, BeginLoop, Goto
  <2>5. AloneInv'
    BY <2>1, ThreadFacts DEF AloneInv, Types, BeginLoop, Goto, Going, Shared
  <2>6. LoopInv'
    BY <2>1, ThreadFacts DEF LoopInv, Types, BeginLoop, Goto
  <2>7. GoneInv'
    BY <2>1, ThreadFacts DEF GoneInv, Types, BeginLoop, Goto, Going
  <2>8. HomeInv'
    BY <2>1, ThreadFacts DEF HomeInv, Types, BeginLoop, Goto, Holding
  <2> QED
    BY <2>2, <2>3, <2>4, <2>5, <2>6, <2>7, <2>8 DEF Order
<1> QED
  BY <1>2, <1>3 DEF IInv

(* A loop ends with nothing to visit. *)
LEMMA EndLoopInv ==
  ASSUME IInv, NEW t \in Threads, EndLoop(t)
  PROVE  IInv'
<1>1. Types /\ (~early => Order)
  BY DEF IInv
<1>2. Types'
  <2>1. at' \in [Threads -> Places]
    BY <1>1, GotoType DEF EndLoop, Places
  <2> QED
    BY <1>1, <2>1 DEF Types, EndLoop, Goto
<1>3. ASSUME ~early'
      PROVE  Order'
  <2>1. Types /\ ~early /\ PlaceInv /\ HoldInv /\ StepInv /\ AloneInv /\ LoopInv /\ GoneInv /\ HomeInv
    BY <1>1, <1>3 DEF Order, EndLoop, Goto
  <2>2. PlaceInv'
    BY <2>1, ThreadFacts DEF PlaceInv, Types, EndLoop, Goto
  <2>3. HoldInv'
    BY <2>1, ThreadFacts DEF HoldInv, Ousting, Types, EndLoop, Goto, Holding
  <2>4. StepInv'
    BY <2>1, ThreadFacts DEF StepInv, Types, EndLoop, Goto
  <2>5. AloneInv'
    BY <2>1, ThreadFacts DEF AloneInv, Types, EndLoop, Goto, Going, Shared
  <2>6. LoopInv'
    BY <2>1, ThreadFacts DEF LoopInv, Types, EndLoop, Goto
  <2>7. GoneInv'
    BY <2>1, ThreadFacts DEF GoneInv, Types, EndLoop, Goto, Going
  <2>8. HomeInv'
    BY <2>1, ThreadFacts DEF HomeInv, Types, EndLoop, Goto, Holding
  <2> QED
    BY <2>2, <2>3, <2>4, <2>5, <2>6, <2>7, <2>8 DEF Order
<1> QED
  BY <1>2, <1>3 DEF IInv

(* A session of another instance leaves the list, not its home. *)
LEMMA MovedInv ==
  ASSUME IInv, NEW t \in Threads, NEW s \in Sessions, Moved(t, s)
  PROVE  IInv'
<1>1. Types /\ (~early => Order)
  BY DEF IInv
<1>2. Types'
  BY <1>1, ThreadFacts DEF Types, Moved, Erase, Visited
<1>3. ASSUME ~early'
      PROVE  Order'
  <2>1. Types /\ ~early /\ PlaceInv /\ HoldInv /\ StepInv /\ AloneInv /\ LoopInv /\ GoneInv /\ HomeInv
    BY <1>1, <1>3 DEF Order, Moved, Erase, Visited
  <2>2. HoldInv'
    BY <2>1, ThreadFacts DEF HoldInv, Ousting, Types, Moved, Erase, Visited, Holding
  <2>3. StepInv'
    BY <2>1, ThreadFacts DEF StepInv, Types, Moved, Erase, Visited, PlaceInv, HoldInv, Ousting, Holding
  <2>4. AloneInv'
    BY <2>1, ThreadFacts DEF AloneInv, Types, Moved, Erase, Visited, Going, Shared
  <2>5. LoopInv'
    BY <2>1, ThreadFacts DEF LoopInv, Types, Moved, Erase, Visited
  <2>6. GoneInv'
    BY <2>1, ThreadFacts DEF GoneInv, Types, Moved, Erase, Visited, Going
  <2>7. HomeInv'
    BY <2>1, ThreadFacts DEF HomeInv, Types, Moved, Erase, Visited, Holding
  <2>8. PlaceInv'
    BY <2>1 DEF PlaceInv, Moved, Erase, Visited
  <2> QED
    BY <2>2, <2>3, <2>4, <2>5, <2>6, <2>7, <2>8 DEF Order
<1> QED
  BY <1>2, <1>3 DEF IInv

(* A session is passed over. *)
LEMMA ElsewhereInv ==
  ASSUME IInv, NEW m \in Maps, NEW s \in Sessions, Elsewhere(m, s)
  PROVE  IInv'
<1>1. Types /\ (~early => Order)
  BY DEF IInv
<1>2. Types'
  BY <1>1, ThreadFacts DEF Types, Elsewhere, Visited
<1>3. ASSUME ~early'
      PROVE  Order'
  <2>1. Types /\ ~early /\ PlaceInv /\ HoldInv /\ StepInv /\ AloneInv /\ LoopInv /\ GoneInv /\ HomeInv
    BY <1>1, <1>3 DEF Order, Elsewhere, Visited
  <2>2. HoldInv'
    BY <2>1, ThreadFacts DEF HoldInv, Ousting, Types, Elsewhere, Visited, Holding
  <2>3. LoopInv'
    BY <2>1, ThreadFacts DEF LoopInv, Types, Elsewhere, Visited
  <2>4. PlaceInv' /\ StepInv' /\ AloneInv' /\ GoneInv' /\ HomeInv'
    BY <2>1 DEF PlaceInv, StepInv, AloneInv, GoneInv, HomeInv, Elsewhere, Visited, Going, Shared,
     Holding
  <2> QED
    BY <2>2, <2>3, <2>4 DEF Order
<1> QED
  BY <1>2, <1>3 DEF IInv

(* A session is taken up: no other list has it, so no thread does. *)
LEMMA UpdateInv ==
  ASSUME IInv, NEW t \in Threads, NEW s \in Sessions, Update(t, s)
  PROVE  IInv'
<1>1. Types /\ (~early => Order)
  BY DEF IInv
<1>2. Types'
  <2>1. cur' \in [Threads -> Sessions]
    BY <1>1, ThreadFacts DEF Types, Update, TimerAtStart, Visited, Goto
  <2>2. at' \in [Threads -> Places]
    <3>1. UNCHANGED at \/ Goto(t, "update")
      BY DEF Update
    <3> QED
      BY <1>1, <3>1, GotoType DEF Types, Places
  <2>3. todo' \in [Threads -> SUBSET Sessions]
    BY <1>1 DEF Types, Update, TimerAtStart, Visited, Goto
  <2>4. /\ timer' \in [Sessions -> BOOLEAN]
        /\ early' \in BOOLEAN
    BY <1>1 DEF Types, Update, TimerAtStart, Visited, Goto
  <2> QED
    BY <1>1, <2>1, <2>2, <2>3, <2>4 DEF Types, Update, TimerAtStart, Visited, Goto
<1>3. ASSUME ~early'
      PROVE  Order'
  <2>1. Types /\ ~early /\ PlaceInv /\ HoldInv /\ StepInv /\ AloneInv /\ LoopInv /\ GoneInv /\ HomeInv
    BY <1>1, <1>3 DEF Order, Update
  <2>2. /\ at[t] = "loop" /\ s \in todo[t] /\ s \in sessions[t] /\ instance[s] = t
        /\ t # World => where[s] = t
        /\ ~Shared(t, s) /\ (\A u \in Threads : Holding(u) => cur[u] # s) /\ ~Holding(t)
    BY <2>1, <1>3 DEF Update, Holding, Holds, Listed, Shared, LoopInv
  <2>3. (\A u \in Threads : Holding(u) => cur[u] # s) /\ ~freed[s]
    BY <2>1, <2>2 DEF GoneInv
  <2>4. /\ \A u \in Threads : todo'[u] = IF u = t THEN todo[t] \ {s} ELSE todo[u]
        /\ UNCHANGED <<sessions, instance, player, where, bDeleted, freed, dest, why>>
    BY <2>1 DEF Types, Update, Visited
  <2>5. \/ UNCHANGED <<at, cur>>
        \/ \A u \in Threads : /\ at'[u] = IF u = t THEN "update" ELSE at[u]
                              /\ cur'[u] = IF u = t THEN s ELSE cur[u]
    BY <2>1 DEF Types, Update, Goto
  <2>6. PlaceInv'
    BY <2>1, <2>2, <2>3, <2>4, <2>5, ThreadFacts DEF PlaceInv, Types, Holding
  <2>7. HoldInv'
    BY <2>1, <2>2, <2>3, <2>4, <2>5, ThreadFacts DEF HoldInv, Ousting, Types, Holding
  <2>8. StepInv'
    BY <2>1, <2>2, <2>3, <2>4, <2>5, ThreadFacts DEF StepInv, Types, Holding
  <2>9. AloneInv'
    BY <2>1, <2>2, <2>3, <2>4, <2>5, ThreadFacts DEF AloneInv, Types, Holding, Going, Shared
  <2>10. LoopInv'
    BY <2>1, <2>2, <2>3, <2>4, <2>5, ThreadFacts DEF LoopInv, Types, Holding
  <2>11. GoneInv'
    BY <2>1, <2>2, <2>3, <2>4, <2>5, ThreadFacts DEF GoneInv, Types, Holding, Going
  <2>12. HomeInv'
    BY <2>1, <2>2, <2>3, <2>4, <2>5, ThreadFacts DEF HomeInv, Types, Holding
  <2> QED
    BY <2>6, <2>7, <2>8, <2>9, <2>10, <2>11, <2>12 DEF Order
<1> QED
  BY <1>2, <1>3 DEF IInv

(* Only the world thread adds: a map's own sessions are on that map. *)
LEMMA AddToWorldInv ==
  ASSUME IInv, NEW t \in Threads, AddToWorld(t)
  PROVE  IInv'
<1>1. Types /\ (~early => Order)
  BY DEF IInv
<1>2. Types'
  <2>1. /\ packets' \in [Sessions -> Nat]
        /\ \A x \in Sessions : packets'[x] <= MaxPackets[x]
    BY <1>1, PacketType DEF AddToWorld
  <2>2. dest' \in [Threads -> Threads]
    BY <1>1, ThreadFacts DEF Types, AddToWorld, Packet, Goto
  <2>3. at' \in [Threads -> Places]
    BY <1>1, GotoType DEF AddToWorld, Places
  <2> QED
    BY <1>1, <2>1, <2>2, <2>3 DEF Types, AddToWorld, Packet, Goto
<1>3. ASSUME ~early'
      PROVE  Order'
  <2>1. Types /\ ~early /\ PlaceInv /\ HoldInv /\ StepInv /\ AloneInv /\ LoopInv /\ GoneInv /\ HomeInv
    BY <1>1, <1>3 DEF Order, AddToWorld, Packet, Goto
  <2>2. PICK x \in Sessions : x = cur[t] /\ x \in sessions[t] /\ ~freed[x] /\ x \notin todo[t]
    BY <2>1 DEF AddToWorld, Packet, Types, HoldInv, Ousting, Holding
  <2>3. \A u \in Threads : u # t /\ Holding(u) => cur[u] # x
    BY <2>1, <2>2 DEF AddToWorld, Packet, HoldInv, Ousting, Holding
  <2>4. /\ at[t] = "update" /\ where[x] = NoMap /\ instance[x] = World /\ t = World
    BY <2>1, <2>2 DEF AddToWorld, Packet, PlaceInv, StepInv
  <2>5. PICK m \in Maps :
          /\ \A u \in Threads : /\ dest'[u] = IF u = t THEN m ELSE dest[u]
                                /\ at'[u] = IF u = t THEN "locking" ELSE at[u]
          /\ UNCHANGED <<sessions, instance, player, where, bDeleted, freed, cur, todo, why>>
    BY <2>1, <2>2, ThreadFacts DEF Types, AddToWorld, Goto
  <2>6. PlaceInv'
    BY <2>1, <2>2, <2>3, <2>4, <2>5, ThreadFacts DEF PlaceInv, Types, Holding
  <2>7. HoldInv'
    BY <2>1, <2>2, <2>3, <2>4, <2>5, ThreadFacts DEF HoldInv, Ousting, Types, Holding
  <2>8. StepInv'
    BY <2>1, <2>2, <2>3, <2>4, <2>5, ThreadFacts DEF StepInv, Types, Holding
  <2>9. AloneInv'
    BY <2>1, <2>2, <2>3, <2>4, <2>5, ThreadFacts DEF AloneInv, Types, Holding, Going, Shared
  <2>10. LoopInv'
    BY <2>1, <2>2, <2>3, <2>4, <2>5, ThreadFacts DEF LoopInv, Types, Holding
  <2>11. GoneInv'
    BY <2>1, <2>2, <2>3, <2>4, <2>5, ThreadFacts DEF GoneInv, Types, Holding, Going
  <2>12. HomeInv'
    BY <2>1, <2>2, <2>3, <2>4, <2>5, ThreadFacts DEF HomeInv, Types, Holding
  <2> QED
    BY <2>6, <2>7, <2>8, <2>9, <2>10, <2>11, <2>12 DEF Order
<1> QED
  BY <1>2, <1>3 DEF IInv

(* The player is in the map's pool, and the map may be done first. *)
LEMMA AddObjectInv ==
  ASSUME IInv, NEW t \in Threads, AddObject(t)
  PROVE  IInv'
<1>1. Types /\ (~early => Order)
  BY DEF IInv
<1>2. Types'
  <2>2. /\ where' \in [Sessions -> Threads]
        /\ player' \in [Sessions -> {"none", "out", "pushed", "in"}]
    BY <1>1, ThreadFacts DEF Types, AddObject, Goto
  <2>3. at' \in [Threads -> Places]
    BY <1>1, GotoType DEF AddObject, Places
  <2> QED
    BY <1>1, <2>2, <2>3 DEF Types, AddObject, Goto
<1>3. ASSUME ~early'
      PROVE  Order'
  <2>1. Types /\ ~early /\ PlaceInv /\ HoldInv /\ StepInv /\ AloneInv /\ LoopInv /\ GoneInv /\ HomeInv
    BY <1>1, <1>3 DEF Order, AddObject, Goto
  <2>2. PICK x \in Sessions : x = cur[t] /\ x \in sessions[t] /\ ~freed[x] /\ x \notin todo[t]
    BY <2>1 DEF AddObject, Types, HoldInv, Ousting, Holding
  <2>3. \A u \in Threads : u # t /\ Holding(u) => cur[u] # x
    BY <2>1, <2>2 DEF AddObject, HoldInv, Ousting, Holding
  <2>4. /\ at[t] = "locking" /\ where[x] = NoMap /\ instance[x] = World /\ t = World
    BY <2>1, <2>2 DEF AddObject, PlaceInv, StepInv
  <2>5. PICK m \in Maps :
          /\ m = dest[t]
          /\ \A y \in Sessions : /\ where'[y] = IF y = x THEN m ELSE where[y]
                                 /\ player'[y] = IF y = x THEN "pushed" ELSE player[y]
          /\ \A u \in Threads : at'[u] = IF u = t THEN "entering" ELSE at[u]
          /\ UNCHANGED <<sessions, instance, bDeleted, freed, cur, dest, todo, why>>
    BY <2>1, <2>2, <2>4, ThreadFacts DEF Types, AddObject, Goto, StepInv
  <2>6. PlaceInv'
    BY <2>1, <2>2, <2>3, <2>4, <2>5, ThreadFacts DEF PlaceInv, Types, Holding
  <2>7. HoldInv'
    BY <2>1, <2>2, <2>3, <2>4, <2>5, ThreadFacts DEF HoldInv, Ousting, Types, Holding
  <2>8. StepInv'
    BY <2>1, <2>2, <2>3, <2>4, <2>5, ThreadFacts DEF StepInv, Types, Holding
  <2>9. AloneInv'
    BY <2>1, <2>2, <2>3, <2>4, <2>5, ThreadFacts DEF AloneInv, Types, Holding, Going, Shared
  <2>10. LoopInv'
    BY <2>1, <2>2, <2>3, <2>4, <2>5, ThreadFacts DEF LoopInv, Types, Holding
  <2>11. GoneInv'
    BY <2>1, <2>2, <2>3, <2>4, <2>5, ThreadFacts DEF GoneInv, Types, Holding, Going
  <2>12. HomeInv'
    BY <2>1, <2>2, <2>3, <2>4, <2>5, ThreadFacts DEF HomeInv, Types, Holding
  <2> QED
    BY <2>6, <2>7, <2>8, <2>9, <2>10, <2>11, <2>12 DEF Order
<1> QED
  BY <1>2, <1>3 DEF IInv

(* The player stays outside. *)
LEMMA AddFailsInv ==
  ASSUME IInv, NEW t \in Threads, AddFails(t)
  PROVE  IInv'
<1>1. Types /\ (~early => Order)
  BY DEF IInv
<1>2. Types'
  <2>1. /\ packets' \in [Sessions -> Nat]
        /\ \A x \in Sessions : packets'[x] <= MaxPackets[x]
    BY <1>1, PacketType DEF AddFails
  <2>2. player' \in [Sessions -> {"none", "out", "pushed", "in"}]
    BY <1>1, ThreadFacts DEF Types, AddFails, Packet, thread
  <2> QED
    BY <1>1, <2>1, <2>2 DEF Types, AddFails, Packet, thread
<1>3. ASSUME ~early'
      PROVE  Order'
  <2>1. Types /\ ~early /\ PlaceInv /\ HoldInv /\ StepInv /\ AloneInv /\ LoopInv /\ GoneInv /\ HomeInv
    BY <1>1, <1>3 DEF Order, AddFails, Packet, thread
  <2>2. PlaceInv'
    BY <2>1, ThreadFacts DEF PlaceInv, Types, AddFails, Packet, thread
  <2>3. StepInv'
    BY <2>1, ThreadFacts DEF StepInv, Types, AddFails, Packet, thread
  <2>4. HomeInv'
    BY <2>1, ThreadFacts DEF HomeInv, Types, AddFails, Packet, thread, Holding
  <2>5. HoldInv' /\ AloneInv' /\ LoopInv' /\ GoneInv'
    BY <2>1 DEF HoldInv, Ousting, AloneInv, LoopInv, GoneInv, AddFails, Packet, thread, Holding, Going, Shared
  <2> QED
    BY <2>2, <2>3, <2>4, <2>5 DEF Order
<1> QED
  BY <1>2, <1>3 DEF IInv

(* The player is still on the map he was added to, which may have him in   *)
(* its list already.                                                       *)
LEMMA SetInstanceInv ==
  ASSUME IInv, NEW t \in Threads, SetInstance(t)
  PROVE  IInv'
<1>1. Types /\ (~early => Order)
  BY DEF IInv
<1>2. Types'
  <2>1. /\ instance' \in [Sessions -> Threads]
        /\ dest' \in [Threads -> Threads]
    BY <1>1, ThreadFacts DEF Types, SetInstance, AfterHandler, Goto, Erase
  <2>2. at' \in [Threads -> Places]
    BY <1>1, GotoType DEF SetInstance, AfterHandler, Places
  <2>3. sessions' \in [Threads -> SUBSET Sessions]
    <3>1. UNCHANGED sessions \/ Erase(t, cur[t])
      BY DEF SetInstance, AfterHandler
    <3> QED
      BY <1>1, <3>1, EraseType DEF Types
  <2> QED
    BY <1>1, <2>1, <2>2, <2>3 DEF Types, SetInstance, AfterHandler, Goto, Erase
<1>3. ASSUME ~early'
      PROVE  Order'
  <2>1. Types /\ ~early /\ PlaceInv /\ HoldInv /\ StepInv /\ AloneInv /\ LoopInv /\ GoneInv /\ HomeInv
    BY <1>1, <1>3 DEF Order, SetInstance, AfterHandler, Goto, Erase
  <2>2. PICK x \in Sessions : x = cur[t] /\ x \in sessions[t] /\ ~freed[x] /\ x \notin todo[t]
    BY <2>1 DEF SetInstance, Types, HoldInv, Ousting, Holding
  <2>3. \A u \in Threads : u # t /\ Holding(u) => cur[u] # x
    BY <2>1, <2>2 DEF SetInstance, HoldInv, Ousting, Holding
  <2>4. /\ at[t] = "entering" /\ t = World /\ dest[t] # World /\ where[x] = dest[t]
        /\ player[x] = "pushed" \/ (instance[x] = dest[t] /\ x \in sessions[dest[t]])
    BY <2>1, <2>2, ThreadFacts DEF SetInstance, StepInv
  <2>5. /\ \A y \in Sessions : instance'[y] = IF y = x THEN dest[t] ELSE instance[y]
        /\ \A u \in Threads : /\ at'[u] = IF u = t THEN "loop" ELSE at[u]
                              /\ dest'[u] = IF u = t THEN NoMap ELSE dest[u]
                              /\ sessions'[u] = IF u = t THEN sessions[t] \ {x} ELSE sessions[u]
        /\ UNCHANGED <<player, where, bDeleted, freed, cur, todo, why>>
    <3>1. instance' = [instance EXCEPT ![x] = dest[t]] /\ AfterHandler(t, dest[t])
      BY <2>2, <2>4, ThreadFacts DEF SetInstance
    <3>2. Goto(t, "loop") /\ Erase(t, x)
      BY <2>2, <2>4, <3>1 DEF AfterHandler
    <3> QED
      BY <2>1, <2>2, <3>1, <3>2 DEF Types, SetInstance, Goto, Erase
  <2>6. PlaceInv'
    BY <2>1, <2>2, <2>3, <2>4, <2>5, ThreadFacts DEF PlaceInv, Types, Holding
  <2>7. HoldInv'
    BY <2>1, <2>2, <2>3, <2>4, <2>5, ThreadFacts DEF HoldInv, Ousting, Types, Holding
  <2>8. StepInv'
    BY <2>1, <2>2, <2>3, <2>4, <2>5, ThreadFacts DEF StepInv, Types, Holding
  <2>9. AloneInv'
    BY <2>1, <2>2, <2>3, <2>4, <2>5, ThreadFacts DEF AloneInv, Types, Holding, Going, Shared
  <2>10. LoopInv'
    BY <2>1, <2>2, <2>3, <2>4, <2>5, ThreadFacts DEF LoopInv, Types, Holding
  <2>11. GoneInv'
    BY <2>1, <2>2, <2>3, <2>4, <2>5, ThreadFacts DEF GoneInv, Types, Holding, Going
  <2>12. HomeInv'
    BY <2>1, <2>2, <2>3, <2>4, <2>5, ThreadFacts DEF HomeInv, Types, Holding
  <2> QED
    BY <2>6, <2>7, <2>8, <2>9, <2>10, <2>11, <2>12 DEF Order
<1> QED
  BY <1>2, <1>3 DEF IInv

(* Only a map thread teleports, and then adds to GlobalSessions. *)
LEMMA TeleportInv ==
  ASSUME IInv, NEW t \in Threads, Teleport(t)
  PROVE  IInv'
<1>1. Types /\ (~early => Order)
  BY DEF IInv
<1>2. Types'
  <2>1. /\ packets' \in [Sessions -> Nat]
        /\ \A x \in Sessions : packets'[x] <= MaxPackets[x]
    BY <1>1, PacketType DEF Teleport
  <2>2. /\ where' \in [Sessions -> Threads]
        /\ player' \in [Sessions -> {"none", "out", "pushed", "in"}]
        /\ instance' \in [Sessions -> Threads]
        /\ why' \in [Threads -> Reasons]
    BY <1>1, ThreadFacts DEF Types, Teleport, Packet, RemoveFromWorld, Goto, Reasons
  <2>3. at' \in [Threads -> Places]
    BY <1>1, GotoType DEF Teleport, RemoveFromWorld, Places
  <2> QED
    BY <1>1, <2>1, <2>2, <2>3 DEF Types, Teleport, Packet, RemoveFromWorld, Goto
<1>3. ASSUME ~early'
      PROVE  Order'
  <2>1. Types /\ ~early /\ PlaceInv /\ HoldInv /\ StepInv /\ AloneInv /\ LoopInv /\ GoneInv /\ HomeInv
    BY <1>1, <1>3 DEF Order, Teleport, Packet, RemoveFromWorld, Goto
  <2>2. PICK x \in Sessions : x = cur[t] /\ x \in sessions[t] /\ ~freed[x] /\ x \notin todo[t]
    BY <2>1 DEF Teleport, Packet, Types, HoldInv, Ousting, Holding
  <2>3. \A u \in Threads : u # t /\ Holding(u) => cur[u] # x
    BY <2>1, <2>2 DEF Teleport, Packet, HoldInv, Ousting, Holding
  <2>4. at[t] = "update" /\ where[x] # NoMap /\ instance[x] = t /\ where[x] = t /\ t # World
    BY <2>1, <2>2, ThreadFacts DEF Teleport, Packet, PlaceInv, StepInv
  <2>5. /\ \A u \in Threads : /\ at'[u] = IF u = t THEN "adding" ELSE at[u]
                              /\ why'[u] = IF u = t THEN "teleport" ELSE why[u]
        /\ \A y \in Sessions : /\ where'[y] = IF y = x THEN NoMap ELSE where[y]
                               /\ player'[y] = IF y = x THEN "out" ELSE player[y]
                               /\ instance'[y] = IF y = x THEN World ELSE instance[y]
        /\ UNCHANGED <<sessions, todo, dest, freed, bDeleted, cur>>
    BY <2>1, <2>2, ThreadFacts DEF Types, Teleport, RemoveFromWorld, Goto
  <2>6. PlaceInv'
    BY <2>1, <2>2, <2>3, <2>4, <2>5, ThreadFacts DEF PlaceInv, Types, Holding
  <2>7. HoldInv'
    BY <2>1, <2>2, <2>3, <2>4, <2>5, ThreadFacts DEF HoldInv, Ousting, Types, Holding
  <2>8. StepInv'
    BY <2>1, <2>2, <2>3, <2>4, <2>5, ThreadFacts DEF StepInv, Types, Holding
  <2>9. AloneInv'
    BY <2>1, <2>2, <2>3, <2>4, <2>5, ThreadFacts DEF AloneInv, Types, Holding, Going, Shared
  <2>10. LoopInv'
    BY <2>1, <2>2, <2>3, <2>4, <2>5, ThreadFacts DEF LoopInv, Types, Holding
  <2>11. GoneInv'
    BY <2>1, <2>2, <2>3, <2>4, <2>5, ThreadFacts DEF GoneInv, Types, Holding, Going
  <2>12. HomeInv'
    BY <2>1, <2>2, <2>3, <2>4, <2>5, ThreadFacts DEF HomeInv, Types, Holding
  <2> QED
    BY <2>6, <2>7, <2>8, <2>9, <2>10, <2>11, <2>12 DEF Order
<1> QED
  BY <1>2, <1>3 DEF IInv

(* The timer is no part of it. *)
LEMMA LogoutTimerInv ==
  ASSUME IInv, NEW t \in Threads, LogoutTimer(t)
  PROVE  IInv'
<1>1. Types /\ (~early => Order)
  BY DEF IInv
<1>2. Types'
  <2>1. /\ packets' \in [Sessions -> Nat]
        /\ \A x \in Sessions : packets'[x] <= MaxPackets[x]
    BY <1>1, PacketType DEF LogoutTimer
  <2>2. timer' \in [Sessions -> BOOLEAN]
    BY <1>1 DEF Types, LogoutTimer, Packet, thread
  <2> QED
    BY <1>1, <2>1, <2>2 DEF Types, LogoutTimer, Packet, thread
<1>3. ASSUME ~early'
      PROVE  Order'
  <2>1. Types /\ ~early /\ PlaceInv /\ HoldInv /\ StepInv /\ AloneInv /\ LoopInv /\ GoneInv /\ HomeInv
    BY <1>1, <1>3 DEF Order, LogoutTimer, Packet, thread
  <2>2. PlaceInv' /\ HoldInv' /\ StepInv' /\ AloneInv' /\ LoopInv' /\ GoneInv' /\ HomeInv'
    BY <2>1 DEF PlaceInv, HoldInv, Ousting, StepInv, AloneInv, LoopInv, GoneInv, HomeInv, LogoutTimer, Packet,
     thread, Holding, Going, Shared
  <2> QED
    BY <2>2 DEF Order
<1> QED
  BY <1>2, <1>3 DEF IInv

(* A logout: by the world thread of a player on no map, by a map of one of *)
(* its own.                                                                *)
LEMMA PlayerLogoutInv ==
  ASSUME IInv, NEW t \in Threads, PlayerLogout(t)
  PROVE  IInv'
<1>1. Types /\ (~early => Order)
  BY DEF IInv
<1>2. Types'
  <2>1. /\ packets' \in [Sessions -> Nat]
        /\ \A x \in Sessions : packets'[x] <= MaxPackets[x]
    BY <1>1, PacketType DEF PlayerLogout
  <2>2. /\ where' \in [Sessions -> Threads]
        /\ player' \in [Sessions -> {"none", "out", "pushed", "in"}]
        /\ instance' \in [Sessions -> Threads]
        /\ why' \in [Threads -> Reasons]
    BY <1>1, ThreadFacts DEF Types, PlayerLogout, Packet, LogoutPlayer, RemoveFromWorld, Goto,
     Reasons
  <2>3. at' \in [Threads -> Places]
    BY <1>1, GotoType DEF PlayerLogout, LogoutPlayer, RemoveFromWorld, Places
  <2> QED
    BY <1>1, <2>1, <2>2, <2>3 DEF Types, PlayerLogout, Packet, LogoutPlayer, RemoveFromWorld, Goto
<1>3. ASSUME ~early'
      PROVE  Order'
  <2>1. Types /\ ~early /\ PlaceInv /\ HoldInv /\ StepInv /\ AloneInv /\ LoopInv /\ GoneInv /\ HomeInv
    BY <1>1, <1>3 DEF Order, PlayerLogout, Packet, LogoutPlayer, RemoveFromWorld, Goto
  <2>2. PICK x \in Sessions : x = cur[t] /\ x \in sessions[t] /\ ~freed[x] /\ x \notin todo[t]
    BY <2>1 DEF PlayerLogout, Packet, Types, HoldInv, Ousting, Holding
  <2>3. \A u \in Threads : u # t /\ Holding(u) => cur[u] # x
    BY <2>1, <2>2 DEF PlayerLogout, Packet, HoldInv, Ousting, Holding
  <2>4. /\ at[t] = "update" /\ instance[x] = t
        /\ IF where[x] = NoMap THEN t = World ELSE where[x] = t /\ t # World
    BY <2>1, <2>2, ThreadFacts DEF PlayerLogout, Packet, PlaceInv, StepInv
  <2>5. /\ \A u \in Threads : u # t => at'[u] = at[u] /\ why'[u] = why[u]
        /\ why'[t] = "packet"
        /\ \/ at'[t] = "left" /\ t = World /\ UNCHANGED <<instance, player, where>>
           \/ /\ at'[t] = "adding" /\ t # World
              /\ \A y \in Sessions : /\ where'[y] = IF y = x THEN NoMap ELSE where[y]
                                     /\ player'[y] = IF y = x THEN "out" ELSE player[y]
                                     /\ instance'[y] = IF y = x THEN World ELSE instance[y]
        /\ UNCHANGED <<sessions, todo, dest, freed, bDeleted, cur>>
    BY <2>1, <2>2, <2>4, ThreadFacts DEF Types, PlayerLogout, LogoutPlayer, RemoveFromWorld, Goto
  <2>6. PlaceInv'
    BY <2>1, <2>2, <2>3, <2>4, <2>5, ThreadFacts DEF PlaceInv, Types, Holding
  <2>7. HoldInv'
    BY <2>1, <2>2, <2>3, <2>4, <2>5, ThreadFacts DEF HoldInv, Ousting, Types, Holding
  <2>8. StepInv'
    BY <2>1, <2>2, <2>3, <2>4, <2>5, ThreadFacts DEF StepInv, Types, Holding
  <2>9. AloneInv'
    BY <2>1, <2>2, <2>3, <2>4, <2>5, ThreadFacts DEF AloneInv, Types, Holding, Going, Shared
  <2>10. LoopInv'
    BY <2>1, <2>2, <2>3, <2>4, <2>5, ThreadFacts DEF LoopInv, Types, Holding
  <2>11. GoneInv'
    BY <2>1, <2>2, <2>3, <2>4, <2>5, ThreadFacts DEF GoneInv, Types, Holding, Going
  <2>12. HomeInv'
    BY <2>1, <2>2, <2>3, <2>4, <2>5, ThreadFacts DEF HomeInv, Types, Holding
  <2> QED
    BY <2>6, <2>7, <2>8, <2>9, <2>10, <2>11, <2>12 DEF Order
<1> QED
  BY <1>2, <1>3 DEF IInv

(* Likewise, and a session without socket begins to go. *)
LEMMA TimerRunsInv ==
  ASSUME IInv, NEW t \in Threads, TimerRuns(t)
  PROVE  IInv'
<1>1. Types /\ (~early => Order)
  BY DEF IInv
<1>2. Types'
  <2>1. /\ where' \in [Sessions -> Threads]
        /\ player' \in [Sessions -> {"none", "out", "pushed", "in"}]
        /\ instance' \in [Sessions -> Threads]
        /\ why' \in [Threads -> Reasons]
    BY <1>1, ThreadFacts DEF Types, TimerRuns, LogoutPlayer, RemoveFromWorld, Goto, Reasons
  <2>2. at' \in [Threads -> Places]
    BY <1>1, GotoType DEF TimerRuns, LogoutPlayer, RemoveFromWorld, Places
  <2>3. bDeleted' \in [Sessions -> BOOLEAN]
    BY <1>1 DEF Types, TimerRuns, LogoutPlayer, RemoveFromWorld, Goto
  <2> QED
    BY <1>1, <2>1, <2>2, <2>3 DEF Types, TimerRuns, LogoutPlayer, RemoveFromWorld, Goto
<1>3. ASSUME ~early'
      PROVE  Order'
  <2>1. Types /\ ~early /\ PlaceInv /\ HoldInv /\ StepInv /\ AloneInv /\ LoopInv /\ GoneInv /\ HomeInv
    BY <1>1, <1>3 DEF Order, TimerRuns, LogoutPlayer, RemoveFromWorld, Goto
  <2>2. PICK x \in Sessions : x = cur[t] /\ x \in sessions[t] /\ ~freed[x] /\ x \notin todo[t]
    BY <2>1 DEF TimerRuns, Types, HoldInv, Ousting, Holding
  <2>3. \A u \in Threads : u # t /\ Holding(u) => cur[u] # x
    BY <2>1, <2>2 DEF TimerRuns, HoldInv, Ousting, Holding
  <2>4. /\ at[t] = "update" /\ instance[x] = t
        /\ IF where[x] = NoMap THEN t = World ELSE where[x] = t /\ t # World
    BY <2>1, <2>2, ThreadFacts DEF TimerRuns, PlaceInv, StepInv
  <2>5. /\ \A u \in Threads : u # t => at'[u] = at[u] /\ why'[u] = why[u]
        /\ why'[t] = IF socket[x] THEN "timer" ELSE "gone"
        /\ \/ at'[t] = "left" /\ t = World /\ UNCHANGED <<instance, player, where>>
           \/ /\ at'[t] = "adding" /\ t # World
              /\ \A y \in Sessions : /\ where'[y] = IF y = x THEN NoMap ELSE where[y]
                                     /\ player'[y] = IF y = x THEN "out" ELSE player[y]
                                     /\ instance'[y] = IF y = x THEN World ELSE instance[y]
        /\ UNCHANGED <<sessions, todo, dest, freed, cur>>
    BY <2>1, <2>2, <2>4, ThreadFacts DEF Types, TimerRuns, LogoutPlayer, RemoveFromWorld, Goto
  <2>6. /\ bDeleted'[x] <=> ~socket[x]
        /\ \A y \in Sessions : y # x => bDeleted'[y] = bDeleted[y]
    BY <2>1, <2>2 DEF Types, TimerRuns
  <2>7. PlaceInv'
    BY <2>1, <2>2, <2>3, <2>4, <2>5, <2>6, ThreadFacts DEF PlaceInv, Types, Holding
  <2>8. HoldInv'
    BY <2>1, <2>2, <2>3, <2>4, <2>5, <2>6, ThreadFacts DEF HoldInv, Ousting, Types, Holding
  <2>9. StepInv'
    BY <2>1, <2>2, <2>3, <2>4, <2>5, <2>6, ThreadFacts DEF StepInv, Types, Holding
  <2>10. AloneInv'
    BY <2>1, <2>2, <2>3, <2>4, <2>5, <2>6, ThreadFacts DEF AloneInv, Types, Holding, Going, Shared
  <2>11. LoopInv'
    BY <2>1, <2>2, <2>3, <2>4, <2>5, <2>6, ThreadFacts DEF LoopInv, Types, Holding
  <2>12. GoneInv'
    <3>1. /\ ~Going(t) /\ (Going(t)' <=> ~socket[x])
          /\ \A u \in Threads : u # t => (Going(u)' <=> Going(u)) /\ (Going(u) => cur[u] # x)
      BY <2>3, <2>4, <2>5 DEF Going, Holding
    <3>2. \A u \in Threads : Going(u)' => bDeleted'[cur'[u]]
      <4>1. Going(t)' => bDeleted'[cur'[t]]
        BY <2>2, <2>5, <2>6, <3>1
      <4>2. \A u \in Threads : u # t /\ Going(u)' => bDeleted'[cur'[u]]
        BY <2>1, <2>5, <2>6, <3>1 DEF GoneInv, Types
      <4> QED
        BY <4>1, <4>2
    <3>3. \A y \in Sessions : bDeleted'[y] /\ ~freed'[y] => \E u \in Threads : Going(u)' /\ cur'[u] = y
      <4> SUFFICES ASSUME NEW y \in Sessions, bDeleted'[y], ~freed'[y]
                   PROVE  \E u \in Threads : Going(u)' /\ cur'[u] = y
        OBVIOUS
      <4>1. CASE y = x
        BY <2>2, <2>5, <2>6, <3>1, <4>1
      <4>2. CASE y # x
        <5>1. bDeleted[y] /\ ~freed[y]
          BY <2>5, <2>6, <4>2
        <5>2. PICK u \in Threads : Going(u) /\ cur[u] = y
          BY <2>1, <5>1 DEF GoneInv
        <5>3. u # t
          BY <3>1, <5>2
        <5> QED
          BY <2>5, <3>1, <5>2, <5>3
      <4> QED
        BY <4>1, <4>2
    <3>4. \A y \in Sessions : freed'[y] => where'[y] = NoMap /\ \A u \in Threads : y \notin sessions'[u]
      BY <2>1, <2>2, <2>4, <2>5, <2>6 DEF GoneInv, Types, Shared
    <3> QED
      BY <3>2, <3>3, <3>4 DEF GoneInv
  <2>13. HomeInv'
    BY <2>1, <2>2, <2>3, <2>4, <2>5, <2>6, ThreadFacts DEF HomeInv, Types, Holding
  <2> QED
    BY <2>7, <2>8, <2>9, <2>10, <2>11, <2>12, <2>13 DEF Order
<1> QED
  BY <1>2, <1>3 DEF IInv

(* GlobalSessions gets the session, unless it goes. *)
LEMMA AddGlobalSessionInv ==
  ASSUME IInv, NEW t \in Threads, AddGlobalSession(t)
  PROVE  IInv'
<1>1. Types /\ (~early => Order)
  BY DEF IInv
<1>2. Types'
  <2>1. at' \in [Threads -> Places]
    BY <1>1, GotoType DEF AddGlobalSession, Places
  <2>2. sessions' \in [Threads -> SUBSET Sessions]
    <3>1. /\ sessions' = [sessions EXCEPT ![World] = sessions'[World]]
          /\ sessions'[World] = sessions[World] \/ sessions'[World] = sessions[World] \union {cur[t]}
      BY <1>1, ThreadFacts DEF Types, AddGlobalSession
    <3> QED
      BY <1>1, <3>1, ThreadFacts DEF Types
  <2> QED
    BY <1>1, <2>1, <2>2 DEF Types, AddGlobalSession, ToGlobal, Goto
<1>3. ASSUME ~early'
      PROVE  Order'
  <2>1. Types /\ ~early /\ PlaceInv /\ HoldInv /\ StepInv /\ AloneInv /\ LoopInv /\ GoneInv /\ HomeInv
    BY <1>1, <1>3 DEF Order, AddGlobalSession, ToGlobal, Goto
  <2>2. PICK x \in Sessions : /\ x = cur[t] /\ ~freed[x] /\ x \notin todo[t]
                              /\ why[t] # "push" => x \in sessions[t]
    BY <2>1 DEF AddGlobalSession, Types, HoldInv, Ousting, Holding
  <2>3. \A u \in Threads : u # t /\ Holding(u) => cur[u] # x
    BY <2>1, <2>2 DEF AddGlobalSession, HoldInv, Ousting, Holding
  <2>4. at[t] = "adding" /\ t # World /\ where[x] = NoMap /\ (bDeleted[x] <=> why[t] = "gone")
    <3>1. at[t] = "adding" /\ t # World /\ where[x] = NoMap
      BY <2>1, <2>2 DEF AddGlobalSession, LoopInv, StepInv
    <3>2. why[t] = "gone" => bDeleted[x]
      BY <2>1, <2>2, <3>1 DEF GoneInv, Going
    <3>3. bDeleted[x] => why[t] = "gone"
      BY <2>1, <2>2, <2>3, <3>1 DEF GoneInv, Going, Holding
    <3> QED
      BY <3>1, <3>2, <3>3
  <2>5. /\ \A u \in Threads : /\ at'[u] = IF u = t THEN "left" ELSE at[u]
                              /\ u # World => sessions'[u] = sessions[u]
        /\ sessions'[World] = IF why[t] = "gone" THEN sessions[World] ELSE sessions[World] \union {x}
        /\ UNCHANGED <<instance, player, where, bDeleted, freed, cur, dest, todo, why>>
    BY <2>1, <2>2, <2>4, ThreadFacts DEF Types, AddGlobalSession, ToGlobal, Goto
  <2>6. \A u \in Threads : sessions[u] \subseteq sessions'[u] /\ \A y \in sessions'[u] : y = x \/ y \in sessions[u]
    BY <2>5, ThreadFacts
  <2>7. PlaceInv'
    BY <2>1, <2>2, <2>3, <2>4, <2>5, <2>6, ThreadFacts DEF PlaceInv, Types, Holding
  <2>8. HoldInv'
    BY <2>1, <2>2, <2>3, <2>4, <2>5, <2>6, ThreadFacts DEF HoldInv, Ousting, Types, Holding
  <2>9. StepInv'
    BY <2>1, <2>2, <2>3, <2>4, <2>5, <2>6, ThreadFacts DEF StepInv, Types, Holding
  <2>10. AloneInv'
    <3> SUFFICES ASSUME NEW u \in Threads,
                        at'[u] = "update" \/ Going(u)' \/ (u = World /\ at'[u] = "left")
                 PROVE  ~Shared(u, cur[u])'
      BY DEF AloneInv
    <3>1. CASE u = t
      BY <2>1, <2>2, <2>4, <2>5, <3>1 DEF AloneInv, Going, Shared
    <3>2. CASE u # t
      BY <2>1, <2>3, <2>5, <2>6, <3>2 DEF AloneInv, Going, Shared, Holding
    <3> QED
      BY <3>1, <3>2
  <2>11. LoopInv'
    BY <2>1, <2>2, <2>3, <2>4, <2>5, <2>6, ThreadFacts DEF LoopInv, Types, Holding
  <2>12. GoneInv'
    <3>1. \A u \in Threads : Going(u)' <=> Going(u)
      BY <2>4, <2>5 DEF Going
    <3>2. \A u \in Threads : Going(u)' => bDeleted'[cur'[u]]
      BY <2>1, <2>5, <3>1 DEF GoneInv, Types
    <3>3. \A y \in Sessions : bDeleted'[y] /\ ~freed'[y] => \E u \in Threads : Going(u)' /\ cur'[u] = y
      BY <2>1, <2>5, <3>1 DEF GoneInv, Types
    <3>4. \A y \in Sessions : freed'[y] => where'[y] = NoMap /\ \A u \in Threads : y \notin sessions'[u]
      BY <2>1, <2>2, <2>4, <2>5, <2>6 DEF GoneInv, Types, Shared
    <3> QED
      BY <3>2, <3>3, <3>4 DEF GoneInv
  <2>13. HomeInv'
    <3>1. \A u \in Threads : Holding(u) => Holding(u)'
      BY <2>4, <2>5 DEF Holding
    <3> QED
      BY <2>1, <2>5, <2>6, <3>1 DEF HomeInv, Types
  <2> QED
    BY <2>7, <2>8, <2>9, <2>10, <2>11, <2>12, <2>13 DEF Order
<1> QED
  BY <1>2, <1>3 DEF IInv

(* The rest: the session is in GlobalSessions, or nowhere else when it goes. *)
LEMMA LeftInv ==
  ASSUME IInv, NEW t \in Threads, Left(t)
  PROVE  IInv'
<1>1. Types /\ (~early => Order)
  BY DEF IInv
<1>2. Types'
  <2>1. player' \in [Sessions -> {"none", "out", "pushed", "in"}]
    BY <1>1, ThreadFacts DEF Types, Left, AfterHandler, Goto, Erase
  <2>2. at' \in [Threads -> Places]
    BY <1>1, GotoType DEF Left, AfterHandler, Places
  <2>3. sessions' \in [Threads -> SUBSET Sessions]
    <3>1. UNCHANGED sessions \/ Erase(t, cur[t])
      BY DEF Left, AfterHandler
    <3> QED
      BY <1>1, <3>1, EraseType DEF Types
  <2>4. /\ timer' \in [Sessions -> BOOLEAN]
        /\ freed' \in [Sessions -> BOOLEAN]
    BY <1>1 DEF Types, Left, AfterHandler, Goto, Erase
  <2> QED
    BY <1>1, <2>1, <2>2, <2>3, <2>4 DEF Types, Left, AfterHandler, Goto, Erase
<1>3. ASSUME ~early'
      PROVE  Order'
  <2>1. Types /\ ~early /\ PlaceInv /\ HoldInv /\ StepInv /\ AloneInv /\ LoopInv /\ GoneInv /\ HomeInv
    BY <1>1, <1>3 DEF Order, Left, AfterHandler, Goto, Erase
  <2>2. PICK x \in Sessions : /\ x = cur[t] /\ ~freed[x] /\ x \notin todo[t]
                              /\ why[t] # "push" => x \in sessions[t]
    BY <2>1 DEF Left, Types, HoldInv, Ousting, Holding
  <2>3. \A u \in Threads : u # t /\ Holding(u) => cur[u] # x
    BY <2>1, <2>2 DEF Left, HoldInv, Ousting, Holding
  <2>4. /\ at[t] = "left" /\ where[x] = NoMap /\ instance[x] = World
        /\ why[t] # "gone" => x \in sessions[World]
        /\ why[t] \in {"units", "push"} => t # World /\ todo[t] = {}
        /\ why[t] = "gone" \/ t = World => ~Shared(t, x)
    BY <2>1, <2>2 DEF Left, PlaceInv, StepInv, LoopInv, AloneInv, Going
  <2>5. /\ \A u \in Threads : u # t => at'[u] = at[u] /\ sessions'[u] = sessions[u]
        /\ \/ why[t] \in {"units", "push"} /\ at'[t] = why[t] /\ sessions'[t] = sessions[t]
           \/ why[t] \in {"teleport", "packet"} /\ t = World /\ at'[t] = "update"
                /\ sessions'[t] = sessions[t]
           \/ why[t] \in {"teleport", "packet"} /\ t # World /\ at'[t] = "loop"
                /\ sessions'[t] = sessions[t] \ {x}
           \/ why[t] = "timer" /\ at'[t] = "ping" /\ sessions'[t] = sessions[t]
           \/ why[t] = "gone" /\ at'[t] = "loop" /\ sessions'[t] = sessions[t] \ {x}
    BY <2>1, <2>2, <2>4 DEF Types, Left, AfterHandler, Goto, Erase
  <2>6. /\ \A y \in Sessions : /\ freed'[y] = (freed[y] \/ (y = x /\ why[t] = "gone"))
                               /\ y # x => player'[y] = player[y]
        /\ player'[x] = player[x] \/ player'[x] = "none"
        /\ UNCHANGED <<instance, where, bDeleted, cur, dest, todo, why>>
    BY <2>1, <2>2 DEF Types, Left
  <2>7. PlaceInv'
    BY <2>1, <2>2, <2>3, <2>4, <2>5, <2>6, ThreadFacts DEF PlaceInv, Types, Holding
  <2>8. HoldInv'
    BY <2>1, <2>2, <2>3, <2>4, <2>5, <2>6, ThreadFacts DEF HoldInv, Ousting, Types, Holding
  <2>9. StepInv'
    BY <2>1, <2>2, <2>3, <2>4, <2>5, <2>6, ThreadFacts DEF StepInv, Types, Holding
  <2>10. AloneInv'
    BY <2>1, <2>2, <2>3, <2>4, <2>5, <2>6, ThreadFacts DEF AloneInv, Types, Holding, Going, Shared
  <2>11. LoopInv'
    BY <2>1, <2>2, <2>3, <2>4, <2>5, <2>6, ThreadFacts DEF LoopInv, Types, Holding
  <2>12. GoneInv'
    <3>1. /\ ~Going(t)' /\ (Going(t) => why[t] = "gone")
          /\ \A u \in Threads : u # t => (Going(u)' <=> Going(u))
      BY <2>5, <2>6 DEF Going
    <3>2. \A u \in Threads : Going(u)' => bDeleted'[cur'[u]]
      BY <2>1, <2>2, <2>6, <3>1 DEF GoneInv, Types
    <3>3. \A y \in Sessions : bDeleted'[y] /\ ~freed'[y] => \E u \in Threads : Going(u)' /\ cur'[u] = y
      BY <2>1, <2>2, <2>6, <3>1 DEF GoneInv, Types
    <3>4. \A y \in Sessions : freed'[y] => where'[y] = NoMap /\ \A u \in Threads : y \notin sessions'[u]
      <4>1. why[t] = "gone" => \A u \in Threads : x \notin sessions'[u]
        BY <2>4, <2>5 DEF Shared
      <4>2. \A u \in Threads : sessions'[u] \subseteq sessions[u]
        BY <2>5
      <4> QED
        BY <2>1, <2>4, <2>6, <4>1, <4>2 DEF GoneInv, Types
    <3> QED
      BY <3>2, <3>3, <3>4 DEF GoneInv
  <2>13. HomeInv'
    <3>1. ~freed'[x] => x \in sessions'[instance'[x]] \/ Holding(t)'
      BY <2>1, <2>2, <2>4, <2>5, <2>6, ThreadFacts DEF Types, Holding
    <3>2. \A u \in Threads : u # t /\ Holding(u) => Holding(u)'
      BY <2>5 DEF Holding
    <3>3. ASSUME NEW y \in Sessions, y # x, ~freed'[y]
          PROVE  \/ y \in sessions'[instance'[y]]
                 \/ player'[y] = "pushed" /\ where'[y] = instance'[y]
                 \/ \E u \in Threads : Holding(u)' /\ cur'[u] = y
      <4>1. /\ ~freed[y] /\ player'[y] = player[y]
            /\ \A u \in Threads : y \in sessions[u] => y \in sessions'[u]
        BY <2>5, <2>6, <3>3
      <4> QED
        BY <2>1, <2>2, <2>6, <3>2, <3>3, <4>1 DEF HomeInv, Types
    <3> QED
      BY <2>2, <2>6, <3>1, <3>3 DEF HomeInv
  <2> QED
    BY <2>7, <2>8, <2>9, <2>10, <2>11, <2>12, <2>13 DEF Order
<1> QED
  BY <1>2, <1>3 DEF IInv

(* The session is put down where its instance id says. *)
LEMMA PingTimeoutInv ==
  ASSUME IInv, NEW t \in Threads, PingTimeout(t)
  PROVE  IInv'
<1>1. Types /\ (~early => Order)
  BY DEF IInv
<1>2. Types'
  <2>1. at' \in [Threads -> Places]
    BY <1>1, GotoType DEF PingTimeout, Places
  <2>2. /\ timer' \in [Sessions -> BOOLEAN]
        /\ socket' \in [Sessions -> BOOLEAN]
    BY <1>1 DEF Types, PingTimeout, Goto
  <2> QED
    BY <1>1, <2>1, <2>2 DEF Types, PingTimeout, Goto
<1>3. ASSUME ~early'
      PROVE  Order'
  <2>1. Types /\ ~early /\ PlaceInv /\ HoldInv /\ StepInv /\ AloneInv /\ LoopInv /\ GoneInv /\ HomeInv
    BY <1>1, <1>3 DEF Order, PingTimeout, Goto
  <2>2. PICK x \in Sessions : x = cur[t] /\ x \in sessions[t] /\ ~freed[x] /\ x \notin todo[t]
    BY <2>1 DEF PingTimeout, Types, HoldInv, Ousting, Holding
  <2>3. x \in sessions[instance[x]]
    BY <2>1, <2>2, ThreadFacts DEF PingTimeout, StepInv, PlaceInv
  <2>4. PlaceInv'
    BY <2>1, ThreadFacts DEF PlaceInv, Types, PingTimeout, Goto
  <2>5. HoldInv'
    BY <2>1, ThreadFacts DEF HoldInv, Ousting, Types, PingTimeout, Goto, Holding
  <2>6. StepInv'
    BY <2>1, ThreadFacts DEF StepInv, Types, PingTimeout, Goto
  <2>7. AloneInv'
    BY <2>1, ThreadFacts DEF AloneInv, Types, PingTimeout, Goto, Going, Shared
  <2>8. LoopInv'
    BY <2>1, ThreadFacts DEF LoopInv, Types, PingTimeout, Goto
  <2>9. GoneInv'
    BY <2>1, ThreadFacts DEF GoneInv, Types, PingTimeout, Goto, Going
  <2>10. HomeInv'
    BY <2>1, ThreadFacts, <2>2, <2>3 DEF HomeInv, Types, PingTimeout, Goto, Holding
  <2> QED
    BY <2>4, <2>5, <2>6, <2>7, <2>8, <2>9, <2>10 DEF Order
<1> QED
  BY <1>2, <1>3 DEF IInv

(* Likewise. *)
LEMMA EndUpdateInv ==
  ASSUME IInv, NEW t \in Threads, EndUpdate(t)
  PROVE  IInv'
<1>1. Types /\ (~early => Order)
  BY DEF IInv
<1>2. Types'
  <2>1. at' \in [Threads -> Places]
    BY <1>1, GotoType DEF EndUpdate, Places
  <2>2. sessions' \in [Threads -> SUBSET Sessions]
    <3>1. UNCHANGED sessions \/ Erase(t, cur[t])
      BY DEF EndUpdate
    <3> QED
      BY <1>1, <3>1, EraseType DEF Types
  <2> QED
    BY <1>1, <2>1, <2>2 DEF Types, EndUpdate, Goto, Erase
<1>3. ASSUME ~early'
      PROVE  Order'
  <2>1. Types /\ ~early /\ PlaceInv /\ HoldInv /\ StepInv /\ AloneInv /\ LoopInv /\ GoneInv /\ HomeInv
    BY <1>1, <1>3 DEF Order, EndUpdate, Goto, Erase
  <2>2. PICK x \in Sessions : /\ x = cur[t] /\ x \in sessions[t] /\ at[t] \in {"update", "ping"}
    BY <2>1 DEF EndUpdate, Types, HoldInv, Ousting, Holding
  <2>3. x \in sessions[instance[x]] /\ UNCHANGED sessions
    BY <2>1, <2>2, ThreadFacts DEF EndUpdate, StepInv, PlaceInv
  <2>4. /\ \A u \in Threads : at'[u] = IF u = t THEN "loop" ELSE at[u]
        /\ UNCHANGED <<instance, player, where, bDeleted, freed, cur, dest, todo, why>>
    BY <2>1 DEF Types, EndUpdate, Goto
  <2>5. PlaceInv'
    BY <2>1, <2>2, <2>3, <2>4, ThreadFacts DEF PlaceInv, Types, Holding
  <2>6. HoldInv'
    BY <2>1, <2>2, <2>3, <2>4, ThreadFacts DEF HoldInv, Ousting, Types, Holding
  <2>7. StepInv'
    BY <2>1, <2>2, <2>3, <2>4, ThreadFacts DEF StepInv, Types, Holding
  <2>8. AloneInv'
    BY <2>1, <2>2, <2>3, <2>4, ThreadFacts DEF AloneInv, Types, Holding, Going, Shared
  <2>9. LoopInv'
    BY <2>1, <2>2, <2>3, <2>4, ThreadFacts DEF LoopInv, Types, Holding
  <2>10. GoneInv'
    BY <2>1, <2>2, <2>3, <2>4, ThreadFacts DEF GoneInv, Types, Holding, Going
  <2>11. HomeInv'
    BY <2>1, <2>2, <2>3, <2>4, ThreadFacts DEF HomeInv, Types, Holding
  <2> QED
    BY <2>5, <2>6, <2>7, <2>8, <2>9, <2>10, <2>11 DEF Order
<1> QED
  BY <1>2, <1>3 DEF IInv

(* The socket is no part of it. *)
LEMMA CloseInv ==
  ASSUME IInv, NEW s \in Sessions, Close(s)
  PROVE  IInv'
<1>1. Types /\ (~early => Order)
  BY DEF IInv
<1>2. Types'
  BY <1>1, ThreadFacts DEF Types, Close, thread
<1>3. ASSUME ~early'
      PROVE  Order'
  <2>1. Types /\ ~early /\ PlaceInv /\ HoldInv /\ StepInv /\ AloneInv /\ LoopInv /\ GoneInv /\ HomeInv
    BY <1>1, <1>3 DEF Order, Close, thread
  <2>2. PlaceInv' /\ HoldInv' /\ StepInv' /\ AloneInv' /\ LoopInv' /\ GoneInv' /\ HomeInv'
    BY <2>1 DEF PlaceInv, HoldInv, Ousting, StepInv, AloneInv, LoopInv, GoneInv, HomeInv, Close, thread,
     Holding, Going, Shared
  <2> QED
    BY <2>2 DEF Order
<1> QED
  BY <1>2, <1>3 DEF IInv

-----------------------------------------------------------------------------
(* The program starts in it ... *)
LEMMA InitInv == Init => IInv
<1> SUFFICES ASSUME Init
             PROVE  IInv
  OBVIOUS
<1>1. Types
  <2>1. packets \in [Sessions -> Nat] /\ \A s \in Sessions : packets[s] <= MaxPackets[s]
    BY HandoverAssumption DEF Init
  <2>2. /\ sessions \in [Threads -> SUBSET Sessions] /\ todo \in [Threads -> SUBSET Sessions]
        /\ instance \in [Sessions -> Threads] /\ where \in [Sessions -> Threads]
        /\ player \in [Sessions -> {"none", "out", "pushed", "in"}]
    BY ThreadFacts DEF Init
  <2>3. /\ socket \in [Sessions -> BOOLEAN] /\ timer \in [Sessions -> BOOLEAN]
        /\ bDeleted \in [Sessions -> BOOLEAN] /\ freed \in [Sessions -> BOOLEAN] /\ early \in BOOLEAN
    BY DEF Init
  <2>4. /\ at \in [Threads -> Places] /\ cur \in [Threads -> Sessions]
        /\ dest \in [Threads -> Threads] /\ why \in [Threads -> Reasons]
    BY ThreadFacts DEF Init, Places, Reasons
  <2> QED
    BY <2>1, <2>2, <2>3, <2>4 DEF Types
<1>2. /\ \A t \in Threads : ~Holding(t) /\ ~Going(t) /\ todo[t] = {} /\ at[t] \in {"idle", "push"}
      /\ \A s \in Sessions : /\ where[s] = NoMap /\ instance[s] = World /\ player[s] = "none"
                             /\ ~bDeleted[s] /\ ~freed[s] /\ s \in sessions[World]
  BY ThreadFacts DEF Init, Holding, Going
<1>3. PlaceInv /\ HoldInv /\ StepInv /\ AloneInv
  BY <1>2 DEF PlaceInv, HoldInv, Ousting, StepInv, AloneInv
<1>4. LoopInv /\ GoneInv /\ HomeInv
  BY <1>2 DEF LoopInv, GoneInv, HomeInv
<1> QED
  BY <1>1, <1>3, <1>4 DEF IInv, Order

(* ... and stays there. *)
LEMMA NextInv == IInv /\ [Next]_vars => IInv'
<1> SUFFICES ASSUME IInv, [Next]_vars
             PROVE  IInv'
  OBVIOUS
<1>1. ASSUME NEW t \in Threads, Runs(t)
      PROVE  IInv'
  BY <1>1, BeginLoopInv, EndLoopInv, AddObjectInv, SetInstanceInv, LeftInv, EndUpdateInv, MovedInv, UpdateInv DEF Runs
<1>2. ASSUME NEW t \in Threads,
             \/ AddGlobalSession(t) \/ TimerRuns(t) \/ PingTimeout(t)
             \/ AddToWorld(t) \/ AddFails(t) \/ Teleport(t) \/ LogoutTimer(t) \/ PlayerLogout(t)
      PROVE  IInv'
  BY <1>2, AddGlobalSessionInv, TimerRunsInv, PingTimeoutInv, AddToWorldInv, AddFailsInv, TeleportInv,
     LogoutTimerInv, PlayerLogoutInv
<1>3. ASSUME NEW m \in Maps, MapRuns(m) \/ \E s \in Sessions : PutOut(m, s) \/ MoveOut(m, s)
      PROVE  IInv'
  BY <1>3, PoolEmptyInv, PushToWorldInv, ElsewhereInv, PutOutInv, MoveOutInv DEF MapRuns
<1>4. ASSUME NEW s \in Sessions, Close(s)
      PROVE  IInv'
  BY <1>4, CloseInv
<1>5. CASE UNCHANGED vars
  BY <1>5 DEF vars, thread, IInv, Types, Order, PlaceInv, HoldInv, Ousting, StepInv, AloneInv, LoopInv, GoneInv,
              HomeInv, Holding, Going, Shared
<1> QED
  BY <1>1, <1>2, <1>3, <1>4, <1>5 DEF Next

(* The inductive invariant holds in every reachable state. *)
THEOREM Invariant == Spec => []IInv
  BY InitInv, NextInv, PTL DEF Spec

(* Every component keeps its type, and a player has a map just when he is  *)
(* in the world or in an insert pool.                                      *)
THEOREM TypeCorrect == Spec => []TypeOK
<1>1. IInv => TypeOK
  <2> SUFFICES ASSUME IInv
               PROVE  TypeOK
    OBVIOUS
  <2>1. Threads = {NoMap} \union Maps
    BY ThreadFacts
  <2>2. early \/ \A s \in Sessions : where[s] # NoMap <=> player[s] \in {"pushed", "in"}
    BY DEF IInv, Order, PlaceInv
  <2> QED
    BY <2>1, <2>2 DEF IInv, Types, TypeOK, Places
<1> QED
  BY <1>1, Invariant, PTL

(* While no thread takes up a session early: a live session is in the list *)
(* its instanceId names, in that map's pool or in a thread's hands, and a  *)
(* deleted one is nowhere.                                                 *)
THEOREM SessionsKept == Spec => []OneHome
<1>1. IInv => OneHome
  <2> SUFFICES ASSUME IInv, ~early, NEW s \in Sessions
               PROVE  IF freed[s] THEN \A t \in Threads : s \notin sessions[t] \union todo[t] /\ ~Holds(t, s)
                      ELSE \/ s \in sessions[instance[s]]
                           \/ player[s] = "pushed" /\ where[s] = instance[s]
                           \/ \E t \in Threads : Holds(t, s)
    BY DEF OneHome
  <2>1. HoldInv /\ LoopInv /\ GoneInv /\ HomeInv
    BY DEF IInv, Order
  <2>2. CASE freed[s]
    BY <2>1, <2>2 DEF HoldInv, Ousting, LoopInv, GoneInv, Holds, Holding
  <2>3. CASE ~freed[s]
    BY <2>1, <2>3 DEF HomeInv, Holds, Holding
  <2> QED
    BY <2>2, <2>3
<1> QED
  BY <1>1, Invariant, PTL
=============================================================================
