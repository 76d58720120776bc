-------------------------- MODULE ThreadPoolProofs --------------------------
(***************************************************************************)
(* For any set of Thread objects, any tasks and any counts: the pool never *)
(* lists a deleted thread, no thread sleeps on a task, and _threadsEaten   *)
(* never exceeds the free threads of a pool whose calls find it settled.   *)
(***************************************************************************)
EXTENDS ThreadPool, FiniteSetTheorems, TLAPS

(* The strengthening.  A free thread that is not marked for deletion waits *)
(* with no post pending; an unmarked thread has a post only while it waits *)
(* outside the free set, and then one; a thread past its test of           *)
(* ExecutionTarget that has been given a task since has a post for it.     *)
Posts ==
  \A t \in Threads :
    /\ t \in free /\ ~flagged[t] => pc[t] = "waiting" /\ sem[t] = 0
    /\ ~flagged[t] /\ pc[t] # "waiting" => sem[t] = 0
    /\ ~flagged[t] => sem[t] <= 1
    /\ pc[t] \in {"exit", "waiting"} /\ target[t] # NoTask => sem[t] > 0

IInv == Types /\ NoDangling /\ Posts

(* The kills a thread has yet to answer: one for each post, and one it has *)
(* taken the post of.  Marks has them all, for the threads listed as free. *)
Unanswered(t) == sem[t] + (IF pc[t] = "waiting" THEN 0 ELSE 1)
Marks == {p \in Threads \X Nat : p[1] \in free /\ p[2] < Unanswered(p[1])}

(* While every call finds the pool settled: a thread outside the free set  *)
(* has a post only when it waits, and then one; a free thread has no task; *)
(* who is about to call ThreadExit has none either.                        *)
Calm ==
  \A t \in Threads :
    /\ t \notin free /\ pc[t] # "none" => sem[t] <= 1 /\ (pc[t] # "waiting" => sem[t] = 0)
    /\ t \in free => target[t] = NoTask /\ pc[t] \in {"waiting", "loop", "exit"}
    /\ pc[t] = "exit" => target[t] = NoTask

(* Then _threadsEaten is at most the free threads less the unanswered      *)
(* kills, and not negative while there are any.                            *)
Count ==
  /\ IsFiniteSet(Marks)
  /\ eaten + Cardinality(Marks) <= Cardinality(free)
  /\ Marks # {} => eaten >= 0

CountInv == IInv /\ (phase = "up" /\ ~hasty => Calm /\ Count)

USE CountsAssumption, ThreadsAssumption

(* Startup's threads satisfy the invariant. *)
LEMMA InitInv == Init => IInv
<1> SUFFICES ASSUME Init
             PROVE  IInv
  OBVIOUS
<1>1. hasty \in BOOLEAN
  BY Zenon DEF Init
<1> QED
  BY <1>1 DEF Init, IInv, Types, NoDangling, Posts, Live, Subsets

(* ExecuteTask and Shutdown note whether the pool was settled. *)
LEMMA CalledType == IInv /\ Called => hasty' \in BOOLEAN
  BY Zenon DEF Called, IInv, Types

(* ExecuteTask keeps it. *)
LEMMA ExecuteInv ==
  ASSUME IInv, NEW k \in Tasks, ExecuteTask(k)
  PROVE  IInv'
<1>1. CASE \E t \in free : GiveTo(t, k)
  <2>1. PICK t \in free : GiveTo(t, k)
    BY <1>1
  <2>2. /\ sem' = [sem EXCEPT ![t] = @ + 1] /\ target' = [target EXCEPT ![t] = k]
        /\ free' = free \ {t} /\ active' = active \union {t}
        /\ UNCHANGED <<pc, flagged, toExit, phase>>
        /\ eaten' = eaten - 1 /\ task' = [task EXCEPT ![k] = "given"]
        /\ hasty' \in BOOLEAN
    BY <2>1, CalledType DEF ExecuteTask, GiveTo
  <2>3. Types'
    BY <2>2 DEF IInv, Types
  <2>4. NoDangling'
    BY <2>1, <2>2 DEF IInv, Types, NoDangling, Live
  <2>5. Posts'
    BY <2>1, <2>2 DEF IInv, Types, Posts
  <2> QED
    BY <2>3, <2>4, <2>5 DEF IInv
<1>2. CASE free = {} /\ UNCHANGED free
           /\ \E t \in Unused : Started({t}, k) /\ active' = active \union {t}
  <2>1. PICK t \in Unused : Started({t}, k) /\ active' = active \union {t}
    BY <1>2
  <2>2. UNCHANGED <<free, toExit, phase>> /\ eaten' = eaten - 1
        /\ task' = [task EXCEPT ![k] = "given"] /\ hasty' \in BOOLEAN
    BY <1>2, CalledType DEF ExecuteTask
  <2>6. t \in Threads /\ Types
    BY DEF Unused, IInv
  <2>7. /\ pc' = [s \in Threads |-> IF s = t THEN "loop" ELSE pc[s]]
        /\ target' = [s \in Threads |-> IF s = t THEN k ELSE target[s]]
        /\ flagged' = [s \in Threads |-> IF s = t THEN FALSE ELSE flagged[s]]
        /\ sem' = [s \in Threads |-> IF s = t THEN 0 ELSE sem[s]]
    BY <2>1 DEF Started
  <2>3. Types'
    <3>1. flagged' \in [Threads -> BOOLEAN]
      BY <2>6, <2>7, Zenon DEF Types
    <3>2. /\ pc' \in [Threads -> {"none", "loop", "running", "exit", "waiting"}]
          /\ target' \in [Threads -> Tasks \union {NoTask}]
          /\ sem' \in [Threads -> Nat]
      BY <2>6, <2>7 DEF Types
    <3>3. /\ active' \subseteq Threads /\ free' \subseteq Threads /\ toExit' \in Nat
          /\ eaten' \in Int /\ phase' \in {"up", "stopping", "stopped"}
      BY <2>1, <2>2, <2>6 DEF Types
    <3>4. task' \in [Tasks -> {"new", "given", "started", "done"}]
      BY <2>2, <2>6 DEF Types
    <3> QED
      BY <2>2, <3>1, <3>2, <3>3, <3>4 DEF Types
  <2>4. NoDangling'
    BY <2>1, <2>2 DEF IInv, NoDangling, Live, Started, Unused
  <2>5. Posts'
    BY <1>2, <2>1, <2>2 DEF IInv, Posts, Started, Unused, Types
  <2> QED
    BY <2>3, <2>4, <2>5 DEF IInv
<1> QED
  BY <1>1, <1>2 DEF ExecuteTask

(* The steps of thread_proc keep it. *)
LEMMA ThreadInv ==
  ASSUME IInv, NEW t \in Threads, TestTarget(t) \/ Finish(t) \/ ThreadExit(t) \/ Resumed(t)
  PROVE  IInv'
<1>1. CASE TestTarget(t)
  BY <1>1 DEF IInv, Types, NoDangling, Posts, Live, TestTarget
<1>2. CASE Finish(t)
  BY <1>2 DEF IInv, Types, NoDangling, Posts, Live, Finish
<1>3. CASE ThreadExit(t)
  <2>1. CASE Leave(t) /\ toExit > 0
    BY <1>3, <2>1 DEF IInv, Types, NoDangling, Posts, Live, ThreadExit, Leave
  <2>2. CASE JoinFree(t)
    BY <1>3, <2>2 DEF IInv, Types, NoDangling, Posts, Live, ThreadExit, JoinFree
  <2> QED
    BY <1>3, <2>1, <2>2 DEF ThreadExit
<1>4. CASE Resumed(t)
  <2>1. Types'
    BY <1>4 DEF IInv, Types, Resumed
  <2>2. NoDangling'
    BY <1>4 DEF IInv, Types, NoDangling, Live, Resumed
  <2>3. Posts'
    BY <1>4 DEF IInv, Types, Posts, Resumed
  <2> QED
    BY <2>1, <2>2, <2>3 DEF IInv
<1> QED
  BY <1>1, <1>2, <1>3, <1>4

(* Marking free threads keeps everything that is said of pointers and      *)
(* posts (KillFreeThreads, from IntegrityCheck and Shutdown).              *)
LEMMA KillInv ==
  ASSUME IInv, NEW K \in SUBSET free, KillFreeThreads(K), UNCHANGED <<pc, free, active, task>>
  PROVE  /\ NoDangling' /\ Posts'
         /\ target' \in [Threads -> Tasks \union {NoTask}]
         /\ flagged' \in [Threads -> BOOLEAN] /\ sem' \in [Threads -> Nat]
<1>1. NoDangling'
  BY DEF IInv, NoDangling, Live
<1>2. \A t \in Threads : t \in K =>
        target'[t] = NoTask /\ flagged'[t] = TRUE /\ sem'[t] = sem[t] + 1
  BY DEF KillFreeThreads
<1>3. \A t \in Threads : t \notin K =>
        target'[t] = target[t] /\ flagged'[t] = flagged[t] /\ sem'[t] = sem[t]
  BY DEF KillFreeThreads, IInv, Types
<1>4. Posts'
  BY <1>2, <1>3 DEF IInv, Posts, Types
<1>5. /\ target' \in [Threads -> Tasks \union {NoTask}]
      /\ flagged' \in [Threads -> BOOLEAN] /\ sem' \in [Threads -> Nat]
  BY DEF KillFreeThreads, IInv, Types
<1> QED
  BY <1>1, <1>4, <1>5

(* Every step keeps the invariant. *)
LEMMA NextInv == IInv /\ [Next]_vars => IInv'
<1> SUFFICES ASSUME IInv, [Next]_vars
             PROVE  IInv'
  OBVIOUS
<1>1. CASE \E k \in Tasks : ExecuteTask(k)
  BY <1>1, ExecuteInv
<1>2. CASE \E t \in Threads : TestTarget(t) \/ Finish(t) \/ ThreadExit(t) \/ Resumed(t)
  BY <1>2, ThreadInv
<1>3. CASE ExcessKilled
  <2>1. PICK n \in 0 .. eaten - CheckCount : \E K \in Subsets(free, n) :
          KillFreeThreads(K) /\ toExit' = toExit + n
    BY <1>3 DEF ExcessKilled
  <2>2. PICK K \in Subsets(free, n) : KillFreeThreads(K) /\ toExit' = toExit + n
    BY <2>1
  <2>3. K \in SUBSET free /\ toExit' \in Nat /\ eaten' \in Int
    BY <1>3, <2>1, <2>2 DEF Subsets, IInv, Types, ExcessKilled, EatenAfterKill
  <2>4. UNCHANGED <<pc, free, active, task, phase, hasty>>
    BY <1>3 DEF ExcessKilled
  <2> QED
    BY <2>2, <2>3, <2>4, KillInv DEF IInv, Types
<1>4. CASE DeficitStarted
  <2>1. PICK S \in Subsets(Unused, NewThreads) : Started(S, NoTask)
    BY <1>4 DEF DeficitStarted
  <2>2. S \subseteq Unused /\ UNCHANGED <<free, active, toExit, task, phase, hasty>> /\ eaten' \in Int
    BY <1>4 DEF Subsets, DeficitStarted, IInv, Types
  <2>3. Types'
    BY <2>1, <2>2 DEF IInv, Types, Started, Unused
  <2>4. NoDangling'
    BY <2>1, <2>2 DEF IInv, NoDangling, Live, Started, Unused
  <2>5. Posts'
    BY <2>1, <2>2 DEF IInv, Posts, NoDangling, Live, Started, Unused, Types
  <2> QED
    BY <2>3, <2>4, <2>5 DEF IInv
<1>5. CASE Shutdown
  <2>1. IsFiniteSet(free) /\ IsFiniteSet(active)
    BY FS_Subset DEF IInv, Types
  <2>2. Cardinality(free) \in Nat /\ Cardinality(active) \in Nat
    BY <2>1, FS_CardinalityType
  <2>3. toExit' \in Nat
    BY <1>5, <2>2 DEF IInv, Types, Shutdown, ShutdownTokens
  <2>4. /\ KillFreeThreads(free) /\ UNCHANGED <<pc, free, active, eaten, task>>
        /\ phase' = "stopping" /\ hasty' \in BOOLEAN
    BY <1>5, CalledType DEF Shutdown
  <2> QED
    BY <2>3, <2>4, KillInv DEF IInv, Types
<1>6. CASE ShutdownReturns
  BY <1>6 DEF IInv, Types, NoDangling, Posts, Live, ShutdownReturns
<1>7. CASE UNCHANGED vars
  BY <1>7 DEF vars, IInv, Types, NoDangling, Posts, Live
<1> QED
  BY <1>1, <1>2, <1>3, <1>4, <1>5, <1>6, <1>7 DEF Next

(* The invariant holds of every reachable pool. *)
THEOREM Invariant == Spec => []IInv
  BY InitInv, NextInv, PTL DEF Spec

(* No Thread object is deleted while m_freeThreads or m_activeThreads      *)
(* holds it, however IntegrityCheck's kills, ExecuteTask's hand-overs and  *)
(* ThreadExit interleave.                                                  *)
THEOREM NoUseAfterDelete == Spec => []NoDangling
<1>1. IInv => NoDangling
  BY DEF IInv
<1> QED
  BY <1>1, Invariant, PTL

(* A thread in sem_wait with an ExecutionTarget has a post to wake it. *)
THEOREM NoLostWakeup == Spec => []NoSleepOnTask
<1>1. IInv => NoSleepOnTask
  BY DEF IInv, Posts, NoSleepOnTask, Live
<1> QED
  BY <1>1, Invariant, PTL
-----------------------------------------------------------------------------
(* What ~hasty' says of a call: the pool was settled, and every one before. *)
LEMMA CalledSettled == IInv /\ Called /\ ~hasty' => phase = "up" /\ ~hasty /\ Settled
  BY Zenon DEF Called, IInv, Types

(* The sets of the pool are finite. *)
LEMMA Finite == IInv => IsFiniteSet(free) /\ Cardinality(free) \in Nat
<1>1. IInv => IsFiniteSet(free)
  BY FS_Subset DEF IInv, Types
<1> QED
  BY <1>1, FS_CardinalityType

(* A settled pool has answered every kill. *)
LEMMA SettledAnswered == IInv /\ Calm /\ Settled => Marks = {}
<1> SUFFICES ASSUME IInv, Calm, Settled
             PROVE  Marks = {}
  OBVIOUS
<1>1. ASSUME NEW t \in free
      PROVE  Unanswered(t) = 0
  <2>1. t \in Live /\ t \in Threads
    BY DEF IInv, Types, NoDangling
  <2>2. pc[t] = "waiting" /\ sem[t] = 0
    BY <2>1 DEF Settled, Calm
  <2> QED
    BY <2>2 DEF Unanswered
<1> QED
  BY <1>1 DEF Marks

(* The count survives a step that keeps the free set, the unanswered kills *)
(* of its threads and _threadsEaten.                                       *)
LEMMA MarksSame ==
  ASSUME free' = free, \A t \in free : Unanswered(t)' = Unanswered(t)
  PROVE  Marks' = Marks
<1>1. \A p \in Threads \X Nat : p \in Marks' <=> p \in Marks
  BY DEF Marks
<1> QED
  BY <1>1 DEF Marks

(* Without p there is at least one fewer. *)
LEMMA FewerMarks ==
  ASSUME NEW M, IsFiniteSet(M), NEW p \in M, NEW N \in SUBSET (M \ {p})
  PROVE  /\ IsFiniteSet(N) /\ Cardinality(N) \in Nat /\ Cardinality(M) \in Nat
         /\ Cardinality(N) <= Cardinality(M) - 1
<1>1. IsFiniteSet(M \ {p}) /\ Cardinality(M \ {p}) = Cardinality(M) - 1
  BY FS_RemoveElement
<1>2. IsFiniteSet(N) /\ Cardinality(N) <= Cardinality(M \ {p})
  BY <1>1, FS_Subset
<1>3. Cardinality(N) \in Nat /\ Cardinality(M) \in Nat
  BY <1>2, FS_CardinalityType
<1> QED
  BY <1>1, <1>2, <1>3

(* Killing the free threads K adds one unanswered kill for each. *)
LEMMA KillMarks ==
  ASSUME IInv, Count, NEW K \in SUBSET free, KillFreeThreads(K), UNCHANGED <<pc, free>>
  PROVE  /\ IsFiniteSet(Marks') /\ Cardinality(Marks') \in Nat
         /\ Cardinality(K) \in Nat /\ Cardinality(Marks) \in Nat
         /\ Cardinality(Marks') <= Cardinality(Marks) + Cardinality(K)
<1> DEFINE f == [t \in K |-> <<t, Unanswered(t)>>]
           New == {f[t] : t \in K}
<1>1. K \subseteq Threads /\ IsFiniteSet(K)
  BY Finite, FS_Subset DEF IInv, Types
<1>2. f \in Surjection(K, New)
  BY DEF Surjection
<1>3. IsFiniteSet(New) /\ Cardinality(New) <= Cardinality(K)
  BY <1>1, <1>2, FS_Surjection
<1>4. IsFiniteSet(Marks)
  BY DEF Count
<1>5. /\ IsFiniteSet(Marks \union New)
      /\ Cardinality(Marks \union New) =
           Cardinality(Marks) + Cardinality(New) - Cardinality(Marks \cap New)
  BY <1>3, <1>4, FS_Union
<1>6. Marks' \subseteq Marks \union New
  <2> SUFFICES ASSUME NEW p \in Marks', p \notin Marks
               PROVE  p \in New
    OBVIOUS
  <2>1. p \in Threads \X Nat /\ p[1] \in free /\ p[2] < Unanswered(p[1])'
    BY DEF Marks
  <2>2. p[1] \in Threads /\ p[2] \in Nat /\ p = <<p[1], p[2]>>
    BY <2>1
  <2>3. Unanswered(p[1]) \in Nat /\ ~(p[2] < Unanswered(p[1]))
    BY <2>1, <2>2 DEF Marks, Unanswered, IInv, Types
  <2>4. Unanswered(p[1])' = Unanswered(p[1]) + (IF p[1] \in K THEN 1 ELSE 0)
    BY <2>2 DEF KillFreeThreads, Unanswered, IInv, Types
  <2>5. p[1] \in K /\ p[2] = Unanswered(p[1])
    BY <2>1, <2>2, <2>3, <2>4
  <2>6. p = f[p[1]]
    BY <2>2, <2>5
  <2> QED
    BY <2>5, <2>6
<1>7. IsFiniteSet(Marks') /\ Cardinality(Marks') <= Cardinality(Marks \union New)
  BY <1>5, <1>6, FS_Subset
<1>8. IsFiniteSet(Marks \cap New)
  BY <1>4, FS_Subset
<1>9. /\ Cardinality(Marks) \in Nat /\ Cardinality(New) \in Nat /\ Cardinality(K) \in Nat
      /\ Cardinality(Marks \cap New) \in Nat /\ Cardinality(Marks') \in Nat
  BY <1>1, <1>3, <1>4, <1>7, <1>8, FS_CardinalityType
<1> HIDE DEF New
<1> QED
  BY <1>3, <1>5, <1>7, <1>9

(* Startup's pool has nothing free and nothing killed. *)
LEMMA InitCount == Init => CountInv
<1> SUFFICES ASSUME Init
             PROVE  CountInv
  OBVIOUS
<1>1. IInv
  BY InitInv
<1>2. Marks = {}
  BY DEF Init, Marks
<1>3. Count
  BY <1>2, FS_EmptySet DEF Count, Init
<1>4. Calm
  BY DEF Calm, Init, Subsets
<1> QED
  BY <1>1, <1>3, <1>4 DEF CountInv

(* ExecuteTask finds every kill answered, and takes a free thread if there *)
(* is one: the count and the free set go down together.                    *)
LEMMA ExecuteCount ==
  ASSUME IInv, Calm, Count, Settled, NEW k \in Tasks, ExecuteTask(k)
  PROVE  Calm' /\ Count'
<1>1. Marks = {} /\ eaten \in Int /\ eaten' = eaten - 1
  BY SettledAnswered DEF ExecuteTask, IInv, Types
<1>2. eaten <= Cardinality(free) /\ IsFiniteSet(free) /\ Cardinality(free) \in Nat
  BY <1>1, Finite, FS_EmptySet DEF Count
<1>3. CASE \E t \in free : GiveTo(t, k)
  <2>1. PICK t \in free : GiveTo(t, k)
    BY <1>3
  <2>2. t \in Threads /\ t \in Live
    BY DEF IInv, Types, NoDangling
  <2>3. pc[t] = "waiting" /\ sem[t] = 0
    BY <2>2 DEF Settled, Calm
  <2>4. /\ free' = free \ {t} /\ pc' = pc
        /\ \A u \in Threads : sem'[u] = IF u = t THEN sem[u] + 1 ELSE sem[u]
        /\ \A u \in Threads : target'[u] = IF u = t THEN k ELSE target[u]
    BY <2>1, <2>2 DEF GiveTo, IInv, Types
  <2>5. Calm'
    BY <2>2, <2>3, <2>4 DEF Calm
  <2>6. \A u \in Threads : u # t => Unanswered(u)' = Unanswered(u)
    BY <2>4 DEF Unanswered
  <2>7. Marks' = {}
    BY <1>1, <2>4, <2>6 DEF Marks
  <2>8. Cardinality(free') = Cardinality(free) - 1
    BY <1>2, <2>4, FS_RemoveElement
  <2>9. IsFiniteSet(Marks') /\ Cardinality(Marks') = 0
    BY <2>7, FS_EmptySet
  <2>10. eaten' + Cardinality(Marks') <= Cardinality(free')
    BY <1>1, <1>2, <2>8, <2>9
  <2> QED
    BY <2>5, <2>7, <2>9, <2>10 DEF Count
<1>4. CASE free = {} /\ UNCHANGED free /\ \E t \in Unused : Started({t}, k)
  <2>1. PICK t \in Unused : Started({t}, k)
    BY <1>4
  <2>2. /\ \A u \in Threads : pc'[u] = IF u = t THEN "loop" ELSE pc[u]
        /\ \A u \in Threads : sem'[u] = IF u = t THEN 0 ELSE sem[u]
        /\ \A u \in Threads : target'[u] = IF u = t THEN k ELSE target[u]
    BY <2>1 DEF Started
  <2>3. Calm'
    BY <1>4, <2>2 DEF Calm
  <2>4. Marks' = {}
    BY <1>4 DEF Marks
  <2> QED
    BY <1>1, <1>2, <1>4, <2>3, <2>4, FS_EmptySet DEF Count
<1> QED
  BY <1>3, <1>4 DEF ExecuteTask

(* A thread's own steps up to ThreadExit answer no kill and take none. *)
LEMMA StepCount ==
  ASSUME IInv, Calm, Count, NEW t \in Threads, TestTarget(t) \/ Finish(t) \/ Resumed(t)
  PROVE  Calm' /\ Count'
<1>1. free' = free /\ eaten' = eaten
  BY DEF TestTarget, Finish, Resumed
<1>2. CASE TestTarget(t)
  <2>1. /\ pc[t] = "loop" /\ sem' = sem /\ target' = target
        /\ \A u \in Threads : pc'[u] =
             IF u = t THEN (IF target[t] = NoTask THEN "exit" ELSE "running") ELSE pc[u]
    BY <1>2 DEF TestTarget, IInv, Types
  <2>2. Calm'
    BY <1>1, <2>1 DEF Calm
  <2>3. \A u \in free : Unanswered(u)' = Unanswered(u)
    BY <2>1 DEF Unanswered, IInv, Types
  <2>4. Marks' = Marks
    BY <1>1, <2>3, MarksSame
  <2> QED
    BY <1>1, <2>2, <2>4 DEF Count
<1>3. CASE Finish(t)
  <2>1. /\ pc[t] = "running" /\ sem' = sem
        /\ \A u \in Threads : pc'[u] = IF u = t THEN "exit" ELSE pc[u]
        /\ \A u \in Threads : target'[u] = IF u = t THEN NoTask ELSE target[u]
    BY <1>3 DEF Finish, IInv, Types
  <2>2. Calm'
    BY <1>1, <2>1 DEF Calm
  <2>3. \A u \in free : Unanswered(u)' = Unanswered(u)
    BY <2>1 DEF Unanswered, IInv, Types
  <2>4. Marks' = Marks
    BY <1>1, <2>3, MarksSame
  <2> QED
    BY <1>1, <2>2, <2>4 DEF Count
<1>4. CASE Resumed(t)
  <2>1. /\ pc[t] = "waiting" /\ target' = target /\ sem \in [Threads -> Nat]
        /\ \A u \in Threads : pc'[u] = IF u = t THEN "loop" ELSE pc[u]
        /\ \A u \in Threads : sem'[u] = IF u = t THEN sem[u] - 1 ELSE sem[u]
    BY <1>4 DEF Resumed, IInv, Types
  <2>2. Calm'
    BY <1>1, <1>4, <2>1 DEF Calm, Resumed
  <2>3. \A u \in free : Unanswered(u)' = Unanswered(u)
    BY <2>1 DEF Unanswered, IInv, Types
  <2>4. Marks' = Marks
    BY <1>1, <2>3, MarksSame
  <2> QED
    BY <1>1, <2>2, <2>4 DEF Count
<1> QED
  BY <1>2, <1>3, <1>4

(* ThreadExit answers one kill of a thread that was killed; one that was   *)
(* not enters the free set as it is counted.                               *)
LEMMA ExitCount ==
  ASSUME IInv, Calm, Count, NEW t \in Threads, ThreadExit(t)
  PROVE  Calm' /\ Count'
<1>1. /\ pc[t] = "exit" /\ target' = target /\ sem' = sem /\ flagged' = flagged
      /\ eaten \in Int /\ sem \in [Threads -> Nat]
  BY DEF ThreadExit, IInv, Types
<1>2. IsFiniteSet(free) /\ Cardinality(free) \in Nat
  BY Finite
<1>3. IsFiniteSet(Marks) /\ Cardinality(Marks) \in Nat
  BY FS_CardinalityType DEF Count
<1>4. CASE Leave(t) /\ t \notin free
  <2>1. /\ free' = free /\ eaten' = eaten
        /\ \A u \in Threads : pc'[u] = IF u = t THEN "none" ELSE pc[u]
    BY <1>4 DEF Leave, IInv, Types
  <2>2. Calm'
    BY <1>1, <1>4, <2>1 DEF Calm
  <2>3. \A u \in free : Unanswered(u)' = Unanswered(u)
    BY <1>1, <1>4, <2>1 DEF Unanswered, IInv, Types
  <2>4. Marks' = Marks
    BY <2>1, <2>3, MarksSame
  <2> QED
    BY <2>1, <2>2, <2>4 DEF Count
<1>5. CASE Leave(t) /\ t \in free
  <2>1. flagged[t]
    BY <1>1, <1>5 DEF IInv, Posts
  <2>2. /\ free' = free \ {t} /\ eaten' = eaten
        /\ \A u \in Threads : pc'[u] = IF u = t THEN "none" ELSE pc[u]
    BY <1>5, <2>1 DEF Leave, IInv, Types
  <2>3. Calm'
    BY <1>1, <2>2 DEF Calm
  <2>4. \A u \in Threads : u # t => Unanswered(u)' = Unanswered(u)
    BY <1>1, <2>2 DEF Unanswered
  <2>5. Marks' \in SUBSET (Marks \ {<<t, 0>>})
    BY <2>2, <2>4 DEF Marks
  <2>6. <<t, 0>> \in Marks
    BY <1>1, <1>5 DEF Marks, Unanswered
  <2>7. /\ IsFiniteSet(Marks') /\ Cardinality(Marks') \in Nat
        /\ Cardinality(Marks') <= Cardinality(Marks) - 1
    BY <1>3, <2>5, <2>6, FewerMarks
  <2>8. Cardinality(free') = Cardinality(free) - 1
    BY <1>2, <1>5, <2>2, FS_RemoveElement
  <2>9. eaten' + Cardinality(Marks') <= Cardinality(free')
    BY <1>1, <1>2, <1>3, <2>2, <2>7, <2>8 DEF Count
  <2> QED
    BY <2>2, <2>3, <2>6, <2>7, <2>9 DEF Count
<1>6. CASE JoinFree(t)
  <2>1. /\ free' = free \union {t} /\ eaten' = eaten + 1
        /\ \A u \in Threads : pc'[u] = IF u = t THEN "waiting" ELSE pc[u]
    BY <1>6 DEF JoinFree, IInv, Types
  <2>2. Calm'
    BY <1>1, <2>1 DEF Calm
  <2>3. \A u \in Threads : u # t => Unanswered(u)' = Unanswered(u)
    BY <1>1, <2>1 DEF Unanswered
  <2>4. Unanswered(t) = sem[t] + 1 /\ Unanswered(t)' = sem[t]
    BY <1>1, <2>1 DEF Unanswered
  <2>5. CASE t \notin free
    <3>1. sem[t] = 0
      BY <1>1, <2>5 DEF Calm
    <3>2. \A p \in Threads \X Nat : p \in Marks' <=> p \in Marks
      BY <2>1, <2>3, <2>4, <2>5, <3>1 DEF Marks
    <3>3. Marks' = Marks
      BY <3>2 DEF Marks
    <3>4. Cardinality(free') = Cardinality(free) + 1
      BY <1>2, <2>1, <2>5, FS_AddElement
    <3> QED
      BY <1>1, <1>2, <1>3, <2>1, <2>2, <3>3, <3>4 DEF Count
  <2>6. CASE t \in free
    <3>1. free' = free
      BY <2>1, <2>6
    <3>2. <<t, sem[t]>> \in Marks
      BY <1>1, <2>4, <2>6 DEF Marks
    <3>3. Marks' \in SUBSET (Marks \ {<<t, sem[t]>>})
      <4> SUFFICES ASSUME NEW p \in Marks'
                   PROVE  p \in Marks /\ p # <<t, sem[t]>>
        OBVIOUS
      <4>1. p \in Threads \X Nat /\ p[1] \in free /\ p[2] < Unanswered(p[1])'
        BY <3>1 DEF Marks
      <4>2. p[1] \in Threads /\ p[2] \in Nat
        BY <4>1
      <4>3. CASE p[1] = t
        <5>1. p[2] < sem[t] /\ sem[t] \in Nat
          BY <1>1, <2>4, <4>1, <4>3
        <5>2. p[2] < Unanswered(p[1]) /\ p[2] # sem[t]
          BY <2>4, <4>2, <4>3, <5>1
        <5> QED
          BY <4>1, <5>2 DEF Marks
      <4>4. CASE p[1] # t
        BY <2>3, <4>1, <4>2, <4>4 DEF Marks
      <4> QED
        BY <4>3, <4>4
    <3>4. /\ IsFiniteSet(Marks') /\ Cardinality(Marks') \in Nat
          /\ Cardinality(Marks') <= Cardinality(Marks) - 1
      BY <1>3, <3>2, <3>3, FewerMarks
    <3>5. eaten' + Cardinality(Marks') <= Cardinality(free')
      <4>1. eaten + Cardinality(Marks) <= Cardinality(free)
        BY DEF Count
      <4>2. /\ eaten' = eaten + 1 /\ Cardinality(free') = Cardinality(free)
            /\ Cardinality(Marks') <= Cardinality(Marks) - 1
        BY <2>1, <3>1, <3>4
      <4>3. /\ eaten \in Int /\ Cardinality(free) \in Nat
            /\ Cardinality(Marks) \in Nat /\ Cardinality(Marks') \in Nat
        BY <1>1, <1>2, <1>3, <3>4
      <4> QED
        BY ONLY <4>1, <4>2, <4>3
    <3>6. eaten' >= 0
      BY <1>1, <2>1, <3>2 DEF Count
    <3> QED
      BY <2>2, <3>4, <3>5, <3>6 DEF Count
  <2> QED
    BY <2>5, <2>6
<1> QED
  BY <1>4, <1>5, <1>6 DEF ThreadExit

(* Every step keeps the count. *)
LEMMA NextCount == CountInv /\ [Next]_vars => CountInv'
<1> SUFFICES ASSUME CountInv, [Next]_vars, phase' = "up", ~hasty'
             PROVE  Calm' /\ Count'
  BY NextInv DEF CountInv
<1>i. IInv
  BY DEF CountInv
<1>1. CASE \E k \in Tasks : ExecuteTask(k)
  <2>1. PICK k \in Tasks : ExecuteTask(k)
    BY <1>1
  <2>2. phase = "up" /\ ~hasty /\ Settled
    BY <1>i, <2>1, CalledSettled DEF ExecuteTask
  <2> QED
    BY <1>i, <2>1, <2>2, ExecuteCount DEF CountInv
<1>2. CASE \E t \in Threads : TestTarget(t) \/ Finish(t) \/ ThreadExit(t) \/ Resumed(t)
  <2>1. PICK t \in Threads : TestTarget(t) \/ Finish(t) \/ ThreadExit(t) \/ Resumed(t)
    BY <1>2
  <2>2. phase = "up" /\ ~hasty
    BY <2>1 DEF TestTarget, Finish, ThreadExit, Resumed
  <2> QED
    BY <1>i, <2>1, <2>2, StepCount, ExitCount DEF CountInv
<1>3. CASE ExcessKilled
  <2>1. /\ UNCHANGED <<pc, free>> /\ phase = "up" /\ ~hasty
        /\ eaten > CheckCount /\ eaten' = EatenAfterKill
    BY <1>3 DEF ExcessKilled
  <2>2. Calm /\ Count /\ eaten \in Int /\ eaten' = CheckCount
    BY <1>i, <2>1 DEF CountInv, IInv, Types, EatenAfterKill
  <2>3. PICK n \in 0 .. eaten - CheckCount : \E K \in Subsets(free, n) : KillFreeThreads(K)
    BY <1>3 DEF ExcessKilled
  <2>4. PICK K \in Subsets(free, n) : KillFreeThreads(K)
    BY <2>3
  <2>5. K \in SUBSET free /\ Cardinality(K) = n
    BY DEF Subsets
  <2>6. /\ IsFiniteSet(Marks') /\ Cardinality(Marks') \in Nat /\ Cardinality(Marks) \in Nat
        /\ Cardinality(Marks') <= Cardinality(Marks) + n
    BY <1>i, <2>1, <2>2, <2>4, <2>5, KillMarks
  <2>7. eaten' + Cardinality(Marks') <= Cardinality(free')
    BY <1>i, <2>1, <2>2, <2>3, <2>6, Finite DEF Count
  <2>8. Calm'
    BY <1>i, <2>1, <2>2, <2>4, <2>5 DEF Calm, KillFreeThreads, IInv, Types
  <2> QED
    BY <2>2, <2>6, <2>7, <2>8 DEF Count
<1>4. CASE DeficitStarted
  <2>1. /\ free' = free /\ phase = "up" /\ ~hasty
        /\ eaten' = IF eaten < 0 THEN 0 ELSE eaten
    BY <1>4 DEF DeficitStarted
  <2>2. Calm /\ Count /\ eaten \in Int
    BY <1>i, <2>1 DEF CountInv, IInv, Types
  <2>3. PICK S \in Subsets(Unused, NewThreads) : Started(S, NoTask)
    BY <1>4 DEF DeficitStarted
  <2>4. S \subseteq Unused /\ \A t \in free : t \in Threads /\ t \notin S
    BY <1>i DEF Subsets, Unused, IInv, Types, NoDangling
  <2>5. \A t \in Threads :
          /\ pc'[t] = IF t \in S THEN "loop" ELSE pc[t]
          /\ sem'[t] = IF t \in S THEN 0 ELSE sem[t]
          /\ target'[t] = IF t \in S THEN NoTask ELSE target[t]
    BY <2>3 DEF Started
  <2>6. Calm'
    BY <2>1, <2>2, <2>4, <2>5 DEF Calm
  <2>7. \A t \in free : Unanswered(t)' = Unanswered(t)
    BY <2>4, <2>5 DEF Unanswered
  <2>8. Marks' = Marks
    BY <2>1, <2>7, MarksSame
  <2>9. CASE eaten < 0
    <3>1. Marks = {} /\ eaten' = 0
      BY <2>1, <2>2, <2>9 DEF Count
    <3> QED
      BY <1>i, <2>1, <2>6, <2>8, <3>1, Finite, FS_EmptySet DEF Count
  <2>10. CASE ~(eaten < 0)
    BY <2>1, <2>2, <2>6, <2>8, <2>10 DEF Count
  <2> QED
    BY <2>9, <2>10
<1>5. CASE Shutdown
  BY <1>5 DEF Shutdown
<1>6. CASE ShutdownReturns
  BY <1>6 DEF ShutdownReturns
<1>7. CASE UNCHANGED vars
  <2>1. Calm /\ Count
    BY <1>7 DEF CountInv, vars
  <2>2. Marks' = Marks
    BY <1>7 DEF vars, Marks, Unanswered
  <2> QED
    BY <1>7, <2>1, <2>2 DEF vars, Calm, Count
<1> QED
  BY <1>1, <1>2, <1>3, <1>4, <1>5, <1>6, <1>7 DEF Next

(* _threadsEaten, by which IntegrityCheck decides how many threads to kill *)
(* or start, counts no thread that is not free, for any number of threads  *)
(* and any sequence of kills, hand-overs and checks of a settled pool.     *)
THEOREM TypeCorrect == Spec => []TypeOK
<1>1. CountInv => TypeOK
  <2> SUFFICES ASSUME CountInv
               PROVE  TypeOK
    OBVIOUS
  <2>1. Types
    BY DEF CountInv, IInv
  <2>2. ASSUME phase = "up", ~hasty
        PROVE  eaten <= Cardinality(free)
    <3>1. Count /\ eaten \in Int
      BY <2>1, <2>2 DEF CountInv, Types
    <3>2. Cardinality(Marks) \in Nat /\ Cardinality(free) \in Nat
      BY <3>1, FS_CardinalityType, Finite DEF Count, CountInv
    <3> QED
      BY <3>1, <3>2 DEF Count
  <2> QED
    BY <2>1, <2>2 DEF TypeOK
<1> QED
  BY <1>1, InitCount, NextCount, PTL DEF Spec
=============================================================================
