----------------------------- MODULE ThreadPool -----------------------------
(***************************************************************************)
(* CThreadPool (hearthstone-shared/Threading), Linux build.  Each thread   *)
(* runs thread_proc: execute its target if it has one, report to           *)
(* ThreadExit, and either leave or wait on its semaphore.  The pool's own  *)
(* methods hold _mutex throughout and are single steps; a thread's read of *)
(* its ExecutionTarget and its semaphore are outside the mutex.            *)
(*                                                                         *)
(* A thread is a Thread object; once deleted its address may be used again *)
(* by a later StartThread.  m_freeThreads is ordered by address, so which  *)
(* free threads begin() and KillFreeThreads meet first is left open.       *)
(***************************************************************************)
EXTENDS Integers, FiniteSets

CONSTANTS Threads,      \* bound: Thread objects that can exist at a time
          Tasks,        \* the ThreadContexts passed to ExecuteTask
          NoTask,       \* a NULL ExecutionTarget
          StartCount,   \* Startup's argument
          CheckCount,   \* IntegrityCheck's argument
          Reserve       \* THREAD_RESERVE

ASSUME CountsAssumption ==
  /\ StartCount \in Nat /\ CheckCount \in Nat /\ Reserve \in Nat
  /\ NoTask \notin Tasks
ASSUME ThreadsAssumption == IsFiniteSet(Threads)

VARIABLES pc,       \* where each thread is in thread_proc; "none": no object
          target,   \* ExecutionTarget
          flagged,  \* DeleteAfterExit
          sem,      \* the value of the thread's semaphore
          free,     \* m_freeThreads
          active,   \* m_activeThreads
          toExit,   \* _threadsToExit
          eaten,    \* _threadsEaten
          task,     \* how far each task is
          phase,    \* of the process: "up", "stopping", "stopped"
          hasty     \* history: a call met a pool that was not settled

vars == <<pc, target, flagged, sem, free, active, toExit, eaten, task, phase, hasty>>

Live == {t \in Threads : pc[t] # "none"}
Unused == Threads \ Live
Subsets(S, n) == {T \in SUBSET S : Cardinality(T) = n}

(* Every thread waits with no post pending, or executes its task. *)
Settled == \A t \in Live : pc[t] = "running" \/ (pc[t] = "waiting" /\ sem[t] = 0)

(* Called while the pool is up, from any thread of the process. *)
Called == phase = "up" /\ hasty' = (hasty \/ ~Settled)

(* StartThread of every thread of S: thread_proc begins at its loop. *)
Started(S, k) ==
  /\ pc' = [t \in Threads |-> IF t \in S THEN "loop" ELSE pc[t]]
  /\ target' = [t \in Threads |-> IF t \in S THEN k ELSE target[t]]
  /\ flagged' = [t \in Threads |-> IF t \in S THEN FALSE ELSE flagged[t]]
  /\ sem' = [t \in Threads |-> IF t \in S THEN 0 ELSE sem[t]]

(* The constructor, then Startup(StartCount): threads with no task, which  *)
(* enter the pool by calling ThreadExit themselves.                        *)
Init ==
  /\ \E S \in Subsets(Threads, StartCount) :
       pc = [t \in Threads |-> IF t \in S THEN "loop" ELSE "none"]
  /\ target = [t \in Threads |-> NoTask]
  /\ flagged = [t \in Threads |-> FALSE]
  /\ sem = [t \in Threads |-> 0]
  /\ free = {} /\ active = {}
  /\ toExit = 0 /\ eaten = 0
  /\ task = [k \in Tasks |-> "new"]
  /\ phase = "up" /\ hasty = FALSE

(* Mutant: the thread is not resumed. *)
GiveToAsleep(t, k) ==
  /\ free' = free \ {t} /\ active' = active \union {t}
  /\ target' = [target EXCEPT ![t] = k]
  /\ UNCHANGED <<pc, flagged, sem>>

(* ExecuteTask: the free thread t gets task k and is resumed. *)
GiveTo(t, k) ==
  /\ free' = free \ {t}
  /\ active' = active \union {t}
  /\ target' = [target EXCEPT ![t] = k]
  /\ sem' = [sem EXCEPT ![t] = @ + 1]
  /\ UNCHANGED <<pc, flagged>>

(* ExecuteTask: a free thread is given the task and resumed, or a thread   *)
(* is started on it; either way it is counted active.                      *)
ExecuteTask(k) ==
  /\ Called
  /\ task[k] = "new"
  /\ task' = [task EXCEPT ![k] = "given"]
  /\ eaten' = eaten - 1
  /\ \/ \E t \in free : GiveTo(t, k)
     \/ /\ free = {}
        /\ \E t \in Unused : Started({t}, k) /\ active' = active \union {t}
        /\ UNCHANGED free
  /\ UNCHANGED <<toExit, phase>>

(* thread_proc: the test of ExecutionTarget. *)
TestTarget(t) ==
  /\ pc[t] = "loop"
  /\ IF target[t] = NoTask
     THEN pc' = [pc EXCEPT ![t] = "exit"] /\ UNCHANGED task
     ELSE /\ pc' = [pc EXCEPT ![t] = "running"]
          /\ task' = [task EXCEPT ![target[t]] = "started"]
  /\ UNCHANGED <<target, flagged, sem, free, active, toExit, eaten, phase, hasty>>

(* thread_proc: run returned; whatever is the target by now is deleted and *)
(* cleared.                                                                *)
Finish(t) ==
  /\ pc[t] = "running"
  /\ pc' = [pc EXCEPT ![t] = "exit"]
  /\ task' = [k \in Tasks |-> IF k = target[t] /\ task[k] = "started" THEN "done" ELSE task[k]]
  /\ target' = [target EXCEPT ![t] = NoTask]
  /\ UNCHANGED <<flagged, sem, free, active, toExit, eaten, phase, hasty>>

(* Mutant: the thread stays listed as free. *)
LeaveListed(t) ==
  /\ toExit' = toExit - 1
  /\ pc' = [pc EXCEPT ![t] = "none"]
  /\ UNCHANGED <<free, eaten>>

(* ThreadExit with exit tokens open: take one, and delete the thread. *)
Leave(t) ==
  /\ toExit' = toExit - 1
  /\ free' = IF flagged[t] THEN free \ {t} ELSE free
  /\ pc' = [pc EXCEPT ![t] = "none"]
  /\ UNCHANGED eaten

(* ThreadExit otherwise: enter the free set and wait. *)
JoinFree(t) ==
  /\ eaten' = eaten + 1
  /\ free' = free \union {t}
  /\ pc' = [pc EXCEPT ![t] = "waiting"]
  /\ UNCHANGED toExit

(* ThreadExit: whoever calls it while _threadsToExit > 0 leaves, whether   *)
(* or not it was the one marked.  Shutdown returns holding _mutex, so no   *)
(* call succeeds after it.                                                 *)
ThreadExit(t) ==
  /\ pc[t] = "exit" /\ phase # "stopped"
  /\ active' = active \ {t}
  /\ \/ toExit > 0 /\ Leave(t)
     \/ toExit = 0 /\ JoinFree(t)
  /\ UNCHANGED <<target, flagged, sem, task, phase, hasty>>

(* Mutant: a thread goes on without a post. *)
ResumedUnposted(t) ==
  /\ pc[t] = "waiting"
  /\ sem' = [sem EXCEPT ![t] = @ - 1]
  /\ pc' = [pc EXCEPT ![t] = "loop"]
  /\ UNCHANGED <<target, flagged, free, active, toExit, eaten, task, phase, hasty>>

(* Suspend returns: sem_wait took a post. *)
Resumed(t) ==
  /\ pc[t] = "waiting" /\ sem[t] > 0
  /\ sem' = [sem EXCEPT ![t] = @ - 1]
  /\ pc' = [pc EXCEPT ![t] = "loop"]
  /\ UNCHANGED <<target, flagged, free, active, toExit, eaten, task, phase, hasty>>

(* KillFreeThreads on the free threads K: they stay in m_freeThreads until *)
(* they leave.                                                             *)
KillFreeThreads(K) ==
  /\ target' = [t \in Threads |-> IF t \in K THEN NoTask ELSE target[t]]
  /\ flagged' = [t \in Threads |-> flagged[t] \/ t \in K]
  /\ sem' = [t \in Threads |-> IF t \in K THEN sem[t] + 1 ELSE sem[t]]

(* IntegrityCheck, _threadsEaten once the excess is killed. *)
EatenAfterKill == eaten - (eaten - CheckCount)

(* IntegrityCheck, more free threads than asked for: kill the excess. *)
ExcessKilled ==
  /\ phase = "up" /\ eaten > CheckCount
  /\ \E n \in 0 .. eaten - CheckCount : \E K \in Subsets(free, n) :
       /\ n = eaten - CheckCount \/ K = free
       /\ KillFreeThreads(K)
       /\ toExit' = toExit + n
  /\ eaten' = EatenAfterKill
  /\ UNCHANGED <<pc, free, active, task, phase, hasty>>

(* IntegrityCheck, fewer: start the deficit and CheckCount more when the   *)
(* count went negative (and count from zero), else fill up to Reserve.     *)
NewThreads == IF eaten < 0 THEN CheckCount - eaten ELSE Reserve - eaten

DeficitStarted ==
  /\ phase = "up" /\ eaten < CheckCount
  /\ \E S \in Subsets(Unused, NewThreads) : Started(S, NoTask)
  /\ eaten' = IF eaten < 0 THEN 0 ELSE eaten
  /\ UNCHANGED <<free, active, toExit, task, phase, hasty>>

(* Mutant: the active threads get no token. *)
ShutdownTokensFree == Cardinality(free)

(* Shutdown: one exit token for each thread of the two sets. *)
ShutdownTokens == Cardinality(free) + Cardinality(active)

(* Shutdown, first part: kill the free threads, ask the active ones to     *)
(* stop (OnShutdown) and leave one exit token for each.                    *)
Shutdown ==
  /\ Called
  /\ KillFreeThreads(free)
  /\ toExit' = toExit + ShutdownTokens
  /\ phase' = "stopping"
  /\ UNCHANGED <<pc, free, active, eaten, task>>

(* Shutdown, the loop: it ends when both sets are empty. *)
ShutdownReturns ==
  /\ phase = "stopping"
  /\ free = {} /\ active = {}
  /\ phase' = "stopped"
  /\ UNCHANGED <<pc, target, flagged, sem, free, active, toExit, eaten, task, hasty>>

Next ==
  \/ \E k \in Tasks : ExecuteTask(k)
  \/ \E t \in Threads : TestTarget(t) \/ Finish(t) \/ ThreadExit(t) \/ Resumed(t)
  \/ ExcessKilled \/ DeficitStarted
  \/ Shutdown \/ ShutdownReturns

(* Threads are scheduled; a task returns once Shutdown has called its      *)
(* OnShutdown; Shutdown's loop keeps polling.                              *)
Fairness ==
  /\ \A t \in Threads : /\ WF_vars(TestTarget(t)) /\ WF_vars(ThreadExit(t))
                        /\ WF_vars(Resumed(t))
                        /\ WF_vars(phase = "stopping" /\ Finish(t))
  /\ WF_vars(ShutdownReturns)

Spec == Init /\ [][Next]_vars
FairSpec == Spec /\ Fairness

-----------------------------------------------------------------------------
(* Every component has its type; semaphores and tokens never go negative. *)
Types ==
  /\ pc \in [Threads -> {"none", "loop", "running", "exit", "waiting"}]
  /\ target \in [Threads -> Tasks \union {NoTask}]
  /\ flagged \in [Threads -> BOOLEAN]
  /\ sem \in [Threads -> Nat]
  /\ free \subseteq Threads /\ active \subseteq Threads
  /\ toExit \in Nat /\ eaten \in Int
  /\ task \in [Tasks -> {"new", "given", "started", "done"}]
  /\ phase \in {"up", "stopping", "stopped"} /\ hasty \in BOOLEAN

(* And _threadsEaten, by which IntegrityCheck decides, counts no thread    *)
(* that is not free, while the pool is up and every call finds it settled. *)
TypeOK == Types /\ (phase = "up" /\ ~hasty => eaten <= Cardinality(free))

(* No Thread object is deleted while the pool still lists it: ExecuteTask, *)
(* KillFreeThreads and Shutdown dereference every thread they find in      *)
(* m_freeThreads and m_activeThreads.                                      *)
NoDangling == free \union active \subseteq Live

(* No thread sleeps on a task: one that waits on its semaphore with an     *)
(* ExecutionTarget has a post to wake it, whatever kills, checks and       *)
(* hand-overs came between its ThreadExit and its sem_wait.                *)
NoSleepOnTask == \A t \in Live : pc[t] = "waiting" /\ target[t] # NoTask => sem[t] > 0

(* "grabs/spawns a thread, and tells it to execute a task": a task passed  *)
(* to ExecuteTask is executed (unless Shutdown comes first).               *)
TasksExecuted ==
  \A k \in Tasks : task[k] = "given" ~> task[k] # "given" \/ phase # "up"

(* The same while every call finds the threads waiting or executing: then  *)
(* no task is given to a thread that is about to leave.                    *)
SettledTasksExecuted ==
  \A k \in Tasks : task[k] = "given" ~> task[k] # "given" \/ phase # "up" \/ hasty

(* "shutdown all threads": Shutdown returns, having emptied both sets, if  *)
(* no call met a thread between its task and its semaphore.                *)
ShutdownEnds == phase = "stopping" ~> phase = "stopped" \/ hasty
=============================================================================
