------------------------------ MODULE Database ------------------------------
(***************************************************************************)
(* Database (hearthstone-shared/Database): callers, the two threads that   *)
(* work off its queues, its connections, and the thread that ends it.      *)
(*                                                                         *)
(* Execute hands a statement to the executor (Database::run), which works  *)
(* off queries_queue; AddQueryBuffer hands one to the query thread         *)
(* (thread_proc_query), which works off query_buffer.  Both queues are     *)
(* FQueues: one mutex, one condition.  Both calls first test whether the   *)
(* thread is there and otherwise work in the caller, as WaitExecute always *)
(* does.  A query buffer is modelled as one statement.                     *)
(***************************************************************************)
EXTENDS Integers, Sequences, FiniteSets

CONSTANTS Clients,    \* threads that use the database
          MaxIssue,   \* bound: statements the clients issue
          Conns,      \* ConnectionCount
          MaxFaults,  \* bound: statements that meet a failing connection
          Spurious    \* whether a condition may wake without a signal

ASSUME DatabaseAssumption ==
  /\ MaxIssue \in Nat /\ Conns \in Nat \ {0} /\ MaxFaults \in Nat /\ Spurious \in BOOLEAN
  /\ IsFiniteSet(Clients) /\ Clients \intersect {"executor", "query"} = {}

Workers == {"executor", "query"}
Threads == Workers \union Clients
Kinds == Workers \union {"caller"}
NoStatement == [client |-> "none", n |-> 0, kind |-> "none"]
Idle == [kind |-> "none", push |-> FALSE, n |-> 0]
Statements == [client : Clients, n : 1 .. MaxIssue, kind : Kinds]

VARIABLES queue,    \* queries_queue and query_buffer
          alive,    \* ThreadRunning, and qt # NULL
          pc,       \* where each worker is
          cur,      \* the statement it popped and has not sent (or NoStatement)
          holds,    \* whether each thread holds a connection
          running,  \* m_threadRunning
          ender,    \* where the caller of EndThreads is
          call,     \* where each client is: idle, or what it found
          issued,   \* statements issued so far
          applied,  \* for each client, its statements the server applied, in order
          faults,   \* sends that failed at first
          late      \* history: a call was under way in EndThreads or came later,
                    \* or a worker left its loop on a spurious wake-up

vars == <<queue, alive, pc, cur, holds, running, ender, call, issued, applied, faults, late>>

Holders == {t \in Threads : holds[t]}

(* Mutant: the connections of callers are not marked as busy. *)
FreeOfWorkers == Conns - Cardinality(Holders \intersect Workers)

(* Mutant: the last connection is never tried. *)
FreeButLast == Conns - 1 - Cardinality(Holders)

(* The connections whose Busy lock is free. *)
FreeConnections == Conns - Cardinality(Holders)

(* GetFreeConnection polls until AttemptAcquire succeeds on one of them. *)
GetFreeConnection(t) == FreeConnections > 0 /\ holds' = [holds EXCEPT ![t] = TRUE]
BusyRelease(t) == holds' = [holds EXCEPT ![t] = FALSE]

-----------------------------------------------------------------------------
(* _SendQuery when the first try failed: how often the server applied the  *)
(* statement.  The first try may have been applied (1) or not (0); after a *)
(* reconnect the statement is sent once more, which may fail as well.      *)
Resent(first, reconnected, second) == IF reconnected THEN first + second ELSE first

Clean == [times |-> 1, failed |-> FALSE]
Faulty ==
  {[times |-> Resent(f, rc, r), failed |-> TRUE] : f \in 0 .. 1, rc \in BOOLEAN, r \in 0 .. 1}

(* Send s to the server: at most MaxFaults sends fail at first. *)
SendQuery(s) ==
  \E r \in {Clean} \union Faulty :
    /\ r.failed => faults < MaxFaults
    /\ faults' = IF r.failed THEN faults + 1 ELSE faults
    /\ applied' = [applied EXCEPT ![s.client] = @ \o [i \in 1 .. r.times |-> s]]

-----------------------------------------------------------------------------
(* Initialize: both threads started, nothing queued. *)
Init ==
  /\ queue = [w \in Workers |-> << >>]
  /\ alive = [w \in Workers |-> TRUE]
  /\ pc = [w \in Workers |-> IF w = "executor" THEN "pop" ELSE "connect"]
  /\ cur = [w \in Workers |-> NoStatement]
  /\ holds = [t \in Threads |-> FALSE]
  /\ running = TRUE /\ ender = "up"
  /\ call = [c \in Clients |-> Idle]
  /\ issued = 0
  /\ applied = [c \in Clients |-> << >>]
  /\ faults = 0 /\ late = FALSE

Goto(w, l) == pc' = [pc EXCEPT ![w] = l]

(* Take the first element, as pop and pop_nowait do. *)
Take(w) ==
  /\ cur' = [cur EXCEPT ![w] = Head(queue[w])]
  /\ queue' = [queue EXCEPT ![w] = Tail(@)]

TakeNull(w) == cur' = [cur EXCEPT ![w] = NoStatement] /\ UNCHANGED queue

(* After a pop the executor needs its connection the first time; the       *)
(* query thread has it already.                                            *)
AfterPop(w) == IF holds[w] THEN "perform" ELSE "connect"

(* FQueue::pop: sleep when the queue is empty. *)
Pop(w) ==
  /\ pc[w] = "pop"
  /\ IF queue[w] = << >>
     THEN Goto(w, "asleep") /\ UNCHANGED <<cur, queue>>
     ELSE Goto(w, AfterPop(w)) /\ Take(w)
  /\ UNCHANGED <<alive, holds, running, ender, call, issued, applied, faults, late>>

(* A condition may wake a sleeper without a signal. *)
SpuriousWake(w) ==
  /\ Spurious
  /\ pc[w] = "asleep"
  /\ Goto(w, "woken")
  /\ UNCHANGED <<queue, alive, cur, holds, running, ender, call, issued, applied, faults, late>>

(* FQueue::pop after its one wait: NULL when there is still nothing. *)
Woken(w) ==
  /\ pc[w] = "woken"
  /\ Goto(w, AfterPop(w))
  /\ IF queue[w] = << >> THEN TakeNull(w) ELSE Take(w)
  /\ late' = (late \/ (queue[w] = << >> /\ running))
  /\ UNCHANGED <<alive, holds, running, ender, call, issued, applied, faults>>

(* GetFreeConnection, for as long as the worker's loop runs.  The query    *)
(* thread connects before its first pop, the executor after it.            *)
Connect(w) ==
  /\ pc[w] = "connect"
  /\ GetFreeConnection(w)
  /\ Goto(w, IF w = "query" THEN "pop" ELSE "perform")
  /\ UNCHANGED <<queue, alive, cur, running, ender, call, issued, applied, faults, late>>

(* The loop's body: NULL leaves it, otherwise send and test for the end. *)
Perform(w) ==
  /\ pc[w] = "perform"
  /\ IF cur[w] = NoStatement
     THEN Goto(w, "release") /\ UNCHANGED <<applied, faults>>
     ELSE /\ SendQuery(cur[w])
          /\ Goto(w, IF running THEN "pop" ELSE "release")
  /\ cur' = [cur EXCEPT ![w] = NoStatement]
  /\ UNCHANGED <<queue, alive, holds, running, ender, call, issued, late>>

(* Mutant: the end is announced before the rest of the queue is done. *)
ReleaseAnnounced(w) ==
  /\ pc[w] = "release" /\ BusyRelease(w) /\ Goto(w, "drain")
  /\ alive' = [alive EXCEPT ![w] = FALSE]
  /\ UNCHANGED <<queue, cur, running, ender, call, issued, applied, faults, late>>

(* After the loop: the connection is given back. *)
Release(w) ==
  /\ pc[w] = "release"
  /\ BusyRelease(w)
  /\ Goto(w, "drain")
  /\ UNCHANGED <<queue, alive, cur, running, ender, call, issued, applied, faults, late>>

(* Mutant: the rest of the queue is not worked off. *)
DrainNothing(w) ==
  /\ pc[w] = "drain" /\ Goto(w, "stop")
  /\ UNCHANGED <<queue, alive, cur, holds, running, ender, call, issued, applied, faults, late>>

(* "execute all the remaining queries": pop_nowait until the queue is      *)
(* empty ...                                                               *)
Drain(w) ==
  /\ pc[w] = "drain"
  /\ IF queue[w] = << >>
     THEN Goto(w, "stop") /\ UNCHANGED <<queue, cur>>
     ELSE Goto(w, "reconnect") /\ Take(w)
  /\ UNCHANGED <<alive, holds, running, ender, call, issued, applied, faults, late>>

(* ... each on a connection that is asked for ... *)
Reconnect(w) ==
  /\ pc[w] = "reconnect"
  /\ GetFreeConnection(w)
  /\ Goto(w, "last")
  /\ UNCHANGED <<queue, alive, cur, running, ender, call, issued, applied, faults, late>>

(* ... and given back. *)
PerformLast(w) ==
  /\ pc[w] = "last"
  /\ SendQuery(cur[w])
  /\ cur' = [cur EXCEPT ![w] = NoStatement]
  /\ BusyRelease(w)
  /\ Goto(w, "drain")
  /\ UNCHANGED <<queue, alive, running, ender, call, issued, late>>

(* ThreadRunning = false; for the query thread, its destructor clears qt. *)
Stop(w) ==
  /\ pc[w] = "stop"
  /\ alive' = [alive EXCEPT ![w] = FALSE]
  /\ Goto(w, "done")
  /\ UNCHANGED <<queue, cur, holds, running, ender, call, issued, applied, faults, late>>

-----------------------------------------------------------------------------
(* The statement c is issuing. *)
Statement(c, k) == [client |-> c, n |-> call[c].n, kind |-> k]

(* Execute (k = "executor") and AddQueryBuffer (k = "query") test whether  *)
(* their thread is there; WaitExecute (k = "caller") does not ask.         *)
Issue(c, k) ==
  /\ call[c] = Idle /\ issued < MaxIssue
  /\ late' = (late \/ ender # "up")
  /\ issued' = issued + 1
  /\ call' = [call EXCEPT ![c] = [kind |-> k, push |-> k \in Workers /\ alive[k], n |-> issued']]
  /\ UNCHANGED <<queue, alive, pc, cur, holds, running, ender, applied, faults>>

(* Mutant: the condition is not signalled. *)
PushSilent(c) ==
  /\ call[c] # Idle /\ call[c].push
  /\ call' = [call EXCEPT ![c] = Idle]
  /\ queue' = [queue EXCEPT ![call[c].kind] = Append(@, Statement(c, call[c].kind))]
  /\ UNCHANGED <<pc, alive, cur, holds, running, ender, issued, applied, faults, late>>

(* FQueue::push: the condition is signalled when the queue was empty. *)
Push(c) ==
  /\ call[c] # Idle /\ call[c].push
  /\ LET w == call[c].kind
     IN  /\ queue' = [queue EXCEPT ![w] = Append(@, Statement(c, w))]
         /\ pc' = IF queue[w] = << >> /\ pc[w] = "asleep" THEN [pc EXCEPT ![w] = "woken"] ELSE pc
  /\ call' = [call EXCEPT ![c] = Idle]
  /\ UNCHANGED <<alive, cur, holds, running, ender, issued, applied, faults, late>>

(* WaitExecute, and the others in its place: the caller asks for a         *)
(* connection ...                                                          *)
CallerConnect(c) ==
  /\ call[c] # Idle /\ ~call[c].push /\ ~holds[c]
  /\ GetFreeConnection(c)
  /\ UNCHANGED <<queue, alive, pc, cur, running, ender, call, issued, applied, faults, late>>

(* ... sends its statement itself, and gives the connection back. *)
SendNow(c) ==
  /\ call[c] # Idle /\ holds[c]
  /\ SendQuery(Statement(c, call[c].kind))
  /\ BusyRelease(c)
  /\ call' = [call EXCEPT ![c] = Idle]
  /\ UNCHANGED <<queue, alive, pc, cur, running, ender, issued, late>>

-----------------------------------------------------------------------------
(* EndThreads: Terminate. *)
Terminate ==
  /\ ender = "up"
  /\ running' = FALSE /\ ender' = "loop"
  /\ late' = (late \/ \E c \in Clients : call[c] # Idle)
  /\ UNCHANGED <<queue, alive, pc, cur, holds, call, issued, applied, faults>>

(* Mutant: only the query thread is woken. *)
BroadcastQuery ==
  /\ ender = "loop"
  /\ IF alive["executor"] \/ alive["query"]
     THEN /\ ender' = "slept"
          /\ pc' = IF pc["query"] = "asleep" THEN [pc EXCEPT !["query"] = "woken"] ELSE pc
     ELSE ender' = "ended" /\ UNCHANGED pc
  /\ UNCHANGED <<queue, alive, cur, holds, running, call, issued, applied, faults, late>>

(* EndThreads, one turn of the loop: wake the threads whose queue is       *)
(* empty.                                                                  *)
Broadcast ==
  /\ ender = "loop"
  /\ IF alive["executor"] \/ alive["query"]
     THEN /\ ender' = "slept"
          /\ pc' = [w \in Workers |->
                      IF pc[w] = "asleep" /\ queue[w] = << >> THEN "woken" ELSE pc[w]]
     ELSE ender' = "ended" /\ UNCHANGED pc
  /\ UNCHANGED <<queue, alive, cur, holds, running, call, issued, applied, faults, late>>

(* ... and after the sleep: leave when the executor has stopped. *)
AfterSleep ==
  /\ ender = "slept"
  /\ ender' = IF alive["executor"] THEN "loop" ELSE "ended"
  /\ UNCHANGED <<queue, alive, pc, cur, holds, running, call, issued, applied, faults, late>>

Worker(w) ==
  \/ Pop(w) \/ Woken(w) \/ Connect(w) \/ Perform(w) \/ Release(w)
  \/ Drain(w) \/ Reconnect(w) \/ PerformLast(w) \/ Stop(w)
Client(c) == Push(c) \/ CallerConnect(c) \/ SendNow(c)
Ender == Broadcast \/ AfterSleep

Next ==
  \/ \E w \in Workers : Worker(w) \/ SpuriousWake(w)
  \/ \E c \in Clients : Client(c) \/ \E k \in Kinds : Issue(c, k)
  \/ Terminate \/ Ender

(* Started threads run, a client inside a call goes on, EndThreads loops.  *)
(* That a poll for a connection succeeds is assumed only where one stays   *)
(* free.                                                                   *)
Fairness ==
  /\ \A w \in Workers : WF_vars(Worker(w))
  /\ \A c \in Clients : WF_vars(Client(c))
  /\ WF_vars(Ender)

Spec == Init /\ [][Next]_vars
FairSpec == Spec /\ Fairness

-----------------------------------------------------------------------------
(* Every component has its type, and no connection is given to two threads *)
(* at a time.                                                              *)
TypeOK ==
  /\ queue \in [Workers -> Seq(Statements)]
  /\ alive \in [Workers -> BOOLEAN]
  /\ holds \in [Threads -> BOOLEAN] /\ Cardinality(Holders) <= Conns
  /\ pc \in [Workers -> {"connect", "pop", "asleep", "woken", "perform", "release", "drain",
                         "reconnect", "last", "stop", "done"}]
  /\ cur \in [Workers -> Statements \union {NoStatement}]
  /\ running \in BOOLEAN /\ ender \in {"up", "loop", "slept", "ended"}
  /\ call \in [Clients -> {Idle} \union [kind : Kinds, push : BOOLEAN, n : 1 .. MaxIssue]]
  /\ issued \in 0 .. MaxIssue
  /\ applied \in [Clients -> Seq(Statements)] /\ faults \in 0 .. MaxFaults
  /\ late \in BOOLEAN

(* A worker never sleeps on work: push signals only for the first element  *)
(* and pop waits only once, yet no queue holds a statement while its       *)
(* worker sleeps.                                                          *)
NoSleepOnWork == \A w \in Workers : pc[w] = "asleep" => queue[w] = << >>

(* What one client passed to Execute (or to AddQueryBuffer) is applied in  *)
(* the order it was passed, through the change from queued to direct       *)
(* execution when the thread ends, and a re-send repeats a statement       *)
(* before any later one.                                                   *)
InOrder ==
  \A c \in Clients : \A i, j \in 1 .. Len(applied[c]) :
    i < j /\ applied[c][i].kind = applied[c][j].kind => applied[c][i].n <= applied[c][j].n

(* Nothing is queued for w or in its hands. *)
Clear(w) == queue[w] = << >> /\ cur[w] = NoStatement

(* "kill the database thread first so we don't lose any queries/data":     *)
(* what is queued when the threads are ended is applied.                   *)
QueueApplied == \A w \in Workers : Len(queue[w]) > 0 ~> Clear(w)

(* The same for callers that are out of the database, and stay out of it,  *)
(* when EndThreads is called, as long as no worker ends early: through     *)
(* sleeping workers and lost connections, all they queued is applied.      *)
QueueAppliedToEnd == \A w \in Workers : Len(queue[w]) > 0 ~> (Clear(w) \/ late)

(* EndThreads returns, whether its broadcast meets a worker before or      *)
(* after it goes to sleep, and whatever calls come meanwhile.              *)
EndReturns == ender = "loop" ~> ender = "ended"

(* A caller is served although both threads keep a connection and the      *)
(* other callers, and the last statements, need the ones that are left.    *)
CallersServed == \A c \in Clients : call[c] # Idle ~> call[c] = Idle

(* When EndThreads returns, everything that was passed to Execute before   *)
(* it was called is sent: ThreadRunning is cleared only after the queue is *)
(* empty.  (EndThreads does not wait for the query thread.)                *)
ExecutorCleared ==
  ender = "ended" /\ ~late => Clear("executor")
=============================================================================
