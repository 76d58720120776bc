# A TLA+ verification of HearthStone-Emu

HearthStone-Emu is a World of Warcraft server emulator in C++ (an Ascent/Aspire
fork). This directory holds TLA+ models of the parts of it whose correctness
depends on interleavings, ordering, limits and shutdown, the TLC configurations
that check them, and TLAPS proofs of what holds for every instance size.

## 1. Inventory

Paths are relative to `src/src/`.

| Part | Source | State it keeps | Operations | What is hard |
|---|---|---|---|---|
| Circular buffer | `hearthstone-shared/Network/CircularBuffer.*` | a block and two regions | Write, Read, Remove, GetSpace, commit | pointer arithmetic at region boundaries |
| Sockets | `hearthstone-shared/Network/Socket*` | connected/deleted flags, buffers, send lock, epoll interest | Send, read/write callbacks, Disconnect, Delete, garbage collection | edge-triggered events, two threads closing one socket |
| Thread pool | `hearthstone-shared/Threading/ThreadPool.*` | free and active sets, exit tokens, counters | ExecuteTask, ThreadExit, IntegrityCheck, KillFreeThreads, Shutdown | killed threads that are still listed as free; anonymous exit tokens |
| Queues and locks | `hearthstone-shared/Threading/*` | list, condition variable, reader and writer counts | push/pop, read/write lock | single waits, signals on empty only |
| Database | `hearthstone-shared/Database/Database.*` | connections, two queues, two threads | Execute, Query, AddQueryBuffer, EndThreads | check-then-push at shutdown, starvation of connections |
| Logon server | `hearthstone-logonserver/*` | accounts, IP bans, realms, server sockets | SRP login, realm list, reload, realm registration, ping timeout | pointers kept across reloads, realms replaced or timed out |
| Logon link | `hearthstone-world/LogonComm*` | logon sockets, pending session requests | connect, authenticate, register, ping, session request/reply | retries against late answers, reply before the requester is ready |
| Login and login queue | `hearthstone-world/WorldSocket.cpp`, `World.cpp` | socket and session maps, queue of waiting sockets | authenticate, queue, admit, disconnect | one account on two sockets, socket closed while queued |
| Trade | `hearthstone-world/TradeHandler.cpp` | both players' offers and states | initiate, begin, set item/gold, accept, cancel | consent to a changed offer, gold spent between offer and swap |
| Maps, units, spells, items, quests, loot | `hearthstone-world/*` | world objects | game rules | large sequential rule systems |
| World sessions and map threads | `hearthstone-world/WorldSession.cpp`, `World.cpp`, `MapMgr.cpp` | the world's session set, a set for each map, the session's instance | update, enter, leave and change maps, log out, delete | a session between two threads that share no lock |
| Auction house | `hearthstone-world/AuctionHouse.cpp`, `AuctionMgr.cpp` | auctions, removal list, the auctions table | sell, bid, buy out, cancel, expire, remove, load | bids of several map threads, removal while a handler holds the auction, restarts |
| Groups, guilds, mail, chat channels, LFG, battlegrounds | `hearthstone-world/*` | membership, queues | handlers | several players' requests interleaved |
| Realm server, voice chat | `hearthstone-realmserver`, `hearthstone-voicechat` | cluster sessions, channels | routing | handover of a player between workers |
| Scripts | `scripts` | none of their own | content scripts | content, not protocol |

How the parts interact: `Master` starts the thread pool, the databases, the
socket manager and the world thread. The socket worker reads bytes into a
socket's circular buffer and calls the packet handlers; the handlers of
`WorldSocket` ask the logon server through `LogonCommHandler`, whose socket is
served by the same worker, and create sessions. The world thread updates
sessions that are on no map, each map's thread the sessions on that map. All of
them send through `Socket::Send` and write through `Database::Execute`.
Shutdown ends the databases' threads first, then the sockets, then the pool.

The behaviours that are hard to test, each at its line, are in `PROJECT.json`
under `hazards`, with the properties that watch them.

## 2. Plan

Done, in this order: the infrastructure every other part rests on (`CircularBuffer`,
`SocketIO`, `ThreadPool`, `Database`); the way into the world (`WorldLogin`); the
link that lists the realm (`RealmLink`); the threads a session passes between
(`SessionHandover`); the first of the systems players share (`AuctionHouse`).
Left, most important first:

1. `SocketLifecycle`: `Disconnect`, `Delete`, the descriptor table and the
   garbage collector, with the worker and another thread closing one socket.
2. `PacketQueue` over `SocketIO`: `WorldSocket::OutPacket` and
   `UpdateQueuedPackets`; order of packets.
3. `Trade`: offers, acceptance, the swap; against an abstract atomic exchange.
4. `AccountCache` reloads against `AuthSocket`; `RWLock`; `BufferPool`.
5. Groups, guilds and battleground queues where several players' requests meet.

Proofs: every safety invariant the runs check is proved for all values of the
constants, and so are the refinement of `ByteQueue` by the circular buffer and its
use by the sockets (section 5).

## 3. Modules and the code they model

`PROJECT.json` maps every definition to its lines. Operators whose comment
begins with "Mutant" are deliberately wrong versions of the definition that
follows; nothing uses them except the mutation tests.

Several properties hold only while the callers keep apart what the code does not
keep apart. Such a model records the first exception in a history variable, which
no guard reads: `hasty` (ThreadPool), `late` (Database), `spoilt` (AuctionHouse),
`crossed` (RealmLink), `early` (SessionHandover). So the actions are those of the
code in full, and each property says until when it holds.

**`BipBuffer`, `CircularBuffer`, `ByteQueue`.** `BipBuffer` holds the methods
of `CircularBuffer` as operators on a record (block, two region pointers as
offsets, two sizes). The pointer differences of the header are modelled as
integers: `RegionsInBounds` is what makes the unsigned arithmetic of the code
equal to it. `CircularBuffer` is one object and the calls sockets make on it,
one at a time (output is under `m_writeMutex`, input is touched by the one
worker). `ByteQueue` is the promise to the callers.

**`SocketIO`.** One connected socket of the epoll build: senders, the worker
and the kernel. A `Send` is two steps, because the worker tests the buffer and
the lock without the mutex (`SocketMgrLinux.cpp:126`) and can see the state
between them; that test and the `PostEvent` it leads to are two steps as well.
The write buffer is `BipBuffer`'s and holds the bytes numbered as accepted. The
read buffer is a second one, of `ReadSize` bytes that are all alike: a read event
makes one `recv`, into the contiguous space there is, and what does not fit stays
in the kernel without a new edge; a full buffer makes `recv` return 0, which the
code takes for the end of the connection. `OnRead` takes any part of what is
there. The kernel's side (external) follows epoll's edge-triggered mode: an event is
queued when the interest is set on a ready descriptor, when input arrives, and
when room appears after a send (or a registration) that found none. `Hangup`
stands for every way the worker ends the connection.

**`ThreadPool`.** Each thread's program counter follows `thread_proc`; the
pool's methods hold `_mutex` and are one step each. Which free threads
`begin()` meets first is left open, since the set is ordered by address. A
deleted thread's name may be used again by `StartThread`, as its address may.
The pool is a global object, so `_threadsToExit`, which the constructor does
not set, starts at zero.
`hasty` records that a call came while some thread was neither waiting nor
executing.

**`Database`.** A client's call is the test and then the push, or else, as for
`WaitExecute`, three steps: the test, the poll for a connection (`CallerConnect`)
and the send that gives it back (`SendNow`). The workers' steps are those of `run` and `thread_proc_query`, with the
two `FQueue`s inlined. `Resent` is `_SendQuery` on a lost connection: all
combinations of whether the first try was applied, whether the reconnect
succeeded and whether the second was applied and answered. A worker holds its
connection while its loop runs, and afterwards asks for one and gives it back for
each remaining statement (`Drain`, `Reconnect`, `PerformLast`). A query buffer holds one statement.
`late` records a call that `EndThreads` found under way or that came after it,
and a wake-up without work, after which a worker leaves its loop.

**`WorldLogin`.** The socket worker's handlers (`net` is where it is) and the
world thread's `UpdateQueuedSessions` (`world`), split where the other thread
can come between: between the test of the limit and the session's entry,
between the entry in the queue and `mQueued`, between the test of
`GetSession()` and its later calls. The world thread holds `queueMutex` while
`world` is in the queue ("admit", "release") and `SessionsMutex` while it is in a
session's `Disconnect` ("withdraw"), which takes `pendingLock` if the socket has a
request; the answer's handler holds `pendingLock` throughout and takes
`SessionsMutex` to enter the session. A new session's `deleteMutex` is held while
its handler runs. A client may send CMSG_AUTH_SESSION again, up to `MaxAsks` times:
every one makes a request with an entry in `pending_logons`, the socket remembers
the last, and only one answer for a socket gets through (`Authed`). Timers are left
open: a ping may time out, and a set logout timer may run out, at any time.
`Refused` and `WrongDigest` are the two ways a login fails on its own. Two
things are single steps here although the code does them under separate locks:
`AddSession` with `AddGlobalSession`, and the disconnection of the account's
earlier session, whose pointer the code uses after releasing the lock
(`WorldSocket.cpp:338`). `acct` says which account each
connection logs in to: one of `Logins`, chosen at the start.

**`RealmLink`.** The watcher's `Connect` and `UpdateSockets` with `mapLock`
(`locked`), the world server's socket worker, the logon server's worker and the
timer that calls `TimeoutSockets`. Connections are numbered in the order they are
made; each is a pair of FIFO channels the network may cut, and a connection given
up by one side lives on at the other until it notices. `HandleRegister` is two
steps, the new entry of the realm list and the insertion of its id into
`server_ids`. A ping is not a message: instead a connection may be timed out. A
failure that nothing forces costs one of `MaxFaults`; time-outs of connections
already broken or abandoned are free (`Must`). `crossed` records a REGISTER handled
after that of a later connection or while its own connection is timed out.

**`SessionHandover`.** The world thread's loop over `GlobalSessions` (under
`SessionsMutex`), each map thread's insert pool, units and loop over
`MapSessions`, and `WorldSession::Update` split where another thread can come
between: after `AddToWorld` has put the player in a map's pool and before
`SetInstance`; after `RemoveObject` has set instance 0 and before
`AddGlobalSession`; after that and before the map erases the session. A map that
takes a player out of its pool may find him outside its borders and teleport him
away (`PutOut`), which removes him from the world while the map holds
`m_objectinsertlock`, so that `AddToWorld` is two steps, reaching that lock and
passing it. The bind point he is sent to is taken to be on a loaded continent, and
`m_beingPushed` to be cleared with the removal rather than after the teleport.
Packets that change neither map nor logout timer are left out. `early` records that
a thread took up a session another thread still listed or had in its hands.

**`AuctionHouse`.** The handlers run on the threads of their players' maps and
are split at each read or write of an auction's fields, since only the lists have
locks. Their last step is the answer to the client (`Reply`), which reads
`auct->Id` after the removal was queued or the bid assigned; by then the auction
may have been freed. `AuctionMgr::Update` works off the removal list and, in one of twelve calls,
marks what has expired. `stake` counts what a bidder has paid and was not mailed
back; gold in the mail is never lost there. The auctions table has a row that is
absent, queued (the INSERT is on its way through `Database`) or written, and the
bidder and bid it will hold. `Restart` is an orderly one and uses what
`QueueAppliedToEnd` promises. `spoilt` collects the auctions that met two
overlapping bids, a bid after the mark "expired" or during the mails, two
overlapping removals, a removal while a handler still works on it (more than
answers), or a restart that loads
something else than memory held.

## 4. Runs

| Run | Shows |
|---|---|
| `circular_buffer` | Every call sequence on a buffer of 4 bytes: bounds, whole again when drained, and refinement of `ByteQueue`. |
| `thread_pool` | 3 threads, 2 tasks, calls at any time: no deleted thread is listed, no thread sleeps on a task. Until a hasty call: `_threadsEaten` never exceeds the free threads, every task is executed, `Shutdown` returns. |
| `thread_pool_lost_task` | violation: a task given to a killed thread that has not left is lost. |
| `socket_io` | Two senders, a buffer of 4 bytes that wraps, a kernel with room for 2: lock, interest and data agree; bytes in order; while the output never wraps into region B it is sent, and input that fits the read buffer is served. |
| `socket_io_stall` | violation: bytes in region B wait for an edge that does not come. |
| `database` | Two clients, two statements, three connections, one lost connection, spurious wake-ups, `EndThreads` at any time: no connection is given to two threads, no worker sleeps on work, order, `EndThreads` returns, callers that compete for the one connection left are served. Without late calls everything queued is applied, the executor's before `EndThreads` returns. |
| `database_lost_query` | violation: a statement pushed after the executor's last look is lost. |
| `world_login` | Three connections (two of a GM, who skips the queue; three accounts; two of one account; the first connection may ask twice), a realm for one player, the link lost once: no dangling pointers but the entries of overwritten requests, a clean queue, an admitted client is told so last, at most one player over the limit, one session per account that never queues; unless the threads lock each other out, free places are given and logins that asked once are answered. |
| `world_login_duplicate` | violation: two queued connections of one account are both admitted. |
| `realm_link` | Up to four connections, three failures: a linked realm is listed online with its connection, an online realm has one, the worker is never left waiting for `mapLock`, and when the failures end the realm is online or a restart was asked for. |
| `session_handover` | Two sessions, one map, players put out of the map while they are pushed: until a thread is early no session is lost or used after its deletion; once its socket is gone it is deleted, unless the threads lock each other out. |
| `auction_house` | A seller, two bidders, one auction, one restart, followed until it is spoilt: losing bids are returned, winner and seller get what they should, the item is mailed once, the auction ends. |

Each violation disagrees with a comment, a header or a log line of the source;
`PROJECT.json` quotes it under `findings`. Where a property fails in general,
the passing run beside it states the condition under which it holds
(`hasty`, `NeverWraps`, `InputFits`, `late`, an account that never queues, a socket
that asked once, `Deadlocked`, `early`, `crossed`, `spoilt`).

More observations were made while modelling and have no run of their own.

- A thread that finishes takes the token of a killed one, which then waits in the
  free set for ever: after a hasty call `ShutdownEnds` fails as well.
- `EndThreads` leaves its loop when the executor has stopped, whatever the query
  thread has left (`Database.cpp:361`), so `ExecutorCleared` is stated for one
  queue only.
- `_SendQuery` reads the Boolean of its second call as an error code and returns
  the opposite (`Database.cpp:491`); the returned value is not modelled.
- `UpdateQueuedSessions` calls `GetSession()` again after testing it
  (`World.cpp:960-964`) while a disconnect may clear it; the model goes on where
  the process would end, so the properties of `WorldLogin` are about runs in which
  the world thread survives.
- Of two overlapping bids both return the same earlier bid, so one bidder is never
  paid back (`AuctionHouse.cpp:406`; the comment below it says "Return the money to
  the last highest bidder."). Without `spoilt` TLC finds this in a few steps.
- A REGISTER of an abandoned connection that is handled late replaces the realm's
  newer entry, and the end of that connection takes a connected realm offline,
  which nothing repairs (`LogonCommServer.cpp:182`). Without `crossed` TLC finds it.
- Nothing keeps the world thread from taking up a session between
  `AddGlobalSession` and its erasure from the map's set, nor a map thread from
  taking up a player whose `AddToWorld` has not returned. The test "We're being
  updated by the wrong thread." (`WorldSession.cpp:114`) is made by each thread
  once, before it goes on, so two threads can handle one session, and a map can meet
  one that the world has deleted. `OneHome` and `DeadSessionsGo` hold up to there.
- Input that one `recv` cuts off, because the contiguous space was too short, waits
  for the next packet (`SocketLinux.cpp:31`); and with region B in use the space may
  be 0 in a buffer that is not full, which ends the connection. Without `InputFits`
  TLC finds input that is never read.
- A second CMSG_AUTH_SESSION overwrites `mRequestID` (`WorldSocket.cpp:252`). The
  first request's entry of `pending_logons` then outlives the socket, since
  `OnDisconnect` erases the last one only, and a late answer reads it
  (`LogonCommClient.cpp:147`). The dangling entry is the exception in `NoDangling`;
  the model goes on as if the answer found nothing to do. Such a client may also
  never be answered, the exception in `LoginAnswered`.
- If that client is logged in by the first answer, the world thread may disconnect
  its session while the second answer or another client's is being handled: one
  thread holds `SessionsMutex` and waits for `pendingLock`
  (`LogonCommHandler.cpp:368`), the other the reverse (`WorldLogin`'s `Deadlocked`).
- A map that puts a player out while pushing him waits for `SessionsMutex` under
  `m_objectinsertlock` (`MapMgr.cpp:303`), and the world thread, in a packet of
  another session, waits for that lock under `SessionsMutex` (`MapMgr.cpp:1624`):
  `SessionHandover`'s `Deadlocked`. Without it TLC finds `DeadSessionsGo` violated.
- The handlers of a bid and of a sale read `auct->Id` for their answer after they
  queued the removal, assigned the bid or listed the auction (`AuctionHouse.cpp:426`, `438`,
  `552`), and the world thread may have deleted the auction by then. `QueueInv`
  (section 5) shows that nothing else touches an unspoilt auction after its deletion.

**Bounds.** Buffer: 4 bytes is the smallest block on which both regions exist
with room on both sides and a tie of the two gaps occurs; runs of up to 4 bytes
include the refused write. Sockets: 7 bytes through a buffer of 4 wrap it more
than once, with partial sends because the kernel's room (2) is less than a
region; a read buffer of 2 and up to 2 bytes of input at a time make both the cut
`recv` and the full buffer happen. Pool: 3 threads and 2 tasks allow a killed, a working and a free thread at
the same time, and one started anew; `Reserve` 2 and `CheckCount` 1 make all three
branches of `IntegrityCheck` happen. Database: 3 connections is the least the
code can work with, since the two threads keep one each; two clients compete for
the third; two statements, of one
client or of two, give order within and between clients. Login: two connections
of one account, or three of different accounts, on a realm for one player give
duplicates, a queue of more than one and competition for the last place; one
connection that asks twice is enough for an overwritten request and for the deadlock. Realm
link: a second connection replaces the first, a third one meets both, and
`MaxTries` 2 in place of the code's 25 makes the request for a restart happen.
Hand-over: with two packets the first session can come back to a map it has left,
with one the second can log in while the first is put out; two sessions and one
map are the least for the deadlock (one session with three packets, which crosses
between two maps, was checked as well). Auction: the prices 2 (the buyout)
and 3 give bids below, at and above the buyout, a purse of 4 pays for two bids at the buyout,
and a cut of 50% is rounded. Symmetry is not used, since
almost every run checks liveness. Deadlock
checking is off in the models that end (a stopped pool or database, all clients
served, an auction removed, failures used up), because those end states are
legitimate. In `SessionHandover` and `WorldLogin` the two threads really may lock
each other out; the liveness properties name that state, so any other standstill
would violate them.

**Fairness.** Threads that were started and are not blocked are scheduled (weak
fairness of their steps). A pool task is assumed to return once `OnShutdown` was
called, not before. A caller's poll for a connection succeeds in the end if one stays
free: the statements are bounded, so weak fairness is enough, and starvation by an
endless stream of other callers is not ruled out in the code. The peer reads what it was sent, and the logon server answers
session requests; in `WorldLogin` the link is never assumed to come back. In
`RealmLink` both servers' threads run, an abandoned connection times out in the
end, and the socket worker obtains `mapLock` while the watcher sleeps for three
seconds between two updates. In `SessionHandover` a map thread obtains
`SessionsMutex`, which is free again and again, and a logout timer that is left
alone runs out (strong fairness, since the session's thread looks at it once in
each loop). In `AuctionHouse` time passes and the twelfth call of `Update` comes
again and again (strong fairness of `UpdateAuctions`). Nothing is assumed of
clients, pings, failures or kills.

## 5. Proofs

Each `...Proofs` module proves `THEOREM Invariant == Spec => []IInv` from one
lemma for each action (or group of actions) and derives the listed theorems from
it. The theorems are about every value of the constants that satisfies the
assumptions, so the bounds of section 4 play no part in them; names such as
`MaxIssue` or `MaxConn` are then arbitrary natural numbers. All inductive
invariants were checked with TLC on the constants of the runs first.

| Theorem | States for every instance |
|---|---|
| `CircularBufferProofs`: `TypeCorrect`, `Bounds`, `Drained`, `LargerGap` | `TypeOK`, `RegionsInBounds`, `DrainedIsWhole`, `BOnlyWhenLarger` |
| `CircularBufferProofs`: `Refinement` | `Spec => FifoSpec`, the buffer is a bounded FIFO |
| `ThreadPoolProofs`: `TypeCorrect`, `NoUseAfterDelete`, `NoLostWakeup` | `TypeOK` (with the bound on `_threadsEaten`), `NoDangling`, `NoSleepOnTask` |
| `SocketIOProofs`: `TypeCorrect`, `LockTellsData`, `OutputInOrder` | `TypeOK`, `LockMeansData`, `InOrder` |
| `SocketIOProofs`: `UsesBuffer`, `OutputIsQueue` | `Spec => Buf!Spec` and `Spec => Buf!FifoSpec`, a socket's output is a behaviour of `CircularBuffer`, hence of `ByteQueue` |
| `DatabaseProofs`: `TypeCorrect`, `NoLostWakeup`, `AppliedInOrder`, `NothingLeft` | `TypeOK`, `NoSleepOnWork`, `InOrder`, `ExecutorCleared` |
| `WorldLoginProofs`: `TypeCorrect`, `PointersValid`, `AdmittedOnce`, `UnqueuedLogsInOnce`, `LimitHeld` | `TypeOK`, `NoDangling`, `AdmittedIsNotQueued`, `OneSessionUnqueued`, `AtMostOneOver` |
| `RealmLinkProofs`: `TypeCorrect`, `OnlineHasConnection`, `LinkedIsListed` | `TypeOK`, `OnlineIsAlive`, `LinkedIsListedInOrder` |
| `SessionHandoverProofs`: `TypeCorrect`, `SessionsKept` | `TypeOK`, `OneHome` |
| `AuctionHouseProofs`: `TypeCorrect`, `RemovedOnceHolds`, `BidderWhole` | `TypeOK`, `RemovedOnce`, `BidderWholeUnspoilt` |
| `AuctionHouseProofs`: `SettledStays` | `SettledForGood`, the settlement of an unspoilt auction is final |

**Circular buffer.** `CircularBufferProofs` begins with the lemmas on the operators
of `BipBuffer`, which the socket's proofs use too: what `ChooseRegion`, `Append_` and
`Remove` do to the regions of any `Good` buffer, and to the sequence of bytes it
holds. None of the three regional properties is inductive alone: that B
ends before A needs that A still has bytes whenever B exists (otherwise a drained A
would be reset under B), and that the drained buffer is whole needs that its
pointer was reset. `RegionInv` joins them with "an empty buffer starts at offset
0". `BOnlyWhenLarger` is proved only; it is a part of `RegionInv`. The refinement
maps the buffer to the bytes of A followed by those of B: a write appends to that
sequence although it may open B, a removal cuts a prefix although it may move B's
rest to become A. Assumptions: `Size` is a positive natural number, `Byte` is not
empty, `MaxRun` is a natural number.

**Thread pool.** Neither `NoDangling` nor `NoSleepOnTask` is inductive: a free
thread may be on its way to `ThreadExit`, which deletes it, and whether it is taken
off the free set there depends on `DeleteAfterExit`. The strengthening `Posts` says
that a free thread without that flag waits with no post pending, that an unflagged
thread has at most one post and has it only while it waits, and that a thread past
its test of `ExecutionTarget` that has been given a task since has a post for it.
It follows that only a flagged thread can be free and running, and that one is
erased when it leaves. That `_threadsEaten` never exceeds the free threads is a
counting argument on top (`CountInv`). A free thread may be killed more than once
before it answers, and may meet no token when it does, so threads cannot be
counted; the invariant counts the unanswered kills, as a set of pairs of a thread
and a number (`Marks`): `_threadsEaten` plus the kills not yet answered is at most
the free threads. `IntegrityCheck` adds as many pairs as it takes from the count,
`ThreadExit` removes one, and `ExecuteTask` of a settled pool finds none.
Assumptions: finitely many threads, the counts are natural numbers.

**Socket.** `LockMeansData` speaks of the moments outside `Send`. `LockInv` says
what holds inside: whoever is between `BurstSend` and `BurstPush` has bytes waiting,
and so has the worker between its unlocked test and `PostEvent`, where the
descriptor is still open because only the worker closes it. So the worker's late
`PostEvent` asks for what is registered already. `InOrder` rests on the
lemmas about the buffer. They are reached through `Buf`, an instance of
`CircularBufferProofs` whose buffer is `writeBuffer`, and that instance also carries
the composition: with `IInv`, every step of a socket is a `Write`, a `Remove` or a
stutter of the buffer (a send that takes nothing removes nothing), which is
`UsesBuffer`; the buffer's own `Refinement` then gives `OutputIsQueue`.
The read buffer is a second instance, `InBuf`: its types in `TypeOK` need that it
stays `Good` through `recv` and `OnRead`. Assumptions: `Room` and `ReadSize` are
positive, the other bounds are natural numbers, the bytes are numbered, and no sender has the name `"free"` that stands for the released mutex.

**Database.** That no connection is given to two threads, a part of `TypeOK`, counts
the threads that hold one: a poll succeeds only while they are fewer than `Conns`.
That a caller holds one only while it sends by itself is `PlaceInv`. `NoSleepOnWork` is inductive with the types. `InOrder` needs the whole
way of a statement: what is applied comes before what is in the worker's hands,
that before what is queued, the queue is sorted for each client, and all of it is
older than what the client has in its own hands (`OrderInv`, `KindInv`); once a
worker has stopped, its leftovers are never applied, so callers that work by
themselves may overtake them. `ExecutorCleared` needs that without late calls no
worker leaves its loop before `EndThreads` and nobody is in a call after it
(`EndInv`). Assumptions: at least one connection, natural bounds, finitely many
clients, none of which has a worker's name.

**Login.** The invariant has one part for each pair that must agree: socket and
session, `pending_logons`, `World`'s two lists, the queue, the handler in the
socket worker (`NetInv`) and the admission or disconnection in the world thread
(`WorldInv`). `PendInv` says that the request a socket remembers is its last, and
that an entry of that request goes when the socket closes or its answer comes; the
entries of earlier requests are what `NoDangling` leaves out.
`AtMostOneOver` becomes inductive when those who have passed a test of the limit and
are not yet entered are counted too: at most one for each of the two threads, and a
test passes only with room left. `OneSessionUnqueued` needs that a GM's new session
is entered only after the earlier one has left the session map, and that the map
agrees with the set. Assumptions: finitely many accounts (for the cardinality), and
that the constants have their types.

**Realm link.** Only the newest connection is ever open at the world's end
(`NewestInv`). The acknowledgement of a registration on that connection, on its way
or received, implies that the realm is listed with it as long as it is open at the
logon server (`AckInv`), and the realm is online only for a connection whose
`server_ids` has or is about to get its id, so that its end takes the realm offline
(`RealmInv`); both stop at `crossed`.

**Session hand-over.** `OneHome` looks at lists only; that it is kept needs that one
thread at a time has a session in its hands, which is still in its list and not met
again by its loop, or came out of its pool and is being put out (`HoldInv`), what each intermediate step knows of the player's map
and instance (`StepInv`, `PlaceInv`), that a session being updated or deleted is in
no other list (`AloneInv`), and that a session marked deleted is in the hands of the
thread that deletes it (`GoneInv`). All of it holds until a thread is `early`; then
only the types remain. Assumptions: maps are numbered from 1, the world is 0.

**Auction house.** The handlers carry an auction and a price from step to step, so
the invariant relates each handler's `hand` to the auction it holds. `Base` is what
holds of every auction, spoilt ones too: a removal with a price has assigned its
bidder, so a won auction has one, and the world thread erases the head of
`removalList`. `Clean` is what holds of an auction until it is `spoilt`, in three
parts. `QueueInv`: the auction is alive while a handler works on it or the list has
it (a handler that only has to answer may find it freed), it is listed at most once, and whoever is between `QueueDeletion`'s test and its push
is alone there; without this `RemovedOnce` is not kept by the push. `OpenInv`: before
the mails at most one bid is in progress, and every player's stake is what the stage
of that bid says (the last bidder still has his until he is refunded, the new one has
paid his price before he is assigned); an auction marked expired has no bid at all.
`BidderWholeUnspoilt` speaks only of the moments between bids, so it is not
inductive. `ClosedInv`: after the mails the stakes and the
seller's earnings are settled and nothing but the erasure is left. `IInv` was checked
with TLC on the run's constants, and, without finishing, on two auctions of two
sellers. `SettledForGood` is stated in the proofs module: once an unspoilt auction is
freed, no later step changes its bidder, bid, item, stakes or earnings. Assumptions:
finitely many auctions, `None` is neither a player nor an auction, prices are
positive, the cut is at most 100 percent.

Only model-checked: every liveness property (`~>` under fairness is beyond the
prover). What the violation runs show is a matter for TLC alone. The conditions
`hasty`, `late`, `crossed`, `early` and `spoilt` are in the theorems as they are in
the properties: nothing is proved of what comes after such a call but types, pointers
(`ThreadPool`), order (`Database`) and `Base` (`AuctionHouse`).

## 6. Not modelled

Packet framing, encryption, SRP arithmetic, the contents of SQL statements and
query results; the game rules (units, spells, items, quests, AI, scripts); the
IOCP, kqueue, poll and select builds; the unfinished cluster server and the
voice relay; vendored libraries. Within modelled parts: packets that
overtake the queued ones of their socket (`WorldSocket.cpp:130`, the plan's
`PacketQueue`), the swap of a trade between two maps' players
(`TradeHandler.cpp:341`, the plan's `Trade`), a teleport that fails while a player
is pushed, the ping messages of the logon link and `CheckServers`, the time-out of 120000 seconds for a player who is
being pushed, the rest of `LogoutPlayer`, instances that expire, and the auction
lists sent to clients. The game's content and rules are most of the repository's
lines, so these models cover a small share of them. The parts of the plan above are not modelled
yet; `PROJECT.json` lists each under `components`.
