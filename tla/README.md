# TLA+ models of VM_prictise

The repository is a collection of systems exercises in C and C++: a thread
pool, a chat server and client, echo servers built in every style (one client
at a time, a process per client, select, epoll, a reactor), process, pipe and
signal demos, and a few algorithms. This directory holds TLA+ models of the
programs with a behaviour worth checking, the TLC runs over them, and proofs.

Contents: [inventory](#inventory) · [modules](#modules) ·
[runs](#runs-and-bounds) · [fairness](#fairness) · [proofs](#proofs) ·
[disagreements found](#disagreements-between-code-and-comments) ·
[not modelled](#not-modelled) · [plan](#plan)

## Inventory

| Component | State | Operations | What makes it hard, and what makes it correct |
|---|---|---|---|
| Thread pool, `threadpool/threadpool.cpp` | ring of tasks, three thread counters, `shutdown`, a mutex and two condition variables, the array of thread ids | worker loop, admin loop (every 10 s: grow, shrink), `threadpool_add`, `threadpool_destroy`/`_free` | lost and stolen wake-ups, decisions on stale numbers, shutdown written without the lock, holes in the thread array. Tasks run once and in order, counters stay true, nobody sleeps for ever, nothing is freed under a thread |
| Pool memory, same file | the allocations | create, its error path, free | `=` written for `==` |
| Chat server, `thread/chat_server.cpp` | array of sockets and its length under one mutex; `main`'s `clnt_sock`, read by the threads it starts | accept loop, `handle_clnt`, `send_msg` | `&clnt_sock` races with the next accept; the removal loop; descriptors reused. The count stays right, all clients see one order, every descriptor is closed |
| Chat client, `thread/chat_clnt.cpp` | a socket shared by two threads | send loop, receive loop | end of the program: close against a blocked read |
| Forking echo server, `Processes/concurrent_server.cpp` | descriptors of each process, children, the pending SIGCHLD | accept loop, child, `read_childProc` | coalesced signals, stopped children, inherited descriptors, failing fork. No stray descriptor, faithful echo, no exit behind which the handler finds nothing |
| Pipe-saving server, `Processes/pipesavemsg_server.cpp` | the same and a pipe to a saver process | the same and the saver | a bounded reader behind an unbounded number of writers, which keeps the listener |
| Signal demos, `Processes/sig.cpp`, `Opreation_System/signal/*` | children, pending signals | fork loop, handlers | reaping loops, an uninitialised comparison |
| Half-closing client, `Processes/splitIO_client.cpp` | a socket shared by two processes | reader, writer | both must end after the half-close |
| Epoll reactor, `epoll_reactor/epoll_ET.cpp` | table of events, descriptors, epoll's interest set, clock | accept, receive, send callbacks, time-out scan | callbacks that replace each other during dispatch, descriptor reuse, the scan index, registrations that fail |
| Epoll and select servers, `epoll/`, `multi-plexing/` | watched set against open descriptors | one loop each | the sets must agree while the loop works on an old copy |
| TCP, UDP, UNIX-domain and stdio echo pairs | a connection or datagrams in flight | one request at a time | partial reads, end of stream, lost datagrams |
| Bit arithmetic, bounded stack (`c++Test/`) | none; an array and its top | pure functions; push, pop | negative numbers and overflow; boundaries |
| Process, file and language demos | – | straight-line | – |

Components interact through the kernel only: a client process with its server
over a socket, threads of one process over its memory, a parent with its
children over SIGCHLD and inherited descriptors. No two of the servers share
code, except for the SIGCHLD handler, which is the same in three programs and
is modelled once (`ChildReaper`).

`PROJECT.json` lists every component with its status, every hazard with its
line and the properties about it, and for each definition the lines it models.

## Modules

| Module | Models |
|---|---|
| `TaskQueue` | what a thread pool promises: accepted tasks wait in order, at most `Capacity` of them, and are run once |
| `ThreadPool` | `threadpool.cpp`: workers, admin, callers of add, destroy and free |
| `ChatService` | what a chat server promises: one message is told at a time, each is taken up once, after it was said |
| `ChatServer` | `chat_server.cpp`: main, the handler threads, the clients and the descriptor table |
| `ChildReaper` | children, the pending SIGCHLD, `read_childProc` |
| `ForkServer` | `concurrent_server.cpp` on top of `ChildReaper`: server, children, descriptors, clients |
| `PipeServer` | `pipesavemsg_server.cpp` on top of `ForkServer`: the saver, the pipe, the write the children do more |
| `ChatRoom` | `chat_clnt.cpp` at the other end of `ChatServer`: the two threads of each client |
| `EpollReactor` | `epoll_ET.cpp`: event table, callbacks, epoll's registrations, time-out scan |
| `TcpEcho` | four one-process servers (`TCP_prictise`, `std_IO`, `epoll`, `multi-plexing`) against three clients (`TCP_prictise`, `std_IO`, `splitIO_client.cpp`) |
| `UdpEcho` | `uecho_server.cpp` and `uecho_client.cpp` over a network that loses, reorders and may duplicate |
| `BitArith` | `add`, `sub`, `mul` and `dive` of `helloword.cpp` |
| `MCThreadPool`, `MCChatServer` | the symmetry sets for TLC (the other modules are checked as they are) |
| `MCParts` | one run for `TcpEcho`, `UdpEcho`, `BitArith` and a pool with one worker, which never meet |
| `EchoService` | what an echo server promises: a client has been answered a first part of what it asked, and never more than it asked |
| `ThreadPoolProofs`, `ChatServerProofs` (with `ChatRoom`), `ForkServerProofs`, `EpollReactorProofs`, `TcpEchoProofs`, `UdpEchoProofs`, `BitArithProofs` | theorems |
| `PipeServerProofs` | theorems that rest on those of the forking server |

Operators commented "mutant of X" state a plausible slip in X. They are not
part of any specification; `PROJECT.json` says which property each one breaks.

### ThreadPool

*Reading of the file.* `threadpool.cpp` does not compile as it is. The model
makes the least repair of each such line and no other: the workers lock
`&pool->busy_thr_num` as if it were a mutex (191, 200), which becomes a mutex of
its own, different from the `thread_counter` the admin locks (221);
`is_thread_alive` (235) is an external function that tells a live thread from
one that has exited, except that the id of a detached thread that exited may
name anything, so both answers are possible; the stray comma at 123 goes; the
assignments at 94, 104 and 301 are read as the comparisons they stand for. (As
written, the pool is lost in `threadpool_create`; that reading has no further
behaviour and is not modelled.)

*State.* The C fields keep their names. A worker is the index of its entry in
`threads[]`; `wpc` says where it is in its loop, `"waiting"` and `"woken"` being
the two halves of `pthread_cond_wait`. A caller blocked in add is at `"waiting"`
or `"woken"` with its task in `ctask`. `seen` holds the admin's locals,
`done` is a history variable.

*Grain.* Code between a lock and the matching unlock is one action if nothing it
touches is touched without that lock. `shutdown` is, by `threadpool_destroy`,
and so is the wait set of `queue_not_empty`, by the admin's and the destroyer's
signals. So the test of a worker (143), its wait (146) and its exit are separate
actions; the signal loops take one action per signal.

*After a crash* (`dpc = "crashed"`: the join of a detached or never created
thread, undefined in POSIX) nothing happens any more.

| Code | Actions |
|---|---|
| worker, 140–164 | `Acquire`, `DecideToWait`, `Wait`, `WakeAndLeave`, `WakeAndCheck`, `Leave` |
| worker, 166–202 | `Quit`, `Stop`, `TakeTask`, `StartWork`, `RunTask`, `EndWork` |
| add | `AddWait`, `AddRefused`, `AddTask` |
| admin | `AdminLoop`, `Snapshot`, `ReadBusy`, `Grow`/`SkipGrow`, `Shrink`/`SkipShrink`, `AdminSignal`, `SignalsSent`, `AdminExit` |
| destroy, free | `SetShutdown`, `JoinAdmin`, `NotifyIdle`, `AllNotified`, `JoinWorker`, `JoinCrashes`, `AllJoined`, `FreePool` |
| POSIX | `SpuriousWake` |

The pool implements `TaskQueue` (`RunsInOrder`): the pending tasks are the
`queue_size` entries of the ring from `queue_front` on, the running ones are in
the workers' local variables, the finished ones in the history.

### ChatServer

Each `accept` has a number, and handler *h* is the thread started after accept
*h*. A handler's first step reads `main`'s `clnt_sock` as it then is. `fds` is
the descriptor table: `accept` returns the lowest free number, `close` frees it,
and `read` holds on to the connection it started to wait on. The removal loop of
101–111 is `Removed`, with the effect the code has (the entry stays, its
successor is lost). A `write` to a client that closed is lost or raises SIGPIPE,
which ends the process (`up`). Assumed: fewer than `MAX_CLNT` accepts (the code
does not check), and writes that do not block.

The server implements `ChatService` (`ServesChat`): a message is said when its
client writes it, taken up when the handler that has read it gets `mutx`, told
by each `write` of the broadcast, and dropped with the unlock. Nobody promises
that a message reaches everybody: the array loses entries and repeats others.
What is promised is that messages are told one after the other, in the order in
which they are taken up, each for one broadcast only. `SameOrder`, that no two
clients receive two messages in different orders, says the same of the inboxes
in one state; it is a theorem, and the run checks `ServesChat`.

### ChildReaper and ForkServer

The kernel keeps one pending SIGCHLD however many children make it send one, and
holds it back while the handler runs. `sa_flags` is 0 (58), without
`SA_NOCLDSTOP`, so a child that is stopped or continued from outside
(`JobControl`) sends the signal as an exit does, but `waitpid` without
`WUNTRACED` reports exits only: then it sets no `status`, and line 31 looks at it
all the same. `jobs` counts the stops and continues, `blanks` the runs of the
handler that found `status` unset; so the handler does look at an unset `status`,
and `BlankOnlyByJobControl` says that nothing else makes it. A stopped child
takes no step, keeps its descriptors and may stay stopped for ever. The handler
interrupts the server anywhere; the server's actions need `hpc = "out"`. `holds[p]` is the set of sockets of which process `p`
has a descriptor: `fork` copies the server's set, an exit empties the child's. A
message is one `read`'s worth of bytes, named by its number. An `accept` that a
signal interrupts returns -1 and is called again, which is no step of the model.

The server implements `EchoService` (`ServesEcho`): asked is the numbers of the
messages a client has said, answered is `got`. `Say` is `Ask`, a `Write` to a
client that is there is `Answer`, everything else a stutter. `EchoesInOrder`
speaks of one state; `ServesEcho` adds that an answer is never taken back, that
one step answers one client, and that nobody is answered what it has not said;
it is the one the run checks, `EchoesInOrder` a step of its proof.

### PipeServer

`pipesavemsg_server.cpp` is `concurrent_server.cpp` with three differences: a
child forked before the loop saves to a file what arrives on a pipe, every
other child writes what it echoed to the pipe as well, and nobody closes an end
of the pipe. `saving` chooses between the two programs, so one run checks both:
with `saving` FALSE a behaviour is one of `ForkServer`. `owes` holds the
children between line 122 (write to the client) and 123 (write to the pipe),
which blocks while the pipe is full. The saver does `MaxReads` reads (10 in the
code) and exits; it is stopped and continued, and sends SIGCHLD, like the others.
It inherits `serv_sock` and, running none of the code of the clients' children,
never closes it, although the comment at concurrent_server.cpp:105 asks a child
to close the descriptors that are not its business: `OnlySaverKeepsListener`
says that this is the one exception.
`Written` is all that was ever written to the pipe: the file and what is still
in the pipe. `FileHasAllEchoes` numbers each child's messages in it.

### ChatRoom

The clients of `ChatServer` become the program `chat_clnt.cpp`: `snd` and `rcv`
are its two threads, `shown` how much of its inbox it has printed. `Quits` is
the `close` at 105 under a blocked `read`: the connection ends only when that
read has returned. A `read` that returns 0 or more is followed by another one,
so a receiving thread ends by the -1 of a read on the closed descriptor only.
`ClosedWhenUnused`, proved and not checked, relates the server's view of a client to its two threads:
the connection has ended exactly if the sender is done and no read holds it.

### EpollReactor

*Reading of the file.* It does not compile either; the repairs are that `len`
is a local of `recvdata`, `accpetconn` is `acceptconn` and `send` takes
`ev->buf`. `g_events`, `checkpos` and the fields of an entry keep their names
(`buf` goes with `len`). `interest` is epoll's own table, `fds` the process's:
what `g_events` says is compared with them. One turn of the main loop is `Scan`,
`Wait`, one `Dispatch` per event, `LoopEnds`; each callback is one step with
everything it calls. The scan runs past the table since 229 compares where it
should assign: what lies there reads as unused entries or faults, so the scan
ends at `MaxEvents + 1` or in `"crashed"`. A client that has hung up can be
read once more if it spoke before.

Two calls fail here and the program goes on. If `EPOLL_CTL_ADD` fails (167 to
169), for a new connection, for the listener, or for one that `eventdel` has just
taken out (49), `eventadd` prints and returns, and the entry looks like any other
in use (`Watch`). If `fcntl` fails (139 to 144), or no entry is unused (132 to
137), `acceptconn` leaves the descriptor open and goes on. What was lost in one of
these ways is in the history `lost`: `UnwatchedAreLost` says that nothing else
leaves a connection unwatched, and that nobody ever finds it again. Nor does the
scan: `checkpos` meets each entry once and is always ahead of the entries that
accepts have filled, so what it closes is at most the listener
(`ScanMissesConnections`), whatever the time-out.

### TcpEcho

`style` and `program` choose, at the start of a behaviour, which server runs and
which program each client is. A connection is two streams of bytes, `up` and
`down`; byte *n* of client *c* is `<<c, n>>`, and every `read` takes any part of
what has arrived, so lines are cut and joined everywhere TCP may. The servers
without an event loop alternate `NextClient`, serving and `HangsUp`; the event
loops are `Waits` and one `Turn` per descriptor, in any order for epoll and in
rising order for select. The stdio server works by lines, and at the end of the
stream writes what is left in `message` once more (71 to 77), possibly an
earlier client's or uninitialised (`Garbage`).

All four servers implement `EchoService` (`ServesEcho`): asked is the bytes a
client has said, answered is what it has read, up to that number. A client's
write is `Ask`, its read `Answer`; the stdio server's extra line lies past what
was said and is left out. A client that writes has read no more than it said,
so saying more does not let such a line in.

### UdpEcho

A datagram is its sender and the number of the line; `requests` and `answers`
are those under way. `stale` says whether byte 6 of the server's buffer holds
something: no terminator is written, so "close\n" ends the server only if
nothing longer has been received before. `recvfrom` at the client takes
whatever comes.

### BitArith

An `int` is the set of those of its `W` bits that are one: `&`, `|`, `~` are
operations on sets, the shifts move the elements, and `Value` says what the set
stands for (bit *i* counts 2^*i*). `at` is the place in the program: in the loop
of `mul` or of `dive`, or inside `add`, whose loop is a step (`AddStep`) wherever
it is called from. `sub` is two calls of `add` (`DiveComplements`,
`DiveSubtracts`). `sum` at 125 starts with any value. `MulShifts` shows a
negative `mul1` never reaching zero, since `>>` copies the sign. The product
-1 * a is taken for what it is, the other word with which a adds up to 0.

## Runs and bounds

| Run | Bounds | What it shows |
|---|---|---|
| `pool_elastic` | 1 to 3 workers, 2 callers, 3 tasks, ring of 2, grow and shrink by 2 | types, `LiveBounds`, `LiveCount`, `BusyAmongLive`, `BlockedMeansFull`, and the refinement `RunsInOrder` |
| `pool_fixed` | 2 workers, 1 caller, 3 tasks, ring of 2 | `NoStrandedTask`, `FreeAfterWorkersStop` and `QueuedTaskRuns` for a pool that cannot shrink |
| `pool_starve`, `pool_shutdown_hang`, `pool_free_running` | as in the cfg | counterexamples, see below |
| `chat` | 3 clients, 3 accepts, 1 message each | types, `CountIsHandlers`, `RegistryStable`, the refinement `ServesChat` |
| `chat_room` | 2 clients of two threads each, 2 accepts, 1 message each | `BroadcastEnds`, `QuitterEndsWhenSpokenTo` |
| `chat_unclosed` | as in the cfg | counterexample, see below |
| `pipe` | 2 clients and the saver, 2 messages each, 2 stops or continues, 2 reads of the saver, a pipe of 2; with and without the saver | types, `BlankOnlyByJobControl`, `OnlySaverKeepsListener`, `FileHasAllEchoes`, the refinement `ServesEcho` |
| `pipe_live` | the same with 2 messages each, 1 stop and no continue, 1 read, a pipe of 1 | `EveryMessageIsRead`, `SocketDestroyed` |
| `reactor` | 3 clients, a table of 2, scan by 1, time-out 1, clock to 1 | types, `RegistrationsMatch`, `EventsStayFresh`, `NoAnswers`, `UnwatchedAreLost`, `ScanMissesConnections`, `SpeakerIsClosed` |
| `parts` | TCP: 2 clients, 2 lines of 2 bytes each, 2 clients served; UDP: 2 clients, 2 lines each; 4-bit ints, all pairs; a pool of 1 worker, 2 callers, 3 tasks, ring of 1 | TCP: `EchoIsOwn`, `EventsNeverBlock`, `WatchedAreOpen`, the refinement `ServesEcho`, `AcceptedAreServed`; UDP: `AnswersFitQuestions`, `OnlyLossBlocks`; `MulAddsProduct`, `DiveIsQuotient`, `LoopsEnd`; `BlockedCallerReturns` |

Why they are enough. The constants of the code (3 to 100 threads, a ring of 100,
10 at a time) are scaled down so that every limit is reached. Three workers
(`pool_elastic`) are the fewest among which one is signalled, one leaves and one
sleeps on; two are the fewest of which one can sleep beside a stranded task. A ring of two wraps and
tells its ends apart, with three or four tasks it fills while two callers
contend; a ring of one makes each add compete with each take. `MinWaitTaskNum`
is small so that the admin grows the pool within the bound. Three accepts let
two threads read the third's descriptor and let a freed number be used again.
Two children
allow two exits behind one signal, and with the saver a third; two stops or
continues let a child come back, or two be stopped, and put a blank run of the
handler on either side of an exit's. Four messages against two reads and a pipe
of two let the pipe fill behind a saver that has gone; the liveness run fills a
pipe of one behind one read, with a second message for a child to read on to. It
has one stop and no continue, so that a child that comes back after a stop is
covered by the safety properties only. Three clients against a table of two leave one unwatched, let a descriptor
be used again while its old entry is still in use, and give a wait of three
events; a clock of one tick and a time-out of one let every entry grow idle, the
listener's before the scan comes to it and a connection's only after. A line
of two bytes is the shortest that can be cut, two lines of two clients the
least that can be mixed up, and two clients the least of which one waits for
the other. Four bits hold both signs, every overflow and every alignment of two
operands. The proofs lift the safety properties listed below from the bounds.

`MCParts` starts in one of its four parts and stays there, the other three at
rest where they take no step; nothing is shared, so each property is about
the behaviours of its own part. The pool is there with one worker and a ring of
one because its two callers contend most for that, and it needs its own
constants beside those of `pool_fixed`.

Runs of safety properties use the symmetry of callers, tasks and clients where the
properties do not tell them apart; runs of liveness properties use none.
`CHECK_DEADLOCK FALSE` everywhere, since the systems really stop: the pool after
it is freed, the servers when no client has anything left to do.

## Fairness

A thread or process that can take a step takes one (weak fairness), per thread.
Getting a mutex that others keep taking and releasing needs strong fairness on
the step that locks it; the scheduler and the mutex implementation give that in
practice, no code refutes it, and the counterexamples below hold in spite of it.
No fairness for what nobody has to do: a new call of add, the call of destroy,
spurious wake-ups, a client that connects, speaks or hangs up, failing calls.
In particular: in `PipeServer` the server, its handler, the saver and each child
run on unless they are stopped, and nobody need continue them; in `ChatRoom` the receiving threads as well, while a user need not type;
in `EpollReactor` the one thread; in `TcpEcho` the server, and a client reads
what has come for it, but types and quits as it likes; in `UdpEcho` the server
and a client for which a datagram has come, while the network owes nothing.

## Proofs

`tlapm` checks the eight proof modules; no theorem rests on anything but the
named assumptions on the constants (`PoolAssumption`, `ChatAssumption`,
`ForkAssumption`, `ReaperAssumption`, `PipeAssumption`, `ReactorAssumption`, `NoneAssumption`,
`EchoAssumption`, `UdpAssumption`, `WidthAssumption`).

**ThreadPoolProofs.** `Typing` is inductive alone. `LiveStaysInBounds` needs
nothing else: a leaving worker tests `live_thr_num` under the same lock
as it decrements it, and so does the growing admin; what the admin saw earlier
does not matter. `BlockedOnlyWhenFull`: a take broadcasts, so a blocked caller
has a full ring. The counters (`LiveThrNumCounts`, `BusyThrNumCounts`) follow
from one invariant, `CountInv`, which pairs each counter with the set of threads
it counts and says where a thread may be while shutdown is not set; each action
moves at most one worker across the boundary (or, for `Grow`, a whole set).
`FixedPoolStrandsNoTask` (for `MinThr = MaxThr`) is the argument against a lost
wake-up: while a worker sleeps, there are at least as many workers on their way
to the queue as tasks in it. It needs that the shrink branch is never taken and
that a worker on the way to its wait found the queue empty under the lock.
`FixedPoolIsFreedLast` adds what the join loop has established for the slots
below `di`. Both are false for a pool that shrinks, which the counterexample runs show.

`PoolImplementsQueue`: every behaviour of the pool is
one of `TaskQueue`, so accepted tasks are taken in the order of their acceptance
and run once. The invariant, `OnePlace`, says that `queue_rear` is `queue_size`
places behind `queue_front` around the ring, and that no task is in two places:
with two callers, in two slots of the ring, with two workers, or in one of these
and still unused. The step that stores a task maps to `Accept`, the one that
takes it to `Take`, the end of its run to `Finish`, and all others to a stutter.

**ChatServerProofs.** One invariant, `ChatInv`: types, a handler exists only
for an accept that has been recorded, a handler at `read` waits on a client, the
handler that writes is the holder of `mutx`, and the count. The decrement of
`clnt_cnt` never passes zero because the departed handlers and the one that is
leaving are distinct numbers among the recorded accepts (`RoomForOneMore`). From
it: `Typing`, `CountDoesNotDrift`, and the action property `NobodyMovesTheArray`.

`OneOrderForAll` states `SameOrder`. A client's
`outbox` is what the server has not read of it (`OutboxIsTail`), so each message
is read by one handler once: handlers hold different messages (`HandlersApart`),
and nothing that is still unread is in an inbox (`OnlyReadOnes`). A handler that
waits for `mutx` holds a message nobody has received (`WaitingUnseen`); the one
that writes holds `mutx`, and in no inbox does anything stand behind its message
(`NothingBehind`). So two messages cannot reach two clients in different orders.

`ServerServesChat` rests on the same invariant, step by step: a client's write
is `Say` (the message is beyond all that was said, and now waits in the outbox),
`read` moves a message from the outbox to a handler and leaves it waiting
(`ReadMsgServes`), `LockToSend` is `TakeUp` because a handler at the lock holds a
message no other has (`LockToSendServes`), `Write` is `Tell` or, to a descriptor
that is closed, nothing; the unlock is `Drop`. All other steps change nothing of
what `ChatService` sees (`QuietStep`).

Every behaviour of `ChatRoom` is one of `ChatServer` (`RoomIsServerRun`): the
threads of a client do to the connection what `Connect`, `Say` and `HangUp` do,
or nothing. So the server's theorems hold with the real clients
(`RoomHasOneOrder`, `RoomServesChat`). `SocketOutlivesRead` is the theorem of `ClosedWhenUnused`,
inductive with the states of the two threads (`RoomInv`).

**ForkServerProofs.** `BlanksAreJobControl`: the signals pending and being handled
and the blank runs so far are together no more than the stops and continues so
far and the zombies (`SignalsAccounted`). An exit adds a zombie with its signal; a run
that reaps takes one of each away, and a run that finds no zombie therefore goes
back to a stop or a continue that no other run has been charged to.
`SocketsStayApart`
strengthens `OnlyOwnSockets` with what the server holds at each of its steps.
`EchoIsFaithful`: while the client is there, what it said is what it got back,
followed by what its child holds, followed by what is unread (`Flow`).

`ForkServesEcho`: by `Flow` the message a child is about to write is the next
one the client has said, so `got` never runs ahead of `said` (`NeverAhead`) and
the write is an `Answer`. Each invariant has a lemma for one step of `Next`,
which the next module uses.

**PipeServerProofs.** Every step of `PipeServer` is one of `ForkServer` or leaves
its variables alone, but for the two steps that make and end the saver
(`ForkSaver`, `SaverExits`): the saver is a child with no client's socket, and
its exit sends one SIGCHLD like any other. So the invariants of `ForkServer`
carry over (`PipeTyping`, `PipeBlanksAreJobControl`, `PipeEchoIsFaithful`,
`PipeServesEcho`), except what they say of descriptors, which is false for the
saver: `PipeSocketsStayApart` is proved of the server and the clients' children
by the same steps, and of the saver with `SaverApart`. `SaverFirst` says that
the saver is forked before the first `accept`, so that it inherits the listener
and nothing else. `FileMissesNothing` is the theorem of
`FileHasAllEchoes`, for which the invariant also relates what a child has
written to the pipe to what its client has said (`PipeFlow`): appending to the
pipe adds one place behind all others (`OneMoreEntry`), and a read by the saver
moves the border between file and pipe but not `Written` (`CutAnywhere`).

**EpollReactorProofs.** The first invariant, `ReactorInv`, of five parts: the types;
`RegistrationsMatch`; every entry has `len` 0 (`Cleared`), from which
`NobodyIsAnswered` follows at once; an entry's callback and its mask go together
(`KindsInv`); and each reported event is of a registration still in force
(`EventsInv`). The last is the point of the argument: two events of one list
are of different descriptors, a callback touches only its own entry, an unused
one and registrations of its own or a new descriptor, and an entry that a later
event points to has status 1, so `acceptconn` cannot take it. From it:
`TableMatchesEpoll`, `EventsAreCurrent`.

`OnlyFailuresLose` and `ScanClosesNobody` need a second invariant on top of it,
`TurnInv`. The listener keeps its entry, behind the others, and descriptor 0, and
no other entry calls `acceptconn` (`ListenerInv`), so the other callbacks act on
a connection. `checkpos` is behind every entry in use, and by one more as long as
the accept of this turn is to come (`ScanAheadInv`): the accept fills the lowest
unused entry, all below it are in use, so the one it fills is below `checkpos`
too. What the scan finds idle is then the listener at most (`ScanFindsListener`).

**TcpEchoProofs.** `Shape` collects the types, what a server that serves one
client at a time knows about it (`OneServed`), that the descriptors of an event
loop belong to different, connected clients (`FdsApart`), and `WatchedAreOpen`.
The types (`EchoTypeOK`) are proved only, not checked. On it rest two arguments.
`NoCallBlocks`: what makes a descriptor readable, a queued client or unread
bytes, is only taken away by the loop itself, when it handles that very
descriptor, and each is handled once per wait. `EachItsOwn`: as long as a client
can write, the bytes it has read, those on the way back and those on the way to
the server are together what it has said (`FlowOf`); the stdio server's extra
line comes when that client can write no more. `TcpServesEcho` follows: what a
read adds is the client's own, in place, and a client that still writes has read
no byte it did not say, so its next line changes the question and not the
answer.

**UdpEchoProofs.** `AnswersAreMatched`: without duplicates all that is under way
for a client that waits is the line it has just sent, once, as a request or as
an answer (`OneUnderWay`), and a client that does not wait has as many answers
as lines (`AnsweredSoFar`).

**BitArithProofs.** `MulAddsEveryProduct` and `DiveIsDivision` hold for an `int`
of any width. No induction theorem can be cited with an operator as a
parameter, so induction is done from the least number for which a claim fails,
which exists because < is well founded on the naturals (`LeastOne`, `Climb`).
So proved are the powers of two, and that bits below *n* make less than 2^*n*
(`ValueSmall`), that a left shift doubles and a right shift halves
(`LeftDoubles`, `RightHalves`), that a shift without overflow multiplies by a
power of two (`LeftMultiplies`), that every number below 2^*W* is some word's
value (`ValueOnto`, for the negation), and what the length of a word says of its
value (`LengthIs`). From the first of these: the sum of two words is what
differs and twice what is common (`XorAndCarry`), so a turn of `add`'s loop keeps
the sum of its arguments modulo 2^*W* (`TurnKeepsSum`).

`MulInv`: what `sum` has and what is left, `mul1 * mul2`, are the answer modulo
2^*W*, as long as `mul1` is not negative; a negative one stays negative, so that
`mul` never returns. `DiveInv`: `temp` is the divisor times 2^`Moved`; `ans`, in
units of `temp`, is the quotient so far, and what it leaves of the dividend,
`Rest`, is what `sub` returns. `Alignment` starts it: `temp` is at most the
dividend and more than half of it, by `LengthsDiffer`. `ans |= 1` adds one because `ans` was
just shifted (`BitCountsTemp`), `temp` is even when it is halved because the
divisor is still moved by a place (`HalfKeepsRest`), and when `Rest` is less
than the divisor the shift of `ans` by `Moved` makes it the quotient
(`AnswerIsQuotient`).

*Model-checked only:* all liveness properties (fairness and ENABLED are out of
the prover's reach). Every safety and action property of the passing runs, and
every refinement, is a theorem.

## Disagreements between code and comments

| Run | Comment | Code |
|---|---|---|
| `pool_starve` | threadpool.cpp:370, an added task wakes a thread that waits for one | the woken thread may take the wake-up for an order to exit that an earlier shrink left in `wait_exit_thr_num`; the task waits beside sleeping workers |
| `pool_shutdown_hang` | 166, 281: at shutdown all idle threads are notified and every thread exits by itself | `shutdown` and the broadcasts do without the lock; a worker between test and wait misses them and destroy never returns |
| `pool_free_running` | 166: destroying the pool closes every thread in it | the join loop takes `live_thr_num` for the used part of `threads[]`; behind a hole a thread lives on and the pool is freed under it |
| `chat_unclosed` | chat_server.cpp:99: when a client ends, its descriptor is closed | two threads may serve the same `clnt_sock`; the client of neither is never read and its descriptor stays open |

## Not modelled

Reasons per component are in `PROJECT.json`. In short:

- `unix_domain`: the server casts a length to a pointer for `accept` and the
  client connects to its own address, so the two never exchange a byte.
- `sigchild.c`: which process reaches the handler depends on an uninitialised
  `pid`; its handler, a loop of `waitpid`, is not `ChildReaper`'s.
- The creation and release of the pool's memory: as written it does not survive
  `threadpool_create`.
- The wait, fork, signal, pipe, mmap, directory and descriptor demos: one or two
  system calls in a row. The bounded stack: methods of one line. The language
  exercises: no behaviour of their own.

In the modelled programs: argument parsing, socket set-up beyond its final state,
printing, and failing `pthread_create`, `pthread_mutex_*` and `malloc`
(the code ignores them). Return values of `threadpool_add` (always 0). In the
forking servers and the chat, a message is a unit, and partial reads are seen as
messages of their own; only `TcpEcho` counts bytes. More than `MAX_CLNT` clients
of the chat server. Writes that block, except to the pipe.

## Plan

Every safety and action property of the passing runs is a theorem, and so are
the refinements. What would add most next: the memory of the pool (creation,
its error path, release), and `MAX_CLNT` of the chat server, which the code does
not compare with and the model takes as never reached.
