# LightOi: models and proofs

LightOi is a TCP server in C++: a main reactor that accepts connections, sub-reactors that read frames, a pool of
worker threads for each sub-reactor, a pool of MySQL connections for the handlers, and an asynchronous log. This
directory holds TLA+ models of these parts, the TLC configurations that check them on small instances, and proofs
for TLAPS. Every definition is written from the code in `src/`; `PROJECT.json` ("map") names the lines.

## 1. Inventory

| component | state | operations | interacts through |
|---|---|---|---|
| main reactor, acceptor, black list (`Reactor.cpp`, `Acceptor.cpp`, `Protect.h`) | epoll set, listening socket, set of addresses | `listens`, `loop`, `handleAccept`, `isExistence`, `insertBlacklistSet` | callback to the dispatcher; the black list is shared with the sub-reactors |
| dispatcher (`SubReactorThreadPool.h`) | `last` | `roundRobin` | reads `activeNumber` of every sub-reactor, calls `joinEPollEvent` on one |
| sub-reactor (`Reactor.h`, `LJob.cpp`, `user.h`, `util.h`) | `epfd`, `users` (descriptor to object), `activeNumber` | `loop`, `on_read`, `on_write`, `joinEPollEvent` | EPOLLONESHOT hands an object to the pool, a worker arms it again |
| thread pool (`LThreadPool.h`) | `m_workque`, `m_workLock`, condition variable, `is_exit`, counters | constructor, `Run`, `worker`, `increaseThread`, destructor | queue |
| buffer (`Buffer.h`) | vector, `readerIndex_`, `writerIndex_` | `readFd`, `append`, `makeSpace`, `readPackageHead/Body`, `writeFd` | owned by one object at a time |
| message handlers (`Message.cpp`) | none | `messageAnalysis`, `LoginMagHandler::handleRequest` | MySQL pool |
| MySQL pool (`connect_pool.h`) | `used` flags, `m_mutex` | `get_connect_index`, `get_connect`, `remove_connect_from_pool` | shared by all workers |
| MySQL client (`mysqlhelper.cpp`) | one session, `_bConnected` | `connect`, `disconnect`, `queryRecord`, `existRecord` | MySQL, which may drop the session or refuse a statement |
| log (`Logger.cpp`) | `queue_`, `mutex_`, `cond_`, `exit_`, `fp_` | `Start`, `AddToQueue`, `threadfunc`, `Stop` | every thread logs; `Stop` runs in a signal handler |
| server, `main` (`TcpServer.cpp`, `main.cpp`) | the objects above, the descriptors of the process | `start`, `stop`, `term`, the static destructors | SIGINT; nobody joins the detached threads |
| sockets (`socketimpl.cpp`, `socketfactory.cpp`) | descriptor | `accept`, `send_data`, `recv_data`, `close`, factories | kernel |
| base64 (`base64.cpp`) | none | `Encode` in two forms, `Decode` | linked; its caller is commented out |
| HTTP, UDP, TCP client | - | - | not compiled, or without a caller |

What is hard here:

* **Hand-over without a lock.** A `LJob` belongs to the reactor thread or to one worker. Nothing but EPOLLONESHOT says
  which. Objects are deleted by the reactor while jobs may be queued; descriptors are reused by the kernel.
* **Condition variables.** The thread pool and the log wait and notify; `is_exit` and `exit_` are written without the
  mutex.
* **Shared plain integers.** `activeNumber` is changed by two threads and read by a third.
* **Edge-triggered events.** One event makes one `accept`.
* **A signal handler that does everything.** `term()` logs, stops the server and joins threads on the stack of
  whichever thread took the signal, usually the main thread.
* **Framing.** Lengths are signed integers that pass through `strncpy`; buffer indices follow from two growth rules;
  TCP cuts the stream where it likes.
* **Busy loops.** The reactor thread asks for the rest of a frame until it comes, and a worker or the reactor sends until
  the client reads.
* **The end of the process.** `stop()` closes epoll sets under running reactors, and again in a destructor; what keeps
  the threads from using destroyed objects is a `sleep(5)`.
* **A database that goes away.** A session is opened again in the middle of a query, on a connection that was lent.

What makes the components correct, in one line each: the pool runs each job once and never sleeps on work; an object
has one owner and nobody touches a deleted one; every frame gets its turn; a MySQL connection is lent to one worker and
always given back; the log writes messages in order and closes the file last; indices and frames of the buffer stay
intact, however TCP cuts them; connections go to the least loaded reactor, and none is forgotten; a lost session costs
nobody the login; `term()` stops each reactor at once and closes nobody else's descriptors. The code does not keep all of
this in every case: the properties name the cases in which it does not, and section 4 lists them.

The hazards behind these sentences are listed line by line in `PROJECT.json`.

## 2. Modules

| module | models | proofs |
|---|---|---|
| `TaskPool` | abstract specification: what a pool promises to the code that calls `Run` | |
| `LThreadPool` | `LThreadPool.h` between any two points where another thread can interfere; implements `TaskPool` | `LThreadPool_proofs` |
| `Handover` | abstract specification: who has a `LJob`, and from where it may pass to whom | |
| `SubReactor`, `MCSubReactor` | one sub-reactor with the main thread in `joinEPollEvent`, the workers, the kernel and the clients; implements `Handover` | `SubReactor_proofs` |
| `MainReactor`, `MCMainReactor` | the main thread: events, accept, black list, `roundRobin`; the sub-reactors as it sees them | `MainReactor_proofs` |
| `Lifecycle` | start and end of all reactors: `EPollstart`, `term()`, `stop()`, the static destructors, and the descriptors they share | `Lifecycle_proofs` |
| `ConnectPool` | abstract specification of the login handler: `connect_pool.h`, and queries that end in any way | `MysqlLogin_proofs` |
| `MysqlLogin` | the login handler of `Message.cpp` with `queryRecord` and `connect` over an unreliable MySQL; implements `ConnectPool` | `MysqlLogin_proofs` |
| `Logger` | `Logger.cpp` with `term()` of `main.cpp` | `Logger_proofs` |
| `Buffer`, `MCBuffer` | `Buffer.h` under the calls of `LJob`; the MC module assumes that the lengths survive `strncpy` | `Buffer_proofs` |
| `Transfer`, `MCTransfer` | one connection as a stream of bytes: `readFd`, `recv_data`, `send_data` and a client | `Buffer_proofs` |
| `Base64` | `base64.cpp`, against a reference definition of base64 | `Base64_proofs` |

How they fit: `MainReactor` hands connections to a sub-reactor of which it sees only the load; `SubReactor` has the
other end of that call (`JoinEmplace` to `JoinAdd`). The counting of
`activeNumber`, on which nothing in a sub-reactor depends, is in `MainReactor` alone. `SubReactor` uses a pool with the promises of `TaskPool` - first in,
first out, each job once - and `LThreadPool` is shown and proved to keep them. `Handover` is what the reactor, the
workers and the main thread promise each other about an object, with no word on descriptors, keys and events. `Buffer` has the contents of an object
while `SubReactor` has its ownership: because of `OneOwner` a buffer is used by one thread at a time, which is what
lets `Buffer` and `Transfer` be sequential. `SubReactor` has a frame in the three parts that `readFd` waits for, `Transfer` has the bytes of one connection.
`MysqlLogin` is what a worker does inside `task()`; it extends `ConnectPool` and is shown and proved to implement it.
`Lifecycle` runs around `SubReactor` and `MainReactor`: it has all the threads and the descriptors, and of a connection
only where it stands.

### Correspondence

* `LThreadPool`: `m_workque`, `m_workLock`, `is_exit`, `m_initThreadNum` and `m_allThread` are the members; `pc[w]`
  is the place of a worker in `worker()`. `RunCall, RunLock, RunPush, RunNotify` are the steps of `Run`; `RunPush`
  includes the growth by `increaseThread`, which runs under the lock. `WTop` to `WFinish` are the loop of a worker,
  with a spurious wakeup as a step of its own (`WSpurious`). `DtorExit, DtorNotify, DtorFree` are the destructor,
  which sets the flag without the lock, sleeps a second and frees everything without joining.
* `SubReactor`: `rAt` is the place in `loop`, `on_read` and `on_write`; `batch` the events that `epoll_wait` returned;
  `mAt` the place of the main thread in `joinEPollEvent`; `reg[f]` what the epoll set knows of a descriptor (`"off"`
  after a one-shot event). `users` and `sok` are the map and the socket of an object. A client sends a frame in three
  parts - confirm, length, body - or junk, may pipeline (`MaxReq` frames, of which `MaxWire` parts are not received yet),
  reads replies or does not, shuts down its sending side (`"half"`) and closes its socket, at any moment.
  `RecvConfirm`, `RecvLen` and `RecvBody` are the receives of `readFd`; `eagain` is the `errno` of the reactor thread.
  `room[c]` says whether the socket takes more of the reply: `Sent` is one `send_data`, which spins until it does.
  `Dispatch` is `on_read` or `on_write`, `DispatchOther` the empty third branch of the loop (`Reactor.h:131-132`), which an
  EPOLLRDHUP without EPOLLOUT takes; `ignored` records whose event it was. `EnableWrite` says whether the code was compiled with ENABLE_WRITE; it is chosen at the start from
  `Builds` and never changes, so that one run has both builds.
* `Handover`: `place[o]` is where an object is, with the kernel (`"in"`, `"out"`: armed for reading or writing), with the
  reactor, in the pool, with a worker, lost by an ignored event, or deleted. `Place` of `SubReactor` is the refinement mapping: the code keeps no such
  record, and what it says follows from `epoll_ctl`, the events returned, the queue and where each thread is.
* `MainReactor`: `backlog` and `ready` are the kernel's side of the listening socket. `Accept` is one `accept` per
  event, and may fail, which uses a null pointer. `Admit, Scan, ScanEnd, Join, JoinStore` are `roundRobin` and the
  increment in `joinEPollEvent`; each round of the scan is a step, so loads change under it, and lost updates of
  `activeNumber` are explored: a sub-reactor counts a request up, a reply of `on_write` and a hang-up down.
* `Lifecycle`: `own[f]` is what a descriptor stands for, and the kernel gives out the lowest free one; `epfd` and
  `quit` are the members of the reactors, `epfd` with any value of `Garbage` until `EPollstart`; `at[r]` is the place
  of a reactor's thread and `set[r]` the epoll set it waits on, which need not be its own: `epoll_wait` takes whatever set
  has the number `epfd` by now. `h` is the place of `term()` on the stack of the main thread (`Stops` steps of `stop()`, then
  `LogStop`, the calls to the log, then the sleep), `d` that of the destructor of the pool. `late[r]` counts the batches that
  a reactor gets after its `quit` was set. `Stop` is `stop()` of one reactor: the flag, then the close of whatever has the number `epfd`.
  `wrong` and `touched` record a descriptor of somebody else that was used or closed, and an object that was used after
  its destruction.
* `ConnectPool`: `used` is the array of flags, 0 or 1; `Scan` and `Wrap` are the two loops of `get_connect_index` from
  a random start, one index per step; `Exist` and `Query` are the two queries of the handler with any outcome.
  `get_connect` leaves `index` alone when the login is done, `remove_connect_from_pool` resets it to -1.
* `MysqlLogin`: `session` are the connections that MySQL still knows, `q[w]` the place of a worker in `queryRecord`.
  `Send`, `Reconnect` and `Resend` are the first `mysql_real_query`, `connect()` after one of the errors of a lost
  session, and the second `mysql_real_query`; `Result` is `mysql_store_result`, which may fail as well. `connect`
  throws when MySQL does not answer, and nobody catches. `matches` are the callers for whose statement the table has
  rows. The statement is put together from name and password as they came (`Message.cpp:124-128`), so that this is up to
  the text and the table, and not a matter of the right password alone. `drops` and `refused` are a history of what MySQL
  did to them.
* `Logger`: `w[t]` is the place of a caller in `AddToQueue`, `l` that of the log thread, `h[k]` that of the `k`-th run of
  `term()` and `on[k]` the thread under it, which does not go on until the handler returns (`CanRun`). SIGINT goes to the
  main thread; while that is in the handler, which blocks the signal there, another thread takes it, the log thread too
  (`Receives`). `join` throws or has no thread when `Joinable` fails. `fp_` is `"none"` when `fopen` failed: then there is no
  log thread, and nobody looks at what `Start` returned.
* `Buffer`: the record `buf` has the size and the two indices; `Read`, `Task`, `TaskReplies` and `Write` are what
  `LJob` does with them. `Read` takes negative lengths too: its second disjunct is what the conversion to `size_t` makes of
  one, and the model stops there. `strncpyHead` says what `readPackageHead` makes of the bytes of a length; the base of a byte
  is a constant, so that lengths with zero bytes occur among small numbers.
* `Transfer`: `sent, read, out, got` count bytes, so that a byte is its place in the stream and a server that is out of
  step is seen. `Start[i]` is where frame `i + 1` begins, `Kinds` the frames that begin where the server is.
  `RecvConfirm`, `RecvLen`, `RecvBody` are the three receives of `readFd`, `Deal` is `task()` and `SendData` a round of
  `send_data`; a client reads when it is `Ahead` replies behind. `stale` says that `errno` is still EAGAIN, `torn` that a header was received in part.
* `Base64`: a round of a loop is a step. `i` and `text` belong to `Encode`; `n, y, t, g, out` to `Decode`. The tables
  are written as ranges of ASCII codes.

Definitions called `X_bug`, `X_one`, `X_off` and the like stand in front of the definition `X` they are a mistaken
form of. No model uses them: each property of each passing run is violated when one of them takes the place of `X`,
which shows that the property depends on the code and not on the shape of the model.

## 3. Runs

| run | instance | question |
|---|---|---|
| `pool_jobs` | up to 4 threads, starting with 1 (an argument out of range), 3 calls of `Run`, the pool grows when one job waits | mutual exclusion, no sleeper with work, no job lost or repeated, at most one job after the shutdown began, `TaskPool`, every job runs |
| `reactor` | 2 clients with 2 frames and 1, 2 descriptors, 2 workers, results that may be empty; both builds | one owner, nobody touches a deleted object, events are real, one frame in flight; `Handover`: an object passes only from its owner to the next |
| `reactor_live` | 2 clients, one with 2 frames and one with none, 2 descriptors, 1 worker, results that may be empty; both builds | every frame is dealt with, also one sent before the reply to the one before; every hang-up releases the descriptor |
| `accept` | 4 connections of one address, 3 sub-reactors, 2 requests | least loaded in turn, black list, accepted unless two arrivals share an event |
| `logins` | 3 workers, 2 connections, 2 faults of MySQL | exclusive use, no leak, no wrong refusal, the answers of the table, every login ends, `ConnectPool` |
| `log_messages` | 1 thread, main and 2 SIGINTs, 2 messages and those of the handlers; a file or none | order, close after the last write, one late write, messages reach the file |
| `buffer_frames` | bytes of four values, lengths up to 15 and four negative ones, replies through the buffer | assertions, framing, size |
| `transfer` | 3 frames of both kinds, bodies of 2 and 3 bytes, sockets of 5 bytes, a client 2 frames ahead | in step with the frames, no standstill |
| `shutdown` | 2 sub-reactors, 1 client, 6 descriptors, 2 values of an `epfd` that was never set | at most one batch after `quit`, no foreign descriptor closed by `term()`, when the process ends |
| `base64` | up to 5 bytes of three values, 8 sizes of buffer, a line break anywhere, texts cut anywhere | the reference definition, round trip, buffers |
| `reactor_reuse` | 2 clients with 1 frame each, 1 descriptor, 1 worker | finding 1 |
| `log_stop` | 1 message, 1 SIGINT | finding 2 |

### Why the bounds are enough

* Pool: three jobs and a pool that grows from one to three threads show a notification meeting zero, one and several
  sleepers, a job pushed while another is running, and a shutdown at each of these moments. The pool starts with one
  thread and grows by three, once: after that its count leaves no room (`ThreadBound`). The proofs lift every bound.
* Sub-reactor: a conflict over an object needs two owners, so two workers and the reactor; a stale event needs a second
  descriptor in the batch; a client with two frames (`MaxReq`) gives pipelining, and three parts on the way (`MaxWire`) let
  the next frame begin before the one before is taken. In `reactor_live` the second client has no frame: what it does is
  take a descriptor, stay silent and hang up. One descriptor for two clients gives reuse. Symmetry is used only in the
  safety runs, of descriptors and workers, and of clients where they send equally many frames: they are compared for
  equality only. The proofs lift every bound.
* Accept: a slip through the black list needs a connection that gets the address listed, one that passed the test
  before and one that follows: three of one address, and a fourth for a burst. Since all have one address they are
  interchangeable, and the constraint `InOrder` looks at the behaviours in which they are opened in order: each other one is
  one of these with the connections renamed. Three reactors make ties between reactors that are not next to each other. The
  counts stay small because a connection counts at most once and requests are bounded by `MaxReq`.
* MySQL: two connections give a wrap-around at each start, three workers a refusal; two faults (`MaxFaults`) give a
  session that is lost twice within one query, and one that is lost before a reconnection that fails. The proofs lift
  all of this.
* Log: no call begins after two messages (`MaxMsg`), but those of a signal, two each; the second SIGINT makes `Stop` run
  twice, one after the other or one inside the other.
* Buffer: `K = 2, Initial = 11, IntBytes = 2` keep the proportions of 8, 1024 and 4, with lengths below, at and above the
  first size, so that each branch of `makeSpace` is met at its boundary. Of the negative lengths -1 and -2 fail the assert,
  -3 cuts the vector and -20 throws. Proofs lift the bound.
* Transfer: a frame of each kind between two of the other; sockets that hold less than a frame in one direction and one
  reply in the other make both sides wait. `RoomAssumption` says that the client leaves unread at most what the sockets
  hold. It is tight: with one byte less (`CapOut = 4` for `Ahead = 2`, or 9 for 3) worker and client wait for each other
  for ever. A half-read length has one of three values of `Garbage`: nothing, a length as announced, a longer one. Proofs
  lift the bounds.
* Shutdown: two sub-reactors, so that one is stopped and destroyed while the other still runs; six descriptors are the
  most that exist at once; a garbage `epfd` may name MySQL's descriptor or one that comes to stand for whatever is opened
  meanwhile. One SIGINT, one reconnection to MySQL. The proofs lift all but the last two.
* Base64: five bytes are a group and a rest of each length; 0, 172 and 255 fill and empty each field of six bits. Proofs
  lift the bound.

Deadlock is checked in `pool_jobs`; elsewhere the system may rightly stop (clients have nothing left to send, the
process died), and the runs say so with CHECK_DEADLOCK FALSE.

### Fairness

* Threads: weak fairness on the steps of each thread. The operating system schedules a runnable thread.
* Mutexes: strong fairness on the step that takes a mutex, for pool and log; in `MysqlLogin` on the steps of a worker
  that handles a login. `std::mutex` promises less, but the holders leave every critical section after a few steps and
  a waiting thread gets its turn on Linux with probability one. The worker's own `WLock` needs only weak fairness of
  the worker as a whole.
* `SubReactor`: a client that has begun a frame finishes it or hangs up, and one that has not closed its socket reads
  its replies (`ClientOwes`), because the loops of `readFd` and `send_data` wait for both without limit. Nothing else is
  assumed of clients.
* `Lifecycle`: the threads run. Nothing is assumed about time: `sleep(5)` may end wherever the other threads stand. Nothing
  makes the calls to the log return (`InLog`), since `log_stop` shows that `Logger::Stop` may not.
* `Transfer`: the same: a client that has begun a frame finishes it, and one that may not send reads its replies, or it
  hangs up.
* Nothing forces a call of `Run`, a login, a message, a request, a SIGINT, a client to begin a frame or to hang up, a
  spurious wakeup, a fault of MySQL, or the shutdown.

## 4. Findings

1. `reactor_reuse`: `close_conn` closes the descriptor before `users.erase` (`Reactor.h:182`). The kernel gives it to
   the next connection; `emplace` finds the key of the old one, `init` writes into the object that is about to be
   deleted, and `erase` removes the entry. The new connection stays without an object.
2. `log_stop`: `Stop` sets `exit_` and notifies without the mutex (`Logger.cpp:48`). When the log thread has tested
   `exit_` and is about to wait, the notification is lost and `join` waits for ever.

Divergences met while modelling, which have no run of their own:

* The listening socket is edge triggered (`util.h:24`) and `loop` makes one `accept` per event (`Reactor.cpp:62-63`).
  Two clients that connect before the main thread takes the event share it: the second waits until somebody else
  connects. `AcceptedUnlessBurst` shows in `accept` that this is the only way to be forgotten.
* The length of a frame is received with one `recv` whose result is only compared with zero (`Buffer.h:155`). When TCP
  delivers fewer than four bytes, the body ends somewhere else, the next confirm is wrong, and the address of a client
  that kept to the protocol is put on the list that `Buffer.h:141` says is for illegal connections from outside.
  `FramesInStep` shows in `transfer` that a cut header is the only way to get there.
* An event that is neither EPOLLIN nor EPOLLOUT takes the empty branch of `loop` (`Reactor.h:131-132`), and EPOLLONESHOT
  has disarmed its descriptor. With ENABLE_WRITE a client that shuts down its sending side while its reply does not fit
  into the socket causes an EPOLLRDHUP alone: its object stays in the map and its connection open for ever. `Handover` has
  the place `"lost"` for it, and `FramesAreServed` and `HangUpReleased` name it (`ignored`) as an exception.
* `recv_data` tests `errno` after `recv` returned 0 (`socketimpl.cpp:84-85`). A client that closes in the middle of a frame
  for which the reactor has already waited, so that `errno` is EAGAIN, makes the reactor thread spin for ever (`Hung`).
* A length is a signed integer (`Buffer.h:26`) that no test looks at before `ensureWritableBytes` (`Buffer.h:173`). A negative
  one becomes a huge `size_t`, and one above `-kCheapPrepend` wraps to a small number in `makeSpace`: an assertion fails,
  `resize` throws, or the vector is cut. `AbortsOnlyOnNegative` shows in `buffer_frames` that no other length does this.
* `read()` and `write()` of `LJob` also fail when `errno` is EPERM (`LJob.cpp:10,19`: `savedErrno` is 1 and nobody sets it).
  No call on a TCP socket sets that; the models leave it out.
* `LoginMagHandler` puts name and password into the statement as they came (`Message.cpp:124-128`), though `MysqlHelper` has
  an `escapeString`: what the query finds is up to the text. `RightReply` therefore speaks of the rows of the statement.
* The SIGINT handler logs (`main.cpp:13`, `TcpServer.h:52`). When it has interrupted `AddToQueue` of its own thread it waits
  for a mutex that this thread owns: `SelfDeadlock`, an exception of `MessagesWritten`.
* `startLogger` does not look at what `Start` returns. When `fopen` fails there is no log thread, and `Stop` joins through a
  null pointer (`Logger.cpp:36-38,51`). A second SIGINT that another thread takes while the first is in `join` makes the
  second `join` throw. Both end in `crashed` of `Logger`.
* `term()` waits five seconds for nobody in particular (`main.cpp:15`). A reactor or a worker that is still busy then uses
  objects that the static destructors have deleted: `touched`, at which `Lifecycle` stops.
* After a SIGINT that comes before a sub-reactor has made its epoll set, the set may get the number that `term()` has just
  closed: the main thread, or another reactor, then waits on the set of that reactor (`EpollWait`, `Stuck`), and one that gets
  an event there looks up a descriptor that it does not have (`Stranger`).
* `readPackageHead` copies a binary length with `strncpy`: 256 becomes 0 and the rest of the frame is read as the next
  one. `Buffer` is checked and proved for lengths without zero bytes in front of others (`IntactLens`).
* `config.hpp:11` calls MAX_WORK_NUMBER the maximum of the task queue; `Run` has its refusal commented out
  (`LThreadPool.h:119-127`) and queues without bound. What bounds the queue is one job per connection (`OneOwner`).
* `m_initThreadNum` (`LThreadPool.h:138`) is counted twice, by the constructor and by `increaseThread`. With five and
  ten of `config.hpp` the pool never grows: `ThreadBound`.
* A connection may join before the sub-reactor has created its epoll set (`Reactor.h:107`), and is then never monitored,
  or monitored by somebody else's epoll set. A SIGINT at that time closes a descriptor of somebody else.
  `TermClosesOwn` names this case as its exception.
* The destructor of the pool stops the reactors a second time and closes numbers that may by then be those of a
  connection to MySQL: this is why `TermClosesOwn` speaks of `term()` only.
* `activeNumber` is never decremented for a request unless ENABLE_WRITE is defined, and lost updates may take it below
  zero, which `roundRobin` takes for the smallest load only when no count of zero comes first (`LeastLoaded`).
* `queryRecord` returns no rows when a query fails (`mysqlhelper.cpp:315`), where `mysqlhelper.h:236` promises an
  exception: a user whose query failed is told LOGIN_FAIL as if the table had no such row. `RightReply` says exactly when.
* `disconnect` calls `mysql_library_end` while other threads use the library (`mysqlhelper.cpp:87`).
* A client that sends ahead of more replies than the sockets hold comes to a standstill with the worker, which spins in
  `send_data` (`socketimpl.cpp:57`) and reads none of its frames: see `RoomAssumption`.
* `Decode` never sets `g` back (`base64.cpp:131`): two encoded texts one behind the other are not decoded as a whole.
  `Base64` decodes one text.

## 5. Proofs

All theorems hold for every value of the constants that the named assumptions of the module allow.

* **Thread pool** (`LThreadPool_proofs`). The inductive invariant `IInv` adds to the checked properties what ties the
  program counters to the lock and the queue: a worker that is about to sleep owns the lock and the queue is still as
  empty as it saw it (`Waits`); one worker at most has passed the test of `is_exit` (`Late`); the counters differ by
  the constructor's argument (`Size`); the queue holds the last tickets in their order and every earlier one is with
  exactly one worker or finished (`Contig`, `Places`). `NoSleeperWithWork` alone is not inductive: without `Waits` a
  worker might go to sleep on a job pushed after its test. The last theorem, `PoolRefinesTaskPool`, maps every step to
  a step of `TaskPool` or to a stutter under the invariant.
* **Sub-reactor** (`SubReactor_proofs`), for any number of clients, descriptors, workers and frames, and both builds:
  `OneOwner`, `NoDanglingTask`, `EventsAreReal` and `OneFrameInFlight`. The argument: the object under a key is the one
  of the connection that has the descriptor, except while the reactor closes that descriptor (`Objects`), so that a
  reused descriptor meets the old object only between `close` and `erase`. A connection whose object is with the pool or
  a worker has its registration off, no event in the batch and no handler of the reactor on it (`Batch`, `Handlers`,
  `Queued`, `Owned`); EPOLLONESHOT turns the registration off before the reactor sees the event, and `task()` turns it
  on as the last thing it does. `Balance` ties frames read to frames served, `Real` says where the bytes of an event
  are. None of the four properties is inductive alone: to show that a new event finds no worker one must know that the
  descriptor was off all the time that the job was queued. `ReactorTypeOK` needs one thing more, `Parts`: a frame that
  was read is three parts that the client sent, and some of them are gone when the length or the body is awaited, so that
  no more frames are read than were sent. `ReactorImplementsHandover` maps each step to a step of `Handover` or a stutter. It uses
  the invariant and `Fates`: an object is made once and deleted once, and while the reactor waits it has no events left
  over from the last round. What is to be shown of each step is that only the object it is about changes its place
  (`Untouched`, `Moved`, `Stutters`); for `AddTask` and `CloseConn`, which reach the object through the map, that it is
  the one that the event was for (`KeyFacts`, `InTheHandler`).
* **Main reactor** (`MainReactor_proofs`). `RoundRobinLeastLoaded`: the scan from `last + 1` around the ring has seen the
  reactors up to its index, and its candidate is the first of the smallest of them, as long as no load changes; two
  lemmas on addition modulo the number of reactors carry it. `BlackListAtMostOneSlips`: a connection of a listed address
  that is not refused had passed the test before the listing, and the main thread is busy with one at a time.
* **MySQL** (`MysqlLogin_proofs`, for `ConnectPool` as well). `Passed` says that every flag that a scan went by is 1 and
  stays so while the scan owns the mutex; from it follows that a refusal is right, and by counting holders with a
  surjection from workers to connections that it needs as many other workers (`RefusedOnlyByOthers`).
  `LoginImplementsPool` maps each step of the handler over an unreliable MySQL to a step of `ConnectPool` or a stutter,
  which carries `Exclusive`, `UsedIffHeld` and `RefusedOnlyByOthers` over. `LoginRightReply` needs that rows come only
  from a query of this login and that one without rows, where the table has some, was refused or lost its session.
* **Log** (`Logger_proofs`). The file followed by the message in the log thread's hands and the queue is always what was
  logged (`LogOrder`); `fclose` comes after `join`, so after the thread's last write, also when `Stop` runs again while
  it is still running (`LogNoWriteAfterClose`); and the thread tests `exit_` once between two messages (`LogAtMostOneLateWrite`).
* **Buffer** (`Buffer_proofs`), under `IntactLens`, the assumption that the lengths in use that are not negative survive
  `strncpy`. The invariant `InUse`: the buffer is empty when a frame is read and holds exactly one frame when it is taken
  out; a negative length leads to `OutOfUse`, where the model stops. From them follow the order of the indices, that nothing
  but a negative length makes an assertion fail, framing, and the bound on the size for frames without limit in number.
* **Transfer** (in `Buffer_proofs`), for any sequence of frames of any size and sockets of any capacity that
  `RoomAssumption` allows: `TransferFramesInStep` and `TransferNoStandstill`. `Start` is a recursive function; its
  equations are proved by induction in the form of `Least` (a set of numbers that is not empty has a least element), and
  from them that it rises with its argument. The invariant: as long as no header was cut, the server is at
  `Start[frames]`, or behind the confirm of that frame, or `left` bytes before `Start[frames + 1]` (`Placed`); and what
  was sent of the replies falls short of the replies given by what `left` says, unless the client hung up (`Replied`).
  A worker that spins on a full socket has more bytes in front of it than `Ahead - 1` replies by `RoomAssumption`; the
  client is then so far behind that the frames it may have sent end where the server stands, so that it reads.
* **Lifecycle** (`Lifecycle_proofs`), for any number of reactors, clients and descriptors and any content of `epfd`
  before `EPollstart`: `LifecycleAtMostOneLateBatch` and `LifecycleTermClosesOwn`. Two owners never have the same descriptor,
  and who has none yet has none by that name (`Names`); from this and `EnoughAssumption`, that the process has a
  descriptor for everything it opens, the pigeonhole principle says that there is a free one (`NewFdFree`). `Places` ties
  the program counter of the main thread to those of `term()` and the destructors. `Late` says that a reactor that has
  had a batch after its `quit` was set is past its test and will not wait again. `Sets` says that as long as nothing
  happened before an epoll set existed, the number `epfd` of a reactor stands for its own set until `term()` has come to
  it. `AtMostOneLateBatch` is not inductive without `Late`, nor `TermClosesOwn` without `Names` and `Sets`.
* **Base64** (`Base64_proofs`), for data of any length. Lemmas on division by powers of two say that four sextets make
  the word they come from (`Sextets`, `Joined`, `BytesOfWord`). The invariant: `Encode` has written the symbols of the
  groups it has passed; `Decode` has written the bytes of the groups it has read, `t` holds the bits of the group that is
  not complete (`Bits`), and `g` is what its padding leaves (`Unpadded`).

Only model-checked:

* all liveness: `EveryJobRuns`, `FramesAreServed`, `HangUpReleased`, `LoginEnds`, `MessagesWritten`,
  `AcceptedUnlessBurst`, `FramesDone` and `ShutdownEnds`. Leads-to under fairness needs ENABLED, which the proof system
  does not have. Every invariant, every safety property of steps and all three
  refinements that the runs check are proved.

Where a proof needs induction over numbers it goes through `Least`, which `FiniteSetTheorems` gives by the well-foundedness
of strict inclusion of finite sets: the usual theorems of induction take an operator, which the provers cannot
instantiate.

Each module of an implementation states its types as `TypeOK` (`LoginTypeOK` in `MysqlLogin`, `TransferTypeOK` in
`Transfer`). That of `SubReactor` is checked by `reactor`, where it also bounds what is read by what was sent. They are
proved for all modules but `Base64`, where `TypeOK` documents the variables. `TaskPool` and `Handover` state none: their
variables have the types that the refinements give them.

## 6. Abstractions, and what is not modelled

* `unordered_map` and `unordered_set` operations are atomic, although two threads use them without a lock: a torn
  table has no state that could be explored.
* Contents of messages, JSON, SQL texts and log texts are left out; a frame is a length, a log message its number.
* `std::condition_variable` may wake spuriously; `std::list`, `std::queue` are sequences; allocation does not fail.
* After an undefined step (a null pointer, a double join, an index beyond the other) a model stops with `crashed`,
  `aborted`, `touched` or `overrun` set.
* `Lifecycle` begins after the log and the MySQL pool were started, and has batches of one event.
* `Decode` of characters beyond ASCII, which index the table with a negative number where `char` is signed, and of texts
  with more padding than `Encode` writes. The second form of `Decode` is declared and has no body.
* Of `connect_pool.h`, `return_connect_2_pool` and `replace_alive_connect` have no caller. Of `mysqlhelper.cpp`, what the
  login handler uses is modelled; `execute`, the builders of SQL texts, commit and rollback were used only by handlers
  whose bodies are commented out.
* Of the sockets, creating and binding one is a sequence of system calls at the start; `read` and `write` have no caller.
* `http_conn` is not compiled and has no caller, so that there is no driver to model; its `parse_line` runs off its end
  on every incomplete line (`http_conn.cpp:125`), and may then return any status.
* UDP: its only use is commented out in `SubReactorThreadPool.h`. The TCP client includes headers that the repository
  does not have, and does not send the confirm bytes of the protocol.
* rapidjson is third-party code: 18481 of the 23794 lines. All the code of the project itself has about 5300 lines, of
  which the models name about 1180; the rest is declarations, comments, handlers that are commented out, and the parts
  of this list.

## 7. What would come next

1. The pool inside `Handover` as an instance of `TaskPool`, so that the two abstract specifications share it by name.
2. `Lifecycle` with batches of several events and a second SIGINT.
3. When the handlers that are commented out come back: `execute` of `MysqlHelper` with commit and rollback.
