----------------------------- MODULE SubReactor -----------------------------
(* One SubReactor<LJob> (include/LReactor/Reactor.h) with everything that    *)
(* touches its connections: the sub-reactor thread in loop(), the main       *)
(* thread in joinEPollEvent(), the workers in LJob::task(), the kernel's     *)
(* descriptor table and epoll set, and the clients.                          *)
(*                                                                           *)
(* joinEPollEvent allocates one T per accepted connection, so the object     *)
(* made for client c is named c as well; sok[o] is the connection that the   *)
(* object o holds.  The unordered_map operations are atomic in the model.    *)
(* The pool is its abstract specification TaskPool: first in, first out,     *)
(* never closed here.                                                        *)
(* activeNumber, which main and sub-reactor count, is in MainReactor: here   *)
(* nothing depends on it.                                                    *)
EXTENDS Integers, Sequences, FiniteSets

CONSTANTS Clients,      \* connections the main thread may hand over
          Fds,          \* descriptors the kernel can give to them
          Workers,      \* threads of the pool
          MaxReq,       \* bound on the frames of each client
          MaxWire,      \* bound on the parts of frames not yet received
          Builds,       \* values of the macro ENABLE_WRITE to look at
          EnableMySql,  \* the macro ENABLE_MYSQL: a result may be empty
          None

ASSUME ParametersAssumption == /\ MaxReq \in [Clients -> Nat]
                               /\ MaxWire \in Nat
                               /\ Builds \subseteq BOOLEAN
                               /\ EnableMySql \in BOOLEAN
                               /\ None \notin Clients \cup Fds

VARIABLES
    EnableWrite,                \* the macro ENABLE_WRITE of this build
    peer, wire, parts,          \* the clients
    fd, reg, epfd,              \* the kernel
    room,                       \* the socket takes more of the reply
    users, heap, sok,           \* the reactor's map and the objects in it
    rAt, rFd, batch,            \* the sub-reactor thread
    eagain,                     \* its errno is EAGAIN
    mAt, mC, mObj,              \* the main thread in joinEPollEvent
    pending, running, wAt,      \* the pool
    nread, served,              \* history: frames read, frames dealt with
    ignored,                    \* history: connections of ignored events
    crashed                     \* the process died

clientVars == <<peer, wire, parts>>
kernelVars == <<fd, reg, epfd, room>>
objVars == <<users, heap, sok>>
reactorVars == <<rAt, rFd, batch, eagain>>
mainVars == <<mAt, mC, mObj>>
poolVars == <<pending, running, wAt>>
history == <<nread, served, ignored>>
vars == <<EnableWrite, clientVars, kernelVars, objVars, reactorVars, mainVars,
           poolVars, history, crashed>>

Peers == {"new", "open", "half", "closed"}  \* half: sends no more, but reads
Wire == {"conf", "len", "body", "junk"}

TypeOK == /\ EnableWrite \in Builds
          /\ peer \in [Clients -> Peers]
          /\ wire \in [Clients -> Seq(Wire)]
          /\ fd \in [Clients -> Fds \cup {None}]
          /\ reg \in [Fds -> {"none", "in", "out", "off"}]
          /\ epfd \in BOOLEAN
          /\ room \in [Clients -> BOOLEAN]
          /\ users \in [Fds -> Clients \cup {None}]
          /\ heap \in [Clients -> {"none", "live", "freed"}]
          /\ sok \in [Clients -> Clients \cup {None}]
          /\ rAt \in {"start", "wait", "dispatch", "conf", "len", "body", "add",
                      "write", "reply", "close", "null", "delete", "erase"}
          /\ rFd \in Fds \cup {None}
          /\ batch \subseteq Fds \X {"in", "out", "hup"}
          /\ eagain \in BOOLEAN
          /\ mAt \in {"idle", "emplace", "init", "addfd"}
          /\ {mC, mObj} \subseteq Clients \cup {None}
          /\ pending \in Seq(Clients)
          /\ running \in [Workers -> Clients \cup {None}]
          /\ wAt \in [Workers -> {"idle", "task", "send", "readable", "writable"}]
          /\ {parts, nread, served} \subseteq [Clients -> Nat]
          /\ \A c \in Clients : /\ parts[c] <= 3 * MaxReq[c]
                                /\ nread[c] <= MaxReq[c]
                                /\ served[c] <= MaxReq[c]
          /\ ignored \subseteq Clients
          /\ crashed \in BOOLEAN

Init == /\ EnableWrite \in Builds
        /\ peer = [c \in Clients |-> "new"]
        /\ wire = [c \in Clients |-> <<>>]
        /\ parts = [c \in Clients |-> 0]
        /\ fd = [c \in Clients |-> None]
        /\ reg = [f \in Fds |-> "none"]
        /\ epfd = FALSE
        /\ room = [c \in Clients |-> TRUE]
        /\ users = [f \in Fds |-> None]
        /\ heap = [c \in Clients |-> "none"]
        /\ sok = [c \in Clients |-> None]
        /\ rAt = "start" /\ rFd = None /\ batch = {}
        /\ eagain = FALSE
        /\ mAt = "idle" /\ mC = None /\ mObj = None
        /\ pending = <<>>
        /\ running = [w \in Workers |-> None]
        /\ wAt = [w \in Workers |-> "idle"]
        /\ nread = [c \in Clients |-> 0]
        /\ served = [c \in Clients |-> 0]
        /\ ignored = {}
        /\ crashed = FALSE

At(f) == CHOOSE c \in Clients : fd[c] = f   \* the connection behind f
IsOpen(f) == \E c \in Clients : fd[c] = f
Ended(c) == peer[c] \in {"half", "closed"}
Eof(c) == wire[c] = <<>> /\ Ended(c)
-----------------------------------------------------------------------------
(* The clients.  A frame is a confirm, a length and a body, which may arrive *)
(* apart; "junk" is a wrong or a short confirm.  The confirm TST stands for  *)
(* a length as well: such a frame is like one whose length comes along with  *)
(* the confirm.                                                              *)
ClientSends(c) ==
    /\ ~crashed
    /\ peer[c] = "open"
    /\ parts[c] < 3 * MaxReq[c] /\ Len(wire[c]) < MaxWire
    /\ \E p \in CASE parts[c] % 3 = 0 -> {"conf", "junk"}
                 [] parts[c] % 3 = 1 -> {"len"}
                 [] OTHER -> {"body"} :
          wire' = [wire EXCEPT ![c] = Append(@, p)]
    /\ parts' = [parts EXCEPT ![c] = @ + 1]
    /\ UNCHANGED <<EnableWrite, peer, kernelVars, objVars, reactorVars,
                   mainVars, poolVars, history, crashed>>

(* It shuts down its sending side, or closes the socket.                     *)
ClientHangsUp(c) ==
    /\ ~crashed
    /\ \/ peer[c] = "open" /\ peer' = [peer EXCEPT ![c] = "half"]
       \/ peer[c] \in {"open", "half"} /\ peer' = [peer EXCEPT ![c] = "closed"]
    /\ UNCHANGED <<EnableWrite, wire, parts, kernelVars, objVars, reactorVars,
                   mainVars, poolVars, history, crashed>>

(* It reads what fills the buffers of the connection.                        *)
ClientReads(c) ==
    /\ ~crashed
    /\ peer[c] \in {"open", "half"} /\ ~room[c]
    /\ room' = [room EXCEPT ![c] = TRUE]
    /\ UNCHANGED <<EnableWrite, clientVars, fd, reg, epfd, objVars,
                   reactorVars, mainVars, poolVars, history, crashed>>
-----------------------------------------------------------------------------
(* The main thread.  accept() takes a free descriptor: one that the sub-     *)
(* reactor has just closed is free although it is still a key of users.      *)
Accept(c, f) ==
    /\ ~crashed
    /\ mAt = "idle"
    /\ peer[c] = "new"
    /\ ~IsOpen(f)
    /\ peer' = [peer EXCEPT ![c] = "open"]
    /\ fd' = [fd EXCEPT ![c] = f]
    /\ mAt' = "emplace" /\ mC' = c
    /\ UNCHANGED <<EnableWrite, wire, parts, reg, epfd, room, objVars,
                   reactorVars, mObj, poolVars, history, crashed>>

(* joinEPollEvent: new T and users.emplace, which does nothing when the key  *)
(* is there.                                                                 *)
JoinEmplace ==
    /\ ~crashed
    /\ mAt = "emplace"
    /\ heap' = [heap EXCEPT ![mC] = "live"]
    /\ users' = IF users[fd[mC]] = None THEN [users EXCEPT ![fd[mC]] = mC] ELSE users
    /\ mAt' = "init"
    /\ UNCHANGED <<EnableWrite, clientVars, kernelVars, sok, reactorVars, mC,
                   mObj, poolVars, history, crashed>>

(* users[fd]->init: a null pointer when the key was erased in between.  The  *)
(* write to an object that was deleted in between is undefined: it passes    *)
(* unnoticed or ends the process.                                            *)
JoinInit ==
    /\ ~crashed
    /\ mAt = "init"
    /\ LET o == users[fd[mC]]
       IN  /\ mObj' = o
           /\ \/ /\ o # None
                 /\ sok' = [sok EXCEPT ![o] = mC]
                 /\ UNCHANGED crashed
              \/ /\ o = None \/ (o # None /\ heap[o] = "freed")
                 /\ crashed' = TRUE
                 /\ UNCHANGED sok
    /\ mAt' = "addfd"
    /\ UNCHANGED <<EnableWrite, clientVars, kernelVars, users, heap,
                   reactorVars, mC, poolVars, history>>

(* addfd(epollfd, clientSok->fd): EPOLL_CTL_ADD fails on an epfd that loop() *)
(* has not created yet, and nobody looks at the result.  clientSok is null   *)
(* again when the sub-reactor closed the object in between.                  *)
JoinAdd ==
    /\ ~crashed
    /\ mAt = "addfd"
    /\ \/ /\ sok[mObj] # None
          /\ reg' = IF epfd /\ fd[mC] # None THEN [reg EXCEPT ![fd[mC]] = "in"] ELSE reg
          /\ UNCHANGED crashed
       \/ /\ sok[mObj] = None
          /\ crashed' = TRUE
          /\ UNCHANGED reg
    /\ mAt' = "idle" /\ mC' = None /\ mObj' = None
    /\ UNCHANGED <<EnableWrite, clientVars, fd, epfd, room, objVars,
                   reactorVars, poolVars, history>>

JoinStep == JoinEmplace \/ JoinInit \/ JoinAdd
-----------------------------------------------------------------------------
(* loop(): EPollstart, then epoll_wait for ever.                             *)
EPollstart == /\ ~crashed
              /\ rAt = "start"
              /\ epfd' = TRUE
              /\ rAt' = "wait"
              /\ UNCHANGED <<EnableWrite, clientVars, fd, reg, room, objVars,
                             rFd, batch, eagain, mainVars, poolVars, history,
                             crashed>>

(* What the descriptor is armed for is reported, once (EPOLLONESHOT): data   *)
(* or the end of the stream as EPOLLIN, room for output as EPOLLOUT.  Of a   *)
(* connection armed for output whose client has ended its side, EPOLLRDHUP   *)
(* is reported in any case: alone, when there is no room.                    *)
Ready(f) == /\ IsOpen(f)
            /\ \/ reg[f] = "in" /\ (wire[At(f)] # <<>> \/ Ended(At(f)))
               \/ reg[f] = "out" /\ (room[At(f)] \/ Ended(At(f)))

Event(f) == IF reg[f] = "out" /\ ~room[At(f)] /\ peer[At(f)] = "half"
            THEN "hup" ELSE reg[f]

Disarm_bug(S) == reg        \* a registration without EPOLLONESHOT
Disarm(S) == [f \in Fds |-> IF f \in S THEN "off" ELSE reg[f]]

EpollWait ==
    /\ ~crashed
    /\ rAt = "wait"
    /\ LET S == {f \in Fds : Ready(f)}
       IN  /\ S # {}
           /\ batch' = {<<f, Event(f)>> : f \in S}
           /\ reg' = Disarm(S)
    /\ rAt' = "dispatch"
    /\ UNCHANGED <<EnableWrite, clientVars, fd, epfd, room, objVars, rFd,
                   eagain, mainVars, poolVars, history, crashed>>

(* for each event: on_read or on_write on users[fd], a null pointer when the *)
(* map has no such key.                                                      *)
Others_bug(e) == {}         \* only the first event of epoll_wait is handled
Others(e) == batch \ {e}

Dispatch ==
    /\ ~crashed
    /\ rAt = "dispatch"
    /\ \E e \in batch :
          /\ e[2] # "hup"
          /\ batch' = Others(e)
          /\ rFd' = e[1]
          /\ crashed' = (users[e[1]] = None)
          /\ rAt' = IF e[2] = "in" THEN "conf" ELSE "write"
    /\ UNCHANGED <<EnableWrite, clientVars, kernelVars, objVars, eagain,
                   mainVars, poolVars, history>>

(* else {}: nothing is done about any other event, and its descriptor stays  *)
(* disarmed.                                                                 *)
DispatchOther ==
    /\ ~crashed
    /\ rAt = "dispatch"
    /\ \E e \in batch :
          /\ e[2] = "hup"
          /\ batch' = Others(e)
          /\ ignored' = ignored \cup {c \in Clients : fd[c] = e[1]}
    /\ UNCHANGED <<EnableWrite, clientVars, kernelVars, objVars, rAt, rFd,
                   eagain, mainVars, poolVars, nread, served, crashed>>

DispatchEnd == /\ ~crashed
               /\ rAt = "dispatch" /\ batch = {}
               /\ rAt' = "wait"
               /\ UNCHANGED <<EnableWrite, clientVars, kernelVars, objVars,
                              rFd, batch, eagain, mainVars, poolVars, history,
                              crashed>>

Obj == users[rFd]           \* the object of the current handler
Con == sok[Obj]             \* and its connection

(* readFd: recv of the confirm; nothing or junk makes it fail.  That read()  *)
(* and write() of LJob fail as well when errno is EPERM is left out: no call *)
(* on a TCP socket sets it.                                                  *)
RecvConfirm ==
    /\ ~crashed
    /\ rAt = "conf"
    /\ \/ /\ wire[Con] # <<>>
          /\ rAt' = IF Head(wire[Con]) = "junk" THEN "close" ELSE "len"
          /\ wire' = [wire EXCEPT ![Con] = Tail(@)]
       \/ /\ wire[Con] = <<>>
          /\ rAt' = "close"
          /\ UNCHANGED wire
    /\ UNCHANGED <<EnableWrite, peer, parts, kernelVars, objVars, rFd, batch,
                   eagain, mainVars, poolVars, history, crashed>>

(* goto again: the reactor asks for the length until it comes, which leaves  *)
(* EAGAIN in errno, or the stream ends.                                      *)
RecvLen ==
    /\ ~crashed
    /\ rAt = "len"
    /\ \/ /\ wire[Con] # <<>>
          /\ wire' = [wire EXCEPT ![Con] = Tail(@)]
          /\ rAt' = "body"
          /\ UNCHANGED eagain
       \/ /\ Eof(Con)
          /\ rAt' = "close"
          /\ UNCHANGED <<wire, eagain>>
       \/ /\ wire[Con] = <<>> /\ ~Eof(Con) /\ ~eagain
          /\ eagain' = TRUE
          /\ UNCHANGED <<wire, rAt>>
    /\ UNCHANGED <<EnableWrite, peer, parts, kernelVars, objVars, rFd, batch,
                   mainVars, poolVars, history, crashed>>

(* recv_data loops until the body is there.  An EAGAIN on the way stays in   *)
(* errno, and then the end of the stream looks like one more EAGAIN: the     *)
(* loop never ends.                                                          *)
RecvBody ==
    /\ ~crashed
    /\ rAt = "body"
    /\ \/ /\ wire[Con] # <<>>
          /\ wire' = [wire EXCEPT ![Con] = Tail(@)]
          /\ nread' = [nread EXCEPT ![Con] = @ + 1]
          /\ rAt' = "add"
          /\ UNCHANGED eagain
       \/ /\ Eof(Con) /\ ~eagain
          /\ rAt' = "close"
          /\ UNCHANGED <<wire, nread, eagain>>
       \/ /\ wire[Con] = <<>> /\ ~Eof(Con) /\ ~eagain
          /\ eagain' = TRUE
          /\ UNCHANGED <<wire, nread, rAt>>
    /\ UNCHANGED <<EnableWrite, peer, parts, kernelVars, objVars, rFd, batch,
                   mainVars, poolVars, served, ignored, crashed>>

(* poolmanage->addTask(users[fd]).                                           *)
AddTask == /\ ~crashed
           /\ rAt = "add"
           /\ pending' = Append(pending, Obj)
           /\ rAt' = "dispatch" /\ rFd' = None
           /\ UNCHANGED <<EnableWrite, clientVars, kernelVars, objVars, batch,
                          eagain, mainVars, running, wAt, history, crashed>>

-----------------------------------------------------------------------------
(* What ::close does to the descriptor of connection c.                      *)
Closed(c) == /\ fd' = [fd EXCEPT ![c] = None]
             /\ reg' = [reg EXCEPT ![fd[c]] = "none"]

(* users[fd]->close_conn(): removefd and destroy; from here on accept() can  *)
(* give the descriptor away.                                                 *)
CloseFd == /\ ~crashed
           /\ rAt = "close"
           /\ Closed(Con)
           /\ rAt' = "null"
           /\ UNCHANGED <<EnableWrite, clientVars, epfd, room, objVars, rFd,
                          batch, eagain, mainVars, poolVars, history, crashed>>

(* clientSok = nullptr.                                                      *)
CloseNull == /\ ~crashed
             /\ rAt = "null"
             /\ sok' = [sok EXCEPT ![Obj] = None]
             /\ rAt' = "delete"
             /\ UNCHANGED <<EnableWrite, clientVars, kernelVars, users, heap,
                            rFd, batch, eagain, mainVars, poolVars, history,
                            crashed>>

(* delete t: ~User() closes whatever connection the object holds by now.     *)
Delete == /\ ~crashed
          /\ rAt = "delete"
          /\ IF Con = None THEN UNCHANGED <<fd, reg>> ELSE Closed(Con)
          /\ heap' = [heap EXCEPT ![Obj] = "freed"]
          /\ sok' = [sok EXCEPT ![Obj] = None]
          /\ rAt' = "erase"
          /\ UNCHANGED <<EnableWrite, clientVars, epfd, room, users, rFd,
                         batch, eagain, mainVars, poolVars, history, crashed>>

Erase == /\ ~crashed
         /\ rAt = "erase"
         /\ users' = [users EXCEPT ![rFd] = None]
         /\ rAt' = "dispatch" /\ rFd' = None
         /\ UNCHANGED <<EnableWrite, clientVars, kernelVars, heap, sok, batch,
                        eagain, mainVars, poolVars, history, crashed>>

(* modfd on the connection of o: EPOLL_CTL_MOD of a registered descriptor.   *)
Rearm_bug(o, ev) == UNCHANGED reg   \* readable() or writable() is forgotten
Rearm_out(o, ev) == reg' = LET f == fd[sok[o]]   \* modfd with EPOLLOUT always
                           IN  IF f # None /\ reg[f] # "none"
                               THEN [reg EXCEPT ![f] = "out"] ELSE reg
Rearm(o, ev) == reg' = LET f == fd[sok[o]]
                       IN  IF f # None /\ reg[f] # "none"
                           THEN [reg EXCEPT ![f] = ev] ELSE reg

(* One send_data to c: it spins until the socket has room, and may fill it.  *)
Sent(c) == room[c] /\ \E more \in BOOLEAN : room' = [room EXCEPT ![c] = more]

(* on_write (ENABLE_WRITE): the length and then the text of the reply are    *)
(* sent, and the descriptor is armed for reading again.  A send to a peer    *)
(* that is gone is accepted, fails, or raises SIGPIPE, which nobody ignores. *)
OnWrite ==
    /\ ~crashed
    /\ rAt \in {"write", "reply"}
    /\ \/ /\ rAt = "write" /\ rAt' = "reply"
          /\ Sent(Con)
          /\ UNCHANGED <<rFd, reg, served, eagain, crashed>>
       \/ /\ rAt = "reply" /\ rAt' = "dispatch" /\ rFd' = None
          /\ Sent(Con)
          /\ Rearm(Obj, "in")
          /\ served' = [served EXCEPT ![Con] = @ + 1]
          /\ UNCHANGED <<eagain, crashed>>
       \/ /\ peer[Con] = "closed"
          /\ rAt' = "close"
          /\ crashed' \in BOOLEAN
          /\ UNCHANGED <<rFd, reg, room, served, eagain>>
       \/ /\ ~room[Con] /\ peer[Con] # "closed" /\ ~eagain
          /\ eagain' = TRUE
          /\ UNCHANGED <<rAt, rFd, reg, room, served, crashed>>
    /\ UNCHANGED <<EnableWrite, clientVars, fd, epfd, objVars, batch, mainVars,
                   poolVars, nread, ignored>>

ReactorStep == \/ EPollstart \/ EpollWait
               \/ Dispatch \/ DispatchOther \/ DispatchEnd
               \/ RecvConfirm \/ RecvLen \/ RecvBody \/ AddTask
               \/ CloseFd \/ CloseNull \/ Delete \/ Erase \/ OnWrite
-----------------------------------------------------------------------------
(* The pool: an idle worker takes the oldest job.                            *)
WorkerStart(w) ==
    /\ ~crashed
    /\ running[w] = None /\ pending # <<>>
    /\ running' = [running EXCEPT ![w] = Head(pending)]
    /\ pending' = Tail(pending)
    /\ wAt' = [wAt EXCEPT ![w] = "task"]
    /\ UNCHANGED <<EnableWrite, clientVars, kernelVars, objVars, reactorVars,
                   mainVars, history, crashed>>

(* LJob::task(): without ENABLE_WRITE the worker sends the reply itself;     *)
(* with it the reply is appended to the buffer of the object.  A message     *)
(* that fails gives an empty result and no reply.                            *)
WorkerTask(w) ==
    /\ ~crashed
    /\ wAt[w] = "task"
    /\ \/ wAt' = [wAt EXCEPT ![w] = IF EnableWrite THEN "writable" ELSE "send"]
       \/ EnableMySql /\ wAt' = [wAt EXCEPT ![w] = "readable"]
    /\ UNCHANGED <<EnableWrite, clientVars, kernelVars, objVars, reactorVars,
                   mainVars, pending, running, history, crashed>>

(* The two send_data in one: they spin until there is room for the reply.    *)
(* An error is only logged, and SIGPIPE ends the process.                    *)
WorkerSend(w) ==
    /\ ~crashed
    /\ wAt[w] = "send"
    /\ \/ /\ Sent(sok[running[w]])
          /\ UNCHANGED crashed
       \/ /\ peer[sok[running[w]]] = "closed"
          /\ crashed' \in BOOLEAN
          /\ UNCHANGED room
    /\ wAt' = [wAt EXCEPT ![w] = "readable"]
    /\ UNCHANGED <<EnableWrite, clientVars, fd, reg, epfd, objVars,
                   reactorVars, mainVars, pending, running, history>>

(* readable() or writable(): the last use of the object by the worker.       *)
WorkerRearm(w) ==
    /\ ~crashed
    /\ \/ /\ wAt[w] = "readable"
          /\ Rearm(running[w], "in")
          /\ served' = [served EXCEPT ![sok[running[w]]] = @ + 1]
       \/ /\ wAt[w] = "writable"
          /\ Rearm(running[w], "out")
          /\ UNCHANGED served
    /\ wAt' = [wAt EXCEPT ![w] = "idle"]
    /\ running' = [running EXCEPT ![w] = None]
    /\ UNCHANGED <<EnableWrite, clientVars, fd, epfd, room, objVars,
                   reactorVars, mainVars, pending, nread, ignored, crashed>>

WorkerStep(w) == \/ WorkerStart(w) \/ WorkerTask(w) \/ WorkerSend(w)
                 \/ WorkerRearm(w)
-----------------------------------------------------------------------------
Next == \/ \E c \in Clients : ClientSends(c) \/ ClientHangsUp(c) \/ ClientReads(c)
        \/ \E c \in Clients, f \in Fds : Accept(c, f)
        \/ JoinStep \/ ReactorStep
        \/ \E w \in Workers : WorkerStep(w)

Spec == Init /\ [][Next]_vars

(* A client does what it likes, but one that has begun a frame finishes it   *)
(* or hangs up, and one that has not closed its socket reads the replies:    *)
(* the loops of the server wait for both.                                    *)
ClientOwes(c) == (parts[c] % 3 # 0 /\ ClientSends(c)) \/ ClientReads(c)

(* The threads of the server run.                                            *)
Fairness == /\ WF_vars(ReactorStep)
            /\ WF_vars(JoinStep)
            /\ \A w \in Workers : WF_vars(WorkerStep(w))
            /\ \A c \in Clients : WF_vars(ClientOwes(c))

FairSpec == Spec /\ Fairness
-----------------------------------------------------------------------------
Tasks == {pending[i] : i \in 1 .. Len(pending)}
             \cup ({running[w] : w \in Workers} \ {None})

(* The object a handler of the reactor works on.                             *)
Handling == rAt \in {"conf", "len", "body", "write", "reply", "close", "null",
                     "delete"}

(* EPOLLONESHOT hands an object back and forth: while it is queued or in a   *)
(* worker it is there once, its descriptor is not armed, no event for it is  *)
(* left in the batch and the reactor is not in a handler for it.  This is    *)
(* what makes LJob safe without a lock.                                      *)
OneOwner ==
    /\ \A i, j \in 1 .. Len(pending) : pending[i] = pending[j] => i = j
    /\ \A v, w \in Workers : v # w /\ running[v] # None => running[v] # running[w]
    /\ \A w \in Workers : \A i \in 1 .. Len(pending) : pending[i] # running[w]
    /\ ~crashed => \A o \in Tasks : \A f \in Fds :
          users[f] = o => /\ reg[f] = "off"
                          /\ ~\E e \in batch : e[1] = f
                          /\ Handling => rFd # f

(* No worker ever touches a deleted object or a closed connection, even when *)
(* the client hangs up while its job is queued.                              *)
NoDanglingTask == \A o \in Tasks : /\ heap[o] = "live"
                                   /\ sok[o] # None /\ fd[sok[o]] # None

(* An event is real: when readFd asks for a confirm the client has sent      *)
(* something or has hung up, and on_write has a frame to reply to; both      *)
(* speak to the connection of the event.  A client that behaves is not       *)
(* taken for one that is offline.                                            *)
EventsAreReal == ~crashed /\ rAt \in {"conf", "write"} =>
    /\ fd[Con] = rFd
    /\ rAt = "conf" => wire[Con] # <<>> \/ Ended(Con)
    /\ rAt = "write" => nread[Con] > served[Con]

(* Frames are dealt with one at a time: a connection is one frame ahead of   *)
(* its replies exactly while that frame is with the pool or on its way to    *)
(* on_write, never two.                                                      *)
OneFrameInFlight == \A c \in Clients : nread[c] - served[c] \in {0, 1}

(* Where an object is: with a worker or in the queue, with the reactor,      *)
(* which has an event for it or is in a handler, with the kernel, which      *)
(* watches its descriptor, still with the main thread, or with nobody, when  *)
(* its descriptor is disarmed for an event that the reactor ignores.         *)
Works(o) == \E w \in Workers : running[w] = o
Waits(o) == \E i \in 1 .. Len(pending) : pending[i] = o
HasEvent(o, ev) == \E f \in Fds : users[f] = o /\ <<f, ev>> \in batch
InHandler(o, places) == rAt \in places /\ \E f \in Fds : users[f] = o /\ rFd = f
Armed(o, ev) == \E f \in Fds : users[f] = o /\ reg[f] = ev

Place(o) == IF heap[o] = "none" THEN "nobody"
            ELSE IF heap[o] = "freed" THEN "freed"
            ELSE IF Works(o) THEN "worker"
            ELSE IF Waits(o) THEN "pool"
            ELSE IF HasEvent(o, "in") \/ InHandler(o, {"conf", "len", "body", "add"})
                 THEN "reading"
            ELSE IF HasEvent(o, "out") \/ InHandler(o, {"write", "reply"}) THEN "writing"
            ELSE IF InHandler(o, {"close", "null", "delete"}) THEN "closing"
            ELSE IF Armed(o, "in") THEN "in"
            ELSE IF Armed(o, "out") THEN "out"
            ELSE IF Armed(o, "off") THEN "lost"
            ELSE "main"

(* What EPOLLONESHOT makes of all this.                                      *)
H == INSTANCE Handover WITH Objects <- Clients, place <- [o \in Clients |-> Place(o)]
ImplementsHandover == H!Spec

(* The main thread is done with c, and so are the handlers of the reactor.   *)
Settled(c) == ~crashed /\ mAt = "idle" /\ rAt = "wait" /\ fd[c] # None

(* What joinEPollEvent promises: a new connection joins the monitored ones.  *)
(* So it has an object that holds it.                                        *)
JoinedHasUser == \A c \in Clients : Settled(c) =>
                    users[fd[c]] # None /\ sok[users[fd[c]]] = c

Adopted(c) == /\ fd[c] # None /\ reg[fd[c]] # "none"
              /\ users[fd[c]] # None /\ sok[users[fd[c]]] = c

(* The reactor is in recv_data for a client that has ended its stream in     *)
(* the middle of a frame, with EAGAIN in errno: it never gets out.           *)
Hung == rAt = "body" /\ eagain /\ Eof(Con)

(* Every frame that a monitored client sends to the end is dealt with, also  *)
(* frames sent without waiting for the reply, unless the connection is       *)
(* closed, its event was ignored, the process dies or the reactor hangs.     *)
FramesAreServed == \A c \in Clients : \A n \in 1 .. MaxReq[c] :
    (Adopted(c) /\ parts[c] >= 3 * n)
        ~> (served[c] >= n \/ fd[c] = None \/ c \in ignored \/ crashed \/ Hung)

(* The descriptor of a client that hangs up is released, with the same       *)
(* exceptions.                                                               *)
HangUpReleased == \A c \in Clients :
    (Adopted(c) /\ Ended(c)) ~> (fd[c] = None \/ c \in ignored \/ crashed \/ Hung)
=============================================================================
