-------------------------- MODULE SubReactor_proofs --------------------------
(* The safety of SubReactor for any number of clients, descriptors, workers  *)
(* and frames, in both builds: EPOLLONESHOT makes one thread at a time the   *)
(* owner of an object, even while accept() gives a descriptor that the       *)
(* reactor has just closed to the next connection.                           *)
EXTENDS SubReactor, TLAPS

LEMMA Ids == None \notin Clients /\ None \notin Fds
  BY ParametersAssumption
-----------------------------------------------------------------------------
Held(f) == \E c \in Clients : fd[c] = f
InBatch(f) == \E e \in batch : e[1] = f

(* The reactor is in a handler for f, or closes the object of f.             *)
Handles(f) == rFd = f /\ rAt \in {"conf", "len", "body", "add", "write", "reply", "close"}
Closes(f) == rFd = f /\ rAt \in {"null", "delete", "erase"}

(* Types, as far as the argument needs them.                                 *)
Types == /\ peer \in [Clients -> Peers]
         /\ wire \in [Clients -> Seq(Wire)]
         /\ fd \in [Clients -> Fds \cup {None}]
         /\ reg \in [Fds -> {"none", "in", "out", "off"}]
         /\ users \in [Fds -> Clients \cup {None}]
         /\ heap \in [Clients -> {"none", "live", "freed"}]
         /\ sok \in [Clients -> Clients \cup {None}]
         /\ rFd \in Fds \cup {None}
         /\ batch \subseteq Fds \X {"in", "out", "hup"}
         /\ mC \in Clients \cup {None}
         /\ pending \in Seq(Clients)
         /\ running \in [Workers -> Clients \cup {None}]
         /\ wAt \in [Workers -> {"idle", "task", "send", "readable", "writable"}]
         /\ \A w \in Workers : running[w] = None <=> wAt[w] = "idle"
         /\ nread \in [Clients -> Int]
         /\ served \in [Clients -> Int]
         /\ crashed \in BOOLEAN

(* Two connections have two descriptors, and only open ones are registered.  *)
Descriptors == /\ \A c, d \in Clients : fd[c] = fd[d] /\ fd[c] # None => c = d
               /\ \A f \in Fds : reg[f] # "none" => Held(f)
               /\ \A c \in Clients : peer[c] = "new" => fd[c] = None

(* The connection that joinEPollEvent works on is not monitored yet.         *)
Joins == /\ mC = None <=> mAt = "idle"
         /\ mC # None => peer[mC] # "new" /\ (fd[mC] # None => reg[fd[mC]] = "none")
         /\ mAt \in {"emplace", "init"} => fd[mC] # None
         /\ \A o \in Clients : sok[o] # None =>
                peer[sok[o]] # "new" /\ (sok[o] = mC => mAt = "addfd")

(* The object under a key of users is the one of the connection that has     *)
(* this descriptor, unless the reactor is just getting rid of it: then a     *)
(* new connection with the same descriptor may have been put into it.        *)
Objects ==
    /\ \A f, g \in Fds : users[f] = users[g] /\ users[f] # None => f = g
    /\ \A f \in Fds : users[f] # None =>
          /\ peer[users[f]] # "new"
          /\ users[f] = mC => mAt \in {"init", "addfd"}
          /\ ~Closes(f) => /\ fd[users[f]] = f
                           /\ heap[users[f]] = "live"
                           /\ \/ sok[users[f]] = users[f]
                              \/ users[f] = mC /\ mAt = "init"
          /\ Closes(f) /\ sok[users[f]] # None => fd[sok[users[f]]] \in {f, None}

(* EPOLLONESHOT: whoever has an event is not armed.                          *)
Batch == /\ \A e \in batch : reg[e[1]] = "off"
         /\ \A d, e \in batch : d[1] = e[1] => d = e

(* A handler has an object, and no second event for it is left.              *)
Handlers == /\ rAt \in {"conf", "len", "body", "add", "write", "reply", "close",
                        "null", "delete", "erase"} => rFd \in Fds
            /\ \A f \in Fds : (Handles(f) \/ Closes(f)) /\ ~crashed =>
                  /\ users[f] # None
                  /\ ~InBatch(f)
                  /\ Handles(f) => reg[f] = "off"

(* A task is queued once or with one worker, and the reactor leaves it.      *)
Queued == /\ \A i, j \in 1 .. Len(pending) : pending[i] = pending[j] => i = j
          /\ \A v, w \in Workers : v # w /\ running[v] # None => running[v] # running[w]
          /\ \A w \in Workers : \A i \in 1 .. Len(pending) : pending[i] # running[w]

Owned == \A o \in Tasks : /\ fd[o] # None
                          /\ users[fd[o]] = o
                          /\ reg[fd[o]] = "off"
                          /\ ~InBatch(fd[o])
                          /\ ~Handles(fd[o]) /\ ~Closes(fd[o])

(* An object without a frame in flight, and one with.                        *)
Rests(f) == \/ reg[f] \in {"none", "in"} \/ <<f, "in">> \in batch
            \/ rFd = f /\ rAt \in {"conf", "len", "body"}
Flies(f) == \/ reg[f] = "out" \/ <<f, "out">> \in batch
            \/ rFd = f /\ rAt \in {"add", "write", "reply"}
            \/ users[f] \in Tasks

Balance == /\ OneFrameInFlight
           /\ \A c \in Clients : peer[c] = "new" \/ c = mC => nread[c] = served[c]
           /\ \A f \in Fds : users[f] # None /\ ~Closes(f) =>
                 /\ Rests(f) => nread[users[f]] = served[users[f]]
                 /\ Flies(f) => nread[users[f]] = served[users[f]] + 1

(* An event for reading has a cause.                                         *)
Heard(o) == wire[o] # <<>> \/ Ended(o)

Real == \A f \in Fds :
    /\ users[f] # None /\ ~Closes(f)
    /\ <<f, "in">> \in batch \/ (rFd = f /\ rAt = "conf")
    => Heard(users[f])

IInv == /\ Types /\ Descriptors /\ Joins /\ Objects /\ Batch /\ Handlers
        /\ Queued /\ Owned /\ Balance /\ Real

-----------------------------------------------------------------------------
(* What is a task.                                                           *)
LEMMA TaskDef == \A o : o \in Tasks <=> \/ \E i \in 1 .. Len(pending) : pending[i] = o
                                        \/ \E w \in Workers : running[w] = o /\ o # None
  BY DEF Tasks

LEMMA TaskFrame == UNCHANGED <<pending, running>> => Tasks' = Tasks
  BY DEF Tasks

(* The object of a handler is the one of the event, and nobody else has it.  *)
LEMMA HandlerFacts ==
    ASSUME IInv, ~crashed, Handles(rFd)
    PROVE  /\ rFd \in Fds /\ Obj \in Clients /\ Con = Obj /\ fd[Obj] = rFd
           /\ Obj \notin Tasks /\ Obj # mC
           /\ reg[rFd] = "off" /\ ~InBatch(rFd)
           /\ \A f \in Fds : f # rFd => users[f] # Obj
<1> USE Ids DEF IInv
<1>1. rFd \in Fds /\ users[rFd] # None /\ reg[rFd] = "off" /\ ~InBatch(rFd)
  BY DEF Handlers, Handles
<1>2. Obj \in Clients /\ ~Closes(rFd)
  BY <1>1 DEF Types, Obj, Handles, Closes
<1>3. fd[Obj] = rFd /\ (sok[Obj] = Obj \/ Obj = mC)
  BY <1>1, <1>2 DEF Objects, Obj
<1>4. Obj # mC
  BY <1>1, <1>2, <1>3 DEF Joins
<1>5. Obj \notin Tasks
  BY <1>3 DEF Owned
<1>6. \A f \in Fds : f # rFd => users[f] # Obj
  BY <1>1 DEF Objects, Obj
<1> QED
  BY <1>1, <1>2, <1>3, <1>4, <1>5, <1>6 DEF Con

(* The object of a task is alive and has its connection.                     *)
LEMMA TaskFacts ==
    ASSUME IInv, NEW o \in Tasks
    PROVE  /\ o \in Clients /\ fd[o] \in Fds /\ sok[o] = o /\ heap[o] = "live"
           /\ o # mC /\ users[fd[o]] = o /\ reg[fd[o]] = "off"
<1> USE Ids DEF IInv
<1>1. o \in Clients
  <2>1. \A i \in 1 .. Len(pending) : pending[i] \in Clients
    BY DEF Types
  <2>2. \A w \in Workers : running[w] # None => running[w] \in Clients
    BY DEF Types
  <2> QED
    BY <2>1, <2>2, TaskDef
<1>2. /\ fd[o] \in Fds /\ users[fd[o]] = o /\ reg[fd[o]] = "off"
      /\ ~Closes(fd[o])
  BY <1>1 DEF Owned, Types
<1>3. o # mC
  BY <1>1, <1>2 DEF Joins
<1>4. sok[o] = o /\ heap[o] = "live"
  BY <1>1, <1>2, <1>3 DEF Objects
<1> QED
  BY <1>1, <1>2, <1>3, <1>4
-----------------------------------------------------------------------------
LEMMA InitIInv == Init => IInv
<1> SUFFICES ASSUME Init PROVE IInv
  OBVIOUS
<1> USE Ids
<1>1. Types
  <2>1. /\ wire \in [Clients -> Seq(Wire)]
        /\ peer \in [Clients -> Peers]
        /\ heap \in [Clients -> {"none", "live", "freed"}]
    BY DEF Init, Peers
  <2>2. /\ fd \in [Clients -> Fds \cup {None}] /\ sok \in [Clients -> Clients \cup {None}]
        /\ nread \in [Clients -> Int] /\ served \in [Clients -> Int]
    BY DEF Init
  <2>3. /\ users \in [Fds -> Clients \cup {None}]
        /\ reg \in [Fds -> {"none", "in", "out", "off"}]
    BY DEF Init
  <2>4. /\ running \in [Workers -> Clients \cup {None}]
        /\ wAt \in [Workers -> {"idle", "task", "send", "readable", "writable"}]
        /\ \A w \in Workers : running[w] = None <=> wAt[w] = "idle"
    BY DEF Init
  <2>5. /\ pending \in Seq(Clients) /\ batch \subseteq Fds \X {"in", "out", "hup"}
        /\ rFd = None /\ mC = None /\ crashed = FALSE
    BY DEF Init
  <2> QED
    BY <2>1, <2>2, <2>3, <2>4, <2>5 DEF Types
<1>2. \A o : o \notin Tasks
  BY TaskDef DEF Init
<1>3. Descriptors /\ Joins /\ Objects /\ Batch /\ Handlers /\ Queued /\ Owned
  BY <1>2 DEF Init, Descriptors, Joins, Objects, Batch, Handlers, Handles, Closes,
              Queued, Owned, Held
<1>4. Balance /\ Real
  BY <1>2 DEF Init, Balance, OneFrameInFlight, Real
<1> QED
  BY <1>1, <1>3, <1>4 DEF IInv
-----------------------------------------------------------------------------
(* The clients: what has been heard stays heard.                             *)
LEMMA ClientIInv ==
    ASSUME IInv, NEW c \in Clients,
           ClientSends(c) \/ ClientHangsUp(c) \/ ClientReads(c)
    PROVE  IInv'
<1> USE Ids DEF IInv
<1>1. /\ UNCHANGED <<fd, reg, objVars, reactorVars, mainVars, poolVars, history, crashed>>
      /\ Tasks' = Tasks
  BY TaskFrame DEF ClientSends, ClientHangsUp, ClientReads, kernelVars, poolVars
<1>2. /\ peer' \in [Clients -> Peers]
      /\ \A o \in Clients : peer[o] = "new" <=> peer'[o] = "new"
      /\ \A o \in Clients : Ended(o) => Ended(o)'
  <2>1. /\ peer \in [Clients -> Peers]
        /\ \/ peer' = peer
           \/ peer[c] # "new" /\ \E p \in {"half", "closed"} : peer' = [peer EXCEPT ![c] = p]
    BY DEF ClientSends, ClientHangsUp, ClientReads, clientVars, Types
  <2> QED
    BY <2>1 DEF Peers, Ended
<1>3. /\ wire' \in [Clients -> Seq(Wire)]
      /\ \A o \in Clients : wire[o] # <<>> => wire'[o] # <<>>
  <2>1. CASE ClientHangsUp(c) \/ ClientReads(c)
    BY <2>1 DEF ClientHangsUp, ClientReads, clientVars, Types
  <2>2. CASE ClientSends(c)
    <3>1. PICK p \in Wire :
             wire' = [wire EXCEPT ![c] = Append(wire[c], p)]
      BY <2>2 DEF ClientSends, Wire
    <3>2. wire[c] \in Seq(Wire)
      BY DEF Types
    <3>3. /\ Append(wire[c], p) \in Seq(Wire)
          /\ Append(wire[c], p) # <<>>
      BY <3>2
    <3> QED
      BY <3>1, <3>3 DEF Types
  <2> QED
    BY <2>1, <2>2
<1>4. Types'
  BY <1>1, <1>2, <1>3 DEF objVars, reactorVars, mainVars, poolVars, history,
                          Types
<1>5. Descriptors' /\ Joins' /\ Objects'
  <2>1. Descriptors'
    BY <1>1, <1>2 DEF Descriptors, Held
  <2>2. Joins'
    BY <1>1, <1>2 DEF objVars, mainVars, Types, Joins
  <2>3. Objects'
    BY <1>1, <1>2 DEF objVars, mainVars, reactorVars, Types, Objects, Closes
  <2> QED
    BY <2>1, <2>2, <2>3
<1>6. Batch' /\ Handlers' /\ Queued' /\ Owned'
  BY <1>1 DEF objVars, reactorVars, poolVars, Batch, Handlers, Queued,
              Owned, Handles, Closes, InBatch
<1>7. Balance'
  BY <1>1, <1>2 DEF objVars, reactorVars, mainVars, history, Balance,
                    OneFrameInFlight, Rests, Flies, Closes
<1>8. Real'
  BY <1>1, <1>2, <1>3 DEF objVars, reactorVars, Types, Real, Heard, Ended, Closes
<1> QED
  BY <1>4, <1>5, <1>6, <1>7, <1>8
-----------------------------------------------------------------------------
(* The main thread.  A new connection has a free descriptor, which may still *)
(* be the key of an object that the reactor is closing.                      *)
LEMMA AcceptIInv ==
    ASSUME IInv, NEW c \in Clients, NEW f \in Fds, Accept(c, f) PROVE IInv'
<1> USE Ids DEF IInv
<1>1. /\ peer[c] = "new" /\ fd[c] = None /\ mC = None /\ mAt = "idle" /\ ~crashed
      /\ peer' = [peer EXCEPT ![c] = "open"] /\ fd' = [fd EXCEPT ![c] = f]
      /\ mAt' = "emplace" /\ mC' = c
      /\ \A d \in Clients : fd[d] # f
      /\ reg[f] = "none"
  BY DEF Accept, IsOpen, Held, Descriptors, Joins, Types
<1>2. /\ UNCHANGED <<wire, reg, objVars, reactorVars, poolVars, history, crashed>>
      /\ Tasks' = Tasks
  BY TaskFrame DEF Accept, poolVars
<1>3. Types'
  BY <1>1, <1>2 DEF objVars, reactorVars, poolVars, history, Types, Peers
<1>4. /\ \A d \in Clients : d # c => fd'[d] = fd[d] /\ peer'[d] = peer[d]
      /\ fd'[c] = f /\ peer'[c] = "open"
  BY <1>1 DEF Types
<1>5. Descriptors'
  BY <1>1, <1>2, <1>4 DEF Descriptors, Held
<1>6. Joins'
  BY <1>1, <1>2, <1>4 DEF objVars, Types, Joins
<1>7. Objects'
  <2>1. \A g \in Fds : users[g] # c /\ (users[g] # None => sok[users[g]] # c)
    BY <1>1 DEF Objects, Joins, Types
  <2> QED
    BY <1>1, <1>2, <1>4, <2>1 DEF objVars, reactorVars, Types, Objects, Closes
<1>8. Batch' /\ Handlers' /\ Queued'
  BY <1>2 DEF objVars, reactorVars, poolVars, Batch, Handlers, Queued, Handles, Closes,
              InBatch
<1>9. Owned'
  <2>1. \A o \in Tasks : o \in Clients /\ o # c
    BY <1>1, TaskFacts
  <2> QED
    BY <1>2, <1>4, <2>1 DEF objVars, reactorVars, Owned, Handles, Closes, InBatch
<1>10. Balance'
  BY <1>1, <1>2, <1>4 DEF objVars, reactorVars, history, Balance, OneFrameInFlight,
                          Rests, Flies, Closes
<1>11. Real'
  BY <1>1, <1>2, <1>4 DEF objVars, reactorVars, Types, Objects, Real, Heard, Ended, Closes
<1> QED
  BY <1>3, <1>5, <1>6, <1>7, <1>8, <1>9, <1>10, <1>11

(* The new object is entered under a key that is free.                       *)
LEMMA JoinEmplaceIInv == ASSUME IInv, JoinEmplace PROVE IInv'
<1> USE Ids DEF IInv
<1> DEFINE f == fd[mC]
<1>1. /\ mAt = "emplace" /\ mAt' = "init" /\ ~crashed
      /\ heap' = [heap EXCEPT ![mC] = "live"]
      /\ users' = IF users[f] = None THEN [users EXCEPT ![f] = mC] ELSE users
      /\ UNCHANGED <<clientVars, kernelVars, sok, reactorVars, mC, poolVars, history,
                     crashed>>
      /\ Tasks' = Tasks
  BY TaskFrame DEF JoinEmplace, poolVars
<1>2. mC \in Clients /\ f \in Fds /\ reg[f] = "none" /\ peer[mC] # "new"
  BY <1>1 DEF Joins, Types
<1>3. \A g \in Fds : users[g] # mC
  BY <1>1, <1>2 DEF Objects
<1>4. Types'
  BY <1>1, <1>2 DEF clientVars, kernelVars, reactorVars, poolVars, history, Types
<1>5. Descriptors' /\ Joins' /\ Batch' /\ Queued'
  BY <1>1 DEF clientVars, kernelVars, reactorVars, poolVars, Descriptors, Held, Joins,
              Batch, Queued
<1>6. heap'[mC] = "live" /\ \A o \in Clients : o # mC => heap'[o] = heap[o]
  BY <1>1, <1>2 DEF Types
<1>7. CASE users[f] = None
  <2>1. users'[f] = mC /\ \A g \in Fds : g # f => users'[g] = users[g]
    BY <1>1, <1>2, <1>7 DEF Types
  <2>2. ~Handles(f) /\ ~Closes(f)
    BY <1>1, <1>2, <1>7 DEF Handlers
  <2>3. ~InBatch(f)
    BY <1>2 DEF Batch, InBatch
  <2>4. mC \notin Tasks
    BY TaskFacts
  <2>5. Objects'
    <3>1. \A g, k \in Fds : users'[g] = users'[k] /\ users'[g] # None => g = k
      BY <1>3, <2>1 DEF Objects
    <3>2. ASSUME NEW g \in Fds, users[g] # None, g # f
          PROVE  users[g] \in Clients /\ users[g] # mC /\ users'[g] = users[g]
      BY <1>3, <2>1, <3>2 DEF Types
    <3>3. ASSUME NEW g \in Fds, users[g] # None, g # f, ~Closes(g)
          PROVE  fd[users[g]] = g /\ heap'[users[g]] = "live" /\ sok[users[g]] = users[g]
      BY <1>6, <3>2, <3>3 DEF Objects
    <3> QED
      BY <1>1, <1>2, <1>6, <2>1, <2>2, <3>1, <3>2, <3>3
      DEF clientVars, kernelVars, reactorVars, Objects, Closes
  <2>6. Handlers'
    BY <1>1, <1>2, <2>1 DEF kernelVars, reactorVars, Handlers, Handles, Closes, InBatch
  <2>7. Owned'
    BY <1>1, <1>2, <1>7, <2>1 DEF kernelVars, reactorVars, Owned, Handles, Closes, InBatch
  <2>8. Balance'
    <3>1. nread[mC] = served[mC]
      BY <1>2 DEF Balance
    <3>2. ~Flies(f)'
      BY <1>1, <1>2, <2>1, <2>2, <2>3, <2>4
      DEF kernelVars, reactorVars, Flies, Handles, InBatch
    <3> QED
      BY <1>1, <1>2, <2>1, <3>1, <3>2
      DEF clientVars, kernelVars, reactorVars, history, Balance, OneFrameInFlight,
          Rests, Flies, Closes
  <2>9. Real'
    BY <1>1, <2>1, <2>2, <2>3 DEF clientVars, reactorVars, Real, Heard, Ended, Handles, Closes,
                                  InBatch
  <2> QED
    BY <1>4, <1>5, <2>5, <2>6, <2>7, <2>8, <2>9
<1>8. CASE users[f] # None
  <2>1. UNCHANGED users
    BY <1>1, <1>8
  <2>2. Objects'
    BY <1>1, <1>3, <1>6, <2>1 DEF clientVars, kernelVars, reactorVars, Types, Objects,
                                  Closes
  <2>3. Handlers' /\ Owned'
    BY <1>1, <2>1 DEF kernelVars, reactorVars, Handlers, Owned, Handles, Closes, InBatch
  <2>4. Balance' /\ Real'
    BY <1>1, <2>1 DEF clientVars, kernelVars, reactorVars, history, Balance,
                      OneFrameInFlight, Rests, Flies, Closes, Real, Heard, Ended
  <2> QED
    BY <1>4, <1>5, <2>2, <2>3, <2>4
<1> QED
  BY <1>7, <1>8

(* init() gives the connection to whatever object has the key: the one just  *)
(* entered, or one that the reactor is closing.                              *)
LEMMA JoinInitIInv == ASSUME IInv, JoinInit PROVE IInv'
<1> USE Ids DEF IInv
<1> DEFINE f == fd[mC]
           o == users[f]
<1>1. /\ mAt = "init" /\ mAt' = "addfd" /\ ~crashed
      /\ \/ o # None /\ sok' = [sok EXCEPT ![o] = mC] /\ crashed' = crashed
         \/ /\ o = None \/ (o # None /\ heap[o] = "freed")
            /\ crashed' = TRUE /\ sok' = sok
      /\ UNCHANGED <<clientVars, kernelVars, users, heap, reactorVars, mC, poolVars,
                     history>>
      /\ Tasks' = Tasks
  BY TaskFrame DEF JoinInit, poolVars
<1>2. mC \in Clients /\ f \in Fds /\ reg[f] = "none" /\ peer[mC] # "new"
  BY <1>1 DEF Joins, Types
<1>3. ASSUME NEW g \in Fds, users[g] = mC, ~Closes(g)
      PROVE  g = f /\ o = mC /\ heap[o] = "live"
  BY <1>2, <1>3 DEF Objects
<1>4. ASSUME o # None, ~Closes(f)
      PROVE  o = mC
  <2>1. o \in Clients /\ fd[o] = f
    BY <1>2, <1>4 DEF Objects, Types
  <2> QED
    BY <1>2, <2>1 DEF Descriptors
<1>5. Types'
  <2>1. sok' \in [Clients -> Clients \cup {None}]
    <3>1. sok \in [Clients -> Clients \cup {None}]
      BY DEF Types
    <3> QED
      BY <1>1, <1>2, <3>1
  <2>2. crashed' \in BOOLEAN
    BY <1>1 DEF Types
  <2> QED
    BY <1>1, <2>1, <2>2 DEF clientVars, kernelVars, reactorVars, poolVars, history, Types
<1>6. Descriptors' /\ Batch' /\ Handlers' /\ Queued' /\ Owned'
  BY <1>1 DEF clientVars, kernelVars, reactorVars, poolVars, Descriptors, Held, Batch,
              Handlers, Queued, Owned, Handles, Closes, InBatch
<1>7. Balance' /\ Real'
  BY <1>1 DEF clientVars, kernelVars, reactorVars, history, Balance,
              OneFrameInFlight, Rests, Flies, Closes, Real, Heard, Ended
<1>8. CASE sok' = sok /\ (o = None \/ heap[o] = "freed")
  <2>1. Joins'
    BY <1>1, <1>2, <1>8 DEF clientVars, kernelVars, Joins
  <2>2. \A g \in Fds : users[g] # None /\ ~Closes(g) => sok[users[g]] = users[g]
    BY <1>2, <1>3, <1>8 DEF Objects
  <2>3. Objects'
    BY <1>1, <1>8, <2>2 DEF clientVars, kernelVars, reactorVars, Objects, Closes
  <2> QED
    BY <1>5, <1>6, <1>7, <2>1, <2>3
<1>9. CASE o # None /\ sok' = [sok EXCEPT ![o] = mC]
  <2>1. /\ o \in Clients /\ sok'[o] = mC
        /\ \A c \in Clients : c # o => sok'[c] = sok[c]
    BY <1>2, <1>9 DEF Types
  <2>2. Joins'
    BY <1>1, <1>2, <2>1 DEF clientVars, kernelVars, Joins
  <2>3. ASSUME NEW g \in Fds, users[g] # None, g # f
        PROVE  users[g] \in Clients /\ sok'[users[g]] = sok[users[g]]
    BY <1>2, <1>9, <2>1, <2>3 DEF Objects, Types
  <2>4. \A g \in Fds : users[g] # None /\ ~Closes(g) => sok'[users[g]] = users[g]
    BY <1>2, <1>3, <1>4, <2>1, <2>3 DEF Objects
  <2>5. \A g \in Fds : users[g] # None /\ Closes(g) /\ sok'[users[g]] # None
                          => fd[sok'[users[g]]] \in {g, None}
    BY <1>2, <2>1, <2>3 DEF Objects
  <2>6. Objects'
    BY <1>1, <2>4, <2>5 DEF clientVars, kernelVars, reactorVars, Objects, Closes
  <2> QED
    BY <1>5, <1>6, <1>7, <2>2, <2>6
<1> QED
  BY <1>1, <1>8, <1>9

(* addfd() arms the connection for the first time.                           *)
LEMMA JoinAddIInv == ASSUME IInv, JoinAdd PROVE IInv'
<1> USE Ids DEF IInv
<1> DEFINE f == fd[mC]
<1>1. /\ mAt = "addfd" /\ mAt' = "idle" /\ mC' = None /\ ~crashed
      /\ reg' = reg \/ (f # None /\ reg' = [reg EXCEPT ![f] = "in"])
      /\ crashed' \in BOOLEAN
      /\ UNCHANGED <<clientVars, fd, objVars, reactorVars, poolVars, history>>
      /\ Tasks' = Tasks
  BY TaskFrame DEF JoinAdd, poolVars, Types
<1>2. mC \in Clients /\ (f # None => f \in Fds /\ reg[f] = "none")
  BY <1>1 DEF Joins, Types
<1>3. \A g \in Fds : reg'[g] = reg[g] \/ (g = f /\ reg[g] = "none" /\ reg'[g] = "in")
  BY <1>1, <1>2 DEF Types
<1>4. Types'
  BY <1>1, <1>2 DEF clientVars, objVars, reactorVars, poolVars, history, Types
<1>5. Descriptors'
  BY <1>1, <1>2, <1>3 DEF clientVars, Descriptors, Held
<1>6. Joins'
  BY <1>1 DEF clientVars, objVars, Joins
<1>7. Objects'
  BY <1>1 DEF clientVars, objVars, reactorVars, Objects, Closes
<1>8. Batch' /\ Queued'
  BY <1>1, <1>3 DEF reactorVars, poolVars, Types, Batch, Queued
<1>9. Handlers'
  BY <1>1, <1>3 DEF objVars, reactorVars, Handlers, Handles, Closes, InBatch
<1>10. Owned'
  <2>1. \A o \in Tasks : reg'[fd[o]] = "off"
    BY <1>3, TaskFacts
  <2> QED
    BY <1>1, <2>1 DEF objVars, reactorVars, Owned, Handles, Closes, InBatch
<1>11. Balance' /\ Real'
  BY <1>1, <1>3 DEF clientVars, objVars, reactorVars, history, Balance,
                    OneFrameInFlight, Rests, Flies, Closes, Real, Heard, Ended
<1> QED
  BY <1>4, <1>5, <1>6, <1>7, <1>8, <1>9, <1>10, <1>11
-----------------------------------------------------------------------------
(* The reactor thread.  epoll_wait: who is reported is armed, and has been   *)
(* heard if it is armed for reading.                                         *)
LEMMA EpollWaitIInv == ASSUME IInv, EPollstart \/ EpollWait PROVE IInv'
<1> USE Ids DEF IInv
<1>1. CASE EPollstart
  <2>1. /\ rAt = "start" /\ rAt' = "wait"
        /\ UNCHANGED <<clientVars, fd, reg, objVars, rFd, batch, mainVars, poolVars,
                       history, crashed>>
        /\ Tasks' = Tasks
    BY <1>1, TaskFrame DEF EPollstart, poolVars
  <2>2. Types' /\ Descriptors' /\ Joins'
    BY <2>1 DEF clientVars, objVars, mainVars, poolVars, history, Types, Descriptors,
                Held, Joins
  <2>3. Objects' /\ Batch' /\ Handlers' /\ Queued' /\ Owned'
    BY <2>1 DEF clientVars, objVars, mainVars, poolVars, Objects, Batch, Handlers,
                Queued, Owned, Handles, Closes, InBatch
  <2>4. Balance' /\ Real'
    BY <2>1 DEF clientVars, objVars, mainVars, history, Balance, OneFrameInFlight,
                Rests, Flies, Closes, Real, Heard, Ended
  <2> QED
    BY <2>2, <2>3, <2>4
<1>2. CASE EpollWait
  <2> DEFINE S == {f \in Fds : Ready(f)}
  <2>1. /\ rAt = "wait" /\ rAt' = "dispatch"
        /\ batch' = {<<f, Event(f)>> : f \in S}
        /\ reg' = [f \in Fds |-> IF f \in S THEN "off" ELSE reg[f]]
        /\ UNCHANGED <<clientVars, fd, objVars, rFd, mainVars, poolVars, history, crashed>>
        /\ Tasks' = Tasks
    BY <1>2, TaskFrame DEF EpollWait, Disarm, poolVars
  <2>2. \A f \in S : /\ Ready(f) /\ f \in Fds /\ reg[f] \in {"in", "out"}
                     /\ Event(f) \in {"in", "out", "hup"}
                     /\ Event(f) \in {"in", "out"} => Event(f) = reg[f]
    BY DEF Ready, Event
  <2> HIDE DEF S
  <2>3. \A f \in Fds : reg'[f] = IF f \in S THEN "off" ELSE reg[f]
    BY <2>1
  <2>4. Types'
    <3>1. batch' \subseteq Fds \X {"in", "out", "hup"}
      BY <2>1, <2>2
    <3>2. reg' \in [Fds -> {"none", "in", "out", "off"}]
      BY <2>1 DEF Types
    <3> QED
      BY <2>1, <3>1, <3>2 DEF clientVars, objVars, mainVars, poolVars, history, Types
  <2>5. Descriptors' /\ Joins' /\ Objects' /\ Queued'
    <3>1. Descriptors'
      BY <2>1, <2>2, <2>3 DEF clientVars, Descriptors, Held
    <3>2. Joins'
      <4>1. mC # None /\ fd[mC] # None => reg'[fd[mC]] = "none"
        <5> SUFFICES ASSUME mC # None, fd[mC] # None PROVE reg'[fd[mC]] = "none"
          OBVIOUS
        <5>1. fd[mC] \in Fds /\ reg[fd[mC]] = "none"
          BY DEF Joins, Types
        <5> QED
          BY <2>2, <2>3, <5>1
      <4> QED
        BY <2>1, <4>1 DEF clientVars, objVars, mainVars, Joins
    <3>3. Objects'
      BY <2>1 DEF clientVars, objVars, mainVars, Objects, Closes
    <3>4. Queued'
      BY <2>1 DEF poolVars, Queued
    <3> QED
      BY <3>1, <3>2, <3>3, <3>4
  <2>6. \A e \in batch' : e[1] \in S /\ e[2] = Event(e[1]) /\ e = <<e[1], Event(e[1])>>
    BY <2>1
  <2>7. Batch' /\ Handlers'
    BY <2>1, <2>2, <2>3, <2>6 DEF Batch, Handlers, Handles, Closes
  <2>8. Owned'
    <3>1. \A o \in Tasks : fd[o] \in Fds /\ fd[o] \notin S
      BY <2>2, TaskFacts
    <3> QED
      BY <2>1, <2>3, <2>6, <3>1 DEF objVars, Owned, InBatch, Handles, Closes
  <2>9. Balance'
    <3>1. ASSUME NEW f \in Fds, Rests(f)'
          PROVE  Rests(f)
      BY <2>1, <2>2, <2>3, <2>6, <3>1 DEF Rests
    <3>2. ASSUME NEW f \in Fds, Flies(f)'
          PROVE  Flies(f)
      BY <2>1, <2>2, <2>3, <2>6, <3>2 DEF Flies, objVars
    <3> QED
      BY <2>1, <3>1, <3>2 DEF clientVars, objVars, mainVars, history, Balance,
                              OneFrameInFlight, Closes
  <2>10. Real'
    <3>1. ASSUME NEW f \in Fds, users[f] # None, <<f, "in">> \in batch'
          PROVE  Heard(users[f])
      <4>1. f \in S /\ reg[f] = "in" /\ Ready(f)
        BY <2>2, <2>6, <3>1
      <4>2. users[f] \in Clients /\ fd[users[f]] = f
        BY <2>1, <3>1 DEF Types, Objects, Closes
      <4>3. At(f) = users[f]
        BY <4>2 DEF At, Descriptors
      <4> QED
        BY <4>1, <4>3 DEF Ready, Heard, Ended
    <3> QED
      BY <2>1, <3>1 DEF clientVars, objVars, Real, Heard, Ended
  <2> QED
    BY <2>4, <2>5, <2>7, <2>8, <2>9, <2>10
<1> QED
  BY <1>1, <1>2

(* A handler is entered for an event that nobody else handles.               *)
LEMMA DispatchIInv == ASSUME IInv, Dispatch PROVE IInv'
<1> USE Ids DEF IInv
<1>1. PICK e \in batch :
         /\ e[2] # "hup"
         /\ batch' = batch \ {e}
         /\ rFd' = e[1]
         /\ crashed' = (users[e[1]] = None)
         /\ rAt' = IF e[2] = "in" THEN "conf" ELSE "write"
  BY DEF Dispatch, Others
<1>2. /\ rAt = "dispatch"
      /\ UNCHANGED <<clientVars, kernelVars, objVars, mainVars, poolVars, history>>
      /\ Tasks' = Tasks
  BY TaskFrame DEF Dispatch, poolVars
<1>3. /\ e[1] \in Fds /\ e[2] \in {"in", "out"} /\ e = <<e[1], e[2]>>
      /\ reg[e[1]] = "off"
      /\ \A d \in batch' : d[1] # e[1]
      /\ \A f \in Fds : ~Closes(f) /\ ~Closes(f)'
  BY <1>1, <1>2 DEF Types, Batch, Closes
<1>4. Types'
  BY <1>1, <1>2, <1>3 DEF clientVars, kernelVars, objVars, mainVars, poolVars, history,
                          Types
<1>5. Descriptors' /\ Joins' /\ Queued'
  BY <1>2 DEF clientVars, kernelVars, objVars, mainVars, poolVars, Descriptors, Held,
              Joins, Queued
<1>6. Objects'
  BY <1>2, <1>3 DEF clientVars, kernelVars, objVars, mainVars, Objects
<1>7. Batch'
  BY <1>1, <1>2 DEF kernelVars, Batch
<1>8. Handlers'
  BY <1>1, <1>2, <1>3 DEF kernelVars, objVars, Handlers, Handles, Closes, InBatch
<1>9. Owned'
  <2>1. \A o \in Tasks : fd[o] # e[1]
    BY <1>1 DEF Owned, InBatch
  <2> QED
    BY <1>1, <1>2, <2>1 DEF kernelVars, objVars, Owned, Handles, Closes, InBatch
<1>10. Balance'
  <2>1. ASSUME NEW f \in Fds PROVE (Rests(f)' => Rests(f)) /\ (Flies(f)' => Flies(f))
    BY <1>1, <1>2, <1>3 DEF kernelVars, objVars, Rests, Flies
  <2> QED
    BY <1>2, <1>3, <2>1 DEF clientVars, kernelVars, objVars, mainVars, history, Balance,
                            OneFrameInFlight
<1>11. Real'
  BY <1>1, <1>2, <1>3 DEF clientVars, objVars, Real, Heard, Ended
<1> QED
  BY <1>4, <1>5, <1>6, <1>7, <1>8, <1>9, <1>10, <1>11

(* An event is ignored: its descriptor stays disarmed.                       *)
LEMMA DispatchOtherIInv == ASSUME IInv, DispatchOther PROVE IInv'
<1> USE Ids DEF IInv
<1>1. /\ rAt = "dispatch" /\ batch' \subseteq batch
      /\ UNCHANGED <<clientVars, kernelVars, objVars, rAt, rFd, mainVars, poolVars, nread,
                     served, crashed>>
      /\ Tasks' = Tasks
  BY TaskFrame DEF DispatchOther, Others, poolVars
<1>2. Types' /\ Descriptors' /\ Joins'
  BY <1>1 DEF clientVars, kernelVars, objVars, mainVars, poolVars, Types, Descriptors,
              Held, Joins
<1>3. Objects' /\ Batch' /\ Handlers' /\ Queued' /\ Owned'
  BY <1>1 DEF clientVars, kernelVars, objVars, mainVars, poolVars, Objects, Batch,
              Handlers, Queued, Owned, Handles, Closes, InBatch
<1>4. Balance' /\ Real'
  BY <1>1 DEF clientVars, kernelVars, objVars, mainVars, Balance, OneFrameInFlight,
              Rests, Flies, Closes, Real, Heard, Ended
<1> QED
  BY <1>2, <1>3, <1>4

(* The last event is dealt with.                                             *)
LEMMA DispatchEndIInv == ASSUME IInv, DispatchEnd PROVE IInv'
<1> USE Ids DEF IInv
<1>1. /\ rAt = "dispatch" /\ rAt' = "wait" /\ rFd' = rFd
      /\ UNCHANGED <<clientVars, kernelVars, objVars, batch, mainVars, poolVars, history,
                     crashed>>
      /\ Tasks' = Tasks
  BY TaskFrame DEF DispatchEnd, poolVars
<1>2. Types' /\ Descriptors' /\ Joins'
  BY <1>1 DEF clientVars, kernelVars, objVars, mainVars, poolVars, history, Types,
              Descriptors, Held, Joins
<1>3. Objects' /\ Batch' /\ Handlers' /\ Queued' /\ Owned'
  BY <1>1 DEF clientVars, kernelVars, objVars, mainVars, poolVars, Objects, Batch,
              Handlers, Queued, Owned, Handles, Closes, InBatch
<1>4. Balance' /\ Real'
  BY <1>1 DEF clientVars, kernelVars, objVars, mainVars, history, Balance,
              OneFrameInFlight, Rests, Flies, Closes, Real, Heard, Ended
<1> QED
  BY <1>2, <1>3, <1>4

(* readFd: what it takes off the wire of its connection nobody else waits    *)
(* for.                                                                      *)
LEMMA RecvIInv == ASSUME IInv, RecvConfirm \/ RecvLen \/ RecvBody PROVE IInv'
<1> USE Ids DEF IInv
<1>1. /\ ~crashed /\ rAt \in {"conf", "len", "body"} /\ Handles(rFd)
      /\ rAt' \in {"close", "len", "body", "add"}
      /\ (rAt \in {"len", "body"} => rAt' # "conf")
      /\ UNCHANGED <<peer, kernelVars, objVars, rFd, batch, mainVars, poolVars, served,
                     crashed>>
      /\ Tasks' = Tasks
  BY TaskFrame DEF RecvConfirm, RecvLen, RecvBody, Handles, poolVars, history
<1>2. /\ rFd \in Fds /\ Obj \in Clients /\ Con = Obj /\ fd[Obj] = rFd
      /\ Obj \notin Tasks /\ Obj # mC
      /\ reg[rFd] = "off" /\ ~InBatch(rFd)
      /\ \A f \in Fds : f # rFd => users[f] # Obj
  BY <1>1, HandlerFacts
<1>3. /\ wire' \in [Clients -> Seq(Wire)]
      /\ \A c \in Clients : c # Obj => wire'[c] = wire[c]
  <2>1. CASE wire' = wire
    BY <2>1 DEF Types
  <2>2. CASE wire[Obj] # <<>> /\ wire' = [wire EXCEPT ![Obj] = Tail(wire[Obj])]
    <3>1. Tail(wire[Obj]) \in Seq(Wire)
      BY <1>2, <2>2 DEF Types
    <3> QED
      BY <1>2, <2>2, <3>1 DEF Types
  <2> QED
    BY <1>2, <2>1, <2>2 DEF RecvConfirm, RecvLen, RecvBody
<1>4. \/ nread' = nread /\ rAt' \in {"close", "len", "body"}
      \/ rAt = "body" /\ rAt' = "add" /\ nread' = [nread EXCEPT ![Obj] = nread[Obj] + 1]
  BY <1>2 DEF RecvConfirm, RecvLen, RecvBody, history
<1>5. nread' \in [Clients -> Int]
  <2>1. nread[Obj] + 1 \in Int
    BY <1>2 DEF Types
  <2> QED
    BY <1>4, <2>1 DEF Types
<1>6. Types'
  BY <1>1, <1>3, <1>5 DEF kernelVars, objVars, mainVars, poolVars, Types
<1>7. Descriptors' /\ Joins' /\ Batch' /\ Queued'
  BY <1>1 DEF kernelVars, objVars, mainVars, poolVars, Descriptors, Held, Joins, Batch,
              Queued
<1>8. Objects'
  BY <1>1 DEF kernelVars, objVars, mainVars, Objects, Closes
<1>9. Handlers' /\ Owned'
  BY <1>1, <1>2 DEF kernelVars, objVars, Handlers, Owned, Handles, Closes, InBatch
<1>10. Real'
  <2>1. ASSUME NEW f \in Fds, users[f] # None, <<f, "in">> \in batch
        PROVE  users[f] \in Clients /\ users[f] # Obj
    BY <1>2, <2>1 DEF InBatch, Types
  <2> QED
    BY <1>1, <1>3, <2>1 DEF kernelVars, objVars, Real, Heard, Ended, Closes
<1>11. Balance'
  <2>1. CASE nread' = nread /\ rAt' \in {"close", "len", "body"}
    BY <1>1, <2>1 DEF kernelVars, objVars, mainVars, Balance, OneFrameInFlight, Rests,
                      Flies, Closes
  <2>2. CASE rAt = "body" /\ rAt' = "add" /\ nread' = [nread EXCEPT ![Obj] = nread[Obj] + 1]
    <3>1. /\ nread'[Obj] = nread[Obj] + 1
          /\ \A c \in Clients : c # Obj => nread'[c] = nread[c]
          /\ nread[Obj] \in Int /\ served \in [Clients -> Int]
      BY <1>2, <2>2 DEF Types
    <3>2. nread[Obj] = served[Obj] /\ users[rFd] = Obj /\ peer[Obj] # "new"
      BY <1>2, <2>2 DEF Balance, Rests, Closes, Obj, Objects
    <3>3. OneFrameInFlight'
      BY <1>1, <3>1, <3>2 DEF Balance, OneFrameInFlight
    <3>4. \A c \in Clients : peer[c] = "new" \/ c = mC => nread'[c] = served[c]
      BY <1>2, <3>1, <3>2 DEF Balance
    <3>5. ASSUME NEW f \in Fds, users[f] # None, f # rFd, ~Closes(f)'
          PROVE  /\ Rests(f)' => nread'[users[f]] = served[users[f]]
                 /\ Flies(f)' => nread'[users[f]] = served[users[f]] + 1
      <4>1. users[f] \in Clients /\ users[f] # Obj
        BY <1>2, <3>5 DEF Types
      <4> QED
        BY <1>1, <3>1, <3>5, <4>1 DEF kernelVars, objVars, Balance, Rests, Flies, Closes
    <3>6. ~Rests(rFd)'
      BY <1>1, <1>2, <2>2 DEF kernelVars, Rests, InBatch
    <3> QED
      BY <1>1, <3>1, <3>2, <3>3, <3>4, <3>5, <3>6 DEF objVars, mainVars, Balance, Obj
  <2> QED
    BY <1>4, <2>1, <2>2
<1> QED
  BY <1>6, <1>7, <1>8, <1>9, <1>10, <1>11

(* addTask gives the object away, and the handler is over with it.           *)
LEMMA AddTaskIInv == ASSUME IInv, AddTask PROVE IInv'
<1> USE Ids DEF IInv
<1>1. /\ ~crashed /\ rAt = "add" /\ rAt' = "dispatch" /\ Handles(rFd) /\ rFd' = None
      /\ pending' = Append(pending, Obj)
      /\ UNCHANGED <<clientVars, kernelVars, objVars, batch, mainVars, running, wAt,
                     history, crashed>>
  BY DEF AddTask, Handles
<1>2. /\ rFd \in Fds /\ Obj \in Clients /\ Con = Obj /\ fd[Obj] = rFd
      /\ Obj \notin Tasks /\ Obj # mC
      /\ reg[rFd] = "off" /\ ~InBatch(rFd)
      /\ \A f \in Fds : f # rFd => users[f] # Obj
  BY <1>1, HandlerFacts
<1>3. /\ pending' \in Seq(Clients) /\ Len(pending') = Len(pending) + 1
      /\ \A i \in 1 .. Len(pending') :
            pending'[i] = IF i <= Len(pending) THEN pending[i] ELSE Obj
      /\ Len(pending) \in Nat
  BY <1>1, <1>2 DEF Types
<1>4. /\ \A i \in 1 .. Len(pending) : pending[i] \in Tasks
      /\ \A w \in Workers : running[w] # None => running[w] \in Tasks
  BY TaskDef
<1>5. Tasks' = Tasks \cup {Obj}
  <2>1. ASSUME NEW o \in Tasks' PROVE o \in Tasks \cup {Obj}
    <3>1. CASE \E w \in Workers : running[w] = o /\ o # None
      BY <1>4, <3>1
    <3>2. CASE \E i \in 1 .. Len(pending') : pending'[i] = o
      BY <1>3, <1>4, <3>2
    <3> QED
      BY <1>1, <2>1, <3>1, <3>2 DEF Tasks
  <2>2. ASSUME NEW o \in Tasks PROVE o \in Tasks'
    <3>1. CASE \E w \in Workers : running[w] = o /\ o # None
      BY <1>1, <3>1 DEF Tasks
    <3>2. CASE \E i \in 1 .. Len(pending) : pending[i] = o
      BY <1>3, <3>2 DEF Tasks
    <3> QED
      BY <2>2, <3>1, <3>2, TaskDef
  <2>3. Obj \in Tasks'
    <3>1. Len(pending') \in 1 .. Len(pending') /\ pending'[Len(pending')] = Obj
      BY <1>3
    <3> QED
      BY <3>1 DEF Tasks
  <2> QED
    BY <2>1, <2>2, <2>3
<1>6. Types'
  BY <1>1, <1>3 DEF clientVars, kernelVars, objVars, mainVars, history, Types
<1>7. Descriptors' /\ Joins' /\ Batch'
  BY <1>1 DEF clientVars, kernelVars, objVars, mainVars, Descriptors, Held, Joins, Batch
<1>8. Objects' /\ Handlers' /\ Real'
  BY <1>1 DEF clientVars, kernelVars, objVars, mainVars, Objects, Handlers, Handles,
              Closes, InBatch, Real, Heard, Ended
<1>9. Queued'
  <2>1. \A i \in 1 .. Len(pending) : pending[i] # Obj
    BY <1>2, <1>4
  <2>2. \A w \in Workers : running[w] # Obj
    BY <1>2, <1>4
  <2>3. \A i, j \in 1 .. Len(pending') : pending'[i] = pending'[j] => i = j
    BY <1>3, <2>1 DEF Queued
  <2>4. \A w \in Workers : \A i \in 1 .. Len(pending') : pending'[i] # running[w]
    BY <1>3, <2>2 DEF Queued
  <2> QED
    BY <1>1, <2>3, <2>4 DEF Queued
<1>10. Owned'
  <2>1. users[rFd] = Obj
    BY DEF Obj
  <2>2. \A o \in Tasks : ~Closes(fd[o])' /\ ~Handles(fd[o])'
    BY <1>1 DEF kernelVars, Handles, Closes
  <2> QED
    BY <1>1, <1>2, <1>5, <2>1, <2>2 DEF kernelVars, objVars, Owned, Handles, Closes,
                                        InBatch
<1>11. Balance'
  <2>1. ASSUME NEW f \in Fds PROVE (Rests(f)' => Rests(f)) /\ (Flies(f)' => Flies(f))
    <3>1. users[f] \in Tasks' => users[f] \in Tasks \/ f = rFd
      BY <1>2, <1>5
    <3> QED
      BY <1>1, <3>1 DEF kernelVars, objVars, Rests, Flies
  <2> QED
    BY <1>1, <2>1 DEF clientVars, objVars, mainVars, history, Balance, OneFrameInFlight,
                      Closes
<1> QED
  BY <1>6, <1>7, <1>8, <1>9, <1>10, <1>11
-----------------------------------------------------------------------------
(* The end of a connection.  First its descriptor is free again ...          *)
LEMMA CloseFdIInv == ASSUME IInv, CloseFd PROVE IInv'
<1> USE Ids DEF IInv
<1>1. /\ ~crashed /\ rAt = "close" /\ rAt' = "null" /\ Handles(rFd)
      /\ fd' = [fd EXCEPT ![Con] = None]
      /\ reg' = [reg EXCEPT ![fd[Con]] = "none"]
      /\ UNCHANGED <<clientVars, objVars, rFd, batch, mainVars, poolVars, history, crashed>>
      /\ Tasks' = Tasks
  BY TaskFrame DEF CloseFd, Closed, Handles, poolVars
<1>2. /\ rFd \in Fds /\ Obj \in Clients /\ Con = Obj /\ fd[Obj] = rFd
      /\ Obj \notin Tasks /\ Obj # mC
      /\ reg[rFd] = "off" /\ ~InBatch(rFd)
      /\ \A f \in Fds : f # rFd => users[f] # Obj
  BY <1>1, HandlerFacts
<1>3. /\ fd'[Obj] = None /\ \A c \in Clients : c # Obj => fd'[c] = fd[c]
      /\ reg'[rFd] = "none" /\ \A f \in Fds : f # rFd => reg'[f] = reg[f]
      /\ \A c \in Clients : c # Obj => fd[c] # rFd
  BY <1>1, <1>2 DEF Types, Descriptors
<1>4. Types'
  BY <1>1, <1>2 DEF clientVars, objVars, mainVars, poolVars, history, Types
<1>5. Descriptors'
  BY <1>1, <1>3 DEF clientVars, Types, Descriptors, Held
<1>6. Joins'
  BY <1>1, <1>2, <1>3 DEF clientVars, objVars, mainVars, Types, Joins
<1>7. Objects'
  <2>1. ASSUME NEW f \in Fds, users[f] # None, f # rFd
        PROVE  users[f] \in Clients /\ fd'[users[f]] = fd[users[f]]
    BY <1>2, <1>3, <2>1 DEF Types
  <2>2. users[rFd] = Obj /\ sok[Obj] = Obj
    BY <1>2 DEF Obj, Con
  <2> QED
    BY <1>1, <1>3, <2>1, <2>2 DEF clientVars, objVars, mainVars, Objects, Closes
<1>8. Batch' /\ Handlers' /\ Queued'
  BY <1>1, <1>2, <1>3 DEF objVars, poolVars, Types, Batch, Handlers, Handles, Closes,
                          InBatch, Queued
<1>9. Owned'
  <2>1. \A o \in Tasks : o \in Clients /\ fd[o] \in Fds /\ o # Obj
    BY <1>2, TaskFacts
  <2> QED
    BY <1>1, <1>3, <2>1 DEF objVars, Owned, Handles, Closes, InBatch
<1>10. Balance' /\ Real'
  BY <1>1, <1>3 DEF clientVars, objVars, mainVars, history, Balance, OneFrameInFlight,
                    Rests, Flies, Closes, Real, Heard, Ended
<1> QED
  BY <1>4, <1>5, <1>6, <1>7, <1>8, <1>9, <1>10

(* What is known of an object that is being closed.                          *)
LEMMA CloserFacts ==
    ASSUME IInv, ~crashed, rAt \in {"null", "delete", "erase"}
    PROVE  /\ rFd \in Fds /\ Closes(rFd) /\ Obj \in Clients /\ users[rFd] = Obj
           /\ Obj \notin Tasks /\ ~InBatch(rFd)
           /\ \A f \in Fds : f # rFd => users[f] # Obj /\ ~Closes(f)
           /\ \A f \in Fds : ~Handles(f)
           /\ sok[Obj] # None => fd[sok[Obj]] \in {rFd, None}
<1> USE Ids DEF IInv
<1>1. rFd \in Fds /\ Closes(rFd) /\ \A f \in Fds : ~Handles(f) /\ (f # rFd => ~Closes(f))
  BY DEF Handlers, Closes, Handles
<1>2. users[rFd] # None /\ ~InBatch(rFd) /\ users[rFd] = Obj
  BY <1>1 DEF Handlers, Obj
<1>3. Obj \in Clients
  BY <1>1, <1>2 DEF Types
<1>4. \A f \in Fds : f # rFd => users[f] # Obj
  BY <1>1, <1>2 DEF Objects
<1>5. Obj \notin Tasks
  <2> SUFFICES ASSUME Obj \in Tasks PROVE FALSE
    OBVIOUS
  <2>1. fd[Obj] \in Fds /\ users[fd[Obj]] = Obj
    BY TaskFacts
  <2>2. fd[Obj] = rFd
    BY <1>4, <2>1
  <2> QED
    BY <1>1, <2>2 DEF Owned
<1>6. sok[Obj] # None => fd[sok[Obj]] \in {rFd, None}
  BY <1>1, <1>2 DEF Objects
<1> QED
  BY <1>1, <1>2, <1>3, <1>4, <1>5, <1>6

(* ... then the object forgets it ...                                        *)
LEMMA CloseNullIInv == ASSUME IInv, CloseNull PROVE IInv'
<1> USE Ids DEF IInv
<1>1. /\ ~crashed /\ rAt = "null" /\ rAt' = "delete"
      /\ sok' = [sok EXCEPT ![Obj] = None]
      /\ UNCHANGED <<clientVars, kernelVars, users, heap, rFd, batch, mainVars, poolVars,
                     history, crashed>>
      /\ Tasks' = Tasks
  BY TaskFrame DEF CloseNull, poolVars
<1>2. /\ rFd \in Fds /\ Closes(rFd) /\ Obj \in Clients /\ users[rFd] = Obj
      /\ \A f \in Fds : f # rFd => users[f] # Obj
  BY <1>1, CloserFacts
<1>3. sok'[Obj] = None /\ \A c \in Clients : c # Obj => sok'[c] = sok[c]
  BY <1>1, <1>2 DEF Types
<1>4. Types'
  BY <1>1, <1>2 DEF clientVars, kernelVars, mainVars, poolVars, history, Types
<1>5. Descriptors' /\ Batch' /\ Queued' /\ Handlers' /\ Owned'
  BY <1>1 DEF clientVars, kernelVars, poolVars, Descriptors, Held, Batch, Queued,
              Handlers, Owned, Handles, Closes, InBatch
<1>6. Joins'
  BY <1>1, <1>3 DEF clientVars, kernelVars, mainVars, Joins
<1>7. Objects'
  <2>1. ASSUME NEW f \in Fds, users[f] # None, f # rFd
        PROVE  sok'[users[f]] = sok[users[f]]
    BY <1>2, <1>3, <2>1 DEF Types
  <2> QED
    BY <1>1, <1>2, <1>3, <2>1 DEF clientVars, kernelVars, mainVars, Objects, Closes
<1>8. Balance' /\ Real'
  BY <1>1 DEF clientVars, kernelVars, mainVars, history, Balance, OneFrameInFlight,
              Rests, Flies, Closes, Real, Heard, Ended
<1> QED
  BY <1>4, <1>5, <1>6, <1>7, <1>8

(* ... then ~User() closes what was put into the object meanwhile ...        *)
LEMMA DeleteIInv == ASSUME IInv, Delete PROVE IInv'
<1> USE Ids DEF IInv
<1>1. /\ ~crashed /\ rAt = "delete" /\ rAt' = "erase"
      /\ heap' = [heap EXCEPT ![Obj] = "freed"]
      /\ sok' = [sok EXCEPT ![Obj] = None]
      /\ UNCHANGED <<clientVars, users, rFd, batch, mainVars, poolVars, history, crashed>>
      /\ Tasks' = Tasks
  BY TaskFrame DEF Delete, poolVars
<1>2. /\ rFd \in Fds /\ Closes(rFd) /\ Obj \in Clients /\ users[rFd] = Obj
      /\ Obj \notin Tasks /\ ~InBatch(rFd)
      /\ \A f \in Fds : f # rFd => users[f] # Obj /\ ~Closes(f)
      /\ \A f \in Fds : ~Handles(f)
      /\ sok[Obj] # None => fd[sok[Obj]] \in {rFd, None}
  BY <1>1, CloserFacts
<1>3. /\ sok'[Obj] = None /\ \A c \in Clients : c # Obj => sok'[c] = sok[c]
      /\ \A c \in Clients : c # Obj => heap'[c] = heap[c]
  BY <1>1, <1>2 DEF Types
<1>4. Con \in Clients \cup {None} /\ Con = sok[Obj]
  BY <1>2 DEF Con, Types
<1>5. /\ fd' \in [Clients -> Fds \cup {None}]
      /\ reg' \in [Fds -> {"none", "in", "out", "off"}]
      /\ \A c \in Clients : fd[c] # rFd => fd'[c] = fd[c]
      /\ \A c \in Clients : fd'[c] = fd[c] \/ (c = Con /\ fd'[c] = None)
      /\ \A f \in Fds : f # rFd => reg'[f] = reg[f]
      /\ (fd' = fd /\ reg' = reg) \/ reg'[rFd] = "none"
  <2>1. CASE Con = None \/ fd[Con] = None
    <3>1. fd' = fd /\ reg' = reg
      BY <1>1, <1>4, <2>1 DEF Delete, Closed, Types
    <3> QED
      BY <1>2, <3>1 DEF Types, Descriptors, Held
  <2>2. CASE Con # None /\ fd[Con] = rFd
    <3>1. fd' = [fd EXCEPT ![Con] = None] /\ reg' = [reg EXCEPT ![rFd] = "none"]
      BY <1>1, <2>2 DEF Delete, Closed
    <3> QED
      BY <1>2, <1>4, <2>2, <3>1 DEF Types
  <2> QED
    BY <1>2, <1>4, <2>1, <2>2
<1>6. Types'
  BY <1>1, <1>2, <1>5 DEF clientVars, mainVars, poolVars, history, Types
<1>7. Descriptors'
  <2>1. \A c, d \in Clients : fd'[c] = fd'[d] /\ fd'[c] # None => c = d
    BY <1>5 DEF Descriptors
  <2>2. \A c \in Clients : peer[c] = "new" => fd'[c] = None
    BY <1>5 DEF Descriptors
  <2>3. \A f \in Fds : reg'[f] # "none" => \E c \in Clients : fd'[c] = f
    BY <1>5 DEF Descriptors, Held
  <2> QED
    BY <1>1, <2>1, <2>2, <2>3 DEF clientVars, Descriptors, Held
<1>8. Joins'
  <2>1. mAt \in {"emplace", "init"} => mC # Con
    BY <1>2, <1>4 DEF Joins
  <2>2. mC # None /\ fd'[mC] # None => reg'[fd'[mC]] = "none"
    <3> SUFFICES ASSUME mC # None, fd'[mC] # None PROVE reg'[fd'[mC]] = "none"
      OBVIOUS
    <3>1. fd'[mC] = fd[mC] /\ fd[mC] \in Fds /\ reg[fd[mC]] = "none"
      BY <1>5 DEF Joins, Types
    <3> QED
      BY <1>5, <3>1 DEF Descriptors, Types
  <2> QED
    BY <1>1, <1>3, <1>5, <2>1, <2>2 DEF clientVars, mainVars, Types, Joins
<1>9. Objects'
  <2>1. ASSUME NEW f \in Fds, users[f] # None, f # rFd
        PROVE  /\ sok'[users[f]] = sok[users[f]] /\ heap'[users[f]] = heap[users[f]]
               /\ fd[users[f]] = f /\ fd'[users[f]] = f
    <3>1. users[f] \in Clients /\ users[f] # Obj /\ fd[users[f]] = f
      BY <1>2, <2>1 DEF Types, Objects
    <3> QED
      BY <1>3, <1>5, <2>1, <3>1
  <2> QED
    BY <1>1, <1>2, <1>3, <2>1 DEF clientVars, mainVars, Objects, Closes
<1>10. Batch' /\ Handlers' /\ Queued'
  <2>1. Batch'
    BY <1>1, <1>2, <1>5 DEF Types, Batch, InBatch
  <2> QED
    BY <1>1, <1>2, <2>1 DEF poolVars, Handlers, Handles, Closes, InBatch, Queued
<1>11. Owned'
  <2>1. \A o \in Tasks : /\ o \in Clients /\ fd[o] \in Fds /\ fd[o] # rFd
                         /\ fd'[o] = fd[o] /\ reg'[fd[o]] = reg[fd[o]]
    BY <1>2, <1>5, TaskFacts DEF Owned
  <2> QED
    BY <1>1, <2>1 DEF Owned, Handles, Closes, InBatch
<1>12. Balance' /\ Real'
  BY <1>1, <1>2, <1>5 DEF clientVars, mainVars, history, Balance, OneFrameInFlight,
                          Rests, Flies, Closes, Real, Heard, Ended
<1> QED
  BY <1>6, <1>7, <1>8, <1>9, <1>10, <1>11, <1>12

(* ... and the key is free for the next connection.                          *)
LEMMA EraseIInv == ASSUME IInv, Erase PROVE IInv'
<1> USE Ids DEF IInv
<1>1. /\ ~crashed /\ rAt = "erase" /\ rAt' = "dispatch" /\ rFd' = None
      /\ users' = [users EXCEPT ![rFd] = None]
      /\ UNCHANGED <<clientVars, kernelVars, heap, sok, batch, mainVars, poolVars,
                     history, crashed>>
      /\ Tasks' = Tasks
  BY TaskFrame DEF Erase, poolVars
<1>2. /\ rFd \in Fds /\ Closes(rFd) /\ users[rFd] = Obj /\ Obj \notin Tasks
      /\ \A f \in Fds : f # rFd => ~Closes(f)
  BY <1>1, CloserFacts
<1>3. users'[rFd] = None /\ \A f \in Fds : f # rFd => users'[f] = users[f]
  BY <1>1, <1>2 DEF Types
<1>4. Types'
  BY <1>1, <1>2 DEF clientVars, kernelVars, mainVars, poolVars, history, Types
<1>5. Descriptors' /\ Joins' /\ Batch' /\ Queued'
  BY <1>1 DEF clientVars, kernelVars, mainVars, poolVars, Descriptors, Held, Joins,
              Batch, Queued
<1>6. Objects'
  BY <1>1, <1>2, <1>3 DEF clientVars, kernelVars, mainVars, Objects, Closes
<1>7. Handlers' /\ Owned'
  <2>1. \A o \in Tasks : fd[o] # rFd /\ fd[o] \in Fds
    BY <1>2, TaskFacts DEF Owned
  <2> QED
    BY <1>1, <1>3, <2>1 DEF kernelVars, Handlers, Owned, Handles, Closes, InBatch
<1>8. Balance' /\ Real'
  BY <1>1, <1>2, <1>3 DEF clientVars, kernelVars, mainVars, history, Balance,
                          OneFrameInFlight, Rests, Flies, Closes, Real, Heard, Ended
<1> QED
  BY <1>4, <1>5, <1>6, <1>7, <1>8

(* on_write arms the connection for reading: its frame is dealt with.        *)
LEMMA OnWriteIInv == ASSUME IInv, OnWrite PROVE IInv'
<1> USE Ids DEF IInv
<1>1. /\ ~crashed /\ rAt \in {"write", "reply"} /\ Handles(rFd) /\ ~Closes(rFd)
      /\ UNCHANGED <<clientVars, fd, objVars, batch, mainVars, poolVars, nread>>
      /\ Tasks' = Tasks
  BY TaskFrame DEF OnWrite, Handles, Closes, poolVars
<1>2. /\ rFd \in Fds /\ Obj \in Clients /\ Con = Obj /\ fd[Obj] = rFd
      /\ Obj \notin Tasks /\ Obj # mC
      /\ reg[rFd] = "off" /\ ~InBatch(rFd)
      /\ \A f \in Fds : f # rFd => users[f] # Obj
      /\ users[rFd] = Obj
  BY <1>1, HandlerFacts DEF Obj
<1>3. /\ Descriptors => fd' = fd
      /\ Queued'
  BY <1>1 DEF poolVars, Queued
<1>4. CASE /\ rAt' \in {"write", "reply", "close"} /\ crashed' \in BOOLEAN
           /\ UNCHANGED <<rFd, reg, served>>
  <2>1. Types' /\ Descriptors' /\ Joins'
    BY <1>1, <1>4 DEF clientVars, objVars, mainVars, poolVars, Types, Descriptors, Held,
                      Joins
  <2>2. Objects' /\ Batch' /\ Handlers' /\ Owned'
    BY <1>1, <1>2, <1>4 DEF clientVars, objVars, mainVars, Objects, Batch, Handlers,
                            Owned, Handles, Closes, InBatch
  <2>3. Balance' /\ Real'
    BY <1>1, <1>4 DEF clientVars, objVars, mainVars, Balance, OneFrameInFlight, Rests,
                      Flies, Closes, Real, Heard, Ended
  <2> QED
    BY <1>3, <2>1, <2>2, <2>3
<1>5. CASE /\ rAt' = "dispatch" /\ rFd' = None /\ crashed' = crashed
           /\ reg' = [reg EXCEPT ![rFd] = "in"]
           /\ served' = [served EXCEPT ![Obj] = served[Obj] + 1]
  <2>1. /\ reg'[rFd] = "in" /\ \A f \in Fds : f # rFd => reg'[f] = reg[f]
        /\ served'[Obj] = served[Obj] + 1
        /\ \A c \in Clients : c # Obj => served'[c] = served[c]
        /\ served[Obj] \in Int
    BY <1>2, <1>5 DEF Types
  <2>2. Types'
    <3>1. served' \in [Clients -> Int]
      BY <1>2, <1>5, <2>1 DEF Types
    <3> QED
      BY <1>1, <1>2, <1>5, <3>1 DEF clientVars, objVars, mainVars, poolVars, Types
  <2>3. Descriptors'
    BY <1>1, <1>2, <2>1 DEF clientVars, Descriptors, Held
  <2>4. Joins'
    BY <1>1, <1>2, <2>1 DEF clientVars, objVars, mainVars, Types, Joins
  <2>5. Objects'
    BY <1>1, <1>5 DEF clientVars, objVars, mainVars, Objects, Closes
  <2>6. Batch' /\ Handlers'
    BY <1>1, <1>2, <1>5, <2>1 DEF objVars, Types, Batch, Handlers, Handles, Closes,
                                  InBatch
  <2>7. Owned'
    <3>1. \A o \in Tasks : o \in Clients /\ fd[o] \in Fds /\ fd[o] # rFd
      BY <1>2, TaskFacts DEF Descriptors
    <3> QED
      BY <1>1, <1>5, <2>1, <3>1 DEF objVars, Owned, Handles, Closes, InBatch
  <2>8. Real'
    BY <1>1, <1>5 DEF clientVars, objVars, Real, Heard, Ended, Closes
  <2>9. Balance'
    <3>1. nread[Obj] = served[Obj] + 1 /\ peer[Obj] # "new"
      <4>1. Flies(rFd) /\ Obj # None
        BY <1>1, <1>2 DEF Flies
      <4> QED
        BY <1>1, <1>2, <4>1 DEF Balance, Objects
    <3>2. OneFrameInFlight'
      BY <1>1, <2>1, <3>1 DEF Balance, OneFrameInFlight
    <3>3. \A c \in Clients : peer[c] = "new" \/ c = mC => nread[c] = served'[c]
      BY <1>2, <2>1, <3>1 DEF Balance
    <3>4. ASSUME NEW f \in Fds, users[f] # None, f # rFd
          PROVE  /\ Rests(f)' => nread[users[f]] = served'[users[f]]
                 /\ Flies(f)' => nread[users[f]] = served'[users[f]] + 1
      <4>1. users[f] \in Clients /\ users[f] # Obj
        BY <1>2, <3>4 DEF Types
      <4> QED
        BY <1>1, <1>5, <2>1, <3>4, <4>1 DEF objVars, Balance, Rests, Flies, Closes
    <3>5. ASSUME NEW f \in Fds, f = rFd PROVE ~Flies(f)'
      BY <3>5, <1>1, <1>2, <1>5, <2>1 DEF objVars, Flies, InBatch
    <3> QED
      BY <1>1, <1>2, <1>5, <2>1, <3>1, <3>2, <3>3, <3>4, <3>5
      DEF clientVars, objVars, mainVars, Balance, Closes
  <2> QED
    BY <1>3, <2>2, <2>3, <2>4, <2>5, <2>6, <2>7, <2>8, <2>9
<1> QED
  <2>1. Rearm(Obj, "in") => reg' = [reg EXCEPT ![rFd] = "in"]
    BY <1>2 DEF Rearm, Con
  <2>2. \/ /\ rAt' \in {"write", "reply", "close"} /\ crashed' \in BOOLEAN
           /\ UNCHANGED <<rFd, reg, served>>
        \/ /\ Rearm(Obj, "in") /\ rAt' = "dispatch" /\ rFd' = None /\ crashed' = crashed
           /\ served' = [served EXCEPT ![Obj] = served[Obj] + 1]
    BY <1>1, <1>2 DEF OnWrite, Types
  <2> QED
    BY <1>4, <1>5, <2>1, <2>2
-----------------------------------------------------------------------------
(* The workers.  Taking a task leaves it a task.                             *)
LEMMA WorkerStartIInv == ASSUME IInv, NEW w \in Workers, WorkerStart(w) PROVE IInv'
<1> USE Ids DEF IInv
<1>1. /\ running[w] = None /\ pending # <<>>
      /\ running' = [running EXCEPT ![w] = Head(pending)]
      /\ pending' = Tail(pending)
      /\ wAt' = [wAt EXCEPT ![w] = "task"]
      /\ UNCHANGED <<clientVars, kernelVars, objVars, reactorVars, mainVars, history,
                     crashed>>
  BY DEF WorkerStart
<1>2. /\ pending' \in Seq(Clients) /\ Len(pending') = Len(pending) - 1
      /\ Len(pending) \in Nat /\ Len(pending) > 0
      /\ \A i \in 1 .. Len(pending') : pending'[i] = pending[i + 1]
      /\ Head(pending) = pending[1] /\ pending[1] \in Clients
  BY <1>1 DEF Types
<1>3. /\ running'[w] = pending[1]
      /\ \A v \in Workers : v # w => running'[v] = running[v]
  BY <1>1, <1>2 DEF Types
<1>4. \A i \in 1 .. Len(pending') : i + 1 \in 1 .. Len(pending) /\ i + 1 # 1
  BY <1>2
<1>5. Tasks' = Tasks
  <2>1. ASSUME NEW o \in Tasks' PROVE o \in Tasks
    <3>1. CASE \E i \in 1 .. Len(pending') : pending'[i] = o
      BY <1>2, <1>4, <3>1 DEF Tasks
    <3>2. CASE \E v \in Workers : running'[v] = o /\ o # None
      <4>1. PICK v \in Workers : running'[v] = o /\ o # None
        BY <3>2
      <4>2. 1 \in 1 .. Len(pending)
        BY <1>2
      <4>3. CASE v = w
        BY <1>3, <4>1, <4>2, <4>3 DEF Tasks
      <4>4. CASE v # w
        BY <1>3, <4>1, <4>4 DEF Tasks
      <4> QED
        BY <4>3, <4>4
    <3> QED
      BY <2>1, <3>1, <3>2 DEF Tasks
  <2>2. ASSUME NEW o \in Tasks PROVE o \in Tasks'
    <3>1. CASE \E i \in 1 .. Len(pending) : pending[i] = o
      <4>1. PICK i \in 1 .. Len(pending) : pending[i] = o
        BY <3>1
      <4>2. CASE i = 1
        BY <1>2, <1>3, <4>1, <4>2 DEF Tasks
      <4>3. CASE i # 1
        <5>1. i - 1 \in 1 .. Len(pending') /\ pending'[i - 1] = o
          BY <1>2, <4>1, <4>3
        <5> QED
          BY <5>1 DEF Tasks
      <4> QED
        BY <4>2, <4>3
    <3>2. CASE \E v \in Workers : running[v] = o /\ o # None
      BY <1>1, <1>3, <3>2 DEF Tasks
    <3> QED
      BY <2>2, <3>1, <3>2, TaskDef
  <2> QED
    BY <2>1, <2>2
<1>6. Types'
  <2>1. running' \in [Workers -> Clients \cup {None}]
    BY <1>1, <1>2 DEF Types
  <2>2. /\ wAt' \in [Workers -> {"idle", "task", "send", "readable", "writable"}]
        /\ \A v \in Workers : running'[v] = None <=> wAt'[v] = "idle"
    BY <1>1, <1>2, <1>3 DEF Types
  <2> QED
    BY <1>1, <1>2, <2>1, <2>2 DEF clientVars, kernelVars, objVars, reactorVars, mainVars,
                                  history, Types
<1>7. Queued'
  <2>1. \A i, j \in 1 .. Len(pending') : pending'[i] = pending'[j] => i = j
    <3> SUFFICES ASSUME NEW i \in 1 .. Len(pending'), NEW j \in 1 .. Len(pending'),
                        pending'[i] = pending'[j]
                 PROVE  i = j
      OBVIOUS
    <3>1. i + 1 = j + 1
      BY <1>2, <1>4 DEF Queued
    <3> QED
      BY <3>1
  <2>2. 1 \in 1 .. Len(pending)
    BY <1>2
  <2>3. \A v \in Workers : running[v] # pending[1]
    BY <2>2 DEF Queued
  <2>4. \A v \in Workers : \A i \in 1 .. Len(pending') : pending'[i] # running'[v]
    <3> SUFFICES ASSUME NEW v \in Workers, NEW i \in 1 .. Len(pending')
                 PROVE  pending[i + 1] # running'[v]
      BY <1>2
    <3>1. pending[i + 1] # pending[1]
      BY <1>4, <2>2 DEF Queued
    <3>2. pending[i + 1] # running[v]
      BY <1>4 DEF Queued
    <3> QED
      BY <1>3, <3>1, <3>2
  <2>5. \A u, v \in Workers : u # v /\ running'[u] # None => running'[u] # running'[v]
    BY <1>3, <2>3 DEF Queued
  <2> QED
    BY <2>1, <2>4, <2>5 DEF Queued
<1>8. Descriptors' /\ Joins' /\ Objects' /\ Batch' /\ Handlers' /\ Owned'
  BY <1>1, <1>5 DEF clientVars, kernelVars, objVars, reactorVars, mainVars, Descriptors,
                    Held, Joins, Objects, Batch, Handlers, Owned, Handles, Closes, InBatch
<1>9. Balance' /\ Real'
  BY <1>1, <1>5 DEF clientVars, kernelVars, objVars, reactorVars, mainVars, history,
                    Balance, OneFrameInFlight, Rests, Flies, Closes, Real, Heard, Ended
<1> QED
  BY <1>6, <1>7, <1>8, <1>9

LEMMA WorkerTaskIInv ==
    ASSUME IInv, NEW w \in Workers, WorkerTask(w) \/ WorkerSend(w) PROVE IInv'
<1> USE Ids DEF IInv
<1>1. /\ wAt[w] \in {"task", "send"} /\ ~crashed
      /\ \E to \in {"send", "readable", "writable"} : wAt' = [wAt EXCEPT ![w] = to]
      /\ UNCHANGED <<clientVars, fd, reg, objVars, reactorVars, mainVars, pending,
                     running, history>>
      /\ Tasks' = Tasks
  BY TaskFrame DEF WorkerTask, WorkerSend, kernelVars
<1>2. Types'
  <2>2. crashed' \in BOOLEAN
    BY DEF WorkerTask, WorkerSend, Types
  <2>1. /\ wAt' \in [Workers -> {"idle", "task", "send", "readable", "writable"}]
        /\ \A v \in Workers : wAt'[v] = "idle" <=> wAt[v] = "idle"
    BY <1>1 DEF Types
  <2> QED
    BY <1>1, <2>2, <2>1 DEF clientVars, objVars, reactorVars, mainVars,
                            history, Types
<1>3. Descriptors' /\ Joins' /\ Objects' /\ Batch' /\ Handlers' /\ Queued' /\ Owned'
  BY <1>1 DEF clientVars, objVars, reactorVars, mainVars, Descriptors, Held,
              Joins, Objects, Batch, Handlers, Queued, Owned, Handles, Closes, InBatch
<1>4. Balance' /\ Real'
  BY <1>1 DEF clientVars, objVars, reactorVars, mainVars, history,
              Balance, OneFrameInFlight, Rests, Flies, Closes, Real, Heard, Ended
<1> QED
  BY <1>2, <1>3, <1>4

(* The last step of a job gives the object back by arming its descriptor.    *)
LEMMA WorkerRearmIInv == ASSUME IInv, NEW w \in Workers, WorkerRearm(w) PROVE IInv'
<1> USE Ids DEF IInv
<1>1. /\ wAt[w] \in {"readable", "writable"} /\ ~crashed
      /\ wAt' = [wAt EXCEPT ![w] = "idle"]
      /\ running' = [running EXCEPT ![w] = None]
      /\ UNCHANGED <<clientVars, fd, epfd, objVars, reactorVars, mainVars, pending, nread,
                     crashed>>
  BY DEF WorkerRearm
<1>2. running[w] # None /\ running[w] \in Tasks
  BY <1>1, TaskDef DEF Types
<1>3. PICK o \in Tasks, f \in Fds :
         /\ o = running[w] /\ f = fd[o]
         /\ o \in Clients /\ sok[o] = o /\ o # mC
         /\ users[f] = o /\ reg[f] = "off"
  BY <1>2, TaskFacts
<1>4. ~InBatch(f) /\ ~Handles(f) /\ ~Closes(f)
  BY <1>3 DEF Owned
<1>5. \/ /\ reg' = [reg EXCEPT ![f] = "in"]
         /\ served' = [served EXCEPT ![o] = served[o] + 1]
      \/ /\ reg' = [reg EXCEPT ![f] = "out"]
         /\ served' = served
  BY <1>3 DEF WorkerRearm, Rearm
<1>6. running'[w] = None /\ \A v \in Workers : v # w => running'[v] = running[v]
  BY <1>1 DEF Types
<1>7. Tasks' = Tasks \ {o}
  <2>1. o \notin Tasks'
    BY <1>1, <1>3, <1>6 DEF Tasks, Queued
  <2>2. ASSUME NEW t \in Tasks' PROVE t \in Tasks
    BY <1>1, <1>6 DEF Tasks
  <2>3. ASSUME NEW t \in Tasks, t # o PROVE t \in Tasks'
    <3>1. CASE \E i \in 1 .. Len(pending) : pending[i] = t
      BY <1>1, <3>1 DEF Tasks
    <3>2. CASE \E v \in Workers : running[v] = t /\ t # None
      BY <1>3, <1>6, <2>3, <3>2 DEF Tasks
    <3> QED
      BY <3>1, <3>2, TaskDef
  <2> QED
    BY <2>1, <2>2, <2>3
<1>8. /\ reg'[f] \in {"in", "out"} /\ \A g \in Fds : g # f => reg'[g] = reg[g]
      /\ served'[o] = IF reg'[f] = "in" THEN served[o] + 1 ELSE served[o]
      /\ \A c \in Clients : c # o => served'[c] = served[c]
      /\ served[o] \in Int
  BY <1>3, <1>5 DEF Types
<1>9. Types'
  <2>1. running' \in [Workers -> Clients \cup {None}]
    BY <1>1 DEF Types
  <2>2. /\ wAt' \in [Workers -> {"idle", "task", "send", "readable", "writable"}]
        /\ \A v \in Workers : running'[v] = None <=> wAt'[v] = "idle"
    BY <1>1, <1>6 DEF Types
  <2>3. reg' \in [Fds -> {"none", "in", "out", "off"}]
    BY <1>3, <1>5 DEF Types
  <2>4. served' \in [Clients -> Int]
    BY <1>3, <1>5, <1>8 DEF Types
  <2> QED
    BY <1>1, <2>1, <2>2, <2>3, <2>4 DEF clientVars, objVars, reactorVars, mainVars, Types
<1>10. Descriptors' /\ Joins' /\ Objects'
  <2>1. Descriptors'
    BY <1>1, <1>3, <1>8 DEF clientVars, Descriptors, Held
  <2>2. Joins'
    BY <1>1, <1>3, <1>8 DEF clientVars, objVars, mainVars, Types, Joins
  <2>3. Objects'
    BY <1>1 DEF clientVars, objVars, reactorVars, mainVars, Objects, Closes
  <2> QED
    BY <2>1, <2>2, <2>3
<1>11. Batch' /\ Handlers'
  BY <1>1, <1>4, <1>8 DEF objVars, reactorVars, Types, Batch, Handlers, Handles, Closes,
                          InBatch
<1>12. Queued'
  <2>1. \A i \in 1 .. Len(pending) : pending[i] # None
    BY DEF Types
  <2> QED
    BY <1>1, <1>6, <2>1 DEF Queued
<1>13. Owned'
  <2>1. \A t \in Tasks : t \in Clients /\ fd[t] \in Fds /\ (t # o => fd[t] # f)
    BY <1>3, TaskFacts DEF Descriptors
  <2> QED
    BY <1>1, <1>7, <1>8, <2>1 DEF objVars, reactorVars, Owned, Handles, Closes, InBatch
<1>14. Real'
  BY <1>1 DEF clientVars, objVars, reactorVars, Real, Heard, Ended, Closes
<1>15. Balance'
  <2>1. nread[o] = served[o] + 1 /\ peer[o] # "new"
    <3>1. Flies(f) /\ users[f] # None
      BY <1>3 DEF Flies
    <3> QED
      BY <1>3, <1>4, <3>1 DEF Balance, Objects
  <2>2. OneFrameInFlight'
    BY <1>1, <1>8, <2>1 DEF Balance, OneFrameInFlight
  <2>3. \A c \in Clients : peer[c] = "new" \/ c = mC => nread[c] = served'[c]
    BY <1>3, <1>8, <2>1 DEF Balance
  <2>4. ASSUME NEW g \in Fds, users[g] # None, g # f, ~Closes(g)
        PROVE  /\ Rests(g)' => nread[users[g]] = served'[users[g]]
               /\ Flies(g)' => nread[users[g]] = served'[users[g]] + 1
    <3>1. users[g] \in Clients /\ users[g] # o
      BY <1>3, <2>4 DEF Types, Objects
    <3> QED
      BY <1>1, <1>7, <1>8, <2>4, <3>1 DEF objVars, reactorVars, Balance, Rests, Flies
  <2>5. Rests(f)' => nread[o] = served'[o]
    BY <1>1, <1>4, <1>8, <2>1 DEF reactorVars, Rests, Handles, InBatch
  <2>6. Flies(f)' => nread[o] = served'[o] + 1
    BY <1>1, <1>3, <1>4, <1>7, <1>8, <2>1 DEF objVars, reactorVars, Flies, Handles, InBatch
  <2> QED
    BY <1>1, <1>3, <2>2, <2>3, <2>4, <2>5, <2>6
    DEF clientVars, objVars, reactorVars, mainVars, Balance, Closes
<1> QED
  BY <1>9, <1>10, <1>11, <1>12, <1>13, <1>14, <1>15

LEMMA NextIInv == IInv /\ [Next]_vars => IInv'
<1> SUFFICES ASSUME IInv, [Next]_vars PROVE IInv'
  OBVIOUS
<1>1. CASE \E c \in Clients : ClientSends(c) \/ ClientHangsUp(c) \/ ClientReads(c)
  BY <1>1, ClientIInv
<1>2. CASE \E c \in Clients, f \in Fds : Accept(c, f)
  BY <1>2, AcceptIInv
<1>3. CASE JoinStep
  BY <1>3, JoinEmplaceIInv, JoinInitIInv, JoinAddIInv DEF JoinStep
<1>4. CASE ReactorStep
  BY <1>4, EpollWaitIInv, DispatchIInv, DispatchOtherIInv, DispatchEndIInv, RecvIInv,
     AddTaskIInv, CloseFdIInv, CloseNullIInv, DeleteIInv, EraseIInv, OnWriteIInv DEF ReactorStep
<1>5. CASE \E w \in Workers : WorkerStep(w)
  BY <1>5, WorkerStartIInv, WorkerTaskIInv, WorkerRearmIInv DEF WorkerStep
<1>6. CASE UNCHANGED vars
  <2>1. /\ UNCHANGED <<clientVars, kernelVars, objVars, reactorVars, mainVars, poolVars,
                       history, crashed>>
        /\ Tasks' = Tasks
    BY <1>6, TaskFrame DEF vars, poolVars
  <2>2. Types' /\ Descriptors' /\ Joins' /\ Objects'
    BY <2>1 DEF clientVars, kernelVars, objVars, reactorVars, mainVars, poolVars, history,
                IInv, Types, Descriptors, Held, Joins, Objects, Closes
  <2>3. Batch' /\ Handlers' /\ Queued' /\ Owned'
    BY <2>1 DEF kernelVars, objVars, reactorVars, poolVars, IInv, Batch, Handlers, Queued,
                Owned, Handles, Closes, InBatch
  <2>4. Balance' /\ Real'
    BY <2>1 DEF clientVars, kernelVars, objVars, reactorVars, mainVars, history, IInv,
                Balance, OneFrameInFlight, Rests, Flies, Closes, Real, Heard, Ended
  <2> QED
    BY <2>2, <2>3, <2>4 DEF IInv
<1> QED
  BY <1>1, <1>2, <1>3, <1>4, <1>5, <1>6 DEF Next

LEMMA Invariant == Spec => []IInv
<1> QED
  BY InitIInv, NextIInv, PTL DEF Spec
-----------------------------------------------------------------------------
(* While an object is with the pool it is there once, and neither the        *)
(* kernel nor the reactor has an event for it: LJob needs no lock.           *)
THEOREM ReactorOneOwner == Spec => []OneOwner
<1>1. IInv => OneOwner
  <2> SUFFICES ASSUME IInv PROVE OneOwner
    OBVIOUS
  <2>1. ASSUME NEW o \in Tasks, NEW f \in Fds, users[f] = o
        PROVE  /\ reg[f] = "off"
               /\ ~\E e \in batch : e[1] = f
               /\ Handling => rFd # f
    <3>1. o \in Clients /\ users[fd[o]] = o /\ fd[o] \in Fds
      BY TaskFacts
    <3>2. f = fd[o]
      BY Ids, <2>1, <3>1 DEF IInv, Objects
    <3> QED
      BY <3>2 DEF IInv, Owned, Handling, Handles, Closes, InBatch
  <2> QED
    BY <2>1 DEF IInv, Queued, OneOwner
<1> QED
  BY <1>1, Invariant, PTL

(* No worker touches a deleted object or a closed connection.                *)
THEOREM ReactorNoDanglingTask == Spec => []NoDanglingTask
<1>1. IInv => NoDanglingTask
  BY Ids, TaskFacts DEF NoDanglingTask
<1> QED
  BY <1>1, Invariant, PTL

(* readFd is called when there is something to read, on_write when there is  *)
(* a frame to reply to, and both work on the connection of the event.        *)
THEOREM ReactorEventsAreReal == Spec => []EventsAreReal
<1>1. IInv => EventsAreReal
  <2> SUFFICES ASSUME IInv, ~crashed, rAt \in {"conf", "write"}
      PROVE  /\ fd[Con] = rFd
             /\ rAt = "conf" => wire[Con] # <<>> \/ Ended(Con)
             /\ rAt = "write" => nread[Con] > served[Con]
    BY DEF EventsAreReal
  <2>1. Handles(rFd) /\ ~Closes(rFd)
    BY DEF Handles, Closes
  <2>2. rFd \in Fds /\ Con = Obj /\ fd[Obj] = rFd /\ users[rFd] = Obj /\ Obj # None
        /\ Obj \in Clients
    BY Ids, <2>1, HandlerFacts DEF Obj
  <2>3. rAt = "conf" => wire[Con] # <<>> \/ Ended(Con)
    BY <2>1, <2>2 DEF IInv, Real, Heard
  <2>4. ASSUME rAt = "write" PROVE nread[Con] > served[Con]
    <3>1. Flies(rFd)
      BY <2>4 DEF Flies
    <3>2. nread[Obj] = served[Obj] + 1 /\ served[Obj] \in Int
      BY <2>1, <2>2, <3>1 DEF IInv, Balance, Types
    <3> QED
      BY <2>2, <3>2
  <2> QED
    BY <2>2, <2>3, <2>4
<1> QED
  BY <1>1, Invariant, PTL

(* A connection is never more than one frame ahead of its replies.           *)
THEOREM ReactorOneFrameInFlight == Spec => []OneFrameInFlight
<1>1. IInv => OneFrameInFlight
  BY DEF IInv, Balance
<1> QED
  BY <1>1, Invariant, PTL
-----------------------------------------------------------------------------
(* What Types leaves out: the rest of the types, and that a frame read is    *)
(* three parts that the client sent.  Some of them are taken before the last *)
(* one is there.                                                             *)
Taken(c) == IF crashed \/ c # Obj THEN 0
            ELSE IF rAt = "len" THEN 1 ELSE IF rAt = "body" THEN 2 ELSE 0

Parts == /\ parts \in [Clients -> Nat]
         /\ nread \in [Clients -> Nat] /\ served \in [Clients -> Nat]
         /\ \A c \in Clients :
                /\ parts[c] <= 3 * MaxReq[c]
                /\ 3 * nread[c] + Len(wire[c]) + Taken(c) <= parts[c]

Places == {"start", "wait", "dispatch", "conf", "len", "body", "add", "write", "reply",
           "close", "null", "delete", "erase"}

Rest == /\ EnableWrite \in Builds /\ epfd \in BOOLEAN /\ eagain \in BOOLEAN
        /\ room \in [Clients -> BOOLEAN] /\ ignored \subseteq Clients
        /\ rAt \in Places
        /\ mAt \in {"idle", "emplace", "init", "addfd"}
        /\ mObj \in Clients \cup {None}

LEMMA InitParts == Init => Parts /\ Rest
<1> SUFFICES ASSUME Init PROVE Parts /\ Rest
  OBVIOUS
<1>1. Rest
  <2>1. eagain = FALSE /\ epfd = FALSE /\ EnableWrite \in Builds
    BY DEF Init
  <2>2. rAt = "start" /\ mAt = "idle" /\ mObj = None
    BY DEF Init
  <2>3. room \in [Clients -> BOOLEAN] /\ ignored \subseteq Clients
    BY Zenon DEF Init
  <2>4. epfd \in BOOLEAN /\ eagain \in BOOLEAN
    BY <2>1
  <2>5. /\ rAt \in Places /\ mAt \in {"idle", "emplace", "init", "addfd"}
        /\ mObj \in Clients \cup {None}
    BY <2>2 DEF Places
  <2> QED
    BY <2>1, <2>3, <2>4, <2>5, Zenon DEF Rest
<1>2. Parts
  <2>1. \A c \in Clients : MaxReq[c] \in Nat
    BY ParametersAssumption
  <2>2. Len(<<>>) = 0
    OBVIOUS
  <2>3. rAt = "start"
    BY DEF Init
  <2>4. \A c \in Clients : Taken(c) = 0
    BY <2>3 DEF Taken
  <2> QED
    BY <2>1, <2>2, <2>4 DEF Init, Parts
<1> QED
  BY <1>1, <1>2

LEMMA RestStep == ASSUME IInv, Rest, [Next]_vars PROVE Rest'
<1> USE DEF Places
<1>1. ASSUME NEW c \in Clients, ClientSends(c) \/ ClientHangsUp(c) PROVE Rest'
  BY <1>1 DEF ClientSends, ClientHangsUp, kernelVars, reactorVars, mainVars, history, Rest
<1>2. ASSUME NEW c \in Clients, ClientReads(c) PROVE Rest'
  <2>1. room' \in [Clients -> BOOLEAN]
    BY <1>2 DEF ClientReads, Rest
  <2> QED
    BY <1>2, <2>1 DEF ClientReads, reactorVars, mainVars, history, Rest
<1>3. ASSUME NEW c \in Clients, NEW f \in Fds, Accept(c, f) PROVE Rest'
  BY <1>3 DEF Accept, reactorVars, history, Rest
<1>4. CASE JoinEmplace \/ JoinAdd
  BY <1>4 DEF JoinEmplace, JoinAdd, kernelVars, reactorVars, history, Rest
<1>5. CASE JoinInit
  <2>1. mC \in Clients /\ fd[mC] \in Fds /\ users[fd[mC]] \in Clients \cup {None}
    BY <1>5 DEF JoinInit, IInv, Joins, Types
  <2>2. /\ mObj' = users[fd[mC]] /\ mAt' = "addfd"
        /\ UNCHANGED <<EnableWrite, epfd, eagain, rAt, room, ignored>>
    BY <1>5 DEF JoinInit, kernelVars, reactorVars, history
  <2> QED
    BY <2>1, <2>2 DEF Rest
<1>6. CASE EPollstart \/ EpollWait \/ Dispatch \/ DispatchEnd
  BY <1>6 DEF EPollstart, EpollWait, Dispatch, DispatchEnd, kernelVars, mainVars, history,
              Rest
<1>7. CASE DispatchOther
  <2>1. ignored' \subseteq Clients
    BY <1>7 DEF DispatchOther, Rest
  <2> QED
    BY <1>7, <2>1 DEF DispatchOther, kernelVars, mainVars, Rest
<1>8. CASE RecvConfirm \/ RecvLen \/ RecvBody \/ AddTask
  BY <1>8 DEF RecvConfirm, RecvLen, RecvBody, AddTask, kernelVars, mainVars, history, Rest
<1>9. CASE CloseFd \/ CloseNull \/ Delete \/ Erase
  BY <1>9 DEF CloseFd, CloseNull, Delete, Erase, kernelVars, mainVars, history, Rest
<1>10. CASE OnWrite
  <2>1. room' \in [Clients -> BOOLEAN]
    BY <1>10 DEF OnWrite, Sent, Rest
  <2> QED
    BY <1>10, <2>1 DEF OnWrite, mainVars, Rest
<1>11. ASSUME NEW w \in Workers, WorkerStep(w) PROVE Rest'
  <2>1. CASE WorkerSend(w)
    <3>1. room' \in [Clients -> BOOLEAN]
      BY <2>1 DEF WorkerSend, Sent, Rest
    <3> QED
      BY <2>1, <3>1 DEF WorkerSend, reactorVars, mainVars, history, Rest
  <2>2. CASE WorkerStart(w) \/ WorkerTask(w) \/ WorkerRearm(w)
    BY <2>2 DEF WorkerStart, WorkerTask, WorkerRearm, kernelVars, reactorVars, mainVars,
                history, Rest
  <2> QED
    BY <1>11, <2>1, <2>2 DEF WorkerStep
<1>12. CASE UNCHANGED vars
  BY <1>12 DEF vars, kernelVars, reactorVars, mainVars, history, Rest
<1> QED
  BY <1>1, <1>2, <1>3, <1>4, <1>5, <1>6, <1>7, <1>8, <1>9, <1>10, <1>11, <1>12
     DEF Next, JoinStep, ReactorStep

(* The arithmetic of this.                                                   *)
LEMMA FewerTaken ==
    ASSUME NEW n \in Nat, NEW l \in Nat, NEW p \in Nat, NEW t \in {0, 1, 2},
           NEW u \in {0, t}, 3 * n + l + t <= p
    PROVE  3 * n + l + u <= p
  OBVIOUS

LEMMA OneMore ==
    ASSUME NEW n \in Nat, NEW l \in Nat, NEW p \in Nat, NEW t \in {0, 1, 2}, NEW m \in Nat,
           3 * n + l + t <= p, p < 3 * m
    PROVE  3 * n + (l + 1) + t <= p + 1 /\ p + 1 <= 3 * m
  OBVIOUS

LEMMA Thirds ==
    ASSUME NEW n \in Nat, NEW l \in Nat, NEW p \in Nat, NEW t \in {0, 1, 2}, NEW m \in Nat,
           3 * n + l + t <= p, p <= 3 * m
    PROVE  n <= m
  OBVIOUS

(* Where nobody reads or sends, and no handler comes to its body.            *)
LEMMA PartsKept ==
    ASSUME Parts, IInv, UNCHANGED <<wire, parts, nread>>, served' \in [Clients -> Nat],
           \A c \in Clients : Taken(c)' \in {0, Taken(c)}
    PROVE  Parts'
<1>1. ASSUME NEW c \in Clients PROVE 3 * nread[c] + Len(wire[c]) + Taken(c)' <= parts[c]
  <2>1. /\ nread[c] \in Nat /\ parts[c] \in Nat
        /\ 3 * nread[c] + Len(wire[c]) + Taken(c) <= parts[c]
    BY DEF Parts
  <2>2. Len(wire[c]) \in Nat /\ Taken(c) \in {0, 1, 2}
    BY DEF IInv, Types, Taken
  <2> QED
    BY <2>1, <2>2, FewerTaken
<1> QED
  BY <1>1 DEF Parts

LEMMA PartsStep == ASSUME IInv, Parts, Rest, [Next]_vars PROVE Parts'
<1> USE Ids
<1>0. /\ \A c \in Clients : MaxReq[c] \in Nat
      /\ \A c \in Clients : Taken(c) \in {0, 1, 2}
  BY ParametersAssumption DEF Taken
<1>1. ASSUME NEW c \in Clients, ClientSends(c) PROVE Parts'
  <2>1. PICK p \in Wire : wire' = [wire EXCEPT ![c] = Append(wire[c], p)]
    BY <1>1 DEF ClientSends, Wire
  <2>2. /\ parts[c] < 3 * MaxReq[c] /\ parts' = [parts EXCEPT ![c] = parts[c] + 1]
        /\ UNCHANGED <<nread, served, rAt, rFd, users, crashed>>
    BY <1>1 DEF ClientSends, objVars, reactorVars, history
  <2>3. wire[c] \in Seq(Wire) /\ wire \in [Clients -> Seq(Wire)]
    BY DEF IInv, Types
  <2>4. Len(wire'[c]) = Len(wire[c]) + 1 /\ Len(wire[c]) \in Nat
    BY <2>1, <2>3
  <2>5. parts'[c] = parts[c] + 1 /\ parts[c] \in Nat /\ parts' \in [Clients -> Nat]
    BY <2>2 DEF Parts
  <2>6. \A b \in Clients : b # c => wire'[b] = wire[b] /\ parts'[b] = parts[b]
    BY <2>1, <2>2, <2>3 DEF Parts
  <2>7. \A b \in Clients : Taken(b)' = Taken(b)
    BY <2>2 DEF Taken, Obj
  <2>8. ASSUME NEW b \in Clients
        PROVE  /\ parts'[b] <= 3 * MaxReq[b]
               /\ 3 * nread'[b] + Len(wire'[b]) + Taken(b)' <= parts'[b]
    <3>1. /\ parts[b] <= 3 * MaxReq[b] /\ nread[b] \in Nat
          /\ 3 * nread[b] + Len(wire[b]) + Taken(b) <= parts[b]
      BY DEF Parts
    <3>2. nread' = nread /\ Taken(b)' = Taken(b) /\ Taken(b) \in {0, 1, 2}
      BY <1>0, <2>2, <2>7
    <3>3. CASE b = c
      <4>1. /\ MaxReq[c] \in Nat /\ parts[c] < 3 * MaxReq[c]
            /\ 3 * nread[c] + Len(wire[c]) + Taken(c) <= parts[c]
            /\ nread[c] \in Nat /\ Taken(c) \in {0, 1, 2}
        BY <1>0, <2>2, <3>1, <3>2, <3>3
      <4>2. /\ 3 * nread[c] + (Len(wire[c]) + 1) + Taken(c) <= parts[c] + 1
            /\ parts[c] + 1 <= 3 * MaxReq[c]
        BY <2>4, <2>5, <4>1, OneMore
      <4> QED
        BY <2>4, <2>5, <3>2, <3>3, <4>2
    <3>4. CASE b # c
      <4>1. wire'[b] = wire[b] /\ parts'[b] = parts[b]
        BY <2>6, <3>4
      <4> QED
        BY <3>1, <3>2, <4>1
    <3> QED
      BY <3>3, <3>4
  <2> QED
    BY <2>2, <2>5, <2>8 DEF Parts
<1>2. ASSUME NEW c \in Clients, ClientHangsUp(c) \/ ClientReads(c) PROVE Parts'
  <2>1. UNCHANGED <<wire, parts, nread, served, users, rAt, rFd, crashed>>
    BY <1>2 DEF ClientHangsUp, ClientReads, clientVars, objVars, reactorVars, history
  <2> QED
    BY <2>1, PartsKept DEF Taken, Obj, Parts
<1>3. ASSUME NEW c \in Clients, NEW f \in Fds, Accept(c, f) PROVE Parts'
  BY <1>3, PartsKept DEF Accept, objVars, reactorVars, history, Taken, Obj, Parts
<1>4. CASE JoinStep
  <2>1. UNCHANGED <<wire, parts, nread, served, rAt, rFd>> /\ ~crashed
    BY <1>4 DEF JoinStep, JoinEmplace, JoinInit, JoinAdd, clientVars, reactorVars, history
  <2>2. ASSUME rAt \in {"len", "body"} PROVE users'[rFd] = users[rFd]
    <3>1. rFd \in Fds /\ users[rFd] # None
      BY <2>1, <2>2 DEF IInv, Handlers, Handles
    <3> QED
      BY <1>4, <3>1 DEF JoinStep, JoinEmplace, JoinInit, JoinAdd, objVars, IInv, Types
  <2>3. \A c \in Clients : Taken(c)' \in {0, Taken(c)}
    BY <2>1, <2>2 DEF Taken, Obj
  <2>4. served' \in [Clients -> Nat]
    BY <2>1 DEF Parts
  <2> QED
    BY <2>1, <2>3, <2>4, PartsKept
<1>5. CASE EPollstart \/ EpollWait \/ Dispatch \/ DispatchOther \/ DispatchEnd \/ AddTask
           \/ CloseFd \/ CloseNull \/ Delete \/ Erase
  <2>1. UNCHANGED <<wire, parts, nread, served>> /\ rAt' \notin {"len", "body"}
    BY <1>5 DEF EPollstart, EpollWait, Dispatch, DispatchOther, DispatchEnd, AddTask,
                CloseFd, CloseNull, Delete, Erase, clientVars, history
  <2> QED
    BY <2>1, PartsKept DEF Parts, Taken
<1>6. CASE OnWrite
  <2>1. UNCHANGED <<wire, parts, nread>> /\ rAt' \notin {"len", "body"}
    BY <1>6 DEF OnWrite, clientVars
  <2>2. served' = served \/ served' = [served EXCEPT ![Con] = served[Con] + 1]
    BY <1>6 DEF OnWrite
  <2>3. served' \in [Clients -> Nat]
    <3>1. served \in [Clients -> Nat]
      BY DEF Parts
    <3>2. Con \in Clients => served[Con] + 1 \in Nat
      BY <3>1
    <3> QED
      BY <2>2, <3>1, <3>2
  <2> QED
    BY <2>1, <2>3, PartsKept DEF Taken
<1>7. CASE RecvConfirm \/ RecvLen \/ RecvBody
  <2>1. /\ ~crashed /\ rAt \in {"conf", "len", "body"} /\ Handles(rFd)
        /\ UNCHANGED <<parts, served, rFd, users, crashed>>
    BY <1>7 DEF RecvConfirm, RecvLen, RecvBody, Handles, objVars, history
  <2>2. Obj \in Clients /\ Con = Obj /\ Obj' = Obj
    BY <2>1, HandlerFacts DEF Obj
  <2>3. wire \in [Clients -> Seq(Wire)] /\ wire[Obj] \in Seq(Wire)
    BY <2>2 DEF IInv, Types
  <2>4. CASE UNCHANGED <<wire, nread>> /\ rAt' \in {rAt, "close"}
    <3>1. served' \in [Clients -> Nat]
      BY <2>1 DEF Parts
    <3>2. \A c \in Clients : Taken(c)' \in {0, Taken(c)}
      BY <2>1, <2>2, <2>4 DEF Taken
    <3> QED
      BY <2>1, <2>4, <3>1, <3>2, PartsKept
  <2>5. CASE /\ wire[Obj] # <<>> /\ wire' = [wire EXCEPT ![Obj] = Tail(wire[Obj])]
             /\ \/ rAt = "conf" /\ rAt' \in {"len", "close"} /\ UNCHANGED nread
                \/ rAt = "len" /\ rAt' = "body" /\ UNCHANGED nread
                \/ /\ rAt = "body" /\ rAt' = "add"
                   /\ nread' = [nread EXCEPT ![Obj] = nread[Obj] + 1]
    <3>1. Len(wire'[Obj]) = Len(wire[Obj]) - 1 /\ Len(wire[Obj]) \in Nat
      BY <2>2, <2>3, <2>5
    <3>2. nread[Obj] \in Nat /\ parts[Obj] \in Nat /\ nread \in [Clients -> Nat]
      BY <2>2 DEF Parts
    <3>3. /\ nread' \in [Clients -> Nat]
          /\ \A c \in Clients : c # Obj => wire'[c] = wire[c] /\ nread'[c] = nread[c]
          /\ nread'[Obj] = IF rAt = "body" THEN nread[Obj] + 1 ELSE nread[Obj]
      <4>1. \A c \in Clients : c # Obj => wire'[c] = wire[c]
        BY <2>2, <2>3, <2>5
      <4>2. nread[Obj] + 1 \in Nat
        BY <3>2
      <4> QED
        BY <2>2, <2>5, <3>2, <4>1, <4>2
    <3>4. \A c \in Clients : c # Obj => Taken(c) = 0 /\ Taken(c)' = 0
      BY <2>2 DEF Taken
    <3>5. /\ Taken(Obj) = IF rAt = "conf" THEN 0 ELSE IF rAt = "len" THEN 1 ELSE 2
          /\ Taken(Obj)' = IF rAt' = "body" THEN 2 ELSE IF rAt' = "len" THEN 1 ELSE 0
      BY <2>1, <2>2, <2>5 DEF Taken
    <3>6. 3 * nread[Obj] + Len(wire[Obj]) + Taken(Obj) <= parts[Obj]
      BY <2>2 DEF Parts
    <3>7. 3 * nread'[Obj] + Len(wire'[Obj]) + Taken(Obj)' <= parts[Obj]
      <4>1. CASE rAt = "conf"
        <5>1. nread'[Obj] = nread[Obj] /\ Taken(Obj) = 0 /\ Taken(Obj)' \in {0, 1}
          BY <2>5, <3>3, <3>5, <4>1
        <5> QED
          BY <3>1, <3>2, <3>6, <5>1
      <4>2. CASE rAt = "len"
        <5>1. nread'[Obj] = nread[Obj] /\ Taken(Obj) = 1 /\ Taken(Obj)' = 2
          BY <2>5, <3>3, <3>5, <4>2
        <5> QED
          BY <3>1, <3>2, <3>6, <5>1
      <4>3. CASE rAt = "body"
        <5>1. nread'[Obj] = nread[Obj] + 1 /\ Taken(Obj) = 2 /\ Taken(Obj)' = 0
          BY <2>5, <3>3, <3>5, <4>3
        <5> QED
          BY <3>1, <3>2, <3>6, <5>1
      <4> QED
        BY <2>1, <4>1, <4>2, <4>3
    <3>8. ASSUME NEW c \in Clients
          PROVE  3 * nread'[c] + Len(wire'[c]) + Taken(c)' <= parts'[c]
      <4>1. CASE c = Obj
        BY <2>1, <2>2, <3>7, <4>1
      <4>2. CASE c # Obj
        <5>1. 3 * nread[c] + Len(wire[c]) + Taken(c) <= parts[c]
          BY DEF Parts
        <5> QED
          BY <2>1, <3>3, <3>4, <4>2, <5>1
      <4> QED
        BY <4>1, <4>2
    <3> QED
      BY <2>1, <3>3, <3>8 DEF Parts
  <2> QED
    BY <1>7, <2>2, <2>4, <2>5 DEF RecvConfirm, RecvLen, RecvBody, history
<1>8. ASSUME NEW w \in Workers, WorkerStep(w) PROVE Parts'
  <2>1. UNCHANGED <<wire, parts, nread, rAt, rFd, users>> /\ ~crashed
    BY <1>8 DEF WorkerStep, WorkerStart, WorkerTask, WorkerSend, WorkerRearm, clientVars,
                objVars, reactorVars, history
  <2>2. \/ served' = served
        \/ served' = [served EXCEPT ![sok[running[w]]] = served[sok[running[w]]] + 1]
    <3>1. WorkerStart(w) \/ WorkerTask(w) \/ WorkerSend(w) => served' = served
      BY DEF WorkerStart, WorkerTask, WorkerSend, history
    <3> QED
      BY <1>8, <3>1 DEF WorkerStep, WorkerRearm
  <2>3. served' \in [Clients -> Nat]
    <3>1. served \in [Clients -> Nat] /\ \A c \in Clients : served[c] + 1 \in Nat
      BY DEF Parts
    <3> QED
      BY <2>2, <3>1
  <2>4. \A c \in Clients : Taken(c)' \in {0, Taken(c)}
    BY <2>1 DEF Taken, Obj
  <2> QED
    BY <2>1, <2>3, <2>4, PartsKept
<1>9. CASE UNCHANGED vars
  <2>1. UNCHANGED <<wire, parts, nread, served, users, rAt, rFd, crashed>>
    BY <1>9 DEF vars, clientVars, objVars, reactorVars, history
  <2> QED
    BY <2>1, PartsKept DEF Taken, Obj, Parts
<1> QED
  BY <1>1, <1>2, <1>3, <1>4, <1>5, <1>6, <1>7, <1>8, <1>9 DEF Next, ReactorStep

(* Type correctness; above all, no more frames are read than were sent.      *)
THEOREM ReactorTypeOK == Spec => []TypeOK
<1>1. IInv /\ Parts /\ Rest => TypeOK
  <2> SUFFICES ASSUME IInv, Parts, Rest PROVE TypeOK
    OBVIOUS
  <2>1. ASSUME NEW c \in Clients PROVE nread[c] <= MaxReq[c] /\ served[c] <= MaxReq[c]
    <3>1. /\ nread[c] \in Nat /\ served[c] \in Nat /\ parts[c] \in Nat
          /\ parts[c] <= 3 * MaxReq[c]
          /\ 3 * nread[c] + Len(wire[c]) + Taken(c) <= parts[c]
      BY DEF Parts
    <3>2. Len(wire[c]) \in Nat /\ Taken(c) \in {0, 1, 2}
      BY DEF IInv, Types, Taken
    <3>3. nread[c] - served[c] \in {0, 1}
      BY DEF IInv, Balance, OneFrameInFlight
    <3>4. MaxReq[c] \in Nat
      BY ParametersAssumption
    <3>5. nread[c] <= MaxReq[c]
      BY <3>1, <3>2, <3>4, Thirds
    <3> QED
      BY <3>1, <3>3, <3>4, <3>5
  <2> QED
    BY <2>1 DEF IInv, Types, Parts, Rest, Places, TypeOK
<1>2. IInv /\ Parts /\ Rest /\ [Next]_vars => (IInv /\ Parts /\ Rest)'
  BY NextIInv, PartsStep, RestStep
<1> QED
  BY <1>1, <1>2, InitIInv, InitParts, PTL DEF Spec
-----------------------------------------------------------------------------
(* What becomes of the objects: made once, deleted once, and by the reactor. *)
Fates == /\ \A c \in Clients : heap[c] # "none" =>
                peer[c] # "new" /\ (c = mC => mAt \in {"init", "addfd"})
         /\ ~crashed /\ rAt \in {"null", "delete"} => heap[Obj] = "live"
         /\ ~crashed /\ rAt = "erase" => heap[Obj] = "freed"
         /\ rAt \in {"start", "wait"} => batch = {}

LEMMA InitFates == Init => Fates
BY DEF Init, Fates

LEMMA FatesStep == ASSUME IInv, Fates, [Next]_vars PROVE Fates'
<1> USE Ids
<1>1. ASSUME NEW c \in Clients, ClientSends(c) \/ ClientHangsUp(c) \/ ClientReads(c)
      PROVE  Fates'
  BY <1>1 DEF ClientSends, ClientHangsUp, ClientReads, clientVars, objVars, reactorVars,
              mainVars, Fates, Obj, IInv, Types, Peers
<1>2. ASSUME NEW c \in Clients, NEW f \in Fds, Accept(c, f) PROVE Fates'
  BY <1>2 DEF Accept, objVars, reactorVars, Fates, Obj, IInv, Types
<1>3. CASE JoinEmplace
  <2>1. /\ mC \in Clients /\ fd[mC] \in Fds /\ heap[mC] = "none" /\ peer[mC] # "new"
        /\ users \in [Fds -> Clients \cup {None}] /\ heap \in [Clients -> {"none", "live", "freed"}]
    BY <1>3 DEF JoinEmplace, IInv, Joins, Types, Fates
  <2>2. /\ heap' = [heap EXCEPT ![mC] = "live"] /\ ~crashed /\ mAt' = "init"
        /\ UNCHANGED <<peer, rAt, rFd, batch, mC, crashed>>
    BY <1>3 DEF JoinEmplace, clientVars, reactorVars
  <2>3. ASSUME rAt \in {"null", "delete", "erase"} PROVE Obj' = Obj /\ Obj # mC /\ Obj \in Clients
    <3>1. rFd \in Fds /\ users[rFd] # None
      BY <2>2, <2>3 DEF IInv, Handlers, Closes
    <3>2. Obj # mC
      BY <1>3, <3>1, <2>1 DEF JoinEmplace, IInv, Objects, Obj
    <3>3. users'[rFd] = users[rFd]
      BY <1>3, <2>1, <3>1 DEF JoinEmplace
    <3> QED
      BY <2>1, <2>2, <3>1, <3>2, <3>3 DEF Obj
  <2>4. rAt \in {"null", "delete", "erase"} => heap'[Obj'] = heap[Obj]
    BY <2>1, <2>2, <2>3
  <2> QED
    BY <2>1, <2>2, <2>4 DEF Fates
<1>4. CASE JoinInit \/ JoinAdd
  BY <1>4 DEF JoinInit, JoinAdd, clientVars, objVars, reactorVars, Fates, Obj
<1>5. CASE EPollstart \/ EpollWait \/ Dispatch \/ DispatchOther \/ DispatchEnd
           \/ RecvConfirm \/ RecvLen \/ RecvBody \/ AddTask \/ OnWrite
  <2>1. /\ UNCHANGED <<heap, peer, mC, mAt>>
        /\ rAt' \notin {"null", "delete", "erase"}
        /\ rAt' \in {"start", "wait"} => batch' = {}
    BY <1>5 DEF EPollstart, EpollWait, Dispatch, DispatchOther, DispatchEnd, RecvConfirm,
                RecvLen, RecvBody, AddTask, OnWrite, clientVars, objVars, mainVars, Fates
  <2> QED
    BY <2>1 DEF Fates
<1>6. CASE CloseFd
  <2>1. /\ UNCHANGED <<heap, peer, mC, mAt, users, rFd>> /\ rAt' = "null" /\ ~crashed
        /\ rAt = "close"
    BY <1>6 DEF CloseFd, clientVars, objVars, mainVars
  <2>2. heap[Obj] = "live" /\ Obj' = Obj
    BY <2>1 DEF IInv, Handlers, Handles, Closes, Objects, Obj
  <2> QED
    BY <2>1, <2>2 DEF Fates
<1>7. CASE CloseNull
  BY <1>7 DEF CloseNull, clientVars, mainVars, Fates, Obj
<1>8. CASE Delete
  <2>1. /\ UNCHANGED <<peer, mC, mAt, users, rFd>> /\ rAt' = "erase"
        /\ heap' = [heap EXCEPT ![Obj] = "freed"] /\ heap[Obj] = "live" /\ Obj' = Obj
    BY <1>8 DEF Delete, clientVars, mainVars, Fates, Obj
  <2>2. rFd \in Fds /\ users[rFd] # None
    BY <1>8 DEF Delete, IInv, Handlers, Closes
  <2>3. Obj \in Clients /\ heap \in [Clients -> {"none", "live", "freed"}]
    BY <2>2 DEF IInv, Types, Obj
  <2>4. heap'[Obj'] = "freed" /\ \A c \in Clients : heap'[c] # "none" => heap[c] # "none"
    BY <2>1, <2>3
  <2> QED
    BY <2>1, <2>4 DEF Fates
<1>9. CASE Erase
  BY <1>9 DEF Erase, clientVars, mainVars, Fates
<1>10. ASSUME NEW w \in Workers, WorkerStep(w) PROVE Fates'
  <2>1. UNCHANGED <<heap, peer, mC, mAt, users, rFd, rAt, batch>> /\ ~crashed
    BY <1>10 DEF WorkerStep, WorkerStart, WorkerTask, WorkerSend, WorkerRearm, clientVars, objVars,
                 reactorVars, mainVars
  <2> QED
    BY <2>1 DEF Fates, Obj
<1>11. CASE UNCHANGED vars
  BY <1>11 DEF vars, clientVars, objVars, reactorVars, mainVars, Fates, Obj
<1> QED
  BY <1>1, <1>2, <1>3, <1>4, <1>5, <1>6, <1>7, <1>8, <1>9, <1>10, <1>11
     DEF Next, JoinStep, ReactorStep

-----------------------------------------------------------------------------
(* The place of an object that is in the map and is no task.                 *)
InHand == {"conf", "len", "body", "add", "write", "reply", "close", "null", "delete"}

ByKey(f) == IF <<f, "in">> \in batch \/ (rFd = f /\ rAt \in {"conf", "len", "body", "add"})
               THEN "reading"
            ELSE IF <<f, "out">> \in batch \/ (rFd = f /\ rAt \in {"write", "reply"})
               THEN "writing"
            ELSE IF rFd = f /\ rAt \in {"close", "null", "delete"} THEN "closing"
            ELSE IF reg[f] = "in" THEN "in"
            ELSE IF reg[f] = "out" THEN "out"
            ELSE IF reg[f] = "off" THEN "lost"
            ELSE "main"

Located == \A o \in Clients, f \in Fds :
    /\ users[f] = o /\ \A g \in Fds : users[g] = o => g = f
    /\ heap[o] = "live" /\ ~Works(o) /\ ~Waits(o)
    => Place(o) = ByKey(f)

LEMMA LocatedNow == Located
BY DEF Located, Place, ByKey, HasEvent, InHandler, Armed

LEMMA LocatedThen == Located'
BY LocatedNow, PTL

(* A step that does nothing to what tells the place of an object.            *)
Untouched(o) ==
    /\ heap'[o] = heap[o] /\ (Works(o)' <=> Works(o)) /\ (Waits(o)' <=> Waits(o))
    /\ \A f \in Fds : users'[f] = o <=> users[f] = o
    /\ \A f \in Fds : users[f] = o =>
          /\ reg'[f] = reg[f] /\ \A ev \in {"in", "out"} : <<f, ev>> \in batch' <=> <<f, ev>> \in batch
          /\ \/ UNCHANGED <<rAt, rFd>>
             \/ ~(rFd = f /\ rAt \in InHand) /\ ~(rFd' = f /\ rAt' \in InHand)

LEMMA SamePlace == ASSUME NEW o \in Clients, Untouched(o) PROVE Place(o)' = Place(o)
<1>1. \A ev \in {"in", "out"} : HasEvent(o, ev)' <=> HasEvent(o, ev)
  BY DEF Untouched, HasEvent
<1>2. \A ev \in {"in", "out", "off"} : Armed(o, ev)' <=> Armed(o, ev)
  BY DEF Untouched, Armed
<1>3. \A P \in SUBSET InHand : InHandler(o, P)' <=> InHandler(o, P)
  BY DEF Untouched, InHandler
<1>4. /\ {"conf", "len", "body", "add"} \in SUBSET InHand /\ {"write", "reply"} \in SUBSET InHand
      /\ {"close", "null", "delete"} \in SUBSET InHand
  BY DEF InHand
<1>5. heap'[o] = heap[o] /\ (Works(o)' <=> Works(o)) /\ (Waits(o)' <=> Waits(o))
  BY DEF Untouched
<1> QED
  BY <1>1, <1>2, <1>3, <1>4, <1>5 DEF Place

LEMMA SameTasks == ASSUME UNCHANGED <<pending, running>>
                   PROVE  \A o : (Works(o)' <=> Works(o)) /\ (Waits(o)' <=> Waits(o))
BY DEF Works, Waits

LEMMA Jobs == \A o \in Clients : o \in Tasks <=> Works(o) \/ Waits(o)
BY Ids, TaskDef DEF Works, Waits

(* An object in the map.                                                     *)
LEMMA KeyFacts ==
    ASSUME IInv, Fates, ~crashed, NEW f \in Fds, users[f] # None
    PROVE  /\ users[f] \in Clients /\ \A g \in Fds : users[g] = users[f] => g = f
           /\ heap[users[f]] = "live" \/ (rFd = f /\ rAt = "erase" /\ heap[users[f]] = "freed")
           /\ users[f] \in Tasks => /\ reg[f] = "off" /\ ~InBatch(f)
                                    /\ ~(rFd = f /\ rAt \in InHand)
<1> USE Ids DEF IInv
<1>1. users[f] \in Clients /\ \A g \in Fds : users[g] = users[f] => g = f
  BY DEF Types, Objects
<1>2. heap[users[f]] = "live" \/ (rFd = f /\ rAt = "erase" /\ heap[users[f]] = "freed")
  BY DEF Objects, Closes, Fates, Obj
<1>3. ASSUME users[f] \in Tasks
      PROVE  reg[f] = "off" /\ ~InBatch(f) /\ ~(rFd = f /\ rAt \in InHand)
  <2>1. fd[users[f]] \in Fds /\ users[fd[users[f]]] = users[f]
    BY <1>3, TaskFacts
  <2>2. fd[users[f]] = f
    BY <1>1, <2>1
  <2> QED
    BY <1>3, <2>2 DEF Owned, Handles, Closes, InHand
<1> QED
  BY <1>1, <1>2, <1>3

(* The object of a handler is where the code of the handler says.            *)
LEMMA InTheHandler ==
    ASSUME IInv, Fates, ~crashed, rAt \in InHand
    PROVE  /\ rFd \in Fds /\ Obj \in Clients /\ \A g \in Fds : users[g] = Obj => g = rFd
           /\ heap[Obj] = "live" /\ ~Works(Obj) /\ ~Waits(Obj)
           /\ \A ev : <<rFd, ev>> \notin batch
           /\ Place(Obj) = ByKey(rFd)
<1>1. rFd \in Fds /\ users[rFd] # None /\ ~InBatch(rFd)
  BY DEF IInv, Handlers, Handles, Closes, InHand
<1>2. /\ Obj \in Clients /\ \A g \in Fds : users[g] = Obj => g = rFd
      /\ heap[Obj] = "live" /\ Obj \notin Tasks
  BY <1>1, KeyFacts DEF Obj, InHand
<1>3. ~Works(Obj) /\ ~Waits(Obj)
  BY <1>2, Jobs
<1>4. Place(Obj) = ByKey(rFd)
  BY <1>1, <1>2, <1>3, LocatedNow DEF Located, Obj
<1>5. \A ev : <<rFd, ev>> \notin batch
  BY <1>1 DEF InBatch
<1> QED
  BY <1>1, <1>2, <1>3, <1>4, <1>5

(* Of a step of a handler that keeps the map: what it is to its object.      *)
LEMMA AfterHandler ==
    ASSUME IInv, Fates, ~crashed, rAt \in InHand, UNCHANGED <<users, pending, running>>,
           heap' = heap, NEW o \in Clients, NEW f \in Fds, o = Obj, f = rFd
    PROVE  Place(o)' = ByKey(f)'
<1>1. /\ users[f] = o /\ \A g \in Fds : users[g] = o => g = f
      /\ heap[o] = "live" /\ ~Works(o) /\ ~Waits(o)
  BY InTheHandler DEF Obj
<1>2. ~Works(o)' /\ ~Waits(o)'
  BY <1>1, SameTasks
<1> QED
  BY <1>1, <1>2, LocatedThen DEF Located

LEMMA Moved ==
    ASSUME NEW o \in Clients, NEW from, NEW to, Place(o) = from, Place(o)' = to,
           \A p \in Clients \ {o} : Untouched(p)
    PROVE  H!Move(o, from, to)
<1>1. \A p \in Clients \ {o} : Place(p)' = Place(p)
  BY SamePlace
<1> QED
  BY <1>1 DEF H!Move

LEMMA Stutters ==
    ASSUME UNCHANGED <<pending, running>>, \A o \in Clients : Untouched(o) \/ Place(o)' = Place(o)
    PROVE  UNCHANGED H!vars
<1>1. \A o \in Clients : Place(o)' = Place(o)
  BY SamePlace
<1> QED
  BY <1>1 DEF H!vars

-----------------------------------------------------------------------------
(* The steps.                                                                *)
LEMMA ClientHandover ==
    ASSUME \/ \E c \in Clients : ClientSends(c) \/ ClientHangsUp(c) \/ ClientReads(c)
           \/ \E c \in Clients, f \in Fds : Accept(c, f)
           \/ JoinInit \/ EPollstart \/ DispatchEnd \/ UNCHANGED vars
    PROVE  UNCHANGED H!vars
<1>1. /\ UNCHANGED <<users, heap, reg, pending, running, batch>>
      /\ UNCHANGED <<rAt, rFd>> \/ (rAt \notin InHand /\ rAt' \notin InHand)
  BY DEF ClientSends, ClientHangsUp, ClientReads, Accept, JoinInit, EPollstart, DispatchEnd,
         vars, kernelVars, objVars, reactorVars, poolVars, InHand
<1>2. \A o \in Clients : Untouched(o)
  BY <1>1, SameTasks DEF Untouched
<1> QED
  BY <1>1, <1>2, Stutters

LEMMA EmplaceHandover == ASSUME IInv, Fates, JoinEmplace PROVE H!Next
<1> USE Ids
<1>0. PICK c \in Clients : c = mC
  BY DEF JoinEmplace, IInv, Joins, Types
<1>1. /\ ~crashed /\ c \in Clients /\ fd[c] \in Fds /\ heap[c] = "none"
      /\ reg[fd[c]] = "none"
  BY <1>0 DEF JoinEmplace, IInv, Joins, Types, Fates
<1>2. /\ UNCHANGED <<reg, batch, rAt, rFd, pending, running>>
      /\ heap' = [heap EXCEPT ![c] = "live"]
      /\ users' = IF users[fd[c]] = None THEN [users EXCEPT ![fd[c]] = c] ELSE users
  BY <1>0 DEF JoinEmplace, kernelVars, reactorVars, poolVars
<1>3. \A g \in Fds : users[g] # c
  BY <1>0, <1>1 DEF JoinEmplace, IInv, Objects
<1>4. /\ users \in [Fds -> Clients \cup {None}]
      /\ heap \in [Clients -> {"none", "live", "freed"}]
  BY DEF IInv, Types
<1>5. ASSUME NEW p \in Clients \ {c} PROVE Untouched(p)
  <2>1. heap'[p] = heap[p] /\ \A f \in Fds : users'[f] = p <=> users[f] = p
    BY <1>1, <1>2, <1>4
  <2> QED
    BY <1>2, <2>1, SameTasks DEF Untouched
<1>6. Place(c) = "nobody"
  BY <1>1 DEF Place
<1>7. Place(c)' = "main"
  <2>1. heap'[c] = "live"
    BY <1>1, <1>2, <1>4
  <2>2. ~Works(c)' /\ ~Waits(c)'
    <3>1. c \notin Tasks
      BY <1>0, TaskFacts
    <3> QED
      BY <1>1, <1>2, <3>1, Jobs, SameTasks
  <2>3. ASSUME NEW f \in Fds, users'[f] = c
        PROVE  /\ reg'[f] = "none" /\ \A ev \in {"in", "out"} : <<f, ev>> \notin batch'
               /\ ~(rFd' = f /\ rAt' \in InHand)
    <3>1. f = fd[c] /\ users[f] = None
      BY <1>2, <1>3, <1>4, <2>3
    <3>2. \A ev \in {"in", "out"} : <<f, ev>> \notin batch
      BY <1>1, <3>1 DEF IInv, Batch
    <3>3. ~(rFd = f /\ rAt \in InHand)
      BY <1>1, <3>1, InTheHandler DEF Obj
    <3> QED
      BY <1>1, <1>2, <3>1, <3>2, <3>3
  <2>4. /\ \A ev \in {"in", "out"} : ~HasEvent(c, ev)'
        /\ \A ev \in {"in", "out", "off"} : ~Armed(c, ev)'
    BY <2>3 DEF HasEvent, Armed
  <2>5. \A P \in SUBSET InHand : ~InHandler(c, P)'
    BY <2>3 DEF InHandler
  <2>6. /\ {"conf", "len", "body", "add"} \in SUBSET InHand /\ {"write", "reply"} \in SUBSET InHand
        /\ {"close", "null", "delete"} \in SUBSET InHand
    BY DEF InHand
  <2> QED
    BY <2>1, <2>2, <2>4, <2>5, <2>6 DEF Place
<1>8. H!Move(c, "nobody", "main")
  BY <1>1, <1>5, <1>6, <1>7, Moved
<1>9. H!Create(c)
  BY <1>2, <1>8 DEF H!Create, H!Stay
<1> QED
  BY <1>1, <1>9 DEF H!Next

(* addfd arms the object of the connection, or one that is being closed.     *)
LEMMA JoinAddHandover == ASSUME IInv, Fates, JoinAdd PROVE H!Next \/ UNCHANGED H!vars
<1> USE Ids
<1>1. /\ ~crashed /\ mC \in Clients /\ fd[mC] \in Fds \cup {None}
      /\ fd[mC] # None => reg[fd[mC]] = "none"
  BY DEF JoinAdd, IInv, Joins, Types
<1>0. PICK f \in Fds \cup {None} : f = fd[mC]
  BY <1>1
<1>2. /\ UNCHANGED <<users, heap, batch, rAt, rFd, pending, running>>
      /\ reg' = reg \/ (f # None /\ reg' = [reg EXCEPT ![f] = "in"])
  BY <1>0 DEF JoinAdd, objVars, reactorVars, poolVars
<1>3. reg \in [Fds -> {"none", "in", "out", "off"}]
  BY DEF IInv, Types
<1>4. CASE reg' = reg
  <2>1. \A o \in Clients : Untouched(o)
    BY <1>2, <1>4, SameTasks DEF Untouched
  <2> QED
    BY <1>2, <2>1, Stutters
<1>5. CASE f # None /\ reg' = [reg EXCEPT ![f] = "in"]
  <2>1. f \in Fds /\ reg[f] = "none" /\ reg'[f] = "in" /\ \A g \in Fds \ {f} : reg'[g] = reg[g]
    BY <1>0, <1>1, <1>3, <1>5
  <2>2. ASSUME NEW p \in Clients, users[f] # p PROVE Untouched(p)
    BY <1>2, <2>1, <2>2, SameTasks DEF Untouched
  <2>3. CASE users[f] = None
    BY <1>2, <2>2, <2>3, Stutters
  <2>4. CASE users[f] # None
    <3>0. PICK o \in Clients : o = users[f]
      BY <1>1, <2>1, <2>4, KeyFacts
    <3>1. /\ users[f] = o /\ \A g \in Fds : users[g] = o => g = f
          /\ heap[o] = "live" \/ (rFd = f /\ rAt = "erase" /\ heap[o] = "freed")
          /\ o \notin Tasks
      BY <3>0, <1>1, <2>1, <2>4, KeyFacts
    <3>2. ~Works(o) /\ ~Waits(o) /\ ~Works(o)' /\ ~Waits(o)'
      BY <1>2, <3>1, Jobs, SameTasks
    <3>3. \A ev \in {"in", "out"} : <<f, ev>> \notin batch
      BY <2>1 DEF IInv, Batch
    <3>4. \A p \in Clients \ {o} : Untouched(p)
      BY <2>2, <3>1
    <3>5. CASE heap[o] = "freed"
      <4>1. Place(o)' = Place(o)
        BY <1>2, <3>5 DEF Place
      <4> QED
        BY <1>2, <3>4, <4>1, Stutters
    <3>6. CASE heap[o] = "live"
      <4>1. Place(o) = ByKey(f)
        BY <2>1, <3>1, <3>2, <3>6, LocatedNow DEF Located
      <4>2. Place(o)' = ByKey(f)'
        BY <1>2, <2>1, <3>1, <3>2, <3>6, LocatedThen DEF Located
      <4>3. ~(rFd = f /\ rAt \in {"conf", "len", "body", "add", "write", "reply"})
        <5>1. Handles(f) => reg[f] = "off"
          BY <1>1, <2>1 DEF IInv, Handlers
        <5> QED
          BY <2>1, <5>1 DEF Handles
      <4>4. CASE rFd = f /\ rAt \in {"close", "null", "delete"}
        <5>1. ByKey(f) = "closing" /\ ByKey(f)' = "closing"
          BY <1>2, <3>3, <4>4 DEF ByKey
        <5> QED
          BY <1>2, <3>4, <4>1, <4>2, <5>1, Stutters
      <4>5. CASE ~(rFd = f /\ rAt \in {"close", "null", "delete"})
        <5>1. ByKey(f) = "main" /\ ByKey(f)' = "in"
          BY <1>2, <2>1, <3>3, <4>3, <4>5 DEF ByKey
        <5>2. H!Move(o, "main", "in")
          BY <3>1, <3>4, <4>1, <4>2, <5>1, Moved
        <5>3. H!Arm(o)
          BY <1>2, <5>2 DEF H!Arm, H!Stay
        <5> QED
          BY <3>1, <5>3 DEF H!Next
      <4> QED
        BY <4>4, <4>5
    <3> QED
      BY <3>1, <3>5, <3>6
  <2> QED
    BY <2>3, <2>4
<1> QED
  BY <1>2, <1>4, <1>5

(* epoll_wait takes the armed objects, each with the event it waits for or,  *)
(* if it waits for output, with one that the reactor ignores.                *)
LEMMA WaitHandover == ASSUME IInv, Fates, EpollWait PROVE H!Next
<1> USE Ids
<1>1. PICK S \in SUBSET Fds : S = {f \in Fds : Ready(f)}
  OBVIOUS
<1>2. /\ ~crashed /\ rAt = "wait" /\ rAt' = "dispatch" /\ batch = {}
      /\ batch' = {<<f, Event(f)>> : f \in S}
      /\ reg' = [f \in Fds |-> IF f \in S THEN "off" ELSE reg[f]]
      /\ UNCHANGED <<users, heap, rFd, pending, running>>
  BY <1>1 DEF EpollWait, Disarm, objVars, poolVars, Fates
<1>3. \A f \in S : /\ reg[f] \in {"in", "out"}
                   /\ Event(f) = reg[f] \/ (Event(f) = "hup" /\ reg[f] = "out")
  BY <1>1 DEF Ready, Event
<1>4. PICK T \in SUBSET Clients : T = {o \in Clients : \E f \in S : users[f] = o}
  OBVIOUS
<1>5. ASSUME NEW o \in T
      PROVE  /\ Place(o) \in {"in", "out"}
             /\ Place(o) = "in" => Place(o)' = "reading"
             /\ Place(o) = "out" => Place(o)' \in {"writing", "lost"}
  <2>1. PICK f \in S : users[f] = o
    BY <1>4
  <2>2. /\ o \in Clients /\ f \in Fds /\ \A g \in Fds : users[g] = o => g = f
        /\ heap[o] = "live" /\ o \notin Tasks
    BY <1>2, <1>3, <2>1, KeyFacts
  <2>3. ~Works(o) /\ ~Waits(o) /\ ~Works(o)' /\ ~Waits(o)'
    BY <1>2, <2>2, Jobs, SameTasks
  <2>4. Place(o) = ByKey(f)
    BY <2>1, <2>2, <2>3, LocatedNow DEF Located
  <2>5. Place(o)' = ByKey(f)'
    BY <1>2, <2>1, <2>2, <2>3, LocatedThen DEF Located
  <2>6. ByKey(f) = reg[f]
    BY <1>2, <1>3, <2>1 DEF ByKey
  <2>7. \A ev : <<f, ev>> \in batch' <=> ev = Event(f)
    BY <1>2, <2>1
  <2>8. ByKey(f)' = IF Event(f) = "in" THEN "reading"
                    ELSE IF Event(f) = "out" THEN "writing" ELSE "lost"
    <3>1. reg'[f] = "off" /\ rAt' = "dispatch"
      BY <1>2, <2>1, <2>2
    <3> QED
      BY <1>3, <2>1, <2>7, <3>1 DEF ByKey
  <2> QED
    BY <1>3, <2>1, <2>4, <2>5, <2>6, <2>8
<1>6. ASSUME NEW o \in Clients \ T PROVE Place(o)' = Place(o)
  <2>1. \A f \in Fds : users[f] = o => f \notin S
    BY <1>4
  <2>2. \A f \in Fds : users[f] = o =>
           reg'[f] = reg[f] /\ \A ev \in {"in", "out"} : <<f, ev>> \notin batch'
    BY <1>2, <2>1
  <2>3. Untouched(o)
    BY <1>2, <2>2, SameTasks DEF Untouched, InHand
  <2> QED
    BY <2>3, SamePlace
<1>7. H!Fire(T)
  <2>1. PICK L \in SUBSET {o \in T : Place(o) = "out"} :
           L = {o \in T : Place(o) = "out" /\ Place(o)' = "lost"}
    OBVIOUS
  <2>2. \A o \in Clients : Place(o)' = IF o \notin T THEN Place(o)
                                       ELSE IF o \in L THEN "lost"
                                       ELSE IF Place(o) = "in" THEN "reading" ELSE "writing"
    BY <1>5, <1>6, <2>1
  <2> QED
    BY <1>2, <1>4, <1>5, <2>1, <2>2 DEF H!Fire, H!Stay
<1> QED
  BY <1>4, <1>7 DEF H!Next

(* An event that comes to its handler.                                       *)
LEMMA DispatchHandover == ASSUME IInv, Fates, Dispatch PROVE UNCHANGED H!vars
<1> USE Ids
<1>1. PICK e \in batch : e[2] # "hup" /\ batch' = batch \ {e} /\ rFd' = e[1]
                         /\ rAt' = IF e[2] = "in" THEN "conf" ELSE "write"
  BY DEF Dispatch, Others
<1>2. PICK f \in Fds, ev \in {"in", "out"} : e = <<f, ev>>
  BY <1>1 DEF IInv, Types
<1>3. /\ ~crashed /\ rAt = "dispatch"
      /\ UNCHANGED <<users, heap, reg, pending, running>>
  BY DEF Dispatch, kernelVars, objVars, poolVars
<1>4. \A g \in Fds, x \in {"in", "out"} : g # f => (<<g, x>> \in batch' <=> <<g, x>> \in batch)
  BY <1>1, <1>2
<1>5. ASSUME NEW p \in Clients, users[f] # p PROVE Untouched(p)
  <2>1. \A g \in Fds : users[g] = p => g # f /\ rFd' # g
    BY <1>1, <1>2, <1>5
  <2> QED
    BY <1>3, <1>4, <2>1, SameTasks DEF Untouched, InHand
<1>6. ASSUME NEW o \in Clients, users[f] = o PROVE Place(o)' = Place(o)
  <2>1. InBatch(f)
    BY <1>2 DEF InBatch
  <2>2. /\ \A g \in Fds : users[g] = o => g = f
        /\ heap[o] = "live" /\ o \notin Tasks
    BY <1>3, <1>6, <2>1, KeyFacts
  <2>3. ~Works(o) /\ ~Waits(o) /\ ~Works(o)' /\ ~Waits(o)'
    BY <1>3, <2>2, Jobs, SameTasks
  <2>4. Place(o) = ByKey(f)
    BY <1>6, <2>2, <2>3, LocatedNow DEF Located
  <2>5. Place(o)' = ByKey(f)'
    BY <1>3, <1>6, <2>2, <2>3, LocatedThen DEF Located
  <2>6. \A x : <<f, x>> \in batch <=> x = ev
    <3>1. \A d \in batch : d[1] = f => d = e
      BY <1>2 DEF IInv, Batch
    <3> QED
      BY <1>2, <3>1
  <2>7. \A x : <<f, x>> \notin batch'
    BY <1>1, <1>2, <2>6
  <2>8. ByKey(f) = IF ev = "in" THEN "reading" ELSE "writing"
    BY <1>3, <2>6 DEF ByKey
  <2>9. ByKey(f)' = IF ev = "in" THEN "reading" ELSE "writing"
    BY <1>1, <1>2, <2>7 DEF ByKey
  <2> QED
    BY <2>4, <2>5, <2>8, <2>9
<1> QED
  BY <1>3, <1>5, <1>6, Stutters

(* One that is ignored takes nobody out of its place.                        *)
LEMMA OtherHandover == ASSUME DispatchOther PROVE UNCHANGED H!vars
<1>1. PICK e \in batch : e[2] = "hup" /\ batch' = batch \ {e}
  BY DEF DispatchOther, Others
<1>2. UNCHANGED <<users, heap, reg, rAt, rFd, pending, running>>
  BY DEF DispatchOther, kernelVars, objVars, poolVars
<1>3. \A f \in Fds, ev \in {"in", "out"} : <<f, ev>> \in batch' <=> <<f, ev>> \in batch
  BY <1>1
<1>4. \A o \in Clients : Untouched(o)
  BY <1>2, <1>3, SameTasks DEF Untouched
<1> QED
  BY <1>2, <1>4, Stutters

-----------------------------------------------------------------------------
(* In a handler: what happens to the object of the handler, and to no other. *)
LEMMA HandlerOthers ==
    ASSUME IInv, Fates, ~crashed, rAt \in InHand, NEW o \in Clients, NEW f \in Fds,
           o = Obj, f = rFd, UNCHANGED <<users, batch>>, rFd' \in {rFd, None},
           \A g \in Fds \ {f} : reg'[g] = reg[g],
           \A p \in Clients \ {o} : /\ heap'[p] = heap[p]
                                    /\ (Works(p)' <=> Works(p)) /\ (Waits(p)' <=> Waits(p))
    PROVE  \A p \in Clients \ {o} : Untouched(p)
<1>1. users[f] = o
  BY DEF Obj
<1> QED
  BY <1>1, Ids DEF Untouched

LEMMA RecvHandover == ASSUME IInv, Fates, RecvConfirm \/ RecvLen \/ RecvBody
                      PROVE  H!Next \/ UNCHANGED H!vars
<1>1. /\ ~crashed /\ rAt \in {"conf", "len", "body"} /\ rAt' \in {"len", "body", "add", "close"}
      /\ UNCHANGED <<users, heap, rFd, batch, reg, pending, running>>
  BY DEF RecvConfirm, RecvLen, RecvBody, kernelVars, objVars, poolVars
<1>2. rAt \in InHand
  BY <1>1 DEF InHand
<1>3. PICK o \in Clients, f \in Fds : o = Obj /\ f = rFd
  BY <1>1, <1>2, InTheHandler
<1>4. \A p \in Clients \ {o} : Untouched(p)
  BY <1>1, <1>2, <1>3, SameTasks, HandlerOthers
<1>5. Place(o) = ByKey(f) /\ \A ev : <<f, ev>> \notin batch
  BY <1>1, <1>2, <1>3, InTheHandler
<1>6. Place(o)' = ByKey(f)'
  BY <1>1, <1>2, <1>3, AfterHandler
<1>7. ByKey(f) = "reading"
  BY <1>1, <1>3 DEF ByKey
<1>8. CASE rAt' = "close"
  <2>1. ByKey(f)' = "closing"
    BY <1>1, <1>3, <1>5, <1>8 DEF ByKey
  <2>2. H!Move(o, "reading", "closing")
    BY <1>4, <1>5, <1>6, <1>7, <2>1, Moved
  <2>3. H!CloseConn(o)
    BY <1>1, <2>2 DEF H!CloseConn, H!Stay
  <2> QED
    BY <2>3 DEF H!Next
<1>9. CASE rAt' # "close"
  <2>1. ByKey(f)' = "reading"
    BY <1>1, <1>3, <1>9 DEF ByKey
  <2> QED
    BY <1>1, <1>4, <1>5, <1>6, <1>7, <2>1, Stutters
<1> QED
  BY <1>8, <1>9

LEMMA AddTaskHandover == ASSUME IInv, Fates, AddTask PROVE H!Next
<1>1. /\ ~crashed /\ rAt = "add" /\ rAt' = "dispatch" /\ rFd' = None /\ pending' = Append(pending, Obj)
      /\ UNCHANGED <<users, heap, batch, reg, running>>
  BY DEF AddTask, kernelVars, objVars
<1>2. rAt \in InHand
  BY <1>1 DEF InHand
<1>3. PICK o \in Clients, f \in Fds : o = Obj /\ f = rFd
  BY <1>1, <1>2, InTheHandler
<1>4. pending \in Seq(Clients)
  BY DEF IInv, Types
<1>5. /\ Len(pending') = Len(pending) + 1 /\ pending'[Len(pending) + 1] = o
      /\ Len(pending) \in Nat /\ \A i \in 1 .. Len(pending) : pending'[i] = pending[i]
  BY <1>1, <1>3, <1>4
<1>6. \A p : p # o => (Waits(p)' <=> Waits(p))
  BY <1>5 DEF Waits
<1>7. \A p : Works(p)' <=> Works(p)
  BY <1>1 DEF Works
<1>8. \A p \in Clients \ {o} : Untouched(p)
  BY <1>1, <1>2, <1>3, <1>6, <1>7, HandlerOthers
<1>9. Place(o) = "reading"
  BY <1>1, <1>2, <1>3, InTheHandler DEF ByKey
<1>10. Place(o)' = "pool"
  <2>1. Waits(o)'
    BY <1>5 DEF Waits
  <2>2. heap'[o] = "live" /\ ~Works(o)'
    BY <1>1, <1>2, <1>3, <1>7, InTheHandler
  <2> QED
    BY <2>1, <2>2 DEF Place
<1>11. H!Move(o, "reading", "pool")
  BY <1>8, <1>9, <1>10, Moved
<1>12. H!AddTask(o)
  BY <1>1, <1>3, <1>11 DEF H!AddTask
<1> QED
  BY <1>12 DEF H!Next

LEMMA CloseHandover == ASSUME IInv, Fates, CloseFd \/ CloseNull PROVE UNCHANGED H!vars
<1>1. /\ ~crashed /\ rAt \in {"close", "null"} /\ rAt' \in {"null", "delete"}
      /\ UNCHANGED <<users, heap, rFd, batch, pending, running>>
      /\ reg' = reg \/ (rAt = "close" /\ reg' = [reg EXCEPT ![fd[Con]] = "none"])
  BY DEF CloseFd, CloseNull, Closed, kernelVars, objVars, poolVars
<1>2. rAt \in InHand
  BY <1>1 DEF InHand
<1>3. PICK o \in Clients, f \in Fds : o = Obj /\ f = rFd
  BY <1>1, <1>2, InTheHandler
<1>4. \A g \in Fds \ {f} : reg'[g] = reg[g]
  <2>1. reg \in [Fds -> {"none", "in", "out", "off"}]
    BY DEF IInv, Types
  <2>2. rAt = "close" => fd[Con] = f
    BY <1>1, <1>3, HandlerFacts DEF Handles
  <2> QED
    BY <1>1, <2>1, <2>2
<1>5. \A p \in Clients \ {o} : Untouched(p)
  BY <1>1, <1>2, <1>3, <1>4, SameTasks, HandlerOthers
<1>6. Place(o) = ByKey(f) /\ \A ev : <<f, ev>> \notin batch
  BY <1>1, <1>2, <1>3, InTheHandler
<1>7. Place(o)' = ByKey(f)'
  BY <1>1, <1>2, <1>3, AfterHandler
<1>8. ByKey(f) = "closing" /\ ByKey(f)' = "closing"
  BY <1>1, <1>3, <1>6 DEF ByKey
<1> QED
  BY <1>1, <1>5, <1>6, <1>7, <1>8, Stutters

LEMMA DeleteHandover == ASSUME IInv, Fates, Delete PROVE H!Next
<1>1. /\ ~crashed /\ rAt = "delete" /\ rAt' = "erase"
      /\ heap' = [heap EXCEPT ![Obj] = "freed"]
      /\ UNCHANGED <<users, rFd, batch, pending, running>>
      /\ reg' = reg \/ (Con # None /\ reg' = [reg EXCEPT ![fd[Con]] = "none"])
  BY DEF Delete, Closed, kernelVars, objVars, poolVars
<1>2. rAt \in InHand
  BY <1>1 DEF InHand
<1>3. PICK o \in Clients, f \in Fds : o = Obj /\ f = rFd
  BY <1>1, <1>2, InTheHandler
<1>4. /\ reg \in [Fds -> {"none", "in", "out", "off"}]
      /\ heap \in [Clients -> {"none", "live", "freed"}]
  BY DEF IInv, Types
<1>5. \A g \in Fds \ {f} : reg'[g] = reg[g]
  <2>1. Con # None => fd[Con] \in {f, None}
    BY <1>1, <1>3 DEF IInv, Objects, Closes, Handlers, Obj, Con
  <2> QED
    BY <1>1, <1>4, <2>1, Ids
<1>6. \A p \in Clients \ {o} : Untouched(p)
  BY <1>1, <1>2, <1>3, <1>4, <1>5, SameTasks, HandlerOthers
<1>7. Place(o) = "closing"
  BY <1>1, <1>2, <1>3, InTheHandler DEF ByKey
<1>8. Place(o)' = "freed"
  BY <1>1, <1>3, <1>4 DEF Place
<1>9. H!Move(o, "closing", "freed")
  BY <1>6, <1>7, <1>8, Moved
<1>10. H!Delete(o)
  BY <1>1, <1>9 DEF H!Delete, H!Stay
<1> QED
  BY <1>10 DEF H!Next

LEMMA EraseHandover == ASSUME IInv, Fates, Erase PROVE UNCHANGED H!vars
<1> USE Ids
<1>1. /\ ~crashed /\ rAt = "erase" /\ rAt' = "dispatch" /\ users' = [users EXCEPT ![rFd] = None]
      /\ heap[Obj] = "freed" /\ UNCHANGED <<heap, batch, reg, pending, running>>
  BY DEF Erase, kernelVars, poolVars, Fates
<1>2. users \in [Fds -> Clients \cup {None}]
  BY DEF IInv, Types
<1>3. ASSUME NEW p \in Clients, p # Obj PROVE Untouched(p)
  <2>1. \A g \in Fds : users'[g] = p <=> users[g] = p
    BY <1>1, <1>2, <1>3 DEF Obj
  <2> QED
    BY <1>1, <2>1, SameTasks DEF Untouched, InHand
<1>4. ASSUME NEW p \in Clients, p = Obj PROVE Place(p)' = Place(p)
  BY <1>1, <1>4 DEF Place
<1> QED
  BY <1>1, <1>3, <1>4, Stutters

LEMMA WriteHandover == ASSUME IInv, Fates, OnWrite PROVE H!Next \/ UNCHANGED H!vars
<1> USE Ids
<1>1. /\ ~crashed /\ rAt \in {"write", "reply"}
      /\ UNCHANGED <<users, heap, batch, pending, running>>
      /\ \/ rAt' = "dispatch" /\ rFd' = None /\ Rearm(Obj, "in")
         \/ rAt' \in {"write", "reply", "close"} /\ rFd' = rFd /\ reg' = reg
  BY DEF OnWrite, objVars, poolVars
<1>2. rAt \in InHand
  BY <1>1 DEF InHand
<1>3. PICK o \in Clients, f \in Fds : o = Obj /\ f = rFd
  BY <1>1, <1>2, InTheHandler
<1>4. fd[sok[Obj]] = f /\ reg[f] = "off"
  BY <1>1, <1>3, HandlerFacts DEF Handles, Con
<1>5. reg \in [Fds -> {"none", "in", "out", "off"}]
  BY DEF IInv, Types
<1>6. \/ rAt' = "dispatch" /\ rFd' = None /\ reg' = [reg EXCEPT ![f] = "in"]
      \/ rAt' \in {"write", "reply", "close"} /\ rFd' = rFd /\ reg' = reg
  BY <1>1, <1>4 DEF Rearm
<1>7. \A p \in Clients \ {o} : Untouched(p)
  <2>1. \A g \in Fds \ {f} : reg'[g] = reg[g]
    BY <1>5, <1>6
  <2> QED
    BY <1>1, <1>2, <1>3, <2>1, SameTasks, HandlerOthers
<1>8. Place(o) = ByKey(f) /\ \A ev : <<f, ev>> \notin batch
  BY <1>1, <1>2, <1>3, InTheHandler
<1>9. Place(o)' = ByKey(f)'
  BY <1>1, <1>2, <1>3, AfterHandler
<1>10. ByKey(f) = "writing"
  BY <1>1, <1>3, <1>8 DEF ByKey
<1>11. CASE rAt' = "dispatch" /\ rFd' = None /\ reg' = [reg EXCEPT ![f] = "in"]
  <2>1. ByKey(f)' = "in"
    BY <1>1, <1>3, <1>5, <1>8, <1>11 DEF ByKey
  <2>2. H!Move(o, "writing", "in")
    BY <1>7, <1>8, <1>9, <1>10, <2>1, Moved
  <2>3. H!Written(o)
    BY <1>1, <2>2 DEF H!Written, H!Stay
  <2> QED
    BY <2>3 DEF H!Next
<1>12. CASE rAt' = "close" /\ rFd' = rFd
  <2>1. ByKey(f)' = "closing"
    BY <1>1, <1>3, <1>8, <1>12 DEF ByKey
  <2>2. H!Move(o, "writing", "closing")
    BY <1>7, <1>8, <1>9, <1>10, <2>1, Moved
  <2>3. H!CloseConn(o)
    BY <1>1, <2>2 DEF H!CloseConn, H!Stay
  <2> QED
    BY <2>3 DEF H!Next
<1>13. CASE rAt' \in {"write", "reply"} /\ rFd' = rFd
  <2>1. ByKey(f)' = "writing"
    BY <1>1, <1>3, <1>8, <1>13 DEF ByKey
  <2> QED
    BY <1>1, <1>7, <1>8, <1>9, <1>10, <2>1, Stutters
<1> QED
  BY <1>6, <1>11, <1>12, <1>13

-----------------------------------------------------------------------------
(* The workers.                                                              *)
LEMMA StartHandover == ASSUME IInv, Fates, NEW w \in Workers, WorkerStart(w) PROVE H!Next
<1> USE Ids
<1>1. /\ running[w] = None /\ pending # <<>> /\ pending' = Tail(pending)
      /\ running' = [running EXCEPT ![w] = Head(pending)]
      /\ UNCHANGED <<users, heap, rAt, rFd, batch, reg>>
  BY DEF WorkerStart, kernelVars, objVars, reactorVars
<1>2. pending \in Seq(Clients) /\ running \in [Workers -> Clients \cup {None}]
  BY DEF IInv, Types
<1>3. PICK o \in Clients : o = Head(pending)
  BY <1>1, <1>2
<1>4. /\ Len(pending) \in Nat \ {0} /\ pending[1] = o /\ Len(pending') = Len(pending) - 1
      /\ \A i \in 1 .. Len(pending') : pending'[i] = pending[i + 1]
  BY <1>1, <1>2, <1>3
<1>5. Waits(o) /\ ~Works(o)
  <2>1. Waits(o)
    BY <1>4 DEF Waits
  <2>2. \A v \in Workers : \A i \in 1 .. Len(pending) : pending[i] # running[v]
    BY DEF IInv, Queued
  <2> QED
    BY <2>1, <2>2 DEF Waits, Works
<1>6. heap[o] = "live"
  BY <1>5, Jobs, TaskFacts
<1>7. Place(o) = "pool"
  BY <1>5, <1>6 DEF Place
<1>8. Place(o)' = "worker"
  <2>1. Works(o)'
    BY <1>1, <1>2, <1>3 DEF Works
  <2> QED
    BY <1>1, <1>6, <2>1 DEF Place
<1>9. ASSUME NEW p \in Clients \ {o} PROVE Untouched(p)
  <2>1. Works(p)' <=> Works(p)
    BY <1>1, <1>2, <1>3 DEF Works
  <2>2. Waits(p) => Waits(p)'
    <3>1. ASSUME NEW i \in 1 .. Len(pending), pending[i] = p PROVE Waits(p)'
      <4>1. i # 1 /\ i - 1 \in 1 .. Len(pending')
        BY <1>4, <3>1
      <4>2. pending'[i - 1] = pending[i]
        BY <1>4, <4>1
      <4> QED
        BY <3>1, <4>1, <4>2 DEF Waits
    <3> QED
      BY <3>1 DEF Waits
  <2>3. Waits(p)' => Waits(p)
    <3>1. ASSUME NEW i \in 1 .. Len(pending'), pending'[i] = p PROVE Waits(p)
      <4>1. i + 1 \in 1 .. Len(pending) /\ pending[i + 1] = p
        BY <1>4, <3>1
      <4> QED
        BY <4>1 DEF Waits
    <3> QED
      BY <3>1 DEF Waits
  <2> QED
    BY <1>1, <2>1, <2>2, <2>3 DEF Untouched
<1>10. H!Move(o, "pool", "worker")
  BY <1>7, <1>8, <1>9, Moved
<1>11. H!Start(w)
  BY <1>1, <1>3, <1>10 DEF H!Start
<1> QED
  BY <1>11 DEF H!Next

LEMMA TaskHandover ==
    ASSUME NEW w \in Workers, WorkerTask(w) \/ WorkerSend(w) PROVE UNCHANGED H!vars
<1>1. UNCHANGED <<users, heap, rAt, rFd, batch, reg, pending, running>>
  BY DEF WorkerTask, WorkerSend, kernelVars, objVars, reactorVars
<1>2. \A o \in Clients : Untouched(o)
  BY <1>1, SameTasks DEF Untouched
<1> QED
  BY <1>1, <1>2, Stutters

LEMMA RearmHandover == ASSUME IInv, Fates, NEW w \in Workers, WorkerRearm(w) PROVE H!Next
<1> USE Ids
<1>1. running \in [Workers -> Clients \cup {None}] /\ (running[w] = None <=> wAt[w] = "idle")
  BY DEF IInv, Types
<1>2. PICK o \in Clients : o = running[w]
  BY <1>1 DEF WorkerRearm
<1>3. PICK ev \in {"in", "out"} : Rearm(o, ev)
  BY <1>2 DEF WorkerRearm
<1>4. /\ ~crashed /\ running' = [running EXCEPT ![w] = None]
      /\ UNCHANGED <<users, heap, rAt, rFd, batch, pending>>
  BY DEF WorkerRearm, objVars, reactorVars
<1>5. Works(o)
  BY <1>2 DEF Works
<1>6. o \in Tasks
  BY <1>5, Jobs
<1>7. /\ fd[o] \in Fds /\ sok[o] = o /\ heap[o] = "live" /\ users[fd[o]] = o
      /\ reg[fd[o]] = "off"
  BY <1>6, TaskFacts
<1>8. PICK f \in Fds : f = fd[o]
  BY <1>7
<1>9. /\ \A g \in Fds : users[g] = o => g = f
      /\ ~InBatch(f) /\ ~(rFd = f /\ rAt \in InHand)
  BY <1>4, <1>6, <1>7, <1>8, KeyFacts
<1>10. reg' = [reg EXCEPT ![f] = ev] /\ reg \in [Fds -> {"none", "in", "out", "off"}]
  BY <1>3, <1>7, <1>8 DEF Rearm, IInv, Types
<1>11. ~Works(o)' /\ ~Waits(o)'
  <2>1. \A v \in Workers : v # w => running[v] # o
    BY <1>2 DEF IInv, Queued
  <2>2. \A i \in 1 .. Len(pending) : pending[i] # o
    BY <1>2 DEF IInv, Queued
  <2>3. ~Works(o)'
    BY <1>1, <1>4, <2>1 DEF Works
  <2> QED
    BY <1>4, <2>2, <2>3 DEF Waits
<1>12. Place(o) = "worker"
  BY <1>5, <1>7 DEF Place
<1>13. Place(o)' = ev
  <2>1. Place(o)' = ByKey(f)'
    BY <1>4, <1>7, <1>8, <1>9, <1>11, LocatedThen DEF Located
  <2>2. \A x : <<f, x>> \notin batch
    BY <1>9 DEF InBatch
  <2>3. reg'[f] = ev
    BY <1>10
  <2>4. ByKey(f)' = ev
    BY <1>4, <1>9, <2>2, <2>3 DEF ByKey, InHand
  <2> QED
    BY <2>1, <2>4
<1>14. ASSUME NEW p \in Clients \ {o} PROVE Untouched(p)
  <2>1. Works(p)' <=> Works(p)
    BY <1>1, <1>2, <1>4 DEF Works
  <2>2. Waits(p)' <=> Waits(p)
    BY <1>4 DEF Waits
  <2>3. \A g \in Fds : users[g] = p => reg'[g] = reg[g]
    BY <1>7, <1>8, <1>10
  <2> QED
    BY <1>4, <2>1, <2>2, <2>3 DEF Untouched
<1>15. H!Move(o, "worker", ev)
  BY <1>12, <1>13, <1>14, Moved
<1>16. H!GiveBack(w, ev)
  BY <1>2, <1>4, <1>15 DEF H!GiveBack
<1> QED
  BY <1>16 DEF H!Next

-----------------------------------------------------------------------------
LEMMA HandoverStep == ASSUME IInv, Fates, [Next]_vars PROVE H!Next \/ UNCHANGED H!vars
<1>1. CASE \/ \E c \in Clients : ClientSends(c) \/ ClientHangsUp(c) \/ ClientReads(c)
           \/ \E c \in Clients, f \in Fds : Accept(c, f)
           \/ UNCHANGED vars
  BY <1>1, ClientHandover
<1>2. CASE JoinStep
  BY <1>2, ClientHandover, EmplaceHandover, JoinAddHandover DEF JoinStep
<1>3. CASE EPollstart \/ EpollWait \/ Dispatch \/ DispatchOther \/ DispatchEnd
  BY <1>3, ClientHandover, WaitHandover, DispatchHandover, OtherHandover
<1>4. CASE RecvConfirm \/ RecvLen \/ RecvBody \/ AddTask \/ OnWrite
  BY <1>4, RecvHandover, AddTaskHandover, WriteHandover
<1>5. CASE CloseFd \/ CloseNull \/ Delete \/ Erase
  BY <1>5, CloseHandover, DeleteHandover, EraseHandover
<1>6. ASSUME NEW w \in Workers, WorkerStep(w) PROVE H!Next \/ UNCHANGED H!vars
  BY <1>6, StartHandover, TaskHandover, RearmHandover DEF WorkerStep
<1> QED
  BY <1>1, <1>2, <1>3, <1>4, <1>5, <1>6 DEF Next, ReactorStep

(* EPOLLONESHOT makes an object pass from hand to hand as Handover says, for *)
(* any number of clients, descriptors and workers, in both builds.           *)
THEOREM ReactorImplementsHandover == Spec => ImplementsHandover
<1>1. Init => H!Init
  <2> SUFFICES ASSUME Init PROVE H!Init
    OBVIOUS
  <2>1. \A o \in Clients : Place(o) = "nobody"
    BY DEF Init, Place
  <2>2. pending = <<>> /\ running = [w \in Workers |-> None]
    BY DEF Init
  <2> QED
    BY <2>1, <2>2 DEF H!Init
<1>2. IInv /\ Fates /\ [Next]_vars => [H!Next]_(H!vars)
  BY HandoverStep
<1>3. IInv /\ Fates /\ [Next]_vars => IInv' /\ Fates'
  BY NextIInv, FatesStep
<1> QED
  BY <1>1, <1>2, <1>3, InitIInv, InitFates, PTL DEF Spec, H!Spec, ImplementsHandover
=============================================================================
