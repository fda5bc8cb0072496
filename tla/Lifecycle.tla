----------------------------- MODULE Lifecycle -----------------------------
(* How the server starts and stops: main() and term() in main.cpp, the loops *)
(* of all reactors with EPollstart and stop() (src/LReactor/Reactor.cpp,     *)
(* include/LReactor/Reactor.h), TcpServer::stop, and the static destructors  *)
(* that run after main() has returned: ~SubReactorThreadPool and ~SubReactor.*)
(* The descriptors of the process are what all of them share.  Nobody joins  *)
(* the threads of the sub-reactors, which are detached.                      *)
(*                                                                           *)
(* The model begins after startLogger and startMySqlConnectPool and has one  *)
(* SIGINT.  A batch has one event; what a handler does with the frame is in  *)
(* SubReactor.  The calls to the log may block term() for ever; when they do *)
(* is in Logger.  What follows an access to a deleted object or through a    *)
(* null pointer is undefined, and the model goes no further.                 *)
EXTENDS Integers, FiniteSetsExt

CONSTANTS Subs,         \* SUBREACTOR_THREAD_MAX_NUM
          Clients,      \* clients that may connect
          Fds,          \* descriptors of the process
          Garbage       \* values of a member that is not initialised

ASSUME SubsAssumption == Subs \in Nat \ {0}
ASSUME FdsAssumption == /\ IsFiniteSet(Fds) /\ Fds \subseteq Nat /\ Garbage \subseteq Fds
                        /\ IsFiniteSet(Clients)

Reactors == 0 .. Subs        \* 0 is the main reactor
Main == 0
Free == <<>>
Epoll(r) == <<"epoll", r>>
Client(c) == <<"client", c>>
Owners == {Free, <<"listen">>, <<"mysql">>} \cup {Epoll(r) : r \in Reactors}
             \cup {Client(c) : c \in Clients}

(* The process never runs out of descriptors.                                *)
ASSUME EnoughAssumption == Cardinality(Fds) >= Cardinality(Owners \ {Free})

VARIABLES
    own,                  \* own[f]: what descriptor f stands for
    epfd, quit,           \* members of the reactors
    at,                   \* where the thread of a reactor stands
    set,                  \* whose epoll set the thread waits on
    late,                 \* batches of events a reactor got after quit was set
    live,                 \* sub-reactors that are not destroyed
    h,                    \* the place of term() on the stack of the main thread
    d,                    \* the place of the destructor of the pool
    place, home, mon,     \* a connection, its sub-reactor, the set it is in
    reconnected,          \* a worker has opened its MySQL connection again
    wrong,                \* who used or closed a descriptor of somebody else
    touched               \* somebody used a deleted object or a null pointer

conns == <<place, home, mon>>
flags == <<reconnected, wrong, touched>>
waits == <<set, late>>
vars == <<own, epfd, quit, at, live, h, d, conns, waits, flags>>

Stops == 2 * (Subs + 1)      \* steps of stop() for all the reactors
Logging == Stops + 1         \* the calls to the log
Sleeping == Stops + 2
Back == Stops + 3            \* term() has returned

TypeOK == /\ own \in [Fds -> Owners]
          /\ epfd \in [Reactors -> Fds]
          /\ quit \in [Reactors -> BOOLEAN]
          /\ at \in [Reactors -> {"epoll", "listen", "test", "call", "wait", "accept",
                                  "join", "batch", "destroy", "stop", "delete", "ended"}]
          /\ live \subseteq Reactors
          /\ h \in 0 .. Back
          /\ d \in 0 .. Stops
          /\ place \in [Clients -> {"new", "pending", "accepted", "armed", "event", "job",
                                    "deaf", "gone"}]
          /\ home \in [Clients -> Reactors]
          /\ mon \in [Clients -> Reactors]
          /\ reconnected \in BOOLEAN /\ touched \in BOOLEAN
          /\ set \in [Reactors -> Reactors] /\ late \in [Reactors -> Nat]
          /\ wrong \subseteq {"early", "term", "exit"}

(* epfd is not initialised before EPollstart.                                *)
Init == /\ own = [f \in Fds |-> IF f = Min(Fds) THEN <<"mysql">> ELSE Free]
        /\ epfd \in [Reactors -> Garbage]
        /\ quit = [r \in Reactors |-> FALSE]
        /\ at = [r \in Reactors |-> "epoll"]
        /\ live = Reactors \ {Main}
        /\ h = 0 /\ d = 0
        /\ place = [c \in Clients |-> "new"]
        /\ home = [c \in Clients |-> Main] /\ mon = [c \in Clients |-> Main]
        /\ reconnected = FALSE /\ wrong = {} /\ touched = FALSE
        /\ set = [r \in Reactors |-> r] /\ late = [r \in Reactors |-> 0]

(* The process runs, and its main thread is not in the signal handler.       *)
Alive == ~touched /\ at[Main] # "ended"
Runs(r) == Alive /\ (r = Main => h \in {0, Back})
Goto(r, from, to) == Runs(r) /\ at[r] = from /\ at' = [at EXCEPT ![r] = to]

(* The kernel gives out the lowest free descriptor.                          *)
NewFd(o) == Min({f \in Fds : o[f] = Free})
With(o, x) == [o EXCEPT ![NewFd(o)] = x]
Without(x) == [f \in Fds |-> IF own[f] = x THEN Free ELSE own[f]]
-----------------------------------------------------------------------------
(* The loops of the reactors.                                                *)
EPollstart(r) == /\ Goto(r, "epoll", IF r = Main THEN "listen" ELSE "test")
                 /\ epfd' = [epfd EXCEPT ![r] = NewFd(own)]
                 /\ own' = With(own, Epoll(r))
                 /\ UNCHANGED <<quit, live, h, d, conns, waits, flags>>

listens == /\ Goto(Main, "listen", "test")
           /\ own' = With(own, <<"listen">>)
           /\ UNCHANGED <<epfd, quit, live, h, d, conns, waits, flags>>

(* while(!quit)                                                              *)
After_bug(r) == "call"       \* the loop does not look at quit
After(r) == CASE ~quit[r] -> "call"
              [] quit[r] /\ r = Main -> "destroy"
              [] OTHER -> "ended"

Test(r) == /\ Goto(r, "test", After(r))
           /\ UNCHANGED <<own, epfd, quit, live, h, d, conns, waits, flags>>

(* epoll_wait fails on a descriptor that is no epoll set any more.  When     *)
(* another reactor has made its set under the number meanwhile, it waits on  *)
(* that one.  A call that has begun goes on when the set is closed.          *)
EpollWait(r) ==
    \/ \E m \in Reactors : /\ own[epfd[r]] = Epoll(m)
                          /\ Goto(r, "call", "wait")
                          /\ set' = [set EXCEPT ![r] = m]
                          /\ UNCHANGED <<own, epfd, quit, live, h, d, conns, late, flags>>
    \/ /\ \A m \in Reactors : own[epfd[r]] # Epoll(m)
       /\ Goto(r, "call", "test")
       /\ UNCHANGED <<own, epfd, quit, live, h, d, conns, waits, flags>>

(* A batch of events wakes a reactor.                                        *)
Woken(r, to) == /\ Goto(r, "wait", to)
                /\ late' = [late EXCEPT ![r] = IF quit[r] THEN @ + 1 ELSE @]

Connect(c) == /\ place[c] = "new" /\ set[Main] = Main
              /\ Woken(Main, "accept")
              /\ place' = [place EXCEPT ![c] = "pending"]
              /\ UNCHANGED <<own, epfd, quit, live, h, d, home, mon, set, flags>>

(* handleAccept: a descriptor for the client, and a sub-reactor for it.      *)
Accept(c) == /\ place[c] = "pending"
             /\ Goto(Main, "accept", "join")
             /\ own' = With(own, Client(c))
             /\ place' = [place EXCEPT ![c] = "accepted"]
             /\ \E r \in 1 .. Subs : home' = [home EXCEPT ![c] = r]
             /\ UNCHANGED <<epfd, quit, live, h, d, mon, waits, flags>>

(* joinEPollEvent adds the client to whatever epoll set has the number epfd  *)
(* by now.  Without one nobody looks at the error, and the client is never   *)
(* heard.                                                                    *)
Join(c) ==
    /\ place[c] = "accepted"
    /\ Goto(Main, "join", "test")
    /\ \/ \E m \in Reactors : /\ own[epfd[home[c]]] = Epoll(m)
                              /\ place' = [place EXCEPT ![c] = "armed"]
                              /\ mon' = [mon EXCEPT ![c] = m]
       \/ /\ \A m \in Reactors : own[epfd[home[c]]] # Epoll(m)
          /\ place' = [place EXCEPT ![c] = "deaf"]
          /\ UNCHANGED mon
    /\ wrong' = IF at[home[c]] = "epoll" THEN wrong \cup {"early"} ELSE wrong
    /\ UNCHANGED <<own, epfd, quit, live, h, d, home, waits, reconnected, touched>>

(* A client sends or hangs up: its reactor wakes up.                         *)
Heard(c, r) == /\ place[c] = "armed" /\ set[r] = mon[c]
               /\ \E f \in Fds : own[f] = Client(c)

Event(c) == /\ Heard(c, home[c])
            /\ Woken(home[c], "batch")
            /\ place' = [place EXCEPT ![c] = "event"]
            /\ UNCHANGED <<own, epfd, quit, live, h, d, home, mon, set, flags>>

(* A reactor on somebody else's set gets a descriptor it does not know, that *)
(* of a client or the one that listens: users[fd] is a null pointer.         *)
Stranger(r) ==
    /\ Runs(r) /\ at[r] = "wait"
    /\ \/ \E c \in Clients : Heard(c, r) /\ home[c] # r
       \/ /\ set[r] = Main /\ \E f \in Fds : own[f] = <<"listen">>
          /\ \E c \in Clients : place[c] = "new"
    /\ touched' = TRUE
    /\ UNCHANGED <<own, epfd, quit, at, live, h, d, conns, waits, reconnected, wrong>>

(* on_read: the object goes to the pool, or the connection is closed.        *)
Batch(c) ==
    /\ place[c] = "event"
    /\ Goto(home[c], "batch", "test")
    /\ touched' = (home[c] \notin live)
    /\ \/ place' = [place EXCEPT ![c] = "job"] /\ UNCHANGED own
       \/ place' = [place EXCEPT ![c] = "gone"] /\ own' = Without(Client(c))
    /\ UNCHANGED <<epfd, quit, live, h, d, home, mon, waits, reconnected, wrong>>
-----------------------------------------------------------------------------
(* The workers.  The last thing task() does is to arm the client again, in   *)
(* the set it is in, if that is open.                                        *)
Task(c) ==
    /\ Alive /\ place[c] = "job"
    /\ touched' = (home[c] \notin live)
    /\ place' = [place EXCEPT ![c] =
                    IF \E f \in Fds : own[f] = Epoll(mon[c]) THEN "armed" ELSE "deaf"]
    /\ UNCHANGED <<own, epfd, quit, at, live, h, d, home, mon, waits, reconnected, wrong>>

(* In the middle of a job MysqlHelper::connect closes the connection to      *)
(* MySQL and opens it again, at most once here.                              *)
Reconnect(c) ==
    /\ Alive /\ place[c] = "job" /\ ~reconnected
    /\ reconnected' = TRUE
    /\ own' = With(Without(<<"mysql">>), <<"mysql">>)
    /\ UNCHANGED <<epfd, quit, at, live, h, d, conns, waits, wrong, touched>>
-----------------------------------------------------------------------------
(* stop() of one reactor in two steps: quit = true, and close(epfd), which   *)
(* closes whatever has that number.                                          *)
StopLoop_bug(r) == UNCHANGED <<quit, own, wrong>>    \* quit is not set
StopLoop(r) == /\ quit' = [quit EXCEPT ![r] = TRUE]
               /\ UNCHANGED <<own, wrong>>

EPollstop(r, who) ==
    /\ own' = [own EXCEPT ![epfd[r]] = Free]
    /\ wrong' = IF own[epfd[r]] \in {Free, Epoll(r)} THEN wrong
                ELSE wrong \cup {IF at[r] = "epoll" THEN "early" ELSE who}
    /\ UNCHANGED quit

Stop(k, r, who) == IF k % 2 = 1 THEN StopLoop(r) ELSE EPollstop(r, who)

(* term() on the stack of the main thread: LOGINFO, then the main reactor    *)
(* and the sub-reactors in their order.                                      *)
Signal == /\ Runs(Main) /\ h = 0
          /\ h' = 1
          /\ UNCHANGED <<own, epfd, quit, at, live, d, conns, waits, flags>>

Stopped_bug(k) == (k - 1) \div 3     \* reactors are stopped more than once
Stopped(k) == (k - 1) \div 2

Term == /\ Alive /\ h \in 1 .. Stops
        /\ Stop(h, Stopped(h), "term")
        /\ h' = h + 1
        /\ UNCHANGED <<epfd, at, live, d, conns, waits, reconnected, touched>>

(* LOGINFO and Logger::Stop.                                                 *)
LogStop == /\ Alive /\ h = Logging
           /\ h' = Sleeping
           /\ UNCHANGED <<own, epfd, quit, at, live, d, conns, waits, flags>>

(* sleep(5) waits for nobody: reactors and workers stand where they stand.   *)
(* epoll_wait, when that was interrupted, returns with EINTR.                *)
Wake == /\ Alive /\ h = Sleeping
        /\ h' = Back
        /\ at' = [at EXCEPT ![Main] = IF @ = "wait" THEN "test" ELSE @]
        /\ UNCHANGED <<own, epfd, quit, live, d, conns, waits, flags>>
-----------------------------------------------------------------------------
(* The end of MainReactor::loop and of main(), then the static destructors:  *)
(* the pool stops its reactors a second time ...                             *)
Destroy == /\ Goto(Main, "destroy", "stop")
           /\ own' = Without(<<"listen">>)
           /\ d' = 1
           /\ UNCHANGED <<epfd, quit, live, h, conns, waits, flags>>

StopAgain == /\ Goto(Main, "stop", IF d = 2 * Subs THEN "delete" ELSE "stop")
             /\ Stop(d, (d + 1) \div 2, "exit")
             /\ d' = IF d = 2 * Subs THEN Subs ELSE d + 1
             /\ UNCHANGED <<epfd, live, h, conns, waits, reconnected, touched>>

(* ... and destroys them, the last one first, each with all its objects, the *)
(* ones somebody still works on included.                                    *)
Held(c) == home[c] = d /\ place[c] \in {"armed", "deaf", "event", "job"}
Gone(c) == Held(c) /\ place[c] \in {"armed", "deaf"}

Delete ==
    /\ Goto(Main, "delete", IF d = 1 THEN "ended" ELSE "delete")
    /\ live' = live \ {d}
    /\ own' = [f \in Fds |-> IF \E c \in Clients : Held(c) /\ own[f] = Client(c)
                             THEN Free ELSE own[f]]
    /\ place' = [c \in Clients |-> IF Gone(c) THEN "gone" ELSE place[c]]
    /\ d' = d - 1
    /\ UNCHANGED <<epfd, quit, h, home, mon, waits, flags>>
-----------------------------------------------------------------------------
Loop(r) == EPollstart(r) \/ Test(r) \/ EpollWait(r)

MainStep == \/ Loop(Main) \/ listens
            \/ \E c \in Clients : Accept(c) \/ Join(c)
            \/ Destroy \/ StopAgain \/ Delete
            \/ Term \/ LogStop \/ Wake

Worker(c) == Task(c) \/ Reconnect(c)

Next == \/ MainStep \/ Signal
        \/ \E r \in 1 .. Subs : Loop(r) \/ Stranger(r)
        \/ \E c \in Clients : Connect(c) \/ Event(c) \/ Batch(c) \/ Worker(c)

Spec == Init /\ [][Next]_vars

(* The threads run; clients and the user do what they like.  Nothing says    *)
(* that the calls to the log return, the first thing term() does and the     *)
(* last before the sleep.                                                    *)
InLog == h \in {1, Logging}

FairSpec == /\ Spec
            /\ WF_vars(MainStep /\ ~InLog)
            /\ \A r \in 1 .. Subs : WF_vars(Loop(r))
            /\ \A c \in Clients : WF_vars(Batch(c)) /\ WF_vars(Task(c))
-----------------------------------------------------------------------------
(* A reactor handles at most one batch of events after its quit was set,     *)
(* wherever stop() meets its thread: between the test of quit and            *)
(* epoll_wait, in the wait, in a batch, or before it has made its set.       *)
AtMostOneLateBatch == \A r \in Reactors : late[r] <= 1

(* term() closes nobody's descriptor but those of the epoll sets, whatever   *)
(* the workers open meanwhile.  Only the destructor of the pool, which stops *)
(* the reactors again, and a SIGINT before EPollstart do.                    *)
TermClosesOwn == "term" \in wrong => "early" \in wrong

(* After a SIGINT at any moment main() returns and the process ends, though  *)
(* sub-reactors may still wait for clients on epoll sets that are closed.    *)
(* It does not when the log never lets term() go, or a thread uses what is   *)
(* destroyed, or main waits on a set that a late sub-reactor has made under  *)
(* the number of its own, which term() had closed.                           *)
Stuck == InLog \/ (at[Main] = "wait" /\ set[Main] # Main)
ShutdownEnds == h # 0 ~> (at[Main] = "ended" \/ touched \/ []Stuck)
=============================================================================
