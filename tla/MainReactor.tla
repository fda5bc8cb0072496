---------------------------- MODULE MainReactor ----------------------------
(* The main thread: MainReactor::loop (src/LReactor/Reactor.cpp) over the    *)
(* edge-triggered listening socket, Acceptor::handleAccept with the black    *)
(* list of Protect, and SubReactorThreadPool::roundRobin, which gives the    *)
(* connection to a sub-reactor.  Of the sub-reactors there is what the main  *)
(* thread sees: their activeNumber, a plain int that both threads count, and *)
(* what they put on the black list.                                          *)
EXTENDS Integers, Sequences, FiniteSets

CONSTANTS Conns,        \* the connections clients may open
          Addrs,        \* their addresses
          From,         \* From[c]: the address of connection c
          Subs,         \* SUBREACTOR_THREAD_MAX_NUM
          MaxReq,       \* bound on the requests of all clients together
          None

ASSUME FromAssumption == From \in [Conns -> Addrs]
ASSUME SubsAssumption == Subs \in Nat \ {0} /\ MaxReq \in Nat
ASSUME NoneAssumption == None \notin Conns \cup Int

Reactors == 0 .. Subs - 1

VARIABLES
    at,                   \* where the main thread stands
    client,               \* the connection that handleAccept works on
    backlog, ready,       \* the kernel: connections to accept, a pending event
    place,                \* what became of a connection
    home,                 \* the sub-reactor it was given to
    blacklist,            \* Protect
    load,                 \* load[i]: activeNumber of sub-reactor i
    sum,                  \* sum[i]: what the thread of sub-reactor i will store there
    mine,                 \* what the main thread will store
    last,                 \* of SubReactorThreadPool
    i, min_load_idx, min_load_reqs,   \* the locals of roundRobin
    requests, replies,    \* requests so far, and those on_write replied to
    still,                \* history: no load changed since the scan began
    slipped,              \* history: connections handed over although listed
    burst,                \* history: two arrivals have shared an event
    crashed

clientVars == <<place, home, blacklist, requests, replies>>
kernelVars == <<backlog, ready>>
scanVars == <<last, i, min_load_idx, min_load_reqs>>
loadVars == <<load, sum, mine>>
histVars == <<slipped, burst, crashed>>
vars == <<at, client, kernelVars, clientVars, loadVars, scanVars, still, histVars>>

TypeOK == /\ at \in {"listen", "addfd", "wait", "accept", "check", "scan", "join", "store"}
          /\ client \in Conns \cup {None}
          /\ backlog \in Seq(Conns) /\ ready \in BOOLEAN
          /\ place \in [Conns -> {"new", "backlog", "hand", "refused", "joined",
                                  "closed"}]
          /\ home \in [Conns -> Reactors \cup {None}]
          /\ blacklist \subseteq Addrs
          /\ load \in [Reactors -> Int]   \* a lost update may take it below zero
          /\ sum \in [Reactors -> Int \cup {None}]
          /\ mine \in Int \cup {None}
          /\ {last, min_load_idx} \subseteq Reactors
          /\ i \in 0 .. Subs
          /\ min_load_reqs \in Int
          /\ requests \in 0 .. MaxReq /\ replies \in 0 .. MaxReq
          /\ {still, burst, crashed} \subseteq BOOLEAN
          /\ slipped \subseteq Conns

(* The port is bound; no sub-reactor has a connection.                       *)
Init == /\ at = "listen" /\ client = None
        /\ backlog = <<>> /\ ready = FALSE
        /\ place = [c \in Conns |-> "new"]
        /\ home = [c \in Conns |-> None]
        /\ blacklist = {}
        /\ load = [r \in Reactors |-> 0]
        /\ sum = [r \in Reactors |-> None] /\ mine = None
        /\ last = 0 /\ i = 0 /\ min_load_idx = 0 /\ min_load_reqs = 0
        /\ requests = 0 /\ replies = 0
        /\ still = TRUE /\ slipped = {} /\ burst = FALSE /\ crashed = FALSE

Goto(from, to) == ~crashed /\ at = from /\ at' = to
-----------------------------------------------------------------------------
(* listens(): from listen() on connections may arrive; EPOLL_CTL_ADD reports *)
(* those that are there already.                                             *)
Listen == /\ Goto("listen", "addfd")
          /\ UNCHANGED <<client, kernelVars, clientVars, loadVars, scanVars, still,
                         histVars>>

AddListenFd == /\ Goto("addfd", "wait")
               /\ ready' = (backlog # <<>>)
               /\ UNCHANGED <<client, backlog, clientVars, loadVars, scanVars, still,
                              histVars>>

(* A client connects.  EPOLLET without EPOLLONESHOT: every arrival makes an  *)
(* event, unless one is pending already.                                     *)
Reports_oneshot ==          \* registered with EPOLLONESHOT
    at # "addfd" /\ \A c \in Conns : place[c] \in {"new", "backlog"}
Reports == at # "addfd"

Connect(c) == /\ ~crashed
              /\ place[c] = "new" /\ at # "listen"
              /\ place' = [place EXCEPT ![c] = "backlog"]
              /\ backlog' = Append(backlog, c)
              /\ ready' = (ready \/ Reports)
              /\ burst' = (burst \/ ready \/ (at = "addfd" /\ backlog # <<>>))
              /\ UNCHANGED <<at, client, home, blacklist, requests, replies, loadVars,
                             scanVars, still, slipped, crashed>>

(* epoll_wait returns the one event of the listening socket and forgets it.  *)
EpollWait == /\ ready /\ backlog # <<>>
             /\ Goto("wait", "accept")
             /\ ready' = FALSE
             /\ UNCHANGED <<client, backlog, clientVars, loadVars, scanVars, still,
                            histVars>>

(* handleAccept: one accept per event.  When it fails, for want of           *)
(* descriptors, say, the null pointer is used for the address.               *)
Accept == /\ \/ /\ Goto("accept", "check")
                /\ client' = Head(backlog)
                /\ backlog' = Tail(backlog)
                /\ place' = [place EXCEPT ![client'] = "hand"]
                /\ UNCHANGED crashed
             \/ /\ Goto("accept", "wait")
                /\ crashed' = TRUE
                /\ UNCHANGED <<client, backlog, place>>
          /\ UNCHANGED <<ready, home, blacklist, requests, replies, loadVars, scanVars,
                         still, slipped, burst>>

Address == From[client]
start == (last + 1) % Subs

(* A listed address is turned away; otherwise roundRobin starts with the     *)
(* reactor after the last one.                                               *)
Listed_bug == FALSE         \* the black list is not asked
Listed == Address \in blacklist

Refuse == /\ Goto("check", "wait")
          /\ Listed
          /\ place' = [place EXCEPT ![client] = "refused"]
          /\ client' = None
          /\ UNCHANGED <<kernelVars, home, blacklist, requests, replies, loadVars, scanVars,
                         still, histVars>>

Admit == /\ Goto("check", "scan")
         /\ ~Listed
         /\ i' = 0
         /\ min_load_idx' = start
         /\ min_load_reqs' = load[start]
         /\ still' = TRUE
         /\ UNCHANGED <<client, kernelVars, clientVars, loadVars, last, histVars>>

(* One round of the loop reads the load of one reactor, which may change     *)
(* before the next round; a load of zero ends the loop.                      *)
idx == (start + i) % Subs
Smaller_bug == load[idx] <= min_load_reqs   \* the last of the least loaded
Smaller == load[idx] < min_load_reqs
Rounds == Subs

Scan == /\ i < Rounds
        /\ Goto("scan", IF Smaller /\ load[idx] = 0 THEN "join" ELSE "scan")
        /\ i' = i + 1
        /\ IF Smaller
           THEN min_load_idx' = idx /\ min_load_reqs' = load[idx]
           ELSE UNCHANGED <<min_load_idx, min_load_reqs>>
        /\ UNCHANGED <<client, kernelVars, clientVars, loadVars, last, still, histVars>>

ScanEnd == /\ i = Rounds
           /\ Goto("scan", "join")
           /\ UNCHANGED <<client, kernelVars, clientVars, loadVars, scanVars, still,
                          histVars>>

(* last = min_load_idx, and joinEPollEvent of that reactor: activeNumber++   *)
(* takes a load and a store; then the connection is monitored and the locals *)
(* of the scan are gone.                                                     *)
Join == /\ Goto("join", "store")
        /\ last' = min_load_idx
        /\ mine' = load[min_load_idx] + 1
        /\ UNCHANGED <<client, kernelVars, clientVars, load, sum, i, min_load_idx,
                       min_load_reqs, still, histVars>>

JoinStore ==
    /\ Goto("store", "wait")
    /\ load' = [load EXCEPT ![min_load_idx] = mine]
    /\ mine' = None
    /\ place' = [place EXCEPT ![client] = "joined"]
    /\ home' = [home EXCEPT ![client] = min_load_idx]
    /\ slipped' = IF Address \in blacklist THEN slipped \cup {client} ELSE slipped
    /\ client' = None /\ i' = 0 /\ min_load_idx' = 0 /\ min_load_reqs' = 0
    /\ still' = TRUE
    /\ UNCHANGED <<kernelVars, blacklist, requests, replies, sum, last, burst, crashed>>

MainStep == \/ Listen \/ AddListenFd \/ EpollWait \/ Accept \/ Refuse \/ Admit
            \/ Scan \/ ScanEnd \/ Join \/ JoinStore
-----------------------------------------------------------------------------
(* A sub-reactor, on connection c: a request counts one more; with           *)
(* ENABLE_WRITE the reply to it one less; the end of the connection one      *)
(* less; a wrong confirm puts the address on the black list and ends the     *)
(* connection.                                                               *)
Handle(c, delta) ==
    /\ ~crashed
    /\ place[c] = "joined" /\ sum[home[c]] = None
    /\ sum' = [sum EXCEPT ![home[c]] = load[home[c]] + delta]
    /\ UNCHANGED <<at, client, kernelVars, home, load, mine, scanVars, still,
                   histVars>>

Request(c) == /\ requests < MaxReq
              /\ Handle(c, 1)
              /\ requests' = requests + 1
              /\ UNCHANGED <<place, blacklist, replies>>

Reply(c) == /\ replies < requests
            /\ Handle(c, -1)
            /\ replies' = replies + 1
            /\ UNCHANGED <<place, blacklist, requests>>

HangUp(c) == /\ Handle(c, -1)
             /\ place' = [place EXCEPT ![c] = "closed"]
             /\ blacklist' \in {blacklist, blacklist \cup {From[c]}}
             /\ UNCHANGED <<requests, replies>>

CountStore(r) == /\ ~crashed
                 /\ sum[r] # None
                 /\ load' = [load EXCEPT ![r] = sum[r]]
                 /\ sum' = [sum EXCEPT ![r] = None]
                 /\ still' = FALSE
                 /\ UNCHANGED <<at, client, kernelVars, clientVars, mine, scanVars,
                                histVars>>

Next == \/ MainStep
        \/ \E c \in Conns : Connect(c) \/ Request(c) \/ Reply(c) \/ HangUp(c)
        \/ \E r \in Reactors : CountStore(r)

Spec == Init /\ [][Next]_vars

(* The main thread runs.  Clients connect and hang up as they like.          *)
FairSpec == Spec /\ WF_vars(MainStep)
-----------------------------------------------------------------------------
(* roundRobin picks the first of the least loaded reactors, counting from    *)
(* the one after the last pick, when no load changes under the scan: equal   *)
(* loads are served in turn.  The break at zero overlooks nothing but a      *)
(* count that lost updates have taken below zero.                            *)
Distance(r) == (r + Subs - start) % Subs

LeastLoaded == at = "join" /\ still =>
    \A r \in Reactors : /\ load[min_load_idx] <= load[r] \/ load[min_load_idx] = 0
                        /\ load[r] = load[min_load_idx] =>
                              Distance(min_load_idx) <= Distance(r)

(* The black list is asked once, before the scan: of each address at most    *)
(* one connection gets through to a reactor after the address was listed.    *)
AtMostOneSlips == \A c, d \in slipped : From[c] = From[d] => c = d

(* One accept per event is enough as long as every arrival has an event of   *)
(* its own: then every connection is accepted, whatever the main thread was  *)
(* doing when it came.                                                       *)
AcceptedUnlessBurst == \A c \in Conns :
    place[c] = "backlog" ~> (place[c] # "backlog" \/ burst \/ crashed)
=============================================================================
