------------------------- MODULE MainReactor_proofs -------------------------
(* The safety of MainReactor for any number of connections, addresses and    *)
(* sub-reactors: whom roundRobin picks, and what the black list lets through.*)
EXTENDS MainReactor, TLAPS

LEMMA Ids == /\ Subs \in Nat /\ Subs > 0 /\ MaxReq \in Nat
             /\ None \notin Conns /\ None \notin Int /\ None \notin Reactors
             /\ 0 \in Reactors /\ Reactors \subseteq Int
             /\ From \in [Conns -> Addrs]
  BY FromAssumption, SubsAssumption, NoneAssumption DEF Reactors

(* Counting round the ring of the reactors.                                  *)
LEMMA Ring ==
    ASSUME NEW n \in Nat \ {0}, NEW a \in 0 .. n + n - 1
    PROVE  a % n = IF a < n THEN a ELSE a - n
<1>1. a - n \in Int
  OBVIOUS
<1>2. CASE a < n
  BY <1>2
<1>3. CASE a >= n
  BY <1>3
<1> QED
  BY <1>2, <1>3

D(r, s) == (r + Subs - s) % Subs

LEMMA Distances ==
    ASSUME NEW s \in Reactors
    PROVE  /\ \A r \in Reactors : D(r, s) \in 0 .. Subs - 1
           /\ \A q, r \in Reactors : D(q, s) = D(r, s) => q = r
           /\ D(s, s) = 0
           /\ \A k \in 0 .. Subs - 1 : (s + k) % Subs \in Reactors
                                       /\ D((s + k) % Subs, s) = k
<1> USE Ids
<1>1. ASSUME NEW r \in Reactors
      PROVE  D(r, s) = IF r < s THEN r + Subs - s ELSE r - s
  <2>1. r + Subs - s \in 0 .. Subs + Subs - 1
    BY DEF Reactors
  <2> QED
    BY <2>1, Ring DEF D, Reactors
<1>2. ASSUME NEW k \in 0 .. Subs - 1
      PROVE  (s + k) % Subs = IF s + k < Subs THEN s + k ELSE s + k - Subs
  BY Ring DEF Reactors
<1>3. ASSUME NEW k \in 0 .. Subs - 1
      PROVE  (s + k) % Subs \in Reactors
  BY <1>2 DEF Reactors
<1>4. ASSUME NEW k \in 0 .. Subs - 1
      PROVE  D((s + k) % Subs, s) = k
  BY <1>1, <1>2, <1>3 DEF Reactors
<1>5. \A r \in Reactors : D(r, s) \in 0 .. Subs - 1
  BY <1>1 DEF Reactors
<1>6. \A q, r \in Reactors : D(q, s) = D(r, s) => q = r
  BY <1>1 DEF Reactors
<1>7. D(s, s) = 0
  BY <1>1 DEF Reactors
<1> QED
  BY <1>3, <1>4, <1>5, <1>6, <1>7
-----------------------------------------------------------------------------
(* The inductive invariant.  Where the main thread has a client, and when    *)
(* the variables with None have a number.                                    *)
Places == /\ at \in {"check", "scan", "join", "store"} => client \in Conns
          /\ at = "accept" => backlog # <<>>
          /\ at = "store" => mine \in Int
          /\ \A c \in Conns : place[c] = "joined" => home[c] \in Reactors

(* The address of the connection that is on its way to a reactor was not     *)
(* listed when the scan began, so no connection from there has slipped yet.  *)
Slip == /\ AtMostOneSlips
        /\ \A c \in slipped : From[c] \in blacklist
        /\ at \in {"scan", "join", "store"} =>
              \A c \in slipped : From[c] # From[client]

(* The pick is the best of the reactors that the scan has seen, and the      *)
(* first of them.                                                            *)
Best == /\ min_load_reqs = load[min_load_idx]
        /\ \A r \in Reactors : Distance(r) < Distance(min_load_idx)
                                  => load[r] > min_load_reqs

Scanned == /\ at = "scan" /\ still =>
                 /\ Best
                 /\ Distance(min_load_idx) = 0 \/ Distance(min_load_idx) < i
                 /\ \A r \in Reactors : Distance(r) < i => load[r] >= min_load_reqs
           /\ at = "join" /\ still =>
                 /\ Best
                 /\ \/ min_load_reqs = 0
                    \/ \A r \in Reactors : load[r] >= min_load_reqs

IInv == TypeOK /\ Places /\ Slip /\ Scanned

(* The bound port and the idle reactors establish the inductive invariant.   *)
LEMMA InitIInv == Init => IInv
<1> SUFFICES ASSUME Init PROVE IInv
  OBVIOUS
<1> USE Ids
<1>1. /\ place \in [Conns -> {"new", "backlog", "hand", "refused", "joined", "closed"}]
      /\ home \in [Conns -> Reactors \cup {None}]
  BY DEF Init
<1>2. load \in [Reactors -> Int] /\ sum \in [Reactors -> Int \cup {None}]
  BY DEF Init
<1>3. backlog \in Seq(Conns) /\ i \in 0 .. Subs /\ requests \in 0 .. MaxReq
      /\ replies \in 0 .. MaxReq
  BY DEF Init
<1>4. TypeOK
  BY <1>1, <1>2, <1>3 DEF Init, TypeOK
<1>5. Places /\ Slip /\ Scanned
  BY DEF Init, Places, Slip, AtMostOneSlips, Scanned
<1> QED
  BY <1>4, <1>5 DEF IInv

(* What the scan knows depends on its locals and the loads only.             *)
LEMMA ScanFrame ==
    ASSUME Scanned, UNCHANGED <<last, i, min_load_idx, min_load_reqs, load>>,
           at' \in {"scan", "join"} /\ still' => at' = at /\ still
    PROVE  Scanned'
  BY DEF Scanned, Best, Distance, start
-----------------------------------------------------------------------------
(* The main thread outside the scan.                                         *)
LEMMA ListenIInv == ASSUME IInv, Listen \/ AddListenFd \/ EpollWait PROVE IInv'
<1> USE Ids DEF IInv
<1>1. CASE Listen
  <2>1. TypeOK' /\ Places' /\ Slip'
    BY <1>1 DEF Listen, Goto, kernelVars, clientVars, loadVars, scanVars, histVars,
                TypeOK, Places, Slip, AtMostOneSlips
  <2> QED
    BY <1>1, <2>1, ScanFrame DEF Listen, Goto, loadVars, scanVars
<1>2. CASE AddListenFd
  <2>1. TypeOK' /\ Places' /\ Slip'
    BY <1>2 DEF AddListenFd, Goto, clientVars, loadVars, scanVars, histVars,
                TypeOK, Places, Slip, AtMostOneSlips
  <2> QED
    BY <1>2, <2>1, ScanFrame DEF AddListenFd, Goto, loadVars, scanVars
<1>3. CASE EpollWait
  <2>1. TypeOK' /\ Places' /\ Slip'
    BY <1>3 DEF EpollWait, Goto, clientVars, loadVars, scanVars, histVars,
                TypeOK, Places, Slip, AtMostOneSlips
  <2> QED
    BY <1>3, <2>1, ScanFrame DEF EpollWait, Goto, loadVars, scanVars
<1> QED
  BY <1>1, <1>2, <1>3

LEMMA AcceptIInv == ASSUME IInv, Accept \/ Refuse PROVE IInv'
<1> USE Ids DEF IInv
<1>1. CASE Refuse
  <2>1. TypeOK' /\ Places' /\ Slip'
    BY <1>1 DEF Refuse, Goto, kernelVars, loadVars, scanVars, histVars,
                TypeOK, Places, Slip, AtMostOneSlips
  <2> QED
    BY <1>1, <2>1, ScanFrame DEF Refuse, Goto, loadVars, scanVars
<1>2. CASE Accept /\ at' = "check"
  <2>1. client' = Head(backlog) /\ backlog' = Tail(backlog)
    BY <1>2 DEF Accept, Goto
  <2>2. client' \in Conns /\ backlog' \in Seq(Conns)
    BY <1>2, <2>1 DEF Accept, Goto, TypeOK, Places
  <2>3. TypeOK'
    BY <1>2, <2>2 DEF Accept, Goto, loadVars, scanVars, TypeOK
  <2>4. Places' /\ Slip'
    BY <1>2, <2>2 DEF Accept, Goto, loadVars, scanVars, TypeOK, Places, Slip,
                      AtMostOneSlips
  <2> QED
    BY <1>2, <2>3, <2>4, ScanFrame DEF Accept, Goto, loadVars, scanVars
<1>3. CASE Accept /\ at' = "wait"
  <2>1. TypeOK' /\ Places' /\ Slip'
    BY <1>3 DEF Accept, Goto, loadVars, scanVars, TypeOK, Places, Slip, AtMostOneSlips
  <2> QED
    BY <1>3, <2>1, ScanFrame DEF Accept, Goto, loadVars, scanVars
<1> QED
  BY <1>1, <1>2, <1>3 DEF Accept, Goto

(* roundRobin: the scan begins with the reactor after the last one ...       *)
LEMMA AdmitIInv == ASSUME IInv, Admit PROVE IInv'
<1> USE Ids DEF IInv
<1>1. last \in Reactors /\ last + 1 \in 0 .. Subs + Subs - 1
  BY DEF TypeOK, Reactors
<1>2. start \in Reactors
  BY <1>1, Ring DEF start, Reactors
<1>3. TypeOK'
  BY <1>2 DEF Admit, Goto, kernelVars, clientVars, loadVars, histVars, TypeOK
<1>4. Places' /\ Slip'
  BY DEF Admit, Goto, Listed, Address, kernelVars, clientVars, loadVars, histVars,
         Places, Slip, AtMostOneSlips
<1>5. Distance(start) = 0 /\ \A r \in Reactors : Distance(r) \in 0 .. Subs - 1
  BY <1>2, Distances DEF Distance, D
<1>6. /\ min_load_idx' = start /\ min_load_reqs' = load[start] /\ i' = 0
      /\ start' = start /\ load' = load /\ at' = "scan"
  BY DEF Admit, Goto, loadVars, start
<1>7. Scanned'
  BY <1>5, <1>6 DEF Scanned, Best, Distance
<1> QED
  BY <1>3, <1>4, <1>7

(* ... one round looks at the next one ...                                   *)
LEMMA RoundIInv == ASSUME IInv, Scan PROVE IInv'
<1> USE Ids DEF IInv
<1>1. /\ at = "scan" /\ i \in 0 .. Subs - 1 /\ i' = i + 1
      /\ UNCHANGED <<last, load, still, client>>
  BY DEF Scan, Goto, Rounds, TypeOK, loadVars
<1>2. start \in Reactors
  <2>1. last \in Reactors /\ last + 1 \in 0 .. Subs + Subs - 1
    BY DEF TypeOK, Reactors
  <2> QED
    BY <2>1, Ring DEF start, Reactors
<1>3. /\ idx \in Reactors /\ Distance(idx) = i
      /\ \A r \in Reactors : Distance(r) \in 0 .. Subs - 1
      /\ \A r \in Reactors : Distance(r) = i => r = idx
  BY <1>1, <1>2, Distances DEF Distance, D, idx
<1>4. load \in [Reactors -> Int] /\ min_load_idx \in Reactors /\ min_load_reqs \in Int
  BY DEF TypeOK
<1>5. TypeOK'
  BY <1>1, <1>3, <1>4 DEF Scan, Goto, kernelVars, clientVars, loadVars, histVars, TypeOK
<1>6. Places' /\ Slip'
  BY DEF Scan, Goto, kernelVars, clientVars, loadVars, histVars, Places, Slip,
         AtMostOneSlips
<1>7. start' = start
  BY <1>1 DEF start
<1>8. CASE Smaller
  <2>1. /\ min_load_idx' = idx /\ min_load_reqs' = load[idx]
        /\ load[idx] < min_load_reqs
        /\ at' = "join" => load[idx] = 0
    BY <1>8 DEF Scan, Goto, Smaller
  <2>2. still => \A r \in Reactors : Distance(r) < i => load[r] > load[idx]
    BY <1>1, <1>3, <1>4, <2>1 DEF Scanned
  <2>3. ASSUME still
        PROVE  \A r \in Reactors : Distance(r) < i + 1 => load[r] >= load[idx]
    BY <1>1, <1>3, <1>4, <2>2, <2>3
  <2>4. Scanned'
    BY <1>1, <1>3, <1>4, <1>7, <2>1, <2>2, <2>3 DEF Scanned, Best, Distance
  <2> QED
    BY <1>5, <1>6, <2>4
<1>9. CASE ~Smaller
  <2>1. /\ UNCHANGED <<min_load_idx, min_load_reqs>> /\ at' = "scan"
        /\ load[idx] >= min_load_reqs
    BY <1>9, <1>3, <1>4 DEF Scan, Goto, Smaller
  <2>2. ASSUME still
        PROVE  \A r \in Reactors : Distance(r) < i + 1 => load[r] >= min_load_reqs
    BY <1>1, <1>3, <1>4, <2>1, <2>2 DEF Scanned
  <2>3. still => Best /\ Distance(min_load_idx) < i + 1
    BY <1>1, <1>3, <1>4 DEF Scanned
  <2>4. Scanned'
    BY <1>1, <1>7, <2>1, <2>2, <2>3 DEF Scanned, Best, Distance
  <2> QED
    BY <1>5, <1>6, <2>4
<1> QED
  BY <1>8, <1>9

(* ... and after a round for each reactor the best of all is known.          *)
LEMMA ScanEndIInv == ASSUME IInv, ScanEnd PROVE IInv'
<1> USE Ids DEF IInv
<1>1. TypeOK' /\ Places' /\ Slip'
  BY DEF ScanEnd, Goto, kernelVars, clientVars, loadVars, scanVars, histVars,
         TypeOK, Places, Slip, AtMostOneSlips
<1>2. /\ at = "scan" /\ at' = "join" /\ i = Subs
      /\ UNCHANGED <<last, min_load_idx, min_load_reqs, load, still>>
  BY DEF ScanEnd, Goto, Rounds, scanVars, loadVars
<1>3. start \in Reactors
  <2>1. last \in Reactors /\ last + 1 \in 0 .. Subs + Subs - 1
    BY DEF TypeOK, Reactors
  <2> QED
    BY <2>1, Ring DEF start, Reactors
<1>4. \A r \in Reactors : Distance(r) \in 0 .. Subs - 1
  BY <1>3, Distances DEF Distance, D
<1>5. still => \A r \in Reactors : load[r] >= min_load_reqs
  BY <1>2, <1>4 DEF Scanned
<1>6. Scanned'
  BY <1>2, <1>5 DEF Scanned, Best, Distance, start
<1> QED
  BY <1>1, <1>6

(* joinEPollEvent: a connection whose address was listed since the scan      *)
(* began is the one that slips.                                              *)
LEMMA JoinIInv == ASSUME IInv, Join \/ JoinStore PROVE IInv'
<1> USE Ids DEF IInv
<1>1. CASE Join
  <2>1. load[min_load_idx] + 1 \in Int
    <3>1. load \in [Reactors -> Int] /\ min_load_idx \in Reactors
      BY DEF TypeOK
    <3>2. load[min_load_idx] \in Int
      BY <3>1
    <3> QED
      BY <3>2
  <2>2. TypeOK' /\ Places' /\ Slip'
    BY <1>1, <2>1 DEF Join, Goto, kernelVars, clientVars, histVars, TypeOK, Places,
                      Slip, AtMostOneSlips
  <2> QED
    BY <1>1, <2>2 DEF Join, Goto, Scanned
<1>2. CASE JoinStore
  <2>1. client \in Conns /\ mine \in Int /\ min_load_idx \in Reactors
    BY <1>2 DEF JoinStore, Goto, TypeOK, Places
  <2>2. TypeOK'
    BY <1>2, <2>1 DEF JoinStore, Goto, kernelVars, TypeOK
  <2>3. Places'
    BY <1>2, <2>1 DEF JoinStore, Goto, TypeOK, Places
  <2>4. Slip'
    BY <1>2, <2>1 DEF JoinStore, Goto, Address, TypeOK, Slip, AtMostOneSlips
  <2> QED
    BY <1>2, <2>2, <2>3, <2>4 DEF JoinStore, Goto, Scanned
<1> QED
  BY <1>1, <1>2
-----------------------------------------------------------------------------
(* The clients and the sub-reactors.  A load that changes ends what the scan *)
(* knows; the black list only grows.                                         *)
LEMMA ConnectIInv == ASSUME IInv, NEW c \in Conns, Connect(c) PROVE IInv'
<1> USE Ids DEF IInv
<1>1. /\ backlog \in Seq(Conns) /\ backlog' = Append(backlog, c)
      /\ backlog' \in Seq(Conns) /\ backlog' # <<>>
  BY DEF Connect, TypeOK
<1>2. TypeOK'
  BY <1>1 DEF Connect, Reports, loadVars, scanVars, TypeOK
<1>3. Places' /\ Slip'
  BY <1>1 DEF Connect, loadVars, scanVars, TypeOK, Places, Slip, AtMostOneSlips
<1> QED
  BY <1>2, <1>3, ScanFrame DEF Connect, loadVars, scanVars

LEMMA HandleIInv ==
    ASSUME IInv, NEW c \in Conns, Request(c) \/ Reply(c) \/ HangUp(c)
    PROVE  IInv'
<1> USE Ids DEF IInv
<1>1. ASSUME NEW delta \in {-1, 1}, Handle(c, delta)
      PROVE  sum' \in [Reactors -> Int \cup {None}]
  <2>1. home[c] \in Reactors
    BY <1>1 DEF Handle, Places
  <2>2. load[home[c]] \in Int /\ delta \in Int
    BY <2>1 DEF TypeOK
  <2>3. load[home[c]] + delta \in Int
    BY <2>2
  <2> QED
    BY <1>1, <2>3 DEF Handle, TypeOK
<1>2. sum' \in [Reactors -> Int \cup {None}]
  BY <1>1 DEF Request, Reply, HangUp
<1>3. CASE Request(c)
  <2>1. TypeOK' /\ Places' /\ Slip'
    BY <1>2, <1>3 DEF Request, Handle, kernelVars, scanVars, histVars, TypeOK, Places,
                      Slip, AtMostOneSlips
  <2> QED
    BY <1>3, <2>1, ScanFrame DEF Request, Handle, scanVars
<1>4. CASE Reply(c)
  <2>1. replies + 1 \in 0 .. MaxReq
    BY <1>4 DEF Reply, TypeOK
  <2>2. TypeOK' /\ Places' /\ Slip'
    BY <1>2, <1>4, <2>1 DEF Reply, Handle, kernelVars, scanVars, histVars, TypeOK,
                            Places, Slip, AtMostOneSlips
  <2> QED
    BY <1>4, <2>2, ScanFrame DEF Reply, Handle, scanVars
<1>5. CASE HangUp(c)
  <2>1. blacklist \subseteq blacklist' /\ blacklist' \subseteq Addrs
    BY <1>5 DEF HangUp, TypeOK
  <2>2. TypeOK'
    BY <1>2, <1>5, <2>1 DEF HangUp, Handle, kernelVars, scanVars, histVars, TypeOK
  <2>3. Places' /\ Slip'
    BY <1>5, <2>1 DEF HangUp, Handle, kernelVars, scanVars, histVars, TypeOK, Places,
                      Slip, AtMostOneSlips
  <2> QED
    BY <1>5, <2>2, <2>3, ScanFrame DEF HangUp, Handle, scanVars
<1> QED
  BY <1>3, <1>4, <1>5

LEMMA StoreIInv == ASSUME IInv, NEW r \in Reactors, CountStore(r) PROVE IInv'
<1> USE Ids DEF IInv
<1>1. sum[r] \in Int
  BY DEF CountStore, TypeOK
<1>2. TypeOK'
  BY <1>1 DEF CountStore, kernelVars, clientVars, scanVars, histVars, TypeOK
<1>3. Places' /\ Slip' /\ Scanned'
  BY DEF CountStore, kernelVars, clientVars, scanVars, histVars, Places, Slip,
         AtMostOneSlips, Scanned
<1> QED
  BY <1>2, <1>3

LEMMA NextIInv == IInv /\ [Next]_vars => IInv'
<1> SUFFICES ASSUME IInv, [Next]_vars PROVE IInv'
  OBVIOUS
<1>1. CASE MainStep
  BY <1>1, ListenIInv, AcceptIInv, AdmitIInv, RoundIInv, ScanEndIInv, JoinIInv
  DEF MainStep
<1>2. CASE \E c \in Conns : Connect(c) \/ Request(c) \/ Reply(c) \/ HangUp(c)
  BY <1>2, ConnectIInv, HandleIInv
<1>3. CASE \E r \in Reactors : CountStore(r)
  BY <1>3, StoreIInv
<1>4. CASE UNCHANGED vars
  <2>1. TypeOK' /\ Places' /\ Slip'
    BY <1>4 DEF vars, kernelVars, clientVars, loadVars, scanVars, histVars, IInv,
                TypeOK, Places, Slip, AtMostOneSlips
  <2> QED
    BY <1>4, <2>1, ScanFrame DEF vars, scanVars, loadVars, IInv
<1> QED
  BY <1>1, <1>2, <1>3, <1>4 DEF Next

LEMMA Invariant == Spec => []IInv
<1> QED
  BY InitIInv, NextIInv, PTL DEF Spec
-----------------------------------------------------------------------------
(* Type correctness of the main reactor: handleAccept never works on a       *)
(* connection that is none, nor roundRobin on a reactor that is none.        *)
THEOREM MainTypeOK == Spec => []TypeOK
<1>1. IInv => TypeOK
  BY DEF IInv
<1> QED
  BY <1>1, Invariant, PTL

(* roundRobin picks the first of the least loaded reactors, whenever no load *)
(* changes under its scan.                                                   *)
THEOREM RoundRobinLeastLoaded == Spec => []LeastLoaded
<1>1. IInv => LeastLoaded
  <2> SUFFICES ASSUME IInv, at = "join", still
      PROVE  \A r \in Reactors :
                /\ load[min_load_idx] <= load[r] \/ load[min_load_idx] = 0
                /\ load[r] = load[min_load_idx] => Distance(min_load_idx) <= Distance(r)
    BY DEF LeastLoaded
  <2>1. load \in [Reactors -> Int] /\ min_load_idx \in Reactors
    BY DEF IInv, TypeOK
  <2>2. start \in Reactors
    <3>1. last \in Reactors /\ last + 1 \in 0 .. Subs + Subs - 1
      BY Ids DEF IInv, TypeOK, Reactors
    <3> QED
      BY <3>1, Ids, Ring DEF start, Reactors
  <2>3. \A r \in Reactors : Distance(r) \in 0 .. Subs - 1
    BY <2>2, Distances DEF Distance, D
  <2> QED
    BY <2>1, <2>3 DEF IInv, Scanned, Best
<1> QED
  BY <1>1, Invariant, PTL

(* Of an address that is on the black list at most one connection still gets *)
(* to a reactor: the one that was under way.                                 *)
THEOREM BlackListAtMostOneSlips == Spec => []AtMostOneSlips
<1>1. IInv => AtMostOneSlips
  BY DEF IInv, Slip
<1> QED
  BY <1>1, Invariant, PTL
=============================================================================
