------------------------- MODULE LThreadPool_proofs -------------------------
(* The safety of LThreadPool, and that it implements TaskPool, for every     *)
(* number of threads, of calls of Run and every backlog that makes it grow.  *)
EXTENDS LThreadPool, TLAPS

(* Identities are distinct, and the constructor keeps to its maximum.        *)
LEMMA Ids == /\ Workers \subseteq Nat \ {0} /\ Producer = 0
             /\ None \notin Workers /\ None # Producer /\ None \notin Tickets
             /\ Tickets = 1 .. MaxRuns /\ MaxRuns \in Nat
             /\ MaxThreads \in Nat /\ MaxWork \in Nat
             /\ ClampedInit \in Nat /\ ClampedInit <= MaxThreads
  BY ThreadsAssumption, WorkAssumption, NoneAssumption
  DEF Workers, Producer, Tickets, ClampedInit
-----------------------------------------------------------------------------
(* The inductive invariant.  Growing starts threads that do not exist yet.   *)
Born == Alive => \A w \in Workers : pc[w] = "none" <=> w > m_allThread

(* A worker has a job exactly while it runs task().                          *)
Jobs == \A w \in Workers : pc[w] = "task" <=> job[w] # None

Calls == /\ run \in {"lock", "push"} => submitted < MaxRuns
         /\ is_exit <=> dtor # "none"

(* A worker that is about to sleep owns the lock, so the queue is still as   *)
(* empty as it was when the worker looked.                                   *)
Waits == /\ NoSleeperWithWork
         /\ \A w \in Workers : pc[w] = "await" => m_workque = <<>>

(* The one worker that may still pop after is_exit was set had passed the    *)
(* test of is_exit, and it owns the lock.                                    *)
Late == /\ AtMostOneLateJob
        /\ ~is_exit => late = 0
        /\ \A w \in Workers : pc[w] = "take" => late = 0

(* m_initThreadNum is the number of threads plus the argument of the         *)
(* constructor, counted twice.                                               *)
Size == ThreadBound /\ (Alive => m_initThreadNum = m_allThread + ClampedInit)

(* The queue holds the last tickets; the earlier ones were started.          *)
Started == 1 .. submitted - Len(m_workque)

Contig == /\ Len(m_workque) <= submitted
          /\ \A i \in 1 .. Len(m_workque) :
                m_workque[i] = submitted - Len(m_workque) + i

Places == /\ finished \subseteq Started
          /\ \A w \in Workers : job[w] # None => job[w] \in Started \ finished
          /\ \A v, w \in Workers : v # w /\ job[v] # None => job[v] # job[w]
          /\ Alive => \A t \in Started \ finished : \E w \in Workers : job[w] = t

Control == LockOwner /\ Born /\ Jobs /\ Calls
Safety  == Waits /\ PickFindsWork /\ Late /\ Size
Data    == Contig /\ Places
IInv    == TypeOK /\ Control /\ Safety /\ Data

(* The constructor establishes the inductive invariant.                      *)
LEMMA InitIInv == Init => IInv
<1> SUFFICES ASSUME Init PROVE IInv
  OBVIOUS
<1> USE Ids
<1>1. TypeOK
  <2>1. <<>> \in Seq(Tickets) /\ finished = {} /\ 0 \in 0 .. MaxRuns
    BY DEF Init
  <2>2. pc \in [Workers -> WorkerPCs] /\ job \in [Workers -> Tickets \cup {None}]
    BY DEF Init, WorkerPCs
  <2>3. /\ m_workque = <<>> /\ m_workLock = None /\ is_exit = FALSE
        /\ m_initThreadNum = ClampedInit + ClampedInit
        /\ m_allThread = ClampedInit /\ run = "idle" /\ dtor = "none"
        /\ submitted = 0 /\ late = 0
    BY DEF Init
  <2>4. /\ m_workque \in Seq(Tickets)
        /\ m_workLock \in Workers \cup {Producer, None}
        /\ is_exit \in BOOLEAN
    BY <2>1, <2>3
  <2>5. /\ m_initThreadNum \in Nat /\ m_allThread \in Nat
        /\ submitted \in 0 .. MaxRuns /\ late \in Nat
    BY <2>1, <2>3
  <2>6. finished \subseteq Tickets /\ run = "idle" /\ dtor = "none"
    BY <2>1, <2>3
  <2> QED
    BY <2>2, <2>4, <2>5, <2>6 DEF TypeOK
<1>2. Control
  BY DEF Init, Control, LockOwner, Born, Jobs, Calls, Inside, Alive, Workers
<1>3. Safety
  BY DEF Init, Safety, Waits, NoSleeperWithWork, PickFindsWork, Late, Size,
         AtMostOneLateJob, ThreadBound, Alive
<1>4. Data
  BY DEF Init, Data, Contig, Places, Started
<1> QED
  BY <1>1, <1>2, <1>3, <1>4 DEF IInv

(* The conjuncts about tickets only look at the queue and its users.         *)
LEMMA DataFrame ==
    ASSUME Data, UNCHANGED <<m_workque, submitted, job, finished>>, Alive' => Alive
    PROVE  Data'
  BY DEF Data, Contig, Places, Started
-----------------------------------------------------------------------------
(* The steps of the reactor keep the invariant.                              *)
LEMMA ProducerIInv == ASSUME IInv, ProducerStep PROVE IInv'
<1> USE Ids DEF IInv
<1>1. CASE RunCall
  <2>1. TypeOK' /\ Control' /\ Alive' = Alive
    BY <1>1 DEF RunCall, poolVars, history, TypeOK, Control, LockOwner, Born,
                Jobs, Calls, Alive
  <2>2. Safety'
    BY <1>1 DEF RunCall, poolVars, history, Safety, Waits, NoSleeperWithWork,
                PickFindsWork, Late, Size, AtMostOneLateJob, ThreadBound, Alive
  <2> QED
    BY <1>1, <2>1, <2>2, DataFrame DEF RunCall, history
<1>2. CASE RunLock
  <2>1. TypeOK' /\ Control' /\ Alive' = Alive
    BY <1>2 DEF RunLock, Free, poolVars, history, TypeOK, Control, LockOwner,
                Born, Jobs, Calls, Alive
  <2>2. Safety'
    BY <1>2 DEF RunLock, poolVars, history, Safety, Waits, NoSleeperWithWork,
                PickFindsWork, Late, Size, AtMostOneLateJob, ThreadBound, Alive
  <2> QED
    BY <1>2, <2>1, <2>2, DataFrame DEF RunLock, history
<1>3. CASE RunPush
  <2>1. Growth \in Nat /\ (Growth = 0 \/ Growth = MaxThreads - m_initThreadNum)
    BY DEF Growth, MustGrow, TypeOK
  <2>2. TypeOK'
    BY <1>3, <2>1 DEF RunPush, Spawned, TypeOK, WorkerPCs, Control, Calls
  <2>3. Control'
    BY <1>3, <2>1 DEF RunPush, Spawned, TypeOK, Control, LockOwner, Born, Jobs,
                      Calls, Alive, Inside
  <2>4. Safety'
    BY <1>3, <2>1 DEF RunPush, Spawned, TypeOK, Control, LockOwner, Inside,
                      Safety, Waits, NoSleeperWithWork, PickFindsWork, Late,
                      Size, AtMostOneLateJob, ThreadBound, Alive
  <2>5. /\ Len(m_workque') = Len(m_workque) + 1
        /\ \A i \in 1 .. Len(m_workque') :
              m_workque'[i] = IF i <= Len(m_workque) THEN m_workque[i]
                                                     ELSE submitted + 1
    BY <1>3 DEF RunPush, TypeOK
  <2>6. Contig' /\ Started' = Started
    BY <1>3, <2>5 DEF RunPush, TypeOK, Data, Contig, Started
  <2>7. Places'
    BY <1>3, <2>6 DEF RunPush, Data, Places, Alive
  <2> QED
    BY <2>2, <2>3, <2>4, <2>6, <2>7 DEF Data
<1>4. CASE RunNotify
  <2>1. TypeOK' /\ Control' /\ Alive' = Alive
    BY <1>4 DEF RunNotify, NotifyAll, poolVars, history, TypeOK, WorkerPCs,
                Control, LockOwner, Inside, Born, Jobs, Calls, Alive
  <2>2. Safety'
    BY <1>4 DEF RunNotify, NotifyAll, poolVars, history, TypeOK, Safety, Waits,
                NoSleeperWithWork, PickFindsWork, Late, Size, AtMostOneLateJob,
                ThreadBound, Alive
  <2> QED
    BY <1>4, <2>1, <2>2, DataFrame DEF RunNotify, history
<1> QED
  BY <1>1, <1>2, <1>3, <1>4 DEF ProducerStep

(* The steps of the destructor keep the invariant.                           *)
LEMMA DtorIInv == ASSUME IInv, DtorStep PROVE IInv'
<1> USE Ids DEF IInv
<1>1. CASE DtorExit
  <2>1. TypeOK' /\ Control' /\ Alive' = Alive
    BY <1>1 DEF DtorExit, poolVars, history, TypeOK, Control, LockOwner, Born,
                Jobs, Calls, Alive
  <2>2. Safety'
    BY <1>1 DEF DtorExit, poolVars, history, Safety, Waits, NoSleeperWithWork,
                PickFindsWork, Late, Size, AtMostOneLateJob, ThreadBound, Alive
  <2> QED
    BY <1>1, <2>1, <2>2, DataFrame DEF DtorExit, history
<1>2. CASE DtorNotify
  <2>1. TypeOK' /\ Control' /\ Alive' = Alive
    BY <1>2 DEF DtorNotify, NotifyAll, poolVars, history, TypeOK, WorkerPCs,
                Control, LockOwner, Inside, Born, Jobs, Calls, Alive
  <2>2. Safety'
    BY <1>2 DEF DtorNotify, NotifyAll, poolVars, history, TypeOK, Safety, Waits,
                NoSleeperWithWork, PickFindsWork, Late, Size, AtMostOneLateJob,
                ThreadBound, Alive
  <2> QED
    BY <1>2, <2>1, <2>2, DataFrame DEF DtorNotify, history
<1>3. CASE DtorFree
  <2>1. TypeOK' /\ Control' /\ ~Alive'
    BY <1>3 DEF DtorFree, history, TypeOK, Control, LockOwner, Born, Jobs,
                Calls, Alive
  <2>2. Safety'
    BY <1>3, <2>1 DEF DtorFree, history, Safety, Waits, NoSleeperWithWork,
                PickFindsWork, Late, Size, AtMostOneLateJob, ThreadBound
  <2>3. Contig' /\ Started \subseteq Started'
    BY <1>3 DEF DtorFree, history, TypeOK, Data, Contig, Started
  <2>4. Places'
    BY <1>3, <2>1, <2>3 DEF DtorFree, history, Data, Places
  <2> QED
    BY <2>1, <2>2, <2>3, <2>4 DEF Data
<1> QED
  BY <1>1, <1>2, <1>3 DEF DtorStep
-----------------------------------------------------------------------------
(* The steps of a worker that leave the queue and the jobs alone keep the    *)
(* invariant.                                                                *)
WMoves(w) == \/ WTop(w) \/ WLock(w) \/ WCheck(w) \/ WWait(w) \/ WExit(w)
             \/ WPick(w) \/ WSpurious(w)

(* The steps of a worker that only move its program counter.                 *)
LEMMA MovesIInv == ASSUME IInv, NEW w \in Workers, WMoves(w) PROVE IInv'
<1> USE Ids DEF IInv
<1>1. /\ UNCHANGED <<m_workque, is_exit, poolVars, job, run, dtor, history>>
      /\ m_workLock' \in Workers \cup {Producer, None}
      /\ \E to \in WorkerPCs \ {"none", "task"} : pc' = [pc EXCEPT ![w] = to]
      /\ pc[w] \notin {"none", "task"}
  BY DEF WMoves, WTop, WLock, WCheck, WWait, WExit, WPick, WSpurious, Goto,
         AfterWait, WorkerPCs, TypeOK
<1>2. TypeOK' /\ Born' /\ Jobs' /\ Calls' /\ Alive' = Alive
  BY <1>1 DEF poolVars, history, TypeOK, Control, Born, Jobs, Calls, Alive
<1>3. LockOwner'
  BY <1>2 DEF WMoves, WTop, WLock, WCheck, WWait, WExit, WPick, WSpurious, Goto,
         AfterWait, Free, TypeOK, Control, LockOwner, Inside
<1>4. Waits'
  BY DEF WMoves, WTop, WLock, WCheck, WWait, WExit, WPick, WSpurious, Goto,
         AfterWait, MustWait, TypeOK, Safety, Waits, NoSleeperWithWork
<1>5. PickFindsWork'
  BY DEF WMoves, WTop, WLock, WCheck, WWait, WExit, WPick, WSpurious, Goto,
         AfterWait, MustWait, MayWork, TypeOK, Safety, PickFindsWork, Alive
<1>6. Late'
  BY DEF WMoves, WTop, WLock, WCheck, WWait, WExit, WPick, WSpurious, Goto,
         AfterWait, MayWork, history, TypeOK, Safety, Late, AtMostOneLateJob
<1>7. Size' /\ Data'
  BY <1>1, <1>2, DataFrame DEF poolVars, history, Safety, Size, ThreadBound
<1> QED
  BY <1>2, <1>3, <1>4, <1>5, <1>6, <1>7 DEF Control, Safety

(* The ticket that WTake takes is the oldest in the queue.                   *)
LEMMA TakenTicket ==
    ASSUME IInv, NEW w \in Workers, WTake(w)
    PROVE  /\ Front \in Tickets /\ Front = submitted - Len(m_workque) + 1
           /\ m_workque # <<>> /\ Rest \in Seq(Tickets)
           /\ Len(Rest) = Len(m_workque) - 1
           /\ \A i \in 1 .. Len(Rest) : Rest[i] = m_workque[i + 1]
<1>1. m_workque # <<>> /\ m_workque \in Seq(Tickets)
  BY DEF IInv, TypeOK, Safety, PickFindsWork, WTake, Goto
<1>2. Front = m_workque[1] /\ 1 \in 1 .. Len(m_workque)
  BY <1>1 DEF Front
<1>3. Front = submitted - Len(m_workque) + 1 /\ Front \in Tickets
  BY <1>1, <1>2 DEF IInv, TypeOK, Data, Contig
<1>4. /\ Rest \in Seq(Tickets) /\ Len(Rest) = Len(m_workque) - 1
      /\ \A i \in 1 .. Len(Rest) : Rest[i] = m_workque[i + 1]
  BY <1>1 DEF Rest
<1> QED
  BY <1>1, <1>3, <1>4

(* WTake moves one job from the queue to the worker and frees the lock.      *)
LEMMA TakeIInv == ASSUME IInv, NEW w \in Workers, WTake(w) PROVE IInv'
<1> USE Ids DEF IInv
<1>1. TypeOK' /\ Alive' = Alive
  <2>1. Front \in Tickets /\ Rest \in Seq(Tickets)
    BY TakenTicket
  <2>2. pc' \in [Workers -> WorkerPCs] /\ job' \in [Workers -> Tickets \cup {None}]
    BY <2>1 DEF WTake, Goto, TypeOK, WorkerPCs
  <2> QED
    BY <2>1, <2>2 DEF WTake, poolVars, TypeOK, Alive
<1>2. Control'
  BY TakenTicket DEF WTake, Goto, poolVars, TypeOK, Control, LockOwner, Born,
                     Jobs, Calls, Alive, Inside
<1>3. Safety'
  BY TakenTicket DEF WTake, Goto, poolVars, TypeOK, Control, LockOwner, Inside,
                     Safety, Waits, NoSleeperWithWork, PickFindsWork, Late,
                     Size, AtMostOneLateJob, ThreadBound, Alive
<1>4. /\ m_workque' = Rest /\ submitted' = submitted
      /\ submitted \in Nat /\ Len(m_workque) \in Nat /\ Len(m_workque) <= submitted
      /\ Len(Rest) = Len(m_workque) - 1 /\ Len(Rest) \in Nat
      /\ Front = submitted - Len(m_workque) + 1
  <2>1. m_workque \in Seq(Tickets) /\ m_workque # <<>> /\ submitted \in Nat
    BY TakenTicket DEF TypeOK
  <2>2. m_workque' = Rest /\ submitted' = submitted /\ Len(m_workque) <= submitted
    BY DEF WTake, Data, Contig
  <2> QED
    BY <2>1, <2>2, TakenTicket
<1>5. Contig'
  <2>1. \A i \in 1 .. Len(Rest) : Rest[i] = submitted - Len(Rest) + i
    BY <1>4, TakenTicket DEF Data, Contig
  <2> QED
    BY <1>4, <2>1 DEF Contig
<1>6. Started' = Started \cup {Front} /\ Front \notin Started
  BY <1>4 DEF Started
<1>7. /\ job' = [job EXCEPT ![w] = Front] /\ Front # None /\ job[w] = None
      /\ finished' = finished /\ job \in [Workers -> Tickets \cup {None}]
  BY TakenTicket DEF WTake, Goto, TypeOK, Control, Jobs
<1>8. Places'
  <2>1. /\ finished \subseteq Started
        /\ \A v \in Workers : job[v] # None => job[v] \in Started \ finished
        /\ \A u, v \in Workers : u # v /\ job[u] # None => job[u] # job[v]
        /\ Alive => \A t \in Started \ finished : \E v \in Workers : job[v] = t
    BY DEF Data, Places
  <2>2. finished' \subseteq Started'
    BY <1>6, <1>7, <2>1
  <2>3. \A v \in Workers : job'[v] = IF v = w THEN Front ELSE job[v]
    BY <1>7
  <2>4. \A v \in Workers : job'[v] # None => job'[v] \in Started' \ finished'
    BY <1>6, <1>7, <2>1, <2>3
  <2>5. \A u, v \in Workers : u # v /\ job'[u] # None => job'[u] # job'[v]
    BY <1>6, <1>7, <2>1, <2>3
  <2>6. Alive' => \A t \in Started' \ finished' : \E v \in Workers : job'[v] = t
    <3>1. ASSUME Alive, NEW t \in Started' \ finished', t # Front
          PROVE  \E v \in Workers : job'[v] = t
      <4>1. PICK v \in Workers : job[v] = t
        BY <1>6, <1>7, <2>1, <3>1
      <4>2. t # None
        BY <3>1, <1>4, <1>6, NoneAssumption DEF Started
      <4> QED
        BY <1>7, <2>3, <4>1, <4>2
    <3> QED
      BY <1>1, <2>3, <3>1
  <2> QED
    BY <2>2, <2>4, <2>5, <2>6 DEF Places
<1> QED
  BY <1>1, <1>2, <1>3, <1>5, <1>8 DEF Data

(* WFinish moves the job from the worker to the finished ones.               *)
LEMMA FinishIInv == ASSUME IInv, NEW w \in Workers, WFinish(w) PROVE IInv'
<1> USE Ids DEF IInv
<1>1. job[w] # None /\ job[w] \in Tickets /\ pc[w] = "task"
  BY DEF WFinish, Goto, TypeOK, Control, Jobs
<1>2. TypeOK' /\ Alive' = Alive
  BY <1>1 DEF WFinish, Goto, poolVars, TypeOK, WorkerPCs, Alive
<1>3. Control'
  BY <1>1 DEF WFinish, Goto, poolVars, TypeOK, Control, LockOwner, Born, Jobs,
              Calls, Alive, Inside
<1>4. Safety'
  BY <1>1 DEF WFinish, Goto, poolVars, TypeOK, Safety, Waits, NoSleeperWithWork,
              PickFindsWork, Late, Size, AtMostOneLateJob, ThreadBound, Alive
<1>5. Contig' /\ Started' = Started
  BY DEF WFinish, Data, Contig, Started
<1>6. Places'
  BY <1>1, <1>2, <1>5 DEF WFinish, TypeOK, Data, Places
<1> QED
  BY <1>2, <1>3, <1>4, <1>5, <1>6 DEF Data

(* Every step of the pool preserves the inductive invariant.                 *)
LEMMA NextIInv == ASSUME IInv, [Next]_vars PROVE IInv'
<1>1. CASE UNCHANGED vars
  <2>1. TypeOK' /\ Control' /\ Alive' = Alive
    BY <1>1 DEF IInv, vars, poolVars, history, TypeOK, Control, LockOwner, Born,
                Jobs, Calls, Alive
  <2>2. Safety'
    BY <1>1 DEF IInv, vars, poolVars, history, Safety, Waits, NoSleeperWithWork,
                PickFindsWork, Late, Size, AtMostOneLateJob, ThreadBound, Alive
  <2> QED
    BY <1>1, <2>1, <2>2, DataFrame DEF IInv, vars, history
<1>2. ASSUME NEW w \in Workers, WorkerStep(w) \/ WSpurious(w) PROVE IInv'
  BY <1>2, MovesIInv, TakeIInv, FinishIInv DEF WorkerStep, WMoves
<1> QED
  BY <1>1, <1>2, ProducerIInv, DtorIInv DEF Next, Stopped

(* The invariant holds in every behaviour.                                   *)
THEOREM Invariant == Spec => []IInv
  BY InitIInv, NextIInv, PTL DEF Spec
-----------------------------------------------------------------------------
(* The variables of Run(), worker() and the destructor have their types.     *)
THEOREM PoolTypeOK == Spec => []TypeOK
<1>1. IInv => TypeOK
  BY DEF IInv
<1> QED
  BY <1>1, Invariant, PTL

(* m_workque is touched by one thread at a time: whoever is between the      *)
(* lock and the unlock of Run() or worker() owns m_workLock.                 *)
THEOREM PoolLockOwner == Spec => []LockOwner
<1>1. IInv => LockOwner
  BY DEF IInv, Control
<1> QED
  BY <1>1, Invariant, PTL

(* No wakeup of worker() is lost while jobs are queued by Run().             *)
THEOREM PoolNoSleeperWithWork == Spec => []NoSleeperWithWork
<1>1. IInv => NoSleeperWithWork
  BY DEF IInv, Safety, Waits
<1> QED
  BY <1>1, Invariant, PTL

(* front() of worker() never meets an empty queue.                           *)
THEOREM PoolPickFindsWork == Spec => []PickFindsWork
<1>1. IInv => PickFindsWork
  BY DEF IInv, Safety
<1> QED
  BY <1>1, Invariant, PTL

(* The destructor stops the workers: after is_exit at most one job starts.   *)
THEOREM PoolAtMostOneLateJob == Spec => []AtMostOneLateJob
<1>1. IInv => AtMostOneLateJob
  BY DEF IInv, Safety, Late
<1> QED
  BY <1>1, Invariant, PTL

(* increaseThread never takes the pool over MAX_WTHREAD_NUMBER.              *)
THEOREM PoolThreadBound == Spec => []ThreadBound
<1>1. IInv => ThreadBound
  BY DEF IInv, Safety, Size
<1> QED
  BY <1>1, Invariant, PTL

(* Every call of Run() leads to one execution of its job, in the order of    *)
(* the calls, unless the destructor throws the queue away.                   *)
THEOREM PoolNoJobLostOrRunTwice == Spec => []NoJobLostOrRunTwice
<1>1. ASSUME IInv PROVE NoJobLostOrRunTwice
  <2>1. /\ m_workque \in Seq(Tickets) /\ job \in [Workers -> Tickets \cup {None}]
        /\ submitted \in Nat /\ None \notin Nat /\ Contig /\ Places
    BY <1>1, NoneAssumption DEF IInv, TypeOK, Data
  <2>2. Queued = (submitted - Len(m_workque) + 1) .. submitted
    <3>1. \A t \in Queued : t \in (submitted - Len(m_workque) + 1) .. submitted
      BY <2>1 DEF Queued, Contig
    <3>2. ASSUME NEW t \in (submitted - Len(m_workque) + 1) .. submitted
          PROVE  t \in Queued
      <4> DEFINE i == t - (submitted - Len(m_workque))
      <4>1. i \in 1 .. Len(m_workque) /\ m_workque[i] = t
        BY <2>1 DEF Contig
      <4> QED
        BY <4>1 DEF Queued
    <3> QED
      BY <3>1, <3>2
  <2>3. Held \subseteq Started \ finished /\ finished \subseteq Started
    BY <2>1 DEF Held, Places
  <2>4. Queued \cap Started = {} /\ Queued \cup Started = 1 .. submitted
    BY <2>1, <2>2 DEF Started, Contig
  <2>5. Alive => Started \subseteq Held \cup finished
    <3>1. \A t \in Started : t # None
      BY <2>1 DEF Started
    <3> QED
      BY <2>1, <3>1 DEF Held, Places
  <2> QED
    BY <2>1, <2>3, <2>4, <2>5 DEF NoJobLostOrRunTwice, Contig, Places
<1> QED
  BY <1>1, Invariant, PTL
-----------------------------------------------------------------------------
(* Every step of the pool is a step of TaskPool or leaves it as it is.       *)
LEMMA StepRefines == ASSUME IInv, [Next]_vars PROVE [TP!Next]_(TP!vars)
<1> USE Ids
<1>1. CASE UNCHANGED vars
  BY <1>1 DEF vars, history, TP!vars
<1>2. CASE RunCall \/ RunLock \/ RunNotify \/ DtorNotify
  BY <1>2 DEF RunCall, RunLock, RunNotify, DtorNotify, history, TP!vars
<1>3. CASE RunPush
  <2>1. TP!Submit
    BY <1>3 DEF RunPush, TP!Submit
  <2> QED
    BY <2>1 DEF TP!Next
<1>4. CASE DtorExit
  <2>1. TP!Close
    BY <1>4 DEF DtorExit, history, TP!Close, IInv, Control, Calls
  <2> QED
    BY <2>1 DEF TP!Next
<1>5. CASE DtorFree
  <2>1. TP!Discard
    BY <1>5 DEF DtorFree, history, TP!Discard, IInv, Control, Calls
  <2> QED
    BY <2>1 DEF TP!Next
<1>6. ASSUME NEW w \in Workers, WMoves(w) PROVE UNCHANGED TP!vars
  BY <1>6 DEF WMoves, WTop, WLock, WCheck, WWait, WExit, WPick, WSpurious,
              history, TP!vars
<1>7. ASSUME NEW w \in Workers, WTake(w) PROVE TP!Start(w)
  <2>1. job[w] = None /\ m_workque # <<>>
    BY <1>7, TakenTicket DEF IInv, Control, Jobs, WTake, Goto
  <2>2. late = 0 /\ late' = IF is_exit THEN 1 ELSE late
    BY <1>7 DEF IInv, TypeOK, Safety, Late, WTake, Goto
  <2> QED
    BY <1>7, <2>1, <2>2 DEF WTake, Front, Rest, TP!Start
<1>8. ASSUME NEW w \in Workers, WFinish(w) PROVE TP!Finish(w)
  BY <1>8 DEF WFinish, Goto, TP!Finish, IInv, Control, Jobs
<1>9. ASSUME NEW w \in Workers, WorkerStep(w) \/ WSpurious(w)
      PROVE  [TP!Next]_(TP!vars)
  BY <1>6, <1>7, <1>8, <1>9 DEF WorkerStep, WMoves, TP!Next
<1> QED
  BY <1>1, <1>2, <1>3, <1>4, <1>5, <1>9
  DEF Next, ProducerStep, DtorStep, Stopped

(* LThreadPool implements TaskPool: its mutex, condition variable and        *)
(* program counters only ever reorder what TaskPool allows.                  *)
THEOREM PoolRefinesTaskPool == Spec => ImplementsTaskPool
<1>1. Init => TP!Init
  BY DEF Init, TP!Init
<1> QED
  BY <1>1, Invariant, StepRefines, PTL DEF Spec, TP!Spec, ImplementsTaskPool
=============================================================================
