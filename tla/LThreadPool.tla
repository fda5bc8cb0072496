---------------------------- MODULE LThreadPool ----------------------------
(* LThreadPool<T> (include/LThread/LThreadPool.h): a mutex, a condition      *)
(* variable, a queue of jobs and detached worker threads.  One step of a     *)
(* worker is the code between two points where another thread can interfere: *)
(* m_workLock protects m_workque, but is_exit is a plain bool that the       *)
(* destructor writes without the lock, so every read of it is a step.        *)
(*                                                                           *)
(* The n-th call of Run carries the ticket n, so that losing or repeating a  *)
(* job is visible although the program submits the same T* again and again.  *)
EXTENDS Naturals, Sequences, FiniteSets

CONSTANTS MinThreads,    \* MIN_WTHREAD_NUMBER
          MaxThreads,    \* MAX_WTHREAD_NUMBER
          MaxWork,       \* MAX_WORK_NUMBER: the backlog that asks for growth
          InitThreads,   \* argument of the constructor
          MaxRuns,       \* bound on the calls of Run
          None           \* no job, nobody

ASSUME ThreadsAssumption == /\ MinThreads \in Nat \ {0}
                            /\ MaxThreads \in Nat
                            /\ MinThreads <= MaxThreads
                            /\ InitThreads \in Nat
ASSUME WorkAssumption == MaxWork \in Nat /\ MaxRuns \in Nat
ASSUME NoneAssumption == None \notin Nat

Workers == 1 .. MaxThreads
Tickets == 1 .. MaxRuns
Producer == 0     \* the reactor thread that owns the pool

VARIABLES m_workque,        \* std::queue<T*>, as tickets
          m_workLock,       \* the thread that owns the mutex, or None
          is_exit,          \* the shutdown flag
          m_initThreadNum,  \* what the pool believes about its size
          m_allThread,      \* how many LWorkerThread objects m_allThread holds
          pc,               \* pc[w]: where worker w stands in worker()
          job,              \* job[w]: the ticket in w's local variable job
          run,              \* where the reactor stands in Run()
          dtor,             \* where ~LThreadPool() stands
          submitted,        \* history: calls of Run that pushed
          finished,         \* history: tickets whose task() returned
          late              \* history: pops after is_exit was set

poolVars == <<m_initThreadNum, m_allThread>>
history  == <<submitted, finished, late>>
vars == <<m_workque, m_workLock, is_exit, poolVars, pc, job, run, dtor, history>>

WorkerPCs == {"none",     \* no such thread yet
              "top",      \* about to test is_exit in the outer while
              "lock",     \* acquiring m_workLock
              "check",    \* owns the lock, about to test the wait predicate
              "await",    \* owns the lock, about to call wait()
              "waiting",  \* inside wait(), the lock released
              "woken",    \* inside wait(), reacquiring the lock
              "pick",     \* owns the lock, about to test is_exit again
              "take",     \* owns the lock, about to pop
              "task",     \* running job->task() without the lock
              "done"}     \* returned from worker()

(* The points of worker() at which the thread owns m_workLock.               *)
Inside == {"check", "await", "pick", "take"}

TypeOK == /\ m_workque \in Seq(Tickets)
          /\ m_workLock \in Workers \cup {Producer, None}
          /\ is_exit \in BOOLEAN
          /\ m_initThreadNum \in Nat
          /\ m_allThread \in Nat
          /\ pc \in [Workers -> WorkerPCs]
          /\ job \in [Workers -> Tickets \cup {None}]
          /\ run \in {"idle", "lock", "push", "notify"}
          /\ dtor \in {"none", "exit", "sleep", "freed"}
          /\ submitted \in 0 .. MaxRuns
          /\ finished \subseteq Tickets
          /\ late \in Nat
-----------------------------------------------------------------------------
(* The constructor replaces an argument outside MinThreads..MaxThreads.      *)
ClampedInit == IF InitThreads > MaxThreads \/ InitThreads < MinThreads
               THEN MinThreads ELSE InitThreads

(* The constructor sets m_initThreadNum and increaseThread adds the same     *)
(* number again.                                                             *)
Init == /\ m_workque = <<>>
        /\ m_workLock = None
        /\ is_exit = FALSE
        /\ m_initThreadNum = ClampedInit + ClampedInit
        /\ m_allThread = ClampedInit
        /\ pc = [w \in Workers |-> IF w <= ClampedInit THEN "top" ELSE "none"]
        /\ job = [w \in Workers |-> None]
        /\ run = "idle"
        /\ dtor = "none"
        /\ submitted = 0
        /\ finished = {}
        /\ late = 0

(* increaseThread(num) as it acts on the program counters of the threads.    *)
Spawned(num) == [w \in Workers |->
                   IF w \in m_allThread + 1 .. m_allThread + num
                   THEN "top" ELSE pc[w]]

(* The condition of Run for adding threads, and how many it adds.            *)
MustGrow == MaxWork <= Len(m_workque) /\ m_initThreadNum < MaxThreads
(* A definition whose name ends in _bug, or that extends the name of its     *)
(* neighbour, is a seeded fault: a plausible mistake in the definition that  *)
(* follows it.  Nothing in the model uses it.                                *)
Growth_max == IF MustGrow THEN MaxThreads ELSE 0   \* increaseThread(m_maxThreadNum)
Growth == IF MustGrow THEN MaxThreads - m_initThreadNum ELSE 0

Alive == dtor # "freed"
Free_bug == TRUE            \* the critical sections without the mutex
Free == m_workLock = None
Goto(w, from, to) == pc[w] = from /\ pc' = [pc EXCEPT ![w] = to]
-----------------------------------------------------------------------------
(* Run(job), called by the one reactor that owns the pool.                   *)
RunCall == /\ run = "idle" /\ Alive
           /\ submitted < MaxRuns
           /\ run' = "lock"
           /\ UNCHANGED <<m_workque, m_workLock, is_exit, poolVars, pc, job,
                          dtor, history>>

RunLock == /\ run = "lock" /\ Alive
           /\ Free
           /\ m_workLock' = Producer
           /\ run' = "push"
           /\ UNCHANGED <<m_workque, is_exit, poolVars, pc, job, dtor, history>>

(* Inside the lock: grow when the backlog asks for it, push, unlock.         *)
RunPush == /\ run = "push" /\ Alive
           /\ pc' = Spawned(Growth)
           /\ m_allThread' = m_allThread + Growth
           /\ m_initThreadNum' = m_initThreadNum + Growth
           /\ m_workque' = Append(m_workque, submitted + 1)
           /\ submitted' = submitted + 1
           /\ m_workLock' = None
           /\ run' = "notify"
           /\ UNCHANGED <<is_exit, job, dtor, finished, late>>

(* notify_all() moves every waiting thread to the reacquisition of the lock. *)
NotifyAll_one ==            \* notify_one instead of notify_all
    LET asleep == {w \in Workers : pc[w] = "waiting"}
    IN  IF asleep = {} THEN pc
        ELSE [pc EXCEPT ![CHOOSE w \in asleep : TRUE] = "woken"]
NotifyAll_none == pc        \* the notification is forgotten
NotifyAll == [w \in Workers |-> IF pc[w] = "waiting" THEN "woken" ELSE pc[w]]

RunNotify == /\ run = "notify" /\ Alive
             /\ pc' = NotifyAll
             /\ run' = "idle"
             /\ UNCHANGED <<m_workque, m_workLock, is_exit, poolVars, job, dtor,
                            history>>
-----------------------------------------------------------------------------
(* worker(): while(!is_exit)                                                 *)
WTop(w) == /\ Alive
           /\ IF is_exit THEN Goto(w, "top", "done") ELSE Goto(w, "top", "lock")
           /\ UNCHANGED <<m_workque, m_workLock, is_exit, poolVars, job, run,
                          dtor, history>>

(* unique_lock, or the reacquisition inside wait().                          *)
AfterWait_bug == "pick"     \* if instead of while around wait()
AfterWait == "check"

WLock(w) == /\ Alive
            /\ Free
            /\ Goto(w, "lock", "check") \/ Goto(w, "woken", AfterWait)
            /\ m_workLock' = w
            /\ UNCHANGED <<m_workque, is_exit, poolVars, job, run, dtor, history>>

(* while(!is_exit && m_workque.empty())                                      *)
MustWait == ~is_exit /\ m_workque = <<>>

WCheck(w) == /\ Alive
             /\ Goto(w, "check", IF MustWait THEN "await" ELSE "pick")
             /\ UNCHANGED <<m_workque, m_workLock, is_exit, poolVars, job, run,
                            dtor, history>>

(* wait() releases the mutex and starts to wait in one step.                 *)
WWait(w) == /\ Alive
            /\ Goto(w, "await", "waiting")
            /\ m_workLock' = None
            /\ UNCHANGED <<m_workque, is_exit, poolVars, job, run, dtor, history>>

(* A condition variable may wake a thread that nobody notified.              *)
WSpurious(w) == /\ Alive
                /\ Goto(w, "waiting", "woken")
                /\ UNCHANGED <<m_workque, m_workLock, is_exit, poolVars, job,
                               run, dtor, history>>

(* if(is_exit) { unlock; break; }                                            *)
WExit(w) == /\ Alive
            /\ is_exit
            /\ Goto(w, "pick", "done")
            /\ m_workLock' = None
            /\ UNCHANGED <<m_workque, is_exit, poolVars, job, run, dtor, history>>

(* if(!m_workque.empty()): PickFindsWork shows that its else is dead code.   *)
MayWork_bug == m_workque # <<>>   \* is_exit is not tested after the wait
MayWork == ~is_exit /\ m_workque # <<>>

WPick(w) == /\ Alive
            /\ MayWork
            /\ Goto(w, "pick", "take")
            /\ UNCHANGED <<m_workque, m_workLock, is_exit, poolVars, job, run,
                           dtor, history>>

(* front(), pop(), unlock().                                                 *)
Front_bug == m_workque[Len(m_workque)]   \* a stack instead of a queue
Front == Head(m_workque)
Rest_bug == m_workque                    \* front() without pop()
Rest == Tail(m_workque)

WTake(w) == /\ Alive
            /\ Goto(w, "take", "task")
            /\ job' = [job EXCEPT ![w] = Front]
            /\ m_workque' = Rest
            /\ m_workLock' = None
            /\ late' = late + (IF is_exit THEN 1 ELSE 0)
            /\ UNCHANGED <<is_exit, poolVars, run, dtor, submitted, finished>>

(* job->task() returns; it touches the job and not the pool.                 *)
WFinish(w) == /\ Goto(w, "task", "top")
              /\ finished' = finished \cup {job[w]}
              /\ job' = [job EXCEPT ![w] = None]
              /\ UNCHANGED <<m_workque, m_workLock, is_exit, poolVars, run, dtor,
                             submitted, late>>
-----------------------------------------------------------------------------
(* ~LThreadPool(): is_exit is set without m_workLock, the threads are        *)
(* notified, sleep(1) stands for any delay, and the pool is freed without    *)
(* joining anyone.  A worker that comes back to a freed pool has undefined   *)
(* behaviour: the model leaves it where it is.                               *)
DtorExit == /\ dtor = "none"
            /\ is_exit' = TRUE
            /\ dtor' = "exit"
            /\ UNCHANGED <<m_workque, m_workLock, poolVars, pc, job, run, history>>

DtorNotify == /\ dtor = "exit"
              /\ pc' = NotifyAll
              /\ dtor' = "sleep"
              /\ UNCHANGED <<m_workque, m_workLock, is_exit, poolVars, job, run,
                             history>>

DtorFree == /\ dtor = "sleep"
            /\ m_workque' = <<>>
            /\ m_allThread' = 0
            /\ dtor' = "freed"
            /\ UNCHANGED <<m_workLock, is_exit, m_initThreadNum, pc, job, run,
                           history>>

(* After the free only the tasks under way can still end.                    *)
Stopped == /\ dtor = "freed"
           /\ \A w \in Workers : pc[w] # "task"
           /\ UNCHANGED vars
-----------------------------------------------------------------------------
WorkerStep(w) == \/ WTop(w) \/ WLock(w) \/ WCheck(w) \/ WWait(w) \/ WExit(w)
                 \/ WPick(w) \/ WTake(w) \/ WFinish(w)

ProducerStep == RunCall \/ RunLock \/ RunPush \/ RunNotify
DtorStep == DtorExit \/ DtorNotify \/ DtorFree

Next == \/ ProducerStep \/ DtorStep \/ Stopped
        \/ \E w \in Workers : WorkerStep(w) \/ WSpurious(w)

Spec == Init /\ [][Next]_vars

(* A runnable thread is eventually scheduled, and the mutex is eventually    *)
(* given to the reactor in Run.  Nothing forces a call of Run, a spurious    *)
(* wakeup or the destructor.                                                 *)
Fairness == /\ WF_vars(RunPush) /\ WF_vars(RunNotify) /\ SF_vars(RunLock)
            /\ \A w \in Workers : WF_vars(WorkerStep(w))

FairSpec == Spec /\ Fairness
-----------------------------------------------------------------------------
(* A thread is at a point inside the lock exactly when it owns it.  The      *)
(* queue is only touched there, so this is the absence of data races on it.  *)
LockOwner == /\ \A w \in Workers : pc[w] \in Inside <=> m_workLock = w
             /\ run = "push" <=> m_workLock = Producer

(* No lost wakeup: when a job is queued and the notify_all of its Run is     *)
(* over, no worker sleeps, whatever the order of pushes, pops, spurious      *)
(* wakeups and waits.                                                        *)
NoSleeperWithWork == m_workque # <<>> /\ run # "notify"
                        => \A w \in Workers : pc[w] # "waiting"

(* A worker that leaves the wait loop without is_exit finds a job: the last  *)
(* else of worker() is dead code and front() never reads an empty queue.     *)
PickFindsWork == Alive => \A w \in Workers :
                             /\ pc[w] = "pick" => is_exit \/ m_workque # <<>>
                             /\ pc[w] = "take" => m_workque # <<>>

(* Every ticket is in exactly one place: queued, in the hands of one worker  *)
(* or finished, until the destructor throws the queue away; and it leaves    *)
(* the queue in the order of the calls of Run.                               *)
Queued == {m_workque[i] : i \in 1 .. Len(m_workque)}
Held   == {job[w] : w \in Workers} \ {None}

NoJobLostOrRunTwice ==
    /\ \A i \in 1 .. Len(m_workque) :
          m_workque[i] = submitted - Len(m_workque) + i
    /\ \A v, w \in Workers : v # w /\ job[v] # None => job[v] # job[w]
    /\ Queued \cap Held = {} /\ Queued \cap finished = {}
    /\ Held \cap finished = {}
    /\ Alive => Queued \cup Held \cup finished = 1 .. submitted

(* Growing never takes the pool over MAX_WTHREAD_NUMBER threads, and because *)
(* the first threads are counted twice it stays below by their number: with  *)
(* five and ten, as in config.hpp, the pool never grows.                     *)
ThreadBound == \/ m_allThread <= ClampedInit
               \/ m_allThread <= MaxThreads - ClampedInit

(* After is_exit is set at most one more job is started by all the workers   *)
(* together: the queue is abandoned, not drained.                            *)
AtMostOneLateJob == late <= 1

(* The pool implements the abstract task pool.                               *)
TP == INSTANCE TaskPool WITH pending <- m_workque, running <- job,
                             closed <- is_exit
ImplementsTaskPool == TP!Spec

(* Every job handed to Run is executed, unless the pool is shut down.        *)
EveryJobRuns == \A t \in Tickets :
                   (submitted >= t) ~> (t \in finished \/ is_exit)
=============================================================================
