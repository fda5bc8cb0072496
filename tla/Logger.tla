------------------------------- MODULE Logger -------------------------------
(* The asynchronous log (src/Logger/Logger.cpp): any thread appends to       *)
(* queue_ in AddToQueue, one thread writes the queue to the file, and Stop   *)
(* ends it.  Stop is called from term() in src/main.cpp, the handler of      *)
(* SIGINT, which interrupts a thread at any point, also inside AddToQueue,   *)
(* and logs before it stops the log.  SIGINT goes to the main thread or, as  *)
(* long as that runs a handler and blocks it, to any other thread.           *)
EXTENDS Naturals, Sequences

CONSTANTS Writers,      \* reactor threads and workers
          Main,         \* the main thread
          Log,          \* the thread in threadfunc
          MaxMsg,       \* no call of AddToQueue begins after so many messages
          MaxSignals,   \* bound on the SIGINTs, each with a run of term()
          None

ASSUME BoundAssumption == MaxMsg \in Nat /\ MaxSignals \in Nat
Handlers == 1 .. MaxSignals
Threads == Writers \cup {Main, Log}
Callers == Writers \cup {Main} \cup Handlers

ASSUME ThreadAssumption == /\ Main \notin Writers /\ Log \notin Writers /\ Main # Log
                           /\ Handlers \cap Threads = {}
                           /\ None \notin Threads \cup Handlers

VARIABLES mutex_, queue_, exit_,
          fp_,          \* "open", "closed" or "none"
          file,         \* what was written
          w,            \* w[t]: where caller t stands in AddToQueue
          l,            \* where the log thread stands in threadfunc
          h,            \* h[k]: where the k-th run of term() stands
          on,           \* on[k]: the thread it interrupts
          joined,       \* spthread_ was joined
          sent,         \* history: messages queued so far, the n-th is n
          late,         \* history: messages written after exit_ was set
          crashed       \* join() threw in the handler or had no thread

vars == <<mutex_, queue_, exit_, fp_, file, w, l, h, on, joined, sent, late,
          crashed>>

TypeOK == /\ mutex_ \in Callers \cup {Log, None}
          /\ queue_ \in Seq(Nat) /\ file \in Seq(Nat)
          /\ exit_ \in BOOLEAN /\ joined \in BOOLEAN /\ crashed \in BOOLEAN
          /\ fp_ \in {"open", "closed", "none"}
          /\ w \in [Callers -> {"idle", "lock", "hold", "notify"}]
          /\ l \in {"top", "lock", "test", "exit?", "wait", "waiting", "woken",
                    "write", "done", "none"}
          /\ l = "write" => queue_ # <<>>   \* front() of a real list
          /\ h \in [Handlers -> {"none", "log1", "log2", "exit", "notify", "join",
                                  "joining", "close", "over"}]
          /\ on \in [Handlers -> Threads \cup {None}]
          /\ sent \in Nat
          /\ late \in Nat

(* Start() has opened the file and started the thread, or fopen has failed   *)
(* and TcpServer::startLogger has not looked at the result.                  *)
Init == /\ mutex_ = None /\ queue_ = <<>> /\ exit_ = FALSE
        /\ fp_ \in {"open", "none"} /\ file = <<>>
        /\ w = [t \in Callers |-> "idle"]
        /\ l = IF fp_ = "open" THEN "top" ELSE "none"
        /\ h = [k \in Handlers |-> "none"] /\ on = [k \in Handlers |-> None]
        /\ joined = FALSE /\ sent = 0 /\ late = 0 /\ crashed = FALSE

Free_bug == TRUE            \* the queue without its mutex
Free == mutex_ = None

(* A handler has the stack of its thread, which goes on when it returns.     *)
Interrupted(t) == \E k \in Handlers : on[k] = t

CanRun(t) == /\ ~crashed /\ ~Interrupted(t)
             /\ t \in Handlers => h[t] \in {"log1", "log2"}
-----------------------------------------------------------------------------
(* AddToQueue by thread t: lock, emplace_back, unlock, notify_one.           *)
AddCall(t) == /\ CanRun(t)
              /\ w[t] = "idle"
              /\ t \notin Handlers => sent < MaxMsg
              /\ w' = [w EXCEPT ![t] = "lock"]
              /\ UNCHANGED <<mutex_, queue_, exit_, fp_, file, l, h, on, joined,
                             sent, late, crashed>>

AddLock(t) == /\ CanRun(t)
              /\ w[t] = "lock" /\ Free
              /\ mutex_' = t
              /\ w' = [w EXCEPT ![t] = "hold"]
              /\ UNCHANGED <<queue_, exit_, fp_, file, l, h, on, joined, sent,
                             late, crashed>>

AddPush(t) == /\ CanRun(t)
              /\ w[t] = "hold"
              /\ queue_' = Append(queue_, sent + 1)
              /\ sent' = sent + 1
              /\ mutex_' = None
              /\ w' = [w EXCEPT ![t] = "notify"]
              /\ UNCHANGED <<exit_, fp_, file, l, h, on, joined, late, crashed>>

Woken_bug == l              \* the notification is forgotten
Woken == IF l = "waiting" THEN "woken" ELSE l

AddNotify(t) == /\ CanRun(t)
                /\ w[t] = "notify"
                /\ l' = Woken
                /\ w' = [w EXCEPT ![t] = "idle"]
                /\ h' = [k \in Handlers |-> IF k # t THEN h[k]
                                         ELSE IF h[k] = "log1" THEN "log2" ELSE "exit"]
                /\ UNCHANGED <<mutex_, queue_, exit_, fp_, file, on, joined, sent, late,
                               crashed>>
-----------------------------------------------------------------------------
(* threadfunc: while(!exit_), which is read without the mutex.               *)
LTop == /\ CanRun(Log) /\ l = "top"
        /\ l' = IF exit_ THEN "done" ELSE "lock"
        /\ UNCHANGED <<mutex_, queue_, exit_, fp_, file, w, h, on, joined, sent,
                       late, crashed>>

AfterWait == "test"

LLock == /\ CanRun(Log) /\ l \in {"lock", "woken"} /\ Free
         /\ mutex_' = Log
         /\ l' = IF l = "woken" THEN AfterWait ELSE "test"
         /\ UNCHANGED <<queue_, exit_, fp_, file, w, h, on, joined, sent, late,
                        crashed>>

(* while(queue_.empty()) { if(exit_) return; wait }                          *)
LTest == /\ CanRun(Log) /\ l = "test"
         /\ l' = IF queue_ = <<>> THEN "exit?" ELSE "write"
         /\ UNCHANGED <<mutex_, queue_, exit_, fp_, file, w, h, on, joined, sent,
                        late, crashed>>

LExit == /\ CanRun(Log) /\ l = "exit?"
         /\ l' = IF exit_ THEN "done" ELSE "wait"
         /\ mutex_' = IF exit_ THEN None ELSE mutex_
         /\ UNCHANGED <<queue_, exit_, fp_, file, w, h, on, joined, sent, late,
                        crashed>>

LWait == /\ CanRun(Log) /\ l = "wait"
         /\ mutex_' = None
         /\ l' = "waiting"
         /\ UNCHANGED <<queue_, exit_, fp_, file, w, h, on, joined, sent, late,
                        crashed>>

LSpurious == /\ ~crashed /\ l = "waiting"
             /\ l' = "woken"
             /\ UNCHANGED <<mutex_, queue_, exit_, fp_, file, w, h, on, joined,
                            sent, late, crashed>>

(* fwrite, fflush, pop_front, and the end of the round unlocks.              *)
Front_bug == queue_[Len(queue_)]    \* back() instead of front()
Front == Head(queue_)
Round_bug == "lock"                 \* for(;;) instead of while(!exit_)
Round == "top"

LWrite == /\ CanRun(Log) /\ l = "write"
          /\ file' = Append(file, Front)
          /\ queue_' = Tail(queue_)
          /\ late' = late + (IF exit_ THEN 1 ELSE 0)
          /\ mutex_' = None
          /\ l' = Round
          /\ UNCHANGED <<exit_, fp_, w, h, on, joined, sent, crashed>>
-----------------------------------------------------------------------------
(* SIGINT: term() logs twice on its way to Stop, once itself and once in     *)
(* TcpServer::stop().                                                        *)
Receives(t) == IF ~Interrupted(Main) THEN t = Main
               ELSE ~Interrupted(t) /\ (t = Log => l \notin {"done", "none"})

Signal(k) == /\ ~crashed /\ h[k] = "none" /\ \A j \in 1 .. k - 1 : h[j] # "none"
             /\ h' = [h EXCEPT ![k] = "log1"]
             /\ \E t \in Threads : Receives(t) /\ on' = [on EXCEPT ![k] = t]
             /\ UNCHANGED <<mutex_, queue_, exit_, fp_, file, w, l, joined, sent, late,
                            crashed>>

Goto(k, from, to) == ~crashed /\ h[k] = from /\ h' = [h EXCEPT ![k] = to]

(* Stop(): exit_ = true and notify_one, neither under the mutex.             *)
StopExit(k) == /\ Goto(k, "exit", "notify")
               /\ exit_' = TRUE
               /\ UNCHANGED <<mutex_, queue_, fp_, file, w, l, on, joined, sent, late,
                              crashed>>

StopNotify(k) == /\ Goto(k, "notify", "join")
                 /\ l' = Woken
                 /\ UNCHANGED <<mutex_, queue_, exit_, fp_, file, w, on, joined, sent,
                                late, crashed>>

(* spthread_->join(): without a thread it uses a null pointer; it throws     *)
(* when the thread was joined, is being joined or is the one that joins.     *)
Joinable(k) == /\ fp_ # "none" /\ ~joined /\ on[k] # Log
               /\ \A j \in Handlers : h[j] # "joining"

StopJoin(k) == /\ Goto(k, "join", "joining")
               /\ crashed' = ~Joinable(k)
               /\ UNCHANGED <<mutex_, queue_, exit_, fp_, file, w, l, on, joined, sent,
                              late>>

(* It returns when threadfunc is over.                                       *)
Ended_bug == TRUE           \* detach() instead of join()
Ended == l = "done"

StopJoined(k) == /\ Goto(k, "joining", "close") /\ Ended
                 /\ joined' = TRUE
                 /\ UNCHANGED <<mutex_, queue_, exit_, fp_, file, w, l, on, sent, late,
                                crashed>>

StopClose(k) == /\ Goto(k, "close", "over")
                /\ fp_' = "closed"
                /\ on' = [on EXCEPT ![k] = None]
                /\ UNCHANGED <<mutex_, queue_, exit_, file, w, l, joined, sent, late,
                               crashed>>
-----------------------------------------------------------------------------
AddStep(t) == AddLock(t) \/ AddPush(t) \/ AddNotify(t)
LogStep == LTop \/ LLock \/ LTest \/ LExit \/ LWait \/ LWrite
StopStep(k) == \/ AddCall(k) \/ StopExit(k) \/ StopNotify(k)
               \/ StopJoin(k) \/ StopJoined(k) \/ StopClose(k)

Next == \/ \E t \in Writers \cup {Main} : AddCall(t)
        \/ \E t \in Callers : AddStep(t)
        \/ \E k \in Handlers : Signal(k) \/ StopStep(k)
        \/ LogStep \/ LSpurious

Spec == Init /\ [][Next]_vars

(* Threads run and get the mutex in the long run; nobody is forced to log.   *)
FairSpec == /\ Spec
            /\ WF_vars(LogStep) /\ SF_vars(LLock)
            /\ \A k \in Handlers : WF_vars(StopStep(k))
            /\ \A t \in Callers : WF_vars(AddStep(t)) /\ SF_vars(AddLock(t))
-----------------------------------------------------------------------------
(* The file followed by the queue is what the threads logged, in the order   *)
(* in which they logged it: nothing is lost, written twice or reordered.     *)
LogInOrder == file \o queue_ = [n \in 1 .. sent |-> n]

(* The file is closed only when threadfunc is over: no fwrite on a closed    *)
(* FILE, whatever interrupts what.                                           *)
NoWriteAfterClose == fp_ = "closed" => l = "done"

(* After exit_ is set at most one more message reaches the file; what else   *)
(* is queued is lost.                                                        *)
AtMostOneLateWrite == late <= 1

(* A run of term() waits for the mutex that the thread under it owns.        *)
SelfDeadlock == \E k \in Handlers : w[k] = "lock" /\ mutex_ = on[k]

(* What is queued reaches the file, unless there is none, the log is being   *)
(* stopped or a signal handler has locked out its own thread.                *)
MessagesWritten ==
    queue_ # <<>> ~> (queue_ = <<>> \/ exit_ \/ SelfDeadlock \/ fp_ = "none")

(* The comment in Stop: it waits for the thread to end.  So Stop returns.    *)
StopReturns == exit_ ~> (fp_ = "closed" \/ crashed)
=============================================================================
