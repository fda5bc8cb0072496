---------------------------- MODULE Logger_proofs ----------------------------
(* The safety of Logger for any number of threads, messages and signals.     *)
EXTENDS Logger, SequenceTheorems, TLAPS

LEMMA Ids == /\ Log \notin Callers /\ None \notin Callers /\ Log # None
             /\ Handlers \subseteq Callers /\ Main \in Callers
             /\ Log \in Threads /\ Main \in Threads
  BY ThreadAssumption DEF Callers, Threads
-----------------------------------------------------------------------------
(* The inductive invariant.  Who is inside a critical section owns mutex_.   *)
Inside == {"test", "exit?", "wait", "write"}

Owner == /\ \A t \in Callers : w[t] = "hold" <=> mutex_ = t
         /\ l \in Inside <=> mutex_ = Log

(* The file is closed after the join, and the join after the end.            *)
Closing == /\ fp_ = "closed" => joined
           /\ \A k \in Handlers : h[k] = "close" => joined
           /\ joined => l = "done"

(* The late message takes the log thread to the test of exit_.               *)
Late == late <= 1 /\ (late = 1 => exit_ /\ l \in {"top", "done"})

(* The file has the first messages and the queue the rest.                   *)
Order == /\ sent = Len(file) + Len(queue_)
         /\ \A i \in 1 .. Len(file) : file[i] = i
         /\ \A i \in 1 .. Len(queue_) : queue_[i] = Len(file) + i

IInv == TypeOK /\ Owner /\ Closing /\ Late /\ Order

(* Start() establishes the inductive invariant.                              *)
LEMMA InitIInv == Init => IInv
<1> SUFFICES ASSUME Init PROVE IInv
  OBVIOUS
<1> USE Ids
<1>1. <<>> \in Seq(Nat) /\ Len(<<>>) = 0
  OBVIOUS
<1>2. TypeOK
  <2>1. w \in [Callers -> {"idle", "lock", "hold", "notify"}]
    BY DEF Init
  <2>2. /\ h \in [Handlers -> {"none", "log1", "log2", "exit", "notify", "join", "joining",
                             "close", "over"}]
        /\ on \in [Handlers -> Threads \cup {None}]
    BY DEF Init
  <2> QED
    BY <1>1, <2>1, <2>2 DEF Init, TypeOK
<1>3. Owner /\ Closing /\ Late
  BY DEF Init, Owner, Inside, Closing, Late
<1>4. Order
  BY <1>1 DEF Init, Order
<1> QED
  BY <1>2, <1>3, <1>4 DEF IInv

(* Waking the log thread leaves it outside the mutex, and where it is over.  *)
LEMMA WokenFacts ==
    ASSUME IInv
    PROVE  /\ Woken \in {"top", "lock", "test", "exit?", "wait", "waiting", "woken",
                         "write", "done", "none"}
           /\ Woken \in Inside <=> l \in Inside
           /\ Woken = "write" <=> l = "write"
           /\ Woken = "done" <=> l = "done"
           /\ Woken = "top" <=> l = "top"
  BY DEF IInv, TypeOK, Woken, Inside
-----------------------------------------------------------------------------
(* AddToQueue keeps the invariant, whoever calls it.                         *)
LEMMA AddIInv == ASSUME IInv, NEW t \in Callers, AddCall(t) \/ AddStep(t)
                 PROVE  IInv'
<1> USE Ids DEF IInv
<1>1. CASE AddCall(t)
  BY <1>1 DEF AddCall, TypeOK, Owner, Inside, Closing, Late, Order
<1>2. CASE AddLock(t)
  <2>1. TypeOK' /\ Owner'
    BY <1>2 DEF AddLock, Free, TypeOK, Owner
  <2>2. Closing' /\ Late' /\ Order'
    BY <1>2 DEF AddLock, Closing, Late, Order
  <2> QED
    BY <2>1, <2>2
<1>3. CASE AddPush(t)
  <2>1. queue_ \in Seq(Nat) /\ sent \in Nat /\ queue_' = Append(queue_, sent + 1)
    BY <1>3 DEF AddPush, TypeOK
  <2>2. /\ queue_' \in Seq(Nat) /\ queue_' # <<>>
        /\ Len(queue_') = Len(queue_) + 1
        /\ \A i \in 1 .. Len(queue_') :
              queue_'[i] = IF i <= Len(queue_) THEN queue_[i] ELSE sent + 1
    BY <2>1
  <2>3. TypeOK' /\ Owner'
    BY <1>3, <2>2 DEF AddPush, TypeOK, Owner
  <2>4. Closing' /\ Late'
    BY <1>3 DEF AddPush, Closing, Late
  <2>5. Len(file) \in Nat /\ Len(queue_) \in Nat /\ sent' = sent + 1 /\ file' = file
    BY <1>3 DEF AddPush, TypeOK
  <2>6. Order'
    <3>1. /\ sent' = Len(file') + Len(queue_')
          /\ \A i \in 1 .. Len(file') : file'[i] = i
      BY <2>2, <2>5 DEF Order
    <3>2. ASSUME NEW i \in 1 .. Len(queue_') PROVE queue_'[i] = Len(file') + i
      <4>1. CASE i <= Len(queue_)
        <5>1. i \in 1 .. Len(queue_) /\ queue_'[i] = queue_[i]
          BY <2>2, <2>5, <4>1
        <5> QED
          BY <2>5, <5>1 DEF Order
      <4>2. CASE i > Len(queue_)
        <5>1. i = Len(queue_) + 1 /\ queue_'[i] = sent + 1
          BY <2>2, <2>5, <4>2
        <5> QED
          BY <2>5, <5>1 DEF Order
      <4> QED
        BY <2>2, <2>5, <4>1, <4>2
    <3> QED
      BY <3>1, <3>2 DEF Order
  <2> QED
    BY <2>3, <2>4, <2>6
<1>4. CASE AddNotify(t)
  <2>1. TypeOK' /\ Owner'
    <3>1. h' \in [Handlers -> {"none", "log1", "log2", "exit", "notify", "join", "joining",
                             "close", "over"}]
      BY <1>4 DEF AddNotify, TypeOK
    <3>2. w' \in [Callers -> {"idle", "lock", "hold", "notify"}]
      BY <1>4 DEF AddNotify, TypeOK
    <3>3. TypeOK'
      BY <1>4, <3>1, <3>2, WokenFacts DEF AddNotify, TypeOK
    <3> QED
      BY <1>4, <3>3, WokenFacts DEF AddNotify, TypeOK, Owner
  <2>2. Closing' /\ Late' /\ Order'
    BY <1>4, WokenFacts DEF AddNotify, Closing, Late, Order
  <2> QED
    BY <2>1, <2>2
<1> QED
  BY <1>1, <1>2, <1>3, <1>4 DEF AddStep

(* The round of threadfunc that writes moves one message to the file.        *)
LEMMA WriteIInv == ASSUME IInv, LWrite PROVE IInv'
<1> USE Ids DEF IInv
<1>1. /\ queue_ \in Seq(Nat) /\ queue_ # <<>> /\ file \in Seq(Nat)
      /\ file' = Append(file, Head(queue_)) /\ queue_' = Tail(queue_)
  BY DEF LWrite, Front, TypeOK
<1>2. /\ queue_' \in Seq(Nat) /\ Len(queue_') = Len(queue_) - 1
      /\ \A i \in 1 .. Len(queue_') : queue_'[i] = queue_[i + 1]
      /\ Head(queue_) = queue_[1] /\ Head(queue_) \in Nat
      /\ Len(queue_) \in Nat /\ Len(queue_) # 0
  BY <1>1
<1>3. /\ file' \in Seq(Nat) /\ Len(file') = Len(file) + 1 /\ Len(file) \in Nat
      /\ \A i \in 1 .. Len(file') :
            file'[i] = IF i <= Len(file) THEN file[i] ELSE queue_[1]
  BY <1>1, <1>2
<1>4. TypeOK' /\ Owner'
  BY <1>2, <1>3 DEF LWrite, Round, TypeOK, Owner, Inside
<1>5. Closing' /\ Late'
  BY DEF LWrite, Round, TypeOK, Closing, Late
<1>6. /\ sent' = Len(file') + Len(queue_')
      /\ \A i \in 1 .. Len(file') : file'[i] = i
  BY <1>2, <1>3 DEF LWrite, Order
<1>7. ASSUME NEW i \in 1 .. Len(queue_') PROVE queue_'[i] = Len(file') + i
  <2>1. i + 1 \in 1 .. Len(queue_)
    BY <1>2
  <2> QED
    BY <1>2, <1>3, <2>1 DEF Order
<1> QED
  BY <1>4, <1>5, <1>6, <1>7 DEF Order

(* So do the other steps of the log thread, the signal and Stop.             *)
LEMMA LogIInv == ASSUME IInv, LogStep \/ LSpurious PROVE IInv'
<1> USE Ids DEF IInv
<1>1. CASE LTop
  BY <1>1 DEF LTop, TypeOK, Owner, Inside, Closing, Late, Order
<1>2. CASE LLock
  BY <1>2 DEF LLock, AfterWait, Free, TypeOK, Owner, Inside, Closing, Late, Order
<1>3. CASE LTest
  BY <1>3 DEF LTest, TypeOK, Owner, Inside, Closing, Late, Order
<1>4. CASE LExit
  BY <1>4 DEF LExit, TypeOK, Owner, Inside, Closing, Late, Order
<1>5. CASE LWait
  BY <1>5 DEF LWait, TypeOK, Owner, Inside, Closing, Late, Order
<1>6. CASE LSpurious
  BY <1>6 DEF LSpurious, TypeOK, Owner, Inside, Closing, Late, Order
<1> QED
  BY <1>1, <1>2, <1>3, <1>4, <1>5, <1>6, WriteIInv DEF LogStep

LEMMA StopIInv == ASSUME IInv, NEW k \in Handlers, Signal(k) \/ StopStep(k) PROVE IInv'
<1> USE Ids DEF IInv
<1>1. CASE Signal(k)
  <2>1. on' \in [Handlers -> Threads \cup {None}]
    <3>1. PICK t \in Threads : on' = [on EXCEPT ![k] = t]
      BY <1>1 DEF Signal
    <3> QED
      BY <3>1 DEF TypeOK
  <2> QED
    BY <1>1, <2>1 DEF Signal, TypeOK, Owner, Closing, Late, Order
<1>2. CASE StopExit(k)
  BY <1>2 DEF StopExit, Goto, TypeOK, Owner, Closing, Late, Order
<1>3. CASE StopNotify(k)
  BY <1>3, WokenFacts DEF StopNotify, Goto, TypeOK, Owner, Closing, Late, Order
<1>4. CASE StopJoin(k)
  <2>1. crashed' \in BOOLEAN
    BY <1>4 DEF StopJoin, Joinable
  <2> QED
    BY <1>4, <2>1 DEF StopJoin, Goto, TypeOK, Owner, Closing, Late, Order
<1>5. CASE StopJoined(k)
  BY <1>5 DEF StopJoined, Goto, Ended, TypeOK, Owner, Closing, Late, Order
<1>6. CASE StopClose(k)
  BY <1>6 DEF StopClose, Goto, TypeOK, Owner, Closing, Late, Order
<1> QED
  BY <1>1, <1>2, <1>3, <1>4, <1>5, <1>6, Ids, AddIInv DEF StopStep

LEMMA NextIInv == IInv /\ [Next]_vars => IInv'
<1> SUFFICES ASSUME IInv, [Next]_vars PROVE IInv'
  OBVIOUS
<1>1. CASE Next
  BY <1>1, Ids, AddIInv, LogIInv, StopIInv DEF Next, Callers
<1>2. CASE UNCHANGED vars
  BY <1>2 DEF vars, IInv, TypeOK, Owner, Closing, Late, Order
<1> QED
  BY <1>1, <1>2

LEMMA Invariant == Spec => []IInv
<1> QED
  BY InitIInv, NextIInv, PTL DEF Spec
-----------------------------------------------------------------------------
(* Type correctness of the log; threadfunc never takes the front of an empty *)
(* queue.                                                                    *)
THEOREM LogTypeOK == Spec => []TypeOK
<1>1. IInv => TypeOK
  BY DEF IInv
<1> QED
  BY <1>1, Invariant, PTL

(* The file followed by the queue is what the threads logged, in their       *)
(* order: AddToQueue and threadfunc lose, repeat and reorder nothing.        *)
THEOREM LogOrder == Spec => []LogInOrder
<1>1. IInv => LogInOrder
  <2> SUFFICES ASSUME IInv PROVE LogInOrder
    OBVIOUS
  <2> DEFINE s == file \o queue_
             n == Len(file) + Len(queue_)
  <2>1. file \in Seq(Nat) /\ queue_ \in Seq(Nat) /\ sent = n
    BY DEF IInv, TypeOK, Order
  <2>2. s \in Seq(Nat) /\ Len(s) = n
    BY <2>1
  <2>3. ASSUME NEW i \in 1 .. n PROVE s[i] = i
    <3>1. CASE i <= Len(file)
      BY <2>1, <3>1 DEF IInv, Order
    <3>2. CASE i > Len(file)
      <4>1. i - Len(file) \in 1 .. Len(queue_) /\ s[i] = queue_[i - Len(file)]
        BY <2>1, <3>2
      <4>2. queue_[i - Len(file)] = Len(file) + (i - Len(file))
        BY <4>1 DEF IInv, Order
      <4> QED
        BY <2>1, <4>1, <4>2
    <3> QED
      BY <2>1, <3>1, <3>2
  <2>4. [i \in 1 .. sent |-> i] \in Seq(Nat) /\ Len([i \in 1 .. sent |-> i]) = sent
    BY <2>1
  <2> QED
    BY <2>1, <2>2, <2>3, <2>4, SeqEqual DEF LogInOrder
<1> QED
  BY <1>1, Invariant, PTL

(* Stop closes the file only after threadfunc is over, whatever the signal   *)
(* interrupted and however many signals there are.                           *)
THEOREM LogNoWriteAfterClose == Spec => []NoWriteAfterClose
<1>1. IInv => NoWriteAfterClose
  BY DEF IInv, Closing, NoWriteAfterClose
<1> QED
  BY <1>1, Invariant, PTL

(* At most one message is written after Stop set exit_.                      *)
THEOREM LogAtMostOneLateWrite == Spec => []AtMostOneLateWrite
<1>1. IInv => AtMostOneLateWrite
  BY DEF IInv, Late, AtMostOneLateWrite
<1> QED
  BY <1>1, Invariant, PTL
=============================================================================
