------------------------- MODULE MysqlLogin_proofs -------------------------
(* First the safety of the pool of connections, for every number of workers  *)
(* and connections.  Then: the login handler with its queries implements the *)
(* pool, for every number of workers, connections and faults, so that what   *)
(* is proved of ConnectPool holds of it; and its answers are right.          *)
EXTENDS MysqlLogin, FiniteSetTheorems, TLAPS

(* The inductive invariant.  Between lock and unlock a worker owns m_mutex.  *)
InLock == {"scan", "wrap", "take", "unlock"}
Locked == \A w \in Workers : pc[w] \in InLock <=> m_mutex = w

(* A worker has an index exactly when its scan succeeded.                    *)
Indexed == \A w \in Workers :
              /\ pc[w] \in {"idle", "lock", "scan", "wrap", "take"} => index[w] = -1
              /\ pc[w] \in {"exist", "query", "remove"} => index[w] # -1

(* The flags that the scan has passed are all 1, and stay so because nobody  *)
(* gives a connection back while the scan owns the mutex.                    *)
Passed == \A w \in Workers :
             /\ pc[w] \in {"scan", "take"} => j[w] >= 0
             /\ pc[w] = "scan" =>
                   /\ rand[w] <= j[w]
                   /\ \A i \in Conns : rand[w] <= i /\ i < j[w] => used[i] = 1
             /\ pc[w] = "wrap" =>
                   /\ j[w] <= rand[w]
                   /\ \A i \in Conns : rand[w] <= i \/ i < j[w] => used[i] = 1
             /\ pc[w] = "take" => j[w] \in Conns /\ used[j[w]] = 0

IInv == /\ TypeOK /\ Locked /\ Indexed /\ Passed
        /\ Exclusive /\ UsedIffHeld /\ RefusedOnlyWhenFull

(* What the assumptions say of the constants.                                *)
LEMMA Sizes == Size \in Nat \ {0} /\ Conns = 0 .. Size - 1 /\ None \notin Workers
  BY SizeAssumption, NoneAssumption DEF Conns

(* Before any login the invariant holds.                                     *)
LEMMA InitIInv == Init => IInv
<1> SUFFICES ASSUME Init PROVE IInv
  OBVIOUS
<1>1. TypeOK
  <2>1. 0 \in Conns /\ 0 \in 0 .. Size
    BY Sizes
  <2>2. /\ used \in [Conns -> {0, 1}]
        /\ pc \in [Workers -> PCs] /\ index \in [Workers -> Conns \cup {-1}]
        /\ rand \in [Workers -> Conns] /\ j \in [Workers -> 0 .. Size]
    BY <2>1 DEF Init, PCs
  <2> QED
    BY <2>2 DEF Init, TypeOK
<1>2. Locked /\ Indexed /\ Passed
  BY Sizes DEF Init, Locked, InLock, Indexed, Passed
<1>3. \A i \in Conns : used[i] = 0 /\ \A w \in Workers : ~Holds(w, i)
  BY DEF Init, Holds
<1>4. Exclusive /\ UsedIffHeld /\ RefusedOnlyWhenFull
  <2>1. Exclusive
    BY <1>3 DEF Exclusive
  <2>2. UsedIffHeld
    BY <1>3 DEF UsedIffHeld
  <2>3. RefusedOnlyWhenFull
    BY DEF Init, RefusedOnlyWhenFull
  <2> QED
    BY <2>1, <2>2, <2>3
<1> QED
  BY <1>1, <1>2, <1>4 DEF IInv

(* What only looks at the flags and their holders stays with them.           *)
LEMMA HoldsFrame ==
    ASSUME Exclusive, UsedIffHeld, UNCHANGED used,
           \A w \in Workers, i \in Conns : Holds(w, i)' <=> Holds(w, i)
    PROVE  Exclusive' /\ UsedIffHeld'
  BY DEF Exclusive, UsedIffHeld
-----------------------------------------------------------------------------
(* get_connect_index keeps the invariant.                                    *)
LEMMA ScanIInv ==
    ASSUME IInv, NEW w \in Workers,
           Lock(w) \/ Scan(w) \/ Wrap(w) \/ Take(w) \/ Unlock(w)
    PROVE  IInv'
<1> USE Sizes DEF IInv
<1>1. CASE Lock(w)
  <2>1. TypeOK'
    BY <1>1 DEF Lock, Goto, TypeOK, PCs
  <2>2. Locked' /\ Indexed'
    BY <1>1 DEF Lock, Goto, Free, TypeOK, Locked, InLock, Indexed
  <2>3. Passed'
    BY <1>1 DEF Lock, Goto, TypeOK, Passed
  <2>4. \A v \in Workers, i \in Conns : Holds(v, i)' <=> Holds(v, i)
    BY <1>1 DEF Lock, Goto, TypeOK, Holds
  <2>5. Exclusive' /\ UsedIffHeld'
    BY <1>1, <2>4, HoldsFrame DEF Lock
  <2>6. RefusedOnlyWhenFull'
    BY <1>1 DEF Lock, Goto, TypeOK, RefusedOnlyWhenFull
  <2> QED
    BY <2>1, <2>2, <2>3, <2>5, <2>6
<1>2. CASE Scan(w)
  <2>1. TypeOK'
    <3>1. pc' \in [Workers -> PCs] /\ j' \in [Workers -> 0 .. Size]
      <4>1. j[w] \in 0 .. Size /\ (j[w] < Size => j[w] + 1 \in 0 .. Size)
        BY DEF TypeOK
      <4>2. \/ pc' = [pc EXCEPT ![w] = "take"] /\ j' = j
            \/ pc' = pc /\ j' = [j EXCEPT ![w] = j[w] + 1] /\ j[w] < Size
            \/ pc' = [pc EXCEPT ![w] = "wrap"] /\ j' = [j EXCEPT ![w] = 0]
        BY <1>2, Zenon DEF Scan, Look
      <4>3. pc \in [Workers -> PCs] /\ j \in [Workers -> 0 .. Size]
        BY DEF TypeOK
      <4> QED
        BY <4>1, <4>2, <4>3 DEF PCs
    <3> QED
      BY <1>2, <3>1 DEF Scan, TypeOK
  <2>2. Locked' /\ Indexed'
    BY <1>2 DEF Scan, Look, TypeOK, Locked, InLock, Indexed
  <2>3. Passed'
    <3> USE DEF TypeOK, Passed
    <3>1. pc[w] = "scan" /\ UNCHANGED <<rand, used>>
      BY <1>2 DEF Scan
    <3>2. CASE /\ j[w] < Size /\ used[j[w]] = 0
               /\ pc' = [pc EXCEPT ![w] = "take"] /\ j' = j
      BY <3>1, <3>2
    <3>3. CASE /\ j[w] < Size /\ used[j[w]] # 0
               /\ pc' = pc /\ j' = [j EXCEPT ![w] = j[w] + 1]
      BY <3>1, <3>3
    <3>4. CASE /\ j[w] = Size
               /\ pc' = [pc EXCEPT ![w] = "wrap"] /\ j' = [j EXCEPT ![w] = 0]
      BY <3>1, <3>4
    <3> QED
      BY <1>2, <3>2, <3>3, <3>4, Zenon DEF Scan, Look
  <2>4. \A v \in Workers, i \in Conns : Holds(v, i)' <=> Holds(v, i)
    BY <1>2 DEF Scan, Look, TypeOK, Holds
  <2>5. Exclusive' /\ UsedIffHeld'
    BY <1>2, <2>4, HoldsFrame DEF Scan
  <2>6. RefusedOnlyWhenFull'
    BY <1>2 DEF Scan, Look, TypeOK, RefusedOnlyWhenFull
  <2> QED
    BY <2>1, <2>2, <2>3, <2>5, <2>6
<1>3. CASE Wrap(w)
  <2>1. TypeOK'
    <3>1. pc' \in [Workers -> PCs] /\ j' \in [Workers -> 0 .. Size]
      <4>1. j[w] \in 0 .. Size /\ (j[w] < rand[w] => j[w] + 1 \in 0 .. Size)
        BY DEF TypeOK
      <4> QED
        BY <1>3, <4>1 DEF Wrap, WrapEnd, Look, TypeOK, PCs
    <3> QED
      BY <1>3, <3>1 DEF Wrap, TypeOK
  <2>2. Locked' /\ Indexed'
    BY <1>3 DEF Wrap, Look, TypeOK, Locked, InLock, Indexed
  <2>3. Passed'
    BY <1>3 DEF Wrap, WrapEnd, Look, TypeOK, Passed
  <2>4. index[w] = -1 /\ index' = index /\ -1 \notin Conns
    BY <1>3 DEF Wrap, Indexed
  <2>5. \A v \in Workers, i \in Conns : Holds(v, i)' <=> Holds(v, i)
    BY <1>3, <2>4 DEF Wrap, Look, TypeOK, Holds
  <2>6. Exclusive' /\ UsedIffHeld'
    BY <1>3, <2>5, HoldsFrame DEF Wrap
  <2>7. RefusedOnlyWhenFull'
    BY <1>3 DEF Wrap, WrapEnd, Look, TypeOK, Passed, RefusedOnlyWhenFull
  <2> QED
    BY <2>1, <2>2, <2>3, <2>6, <2>7
<1>4. CASE Take(w)
  <2>1. TypeOK'
    BY <1>4 DEF Take, Taken, Goto, TypeOK, Passed, PCs
  <2>2. Locked' /\ Indexed' /\ Passed'
    BY <1>4 DEF Take, Taken, Goto, TypeOK, Locked, InLock, Indexed, Passed
  <2>3. \A v \in Workers : ~Holds(v, j[w])
    BY <1>4 DEF Take, Goto, Passed, UsedIffHeld
  <2>4. \A v \in Workers, i \in Conns :
           Holds(v, i)' <=> Holds(v, i) \/ (v = w /\ i = j[w])
    BY <1>4 DEF Take, Taken, Goto, TypeOK, Indexed, Holds
  <2>5. j[w] \in Conns /\ used' = [used EXCEPT ![j[w]] = 1]
    BY <1>4 DEF Take, Goto, Passed
  <2>6. Exclusive'
    BY <2>3, <2>4 DEF Exclusive
  <2>7. UsedIffHeld'
    BY <2>3, <2>4, <2>5 DEF TypeOK, UsedIffHeld
  <2>8. RefusedOnlyWhenFull'
    BY <1>4, <2>5 DEF Take, Taken, Goto, TypeOK, RefusedOnlyWhenFull
  <2> QED
    BY <2>1, <2>2, <2>6, <2>7, <2>8
<1>5. CASE Unlock(w)
  <2>1. TypeOK'
    BY <1>5 DEF Unlock, Owner, Goto, TypeOK, PCs
  <2>2. Locked' /\ Indexed' /\ Passed'
    BY <1>5 DEF Unlock, Owner, Goto, TypeOK, Locked, InLock, Indexed, Passed
  <2>3. \A v \in Workers, i \in Conns : Holds(v, i)' <=> Holds(v, i)
    BY <1>5 DEF Unlock, Goto, TypeOK, Holds
  <2>4. Exclusive' /\ UsedIffHeld'
    BY <1>5, <2>3, HoldsFrame DEF Unlock
  <2>5. RefusedOnlyWhenFull'
    BY <1>5 DEF Unlock, Goto, TypeOK, RefusedOnlyWhenFull
  <2> QED
    BY <2>1, <2>2, <2>4, <2>5
<1> QED
  BY <1>1, <1>2, <1>3, <1>4, <1>5

(* The queries and remove_connect_from_pool keep the invariant.              *)
LEMMA HandlerIInv ==
    ASSUME IInv, NEW w \in Workers, Exist(w) \/ Query(w) \/ Remove(w)
    PROVE  IInv'
<1> USE Sizes DEF IInv
<1>1. CASE Exist(w) \/ Query(w)
  <2>1. TypeOK'
    BY <1>1 DEF Exist, Query, QueryRecord, Goto, TypeOK, PCs
  <2>2. /\ pc[w] \in {"exist", "query"}
        /\ \E to \in {"query", "remove"} : pc' = [pc EXCEPT ![w] = to]
        /\ UNCHANGED <<m_mutex, used, index, rand, j>>
    BY <1>1 DEF Exist, Query, Goto
  <2>3. Locked' /\ Indexed' /\ Passed'
    BY <2>2 DEF TypeOK, Locked, InLock, Indexed, Passed
  <2>4. \A v \in Workers, i \in Conns : Holds(v, i)' <=> Holds(v, i)
    BY <2>2 DEF TypeOK, Holds
  <2>5. Exclusive' /\ UsedIffHeld'
    BY <2>2, <2>4, HoldsFrame
  <2>6. RefusedOnlyWhenFull'
    BY <2>2 DEF TypeOK, RefusedOnlyWhenFull
  <2> QED
    BY <2>1, <2>3, <2>5, <2>6
<1>2. CASE Remove(w)
  <2>1. index[w] \in Conns /\ Holds(w, index[w])
    BY <1>2 DEF Remove, Goto, TypeOK, Indexed, Holds
  <2>2. \A v \in Workers : pc[v] \notin InLock
    BY <1>2 DEF Remove, Free, Locked
  <2>3. TypeOK'
    BY <1>2, <2>1 DEF Remove, Given, Goto, TypeOK, PCs
  <2>4. Locked' /\ Indexed' /\ Passed'
    BY <1>2, <2>2 DEF Remove, Goto, TypeOK, Locked, InLock, Indexed, Passed
  <2>5. \A v \in Workers, i \in Conns :
           Holds(v, i)' <=> Holds(v, i) /\ v # w
    BY <1>2 DEF Remove, Goto, TypeOK, Holds
  <2>6. Exclusive' /\ UsedIffHeld'
    <3>1. \A v \in Workers : Holds(v, index[w]) => v = w
      BY <2>1 DEF Exclusive
    <3>2. \A i \in Conns : Holds(w, i) => i = index[w]
      BY DEF Holds
    <3>3. used' = [used EXCEPT ![index[w]] = 0]
      BY <1>2 DEF Remove, Given
    <3> QED
      BY <2>1, <2>5, <3>1, <3>2, <3>3 DEF TypeOK, Exclusive, UsedIffHeld
  <2>7. RefusedOnlyWhenFull'
    BY <1>2, <2>2 DEF Remove, Goto, TypeOK, InLock, RefusedOnlyWhenFull
  <2> QED
    BY <2>3, <2>4, <2>6, <2>7
<1> QED
  BY <1>1, <1>2

(* Every step keeps it.                                                      *)
LEMMA NextIInv == ASSUME IInv, [Next]_vars PROVE IInv'
<1> USE Sizes DEF IInv
<1>1. ASSUME NEW w \in Workers, Login(w) PROVE IInv'
  <2>1. TypeOK'
    BY <1>1 DEF Login, Goto, TypeOK, PCs
  <2>2. Locked' /\ Indexed' /\ Passed'
    BY <1>1 DEF Login, Goto, TypeOK, Locked, InLock, Indexed, Passed
  <2>3. \A v \in Workers, i \in Conns : Holds(v, i)' <=> Holds(v, i)
    BY <1>1 DEF Login, Goto, TypeOK, Holds
  <2>4. Exclusive' /\ UsedIffHeld'
    BY <1>1, <2>3, HoldsFrame DEF Login
  <2>5. RefusedOnlyWhenFull'
    BY <1>1 DEF Login, Goto, TypeOK, RefusedOnlyWhenFull
  <2> QED
    BY <2>1, <2>2, <2>4, <2>5
<1>2. ASSUME \/ \E w \in Workers : UnknownType(w)
             \/ UNCHANGED vars
      PROVE  IInv'
  <2>1. UNCHANGED <<m_mutex, used, locals>> /\ crashed' \in BOOLEAN
    BY <1>2 DEF UnknownType, vars, TypeOK
  <2>2. TypeOK' /\ Locked' /\ Indexed' /\ Passed'
    BY <2>1 DEF locals, TypeOK, Locked, Indexed, Passed
  <2>3. Exclusive' /\ UsedIffHeld' /\ RefusedOnlyWhenFull'
    BY <2>1 DEF locals, Exclusive, UsedIffHeld, RefusedOnlyWhenFull, Holds
  <2> QED
    BY <2>2, <2>3
<1> QED
  BY <1>1, <1>2, ScanIInv, HandlerIInv DEF Next

(* The invariant holds in every behaviour.                                   *)
THEOREM Invariant == Spec => []IInv
  BY InitIInv, NextIInv, PTL DEF Spec
-----------------------------------------------------------------------------
(* The pool and the locals of the workers have their types.                  *)
THEOREM ConnectTypeOK == Spec => []TypeOK
<1>1. IInv => TypeOK
  BY DEF IInv
<1> QED
  BY <1>1, Invariant, PTL

(* get_connect_index never lends a connection to two workers.                *)
THEOREM ConnectExclusive == Spec => []Exclusive
<1>1. IInv => Exclusive
  BY DEF IInv
<1> QED
  BY <1>1, Invariant, PTL

(* The flags of the pool say exactly which connections are lent.             *)
THEOREM ConnectUsedIffHeld == Spec => []UsedIffHeld
<1>1. IInv => UsedIffHeld
  BY DEF IInv
<1> QED
  BY <1>1, Invariant, PTL

(* The two loops of get_connect_index look at every connection.              *)
THEOREM ConnectRefusedOnlyWhenFull == Spec => []RefusedOnlyWhenFull
<1>1. IInv => RefusedOnlyWhenFull
  BY DEF IInv
<1> QED
  BY <1>1, Invariant, PTL

(* When a worker is refused, each connection is held by another worker, and  *)
(* nobody holds two: so there are at least as many others as connections.    *)
THEOREM ConnectRefusedOnlyByOthers == Spec => []RefusedOnlyByOthers
<1>1. ASSUME IInv PROVE RefusedOnlyByOthers
  <2> SUFFICES ASSUME NEW w \in Workers, pc[w] = "unlock", index[w] = -1,
                      ~(Cardinality(Holders \ {w}) >= Size)
               PROVE  FALSE
    BY DEF RefusedOnlyByOthers
  <2> DEFINE f == [i \in Conns |-> CHOOSE v \in Workers : Holds(v, i)]
             Others == Holders \ {w}
  <2>1. \A i \in Conns : f[i] \in Workers /\ Holds(f[i], i)
    BY <1>1 DEF IInv, RefusedOnlyWhenFull, UsedIffHeld
  <2>2. f \in [Conns -> Others]
    <3>1. \A i \in Conns : f[i] # w
      BY <2>1, Sizes DEF Holds
    <3> QED
      BY <2>1, <3>1 DEF Holders
  <2>3. /\ IsFiniteSet(Others) /\ IsFiniteSet(Conns)
        /\ Cardinality(Others) < Cardinality(Conns)
    <3>1. Others \subseteq Workers
      BY DEF Holders
    <3>2. IsFiniteSet(Others) /\ Cardinality(Others) \in Nat
      BY <3>1, WorkersAssumption, FS_Subset, FS_CardinalityType
    <3>3. IsFiniteSet(Conns) /\ Cardinality(Conns) = Size
      BY Sizes, FS_Interval
    <3> QED
      BY <3>2, <3>3, Sizes
  <2> HIDE DEF f, Others
  <2>4. PICK x, y \in Conns : x # y /\ f[x] = f[y]
    BY <2>2, <2>3, FS_PigeonHole
  <2>5. Holds(f[x], x) /\ Holds(f[x], y)
    BY <2>1, <2>4
  <2> QED
    BY <2>4, <2>5 DEF Holds
<1> QED
  BY <1>1, Invariant, PTL
-----------------------------------------------------------------------------
(* Every step of the handler is a step of the pool or none.                  *)
LEMMA StepRefines == ASSUME TypeOK, [LoginNext]_loginVars PROVE [Next]_vars
<1>1. ASSUME NEW w \in Workers, Arrives(w) PROVE Next
  BY <1>1 DEF Arrives, Next
<1>2. ASSUME NEW w \in Workers, Borrow(w) PROVE Next
  BY <1>2 DEF Borrow, Next
<1>3. ASSUME NEW w \in Workers, Begin(w) \/ GiveBack(w) PROVE Next
  BY <1>3 DEF Begin, GiveBack, Next
<1>4. ASSUME NEW w \in Workers, Send(w) \/ Resend(w) PROVE UNCHANGED vars
  BY <1>4 DEF Send, Resend, Result, Lost
<1>5. ASSUME NEW w \in Workers, Reconnect(w) PROVE [Next]_vars
  <2>1. CASE UNCHANGED vars
    BY <2>1
  <2>2. CASE ~UNCHANGED vars
    <3>1. Exist(w) \/ Query(w)
      BY <1>5, <2>2 DEF Reconnect, Step, Exist, Query, QueryRecord, Goto
    <3> QED
      BY <3>1 DEF Next
  <2> QED
    BY <2>1, <2>2
<1>6. ASSUME NEW w \in Workers, Returned(w) PROVE Next
  <2>1. Exist(w) \/ Query(w)
    BY <1>6 DEF Returned, Step, Then, Found, Exist, Query, QueryRecord, Goto, TypeOK
  <2> QED
    BY <2>1 DEF Next
<1>7. ASSUME NEW i \in Conns, Dropped(i) PROVE UNCHANGED vars
  BY <1>7 DEF Dropped
<1>8. CASE UNCHANGED loginVars
  BY <1>8 DEF loginVars
<1> QED
  BY <1>1, <1>2, <1>3, <1>4, <1>5, <1>6, <1>7, <1>8 DEF LoginNext, InQuery

(* The inductive invariant of ConnectPool holds here too.                    *)
THEOREM LoginInvariant == LoginSpec => []IInv
<1>1. LoginInit => IInv
  BY InitIInv DEF LoginInit
<1>2. IInv /\ [LoginNext]_loginVars => IInv'
  BY StepRefines, NextIInv DEF IInv
<1> QED
  BY <1>1, <1>2, PTL DEF LoginSpec

(* queryRecord, connect and the handler, whatever MySQL does, borrow and     *)
(* give back as the pool allows.                                             *)
THEOREM LoginImplementsPool == LoginSpec => ImplementsPool
<1>1. LoginInit => Init
  BY DEF LoginInit
<1>2. IInv /\ [LoginNext]_loginVars => [Next]_vars
  BY StepRefines DEF IInv
<1> QED
  BY <1>1, <1>2, LoginInvariant, PTL DEF LoginSpec, ImplementsPool, Spec
-----------------------------------------------------------------------------
(* What a worker knows on its way through a query, while the process runs:   *)
(* rows are those of its own statement, sessions lost are counted from the   *)
(* beginning of the query, and no rows have a reason.                        *)
Asking(w) ==
    /\ q[w] # "none" => pc[w] \in {"exist", "query"}
    /\ q[w] \in {"none", "reconnect", "resend"} => w \notin rows
    /\ w \in rows => w \in matches
    /\ q[w] = "none" /\ pc[w] # "remove" => drops[w] = 0
    /\ q[w] \in {"reconnect", "resend"} => drops[w] = 1
    /\ q[w] = "done" /\ w \in matches /\ w \notin rows => w \in refused \/ drops[w] = 2
    /\ pc[w] # "remove" => reply[w] = ""

(* RightReply for one worker, which holds after a crash too.                 *)
Told(w) == /\ reply[w] = "LOGIN_SUCCESS" => w \in matches
           /\ reply[w] = "LOGIN_FAIL" /\ w \in matches => w \in refused \/ drops[w] = 2

Sound(w) == (~crashed => Asking(w)) /\ Told(w)

LoginInv == LoginTypeOK /\ \A w \in Workers : Sound(w)

(* It holds when the pool has its connections.                              *)
LEMMA InitLoginInv == LoginInit => LoginInv
<1> SUFFICES ASSUME LoginInit PROVE LoginInv
  OBVIOUS
<1>1. TypeOK
  BY InitIInv DEF IInv, LoginInit
<1>2. faults \in 0 .. MaxFaults
  <2>1. faults = 0
    BY DEF LoginInit
  <2> QED
    BY <2>1, MaxFaultsAssumption
<1>3. LoginTypeOK
  BY <1>1, <1>2 DEF LoginInit, LoginTypeOK
<1>4. \A w \in Workers : Asking(w) /\ Told(w)
  BY DEF LoginInit, Init, Asking, Told
<1> QED
  BY <1>3, <1>4 DEF LoginInv, Sound

(* A worker does not notice the steps of the others.                         *)
Same(v) == /\ pc'[v] = pc[v] /\ q'[v] = q[v] /\ reply'[v] = reply[v] /\ drops'[v] = drops[v]
           /\ v \in rows' <=> v \in rows
           /\ v \in matches' <=> v \in matches
           /\ v \in refused' <=> v \in refused

(* So what is true of it stays true.                                         *)
LEMMA SoundFrame ==
    ASSUME NEW v \in Workers, Sound(v), ~crashed, Same(v) PROVE Sound(v)'
  BY DEF Sound, Asking, Told, Same

(* The bound on faults is kept.                                              *)
LEMMA FaultType ==
    ASSUME faults \in 0 .. MaxFaults, Fault \/ UNCHANGED faults
    PROVE  faults' \in 0 .. MaxFaults
  BY MaxFaultsAssumption DEF Fault

(* The steps in the pool.                                                    *)
LEMMA PoolLoginInv ==
    ASSUME IInv, IInv', LoginInv, NEW w \in Workers,
           Arrives(w) \/ Borrow(w) \/ Begin(w) \/ GiveBack(w)
    PROVE  LoginInv'
<1>1. TypeOK' /\ Sound(w) /\ LoginTypeOK
  BY DEF IInv, LoginInv
<1>2. /\ ~crashed /\ pc \in [Workers -> PCs]
      /\ \A v \in Workers \ {w} : pc'[v] = pc[v]
  BY DEF Arrives, Borrow, Begin, GiveBack, Login, Lock, Scan, Look, Wrap, Take, Unlock,
         Remove, UnknownType, Goto, IInv, TypeOK, locals
<1>3. LoginTypeOK' /\ Sound(w)' /\ \A v \in Workers \ {w} : Same(v)
  <2>1. CASE Arrives(w) \/ Borrow(w)
    <3>1. pc[w] \in {"idle", "lock", "scan", "wrap", "take"} /\ pc'[w] # "remove"
      BY <2>1 DEF Arrives, Borrow, Login, Lock, Scan, Look, Wrap, Take,
                  UnknownType, Goto, IInv, TypeOK, locals
    <3>2. UNCHANGED <<session, query, matches, reply, faults>>
      BY <2>1 DEF Arrives, Borrow
    <3>3. LoginTypeOK'
      BY <1>1, <3>2 DEF query, LoginTypeOK
    <3>4. Sound(w)'
      BY <1>1, <1>2, <3>1, <3>2 DEF query, Sound, Asking, Told
    <3> QED
      BY <1>2, <3>2, <3>3, <3>4 DEF query, Same
  <2>2. CASE Begin(w)
    <3>1. pc[w] = "unlock" /\ pc'[w] \in {"idle", "exist"}
      BY <2>2 DEF Begin, Unlock, Goto, IInv, TypeOK
    <3>2. /\ UNCHANGED <<session, query, reply, faults>>
          /\ matches' \in {matches, matches \cup {w}}
      BY <2>2 DEF Begin
    <3>3. LoginTypeOK'
      BY <1>1, <3>2 DEF query, LoginTypeOK
    <3>4. Sound(w)'
      BY <1>1, <1>2, <3>1, <3>2 DEF query, Sound, Asking, Told
    <3> QED
      BY <1>2, <3>2, <3>3, <3>4 DEF query, Same
  <2>3. CASE GiveBack(w)
    <3>1. pc[w] = "remove" /\ pc'[w] = "idle"
      BY <2>3 DEF GiveBack, Remove, Goto, IInv, TypeOK
    <3>2. LoginTypeOK'
      BY <1>1, <2>3 DEF GiveBack, LoginTypeOK
    <3>3. Sound(w)'
      BY <1>1, <1>2, <2>3, <3>1 DEF GiveBack, LoginTypeOK, Sound, Asking, Told
    <3>4. ASSUME NEW v \in Workers \ {w} PROVE Same(v)
      BY <1>1, <1>2, <2>3 DEF GiveBack, LoginTypeOK, Same
    <3> QED
      BY <3>2, <3>3, <3>4
  <2> QED
    BY <2>1, <2>2, <2>3
<1> QED
  BY <1>2, <1>3, SoundFrame DEF LoginInv

(* The steps of a query.                                                     *)
LEMMA QueryLoginInv ==
    ASSUME IInv, IInv', LoginInv, NEW w \in Workers, InQuery(w)
    PROVE  LoginInv'
<1>1. /\ TypeOK' /\ Sound(w) /\ LoginTypeOK /\ index[w] \in Conns
      /\ pc \in [Workers -> PCs]
  BY DEF IInv, TypeOK, Indexed, LoginInv, InQuery, Send, Reconnect, Resend, Returned, Step
<1>2. ~crashed /\ pc[w] \in {"exist", "query"} /\ reply[w] = ""
  BY <1>1 DEF InQuery, Send, Reconnect, Resend, Returned, Step, Sound, Asking
<1>3. ASSUME Result(w), q[w] \in {"none", "resend"}, q' = [q EXCEPT ![w] = "done"]
      PROVE  LoginTypeOK' /\ Sound(w)' /\ \A v \in Workers \ {w} : Same(v)
  <2>1. UNCHANGED <<pc, crashed, matches, reply, drops>>
    BY <1>3 DEF Result, vars, locals
  <2>2. LoginTypeOK'
    <3>1. faults' \in 0 .. MaxFaults
      BY <1>1, <1>3, FaultType DEF Result, LoginTypeOK
    <3> QED
      BY <1>1, <1>3, <3>1 DEF Result, LoginTypeOK
  <2>3. Sound(w)'
    BY <1>1, <1>2, <1>3, <2>1 DEF Result, LoginTypeOK, Sound, Asking, Told
  <2> QED
    BY <1>1, <1>3, <2>1, <2>2, <2>3 DEF Result, LoginTypeOK, Same
<1>4. ASSUME Lost(w), NEW next \in {"reconnect", "done"},
             next = "done" <=> q[w] = "resend", q[w] \in {"none", "resend"},
             q' = [q EXCEPT ![w] = next]
      PROVE  LoginTypeOK' /\ Sound(w)' /\ \A v \in Workers \ {w} : Same(v)
  <2>1. /\ UNCHANGED <<pc, crashed, session, rows, matches, refused, reply, faults>>
        /\ drops' = [drops EXCEPT ![w] = @ + 1]
    BY <1>4 DEF Lost, vars, locals
  <2>2. w \notin rows /\ drops[w] = IF q[w] = "none" THEN 0 ELSE 1
    BY <1>1, <1>2, <1>4 DEF Sound, Asking
  <2>3. drops'[w] = (IF q[w] = "none" THEN 1 ELSE 2) /\ drops' \in [Workers -> {0, 1, 2}]
    <3>1. drops[w] + 1 = IF q[w] = "none" THEN 1 ELSE 2
      BY <2>2
    <3>2. drops' = [drops EXCEPT ![w] = IF q[w] = "none" THEN 1 ELSE 2]
      BY <2>1, <3>1
    <3> QED
      BY <1>1, <3>2 DEF LoginTypeOK
  <2>4. LoginTypeOK'
    BY <1>1, <1>4, <2>1, <2>3 DEF LoginTypeOK
  <2>5. Sound(w)'
    BY <1>1, <1>2, <1>4, <2>1, <2>2, <2>3 DEF LoginTypeOK, Sound, Asking, Told
  <2> QED
    BY <1>1, <1>4, <2>1, <2>4, <2>5 DEF LoginTypeOK, Same
<1>5. ASSUME Send(w) \/ Resend(w)
      PROVE  LoginTypeOK' /\ Sound(w)' /\ \A v \in Workers \ {w} : Same(v)
  BY <1>3, <1>4, <1>5 DEF Send, Resend, Step, OnLost
<1>6. ASSUME Reconnect(w)
      PROVE  LoginTypeOK' /\ Sound(w)' /\ \A v \in Workers \ {w} : Same(v)
  <2>1. /\ q[w] = "reconnect" /\ q' = [q EXCEPT ![w] = "resend"]
        /\ UNCHANGED <<rows, drops, refused, matches, reply>>
        /\ crashed' \/ pc' = pc
        /\ \A v \in Workers \ {w} : pc'[v] = pc[v]
    BY <1>1, <1>6 DEF Reconnect, Step, vars, locals
  <2>2. LoginTypeOK'
    <3>1. faults' \in 0 .. MaxFaults
      BY <1>1, <1>6, FaultType DEF Reconnect, LoginTypeOK
    <3>2. session' \in {session, session \cup {index[w]}}
      BY <1>6 DEF Reconnect
    <3> QED
      BY <1>1, <2>1, <3>1, <3>2 DEF LoginTypeOK
  <2>3. Sound(w)'
    BY <1>1, <1>2, <2>1 DEF LoginTypeOK, Sound, Asking, Told
  <2> QED
    BY <1>1, <2>1, <2>2, <2>3 DEF LoginTypeOK, Same
<1>7. ASSUME Returned(w)
      PROVE  LoginTypeOK' /\ Sound(w)' /\ \A v \in Workers \ {w} : Same(v)
  <2>1. /\ q[w] = "done" /\ q' = [q EXCEPT ![w] = "none"]
        /\ pc'[w] = Then(w) /\ \A v \in Workers \ {w} : pc'[v] = pc[v]
        /\ reply' = [reply EXCEPT ![w] = Reply(w)]
        /\ rows' = rows \ {w}
        /\ drops' = IF Found(w) THEN [drops EXCEPT ![w] = 0] ELSE drops
        /\ UNCHANGED <<crashed, session, refused, matches, faults>>
    BY <1>1, <1>7 DEF Returned, Step
  <2>2. Reply(w) \in {"", "LOGIN_SUCCESS", "LOGIN_FAIL"}
    BY DEF Reply
  <2>3. LoginTypeOK'
    BY <1>1, <2>1, <2>2 DEF LoginTypeOK
  <2>4. Sound(w)'
    <3>1. CASE Found(w)
      BY <1>1, <1>2, <2>1, <3>1 DEF LoginTypeOK, Sound, Asking, Told, Then, Found, Reply
    <3>2. CASE ~Found(w)
      BY <1>1, <1>2, <2>1, <3>2 DEF LoginTypeOK, Sound, Asking, Told, Then, Found, Reply
    <3> QED
      BY <3>1, <3>2
  <2> QED
    BY <1>1, <2>1, <2>3, <2>4 DEF LoginTypeOK, Same
<1> QED
  BY <1>2, <1>5, <1>6, <1>7, SoundFrame DEF InQuery, LoginInv

(* The answers of the handler are right, and its variables have their types. *)
THEOREM LoginRightReply == LoginSpec => [](LoginTypeOK /\ RightReply)
<1>1. ASSUME IInv, IInv', LoginInv, [LoginNext]_loginVars PROVE LoginInv'
  <2>1. ASSUME NEW i \in Conns, Dropped(i) PROVE LoginInv'
    <3>1. TypeOK' /\ ~crashed /\ \A v \in Workers : Same(v)
      BY <1>1, <2>1 DEF Dropped, query, vars, locals, IInv, Same
    <3>2. LoginTypeOK'
      <4>1. faults' \in 0 .. MaxFaults
        BY <1>1, <2>1, FaultType DEF Dropped, LoginInv, LoginTypeOK
      <4> QED
        BY <1>1, <2>1, <3>1, <4>1 DEF Dropped, query, LoginInv, LoginTypeOK
    <3> QED
      BY <1>1, <3>1, <3>2, SoundFrame DEF LoginInv
  <2>2. CASE UNCHANGED loginVars
    BY <1>1, <2>2 DEF loginVars, query, vars, locals, LoginInv, LoginTypeOK, IInv,
                      Sound, Asking, Told
  <2> QED
    BY <1>1, <2>1, <2>2, PoolLoginInv, QueryLoginInv DEF LoginNext
<1>2. LoginInv => LoginTypeOK /\ RightReply
  BY DEF LoginInv, Sound, Told, RightReply
<1> QED
  BY <1>1, <1>2, InitLoginInv, LoginInvariant, PTL DEF LoginSpec
=============================================================================
