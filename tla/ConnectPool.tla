---------------------------- MODULE ConnectPool ----------------------------
(* connect_pool (include/LMysql/connect_pool.h) with the workers that use    *)
(* it: Message::messageAnalysis and LoginMagHandler::handleRequest in        *)
(* src/app/Message.cpp, and the query path of MysqlHelper.                   *)
(* get_connect_index scans the vector of flags from a random place and wraps *)
(* around; every look at a flag is a step, so what the mutex protects is     *)
(* explored and not assumed.                                                 *)
EXTENDS Integers, FiniteSets

CONSTANTS Workers,      \* threads of all the pools of the server
          Size,         \* MYSQL_CONNECT_NUMBER
          None

ASSUME SizeAssumption == Size \in Nat \ {0}
ASSUME WorkersAssumption == IsFiniteSet(Workers)
ASSUME NoneAssumption == None \notin Workers

Conns == 0 .. Size - 1

VARIABLES m_mutex,      \* the worker that owns the mutex, or None
          used,         \* m_used_index_vect
          pc, index, rand, j,   \* the locals of each worker
          crashed       \* an exception or a null handler ended the process

locals == <<pc, index, rand, j>>
vars == <<m_mutex, used, locals, crashed>>

PCs == {"idle", "lock", "scan", "wrap", "take", "unlock", "exist", "query", "remove"}

TypeOK == /\ m_mutex \in Workers \cup {None}
          /\ used \in [Conns -> {0, 1}]
          /\ pc \in [Workers -> PCs]
          /\ index \in [Workers -> Conns \cup {-1}]
          /\ rand \in [Workers -> Conns]
          /\ j \in [Workers -> 0 .. Size]
          /\ crashed \in BOOLEAN

(* connect_pool::init, before any reactor runs: every connection is free.    *)
Init == /\ m_mutex = None
        /\ used = [i \in Conns |-> 0]
        /\ pc = [w \in Workers |-> "idle"]
        /\ index = [w \in Workers |-> -1]
        /\ rand = [w \in Workers |-> 0]
        /\ j = [w \in Workers |-> 0]
        /\ crashed = FALSE

Goto(w, from, to) == ~crashed /\ pc[w] = from /\ pc' = [pc EXCEPT ![w] = to]
-----------------------------------------------------------------------------
(* messageAnalysis: only a login uses the pool.  A type without a case       *)
(* leaves the handler of the Executor null.                                  *)
Login(w) == Goto(w, "idle", "lock") /\ UNCHANGED <<m_mutex, used, index, rand, j, crashed>>

UnknownType(w) == /\ ~crashed /\ pc[w] = "idle"
                  /\ crashed' = TRUE
                  /\ UNCHANGED <<m_mutex, used, locals>>

(* get_connect_index: pthread_mutex_lock, rand_index.                        *)
Free_bug == TRUE            \* the scan without the mutex
Free == m_mutex = None

Lock(w) == /\ Free
           /\ Goto(w, "lock", "scan")
           /\ m_mutex' = w
           /\ \E r \in Conns : /\ rand' = [rand EXCEPT ![w] = r]
                               /\ j' = [j EXCEPT ![w] = r]
           /\ UNCHANGED <<used, index, crashed>>

(* One round of either loop: a free connection ends it, otherwise look at    *)
(* the next flag.                                                            *)
Look(w) == IF used[j[w]] = 0
           THEN pc' = [pc EXCEPT ![w] = "take"] /\ UNCHANGED j
           ELSE j' = [j EXCEPT ![w] = @ + 1] /\ UNCHANGED pc

(* for(j = rand_index; j < size; j++), and on to the second loop.            *)
Scan(w) == /\ ~crashed /\ pc[w] = "scan"
           /\ \/ j[w] < Size /\ Look(w)
              \/ /\ j[w] = Size
                 /\ pc' = [pc EXCEPT ![w] = "wrap"]
                 /\ j' = [j EXCEPT ![w] = 0]
           /\ UNCHANGED <<m_mutex, used, index, rand, crashed>>

(* for(i = 0; i < rand_index; i++); index stays -1 when nothing is free.     *)
WrapEnd_bug(w) == 0         \* the second loop is missing
WrapEnd(w) == rand[w]

Wrap(w) == /\ ~crashed /\ pc[w] = "wrap"
           /\ \/ j[w] < WrapEnd(w) /\ Look(w)
              \/ /\ j[w] >= WrapEnd(w)
                 /\ pc' = [pc EXCEPT ![w] = "unlock"]
                 /\ UNCHANGED j
           /\ UNCHANGED <<m_mutex, used, index, rand, crashed>>

(* m_used_index_vect[j] = 1; index = j; break.                               *)
Taken(w) == j[w]

Take(w) == /\ Goto(w, "take", "unlock")
           /\ used' = [used EXCEPT ![j[w]] = 1]
           /\ index' = [index EXCEPT ![w] = Taken(w)]
           /\ UNCHANGED <<m_mutex, rand, j, crashed>>

(* pthread_mutex_unlock, and the locals of the scan are gone.  The handler   *)
(* gives up when index is -1, and otherwise asks get_connect for the         *)
(* connection.                                                               *)
Owner_bug(w) == w           \* the mutex stays locked
Owner(w) == None

Unlock(w) == /\ Goto(w, "unlock", IF index[w] = -1 THEN "idle" ELSE "exist")
             /\ m_mutex' = Owner(w)
             /\ rand' = [rand EXCEPT ![w] = 0]
             /\ j' = [j EXCEPT ![w] = 0]
             /\ UNCHANGED <<used, index, crashed>>
-----------------------------------------------------------------------------
(* queryRecord.  MySQL may have dropped the connection, which is then opened *)
(* again; connect() throws when that fails, and nobody catches it.  No rows  *)
(* mean that there is no such user, or that the query failed.                *)
QueryRecord == crashed' \in BOOLEAN

(* existRecord: rows lead to the second query, none to LOGIN_FAIL.           *)
Exist(w) == /\ Goto(w, "exist", "query") \/ Goto(w, "exist", "remove")
            /\ QueryRecord
            /\ UNCHANGED <<m_mutex, used, index, rand, j>>

(* The same query again for the user id.  With rows or without, the          *)
(* connection is given back.                                                 *)
Query(w) == /\ Goto(w, "query", "remove")
            /\ QueryRecord
            /\ UNCHANGED <<m_mutex, used, index, rand, j>>

(* remove_connect_from_pool, on every way out of the handler, whose locals   *)
(* are gone with it.                                                         *)
Given_bug(w) == used        \* the flag is not reset
Given(w) == [used EXCEPT ![index[w]] = 0]

Remove(w) == /\ Free
             /\ Goto(w, "remove", "idle")
             /\ used' = Given(w)
             /\ index' = [index EXCEPT ![w] = -1]
             /\ UNCHANGED <<m_mutex, rand, j, crashed>>
-----------------------------------------------------------------------------
Next == \E w \in Workers : \/ Login(w) \/ UnknownType(w)
                           \/ Lock(w) \/ Scan(w) \/ Wrap(w) \/ Take(w) \/ Unlock(w)
                           \/ Exist(w) \/ Query(w) \/ Remove(w)

Spec == Init /\ [][Next]_vars
-----------------------------------------------------------------------------
(* w has taken connection index[w] and not yet given it back.                *)
Holds(w, i) == /\ index[w] = i
               /\ pc[w] \in {"unlock", "exist", "query", "remove"}

(* Two workers never talk to MySQL over the same connection.                 *)
Exclusive == \A v, w \in Workers : \A i \in Conns :
                Holds(v, i) /\ Holds(w, i) => v = w

(* A connection is marked used exactly while a worker holds it: none leaks   *)
(* on any way through the handler, and none is lent while in use.            *)
UsedIffHeld == \A i \in Conns : used[i] = 1 <=> \E w \in Workers : Holds(w, i)

(* The scan misses nothing: a worker is refused only when at that moment     *)
(* every connection is in use, wherever its scan began.                      *)
RefusedOnlyWhenFull == \A w \in Workers : pc[w] = "unlock" /\ index[w] = -1
                          => \A i \in Conns : used[i] = 1

(* A worker is refused only when as many other workers as there are          *)
(* connections hold one.  So with sixty connections for five pools of at     *)
(* most ten threads, as in config.hpp, nobody is ever refused.               *)
Holders == {v \in Workers : \E i \in Conns : Holds(v, i)}

RefusedOnlyByOthers == \A w \in Workers : pc[w] = "unlock" /\ index[w] = -1
                          => Cardinality(Holders \ {w}) >= Size

(* A login is over some day: it is not stuck in the pool, and it gives its   *)
(* connection back.                                                          *)
LoginEnds == \A w \in Workers : pc[w] # "idle" ~> (pc[w] = "idle" \/ crashed)
=============================================================================
