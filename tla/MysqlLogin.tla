----------------------------- MODULE MysqlLogin -----------------------------
(* LoginMagHandler::handleRequest (src/app/Message.cpp) with its two         *)
(* queries: ConnectPool, which has the loan of a connection, and in it       *)
(* MysqlHelper::queryRecord and connect (src/LMysql/mysqlhelper.cpp), which  *)
(* open a dropped connection again and send the query once more.             *)
(* The exception of connect passes all callers and ends the process, so that *)
(* _bConnected is true whenever queryRecord begins.  MySQL is seen through   *)
(* what its library returns.  Exist and Query of ConnectPool, which allow    *)
(* any outcome, become the steps of a query here, and Returned implements    *)
(* them.                                                                     *)
EXTENDS ConnectPool

CONSTANTS MaxFaults     \* bound on what goes wrong with MySQL

ASSUME MaxFaultsAssumption == MaxFaults \in Nat

VARIABLES
    session,            \* the connections whose session MySQL still has
    q,                  \* where a worker stands in queryRecord, or "none"
    rows,               \* the workers whose query has found a row
    matches,            \* those whose statement finds rows in the table, see Begin
    reply,              \* the answer of each: LOGIN_SUCCESS, LOGIN_FAIL, or an empty one
    drops, refused,     \* history: sessions lost in a query, queries refused
    faults              \* faults so far

query == <<q, rows, drops, refused>>
loginVars == <<vars, session, query, matches, reply, faults>>

Fault == faults < MaxFaults /\ faults' = faults + 1

LoginInit == /\ Init
             /\ session = Conns
             /\ q = [w \in Workers |-> "none"]
             /\ rows = {} /\ matches = {} /\ refused = {}
             /\ reply = [w \in Workers |-> ""]
             /\ drops = [w \in Workers |-> 0]
             /\ faults = 0

Step(w, from, to) == /\ ~crashed /\ pc[w] \in {"exist", "query"}
                     /\ q[w] = from /\ q' = [q EXCEPT ![w] = to]
-----------------------------------------------------------------------------
(* The pool, with what the handler adds to it.                               *)
Arrives(w) == Login(w) /\ UNCHANGED <<session, query, matches, reply, faults>>

Borrow(w) == /\ Lock(w) \/ Scan(w) \/ Wrap(w) \/ Take(w) \/ UnknownType(w)
             /\ UNCHANGED <<session, query, matches, reply, faults>>

(* The statement, put together from name and password as they came, nothing  *)
(* escaped: whether it finds rows is up to the text and the table, and not   *)
(* only to whether that name has that password.  It matters only to one that *)
(* has a connection.  The table does not change between the two queries.     *)
Begin(w) == /\ Unlock(w)
            /\ \/ UNCHANGED matches
               \/ index[w] # -1 /\ matches' = matches \cup {w}
            /\ UNCHANGED <<session, query, reply, faults>>

(* The last step of the handler, which then returns the reply.               *)
GiveBack(w) == /\ Remove(w)
               /\ reply' = [reply EXCEPT ![w] = ""]
               /\ matches' = matches \ {w}
               /\ drops' = [drops EXCEPT ![w] = 0]
               /\ refused' = refused \ {w}
               /\ UNCHANGED <<session, q, rows, faults>>

(* MySQL ends a session that is idle, or the network does.                   *)
Dropped(i) == /\ ~crashed /\ i \in session /\ Fault
              /\ session' = session \ {i}
              /\ UNCHANGED <<vars, query, matches, reply>>
-----------------------------------------------------------------------------
(* mysql_real_query and mysql_store_result on a session that is there: the   *)
(* rows, or an error, of the statement or of a session that breaks while the *)
(* rows are fetched.  In each case the query is over.                        *)
Result(w) ==
    /\ index[w] \in session
    /\ \/ /\ rows' = rows \cup (matches \cap {w})
          /\ UNCHANGED <<session, refused, faults>>
       \/ /\ Fault
          /\ refused' = refused \cup {w}
          /\ session' \in {session, session \ {index[w]}}
          /\ UNCHANGED rows
    /\ UNCHANGED <<vars, matches, reply, drops>>

(* mysql_real_query on a session that is lost.                               *)
Lost(w) == /\ index[w] \notin session
           /\ drops' = [drops EXCEPT ![w] = @ + 1]
           /\ UNCHANGED <<vars, session, rows, refused, matches, reply, faults>>

(* The errors 2013, 2006 and 4031 lead to connect().                         *)
OnLost_bug == "done"         \* the error of a lost session is not among them
OnLost == "reconnect"

Send(w) == \/ Step(w, "none", "done") /\ Result(w)
           \/ Step(w, "none", OnLost) /\ Lost(w)

(* connect(): disconnect, mysql_init and mysql_real_connect, which throws    *)
(* when MySQL does not answer.                                               *)
Reconnect(w) ==
    /\ Step(w, "reconnect", "resend")
    /\ \/ /\ session' = session \cup {index[w]}
          /\ UNCHANGED <<vars, faults>>
       \/ /\ Fault
          /\ crashed' = TRUE
          /\ pc' = [pc EXCEPT ![w] = "remove"]
          /\ UNCHANGED <<m_mutex, used, index, rand, j, session>>
    /\ UNCHANGED <<rows, drops, refused, matches, reply>>

(* Once more, and a second error is only logged: no rows.                    *)
Resend(w) == Step(w, "resend", "done") /\ (Result(w) \/ Lost(w))
-----------------------------------------------------------------------------
(* existRecord, or the second queryRecord, has returned.                     *)
Found(w) == pc[w] = "exist" /\ w \in rows

Then_bug(w) == IF pc[w] = "exist" THEN "query" ELSE "idle"  \* not given back
Then(w) == IF Found(w) THEN "query" ELSE "remove"

Reply(w) == CASE pc[w] = "query" /\ w \in rows -> "LOGIN_SUCCESS"
              [] pc[w] = "exist" /\ w \notin rows -> "LOGIN_FAIL"
              [] OTHER -> ""

Returned(w) ==
    /\ Step(w, "done", "none")
    /\ pc' = [pc EXCEPT ![w] = Then(w)]
    /\ reply' = [reply EXCEPT ![w] = Reply(w)]
    /\ rows' = rows \ {w}
    /\ drops' = IF Found(w) THEN [drops EXCEPT ![w] = 0] ELSE drops
    /\ UNCHANGED <<m_mutex, used, index, rand, j, crashed, session, refused, matches, faults>>
-----------------------------------------------------------------------------
InQuery(w) == Send(w) \/ Reconnect(w) \/ Resend(w) \/ Returned(w)

LoginNext == \/ \E w \in Workers : \/ Arrives(w) \/ Borrow(w) \/ Begin(w)
                                     \/ InQuery(w) \/ GiveBack(w)
             \/ \E i \in Conns : Dropped(i)

LoginSpec == LoginInit /\ [][LoginNext]_loginVars

(* As in ConnectPool: threads go on, and the mutex is granted in the long    *)
(* run.  Nothing is assumed of MySQL but that its calls return.              *)
Handling(w) == pc[w] # "idle" /\ (Borrow(w) \/ Begin(w) \/ InQuery(w) \/ GiveBack(w))

LoginFairSpec == LoginSpec /\ \A w \in Workers : SF_loginVars(Handling(w))
-----------------------------------------------------------------------------
LoginTypeOK == /\ TypeOK
               /\ session \subseteq Conns
               /\ q \in [Workers -> {"none", "reconnect", "resend", "done"}]
               /\ rows \subseteq Workers /\ matches \subseteq Workers
               /\ refused \subseteq Workers
               /\ reply \in [Workers -> {"", "LOGIN_SUCCESS", "LOGIN_FAIL"}]
               /\ drops \in [Workers -> {0, 1, 2}]
               /\ faults \in 0 .. MaxFaults

(* The handler with its queries and reconnections is, for the pool, nothing  *)
(* but Exist and Query: whatever MySQL does, the connection is borrowed and  *)
(* given back as ConnectPool says, so that what is proved there holds here.  *)
ImplementsPool == Spec

(* The answer is the table's: LOGIN_SUCCESS follows two queries that found   *)
(* rows for the statement of this login, whatever was lost and sent again in *)
(* between, and where there are such rows LOGIN_FAIL is told only when MySQL *)
(* reported another error or the session was lost twice within one query.    *)
RightReply == \A w \in Workers :
    /\ reply[w] = "LOGIN_SUCCESS" => w \in matches
    /\ reply[w] = "LOGIN_FAIL" /\ w \in matches => w \in refused \/ drops[w] = 2
=============================================================================
