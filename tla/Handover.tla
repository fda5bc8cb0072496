------------------------------ MODULE Handover ------------------------------
(* Who owns an LJob: what EPOLLONESHOT promises to the reactor thread, the   *)
(* workers and the main thread, which share the objects without a lock.      *)
(* Nothing is said of descriptors, maps and places in the code: an object is *)
(* in one place at a time, and passes on only from there.                    *)
(* SubReactor implements this specification.                                 *)
EXTENDS Naturals, Sequences

CONSTANTS Objects,      \* the LJobs
          Workers, None

VARIABLES place,        \* where an object is
          pending,      \* the queue of the pool
          running       \* running[w]: the object that the worker w has

vars == <<place, pending, running>>

Init == /\ place = [o \in Objects |-> "nobody"]
        /\ pending = <<>>
        /\ running = [w \in Workers |-> None]

Move(o, from, to) == place[o] = from /\ place' = [place EXCEPT ![o] = to]
Stay == UNCHANGED <<pending, running>>

(* The main thread makes an object, and once it is armed for reading has no  *)
(* more to do with it.                                                       *)
Create(o) == Move(o, "nobody", "main") /\ Stay
Arm(o) == Move(o, "main", "in") /\ Stay

(* The events of some objects, each once: from then on they are the          *)
(* reactor's.  It ignores some events of objects that wait for output: such  *)
(* an object is nobody's any more.                                           *)
Fire(S) == /\ Stay
           /\ \A o \in S : place[o] \in {"in", "out"}
           /\ \E L \in SUBSET {o \in S : place[o] = "out"} :
                 place' = [o \in Objects |-> IF o \notin S THEN place[o]
                                            ELSE IF o \in L THEN "lost"
                                            ELSE IF place[o] = "in" THEN "reading"
                                            ELSE "writing"]

(* A frame was read: the object goes to the pool with it ...                 *)
AddTask(o) == /\ Move(o, "reading", "pool")
              /\ pending' = Append(pending, o)
              /\ UNCHANGED running

(* ... whose workers take the oldest and give it back to the kernel, to wait *)
(* for the next frame or for the reply to be written.                        *)
Start(w) == /\ running[w] = None /\ pending # <<>>
            /\ Move(Head(pending), "pool", "worker")
            /\ running' = [running EXCEPT ![w] = Head(pending)]
            /\ pending' = Tail(pending)

GiveBack(w, ev) == /\ running[w] # None
                   /\ Move(running[w], "worker", ev)
                   /\ running' = [running EXCEPT ![w] = None]
                   /\ UNCHANGED pending

(* The reactor has written the reply.                                        *)
Written(o) == Move(o, "writing", "in") /\ Stay

(* Only the reactor closes a connection and deletes its object, and only one *)
(* that it has an event for.                                                 *)
CloseConn(o) == (Move(o, "reading", "closing") \/ Move(o, "writing", "closing")) /\ Stay
Delete(o) == Move(o, "closing", "freed") /\ Stay

Next == \/ \E S \in SUBSET Objects : Fire(S)
        \/ \E o \in Objects : \/ Create(o) \/ Arm(o) \/ AddTask(o) \/ Written(o)
                              \/ CloseConn(o) \/ Delete(o)
        \/ \E w \in Workers : Start(w) \/ \E ev \in {"in", "out"} : GiveBack(w, ev)

Spec == Init /\ [][Next]_vars
=============================================================================
