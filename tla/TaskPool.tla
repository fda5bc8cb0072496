------------------------------ MODULE TaskPool ------------------------------
(* What a pool of worker threads promises to the reactor that feeds it,      *)
(* without locks, condition variables or program counters: tickets start in  *)
(* the order in which they were submitted, each on one idle worker, and once *)
(* the pool is closed at most one more ticket is ever started.               *)
(* LThreadPool implements this specification.                                *)
EXTENDS Naturals, Sequences

CONSTANTS Workers,      \* identities of worker threads
          None          \* a worker that runs nothing

VARIABLES pending,      \* tickets submitted and not yet started, oldest first
          submitted,    \* how many tickets were handed out
          running,      \* running[w]: the ticket w executes, or None
          finished,     \* the tickets executed to the end
          closed,       \* shutdown was requested
          late          \* how many tickets were started after the request

vars == <<pending, submitted, running, finished, closed, late>>

Init == /\ pending = <<>>
        /\ submitted = 0
        /\ running = [w \in Workers |-> None]
        /\ finished = {}
        /\ closed = FALSE
        /\ late = 0

(* A new ticket joins the end of the queue.  Nothing refuses it, not even a  *)
(* pool that is closed already.                                              *)
Submit == /\ submitted' = submitted + 1
          /\ pending' = Append(pending, submitted + 1)
          /\ UNCHANGED <<running, finished, closed, late>>

(* An idle worker starts the oldest ticket.                                  *)
Start(w) == /\ running[w] = None
            /\ pending # <<>>
            /\ closed => late = 0
            /\ late' = IF closed THEN 1 ELSE late
            /\ running' = [running EXCEPT ![w] = Head(pending)]
            /\ pending' = Tail(pending)
            /\ UNCHANGED <<submitted, finished, closed>>

Finish(w) == /\ running[w] # None
             /\ finished' = finished \cup {running[w]}
             /\ running' = [running EXCEPT ![w] = None]
             /\ UNCHANGED <<pending, submitted, closed, late>>

Close == /\ ~closed
         /\ closed' = TRUE
         /\ UNCHANGED <<pending, submitted, running, finished, late>>

(* Destroying a closed pool forgets the tickets that nobody started.         *)
Discard == /\ closed
           /\ pending' = <<>>
           /\ UNCHANGED <<submitted, running, finished, closed, late>>

Next == \/ Submit \/ Close \/ Discard
        \/ \E w \in Workers : Start(w) \/ Finish(w)

Spec == Init /\ [][Next]_vars
=============================================================================
