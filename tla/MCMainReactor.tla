--------------------------- MODULE MCMainReactor ---------------------------
(* MainReactor with connections that all come from one address.  They are    *)
(* interchangeable then, and it is enough to look at the behaviours in which *)
(* they are opened in order.                                                 *)
EXTENDS MainReactor

MCFrom == [c \in Conns |-> 0]

InOrder == \A c, d \in Conns : c < d /\ place[c] = "new" => place[d] = "new"
=============================================================================
