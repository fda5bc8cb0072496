---------------------------- MODULE MCSubReactor ----------------------------
(* SubReactor on small instances.  Descriptors are interchangeable, workers  *)
(* too, and clients where they send equally many frames.                     *)
EXTENDS SubReactor, TLC

Frames(first, others) ==
    [c \in Clients |-> IF c = CHOOSE d \in Clients : TRUE THEN first ELSE others]
TwoAndOne == Frames(2, 1)
TwoAndNone == Frames(2, 0)
OneEach == Frames(1, 1)

SymmetryFds == Permutations(Fds) \cup Permutations(Workers)
Symmetry == SymmetryFds \cup Permutations(Clients)
=============================================================================
