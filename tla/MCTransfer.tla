----------------------------- MODULE MCTransfer -----------------------------
(* A frame of each kind between two of the other.                            *)
EXTENDS Transfer

MCFrames == <<"HYT", "TST", "HYT">>
=============================================================================
