------------------------------ MODULE MCBuffer ------------------------------
(* Buffer with lengths that strncpy copies whole: with bytes of four values, *)
(* 4 and 8 and 12 are left out, as 256 is among lengths with bytes of 256.   *)
(* The negative ones lie on both sides of -K and of the size of the vector.  *)
EXTENDS Buffer

MCLens == {-20, -3, -2, -1} \cup ((0 .. 15) \ {4, 8, 12})

ASSUME IntactLens
=============================================================================
