------------------------------ MODULE MCTp2854 ------------------------------
(* Two callers, two adjusted channels, two registers of a picture, the      *)
(* contrast and the sharpness: both are addresses of the MIPI block as well. *)
(* Of two pictures, one has a value of more than a byte; they agree in the   *)
(* sharpness.                                                                *)
EXTENDS Tp2854, TLC

CONSTANTS u1, u2

TwoUsers == {u1, u2}
ContrastAndSharpness == <<"11", "14">>
TwoPictures == {[r \in {"11", "14"} |-> IF r = "11" THEN v ELSE 1] : v \in {1, 256}}
UserSymmetry == Permutations(TwoUsers)
=============================================================================
