------------------------------ MODULE MCTp9930 ------------------------------
(* Two callers of the ioctls, two channels, the first and the last register *)
(* of a picture, both modes.                                                *)
EXTENDS Tp9930, TLC

CONSTANTS u1, u2

TwoUsers == {u1, u2}
UserSymmetry == Permutations(TwoUsers)
FirstAndLast == <<"brightness", "sharpness">>
=============================================================================
