---------------------------- MODULE MCMir3daCust ----------------------------
(* Two users of the files of the da380 driver against two probes. *)
EXTENDS Mir3daCust, TLC

CONSTANTS u1, u2

Perms == Permutations(Users)
=============================================================================
