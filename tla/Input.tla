------------------------------- MODULE Input -------------------------------
(***************************************************************************)
(* The routines of the drivers that only compute, or whose writes are a    *)
(* function of their arguments, are checked call by call: a state of the   *)
(* run holds one call, the routine and its arguments, in "input", and the  *)
(* properties say what that call gives.                                    *)
(***************************************************************************)
VARIABLE
    input         \* a record with a field "routine", and the arguments

NoInput == [routine |-> "none"]

Calls(routine) == input.routine = routine
=============================================================================
