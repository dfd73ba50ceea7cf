------------------------------ MODULE MCGc2053 ------------------------------
(* Gains below the smallest, at both sides of three borders of the table and  *)
(* at the top of the windows and of the control; exposures of one line, of    *)
(* both registers, and the maximum of the control.                            *)
EXTENDS Gc2053

Gains == {1, 16, 18, 19, 64, 65, 110 * 16, 128 * 16 - 1}
Exposures == {16, 4095 * 16 + 15, 65536 * 16}
=============================================================================
