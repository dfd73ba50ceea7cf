------------------------------ MODULE MCFm1288 ------------------------------
(* The FM1288 driver with two callers, two registers and a table of one entry. *)
EXTENDS Fm1288

CONSTANTS c1, c2, r1, r2

MCWritten == {<<0, 0>>}
MCTable   == <<[reg |-> r1, val |-> <<1, 1>>]>>
=============================================================================
