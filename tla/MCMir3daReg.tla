---------------------------- MODULE MCMir3daReg ----------------------------
(* One caller whose page switches and data writes may fail; two pages, two   *)
(* addresses of a page, registers of two bits.                               *)
EXTENDS Mir3daReg

CONSTANT c1

One      == {c1}
BothPages == {0, 1}
BeforeRestore == {"page", "data"}
=============================================================================
