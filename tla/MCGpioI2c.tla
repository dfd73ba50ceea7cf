----------------------------- MODULE MCGpioI2c -----------------------------
(* A device at 0x60 (written 0xC0, read 0xC1) that reads as 0x5A, the       *)
(* register and value of the driver's own example, and a second pair with   *)
(* the other bits set.                                                      *)
EXTENDS GpioI2c

CONSTANTS t1, t2

Two == {t1, t2}
BothAddrs == {192, 193, 86}
ExampleRegs == {7732, 51915}
ExampleValues == {139, 65396}
=============================================================================
