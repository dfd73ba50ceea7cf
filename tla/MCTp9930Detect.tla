--------------------------- MODULE MCTp9930Detect ---------------------------
(* Two cameras: the boards with four channels have two to four GPIOs. *)
EXTENDS Tp9930Detect
=============================================================================
