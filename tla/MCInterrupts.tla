---------------------------- MODULE MCInterrupts ----------------------------
(* The timer, the keyboard and a device on the second controller; a fault, *)
(* one without a handler of its own, and the one that comes from outside.  *)
EXTENDS Interrupts

MCFirmwareMasks == {0 .. 15, (0 .. 15) \ {0, 2, 12}}
=============================================================================
