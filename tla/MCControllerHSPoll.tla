------------------------- MODULE MCControllerHSPoll -------------------------
(* Numbers of controllers on both sides of a page, a byte and two pages.   *)
EXTENDS ControllerHSPoll

MCControllers == {0, 1, 2, 253, 254, 255, 256, 257, 507, 508, 509, 65535}
=============================================================================
