------------------------------- MODULE MCCrossbar ------------------------------
(* TLC instances of the bus.                                               *)
EXTENDS Crossbar
===============================================================================
