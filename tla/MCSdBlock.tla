------------------------------- MODULE MCSdBlock -------------------------------
(* TLC instances of the SD block device.                                   *)
EXTENDS SdBlock
===============================================================================
