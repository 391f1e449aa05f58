---- MODULE MCEthernet ----
EXTENDS Ethernet

(* A frame shorter than the MTU and one that is cut to it; a short packet to follow a *)
(* long one, and two that differ in both words.                                      *)
MCFrame == {<<2>>, <<1, 2, 1>>}
MCPacket == {<<1>>, <<1, 2>>, <<2, 1>>}
====
