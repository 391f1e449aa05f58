-------------------------------- MODULE MCAhbMem -------------------------------
(* TLC instances of the memory port.                                       *)
EXTENDS AhbMem, TLC

OneLine == [a \in Addr |-> 0]
WordAccess == {<<0, 1>>}
ByteAccess == {<<0, 2>>, <<0, 1>>, <<1, 1>>}
Symmetry == Permutations(Addr) \cup Permutations(Val)
===============================================================================
