\* Accesses to words and bytes of one hart, and that each of them ends.
SPECIFICATION AhbFairSpec
CONSTANTS
  a1 = a1  v0 = v0  v1 = v1  n = n  h0 = h0
  Addr = {a1}
  Lane = {0, 1}
  Val = {v0, v1}
  Hart = {h0}
  NoWord = n
  Exclusives = FALSE
  LineOf <- OneLine
  Access <- ByteAccess
INVARIANT Coherent
PROPERTIES ImplementsSharedMemory TransfersEnd
