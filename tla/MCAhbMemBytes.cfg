\* Stores of bytes beside exclusive accesses of the word they are in.
SPECIFICATION AhbSpec
CONSTANTS
  a1 = a1  v0 = v0  v1 = v1 n = n h0 = h0 h1 = h1
  Addr = {a1}
  Lane = {0, 1}
  Val = {v0, v1}
  Hart = {h0, h1}
  NoWord = n
  Exclusives = TRUE
  LineOf <- OneLine
  Access <- ByteAccess
SYMMETRY Symmetry
INVARIANT AtomicReadModifyWrite
