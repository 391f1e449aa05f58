\* Two words that share a line, two harts, exclusive accesses.
SPECIFICATION AhbSpec
CONSTANTS
  a1 = a1  a2 = a2  v0 = v0  v1 = v1 n = n h0 = h0 h1 = h1
  Addr = {a1, a2}
  Lane = {0}
  Val = {v0, v1}
  Hart = {h0, h1}
  NoWord = n
  Exclusives = TRUE
  LineOf <- OneLine
  Access <- WordAccess
SYMMETRY Symmetry
INVARIANTS AhbTypeOK ReadsLatest AtomicReadModifyWrite
PROPERTY ImplementsSharedMemory
