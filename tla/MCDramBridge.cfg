\* Two addresses, two lanes: partial writes.  Fifos of one entry, pointers that wrap.
SPECIFICATION Spec
CONSTANTS
  a1 = a1  a2 = a2  l1 = l1  l2 = l2  v0 = v0  v1 = v1
  Addr = {a1, a2}
  Lane = {l1, l2}
  Val = {v0, v1}
  Depth = 1
SYMMETRY Symmetry
INVARIANTS TypeOK FifosRespected NoBridgeError
PROPERTY ImplementsWordMemory
