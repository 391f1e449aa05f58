\* Two harts at the memory, whose arbiter swaps priorities.
SPECIFICATION FairSpec
CONSTANTS
  mem = mem
  N = 2
  Slave = {mem}
  Swapping = {mem}
PROPERTY Served
