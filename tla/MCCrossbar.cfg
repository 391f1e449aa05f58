\* Two harts, the memory (which may swap priorities) and the APB bridge.
SPECIFICATION Spec
CONSTANTS
  mem = mem  bridge = bridge
  N = 2
  Slave = {mem, bridge}
  Swapping = {mem}
INVARIANTS CrossbarTypeOK AnswersOwn EndsAwaited OneAtATime
