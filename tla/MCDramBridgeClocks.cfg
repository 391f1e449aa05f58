\* The clocks of the board: 40 MHz and 100 MHz, from one oscillator.
SPECIFICATION ClockedSpec
CONSTANTS
  Addr = {a1}
  Lane = {l1}
  Val = {v0, v1}
  Depth = 2
  ClkPeriod = 5
  CtrlPeriod = 2
INVARIANT WriteInDram
PROPERTY RequestAnswered
