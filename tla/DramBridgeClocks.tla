--------------------------- MODULE DramBridgeClocks ---------------------------
(***************************************************************************)
(* The bridge under clocks of known periods.  On the board clk_wiz makes   *)
(* both from one 1200 MHz oscillator: 1200/30 for the processor, 1200/12   *)
(* for the controller, in phase, so their edges fall on a grid of period 6 *)
(* of that oscillator: ClkPeriod is 5 and CtrlPeriod 2.  In simulation     *)
(* m_topsim drives both domains with one clock.                            *)
(***************************************************************************)
EXTENDS DramBridge

CONSTANTS ClkPeriod, CtrlPeriod

ASSUME ClocksAssumption == ClkPeriod \in Nat \ {0} /\ CtrlPeriod \in Nat \ {0}

VARIABLES
  related,           (* the tools time the paths between the clocks        *)
  toClk, toCtrl      (* time to the next edge of each clock                *)

clockedVars == <<vars, related, toClk, toCtrl>>

(* Clocks of one oscillator start in phase, others in any.                 *)
ClockedInit ==
  /\ Init
  /\ related \in BOOLEAN
  /\ toClk = 0
  /\ IF related THEN toCtrl = 0 ELSE toCtrl \in 0 .. CtrlPeriod - 1

TimedClkEdge ==
  /\ toClk < toCtrl
  /\ ClkEdge
  /\ toClk' = ClkPeriod /\ toCtrl' = toCtrl - toClk

TimedCtrlEdge ==
  /\ toCtrl < toClk
  /\ CtrlEdge
  /\ toCtrl' = CtrlPeriod /\ toClk' = toClk - toCtrl

TimedBothEdges ==
  /\ toClk = toCtrl
  /\ BothEdges \/ (~ related /\ RacingEdges)
  /\ toClk' = ClkPeriod /\ toCtrl' = CtrlPeriod

ClockedNext == (TimedClkEdge \/ TimedCtrlEdge \/ TimedBothEdges) /\ UNCHANGED related

(* The clocks run, and the DRAM gets on with what it has to do.            *)
ClockedSpec ==
  /\ ClockedInit /\ [][ClockedNext]_clockedVars
  /\ WF_clockedVars(ClockedNext)
  /\ SF_clockedVars(ClockedNext /\ w_busy' # w_busy)

(* The bridge is free after a write only when the DRAM has the data, where *)
(* the clocks are related; a race on the flag may release it early.        *)
WriteInDram ==
  related /\ cst = 11 /\ r_stall = 0 =>
    mem[i_addr] = MergeLanes(mem[i_addr], i_data, i_ctrl)

(* A request is answered, whether or not the flags that cross may be       *)
(* caught before or after their change.                                    *)
RequestAnswered == (cst # 0) ~> (cst = 0)
===============================================================================
