------------------------------ MODULE DramBridge ------------------------------
(***************************************************************************)
(* DRAM_conRV (mem/ddr3/memory.v): the clock-domain bridge between the     *)
(* memory client (the cache controller, in the processor clock) and the    *)
(* DRAM (in the controller clock).  A request crosses in afifo1, the data  *)
(* of a read comes back in afifo2; everything else the two state machines  *)
(* know of each other they read from flags of the other clock domain.      *)
(*                                                                         *)
(* A step is an edge of one clock, or of both at once, in any order and at *)
(* any rate: DramBridgeClocks adds the periods of the board's clocks.      *)
(***************************************************************************)
EXTENDS Naturals

CONSTANTS Addr, Lane, Val,
          Depth                (* entries of a fifo, 2^ADDR_WIDTH          *)

ASSUME BridgeAssumption == Addr # {} /\ Val # {} /\ Depth \in Nat \ {0}

VARIABLES
  (* the client                                                            *)
  cst,            (* its state: 0 idle, 2 and 3 reading, 10 and 11 writing *)
  i_rd_en, i_wr_en, i_addr, i_data, i_ctrl,
  (* the processor side                                                    *)
  state, r_stall, r_addr, r_wdata, r_mask, r_dram_odata,
  din1, wen1, ren2,
  (* afifo1, processor to controller: storage, write and read pointers and *)
  (* the two synchroniser stages of the write pointer; afifo2, the other   *)
  (* way, alike                                                            *)
  fifo1, waddr1, raddr1, sync1a, sync1b,
  fifo2, waddr2, raddr2, sync2a, sync2b,
  (* the controller side                                                   *)
  ramstate, cmd, ren1, din2, wen2,
  (* the DRAM                                                              *)
  dcmd, w_busy, w_odata, mem

cltVars == <<cst, i_rd_en, i_wr_en, i_addr, i_data, i_ctrl>>
reqVars == <<r_addr, r_wdata, r_mask>>
procVars == <<state, r_stall, r_addr, r_wdata, r_mask, r_dram_odata, din1, wen1, ren2>>
procFifoVars == <<fifo1, waddr1, raddr2, sync2a, sync2b>>
ddrVars == <<ramstate, cmd, ren1, din2, wen2>>
ddrFifoVars == <<fifo2, waddr2, raddr1, sync1a, sync1b>>
dramVars == <<dcmd, w_busy, w_odata, mem>>
vars == <<cltVars, procVars, procFifoVars, ddrVars, ddrFifoVars, dramVars>>

-------------------------------------------------------------------------------
Word == [Lane -> Val]
Bit == 0..1
Ptrs == 0 .. 2 * Depth - 1       (* a pointer has one bit more              *)
Cmd == [addr : Addr, mask : SUBSET Lane, rd : Bit, we : Bit, data : Word]

(* Slip: the pointer does not wrap.                                        *)
NextPtrUnwrapped(p) == p + 1

NextPtr(p) == IF p + 1 = 2 * Depth THEN 0 ELSE p + 1
Slot(p) == IF p < Depth THEN p ELSE p - Depth

Empty1 == raddr1 = sync1b        (* seen from the controller's pointers     *)
Empty2 == raddr2 = sync2b        (* seen from the processor's pointers      *)
Dout1 == fifo1[Slot(raddr1)]
Dout2 == fifo2[Slot(raddr2)]

MergeLanes(w, d, mask) == [l \in Lane |-> IF l \in mask THEN d[l] ELSE w[l]]

Init ==
  /\ cst = 0 /\ i_rd_en = 0 /\ i_wr_en = 0
  /\ i_addr \in Addr /\ i_data \in Word /\ i_ctrl = Lane
  /\ state = 0 /\ r_stall = 0
  /\ r_addr = i_addr /\ r_wdata = i_data /\ r_mask = Lane /\ r_dram_odata = i_data
  /\ din1 = [addr |-> i_addr, mask |-> Lane, rd |-> 0, we |-> 0, data |-> i_data]
  /\ wen1 = 0 /\ ren2 = 0
  /\ fifo1 = [s \in 0 .. Depth - 1 |-> din1]
  /\ fifo2 = [s \in 0 .. Depth - 1 |-> i_data]
  /\ waddr1 = 0 /\ raddr1 = 0 /\ sync1a = 0 /\ sync1b = 0
  /\ waddr2 = 0 /\ raddr2 = 0 /\ sync2a = 0 /\ sync2b = 0
  /\ ramstate = 0 /\ cmd = din1 /\ ren1 = 0 /\ din2 = i_data /\ wen2 = 0
  /\ dcmd = din1 /\ w_busy = 0 /\ w_odata = i_data
  /\ mem \in [Addr -> Word]

-------------------------------------------------------------------------------
(* The client: it holds its request until the bridge is busy, drops it, and *)
(* waits until the bridge is free again.                                   *)
ClientIdle == cst = 0 /\ UNCHANGED cltVars

ClientRead(a) ==
  /\ cst = 0
  /\ cst' = 2 /\ i_rd_en' = 1 /\ i_addr' = a
  /\ UNCHANGED <<i_wr_en, i_data, i_ctrl>>

ClientWrite(a, d, mask) ==
  /\ cst = 0
  /\ cst' = 10 /\ i_wr_en' = 1 /\ i_addr' = a /\ i_data' = d /\ i_ctrl' = mask
  /\ UNCHANGED i_rd_en

ClientDropRead ==
  /\ cst = 2
  /\ IF r_stall = 1 THEN cst' = 3 /\ i_rd_en' = 0 ELSE UNCHANGED <<cst, i_rd_en>>
  /\ UNCHANGED <<i_wr_en, i_addr, i_data, i_ctrl>>

ClientDropWrite ==
  /\ cst = 10
  /\ IF r_stall = 1 THEN cst' = 11 /\ i_wr_en' = 0 ELSE UNCHANGED <<cst, i_wr_en>>
  /\ UNCHANGED <<i_rd_en, i_addr, i_data, i_ctrl>>

ClientDone ==
  /\ cst \in {3, 11}
  /\ cst' = IF r_stall = 0 THEN 0 ELSE cst
  /\ UNCHANGED <<i_rd_en, i_wr_en, i_addr, i_data, i_ctrl>>

ClientStep ==
  \/ ClientIdle
  \/ \E a \in Addr : ClientRead(a)
  \/ \E a \in Addr, d \in Word, mask \in SUBSET Lane \ {{}} : ClientWrite(a, d, mask)
  \/ ClientDropRead
  \/ ClientDropWrite
  \/ ClientDone

-------------------------------------------------------------------------------
(* Slip: the bridge does not say that it is busy.                          *)
PrepareReadUnseen ==
  /\ state' = 10 /\ r_addr' = i_addr /\ r_mask' = Lane
  /\ UNCHANGED <<r_stall, r_wdata, r_dram_odata, din1, wen1, ren2>>

(* The processor side.  idle and e1 are !ramstate and empty_afifo1, flags  *)
(* of the controller's domain, as this edge samples them.                  *)
PrepareRead ==
  /\ state' = 10 /\ r_stall' = 1 /\ r_addr' = i_addr /\ r_mask' = Lane
  /\ UNCHANGED <<r_wdata, r_dram_odata, din1, wen1, ren2>>

PrepareWrite ==
  /\ state' = 20 /\ r_stall' = 1
  /\ r_addr' = i_addr /\ r_wdata' = i_data /\ r_mask' = i_ctrl
  /\ UNCHANGED <<r_dram_odata, din1, wen1, ren2>>

ProcIdle(idle, e1) ==
  LET free == idle /\ e1 /\ Empty2 IN
  /\ state = 0
  /\ \/ i_rd_en = 1 /\ free /\ PrepareRead
     \/ i_rd_en = 0 /\ i_wr_en = 1 /\ free /\ PrepareWrite
     \/ ~ (free /\ (i_rd_en = 1 \/ i_wr_en = 1)) /\ UNCHANGED procVars

ProcPush ==
  /\ state \in {10, 20}
  /\ din1' = [addr |-> r_addr, mask |-> r_mask, rd |-> IF state = 10 THEN 1 ELSE 0,
              we |-> IF state = 20 THEN 1 ELSE 0, data |-> r_wdata]
  /\ wen1' = 1 /\ state' = state + 1
  /\ UNCHANGED <<r_stall, r_addr, r_wdata, r_mask, r_dram_odata, ren2>>

(* Slip: the write enable is held until the request has arrived.           *)
ProcPushedHeld(e1) ==
  /\ state \in {11, 21}
  /\ IF e1 THEN UNCHANGED <<wen1, state>> ELSE wen1' = 0 /\ state' = state + 1
  /\ UNCHANGED <<r_stall, r_addr, r_wdata, r_mask, r_dram_odata, din1, ren2>>

(* The request is seen to have arrived.                                    *)
ProcPushed(e1) ==
  /\ state \in {11, 21}
  /\ wen1' = 0
  /\ state' = IF e1 THEN state ELSE state + 1
  /\ UNCHANGED <<r_stall, r_addr, r_wdata, r_mask, r_dram_odata, din1, ren2>>

ProcAwaitData(e1) ==
  /\ state = 12
  /\ state' = IF e1 /\ ~ Empty2 THEN 13 ELSE 12
  /\ UNCHANGED <<r_stall, r_addr, r_wdata, r_mask, r_dram_odata, din1, wen1, ren2>>

ProcTakeData ==
  /\ state = 13
  /\ ren2' = 1 /\ r_dram_odata' = Dout2 /\ state' = 14
  /\ UNCHANGED <<r_stall, r_addr, r_wdata, r_mask, din1, wen1>>

ProcReadDone ==
  /\ state = 14
  /\ ren2' = 0 /\ r_stall' = 0 /\ state' = 0
  /\ UNCHANGED <<r_addr, r_wdata, r_mask, r_dram_odata, din1, wen1>>

(* Slips: the controller's state is not looked at; a write waits for data  *)
(* as a read does.                                                         *)
ProcAwaitWriteBlind(idle, e1) ==
  /\ state = 22
  /\ IF e1 THEN r_stall' = 0 /\ state' = 0 ELSE UNCHANGED <<r_stall, state>>
  /\ UNCHANGED <<r_addr, r_wdata, r_mask, r_dram_odata, din1, wen1, ren2>>

ProcAwaitWriteData(idle, e1) ==
  /\ state = 22
  /\ IF e1 /\ idle /\ ~ Empty2 THEN r_stall' = 0 /\ state' = 0
                               ELSE UNCHANGED <<r_stall, state>>
  /\ UNCHANGED <<r_addr, r_wdata, r_mask, r_dram_odata, din1, wen1, ren2>>

ProcAwaitWrite(idle, e1) ==
  /\ state = 22
  /\ IF e1 /\ idle THEN r_stall' = 0 /\ state' = 0 ELSE UNCHANGED <<r_stall, state>>
  /\ UNCHANGED <<r_addr, r_wdata, r_mask, r_dram_odata, din1, wen1, ren2>>

ProcStep(idle, e1) ==
  \/ ProcIdle(idle, e1)
  \/ ProcPush
  \/ ProcPushed(e1)
  \/ ProcAwaitData(e1)
  \/ ProcTakeData
  \/ ProcReadDone
  \/ ProcAwaitWrite(idle, e1)

(* The processor's ends of the fifos: write afifo1, read afifo2, catch the *)
(* value wp of the write pointer of afifo2.                                *)
ProcFifos(wp) ==
  /\ IF wen1 = 1
       THEN fifo1' = [fifo1 EXCEPT ![Slot(waddr1)] = din1] /\ waddr1' = NextPtr(waddr1)
       ELSE UNCHANGED <<fifo1, waddr1>>
  /\ raddr2' = IF ren2 = 1 THEN NextPtr(raddr2) ELSE raddr2
  /\ sync2a' = wp /\ sync2b' = sync2a

-------------------------------------------------------------------------------
(* The controller side.  e2 is empty_afifo2, a flag of the processor's     *)
(* domain, as this edge samples it.                                        *)
RamIdle ==
  /\ ramstate = 0
  /\ IF Empty1 THEN UNCHANGED ddrVars
               ELSE /\ ren1' = 1 /\ cmd' = Dout1 /\ ramstate' = 1
                    /\ UNCHANGED <<din2, wen2>>

(* The command is held until the DRAM is busy with it.                     *)
RamCommand ==
  /\ ramstate = 1
  /\ ren1' = 0
  /\ IF cmd.rd = 1 /\ w_busy = 1
       THEN cmd' = [cmd EXCEPT !.rd = 0] /\ ramstate' = 10
     ELSE IF cmd.rd = 0 /\ cmd.we = 1 /\ w_busy = 1
       THEN cmd' = [cmd EXCEPT !.we = 0] /\ ramstate' = 20
     ELSE UNCHANGED <<cmd, ramstate>>
  /\ UNCHANGED <<din2, wen2>>

(* Slip: the data is taken before the DRAM has it.                         *)
RamReadEarly ==
  /\ ramstate = 10
  /\ din2' = w_odata /\ wen2' = 1 /\ ramstate' = 11
  /\ UNCHANGED <<cmd, ren1>>

RamReadDone ==
  /\ ramstate = 10
  /\ IF w_busy = 0
       THEN din2' = w_odata /\ wen2' = 1 /\ ramstate' = 11
       ELSE UNCHANGED <<din2, wen2, ramstate>>
  /\ UNCHANGED <<cmd, ren1>>

RamReplied(e2) ==
  /\ ramstate = 11
  /\ wen2' = 0
  /\ ramstate' = IF e2 THEN 11 ELSE 0
  /\ UNCHANGED <<cmd, ren1, din2>>

RamWriteDone ==
  /\ ramstate = 20
  /\ ramstate' = IF w_busy = 0 THEN 0 ELSE 20
  /\ UNCHANGED <<cmd, ren1, din2, wen2>>

RamStep(e2) ==
  \/ RamIdle
  \/ RamCommand
  \/ RamReadDone
  \/ RamReplied(e2)
  \/ RamWriteDone

DdrFifos(wp) ==
  /\ IF wen2 = 1
       THEN fifo2' = [fifo2 EXCEPT ![Slot(waddr2)] = din2] /\ waddr2' = NextPtr(waddr2)
       ELSE UNCHANGED <<fifo2, waddr2>>
  /\ raddr1' = IF ren1 = 1 THEN NextPtr(raddr1) ELSE raddr1
  /\ sync1a' = wp /\ sync1b' = sync1a

(* The DRAM takes a command when it is ready to, is busy with it for some  *)
(* time, and has done it when it is no longer busy.                        *)
DramWait == UNCHANGED dramVars

DramAccept ==
  /\ w_busy = 0 /\ (cmd.rd = 1 \/ cmd.we = 1)
  /\ w_busy' = 1 /\ dcmd' = cmd
  /\ UNCHANGED <<w_odata, mem>>

DramRead ==
  /\ w_busy = 1 /\ dcmd.rd = 1
  /\ w_busy' = 0 /\ w_odata' = mem[dcmd.addr]
  /\ UNCHANGED <<dcmd, mem>>

DramWrite ==
  /\ w_busy = 1 /\ dcmd.rd = 0
  /\ w_busy' = 0
  /\ mem' = [mem EXCEPT ![dcmd.addr] = MergeLanes(@, dcmd.data, dcmd.mask)]
  /\ UNCHANGED <<dcmd, w_odata>>

DramProgress == DramAccept \/ DramRead \/ DramWrite

DramStep == DramWait \/ DramProgress

-------------------------------------------------------------------------------
(* The edges of the clocks.                                                *)
ClkEdge ==
  /\ ProcStep(ramstate = 0, Empty1) /\ ClientStep /\ ProcFifos(waddr2)
  /\ UNCHANGED <<ddrVars, ddrFifoVars, dramVars>>

CtrlEdge ==
  /\ RamStep(Empty2) /\ DramStep /\ DdrFifos(waddr1)
  /\ UNCHANGED <<cltVars, procVars, procFifoVars>>

(* Edges of both clocks at once, with what each side samples of the other. *)
CoincidentEdges(idle, e1, e2, wp1, wp2) ==
  /\ ProcStep(idle, e1) /\ ClientStep /\ ProcFifos(wp2)
  /\ RamStep(e2) /\ DramStep /\ DdrFifos(wp1)

(* The paths between related clocks are timed: each side samples what the  *)
(* other held before the edge.                                             *)
BothEdges == CoincidentEdges(ramstate = 0, Empty1, Empty2, waddr1, waddr2)

(* Unrelated clocks catch a flag or a Gray-coded pointer before or after   *)
(* its change.  The bits of ramstate settle one by one: between 1 (00001)  *)
(* and 10 (01010), or 1 and 20 (10100), it may be caught as 0.             *)
MaySeeIdle(old, new) == old = 0 \/ new = 0 \/ (old = 1 /\ new \in {10, 20})

Samples(idle, e1, e2, wp1, wp2) ==
  /\ IF idle THEN MaySeeIdle(ramstate, ramstate') ELSE ramstate # 0 \/ ramstate' # 0
  /\ e1 \in {Empty1, Empty1'} /\ e2 \in {Empty2, Empty2'}
  /\ wp1 \in {waddr1, waddr1'} /\ wp2 \in {waddr2, waddr2'}

RacingEdges ==
  \E idle, e1, e2 \in BOOLEAN,
     wp1 \in {waddr1, NextPtr(waddr1)}, wp2 \in {waddr2, NextPtr(waddr2)} :
    CoincidentEdges(idle, e1, e2, wp1, wp2) /\ Samples(idle, e1, e2, wp1, wp2)

Next == ClkEdge \/ CtrlEdge \/ BothEdges \/ RacingEdges

Spec == Init /\ [][Next]_vars

-------------------------------------------------------------------------------
TypeOK ==
  /\ cst \in {0, 2, 3, 10, 11} /\ i_rd_en \in Bit /\ i_wr_en \in Bit
  /\ i_addr \in Addr /\ i_data \in Word /\ i_ctrl \in SUBSET Lane
  /\ state \in {0, 10, 11, 12, 13, 14, 20, 21, 22} /\ r_stall \in Bit
  /\ r_addr \in Addr /\ r_wdata \in Word /\ r_mask \in SUBSET Lane
  /\ r_dram_odata \in Word /\ din1 \in Cmd /\ wen1 \in Bit /\ ren2 \in Bit
  /\ fifo1 \in [0 .. Depth - 1 -> Cmd] /\ fifo2 \in [0 .. Depth - 1 -> Word]
  /\ waddr1 \in Ptrs /\ raddr1 \in Ptrs /\ sync1a \in Ptrs /\ sync1b \in Ptrs
  /\ waddr2 \in Ptrs /\ raddr2 \in Ptrs /\ sync2a \in Ptrs /\ sync2b \in Ptrs
  /\ ramstate \in {0, 1, 10, 11, 20} /\ cmd \in Cmd /\ ren1 \in Bit
  /\ din2 \in Word /\ wen2 \in Bit
  /\ dcmd \in Cmd /\ w_busy \in Bit /\ w_odata \in Word /\ mem \in [Addr -> Word]

(* No request or word is lost in a fifo, and none is taken twice: a fifo   *)
(* is written only when it is empty and read only when it is not, though   *)
(* the bridge leaves o_full unconnected and af.v guards neither.           *)
FifosRespected ==
  /\ wen1 = 1 => waddr1 = raddr1
  /\ wen2 = 1 => waddr2 = raddr2
  /\ ren1 = 1 => waddr1 # raddr1
  /\ ren2 = 1 => waddr2 # raddr2

(* The conditions the source reports with $display never arise: a request  *)
(* still raised when the bridge finishes it ("error rd", "error wr"), and  *)
(* a command that is neither a read nor a write ("afifo logic error").     *)
NoBridgeError ==
  /\ state = 14 => i_rd_en = 0
  /\ state = 22 => i_wr_en = 0
  /\ ramstate = 1 => cmd.rd = 1 \/ cmd.we = 1

(* The memory as the client knows it: a write it was promised counts, from *)
(* the edge that accepts it, even before the DRAM has it.                  *)
WriteUnderWay ==
  state \in {20, 21, 22} \/ cmd.we = 1 \/ (w_busy = 1 /\ dcmd.we = 1)

LogicalMem ==
  IF WriteUnderWay
    THEN [mem EXCEPT ![r_addr] = MergeLanes(@, r_wdata, r_mask)]
    ELSE mem

Phase ==
  IF state = 0 THEN "idle"
  ELSE IF state \in 10 .. 13 THEN "rd"
  ELSE IF state = 14 THEN "done"
  ELSE "wr"

(* The two state machines, the fifos and the DRAM together are a memory    *)
(* with one port: a read returns the last word written to its address.     *)
Abstract ==
  INSTANCE WordMemory WITH store <- LogicalMem, phase <- Phase,
                           addr <- r_addr, out <- r_dram_odata

ImplementsWordMemory == Abstract!WMSpec
===============================================================================
