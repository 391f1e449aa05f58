----------------------------- MODULE SdBlockProofs -----------------------------
(***************************************************************************)
(* Proofs about the SD block device, for every size of a block and every   *)
(* card: that its driver, the bridge, the device's three machines and the  *)
(* card's controller together are a store of blocks.                       *)
(*                                                                         *)
(* All of them step at every edge, so the invariant has a part for what    *)
(* each pair agrees on, and the command that runs is followed through its  *)
(* two handshakes, byte by byte (ReadRun, WriteRun).                       *)
(***************************************************************************)
EXTENDS SdBlock, TLAPS

(* The transfer on the bus.                                                *)
Xfer == CHOOSE t \in dph : TRUE
Transfer == [wr : BOOLEAN, addr : Address, data : Byte \cup Sector]

Writing == {"wr0", "wr1", "wr2", "wr3"}
Reading == {"rd0", "rd1", "rd2"}

BridgeOK ==
  /\ apb_state \in {"idle"} \cup Writing \cup Reading
  /\ apb_state = "idle" <=> dph = {}
  /\ dph # {} => dph = {Xfer} /\ Xfer \in Transfer /\ apbm_paddr = Xfer.addr
  /\ apb_state \in Writing => Xfer.wr
  /\ apb_state \in Reading => ~ Xfer.wr
  /\ apb_state \in {"wr1", "wr2", "wr3"} => apbm_pwdata = Xfer.data

(* The device serves the transfer of the bridge, and no other.             *)
CtlOK ==
  /\ apb_state \notin {"rd1", "wr2"} => ctl.ctrlstate = 0 /\ ~ ctl.pready
  /\ apb_state = "rd1" => ctl.ctrlstate \in {0, 1, 15, 16} /\ (ctl.pready => ctl.ctrlstate = 0)
  /\ apb_state = "wr2" => \/ ctl.ctrlstate \in {2, 12, 5, 6} /\ ~ ctl.pready
                          \/ ctl.ctrlstate = 0 /\ ctl.pready
  /\ ctl.ctrlstate = 2 => apbm_paddr = ReadReg
  /\ ctl.ctrlstate = 12 => apbm_paddr = WriteReg
  /\ ctl.ctrlstate = 1 => ~ apbm_paddr.block
  /\ ctl.ctrlstate \in {5, 6, 15, 16} => apbm_paddr.block
  /\ ctl.ctrlstate \in {5, 15, 16} => ctl.maddr1 = apbm_paddr.off
  /\ ctl.ctrlstate = 5 => ctl.midata1 = apbm_pwdata
  /\ ctl.mw1 <=> ctl.ctrlstate = 5
  /\ ctl.mr1 <=> ctl.ctrlstate = 15

(* The transfer is the one the driver is at.                               *)
DriverOK ==
  /\ drv.pc \notin {"fill", "fetch"} => drv.i = 0
  /\ drv.pc = "fill" => drv.op = "write"
  /\ drv.pc = "fetch" => drv.op = "read"
  /\ dph # {} =>
       \/ drv.pc \in {"wait", "done"} /\ Xfer = Load(ReadReg)
       \/ drv.pc = "fetch" /\ Xfer = Load(Mem(drv.i))
       \/ drv.pc = "fill" /\ drv.i > 0 /\ Xfer = StoreTo(Mem(drv.i - 1), drv.buffer[drv.i - 1])
       \/ /\ drv.pc = "command" /\ drv.op = "write"
          /\ Xfer = StoreTo(Mem(BlockSize - 1), drv.buffer[BlockSize - 1])
       \/ drv.pc = "done" /\ Xfer = Command

(* A store to byte j has not reached the memory yet.                       *)
Storing(j) ==
  /\ dph # {} /\ Xfer.wr /\ Xfer.addr = Mem(j)
  /\ apb_state \in {"wr0", "wr1"} \/ ctl.ctrlstate = 5

(* The bytes filled so far are those of the buffer, and those fetched are  *)
(* those of the memory.                                                    *)
Filled(j) == m[j] = drv.buffer[j] \/ Storing(j)

BytesOK ==
  /\ drv.pc = "fill" => \A j \in 0 .. drv.i - 1 : Filled(j)
  /\ drv.pc = "command" /\ drv.op = "write" => \A j \in Index : Filled(j)
  /\ drv.pc = "fetch" => \A j \in 0 .. drv.i - 1 : drv.buffer[j] = m[j]
  /\ apbm_paddr.block =>
       /\ ctl.ctrlstate = 16 => mout = m[apbm_paddr.off]
       /\ apb_state = "rd1" /\ ctl.pready => ctl.prdata = m[apbm_paddr.off]
       /\ apb_state = "rd2" => ahbls_hrdata = m[apbm_paddr.off]

-------------------------------------------------------------------------------
(* The device and the card are free.                                       *)
Free == spi.state = 0 /\ ~ cc.sd_busy

(* Nothing is under way between the device and the card.                   *)
Quiet ==
  /\ ~ spi.sdsrd /\ ~ spi.sdswr /\ ~ spi.sdsdin_valid /\ ~ spi.sdsdout_taken /\ ~ spi.mw2
  /\ ~ cc.dout_avail /\ ~ cc.last_valid /\ ~ cc.din_latch /\ ~ cc.din_taken

(* The driver's command has not reached the card's machine yet.            *)
Pending ==
  /\ dph # {} /\ Xfer = Command
  /\ apb_state \in {"wr0", "wr1"} \/ ctl.ctrlstate \in {2, 12}

(* The load on the bus has found, or will find, the device free.           *)
SeenFree ==
  /\ dph # {} /\ Xfer = Load(ReadReg)
  /\ \/ apb_state = "rd1" /\ ctl.pready /\ ctl.prdata = 0
     \/ apb_state = "rd2" /\ ahbls_hrdata = 0

FreeOK ==
  /\ ~ cc.sd_busy => cc.state = "idle"
  /\ cc.state # "read" => ~ cc.garbled
  /\ spi.state = 0 => Quiet /\ cc.state \in {"begin", "idle"}
  /\ drv.pc # "done" => spi.state = 0
  /\ drv.pc \in {"fill", "command", "fetch", "next"} => Free
  /\ SeenFree => Free

(* What a call that is over leaves.                                        *)
Outcome ==
  ~ cc.sd_error => IF drv.op = "read" THEN m = disk[drv.sector] ELSE disk[drv.sector] = drv.buffer

-------------------------------------------------------------------------------
(* A read that runs.  Kept(j) is byte j of the memory, when it is written. *)
Kept(j) == IF spi.mw2 /\ j = spi.maddr2 THEN spi.midata2 ELSE m[j]

ReadHandshake ==
  /\ ~ spi.sdswr /\ ~ spi.sdsdin_valid /\ ~ cc.last_valid /\ ~ cc.din_latch /\ ~ cc.din_taken
  /\ spi.state \in {1, 2, 3} => spi.oecnt < BlockSize /\ ~ spi.sdsdout_taken /\ ~ spi.mw2
  /\ spi.state = 1 => ~ spi.sdsrd /\ spi.oecnt = 0
  /\ spi.state \in {2, 3} => spi.sdsrd
  /\ spi.state = 3 => cc.dout_avail /\ spi.outbyte = cc.dout
  /\ spi.state = 4 =>
       /\ spi.oecnt > 0
       /\ spi.mw2 => spi.maddr2 = spi.oecnt - 1 /\ spi.sdsdout_taken
       /\ spi.sdsrd <=> spi.sdsdout_taken
       /\ ~ spi.sdsrd => spi.oecnt = BlockSize /\ ~ cc.dout_avail

(* The card has not seen the command yet.                                  *)
ReadAsked ==
  /\ cc.state = "idle" /\ ~ cc.sd_busy /\ ~ cc.dout_avail
  /\ spi.state \in {1, 2} /\ spi.oecnt = 0

(* The card delivers, has delivered, or has refused.                       *)
ReadCard ==
  \/ cc.state = "read" /\ cc.addr = drv.sector /\ ~ cc.sd_error
  \/ cc.state \in {"finish", "begin", "idle"} /\ cc.cnt = BlockSize /\ cc.addr = drv.sector
  \/ cc.state = "finish" /\ cc.cnt = 0 /\ cc.sd_error

ReadData ==
  ~ cc.garbled /\ ~ cc.sd_error =>
    /\ \A j \in 0 .. spi.oecnt - 1 : Kept(j) = disk[drv.sector][j]
    /\ spi.state \in {2, 3} /\ cc.dout_avail => cc.dout = disk[drv.sector][spi.oecnt]

ReadServed ==
  /\ spi.state \in {2, 3, 4} /\ ReadCard /\ ReadData
  /\ spi.sdsrd => cc.sd_busy /\ cc.state \in {"read", "finish"}
  /\ cc.cnt = spi.oecnt + (IF spi.state \in {2, 3} /\ cc.dout_avail THEN 1 ELSE 0)

ReadRun == spi.state \in {1, 2, 3, 4} /\ ReadHandshake /\ (ReadAsked \/ ReadServed)

-------------------------------------------------------------------------------
(* A write that runs.                                                      *)
WriteHandshake ==
  /\ ~ spi.sdsrd /\ ~ spi.sdsdout_taken /\ ~ spi.mw2 /\ ~ cc.dout_avail
  /\ spi.state \in {11, 12, 13, 16} => spi.oecnt < BlockSize
  /\ spi.state \in {11, 16} => spi.maddr2 = spi.oecnt
  /\ spi.state = 11 => mout = drv.buffer[spi.oecnt]
  /\ spi.state \in {10, 11, 16} =>
       ~ spi.sdsdin_valid /\ ~ cc.last_valid /\ ~ cc.din_latch /\ ~ cc.din_taken
  /\ spi.state = 12 =>
       /\ spi.sdsdin_valid /\ spi.sdswr /\ spi.sdsdin = drv.buffer[spi.oecnt]
       /\ cc.din_latch => cc.last_valid /\ ~ cc.din_taken
       /\ cc.din_taken => cc.last_valid
       /\ cc.last_valid => cc.din_latch \/ cc.din_taken
  /\ spi.state = 13 =>
       ~ spi.sdsdin_valid /\ spi.sdswr /\ ~ cc.din_latch /\ (cc.last_valid => cc.din_taken)

WriteAsked ==
  /\ cc.state = "idle" /\ ~ cc.sd_busy /\ ~ cc.last_valid
  /\ spi.state \in {10, 11, 12, 16} /\ spi.oecnt = 0 /\ (spi.sdswr => spi.state = 12)

(* The card takes, has taken, or has refused.                              *)
WriteCard ==
  \/ /\ cc.state = "write" /\ cc.addr = drv.sector
     /\ \A j \in 0 .. cc.cnt - 1 : cc.block[j] = drv.buffer[j]
  \/ /\ cc.state \in {"finish", "begin", "idle"} /\ cc.cnt = BlockSize
     /\ ~ cc.sd_error => disk[drv.sector] = drv.buffer
  \/ cc.state = "finish" /\ cc.cnt = 0 /\ cc.sd_error

WriteServed ==
  /\ spi.state \in {10, 11, 12, 13, 16} /\ WriteCard
  /\ spi.sdswr => cc.sd_busy /\ cc.state \in {"write", "finish"}
  /\ ~ spi.sdswr => spi.state = 10 /\ spi.oecnt = BlockSize
  /\ cc.cnt = spi.oecnt + (IF spi.state = 13 \/ (spi.state = 12 /\ cc.din_taken) THEN 1 ELSE 0)

WriteRun ==
  /\ spi.state \in {10, 11, 12, 13, 16} /\ m = drv.buffer
  /\ WriteHandshake /\ (WriteAsked \/ WriteServed)

(* The command the driver waits for is on its way, runs, or is over.       *)
CommandOK ==
  /\ drv.pc = "done" =>
       \/ Pending /\ Free /\ (drv.op = "write" => m = drv.buffer)
       \/ ~ Pending /\ ctl.sdsbaddr = drv.sector
          /\ (IF drv.op = "read" THEN ReadRun ELSE WriteRun)
       \/ ~ Pending /\ Free /\ Outcome
  /\ ctl.ctrlstate \in {2, 12} => ctl.sdsbaddr = drv.sector
  /\ drv.pc = "fetch" => Outcome

SdInv == SdTypeOK /\ BridgeOK /\ CtlOK /\ DriverOK /\ BytesOK /\ FreeOK /\ CommandOK
-------------------------------------------------------------------------------
(* An edge: aph is the address phase that ends at it.                      *)
Edge(aph) ==
  /\ Card /\ Device(aph)
  /\ \/ DriverAsks /\ aph = Access
     \/ DriverProceeds /\ aph = {}

LEMMA NextIsEdge == Next => \E aph : Edge(aph)
BY DEF Next, Edge

(* Sets of one, and the addresses.                                         *)
LEMMA OneOf == \A x : (CHOOSE t \in {x} : TRUE) = x
OBVIOUS

LEMMA Addresses ==
  /\ ReadReg \in Address /\ WriteReg \in Address /\ ReadReg # WriteReg
  /\ ReadReg.block = FALSE /\ WriteReg.block = FALSE
  /\ \A j \in Index : Mem(j) \in Address /\ Mem(j).block = TRUE /\ Mem(j).off = j
  /\ \A a \in Address : a.block \in BOOLEAN /\ (a.block => a.off \in Index)
                         /\ (~ a.block => a \in {ReadReg, WriteReg})
<1>1. ReadReg.block = FALSE /\ WriteReg.block = FALSE /\ ReadReg.off # WriteReg.off
  BY DEF ReadReg, WriteReg
<1>2. \A j : Mem(j).block = TRUE /\ Mem(j).off = j
  BY DEF Mem
<1>3. ASSUME NEW a \in Address
      PROVE  a.block \in BOOLEAN /\ (a.block => a.off \in Index)
             /\ (~ a.block => a \in {ReadReg, WriteReg})
  <2>1. CASE a \in {ReadReg, WriteReg}
    BY <1>1, <2>1
  <2>2. CASE \E j \in Index : a = Mem(j)
    BY <1>2, <2>2
  <2> QED  BY <2>1, <2>2 DEF Address
<1> QED  BY <1>1, <1>2, <1>3 DEF Address

LEMMA Indices == 0 \in Index /\ BlockSize - 1 \in Index /\ BlockSize \in Nat \ {0}
                 /\ \A j \in Int : j \in Index <=> 0 <= j /\ j < BlockSize
BY SdAssumption DEF Index

LEMMA NextIndex ==
  ASSUME NEW i \in Index
  PROVE  /\ i \in Nat /\ (i < BlockSize - 1 \/ i = BlockSize - 1)
         /\ i < BlockSize - 1 => i + 1 \in Index /\ i + 1 > 0 /\ i + 1 # 0 /\ (i + 1) - 1 = i
BY SdAssumption DEF Index

(* What the driver asks for, loop by loop.                                 *)
LEMMA Asks ==
  ASSUME SdTypeOK, DriverOK, DriverAsks
  PROVE  \/ /\ drv.pc \in {"wait", "done"} /\ Access = {Load(ReadReg)} /\ drv' = drv
         \/ /\ drv.pc = "fetch" /\ Access = {Load(Mem(drv.i))} /\ drv' = drv
         \/ /\ drv.pc = "fill" /\ Access = {StoreTo(Mem(drv.i), drv.buffer[drv.i])} /\ DriverFills
         \/ /\ drv.pc = "command" /\ Access = {Command} /\ drv' = [drv EXCEPT !.pc = "done"]
<1>1. drv.pc \in {"wait", "done"} => Access = {Load(ReadReg)}
  BY DEF Access
<1>2. drv.pc = "fetch" => Access = {Load(Mem(drv.i))}
  BY DEF Access
<1>3. drv.pc = "fill" => Access = {StoreTo(Mem(drv.i), drv.buffer[drv.i])}
  BY DEF Access
<1>4. drv.pc = "command" => Access = {Command}
  BY DEF Access
<1> QED
  BY <1>1, <1>2, <1>3, <1>4 DEF DriverAsks, DriverFills, DriverCommands, DriverLoads

LEMMA AskedTyped ==
  ASSUME SdTypeOK, DriverOK, DriverAsks
  PROVE  \E x \in Transfer : Access = {x}
<1>1. drv.i \in Index /\ drv.buffer[drv.i] \in Byte /\ drv.sector \in Sector
  BY DEF SdTypeOK, Block
<1>2. Load(ReadReg) \in Transfer /\ Load(Mem(drv.i)) \in Transfer
  BY <1>1, Addresses, SdAssumption DEF Load, Transfer
<1>3. StoreTo(Mem(drv.i), drv.buffer[drv.i]) \in Transfer /\ Command \in Transfer
  BY <1>1, Addresses DEF StoreTo, Command, Transfer
<1> QED  BY <1>2, <1>3, Asks

(* What the bridge does at an edge.                                        *)
LEMMA BusMoves ==
  ASSUME SdInv, NEW aph, Edge(aph)
  PROVE  /\ BridgeOK'
         /\ aph # {} => ahbls_hready_resp /\ aph = {Xfer'} /\ dph' # {}
                         /\ apb_state' = IF Xfer'.wr THEN "wr0" ELSE "rd0"
         /\ aph = {} /\ ahbls_hready_resp => apb_state' = "idle" /\ dph' = {}
         /\ ~ ahbls_hready_resp =>
              /\ aph = {} /\ dph' = dph /\ Xfer' = Xfer
              /\ apb_state \in {"wr0", "wr1", "wr2", "rd0", "rd1"}
              /\ apb_state = "wr0" => apb_state' = "wr1"
              /\ apb_state = "wr1" => apb_state' = "wr2"
              /\ apb_state = "wr2" => apb_state' = IF ctl.pready THEN "wr3" ELSE "wr2"
              /\ apb_state = "rd0" => apb_state' = "rd1"
              /\ apb_state = "rd1" => apb_state' = IF ctl.pready THEN "rd2" ELSE "rd1"
         /\ aph = {} => apbm_paddr' = apbm_paddr
         /\ ahbls_hrdata' = IF apb_state = "rd1" /\ ctl.pready THEN ctl.prdata ELSE ahbls_hrdata
<1>0. BridgeOK /\ SdTypeOK /\ DriverOK /\ BridgeStep(aph, ctl.pready, FALSE, ctl.prdata)
  BY DEF SdInv, Edge, Device
<1>1. ctl.pready \in BOOLEAN
  BY <1>0 DEF SdTypeOK
<1>2. aph = {} \/ \E x \in Transfer : aph = {x}
  BY <1>0, AskedTyped DEF Edge
<1>3. CASE aph # {}
  <2>1. PICK x \in Transfer : aph = {x}
    BY <1>2, <1>3
  <2>2. dph' = {x} /\ Xfer' = x /\ ahbls_hready_resp /\ apbm_paddr' = x.addr
    BY <1>0, <2>1, OneOf DEF BridgeStep, Xfer
  <2>3. apb_state' = IF x.wr THEN "wr0" ELSE "rd0"
    BY <1>0, <1>1, <2>1, <2>2 DEF BridgeStep, StateStep, aphase_to_dphase, Advance, ahbls_hready_resp
  <2>4. x.wr \in BOOLEAN
    BY DEF Transfer
  <2> QED  BY <1>0, <2>1, <2>2, <2>3, <2>4 DEF BridgeOK, BridgeStep, Writing, Reading, ahbls_hready_resp
<1>4. CASE aph = {} /\ ahbls_hready_resp
  <2>1. dph' = {} /\ apb_state' = "idle"
    BY <1>0, <1>1, <1>4 DEF BridgeStep, StateStep, aphase_to_dphase, Advance, ahbls_hready_resp
  <2> QED  BY <1>0, <1>4, <2>1 DEF BridgeOK, BridgeStep, Writing, Reading, ahbls_hready_resp
<1>5. CASE aph = {} /\ ~ ahbls_hready_resp
  <2>1. dph' = dph /\ apbm_paddr' = apbm_paddr
    BY <1>0, <1>5 DEF BridgeStep
  <2>2. Xfer' = Xfer
    BY <2>1 DEF Xfer
  <2>3. /\ apb_state \in {"wr0", "wr1", "wr2", "rd0", "rd1"}
        /\ apb_state = "wr0" => apb_state' = "wr1"
        /\ apb_state = "wr1" => apb_state' = "wr2"
        /\ apb_state = "wr2" => apb_state' = IF ctl.pready THEN "wr3" ELSE "wr2"
        /\ apb_state = "rd0" => apb_state' = "rd1"
        /\ apb_state = "rd1" => apb_state' = IF ctl.pready THEN "rd2" ELSE "rd1"
    BY <1>0, <1>1, <1>5 DEF BridgeStep, StateStep, Advance, ahbls_hready_resp, BridgeOK, Writing, Reading
  <2>4. apbm_pwdata' = IF apb_state = "wr0" THEN Xfer.data ELSE apbm_pwdata
    BY <1>0 DEF BridgeStep, Xfer
  <2> QED  BY <1>0, <1>5, <2>1, <2>2, <2>3, <2>4 DEF BridgeOK, BridgeStep, Writing, Reading
<1> QED  BY <1>0, <1>3, <1>4, <1>5 DEF BridgeStep

-------------------------------------------------------------------------------
(* What the bus sees, in each state of the bridge.                         *)
LEMMA Strobes ==
  ASSUME BridgeOK
  PROVE  /\ bus_write <=> apb_state = "wr1"
         /\ bus_read <=> apb_state = "rd1"
         /\ ahbls_hready_resp <=> apb_state \in {"idle", "rd2", "wr3"}
BY DEF BridgeOK, Writing, Reading, bus_write, bus_read, apbm_pwrite, apbm_psel, apbm_penable,
       ahbls_hready_resp

(* The registers of the bus go with the states of the bridge.              *)
LEMMA CtlKept == ASSUME SdInv, NEW aph, Edge(aph) PROVE CtlOK'
<1>0. BridgeOK /\ SdTypeOK /\ CtlOK /\ CtlStep
  BY DEF SdInv, Edge, Device
<1>1. /\ ctl \in [ctrlstate : {0, 1, 2, 5, 6, 12, 15, 16}, pready : BOOLEAN,
                  prdata : Byte \cup {0, 1}, sdsbaddr : Sector \cup {0}, maddr1 : 0 .. BlockSize,
                  midata1 : Byte, mw1 : BOOLEAN, mr1 : BOOLEAN]
      /\ apbm_paddr \in Address
  BY <1>0 DEF SdTypeOK
<1>2. CASE apb_state \notin {"wr1", "wr2", "rd1"}
  <2>1. ctl.ctrlstate = 0 /\ ~ ctl.pready /\ ~ bus_write /\ ~ bus_read
    BY <1>0, <1>2, Strobes DEF CtlOK
  <2>2. ctl' = [ctl EXCEPT !.pready = FALSE]
    BY <1>0, <2>1 DEF CtlStep, Rest, TakeCommand, TakeByte, TakeStatus, TakeRead, GiveStatus,
                      ByteWritten, ByteRead, GiveByte, Done, Hears
  <2>3. apb_state' \in {"wr0", "rd0", "idle", "wr1", "rd1"}
    BY <1>0, <1>2, BusMoves, Strobes DEF BridgeOK, Writing, Reading
  <2> QED  BY <1>0, <1>1, <2>1, <2>2, <2>3 DEF CtlOK
<1>3. CASE apb_state = "wr1"
  <2>1. ctl.ctrlstate = 0 /\ ~ ctl.pready /\ bus_write /\ ~ bus_read
    BY <1>0, <1>3, Strobes DEF CtlOK
  <2>2. TakeCommand \/ TakeByte
    BY <1>0, <2>1 DEF CtlStep, Rest, TakeStatus, TakeRead, GiveStatus, ByteWritten, ByteRead,
                      GiveByte, Done
  <2>3. apb_state' = "wr2" /\ apbm_paddr' = apbm_paddr /\ apbm_pwdata' = apbm_pwdata
    BY <1>0, <1>3, BusMoves, Strobes DEF Edge, Device, BridgeStep
  <2>4. CASE TakeCommand
    BY <1>0, <1>1, <2>1, <2>3, <2>4, Addresses DEF TakeCommand, CtlOK
  <2>5. CASE TakeByte
    BY <1>0, <1>1, <2>1, <2>3, <2>5 DEF TakeByte, CtlOK
  <2> QED  BY <2>2, <2>4, <2>5
<1>4. CASE apb_state = "wr2"
  <2>1. ~ bus_write /\ ~ bus_read /\ apbm_paddr' = apbm_paddr /\ apbm_pwdata' = apbm_pwdata
        /\ apb_state' = IF ctl.pready THEN "wr3" ELSE "wr2"
    BY <1>0, <1>4, BusMoves, Strobes DEF Edge, Device, BridgeStep
  <2>2. Rest \/ ByteWritten \/ Done
    BY <1>0, <1>4, <2>1 DEF CtlStep, TakeCommand, TakeByte, TakeStatus, TakeRead, GiveStatus,
                            ByteRead, GiveByte, CtlOK
  <2>3. CASE Rest
    BY <1>0, <1>1, <1>4, <2>1, <2>3 DEF Rest, CtlOK
  <2>4. CASE ByteWritten
    BY <1>0, <1>1, <1>4, <2>1, <2>4 DEF ByteWritten, CtlOK
  <2>5. CASE Done
    BY <1>0, <1>1, <1>4, <2>1, <2>5 DEF Done, CtlOK
  <2> QED  BY <2>2, <2>3, <2>4, <2>5
<1>5. CASE apb_state = "rd1"
  <2>1. ~ bus_write /\ bus_read /\ apbm_paddr' = apbm_paddr /\ apbm_pwdata' = apbm_pwdata
        /\ apb_state' = IF ctl.pready THEN "rd2" ELSE "rd1"
    BY <1>0, <1>5, BusMoves, Strobes DEF Edge, Device, BridgeStep
  <2>2. Rest \/ TakeStatus \/ TakeRead \/ GiveStatus \/ ByteRead \/ GiveByte
    BY <1>0, <1>5, <2>1 DEF CtlStep, TakeCommand, TakeByte, ByteWritten, Done, CtlOK
  <2>3. CASE Rest
    BY <1>0, <1>1, <1>5, <2>1, <2>3 DEF Rest, CtlOK
  <2>4. CASE TakeStatus
    BY <1>0, <1>1, <1>5, <2>1, <2>4 DEF TakeStatus, CtlOK, Hears
  <2>5. CASE TakeRead
    BY <1>0, <1>1, <1>5, <2>1, <2>5 DEF TakeRead, CtlOK, Hears
  <2>6. CASE GiveStatus
    BY <1>0, <1>1, <1>5, <2>1, <2>6 DEF GiveStatus, CtlOK
  <2>7. CASE ByteRead
    BY <1>0, <1>1, <1>5, <2>1, <2>7 DEF ByteRead, CtlOK
  <2>8. CASE GiveByte
    BY <1>0, <1>1, <1>5, <2>1, <2>8 DEF GiveByte, CtlOK
  <2> QED  BY <2>2, <2>3, <2>4, <2>5, <2>6, <2>7, <2>8
<1> QED  BY <1>2, <1>3, <1>4, <1>5

-------------------------------------------------------------------------------
(* What the driver does at an edge: it asks, ends a load, begins a block   *)
(* or lets time pass.                                                      *)
Asking(aph, x) == aph = {x} /\ dph' = {x} /\ Xfer' = x /\ ahbls_hready_resp

Ending(x) ==
  /\ dph' = {} /\ apb_state' = "idle" /\ apb_state = "rd2" /\ dph # {}
  /\ Xfer = x /\ apbm_paddr = x.addr

DriverMove(aph) ==
  \/ drv.pc \in {"wait", "done"} /\ Asking(aph, Load(ReadReg)) /\ drv' = drv
  \/ drv.pc = "fetch" /\ Asking(aph, Load(Mem(drv.i))) /\ drv' = drv
  \/ drv.pc = "fill" /\ Asking(aph, StoreTo(Mem(drv.i), drv.buffer[drv.i])) /\ DriverFills
  \/ drv.pc = "command" /\ Asking(aph, Command) /\ drv' = [drv EXCEPT !.pc = "done"]
  \/ aph = {} /\ Ending(Load(ReadReg)) /\ DriverWaits
  \/ aph = {} /\ Ending(Load(Mem(drv.i))) /\ ahbls_hrdata = m[drv.i] /\ DriverFetches
  \/ aph = {} /\ dph = {} /\ dph' = {} /\ DriverBegins
  \/ aph = {} /\ drv' = drv

LEMMA DriverMoves == ASSUME SdInv, NEW aph, Edge(aph) PROVE DriverMove(aph)
<1>0. BridgeOK /\ SdTypeOK /\ DriverOK /\ BytesOK
  BY DEF SdInv
<1>1. CASE DriverAsks /\ aph = Access
  <2>1. PICK x : aph = {x}
    BY <1>0, <1>1, AskedTyped
  <2>2. Asking(aph, x)
    <3>1. ahbls_hready_resp /\ aph = {Xfer'} /\ dph' # {}
      BY <2>1, BusMoves
    <3>2. BridgeOK'
      BY BusMoves
    <3> QED  BY <2>1, <3>1, <3>2 DEF Asking, BridgeOK
  <2> QED  BY <1>0, <1>1, <2>1, <2>2, Asks DEF DriverMove
<1>2. CASE DriverProceeds /\ aph = {} /\ Loaded
  <2>1. ahbls_hready_resp /\ dph # {} /\ dph = {Xfer} /\ ~ Xfer.wr /\ apbm_paddr = Xfer.addr
    BY <1>0, <1>2 DEF Loaded, BridgeOK
  <2>2. apb_state = "rd2"
    BY <1>0, <2>1, Strobes DEF BridgeOK, Writing
  <2>3. dph' = {} /\ apb_state' = "idle"
    BY <1>2, <2>1, BusMoves
  <2>4. CASE DriverWaits
    <3>1. Xfer = Load(ReadReg)
      BY <1>0, <2>1, <2>4 DEF DriverWaits, DriverOK, Command, StoreTo
    <3> QED  BY <1>2, <2>1, <2>2, <2>3, <2>4, <3>1 DEF DriverMove, Ending
  <2>5. CASE DriverFetches
    <3>1. Xfer = Load(Mem(drv.i)) /\ drv.i \in Index
      BY <1>0, <2>1, <2>5 DEF DriverFetches, DriverOK, SdTypeOK
    <3>2. apbm_paddr = Mem(drv.i)
      BY <2>1, <3>1 DEF Load
    <3>3. ahbls_hrdata = m[drv.i]
      BY <1>0, <2>2, <3>1, <3>2, Addresses DEF BytesOK
    <3> QED  BY <1>2, <2>1, <2>2, <2>3, <2>5, <3>1, <3>3 DEF DriverMove, Ending
  <2>6. CASE DriverBegins
    BY <1>0, <2>1, <2>6 DEF DriverBegins, DriverOK
  <2> QED  BY <1>2, <2>4, <2>5, <2>6 DEF DriverProceeds
<1>3. CASE DriverProceeds /\ aph = {} /\ ~ Loaded
  <2>1. CASE DriverBegins
    <3>1. dph = {}
      BY <1>0, <2>1 DEF DriverBegins, DriverOK
    <3>2. dph' = {}
      BY <1>0, <1>3, <3>1, BusMoves, Strobes DEF BridgeOK
    <3> QED  BY <1>3, <2>1, <3>1, <3>2 DEF DriverMove
  <2> QED  BY <1>3, <2>1 DEF DriverProceeds, DriverMove
<1> QED  BY <1>1, <1>2, <1>3 DEF Edge

DriverType ==
  [pc : {"out", "wait", "fill", "command", "done", "fetch", "next"}, op : {"read", "write"},
   sector : Sector, i : Index, buffer : Block]

LEMMA Begun ==
  ASSUME drv \in DriverType, DriverBegins
  PROVE  /\ drv' \in DriverType /\ drv.pc \in {"out", "next"} /\ drv'.i = 0
         /\ drv'.pc \in {"wait", "fill", "command"} /\ (drv'.pc # "wait" => drv.pc = "next")
         /\ drv'.pc = "fill" => drv'.op = "write"
         /\ drv'.pc = "command" => drv'.op = "read"
         /\ drv'.op = "read" => drv'.buffer = drv.buffer
<1>1. PICK op \in {"read", "write"}, s \in Sector, d \in Block :
        /\ op = "read" => d = drv.buffer
        /\ \E pc \in {"wait", Ready(op)} :
             /\ drv.pc \in {"out", "next"}
             /\ pc = "wait" \/ (drv.pc = "next" /\ op = drv.op /\ s = drv.sector + 1)
             /\ drv' = [drv EXCEPT !.op = op, !.sector = s, !.buffer = d, !.i = 0, !.pc = pc]
  BY Zenon DEF DriverBegins
<1>2. PICK pc \in {"wait", Ready(op)} :
        /\ drv.pc \in {"out", "next"}
        /\ pc = "wait" \/ (drv.pc = "next" /\ op = drv.op /\ s = drv.sector + 1)
        /\ drv' = [drv EXCEPT !.op = op, !.sector = s, !.buffer = d, !.i = 0, !.pc = pc]
  BY <1>1
<1>3. pc \in {"wait", "fill", "command"} /\ (pc = "fill" => op = "write") /\ (pc = "command" => op = "read")
  BY <1>2 DEF Ready
<1> QED  BY <1>1, <1>2, <1>3, Indices DEF DriverType

(* The driver's loops keep to what they asked.                             *)
LEMMA DriverKept == ASSUME SdInv, NEW aph, Edge(aph) PROVE DriverOK' /\ drv' \in DriverType
<1>0. /\ BridgeOK /\ SdTypeOK /\ DriverOK /\ drv \in DriverType
      /\ drv.i \in Index /\ drv.buffer \in Block /\ m \in Block
  BY DEF SdInv, SdTypeOK, DriverType
<1>1. CASE drv.pc \in {"wait", "done"} /\ Asking(aph, Load(ReadReg)) /\ drv' = drv
  BY <1>0, <1>1 DEF Asking, DriverOK
<1>2. CASE drv.pc = "fetch" /\ Asking(aph, Load(Mem(drv.i))) /\ drv' = drv
  BY <1>0, <1>2 DEF Asking, DriverOK
<1>3. CASE drv.pc = "fill" /\ Asking(aph, StoreTo(Mem(drv.i), drv.buffer[drv.i])) /\ DriverFills
  <2>1. CASE drv.i < BlockSize - 1
    <3>1. drv' = [drv EXCEPT !.i = drv.i + 1]
      BY <1>3, <2>1 DEF DriverFills
    <3>2. drv.i + 1 \in Index /\ drv.i + 1 > 0 /\ (drv.i + 1) - 1 = drv.i
      BY <1>0, <2>1, NextIndex
    <3>3. /\ drv' \in DriverType /\ drv'.pc = "fill" /\ drv'.op = drv.op
          /\ drv'.i = drv.i + 1 /\ drv'.buffer = drv.buffer
      BY <1>0, <1>3, <3>1, <3>2 DEF DriverType
    <3> QED  BY <1>0, <1>3, <3>2, <3>3 DEF Asking, DriverOK
  <2>2. CASE drv.i = BlockSize - 1
    <3>1. drv' = [drv EXCEPT !.i = 0, !.pc = "command"]
      BY <1>0, <1>3, <2>2, Indices DEF DriverFills
    <3> QED  BY <1>0, <1>3, <2>2, <3>1, Indices DEF Asking, DriverOK, DriverType
  <2> QED  BY <1>0, <2>1, <2>2, NextIndex
<1>4. CASE drv.pc = "command" /\ Asking(aph, Command) /\ drv' = [drv EXCEPT !.pc = "done"]
  <2>1. Command' = Command
    BY <1>0, <1>4 DEF Command, DriverType
  <2> QED  BY <1>0, <1>4, <2>1 DEF Asking, DriverOK, DriverType
<1>5. CASE Ending(Load(ReadReg)) /\ DriverWaits
  BY <1>0, <1>5, Indices DEF Ending, DriverWaits, Ready, DriverOK, DriverType
<1>6. CASE Ending(Load(Mem(drv.i))) /\ ahbls_hrdata = m[drv.i] /\ DriverFetches
  <2>1. drv.pc = "fetch" /\ m[drv.i] \in Byte
    BY <1>0, <1>6 DEF DriverFetches, Block
  <2>2. [drv.buffer EXCEPT ![drv.i] = ahbls_hrdata] \in Block
    BY <1>0, <1>6, <2>1 DEF Block
  <2>3. CASE drv.i < BlockSize - 1
    <3>1. drv.i + 1 \in Index
      BY <1>0, <2>3, NextIndex
    <3> QED  BY <1>0, <1>6, <2>1, <2>2, <2>3, <3>1 DEF Ending, DriverFetches, DriverOK, DriverType
  <2>4. CASE ~ drv.i < BlockSize - 1
    BY <1>0, <1>6, <2>1, <2>2, <2>4, Indices DEF Ending, DriverFetches, DriverOK, DriverType
  <2> QED  BY <2>3, <2>4
<1>7. CASE dph' = {} /\ DriverBegins
  BY <1>0, <1>7, Begun DEF DriverOK, DriverType
<1>8. CASE aph = {} /\ drv' = drv
  <2>1. dph' = {} \/ (dph' = dph /\ Xfer' = Xfer)
    BY <1>8, BusMoves
  <2>2. Command' = Command
    BY <1>8 DEF Command
  <2> QED  BY <1>0, <1>8, <2>1, <2>2 DEF DriverOK
<1> QED  BY <1>1, <1>2, <1>3, <1>4, <1>5, <1>6, <1>7, <1>8, DriverMoves DEF DriverMove

-------------------------------------------------------------------------------
CtlType ==
  [ctrlstate : {0, 1, 2, 5, 6, 12, 15, 16}, pready : BOOLEAN, prdata : Byte \cup {0, 1},
   sdsbaddr : Sector \cup {0}, maddr1 : 0 .. BlockSize, midata1 : Byte, mw1 : BOOLEAN, mr1 : BOOLEAN]

SpiType ==
  [state : {0, 1, 2, 3, 4, 10, 11, 12, 13, 16}, oecnt : 0 .. BlockSize, sdsrd : BOOLEAN,
   sdswr : BOOLEAN, sdsdin : Byte, sdsdin_valid : BOOLEAN, sdsdout_taken : BOOLEAN,
   mw2 : BOOLEAN, maddr2 : Index, midata2 : Byte, outbyte : Byte]

CardType ==
  [state : {"begin", "idle", "read", "write", "finish"}, sd_busy : BOOLEAN, sd_error : BOOLEAN,
   addr : Sector, cnt : 0 .. BlockSize, garbled : BOOLEAN, dout_avail : BOOLEAN, dout : Byte,
   din_latch : BOOLEAN, din_taken : BOOLEAN, last_valid : BOOLEAN, block : Block]

LEMMA Typed ==
  ASSUME SdInv
  PROVE  /\ ctl \in CtlType /\ spi \in SpiType /\ cc \in CardType /\ drv \in DriverType
         /\ m \in Block /\ mout \in Byte /\ disk \in [Sector -> Block]
         /\ apbm_paddr \in Address /\ apbm_pwdata \in Byte \cup Sector
         /\ ahbls_hrdata \in Byte \cup {0, 1} /\ dph \in SUBSET Transfer
BY DEF SdInv, SdTypeOK, CtlType, SpiType, CardType, DriverType, Transfer

(* The driver waits for its command while the device is at it.             *)
LEMMA Running ==
  ASSUME SdInv, spi.state # 0
  PROVE  /\ drv.pc = "done" /\ ~ Pending /\ ctl.sdsbaddr = drv.sector
         /\ drv.op = "read" => ReadRun
         /\ drv.op # "read" => WriteRun
<1>1. FreeOK /\ CommandOK /\ ~ Free
  BY DEF SdInv, Free
<1>2. drv.pc = "done"
  BY <1>1 DEF FreeOK
<1>3. ~ Pending /\ ctl.sdsbaddr = drv.sector /\ (IF drv.op = "read" THEN ReadRun ELSE WriteRun)
  BY <1>1, <1>2 DEF CommandOK
<1> QED  BY <1>2, <1>3

(* The signals of the card's controller, and what they leave alone.        *)
LEMMA CardSet ==
  ASSUME NEW c \in CardType, NEW busy \in BOOLEAN, NEW avail \in BOOLEAN, NEW latch \in BOOLEAN,
         NEW taken \in BOOLEAN, NEW valid \in BOOLEAN
  PROVE  [c EXCEPT !.sd_busy = busy, !.dout_avail = avail, !.din_latch = latch,
                   !.din_taken = taken, !.last_valid = valid] \in CardType
BY DEF CardType

LEMMA Signals ==
  ASSUME cc \in CardType, spi \in SpiType, NEW c \in CardType,
         NEW delivers \in BOOLEAN, NEW takes \in BOOLEAN
  PROVE  LET n == CardSignals(c, delivers, takes) IN
         /\ n \in CardType
         /\ n.state = c.state /\ n.sd_error = c.sd_error /\ n.addr = c.addr /\ n.cnt = c.cnt
         /\ n.garbled = c.garbled /\ n.dout = c.dout /\ n.block = c.block
         /\ n.sd_busy <=> cc.state # "idle" \/ spi.sdsrd \/ spi.sdswr
         /\ n.dout_avail <=> delivers \/ (cc.dout_avail /\ ~ spi.sdsdout_taken)
         /\ n.din_latch <=> spi.sdsdin_valid /\ spi.sdswr
                              /\ (~ cc.last_valid \/ (cc.din_latch /\ ~ takes))
         /\ n.din_taken <=> spi.sdsdin_valid /\ spi.sdswr /\ cc.last_valid
                              /\ (cc.din_taken \/ takes)
         /\ n.last_valid <=> spi.sdsdin_valid
<1> DEFINE n == CardSignals(c, delivers, takes)
<1>1. n \in CardType
  <2> DEFINE busy == cc.state # "idle" \/ spi.sdsrd \/ spi.sdswr
             avail == delivers \/ (cc.dout_avail /\ ~ spi.sdsdout_taken)
             latch == spi.sdsdin_valid /\ spi.sdswr
                        /\ (~ cc.last_valid \/ (cc.din_latch /\ ~ takes))
             taken == spi.sdsdin_valid /\ spi.sdswr /\ cc.last_valid /\ (cc.din_taken \/ takes)
  <2>1. n = [c EXCEPT !.sd_busy = busy, !.dout_avail = avail, !.din_latch = latch,
                      !.din_taken = taken, !.last_valid = spi.sdsdin_valid]
    BY DEF CardSignals
  <2>2. busy \in BOOLEAN /\ avail \in BOOLEAN /\ latch \in BOOLEAN /\ taken \in BOOLEAN
        /\ spi.sdsdin_valid \in BOOLEAN
    BY DEF SpiType
  <2> HIDE DEF n, busy, avail, latch, taken
  <2> QED  BY <2>1, <2>2, CardSet
<1>2. /\ n.state = c.state /\ n.sd_error = c.sd_error /\ n.addr = c.addr /\ n.cnt = c.cnt
      /\ n.garbled = c.garbled /\ n.dout = c.dout /\ n.block = c.block
  BY DEF CardSignals, CardType
<1>3. n.sd_busy <=> cc.state # "idle" \/ spi.sdsrd \/ spi.sdswr
  BY DEF CardSignals, CardType, SpiType
<1>4. n.dout_avail <=> delivers \/ (cc.dout_avail /\ ~ spi.sdsdout_taken)
  BY DEF CardSignals, CardType, SpiType
<1>5. n.din_latch <=> spi.sdsdin_valid /\ spi.sdswr
                        /\ (~ cc.last_valid \/ (cc.din_latch /\ ~ takes))
  BY DEF CardSignals, CardType, SpiType
<1>6. n.din_taken <=> spi.sdsdin_valid /\ spi.sdswr /\ cc.last_valid
                        /\ (cc.din_taken \/ takes)
  BY DEF CardSignals, CardType, SpiType
<1>7. n.last_valid <=> spi.sdsdin_valid
  BY DEF CardSignals, CardType, SpiType
<1> QED  BY <1>1, <1>2, <1>3, <1>4, <1>5, <1>6, <1>7

(* The memory is used at a place it has, by one of its users at a time.    *)
LEMMA BusIsAlone ==
  ASSUME SdInv, ctl.mr1 \/ ctl.mw1
  PROVE  /\ spi.state = 0 /\ Quiet /\ apbm_paddr.block /\ maddr = apbm_paddr.off
         /\ apbm_paddr.off \in Index /\ drv.pc \in {"fill", "command", "fetch"}
<1>0. CtlOK /\ BridgeOK /\ DriverOK /\ FreeOK /\ ctl \in CtlType /\ apbm_paddr \in Address
  BY Typed DEF SdInv
<1>1. ctl.ctrlstate \in {5, 15} /\ apbm_paddr.block /\ ctl.maddr1 = apbm_paddr.off
  BY <1>0 DEF CtlOK
<1>2. dph # {} /\ apbm_paddr = Xfer.addr
  BY <1>0, <1>1 DEF CtlOK, BridgeOK
<1>3. drv.pc \in {"fill", "command", "fetch"}
  BY <1>0, <1>1, <1>2, Addresses DEF DriverOK, Load, StoreTo, Command
<1> QED  BY <1>0, <1>1, <1>3, Addresses DEF FreeOK, maddr

LEMMA MemoryUse == ASSUME SdInv PROVE maddr \in Index /\ midata \in Byte
<1>1. ctl \in CtlType /\ spi \in SpiType
  BY Typed
<1>2. maddr \in Index
  BY <1>1, BusIsAlone DEF maddr, SpiType
<1> QED  BY <1>1, <1>2 DEF midata, CtlType, SpiType

-------------------------------------------------------------------------------
(* Types.  What the bus writes is a byte in the block and a sector in a    *)
(* register.                                                               *)
LEMMA BusWrites ==
  ASSUME SdInv, bus_write
  PROVE  /\ apbm_paddr.block => apbm_pwdata \in Byte
         /\ ~ apbm_paddr.block => Xfer = Command /\ drv.pc = "done" /\ apbm_pwdata = drv.sector
<1>0. BridgeOK /\ DriverOK /\ drv \in DriverType
  BY Typed DEF SdInv
<1>1. dph # {} /\ Xfer.wr /\ apbm_paddr = Xfer.addr /\ apbm_pwdata = Xfer.data
  BY <1>0, Strobes DEF BridgeOK, Writing
<1>2. CASE drv.pc = "fill" /\ drv.i > 0 /\ Xfer = StoreTo(Mem(drv.i - 1), drv.buffer[drv.i - 1])
  <2>1. drv.i - 1 \in Index
    BY <1>0, <1>2, SdAssumption DEF DriverType, Index
  <2>2. drv.buffer[drv.i - 1] \in Byte
    BY <1>0, <2>1 DEF DriverType, Block
  <2> QED  BY <1>1, <1>2, <2>1, <2>2, Addresses DEF StoreTo
<1>3. CASE Xfer = StoreTo(Mem(BlockSize - 1), drv.buffer[BlockSize - 1])
  <2>1. drv.buffer[BlockSize - 1] \in Byte
    BY <1>0, Indices DEF DriverType, Block
  <2> QED  BY <1>1, <1>3, <2>1, Addresses, Indices DEF StoreTo
<1>4. CASE Xfer = Command /\ drv.pc = "done"
  BY <1>1, <1>4, Addresses DEF StoreTo, Command
<1> QED  BY <1>0, <1>1, <1>2, <1>3, <1>4 DEF DriverOK, Load

LEMMA CtlTyped == ASSUME SdInv, NEW aph, Edge(aph) PROVE ctl' \in CtlType
<1>0. /\ ctl \in CtlType /\ CtlStep /\ drv \in DriverType /\ mout \in Byte /\ CtlOK
      /\ apbm_paddr \in Address
  BY Typed DEF Edge, Device, SdInv
<1>1. CASE Rest \/ ByteRead \/ Done \/ TakeStatus
  BY <1>0, <1>1 DEF Rest, ByteRead, Done, TakeStatus, CtlType
<1>2. CASE TakeCommand
  <2>1. apbm_pwdata \in Sector
    BY <1>0, <1>2, BusWrites DEF TakeCommand, DriverType
  <2> QED  BY <1>0, <1>2, <2>1 DEF TakeCommand, CtlType
<1>3. CASE TakeByte
  <2>1. apbm_pwdata \in Byte /\ apbm_paddr.off \in 0 .. BlockSize
    BY <1>0, <1>3, BusWrites, Addresses, Indices DEF TakeByte, Index
  <2> QED  BY <1>0, <1>3, <2>1 DEF TakeByte, CtlType
<1>4. CASE TakeRead
  <2>1. apbm_paddr.off \in 0 .. BlockSize
    BY <1>0, <1>4, Addresses, Indices DEF TakeRead, Index
  <2> QED  BY <1>0, <1>4, <2>1 DEF TakeRead, CtlType
<1>5. CASE GiveStatus
  BY <1>0, <1>5 DEF GiveStatus, sdspi_status, CtlType
<1>6. CASE ByteWritten \/ GiveByte
  <2>1. ctl.maddr1 + 1 \in 0 .. BlockSize
    BY <1>0, <1>6, Addresses, Indices DEF ByteWritten, GiveByte, CtlOK, Index
  <2> QED  BY <1>0, <1>6, <2>1 DEF ByteWritten, GiveByte, CtlType
<1> QED  BY <1>0, <1>1, <1>2, <1>3, <1>4, <1>5, <1>6 DEF CtlStep

LEMMA SpiTyped == ASSUME SdInv, NEW aph, Edge(aph) PROVE spi' \in SpiType
<1>0. /\ spi \in SpiType /\ SpiStep /\ cc \in CardType /\ mout \in Byte
      /\ 0 \in 0 .. BlockSize /\ spi.oecnt \in Nat
  BY Typed, SdAssumption DEF Edge, Device, SpiType
<1>1. spi.state \in {3, 13} => spi.oecnt + 1 \in 0 .. BlockSize /\ spi.oecnt \in Index
  BY <1>0, Running, SdAssumption DEF SpiType, ReadRun, ReadHandshake, WriteRun, WriteHandshake, Index
<1>2. CASE SpiIdle
  BY <1>0, <1>2 DEF SpiIdle, SpiType
<1>3. CASE ReadAsk \/ ReadByte \/ ReadHeld \/ ReadNext \/ ReadEnd
  <2>1. CASE ReadAsk
    BY <1>0, <2>1 DEF ReadAsk, SpiType
  <2>2. CASE ReadByte
    BY <1>0, <2>2 DEF ReadByte, SpiType, CardType
  <2>3. CASE ReadHeld
    BY <1>0, <2>3 DEF ReadHeld, SpiType
  <2>4. CASE ReadNext
    BY <1>0, <2>4 DEF ReadNext, SpiType
  <2>5. CASE ReadEnd
    BY <1>0, <2>5 DEF ReadEnd, SpiType
  <2> QED  BY <1>3, <2>1, <2>2, <2>3, <2>4, <2>5
<1>4. CASE ReadKeep
  BY <1>0, <1>1, <1>4 DEF ReadKeep, SpiType
<1>5. CASE WriteNext
  <2>1. spi.oecnt \in Index
    BY <1>0, <1>5, SdAssumption DEF WriteNext, SpiType, Index
  <2> QED  BY <1>0, <1>5, <2>1 DEF WriteNext, SpiType
<1>6. CASE WriteEnd
  BY <1>0, <1>6 DEF WriteEnd, SpiType
<1>7. CASE WriteFetch \/ WriteGive \/ WriteTaken
  BY <1>0, <1>7 DEF WriteFetch, WriteGive, WriteTaken, SpiType
<1>8. CASE WriteCount
  BY <1>0, <1>1, <1>8 DEF WriteCount, SpiType
<1> QED  BY <1>0, <1>2, <1>3, <1>4, <1>5, <1>6, <1>7, <1>8 DEF SpiStep

LEMMA CardBegun ==
  ASSUME NEW c \in CardType, NEW to \in {"read", "write"}, NEW a \in Sector, 0 \in 0 .. BlockSize
  PROVE  [c EXCEPT !.state = to, !.sd_error = FALSE, !.addr = a, !.cnt = 0] \in CardType
BY DEF CardType

(* What the controller of the card does at an edge.                        *)
SignalsAre(delivers, takes) ==
  /\ cc'.sd_busy <=> cc.state # "idle" \/ spi.sdsrd \/ spi.sdswr
  /\ cc'.dout_avail <=> delivers \/ (cc.dout_avail /\ ~ spi.sdsdout_taken)
  /\ cc'.din_latch <=> spi.sdsdin_valid /\ spi.sdswr
                         /\ (~ cc.last_valid \/ (cc.din_latch /\ ~ takes))
  /\ cc'.din_taken <=> spi.sdsdin_valid /\ spi.sdswr /\ cc.last_valid /\ (cc.din_taken \/ takes)
  /\ cc'.last_valid <=> spi.sdsdin_valid

Steady ==
  /\ cc'.sd_error = cc.sd_error /\ cc'.addr = cc.addr /\ cc'.cnt = cc.cnt
  /\ cc'.garbled = cc.garbled /\ cc'.dout = cc.dout /\ cc'.block = cc.block
  /\ disk' = disk /\ SignalsAre(FALSE, FALSE)

Started ==
  /\ cc.state = "idle" /\ (spi.sdsrd \/ spi.sdswr)
  /\ cc'.state = IF spi.sdsrd THEN "read" ELSE "write"
  /\ ~ cc'.sd_error /\ cc'.addr = ctl.sdsbaddr /\ cc'.cnt = 0
  /\ cc'.garbled = cc.garbled /\ cc'.dout = cc.dout /\ cc'.block = cc.block
  /\ disk' = disk /\ SignalsAre(FALSE, FALSE)

Delivered ==
  /\ cc.state = "read" /\ spi.sdsrd /\ cc.cnt < BlockSize /\ ~ cc.dout_avail /\ ~ spi.sdsdout_taken
  /\ cc'.state = "read" /\ cc'.cnt = cc.cnt + 1
  /\ cc'.garbled <=> cc.garbled \/ cc'.dout # disk[cc.addr][cc.cnt]
  /\ cc'.sd_error = cc.sd_error /\ cc'.addr = cc.addr /\ cc'.block = cc.block
  /\ disk' = disk /\ SignalsAre(TRUE, FALSE)

Taken ==
  /\ cc.state = "write" /\ spi.sdswr /\ cc.cnt < BlockSize /\ cc.din_latch
  /\ cc'.state = "write" /\ cc'.cnt = cc.cnt + 1
  /\ cc'.block = [cc.block EXCEPT ![cc.cnt] = spi.sdsdin]
  /\ cc'.sd_error = cc.sd_error /\ cc'.addr = cc.addr /\ cc'.garbled = cc.garbled
  /\ disk' = disk /\ SignalsAre(FALSE, TRUE)

Ended ==
  /\ cc.state \in {"read", "write"} /\ cc'.state = "finish" /\ ~ cc'.garbled
  /\ \/ /\ ~ cc.garbled /\ cc'.sd_error = cc.sd_error /\ disk' = Stored
        /\ cc.cnt = BlockSize \/ ~ (spi.sdsrd \/ spi.sdswr)
     \/ cc.cnt \in {0, BlockSize} /\ cc'.sd_error /\ disk' \in {disk, Stored}
  /\ cc'.addr = cc.addr /\ cc'.cnt = cc.cnt /\ cc'.dout = cc.dout /\ SignalsAre(FALSE, FALSE)

CardMove ==
  \/ cc.state \in {"begin", "read", "write"} /\ cc'.state = cc.state /\ Steady
  \/ cc.state = "begin" /\ cc'.state = "idle" /\ Steady
  \/ cc.state = "idle" /\ ~ spi.sdsrd /\ ~ spi.sdswr /\ cc'.state = "idle" /\ Steady
  \/ cc.state = "finish" /\ cc'.state = (IF spi.sdsrd \/ spi.sdswr THEN "finish" ELSE "begin") /\ Steady
  \/ Started \/ Delivered \/ Taken \/ Ended

LEMMA CardDoes ==
  ASSUME SdInv, NEW aph, Edge(aph)
  PROVE  CardMove /\ cc' \in CardType /\ disk' \in [Sector -> Block]
<1>0. /\ cc \in CardType /\ spi \in SpiType /\ ctl \in CtlType /\ disk \in [Sector -> Block]
      /\ Card /\ drv \in DriverType
  BY Typed DEF Edge
<1> DEFINE blank == [i \in Index |-> 0]
<1>1. blank \in Block
  BY SdAssumption DEF Block
<1>2. ASSUME cc' = CardSignals(cc, FALSE, FALSE), disk' = disk
      PROVE  cc'.state = cc.state /\ Steady /\ cc' \in CardType
  BY <1>0, <1>2, Signals DEF Steady, SignalsAre
<1>3. CASE CardWaits
  BY <1>0, <1>2, <1>3 DEF CardWaits, CardSteps, CardMove
<1>4. CASE CardFree
  <2> DEFINE c == [cc EXCEPT !.state = "idle"]
  <2>1. /\ c \in CardType /\ c.state = "idle" /\ c.sd_error = cc.sd_error /\ c.addr = cc.addr
        /\ c.cnt = cc.cnt /\ c.garbled = cc.garbled /\ c.dout = cc.dout /\ c.block = cc.block
    BY <1>0 DEF CardType
  <2>2. cc.state = "begin" /\ cc' = CardSignals(c, FALSE, FALSE) /\ disk' = disk
    BY <1>4 DEF CardFree, CardSteps
  <2> HIDE DEF c
  <2> QED  BY <1>0, <2>1, <2>2, Signals DEF CardMove, Steady, SignalsAre
<1>5. CASE CardIdle
  <2>1. CASE spi.sdsrd \/ spi.sdswr
    <3>1. spi.state # 0
      BY <2>1 DEF SdInv, FreeOK, Quiet
    <3>2. ctl.sdsbaddr \in Sector
      BY <1>0, <3>1, Running DEF DriverType
    <3> DEFINE to == IF spi.sdsrd THEN "read" ELSE "write"
               c == [cc EXCEPT !.state = to, !.sd_error = FALSE, !.addr = ctl.sdsbaddr, !.cnt = 0]
    <3>3. c \in CardType
      <4>1. to \in {"read", "write"}
        OBVIOUS
      <4>2. 0 \in 0 .. BlockSize /\ cc \in CardType
        BY <1>0, SdAssumption
      <4> HIDE DEF to
      <4> QED  BY <3>2, <4>1, <4>2, CardBegun
    <3>4. /\ c.state = to /\ ~ c.sd_error /\ c.addr = ctl.sdsbaddr /\ c.cnt = 0
          /\ c.garbled = cc.garbled /\ c.dout = cc.dout /\ c.block = cc.block
      BY <1>0 DEF CardType
    <3>5. cc.state = "idle" /\ cc' = CardSignals(c, FALSE, FALSE) /\ disk' = disk
      BY <1>5, <2>1 DEF CardIdle, CardSteps
    <3> HIDE DEF c
    <3> QED  BY <1>0, <2>1, <3>3, <3>4, <3>5, Signals DEF CardMove, Started, SignalsAre
  <2>2. CASE ~ (spi.sdsrd \/ spi.sdswr)
    BY <1>0, <1>2, <1>5, <2>2 DEF CardIdle, CardSteps, CardMove
  <2> QED  BY <2>1, <2>2
<1>6. CASE CardDelivers
  <2>1. PICK b \in Byte :
          cc' = CardSignals([cc EXCEPT !.dout = b, !.cnt = cc.cnt + 1,
                                       !.garbled = cc.garbled \/ b # disk[cc.addr][cc.cnt]], TRUE, FALSE)
    BY <1>6 DEF CardDelivers
  <2> DEFINE g == cc.garbled \/ b # disk[cc.addr][cc.cnt]
             c == [cc EXCEPT !.dout = b, !.cnt = cc.cnt + 1, !.garbled = g]
  <2>2. g \in BOOLEAN /\ cc.cnt + 1 \in 0 .. BlockSize /\ (g <=> cc.garbled \/ b # disk[cc.addr][cc.cnt])
    BY <1>0, <1>6, SdAssumption DEF CardDelivers, CardType
  <2>3. cc' = CardSignals(c, TRUE, FALSE) /\ disk' = disk
    BY <1>6, <2>1 DEF CardDelivers
  <2> HIDE DEF g
  <2>4. /\ c \in CardType /\ c.state = cc.state /\ c.sd_error = cc.sd_error /\ c.addr = cc.addr
        /\ c.cnt = cc.cnt + 1 /\ c.garbled = g /\ c.dout = b /\ c.block = cc.block
    BY <1>0, <2>2 DEF CardType
  <2> HIDE DEF c
  <2> QED  BY <1>0, <1>6, <2>2, <2>3, <2>4, Signals DEF CardMove, Delivered, SignalsAre, CardDelivers
<1>7. CASE CardTakes
  <2> DEFINE c == [cc EXCEPT !.block = [cc.block EXCEPT ![cc.cnt] = spi.sdsdin], !.cnt = cc.cnt + 1]
  <2>1. cc.cnt + 1 \in 0 .. BlockSize
    BY <1>0, <1>7, SdAssumption DEF CardTakes, CardType
  <2>2. [cc.block EXCEPT ![cc.cnt] = spi.sdsdin] \in Block
    BY <1>0 DEF CardType, SpiType, Block
  <2>3. /\ c \in CardType /\ c.state = cc.state /\ c.sd_error = cc.sd_error /\ c.addr = cc.addr
        /\ c.cnt = cc.cnt + 1 /\ c.garbled = cc.garbled /\ c.dout = cc.dout
        /\ c.block = [cc.block EXCEPT ![cc.cnt] = spi.sdsdin]
    BY <1>0, <2>1, <2>2 DEF CardType
  <2>4. cc' = CardSignals(c, FALSE, TRUE) /\ disk' = disk
    BY <1>7 DEF CardTakes
  <2> HIDE DEF c
  <2>5. SignalsAre(FALSE, TRUE) /\ cc' \in CardType
    BY <1>0, <2>3, <2>4, Signals DEF SignalsAre
  <2>6. /\ cc'.state = cc.state /\ cc'.sd_error = cc.sd_error /\ cc'.addr = cc.addr
        /\ cc'.cnt = cc.cnt + 1 /\ cc'.garbled = cc.garbled
        /\ cc'.block = [cc.block EXCEPT ![cc.cnt] = spi.sdsdin]
    BY <1>0, <2>3, <2>4, Signals
  <2> QED  BY <1>0, <1>7, <2>4, <2>5, <2>6 DEF CardMove, Taken, CardTakes
<1>8. Stored \in [Sector -> Block]
  BY <1>0 DEF Stored, CardType
<1>9. CASE CardEnds
  <2>1. /\ Over \in CardType /\ Over.state = "finish" /\ ~ Over.garbled /\ Over.sd_error = cc.sd_error
        /\ Over.addr = cc.addr /\ Over.cnt = cc.cnt /\ Over.dout = cc.dout
    BY <1>0, <1>1 DEF Over, CardType
  <2> QED  BY <1>0, <1>8, <1>9, <2>1, Signals DEF CardEnds, CardSteps, CardMove, Ended, SignalsAre
<1>10. CASE CardRefuses
  <2> DEFINE c == [Over EXCEPT !.sd_error = TRUE]
  <2>1. /\ c \in CardType /\ c.state = "finish" /\ ~ c.garbled /\ c.sd_error
        /\ c.addr = cc.addr /\ c.cnt = cc.cnt /\ c.dout = cc.dout
    BY <1>0, <1>1 DEF Over, CardType
  <2>2. cc' = CardSignals(c, FALSE, FALSE)
    BY <1>10 DEF CardRefuses, CardSteps
  <2> HIDE DEF c
  <2> QED  BY <1>0, <1>8, <1>10, <2>1, <2>2, Signals DEF CardRefuses, CardMove, Ended, SignalsAre
<1>11. CASE CardFinishes
  <2>1. CASE spi.sdsrd \/ spi.sdswr
    BY <1>0, <1>2, <1>11, <2>1 DEF CardFinishes, CardSteps, CardMove
  <2>2. CASE ~ (spi.sdsrd \/ spi.sdswr)
    <3> DEFINE c == [cc EXCEPT !.state = "begin"]
    <3>1. /\ c \in CardType /\ c.state = "begin" /\ c.sd_error = cc.sd_error /\ c.addr = cc.addr
          /\ c.cnt = cc.cnt /\ c.garbled = cc.garbled /\ c.dout = cc.dout /\ c.block = cc.block
      BY <1>0 DEF CardType
    <3>2. cc.state = "finish" /\ cc' = CardSignals(c, FALSE, FALSE) /\ disk' = disk
      BY <1>11, <2>2 DEF CardFinishes, CardSteps
    <3> HIDE DEF c
    <3> QED  BY <1>0, <2>2, <3>1, <3>2, Signals DEF CardMove, Steady, SignalsAre
  <2> QED  BY <2>1, <2>2
<1> QED
  BY <1>0, <1>3, <1>4, <1>5, <1>6, <1>7, <1>9, <1>10, <1>11 DEF Card, CardMoves

LEMMA MemoryTyped == ASSUME SdInv, NEW aph, Edge(aph) PROVE m' \in Block /\ mout' \in Byte
<1>1. m \in Block /\ MemoryStep /\ maddr \in Index /\ midata \in Byte
  BY Typed, MemoryUse DEF Edge, Device
<1> QED  BY <1>1 DEF MemoryStep, Block

LEMMA TypesKept == ASSUME SdInv, NEW aph, Edge(aph) PROVE SdTypeOK'
<1>0. /\ BridgeOK /\ BridgeOK' /\ apbm_paddr \in Address /\ ctl \in CtlType
      /\ apbm_pwdata \in Byte \cup Sector /\ ahbls_hrdata \in Byte \cup {0, 1}
      /\ BridgeStep(aph, ctl.pready, FALSE, ctl.prdata)
  BY Typed, BusMoves DEF SdInv, Edge, Device
<1>1. apb_state' \in ApbState
  BY <1>0 DEF BridgeOK, ApbState, Writing, Reading
<1>2. dph' = {} \/ \E t \in Transfer : dph' = {t}
  BY <1>0 DEF BridgeOK
<1>3. apbm_paddr' \in Address
  <2>1. CASE aph = {}
    BY <1>0, <2>1, BusMoves
  <2>2. CASE aph # {}
    BY <1>0, <2>2, BusMoves DEF BridgeOK, Transfer
  <2> QED  BY <2>1, <2>2
<1>4. apbm_pwdata' \in Byte \cup Sector
  <2>1. CASE apb_state = "wr0"
    <3>1. Xfer \in Transfer /\ apbm_pwdata' = Xfer.data
      BY <1>0, <2>1 DEF BridgeOK, BridgeStep, Xfer
    <3> QED  BY <3>1 DEF Transfer
  <2>2. CASE apb_state # "wr0"
    BY <1>0, <2>2 DEF BridgeStep
  <2> QED  BY <2>1, <2>2
<1>5. ahbls_hrdata' \in Byte \cup {0, 1}
  BY <1>0 DEF BridgeStep, CtlType
<1>6. drv' \in DriverType /\ ctl' \in CtlType /\ spi' \in SpiType /\ m' \in Block /\ mout' \in Byte
      /\ cc' \in CardType /\ disk' \in [Sector -> Block]
  BY DriverKept, CtlTyped, SpiTyped, MemoryTyped, CardDoes
<1> QED
  BY <1>1, <1>2, <1>3, <1>4, <1>5, <1>6
  DEF SdTypeOK, Transfer, DriverType, CtlType, SpiType, CardType

-------------------------------------------------------------------------------
(* The device and the card are free until a command is heard.              *)
LEMMA CommandTaken ==
  ASSUME SdInv, ctl.ctrlstate \in {2, 12}
  PROVE  /\ apb_state = "wr2" /\ ~ ctl.pready /\ dph # {} /\ Xfer = Command /\ drv.pc = "done"
         /\ Pending /\ Free /\ Quiet /\ ctl.sdsbaddr = drv.sector
         /\ drv.op = "write" => m = drv.buffer
         /\ ctl.ctrlstate = IF drv.op = "read" THEN 2 ELSE 12
<1>0. CtlOK /\ BridgeOK /\ DriverOK /\ CommandOK /\ FreeOK /\ drv \in DriverType
  BY Typed DEF SdInv
<1>1. apb_state = "wr2" /\ ~ ctl.pready /\ dph # {} /\ Xfer.wr /\ apbm_paddr = Xfer.addr
      /\ ~ apbm_paddr.block
  BY <1>0, Addresses DEF CtlOK, BridgeOK, Writing
<1>2. Xfer = Command /\ drv.pc = "done"
  <2>1. drv.pc = "fill" /\ drv.i > 0 => drv.i - 1 \in Index
    BY <1>0, SdAssumption DEF DriverType, Index
  <2> QED  BY <1>0, <1>1, <2>1, Addresses, Indices DEF DriverOK, Load, StoreTo
<1>3. Pending
  BY <1>1, <1>2 DEF Pending
<1>4. ctl.ctrlstate = IF drv.op = "read" THEN 2 ELSE 12
  BY <1>0, <1>1, <1>2, Addresses DEF CtlOK, Command, StoreTo
<1> QED  BY <1>0, <1>1, <1>2, <1>3, <1>4 DEF CommandOK, FreeOK, Free

(* The device's machine of the card, state by state.                       *)
LEMMA SpiMoves ==
  ASSUME spi \in SpiType, SpiStep
  PROVE  \/ /\ SpiIdle /\ spi.state = 0
            /\ spi'.state = 0 \/ (ctl.ctrlstate \in {2, 12} /\ ~ cc.sd_busy)
            /\ spi'.sdsrd = spi.sdsrd /\ spi'.sdswr = spi.sdswr /\ spi'.mw2 = spi.mw2
            /\ spi'.sdsdin_valid = spi.sdsdin_valid /\ spi'.sdsdout_taken = spi.sdsdout_taken
         \/ ReadAsk /\ spi.state = 1 /\ spi'.state = 2
         \/ ReadByte /\ spi.state = 2 /\ spi'.state = (IF cc.dout_avail THEN 3 ELSE 2)
         \/ ReadKeep /\ spi.state = 3 /\ spi'.state = 4
         \/ ReadHeld /\ spi.state = 4 /\ spi'.state = 4
         \/ ReadNext /\ spi.state = 4 /\ spi'.state = 2
         \/ ReadEnd /\ spi.state = 4 /\ spi'.state = (IF cc.sd_busy THEN 4 ELSE 0)
         \/ WriteNext /\ spi.state = 10 /\ spi'.state = 16
         \/ WriteEnd /\ spi.state = 10 /\ spi'.state = (IF cc.sd_busy THEN 10 ELSE 0)
         \/ WriteFetch /\ spi.state = 16 /\ spi'.state = 11
         \/ WriteGive /\ spi.state = 11 /\ spi'.state = 12
         \/ WriteTaken /\ spi.state = 12 /\ spi'.state = (IF cc.din_taken THEN 13 ELSE 12)
         \/ WriteCount /\ spi.state = 13 /\ spi'.state = (IF cc.din_taken THEN 13 ELSE 10)
<1>1. CASE SpiIdle
  BY <1>1 DEF SpiIdle, SpiType
<1>2. CASE ReadAsk
  BY <1>2 DEF ReadAsk, SpiType
<1>3. CASE ReadByte
  BY <1>3 DEF ReadByte, SpiType
<1>4. CASE ReadKeep
  BY <1>4 DEF ReadKeep, SpiType
<1>5. CASE ReadHeld
  BY <1>5 DEF ReadHeld, SpiType
<1>6. CASE ReadNext
  BY <1>6 DEF ReadNext, SpiType
<1>7. CASE ReadEnd
  BY <1>7 DEF ReadEnd, SpiType
<1>8. CASE WriteNext
  BY <1>8 DEF WriteNext, SpiType
<1>9. CASE WriteEnd
  BY <1>9 DEF WriteEnd, SpiType
<1>10. CASE WriteFetch
  BY <1>10 DEF WriteFetch, SpiType
<1>11. CASE WriteGive
  BY <1>11 DEF WriteGive, SpiType
<1>12. CASE WriteTaken
  BY <1>12 DEF WriteTaken, SpiType
<1>13. CASE WriteCount
  BY <1>13 DEF WriteCount, SpiType
<1> QED
  BY <1>1, <1>2, <1>3, <1>4, <1>5, <1>6, <1>7, <1>8, <1>9, <1>10, <1>11, <1>12, <1>13 DEF SpiStep

LEMMA StaysFree ==
  ASSUME SdInv, NEW aph, Edge(aph), Free, ctl.ctrlstate \notin {2, 12}
  PROVE  /\ Free' /\ Quiet' /\ cc'.state = "idle" /\ cc'.sd_error = cc.sd_error /\ disk' = disk
         /\ cc'.garbled = cc.garbled
         /\ ~ ctl.mw1 => m' = m
<1>0. /\ cc \in CardType /\ spi \in SpiType /\ ctl \in CtlType
      /\ spi.state = 0 /\ ~ cc.sd_busy /\ cc.state = "idle" /\ Quiet /\ Card /\ SpiStep /\ MemoryStep
  BY Typed DEF Edge, Device, Free, SdInv, FreeOK
<1>2. cc'.state = "idle" /\ Steady
  BY <1>0, CardDoes DEF CardMove, Quiet, Started, Delivered, Taken, Ended
<1>3. ~ ctl.mw1 => m' = m
  BY <1>0 DEF MemoryStep, mw, Quiet
<1>4. /\ spi'.state = 0 /\ spi'.sdsrd = spi.sdsrd /\ spi'.sdswr = spi.sdswr /\ spi'.mw2 = spi.mw2
      /\ spi'.sdsdin_valid = spi.sdsdin_valid /\ spi'.sdsdout_taken = spi.sdsdout_taken
  BY <1>0, SpiMoves
<1>5. /\ cc'.state = "idle" /\ cc'.sd_error = cc.sd_error /\ cc'.garbled = cc.garbled /\ ~ cc'.sd_busy
      /\ ~ cc'.dout_avail /\ ~ cc'.din_latch /\ ~ cc'.din_taken /\ ~ cc'.last_valid
      /\ disk' = disk
  BY <1>0, <1>2 DEF Quiet, Steady, SignalsAre
<1> QED  BY <1>0, <1>3, <1>4, <1>5 DEF Free, Quiet

(* A status word of zero is true until the driver acts on it.              *)
LEMMA SeenFreeKept == ASSUME SdInv, NEW aph, Edge(aph), SeenFree' PROVE Free'
<1>0. /\ CtlOK /\ BridgeOK /\ CtlStep /\ ctl \in CtlType /\ BridgeOK'
      /\ ahbls_hrdata' = IF apb_state = "rd1" /\ ctl.pready THEN ctl.prdata ELSE ahbls_hrdata
  BY Typed, BusMoves DEF SdInv, Edge, Device
<1>1. apb_state' \in {"rd1", "rd2"} /\ dph' # {} /\ Xfer' = Load(ReadReg)
  BY DEF SeenFree
<1>2. ~ ahbls_hready_resp
  BY <1>1, BusMoves
<1>3. aph = {} /\ dph' = dph /\ Xfer' = Xfer /\ apbm_paddr' = apbm_paddr
  BY <1>2, BusMoves
<1>4. Xfer = Load(ReadReg) /\ ~ apbm_paddr.block /\ dph # {}
  BY <1>0, <1>1, <1>3, Addresses DEF BridgeOK, Load
<1>5. CASE apb_state = "rd1" /\ ctl.pready
  <2>1. SeenFree /\ ctl.ctrlstate = 0
    BY <1>0, <1>1, <1>2, <1>4, <1>5, BusMoves DEF SeenFree, CtlOK
  <2> QED  BY <2>1, StaysFree DEF SdInv, FreeOK
<1>6. CASE apb_state = "rd1" /\ ~ ctl.pready
  <2>1. apb_state' = "rd1" /\ ctl'.pready /\ ctl'.prdata = 0
    BY <1>1, <1>2, <1>6, BusMoves DEF SeenFree
  <2>2. GiveStatus \/ GiveByte
    <3>1. ctl.ctrlstate \in {0, 1, 15, 16} /\ ~ ctl.pready
      BY <1>0, <1>6 DEF CtlOK
    <3>2. Rest \/ TakeCommand \/ TakeByte \/ TakeStatus \/ TakeRead \/ ByteRead => ~ ctl'.pready
      BY <1>0, <3>1 DEF Rest, TakeCommand, TakeByte, TakeStatus, TakeRead, ByteRead, CtlType, Hears
    <3> QED  BY <1>0, <2>1, <3>1, <3>2 DEF CtlStep, ByteWritten, Done
  <2>3. GiveStatus
    BY <1>0, <1>4, <2>2 DEF GiveByte, CtlOK
  <2>4. sdspi_status = 0 /\ ctl.ctrlstate = 1
    BY <1>0, <2>1, <2>3 DEF GiveStatus, CtlType
  <2>5. Free
    BY <2>4 DEF sdspi_status, Free
  <2> QED  BY <2>4, <2>5, StaysFree
<1>7. CASE apb_state # "rd1"
  <2>1. apb_state = "rd0" /\ apb_state' = "rd1" /\ ctl.ctrlstate = 0 /\ ~ ctl.pready
        /\ ~ bus_write /\ ~ bus_read
    BY <1>0, <1>1, <1>2, <1>7, BusMoves, Strobes DEF CtlOK
  <2>2. ~ ctl'.pready
    BY <1>0, <2>1 DEF CtlStep, Rest, TakeCommand, TakeByte, TakeStatus, TakeRead, GiveStatus,
                      ByteWritten, ByteRead, GiveByte, Done, CtlType
  <2> QED  BY <2>1, <2>2 DEF SeenFree
<1> QED  BY <1>5, <1>6, <1>7

(* The transfer with the card ends with nothing under way.                 *)
LEMMA TransferEnds ==
  ASSUME SdInv, NEW aph, Edge(aph), spi.state # 0, spi'.state = 0
  PROVE  /\ cc.state = "idle" /\ ~ cc.sd_busy /\ cc'.state = "idle" /\ Quiet' /\ Steady
         /\ spi.state \in {4, 10} /\ spi.oecnt = BlockSize /\ ~ spi.sdsrd /\ ~ spi.sdswr
<1>0. /\ cc \in CardType /\ spi \in SpiType /\ drv \in DriverType /\ SpiStep /\ FreeOK
  BY Typed DEF Edge, Device, SdInv
<1>1. /\ spi.state = 4 => ReadEnd
      /\ spi.state = 10 => WriteEnd
      /\ spi.state \in {4, 10} /\ ~ cc.sd_busy
  BY <1>0, SpiMoves
<1>2. ~ cc.sd_busy /\ cc.state = "idle" /\ spi.oecnt = BlockSize /\ spi.state \in {4, 10}
  BY <1>0, <1>1 DEF ReadEnd, WriteEnd, FreeOK
<1>3. CASE spi.state = 4
  <2>1. ReadHandshake /\ ReadServed
    BY <1>3, Running DEF ReadRun, ReadAsked, WriteRun
  <2>2. /\ ~ spi.sdsrd /\ ~ spi.sdswr /\ ~ spi.sdsdin_valid /\ ~ cc.dout_avail /\ ~ cc.last_valid
        /\ ~ cc.din_latch /\ ~ cc.din_taken
    BY <1>1, <1>2, <1>3, <2>1 DEF ReadServed, ReadHandshake, ReadEnd
  <2>3. /\ ~ spi'.sdsrd /\ ~ spi'.sdswr /\ ~ spi'.sdsdin_valid /\ ~ spi'.sdsdout_taken /\ ~ spi'.mw2
    BY <1>0, <1>1, <1>3, <2>2 DEF ReadEnd, SpiType
  <2>4. cc'.state = "idle" /\ Steady
    BY <1>2, <2>2, CardDoes DEF CardMove, Started, Delivered, Taken, Ended
  <2> QED  BY <1>2, <2>2, <2>3, <2>4 DEF Quiet, Steady, SignalsAre
<1>4. CASE spi.state = 10
  <2>1. WriteHandshake /\ (WriteServed \/ WriteAsked)
    BY <1>4, Running DEF ReadRun, WriteRun
  <2>2. /\ ~ spi.sdsrd /\ ~ spi.sdswr /\ ~ spi.sdsdin_valid /\ ~ spi.sdsdout_taken /\ ~ spi.mw2
        /\ ~ cc.dout_avail /\ ~ cc.last_valid /\ ~ cc.din_latch /\ ~ cc.din_taken
    BY <1>2, <1>4, <2>1, SdAssumption DEF WriteServed, WriteAsked, WriteHandshake
  <2>3. /\ ~ spi'.sdsrd /\ ~ spi'.sdswr /\ ~ spi'.sdsdin_valid /\ ~ spi'.sdsdout_taken /\ ~ spi'.mw2
    BY <1>0, <1>1, <1>2, <1>4, <2>2 DEF WriteEnd, SpiType
  <2>4. cc'.state = "idle" /\ Steady
    BY <1>2, <2>2, CardDoes DEF CardMove, Started, Delivered, Taken, Ended
  <2> QED  BY <1>2, <1>4, <2>2, <2>3, <2>4 DEF Quiet, Steady, SignalsAre
<1> QED  BY <1>2, <1>3, <1>4

LEMMA FreeKept == ASSUME SdInv, NEW aph, Edge(aph) PROVE FreeOK'
<1>0. /\ cc \in CardType /\ spi \in SpiType /\ ctl \in CtlType /\ drv \in DriverType
      /\ SpiStep /\ FreeOK /\ CtlOK /\ CardMove /\ drv' \in DriverType
  BY Typed, CardDoes, DriverKept DEF Edge, Device, SdInv
<1>1. ~ cc'.sd_busy => cc'.state = "idle"
  BY <1>0 DEF CardMove, Steady, Started, Delivered, Taken, Ended, SignalsAre
<1>2. cc'.state # "read" => ~ cc'.garbled
  BY <1>0 DEF CardMove, Steady, Started, Delivered, Taken, Ended, FreeOK
<1>3. spi'.state = 0 => Quiet' /\ cc'.state \in {"begin", "idle"}
  <2>1. CASE spi.state = 0
    <3>1. Quiet /\ cc.state \in {"begin", "idle"}
      BY <1>0, <2>1 DEF FreeOK
    <3>2. /\ ~ spi'.sdsrd /\ ~ spi'.sdswr /\ ~ spi'.sdsdin_valid /\ ~ spi'.sdsdout_taken /\ ~ spi'.mw2
      BY <1>0, <2>1, <3>1, SpiMoves DEF Quiet
    <3>3. cc'.state \in {"begin", "idle"} /\ Steady
      BY <1>0, <3>1 DEF CardMove, Started, Delivered, Taken, Ended, Quiet
    <3> QED  BY <3>1, <3>2, <3>3 DEF Quiet, Steady, SignalsAre
  <2> QED  BY <2>1, TransferEnds
<1>4. drv.pc # "done" => ctl.ctrlstate \notin {2, 12}
  BY CommandTaken
<1>5. SeenFree => ctl.ctrlstate \notin {2, 12}
  BY <1>0 DEF SeenFree, CtlOK
<1>6. drv'.pc # drv.pc /\ drv.pc \in {"wait", "done"} => SeenFree
  <2>1. CASE Ending(Load(ReadReg)) /\ DriverWaits
    BY <2>1 DEF Ending, DriverWaits, SeenFree
  <2>2. CASE DriverBegins
    BY <1>0, <2>2, Begun
  <2> QED  BY <2>1, <2>2, DriverMoves DEF DriverMove, DriverFetches
<1>7. drv'.pc # drv.pc /\ drv'.pc # "wait" => drv.pc # "out"
  <2>1. CASE DriverBegins
    BY <1>0, <2>1, Begun
  <2> QED  BY <2>1, DriverMoves DEF DriverMove, DriverFetches, DriverFills, DriverWaits
<1>8. drv'.pc # "done" => spi'.state = 0
  <2>1. CASE drv.pc # "done"
    BY <1>0, <1>4, <2>1, SpiMoves DEF FreeOK
  <2>2. CASE drv.pc = "done"
    BY <1>0, <1>5, <1>6, <2>2, StaysFree DEF FreeOK, Free
  <2> QED  BY <2>1, <2>2
<1>9. drv'.pc \in {"fill", "command", "fetch", "next"} => Free'
  BY <1>0, <1>4, <1>5, <1>6, <1>7, StaysFree DEF FreeOK, DriverType
<1> QED  BY <1>1, <1>2, <1>3, <1>8, <1>9, SeenFreeKept DEF FreeOK

-------------------------------------------------------------------------------
(* The bytes of the block, on their way to the memory and back.            *)
LEMMA StoreOnBus ==
  ASSUME SdInv, dph # {}, Xfer.wr, Xfer.addr.block
  PROVE  /\ drv.pc \in {"fill", "command"} /\ drv.op = "write" /\ Free
         /\ \E k \in Index : Xfer = StoreTo(Mem(k), drv.buffer[k])
<1>0. DriverOK /\ FreeOK /\ drv \in DriverType
  BY Typed DEF SdInv
<1>1. drv.pc = "fill" /\ drv.i > 0 => drv.i - 1 \in Index
  BY <1>0, SdAssumption DEF DriverType, Index
<1>2. \/ drv.pc = "fill" /\ drv.i > 0 /\ Xfer = StoreTo(Mem(drv.i - 1), drv.buffer[drv.i - 1])
      \/ /\ drv.pc = "command" /\ drv.op = "write"
         /\ Xfer = StoreTo(Mem(BlockSize - 1), drv.buffer[BlockSize - 1])
  BY <1>0, Addresses DEF DriverOK, Load, StoreTo, Command
<1>3. drv.pc \in {"fill", "command"} /\ drv.op = "write" /\ Free
  BY <1>0, <1>2 DEF DriverOK, FreeOK
<1> QED  BY <1>1, <1>2, <1>3, Indices

LEMMA StoreWritten ==
  ASSUME SdInv, NEW aph, Edge(aph), ctl.mw1
  PROVE  /\ drv.pc \in {"fill", "command"}
         /\ \E k \in Index : /\ Xfer = StoreTo(Mem(k), drv.buffer[k])
                             /\ m' = [m EXCEPT ![k] = drv.buffer[k]]
<1>0. CtlOK /\ BridgeOK /\ MemoryStep /\ ctl \in CtlType
  BY Typed DEF SdInv, Edge, Device
<1>1. ctl.ctrlstate = 5 /\ apb_state = "wr2" /\ apbm_paddr.block
  BY <1>0 DEF CtlOK
<1>2. dph # {} /\ Xfer.wr /\ apbm_paddr = Xfer.addr /\ ctl.midata1 = Xfer.data
      /\ ctl.maddr1 = Xfer.addr.off
  BY <1>0, <1>1 DEF CtlOK, BridgeOK, Writing
<1>3. PICK k \in Index : Xfer = StoreTo(Mem(k), drv.buffer[k])
  BY <1>1, <1>2, StoreOnBus
<1>4. maddr = k /\ midata = drv.buffer[k] /\ mw
  BY <1>2, <1>3, Addresses DEF maddr, midata, mw, StoreTo
<1>5. m' = [m EXCEPT ![k] = drv.buffer[k]]
  BY <1>0, <1>4 DEF MemoryStep
<1>6. drv.pc \in {"fill", "command"}
  BY <1>1, <1>2, StoreOnBus
<1> QED  BY <1>3, <1>5, <1>6

LEMMA MemoryRests ==
  ASSUME SdInv, NEW aph, Edge(aph), drv.pc \notin {"fill", "command", "done"} PROVE m' = m
<1>1. ~ ctl.mw1
  BY StoreWritten
<1>2. ~ spi.mw2 /\ MemoryStep
  BY DEF SdInv, FreeOK, Quiet, Edge, Device
<1> QED  BY <1>1, <1>2 DEF MemoryStep, mw

LEMMA StoringDone ==
  ASSUME SdInv, NEW aph, Edge(aph), NEW j \in Index, Storing(j)
  PROVE  Storing(j)' \/ m'[j] = drv.buffer[j]
<1>0. /\ CtlOK /\ BridgeOK /\ BridgeOK' /\ CtlStep /\ ctl \in CtlType /\ m \in Block
      /\ dph # {} /\ Xfer.wr /\ Xfer.addr = Mem(j)
  BY Typed, BusMoves DEF SdInv, Edge, Device, Storing
<1>1. apbm_paddr.block /\ apbm_paddr = Mem(j)
  BY <1>0, Addresses DEF BridgeOK
<1>2. CASE apb_state = "wr0"
  BY <1>0, <1>2, BusMoves, Strobes DEF Storing
<1>3. CASE apb_state = "wr1"
  <2>1. ctl.ctrlstate = 0 /\ ~ ctl.pready /\ bus_write
    BY <1>0, <1>3, Strobes DEF CtlOK
  <2>2. ~ bus_read
    BY <1>0, <1>3, Strobes
  <2>3. TakeByte
    BY <1>0, <1>1, <2>1, <2>2 DEF CtlStep, Rest, TakeCommand, TakeStatus, TakeRead, GiveStatus, ByteWritten,
                            ByteRead, GiveByte, Done
  <2>4. ctl'.ctrlstate = 5
    BY <1>0, <2>3 DEF TakeByte, CtlType
  <2>5. dph' = dph /\ Xfer' = Xfer
    BY <1>0, <1>3, BusMoves, Strobes
  <2> QED  BY <1>0, <2>4, <2>5 DEF Storing
<1>4. CASE ctl.ctrlstate = 5
  <2>1. ctl.mw1
    BY <1>0, <1>4 DEF CtlOK
  <2>2. PICK k \in Index : Xfer = StoreTo(Mem(k), drv.buffer[k]) /\ m' = [m EXCEPT ![k] = drv.buffer[k]]
    BY <2>1, StoreWritten
  <2>3. j = k
    BY <1>0, <2>2, Addresses DEF StoreTo
  <2> QED  BY <1>0, <2>2, <2>3 DEF Block
<1> QED  BY <1>2, <1>3, <1>4 DEF Storing

LEMMA FilledKept ==
  ASSUME SdInv, NEW aph, Edge(aph), NEW j \in Index, Filled(j), drv'.buffer = drv.buffer,
         drv.pc \in {"fill", "command"}
  PROVE  Filled(j)'
<1>1. CASE Storing(j)
  BY <1>1, StoringDone DEF Filled
<1>2. CASE m[j] = drv.buffer[j] /\ ctl.mw1
  <2>1. PICK k \in Index : m' = [m EXCEPT ![k] = drv.buffer[k]]
    BY <1>2, StoreWritten
  <2>2. m \in Block
    BY Typed
  <2> QED  BY <1>2, <2>1, <2>2 DEF Filled, Block
<1>3. CASE m[j] = drv.buffer[j] /\ ~ ctl.mw1
  <2>1. ~ spi.mw2 /\ MemoryStep
    BY DEF SdInv, FreeOK, Quiet, Edge, Device
  <2> QED  BY <1>3, <2>1 DEF MemoryStep, mw, Filled
<1> QED  BY <1>1, <1>2, <1>3 DEF Filled

LEMMA PcMoves ==
  ASSUME drv \in DriverType
  PROVE  /\ DriverFills => drv.pc = "fill" /\ drv'.pc \in {"fill", "command"}
         /\ DriverFetches => drv.pc = "fetch" /\ drv'.pc \in {"fetch", "next"}
         /\ drv' = [drv EXCEPT !.pc = "done"] => drv'.pc = "done"
<1>1. DriverFills => drv.pc = "fill" /\ drv'.pc \in {"fill", "command"}
  BY DEF DriverFills, DriverType
<1>2. DriverFetches => drv.pc = "fetch" /\ drv'.pc \in {"fetch", "next"}
  BY DEF DriverFetches, DriverType
<1> QED  BY <1>1, <1>2 DEF DriverType

LEMMA FillKept ==
  ASSUME SdInv, NEW aph, Edge(aph)
  PROVE  /\ drv'.pc = "fill" => \A j \in 0 .. drv'.i - 1 : Filled(j)'
         /\ drv'.pc = "command" /\ drv'.op = "write" => \A j \in Index : Filled(j)'
<1>0. BytesOK /\ DriverOK /\ drv \in DriverType /\ drv' \in DriverType
  BY Typed, DriverKept DEF SdInv
<1>1. PICK i \in Index : i = drv.i
  BY <1>0 DEF DriverType
<1>2. CASE drv.pc = "fill" /\ Asking(aph, StoreTo(Mem(drv.i), drv.buffer[drv.i])) /\ DriverFills
  <2>1. drv'.buffer = drv.buffer
    BY <1>0, <1>2 DEF DriverFills, DriverType
  <2>2. Filled(i)'
    <3>1. aph # {} /\ Xfer' = StoreTo(Mem(i), drv.buffer[i])
      BY <1>1, <1>2 DEF Asking
    <3>2. apb_state' = "wr0" /\ dph' # {}
      BY <3>1, BusMoves DEF StoreTo
    <3> QED  BY <3>1, <3>2 DEF Filled, Storing, StoreTo
  <2>3. \A j \in 0 .. i - 1 : Filled(j)'
    <3>1. SUFFICES ASSUME NEW j \in 0 .. i - 1 PROVE Filled(j)'
      OBVIOUS
    <3>2. j \in Index /\ Filled(j)
      BY <1>0, <1>1, <1>2, SdAssumption DEF BytesOK, Index
    <3> QED  BY <1>2, <2>1, <3>2, FilledKept
  <2>4. CASE i < BlockSize - 1
    <3>1. drv'.pc = "fill" /\ drv'.i = i + 1
      BY <1>0, <1>1, <1>2, <2>4 DEF DriverFills, DriverType
    <3>2. \A j \in 0 .. drv'.i - 1 : j = i \/ j \in 0 .. i - 1
      BY <1>1, <3>1, SdAssumption DEF Index
    <3> QED  BY <2>2, <2>3, <3>1, <3>2
  <2>5. CASE i = BlockSize - 1
    <3>1. drv'.pc = "command"
      BY <1>0, <1>1, <1>2, <2>5, NextIndex DEF DriverFills, DriverType
    <3>2. \A j \in Index : j = i \/ j \in 0 .. i - 1
      BY <2>5, SdAssumption DEF Index
    <3> QED  BY <2>2, <2>3, <3>1, <3>2
  <2> QED  BY <2>4, <2>5, NextIndex
<1>3. CASE Ending(Load(ReadReg)) /\ DriverWaits
  <2>1. drv'.i = 0 /\ drv'.op = drv.op
    BY <1>0, <1>3 DEF DriverWaits, DriverOK, DriverType
  <2>2. drv'.pc = "command" => drv'.op = "read"
    BY <1>0, <1>3, <2>1 DEF DriverWaits, Ready, DriverType
  <2> QED  BY <2>1, <2>2
<1>4. CASE DriverBegins
  BY <1>0, <1>4, Begun
<1>5. CASE drv' = drv
  <2>1. CASE drv.pc = "fill"
    <3>1. SUFFICES ASSUME NEW j \in 0 .. i - 1 PROVE Filled(j)'
      BY <1>1, <1>5, <2>1
    <3>2. j \in Index /\ Filled(j)
      BY <1>0, <1>1, <2>1, SdAssumption DEF BytesOK, Index
    <3> QED  BY <1>5, <2>1, <3>2, FilledKept
  <2>2. CASE drv.pc = "command" /\ drv.op = "write"
    <3>1. SUFFICES ASSUME NEW j \in Index PROVE Filled(j)'
      BY <1>5, <2>2
    <3>2. Filled(j)
      BY <1>0, <2>2 DEF BytesOK
    <3> QED  BY <1>5, <2>2, <3>2, FilledKept
  <2> QED  BY <1>5, <2>1, <2>2
<1>6. ASSUME drv'.pc \in {"fill", "command"}
      PROVE  \/ drv.pc = "fill" /\ Asking(aph, StoreTo(Mem(drv.i), drv.buffer[drv.i])) /\ DriverFills
             \/ Ending(Load(ReadReg)) /\ DriverWaits
             \/ DriverBegins
             \/ drv' = drv
  <2>1. ~ DriverFetches /\ drv' # [drv EXCEPT !.pc = "done"]
    BY <1>0, <1>6, PcMoves
  <2> QED  BY <2>1, DriverMoves DEF DriverMove
<1> QED  BY <1>2, <1>3, <1>4, <1>5, <1>6

LEMMA FetchKept ==
  ASSUME SdInv, NEW aph, Edge(aph)
  PROVE  drv'.pc = "fetch" => \A j \in 0 .. drv'.i - 1 : drv'.buffer[j] = m'[j]
<1>0. BytesOK /\ DriverOK /\ drv \in DriverType /\ m \in Block
  BY Typed DEF SdInv
<1>1. drv.pc = "fetch" => m' = m
  BY MemoryRests
<1>2. CASE Ending(Load(ReadReg)) /\ DriverWaits
  <2>1. drv'.i = 0
    BY <1>0, <1>2 DEF DriverWaits, DriverOK, DriverType
  <2> QED  BY <2>1
<1>3. CASE ahbls_hrdata = m[drv.i] /\ DriverFetches
  <2>1. CASE drv.i < BlockSize - 1
    <3>1. /\ drv.pc = "fetch" /\ drv'.i = drv.i + 1 /\ drv.i \in Index
          /\ drv'.buffer = [drv.buffer EXCEPT ![drv.i] = m[drv.i]]
      BY <1>0, <1>3, <2>1 DEF DriverFetches, DriverType
    <3>2. SUFFICES ASSUME NEW j \in 0 .. drv.i PROVE drv'.buffer[j] = m[j]
      BY <1>1, <3>1, SdAssumption DEF Index
    <3>3. j \in Index /\ (j = drv.i \/ j \in 0 .. drv.i - 1)
      BY <3>1, SdAssumption DEF Index
    <3>4. j # drv.i => drv.buffer[j] = m[j]
      BY <1>0, <3>1, <3>3 DEF BytesOK
    <3> QED  BY <1>0, <3>1, <3>3, <3>4 DEF DriverType, Block
  <2>2. CASE ~ drv.i < BlockSize - 1
    BY <1>0, <1>3, <2>2 DEF DriverFetches, DriverType
  <2> QED  BY <2>1, <2>2
<1>4. CASE drv' = drv
  BY <1>0, <1>1, <1>4 DEF BytesOK
<1>5. CASE DriverBegins
  BY <1>0, <1>5, Begun
<1>6. ASSUME drv'.pc = "fetch"
      PROVE  \/ Ending(Load(ReadReg)) /\ DriverWaits
             \/ ahbls_hrdata = m[drv.i] /\ DriverFetches
             \/ drv' = drv
             \/ DriverBegins
  <2>1. ~ DriverFills /\ drv' # [drv EXCEPT !.pc = "done"]
    BY <1>0, <1>6, PcMoves
  <2> QED  BY <2>1, DriverMoves DEF DriverMove
<1> QED  BY <1>2, <1>3, <1>4, <1>5, <1>6

(* A byte is read from the memory under the strobe of its load.            *)
LEMMA LoadKept ==
  ASSUME SdInv, NEW aph, Edge(aph), apbm_paddr'.block
  PROVE  /\ ctl'.ctrlstate = 16 => mout' = m'[apbm_paddr'.off]
         /\ apb_state' = "rd1" /\ ctl'.pready => ctl'.prdata = m'[apbm_paddr'.off]
         /\ apb_state' = "rd2" => ahbls_hrdata' = m'[apbm_paddr'.off]
<1>0. /\ CtlOK /\ CtlOK' /\ BridgeOK /\ BridgeOK' /\ CtlStep /\ ctl \in CtlType /\ ctl' \in CtlType
      /\ DriverOK /\ BytesOK /\ MemoryStep
  BY Typed, BusMoves, CtlKept, CtlTyped DEF SdInv, Edge, Device
<1>1. SUFFICES ASSUME apb_state' \in {"rd1", "rd2"} PROVE
        /\ ctl'.ctrlstate = 16 => mout' = m'[apbm_paddr'.off]
        /\ apb_state' = "rd1" /\ ctl'.pready => ctl'.prdata = m'[apbm_paddr'.off]
        /\ apb_state' = "rd2" => ahbls_hrdata' = m'[apbm_paddr'.off]
  BY <1>0 DEF CtlOK
<1>2. ~ ahbls_hready_resp
  BY <1>1, BusMoves
<1>3. /\ aph = {} /\ apbm_paddr' = apbm_paddr /\ apb_state \in {"rd0", "rd1"}
      /\ apb_state = "rd0" => apb_state' = "rd1"
      /\ apb_state = "rd1" => apb_state' = IF ctl.pready THEN "rd2" ELSE "rd1"
  BY <1>1, <1>2, BusMoves
<1>4. dph # {} /\ ~ Xfer.wr /\ Xfer.addr.block
  BY <1>0, <1>3 DEF BridgeOK, Reading
<1>5. drv.pc = "fetch"
  BY <1>0, <1>4, Addresses DEF DriverOK, Load, StoreTo, Command
<1>6. m' = m
  BY <1>5, MemoryRests
<1>7. ASSUME ctl'.ctrlstate = 16 PROVE mout' = m[apbm_paddr.off]
  <2>1. ByteRead
    <3>1. Rest \/ GiveStatus \/ GiveByte \/ Done => ctl'.ctrlstate = 0
      BY <1>0 DEF Rest, GiveStatus, GiveByte, Done, CtlType
    <3>2. TakeCommand \/ TakeByte \/ TakeStatus \/ TakeRead \/ ByteWritten
            => ctl'.ctrlstate \in {1, 2, 12, 5, 6, 15}
      BY <1>0 DEF TakeCommand, TakeByte, TakeStatus, TakeRead, ByteWritten, CtlType
    <3> QED  BY <1>0, <1>7, <3>1, <3>2 DEF CtlStep
  <2>2. ctl.mr1 /\ ctl.maddr1 = apbm_paddr.off
    BY <1>0, <2>1 DEF ByteRead, CtlOK
  <2> QED  BY <1>0, <2>2 DEF MemoryStep, maddr
<1>8. ASSUME apb_state' = "rd1", ctl'.pready PROVE ctl'.prdata = m[apbm_paddr.off]
  <2>1. apb_state = "rd0" \/ ~ ctl.pready
    BY <1>3, <1>8
  <2>2. ctl.ctrlstate \in {0, 1, 15, 16} /\ ~ ctl.pready
    BY <1>0, <1>3, <2>1 DEF CtlOK
  <2>3. GiveByte \/ GiveStatus
    <3>1. Rest \/ TakeCommand \/ TakeByte \/ TakeStatus \/ TakeRead \/ ByteRead => ~ ctl'.pready
      BY <1>0, <2>2 DEF Rest, TakeCommand, TakeByte, TakeStatus, TakeRead, ByteRead, CtlType, Hears
    <3> QED  BY <1>0, <1>8, <2>2, <3>1 DEF CtlStep, ByteWritten, Done
  <2>4. GiveByte
    BY <1>0, <1>3, <2>3 DEF GiveStatus, CtlOK
  <2> QED  BY <1>0, <1>3, <2>4 DEF GiveByte, CtlType, BytesOK
<1>9. ASSUME apb_state' = "rd2" PROVE ahbls_hrdata' = m[apbm_paddr.off]
  <2>1. apb_state = "rd1" /\ ctl.pready
    BY <1>3, <1>9
  <2> QED  BY <1>0, <1>3, <2>1, BusMoves DEF BytesOK
<1> QED  BY <1>3, <1>6, <1>7, <1>8, <1>9

LEMMA BytesKept == ASSUME SdInv, NEW aph, Edge(aph) PROVE BytesOK'
BY FillKept, FetchKept, LoadKept DEF BytesOK

-------------------------------------------------------------------------------
(* While the device is at a command the memory is its own.                 *)
LEMMA DeviceAlone ==
  ASSUME SdInv, NEW aph, Edge(aph), spi.state # 0
  PROVE  /\ m' \in Block /\ mout' = m[spi.maddr2]
         /\ \A j \in Index : m'[j] = Kept(j)
         /\ ~ spi.mw2 => m' = m
<1>0. /\ m \in Block /\ spi \in SpiType /\ MemoryStep /\ m' \in Block
  BY Typed, MemoryTyped DEF Edge, Device
<1>1. ~ ctl.mr1 /\ ~ ctl.mw1
  BY BusIsAlone
<1>2. maddr = spi.maddr2 /\ midata = spi.midata2 /\ (mw <=> spi.mw2)
  BY <1>1 DEF maddr, midata, mw
<1> QED  BY <1>0, <1>2 DEF MemoryStep, Kept, SpiType, Block

(* The card in a read.                                                     *)
LEMMA CardReads ==
  ASSUME SdInv, NEW aph, Edge(aph), drv.op = "read", spi.state # 0, ReadServed, drv' = drv
  PROVE  /\ disk' = disk /\ ReadCard' /\ ~ cc'.last_valid /\ ~ cc'.din_latch /\ ~ cc'.din_taken
         /\ spi.sdsrd => cc'.sd_busy /\ cc'.state \in {"read", "finish"}
         /\ ~ cc'.garbled /\ ~ cc'.sd_error => ~ cc.garbled /\ ~ cc.sd_error
         /\ \/ /\ spi.state = 2 /\ ~ cc.dout_avail /\ cc'.dout_avail /\ cc'.cnt = cc.cnt + 1
               /\ ~ cc'.garbled => cc'.dout = disk[drv.sector][spi.oecnt]
            \/ /\ cc'.cnt = cc.cnt /\ cc'.dout = cc.dout
               /\ cc'.dout_avail <=> cc.dout_avail /\ ~ spi.sdsdout_taken
<1>0. /\ cc \in CardType /\ spi \in SpiType /\ CardMove /\ ReadHandshake /\ BlockSize \in Nat \ {0}
  BY Typed, CardDoes, Running, SdAssumption DEF ReadRun
<1>1. ~ spi.sdswr /\ ~ spi.sdsdin_valid
  BY <1>0 DEF ReadHandshake
<1>2. ASSUME SignalsAre(FALSE, FALSE)
      PROVE  /\ ~ cc'.last_valid /\ ~ cc'.din_latch /\ ~ cc'.din_taken
             /\ spi.sdsrd => cc'.sd_busy
             /\ cc'.dout_avail <=> cc.dout_avail /\ ~ spi.sdsdout_taken
  BY <1>1, <1>2 DEF SignalsAre
<1>3. CASE Steady /\ cc'.state = cc.state
  BY <1>2, <1>3 DEF Steady, ReadServed, ReadCard
<1>4. CASE Steady /\ cc.state \in {"begin", "finish"} /\ cc'.state \in {"idle", "begin"} /\ ~ spi.sdsrd
  <2>1. cc.cnt = BlockSize /\ cc.addr = drv.sector
    BY <1>0, <1>4 DEF ReadServed, ReadCard, ReadHandshake
  <2> QED  BY <1>2, <1>4, <2>1 DEF Steady, ReadCard
<1>5. CASE Started
  BY <1>1, <1>5 DEF Started, ReadServed
<1>6. CASE Delivered
  <2>1. spi.state = 2
    BY <1>0, <1>6 DEF Delivered, ReadServed, ReadHandshake
  <2>2. cc.cnt = spi.oecnt /\ cc.addr = drv.sector /\ ~ cc.sd_error
    BY <1>0, <1>6, <2>1 DEF Delivered, ReadServed, ReadCard, SpiType
  <2>3. /\ ~ cc'.last_valid /\ ~ cc'.din_latch /\ ~ cc'.din_taken /\ cc'.sd_busy /\ cc'.dout_avail
    BY <1>1, <1>6 DEF Delivered, SignalsAre
  <2> QED  BY <1>6, <2>1, <2>2, <2>3 DEF Delivered, ReadCard
<1>7. CASE Taken
  BY <1>1, <1>7 DEF Taken
<1>8. CASE Ended
  <2>1. cc.state = "read" /\ cc.addr = drv.sector /\ ~ cc.sd_error
    BY <1>8 DEF Ended, ReadServed, ReadCard
  <2>2. disk' = disk
    BY <1>8, <2>1 DEF Ended, Stored
  <2>3. cc.cnt = BlockSize \/ (cc.cnt = 0 /\ cc'.sd_error)
    BY <1>0, <1>1, <1>8, <2>1 DEF Ended, ReadServed, ReadHandshake, SpiType
  <2>4. SignalsAre(FALSE, FALSE) /\ cc'.cnt = cc.cnt /\ cc'.addr = cc.addr /\ cc'.state = "finish"
        /\ cc'.dout = cc.dout
    BY <1>8 DEF Ended
  <2>5. ~ cc'.garbled /\ ~ cc'.sd_error => ~ cc.garbled
    BY <1>8 DEF Ended
  <2> QED  BY <1>2, <2>1, <2>2, <2>3, <2>4, <2>5 DEF ReadCard
<1>9. \/ Steady /\ cc'.state = cc.state
      \/ Steady /\ cc.state \in {"begin", "finish"} /\ cc'.state \in {"idle", "begin"} /\ ~ spi.sdsrd
      \/ Started \/ Delivered \/ Taken \/ Ended
  BY <1>0, <1>1 DEF CardMove, ReadServed
<1> QED  BY <1>3, <1>4, <1>5, <1>6, <1>7, <1>8, <1>9

(* A step of a read: the next part of its handshake, or its end.           *)
LEMMA ReadSteps ==
  ASSUME SdInv, NEW aph, Edge(aph), drv.op = "read", spi.state # 0, drv' = drv,
         ctl.sdsbaddr = drv.sector
  PROVE  ReadRun' \/ (spi'.state = 0 /\ Free' /\ Outcome')
<1>0. /\ cc \in CardType /\ spi \in SpiType /\ CardMove /\ SpiStep /\ FreeOK /\ BlockSize \in Nat \ {0}
      /\ ReadRun /\ ReadHandshake /\ m' \in Block /\ spi.oecnt \in Nat
  <2>1. cc \in CardType /\ spi \in SpiType /\ CardMove /\ SpiStep /\ FreeOK /\ m' \in Block
    BY Typed, CardDoes, DeviceAlone DEF Edge, Device, SdInv
  <2>2. ReadRun /\ ReadHandshake
    BY Running DEF ReadRun
  <2>3. BlockSize \in Nat \ {0} /\ spi.oecnt \in Nat
    BY <2>1, SdAssumption DEF SpiType
  <2> QED  BY <2>1, <2>2, <2>3
<1>1. ~ spi.sdswr /\ ~ spi.sdsdin_valid
  BY <1>0 DEF ReadHandshake
<1>2. CASE ReadAsked
  <2>1. CASE spi.state = 1
    <3>1. /\ spi' = [spi EXCEPT !.sdsrd = TRUE, !.state = 2] /\ ~ spi.sdsrd
      BY <1>0, <2>1, SpiMoves DEF ReadAsk, ReadHandshake
    <3>2. /\ spi'.state = 2 /\ spi'.sdsrd /\ ~ spi'.sdswr /\ ~ spi'.sdsdin_valid /\ spi'.oecnt = 0
          /\ ~ spi'.sdsdout_taken /\ ~ spi'.mw2
      BY <1>0, <1>1, <1>2, <2>1, <3>1 DEF SpiType, ReadAsked, ReadHandshake
    <3>3. cc'.state = "idle" /\ Steady
      BY <1>0, <1>1, <1>2, <3>1 DEF CardMove, Started, Delivered, Taken, Ended, ReadAsked
    <3>4. /\ ~ cc'.sd_busy /\ ~ cc'.dout_avail /\ ~ cc'.last_valid /\ ~ cc'.din_latch /\ ~ cc'.din_taken
      BY <1>0, <1>1, <1>2, <3>1, <3>3 DEF Steady, SignalsAre, ReadAsked
    <3> QED  BY <1>0, <3>2, <3>3, <3>4 DEF ReadRun, ReadAsked, ReadHandshake
  <2>2. CASE spi.state = 2
    <3>1. spi' = spi /\ spi.sdsrd
      BY <1>0, <1>2, <2>2, SpiMoves DEF ReadByte, ReadHandshake, ReadAsked
    <3>2. Started
      BY <1>0, <1>2, <3>1 DEF CardMove, Delivered, Taken, Ended, ReadAsked
    <3>3. /\ cc'.sd_busy /\ ~ cc'.dout_avail /\ ~ cc'.last_valid /\ ~ cc'.din_latch /\ ~ cc'.din_taken
          /\ cc'.state = "read" /\ cc'.cnt = 0 /\ ~ cc'.sd_error /\ cc'.addr = drv.sector
      BY <1>1, <1>2, <3>1, <3>2 DEF Started, SignalsAre, ReadAsked
    <3>4. ReadHandshake'
      BY <1>0, <2>2, <3>1, <3>3 DEF ReadHandshake
    <3>5. spi'.oecnt = 0 /\ spi'.state = 2
      BY <1>2, <2>2, <3>1 DEF ReadAsked
    <3>6. ReadServed'
      BY <3>1, <3>3, <3>5 DEF ReadServed, ReadCard, ReadData
    <3> QED  BY <3>4, <3>5, <3>6 DEF ReadRun
  <2> QED  BY <1>2, <2>1, <2>2 DEF ReadAsked
<1>3. CASE ReadServed
  <2>0. /\ disk' = disk /\ ReadCard' /\ ~ cc'.last_valid /\ ~ cc'.din_latch /\ ~ cc'.din_taken
        /\ spi.sdsrd => cc'.sd_busy /\ cc'.state \in {"read", "finish"}
        /\ ~ cc'.garbled /\ ~ cc'.sd_error => ~ cc.garbled /\ ~ cc.sd_error
    BY <1>0, <1>3, CardReads
  <2>1. \/ /\ spi.state = 2 /\ ~ cc.dout_avail /\ cc'.dout_avail /\ cc'.cnt = cc.cnt + 1
           /\ ~ cc'.garbled => cc'.dout = disk[drv.sector][spi.oecnt]
        \/ /\ cc'.cnt = cc.cnt /\ cc'.dout = cc.dout
           /\ cc'.dout_avail <=> cc.dout_avail /\ ~ spi.sdsdout_taken
    BY <1>0, <1>3, CardReads
  <2>2. ASSUME spi'.oecnt = spi.oecnt, ~ spi'.mw2
        PROVE  ~ cc'.garbled /\ ~ cc'.sd_error
                 => \A j \in 0 .. spi'.oecnt - 1 : Kept(j)' = disk'[drv'.sector][j]
    <3>1. \A j \in 0 .. spi.oecnt - 1 : j \in Index
      BY <1>0, SdAssumption DEF SpiType, Index
    <3>2. \A j \in 0 .. spi.oecnt - 1 : m'[j] = Kept(j)
      BY <3>1, DeviceAlone
    <3>3. \A j \in 0 .. spi.oecnt - 1 : Kept(j)' = m'[j]
      BY <2>2 DEF Kept
    <3> QED  BY <1>3, <2>0, <2>2, <3>2, <3>3 DEF ReadServed, ReadData
  <2>3. CASE spi.state = 2
    <3>1. spi.sdsrd /\ spi.oecnt < BlockSize /\ ~ spi.sdsdout_taken /\ ~ spi.mw2
      BY <1>0, <2>3 DEF ReadHandshake
    <3>2. CASE ~ cc.dout_avail
      <4>1. spi' = spi
        BY <1>0, <2>3, <3>2, SpiMoves DEF ReadByte
      <4>2. ReadHandshake'
        BY <1>0, <2>0, <2>3, <3>1, <4>1 DEF ReadHandshake
      <4>3. ReadData'
        BY <1>3, <2>0, <2>1, <2>2, <2>3, <3>1, <3>2, <4>1 DEF ReadData
      <4>4. cc'.cnt = spi'.oecnt + (IF spi'.state \in {2, 3} /\ cc'.dout_avail THEN 1 ELSE 0)
        BY <1>0, <1>3, <2>1, <2>3, <3>2, <4>1 DEF ReadServed
      <4> QED  BY <2>0, <2>3, <3>1, <4>1, <4>2, <4>3, <4>4 DEF ReadRun, ReadServed
    <3>3. CASE cc.dout_avail
      <4>1. spi' = [spi EXCEPT !.outbyte = cc.dout, !.state = 3]
        BY <1>0, <2>3, <3>3, SpiMoves DEF ReadByte
      <4>2. /\ spi'.state = 3 /\ spi'.outbyte = cc.dout /\ spi'.sdsrd /\ ~ spi'.sdswr /\ ~ spi'.sdsdin_valid
            /\ spi'.oecnt = spi.oecnt /\ ~ spi'.sdsdout_taken /\ ~ spi'.mw2
        BY <1>0, <1>1, <3>1, <4>1 DEF SpiType
      <4>3. cc'.dout_avail /\ cc'.cnt = cc.cnt /\ cc'.dout = cc.dout
        BY <2>1, <3>1, <3>3
      <4>4. ReadHandshake'
        BY <2>0, <3>1, <4>2, <4>3 DEF ReadHandshake
      <4>5. ReadData'
        BY <1>3, <2>0, <2>2, <2>3, <3>3, <4>2, <4>3 DEF ReadData, ReadServed
      <4>6. cc'.cnt = spi'.oecnt + (IF spi'.state \in {2, 3} /\ cc'.dout_avail THEN 1 ELSE 0)
        BY <1>0, <1>3, <2>3, <3>3, <4>2, <4>3 DEF ReadServed
      <4> QED  BY <2>0, <3>1, <4>2, <4>4, <4>5, <4>6 DEF ReadRun, ReadServed
    <3> QED  BY <3>2, <3>3
  <2>4. CASE spi.state = 3
    <3>1. /\ spi.sdsrd /\ spi.oecnt < BlockSize /\ ~ spi.sdsdout_taken /\ ~ spi.mw2
          /\ cc.dout_avail /\ spi.outbyte = cc.dout
      BY <1>0, <2>4 DEF ReadHandshake
    <3>2. spi' = [spi EXCEPT !.sdsdout_taken = TRUE, !.oecnt = spi.oecnt + 1, !.mw2 = TRUE,
                             !.maddr2 = spi.oecnt, !.midata2 = spi.outbyte, !.state = 4]
      BY <1>0, <2>4, SpiMoves DEF ReadKeep
    <3>3. /\ spi'.state = 4 /\ spi'.sdsrd /\ ~ spi'.sdswr /\ ~ spi'.sdsdin_valid
          /\ spi'.oecnt = spi.oecnt + 1 /\ spi'.sdsdout_taken /\ spi'.mw2
          /\ spi'.maddr2 = spi.oecnt /\ spi'.midata2 = spi.outbyte
      BY <1>0, <1>1, <3>1, <3>2 DEF SpiType
    <3>4. cc'.cnt = cc.cnt
      BY <2>1, <2>4
    <3>5. ReadHandshake'
      BY <1>0, <2>0, <3>3 DEF ReadHandshake
    <3>6. ASSUME ~ cc'.garbled, ~ cc'.sd_error, NEW j \in 0 .. spi.oecnt
          PROVE  Kept(j)' = disk[drv.sector][j]
      <4>1. CASE j = spi.oecnt
        BY <1>3, <2>0, <2>4, <3>1, <3>3, <3>6, <4>1 DEF Kept, ReadServed, ReadData
      <4>2. CASE j # spi.oecnt
        <5>1. j \in Index /\ j \in 0 .. spi.oecnt - 1
          BY <1>0, <3>1, <3>6, <4>2 DEF Index
        <5>2. Kept(j)' = m'[j] /\ m'[j] = Kept(j)
          BY <3>3, <4>2, <5>1, DeviceAlone DEF Kept
        <5> QED  BY <1>3, <2>0, <3>6, <5>1, <5>2 DEF ReadServed, ReadData
      <4> QED  BY <4>1, <4>2
    <3>7. ReadData'
      BY <1>0, <2>0, <3>3, <3>6 DEF ReadData
    <3>8. cc'.cnt = spi'.oecnt + (IF spi'.state \in {2, 3} /\ cc'.dout_avail THEN 1 ELSE 0)
      BY <1>0, <1>3, <2>4, <3>1, <3>3, <3>4 DEF ReadServed
    <3> QED  BY <2>0, <3>1, <3>3, <3>5, <3>7, <3>8 DEF ReadRun, ReadServed
  <2>5. CASE spi.state = 4
    <3>0. /\ spi.oecnt > 0 /\ (spi.sdsrd <=> spi.sdsdout_taken) /\ cc.cnt = spi.oecnt
          /\ ~ spi.sdsrd => spi.oecnt = BlockSize /\ ~ cc.dout_avail
          /\ cc'.cnt = cc.cnt /\ (cc'.dout_avail <=> cc.dout_avail /\ ~ spi.sdsdout_taken)
          /\ ~ cc'.dout_avail
      BY <1>0, <1>3, <2>1, <2>5 DEF ReadHandshake, ReadServed
    <3>1. CASE ReadHeld
      <4>1. /\ spi'.state = 4 /\ spi'.sdsrd = spi.sdsrd /\ ~ spi'.sdswr /\ ~ spi'.sdsdin_valid
            /\ spi'.oecnt = spi.oecnt /\ spi'.sdsdout_taken = spi.sdsdout_taken /\ ~ spi'.mw2 /\ cc.dout_avail
        BY <1>0, <1>1, <2>5, <3>1 DEF ReadHeld, SpiType
      <4>2. ReadHandshake'
        BY <1>0, <2>0, <3>0, <4>1 DEF ReadHandshake
      <4>3. ReadData'
        BY <2>2, <4>1 DEF ReadData
      <4>4. cc'.cnt = spi'.oecnt + (IF spi'.state \in {2, 3} /\ cc'.dout_avail THEN 1 ELSE 0)
        BY <1>0, <3>0, <4>1
      <4> QED  BY <2>0, <3>0, <4>1, <4>2, <4>3, <4>4 DEF ReadRun, ReadServed
    <3>2. CASE ReadNext
      <4>1. /\ spi'.state = 2 /\ spi'.sdsrd /\ ~ spi'.sdswr /\ ~ spi'.sdsdin_valid
            /\ spi'.oecnt = spi.oecnt /\ ~ spi'.sdsdout_taken /\ ~ spi'.mw2 /\ spi.oecnt < BlockSize
        BY <1>0, <1>1, <2>5, <3>2 DEF ReadNext, SpiType
      <4>2. spi.sdsrd
        BY <1>0, <3>0, <4>1
      <4>3. ReadHandshake'
        BY <1>0, <2>0, <3>0, <4>1 DEF ReadHandshake
      <4>4. ReadData'
        BY <2>2, <3>0, <4>1 DEF ReadData
      <4>5. cc'.cnt = spi'.oecnt + (IF spi'.state \in {2, 3} /\ cc'.dout_avail THEN 1 ELSE 0)
        BY <1>0, <3>0, <4>1
      <4> QED  BY <2>0, <4>1, <4>2, <4>3, <4>4, <4>5 DEF ReadRun, ReadServed
    <3>3. CASE ReadEnd
      <4>1. /\ spi'.state = (IF cc.sd_busy THEN 4 ELSE 0) /\ ~ spi'.sdsrd /\ ~ spi'.sdswr /\ ~ spi'.sdsdin_valid
            /\ spi'.oecnt = spi.oecnt /\ ~ spi'.sdsdout_taken /\ ~ spi'.mw2 /\ spi.oecnt = BlockSize
        BY <1>0, <1>1, <2>5, <3>3 DEF ReadEnd, SpiType
      <4>2. CASE cc.sd_busy
        <5>1. ReadHandshake'
          BY <1>0, <2>0, <3>0, <4>1, <4>2 DEF ReadHandshake
        <5>2. ReadData'
          BY <2>2, <4>1, <4>2 DEF ReadData
        <5>3. cc'.cnt = spi'.oecnt + (IF spi'.state \in {2, 3} /\ cc'.dout_avail THEN 1 ELSE 0)
          BY <1>0, <3>0, <4>1, <4>2
        <5> QED  BY <2>0, <4>1, <4>2, <5>1, <5>2, <5>3 DEF ReadRun, ReadServed
      <4>3. CASE ~ cc.sd_busy
        <5>1. spi'.state = 0 /\ Steady /\ cc.state = "idle" /\ ~ spi.sdsrd
          BY <4>1, <4>3, TransferEnds
        <5>2. ~ cc'.sd_busy /\ ~ cc'.garbled
          BY <1>0, <1>1, <5>1 DEF Steady, SignalsAre, FreeOK
        <5>3. ASSUME ~ cc'.sd_error PROVE m' = disk'[drv'.sector]
          <6>1. \A j \in Index : j \in 0 .. spi'.oecnt - 1
            BY <1>0, <4>1 DEF Index
          <6>2. \A j \in Index : Kept(j)' = disk'[drv'.sector][j]
            BY <2>2, <4>1, <5>2, <5>3, <6>1
          <6>3. \A j \in Index : m'[j] = disk'[drv'.sector][j]
            BY <4>1, <6>2 DEF Kept
          <6>4. disk'[drv'.sector] \in Block
            BY CardDoes, DriverKept DEF DriverType
          <6> QED  BY <1>0, <6>3, <6>4 DEF Block
        <5> QED  BY <5>1, <5>2, <5>3 DEF Free, Outcome
      <4> QED  BY <4>2, <4>3
    <3> QED  BY <1>0, <2>5, <3>1, <3>2, <3>3, SpiMoves
  <2> QED  BY <1>3, <2>3, <2>4, <2>5 DEF ReadServed
<1> QED  BY <1>0, <1>2, <1>3 DEF ReadRun

(* The card in a write.                                                    *)
LEMMA CardWrites ==
  ASSUME SdInv, NEW aph, Edge(aph), drv.op # "read", spi.state # 0, WriteServed, drv' = drv
  PROVE  /\ WriteCard' /\ ~ cc'.dout_avail
         /\ spi.sdswr => cc'.sd_busy /\ cc'.state \in {"write", "finish"}
         /\ \/ spi.state = 12 /\ cc.din_latch /\ cc'.cnt = cc.cnt + 1 /\ SignalsAre(FALSE, TRUE)
            \/ cc'.cnt = cc.cnt /\ SignalsAre(FALSE, FALSE)
<1>0. /\ cc \in CardType /\ spi \in SpiType /\ CardMove /\ WriteHandshake /\ BlockSize \in Nat \ {0}
      /\ FreeOK /\ drv \in DriverType /\ disk \in [Sector -> Block]
  <2>1. cc \in CardType /\ spi \in SpiType /\ CardMove /\ FreeOK /\ drv \in DriverType
        /\ disk \in [Sector -> Block]
    BY Typed, CardDoes DEF SdInv
  <2>2. WriteHandshake
    BY Running DEF WriteRun
  <2> QED  BY <2>1, <2>2, SdAssumption
<1>1. ~ spi.sdsrd /\ ~ cc.dout_avail
  BY <1>0 DEF WriteHandshake
<1>2. ASSUME NEW takes \in BOOLEAN, SignalsAre(FALSE, takes)
      PROVE  ~ cc'.dout_avail /\ (spi.sdswr => cc'.sd_busy)
  BY <1>1, <1>2 DEF SignalsAre
<1>3. CASE Steady /\ cc'.state = cc.state
  <2>1. WriteCard'
    BY <1>3 DEF Steady, WriteServed, WriteCard
  <2> QED  BY <1>2, <1>3, <2>1 DEF Steady, WriteServed
<1>4. CASE Steady /\ cc.state \in {"begin", "finish"} /\ cc'.state \in {"idle", "begin"} /\ ~ spi.sdswr
  <2>1. cc.cnt = BlockSize /\ (~ cc.sd_error => disk[drv.sector] = drv.buffer)
    BY <1>0, <1>4 DEF WriteServed, WriteCard
  <2> QED  BY <1>2, <1>4, <2>1 DEF Steady, WriteCard
<1>5. CASE Started
  BY <1>1, <1>5 DEF Started, WriteServed
<1>6. CASE Delivered
  BY <1>1, <1>6 DEF Delivered
<1>7. CASE Taken
  <2>1. spi.state = 12 /\ ~ cc.din_taken /\ spi.sdsdin = drv.buffer[spi.oecnt]
    BY <1>0, <1>7 DEF Taken, WriteServed, WriteHandshake
  <2>2. cc.cnt = spi.oecnt /\ cc.addr = drv.sector /\ cc.cnt \in Index
    BY <1>0, <1>7, <2>1 DEF Taken, WriteServed, WriteCard, SpiType, Index
  <2>3. ASSUME NEW j \in 0 .. cc.cnt PROVE cc'.block[j] = drv.buffer[j]
    <3>1. j = cc.cnt \/ j \in 0 .. cc.cnt - 1
      BY <2>2, <2>3, SdAssumption DEF Index
    <3>2. j \in Index /\ cc.block \in Block
      BY <1>0, <2>2, SdAssumption DEF Index, CardType
    <3>3. j # cc.cnt => cc.block[j] = drv.buffer[j]
      BY <1>7, <3>1 DEF Taken, WriteServed, WriteCard
    <3> QED  BY <1>7, <2>1, <2>2, <3>2, <3>3 DEF Taken, Block
  <2>4. 0 .. cc'.cnt - 1 = 0 .. cc.cnt
    BY <1>7, <2>2, SdAssumption DEF Taken, Index
  <2>5. WriteCard'
    BY <1>7, <2>2, <2>3, <2>4 DEF Taken, WriteCard
  <2>6. SignalsAre(FALSE, TRUE) /\ cc'.state = "write" /\ cc'.cnt = cc.cnt + 1 /\ cc.din_latch
    BY <1>7 DEF Taken
  <2> QED  BY <1>2, <2>1, <2>5, <2>6
<1>8. CASE Ended
  <2>1. cc.state = "write" /\ cc.addr = drv.sector /\ ~ cc.garbled
        /\ \A j \in 0 .. cc.cnt - 1 : cc.block[j] = drv.buffer[j]
    BY <1>0, <1>8 DEF Ended, WriteServed, WriteCard, FreeOK
  <2>2. cc.cnt = BlockSize \/ (cc.cnt = 0 /\ cc'.sd_error)
    BY <1>0, <1>1, <1>8, <2>1 DEF Ended, WriteServed, SpiType
  <2>3. cc.cnt = BlockSize => cc.block = drv.buffer
    BY <1>0, <2>1 DEF CardType, DriverType, Block, Index
  <2>4. cc.cnt = BlockSize /\ ~ cc'.sd_error => disk' = [disk EXCEPT ![drv.sector] = drv.buffer]
    BY <1>8, <2>1, <2>3 DEF Ended, Stored
  <2>5. cc.cnt = BlockSize /\ ~ cc'.sd_error => disk'[drv.sector] = drv.buffer
    BY <1>0, <2>4 DEF DriverType
  <2>6. SignalsAre(FALSE, FALSE) /\ cc'.cnt = cc.cnt /\ cc'.state = "finish"
    BY <1>8 DEF Ended
  <2>7. WriteCard'
    BY <2>2, <2>5, <2>6 DEF WriteCard
  <2> QED  BY <1>2, <2>6, <2>7
<1>9. \/ Steady /\ cc'.state = cc.state
      \/ Steady /\ cc.state \in {"begin", "finish"} /\ cc'.state \in {"idle", "begin"} /\ ~ spi.sdswr
      \/ Started \/ Delivered \/ Taken \/ Ended
  BY <1>0, <1>1 DEF CardMove, WriteServed
<1> QED  BY <1>3, <1>4, <1>5, <1>6, <1>7, <1>8, <1>9

(* A step of a write: the next part of its handshake, or its end.          *)
LEMMA WriteSteps ==
  ASSUME SdInv, NEW aph, Edge(aph), drv.op # "read", spi.state # 0, drv' = drv,
         ctl.sdsbaddr = drv.sector
  PROVE  WriteRun' \/ (spi'.state = 0 /\ Free' /\ Outcome')
<1>0. /\ cc \in CardType /\ spi \in SpiType /\ CardMove /\ SpiStep /\ FreeOK /\ BlockSize \in Nat \ {0}
      /\ WriteRun /\ WriteHandshake /\ m' = drv.buffer /\ mout' = drv.buffer[spi.maddr2]
      /\ spi.oecnt \in Nat
  <2>1. cc \in CardType /\ spi \in SpiType /\ CardMove /\ SpiStep /\ FreeOK
    BY Typed, CardDoes DEF Edge, Device, SdInv
  <2>2. WriteRun /\ WriteHandshake /\ m = drv.buffer
    BY Running DEF WriteRun
  <2>3. m' = m /\ mout' = m[spi.maddr2]
    BY <2>2, DeviceAlone DEF WriteHandshake
  <2>4. BlockSize \in Nat \ {0} /\ spi.oecnt \in Nat
    BY <2>1, SdAssumption DEF SpiType
  <2> QED  BY <2>1, <2>2, <2>3, <2>4
<1>1. /\ ~ spi.sdsrd /\ ~ spi.sdsdout_taken /\ ~ spi.mw2 /\ ~ cc.dout_avail
  BY <1>0 DEF WriteHandshake
<1> DEFINE Counted == cc.cnt = spi.oecnt + (IF spi.state = 13 \/ (spi.state = 12 /\ cc.din_taken) THEN 1 ELSE 0)
<1>2. CASE WriteAsked
  <2>0. cc.state = "idle" /\ ~ cc.sd_busy /\ ~ cc.last_valid /\ spi.oecnt = 0
    BY <1>2 DEF WriteAsked
  <2>1. ASSUME ~ spi.sdswr PROVE cc'.state = "idle" /\ Steady
    BY <1>1, <2>0, <2>1, <1>0 DEF CardMove, Started, Delivered, Taken, Ended
  <2>2. ASSUME ~ spi.sdswr, ~ spi.sdsdin_valid
        PROVE  /\ cc'.state = "idle" /\ ~ cc'.sd_busy /\ ~ cc'.dout_avail /\ ~ cc'.last_valid
               /\ ~ cc'.din_latch /\ ~ cc'.din_taken
    BY <1>1, <2>0, <2>1, <2>2 DEF Steady, SignalsAre
  <2>3. CASE spi.state = 10
    <3>1. ~ spi.sdswr /\ ~ spi.sdsdin_valid
      BY <1>0, <1>2, <2>3 DEF WriteAsked, WriteHandshake
    <3>2. WriteNext
      BY <1>0, <2>0, <2>3, SpiMoves DEF WriteEnd
    <3>3. /\ spi'.state = 16 /\ spi'.maddr2 = 0 /\ spi'.oecnt = 0 /\ ~ spi'.sdsrd /\ ~ spi'.sdswr
          /\ ~ spi'.sdsdin_valid /\ ~ spi'.sdsdout_taken /\ ~ spi'.mw2
      BY <1>0, <1>1, <2>0, <3>1, <3>2 DEF WriteNext, SpiType
    <3> QED  BY <1>0, <2>2, <3>1, <3>3 DEF WriteRun, WriteHandshake, WriteAsked
  <2>4. CASE spi.state = 16
    <3>1. ~ spi.sdswr /\ ~ spi.sdsdin_valid /\ spi.maddr2 = 0
      BY <1>0, <1>2, <2>0, <2>4 DEF WriteAsked, WriteHandshake
    <3>2. /\ spi'.state = 11 /\ spi'.maddr2 = 0 /\ spi'.oecnt = 0 /\ ~ spi'.sdsrd /\ ~ spi'.sdswr
          /\ ~ spi'.sdsdin_valid /\ ~ spi'.sdsdout_taken /\ ~ spi'.mw2
      BY <1>0, <1>1, <2>0, <2>4, <3>1, SpiMoves DEF WriteFetch, SpiType
    <3> QED  BY <1>0, <2>2, <3>1, <3>2 DEF WriteRun, WriteHandshake, WriteAsked
  <2>5. CASE spi.state = 11
    <3>1. ~ spi.sdswr /\ ~ spi.sdsdin_valid /\ mout = drv.buffer[0]
      BY <1>0, <1>2, <2>0, <2>5 DEF WriteAsked, WriteHandshake
    <3>2. WriteGive
      BY <1>0, <2>5, SpiMoves
    <3>3. /\ spi'.state = 12 /\ spi'.oecnt = 0 /\ ~ spi'.sdsrd /\ spi'.sdswr /\ spi'.sdsdin = mout
          /\ spi'.sdsdin_valid /\ ~ spi'.sdsdout_taken /\ ~ spi'.mw2
      BY <1>0, <1>1, <2>0, <3>2 DEF WriteGive, SpiType
    <3> QED  BY <1>0, <2>2, <3>1, <3>3 DEF WriteRun, WriteHandshake, WriteAsked
  <2>6. CASE spi.state = 12
    <3>1. /\ spi.sdsdin_valid /\ spi.sdswr /\ ~ cc.din_taken
      BY <1>0, <2>0, <2>6 DEF WriteHandshake
    <3>2. spi' = spi
      BY <1>0, <2>6, <3>1, SpiMoves DEF WriteTaken
    <3>3. Started
      BY <1>0, <2>0, <3>1 DEF CardMove, Delivered, Taken, Ended
    <3>4. /\ cc'.sd_busy /\ ~ cc'.dout_avail /\ cc'.last_valid /\ cc'.din_latch /\ ~ cc'.din_taken
          /\ cc'.state = "write" /\ cc'.cnt = 0 /\ cc'.addr = drv.sector
      BY <1>1, <2>0, <3>1, <3>3 DEF Started, SignalsAre
    <3>5. WriteHandshake'
      BY <1>0, <2>6, <3>2, <3>4 DEF WriteHandshake
    <3>6. WriteServed'
      BY <2>0, <2>6, <3>1, <3>2, <3>4 DEF WriteServed, WriteCard
    <3> QED  BY <1>0, <2>6, <3>2, <3>5, <3>6 DEF WriteRun
  <2> QED  BY <1>2, <2>3, <2>4, <2>5, <2>6 DEF WriteAsked
<1>3. CASE WriteServed
  <2>0. /\ WriteCard' /\ ~ cc'.dout_avail
        /\ spi.sdswr => cc'.sd_busy /\ cc'.state \in {"write", "finish"}
        /\ \/ spi.state = 12 /\ cc.din_latch /\ cc'.cnt = cc.cnt + 1 /\ SignalsAre(FALSE, TRUE)
           \/ cc'.cnt = cc.cnt /\ SignalsAre(FALSE, FALSE)
    BY <1>0, <1>3, CardWrites
  <2>1. ASSUME ~ spi.sdsdin_valid
        PROVE  ~ cc'.last_valid /\ ~ cc'.din_latch /\ ~ cc'.din_taken
    BY <2>0, <2>1 DEF SignalsAre
  <2>2. CASE spi.state = 10
    <3>0. ~ spi.sdsdin_valid /\ cc'.cnt = cc.cnt /\ cc.cnt = spi.oecnt
      BY <1>0, <1>3, <2>0, <2>2 DEF WriteHandshake, WriteServed
    <3>1. CASE WriteNext
      <4>1. spi.sdswr /\ spi.oecnt < BlockSize
        BY <1>0, <1>3, <3>1 DEF WriteNext, WriteServed
      <4>2. /\ spi'.state = 16 /\ spi'.maddr2 = spi.oecnt /\ spi'.oecnt = spi.oecnt /\ ~ spi'.sdsrd
            /\ spi'.sdswr /\ ~ spi'.sdsdin_valid /\ ~ spi'.sdsdout_taken /\ ~ spi'.mw2
        BY <1>0, <1>1, <3>0, <3>1, <4>1 DEF WriteNext, SpiType
      <4>3. Counted'
        BY <1>0, <3>0, <4>2
      <4>4. WriteHandshake'
        BY <2>0, <2>1, <3>0, <4>1, <4>2 DEF WriteHandshake
      <4> QED  BY <1>0, <2>0, <4>1, <4>2, <4>3, <4>4 DEF WriteRun, WriteServed
    <3>2. CASE WriteEnd
      <4>1. spi.oecnt = BlockSize
        BY <3>2 DEF WriteEnd
      <4>2. CASE cc.sd_busy
        <5>1. /\ spi'.state = 10 /\ spi'.oecnt = spi.oecnt /\ ~ spi'.sdsrd
              /\ ~ spi'.sdswr /\ ~ spi'.sdsdin_valid /\ ~ spi'.sdsdout_taken /\ ~ spi'.mw2
          BY <1>0, <1>1, <2>2, <3>0, <3>2, <4>2 DEF WriteEnd, SpiType
        <5>2. Counted'
          BY <1>0, <3>0, <5>1
        <5>3. WriteHandshake'
          BY <2>0, <2>1, <3>0, <5>1 DEF WriteHandshake
        <5> QED  BY <1>0, <2>0, <4>1, <5>1, <5>2, <5>3 DEF WriteRun, WriteServed
      <4>3. CASE ~ cc.sd_busy
        <5>1. spi'.state = 0
          BY <1>0, <3>2, <4>3 DEF WriteEnd, SpiType
        <5>2. Steady /\ cc.state = "idle" /\ ~ spi.sdsrd /\ ~ spi.sdswr
          BY <5>1, TransferEnds
        <5>3. ~ cc'.sd_busy
          BY <5>2 DEF Steady, SignalsAre
        <5>4. ~ cc.sd_error => disk[drv.sector] = drv.buffer
          BY <1>3, <5>2 DEF WriteServed, WriteCard
        <5> QED  BY <5>1, <5>2, <5>3, <5>4 DEF Free, Outcome, Steady
      <4> QED  BY <4>2, <4>3
    <3> QED  BY <1>0, <2>2, <3>1, <3>2, SpiMoves
  <2>3. CASE spi.state \in {16, 11}
    <3>0. /\ ~ spi.sdsdin_valid /\ cc'.cnt = cc.cnt /\ cc.cnt = spi.oecnt /\ spi.sdswr
          /\ spi.maddr2 = spi.oecnt /\ spi.oecnt < BlockSize
          /\ spi.state = 11 => mout = drv.buffer[spi.oecnt]
      <4>1. /\ ~ spi.sdsdin_valid /\ spi.maddr2 = spi.oecnt /\ spi.oecnt < BlockSize
            /\ spi.state = 11 => mout = drv.buffer[spi.oecnt]
        BY <1>0, <2>3 DEF WriteHandshake
      <4>2. cc.cnt = spi.oecnt + 0 /\ spi.sdswr
        BY <1>3, <2>3 DEF WriteServed
      <4>3. spi.state # 12
        BY <2>3
      <4>4. cc'.cnt = cc.cnt
        BY <2>0, <4>3
      <4> QED  BY <1>0, <4>1, <4>2, <4>4
    <3>1. CASE spi.state = 16
      <4>1. /\ spi'.state = 11 /\ spi'.maddr2 = spi.oecnt /\ spi'.oecnt = spi.oecnt /\ ~ spi'.sdsrd
            /\ spi'.sdswr /\ ~ spi'.sdsdin_valid /\ ~ spi'.sdsdout_taken /\ ~ spi'.mw2
        BY <1>0, <1>1, <3>0, <3>1, SpiMoves DEF WriteFetch, SpiType
      <4>2. Counted'
        BY <1>0, <3>0, <4>1
      <4>3. WriteHandshake'
        BY <1>0, <2>0, <2>1, <3>0, <4>1 DEF WriteHandshake
      <4> QED  BY <1>0, <2>0, <3>0, <4>1, <4>2, <4>3 DEF WriteRun, WriteServed
    <3>2. CASE spi.state = 11
      <4>1. WriteGive
        BY <1>0, <3>2, SpiMoves
      <4>2. /\ spi'.state = 12 /\ spi'.oecnt = spi.oecnt /\ ~ spi'.sdsrd /\ spi'.sdswr /\ spi'.sdsdin = mout
            /\ spi'.sdsdin_valid /\ ~ spi'.sdsdout_taken /\ ~ spi'.mw2
        BY <1>0, <1>1, <4>1 DEF WriteGive, SpiType
      <4>3. Counted'
        BY <1>0, <2>1, <3>0, <4>2
      <4>4. WriteHandshake'
        BY <1>0, <2>0, <2>1, <3>0, <3>2, <4>2 DEF WriteHandshake
      <4> QED  BY <1>0, <2>0, <3>0, <4>2, <4>3, <4>4 DEF WriteRun, WriteServed
    <3> QED  BY <2>3, <3>1, <3>2
  <2>4. CASE spi.state = 12
    <3>0. /\ spi.sdsdin_valid /\ spi.sdswr /\ spi.sdsdin = drv.buffer[spi.oecnt] /\ spi.oecnt < BlockSize
          /\ cc.din_latch => cc.last_valid /\ ~ cc.din_taken
          /\ cc.din_taken => cc.last_valid
          /\ cc.last_valid => cc.din_latch \/ cc.din_taken
      BY <1>0, <2>4 DEF WriteHandshake
    <3>1. CASE cc.din_taken
      <4>1. /\ spi'.state = 13 /\ spi'.oecnt = spi.oecnt /\ ~ spi'.sdsrd /\ spi'.sdswr
            /\ ~ spi'.sdsdin_valid /\ ~ spi'.sdsdout_taken /\ ~ spi'.mw2
        <5>1. WriteTaken
          BY <1>0, <2>4, SpiMoves
        <5> QED  BY <1>0, <1>1, <3>0, <3>1, <5>1 DEF WriteTaken, SpiType
      <4>2. cc'.cnt = cc.cnt /\ cc.cnt = spi.oecnt + 1 /\ cc'.din_taken /\ ~ cc'.din_latch
        BY <1>3, <2>0, <2>4, <3>0, <3>1 DEF SignalsAre, WriteServed
      <4>3. Counted'
        BY <4>1, <4>2
      <4>4. WriteHandshake'
        BY <1>0, <2>0, <3>0, <4>1, <4>2 DEF WriteHandshake
      <4> QED  BY <1>0, <2>0, <3>0, <4>1, <4>3, <4>4 DEF WriteRun, WriteServed
    <3>2. CASE ~ cc.din_taken
      <4>1. spi' = spi
        BY <1>0, <2>4, <3>2, SpiMoves DEF WriteTaken
      <4>2. cc.cnt = spi.oecnt
        BY <1>0, <1>3, <2>4, <3>2 DEF WriteServed
      <4>3. CASE cc.din_latch /\ cc'.cnt = cc.cnt + 1 /\ SignalsAre(FALSE, TRUE)
        <5>1. cc'.last_valid /\ cc'.din_taken /\ ~ cc'.din_latch
          BY <3>0, <4>3 DEF SignalsAre
        <5>2. Counted'
          BY <2>4, <4>1, <4>2, <4>3, <5>1
        <5>3. WriteHandshake'
          BY <1>0, <1>1, <2>0, <2>4, <3>0, <4>1, <5>1 DEF WriteHandshake
        <5> QED  BY <1>0, <2>0, <2>4, <3>0, <4>1, <5>2, <5>3 DEF WriteRun, WriteServed
      <4>4. CASE cc'.cnt = cc.cnt /\ SignalsAre(FALSE, FALSE)
        <5>1. cc'.last_valid /\ ~ cc'.din_taken /\ cc'.din_latch
          BY <3>0, <3>2, <4>4 DEF SignalsAre
        <5>2. Counted'
          BY <1>0, <2>4, <4>1, <4>2, <4>4, <5>1
        <5>3. WriteHandshake'
          BY <1>0, <1>1, <2>0, <2>4, <3>0, <4>1, <5>1 DEF WriteHandshake
        <5> QED  BY <1>0, <2>0, <2>4, <3>0, <4>1, <5>2, <5>3 DEF WriteRun, WriteServed
      <4> QED  BY <2>0, <4>3, <4>4
    <3> QED  BY <3>1, <3>2
  <2>5. CASE spi.state = 13
    <3>0. /\ ~ spi.sdsdin_valid /\ spi.sdswr /\ spi.oecnt < BlockSize /\ cc'.cnt = cc.cnt
          /\ cc.cnt = spi.oecnt + 1
      BY <1>0, <1>3, <2>0, <2>5 DEF WriteHandshake, WriteServed
    <3>1. CASE cc.din_taken
      <4>1. spi' = spi
        BY <1>0, <2>5, <3>1, SpiMoves DEF WriteCount
      <4>2. Counted'
        BY <2>5, <3>0, <4>1
      <4>3. WriteHandshake'
        BY <1>0, <1>1, <2>0, <2>1, <2>5, <3>0, <4>1 DEF WriteHandshake
      <4> QED  BY <1>0, <2>0, <2>5, <3>0, <4>1, <4>2, <4>3 DEF WriteRun, WriteServed
    <3>2. CASE ~ cc.din_taken
      <4>1. /\ spi'.state = 10 /\ spi'.oecnt = spi.oecnt + 1 /\ ~ spi'.sdsrd /\ spi'.sdswr
            /\ ~ spi'.sdsdin_valid /\ ~ spi'.sdsdout_taken /\ ~ spi'.mw2
        <5>1. WriteCount
          BY <1>0, <2>5, SpiMoves
        <5>2. spi.oecnt + 1 \in 0 .. BlockSize
          BY <1>0, <3>0
        <5> QED  BY <1>0, <1>1, <3>0, <3>2, <5>1, <5>2 DEF WriteCount, SpiType
      <4>2. Counted'
        BY <1>0, <3>0, <4>1
      <4>3. WriteHandshake'
        BY <2>0, <2>1, <3>0, <4>1 DEF WriteHandshake
      <4> QED  BY <1>0, <2>0, <3>0, <4>1, <4>2, <4>3 DEF WriteRun, WriteServed
    <3> QED  BY <3>1, <3>2
  <2> QED  BY <1>3, <2>2, <2>3, <2>4, <2>5 DEF WriteServed
<1> QED  BY <1>0, <1>2, <1>3 DEF WriteRun

-------------------------------------------------------------------------------
(* The command: asked for, on its way, at work and over.                   *)
LEMMA CommandHeard ==
  ASSUME SdInv, NEW aph, Edge(aph), ctl'.ctrlstate \in {2, 12}
  PROVE  /\ apb_state = "wr1" /\ dph # {} /\ Xfer = Command /\ drv.pc = "done"
         /\ ctl'.sdsbaddr = drv.sector
<1>0. CtlStep /\ CtlOK /\ BridgeOK /\ ctl \in CtlType
  BY Typed DEF SdInv, Edge, Device
<1>1. TakeCommand
  <2>1. Rest \/ GiveStatus \/ GiveByte \/ Done => ctl'.ctrlstate = 0
    BY <1>0 DEF Rest, GiveStatus, GiveByte, Done, CtlType
  <2>2. TakeByte \/ TakeStatus \/ TakeRead \/ ByteWritten \/ ByteRead
          => ctl'.ctrlstate \in {1, 5, 6, 15, 16}
    BY <1>0 DEF TakeByte, TakeStatus, TakeRead, ByteWritten, ByteRead, CtlType
  <2> QED  BY <1>0, <2>1, <2>2 DEF CtlStep
<1>2. Xfer = Command /\ drv.pc = "done" /\ apbm_pwdata = drv.sector
  BY <1>1, BusWrites DEF TakeCommand
<1>3. ctl'.sdsbaddr = apbm_pwdata
  BY <1>0, <1>1 DEF TakeCommand, CtlType
<1>4. apb_state = "wr1" /\ dph # {}
  BY <1>0, <1>1, Strobes DEF TakeCommand, BridgeOK
<1> QED  BY <1>2, <1>3, <1>4

(* The sector is kept while the command runs.                              *)
LEMMA SectorRests ==
  ASSUME SdInv, NEW aph, Edge(aph), ~ bus_write PROVE ctl'.sdsbaddr = ctl.sdsbaddr
<1>0. CtlStep /\ ctl \in CtlType
  BY Typed DEF Edge, Device
<1> QED
  BY <1>0 DEF CtlStep, Rest, TakeCommand, TakeByte, TakeStatus, TakeRead, GiveStatus, ByteWritten,
              ByteRead, GiveByte, Done, CtlType

(* The driver waits at "done", until it leaves with a status word of zero. *)
LEMMA DoneMoves ==
  ASSUME SdInv, NEW aph, Edge(aph), drv.pc = "done"
  PROVE  /\ aph # {} => Xfer' = Load(ReadReg) /\ drv' = drv
         /\ drv' = drv \/ (/\ SeenFree /\ Xfer = Load(ReadReg) /\ ctl.ctrlstate = 0
                           /\ drv' = [drv EXCEPT !.pc = IF drv.op = "read" THEN "fetch" ELSE "next"])
<1>0. drv \in DriverType /\ CtlOK
  BY Typed DEF SdInv
<1>1. ~ DriverBegins /\ ~ DriverFetches
  BY <1>0, Begun DEF DriverFetches
<1>2. \/ Asking(aph, Load(ReadReg)) /\ drv' = drv
      \/ aph = {} /\ Ending(Load(ReadReg)) /\ DriverWaits
      \/ aph = {} /\ drv' = drv
  BY <1>1, DriverMoves DEF DriverMove
<1>3. CASE aph = {} /\ Ending(Load(ReadReg)) /\ DriverWaits
  <2>1. ctl.ctrlstate = 0
    BY <1>0, <1>3 DEF Ending, CtlOK
  <2> QED  BY <1>3, <2>1 DEF Ending, DriverWaits, SeenFree
<1> QED  BY <1>2, <1>3 DEF Asking

(* Before it is at work a command is pending, then it starts.              *)
LEMMA CommandAsked ==
  ASSUME SdInv, NEW aph, Edge(aph), drv.pc = "command", drv'.pc = "done"
  PROVE  Pending' /\ Free' /\ (drv'.op = "write" => m' = drv'.buffer)
<1>0. drv \in DriverType /\ m \in Block /\ FreeOK /\ CtlOK /\ BridgeOK /\ BytesOK
  BY Typed DEF SdInv
<1>1. Asking(aph, Command) /\ drv' = [drv EXCEPT !.pc = "done"]
  <2>1. ~ DriverBegins /\ ~ DriverFetches /\ drv' # drv /\ ~ DriverFills /\ ~ DriverWaits
    BY <1>0, Begun DEF DriverFetches, DriverFills, DriverWaits
  <2> QED  BY <2>1, DriverMoves DEF DriverMove
<1>2. Pending'
  <2>1. Command' = Command
    BY <1>0, <1>1 DEF Command, DriverType
  <2>2. Xfer' = Command /\ aph # {}
    BY <1>1 DEF Asking
  <2>3. apb_state' = "wr0" /\ dph' # {}
    BY <2>2, BusMoves DEF Command, StoreTo
  <2> QED  BY <2>1, <2>2, <2>3 DEF Pending
<1>3. ctl.ctrlstate = 0 /\ apb_state \notin {"wr0", "wr1"} /\ ~ ctl.mw1
  BY <1>0, <1>1, Strobes DEF Asking, CtlOK
<1>4. Free' /\ m' = m
  BY <1>0, <1>3, StaysFree DEF FreeOK
<1>5. ASSUME drv.op = "write" PROVE m = drv.buffer
  <2>1. \A j \in Index : Filled(j)
    BY <1>0, <1>5 DEF BytesOK
  <2>2. \A j \in Index : m[j] = drv.buffer[j]
    BY <1>3, <2>1 DEF Filled, Storing
  <2> QED  BY <1>0, <2>2 DEF DriverType, Block
<1>6. drv'.op = drv.op /\ drv'.buffer = drv.buffer
  BY <1>0, <1>1 DEF DriverType
<1> QED  BY <1>2, <1>4, <1>5, <1>6

LEMMA CommandStarts ==
  ASSUME SdInv, NEW aph, Edge(aph), ctl.ctrlstate \in {2, 12}, drv' = drv
  PROVE  /\ ~ Pending' /\ ctl'.sdsbaddr = drv'.sector
         /\ IF drv'.op = "read" THEN ReadRun' ELSE WriteRun'
<1>0. /\ apb_state = "wr2" /\ ~ ctl.pready /\ dph # {} /\ Free /\ Quiet /\ ctl.sdsbaddr = drv.sector
      /\ drv.op = "write" => m = drv.buffer
      /\ ctl.ctrlstate = IF drv.op = "read" THEN 2 ELSE 12
  BY CommandTaken
<1>1. /\ cc \in CardType /\ spi \in SpiType /\ ctl \in CtlType /\ CardMove /\ SpiStep /\ CtlStep
      /\ BridgeOK /\ drv \in DriverType /\ FreeOK /\ CtlOK /\ MemoryStep
  BY Typed, CardDoes DEF Edge, Device, SdInv
<1>2. ~ bus_write /\ apb_state' = "wr2"
  BY <1>0, <1>1, BusMoves, Strobes
<1>3. ctl'.ctrlstate = 0
  <2>1. ctl.ctrlstate \in {2, 12}
    OBVIOUS
  <2>2. Done
    BY <1>1, <2>1 DEF CtlStep, Rest, TakeCommand, TakeByte, TakeStatus, TakeRead, GiveStatus, ByteWritten,
                      ByteRead, GiveByte, Hears
  <2> QED  BY <1>1, <2>2 DEF Done, CtlType
<1>4. ~ Pending'
  BY <1>2, <1>3 DEF Pending
<1>5. SpiIdle /\ ~ cc.sd_busy /\ spi.state = 0
  BY <1>0, <1>1, SpiMoves DEF Free
<1>6. /\ spi'.state = (IF drv.op = "read" THEN 1 ELSE 10) /\ spi'.oecnt = 0
      /\ ~ spi'.sdsrd /\ ~ spi'.sdswr /\ ~ spi'.sdsdin_valid /\ ~ spi'.sdsdout_taken /\ ~ spi'.mw2
  BY <1>0, <1>1, <1>5 DEF SpiIdle, SpiType, Quiet
<1>7. cc'.state = "idle" /\ Steady
  BY <1>0, <1>1, <1>5 DEF CardMove, Started, Delivered, Taken, Ended, Quiet, FreeOK
<1>8. /\ ~ cc'.sd_busy /\ ~ cc'.dout_avail /\ ~ cc'.din_latch /\ ~ cc'.din_taken /\ ~ cc'.last_valid
  BY <1>0, <1>1, <1>5, <1>7 DEF Steady, SignalsAre, Quiet, FreeOK
<1>9. m' = m
  BY <1>0, <1>1 DEF MemoryStep, mw, Quiet, CtlOK
<1>10. CASE drv.op = "read"
  <2>1. spi'.oecnt < BlockSize
    BY <1>6, SdAssumption
  <2> QED
    BY <1>0, <1>2, <1>4, <1>6, <1>7, <1>8, <1>10, <2>1, SectorRests DEF ReadRun, ReadHandshake, ReadAsked
<1>11. CASE drv.op = "write"
  BY <1>0, <1>2, <1>4, <1>6, <1>7, <1>8, <1>9, <1>11, SectorRests DEF WriteRun, WriteHandshake, WriteAsked
<1> QED  BY <1>1, <1>10, <1>11 DEF DriverType

LEMMA PendingKept ==
  ASSUME SdInv, NEW aph, Edge(aph), drv.pc = "done", Pending, drv' = drv,
         ctl.ctrlstate \notin {2, 12}
  PROVE  Pending' /\ Free' /\ m' = m
<1>0. /\ ctl \in CtlType /\ CtlStep /\ CtlOK /\ BridgeOK /\ apbm_paddr \in Address
      /\ CommandOK /\ DriverOK
  BY Typed DEF SdInv, Edge, Device
<1>1. dph # {} /\ Xfer = Command /\ apb_state \in {"wr0", "wr1"}
  BY DEF Pending
<1>2. Free
  BY <1>0, <1>1 DEF CommandOK
<1>3. Free' /\ m' = m
  BY <1>0, <1>1, <1>2, StaysFree DEF CtlOK
<1>4. dph' = dph /\ Xfer' = Xfer /\ Command' = Command /\ (apb_state = "wr0" => apb_state' = "wr1")
  BY <1>0, <1>1, BusMoves, Strobes DEF Command
<1>5. ASSUME apb_state = "wr1" PROVE ctl'.ctrlstate \in {2, 12}
  <2>1. ctl.ctrlstate = 0 /\ ~ ctl.pready /\ bus_write /\ ~ bus_read /\ apbm_paddr = Command.addr
    BY <1>0, <1>1, <1>5, Strobes DEF CtlOK, BridgeOK
  <2>2. ~ apbm_paddr.block
    BY <2>1, Addresses DEF Command, StoreTo
  <2>3. TakeCommand
    BY <1>0, <2>1, <2>2 DEF CtlStep, Rest, TakeByte, TakeStatus, TakeRead, GiveStatus, ByteWritten,
                            ByteRead, GiveByte, Done
  <2> QED  BY <1>0, <2>3 DEF TakeCommand, CtlType
<1> QED  BY <1>1, <1>3, <1>4, <1>5 DEF Pending

LEMMA NotPendingKept ==
  ASSUME SdInv, NEW aph, Edge(aph), drv.pc = "done", ~ Pending, drv' = drv
  PROVE  ~ Pending' /\ ctl'.sdsbaddr = ctl.sdsbaddr
<1>0. CtlOK /\ BridgeOK
  BY DEF SdInv
<1>1. ctl.ctrlstate \notin {2, 12}
  BY CommandTaken
<1>2. ctl'.ctrlstate \notin {2, 12}
  BY CommandHeard DEF Pending
<1>3. ~ (dph' # {} /\ Xfer' = Command' /\ apb_state' \in {"wr0", "wr1"})
  <2>1. Command' = Command /\ Command.wr
    BY DEF Command, StoreTo
  <2>2. CASE aph # {}
    BY <2>1, <2>2, DoneMoves DEF Load
  <2>3. CASE aph = {} /\ ahbls_hready_resp
    BY <2>3, BusMoves
  <2>4. CASE aph = {} /\ ~ ahbls_hready_resp
    BY <2>1, <2>4, BusMoves DEF Pending
  <2> QED  BY <2>2, <2>3, <2>4
<1>4. ~ bus_write
  <2>1. ASSUME bus_write PROVE FALSE
    <3>1. ctl.ctrlstate = 0 /\ dph # {} /\ apb_state = "wr1" /\ Xfer.wr
      BY <1>0, <2>1, Strobes DEF CtlOK, BridgeOK, Writing
    <3>2. Xfer = Command
      BY <3>1 DEF SdInv, DriverOK, Load
    <3> QED  BY <3>1, <3>2 DEF Pending
  <2> QED  BY <2>1
<1> QED  BY <1>2, <1>3, <1>4, SectorRests DEF Pending

(* What is left when it is over is left until the next call.               *)
LEMMA OutcomeKept ==
  ASSUME SdInv, NEW aph, Edge(aph), Outcome, Free, ctl.ctrlstate \notin {2, 12},
         drv.pc \in {"done", "fetch"}, drv'.op = drv.op, drv'.sector = drv.sector,
         drv.op = "read" \/ drv'.buffer = drv.buffer
  PROVE  Free' /\ Outcome'
<1>1. ~ ctl.mw1
  BY StoreWritten
<1>2. Free' /\ cc'.sd_error = cc.sd_error /\ disk' = disk /\ m' = m
  BY <1>1, StaysFree
<1> QED  BY <1>2 DEF Outcome

LEMMA CommandKept == ASSUME SdInv, NEW aph, Edge(aph) PROVE CommandOK'
<1>0. CommandOK /\ drv \in DriverType /\ FreeOK /\ CtlOK
  BY Typed DEF SdInv
<1>1. ctl'.ctrlstate \in {2, 12} => ctl'.sdsbaddr = drv'.sector
  <2>1. ASSUME ctl'.ctrlstate \in {2, 12} PROVE drv' = drv
    <3>1. drv.pc = "done" /\ Xfer = Command
      BY <2>1, CommandHeard
    <3> QED  BY <3>1, DoneMoves DEF Command, StoreTo, Load
  <2> QED  BY <2>1, CommandHeard
<1>2. CASE drv.pc = "done" /\ drv' = drv
  <2>1. CASE Pending /\ ctl.ctrlstate \in {2, 12}
    BY <1>1, <1>2, <2>1, CommandStarts DEF CommandOK
  <2>2. CASE Pending /\ ctl.ctrlstate \notin {2, 12}
    BY <1>0, <1>1, <1>2, <2>2, PendingKept DEF CommandOK
  <2>3. CASE ~ Pending
    <3>1. ~ Pending' /\ ctl'.sdsbaddr = ctl.sdsbaddr /\ ctl.ctrlstate \notin {2, 12}
      BY <1>2, <2>3, NotPendingKept, CommandTaken
    <3>2. CASE spi.state # 0
      BY <1>0, <1>1, <1>2, <3>1, <3>2, Running, ReadSteps, WriteSteps DEF CommandOK
    <3>3. CASE spi.state = 0
      <4>1. Free /\ Outcome
        BY <1>0, <1>2, <2>3, <3>3 DEF CommandOK, ReadRun, WriteRun
      <4>2. Free' /\ Outcome'
        BY <1>2, <3>1, <4>1, OutcomeKept
      <4> QED  BY <1>1, <1>2, <3>1, <4>2 DEF CommandOK
    <3> QED  BY <3>2, <3>3
  <2> QED  BY <2>1, <2>2, <2>3
<1>3. CASE drv.pc = "done" /\ drv' # drv
  <2>1. /\ SeenFree /\ Xfer = Load(ReadReg) /\ ctl.ctrlstate = 0
        /\ drv' = [drv EXCEPT !.pc = IF drv.op = "read" THEN "fetch" ELSE "next"]
    BY <1>3, DoneMoves
  <2>2. Free /\ ~ Pending
    BY <1>0, <2>1 DEF FreeOK, Pending, Load, Command, StoreTo
  <2>3. Outcome
    BY <1>0, <1>3, <2>2 DEF CommandOK, ReadRun, WriteRun, Free
  <2>4. drv'.pc \in {"fetch", "next"} /\ drv'.op = drv.op /\ drv'.sector = drv.sector
        /\ drv'.buffer = drv.buffer
    BY <1>0, <2>1 DEF DriverType
  <2>5. Outcome'
    BY <1>3, <2>1, <2>2, <2>3, <2>4, OutcomeKept
  <2> QED  BY <1>1, <2>4, <2>5 DEF CommandOK
<1>4. CASE drv.pc # "done" /\ drv'.pc = "done"
  <2>1. drv.pc = "command"
    <3>1. ~ DriverBegins /\ ~ DriverFetches /\ ~ DriverFills /\ drv' # drv
      BY <1>0, <1>4, Begun, PcMoves
    <3>2. ~ DriverWaits
      BY <1>0, <1>4 DEF DriverWaits, Ready, DriverType
    <3> QED  BY <3>1, <3>2, DriverMoves DEF DriverMove
  <2> QED  BY <1>1, <1>4, <2>1, CommandAsked DEF CommandOK
<1>5. CASE drv.pc # "done" /\ drv'.pc = "fetch"
  <2>1. drv.pc = "fetch" /\ (drv' = drv \/ DriverFetches)
    <3>1. ~ DriverBegins /\ ~ DriverFills /\ drv' # [drv EXCEPT !.pc = "done"]
      BY <1>0, <1>5, Begun, PcMoves
    <3>2. ~ DriverWaits
      BY <1>0, <1>5 DEF DriverWaits, Ready, DriverType
    <3> QED  BY <1>5, <3>1, <3>2, DriverMoves DEF DriverMove, DriverFetches
  <2>2. drv'.op = drv.op /\ drv'.sector = drv.sector
    BY <1>0, <2>1 DEF DriverFetches, DriverType
  <2>3. drv.op = "read" /\ Free /\ Outcome /\ ctl.ctrlstate \notin {2, 12}
    BY <1>0, <2>1, CommandTaken DEF FreeOK, CommandOK, SdInv, DriverOK
  <2> QED  BY <1>1, <1>5, <2>1, <2>2, <2>3, OutcomeKept DEF CommandOK
<1>6. CASE drv.pc # "done" /\ drv'.pc \notin {"done", "fetch"}
  BY <1>1, <1>6 DEF CommandOK
<1> QED  BY <1>2, <1>3, <1>4, <1>5, <1>6

-------------------------------------------------------------------------------
LEMMA SdInit == Init => SdInv
<1> SUFFICES ASSUME Init PROVE SdInv
  OBVIOUS
<1>0. /\ BridgeInit(ReadReg) /\ CtlInit /\ SpiInit /\ CardInit /\ DriverInit
      /\ m = [i \in Index |-> 0] /\ mout = 0
      /\ disk = [s \in Sector |-> [i \in Index |-> 0]]
  BY DEF Init
<1>1. 0 \in Byte /\ 0 \in 0 .. BlockSize /\ 0 \in Index /\ (CHOOSE s \in Sector : TRUE) \in Sector
  <2>1. \E s \in Sector : TRUE
    BY SdAssumption
  <2> QED  BY <2>1, SdAssumption, Indices
<1> DEFINE blank == [i \in Index |-> 0]
           first == CHOOSE s \in Sector : TRUE
<1>2. blank \in Block
  BY <1>1 DEF Block
<1>3. first \in Sector
  BY <1>1
<1>4. ctl \in CtlType /\ spi \in SpiType
  BY <1>0, <1>1 DEF CtlInit, SpiInit, CtlType, SpiType
<1>5. /\ cc = [state |-> "begin", sd_busy |-> TRUE, sd_error |-> FALSE, addr |-> first, cnt |-> 0,
               garbled |-> FALSE, dout_avail |-> FALSE, dout |-> 0, din_latch |-> FALSE,
               din_taken |-> FALSE, last_valid |-> FALSE, block |-> blank]
      /\ drv = [pc |-> "out", op |-> "read", sector |-> first, i |-> 0, buffer |-> blank]
      /\ m = blank /\ disk = [s \in Sector |-> blank]
  BY <1>0 DEF CardInit, DriverInit
<1> HIDE DEF blank, first
<1>6. cc \in CardType /\ drv \in DriverType /\ m \in Block /\ disk \in [Sector -> Block]
  BY <1>1, <1>2, <1>3, <1>5 DEF CardType, DriverType
<1>7. /\ apb_state = "idle" /\ dph = {} /\ apbm_paddr = ReadReg /\ apbm_pwdata = 0 /\ ahbls_hrdata = 0
      /\ ReadReg \in Address /\ ~ ReadReg.block
  BY <1>0, Addresses DEF BridgeInit
<1>8. SdTypeOK
  BY <1>0, <1>1, <1>4, <1>6, <1>7
  DEF SdTypeOK, ApbState, CtlType, SpiType, CardType, DriverType
<1>9. BridgeOK
  BY <1>7 DEF BridgeOK, Writing, Reading
<1>10. /\ ctl.ctrlstate = 0 /\ ~ ctl.pready /\ ~ ctl.mw1 /\ ~ ctl.mr1
       /\ drv.pc = "out" /\ drv.i = 0 /\ cc.state = "begin" /\ cc.sd_busy /\ ~ cc.garbled
       /\ spi.state = 0 /\ Quiet
  BY <1>0, <1>5 DEF CtlInit, SpiInit, Quiet
<1>11. CtlOK /\ DriverOK /\ BytesOK
  BY <1>7, <1>10 DEF CtlOK, DriverOK, BytesOK
<1>12. FreeOK /\ CommandOK
  BY <1>7, <1>10 DEF FreeOK, CommandOK, SeenFree
<1> QED  BY <1>8, <1>9, <1>11, <1>12 DEF SdInv

LEMMA SdInvStep == SdInv /\ [Next]_vars => SdInv'
<1>1. ASSUME SdInv, Next PROVE SdInv'
  <2>1. PICK aph : Edge(aph)
    BY <1>1, NextIsEdge
  <2> QED
    BY <1>1, <2>1, TypesKept, BusMoves, CtlKept, DriverKept, BytesKept, FreeKept, CommandKept DEF SdInv
<1>2. ASSUME SdInv, UNCHANGED vars PROVE SdInv'
  BY <1>2 DEF vars, bridgeVars, SdInv, SdTypeOK, BridgeOK, CtlOK, DriverOK, BytesOK, FreeOK, CommandOK,
     Xfer, Transfer, Writing, Reading, Command, Storing, Filled, Free, Quiet, Pending, SeenFree, Outcome,
     Kept, ReadHandshake, ReadAsked, ReadCard, ReadData, ReadServed, ReadRun,
     WriteHandshake, WriteAsked, WriteCard, WriteServed, WriteRun
<1> QED  BY <1>1, <1>2

(* The invariant of the device, the bridge, the card and the driver.       *)
THEOREM SdInvariance == Spec => []SdInv
BY SdInit, SdInvStep, PTL DEF Spec

(* Every register of the device, the bridge, the card's controller and the *)
(* driver keeps its type.                                                  *)
THEOREM SdTypeCorrect == Spec => []SdTypeOK
<1>1. SdInv => SdTypeOK
  BY DEF SdInv
<1> QED  BY <1>1, SdInvariance, PTL

(* No write of the bus is answered and forgotten: the cycle of its strobe  *)
(* finds the device ready, and a command finds device and card free.       *)
THEOREM SdCommandsHeard == Spec => []CommandsHeard
<1>1. SdInv => CommandsHeard
  BY Strobes, CommandTaken DEF SdInv, CtlOK, CommandsHeard, Free
<1> QED  BY <1>1, SdInvariance, PTL

(* The bus and the card never have the memory of the block at once.        *)
THEOREM SdBufferApart == Spec => []BufferApart
<1>1. SdInv => BufferApart
  BY BusIsAlone DEF BufferApart, Quiet
<1> QED  BY <1>1, SdInvariance, PTL

-------------------------------------------------------------------------------
(* The store of blocks, step by step.  Calls change at the driver's steps, *)
(* the card's blocks and what it says of them while the driver waits.      *)
call == IF Calling THEN {[op |-> drv.op, sector |-> drv.sector]} ELSE {}

LEMMA CardRests ==
  ASSUME SdInv, NEW aph, Edge(aph), spi.state = 0
  PROVE  disk' = disk /\ cc'.sd_error = cc.sd_error
<1>1. Quiet /\ cc.state \in {"begin", "idle"} /\ CardMove
  BY CardDoes DEF SdInv, FreeOK
<1>2. Steady
  BY <1>1 DEF CardMove, Started, Delivered, Taken, Ended, Quiet
<1> QED  BY <1>2 DEF Steady

(* Beginning a call.                                                       *)
LEMMA BeginsCall ==
  ASSUME SdInv, NEW aph, Edge(aph), DriverBegins
  PROVE  Store!Begin
<1>1. drv \in DriverType /\ drv' \in DriverType /\ FreeOK
  BY Typed, DriverKept DEF SdInv
<1>2. drv.pc \in {"out", "next"} /\ drv'.pc \in {"wait", "fill", "command"}
  BY <1>1, Begun
<1>3. disk' = disk /\ cc'.sd_error = cc.sd_error
  BY <1>1, <1>2, CardRests DEF FreeOK
<1>4. drv'.op \in {"read", "write"} /\ drv'.sector \in Sector /\ drv'.buffer \in Block
  BY <1>1 DEF DriverType
<1> QED  BY <1>2, <1>3, <1>4 DEF Store!Begin, Calling

(* What a fetch or the end of a wait does to the call.                     *)
LEMMA FetchesOrReturns ==
  ASSUME SdInv, NEW aph, Edge(aph), DriverFetches, ahbls_hrdata = m[drv.i]
  PROVE  Store!Fetch \/ Store!Return
<1>0. /\ drv \in DriverType /\ drv' \in DriverType /\ m \in Block /\ drv.pc = "fetch" /\ drv.op = "read"
      /\ spi.state = 0 /\ Outcome /\ \A j \in 0 .. drv.i - 1 : drv.buffer[j] = m[j]
  BY Typed, DriverKept DEF SdInv, FreeOK, CommandOK, DriverOK, BytesOK, DriverFetches
<1>1. disk' = disk /\ cc'.sd_error = cc.sd_error
  BY <1>0, CardRests
<1>2. drv'.buffer \in Block
  BY <1>0 DEF DriverType
<1>3. CASE drv.i < BlockSize - 1
  <2>1. drv'.pc = "fetch" /\ drv'.op = drv.op /\ drv'.sector = drv.sector
    BY <1>0, <1>3 DEF DriverFetches, DriverType
  <2> QED  BY <1>0, <1>1, <1>2, <2>1 DEF Store!Fetch, Calling
<1>4. CASE drv.i = BlockSize - 1
  <2>1. drv'.pc = "next" /\ drv'.buffer = [drv.buffer EXCEPT ![drv.i] = m[drv.i]]
    BY <1>0, <1>4, SdAssumption DEF DriverFetches, DriverType, Index
  <2>2. \A j \in Index : j = drv.i \/ j \in 0 .. drv.i - 1
    BY <1>4, SdAssumption DEF Index
  <2>3. drv'.buffer = m
    BY <1>0, <2>1, <2>2 DEF DriverType, Block
  <2>4. ~ cc.sd_error => drv'.buffer = disk[drv.sector]
    BY <1>0, <2>3 DEF Outcome
  <2> QED  BY <1>0, <1>1, <1>2, <2>1, <2>4 DEF Store!Return, Calling
<1> QED  BY <1>0, <1>3, <1>4, NextIndex DEF DriverType

LEMMA WaitEnds ==
  ASSUME SdInv, NEW aph, Edge(aph), drv.pc = "done", drv' # drv
  PROVE  Store!Return \/ UNCHANGED <<disk, call, drv.buffer, cc.sd_error>>
<1>0. drv \in DriverType /\ CommandOK /\ FreeOK
  BY Typed DEF SdInv
<1>1. /\ SeenFree /\ Xfer = Load(ReadReg)
      /\ drv' = [drv EXCEPT !.pc = IF drv.op = "read" THEN "fetch" ELSE "next"]
  BY DoneMoves
<1>2. Free /\ Outcome
  <2>1. Free /\ ~ Pending
    BY <1>0, <1>1 DEF FreeOK, Pending, Load, Command, StoreTo
  <2> QED  BY <1>0, <2>1 DEF CommandOK, ReadRun, WriteRun, Free
<1>3. disk' = disk /\ cc'.sd_error = cc.sd_error
  BY <1>2, CardRests DEF Free
<1>4. /\ drv'.pc = (IF drv.op = "read" THEN "fetch" ELSE "next") /\ drv'.buffer = drv.buffer
      /\ drv'.op = drv.op /\ drv'.sector = drv.sector /\ drv.buffer \in Block
  BY <1>0, <1>1 DEF DriverType
<1>5. CASE drv.op = "read"
  BY <1>3, <1>4, <1>5 DEF call, Calling
<1>6. CASE drv.op # "read"
  BY <1>2, <1>3, <1>4, <1>6 DEF Store!Return, Calling, Outcome
<1> QED  BY <1>5, <1>6

(* What the card does to the call that waits for it.                       *)
LEMMA CardJudges ==
  ASSUME SdInv, NEW aph, Edge(aph), drv.pc = "done", drv' = drv
  PROVE  Store!Judge \/ Store!Store \/ UNCHANGED <<disk, call, drv.buffer, cc.sd_error>>
<1>0. /\ drv \in DriverType /\ cc \in CardType /\ cc' \in CardType /\ CardMove /\ FreeOK
      /\ disk \in [Sector -> Block] /\ spi \in SpiType
  BY Typed, CardDoes DEF SdInv
<1>1. call' = call /\ call = {[op |-> drv.op, sector |-> drv.sector]} /\ cc'.sd_error \in BOOLEAN
  BY <1>0 DEF call, Calling, CardType
<1>2. CASE disk' = disk
  <2>1. Store!Judge \/ cc'.sd_error = cc.sd_error
    BY <1>1, <1>2 DEF Store!Judge, call, Calling
  <2> QED  BY <1>1, <1>2, <2>1
<1>3. CASE disk' # disk
  <2>1. Ended /\ disk' = Stored
    BY <1>0, <1>3 DEF CardMove, Steady, Started, Delivered, Taken, Ended
  <2>2. cc.state = "write" /\ cc.cnt = BlockSize /\ disk' = [disk EXCEPT ![cc.addr] = cc.block]
    BY <1>3, <2>1 DEF Stored
  <2>3. spi.state # 0
    BY <1>0, <2>2 DEF FreeOK
  <2>4. drv.op # "read" /\ cc.addr = drv.sector
        /\ \A j \in 0 .. BlockSize - 1 : cc.block[j] = drv.buffer[j]
    <3>1. drv.op # "read"
      BY <2>2, <2>3, Running DEF ReadRun, ReadAsked, ReadServed, ReadCard
    <3> QED  BY <2>2, <2>3, <3>1, Running DEF WriteRun, WriteAsked, WriteServed, WriteCard
  <2>5. cc.block = drv.buffer /\ drv.op = "write"
    <3>1. cc.block \in Block /\ drv.buffer \in Block /\ drv.op = "write"
      BY <1>0, <2>4 DEF CardType, DriverType
    <3>2. \A j \in Index : cc.block[j] = drv.buffer[j]
      BY <2>4 DEF Index
    <3> QED  BY <3>1, <3>2 DEF Block
  <2>6. disk' = [disk EXCEPT ![drv.sector] = drv.buffer]
    BY <2>2, <2>4, <2>5
  <2> QED  BY <1>1, <2>5, <2>6 DEF Store!Store, Calling
<1> QED  BY <1>2, <1>3

LEMMA StoreStep == SdInv /\ [Next]_vars => [Store!StoreNext]_Store!storeVars
<1> DEFINE same == UNCHANGED <<disk, call, drv.buffer, cc.sd_error>>
<1>1. same => UNCHANGED Store!storeVars
  BY DEF Store!storeVars, call
<1>2. ASSUME SdInv, Next PROVE Store!StoreNext \/ same
  <2>0. PICK aph : Edge(aph)
    BY <1>2, NextIsEdge
  <2>1. drv \in DriverType /\ FreeOK
    BY <1>2, Typed DEF SdInv
  <2>2. CASE drv.pc = "done"
    BY <1>2, <2>0, <2>2, WaitEnds, CardJudges DEF Store!StoreNext
  <2>3. CASE drv.pc # "done"
    <3>1. disk' = disk /\ cc'.sd_error = cc.sd_error
      BY <1>2, <2>0, <2>1, <2>3, CardRests DEF FreeOK
    <3>2. CASE DriverBegins
      BY <1>2, <2>0, <3>2, BeginsCall DEF Store!StoreNext
    <3>3. CASE ahbls_hrdata = m[drv.i] /\ DriverFetches
      BY <1>2, <2>0, <3>3, FetchesOrReturns DEF Store!StoreNext
    <3>4. CASE drv' = drv
      BY <3>1, <3>4 DEF call, Calling
    <3>5. CASE DriverFills \/ (drv.pc = "command" /\ drv' = [drv EXCEPT !.pc = "done"])
      <4>1. /\ drv.pc \in {"fill", "command"} /\ drv'.pc \in {"fill", "command", "done"}
            /\ drv'.op = drv.op /\ drv'.sector = drv.sector /\ drv'.buffer = drv.buffer
        BY <2>1, <3>5 DEF DriverFills, DriverType
      <4> QED  BY <3>1, <4>1 DEF call, Calling
    <3>6. CASE DriverWaits
      <4>1. /\ drv.pc = "wait" /\ drv'.pc \in {"wait", "fill", "command"}
            /\ drv'.op = drv.op /\ drv'.sector = drv.sector /\ drv'.buffer = drv.buffer
        BY <2>1, <2>3, <3>6 DEF DriverWaits, Ready, DriverType
      <4> QED  BY <3>1, <4>1 DEF call, Calling
    <3> QED  BY <1>2, <2>0, <3>2, <3>3, <3>4, <3>5, <3>6, DriverMoves DEF DriverMove
  <2> QED  BY <2>2, <2>3
<1>3. UNCHANGED vars => same
  BY DEF vars, bridgeVars, call, Calling
<1> QED  BY <1>1, <1>2, <1>3

(* The device, its driver, the bridge and the card are a store of blocks.  *)
THEOREM SdIsBlockStore == Spec => ImplementsBlockStore
<1>1. Init => Store!StoreInit
  <2> SUFFICES ASSUME Init PROVE Store!StoreInit
    OBVIOUS
  <2>1. SdInv /\ drv.pc = "out"
    BY SdInit DEF Init, DriverInit
  <2>2. disk \in [Sector -> Block] /\ drv.buffer \in Block /\ cc.sd_error \in BOOLEAN
    BY <2>1, Typed DEF DriverType, CardType
  <2> QED  BY <2>1, <2>2 DEF Store!StoreInit, Calling
<1> QED  BY <1>1, StoreStep, SdInvariance, PTL DEF Spec, ImplementsBlockStore, Store!StoreSpec
===============================================================================
