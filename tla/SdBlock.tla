-------------------------------- MODULE SdBlock --------------------------------
(***************************************************************************)
(* The SD block device (sd/sd.v) behind the APB bridge, between the card's *)
(* controller (sd/sd_spi.vhd, external: the states of it that sd.v sees)   *)
(* and NuttX's driver (mmcsd_read and mmcsd_write of the Ethernet patch),  *)
(* which holds a lock, so that one call at a time uses the device.         *)
(*                                                                         *)
(* A step is an edge of the clock.                                         *)
(***************************************************************************)
EXTENDS Integers, ApbBridge

CONSTANTS
  Sector,     (* sector numbers                                            *)
  Byte,       (* 0 is one                                                  *)
  BlockSize   (* SDSPI_BLOCKSIZE                                           *)

ASSUME SdAssumption ==
  /\ BlockSize \in Nat \ {0} /\ Sector \subseteq Nat /\ Sector # {}
  /\ Byte \subseteq Nat /\ 0 \in Byte

Index == 0 .. BlockSize - 1
Block == [Index -> Byte]

VARIABLES
  ctl,   (* sd.v: the registers the bus uses                               *)
  spi,   (* sd.v: the registers of the transfers with the card             *)
  m, mout,   (* sd.v: the memory of a block and its output register        *)
  cc,    (* the card's controller                                          *)
  disk,  (* the card                                                       *)
  drv    (* the driver's call                                              *)

vars == <<bridgeVars, ctl, spi, m, mout, cc, disk, drv>>

-------------------------------------------------------------------------------
(* Addresses of the device: its registers and its memory of a block.       *)
ReadReg == [block |-> FALSE, off |-> 0]
WriteReg == [block |-> FALSE, off |-> 4]
Mem(i) == [block |-> TRUE, off |-> i]
Address == {ReadReg, WriteReg} \cup {Mem(i) : i \in Index}

(* What the driver tests of the status word.  Slip: without the card's     *)
(* busy line.                                                              *)
sdspi_statusState == IF spi.state # 0 THEN 1 ELSE 0

sdspi_status == IF cc.sd_busy \/ spi.state # 0 THEN 1 ELSE 0

(* The registers the bus uses.  A transfer is taken in state 0 and ready   *)
(* for one cycle.                                                          *)
Hears == ctl.ctrlstate = 0 /\ ~ ctl.pready

Rest ==
  /\ ctl.ctrlstate = 0 /\ (ctl.pready \/ ~ (bus_write \/ bus_read))
  /\ ctl' = [ctl EXCEPT !.pready = FALSE]

TakeCommand ==
  /\ Hears /\ bus_write /\ ~ apbm_paddr.block
  /\ ctl' = [ctl EXCEPT !.sdsbaddr = apbm_pwdata,
                        !.ctrlstate = IF apbm_paddr = ReadReg THEN 2 ELSE 12]

TakeByte ==
  /\ Hears /\ bus_write /\ apbm_paddr.block
  /\ ctl' = [ctl EXCEPT !.ctrlstate = 5, !.mw1 = TRUE,
                        !.midata1 = apbm_pwdata, !.maddr1 = apbm_paddr.off]

TakeStatus ==
  /\ Hears /\ bus_read /\ ~ apbm_paddr.block
  /\ ctl' = [ctl EXCEPT !.ctrlstate = 1]

TakeRead ==
  /\ Hears /\ bus_read /\ apbm_paddr.block
  /\ ctl' = [ctl EXCEPT !.ctrlstate = 15, !.mr1 = TRUE, !.maddr1 = apbm_paddr.off, !.prdata = 0]

GiveStatus ==
  /\ ctl.ctrlstate = 1
  /\ ctl' = [ctl EXCEPT !.ctrlstate = 0, !.pready = TRUE, !.prdata = sdspi_status]

ByteWritten ==
  /\ ctl.ctrlstate = 5
  /\ ctl' = [ctl EXCEPT !.ctrlstate = 6, !.mw1 = FALSE, !.maddr1 = @ + 1]

ByteRead ==
  /\ ctl.ctrlstate = 15
  /\ ctl' = [ctl EXCEPT !.ctrlstate = 16, !.mr1 = FALSE]

GiveByte ==
  /\ ctl.ctrlstate = 16
  /\ ctl' = [ctl EXCEPT !.ctrlstate = 0, !.pready = TRUE, !.prdata = mout, !.maddr1 = @ + 1]

(* A command lasts the one cycle in which the other machine may see it.    *)
Done ==
  /\ ctl.ctrlstate \in {2, 12, 6}
  /\ ctl' = [ctl EXCEPT !.ctrlstate = 0, !.pready = TRUE]

CtlStep ==
  \/ Rest \/ TakeCommand \/ TakeByte \/ TakeStatus \/ TakeRead
  \/ GiveStatus \/ ByteWritten \/ ByteRead \/ GiveByte \/ Done

CtlInit ==
  ctl = [ctrlstate |-> 0, pready |-> FALSE, prdata |-> 0, sdsbaddr |-> 0,
         maddr1 |-> 0, midata1 |-> 0, mw1 |-> FALSE, mr1 |-> FALSE]

(* The memory has one port; the bus goes first.                            *)
maddr == IF ctl.mr1 \/ ctl.mw1 THEN ctl.maddr1 ELSE spi.maddr2
mw == ctl.mw1 \/ spi.mw2
midata == IF ctl.mw1 THEN ctl.midata1 ELSE spi.midata2

MemoryStep ==
  /\ m' = IF mw THEN [m EXCEPT ![maddr] = midata] ELSE m
  /\ mout' = m[maddr]

-------------------------------------------------------------------------------
(* The transfers with the card: a byte at a time, each with a handshake.   *)
SpiIdle ==
  /\ spi.state = 0
  /\ spi' = [spi EXCEPT !.oecnt = 0,
                        !.state = IF cc.sd_busy THEN 0
                                  ELSE IF ctl.ctrlstate = 2 THEN 1
                                  ELSE IF ctl.ctrlstate = 12 THEN 10 ELSE 0]

ReadAsk == spi.state = 1 /\ spi' = [spi EXCEPT !.sdsrd = TRUE, !.state = 2]

ReadByte ==
  /\ spi.state = 2
  /\ spi' = IF cc.dout_avail THEN [spi EXCEPT !.outbyte = cc.dout, !.state = 3] ELSE spi

ReadKeep ==
  /\ spi.state = 3
  /\ spi' = [spi EXCEPT !.sdsdout_taken = TRUE, !.oecnt = @ + 1, !.mw2 = TRUE,
                        !.maddr2 = spi.oecnt, !.midata2 = spi.outbyte, !.state = 4]

ReadHeld ==
  /\ spi.state = 4 /\ cc.dout_avail
  /\ spi' = [spi EXCEPT !.mw2 = FALSE]

(* Slip: the handshake of the byte is not ended.                           *)
ReadNextHeld ==
  /\ spi.state = 4 /\ ~ cc.dout_avail /\ spi.oecnt < BlockSize
  /\ spi' = [spi EXCEPT !.mw2 = FALSE, !.sdsrd = TRUE, !.state = 2]

ReadNext ==
  /\ spi.state = 4 /\ ~ cc.dout_avail /\ spi.oecnt < BlockSize
  /\ spi' = [spi EXCEPT !.mw2 = FALSE, !.sdsdout_taken = FALSE, !.sdsrd = TRUE, !.state = 2]

ReadEnd ==
  /\ spi.state = 4 /\ ~ cc.dout_avail /\ spi.oecnt = BlockSize
  /\ spi' = [spi EXCEPT !.mw2 = FALSE, !.sdsdout_taken = FALSE, !.sdsrd = FALSE,
                        !.state = IF cc.sd_busy THEN 4 ELSE 0]

(* Slip: the memory's output is used a cycle early.                        *)
WriteNextHasty ==
  /\ spi.state = 10 /\ spi.oecnt < BlockSize
  /\ spi' = [spi EXCEPT !.maddr2 = spi.oecnt, !.state = 11]

(* Slip: a byte more than the block has.                                   *)
WriteNextOn ==
  /\ spi.state = 10 /\ spi.oecnt <= BlockSize
  /\ spi' = [spi EXCEPT !.maddr2 = spi.oecnt, !.state = 16]

WriteNext ==
  /\ spi.state = 10 /\ spi.oecnt < BlockSize
  /\ spi' = [spi EXCEPT !.maddr2 = spi.oecnt, !.state = 16]

WriteEnd ==
  /\ spi.state = 10 /\ spi.oecnt = BlockSize
  /\ spi' = IF cc.sd_busy THEN [spi EXCEPT !.sdswr = FALSE]
            ELSE [spi EXCEPT !.sdswr = FALSE, !.oecnt = 0, !.state = 0]

WriteFetch == spi.state = 16 /\ spi' = [spi EXCEPT !.state = 11]

WriteGive ==
  /\ spi.state = 11
  /\ spi' = [spi EXCEPT !.sdswr = TRUE, !.sdsdin = mout, !.sdsdin_valid = TRUE, !.state = 12]

WriteTaken ==
  /\ spi.state = 12
  /\ spi' = IF cc.din_taken THEN [spi EXCEPT !.sdsdin_valid = FALSE, !.state = 13] ELSE spi

WriteCount ==
  /\ spi.state = 13
  /\ spi' = IF cc.din_taken THEN spi ELSE [spi EXCEPT !.oecnt = @ + 1, !.state = 10]

SpiStep ==
  \/ SpiIdle \/ ReadAsk \/ ReadByte \/ ReadKeep \/ ReadHeld \/ ReadNext \/ ReadEnd
  \/ WriteNext \/ WriteEnd \/ WriteFetch \/ WriteGive \/ WriteTaken \/ WriteCount

SpiInit ==
  spi = [state |-> 0, oecnt |-> 0, sdsrd |-> FALSE, sdswr |-> FALSE, sdsdin |-> 0,
         sdsdin_valid |-> FALSE, sdsdout_taken |-> FALSE, mw2 |-> FALSE, maddr2 |-> 0,
         midata2 |-> 0, outbyte |-> 0]

-------------------------------------------------------------------------------
(* The card's controller.  In "begin" it talks to the card before it is    *)
(* free, in "finish" it awaits the end of the command.                     *)
CardSignals(c, delivers, takes) ==
  [c EXCEPT !.sd_busy = cc.state # "idle" \/ spi.sdsrd \/ spi.sdswr,
            !.dout_avail = delivers \/ (cc.dout_avail /\ ~ spi.sdsdout_taken),
            !.din_latch = spi.sdsdin_valid /\ spi.sdswr /\ (~ cc.last_valid \/ (cc.din_latch /\ ~ takes)),
            !.din_taken = spi.sdsdin_valid /\ spi.sdswr /\ cc.last_valid /\ (cc.din_taken \/ takes),
            !.last_valid = spi.sdsdin_valid]

CardSteps(c) == cc' = CardSignals(c, FALSE, FALSE)

CardWaits ==
  /\ cc.state \in {"begin", "read", "write"}
  /\ CardSteps(cc) /\ UNCHANGED disk

CardFree ==
  /\ cc.state = "begin"
  /\ CardSteps([cc EXCEPT !.state = "idle"]) /\ UNCHANGED disk

CardIdle ==
  /\ cc.state = "idle"
  /\ CardSteps(IF spi.sdsrd \/ spi.sdswr
                 THEN [cc EXCEPT !.state = IF spi.sdsrd THEN "read" ELSE "write",
                                 !.sd_error = FALSE, !.addr = ctl.sdsbaddr, !.cnt = 0]
                 ELSE cc)
  /\ UNCHANGED disk

(* A byte of the sector, or what the wire made of it.                      *)
CardDelivers ==
  /\ cc.state = "read" /\ spi.sdsrd /\ cc.cnt < BlockSize
  /\ ~ cc.dout_avail /\ ~ spi.sdsdout_taken
  /\ \E b \in Byte :
       cc' = CardSignals([cc EXCEPT !.dout = b, !.cnt = @ + 1,
                                    !.garbled = @ \/ b # disk[cc.addr][cc.cnt]], TRUE, FALSE)
  /\ UNCHANGED disk

CardTakes ==
  /\ cc.state = "write" /\ spi.sdswr /\ cc.cnt < BlockSize /\ cc.din_latch
  /\ cc' = CardSignals([cc EXCEPT !.block[cc.cnt] = spi.sdsdin, !.cnt = @ + 1], FALSE, TRUE)
  /\ UNCHANGED disk

(* What the card keeps of a command that is over.                          *)
Over == [cc EXCEPT !.state = "finish", !.garbled = FALSE, !.block = [i \in Index |-> 0]]

Stored ==
  IF cc.state = "write" /\ cc.cnt = BlockSize THEN [disk EXCEPT ![cc.addr] = cc.block] ELSE disk

(* The command is complete, or was given up.                               *)
CardEnds ==
  /\ cc.state \in {"read", "write"} /\ ~ cc.garbled
  /\ cc.cnt = BlockSize \/ ~ (spi.sdsrd \/ spi.sdswr)
  /\ CardSteps(Over)
  /\ disk' = Stored

(* The card refuses the command, before any byte or after the last: it     *)
(* does not accept a block or is too long in writing it, or the CRC of a   *)
(* block read is wrong.                                                    *)
CardRefuses ==
  /\ cc.state \in {"read", "write"} /\ cc.cnt \in {0, BlockSize}
  /\ CardSteps([Over EXCEPT !.sd_error = TRUE])
  /\ disk' \in {disk, Stored}

CardFinishes ==
  /\ cc.state = "finish"
  /\ CardSteps(IF spi.sdsrd \/ spi.sdswr THEN cc ELSE [cc EXCEPT !.state = "begin"])
  /\ UNCHANGED disk

CardMoves ==
  \/ CardFree \/ CardIdle \/ CardDelivers \/ CardTakes \/ CardEnds \/ CardRefuses \/ CardFinishes

CardInit ==
  cc = [state |-> "begin", sd_busy |-> TRUE, sd_error |-> FALSE, addr |-> CHOOSE s \in Sector : TRUE,
        cnt |-> 0, garbled |-> FALSE, dout_avail |-> FALSE, dout |-> 0, din_latch |-> FALSE, din_taken |-> FALSE,
        last_valid |-> FALSE, block |-> [i \in Index |-> 0]]

-------------------------------------------------------------------------------
(* The driver.  pc is the loop it is in: "out" of a call, at the "wait"    *)
(* before a block, at the bytes to "fill" or "fetch", at the "command", at *)
(* the wait until it is "done", or at the "next" block of the same call.   *)
Load(a) == [wr |-> FALSE, addr |-> a, data |-> 0]
StoreTo(a, d) == [wr |-> TRUE, addr |-> a, data |-> d]

(* The access of the bus a loop of the driver makes.                       *)
Command == StoreTo(IF drv.op = "read" THEN ReadReg ELSE WriteReg, drv.sector)

Access ==
  {t \in {Load(ReadReg), Load(Mem(drv.i)), StoreTo(Mem(drv.i), drv.buffer[drv.i]), Command} :
     \/ drv.pc \in {"wait", "done"} /\ t = Load(ReadReg)
     \/ drv.pc = "fetch" /\ t = Load(Mem(drv.i))
     \/ drv.pc = "fill" /\ t = StoreTo(Mem(drv.i), drv.buffer[drv.i])
     \/ drv.pc = "command" /\ t = Command}

Ready(op) == IF op = "read" THEN "command" ELSE "fill"

(* mmcsd_read and mmcsd_write begin a block: the first of a call waits for *)
(* the device, the next ones go on with the sector that follows.           *)
DriverBegins ==
  \E op \in {"read", "write"}, s \in Sector, d \in Block :
    /\ op = "read" => d = drv.buffer
    /\ \E pc \in {"wait", Ready(op)} :
         /\ drv.pc \in {"out", "next"}
         /\ pc = "wait" \/ (drv.pc = "next" /\ op = drv.op /\ s = drv.sector + 1)
         /\ drv' = [drv EXCEPT !.op = op, !.sector = s, !.buffer = d, !.i = 0, !.pc = pc]

(* A store ends for the program when the bus takes its address.            *)
DriverFills ==
  /\ drv.pc = "fill"
  /\ drv' = IF drv.i < BlockSize - 1 THEN [drv EXCEPT !.i = @ + 1]
            ELSE [drv EXCEPT !.i = 0, !.pc = "command"]

(* Slip: a write is not waited for before the next block.                  *)
DriverCommandsPosted ==
  drv.pc = "command" /\ drv' = [drv EXCEPT !.pc = IF drv.op = "read" THEN "done" ELSE "next"]

DriverCommands == drv.pc = "command" /\ drv' = [drv EXCEPT !.pc = "done"]

DriverLoads == drv.pc \in {"wait", "done", "fetch"} /\ UNCHANGED drv

(* An address phase ends at this edge, if no load is under way.            *)
DriverAsks ==
  /\ Access # {} /\ ahbls_hready_resp /\ \A t \in dph : t.wr
  /\ DriverFills \/ DriverCommands \/ DriverLoads

(* A load ends with its word.                                              *)
Loaded == ahbls_hready_resp /\ \E t \in dph : ~ t.wr

DriverWaits ==
  /\ drv.pc \in {"wait", "done"}
  /\ drv' = IF ahbls_hrdata # 0 THEN drv
            ELSE [drv EXCEPT !.pc = IF drv.pc = "wait" THEN Ready(drv.op)
                                    ELSE IF drv.op = "read" THEN "fetch" ELSE "next"]

DriverFetches ==
  /\ drv.pc = "fetch"
  /\ drv' = IF drv.i < BlockSize - 1
              THEN [drv EXCEPT !.buffer[drv.i] = ahbls_hrdata, !.i = @ + 1]
              ELSE [drv EXCEPT !.buffer[drv.i] = ahbls_hrdata, !.i = 0, !.pc = "next"]

(* Between two accesses the program may take any time.                     *)
DriverProceeds ==
  \/ Loaded /\ (DriverWaits \/ DriverFetches)
  \/ DriverBegins
  \/ ~ Loaded /\ UNCHANGED drv

DriverInit ==
  drv = [pc |-> "out", op |-> "read", sector |-> CHOOSE s \in Sector : TRUE, i |-> 0,
         buffer |-> [i \in Index |-> 0]]

-------------------------------------------------------------------------------
Device(aph) ==
  /\ BridgeStep(aph, ctl.pready, FALSE, ctl.prdata)
  /\ CtlStep /\ SpiStep /\ MemoryStep

Card == CardWaits \/ CardMoves

Next ==
  /\ Card
  /\ \/ DriverAsks /\ Device(Access)
     \/ DriverProceeds /\ Device({})

Init ==
  /\ BridgeInit(ReadReg) /\ CtlInit /\ SpiInit /\ CardInit /\ DriverInit
  /\ m = [i \in Index |-> 0] /\ mout = 0
  /\ disk = [s \in Sector |-> [i \in Index |-> 0]]

Spec == Init /\ [][Next]_vars

(* The card answers, and the program asks, in the end.                     *)
FairSpec ==
  /\ Spec /\ WF_vars(Next)
  /\ WF_vars(CardMoves /\ Next)
  /\ WF_vars(DriverAsks /\ Card /\ Device(Access))

-------------------------------------------------------------------------------
SdTypeOK ==
  /\ apb_state \in ApbState /\ apbm_paddr \in Address /\ apbm_pwdata \in Byte \cup Sector
  /\ ahbls_hrdata \in Byte \cup {0, 1}
  /\ dph = {} \/ \E t \in [wr : BOOLEAN, addr : Address, data : Byte \cup Sector] : dph = {t}
  /\ ctl \in [ctrlstate : {0, 1, 2, 5, 6, 12, 15, 16}, pready : BOOLEAN, prdata : Byte \cup {0, 1},
              sdsbaddr : Sector \cup {0}, maddr1 : 0 .. BlockSize, midata1 : Byte, mw1 : BOOLEAN,
              mr1 : BOOLEAN]
  /\ spi \in [state : {0, 1, 2, 3, 4, 10, 11, 12, 13, 16}, oecnt : 0 .. BlockSize, sdsrd : BOOLEAN,
              sdswr : BOOLEAN, sdsdin : Byte, sdsdin_valid : BOOLEAN, sdsdout_taken : BOOLEAN,
              mw2 : BOOLEAN, maddr2 : Index, midata2 : Byte, outbyte : Byte]
  /\ m \in Block /\ mout \in Byte /\ disk \in [Sector -> Block]
  /\ cc \in [state : {"begin", "idle", "read", "write", "finish"}, sd_busy : BOOLEAN,
             sd_error : BOOLEAN, addr : Sector, cnt : 0 .. BlockSize, garbled : BOOLEAN, dout_avail : BOOLEAN,
             dout : Byte, din_latch : BOOLEAN, din_taken : BOOLEAN, last_valid : BOOLEAN, block : Block]
  /\ drv \in [pc : {"out", "wait", "fill", "command", "done", "fetch", "next"}, op : {"read", "write"},
              sector : Sector, i : Index, buffer : Block]

(* No write of the bus is answered and forgotten: the one cycle in which   *)
(* it is strobed finds the device ready to take it, and a command is given *)
(* only to a card and a device that are free.                              *)
CommandsHeard ==
  /\ bus_write => ctl.ctrlstate = 0 /\ ~ ctl.pready
  /\ ctl.ctrlstate \in {2, 12} => spi.state = 0 /\ ~ cc.sd_busy

(* The bus and the card never have the memory of the block at once.        *)
BufferApart == ctl.mr1 \/ ctl.mw1 => spi.state = 0 /\ ~ spi.mw2

(* The device, its driver and the card are a store of blocks: unless the   *)
(* card refused, a block read is the one in the sector and a block written *)
(* is there when the call returns; blocks change whole, and no other does. *)
Calling == drv.pc \notin {"out", "next"}

Store == INSTANCE BlockStore WITH
  call <- IF Calling THEN {[op |-> drv.op, sector |-> drv.sector]} ELSE {},
  buffer <- drv.buffer,
  refused <- cc.sd_error

ImplementsBlockStore == Store!StoreSpec

(* Every call returns, but for those the card refuses before any byte.     *)
CallsReturn == Calling ~> ~ Calling \/ (cc.sd_error /\ cc.cnt = 0)

(* sd_spi.vhd of sd_busy: "Goes inactive when Rd or Wr is dropped, or when *)
(* command is complete, whichever is later".                               *)
BusyEnds == cc.sd_busy ~> ~ cc.sd_busy
===============================================================================
