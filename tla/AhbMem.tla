--------------------------------- MODULE AhbMem ---------------------------------
(***************************************************************************)
(* ahb_laur_mem (mem/ahb_laur_mem.v): the AHB-Lite port of the memory, its *)
(* exclusive monitor and, through cache_ctrl, the cache and the memory.    *)
(*                                                                         *)
(* The harts are a bus that presents, whenever it is ready, any transfer   *)
(* of any hart or none: which of them the arbiter picks is AhbArbiter's    *)
(* business.  A step is an edge of the processor clock.                    *)
(***************************************************************************)
EXTENDS CacheWT

CONSTANTS
  Hart,
  NoWord,     (* no address                                                *)
  Access,     (* the byte offset and the size, in lanes, of the accesses   *)
              (* the harts make                                            *)
  Exclusives  (* whether they make exclusive ones                          *)

ASSUME AhbAssumption ==
  Hart # {} /\ NoWord \notin Addr /\ Lane \subseteq Nat /\ Access \subseteq Lane \X (Nat \ {0}) /\ Access # {}
  /\ Exclusives \in BOOLEAN

VARIABLES
  state,           (* 0 idle or reading, 20 to 22 writing, 30 and 31 refusing *)
  r_ahbls_haddr, r_ahbls_hwdata, r_mask, r_ahbls_hexokay,
  w_wr_en,         (* r_dram_wr of ahb_laur_mem                            *)
  r_excl_addr, r_excl_addr_valid,
  (* the bus                                                               *)
  dph,             (* the transfer in its data phase                       *)
  hwdata,          (* the word its master writes                           *)
  result,          (* the word and the verdict the bus returned last       *)
  mw_result        (* the word each hart reserved, as that hart knows it:  *)
                   (* from its exclusive read and its own writes since     *)

portVars == <<state, r_ahbls_haddr, r_ahbls_hwdata, r_mask, r_ahbls_hexokay, w_wr_en,
              r_excl_addr, r_excl_addr_valid>>
busVars == <<dph, hwdata, result, mw_result>>
ahbVars == <<cacheVars, portVars, busVars>>

-------------------------------------------------------------------------------
HAddr == Addr \X Lane                     (* a word, and a byte in it       *)

Transfer == {t \in [op : {"idle", "read", "write"}, hart : Hart, haddr : HAddr,
                    hsize : Nat \ {0}, excl : BOOLEAN] :
               <<t.haddr[2], t.hsize>> \in Access}

Requests ==
  {[op |-> o, hart |-> h, haddr |-> <<a, x[1]>>, hsize |-> x[2], excl |-> e] :
     o \in {"read", "write"}, h \in Hart, a \in Addr, x \in Access, e \in BOOLEAN}

Idle(a) == LET x == CHOOSE x \in Access : TRUE IN
  [op |-> "idle", hart |-> CHOOSE h \in Hart : TRUE, haddr |-> <<a, x[1]>>,
   hsize |-> x[2], excl |-> FALSE]

(* Slip: one lane too many.                                                *)
wmaskWide(t) == t.haddr[2] .. t.haddr[2] + t.hsize

wmask(t) == {l \in Lane : t.haddr[2] <= l /\ l < t.haddr[2] + t.hsize}

(* Exclusive accesses are to whole words.                                  *)
Offered ==
  {t \in Requests : t.excl => Exclusives /\ wmask(t) = Lane} \cup {Idle(a) : a \in Addr}

hready_resp ==
  IF state \in {0, 21} THEN ~ o_busy ELSE state = 31

w_addr(t) == IF state \in {20, 22} THEN r_ahbls_haddr[1] ELSE t.haddr[1]
(* Slip: the lanes of the wrong transfer.                                  *)
w_cache_maskNow(t) == wmask(t)

w_cache_mask(t) == IF state = 0 \/ (state = 22 /\ ~ o_busy) THEN wmask(t) ELSE r_mask

AhbInit ==
  /\ CacheInit
  /\ state = 0 /\ w_wr_en = 0 /\ r_ahbls_hexokay = 1
  /\ r_ahbls_haddr = <<addr, CHOOSE l \in Lane : TRUE>> /\ r_ahbls_hwdata = out /\ r_mask = {}
  /\ r_excl_addr = [h \in Hart |-> r_ahbls_haddr]
  /\ r_excl_addr_valid = [h \in Hart |-> FALSE]
  /\ dph = Idle(addr) /\ hwdata = out /\ result = [data |-> out, ok |-> TRUE]
  /\ mw_result = [h \in Hart |-> out]

-------------------------------------------------------------------------------
(* The address phase of t.                                                 *)
ReadPhase(t) ==
  /\ t.op = "read"
  /\ state' = 0 /\ r_mask' = wmask(t)
  /\ IF t.excl
       THEN /\ r_ahbls_hexokay' = 1
            /\ r_excl_addr' = [r_excl_addr EXCEPT ![t.hart] = t.haddr]
            /\ r_excl_addr_valid' = [r_excl_addr_valid EXCEPT ![t.hart] = TRUE]
       ELSE UNCHANGED <<r_ahbls_hexokay, r_excl_addr, r_excl_addr_valid>>
  /\ UNCHANGED <<r_ahbls_haddr, r_ahbls_hwdata, w_wr_en>>

Reserved(t) == r_excl_addr[t.hart] = t.haddr /\ r_excl_addr_valid[t.hart]

(* Slip: a write ends its own hart's reservation only.                     *)
ClearOwnReservation(t) == [r_excl_addr_valid EXCEPT ![t.hart] = FALSE]

ClearReservations(t) ==
  [h \in Hart |-> IF r_excl_addr[h] = t.haddr THEN FALSE ELSE r_excl_addr_valid[h]]

WritePhase(t) ==
  /\ t.op = "write" /\ (t.excl => Reserved(t))
  /\ state' = 22 /\ r_ahbls_haddr' = t.haddr /\ r_mask' = wmask(t) /\ r_ahbls_hwdata' = hwdata
  /\ r_excl_addr_valid' = ClearReservations(t)
  /\ r_ahbls_hexokay' = IF t.excl THEN 1 ELSE r_ahbls_hexokay
  /\ UNCHANGED <<w_wr_en, r_excl_addr>>

RefusePhase(t) ==
  /\ t.op = "write" /\ t.excl /\ ~ Reserved(t)
  /\ state' = 30 /\ r_ahbls_hexokay' = 0
  /\ UNCHANGED <<r_ahbls_haddr, r_ahbls_hwdata, r_mask, w_wr_en, r_excl_addr, r_excl_addr_valid>>

IdlePhase(t) ==
  /\ t.op = "idle"
  /\ state' = 0
  /\ UNCHANGED <<r_ahbls_haddr, r_ahbls_hwdata, r_mask, r_ahbls_hexokay, w_wr_en,
                 r_excl_addr, r_excl_addr_valid>>

NewReq(t) ==
  /\ state \in {0, 31} \/ (state = 21 /\ ~ o_busy)
  /\ ReadPhase(t) \/ WritePhase(t) \/ RefusePhase(t) \/ IdlePhase(t)

(* Slips: the word of the address phase is kept; the write is not begun.   *)
TakeDataEarly ==
  /\ state = 22
  /\ w_wr_en' = 1 /\ state' = 20
  /\ UNCHANGED <<r_ahbls_haddr, r_ahbls_hwdata, r_mask, r_ahbls_hexokay, r_excl_addr,
                 r_excl_addr_valid>>

TakeDataOnly ==
  /\ state = 22
  /\ r_ahbls_hwdata' = hwdata /\ state' = 20
  /\ UNCHANGED <<r_ahbls_haddr, r_mask, r_ahbls_hexokay, w_wr_en, r_excl_addr,
                 r_excl_addr_valid>>

(* The first cycle of the data phase of a write: its word is on the bus.   *)
TakeData ==
  /\ state = 22
  /\ r_ahbls_hwdata' = hwdata /\ w_wr_en' = 1 /\ state' = 20
  /\ UNCHANGED <<r_ahbls_haddr, r_mask, r_ahbls_hexokay, r_excl_addr, r_excl_addr_valid>>

WriteStarts ==
  /\ state = 20
  /\ IF o_busy THEN state' = 21 /\ w_wr_en' = 0 ELSE UNCHANGED <<state, w_wr_en>>
  /\ UNCHANGED <<r_ahbls_haddr, r_ahbls_hwdata, r_mask, r_ahbls_hexokay, r_excl_addr,
                 r_excl_addr_valid>>

WriteWaits == state = 21 /\ o_busy /\ UNCHANGED portVars

Refuse ==
  /\ state = 30
  /\ r_ahbls_hexokay' = 0 /\ state' = 31
  /\ UNCHANGED <<r_ahbls_haddr, r_ahbls_hwdata, r_mask, w_wr_en, r_excl_addr, r_excl_addr_valid>>

PortStep(t) == NewReq(t) \/ TakeData \/ WriteStarts \/ WriteWaits \/ Refuse

(* The bus: when it is ready, the transfer in its data phase is over, and  *)
(* its master has the word read or the verdict of an exclusive access.     *)
Known(w) ==
  IF dph.op = "read" /\ dph.excl THEN o_data
  ELSE IF dph.op = "write" /\ ~ dph.excl /\ dph.haddr[1] = r_excl_addr[dph.hart][1]
    THEN MergeLanes(w, hwdata, wmask(dph))
  ELSE w

BusStep(t, d) ==
  IF hready_resp
    THEN /\ dph' = t /\ hwdata' = IF t.op = "write" THEN d ELSE hwdata
         /\ result' = [data |-> IF dph.op = "read" THEN o_data ELSE result.data,
                       ok |-> IF dph.op # "idle" /\ dph.excl THEN r_ahbls_hexokay = 1
                                                            ELSE result.ok]
         /\ mw_result' = [mw_result EXCEPT ![dph.hart] = Known(@)]
    ELSE UNCHANGED busVars

AhbEdge(t, d) ==
  /\ ~ hready_resp => t.op = "idle"
  /\ t.op # "write" => d = hwdata
  /\ PortStep(t) /\ BusStep(t, d)
  /\ CacheEdge(t.op = "read", w_wr_en = 1, w_addr(t), r_ahbls_hwdata, w_cache_mask(t))

AhbNext == \E t \in Offered, d \in Word : AhbEdge(t, d)

AhbSpec == AhbInit /\ [][AhbNext]_ahbVars

(* The memory answers in the end.                                          *)
AhbFairSpec ==
  /\ AhbSpec
  /\ WF_ahbVars(AhbNext) /\ SF_ahbVars(AhbNext /\ phase' # phase)

-------------------------------------------------------------------------------
AhbTypeOK ==
  /\ CacheTypeOK
  /\ state \in {0, 20, 21, 22, 30, 31} /\ w_wr_en \in Bit /\ r_ahbls_hexokay \in Bit
  /\ r_ahbls_haddr \in HAddr /\ r_ahbls_hwdata \in Word /\ r_mask \in SUBSET Lane
  /\ r_excl_addr \in [Hart -> HAddr] /\ r_excl_addr_valid \in [Hart -> BOOLEAN]
  /\ dph \in Transfer /\ hwdata \in Word /\ result \in [data : Word, ok : BOOLEAN]
  /\ mw_result \in [Hart -> Word]

(* The port promises what SharedMemory does.  A write the port has begun   *)
(* counts from the edge at which the cache takes it.                       *)
Begun == state = 21 \/ (state = 20 /\ o_busy)

BusTransfer(t, d) ==
  [op |-> t.op, hart |-> t.hart, word |-> t.haddr[1], mask |-> wmask(t),
   excl |-> t.excl, data |-> d]

Shared ==
  INSTANCE SharedMemory WITH
    store <- CachedStore,
    resv <- [h \in Hart |-> IF r_excl_addr_valid[h] THEN r_excl_addr[h][1] ELSE NoWord],
    xfer <- BusTransfer(dph, hwdata),
    ok <- state \notin {30, 31},
    done <- Begun

ImplementsSharedMemory == Shared!SMSpec

(* An exclusive write that is granted finds the word its hart knows from   *)
(* its exclusive read: the read and the write are one atomic step.         *)
AtomicReadModifyWrite ==
  dph.op = "write" /\ dph.excl /\ state \in {22, 20} /\ ~ Begun =>
    CachedStore[dph.haddr[1]] = mw_result[dph.hart]

(* No hart waits for ever for a transfer to end.                           *)
TransfersEnd == ~ hready_resp ~> hready_resp
===============================================================================
