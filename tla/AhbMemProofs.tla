----------------------------- MODULE AhbMemProofs -----------------------------
(***************************************************************************)
(* Proofs about the memory port on the bus, for every set of harts and     *)
(* addresses and every shape of the cache.  The port adds to the cache's   *)
(* invariant where a transfer is (PortOK), what the cache does for it      *)
(* (ServedOK), and what a reservation stands for (ReservedOK).             *)
(***************************************************************************)
EXTENDS AhbMem, CacheWTProofs

(* The transfers begin at one byte of their words, or none is exclusive:   *)
(* the monitor compares addresses of bytes.                                *)
OneOffset == Exclusives => \A x, y \in Access : x[1] = y[1]

(* Where the port is with the transfer in its data phase.                  *)
PortOK ==
  /\ state = 0 <=> dph.op # "write"
  /\ state \in {30, 31} => dph.excl
  /\ dph.excl => Exclusives /\ wmask(dph) = Lane
  /\ dph.op # "idle" /\ dph.excl => (r_ahbls_hexokay = 1 <=> state \notin {30, 31})
  /\ w_wr_en = (IF state = 20 THEN 1 ELSE 0)
  /\ state \in {20, 21, 22} => r_ahbls_haddr = dph.haddr /\ r_mask = wmask(dph)
  /\ state \in {20, 21} => r_ahbls_hwdata = hwdata

(* What the cache is doing for it.                                         *)
ServedOK ==
  /\ state \in {22, 30, 31} => cstate = 0
  /\ state = 20 => cstate \in {0, 10}
  /\ state = 21 => cstate \in {0, 10, 11}
  /\ state = 0 => cstate \in {0, 1, 2, 3, 4}
  /\ dph.op = "read" => awaited /\ r_dram_addr = dph.haddr[1]

(* The exclusive read of h has not returned its word yet.                  *)
Reserving(h) == dph.op = "read" /\ dph.excl /\ dph.hart = h

(* A hart whose reservation stands knows the word, or is being given it,   *)
(* and no write to it is under way.                                        *)
ReservedOK ==
  \A h \in Hart :
    /\ Reserving(h) => r_excl_addr[h] = dph.haddr
    /\ r_excl_addr_valid[h] =>
         /\ Exclusives /\ \E x \in Access : r_excl_addr[h][2] = x[1]
         /\ Reserving(h) \/ mw_result[h] = CachedStore[r_excl_addr[h][1]]
         /\ state \in {20, 21, 22} => r_excl_addr[h] # dph.haddr

AInv ==
  /\ CInv /\ AhbTypeOK /\ PortOK /\ ServedOK
  /\ OneOffset => ReservedOK /\ AtomicReadModifyWrite
-------------------------------------------------------------------------------
(* What the bus offers is a transfer; an exclusive one is of a whole word. *)
LEMMA OfferedFacts ==
  ASSUME NEW t \in Offered
  PROVE  /\ t \in Transfer
         /\ t.op \in {"idle", "read", "write"} /\ t.hart \in Hart /\ t.haddr \in HAddr
         /\ t.haddr[1] \in Addr /\ t.excl \in BOOLEAN /\ wmask(t) \in SUBSET Lane
         /\ \E x \in Access : t.haddr[2] = x[1]
         /\ t.excl => Exclusives /\ wmask(t) = Lane
<1> USE AhbAssumption DEF HAddr
<1>1. wmask(t) \in SUBSET Lane
  BY DEF wmask
<1>2. CASE t \in Requests /\ (t.excl => Exclusives /\ wmask(t) = Lane)
  BY <1>1, <1>2 DEF Requests, Transfer
<1>3. ASSUME NEW a \in Addr, t = Idle(a)
      PROVE  t \in Transfer /\ ~ t.excl /\ \E x \in Access : t.haddr[2] = x[1]
  <2> DEFINE x == CHOOSE x \in Access : TRUE
  <2>1. x \in Access /\ x[1] \in Lane /\ x[2] \in Nat \ {0} /\ <<x[1], x[2]>> = x
    OBVIOUS
  <2>2. (CHOOSE h \in Hart : TRUE) \in Hart
    OBVIOUS
  <2>3. t = [op |-> "idle", hart |-> CHOOSE h \in Hart : TRUE, haddr |-> <<a, x[1]>>,
             hsize |-> x[2], excl |-> FALSE]
    BY <1>3 DEF Idle
  <2> HIDE DEF x
  <2>4. t.haddr[2] = x[1] /\ <<t.haddr[2], t.hsize>> = x /\ ~ t.excl
    BY <2>1, <2>3
  <2> QED  BY <2>1, <2>2, <2>3, <2>4 DEF Transfer
<1>4. \/ t \in Requests /\ (t.excl => Exclusives /\ wmask(t) = Lane)
      \/ \E a \in Addr : t = Idle(a)
  BY DEF Offered
<1>5. t \in Transfer /\ (t.excl => Exclusives /\ wmask(t) = Lane)
      /\ \E x \in Access : t.haddr[2] = x[1]
  BY <1>2, <1>3, <1>4 DEF Requests
<1> QED  BY <1>1, <1>5 DEF Transfer

(* The port asks the cache for nothing it may not be asked.                *)
LEMMA PortIsClient ==
  ASSUME AhbTypeOK, NEW t \in Offered, NEW d \in Word, AhbEdge(t, d)
  PROVE  /\ (t.op = "read") \in BOOLEAN /\ (w_wr_en = 1) \in BOOLEAN
         /\ w_addr(t) \in Addr /\ r_ahbls_hwdata \in Word
         /\ w_cache_mask(t) \in SUBSET Lane
         /\ CacheNext
<1>1. /\ (t.op = "read") \in BOOLEAN /\ (w_wr_en = 1) \in BOOLEAN
      /\ w_addr(t) \in Addr /\ r_ahbls_hwdata \in Word /\ w_cache_mask(t) \in SUBSET Lane
  BY OfferedFacts DEF AhbTypeOK, HAddr, w_addr, w_cache_mask
<1>2. CacheEdge(t.op = "read", w_wr_en = 1, w_addr(t), r_ahbls_hwdata, w_cache_mask(t))
  BY DEF AhbEdge
<1> QED  BY <1>1, <1>2 DEF CacheNext

(* The memory the harts know changes when the cache takes the port's write. *)
LEMMA PortStore ==
  ASSUME AInv, NEW t \in Offered, NEW d \in Word, AhbEdge(t, d)
  PROVE  /\ CInv'
         /\ CachedStore \in [Addr -> Word]
         /\ CachedStore' = IF state = 20 /\ ~ o_busy
                             THEN WriteWord(CachedStore, dph.haddr[1], hwdata, wmask(dph))
                             ELSE CachedStore
<1>0. CInv /\ AhbTypeOK /\ PortOK
  BY DEF AInv
<1>1. CInv'
  BY <1>0, PortIsClient, CacheInvStep
<1>2. CachedStore \in [Addr -> Word]
  BY <1>0, WriteWordFacts DEF CachedStore, CInv, CacheTypeOK, WMTypeOK
<1>3. CachedStore' = IF Taking(w_wr_en = 1) /\ ~ (t.op = "read")
                       THEN WriteWord(CachedStore, w_addr(t), r_ahbls_hwdata, w_cache_mask(t))
                       ELSE CachedStore
  BY <1>0, PortIsClient, EdgeStore DEF AhbEdge
<1>4. state = 20 => t.op = "idle" /\ w_wr_en = 1 /\ w_addr(t) = dph.haddr[1]
                    /\ r_ahbls_hwdata = hwdata /\ w_cache_mask(t) = wmask(dph)
  BY <1>0 DEF AhbEdge, hready_resp, PortOK, w_addr, w_cache_mask
<1>5. state # 20 => w_wr_en # 1
  BY <1>0 DEF PortOK
<1>6. ~ o_busy => cstate \in {0, 1}
  BY <1>0 DEF o_busy
<1> QED  BY <1>1, <1>2, <1>3, <1>4, <1>5, <1>6 DEF Taking

(* What the cache does at an edge, as the port sees it.                    *)
LEMMA PortServed ==
  ASSUME AInv, NEW t \in Offered, NEW d \in Word, AhbEdge(t, d)
  PROVE  /\ o_busy => awaited' = awaited /\ r_dram_addr' = r_dram_addr
         /\ ~ o_busy => awaited' = (t.op = "read")
         /\ ~ o_busy /\ t.op = "read" => cstate' = 1 /\ r_dram_addr' = t.haddr[1]
         /\ ~ o_busy /\ t.op # "read" /\ state # 20 => cstate' = 0
         /\ ~ o_busy /\ state = 20 => cstate' = 10
         /\ o_busy /\ cstate \in {1, 2, 3, 4} => cstate' \in {0, 2, 3, 4}
         /\ o_busy /\ cstate \in {10, 11} => cstate' \in {0, 10, 11}
         /\ o_busy /\ cstate = 10 => cstate' \in {10, 11}
<1>0. CInv /\ AhbTypeOK /\ PortOK
  BY DEF AInv
<1>1. CacheEdge(t.op = "read", w_wr_en = 1, w_addr(t), r_ahbls_hwdata, w_cache_mask(t))
  BY DEF AhbEdge
<1>2. (w_wr_en = 1) <=> state = 20
  BY <1>0 DEF PortOK
<1>3. t.op = "read" => w_addr(t) = t.haddr[1]
  BY DEF AhbEdge, hready_resp, w_addr
<1>4. state = 20 => t.op # "read"
  BY DEF AhbEdge, hready_resp
<1>5. cstate \in {0, 1, 2, 3, 4, 10, 11}
  BY <1>0 DEF CInv, CacheTypeOK
<1> QED
  BY <1>1, <1>2, <1>3, <1>4, <1>5 DEF CacheEdge, CtrlStep, CheckNewReq, TakeRead, TakeWrite,
     TakeNone, ReadMiss, ReadTaken, ReadBack, Filled, WriteTaken, WriteBack, o_busy
(* A turn of the bus: t goes to its data phase, as the port records it.    *)
Turns(t) ==
  /\ dph' = t
  /\ \/ t.op \in {"idle", "read"} /\ state' = 0
     \/ t.op = "write" /\ (t.excl => Reserved(t)) /\ state' = 22
        /\ r_ahbls_haddr' = t.haddr /\ r_mask' = wmask(t)
     \/ t.op = "write" /\ t.excl /\ ~ Reserved(t) /\ state' = 30
  /\ t.excl /\ t.op # "idle" => (r_ahbls_hexokay' = 1 <=> state' # 30)
  /\ w_wr_en' = w_wr_en

LEMMA ReadyTurns ==
  ASSUME AInv, NEW t \in Offered, NEW d \in Word, AhbEdge(t, d), hready_resp
  PROVE  /\ Turns(t) /\ NewReq(t) /\ BusStep(t, d) /\ ~ o_busy /\ state \in {0, 21, 31}
<1>1. state \in {0, 20, 21, 22, 30, 31}
  BY DEF AInv, AhbTypeOK
<1>2. ~ o_busy /\ state \in {0, 21, 31}
  BY <1>1 DEF AInv, ServedOK, hready_resp, o_busy
<1>3. NewReq(t) /\ BusStep(t, d)
  BY <1>2 DEF AhbEdge, PortStep, TakeData, WriteStarts, WriteWaits, Refuse
<1>4. dph' = t
  BY <1>3 DEF BusStep
<1> QED
  BY <1>2, <1>3, <1>4 DEF NewReq, ReadPhase, WritePhase, RefusePhase, IdlePhase, Turns

(* Between turns a write is taken and begun, or refused, and a read goes   *)
(* on in the cache.                                                        *)
LEMMA UnreadyWaits ==
  ASSUME AInv, NEW t \in Offered, NEW d \in Word, AhbEdge(t, d), ~ hready_resp
  PROVE  /\ UNCHANGED busVars /\ UNCHANGED <<r_excl_addr, r_excl_addr_valid>> /\ t.op = "idle"
         /\ \/ state = 0 /\ o_busy /\ state' = 0 /\ w_wr_en' = w_wr_en
               /\ r_ahbls_hexokay' = r_ahbls_hexokay
            \/ TakeData \/ WriteStarts \/ WriteWaits \/ Refuse
<1>1. /\ UNCHANGED busVars /\ t.op = "idle" /\ PortStep(t)
  BY DEF AhbEdge, BusStep
<1>2. CASE NewReq(t)
  BY <1>1, <1>2 DEF NewReq, ReadPhase, WritePhase, RefusePhase, IdlePhase, hready_resp
<1>3. CASE TakeData \/ WriteStarts \/ WriteWaits \/ Refuse
  BY <1>1, <1>3 DEF TakeData, WriteStarts, WriteWaits, Refuse, portVars
<1> QED  BY <1>1, <1>2, <1>3 DEF PortStep

-------------------------------------------------------------------------------
(* Every edge keeps the types.                                             *)
LEMMA AhbTypes ==
  ASSUME AInv, NEW t \in Offered, NEW d \in Word, AhbEdge(t, d)
  PROVE  AhbTypeOK'
<1> USE OfferedFacts DEF AhbTypeOK, Bit
<1>0. CInv /\ AhbTypeOK
  BY DEF AInv
<1>1. CacheTypeOK'
  BY PortStore DEF CInv
<1>2. PortStep(t) /\ BusStep(t, d)
  BY DEF AhbEdge
<1>3. /\ state' \in {0, 20, 21, 22, 30, 31} /\ w_wr_en' \in Bit /\ r_ahbls_hexokay' \in Bit
      /\ r_ahbls_haddr' \in HAddr /\ r_ahbls_hwdata' \in Word /\ r_mask' \in SUBSET Lane
  BY <1>0, <1>2 DEF PortStep, NewReq, ReadPhase, WritePhase, RefusePhase, IdlePhase, TakeData,
     WriteStarts, WriteWaits, Refuse, portVars
<1>4. r_excl_addr' \in [Hart -> HAddr] /\ r_excl_addr_valid' \in [Hart -> BOOLEAN]
  BY <1>0, <1>2 DEF PortStep, NewReq, ReadPhase, WritePhase, RefusePhase, IdlePhase, TakeData,
     WriteStarts, WriteWaits, Refuse, portVars, ClearReservations
<1>5. o_data \in Word
  BY <1>0 DEF o_data, CacheTypeOK, Entry, WMTypeOK
<1>6. dph' \in Transfer /\ hwdata' \in Word
  BY <1>0, <1>2 DEF BusStep, busVars
<1>7. result' \in [data : Word, ok : BOOLEAN]
  <2>1. CASE hready_resp
    <3>1. result' = [data |-> IF dph.op = "read" THEN o_data ELSE result.data,
                     ok |-> IF dph.op # "idle" /\ dph.excl THEN r_ahbls_hexokay = 1 ELSE result.ok]
      BY <1>2, <2>1 DEF BusStep
    <3>2. result.data \in Word /\ result.ok \in BOOLEAN
      BY <1>0
    <3>3. (IF dph.op # "idle" /\ dph.excl THEN r_ahbls_hexokay = 1 ELSE result.ok) \in BOOLEAN
      BY <3>2, Zenon
    <3> QED  BY <1>5, <3>1, <3>2, <3>3, Zenon
  <2>2. CASE ~ hready_resp
    BY <1>0, <1>2, <2>2 DEF BusStep, busVars
  <2> QED  BY <2>1, <2>2
<1>8. mw_result' \in [Hart -> Word]
  <2>1. \A w \in Word : Known(w) \in Word
    BY <1>0, <1>5 DEF Known, MergeLanes, Word
  <2>2. dph.hart \in Hart
    BY <1>0 DEF Transfer
  <2> QED  BY <1>0, <1>2, <2>1, <2>2 DEF BusStep, busVars
<1> QED  BY <1>1, <1>3, <1>4, <1>6, <1>7, <1>8

(* Every edge keeps the port with its transfer.                            *)
LEMMA PortKept ==
  ASSUME AInv, NEW t \in Offered, NEW d \in Word, AhbEdge(t, d)
  PROVE  PortOK'
<1>0. AhbTypeOK /\ PortOK
  BY DEF AInv
<1>1. CASE hready_resp
  <2>1. Turns(t) /\ state \in {0, 21, 31}
    BY <1>1, ReadyTurns
  <2> QED  BY <1>0, <2>1, OfferedFacts DEF PortOK, Turns, wmask
<1>2. CASE ~ hready_resp
  <2>1. UNCHANGED busVars
    BY <1>2, UnreadyWaits
  <2>2. CASE state = 0
    BY <1>0, <1>2, <2>1, <2>2, UnreadyWaits DEF PortOK, busVars, wmask, TakeData, WriteStarts,
       WriteWaits, Refuse
  <2>3. CASE TakeData \/ WriteStarts \/ WriteWaits \/ Refuse
    BY <1>0, <2>1, <2>3 DEF PortOK, busVars, wmask, TakeData, WriteStarts, WriteWaits, Refuse,
       portVars
  <2> QED  BY <1>2, <2>2, <2>3, UnreadyWaits
<1> QED  BY <1>1, <1>2

(* Every edge keeps the cache at work for the transfer.                    *)
LEMMA ServedKept ==
  ASSUME AInv, NEW t \in Offered, NEW d \in Word, AhbEdge(t, d)
  PROVE  ServedOK'
<1>0. CInv /\ AhbTypeOK /\ PortOK /\ ServedOK
  BY DEF AInv
<1>1. CASE hready_resp
  <2>1. Turns(t) /\ state \in {0, 21, 31} /\ ~ o_busy
    BY <1>1, ReadyTurns
  <2>2. CASE t.op = "read"
    <3>1. cstate' = 1 /\ r_dram_addr' = t.haddr[1] /\ awaited'
      BY <2>1, <2>2, PortServed
    <3> QED  BY <2>1, <2>2, <3>1 DEF ServedOK, Turns
  <2>3. CASE t.op # "read"
    <3>1. cstate' = 0
      BY <2>1, <2>3, PortServed
    <3> QED  BY <2>1, <2>3, <3>1 DEF ServedOK, Turns
  <2> QED  BY <2>2, <2>3
<1>2. CASE ~ hready_resp
  <2>1. UNCHANGED busVars /\ t.op = "idle"
    BY <1>2, UnreadyWaits
  <2>2. CASE state = 0 /\ o_busy /\ state' = 0
    BY <1>0, <2>1, <2>2, PortServed DEF ServedOK, busVars, o_busy
  <2>3. CASE TakeData \/ WriteStarts \/ WriteWaits \/ Refuse
    <3>1. dph' = dph /\ dph.op = "write"
      BY <1>0, <2>1, <2>3 DEF PortOK, busVars, TakeData, WriteStarts, WriteWaits, Refuse
    <3>2. \/ state = 22 /\ state' = 20 /\ cstate = 0
          \/ state = 20 /\ (o_busy => state' = 21 /\ cstate = 10) /\ (~ o_busy => state' = 20)
          \/ state = 21 /\ o_busy /\ state' = 21 /\ cstate \in {10, 11}
          \/ state = 30 /\ state' = 31 /\ cstate = 0
      BY <1>0, <2>3 DEF ServedOK, TakeData, WriteStarts, WriteWaits, Refuse, portVars, o_busy
    <3>3. (cstate = 0 => ~ o_busy) /\ (cstate \in {10, 11} => o_busy)
      BY DEF o_busy
    <3>4. state' \in {20, 31} => cstate' \in {0, 10} /\ (state' = 31 => cstate' = 0)
      BY <2>1, <3>2, <3>3, PortServed
    <3>5. state' = 21 => cstate' \in {0, 10, 11}
      BY <2>1, <3>2, <3>3, PortServed
    <3> QED  BY <3>1, <3>2, <3>4, <3>5 DEF ServedOK
  <2> QED  BY <1>2, <2>2, <2>3, UnreadyWaits
<1> QED  BY <1>1, <1>2
-------------------------------------------------------------------------------
(* A read returns the word the memory holds.                               *)
LEMMA ReturnsLatest ==
  ASSUME AInv, hready_resp, dph.op = "read"
  PROVE  o_data = CachedStore[dph.haddr[1]]
<1>1. state = 0 /\ awaited /\ r_dram_addr = dph.haddr[1]
  BY DEF AInv, PortOK, ServedOK
<1>2. ~ o_busy
  BY <1>1 DEF hready_resp
<1>3. ReadsLatest
  BY AnswersLatest DEF AInv
<1> QED  BY <1>1, <1>2, <1>3 DEF ReadsLatest

(* Where all begin at one byte, two addresses of a word are one.           *)
LEMMA SameWord ==
  ASSUME AInv, OneOffset, NEW h \in Hart, r_excl_addr_valid[h]
  PROVE  /\ r_excl_addr[h][1] \in Addr
         /\ r_excl_addr[h][1] = dph.haddr[1] => r_excl_addr[h] = dph.haddr
<1>1. r_excl_addr[h] \in HAddr /\ dph.haddr \in HAddr
  BY DEF AInv, AhbTypeOK, Transfer
<1>2. Exclusives /\ \E x \in Access : r_excl_addr[h][2] = x[1]
  BY DEF AInv, ReservedOK
<1>3. \E x \in Access : dph.haddr[2] = x[1]
  BY DEF AInv, AhbTypeOK, Transfer
<1>4. r_excl_addr[h][2] = dph.haddr[2]
  BY <1>2, <1>3 DEF OneOffset
<1> QED  BY <1>1, <1>4 DEF HAddr

(* At a turn whoever has a reservation knows its word.                     *)
LEMMA KnownAtTurn ==
  ASSUME AInv, OneOffset, NEW t \in Offered, NEW d \in Word, AhbEdge(t, d), hready_resp,
         NEW h \in Hart, r_excl_addr_valid[h]
  PROVE  mw_result'[h] = CachedStore[r_excl_addr[h][1]]
<1>0. /\ Reserving(h) => r_excl_addr[h] = dph.haddr
      /\ Reserving(h) \/ mw_result[h] = CachedStore[r_excl_addr[h][1]]
      /\ state \in {20, 21, 22} => r_excl_addr[h] # dph.haddr
  BY DEF AInv, ReservedOK
<1>1. mw_result' = [mw_result EXCEPT ![dph.hart] = Known(@)] /\ mw_result \in [Hart -> Word]
  BY ReadyTurns DEF BusStep, AInv, AhbTypeOK
<1>2. CASE dph.hart # h
  BY <1>0, <1>1, <1>2 DEF Reserving
<1>3. CASE dph.hart = h /\ dph.op = "read" /\ dph.excl
  BY <1>0, <1>1, <1>3, ReturnsLatest DEF Known, Reserving
<1>4. CASE dph.hart = h /\ ~ (dph.op = "read" /\ dph.excl)
  <2>1. ~ (dph.op = "write" /\ ~ dph.excl /\ dph.haddr[1] = r_excl_addr[h][1])
    <3>1. dph.op = "write" /\ ~ dph.excl => state = 21
      BY ReadyTurns DEF AInv, PortOK
    <3> QED  BY <1>0, <3>1, SameWord
  <2> QED  BY <1>0, <1>1, <1>4, <2>1 DEF Known, Reserving
<1> QED  BY <1>2, <1>3, <1>4

(* What an address phase does to the reservation of h.                     *)
LEMMA ReservationTurns ==
  ASSUME AInv, NEW t \in Offered, NEW d \in Word, AhbEdge(t, d), hready_resp, NEW h \in Hart
  PROVE  \/ /\ t.op = "read" /\ t.excl /\ t.hart = h
            /\ r_excl_addr'[h] = t.haddr /\ r_excl_addr_valid'[h]
         \/ /\ ~ (t.op = "read" /\ t.excl /\ t.hart = h) /\ r_excl_addr'[h] = r_excl_addr[h]
            /\ r_excl_addr_valid'[h] <=> /\ r_excl_addr_valid[h]
                                         /\ state' = 22 => r_excl_addr[h] # t.haddr
<1>1. r_excl_addr \in [Hart -> HAddr] /\ r_excl_addr_valid \in [Hart -> BOOLEAN]
  BY DEF AInv, AhbTypeOK
<1>2. NewReq(t)
  BY ReadyTurns
<1>3. CASE ReadPhase(t)
  BY <1>1, <1>3, OfferedFacts DEF ReadPhase
<1>4. CASE WritePhase(t)
  BY <1>1, <1>4 DEF WritePhase, ClearReservations
<1>5. CASE RefusePhase(t) \/ IdlePhase(t)
  BY <1>5 DEF RefusePhase, IdlePhase
<1> QED  BY <1>2, <1>3, <1>4, <1>5 DEF NewReq

(* Every edge keeps the reservations good.                                 *)
LEMMA ReservedKept ==
  ASSUME AInv, OneOffset, NEW t \in Offered, NEW d \in Word, AhbEdge(t, d)
  PROVE  ReservedOK' /\ AtomicReadModifyWrite'
<1>0. AhbTypeOK /\ PortOK /\ ServedOK /\ ReservedOK /\ AtomicReadModifyWrite
  BY DEF AInv
<1>1. CASE hready_resp
  <2>1. Turns(t) /\ CachedStore' = CachedStore
    BY <1>1, ReadyTurns, PortStore
  <2>2. ASSUME NEW h \in Hart
        PROVE  /\ Reserving(h)' => r_excl_addr'[h] = dph'.haddr
               /\ r_excl_addr_valid'[h] =>
                    /\ Exclusives /\ \E x \in Access : r_excl_addr'[h][2] = x[1]
                    /\ Reserving(h)' \/ mw_result'[h] = CachedStore'[r_excl_addr'[h][1]]
                    /\ state' \in {20, 21, 22} => r_excl_addr'[h] # dph'.haddr
    <3>1. CASE t.op = "read" /\ t.excl /\ t.hart = h /\ r_excl_addr'[h] = t.haddr
      BY <2>1, <3>1, OfferedFacts DEF Turns, Reserving
    <3>2. CASE /\ ~ (t.op = "read" /\ t.excl /\ t.hart = h) /\ r_excl_addr'[h] = r_excl_addr[h]
               /\ r_excl_addr_valid'[h] <=> /\ r_excl_addr_valid[h]
                                            /\ state' = 22 => r_excl_addr[h] # t.haddr
      BY <1>0, <1>1, <2>1, <3>2, KnownAtTurn DEF Turns, Reserving, ReservedOK
    <3> QED  BY <1>1, <3>1, <3>2, ReservationTurns
  <2>3. AtomicReadModifyWrite'
    <3> SUFFICES ASSUME dph'.op = "write", dph'.excl, state' \in {22, 20}
                 PROVE  CachedStore'[dph'.haddr[1]] = mw_result'[dph'.hart]
      BY DEF AtomicReadModifyWrite
    <3>1. r_excl_addr[t.hart] = t.haddr /\ r_excl_addr_valid[t.hart] /\ dph' = t
      BY <2>1 DEF Turns, Reserved
    <3> QED  BY <1>1, <2>1, <3>1, KnownAtTurn, OfferedFacts
  <2> QED  BY <2>2, <2>3 DEF ReservedOK
<1>2. CASE ~ hready_resp
  <2>1. /\ dph' = dph /\ mw_result' = mw_result /\ r_excl_addr' = r_excl_addr
        /\ r_excl_addr_valid' = r_excl_addr_valid /\ hwdata' = hwdata
    BY <1>2, UnreadyWaits DEF busVars
  <2>2. \/ state \in {0, 21, 30} /\ state' \notin {20, 22} /\ (state' = 21 => state = 21)
        \/ state = 22 /\ state' = 20
        \/ state = 20 /\ o_busy /\ state' = 21
        \/ state = 20 /\ ~ o_busy /\ state' = 20
    BY <1>2, UnreadyWaits DEF TakeData, WriteStarts, WriteWaits, Refuse, portVars
  <2>3. ASSUME NEW h \in Hart, r_excl_addr_valid[h]
        PROVE  CachedStore'[r_excl_addr[h][1]] = CachedStore[r_excl_addr[h][1]]
    <3>1. CASE state = 20 /\ ~ o_busy
      <4>1. r_excl_addr[h][1] \in Addr /\ r_excl_addr[h][1] # dph.haddr[1]
        BY <1>0, <2>3, <3>1, SameWord DEF ReservedOK
      <4>2. dph.haddr[1] \in Addr /\ hwdata \in Word
        BY <1>0 DEF AhbTypeOK, Transfer, HAddr
      <4> QED  BY <3>1, <4>1, <4>2, PortStore, WriteWordFacts
    <3>2. CASE ~ (state = 20 /\ ~ o_busy)
      BY <3>2, PortStore
    <3> QED  BY <3>1, <3>2
  <2>4. ReservedOK'
    BY <1>0, <2>1, <2>2, <2>3 DEF ReservedOK, Reserving
  <2>5. AtomicReadModifyWrite'
    <3>1. CASE state = 22 /\ state' = 20
      <4>1. CachedStore' = CachedStore
        BY <3>1, PortStore
      <4> QED  BY <1>0, <2>1, <3>1, <4>1 DEF AtomicReadModifyWrite, Begun
    <3>2. CASE state = 20 /\ ~ o_busy /\ state' = 20
      <4>1. Begun'
        BY <3>2, PortServed DEF Begun, o_busy
      <4> QED  BY <4>1 DEF AtomicReadModifyWrite
    <3>3. CASE state' \notin {20, 22}
      BY <3>3 DEF AtomicReadModifyWrite
    <3> QED  BY <2>2, <3>1, <3>2, <3>3
  <2> QED  BY <2>4, <2>5
<1> QED  BY <1>1, <1>2
-------------------------------------------------------------------------------
LEMMA IdleFacts ==
  ASSUME NEW a \in Addr
  PROVE  Idle(a) \in Transfer /\ Idle(a).op = "idle" /\ ~ Idle(a).excl
<1>1. Idle(a) \in Offered
  BY DEF Offered
<1> QED  BY <1>1, OfferedFacts DEF Idle

LEMMA AhbInvInit == AhbInit => AInv
<1> SUFFICES ASSUME AhbInit PROVE AInv
  OBVIOUS
<1>1. CInv
  BY CacheInvInit DEF AhbInit
<1>2. addr \in Addr /\ out \in Word
  BY <1>1 DEF CInv, CacheTypeOK, WMTypeOK
<1>3. (CHOOSE l \in Lane : TRUE) \in Lane
  BY AhbAssumption
<1>4. dph \in Transfer /\ dph.op = "idle" /\ ~ dph.excl /\ cstate = 0
  BY <1>2, IdleFacts DEF AhbInit, CacheInit
<1>5. AhbTypeOK
  <2>1. r_ahbls_haddr \in HAddr
    BY <1>2, <1>3 DEF AhbInit, HAddr
  <2>2. state = 0 /\ w_wr_en = 0 /\ r_ahbls_hexokay = 1 /\ r_ahbls_hwdata = out /\ r_mask = {}
        /\ hwdata = out
    BY DEF AhbInit
  <2>3. r_excl_addr \in [Hart -> HAddr] /\ r_excl_addr_valid \in [Hart -> BOOLEAN]
        /\ mw_result \in [Hart -> Word]
    BY <1>2, <2>1 DEF AhbInit
  <2>4. result \in [data : Word, ok : BOOLEAN]
    BY <1>2 DEF AhbInit
  <2> QED  BY <1>1, <1>2, <1>4, <2>1, <2>2, <2>3, <2>4 DEF AhbTypeOK, CInv, Bit
<1>6. PortOK /\ ServedOK
  BY <1>4 DEF AhbInit, PortOK, ServedOK
<1>7. ReservedOK /\ AtomicReadModifyWrite
  BY <1>4 DEF AhbInit, ReservedOK, Reserving, AtomicReadModifyWrite
<1> QED  BY <1>1, <1>5, <1>6, <1>7 DEF AInv

LEMMA AhbInvStep == AInv /\ [AhbNext]_ahbVars => AInv'
<1> SUFFICES ASSUME AInv, [AhbNext]_ahbVars PROVE AInv'
  OBVIOUS
<1>1. CASE AhbNext
  <2> PICK t \in Offered, d \in Word : AhbEdge(t, d)
    BY <1>1 DEF AhbNext
  <2>1. CInv' /\ AhbTypeOK' /\ PortOK' /\ ServedOK'
    BY PortStore, AhbTypes, PortKept, ServedKept
  <2>2. OneOffset => ReservedOK' /\ AtomicReadModifyWrite'
    BY ReservedKept
  <2> QED  BY <2>1, <2>2 DEF AInv, OneOffset
<1>2. CASE UNCHANGED ahbVars
  <2>1. CInv'
    BY <1>2, CacheInvStep DEF ahbVars, AInv
  <2>2. o_busy' = o_busy /\ CachedStore' = CachedStore
    BY <1>2 DEF ahbVars, cacheVars, ctrlVars, wmVars, o_busy, c_oe, CachedStore, w_dram_busy
  <2>3. AhbTypeOK' /\ PortOK' /\ ServedOK'
    BY <1>2, <2>1 DEF ahbVars, cacheVars, ctrlVars, portVars, busVars, AInv, AhbTypeOK, PortOK,
       ServedOK, wmask, CInv
  <2>4. OneOffset => ReservedOK' /\ AtomicReadModifyWrite'
    BY <1>2, <2>2 DEF ahbVars, portVars, busVars, AInv, ReservedOK, Reserving,
       AtomicReadModifyWrite, Begun
  <2> QED  BY <2>1, <2>3, <2>4 DEF AInv, OneOffset
<1> QED  BY <1>1, <1>2

(* The inductive invariant holds in every reachable state.                 *)
THEOREM AhbInvariance == AhbSpec => []AInv
BY AhbInvInit, AhbInvStep, PTL DEF AhbSpec

(* Every register of the port, the bus and the cache keeps its type.       *)
THEOREM AhbTypeCorrect == AhbSpec => []AhbTypeOK
<1>1. AInv => AhbTypeOK  BY DEF AInv
<1> QED  BY <1>1, AhbInvariance, PTL

(* The port is a client of the cache, so that what the cache promises any  *)
(* client (CacheWTProofs) it keeps for the harts (ahb_laur_mem.v:243).     *)
THEOREM AhbUsesCache == AhbSpec => CacheSpec
<1>1. AhbInit => CacheInit
  BY DEF AhbInit
<1>2. AInv /\ [AhbNext]_ahbVars => [CacheNext]_cacheVars
  BY PortIsClient DEF AhbNext, AInv, ahbVars
<1> QED  BY <1>1, <1>2, AhbInvariance, PTL DEF AhbSpec, CacheSpec

(* Where every access begins at one byte of its word, an exclusive write   *)
(* that is granted finds the word its hart reserved: no write of any hart  *)
(* came between (ahb_laur_mem.v:86-107).  Run ahb_bytes shows the          *)
(* condition needed.                                                       *)
THEOREM AhbAtomic == ASSUME OneOffset PROVE AhbSpec => []AtomicReadModifyWrite
<1>1. AInv => AtomicReadModifyWrite  BY DEF AInv
<1> QED  BY <1>1, AhbInvariance, PTL

-------------------------------------------------------------------------------
(* The transfers and the reservations of the abstract port.                *)
Resv == [h \in Hart |-> IF r_excl_addr_valid[h] THEN r_excl_addr[h][1] ELSE NoWord]

LEMMA TransferMapped ==
  ASSUME NEW t \in Offered, NEW d \in Word
  PROVE  BusTransfer(t, d) \in Shared!Transfer
BY OfferedFacts DEF BusTransfer, Shared!Transfer, Shared!Word, Word

(* An address phase grants and reserves what the abstract port does.       *)
LEMMA GrantedMapped ==
  ASSUME AInv, OneOffset, NEW t \in Offered, NEW d \in Word, t.op = "write"
  PROVE  Shared!Granted(BusTransfer(t, d)) <=> (t.excl => Reserved(t))
<1>1. r_excl_addr[t.hart] \in HAddr /\ t.haddr \in HAddr /\ t.hart \in Hart
      /\ r_excl_addr_valid[t.hart] \in BOOLEAN
  BY OfferedFacts DEF AInv, AhbTypeOK
<1>2. r_excl_addr_valid[t.hart] => r_excl_addr[t.hart][2] = t.haddr[2]
  BY <1>1, OfferedFacts DEF AInv, ReservedOK, OneOffset
<1>3. t.haddr[1] # NoWord
  BY AhbAssumption, OfferedFacts
<1>4. Reserved(t) <=> Resv[t.hart] = t.haddr[1]
  BY <1>1, <1>2, <1>3 DEF Reserved, Resv, HAddr
<1> QED  BY <1>4 DEF Shared!Granted, BusTransfer, Resv
(* A turn of the bus is a turn of the abstract port.                       *)
LEMMA TurnRefines ==
  ASSUME AInv, AInv', OneOffset, NEW t \in Offered, NEW d \in Word, AhbEdge(t, d), hready_resp
  PROVE  Shared!SMNext
<1>0. PortOK /\ AhbTypeOK /\ hwdata' \in Word
  BY DEF AInv, AhbTypeOK
<1>1. Turns(t) /\ BusStep(t, d) /\ state \in {0, 21, 31} /\ CachedStore' = CachedStore
  BY ReadyTurns, PortStore
<1>2. PICK w \in Word : w = hwdata'
  BY <1>0
<1>3. PICK x \in Shared!Transfer : x = BusTransfer(t, w)
  BY TransferMapped
<1>4. (dph.op = "write" /\ state \notin {30, 31}) => Begun
  BY <1>0, <1>1 DEF PortOK, Begun
<1>5. result' = [data |-> IF dph.op = "read" THEN CachedStore[dph.haddr[1]] ELSE result.data,
                 ok |-> IF dph.op # "idle" /\ dph.excl THEN state \notin {30, 31} ELSE result.ok]
  <2>1. dph.op = "read" => o_data = CachedStore[dph.haddr[1]]
    BY ReturnsLatest
  <2>2. dph.op # "idle" /\ dph.excl => (r_ahbls_hexokay = 1 <=> state \notin {30, 31})
    BY <1>0 DEF PortOK
  <2>3. result' = [data |-> IF dph.op = "read" THEN o_data ELSE result.data,
                   ok |-> IF dph.op # "idle" /\ dph.excl THEN r_ahbls_hexokay = 1 ELSE result.ok]
    BY <1>1 DEF BusStep
  <2> QED  BY <2>1, <2>2, <2>3, Zenon
<1>6. BusTransfer(dph, hwdata)' = x
  BY <1>1, <1>2, <1>3 DEF Turns, BusTransfer, wmask
<1>7. (state \notin {30, 31})' = (t.op = "write" => Shared!Granted(x))
  BY <1>0, <1>1, <1>3, GrantedMapped DEF Turns
<1>8. Begun' = FALSE
  BY <1>1 DEF Turns, Begun
<1>9. Resv' = Shared!Reservations(x)
  <2>1. ASSUME NEW h \in Hart
        PROVE  (IF r_excl_addr_valid'[h] THEN r_excl_addr'[h][1] ELSE NoWord)
                 = IF t.op = "read" /\ t.excl /\ h = t.hart THEN t.haddr[1]
                   ELSE IF Shared!Granted(x) /\ Resv[h] = t.haddr[1] THEN NoWord
                   ELSE Resv[h]
    <3>1. CASE t.op = "read" /\ t.excl /\ t.hart = h
      BY <2>1, <3>1, ReservationTurns
    <3>2. CASE ~ (t.op = "read" /\ t.excl /\ t.hart = h)
      <4>1. r_excl_addr'[h] = r_excl_addr[h]
            /\ (r_excl_addr_valid'[h] <=> r_excl_addr_valid[h] /\ (state' = 22 => r_excl_addr[h] # t.haddr))
        BY <2>1, <3>2, ReservationTurns
      <4>2. state' = 22 <=> Shared!Granted(x)
        BY <1>0, <1>1, <1>3, GrantedMapped DEF Turns, Shared!Granted, BusTransfer
      <4>3. r_excl_addr_valid[h] => (r_excl_addr[h] = t.haddr <=> r_excl_addr[h][1] = t.haddr[1])
        <5>1. r_excl_addr[h] \in HAddr /\ t.haddr \in HAddr
          BY <1>0, <2>1, OfferedFacts DEF AhbTypeOK
        <5>2. r_excl_addr_valid[h] => r_excl_addr[h][2] = t.haddr[2]
          BY <2>1, OfferedFacts DEF AInv, ReservedOK, OneOffset
        <5> QED  BY <5>1, <5>2 DEF HAddr
      <4>4. t.haddr[1] # NoWord /\ Resv[h] = IF r_excl_addr_valid[h] THEN r_excl_addr[h][1] ELSE NoWord
        BY <2>1, AhbAssumption, OfferedFacts DEF Resv
      <4> QED  BY <3>2, <4>1, <4>2, <4>3, <4>4
    <3> QED  BY <3>1, <3>2
  <2> QED  BY <1>3, <2>1 DEF Resv, Shared!Reservations, BusTransfer
<1>10. Shared!Turn(x)
  BY <1>1, <1>4, <1>5, <1>6, <1>7, <1>8, <1>9, <1>3 DEF Shared!Turn, BusTransfer, Resv
<1> QED  BY <1>10 DEF Shared!SMNext
(* Between turns the cache takes the write, or the abstract port rests.    *)
LEMMA WaitRefines ==
  ASSUME AInv, NEW t \in Offered, NEW d \in Word, AhbEdge(t, d), ~ hready_resp
  PROVE  Shared!Commit \/ UNCHANGED Shared!smVars
<1>0. PortOK /\ ServedOK
  BY DEF AInv
<1>1. /\ UNCHANGED <<dph, hwdata, result, r_excl_addr, r_excl_addr_valid>>
      /\ BusTransfer(dph, hwdata)' = BusTransfer(dph, hwdata)
      /\ Resv' = Resv
  BY UnreadyWaits DEF busVars, BusTransfer, wmask, Resv
<1>2. CASE state = 20 /\ ~ o_busy
  <2>1. CachedStore' = WriteWord(CachedStore, dph.haddr[1], hwdata, wmask(dph))
    BY <1>2, PortStore
  <2>2. state' = 20
    BY <1>2, UnreadyWaits DEF TakeData, WriteStarts, WriteWaits, Refuse
  <2>3. ~ Begun /\ Begun'
    BY <1>2, <2>2, PortServed DEF Begun, o_busy
  <2>4. dph.op = "write"
    BY <1>0, <1>2 DEF PortOK
  <2> QED
    BY <1>1, <1>2, <2>1, <2>2, <2>3, <2>4 DEF Shared!Commit, BusTransfer, Resv,
       Shared!WriteWord, Shared!MergeLanes, WriteWord, MergeLanes
<1>3. CASE ~ (state = 20 /\ ~ o_busy)
  <2>1. CachedStore' = CachedStore
    BY <1>3, PortStore
  <2>2. \/ state = 0 /\ state' = 0
        \/ state = 22 /\ state' = 20 /\ ~ o_busy'
        \/ state = 20 /\ o_busy /\ state' = 21
        \/ state = 21 /\ state' = 21
        \/ state = 30 /\ state' = 31
    <3>1. state = 22 => ~ o_busy'
      <4>1. state = 22 => cstate' = 0
        BY <1>0, UnreadyWaits, PortServed DEF ServedOK, o_busy
      <4> QED  BY <4>1 DEF o_busy
    <3> QED
      BY <1>3, <3>1, UnreadyWaits DEF TakeData, WriteStarts, WriteWaits, Refuse, portVars
  <2>3. Begun' = Begun /\ (state \notin {30, 31})' = (state \notin {30, 31})
    BY <2>2 DEF Begun
  <2> QED  BY <1>1, <2>1, <2>3 DEF Shared!smVars, Resv
<1> QED  BY <1>2, <1>3

(* Where no access but of whole words is exclusive and all begin at one    *)
(* byte, the port is the shared memory of SharedMemory: each write takes   *)
(* effect once, before its transfer ends, each read returns the word last  *)
(* written, and an exclusive write does so only while its hart's           *)
(* reservation stands (ahb_laur_mem.v:86-240).                             *)
THEOREM AhbIsSharedMemory == ASSUME OneOffset PROVE AhbSpec => ImplementsSharedMemory
<1>1. AhbInit => Shared!SMInit
  <2> SUFFICES ASSUME AhbInit PROVE Shared!SMInit
    OBVIOUS
  <2>1. AhbTypeOK /\ CachedStore \in [Addr -> Word]
    BY AhbInvInit, WriteWordFacts DEF AInv, AhbTypeOK, CInv, CacheTypeOK, WMTypeOK, CachedStore
  <2>2. dph.op = "idle"
    BY <2>1, IdleFacts DEF AhbInit, AhbTypeOK, CacheTypeOK, WMTypeOK
  <2>3. BusTransfer(dph, hwdata) \in Shared!Transfer
    BY <2>1 DEF BusTransfer, wmask, AhbTypeOK, Transfer, HAddr, Shared!Transfer, Shared!Word, Word
  <2>4. Resv = [h \in Hart |-> NoWord]
    BY DEF AhbInit, Resv
  <2>5. state \notin {30, 31} /\ ~ Begun
    BY DEF AhbInit, Begun
  <2> QED
    BY <2>1, <2>2, <2>3, <2>4, <2>5 DEF Shared!SMInit, Shared!Word, Word, Resv, BusTransfer,
       AhbTypeOK
<1>2. AInv /\ AInv' /\ [AhbNext]_ahbVars => [Shared!SMNext]_(Shared!smVars)
  <2> SUFFICES ASSUME AInv, AInv', [AhbNext]_ahbVars PROVE [Shared!SMNext]_(Shared!smVars)
    OBVIOUS
  <2>1. CASE AhbNext
    <3> PICK t \in Offered, d \in Word : AhbEdge(t, d)
      BY <2>1 DEF AhbNext
    <3>1. CASE hready_resp
      BY <3>1, TurnRefines
    <3>2. CASE ~ hready_resp
      BY <3>2, WaitRefines DEF Shared!SMNext
    <3> QED  BY <3>1, <3>2
  <2>2. CASE UNCHANGED ahbVars
    BY <2>2 DEF ahbVars, cacheVars, ctrlVars, wmVars, portVars, busVars, CachedStore, w_dram_busy,
       Begun, o_busy, c_oe, BusTransfer, wmask, Shared!smVars
  <2> QED  BY <2>1, <2>2
<1> QED  BY <1>1, <1>2, AhbInvariance, PTL DEF AhbSpec, ImplementsSharedMemory, Shared!SMSpec
===============================================================================
