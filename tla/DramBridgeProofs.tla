--------------------------- MODULE DramBridgeProofs ---------------------------
(***************************************************************************)
(* Proofs about the DRAM bridge, for every set of addresses, lanes and     *)
(* values, every depth of the fifos and every order of the clock edges;    *)
(* at the end, what timed paths between the clocks add, at any periods.    *)
(***************************************************************************)
EXTENDS DramBridgeClocks, TLAPS

(* A fifo that carries one token: the write pointer w is at most one ahead *)
(* of the read pointer r, and the synchroniser stages a and b follow it.   *)
Chain(w, a, b, r) ==
  /\ w = r \/ w = NextPtr(r)
  /\ a = w \/ a = r
  /\ b = a \/ b = r

ChainsOK ==
  /\ Chain(waddr1, sync1a, sync1b, raddr1)
  /\ Chain(waddr2, sync2a, sync2b, raddr2)

(* The client and the bridge agree on who waits for whom.                  *)
ClientOK ==
  /\ i_rd_en = (IF cst = 2 THEN 1 ELSE 0)
  /\ i_wr_en = (IF cst = 10 THEN 1 ELSE 0)
  /\ r_stall = (IF state = 0 THEN 0 ELSE 1)
  /\ cst = 0 => state = 0
  /\ cst = 2 => state \in {0, 10}
  /\ cst = 3 => state \in {0, 11, 12, 13, 14}
  /\ cst = 10 => state \in {0, 20}
  /\ cst = 11 => state \in {0, 21, 22}

(* Where the token may be in each state of the two machines.               *)
Full1 == waddr1 # raddr1
Full2 == waddr2 # raddr2
Quiet1 == waddr1 = raddr1 /\ wen1 = 0 /\ ren1 = 0
Quiet2 == waddr2 = raddr2 /\ wen2 = 0

ProcOK ==
  /\ ren2 = (IF state = 14 THEN 1 ELSE 0)
  /\ state = 0 => Quiet1 /\ Quiet2 /\ ramstate \in {0, 11, 20}
  /\ state \in {10, 20} => Quiet1 /\ Quiet2 /\ ramstate = 0
  /\ wen1 = 1 => state \in {11, 21} /\ waddr1 = raddr1 /\ ren1 = 0 /\ Quiet2 /\ ramstate = 0
  /\ state = 13 => ~ Empty2 /\ Quiet1 /\ wen2 = 0 /\ ramstate \in {0, 11}
  /\ state = 14 => ~ Empty2 /\ Quiet1 /\ wen2 = 0 /\ ramstate \in {0, 11}
  /\ state \in {21, 22} => Quiet2 /\ ramstate \in {0, 1, 20}
  /\ state \in {12, 22} /\ Full1 => ~ Empty1
  /\ state \in {11, 12} => ramstate \in {0, 1, 10, 11}

RamOK ==
  /\ ren1 = 1 => ramstate = 1 /\ ~ Empty1 /\ sync1a = waddr1 /\ w_busy = 0
  /\ wen2 = 1 => ramstate = 11 /\ state \in {11, 12} /\ waddr2 = raddr2
  /\ ramstate = 1 => Quiet2 /\ state \in {11, 12, 21, 22} /\ (ren1 = 1 \/ waddr1 = raddr1)
  /\ ramstate = 0 => cmd.rd = 0 /\ cmd.we = 0 /\ w_busy = 0
  /\ ramstate = 10 => Quiet1 /\ Quiet2 /\ cmd.rd = 0 /\ cmd.we = 0 /\ state \in {11, 12}
  /\ ramstate = 20 => Quiet1 /\ Quiet2 /\ cmd.rd = 0 /\ cmd.we = 0 /\ state \in {0, 21, 22}
  /\ ramstate = 11 => Quiet1 /\ cmd.rd = 0 /\ cmd.we = 0 /\ w_busy = 0
  /\ ramstate = 11 /\ wen2 = 0 /\ waddr2 = raddr2 => state = 0
  /\ Full1 => state \in {11, 12, 21, 22} /\ Quiet2 /\ (ramstate = 0 \/ (ramstate = 1 /\ ren1 = 1))
  /\ Full2 => state \in {11, 12, 13, 14} /\ ramstate \in {0, 11}

(* The token carries the request, and what it brings back is the word.     *)
Bit01(b) == IF b THEN 1 ELSE 0
ReadPhase == state \in 10 .. 14
IsRequest(c) ==
  /\ c.addr = r_addr /\ c.mask = r_mask /\ c.data = r_wdata
  /\ c.rd = Bit01(ReadPhase) /\ c.we = Bit01(~ ReadPhase)

Written == mem[r_addr] = MergeLanes(mem[r_addr], r_wdata, r_mask)

RequestOK ==
  /\ wen1 = 1 => IsRequest(din1)
  /\ Full1 => IsRequest(fifo1[Slot(raddr1)])
  /\ ramstate = 1 => IsRequest(cmd)
  /\ w_busy = 1 => ramstate \in {1, 10, 20} /\ IsRequest(dcmd)

AnswerOK ==
  /\ ramstate = 10 /\ w_busy = 0 => w_odata = mem[r_addr]
  /\ wen2 = 1 => din2 = mem[r_addr]
  /\ Full2 => fifo2[Slot(raddr2)] = mem[r_addr]
  /\ state = 14 => r_dram_odata = mem[r_addr]

WrittenOK ==
  /\ ramstate = 20 /\ w_busy = 0 => Written
  /\ state \in {21, 22} /\ wen1 = 0 /\ ~ Full1 /\ ramstate = 0 => Written

IInv == TypeOK /\ ChainsOK /\ ClientOK /\ ProcOK /\ RamOK /\ RequestOK /\ AnswerOK /\ WrittenOK

-------------------------------------------------------------------------------
(* A pointer moves to another pointer, and names a slot of the storage.    *)
LEMMA PtrFacts ==
  ASSUME NEW p \in Ptrs
  PROVE  NextPtr(p) \in Ptrs /\ NextPtr(p) # p /\ Slot(p) \in 0 .. Depth - 1
BY BridgeAssumption DEF Ptrs, NextPtr, Slot

(* A word merged with a word is a word.                                    *)
LEMMA MergeType ==
  ASSUME NEW w \in Word, NEW d \in Word, NEW mask
  PROVE  MergeLanes(w, d, mask) \in Word
BY DEF MergeLanes, Word

(* Writing the same lanes twice is writing them once.                      *)
LEMMA MergeIdempotent ==
  ASSUME NEW w \in Word, NEW d \in Word, NEW mask
  PROVE  MergeLanes(MergeLanes(w, d, mask), d, mask) = MergeLanes(w, d, mask)
BY DEF MergeLanes, Word

(* Each side of an edge keeps the types of what it writes.                 *)
ClientTypes ==
  /\ cst \in {0, 2, 3, 10, 11} /\ i_rd_en \in Bit /\ i_wr_en \in Bit
  /\ i_addr \in Addr /\ i_data \in Word /\ i_ctrl \in SUBSET Lane

LEMMA ClientTyping == TypeOK /\ ClientStep => ClientTypes'
BY DEF TypeOK, ClientTypes, ClientStep, ClientIdle, ClientRead, ClientWrite,
       ClientDropRead, ClientDropWrite, ClientDone, cltVars, Bit

ProcTypes ==
  /\ state \in {0, 10, 11, 12, 13, 14, 20, 21, 22} /\ r_stall \in Bit
  /\ r_addr \in Addr /\ r_wdata \in Word /\ r_mask \in SUBSET Lane
  /\ r_dram_odata \in Word /\ din1 \in Cmd /\ wen1 \in Bit /\ ren2 \in Bit

(* A step of memory.v's processor state machine keeps the types.           *)
LEMMA ProcTyping ==
  ASSUME TypeOK, NEW idle, NEW e1, ProcStep(idle, e1)
  PROVE  ProcTypes'
<1>1. CASE ProcIdle(idle, e1)
  BY <1>1 DEF TypeOK, ProcTypes, ProcIdle, PrepareRead, PrepareWrite, procVars, Bit
<1>2. CASE ProcPush
  BY <1>2 DEF TypeOK, ProcTypes, ProcPush, Bit, Cmd
<1>3. CASE ProcPushed(e1)
  BY <1>3 DEF TypeOK, ProcTypes, ProcPushed, Bit
<1>4. CASE ProcAwaitData(e1)
  BY <1>4 DEF TypeOK, ProcTypes, ProcAwaitData
<1>5. CASE ProcTakeData
  <2>1. Dout2 \in Word
    BY PtrFacts DEF TypeOK, Dout2
  <2> QED  BY <1>5, <2>1 DEF TypeOK, ProcTypes, ProcTakeData, Bit
<1>6. CASE ProcReadDone
  BY <1>6 DEF TypeOK, ProcTypes, ProcReadDone, Bit
<1>7. CASE ProcAwaitWrite(idle, e1)
  BY <1>7 DEF TypeOK, ProcTypes, ProcAwaitWrite, Bit
<1> QED  BY <1>1, <1>2, <1>3, <1>4, <1>5, <1>6, <1>7 DEF ProcStep

ProcFifoTypes ==
  /\ fifo1 \in [0 .. Depth - 1 -> Cmd]
  /\ waddr1 \in Ptrs /\ raddr2 \in Ptrs /\ sync2a \in Ptrs /\ sync2b \in Ptrs

(* So does the processor's clocking of its ends of the fifos.              *)
LEMMA ProcFifoTyping ==
  ASSUME TypeOK, NEW wp \in Ptrs, ProcFifos(wp)
  PROVE  ProcFifoTypes'
BY PtrFacts DEF TypeOK, ProcFifoTypes, ProcFifos

RamTypes ==
  /\ ramstate \in {0, 1, 10, 11, 20} /\ cmd \in Cmd /\ ren1 \in Bit
  /\ din2 \in Word /\ wen2 \in Bit

(* So does a step of the controller's state machine.                       *)
LEMMA RamTyping ==
  ASSUME TypeOK, NEW e2, RamStep(e2)
  PROVE  RamTypes'
<1>1. CASE RamIdle
  <2>1. Dout1 \in Cmd
    BY PtrFacts DEF TypeOK, Dout1
  <2> QED  BY <1>1, <2>1 DEF TypeOK, RamTypes, RamIdle, ddrVars, Bit
<1>2. CASE RamCommand
  BY <1>2 DEF TypeOK, RamTypes, RamCommand, Cmd, Bit
<1>3. CASE RamReadDone
  BY <1>3 DEF TypeOK, RamTypes, RamReadDone, Bit
<1>4. CASE RamReplied(e2)
  BY <1>4 DEF TypeOK, RamTypes, RamReplied, Bit
<1>5. CASE RamWriteDone
  BY <1>5 DEF TypeOK, RamTypes, RamWriteDone
<1> QED  BY <1>1, <1>2, <1>3, <1>4, <1>5 DEF RamStep

DdrFifoTypes ==
  /\ fifo2 \in [0 .. Depth - 1 -> Word]
  /\ waddr2 \in Ptrs /\ raddr1 \in Ptrs /\ sync1a \in Ptrs /\ sync1b \in Ptrs

(* So does the controller's clocking of its ends of the fifos.             *)
LEMMA DdrFifoTyping ==
  ASSUME TypeOK, NEW wp \in Ptrs, DdrFifos(wp)
  PROVE  DdrFifoTypes'
BY PtrFacts DEF TypeOK, DdrFifoTypes, DdrFifos

DramTypes ==
  dcmd \in Cmd /\ w_busy \in Bit /\ w_odata \in Word /\ mem \in [Addr -> Word]

(* So does a step of the DRAM.                                             *)
LEMMA DramTyping == TypeOK /\ DramStep => DramTypes'
<1> SUFFICES ASSUME TypeOK, DramStep PROVE DramTypes'
  OBVIOUS
<1>1. CASE DramWait
  BY <1>1 DEF TypeOK, DramTypes, DramWait, dramVars
<1>2. CASE DramAccept
  BY <1>2 DEF TypeOK, DramTypes, DramAccept, Bit
<1>3. CASE DramRead
  BY <1>3 DEF TypeOK, DramTypes, DramRead, Bit, Cmd
<1>4. CASE DramWrite
  <2>1. dcmd.addr \in Addr /\ dcmd.data \in Word
    BY DEF TypeOK, Cmd
  <2>2. MergeLanes(mem[dcmd.addr], dcmd.data, dcmd.mask) \in Word
    BY <2>1, MergeType DEF TypeOK
  <2> QED  BY <1>4, <2>1, <2>2 DEF TypeOK, DramTypes, DramWrite, Bit
<1> QED  BY <1>1, <1>2, <1>3, <1>4 DEF DramStep, DramProgress

-------------------------------------------------------------------------------
(* Every step of the bridge is a step or a stutter of each of its sides.   *)
ProcSide(idle, e1, wp2) ==
  \/ ProcStep(idle, e1) /\ ClientStep /\ ProcFifos(wp2)
  \/ UNCHANGED <<cltVars, procVars, procFifoVars>>

DdrSide(e2, wp1) ==
  \/ RamStep(e2) /\ DramStep /\ DdrFifos(wp1)
  \/ UNCHANGED <<ddrVars, ddrFifoVars, dramVars>>

AnyEdge(idle, e1, e2, wp1, wp2) ==
  /\ ProcSide(idle, e1, wp2) /\ DdrSide(e2, wp1)
  /\ Samples(idle, e1, e2, wp1, wp2)

(* Any edge keeps all the types.                                           *)
LEMMA AnyTyping ==
  ASSUME IInv, NEW idle \in BOOLEAN, NEW e1 \in BOOLEAN,
         NEW e2 \in BOOLEAN, NEW wp1, NEW wp2,
         AnyEdge(idle, e1, e2, wp1, wp2)
  PROVE  TypeOK'
<1>1. wp1 \in Ptrs /\ wp2 \in Ptrs
  <2>1. waddr1' \in Ptrs /\ waddr2' \in Ptrs
    BY PtrFacts DEF IInv, TypeOK, AnyEdge, ProcSide, DdrSide, ProcFifos, DdrFifos,
                    procFifoVars, ddrFifoVars
  <2> QED  BY <2>1 DEF IInv, TypeOK, AnyEdge, Samples
<1>2. ProcTypes' /\ ClientTypes' /\ ProcFifoTypes'
  BY <1>1, ProcTyping, ClientTyping, ProcFifoTyping
  DEF IInv, AnyEdge, ProcSide, TypeOK, ProcTypes, ClientTypes, ProcFifoTypes,
      cltVars, procVars, procFifoVars
<1>3. RamTypes' /\ DramTypes' /\ DdrFifoTypes'
  BY <1>1, RamTyping, DramTyping, DdrFifoTyping
  DEF IInv, AnyEdge, DdrSide, TypeOK, RamTypes, DramTypes, DdrFifoTypes,
      ddrVars, ddrFifoVars, dramVars
<1> QED  BY <1>2, <1>3 DEF TypeOK, ProcTypes, ClientTypes, ProcFifoTypes,
           RamTypes, DramTypes, DdrFifoTypes

(* Any edge keeps each fifo to one token at most, its pointers in step.    *)
LEMMA AnyChains ==
  ASSUME IInv, NEW idle \in BOOLEAN, NEW e1 \in BOOLEAN,
         NEW e2 \in BOOLEAN, NEW wp1, NEW wp2,
         AnyEdge(idle, e1, e2, wp1, wp2)
  PROVE  ChainsOK'
BY PtrFacts DEF IInv, TypeOK, Bit, ChainsOK, Chain, ProcOK, RamOK,
   Quiet1, Quiet2, Full1, Full2, Empty1, Empty2, AnyEdge, ProcSide, DdrSide, Samples,
   ProcFifos, DdrFifos, procVars, procFifoVars, ddrVars, ddrFifoVars

(* Any edge keeps the client and r_stall in step: the busy handshake.      *)
LEMMA AnyClient ==
  ASSUME IInv, NEW idle \in BOOLEAN, NEW e1 \in BOOLEAN,
         NEW e2 \in BOOLEAN, NEW wp1, NEW wp2,
         AnyEdge(idle, e1, e2, wp1, wp2)
  PROVE  ClientOK'
BY DEF IInv, TypeOK, Bit, ClientOK, AnyEdge, ProcSide, ProcStep, ProcIdle, ProcPush,
   ProcPushed, ProcAwaitData, ProcTakeData, ProcReadDone, ProcAwaitWrite, PrepareRead,
   PrepareWrite, ClientStep, ClientIdle, ClientRead, ClientWrite, ClientDropRead,
   ClientDropWrite, ClientDone, cltVars, procVars

(* Any edge keeps the processor's state consistent with the place of the   *)
(* token, one case for each action of the processor's state machine.       *)
LEMMA AnyProc ==
  ASSUME IInv, NEW idle \in BOOLEAN, NEW e1 \in BOOLEAN,
         NEW e2 \in BOOLEAN, NEW wp1, NEW wp2,
         AnyEdge(idle, e1, e2, wp1, wp2)
  PROVE  ProcOK'
<1> USE PtrFacts
        DEF IInv, TypeOK, Bit, Cmd, AnyEdge, ProcSide, DdrSide, Samples, MaySeeIdle,
            ChainsOK, Chain, ProcOK, RamOK, RequestOK, IsRequest, Bit01, ReadPhase,
            Quiet1, Quiet2, Full1, Full2, Empty1, Empty2,
            ProcFifos, DdrFifos, RamStep, RamIdle, RamCommand, RamReadDone, RamReplied,
            RamWriteDone, DramStep, DramProgress, DramWait, DramAccept, DramRead, DramWrite,
            cltVars, procVars, procFifoVars, ddrVars, ddrFifoVars, dramVars
<1>1. CASE ProcIdle(idle, e1)
  BY <1>1 DEF ProcIdle, PrepareRead, PrepareWrite
<1>2. CASE ProcPush
  BY <1>2 DEF ProcPush
<1>3. CASE ProcPushed(e1)
  BY <1>3 DEF ProcPushed
<1>4. CASE ProcAwaitData(e1)
  BY <1>4 DEF ProcAwaitData
<1>5. CASE ProcTakeData
  BY <1>5 DEF ProcTakeData
<1>6. CASE ProcReadDone
  BY <1>6 DEF ProcReadDone
<1>7. CASE ProcAwaitWrite(idle, e1)
  BY <1>7 DEF ProcAwaitWrite
<1>8. CASE UNCHANGED <<cltVars, procVars, procFifoVars>>
  BY <1>8
<1> QED  BY <1>1, <1>2, <1>3, <1>4, <1>5, <1>6, <1>7, <1>8 DEF ProcStep

(* Any edge keeps the controller's state consistent with the place of the  *)
(* token.                                                                  *)
LEMMA AnyRam ==
  ASSUME IInv, NEW idle \in BOOLEAN, NEW e1 \in BOOLEAN,
         NEW e2 \in BOOLEAN, NEW wp1, NEW wp2,
         AnyEdge(idle, e1, e2, wp1, wp2)
  PROVE  RamOK'
<1> USE PtrFacts
        DEF IInv, TypeOK, Bit, Cmd, AnyEdge, ProcSide, DdrSide, Samples, MaySeeIdle,
            ChainsOK, Chain, ProcOK, RamOK, RequestOK, IsRequest, Bit01, ReadPhase,
            Quiet1, Quiet2, Full1, Full2, Empty1, Empty2,
            ProcFifos, DdrFifos, RamStep, RamIdle, RamCommand, RamReadDone, RamReplied,
            RamWriteDone, DramStep, DramProgress, DramWait, DramAccept, DramRead, DramWrite,
            cltVars, procVars, procFifoVars, ddrVars, ddrFifoVars, dramVars
<1>1. CASE ProcIdle(idle, e1)
  BY <1>1 DEF ProcIdle, PrepareRead, PrepareWrite
<1>2. CASE ProcPush
  BY <1>2 DEF ProcPush
<1>3. CASE ProcPushed(e1)
  BY <1>3 DEF ProcPushed
<1>4. CASE ProcAwaitData(e1)
  BY <1>4 DEF ProcAwaitData
<1>5. CASE ProcTakeData
  BY <1>5 DEF ProcTakeData
<1>6. CASE ProcReadDone
  BY <1>6 DEF ProcReadDone
<1>7. CASE ProcAwaitWrite(idle, e1)
  BY <1>7 DEF ProcAwaitWrite
<1>8. CASE UNCHANGED <<cltVars, procVars, procFifoVars>>
  BY <1>8
<1> QED  BY <1>1, <1>2, <1>3, <1>4, <1>5, <1>6, <1>7, <1>8 DEF ProcStep

(* Any edge keeps the token equal to the request it stands for.            *)
LEMMA AnyRequest ==
  ASSUME IInv, NEW idle \in BOOLEAN, NEW e1 \in BOOLEAN,
         NEW e2 \in BOOLEAN, NEW wp1, NEW wp2,
         AnyEdge(idle, e1, e2, wp1, wp2),
         TypeOK', ProcOK', RamOK'
  PROVE  RequestOK'
<1> USE PtrFacts
        DEF IInv, TypeOK, Bit, Cmd, AnyEdge, ProcSide, DdrSide, Samples, MaySeeIdle,
            ChainsOK, Chain, ProcOK, RamOK, RequestOK, IsRequest, Bit01, ReadPhase,
            Quiet1, Quiet2, Full1, Full2, Empty1, Empty2,
            ProcFifos, DdrFifos, RamStep, RamIdle, RamCommand, RamReadDone, RamReplied,
            RamWriteDone, DramStep, DramProgress, DramWait, DramAccept, DramRead, DramWrite,
            Dout1, Dout2, cltVars, procVars, procFifoVars, ddrVars, ddrFifoVars, dramVars
<1>1. CASE ProcIdle(idle, e1)
  BY <1>1 DEF ProcIdle, PrepareRead, PrepareWrite
<1>2. CASE ProcPush
  BY <1>2 DEF ProcPush
<1>3. CASE ProcPushed(e1)
  BY <1>3 DEF ProcPushed
<1>4. CASE ProcAwaitData(e1)
  BY <1>4 DEF ProcAwaitData
<1>5. CASE ProcTakeData
  BY <1>5 DEF ProcTakeData
<1>6. CASE ProcReadDone
  BY <1>6 DEF ProcReadDone
<1>7. CASE ProcAwaitWrite(idle, e1)
  BY <1>7 DEF ProcAwaitWrite
<1>8. CASE UNCHANGED <<cltVars, procVars, procFifoVars>>
  BY <1>8
<1> QED  BY <1>1, <1>2, <1>3, <1>4, <1>5, <1>6, <1>7, <1>8 DEF ProcStep

(* Any edge keeps the answer on its way equal to the word in the DRAM.     *)
LEMMA AnyAnswer ==
  ASSUME IInv, NEW idle \in BOOLEAN, NEW e1 \in BOOLEAN,
         NEW e2 \in BOOLEAN, NEW wp1, NEW wp2,
         AnyEdge(idle, e1, e2, wp1, wp2),
         TypeOK', ProcOK', RamOK'
  PROVE  AnswerOK'
<1> USE PtrFacts
        DEF IInv, TypeOK, Bit, Cmd, AnyEdge, ProcSide, DdrSide, Samples, MaySeeIdle,
            ChainsOK, Chain, ProcOK, RamOK, RequestOK, IsRequest, Bit01, ReadPhase, AnswerOK, WrittenOK, Written,
            Quiet1, Quiet2, Full1, Full2, Empty1, Empty2,
            ProcFifos, DdrFifos, RamStep, RamIdle, RamCommand, RamReadDone, RamReplied,
            RamWriteDone, DramStep, DramProgress, DramWait, DramAccept, DramRead, DramWrite,
            Dout1, Dout2, cltVars, procVars, procFifoVars, ddrVars, ddrFifoVars, dramVars
<1>1. CASE ProcIdle(idle, e1)
  BY <1>1 DEF ProcIdle, PrepareRead, PrepareWrite
<1>2. CASE ProcPush
  BY <1>2 DEF ProcPush
<1>3. CASE ProcPushed(e1)
  BY <1>3 DEF ProcPushed
<1>4. CASE ProcAwaitData(e1)
  BY <1>4 DEF ProcAwaitData
<1>5. CASE ProcTakeData
  BY <1>5 DEF ProcTakeData
<1>6. CASE ProcReadDone
  BY <1>6 DEF ProcReadDone
<1>7. CASE ProcAwaitWrite(idle, e1)
  BY <1>7 DEF ProcAwaitWrite
<1>8. CASE UNCHANGED <<cltVars, procVars, procFifoVars>>
  BY <1>8
<1> QED  BY <1>1, <1>2, <1>3, <1>4, <1>5, <1>6, <1>7, <1>8 DEF ProcStep

(* Any edge keeps a finished write in the DRAM.                            *)
LEMMA AnyWritten ==
  ASSUME IInv, NEW idle \in BOOLEAN, NEW e1 \in BOOLEAN,
         NEW e2 \in BOOLEAN, NEW wp1, NEW wp2,
         AnyEdge(idle, e1, e2, wp1, wp2),
         TypeOK', ProcOK', RamOK'
  PROVE  WrittenOK'
<1> USE PtrFacts, MergeIdempotent
        DEF IInv, TypeOK, Bit, Cmd, AnyEdge, ProcSide, DdrSide, Samples, MaySeeIdle,
            ChainsOK, Chain, ProcOK, RamOK, RequestOK, IsRequest, Bit01, ReadPhase, AnswerOK, WrittenOK, Written,
            Quiet1, Quiet2, Full1, Full2, Empty1, Empty2,
            ProcFifos, DdrFifos, RamStep, RamIdle, RamCommand, RamReadDone, RamReplied,
            RamWriteDone, DramStep, DramProgress, DramWait, DramAccept, DramRead, DramWrite,
            cltVars, procVars, procFifoVars, ddrVars, ddrFifoVars, dramVars
<1>1. CASE ProcIdle(idle, e1)
  BY <1>1 DEF ProcIdle, PrepareRead, PrepareWrite
<1>2. CASE ProcPush
  BY <1>2 DEF ProcPush
<1>3. CASE ProcPushed(e1)
  BY <1>3 DEF ProcPushed
<1>4. CASE ProcAwaitData(e1)
  BY <1>4 DEF ProcAwaitData
<1>5. CASE ProcTakeData
  BY <1>5 DEF ProcTakeData
<1>6. CASE ProcReadDone
  BY <1>6 DEF ProcReadDone
<1>7. CASE ProcAwaitWrite(idle, e1)
  BY <1>7 DEF ProcAwaitWrite
<1>8. CASE UNCHANGED <<cltVars, procVars, procFifoVars>>
  BY <1>8
<1> QED  BY <1>1, <1>2, <1>3, <1>4, <1>5, <1>6, <1>7, <1>8 DEF ProcStep

(* The invariant holds after reset.                                        *)
LEMMA InvInit == Init => IInv
BY BridgeAssumption
DEF Init, IInv, TypeOK, Bit, Cmd, Word, Ptrs, ChainsOK, Chain, ClientOK, ProcOK, RamOK,
    RequestOK, AnswerOK, WrittenOK, Quiet1, Quiet2, Full1, Full2, Empty1, Empty2

(* Whatever holds after every edge from the invariant holds after a step.  *)
LEMMA AnyPreserves ==
  ASSUME IInv, NEW idle \in BOOLEAN, NEW e1 \in BOOLEAN, NEW e2 \in BOOLEAN,
         NEW wp1, NEW wp2, AnyEdge(idle, e1, e2, wp1, wp2)
  PROVE  IInv'
BY AnyTyping, AnyChains, AnyClient, AnyProc, AnyRam, AnyRequest, AnyAnswer, AnyWritten
DEF IInv

(* Every step of the specification preserves the invariant.                *)
LEMMA InvStep == IInv /\ [Next]_vars => IInv'
<1> SUFFICES ASSUME IInv, [Next]_vars PROVE IInv'
  OBVIOUS
<1>0. (ramstate = 0) \in BOOLEAN /\ Empty1 \in BOOLEAN /\ Empty2 \in BOOLEAN
  BY DEF Empty1, Empty2
<1>1. Samples(ramstate = 0, Empty1, Empty2, waddr1, waddr2)
  BY DEF Samples, MaySeeIdle, Empty1, Empty2
<1>2. ASSUME ClkEdge \/ CtrlEdge \/ BothEdges \/ UNCHANGED vars PROVE IInv'
  <2>1. AnyEdge(ramstate = 0, Empty1, Empty2, waddr1, waddr2)
    BY <1>1, <1>2 DEF ClkEdge, CtrlEdge, BothEdges, CoincidentEdges, vars,
                      AnyEdge, ProcSide, DdrSide
  <2> QED  BY <1>0, <2>1, AnyPreserves
<1>3. CASE RacingEdges
  BY <1>3, AnyPreserves DEF RacingEdges, CoincidentEdges, AnyEdge, ProcSide, DdrSide
<1> QED  BY <1>2, <1>3 DEF Next

(* The inductive invariant holds in every reachable state.                 *)
THEOREM Invariance == Spec => []IInv
BY InvInit, InvStep, PTL DEF Spec

(* Every register of the bridge keeps its type.                            *)
THEOREM BridgeTypeCorrect == Spec => []TypeOK
<1>1. IInv => TypeOK  BY DEF IInv
<1> QED  BY <1>1, Invariance, PTL

(* Neither fifo is ever written when full or read when empty, though af.v  *)
(* guards neither and memory.v leaves o_full unconnected.                  *)
THEOREM FifosAreRespected == Spec => []FifosRespected
<1>1. IInv => FifosRespected
  BY PtrFacts DEF IInv, TypeOK, ProcOK, RamOK, ChainsOK, Chain, FifosRespected,
                  Quiet1, Quiet2, Empty1, Empty2
<1> QED  BY <1>1, Invariance, PTL

(* None of the $display error conditions of memory.v is reachable.         *)
THEOREM NoBridgeErrors == Spec => []NoBridgeError
<1>1. IInv => NoBridgeError
  BY DEF IInv, TypeOK, ClientOK, ProcOK, RamOK, RequestOK, IsRequest, Bit01, NoBridgeError
<1> QED  BY <1>1, Invariance, PTL

-------------------------------------------------------------------------------
(* The refinement: the bridge implements a memory with one port.           *)
Rewrite(m) == [m EXCEPT ![r_addr] = MergeLanes(@, r_wdata, r_mask)]

(* Writing the request to a memory twice is writing it once.               *)
LEMMA RewriteTwice ==
  ASSUME TypeOK, NEW m \in [Addr -> Word]
  PROVE  /\ Rewrite(m) \in [Addr -> Word]
         /\ Rewrite(Rewrite(m)) = Rewrite(m)
<1>1. m[r_addr] \in Word /\ MergeLanes(m[r_addr], r_wdata, r_mask) \in Word
  BY MergeType DEF TypeOK
<1>2. MergeLanes(MergeLanes(m[r_addr], r_wdata, r_mask), r_wdata, r_mask)
        = MergeLanes(m[r_addr], r_wdata, r_mask)
  BY <1>1, MergeIdempotent DEF TypeOK
<1> QED  BY <1>1, <1>2 DEF Rewrite, TypeOK

(* Writing a request the DRAM already has changes nothing.                 *)
LEMMA WrittenIsRewritten ==
  ASSUME TypeOK, Written
  PROVE  Rewrite(mem) = mem
BY DEF Rewrite, Written, TypeOK

(* The edge accepts a request.                                             *)
Accepting == state = 0 /\ state' # 0

(* The DRAM changes only as the write under way says.                      *)
LEMMA DramKeepsLogicalMem ==
  ASSUME IInv, NEW idle \in BOOLEAN, NEW e1 \in BOOLEAN, NEW e2 \in BOOLEAN,
         NEW wp1, NEW wp2, AnyEdge(idle, e1, e2, wp1, wp2)
  PROVE  /\ mem' = mem \/ (WriteUnderWay /\ mem' = Rewrite(mem) /\ w_busy' = 0 /\ w_busy = 1)
BY DEF IInv, TypeOK, Bit, Cmd, RequestOK, IsRequest, Bit01, ReadPhase, AnyEdge, DdrSide,
       DramStep, DramProgress, DramWait, DramAccept, DramRead, DramWrite, dramVars,
       WriteUnderWay, Rewrite

(* The bridge's copy of the request changes only when one is accepted.     *)
LEMMA RequestStable ==
  ASSUME IInv, NEW idle \in BOOLEAN, NEW e1 \in BOOLEAN, NEW e2 \in BOOLEAN,
         NEW wp1, NEW wp2, AnyEdge(idle, e1, e2, wp1, wp2), ~ Accepting
  PROVE  UNCHANGED <<r_addr, r_wdata, r_mask>>
BY DEF IInv, TypeOK, AnyEdge, ProcSide, ProcStep, ProcIdle, ProcPush, ProcPushed,
       ProcAwaitData, ProcTakeData, ProcReadDone, ProcAwaitWrite, PrepareRead, PrepareWrite,
       procVars, Accepting

(* The logical memory changes only when a request is accepted.             *)
LEMMA LogicalMemStable ==
  ASSUME IInv, IInv', NEW idle \in BOOLEAN, NEW e1 \in BOOLEAN, NEW e2 \in BOOLEAN,
         NEW wp1, NEW wp2, AnyEdge(idle, e1, e2, wp1, wp2), ~ Accepting
  PROVE  LogicalMem' = LogicalMem
<1>1. LogicalMem = IF WriteUnderWay THEN Rewrite(mem) ELSE mem
  BY DEF LogicalMem, Rewrite
<1>2. LogicalMem' = IF WriteUnderWay' THEN Rewrite(mem') ELSE mem'
  BY RequestStable DEF LogicalMem, Rewrite
<1>3. WriteUnderWay' => WriteUnderWay
  BY DEF IInv, TypeOK, Bit, Cmd, WriteUnderWay, Accepting, AnyEdge, ProcSide, DdrSide, ProcStep,
         ProcIdle, ProcPush, ProcPushed, ProcAwaitData, ProcTakeData, ProcReadDone,
         ProcAwaitWrite, procVars, RamStep, RamIdle, RamCommand, RamReadDone, RamReplied,
         RamWriteDone, ddrVars, DramStep, DramProgress, DramWait, DramAccept, DramRead,
         DramWrite, dramVars, ProcOK, RamOK, RequestOK, IsRequest, Bit01, ReadPhase
<1>4. ASSUME WriteUnderWay, ~ WriteUnderWay' PROVE Written'
  <2> USE DEF IInv, TypeOK, Bit, Cmd, WriteUnderWay, ProcOK, RamOK, RequestOK, IsRequest,
              Bit01, ReadPhase, WrittenOK, Quiet1, Quiet2, Full1
  <2>1. state' = 0 /\ (state = 0 \/ state = 22)
    BY <1>4 DEF Accepting, AnyEdge, ProcSide, ProcStep, ProcIdle, ProcPush, ProcPushed,
       ProcAwaitData, ProcTakeData, ProcReadDone, ProcAwaitWrite, procVars
  <2>2. w_busy' = 0
    BY <1>4, <2>1
  <2>3. CASE ramstate' = 20
    BY <2>2, <2>3
  <2>4. CASE ramstate' # 20
    <3>1. Written /\ w_busy = 0
      BY <1>4, <2>1, <2>4 DEF AnyEdge, ProcSide, DdrSide, ProcFifos, DdrFifos, RamStep, RamIdle,
         RamCommand, RamReadDone, RamReplied, RamWriteDone, procFifoVars, ddrVars, ddrFifoVars,
         dramVars
    <3>2. mem' = mem
      BY <3>1, DramKeepsLogicalMem
    <3> QED  BY <3>1, <3>2, RequestStable DEF Written
  <2> QED  BY <2>3, <2>4
<1>5. mem' = mem \/ (WriteUnderWay /\ mem' = Rewrite(mem))
  BY DramKeepsLogicalMem
<1>6. Written' => Rewrite(mem') = mem'
  BY RequestStable, WrittenIsRewritten DEF IInv, Written, Rewrite, TypeOK
<1>7. Rewrite(Rewrite(mem)) = Rewrite(mem)
  BY RewriteTwice DEF IInv, TypeOK
<1> QED  BY <1>1, <1>2, <1>3, <1>4, <1>5, <1>6, <1>7

(* A request is accepted only when the DRAM has done everything before it. *)
LEMMA AcceptedWhenDone ==
  ASSUME IInv, IInv', NEW idle \in BOOLEAN, NEW e1 \in BOOLEAN, NEW e2 \in BOOLEAN,
         NEW wp1, NEW wp2, AnyEdge(idle, e1, e2, wp1, wp2), state = 0, state' \in {10, 20}
  PROVE  ~ WriteUnderWay /\ mem' = mem /\ (WriteUnderWay' <=> state' = 20)
<1>1. ramstate' = 0 /\ ramstate \in {0, 11, 20}
  BY DEF IInv, TypeOK, ProcOK
<1>2. w_busy = 0
  BY <1>1 DEF IInv, TypeOK, Bit, RamOK, AnyEdge, DdrSide, RamStep, RamIdle, RamCommand,
              RamReadDone, RamReplied, RamWriteDone, ddrVars
<1>3. ~ WriteUnderWay
  BY <1>1, <1>2 DEF IInv, TypeOK, Cmd, Bit, RamOK, WriteUnderWay
<1>4. WriteUnderWay' <=> state' = 20
  BY <1>1 DEF IInv, TypeOK, Cmd, Bit, RamOK, WriteUnderWay
<1> QED  BY <1>3, <1>4, DramKeepsLogicalMem

(* Accepting a read leaves the logical memory alone.                       *)
LEMMA ReadAccepted ==
  ASSUME IInv, IInv', NEW idle \in BOOLEAN, NEW e1 \in BOOLEAN, NEW e2 \in BOOLEAN,
         NEW wp1, NEW wp2, AnyEdge(idle, e1, e2, wp1, wp2), state = 0, PrepareRead
  PROVE  Abstract!AcceptRead(i_addr)
<1>1. LogicalMem' = LogicalMem
  BY AcceptedWhenDone DEF LogicalMem, PrepareRead
<1> QED  BY <1>1 DEF PrepareRead, Abstract!AcceptRead, Phase

(* Accepting a write changes the logical memory as the client asked.       *)
LEMMA WriteAccepted ==
  ASSUME IInv, IInv', NEW idle \in BOOLEAN, NEW e1 \in BOOLEAN, NEW e2 \in BOOLEAN,
         NEW wp1, NEW wp2, AnyEdge(idle, e1, e2, wp1, wp2), state = 0, PrepareWrite
  PROVE  Abstract!AcceptWrite(i_addr, i_data, i_ctrl)
<1>1. LogicalMem' = [LogicalMem EXCEPT ![i_addr] = MergeLanes(@, i_data, i_ctrl)]
  BY AcceptedWhenDone DEF LogicalMem, PrepareWrite
<1> QED
  BY <1>1 DEF PrepareWrite, Abstract!AcceptWrite, Abstract!WriteWord, Abstract!MergeLanes,
              MergeLanes, Phase

(* Every other edge is a step of the abstract memory that leaves its store *)
(* alone, or a stutter of it.                                              *)
LEMMA OtherRefines ==
  ASSUME IInv, IInv', NEW idle \in BOOLEAN, NEW e1 \in BOOLEAN, NEW e2 \in BOOLEAN,
         NEW wp1, NEW wp2, AnyEdge(idle, e1, e2, wp1, wp2), ~ Accepting
  PROVE  Abstract!Fetch \/ Abstract!Respond \/ UNCHANGED Abstract!wmVars
<1>1. LogicalMem' = LogicalMem /\ r_addr' = r_addr
  BY LogicalMemStable, RequestStable
<1>2. CASE UNCHANGED <<state, r_dram_odata>>
  BY <1>1, <1>2 DEF Abstract!wmVars, Phase
<1>3. CASE ProcTakeData
  <2>1. Dout2 = mem[r_addr] /\ ~ WriteUnderWay
    BY <1>3, PtrFacts DEF IInv, TypeOK, Bit, Cmd, ProcTakeData, WriteUnderWay, ChainsOK, Chain,
       ProcOK, RamOK, RequestOK, AnswerOK, IsRequest, Bit01, ReadPhase, Full2, Empty2, Dout2
  <2> QED  BY <1>1, <1>3, <2>1 DEF ProcTakeData, Abstract!Fetch, Phase, LogicalMem
<1>4. CASE ProcReadDone \/ ProcAwaitWrite(idle, e1)
  BY <1>1, <1>4 DEF ProcReadDone, ProcAwaitWrite, Abstract!Respond, Abstract!wmVars, Phase
<1>5. CASE ProcPush \/ ProcPushed(e1) \/ ProcAwaitData(e1)
  BY <1>1, <1>5 DEF ProcPush, ProcPushed, ProcAwaitData, Abstract!wmVars, Phase
<1>6. CASE ProcIdle(idle, e1)
  BY <1>1, <1>6 DEF ProcIdle, PrepareRead, PrepareWrite, procVars, Accepting,
                    Abstract!wmVars, Phase
<1> QED
  BY <1>2, <1>3, <1>4, <1>5, <1>6 DEF AnyEdge, ProcSide, ProcStep, procVars

(* Every edge is a step of the abstract memory, or a stutter of it.        *)
LEMMA AnyRefines ==
  ASSUME IInv, IInv', NEW idle \in BOOLEAN, NEW e1 \in BOOLEAN, NEW e2 \in BOOLEAN,
         NEW wp1, NEW wp2, AnyEdge(idle, e1, e2, wp1, wp2)
  PROVE  [Abstract!WMNext]_(Abstract!wmVars)
<1>1. CASE ~ Accepting
  BY <1>1, OtherRefines DEF Abstract!WMNext
<1>2. CASE Accepting
  <2>1. state = 0 /\ idle /\ (PrepareRead \/ PrepareWrite)
    BY <1>2 DEF Accepting, AnyEdge, ProcSide, ProcStep, ProcIdle, ProcPush, ProcPushed,
                ProcAwaitData, ProcTakeData, ProcReadDone, ProcAwaitWrite, procVars
  <2>2. i_addr \in Addr /\ i_data \in Abstract!Word /\ i_ctrl \in SUBSET Lane
    BY DEF IInv, TypeOK, Word, Abstract!Word
  <2>3. CASE PrepareRead
    BY <2>1, <2>2, <2>3, ReadAccepted DEF Abstract!WMNext
  <2>4. CASE PrepareWrite
    BY <2>1, <2>2, <2>4, WriteAccepted DEF Abstract!WMNext
  <2> QED  BY <2>1, <2>3, <2>4
<1> QED  BY <1>1, <1>2

(* The refinement: DRAM_conRV, its fifos and the DRAM together behave like *)
(* a memory with one port, whatever the order of the clock edges.          *)
THEOREM BridgeIsAMemory == Spec => ImplementsWordMemory
<1>1. Init => Abstract!WMInit
  BY BridgeAssumption DEF Init, Abstract!WMInit, Abstract!WMTypeOK, Abstract!Word,
     Abstract!Phases, Phase, Word, LogicalMem, WriteUnderWay
<1>2. IInv /\ IInv' /\ [Next]_vars => [Abstract!WMNext]_(Abstract!wmVars)
  <2> SUFFICES ASSUME IInv, IInv', [Next]_vars PROVE [Abstract!WMNext]_(Abstract!wmVars)
    OBVIOUS
  <2>1. CASE ClkEdge \/ CtrlEdge \/ BothEdges \/ UNCHANGED vars
    <3>1. AnyEdge(ramstate = 0, Empty1, Empty2, waddr1, waddr2)
      BY <2>1 DEF ClkEdge, CtrlEdge, BothEdges, CoincidentEdges, vars, Samples, MaySeeIdle,
                  AnyEdge, ProcSide, DdrSide, Empty1, Empty2
    <3>2. (ramstate = 0) \in BOOLEAN /\ Empty1 \in BOOLEAN /\ Empty2 \in BOOLEAN
      BY DEF Empty1, Empty2
    <3> QED  BY <3>1, <3>2, AnyRefines
  <2>2. CASE RacingEdges
    BY <2>2, AnyRefines DEF RacingEdges, CoincidentEdges, AnyEdge, ProcSide, DdrSide
  <2> QED  BY <2>1, <2>2 DEF Next
<1> QED  BY <1>1, <1>2, Invariance, PTL DEF Spec, ImplementsWordMemory, Abstract!WMSpec

-------------------------------------------------------------------------------
(* Where no flag is caught in its change, a write is not ended before the  *)
(* controller is idle again, and until the client sees the end nobody      *)
(* changes the word.  The client holds its request all the while.          *)
WriteEnded ==
  /\ cst \in {10, 11} /\ state \in {20, 21, 22} =>
       r_addr = i_addr /\ r_wdata = i_data /\ r_mask = i_ctrl
  /\ cst = 11 /\ state = 0 =>
       /\ ramstate = 0
       /\ r_addr = i_addr /\ r_wdata = i_data /\ r_mask = i_ctrl
       /\ Written

(* An edge at which nothing is caught in its change.                       *)
TimedEdge == AnyEdge(ramstate = 0, Empty1, Empty2, waddr1, waddr2)

LEMMA RequestHeld ==
  ASSUME IInv, WriteEnded, TimedEdge,
         cst' \in {10, 11}, state' \in {20, 21, 22} \/ (cst' = 11 /\ state' = 0)
  PROVE  r_addr' = i_addr' /\ r_wdata' = i_data' /\ r_mask' = i_ctrl'
<1> USE DEF IInv, TypeOK, ClientOK, WriteEnded
<1>1. cst \in {10, 11} /\ i_addr' = i_addr /\ i_data' = i_data /\ i_ctrl' = i_ctrl
  BY DEF TimedEdge, AnyEdge, ProcSide, ClientStep, ClientIdle, ClientRead, ClientWrite,
         ClientDropRead, ClientDropWrite, ClientDone, cltVars, ProcStep, ProcIdle, ProcPush,
         ProcPushed, ProcAwaitData, ProcTakeData, ProcReadDone, ProcAwaitWrite, procVars,
         PrepareRead, PrepareWrite, Bit
<1>2. cst' = 11 => cst = 11 \/ state # 0
  BY DEF TimedEdge, AnyEdge, ProcSide, ClientStep, ClientIdle, ClientRead, ClientWrite,
         ClientDropRead, ClientDropWrite, ClientDone, cltVars, Bit
<1> QED
  BY <1>1, <1>2 DEF TimedEdge, AnyEdge, ProcSide, ProcStep, ProcIdle, ProcPush, ProcPushed,
         ProcAwaitData, ProcTakeData, ProcReadDone, ProcAwaitWrite, procVars, PrepareRead,
         PrepareWrite, Bit

(* The end of a write, and the wait until the client sees it.              *)
LEMMA EndIsSeen ==
  ASSUME IInv, WriteEnded, TimedEdge, cst' = 11, state' = 0
  PROVE  ramstate' = 0 /\ Written'
<1> USE DEF IInv, TypeOK
<1>1. ramstate = 0 /\ Empty1 /\ Written /\ UNCHANGED <<r_addr, r_wdata, r_mask>>
  <2>1. CASE state = 0
    <3>1. cst = 11
      BY <2>1 DEF TimedEdge, AnyEdge, ProcSide, ClientStep, ClientIdle, ClientRead, ClientWrite,
         ClientDropRead, ClientDropWrite, ClientDone, cltVars, ClientOK, Bit
    <3>2. Empty1
      BY <2>1 DEF ProcOK, Quiet1, ChainsOK, Chain, Empty1
    <3> QED
      BY <2>1, <3>1, <3>2, RequestStable DEF WriteEnded, Accepting, TimedEdge, Empty1, Empty2
  <2>2. CASE state # 0
    <3>1. cst \in {10, 11} /\ state \in {0, 20, 21, 22}
      BY <2>2 DEF TimedEdge, AnyEdge, ProcSide, ClientStep, ClientIdle, ClientRead, ClientWrite,
         ClientDropRead, ClientDropWrite, ClientDone, cltVars, ClientOK
    <3>2. state = 22 /\ Empty1 /\ ramstate = 0
      BY <2>2, <3>1 DEF TimedEdge, AnyEdge, ProcSide, ProcStep, ProcIdle, ProcPush, ProcPushed,
         ProcAwaitData, ProcTakeData, ProcReadDone, ProcAwaitWrite, procVars
    <3>3. Written
      BY <3>2 DEF ProcOK, WrittenOK, Full1, Bit
    <3> QED
      BY <3>2, <3>3, RequestStable DEF Accepting, TimedEdge, Empty1, Empty2
  <2> QED  BY <2>1, <2>2
<1>2. ramstate' = 0
  BY <1>1 DEF TimedEdge, AnyEdge, DdrSide, RamStep, RamIdle, RamCommand, RamReadDone, RamReplied,
     RamWriteDone, ddrVars
<1>3. mem' = mem
  BY <1>1 DEF TimedEdge, AnyEdge, DdrSide, RamOK, DramStep, DramProgress, DramWait, DramAccept,
     DramRead, DramWrite, dramVars
<1> QED  BY <1>1, <1>2, <1>3 DEF Written

(* Clocks of known periods are clocks, so all of the above holds of them.  *)
LEMMA ClockedSteps == [ClockedNext]_clockedVars => [Next]_vars
BY DEF ClockedNext, TimedClkEdge, TimedCtrlEdge, TimedBothEdges, clockedVars, Next

(* Of the inductive invariant, what holds at timed paths only.             *)
TimedInv == IInv /\ (related => WriteEnded)

LEMMA TimedStep == TimedInv /\ [ClockedNext]_clockedVars => TimedInv'
<1> SUFFICES ASSUME TimedInv, [ClockedNext]_clockedVars PROVE TimedInv'
  OBVIOUS
<1>1. IInv'
  BY ClockedSteps, InvStep DEF TimedInv
<1>2. ASSUME related' PROVE WriteEnded'
  <2>1. IInv /\ WriteEnded /\ related
    BY <1>2 DEF TimedInv, ClockedNext, clockedVars
  <2>2. ClkEdge \/ CtrlEdge \/ BothEdges \/ UNCHANGED vars
    BY <2>1 DEF ClockedNext, TimedClkEdge, TimedCtrlEdge, TimedBothEdges, clockedVars
  <2>3. TimedEdge
    BY <2>2 DEF ClkEdge, CtrlEdge, BothEdges, CoincidentEdges, vars, Samples, MaySeeIdle,
                TimedEdge, AnyEdge, ProcSide, DdrSide, Empty1, Empty2
  <2> QED  BY <2>1, <2>3, RequestHeld, EndIsSeen DEF WriteEnded
<1> QED  BY <1>1, <1>2 DEF TimedInv

(* Where the tools time the paths between the clocks, the bridge is free   *)
(* after a write only when the DRAM has the data (memory.v:184-192), at    *)
(* whatever periods the clocks run.                                        *)
THEOREM BridgeWritesInDram == ClockedSpec => []WriteInDram
<1>1. ClockedInit => TimedInv
  BY InvInit DEF ClockedInit, Init, TimedInv, WriteEnded
<1>2. TimedInv => WriteInDram
  BY DEF TimedInv, IInv, ClientOK, WriteEnded, Written, WriteInDram
<1> QED  BY <1>1, <1>2, TimedStep, PTL DEF ClockedSpec
===============================================================================
