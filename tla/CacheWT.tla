-------------------------------- MODULE CacheWT --------------------------------
(***************************************************************************)
(* cache_ctrl and m_dram_cache (mem/cache_laurwt.v): a direct-mapped cache *)
(* that writes through.  A read that hits is answered in the next cycle,   *)
(* in which another request may be accepted; a read that misses goes to    *)
(* the memory and fills the line; a write goes to the memory, and replaces *)
(* the line when it is a whole word or clears it when it is not.           *)
(*                                                                         *)
(* The memory behind it is the one DramBridge implements.  A step is an    *)
(* edge of the processor clock, after the boot sequence (w_init_done).     *)
(***************************************************************************)
EXTENDS WordMemory, Naturals

CONSTANT LineOf       (* the index of the line an address belongs to       *)

Line == {LineOf[a] : a \in Addr}

ASSUME CacheAssumption == DOMAIN LineOf = Addr /\ Addr # {} /\ Val # {}

VARIABLES
  cstate,             (* state: 0 idle, 1 looked up, 2 to 4 miss, 10 and 11 write *)
  c_clr, c_we, c_idata,
  r_dram_le, r_dram_wr, r_dram_addr, r_dram_idata, r_dram_mask,
  lines,              (* m_bram: the entries of the cache                  *)
  r_odata, r_tag,     (* the entry the last edge read, and the tag it asked for *)
  awaited             (* the client waits for the word it asked for        *)

ctrlVars == <<cstate, c_clr, c_we, c_idata, r_dram_le, r_dram_wr, r_dram_addr,
              r_dram_idata, r_dram_mask>>
cacheVars == <<wmVars, ctrlVars, lines, r_odata, r_tag, awaited>>

Bit == 0..1

(* An address stands for its tag: with the index they are the same thing.  *)
Entry == [valid : BOOLEAN, tag : Addr, data : Word]

w_dram_busy == phase # "idle"
(* Slip: any valid entry is a hit.                                         *)
c_oeAnyTag == r_odata.valid

c_oe == r_odata.valid /\ r_odata.tag = r_tag
o_busy == cstate \notin {0, 1} \/ (cstate = 1 /\ ~ c_oe)
o_data == IF cstate = 1 /\ c_oe THEN r_odata.data ELSE out

CacheInit ==
  /\ WMInit
  /\ cstate = 0 /\ c_clr = 0 /\ c_we = 0 /\ r_dram_le = 0 /\ r_dram_wr = 0
  /\ r_dram_addr = addr /\ r_dram_mask = {} /\ r_dram_idata = out /\ c_idata = out
  /\ r_tag = addr /\ r_odata = [valid |-> FALSE, tag |-> addr, data |-> out]
  /\ lines = [i \in Line |-> r_odata]
  /\ awaited = FALSE

-------------------------------------------------------------------------------
(* rd, wr, a, d and m are the client's i_rd_en, i_wr_en, i_addr, i_data and *)
(* i_mask at this edge.                                                    *)
TakeRead(a, m) ==
  /\ cstate' = 1 /\ r_dram_addr' = a /\ r_dram_mask' = m
  /\ UNCHANGED <<c_clr, c_we, c_idata, r_dram_le, r_dram_wr, r_dram_idata>>

(* Slip: a partial write is cached as a whole word.                        *)
TakeWriteCached(a, d, m) ==
  /\ cstate' = 10 /\ c_we' = 1 /\ c_idata' = d
  /\ r_dram_wr' = 1 /\ r_dram_mask' = m /\ r_dram_addr' = a /\ r_dram_idata' = d
  /\ UNCHANGED <<c_clr, r_dram_le>>

TakeWrite(a, d, m) ==
  /\ cstate' = 10
  /\ IF m = Lane THEN c_we' = 1 /\ c_idata' = d /\ UNCHANGED c_clr
                 ELSE c_clr' = 1 /\ UNCHANGED <<c_we, c_idata>>
  /\ r_dram_wr' = 1 /\ r_dram_mask' = m /\ r_dram_addr' = a /\ r_dram_idata' = d
  /\ UNCHANGED r_dram_le

TakeNone == cstate' = 0 /\ UNCHANGED <<c_clr, c_we, c_idata, r_dram_le, r_dram_wr,
                                       r_dram_addr, r_dram_idata, r_dram_mask>>

CheckNewReq(rd, wr, a, d, m) ==
  /\ cstate = 0 \/ (cstate = 1 /\ c_oe)
  /\ \/ rd /\ TakeRead(a, m)
     \/ ~ rd /\ wr /\ TakeWrite(a, d, m)
     \/ ~ rd /\ ~ wr /\ TakeNone

ReadMiss ==
  /\ cstate = 1 /\ ~ c_oe
  /\ r_dram_le' = 1 /\ cstate' = 2
  /\ UNCHANGED <<c_clr, c_we, c_idata, r_dram_wr, r_dram_addr, r_dram_idata, r_dram_mask>>

ReadTaken ==
  /\ cstate = 2
  /\ IF w_dram_busy THEN cstate' = 3 /\ r_dram_le' = 0 ELSE UNCHANGED <<cstate, r_dram_le>>
  /\ UNCHANGED <<c_clr, c_we, c_idata, r_dram_wr, r_dram_addr, r_dram_idata, r_dram_mask>>

ReadBack ==
  /\ cstate = 3
  /\ IF w_dram_busy THEN UNCHANGED <<cstate, c_we, c_idata>>
                    ELSE c_we' = 1 /\ c_idata' = out /\ cstate' = 4
  /\ UNCHANGED <<c_clr, r_dram_le, r_dram_wr, r_dram_addr, r_dram_idata, r_dram_mask>>

Filled ==
  /\ cstate = 4
  /\ c_we' = 0 /\ cstate' = 0
  /\ UNCHANGED <<c_clr, c_idata, r_dram_le, r_dram_wr, r_dram_addr, r_dram_idata, r_dram_mask>>

WriteTaken ==
  /\ cstate = 10
  /\ c_clr' = 0 /\ c_we' = 0
  /\ IF w_dram_busy THEN cstate' = 11 /\ r_dram_wr' = 0 ELSE UNCHANGED <<cstate, r_dram_wr>>
  /\ UNCHANGED <<c_idata, r_dram_le, r_dram_addr, r_dram_idata, r_dram_mask>>

WriteBack ==
  /\ cstate = 11
  /\ cstate' = IF w_dram_busy THEN 11 ELSE 0
  /\ UNCHANGED <<c_clr, c_we, c_idata, r_dram_le, r_dram_wr, r_dram_addr,
                 r_dram_idata, r_dram_mask>>

CtrlStep(rd, wr, a, d, m) ==
  \/ CheckNewReq(rd, wr, a, d, m)
  \/ ReadMiss \/ ReadTaken \/ ReadBack \/ Filled
  \/ WriteTaken \/ WriteBack

(* The block RAM writes before it reads.                                   *)
c_addr(a) == IF cstate \in {0, 1} THEN a ELSE r_dram_addr

CacheArray(a) ==
  LET new == [valid |-> c_we = 1, tag |-> c_addr(a), data |-> c_idata] IN
  /\ IF c_we = 1 \/ c_clr = 1
       THEN lines' = [lines EXCEPT ![LineOf[c_addr(a)]] = new] /\ r_odata' = new
       ELSE lines' = lines /\ r_odata' = lines[LineOf[c_addr(a)]]
  /\ r_tag' = c_addr(a)

(* The memory answers the cache's registered request, when it will.        *)
MemoryStep ==
  \/ UNCHANGED wmVars
  \/ r_dram_le = 1 /\ AcceptRead(r_dram_addr)
  \/ r_dram_le = 0 /\ r_dram_wr = 1 /\ AcceptWrite(r_dram_addr, r_dram_idata, r_dram_mask)
  \/ Fetch
  \/ Respond

CacheEdge(rd, wr, a, d, m) ==
  /\ CtrlStep(rd, wr, a, d, m) /\ CacheArray(a) /\ MemoryStep
  /\ awaited' = IF o_busy THEN awaited ELSE rd

(* Any client: what it asks for while the cache is busy is not looked at.  *)
CacheNext ==
  \E rd, wr \in BOOLEAN, a \in Addr, d \in Word, m \in SUBSET Lane :
    CacheEdge(rd, wr, a, d, m)

CacheSpec == CacheInit /\ [][CacheNext]_cacheVars

-------------------------------------------------------------------------------
CacheTypeOK ==
  /\ WMTypeOK
  /\ cstate \in {0, 1, 2, 3, 4, 10, 11} /\ c_clr \in Bit /\ c_we \in Bit /\ c_idata \in Word
  /\ r_dram_le \in Bit /\ r_dram_wr \in Bit /\ r_dram_addr \in Addr
  /\ r_dram_idata \in Word /\ r_dram_mask \in SUBSET Lane
  /\ lines \in [Line -> Entry] /\ r_odata \in Entry /\ r_tag \in Addr
  /\ awaited \in BOOLEAN

(* The memory as the client knows it: a write counts from the edge at      *)
(* which the cache takes it, though the memory has yet to accept it.       *)
CachedStore ==
  IF cstate = 10 /\ ~ w_dram_busy
    THEN WriteWord(store, r_dram_addr, r_dram_idata, r_dram_mask)
    ELSE store

(* A valid line holds what the client wrote last; the line of a write just *)
(* taken is about to be replaced or cleared.                               *)
Coherent ==
  \A i \in Line :
    lines[i].valid =>
      \/ lines[i].data = CachedStore[lines[i].tag]
      \/ (c_we = 1 \/ c_clr = 1) /\ i = LineOf[r_dram_addr]

(* The word the cache answers a read with is the last one written there.   *)
ReadsLatest == awaited /\ ~ o_busy => o_data = CachedStore[r_dram_addr]

(* Only a write the client asked for changes the memory it knows.          *)
OnlyWritesChange ==
  [][CachedStore' # CachedStore =>
       /\ ~ o_busy /\ cstate' = 10
       /\ CachedStore' = WriteWord(CachedStore, r_dram_addr', r_dram_idata', r_dram_mask')]_cacheVars

===============================================================================
