----------------------------- MODULE CacheWTProofs -----------------------------
(***************************************************************************)
(* Proofs about the write-through cache, for every set of addresses, every *)
(* shape of the cache and every client.                                    *)
(***************************************************************************)
EXTENDS CacheWT, TLAPS

(* What the controller and the memory are doing in each of its states.     *)
HandshakeOK ==
  /\ cstate \in {0, 1, 4} => phase = "idle"
  /\ cstate = 2 => phase \in {"idle", "rd"}
  /\ cstate = 3 => phase \in {"idle", "rd", "done"}
  /\ cstate \in {10, 11} => phase \in {"idle", "wr"}
  /\ r_dram_le = (IF cstate = 2 THEN 1 ELSE 0)
  /\ r_dram_wr = (IF cstate = 10 THEN 1 ELSE 0)
  /\ phase # "idle" => addr = r_dram_addr
  /\ c_we = 1 => cstate \in {4, 10}
  /\ c_clr = 1 => cstate = 10 /\ c_we = 0
  /\ cstate = 4 => c_we = 1
  /\ cstate \in {1, 2, 3, 4} => awaited
  /\ awaited => cstate \in {0, 1, 2, 3, 4}

(* The word on its way back from the memory is the one it holds.           *)
FetchedOK ==
  /\ phase = "done" => out = store[r_dram_addr]
  /\ cstate = 3 /\ phase = "idle" => out = store[r_dram_addr]
  /\ cstate = 4 => out = store[r_dram_addr] /\ c_idata = out
  /\ cstate = 0 /\ awaited => out = store[r_dram_addr]
  /\ c_we = 1 => c_idata = CachedStore[r_dram_addr]

(* A line sits at its index, and the entry looked up is that of the address. *)
PlacedOK ==
  /\ \A i \in Line : lines[i].valid => LineOf[lines[i].tag] = i
  /\ cstate = 1 => r_odata = lines[LineOf[r_dram_addr]] /\ r_tag = r_dram_addr

CInv == CacheTypeOK /\ HandshakeOK /\ FetchedOK /\ PlacedOK /\ Coherent

-------------------------------------------------------------------------------
(* Writing a word gives a store with that word merged and the others kept. *)
LEMMA WriteWordFacts ==
  ASSUME NEW s \in [Addr -> Word], NEW a \in Addr, NEW d \in Word, NEW m
  PROVE  /\ WriteWord(s, a, d, m) \in [Addr -> Word]
         /\ WriteWord(s, a, d, m)[a] = MergeLanes(s[a], d, m)
         /\ \A b \in Addr \ {a} : WriteWord(s, a, d, m)[b] = s[b]
<1>1. MergeLanes(s[a], d, m) \in Word
  BY DEF MergeLanes, Word
<1> QED  BY <1>1 DEF WriteWord

(* A word whose lanes are all written is the word written.                 *)
LEMMA MergeAll ==
  ASSUME NEW w \in Word, NEW d \in Word
  PROVE  MergeLanes(w, d, Lane) = d
BY DEF MergeLanes, Word

(* Every address has a line.                                               *)
LEMMA LineFacts == \A a \in Addr : LineOf[a] \in Line
BY CacheAssumption DEF Line

Taking(wr) == cstate \in {0, 1} /\ ~ o_busy /\ wr

(* The memory keeps its types.                                             *)
LEMMA MemoryTyping ==
  ASSUME CacheTypeOK, MemoryStep
  PROVE  WMTypeOK'
<1> USE DEF CacheTypeOK, WMTypeOK, Phases
<1>1. CASE UNCHANGED wmVars
  BY <1>1 DEF wmVars
<1>2. CASE r_dram_le = 1 /\ AcceptRead(r_dram_addr)
  BY <1>2 DEF AcceptRead
<1>3. CASE r_dram_le = 0 /\ r_dram_wr = 1 /\ AcceptWrite(r_dram_addr, r_dram_idata, r_dram_mask)
  BY <1>3, WriteWordFacts DEF AcceptWrite
<1>4. CASE Fetch
  BY <1>4 DEF Fetch
<1>5. CASE Respond
  BY <1>5 DEF Respond
<1> QED  BY <1>1, <1>2, <1>3, <1>4, <1>5 DEF MemoryStep

(* Every edge keeps the types.                                             *)
LEMMA EdgeTyping ==
  ASSUME CInv, NEW rd \in BOOLEAN, NEW wr \in BOOLEAN, NEW a \in Addr, NEW d \in Word,
         NEW m \in SUBSET Lane, CacheEdge(rd, wr, a, d, m)
  PROVE  CacheTypeOK'
<1> USE DEF CInv, CacheTypeOK, WMTypeOK, Bit, CacheEdge
<1>1. WMTypeOK'
  BY MemoryTyping
<1>2. /\ cstate' \in {0, 1, 2, 3, 4, 10, 11} /\ c_clr' \in Bit /\ c_we' \in Bit
      /\ c_idata' \in Word /\ r_dram_le' \in Bit /\ r_dram_wr' \in Bit
      /\ r_dram_addr' \in Addr /\ r_dram_idata' \in Word /\ r_dram_mask' \in SUBSET Lane
  BY DEF CtrlStep, CheckNewReq, TakeRead, TakeWrite, TakeNone, ReadMiss, ReadTaken,
         ReadBack, Filled, WriteTaken, WriteBack
<1>3. lines' \in [Line -> Entry] /\ r_odata' \in Entry /\ r_tag' \in Addr
  <2>1. c_addr(a) \in Addr /\ LineOf[c_addr(a)] \in Line
    BY LineFacts DEF c_addr
  <2>2. [valid |-> c_we = 1, tag |-> c_addr(a), data |-> c_idata] \in Entry
    BY <2>1 DEF Entry
  <2> QED  BY <2>1, <2>2 DEF CacheArray
<1>4. awaited' \in BOOLEAN
  OBVIOUS
<1> QED  BY <1>1, <1>2, <1>3, <1>4

(* Every edge keeps the controller and the memory in step.                 *)
LEMMA EdgeHandshake ==
  ASSUME CInv, NEW rd \in BOOLEAN, NEW wr \in BOOLEAN, NEW a \in Addr, NEW d \in Word,
         NEW m \in SUBSET Lane, CacheEdge(rd, wr, a, d, m)
  PROVE  HandshakeOK'
BY DEF CInv, CacheTypeOK, WMTypeOK, Phases, Bit, HandshakeOK, CacheEdge, CtrlStep, CheckNewReq,
       TakeRead, TakeWrite, TakeNone, ReadMiss, ReadTaken, ReadBack, Filled, WriteTaken,
       WriteBack, MemoryStep, wmVars, AcceptRead, AcceptWrite, Fetch, Respond, w_dram_busy,
       o_busy

(* The memory the client knows changes only by the write it is granted.    *)
LEMMA EdgeStore ==
  ASSUME CInv, NEW rd \in BOOLEAN, NEW wr \in BOOLEAN, NEW a \in Addr, NEW d \in Word,
         NEW m \in SUBSET Lane, CacheEdge(rd, wr, a, d, m)
  PROVE  /\ CachedStore' = (IF Taking(wr) /\ ~ rd THEN WriteWord(CachedStore, a, d, m)
                                                 ELSE CachedStore)
         /\ Taking(wr) /\ ~ rd => cstate' = 10 /\ r_dram_addr' = a /\ r_dram_idata' = d /\ r_dram_mask' = m
<1> USE DEF CInv, CacheTypeOK, WMTypeOK, Phases, Bit, HandshakeOK, CacheEdge, Taking, CachedStore,
            CtrlStep, MemoryStep, wmVars, AcceptRead, AcceptWrite, Fetch, Respond, w_dram_busy,
            o_busy
<1>1. CASE CheckNewReq(rd, wr, a, d, m)
  BY <1>1 DEF CheckNewReq, TakeRead, TakeWrite, TakeNone
<1>2. CASE ReadMiss \/ ReadTaken \/ ReadBack \/ Filled
  BY <1>2 DEF ReadMiss, ReadTaken, ReadBack, Filled
<1>3. CASE WriteTaken \/ WriteBack
  BY <1>3 DEF WriteTaken, WriteBack
<1> QED  BY <1>1, <1>2, <1>3

(* Every edge keeps what comes back from the memory right.                 *)
LEMMA EdgeFetched ==
  ASSUME CInv, NEW rd \in BOOLEAN, NEW wr \in BOOLEAN, NEW a \in Addr, NEW d \in Word,
         NEW m \in SUBSET Lane, CacheEdge(rd, wr, a, d, m), HandshakeOK'
  PROVE  FetchedOK'
<1>0. Taking(wr) /\ ~ rd => CachedStore' = WriteWord(CachedStore, a, d, m)
  BY EdgeStore
<1> USE DEF CInv, CacheTypeOK, WMTypeOK, Phases, Bit, HandshakeOK, FetchedOK, CacheEdge, Taking,
            CtrlStep, MemoryStep, wmVars, AcceptRead, AcceptWrite, Fetch, Respond, w_dram_busy,
            o_busy
<1>1. CASE CheckNewReq(rd, wr, a, d, m)
  <2>1. CachedStore \in [Addr -> Word]
    BY WriteWordFacts DEF CachedStore
  <2>2. CASE Taking(wr) /\ ~ rd /\ m = Lane
    <3>1. CachedStore'[a] = d
      <4>1. CachedStore' = WriteWord(CachedStore, a, d, Lane)
        BY <1>0, <2>2
      <4>2. CachedStore[a] \in Word
        BY <2>1
      <4> QED  BY <2>1, <4>1, <4>2, WriteWordFacts, MergeAll
    <3>2. c_idata' = d /\ r_dram_addr' = a /\ cstate' = 10 /\ awaited' = FALSE
      BY <1>1, <2>2 DEF CheckNewReq, TakeWrite
    <3> QED  BY <3>1, <3>2
  <2>3. CASE ~ (Taking(wr) /\ ~ rd /\ m = Lane)
    BY <1>1, <2>3 DEF CheckNewReq, TakeRead, TakeWrite, TakeNone
  <2> QED  BY <2>2, <2>3
<1>2. CASE ReadMiss \/ ReadTaken \/ ReadBack \/ Filled
  BY <1>2 DEF ReadMiss, ReadTaken, ReadBack, Filled, CachedStore
<1>3. CASE WriteTaken \/ WriteBack
  BY <1>3 DEF WriteTaken, WriteBack
<1> QED  BY <1>1, <1>2, <1>3

(* Every edge keeps the lines at their indices.                            *)
LEMMA EdgePlaced ==
  ASSUME CInv, NEW rd \in BOOLEAN, NEW wr \in BOOLEAN, NEW a \in Addr, NEW d \in Word,
         NEW m \in SUBSET Lane, CacheEdge(rd, wr, a, d, m)
  PROVE  PlacedOK'
<1> USE LineFacts DEF CInv, CacheTypeOK, Entry, Bit, HandshakeOK, PlacedOK, CacheEdge, CacheArray
<1>1. c_addr(a) \in Addr
  BY DEF c_addr
<1>2. \A i \in Line : lines'[i].valid => LineOf[lines'[i].tag] = i
  BY <1>1
<1>3. cstate' = 1 => r_odata' = lines'[LineOf[r_dram_addr']] /\ r_tag' = r_dram_addr'
  <2> SUFFICES ASSUME cstate' = 1 PROVE r_odata' = lines'[LineOf[r_dram_addr']] /\ r_tag' = r_dram_addr'
    OBVIOUS
  <2>1. cstate \in {0, 1} /\ r_dram_addr' = a
    BY DEF CtrlStep, CheckNewReq, TakeRead, TakeWrite, TakeNone, ReadMiss, ReadTaken,
           ReadBack, Filled, WriteTaken, WriteBack
  <2> QED  BY <2>1 DEF c_addr
<1> QED  BY <1>2, <1>3

(* Every edge keeps the cache coherent.                                    *)
LEMMA EdgeCoherent ==
  ASSUME CInv, NEW rd \in BOOLEAN, NEW wr \in BOOLEAN, NEW a \in Addr, NEW d \in Word,
         NEW m \in SUBSET Lane, CacheEdge(rd, wr, a, d, m), CacheTypeOK'
  PROVE  Coherent'
<1> USE LineFacts DEF CInv, CacheTypeOK, WMTypeOK, Entry, Bit
<1> SUFFICES ASSUME NEW i \in Line, lines'[i].valid
             PROVE  \/ lines'[i].data = CachedStore'[lines'[i].tag]
                    \/ (c_we' = 1 \/ c_clr' = 1) /\ i = LineOf[r_dram_addr']
  BY DEF Coherent
<1>0. CachedStore \in [Addr -> Word]
  BY WriteWordFacts DEF CachedStore
<1>1. CASE c_we = 1 \/ c_clr = 1
  <2>1. ~ Taking(wr) /\ CachedStore' = CachedStore /\ c_addr(a) = r_dram_addr
    BY <1>1, EdgeStore DEF HandshakeOK, Taking, c_addr
  <2>2. CASE i = LineOf[r_dram_addr]
    BY <1>1, <2>1, <2>2 DEF CacheEdge, CacheArray, FetchedOK
  <2>3. CASE i # LineOf[r_dram_addr]
    BY <1>1, <2>1, <2>3 DEF CacheEdge, CacheArray, Coherent
  <2> QED  BY <2>2, <2>3
<1>2. CASE ~ (c_we = 1 \/ c_clr = 1)
  <2>1. lines' = lines /\ lines[i].data = CachedStore[lines[i].tag] /\ LineOf[lines[i].tag] = i
        /\ lines[i].tag \in Addr
    BY <1>2 DEF CacheEdge, CacheArray, Coherent, PlacedOK
  <2>2. CASE Taking(wr) /\ ~ rd
    <3>1. cstate' = 10 /\ r_dram_addr' = a /\ (c_we' = 1 \/ c_clr' = 1)
      BY <2>2 DEF CacheEdge, CtrlStep, CheckNewReq, TakeRead, TakeWrite, TakeNone, ReadMiss,
         ReadTaken, ReadBack, Filled, WriteTaken, WriteBack, Taking, o_busy
    <3>2. CASE lines[i].tag = a
      BY <2>1, <3>1, <3>2
    <3>3. CASE lines[i].tag # a
      BY <1>0, <2>1, <2>2, <3>3, EdgeStore, WriteWordFacts
    <3> QED  BY <3>2, <3>3
  <2>3. CASE ~ (Taking(wr) /\ ~ rd)
    <3>1. CachedStore' = CachedStore
      BY <2>3, EdgeStore
    <3> QED  BY <2>1, <3>1
  <2> QED  BY <2>2, <2>3
<1> QED  BY <1>1, <1>2

(* The invariant holds at the start, and after every edge.                 *)
LEMMA CacheInvInit == CacheInit => CInv
<1> SUFFICES ASSUME CacheInit PROVE CInv
  OBVIOUS
<1>1. r_odata \in Entry /\ ~ r_odata.valid
  BY DEF CacheInit, WMInit, WMTypeOK, Entry
<1>2. CacheTypeOK
  <2>1. lines \in [Line -> Entry]
    BY <1>1 DEF CacheInit
  <2>2. WMTypeOK /\ addr \in Addr /\ out \in Word
    BY DEF CacheInit, WMInit, WMTypeOK
  <2>3. /\ cstate = 0 /\ c_clr = 0 /\ c_we = 0 /\ r_dram_le = 0 /\ r_dram_wr = 0
        /\ r_dram_addr = addr /\ r_dram_mask = {} /\ r_dram_idata = out /\ c_idata = out
        /\ r_tag = addr
    BY DEF CacheInit
  <2>4. awaited \in BOOLEAN
    BY DEF CacheInit
  <2> QED  BY <1>1, <2>1, <2>2, <2>3, <2>4 DEF CacheTypeOK, Bit
<1>3. HandshakeOK /\ FetchedOK
  BY DEF CacheInit, WMInit, HandshakeOK, FetchedOK
<1>4. PlacedOK /\ Coherent
  <2>1. cstate = 0 /\ \A i \in Line : lines[i] = r_odata
    BY DEF CacheInit
  <2> QED  BY <1>1, <2>1 DEF PlacedOK, Coherent
<1> QED  BY <1>2, <1>3, <1>4 DEF CInv

(* Every edge of the clock preserves the invariant, whatever the client    *)
(* asks for and whenever the memory answers.                               *)
LEMMA CacheInvStep == CInv /\ [CacheNext]_cacheVars => CInv'
<1> SUFFICES ASSUME CInv, [CacheNext]_cacheVars PROVE CInv'
  OBVIOUS
<1>1. CASE CacheNext
  <2> PICK rd \in BOOLEAN, wr \in BOOLEAN, a \in Addr, d \in Word, m \in SUBSET Lane :
             CacheEdge(rd, wr, a, d, m)
    BY <1>1 DEF CacheNext
  <2>1. CacheTypeOK' /\ HandshakeOK' /\ PlacedOK'
    BY EdgeTyping, EdgeHandshake, EdgePlaced
  <2>2. FetchedOK' /\ Coherent'
    BY <2>1, EdgeFetched, EdgeCoherent
  <2> QED  BY <2>1, <2>2 DEF CInv
<1>2. CASE UNCHANGED cacheVars
  BY <1>2 DEF CInv, CacheTypeOK, WMTypeOK, HandshakeOK, FetchedOK, PlacedOK, Coherent, CachedStore,
     w_dram_busy, cacheVars, wmVars, ctrlVars
<1> QED  BY <1>1, <1>2

(* The inductive invariant holds in every reachable state.                 *)
THEOREM CacheInvariance == CacheSpec => []CInv
BY CacheInvInit, CacheInvStep, PTL DEF CacheSpec

(* Every register of the cache keeps its type.                             *)
THEOREM CacheTypeCorrect == CacheSpec => []CacheTypeOK
<1>1. CInv => CacheTypeOK  BY DEF CInv
<1> QED  BY <1>1, CacheInvariance, PTL

(* A valid line never holds anything but the last word written to it.      *)
THEOREM CacheIsCoherent == CacheSpec => []Coherent
<1>1. CInv => Coherent  BY DEF CInv
<1> QED  BY <1>1, CacheInvariance, PTL

(* In the invariant an answer is the last word written, hit or miss.       *)
LEMMA AnswersLatest == CInv => ReadsLatest
<1> SUFFICES ASSUME CInv, awaited, ~ o_busy PROVE o_data = CachedStore[r_dram_addr]
  BY DEF ReadsLatest
<1> USE DEF CInv, CacheTypeOK, HandshakeOK, o_busy
<1>1. CASE cstate = 0
  BY <1>1 DEF FetchedOK, o_data, CachedStore
<1>2. CASE cstate = 1
  <2>1. LineOf[r_dram_addr] \in Line /\ r_odata.valid /\ r_odata.tag = r_dram_addr
    BY <1>2, LineFacts DEF c_oe, PlacedOK
  <2>2. r_odata.data = CachedStore[r_dram_addr]
    BY <1>2, <2>1 DEF PlacedOK, Coherent
  <2> QED  BY <1>2, <2>2 DEF o_data
<1> QED  BY <1>1, <1>2

(* Every read is answered with the last word written to its address, hit   *)
(* or miss, whatever was asked before it.                                  *)
THEOREM CacheReadsLatest == CacheSpec => []ReadsLatest
BY CacheInvariance, AnswersLatest, PTL

(* Nothing but a write the client is granted changes the memory it knows.  *)
THEOREM CacheOnlyWritesChange == CacheSpec => OnlyWritesChange
<1>1. CInv /\ [CacheNext]_cacheVars =>
        [CachedStore' # CachedStore =>
           /\ ~ o_busy /\ cstate' = 10
           /\ CachedStore' = WriteWord(CachedStore, r_dram_addr', r_dram_idata', r_dram_mask')]_cacheVars
  BY EdgeStore DEF CacheNext, Taking
<1> QED  BY <1>1, CacheInvariance, PTL DEF CacheSpec, OnlyWritesChange
===============================================================================
