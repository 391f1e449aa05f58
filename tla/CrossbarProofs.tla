----------------------------- MODULE CrossbarProofs -----------------------------
(***************************************************************************)
(* The bus keeps its transfers apart, for any number of masters and any    *)
(* slaves.  Which master an arbiter chooses does not matter to the proof,  *)
(* only that it chooses exactly one of those that ask; the invariant says  *)
(* where the address phase of a master that has ended for the master is:   *)
(* in the data phase of its slave or in that slave's buffer for it.        *)
(***************************************************************************)
EXTENDS Crossbar, WellFoundedInduction, TLAPS

(* A slave serves the transfer of the master that is granted, and is ready *)
(* when it serves none.                                                    *)
Serving(s) ==
  /\ served[s] = Vacant => gnt_d[s] = {} /\ resp[s] = "ready"
  /\ served[s] # Vacant => gnt_d[s] = {served[s].master} /\ served[s].transfer.to = s

(* The granted master is in the data phase of that very transfer.          *)
Granted(s) ==
  \A m \in gnt_d[s] :
    slave_sel[m] = s /\ dph[m] = served[s].transfer /\ buf[s][m] = Idle

(* A buffered transfer is the one its master is in the data phase of, and  *)
(* waits for another's.                                                    *)
Buffered(s) ==
  \A m \in Master : buf[s][m] # Idle =>
    /\ slave_sel[m] = s /\ dph[m] = buf[s][m] /\ buf[s][m].to = s
    /\ m \notin gnt_d[s] /\ gnt_d[s] # {}

(* A master whose splitter has chosen a slave is granted or buffered there.*)
Chosen(s) ==
  \A m \in Master : slave_sel[m] = s =>
    dph[m].to = s /\ (m \in gnt_d[s] \/ buf[s][m] # Idle)

SlaveInv(s) == Serving(s) /\ Granted(s) /\ Buffered(s) /\ Chosen(s)

CrossbarInv == CrossbarTypeOK /\ \A s \in Slave : SlaveInv(s)

-------------------------------------------------------------------------------
(* A set of masters that is not empty has a least.                         *)
LEMMA LowestExists ==
  ASSUME NEW R \in SUBSET Nat, R # {}
  PROVE  Lowest(R) # {}
<1> DEFINE L == {p \in Nat \X Nat : p[1] < p[2]}
<1>1. L = OpToRel(<, Nat)
  BY DEF OpToRel
<1>2. IsWellFoundedOn(L, Nat)
  BY <1>1, NatLessThanWellFounded, Zenon
<1>3. PICK m \in R : \A k \in R : ~ (<<k, m>> \in L)
  <2> HIDE DEF L
  <2> QED BY <1>2, WFMin
<1>4. \A k \in R : ~ (k < m)
  BY <1>3
<1> QED BY <1>4 DEF Lowest

(* And, as there are finitely many masters, a greatest: the least of their *)
(* distances from the last one.                                            *)
LEMMA HighestExists ==
  ASSUME NEW R \in SUBSET Master, R # {}
  PROVE  Highest(R) # {}
<1>0. N \in Nat
  BY CrossbarAssumption
<1> DEFINE T == {n \in Nat : N - 1 - n \in R}
<1>1. T # {}
  <2>1. PICK r \in R : TRUE  OBVIOUS
  <2>2. N - 1 - r \in T  BY <1>0, <2>1 DEF Master
  <2> QED BY <2>2
<1>2. PICK t \in T : \A k \in T : t <= k
  <2>1. T \in SUBSET Nat  OBVIOUS
  <2>2. Lowest(T) # {}  BY <1>1, <2>1, LowestExists
  <2> QED BY <2>2 DEF Lowest
<1>3. N - 1 - t \in R  BY <1>2
<1>4. ASSUME NEW k \in R PROVE k <= N - 1 - t
  <2>1. N - 1 - k \in T  BY <1>0 DEF Master
  <2>2. t <= N - 1 - k  BY <2>1, <1>2
  <2> QED BY <1>0, <2>2, <1>2, <1>4 DEF Master
<1> QED BY <1>3, <1>4 DEF Highest

(* Whichever end wins, an arbiter grants exactly one of the masters that   *)
(* ask it.                                                                 *)
LEMMA GrantsOne ==
  ASSUME NEW s \in Slave
  PROVE  /\ mast_gnt_a(s) \subseteq mast_req_a(s)
         /\ mast_req_a(s) # {} => \E m \in mast_req_a(s) : mast_gnt_a(s) = {m}
<1> DEFINE R == mast_req_a(s)
<1>1. R \in SUBSET Master
  BY DEF mast_req_a
<1>2. Master \subseteq Nat
  BY CrossbarAssumption DEF Master
<1> HIDE DEF R
<1>3. mast_gnt_a(s) = Lowest(R) \/ mast_gnt_a(s) = Highest(R)
  BY DEF mast_gnt_a, R
<1>4. Lowest(R) \subseteq R /\ Highest(R) \subseteq R
  BY DEF Lowest, Highest
<1>5. \A m, k \in Lowest(R) : m = k
  BY <1>1, <1>2 DEF Lowest
<1>6. \A m, k \in Highest(R) : m = k
  BY <1>1, <1>2 DEF Highest
<1>7. R # {} => Lowest(R) # {} /\ Highest(R) # {}
  BY <1>1, <1>2, LowestExists, HighestExists
<1>8. ASSUME R # {} PROVE \E m \in R : mast_gnt_a(s) = {m}
  <2>1. CASE mast_gnt_a(s) = Lowest(R)
    <3>1. PICK m \in Lowest(R) : TRUE  BY <1>7, <1>8
    <3>2. Lowest(R) = {m}  BY <3>1, <1>5
    <3> QED BY <2>1, <3>1, <3>2, <1>4
  <2>2. CASE mast_gnt_a(s) = Highest(R)
    <3>1. PICK m \in Highest(R) : TRUE  BY <1>7, <1>8
    <3>2. Highest(R) = {m}  BY <3>1, <1>6
    <3> QED BY <2>2, <3>1, <3>2, <1>4
  <2> QED BY <1>3, <2>1, <2>2
<1> QED BY <1>3, <1>4, <1>8 DEF R

-------------------------------------------------------------------------------
(* A master whose transfer is at a slave is ready when it is granted and   *)
(* the slave ends its transfer.                                            *)
LEMMA ReadyMaster ==
  ASSUME NEW s \in Slave, SlaveInv(s), NEW m \in Master, slave_sel[m] = s
  PROVE  hready(m) <=> m \in gnt_d[s] /\ dst_hready_resp(s)
BY DEF SlaveInv, Chosen, hready, src_hready_resp, mast_in_dphase

(* A slave is given an address phase in the cycle in which it ends the     *)
(* last one, and then always.                                              *)
LEMMA ReadySlave ==
  ASSUME CrossbarTypeOK, NEW s \in Slave, SlaveInv(s)
  PROVE  /\ dst_hready(s) => dst_hready_resp(s)
         /\ served[s] # Vacant => (dst_hready(s) <=> dst_hready_resp(s))
<1>1. CASE served[s] = Vacant
  BY <1>1 DEF SlaveInv, Serving, dst_hready_resp
<1>2. CASE served[s] # Vacant
  <2> DEFINE m == served[s].master
  <2>1. m \in Master /\ gnt_d[s] = {m} /\ slave_sel[m] = s
    BY <1>2 DEF SlaveInv, Serving, Granted, CrossbarTypeOK
  <2>2. hready(m) <=> dst_hready_resp(s)
    BY <2>1, ReadyMaster
  <2>3. dst_hready(s) <=> hready(m)
    BY <2>1 DEF dst_hready
  <2> QED BY <2>2, <2>3
<1> QED BY <1>1, <1>2

(* A master that asks a slave without being buffered there has ended, or   *)
(* ends now, whatever it was doing, and asks for what it drives.           *)
LEMMA AskingMaster ==
  ASSUME NEW s \in Slave, SlaveInv(s), NEW m \in mast_req_a(s), buf[s][m] = Idle,
         m \in gnt_d[s] => dst_hready_resp(s)
  PROVE  hready(m) /\ actual(s, m) = req[m] /\ req[m].to = s /\ req[m] # Idle
<1>1. m \in Master /\ actual(s, m) # Idle
      /\ (m \in gnt_d[s] \/ hready(m) \/ slave_sel[m] = s)
  BY DEF mast_req_a
<1>2. actual(s, m) = req[m] /\ req[m].to = s
  BY <1>1 DEF actual
<1>3. slave_sel[m] = s => m \in gnt_d[s]
  BY <1>1 DEF SlaveInv, Chosen
<1>4. m \in gnt_d[s] => slave_sel[m] = s
  BY DEF SlaveInv, Granted
<1>5. hready(m)
  BY <1>1, <1>3, <1>4, ReadyMaster
<1> QED BY <1>1, <1>2, <1>5

(* When nobody is granted nobody waits: a request is granted at once.      *)
LEMMA IdleSlave ==
  ASSUME NEW s \in Slave, SlaveInv(s), gnt_d[s] = {}, mast_req_a(s) # {}
  PROVE  dst_hready(s)
<1>1. PICK m \in mast_req_a(s) : mast_gnt_a(s) = {m}
  BY GrantsOne
<1>2. m \in Master
  BY DEF mast_req_a
<1>3. buf[s][m] = Idle
  BY <1>2 DEF SlaveInv, Buffered
<1>4. hready(m)
  BY <1>3, AskingMaster
<1> QED BY <1>1, <1>4 DEF dst_hready

(* What the splitter and the expectation of a master become.               *)
LEMMA MasterStep ==
  ASSUME Edge, NEW m \in Master, NEW s \in Slave
  PROVE  /\ hready(m) => dph'[m] = req[m] /\ (slave_sel'[m] = s <=> req[m].to = s)
         /\ ~ hready(m) => dph'[m] = dph[m] /\ (slave_sel'[m] = s <=> slave_sel[m] = s)
<1>1. s \notin {"none", "err1", "err2", "nowhere"}
  BY CrossbarAssumption
<1>2. dph'[m] = (IF hready(m) THEN req[m] ELSE dph[m]) /\ slave_sel'[m] = SplitterNext(m)
  BY DEF Edge
<1>3. slave_sel[m] = "err1" => slave_sel[m] # s
  BY <1>1
<1> QED BY <1>1, <1>2, <1>3 DEF SplitterNext

(* What an arbiter's registers and its slave's transfer become.            *)
LEMMA SlaveStep ==
  ASSUME Edge, NEW s \in Slave
  PROVE  /\ \A m \in Master : buf'[s][m] = BufNext(s, m)
         /\ gnt_d'[s] = GntNext(s) /\ served'[s] = ServedNext(s)
         /\ served'[s] = Vacant => resp'[s] = "ready"
<1>1. \A m \in Master : buf'[s][m] = BufNext(s, m)
  BY DEF Edge
<1>2. gnt_d'[s] = GntNext(s) /\ served'[s] = ServedNext(s)
  BY DEF Edge
<1>3. resp'[s] \in Responds(s)
  BY DEF Edge
<1> QED BY <1>1, <1>2, <1>3 DEF Responds

-------------------------------------------------------------------------------
(* A step in which the slave takes no address phase changes nothing of     *)
(* what it serves, and who ends an address phase there is buffered.        *)
LEMMA HoldingStep ==
  ASSUME CrossbarInv, Edge, NEW s \in Slave, ~ dst_hready(s)
  PROVE  SlaveInv(s)'
<1>0. SlaveInv(s) /\ CrossbarTypeOK
  BY DEF CrossbarInv
<1>1. gnt_d'[s] = gnt_d[s]
  BY SlaveStep DEF GntNext
<1>2. served'[s] = served[s]
  <2>1. served[s] # Vacant => ~ dst_hready_resp(s)
    BY <1>0, ReadySlave
  <2>2. served'[s] = IF dst_hready_resp(s) THEN Vacant ELSE served[s]
    BY SlaveStep DEF ServedNext
  <2> QED BY <2>1, <2>2
<1>3. ASSUME NEW m \in gnt_d[s]
      PROVE  m \in Master /\ slave_sel[m] = s /\ ~ hready(m) /\ buf[s][m] = Idle
  <2>1. m \in Master /\ slave_sel[m] = s /\ buf[s][m] = Idle
    BY <1>0 DEF SlaveInv, Granted, CrossbarTypeOK
  <2>2. ~ hready(m)
    BY <1>3 DEF dst_hready
  <2> QED BY <2>1, <2>2
<1>4. Serving(s)'
  BY <1>0, <1>1, <1>2, SlaveStep DEF SlaveInv, Serving
<1>5. Granted(s)'
  <2> SUFFICES ASSUME NEW m \in gnt_d[s]
               PROVE  slave_sel'[m] = s /\ dph'[m] = served[s].transfer /\ buf'[s][m] = Idle
    BY <1>1, <1>2 DEF Granted
  <2>1. slave_sel'[m] = s /\ dph'[m] = dph[m]
    BY <1>3, MasterStep
  <2>2. buf'[s][m] = Idle
    <3>1. m \notin buf_wen(s)
      BY <1>3 DEF buf_wen
    <3> QED BY <1>3, <3>1, SlaveStep DEF BufNext
  <2> QED BY <1>0, <2>1, <2>2 DEF SlaveInv, Granted
<1>6. Buffered(s)'
  <2> SUFFICES ASSUME NEW m \in Master, buf'[s][m] # Idle
               PROVE  /\ slave_sel'[m] = s /\ dph'[m] = buf'[s][m] /\ buf'[s][m].to = s
                      /\ m \notin gnt_d[s] /\ gnt_d[s] # {}
    BY <1>1 DEF Buffered
  <2>1. CASE m \in buf_wen(s)
    <3>1. hready(m) /\ m \in mast_req_a(s) /\ buf'[s][m] = req[m]
      BY <2>1, SlaveStep DEF buf_wen, BufNext
    <3>2. m \notin gnt_d[s]
      BY <3>1, <1>3
    <3>3. buf[s][m] = Idle
      BY <1>0, <3>1, ReadyMaster DEF SlaveInv, Buffered
    <3>4. req[m].to = s
      BY <1>0, <3>1, <3>2, <3>3, AskingMaster
    <3>5. gnt_d[s] # {}
      BY <1>0, <3>1, IdleSlave
    <3> QED BY <3>1, <3>2, <3>4, <3>5, MasterStep
  <2>2. CASE m \notin buf_wen(s)
    <3>1. buf'[s][m] = buf[s][m]
      BY <2>2, SlaveStep DEF BufNext
    <3>2. slave_sel[m] = s /\ m \notin gnt_d[s]
      BY <1>0, <3>1, <2>2 DEF SlaveInv, Buffered
    <3>3. ~ hready(m)
      BY <1>0, <3>2, ReadyMaster
    <3> QED BY <1>0, <3>1, <3>2, <3>3, MasterStep DEF SlaveInv, Buffered
  <2> QED BY <2>1, <2>2
<1>7. Chosen(s)'
  <2> SUFFICES ASSUME NEW m \in Master, slave_sel'[m] = s
               PROVE  dph'[m].to = s /\ (m \in gnt_d[s] \/ buf'[s][m] # Idle)
    BY <1>1 DEF Chosen
  <2>1. CASE hready(m)
    <3>1. dph'[m] = req[m] /\ req[m].to = s
      BY <2>1, MasterStep
    <3>2. req[m] # Idle
      BY <3>1, CrossbarAssumption DEF Idle
    <3>3. buf[s][m] = Idle
      BY <1>0, <2>1, ReadyMaster DEF SlaveInv, Buffered
    <3>4. m \in buf_wen(s)
      BY <2>1, <3>1, <3>2, <3>3 DEF buf_wen, mast_req_a, actual
    <3> QED BY <3>1, <3>2, <3>4, SlaveStep DEF BufNext
  <2>2. CASE ~ hready(m)
    <3>1. dph'[m] = dph[m] /\ slave_sel[m] = s
      BY <2>2, MasterStep
    <3>2. m \notin buf_wen(s)
      BY <2>2 DEF buf_wen
    <3> QED BY <1>0, <3>1, <3>2, SlaveStep DEF BufNext, SlaveInv, Chosen
  <2> QED BY <2>1, <2>2
<1> QED BY <1>4, <1>5, <1>6, <1>7 DEF SlaveInv

(* A step in which the slave takes the address phase it is granted, if     *)
(* any: it ends the last transfer in the same cycle.                       *)
LEMMA TakingStep ==
  ASSUME CrossbarInv, Edge, NEW s \in Slave, dst_hready(s)
  PROVE  SlaveInv(s)'
<1>0. SlaveInv(s) /\ CrossbarTypeOK /\ dst_hready_resp(s)
  BY ReadySlave DEF CrossbarInv
<1>1. gnt_d'[s] = mast_gnt_a(s) /\ mast_gnt_a(s) \subseteq mast_req_a(s)
      /\ mast_req_a(s) \subseteq Master
  BY SlaveStep, GrantsOne DEF GntNext, mast_req_a
<1>2. ASSUME NEW m \in mast_gnt_a(s)
      PROVE  /\ mast_gnt_a(s) = {m}
             /\ served'[s].master = m /\ served'[s].transfer = actual(s, m)
  <2>1. mast_gnt_a(s) = {m} /\ m \in Master
    BY <1>1, GrantsOne
  <2>2. (CHOOSE k \in Master : k \in mast_gnt_a(s)) = m
    BY <2>1
  <2>3. ServedNext(s) = [master |-> m, transfer |-> actual(s, m)]
    BY <2>1, <2>2 DEF ServedNext
  <2>4. ServedNext(s).master = m /\ ServedNext(s).transfer = actual(s, m)
    BY <2>3
  <2> QED BY <2>1, <2>4, SlaveStep
<1>3. ASSUME NEW m \in mast_gnt_a(s)
      PROVE  /\ slave_sel'[m] = s /\ dph'[m] = actual(s, m) /\ actual(s, m).to = s
             /\ buf'[s][m] = Idle
  <2>1. m \in Master /\ m \in mast_req_a(s) /\ m \notin buf_wen(s)
    BY <1>1 DEF buf_wen
  <2>2. buf'[s][m] = Idle
    BY <2>1, SlaveStep DEF BufNext
  <2>3. CASE buf[s][m] = Idle
    BY <1>0, <2>1, <2>2, <2>3, AskingMaster, MasterStep
  <2>4. CASE buf[s][m] # Idle
    <3>1. slave_sel[m] = s /\ dph[m] = buf[s][m] /\ buf[s][m].to = s /\ m \notin gnt_d[s]
      BY <1>0, <2>1, <2>4 DEF SlaveInv, Buffered
    <3>2. ~ hready(m)
      BY <1>0, <2>1, <3>1, ReadyMaster
    <3> QED BY <2>1, <2>2, <2>4, <3>1, <3>2, MasterStep DEF actual
  <2> QED BY <2>3, <2>4
<1>4. Serving(s)'
  <2>1. CASE mast_gnt_a(s) = {}
    <3>1. served'[s] = Vacant
      BY <2>1, SlaveStep DEF ServedNext
    <3> QED BY <1>1, <2>1, <3>1, SlaveStep DEF Serving
  <2>2. CASE mast_gnt_a(s) # {}
    <3>1. PICK m \in mast_gnt_a(s) : TRUE
      BY <2>2
    <3>2. served'[s].master = m /\ served'[s].transfer = actual(s, m)
      BY <1>2, <3>1
    <3>3. served'[s] # Vacant
      BY <3>2, <1>1, CrossbarAssumption DEF Vacant, Master
    <3> QED BY <1>1, <1>2, <1>3, <3>1, <3>2, <3>3 DEF Serving
  <2> QED BY <2>1, <2>2
<1>5. Granted(s)'
  <2> SUFFICES ASSUME NEW m \in mast_gnt_a(s)
               PROVE  slave_sel'[m] = s /\ dph'[m] = served'[s].transfer /\ buf'[s][m] = Idle
    BY <1>1 DEF Granted
  <2> QED BY <1>2, <1>3
<1>6. Buffered(s)'
  <2> SUFFICES ASSUME NEW m \in Master, buf'[s][m] # Idle
               PROVE  /\ slave_sel'[m] = s /\ dph'[m] = buf'[s][m] /\ buf'[s][m].to = s
                      /\ m \notin mast_gnt_a(s) /\ mast_gnt_a(s) # {}
    BY <1>1 DEF Buffered
  <2>0. m \notin mast_gnt_a(s)
    BY <1>3
  <2>1. CASE m \in buf_wen(s)
    <3>1. hready(m) /\ m \in mast_req_a(s) /\ buf'[s][m] = req[m]
      BY <2>1, SlaveStep DEF buf_wen, BufNext
    <3>2. buf[s][m] = Idle
      BY <1>0, <3>1, ReadyMaster DEF SlaveInv, Buffered
    <3>3. req[m].to = s
      BY <1>0, <3>1, <3>2, AskingMaster
    <3>4. mast_gnt_a(s) # {}
      BY <3>1, GrantsOne
    <3> QED BY <2>0, <3>1, <3>3, <3>4, MasterStep
  <2>2. CASE m \notin buf_wen(s)
    <3>1. buf'[s][m] = buf[s][m]
      BY <2>0, <2>2, SlaveStep DEF BufNext
    <3>2. slave_sel[m] = s /\ dph[m] = buf[s][m] /\ buf[s][m].to = s /\ m \notin gnt_d[s]
      BY <1>0, <3>1, <2>2 DEF SlaveInv, Buffered
    <3>3. ~ hready(m)
      BY <1>0, <3>2, ReadyMaster
    <3>4. m \in mast_req_a(s)
      BY <3>1, <3>2 DEF mast_req_a, actual
    <3>5. mast_gnt_a(s) # {}
      BY <3>4, GrantsOne
    <3> QED BY <2>0, <3>1, <3>2, <3>3, <3>5, MasterStep
  <2> QED BY <2>1, <2>2
<1>7. Chosen(s)'
  <2> SUFFICES ASSUME NEW m \in Master, slave_sel'[m] = s
               PROVE  dph'[m].to = s /\ (m \in mast_gnt_a(s) \/ buf'[s][m] # Idle)
    BY <1>1 DEF Chosen
  <2>1. CASE hready(m)
    <3>1. dph'[m] = req[m] /\ req[m].to = s
      BY <2>1, MasterStep
    <3>2. req[m] # Idle
      BY <3>1, CrossbarAssumption DEF Idle
    <3>3. buf[s][m] = Idle
      BY <1>0, <2>1, ReadyMaster DEF SlaveInv, Buffered
    <3>4. m \in buf_wen(s) \/ m \in mast_gnt_a(s)
      BY <2>1, <3>1, <3>2, <3>3 DEF buf_wen, mast_req_a, actual
    <3> QED BY <3>1, <3>2, <3>4, SlaveStep DEF BufNext
  <2>2. CASE ~ hready(m)
    <3>1. dph'[m] = dph[m] /\ slave_sel[m] = s
      BY <2>2, MasterStep
    <3>2. m \notin buf_wen(s)
      BY <2>2 DEF buf_wen
    <3>3. m \notin gnt_d[s]
      BY <1>0, <2>2, <3>1, ReadyMaster
    <3> QED BY <1>0, <3>1, <3>2, <3>3, SlaveStep DEF BufNext, SlaveInv, Chosen
  <2> QED BY <2>1, <2>2
<1> QED BY <1>4, <1>5, <1>6, <1>7 DEF SlaveInv

-------------------------------------------------------------------------------
(* Every step keeps the type invariant.                                    *)
LEMMA TypeStep ==
  ASSUME CrossbarTypeOK, Edge
  PROVE  CrossbarTypeOK'
<1>0. Idle \in Phase /\ Master \subseteq Nat /\ (\A t \in Phase : t.to \in Slave \cup {"none", "nowhere"})
  BY CrossbarAssumption DEF Phase, Transfer, Idle, Master
<1>1. req' \in [Master -> Phase]
  <2>1. \A m \in Master : Presents(m) \subseteq Phase
    BY DEF Presents, CrossbarTypeOK
  <2>2. req' \in [Master -> Phase] /\ \A m \in Master : req'[m] \in Presents(m)
    BY DEF Edge
  <2> QED BY <2>2
<1>2. dph' \in [Master -> Phase]
  BY DEF Edge, CrossbarTypeOK
<1>3. slave_sel' \in [Master -> Slave \cup {"none", "err1", "err2"}]
  <2>1. \A m \in Master : SplitterNext(m) \in Slave \cup {"none", "err1", "err2"}
    BY <1>0 DEF SplitterNext, CrossbarTypeOK
  <2>2. slave_sel' = [m \in Master |-> SplitterNext(m)]
    BY DEF Edge
  <2> QED BY <2>1, <2>2
<1>4. buf' \in [Slave -> [Master -> Phase]]
  <2>1. \A s \in Slave, m \in Master : BufNext(s, m) \in Phase
    BY <1>0 DEF BufNext, CrossbarTypeOK
  <2>2. buf' = [s \in Slave |-> [m \in Master |-> BufNext(s, m)]]
    BY DEF Edge
  <2> QED BY <2>1, <2>2
<1>5. \A s \in Slave : mast_gnt_a(s) \subseteq Master
  BY GrantsOne DEF mast_req_a
<1>6. gnt_d' \in [Slave -> SUBSET Master]
  <2>1. \A s \in Slave : GntNext(s) \subseteq Master
    BY <1>5 DEF GntNext, CrossbarTypeOK
  <2>2. gnt_d' = [s \in Slave |-> GntNext(s)]
    BY DEF Edge
  <2> QED BY <2>1, <2>2
<1>7. active' \in [Slave -> Master]
  <2>1. \A s \in Slave : ActiveNext(s) \in Master
    <3> SUFFICES ASSUME NEW s \in Slave PROVE ActiveNext(s) \in Master
      OBVIOUS
    <3>1. CASE dst_hready(s) /\ mast_gnt_a(s) # {}
      <4>1. \E m \in Master : m \in mast_gnt_a(s)
        BY <1>5, <3>1
      <4> QED BY <3>1, <4>1 DEF ActiveNext
    <3>2. CASE ~ (dst_hready(s) /\ mast_gnt_a(s) # {})
      <4>1. active[s] \in Master
        BY DEF CrossbarTypeOK
      <4> QED BY <3>2, <4>1 DEF ActiveNext
    <3> QED BY <3>1, <3>2
  <2>2. active' = [s \in Slave |-> ActiveNext(s)]
    BY DEF Edge
  <2> QED BY <2>1, <2>2
<1>8. sel' \in [Slave -> SUBSET Master]
  BY <1>5 DEF Edge
<1>9. near' \in [Slave -> BOOLEAN]
  BY DEF Edge
<1>10. served' \in [Slave -> [master : Master, transfer : Phase] \cup {Vacant}]
  <2> DEFINE T == [master : Master, transfer : Phase] \cup {Vacant}
  <2>1. ASSUME NEW s \in Slave PROVE ServedNext(s) \in T
    <3>1. CASE dst_hready(s) /\ mast_gnt_a(s) # {}
      <4>1. PICK m \in mast_gnt_a(s) : mast_gnt_a(s) = {m}
        BY <3>1, GrantsOne
      <4>2. m \in Master /\ (CHOOSE k \in Master : k \in mast_gnt_a(s)) = m
        BY <4>1, <1>5
      <4>3. actual(s, m) \in Phase
        BY <4>2, <1>0 DEF actual, CrossbarTypeOK
      <4>4. ServedNext(s) = [master |-> m, transfer |-> actual(s, m)]
        BY <3>1, <4>1, <4>2 DEF ServedNext
      <4> QED BY <4>2, <4>3, <4>4
    <3>2. CASE ~ (dst_hready(s) /\ mast_gnt_a(s) # {})
      <4>1. served[s] \in T
        BY DEF CrossbarTypeOK
      <4>2. ServedNext(s) = Vacant \/ ServedNext(s) = served[s]
        BY <3>2 DEF ServedNext
      <4> QED BY <4>1, <4>2
    <3> QED BY <3>1, <3>2
  <2>2. served' = [s \in Slave |-> ServedNext(s)]
    BY DEF Edge
  <2> HIDE DEF T
  <2>3. served' \in [Slave -> T]
    BY <2>1, <2>2
  <2> QED BY <2>3 DEF T
<1>11. resp' \in [Slave -> {"wait", "err", "ready"}]
  BY DEF Edge
<1> QED BY <1>1, <1>2, <1>3, <1>4, <1>6, <1>7, <1>8, <1>9, <1>10, <1>11 DEF CrossbarTypeOK

(* At reset nothing is granted, buffered or served.                        *)
LEMMA CrossbarInvInit == Init => CrossbarInv
<1> SUFFICES ASSUME Init PROVE CrossbarInv
  OBVIOUS
<1>1. Idle \in Phase /\ 0 \in Master /\ \A s \in Slave : s # "none"
  BY CrossbarAssumption DEF Phase, Master
<1>2. CrossbarTypeOK
  BY <1>1 DEF Init, CrossbarTypeOK
<1>3. ASSUME NEW s \in Slave PROVE SlaveInv(s)
  <2>1. served[s] = Vacant /\ gnt_d[s] = {} /\ resp[s] = "ready"
    BY DEF Init
  <2>2. \A m \in Master : buf[s][m] = Idle /\ slave_sel[m] # s
    BY <1>1 DEF Init
  <2> QED BY <2>1, <2>2 DEF SlaveInv, Serving, Granted, Buffered, Chosen
<1> QED BY <1>2, <1>3 DEF CrossbarInv

(* Every step keeps the invariant, whether or not a slave takes an address *)
(* phase in it.                                                            *)
LEMMA CrossbarInvStep == CrossbarInv /\ [Edge]_vars => CrossbarInv'
<1>1. ASSUME CrossbarInv, Edge PROVE CrossbarInv'
  <2>1. CrossbarTypeOK'
    BY <1>1, TypeStep DEF CrossbarInv
  <2>2. \A s \in Slave : SlaveInv(s)'
    BY <1>1, HoldingStep, TakingStep
  <2> QED BY <2>1, <2>2 DEF CrossbarInv
<1>2. ASSUME CrossbarInv, UNCHANGED vars PROVE CrossbarInv'
  <2>1. CrossbarTypeOK'
    BY <1>2 DEF CrossbarInv, CrossbarTypeOK, vars
  <2>2. \A s \in Slave : SlaveInv(s)'
    BY <1>2 DEF CrossbarInv, SlaveInv, Serving, Granted, Buffered, Chosen, vars
  <2> QED BY <2>1, <2>2 DEF CrossbarInv
<1> QED BY <1>1, <1>2

(* The inductive invariant: each address phase that has ended for a master *)
(* is in the data phase of its slave or in the buffer the slave's arbiter  *)
(* keeps for it, and nowhere else.                                         *)
THEOREM CrossbarInvariance == Spec => []CrossbarInv
BY CrossbarInvInit, CrossbarInvStep, PTL DEF Spec

(* The registers of splitters and arbiters keep their types.               *)
THEOREM CrossbarTypeCorrect == Spec => []CrossbarTypeOK
<1>1. CrossbarInv => CrossbarTypeOK
  BY DEF CrossbarInv
<1> QED BY <1>1, CrossbarInvariance, PTL

(* A master that sees hready gets the answer of the slave it addressed to  *)
(* the very transfer it began.                                             *)
THEOREM MastersGetTheirAnswers == Spec => []AnswersOwn
<1>1. CrossbarInv => AnswersOwn
  <2> SUFFICES ASSUME CrossbarInv, NEW m \in Master, slave_sel[m] \in Slave, hready(m)
               PROVE  /\ dph[m].to = slave_sel[m]
                      /\ served[slave_sel[m]] = [master |-> m, transfer |-> dph[m]]
                      /\ dst_hready_resp(slave_sel[m])
    BY DEF AnswersOwn
  <2> DEFINE s == slave_sel[m]
  <2>0. s \in Slave /\ SlaveInv(s) /\ CrossbarTypeOK
    BY DEF CrossbarInv
  <2>1. m \in gnt_d[s] /\ dst_hready_resp(s)
    BY <2>0, ReadyMaster
  <2>2. served[s] # Vacant /\ served[s].master = m /\ served[s].transfer = dph[m]
    BY <2>0, <2>1 DEF SlaveInv, Serving, Granted
  <2>3. served[s] \in [master : Master, transfer : Phase]
    BY <2>0, <2>2 DEF CrossbarTypeOK
  <2>4. served[s] = [master |-> m, transfer |-> dph[m]]
    BY <2>2, <2>3
  <2>5. dph[m].to = s
    BY <2>0 DEF SlaveInv, Chosen
  <2> QED BY <2>1, <2>4, <2>5
<1> QED BY <1>1, CrossbarInvariance, PTL

(* Whatever a slave ends, a master is waiting for, and sees it end.        *)
THEOREM SlavesEndAwaitedTransfers == Spec => []EndsAwaited
<1>1. CrossbarInv => EndsAwaited
  <2> SUFFICES ASSUME CrossbarInv, NEW s \in Slave, served[s] # Vacant, dst_hready_resp(s)
               PROVE  dph[served[s].master] = served[s].transfer /\ hready(served[s].master)
    BY DEF EndsAwaited
  <2>0. SlaveInv(s) /\ CrossbarTypeOK
    BY DEF CrossbarInv
  <2>1. served[s].master \in gnt_d[s] /\ served[s].master \in Master
    BY <2>0 DEF SlaveInv, Serving, CrossbarTypeOK
  <2>2. slave_sel[served[s].master] = s /\ dph[served[s].master] = served[s].transfer
    BY <2>0, <2>1 DEF SlaveInv, Granted
  <2> QED BY <2>0, <2>1, <2>2, ReadyMaster
<1> QED BY <1>1, CrossbarInvariance, PTL

(* A slave has one transfer at a time: the next is given to it in the      *)
(* cycle that ends the last, and its data port follows the one it serves.  *)
THEOREM SlavesServeOneAtATime == Spec => []OneAtATime
<1>1. CrossbarInv => OneAtATime
  <2> SUFFICES ASSUME CrossbarInv, NEW s \in Slave
               PROVE  /\ dst_hready(s) => dst_hready_resp(s)
                      /\ gnt_d[s] = IF served[s] = Vacant THEN {} ELSE {served[s].master}
    BY DEF OneAtATime
  <2>0. SlaveInv(s) /\ CrossbarTypeOK
    BY DEF CrossbarInv
  <2> QED BY <2>0, ReadySlave DEF SlaveInv, Serving
<1> QED BY <1>1, CrossbarInvariance, PTL
===============================================================================
