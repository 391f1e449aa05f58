-------------------------------- MODULE Crossbar --------------------------------
(***************************************************************************)
(* The bus (busfabric/ahbl_crossbar.v): a splitter for each master         *)
(* (ahbl_splitter.v) decodes the slave an address belongs to, an arbiter   *)
(* for each slave (ahbl_arbiter.v, with common/onehot_priority.v) chooses  *)
(* among the masters that want it and buffers the address phase of those   *)
(* that lose.                                                              *)
(*                                                                         *)
(* A step is an edge of the clock.  What the wires carry between edges are *)
(* operators over the registers and over what masters and slaves drive.    *)
(***************************************************************************)
EXTENDS Integers

CONSTANTS
  N,          (* masters: the harts                                        *)
  Slave,
  Swapping    (* slaves whose arbiter may swap priorities: SLAVE_ID 0      *)

ASSUME CrossbarAssumption ==
  N \in Nat \ {0} /\ Swapping \subseteq Slave
  /\ Slave \cap {"none", "err1", "err2", "nowhere"} = {}

Master == 0 .. N - 1

VARIABLES
  (* what a master drives                                                  *)
  req,        (* its address phase                                         *)
  (* a splitter                                                            *)
  slave_sel,  (* slave_sel_d, or "err1" and "err2" in the two cycles of a  *)
              (* decode error, or "none"                                   *)
  (* an arbiter                                                            *)
  buf,        (* for each master, its buffered address phase or Idle       *)
  gnt_d,      (* mast_gnt_d                                                *)
  active,
  sel,        (* the grant of the last cycle, in onehot_priority           *)
  near,       (* the address the active master drives is its program       *)
              (* counter or the word after it                              *)
  (* a slave                                                               *)
  served,     (* the transfer in its data phase, and whose it is           *)
  resp,       (* whether it ends it in this cycle: "wait", "err", "ready"  *)
  (* what a master expects                                                 *)
  dph         (* its transfer in its data phase                            *)

vars == <<req, slave_sel, buf, gnt_d, active, sel, near, served, resp, dph>>

-------------------------------------------------------------------------------
Idle == [to |-> "none", wr |-> FALSE]
Transfer == [to : Slave, wr : BOOLEAN] \cup {[to |-> "nowhere", wr |-> FALSE]}
Phase == Transfer \cup {Idle}
Vacant == [master |-> -1, transfer |-> Idle]

(* Slave side: hready_resp and hresp.  An idle slave is ready.             *)
dst_hready_resp(s) == resp[s] = "ready"
dst_hresp(s) == resp[s] = "err"

(* What an arbiter and then a splitter tell a master.                      *)
mast_in_dphase(s, m) == buf[s][m] # Idle \/ m \in gnt_d[s]
src_hready_resp(s, m) == ~ mast_in_dphase(s, m) \/ (m \in gnt_d[s] /\ dst_hready_resp(s))

hready(m) ==
  IF slave_sel[m] \in Slave THEN src_hready_resp(slave_sel[m], m) ELSE slave_sel[m] # "err1"

(* An arbiter whose masters are all granted, as one alone may be, tells no *)
(* error.                                                                  *)
hresp(m) ==
  IF slave_sel[m] \in Slave
    THEN m \in gnt_d[slave_sel[m]] /\ gnt_d[slave_sel[m]] # Master /\ dst_hresp(slave_sel[m])
    ELSE slave_sel[m] \in {"err1", "err2"}

(* Arbitration.                                                            *)
actual(s, m) ==
  IF buf[s][m] # Idle THEN buf[s][m] ELSE IF req[m].to = s THEN req[m] ELSE Idle

(* Slip: a master that still waits elsewhere is heard.                     *)
mast_req_aAny(s) == {m \in Master : actual(s, m) # Idle}

mast_req_a(s) ==
  {m \in Master : actual(s, m) # Idle /\ (m \in gnt_d[s] \/ hready(m) \/ slave_sel[m] = s)}

canchange(s) ==
  /\ s \in Swapping /\ dst_hready_resp(s)
  /\ ~ req[active[s]].wr /\ near[s]
  /\ \E m \in Master : src_hready_resp(s, m)

Lowest(R) == {m \in R : \A k \in R : m <= k}
Highest(R) == {m \in R : \A k \in R : k <= m}

(* Slip: the lowest always wins.                                           *)
selchgNever(s) == FALSE

(* The highest master wins instead of the lowest.                          *)
selchg(s) == (\E m \in sel[s] : m > 0) # canchange(s)

mast_gnt_a(s) == IF selchg(s) THEN Highest(mast_req_a(s)) ELSE Lowest(mast_req_a(s))

(* Slip: the slave's address phases always end.                            *)
dst_hreadyAlways(s) == TRUE

dst_hready(s) ==
  \E m \in (IF gnt_d[s] # {} THEN gnt_d[s] ELSE mast_gnt_a(s)) : hready(m)

(* Slip: the transfer that must wait is not kept.                          *)
buf_wenLoose(s) == {}

(* Address phases that end for their master and not for the slave.         *)
buf_wen(s) ==
  {m \in mast_req_a(s) : hready(m) /\ ~ (dst_hready(s) /\ m \in mast_gnt_a(s))}

-------------------------------------------------------------------------------
(* A master holds its address phase until it ends, but may withdraw it     *)
(* when its data phase reports an error.                                   *)
Presents(m) == IF hready(m) \/ hresp(m) \/ req[m] = Idle THEN Phase ELSE {req[m]}

(* Slip: an address that decodes to no slave is not caught.                *)
SplitterNextLax(m) == IF hready(m) THEN req[m].to ELSE slave_sel[m]

SplitterNext(m) ==
  IF hready(m)
    THEN IF req[m].to = "nowhere" THEN "err1" ELSE req[m].to
  ELSE IF slave_sel[m] = "err1" THEN "err2"
  ELSE slave_sel[m]

BufNext(s, m) ==
  IF m \in buf_wen(s) THEN req[m]
  ELSE IF dst_hready(s) /\ m \in mast_gnt_a(s) THEN Idle
  ELSE buf[s][m]

GntNext(s) == IF dst_hready(s) THEN mast_gnt_a(s) ELSE gnt_d[s]

ActiveNext(s) ==
  IF dst_hready(s) /\ mast_gnt_a(s) # {}
    THEN CHOOSE m \in Master : m \in mast_gnt_a(s)
    ELSE active[s]

(* A slave takes the address phase granted when the bus is ready.          *)
ServedNext(s) ==
  IF dst_hready(s)
    THEN IF mast_gnt_a(s) = {} THEN Vacant
         ELSE LET m == CHOOSE m \in Master : m \in mast_gnt_a(s) IN
              [master |-> m, transfer |-> actual(s, m)]
  ELSE IF dst_hready_resp(s) THEN Vacant
  ELSE served[s]

Responds(s) ==
  IF ServedNext(s) = Vacant \/ dst_hresp(s) THEN {"ready"} ELSE {"wait", "err", "ready"}

Edge ==
  /\ dph' = [m \in Master |-> IF hready(m) THEN req[m] ELSE dph[m]]
  /\ slave_sel' = [m \in Master |-> SplitterNext(m)]
  /\ buf' = [s \in Slave |-> [m \in Master |-> BufNext(s, m)]]
  /\ gnt_d' = [s \in Slave |-> GntNext(s)]
  /\ active' = [s \in Slave |-> ActiveNext(s)]
  /\ sel' = [s \in Slave |-> mast_gnt_a(s)]
  /\ served' = [s \in Slave |-> ServedNext(s)]
  /\ req' \in {f \in [Master -> Phase] : \A m \in Master : f[m] \in Presents(m)}
  /\ near' \in {f \in [Slave -> BOOLEAN] : \A s \in Slave \ Swapping : ~ f[s]}
  /\ resp' \in {f \in [Slave -> {"wait", "err", "ready"}] : \A s \in Slave : f[s] \in Responds(s)}

Init ==
  /\ req \in [Master -> Phase]
  /\ slave_sel = [m \in Master |-> "none"]
  /\ buf = [s \in Slave |-> [m \in Master |-> Idle]]
  /\ gnt_d = [s \in Slave |-> {}] /\ active = [s \in Slave |-> 0] /\ sel = [s \in Slave |-> {0}]
  /\ near = [s \in Slave |-> FALSE]
  /\ served = [s \in Slave |-> Vacant] /\ resp = [s \in Slave |-> "ready"]
  /\ dph = [m \in Master |-> Idle]

Spec == Init /\ [][Edge]_vars

-------------------------------------------------------------------------------
CrossbarTypeOK ==
  /\ req \in [Master -> Phase] /\ dph \in [Master -> Phase]
  /\ slave_sel \in [Master -> Slave \cup {"none", "err1", "err2"}]
  /\ buf \in [Slave -> [Master -> Phase]]
  /\ gnt_d \in [Slave -> SUBSET Master] /\ active \in [Slave -> Master]
  /\ sel \in [Slave -> SUBSET Master] /\ near \in [Slave -> BOOLEAN]
  /\ served \in [Slave -> [master : Master, transfer : Phase] \cup {Vacant}]
  /\ resp \in [Slave -> {"wait", "err", "ready"}]

(* A master that is ready has the answer to its own transfer: the slave it *)
(* addressed ends, at this edge, the very transfer the master began.       *)
AnswersOwn ==
  \A m \in Master : slave_sel[m] \in Slave /\ hready(m) =>
    /\ dph[m].to = slave_sel[m]
    /\ served[slave_sel[m]] = [master |-> m, transfer |-> dph[m]]
    /\ dst_hready_resp(slave_sel[m])

(* Every transfer a slave ends is one its master is waiting for, and the   *)
(* master sees it end: no transfer is performed twice or for nobody.       *)
EndsAwaited ==
  \A s \in Slave : served[s] # Vacant /\ dst_hready_resp(s) =>
    LET m == served[s].master IN dph[m] = served[s].transfer /\ hready(m)

(* A slave is given an address phase only when it has ended the last, and  *)
(* the data on its port is that of the master whose transfer it serves.    *)
OneAtATime ==
  \A s \in Slave :
    /\ dst_hready(s) => dst_hready_resp(s)
    /\ gnt_d[s] = IF served[s] = Vacant THEN {} ELSE {served[s].master}

(* No master waits for ever, if slaves answer and masters yield.           *)
Waits(m) == slave_sel[m] # "none" /\ ~ hready(m)
Served == \A m \in Master : Waits(m) ~> ~ Waits(m)

(* A master yields a slave when its transfer ends and it asks for no other *)
(* there, or fetches from its program counter and was ahead of the others  *)
(* already: one that got ahead in this very cycle is put first by the swap.*)
Yields(s) ==
  /\ gnt_d[s] # {} /\ dst_hready(s)
  /\ \A m \in gnt_d[s] : req[m].to # s \/ (sel[s] = {m} /\ canchange(s))

FairSpec ==
  /\ Spec /\ WF_vars(Edge)
  /\ \A s \in Slave : []<>(resp[s] = "ready") /\ []<>(gnt_d[s] = {} \/ Yields(s))
===============================================================================
