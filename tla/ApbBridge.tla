------------------------------- MODULE ApbBridge -------------------------------
(***************************************************************************)
(* The bridge from the AHB bus to the APB devices                          *)
(* (busfabric/ahbl_to_apb.v).  A step is an edge of the clock.  Devices    *)
(* are the modules that extend this one: they read psel, penable, pwrite,  *)
(* apbm_paddr and apbm_pwdata and give BridgeStep their answer.            *)
(***************************************************************************)

VARIABLES
  apb_state,
  apbm_paddr, apbm_pwdata, ahbls_hrdata,
  dph   (* the transfer in its data phase on the bus: a set of one or none *)

bridgeVars == <<apb_state, apbm_paddr, apbm_pwdata, ahbls_hrdata, dph>>

ApbState == {"idle", "rd0", "rd1", "rd2", "wr0", "wr1", "wr2", "wr3", "err0", "err1"}

(* What the bus and the devices see.  A write is strobed for one cycle,    *)
(* while a read holds its strobe until the device is ready.                *)
ahbls_hready_resp == apb_state \in {"idle", "rd2", "wr3", "err1"}
apbm_psel == apb_state \in {"rd0", "rd1", "wr1"}
apbm_penable == apb_state \in {"rd1", "wr1"}
apbm_pwrite == apb_state = "wr1"

bus_write == apbm_pwrite /\ apbm_psel /\ apbm_penable
bus_read == ~ apbm_pwrite /\ apbm_psel /\ apbm_penable

(* The state in which the data phase of an address phase begins.           *)
aphase_to_dphase(aph) ==
  IF aph = {} THEN "idle" ELSE IF \E t \in aph : t.wr THEN "wr0" ELSE "rd0"

Advance(from, to) == apb_state = from /\ apb_state' = to

(* The states of a transfer; the device's ready is awaited after a write's *)
(* strobe, under a read's.                                                 *)
StateStep(aph, pready, pslverr) ==
  \/ ahbls_hready_resp /\ apb_state' = aphase_to_dphase(aph)
  \/ Advance("wr0", "wr1") \/ Advance("wr1", "wr2") \/ Advance("rd0", "rd1")
  \/ ~ pready /\ apb_state \in {"wr2", "rd1"} /\ UNCHANGED apb_state
  \/ pready /\ ~ pslverr /\ (Advance("wr2", "wr3") \/ Advance("rd1", "rd2"))
  \/ pready /\ pslverr /\ (Advance("wr2", "err0") \/ Advance("rd1", "err0"))
  \/ Advance("err0", "err1")

(* aph is the address phase that ends at this edge, if one does: the bus   *)
(* is ready for it only if the bridge is.                                  *)
BridgeStep(aph, pready, pslverr, prdata) ==
  /\ aph # {} => ahbls_hready_resp
  /\ StateStep(aph, pready, pslverr)
  /\ apbm_paddr' = IF aph = {} THEN apbm_paddr ELSE (CHOOSE t \in aph : TRUE).addr
  /\ apbm_pwdata' = IF apb_state = "wr0" THEN (CHOOSE t \in dph : TRUE).data ELSE apbm_pwdata
  /\ ahbls_hrdata' = IF apb_state = "rd1" /\ pready THEN prdata ELSE ahbls_hrdata
  /\ dph' = IF ahbls_hready_resp THEN aph ELSE dph

BridgeInit(reset_addr) ==
  /\ apb_state = "idle" /\ dph = {}
  /\ apbm_paddr = reset_addr /\ apbm_pwdata = 0 /\ ahbls_hrdata = 0
===============================================================================
