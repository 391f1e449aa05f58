------------------------------ MODULE WordMemory ------------------------------
(***************************************************************************)
(* What the memory behind a busy handshake promises its only client: a     *)
(* request is accepted, the memory is busy, then it is free again; a write *)
(* takes effect when it is accepted, a read returns the word its address   *)
(* holds.  A word is a function from byte lanes to values and a write      *)
(* carries the set of lanes it changes.                                    *)
(***************************************************************************)
CONSTANTS Addr, Lane, Val

Word == [Lane -> Val]

(* The word w with the lanes of mask taken from d.                         *)
MergeLanes(w, d, mask) == [l \in Lane |-> IF l \in mask THEN d[l] ELSE w[l]]

(* The store after the lanes mask of word a were written with d.           *)
WriteWord(store, a, d, mask) == [store EXCEPT ![a] = MergeLanes(@, d, mask)]

VARIABLES
  store,   (* the word at each address                                     *)
  phase,   (* "idle", "rd", "wr", or "done" once a read has its data       *)
  addr,    (* address of the request being served                          *)
  out      (* the word the last read returned                              *)

wmVars == <<store, phase, addr, out>>

Phases == {"idle", "rd", "wr", "done"}

WMTypeOK ==
  /\ store \in [Addr -> Word]
  /\ phase \in Phases
  /\ addr \in Addr
  /\ out \in Word

WMInit == phase = "idle" /\ WMTypeOK

AcceptRead(a) ==
  /\ phase = "idle"
  /\ phase' = "rd" /\ addr' = a
  /\ UNCHANGED <<store, out>>

AcceptWrite(a, d, mask) ==
  /\ phase = "idle"
  /\ phase' = "wr" /\ addr' = a
  /\ store' = WriteWord(store, a, d, mask)
  /\ UNCHANGED out

Fetch ==
  /\ phase = "rd"
  /\ phase' = "done" /\ out' = store[addr]
  /\ UNCHANGED <<store, addr>>

Respond ==
  /\ phase \in {"wr", "done"}
  /\ phase' = "idle"
  /\ UNCHANGED <<store, addr, out>>

WMNext ==
  \/ \E a \in Addr : AcceptRead(a)
  \/ \E a \in Addr, d \in Word, mask \in SUBSET Lane : AcceptWrite(a, d, mask)
  \/ Fetch
  \/ Respond

WMSpec == WMInit /\ [][WMNext]_wmVars

(* The same with the promise that every accepted request is answered.      *)
WMFairSpec == WMSpec /\ WF_wmVars(Fetch \/ Respond)
===============================================================================
