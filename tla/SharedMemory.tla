----------------------------- MODULE SharedMemory -----------------------------
(***************************************************************************)
(* What the memory port of the bus promises the harts.  A transfer is in   *)
(* its data phase while the next is in its address phase; at the end of a  *)
(* turn the first is complete and the second takes its place.  A read      *)
(* returns the word last written; a write takes effect once, between its   *)
(* turn and the next.  An exclusive read reserves its word for its hart,   *)
(* any write to the word ends every reservation of it, and an exclusive    *)
(* write does anything only if the reservation of its hart still stands.   *)
(***************************************************************************)
EXTENDS WordMemory

CONSTANTS Hart, NoWord

VARIABLES
  resv,     (* the word each hart has reserved, or NoWord                  *)
  xfer,     (* the transfer in its data phase                              *)
  ok,       (* it may take effect                                          *)
  done,     (* it has                                                      *)
  result    (* the word, and the verdict, that harts were given last       *)

smVars == <<store, resv, xfer, ok, done, result>>

Transfer == [op : {"idle", "read", "write"}, hart : Hart, word : Addr,
             mask : SUBSET Lane, excl : BOOLEAN, data : Word]

SMInit ==
  /\ store \in [Addr -> Word]
  /\ resv = [h \in Hart |-> NoWord]
  /\ xfer \in Transfer /\ xfer.op = "idle" /\ ok = TRUE /\ done = FALSE
  /\ result \in [data : Word, ok : BOOLEAN]

(* The reservations after the address phase of t.                          *)
Granted(t) == t.op = "write" /\ (t.excl => resv[t.hart] = t.word)

Reservations(t) ==
  [h \in Hart |->
     IF t.op = "read" /\ t.excl /\ h = t.hart THEN t.word
     ELSE IF Granted(t) /\ resv[h] = t.word THEN NoWord
     ELSE resv[h]]

Turn(t) ==
  /\ xfer.op = "write" /\ ok => done
  /\ result' = [data |-> IF xfer.op = "read" THEN store[xfer.word] ELSE result.data,
                ok |-> IF xfer.op # "idle" /\ xfer.excl THEN ok ELSE result.ok]
  /\ xfer' = t /\ ok' = (t.op = "write" => Granted(t)) /\ done' = FALSE
  /\ resv' = Reservations(t)
  /\ UNCHANGED store

Commit ==
  /\ xfer.op = "write" /\ ok /\ ~ done
  /\ store' = WriteWord(store, xfer.word, xfer.data, xfer.mask)
  /\ done' = TRUE
  /\ UNCHANGED <<resv, xfer, ok, result>>

SMNext == (\E t \in Transfer : Turn(t)) \/ Commit

SMSpec == SMInit /\ [][SMNext]_smVars
===============================================================================
