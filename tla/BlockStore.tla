------------------------------- MODULE BlockStore ------------------------------
(***************************************************************************)
(* What the SD card promises its user: a store of blocks, read and written *)
(* one at a time by calls that take their time.  A call the card refused   *)
(* returns like any other; it may have read anything, and a block is       *)
(* written whole or not at all.                                            *)
(***************************************************************************)
CONSTANTS Sector, Block

VARIABLES
  disk,     (* the block in each sector                                    *)
  call,     (* the call under way: a set of one or none                    *)
  buffer,   (* the caller's memory                                         *)
  refused   (* the card refused the command                                *)

storeVars == <<disk, call, buffer, refused>>

StoreInit ==
  disk \in [Sector -> Block] /\ call = {} /\ buffer \in Block /\ refused \in BOOLEAN

(* The caller names the sector and, to write, has the block ready.         *)
Begin ==
  /\ call = {}
  /\ \E op \in {"read", "write"}, s \in Sector : call' = {[op |-> op, sector |-> s]}
  /\ buffer' \in Block
  /\ UNCHANGED <<disk, refused>>

(* The card makes up its mind about the command.                           *)
Judge ==
  /\ call # {} /\ refused' \in BOOLEAN
  /\ UNCHANGED <<disk, call, buffer>>

(* The block written reaches the card whole, whatever it then says of it.  *)
Store ==
  /\ \E c \in call : c.op = "write" /\ disk' = [disk EXCEPT ![c.sector] = buffer]
  /\ refused' \in BOOLEAN
  /\ UNCHANGED <<call, buffer>>

(* While it is read into, the caller's memory may hold anything.           *)
Fetch ==
  /\ \E c \in call : c.op = "read"
  /\ buffer' \in Block
  /\ UNCHANGED <<disk, call, refused>>

(* A call the card did not refuse returns when memory and sector agree.    *)
Return ==
  /\ \E c \in call :
       /\ c.op = "write" => buffer' = buffer
       /\ ~ refused => buffer' = disk[c.sector]
  /\ buffer' \in Block /\ call' = {}
  /\ UNCHANGED <<disk, refused>>

StoreNext == Begin \/ Judge \/ Store \/ Fetch \/ Return

StoreSpec == StoreInit /\ [][StoreNext]_storeVars
===============================================================================
