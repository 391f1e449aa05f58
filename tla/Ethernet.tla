---- MODULE Ethernet ----
(* The Ethernet device (ethernet.v), the host behind it (ethdpi.c) and NuttX's       *)
(* driver (sksoc_openeth.c, in nuttx-eth-patch-12.11.patch).  A step is one access   *)
(* of the device's registers with what the device does about it before the next      *)
(* access can reach it, or one poll of the host.                                     *)
(*                                                                                   *)
(* The interrupt is wired to hart 0.  The worker of NuttX's network layer (external: *)
(* it polls receive until that gives no packet, then sends) runs on any hart, or,    *)
(* with one hart, between interrupts.  A word stands for four octets.                *)
EXTENDS Naturals, Sequences

CONSTANTS Word,    \* contents of a word; 0 is one
          Frame,   \* frames of the network
          Packet,  \* packets of the stack, of at most the MTU
          MTU,     \* ETHERNET_MTU and MTU_SIZE, in words
          Cnt,     \* rxread and rxwrote count modulo Cnt
          MaxTx    \* bound: packets waiting for the driver

ASSUME EthAssumption ==
  /\ MTU \in Nat \ {0} /\ Cnt \in Nat \ {0, 1} /\ MaxTx \in Nat
  /\ 0 \in Word /\ Frame \subseteq Seq(Word) \ {<<>>}
  /\ \A p \in Packet : p \in Seq(Word) /\ Len(p) \in 1 .. MTU

VARIABLES
  harts,                    \* 1, or 2 with the worker on the other hart
  rxmem, rxsize,            \* the frame received last
  rxread, rxwrote, rxenableirq,
  txmem, txsize, txstate, txenableirq, acktxirq,
  isr,                      \* hart 0: the next access of the interrupt's handlers
  work,                     \* the worker has been woken
  w,                        \* the worker: its next access, with the locals of
                            \* receive and the packet of transmit
  up,                       \* the interface
  txwait,                   \* the packets that wait for openeth_transmit: how many
  stored,                   \* history: the frame the network gave last
  mute,                     \* history: why nobody is waiting for a frame
  lost                      \* history: a command to send was not performed

rxVars == <<rxmem, rxsize, rxwrote, stored>>
txVars == <<txmem, txsize, txstate, txenableirq, acktxirq, lost>>
swVars == <<harts, isr, work, w, up, txwait, mute>>
vars == <<rxVars, rxread, rxenableirq, txVars, swVars>>

Index == 0 .. MTU - 1
Cut(f) == SubSeq(f, 1, IF Len(f) < MTU THEN Len(f) ELSE MTU)
Pending == rxread # rxwrote

irqtx == txenableirq /\ txstate = 2
irqrx == rxenableirq /\ Pending

----
(* The device and the host.                                                          *)

(* Slip: a frame is taken over one that waits.                                       *)
checkrxOver(f) ==
  /\ rxmem' = [i \in Index |-> IF i < Len(Cut(f)) THEN f[i + 1] ELSE rxmem[i]]
  /\ rxsize' = Len(Cut(f)) /\ stored' = Cut(f)
  /\ rxwrote' = (rxwrote + 1) % Cnt

(* Slip: the counter does not wrap.                                                  *)
checkrxWide(f) ==
  /\ ~Pending
  /\ rxmem' = [i \in Index |-> IF i < Len(Cut(f)) THEN f[i + 1] ELSE rxmem[i]]
  /\ rxsize' = Len(Cut(f)) /\ stored' = Cut(f)
  /\ rxwrote' = rxwrote + 1

(* Poll of the host: the whole frame passes at one edge, cut to the MTU; it is       *)
(* dropped if the last has not been acknowledged.                                    *)
checkrx(f) ==
  /\ ~Pending
  /\ rxmem' = [i \in Index |-> IF i < Len(Cut(f)) THEN f[i + 1] ELSE rxmem[i]]
  /\ rxsize' = Len(Cut(f)) /\ stored' = Cut(f)
  /\ rxwrote' = (rxwrote + 1) % Cnt

Receives(f) == checkrx(f) /\ UNCHANGED <<rxread, rxenableirq, txVars, swVars>>

RXREAD_W == rxread' = rxwrote

(* Slip: a second acknowledgement is waited for.                                     *)
SettledTwice(state, ack) == IF state \in {2, 3} /\ ack THEN 5 - state ELSE state

(* The transmitter after an edge.                                                    *)
Settled(state, ack) ==
  IF state = 2 /\ ack THEN 3 ELSE IF state = 3 /\ ~ack THEN 0 ELSE state

ACKTXIRQ_W(ack) ==
  /\ acktxirq' = ack
  /\ txstate' = Settled(txstate, ack)
  /\ UNCHANGED <<txmem, txsize, txenableirq, lost>>

(* What the host is given: as many words as were asked for.                          *)
Sent == [i \in 1 .. txsize |-> txmem[i - 1]]

(* A command to send is heard in state 0 alone, and answered in any.                 *)
SENDPACKET_W ==
  /\ IF txstate = 0
     THEN txstate' = Settled(2, acktxirq) /\ UNCHANGED lost
     ELSE lost' = TRUE /\ UNCHANGED txstate
  /\ UNCHANGED <<txmem, txsize, txenableirq, acktxirq>>

----
(* Hart 0: riscv_dispatch_irq and the two handlers.  The lowest of the interrupts is *)
(* claimed first; claiming again is harmless.                                        *)

InCriticalSection == w.at \in {"ifup", "ifdown"}

Interrupt ==
  /\ isr = "none" /\ (irqtx \/ irqrx)
  /\ harts = 2 \/ ~InCriticalSection
  /\ isr' = "claim"
  /\ UNCHANGED <<rxVars, rxread, rxenableirq, txVars, harts, work, w, up, txwait, mute>>

Claim ==
  /\ isr = "claim"
  /\ isr' = IF irqtx THEN "tx_ack" ELSE IF irqrx THEN "rx_disable" ELSE "none"
  /\ UNCHANGED <<rxVars, rxread, rxenableirq, txVars, harts, work, w, up, txwait, mute>>

tx_isr_acks ==
  /\ isr = "tx_ack"
  /\ ACKTXIRQ_W(TRUE)
  /\ isr' = "tx_done"
  /\ UNCHANGED <<rxVars, rxread, rxenableirq, harts, work, w, up, txwait, mute>>

(* netdev_lower_txdone wakes the worker.                                             *)
tx_isr_done ==
  /\ isr = "tx_done"
  /\ ACKTXIRQ_W(FALSE)
  /\ isr' = "claim" /\ work' = TRUE
  /\ UNCHANGED <<rxVars, rxread, rxenableirq, harts, w, up, txwait, mute>>

rx_isr_disables ==
  /\ isr = "rx_disable"
  /\ rxenableirq' = FALSE
  /\ isr' = "rx_status"
  /\ UNCHANGED <<rxVars, rxread, txVars, harts, work, w, up, txwait, mute>>

(* Slip: the worker is not woken.                                                    *)
rx_isr_looks ==
  /\ isr = "rx_status"
  /\ isr' = "claim"
  /\ IF rxwrote = rxread + 1 THEN mute' = "no" ELSE mute' = IF Pending THEN "wrap" ELSE "late"
  /\ UNCHANGED <<rxVars, rxread, rxenableirq, txVars, harts, work, w, up, txwait>>

(* rxwrote - rxread is computed in 32 bits, the counters have 16.                    *)
rx_isr_reads ==
  /\ isr = "rx_status"
  /\ isr' = "claim"
  /\ IF rxwrote = rxread + 1
     THEN work' = TRUE /\ mute' = "no"
     ELSE mute' = (IF Pending THEN "wrap" ELSE "late") /\ UNCHANGED work
  /\ UNCHANGED <<rxVars, rxread, rxenableirq, txVars, harts, w, up, txwait>>

Isr ==
  \/ Interrupt \/ Claim \/ tx_isr_acks \/ tx_isr_done \/ rx_isr_disables \/ rx_isr_reads

----
(* The worker.  With one hart its next access comes when the handlers are done, and  *)
(* when the interrupt of its own last command has been taken.                        *)

Idle == [at |-> "idle", i |-> 0, len |-> 0, buf |-> <<>>, pending |-> FALSE, again |-> FALSE]
Goes(at) == w' = [Idle EXCEPT !.at = at]

Runs(at) ==
  /\ w.at = at
  /\ harts = 2 \/ (isr = "none" /\ (irqtx => InCriticalSection))
  /\ UNCHANGED <<harts, isr>>

WorkStarts ==
  /\ Runs("idle") /\ work
  /\ work' = FALSE
  /\ Goes("receive")
  /\ UNCHANGED <<rxVars, rxread, rxenableirq, txVars, up, txwait, mute>>

(* netpkt_alloc gives none: nothing is acknowledged and no interrupt enabled.        *)
openeth_receive_fails ==
  /\ Runs("receive")
  /\ mute' = IF rxenableirq THEN mute ELSE "nobuffer"
  /\ Goes("transmit")
  /\ UNCHANGED <<rxVars, rxread, rxenableirq, txVars, work, up, txwait>>

openeth_receive ==
  /\ Runs("receive")
  /\ w' = [Idle EXCEPT !.at = IF rxsize = 0 THEN "ack" ELSE "word",
                       !.len = rxsize, !.pending = Pending]
  /\ UNCHANGED <<rxVars, rxread, rxenableirq, txVars, work, up, txwait, mute>>

receive_word ==
  /\ Runs("word")
  /\ w' = [w EXCEPT !.at = IF w.i + 1 = w.len THEN "ack" ELSE "word",
                    !.i = @ + 1, !.buf = Append(@, rxmem[w.i])]
  /\ UNCHANGED <<rxVars, rxread, rxenableirq, txVars, work, up, txwait, mute>>

receive_acks ==
  /\ Runs("ack")
  /\ RXREAD_W
  /\ w' = [Idle EXCEPT !.at = "check", !.again = TRUE]
  /\ UNCHANGED <<rxVars, rxenableirq, txVars, work, up, txwait, mute>>

receive_checks ==
  /\ Runs("check")
  /\ w' = [w EXCEPT !.at = IF Pending THEN "ack" ELSE "enable"]
  /\ UNCHANGED <<rxVars, rxread, rxenableirq, txVars, work, up, txwait, mute>>

receive_enables ==
  /\ Runs("enable")
  /\ rxenableirq' = TRUE /\ mute' = "no"
  /\ Goes("receive")
  /\ UNCHANGED <<rxVars, rxread, txVars, work, up, txwait>>

openeth_transmit(p) ==
  /\ Runs("transmit") /\ up /\ txwait > 0
  /\ txsize' = Len(p)
  /\ w' = [Idle EXCEPT !.at = "tx_word", !.buf = p]
  /\ UNCHANGED <<rxVars, rxread, rxenableirq, txmem, txstate, txenableirq, acktxirq, lost,
                 work, up, txwait, mute>>

(* Slip: the last word is left out.                                                  *)
transmit_less ==
  /\ Runs("tx_word")
  /\ txmem' = [txmem EXCEPT ![w.i] = IF w.i + 1 = txsize THEN @ ELSE w.buf[w.i + 1]]
  /\ w' = [w EXCEPT !.at = IF w.i + 1 = txsize THEN "send" ELSE "tx_word", !.i = @ + 1]
  /\ UNCHANGED <<rxVars, rxread, rxenableirq, txsize, txstate, txenableirq, acktxirq, lost,
                 work, up, txwait, mute>>

transmit_word ==
  /\ Runs("tx_word")
  /\ txmem' = [txmem EXCEPT ![w.i] = w.buf[w.i + 1]]
  /\ w' = [w EXCEPT !.at = IF w.i + 1 = txsize THEN "send" ELSE "tx_word", !.i = @ + 1]
  /\ UNCHANGED <<rxVars, rxread, rxenableirq, txsize, txstate, txenableirq, acktxirq, lost,
                 work, up, txwait, mute>>

transmit_sends ==
  /\ Runs("send")
  /\ SENDPACKET_W
  /\ txwait' = txwait - 1
  /\ Goes("transmit")
  /\ UNCHANGED <<rxVars, rxread, rxenableirq, work, up, mute>>

WorkEnds ==
  /\ Runs("transmit") /\ (~up \/ txwait = 0)
  /\ Goes("idle")
  /\ UNCHANGED <<rxVars, rxread, rxenableirq, txVars, work, up, txwait, mute>>

(* openeth_ifup and openeth_ifdown, two writes each in a critical section, excluded   *)
(* with the worker's turn by the network lock.                                       *)
Switches(at, b) ==
  /\ Runs("idle") /\ up # b
  /\ txenableirq' = b
  /\ Goes(at)
  /\ UNCHANGED <<rxVars, rxread, rxenableirq, txmem, txsize, txstate, acktxirq, lost,
                 work, up, txwait, mute>>

Switched(at, b) ==
  /\ Runs(at)
  /\ rxenableirq' = b /\ up' = b
  /\ mute' = IF b THEN "no" ELSE mute
  /\ Goes("idle")
  /\ UNCHANGED <<rxVars, rxread, txVars, work, txwait>>

openeth_ifup == Switches("ifup", TRUE)
openeth_ifup_ends == Switched("ifup", TRUE)
openeth_ifdown == Switches("ifdown", FALSE)
openeth_ifdown_ends == Switched("ifdown", FALSE)

Worker ==
  \/ WorkStarts \/ openeth_receive_fails \/ openeth_receive \/ receive_word \/ receive_acks
  \/ receive_checks \/ receive_enables
  \/ (\E p \in Packet : openeth_transmit(p)) \/ transmit_word \/ transmit_sends
  \/ WorkEnds \/ openeth_ifup_ends \/ openeth_ifdown_ends

(* The stack, under the network lock, has a packet to send, of an application's or    *)
(* in answer to the one received; it wakes the worker.                               *)
txavail ==
  /\ w.at \in {"idle", "receive"}
  /\ txwait < MaxTx
  /\ txwait' = txwait + 1 /\ work' = TRUE
  /\ UNCHANGED <<rxVars, rxread, rxenableirq, txVars, harts, isr, w, up, mute>>

----
Init ==
  /\ harts \in 1 .. 2
  /\ rxmem = [i \in Index |-> 0] /\ rxsize = 0 /\ rxread = 0 /\ rxwrote = 0
  /\ txmem = [i \in Index |-> 0] /\ txsize = 0 /\ txstate = 0
  /\ rxenableirq = FALSE /\ txenableirq = FALSE /\ acktxirq = FALSE
  /\ isr = "none" /\ work = FALSE /\ w = Idle /\ up = FALSE /\ txwait = 0
  /\ stored = <<>> /\ mute = "no" /\ lost = FALSE

Next ==
  \/ Isr \/ Worker \/ openeth_ifup \/ openeth_ifdown \/ txavail
  \/ \E f \in Frame : Receives(f)

(* Both run on, but nobody need switch the interface; the pool has a buffer now and  *)
(* then.                                                                             *)
Spec ==
  /\ Init /\ [][Next]_vars
  /\ WF_vars(Isr) /\ WF_vars(Worker) /\ SF_vars(openeth_receive)

----
WorkerAt == {"idle", "receive", "word", "ack", "check", "enable", "transmit", "tx_word",
             "send", "ifup", "ifdown"}
WorkerState == [at : WorkerAt, i : 0 .. MTU, len : 0 .. MTU, buf : Seq(Word),
                pending : BOOLEAN, again : BOOLEAN]

RxTypeOK ==
  /\ rxmem \in [Index -> Word] /\ rxsize \in 0 .. MTU /\ stored \in Seq(Word)
  /\ rxread \in 0 .. Cnt - 1 /\ rxwrote \in 0 .. Cnt - 1 /\ rxenableirq \in BOOLEAN

TxTypeOK ==
  /\ txmem \in [Index -> Word] /\ txsize \in 0 .. MTU
  /\ txstate \in {0, 2, 3} /\ txenableirq \in BOOLEAN /\ acktxirq \in BOOLEAN
  /\ txwait \in 0 .. MaxTx

SwTypeOK ==
  /\ harts \in 1 .. 2
  /\ isr \in {"none", "claim", "tx_ack", "tx_done", "rx_disable", "rx_status"}
  /\ work \in BOOLEAN /\ up \in BOOLEAN /\ lost \in BOOLEAN
  /\ mute \in {"no", "wrap", "late", "nobuffer"}
  /\ w \in WorkerState

(* Registers, memories and the worker's locals stay in their widths, whatever the    *)
(* lengths of the frames and however often the counters wrap.                        *)
EthTypeOK == RxTypeOK /\ TxTypeOK /\ SwTypeOK

(* A receive that begins with a frame waiting copies the frame the network gave,     *)
(* whole, before its first acknowledgement lets the device write over it: the worker *)
(* may be interrupted, and the network go on, between any two of its reads.          *)
DeliveredWhole ==
  [][w.at = "ack" /\ w'.at = "check" /\ w.pending => w.buf = stored]_vars

(* While a frame waits, with the interface up, somebody is going to look: the        *)
(* interrupt is enabled or being handled, or the worker has been woken.  Except when *)
(* no buffer was free, when the counters have wrapped, or when the handler came      *)
(* after a worker on the other hart had read the frame.                              *)
NotForgotten ==
  /\ up /\ Pending /\ isr = "none" /\ w.at = "idle" /\ ~work
       => rxenableirq \/ mute # "no"
  /\ harts = 1 => mute # "late"

(* With one hart every command to send finds the transmitter ready, though the       *)
(* driver does not ask: the interrupt of the last was taken and acknowledged before. *)
SendsKept == harts = 1 => ~lost

(* What the host is sent is the packet the driver was given, whole, even when an     *)
(* earlier command is still to be acknowledged as its words are written.             *)
SentWhole == [][txstate = 0 /\ txstate' # 0 => w.at = "send" /\ Sent = w.buf]_vars

(* A frame that waits is acknowledged in the end, or the interface goes down, or     *)
(* the driver has stopped listening for one of the three reasons; and the interrupt  *)
(* of a frame sent is acknowledged in the end, and the transmitter ready again.      *)
Attended ==
  /\ Pending ~> ~Pending \/ ~up \/ mute # "no"
  /\ irqtx ~> txstate = 0 \/ ~txenableirq
====
