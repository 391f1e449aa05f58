---- MODULE EthernetProofs ----
(* Theorems about Ethernet, for frames, memories and counters of any size.           *)
EXTENDS Ethernet, SequenceTheorems, TLAPS

USE EthAssumption

Receiving == {"receive", "word", "ack", "check", "enable"}

(* The frame in the device's memory, and the copy of a receive that began with one   *)
(* waiting: it still waits, and what is copied is its beginning.                     *)
RxInv ==
  /\ rxsize = Len(stored)
  /\ \A k \in 0 .. Len(stored) - 1 : rxmem[k] = stored[k + 1]
  /\ w.at = "word" => w.i < w.len
  /\ w.pending => w.at \in {"word", "ack"}
  /\ w.pending =>
       /\ Pending /\ w.len = rxsize /\ Len(w.buf) = w.i
       /\ \A k \in 1 .. w.i : w.buf[k] = stored[k]
  /\ w.at = "ack" /\ w.pending => w.i = w.len

(* The packet that transmit copies. *)
TxInv ==
  /\ w.at \in {"tx_word", "send"} =>
       /\ up /\ txwait > 0 /\ w.buf \in Packet /\ txsize = Len(w.buf)
       /\ \A k \in 0 .. w.i - 1 : txmem[k] = w.buf[k + 1]
  /\ w.at = "tx_word" => w.i < txsize
  /\ w.at = "send" => w.i = txsize

(* The transmitter follows the handler of its interrupt. *)
IrqInv ==
  /\ isr = "tx_ack" => txstate = 2
  /\ isr = "tx_done" <=> txstate = 3
  /\ isr = "tx_done" <=> acktxirq
  /\ up /\ w.at # "ifdown" => txenableirq
  /\ w.at = "ifup" => txenableirq
  /\ harts = 1 /\ isr \in {"rx_disable", "rx_status"} => Pending

(* Who would look after a frame; and what does not happen with one hart. *)
MuteInv ==
  /\ up /\ mute = "no" =>
       rxenableirq \/ work \/ isr = "rx_status" \/ w.at \in Receiving
  /\ harts = 1 => mute # "late" /\ ~lost

EthInv == EthTypeOK /\ RxInv /\ TxInv /\ IrqInv /\ MuteInv

LEMMA IdleState == Idle \in WorkerState
BY DEF Idle, WorkerState, WorkerAt

(* A frame cut to the MTU. *)
LEMMA CutFrame ==
  ASSUME NEW f \in Frame
  PROVE  /\ f \in Seq(Word) /\ Cut(f) \in Seq(Word)
         /\ Len(Cut(f)) \in 0 .. MTU /\ Len(Cut(f)) <= Len(f)
         /\ \A k \in 1 .. Len(Cut(f)) : Cut(f)[k] = f[k]
<1>1. f \in Seq(Word)
  OBVIOUS
<1>2. Len(f) \in Nat
  BY <1>1, LenProperties
<1> DEFINE n == IF Len(f) < MTU THEN Len(f) ELSE MTU
<1>3. n \in 0 .. Len(f) /\ n <= MTU
  BY <1>2
<1>4. SubSeq(f, 1, n) \in Seq(Word) /\ Len(SubSeq(f, 1, n)) = n
        /\ \A k \in 1 .. n : SubSeq(f, 1, n)[k] = f[k]
  BY <1>1, <1>2, <1>3, SubSeqProperties
<1> QED
  BY <1>1, <1>2, <1>3, <1>4 DEF Cut

LEMMA EthInit == Init => EthInv
<1> SUFFICES ASSUME Init PROVE EthInv
  OBVIOUS
<1>1. EthTypeOK
  <2>1. RxTypeOK
    BY DEF Init, RxTypeOK, Index
  <2>2. TxTypeOK
    BY DEF Init, TxTypeOK, Index
  <2> QED
    BY <2>1, <2>2, IdleState DEF Init, EthTypeOK, SwTypeOK
<1>2. RxInv /\ TxInv /\ IrqInv /\ MuteInv
  BY DEF Init, RxInv, TxInv, IrqInv, MuteInv, Idle, Pending, Receiving
<1> QED
  BY <1>1, <1>2 DEF EthInv

(* The worker's state after a step. *)
LEMMA GoesTo ==
  ASSUME NEW at, Goes(at)
  PROVE  /\ w'.at = at /\ w'.i = 0 /\ w'.len = 0 /\ w'.buf = <<>>
         /\ w'.pending = FALSE /\ w'.again = FALSE
         /\ at \in WorkerAt => w' \in WorkerState
<1>1. w' = [at |-> at, i |-> 0, len |-> 0, buf |-> <<>>, pending |-> FALSE, again |-> FALSE]
  BY DEF Goes, Idle
<1> QED
  BY <1>1 DEF WorkerState

LEMMA EthTypes == EthInv /\ [Next]_vars => EthTypeOK'
<1> SUFFICES ASSUME EthInv, [Next]_vars PROVE EthTypeOK'
  OBVIOUS
<1> USE DEF EthInv, EthTypeOK
<1>1. CASE Interrupt
  BY <1>1 DEF Interrupt, InCriticalSection, rxVars, txVars, swVars, RxTypeOK, TxTypeOK, SwTypeOK, IrqInv
<1>2. CASE Claim
  BY <1>2 DEF Claim, rxVars, txVars, swVars, RxTypeOK, TxTypeOK, SwTypeOK, IrqInv
<1>3. CASE tx_isr_acks
  BY <1>3 DEF tx_isr_acks, ACKTXIRQ_W, Settled, rxVars, txVars, swVars, RxTypeOK, TxTypeOK, SwTypeOK, IrqInv
<1>4. CASE tx_isr_done
  BY <1>4 DEF tx_isr_done, ACKTXIRQ_W, Settled, rxVars, txVars, swVars, RxTypeOK, TxTypeOK, SwTypeOK, IrqInv
<1>5. CASE rx_isr_disables
  BY <1>5 DEF rx_isr_disables, rxVars, txVars, swVars, RxTypeOK, TxTypeOK, SwTypeOK, IrqInv
<1>6. CASE rx_isr_reads
  BY <1>6 DEF rx_isr_reads, rxVars, txVars, swVars, RxTypeOK, TxTypeOK, SwTypeOK, IrqInv
<1>7. CASE WorkStarts
  <2>1. w' \in WorkerState
    BY <1>7, GoesTo DEF WorkStarts, WorkerAt
  <2> QED
    BY <1>7, <2>1 DEF WorkStarts, Runs, rxVars, txVars, RxTypeOK, TxTypeOK, SwTypeOK
<1>8. CASE openeth_receive_fails
  <2>1. w' \in WorkerState
    BY <1>8, GoesTo DEF openeth_receive_fails, WorkerAt
  <2> QED
    BY <1>8, <2>1 DEF openeth_receive_fails, Runs, rxVars, txVars, RxTypeOK, TxTypeOK, SwTypeOK
<1>9. CASE openeth_receive
  <2>1. w' \in WorkerState
    <3>1. Pending \in BOOLEAN
      BY DEF Pending
    <3>2. rxsize \in 0 .. MTU
      BY DEF RxTypeOK
    <3>3. w' = [at |-> IF rxsize = 0 THEN "ack" ELSE "word", i |-> 0, len |-> rxsize,
                buf |-> <<>>, pending |-> Pending, again |-> FALSE]
      BY <1>9 DEF openeth_receive, Idle
    <3> QED
      BY <3>1, <3>2, <3>3 DEF WorkerState, WorkerAt
  <2> QED
    BY <1>9, <2>1 DEF openeth_receive, Runs, rxVars, txVars, RxTypeOK, TxTypeOK, SwTypeOK
<1>10. CASE receive_word
  <2>1. w' \in WorkerState
    <3>1. w \in WorkerState /\ w.i < w.len /\ w.len \in 0 .. MTU /\ w.i \in 0 .. MTU
      BY <1>10 DEF receive_word, Runs, RxInv, SwTypeOK, WorkerState
    <3>2. rxmem[w.i] \in Word
      BY <3>1 DEF RxTypeOK, Index
    <3>3. Append(w.buf, rxmem[w.i]) \in Seq(Word)
      BY <3>1, <3>2, AppendProperties DEF WorkerState
    <3>4. w.i + 1 \in 0 .. MTU
      BY <3>1
    <3>5. w' = [at |-> IF w.i + 1 = w.len THEN "ack" ELSE "word", i |-> w.i + 1, len |-> w.len,
                buf |-> Append(w.buf, rxmem[w.i]), pending |-> w.pending, again |-> w.again]
      BY <1>10, <3>1 DEF receive_word, WorkerState
    <3> QED
      BY <3>1, <3>3, <3>4, <3>5 DEF WorkerState, WorkerAt
  <2> QED
    BY <1>10, <2>1 DEF receive_word, Runs, rxVars, txVars, RxTypeOK, TxTypeOK, SwTypeOK
<1>11. CASE receive_acks
  <2>1. w' \in WorkerState
    <3>1. w' = [at |-> "check", i |-> 0, len |-> 0, buf |-> <<>>, pending |-> FALSE,
                again |-> TRUE]
      BY <1>11 DEF receive_acks, Idle
    <3> QED
      BY <3>1 DEF WorkerState, WorkerAt
  <2> QED
    BY <1>11, <2>1 DEF receive_acks, Runs, RXREAD_W, rxVars, txVars, RxTypeOK, TxTypeOK, SwTypeOK
<1>12. CASE receive_checks
  <2>1. w' \in WorkerState
    BY <1>12 DEF receive_checks, SwTypeOK, WorkerState, WorkerAt
  <2> QED
    BY <1>12, <2>1 DEF receive_checks, Runs, rxVars, txVars, RxTypeOK, TxTypeOK, SwTypeOK
<1>13. CASE receive_enables
  <2>1. w' \in WorkerState
    BY <1>13, GoesTo DEF receive_enables, WorkerAt
  <2> QED
    BY <1>13, <2>1 DEF receive_enables, Runs, rxVars, txVars, RxTypeOK, TxTypeOK, SwTypeOK
<1>14. CASE \E p \in Packet : openeth_transmit(p)
  <2> PICK p \in Packet : openeth_transmit(p)
    BY <1>14
  <2>1. w' \in WorkerState
    <3>1. w' = [at |-> "tx_word", i |-> 0, len |-> 0, buf |-> p, pending |-> FALSE,
                again |-> FALSE]
      BY DEF openeth_transmit, Idle
    <3> QED
      BY <3>1 DEF WorkerState, WorkerAt
  <2>2. txsize' \in 0 .. MTU
    BY DEF openeth_transmit
  <2> QED
    BY <2>1, <2>2 DEF openeth_transmit, Runs, rxVars, txVars, RxTypeOK, TxTypeOK, SwTypeOK
<1>15. CASE transmit_word
  <2>1. w' \in WorkerState
    <3>1. w \in WorkerState /\ w.i < txsize /\ txsize \in 0 .. MTU /\ w.i \in 0 .. MTU
      BY <1>15 DEF transmit_word, Runs, TxInv, TxTypeOK, SwTypeOK, WorkerState
    <3>2. w.i + 1 \in 0 .. MTU
      BY <3>1
    <3> QED
      BY <1>15, <3>1, <3>2 DEF transmit_word, WorkerState, WorkerAt
  <2>2. txmem' \in [Index -> Word]
    <3>1. w.buf \in Seq(Word) /\ w.i \in Nat /\ w.i < Len(w.buf)
      BY <1>15 DEF transmit_word, Runs, TxInv, SwTypeOK, WorkerState
    <3>2. Len(w.buf) \in Nat /\ w.i + 1 \in 1 .. Len(w.buf)
      BY <3>1, LenProperties
    <3>3. w.buf[w.i + 1] \in Word
      BY <3>1, <3>2, ElementOfSeq
    <3> QED
      BY <1>15, <3>3 DEF transmit_word, TxTypeOK
  <2> QED
    BY <1>15, <2>1, <2>2 DEF transmit_word, Runs, rxVars, txVars, RxTypeOK, TxTypeOK, SwTypeOK
<1>16. CASE transmit_sends
  <2>1. w' \in WorkerState
    BY <1>16, GoesTo DEF transmit_sends, WorkerAt
  <2>3. txwait' \in 0 .. MaxTx
    BY <1>16 DEF transmit_sends, Runs, TxInv, SwTypeOK, TxTypeOK
  <2>4. txstate' \in {0, 2, 3} /\ lost' \in BOOLEAN
    BY <1>16 DEF transmit_sends, SENDPACKET_W, Settled, TxTypeOK, SwTypeOK
  <2>5. /\ UNCHANGED <<txmem, txsize, txenableirq, acktxirq, harts, isr>>
        /\ UNCHANGED <<rxVars, rxread, rxenableirq, work, up, mute>>
    BY <1>16 DEF transmit_sends, Runs, SENDPACKET_W
  <2>6. RxTypeOK'
    BY <2>5 DEF rxVars, RxTypeOK
  <2>7. TxTypeOK'
    BY <2>3, <2>4, <2>5 DEF TxTypeOK
  <2>8. SwTypeOK'
    BY <2>1, <2>4, <2>5 DEF SwTypeOK
  <2> QED
    BY <2>6, <2>7, <2>8
<1>17. CASE WorkEnds
  <2>1. w' \in WorkerState
    BY <1>17, GoesTo DEF WorkEnds, WorkerAt
  <2> QED
    BY <1>17, <2>1 DEF WorkEnds, Runs, rxVars, txVars, RxTypeOK, TxTypeOK, SwTypeOK
<1>18. CASE openeth_ifup
  <2>1. w' \in WorkerState
    BY <1>18, GoesTo DEF openeth_ifup, WorkerAt, Switches
  <2> QED
    BY <1>18, <2>1 DEF openeth_ifup, Runs, Switches, rxVars, txVars, RxTypeOK, TxTypeOK, SwTypeOK
<1>19. CASE openeth_ifup_ends
  <2>1. w' \in WorkerState
    BY <1>19, GoesTo DEF openeth_ifup_ends, WorkerAt, Switched
  <2> QED
    BY <1>19, <2>1 DEF openeth_ifup_ends, Runs, Switched, rxVars, txVars, RxTypeOK, TxTypeOK, SwTypeOK
<1>20. CASE openeth_ifdown
  <2>1. w' \in WorkerState
    BY <1>20, GoesTo DEF openeth_ifdown, WorkerAt, Switches
  <2> QED
    BY <1>20, <2>1 DEF openeth_ifdown, Runs, Switches, rxVars, txVars, RxTypeOK, TxTypeOK, SwTypeOK
<1>21. CASE openeth_ifdown_ends
  <2>1. w' \in WorkerState
    BY <1>21, GoesTo DEF openeth_ifdown_ends, WorkerAt, Switched
  <2> QED
    BY <1>21, <2>1 DEF openeth_ifdown_ends, Runs, Switched, rxVars, txVars, RxTypeOK, TxTypeOK, SwTypeOK
<1>22. CASE \E f \in Frame : Receives(f)
  <2> SUFFICES ASSUME NEW f \in Frame, Receives(f) PROVE EthTypeOK'
    BY <1>22
  <2>1. Cut(f) \in Seq(Word) /\ Len(Cut(f)) \in 0 .. MTU /\ f \in Seq(Word)
          /\ Len(Cut(f)) <= Len(f) /\ Len(f) \in Nat
    BY CutFrame, LenProperties
  <2>2. \A k \in Index : k < Len(Cut(f)) => f[k + 1] \in Word
    BY <2>1, ElementOfSeq DEF Index
  <2>3. rxmem' \in [Index -> Word]
    BY <2>2 DEF Receives, checkrx, RxTypeOK
  <2>4. rxwrote' \in 0 .. Cnt - 1
    BY DEF Receives, checkrx, RxTypeOK
  <2> QED
    BY <2>1, <2>3, <2>4 DEF Receives, checkrx, txVars, swVars, RxTypeOK, TxTypeOK, SwTypeOK
<1>23. CASE txavail
  <2>1. txwait' \in 0 .. MaxTx
    BY <1>23 DEF txavail, TxTypeOK
  <2> QED
    BY <1>23, <2>1 DEF txavail, rxVars, txVars, RxTypeOK, TxTypeOK, SwTypeOK
<1>24. CASE UNCHANGED vars
  BY <1>24 DEF vars, rxVars, txVars, swVars, RxTypeOK, TxTypeOK, SwTypeOK
<1> QED
  BY <1>1, <1>2, <1>3, <1>4, <1>5, <1>6, <1>7, <1>8, <1>9, <1>10, <1>11, <1>12, <1>13, <1>14, <1>15, <1>16, <1>17, <1>18, <1>19, <1>20, <1>21, <1>22, <1>23, <1>24 DEF Next, Isr, Worker

(* A receive that does not copy has nothing to keep. *)
LEMMA NotCopying ==
  ASSUME RxInv, UNCHANGED <<rxmem, rxsize, stored>>, w'.pending = FALSE, w'.at # "word"
  PROVE  RxInv'
BY DEF RxInv

(* The received frame stays as it is while a receive that found it waiting copies it. *)
LEMMA EthRx == EthInv /\ [Next]_vars => RxInv'
<1> SUFFICES ASSUME EthInv, [Next]_vars PROVE RxInv'
  OBVIOUS
<1> USE DEF EthInv
<1>1. CASE Isr
  BY <1>1 DEF Isr, Interrupt, Claim, tx_isr_acks, tx_isr_done, rx_isr_disables, rx_isr_reads, rxVars, RxInv, Pending
<1>2. CASE WorkStarts
  <2>1. w'.at # "word" /\ w'.pending = FALSE
    BY <1>2 DEF WorkStarts, Goes, Idle
  <2> QED
    BY <1>2, <2>1, NotCopying DEF WorkStarts, Runs, rxVars
<1>3. CASE openeth_receive_fails
  <2>1. w'.at # "word" /\ w'.pending = FALSE
    BY <1>3 DEF openeth_receive_fails, Goes, Idle
  <2> QED
    BY <1>3, <2>1, NotCopying DEF openeth_receive_fails, Runs, rxVars
<1>4. CASE openeth_receive
  <2>1. w' = [at |-> IF rxsize = 0 THEN "ack" ELSE "word", i |-> 0, len |-> rxsize,
              buf |-> <<>>, pending |-> Pending, again |-> FALSE]
    BY <1>4 DEF openeth_receive, Idle
  <2>2. UNCHANGED <<rxmem, rxsize, rxwrote, stored, rxread>> /\ rxsize \in Nat
    BY <1>4 DEF openeth_receive, rxVars, EthTypeOK, RxTypeOK
  <2>3. /\ w'.at \in {"word", "ack"} /\ (w'.at = "word" => 0 < rxsize)
        /\ (w'.at = "ack" => rxsize = 0)
        /\ w'.i = 0 /\ w'.len = rxsize /\ Len(w'.buf) = 0
    BY <2>1, <2>2
  <2>4. w'.pending => Pending
    BY <2>1
  <2>5. Pending' = Pending
    BY <2>2 DEF Pending
  <2>6. rxsize = Len(stored) /\ \A k \in 0 .. Len(stored) - 1 : rxmem[k] = stored[k + 1]
    BY DEF RxInv
  <2> QED
    BY <2>2, <2>3, <2>4, <2>5, <2>6 DEF RxInv
<1>5. CASE receive_word
  <2>1. w \in WorkerState /\ w.at = "word" /\ w.i < w.len
    BY <1>5 DEF receive_word, Runs, RxInv, EthTypeOK, SwTypeOK
  <2>2. w' = [at |-> IF w.i + 1 = w.len THEN "ack" ELSE "word", i |-> w.i + 1, len |-> w.len,
              buf |-> Append(w.buf, rxmem[w.i]), pending |-> w.pending, again |-> w.again]
    BY <1>5, <2>1 DEF receive_word, WorkerState
  <2>3. UNCHANGED <<rxmem, rxsize, rxwrote, stored, rxread>>
    BY <1>5 DEF receive_word, rxVars
  <2>4. w.buf \in Seq(Word) /\ w.i \in Nat /\ w.len \in 0 .. MTU /\ stored \in Seq(Word)
    BY <2>1 DEF WorkerState, EthTypeOK, RxTypeOK
  <2>5. rxmem[w.i] \in Word
    BY <2>1, <2>4 DEF EthTypeOK, RxTypeOK, Index
  <2>6. ASSUME w.pending
        PROVE  /\ Pending /\ w.len = rxsize /\ Len(w'.buf) = w'.i
               /\ \A k \in 1 .. w'.i : w'.buf[k] = stored[k]
    <3>1. Pending /\ w.len = rxsize /\ Len(w.buf) = w.i /\ rxsize = Len(stored)
            /\ \A k \in 1 .. w.i : w.buf[k] = stored[k]
      BY <2>1, <2>6 DEF RxInv
    <3>2. rxmem[w.i] = stored[w.i + 1]
      <4>1. w.i \in 0 .. Len(stored) - 1
        BY <2>1, <2>4, <3>1
      <4> QED
        BY <4>1 DEF RxInv
    <3>3. /\ Len(Append(w.buf, rxmem[w.i])) = w.i + 1
          /\ \A k \in 1 .. w.i : Append(w.buf, rxmem[w.i])[k] = w.buf[k]
          /\ Append(w.buf, rxmem[w.i])[w.i + 1] = rxmem[w.i]
      BY <2>4, <2>5, <3>1, AppendProperties
    <3>4. w'.i = w.i + 1 /\ w'.buf = Append(w.buf, rxmem[w.i])
      BY <2>2
    <3>5. \A k \in 1 .. w.i + 1 : k \in 1 .. w.i \/ k = w.i + 1
      BY <2>4
    <3> QED
      BY <3>1, <3>2, <3>3, <3>4, <3>5
  <2>7. w'.at = "word" => w'.i < w'.len
    BY <2>1, <2>2, <2>4
  <2>8. w'.at = "ack" => w'.i = w'.len
    BY <2>2
  <2>9. w'.pending = w.pending /\ w'.len = w.len /\ w'.at \in {"word", "ack"}
    BY <2>2
  <2>10. Pending' = Pending
    BY <2>3 DEF Pending
  <2>11. w'.pending => /\ Pending' /\ w'.len = rxsize' /\ Len(w'.buf) = w'.i
                       /\ \A k \in 1 .. w'.i : w'.buf[k] = stored'[k]
    BY <2>3, <2>6, <2>9, <2>10
  <2>12. rxsize' = Len(stored') /\ \A k \in 0 .. Len(stored') - 1 : rxmem'[k] = stored'[k + 1]
    BY <2>3 DEF RxInv
  <2> QED
    BY <2>7, <2>8, <2>9, <2>11, <2>12 DEF RxInv
<1>6. CASE receive_acks
  <2>1. w'.at = "check" /\ w'.pending = FALSE
    BY <1>6 DEF receive_acks, Idle
  <2> QED
    BY <1>6, <2>1, NotCopying DEF receive_acks, rxVars
<1>7. CASE receive_checks
  <2>1. w'.at \in {"ack", "enable"} /\ w'.pending = w.pending /\ w.at = "check"
    BY <1>7 DEF receive_checks, Runs, EthTypeOK, SwTypeOK, WorkerState
  <2>2. w.pending = FALSE
    BY <2>1 DEF RxInv, EthTypeOK, SwTypeOK, WorkerState
  <2> QED
    BY <1>7, <2>1, <2>2, NotCopying DEF receive_checks, rxVars
<1>8. CASE receive_enables
  <2>1. w'.at # "word" /\ w'.pending = FALSE
    BY <1>8 DEF receive_enables, Goes, Idle
  <2> QED
    BY <1>8, <2>1, NotCopying DEF receive_enables, Runs, rxVars
<1>9. CASE \E p \in Packet : openeth_transmit(p)
  <2>1. w'.at # "word" /\ w'.pending = FALSE
    BY <1>9 DEF openeth_transmit, Goes, Idle
  <2> QED
    BY <1>9, <2>1, NotCopying DEF openeth_transmit, Runs, rxVars
<1>10. CASE transmit_word
  <2>1. w'.at \in {"tx_word", "send"} /\ w'.pending = w.pending /\ w.at = "tx_word"
    BY <1>10 DEF transmit_word, Runs, EthTypeOK, SwTypeOK, WorkerState
  <2>2. w.pending = FALSE
    BY <2>1 DEF RxInv, EthTypeOK, SwTypeOK, WorkerState
  <2>3. w'.pending = FALSE
    BY <2>1, <2>2
  <2> QED
    BY <1>10, <2>1, <2>3, NotCopying DEF transmit_word, rxVars
<1>11. CASE transmit_sends
  <2>1. w'.at # "word" /\ w'.pending = FALSE
    BY <1>11 DEF transmit_sends, SENDPACKET_W, Goes, Idle
  <2> QED
    BY <1>11, <2>1, NotCopying DEF transmit_sends, Runs, SENDPACKET_W, rxVars
<1>12. CASE WorkEnds
  <2>1. w'.at # "word" /\ w'.pending = FALSE
    BY <1>12 DEF WorkEnds, Goes, Idle
  <2> QED
    BY <1>12, <2>1, NotCopying DEF WorkEnds, Runs, rxVars
<1>13. CASE openeth_ifup
  <2>1. w'.at # "word" /\ w'.pending = FALSE
    BY <1>13 DEF openeth_ifup, Switches, Goes, Idle
  <2> QED
    BY <1>13, <2>1, NotCopying DEF openeth_ifup, Runs, Switches, rxVars
<1>14. CASE openeth_ifup_ends
  <2>1. w'.at # "word" /\ w'.pending = FALSE
    BY <1>14 DEF openeth_ifup_ends, Switched, Goes, Idle
  <2> QED
    BY <1>14, <2>1, NotCopying DEF openeth_ifup_ends, Runs, Switched, rxVars
<1>15. CASE openeth_ifdown
  <2>1. w'.at # "word" /\ w'.pending = FALSE
    BY <1>15 DEF openeth_ifdown, Switches, Goes, Idle
  <2> QED
    BY <1>15, <2>1, NotCopying DEF openeth_ifdown, Runs, Switches, rxVars
<1>16. CASE openeth_ifdown_ends
  <2>1. w'.at # "word" /\ w'.pending = FALSE
    BY <1>16 DEF openeth_ifdown_ends, Switched, Goes, Idle
  <2> QED
    BY <1>16, <2>1, NotCopying DEF openeth_ifdown_ends, Runs, Switched, rxVars
<1>17. CASE \E f \in Frame : Receives(f)
  <2> SUFFICES ASSUME NEW f \in Frame, Receives(f) PROVE RxInv'
    BY <1>17
  <2>1. ~Pending /\ w' = w
    BY DEF Receives, checkrx, swVars
  <2>2. Cut(f) \in Seq(Word) /\ Len(Cut(f)) \in 0 .. MTU
          /\ \A k \in 1 .. Len(Cut(f)) : Cut(f)[k] = f[k]
    BY CutFrame
  <2>3. rxsize' = Len(stored') /\ stored' = Cut(f)
    BY DEF Receives, checkrx
  <2>4. \A k \in 0 .. Len(Cut(f)) - 1 : rxmem'[k] = Cut(f)[k + 1]
    <3> SUFFICES ASSUME NEW k \in 0 .. Len(Cut(f)) - 1 PROVE rxmem'[k] = Cut(f)[k + 1]
      OBVIOUS
    <3>1. k \in Index /\ k < Len(Cut(f)) /\ k + 1 \in 1 .. Len(Cut(f))
      BY <2>2 DEF Index
    <3>2. rxmem'[k] = f[k + 1]
      BY <3>1 DEF Receives, checkrx
    <3> QED
      BY <2>2, <3>1, <3>2
  <2> QED
    BY <2>1, <2>3, <2>4 DEF RxInv
<1>18. CASE txavail
  BY <1>18 DEF txavail, rxVars, RxInv, Pending
<1>19. CASE UNCHANGED vars
  BY <1>19 DEF vars, rxVars, swVars, RxInv, Pending
<1> QED
  BY <1>1, <1>2, <1>3, <1>4, <1>5, <1>6, <1>7, <1>8, <1>9, <1>10, <1>11, <1>12, <1>13, <1>14, <1>15, <1>16, <1>17, <1>18, <1>19 DEF Next, Worker

(* Where each of the worker's steps goes. *)
LEMMA WorkerGoes ==
  ASSUME SwTypeOK
  PROVE  /\ WorkStarts => w.at = "idle" /\ w'.at \in {"receive"}
         /\ openeth_receive_fails => w.at = "receive" /\ w'.at \in {"transmit"}
         /\ openeth_receive => w.at = "receive" /\ w'.at \in {"word", "ack"}
         /\ receive_word => w.at = "word" /\ w'.at \in {"word", "ack"}
         /\ receive_acks => w.at = "ack" /\ w'.at \in {"check"}
         /\ receive_checks => w.at = "check" /\ w'.at \in {"ack", "enable"}
         /\ receive_enables => w.at = "enable" /\ w'.at \in {"receive"}
         /\ (\E p \in Packet : openeth_transmit(p)) => w.at = "transmit" /\ w'.at \in {"tx_word"}
         /\ transmit_word => w.at = "tx_word" /\ w'.at \in {"tx_word", "send"}
         /\ transmit_sends => w.at = "send" /\ w'.at \in {"transmit"}
         /\ WorkEnds => w.at = "transmit" /\ w'.at \in {"idle"}
         /\ openeth_ifup => w.at = "idle" /\ w'.at \in {"ifup"}
         /\ openeth_ifup_ends => w.at = "ifup" /\ w'.at \in {"idle"}
         /\ openeth_ifdown => w.at = "idle" /\ w'.at \in {"ifdown"}
         /\ openeth_ifdown_ends => w.at = "ifdown" /\ w'.at \in {"idle"}
         /\ Worker \/ openeth_ifup \/ openeth_ifdown =>
              /\ UNCHANGED <<harts, isr>>
              /\ harts = 2 \/ (isr = "none" /\ (irqtx => InCriticalSection))
<1>1. WorkStarts => w.at = "idle" /\ w'.at \in {"receive"}
  BY DEF WorkStarts, Runs, Goes, Idle, SwTypeOK, WorkerState
<1>2. openeth_receive_fails => w.at = "receive" /\ w'.at \in {"transmit"}
  BY DEF openeth_receive_fails, Runs, Goes, Idle, SwTypeOK, WorkerState
<1>3. openeth_receive => w.at = "receive" /\ w'.at \in {"word", "ack"}
  BY DEF openeth_receive, Runs, Idle, SwTypeOK, WorkerState
<1>4. receive_word => w.at = "word" /\ w'.at \in {"word", "ack"}
  BY DEF receive_word, Runs, Idle, SwTypeOK, WorkerState
<1>5. receive_acks => w.at = "ack" /\ w'.at \in {"check"}
  BY DEF receive_acks, Runs, Idle, SwTypeOK, WorkerState
<1>6. receive_checks => w.at = "check" /\ w'.at \in {"ack", "enable"}
  BY DEF receive_checks, Runs, Idle, SwTypeOK, WorkerState
<1>7. receive_enables => w.at = "enable" /\ w'.at \in {"receive"}
  BY DEF receive_enables, Runs, Goes, Idle, SwTypeOK, WorkerState
<1>8. (\E p \in Packet : openeth_transmit(p)) => w.at = "transmit" /\ w'.at \in {"tx_word"}
  BY DEF openeth_transmit, Runs, Goes, Idle, SwTypeOK, WorkerState
<1>9. transmit_word => w.at = "tx_word" /\ w'.at \in {"tx_word", "send"}
  BY DEF transmit_word, Runs, Idle, SwTypeOK, WorkerState
<1>10. transmit_sends => w.at = "send" /\ w'.at \in {"transmit"}
  BY DEF transmit_sends, Runs, Goes, Idle, SwTypeOK, WorkerState
<1>11. WorkEnds => w.at = "transmit" /\ w'.at \in {"idle"}
  BY DEF WorkEnds, Runs, Goes, Idle, SwTypeOK, WorkerState
<1>12. openeth_ifup => w.at = "idle" /\ w'.at \in {"ifup"}
  BY DEF openeth_ifup, Runs, Switches, Goes, Idle, SwTypeOK, WorkerState
<1>13. openeth_ifup_ends => w.at = "ifup" /\ w'.at \in {"idle"}
  BY DEF openeth_ifup_ends, Runs, Switched, Goes, Idle, SwTypeOK, WorkerState
<1>14. openeth_ifdown => w.at = "idle" /\ w'.at \in {"ifdown"}
  BY DEF openeth_ifdown, Runs, Switches, Goes, Idle, SwTypeOK, WorkerState
<1>15. openeth_ifdown_ends => w.at = "ifdown" /\ w'.at \in {"idle"}
  BY DEF openeth_ifdown_ends, Runs, Switched, Goes, Idle, SwTypeOK, WorkerState
<1>20. Worker \/ openeth_ifup \/ openeth_ifdown =>
         /\ UNCHANGED <<harts, isr>>
         /\ harts = 2 \/ (isr = "none" /\ (irqtx => InCriticalSection))
  BY DEF Worker, Runs, WorkStarts, openeth_receive_fails, openeth_receive, receive_word, receive_acks, receive_checks, receive_enables, openeth_transmit, transmit_word, transmit_sends, WorkEnds, openeth_ifup, openeth_ifup_ends, openeth_ifdown, openeth_ifdown_ends, Switches, Switched
<1> QED
  BY <1>1, <1>2, <1>3, <1>4, <1>5, <1>6, <1>7, <1>8, <1>9, <1>10, <1>11, <1>12, <1>13, <1>14, <1>15, <1>20

(* The packet being sent stays first in its queue while transmit copies it. *)
LEMMA EthTx == EthInv /\ [Next]_vars => TxInv'
<1> SUFFICES ASSUME EthInv, [Next]_vars PROVE TxInv'
  OBVIOUS
<1> USE DEF EthInv
<1>0. SwTypeOK
  BY DEF EthTypeOK
<1>1. CASE Isr
  BY <1>1 DEF Isr, Interrupt, Claim, tx_isr_acks, tx_isr_done, rx_isr_disables, rx_isr_reads, ACKTXIRQ_W, txVars, TxInv
<1>2. CASE WorkStarts
  <2>1. w'.at \notin {"tx_word", "send"}
    BY <1>2, <1>0, WorkerGoes
  <2> QED
    BY <2>1 DEF TxInv
<1>3. CASE openeth_receive_fails
  <2>1. w'.at \notin {"tx_word", "send"}
    BY <1>3, <1>0, WorkerGoes
  <2> QED
    BY <2>1 DEF TxInv
<1>4. CASE openeth_receive
  <2>1. w'.at \notin {"tx_word", "send"}
    BY <1>4, <1>0, WorkerGoes
  <2> QED
    BY <2>1 DEF TxInv
<1>5. CASE receive_word
  <2>1. w'.at \notin {"tx_word", "send"}
    BY <1>5, <1>0, WorkerGoes
  <2> QED
    BY <2>1 DEF TxInv
<1>6. CASE receive_acks
  <2>1. w'.at \notin {"tx_word", "send"}
    BY <1>6, <1>0, WorkerGoes
  <2> QED
    BY <2>1 DEF TxInv
<1>7. CASE receive_checks
  <2>1. w'.at \notin {"tx_word", "send"}
    BY <1>7, <1>0, WorkerGoes
  <2> QED
    BY <2>1 DEF TxInv
<1>8. CASE receive_enables
  <2>1. w'.at \notin {"tx_word", "send"}
    BY <1>8, <1>0, WorkerGoes
  <2> QED
    BY <2>1 DEF TxInv
<1>9. CASE \E p \in Packet : openeth_transmit(p)
  <2> PICK p \in Packet : openeth_transmit(p)
    BY <1>9
  <2>1. w'.at = "tx_word" /\ w'.i = 0 /\ w'.buf = p
    BY DEF openeth_transmit, Idle
  <2>2. up' /\ txwait' > 0 /\ w'.buf \in Packet /\ txsize' = Len(w'.buf)
    BY <2>1 DEF openeth_transmit
  <2>3. 0 < txsize'
    BY DEF openeth_transmit
  <2> QED
    BY <2>1, <2>2, <2>3 DEF TxInv
<1>10. CASE transmit_word
  <2>1. w \in WorkerState /\ w.at = "tx_word" /\ w.i < txsize /\ w.i \in Nat /\ txsize \in 0 .. MTU
    BY <1>10 DEF transmit_word, Runs, TxInv, EthTypeOK, TxTypeOK, SwTypeOK, WorkerState
  <2>2. /\ w'.at = IF w.i + 1 = txsize THEN "send" ELSE "tx_word"
        /\ w'.i = w.i + 1 /\ w'.buf = w.buf
    BY <1>10, <2>1 DEF transmit_word, WorkerState
  <2>3. UNCHANGED <<up, txwait, txsize>>
    BY <1>10 DEF transmit_word
  <2>4. \A k \in 0 .. w.i : txmem'[k] = w.buf[k + 1]
    <3>1. w.i \in Index /\ txmem \in [Index -> Word]
      BY <2>1 DEF Index, EthTypeOK, TxTypeOK
    <3>2. txmem' = [txmem EXCEPT ![w.i] = w.buf[w.i + 1]]
      BY <1>10 DEF transmit_word
    <3>3. \A k \in 0 .. w.i - 1 : txmem[k] = w.buf[k + 1] /\ k \in Index /\ k # w.i
      BY <2>1 DEF TxInv, Index
    <3>4. \A k \in 0 .. w.i : k \in 0 .. w.i - 1 \/ k = w.i
      BY <2>1
    <3> QED
      BY <3>1, <3>2, <3>3, <3>4
  <2>5. \A k \in 0 .. w'.i - 1 : txmem'[k] = w'.buf[k + 1]
    BY <2>1, <2>2, <2>3, <2>4
  <2>6. up /\ txwait > 0 /\ w.buf \in Packet /\ txsize = Len(w.buf)
    BY <2>1 DEF TxInv
  <2> QED
    BY <2>1, <2>2, <2>3, <2>5, <2>6 DEF TxInv
<1>11. CASE transmit_sends
  <2>1. w'.at \notin {"tx_word", "send"}
    BY <1>11, <1>0, WorkerGoes
  <2> QED
    BY <2>1 DEF TxInv
<1>12. CASE WorkEnds
  <2>1. w'.at \notin {"tx_word", "send"}
    BY <1>12, <1>0, WorkerGoes
  <2> QED
    BY <2>1 DEF TxInv
<1>13. CASE openeth_ifup
  <2>1. w'.at \notin {"tx_word", "send"}
    BY <1>13, <1>0, WorkerGoes
  <2> QED
    BY <2>1 DEF TxInv
<1>14. CASE openeth_ifup_ends
  <2>1. w'.at \notin {"tx_word", "send"}
    BY <1>14, <1>0, WorkerGoes
  <2> QED
    BY <2>1 DEF TxInv
<1>15. CASE openeth_ifdown
  <2>1. w'.at \notin {"tx_word", "send"}
    BY <1>15, <1>0, WorkerGoes
  <2> QED
    BY <2>1 DEF TxInv
<1>16. CASE openeth_ifdown_ends
  <2>1. w'.at \notin {"tx_word", "send"}
    BY <1>16, <1>0, WorkerGoes
  <2> QED
    BY <2>1 DEF TxInv
<1>17. CASE \E f \in Frame : Receives(f)
  BY <1>17 DEF Receives, txVars, swVars, TxInv
<1>18. CASE txavail
  BY <1>18 DEF txavail, TxInv
<1>19. CASE UNCHANGED vars
  BY <1>19 DEF vars, txVars, swVars, TxInv
<1> QED
  BY <1>1, <1>2, <1>3, <1>4, <1>5, <1>6, <1>7, <1>8, <1>9, <1>10, <1>11, <1>12, <1>13, <1>14, <1>15, <1>16, <1>17, <1>18, <1>19 DEF Next, Worker

(* A handler that runs on the only hart keeps the worker from acknowledging; and a   *)
(* handler acknowledges what it has claimed.                                         *)
LEMMA EthIrq == EthInv /\ [Next]_vars => IrqInv'
<1> SUFFICES ASSUME EthInv, [Next]_vars PROVE IrqInv'
  OBVIOUS
<1> USE DEF EthInv
<1>0. SwTypeOK /\ TxTypeOK
  BY DEF EthTypeOK
<1>1. CASE Interrupt
  BY <1>1, <1>0 DEF Interrupt, irqtx, irqrx, rxVars, txVars, IrqInv, Pending, SwTypeOK, TxTypeOK
<1>2. CASE Claim
  BY <1>2, <1>0 DEF Claim, irqtx, irqrx, rxVars, txVars, IrqInv, Pending, SwTypeOK, TxTypeOK
<1>3. CASE tx_isr_acks
  BY <1>3, <1>0 DEF tx_isr_acks, ACKTXIRQ_W, Settled, irqtx, irqrx, rxVars, txVars, IrqInv, Pending, SwTypeOK, TxTypeOK
<1>4. CASE tx_isr_done
  BY <1>4, <1>0 DEF tx_isr_done, ACKTXIRQ_W, Settled, irqtx, irqrx, rxVars, txVars, IrqInv, Pending, SwTypeOK, TxTypeOK
<1>5. CASE rx_isr_disables
  BY <1>5, <1>0 DEF rx_isr_disables, irqtx, irqrx, rxVars, txVars, IrqInv, Pending, SwTypeOK, TxTypeOK
<1>6. CASE rx_isr_reads
  BY <1>6, <1>0 DEF rx_isr_reads, irqtx, irqrx, rxVars, txVars, IrqInv, Pending, SwTypeOK, TxTypeOK
<1>7. CASE WorkStarts
  <2>1. w.at # w'.at \/ w'.at # "ifdown"
    BY <1>7, <1>0, WorkerGoes
  <2> QED
    BY <1>7, <1>0, <2>1, WorkerGoes DEF Worker, WorkStarts, rxVars, txVars, IrqInv, Pending, TxTypeOK, SwTypeOK
<1>8. CASE openeth_receive_fails
  <2>1. w.at # w'.at \/ w'.at # "ifdown"
    BY <1>8, <1>0, WorkerGoes
  <2> QED
    BY <1>8, <1>0, <2>1, WorkerGoes DEF Worker, openeth_receive_fails, rxVars, txVars, IrqInv, Pending, TxTypeOK, SwTypeOK
<1>9. CASE openeth_receive
  <2>1. w.at # w'.at \/ w'.at # "ifdown"
    BY <1>9, <1>0, WorkerGoes
  <2> QED
    BY <1>9, <1>0, <2>1, WorkerGoes DEF Worker, openeth_receive, rxVars, txVars, IrqInv, Pending, TxTypeOK, SwTypeOK
<1>10. CASE receive_word
  <2>1. w.at # w'.at \/ w'.at # "ifdown"
    BY <1>10, <1>0, WorkerGoes
  <2> QED
    BY <1>10, <1>0, <2>1, WorkerGoes DEF Worker, receive_word, rxVars, txVars, IrqInv, Pending, TxTypeOK, SwTypeOK
<1>11. CASE receive_acks
  <2>1. w.at # w'.at \/ w'.at # "ifdown"
    BY <1>11, <1>0, WorkerGoes
  <2> QED
    BY <1>11, <1>0, <2>1, WorkerGoes DEF Worker, receive_acks, RXREAD_W, rxVars, txVars, IrqInv, Pending, TxTypeOK, SwTypeOK
<1>12. CASE receive_checks
  <2>1. w.at # w'.at \/ w'.at # "ifdown"
    BY <1>12, <1>0, WorkerGoes
  <2> QED
    BY <1>12, <1>0, <2>1, WorkerGoes DEF Worker, receive_checks, rxVars, txVars, IrqInv, Pending, TxTypeOK, SwTypeOK
<1>13. CASE receive_enables
  <2>1. w.at # w'.at \/ w'.at # "ifdown"
    BY <1>13, <1>0, WorkerGoes
  <2> QED
    BY <1>13, <1>0, <2>1, WorkerGoes DEF Worker, receive_enables, rxVars, txVars, IrqInv, Pending, TxTypeOK, SwTypeOK
<1>14. CASE \E p \in Packet : openeth_transmit(p)
  <2>1. /\ w.at = "transmit" /\ w'.at = "tx_word"
        /\ UNCHANGED <<rxVars, rxread, isr, harts, txstate, txenableirq, acktxirq, up>>
    BY <1>14, <1>0, WorkerGoes DEF openeth_transmit, Runs
  <2> QED
    BY <2>1 DEF rxVars, IrqInv, Pending
<1>15. CASE transmit_word
  <2>1. w.at # w'.at \/ w'.at # "ifdown"
    BY <1>15, <1>0, WorkerGoes
  <2> QED
    BY <1>15, <1>0, <2>1, WorkerGoes DEF Worker, transmit_word, rxVars, txVars, IrqInv, Pending, TxTypeOK, SwTypeOK
<1>16. CASE transmit_sends
  <2>1. w.at # w'.at \/ w'.at # "ifdown"
    BY <1>16, <1>0, WorkerGoes
  <2> QED
    BY <1>16, <1>0, <2>1, WorkerGoes DEF Worker, transmit_sends, SENDPACKET_W, Settled, rxVars, txVars, IrqInv, Pending, TxTypeOK, SwTypeOK
<1>17. CASE WorkEnds
  <2>1. w.at # w'.at \/ w'.at # "ifdown"
    BY <1>17, <1>0, WorkerGoes
  <2> QED
    BY <1>17, <1>0, <2>1, WorkerGoes DEF Worker, WorkEnds, rxVars, txVars, IrqInv, Pending, TxTypeOK, SwTypeOK
<1>18. CASE openeth_ifup
  <2>1. w.at # w'.at \/ w'.at # "ifdown"
    BY <1>18, <1>0, WorkerGoes
  <2> QED
    BY <1>18, <1>0, <2>1, WorkerGoes DEF Worker, openeth_ifup, Switches, rxVars, txVars, IrqInv, Pending, TxTypeOK, SwTypeOK
<1>19. CASE openeth_ifup_ends
  <2>1. w.at # w'.at \/ w'.at # "ifdown"
    BY <1>19, <1>0, WorkerGoes
  <2> QED
    BY <1>19, <1>0, <2>1, WorkerGoes DEF Worker, openeth_ifup_ends, Switched, rxVars, txVars, IrqInv, Pending, TxTypeOK, SwTypeOK
<1>20. CASE openeth_ifdown
  <2>1. w.at # w'.at \/ w'.at # "ifdown"
    BY <1>20, <1>0, WorkerGoes
  <2> QED
    BY <1>20, <1>0, <2>1, WorkerGoes DEF Worker, openeth_ifdown, Switches, rxVars, txVars, IrqInv, Pending, TxTypeOK, SwTypeOK
<1>21. CASE openeth_ifdown_ends
  <2>1. w.at # w'.at \/ w'.at # "ifdown"
    BY <1>21, <1>0, WorkerGoes
  <2> QED
    BY <1>21, <1>0, <2>1, WorkerGoes DEF Worker, openeth_ifdown_ends, Switched, rxVars, txVars, IrqInv, Pending, TxTypeOK, SwTypeOK
<1>22. CASE \E f \in Frame : Receives(f)
  <2> SUFFICES ASSUME NEW f \in Frame, Receives(f) PROVE IrqInv'
    BY <1>22
  <2>1. rxwrote' # rxwrote
    <3>1. rxwrote \in 0 .. Cnt - 1
      BY DEF EthTypeOK, RxTypeOK
    <3> QED
      BY <3>1 DEF Receives, checkrx
  <2> QED
    BY <2>1 DEF Receives, checkrx, txVars, swVars, IrqInv, Pending
<1>23. CASE txavail
  BY <1>23 DEF txavail, rxVars, txVars, IrqInv, Pending
<1>24. CASE UNCHANGED vars
  BY <1>24 DEF vars, rxVars, txVars, swVars, IrqInv, Pending
<1> QED
  BY <1>1, <1>2, <1>3, <1>4, <1>5, <1>6, <1>7, <1>8, <1>9, <1>10, <1>11, <1>12, <1>13, <1>14, <1>15, <1>16, <1>17, <1>18, <1>19, <1>20, <1>21, <1>22, <1>23, <1>24 DEF Next, Worker, Isr

(* Whoever turns reception off, or goes to sleep with it off, leaves a reason. *)
LEMMA EthMute == EthInv /\ [Next]_vars => MuteInv'
<1> SUFFICES ASSUME EthInv, [Next]_vars PROVE MuteInv'
  OBVIOUS
<1> USE DEF EthInv
<1>0. SwTypeOK /\ TxTypeOK
  BY DEF EthTypeOK
<1>1. CASE Interrupt
  BY <1>1, <1>0 DEF Interrupt, irqtx, irqrx, rxVars, txVars, MuteInv, IrqInv, Pending, Receiving, SwTypeOK
<1>2. CASE Claim
  BY <1>2, <1>0 DEF Claim, irqtx, irqrx, rxVars, txVars, MuteInv, IrqInv, Pending, Receiving, SwTypeOK
<1>3. CASE tx_isr_acks
  BY <1>3, <1>0 DEF tx_isr_acks, ACKTXIRQ_W, irqtx, irqrx, rxVars, txVars, MuteInv, IrqInv, Pending, Receiving, SwTypeOK
<1>4. CASE tx_isr_done
  BY <1>4, <1>0 DEF tx_isr_done, ACKTXIRQ_W, irqtx, irqrx, rxVars, txVars, MuteInv, IrqInv, Pending, Receiving, SwTypeOK
<1>5. CASE rx_isr_disables
  BY <1>5, <1>0 DEF rx_isr_disables, irqtx, irqrx, rxVars, txVars, MuteInv, IrqInv, Pending, Receiving, SwTypeOK
<1>6. CASE rx_isr_reads
  BY <1>6, <1>0 DEF rx_isr_reads, irqtx, irqrx, rxVars, txVars, MuteInv, IrqInv, Pending, Receiving, SwTypeOK
<1>7. CASE WorkStarts
  BY <1>7, <1>0, WorkerGoes DEF Worker, WorkStarts, rxVars, txVars, MuteInv, Pending, Receiving
<1>8. CASE openeth_receive_fails
  BY <1>8, <1>0, WorkerGoes DEF Worker, openeth_receive_fails, rxVars, txVars, MuteInv, Pending, Receiving
<1>9. CASE openeth_receive
  BY <1>9, <1>0, WorkerGoes DEF Worker, openeth_receive, rxVars, txVars, MuteInv, Pending, Receiving
<1>10. CASE receive_word
  BY <1>10, <1>0, WorkerGoes DEF Worker, receive_word, rxVars, txVars, MuteInv, Pending, Receiving
<1>11. CASE receive_acks
  BY <1>11, <1>0, WorkerGoes DEF Worker, receive_acks, RXREAD_W, rxVars, txVars, MuteInv, Pending, Receiving
<1>12. CASE receive_checks
  BY <1>12, <1>0, WorkerGoes DEF Worker, receive_checks, rxVars, txVars, MuteInv, Pending, Receiving
<1>13. CASE receive_enables
  BY <1>13, <1>0, WorkerGoes DEF Worker, receive_enables, rxVars, txVars, MuteInv, Pending, Receiving
<1>14. CASE \E p \in Packet : openeth_transmit(p)
  <2>1. /\ w.at = "transmit" /\ w'.at = "tx_word"
        /\ UNCHANGED <<rxVars, rxread, rxenableirq, isr, harts, work, up, mute, lost>>
    BY <1>14, <1>0, WorkerGoes DEF openeth_transmit, Runs
  <2> QED
    BY <2>1 DEF rxVars, MuteInv, Pending, Receiving
<1>15. CASE transmit_word
  BY <1>15, <1>0, WorkerGoes DEF Worker, transmit_word, rxVars, txVars, MuteInv, Pending, Receiving
<1>16. CASE transmit_sends
  <2>1. w.at = "send" /\ w'.at = "transmit" /\ UNCHANGED <<harts, isr>>
          /\ (harts = 2 \/ (isr = "none" /\ (irqtx => InCriticalSection)))
    BY <1>16, <1>0, WorkerGoes DEF Worker
  <2>2. harts = 1 => txstate = 0
    BY <1>0, <2>1 DEF TxInv, IrqInv, irqtx, InCriticalSection, TxTypeOK
  <2> QED
    BY <1>16, <1>0, <2>1, <2>2 DEF transmit_sends, SENDPACKET_W, rxVars, MuteInv, Pending, Receiving, SwTypeOK
<1>17. CASE WorkEnds
  BY <1>17, <1>0, WorkerGoes DEF Worker, WorkEnds, rxVars, txVars, MuteInv, Pending, Receiving
<1>18. CASE openeth_ifup
  BY <1>18, <1>0, WorkerGoes DEF Worker, openeth_ifup, Switches, rxVars, txVars, MuteInv, Pending, Receiving
<1>19. CASE openeth_ifup_ends
  BY <1>19, <1>0, WorkerGoes DEF Worker, openeth_ifup_ends, Switched, rxVars, txVars, MuteInv, Pending, Receiving
<1>20. CASE openeth_ifdown
  BY <1>20, <1>0, WorkerGoes DEF Worker, openeth_ifdown, Switches, rxVars, txVars, MuteInv, Pending, Receiving
<1>21. CASE openeth_ifdown_ends
  BY <1>21, <1>0, WorkerGoes DEF Worker, openeth_ifdown_ends, Switched, rxVars, txVars, MuteInv, Pending, Receiving
<1>22. CASE \E f \in Frame : Receives(f)
  BY <1>22 DEF Receives, checkrx, txVars, swVars, MuteInv, Pending, Receiving
<1>23. CASE txavail
  BY <1>23 DEF txavail, rxVars, txVars, MuteInv, Pending
<1>24. CASE UNCHANGED vars
  BY <1>24 DEF vars, rxVars, txVars, swVars, MuteInv, Pending
<1> QED
  BY <1>1, <1>2, <1>3, <1>4, <1>5, <1>6, <1>7, <1>8, <1>9, <1>10, <1>11, <1>12, <1>13, <1>14, <1>15, <1>16, <1>17, <1>18, <1>19, <1>20, <1>21, <1>22, <1>23, <1>24 DEF Next, Worker, Isr

THEOREM EthInvariant == Spec => []EthInv
<1>1. EthInv /\ [Next]_vars => EthInv'
  BY EthTypes, EthRx, EthTx, EthIrq, EthMute DEF EthInv
<1> QED
  BY EthInit, <1>1, PTL DEF Spec

(* The widths of the registers, memories and locals hold for frames of every length  *)
(* and counters of every width.                                                      *)
THEOREM EthTypeCorrect == Spec => []EthTypeOK
<1>1. EthInv => EthTypeOK
  BY DEF EthInv
<1> QED
  BY <1>1, EthInvariant, PTL

(* A receive that begins with a frame waiting copies exactly that frame, whatever    *)
(* comes between its reads.                                                          *)
THEOREM EthDeliveredWhole == Spec => DeliveredWhole
<1>1. EthInv /\ [Next]_vars => [w.at = "ack" /\ w'.at = "check" /\ w.pending => w.buf = stored]_vars
  <2> SUFFICES ASSUME EthInv, w.at = "ack", w.pending PROVE w.buf = stored
    OBVIOUS
  <2>1. w.buf \in Seq(Word) /\ stored \in Seq(Word)
    BY DEF EthInv, EthTypeOK, RxTypeOK, SwTypeOK, WorkerState
  <2>2. Len(w.buf) = Len(stored) /\ \A k \in 1 .. Len(w.buf) : w.buf[k] = stored[k]
    BY DEF EthInv, RxInv
  <2> QED
    BY <2>1, <2>2, SeqEqual
<1> QED
  BY <1>1, EthInvariant, PTL DEF Spec, DeliveredWhole

(* A frame never waits unheard but for one of the three reasons, and the late        *)
(* handler is none with one hart.                                                    *)
THEOREM EthNotForgotten == Spec => []NotForgotten
<1>1. EthInv => NotForgotten
  BY DEF EthInv, MuteInv, NotForgotten, Receiving
<1> QED
  BY <1>1, EthInvariant, PTL

(* With one hart no command to send is lost. *)
THEOREM EthSendsKept == Spec => []SendsKept
<1>1. EthInv => SendsKept
  BY DEF EthInv, MuteInv, SendsKept
<1> QED
  BY <1>1, EthInvariant, PTL

(* With any number of harts a frame the device sends is the driver's packet, whole.  *)
THEOREM EthSentWhole == Spec => SentWhole
<1>1. EthInv /\ [Next]_vars => [txstate = 0 /\ txstate' # 0 => w.at = "send" /\ Sent = w.buf]_vars
  <2> SUFFICES ASSUME EthInv, Next, txstate = 0, txstate' # 0
               PROVE  w.at = "send" /\ Sent = w.buf
    OBVIOUS
  <2>1. transmit_sends
    <3>1. ~Isr
      BY DEF Isr, Interrupt, Claim, tx_isr_acks, tx_isr_done, rx_isr_disables, rx_isr_reads,
         ACKTXIRQ_W, Settled, txVars
    <3>2. (\A f \in Frame : ~Receives(f)) /\ ~txavail
      BY DEF Receives, txavail, txVars
    <3> QED
      BY <3>1, <3>2 DEF Next, Worker, WorkStarts, openeth_receive_fails, openeth_receive,
         receive_word, receive_acks, receive_checks, receive_enables, openeth_transmit,
         transmit_word, WorkEnds, openeth_ifup, openeth_ifup_ends, openeth_ifdown,
         openeth_ifdown_ends, Switches, Switched, txVars
  <2>2. w.at = "send" /\ w.buf \in Packet /\ txsize = Len(w.buf)
          /\ \A k \in 0 .. txsize - 1 : txmem[k] = w.buf[k + 1]
    BY <2>1 DEF transmit_sends, Runs, EthInv, TxInv
  <2>3. w.buf \in Seq(Word) /\ txsize \in Nat
    BY <2>2 DEF EthInv, EthTypeOK, TxTypeOK
  <2>4. \A k \in 1 .. txsize : txmem[k - 1] = w.buf[k]
    <3> SUFFICES ASSUME NEW k \in 1 .. txsize PROVE txmem[k - 1] = w.buf[k]
      OBVIOUS
    <3>1. k - 1 \in 0 .. txsize - 1 /\ k - 1 + 1 = k
      BY <2>3
    <3> QED
      BY <2>2, <3>1
  <2>5. \A k \in 1 .. txsize : txmem[k - 1] \in Word
    BY <2>3 DEF EthInv, EthTypeOK, TxTypeOK, Index
  <2>6. Sent \in Seq(Word) /\ Len(Sent) = txsize
    BY <2>3, <2>5 DEF Sent
  <2>7. \A k \in 1 .. txsize : Sent[k] = w.buf[k]
    BY <2>4 DEF Sent
  <2> QED
    BY <2>2, <2>3, <2>6, <2>7, SeqEqual
<1> QED
  BY <1>1, EthInvariant, PTL DEF Spec, SentWhole
====
