------------------------------ MODULE BootProofs ------------------------------
(***************************************************************************)
(* Proofs, for every card, every size of the image and any times of the    *)
(* DRAM and the card, that the copy begins in a DRAM of which every word   *)
(* was cleared, that it is exact at every moment, and that the harts start *)
(* on the whole image of a whole file.                                     *)
(*                                                                         *)
(* While the DRAM is cleared the reader is paused at its first byte, so    *)
(* that the copier and the read-back are idle and every write in the DRAM  *)
(* is the clearing's: the busy line it counts words by answers nobody      *)
(* else.  From then on one invariant, BootInv, follows a byte from the     *)
(* card's sector to the DRAM: the walk knows which bytes of the file its   *)
(* sector holds (FileOK), the gatherer which word they make (BytesOK), the *)
(* sender and the copier which word is between them (SendOK, CopyOK), and  *)
(* the DRAM holds the words before it (ImageSoFar).                        *)
(***************************************************************************)
EXTENDS Boot, WellFoundedInduction, TLAPS

(* Nothing but the clearing has begun.                                     *)
Paused ==
  /\ state \in 0..3 \cup {10} /\ outen = FALSE
  /\ send = FALSE /\ ostate = 0 /\ WE = FALSE
  /\ r_sd_state = 0 /\ r_sd_init_we = FALSE
  /\ r_set_dram_le = FALSE

(* The words counted are clear, and so is the one the DRAM has taken and   *)
(* the clearing has not counted yet.                                       *)
ClearedSoFar ==
  /\ r_zeroaddr \in Nat /\ busy \in Nat
  /\ r_zero_done => r_zeroaddr >= BIN_SIZE
  /\ DOMAIN mem = 0 .. BIN_SIZE
  /\ \A a \in Image : a < r_zeroaddr => mem[a] = 0
  /\ busy > 0 /\ r_zero_we /\ r_zeroaddr \in Image => mem[r_zeroaddr] = 0

ClearInv == r_init_state = 1 => Paused /\ ClearedSoFar

LEMMA ClearInit == Init => ClearInv
  BY DEF Init, ClearInv, Paused, ClearedSoFar, Image, Junk

(* No other state leads back to the clearing.                              *)
LEMMA ClearFirst ==
  ASSUME InitState, r_init_state' = 1
  PROVE  r_init_state = 1 /\ ~ r_zero_done
  BY DEF InitState

LEMMA PausedStep ==
  ASSUME r_init_state = 1, Paused, NEW go, NEW ready, Clock(go, ready)
  PROVE  Paused'
<1>1. state' \in 0..3 \cup {10} /\ outen' = FALSE
  BY SMTT(30) DEF Clock, Paused, SdReader, SectorAsked, ByteAsked, ByteRead, ByteEnds, ByteNext,
     SectorEnds, frbusy
<1>2. send' = FALSE
  BY DEF Clock, Paused, CollectBytes, OfFile
<1>3. ostate' = 0 /\ WE' = FALSE
  BY DEF Clock, Paused, SendWord, SendBegins, SendOffers, SendTaken, SendWritten, SendEnds
<1>4. r_sd_state' = 0 /\ r_sd_init_we' = FALSE
  BY DEF Clock, Paused, SdCopy, CopyTakes, CopyWrites, CopyEnds
<1>5. r_set_dram_le' = FALSE
  BY DEF Clock, Paused, ReadBack, BackOff, BackIdle, BackAsks, BackTaken, BackSums, BackNext
<1> QED
  BY <1>1, <1>2, <1>3, <1>4, <1>5 DEF Paused

(* What the DRAM does in a step: it takes the clearing's zero, or leaves   *)
(* its words alone.                                                        *)
LEMMA DramClears ==
  ASSUME r_init_state = 1, Paused, ClearedSoFar, NEW go, Dram(go)
  PROVE  /\ busy' \in Nat
         /\ \/ /\ busy = 0 /\ busy' = 1 /\ r_zero_we
               /\ mem' = [mem EXCEPT ![r_zeroaddr] = 0]
            \/ mem' = mem /\ (busy = 0 => busy' = 0)
<1>1. w_dram_addr = r_zeroaddr /\ w_dram_wdata = 0 /\ (w_wr_en <=> r_zero_we)
  BY DEF Paused, w_dram_addr, w_dram_wdata, w_wr_en
<1>2. MinBusy \in Nat
  BY BootAssumption
<1>3. CASE busy = 0 /\ go /\ (r_set_dram_le \/ w_wr_en)
  BY <1>1, <1>2, <1>3 DEF Dram, Paused
<1>4. CASE busy = 0 /\ ~ (go /\ (r_set_dram_le \/ w_wr_en))
  BY <1>2, <1>4, BootAssumption DEF Dram, dramVars, ClearedSoFar
<1>5. CASE busy # 0
  BY <1>2, <1>5 DEF Dram, ClearedSoFar
<1> QED
  BY <1>3, <1>4, <1>5

LEMMA ClearedStep ==
  ASSUME r_init_state = 1, Paused, ClearedSoFar, NEW go, NEW ready, Clock(go, ready)
  PROVE  ClearedSoFar'
<1> USE BootAssumption
<1>1. /\ busy' \in Nat
      /\ \/ /\ busy = 0 /\ busy' = 1 /\ r_zero_we
            /\ mem' = [mem EXCEPT ![r_zeroaddr] = 0]
         \/ mem' = mem /\ (busy = 0 => busy' = 0)
  BY DramClears DEF Clock
<1>2. /\ r_zeroaddr \in Nat /\ busy \in Nat /\ DOMAIN mem = 0 .. BIN_SIZE
      /\ \A a \in Image : a < r_zeroaddr => mem[a] = 0
      /\ busy > 0 /\ r_zero_we /\ r_zeroaddr \in Image => mem[r_zeroaddr] = 0
      /\ r_zero_done => r_zeroaddr >= BIN_SIZE
  BY DEF ClearedSoFar
<1>3. ZeroFill
  BY DEF Clock
<1>4. DOMAIN mem' = 0 .. BIN_SIZE
  BY <1>1, <1>2
<1>5. \A a \in Image : mem[a] = 0 => mem'[a] = 0
  BY <1>1, <1>2 DEF Image
<1>6. CASE busy > 0 /\ r_zero_we
  <2>1. r_zeroaddr' = r_zeroaddr + 1 /\ r_zero_we' = FALSE
    BY <1>3, <1>6 DEF ZeroFill, w_dram_busy
  <2>2. r_zero_done' => r_zeroaddr >= BIN_SIZE
    BY <1>2, <1>3 DEF ZeroFill
  <2>3. \A a \in Image : a < r_zeroaddr' => mem[a] = 0
    BY <1>2, <1>6, <2>1 DEF Image
  <2> QED
    BY <1>1, <1>2, <1>4, <1>5, <2>1, <2>2, <2>3 DEF ClearedSoFar, Image
<1>7. CASE ~ (busy > 0 /\ r_zero_we)
  <2>1. r_zeroaddr' = r_zeroaddr
    BY <1>3, <1>7 DEF ZeroFill, w_dram_busy
  <2>2. r_zero_done' => r_zeroaddr >= BIN_SIZE
    BY <1>2, <1>3 DEF ZeroFill
  <2>3. ASSUME busy' > 0, r_zero_we', r_zeroaddr \in Image
        PROVE  mem'[r_zeroaddr] = 0
    <3>1. CASE busy > 0
      BY <1>3, <1>7, <2>3, <3>1 DEF ZeroFill, w_dram_busy
    <3>2. CASE busy = 0
      BY <1>1, <1>2, <2>3, <3>2 DEF Image
    <3> QED
      BY <1>2, <3>1, <3>2
  <2> QED
    BY <1>1, <1>2, <1>4, <1>5, <2>1, <2>2, <2>3 DEF ClearedSoFar, Image
<1> QED
  BY <1>6, <1>7

LEMMA ClearNext == ClearInv /\ [Next]_vars => ClearInv'
<1> SUFFICES ASSUME ClearInv, [Next]_vars, r_init_state' = 1
             PROVE  Paused' /\ ClearedSoFar'
  BY DEF ClearInv
<1>1. CASE Next
  <2>1. PICK go \in BOOLEAN, ready \in BOOLEAN : Clock(go, ready)
    BY <1>1 DEF Next
  <2>2. r_init_state = 1
    BY <2>1, ClearFirst DEF Clock
  <2>3. Paused /\ ClearedSoFar
    BY <2>2 DEF ClearInv
  <2> QED
    BY <2>1, <2>2, <2>3, PausedStep, ClearedStep
<1>2. CASE UNCHANGED vars
  <2>1. r_init_state = 1
    BY <1>2 DEF vars
  <2> QED
    BY <1>2, <2>1 DEF ClearInv, Paused, ClearedSoFar, Image, vars, zeroVars, copyVars, backVars,
       dramVars, readerVars, sendVars
<1> QED
  BY <1>1, <1>2

LEMMA ClearDone ==
  ASSUME ClearInv, Next, r_init_state = 1, r_init_state' # 1
  PROVE  \A a \in Image : mem[a] = 0
<1>1. r_zero_done
  BY DEF Next, Clock, InitState
<1>2. r_zeroaddr \in Nat /\ r_zeroaddr >= BIN_SIZE
  BY <1>1 DEF ClearInv, ClearedSoFar
<1> QED
  BY <1>2, BootAssumption DEF ClearInv, ClearedSoFar, Image

LEMMA ClearLeaves ==
  ClearInv /\ [Next]_vars =>
    [(r_init_state = 1 /\ r_init_state' # 1) => \A a \in Image : mem[a] = 0]_vars
BY ClearDone

(* The copy begins in a DRAM that was cleared to its last word, on every   *)
(* card, whatever time each write takes (maintn.v:411-424).                *)
THEOREM BootCleared == Spec => Cleared
  BY ClearInit, ClearNext, ClearLeaves, PTL DEF Spec, Cleared

-------------------------------------------------------------------------------
(* The order of the boot: what each machine may have done in each state.   *)
OrderOK ==
  /\ r_init_state \in {1, 3, 4, 5, 6}
  /\ r_init_state = 1 => Paused /\ fptr = 0
  /\ r_init_state # 1 => r_zero_done
  /\ r_bblsd_done => r_initaddr3 = BIN_SIZE
  /\ r_init_state \in {4, 5, 6} => r_bblsd_done
  /\ r_mem_rb_done => r_initaddr6 = BIN_SIZE
  /\ r_init_state = 5 => r_mem_rb_done

(* The clearing raises no write that it does not count before it is done.  *)
ZeroOK ==
  /\ r_zero_we \in BOOLEAN /\ r_zero_done \in BOOLEAN
  /\ r_zeroaddr \in 0 .. BIN_SIZE
  /\ r_zero_we => r_zeroaddr < BIN_SIZE /\ ~ r_zero_done /\ busy \in {0, 1}
  /\ r_zero_done => r_zeroaddr = BIN_SIZE
  /\ r_zeroaddr = BIN_SIZE /\ ~ r_zero_done => busy \in 2 .. MinBusy

DramOK ==
  /\ busy \in 0 .. MinBusy /\ reading \in BOOLEAN /\ daddr \in 0 .. BIN_SIZE
  /\ mem \in [0 .. BIN_SIZE -> Int] /\ mem[BIN_SIZE] = Junk

-------------------------------------------------------------------------------
(* The sectors' reader: outbyte is the byte before waddr.                  *)
ReaderOK ==
  /\ state \in 0..3 \cup 10..15 /\ waddr \in 0 .. SectorBytes
  /\ outen \in BOOLEAN /\ read_done \in BOOLEAN /\ read_start \in BOOLEAN
  /\ outen <=> state = 12
  /\ read_done => state = 14
  /\ state \in 1..3 => waddr = 0
  /\ state \in {10, 11} => waddr < SectorBytes
  /\ state \in {12, 13} => waddr > 0
  /\ state = 12 => outbyte = ByteAt(waddr - 1)

(* The bytes of the sector that have passed the gatherer.                  *)
Passed == IF state \in {10, 11, 13} THEN waddr
          ELSE IF state = 12 THEN waddr - 1
          ELSE IF read_done THEN SectorBytes ELSE 0

(* The walk knows what the boot sector says, and where it is in the file.  *)
Boots == SectorAt(card, BootSector(card))

GeometryOK ==
  /\ Marked(card) # {} /\ Readable(Boots)
  /\ filesystem = Boots.fs /\ cluster_size = Boots.sector_per_cluster
  /\ first_fat_sector_no = FirstFat(BootSector(card), Boots)
  /\ first_data_sector_no = FirstData(BootSector(card), Boots)

InCluster(k) ==
  /\ ~ search_fat /\ cluster_sector_offset \in 0 .. cluster_size - 1
  /\ read_sector_no = ClusterSector(card.clusters[k]) + cluster_sector_offset
  /\ fptr = Place(cluster_size, k, cluster_sector_offset) + Passed

InTable(k) ==
  /\ search_fat
  /\ read_sector_no = first_fat_sector_no + card.clusters[k] \div ItemsPerSector(filesystem)
  /\ fptr = Place(cluster_size, k + 1, 0)

WalkOK ==
  /\ card \in Cards /\ search_fat \in BOOLEAN /\ file_found \in BOOLEAN
  /\ filesystem_state \in {"RESET", "SEARCH_MBR", "SEARCH_DBR", "LS_ROOT_FAT16", "LS_ROOT_FAT32",
                           "READ_A_FILE", "DONE"}
  /\ filesystem_state = "RESET" => read_sector_no = 0
  /\ filesystem_state \in {"RESET", "SEARCH_MBR"} =>
       read_sector_no \in Nat /\ \A s \in Marked(card) : read_sector_no <= s
  /\ filesystem_state \in {"RESET", "SEARCH_MBR", "SEARCH_DBR"} => ~ search_fat
  /\ filesystem_state = "SEARCH_DBR" => Marked(card) # {} /\ read_sector_no = BootSector(card)
  /\ filesystem_state = "READ_A_FILE" => file_found
  /\ filesystem_state \in {"LS_ROOT_FAT16", "LS_ROOT_FAT32", "READ_A_FILE"} => GeometryOK
  /\ filesystem_state = "LS_ROOT_FAT16" => ~ search_fat
  /\ filesystem_state \notin {"READ_A_FILE", "DONE"} => ~ file_found
  /\ file_found => file_size = Len(card.file) /\ fptr \in 0 .. file_size
  /\ ~ file_found => fptr = 0 /\ file_size = 0

FileOK ==
  filesystem_state = "READ_A_FILE" =>
    \/ fptr = file_size
    \/ \E k \in 1 .. Len(card.clusters) :
         curr_cluster = card.clusters[k] /\ (InCluster(k) \/ InTable(k))

-------------------------------------------------------------------------------
(* The words gathered, and those offered to the copier and written.        *)
Words == fptr \div 4

BytesOK ==
  /\ mw \in [0..3 -> Nat] /\ dtowr \in Nat /\ send \in BOOLEAN
  /\ \A j \in 0..3 : j < fptr % 4 => mw[j] = card.file[4 * Words + j + 1]
  /\ send => state \notin {11, 12} /\ fptr % 4 = 0 /\ Words > 0 /\ dtowr = FileWord(Words - 1)

SendOK ==
  /\ ostate \in {0, 20, 21, 22, 23} /\ senti \in 0 .. BIN_SIZE /\ BOOTDONE \in BOOLEAN
  /\ DATA \in Nat /\ WE \in BOOLEAN
  /\ ostate # 0 => send
  /\ WE <=> ostate = 21
  /\ Words = senti + (IF send /\ ostate \in {0, 20} THEN 1 ELSE 0)
  /\ ostate \in {20, 21} => DATA = dtowr

(* The word being written, if any.                                         *)
Taking == IF r_sd_state = 1 THEN 1 ELSE 0

CopyOK ==
  /\ r_sd_state \in 0..2 /\ r_bblsd_done \in BOOLEAN
  /\ r_sd_init_we \in BOOLEAN /\ r_sd_init_data \in Nat
  /\ r_sd_init_we <=> r_sd_state = 1
  /\ ostate \in {0, 20, 23} => r_sd_state = 0
  /\ ostate = 21 => r_sd_state \in {0, 1}
  /\ r_initaddr3 = senti - (IF ostate = 21 \/ r_sd_state = 1 THEN 1 ELSE 0)
  /\ r_initaddr3 \in 0 .. BIN_SIZE
  /\ r_sd_state = 1 => r_init_state = 3 /\ busy \in {0, 1} /\ r_sd_init_data = FileWord(r_initaddr3)

(* The image so far; the word being written is there when the DRAM has     *)
(* taken it.                                                               *)
ImageSoFar ==
  r_init_state # 1 =>
    \A a \in Image : mem[a] = IF a < r_initaddr3 + (IF busy = 1 THEN Taking ELSE 0)
                                THEN FileWord(a) ELSE 0

CopySumOK == r_sd_checksum \in Nat /\ r_sd_checksum = Summed[r_initaddr3 + Taking]

-------------------------------------------------------------------------------
(* The read-back: what the DRAM is doing for it, and its sum.              *)
BackOK ==
  /\ r_rb_state \in {0, 1, 2, 7, 20} /\ r_rb_delay \in 0..1
  /\ r_set_dram_le \in BOOLEAN /\ r_mem_rb_done \in BOOLEAN
  /\ r_initaddr6 \in 0 .. BIN_SIZE
  /\ r_set_dram_le <=> r_rb_state = 7
  /\ r_init_state \notin {5, 6} => r_rb_state = 0 /\ r_initaddr6 = 0 /\ ~ r_mem_rb_done
  /\ r_init_state = 5 \/ r_mem_rb_done => r_rb_state = 0
  /\ r_rb_state \in {2, 7, 20} => r_initaddr6 < BIN_SIZE
  /\ r_rb_state = 7 => busy \in {0, 1}
  /\ r_rb_state \in {2, 7} /\ busy > 0 => reading /\ daddr = r_initaddr6
  /\ r_rb_state = 20 => busy = 0
  /\ r_rb_state = 20 \/ (r_rb_state = 2 /\ busy = 0) => w_dram_odata = mem[r_initaddr6]
  /\ r_rb_state \in {0, 1} /\ r_initaddr6 > 0 =>
       busy = 0 /\ w_dram_odata = mem[r_initaddr6 - 1]

BackSumOK ==
  /\ r_verify_checksum \in Nat
  /\ r_verify_checksum = Summed[r_initaddr6 + (IF r_rb_state = 20 THEN 1 ELSE 0)]

BootInv ==
  /\ OrderOK /\ ZeroOK /\ DramOK /\ ClearInv /\ ReaderOK /\ WalkOK /\ FileOK
  /\ BytesOK /\ SendOK /\ CopyOK /\ ImageSoFar /\ CopySumOK /\ BackOK /\ BackSumOK

-------------------------------------------------------------------------------
(* The sums of the file's words: the recursion has a solution, by the      *)
(* least number up to which it has none.                                   *)
SumsTo(n, g) == g = [k \in 0 .. n |-> IF k = 0 THEN 0 ELSE g[k - 1] + FileWord(k - 1)]

LEMMA LeastNat ==
  ASSUME NEW T, T \subseteq Nat, T # {}
  PROVE  \E n \in T : \A m \in T : ~ (m < n)
<1>1. \E x \in T : \A y \in T : ~ (<<y, x>> \in OpToRel(<, Nat))
  BY WFMin, NatLessThanWellFounded
<1> QED  BY <1>1 DEF OpToRel

LEMMA SumsExist == \A n \in Nat : \E g : SumsTo(n, g)
<1> DEFINE T == {n \in Nat : ~ \E g : SumsTo(n, g)}
<1> SUFFICES ASSUME T # {} PROVE FALSE
  OBVIOUS
<1>1. PICK n \in T : \A m \in T : ~ (m < n)
  BY LeastNat
<1>2. n # 0
  <2>1. SumsTo(0, [k \in 0..0 |-> 0])
    BY DEF SumsTo
  <2> QED  BY <1>1, <2>1
<1>3. n \in Nat /\ n - 1 \in Nat /\ n - 1 < n
  BY <1>1, <1>2
<1>4. PICK g : SumsTo(n - 1, g)
  BY <1>1, <1>3
<1> DEFINE h == [k \in 0 .. n |-> IF k = 0 THEN 0 ELSE g[k - 1] + FileWord(k - 1)]
<1>5. \A k \in 0 .. n - 1 : h[k] = g[k]
  BY <1>3, <1>4 DEF SumsTo
<1>6. \A k \in 0 .. n : k # 0 => k - 1 \in 0 .. n - 1
  BY <1>3
<1>7. h = [k \in 0 .. n |-> IF k = 0 THEN 0 ELSE h[k - 1] + FileWord(k - 1)]
  BY <1>5, <1>6
<1>8. SumsTo(n, h)
  BY <1>7 DEF SumsTo
<1> QED  BY <1>1, <1>8

(* Solutions agree as far as both go.                                      *)
LEMMA SumsAgree ==
  ASSUME NEW n \in Nat, NEW m \in Nat, n <= m, NEW g, NEW h, SumsTo(n, g), SumsTo(m, h)
  PROVE  \A k \in 0 .. n : g[k] = h[k]
<1> DEFINE T == {k \in 0 .. n : g[k] # h[k]}
<1> SUFFICES ASSUME T # {} PROVE FALSE
  OBVIOUS
<1>1. T \subseteq Nat
  OBVIOUS
<1>2. PICK k \in T : \A j \in T : ~ (j < k)
  BY <1>1, LeastNat
<1>3. /\ k \in 0 .. n /\ k \in 0 .. m
      /\ k # 0 => k - 1 \in 0 .. n /\ k - 1 < k
  BY <1>2
<1>4. /\ g[k] = IF k = 0 THEN 0 ELSE g[k - 1] + FileWord(k - 1)
      /\ h[k] = IF k = 0 THEN 0 ELSE h[k - 1] + FileWord(k - 1)
  BY <1>3 DEF SumsTo
<1>5. k # 0 => g[k - 1] = h[k - 1]
  BY <1>2, <1>3
<1> QED  BY <1>2, <1>4, <1>5

LEMMA SummedFacts == Summed[0] = 0 /\ \A n \in Nat : Summed[n + 1] = Summed[n] + FileWord(n)
<1> DEFINE Sums(n) == CHOOSE g : SumsTo(n, g)
           total == [n \in Nat |-> Sums(n)[n]]
<1>1. \A n \in Nat : SumsTo(n, Sums(n))
  BY SumsExist
<1>2. ASSUME NEW n \in Nat
      PROVE  Sums(n)[n] = IF n = 0 THEN 0 ELSE Sums(n - 1)[n - 1] + FileWord(n - 1)
  <2>1. Sums(n)[n] = IF n = 0 THEN 0 ELSE Sums(n)[n - 1] + FileWord(n - 1)
    <3>1. n \in 0 .. n /\ SumsTo(n, Sums(n))
      BY <1>1
    <3> HIDE DEF Sums
    <3> QED  BY <3>1 DEF SumsTo
  <2>2. ASSUME n # 0 PROVE Sums(n)[n - 1] = Sums(n - 1)[n - 1]
    <3>1. n - 1 \in Nat /\ n - 1 <= n /\ n - 1 \in 0 .. n - 1
      BY <2>2
    <3>2. SumsTo(n, Sums(n)) /\ SumsTo(n - 1, Sums(n - 1))
      BY <1>1, <3>1
    <3> HIDE DEF Sums
    <3> QED  BY <3>1, <3>2, SumsAgree
  <2> QED  BY <2>1, <2>2
<1>3. total = [n \in Nat |-> IF n = 0 THEN 0 ELSE total[n - 1] + FileWord(n - 1)]
  <2> HIDE DEF Sums
  <2>1. \A n \in Nat : n # 0 => n - 1 \in Nat
    OBVIOUS
  <2> QED  BY <1>2, <2>1
<1>4. Summed = [n \in Nat |-> IF n = 0 THEN 0 ELSE Summed[n - 1] + FileWord(n - 1)]
  <2> HIDE DEF total
  <2> QED  BY <1>3 DEF Summed
<1>5. \A n \in Nat : Summed[n] = IF n = 0 THEN 0 ELSE Summed[n - 1] + FileWord(n - 1)
  BY <1>4
<1> QED
  <2>1. \A n \in Nat : n + 1 \in Nat /\ n + 1 # 0 /\ (n + 1) - 1 = n
    OBVIOUS
  <2>2. Summed[0] = 0
    BY <1>5
  <2> QED  BY <1>5, <2>1, <2>2

LEMMA SummedKept == card' = card => (\A a : FileWord(a)' = FileWord(a)) /\ Summed' = Summed
BY DEF Summed, FileWord

-------------------------------------------------------------------------------
(* Places in a file: sector by sector and cluster by cluster.              *)
LEMMA PlaceFacts ==
  ASSUME NEW size \in Nat \ {0}, NEW k \in Nat \ {0}
  PROVE  /\ Place(size, 1, 0) = 0
         /\ Place(size, k + 1, 0) = Place(size, k, size - 1) + SectorBytes
         /\ \A o \in Nat : /\ Place(size, k, o) \in Nat
                           /\ Place(size, k, o + 1) = Place(size, k, o) + SectorBytes
<1>1. SectorBytes \in Nat \ {0}
  BY CardsAssumption
<1>2. Place(size, 1, 0) = 0
  BY <1>1 DEF Place
<1>3. (k - 1) * size \in Nat /\ k * size = (k - 1) * size + size
  OBVIOUS
<1>4. \A x \in Nat : x * SectorBytes \in Nat /\ (x + 1) * SectorBytes = x * SectorBytes + SectorBytes
  BY <1>1
<1>5. \A o \in Nat : (k - 1) * size + o \in Nat /\ (k - 1) * size + (o + 1) = ((k - 1) * size + o) + 1
  BY <1>3
<1>6. ((k + 1) - 1) * size + 0 = ((k - 1) * size + (size - 1)) + 1 /\ (k - 1) * size + (size - 1) \in Nat
  BY <1>3
<1> QED  BY <1>2, <1>4, <1>5, <1>6 DEF Place

LEMMA SeqFacts ==
  ASSUME NEW S, NEW q \in Seq(S)
  PROVE  Len(q) \in Nat /\ \A i \in 1 .. Len(q) : q[i] \in S
OBVIOUS

(* The bytes of a file are numbers, and so are its words.                  *)
LEMMA CardFacts ==
  ASSUME card \in Cards
  PROVE  /\ CardOK(card) /\ DOMAIN card.sectors \subseteq Nat
         /\ Len(card.file) \in Nat /\ Len(card.clusters) \in Nat
         /\ \A i \in 1 .. Len(card.file) : card.file[i] \in Nat
         /\ \A i \in 1 .. Len(card.clusters) : card.clusters[i] \in Nat
<1>1. CardOK(card)
  BY CardsAssumption
<1>2. card.file \in Seq(0..255) /\ card.clusters \in Seq(Nat) /\ DOMAIN card.sectors \subseteq Nat
  BY <1>1 DEF CardOK
<1>3. Len(card.file) \in Nat /\ \A i \in 1 .. Len(card.file) : card.file[i] \in 0..255
  BY <1>2, SeqFacts
<1>4. Len(card.clusters) \in Nat /\ \A i \in 1 .. Len(card.clusters) : card.clusters[i] \in Nat
  BY <1>2, SeqFacts
<1>5. \A i \in 1 .. Len(card.file) : card.file[i] \in Nat
  <2>1. \A x \in 0..255 : x \in Nat
    OBVIOUS
  <2> QED  BY <1>3, <2>1, Zenon
<1> QED  BY <1>1, <1>2, <1>3, <1>4, <1>5

(* A word is made of four numbers.                                         *)
LEMMA WordOfNat ==
  ASSUME NEW w, w[0] \in Nat, w[1] \in Nat, w[2] \in Nat, w[3] \in Nat
  PROVE  WordOf(w) \in Nat
BY DEF WordOf

LEMMA WordNat ==
  ASSUME card \in Cards, NEW a \in Nat, 4 * a + 4 <= Len(card.file)
  PROVE  FileWord(a) \in Nat
<1>1. \A i \in 0..3 : card.file[4 * a + i + 1] \in Nat
  <2>1. \A i \in 0..3 : 4 * a + i + 1 \in 1 .. Len(card.file)
    BY CardFacts
  <2> QED  BY <2>1, CardFacts
<1> DEFINE w == [i \in 0..3 |-> card.file[4 * a + i + 1]]
<1>2. \A i \in 0..3 : w[i] \in Nat
  BY <1>1
<1>3. 0 \in 0..3 /\ 1 \in 0..3 /\ 2 \in 0..3 /\ 3 \in 0..3
  OBVIOUS
<1>4. FileWord(a) = WordOf(w)
  BY DEF FileWord
<1> HIDE DEF w
<1> QED  BY <1>2, <1>3, <1>4, WordOfNat

-------------------------------------------------------------------------------
LEMMA Sizes ==
  /\ SectorBytes \in Nat /\ SectorBytes > 0
  /\ BIN_SIZE \in Nat /\ BIN_SIZE > 0
  /\ MinBusy \in Nat /\ MinBusy > 1
BY BootAssumption, CardsAssumption

LEMMA BootInit == Init => BootInv
<1> SUFFICES ASSUME Init PROVE BootInv
  OBVIOUS
<1> USE Sizes
<1>1. /\ r_init_state = 1 /\ r_zero_we \in BOOLEAN /\ r_zeroaddr = 0 /\ ~ r_zero_done
      /\ r_zero_done \in BOOLEAN /\ r_bblsd_done \in BOOLEAN /\ r_mem_rb_done \in BOOLEAN
      /\ r_sd_init_we \in BOOLEAN /\ r_set_dram_le \in BOOLEAN /\ reading \in BOOLEAN
      /\ outen \in BOOLEAN /\ read_done \in BOOLEAN /\ read_start \in BOOLEAN
      /\ send \in BOOLEAN /\ WE \in BOOLEAN /\ BOOTDONE \in BOOLEAN
      /\ ~ r_bblsd_done /\ ~ r_mem_rb_done /\ ~ r_sd_init_we /\ ~ r_set_dram_le
      /\ ~ outen /\ ~ read_done /\ ~ send /\ ~ WE
  BY DEF Init
<1>2. /\ r_sd_state = 0 /\ r_sd_init_data = 0 /\ r_sd_checksum = 0 /\ r_initaddr3 = 0
      /\ r_rb_state = 0 /\ r_rb_delay = 0 /\ r_initaddr6 = 0 /\ r_verify_checksum = 0
      /\ busy = 0 /\ daddr = 0 /\ state = 0 /\ waddr = 0 /\ fptr = 0 /\ dtowr = 0
      /\ ostate = 0 /\ DATA = 0 /\ senti = 0
  BY DEF Init
<1>3. ClearInv /\ Paused
  BY <1>1, ClearInit DEF ClearInv
<1>4. mem \in [0 .. BIN_SIZE -> Int] /\ mem[BIN_SIZE] = Junk
  BY DEF Init, Junk
<1>5. mw \in [0..3 -> Nat]
  BY DEF Init
<1>6. /\ card \in Cards /\ filesystem_state = "RESET" /\ read_sector_no = 0
      /\ ~ search_fat /\ ~ file_found /\ search_fat \in BOOLEAN /\ file_found \in BOOLEAN
      /\ file_size = 0
  BY DEF Init, WalkInit
<1>7. OrderOK
  BY <1>1, <1>2, <1>3 DEF OrderOK
<1>8. ZeroOK
  BY <1>1, <1>2 DEF ZeroOK
<1>9. DramOK
  BY <1>1, <1>2, <1>4 DEF DramOK
<1>10. ReaderOK
  BY <1>1, <1>2 DEF ReaderOK
<1>11. WalkOK
  <2>1. \A s \in Marked(card) : s \in Nat
    BY <1>6, CardFacts DEF Marked
  <2> QED  BY <1>2, <1>6, <2>1 DEF WalkOK
<1>12. FileOK
  BY <1>6 DEF FileOK
<1>13. BytesOK
  BY <1>1, <1>2, <1>5 DEF BytesOK
<1>14. SendOK
  BY <1>1, <1>2 DEF SendOK, Words
<1>15. CopyOK
  BY <1>1, <1>2 DEF CopyOK
<1>16. ImageSoFar
  BY <1>1 DEF ImageSoFar
<1>17. CopySumOK
  BY <1>2, SummedFacts DEF CopySumOK, Taking
<1>18. BackOK
  BY <1>1, <1>2 DEF BackOK
<1>19. BackSumOK
  BY <1>2, SummedFacts DEF BackSumOK
<1> QED
  BY <1>3, <1>7, <1>8, <1>9, <1>10, <1>11, <1>12, <1>13, <1>14, <1>15, <1>16, <1>17, <1>18, <1>19
     DEF BootInv

(* An edge moves the reader by at most one byte; a byte passes when it is  *)
(* shown, and all have passed when the sector is reported.                 *)
LEMMA ReaderStep ==
  ASSUME BootInv, NEW go \in BOOLEAN, NEW ready \in BOOLEAN, Clock(go, ready)
  PROVE  /\ ReaderOK'
         /\ Passed' = IF outen THEN Passed + 1 ELSE IF read_done THEN 0 ELSE Passed
         /\ read_done => Passed = SectorBytes /\ ~ outen
         /\ outen => state = 12 /\ waddr - 1 = Passed /\ Passed \in 0 .. SectorBytes - 1
<1> USE Sizes
<1>1. ReaderOK /\ SdReader(ready) /\ Walk
  BY DEF BootInv, Clock
<1>2. read_start' \in BOOLEAN
  BY <1>1 DEF Walk
<1>3. ~ read_done => card' = card /\ read_sector_no' = read_sector_no
  BY <1>1 DEF Walk
<1>4. CASE SectorAsked(ready)
  <2>1. state' # 12
    BY <1>1, <1>4 DEF SectorAsked, ReaderOK
  <2> QED  BY <1>1, <1>2, <1>4, <2>1 DEF SectorAsked, ReaderOK, Passed
<1>5. CASE ByteAsked(ready)
  BY <1>1, <1>2, <1>5 DEF ByteAsked, ReaderOK, Passed
<1>6. CASE ByteRead(ready)
  <2>1. Here' = Here
    BY <1>1, <1>3, <1>6 DEF ByteRead, ReaderOK, Here
  <2>2. /\ state = 11 /\ waddr < SectorBytes /\ ~ outen /\ ~ read_done
        /\ waddr \in 0 .. SectorBytes
    BY <1>1, <1>6 DEF ByteRead, ReaderOK
  <2>3. ~ read_done' /\ read_done' \in BOOLEAN /\ outen' \in BOOLEAN
    BY <1>1, <1>6, <2>2 DEF ByteRead, ReaderOK
  <2>4. CASE ready
    <3>1. state' = 12 /\ outen' /\ outbyte' = ByteAt(waddr) /\ waddr' = waddr + 1
      BY <1>6, <2>4 DEF ByteRead
    <3>2. ReaderOK'
      <4>1. waddr' - 1 = waddr /\ waddr' \in 0 .. SectorBytes /\ waddr' > 0
        BY <2>2, <3>1
      <4>2. (outbyte = ByteAt(waddr - 1))'
        BY <2>1, <3>1, <4>1 DEF ByteAt
      <4> QED  BY <1>2, <2>3, <3>1, <4>1, <4>2 DEF ReaderOK
    <3> QED  BY <2>2, <2>3, <3>1, <3>2 DEF Passed
  <2>5. CASE ~ ready
    <3>1. state' = 11 /\ ~ outen' /\ waddr' = waddr
      BY <1>6, <2>2, <2>5 DEF ByteRead
    <3> QED  BY <1>2, <2>2, <2>3, <3>1 DEF Passed, ReaderOK
  <2> QED  BY <2>4, <2>5
<1>7. CASE ByteEnds
  <2>1. state = 12 /\ state' = 13 /\ ~ outen' /\ waddr' = waddr /\ (read_done' <=> read_done)
    BY <1>7 DEF ByteEnds
  <2>2. outen' \in BOOLEAN /\ read_done' \in BOOLEAN
    BY <1>1, <1>7 DEF ByteEnds, ReaderOK
  <2> QED  BY <1>1, <1>2, <2>1, <2>2 DEF ReaderOK, Passed
<1>8. CASE ByteNext
  <2>1. /\ state = 13 /\ waddr' = waddr /\ outen' = outen
        /\ \/ state' = 10 /\ waddr < SectorBytes /\ (read_done' <=> read_done)
           \/ state' = 14 /\ waddr >= SectorBytes /\ read_done'
    BY <1>1, <1>8 DEF ByteNext, ReaderOK
  <2>2. outen' \in BOOLEAN /\ read_done' \in BOOLEAN
    BY <1>1, <1>8 DEF ByteNext, ReaderOK
  <2> QED  BY <1>1, <1>2, <2>1, <2>2 DEF ReaderOK, Passed
<1>9. CASE SectorEnds
  <2>1. /\ state \in {14, 15} /\ waddr' = waddr /\ outen' = outen
        /\ state' \in {0, 14, 15} /\ (read_done' => FALSE)
    BY <1>1, <1>9 DEF SectorEnds, ReaderOK
  <2>2. outen' \in BOOLEAN /\ read_done' \in BOOLEAN
    BY <1>1, <1>9 DEF SectorEnds, ReaderOK
  <2> QED  BY <1>1, <1>2, <2>1, <2>2 DEF ReaderOK, Passed
<1> QED
  BY <1>1, <1>4, <1>5, <1>6, <1>7, <1>8, <1>9 DEF SdReader

-------------------------------------------------------------------------------
(* What the card holds, in the terms of the walk.                          *)
LEMMA GeometryFacts ==
  ASSUME card \in Cards, GeometryOK
  PROVE  /\ cluster_size \in Nat \ {0} /\ first_data_sector_no \in Int
         /\ Len(card.file) <= Place(cluster_size, Len(card.clusters) + 1, 0)
         /\ Listed(card)
         /\ Chained(card, first_fat_sector_no, ItemsPerSector(filesystem))
         /\ Stored(card, first_data_sector_no, cluster_size)
<1>1. FileLies(card, BootSector(card), Boots)
  BY CardFacts DEF GeometryOK, CardOK, Boots
<1> QED
  BY <1>1 DEF FileLies, GeometryOK

(* A byte of the file that passes is the one the gatherer expects.         *)
LEMMA OutByte ==
  ASSUME BootInv, OfFile, outen => /\ state = 12 /\ waddr - 1 = Passed
                                   /\ Passed \in 0 .. SectorBytes - 1
  PROVE  /\ outbyte = card.file[fptr + 1]
         /\ fptr + 1 \in 1 .. Len(card.file) /\ outbyte \in Nat
<1>1. /\ ReaderOK /\ card \in Cards /\ outen /\ filesystem_state = "READ_A_FILE"
      /\ ~ search_fat /\ GeometryOK /\ file_found /\ file_size = Len(card.file)
      /\ fptr \in 0 .. file_size /\ fptr < file_size /\ FileOK
  BY DEF BootInv, OfFile, WalkOK
<1>2. PICK k \in 1 .. Len(card.clusters) : InCluster(k)
  <2>1. fptr # file_size
    BY <1>1
  <2> QED  BY <1>1, <2>1 DEF FileOK, InTable
<1>3. outbyte = ByteAt(Passed)
  BY <1>1 DEF ReaderOK
<1> DEFINE o == cluster_sector_offset
           sector == SectorAt(card, first_data_sector_no + cluster_size * card.clusters[k] + o)
<1>4. /\ o \in 0 .. cluster_size - 1 /\ fptr = Place(cluster_size, k, o) + Passed
      /\ Here = sector
  BY <1>2 DEF InCluster, Here, ClusterSector
<1>5. Passed \in 0 .. SectorBytes - 1 /\ Place(cluster_size, k, o) + Passed < Len(card.file)
  BY <1>1, <1>4
<1>6. sector.kind = "data" /\ sector.byte[Passed] = card.file[Place(cluster_size, k, o) + Passed + 1]
  <2>1. Stored(card, first_data_sector_no, cluster_size)
    BY <1>1, GeometryFacts
  <2> QED  BY <1>4, <1>5, <2>1, Zenon DEF Stored
<1>7. outbyte = card.file[fptr + 1]
  BY <1>3, <1>4, <1>6 DEF ByteAt
<1>8. fptr + 1 \in 1 .. Len(card.file)
  BY <1>1, CardFacts
<1> QED  BY <1>1, <1>7, <1>8, CardFacts

LEMMA FptrNat == ASSUME BootInv PROVE fptr \in Nat
<1>1. card \in Cards
  BY DEF BootInv, WalkOK
<1>2. CASE file_found
  BY <1>1, <1>2, CardFacts DEF BootInv, WalkOK
<1>3. CASE ~ file_found
  BY <1>3 DEF BootInv, WalkOK
<1> QED  BY <1>2, <1>3

LEMMA FptrStep ==
  ASSUME BootInv, NEW go \in BOOLEAN, NEW ready \in BOOLEAN, Clock(go, ready)
  PROVE  /\ fptr \in Nat /\ fptr' = IF OfFile THEN fptr + 1 ELSE fptr
         /\ OfFile => outen /\ ~ read_done
         /\ card' = card
<1>1. fptr \in Nat
  BY FptrNat
<1>2. fptr' = IF OfFile THEN fptr + 1 ELSE fptr
  BY DEF Clock, CollectBytes
<1>3. card' = card
  BY DEF Clock, Walk, SectorRead, SearchMbr, SearchDbr, SearchDbrFails, SearchDbrAgain, walkVars,
     ListRootFat16, ListRootFat32, ReadAFile, FollowChain
<1> QED  BY <1>1, <1>2, <1>3, ReaderStep DEF OfFile

-------------------------------------------------------------------------------
(* The walk.  What it knows of the card stays true while it keeps it.      *)
LEMMA GeometryKept ==
  ASSUME GeometryOK, card' = card, UNCHANGED geometry
  PROVE  GeometryOK' /\ \A c : ClusterSector(c)' = ClusterSector(c)
BY DEF GeometryOK, geometry, Boots, ClusterSector

LEMMA FoundStep ==
  ASSUME BootInv, GeometryOK, ~ file_found, Found
  PROVE  /\ file_found' \in BOOLEAN
         /\ file_found' => /\ Len(card.clusters) > 0 /\ file_cluster' = card.clusters[1]
                           /\ file_size' = Len(card.file)
         /\ ~ file_found' => file_size' = 0
<1>1. card \in Cards /\ file_size = 0 /\ file_found \in BOOLEAN
  BY DEF BootInv, WalkOK
<1>2. CASE Named(Here) = {}
  BY <1>1, <1>2 DEF Found, found
<1>3. CASE Named(Here) # {}
  <2>1. Here = card.sectors[read_sector_no] /\ read_sector_no \in DOMAIN card.sectors
    BY <1>3 DEF Named, Here, SectorAt
  <2> DEFINE e == FirstNamed(Here)
  <2>2. Listed(card)
    BY <1>1, GeometryFacts
  <2>3. /\ Len(card.clusters) > 0 /\ card.clusters[1] < fcluster_range
        /\ e.cluster = card.clusters[1] /\ e.size = Len(card.file)
    <3>1. read_sector_no \in DOMAIN card.sectors /\ Named(card.sectors[read_sector_no]) # {}
      BY <1>3, <2>1
    <3>2. e = FirstNamed(card.sectors[read_sector_no])
      BY <2>1
    <3> HIDE DEF e
    <3> QED  BY <2>2, <3>1, <3>2, Zenon DEF Listed
  <2>5. card.clusters[1] \in Nat
    <3>1. card.clusters \in Seq(Nat)
      BY <1>1, CardFacts DEF CardOK
    <3> QED  BY <2>3, <3>1
  <2>6. card.clusters[1] % fcluster_range = card.clusters[1]
    BY <2>3, <2>5 DEF fcluster_range
  <2>7. file_found' = TRUE /\ file_cluster' = e.cluster % fcluster_range /\ file_size' = e.size
    BY <1>3 DEF Found
  <2> HIDE DEF e
  <2> QED  BY <2>3, <2>6, <2>7
<1> QED  BY <1>2, <1>3

(* The first sector that begins something names the boot sector.           *)
LEMMA MbrStep ==
  ASSUME BootInv, SearchMbr
  PROVE  /\ filesystem_state' = "SEARCH_DBR" =>
              Marked(card) # {} /\ read_sector_no' = BootSector(card)
         /\ filesystem_state' # "SEARCH_DBR" =>
              /\ filesystem_state' = "SEARCH_MBR" /\ read_sector_no' \in Nat
              /\ \A s \in Marked(card) : read_sector_no' <= s
<1>1. /\ card \in Cards /\ read_sector_no \in Nat /\ filesystem_state = "SEARCH_MBR"
      /\ \A s \in Marked(card) : read_sector_no <= s
  BY DEF BootInv, WalkOK, SearchMbr
<1>2. \A s \in Marked(card) : s \in Nat
  BY <1>1, CardFacts DEF Marked
<1>3. Here.kind \in {"mbr", "dbr"} <=> read_sector_no \in Marked(card)
  BY DEF Here, SectorAt, Marked
<1>4. CASE Here.kind \in {"mbr", "dbr"}
  <2>1. read_sector_no \in Marked(card)
    BY <1>3, <1>4
  <2>2. \A s \in Marked(card) : (\A t \in Marked(card) : s <= t) => s = read_sector_no
    BY <1>1, <1>2, <2>1
  <2>3. FirstMarked(card) = read_sector_no
    BY <1>1, <2>1, <2>2 DEF FirstMarked
  <2>4. Here = card.sectors[read_sector_no]
    BY <2>1 DEF Here, SectorAt, Marked
  <2> QED  BY <1>4, <2>1, <2>3, <2>4 DEF SearchMbr, BootSector
<1>5. CASE ~ (Here.kind \in {"mbr", "dbr"})
  <2>1. read_sector_no' = read_sector_no + 1 /\ filesystem_state' = "SEARCH_MBR"
    BY <1>1, <1>5 DEF SearchMbr
  <2>2. \A s \in Marked(card) : s # read_sector_no
    BY <1>3, <1>5
  <2>3. \A s \in Marked(card) : read_sector_no + 1 <= s
    BY <1>1, <1>2, <2>2
  <2> QED  BY <1>1, <2>1, <2>3
<1> QED  BY <1>4, <1>5

(* While no sector is reported the walk waits, and bytes pass.             *)
LEMMA WalkWaits ==
  ASSUME BootInv, NEW go \in BOOLEAN, NEW ready \in BOOLEAN, Clock(go, ready), ~ read_done
  PROVE  WalkOK' /\ FileOK'
<1>1. /\ UNCHANGED <<card, read_sector_no, search_fat, geometry, curr_cluster,
                     cluster_sector_offset, target_cluster, found>>
      /\ filesystem_state' = IF filesystem_state = "RESET" THEN "SEARCH_MBR" ELSE filesystem_state
  BY DEF Clock, Walk
<1>2. WalkOK /\ FileOK
  BY DEF BootInv
<1>3. /\ fptr \in Nat /\ fptr' = IF OfFile THEN fptr + 1 ELSE fptr
      /\ Passed' = IF outen THEN Passed + 1 ELSE Passed
      /\ outen => Passed \in 0 .. SectorBytes - 1
  BY FptrStep, ReaderStep
<1>4. OfFile => /\ outen /\ filesystem_state = "READ_A_FILE" /\ ~ search_fat
                /\ fptr < file_size /\ file_found
  BY <1>2 DEF OfFile, WalkOK
<1>5. GeometryOK => GeometryOK' /\ \A c : ClusterSector(c)' = ClusterSector(c)
  BY <1>1, GeometryKept
<1>6. file_found => file_size = Len(card.file) /\ file_size \in Nat
  BY <1>2, CardFacts DEF WalkOK
<1>7. Marked(card)' = Marked(card) /\ BootSector(card)' = BootSector(card)
  BY <1>1 DEF Marked, BootSector, FirstMarked
<1>8. file_found' => file_size' = Len(card.file)' /\ fptr' \in 0 .. file_size'
  BY <1>1, <1>2, <1>3, <1>4, <1>6 DEF WalkOK, found
<1>9. ~ file_found' => fptr' = 0 /\ file_size' = 0
  BY <1>1, <1>2, <1>3, <1>4 DEF WalkOK, found
<1>10. WalkOK'
  <2>1. /\ file_found' = file_found /\ card' = card /\ search_fat' = search_fat
        /\ read_sector_no' = read_sector_no
    BY <1>1 DEF found
  <2> QED  BY <1>1, <1>2, <1>5, <1>7, <1>8, <1>9, <2>1 DEF WalkOK
<1>11. FileOK'
  <2> SUFFICES ASSUME filesystem_state' = "READ_A_FILE" PROVE FileOK'
    BY DEF FileOK
  <2>1. /\ filesystem_state = "READ_A_FILE" /\ GeometryOK /\ file_found /\ fptr \in 0 .. file_size
        /\ card' = card /\ search_fat' = search_fat /\ read_sector_no' = read_sector_no
        /\ file_size' = file_size /\ curr_cluster' = curr_cluster
        /\ cluster_sector_offset' = cluster_sector_offset /\ cluster_size' = cluster_size
        /\ first_fat_sector_no' = first_fat_sector_no /\ filesystem' = filesystem
    BY <1>1, <1>2 DEF WalkOK, found, geometry
  <2>2. CASE fptr = file_size
    BY <1>3, <1>4, <2>1, <2>2, <1>6 DEF FileOK
  <2>3. CASE fptr # file_size
    <3>1. PICK k \in 1 .. Len(card.clusters) :
            curr_cluster = card.clusters[k] /\ (InCluster(k) \/ InTable(k))
      BY <1>2, <2>1, <2>3 DEF FileOK
    <3>2. CASE InCluster(k)
      <4>1. OfFile <=> outen
        BY <1>6, <2>1, <2>3, <3>2 DEF OfFile, InCluster
      <4>2. fptr' = Place(cluster_size, k, cluster_sector_offset) + Passed'
        <5>1. cluster_size \in Nat \ {0}
          BY <1>2, <2>1, GeometryFacts DEF WalkOK
        <5>2. cluster_sector_offset \in Nat /\ k \in Nat \ {0}
          BY <3>2, <5>1, <1>2, CardFacts DEF InCluster, WalkOK
        <5>3. Place(cluster_size, k, cluster_sector_offset) \in Nat
          BY <5>1, <5>2, PlaceFacts
        <5>4. fptr = Place(cluster_size, k, cluster_sector_offset) + Passed
          BY <3>2 DEF InCluster
        <5>5. CASE outen
          BY <1>3, <4>1, <5>3, <5>4, <5>5, Sizes
        <5>6. CASE ~ outen
          BY <1>3, <4>1, <5>4, <5>6
        <5> QED  BY <5>5, <5>6
      <4>3. InCluster(k)'
        BY <1>5, <2>1, <3>2, <4>2 DEF InCluster
      <4> QED  BY <2>1, <3>1, <4>3 DEF FileOK
    <3>3. CASE InTable(k)
      <4>1. fptr' = fptr
        BY <1>3, <1>4, <3>3 DEF InTable
      <4>2. InTable(k)'
        BY <2>1, <3>3, <4>1 DEF InTable, ItemsPerSector
      <4> QED  BY <2>1, <3>1, <4>2 DEF FileOK
    <3> QED  BY <3>1, <3>2, <3>3
  <2> QED  BY <2>2, <2>3
<1> QED  BY <1>10, <1>11

(* The file is opened at its first cluster.                                *)
LEMMA OpenStep ==
  ASSUME BootInv, GeometryOK, ~ file_found, ~ search_fat, Found, OpenFile, card' = card,
         UNCHANGED geometry, fptr' = fptr, Passed' = 0
  PROVE  FileOK'
<1>1. /\ file_found' /\ curr_cluster' = file_cluster' /\ cluster_sector_offset' = 0
      /\ read_sector_no' = ClusterSector(file_cluster') /\ filesystem_state' = "READ_A_FILE"
      /\ search_fat' = search_fat
  BY DEF OpenFile
<1>2. card \in Cards /\ fptr = 0
  BY DEF BootInv, WalkOK
<1>3. Len(card.clusters) > 0 /\ file_cluster' = card.clusters[1]
  BY <1>1, FoundStep
<1>4. 1 \in 1 .. Len(card.clusters)
  BY <1>2, <1>3, CardFacts
<1>5. cluster_size \in Nat \ {0} /\ cluster_size' = cluster_size
  BY <1>2, GeometryFacts DEF geometry
<1>6. ClusterSector(card.clusters[1]) \in Int
  <2>1. card.clusters[1] \in Nat /\ first_data_sector_no \in Int
    BY <1>2, <1>4, CardFacts, GeometryFacts
  <2> QED  BY <1>5, <2>1 DEF ClusterSector
<1>7. InCluster(1)'
  <2>1. ~ search_fat' /\ cluster_sector_offset' \in 0 .. cluster_size' - 1
    BY <1>1, <1>5
  <2>2. fptr' = Place(cluster_size', 1, cluster_sector_offset') + Passed'
    <3>1. Place(cluster_size', 1, cluster_sector_offset') = Place(cluster_size, 1, 0)
      BY <1>1, <1>5
    <3>2. Place(cluster_size, 1, 0) = 0
      BY <1>5, PlaceFacts
    <3> QED  BY <1>2, <3>1, <3>2
  <2>3. (read_sector_no = ClusterSector(card.clusters[1]) + cluster_sector_offset)'
    <3>1. \A c : ClusterSector(c)' = ClusterSector(c)
      BY GeometryKept
    <3> QED  BY <1>1, <1>3, <1>6, <3>1
  <2> QED  BY <2>1, <2>2, <2>3 DEF InCluster
<1> QED  BY <1>1, <1>3, <1>4, <1>7 DEF FileOK

(* What stays true of the walk in the steps that keep its geometry.        *)
LEMMA WalkKeeps ==
  ASSUME BootInv, GeometryOK, card' = card, UNCHANGED geometry, search_fat' \in BOOLEAN,
         filesystem_state' \in {"LS_ROOT_FAT16", "LS_ROOT_FAT32", "READ_A_FILE", "DONE"},
         filesystem_state' = "LS_ROOT_FAT16" => ~ search_fat',
         file_found' \in BOOLEAN,
         filesystem_state' = "READ_A_FILE" => file_found',
         filesystem_state' \notin {"READ_A_FILE", "DONE"} => ~ file_found',
         file_found' => file_size' = Len(card.file) /\ fptr' \in 0 .. file_size',
         ~ file_found' => fptr' = 0 /\ file_size' = 0
  PROVE  WalkOK'
<1>1. GeometryOK' /\ card' \in Cards
  BY GeometryKept DEF BootInv, WalkOK
<1>2. filesystem_state' \notin {"RESET", "SEARCH_MBR", "SEARCH_DBR"}
  OBVIOUS
<1> QED  BY <1>1, <1>2 DEF WalkOK

(* A sector of a directory has passed.                                     *)
LEMMA ListStep ==
  ASSUME BootInv, fptr' = fptr, Passed' = 0, ListRootFat16 \/ ListRootFat32
  PROVE  WalkOK' /\ FileOK'
<1>1. /\ WalkOK /\ card' = card /\ UNCHANGED geometry /\ Found
      /\ filesystem_state \in {"LS_ROOT_FAT16", "LS_ROOT_FAT32"}
  BY DEF ListRootFat16, ListRootFat32, BootInv
<1>2. GeometryOK /\ ~ file_found /\ ~ search_fat /\ fptr = 0 /\ card \in Cards
  BY <1>1 DEF WalkOK, ListRootFat16, ListRootFat32
<1>3. /\ file_found' \in BOOLEAN
      /\ file_found' => file_size' = Len(card.file)
      /\ ~ file_found' => file_size' = 0
  BY <1>1, <1>2, FoundStep
<1>4. fptr' = 0 /\ (file_found' => fptr' \in 0 .. file_size')
  BY <1>2, <1>3, CardFacts
<1>5. CASE OpenFile
  <2>1. filesystem_state' = "READ_A_FILE" /\ search_fat' = search_fat /\ file_found'
    BY <1>5 DEF OpenFile
  <2>2. FileOK'
    BY <1>1, <1>2, <1>5, OpenStep
  <2>3. search_fat' \in BOOLEAN
    BY <1>1, <2>1 DEF WalkOK
  <2>4. WalkOK'
    BY <1>1, <1>2, <1>3, <1>4, <2>1, <2>3, WalkKeeps
  <2> QED  BY <2>2, <2>4
<1>6. CASE ~ OpenFile
  <2>1. ~ file_found' /\ filesystem_state' \in {filesystem_state, "DONE"}
    BY <1>6 DEF ListRootFat16, ListRootFat32
  <2>2. search_fat' \in BOOLEAN /\ (filesystem_state = "LS_ROOT_FAT16" => ~ search_fat')
    <3>1. \/ search_fat' = search_fat
          \/ search_fat' = TRUE /\ filesystem_state # "LS_ROOT_FAT16"
      BY <1>6 DEF ListRootFat16, ListRootFat32, NextSector
    <3>2. search_fat \in BOOLEAN
      BY <1>1 DEF WalkOK
    <3>3. search_fat' \in BOOLEAN
      BY <3>1, <3>2
    <3>4. filesystem_state = "LS_ROOT_FAT16" => ~ search_fat'
      <4>1. ~ search_fat
        BY <1>2
      <4> QED  BY <3>1, <4>1
    <3> QED  BY <3>3, <3>4
  <2>3. filesystem_state' # "READ_A_FILE"
    BY <1>1, <2>1
  <2>4. FileOK'
    BY <2>3 DEF FileOK
  <2>5. WalkOK'
    BY <1>1, <1>2, <1>3, <1>4, <2>1, <2>2, WalkKeeps
  <2> QED  BY <2>4, <2>5
<1> QED  BY <1>5, <1>6

(* A sector of the file has passed: the next begins where it ended.        *)
LEMMA FileSectorStep ==
  ASSUME BootInv, fptr' = fptr, Passed = SectorBytes, Passed' = 0, ReadAFile
  PROVE  WalkOK' /\ FileOK'
<1>1. /\ WalkOK /\ FileOK /\ card' = card /\ UNCHANGED geometry
      /\ filesystem_state = "READ_A_FILE" /\ filesystem_state' = filesystem_state
      /\ ~ search_fat /\ NextSector /\ UNCHANGED <<curr_cluster, found>>
  BY DEF ReadAFile, BootInv
<1>2. /\ GeometryOK /\ file_found /\ card \in Cards /\ file_size = Len(card.file)
      /\ fptr \in 0 .. file_size
  BY <1>1 DEF WalkOK
<1>3. /\ file_found' = file_found /\ file_size' = file_size /\ curr_cluster' = curr_cluster
      /\ cluster_size' = cluster_size /\ first_fat_sector_no' = first_fat_sector_no
      /\ filesystem' = filesystem
  BY <1>1 DEF found, geometry
<1>4. search_fat' \in BOOLEAN
  BY <1>1 DEF NextSector, WalkOK
<1>5. WalkOK'
  BY <1>1, <1>2, <1>3, <1>4, WalkKeeps
<1>6. cluster_size \in Nat \ {0} /\ Len(card.clusters) \in Nat
  BY <1>2, GeometryFacts, CardFacts
<1>7. CASE fptr = file_size
  BY <1>3, <1>5, <1>7 DEF FileOK
<1>8. CASE fptr # file_size
  <2>1. PICK k \in 1 .. Len(card.clusters) : curr_cluster = card.clusters[k] /\ InCluster(k)
    BY <1>1, <1>8 DEF FileOK, InTable
  <2> DEFINE o == cluster_sector_offset
  <2>2. o \in 0 .. cluster_size - 1 /\ fptr = Place(cluster_size, k, o) + SectorBytes
    BY <2>1 DEF InCluster
  <2>3. k \in Nat \ {0} /\ o \in Nat
    BY <1>6, <2>2
  <2>4. /\ Place(cluster_size, k, o) \in Nat
        /\ Place(cluster_size, k, o + 1) = Place(cluster_size, k, o) + SectorBytes
        /\ Place(cluster_size, k + 1, 0) = Place(cluster_size, k, cluster_size - 1) + SectorBytes
    BY <1>6, <2>3, PlaceFacts
  <2>5. CASE o < cluster_size - 1
    <3>1. o' = o + 1 /\ read_sector_no' = ClusterSector(curr_cluster) + o' /\ search_fat' = search_fat
      BY <1>1, <2>2, <2>5, <1>6 DEF NextSector
    <3>2. fptr' = Place(cluster_size', k, o') + Passed'
      <4>1. Place(cluster_size', k, o') = Place(cluster_size, k, o + 1)
        BY <1>3, <3>1
      <4> QED  BY <2>2, <2>4, <4>1, Sizes
    <3>3. ~ search_fat' /\ o' \in 0 .. cluster_size' - 1
      BY <1>1, <1>3, <1>6, <2>2, <2>5, <3>1
    <3>4. (read_sector_no = ClusterSector(card.clusters[k]) + cluster_sector_offset)'
      BY <1>1, <1>2, <2>1, <3>1, GeometryKept
    <3>5. InCluster(k)'
      BY <3>2, <3>3, <3>4 DEF InCluster
    <3> QED  BY <1>1, <1>3, <1>5, <2>1, <3>5 DEF FileOK
  <2>6. CASE o >= cluster_size - 1
    <3>1. /\ search_fat'
          /\ read_sector_no' = first_fat_sector_no + curr_cluster \div ItemsPerSector(filesystem)
      BY <1>1, <2>2, <2>6, <1>6 DEF NextSector
    <3>2. o = cluster_size - 1
      BY <1>6, <2>2, <2>6
    <3>3. fptr' = Place(cluster_size', k + 1, 0)
      <4>1. Place(cluster_size', k + 1, 0) = Place(cluster_size, k + 1, 0)
        BY <1>3
      <4>2. Place(cluster_size, k, o) = Place(cluster_size, k, cluster_size - 1)
        BY <3>2
      <4> QED  BY <2>2, <2>4, <4>1, <4>2
    <3>4. InTable(k)'
      BY <1>1, <1>3, <2>1, <3>1, <3>3 DEF InTable, ItemsPerSector
    <3> QED  BY <1>1, <1>3, <1>5, <2>1, <3>4 DEF FileOK
  <2> QED  BY <1>6, <2>2, <2>5, <2>6
<1> QED  BY <1>5, <1>7, <1>8

(* A sector of the table has passed: it names the cluster that follows.    *)
LEMMA ChainStep ==
  ASSUME BootInv, fptr' = fptr, Passed' = 0, FollowChain(fptr)
  PROVE  WalkOK' /\ FileOK'
<1>1. /\ WalkOK /\ FileOK /\ card' = card /\ UNCHANGED geometry /\ UNCHANGED found
      /\ search_fat /\ filesystem_state \in {"LS_ROOT_FAT32", "READ_A_FILE"}
      /\ search_fat' = FALSE /\ cluster_sector_offset' = 0
      /\ target_cluster' = IF Here.kind = "fat"
                             THEN Here.item[curr_cluster % ItemsPerSector(filesystem)]
                             ELSE target_cluster
      /\ \/ filesystem_state' = "DONE"
         \/ /\ filesystem_state' = filesystem_state /\ curr_cluster' = target_cluster'
            /\ read_sector_no' = ClusterSector(target_cluster')
  BY DEF FollowChain, BootInv
<1>2. /\ GeometryOK /\ card \in Cards
      /\ file_found => file_size = Len(card.file) /\ fptr \in 0 .. file_size
      /\ ~ file_found => fptr = 0 /\ file_size = 0
      /\ file_found \in BOOLEAN /\ (filesystem_state = "READ_A_FILE" => file_found)
      /\ (filesystem_state = "LS_ROOT_FAT32" => ~ file_found)
  BY <1>1 DEF WalkOK
<1>3. /\ file_found' = file_found /\ file_size' = file_size
      /\ cluster_size' = cluster_size /\ ~ search_fat' /\ search_fat' \in BOOLEAN
  BY <1>1 DEF found, geometry
<1>4. WalkOK'
  BY <1>1, <1>2, <1>3, WalkKeeps
<1>5. ASSUME filesystem_state' = "READ_A_FILE" PROVE FileOK'
  <2>1. /\ filesystem_state = "READ_A_FILE" /\ file_found /\ curr_cluster' = target_cluster'
        /\ read_sector_no' = ClusterSector(target_cluster')
    BY <1>1, <1>2, <1>5
  <2>2. CASE fptr = file_size
    BY <1>3, <2>2 DEF FileOK
  <2>3. CASE fptr # file_size
    <3>1. PICK k \in 1 .. Len(card.clusters) : curr_cluster = card.clusters[k] /\ InTable(k)
      BY <1>1, <2>1, <2>3 DEF FileOK, InCluster
    <3>2. /\ fptr = Place(cluster_size, k + 1, 0)
          /\ Here = SectorAt(card, first_fat_sector_no
                                     + card.clusters[k] \div ItemsPerSector(filesystem))
      BY <3>1 DEF InTable, Here
    <3>3. /\ cluster_size \in Nat \ {0} /\ first_data_sector_no \in Int
          /\ Len(card.file) <= Place(cluster_size, Len(card.clusters) + 1, 0)
          /\ Chained(card, first_fat_sector_no, ItemsPerSector(filesystem))
          /\ Len(card.clusters) \in Nat /\ Len(card.file) \in Nat
      BY <1>2, GeometryFacts, CardFacts
    <3>4. k # Len(card.clusters)
      BY <1>2, <2>1, <2>3, <3>2, <3>3
    <3>5. k \in 1 .. Len(card.clusters) - 1 /\ k + 1 \in 1 .. Len(card.clusters)
      BY <3>3, <3>4
    <3>6. target_cluster' = card.clusters[k + 1]
      BY <1>1, <3>1, <3>2, <3>3, <3>5, Zenon DEF Chained
    <3>7. ClusterSector(card.clusters[k + 1]) \in Int
      <4>1. card.clusters[k + 1] \in Nat
        BY <1>2, <3>5, CardFacts
      <4> QED  BY <3>3, <4>1 DEF ClusterSector
    <3>8. (read_sector_no = ClusterSector(card.clusters[k + 1]) + cluster_sector_offset)'
      <4>1. \A c : ClusterSector(c)' = ClusterSector(c)
        BY <1>1, <1>2, GeometryKept
      <4> QED  BY <1>1, <2>1, <3>6, <3>7, <4>1
    <3>9. fptr' = Place(cluster_size', k + 1, cluster_sector_offset') + Passed'
      <4>1. Place(cluster_size', k + 1, cluster_sector_offset') = Place(cluster_size, k + 1, 0)
        BY <1>1, <1>3
      <4>2. fptr \in Nat
        BY FptrNat
      <4> QED  BY <3>2, <4>1, <4>2
    <3>10. InCluster(k + 1)'
      BY <1>1, <1>3, <3>3, <3>8, <3>9 DEF InCluster
    <3> QED  BY <1>1, <2>1, <3>5, <3>6, <3>10 DEF FileOK
  <2> QED  BY <2>2, <2>3
<1> QED  BY <1>4, <1>5 DEF FileOK

LEMMA SearchStep ==
  ASSUME BootInv, fptr' = fptr, SearchMbr \/ SearchDbr \/ SearchDbrFails
  PROVE  WalkOK' /\ FileOK'
<1>1. /\ WalkOK /\ card' = card /\ search_fat' = search_fat /\ UNCHANGED found
      /\ filesystem_state \in {"SEARCH_MBR", "SEARCH_DBR"}
  BY DEF SearchMbr, SearchDbr, SearchDbrFails, BootInv
<1>2. /\ ~ file_found /\ ~ search_fat /\ fptr = 0 /\ file_size = 0 /\ card \in Cards
      /\ search_fat \in BOOLEAN /\ file_found \in BOOLEAN
  BY <1>1 DEF WalkOK
<1>3. /\ file_found' \in BOOLEAN /\ ~ file_found' /\ file_size' = 0 /\ fptr' = 0
      /\ search_fat' \in BOOLEAN /\ ~ search_fat' /\ card' \in Cards
  BY <1>1, <1>2 DEF found
<1>4. Marked(card)' = Marked(card) /\ BootSector(card)' = BootSector(card)
  BY <1>1 DEF Marked, BootSector, FirstMarked
<1>5. CASE SearchMbr
  <2>1. CASE filesystem_state' = "SEARCH_DBR"
    <3>1. Marked(card)' # {} /\ read_sector_no' = BootSector(card)'
      BY <1>4, <1>5, <2>1, MbrStep
    <3> QED  BY <1>3, <2>1, <3>1 DEF WalkOK, FileOK
  <2>2. CASE filesystem_state' # "SEARCH_DBR"
    <3>1. /\ filesystem_state' = "SEARCH_MBR" /\ read_sector_no' \in Nat
          /\ \A s \in Marked(card)' : read_sector_no' <= s
      BY <1>4, <1>5, <2>2, MbrStep
    <3> QED  BY <1>3, <3>1 DEF WalkOK, FileOK
  <2> QED  BY <2>1, <2>2
<1>6. CASE SearchDbr
  <2>1. Marked(card) # {} /\ read_sector_no = BootSector(card) /\ Here = Boots /\ Readable(Boots)
    BY <1>1, <1>6 DEF SearchDbr, WalkOK, Here, Boots
  <2>2. /\ filesystem' = Boots.fs /\ cluster_size' = Boots.sector_per_cluster
        /\ first_fat_sector_no' = FirstFat(BootSector(card), Boots)
        /\ first_data_sector_no' = FirstData(BootSector(card), Boots)
    BY <1>6, <2>1 DEF SearchDbr
  <2>3. GeometryOK'
    BY <1>1, <1>4, <2>1, <2>2 DEF GeometryOK, Boots
  <2>4. filesystem_state' \in {"LS_ROOT_FAT16", "LS_ROOT_FAT32"}
    BY <1>6 DEF SearchDbr
  <2> QED  BY <1>3, <2>3, <2>4 DEF WalkOK, FileOK
<1>7. CASE SearchDbrFails
  BY <1>3, <1>7 DEF SearchDbrFails, WalkOK, FileOK
<1> QED  BY <1>5, <1>6, <1>7

LEMMA WalkStep ==
  ASSUME BootInv, NEW go \in BOOLEAN, NEW ready \in BOOLEAN, Clock(go, ready)
  PROVE  WalkOK' /\ FileOK'
<1>1. CASE ~ read_done
  BY <1>1, WalkWaits
<1>2. CASE read_done
  <2>1. fptr' = fptr /\ Passed = SectorBytes /\ Passed' = 0
    BY <1>2, FptrStep, ReaderStep
  <2>2. SectorRead(fptr)
    BY <1>2 DEF Clock, Walk
  <2>3. CASE SearchMbr \/ SearchDbr \/ SearchDbrFails
    BY <2>1, <2>3, SearchStep
  <2>4. CASE SearchDbrAgain
    <3>1. filesystem_state = "SEARCH_DBR" /\ UNCHANGED walkVars /\ WalkOK
      BY <2>4 DEF SearchDbrAgain, BootInv
    <3>2. /\ card' = card /\ filesystem_state' = filesystem_state /\ search_fat' = search_fat
          /\ file_found' = file_found /\ file_size' = file_size
          /\ read_sector_no' = read_sector_no
      BY <3>1 DEF walkVars, found
    <3>3. Marked(card)' = Marked(card) /\ BootSector(card)' = BootSector(card)
      BY <3>2 DEF Marked, BootSector, FirstMarked
    <3> QED  BY <2>1, <3>1, <3>2, <3>3 DEF WalkOK, FileOK
  <2>5. CASE ListRootFat16 \/ ListRootFat32
    BY <2>1, <2>5, ListStep
  <2>6. CASE ReadAFile
    BY <2>1, <2>6, FileSectorStep
  <2>7. CASE FollowChain(fptr)
    BY <2>1, <2>7, ChainStep
  <2> QED  BY <2>2, <2>3, <2>4, <2>5, <2>6, <2>7 DEF SectorRead
<1> QED  BY <1>1, <1>2

-------------------------------------------------------------------------------
(* The words.  Bytes are gathered four by four, and the reader is paused   *)
(* from the edge the word is whole to the edge it has been written.        *)
LEMMA ByFour ==
  ASSUME NEW n \in Nat
  PROVE  /\ n \div 4 \in Nat /\ n % 4 \in 0..3 /\ n = 4 * (n \div 4) + (n % 4)
         /\ n % 4 = 3 => (n + 1) \div 4 = n \div 4 + 1 /\ (n + 1) % 4 = 0
         /\ n % 4 # 3 => (n + 1) \div 4 = n \div 4 /\ (n + 1) % 4 = (n % 4) + 1
OBVIOUS

LEMMA BytesStep ==
  ASSUME BootInv, NEW go \in BOOLEAN, NEW ready \in BOOLEAN, Clock(go, ready)
  PROVE  /\ BytesOK'
         /\ ~ OfFile => Words' = Words /\ dtowr' = dtowr
                        /\ (send' <=> send /\ frbusy /\ ostate # 23)
         /\ OfFile => ~ send /\ Words' = Words + (IF send' THEN 1 ELSE 0)
<1> DEFINE p == fptr % 4
<1>1. /\ BytesOK /\ ReaderOK /\ CollectBytes /\ SdReader(ready) /\ card' = card /\ fptr \in Nat
      /\ fptr' = IF OfFile THEN fptr + 1 ELSE fptr
  BY FptrStep DEF BootInv, Clock
<1>2. /\ Words \in Nat /\ p \in 0..3 /\ fptr = 4 * Words + p
      /\ p = 3 => (fptr + 1) \div 4 = Words + 1 /\ (fptr + 1) % 4 = 0
      /\ p # 3 => (fptr + 1) \div 4 = Words /\ (fptr + 1) % 4 = p + 1
  BY <1>1, ByFour DEF Words
<1>3. \A a : FileWord(a)' = FileWord(a)
  BY <1>1, SummedKept
<1>4. CASE OfFile
  <2>1. /\ outbyte = card.file[fptr + 1] /\ outbyte \in Nat
        /\ state = 12 /\ state' = 13 /\ ~ send
    <3>1. outen /\ state = 12
      BY <1>4, ReaderStep DEF OfFile
    <3>2. outbyte = card.file[fptr + 1] /\ outbyte \in Nat
      BY <1>4, ReaderStep, OutByte
    <3>3. state' = 13
      BY <1>1, <3>1 DEF SdReader, SectorAsked, ByteAsked, ByteRead, ByteEnds, ByteNext, SectorEnds
    <3>4. ~ send
      BY <1>1, <3>1 DEF BytesOK
    <3> QED  BY <3>1, <3>2, <3>3, <3>4
  <2> DEFINE m == [mw EXCEPT ![p] = outbyte]
  <2>2. /\ fptr' = fptr + 1 /\ mw' = m
        /\ IF p = 3 THEN send' = TRUE /\ dtowr' = WordOf([mw EXCEPT ![3] = outbyte])
                    ELSE send' = FALSE /\ dtowr' = dtowr
    BY <1>1, <1>4 DEF CollectBytes
  <2>3. /\ mw \in [0..3 -> Nat]
        /\ \A j \in 0..3 : j < p => mw[j] = card.file[4 * Words + j + 1]
    BY <1>1 DEF BytesOK
  <2>4. /\ m \in [0..3 -> Nat]
        /\ \A j \in 0..3 : j < p + 1 => m[j] = card.file[4 * Words + j + 1]
    <3>1. m \in [0..3 -> Nat] /\ m[p] = outbyte /\ \A j \in 0..3 : j # p => m[j] = mw[j]
      BY <1>2, <2>1, <2>3
    <3>2. outbyte = card.file[4 * Words + p + 1]
      BY <1>2, <2>1
    <3>3. \A j \in 0..3 : j < p + 1 => j < p \/ j = p
      BY <1>2
    <3> HIDE DEF m, p
    <3> QED  BY <2>3, <3>1, <3>2, <3>3
  <2>5. CASE p = 3
    <3>1. Words' = Words + 1 /\ fptr' % 4 = 0
      BY <1>2, <2>2, <2>5 DEF Words
    <3>2. send' /\ send' \in BOOLEAN /\ dtowr' = WordOf(m)
      BY <2>2, <2>5
    <3>3. m = [i \in 0..3 |-> card.file[4 * Words + i + 1]]
      <4>1. \A j \in 0..3 : m[j] = card.file[4 * Words + j + 1]
        BY <2>4, <2>5
      <4> HIDE DEF m
      <4> QED  BY <2>4, <4>1
    <3>4. dtowr' = FileWord(Words)
      BY <3>2, <3>3 DEF FileWord
    <3>5. dtowr' \in Nat
      <4> HIDE DEF m
      <4>1. m[0] \in Nat /\ m[1] \in Nat /\ m[2] \in Nat /\ m[3] \in Nat
        BY <2>4
      <4> QED  BY <3>2, <4>1, WordOfNat
    <3>6. (Words' - 1) = Words /\ Words' > 0
      BY <1>2, <3>1
    <3>7. dtowr' = FileWord(Words - 1)'
      BY <1>1, <3>4, <3>6 DEF FileWord
    <3>8. mw' \in [0..3 -> Nat]
      BY <2>2, <2>4
    <3>9. BytesOK'
      BY <2>1, <3>1, <3>2, <3>5, <3>6, <3>7, <3>8 DEF BytesOK
    <3> QED  BY <1>4, <2>1, <3>1, <3>2, <3>9
  <2>6. CASE p # 3
    <3>1. Words' = Words /\ fptr' % 4 = p + 1
      BY <1>2, <2>2, <2>6 DEF Words
    <3>2. ~ send' /\ send' \in BOOLEAN /\ dtowr' = dtowr /\ dtowr' \in Nat
      BY <1>1, <2>2, <2>6 DEF BytesOK
    <3>3. mw' \in [0..3 -> Nat]
      BY <2>2, <2>4
    <3>4. \A j \in 0..3 : j < fptr' % 4 => mw'[j] = card'.file[4 * Words' + j + 1]
      <4> HIDE DEF m, p
      <4> QED  BY <1>1, <2>2, <2>4, <3>1
    <3>5. BytesOK'
      BY <3>2, <3>3, <3>4 DEF BytesOK
    <3>6. Words' = Words + 0
      BY <1>2, <3>1
    <3> QED  BY <1>4, <2>1, <3>2, <3>5, <3>6
  <2> QED  BY <2>5, <2>6
<1>5. CASE ~ OfFile
  <2>1. /\ fptr' = fptr /\ mw' = mw /\ dtowr' = dtowr
        /\ (send' <=> send /\ frbusy /\ ostate # 23) /\ send' \in BOOLEAN
    BY <1>1, <1>5 DEF CollectBytes, BytesOK
  <2>2. Words' = Words
    BY <2>1 DEF Words
  <2>3. send' => state' \notin {11, 12}
    <3>1. ASSUME send' PROVE state \notin {11, 12} /\ frbusy
      BY <1>1, <2>1, <3>1 DEF BytesOK
    <3> QED  BY <1>1, <3>1 DEF SdReader, SectorAsked, ByteAsked, ByteRead, ByteEnds, ByteNext, SectorEnds
  <2>4. send' => dtowr' = FileWord(Words - 1)'
    BY <1>1, <2>1, <2>2 DEF BytesOK, FileWord
  <2>5. BytesOK'
    BY <1>1, <2>1, <2>2, <2>3, <2>4 DEF BytesOK
  <2> QED  BY <1>5, <2>1, <2>2, <2>5
<1> QED  BY <1>4, <1>5

LEMMA SendStep ==
  ASSUME BootInv, NEW go \in BOOLEAN, NEW ready \in BOOLEAN, Clock(go, ready)
  PROVE  SendOK'
<1> USE Sizes
<1>1. SendOK /\ CopyOK /\ SendWord /\ Words \in Nat /\ dtowr \in Nat
  BY FptrNat, ByFour DEF BootInv, Clock, Words, BytesOK
<1>2. /\ ~ OfFile => Words' = Words /\ dtowr' = dtowr /\ (send' <=> send /\ ostate # 23)
      /\ OfFile => ~ send /\ Words' = Words + (IF send' THEN 1 ELSE 0)
      /\ send' \in BOOLEAN
  BY BytesStep DEF frbusy, BytesOK
<1>3. /\ ostate \in {0, 20, 21, 22, 23} /\ senti \in 0 .. BIN_SIZE /\ BOOTDONE \in BOOLEAN
      /\ DATA \in Nat /\ WE \in BOOLEAN /\ (ostate # 0 => send) /\ (WE <=> ostate = 21)
      /\ Words = senti + (IF send /\ ostate \in {0, 20} THEN 1 ELSE 0)
      /\ (ostate \in {20, 21} => DATA = dtowr)
  BY <1>1 DEF SendOK
<1>4. ostate # 0 => ~ OfFile
  BY <1>2, <1>3
<1>5. CASE SendBegins
  <2>1. /\ ostate = 0 /\ (WE' <=> WE) /\ WE' \in BOOLEAN /\ senti' = senti /\ BOOTDONE' \in BOOLEAN
        /\ \/ send /\ DATA' = dtowr /\ ostate' = 20
           \/ DATA' = DATA /\ ostate' = 0
    BY <1>3, <1>5 DEF SendBegins
  <2>2. CASE OfFile
    <3>1. ostate' = 0 /\ DATA' = DATA
      BY <1>2, <2>1, <2>2
    <3>2. Words = senti
      BY <1>2, <1>3, <2>2
    <3>3. Words' = senti' + (IF send' THEN 1 ELSE 0)
      BY <1>2, <2>1, <2>2, <3>2
    <3>4. ~ WE'
      BY <1>3, <2>1
    <3> QED  BY <1>2, <1>3, <2>1, <3>1, <3>3, <3>4 DEF SendOK
  <2>3. CASE ~ OfFile
    <3>1. (send' <=> send) /\ Words' = Words /\ dtowr' = dtowr
      BY <1>2, <2>1, <2>3
    <3>2. ~ WE'
      BY <1>3, <2>1
    <3>3. ostate' \in {0, 20} /\ (ostate' # 0 => send') /\ DATA' \in Nat
          /\ (ostate' = 20 => DATA' = dtowr')
      BY <1>1, <1>3, <2>1, <3>1
    <3>4. Words' = senti' + (IF send' THEN 1 ELSE 0)
      BY <1>3, <2>1, <3>1
    <3> QED  BY <1>2, <1>3, <2>1, <3>2, <3>3, <3>4 DEF SendOK
  <2> QED  BY <2>2, <2>3
<1>6. CASE ostate # 0
  <2>1. send /\ Words' = Words /\ dtowr' = dtowr /\ (send' <=> ostate # 23)
    BY <1>2, <1>3, <1>4, <1>6
  <2>2. CASE SendOffers
    <3>1. /\ ostate = 20 /\ DATA' = DATA /\ BOOTDONE' = BOOTDONE
          /\ \/ WE' /\ WE' \in BOOLEAN /\ senti < BIN_SIZE /\ senti' = senti + 1 /\ ostate' = 21
             \/ (WE' <=> WE) /\ WE' \in BOOLEAN /\ senti' = senti /\ ostate' = 20
      BY <1>3, <2>2 DEF SendOffers
    <3>2. send' /\ Words = senti + 1 /\ DATA' = dtowr' /\ DATA' \in Nat
      BY <1>3, <2>1, <3>1
    <3>3. CASE ostate' = 21
      <4>1. WE' /\ senti' \in 0 .. BIN_SIZE /\ Words' = senti'
        BY <1>3, <2>1, <3>1, <3>2, <3>3
      <4> QED  BY <1>2, <1>3, <3>1, <3>2, <3>3, <4>1 DEF SendOK
    <3>4. CASE ostate' = 20
      <4>1. ~ WE' /\ senti' \in 0 .. BIN_SIZE /\ Words' = senti' + 1
        BY <1>3, <2>1, <3>1, <3>2, <3>4
      <4> QED  BY <1>2, <1>3, <3>1, <3>2, <3>4, <4>1 DEF SendOK
    <3> QED  BY <3>1, <3>3, <3>4
  <2>3. CASE SendTaken
    <3>1. /\ ostate = 21 /\ DATA' = DATA /\ BOOTDONE' = BOOTDONE /\ senti' = senti
          /\ \/ ~ WE' /\ WE' \in BOOLEAN /\ ostate' = 22
             \/ (WE' <=> WE) /\ WE' \in BOOLEAN /\ ostate' = 21
      BY <1>3, <2>3 DEF SendTaken
    <3>2. send' /\ Words = senti
      BY <1>3, <2>1, <3>1
    <3> QED  BY <1>2, <1>3, <2>1, <3>1, <3>2 DEF SendOK
  <2>4. CASE SendWritten
    <3>1. /\ ostate = 22 /\ DATA' = DATA /\ BOOTDONE' \in BOOLEAN /\ senti' = senti
          /\ (WE' <=> WE) /\ WE' \in BOOLEAN /\ ostate' \in {22, 23}
      BY <1>3, <2>4 DEF SendWritten
    <3>2. send' /\ Words = senti
      BY <1>3, <2>1, <3>1
    <3> QED  BY <1>2, <1>3, <2>1, <3>1, <3>2 DEF SendOK
  <2>5. CASE SendEnds
    <3>1. /\ ostate = 23 /\ DATA' = DATA /\ BOOTDONE' = BOOTDONE /\ senti' = senti
          /\ (WE' <=> WE) /\ WE' \in BOOLEAN /\ ostate' = 0
      BY <1>3, <2>5 DEF SendEnds
    <3>2. ~ send' /\ Words = senti
      BY <1>3, <2>1, <3>1
    <3> QED  BY <1>2, <1>3, <2>1, <3>1, <3>2 DEF SendOK
  <2> QED  BY <1>1, <1>6, <2>2, <2>3, <2>4, <2>5 DEF SendWord, SendBegins
<1> QED  BY <1>1, <1>5, <1>6 DEF SendWord, SendOffers, SendTaken, SendWritten, SendEnds

(* The words of the image that have come are words of the file.            *)
LEMMA WordsInFile ==
  ASSUME BootInv
  PROVE  \A a \in Nat : a < Words => 4 * a + 4 <= Len(card.file) /\ FileWord(a) \in Nat
<1>1. /\ fptr \in Nat /\ Words \in Nat /\ fptr = 4 * Words + (fptr % 4) /\ fptr % 4 \in 0..3
      /\ card \in Cards /\ Len(card.file) \in Nat
  BY FptrNat, ByFour, CardFacts DEF BootInv, WalkOK, Words
<1>2. fptr <= Len(card.file)
  BY <1>1 DEF BootInv, WalkOK
<1>3. \A a \in Nat : a < Words => 4 * a + 4 <= Len(card.file)
  BY <1>1, <1>2
<1> QED  BY <1>1, <1>3, WordNat

(* What the copier is offered is the word it counts next.                  *)
LEMMA Offered ==
  ASSUME BootInv, WE
  PROVE  /\ ostate = 21 /\ Words = senti /\ r_initaddr3 = senti - 1 /\ r_initaddr3 \in Image
         /\ DATA = FileWord(r_initaddr3) /\ DATA \in Nat /\ r_init_state = 3
<1> USE Sizes
<1>1. /\ ostate = 21 /\ send /\ senti \in 0 .. BIN_SIZE /\ DATA = dtowr /\ DATA \in Nat
      /\ Words = senti + (IF send /\ ostate \in {0, 20} THEN 1 ELSE 0)
      /\ dtowr = FileWord(Words - 1)
      /\ r_initaddr3 = senti - (IF ostate = 21 \/ r_sd_state = 1 THEN 1 ELSE 0)
      /\ r_initaddr3 \in 0 .. BIN_SIZE
  BY DEF BootInv, SendOK, BytesOK, CopyOK
<1>2. Words = senti /\ r_initaddr3 = senti - 1 /\ r_initaddr3 < BIN_SIZE /\ r_initaddr3 \in Image
  BY <1>1 DEF Image
<1>3. r_init_state = 3
  <2>1. ~ r_bblsd_done
    BY <1>2 DEF BootInv, OrderOK
  <2> QED  BY <1>1, <2>1 DEF BootInv, OrderOK, Paused
<1> QED  BY <1>1, <1>2, <1>3

-------------------------------------------------------------------------------
(* What an edge does at the DRAM: it takes a word of the read-back, of the *)
(* clearing or of the copy, stays idle, counts, or answers.                *)
TakesRead ==
  /\ busy = 0 /\ busy' = 1 /\ reading' /\ reading' \in BOOLEAN /\ daddr' = r_initaddr6
  /\ mem' = mem /\ r_init_state = 6 /\ r_rb_state = 7 /\ w_dram_odata' = w_dram_odata

TakesZero ==
  /\ busy = 0 /\ busy' = 1 /\ reading' \in BOOLEAN /\ daddr' = r_zeroaddr
  /\ r_init_state = 1 /\ r_zero_we /\ r_zeroaddr \in Image
  /\ mem' = [mem EXCEPT ![r_zeroaddr] = 0] /\ w_dram_odata' = w_dram_odata

TakesWord ==
  /\ busy = 0 /\ busy' = 1 /\ reading' \in BOOLEAN /\ daddr' = r_initaddr3
  /\ r_init_state = 3 /\ r_sd_state = 1 /\ r_initaddr3 \in Image
  /\ FileWord(r_initaddr3) \in Nat
  /\ mem' = [mem EXCEPT ![r_initaddr3] = FileWord(r_initaddr3)] /\ w_dram_odata' = w_dram_odata

StaysIdle == busy = 0 /\ UNCHANGED dramVars

Counts ==
  /\ busy > 0 /\ busy < MinBusy /\ busy' = busy + 1
  /\ UNCHANGED <<reading, daddr, w_dram_odata, mem>>

Answers ==
  /\ busy = MinBusy /\ UNCHANGED <<reading, daddr, mem>>
  /\ \/ busy' = 0 /\ (reading => w_dram_odata' = mem[daddr])
     \/ busy' = busy /\ w_dram_odata' = w_dram_odata

LEMMA CopyWord ==
  ASSUME BootInv, r_sd_state = 1
  PROVE  /\ r_init_state = 3 /\ r_initaddr3 \in Image /\ r_initaddr3 < Words /\ Words \in Nat
         /\ FileWord(r_initaddr3) \in Nat /\ r_initaddr3 = senti - 1 /\ ostate \in {21, 22}
         /\ r_sd_init_data = FileWord(r_initaddr3)
<1>1. /\ r_init_state = 3 /\ senti \in 0 .. BIN_SIZE /\ Words \in Nat
      /\ Words = senti + (IF send /\ ostate \in {0, 20} THEN 1 ELSE 0)
      /\ r_initaddr3 = senti - 1 /\ r_initaddr3 \in 0 .. BIN_SIZE
      /\ ostate \in {0, 20, 21, 22, 23} /\ ostate \notin {0, 20, 23}
      /\ r_sd_init_data = FileWord(r_initaddr3)
  BY FptrNat, ByFour DEF BootInv, SendOK, CopyOK, Words
<1>2. r_initaddr3 \in Image /\ r_initaddr3 < Words /\ r_initaddr3 \in Nat /\ ostate \in {21, 22}
  BY <1>1, Sizes DEF Image
<1> QED  BY <1>1, <1>2, WordsInFile

LEMMA DramMoves ==
  ASSUME BootInv, NEW go \in BOOLEAN, NEW ready \in BOOLEAN, Clock(go, ready)
  PROVE  TakesRead \/ TakesZero \/ TakesWord \/ StaysIdle \/ Counts \/ Answers
<1> USE Sizes
<1>1. Dram(go) /\ busy \in 0 .. MinBusy /\ reading \in BOOLEAN
  BY DEF BootInv, Clock, DramOK
<1>2. CASE busy = 0 /\ go /\ (r_set_dram_le \/ w_wr_en)
  <2>1. /\ busy' = 1 /\ reading' = r_set_dram_le /\ daddr' = w_dram_addr
        /\ mem' = IF r_set_dram_le THEN mem ELSE [mem EXCEPT ![w_dram_addr] = w_dram_wdata]
        /\ w_dram_odata' = w_dram_odata
    BY <1>1, <1>2 DEF Dram
  <2>2. /\ r_set_dram_le \in BOOLEAN /\ (r_set_dram_le <=> r_rb_state = 7)
        /\ r_init_state \in {1, 3, 4, 5, 6}
        /\ (r_init_state \notin {5, 6} => r_rb_state = 0)
        /\ (r_init_state = 5 => r_rb_state = 0)
    BY DEF BootInv, BackOK, OrderOK
  <2>3. CASE r_set_dram_le
    <3>1. r_rb_state = 7 /\ r_init_state = 6
      BY <2>2, <2>3
    <3>2. w_dram_addr = r_initaddr6
      BY <3>1 DEF w_dram_addr
    <3> QED  BY <1>2, <2>1, <2>3, <3>1, <3>2, <2>2 DEF TakesRead
  <2>4. CASE ~ r_set_dram_le
    <3>1. r_init_state # 6 /\ (r_zero_we \/ r_sd_init_we)
      BY <1>2, <2>4 DEF w_wr_en
    <3>2. mem' = [mem EXCEPT ![w_dram_addr] = w_dram_wdata] /\ reading' \in BOOLEAN
      BY <2>1, <2>2, <2>4
    <3>3. CASE r_init_state = 1
      <4>1. r_zero_we /\ w_dram_addr = r_zeroaddr /\ w_dram_wdata = 0
        BY <3>1, <3>3 DEF BootInv, OrderOK, Paused, w_dram_addr, w_dram_wdata
      <4>2. r_zeroaddr \in Image
        BY <4>1 DEF BootInv, ZeroOK, Image
      <4>3. mem' = [mem EXCEPT ![r_zeroaddr] = 0] /\ daddr' = r_zeroaddr
        BY <2>1, <3>2, <4>1
      <4> QED  BY <1>2, <2>1, <3>2, <3>3, <4>1, <4>2, <4>3 DEF TakesZero
    <3>4. CASE r_init_state # 1
      <4>1. ~ r_zero_we
        BY <3>4 DEF BootInv, OrderOK, ZeroOK
      <4>2. r_sd_state = 1
        BY <3>1, <4>1 DEF BootInv, CopyOK
      <4>3. /\ r_init_state = 3 /\ r_initaddr3 \in Image /\ FileWord(r_initaddr3) \in Nat
            /\ r_sd_init_data = FileWord(r_initaddr3)
        BY <4>2, CopyWord
      <4>4. w_dram_addr = r_initaddr3 /\ w_dram_wdata = FileWord(r_initaddr3)
        BY <4>3 DEF w_dram_addr, w_dram_wdata
      <4>5. mem' = [mem EXCEPT ![r_initaddr3] = FileWord(r_initaddr3)] /\ daddr' = r_initaddr3
        BY <2>1, <3>2, <4>4
      <4> QED  BY <1>2, <2>1, <3>2, <4>2, <4>3, <4>5 DEF TakesWord
    <3> QED  BY <3>3, <3>4
  <2> QED  BY <2>2, <2>3, <2>4
<1>3. CASE busy = 0 /\ ~ (go /\ (r_set_dram_le \/ w_wr_en))
  BY <1>1, <1>3 DEF Dram, StaysIdle
<1>4. CASE busy # 0 /\ busy # MinBusy
  BY <1>1, <1>4 DEF Dram, Counts
<1>5. CASE busy = MinBusy
  <2>1. /\ UNCHANGED <<reading, daddr, mem>>
        /\ busy' = (IF go THEN 0 ELSE busy)
        /\ w_dram_odata' = IF go /\ reading THEN mem[daddr] ELSE w_dram_odata
    BY <1>1, <1>5 DEF Dram
  <2> QED  BY <1>5, <2>1 DEF Answers
<1> QED  BY <1>2, <1>3, <1>4, <1>5

LEMMA DramStep ==
  ASSUME BootInv, NEW go \in BOOLEAN, NEW ready \in BOOLEAN, Clock(go, ready)
  PROVE  DramOK'
<1> USE Sizes
<1>1. /\ busy \in 0 .. MinBusy /\ reading \in BOOLEAN /\ daddr \in 0 .. BIN_SIZE
      /\ mem \in [0 .. BIN_SIZE -> Int] /\ mem[BIN_SIZE] = Junk
  BY DEF BootInv, DramOK
<1>2. r_initaddr6 \in 0 .. BIN_SIZE
  BY DEF BootInv, BackOK
<1>3. \A a \in Image : a \in 0 .. BIN_SIZE /\ a # BIN_SIZE
  BY DEF Image
<1>4. CASE TakesRead
  BY <1>1, <1>2, <1>4 DEF TakesRead, DramOK
<1>5. CASE TakesZero
  <2>1. mem' \in [0 .. BIN_SIZE -> Int] /\ mem'[BIN_SIZE] = Junk /\ daddr' \in 0 .. BIN_SIZE
    BY <1>1, <1>3, <1>5 DEF TakesZero
  <2> QED  BY <1>5, <2>1 DEF TakesZero, DramOK, Junk
<1>6. CASE TakesWord
  <2>1. mem' \in [0 .. BIN_SIZE -> Int] /\ mem'[BIN_SIZE] = Junk /\ daddr' \in 0 .. BIN_SIZE
    BY <1>1, <1>3, <1>6 DEF TakesWord
  <2> QED  BY <1>6, <2>1 DEF TakesWord, DramOK, Junk
<1>7. CASE StaysIdle
  BY <1>1, <1>7 DEF StaysIdle, dramVars, DramOK, Junk
<1>8. CASE Counts
  BY <1>1, <1>8 DEF Counts, DramOK, Junk
<1>9. CASE Answers
  BY <1>1, <1>9 DEF Answers, DramOK, Junk
<1> QED  BY <1>4, <1>5, <1>6, <1>7, <1>8, <1>9, DramMoves

LEMMA BusyStep ==
  ASSUME BootInv, NEW go \in BOOLEAN, NEW ready \in BOOLEAN, Clock(go, ready)
  PROVE  /\ busy \in 0 .. MinBusy
         /\ busy = 0 => busy' \in {0, 1}
         /\ busy = 1 => busy' = 2 /\ mem' = mem /\ w_dram_odata' = w_dram_odata
BY Sizes, DramMoves DEF TakesRead, TakesZero, TakesWord, StaysIdle, dramVars, Counts, Answers,
   BootInv, DramOK

-------------------------------------------------------------------------------
LEMMA ZeroStep ==
  ASSUME BootInv, NEW go \in BOOLEAN, NEW ready \in BOOLEAN, Clock(go, ready)
  PROVE  ZeroOK' /\ (r_zero_done' <=> r_zero_done \/ r_zeroaddr = BIN_SIZE)
<1> USE Sizes
<1>1. ZeroOK /\ ZeroFill
  BY DEF BootInv, Clock
<1>2. /\ busy \in 0 .. MinBusy /\ (busy = 0 => busy' \in {0, 1}) /\ (busy = 1 => busy' = 2)
  BY BusyStep
<1>3. (r_zero_done' <=> r_zero_done \/ r_zeroaddr = BIN_SIZE) /\ r_zero_done' \in BOOLEAN
  <2>1. r_zero_done' = (r_zero_done \/ r_zeroaddr >= BIN_SIZE)
    BY <1>1 DEF ZeroFill
  <2>2. r_zeroaddr >= BIN_SIZE <=> r_zeroaddr = BIN_SIZE
    BY <1>1 DEF ZeroOK
  <2> QED  BY <2>1, <2>2, Zenon
<1>4. CASE busy = 0 /\ ~ r_zero_done
  <2>1. r_zero_we' /\ r_zero_we' \in BOOLEAN /\ r_zeroaddr' = r_zeroaddr
    <3>1. ~ w_dram_busy
      BY <1>4 DEF w_dram_busy
    <3> QED  BY <1>1, <1>4, <3>1 DEF ZeroFill
  <2>2. r_zeroaddr < BIN_SIZE /\ r_zeroaddr \in 0 .. BIN_SIZE
    BY <1>1, <1>4 DEF ZeroOK
  <2> QED  BY <1>2, <1>3, <1>4, <2>1, <2>2 DEF ZeroOK
<1>5. CASE busy > 0 /\ r_zero_we
  <2>1. ~ r_zero_we' /\ r_zero_we' \in BOOLEAN /\ r_zeroaddr' = r_zeroaddr + 1
    BY <1>1, <1>5 DEF ZeroFill, w_dram_busy
  <2>2. r_zeroaddr < BIN_SIZE /\ r_zeroaddr \in 0 .. BIN_SIZE /\ ~ r_zero_done /\ busy = 1
    BY <1>1, <1>5 DEF ZeroOK
  <2> QED  BY <1>2, <1>3, <2>1, <2>2 DEF ZeroOK
<1>6. CASE ~ (busy = 0 /\ ~ r_zero_done) /\ ~ (busy > 0 /\ r_zero_we)
  <2>1. (r_zero_we' <=> r_zero_we) /\ r_zero_we' \in BOOLEAN /\ r_zeroaddr' = r_zeroaddr
    BY <1>1, <1>2, <1>6 DEF ZeroFill, w_dram_busy, ZeroOK
  <2>2. ~ r_zero_we
    BY <1>1, <1>2, <1>6 DEF ZeroOK
  <2> QED  BY <1>1, <1>3, <2>1, <2>2 DEF ZeroOK
<1> QED  BY <1>4, <1>5, <1>6

LEMMA OrderStep ==
  ASSUME BootInv, NEW go \in BOOLEAN, NEW ready \in BOOLEAN, Clock(go, ready)
  PROVE  OrderOK'
<1> USE Sizes
<1>1. OrderOK /\ CopyOK /\ BackOK /\ SendOK /\ ZeroOK /\ InitState /\ SdCopy /\ ReadBack
  BY DEF BootInv, Clock
<1>2. r_init_state' \in {1, 3, 4, 5, 6}
  BY <1>1 DEF OrderOK, InitState
<1>3. r_init_state' = 1 => Paused' /\ fptr' = 0
  <2> SUFFICES ASSUME r_init_state' = 1 PROVE Paused' /\ fptr' = 0
    OBVIOUS
  <2>1. r_init_state = 1 /\ Paused /\ fptr = 0
    BY <1>1, ClearFirst DEF OrderOK
  <2>2. ~ OfFile
    BY <2>1 DEF Paused, OfFile
  <2> QED  BY <2>1, <2>2, PausedStep, FptrStep
<1>4. r_init_state' # 1 => r_zero_done'
  BY <1>1, ZeroStep DEF OrderOK, InitState
<1>5. (r_bblsd_done' <=> r_bblsd_done \/ r_initaddr3 >= BIN_SIZE) /\ r_initaddr3 \in 0 .. BIN_SIZE
  BY <1>1 DEF SdCopy, CopyOK
<1>6. r_bblsd_done' => r_initaddr3' = BIN_SIZE
  <2> SUFFICES ASSUME r_bblsd_done' PROVE r_initaddr3' = BIN_SIZE
    OBVIOUS
  <2>1. r_initaddr3 = BIN_SIZE
    BY <1>1, <1>5 DEF OrderOK
  <2>2. r_sd_state # 1
    BY <2>1, CopyWord DEF Image
  <2> QED  BY <1>1, <2>1, <2>2 DEF SdCopy, CopyTakes, CopyWrites, CopyEnds
<1>7. r_init_state' \in {4, 5, 6} => r_bblsd_done'
  BY <1>1, <1>5 DEF OrderOK, InitState
<1>8. /\ r_mem_rb_done' => r_initaddr6' = BIN_SIZE
      /\ r_mem_rb_done => r_mem_rb_done'
  <2>1. CASE BackNext
    BY <1>1, <2>1 DEF BackNext, BackOK, OrderOK
  <2>2. CASE BackAsks
    BY <1>1, <2>2 DEF BackAsks, BackOK, OrderOK
  <2>3. CASE BackOff \/ BackIdle \/ BackTaken \/ BackSums
    BY <1>1, <2>3 DEF BackOff, BackIdle, BackTaken, BackSums, OrderOK
  <2> QED  BY <1>1, <2>1, <2>2, <2>3 DEF ReadBack
<1>9. r_init_state' = 5 => r_mem_rb_done'
  BY <1>1, <1>8 DEF OrderOK, InitState
<1> QED  BY <1>2, <1>3, <1>4, <1>6, <1>7, <1>8, <1>9 DEF OrderOK

LEMMA CopyStep ==
  ASSUME BootInv, NEW go \in BOOLEAN, NEW ready \in BOOLEAN, Clock(go, ready)
  PROVE  CopyOK' /\ CopySumOK'
<1> USE Sizes
<1>1. CopyOK /\ CopySumOK /\ SendOK /\ SendWord /\ SdCopy /\ InitState /\ OrderOK
  BY DEF BootInv, Clock
<1>2. /\ r_bblsd_done' \in BOOLEAN /\ card' = card
      /\ (\A a : FileWord(a)' = FileWord(a)) /\ Summed' = Summed
  BY <1>1, FptrStep, SummedKept DEF SdCopy
<1>3. /\ busy \in 0 .. MinBusy /\ (busy = 0 => busy' \in {0, 1}) /\ (busy = 1 => busy' = 2)
  BY BusyStep
<1>4. /\ ostate \in {0, 20, 21, 22, 23} /\ (WE <=> ostate = 21)
      /\ senti \in 0 .. BIN_SIZE /\ r_sd_state \in 0..2 /\ r_sd_init_data \in Nat
      /\ (ostate \in {0, 20, 23} => r_sd_state = 0) /\ (ostate = 21 => r_sd_state \in {0, 1})
      /\ r_initaddr3 = senti - (IF ostate = 21 \/ r_sd_state = 1 THEN 1 ELSE 0)
      /\ r_initaddr3 \in 0 .. BIN_SIZE
      /\ r_sd_init_we \in BOOLEAN /\ (r_sd_init_we <=> r_sd_state = 1)
      /\ (r_sd_state = 1 => busy \in {0, 1} /\ r_sd_init_data = FileWord(r_initaddr3))
      /\ r_sd_checksum \in Nat /\ r_sd_checksum = Summed[r_initaddr3 + Taking]
  BY <1>1 DEF SendOK, CopyOK, CopySumOK
<1>5. CASE r_sd_state = 0 /\ WE /\ busy = 0
  <2>1. /\ r_sd_state' = 1 /\ r_sd_init_we' /\ r_sd_init_we' \in BOOLEAN
        /\ r_sd_init_data' = DATA /\ r_sd_checksum' = r_sd_checksum + DATA
        /\ r_initaddr3' = r_initaddr3
    BY <1>1, <1>5 DEF SdCopy, CopyTakes, CopyWrites, CopyEnds, w_dram_busy
  <2>2. /\ ostate = 21 /\ r_initaddr3 = senti - 1 /\ r_initaddr3 \in Image
        /\ DATA = FileWord(r_initaddr3) /\ DATA \in Nat /\ r_init_state = 3
    BY <1>5, Offered
  <2>3. ostate' = 21 /\ senti' = senti
    BY <1>1, <1>5, <2>2 DEF SendWord, SendBegins, SendOffers, SendTaken, SendWritten, SendEnds
  <2>4. r_init_state' = 3
    BY <1>1, <2>2 DEF InitState, OrderOK, Image
  <2>5. r_sd_init_data' = FileWord(r_initaddr3)'
    <3>1. FileWord(r_initaddr3)' = FileWord(r_initaddr3)
      BY <1>2, <2>1 DEF FileWord
    <3> QED  BY <2>1, <2>2, <3>1
  <2>6. CopyOK'
    BY <1>2, <1>3, <1>4, <1>5, <2>1, <2>2, <2>3, <2>4, <2>5 DEF CopyOK
  <2>7. CopySumOK'
    <3>1. Taking = 0 /\ Taking' = 1 /\ r_initaddr3 \in Nat
      BY <1>4, <1>5, <2>1 DEF Taking
    <3>2. Summed[r_initaddr3 + 1] = r_sd_checksum + FileWord(r_initaddr3)
      BY <1>4, <3>1, SummedFacts
    <3> QED  BY <1>2, <1>4, <2>1, <2>2, <3>1, <3>2 DEF CopySumOK
  <2> QED  BY <2>6, <2>7
<1>6. CASE r_sd_state = 1 /\ busy > 0
  <2>1. /\ r_sd_state' = 2 /\ ~ r_sd_init_we' /\ r_sd_init_we' \in BOOLEAN
        /\ r_sd_init_data' = r_sd_init_data /\ r_sd_checksum' = r_sd_checksum
        /\ r_initaddr3' = r_initaddr3 + 1
    <3>1. CopyWrites /\ w_dram_busy
      BY <1>1, <1>6 DEF SdCopy, CopyTakes, CopyEnds, w_dram_busy
    <3> QED  BY <3>1 DEF CopyWrites
  <2>2. r_initaddr3 \in Image /\ r_initaddr3 = senti - 1 /\ ostate \in {21, 22}
    BY <1>6, CopyWord
  <2>3. ostate' = 22 /\ senti' = senti
    BY <1>1, <1>6, <2>2 DEF SendWord, SendBegins, SendOffers, SendTaken, SendWritten, SendEnds
  <2>4. r_initaddr3' \in 0 .. BIN_SIZE /\ r_initaddr3' = senti'
    BY <1>4, <2>1, <2>2, <2>3 DEF Image
  <2>5. CopyOK'
    BY <1>2, <1>4, <2>1, <2>3, <2>4 DEF CopyOK
  <2>6. CopySumOK'
    <3>1. Taking = 1 /\ Taking' = 0
      BY <1>6, <2>1 DEF Taking
    <3>2. r_initaddr3' + Taking' = r_initaddr3 + Taking
      BY <1>4, <2>1, <3>1
    <3> QED  BY <1>2, <1>4, <2>1, <3>2 DEF CopySumOK
  <2> QED  BY <2>5, <2>6
<1>7. CASE ~ (r_sd_state = 0 /\ WE /\ busy = 0) /\ ~ (r_sd_state = 1 /\ busy > 0)
  <2>1. /\ r_sd_init_data' = r_sd_init_data /\ r_sd_checksum' = r_sd_checksum
        /\ r_initaddr3' = r_initaddr3
        /\ (r_sd_init_we' <=> r_sd_init_we) /\ r_sd_init_we' \in BOOLEAN
        /\ r_sd_state' \in {0, 1, 2}
        /\ (r_sd_state' = 1 <=> r_sd_state = 1) /\ (r_sd_state = 0 => r_sd_state' = 0)
    BY <1>1, <1>3, <1>4, <1>7 DEF SdCopy, CopyTakes, CopyWrites, CopyEnds, w_dram_busy
  <2>2. CopySumOK'
    <3>1. Taking' = Taking
      BY <2>1 DEF Taking
    <3> QED  BY <1>2, <1>4, <2>1, <3>1 DEF CopySumOK
  <2>3. r_sd_state' = 1 => r_init_state' = 3 /\ busy' \in {0, 1}
    <3> SUFFICES ASSUME r_sd_state = 1 PROVE r_init_state' = 3 /\ busy' \in {0, 1}
      BY <2>1
    <3>1. r_init_state = 3 /\ r_initaddr3 \in Image
      BY CopyWord
    <3>2. busy = 0
      BY <1>3, <1>7
    <3> QED  BY <1>1, <1>3, <3>1, <3>2 DEF InitState, OrderOK, Image
  <2>4. r_sd_state' = 1 => r_sd_init_data' = FileWord(r_initaddr3)'
    <3>1. FileWord(r_initaddr3)' = FileWord(r_initaddr3)
      BY <1>2, <2>1 DEF FileWord
    <3> QED  BY <1>4, <2>1, <3>1
  <2>5. /\ ostate' \in {0, 20, 23} => r_sd_state' = 0
        /\ ostate' = 21 => r_sd_state' \in {0, 1}
        /\ r_initaddr3' = senti' - (IF ostate' = 21 \/ r_sd_state' = 1 THEN 1 ELSE 0)
    <3>1. CASE SendBegins
      BY <1>4, <2>1, <3>1 DEF SendBegins
    <3>2. CASE SendOffers
      BY <1>4, <2>1, <3>2 DEF SendOffers
    <3>3. CASE SendTaken
      <4>1. ostate = 21 /\ senti' = senti /\ ostate' = IF r_sd_state # 0 THEN 22 ELSE ostate
        BY <3>3 DEF SendTaken
      <4>2. r_sd_state' = r_sd_state
        BY <1>4, <2>1, <4>1
      <4> QED  BY <1>4, <2>1, <4>1, <4>2
    <3>4. CASE SendWritten
      BY <1>4, <2>1, <3>4 DEF SendWritten
    <3>5. CASE SendEnds
      BY <1>4, <2>1, <3>5 DEF SendEnds
    <3> QED  BY <1>1, <3>1, <3>2, <3>3, <3>4, <3>5 DEF SendWord
  <2>6. CopyOK'
    <3>1. r_sd_init_data' \in Nat /\ r_initaddr3' \in 0 .. BIN_SIZE /\ r_sd_state' \in 0..2
          /\ (r_sd_init_we' <=> r_sd_state' = 1)
      BY <1>4, <2>1
    <3> QED  BY <1>2, <2>1, <2>3, <2>4, <2>5, <3>1 DEF CopyOK
  <2> QED  BY <2>2, <2>6
<1> QED  BY <1>5, <1>6, <1>7

(* The copier's address moves when the word it writes has been taken.      *)
LEMMA AddressStep ==
  ASSUME BootInv, NEW go \in BOOLEAN, NEW ready \in BOOLEAN, Clock(go, ready)
  PROVE  /\ r_initaddr3 \in 0 .. BIN_SIZE
         /\ r_initaddr3' = IF r_sd_state = 1 /\ busy > 0 THEN r_initaddr3 + 1 ELSE r_initaddr3
         /\ r_sd_state = 1 /\ busy > 0 => r_sd_state' = 2
         /\ r_sd_state = 1 /\ ~ (busy > 0) => r_sd_state' = 1
         /\ r_sd_state' = 1 => r_sd_state = 1 \/ (WE /\ ~ (busy > 0))
<1>1. SdCopy /\ r_sd_state \in 0..2 /\ r_initaddr3 \in 0 .. BIN_SIZE
  BY DEF BootInv, CopyOK, Clock
<1>2. CASE r_sd_state = 0
  BY <1>1, <1>2 DEF SdCopy, CopyTakes, CopyWrites, CopyEnds, w_dram_busy
<1>3. CASE r_sd_state = 1
  BY <1>1, <1>3 DEF SdCopy, CopyTakes, CopyWrites, CopyEnds, w_dram_busy
<1>4. CASE r_sd_state = 2
  BY <1>1, <1>4 DEF SdCopy, CopyTakes, CopyWrites, CopyEnds, w_dram_busy
<1> QED  BY <1>1, <1>2, <1>3, <1>4

LEMMA ImageStep ==
  ASSUME BootInv, NEW go \in BOOLEAN, NEW ready \in BOOLEAN, Clock(go, ready)
  PROVE  ImageSoFar'
<1> USE Sizes
<1> SUFFICES ASSUME r_init_state' # 1, NEW a \in Image
             PROVE  mem'[a] = IF a < r_initaddr3' + (IF busy' = 1 THEN Taking' ELSE 0)
                              THEN FileWord(a)' ELSE 0
  BY DEF ImageSoFar, Image
<1>1. /\ r_initaddr3 \in 0 .. BIN_SIZE
      /\ r_initaddr3' = IF r_sd_state = 1 /\ busy > 0 THEN r_initaddr3 + 1 ELSE r_initaddr3
      /\ r_sd_state = 1 /\ busy > 0 => r_sd_state' = 2
      /\ r_sd_state = 1 /\ ~ (busy > 0) => r_sd_state' = 1
      /\ r_sd_state' = 1 => r_sd_state = 1 \/ (WE /\ ~ (busy > 0))
  BY AddressStep
<1>2. /\ busy \in 0 .. MinBusy /\ (busy = 0 => busy' \in {0, 1})
      /\ (busy = 1 => busy' = 2 /\ mem' = mem)
  BY BusyStep
<1>3. FileWord(a)' = FileWord(a)
  BY FptrStep, SummedKept
<1>4. a \in 0 .. BIN_SIZE /\ a < BIN_SIZE /\ a >= 0
  BY DEF Image
<1>5. mem \in [0 .. BIN_SIZE -> Int]
  BY DEF BootInv, DramOK
<1>6. CASE r_init_state = 1
  <2>1. mem[a] = 0
    <3>1. Next
      BY DEF Next
    <3>2. \A x \in Image : mem[x] = 0
      BY <1>6, <3>1, ClearDone DEF BootInv
    <3> QED  BY <3>2
  <2>2. r_zero_done
    BY <1>6 DEF Clock, InitState
  <2>3. ~ r_zero_we
    BY <2>2 DEF BootInv, ZeroOK
  <2>4. mem' = mem
    BY <1>6, <2>3, DramMoves
       DEF TakesRead, TakesZero, TakesWord, StaysIdle, dramVars, Counts, Answers
  <2>5. Paused /\ fptr = 0
    BY <1>6 DEF BootInv, OrderOK
  <2>6. r_initaddr3 = 0 /\ r_sd_state = 0 /\ ~ WE
    <3>1. /\ Words = senti + (IF send /\ ostate \in {0, 20} THEN 1 ELSE 0)
          /\ r_initaddr3 = senti - (IF ostate = 21 \/ r_sd_state = 1 THEN 1 ELSE 0)
          /\ senti \in 0 .. BIN_SIZE
      BY DEF BootInv, SendOK, CopyOK
    <3>2. Words = 0 /\ ostate = 0 /\ r_sd_state = 0 /\ ~ send /\ ~ WE
      BY <2>5 DEF Words, Paused
    <3> QED  BY <3>1, <3>2
  <2>7. r_initaddr3' = 0 /\ r_sd_state' # 1
    BY <1>1, <2>6
  <2> QED  BY <1>4, <2>1, <2>4, <2>7 DEF Taking
<1>7. CASE r_init_state # 1
  <2>1. mem[a] = IF a < r_initaddr3 + (IF busy = 1 THEN Taking ELSE 0) THEN FileWord(a) ELSE 0
    BY <1>7 DEF BootInv, ImageSoFar
  <2>2. CASE TakesWord
    <3>1. /\ busy = 0 /\ busy' = 1 /\ r_sd_state = 1
          /\ mem' = [mem EXCEPT ![r_initaddr3] = FileWord(r_initaddr3)]
      BY <2>2 DEF TakesWord
    <3>2. r_sd_state' = 1 /\ r_initaddr3' = r_initaddr3 /\ Taking' = 1
      BY <1>1, <3>1 DEF Taking
    <3>3. CASE a = r_initaddr3
      <4>1. mem'[a] = FileWord(a)
        BY <1>4, <1>5, <3>1, <3>3
      <4>2. a < r_initaddr3' + (IF busy' = 1 THEN Taking' ELSE 0)
        BY <1>1, <3>1, <3>2, <3>3
      <4> QED  BY <1>3, <4>1, <4>2
    <3>4. CASE a # r_initaddr3
      <4>1. mem'[a] = mem[a]
        BY <1>4, <1>5, <3>1, <3>4
      <4>2. a < r_initaddr3' + (IF busy' = 1 THEN Taking' ELSE 0)
              <=> a < r_initaddr3 + (IF busy = 1 THEN Taking ELSE 0)
        BY <1>1, <1>4, <3>1, <3>2, <3>4
      <4> QED  BY <1>3, <2>1, <4>1, <4>2
    <3> QED  BY <3>3, <3>4
  <2>3. CASE ~ TakesWord
    <3>1. mem' = mem /\ (busy' = 1 => (busy = 0 /\ (r_init_state = 6 \/ TakesZero)) \/ busy = MinBusy)
      BY <1>2, <1>7, <2>3, DramMoves
         DEF TakesRead, TakesZero, StaysIdle, dramVars, Counts, Answers
    <3>2. r_sd_state = 1 => r_init_state = 3 /\ busy \in {0, 1}
      BY DEF BootInv, CopyOK
    <3>3. WE => r_init_state = 3
      BY Offered
    <3>4. busy' = 1 => Taking' = 0
      <4> SUFFICES ASSUME busy' = 1, r_sd_state' = 1 PROVE FALSE
        BY DEF Taking
      <4>1. busy \in {0, 1} /\ r_init_state = 3
        BY <1>1, <1>2, <3>2, <3>3
      <4>2. ~ TakesZero
        BY <4>1 DEF TakesZero
      <4> QED  BY <1>2, <3>1, <4>1, <4>2
    <3>5. r_initaddr3' + (IF busy' = 1 THEN Taking' ELSE 0)
            = r_initaddr3 + (IF busy = 1 THEN Taking ELSE 0)
      <4>1. r_initaddr3' + (IF busy' = 1 THEN Taking' ELSE 0) = r_initaddr3'
        BY <1>1, <3>4
      <4>2. CASE r_sd_state = 1 /\ busy > 0
        BY <1>1, <1>2, <3>2, <4>1, <4>2 DEF Taking
      <4>3. CASE r_sd_state = 1 /\ ~ (busy > 0)
        BY <1>1, <1>2, <4>1, <4>3 DEF Taking
      <4>4. CASE r_sd_state # 1
        BY <1>1, <4>1, <4>4 DEF Taking
      <4> QED  BY <4>2, <4>3, <4>4
    <3> QED  BY <1>3, <2>1, <3>1, <3>5
  <2> QED  BY <2>2, <2>3
<1> QED  BY <1>6, <1>7

-------------------------------------------------------------------------------
(* When the copy has ended the DRAM holds the image of a whole file.       *)
LEMMA WholeImage ==
  ASSUME BootInv, r_init_state \in {4, 5, 6}
  PROVE  /\ r_initaddr3 = BIN_SIZE /\ Taking = 0 /\ FileWhole
         /\ \A a \in Image : mem[a] = FileWord(a) /\ FileWord(a) \in Nat
<1> USE Sizes
<1>1. r_initaddr3 = BIN_SIZE
  BY DEF BootInv, OrderOK
<1>2. Taking = 0
  BY DEF BootInv, CopyOK, Taking
<1>3. Words \in Nat /\ BIN_SIZE <= Words
  <2>1. /\ r_initaddr3 = senti - (IF ostate = 21 \/ r_sd_state = 1 THEN 1 ELSE 0)
        /\ Words = senti + (IF send /\ ostate \in {0, 20} THEN 1 ELSE 0)
        /\ senti \in 0 .. BIN_SIZE
    BY DEF BootInv, CopyOK, SendOK
  <2> QED  BY <1>1, <2>1
<1>4. \A a \in Image : a \in Nat /\ a < Words /\ a < BIN_SIZE
  BY <1>3 DEF Image
<1>5. \A a \in Image : 4 * a + 4 <= Len(card.file) /\ FileWord(a) \in Nat
  BY <1>4, WordsInFile
<1>6. \A a \in Image : mem[a] = FileWord(a)
  BY <1>1, <1>2, <1>4 DEF BootInv, ImageSoFar
<1>7. FileWhole
  <2>1. BIN_SIZE - 1 \in Image /\ 4 * (BIN_SIZE - 1) + 4 = 4 * BIN_SIZE
    BY DEF Image
  <2>2. Len(card.file) \in Nat
    BY CardFacts DEF BootInv, WalkOK
  <2> QED  BY <1>5, <2>1, <2>2 DEF FileWhole
<1> QED  BY <1>1, <1>2, <1>5, <1>6, <1>7

(* The read-back.  While it runs nobody else asks the DRAM for anything.   *)
LEMMA BackDram ==
  ASSUME BootInv, NEW go \in BOOLEAN, NEW ready \in BOOLEAN, Clock(go, ready),
         r_init_state \in {5, 6}
  PROVE  /\ mem' = mem
         /\ r_rb_state # 7 /\ busy = 0 => busy' = 0 /\ w_dram_odata' = w_dram_odata
         /\ r_rb_state = 7 /\ busy = 0 => busy' \in {0, 1}
         /\ r_rb_state = 7 /\ busy = 0 /\ busy' = 1 => reading' /\ daddr' = r_initaddr6
         /\ busy > 0 /\ busy < MinBusy => busy' = busy + 1
         /\ busy > 0 => reading' = reading /\ daddr' = daddr
         /\ busy = MinBusy => busy' = busy \/ busy' = 0
         /\ busy = MinBusy /\ busy' = 0 /\ reading => w_dram_odata' = mem[daddr]
<1> USE Sizes
<1>1. busy \in 0 .. MinBusy
  BY DEF BootInv, DramOK
<1>2. TakesRead \/ StaysIdle \/ Counts \/ Answers
  BY DramMoves DEF TakesZero, TakesWord
<1>3. CASE TakesRead
  BY <1>1, <1>3 DEF TakesRead
<1>4. CASE StaysIdle
  BY <1>1, <1>4 DEF StaysIdle, dramVars
<1>5. CASE Counts
  BY <1>1, <1>5 DEF Counts
<1>6. CASE Answers
  BY <1>1, <1>6 DEF Answers
<1> QED  BY <1>2, <1>3, <1>4, <1>5, <1>6

LEMMA BackStep ==
  ASSUME BootInv, NEW go \in BOOLEAN, NEW ready \in BOOLEAN, Clock(go, ready)
  PROVE  BackOK'
<1> USE Sizes
<1>1. BackOK /\ OrderOK /\ InitState /\ ReadBack
  BY DEF BootInv, Clock
<1>2. /\ r_init_state \in {1, 3, 4, 5, 6} /\ r_init_state' \in {1, 3, 4, 5, 6}
      /\ r_rb_state \in {0, 1, 2, 7, 20} /\ r_rb_delay \in 0..1 /\ r_set_dram_le \in BOOLEAN
      /\ r_mem_rb_done \in BOOLEAN /\ r_initaddr6 \in 0 .. BIN_SIZE
      /\ (r_set_dram_le <=> r_rb_state = 7)
      /\ (r_init_state = 5 \/ r_mem_rb_done => r_rb_state = 0)
      /\ (r_init_state = 5 => r_init_state' = 5)
      /\ (r_init_state = 6 => r_init_state' = IF r_mem_rb_done THEN 5 ELSE 6)
      /\ (r_init_state \notin {5, 6} => r_init_state' # 5)
      /\ busy \in 0 .. MinBusy
  BY <1>1 DEF OrderOK, BackOK, InitState, BootInv, DramOK
<1>3. CASE r_init_state \notin {5, 6}
  <2>1. r_rb_state = 0 /\ r_initaddr6 = 0 /\ ~ r_mem_rb_done
    BY <1>1, <1>3 DEF BackOK
  <2>2. /\ r_rb_state' = 0 /\ ~ r_set_dram_le' /\ r_set_dram_le' \in BOOLEAN
        /\ r_rb_delay' = r_rb_delay /\ r_initaddr6' = 0
        /\ r_mem_rb_done' = r_mem_rb_done
    BY <1>1, <1>3, <2>1
       DEF ReadBack, BackOff, BackIdle, BackAsks, BackTaken, BackSums, BackNext
  <2>3. ~ r_mem_rb_done' /\ r_mem_rb_done' \in BOOLEAN
    BY <1>2, <2>1, <2>2
  <2> QED  BY <1>2, <1>3, <2>2, <2>3 DEF BackOK
<1>4. CASE r_init_state \in {5, 6}
  <2>1. r_init_state' \in {5, 6}
    BY <1>2, <1>4
  <2>2. /\ mem' = mem
        /\ r_rb_state # 7 /\ busy = 0 => busy' = 0 /\ w_dram_odata' = w_dram_odata
        /\ r_rb_state = 7 /\ busy = 0 => busy' \in {0, 1}
        /\ r_rb_state = 7 /\ busy = 0 /\ busy' = 1 => reading' /\ daddr' = r_initaddr6
        /\ busy > 0 /\ busy < MinBusy => busy' = busy + 1
        /\ busy > 0 => reading' = reading /\ daddr' = daddr
        /\ busy = MinBusy => busy' = busy \/ busy' = 0
        /\ busy = MinBusy /\ busy' = 0 /\ reading => w_dram_odata' = mem[daddr]
    BY <1>4, BackDram
  <2>3. /\ r_rb_state \in {2, 7, 20} => r_initaddr6 < BIN_SIZE
        /\ r_rb_state = 7 => busy \in {0, 1}
        /\ r_rb_state \in {2, 7} /\ busy > 0 => reading /\ daddr = r_initaddr6
        /\ r_rb_state = 20 => busy = 0
        /\ r_rb_state = 20 \/ (r_rb_state = 2 /\ busy = 0) => w_dram_odata = mem[r_initaddr6]
        /\ r_rb_state \in {0, 1} /\ r_initaddr6 > 0 =>
             busy = 0 /\ w_dram_odata = mem[r_initaddr6 - 1]
    BY <1>1 DEF BackOK
  <2>4. r_rb_state \in {0, 1} /\ r_initaddr6 > 0 =>
          busy' = 0 /\ w_dram_odata' = mem'[r_initaddr6 - 1]
    BY <2>2, <2>3
  <2>5. CASE r_init_state = 5 \/ (r_init_state = 6 /\ r_rb_state = 0)
    <3>1. /\ r_rb_state = 0 /\ r_rb_state' \in {0, 1} /\ r_rb_delay' = r_rb_delay
          /\ r_initaddr6' = r_initaddr6 /\ r_mem_rb_done' = r_mem_rb_done
          /\ (r_mem_rb_done \/ r_init_state = 5 => r_rb_state' = 0)
      BY <1>1, <1>2, <2>5
         DEF ReadBack, BackOff, BackIdle, BackAsks, BackTaken, BackSums, BackNext
    <3>2. ~ r_set_dram_le' /\ r_set_dram_le' \in BOOLEAN
      <4>1. r_set_dram_le' = FALSE \/ r_set_dram_le' = r_set_dram_le
        BY <1>1, <1>2, <2>5
           DEF ReadBack, BackOff, BackIdle, BackAsks, BackTaken, BackSums, BackNext
      <4>2. r_set_dram_le = FALSE
        BY <1>2, <3>1
      <4>3. r_set_dram_le' = FALSE
        BY <4>1, <4>2
      <4> QED  BY <4>3
    <3>3. r_init_state' = 5 \/ r_mem_rb_done' => r_rb_state' = 0
      BY <1>2, <1>4, <3>1
    <3>4. r_mem_rb_done' \in BOOLEAN
      BY <1>2, <3>1
    <3> QED  BY <1>2, <2>1, <2>4, <3>1, <3>2, <3>3, <3>4 DEF BackOK
  <2>6. CASE r_init_state = 6 /\ r_rb_state = 1
    <3>1. BackAsks /\ ~ r_mem_rb_done /\ r_init_state' = 6
      BY <1>1, <1>2, <2>6 DEF ReadBack, BackOff, BackIdle, BackTaken, BackSums, BackNext
    <3>2. CASE r_initaddr6 < BIN_SIZE /\ busy > 0
      <4>1. /\ r_rb_state' = 1 /\ (r_set_dram_le' <=> r_set_dram_le) /\ r_set_dram_le' \in BOOLEAN
            /\ (r_mem_rb_done' <=> r_mem_rb_done) /\ r_mem_rb_done' \in BOOLEAN
            /\ r_rb_delay' = r_rb_delay /\ r_initaddr6' = r_initaddr6
        BY <1>2, <2>6, <3>1, <3>2 DEF BackAsks, w_dram_busy
      <4> QED  BY <1>2, <2>4, <2>6, <3>1, <4>1 DEF BackOK
    <3>3. CASE r_initaddr6 < BIN_SIZE /\ ~ (busy > 0)
      <4>1. /\ r_rb_state' = 7 /\ r_set_dram_le' /\ r_set_dram_le' \in BOOLEAN
            /\ (r_mem_rb_done' <=> r_mem_rb_done) /\ r_mem_rb_done' \in BOOLEAN
            /\ r_rb_delay' = r_rb_delay /\ r_initaddr6' = r_initaddr6
        <5>1. /\ r_rb_state' = 7 /\ r_set_dram_le' = TRUE /\ r_mem_rb_done' = r_mem_rb_done
              /\ r_rb_delay' = r_rb_delay /\ r_initaddr6' = r_initaddr6
          BY <1>2, <3>1, <3>3 DEF BackAsks, w_dram_busy
        <5> QED  BY <1>2, <5>1, Zenon
      <4>2. busy' = 0
        BY <1>2, <2>2, <2>6, <3>3
      <4> QED  BY <1>2, <2>6, <3>1, <3>3, <4>1, <4>2 DEF BackOK
    <3>4. CASE ~ (r_initaddr6 < BIN_SIZE)
      <4>1. /\ r_rb_state' = 0 /\ (r_set_dram_le' <=> r_set_dram_le) /\ r_set_dram_le' \in BOOLEAN
            /\ r_mem_rb_done' \in BOOLEAN
            /\ r_rb_delay' = r_rb_delay /\ r_initaddr6' = r_initaddr6
        <5>1. /\ r_rb_state' = 0 /\ r_set_dram_le' = r_set_dram_le /\ r_mem_rb_done' = TRUE
              /\ r_rb_delay' = r_rb_delay /\ r_initaddr6' = r_initaddr6
          BY <1>2, <3>1, <3>4 DEF BackAsks
        <5> QED  BY <1>2, <5>1, Zenon
      <4> QED  BY <1>2, <2>4, <2>6, <3>1, <4>1 DEF BackOK
    <3> QED  BY <3>2, <3>3, <3>4
  <2>7. CASE r_init_state = 6 /\ r_rb_state = 7
    <3>1. BackTaken /\ ~ r_mem_rb_done /\ r_init_state' = 6
      BY <1>1, <1>2, <2>7 DEF ReadBack, BackOff, BackIdle, BackAsks, BackSums, BackNext
    <3>2. /\ r_rb_delay' = r_rb_delay /\ r_initaddr6' = r_initaddr6
          /\ (r_mem_rb_done' <=> r_mem_rb_done) /\ r_mem_rb_done' \in BOOLEAN
      BY <1>2, <3>1 DEF BackTaken
    <3>3. CASE busy > 0
      <4>1. r_rb_state' = 2 /\ ~ r_set_dram_le' /\ r_set_dram_le' \in BOOLEAN
        BY <3>1, <3>3 DEF BackTaken, w_dram_busy
      <4>2. busy = 1 /\ busy' = 2 /\ reading' /\ daddr' = r_initaddr6
        BY <1>2, <2>2, <2>3, <2>7, <3>3
      <4> QED  BY <1>2, <2>3, <2>7, <3>1, <3>2, <4>1, <4>2 DEF BackOK
    <3>4. CASE ~ (busy > 0)
      <4>1. r_rb_state' = 7 /\ (r_set_dram_le' <=> r_set_dram_le) /\ r_set_dram_le' \in BOOLEAN
        BY <1>2, <2>7, <3>1, <3>4 DEF BackTaken, w_dram_busy
      <4>2. busy' \in {0, 1} /\ (busy' = 1 => reading' /\ daddr' = r_initaddr6)
        BY <1>2, <2>2, <2>7, <3>4
      <4> QED  BY <1>2, <2>3, <2>7, <3>1, <3>2, <4>1, <4>2 DEF BackOK
    <3> QED  BY <3>3, <3>4
  <2>8. CASE r_init_state = 6 /\ r_rb_state = 2
    <3>1. BackSums /\ ~ r_mem_rb_done /\ r_init_state' = 6
      BY <1>1, <1>2, <2>8 DEF ReadBack, BackOff, BackIdle, BackAsks, BackTaken, BackNext
    <3>2. /\ r_initaddr6' = r_initaddr6 /\ ~ r_set_dram_le' /\ r_set_dram_le' \in BOOLEAN
          /\ (r_mem_rb_done' <=> r_mem_rb_done) /\ r_mem_rb_done' \in BOOLEAN
      BY <1>2, <3>1 DEF BackSums
    <3>3. CASE busy > 0
      <4>1. r_rb_state' = 2 /\ r_rb_delay' = r_rb_delay
        BY <2>8, <3>1, <3>3 DEF BackSums, w_dram_busy
      <4>2. reading /\ daddr = r_initaddr6
        BY <2>3, <2>8, <3>3
      <4>3. busy' > 0 => reading' /\ daddr' = r_initaddr6
        BY <2>2, <3>3, <4>2
      <4>4. busy' = 0 => w_dram_odata' = mem'[r_initaddr6]
        BY <1>2, <2>2, <3>3, <4>2
      <4> QED  BY <1>2, <2>3, <2>8, <3>1, <3>2, <4>1, <4>3, <4>4 DEF BackOK
    <3>4. CASE ~ (busy > 0)
      <4>1. r_rb_state' = 20 /\ r_rb_delay' = 0
        BY <3>1, <3>4 DEF BackSums, w_dram_busy
      <4>2. busy' = 0 /\ w_dram_odata' = mem'[r_initaddr6]
        BY <1>2, <2>2, <2>3, <2>8, <3>4
      <4> QED  BY <1>2, <2>3, <2>8, <3>1, <3>2, <4>1, <4>2 DEF BackOK
    <3> QED  BY <3>3, <3>4
  <2>9. CASE r_init_state = 6 /\ r_rb_state = 20
    <3>1. BackNext /\ ~ r_mem_rb_done /\ r_init_state' = 6
      BY <1>1, <1>2, <2>9 DEF ReadBack, BackOff, BackIdle, BackAsks, BackTaken, BackSums
    <3>2. /\ (r_set_dram_le' <=> r_set_dram_le) /\ r_set_dram_le' \in BOOLEAN
          /\ (r_mem_rb_done' <=> r_mem_rb_done) /\ r_mem_rb_done' \in BOOLEAN
      BY <1>2, <3>1 DEF BackNext
    <3>3. busy' = 0 /\ w_dram_odata' = mem'[r_initaddr6]
      BY <2>2, <2>3, <2>9
    <3>4. CASE r_rb_delay < 1
      <4>1. r_rb_state' = 20 /\ r_rb_delay' \in 0..1 /\ r_initaddr6' = r_initaddr6
        BY <1>2, <2>9, <3>1, <3>4 DEF BackNext
      <4> QED  BY <1>2, <2>3, <2>9, <3>1, <3>2, <3>3, <4>1 DEF BackOK
    <3>5. CASE ~ (r_rb_delay < 1)
      <4>1. r_rb_state' = 0 /\ r_rb_delay' = 0 /\ r_initaddr6' = r_initaddr6 + 1
        BY <3>1, <3>5 DEF BackNext
      <4>2. r_initaddr6' \in 0 .. BIN_SIZE /\ r_initaddr6' - 1 = r_initaddr6
        BY <1>2, <2>3, <2>9, <4>1
      <4> QED  BY <1>2, <2>9, <3>1, <3>2, <3>3, <4>1, <4>2 DEF BackOK
    <3> QED  BY <3>4, <3>5
  <2> QED  BY <1>2, <1>4, <2>5, <2>6, <2>7, <2>8, <2>9
<1> QED  BY <1>3, <1>4

(* Every word the read-back adds is the file's.                            *)
LEMMA BackSumStep ==
  ASSUME BootInv, NEW go \in BOOLEAN, NEW ready \in BOOLEAN, Clock(go, ready)
  PROVE  BackSumOK'
<1> USE Sizes
<1> DEFINE counted == r_initaddr6 + (IF r_rb_state = 20 THEN 1 ELSE 0)
<1>1. /\ BackOK /\ BackSumOK /\ ReadBack /\ r_rb_state \in {0, 1, 2, 7, 20}
      /\ r_initaddr6 \in 0 .. BIN_SIZE /\ Summed' = Summed
      /\ r_verify_checksum \in Nat /\ r_verify_checksum = Summed[counted]
  BY FptrStep, SummedKept DEF BootInv, Clock, BackOK, BackSumOK
<1>2. CASE r_init_state = 6 /\ r_rb_state = 2 /\ ~ (busy > 0)
  <2>1. /\ r_verify_checksum' = r_verify_checksum + w_dram_odata
        /\ r_rb_state' = 20 /\ r_initaddr6' = r_initaddr6
    BY <1>1, <1>2
       DEF ReadBack, BackOff, BackIdle, BackAsks, BackTaken, BackSums, BackNext, w_dram_busy
  <2>2. /\ r_initaddr6 \in Image /\ r_initaddr6 \in Nat /\ w_dram_odata = mem[r_initaddr6]
        /\ busy = 0
    BY <1>1, <1>2 DEF BackOK, Image, BootInv, DramOK
  <2>3. w_dram_odata = FileWord(r_initaddr6) /\ w_dram_odata \in Nat
    BY <1>2, <2>2, WholeImage
  <2>4. Summed[r_initaddr6 + 1] = r_verify_checksum + w_dram_odata
    BY <1>1, <1>2, <2>2, <2>3, SummedFacts
  <2> QED  BY <1>1, <2>1, <2>3, <2>4 DEF BackSumOK
<1>3. CASE ~ (r_init_state = 6 /\ r_rb_state = 2 /\ ~ (busy > 0))
  <2>1. r_verify_checksum' = r_verify_checksum
    BY <1>1, <1>3
       DEF ReadBack, BackOff, BackIdle, BackAsks, BackTaken, BackSums, BackNext, w_dram_busy
  <2>2. counted' = counted
    <3>1. CASE r_init_state = 6 /\ r_rb_state = 20
      BY <1>1, <3>1
         DEF BackOK, ReadBack, BackOff, BackIdle, BackAsks, BackTaken, BackSums, BackNext
    <3>2. CASE r_init_state = 6 /\ r_rb_state = 2
      BY <1>1, <1>3, <3>2
         DEF ReadBack, BackOff, BackIdle, BackAsks, BackTaken, BackSums, BackNext, w_dram_busy
    <3>3. CASE r_init_state = 6 /\ r_rb_state \in {0, 1, 7}
      BY <1>1, <3>3
         DEF ReadBack, BackOff, BackIdle, BackAsks, BackTaken, BackSums, BackNext
    <3>4. CASE r_init_state # 6
      <4>1. r_rb_state = 0
        BY <1>1, <3>4 DEF BackOK
      <4> QED  BY <1>1, <3>4, <4>1
           DEF ReadBack, BackOff, BackIdle, BackAsks, BackTaken, BackSums, BackNext
    <3> QED  BY <1>1, <3>1, <3>2, <3>3, <3>4
  <2> QED  BY <1>1, <2>1, <2>2 DEF BackSumOK
<1> QED  BY <1>2, <1>3

-------------------------------------------------------------------------------
LEMMA BootInvStep == BootInv /\ [Next]_vars => BootInv'
<1> SUFFICES ASSUME BootInv, [Next]_vars PROVE BootInv'
  OBVIOUS
<1>1. CASE Next
  <2>1. PICK go \in BOOLEAN, ready \in BOOLEAN : Clock(go, ready)
    BY <1>1 DEF Next
  <2>2. ClearInv'
    BY ClearNext DEF BootInv
  <2>3. ReaderOK' /\ WalkOK' /\ FileOK'
    BY <2>1, ReaderStep, WalkStep
  <2>4. BytesOK' /\ SendOK'
    BY <2>1, BytesStep, SendStep
  <2>5. OrderOK' /\ ZeroOK' /\ DramOK'
    BY <2>1, OrderStep, ZeroStep, DramStep
  <2>6. CopyOK' /\ CopySumOK' /\ ImageSoFar'
    BY <2>1, CopyStep, ImageStep
  <2>7. BackOK' /\ BackSumOK'
    BY <2>1, BackStep, BackSumStep
  <2> QED  BY <2>2, <2>3, <2>4, <2>5, <2>6, <2>7 DEF BootInv
<1>2. CASE UNCHANGED vars
  <2> USE <1>2 DEF vars, walkVars, geometry, found, zeroVars, copyVars, backVars, dramVars,
                   readerVars, sendVars
  <2>1. /\ card' = card /\ (\A a : FileWord(a)' = FileWord(a)) /\ Summed' = Summed
        /\ Words' = Words /\ Taking' = Taking /\ Passed' = Passed
    BY SummedKept DEF Words, Taking, Passed
  <2>2. OrderOK'
    BY DEF BootInv, OrderOK, Paused
  <2>3. ZeroOK' /\ DramOK'
    BY DEF BootInv, ZeroOK, DramOK, Junk
  <2>4. ClearInv'
    BY ClearNext DEF BootInv
  <2>5. ReaderOK'
    BY DEF BootInv, ReaderOK, ByteAt, Here
  <2>6. WalkOK'
    <3>1. Marked(card)' = Marked(card) /\ BootSector(card)' = BootSector(card)
      BY DEF Marked, BootSector, FirstMarked
    <3>2. GeometryOK => GeometryOK'
      BY GeometryKept
    <3> QED  BY <3>1, <3>2 DEF BootInv, WalkOK
  <2>7. FileOK'
    BY <2>1 DEF BootInv, FileOK, InCluster, InTable, ClusterSector, ItemsPerSector
  <2>8. BytesOK'
    BY <2>1 DEF BootInv, BytesOK, FileWord
  <2>9. SendOK'
    BY <2>1 DEF BootInv, SendOK
  <2>10. CopyOK'
    BY <2>1 DEF BootInv, CopyOK, FileWord
  <2>11. ImageSoFar'
    BY <2>1 DEF BootInv, ImageSoFar, Image, FileWord
  <2>12. CopySumOK'
    BY <2>1 DEF BootInv, CopySumOK
  <2>13. BackOK' /\ BackSumOK'
    BY <2>1 DEF BootInv, BackOK, BackSumOK
  <2> QED
    BY <2>2, <2>3, <2>4, <2>5, <2>6, <2>7, <2>8, <2>9, <2>10, <2>11, <2>12, <2>13 DEF BootInv
<1> QED  BY <1>1, <1>2

LEMMA BootInvariance == Spec => []BootInv
BY BootInit, BootInvStep, PTL DEF Spec

LEMMA BootTypes == BootInv => BootTypeOK
<1> SUFFICES ASSUME BootInv PROVE BootTypeOK
  OBVIOUS
<1>1. fptr \in 0 .. file_size /\ card \in Cards
  BY DEF BootInv, WalkOK
<1> QED
  BY <1>1 DEF BootInv, BootTypeOK, OrderOK, ZeroOK, DramOK, ReaderOK, BytesOK, SendOK, CopyOK,
     CopySumOK, BackOK, BackSumOK

LEMMA ImageNow == BootInv => ImageInOrder
<1> SUFFICES ASSUME BootInv PROVE ImageInOrder
  OBVIOUS
<1>1. mem[BIN_SIZE] = Junk
  BY DEF BootInv, DramOK
<1>2. ASSUME r_init_state # 1, NEW a \in Image
      PROVE  \/ a < r_initaddr3 /\ mem[a] = FileWord(a)
             \/ a = r_initaddr3 /\ r_sd_state = 1 /\ mem[a] = FileWord(a)
             \/ a >= r_initaddr3 /\ mem[a] = 0
  <2>1. mem[a] = IF a < r_initaddr3 + (IF busy = 1 THEN Taking ELSE 0) THEN FileWord(a) ELSE 0
    BY <1>2 DEF BootInv, ImageSoFar
  <2>2. r_initaddr3 \in 0 .. BIN_SIZE /\ a \in Int
    BY Sizes DEF BootInv, CopyOK, Image
  <2> QED  BY <2>1, <2>2, Sizes DEF Taking
<1> QED  BY <1>1, <1>2 DEF ImageInOrder

LEMMA CopiedNow == BootInv => ImageCopied
<1> SUFFICES ASSUME BootInv, r_init_state = 5
             PROVE  /\ FileWhole /\ \A a \in Image : mem[a] = FileWord(a)
                    /\ r_sd_checksum = Summed[BIN_SIZE] /\ r_verify_checksum = Summed[BIN_SIZE]
                    /\ busy = 0 /\ w_dram_odata = FileWord(BIN_SIZE - 1)
  BY DEF ImageCopied, w_init_done
<1> USE Sizes
<1>1. /\ r_initaddr3 = BIN_SIZE /\ Taking = 0 /\ FileWhole
      /\ \A a \in Image : mem[a] = FileWord(a) /\ FileWord(a) \in Nat
  BY WholeImage
<1>2. r_initaddr6 = BIN_SIZE /\ r_rb_state = 0
  BY DEF BootInv, OrderOK, BackOK
<1>3. r_sd_checksum = Summed[BIN_SIZE]
  <2>1. r_initaddr3 + Taking = BIN_SIZE
    BY <1>1
  <2> QED  BY <2>1 DEF BootInv, CopySumOK
<1>4. r_verify_checksum = Summed[BIN_SIZE]
  <2>1. r_initaddr6 + (IF r_rb_state = 20 THEN 1 ELSE 0) = BIN_SIZE
    BY <1>2
  <2> QED  BY <2>1 DEF BootInv, BackSumOK
<1>5. busy = 0 /\ w_dram_odata = mem[BIN_SIZE - 1]
  BY <1>2 DEF BootInv, BackOK
<1>6. BIN_SIZE - 1 \in Image
  BY DEF Image
<1> QED  BY <1>1, <1>3, <1>4, <1>5, <1>6

(* Every register of the boot keeps its range, on every card and for every *)
(* size of the image: no address passes the image's end, and the reader's  *)
(* count of bytes never passes the file's (maintn.v, sdspi_file_reader.v). *)
THEOREM BootTypeCorrect == Spec => []BootTypeOK
BY BootInvariance, BootTypes, PTL

(* The image is copied word by word in the file's order, whatever the      *)
(* chain of the clusters and the times of the card and the DRAM, and       *)
(* nothing past it is written (maintn.v:223-251,                           *)
(* sdspi_file_reader.v:612-665).                                           *)
THEOREM BootImageInOrder == Spec => []ImageInOrder
BY BootInvariance, ImageNow, PTL

(* The harts start on the whole image of a whole file, with both sums      *)
(* right (maintn.v:289-302, 405-407).                                      *)
THEOREM BootImageCopied == Spec => []ImageCopied
BY BootInvariance, CopiedNow, PTL
===============================================================================
