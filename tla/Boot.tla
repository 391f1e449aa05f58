--------------------------------- MODULE Boot ---------------------------------
(***************************************************************************)
(* The boot of the board (mem/maintn.v with sd/sdspi_file_reader.v and     *)
(* sd/sdspi_reader.v): the DRAM is cleared, the file of the card is copied *)
(* into it, it is read back and summed, and it is handed to the harts.     *)
(* Six machines of one clock, three handshakes: with the DRAM by its busy  *)
(* line, of the reader with the copier by two state registers, and of the  *)
(* reader with the card's sectors by a pause.                              *)
(*                                                                         *)
(* A step is an edge of the clock.  Addresses count words.  The bridge to  *)
(* the DRAM is what DramBridge shows it to be, the card and its device     *)
(* answer whenever they will.  The models of the memory begin where this   *)
(* one ends.                                                               *)
(***************************************************************************)
EXTENDS FileReader

CONSTANTS MinBusy      (* edges the bridge is busy at least: states 20 to 22 *)

ASSUME BootAssumption == BIN_SIZE \in Nat \ {0} /\ MinBusy \in Nat \ {0, 1}

VARIABLES
  (* maintn                                                                *)
  r_init_state,
  r_zero_we, r_zeroaddr, r_zero_done,
  r_sd_state, r_sd_init_we, r_sd_init_data, r_sd_checksum, r_initaddr3, r_bblsd_done,
  r_rb_state, r_rb_delay, r_set_dram_le, r_initaddr6, r_verify_checksum, r_mem_rb_done,
  (* the bridge and the DRAM: busy counts the edges since it took a request *)
  busy, reading, daddr, w_dram_odata, mem,
  (* sdspi_reader                                                          *)
  state, waddr, outen, outbyte, read_done,
  (* sdspi_file_reader                                                     *)
  read_start, fptr, mw, dtowr, send, ostate, DATA, WE, senti, BOOTDONE

zeroVars == <<r_zero_we, r_zeroaddr, r_zero_done>>
copyVars == <<r_sd_state, r_sd_init_we, r_sd_init_data, r_sd_checksum, r_initaddr3,
              r_bblsd_done>>
backVars == <<r_rb_state, r_rb_delay, r_set_dram_le, r_initaddr6, r_verify_checksum,
              r_mem_rb_done>>
dramVars == <<busy, reading, daddr, w_dram_odata, mem>>
readerVars == <<state, waddr, outen, outbyte, read_done>>
sendVars == <<ostate, DATA, WE, senti, BOOTDONE>>
vars == <<walkVars, r_init_state, zeroVars, copyVars, backVars, dramVars, readerVars,
          read_start, fptr, mw, dtowr, send, sendVars>>

-------------------------------------------------------------------------------
w_dram_busy == busy > 0
w_init_done == r_init_state = 5
frbusy == r_init_state # 3 \/ send

(* The word of four bytes, the first the lowest, and 32-bit sums of words. *)
(* TLC counts to 2^31: bytes are small and no sum wraps.                   *)
WordOf(b) == b[0] + 256 * b[1] + 65536 * b[2] + 16777216 * b[3]

Junk == -1                     (* what the DRAM holds when power comes     *)

(* Power came: the clearing, which has no reset, may have raised its write *)
(* before the reset ended.                                                 *)
Init ==
  /\ WalkInit
  /\ r_init_state = 1
  /\ r_zero_we \in BOOLEAN /\ r_zeroaddr = 0 /\ r_zero_done = FALSE
  /\ r_sd_state = 0 /\ r_sd_init_we = FALSE /\ r_sd_init_data = 0
  /\ r_sd_checksum = 0 /\ r_initaddr3 = 0 /\ r_bblsd_done = FALSE
  /\ r_rb_state = 0 /\ r_rb_delay = 0 /\ r_set_dram_le = FALSE /\ r_initaddr6 = 0
  /\ r_verify_checksum = 0 /\ r_mem_rb_done = FALSE
  /\ busy = 0 /\ reading = FALSE /\ daddr = 0 /\ w_dram_odata = 0
  /\ mem = [a \in 0 .. BIN_SIZE |-> Junk]
  /\ state = 0 /\ waddr = 0 /\ outen = FALSE /\ outbyte = 0 /\ read_done = FALSE
  /\ read_start = FALSE /\ fptr = 0 /\ mw = [i \in 0..3 |-> 0] /\ dtowr = 0
  /\ send = FALSE /\ ostate = 0 /\ DATA = 0 /\ WE = FALSE /\ senti = 0 /\ BOOTDONE = FALSE

-------------------------------------------------------------------------------
(* The order of the boot.  State 4 waits for a disk image of no bytes.     *)
InitState ==
  r_init_state' = IF r_init_state = 1 /\ r_zero_done THEN 3
                  ELSE IF r_init_state = 3 /\ r_bblsd_done THEN 4
                  ELSE IF r_init_state = 4 THEN 6
                  ELSE IF r_init_state = 6 /\ r_mem_rb_done THEN 5
                  ELSE r_init_state

(* Slip: the last word is not awaited.                                     *)
ZeroFillShort ==
  /\ \/ /\ ~ w_dram_busy /\ ~ r_zero_done
        /\ r_zero_we' = TRUE /\ UNCHANGED r_zeroaddr
     \/ /\ w_dram_busy /\ r_zero_we
        /\ r_zero_we' = FALSE /\ r_zeroaddr' = r_zeroaddr + 1
     \/ /\ ~ (~ w_dram_busy /\ ~ r_zero_done) /\ ~ (w_dram_busy /\ r_zero_we)
        /\ UNCHANGED <<r_zero_we, r_zeroaddr>>
  /\ r_zero_done' = (r_zero_done \/ r_zeroaddr + 1 >= BIN_SIZE)

(* Slip: a word more is cleared.                                           *)
ZeroFillLong ==
  /\ \/ /\ ~ w_dram_busy /\ ~ r_zero_done
        /\ r_zero_we' = TRUE /\ UNCHANGED r_zeroaddr
     \/ /\ w_dram_busy /\ r_zero_we
        /\ r_zero_we' = FALSE /\ r_zeroaddr' = r_zeroaddr + 1
     \/ /\ ~ (~ w_dram_busy /\ ~ r_zero_done) /\ ~ (w_dram_busy /\ r_zero_we)
        /\ UNCHANGED <<r_zero_we, r_zeroaddr>>
  /\ r_zero_done' = (r_zero_done \/ r_zeroaddr > BIN_SIZE)

(* The DRAM is cleared: a word is counted when busy rises.                 *)
ZeroFill ==
  /\ \/ /\ ~ w_dram_busy /\ ~ r_zero_done
        /\ r_zero_we' = TRUE /\ UNCHANGED r_zeroaddr
     \/ /\ w_dram_busy /\ r_zero_we
        /\ r_zero_we' = FALSE /\ r_zeroaddr' = r_zeroaddr + 1
     \/ /\ ~ (~ w_dram_busy /\ ~ r_zero_done) /\ ~ (w_dram_busy /\ r_zero_we)
        /\ UNCHANGED <<r_zero_we, r_zeroaddr>>
  /\ r_zero_done' = (r_zero_done \/ r_zeroaddr >= BIN_SIZE)

(* The copier takes a word of the reader, writes it, and waits until the   *)
(* DRAM is free again; the reader sees its state.                          *)
CopyTakes ==
  /\ r_sd_state = 0
  /\ IF WE /\ ~ w_dram_busy
     THEN /\ r_sd_state' = 1 /\ r_sd_init_we' = TRUE /\ r_sd_init_data' = DATA
          /\ r_sd_checksum' = r_sd_checksum + DATA
     ELSE UNCHANGED <<r_sd_state, r_sd_init_we, r_sd_init_data, r_sd_checksum>>
  /\ UNCHANGED r_initaddr3

CopyWrites ==
  /\ r_sd_state = 1
  /\ IF w_dram_busy
     THEN r_sd_state' = 2 /\ r_sd_init_we' = FALSE /\ r_initaddr3' = r_initaddr3 + 1
     ELSE UNCHANGED <<r_sd_state, r_sd_init_we, r_initaddr3>>
  /\ UNCHANGED <<r_sd_init_data, r_sd_checksum>>

CopyEnds ==
  /\ r_sd_state = 2
  /\ r_sd_state' = IF w_dram_busy THEN 2 ELSE 0
  /\ UNCHANGED <<r_sd_init_we, r_sd_init_data, r_sd_checksum, r_initaddr3>>

SdCopy ==
  /\ CopyTakes \/ CopyWrites \/ CopyEnds
  /\ r_bblsd_done' = (r_bblsd_done \/ r_initaddr3 >= BIN_SIZE)

-------------------------------------------------------------------------------
(* The image is read back and summed.                                      *)
BackOff ==
  /\ r_init_state # 6
  /\ r_rb_state' = 0 /\ r_set_dram_le' = FALSE
  /\ UNCHANGED <<r_rb_delay, r_initaddr6, r_verify_checksum, r_mem_rb_done>>

BackIdle ==
  /\ r_init_state = 6 /\ r_rb_state = 0
  /\ r_rb_state' = IF r_mem_rb_done THEN 0 ELSE 1
  /\ UNCHANGED <<r_rb_delay, r_set_dram_le, r_initaddr6, r_verify_checksum, r_mem_rb_done>>

BackAsks ==
  /\ r_init_state = 6 /\ r_rb_state = 1
  /\ \/ /\ r_initaddr6 < BIN_SIZE /\ w_dram_busy
        /\ UNCHANGED <<r_rb_state, r_set_dram_le, r_mem_rb_done>>
     \/ /\ r_initaddr6 < BIN_SIZE /\ ~ w_dram_busy
        /\ r_set_dram_le' = TRUE /\ r_rb_state' = 7 /\ UNCHANGED r_mem_rb_done
     \/ /\ r_initaddr6 >= BIN_SIZE
        /\ r_mem_rb_done' = TRUE /\ r_rb_state' = 0 /\ UNCHANGED r_set_dram_le
  /\ UNCHANGED <<r_rb_delay, r_initaddr6, r_verify_checksum>>

(* Slip: the request is not awaited.                                       *)
BackTakenBlind ==
  /\ r_init_state = 6 /\ r_rb_state = 7
  /\ r_set_dram_le' = FALSE /\ r_rb_state' = 2
  /\ UNCHANGED <<r_rb_delay, r_initaddr6, r_verify_checksum, r_mem_rb_done>>

BackTaken ==
  /\ r_init_state = 6 /\ r_rb_state = 7
  /\ IF w_dram_busy THEN r_set_dram_le' = FALSE /\ r_rb_state' = 2
                    ELSE UNCHANGED <<r_set_dram_le, r_rb_state>>
  /\ UNCHANGED <<r_rb_delay, r_initaddr6, r_verify_checksum, r_mem_rb_done>>

BackSums ==
  /\ r_init_state = 6 /\ r_rb_state = 2
  /\ r_set_dram_le' = FALSE
  /\ IF w_dram_busy
     THEN UNCHANGED <<r_rb_state, r_rb_delay, r_verify_checksum>>
     ELSE /\ r_verify_checksum' = r_verify_checksum + w_dram_odata
          /\ r_rb_state' = 20 /\ r_rb_delay' = 0
  /\ UNCHANGED <<r_initaddr6, r_mem_rb_done>>

BackNext ==
  /\ r_init_state = 6 /\ r_rb_state = 20
  /\ IF r_rb_delay < 1
     THEN r_rb_delay' = r_rb_delay + 1 /\ UNCHANGED <<r_rb_state, r_initaddr6>>
     ELSE r_rb_state' = 0 /\ r_initaddr6' = r_initaddr6 + 1 /\ r_rb_delay' = 0
  /\ UNCHANGED <<r_set_dram_le, r_verify_checksum, r_mem_rb_done>>

ReadBack == BackOff \/ BackIdle \/ BackAsks \/ BackTaken \/ BackSums \/ BackNext

-------------------------------------------------------------------------------
(* The wires to the bridge.  A disk image would begin at BIN_SIZE.         *)
w_dram_addr == IF r_init_state = 1 THEN r_zeroaddr
               ELSE IF r_init_state = 3 THEN r_initaddr3
               ELSE IF r_init_state = 6 THEN r_initaddr6 ELSE BIN_SIZE
w_dram_wdata == IF r_init_state = 3 THEN r_sd_init_data ELSE 0
w_wr_en == r_init_state # 6 /\ (r_zero_we \/ r_sd_init_we)

(* The bridge: it takes a request when it will, go, and is busy until it   *)
(* has been served, MinBusy edges at least.                                *)
Dram(go) ==
  \/ /\ busy = 0 /\ go /\ (r_set_dram_le \/ w_wr_en)
     /\ busy' = 1 /\ reading' = r_set_dram_le /\ daddr' = w_dram_addr
     /\ mem' = IF r_set_dram_le THEN mem ELSE [mem EXCEPT ![w_dram_addr] = w_dram_wdata]
     /\ UNCHANGED w_dram_odata
  \/ /\ busy = 0 /\ ~ (go /\ (r_set_dram_le \/ w_wr_en))
     /\ UNCHANGED dramVars
  \/ /\ busy \in 1 .. MinBusy - 1
     /\ busy' = busy + 1 /\ UNCHANGED <<reading, daddr, w_dram_odata, mem>>
  \/ /\ busy = MinBusy
     /\ busy' = IF go THEN 0 ELSE busy
     /\ w_dram_odata' = IF go /\ reading THEN mem[daddr] ELSE w_dram_odata
     /\ UNCHANGED <<reading, daddr, mem>>

-------------------------------------------------------------------------------
(* sdspi_reader: a sector is asked for (0 to 3), its bytes are fetched one *)
(* by one unless the reader is paused (10 to 13), and it is reported (14,  *)
(* 15).  ready: the device answers.                                        *)
SectorAsked(ready) ==
  /\ state \in 0..3
  /\ IF ready /\ (state = 0 => read_start /\ ~ read_done)
     THEN /\ state' = IF state = 3 THEN 10 ELSE state + 1
          /\ waddr' = IF state = 0 THEN 0 ELSE waddr
     ELSE UNCHANGED <<state, waddr>>
  /\ UNCHANGED <<outen, outbyte, read_done>>

(* Slip: the reader is not paused while a word is sent.                    *)
ByteAskedAlways(ready) ==
  /\ state = 10
  /\ state' = IF ready /\ r_init_state = 3 THEN 11 ELSE 10
  /\ UNCHANGED <<waddr, outen, outbyte, read_done>>

ByteAsked(ready) ==
  /\ state = 10
  /\ state' = IF ready /\ ~ frbusy THEN 11 ELSE 10
  /\ UNCHANGED <<waddr, outen, outbyte, read_done>>

ByteRead(ready) ==
  /\ state = 11
  /\ IF ready
     THEN state' = 12 /\ outen' = TRUE /\ outbyte' = ByteAt(waddr) /\ waddr' = waddr + 1
     ELSE UNCHANGED <<state, outen, outbyte, waddr>>
  /\ UNCHANGED read_done

ByteEnds ==
  /\ state = 12
  /\ outen' = FALSE /\ state' = 13
  /\ UNCHANGED <<waddr, outbyte, read_done>>

ByteNext ==
  /\ state = 13
  /\ IF waddr < SectorBytes THEN state' = 10 /\ UNCHANGED read_done
                            ELSE state' = 14 /\ read_done' = TRUE
  /\ UNCHANGED <<waddr, outen, outbyte>>

SectorEnds ==
  \/ /\ state = 14
     /\ read_done' = FALSE /\ state' = IF read_start THEN 14 ELSE 15
     /\ UNCHANGED <<waddr, outen, outbyte>>
  \/ /\ state = 15
     /\ state' = IF read_start THEN 0 ELSE 15
     /\ UNCHANGED <<waddr, outen, outbyte, read_done>>

SdReader(ready) ==
  \/ SectorAsked(ready)
  \/ ByteAsked(ready) \/ ByteRead(ready) \/ ByteEnds \/ ByteNext
  \/ SectorEnds

(* The walk takes a step when a sector has been read, and asks for the     *)
(* next in between.                                                        *)
Walk ==
  \/ read_done /\ SectorRead(fptr) /\ read_start' = FALSE
  \/ /\ ~ read_done
     /\ filesystem_state' = IF filesystem_state = "RESET" THEN "SEARCH_MBR" ELSE filesystem_state
     /\ read_start' = (filesystem_state \notin {"RESET", "DONE"})
     /\ UNCHANGED <<card, read_sector_no, search_fat, geometry, curr_cluster,
                    cluster_sector_offset, target_cluster, found>>

-------------------------------------------------------------------------------
(* The bytes of the file are gathered to words.                            *)
OfFile == outen /\ filesystem_state = "READ_A_FILE" /\ ~ search_fat /\ fptr < file_size

CollectBytes ==
  \/ /\ OfFile
     /\ fptr' = fptr + 1 /\ mw' = [mw EXCEPT ![fptr % 4] = outbyte]
     /\ IF fptr % 4 = 3 THEN send' = TRUE /\ dtowr' = WordOf([mw EXCEPT ![3] = outbyte])
                        ELSE send' = FALSE /\ UNCHANGED dtowr
  \/ /\ ~ OfFile
     /\ send' = (send /\ frbusy /\ ostate # 23)
     /\ UNCHANGED <<fptr, mw, dtowr>>

(* Each word is offered to the copier, by state registers of both.         *)
SendBegins ==
  /\ ostate = 0
  /\ IF send /\ ~ BOOTDONE THEN DATA' = dtowr /\ ostate' = 20
                           ELSE UNCHANGED <<DATA, ostate>>
  /\ UNCHANGED <<WE, senti, BOOTDONE>>

SendOffers ==
  /\ ostate = 20
  /\ IF r_sd_state = 0 /\ senti < BIN_SIZE
     THEN WE' = TRUE /\ senti' = senti + 1 /\ ostate' = 21
     ELSE UNCHANGED <<WE, senti, ostate>>
  /\ UNCHANGED <<DATA, BOOTDONE>>

SendTaken ==
  /\ ostate = 21
  /\ IF r_sd_state # 0 THEN WE' = FALSE /\ ostate' = 22 ELSE UNCHANGED <<WE, ostate>>
  /\ UNCHANGED <<DATA, senti, BOOTDONE>>

SendWritten ==
  /\ ostate = 22
  /\ ostate' = IF r_sd_state = 0 THEN 23 ELSE 22
  /\ BOOTDONE' = (BOOTDONE \/ senti >= BIN_SIZE)
  /\ UNCHANGED <<DATA, WE, senti>>

SendEnds ==
  /\ ostate = 23
  /\ ostate' = 0
  /\ UNCHANGED <<DATA, WE, senti, BOOTDONE>>

SendWord == SendBegins \/ SendOffers \/ SendTaken \/ SendWritten \/ SendEnds

-------------------------------------------------------------------------------
(* An edge of the clock.  go and ready: what the DRAM and the card do.     *)
Clock(go, ready) ==
  /\ InitState /\ ZeroFill /\ SdCopy /\ ReadBack /\ Dram(go)
  /\ SdReader(ready) /\ Walk /\ CollectBytes /\ SendWord

Next == \E go, ready \in BOOLEAN : Clock(go, ready)

(* The DRAM and the card answer in the end.                                *)
Fairness ==
  /\ WF_vars(\E ready \in BOOLEAN : Clock(TRUE, ready))
  /\ WF_vars(\E go \in BOOLEAN : Clock(go, TRUE))

Spec == Init /\ [][Next]_vars /\ Fairness

-------------------------------------------------------------------------------
BootTypeOK ==
  /\ card \in Cards
  /\ r_init_state \in {1, 3, 4, 5, 6}
  /\ r_zero_we \in BOOLEAN /\ r_zeroaddr \in 0 .. BIN_SIZE /\ r_zero_done \in BOOLEAN
  /\ r_sd_state \in 0..2 /\ r_sd_init_we \in BOOLEAN
  /\ r_sd_init_data \in Nat /\ r_sd_checksum \in Nat
  /\ r_initaddr3 \in 0 .. BIN_SIZE /\ r_bblsd_done \in BOOLEAN
  /\ r_rb_state \in {0, 1, 2, 7, 20} /\ r_rb_delay \in 0..1 /\ r_set_dram_le \in BOOLEAN
  /\ r_initaddr6 \in 0 .. BIN_SIZE /\ r_verify_checksum \in Nat /\ r_mem_rb_done \in BOOLEAN
  /\ busy \in 0 .. MinBusy /\ reading \in BOOLEAN /\ daddr \in 0 .. BIN_SIZE
  /\ state \in 0..3 \cup 10..15 /\ waddr \in 0 .. SectorBytes
  /\ outen \in BOOLEAN /\ read_done \in BOOLEAN /\ read_start \in BOOLEAN
  /\ fptr \in 0 .. file_size /\ dtowr \in Nat /\ DATA \in Nat
  /\ send \in BOOLEAN /\ ostate \in {0} \cup 20..23 /\ WE \in BOOLEAN
  /\ senti \in 0 .. BIN_SIZE /\ BOOTDONE \in BOOLEAN

Image == 0 .. BIN_SIZE - 1
FileWord(a) == WordOf([i \in 0..3 |-> card.file[4 * a + i + 1]])
FileWhole == Len(card.file) >= 4 * BIN_SIZE
Summed[n \in Nat] == IF n = 0 THEN 0 ELSE Summed[n - 1] + FileWord(n - 1)

(* The copy is exact at every moment: the words counted are those of the   *)
(* file, in its order, the one being written may be there already, and     *)
(* every other is still the zero it was cleared to.  Nothing is written    *)
(* past the image (maintn.v:223-251, sdspi_file_reader.v:612-665).         *)
ImageInOrder ==
  /\ mem[BIN_SIZE] = Junk
  /\ r_init_state # 1 =>
       \A a \in Image : \/ a < r_initaddr3 /\ mem[a] = FileWord(a)
                        \/ a = r_initaddr3 /\ r_sd_state = 1 /\ mem[a] = FileWord(a)
                        \/ a >= r_initaddr3 /\ mem[a] = 0

(* The harts are given the DRAM only when it holds the whole image of a    *)
(* whole file, and both sums that the display shows are the file's         *)
(* (maintn.v:289-302, 405-407).  Their first fetch was taken by the bus    *)
(* long before and is answered in that cycle (ahb_laur_mem.v:267,          *)
(* cache_laurwt.v:122-123): whatever its address, with the last word of    *)
(* the image, which the DRAM then has on its output, idle.                 *)
ImageCopied ==
  w_init_done =>
    /\ FileWhole
    /\ \A a \in Image : mem[a] = FileWord(a)
    /\ r_sd_checksum = Summed[BIN_SIZE] /\ r_verify_checksum = Summed[BIN_SIZE]
    /\ busy = 0 /\ w_dram_odata = FileWord(BIN_SIZE - 1)

(* The copy begins when every word has been cleared (maintn.v:411-424).    *)
Cleared == [][(r_init_state = 1 /\ r_init_state' # 1) => \A a \in Image : mem[a] = 0]_vars

(* A card with the whole file boots, wherever its clusters lie; one        *)
(* without it never does: the copier waits for ever.                       *)
BootEnds == IF FileWhole THEN <>w_init_done ELSE [](~ w_init_done)
===============================================================================
