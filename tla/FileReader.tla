------------------------------ MODULE FileReader ------------------------------
(***************************************************************************)
(* The walk of sd/sdspi_file_reader.v over a card: boot sector, root       *)
(* directory, the clusters of the file and the table that chains them.  A  *)
(* step is the answer of one sector (read_done); what the reader captured  *)
(* while the sector passed is part of the step.                            *)
(*                                                                         *)
(* A sector is what the reader makes of its bytes: "mbr" with the first    *)
(* sector of the partition, "dbr" with the geometry, "dir" with entries,   *)
(* "fat" with items, "data" with bytes, or "none".                         *)
(***************************************************************************)
EXTENDS Integers, Sequences

CONSTANTS
  Cards,         (* records: sectors by number, bytes of the file, and the  *)
                 (* clusters that hold them                                 *)
  SectorBytes,   (* 512                                                     *)
  BIN_SIZE       (* of the image, in words of four bytes                    *)

VARIABLES
  card,
  filesystem_state, filesystem, read_sector_no, search_fat,
  cluster_size, first_fat_sector_no, first_data_sector_no,
  rootdir_sector, rootdir_sectorcount,
  curr_cluster, cluster_sector_offset, target_cluster,
  file_found, file_cluster, file_size

geometry == <<filesystem, cluster_size, first_fat_sector_no, first_data_sector_no,
              rootdir_sector, rootdir_sectorcount>>
found == <<file_found, file_cluster, file_size>>
walkVars == <<card, filesystem_state, read_sector_no, search_fat, geometry,
              curr_cluster, cluster_sector_offset, target_cluster, found>>

-------------------------------------------------------------------------------
SectorAt(c, s) == IF s \in DOMAIN c.sectors THEN c.sectors[s] ELSE [kind |-> "none"]
Here == SectorAt(card, read_sector_no)
ByteAt(i) == IF Here.kind = "data" THEN Here.byte[i] ELSE 0

(* Items of the table in a sector: of two bytes, or of four.               *)
ItemsPerSector(fs) == SectorBytes \div (IF fs = "FAT16" THEN 2 ELSE 4)

(* A chain ends.  FFFFFFFF is written -1; the other end marks of FAT32,    *)
(* 0FFFFFF9 to 0FFFFFFE, are taken for clusters.                           *)
EndOfChain(t) == t < 2 \/ IF filesystem = "FAT16" THEN t >= 65520
                          ELSE t \in {268435448, 268435455}

ClusterSector(c) == first_data_sector_no + cluster_size * c

(* What boot sector b, at sector p, says of the card: the sectors of the   *)
(* root directory and of the data follow the tables.                       *)
Readable(b) == b.kind = "dbr" /\ b.bytes_per_sector = 512 /\ b.fs \in {"FAT16", "FAT32"}
FirstFat(p, b) == p + b.resv_sectors
AfterFats(p, b) == FirstFat(p, b) + b.sectors_per_fat * b.number_of_fat
RootSectors(b) == IF b.fs = "FAT16" THEN b.rootdir_sectors ELSE 0
FirstData(p, b) == AfterFats(p, b) + RootSectors(b) - 2 * b.sector_per_cluster

fcluster_range == 65536         (* fcluster has 16 bits                     *)

(* The entries of a directory with the name of the file, and the first.    *)
Named(s) == IF s.kind = "dir" THEN {k \in DOMAIN s.entries : s.entries[k].name} ELSE {}
FirstNamed(s) == s.entries[CHOOSE k \in Named(s) : \A j \in Named(s) : k <= j]

(* The boot sector the reader comes to on card c: the first sector that is *)
(* one, or the one that the first table of partitions names.               *)
Marked(c) == {s \in DOMAIN c.sectors : c.sectors[s].kind \in {"mbr", "dbr"}}
FirstMarked(c) == CHOOSE s \in Marked(c) : \A t \in Marked(c) : s <= t
BootSector(c) == IF c.sectors[FirstMarked(c)].kind = "dbr" THEN FirstMarked(c)
                 ELSE c.sectors[FirstMarked(c)].part

(* Byte n of a file, from 0, is byte i of sector o of its k-th cluster.    *)
Place(size, k, o) == ((k - 1) * size + o) * SectorBytes

(* The directory names the file; its clusters are chained in the tables    *)
(* from sector fat on; its bytes are in the clusters, counted from sector  *)
(* data.                                                                   *)
Listed(c) ==
  \A s \in DOMAIN c.sectors :
    Named(c.sectors[s]) # {} =>
      /\ Len(c.clusters) > 0 /\ c.clusters[1] < fcluster_range
      /\ FirstNamed(c.sectors[s]).cluster = c.clusters[1]
      /\ FirstNamed(c.sectors[s]).size = Len(c.file)

Chained(c, fat, items) ==
  \A k \in 1 .. Len(c.clusters) - 1 :
    LET table == SectorAt(c, fat + c.clusters[k] \div items)
    IN table.kind = "fat" /\ table.item[c.clusters[k] % items] = c.clusters[k + 1]

Stored(c, data, size) ==
  \A k \in 1 .. Len(c.clusters), o \in 0 .. size - 1, i \in 0 .. SectorBytes - 1 :
    LET sector == SectorAt(c, data + size * c.clusters[k] + o)
        n == Place(size, k, o) + i
    IN n < Len(c.file) => sector.kind = "data" /\ sector.byte[i] = c.file[n + 1]

(* The file lies where boot sector b, at sector p, and the tables say.     *)
FileLies(c, p, b) ==
  /\ p \in Nat /\ FirstFat(p, b) \in Nat /\ FirstData(p, b) \in Int
  /\ b.sector_per_cluster \in Nat \ {0}
  /\ Len(c.file) <= Place(b.sector_per_cluster, Len(c.clusters) + 1, 0)
  /\ Listed(c)
  /\ Chained(c, FirstFat(p, b), ItemsPerSector(b.fs))
  /\ Stored(c, FirstData(p, b), b.sector_per_cluster)

(* What a card is, where the reader can read it: a file's first cluster is *)
(* below 65536.                                                            *)
CardOK(c) ==
  /\ DOMAIN c.sectors \subseteq Nat
  /\ c.file \in Seq(0..255) /\ c.clusters \in Seq(Nat)
  /\ Marked(c) # {} /\ Readable(SectorAt(c, BootSector(c))) =>
       FileLies(c, BootSector(c), SectorAt(c, BootSector(c)))

ASSUME CardsAssumption == SectorBytes \in Nat \ {0} /\ \A c \in Cards : CardOK(c)

WalkInit ==
  /\ card \in Cards
  /\ filesystem_state = "RESET" /\ filesystem = "UNASSIGNED"
  /\ read_sector_no = 0 /\ search_fat = FALSE
  /\ cluster_size = 0 /\ first_fat_sector_no = 0 /\ first_data_sector_no = 0
  /\ rootdir_sector = 0 /\ rootdir_sectorcount = 0
  /\ curr_cluster = 0 /\ cluster_sector_offset = 0 /\ target_cluster = 0
  /\ file_found = FALSE /\ file_cluster = 0 /\ file_size = 0

-------------------------------------------------------------------------------
SearchMbr ==
  /\ filesystem_state = "SEARCH_MBR"
  /\ IF Here.kind \in {"mbr", "dbr"}
     THEN /\ filesystem_state' = "SEARCH_DBR"
          /\ read_sector_no' = IF Here.kind = "dbr" THEN read_sector_no ELSE Here.part
     ELSE read_sector_no' = read_sector_no + 1 /\ UNCHANGED filesystem_state
  /\ UNCHANGED <<card, search_fat, geometry, curr_cluster, cluster_sector_offset,
                 target_cluster, found>>

SearchDbr ==
  LET data == FirstData(read_sector_no, Here)
      after == AfterFats(read_sector_no, Here)
  IN
  /\ filesystem_state = "SEARCH_DBR" /\ Readable(Here)
  /\ filesystem' = Here.fs /\ cluster_size' = Here.sector_per_cluster
  /\ first_fat_sector_no' = FirstFat(read_sector_no, Here) /\ first_data_sector_no' = data
  /\ cluster_sector_offset' = 0
  /\ IF Here.fs = "FAT16"
     THEN /\ rootdir_sector' = after /\ rootdir_sectorcount' = RootSectors(Here)
          /\ read_sector_no' = after /\ filesystem_state' = "LS_ROOT_FAT16"
          /\ UNCHANGED curr_cluster
     ELSE /\ curr_cluster' = Here.root_cluster
          /\ read_sector_no' = data + Here.sector_per_cluster * Here.root_cluster
          /\ filesystem_state' = "LS_ROOT_FAT32"
          /\ UNCHANGED <<rootdir_sector, rootdir_sectorcount>>
  /\ UNCHANGED <<card, search_fat, target_cluster, found>>

SearchDbrFails ==
  /\ filesystem_state = "SEARCH_DBR" /\ Here.kind = "dbr" /\ ~ Readable(Here)
  /\ filesystem_state' = "DONE"
  /\ filesystem' = IF Here.bytes_per_sector = 512 THEN "UNKNOWN" ELSE filesystem
  /\ UNCHANGED <<card, read_sector_no, search_fat, cluster_size, first_fat_sector_no,
                 first_data_sector_no, rootdir_sector, rootdir_sectorcount, curr_cluster,
                 cluster_sector_offset, target_cluster, found>>

SearchDbrAgain ==
  /\ filesystem_state = "SEARCH_DBR" /\ Here.kind # "dbr"
  /\ UNCHANGED walkVars

-------------------------------------------------------------------------------
(* Slip: the cluster of the file is that of the last entry.                *)
FoundLast ==
  IF file_found \/ Named(Here) = {}
  THEN UNCHANGED found
  ELSE LET e == Here.entries[Len(Here.entries)] IN
       file_found' = TRUE /\ file_cluster' = e.cluster % fcluster_range /\ file_size' = e.size

(* The first entry of the name wins; its cluster is cut to 16 bits.        *)
Found ==
  IF file_found \/ Named(Here) = {}
  THEN UNCHANGED found
  ELSE LET e == FirstNamed(Here) IN
       file_found' = TRUE /\ file_cluster' = e.cluster % fcluster_range /\ file_size' = e.size

OpenFile ==
  /\ file_found'
  /\ curr_cluster' = file_cluster' /\ cluster_sector_offset' = 0
  /\ read_sector_no' = ClusterSector(file_cluster')
  /\ filesystem_state' = "READ_A_FILE"
  /\ UNCHANGED search_fat

ListRootFat16 ==
  /\ filesystem_state = "LS_ROOT_FAT16"
  /\ Found
  /\ \/ OpenFile
     \/ /\ ~ file_found' /\ cluster_sector_offset < rootdir_sectorcount
        /\ cluster_sector_offset' = (cluster_sector_offset + 1) % 256
        /\ read_sector_no' = rootdir_sector + cluster_sector_offset'
        /\ UNCHANGED <<filesystem_state, search_fat, curr_cluster>>
     \/ /\ ~ file_found' /\ cluster_sector_offset >= rootdir_sectorcount
        /\ filesystem_state' = "DONE"
        /\ UNCHANGED <<read_sector_no, search_fat, curr_cluster, cluster_sector_offset>>
  /\ UNCHANGED <<card, geometry, target_cluster>>

(* The next sector of the cluster, or the sector of the table that says    *)
(* which cluster follows.                                                  *)
NextSector ==
  \/ /\ cluster_sector_offset < cluster_size - 1
     /\ cluster_sector_offset' = cluster_sector_offset + 1
     /\ read_sector_no' = ClusterSector(curr_cluster) + cluster_sector_offset'
     /\ UNCHANGED search_fat
  \/ /\ cluster_sector_offset >= cluster_size - 1
     /\ search_fat' = TRUE /\ cluster_sector_offset' = 0
     /\ read_sector_no' = first_fat_sector_no + curr_cluster \div ItemsPerSector(filesystem)

ListRootFat32 ==
  /\ filesystem_state = "LS_ROOT_FAT32" /\ ~ search_fat
  /\ Found
  /\ \/ OpenFile
     \/ ~ file_found' /\ NextSector /\ UNCHANGED <<filesystem_state, curr_cluster>>
  /\ UNCHANGED <<card, geometry, target_cluster>>

ReadAFile ==
  /\ filesystem_state = "READ_A_FILE" /\ ~ search_fat
  /\ NextSector
  /\ UNCHANGED <<card, filesystem_state, geometry, curr_cluster, target_cluster, found>>

(* The table's sector has passed.  fptr: the bytes of the file read so far. *)
FollowChain(fptr) ==
  LET last == filesystem_state = "READ_A_FILE" /\ filesystem = "FAT32" /\ fptr >= 4 * BIN_SIZE
  IN
  /\ search_fat
  /\ filesystem_state \in {"LS_ROOT_FAT32", "READ_A_FILE"}
  /\ target_cluster' = IF Here.kind = "fat"
                          THEN Here.item[curr_cluster % ItemsPerSector(filesystem)]
                          ELSE target_cluster
  /\ search_fat' = FALSE /\ cluster_sector_offset' = 0
  /\ IF EndOfChain(target_cluster') \/ last
     THEN filesystem_state' = "DONE" /\ UNCHANGED <<curr_cluster, read_sector_no>>
     ELSE /\ curr_cluster' = target_cluster'
          /\ read_sector_no' = ClusterSector(target_cluster')
          /\ UNCHANGED filesystem_state
  /\ UNCHANGED <<card, geometry, found>>

SectorRead(fptr) ==
  \/ SearchMbr
  \/ SearchDbr \/ SearchDbrFails \/ SearchDbrAgain
  \/ ListRootFat16 \/ ListRootFat32
  \/ ReadAFile
  \/ FollowChain(fptr)
===============================================================================
