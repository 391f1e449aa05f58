-------------------------------- MODULE MCBoot --------------------------------
EXTENDS Boot, FiniteSets

(* A card: the partition begins at sector p (0: no table of partitions),   *)
(* clusters of c sectors, one table of two sectors, the file of n bytes in *)
(* the clusters of chain, ended by mark.  In FAT32 the root directory is   *)
(* the chain root, its file in the last cluster.                           *)
Byte(i) == (i % 7) + 1
File(n) == [i \in 1..n |-> Byte(i)]
Sectors(fs, p, c, n, root, chain, mark, entries) ==
  LET per == IF fs = "FAT16" THEN SectorBytes \div 2 ELSE SectorBytes \div 4
      fat == p + 1
      spf == 16 \div per
      rootdir == fat + spf
      data == rootdir + (IF fs = "FAT16" THEN 2 ELSE 0) - 2 * c
      boot == [kind |-> "dbr", bytes_per_sector |-> 512, resv_sectors |-> 1, fs |-> fs,
               number_of_fat |-> 1, sectors_per_fat |-> spf, sector_per_cluster |-> c,
               rootdir_sectors |-> 2, root_cluster |-> root[1]]
      Next32(ch, x) == LET k == CHOOSE k \in DOMAIN ch : ch[k] = x
                       IN IF k = Len(ch) THEN mark ELSE ch[k + 1]
      In(ch) == {ch[k] : k \in DOMAIN ch}
      item(x) == IF x \in In(chain) THEN Next32(chain, x)
                 ELSE IF fs = "FAT32" /\ x \in In(root) THEN Next32(root, x) ELSE 0
      tables == [s \in fat .. fat + spf - 1 |->
                  [kind |-> "fat", item |-> [i \in 0 .. per - 1 |-> item((s - fat) * per + i)]]]
      dirs == IF fs = "FAT16" THEN {rootdir + 1} ELSE {data + c * root[Len(root)] + c - 1}
      files == {data + c * chain[k] + o : k \in DOMAIN chain, o \in 0 .. c - 1}
      bytes(s) == LET k == CHOOSE k \in DOMAIN chain : \E o \in 0 .. c - 1 :
                                                         s = data + c * chain[k] + o
                      from == ((k - 1) * c + (s - data - c * chain[k])) * SectorBytes
                  IN [kind |-> "data", byte |-> [i \in 0 .. SectorBytes - 1 |-> Byte(from + i + 1)]]
  IN [s \in {0, p} \cup DOMAIN tables \cup dirs \cup files |->
        IF s = p THEN boot
        ELSE IF s = 0 THEN [kind |-> "mbr", part |-> p]
        ELSE IF s \in DOMAIN tables THEN tables[s]
        ELSE IF s \in dirs THEN [kind |-> "dir", entries |-> entries] ELSE bytes(s)]

Entry(yes, x, n) == [name |-> yes, cluster |-> x, size |-> n]
Card(fs, p, c, n, root, chain, mark) ==
  [file |-> File(n), clusters |-> chain, sectors |-> Sectors(fs, p, c, n, root, chain, mark,
     <<Entry(FALSE, 9, 4), Entry(TRUE, chain[1], n), Entry(TRUE, 9, 4)>>)]
NoFile(fs, c) ==
  [file |-> <<>>, clusters |-> <<>>, sectors |-> Sectors(fs, 0, c, 12, <<2, 4>>, <<3>>, 65535, <<Entry(FALSE, 3, 12)>>)]
Unread(kind, b, fs) ==
  [file |-> <<>>, clusters |-> <<>>, sectors |-> [s \in {1} |-> [kind |-> kind, part |-> 2, bytes_per_sector |-> b,
     resv_sectors |-> 1, fs |-> fs, number_of_fat |-> 1, sectors_per_fat |-> 1,
     sector_per_cluster |-> 1, rootdir_sectors |-> 1, root_cluster |-> 2]]]

MCCards ==
  {Card(fs, p, 1, n, <<2>>, <<7, 3>>, m) :
     fs \in {"FAT16", "FAT32"}, p \in {0, 3}, n \in {8, 12, 15, 16}, m \in {65535, 268435455}}
  \cup {Card(fs, 2, 2, n, <<2, 5>>, ch, 268435455) :
          fs \in {"FAT16", "FAT32"}, n \in {12, 14, 18}, ch \in {<<9, 6>>, <<3, 10>>}}
  \cup {NoFile(fs, c) : fs \in {"FAT16", "FAT32"}, c \in 1..2}
  \cup {Unread("dbr", 512, "UNKNOWN"), Unread("dbr", 1024, "FAT32"), Unread("mbr", 512, "FAT32")}
===============================================================================
