---- MODULE MountTest ----
(* The file system test of NuttX as this system runs it (src/mount_main.c, built    *)
(* with CONFIG_EXAMPLES_MOUNT_DEVNAME): main mounts the SD card, calls its helpers   *)
(* one after the other, and prints how many of them found something else than they   *)
(* expected.                                                                         *)
(*                                                                                   *)
(* The FAT file system is external.  A path is the sequence of its names below the   *)
(* mount point; what the test does not name is left out, and each operation is done  *)
(* or not done when the power goes or the card fails.  The card may fail in any      *)
(* call, and the program need not learn of it.                                       *)
EXTENDS Naturals, Sequences

CONSTANTS MaxFaults,   \* bound: faults of the card since power-up
          MaxErrors    \* bound: g_nerrors is not counted further

ASSUME MountAssumption == MaxFaults \in Nat /\ MaxErrors \in Nat \ {0}

VARIABLES call,        \* the index of main's next call; 0 when it does not run
          g_nerrors,   \* since power-up: it is not reset by main
          fs,          \* fs[path]: "none", "file" or "dir"
          clean,       \* history: this run found none of the test's directories
          unseen,      \* history: a fault of the card in this run was not counted
          faults       \* history: the faults of the card since power-up

mountVars == <<call, g_nerrors, fs, clean, unseen, faults>>

TestDirs == {"TestDir", "NewDir1", "NewDir2", "NewDir3"}
FileNames == {"TestFile", "WrTest1", "WrTest2", "Renamed"}
Path == {<<d>> : d \in TestDirs} \union {<<d, f>> : d \in TestDirs, f \in FileNames}
          \union {<<"WrTest1">>}

g_testdir1 == <<"TestDir">>
g_testdir2 == <<"NewDir1">>
g_testdir3 == <<"NewDir2">>
g_testdir4 == <<"NewDir3">>
g_testfile1 == <<"TestDir", "TestFile">>
g_testfile2 == <<"TestDir", "WrTest1">>
g_testfile3 == <<"NewDir1", "WrTest2">>
g_testfile4 == <<"NewDir3", "Renamed">>
g_testfilel == <<"WrTest1">>
g_mntdir == <<>>            \* a path outside of the card

----
(* The file system: the outcomes of an operation, each a result and what it leaves. *)

Gives(result, files) == {[result |-> result, fs |-> files]}

Has(p, kind) == fs[p] = kind
Placed(p) == Len(p) = 1 \/ Has(<<p[1]>>, "dir")
Below(p) == IF Len(p) = 1 THEN {q \in Path : Len(q) = 2 /\ q[1] = p[1]} ELSE {}

mkdir(p) ==
  IF ~Placed(p) THEN Gives("ENOENT", fs)
  ELSE IF ~Has(p, "none") THEN Gives("EEXIST", fs)
  ELSE Gives("OK", [fs EXCEPT ![p] = "dir"])

rmdir(p) ==
  IF Has(p, "none") THEN Gives("ENOENT", fs)
  ELSE IF Has(p, "file") THEN Gives("ENOTDIR", fs)
  ELSE IF \E q \in Below(p) : ~Has(q, "none") THEN Gives("ENOTEMPTY", fs)
  ELSE Gives("OK", [fs EXCEPT ![p] = "none"])

unlink(p) ==
  IF Has(p, "none") THEN Gives("ENOENT", fs)
  ELSE IF Has(p, "dir") THEN Gives("EISDIR", fs)
  ELSE Gives("OK", [fs EXCEPT ![p] = "none"])

stat(p) == Gives(IF Has(p, "none") THEN "ENOENT" ELSE "OK", fs)

open_read(p) ==
  Gives(IF Has(p, "none") THEN "ENOENT" ELSE IF Has(p, "dir") THEN "EISDIR" ELSE "OK", fs)

open_write(p) ==
  IF ~Placed(p) THEN Gives("ENOENT", fs)
  ELSE IF Has(p, "dir") THEN Gives("EISDIR", fs)
  ELSE Gives("OK", [fs EXCEPT ![p] = "file"])

(* What is below a path goes with it. *)
Without(p) == [q \in Path |-> IF q = p \/ q \in Below(p) THEN "none" ELSE fs[q]]

Moved(p, q) ==
  [r \in Path |-> IF r = q THEN fs[p]
                 ELSE IF r \in Below(q) THEN fs[<<p[1], r[2]>>]
                 ELSE Without(p)[r]]

(* To the name of a directory: refused, or moved into it, out of what is modelled.  *)
rename(p, q) ==
  IF p = g_mntdir THEN Gives("EXDEV", fs)
  ELSE IF Has(p, "none") \/ ~Placed(q) THEN Gives("ENOENT", fs)
  ELSE IF Has(q, "dir") THEN Gives("EEXIST", fs) \union Gives("OK", Without(p))
  ELSE Gives("OK", Moved(p, q))

----
(* The helpers: an operation of the file system, and an error counted if its result *)
(* is not the one expected.                                                         *)

(* Slip: an error is not counted. *)
CountsNothing == UNCHANGED g_nerrors

CountsError == g_nerrors' = IF g_nerrors < MaxErrors THEN g_nerrors + 1 ELSE g_nerrors

(* The card fails.  The program counts an error if a call it looks at returns one.  It *)
(* does not look at readdir, closedir and close, and the driver of the SD card returns *)
(* none: a write may be lost, or something else read, and nothing be counted.          *)
Faulty(outcomes) ==
  /\ faults < MaxFaults
  /\ faults' = faults + 1
  /\ fs' \in {fs} \union {o.fs : o \in outcomes}
  /\ \/ CountsError /\ UNCHANGED unseen
     \/ unseen' = TRUE /\ UNCHANGED g_nerrors

Expects(outcomes, result) ==
  \/ \E o \in outcomes :
       /\ fs' = o.fs
       /\ IF o.result = result THEN UNCHANGED g_nerrors ELSE CountsError
       /\ UNCHANGED <<faults, unseen>>
  \/ Faulty(outcomes)

show_statfs(p) == Expects(Gives("OK", fs), "OK")
show_directories(p) == Expects(Gives("OK", fs), "OK")

fail_read_open(p, e) == Expects(open_read(p), e)

(* An open and a read; what is read is printed and not compared. *)
read_test_file(p) == Expects(open_read(p), "OK")

(* An open and a write; what is written is left out. *)
write_test_file(p) == Expects(open_write(p), "OK")

fail_mkdir(p, e) == Expects(mkdir(p), e)
succeed_mkdir(p) == Expects(mkdir(p), "OK")
fail_rmdir(p, e) == Expects(rmdir(p), e)
succeed_rmdir(p) == Expects(rmdir(p), "OK")
fail_unlink(p, e) == Expects(unlink(p), e)
succeed_unlink(p) == Expects(unlink(p), "OK")
fail_rename(p, q, e) == Expects(rename(p, q), e)
succeed_rename(p, q) == Expects(rename(p, q), "OK")
fail_stat(p, e) == Expects(stat(p), e)
succeed_stat(p) == Expects(stat(p), "OK")

----
(* Main: the calls it makes between mount and umount. *)

main_calls ==
  <<<<"write_test_file", g_testfilel>>, <<"read_test_file", g_testfilel>>,
    <<"succeed_unlink", g_testfilel>>,
    <<"succeed_mkdir", g_testdir1>>,
    <<"show_directories">>, <<"succeed_stat", g_testdir1>>, <<"show_statfs", g_testdir1>>,
    <<"write_test_file", g_testfile1>>,
    <<"show_directories">>, <<"succeed_stat", g_testfile1>>, <<"show_statfs", g_testfile1>>,
    <<"read_test_file", g_testfile1>>,
    <<"fail_stat", g_testfile2, "ENOENT">>,
    <<"write_test_file", g_testfile2>>,
    <<"show_directories">>, <<"succeed_stat", g_testfile2>>, <<"show_statfs", g_testfile2>>,
    <<"read_test_file", g_testfile2>>,
    <<"fail_rmdir", g_testfile1, "ENOTDIR">>, <<"fail_rmdir", g_testdir1, "ENOTEMPTY">>,
    <<"fail_unlink", g_testdir1, "EISDIR">>,
    <<"succeed_unlink", g_testfile1>>, <<"fail_stat", g_testfile1, "ENOENT">>,
    <<"show_directories">>,
    <<"fail_read_open", g_testfile1, "ENOENT">>, <<"fail_rmdir", g_testdir1, "ENOTEMPTY">>,
    <<"fail_mkdir", g_testfile2, "EEXIST">>,
    <<"succeed_unlink", g_testfile2>>,
    <<"show_directories">>, <<"fail_stat", g_testfile2, "ENOENT">>,
    <<"fail_mkdir", g_testdir1, "EEXIST">>,
    <<"succeed_rmdir", g_testdir1>>,
    <<"show_directories">>, <<"fail_stat", g_testdir1, "ENOENT">>,
    <<"succeed_mkdir", g_testdir2>>,
    <<"show_directories">>, <<"succeed_stat", g_testdir2>>, <<"show_statfs", g_testdir2>>,
    <<"fail_mkdir", g_testdir2, "EEXIST">>, <<"fail_stat", g_testfile3, "ENOENT">>,
    <<"write_test_file", g_testfile3>>,
    <<"show_directories">>, <<"succeed_stat", g_testfile3>>, <<"show_statfs", g_testfile3>>,
    <<"read_test_file", g_testfile3>>,
    <<"fail_stat", g_testdir3, "ENOENT">>,
    <<"succeed_mkdir", g_testdir3>>,
    <<"show_directories">>, <<"succeed_stat", g_testdir3>>, <<"show_statfs", g_testdir3>>,
    <<"fail_rename", g_mntdir, g_testdir4, "EXDEV">>,
    <<"fail_rename", g_testdir4, g_testdir3, "ENOENT">>, <<"fail_stat", g_testdir4, "ENOENT">>,
    <<"succeed_rename", g_testdir3, g_testdir4>>,
    <<"show_directories">>, <<"fail_stat", g_testdir3, "ENOENT">>,
    <<"succeed_stat", g_testdir4>>, <<"show_statfs", g_testdir4>>,
    <<"fail_stat", g_testfile4, "ENOENT">>,
    <<"succeed_rename", g_testfile3, g_testfile4>>,
    <<"show_directories">>, <<"fail_stat", g_testfile3, "ENOENT">>,
    <<"succeed_stat", g_testfile4>>, <<"show_statfs", g_testfile4>>,
    <<"read_test_file", g_testfile4>>>>

Umount == Len(main_calls) + 1      \* the index of the call that follows them
Reported == Umount + 1             \* the number of errors is printed

MountInit ==
  /\ call = 0
  /\ g_nerrors = 0
  /\ fs \in {[p \in Path |-> IF p = <<"WrTest1">> THEN kind ELSE "none"]
               : kind \in {"none", "file"}}
  /\ clean = FALSE
  /\ unseen = FALSE
  /\ faults = 0

(* The card's driver is set up and the card mounted.  When it cannot be, main prints *)
(* an errno and returns: it counts and reports nothing, and nothing changes here.    *)
MountStarts ==
  /\ call = 0
  /\ call' = 1
  /\ clean' = (\A d \in TestDirs : Has(<<d>>, "none"))
  /\ unseen' = FALSE
  /\ UNCHANGED <<g_nerrors, fs, faults>>

Helper ==
  LET c == main_calls[call]
  IN \/ c[1] = "show_directories" /\ show_directories(g_mntdir)
     \/ c[1] = "show_statfs" /\ show_statfs(c[2])
     \/ c[1] = "fail_read_open" /\ fail_read_open(c[2], c[3])
     \/ c[1] = "read_test_file" /\ read_test_file(c[2])
     \/ c[1] = "write_test_file" /\ write_test_file(c[2])
     \/ c[1] = "fail_mkdir" /\ fail_mkdir(c[2], c[3])
     \/ c[1] = "succeed_mkdir" /\ succeed_mkdir(c[2])
     \/ c[1] = "fail_rmdir" /\ fail_rmdir(c[2], c[3])
     \/ c[1] = "succeed_rmdir" /\ succeed_rmdir(c[2])
     \/ c[1] = "fail_unlink" /\ fail_unlink(c[2], c[3])
     \/ c[1] = "succeed_unlink" /\ succeed_unlink(c[2])
     \/ c[1] = "fail_rename" /\ fail_rename(c[2], c[3], c[4])
     \/ c[1] = "succeed_rename" /\ succeed_rename(c[2], c[3])
     \/ c[1] = "fail_stat" /\ fail_stat(c[2], c[3])
     \/ c[1] = "succeed_stat" /\ succeed_stat(c[2])

MountCalls ==
  /\ call \in DOMAIN main_calls
  /\ Helper
  /\ call' = call + 1
  /\ UNCHANGED clean

MountUmounts ==
  /\ call = Umount
  /\ Expects(Gives("OK", fs), "OK")
  /\ call' = Reported
  /\ UNCHANGED clean

MountEnds ==
  /\ call = Reported
  /\ call' = 0
  /\ UNCHANGED <<g_nerrors, fs, clean, unseen, faults>>

MountNext == MountStarts \/ MountCalls \/ MountUmounts \/ MountEnds

(* The memory is lost, and the card keeps what it holds. *)
MountPowerOff ==
  /\ call' = 0
  /\ g_nerrors' = 0
  /\ clean' = FALSE
  /\ unseen' = FALSE
  /\ faults' = 0
  /\ UNCHANGED fs

MountSpec == MountInit /\ [][MountNext \/ MountPowerOff]_mountVars

----
(* Properties. *)

(* What the report of main of mount_main.c may be relied on for; main neither cleans  *)
(* up nor resets the number it prints.  On a card that has worked since power-up it   *)
(* prints 0 exactly when the card held none of the test's directories as this run     *)
(* began, so never again after the first run.  And when it prints 0 and no fault of   *)
(* the card in this run went unseen, the run did everything it should: it began on    *)
(* such a card, the two directories it leaves are there, the file it moved is in the  *)
(* second, and nothing else of the test's is left.                                    *)
ReportRight ==
  call = Reported =>
    /\ faults = 0 => (g_nerrors = 0 <=> clean)
    /\ g_nerrors = 0 /\ ~unseen =>
         /\ clean
         /\ {p \in Path : fs[p] = "dir"} = {g_testdir2, g_testdir4}
         /\ {p \in Path : fs[p] = "file"} = {g_testfile4}
====
