---- MODULE Programs ----
(* The programs this system is built to start (CONFIG_INIT_ENTRYPOINT, or a command  *)
(* of its shell): the SMP test, the Dhrystone benchmark, which is another smp_main,  *)
(* and the file system test.  The program may be run again and again, and the power  *)
(* may go at any time: the memory is then lost, and the card is not.                 *)
EXTENDS SmpBarrier, MountTest, Dhrystone

VARIABLE image     \* the program of this build

vars == <<image, smpVars, mountVars, dhryVars>>

Init ==
  /\ image \in {"smp", "mount", "dhrystone"}
  /\ SmpInit /\ MountInit /\ DhryInit

SmpRuns == image = "smp" /\ SmpNext /\ UNCHANGED <<image, mountVars, dhryVars>>
MountRuns == image = "mount" /\ MountNext /\ UNCHANGED <<image, smpVars, dhryVars>>
DhryRuns == image = "dhrystone" /\ DhryNext /\ UNCHANGED <<image, smpVars, mountVars>>

PowerOff == SmpReset /\ MountPowerOff /\ DhryReset /\ UNCHANGED image

Next == SmpRuns \/ MountRuns \/ DhryRuns \/ PowerOff

Spec == Init /\ [][Next]_vars /\ SmpFair
====
