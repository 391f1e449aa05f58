---- MODULE Dhrystone ----
(* The Dhrystone benchmark of this system (src/smp_main-dhrystone.c).  A run of its  *)
(* loop is one step: v holds the variables it shares and those of main.  Characters  *)
(* are their codes; of a string, its two characters that are read and its place in   *)
(* the order of strcmp; of the arrays, the elements that a run touches.  Integers    *)
(* and mcycle's low half wrap behind INT_MAX: 2^31 - 1 in the program.               *)
EXTENDS Integers

CONSTANTS INT_MAX, HZ, NUMBER_OF_RUNS, Too_Small_Time,
          StartCycles,  \* bound: mcycle when a measurement starts
          TrialCycles,  \* bound: the cycles it may take
          MaxTrials     \* bound: the measurements

ints == 2 * (INT_MAX + 1)

ASSUME DhryAssumption ==
  /\ INT_MAX \in Nat /\ HZ \in Nat \ {0} /\ NUMBER_OF_RUNS \in 1 .. INT_MAX
  /\ Too_Small_Time = 1
  /\ StartCycles \subseteq 0 .. ints - 1 /\ TrialCycles \subseteq Nat /\ MaxTrials \in Nat

VARIABLES stage,           \* "idle", "trial", "running" or "done"
          v,               \* the variables of the benchmark
          Number_Of_Runs, Run_Index, t0, User_Time,
          trials, total,   \* history: the measurements, and the runs in all of them
          cycles           \* history: what the last measurement really took

dhryVars == <<stage, v, Number_Of_Runs, Run_Index, t0, User_Time, trials, total, cycles>>

Signed(x) == ((x + INT_MAX + 1) % ints) - INT_MAX - 1

Ident_1 == 0
Ident_2 == 1
Ident_3 == 2
Ident_4 == 3
Ident_5 == 4

A == 65
B == 66
C == 67

(* The strings that begin with DHRYSTONE, in their order. *)
FIRST_STRING == 1
SECOND_STRING == 2
THIRD_STRING == 3
SOME_STRING == 4
Letter(str, n) == IF n = 2 THEN 82 ELSE 89     \* 'R' and 'Y'

----
(* The procedures.  Each takes the variables and gives what it leaves of them; one   *)
(* with a result or a reference to a variable of main gives that.                    *)

Proc_7(Int_1_Par_Val, Int_2_Par_Val) == Int_2_Par_Val + (Int_1_Par_Val + 2)

Proc_5(s) == [s EXCEPT !.Ch_1_Glob = A, !.Bool_Glob = FALSE]

Proc_4(s) == [s EXCEPT !.Bool_Glob = (s.Ch_1_Glob = A) \/ @, !.Ch_2_Glob = B]

Func_3(Enum_Par_Val) == Enum_Par_Val = Ident_3

Proc_6(s, Enum_Val_Par) ==
  CASE Enum_Val_Par = Ident_1 -> Ident_1
    [] Enum_Val_Par = Ident_2 -> IF s.Int_Glob > 100 THEN Ident_1 ELSE Ident_4
    [] Enum_Val_Par = Ident_3 -> Ident_2
    [] Enum_Val_Par = Ident_4 -> IF Func_3(Enum_Val_Par) THEN Enum_Val_Par ELSE Ident_4
    [] Enum_Val_Par = Ident_5 -> Ident_3

Proc_8(s, Int_1_Par_Val, Int_2_Par_Val) ==
  LET loc == Int_1_Par_Val + 5
      arr_1 == [s.Arr_1_Glob EXCEPT ![loc] = Int_2_Par_Val, ![loc + 1] = Int_2_Par_Val,
                                    ![loc + 30] = loc]
      arr_2 == [s.Arr_2_Glob EXCEPT ![<<loc, loc>>] = loc, ![<<loc, loc + 1>>] = loc,
                                    ![<<loc, loc - 1>>] = @ + 1,
                                    ![<<loc + 20, loc>>] = Int_2_Par_Val]
  IN [s EXCEPT !.Arr_1_Glob = arr_1, !.Arr_2_Glob = arr_2, !.Int_Glob = 5]

Func_1(ch_1, ch_2) == IF ch_1 # ch_2 THEN Ident_1 ELSE Ident_2
Func_1_Leaves(s, ch_1, ch_2) == IF ch_1 # ch_2 THEN s ELSE [s EXCEPT !.Ch_1_Glob = ch_1]

(* Its loop runs once when the letters differ, and for ever when they do not; Ch_Loc *)
(* is then 'A', and Int_Loc 3.                                                       *)
Func_2_Differs(str_1, str_2) == Func_1(Letter(str_1, 2), Letter(str_2, 3)) = Ident_1
Func_2(str_1, str_2) == str_1 > str_2
Func_2_Leaves(s, str_1, str_2) ==
  IF str_1 > str_2 THEN [s EXCEPT !.Int_Glob = 3 + 7] ELSE s

(* An assignment to a component of the record at p. *)
SetInt(s, p, int) == [s EXCEPT !.rec[p].Int_Comp = int]
SetEnum(s, p, enum) == [s EXCEPT !.rec[p].Enum_Comp = enum]
SetPtr(s, p, ptr) == [s EXCEPT !.rec[p].Ptr_Comp = ptr]

(* Slip: the other record is counted in. *)
Proc_3Other(s, p) ==
  SetInt(SetPtr(s, p, s.rec["Ptr_Glob"].Ptr_Comp), p, Proc_7(10, s.Int_Glob))

(* To the record at p: the next record becomes the one Ptr_Comp of it points to. *)
Proc_3(s, p) ==
  SetInt(SetPtr(s, p, s.rec["Ptr_Glob"].Ptr_Comp), "Ptr_Glob", Proc_7(10, s.Int_Glob))

Proc_1(s, p) ==
  LET next == s.rec[p].Ptr_Comp
      copied == [s EXCEPT !.rec[next] = s.rec["Ptr_Glob"]]
      five == SetPtr(SetInt(SetInt(copied, p, 5), next, 5), next, copied.rec[p].Ptr_Comp)
      third == Proc_3(five, next)
      sixth == SetEnum(third, next, Proc_6(third, third.rec[p].Enum_Comp))
  IN IF third.rec[next].Discr = Ident_1
       THEN SetInt(SetPtr(sixth, next, sixth.rec["Ptr_Glob"].Ptr_Comp), next, Proc_7(6, 10))
       ELSE [third EXCEPT !.rec[p] = third.rec[third.rec[p].Ptr_Comp]]

(* *Int_Par_Ref; the loop runs once if Ch_1_Glob is 'A', and for ever if it is not. *)
Proc_2(s, Int_Par_Ref) == ((Int_Par_Ref + 10) - 1) - s.Int_Glob

(* One of the letters main goes through. *)
Compare(s, Ch_Index) ==
  LET after == Func_1_Leaves(s, Ch_Index, C)
  IN IF s.Enum_Loc = Func_1(Ch_Index, C)
       THEN [after EXCEPT !.Enum_Loc = Proc_6(after, Ident_1), !.Str_2_Loc = THIRD_STRING,
                          !.Int_2_Loc = Run_Index, !.Int_Glob = Run_Index]
       ELSE after

(* The letters from 'A' to that of Ch_2_Glob, in turn. *)
Compared(s) ==
  LET through[letter \in A - 1 .. s.Ch_2_Glob] ==
        IF letter < A THEN s ELSE Compare(through[letter - 1], letter)
  IN through[s.Ch_2_Glob]

(* A run of main's loop. *)
Run(s0) ==
  LET four == Proc_4(Proc_5(s0))
      set == [four EXCEPT !.Str_2_Loc = SECOND_STRING, !.Enum_Loc = Ident_2]
      differ == [Func_2_Leaves(set, set.Str_1_Loc, set.Str_2_Loc)
                   EXCEPT !.Bool_Glob = ~Func_2(set.Str_1_Loc, set.Str_2_Loc)]
      \* Int_1_Loc is 2 and Int_2_Loc 3: the loop that follows runs once
      seven == [differ EXCEPT !.Int_1_Loc = 3, !.Int_2_Loc = 3, !.Int_3_Loc = Proc_7(2, 3)]
      one == Proc_1(Proc_8(seven, seven.Int_1_Loc, seven.Int_3_Loc), "Ptr_Glob")
      compared == Compared(one)
      product == compared.Int_2_Loc * compared.Int_1_Loc
      quotient == product \div compared.Int_3_Loc
  IN [compared EXCEPT !.Int_2_Loc = 7 * (product - compared.Int_3_Loc) - quotient,
                      !.Int_1_Loc = Proc_2(compared, quotient)]

----
(* Main. *)

Unset == [Ptr_Comp |-> "Null", Discr |-> 0, Enum_Comp |-> 0, Int_Comp |-> 0, Str_Comp |-> 0]

Elements_1 == {8, 9, 38}
Elements_2 == {8, 28} \X {7, 8, 9}

AtPowerUp ==
  [Int_Glob |-> 0, Bool_Glob |-> FALSE, Ch_1_Glob |-> 0, Ch_2_Glob |-> 0,
   Arr_1_Glob |-> [n \in Elements_1 |-> 0], Arr_2_Glob |-> [n \in Elements_2 |-> 0],
   rec |-> [p \in {"Ptr_Glob", "Next_Ptr_Glob"} |-> Unset],
   Int_1_Loc |-> 0, Int_2_Loc |-> 0, Int_3_Loc |-> 0, Enum_Loc |-> 0,
   Str_1_Loc |-> 0, Str_2_Loc |-> 0]

DhryInit ==
  /\ stage = "idle"
  /\ v = AtPowerUp
  /\ Number_Of_Runs = 0 /\ Run_Index = 0 /\ t0 = 0 /\ User_Time = 0
  /\ trials = 0 /\ total = 0 /\ cycles = 0

DhryStarts ==
  /\ stage = "idle"
  /\ stage' = "trial"
  /\ v' = [v EXCEPT !.rec["Ptr_Glob"] =
                        [Ptr_Comp |-> "Next_Ptr_Glob", Discr |-> Ident_1,
                         Enum_Comp |-> Ident_3, Int_Comp |-> 40, Str_Comp |-> SOME_STRING],
                    !.Str_1_Loc = FIRST_STRING,
                    !.Arr_2_Glob[<<8, 7>>] = 10]
  /\ Number_Of_Runs' = NUMBER_OF_RUNS
  /\ trials' = 0 /\ total' = 0
  /\ UNCHANGED <<Run_Index, t0, User_Time, cycles>>

TrialStarts ==
  /\ stage = "trial"
  /\ trials < MaxTrials
  /\ t0' \in StartCycles
  /\ Run_Index' = 1
  /\ stage' = "running"
  /\ trials' = trials + 1
  /\ UNCHANGED <<v, Number_Of_Runs, User_Time, total, cycles>>

Runs ==
  /\ stage = "running"
  /\ Run_Index <= Number_Of_Runs
  /\ v' = Run(v)
  /\ Run_Index' = Run_Index + 1
  /\ total' = total + 1
  /\ UNCHANGED <<stage, Number_Of_Runs, t0, User_Time, trials, cycles>>

TrialEnds ==
  /\ stage = "running"
  /\ Run_Index > Number_Of_Runs
  /\ cycles' \in TrialCycles
  /\ LET t1 == (t0 + cycles') % ints IN User_Time' = Signed(t1 - t0)
  /\ IF User_Time' < Too_Small_Time
       THEN stage' = "trial" /\ Number_Of_Runs' = Signed(Number_Of_Runs * 10)
       ELSE stage' = "done" /\ UNCHANGED Number_Of_Runs
  /\ UNCHANGED <<v, Run_Index, t0, trials, total>>

Truncated(a, b) == IF a >= 0 THEN a \div b ELSE -((-a) \div b)

Dhrystones_Per_Second == Truncated(Signed(HZ * Number_Of_Runs), User_Time)

DhryEnds ==
  /\ stage = "done"
  /\ stage' = "idle"
  /\ UNCHANGED <<v, Number_Of_Runs, Run_Index, t0, User_Time, trials, total, cycles>>

DhryNext == DhryStarts \/ TrialStarts \/ Runs \/ TrialEnds \/ DhryEnds

DhryReset ==
  /\ stage' = "idle"
  /\ v' = AtPowerUp
  /\ Number_Of_Runs' = 0 /\ Run_Index' = 0 /\ t0' = 0 /\ User_Time' = 0
  /\ trials' = 0 /\ total' = 0 /\ cycles' = 0

DhrySpec == DhryInit /\ [][DhryNext]_dhryVars

----
(* Properties. *)

(* Each loop of a run that has no bound ends: Func_2's, because the letters it is     *)
(* given differ, and Proc_2's, because Ch_1_Glob is then 'A'.                         *)
LoopsEnd == Func_2_Differs(v.Str_1_Loc, v.Str_2_Loc) /\ v.Ch_1_Glob = A

(* The variables hold the values smp_main-dhrystone.c prints next to them as the ones *)
(* they should have.  Arr_2_Glob[8][7] has counted the runs of every measurement; it  *)
(* is the Number_Of_Runs + 10 that is printed when the first was long enough.         *)
ShouldBe ==
  /\ v.Int_Glob = 5 /\ v.Bool_Glob /\ v.Ch_1_Glob = A /\ v.Ch_2_Glob = B
  /\ v.Arr_1_Glob[8] = 7
  /\ v.Arr_2_Glob[<<8, 7>>] = 10 + total
  /\ trials = 1 => total = Number_Of_Runs
  /\ v.rec["Ptr_Glob"] = [Ptr_Comp |-> "Next_Ptr_Glob", Discr |-> 0, Enum_Comp |-> 2,
                          Int_Comp |-> 17, Str_Comp |-> SOME_STRING]
  /\ v.rec["Next_Ptr_Glob"] = [Ptr_Comp |-> "Next_Ptr_Glob", Discr |-> 0,
                               Enum_Comp |-> 1, Int_Comp |-> 18, Str_Comp |-> SOME_STRING]
  /\ v.Int_1_Loc = 5 /\ v.Int_2_Loc = 13 /\ v.Int_3_Loc = 7 /\ v.Enum_Loc = 1
  /\ v.Str_1_Loc = FIRST_STRING /\ v.Str_2_Loc = SECOND_STRING

(* The rate is the real one, whatever mcycle was at the start, for a measurement      *)
(* below half of its range and as long as HZ * Number_Of_Runs fits: from the first    *)
(* measurement that is repeated on it does not, with the constants of the program,    *)
(* and at last Number_Of_Runs itself wraps below 0.                                   *)
RateRight ==
  cycles <= INT_MAX /\ HZ * Number_Of_Runs \in 0 .. INT_MAX
    => Dhrystones_Per_Second = (HZ * Number_Of_Runs) \div cycles

(* What the benchmark prints is right, after any number of measurements and whatever  *)
(* an earlier call of main left in the variables (main of smp_main-dhrystone.c).      *)
ResultsRight ==
  /\ Run_Index > 1 => LoopsEnd
  /\ stage = "done" => ShouldBe /\ RateRight
====
