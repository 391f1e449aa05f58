---- MODULE ProgramsProofs ----
(* Theorems about Programs: the SMP test for any number of threads, the file system  *)
(* test for any number of errors of the card, the benchmark for any width of an      *)
(* integer, any time a measurement takes and any number of measurements; each run    *)
(* again and again, over any power cuts.                                             *)
EXTENDS Programs, FiniteSetTheorems, TLAPS

----
(* The SMP test.  The invariant is built in layers, each inductive with the ones      *)
(* below it: the types; where main is against what it has created and destroyed; the  *)
(* threads it has joined; the barrier; and the semaphore.                             *)

USE SmpAssumption

Early == {"idle", "show", "initializing", "barrierattr_init", "barrier_init",
          "starting", "attr_init", "attr_failed", "barrier_failed", "tattr_failed"}
Creating == {"create", "created", "created_cpu"}
Joining == {"waiting", "join", "joined_cpu", "joined"}
Leaving == {"errout_with_barrier", "destroy_failed", "errout_with_attr",
            "adestroy_failed", "errout", "returned"}
Failed == {"attr_failed", "barrier_failed", "tattr_failed", "create_failed", "aborted",
           "failed_cpu", "join_failed"}

(* Main, and what it has made so far. *)
MainInv ==
  /\ main \in Early => threadid = {}
  /\ main \in Early \ Failed => errcode = EXIT_SUCCESS
  /\ main \in Creating => errcode = EXIT_SUCCESS /\ threadid = 1 .. i
  /\ main \in Joining \union {"all_created"} /\ errcode = EXIT_SUCCESS => threadid = Thread
  /\ main \in Failed => errcode = EXIT_FAILURE
  /\ main \in Leaving /\ errcode = EXIT_SUCCESS => destroyed
  /\ destroyed => main \in Leaving
  /\ main \in Leaving /\ ~destroyed => threadid = {}
  /\ \A t \in Thread : t \in threadid <=> at[t] >= 1
  /\ main = "idle" => nsem = 0 /\ ~destroyed /\ \A p \in Process : printing[p] = "no"

(* The threads that main has joined, when none of its joins failed. *)
JoinInv ==
  /\ main \in Joining /\ errcode = EXIT_SUCCESS => \A t \in 1 .. i : Returned(t)
  /\ destroyed /\ errcode = EXIT_SUCCESS => \A t \in Thread : Returned(t)

(* The barrier, which stands while a thread may use it or has lost its protection: a  *)
(* thread that it let go has seen them all.                                           *)
BarrierInv ==
  /\ main \in {"starting", "attr_init"} \union Creating => barrier.count = NBARRIER_THREADS
  /\ \A t \in Thread : at[t] >= 1 => barrier.count = NBARRIER_THREADS \/ destroyed
  /\ \A t \in Thread : t \in barrier.waiting => at[t] >= BarrierStep
  /\ ~BarrierGone =>
       \A t \in Thread : at[t] > BarrierStep /\ t \notin barrier.erred => barrier.waiting = Thread

(* The semaphore. *)
SemInv ==
  ~DestroyedEarly =>
    /\ nsem \in {0, 1}
    /\ \A p \in Process : printing[p] = "has" => nsem = 0
    /\ \A p, q \in Process : printing[p] = "has" /\ printing[q] = "has" => p = q

SmpInv == SmpTypeOK /\ MainInv /\ JoinInv /\ BarrierInv /\ SemInv

LEMMA Numbers == /\ EXIT_SUCCESS = 0 /\ EXIT_FAILURE = 1
                 /\ BarrierStep = 6 /\ Ended = 12
                 /\ 0 \notin Thread /\ 0 \in Process /\ Thread \subseteq Process
BY DEF EXIT_SUCCESS, EXIT_FAILURE, BarrierStep, Ended, Thread, Process

(* The program of a thread has eleven steps, and its barrier is the sixth. *)
LEMMA Program ==
  /\ DOMAIN barrier_thread = 1 .. 11
  /\ \A n \in 1 .. 11 : barrier_thread[n] = "barrier" <=> n = BarrierStep
BY DEF barrier_thread, hog_time, BarrierStep

(* The steps of main that only print or look, spelled out. *)
LEMMA Prints ==
  ASSUME MainPrints
  PROVE  /\ printing[0] = "no"
         /\ \E step \in MainPrint : main = step[1] /\ main' = step[2]
         /\ main \in SmpLabels
         /\ printing' = [printing EXCEPT ![0] = "wants"]
         /\ UNCHANGED <<at, nsem, destroyed, barrier, threadid, i, errcode>>
BY DEF MainPrints, MainAt, MainPrint, SmpLabels, dbginfo

LEMMA Checks ==
  ASSUME MainChecks
  PROVE  /\ printing[0] = "no"
         /\ \E step \in MainCheck : main = step[1] /\ main' = step[2]
         /\ \/ printing' = [printing EXCEPT ![0] = "wants"]
            \/ printing' = printing
         /\ UNCHANGED <<at, nsem, destroyed, barrier, threadid, i, errcode>>
BY DEF MainChecks, MainAt, MainCheck, show_cpu_conditional, dbginfo

(* The five steps of a thread change nothing of main's, and at[t] by one. *)
LEMMA ThreadSteps ==
  ASSUME SmpTypeOK, NEW t \in Thread, ThreadStep(t) \/ ThreadErrs(t)
  PROVE  /\ UNCHANGED <<main, nsem, destroyed, threadid, i, errcode>>
         /\ at[t] \in 1 .. 11 /\ printing[t] = "no"
         /\ at' = at \/ at' = [at EXCEPT ![t] = @ + 1]
         /\ printing' = printing \/ printing' = [printing EXCEPT ![t] = "wants"]
BY Program DEF ThreadStep, ThreadPrints, ThreadChecks, ThreadArrives, ThreadLeaves,
   ThreadErrs, ThreadAt, Advance, dbginfo, show_cpu_conditional

LEMMA PrintSteps ==
  ASSUME NEW p \in Process, PrintStep(p)
  PROVE  /\ UNCHANGED <<main, at, destroyed, barrier, threadid, i, errcode>>
         /\ printing[p] # "no"
         /\ \/ /\ printing[p] = "wants" /\ nsem > 0 /\ nsem' = nsem - 1
               /\ printing' = [printing EXCEPT ![p] = "has"]
            \/ /\ printing[p] = "has" /\ nsem' = nsem + 1
               /\ printing' = [printing EXCEPT ![p] = "no"]
BY DEF PrintStep, nxsem_wait, nxsem_post

----
(* The type of g_smp_barrier. *)
BarrierType ==
  [count : {0, NBARRIER_THREADS}, waiting : SUBSET Thread, erred : SUBSET Thread]

LEMMA TypeInit == SmpInit => SmpTypeOK
<1> SUFFICES ASSUME SmpInit PROVE SmpTypeOK
  OBVIOUS
<1>1. barrier \in BarrierType
  BY DEF SmpInit, NoBarrier, BarrierType
<1>2. i \in 0 .. NBARRIER_THREADS
  BY DEF SmpInit
<1>3. at \in [Thread -> 0 .. Ended] /\ printing \in [Process -> {"no", "wants", "has"}]
  BY Numbers DEF SmpInit
<1> QED
  BY <1>1, <1>2, <1>3, Numbers DEF SmpInit, SmpTypeOK, SmpLabels, BarrierType

LEMMA TypeStep == SmpTypeOK /\ [SmpNext]_smpVars => SmpTypeOK'
<1> SUFFICES ASSUME SmpTypeOK, [SmpNext]_smpVars PROVE SmpTypeOK'
  OBVIOUS
<1> USE Numbers
<1>1. CASE MainPrints
  BY <1>1, Prints DEF SmpTypeOK, SmpLabels, MainPrint
<1>2. CASE MainChecks
  BY <1>2, Checks DEF SmpTypeOK, SmpLabels, MainCheck
<1>3. CASE MainStarts
  BY <1>3 DEF SmpTypeOK, SmpLabels, MainStarts
<1>4. CASE BarrierAttrInit \/ AttrInit
  BY <1>4 DEF SmpTypeOK, SmpLabels, BarrierAttrInit, AttrInit, Tested
<1>5. CASE BarrierInit
  <2>1. barrier' \in BarrierType
    BY <1>5 DEF SmpTypeOK, BarrierInit, NoBarrier, BarrierType
  <2> QED
    BY <1>5, <2>1 DEF SmpTypeOK, SmpLabels, BarrierInit, Tested, BarrierType
<1>6. CASE CreateSucceeds
  BY <1>6 DEF SmpTypeOK, SmpLabels, CreateSucceeds, Thread
<1>7. CASE CreateFails \/ CreateEnds
  BY <1>7 DEF SmpTypeOK, SmpLabels, CreateFails, CreateEnds
<1>8. CASE AllCreated
  BY <1>8 DEF SmpTypeOK, SmpLabels, AllCreated, show_cpu_conditional, dbginfo
<1>9. CASE JoinSkips
  BY <1>9 DEF SmpTypeOK, SmpLabels, JoinSkips
<1>10. CASE JoinSucceeds \/ JoinFails
  BY <1>10 DEF SmpTypeOK, SmpLabels, JoinSucceeds, JoinFails, Joins
<1>11. CASE SemDestroy
  BY <1>11 DEF SmpTypeOK, SmpLabels, SemDestroy
<1>12. CASE BarrierDestroy \/ BarrierAttrDestroy
  <2>1. barrier' \in BarrierType
    BY <1>12 DEF SmpTypeOK, BarrierDestroy, BarrierAttrDestroy, BarrierType
  <2> QED
    BY <1>12, <2>1 DEF SmpTypeOK, SmpLabels, BarrierDestroy, BarrierAttrDestroy, Destroy,
       BarrierType
<1>13. CASE MainExits
  <2>1. barrier' \in BarrierType
    BY <1>13 DEF MainExits, SmpReset, NoBarrier, BarrierType
  <2>2. i' \in 0 .. NBARRIER_THREADS
    BY <1>13 DEF MainExits, SmpReset
  <2>3. at' \in [Thread -> 0 .. Ended] /\ printing' \in [Process -> {"no", "wants", "has"}]
    BY <1>13 DEF MainExits, SmpReset
  <2> QED
    BY <1>13, <2>1, <2>2, <2>3 DEF SmpTypeOK, SmpLabels, MainExits, SmpReset, BarrierType
<1>14. ASSUME NEW t \in Thread, ThreadStep(t) \/ ThreadErrs(t) PROVE SmpTypeOK'
  <2>1. barrier' \in BarrierType
    <3>1. CASE UNCHANGED barrier
      BY <3>1 DEF SmpTypeOK, BarrierType
    <3>2. CASE ThreadArrives(t)
      BY <3>2 DEF SmpTypeOK, ThreadArrives, BarrierType
    <3>3. CASE ThreadErrs(t)
      <4>1. barrier' = [barrier EXCEPT !.waiting = @ \ {t}, !.erred = @ \union {t}]
        BY <3>3 DEF ThreadErrs
      <4>2. barrier.waiting \ {t} \in SUBSET Thread /\ barrier.erred \union {t} \in SUBSET Thread
        BY DEF SmpTypeOK
      <4> QED
        BY <4>1, <4>2 DEF SmpTypeOK, BarrierType
    <3> QED
      BY <1>14, <3>1, <3>2, <3>3 DEF ThreadStep, ThreadPrints, ThreadChecks, ThreadLeaves, Advance
  <2> QED
    BY <1>14, <2>1, ThreadSteps DEF SmpTypeOK, BarrierType
<1>15. ASSUME NEW p \in Process, PrintStep(p) PROVE SmpTypeOK'
  BY <1>15, PrintSteps DEF SmpTypeOK
<1>16. CASE UNCHANGED smpVars
  BY <1>16 DEF SmpTypeOK, smpVars
<1> QED
  BY <1>1, <1>2, <1>3, <1>4, <1>5, <1>6, <1>7, <1>8, <1>9, <1>10, <1>11, <1>12, <1>13,
     <1>14, <1>15, <1>16 DEF SmpNext, MainGoesOn

----
LEMMA MainInit == SmpInit => MainInv
BY Numbers DEF SmpInit, MainInv, Early, Creating, Joining, Leaving, Failed

LEMMA MainStep == SmpTypeOK /\ MainInv /\ [SmpNext]_smpVars => MainInv'
<1> SUFFICES ASSUME SmpTypeOK, MainInv, [SmpNext]_smpVars PROVE MainInv'
  OBVIOUS
<1> USE Numbers DEF MainInv, Early, Creating, Joining, Leaving, Failed
<1>1. CASE MainPrints
  BY <1>1, Prints DEF MainPrint
<1>2. CASE MainChecks
  BY <1>2, Checks DEF MainCheck
<1>3. CASE MainStarts
  BY <1>3 DEF MainStarts
<1>4. CASE BarrierAttrInit \/ BarrierInit
  BY <1>4 DEF BarrierAttrInit, BarrierInit, Tested, MainAt
<1>5. CASE AttrInit
  <2>1. 1 .. 0 = {}
    OBVIOUS
  <2>2. main = "attr_init" /\ i' = 0 /\ main' \in {"create", "tattr_failed"}
    BY <1>5 DEF AttrInit, Tested, MainAt
  <2>3. threadid' = {}
    BY <1>5, <2>2 DEF AttrInit, Tested
  <2> QED
    BY <1>5, <2>1, <2>2, <2>3 DEF AttrInit, Tested, MainAt
<1>6. CASE CreateSucceeds
  <2>1. i + 1 \in Thread /\ i \in Nat
    BY <1>6 DEF CreateSucceeds, Thread, SmpTypeOK
  <2>2. threadid' = 1 .. i'
    BY <1>6, <2>1 DEF CreateSucceeds, MainAt
  <2>3. \A t \in Thread : t \in threadid' <=> at'[t] >= 1
    BY <1>6, <2>1 DEF CreateSucceeds, MainAt, SmpTypeOK
  <2> QED
    BY <1>6, <2>2, <2>3 DEF CreateSucceeds, MainAt
<1>7. CASE CreateFails
  BY <1>7 DEF CreateFails, MainAt
<1>8. CASE CreateEnds
  BY <1>8 DEF CreateEnds, MainAt, Thread
<1>9. CASE AllCreated
  BY <1>9 DEF AllCreated, MainAt
<1>10. CASE JoinSkips
  BY <1>10 DEF JoinSkips, MainAt
<1>11. CASE JoinSucceeds \/ JoinFails
  BY <1>11 DEF JoinSucceeds, JoinFails, Joins, MainAt
<1>12. CASE SemDestroy
  BY <1>12 DEF SemDestroy, MainAt
<1>13. CASE BarrierDestroy \/ BarrierAttrDestroy
  BY <1>13 DEF BarrierDestroy, BarrierAttrDestroy, Destroy, MainAt
<1>14. CASE MainExits
  BY <1>14 DEF MainExits, SmpReset
<1>15. ASSUME NEW t \in Thread, ThreadStep(t) \/ ThreadErrs(t) PROVE MainInv'
  <2>1. /\ UNCHANGED <<main, nsem, destroyed, threadid, i, errcode>>
        /\ at[t] \in 1 .. 11
        /\ at' = at \/ at' = [at EXCEPT ![t] = @ + 1]
    BY <1>15, ThreadSteps
  <2>2. \A u \in Thread : at'[u] >= 1 <=> at[u] >= 1
    BY <2>1 DEF SmpTypeOK
  <2>3. main # "idle"
    BY <2>1
  <2> QED
    BY <2>1, <2>2, <2>3
<1>16. ASSUME NEW p \in Process, PrintStep(p) PROVE MainInv'
  BY <1>16, PrintSteps
<1>17. CASE UNCHANGED smpVars
  BY <1>17 DEF smpVars
<1> QED
  BY <1>1, <1>2, <1>3, <1>4, <1>5, <1>6, <1>7, <1>8, <1>9, <1>10, <1>11, <1>12, <1>13,
     <1>14, <1>15, <1>16, <1>17 DEF SmpNext, MainGoesOn

----
(* A thread that has returned, or has not been created, takes no step. *)
LEMMA ReturnedStays ==
  ASSUME SmpTypeOK, NEW u \in Thread, Returned(u),
         (\E t \in Thread : ThreadStep(t) \/ ThreadErrs(t)) \/ (\E p \in Process : PrintStep(p))
  PROVE  Returned(u)'
<1>1. ASSUME NEW t \in Thread, ThreadStep(t) \/ ThreadErrs(t) PROVE Returned(u)'
  <2>1. t # u
    BY <1>1, ThreadSteps, Numbers DEF Returned
  <2> QED
    BY <1>1, <2>1, ThreadSteps, Numbers DEF Returned, SmpTypeOK
<1>2. ASSUME NEW p \in Process, PrintStep(p) PROVE Returned(u)'
  BY <1>2, PrintSteps, Numbers DEF Returned, SmpTypeOK
<1> QED
  BY <1>1, <1>2

LEMMA JoinInit == SmpInit => JoinInv
BY Numbers DEF SmpInit, JoinInv, Joining

LEMMA JoinStep == SmpTypeOK /\ MainInv /\ JoinInv /\ [SmpNext]_smpVars => JoinInv'
<1> SUFFICES ASSUME SmpTypeOK, MainInv, JoinInv, [SmpNext]_smpVars PROVE JoinInv'
  OBVIOUS
<1> USE Numbers DEF JoinInv, Joining
<1>a. \A t \in Thread : t \in Process /\ t # 0
  OBVIOUS
<1>1. CASE MainPrints
  <2>1. \A t \in Thread : printing'[t] = printing[t]
    BY <1>1, <1>a, Prints DEF SmpTypeOK
  <2>2. main' \in Joining => main \in Joining \/ errcode # EXIT_SUCCESS
    BY <1>1, Prints DEF MainPrint, MainInv, Failed
  <2>3. i \in 0 .. NBARRIER_THREADS /\ 1 .. i \subseteq Thread
    BY DEF SmpTypeOK, Thread
  <2> QED
    BY <1>1, <2>1, <2>2, <2>3, Prints DEF Returned
<1>2. CASE MainChecks
  <2>1. \A t \in Thread : printing'[t] = printing[t]
    BY <1>2, <1>a, Checks DEF SmpTypeOK
  <2>2. main' \in Joining => main \in Joining \/ errcode # EXIT_SUCCESS
    BY <1>2, Checks DEF MainCheck, MainInv, Failed
  <2>3. i \in 0 .. NBARRIER_THREADS /\ 1 .. i \subseteq Thread
    BY DEF SmpTypeOK, Thread
  <2> QED
    BY <1>2, <2>1, <2>2, <2>3, Checks DEF Returned
<1>3. CASE MainStarts
  BY <1>3 DEF MainStarts, MainInv
<1>4. CASE BarrierAttrInit \/ BarrierInit \/ AttrInit
  BY <1>4 DEF BarrierAttrInit, BarrierInit, AttrInit, Tested, MainAt, MainInv, Leaving
<1>5. CASE CreateSucceeds \/ CreateFails \/ CreateEnds
  BY <1>5 DEF CreateSucceeds, CreateFails, CreateEnds, MainAt, MainInv, Leaving
<1>6. CASE AllCreated
  <2>1. main' = "waiting" /\ i' = 0 /\ ~destroyed'
    BY <1>6 DEF AllCreated, MainAt, MainInv, Leaving
  <2> QED
    BY <2>1
<1>7. CASE JoinSkips
  BY <1>7 DEF JoinSkips, MainAt, MainInv, Leaving, SmpTypeOK, Thread
<1>8. CASE JoinSucceeds
  <2>1. /\ i \in Nat /\ main = "join" /\ ~destroyed' /\ Returned(i + 1) /\ i' = i + 1
        /\ UNCHANGED <<at, printing, errcode>>
    BY <1>8 DEF JoinSucceeds, Joins, MainAt, MainInv, Leaving, SmpTypeOK
  <2>2. \A t \in 1 .. i' : t \in 1 .. i \/ t = i + 1
    BY <2>1
  <2> QED
    BY <2>1, <2>2 DEF Returned
<1>9. CASE JoinFails
  BY <1>9 DEF JoinFails
<1>10. CASE SemDestroy
  BY <1>10 DEF SemDestroy, MainAt, Thread, Returned
<1>11. CASE BarrierDestroy \/ BarrierAttrDestroy
  BY <1>11 DEF BarrierDestroy, BarrierAttrDestroy, Destroy, MainAt, Returned
<1>12. CASE MainExits
  BY <1>12 DEF MainExits, SmpReset
<1>13. CASE (\E t \in Thread : ThreadStep(t) \/ ThreadErrs(t)) \/ (\E p \in Process : PrintStep(p))
  <2>1. UNCHANGED <<main, destroyed, i, errcode>>
    BY <1>13, ThreadSteps, PrintSteps
  <2>2. \A u \in Thread : Returned(u) => Returned(u)'
    BY <1>13, ReturnedStays
  <2>3. i \in 0 .. NBARRIER_THREADS /\ 1 .. i \subseteq Thread
    BY DEF SmpTypeOK, Thread
  <2> QED
    BY <2>1, <2>2, <2>3
<1>14. CASE UNCHANGED smpVars
  BY <1>14 DEF smpVars, Returned
<1> QED
  BY <1>1, <1>2, <1>3, <1>4, <1>5, <1>6, <1>7, <1>8, <1>9, <1>10, <1>11, <1>12, <1>13,
     <1>14 DEF SmpNext, MainGoesOn

----
LEMMA BarrierStart == SmpInit => BarrierInv
BY Numbers DEF SmpInit, BarrierInv, Creating, NoBarrier

(* A barrier that lets a thread go has seen them all. *)
LEMMA AllWait ==
  ASSUME SmpTypeOK, Cardinality(barrier.waiting) >= NBARRIER_THREADS
  PROVE  barrier.waiting = Thread
<1>1. IsFiniteSet(Thread) /\ Cardinality(Thread) = NBARRIER_THREADS
  BY FS_Interval DEF Thread
<1>2. barrier.waiting \subseteq Thread
  BY DEF SmpTypeOK
<1>3. Cardinality(barrier.waiting) <= Cardinality(Thread)
  BY <1>1, <1>2, FS_Subset
<1>4. Cardinality(barrier.waiting) \in Nat
  BY <1>1, <1>2, FS_Subset, FS_CardinalityType
<1> QED
  BY <1>1, <1>2, <1>3, <1>4, FS_Subset

(* A thread that is still at the barrier, which stands or is gone. *)
LEMMA AtBarrier ==
  ASSUME SmpTypeOK, JoinInv, BarrierInv, NEW t \in Thread, at[t] = BarrierStep
  PROVE  barrier.count = NBARRIER_THREADS \/ BarrierGone
<1>1. barrier.count = 0 \/ barrier.count = NBARRIER_THREADS
  BY DEF SmpTypeOK
<1>2. destroyed => errcode = EXIT_FAILURE
  BY Numbers DEF JoinInv, Returned, SmpTypeOK
<1> QED
  BY <1>1, <1>2, Numbers DEF BarrierInv, BarrierGone, DestroyedEarly

LEMMA BarrierKept ==
  SmpTypeOK /\ MainInv /\ JoinInv /\ BarrierInv /\ [SmpNext]_smpVars => BarrierInv'
<1> SUFFICES ASSUME SmpTypeOK, MainInv, JoinInv, BarrierInv, [SmpNext]_smpVars PROVE BarrierInv'
  OBVIOUS
<1> USE Numbers DEF BarrierInv, Creating, BarrierGone, DestroyedEarly
<1>1. CASE MainPrints
  BY <1>1, Prints DEF MainPrint
<1>2. CASE MainChecks
  BY <1>2, Checks DEF MainCheck
<1>3. CASE MainStarts
  BY <1>3 DEF MainStarts
<1>4. CASE BarrierAttrInit
  BY <1>4 DEF BarrierAttrInit, Tested
<1>5. CASE BarrierInit
  <2>1. \A t \in Thread : at'[t] = 0
    BY <1>5 DEF BarrierInit, Tested, MainAt, MainInv, Early, SmpTypeOK
  <2>2. main' = "starting" => barrier'.count = NBARRIER_THREADS /\ barrier'.waiting = {}
    BY <1>5 DEF BarrierInit, NoBarrier
  <2>3. main' # "starting" => main' = "barrier_failed" /\ barrier' = barrier
    BY <1>5 DEF BarrierInit, Tested
  <2>4. \A t \in Thread : t \notin barrier'.waiting
    BY <1>5, <2>1, <2>2, <2>3 DEF BarrierInit, Tested
  <2> QED
    BY <2>1, <2>2, <2>3, <2>4
<1>6. CASE AttrInit
  BY <1>6 DEF AttrInit, Tested, MainAt
<1>7. CASE CreateSucceeds
  <2>1. i + 1 \in Thread /\ i \in Nat /\ main = "create"
    BY <1>7 DEF CreateSucceeds, MainAt, Thread, SmpTypeOK
  <2>2. at[i + 1] = 0
    BY <2>1 DEF MainInv, Creating, SmpTypeOK
  <2>3. i + 1 \notin barrier.waiting
    BY <2>1, <2>2
  <2>4. ~destroyed /\ UNCHANGED <<destroyed, barrier>>
    BY <1>7, <2>1 DEF CreateSucceeds, MainInv, Leaving
  <2>5. barrier.count = NBARRIER_THREADS
    BY <2>1
  <2>6. at' = [at EXCEPT ![i + 1] = 1]
    BY <1>7 DEF CreateSucceeds
  <2>7. \A t \in Thread : t # i + 1 => at'[t] = at[t]
    BY <2>1, <2>6 DEF SmpTypeOK
  <2>8. at'[i + 1] = 1
    BY <2>1, <2>6 DEF SmpTypeOK
  <2> QED
    BY <2>3, <2>4, <2>5, <2>7, <2>8
<1>8. CASE CreateFails \/ CreateEnds
  BY <1>8 DEF CreateFails, CreateEnds, MainAt
<1>9. CASE AllCreated
  BY <1>9 DEF AllCreated
<1>10. CASE JoinSkips
  BY <1>10 DEF JoinSkips
<1>11. CASE JoinSucceeds \/ JoinFails
  BY <1>11 DEF JoinSucceeds, JoinFails, Joins
<1>12. CASE SemDestroy
  BY <1>12 DEF SemDestroy
<1>13. CASE BarrierDestroy \/ BarrierAttrDestroy
  <2>1. /\ main \in Leaving /\ main' \notin {"starting", "attr_init"} \union Creating
        /\ UNCHANGED <<at, destroyed, errcode>>
    BY <1>13 DEF BarrierDestroy, BarrierAttrDestroy, Destroy, MainAt, Leaving
  <2>2. /\ barrier' = barrier \/ barrier'.count = 0
        /\ barrier'.waiting = barrier.waiting /\ barrier'.erred = barrier.erred
    BY <1>13 DEF BarrierDestroy, BarrierAttrDestroy, SmpTypeOK
  <2>3. \A t \in Thread : at[t] >= 1 => destroyed
    BY <2>1 DEF MainInv
  <2>4. BarrierGone => BarrierGone'
    BY <2>1, <2>2
  <2> QED
    BY <2>1, <2>2, <2>3, <2>4
<1>14. CASE MainExits
  BY <1>14 DEF MainExits, SmpReset, NoBarrier
<1>15. ASSUME NEW t \in Thread, ThreadPrints(t) \/ ThreadChecks(t) PROVE BarrierInv'
  <2>1. at[t] \in 1 .. 11 /\ at[t] # BarrierStep
    BY <1>15, Program DEF ThreadPrints, ThreadChecks, ThreadAt
  <2>2. /\ UNCHANGED <<main, barrier, destroyed, errcode>>
        /\ at' = [at EXCEPT ![t] = @ + 1]
    BY <1>15 DEF ThreadPrints, ThreadChecks, Advance
  <2> QED
    BY <2>1, <2>2 DEF SmpTypeOK
<1>16. ASSUME NEW t \in Thread, ThreadArrives(t) PROVE BarrierInv'
  <2>1. at[t] = BarrierStep
    BY <1>16, Program DEF ThreadArrives, ThreadAt
  <2>2. UNCHANGED <<main, at, destroyed, errcode>> /\ barrier'.erred = barrier.erred
    BY <1>16 DEF ThreadArrives, SmpTypeOK
  <2>3. barrier'.count = barrier.count /\ barrier'.waiting = barrier.waiting \union {t}
    BY <1>16 DEF ThreadArrives, SmpTypeOK
  <2> QED
    BY <2>1, <2>2, <2>3 DEF SmpTypeOK
<1>17. ASSUME NEW t \in Thread, ThreadLeaves(t) PROVE BarrierInv'
  <2>1. /\ at[t] = BarrierStep /\ UNCHANGED <<main, barrier, destroyed, errcode>>
        /\ at' = [at EXCEPT ![t] = @ + 1]
    BY <1>17, Program DEF ThreadLeaves, ThreadAt, Advance
  <2>2. BarrierGone \/ barrier.waiting = Thread
    BY <1>17, <2>1, AllWait, AtBarrier DEF ThreadLeaves
  <2> QED
    BY <2>1, <2>2 DEF SmpTypeOK
<1>18. ASSUME NEW t \in Thread, ThreadErrs(t) PROVE BarrierInv'
  <2>1. /\ at[t] = BarrierStep /\ UNCHANGED <<main, destroyed, errcode>>
        /\ at' = [at EXCEPT ![t] = @ + 1]
        /\ barrier.count = 0 \/ Cardinality(barrier.waiting) < barrier.count
    BY <1>18, Program DEF ThreadErrs, ThreadAt
  <2>2. /\ barrier'.count = barrier.count /\ barrier'.waiting = barrier.waiting \ {t}
        /\ barrier'.erred = barrier.erred \union {t}
    BY <1>18 DEF ThreadErrs, SmpTypeOK
  <2>3. BarrierGone \/ barrier.waiting # Thread
    <3>1. Cardinality(Thread) = NBARRIER_THREADS
      BY FS_Interval DEF Thread
    <3> QED
      BY <2>1, <3>1, AtBarrier
  <2> QED
    BY <2>1, <2>2, <2>3 DEF SmpTypeOK
<1>19. ASSUME NEW p \in Process, PrintStep(p) PROVE BarrierInv'
  BY <1>19, PrintSteps
<1>20. CASE UNCHANGED smpVars
  BY <1>20 DEF smpVars
<1> QED
  BY <1>1, <1>2, <1>3, <1>4, <1>5, <1>6, <1>7, <1>8, <1>9, <1>10, <1>11, <1>12, <1>13,
     <1>14, <1>15, <1>16, <1>17, <1>18, <1>19, <1>20 DEF SmpNext, MainGoesOn, ThreadStep

----
LEMMA SemInit == SmpInit => SemInv
BY Numbers DEF SmpInit, SemInv, Process

(* A step that takes or gives nsem. *)
LEMMA SemPrint ==
  ASSUME SmpTypeOK, SemInv, NEW p \in Process, PrintStep(p)
  PROVE  SemInv'
<1> SUFFICES ASSUME ~DestroyedEarly
             PROVE  /\ nsem' \in {0, 1}
                    /\ \A q \in Process : printing'[q] = "has" => nsem' = 0
                    /\ \A q, r \in Process :
                         printing'[q] = "has" /\ printing'[r] = "has" => q = r
  BY PrintSteps DEF SemInv, DestroyedEarly
<1>1. \A q \in Process : q # p => printing'[q] = printing[q]
  BY PrintSteps DEF SmpTypeOK
<1>2. CASE printing[p] = "wants" /\ nsem > 0 /\ nsem' = nsem - 1
  <2>1. nsem = 1 /\ nsem' = 0 /\ \A q \in Process : printing[q] # "has"
    BY <1>2 DEF SemInv
  <2> QED
    BY <1>1, <2>1
<1>3. CASE printing[p] = "has" /\ nsem' = nsem + 1 /\ printing' = [printing EXCEPT ![p] = "no"]
  <2>1. nsem = 0 /\ nsem' = 1 /\ printing'[p] = "no"
    BY <1>3 DEF SemInv, SmpTypeOK
  <2>2. \A q \in Process : q # p => printing[q] # "has"
    BY <1>3 DEF SemInv
  <2> QED
    BY <1>1, <2>1, <2>2
<1> QED
  BY <1>2, <1>3, PrintSteps

LEMMA SemStep ==
  SmpTypeOK /\ MainInv /\ JoinInv /\ SemInv /\ [SmpNext]_smpVars => SemInv'
<1> SUFFICES ASSUME SmpTypeOK, MainInv, JoinInv, SemInv, [SmpNext]_smpVars PROVE SemInv'
  OBVIOUS
<1> USE Numbers
\* A step that leaves nsem alone, and where no process comes to hold it.
<1>a. ASSUME UNCHANGED nsem, DestroyedEarly => DestroyedEarly',
             \A p \in Process : printing'[p] = "has" => printing[p] = "has"
      PROVE  SemInv'
  BY <1>a DEF SemInv
<1>b. ASSUME NEW q \in Process,
             printing' = printing \/ printing' = [printing EXCEPT ![q] = "wants"]
      PROVE  \A p \in Process : printing'[p] = "has" => printing[p] = "has"
  BY <1>b DEF SmpTypeOK
<1>1. CASE MainPrints
  BY <1>1, <1>a, <1>b, Prints DEF DestroyedEarly
<1>2. CASE MainChecks
  BY <1>2, <1>a, <1>b, Checks DEF DestroyedEarly
<1>3. CASE MainStarts
  BY <1>3 DEF MainStarts, MainInv, SemInv
<1>4. CASE BarrierAttrInit \/ BarrierInit \/ AttrInit
  BY <1>4, <1>a, <1>b DEF BarrierAttrInit, BarrierInit, AttrInit, Tested, DestroyedEarly
<1>5. CASE CreateSucceeds \/ CreateFails \/ CreateEnds
  BY <1>5, <1>a, <1>b DEF CreateSucceeds, CreateFails, CreateEnds, DestroyedEarly
<1>6. CASE AllCreated
  BY <1>6, <1>a, <1>b DEF AllCreated, show_cpu_conditional, dbginfo, DestroyedEarly
<1>7. CASE JoinSkips \/ JoinSucceeds \/ JoinFails
  BY <1>7, <1>a, <1>b DEF JoinSkips, JoinSucceeds, JoinFails, Joins, DestroyedEarly
<1>8. CASE SemDestroy
  <2>1. CASE errcode = EXIT_SUCCESS
    <3>1. \A t \in Thread : printing[t] = "no"
      BY <1>8, <2>1 DEF SemDestroy, MainAt, JoinInv, Joining, Returned, Thread
    <3>2. printing[0] = "no" /\ UNCHANGED printing /\ nsem' = 1
      BY <1>8, <3>1 DEF SemDestroy, MainAt
    <3>3. \A p \in Process : printing'[p] = "no"
      BY <3>1, <3>2 DEF Process
    <3> QED
      BY <3>2, <3>3 DEF SemInv
  <2>2. CASE errcode = EXIT_FAILURE
    BY <1>8, <2>2 DEF SemDestroy, SemInv, DestroyedEarly
  <2> QED
    BY <2>1, <2>2 DEF SmpTypeOK
<1>9. CASE BarrierDestroy \/ BarrierAttrDestroy
  BY <1>9, <1>a, <1>b DEF BarrierDestroy, BarrierAttrDestroy, Destroy, DestroyedEarly
<1>10. CASE MainExits
  BY <1>10 DEF MainExits, SmpReset, SemInv
<1>11. ASSUME NEW t \in Thread, ThreadStep(t) \/ ThreadErrs(t) PROVE SemInv'
  <2>1. t \in Process
    OBVIOUS
  <2> QED
    BY <1>11, <2>1, <1>a, <1>b, ThreadSteps DEF DestroyedEarly
<1>12. ASSUME NEW p \in Process, PrintStep(p) PROVE SemInv'
  BY <1>12, SemPrint
<1>13. CASE UNCHANGED smpVars
  BY <1>13, <1>a, <1>b DEF smpVars, DestroyedEarly
<1> QED
  BY <1>1, <1>2, <1>3, <1>4, <1>5, <1>6, <1>7, <1>8, <1>9, <1>10, <1>11, <1>12, <1>13
     DEF SmpNext, MainGoesOn

----
(* The file system test. *)

HIDE SmpAssumption

(* The calls of main, in their order. *)
LEMMA Calls ==
  /\ DOMAIN main_calls = 1 .. 65
  /\ main_calls[1] = <<"write_test_file", g_testfilel>>
  /\ main_calls[2] = <<"read_test_file", g_testfilel>>
  /\ main_calls[3] = <<"succeed_unlink", g_testfilel>>
  /\ main_calls[4] = <<"succeed_mkdir", g_testdir1>>
  /\ main_calls[5] = <<"show_directories">>
  /\ main_calls[6] = <<"succeed_stat", g_testdir1>>
  /\ main_calls[7] = <<"show_statfs", g_testdir1>>
  /\ main_calls[8] = <<"write_test_file", g_testfile1>>
  /\ main_calls[9] = <<"show_directories">>
  /\ main_calls[10] = <<"succeed_stat", g_testfile1>>
  /\ main_calls[11] = <<"show_statfs", g_testfile1>>
  /\ main_calls[12] = <<"read_test_file", g_testfile1>>
  /\ main_calls[13] = <<"fail_stat", g_testfile2, "ENOENT">>
  /\ main_calls[14] = <<"write_test_file", g_testfile2>>
  /\ main_calls[15] = <<"show_directories">>
  /\ main_calls[16] = <<"succeed_stat", g_testfile2>>
  /\ main_calls[17] = <<"show_statfs", g_testfile2>>
  /\ main_calls[18] = <<"read_test_file", g_testfile2>>
  /\ main_calls[19] = <<"fail_rmdir", g_testfile1, "ENOTDIR">>
  /\ main_calls[20] = <<"fail_rmdir", g_testdir1, "ENOTEMPTY">>
  /\ main_calls[21] = <<"fail_unlink", g_testdir1, "EISDIR">>
  /\ main_calls[22] = <<"succeed_unlink", g_testfile1>>
  /\ main_calls[23] = <<"fail_stat", g_testfile1, "ENOENT">>
  /\ main_calls[24] = <<"show_directories">>
  /\ main_calls[25] = <<"fail_read_open", g_testfile1, "ENOENT">>
  /\ main_calls[26] = <<"fail_rmdir", g_testdir1, "ENOTEMPTY">>
  /\ main_calls[27] = <<"fail_mkdir", g_testfile2, "EEXIST">>
  /\ main_calls[28] = <<"succeed_unlink", g_testfile2>>
  /\ main_calls[29] = <<"show_directories">>
  /\ main_calls[30] = <<"fail_stat", g_testfile2, "ENOENT">>
  /\ main_calls[31] = <<"fail_mkdir", g_testdir1, "EEXIST">>
  /\ main_calls[32] = <<"succeed_rmdir", g_testdir1>>
  /\ main_calls[33] = <<"show_directories">>
  /\ main_calls[34] = <<"fail_stat", g_testdir1, "ENOENT">>
  /\ main_calls[35] = <<"succeed_mkdir", g_testdir2>>
  /\ main_calls[36] = <<"show_directories">>
  /\ main_calls[37] = <<"succeed_stat", g_testdir2>>
  /\ main_calls[38] = <<"show_statfs", g_testdir2>>
  /\ main_calls[39] = <<"fail_mkdir", g_testdir2, "EEXIST">>
  /\ main_calls[40] = <<"fail_stat", g_testfile3, "ENOENT">>
  /\ main_calls[41] = <<"write_test_file", g_testfile3>>
  /\ main_calls[42] = <<"show_directories">>
  /\ main_calls[43] = <<"succeed_stat", g_testfile3>>
  /\ main_calls[44] = <<"show_statfs", g_testfile3>>
  /\ main_calls[45] = <<"read_test_file", g_testfile3>>
  /\ main_calls[46] = <<"fail_stat", g_testdir3, "ENOENT">>
  /\ main_calls[47] = <<"succeed_mkdir", g_testdir3>>
  /\ main_calls[48] = <<"show_directories">>
  /\ main_calls[49] = <<"succeed_stat", g_testdir3>>
  /\ main_calls[50] = <<"show_statfs", g_testdir3>>
  /\ main_calls[51] = <<"fail_rename", g_mntdir, g_testdir4, "EXDEV">>
  /\ main_calls[52] = <<"fail_rename", g_testdir4, g_testdir3, "ENOENT">>
  /\ main_calls[53] = <<"fail_stat", g_testdir4, "ENOENT">>
  /\ main_calls[54] = <<"succeed_rename", g_testdir3, g_testdir4>>
  /\ main_calls[55] = <<"show_directories">>
  /\ main_calls[56] = <<"fail_stat", g_testdir3, "ENOENT">>
  /\ main_calls[57] = <<"succeed_stat", g_testdir4>>
  /\ main_calls[58] = <<"show_statfs", g_testdir4>>
  /\ main_calls[59] = <<"fail_stat", g_testfile4, "ENOENT">>
  /\ main_calls[60] = <<"succeed_rename", g_testfile3, g_testfile4>>
  /\ main_calls[61] = <<"show_directories">>
  /\ main_calls[62] = <<"fail_stat", g_testfile3, "ENOENT">>
  /\ main_calls[63] = <<"succeed_stat", g_testfile4>>
  /\ main_calls[64] = <<"show_statfs", g_testfile4>>
  /\ main_calls[65] = <<"read_test_file", g_testfile4>>
<1>1. /\ DOMAIN main_calls = 1 .. 65
      /\ main_calls[1] = <<"write_test_file", g_testfilel>>
      /\ main_calls[2] = <<"read_test_file", g_testfilel>>
      /\ main_calls[3] = <<"succeed_unlink", g_testfilel>>
      /\ main_calls[4] = <<"succeed_mkdir", g_testdir1>>
      /\ main_calls[5] = <<"show_directories">>
      /\ main_calls[6] = <<"succeed_stat", g_testdir1>>
      /\ main_calls[7] = <<"show_statfs", g_testdir1>>
      /\ main_calls[8] = <<"write_test_file", g_testfile1>>
      /\ main_calls[9] = <<"show_directories">>
      /\ main_calls[10] = <<"succeed_stat", g_testfile1>>
      /\ main_calls[11] = <<"show_statfs", g_testfile1>>
      /\ main_calls[12] = <<"read_test_file", g_testfile1>>
      /\ main_calls[13] = <<"fail_stat", g_testfile2, "ENOENT">>
  BY DEF main_calls
<1>2. /\ main_calls[14] = <<"write_test_file", g_testfile2>>
      /\ main_calls[15] = <<"show_directories">>
      /\ main_calls[16] = <<"succeed_stat", g_testfile2>>
      /\ main_calls[17] = <<"show_statfs", g_testfile2>>
      /\ main_calls[18] = <<"read_test_file", g_testfile2>>
      /\ main_calls[19] = <<"fail_rmdir", g_testfile1, "ENOTDIR">>
      /\ main_calls[20] = <<"fail_rmdir", g_testdir1, "ENOTEMPTY">>
      /\ main_calls[21] = <<"fail_unlink", g_testdir1, "EISDIR">>
      /\ main_calls[22] = <<"succeed_unlink", g_testfile1>>
      /\ main_calls[23] = <<"fail_stat", g_testfile1, "ENOENT">>
      /\ main_calls[24] = <<"show_directories">>
      /\ main_calls[25] = <<"fail_read_open", g_testfile1, "ENOENT">>
      /\ main_calls[26] = <<"fail_rmdir", g_testdir1, "ENOTEMPTY">>
  BY DEF main_calls
<1>3. /\ main_calls[27] = <<"fail_mkdir", g_testfile2, "EEXIST">>
      /\ main_calls[28] = <<"succeed_unlink", g_testfile2>>
      /\ main_calls[29] = <<"show_directories">>
      /\ main_calls[30] = <<"fail_stat", g_testfile2, "ENOENT">>
      /\ main_calls[31] = <<"fail_mkdir", g_testdir1, "EEXIST">>
      /\ main_calls[32] = <<"succeed_rmdir", g_testdir1>>
      /\ main_calls[33] = <<"show_directories">>
      /\ main_calls[34] = <<"fail_stat", g_testdir1, "ENOENT">>
      /\ main_calls[35] = <<"succeed_mkdir", g_testdir2>>
      /\ main_calls[36] = <<"show_directories">>
      /\ main_calls[37] = <<"succeed_stat", g_testdir2>>
      /\ main_calls[38] = <<"show_statfs", g_testdir2>>
      /\ main_calls[39] = <<"fail_mkdir", g_testdir2, "EEXIST">>
  BY DEF main_calls
<1>4. /\ main_calls[40] = <<"fail_stat", g_testfile3, "ENOENT">>
      /\ main_calls[41] = <<"write_test_file", g_testfile3>>
      /\ main_calls[42] = <<"show_directories">>
      /\ main_calls[43] = <<"succeed_stat", g_testfile3>>
      /\ main_calls[44] = <<"show_statfs", g_testfile3>>
      /\ main_calls[45] = <<"read_test_file", g_testfile3>>
      /\ main_calls[46] = <<"fail_stat", g_testdir3, "ENOENT">>
      /\ main_calls[47] = <<"succeed_mkdir", g_testdir3>>
      /\ main_calls[48] = <<"show_directories">>
      /\ main_calls[49] = <<"succeed_stat", g_testdir3>>
      /\ main_calls[50] = <<"show_statfs", g_testdir3>>
      /\ main_calls[51] = <<"fail_rename", g_mntdir, g_testdir4, "EXDEV">>
      /\ main_calls[52] = <<"fail_rename", g_testdir4, g_testdir3, "ENOENT">>
  BY DEF main_calls
<1>5. /\ main_calls[53] = <<"fail_stat", g_testdir4, "ENOENT">>
      /\ main_calls[54] = <<"succeed_rename", g_testdir3, g_testdir4>>
      /\ main_calls[55] = <<"show_directories">>
      /\ main_calls[56] = <<"fail_stat", g_testdir3, "ENOENT">>
      /\ main_calls[57] = <<"succeed_stat", g_testdir4>>
      /\ main_calls[58] = <<"show_statfs", g_testdir4>>
      /\ main_calls[59] = <<"fail_stat", g_testfile4, "ENOENT">>
      /\ main_calls[60] = <<"succeed_rename", g_testfile3, g_testfile4>>
      /\ main_calls[61] = <<"show_directories">>
      /\ main_calls[62] = <<"fail_stat", g_testfile3, "ENOENT">>
      /\ main_calls[63] = <<"succeed_stat", g_testfile4>>
      /\ main_calls[64] = <<"show_statfs", g_testfile4>>
      /\ main_calls[65] = <<"read_test_file", g_testfile4>>
  BY DEF main_calls
<1> QED  BY <1>1, <1>2, <1>3, <1>4, <1>5

(* The paths that main names are apart. *)
LEMMA Paths ==
  /\ g_testdir1 \in Path /\ g_testdir2 \in Path /\ g_testdir3 \in Path /\ g_testdir4 \in Path
  /\ g_testfile1 \in Path /\ g_testfile2 \in Path /\ g_testfile3 \in Path
  /\ g_testfile4 \in Path /\ g_testfilel \in Path
  /\ \A p \in Path : Len(p) \in {1, 2}
  /\ g_mntdir \notin Path
BY DEF Path, TestDirs, FileNames, g_testdir1, g_testdir2, g_testdir3, g_testdir4, g_testfile1,
       g_testfile2, g_testfile3, g_testfile4, g_testfilel, g_mntdir

LEMMA Lengths ==
  /\ Len(g_testdir1) = 1 /\ Len(g_testdir2) = 1 /\ Len(g_testdir3) = 1 /\ Len(g_testdir4) = 1
  /\ Len(g_testfilel) = 1
  /\ Len(g_testfile1) = 2 /\ Len(g_testfile2) = 2 /\ Len(g_testfile3) = 2
  /\ Len(g_testfile4) = 2
BY DEF g_testdir1, g_testdir2, g_testdir3, g_testdir4, g_testfile1,
       g_testfile2, g_testfile3, g_testfile4, g_testfilel

LEMMA Apart ==
  /\ g_testdir1 # g_testdir2 /\ g_testdir1 # g_testdir3 /\ g_testdir1 # g_testdir4
  /\ g_testdir2 # g_testdir3 /\ g_testdir2 # g_testdir4 /\ g_testdir3 # g_testdir4
  /\ g_testfilel \notin {g_testdir1, g_testdir2, g_testdir3, g_testdir4}
  /\ g_testfile1 # g_testfile2 /\ g_testfile1 # g_testfile3 /\ g_testfile1 # g_testfile4
  /\ g_testfile2 # g_testfile3 /\ g_testfile2 # g_testfile4 /\ g_testfile3 # g_testfile4
BY DEF g_testdir1, g_testdir2, g_testdir3, g_testdir4, g_testfile1,
       g_testfile2, g_testfile3, g_testfile4, g_testfilel

(* What a run of main on a clean card has made before its call n, if none failed.     *)
Dirs(n) ==
  {p \in Path : \/ p = g_testdir1 /\ n \in 5 .. 32
                \/ p = g_testdir2 /\ n > 35
                \/ p = g_testdir3 /\ n \in 48 .. 54
                \/ p = g_testdir4 /\ n > 54}
Files(n) ==
  {p \in Path : \/ p = g_testfilel /\ n \in 2 .. 3
                \/ p = g_testfile1 /\ n \in 9 .. 22
                \/ p = g_testfile2 /\ n \in 15 .. 28
                \/ p = g_testfile3 /\ n \in 42 .. 60
                \/ p = g_testfile4 /\ n > 60}
Tree(n) == [p \in Path |-> IF p \in Dirs(n) THEN "dir" ELSE IF p \in Files(n) THEN "file"
                          ELSE "none"]

(* The call c finds what it expects, and what it then leaves. *)
Finds(c) ==
  /\ c[1] \in {"write_test_file", "fail_mkdir", "succeed_mkdir"} => Placed(c[2])
  /\ c[1] \in {"succeed_mkdir", "fail_stat", "fail_read_open"} => Has(c[2], "none")
  /\ c[1] \in {"fail_mkdir", "succeed_stat"} => ~ Has(c[2], "none")
  /\ c[1] \in {"read_test_file", "succeed_unlink"} => Has(c[2], "file")
  /\ c[1] = "write_test_file" => ~ Has(c[2], "dir")
  /\ c[1] \in {"fail_unlink", "succeed_rmdir"} => Has(c[2], "dir")
  /\ c[1] = "succeed_rmdir" => \A q \in Below(c[2]) : Has(q, "none")
  /\ c[1] = "fail_rmdir" =>
       IF c[3] = "ENOTDIR" THEN Has(c[2], "file")
       ELSE Has(c[2], "dir") /\ \E q \in Below(c[2]) : ~ Has(q, "none")
  /\ c[1] = "fail_rename" => c[4] = "EXDEV" \/ Has(c[2], "none")
  /\ c[1] = "succeed_rename" => ~ Has(c[2], "none") /\ Placed(c[3]) /\ ~ Has(c[3], "dir")

Looks == {"show_directories", "show_statfs", "fail_read_open", "read_test_file", "fail_mkdir",
          "fail_rmdir", "fail_unlink", "fail_rename", "fail_stat", "succeed_stat"}

Left(c, f) ==
  /\ c[1] \in Looks => f = fs
  /\ c[1] = "write_test_file" => f = [fs EXCEPT ![c[2]] = "file"]
  /\ c[1] = "succeed_mkdir" => f = [fs EXCEPT ![c[2]] = "dir"]
  /\ c[1] \in {"succeed_rmdir", "succeed_unlink"} => f = [fs EXCEPT ![c[2]] = "none"]
  /\ c[1] = "succeed_rename" => f = Moved(c[2], c[3])

LEMMA BelowFacts ==
  /\ \A p \in Path : \A q \in Below(p) : q \in Path /\ Len(q) = 2 /\ q[1] = p[1]
  /\ g_testfile1 \in Below(g_testdir1) /\ g_testfile2 \in Below(g_testdir1)
  /\ g_testfile3 \in Below(g_testdir2) /\ g_testfile4 \in Below(g_testdir4)
  /\ \A p \in {g_testfile1, g_testfile2, g_testfile3, g_testfile4, g_testfilel} :
        Len(p) = 2 => Below(p) = {}
BY Paths DEF Below, g_testdir1, g_testdir2, g_testdir3, g_testdir4, g_testfile1, g_testfile2,
       g_testfile3, g_testfile4, g_testfilel

(* Where main calls each helper, and with what: c is its call n. *)
Called(n, c) ==
  /\ c[1] = "write_test_file" =>
       \/ n = 1 /\ c[2] = g_testfilel
       \/ n = 8 /\ c[2] = g_testfile1
       \/ n = 14 /\ c[2] = g_testfile2
       \/ n = 41 /\ c[2] = g_testfile3
  /\ c[1] = "read_test_file" =>
       \/ n = 2 /\ c[2] = g_testfilel
       \/ n = 12 /\ c[2] = g_testfile1
       \/ n = 18 /\ c[2] = g_testfile2
       \/ n = 45 /\ c[2] = g_testfile3
       \/ n = 65 /\ c[2] = g_testfile4
  /\ c[1] = "succeed_unlink" =>
       \/ n = 3 /\ c[2] = g_testfilel
       \/ n = 22 /\ c[2] = g_testfile1
       \/ n = 28 /\ c[2] = g_testfile2
  /\ c[1] = "succeed_mkdir" =>
       \/ n = 4 /\ c[2] = g_testdir1
       \/ n = 35 /\ c[2] = g_testdir2
       \/ n = 47 /\ c[2] = g_testdir3
  /\ c[1] = "succeed_stat" =>
       \/ n = 6 /\ c[2] = g_testdir1
       \/ n = 10 /\ c[2] = g_testfile1
       \/ n = 16 /\ c[2] = g_testfile2
       \/ n = 37 /\ c[2] = g_testdir2
       \/ n = 43 /\ c[2] = g_testfile3
       \/ n = 49 /\ c[2] = g_testdir3
       \/ n = 57 /\ c[2] = g_testdir4
       \/ n = 63 /\ c[2] = g_testfile4
  /\ c[1] = "show_statfs" =>
       \/ n = 7 /\ c[2] = g_testdir1
       \/ n = 11 /\ c[2] = g_testfile1
       \/ n = 17 /\ c[2] = g_testfile2
       \/ n = 38 /\ c[2] = g_testdir2
       \/ n = 44 /\ c[2] = g_testfile3
       \/ n = 50 /\ c[2] = g_testdir3
       \/ n = 58 /\ c[2] = g_testdir4
       \/ n = 64 /\ c[2] = g_testfile4
  /\ c[1] = "fail_stat" =>
       \/ n \in {13, 30} /\ c[2] = g_testfile2 /\ c[3] = "ENOENT"
       \/ n = 23 /\ c[2] = g_testfile1 /\ c[3] = "ENOENT"
       \/ n = 34 /\ c[2] = g_testdir1 /\ c[3] = "ENOENT"
       \/ n \in {40, 62} /\ c[2] = g_testfile3 /\ c[3] = "ENOENT"
       \/ n \in {46, 56} /\ c[2] = g_testdir3 /\ c[3] = "ENOENT"
       \/ n = 53 /\ c[2] = g_testdir4 /\ c[3] = "ENOENT"
       \/ n = 59 /\ c[2] = g_testfile4 /\ c[3] = "ENOENT"
  /\ c[1] = "fail_rmdir" =>
       \/ n = 19 /\ c[2] = g_testfile1 /\ c[3] = "ENOTDIR"
       \/ n \in {20, 26} /\ c[2] = g_testdir1 /\ c[3] = "ENOTEMPTY"
  /\ c[1] = "fail_unlink" => n = 21 /\ c[2] = g_testdir1 /\ c[3] = "EISDIR"
  /\ c[1] = "fail_read_open" => n = 25 /\ c[2] = g_testfile1 /\ c[3] = "ENOENT"
  /\ c[1] = "fail_mkdir" =>
       \/ n = 27 /\ c[2] = g_testfile2 /\ c[3] = "EEXIST"
       \/ n = 31 /\ c[2] = g_testdir1 /\ c[3] = "EEXIST"
       \/ n = 39 /\ c[2] = g_testdir2 /\ c[3] = "EEXIST"
  /\ c[1] = "succeed_rmdir" => n = 32 /\ c[2] = g_testdir1
  /\ c[1] = "fail_rename" =>
       \/ n = 51 /\ c[2] = g_mntdir /\ c[3] = g_testdir4 /\ c[4] = "EXDEV"
       \/ n = 52 /\ c[2] = g_testdir4 /\ c[3] = g_testdir3 /\ c[4] = "ENOENT"
  /\ c[1] = "succeed_rename" =>
       \/ n = 54 /\ c[2] = g_testdir3 /\ c[3] = g_testdir4
       \/ n = 60 /\ c[2] = g_testfile3 /\ c[3] = g_testfile4
  /\ c[1] \in {"write_test_file", "read_test_file", "succeed_unlink", "succeed_mkdir",
               "show_directories", "succeed_stat", "show_statfs", "fail_stat",
               "fail_rmdir", "fail_unlink", "fail_read_open", "fail_mkdir",
               "succeed_rmdir", "fail_rename", "succeed_rename"}

LEMMA Kinds == ASSUME NEW n \in 1 .. 65 PROVE Called(n, main_calls[n])
BY Calls DEF Called

(* The tree, path by path. *)
LEMMA Where ==
  ASSUME NEW n \in 1 .. 67, fs = Tree(n)
  PROVE  /\ fs[g_testfilel] = (IF n \in 2 .. 3 THEN "file" ELSE "none")
         /\ fs[g_testdir1] = (IF n \in 5 .. 32 THEN "dir" ELSE "none")
         /\ fs[g_testdir2] = (IF n > 35 THEN "dir" ELSE "none")
         /\ fs[g_testdir3] = (IF n \in 48 .. 54 THEN "dir" ELSE "none")
         /\ fs[g_testdir4] = (IF n > 54 THEN "dir" ELSE "none")
         /\ fs[g_testfile1] = (IF n \in 9 .. 22 THEN "file" ELSE "none")
         /\ fs[g_testfile2] = (IF n \in 15 .. 28 THEN "file" ELSE "none")
         /\ fs[g_testfile3] = (IF n \in 42 .. 60 THEN "file" ELSE "none")
         /\ fs[g_testfile4] = (IF n > 60 THEN "file" ELSE "none")
BY Paths, Lengths, Apart DEF Tree, Dirs, Files

LEMMA TreeFinds ==
  ASSUME NEW n \in 1 .. 65, fs = Tree(n)
  PROVE  Finds(main_calls[n])
<1> DEFINE c == main_calls[n]
<1>0. Called(n, c)
  BY Kinds
<1> HIDE DEF c
<1>1. ASSUME c[1] \in {"write_test_file", "fail_mkdir", "succeed_mkdir"} PROVE Placed(c[2])
  <2>1. <<g_testfile1[1]>> = g_testdir1 /\ <<g_testfile2[1]>> = g_testdir1
        /\ <<g_testfile3[1]>> = g_testdir2
    BY DEF g_testfile1, g_testfile2, g_testfile3, g_testdir1, g_testdir2
  <2>2. \/ c[2] \in {g_testfilel, g_testdir1, g_testdir2, g_testdir3}
        \/ n \in {8, 14, 27} /\ c[2] \in {g_testfile1, g_testfile2}
        \/ n = 41 /\ c[2] = g_testfile3
    BY <1>0, <1>1 DEF Called
  <2> QED  BY <2>1, <2>2, Where, Lengths DEF Placed, Has
<1>2. ASSUME c[1] \in {"succeed_mkdir", "fail_stat", "fail_read_open"} PROVE Has(c[2], "none")
  BY <1>0, <1>2, Where DEF Called, Has
<1>3. ASSUME c[1] \in {"fail_mkdir", "succeed_stat"} PROVE ~ Has(c[2], "none")
  BY <1>0, <1>3, Where DEF Called, Has
<1>4. ASSUME c[1] \in {"read_test_file", "succeed_unlink"} PROVE Has(c[2], "file")
  BY <1>0, <1>4, Where DEF Called, Has
<1>5. ASSUME c[1] = "write_test_file" PROVE ~ Has(c[2], "dir")
  BY <1>0, <1>5, Where DEF Called, Has
<1>6. ASSUME c[1] \in {"fail_unlink", "succeed_rmdir"} PROVE Has(c[2], "dir")
  BY <1>0, <1>6, Where DEF Called, Has
<1>7. ASSUME c[1] = "succeed_rmdir" PROVE \A q \in Below(c[2]) : Has(q, "none")
  <2>1. n = 32 /\ c[2] = g_testdir1
    BY <1>0, <1>7 DEF Called
  <2> QED  BY <2>1, BelowFacts, Paths, Lengths DEF Has, Tree, Dirs, Files
<1>8. ASSUME c[1] = "fail_rmdir"
      PROVE  IF c[3] = "ENOTDIR" THEN Has(c[2], "file")
             ELSE Has(c[2], "dir") /\ \E q \in Below(c[2]) : ~ Has(q, "none")
  <2>1. \/ n = 19 /\ c[2] = g_testfile1 /\ c[3] = "ENOTDIR"
        \/ n \in {20, 26} /\ c[2] = g_testdir1 /\ c[3] = "ENOTEMPTY"
    BY <1>0, <1>8 DEF Called
  <2> QED  BY <2>1, Where, BelowFacts DEF Has
<1>9. ASSUME c[1] = "fail_rename" PROVE c[4] = "EXDEV" \/ Has(c[2], "none")
  BY <1>0, <1>9, Where DEF Called, Has
<1>10. ASSUME c[1] = "succeed_rename"
       PROVE  ~ Has(c[2], "none") /\ Placed(c[3]) /\ ~ Has(c[3], "dir")
  <2>1. <<g_testfile4[1]>> = g_testdir4
    BY DEF g_testfile4, g_testdir4
  <2>2. \/ n = 54 /\ c[2] = g_testdir3 /\ c[3] = g_testdir4
        \/ n = 60 /\ c[2] = g_testfile3 /\ c[3] = g_testfile4
    BY <1>0, <1>10 DEF Called
  <2> QED  BY <2>1, <2>2, Where, Lengths DEF Placed, Has
<1> QED  BY <1>1, <1>2, <1>3, <1>4, <1>5, <1>6, <1>7, <1>8, <1>9, <1>10, Zenon DEF Finds, c

(* A file that is moved, and a directory that is, with nothing in it. *)
LEMMA FileMoved == fs = Tree(60) => Moved(g_testfile3, g_testfile4) = Tree(61)
<1> SUFFICES ASSUME fs = Tree(60) PROVE Moved(g_testfile3, g_testfile4) = Tree(61)
  OBVIOUS
<1>1. Below(g_testfile3) = {} /\ Below(g_testfile4) = {}
  BY BelowFacts, Lengths
<1>2. ASSUME NEW r \in Path PROVE Moved(g_testfile3, g_testfile4)[r] = Tree(61)[r]
  BY <1>1, Paths, Apart, Lengths DEF Moved, Without, Tree, Dirs, Files
<1> QED  BY <1>2 DEF Moved, Tree

LEMMA DirMoved == fs = Tree(54) => Moved(g_testdir3, g_testdir4) = Tree(55)
<1> SUFFICES ASSUME fs = Tree(54) PROVE Moved(g_testdir3, g_testdir4) = Tree(55)
  OBVIOUS
<1>1. ASSUME NEW r \in Below(g_testdir4) PROVE fs[<<g_testdir3[1], r[2]>>] = "none"
  <2> DEFINE q == <<g_testdir3[1], r[2]>>
  <2>1. q \in Path
    BY Paths, BelowFacts DEF Path, g_testdir3, g_testdir4, Below, TestDirs, FileNames
  <2>2. q # g_testfile3 /\ q \notin {g_testdir1, g_testdir2, g_testdir3, g_testdir4}
    BY DEF g_testfile3, g_testdir1, g_testdir2, g_testdir3, g_testdir4
  <2> HIDE DEF q
  <2>3. fs[q] = "none"
    BY <2>1, <2>2 DEF Tree, Dirs, Files
  <2> QED  BY <2>3 DEF q
<1>2. ASSUME NEW r \in Path PROVE Moved(g_testdir3, g_testdir4)[r] = Tree(55)[r]
  <2>1. g_testdir3 \notin Below(g_testdir3) /\ g_testdir4 \notin Below(g_testdir3)
        /\ g_testdir4 \notin Below(g_testdir4) /\ g_testdir2 \notin Below(g_testdir3)
        /\ g_testdir2 \notin Below(g_testdir4) /\ g_testfile3 \notin Below(g_testdir3)
        /\ g_testfile3 \notin Below(g_testdir4)
    BY Paths, Lengths, BelowFacts DEF g_testfile3, g_testdir3, g_testdir4
  <2>2. CASE r \in Below(g_testdir4)
    <3>1. Moved(g_testdir3, g_testdir4)[r] = "none"
      BY <1>1, <2>1, <2>2 DEF Moved
    <3>2. r # g_testfile3 /\ r \notin Dirs(55)
      BY <2>1, <2>2, Paths, Lengths, BelowFacts DEF Dirs
    <3> QED  BY <3>1, <3>2 DEF Tree, Files
  <2>3. CASE r \notin Below(g_testdir4)
    <3>1. r \in Below(g_testdir3) => r # g_testfile3 /\ r \notin Dirs(55) /\ r \notin Dirs(54)
      BY <2>1, Paths, Lengths, BelowFacts DEF Dirs
    <3>2. CASE r = g_testdir4
      <4>1. fs[g_testdir3] = "dir" /\ Tree(55)[r] = "dir"
        BY <3>2, Paths, Apart DEF Tree, Dirs
      <4> QED  BY <3>2, <4>1 DEF Moved
    <3>3. CASE r # g_testdir4
      <4>1. Moved(g_testdir3, g_testdir4)[r]
              = IF r = g_testdir3 \/ r \in Below(g_testdir3) THEN "none" ELSE fs[r]
        BY <2>3, <3>3 DEF Moved, Without
      <4>2. r = g_testdir3 \/ r \in Below(g_testdir3) => Tree(55)[r] = "none"
        <5>1. g_testdir3 \notin Dirs(55) /\ g_testdir3 \notin Files(55)
          BY Paths, Lengths, Apart DEF Dirs, Files
        <5>2. r \in Below(g_testdir3) => r \notin Files(55)
          BY <3>1 DEF Files
        <5> QED  BY <3>1, <5>1, <5>2 DEF Tree
      <4>3. r # g_testdir3 => (r \in Dirs(55) <=> r \in Dirs(54)) /\ Files(55) = Files(54)
        BY <3>3, Paths, Apart DEF Dirs, Files
      <4> QED  BY <4>1, <4>2, <4>3 DEF Tree
    <3> QED  BY <3>2, <3>3
  <2> QED  BY <2>2, <2>3
<1> QED  BY <1>2 DEF Moved, Tree

LEMMA TreeLeft ==
  ASSUME NEW n \in 1 .. 65, fs = Tree(n), NEW f, Left(main_calls[n], f)
  PROVE  f = Tree(n + 1)
<1> DEFINE c == main_calls[n]
<1>0. Called(n, c)
  BY Kinds
<1>1. CASE c[1] \in Looks
  <2>1. n \notin {1, 3, 4, 8, 14, 22, 28, 32, 35, 41, 47, 54, 60}
    BY <1>1, Calls DEF Looks
  <2>2. Dirs(n + 1) = Dirs(n) /\ Files(n + 1) = Files(n)
    BY <2>1, Paths, Lengths, Apart DEF Dirs, Files
  <2> QED  BY <1>1, <2>2 DEF Left, Tree
<1>2. CASE c[1] = "write_test_file"
  <2>1. \/ n = 1 /\ c[2] = g_testfilel
        \/ n = 8 /\ c[2] = g_testfile1
        \/ n = 14 /\ c[2] = g_testfile2
        \/ n = 41 /\ c[2] = g_testfile3
    BY <1>0, <1>2 DEF Called
  <2>2. f = [fs EXCEPT ![c[2]] = "file"]
    BY <1>2 DEF Left
  <2>3. Dirs(n + 1) = Dirs(n) /\ Files(n + 1) = Files(n) \union {c[2]} /\ c[2] \notin Dirs(n)
        /\ c[2] \in Path
    BY <2>1, Paths, Lengths, Apart DEF Dirs, Files
  <2> QED  BY <2>2, <2>3 DEF Tree
<1>3. CASE c[1] = "succeed_mkdir"
  <2>1. \/ n = 4 /\ c[2] = g_testdir1
        \/ n = 35 /\ c[2] = g_testdir2
        \/ n = 47 /\ c[2] = g_testdir3
    BY <1>0, <1>3 DEF Called
  <2>2. f = [fs EXCEPT ![c[2]] = "dir"]
    BY <1>3 DEF Left
  <2>3. Dirs(n + 1) = Dirs(n) \union {c[2]} /\ Files(n + 1) = Files(n) /\ c[2] \in Path
    BY <2>1, Paths, Lengths, Apart DEF Dirs, Files
  <2> QED  BY <2>2, <2>3 DEF Tree
<1>4. CASE c[1] \in {"succeed_rmdir", "succeed_unlink"}
  <2>1. \/ n = 3 /\ c[2] = g_testfilel
        \/ n = 22 /\ c[2] = g_testfile1
        \/ n = 28 /\ c[2] = g_testfile2
        \/ n = 32 /\ c[2] = g_testdir1
    BY <1>0, <1>4 DEF Called
  <2>2. f = [fs EXCEPT ![c[2]] = "none"]
    BY <1>4 DEF Left
  <2>3. Dirs(n + 1) = Dirs(n) \ {c[2]} /\ Files(n + 1) = Files(n) \ {c[2]} /\ c[2] \in Path
    BY <2>1, Paths, Lengths, Apart DEF Dirs, Files
  <2> QED  BY <2>2, <2>3 DEF Tree
<1>5. CASE c[1] = "succeed_rename"
  <2>1. \/ n = 54 /\ c[2] = g_testdir3 /\ c[3] = g_testdir4
        \/ n = 60 /\ c[2] = g_testfile3 /\ c[3] = g_testfile4
    BY <1>0, <1>5 DEF Called
  <2>2. f = Moved(c[2], c[3])
    BY <1>5 DEF Left
  <2> QED  BY <2>1, <2>2, FileMoved, DirMoved
<1> QED  BY <1>1, <1>2, <1>3, <1>4, <1>0, <1>5 DEF Looks, Called

(* A tree in which what is not at the top is in a directory. *)
TreeOK(f) ==
  /\ f \in [Path -> {"none", "file", "dir"}]
  /\ f[g_testfilel] # "dir"
  /\ \A p \in Path : Len(p) = 2 /\ f[p] # "none" => f[<<p[1]>>] = "dir"

LEMMA Shapes ==
  /\ \A p \in Path : Len(p) = 1 => p = <<p[1]>> /\ (p # g_testfilel => p[1] \in TestDirs)
  /\ \A p \in Path : Len(p) = 2 => /\ p = <<p[1], p[2]>> /\ p[1] \in TestDirs
                                  /\ p[2] \in FileNames
  /\ \A d \in TestDirs : <<d>> \in Path /\ Len(<<d>>) = 1 /\ <<d>> # g_testfilel
  /\ \A d \in TestDirs, n \in FileNames :
        LET p == <<d, n>> IN p \in Path /\ Len(p) = 2 /\ p[1] = d /\ p[2] = n
BY DEF Path, TestDirs, FileNames, g_testfilel

LEMMA MkdirOK ==
  ASSUME TreeOK(fs), NEW p \in Path, p # g_testfilel, NEW o \in mkdir(p)
  PROVE  TreeOK(o.fs)
<1>1. CASE o.fs = fs
  BY <1>1
<1>2. CASE Placed(p) /\ Has(p, "none") /\ o.fs = [fs EXCEPT ![p] = "dir"]
  <2> DEFINE f == [fs EXCEPT ![p] = "dir"]
  <2>1. f \in [Path -> {"none", "file", "dir"}] /\ f[g_testfilel] # "dir"
    BY Paths DEF TreeOK
  <2>2. ASSUME NEW q \in Path, Len(q) = 2, f[q] # "none" PROVE f[<<q[1]>>] = "dir"
    <3>1. <<q[1]>> \in Path
      BY <2>2, Shapes
    <3> QED  BY <1>2, <2>2, <3>1, Shapes DEF TreeOK, Placed, Has
  <2> QED  BY <1>2, <2>1, <2>2 DEF TreeOK
<1> QED  BY <1>1, <1>2 DEF mkdir, Gives

LEMMA RemovedOK ==
  ASSUME TreeOK(fs), NEW p \in Path,
         \A q \in Below(p) : Has(q, "none")
  PROVE  TreeOK([fs EXCEPT ![p] = "none"])
<1> DEFINE f == [fs EXCEPT ![p] = "none"]
<1>1. f \in [Path -> {"none", "file", "dir"}] /\ f[g_testfilel] # "dir"
  BY Paths DEF TreeOK
<1>2. ASSUME NEW q \in Path, Len(q) = 2, f[q] # "none" PROVE f[<<q[1]>>] = "dir"
  <2>1. q # p /\ fs[q] # "none" /\ fs[<<q[1]>>] = "dir"
    BY <1>2 DEF TreeOK
  <2>2. <<q[1]>> \in Path /\ Len(<<q[1]>>) = 1
    BY <1>2, Shapes
  <2>3. <<q[1]>> = p => q \in Below(p)
    BY <1>2, <2>2 DEF Below
  <2> QED  BY <2>1, <2>2, <2>3 DEF Has, TreeOK
<1> QED  BY <1>1, <1>2 DEF TreeOK

LEMMA RmdirOK == ASSUME TreeOK(fs), NEW p \in Path, NEW o \in rmdir(p) PROVE TreeOK(o.fs)
BY RemovedOK DEF rmdir, Gives

LEMMA UnlinkOK == ASSUME TreeOK(fs), NEW p \in Path, NEW o \in unlink(p) PROVE TreeOK(o.fs)
<1>1. CASE o.fs = fs
  BY <1>1
<1>2. CASE Has(p, "file") /\ o.fs = [fs EXCEPT ![p] = "none"]
  <2>1. \A q \in Below(p) : Has(q, "none")
    BY <1>2, Shapes DEF Below, Has, TreeOK
  <2> QED  BY <1>2, <2>1, RemovedOK
<1>3. Has(p, "none") \/ Has(p, "dir") \/ Has(p, "file")
  BY DEF TreeOK, Has
<1> QED  BY <1>1, <1>2, <1>3 DEF unlink, Gives

LEMMA WriteOK == ASSUME TreeOK(fs), NEW p \in Path, NEW o \in open_write(p) PROVE TreeOK(o.fs)
<1>1. CASE o.fs = fs
  BY <1>1
<1>2. CASE Placed(p) /\ ~ Has(p, "dir") /\ o.fs = [fs EXCEPT ![p] = "file"]
  <2> DEFINE f == [fs EXCEPT ![p] = "file"]
  <2>1. f \in [Path -> {"none", "file", "dir"}] /\ f[g_testfilel] # "dir"
    BY Paths DEF TreeOK
  <2>2. ASSUME NEW q \in Path, Len(q) = 2, f[q] # "none" PROVE f[<<q[1]>>] = "dir"
    <3>1. <<q[1]>> \in Path /\ Len(<<q[1]>>) = 1
      BY <2>2, Shapes
    <3>2. fs[<<q[1]>>] = "dir"
      BY <1>2, <2>2, Paths DEF TreeOK, Placed, Has
    <3> QED  BY <1>2, <3>1, <3>2 DEF TreeOK, Has
  <2> QED  BY <1>2, <2>1, <2>2 DEF TreeOK
<1> QED  BY <1>1, <1>2 DEF open_write, Gives

LEMMA WithoutOK == ASSUME TreeOK(fs), NEW p \in Path PROVE TreeOK(Without(p))
<1>1. Without(p) \in [Path -> {"none", "file", "dir"}] /\ Without(p)[g_testfilel] # "dir"
  BY Paths DEF Without, TreeOK
<1>2. ASSUME NEW q \in Path, Len(q) = 2, Without(p)[q] # "none" PROVE Without(p)[<<q[1]>>] = "dir"
  <2>1. q # p /\ q \notin Below(p) /\ fs[<<q[1]>>] = "dir"
    BY <1>2 DEF Without, TreeOK
  <2>2. <<q[1]>> \in Path /\ Len(<<q[1]>>) = 1
    BY <1>2, Shapes
  <2>3. <<q[1]>> # p /\ <<q[1]>> \notin Below(p)
    BY <1>2, <2>1, <2>2 DEF Below
  <2> QED  BY <2>1, <2>2, <2>3 DEF Without
<1> QED  BY <1>1, <1>2 DEF TreeOK

LEMMA MovedOK ==
  ASSUME TreeOK(fs), NEW p \in Path, NEW q \in Path, p # q, Len(p) = Len(q),
         p # g_testfilel, q # g_testfilel, ~ Has(p, "none"), Placed(q)
  PROVE  TreeOK(Moved(p, q))
<1> DEFINE f == Moved(p, q)
           From(r) == <<p[1], r[2]>>
<1>1. \A r \in Below(q) : r \in Path /\ Len(r) = 2 /\ r[1] = q[1] /\ Len(q) = 1
  BY DEF Below
<1>2. \A r \in Below(q) : From(r) \in Path /\ Len(From(r)) = 2 /\ From(r)[1] = p[1]
  BY <1>1, Shapes
<1>3. /\ f[q] = fs[p]
      /\ \A r \in Path \ {q} : f[r] = IF r \in Below(q) THEN fs[From(r)] ELSE Without(p)[r]
  BY DEF Moved
<1>4. f \in [Path -> {"none", "file", "dir"}]
  <2>1. TreeOK(Without(p))
    BY WithoutOK
  <2>2. \A r \in Path : f[r] \in {"none", "file", "dir"}
    BY <1>2, <1>3, <2>1 DEF TreeOK
  <2> QED  BY <2>2 DEF Moved
<1>5. f[g_testfilel] # "dir"
  <2>1. g_testfilel \notin Below(q)
    BY <1>1, Lengths
  <2>2. Without(p)[g_testfilel] # "dir"
    BY WithoutOK DEF TreeOK
  <2> QED  BY <1>3, <2>1, <2>2, Paths
<1>6. ASSUME NEW r \in Path, Len(r) = 2, f[r] # "none" PROVE f[<<r[1]>>] = "dir"
  <2> DEFINE top == <<r[1]>>
  <2>1. top \in Path /\ Len(top) = 1
    BY <1>6, Shapes
  <2>2. CASE Len(q) = 1
    <3>1. p = <<p[1]>> /\ q = <<q[1]>>
      BY <2>2, Shapes
    <3>2. CASE r \in Below(q)
      <4>1. top = q
        BY <1>1, <3>1, <3>2
      <4>2. fs[From(r)] # "none"
        BY <1>3, <1>6, <2>2, <3>2
      <4>3. fs[p] = "dir"
        BY <1>2, <3>1, <3>2, <4>2 DEF TreeOK
      <4> QED  BY <1>3, <4>1, <4>3
    <3>3. CASE r \notin Below(q)
      <4>1. Without(p)[r] # "none"
        <5>1. r # q
          BY <1>6, <2>2
        <5>2. f[r] = Without(p)[r]
          BY <1>3, <3>3, <5>1
        <5> QED  BY <1>6, <5>2
      <4>2. top # q
        BY <1>6, <2>2, <3>3 DEF Below
      <4>3. Without(p)[top] = "dir"
        <5>1. TreeOK(Without(p))
          BY WithoutOK
        <5> QED  BY <1>6, <4>1, <5>1 DEF TreeOK
      <4>4. top \notin Below(q)
        <5> HIDE DEF top
        <5> QED  BY <1>1, <2>1
      <4> QED  BY <1>3, <2>1, <4>2, <4>3, <4>4
    <3> QED  BY <3>2, <3>3
  <2>3. CASE Len(q) = 2
    <3>1. Below(q) = {} /\ Below(p) = {}
      BY <2>3 DEF Below
    <3>2. top # q /\ top # p
      BY <2>1, <2>3
    <3>3. f[top] = fs[top]
      BY <1>3, <2>1, <3>1, <3>2 DEF Without
    <3>4. CASE r = q
      BY <2>3, <3>3, <3>4 DEF Placed, Has
    <3>5. CASE r # q
      <4>1. fs[r] # "none"
        BY <1>3, <1>6, <3>1, <3>5 DEF Without
      <4> QED  BY <1>6, <3>3, <4>1 DEF TreeOK
    <3> QED  BY <3>4, <3>5
  <2> QED  BY <2>2, <2>3, Paths
<1> QED  BY <1>4, <1>5, <1>6 DEF TreeOK

LEMMA RenameOK ==
  ASSUME TreeOK(fs), NEW p, NEW q \in Path,
         p = g_mntdir \/ (p \in Path /\ p # q /\ Len(p) = Len(q) /\ p # g_testfilel),
         q # g_testfilel, NEW o \in rename(p, q)
  PROVE  TreeOK(o.fs)
<1>1. CASE o.fs = fs
  BY <1>1
<1>2. CASE p \in Path /\ p # g_mntdir /\ o.fs = Without(p)
  BY <1>2, WithoutOK
<1>3. CASE p # g_mntdir /\ ~ Has(p, "none") /\ Placed(q) /\ o.fs = Moved(p, q)
  BY <1>3, MovedOK
<1> QED  BY <1>1, <1>2, <1>3, Paths DEF rename, Gives

----
(* The helper that call c makes: what it asks the file system for may end in any of   *)
(* the outcomes S, and it expects the result r.                                       *)

(* The calls that need that what they name is not there: if it is, they complain.     *)
Needs(c) ==
  /\ c[1] = "succeed_mkdir" => Has(c[2], "none")
  /\ c[1] = "fail_rename" => c[2] = g_mntdir \/ Has(c[2], "none")

(* The directories of the top that call c leaves alone, whatever happens.             *)
Spares(c, d) ==
  /\ d \in Path /\ Len(d) = 1
  /\ \/ c[1] \in {"show_directories", "show_statfs", "fail_read_open", "read_test_file",
                   "fail_stat", "succeed_stat"}
     \/ /\ c[1] \in {"write_test_file", "fail_mkdir", "succeed_mkdir", "fail_rmdir",
                      "succeed_rmdir", "fail_unlink", "succeed_unlink"}
        /\ c[2] # d
     \/ c[1] = "fail_rename" /\ c[2] = g_mntdir
     \/ c[1] \in {"fail_rename", "succeed_rename"} /\ c[2] \in Path /\ d \notin {c[2], c[3]}

(* The calls that find or make what they name. *)
Makes(c) == c[1] \in {"fail_mkdir", "succeed_mkdir"} /\ Len(c[2]) = 1

Fits(c, S, r) ==
  /\ \A o \in S : TreeOK(o.fs)
  /\ Finds(c) => \A o \in S : o.result = r /\ Left(c, o.fs)
  /\ (\E o \in S : o.result = r) => Needs(c)
  /\ \A o \in S, d \in Path : Spares(c, d) => o.fs[d] = fs[d]
  /\ Makes(c) => \A o \in S : o.fs[c[2]] # "none"

(* What a call does to the state.                                                     *)
Does(c) ==
  /\ TreeOK(fs')
  /\ g_nerrors' \in Nat /\ unseen' \in BOOLEAN
  /\ \/ faults' = faults + 1 /\ (g_nerrors' # 0 \/ unseen')
     \/ /\ faults' = faults /\ unseen' = unseen
        /\ g_nerrors' # 0 \/ (g_nerrors' = g_nerrors /\ Needs(c))
        /\ Finds(c) => g_nerrors' = g_nerrors /\ Left(c, fs')
        /\ \A d \in Path : Spares(c, d) => fs'[d] = fs[d]
        /\ Makes(c) => fs'[c[2]] # "none"

LEMMA Counted ==
  ASSUME g_nerrors \in Nat, CountsError PROVE g_nerrors' \in Nat /\ g_nerrors' # 0
BY MountAssumption DEF CountsError

LEMMA ExpectsDoes ==
  ASSUME TreeOK(fs), g_nerrors \in Nat, unseen \in BOOLEAN,
         NEW c, NEW S, NEW r, Fits(c, S, r), Expects(S, r)
  PROVE  Does(c)
<1> DEFINE Ends(o) == /\ fs' = o.fs
                      /\ IF o.result = r THEN UNCHANGED g_nerrors ELSE CountsError
                      /\ UNCHANGED <<faults, unseen>>
<1>1. CASE \E o \in S : Ends(o)
  <2>1. PICK o \in S : Ends(o)
    BY <1>1
  <2>2. /\ TreeOK(fs') /\ \A d \in Path : Spares(c, d) => fs'[d] = fs[d]
        /\ Makes(c) => fs'[c[2]] # "none"
    BY <2>1 DEF Fits
  <2>3. faults' = faults /\ unseen' = unseen /\ unseen' \in BOOLEAN
    BY <2>1
  <2>4. CASE o.result = r
    <3>1. g_nerrors' = g_nerrors /\ Needs(c)
      BY <2>1, <2>4 DEF Fits
    <3>2. Finds(c) => Left(c, fs')
      BY <2>1 DEF Fits
    <3> QED  BY <2>2, <2>3, <3>1, <3>2 DEF Does
  <2>5. CASE o.result # r
    <3>1. g_nerrors' \in Nat /\ g_nerrors' # 0
      BY <2>1, <2>5, Counted
    <3>2. ~ Finds(c)
      BY <2>5 DEF Fits
    <3> QED  BY <2>2, <2>3, <3>1, <3>2 DEF Does
  <2> QED  BY <2>4, <2>5
<1>2. CASE Faulty(S)
  <2>1. TreeOK(fs')
    BY <1>2 DEF Faulty, Fits
  <2>2. g_nerrors' \in Nat /\ unseen' \in BOOLEAN /\ (g_nerrors' # 0 \/ unseen')
    BY <1>2, Counted DEF Faulty
  <2>3. faults' = faults + 1
    BY <1>2 DEF Faulty
  <2> QED  BY <2>1, <2>2, <2>3 DEF Does
<1> QED  BY <1>1, <1>2 DEF Expects

(* An operation on a path changes no other. *)
LEMMA Elsewhere ==
  ASSUME TreeOK(fs), NEW p \in Path, NEW d \in Path, d # p,
         NEW o \in mkdir(p) \union rmdir(p) \union unlink(p) \union open_write(p)
  PROVE  o.fs[d] = fs[d]
BY DEF TreeOK, mkdir, rmdir, unlink, open_write, Gives

(* What each helper is called with. *)
LEMMA Arguments ==
  ASSUME NEW n \in 1 .. 65
  PROVE  LET c == main_calls[n]
         IN /\ c[1] \notin {"show_directories", "show_statfs", "fail_rename"} => c[2] \in Path
            /\ c[1] \in {"fail_mkdir", "succeed_mkdir"} => c[2] # g_testfilel
            /\ c[1] = "succeed_rename" =>
                 /\ c[3] \in Path /\ c[2] # c[3] /\ Len(c[2]) = Len(c[3])
                 /\ g_testfilel \notin {c[2], c[3]}
            /\ c[1] = "fail_rename" =>
                 \/ c[2] = g_mntdir /\ c[3] = g_testdir4 /\ c[4] = "EXDEV"
                 \/ c[2] = g_testdir4 /\ c[3] = g_testdir3 /\ c[4] = "ENOENT"
            /\ c[1] \in {"fail_stat", "fail_read_open"} => c[3] = "ENOENT"
            /\ c[1] = "fail_mkdir" => c[3] = "EEXIST"
            /\ c[1] = "fail_rmdir" => c[3] \in {"ENOTDIR", "ENOTEMPTY"}
            /\ c[1] = "fail_unlink" => c[3] = "EISDIR"
<1> DEFINE c == main_calls[n]
<1>0. Called(n, c)
  BY Kinds
<1> HIDE DEF c
<1>1. \/ c[1] \in {"show_directories", "show_statfs", "fail_rename"}
      \/ c[2] \in {g_testfilel, g_testdir1, g_testdir2, g_testdir3, g_testdir4,
                   g_testfile1, g_testfile2, g_testfile3, g_testfile4}
  BY <1>0 DEF Called
<1>2. c[1] \in {"fail_mkdir", "succeed_mkdir"} =>
        c[2] \in {g_testfile2, g_testdir1, g_testdir2, g_testdir3}
  BY <1>0 DEF Called
<1>3. c[1] = "succeed_rename" => \/ c[2] = g_testdir3 /\ c[3] = g_testdir4
                                 \/ c[2] = g_testfile3 /\ c[3] = g_testfile4
  BY <1>0 DEF Called
<1>4. c[1] \in {"fail_mkdir", "succeed_mkdir"} => c[2] # g_testfilel
  BY <1>2, Lengths, Apart
<1>5. c[1] = "succeed_rename" =>
        /\ c[3] \in Path /\ c[2] # c[3] /\ Len(c[2]) = Len(c[3])
        /\ g_testfilel \notin {c[2], c[3]}
  BY <1>3, Paths, Lengths, Apart
<1>6. c[1] \notin {"show_directories", "show_statfs", "fail_rename"} => c[2] \in Path
  BY <1>1, Paths
<1> QED  BY <1>0, <1>4, <1>5, <1>6 DEF Called, c

(* A directory of the top that is neither of the two names stays. *)
LEMMA Renames ==
  ASSUME TreeOK(fs), NEW p \in Path, NEW q \in Path, NEW d \in Path, Len(d) = 1, d \notin {p, q},
         NEW o \in rename(p, q)
  PROVE  o.fs[d] = fs[d]
<1>1. d \notin Below(p) /\ d \notin Below(q)
  BY BelowFacts
<1>2. Without(p)[d] = fs[d] /\ Moved(p, q)[d] = fs[d]
  BY <1>1 DEF Without, Moved
<1> QED  BY <1>2 DEF rename, Gives

LEMMA HelperDoes ==
  ASSUME TreeOK(fs), g_nerrors \in Nat, unseen \in BOOLEAN,
         call \in 1 .. 65, Helper
  PROVE  Does(main_calls[call])
<1> DEFINE c == main_calls[call]
<1>1. CASE c[1] = "show_directories" /\ show_directories(g_mntdir)
  <2>1. TRUE
    BY <1>1, Arguments, Zenon
  <2>2. Fits(c, Gives("OK", fs), "OK")
    <3>1. \A o \in Gives("OK", fs) : TreeOK(o.fs)
      BY <2>1 DEF Gives
    <3>2. Finds(c) => \A o \in Gives("OK", fs) : o.result = "OK" /\ Left(c, o.fs)
      BY <1>1, <2>1 DEF Finds, Left, Looks, Gives
    <3>3. (\E o \in Gives("OK", fs) : o.result = "OK") => Needs(c)
      BY <1>1, <2>1 DEF Needs, Gives
    <3>4. \A o \in Gives("OK", fs), d \in Path : Spares(c, d) => o.fs[d] = fs[d]
      BY <1>1, <2>1 DEF Spares, Gives
    <3> QED  BY <1>1, <3>1, <3>2, <3>3, <3>4 DEF Fits, Makes
  <2> QED  BY <1>1, <2>2, ExpectsDoes DEF show_directories
<1>2. CASE c[1] = "show_statfs" /\ show_statfs(c[2])
  <2>1. TRUE
    BY <1>2, Arguments, Zenon
  <2>2. Fits(c, Gives("OK", fs), "OK")
    <3>1. \A o \in Gives("OK", fs) : TreeOK(o.fs)
      BY <2>1 DEF Gives
    <3>2. Finds(c) => \A o \in Gives("OK", fs) : o.result = "OK" /\ Left(c, o.fs)
      BY <1>2, <2>1 DEF Finds, Left, Looks, Gives
    <3>3. (\E o \in Gives("OK", fs) : o.result = "OK") => Needs(c)
      BY <1>2, <2>1 DEF Needs, Gives
    <3>4. \A o \in Gives("OK", fs), d \in Path : Spares(c, d) => o.fs[d] = fs[d]
      BY <1>2, <2>1 DEF Spares, Gives
    <3> QED  BY <1>2, <3>1, <3>2, <3>3, <3>4 DEF Fits, Makes
  <2> QED  BY <1>2, <2>2, ExpectsDoes DEF show_statfs
<1>3. CASE c[1] = "fail_read_open" /\ fail_read_open(c[2], c[3])
  <2>1. c[2] \in Path /\ c[3] = "ENOENT"
    BY <1>3, Arguments, Zenon
  <2>2. Fits(c, open_read(c[2]), c[3])
    <3>1. \A o \in open_read(c[2]) : TreeOK(o.fs)
      BY <2>1 DEF open_read, Gives
    <3>2. Finds(c) => \A o \in open_read(c[2]) : o.result = c[3] /\ Left(c, o.fs)
      BY <1>3, <2>1 DEF Finds, Left, Looks, open_read, Gives
    <3>3. (\E o \in open_read(c[2]) : o.result = c[3]) => Needs(c)
      BY <1>3, <2>1 DEF Needs, open_read, Gives
    <3>4. \A o \in open_read(c[2]), d \in Path : Spares(c, d) => o.fs[d] = fs[d]
      BY <1>3, <2>1 DEF Spares, open_read, Gives
    <3> QED  BY <1>3, <3>1, <3>2, <3>3, <3>4 DEF Fits, Makes
  <2> QED  BY <1>3, <2>2, ExpectsDoes DEF fail_read_open
<1>4. CASE c[1] = "read_test_file" /\ read_test_file(c[2])
  <2>1. c[2] \in Path
    BY <1>4, Arguments, Zenon
  <2>2. Fits(c, open_read(c[2]), "OK")
    <3>1. \A o \in open_read(c[2]) : TreeOK(o.fs)
      BY <2>1 DEF open_read, Gives
    <3>2. Finds(c) => \A o \in open_read(c[2]) : o.result = "OK" /\ Left(c, o.fs)
      BY <1>4, <2>1 DEF Finds, Left, Looks, open_read, Gives, Has
    <3>3. (\E o \in open_read(c[2]) : o.result = "OK") => Needs(c)
      BY <1>4, <2>1 DEF Needs, open_read, Gives, Has
    <3>4. \A o \in open_read(c[2]), d \in Path : Spares(c, d) => o.fs[d] = fs[d]
      BY <1>4, <2>1 DEF Spares, open_read, Gives, Has
    <3> QED  BY <1>4, <3>1, <3>2, <3>3, <3>4 DEF Fits, Makes
  <2> QED  BY <1>4, <2>2, ExpectsDoes DEF read_test_file
<1>5. CASE c[1] = "fail_mkdir" /\ fail_mkdir(c[2], c[3])
  <2>1. c[2] \in Path /\ c[2] # g_testfilel /\ c[3] = "EEXIST"
    BY <1>5, Arguments, Zenon
  <2>2. Fits(c, mkdir(c[2]), c[3])
    <3>1. \A o \in mkdir(c[2]) : TreeOK(o.fs)
      BY <2>1, MkdirOK
    <3>2. Finds(c) => \A o \in mkdir(c[2]) : o.result = c[3] /\ Left(c, o.fs)
      BY <1>5, <2>1 DEF Finds, Left, Looks, mkdir, Gives
    <3>3. (\E o \in mkdir(c[2]) : o.result = c[3]) => Needs(c)
      BY <1>5, <2>1 DEF Needs, mkdir, Gives
    <3>4. \A o \in mkdir(c[2]), d \in Path : Spares(c, d) => o.fs[d] = fs[d]
      BY <1>5, <2>1, Elsewhere DEF Spares
    <3>5. Makes(c) => \A o \in mkdir(c[2]) : o.fs[c[2]] # "none"
      BY <2>1 DEF Makes, mkdir, Gives, Placed, Has, TreeOK
    <3> QED  BY <3>1, <3>2, <3>3, <3>4, <3>5 DEF Fits
  <2> QED  BY <1>5, <2>2, ExpectsDoes DEF fail_mkdir
<1>6. CASE c[1] = "succeed_mkdir" /\ succeed_mkdir(c[2])
  <2>1. c[2] \in Path /\ c[2] # g_testfilel
    BY <1>6, Arguments, Zenon
  <2>2. Fits(c, mkdir(c[2]), "OK")
    <3>1. \A o \in mkdir(c[2]) : TreeOK(o.fs)
      BY <2>1, MkdirOK
    <3>2. Finds(c) => \A o \in mkdir(c[2]) : o.result = "OK" /\ Left(c, o.fs)
      BY <1>6, <2>1 DEF Finds, Left, Looks, mkdir, Gives
    <3>3. (\E o \in mkdir(c[2]) : o.result = "OK") => Needs(c)
      BY <1>6, <2>1 DEF Needs, mkdir, Gives
    <3>4. \A o \in mkdir(c[2]), d \in Path : Spares(c, d) => o.fs[d] = fs[d]
      BY <1>6, <2>1, Elsewhere DEF Spares
    <3>5. Makes(c) => \A o \in mkdir(c[2]) : o.fs[c[2]] # "none"
      BY <2>1 DEF Makes, mkdir, Gives, Placed, Has, TreeOK
    <3> QED  BY <3>1, <3>2, <3>3, <3>4, <3>5 DEF Fits
  <2> QED  BY <1>6, <2>2, ExpectsDoes DEF succeed_mkdir
<1>7. CASE c[1] = "fail_rmdir" /\ fail_rmdir(c[2], c[3])
  <2>1. c[2] \in Path /\ c[3] \in {"ENOTDIR", "ENOTEMPTY"}
    BY <1>7, Arguments, Zenon
  <2>2. Fits(c, rmdir(c[2]), c[3])
    <3>1. \A o \in rmdir(c[2]) : TreeOK(o.fs)
      BY <2>1, RmdirOK
    <3>2. Finds(c) => \A o \in rmdir(c[2]) : o.result = c[3] /\ Left(c, o.fs)
      BY <1>7, <2>1 DEF Finds, Left, Looks, rmdir, Gives, Has
    <3>3. (\E o \in rmdir(c[2]) : o.result = c[3]) => Needs(c)
      BY <1>7, <2>1 DEF Needs, rmdir, Gives, Has
    <3>4. \A o \in rmdir(c[2]), d \in Path : Spares(c, d) => o.fs[d] = fs[d]
      BY <1>7, <2>1, Elsewhere DEF Spares
    <3> QED  BY <1>7, <3>1, <3>2, <3>3, <3>4 DEF Fits, Makes
  <2> QED  BY <1>7, <2>2, ExpectsDoes DEF fail_rmdir
<1>8. CASE c[1] = "succeed_rmdir" /\ succeed_rmdir(c[2])
  <2>1. c[2] \in Path
    BY <1>8, Arguments, Zenon
  <2>2. Fits(c, rmdir(c[2]), "OK")
    <3>1. \A o \in rmdir(c[2]) : TreeOK(o.fs)
      BY <2>1, RmdirOK
    <3>2. Finds(c) => \A o \in rmdir(c[2]) : o.result = "OK" /\ Left(c, o.fs)
      BY <1>8, <2>1 DEF Finds, Left, Looks, rmdir, Gives, Has
    <3>3. (\E o \in rmdir(c[2]) : o.result = "OK") => Needs(c)
      BY <1>8, <2>1 DEF Needs, rmdir, Gives, Has
    <3>4. \A o \in rmdir(c[2]), d \in Path : Spares(c, d) => o.fs[d] = fs[d]
      BY <1>8, <2>1, Elsewhere DEF Spares
    <3> QED  BY <1>8, <3>1, <3>2, <3>3, <3>4 DEF Fits, Makes
  <2> QED  BY <1>8, <2>2, ExpectsDoes DEF succeed_rmdir
<1>9. CASE c[1] = "fail_unlink" /\ fail_unlink(c[2], c[3])
  <2>1. c[2] \in Path /\ c[3] = "EISDIR"
    BY <1>9, Arguments, Zenon
  <2>2. Fits(c, unlink(c[2]), c[3])
    <3>1. \A o \in unlink(c[2]) : TreeOK(o.fs)
      BY <2>1, UnlinkOK
    <3>2. Finds(c) => \A o \in unlink(c[2]) : o.result = c[3] /\ Left(c, o.fs)
      BY <1>9, <2>1 DEF Finds, Left, Looks, unlink, Gives, Has
    <3>3. (\E o \in unlink(c[2]) : o.result = c[3]) => Needs(c)
      BY <1>9, <2>1 DEF Needs, unlink, Gives, Has
    <3>4. \A o \in unlink(c[2]), d \in Path : Spares(c, d) => o.fs[d] = fs[d]
      BY <1>9, <2>1, Elsewhere DEF Spares
    <3> QED  BY <1>9, <3>1, <3>2, <3>3, <3>4 DEF Fits, Makes
  <2> QED  BY <1>9, <2>2, ExpectsDoes DEF fail_unlink
<1>10. CASE c[1] = "succeed_unlink" /\ succeed_unlink(c[2])
  <2>1. c[2] \in Path
    BY <1>10, Arguments, Zenon
  <2>2. Fits(c, unlink(c[2]), "OK")
    <3>1. \A o \in unlink(c[2]) : TreeOK(o.fs)
      BY <2>1, UnlinkOK
    <3>2. Finds(c) => \A o \in unlink(c[2]) : o.result = "OK" /\ Left(c, o.fs)
      BY <1>10, <2>1 DEF Finds, Left, Looks, unlink, Gives, Has
    <3>3. (\E o \in unlink(c[2]) : o.result = "OK") => Needs(c)
      BY <1>10, <2>1 DEF Needs, unlink, Gives, Has
    <3>4. \A o \in unlink(c[2]), d \in Path : Spares(c, d) => o.fs[d] = fs[d]
      BY <1>10, <2>1, Elsewhere DEF Spares
    <3> QED  BY <1>10, <3>1, <3>2, <3>3, <3>4 DEF Fits, Makes
  <2> QED  BY <1>10, <2>2, ExpectsDoes DEF succeed_unlink
<1>11. CASE c[1] = "fail_rename" /\ fail_rename(c[2], c[3], c[4])
  <2>1. \/ c[2] = g_mntdir /\ c[3] = g_testdir4 /\ c[4] = "EXDEV"
        \/ c[2] = g_testdir4 /\ c[3] = g_testdir3 /\ c[4] = "ENOENT"
    BY <1>11, Arguments, Zenon
  <2>2. Fits(c, rename(c[2], c[3]), c[4])
    <3>1. \A o \in rename(c[2], c[3]) : TreeOK(o.fs)
      BY <2>1, Paths, Lengths, Apart, RenameOK
    <3>2. Finds(c) => \A o \in rename(c[2], c[3]) : o.result = c[4] /\ Left(c, o.fs)
      BY <1>11, <2>1, Paths DEF Finds, Left, Looks, rename, Gives
    <3>3. (\E o \in rename(c[2], c[3]) : o.result = c[4]) => Needs(c)
      BY <1>11, <2>1, Lengths DEF Needs, rename, Gives, Placed
    <3>4. \A o \in rename(c[2], c[3]), d \in Path : Spares(c, d) => o.fs[d] = fs[d]
      BY <1>11, <2>1, Paths, Renames DEF Spares, rename, Gives
    <3> QED  BY <1>11, <3>1, <3>2, <3>3, <3>4 DEF Fits, Makes
  <2> QED  BY <1>11, <2>2, ExpectsDoes DEF fail_rename
<1>12. CASE c[1] = "succeed_rename" /\ succeed_rename(c[2], c[3])
  <2>1. /\ c[2] \in Path /\ c[3] \in Path /\ c[2] # c[3] /\ Len(c[2]) = Len(c[3])
        /\ g_testfilel \notin {c[2], c[3]}
    BY <1>12, Arguments, Zenon
  <2>2. Fits(c, rename(c[2], c[3]), "OK")
    <3>1. \A o \in rename(c[2], c[3]) : TreeOK(o.fs)
      BY <2>1, RenameOK
    <3>2. Finds(c) => \A o \in rename(c[2], c[3]) : o.result = "OK" /\ Left(c, o.fs)
      BY <1>12, <2>1, Paths DEF Finds, Left, Looks, rename, Gives
    <3>3. (\E o \in rename(c[2], c[3]) : o.result = "OK") => Needs(c)
      BY <1>12, <2>1 DEF Needs, rename, Gives
    <3>4. \A o \in rename(c[2], c[3]), d \in Path : Spares(c, d) => o.fs[d] = fs[d]
      BY <1>12, <2>1, Renames DEF Spares
    <3> QED  BY <1>12, <3>1, <3>2, <3>3, <3>4 DEF Fits, Makes
  <2> QED  BY <1>12, <2>2, ExpectsDoes DEF succeed_rename
<1>13. CASE c[1] = "fail_stat" /\ fail_stat(c[2], c[3])
  <2>1. c[2] \in Path /\ c[3] = "ENOENT"
    BY <1>13, Arguments, Zenon
  <2>2. Fits(c, stat(c[2]), c[3])
    <3>1. \A o \in stat(c[2]) : TreeOK(o.fs)
      BY <2>1 DEF stat, Gives
    <3>2. Finds(c) => \A o \in stat(c[2]) : o.result = c[3] /\ Left(c, o.fs)
      BY <1>13, <2>1 DEF Finds, Left, Looks, stat, Gives
    <3>3. (\E o \in stat(c[2]) : o.result = c[3]) => Needs(c)
      BY <1>13, <2>1 DEF Needs, stat, Gives
    <3>4. \A o \in stat(c[2]), d \in Path : Spares(c, d) => o.fs[d] = fs[d]
      BY <1>13, <2>1 DEF Spares, stat, Gives
    <3> QED  BY <1>13, <3>1, <3>2, <3>3, <3>4 DEF Fits, Makes
  <2> QED  BY <1>13, <2>2, ExpectsDoes DEF fail_stat
<1>14. CASE c[1] = "succeed_stat" /\ succeed_stat(c[2])
  <2>1. c[2] \in Path
    BY <1>14, Arguments, Zenon
  <2>2. Fits(c, stat(c[2]), "OK")
    <3>1. \A o \in stat(c[2]) : TreeOK(o.fs)
      BY <2>1 DEF stat, Gives
    <3>2. Finds(c) => \A o \in stat(c[2]) : o.result = "OK" /\ Left(c, o.fs)
      BY <1>14, <2>1 DEF Finds, Left, Looks, stat, Gives
    <3>3. (\E o \in stat(c[2]) : o.result = "OK") => Needs(c)
      BY <1>14, <2>1 DEF Needs, stat, Gives
    <3>4. \A o \in stat(c[2]), d \in Path : Spares(c, d) => o.fs[d] = fs[d]
      BY <1>14, <2>1 DEF Spares, stat, Gives
    <3> QED  BY <1>14, <3>1, <3>2, <3>3, <3>4 DEF Fits, Makes
  <2> QED  BY <1>14, <2>2, ExpectsDoes DEF succeed_stat
<1>15. CASE c[1] = "write_test_file" /\ write_test_file(c[2])
  <2>1. c[2] \in Path
    BY <1>15, Arguments, Zenon
  <2>2. Fits(c, open_write(c[2]), "OK")
    <3>1. \A o \in open_write(c[2]) : TreeOK(o.fs)
      BY <2>1, WriteOK
    <3>2. Finds(c) => \A o \in open_write(c[2]) : o.result = "OK" /\ Left(c, o.fs)
      BY <1>15, <2>1 DEF Finds, Left, Looks, open_write, Gives
    <3>3. (\E o \in open_write(c[2]) : o.result = "OK") => Needs(c)
      BY <1>15 DEF Needs
    <3>4. \A o \in open_write(c[2]), d \in Path : Spares(c, d) => o.fs[d] = fs[d]
      BY <1>15, <2>1, Elsewhere DEF Spares
    <3> QED  BY <1>15, <3>1, <3>2, <3>3, <3>4 DEF Fits, Makes
  <2> QED  BY <1>15, <2>2, ExpectsDoes DEF write_test_file
<1> QED
  BY <1>1, <1>2, <1>3, <1>4, <1>5, <1>6, <1>7, <1>8, <1>9, <1>10, <1>11, <1>12, <1>13, <1>14,
     <1>15 DEF Helper

----
(* The directories that a call from n on finds, if they are there.                    *)
Later(n) ==
  IF n <= 4 THEN {g_testdir1, g_testdir2, g_testdir3, g_testdir4}
  ELSE IF n <= 35 THEN {g_testdir2, g_testdir3, g_testdir4}
  ELSE IF n <= 47 THEN {g_testdir3, g_testdir4}
  ELSE IF n <= 52 THEN {g_testdir4} ELSE {}

Clean == \A d \in TestDirs : Has(<<d>>, "none")

(* The inductive invariant.  A fault that was not counted was one.  On a card that has *)
(* worked since power-up, errors are counted before a run only if it then finds a      *)
(* directory, and the one that no call removes is there once it was made; and a run    *)
(* that began on a clean card has counted none.  While nothing is counted and nothing  *)
(* went unseen, the tree of a run that began on a clean card is the one it should be,  *)
(* and in any other run there is a directory that a later call will stumble over.      *)
MountInv ==
  /\ call \in 0 .. 67 /\ g_nerrors \in Nat /\ faults \in Nat
  /\ unseen \in BOOLEAN /\ clean \in BOOLEAN
  /\ TreeOK(fs)
  /\ unseen => faults # 0
  /\ call = 0 /\ faults = 0 /\ Clean => g_nerrors = 0
  /\ call > 35 /\ faults = 0 => fs[g_testdir2] # "none"
  /\ call > 0 =>
       /\ clean /\ faults = 0 => g_nerrors = 0
       /\ clean /\ ~unseen /\ g_nerrors = 0 =>
            \A p \in Path : call # 1 \/ p # g_testfilel => fs[p] = Tree(call)[p]
       /\ ~clean /\ ~unseen /\ g_nerrors = 0 => \E d \in Later(call) : fs[d] # "none"

LEMMA Indices == DOMAIN main_calls = 1 .. 65 /\ Umount = 66 /\ Reported = 67
BY DEF main_calls, Umount, Reported

LEMMA MountStart == MountInit => MountInv
<1> SUFFICES ASSUME MountInit PROVE MountInv
  OBVIOUS
<1>1. TreeOK(fs)
  BY Paths DEF MountInit, TreeOK, g_testfilel
<1>2. call = 0 /\ g_nerrors = 0 /\ faults = 0 /\ unseen = FALSE /\ clean = FALSE
  BY DEF MountInit
<1>3. call \in 0 .. 67 /\ g_nerrors \in Nat /\ faults \in Nat /\ ~(call > 0) /\ ~(call > 35)
  BY <1>2
<1> QED  BY <1>1, <1>2, <1>3, Zenon DEF MountInv

LEMMA StartKeeps == MountInv /\ MountStarts => MountInv'
<1> SUFFICES ASSUME MountInv, MountStarts PROVE MountInv'
  OBVIOUS
<1>1. TreeOK(fs) /\ fs' = fs /\ call = 0 /\ call' = 1 /\ faults' = faults /\ unseen' = FALSE
      /\ g_nerrors' = g_nerrors /\ clean' = Clean
  BY DEF MountInv, MountStarts, Clean
<1>2. ASSUME clean', NEW p \in Path, p # g_testfilel PROVE fs[p] = "none"
  <2>1. \A d \in TestDirs : fs[<<d>>] = "none"
    BY <1>1, <1>2 DEF Clean, Has
  <2>2. CASE Len(p) = 1
    BY <1>2, <2>1, <2>2, Shapes
  <2>3. CASE Len(p) = 2
    BY <1>1, <2>1, <2>3, Shapes DEF TreeOK
  <2> QED  BY <2>2, <2>3, Paths
<1>3. \A p \in Path \ {g_testfilel} : Tree(1)[p] = "none"
  BY DEF Tree, Dirs, Files
<1>4. ASSUME ~ clean' PROVE \E d \in Later(1) : fs[d] # "none"
  <2>1. PICK d \in TestDirs : fs[<<d>>] # "none"
    BY <1>1, <1>4 DEF Clean, Has
  <2>2. <<d>> \in Later(1)
    BY DEF Later, TestDirs, g_testdir1, g_testdir2, g_testdir3, g_testdir4
  <2> QED  BY <2>1, <2>2
<1>5. /\ call' \in 0 .. 67 /\ g_nerrors' \in Nat /\ faults' \in Nat
      /\ unseen' \in BOOLEAN /\ clean' \in BOOLEAN
  <2>1. call' \in 0 .. 67 /\ g_nerrors' \in Nat /\ faults' \in Nat
    BY <1>1 DEF MountInv
  <2>2. Clean \in BOOLEAN
    BY DEF Clean
  <2> QED  BY <1>1, <2>1, <2>2, Zenon
<1>6. clean' /\ faults' = 0 => g_nerrors' = 0
  BY <1>1 DEF MountInv
<1>7. clean' => \A p \in Path : call' # 1 \/ p # g_testfilel => fs'[p] = Tree(call')[p]
  BY <1>1, <1>2, <1>3
<1>8. ~ clean' => \E d \in Later(call') : fs'[d] # "none"
  BY <1>1, <1>4
<1>9. TreeOK(fs') /\ ~unseen' /\ call' # 0 /\ ~(call' > 35)
  BY <1>1
<1> QED  BY <1>5, <1>6, <1>7, <1>8, <1>9, Zenon DEF MountInv

(* The tree of a run on a clean card, after a call. *)
LEMMA CleanStep ==
  ASSUME TreeOK(fs), NEW n \in 1 .. 65,
         \A p \in Path : n # 1 \/ p # g_testfilel => fs[p] = Tree(n)[p]
  PROVE  /\ Finds(main_calls[n])
         /\ \A f : Left(main_calls[n], f) => f = Tree(n + 1)
<1>1. CASE n # 1
  <2>1. fs = Tree(n)
    BY <1>1 DEF TreeOK, Tree
  <2> QED  BY <2>1, TreeFinds, TreeLeft
<1>2. CASE n = 1
  <2>1. main_calls[n] = <<"write_test_file", g_testfilel>>
    BY <1>2, Calls
  <2>2. Finds(main_calls[n])
    BY <2>1, Lengths DEF Finds, Placed, Has, TreeOK
  <2>3. [fs EXCEPT ![g_testfilel] = "file"] = Tree(2)
    <3>1. Dirs(2) = {} /\ Files(2) = {g_testfilel} /\ Dirs(1) = {} /\ Files(1) = {}
      BY Paths DEF Dirs, Files
    <3> QED  BY <1>2, <3>1, Paths DEF TreeOK, Tree
  <2> QED  BY <1>2, <2>1, <2>2, <2>3 DEF Left
<1> QED  BY <1>1, <1>2

(* A directory of the test that was there before stays until a call finds it. *)
LEMMA LaterStep ==
  ASSUME NEW n \in 1 .. 65, NEW d \in Later(n), fs[d] # "none", Needs(main_calls[n])
  PROVE  Spares(main_calls[n], d) /\ d \in Later(n + 1)
<1> DEFINE c == main_calls[n]
<1>1. d \in Path /\ Len(d) = 1
  BY Paths, Lengths DEF Later
<1>2. CASE n \in {4, 35, 47}
  <2>1. c = <<"succeed_mkdir",
              IF n = 4 THEN g_testdir1 ELSE IF n = 35 THEN g_testdir2 ELSE g_testdir3>>
    BY <1>2, Calls
  <2>2. d # c[2]
    BY <2>1 DEF Needs, Has
  <2> QED  BY <1>1, <1>2, <2>1, <2>2 DEF Spares, Later
<1>3. CASE n = 52
  <2>1. c[1] = "fail_rename" /\ c[2] = g_testdir4
    BY <1>3, Calls
  <2>2. Has(g_testdir4, "none")
    BY <2>1, Paths DEF Needs
  <2> QED  BY <1>3, <2>2 DEF Later, Has
<1>4. CASE n \notin {4, 35, 47, 52}
  <2>1. d \in Later(n + 1) /\ n < 52
    BY <1>4 DEF Later
  <2>2. \/ c[1] \in {"show_directories", "show_statfs", "fail_read_open", "read_test_file",
                    "fail_stat", "succeed_stat"}
        \/ /\ c[1] \in {"write_test_file", "fail_mkdir", "fail_rmdir", "succeed_rmdir",
                       "fail_unlink", "succeed_unlink"}
           /\ \/ n < 4 /\ c[2] = g_testfilel
              \/ n \in 5 .. 34 /\ c[2] \in {g_testdir1, g_testfile1, g_testfile2}
              \/ n \in 36 .. 46 /\ c[2] \in {g_testdir2, g_testfile3}
        \/ n = 51 /\ c[1] = "fail_rename" /\ c[2] = g_mntdir
    BY <1>4, <2>1, Calls
  <2>3. c[2] # d \/ c[1] \notin {"write_test_file", "fail_mkdir", "fail_rmdir", "succeed_rmdir",
                               "fail_unlink", "succeed_unlink"}
    BY <1>1, <2>1, <2>2, Lengths, Apart DEF Later
  <2> QED  BY <1>1, <2>1, <2>2, <2>3 DEF Spares
<1> QED  BY <1>2, <1>3, <1>4

(* Once made, the first directory that a run leaves behind stays. *)
LEMMA FirstStays ==
  ASSUME NEW n \in 35 .. 65, fs[g_testdir2] # "none" \/ n = 35
  PROVE  \/ Makes(main_calls[n]) /\ main_calls[n][2] = g_testdir2
         \/ Spares(main_calls[n], g_testdir2) /\ n # 35
<1> DEFINE c == main_calls[n]
<1>1. CASE n \in {35, 39}
  <2>1. c[1] \in {"succeed_mkdir", "fail_mkdir"} /\ c[2] = g_testdir2
    BY <1>1, Calls
  <2> QED  BY <2>1, Lengths DEF Makes
<1>2. CASE n \notin {35, 39}
  <2>1. \/ c[1] \in {"show_directories", "show_statfs", "fail_read_open", "read_test_file",
                    "fail_stat", "succeed_stat"}
        \/ c[1] = "write_test_file" /\ c[2] = g_testfile3
        \/ c[1] = "succeed_mkdir" /\ c[2] = g_testdir3
        \/ c[1] = "fail_rename" /\ c[2] = g_mntdir
        \/ c[1] = "fail_rename" /\ c[2] = g_testdir4 /\ c[3] = g_testdir3
        \/ c[1] = "succeed_rename" /\ c[2] = g_testdir3 /\ c[3] = g_testdir4
        \/ c[1] = "succeed_rename" /\ c[2] = g_testfile3 /\ c[3] = g_testfile4
    BY <1>2, Calls
  <2>2. g_testdir2 \notin {g_testfile3, g_testfile4, g_testdir3, g_testdir4}
    BY Lengths, Apart
  <2> QED  BY <1>2, <2>1, <2>2, Paths, Lengths DEF Spares
<1> QED  BY <1>1, <1>2

LEMMA CallKeeps == MountInv /\ MountCalls => MountInv'
<1> SUFFICES ASSUME MountInv, MountCalls PROVE MountInv'
  OBVIOUS
<1> DEFINE c == main_calls[call]
<1>1. call \in 1 .. 65 /\ call' = call + 1 /\ clean' = clean /\ TreeOK(fs) /\ Helper
  BY Indices DEF MountInv, MountCalls
<1>2. Does(c)
  BY <1>1, HelperDoes DEF MountInv
<1> HIDE DEF c
<1>3. /\ call' \in 0 .. 67 /\ g_nerrors' \in Nat /\ faults' \in Nat /\ faults \in Nat
      /\ unseen' \in BOOLEAN /\ clean' \in BOOLEAN /\ TreeOK(fs') /\ call > 0 /\ call' > 0
  BY <1>1, <1>2 DEF Does, MountInv
<1>4. faults' = 0 => faults = 0
  BY <1>2, <1>3 DEF Does
<1>5. unseen' => faults' # 0
  <2>1. CASE faults' = faults + 1
    BY <1>3, <2>1
  <2>2. CASE faults' = faults /\ unseen' = unseen
    BY <2>2 DEF MountInv
  <2> QED  BY <1>2, <2>1, <2>2 DEF Does
<1>6. ASSUME faults' = 0 \/ (~unseen' /\ g_nerrors' = 0)
      PROVE  /\ faults' = faults
             /\ unseen' = unseen /\ (g_nerrors' # 0 \/ (g_nerrors' = g_nerrors /\ Needs(c)))
             /\ Finds(c) => g_nerrors' = g_nerrors /\ Left(c, fs')
             /\ \A d \in Path : Spares(c, d) => fs'[d] = fs[d]
             /\ Makes(c) => fs'[c[2]] # "none"
  <2>1. faults' # faults + 1 \/ ~(g_nerrors' # 0 \/ unseen')
    BY <1>3, <1>6
  <2> QED  BY <1>2, <2>1 DEF Does
<1>7. call' > 35 /\ faults' = 0 => fs'[g_testdir2] # "none"
  <2> SUFFICES ASSUME call' > 35, faults' = 0 PROVE fs'[g_testdir2] # "none"
    OBVIOUS
  <2>1. fs[g_testdir2] # "none" \/ call = 35
    BY <1>1, <1>4 DEF MountInv
  <2>2. call \in 35 .. 65
    BY <1>1
  <2>3. \/ Makes(c) /\ c[2] = g_testdir2
        \/ Spares(c, g_testdir2) /\ call # 35
    BY <2>1, <2>2, FirstStays DEF c
  <2> QED  BY <1>6, <2>1, <2>3, Paths
<1>8. ASSUME clean, ~unseen, g_nerrors = 0
      PROVE  Finds(c) /\ \A f : Left(c, f) => f = Tree(call + 1)
  BY <1>1, <1>3, <1>8, CleanStep DEF MountInv, c
<1>9. clean' /\ faults' = 0 => g_nerrors' = 0
  <2> SUFFICES ASSUME clean', faults' = 0 PROVE g_nerrors' = 0
    OBVIOUS
  <2>1. clean /\ ~unseen /\ g_nerrors = 0
    BY <1>1, <1>3, <1>4 DEF MountInv
  <2> QED  BY <1>6, <1>8, <2>1
<1>10. clean' /\ ~unseen' /\ g_nerrors' = 0 =>
         \A p \in Path : call' # 1 \/ p # g_testfilel => fs'[p] = Tree(call')[p]
  <2> SUFFICES ASSUME clean', ~unseen', g_nerrors' = 0 PROVE fs' = Tree(call + 1)
    BY <1>1
  <2>1. clean /\ ~unseen /\ g_nerrors = 0
    BY <1>1, <1>6
  <2> QED  BY <1>6, <1>8, <2>1
<1>11. ~clean' /\ ~unseen' /\ g_nerrors' = 0 => \E d \in Later(call') : fs'[d] # "none"
  <2> SUFFICES ASSUME ~clean', ~unseen', g_nerrors' = 0 PROVE \E d \in Later(call') : fs'[d] # "none"
    OBVIOUS
  <2>1. ~unseen /\ g_nerrors = 0 /\ Needs(c)
    BY <1>6
  <2>2. PICK d \in Later(call) : fs[d] # "none"
    BY <1>1, <1>3, <2>1 DEF MountInv
  <2>3. Spares(c, d) /\ d \in Later(call + 1)
    BY <1>1, <2>1, <2>2, LaterStep DEF c
  <2>4. fs'[d] = fs[d]
    BY <1>6, <2>3 DEF Spares
  <2> QED  BY <1>1, <2>2, <2>3, <2>4
<1>12. call' # 0
  BY <1>1
<1> QED  BY <1>3, <1>5, <1>7, <1>9, <1>10, <1>11, <1>12, Zenon DEF MountInv

LEMMA UmountKeeps == MountInv /\ MountUmounts => MountInv'
<1> SUFFICES ASSUME MountInv, MountUmounts PROVE MountInv'
  OBVIOUS
<1>1. call = 66 /\ call' = 67 /\ clean' = clean /\ Expects(Gives("OK", fs), "OK")
  BY Indices DEF MountUmounts
<1>2. /\ fs' = fs
      /\ \/ faults' = faults /\ unseen' = unseen /\ g_nerrors' = g_nerrors
         \/ /\ faults' = faults + 1 /\ g_nerrors' \in Nat /\ unseen' \in BOOLEAN
            /\ g_nerrors' # 0 \/ unseen'
  <2>1. g_nerrors \in Nat /\ unseen \in BOOLEAN
    BY DEF MountInv
  <2>2. CASE Faulty(Gives("OK", fs))
    <3>1. fs' = fs /\ faults' = faults + 1
      BY <2>2 DEF Faulty, Gives
    <3>2. CASE CountsError /\ UNCHANGED unseen
      BY <2>1, <3>1, <3>2, Counted
    <3>3. CASE unseen' = TRUE /\ UNCHANGED g_nerrors
      BY <2>1, <3>1, <3>3
    <3> QED  BY <2>2, <3>2, <3>3 DEF Faulty
  <2> QED  BY <1>1, <2>2 DEF Expects, Gives
<1>3. Tree(66) = Tree(67) /\ Later(66) = {} /\ Later(67) = {}
  BY DEF Tree, Dirs, Files, Later
<1>4. CASE faults' = faults /\ unseen' = unseen /\ g_nerrors' = g_nerrors
  BY <1>1, <1>2, <1>3, <1>4 DEF MountInv
<1>5. CASE /\ faults' = faults + 1 /\ g_nerrors' \in Nat /\ unseen' \in BOOLEAN
           /\ g_nerrors' # 0 \/ unseen'
  <2>1. call' \in 0 .. 67 /\ call' # 0 /\ faults' \in Nat /\ faults' # 0
    BY <1>1, <1>5 DEF MountInv
  <2>2. clean' \in BOOLEAN /\ TreeOK(fs')
    BY <1>1, <1>2 DEF MountInv
  <2> QED  BY <1>5, <2>1, <2>2, Zenon DEF MountInv
<1> QED  BY <1>2, <1>4, <1>5

LEMMA PowerKeeps == MountInv /\ MountPowerOff => MountInv'
<1> SUFFICES ASSUME MountInv, MountPowerOff PROVE MountInv'
  OBVIOUS
<1>1. /\ call' = 0 /\ g_nerrors' = 0 /\ faults' = 0 /\ unseen' = FALSE /\ clean' = FALSE
      /\ TreeOK(fs')
  BY DEF MountPowerOff, MountInv
<1>2. /\ call' \in 0 .. 67 /\ g_nerrors' \in Nat /\ faults' \in Nat
      /\ ~(call' > 0) /\ ~(call' > 35)
  BY <1>1
<1> QED  BY <1>1, <1>2, Zenon DEF MountInv

LEMMA MountEndKeeps == MountInv /\ MountEnds => MountInv'
<1> SUFFICES ASSUME MountInv, MountEnds PROVE MountInv'
  OBVIOUS
<1>1. call = 67 /\ call' = 0 /\ UNCHANGED <<g_nerrors, fs, clean, unseen, faults>>
  BY Indices DEF MountEnds
<1>2. faults = 0 => ~ Clean
  BY <1>1 DEF MountInv, Clean, Has, TestDirs, g_testdir2
<1> QED  BY <1>1, <1>2 DEF MountInv, Clean, Has

LEMMA MountStep == MountInv /\ [MountNext \/ MountPowerOff]_mountVars => MountInv'
<1>1. MountInv /\ UNCHANGED mountVars => MountInv'
  BY DEF MountInv, mountVars, Clean, Has
<1> QED
  BY <1>1, StartKeeps, CallKeeps, UmountKeeps, PowerKeeps, MountEndKeeps DEF MountNext

LEMMA MountReports == MountInv => ReportRight
<1> SUFFICES ASSUME MountInv, call = 67 PROVE
       /\ faults = 0 => (g_nerrors = 0 <=> clean)
       /\ g_nerrors = 0 /\ ~unseen =>
            /\ clean
            /\ {p \in Path : fs[p] = "dir"} = {g_testdir2, g_testdir4}
            /\ {p \in Path : fs[p] = "file"} = {g_testfile4}
  BY Indices DEF ReportRight
<1>1. Later(67) = {}
  BY DEF Later
<1>2. g_nerrors = 0 /\ ~unseen => clean
  BY <1>1 DEF MountInv
<1>3. faults = 0 => (g_nerrors = 0 <=> clean)
  BY <1>2 DEF MountInv
<1>4. ASSUME g_nerrors = 0, ~unseen
      PROVE  /\ {p \in Path : fs[p] = "dir"} = {g_testdir2, g_testdir4}
             /\ {p \in Path : fs[p] = "file"} = {g_testfile4}
  <2>1. \A p \in Path : fs[p] = Tree(67)[p]
    BY <1>2, <1>4 DEF MountInv
  <2>2. Dirs(67) = {g_testdir2, g_testdir4} /\ Files(67) = {g_testfile4}
    BY Paths DEF Dirs, Files
  <2>3. g_testfile4 \notin {g_testdir2, g_testdir4}
    BY Lengths
  <2> QED  BY <2>1, <2>2, <2>3, Paths DEF Tree
<1> QED  BY <1>2, <1>3, <1>4

----
(* The benchmark. *)

(* The shapes of the variables. *)
Records == [Ptr_Comp : {"Null", "Ptr_Glob", "Next_Ptr_Glob"}, Discr : Int, Enum_Comp : Int,
            Int_Comp : Int, Str_Comp : Int]
Variables ==
  [Int_Glob : Int, Bool_Glob : BOOLEAN, Ch_1_Glob : Int, Ch_2_Glob : Int,
   Arr_1_Glob : [Elements_1 -> Int], Arr_2_Glob : [Elements_2 -> Int],
   rec : [{"Ptr_Glob", "Next_Ptr_Glob"} -> Records],
   Int_1_Loc : Int, Int_2_Loc : Int, Int_3_Loc : Int, Enum_Loc : Int,
   Str_1_Loc : Int, Str_2_Loc : Int]

(* What main sets before the first run and no run changes, but for the count. *)
Ready(s, n) ==
  /\ s \in Variables
  /\ s.rec["Ptr_Glob"].Ptr_Comp = "Next_Ptr_Glob" /\ s.rec["Ptr_Glob"].Discr = Ident_1
  /\ s.rec["Ptr_Glob"].Enum_Comp = Ident_3 /\ s.rec["Ptr_Glob"].Str_Comp = SOME_STRING
  /\ s.Str_1_Loc = FIRST_STRING
  /\ s.Arr_2_Glob[<<8, 7>>] = n

(* The variables after a run. *)
Ran(s, n) ==
  /\ Ready(s, n)
  /\ s.Int_Glob = 5 /\ s.Bool_Glob /\ s.Ch_1_Glob = A /\ s.Ch_2_Glob = B
  /\ s.Arr_1_Glob[8] = 7
  /\ s.rec["Ptr_Glob"].Int_Comp = 17
  /\ s.rec["Next_Ptr_Glob"] = [Ptr_Comp |-> "Next_Ptr_Glob", Discr |-> 0,
                               Enum_Comp |-> 1, Int_Comp |-> 18, Str_Comp |-> SOME_STRING]
  /\ s.Int_1_Loc = 5 /\ s.Int_2_Loc = 13 /\ s.Int_3_Loc = 7 /\ s.Enum_Loc = 1
  /\ s.Str_2_Loc = SECOND_STRING

(* No letter that main goes through changes anything: none is 'C'. *)
LEMMA LettersChangeNothing ==
  ASSUME NEW s \in Variables, s.Ch_2_Glob = B, s.Enum_Loc = Ident_2
  PROVE  Compared(s) = s
<1> DEFINE Through(f) == f = [letter \in A - 1 .. s.Ch_2_Glob |->
                                IF letter < A THEN s ELSE Compare(f[letter - 1], letter)]
           through == CHOOSE f : Through(f)
           same == [letter \in A - 1 .. s.Ch_2_Glob |-> s]
<1>1. \A letter \in A - 1 .. s.Ch_2_Glob : letter = 64 \/ letter = 65 \/ letter = 66
  BY DEF A, B
<1>2. \A letter \in {65, 66} : Compare(s, letter) = s
  BY DEF Compare, Func_1, Func_1_Leaves, C, Ident_1, Ident_2
<1>3. Through(same)
  BY <1>1, <1>2 DEF A, B
<1>4. Through(through)
  BY <1>3
<1>5. through[64] = s /\ through[65] = Compare(through[64], 65)
      /\ through[66] = Compare(through[65], 66)
  <2>1. {64, 65, 66} \subseteq A - 1 .. s.Ch_2_Glob
    BY DEF A, B
  <2>2. \A letter \in A - 1 .. s.Ch_2_Glob :
          through[letter] = IF letter < A THEN s ELSE Compare(through[letter - 1], letter)
    <3> HIDE DEF through
    <3> QED  BY <1>4
  <2> HIDE DEF through
  <2> QED  BY <2>1, <2>2 DEF A
<1>6. through[s.Ch_2_Glob] = s
  BY <1>2, <1>5 DEF B
<1> QED  BY <1>6 DEF Compared

(* The loop's body up to Proc_8: no call of it touches the records or the arrays. *)
Before(s) ==
  LET four == Proc_4(Proc_5(s))
      set == [four EXCEPT !.Str_2_Loc = SECOND_STRING, !.Enum_Loc = Ident_2]
      differ == [Func_2_Leaves(set, set.Str_1_Loc, set.Str_2_Loc)
                   EXCEPT !.Bool_Glob = ~Func_2(set.Str_1_Loc, set.Str_2_Loc)]
  IN [differ EXCEPT !.Int_1_Loc = 3, !.Int_2_Loc = 3, !.Int_3_Loc = Proc_7(2, 3)]

LEMMA BeforeGives ==
  ASSUME NEW s \in Variables, s.Str_1_Loc = FIRST_STRING
  PROVE  /\ Before(s) \in Variables
         /\ Before(s).Bool_Glob /\ Before(s).Ch_1_Glob = A /\ Before(s).Ch_2_Glob = B
         /\ Before(s).Str_2_Loc = SECOND_STRING /\ Before(s).Enum_Loc = Ident_2
         /\ Before(s).Int_1_Loc = 3 /\ Before(s).Int_2_Loc = 3 /\ Before(s).Int_3_Loc = 7
         /\ Before(s).Str_1_Loc = s.Str_1_Loc /\ Before(s).rec = s.rec
         /\ Before(s).Arr_1_Glob = s.Arr_1_Glob /\ Before(s).Arr_2_Glob = s.Arr_2_Glob
<1> DEFINE five == Proc_5(s)
           four == Proc_4(five)
           set == [four EXCEPT !.Str_2_Loc = SECOND_STRING, !.Enum_Loc = Ident_2]
           differ == [Func_2_Leaves(set, set.Str_1_Loc, set.Str_2_Loc)
                        EXCEPT !.Bool_Glob = ~Func_2(set.Str_1_Loc, set.Str_2_Loc)]
<1> DEFINE Kept(t) == /\ t.Str_1_Loc = s.Str_1_Loc /\ t.rec = s.rec
                      /\ t.Arr_1_Glob = s.Arr_1_Glob /\ t.Arr_2_Glob = s.Arr_2_Glob
<1>1. five \in Variables /\ five.Ch_1_Glob = A /\ Kept(five)
  <2>1. \A b \in BOOLEAN, x \in Int : [s EXCEPT !.Ch_1_Glob = x, !.Bool_Glob = b] \in Variables
    BY DEF Variables
  <2>2. A \in Int /\ FALSE \in BOOLEAN
    BY DEF A
  <2>3. five \in Variables
    BY <2>1, <2>2 DEF Proc_5
  <2> QED  BY <2>3 DEF Proc_5, Variables
<1>2. four \in Variables /\ four.Ch_1_Glob = A /\ four.Ch_2_Glob = B /\ Kept(four)
  <2> HIDE DEF five
  <2>1. \A b \in BOOLEAN, x \in Int : [five EXCEPT !.Bool_Glob = b, !.Ch_2_Glob = x] \in Variables
    BY <1>1 DEF Variables
  <2>2. B \in Int /\ ((five.Ch_1_Glob = A) \/ five.Bool_Glob) \in BOOLEAN
    BY DEF B
  <2>3. four \in Variables
    BY <2>1, <2>2 DEF Proc_4
  <2> QED  BY <2>3, <1>1 DEF Proc_4, Variables
<1>3. /\ set \in Variables /\ set.Ch_1_Glob = A /\ set.Ch_2_Glob = B /\ Kept(set)
      /\ set.Str_2_Loc = SECOND_STRING /\ set.Enum_Loc = Ident_2
  <2> HIDE DEF four
  <2>1. \A x, y \in Int : [four EXCEPT !.Str_2_Loc = x, !.Enum_Loc = y] \in Variables
    BY <1>2 DEF Variables
  <2>2. SECOND_STRING \in Int /\ Ident_2 \in Int
    BY DEF SECOND_STRING, Ident_2
  <2>3. set \in Variables
    BY <2>1, <2>2
  <2> QED  BY <2>3, <1>2 DEF Variables
<1>4. /\ differ \in Variables /\ differ.Ch_1_Glob = A /\ differ.Ch_2_Glob = B /\ Kept(differ)
      /\ differ.Str_2_Loc = SECOND_STRING /\ differ.Enum_Loc = Ident_2
      /\ differ.Bool_Glob
  <2> HIDE DEF set
  <2>1. ~ Func_2(set.Str_1_Loc, set.Str_2_Loc)
    BY <1>3 DEF Func_2, FIRST_STRING, SECOND_STRING
  <2>2. Func_2_Leaves(set, set.Str_1_Loc, set.Str_2_Loc) = set
    BY <2>1 DEF Func_2, Func_2_Leaves
  <2>3. \A b \in BOOLEAN : [set EXCEPT !.Bool_Glob = b] \in Variables
    BY <1>3 DEF Variables
  <2>4. (~Func_2(set.Str_1_Loc, set.Str_2_Loc)) \in BOOLEAN
    OBVIOUS
  <2>5. differ \in Variables
    BY <2>2, <2>3, <2>4
  <2>6. differ.Bool_Glob
    BY <2>1, <2>2, <1>3 DEF Variables
  <2> QED  BY <2>2, <2>5, <2>6, <1>3 DEF Variables
<1> DEFINE seven == [differ EXCEPT !.Int_1_Loc = 3, !.Int_2_Loc = 3, !.Int_3_Loc = Proc_7(2, 3)]
<1>5. Proc_7(2, 3) = 7
  BY DEF Proc_7
<1>6. /\ seven \in Variables
      /\ seven.Bool_Glob /\ seven.Ch_1_Glob = A /\ seven.Ch_2_Glob = B
      /\ seven.Str_2_Loc = SECOND_STRING /\ seven.Enum_Loc = Ident_2
      /\ seven.Int_1_Loc = 3 /\ seven.Int_2_Loc = 3 /\ seven.Int_3_Loc = 7
      /\ Kept(seven)
  <2> HIDE DEF differ
  <2>1. \A x, y, z \in Int :
           [differ EXCEPT !.Int_1_Loc = x, !.Int_2_Loc = y, !.Int_3_Loc = z] \in Variables
    BY <1>4 DEF Variables
  <2>2. seven \in Variables
    <3>1. 3 \in Int /\ Proc_7(2, 3) \in Int
      BY <1>5
    <3> QED  BY <2>1, <3>1, Zenon
  <2> QED  BY <1>4, <1>5, <2>2 DEF Variables
<1>7. Before(s) = seven
  BY DEF Before
<1> QED  BY <1>6, <1>7, Zenon

(* Proc_8 counts in the second array, and leaves all but the arrays and Int_Glob. *)
LEMMA Proc_8Gives ==
  ASSUME NEW s \in Variables
  PROVE  LET t == Proc_8(s, 3, 7)
         IN /\ t \in Variables
            /\ t.Arr_1_Glob[8] = 7 /\ t.Arr_2_Glob[<<8, 7>>] = s.Arr_2_Glob[<<8, 7>>] + 1
            /\ t.Int_Glob = 5
            /\ t.Bool_Glob = s.Bool_Glob /\ t.Ch_1_Glob = s.Ch_1_Glob /\ t.Ch_2_Glob = s.Ch_2_Glob
            /\ t.rec = s.rec /\ t.Int_1_Loc = s.Int_1_Loc /\ t.Int_2_Loc = s.Int_2_Loc
            /\ t.Int_3_Loc = s.Int_3_Loc /\ t.Enum_Loc = s.Enum_Loc
            /\ t.Str_1_Loc = s.Str_1_Loc /\ t.Str_2_Loc = s.Str_2_Loc
<1> DEFINE loc == 3 + 5
           arr_1 == [s.Arr_1_Glob EXCEPT ![loc] = 7, ![loc + 1] = 7, ![loc + 30] = loc]
           arr_2 == [s.Arr_2_Glob EXCEPT ![<<loc, loc>>] = loc, ![<<loc, loc + 1>>] = loc,
                                         ![<<loc, loc - 1>>] = @ + 1, ![<<loc + 20, loc>>] = 7]
           t == [s EXCEPT !.Arr_1_Glob = arr_1, !.Arr_2_Glob = arr_2, !.Int_Glob = 5]
<1>1. s.Arr_1_Glob \in [Elements_1 -> Int] /\ s.Arr_2_Glob \in [Elements_2 -> Int]
  BY DEF Variables
<1>2. arr_1 \in [Elements_1 -> Int] /\ arr_1[8] = 7
  BY <1>1 DEF Elements_1
<1>3. arr_2 \in [Elements_2 -> Int] /\ arr_2[<<8, 7>>] = s.Arr_2_Glob[<<8, 7>>] + 1
  BY <1>1 DEF Elements_2
<1>4. Proc_8(s, 3, 7) = t
  BY DEF Proc_8
<1>5. t \in Variables
  <2> HIDE DEF arr_1, arr_2, loc
  <2>1. \A a \in [Elements_1 -> Int], b \in [Elements_2 -> Int], x \in Int :
           [s EXCEPT !.Arr_1_Glob = a, !.Arr_2_Glob = b, !.Int_Glob = x] \in Variables
    BY DEF Variables
  <2>2. 5 \in Int
    OBVIOUS
  <2> QED  BY <2>1, <2>2, <1>2, <1>3
<1>6. t.Arr_1_Glob = arr_1 /\ t.Arr_2_Glob = arr_2 /\ t.Int_Glob = 5
  <2> HIDE DEF arr_1, arr_2, loc
  <2> QED  BY DEF Variables
<1>7. /\ t.Bool_Glob = s.Bool_Glob /\ t.Ch_1_Glob = s.Ch_1_Glob /\ t.Ch_2_Glob = s.Ch_2_Glob
      /\ t.rec = s.rec /\ t.Int_1_Loc = s.Int_1_Loc /\ t.Int_2_Loc = s.Int_2_Loc
      /\ t.Int_3_Loc = s.Int_3_Loc /\ t.Enum_Loc = s.Enum_Loc
      /\ t.Str_1_Loc = s.Str_1_Loc /\ t.Str_2_Loc = s.Str_2_Loc
  <2> HIDE DEF arr_1, arr_2, loc
  <2> QED  BY DEF Variables
<1> HIDE DEF t, arr_1, arr_2, loc
<1> QED  BY <1>2, <1>3, <1>4, <1>5, <1>6, <1>7

(* Proc_1 changes the records alone. *)
WithRec(s, r) == [s EXCEPT !.rec = r]
Both == [{"Ptr_Glob", "Next_Ptr_Glob"} -> Records]

LEMMA WithRecGives ==
  ASSUME NEW s \in Variables, NEW r \in Both
  PROVE  LET t == WithRec(s, r)
         IN /\ t \in Variables /\ t.rec = r
            /\ t.Arr_1_Glob = s.Arr_1_Glob /\ t.Arr_2_Glob = s.Arr_2_Glob
            /\ t.Int_Glob = s.Int_Glob /\ t.Bool_Glob = s.Bool_Glob
            /\ t.Ch_1_Glob = s.Ch_1_Glob /\ t.Ch_2_Glob = s.Ch_2_Glob
            /\ t.Int_1_Loc = s.Int_1_Loc /\ t.Int_2_Loc = s.Int_2_Loc
            /\ t.Int_3_Loc = s.Int_3_Loc /\ t.Enum_Loc = s.Enum_Loc
            /\ t.Str_1_Loc = s.Str_1_Loc /\ t.Str_2_Loc = s.Str_2_Loc
            /\ \A q : WithRec(t, q) = WithRec(s, q)
<1>1. WithRec(s, r) \in Variables
  BY DEF WithRec, Variables, Both
<1>2. \A q : WithRec(WithRec(s, r), q) = WithRec(s, q)
  BY DEF WithRec, Variables
<1> QED  BY <1>1, <1>2 DEF WithRec, Variables

(* The two records as a run of main leaves them, with what varies between. *)
Record(enum, int) == [Ptr_Comp |-> "Next_Ptr_Glob", Discr |-> 0, Enum_Comp |-> enum,
                      Int_Comp |-> int, Str_Comp |-> SOME_STRING]
Pair(a, b) == [q \in {"Ptr_Glob", "Next_Ptr_Glob"} |-> IF q = "Ptr_Glob" THEN a ELSE b]
With(s, e, x, f, y) == WithRec(s, Pair(Record(e, x), Record(f, y)))

LEMMA RecordFacts ==
  ASSUME NEW e \in Int, NEW x \in Int, NEW y \in Int
  PROVE  /\ Record(e, x) \in Records
         /\ [Record(e, x) EXCEPT !.Int_Comp = y] = Record(e, y)
         /\ [Record(e, x) EXCEPT !.Enum_Comp = y] = Record(y, x)
         /\ [Record(e, x) EXCEPT !.Ptr_Comp = "Next_Ptr_Glob"] = Record(e, x)
         /\ Record(e, x).Ptr_Comp = "Next_Ptr_Glob" /\ Record(e, x).Discr = 0
         /\ Record(e, x).Enum_Comp = e
BY DEF Record, Records, SOME_STRING

LEMMA PairFacts ==
  ASSUME NEW a \in Records, NEW b \in Records, NEW c
  PROVE  /\ Pair(a, b) \in Both
         /\ [Pair(a, b) EXCEPT !["Ptr_Glob"] = c] = Pair(c, b)
         /\ [Pair(a, b) EXCEPT !["Next_Ptr_Glob"] = c] = Pair(a, c)
         /\ Pair(a, b)["Ptr_Glob"] = a /\ Pair(a, b)["Next_Ptr_Glob"] = b
BY DEF Pair, Both

LEMMA WithFacts ==
  ASSUME NEW s \in Variables, NEW e \in Int, NEW x \in Int, NEW f \in Int, NEW y \in Int
  PROVE  LET t == With(s, e, x, f, y)
         IN /\ t.rec = Pair(Record(e, x), Record(f, y)) /\ t.Int_Glob = s.Int_Glob
            /\ t.rec["Ptr_Glob"] = Record(e, x) /\ t.rec["Next_Ptr_Glob"] = Record(f, y)
            /\ \A q : WithRec(t, q) = WithRec(s, q)
<1>1. Record(e, x) \in Records /\ Record(f, y) \in Records
  BY RecordFacts
<1> DEFINE r == Pair(Record(e, x), Record(f, y))
<1>2. r \in Both /\ r["Ptr_Glob"] = Record(e, x) /\ r["Next_Ptr_Glob"] = Record(f, y)
  BY <1>1, PairFacts
<1> HIDE DEF r
<1>3. /\ WithRec(s, r).rec = r /\ WithRec(s, r).Int_Glob = s.Int_Glob
      /\ \A q : WithRec(WithRec(s, r), q) = WithRec(s, q)
  BY <1>2, WithRecGives
<1>4. With(s, e, x, f, y) = WithRec(s, r)
  BY DEF With, r
<1> QED  BY <1>2, <1>3, <1>4 DEF r

LEMMA WithUpdates ==
  ASSUME NEW s \in Variables, NEW e \in Int, NEW x \in Int, NEW f \in Int, NEW y \in Int,
         NEW z \in Int
  PROVE  LET t == With(s, e, x, f, y)
         IN /\ SetInt(t, "Ptr_Glob", z) = With(s, e, z, f, y)
            /\ SetInt(t, "Next_Ptr_Glob", z) = With(s, e, x, f, z)
            /\ SetEnum(t, "Next_Ptr_Glob", z) = With(s, e, x, z, y)
            /\ SetPtr(t, "Next_Ptr_Glob", "Next_Ptr_Glob") = t
<1> DEFINE t == With(s, e, x, f, y)
<1> DEFINE a == Record(e, x)
           b == Record(f, y)
<1>1. a \in Records /\ b \in Records
  BY RecordFacts
<1>2. /\ t.rec = Pair(a, b) /\ t.rec["Ptr_Glob"] = a /\ t.rec["Next_Ptr_Glob"] = b
      /\ \A q : WithRec(t, q) = WithRec(s, q)
  <2>1. /\ t.rec = Pair(Record(e, x), Record(f, y))
        /\ t.rec["Ptr_Glob"] = Record(e, x) /\ t.rec["Next_Ptr_Glob"] = Record(f, y)
    <3> HIDE DEF t
    <3> QED  BY WithFacts, SMTT(60) DEF t
  <2>2. \A q : WithRec(t, q) = WithRec(s, q)
    BY WithFacts
  <2> QED  BY <2>1, <2>2
<1>3. /\ [a EXCEPT !.Int_Comp = z] = Record(e, z) /\ [b EXCEPT !.Int_Comp = z] = Record(f, z)
      /\ [b EXCEPT !.Enum_Comp = z] = Record(z, y)
      /\ [b EXCEPT !.Ptr_Comp = "Next_Ptr_Glob"] = b
  BY RecordFacts
<1>4. /\ \A c : [Pair(a, b) EXCEPT !["Ptr_Glob"] = c] = Pair(c, b)
      /\ \A c : [Pair(a, b) EXCEPT !["Next_Ptr_Glob"] = c] = Pair(a, c)
  BY <1>1, PairFacts
<1>5. \A r : [t EXCEPT !.rec = r] = WithRec(s, r)
  BY <1>2 DEF WithRec
<1> DEFINE With4(c, d) == WithRec(s, Pair(c, d))
<1>6. /\ With4(Record(e, z), b) = With(s, e, z, f, y)
      /\ With4(a, Record(f, z)) = With(s, e, x, f, z)
      /\ With4(a, Record(z, y)) = With(s, e, x, z, y) /\ With4(a, b) = t
  BY DEF With
<1> HIDE DEF a, b, t
<1>7. /\ SetInt(t, "Ptr_Glob", z) = With(s, e, z, f, y)
      /\ SetInt(t, "Next_Ptr_Glob", z) = With(s, e, x, f, z)
      /\ SetEnum(t, "Next_Ptr_Glob", z) = With(s, e, x, z, y)
      /\ SetPtr(t, "Next_Ptr_Glob", "Next_Ptr_Glob") = t
  BY <1>2, <1>3, <1>4, <1>5, <1>6 DEF SetInt, SetEnum, SetPtr
<1> QED  BY <1>7 DEF t

(* The last assignments of Proc_1, to the record after the one at p. *)
Fives(s, p, n) == SetPtr(SetInt(SetInt(s, p, 5), n, 5), n, s.rec[p].Ptr_Comp)
Sixth(s, p, n) == SetEnum(s, n, Proc_6(s, s.rec[p].Enum_Comp))
Lasts(s, n) == SetInt(SetPtr(s, n, s.rec["Ptr_Glob"].Ptr_Comp), n, Proc_7(6, 10))

LEMMA FivesGives ==
  ASSUME NEW s \in Variables, NEW num \in Int
  PROVE  Fives(With(s, 2, num, 2, num), "Ptr_Glob", "Next_Ptr_Glob") = With(s, 2, 5, 2, 5)
<1> DEFINE t == With(s, 2, num, 2, num)
<1>1. t.rec["Ptr_Glob"].Ptr_Comp = "Next_Ptr_Glob"
  <2>1. t.rec["Ptr_Glob"] = Record(2, num)
    BY WithFacts
  <2> HIDE DEF t
  <2> QED  BY <2>1, RecordFacts
<1>2. SetInt(t, "Ptr_Glob", 5) = With(s, 2, 5, 2, num)
  BY WithUpdates
<1>3. SetInt(With(s, 2, 5, 2, num), "Next_Ptr_Glob", 5) = With(s, 2, 5, 2, 5)
  BY WithUpdates
<1>4. SetPtr(With(s, 2, 5, 2, 5), "Next_Ptr_Glob", "Next_Ptr_Glob")
        = With(s, 2, 5, 2, 5)
  BY WithUpdates
<1> HIDE DEF t
<1>5. Fives(t, "Ptr_Glob", "Next_Ptr_Glob") = With(s, 2, 5, 2, 5)
  BY <1>1, <1>2, <1>3, <1>4 DEF Fives
<1> QED  BY <1>5 DEF t

LEMMA Proc_3Gives ==
  ASSUME NEW s \in Variables, s.Int_Glob = 5
  PROVE  Proc_3(With(s, 2, 5, 2, 5), "Next_Ptr_Glob") = With(s, 2, 17, 2, 5)
<1> DEFINE t == With(s, 2, 5, 2, 5)
<1>1. t.rec["Ptr_Glob"].Ptr_Comp = "Next_Ptr_Glob" /\ t.Int_Glob = 5
  <2>1. t.rec["Ptr_Glob"] = Record(2, 5) /\ t.Int_Glob = 5
    BY WithFacts
  <2> HIDE DEF t
  <2> QED  BY <2>1, RecordFacts
<1>2. SetPtr(t, "Next_Ptr_Glob", "Next_Ptr_Glob") = t
  BY WithUpdates
<1>3. SetInt(t, "Ptr_Glob", 17) = With(s, 2, 17, 2, 5)
  BY WithUpdates
<1> HIDE DEF t
<1>4. Proc_7(10, t.Int_Glob) = 17
  BY <1>1 DEF Proc_7
<1>5. Proc_3(t, "Next_Ptr_Glob") = With(s, 2, 17, 2, 5)
  BY <1>1, <1>2, <1>3, <1>4 DEF Proc_3
<1> QED  BY <1>5 DEF t

LEMMA LastsGives ==
  ASSUME NEW s \in Variables
  PROVE  /\ Sixth(With(s, 2, 17, 2, 5), "Ptr_Glob", "Next_Ptr_Glob") = With(s, 2, 17, 1, 5)
         /\ Lasts(With(s, 2, 17, 1, 5), "Next_Ptr_Glob") = With(s, 2, 17, 1, 18)
<1> DEFINE t == With(s, 2, 17, 2, 5)
           u == With(s, 2, 17, 1, 5)
<1>1. t.rec["Ptr_Glob"].Enum_Comp = 2 /\ u.rec["Ptr_Glob"].Ptr_Comp = "Next_Ptr_Glob"
  <2>1. t.rec["Ptr_Glob"] = Record(2, 17) /\ u.rec["Ptr_Glob"] = Record(2, 17)
    BY WithFacts
  <2> HIDE DEF t, u
  <2> QED  BY <2>1, RecordFacts
<1>2. SetEnum(t, "Next_Ptr_Glob", 1) = u
  BY WithUpdates
<1>3. SetPtr(u, "Next_Ptr_Glob", "Next_Ptr_Glob") = u
  BY WithUpdates
<1>4. SetInt(u, "Next_Ptr_Glob", 18) = With(s, 2, 17, 1, 18)
  BY WithUpdates
<1> HIDE DEF t, u
<1>5. Proc_7(6, 10) = 18
  BY DEF Proc_7
<1>6. Proc_6(t, t.rec["Ptr_Glob"].Enum_Comp) = 1
  BY <1>1 DEF Proc_6, Ident_1, Ident_2, Ident_3, Ident_4, Ident_5
<1>7. Sixth(t, "Ptr_Glob", "Next_Ptr_Glob") = u
  BY <1>2, <1>6 DEF Sixth
<1>8. Lasts(u, "Next_Ptr_Glob") = With(s, 2, 17, 1, 18)
  BY <1>1, <1>3, <1>4, <1>5 DEF Lasts
<1> QED  BY <1>7, <1>8 DEF t, u

LEMMA Proc_1Gives ==
  ASSUME NEW s \in Variables, s.Int_Glob = 5,
         s.rec["Ptr_Glob"].Ptr_Comp = "Next_Ptr_Glob", s.rec["Ptr_Glob"].Discr = Ident_1,
         s.rec["Ptr_Glob"].Enum_Comp = Ident_3, s.rec["Ptr_Glob"].Str_Comp = SOME_STRING
  PROVE  Proc_1(s, "Ptr_Glob") = With(s, 2, 17, 1, 18)
<1> DEFINE n == s.rec["Ptr_Glob"].Ptr_Comp
           copied == [s EXCEPT !.rec[n] = s.rec["Ptr_Glob"]]
           five == Fives(copied, "Ptr_Glob", n)
           third == Proc_3(five, n)
           sixth == Sixth(third, "Ptr_Glob", n)
<1>1. PICK num \in Int : s.rec["Ptr_Glob"] = Record(2, num)
  <2>1. s.rec["Ptr_Glob"] \in Records
    BY DEF Variables
  <2>2. s.rec["Ptr_Glob"].Int_Comp \in Int
    BY <2>1 DEF Records
  <2>3. s.rec["Ptr_Glob"] = Record(2, s.rec["Ptr_Glob"].Int_Comp)
    BY <2>1 DEF Records, Ident_1, Ident_3, Record
  <2> QED  BY <2>2, <2>3
<1>2. copied = With(s, 2, num, 2, num)
  <2>1. s.rec \in Both
    BY DEF Variables, Both
  <2>2. [s.rec EXCEPT !["Next_Ptr_Glob"] = Record(2, num)] = Pair(Record(2, num), Record(2, num))
    BY <2>1, <1>1 DEF Both, Pair
  <2>3. copied = [s EXCEPT !.rec = [s.rec EXCEPT !["Next_Ptr_Glob"] = Record(2, num)]]
    BY <1>1
  <2> QED  BY <2>2, <2>3 DEF With, WithRec
<1>3. n = "Next_Ptr_Glob"
  OBVIOUS
<1>4. Proc_1(s, "Ptr_Glob") = IF third.rec[n].Discr = Ident_1 THEN Lasts(sixth, n)
                              ELSE [third EXCEPT !.rec["Ptr_Glob"] =
                                                     third.rec[third.rec["Ptr_Glob"].Ptr_Comp]]
  BY Zenon DEF Proc_1, Fives, Sixth, Lasts
<1> HIDE DEF n, copied
<1>5. five = With(s, 2, 5, 2, 5)
  BY <1>2, <1>3, FivesGives
<1> HIDE DEF five
<1>6. third = With(s, 2, 17, 2, 5)
  BY <1>3, <1>5, Proc_3Gives
<1>7. With(s, 2, 17, 2, 5).rec["Next_Ptr_Glob"].Discr = 0
  <2>1. With(s, 2, 17, 2, 5).rec["Next_Ptr_Glob"] = Record(2, 5)
    BY WithFacts
  <2> QED  BY <2>1, RecordFacts
<1> HIDE DEF third
<1>8. third.rec[n].Discr = Ident_1
  BY <1>3, <1>6, <1>7 DEF Ident_1
<1>9. Lasts(sixth, n) = With(s, 2, 17, 1, 18)
  BY <1>3, <1>6, LastsGives
<1> HIDE DEF sixth
<1> QED  BY <1>4, <1>8, <1>9

(* A run of the loop, from what main sets. *)
LEMMA RunGives ==
  ASSUME NEW s, NEW n \in Int, Ready(s, n)
  PROVE  Ran(Run(s), n + 1)
<1> DEFINE before == Before(s)
           eight == Proc_8(before, before.Int_1_Loc, before.Int_3_Loc)
           one == Proc_1(eight, "Ptr_Glob")
           compared == Compared(one)
           product == compared.Int_2_Loc * compared.Int_1_Loc
           quotient == product \div compared.Int_3_Loc
           ran == [compared EXCEPT !.Int_2_Loc = 7 * (product - compared.Int_3_Loc) - quotient,
                                   !.Int_1_Loc = Proc_2(compared, quotient)]
<1>1. Run(s) = ran
  BY Zenon DEF Run, Before
<1>2. /\ before \in Variables
      /\ before.Bool_Glob /\ before.Ch_1_Glob = A /\ before.Ch_2_Glob = B
      /\ before.Str_2_Loc = SECOND_STRING /\ before.Enum_Loc = Ident_2
      /\ before.Int_1_Loc = 3 /\ before.Int_2_Loc = 3 /\ before.Int_3_Loc = 7
      /\ before.Str_1_Loc = FIRST_STRING /\ before.rec = s.rec
      /\ before.Arr_2_Glob[<<8, 7>>] = n
  BY BeforeGives DEF Ready
<1> HIDE DEF before
<1>3. /\ eight \in Variables
      /\ eight.Arr_1_Glob[8] = 7 /\ eight.Arr_2_Glob[<<8, 7>>] = n + 1 /\ eight.Int_Glob = 5
      /\ eight.Bool_Glob /\ eight.Ch_1_Glob = A /\ eight.Ch_2_Glob = B
      /\ eight.rec = s.rec /\ eight.Int_1_Loc = 3 /\ eight.Int_2_Loc = 3
      /\ eight.Int_3_Loc = 7 /\ eight.Enum_Loc = Ident_2
      /\ eight.Str_1_Loc = FIRST_STRING /\ eight.Str_2_Loc = SECOND_STRING
  BY <1>2, Proc_8Gives
<1> HIDE DEF eight
<1> DEFINE r == Pair(Record(2, 17), Record(1, 18))
<1>4. one = WithRec(eight, r) /\ r \in Both
  <2>1. one = With(eight, 2, 17, 1, 18)
    BY <1>3, Proc_1Gives DEF Ready
  <2>2. Record(2, 17) \in Records /\ Record(1, 18) \in Records
    BY RecordFacts
  <2> QED  BY <2>1, <2>2, PairFacts DEF With
<1> HIDE DEF one, r
<1>5. /\ one \in Variables /\ one.rec = r
      /\ one.Arr_1_Glob[8] = 7 /\ one.Arr_2_Glob[<<8, 7>>] = n + 1 /\ one.Int_Glob = 5
      /\ one.Bool_Glob /\ one.Ch_1_Glob = A /\ one.Ch_2_Glob = B
      /\ one.Int_1_Loc = 3 /\ one.Int_2_Loc = 3 /\ one.Int_3_Loc = 7
      /\ one.Enum_Loc = Ident_2
      /\ one.Str_1_Loc = FIRST_STRING /\ one.Str_2_Loc = SECOND_STRING
  BY <1>3, <1>4, WithRecGives
<1>6. compared = one
  BY <1>5, LettersChangeNothing
<1> HIDE DEF compared
<1>7. product = 9 /\ quotient = 1
  BY <1>5, <1>6
<1>8. 7 * (product - compared.Int_3_Loc) - quotient = 13 /\ Proc_2(compared, quotient) = 5
  BY <1>5, <1>6, <1>7 DEF Proc_2
<1> HIDE DEF product, quotient
<1>9. ran = [one EXCEPT !.Int_2_Loc = 13, !.Int_1_Loc = 5]
  BY <1>6, <1>8
<1> HIDE DEF ran
<1>10. ran \in Variables
  <2>1. \A x, y \in Int : [one EXCEPT !.Int_2_Loc = x, !.Int_1_Loc = y] \in Variables
    BY <1>5 DEF Variables
  <2>2. 13 \in Int /\ 5 \in Int
    OBVIOUS
  <2> QED  BY <1>9, <2>1, <2>2, Zenon
<1>11. /\ ran.rec = r
       /\ ran.Arr_1_Glob[8] = 7 /\ ran.Arr_2_Glob[<<8, 7>>] = n + 1 /\ ran.Int_Glob = 5
       /\ ran.Bool_Glob /\ ran.Ch_1_Glob = A /\ ran.Ch_2_Glob = B
       /\ ran.Int_1_Loc = 5 /\ ran.Int_2_Loc = 13 /\ ran.Int_3_Loc = 7
       /\ ran.Enum_Loc = Ident_2
       /\ ran.Str_1_Loc = FIRST_STRING /\ ran.Str_2_Loc = SECOND_STRING
  BY <1>5, <1>9 DEF Variables
<1>12. r["Ptr_Glob"] = Record(2, 17) /\ r["Next_Ptr_Glob"] = Record(1, 18)
  BY DEF r, Pair
<1>13. Ran(ran, n + 1)
  BY <1>10, <1>11, <1>12 DEF Ran, Ready, Record, Ident_1, Ident_2, Ident_3
<1> QED  BY <1>1, <1>13

(* What main sets before its loop. *)
LEMMA StartReady ==
  ASSUME NEW s \in Variables
  PROVE  Ready([s EXCEPT !.rec["Ptr_Glob"] =
                        [Ptr_Comp |-> "Next_Ptr_Glob", Discr |-> Ident_1,
                         Enum_Comp |-> Ident_3, Int_Comp |-> 40, Str_Comp |-> SOME_STRING],
                    !.Str_1_Loc = FIRST_STRING,
                    !.Arr_2_Glob[<<8, 7>>] = 10], 10)
<1> DEFINE first == [Ptr_Comp |-> "Next_Ptr_Glob", Discr |-> Ident_1,
                     Enum_Comp |-> Ident_3, Int_Comp |-> 40, Str_Comp |-> SOME_STRING]
           t == [s EXCEPT !.rec["Ptr_Glob"] = first, !.Str_1_Loc = FIRST_STRING,
                          !.Arr_2_Glob[<<8, 7>>] = 10]
           r == [s.rec EXCEPT !["Ptr_Glob"] = first]
           arr == [s.Arr_2_Glob EXCEPT ![<<8, 7>>] = 10]
<1>1. first = Record(2, 40) /\ first \in Records
  <2>1. first = Record(2, 40)
    BY DEF Record, Ident_1, Ident_3
  <2>2. Record(2, 40) \in Records
    BY RecordFacts
  <2> QED  BY <2>1, <2>2
<1> HIDE DEF first
<1>2. r \in Both /\ r["Ptr_Glob"] = first
  BY <1>1 DEF Both, Variables
<1>3. arr \in [Elements_2 -> Int] /\ arr[<<8, 7>>] = 10
  BY DEF Variables, Elements_2
<1>4. t = [s EXCEPT !.rec = r, !.Str_1_Loc = FIRST_STRING, !.Arr_2_Glob = arr]
  OBVIOUS
<1> HIDE DEF t, r, arr
<1>5. t \in Variables
  <2>1. \A q \in Both, x \in Int, a \in [Elements_2 -> Int] :
           [s EXCEPT !.rec = q, !.Str_1_Loc = x, !.Arr_2_Glob = a] \in Variables
    BY DEF Variables, Both
  <2>2. FIRST_STRING \in Int
    BY DEF FIRST_STRING
  <2> QED  BY <1>2, <1>3, <1>4, <2>1, <2>2, Zenon
<1>6. t.rec = r /\ t.Str_1_Loc = FIRST_STRING /\ t.Arr_2_Glob = arr
  BY <1>4 DEF Variables
<1>7. Ready(t, 10)
  BY <1>1, <1>2, <1>3, <1>5, <1>6 DEF Ready, Record, Ident_1, Ident_3
<1> QED  BY <1>7 DEF t, first

LEMMA PowerUpVariables == AtPowerUp \in Variables
<1>1. [n \in Elements_1 |-> 0] \in [Elements_1 -> Int]
      /\ [n \in Elements_2 |-> 0] \in [Elements_2 -> Int]
  OBVIOUS
<1>2. [p \in {"Ptr_Glob", "Next_Ptr_Glob"} |-> Unset] \in Both
  BY DEF Unset, Both, Records
<1> QED  BY <1>1, <1>2 DEF AtPowerUp, Variables, Both

----
(* The inductive invariant.  The count in the second array is that of the runs of    *)
(* this call of main; from the first run on the variables are those of Ran.  A       *)
(* positive User_Time below half of mcycle's range is what the measurement took.     *)
DhryInv ==
  /\ stage \in {"idle", "trial", "running", "done"}
  /\ v \in Variables
  /\ Number_Of_Runs \in Int /\ Run_Index \in Int /\ t0 \in 0 .. ints - 1 /\ User_Time \in Int
  /\ trials \in Nat /\ total \in Nat /\ cycles \in Nat
  /\ Run_Index > 1 => v.Ch_1_Glob = A
  /\ stage # "idle" => Ready(v, 10 + total)
  /\ total > 0 => Ran(v, 10 + total)
  /\ stage = "trial" /\ trials = 0 => total = 0 /\ Number_Of_Runs = NUMBER_OF_RUNS
  /\ stage \in {"trial", "running"} /\ trials > 1 => total > 0
  /\ stage = "trial" /\ trials > 0 => total > 0
  /\ stage = "running" => trials > 0
  /\ stage = "running" /\ trials = 1 =>
       Run_Index = total + 1 /\ Number_Of_Runs = NUMBER_OF_RUNS /\ total <= Number_Of_Runs
  /\ stage = "done" => /\ trials > 0 /\ total > 0
                       /\ trials = 1 => total = Number_Of_Runs
                       /\ User_Time >= Too_Small_Time
                       /\ cycles <= INT_MAX => User_Time = cycles

(* What does not wrap. *)
LEMMA SignedKeeps ==
  ASSUME NEW x \in Int, -(INT_MAX + 1) <= x, x <= INT_MAX
  PROVE  Signed(x) = x
<1> DEFINE m == ints
<1>1. m \in Nat /\ m > 0 /\ x + INT_MAX + 1 \in 0 .. m - 1
  BY DhryAssumption DEF ints
<1>2. (x + INT_MAX + 1) % m = x + INT_MAX + 1
  <2> HIDE DEF m
  <2> QED  BY <1>1
<1> QED  BY <1>2, DhryAssumption DEF Signed

LEMMA SignedWraps ==
  ASSUME NEW x \in Int, 0 <= x, x <= INT_MAX
  PROVE  Signed(x - ints) = x
<1> DEFINE m == ints
<1>1. m \in Nat /\ m > 0 /\ x + INT_MAX + 1 \in 0 .. m - 1
  BY DhryAssumption DEF ints
<1>2. (x - m + INT_MAX + 1) % m = x + INT_MAX + 1
  <2> HIDE DEF m
  <2>1. \A y \in 0 .. m - 1 : (y - m) % m = y
    BY <1>1
  <2>2. INT_MAX \in Nat
    BY DhryAssumption
  <2>3. x - m + INT_MAX + 1 = (x + INT_MAX + 1) - m
    BY <1>1, <2>2
  <2> QED  BY <1>1, <2>1, <2>3
<1> QED  BY <1>2, DhryAssumption DEF Signed

LEMMA SignedInt == ASSUME NEW x \in Int PROVE Signed(x) \in Int
<1>1. ints \in Nat /\ ints > 0 /\ INT_MAX \in Nat
  BY DhryAssumption DEF ints
<1> QED  BY <1>1 DEF Signed

(* The time of a measurement below half of mcycle's range. *)
LEMMA TimeRight ==
  ASSUME NEW t \in 0 .. ints - 1, NEW c \in 0 .. INT_MAX
  PROVE  Signed(((t + c) % ints) - t) = c
<1> DEFINE m == ints
<1>1. m \in Nat /\ m = 2 * INT_MAX + 2 /\ INT_MAX \in Nat /\ t \in 0 .. m - 1
  BY DhryAssumption DEF ints
<1>2. CASE t + c < m
  <2>1. (t + c) % m = t + c
    <3> HIDE DEF m
    <3> QED  BY <1>1, <1>2
  <2>2. Signed(c) = c
    BY <1>1, SignedKeeps
  <2>3. ((t + c) % m) - t = c
    <3> HIDE DEF m
    <3> QED  BY <1>1, <2>1
  <2> QED  BY <2>2, <2>3
<1>3. CASE t + c >= m
  <2>1. (t + c) % m = t + c - m
    <3> HIDE DEF m
    <3>1. \A y \in 0 .. m - 1 : (y + m) % m = y
      BY <1>1
    <3>2. t + c - m \in 0 .. m - 1 /\ (t + c - m) + m = t + c
      BY <1>1, <1>3
    <3> QED  BY <3>1, <3>2
  <2>2. Signed(c - m) = c
    BY <1>1, SignedWraps
  <2>3. ((t + c) % m) - t = c - m
    <3> HIDE DEF m
    <3> QED  BY <1>1, <2>1
  <2> QED  BY <2>2, <2>3
<1> QED  BY <1>1, <1>2, <1>3

LEMMA DhryStart == DhryInit => DhryInv
BY PowerUpVariables, DhryAssumption DEF DhryInit, DhryInv, ints

LEMMA DhryRestart == DhryReset => DhryInv'
<1> SUFFICES ASSUME DhryReset PROVE DhryInv'
  OBVIOUS
<1>1. v' \in Variables
  BY PowerUpVariables DEF DhryReset
<1> QED  BY <1>1, DhryAssumption DEF DhryReset, DhryInv, ints

(* What a step of the benchmark keeps: one lemma for each. *)
LEMMA StartsKeeps == DhryInv /\ DhryStarts => DhryInv'
<1> SUFFICES ASSUME DhryInv, DhryStarts PROVE DhryInv'
  OBVIOUS
<1>1. v \in Variables
  BY DEF DhryInv
<1>2. Ready(v', 10)
  BY <1>1, StartReady DEF DhryStarts
<1>3. v' \in Variables
  BY <1>2 DEF Ready
<1>4. Run_Index' > 1 => v'.Ch_1_Glob = A
  <2>1. v'.Ch_1_Glob = v.Ch_1_Glob
    BY <1>1 DEF DhryStarts, Variables
  <2> QED  BY <2>1 DEF DhryInv, DhryStarts
<1> QED  BY <1>2, <1>3, <1>4, DhryAssumption DEF DhryInv, DhryStarts

LEMMA TrialKeeps == DhryInv /\ TrialStarts => DhryInv'
<1> SUFFICES ASSUME DhryInv, TrialStarts PROVE DhryInv'
  OBVIOUS
<1>1. t0' \in 0 .. ints - 1
  BY DhryAssumption DEF TrialStarts
<1> QED  BY <1>1, DhryAssumption DEF DhryInv, TrialStarts

LEMMA RunsKeeps == DhryInv /\ Runs => DhryInv'
<1> SUFFICES ASSUME DhryInv, Runs PROVE DhryInv'
  OBVIOUS
<1>1. Ready(v, 10 + total) /\ total \in Nat
  BY DEF DhryInv, Runs
<1>2. Ran(v', 10 + total')
  <2>1. Ran(Run(v), (10 + total) + 1)
    BY <1>1, RunGives
  <2> QED  BY <1>1, <2>1 DEF Runs
<1>3. Ready(v', 10 + total') /\ v'.Ch_1_Glob = A /\ v' \in Variables
  BY <1>2 DEF Ran, Ready
<1> QED  BY <1>2, <1>3 DEF DhryInv, Runs

LEMMA EndsKeeps == DhryInv /\ TrialEnds => DhryInv'
<1> SUFFICES ASSUME DhryInv, TrialEnds PROVE DhryInv'
  OBVIOUS
<1>1. cycles' \in Nat /\ t0 \in 0 .. ints - 1 /\ INT_MAX \in Nat
  BY DhryAssumption DEF DhryInv, TrialEnds
<1>2. User_Time' = Signed(((t0 + cycles') % ints) - t0)
  BY DEF TrialEnds
<1>3. User_Time' \in Int
  <2>1. ints \in Nat /\ ints > 0
    BY <1>1 DEF ints
  <2>2. ((t0 + cycles') % ints) - t0 \in Int
    BY <1>1, <2>1
  <2> QED  BY <1>2, <2>2, SignedInt
<1>4. cycles' <= INT_MAX => User_Time' = cycles'
  BY <1>1, <1>2, TimeRight
<1>5. Signed(Number_Of_Runs * 10) \in Int
  BY SignedInt DEF DhryInv
<1>6. trials > 0 /\ total > 0
  BY DhryAssumption DEF DhryInv, TrialEnds
<1>7. trials = 1 => total = Number_Of_Runs
  BY DEF DhryInv, TrialEnds
<1>8. CASE User_Time' < Too_Small_Time
  BY <1>1, <1>3, <1>5, <1>6, <1>8 DEF DhryInv, TrialEnds
<1>9. CASE ~ (User_Time' < Too_Small_Time)
  <2>1. User_Time' >= Too_Small_Time
    BY <1>3, <1>9, DhryAssumption
  <2> QED  BY <1>1, <1>3, <1>4, <1>6, <1>7, <1>9, <2>1 DEF DhryInv, TrialEnds
<1> QED  BY <1>8, <1>9

LEMMA DhryStep == DhryInv /\ [DhryNext \/ DhryReset]_dhryVars => DhryInv'
<1>1. DhryInv /\ DhryEnds => DhryInv'
  BY DEF DhryInv, DhryEnds
<1>2. DhryInv /\ UNCHANGED dhryVars => DhryInv'
  BY DEF DhryInv, dhryVars
<1> QED  BY <1>1, <1>2, StartsKeeps, TrialKeeps, RunsKeeps, EndsKeeps, DhryRestart DEF DhryNext

(* The rate that is printed is the real one, when it and the time of it fit. *)
LEMMA DoneRateRight == DhryInv /\ stage = "done" => RateRight
<1> SUFFICES ASSUME DhryInv, stage = "done", cycles <= INT_MAX,
                    HZ * Number_Of_Runs \in 0 .. INT_MAX
             PROVE  Dhrystones_Per_Second = (HZ * Number_Of_Runs) \div cycles
  BY DEF RateRight
<1>1. User_Time = cycles
  BY DEF DhryInv
<1>2. Signed(HZ * Number_Of_Runs) = HZ * Number_Of_Runs
  <2> DEFINE x == HZ * Number_Of_Runs
  <2>1. x \in Int /\ -(INT_MAX + 1) <= x /\ x <= INT_MAX
    BY DhryAssumption
  <2> HIDE DEF x
  <2>2. Signed(x) = x
    BY <2>1, SignedKeeps
  <2> QED  BY <2>2 DEF x
<1> QED  BY <1>1, <1>2 DEF Dhrystones_Per_Second, Truncated

LEMMA DoneShouldBe == DhryInv /\ stage = "done" => ShouldBe
<1> SUFFICES ASSUME DhryInv, stage = "done" PROVE ShouldBe
  OBVIOUS
<1>1. Ran(v, 10 + total) /\ (trials = 1 => total = Number_Of_Runs)
  BY DEF DhryInv
<1>2. v.rec["Ptr_Glob"] = Record(2, 17)
  <2>1. v.rec["Ptr_Glob"] \in Records
    BY <1>1 DEF Ran, Ready, Variables
  <2> QED  BY <1>1, <2>1 DEF Ran, Ready, Records, Record, Ident_1, Ident_3
<1>3. v.Str_1_Loc = FIRST_STRING /\ v.Arr_2_Glob[<<8, 7>>] = 10 + total
  BY <1>1 DEF Ran, Ready
<1> QED  BY <1>1, <1>2, <1>3 DEF Ran, ShouldBe, Record

----

USE SmpAssumption

(* The power comes back. *)
LEMMA SmpRestart == SmpReset => SmpInv'
<1> SUFFICES ASSUME SmpReset PROVE SmpInv'
  OBVIOUS
<1>1. SmpTypeOK'
  <2>1. barrier' \in BarrierType
    BY DEF SmpReset, NoBarrier, BarrierType
  <2>2. i' \in 0 .. NBARRIER_THREADS
    BY DEF SmpReset
  <2>3. at' \in [Thread -> 0 .. Ended] /\ printing' \in [Process -> {"no", "wants", "has"}]
    BY Numbers DEF SmpReset
  <2> QED  BY <2>1, <2>2, <2>3, Numbers DEF SmpReset, SmpTypeOK, SmpLabels, BarrierType
<1>2. MainInv'
  BY Numbers DEF SmpReset, MainInv, Early, Creating, Joining, Leaving, Failed
<1>3. JoinInv'
  BY Numbers DEF SmpReset, JoinInv, Joining
<1>4. BarrierInv'
  BY Numbers DEF SmpReset, BarrierInv, Creating, NoBarrier
<1>5. SemInv'
  BY Numbers DEF SmpReset, SemInv, Process
<1> QED  BY <1>1, <1>2, <1>3, <1>4, <1>5 DEF SmpInv

(* Every step of Programs is one of each program, a power cut, or none of its steps.  *)
LEMMA Steps ==
  [Next]_vars => /\ SmpReset \/ [SmpNext]_smpVars
                 /\ [MountNext \/ MountPowerOff]_mountVars
                 /\ [DhryNext \/ DhryReset]_dhryVars
BY DEF Next, SmpRuns, MountRuns, DhryRuns, PowerOff, vars, smpVars, mountVars, dhryVars

(* What the layers of the SMP test say holds in every state. *)
THEOREM SmpInvariant == Spec => []SmpInv
<1>1. Init => SmpInv
  BY TypeInit, MainInit, JoinInit, BarrierStart, SemInit DEF SmpInv, Init
<1>2. SmpInv /\ [SmpNext]_smpVars => SmpInv'
  BY TypeStep, MainStep, JoinStep, BarrierKept, SemStep DEF SmpInv
<1>3. SmpInv /\ [Next]_vars => SmpInv'
  BY <1>2, SmpRestart, Steps
<1> QED
  BY <1>1, <1>3, PTL DEF Spec

(* Types, for any number of threads. *)
THEOREM SmpTypeCorrect == Spec => []SmpTypeOK
<1>1. SmpInv => SmpTypeOK
  BY DEF SmpInv
<1> QED
  BY <1>1, SmpInvariant, PTL

(* Messages are not mixed, for any number of threads and any failures. *)
THEOREM SmpPrintsExclusive == Spec => []PrintsExclusive
<1>1. SmpInv => PrintsExclusive
  BY DEF SmpInv, SemInv, PrintsExclusive
<1> QED
  BY <1>1, SmpInvariant, PTL

(* No thread leaves the barrier before the last has come, for any number of them and   *)
(* any failures, unless the wait was an error or the barrier destroyed under it.       *)
THEOREM SmpNoneLeavesEarly == Spec => []NoneLeavesEarly
<1>1. SmpInv => NoneLeavesEarly
  BY DEF SmpInv, BarrierInv, NoneLeavesEarly
<1> QED
  BY <1>1, SmpInvariant, PTL

(* What is destroyed is not used again, and success is returned only when every       *)
(* thread has run, for any number of them.                                            *)
THEOREM SmpQuietWhenDestroyed == Spec => []QuietWhenDestroyed
<1>1. SmpInv => QuietWhenDestroyed
  BY DEF SmpInv, JoinInv, MainInv, Leaving, QuietWhenDestroyed
<1> QED
  BY <1>1, SmpInvariant, PTL

(* What the number that main of mount_main.c prints may be relied on for holds of     *)
(* every run, for any number of faults of the card, counted or not, and whenever the  *)
(* power went.                                                                        *)
THEOREM MountReportRight == Spec => []ReportRight
<1>1. Init => MountInv
  BY MountStart DEF Init
<1>2. MountInv /\ [Next]_vars => MountInv'
  BY MountStep, Steps
<1> QED
  BY <1>1, <1>2, MountReports, PTL DEF Spec

(* What the benchmark prints is right, for any width of an integer and any time.      *)
THEOREM DhryResultsRight == Spec => []ResultsRight
<1>1. Init => DhryInv
  BY DhryStart DEF Init
<1>2. DhryInv /\ [Next]_vars => DhryInv'
  BY DhryStep, Steps
<1>3. DhryInv => ResultsRight
  <2>1. DhryInv /\ Run_Index > 1 => LoopsEnd
    BY DEF DhryInv, LoopsEnd, Func_2_Differs, Func_1, Letter, Ident_1, Ident_2
  <2> QED  BY <2>1, DoneRateRight, DoneShouldBe DEF ResultsRight
<1> QED
  BY <1>1, <1>2, <1>3, PTL DEF Spec
====
