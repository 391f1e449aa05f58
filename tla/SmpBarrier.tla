---- MODULE SmpBarrier ----
(* The SMP test of NuttX as this system runs it (src/smp_main-12.c): main starts  *)
(* threads that meet at a barrier, and joins them.  Every message is printed       *)
(* under the semaphore nsem, because two harts would mix their output.             *)
(*                                                                                 *)
(* Process 0 is main, process t the thread with parameter t.  A process takes a    *)
(* step of its program when it is not printing; a print is a wait on nsem and a    *)
(* post.  Which processor runs a process is left out: a message that depends on it *)
(* may be printed or not.  The calls of the operating system are external: each    *)
(* may fail where the program looks at its result.                                 *)
EXTENDS Naturals, Sequences, FiniteSets

CONSTANT NBARRIER_THREADS   \* CONFIG_TESTING_SMP_NBARRIER_THREADS

ASSUME SmpAssumption == NBARRIER_THREADS \in Nat \ {0}

VARIABLES main,          \* where main is
          at,            \* at[t]: the step thread t is at; 0 before it is created
          printing,      \* printing[p]: p waits for nsem, has it, or neither
          nsem,          \* the semaphore's count
          destroyed,     \* nsem_destroy has been called
          barrier,       \* [count, waiting, erred]: g_smp_barrier, with the threads
                         \* that wait there or are past it, but for those that the
                         \* wait gave an error
          threadid,      \* the threads main has an id of
          i,             \* main's loop variable
          errcode

smpVars == <<main, at, printing, nsem, destroyed, barrier, threadid, i, errcode>>

Thread == 1 .. NBARRIER_THREADS
Process == {0} \union Thread

EXIT_SUCCESS == 0
EXIT_FAILURE == 1

NoBarrier == [count |-> 0, waiting |-> {}, erred |-> {}]

(* A thread's program is a list of steps: to print; to print if it is no longer on   *)
(* the processor it was on; to wait at the barrier.  hog_time yields the processor   *)
(* and then looks where it is; HOG_MSEC and YIELD_MSEC are equal, so its loop runs   *)
(* once.                                                                             *)
hog_time == "check"

barrier_thread ==
  <<"print", "print", hog_time, "print", "check", "barrier",
    "print", "check", hog_time, "print", "check">>

BarrierStep == 6          \* the index of "barrier" in barrier_thread
Ended == 12               \* past the last step

SmpInit ==
  /\ main = "idle"
  /\ at = [t \in Thread |-> 0]
  /\ printing = [p \in Process |-> "no"]
  /\ nsem = 0
  /\ destroyed = FALSE
  /\ barrier = NoBarrier
  /\ threadid = {}
  /\ i = 0
  /\ errcode = EXIT_SUCCESS

----
(* Printing. *)

(* The first half of the macro: the process now wants the semaphore. *)
dbginfo(p) == printing' = [printing EXCEPT ![p] = "wants"]

(* Slip: the count is not taken. *)
nxsem_waitFree(p) ==
  /\ printing[p] = "wants"
  /\ nsem > 0
  /\ printing' = [printing EXCEPT ![p] = "has"]
  /\ UNCHANGED <<main, at, nsem, destroyed, barrier, threadid, i, errcode>>

nxsem_wait(p) ==
  /\ printing[p] = "wants"
  /\ nsem > 0
  /\ nsem' = nsem - 1
  /\ printing' = [printing EXCEPT ![p] = "has"]
  /\ UNCHANGED <<main, at, destroyed, barrier, threadid, i, errcode>>

(* Slip: the count is not given back. *)
nxsem_postKept(p) ==
  /\ printing[p] = "has"
  /\ printing' = [printing EXCEPT ![p] = "no"]
  /\ UNCHANGED <<main, at, nsem, destroyed, barrier, threadid, i, errcode>>

nxsem_post(p) ==
  /\ printing[p] = "has"
  /\ nsem' = nsem + 1
  /\ printing' = [printing EXCEPT ![p] = "no"]
  /\ UNCHANGED <<main, at, destroyed, barrier, threadid, i, errcode>>

PrintStep(p) == nxsem_wait(p) \/ nxsem_post(p)

show_cpu_conditional(p) == dbginfo(p) \/ UNCHANGED printing

----
(* The threads. *)

ThreadAt(t, step) ==
  /\ at[t] \in DOMAIN barrier_thread
  /\ barrier_thread[at[t]] = step
  /\ printing[t] = "no"

Advance(t) ==
  /\ at' = [at EXCEPT ![t] = @ + 1]
  /\ UNCHANGED <<main, nsem, destroyed, barrier, threadid, i, errcode>>

ThreadPrints(t) == ThreadAt(t, "print") /\ dbginfo(t) /\ Advance(t)

ThreadChecks(t) == ThreadAt(t, "check") /\ show_cpu_conditional(t) /\ Advance(t)

(* pthread_barrier_wait: a thread waits until as many have come as the barrier was  *)
(* made for.  A barrier that was destroyed under its threads stops none.            *)
ThreadArrives(t) ==
  /\ ThreadAt(t, "barrier")
  /\ t \notin barrier.waiting
  /\ barrier' = [barrier EXCEPT !.waiting = @ \union {t}]
  /\ UNCHANGED <<main, at, printing, nsem, destroyed, threadid, i, errcode>>

ThreadLeaves(t) ==
  /\ ThreadAt(t, "barrier")
  /\ t \in barrier.waiting
  /\ Cardinality(barrier.waiting) >= barrier.count
  /\ Advance(t)
  /\ UNCHANGED printing

(* The wait is an error, and does not count: the thread says so and goes on.  Once  *)
(* all have come they go with no error, unless the barrier was destroyed.           *)
ThreadErrs(t) ==
  /\ ThreadAt(t, "barrier")
  /\ barrier.count = 0 \/ Cardinality(barrier.waiting) < barrier.count
  /\ at' = [at EXCEPT ![t] = @ + 1]
  /\ barrier' = [barrier EXCEPT !.waiting = @ \ {t}, !.erred = @ \union {t}]
  /\ UNCHANGED <<main, printing, nsem, destroyed, threadid, i, errcode>>

ThreadStep(t) ==
  ThreadPrints(t) \/ ThreadChecks(t) \/ ThreadArrives(t) \/ ThreadLeaves(t)

Returned(t) == at[t] = Ended /\ printing[t] = "no"

----
(* Main.  The labels at which it only prints, or only looks at its processor, with  *)
(* the label that follows.                                                          *)

MainPrint ==
  {<<"show", "initializing">>,
   <<"initializing", "barrierattr_init">>,
   <<"attr_failed", "errout">>,
   <<"barrier_failed", "errout_with_attr">>,
   <<"starting", "attr_init">>,
   <<"tattr_failed", "errout_with_barrier">>,
   <<"create_failed", "aborted">>,
   <<"aborted", "all_created">>,
   <<"created", "created_cpu">>,
   <<"waiting", "join">>,
   <<"joined", "join">>,
   <<"join_failed", "join">>,
   <<"destroy_failed", "errout_with_attr">>,
   <<"adestroy_failed", "errout">>}

MainCheck ==
  {<<"created_cpu", "create">>,
   <<"joined_cpu", "joined">>,
   <<"failed_cpu", "join_failed">>,
   <<"errout", "returned">>}

MainAt(label) == main = label /\ printing[0] = "no"

MainPrints ==
  /\ \E step \in MainPrint : MainAt(step[1]) /\ main' = step[2]
  /\ dbginfo(0)
  /\ UNCHANGED <<at, nsem, destroyed, barrier, threadid, i, errcode>>

MainChecks ==
  /\ \E step \in MainCheck : MainAt(step[1]) /\ main' = step[2]
  /\ show_cpu_conditional(0)
  /\ UNCHANGED <<at, nsem, destroyed, barrier, threadid, i, errcode>>

(* The shell starts main, which makes the semaphore before its first message. *)
MainStarts ==
  /\ main = "idle"
  /\ nsem' = 1
  /\ main' = "show"
  /\ UNCHANGED <<at, printing, destroyed, barrier, threadid, i, errcode>>

(* A call that main tests: on to ok, or to failed with errcode set. *)
Tested(label, ok, failed) ==
  /\ MainAt(label)
  /\ \/ main' = ok /\ errcode' = errcode
     \/ main' = failed /\ errcode' = EXIT_FAILURE
  /\ UNCHANGED <<at, printing, nsem, destroyed, threadid>>

BarrierAttrInit ==
  /\ Tested("barrierattr_init", "barrier_init", "attr_failed")
  /\ UNCHANGED <<barrier, i>>

(* Slip: the barrier is made for one thread less. *)
BarrierInitLess ==
  /\ Tested("barrier_init", "starting", "barrier_failed")
  /\ barrier' = IF main' = "starting" THEN [NoBarrier EXCEPT !.count = NBARRIER_THREADS - 1]
                                      ELSE barrier
  /\ UNCHANGED i

BarrierInit ==
  /\ Tested("barrier_init", "starting", "barrier_failed")
  /\ barrier' = IF main' = "starting" THEN [NoBarrier EXCEPT !.count = NBARRIER_THREADS]
                                      ELSE barrier
  /\ UNCHANGED i

AttrInit ==
  /\ Tested("attr_init", "create", "tattr_failed")
  /\ i' = 0
  /\ UNCHANGED barrier

CreateSucceeds ==
  /\ MainAt("create")
  /\ i < NBARRIER_THREADS
  /\ at' = [at EXCEPT ![i + 1] = 1]
  /\ threadid' = threadid \union {i + 1}
  /\ main' = "created"
  /\ i' = i + 1
  /\ UNCHANGED <<printing, nsem, destroyed, barrier, errcode>>

CreateFails ==
  /\ MainAt("create")
  /\ i < NBARRIER_THREADS
  /\ errcode' = EXIT_FAILURE
  /\ main' = "create_failed"
  /\ UNCHANGED <<at, printing, nsem, destroyed, barrier, threadid, i>>

CreateEnds ==
  /\ MainAt("create")
  /\ i = NBARRIER_THREADS
  /\ main' = "all_created"
  /\ UNCHANGED <<at, printing, nsem, destroyed, barrier, threadid, i, errcode>>

AllCreated ==
  /\ MainAt("all_created")
  /\ show_cpu_conditional(0)
  /\ main' = "waiting"
  /\ i' = 0
  /\ UNCHANGED <<at, nsem, destroyed, barrier, threadid, errcode>>

(* A thread that was not created has no id, and is passed over. *)
JoinSkips ==
  /\ MainAt("join")
  /\ i < NBARRIER_THREADS
  /\ i + 1 \notin threadid
  /\ i' = i + 1
  /\ UNCHANGED <<main, at, printing, nsem, destroyed, barrier, threadid, errcode>>

Joins ==
  /\ MainAt("join")
  /\ i < NBARRIER_THREADS
  /\ i + 1 \in threadid
  /\ i' = i + 1
  /\ UNCHANGED <<at, printing, nsem, destroyed, barrier, threadid>>

(* Slip: the end of the thread is not awaited. *)
JoinsAtOnce == Joins /\ main' = "joined_cpu" /\ UNCHANGED errcode

JoinSucceeds ==
  Joins /\ Returned(i + 1) /\ main' = "joined_cpu" /\ UNCHANGED errcode

(* An error of pthread_join says nothing of the thread: it may still run. *)
JoinFails == Joins /\ main' = "failed_cpu" /\ errcode' = EXIT_FAILURE

(* NuttX leaves the count at one, and alone if a process is queued for it. *)
SemDestroy ==
  /\ MainAt("join")
  /\ i = NBARRIER_THREADS
  /\ \/ nsem' = 1
     \/ nsem' = nsem /\ nsem = 0 /\ \E t \in Thread : printing[t] = "wants"
  /\ destroyed' = TRUE
  /\ main' = "errout_with_barrier"
  /\ UNCHANGED <<at, printing, barrier, threadid, i, errcode>>

(* A destroy that fails is reported, and errcode is left alone. *)
Destroy(label, ok, failed) ==
  /\ MainAt(label)
  /\ main' \in {ok, failed}
  /\ UNCHANGED <<at, printing, nsem, destroyed, threadid, i, errcode>>

(* NuttX sets the count to 0, and looks at no thread. *)
BarrierDestroy ==
  /\ Destroy("errout_with_barrier", "errout_with_attr", "destroy_failed")
  /\ barrier' = IF main' = "errout_with_attr" THEN [barrier EXCEPT !.count = 0] ELSE barrier

BarrierAttrDestroy ==
  /\ Destroy("errout_with_attr", "errout", "adestroy_failed")
  /\ UNCHANGED barrier

(* Main has returned: what is left of its threads goes with it. *)
SmpReset ==
  /\ main' = "idle"
  /\ at' = [t \in Thread |-> 0]
  /\ printing' = [p \in Process |-> "no"]
  /\ nsem' = 0
  /\ destroyed' = FALSE
  /\ barrier' = NoBarrier
  /\ threadid' = {}
  /\ i' = 0
  /\ errcode' = EXIT_SUCCESS

MainExits == MainAt("returned") /\ SmpReset

----
(* What main does when the calls it makes do what they should. *)
MainGoesOn ==
  \/ MainPrints \/ MainChecks
  \/ BarrierAttrInit \/ BarrierInit \/ AttrInit
  \/ CreateSucceeds \/ CreateEnds \/ AllCreated
  \/ JoinSkips \/ JoinSucceeds
  \/ SemDestroy \/ BarrierDestroy \/ BarrierAttrDestroy
  \/ MainExits

SmpNext ==
  \/ MainStarts \/ MainGoesOn \/ CreateFails \/ JoinFails
  \/ \E t \in Thread : ThreadStep(t) \/ ThreadErrs(t)
  \/ \E p \in Process : PrintStep(p)

SmpSpec == SmpInit /\ [][SmpNext]_smpVars

(* Every process gets a processor again and again, and none waits for nsem for ever: *)
(* its waiters are queued.                                                           *)
SmpFair ==
  /\ WF_smpVars(MainGoesOn)
  /\ \A t \in Thread : WF_smpVars(ThreadStep(t))
  /\ \A p \in Process : SF_smpVars(nxsem_wait(p)) /\ WF_smpVars(nxsem_post(p))

----
(* Properties. *)

SmpLabels ==
  {"idle", "show", "initializing", "barrierattr_init", "attr_failed", "barrier_init",
   "barrier_failed", "starting", "attr_init", "tattr_failed",
   "create", "created", "created_cpu", "create_failed", "aborted", "all_created",
   "waiting", "join", "joined_cpu", "joined", "failed_cpu", "join_failed",
   "errout_with_barrier", "destroy_failed", "errout_with_attr", "adestroy_failed",
   "errout", "returned"}

SmpTypeOK ==
  /\ main \in SmpLabels
  /\ at \in [Thread -> 0 .. Ended]
  /\ printing \in [Process -> {"no", "wants", "has"}]
  /\ nsem \in Nat
  /\ destroyed \in BOOLEAN
  /\ barrier \in [count : {0, NBARRIER_THREADS}, waiting : SUBSET Thread, erred : SUBSET Thread]
  /\ threadid \subseteq Thread
  /\ i \in 0 .. NBARRIER_THREADS
  /\ errcode \in {EXIT_SUCCESS, EXIT_FAILURE}

(* nsem was destroyed under threads that may still print, which happens after a      *)
(* pthread_join that failed, and only then.                                          *)
DestroyedEarly == destroyed /\ errcode = EXIT_FAILURE

(* No two processes print at once, whatever calls failed, unless main destroyed the  *)
(* semaphore after a join that failed: the dbginfo macro of smp_main-12.c.           *)
PrintsExclusive ==
  ~DestroyedEarly =>
    \A p, q \in Process : printing[p] = "has" /\ printing[q] = "has" => p = q

(* The barrier was destroyed under threads that may still come to it, which happens  *)
(* after such a join only.                                                           *)
BarrierGone == DestroyedEarly /\ barrier.count = 0

(* A thread that is past the barrier, and was not sent on by an error of the wait,   *)
(* knows that every other one has come to it: the barrier_thread of smp_main-12.c,   *)
(* whatever calls failed, unless main destroyed the barrier after a join that failed.*)
NoneLeavesEarly ==
  ~BarrierGone =>
    \A t, u \in Thread :
      at[t] > BarrierStep /\ t \notin barrier.erred => at[u] >= BarrierStep

(* While no call of main has failed, nsem and then the barrier are destroyed only    *)
(* when no thread will use them again, and success is returned only when every       *)
(* thread was created and has run to its end: the end of main in smp_main-12.c.      *)
QuietWhenDestroyed ==
  (destroyed \/ main = "returned") /\ errcode = EXIT_SUCCESS
    => \A t \in Thread : Returned(t)

(* A thread waits at the barrier for one that will not come: main could create some  *)
(* of the threads and not all ("Test aborted with waiting threads"), or the wait was *)
(* an error for some and not for all.  Main waits in the joins for those that wait.  *)
SomeMissing ==
  /\ barrier.erred # {} \/ (errcode = EXIT_FAILURE /\ threadid # Thread)
  /\ threadid \ barrier.erred # {}
  /\ ~destroyed

(* A test that was started comes to its end, on every order in which the harts run   *)
(* the threads, unless some thread is missing at the barrier: main of                *)
(* smp_main-12.c, with its joins.                                                    *)
SmpEnds == main # "idle" ~> main = "idle" \/ SomeMissing
====
