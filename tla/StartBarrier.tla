---------------------------- MODULE StartBarrier ----------------------------
(***************************************************************************)
(* The start of the devices: main opens the signal devices, drops those    *)
(* that cannot be opened and creates the barrier for the others and the    *)
(* reference.  It then starts the asynch thread of the reference and of    *)
(* each signal device; every one of them waits at the barrier until all    *)
(* have come, resets the buffer of its device and starts its transfers.  A *)
(* thread that waits on the condition variable sleeps until it is notified *)
(* or wakes up spuriously, and then tests cnt.                             *)
(*                                                                         *)
(* Module Lifecycle extends this one with the life of the devices after    *)
(* their start.                                                            *)
(***************************************************************************)
EXTENDS Integers, FiniteSets

CONSTANT NumSignals     \* signal devices of the configuration

ASSUME NumSignalsAssumption == NumSignals \in Nat

Ref     == 0
Signals == 1 .. NumSignals
Devs    == 0 .. NumSignals

VARIABLES
  mpc,        \* the main thread: "open", "start", or "run" after the start
  next,       \* the device it opens or starts next
  opened,     \* v_devices: the signal devices that could be opened
  cnt,        \* barrier::cnt
  tpc         \* the asynch threads: "unborn", "arrive", "asleep", "awake",
              \* "reset" or "streaming"

startVars == <<mpc, next, opened, cnt, tpc>>

\* The devices the barrier is for.
Participants == opened \cup {Ref}

\* The reference was opened: otherwise main ends the program.
StartInit ==
  /\ mpc = "open" /\ next = 1
  /\ opened = {} /\ cnt = 0
  /\ tpc = [d \in Devs |-> "unborn"]

\* A device that cannot be opened is deleted again.
OpenSignal ==
  /\ mpc = "open" /\ next <= NumSignals
  /\ opened' \in {opened, opened \cup {next}}
  /\ next' = next + 1
  /\ UNCHANGED <<mpc, cnt, tpc>>

\* barrier(v_devices.size()+1)
CreateBarrier ==
  /\ mpc = "open" /\ next = NumSignals + 1
  /\ cnt' = Cardinality(opened) + 1
  /\ mpc' = "start" /\ next' = Ref
  /\ UNCHANGED <<opened, tpc>>

\* start() of the reference and of the devices in the vector creates a thread.
StartDevice ==
  /\ mpc = "start" /\ next \in Devs
  /\ tpc' = IF next \in Participants THEN [tpc EXCEPT ![next] = "arrive"] ELSE tpc
  /\ next' = next + 1
  /\ mpc' = IF next = NumSignals THEN "run" ELSE mpc
  /\ UNCHANGED <<opened, cnt>>

Asleep == {d \in Devs : tpc[d] = "asleep"}

\* Mutant: one of the waiting threads is notified.
LastNotifiesOne(d) ==
  /\ tpc[d] = "arrive" /\ cnt = 1
  /\ cnt' = 0
  /\ \E w \in Asleep \cup {d} :
       tpc' = [e \in Devs |-> IF e = d THEN "reset"
                              ELSE IF e = w THEN "awake" ELSE tpc[e]]
  /\ UNCHANGED <<mpc, next, opened>>

\* barrier::wait() of the last thread to come: notify_all.
Last(d) ==
  /\ tpc[d] = "arrive" /\ cnt = 1
  /\ cnt' = 0
  /\ tpc' = [e \in Devs |-> IF e = d THEN "reset"
                            ELSE IF e \in Asleep THEN "awake" ELSE tpc[e]]
  /\ UNCHANGED <<mpc, next, opened>>

\* barrier::wait() of another thread: cnt, which is unsigned, is decremented and
\* it goes to sleep.  A thread that the barrier was not made for would find 0
\* and wrap it around; the model lets cnt become negative then.
Arrive(d) ==
  /\ tpc[d] = "arrive" /\ cnt # 1
  /\ cnt' = cnt - 1
  /\ tpc' = [tpc EXCEPT ![d] = "asleep"]
  /\ UNCHANGED <<mpc, next, opened>>

SpuriousWakeup(d) ==
  /\ tpc[d] = "asleep"
  /\ tpc' = [tpc EXCEPT ![d] = "awake"]
  /\ UNCHANGED <<mpc, next, opened, cnt>>

\* Mutant: the wait has no predicate.
LeaveUnchecked(d) ==
  /\ tpc[d] = "awake"
  /\ tpc' = [tpc EXCEPT ![d] = "reset"]
  /\ UNCHANGED <<mpc, next, opened, cnt>>

\* A thread that is awake tests cnt under the mutex.
Test(d) ==
  /\ tpc[d] = "awake"
  /\ tpc' = [tpc EXCEPT ![d] = IF cnt = 0 THEN "reset" ELSE "asleep"]
  /\ UNCHANGED <<mpc, next, opened, cnt>>

\* rtlsdr_reset_buffer() and rtlsdr_read_async().
ReadAsync(d) ==
  /\ tpc[d] = "reset"
  /\ tpc' = [tpc EXCEPT ![d] = "streaming"]
  /\ UNCHANGED <<mpc, next, opened, cnt>>

AtBarrier(d) == Last(d) \/ Arrive(d) \/ Test(d) \/ SpuriousWakeup(d)

StartMain == OpenSignal \/ CreateBarrier \/ StartDevice

StartNext == StartMain \/ \E d \in Devs : AtBarrier(d) \/ ReadAsync(d)

StartSpec == StartInit /\ [][StartNext]_startVars

-----------------------------------------------------------------------------
(* Properties.                                                             *)

\* Every variable keeps its type; in particular cnt does not wrap around.
StartTypeOK ==
  /\ mpc \in {"open", "start", "run"}
  /\ next \in 0 .. NumSignals + 1
  /\ opened \subseteq Signals
  /\ cnt \in 0 .. NumSignals + 1
  /\ tpc \in [Devs -> {"unborn", "arrive", "asleep", "awake", "reset", "streaming"}]

Pending == {d \in Participants : tpc[d] \in {"unborn", "arrive"}}

\* No device starts its transfers before the threads of all devices have come
\* to the barrier: they start together (common.h:164-181, crtlsdr.cc:55).
TogetherOrNotAtAll ==
  (\E d \in Devs : tpc[d] \in {"reset", "streaming"}) => Pending = {}

\* No thread misses the notification of the last one: once all have come to the
\* barrier none of them sleeps, whatever spurious wake-ups there were before
\* (common.h:164-181).
NobodyLeftAsleep == (mpc # "open" /\ Pending = {}) => Asleep = {}
=============================================================================
