------------------------- MODULE StartBarrierProofs -------------------------
(***************************************************************************)
(* Proofs about StartBarrier for any number of devices, whichever of them  *)
(* can be opened: the barrier counts the threads that have not come to it  *)
(* yet, and nobody leaves it before.                                       *)
(***************************************************************************)
EXTENDS StartBarrier, FiniteSetTheorems, TLAPS

\* Main opens and then starts the devices in order, and starts no other than
\* those it opened.
StartedInOrder ==
  /\ mpc = "open" => next >= 1 /\ \A d \in Devs : tpc[d] = "unborn"
  /\ mpc = "start" => \A d \in Devs : d >= next => tpc[d] = "unborn"
  /\ mpc = "start" => next \in Devs
  /\ \A d \in Devs : tpc[d] # "unborn" => d \in Participants

\* Once the barrier exists cnt is the number of the threads still to come, and
\* one that has left the barrier found it at 0.
BarrierCounts ==
  /\ mpc # "open" => cnt = Cardinality(Pending)
  /\ \A d \in Devs : tpc[d] \in {"reset", "streaming"} => cnt = 0

IInv == StartTypeOK /\ StartedInOrder /\ BarrierCounts

USE NumSignalsAssumption

States == {"unborn", "arrive", "asleep", "awake", "reset", "streaming"}

LEMMA OpenedFinite ==
  ASSUME StartTypeOK
  PROVE  /\ IsFiniteSet(opened) /\ Cardinality(opened) \in 0 .. NumSignals
         /\ IsFiniteSet(Participants)
         /\ Cardinality(Participants) = Cardinality(opened) + 1
<1>1. IsFiniteSet(Signals) /\ Cardinality(Signals) = NumSignals
  BY FS_Interval DEF Signals
<1>2. IsFiniteSet(opened) /\ Cardinality(opened) \in 0 .. NumSignals
  BY <1>1, FS_Subset, FS_CardinalityType DEF StartTypeOK
<1>3. Ref \notin opened
  BY DEF StartTypeOK, Signals, Ref
<1> QED
  BY <1>2, <1>3, FS_AddElement DEF Participants

\* The threads still to come are finitely many.
LEMMA PendingFinite ==
  ASSUME StartTypeOK
  PROVE  IsFiniteSet(Pending) /\ Cardinality(Pending) \in Nat
BY OpenedFinite, FS_Subset, FS_CardinalityType DEF Pending

\* Initially there is no barrier and no thread.
LEMMA InitIInv == StartInit => IInv
BY DEF StartInit, IInv, StartTypeOK, StartedInOrder, BarrierCounts, Devs, Signals

\* Two ways for a thread to take a step: it stays on its side of the barrier ...
LEMMA SameSide ==
  ASSUME IInv, NEW d \in Devs, NEW s, tpc' = [tpc EXCEPT ![d] = s],
         UNCHANGED <<mpc, opened, cnt>>,
         s \in {"unborn", "arrive"} <=> tpc[d] \in {"unborn", "arrive"},
         s \in {"reset", "streaming"} => cnt = 0
  PROVE  BarrierCounts'
<1>1. Pending' = Pending
  BY DEF IInv, StartTypeOK, Pending, Participants
<1> QED
  BY <1>1 DEF IInv, StartTypeOK, BarrierCounts

\* ... or it comes to the barrier.
LEMMA Arrival ==
  ASSUME IInv, NEW d \in Devs, tpc[d] = "arrive", cnt' = cnt - 1,
         UNCHANGED <<mpc, opened>>,
         tpc'[d] \notin {"unborn", "arrive"},
         \A e \in Devs \ {d} : tpc'[e] \in {"unborn", "arrive"}
                                 <=> tpc[e] \in {"unborn", "arrive"}
  PROVE  mpc # "open" /\ cnt >= 1 /\ cnt' = Cardinality(Pending')
<1>1. mpc # "open" /\ d \in Participants
  BY DEF IInv, StartedInOrder
<1>2. Participants \subseteq Devs /\ Participants' = Participants
  BY DEF IInv, StartTypeOK, Participants, Devs, Signals, Ref
<1>3. d \in Pending /\ Pending' = Pending \ {d}
  BY <1>1, <1>2 DEF Pending
<1>4. IsFiniteSet(Pending) /\ Cardinality(Pending) \in Nat
  BY PendingFinite DEF IInv
<1>5. Cardinality(Pending \ {d}) = Cardinality(Pending) - 1
  BY <1>3, <1>4, FS_RemoveElement
<1>6. Cardinality(Pending) # 0
  BY <1>3, <1>4, FS_EmptySet
<1> QED
  BY <1>1, <1>3, <1>4, <1>5, <1>6 DEF IInv, BarrierCounts

-----------------------------------------------------------------------------
(* The steps of main.                                                      *)

LEMMA OpenStep == IInv /\ OpenSignal => IInv'
<1> SUFFICES ASSUME IInv, OpenSignal PROVE IInv'
  OBVIOUS
<1> USE DEF IInv, OpenSignal
<1>1. StartTypeOK'
  BY DEF StartTypeOK, StartedInOrder, Signals
<1>2. StartedInOrder'
  BY DEF StartTypeOK, StartedInOrder
<1>3. BarrierCounts'
  BY DEF BarrierCounts
<1> QED
  BY <1>1, <1>2, <1>3

LEMMA CreateStep == IInv /\ CreateBarrier => IInv'
<1> SUFFICES ASSUME IInv, CreateBarrier PROVE IInv'
  OBVIOUS
<1> USE DEF IInv, CreateBarrier
<1>1. \A d \in Devs : tpc[d] = "unborn" /\ tpc'[d] = "unborn"
  BY DEF StartedInOrder
<1>2. Participants \subseteq Devs
  BY DEF StartTypeOK, Participants, Devs, Signals, Ref
<1>3. Pending' = Participants
  BY <1>1, <1>2 DEF Pending, Participants
<1>4. cnt' = Cardinality(Pending') /\ cnt' \in 0 .. NumSignals + 1
  BY <1>3, OpenedFinite
<1>5. StartTypeOK'
  BY <1>4 DEF StartTypeOK, Ref
<1>6. StartedInOrder'
  BY <1>1 DEF StartedInOrder, Ref, Devs, StartTypeOK
<1>7. BarrierCounts'
  BY <1>1, <1>4 DEF BarrierCounts
<1> QED
  BY <1>5, <1>6, <1>7

LEMMA StartStep == IInv /\ StartDevice => IInv'
<1> SUFFICES ASSUME IInv, StartDevice PROVE IInv'
  OBVIOUS
<1> USE DEF IInv, StartDevice
<1>1. next \in Devs /\ tpc[next] = "unborn" /\ tpc \in [Devs -> States]
  BY DEF StartedInOrder, StartTypeOK, States, Devs
<1>2. PICK s \in {"unborn", "arrive"} :
        /\ tpc' = [tpc EXCEPT ![next] = s]
        /\ s = "arrive" => next \in Participants
  BY <1>1 DEF States
<1>3. BarrierCounts'
  <2>1. Pending' = Pending
    BY <1>1, <1>2 DEF Pending, Participants, States
  <2>2. \A d \in Devs : tpc'[d] \in {"reset", "streaming"} => tpc[d] \in {"reset", "streaming"}
    BY <1>1, <1>2
  <2> QED
    BY <2>1, <2>2 DEF BarrierCounts
<1>4. StartTypeOK'
  BY <1>1, <1>2 DEF StartTypeOK, Devs, Ref
<1>5. StartedInOrder'
  <2>1. mpc' = "start" => next < NumSignals
    BY <1>1 DEF Devs
  <2>2. \A d \in Devs : d >= next + 1 => tpc'[d] = tpc[d]
    BY <1>1, <1>2 DEF Devs
  <2>3. mpc' = "start" => next' \in Devs
    BY <1>1, <2>1 DEF Devs
  <2>4. \A d \in Devs : tpc'[d] # "unborn" => d \in Participants'
    BY <1>1, <1>2 DEF StartedInOrder, Participants
  <2>5. mpc' = "start" => \A d \in Devs : d >= next' => tpc'[d] = "unborn"
    BY <1>1, <2>2 DEF StartedInOrder, Devs
  <2> QED
    BY <2>3, <2>4, <2>5 DEF StartedInOrder
<1> QED
  BY <1>3, <1>4, <1>5

-----------------------------------------------------------------------------
(* The steps of the asynch threads.                                        *)

LEMMA LastStep == ASSUME IInv, NEW d \in Devs, Last(d) PROVE IInv'
<1> USE DEF IInv
<1>1. /\ tpc[d] = "arrive" /\ cnt = 1 /\ cnt' = 0 /\ next' = next
      /\ UNCHANGED <<mpc, opened>>
      /\ tpc' = [e \in Devs |-> IF e = d THEN "reset"
                                ELSE IF e \in Asleep THEN "awake" ELSE tpc[e]]
  BY DEF Last
<1>2. mpc # "open" /\ cnt' = Cardinality(Pending')
  <2>1. \A e \in Devs \ {d} : tpc'[e] \in {"unborn", "arrive"}
                                <=> tpc[e] \in {"unborn", "arrive"}
    BY <1>1 DEF Asleep
  <2>2. tpc'[d] \notin {"unborn", "arrive"} /\ cnt' = cnt - 1
    BY <1>1
  <2> QED
    BY <1>1, <2>1, <2>2, Arrival
<1>3. StartTypeOK'
  BY <1>1 DEF StartTypeOK
<1>4. StartedInOrder'
  BY <1>1, <1>2 DEF StartedInOrder, Asleep, Participants
<1>5. BarrierCounts'
  BY <1>1, <1>2 DEF BarrierCounts
<1> QED
  BY <1>3, <1>4, <1>5

LEMMA ArriveStep == ASSUME IInv, NEW d \in Devs, Arrive(d) PROVE IInv'
<1> USE DEF IInv
<1>1. /\ tpc[d] = "arrive" /\ cnt # 1 /\ cnt' = cnt - 1 /\ next' = next
      /\ UNCHANGED <<mpc, opened>>
      /\ tpc' = [tpc EXCEPT ![d] = "asleep"]
  BY DEF Arrive
<1>2. mpc # "open" /\ cnt >= 1 /\ cnt' = Cardinality(Pending')
  <2>1. /\ tpc'[d] \notin {"unborn", "arrive"}
        /\ \A e \in Devs \ {d} : tpc'[e] = tpc[e]
    BY <1>1 DEF StartTypeOK
  <2> QED
    BY <1>1, <2>1, Arrival DEF StartTypeOK
<1>3. StartTypeOK'
  BY <1>1, <1>2 DEF StartTypeOK
<1>4. StartedInOrder'
  BY <1>1, <1>2 DEF StartedInOrder, StartTypeOK, Participants
<1>5. BarrierCounts'
  BY <1>1, <1>2 DEF BarrierCounts, StartTypeOK
<1> QED
  BY <1>3, <1>4, <1>5

LEMMA BehindStep ==
  ASSUME IInv, NEW d \in Devs, SpuriousWakeup(d) \/ Test(d) \/ ReadAsync(d)
  PROVE  IInv'
<1> USE DEF IInv
<1>1. PICK s \in {"awake", "reset", "asleep", "streaming"} :
        /\ tpc' = [tpc EXCEPT ![d] = s]
        /\ s \in {"reset", "streaming"} => cnt = 0
  BY DEF SpuriousWakeup, Test, ReadAsync, BarrierCounts
<1>2. /\ UNCHANGED <<mpc, next, opened, cnt>>
      /\ tpc[d] \notin {"unborn", "arrive"}
  BY DEF SpuriousWakeup, Test, ReadAsync
<1>3. BarrierCounts'
  BY <1>1, <1>2, SameSide
<1>4. StartTypeOK'
  BY <1>1, <1>2 DEF StartTypeOK
<1>5. StartedInOrder'
  BY <1>1, <1>2 DEF StartTypeOK, StartedInOrder, Participants
<1> QED
  BY <1>3, <1>4, <1>5

\* Every step keeps the invariant.
LEMMA NextIInv == IInv /\ [StartNext]_startVars => IInv'
<1> SUFFICES ASSUME IInv, [StartNext]_startVars PROVE IInv'
  OBVIOUS
<1>1. CASE StartMain
  BY <1>1, OpenStep, CreateStep, StartStep DEF StartMain
<1>2. ASSUME NEW d \in Devs, AtBarrier(d) \/ ReadAsync(d) PROVE IInv'
  BY <1>2, LastStep, ArriveStep, BehindStep DEF AtBarrier
<1>3. CASE UNCHANGED startVars
  BY <1>3 DEF startVars, IInv, StartTypeOK, StartedInOrder, BarrierCounts, Pending,
              Participants
<1> QED
  BY <1>1, <1>2, <1>3 DEF StartNext

LEMMA Invariance == StartSpec => []IInv
BY InitIInv, NextIInv, PTL DEF StartSpec

\* A barrier made for the devices that were opened is never passed below 0.
THEOREM TypeCorrect == StartSpec => []StartTypeOK
<1>1. IInv => StartTypeOK
  BY DEF IInv
<1> QED
  BY Invariance, <1>1, PTL

LEMMA IInvTogether == IInv => TogetherOrNotAtAll
<1> SUFFICES ASSUME IInv, \E d \in Devs : tpc[d] \in {"reset", "streaming"}
             PROVE  Pending = {}
  BY DEF TogetherOrNotAtAll
<1>1. mpc # "open" /\ Cardinality(Pending) = 0
  BY DEF IInv, BarrierCounts, StartedInOrder
<1> QED
  BY <1>1, PendingFinite, FS_EmptySet DEF IInv

\* For any number of devices, none starts its transfers before the threads of
\* all that were opened have come to the barrier.
THEOREM BarrierCorrect == StartSpec => []TogetherOrNotAtAll
BY Invariance, IInvTogether, PTL
-----------------------------------------------------------------------------
(* The notification reaches every thread: one that has not gone to sleep     *)
(* before it finds cnt at 0 and does not.                                    *)

Awakened == mpc # "open" /\ cnt = 0 => Asleep = {}

LEMMA NextAwakened == IInv /\ Awakened /\ [StartNext]_startVars => Awakened'
<1> SUFFICES ASSUME IInv, Awakened, [StartNext]_startVars PROVE Awakened'
  OBVIOUS
<1>0. /\ tpc \in [Devs -> States] /\ cnt \in 0 .. NumSignals + 1
  BY DEF IInv, StartTypeOK, States
<1>1. CASE OpenSignal
  BY <1>1 DEF OpenSignal, Awakened
<1>2. CASE CreateBarrier
  <2>1. \A d \in Devs : tpc'[d] # "asleep"
    BY <1>2 DEF CreateBarrier, IInv, StartedInOrder
  <2> QED BY <2>1 DEF Awakened, Asleep
<1>3. CASE StartDevice
  <2>1. \A d \in Devs : tpc'[d] = "asleep" => tpc[d] = "asleep"
    BY <1>0, <1>3 DEF StartDevice
  <2>2. cnt' = cnt /\ mpc # "open"
    BY <1>3 DEF StartDevice
  <2> QED BY <2>1, <2>2 DEF Awakened, Asleep
<1>4. ASSUME NEW d \in Devs, Last(d) PROVE Awakened'
  <2>1. \A e \in Devs : tpc'[e] # "asleep"
    BY <1>4 DEF Last, Asleep
  <2> QED BY <2>1 DEF Awakened, Asleep
<1>5. ASSUME NEW d \in Devs, Arrive(d) PROVE Awakened'
  <2>1. cnt # 1 /\ cnt' = cnt - 1
    BY <1>5 DEF Arrive
  <2> QED BY <1>0, <2>1 DEF Awakened
<1>6. ASSUME NEW d \in Devs, SpuriousWakeup(d) \/ Test(d) \/ ReadAsync(d) PROVE Awakened'
  <2>1. cnt = 0 => \A e \in Devs : tpc'[e] = "asleep" => tpc[e] = "asleep"
    BY <1>0, <1>6 DEF SpuriousWakeup, Test, ReadAsync
  <2>2. UNCHANGED <<mpc, cnt>>
    BY <1>6 DEF SpuriousWakeup, Test, ReadAsync
  <2> QED BY <2>1, <2>2 DEF Awakened, Asleep
<1>7. CASE UNCHANGED startVars
  BY <1>7 DEF startVars, Awakened, Asleep
<1> QED
  BY <1>1, <1>2, <1>3, <1>4, <1>5, <1>6, <1>7 DEF StartNext, StartMain, AtBarrier

\* For any number of devices, no thread sleeps on once all have come to the
\* barrier (common.h:164-181).
THEOREM AwakeningCorrect == StartSpec => []NobodyLeftAsleep
<1>1. StartInit => Awakened
  BY DEF StartInit, Awakened
<1>2. IInv /\ Awakened => NobodyLeftAsleep
  <2> SUFFICES ASSUME IInv, Awakened, mpc # "open", Pending = {} PROVE Asleep = {}
    BY DEF NobodyLeftAsleep
  <2>1. cnt = 0
    BY FS_EmptySet DEF IInv, BarrierCounts
  <2> QED BY <2>1 DEF Awakened
<1> QED BY <1>1, <1>2, InitIInv, NextIInv, NextAwakened, PTL DEF StartSpec
=============================================================================
