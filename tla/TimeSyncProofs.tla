--------------------------- MODULE TimeSyncProofs ---------------------------
(***************************************************************************)
(* Proofs about TimeSync: types, corrections that are taken back, and the  *)
(* meaning of synced, for any number of devices and any length of the lag  *)
(* queue.                                                                  *)
(***************************************************************************)
EXTENDS TimeSync, TLAPS

\* What the program counters of the coherent and the console thread say.
CoherentPlaces ==
  /\ cpc \in {"scan", "scanning", "done"} => lagqueue = <<>>
  /\ cpc = "scanning" => cdev \in Devs
  /\ cpc = "answer" => lagqueue # <<>> /\ cdev = NumDevs + 1

ConsolePlaces == con.step # "none" => con.cmd \in Commands

IInv == TypeOK /\ CoherentPlaces /\ ConsolePlaces /\ NoStrayCorrection

USE DevsAssumption, QueueAssumption, LevelAssumption, CommandAssumption,
    StopAssumption

LEMMA InitIInv == Init => IInv
<1> SUFFICES ASSUME Init PROVE IInv
  OBVIOUS
<1> USE DEF Init, Devs, Levels
<1>1. FlagTypes /\ DeviceTypes /\ NoStrayCorrection
  BY DEF FlagTypes, DeviceTypes, NoStrayCorrection
<1>2. ControlTypes /\ MainTypes
  <2>1. pc \in [Devs -> ControlStates]
    BY DEF ControlStates
  <2>3. MainTypes
    <3>1. mdev \in Devs
      OBVIOUS
    <3>2. coexit \in BOOLEAN
      BY Zenon
    <3> QED
      BY <3>1, <3>2 DEF MainTypes
  <2> QED
    BY <2>1, <2>3 DEF ControlTypes
<1>3. CoherentTypes /\ CoherentPlaces
  BY DEF CoherentTypes, CoherentPlaces
<1>4. ConsoleTypes /\ ConsolePlaces
  BY DEF ConsoleTypes, ConsolePlaces, NoCommand
<1> QED
  BY <1>1, <1>2, <1>3, <1>4 DEF IInv, TypeOK

\* What a step does not touch keeps its part of the invariant.
LEMMA Untouched ==
  /\ UNCHANGED flagVars /\ FlagTypes => FlagTypes'
  /\ UNCHANGED deviceVars /\ DeviceTypes => DeviceTypes'
  /\ UNCHANGED pc /\ ControlTypes => ControlTypes'
  /\ UNCHANGED coherentVars /\ CoherentTypes => CoherentTypes'
  /\ UNCHANGED coherentVars /\ CoherentPlaces => CoherentPlaces'
  /\ UNCHANGED consoleVars /\ ConsoleTypes => ConsoleTypes'
  /\ UNCHANGED consoleVars /\ ConsolePlaces => ConsolePlaces'
  /\ UNCHANGED mainVars /\ MainTypes => MainTypes'
  /\ UNCHANGED <<deviceVars, pc>> /\ NoStrayCorrection => NoStrayCorrection'
BY DEF flagVars, deviceVars, coherentVars, consoleVars, mainVars,
       FlagTypes, DeviceTypes, ControlTypes, CoherentTypes, ConsoleTypes, MainTypes,
       CoherentPlaces, ConsolePlaces, NoStrayCorrection

\* The head of a queue is one of its elements.
LEMMA HeadOfQueue ==
  ASSUME NEW S, NEW q \in Seq(S), q # <<>>
  PROVE  Head(q) \in S
<1>1. Len(q) \in Nat /\ Len(q) >= 1
  OBVIOUS
<1> QED
  BY <1>1

\* The loop of a console command goes on to a device, or the command is done.
LEMMA NextDeviceTypes ==
  ASSUME ConsoleTypes, con.cmd \in Commands, NextDevice
  PROVE  /\ con' \in [cmd : Commands \cup {"none"}, dev : Devs,
                       step : {"none", "rate", "unsync", "request", "clear", "waitlag"}]
         /\ ConsolePlaces'
<1>1. FirstStep[con.cmd] \in {"unsync", "rate", "request"}
  <2>1. con.cmd = "sync" \/ con.cmd = "samplerate" \/ con.cmd = "lag"
    OBVIOUS
  <2>2. /\ FirstStep["sync"] = "unsync" /\ FirstStep["samplerate"] = "rate"
        /\ FirstStep["lag"] = "request"
    BY DEF FirstStep
  <2> QED
    BY <2>1, <2>2
<1>2. CASE con.dev < NumDevs
  <2>1. con' = [con EXCEPT !.dev = con.dev + 1, !.step = FirstStep[con.cmd]]
    BY <1>2 DEF NextDevice
  <2>2. con.dev + 1 \in Devs
    BY <1>2 DEF ConsoleTypes, Devs
  <2> QED
    BY <1>1, <2>1, <2>2 DEF ConsoleTypes, ConsolePlaces
<1>3. CASE ~(con.dev < NumDevs)
  BY <1>3 DEF NextDevice, NoCommand, ConsolePlaces, Devs
<1> QED
  BY <1>2, <1>3

\* Every step of every thread keeps the invariant.
LEMMA NextIInv == IInv /\ [Next]_vars => IInv'
<1> SUFFICES ASSUME IInv, [Next]_vars PROVE IInv'
  OBVIOUS
<1> USE DEF IInv, TypeOK, Devs, Levels
<1>1. ASSUME NEW d \in Devs, ControlTop(d) PROVE IInv'
  <2>1. ControlTypes' /\ NoStrayCorrection'
    BY <1>1 DEF ControlTop, Goto, ControlTypes, ControlStates,
               NoStrayCorrection, DeviceTypes, FlagTypes, deviceVars
  <2> QED
    BY <1>1, <2>1, Untouched DEF ControlTop
<1>2. ASSUME NEW d \in Devs, WaitSynchronized(d) PROVE IInv'
  <2>1. ControlTypes' /\ NoStrayCorrection'
    BY <1>2 DEF WaitSynchronized, Goto, ControlTypes, ControlStates,
               NoStrayCorrection, DeviceTypes, FlagTypes, deviceVars
  <2> QED
    BY <1>2, <2>1, Untouched DEF WaitSynchronized
<1>3. ASSUME NEW d \in Devs, RequestLag(d) PROVE IInv'
  <2>1. FlagTypes'
    BY <1>3 DEF RequestLag, Goto, FlagTypes
  <2>2. ControlTypes' /\ NoStrayCorrection'
    BY <1>3 DEF RequestLag, Goto, ControlTypes, ControlStates,
               NoStrayCorrection, DeviceTypes, deviceVars
  <2> QED
    BY <1>3, <2>1, <2>2, Untouched DEF RequestLag
<1>4. ASSUME NEW d \in Devs, ClearReady(d) PROVE IInv'
  <2>1. FlagTypes'
    BY <1>4 DEF ClearReady, Goto, FlagTypes
  <2>2. ControlTypes' /\ NoStrayCorrection'
    BY <1>4 DEF ClearReady, Goto, ControlTypes, ControlStates,
               NoStrayCorrection, DeviceTypes, deviceVars
  <2> QED
    BY <1>4, <2>1, <2>2, Untouched DEF ClearReady
<1>5. ASSUME NEW d \in Devs, LagArrives(d) PROVE IInv'
  <2>1. ControlTypes' /\ NoStrayCorrection'
    BY <1>5 DEF LagArrives, Goto, ControlTypes, ControlStates,
               NoStrayCorrection, DeviceTypes, deviceVars
  <2> QED
    BY <1>5, <2>1, Untouched DEF LagArrives
<1>6. ASSUME NEW d \in Devs, Decide(d) PROVE IInv'
  <2>1. DeviceTypes' /\ NoStrayCorrection'
    BY <1>6 DEF Decide, Goto, SetCorrection, DeviceTypes, NoStrayCorrection,
               ControlTypes, ControlStates, FlagTypes
  <2>2. ControlTypes' /\ NoStrayCorrection'
    BY <1>6 DEF Decide, Goto, SetCorrection, ControlTypes, ControlStates,
               NoStrayCorrection, DeviceTypes, FlagTypes, deviceVars
  <2> QED
    BY <1>6, <2>1, <2>2, Untouched DEF Decide
<1>7. ASSUME NEW d \in Devs, SleepCorrected(d) PROVE IInv'
  <2>1. DeviceTypes' /\ NoStrayCorrection'
    BY <1>7 DEF SleepCorrected, Goto, SetCorrection, Corrected, DeviceTypes,
               NoStrayCorrection, ControlTypes, ControlStates
  <2>2. ControlTypes' /\ NoStrayCorrection'
    BY <1>7 DEF SleepCorrected, Goto, SetCorrection, Corrected, ControlTypes,
               ControlStates, NoStrayCorrection, DeviceTypes, deviceVars
  <2> QED
    BY <1>7, <2>1, <2>2, Untouched DEF SleepCorrected
<1>8. ASSUME NEW d \in Devs, DeclareSynchronized(d) PROVE IInv'
  <2>1. FlagTypes'
    BY <1>8 DEF DeclareSynchronized, Goto, FlagTypes
  <2>2. ControlTypes' /\ NoStrayCorrection'
    BY <1>8 DEF DeclareSynchronized, Goto, ControlTypes, ControlStates,
               NoStrayCorrection, DeviceTypes, deviceVars
  <2> QED
    BY <1>8, <2>1, <2>2, Untouched DEF DeclareSynchronized
<1>9. CASE BeginPass
  <2>1. CoherentTypes' /\ CoherentPlaces'
    BY <1>9 DEF BeginPass, CoherentTypes, CoherentPlaces
  <2> QED
    BY <1>9, <2>1, Untouched DEF BeginPass
<1>10. CASE ScanDevice
  <2>1. CoherentTypes' /\ CoherentPlaces'
    BY <1>10 DEF ScanDevice, CoherentTypes, CoherentPlaces, FlagTypes
  <2> QED
    BY <1>10, <2>1, Untouched DEF ScanDevice
<1>11. CASE VisitDevice
  <2> DEFINE entry == [dev |-> cdev, lag |-> offset[cdev]]
  <2>1. /\ cpc = "visit" /\ cpc' = "visit"
        /\ cdev \in Devs /\ cdev' \in 1 .. NumDevs + 1
    BY <1>11 DEF VisitDevice, CoherentTypes
  <2>2. entry \in [dev : Devs, lag : Levels]
    BY <2>1 DEF DeviceTypes
  <2>3. lagqueue' \in Seq([dev : Devs, lag : Levels]) /\ Len(lagqueue') < nfft
    <3>1. CASE Queueable(cdev)
      <4>1. lagqueue' = Append(lagqueue, entry)
        BY <1>11, <3>1 DEF VisitDevice
      <4>2. Len(lagqueue) + 1 < nfft
        BY <3>1 DEF Queueable
      <4> HIDE DEF entry
      <4> QED
        BY <2>2, <4>1, <4>2 DEF CoherentTypes
    <3>2. CASE ~Queueable(cdev)
      BY <1>11, <3>2 DEF VisitDevice, CoherentTypes
    <3> QED
      BY <3>1, <3>2
  <2>4. CoherentTypes' /\ CoherentPlaces'
    BY <2>1, <2>3 DEF CoherentTypes, CoherentPlaces
  <2> QED
    BY <1>11, <2>4, Untouched DEF VisitDevice
<1>12. CASE StoreLag
  <2> DEFINE head == Head(lagqueue)
  <2>0. head \in [dev : Devs, lag : Levels]
    <3>1. lagqueue \in Seq([dev : Devs, lag : Levels]) /\ lagqueue # <<>>
      BY <1>12 DEF StoreLag, CoherentTypes
    <3> QED
      BY <3>1, HeadOfQueue
  <2>1. FlagTypes'
    <3>1. head.dev \in Devs /\ head.lag \in Levels
      BY <2>0
    <3>2. lagp' = [lagp EXCEPT ![head.dev] = head.lag]
      BY <1>12 DEF StoreLag
    <3> HIDE DEF head
    <3> QED
      BY <1>12, <3>1, <3>2 DEF StoreLag, FlagTypes
  <2>2. CoherentTypes' /\ CoherentPlaces'
    BY <1>12 DEF StoreLag, CoherentTypes, CoherentPlaces, FlagTypes
  <2> QED
    BY <1>12, <2>1, <2>2, Untouched DEF StoreLag
<1>13. CASE AnswerLag
  <2>1. FlagTypes'
    BY <1>13 DEF AnswerLag, FlagTypes, CoherentTypes, CoherentPlaces
  <2>2. CoherentTypes' /\ CoherentPlaces'
    BY <1>13 DEF AnswerLag, CoherentTypes, CoherentPlaces, FlagTypes
  <2> QED
    BY <1>13, <2>1, <2>2, Untouched DEF AnswerLag
<1>14. CASE EndPass
  <2>1. CoherentTypes' /\ CoherentPlaces'
    BY <1>14 DEF EndPass, CoherentTypes, CoherentPlaces
  <2> QED
    BY <1>14, <2>1, Untouched DEF EndPass
<1>15. CASE StartCommand
  <2>1. ConsoleTypes' /\ ConsolePlaces'
    BY <1>15 DEF StartCommand, FirstStep, NoCommand, ConsoleTypes,
                ConsolePlaces
  <2> QED
    BY <1>15, <2>1, Untouched DEF StartCommand
<1>16. CASE ConsoleRate
  <2>1. DeviceTypes' /\ NoStrayCorrection'
    BY <1>16 DEF ConsoleRate, DeviceTypes, NoStrayCorrection, ControlTypes,
                ControlStates, ConsoleTypes
  <2>2. ConsoleTypes' /\ ConsolePlaces'
    BY <1>16 DEF ConsoleRate, ConsoleTypes, ConsolePlaces
  <2> QED
    BY <1>16, <2>1, <2>2, Untouched DEF ConsoleRate
<1>17. CASE ConsoleUnsync
  <2>1. FlagTypes'
    BY <1>17 DEF ConsoleUnsync, FlagTypes, ConsoleTypes
  <2>2. ConsoleTypes' /\ ConsolePlaces'
    <3>1. con.cmd \in Commands /\ NextDevice /\ UNCHANGED <<commands, asked>>
      BY <1>17 DEF ConsoleUnsync, ConsolePlaces
    <3> QED
      BY <3>1, NextDeviceTypes DEF ConsoleTypes
  <2> QED
    BY <1>17, <2>1, <2>2, Untouched DEF ConsoleUnsync
<1>18. CASE ConsoleRequest
  <2>1. FlagTypes'
    BY <1>18 DEF ConsoleRequest, FlagTypes, ConsoleTypes
  <2>2. ConsoleTypes' /\ ConsolePlaces'
    BY <1>18 DEF ConsoleRequest, ConsoleTypes, ConsolePlaces
  <2> QED
    BY <1>18, <2>1, <2>2, Untouched DEF ConsoleRequest
<1>19. CASE ConsoleClear
  <2>1. FlagTypes'
    BY <1>19 DEF ConsoleClear, FlagTypes, ConsoleTypes
  <2>2. ConsoleTypes' /\ ConsolePlaces'
    BY <1>19 DEF ConsoleClear, ConsoleTypes, ConsolePlaces
  <2> QED
    BY <1>19, <2>1, <2>2, Untouched DEF ConsoleClear
<1>20. CASE ConsoleLagArrives
  <2>1. ConsoleTypes' /\ ConsolePlaces'
    <3>1. con.cmd \in Commands /\ NextDevice /\ UNCHANGED <<commands, asked>>
      BY <1>20 DEF ConsoleLagArrives, ConsolePlaces
    <3> QED
      BY <3>1, NextDeviceTypes DEF ConsoleTypes
  <2> QED
    BY <1>20, <2>1, Untouched DEF ConsoleLagArrives
<1>21. CASE BeginStop
  <2>1. MainTypes'
    BY <1>21 DEF BeginStop, MainTypes
  <2> QED
    BY <1>21, <2>1, Untouched DEF BeginStop
<1>22. CASE StopStreaming
  <2>1. DeviceTypes' /\ NoStrayCorrection'
    BY <1>22 DEF StopStreaming, DeviceTypes, NoStrayCorrection, ControlTypes,
                ControlStates, MainTypes
  <2>2. MainTypes'
    BY <1>22 DEF StopStreaming, MainTypes
  <2> QED
    BY <1>22, <2>1, <2>2, Untouched DEF StopStreaming
<1>23. CASE ControlRequestExit
  <2>1. DeviceTypes' /\ NoStrayCorrection'
    BY <1>23 DEF ControlRequestExit, DeviceTypes, NoStrayCorrection,
                ControlTypes, ControlStates, MainTypes
  <2>2. MainTypes'
    BY <1>23 DEF ControlRequestExit, MainTypes
  <2> QED
    BY <1>23, <2>1, <2>2, Untouched DEF ControlRequestExit
<1>24. CASE WakeControl
  <2>1. FlagTypes'
    BY <1>24 DEF WakeControl, FlagTypes, MainTypes
  <2>2. MainTypes'
    BY <1>24 DEF WakeControl, MainTypes
  <2> QED
    BY <1>24, <2>1, <2>2, Untouched DEF WakeControl
<1>25. CASE DeviceRequestExit
  <2>1. DeviceTypes' /\ NoStrayCorrection'
    BY <1>25 DEF DeviceRequestExit, DeviceTypes, NoStrayCorrection,
                ControlTypes, ControlStates, MainTypes
  <2>2. MainTypes'
    BY <1>25 DEF DeviceRequestExit, MainTypes
  <2> QED
    BY <1>25, <2>1, <2>2, Untouched DEF DeviceRequestExit
<1>26. CASE CoherentRequestExit
  <2>1. MainTypes'
    BY <1>26 DEF CoherentRequestExit, MainTypes
  <2> QED
    BY <1>26, <2>1, Untouched DEF CoherentRequestExit
<1>27. CASE CoherentJoined \/ ConsoleRequestExit \/ ConsoleJoined
  <2>1. MainTypes'
    BY <1>27 DEF CoherentJoined, ConsoleRequestExit, ConsoleJoined, MainTypes
  <2> QED
    BY <1>27, <2>1, Untouched DEF CoherentJoined, ConsoleRequestExit, ConsoleJoined
<1>28. CASE UNCHANGED vars
  BY <1>28, Untouched DEF vars
<1> QED
  BY <1>1, <1>2, <1>3, <1>4, <1>5, <1>6, <1>7, <1>8, <1>9, <1>10,
            <1>11, <1>12, <1>13, <1>14, <1>15, <1>16, <1>17, <1>18, <1>19,
            <1>20, <1>21, <1>22, <1>23, <1>24, <1>25, <1>26, <1>27, <1>28
  DEF Next, Control, Coherent, ConsoleStep, Main, Finished

LEMMA Invariance == Spec => []IInv
BY InitIInv, NextIInv, PTL DEF Spec

\* Every variable keeps its type and the lag queue its bound.
THEOREM TypeCorrect == Spec => []TypeOK
<1>1. IInv => TypeOK
  BY DEF IInv
<1> QED
  BY Invariance, <1>1, PTL

\* Whatever the console and main do meanwhile, a correction outlives its sleep
\* only on a device that is exiting.
THEOREM CorrectionsTakenBack == Spec => []NoStrayCorrection
<1>1. IInv => NoStrayCorrection
  BY DEF IInv
<1> QED
  BY Invariance, <1>1, PTL

-----------------------------------------------------------------------------
(* What synced means, while request sync is the only command executed.     *)

\* The control thread has been told the lag it asked for, and nothing else has
\* been asked for since.
Answered(d) == \/ pc[d] \in {"decide", "sleep", "setsync"}
               \/ pc[d] = "waitlag" /\ lagready[d]

\* The queue holds devices visited in this pass that still await an answer,
\* each once, with the lag their samples have now.
QueueInv ==
  /\ \A i \in 1 .. Len(lagqueue) :
       /\ lagqueue[i].dev < cdev
       /\ lagrequested[lagqueue[i].dev]
       /\ lagqueue[i].lag = offset[lagqueue[i].dev]
  /\ \A i, j \in 1 .. Len(lagqueue) : i < j => lagqueue[i].dev < lagqueue[j].dev
  /\ cpc = "answer" => lagp[lagqueue[1].dev] = lagqueue[1].lag

AlignInv ==
  \A d \in Devs :
    /\ Answered(d) => ~lagrequested[d]
    /\ Answered(d) /\ pc[d] \in {"waitlag", "decide"} => lagp[d] = offset[d]
    /\ pc[d] = "setsync" => offset[d] = 0
    /\ synced[d] => offset[d] = 0 /\ pc[d] \in {"top", "wsync", "done"}

ConsoleSyncs ==
  con.step # "none" => con.cmd = "sync" /\ con.step = "unsync"

SInv == QueueInv /\ AlignInv /\ ConsoleSyncs

LEMMA InitSInv == Init => SInv
<1> SUFFICES ASSUME Init PROVE SInv
  OBVIOUS
<1>1. QueueInv
  BY DEF Init, QueueInv
<1>2. AlignInv
  BY DEF Init, AlignInv, Answered, Devs
<1>3. ConsoleSyncs
  BY DEF Init, ConsoleSyncs, NoCommand
<1> QED
  BY <1>1, <1>2, <1>3 DEF SInv

\* What is queued is a device and a lag.
LEMMA QueueEntries ==
  ASSUME CoherentTypes, NEW i \in 1 .. Len(lagqueue)
  PROVE  lagqueue[i] \in [dev : Devs, lag : Levels]
<1> DEFINE entries == [dev : Devs, lag : Levels]
<1>1. lagqueue \in Seq(entries)
  BY DEF CoherentTypes
<1> HIDE DEF entries
<1>2. lagqueue[i] \in entries
  BY <1>1
<1> QED
  BY <1>2 DEF entries

\* The control thread of one device moves.
LEMMA ControlSInv ==
  ASSUME IInv, SInv, NEW d \in Devs, Control(d)
  PROVE  SInv'
<1> USE DEF IInv, TypeOK, FlagTypes, DeviceTypes, ControlTypes, SInv
<1>0. ConsoleSyncs'
  BY DEF ConsoleSyncs, Control, ControlTop, WaitSynchronized, RequestLag,
         ClearReady, LagArrives, Decide, SleepCorrected, DeclareSynchronized,
         consoleVars
<1>1. QueueInv'
  <2> SUFFICES ASSUME UNCHANGED coherentVars, UNCHANGED lagp,
                      \A e \in Devs : lagrequested[e] =>
                        lagrequested'[e] /\ offset'[e] = offset[e]
               PROVE  QueueInv'
    <3>1. UNCHANGED coherentVars /\ UNCHANGED lagp
      BY DEF Control, ControlTop, WaitSynchronized, RequestLag, ClearReady,
             LagArrives, Decide, SleepCorrected, DeclareSynchronized, flagVars
    <3>2. ASSUME NEW e \in Devs, lagrequested[e]
          PROVE  lagrequested'[e] /\ offset'[e] = offset[e]
      <4>1. CASE SleepCorrected(d)
        <5>1. e # d
          BY <3>2, <4>1 DEF SleepCorrected, AlignInv, Answered
        <5> QED
          BY <3>2, <4>1, <5>1 DEF SleepCorrected, flagVars
      <4>2. CASE RequestLag(d)
        BY <3>2, <4>2 DEF RequestLag, deviceVars
      <4>3. CASE ~SleepCorrected(d) /\ ~RequestLag(d)
        BY <3>2, <4>3 DEF Control, ControlTop, WaitSynchronized, ClearReady,
                          LagArrives, Decide, DeclareSynchronized, flagVars, deviceVars
      <4> QED
        BY <4>1, <4>2, <4>3
    <3> QED
      BY <3>1, <3>2
  <2> QED
    BY QueueEntries DEF QueueInv, coherentVars
<1>2. AlignInv'
  <2>1. CASE ControlTop(d)
    BY <2>1 DEF ControlTop, Goto, AlignInv, Answered, flagVars, deviceVars
  <2>2. CASE WaitSynchronized(d)
    BY <2>2 DEF WaitSynchronized, Goto, AlignInv, Answered, flagVars, deviceVars
  <2>3. CASE RequestLag(d)
    BY <2>3 DEF RequestLag, Goto, AlignInv, Answered, deviceVars
  <2>4. CASE ClearReady(d)
    BY <2>4 DEF ClearReady, Goto, AlignInv, Answered, deviceVars
  <2>5. CASE LagArrives(d)
    BY <2>5 DEF LagArrives, Goto, AlignInv, Answered, flagVars, deviceVars
  <2>6. CASE Decide(d)
    BY <2>6 DEF Decide, Goto, AlignInv, Answered, flagVars, Levels
  <2>7. CASE SleepCorrected(d)
    BY <2>7 DEF SleepCorrected, Goto, AlignInv, Answered, flagVars
  <2>8. CASE DeclareSynchronized(d)
    BY <2>8 DEF DeclareSynchronized, Goto, AlignInv, Answered, deviceVars
  <2> QED
    BY <2>1, <2>2, <2>3, <2>4, <2>5, <2>6, <2>7, <2>8 DEF Control
<1> QED
  BY <1>0, <1>1, <1>2

\* The coherent thread moves.
LEMMA CoherentSInv ==
  ASSUME IInv, SInv, Coherent
  PROVE  SInv'
<1> USE DEF IInv, TypeOK, SInv
<1>0. ConsoleSyncs'
  BY DEF ConsoleSyncs, Coherent, BeginPass, ScanDevice, VisitDevice, StoreLag,
         AnswerLag, EndPass, consoleVars
<1>1. CASE BeginPass
  <2>1. QueueInv'
    BY <1>1 DEF BeginPass, QueueInv
  <2>2. AlignInv'
    BY <1>1 DEF BeginPass, AlignInv, Answered, flagVars, deviceVars
  <2> QED
    BY <1>0, <2>1, <2>2
<1>2. CASE ScanDevice
  <2>1. QueueInv'
    BY <1>2 DEF ScanDevice, QueueInv, CoherentPlaces
  <2>2. AlignInv'
    BY <1>2 DEF ScanDevice, AlignInv, Answered, flagVars, deviceVars
  <2> QED
    BY <1>0, <2>1, <2>2
<1>3. CASE VisitDevice
  <2> DEFINE entry == [dev |-> cdev, lag |-> offset[cdev]]
  <2>1. /\ cdev \in Devs /\ cdev' = cdev + 1 /\ cpc' = "visit"
        /\ UNCHANGED <<lagrequested, offset, lagp>>
    BY <1>3 DEF VisitDevice, CoherentTypes, Devs, flagVars, deviceVars
  <2>2. AlignInv'
    BY <1>3 DEF VisitDevice, AlignInv, Answered, flagVars, deviceVars
  <2>3. \A i \in 1 .. Len(lagqueue) : lagqueue[i].dev \in Devs
    BY QueueEntries
  <2>4. CASE Queueable(cdev)
    <3>1. lagqueue' = Append(lagqueue, entry) /\ lagrequested[cdev]
      BY <1>3, <2>4 DEF VisitDevice, Queueable
    <3>2. lagqueue \in Seq([dev : Devs, lag : Levels])
      BY DEF CoherentTypes
    <3>3. /\ Len(lagqueue') = Len(lagqueue) + 1
          /\ \A i \in 1 .. Len(lagqueue) : lagqueue'[i] = lagqueue[i]
          /\ lagqueue'[Len(lagqueue) + 1] = entry
      <4> HIDE DEF entry
      <4> QED
        BY <3>1, <3>2
    <3>4. entry.dev = cdev /\ entry.lag = offset[cdev]
      OBVIOUS
    <3>5. Len(lagqueue) \in Nat
      BY <3>2
    <3> HIDE DEF entry
    <3>6. \A i \in 1 .. Len(lagqueue') :
            i \in 1 .. Len(lagqueue) \/ i = Len(lagqueue) + 1
      BY <3>3, <3>5
    <3>7. QueueInv'
      BY <2>1, <2>3, <3>1, <3>3, <3>4, <3>5, <3>6 DEF QueueInv, Devs
    <3> QED
      BY <1>0, <2>2, <3>7
  <2>5. CASE ~Queueable(cdev)
    <3>1. lagqueue' = lagqueue
      BY <1>3, <2>5 DEF VisitDevice
    <3> QED
      BY <1>0, <2>1, <2>2, <2>3, <3>1 DEF QueueInv, Devs
  <2> QED
    BY <2>4, <2>5
<1>4. ASSUME cpc \in {"visit", "answer"}, lagqueue # <<>>
      PROVE  /\ Head(lagqueue) = lagqueue[1] /\ Len(lagqueue) \in Nat
             /\ 1 \in 1 .. Len(lagqueue)
             /\ lagqueue[1].dev \in Devs /\ lagqueue[1].lag \in Levels
             /\ lagrequested[lagqueue[1].dev]
             /\ lagqueue[1].lag = offset[lagqueue[1].dev]
  <2>1. lagqueue \in Seq([dev : Devs, lag : Levels])
    BY DEF CoherentTypes
  <2>2. Len(lagqueue) \in Nat /\ 1 \in 1 .. Len(lagqueue) /\ Head(lagqueue) = lagqueue[1]
    BY <1>4, <2>1
  <2>3. lagqueue[1] \in [dev : Devs, lag : Levels]
    BY <2>2, QueueEntries
  <2> QED
    BY <2>2, <2>3 DEF QueueInv
<1>5. CASE StoreLag
  <2> DEFINE h == lagqueue[1].dev
  <2>1. /\ h \in Devs /\ lagrequested[h]
        /\ lagp' = [lagp EXCEPT ![h] = lagqueue[1].lag]
    BY <1>4, <1>5 DEF StoreLag
  <2>2. QueueInv'
    BY <1>5, <2>1 DEF StoreLag, QueueInv, FlagTypes, deviceVars
  <2>3. AlignInv'
    <3>1. ~Answered(h)
      BY <2>1 DEF AlignInv
    <3>2. \A e \in Devs : e # h => lagp'[e] = lagp[e]
      BY <2>1 DEF FlagTypes
    <3> HIDE DEF h
    <3> QED
      BY <1>5, <2>1, <3>1, <3>2 DEF StoreLag, AlignInv, Answered, deviceVars
  <2> QED
    BY <1>0, <2>2, <2>3
<1>6. CASE AnswerLag
  <2> DEFINE h == lagqueue[1].dev
  <2>1. /\ lagqueue # <<>> /\ h \in Devs /\ lagrequested[h]
        /\ lagp[h] = offset[h] /\ cpc' = "visit"
        /\ lagready' = [lagready EXCEPT ![h] = TRUE]
        /\ lagrequested' = [lagrequested EXCEPT ![h] = FALSE]
        /\ lagqueue' = Tail(lagqueue)
        /\ UNCHANGED <<lagp, synced, cdev, offset, pc>>
    BY <1>4, <1>6 DEF AnswerLag, CoherentPlaces, QueueInv, deviceVars
  <2>2. QueueInv'
    <3>1. lagqueue \in Seq([dev : Devs, lag : Levels]) /\ Len(lagqueue) >= 1
      BY <2>1 DEF CoherentTypes
    <3>2. /\ Len(lagqueue') \in Nat /\ Len(lagqueue') = Len(lagqueue) - 1
          /\ \A i \in 1 .. Len(lagqueue') :
               i + 1 \in 1 .. Len(lagqueue) /\ lagqueue'[i] = lagqueue[i + 1]
      BY <2>1, <3>1
    <3>3. \A i \in 1 .. Len(lagqueue') : lagqueue'[i].dev \in Devs
      BY <3>2, QueueEntries
    <3>4. \A i \in 1 .. Len(lagqueue') : lagqueue'[i].dev # h
      <4> SUFFICES ASSUME NEW i \in 1 .. Len(lagqueue') PROVE lagqueue'[i].dev # h
        OBVIOUS
      <4>1. i + 1 \in 1 .. Len(lagqueue) /\ 1 \in 1 .. Len(lagqueue) /\ 1 < i + 1
        BY <3>2
      <4>2. h < lagqueue[i + 1].dev
        BY <4>1 DEF QueueInv
      <4> QED
        BY <2>1, <3>2, <4>2 DEF Devs
    <3>5. \A i \in 1 .. Len(lagqueue') : lagrequested'[lagqueue'[i].dev] = lagrequested[lagqueue'[i].dev]
      BY <2>1, <3>3, <3>4 DEF FlagTypes
    <3>6. \A i \in 1 .. Len(lagqueue') :
            /\ lagqueue'[i].dev < cdev /\ lagrequested[lagqueue'[i].dev]
            /\ lagqueue'[i].lag = offset[lagqueue'[i].dev]
      BY <3>2 DEF QueueInv
    <3>7. \A i, j \in 1 .. Len(lagqueue') : i < j => lagqueue'[i].dev < lagqueue'[j].dev
      BY <3>2 DEF QueueInv
    <3> HIDE DEF h
    <3> QED
      BY <2>1, <3>5, <3>6, <3>7 DEF QueueInv
  <2>3. AlignInv'
    <3>1. ~Answered(h)
      BY <2>1 DEF AlignInv
    <3> HIDE DEF h
    <3> QED
      BY <2>1, <3>1 DEF AlignInv, Answered, FlagTypes
  <2> QED
    BY <1>0, <2>2, <2>3
<1>7. CASE EndPass
  <2>1. QueueInv'
    BY <1>7 DEF EndPass, QueueInv
  <2>2. AlignInv'
    BY <1>7 DEF EndPass, AlignInv, Answered, flagVars, deviceVars
  <2> QED
    BY <1>0, <2>1, <2>2
<1> QED
  BY <1>1, <1>2, <1>3, <1>5, <1>6, <1>7 DEF Coherent

\* A synchronised mark that is taken back disturbs nothing.
LEMMA UnsyncSInv ==
  ASSUME IInv, SInv, NEW d \in Devs, synced' = [synced EXCEPT ![d] = FALSE],
         UNCHANGED <<lagrequested, lagready, lagp, offset, pc, coherentVars>>
  PROVE  QueueInv' /\ AlignInv'
<1>1. QueueInv'
  BY DEF SInv, QueueInv, coherentVars
<1>2. AlignInv'
  BY DEF SInv, AlignInv, Answered, IInv, TypeOK, FlagTypes
<1> QED
  BY <1>1, <1>2

\* A step of any thread; the commands executed before are not undone by it.
LEMMA NextSInv ==
  IInv /\ (OnlySyncs => SInv) /\ [Next]_vars => (OnlySyncs => SInv)'
<1> SUFFICES ASSUME IInv, OnlySyncs => SInv, [Next]_vars, OnlySyncs'
             PROVE  SInv'
  OBVIOUS
<1> DEFINE seen == <<flagVars, offset, pc, coherentVars>>
<1>a. OnlySyncs
  <2>1. asked \subseteq asked'
    <3>1. CASE StartCommand
      BY <3>1 DEF StartCommand
    <3>2. CASE ~StartCommand
      BY <3>2 DEF Next, Control, Coherent, ConsoleStep, Main, Finished, vars, consoleVars,
         ControlTop, WaitSynchronized, RequestLag, ClearReady, LagArrives, Decide,
         SleepCorrected, DeclareSynchronized, BeginPass, ScanDevice, VisitDevice,
         StoreLag, AnswerLag, EndPass, ConsoleRate, ConsoleUnsync, ConsoleRequest,
         ConsoleClear, ConsoleLagArrives, BeginStop, StopStreaming,
         ControlRequestExit, WakeControl, DeviceRequestExit, CoherentRequestExit,
         CoherentJoined, ConsoleRequestExit, ConsoleJoined
    <3> QED
      BY <3>1, <3>2
  <2> QED
    BY <2>1 DEF OnlySyncs
<1>b. SInv
  BY <1>a
<1>0. UNCHANGED seen => QueueInv' /\ AlignInv'
  BY <1>b DEF SInv, QueueInv, AlignInv, Answered, flagVars, coherentVars
<1>1. ASSUME NEW d \in Devs, Control(d) PROVE SInv'
  BY <1>1, <1>b, ControlSInv
<1>2. CASE Coherent
  BY <1>2, <1>b, CoherentSInv
<1>3. CASE StartCommand
  <2>1. ConsoleSyncs'
    <3>1. FirstStep["sync"] = "unsync"
      BY DEF FirstStep
    <3>2. PICK c \in Commands :
            con' = [cmd |-> c, dev |-> 1, step |-> FirstStep[c]] /\ c \in asked'
      BY <1>3 DEF StartCommand
    <3>3. c = "sync"
      BY <3>2 DEF OnlySyncs
    <3> QED
      BY <3>1, <3>2, <3>3 DEF ConsoleSyncs
  <2> QED
    BY <1>0, <1>3, <2>1 DEF StartCommand, SInv, deviceVars
<1>4. CASE ConsoleStep
  <2>1. ConsoleUnsync /\ con.cmd = "sync"
    BY <1>4, <1>b DEF ConsoleStep, SInv, ConsoleSyncs, ConsoleRate, ConsoleRequest,
                      ConsoleUnsync, ConsoleClear, ConsoleLagArrives
  <2>2. con.dev \in Devs
    BY <2>1 DEF ConsoleUnsync, IInv, TypeOK, ConsoleTypes
  <2>3. ConsoleSyncs'
    <3>1. FirstStep[con.cmd] = "unsync"
      BY <2>1 DEF FirstStep
    <3> QED
      BY <2>1, <3>1 DEF ConsoleUnsync, NextDevice, NoCommand, ConsoleSyncs,
                        IInv, TypeOK, ConsoleTypes
  <2> QED
    BY <1>b, <2>1, <2>2, <2>3, UnsyncSInv DEF ConsoleUnsync, SInv, deviceVars
<1>5. CASE WakeControl
  BY <1>5, <1>b, UnsyncSInv
  DEF WakeControl, SInv, IInv, TypeOK, MainTypes, ConsoleSyncs, deviceVars, consoleVars
<1>6. CASE \/ BeginStop \/ StopStreaming \/ ControlRequestExit
           \/ DeviceRequestExit \/ CoherentRequestExit
           \/ CoherentJoined \/ ConsoleRequestExit \/ ConsoleJoined
           \/ UNCHANGED vars
  BY <1>0, <1>6, <1>b
  DEF BeginStop, StopStreaming, ControlRequestExit, DeviceRequestExit,
      CoherentRequestExit, CoherentJoined, ConsoleRequestExit, ConsoleJoined,
      vars, SInv, ConsoleSyncs, deviceVars, consoleVars
<1> QED
  BY <1>1, <1>2, <1>3, <1>4, <1>5, <1>6 DEF Next, Main, Finished

\* As long as the console has executed no other command than request sync, a
\* device whose synced flag is set has its samples within the threshold of the
\* reference.
THEOREM SyncedCorrect == Spec => []SyncedMeansAligned
<1>1. Init => (OnlySyncs => SInv)
  BY InitSInv
<1>2. IInv /\ (OnlySyncs => SInv) /\ [Next]_vars => (OnlySyncs => SInv)'
  BY NextSInv
<1>3. (OnlySyncs => SInv) => SyncedMeansAligned
  BY DEF SInv, AlignInv, SyncedMeansAligned
<1> QED
  BY Invariance, <1>1, <1>2, <1>3, PTL DEF Spec
=============================================================================
