--------------------------- MODULE LifecycleProofs ---------------------------
(***************************************************************************)
(* Proofs about Lifecycle for any number of devices, whichever of them can *)
(* be opened and whenever SIGINT comes.  The invariant LifeInv adds where  *)
(* main is to what the other threads may still do; from it, no thread is   *)
(* at the barrier once main has waited for a packet, so that a step of the *)
(* program is one of StartBarrier until SIGINT during the start makes main *)
(* delete the barrier under the threads that wait there.                   *)
(***************************************************************************)
EXTENDS Lifecycle, StartBarrierProofs, WellFoundedInduction

\* Every thread stays with the devices that were opened.
DevicesKnown ==
  /\ dev \in Participants /\ rdev \in Participants /\ cdev \in Participants
  /\ ctl \in [Devs -> {"test", "call"}]
  /\ final \subseteq Devs

\* What main has done by then.  Before the coherent thread is joined no call can
\* meet a handle or barrier that is gone.
Early    == {"console", "coherent", "loop", "send"}
Stopping == Early \cup {"stop", "exit", "join"}
Closing  == {"close", "delete", "exited"}

MainPlace ==
  /\ at # "console" => mpc = "run"
  /\ at = "console" => coh = "unborn" /\ ~notified /\ ~waited
  /\ at \in Early => stopped = {}
  /\ at \notin Early => exitall
  /\ freed => at \in Closing
  /\ at \in Stopping => closed = {} /\ ~freed /\ stray = {}
  /\ at \in {"stop", "exit"} => \A e \in Participants : e < dev => e \in exiting
  /\ at \notin Early \cup {"stop", "exit"} => Participants \subseteq exiting
  /\ closed \subseteq exiting
  /\ closed \cap opened # {} => at \in Closing
  /\ at \in Stopping \cup Closing \cup {"conexit"}

Streams(d) == tpc[d] = "streaming"

\* A pass has read every device up to the one it is at, and a pass that reaches
\* the last while none is stopped has read them all.
PassesRead ==
  /\ \A d \in final : Streams(d)
  /\ at \in Early /\ coh \in {"read", "wait"} =>
       \A e \in Participants : e < rdev => Streams(e)
  /\ at \in Early /\ notified => \A e \in Participants : Streams(e)
  /\ waited => \A e \in Participants : Streams(e)

\* A control or console thread that is in a call when it is told to end is held,
\* and afterwards none starts a call.
CallsHeld ==
  /\ \A d \in Devs : d \in exiting /\ ctl[d] = "call" => <<"control", d>> \in held
  /\ at \in Closing => conexit
  /\ at \in Closing /\ con = "call" => {"console"} \X opened \subseteq held

LifeInv == DevicesKnown /\ MainPlace /\ PassesRead /\ CallsHeld /\ StartIsOver /\ LateCalls

\* The invariant of the barrier, as long as it serves.
StartInv == StartTypeOK /\ StartedInOrder /\ (BarrierServes => BarrierCounts)

AllInv == StartInv /\ LifeInv

-----------------------------------------------------------------------------
(* The devices are gone through in order.                                  *)

\* After a device comes the least of those that were opened with a higher number.
LEMMA LeastNext ==
  ASSUME StartTypeOK, NEW d \in Participants, After(d) # {}
  PROVE  /\ NextDevice(d) \in opened /\ NextDevice(d) > d
         /\ \A e \in Participants : e < NextDevice(d) => e <= d
<1>1. Participants \subseteq Nat /\ opened \subseteq Nat
  BY DEF StartTypeOK, Participants, Signals, Ref
<1>2. After(d) \subseteq Nat
  BY <1>1 DEF After
<1>3. IsWellFoundedOn(OpToRel(<, Nat), Nat)
  BY NatLessThanWellFounded
<1>4. \E e \in After(d) : \A f \in After(d) : e <= f
  <2> DEFINE Less == OpToRel(<, Nat)
  <2>1. \A e, f \in Nat : <<f, e>> \notin Less => e <= f
    BY DEF OpToRel
  <2>2. IsWellFoundedOn(Less, Nat)
    BY <1>3
  <2> HIDE DEF Less
  <2>3. \E e \in After(d) : \A f \in After(d) : ~ (<<f, e>> \in Less)
    BY <1>2, <2>2, WFMin, Zenon
  <2> QED
    BY <1>2, <2>1, <2>3
<1>5. NextDevice(d) \in After(d) /\ \A f \in After(d) : NextDevice(d) <= f
  BY <1>4 DEF NextDevice
<1>6. d \in Nat
  BY <1>1
<1>7. ASSUME NEW e \in Participants, e < NextDevice(d), e > d PROVE FALSE
  <2>1. e \in opened
    BY <1>1, <1>6, <1>7 DEF Participants, Ref
  <2>2. NextDevice(d) <= e
    BY <1>5, <1>7, <2>1 DEF After
  <2> QED
    BY <1>1, <1>2, <1>5, <1>7, <2>2
<1>8. \A e \in Participants : e < NextDevice(d) => e <= d
  BY <1>1, <1>2, <1>5, <1>6, <1>7
<1> QED
  BY <1>5, <1>8 DEF After

\* The last device comes after all others.
LEMMA LastDevice ==
  ASSUME StartTypeOK, NEW d \in Participants, After(d) = {}
  PROVE  \A e \in Participants : e <= d
BY DEF StartTypeOK, Participants, After, Signals, Ref

\* The participants are devices, and none of them comes before the reference.
LEMMA RefFirst ==
  ASSUME StartTypeOK PROVE Participants \subseteq Devs /\ \A e \in Participants : e >= Ref
BY NumSignalsAssumption DEF StartTypeOK, Participants, Signals, Devs, Ref

-----------------------------------------------------------------------------
(* The invariant.                                                          *)

LEMMA InitLife == Init => LifeInv
BY DEF Init, StartInit, LifeInv, DevicesKnown, MainPlace, PassesRead, CallsHeld, StartIsOver,
       LateCalls, Participants, Early, Stopping, Closing, Devs, Ref

\* The devices known and their threads that stream stay when they do so.
LEMMA StartMainStep == AllInv /\ StartMain /\ UNCHANGED lifeVars => LifeInv'
<1> SUFFICES ASSUME AllInv, StartMain, UNCHANGED lifeVars PROVE LifeInv'
  OBVIOUS
<1> USE DEF AllInv, LifeInv, lifeVars, mainVars, coherentVars, consoleVars, asynchVars
<1>1. mpc # "run"
  BY DEF StartMain, OpenSignal, CreateBarrier, StartDevice
<1>2. at = "console" /\ coh = "unborn" /\ ~notified /\ ~waited /\ closed = {} /\ stray = {}
  BY <1>1 DEF MainPlace, Early, Stopping
<1>3. Participants \subseteq Participants'
  BY DEF StartMain, OpenSignal, CreateBarrier, StartDevice, Participants
<1>4. \A d \in Devs : Streams(d) => Streams(d)'
  BY DEF StartMain, OpenSignal, CreateBarrier, StartDevice, Streams, StartInv, StartedInOrder, StartTypeOK
<1>5. DevicesKnown'
  BY <1>3 DEF DevicesKnown
<1>6. MainPlace'
  BY <1>2 DEF MainPlace, Early, Stopping, Closing
<1>7. PassesRead'
  BY <1>2, <1>4 DEF PassesRead, DevicesKnown
<1>8. CallsHeld' /\ StartIsOver' /\ LateCalls'
  BY <1>2 DEF CallsHeld, StartIsOver, LateCalls, Closing
<1> QED
  BY <1>5, <1>6, <1>7, <1>8

\* A step of an asynch thread.
LEMMA AsynchStep ==
  ASSUME AllInv, NEW d \in Devs, Asynch(d)
  PROVE  LifeInv'
<1> USE DEF AllInv, LifeInv, mainVars, coherentVars, consoleVars, asynchVars, lifeVars, Asynch,
        BarrierGone, AtGate
<1>1. UNCHANGED <<mainVars, coherentVars, consoleVars, ctl, mpc, opened>>
  BY DEF AsynchAtBarrier, AsynchReads, AsynchEnds, startVars, AtBarrier, Last, Arrive, Test,
         SpuriousWakeup, ReadAsync
<1>2. d \in Participants => ~waited \/ AsynchEnds(d)
  BY DEF AsynchAtBarrier, AsynchReads, AtBarrier, Last, Arrive, Test,
         SpuriousWakeup, ReadAsync, PassesRead, Streams
<1>3. d \notin Participants => AsynchEnds(d)
  BY DEF StartInv, StartedInOrder, AsynchAtBarrier, AsynchReads, AtBarrier, Last, Arrive, Test,
         SpuriousWakeup, ReadAsync
<1>4. \A e \in Devs : Streams(e) => Streams(e)'
  BY DEF AsynchAtBarrier, AsynchReads, AsynchEnds, startVars, AtBarrier, Last, Arrive, Test,
         SpuriousWakeup, ReadAsync, Streams, StartInv, StartTypeOK, Asleep
<1>5. /\ stray' \subseteq stray \cup {<<"asynch", d>>}
      /\ AsynchEnds(d) \/ (closed = {} /\ ~freed) => stray' = stray
  BY DEF AsynchAtBarrier, AsynchReads, AsynchEnds, Call
<1>6. final' \subseteq final \cup {d} /\ (final' # final => Streams(d))
  BY DEF AsynchAtBarrier, AsynchReads, AsynchEnds, Active, Streams
<1>7. DevicesKnown'
  BY <1>1, <1>6 DEF DevicesKnown, Participants
<1>8. MainPlace'
  BY <1>1, <1>5 DEF MainPlace, Participants
<1>9. PassesRead'
  <2>1. \A e \in Participants' : e \in Participants /\ (Streams(e) => Streams(e)')
    BY <1>1, <1>4, RefFirst DEF Participants, StartInv
  <2>2. \A e \in final' : Streams(e)'
    BY <1>4, <1>6 DEF PassesRead, DevicesKnown
  <2> QED
    BY <1>1, <2>1, <2>2 DEF PassesRead
<1>10. CallsHeld'
  BY <1>1 DEF CallsHeld
<1>11. StartIsOver'
  BY <1>1, <1>2, <1>3, <1>5 DEF StartIsOver
<1>12. LateCalls'
  BY <1>1, <1>5 DEF LateCalls
<1> QED
  BY <1>7, <1>8, <1>9, <1>10, <1>11, <1>12

\* A step of a control thread.
LEMMA ControlStep == ASSUME AllInv, NEW d \in Devs, Control(d) PROVE LifeInv'
<1> USE DEF AllInv, LifeInv, mainVars, coherentVars, consoleVars, asynchVars, startVars
<1>1. UNCHANGED <<startVars, mainVars, coherentVars, consoleVars, asynchVars>>
  BY DEF Control, SetCorrection, ControlCalls
<1>2. /\ ctl' \in [Devs -> {"test", "call"}]
      /\ \A e \in Devs : ctl'[e] = "call" => ctl[e] = "call" \/ e \notin exiting
  BY DEF Control, SetCorrection, ControlCalls, DevicesKnown
<1>3. /\ stray' \subseteq stray \cup {<<"control", d>>}
      /\ stray' # stray => d \in closed /\ ctl[d] = "call"
  BY DEF Control, SetCorrection, ControlCalls, Call
<1>4. stray' # stray => <<"control", d>> \in held
  BY <1>3 DEF MainPlace, CallsHeld
<1>5. DevicesKnown'
  BY <1>1, <1>2 DEF DevicesKnown, Participants
<1>6. MainPlace'
  BY <1>1, <1>3 DEF MainPlace, Participants
<1>7. PassesRead'
  BY <1>1 DEF PassesRead, Participants, Streams
<1>8. CallsHeld'
  BY <1>1, <1>2 DEF CallsHeld
<1>9. StartIsOver'
  BY <1>1, <1>3 DEF StartIsOver
<1>10. LateCalls'
  BY <1>1, <1>3, <1>4 DEF LateCalls
<1> QED
  BY <1>5, <1>6, <1>7, <1>8, <1>9, <1>10

\* A pass goes on to the next device once it has read this one.
LEMMA ReadNextStep ==
  ASSUME AllInv, ReadNext, coh \in {"read", "wait"}, at \in Early => Streams(rdev),
         UNCHANGED <<startVars, at, waited>>, final' \subseteq final
  PROVE  PassesRead' /\ rdev' \in Participants'
<1> USE DEF AllInv, LifeInv, startVars
<1>1. rdev \in Participants /\ rdev \in Devs
  BY RefFirst DEF DevicesKnown, StartInv
<1>2. Participants' = Participants /\ \A e \in Devs : Streams(e)' = Streams(e)
  BY DEF Participants, Streams
<1>3. Participants \subseteq Devs /\ Participants \subseteq Int
  BY RefFirst, NumSignalsAssumption DEF StartInv, Devs
<1>4. CASE After(rdev) # {}
  <2>1. coh' = "read" /\ rdev' = NextDevice(rdev) /\ notified' = notified
    BY <1>4 DEF ReadNext
  <2>2. rdev' \in opened /\ \A e \in Participants : e < rdev' => e <= rdev
    BY <1>1, <1>4, <2>1, LeastNext DEF StartInv
  <2>3. at \in Early => \A e \in Participants : e < rdev' => Streams(e)
    BY <1>1, <1>3, <2>2 DEF PassesRead
  <2> QED
    BY <1>2, <1>3, <2>1, <2>2, <2>3 DEF PassesRead, Participants, DevicesKnown
<1>5. CASE After(rdev) = {}
  <2>1. coh' = "top" /\ rdev' = Ref
    BY <1>5 DEF ReadNext
  <2>2. at \in Early => \A e \in Participants : Streams(e)
    BY <1>1, <1>3, <1>5, LastDevice DEF PassesRead, StartInv
  <2> QED
    BY <1>2, <1>3, <2>1, <2>2 DEF PassesRead, Participants, DevicesKnown
<1> QED
  BY <1>4, <1>5

\* A step of the coherent thread.
LEMMA CoherentStep == AllInv /\ Coherent => LifeInv'
<1> SUFFICES ASSUME AllInv, Coherent PROVE LifeInv'
  OBVIOUS
<1> USE DEF AllInv, LifeInv, mainVars, consoleVars, startVars
<1>1. /\ UNCHANGED <<startVars, mainVars, consoleVars, coexit, ctl, over, stray>>
      /\ final' \subseteq final /\ coh # "unborn"
  BY DEF Coherent, CoherentTop, CoherentRead, CoherentWakes, asynchVars
<1>2. PassesRead' /\ rdev' \in Participants'
  <2>1. CASE CoherentTop
    <3>1. rdev' = Ref /\ notified' = notified /\ final' = final
      BY <2>1 DEF CoherentTop, asynchVars
    <3> QED
      BY <1>1, <3>1, RefFirst DEF PassesRead, Participants, Streams, StartInv, Ref, Devs
  <2>2. CASE CoherentRead /\ rdev \in stopped
    <3>1. ReadNext /\ coh = "read" /\ at \notin Early
      BY <2>2 DEF CoherentRead, MainPlace
    <3> QED
      BY <1>1, <3>1, ReadNextStep
  <2>3. CASE CoherentRead /\ rdev \notin stopped
    <3>1. coh = "read" /\ rdev' = rdev /\ notified' = notified /\ final' = final
      BY <2>3 DEF CoherentRead, asynchVars
    <3> QED
      BY <1>1, <3>1 DEF PassesRead, Participants, Streams, DevicesKnown
  <2>4. CASE CoherentWakes
    <3>1. ReadNext /\ coh = "wait" /\ Streams(rdev)
      BY <2>4 DEF CoherentWakes, Active, PassesRead, Streams
    <3> QED
      BY <1>1, <3>1, ReadNextStep
  <2> QED
    BY <2>1, <2>2, <2>3, <2>4 DEF Coherent
<1>3. DevicesKnown'
  BY <1>1, <1>2 DEF DevicesKnown, Participants
<1>4. MainPlace'
  BY <1>1 DEF MainPlace, Participants
<1>5. CallsHeld' /\ StartIsOver' /\ LateCalls'
  BY <1>1 DEF CallsHeld, StartIsOver, LateCalls
<1> QED
  BY <1>2, <1>3, <1>4, <1>5

\* A step of the console thread.
LEMMA ConsoleStep == AllInv /\ Console => LifeInv'
<1> SUFFICES ASSUME AllInv, Console PROVE LifeInv'
  OBVIOUS
<1> USE DEF AllInv, LifeInv, mainVars, coherentVars, consoleVars, asynchVars, startVars
<1>1. /\ UNCHANGED <<startVars, coherentVars, ctl, asynchVars>>
      /\ UNCHANGED <<at, dev, stopped, exiting, closed, freed, waited, held>>
  BY DEF Console, ConsoleEnds, ConsoleCommand, ConsoleQuit, ConsoleCalls, ConsoleLag,
         ConsoleLagArrives
<1>2. cdev' \in Participants
  BY LeastNext DEF Console, ConsoleEnds, ConsoleCommand, ConsoleQuit, ConsoleCalls,
     ConsoleLag, ConsoleLagArrives, DevicesKnown, StartInv, Participants
<1>3. /\ conexit => conexit'
      /\ exitall => exitall'
      /\ con' = "call" => con = "call" \/ ~conexit
  BY DEF Console, ConsoleEnds, ConsoleCommand, ConsoleQuit, ConsoleCalls, ConsoleLag,
         ConsoleLagArrives
<1>4. /\ stray' \subseteq stray \cup {<<"console", cdev>>}
      /\ stray' # stray => con = "call" /\ cdev \in closed
  BY DEF Console, ConsoleEnds, ConsoleCommand, ConsoleQuit, ConsoleCalls, ConsoleLag,
         ConsoleLagArrives, Call
<1>5. stray' # stray /\ cdev \in opened => <<"console", cdev>> \in held
  BY <1>4 DEF MainPlace, CallsHeld
<1>6. DevicesKnown'
  BY <1>1, <1>2 DEF DevicesKnown, Participants
<1>7. MainPlace'
  BY <1>1, <1>3, <1>4 DEF MainPlace, Participants
<1>8. PassesRead'
  BY <1>1 DEF PassesRead, Participants, Streams
<1>9. CallsHeld'
  BY <1>1, <1>3 DEF CallsHeld
<1>10. StartIsOver'
  BY <1>1, <1>4 DEF StartIsOver
<1>11. LateCalls'
  BY <1>1, <1>4, <1>5 DEF LateCalls
<1> QED
  BY <1>6, <1>7, <1>8, <1>9, <1>10, <1>11

-----------------------------------------------------------------------------
(* The steps of main.                                                      *)

\* What no step of main changes, and what keeps when nothing else does.
LEMMA MainKeeps ==
  ASSUME AllInv, Others
  PROVE  /\ Participants' = Participants /\ \A e \in Devs : Streams(e)' = Streams(e)
         /\ dev' \in Participants => DevicesKnown'
         /\ UNCHANGED <<waited, held>> => StartIsOver' /\ LateCalls'
BY DEF AllInv, LifeInv, Others, startVars, asynchVars, Participants, Streams, DevicesKnown,
       StartIsOver, LateCalls

\* The console and coherent threads are created, and main asks for exit_all.
LEMMA BeginStep == AllInv /\ (StartConsole \/ StartCoherent \/ LoopTop) => LifeInv'
<1> SUFFICES ASSUME AllInv, StartConsole \/ StartCoherent \/ LoopTop PROVE LifeInv'
  OBVIOUS
<1> USE DEF AllInv, LifeInv, StartConsole, StartCoherent, LoopTop, Shutdown
<1>1. Others /\ UNCHANGED <<stopped, exiting, closed, freed, held, waited, notified, conexit>>
  OBVIOUS
<1>2. DevicesKnown' /\ StartIsOver' /\ LateCalls'
  BY <1>1, MainKeeps DEF DevicesKnown, Participants
<1>3. MainPlace'
  BY <1>1 DEF MainPlace, Others, startVars, Participants, Early, Stopping, Closing, Started, StartInv,
              StartTypeOK, Signals, Devs, Ref
<1>4. PassesRead'
  BY <1>1 DEF PassesRead, MainPlace, Others, startVars, asynchVars, Participants, Streams, Early
<1>5. CallsHeld'
  BY <1>1 DEF CallsHeld, Others, Closing
<1> QED
  BY <1>2, <1>3, <1>4, <1>5

\* send() waited for a pass, so every device streams.
LEMMA SendStep == AllInv /\ Send => LifeInv'
<1> SUFFICES ASSUME AllInv, Send PROVE LifeInv'
  OBVIOUS
<1> USE DEF AllInv, LifeInv, Send
<1>1. Others /\ UNCHANGED <<dev, stopped, exiting, closed, freed, held, con, conexit, coh>>
  OBVIOUS
<1>2. \A e \in Participants : Streams(e)
  BY DEF PassesRead, Early
<1>3. stray = {} /\ stray' = {}
  BY <1>1 DEF MainPlace, Others, Early, Stopping
<1>4. DevicesKnown' /\ StartIsOver' /\ LateCalls'
  BY <1>1, <1>3, MainKeeps DEF DevicesKnown, StartIsOver, LateCalls
<1>5. MainPlace'
  BY <1>1 DEF MainPlace, Others, startVars, Participants, Early, Stopping, Closing
<1>6. PassesRead'
  BY <1>1, <1>2, MainKeeps, RefFirst DEF PassesRead, Others, startVars, asynchVars, Participants,
     Streams, Early, StartInv
<1>7. CallsHeld'
  BY <1>1 DEF CallsHeld, Others, Closing
<1> QED
  BY <1>4, <1>5, <1>6, <1>7

\* A device is stopped ...
LEMMA StopStep == AllInv /\ StopDevice => LifeInv'
<1> SUFFICES ASSUME AllInv, StopDevice PROVE LifeInv'
  OBVIOUS
<1> USE DEF AllInv, LifeInv, StopDevice, Shutdown
<1>1. DevicesKnown' /\ StartIsOver' /\ LateCalls'
  BY MainKeeps DEF DevicesKnown
<1>2. MainPlace'
  BY DEF MainPlace, Others, startVars, Participants, Early, Stopping, Closing
<1>3. PassesRead'
  BY DEF PassesRead, Others, startVars, asynchVars, Participants, Streams, Early
<1>4. CallsHeld'
  BY DEF CallsHeld, Others, Closing
<1> QED
  BY <1>1, <1>2, <1>3, <1>4

\* ... and told to end; a control thread that is in a call then is held.
LEMMA ExitStep == AllInv /\ ExitDevice => LifeInv'
<1> SUFFICES ASSUME AllInv, ExitDevice PROVE LifeInv'
  OBVIOUS
<1> USE DEF AllInv, LifeInv, ExitDevice, Shutdown
<1>1. dev \in Participants /\ Participants \subseteq Devs /\ Participants \subseteq Int
  BY RefFirst, NumSignalsAssumption DEF DevicesKnown, StartInv, Devs
<1>2. \A e \in Participants : e <= dev => e \in exiting'
  BY <1>1 DEF MainPlace
<1>3. /\ dev' \in Participants
      /\ at' = "stop" => \A e \in Participants : e < dev' => e \in exiting'
      /\ at' = "join" => Participants \subseteq exiting'
      /\ at' \in {"stop", "join"}
  <2>1. CASE After(dev) # {}
    BY <1>1, <1>2, <2>1, LeastNext DEF StartInv, Participants
  <2>2. CASE After(dev) = {}
    BY <1>1, <1>2, <2>2, LastDevice DEF StartInv
  <2> QED
    BY <2>1, <2>2
<1>4. DevicesKnown' /\ StartIsOver' /\ LateCalls'
  BY <1>3, MainKeeps DEF LateCalls, StartIsOver, Others, startVars
<1>5. MainPlace'
  BY <1>3 DEF MainPlace, Others, startVars, Participants, Early, Stopping, Closing
<1>6. PassesRead'
  BY <1>3 DEF PassesRead, Others, startVars, asynchVars, Participants, Streams, Early
<1>7. CallsHeld'
  BY <1>1, <1>3 DEF CallsHeld, Others, Closing, DevicesKnown
<1> QED
  BY <1>4, <1>5, <1>6, <1>7

\* The devices are closed when all of them were told to end, the console before
\* the signal devices.
LEMMA CloseStep ==
  AllInv /\ (CloseReference \/ ExitConsole \/ CloseSignal \/ DeleteReference) => LifeInv'
<1> SUFFICES ASSUME AllInv, CloseReference \/ ExitConsole \/ CloseSignal \/ DeleteReference
             PROVE  LifeInv'
  OBVIOUS
<1> USE DEF AllInv, LifeInv, Shutdown
<1>1. /\ Others /\ UNCHANGED <<dev, stopped, exiting, waited, con, coh, notified>>
      /\ held \subseteq held' /\ (conexit => conexit')
  BY DEF CloseReference, ExitConsole, CloseSignal, DeleteReference
<1>2. at \in {"join", "conexit"} \cup Closing /\ at' \in {"conexit"} \cup Closing
  BY DEF CloseReference, ExitConsole, CloseSignal, DeleteReference, Closing
<1>3. /\ at' = "conexit" => closed' = {Ref}
      /\ closed' \subseteq closed \cup Participants
  BY DEF CloseReference, ExitConsole, CloseSignal, DeleteReference, Participants,
         Closing
<1>4. Ref \notin opened
  BY DEF StartInv, StartTypeOK, Signals, Ref
<1>5. DevicesKnown'
  BY <1>1, MainKeeps DEF DevicesKnown
<1>6. StartIsOver' /\ LateCalls'
  BY <1>1 DEF StartIsOver, LateCalls, Others, startVars
<1>7. MainPlace'
  <2>0. UNCHANGED <<exitall, freed>> /\ (at \in Closing => at' \in Closing)
    BY DEF CloseReference, ExitConsole, CloseSignal, DeleteReference, Closing
  <2>1. Participants \subseteq exiting /\ mpc = "run"
    BY <1>2 DEF MainPlace, Early, Closing
  <2>2. closed' \cap opened' # {} => at' \in Closing
    BY <1>1, <1>2, <1>3, <1>4 DEF Others, startVars
  <2> QED
    BY <1>1, <1>2, <1>3, <2>0, <2>1, <2>2
       DEF MainPlace, Others, startVars, Participants, Early, Stopping, Closing
<1>8. PassesRead'
  BY <1>1, <1>2 DEF PassesRead, Others, startVars, asynchVars, Participants, Streams, Early, Closing
<1>9. CallsHeld'
  <2>1. CASE ExitConsole
    BY <1>1, <2>1 DEF ExitConsole, CallsHeld, Others, startVars, Closing
  <2>2. CASE ~ExitConsole
    <3>1. at' \in Closing => at \in Closing
      BY <2>2 DEF CloseReference, CloseSignal, DeleteReference, Closing
    <3> QED
      BY <1>1, <3>1 DEF CallsHeld, Others, startVars
  <2> QED
    BY <2>1, <2>2
<1> QED
  BY <1>5, <1>6, <1>7, <1>8, <1>9

\* The barrier is deleted under the threads that wait in it, of which there are
\* none once main has waited for a packet.
LEMMA DeleteStep == AllInv /\ DeleteBarrier => LifeInv'
<1> SUFFICES ASSUME AllInv, DeleteBarrier PROVE LifeInv'
  OBVIOUS
<1> USE DEF AllInv, LifeInv, DeleteBarrier, Shutdown
<1>1. /\ UNCHANGED <<startVars, rdev, cdev, ctl, asynchVars, exitall, waited>>
      /\ UNCHANGED <<dev, stopped, exiting, closed, held, con, conexit, coh, coexit, notified>>
  OBVIOUS
<1>2. /\ at \in Closing /\ at' \in Closing /\ at' = "delete"
      /\ Participants' = Participants
  BY DEF Closing, startVars, Participants
<1>3. stray' = stray \cup {<<"asynch", d>> : d \in {e \in Devs : tpc[e] \in {"asleep", "awake"}}}
  OBVIOUS
<1>4. waited => \A d \in Devs : tpc[d] \notin {"asleep", "awake"}
  BY DEF PassesRead, Streams, StartInv, StartedInOrder
<1>5. DevicesKnown' /\ CallsHeld'
  BY <1>1, <1>2 DEF DevicesKnown, CallsHeld, startVars, asynchVars
<1>6. MainPlace'
  BY <1>1, <1>2 DEF MainPlace, startVars, Early, Stopping, Closing
<1>7. PassesRead'
  BY <1>1, <1>2 DEF PassesRead, startVars, asynchVars, Streams, Early, Closing
<1>8. StartIsOver'
  <2>1. ASSUME waited PROVE stray' = stray
    <3>1. {e \in Devs : tpc[e] \in {"asleep", "awake"}} = {}
      BY <1>4, <2>1
    <3> HIDE DEF DeleteBarrier
    <3> QED
      BY <1>3, <3>1
  <2>2. waited' = waited /\ StartIsOver
    BY <1>1
  <2> HIDE DEF DeleteBarrier, AllInv, LifeInv
  <2> QED
    BY <2>1, <2>2 DEF StartIsOver
<1>9. LateCalls'
  BY <1>1, <1>3 DEF LateCalls, startVars
<1> QED
  BY <1>5, <1>6, <1>7, <1>8, <1>9

-----------------------------------------------------------------------------
(* The theorems.                                                           *)

LEMMA IdleStep == AllInv /\ (Interrupt \/ UNCHANGED vars) => LifeInv'
BY DEF AllInv, LifeInv, Interrupt, vars, lifeVars, startVars, mainVars, coherentVars, consoleVars,
       asynchVars, DevicesKnown, MainPlace, PassesRead, CallsHeld, StartIsOver, LateCalls,
       Participants, Streams

LEMMA NextLifeInv == AllInv /\ [Next]_vars => LifeInv'
<1> SUFFICES ASSUME AllInv, [Next]_vars PROVE LifeInv'
  OBVIOUS
<1>2. ASSUME NEW d \in Devs, Asynch(d) \/ Control(d) PROVE LifeInv'
  BY <1>2, AsynchStep, ControlStep
<1>3. CASE StartMain /\ UNCHANGED lifeVars
  BY <1>3, StartMainStep
<1>4. CASE Coherent \/ Console
  BY <1>4, CoherentStep, ConsoleStep
<1>5. CASE Main
  BY <1>5, BeginStep, SendStep, StopStep, ExitStep, CloseStep, DeleteStep DEF Main
<1>6. CASE Interrupt \/ UNCHANGED vars
  BY <1>6, IdleStep
<1> QED
  BY <1>2, <1>3, <1>4, <1>5, <1>6 DEF Next, Exited

\* What the steps of main and of all but the asynch threads leave alone.
LEMMA StartUntouched ==
  Coherent \/ Console \/ Main \/ Interrupt \/ UNCHANGED vars
    \/ (\E d \in Devs : Control(d) \/ AsynchEnds(d)) => UNCHANGED startVars
<1>1. Coherent \/ Console \/ Interrupt => UNCHANGED startVars
  BY DEF Coherent, CoherentTop, CoherentRead, CoherentWakes, Console, ConsoleEnds,
         ConsoleCommand, ConsoleQuit, ConsoleCalls, ConsoleLag, ConsoleLagArrives, Interrupt
<1>2. Main => UNCHANGED startVars
  BY DEF Main, StartConsole, StartCoherent, LoopTop, Send, StopDevice, ExitDevice,
         CloseReference, ExitConsole, CloseSignal, DeleteBarrier, DeleteReference, Others
<1>3. ASSUME NEW d \in Devs, Control(d) \/ AsynchEnds(d) PROVE UNCHANGED startVars
  BY <1>3 DEF Control, SetCorrection, ControlCalls, AsynchEnds
<1>4. UNCHANGED vars => UNCHANGED startVars
  BY DEF vars
<1> QED
  BY <1>1, <1>2, <1>3, <1>4

\* While the barrier serves, a step is one of StartBarrier: nobody is at a barrier
\* that is deleted, since every device has streamed for main's first packet.
LEMMA Implements ==
  AllInv /\ BarrierServes /\ [Next]_vars => [StartNext]_startVars
<1> SUFFICES ASSUME AllInv, BarrierServes, [Next]_vars PROVE [StartNext]_startVars
  OBVIOUS
<1>1. ASSUME NEW d \in Devs PROVE ~BarrierGone(d)
  <2> SUFFICES ASSUME BarrierGone(d) PROVE FALSE
    OBVIOUS
  <2>1. waited /\ AtGate(d)
    BY DEF BarrierGone, BarrierServes
  <2>2. d \in Participants
    BY <2>1 DEF AllInv, StartInv, StartedInOrder, AtGate
  <2> QED
    BY <2>1, <2>2 DEF AllInv, LifeInv, PassesRead, Streams, AtGate
<1>2. ASSUME NEW d \in Devs, AsynchAtBarrier(d) \/ AsynchReads(d) PROVE StartNext
  BY <1>2 DEF AsynchAtBarrier, AsynchReads, StartNext
<1>3. StartMain => StartNext
  BY DEF StartNext
<1> QED
  BY <1>1, <1>2, <1>3, StartUntouched DEF Next, Exited, Asynch

\* The barrier serves again only if it never ceased to.
LEMMA ServesBefore == AllInv /\ [Next]_vars /\ BarrierServes' => BarrierServes
<1> SUFFICES ASSUME AllInv, [Next]_vars, freed PROVE freed' /\ waited' = waited
  BY DEF BarrierServes
<1> USE DEF mainVars, coherentVars, consoleVars, asynchVars, lifeVars
<1>0. at \in Closing
  BY DEF AllInv, LifeInv, MainPlace
<1>1. ASSUME NEW d \in Devs, Asynch(d) \/ Control(d) PROVE UNCHANGED <<freed, waited>>
  BY <1>1 DEF Asynch, AsynchAtBarrier, BarrierGone, AsynchReads, AsynchEnds, Control,
              SetCorrection, ControlCalls
<1>2. Coherent \/ Console \/ Interrupt => UNCHANGED <<freed, waited>>
  BY DEF Coherent, CoherentTop, CoherentRead, CoherentWakes, Console, ConsoleEnds,
         ConsoleCommand, ConsoleQuit, ConsoleCalls, ConsoleLag, ConsoleLagArrives, Interrupt
<1>3. Main => freed' /\ waited' = waited
  BY <1>0 DEF Main, StartConsole, StartCoherent, LoopTop, Send, StopDevice, ExitDevice, Shutdown,
              CloseReference, ExitConsole, CloseSignal, DeleteBarrier, DeleteReference, Closing
<1>4. UNCHANGED vars \/ UNCHANGED lifeVars => UNCHANGED <<freed, waited>>
  BY DEF vars
<1> QED
  BY <1>1, <1>2, <1>3, <1>4 DEF Next, Exited

\* The barrier keeps its invariant while it serves; what is known of the threads
\* and the devices holds after it is deleted too.
LEMMA NextStartInv == AllInv /\ [Next]_vars => StartInv'
<1> SUFFICES ASSUME AllInv, [Next]_vars PROVE StartInv'
  OBVIOUS
<1>1. CASE BarrierServes
  <2>1. IInv
    BY <1>1 DEF AllInv, StartInv, IInv
  <2> QED
    BY <1>1, <2>1, Implements, NextIInv DEF IInv, StartInv
<1>2. CASE ~BarrierServes
  <2>1. ~BarrierServes'
    BY <1>2, ServesBefore
  <2>2. mpc = "run" /\ freed
    BY <1>2 DEF BarrierServes, AllInv, LifeInv, MainPlace, Closing
  <2>3. CASE UNCHANGED startVars
    BY <2>1, <2>3 DEF AllInv, StartInv, startVars, StartTypeOK, StartedInOrder, Participants
  <2>4. ASSUME NEW d \in Devs, BarrierGone(d) \/ AsynchReads(d) PROVE StartInv'
    <3>1. PICK s \in {"asleep", "reset", "streaming"} : tpc' = [tpc EXCEPT ![d] = s]
      BY <2>4 DEF BarrierGone, AsynchReads, ReadAsync
    <3>2. UNCHANGED <<mpc, next, opened, cnt>> /\ tpc[d] # "unborn"
      BY <2>4 DEF BarrierGone, AsynchReads, ReadAsync, AtGate
    <3> QED
      BY <2>1, <2>2, <3>1, <3>2 DEF AllInv, StartInv, StartTypeOK, StartedInOrder, Participants
  <2>5. ~StartMain /\ \A d \in Devs : ~AsynchAtBarrier(d)
    BY <2>2 DEF StartMain, OpenSignal, CreateBarrier, StartDevice, AsynchAtBarrier
  <2> QED
    BY <2>3, <2>4, <2>5, StartUntouched DEF Next, Exited, Asynch
<1> QED
  BY <1>1, <1>2

\* Every step keeps the invariant.
LEMMA NextLife == AllInv /\ [Next]_vars => AllInv'
BY NextLifeInv, NextStartInv DEF AllInv

LEMMA LifeInvariance == Spec => []AllInv
<1>1. Init => AllInv
  BY InitLife, InitIInv DEF Init, AllInv, StartInv, IInv
<1> QED
  BY <1>1, NextLife, PTL DEF Spec

-----------------------------------------------------------------------------
(* What StartBarrier promises, in the whole program.                       *)

\* SIGINT and quit come after main's first packet, or not at all.
AfterFirstPacket == exitall => waited

\* For any number of devices, a program that is not told to end during its start
\* implements StartBarrier to its end: main deletes the barrier when nobody can
\* come to it any more (main.cc:403-445).
THEOREM Implementation == Spec /\ []AfterFirstPacket => StartSpec
<1>1. Init => StartInit
  BY DEF Init
<1>2. AllInv /\ AfterFirstPacket => BarrierServes
  BY DEF AllInv, LifeInv, MainPlace, AfterFirstPacket, BarrierServes, Early, Closing
<1> QED
  BY <1>1, <1>2, Implements, LifeInvariance, PTL DEF Spec, StartSpec

\* For any number of devices, no device starts before the threads of all have
\* come, as long as the barrier serves.
THEOREM StartCorrect == Spec => []StartTogether
<1>1. AllInv => StartTogether
  BY IInvTogether DEF AllInv, StartInv, IInv, StartTogether
<1> QED
  BY <1>1, LifeInvariance, PTL

AllAwakened == BarrierServes => Awakened

LEMMA NextAllAwakened == AllInv /\ AllAwakened /\ [Next]_vars => AllAwakened'
<1> SUFFICES ASSUME AllInv, AllAwakened, [Next]_vars, BarrierServes' PROVE Awakened'
  BY DEF AllAwakened
<1>1. BarrierServes
  BY ServesBefore
<1> QED
  BY <1>1, Implements, NextAwakened DEF AllInv, StartInv, IInv, AllAwakened

\* Nor does a thread sleep at the barrier once all have come.
THEOREM AwakeningKept == Spec => []NobodySleepsOn
<1>1. Init => AllAwakened
  BY DEF Init, StartInit, AllAwakened, Awakened
<1>2. AllInv /\ AllAwakened => NobodySleepsOn
  <2> SUFFICES ASSUME AllInv, AllAwakened, BarrierServes, mpc # "open", Pending = {}
               PROVE  Asleep = {}
    BY DEF NobodySleepsOn, NobodyLeftAsleep
  <2>1. cnt = 0
    BY FS_EmptySet DEF AllInv, StartInv, BarrierCounts
  <2> QED
    BY <2>1 DEF AllAwakened, Awakened
<1> QED
  BY <1>1, <1>2, LifeInvariance, NextAllAwakened, PTL DEF Spec

\* For any number of devices, once main has waited for a packet no start meets
\* what the shutdown has deleted.
THEOREM StartIsOverCorrect == Spec => []StartIsOver
<1>1. AllInv => StartIsOver
  BY DEF AllInv, LifeInv
<1> QED
  BY LifeInvariance, <1>1, PTL

\* For any number of devices, only a call begun before its thread was told to end
\* meets a closed handle of a signal device.
THEOREM LateCallsCorrect == Spec => []LateCalls
<1>1. AllInv => LateCalls
  BY DEF AllInv, LifeInv
<1> QED
  BY LifeInvariance, <1>1, PTL

-----------------------------------------------------------------------------
(* The coherent thread is not left in a read.                              *)

\* A device is stopped before it is told to end, and told before its transfers
\* end: a wait, which begins on a device that is not stopped, is there before the
\* last delivery.
ReadInv ==
  /\ at = "exit" => dev \in stopped
  /\ exiting \subseteq stopped
  /\ over \subseteq exiting
  /\ LastBlockLeft

LEMMA NextReads == ReadInv /\ [Next]_vars => ReadInv'
<1> SUFFICES ASSUME ReadInv, [Next]_vars PROVE ReadInv'
  OBVIOUS
<1> USE DEF ReadInv, LastBlockLeft, mainVars, coherentVars, consoleVars, asynchVars
<1>1. CASE StartMain /\ UNCHANGED lifeVars
  BY <1>1 DEF lifeVars
<1>2. ASSUME NEW d \in Devs, Asynch(d) \/ Control(d)
      PROVE  ReadInv'
  BY <1>2 DEF Asynch, AsynchAtBarrier, BarrierGone, AsynchReads, AsynchEnds, Control,
         SetCorrection, ControlCalls, lifeVars
<1>3. CASE Coherent
  <2>1. CASE CoherentTop \/ CoherentWakes
    BY <2>1 DEF CoherentTop, CoherentWakes, ReadNext
  <2>2. CASE CoherentRead
    BY <2>2 DEF CoherentRead, ReadNext
  <2> QED
    BY <1>3, <2>1, <2>2 DEF Coherent
<1>4. CASE Console
  BY <1>4 DEF Console, ConsoleEnds, ConsoleCommand, ConsoleQuit, ConsoleCalls, ConsoleLag,
         ConsoleLagArrives
<1>5. CASE Main
  <2> USE DEF Others, Shutdown
  <2>1. CASE StartConsole \/ StartCoherent \/ LoopTop \/ Send
    BY <2>1 DEF StartConsole, StartCoherent, LoopTop, Send
  <2>2. CASE StopDevice \/ ExitDevice
    BY <2>2 DEF StopDevice, ExitDevice
  <2>3. CASE CloseReference \/ ExitConsole \/ CloseSignal \/ DeleteBarrier \/ DeleteReference
    BY <2>3 DEF CloseReference, ExitConsole, CloseSignal, DeleteBarrier, DeleteReference
  <2> QED
    BY <1>5, <2>1, <2>2, <2>3 DEF Main
<1>6. CASE Interrupt \/ UNCHANGED vars
  BY <1>6 DEF Interrupt, vars, lifeVars
<1> QED
  BY <1>1, <1>2, <1>3, <1>4, <1>5, <1>6 DEF Next, Exited

\* For any number of devices the coherent thread never waits for a device that
\* has delivered its last block, whenever SIGINT comes.
THEOREM ReadsReleased == Spec => []LastBlockLeft
<1>1. Init => ReadInv
  BY DEF Init, ReadInv, LastBlockLeft
<1>2. ReadInv => LastBlockLeft
  BY DEF ReadInv
<1> QED
  BY <1>1, <1>2, NextReads, PTL DEF Spec

-----------------------------------------------------------------------------
(* Type correctness.                                                       *)

\* The participants are devices, so that whatever goes through them keeps its type.
LEMMA NextTypes == AllInv /\ AllInv' /\ TypeOK /\ [Next]_vars => TypeOK'
<1> SUFFICES ASSUME AllInv, AllInv', TypeOK, [Next]_vars PROVE TypeOK'
  OBVIOUS
<1> USE DEF mainVars, coherentVars, consoleVars, asynchVars
<1>1. StartTypeOK' /\ (dev' \in Devs /\ rdev' \in Devs /\ cdev' \in Devs)
  <2>1. StartTypeOK'
    BY DEF AllInv, StartInv
  <2>2. Participants' \subseteq Devs
    BY <2>1, NumSignalsAssumption DEF StartTypeOK, Participants, Signals, Devs, Ref
  <2> QED
    BY <2>1, <2>2 DEF AllInv, LifeInv, DevicesKnown
<1>2. ctl' \in [Devs -> {"test", "call"}] /\ final' \subseteq Devs
  BY DEF AllInv, LifeInv, DevicesKnown
<1>3. Participants \subseteq Devs
  BY RefFirst DEF AllInv, StartInv
<1>4. CASE StartMain /\ UNCHANGED lifeVars
  BY <1>1, <1>4 DEF TypeOK, lifeVars
<1>5. ASSUME NEW d \in Devs, Asynch(d) \/ Control(d)
      PROVE  TypeOK'
  BY <1>1, <1>2, <1>5 DEF Asynch, AsynchAtBarrier, BarrierGone, AsynchReads, AsynchEnds, Control,
     SetCorrection, ControlCalls, Call, TypeOK, Threads, lifeVars
<1>6. CASE Coherent
  BY <1>1, <1>2, <1>6 DEF Coherent, CoherentTop, CoherentRead, CoherentWakes, ReadNext, TypeOK
<1>7. CASE Console
  <2> USE DEF TypeOK
  <2>1. CASE ConsoleEnds
    BY <1>1, <2>1 DEF ConsoleEnds
  <2>2. CASE ConsoleCommand
    BY <1>1, <2>2 DEF ConsoleCommand
  <2>3. CASE ConsoleQuit
    BY <1>1, <2>3 DEF ConsoleQuit
  <2>4. CASE ConsoleCalls
    <3>1. stray' \subseteq Threads \X Devs /\ con' \in {"top", "call"}
      BY <2>4 DEF ConsoleCalls, Call, Threads
    <3> QED
      BY <1>1, <2>4, <3>1 DEF ConsoleCalls
  <2>5. CASE ConsoleLag \/ ConsoleLagArrives
    BY <1>1, <2>5 DEF ConsoleLag, ConsoleLagArrives
  <2> QED
    BY <1>7, <2>1, <2>2, <2>3, <2>4, <2>5 DEF Console
<1>8. CASE Main
  <2> USE DEF Others, Shutdown, TypeOK
  <2>1. CASE StartConsole \/ StartCoherent \/ LoopTop \/ Send \/ StopDevice
    BY <1>1, <2>1 DEF StartConsole, StartCoherent, LoopTop, Send, StopDevice
  <2>2. CASE ExitDevice
    <3>1. /\ held' \subseteq Threads \X Devs /\ exiting' \subseteq Devs
          /\ at' \in {"stop", "join"}
      BY <2>2 DEF ExitDevice, Threads
    <3>2. coexit' \in BOOLEAN
      BY <2>2 DEF ExitDevice
    <3> HIDE DEF Others, Shutdown
    <3>3. UNCHANGED <<stopped, closed, freed, con, conexit, coh, notified>>
          /\ UNCHANGED <<exitall, waited, over, final>> /\ stray' = stray
      BY <2>2 DEF ExitDevice, Others, Shutdown
    <3> QED
      BY <1>1, <1>2, <3>1, <3>2, <3>3
  <2>3. CASE CloseReference \/ CloseSignal
    <3>1. closed' \subseteq Devs
      BY <1>3, <2>3 DEF CloseReference, CloseSignal, Participants
    <3> QED
      BY <1>1, <2>3, <3>1 DEF CloseReference, CloseSignal
  <2>5. CASE DeleteReference
    BY <1>1, <2>5 DEF DeleteReference
  <2>6. CASE DeleteBarrier
    <3>1. stray' \subseteq Threads \X Devs
      BY <2>6 DEF DeleteBarrier, Threads
    <3> QED
      BY <1>1, <2>6, <3>1 DEF DeleteBarrier
  <2>4. CASE ExitConsole
    BY <1>1, <1>3, <2>4 DEF ExitConsole, Threads, Participants
  <2> QED
    BY <1>8, <2>1, <2>2, <2>3, <2>4, <2>5, <2>6 DEF Main
<1>9. CASE Interrupt \/ UNCHANGED vars
  BY <1>1, <1>9 DEF Interrupt, vars, lifeVars, TypeOK
<1> QED
  BY <1>4, <1>5, <1>6, <1>7, <1>8, <1>9 DEF Next, Exited

\* For any number of devices, every variable of the program keeps its type.
THEOREM LifeTypeCorrect == Spec => []TypeOK
<1>1. Init => TypeOK
  <2>1. Init => StartTypeOK
    BY InitIInv DEF Init, IInv
  <2>2. Init => ctl \in [Devs -> {"test", "call"}] /\ Ref \in Devs
    BY NumSignalsAssumption DEF Init, Devs, Ref
  <2>3. Init => {exitall, freed, coexit, notified, conexit, waited} \subseteq BOOLEAN
    BY Zenon DEF Init
  <2> QED
    BY <2>1, <2>2, <2>3 DEF Init, TypeOK
<1> QED
  BY <1>1, LifeInvariance, NextTypes, PTL DEF Spec
=============================================================================
