------------------------------ MODULE Lifecycle ------------------------------
(***************************************************************************)
(* The life of the devices from their start to the end of the program.     *)
(* After module StartBarrier, main creates the console and the coherent    *)
(* thread and sends packets until SIGINT; then it stops the devices, joins *)
(* the coherent thread, closes the devices, joins the console thread and   *)
(* deletes what it holds, while asynch, control and console threads may    *)
(* still call librtlsdr.                                                   *)
(*                                                                         *)
(* A pass of the coherent thread is a read() of each device (modules       *)
(* Coherent and SampleRing have the counters), a send() waits for one pass *)
(* (module Transport), a command of the console calls librtlsdr for the    *)
(* reference or for every device or waits for their lags, and a control    *)
(* thread calls librtlsdr whenever it likes (module TimeSync).             *)
(***************************************************************************)
EXTENDS StartBarrier

VARIABLES
  at,         \* where main is after the start
  dev,        \* the device it stops or closes
  exitall,    \* exit_all
  stopped,    \* devices whose streaming is false again
  exiting,    \* csdrdevice::do_exit
  over,       \* devices whose read_async has returned
  final,      \* those of them whose last delivery was not read yet
  closed,     \* devices whose handle is closed
  freed,      \* the start barrier is deleted
  coh,        \* the coherent thread: "unborn", "top", "read", "wait" or "done"
  rdev,       \* the device it reads
  coexit,     \* ccoherent::do_exit
  notified,   \* bufferfilled
  con,        \* the console thread: "unborn", "top", "call", "lag" or "done"
  cdev,       \* the device of its command
  conexit,    \* cconsole::do_exit
  ctl,        \* the control threads: "test" or "call"
  waited,     \* ghost: main has waited for a packet
  held,       \* ghost: threads in a call when they were told to end
  stray       \* ghost: calls with a handle or barrier that is gone

mainVars     == <<at, dev, exitall, stopped, exiting, closed, freed, waited, held>>
coherentVars == <<coh, rdev, coexit, notified>>
consoleVars  == <<con, cdev, conexit>>
asynchVars   == <<over, final>>
lifeVars     == <<mainVars, coherentVars, consoleVars, asynchVars, ctl, stray>>
vars         == <<startVars, lifeVars>>

Init ==
  /\ StartInit
  /\ at = "console" /\ dev = Ref /\ exitall = FALSE
  /\ stopped = {} /\ exiting = {} /\ over = {} /\ final = {} /\ closed = {} /\ freed = FALSE
  /\ coh = "unborn" /\ rdev = Ref /\ coexit = FALSE /\ notified = FALSE
  /\ con = "unborn" /\ cdev = Ref /\ conexit = FALSE
  /\ ctl = [d \in Devs |-> "test"]
  /\ waited = FALSE /\ held = {} /\ stray = {}

\* The devices that main, the coherent thread and the console go through after d.
After(d) == {e \in opened : e > d}
NextDevice(d) == CHOOSE e \in After(d) : \A f \in After(d) : e <= f

\* A call for device d by thread w.
Call(w, d) == stray' = IF d \in closed THEN stray \cup {<<w, d>>} ELSE stray

-----------------------------------------------------------------------------
(* The asynch threads.                                                     *)

AsynchAtBarrier(d) ==
  /\ ~freed /\ AtBarrier(d)
  /\ UNCHANGED lifeVars

AtGate(d) == tpc[d] \in {"arrive", "asleep", "awake"}

\* A thread that comes to the barrier or is in it when it is deleted may pass or
\* sleep for ever, whatever the others do.
BarrierGone(d) ==
  /\ freed /\ AtGate(d)
  /\ \E s \in {"asleep", "reset"} : tpc' = [tpc EXCEPT ![d] = s]
  /\ stray' = stray \cup {<<"asynch", d>>}
  /\ UNCHANGED <<mpc, next, opened, cnt>>
  /\ UNCHANGED <<mainVars, coherentVars, consoleVars, ctl, asynchVars>>

AsynchReads(d) ==
  /\ ReadAsync(d)
  /\ Call("asynch", d)
  /\ UNCHANGED <<mainVars, coherentVars, consoleVars, ctl, asynchVars>>

\* A transfer is going on: until then rtlsdr_close() waits.
Active(d) == tpc[d] = "streaming" /\ d \notin over

\* The callback sees do_exit, cancels the transfers and delivers; read_async
\* returns.
AsynchEnds(d) ==
  /\ Active(d) /\ d \in exiting
  /\ over' = over \cup {d}
  /\ final' = final \cup {d}
  /\ UNCHANGED <<startVars, mainVars, coherentVars, consoleVars, ctl, stray>>

Asynch(d) == AsynchAtBarrier(d) \/ BarrierGone(d) \/ AsynchReads(d) \/ AsynchEnds(d)

-----------------------------------------------------------------------------
(* The control threads of the signal devices.                              *)

\* Mutant: set_correction_f() does not look at do_exit.
SetCorrectionAnyway(d) ==
  /\ d \in opened /\ tpc[d] # "unborn"
  /\ ctl[d] = "test" /\ ctl' = [ctl EXCEPT ![d] = "call"]
  /\ UNCHANGED <<startVars, mainVars, coherentVars, consoleVars, asynchVars, stray>>

\* set_correction_f() tests the do_exit of the device.
SetCorrection(d) ==
  /\ d \in opened /\ tpc[d] # "unborn"
  /\ ctl[d] = "test" /\ d \notin exiting
  /\ ctl' = [ctl EXCEPT ![d] = "call"]
  /\ UNCHANGED <<startVars, mainVars, coherentVars, consoleVars, asynchVars, stray>>

\* rtlsdr_set_sample_freq_correction_f()
ControlCalls(d) ==
  /\ ctl[d] = "call"
  /\ Call("control", d)
  /\ ctl' = [ctl EXCEPT ![d] = "test"]
  /\ UNCHANGED <<startVars, mainVars, coherentVars, consoleVars, asynchVars>>

Control(d) == SetCorrection(d) \/ ControlCalls(d)

-----------------------------------------------------------------------------
(* The coherent thread.                                                    *)

CoherentTop ==
  /\ coh = "top"
  /\ coh' = IF coexit THEN "done" ELSE "read"
  /\ rdev' = Ref
  /\ UNCHANGED <<startVars, mainVars, consoleVars, coexit, notified, ctl, asynchVars, stray>>

\* The next device; after the last one notifysend().
ReadNext ==
  IF After(rdev) # {} THEN coh' = "read" /\ rdev' = NextDevice(rdev) /\ UNCHANGED notified
                      ELSE coh' = "top" /\ rdev' = Ref /\ notified' = TRUE

\* read() returns at once when streaming is false.
CoherentRead ==
  /\ coh = "read"
  /\ IF rdev \in stopped THEN ReadNext
                         ELSE coh' = "wait" /\ UNCHANGED <<rdev, notified>>
  /\ UNCHANGED <<startVars, mainVars, consoleVars, coexit, ctl, asynchVars, stray>>

\* A device that streams delivers.
CoherentWakes ==
  /\ coh = "wait" /\ (Active(rdev) \/ rdev \in final)
  /\ ReadNext
  /\ final' = final \ {rdev}
  /\ UNCHANGED <<startVars, mainVars, consoleVars, coexit, ctl, over, stray>>

Coherent == CoherentTop \/ CoherentRead \/ CoherentWakes

-----------------------------------------------------------------------------
(* The console thread.                                                     *)

\* The loop is left when do_exit is set; then the thread raises SIGINT.
ConsoleEnds ==
  /\ con = "top" /\ conexit
  /\ con' = "done" /\ exitall' = TRUE
  /\ UNCHANGED <<at, dev, stopped, exiting, closed, freed, waited, held>>
  /\ UNCHANGED <<startVars, coherentVars, cdev, conexit, ctl, asynchVars, stray>>

\* A command is popped and do_exit is tested again: it is one for the devices ...
ConsoleCommand ==
  /\ con = "top" /\ ~conexit
  /\ con' = "call" /\ cdev' = Ref
  /\ UNCHANGED <<startVars, mainVars, coherentVars, conexit, ctl, asynchVars, stray>>

\* ... or quit.
ConsoleQuit ==
  /\ con = "top" /\ ~conexit
  /\ conexit' = TRUE
  /\ UNCHANGED <<startVars, mainVars, coherentVars, con, cdev, ctl, asynchVars, stray>>

\* samplerate, fcenter and gain go to every device, the noise source and the
\* bias tees are switched by the reference.
ConsoleCalls ==
  /\ con = "call"
  /\ Call("console", cdev)
  /\ \/ After(cdev) # {} /\ cdev' = NextDevice(cdev) /\ UNCHANGED con
     \/ (cdev = Ref \/ After(cdev) = {}) /\ con' = "top" /\ cdev' = Ref
  /\ UNCHANGED <<startVars, mainVars, coherentVars, conexit, ctl, asynchVars>>

\* request lag waits for one device after the other, which calls no librtlsdr ...
ConsoleLag ==
  /\ con = "top" /\ ~conexit /\ opened # {}
  /\ con' = "lag"
  /\ UNCHANGED <<startVars, mainVars, coherentVars, conexit, cdev, ctl, asynchVars, stray>>

\* ... until the coherent thread has answered for the last one, which it need not
\* ever do; nobody else answers.
ConsoleLagArrives ==
  /\ con = "lag" /\ coh \notin {"unborn", "done"}
  /\ con' = "top"
  /\ UNCHANGED <<startVars, mainVars, coherentVars, conexit, cdev, ctl, asynchVars, stray>>

Console == \/ ConsoleEnds \/ ConsoleCommand \/ ConsoleQuit \/ ConsoleCalls
           \/ ConsoleLag \/ ConsoleLagArrives

\* A lag that was not answered when the coherent thread ended never will be.
HeldUp == con = "lag" /\ coh = "done"

-----------------------------------------------------------------------------
(* The main thread.                                                        *)

Started == mpc = "run"

\* What main leaves alone in every step.
Others == UNCHANGED <<startVars, rdev, cdev, ctl, asynchVars, stray>>

Shutdown == UNCHANGED <<exitall, waited>>

StartConsole ==
  /\ Started /\ at = "console"
  /\ con' = "top" /\ at' = "coherent"
  /\ UNCHANGED <<dev, stopped, exiting, closed, freed, held, conexit, coh, coexit, notified>>
  /\ Others /\ Shutdown

StartCoherent ==
  /\ at = "coherent"
  /\ coh' = "top" /\ at' = "loop"
  /\ UNCHANGED <<dev, stopped, exiting, closed, freed, held, con, conexit, coexit, notified>>
  /\ Others /\ Shutdown

\* while(!exit_all) ...
LoopTop ==
  /\ at = "loop"
  /\ at' = IF exitall THEN "stop" ELSE "send"
  /\ dev' = Ref
  /\ UNCHANGED <<stopped, exiting, closed, freed, held, con, conexit, coh, coexit, notified>>
  /\ Others /\ Shutdown

\* Mutant: send() does not wait for a pass.
SendAnyway ==
  /\ at = "send"
  /\ notified' = FALSE /\ waited' = TRUE
  /\ at' = "loop"
  /\ UNCHANGED <<dev, exitall, stopped, exiting, closed, freed, held, con, conexit, coh, coexit>>
  /\ Others

\* ... transport->send() waits for a pass.
Send ==
  /\ at = "send" /\ notified
  /\ notified' = FALSE /\ waited' = TRUE
  /\ at' = "loop"
  /\ UNCHANGED <<dev, exitall, stopped, exiting, closed, freed, held, con, conexit, coh, coexit>>
  /\ Others

\* Mutant: the device is only told to end.
ExitWithoutStop ==
  /\ at = "stop"
  /\ at' = "exit"
  /\ UNCHANGED <<dev, stopped, exiting, closed, freed, held, con, conexit, coh, coexit, notified>>
  /\ Others /\ Shutdown

\* stop(): streaming = false.  The control thread, which is told to end, need not
\* notice before it calls set_correction_f() again.
StopDevice ==
  /\ at = "stop"
  /\ stopped' = stopped \cup {dev}
  /\ at' = "exit"
  /\ UNCHANGED <<dev, exiting, closed, freed, held, con, conexit, coh, coexit, notified>>
  /\ Others /\ Shutdown

\* request_exit(), and on to the next device; after the last one the coherent
\* thread is told to end.
ExitDevice ==
  /\ at = "exit"
  /\ exiting' = exiting \cup {dev}
  /\ held' = IF ctl[dev] = "call" THEN held \cup {<<"control", dev>>} ELSE held
  /\ IF After(dev) # {}
     THEN at' = "stop" /\ dev' = NextDevice(dev) /\ UNCHANGED coexit
     ELSE at' = "join" /\ coexit' = TRUE /\ UNCHANGED dev
  /\ UNCHANGED <<stopped, closed, freed, con, conexit, coh, notified>>
  /\ Others /\ Shutdown

\* coherent.join(), and the handle of the reference is closed when its transfers
\* have ended.
CloseReference ==
  /\ at = "join" /\ coh = "done"
  /\ ~Active(Ref)
  /\ closed' = {Ref}
  /\ at' = "conexit"
  /\ UNCHANGED <<dev, stopped, exiting, freed, held, con, conexit, coh, coexit, notified>>
  /\ Others /\ Shutdown

\* console.request_exit()
ExitConsole ==
  /\ at = "conexit"
  /\ conexit' = TRUE
  /\ held' = IF con = "call" THEN held \cup ({"console"} \X opened) ELSE held
  /\ at' = "close"
  /\ UNCHANGED <<dev, stopped, exiting, closed, freed, con, coh, coexit, notified>>
  /\ Others /\ Shutdown

\* The signal devices are closed one after the other.
CloseSignal ==
  /\ at = "close"
  /\ \E d \in opened \ closed :
       /\ \A e \in opened \ closed : d <= e
       /\ ~Active(d)
       /\ closed' = closed \cup {d}
  /\ UNCHANGED <<at, dev, stopped, exiting, freed, held, con, conexit, coh, coexit, notified>>
  /\ Others /\ Shutdown

\* console.join(); the barrier is deleted, with the threads that are in it.
DeleteBarrier ==
  /\ at = "close" /\ opened \subseteq closed
  /\ con = "done"
  /\ freed' = TRUE
  /\ stray' = stray \cup {<<"asynch", d>> : d \in {e \in Devs : tpc[e] \in {"asleep", "awake"}}}
  /\ at' = "delete"
  /\ UNCHANGED <<dev, stopped, exiting, closed, held, con, conexit, coh, coexit, notified>>
  /\ UNCHANGED <<startVars, rdev, cdev, ctl, asynchVars>>
  /\ Shutdown

\* The destructor of the reference joins its asynch thread; main returns.
DeleteReference ==
  /\ at = "delete" /\ Ref \in over
  /\ at' = "exited"
  /\ UNCHANGED <<dev, stopped, exiting, closed, freed, held, con, conexit, coh, coexit, notified>>
  /\ Others /\ Shutdown

Main == \/ StartConsole \/ StartCoherent \/ LoopTop \/ Send \/ StopDevice \/ ExitDevice
        \/ CloseReference \/ ExitConsole \/ CloseSignal \/ DeleteBarrier \/ DeleteReference

\* SIGINT, at any time.
Interrupt ==
  /\ ~exitall /\ exitall' = TRUE
  /\ UNCHANGED <<at, dev, stopped, exiting, closed, freed, waited, held>>
  /\ UNCHANGED <<startVars, coherentVars, consoleVars, ctl, asynchVars, stray>>

-----------------------------------------------------------------------------
\* The program ends with main, whatever its threads are doing.
Running == at # "exited"

\* Nothing more need happen then, nor when the console join never ends.
Exited == (~Running \/ HeldUp) /\ UNCHANGED vars

Next ==
  \/ /\ Running
     /\ \/ StartMain /\ UNCHANGED lifeVars
        \/ \E d \in Devs : Asynch(d) \/ Control(d)
        \/ Coherent \/ Console \/ Main \/ Interrupt
  \/ Exited

Spec == Init /\ [][Next]_vars

\* Every thread goes on when it can, but nothing is asked of the control threads;
\* a spurious wake-up need not happen, a thread may sleep on in a barrier that is
\* deleted, commands need not come, and a lag need not be answered.
Fairness ==
  /\ WF_vars(Running /\ StartMain /\ UNCHANGED lifeVars)
  /\ \A d \in Devs :
       /\ WF_vars(Running /\ AsynchAtBarrier(d) /\ (Last(d) \/ Arrive(d) \/ Test(d)))
       /\ WF_vars(Running /\ BarrierGone(d) /\ tpc[d] # "asleep")
       /\ WF_vars(Running /\ AsynchReads(d))
       /\ WF_vars(Running /\ AsynchEnds(d))
  /\ WF_vars(Running /\ Coherent)
  /\ WF_vars(Running /\ ConsoleCalls)
  /\ WF_vars(Running /\ Main)

\* The console thread can leave its loop because the user ends the input: before
\* it ends it joins the local thread, which may be waiting for a line.  The signal
\* handler asks for that Ctrl+D (main.cc:58); module Console has the details.
InputEnds == WF_vars(Running /\ ConsoleEnds)

FairSpec == Spec /\ Fairness /\ InputEnds

-----------------------------------------------------------------------------
(* Properties.                                                             *)

Threads == {"asynch", "control", "console"}

\* Every variable keeps its type.
TypeOK ==
  /\ StartTypeOK
  /\ at \in {"console", "coherent", "loop", "send", "stop", "exit", "join", "conexit",
             "close", "delete", "exited"}
  /\ dev \in Devs /\ rdev \in Devs /\ cdev \in Devs
  /\ {exitall, freed, coexit, notified, conexit, waited} \subseteq BOOLEAN
  /\ stopped \subseteq Devs /\ exiting \subseteq Devs
  /\ over \subseteq Devs /\ final \subseteq Devs /\ closed \subseteq Devs
  /\ coh \in {"unborn", "top", "read", "wait", "done"}
  /\ con \in {"unborn", "top", "call", "lag", "done"}
  /\ ctl \in [Devs -> {"test", "call"}]
  /\ held \subseteq Threads \X Devs /\ stray \subseteq Threads \X Devs

\* The barrier serves until it is deleted, and nobody needs it any more once main
\* has waited for a packet.
BarrierServes == freed => waited

\* No device starts its transfers before the threads of all devices have come,
\* whatever main does meanwhile, unless SIGINT during the start makes it delete
\* the barrier they wait at (common.h:164-181, main.cc:403-445).
StartTogether == BarrierServes => TogetherOrNotAtAll

\* Under the same condition no thread sleeps on once all have come.
NobodySleepsOn == BarrierServes => NobodyLeftAsleep

\* Once main has waited for a packet, all devices stream: no asynch thread comes
\* to the barrier or starts its transfers after they are gone, whenever SIGINT
\* comes.  A SIGINT during the start may still do that (main.cc:405-449).
StartIsOver == waited => \A d \in Devs : <<"asynch", d>> \notin stray

\* Only a call that a control or console thread had decided on before it was told
\* to end meets a closed handle, except that the console may still call the
\* reference, which is closed first (crtlsdr.cc:240-242, main.cc:422-436).
LateCalls ==
  /\ \A d \in Devs : <<"control", d>> \in stray => <<"control", d>> \in held
  /\ \A d \in opened : <<"console", d>> \in stray => <<"console", d>> \in held

\* A coherent thread that waits for a device whose transfers have ended has a
\* delivery to take: stop() comes before the device is told to end, so that no
\* wait begins after the last callback, and the join of the coherent thread is
\* not held up by a read (main.cc:422-430, crtlsdr.cc:77-89, 264-270).
LastBlockLeft == (coh = "wait" /\ rdev \in over) => rdev \in final

\* All devices start, unless the program ends before or deletes the barrier under
\* them (common.h:164-181).
AllStart == <>(\/ \A d \in Participants : tpc[d] = "streaming"
              \/ ~Running \/ stray # {})

\* SIGINT, or quit on the console, ends the program when the user also ends the
\* input, unless a call with a handle or barrier that is gone makes everything
\* possible, or the console waits for a lag that was not answered when the coherent
\* thread ended: main then waits for ever (main.cc:418-449, csdrdevice.h:145-152).
ShutdownCompletes == exitall ~> (~Running \/ stray # {} \/ HeldUp)
=============================================================================
