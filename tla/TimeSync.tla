------------------------------ MODULE TimeSync ------------------------------
(***************************************************************************)
(* Time synchronisation: every signal device has a control thread          *)
(* (ccontrol) that asks the coherent thread for a lag measurement, waits   *)
(* for it, and either shifts its sample rate for a while or declares the   *)
(* device synchronised.  The console can ask for measurements and for a    *)
(* new synchronisation, and main ends the threads.                         *)
(*                                                                         *)
(* A lag is known by its order of magnitude: level 0 is within             *)
(* sync_threshold, each level above it is ten times larger.  A correction  *)
(* removes nine tenths (frac_t) of the lag it was computed from.           *)
(***************************************************************************)
EXTENDS Integers, Sequences

CONSTANTS
  NumDevs,        \* signal devices
  nfft,           \* length of the lag queue, the reference included
  MaxLevel,       \* largest lag at the start
  Commands,       \* the console commands of the run
  MaxCommands,    \* bound on the number of commands
  MayStop         \* TRUE: the user may end the program

ASSUME DevsAssumption == NumDevs \in Nat \ {0}
ASSUME QueueAssumption == nfft \in Nat /\ nfft >= 2
ASSUME LevelAssumption == MaxLevel \in Nat
ASSUME CommandAssumption ==
  Commands \subseteq {"sync", "lag", "samplerate"} /\ MaxCommands \in Nat
ASSUME StopAssumption == MayStop \in BOOLEAN

Devs   == 1 .. NumDevs
Levels == 0 .. MaxLevel

VARIABLES
  lagrequested, lagready, lagp, synced,   \* csdrdevice, per device
  offset,         \* the lag the samples of the device really have
  corr,           \* the level set_correction_f was called with, 0 for 0.0f
  streaming,      \* cleared by stop(): the device is no longer ready
  devexit,        \* csdrdevice::do_exit: set_correction_f is refused
  ctlexit,        \* ccontrol::do_exit
  pc,             \* the control threads
  cpc, cdev,      \* the coherent thread and the device it is at
  lagqueue,       \* the devices queued in this pass, with the lag in their samples
  con,            \* the console thread: the command, the device, the step
  commands,       \* bound: commands executed
  asked,          \* ghost: the kinds of command executed
  mpc, mdev,      \* the main thread: what it does next, to which device
  coexit          \* ccoherent::do_exit

flagVars == <<lagrequested, lagready, lagp, synced>>
deviceVars == <<offset, corr, streaming, devexit, ctlexit>>
coherentVars == <<cpc, cdev, lagqueue>>
consoleVars == <<con, commands, asked>>
mainVars == <<mpc, mdev, coexit>>
vars == <<flagVars, deviceVars, pc, coherentVars, consoleVars, mainVars>>

NoCommand == [cmd |-> "none", dev |-> 1, step |-> "none"]

Init ==
  /\ lagrequested = [d \in Devs |-> TRUE] /\ lagready = [d \in Devs |-> FALSE]
  /\ lagp = [d \in Devs |-> 0] /\ synced = [d \in Devs |-> FALSE]
  /\ offset \in [Devs -> Levels]
  /\ corr = [d \in Devs |-> 0]
  /\ streaming = [d \in Devs |-> TRUE] /\ devexit = [d \in Devs |-> FALSE]
  /\ ctlexit = [d \in Devs |-> FALSE]
  /\ pc = [d \in Devs |-> "top"]
  /\ cpc = "scan" /\ cdev = 1 /\ lagqueue = <<>>
  /\ con = NoCommand /\ commands = 0 /\ asked = {}
  /\ mpc = "run" /\ mdev = 1 /\ coexit = FALSE

-----------------------------------------------------------------------------
(* ccontrol::threadf.                                                      *)

Goto(d, label) == pc' = [pc EXCEPT ![d] = label]

ControlTop(d) ==
  /\ pc[d] = "top"
  /\ Goto(d, IF ctlexit[d] THEN "done" ELSE "wsync")
  /\ UNCHANGED <<flagVars, deviceVars, coherentVars, consoleVars, mainVars>>

\* wait_synchronized() sleeps while the device is synchronised.
WaitSynchronized(d) ==
  /\ pc[d] = "wsync" /\ ~synced[d]
  /\ Goto(d, "request")
  /\ UNCHANGED <<flagVars, deviceVars, coherentVars, consoleVars, mainVars>>

\* requestfftblocking(): lagrequested = true ...
RequestLag(d) ==
  /\ pc[d] = "request"
  /\ lagrequested' = [lagrequested EXCEPT ![d] = TRUE]
  /\ Goto(d, "clear")
  /\ UNCHANGED <<lagready, lagp, synced>>
  /\ UNCHANGED <<deviceVars, coherentVars, consoleVars, mainVars>>

\* ... lagready = false ...
ClearReady(d) ==
  /\ pc[d] = "clear"
  /\ lagready' = [lagready EXCEPT ![d] = FALSE]
  /\ Goto(d, "waitlag")
  /\ UNCHANGED <<lagrequested, lagp, synced>>
  /\ UNCHANGED <<deviceVars, coherentVars, consoleVars, mainVars>>

\* ... and fftcv.wait until lagready.
LagArrives(d) ==
  /\ pc[d] = "waitlag" /\ lagready[d]
  /\ Goto(d, "decide")
  /\ UNCHANGED <<flagVars, deviceVars, coherentVars, consoleVars, mainVars>>

\* set_correction_f is refused once the device was told to exit.
SetCorrection(d, level) == corr' = [corr EXCEPT ![d] = IF devexit[d] THEN @ ELSE level]

\* Mutant: the lag is compared with ten times the threshold.
DecideLoosely(d) ==
  /\ pc[d] = "decide"
  /\ SetCorrection(d, IF lagp[d] > 1 THEN lagp[d] ELSE 0)
  /\ Goto(d, IF lagp[d] > 1 THEN "sleep" ELSE "setsync")
  /\ UNCHANGED <<offset, streaming, devexit, ctlexit>>
  /\ UNCHANGED <<flagVars, coherentVars, consoleVars, mainVars>>

\* Mutant: a lag within the threshold is corrected too.
DecideToCorrect(d) ==
  /\ pc[d] = "decide"
  /\ SetCorrection(d, lagp[d])
  /\ Goto(d, "sleep")
  /\ UNCHANGED <<offset, streaming, devexit, ctlexit>>
  /\ UNCHANGED <<flagVars, coherentVars, consoleVars, mainVars>>

\* The lag is read; beyond the threshold the resampler is shifted, else it is
\* put back to its rate.
Decide(d) ==
  /\ pc[d] = "decide"
  /\ SetCorrection(d, lagp[d])
  /\ Goto(d, IF lagp[d] > 0 THEN "sleep" ELSE "setsync")
  /\ UNCHANGED <<offset, streaming, devexit, ctlexit>>
  /\ UNCHANGED <<flagVars, coherentVars, consoleVars, mainVars>>

\* A correction computed from the present lag takes one level off it; one from
\* another lag leaves the larger of the two.
Corrected(lag, from) ==
  IF lag = from THEN lag - 1 ELSE IF lag > from THEN lag ELSE from

\* Mutant: the resampler is not put back to its rate.
SleepWithoutReset(d) ==
  /\ pc[d] = "sleep"
  /\ offset' = [offset EXCEPT ![d] = IF corr[d] > 0 THEN Corrected(@, corr[d]) ELSE @]
  /\ Goto(d, "top")
  /\ UNCHANGED <<corr, streaming, devexit, ctlexit>>
  /\ UNCHANGED <<flagVars, coherentVars, consoleVars, mainVars>>

\* nanosleep() at the altered rate, and set_correction_f(0).
SleepCorrected(d) ==
  /\ pc[d] = "sleep"
  /\ offset' = [offset EXCEPT ![d] = IF corr[d] > 0 THEN Corrected(@, corr[d]) ELSE @]
  /\ SetCorrection(d, 0)
  /\ Goto(d, "top")
  /\ UNCHANGED <<streaming, devexit, ctlexit>>
  /\ UNCHANGED <<flagVars, coherentVars, consoleVars, mainVars>>

\* set_synchronized(true).
DeclareSynchronized(d) ==
  /\ pc[d] = "setsync"
  /\ synced' = [synced EXCEPT ![d] = TRUE]
  /\ Goto(d, "top")
  /\ UNCHANGED <<lagrequested, lagready, lagp>>
  /\ UNCHANGED <<deviceVars, coherentVars, consoleVars, mainVars>>

Control(d) == \/ ControlTop(d) \/ WaitSynchronized(d) \/ RequestLag(d)
              \/ ClearReady(d) \/ LagArrives(d) \/ Decide(d)
              \/ SleepCorrected(d) \/ DeclareSynchronized(d)

-----------------------------------------------------------------------------
(* ccoherent::threadf, as far as lags are concerned.                       *)

\* The head of the loop: the lag queue is cleared and receives the reference,
\* and the scan for a device that is not synchronised begins.
BeginPass ==
  /\ cpc = "scan" /\ cdev = 1
  /\ lagqueue' = <<>>
  /\ IF coexit THEN cpc' = "done" ELSE cpc' = "scanning"
  /\ UNCHANGED <<cdev, flagVars, deviceVars, pc, consoleVars, mainVars>>

ScanDevice ==
  /\ cpc = "scanning"
  /\ \/ /\ ~synced[cdev]
        /\ cpc' = "visit" /\ cdev' = 1
     \/ /\ synced[cdev] /\ cdev < NumDevs
        /\ cdev' = cdev + 1 /\ cpc' = cpc
     \/ /\ synced[cdev] /\ cdev = NumDevs     \* allsynced: no lags are queued
        /\ cpc' = "scan" /\ cdev' = 1
  /\ UNCHANGED <<lagqueue, flagVars, deviceVars, pc, consoleVars, mainVars>>

\* Mutant: the reference is not counted in the lag queue.
QueueableAnyway(d) == streaming[d] /\ lagrequested[d] /\ Len(lagqueue) < nfft

\* queuelag() takes the device while the queue has room; the reference holds
\* the first of its nfft places.
Queueable(d) == streaming[d] /\ lagrequested[d] /\ Len(lagqueue) + 1 < nfft

\* The next device of the unsynchronised branch; after the last one the lags
\* are computed.
VisitDevice ==
  /\ cpc = "visit" /\ cdev <= NumDevs
  /\ lagqueue' = IF Queueable(cdev)
                 THEN Append(lagqueue, [dev |-> cdev, lag |-> offset[cdev]])
                 ELSE lagqueue
  /\ cdev' = cdev + 1
  /\ UNCHANGED <<cpc, flagVars, deviceVars, pc, consoleVars, mainVars>>

\* computelag() calls set_lag() for each device queued: the lag is stored ...
StoreLag ==
  /\ cpc = "visit" /\ cdev = NumDevs + 1 /\ lagqueue # <<>>
  /\ lagp' = [lagp EXCEPT ![Head(lagqueue).dev] = Head(lagqueue).lag]
  /\ cpc' = "answer"
  /\ UNCHANGED <<lagrequested, lagready, synced, cdev, lagqueue>>
  /\ UNCHANGED <<deviceVars, pc, consoleVars, mainVars>>

\* Mutant: set_lag() leaves lagrequested set.
AnswerKeepsRequest ==
  /\ cpc = "answer"
  /\ lagready' = [lagready EXCEPT ![Head(lagqueue).dev] = TRUE]
  /\ lagqueue' = Tail(lagqueue)
  /\ cpc' = "visit"
  /\ UNCHANGED <<lagrequested, lagp, synced, cdev>>
  /\ UNCHANGED <<deviceVars, pc, consoleVars, mainVars>>

\* ... and under fftmtx lagready is set and lagrequested cleared.
AnswerLag ==
  /\ cpc = "answer"
  /\ LET d == Head(lagqueue).dev IN
       /\ lagready' = [lagready EXCEPT ![d] = TRUE]
       /\ lagrequested' = [lagrequested EXCEPT ![d] = FALSE]
  /\ lagqueue' = Tail(lagqueue)
  /\ cpc' = "visit"
  /\ UNCHANGED <<lagp, synced, cdev, deviceVars, pc, consoleVars, mainVars>>

\* notifysend(), and round again.
EndPass ==
  /\ cpc = "visit" /\ cdev = NumDevs + 1 /\ lagqueue = <<>>
  /\ cpc' = "scan" /\ cdev' = 1
  /\ UNCHANGED <<lagqueue, flagVars, deviceVars, pc, consoleVars, mainVars>>

Coherent == \/ BeginPass \/ ScanDevice \/ VisitDevice
            \/ StoreLag \/ AnswerLag \/ EndPass

-----------------------------------------------------------------------------
(* The console thread.                                                     *)

FirstStep == [sync |-> "unsync", samplerate |-> "rate", lag |-> "request"]

\* cconsole::do_exit, which the console thread tests before each command.
ConsoleExiting == mpc \in {"conjoin", "joined"}

StartCommand ==
  /\ con = NoCommand /\ commands < MaxCommands /\ ~ConsoleExiting
  /\ \E c \in Commands : /\ con' = [cmd |-> c, dev |-> 1, step |-> FirstStep[c]]
                         /\ asked' = asked \cup {c}
  /\ commands' = commands + 1
  /\ UNCHANGED <<flagVars, deviceVars, pc, coherentVars, mainVars>>

\* The loop over the devices goes on with the next one.
NextDevice ==
  con' = IF con.dev < NumDevs
         THEN [con EXCEPT !.dev = @ + 1, !.step = FirstStep[con.cmd]]
         ELSE NoCommand

\* samplerate: set_samplerate() loses the alignment of the device ...
ConsoleRate ==
  /\ con.step = "rate"
  /\ \E l \in Levels : offset' = [offset EXCEPT ![con.dev] = l]
  /\ con' = [con EXCEPT !.step = "unsync"]
  /\ UNCHANGED <<corr, streaming, devexit, ctlexit, commands, asked>>
  /\ UNCHANGED <<flagVars, pc, coherentVars, mainVars>>

\* ... and, like request sync, set_synchronized(false) starts it again.
ConsoleUnsync ==
  /\ con.step = "unsync"
  /\ synced' = [synced EXCEPT ![con.dev] = FALSE]
  /\ NextDevice
  /\ UNCHANGED <<lagrequested, lagready, lagp, commands, asked>>
  /\ UNCHANGED <<deviceVars, pc, coherentVars, mainVars>>

\* request lag: requestfftblocking() in the console thread.
ConsoleRequest ==
  /\ con.step = "request"
  /\ lagrequested' = [lagrequested EXCEPT ![con.dev] = TRUE]
  /\ con' = [con EXCEPT !.step = "clear"]
  /\ UNCHANGED <<lagready, lagp, synced, commands, asked>>
  /\ UNCHANGED <<deviceVars, pc, coherentVars, mainVars>>

ConsoleClear ==
  /\ con.step = "clear"
  /\ lagready' = [lagready EXCEPT ![con.dev] = FALSE]
  /\ con' = [con EXCEPT !.step = "waitlag"]
  /\ UNCHANGED <<lagrequested, lagp, synced, commands, asked>>
  /\ UNCHANGED <<deviceVars, pc, coherentVars, mainVars>>

ConsoleLagArrives ==
  /\ con.step = "waitlag" /\ lagready[con.dev]
  /\ NextDevice
  /\ UNCHANGED <<commands, asked, flagVars, deviceVars, pc, coherentVars, mainVars>>

ConsoleStep == \/ ConsoleRate \/ ConsoleUnsync
               \/ ConsoleRequest \/ ConsoleClear \/ ConsoleLagArrives

-----------------------------------------------------------------------------
(* The main thread, ending the program: for each device stop(), with the   *)
(* request_exit() of its control thread, and the device's own              *)
(* request_exit(); then it ends and joins the coherent thread, and after   *)
(* it the console thread.                                                  *)

BeginStop ==
  /\ MayStop /\ mpc = "run"
  /\ mpc' = "stream"
  /\ UNCHANGED <<mdev, coexit>>
  /\ UNCHANGED <<flagVars, deviceVars, pc, coherentVars, consoleVars>>

StopStreaming ==
  /\ mpc = "stream"
  /\ streaming' = [streaming EXCEPT ![mdev] = FALSE]
  /\ mpc' = "ctlexit"
  /\ UNCHANGED <<offset, corr, devexit, ctlexit, mdev, coexit>>
  /\ UNCHANGED <<flagVars, pc, coherentVars, consoleVars>>

\* Mutant: stop() joins the control thread.
ControlJoined ==
  /\ mpc = "ctlexit" /\ pc[mdev] = "done"
  /\ ctlexit' = [ctlexit EXCEPT ![mdev] = TRUE]
  /\ mpc' = "wake"
  /\ UNCHANGED <<offset, corr, streaming, devexit, mdev, coexit>>
  /\ UNCHANGED <<flagVars, pc, coherentVars, consoleVars>>

ControlRequestExit ==
  /\ mpc = "ctlexit"
  /\ ctlexit' = [ctlexit EXCEPT ![mdev] = TRUE]
  /\ mpc' = "wake"
  /\ UNCHANGED <<offset, corr, streaming, devexit, mdev, coexit>>
  /\ UNCHANGED <<flagVars, pc, coherentVars, consoleVars>>

WakeControl ==
  /\ mpc = "wake"
  /\ synced' = [synced EXCEPT ![mdev] = FALSE]
  /\ mpc' = "devexit"
  /\ UNCHANGED <<lagrequested, lagready, lagp, mdev, coexit>>
  /\ UNCHANGED <<deviceVars, pc, coherentVars, consoleVars>>

DeviceRequestExit ==
  /\ mpc = "devexit"
  /\ devexit' = [devexit EXCEPT ![mdev] = TRUE]
  /\ IF mdev < NumDevs THEN mpc' = "stream" /\ mdev' = mdev + 1
                       ELSE mpc' = "coexit" /\ mdev' = mdev
  /\ UNCHANGED <<offset, corr, streaming, ctlexit, coexit>>
  /\ UNCHANGED <<flagVars, pc, coherentVars, consoleVars>>

CoherentRequestExit ==
  /\ mpc = "coexit"
  /\ coexit' = TRUE /\ mpc' = "join"
  /\ UNCHANGED mdev
  /\ UNCHANGED <<flagVars, deviceVars, pc, coherentVars, consoleVars>>

\* coherent.join().
CoherentJoined ==
  /\ mpc = "join" /\ cpc = "done"
  /\ mpc' = "conexit"
  /\ UNCHANGED <<mdev, coexit>>
  /\ UNCHANGED <<flagVars, deviceVars, pc, coherentVars, consoleVars>>

\* console.request_exit() ...
ConsoleRequestExit ==
  /\ mpc = "conexit"
  /\ mpc' = "conjoin"
  /\ UNCHANGED <<mdev, coexit>>
  /\ UNCHANGED <<flagVars, deviceVars, pc, coherentVars, consoleVars>>

\* ... and console.join(), which waits for the command under way.
ConsoleJoined ==
  /\ mpc = "conjoin" /\ con = NoCommand
  /\ mpc' = "joined"
  /\ UNCHANGED <<mdev, coexit>>
  /\ UNCHANGED <<flagVars, deviceVars, pc, coherentVars, consoleVars>>

Main == \/ StopStreaming \/ ControlRequestExit \/ WakeControl
        \/ DeviceRequestExit \/ CoherentRequestExit
        \/ CoherentJoined \/ ConsoleRequestExit \/ ConsoleJoined

\* Main is held up by a console thread that waits for a lag: the coherent
\* thread, which alone computes them, has been joined.
HeldUp == mpc = "conjoin" /\ con.step = "waitlag" /\ ~lagready[con.dev]

\* Every thread but the control threads has ended, or the program never will.
Finished == (mpc = "joined" \/ HeldUp) /\ UNCHANGED vars

-----------------------------------------------------------------------------
Next == \/ \E d \in Devs : Control(d)
        \/ Coherent \/ StartCommand \/ ConsoleStep \/ BeginStop \/ Main
        \/ Finished

Spec == Init /\ [][Next]_vars

\* Every thread is scheduled, and nanosleep ends; commands and Ctrl+C come or
\* not, and the terminal does not hold up the console thread.
FairSpec ==
  /\ Spec
  /\ \A d \in Devs : WF_vars(Control(d))
  /\ WF_vars(Coherent) /\ WF_vars(ConsoleStep) /\ WF_vars(Main)

-----------------------------------------------------------------------------
(* Properties.                                                             *)

ControlStates == {"top", "wsync", "request", "clear", "waitlag", "decide",
                  "sleep", "setsync", "done"}

FlagTypes ==
  /\ lagrequested \in [Devs -> BOOLEAN] /\ lagready \in [Devs -> BOOLEAN]
  /\ lagp \in [Devs -> Levels] /\ synced \in [Devs -> BOOLEAN]

DeviceTypes ==
  /\ offset \in [Devs -> Levels] /\ corr \in [Devs -> Levels]
  /\ streaming \in [Devs -> BOOLEAN]
  /\ devexit \in [Devs -> BOOLEAN] /\ ctlexit \in [Devs -> BOOLEAN]

ControlTypes == pc \in [Devs -> ControlStates]

CoherentTypes ==
  /\ cpc \in {"scan", "scanning", "visit", "answer", "done"}
  /\ cdev \in 1 .. NumDevs + 1
  /\ lagqueue \in Seq([dev : Devs, lag : Levels]) /\ Len(lagqueue) < nfft

ConsoleTypes ==
  /\ con \in [cmd : Commands \cup {"none"}, dev : Devs,
              step : {"none", "rate", "unsync", "request", "clear", "waitlag"}]
  /\ commands \in 0 .. MaxCommands /\ asked \subseteq Commands

MainTypes ==
  /\ mpc \in {"run", "stream", "ctlexit", "wake", "devexit", "coexit", "join",
             "conexit", "conjoin", "joined"}
  /\ mdev \in Devs /\ coexit \in BOOLEAN

\* Every variable keeps its type; the lag queue never outgrows its buffers.
TypeOK == /\ FlagTypes /\ DeviceTypes /\ ControlTypes
          /\ CoherentTypes /\ ConsoleTypes /\ MainTypes

\* The resampler is off its rate only while the control thread of the device
\* sleeps, or because the correction could not be taken back from a device that
\* is exiting (ccontrol.cc:99-113, crtlsdr.cc:240-242).
NoStrayCorrection ==
  \A d \in Devs : corr[d] > 0 => pc[d] = "sleep" \/ devexit[d]

Queued(d) == \E i \in 1 .. Len(lagqueue) : lagqueue[i].dev = d

\* A request of a control thread that still stands is served, unless the program
\* is ended (ccoherent.cc:258-263, 278-279, csdrdevice.h:145-152, 154-167).
StandingRequestServed ==
  \A d \in Devs :
    (pc[d] = "waitlag" /\ (lagrequested[d] \/ Queued(d)))
      ~> (pc[d] # "waitlag" \/ ~(lagrequested[d] \/ Queued(d)) \/ mpc # "run")

OnlySyncs == asked \subseteq {"sync"}

\* A device that is declared synchronised is: its measurement was made after
\* the last correction that reached it.  A change of the sample rate may come
\* between the two, and request lag may have a measurement made while the
\* device is being corrected (ccontrol.cc:94-115, console.cc:162-175).
SyncedMeansAligned == OnlySyncs => \A d \in Devs : synced[d] => offset[d] = 0

\* Ending the program joins the coherent and the console thread, whatever the
\* control threads wait for; only a request lag whose lag is no longer computed
\* holds it up, and that for ever (main.cc:422-438, csdrdevice.h:145-152).
OnlyLagHoldsUp == (mpc = "stream") ~> (mpc = "joined" \/ HeldUp)

\* A waiting control thread has a lag to read or a request that stands: it
\* "asks for a new fft" (ccontrol.cc:92).
NoLostRequest ==
  \A d \in Devs :
    pc[d] = "waitlag" => lagready[d] \/ lagrequested[d] \/ Queued(d)

\* Unless a request is lost, the program is ended or the console does more than
\* ask for a new synchronisation, every device ends up synchronised and aligned
\* (ccontrol.cc:88-117).
Converges ==
  [](NoLostRequest /\ mpc = "run" /\ OnlySyncs)
    => <>[](\A d \in Devs : synced[d] /\ offset[d] = 0)
=============================================================================
