--------------------------- MODULE ConsoleProofs ---------------------------
(***************************************************************************)
(* The types of the console, and that the threads that use the command     *)
(* queue are joined before it is deleted, for any number of lines and      *)
(* remote messages.                                                        *)
(***************************************************************************)
EXTENDS Console, TLAPS

\* The types, one conjunct per variable.
FlagTypes ==
  /\ processed \in BOOLEAN /\ exitconsole \in BOOLEAN
  /\ doexit \in BOOLEAN /\ exitall \in BOOLEAN

PlaceTypes ==
  /\ kpc \in {"start", "ready", "head", "pop", "take", "test", "quit", "lag",
             "ack", "joinlocal", "joinremote", "delete", "raise", "done"}
  /\ lpc \in {"unborn", "loop", "spin", "getline", "push", "clear", "done"}
  /\ rpc \in {"unborn", "recv", "push", "done"}
  /\ mpc \in {"run", "doexit", "exitconsole", "push", "join", "left"}

InputTypes ==
  /\ cmd \in Commands /\ line \in Commands /\ msg \in Commands
  /\ lines \in Nat /\ remotes \in Nat

QueueTypes ==
  /\ q \in Seq(Commands) /\ alloc \in {"null", "live", "deleted"}
  /\ alloc # "live" => q = <<>>
  /\ misused \subseteq Threads

\* Where the console thread is tells whether the queue lives and who may still
\* push on it: nobody before it starts them, nobody once they are joined.
Life ==
  /\ alloc = "null" <=> kpc = "start"
  /\ alloc = "deleted" <=> kpc \in {"raise", "done"}
  /\ kpc = "start" => lpc = "unborn" /\ rpc = "unborn"
  /\ lpc = "unborn" => kpc = "start"
  /\ rpc = "unborn" => kpc = "start"
  /\ kpc \in {"joinremote", "delete", "raise", "done"} => lpc = "done"
  /\ kpc \in {"delete", "raise", "done"} => rpc = "done"

\* The queue that pop() has found filled is still filled when it takes the
\* front: the console thread alone takes from it.
Taken == kpc = "take" => q # <<>>

\* Everything but the flags.
QueueInv == /\ PlaceTypes /\ InputTypes /\ QueueTypes
            /\ Life /\ Taken /\ JoinedBeforeDelete

IInv == FlagTypes /\ QueueInv

-----------------------------------------------------------------------------
LEMMA InitHolds == Init => IInv
  <1> SUFFICES ASSUME Init PROVE IInv
    OBVIOUS
  <1> USE DEF Init, Commands
  <1>1. FlagTypes
    BY DEF FlagTypes
  <1>2. PlaceTypes
    BY DEF PlaceTypes
  <1>3. InputTypes
    BY DEF InputTypes
  <1>4. QueueTypes
    BY DEF QueueTypes
  <1>5. Life /\ Taken
    BY DEF Life, Taken
  <1>6. JoinedBeforeDelete
    BY DEF JoinedBeforeDelete
  <1> QED BY <1>1, <1>2, <1>3, <1>4, <1>5, <1>6 DEF IInv, QueueInv

\* A thread that pushes while the queue lives leaves it longer and does no
\* wrong.
LEMMA PushAlive ==
  ASSUME IInv, NEW who, NEW c \in Commands, Push(who, c), alloc = "live"
  PROVE /\ q' \in Seq(Commands) /\ q' # <<>>
        /\ alloc' = alloc /\ misused' = misused
  <1>1. q \in Seq(Commands) /\ q' = Append(q, c)
    BY DEF IInv, QueueInv, QueueTypes, Push
  <1>2. q' \in Seq(Commands) /\ q' # <<>>
    BY <1>1
  <1> QED BY <1>2 DEF Push

\* The flags are only ever assigned TRUE or FALSE.
LEMMA FlagsKept == IInv /\ [Next]_vars => FlagTypes'
  <1> SUFFICES ASSUME IInv, [Next]_vars PROVE FlagTypes'
    OBVIOUS
  <1> USE DEF IInv, FlagTypes, flagVars, vars
  <1>1. CASE Local
    BY <1>1 DEF Local, LocalLoop, LocalSpin, LocalLine, LocalEnd, LocalPush, LocalClear
  <1>2. CASE Remote
    BY <1>2 DEF Remote, RemoteReceive, RemotePush, RemoteExit
  <1>3. CASE ConsoleThread
    BY <1>3 DEF ConsoleThread, ConsoleStart, ConsoleReady, ConsoleHead,
       ConsoleWait, ConsolePop, ConsoleTest, ConsoleQuit, ConsoleAck,
       ConsoleJoinLocal, ConsoleJoinRemote, ConsoleDelete, ConsoleRaise
  <1>4. CASE Interrupt
    BY <1>4 DEF Interrupt
  <1>5. CASE Main
    BY <1>5 DEF Main, MainLeave, MainDoExit, MainExitConsole, MainPush, MainJoin
  <1>6. CASE ConsoleLagArrives \/ Finished \/ UNCHANGED vars
    BY <1>6 DEF ConsoleLagArrives, Finished
  <1> QED BY <1>1, <1>2, <1>3, <1>4, <1>5, <1>6 DEF Next

\* The local thread pushes only between its start and its join.
LEMMA LocalKeeps == IInv /\ Local => QueueInv'
  <1> SUFFICES ASSUME IInv, Local PROVE QueueInv'
    OBVIOUS
  <1> USE DEF IInv, QueueInv, PlaceTypes, InputTypes, QueueTypes, Life, Taken,
           JoinedBeforeDelete, Commands, Threads, vars, queueVars, flagVars,
           consoleVars, remoteVars
  <1>1. CASE LocalLoop
    BY <1>1 DEF LocalLoop
  <1>6. CASE LocalSpin
    BY <1>6 DEF LocalSpin
  <1>2. CASE LocalLine
    BY <1>2, BoundAssumption DEF LocalLine
  <1>3. CASE LocalEnd
    BY <1>3, BoundAssumption DEF LocalEnd
  <1>4. CASE LocalPush
    <2>1. alloc = "live"
      BY <1>4 DEF LocalPush
    <2>2. Push("local", line)
      BY <1>4 DEF LocalPush
    <2>3. q' \in Seq(Commands) /\ q' # <<>> /\ alloc' = alloc /\ misused' = misused
      BY <2>1, <2>2, PushAlive
    <2> QED BY <1>4, <2>1, <2>3 DEF LocalPush
  <1>5. CASE LocalClear
    BY <1>5 DEF LocalClear
  <1> QED BY <1>1, <1>2, <1>3, <1>4, <1>5, <1>6 DEF Local

\* So does the remote thread.
LEMMA RemoteKeeps == IInv /\ Remote => QueueInv'
  <1> SUFFICES ASSUME IInv, Remote PROVE QueueInv'
    OBVIOUS
  <1> USE DEF IInv, QueueInv, PlaceTypes, InputTypes, QueueTypes, Life, Taken,
           JoinedBeforeDelete, Commands, Threads, vars, queueVars, flagVars,
           consoleVars, localVars
  <1>1. CASE RemoteReceive
    BY <1>1, BoundAssumption DEF RemoteReceive
  <1>2. CASE RemotePush
    <2>1. alloc = "live"
      BY <1>2 DEF RemotePush
    <2>2. Push("remote", msg)
      BY <1>2 DEF RemotePush
    <2>3. q' \in Seq(Commands) /\ q' # <<>> /\ alloc' = alloc /\ misused' = misused
      BY <2>1, <2>2, PushAlive
    <2> QED BY <1>2, <2>1, <2>3 DEF RemotePush
  <1>3. CASE RemoteExit
    BY <1>3 DEF RemoteExit
  <1> QED BY <1>1, <1>2, <1>3 DEF Remote

\* The console thread creates the queue before it starts the others, and deletes
\* it after it has joined them.
LEMMA ConsoleKeeps == IInv /\ ConsoleThread => QueueInv'
  <1> SUFFICES ASSUME IInv, ConsoleThread PROVE QueueInv'
    OBVIOUS
  <1> USE DEF IInv, QueueInv, PlaceTypes, InputTypes, QueueTypes, Life, Taken,
           JoinedBeforeDelete, Commands, Threads, vars, queueVars, flagVars,
           localVars, remoteVars
  <1>1. CASE ConsoleStart
    BY <1>1 DEF ConsoleStart
  <1>2. CASE ConsoleReady
    BY <1>2 DEF ConsoleReady
  <1>3. CASE ConsoleHead
    BY <1>3 DEF ConsoleHead
  <1>4. CASE ConsoleWait
    BY <1>4 DEF ConsoleWait
  <1>5. CASE ConsolePop
    <2>1. q \in Seq(Commands) /\ q # <<>>
      BY <1>5 DEF ConsolePop
    <2>2. Head(q) \in Commands /\ Tail(q) \in Seq(Commands)
      BY <2>1
    <2> QED BY <1>5, <2>2 DEF ConsolePop
  <1>6. CASE ConsoleTest
    BY <1>6 DEF ConsoleTest
  <1>7. CASE ConsoleQuit
    <2>1. alloc = "live"
      BY <1>7 DEF ConsoleQuit
    <2>2. Push("console", "other")
      BY <1>7 DEF ConsoleQuit
    <2>3. q' \in Seq(Commands) /\ q' # <<>> /\ alloc' = alloc /\ misused' = misused
      BY <2>1, <2>2, PushAlive
    <2> QED BY <1>7, <2>1, <2>3 DEF ConsoleQuit
  <1>8. CASE ConsoleAck
    BY <1>8 DEF ConsoleAck
  <1>9. CASE ConsoleJoinLocal
    BY <1>9 DEF ConsoleJoinLocal
  <1>10. CASE ConsoleJoinRemote
    BY <1>10 DEF ConsoleJoinRemote
  <1>11. CASE ConsoleDelete
    BY <1>11 DEF ConsoleDelete
  <1>12. CASE ConsoleRaise
    BY <1>12 DEF ConsoleRaise
  <1> QED BY <1>1, <1>2, <1>3, <1>4, <1>5, <1>6, <1>7, <1>8, <1>9, <1>10, <1>11, <1>12 DEF ConsoleThread

\* main is not joined, and may find the queue deleted, but never one that was
\* not allocated.
LEMMA MainKeeps == IInv /\ Main => QueueInv'
  <1> SUFFICES ASSUME IInv, Main PROVE QueueInv'
    OBVIOUS
  <1> USE DEF IInv, QueueInv, PlaceTypes, InputTypes, QueueTypes, Life, Taken,
           JoinedBeforeDelete, Commands, Threads, vars, queueVars, flagVars,
           consoleVars, localVars, remoteVars
  <1>1. CASE MainLeave
    BY <1>1 DEF MainLeave
  <1>2. CASE MainDoExit
    BY <1>2 DEF MainDoExit
  <1>3. CASE MainExitConsole
    BY <1>3 DEF MainExitConsole
  <1>4. CASE MainPush
    <2>1. CASE alloc = "null"
      BY <1>4, <2>1 DEF MainPush
    <2>2. CASE alloc = "live"
      <3>1. Push("main", "other")
        BY <1>4, <2>2 DEF MainPush
      <3>2. q' \in Seq(Commands) /\ q' # <<>> /\ alloc' = alloc /\ misused' = misused
        BY <2>2, <3>1, PushAlive
      <3> QED BY <1>4, <2>2, <3>2 DEF MainPush
    <2>3. CASE alloc = "deleted"
      <3>1. q' = q /\ alloc' = alloc /\ misused' = misused \cup {"main"}
        BY <1>4, <2>3 DEF MainPush, Push
      <3> QED BY <1>4, <2>3, <3>1 DEF MainPush
    <2> QED BY <2>1, <2>2, <2>3
  <1>5. CASE MainJoin
    BY <1>5 DEF MainJoin
  <1> QED BY <1>1, <1>2, <1>3, <1>4, <1>5 DEF Main

LEMMA StepHolds == IInv /\ [Next]_vars => IInv'
  <1> SUFFICES ASSUME IInv, [Next]_vars PROVE IInv'
    OBVIOUS
  <1>1. FlagTypes'
    BY FlagsKept
  <1>2. QueueInv'
    <2>1. CASE Local
      BY <2>1, LocalKeeps
    <2>2. CASE Remote
      BY <2>2, RemoteKeeps
    <2>3. CASE ConsoleThread
      BY <2>3, ConsoleKeeps
    <2>4. CASE Interrupt
      BY <2>4 DEF Interrupt, IInv, QueueInv, PlaceTypes, InputTypes, QueueTypes,
         Life, Taken, JoinedBeforeDelete, queueVars, consoleVars, localVars,
         remoteVars
    <2>5. CASE Main
      BY <2>5, MainKeeps
    <2>7. CASE ConsoleLagArrives
      BY <2>7 DEF ConsoleLagArrives, IInv, QueueInv, PlaceTypes, InputTypes,
         QueueTypes, Life, Taken, JoinedBeforeDelete, queueVars, localVars,
         remoteVars
    <2>6. CASE Finished \/ UNCHANGED vars
      <3>1. UNCHANGED vars
        BY <2>6 DEF Finished
      <3>2. UNCHANGED <<kpc, lpc, rpc, mpc, cmd, line, msg, lines, remotes>>
        BY <3>1 DEF vars, consoleVars, localVars, remoteVars
      <3>3. UNCHANGED <<q, alloc, misused>>
        BY <3>1 DEF vars, queueVars
      <3> QED BY <3>2, <3>3 DEF IInv, QueueInv, PlaceTypes, InputTypes,
               QueueTypes, Life, Taken, JoinedBeforeDelete
    <2> QED BY <2>1, <2>2, <2>3, <2>4, <2>5, <2>6, <2>7 DEF Next
  <1> QED BY <1>1, <1>2 DEF IInv

LEMMA Invariance == Spec => []IInv
  <1> QED BY InitHolds, StepHolds, PTL DEF Spec

-----------------------------------------------------------------------------
\* Every variable keeps its type, and the queue is empty while it is not live
\* (console.cc:36-42, 338-410).
THEOREM TypeCorrect == Spec => []TypeOK
  <1>1. IInv => TypeOK
    <2> SUFFICES ASSUME IInv PROVE TypeOK
      OBVIOUS
    <2>1. {processed, exitconsole, doexit, exitall} \subseteq BOOLEAN
      BY DEF IInv, FlagTypes
    <2>2. {cmd, line, msg} \subseteq Commands
      BY DEF IInv, QueueInv, InputTypes, Commands
    <2> QED BY <2>1, <2>2 DEF IInv, QueueInv, PlaceTypes, InputTypes, QueueTypes,
             Life, Commands, TypeOK
  <1> QED BY <1>1, Invariance, PTL

\* No thread the console thread joins ever pushes on a queue that is not live,
\* and main only on one that was deleted (console.cc:158, 403-406).
THEOREM QueueCorrect == Spec => []JoinedBeforeDelete
  <1>1. IInv => JoinedBeforeDelete
    BY DEF IInv, QueueInv
  <1> QED BY <1>1, Invariance, PTL
-----------------------------------------------------------------------------
(* The exit reaches a console thread that has looked at do_exit before it    *)
(* was set: the command that main pushes afterwards is still in the queue.   *)

ExitInv ==
  /\ mpc \in {"exitconsole", "push", "join", "left"} => doexit
  /\ doexit /\ kpc = "pop" => q # <<>> \/ mpc \in {"exitconsole", "push"}

LEMMA NextExitInv == IInv /\ ExitInv /\ [Next]_vars => ExitInv'
  <1> SUFFICES ASSUME IInv, ExitInv, [Next]_vars PROVE ExitInv'
    OBVIOUS
  <1> USE DEF ExitInv, vars, queueVars, flagVars, consoleVars, localVars, remoteVars
  <1>0. /\ q \in Seq(Commands)
        /\ line \in Commands /\ msg \in Commands
        /\ alloc \in {"null", "live", "deleted"}
        /\ alloc = "null" <=> kpc = "start"
        /\ alloc = "deleted" => kpc \in {"raise", "done"}
    BY DEF IInv, QueueInv, QueueTypes, InputTypes, Life
  <1>1. CASE Local
    <2>1. q # <<>> => q' # <<>>
      <3>1. CASE LocalPush
        BY <1>0, <3>1 DEF LocalPush, Push
      <3>2. CASE UNCHANGED q
        BY <3>2
      <3> QED BY <1>1, <3>1, <3>2 DEF Local, LocalLoop, LocalSpin, LocalLine, LocalEnd, LocalClear
    <2>2. UNCHANGED <<kpc, mpc, doexit>>
      BY <1>1 DEF Local, LocalLoop, LocalSpin, LocalLine, LocalEnd, LocalPush, LocalClear
    <2> QED BY <2>1, <2>2
  <1>2. CASE Remote
    <2>1. q # <<>> => q' # <<>>
      <3>1. CASE RemotePush
        BY <1>0, <3>1 DEF RemotePush, Push
      <3>2. CASE UNCHANGED q
        BY <3>2
      <3> QED BY <1>2, <3>1, <3>2 DEF Remote, RemoteReceive, RemoteExit
    <2>2. UNCHANGED <<kpc, mpc, doexit>>
      BY <1>2 DEF Remote, RemoteReceive, RemotePush, RemoteExit
    <2> QED BY <2>1, <2>2
  <1>3. CASE ConsoleThread
    <2>1. mpc' = mpc /\ (doexit => doexit') /\ (kpc' = "pop" => ~doexit')
      BY <1>3 DEF ConsoleThread, ConsoleStart, ConsoleReady, ConsoleHead, ConsoleWait,
         ConsolePop, ConsoleTest, ConsoleQuit, ConsoleAck, ConsoleJoinLocal,
         ConsoleJoinRemote, ConsoleDelete, ConsoleRaise
    <2> QED BY <2>1
  <1>4. CASE Main
    <2>1. CASE MainPush
      <3>1. kpc = "pop" => q' # <<>>
        BY <1>0, <2>1 DEF MainPush, Push
      <3> QED BY <2>1, <3>1 DEF MainPush
    <2>2. CASE MainLeave \/ MainDoExit \/ MainExitConsole \/ MainJoin
      BY <2>2 DEF MainLeave, MainDoExit, MainExitConsole, MainJoin
    <2> QED BY <1>4, <2>1, <2>2 DEF Main
  <1>5. CASE Interrupt \/ ConsoleLagArrives \/ Finished \/ UNCHANGED vars
    BY <1>5 DEF Interrupt, ConsoleLagArrives, Finished
  <1> QED BY <1>1, <1>2, <1>3, <1>4, <1>5 DEF Next

\* Whenever the exit is requested, before the queue exists, while a command is
\* executed or between the test of do_exit and the wait, main does not join a
\* console thread that sleeps in pop() (console.cc:155-159, 351-353).
THEOREM ExitCorrect == Spec => []ExitSeen
  <1>1. Init => ExitInv
    BY DEF Init, ExitInv
  <1>2. ExitInv => ExitSeen
    BY DEF ExitInv, ExitSeen
  <1> QED BY <1>1, <1>2, InitHolds, StepHolds, NextExitInv, PTL DEF Spec
=============================================================================
