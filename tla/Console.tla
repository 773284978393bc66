------------------------------ MODULE Console ------------------------------
(***************************************************************************)
(* The console: a local thread reads lines from the terminal and a remote  *)
(* thread messages from a socket; both push them on commandqueue, from     *)
(* which the console thread pops and executes them.  command_processed     *)
(* makes the local thread wait for its turn.  The program ends by Ctrl+C   *)
(* or by the command quit, and main asks the console to exit.              *)
(*                                                                         *)
(* A command is "quit", "lag" (request lag, which waits in the devices) or *)
(* any "other"; the empty line that unblocks pop() and the end of the      *)
(* input are "other" too, as parsecmd() makes them nop.                    *)
(***************************************************************************)
EXTENDS Integers, Sequences

CONSTANTS
  MaxLines,       \* bound on the lines typed before the end of the input
  MaxRemote,      \* bound on the remote messages
  Input           \* the commands that users enter or send

Commands == {"quit", "lag", "other"}

ASSUME BoundAssumption ==
  MaxLines \in Nat /\ MaxRemote \in Nat /\ Input \subseteq Commands

VARIABLES
  q,              \* the contents of commandqueue
  alloc,          \* commandqueue: "null", "live" or "deleted"
  processed,      \* command_processed
  exitconsole,    \* exit_console
  doexit,         \* cconsole::do_exit
  exitall,        \* exit_all in main.cc
  kpc, cmd,       \* the console thread and the command it executes
  lpc, line,      \* the local thread and the line it has read
  rpc, msg,       \* the remote thread and the message it has received
  mpc,            \* the main thread
  lines, remotes, \* bounds: lines and messages so far
  misused         \* ghost: who pushed on a queue that is not live

consoleVars == <<kpc, cmd>>
localVars == <<lpc, line, lines>>
remoteVars == <<rpc, msg, remotes>>
flagVars == <<processed, exitconsole, doexit, exitall>>
queueVars == <<q, alloc, misused>>
vars == <<queueVars, flagVars, consoleVars, localVars, remoteVars, mpc>>

Init ==
  /\ q = <<>> /\ alloc = "null" /\ misused = {}
  /\ processed = FALSE /\ exitconsole = FALSE
  /\ doexit = FALSE /\ exitall = FALSE
  /\ kpc = "start" /\ cmd = "other"
  /\ lpc = "unborn" /\ line = "other" /\ lines = 0
  /\ rpc = "unborn" /\ msg = "other" /\ remotes = 0
  /\ mpc = "run"

-----------------------------------------------------------------------------
\* lqueue::push() under the mutex of the queue, by the thread named who.
Push(who, c) ==
  /\ q' = IF alloc = "live" THEN Append(q, c) ELSE q
  /\ misused' = IF alloc = "live" THEN misused ELSE misused \cup {who}
  /\ UNCHANGED alloc

-----------------------------------------------------------------------------
(* localc.                                                                 *)

\* while(!exit_console) ...
LocalLoop ==
  /\ lpc = "loop"
  /\ lpc' = IF exitconsole THEN "done" ELSE "spin"
  /\ UNCHANGED <<line, lines, queueVars, flagVars, consoleVars, remoteVars, mpc>>

\* ... if (command_processed): two reads, between which a command may be
\* executed.
LocalSpin ==
  /\ lpc = "spin"
  /\ lpc' = IF processed THEN "getline" ELSE "loop"
  /\ UNCHANGED <<line, lines, queueVars, flagVars, consoleVars, remoteVars, mpc>>

\* The user enters a line.
LocalLine ==
  /\ lpc = "getline" /\ lines < MaxLines
  /\ line' \in Input
  /\ lines' = lines + 1
  /\ lpc' = "push"
  /\ UNCHANGED <<queueVars, flagVars, consoleVars, remoteVars, mpc>>

\* The user ends the input with Ctrl+D: from then on every getline returns an
\* empty line at once.
Ended == lines > MaxLines

LocalEnd ==
  /\ lpc = "getline"
  /\ line' = "other" /\ lines' = MaxLines + 1
  /\ lpc' = "push"
  /\ UNCHANGED <<queueVars, flagVars, consoleVars, remoteVars, mpc>>

LocalPush ==
  /\ lpc = "push"
  /\ Push("local", line)
  /\ lpc' = "clear"
  /\ UNCHANGED <<line, lines, flagVars, consoleVars, remoteVars, mpc>>

\* command_processed = false, after the push.
LocalClear ==
  /\ lpc = "clear"
  /\ processed' = FALSE
  /\ lpc' = "loop"
  /\ UNCHANGED <<line, lines, exitconsole, doexit, exitall>>
  /\ UNCHANGED <<queueVars, consoleVars, remoteVars, mpc>>

Local == LocalLoop \/ LocalSpin \/ LocalLine \/ LocalEnd \/ LocalPush \/ LocalClear

-----------------------------------------------------------------------------
(* remotec.                                                                *)

\* A message arrives within the 250 ms of the receive.
RemoteReceive ==
  /\ rpc = "recv" /\ ~exitconsole /\ remotes < MaxRemote
  /\ msg' \in Input
  /\ remotes' = remotes + 1
  /\ rpc' = "push"
  /\ UNCHANGED <<queueVars, flagVars, consoleVars, localVars, mpc>>

RemotePush ==
  /\ rpc = "push"
  /\ Push("remote", msg)
  /\ rpc' = "recv"
  /\ UNCHANGED <<msg, remotes, flagVars, consoleVars, localVars, mpc>>

\* The receive has timed out after exit_console was set.
RemoteExit ==
  /\ rpc = "recv" /\ exitconsole
  /\ rpc' = "done"
  /\ UNCHANGED <<msg, remotes, queueVars, flagVars, consoleVars, localVars, mpc>>

Remote == RemoteReceive \/ RemotePush \/ RemoteExit

-----------------------------------------------------------------------------
(* consolethreadf.                                                         *)

\* The queue is allocated, the two threads are started and command_processed
\* is set.
ConsoleStart ==
  /\ kpc = "start"
  /\ alloc' = "live" /\ UNCHANGED <<q, misused>>
  /\ lpc' = "loop" /\ rpc' = "recv"
  /\ kpc' = "ready"
  /\ UNCHANGED <<flagVars, cmd, line, lines, msg, remotes, mpc>>

ConsoleReady ==
  /\ kpc = "ready"
  /\ processed' = TRUE
  /\ kpc' = "head"
  /\ UNCHANGED <<cmd, exitconsole, doexit, exitall>>
  /\ UNCHANGED <<queueVars, localVars, remoteVars, mpc>>

ConsoleHead ==
  /\ kpc = "head"
  /\ kpc' = IF doexit THEN "joinlocal" ELSE "pop"
  /\ UNCHANGED <<cmd, queueVars, flagVars, localVars, remoteVars, mpc>>

\* pop() waits under the mutex until there is a command ...
ConsoleWait ==
  /\ kpc = "pop" /\ q # <<>>
  /\ kpc' = "take"
  /\ UNCHANGED <<cmd, queueVars, flagVars, localVars, remoteVars, mpc>>

\* Mutant: the newest command is taken.
PopNewest ==
  /\ kpc = "take"
  /\ cmd' = q[Len(q)] /\ q' = SubSeq(q, 1, Len(q) - 1)
  /\ kpc' = "test"
  /\ UNCHANGED <<alloc, misused, flagVars, localVars, remoteVars, mpc>>

\* ... and takes the oldest after it has let go of the mutex.
ConsolePop ==
  /\ kpc = "take"
  /\ cmd' = Head(q) /\ q' = Tail(q)
  /\ kpc' = "test"
  /\ UNCHANGED <<alloc, misused, flagVars, localVars, remoteVars, mpc>>

\* if (!do_exit) switch (cmd): quit goes on to request_exit(), request lag to
\* the wait of requestfftblocking().
ConsoleTest ==
  /\ kpc = "test"
  /\ kpc' = IF ~doexit /\ cmd \in {"quit", "lag"} THEN cmd ELSE "ack"
  /\ UNCHANGED <<cmd, queueVars, flagVars, localVars, remoteVars, mpc>>

\* The coherent thread, which main joins before it leaves "run", has answered
\* for every device; it need not ever.
ConsoleLagArrives ==
  /\ kpc = "lag" /\ mpc = "run"
  /\ kpc' = "ack"
  /\ UNCHANGED <<cmd, queueVars, flagVars, localVars, remoteVars, mpc>>

\* Mutant: quit sets exit_console only.
QuitConsoleOnly ==
  /\ kpc = "quit"
  /\ exitconsole' = TRUE
  /\ Push("console", "other")
  /\ kpc' = "ack"
  /\ UNCHANGED <<cmd, processed, doexit, exitall, localVars, remoteVars, mpc>>

\* request_exit() in the console thread itself.
ConsoleQuit ==
  /\ kpc = "quit"
  /\ doexit' = TRUE /\ exitconsole' = TRUE
  /\ Push("console", "other")
  /\ kpc' = "ack"
  /\ UNCHANGED <<cmd, processed, exitall, localVars, remoteVars, mpc>>

\* command_processed = true, whoever pushed the command.
ConsoleAck ==
  /\ kpc = "ack"
  /\ processed' = TRUE
  /\ kpc' = "head"
  /\ UNCHANGED <<cmd, exitconsole, doexit, exitall>>
  /\ UNCHANGED <<queueVars, localVars, remoteVars, mpc>>

ConsoleJoinLocal ==
  /\ kpc = "joinlocal" /\ lpc = "done"
  /\ kpc' = "joinremote"
  /\ UNCHANGED <<cmd, queueVars, flagVars, localVars, remoteVars, mpc>>

\* Mutant: the remote thread is not joined.
ForgetRemote ==
  /\ kpc = "joinremote"
  /\ kpc' = "delete"
  /\ UNCHANGED <<cmd, queueVars, flagVars, localVars, remoteVars, mpc>>

ConsoleJoinRemote ==
  /\ kpc = "joinremote" /\ rpc = "done"
  /\ kpc' = "delete"
  /\ UNCHANGED <<cmd, queueVars, flagVars, localVars, remoteVars, mpc>>

\* delete commandqueue: the pointer keeps its value.
ConsoleDelete ==
  /\ kpc = "delete"
  /\ alloc' = "deleted" /\ q' = <<>>
  /\ kpc' = "raise"
  /\ UNCHANGED <<cmd, misused, flagVars, localVars, remoteVars, mpc>>

\* std::raise(SIGINT): signal_handler sets exit_all.
ConsoleRaise ==
  /\ kpc = "raise"
  /\ exitall' = TRUE
  /\ kpc' = "done"
  /\ UNCHANGED <<cmd, processed, exitconsole, doexit>>
  /\ UNCHANGED <<queueVars, localVars, remoteVars, mpc>>

ConsoleThread == \/ ConsoleStart \/ ConsoleReady \/ ConsoleHead \/ ConsoleWait
                 \/ ConsolePop \/ ConsoleTest \/ ConsoleQuit \/ ConsoleAck
                 \/ ConsoleJoinLocal \/ ConsoleJoinRemote
                 \/ ConsoleDelete \/ ConsoleRaise

-----------------------------------------------------------------------------
(* main.                                                                   *)

\* Ctrl+C.
Interrupt ==
  /\ ~exitall /\ exitall' = TRUE
  /\ UNCHANGED <<processed, exitconsole, doexit>>
  /\ UNCHANGED <<queueVars, consoleVars, localVars, remoteVars, mpc>>

\* The send loop is left; the devices and the coherent thread are ended before
\* the console is asked to exit.
MainLeave ==
  /\ mpc = "run" /\ exitall
  /\ mpc' = "doexit"
  /\ UNCHANGED <<queueVars, flagVars, consoleVars, localVars, remoteVars>>

MainDoExit ==
  /\ mpc = "doexit"
  /\ doexit' = TRUE /\ mpc' = "exitconsole"
  /\ UNCHANGED <<processed, exitconsole, exitall>>
  /\ UNCHANGED <<queueVars, consoleVars, localVars, remoteVars>>

MainExitConsole ==
  /\ mpc = "exitconsole"
  /\ exitconsole' = TRUE /\ mpc' = "push"
  /\ UNCHANGED <<processed, doexit, exitall>>
  /\ UNCHANGED <<queueVars, consoleVars, localVars, remoteVars>>

\* Mutant: pop() is not unblocked.
MainNoPush ==
  /\ mpc = "push"
  /\ mpc' = "join"
  /\ UNCHANGED <<queueVars, flagVars, consoleVars, localVars, remoteVars>>

\* if (commandqueue) commandqueue->push("").
MainPush ==
  /\ mpc = "push"
  /\ IF alloc = "null" THEN UNCHANGED queueVars ELSE Push("main", "other")
  /\ mpc' = "join"
  /\ UNCHANGED <<flagVars, consoleVars, localVars, remoteVars>>

MainJoin ==
  /\ mpc = "join" /\ kpc = "done"
  /\ mpc' = "left"
  /\ UNCHANGED <<queueVars, flagVars, consoleVars, localVars, remoteVars>>

Main == MainLeave \/ MainDoExit \/ MainExitConsole \/ MainPush \/ MainJoin

\* The program has ended, or main waits for ever for a console thread that waits
\* for a lag.
Finished == (mpc = "left" \/ (mpc = "join" /\ kpc = "lag")) /\ UNCHANGED vars

-----------------------------------------------------------------------------
Next == \/ Local \/ Remote \/ ConsoleThread \/ ConsoleLagArrives
        \/ Interrupt \/ Main \/ Finished

Spec == Init /\ [][Next]_vars

\* The threads are scheduled and the receive times out; the user presses Ctrl+D
\* when signal_handler asks for it, and does not have to enter anything before.
\* A request lag need not be answered.
FairSpec ==
  /\ Spec
  /\ WF_vars(LocalLoop) /\ WF_vars(LocalSpin)
  /\ WF_vars(LocalPush) /\ WF_vars(LocalClear)
  /\ WF_vars(LocalEnd /\ (exitall \/ Ended))
  /\ WF_vars(RemotePush) /\ WF_vars(RemoteExit)
  /\ WF_vars(ConsoleThread) /\ WF_vars(Main)

-----------------------------------------------------------------------------
(* Properties.                                                             *)

Threads == {"local", "remote", "console", "main"}

\* Every variable keeps its type; the queue is only empty while it is not live,
\* and the threads that use it run only after it was allocated.
TypeOK ==
  /\ q \in Seq(Commands) /\ alloc \in {"null", "live", "deleted"}
  /\ alloc # "live" => q = <<>>
  /\ alloc = "null" <=> kpc = "start"
  /\ {processed, exitconsole, doexit, exitall} \subseteq BOOLEAN
  /\ kpc \in {"start", "ready", "head", "pop", "take", "test", "quit", "lag",
             "ack", "joinlocal", "joinremote", "delete", "raise", "done"}
  /\ lpc \in {"unborn", "loop", "spin", "getline", "push", "clear", "done"}
  /\ rpc \in {"unborn", "recv", "push", "done"}
  /\ mpc \in {"run", "doexit", "exitconsole", "push", "join", "left"}
  /\ {cmd, line, msg} \subseteq Commands
  /\ lines \in Nat /\ remotes \in Nat
  /\ misused \subseteq Threads

\* The threads that the console thread joins never push on the queue it has
\* deleted, and main, which may ask for the exit before the console thread runs,
\* never on one that was not allocated (console.cc:158, 403-406).
JoinedBeforeDelete ==
  misused \subseteq {"main"} /\ (misused # {} => alloc = "deleted")

\* Main does not wait for a console thread that sleeps in pop(): the command that
\* main pushes is still there when the console thread has looked at do_exit
\* too early, and do_exit is seen when it has taken that command
\* (console.cc:155-159, 351-353).
ExitSeen == (mpc = "join" /\ kpc = "pop") => q # <<>>

\* Main's join of the console ends: pop() is unblocked whenever the request
\* comes, also before the queue exists or while a command is executed.  Only a
\* request lag that is not answered holds it up, and that for ever
\* (console.cc:155-159, 241-243, 351-353).
ExitCompletes == (mpc = "join") ~> (mpc = "left" \/ [](kpc = "lag"))

\* quit ends the program without Ctrl+C, wherever the local thread is between
\* its two tests and whoever gave the command: all it needs is that the local
\* thread does not wait for a line for ever, as it may when quit is executed
\* between them (console.cc:45-54, 392-400).
QuitEnds == []<>(lpc # "getline") => ((kpc = "quit") ~> exitall)

\* A quit that was pushed is executed, however many empty lines a terminal at
\* its end goes on to push, unless the console thread waits for a lag for ever
\* (common.h:257-277, console.cc:45-54, 241-243).
QuitServed == (\E i \in DOMAIN q : q[i] = "quit") ~> (doexit \/ [](kpc = "lag"))

\* "the program presents the user with a console" (README.md:14): the local
\* thread comes back to wait for a line, or ends.
PromptReturns == (lpc = "clear") ~> (lpc \in {"getline", "done"})
=============================================================================
