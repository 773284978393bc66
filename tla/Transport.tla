------------------------------ MODULE Transport ------------------------------
(***************************************************************************)
(* ctransport: the coherent thread writes the columns of a packet into     *)
(* packetbuf0 and swaps the two buffers in notifysend(); the main thread   *)
(* loops in send(), which fills the header, waits for a notification and   *)
(* publishes packetbuf1.  Only the swap and the wait hold the mutex.       *)
(*                                                                         *)
(* A packet's sample data is named by the pass of the coherent thread that *)
(* wrote it, counted from 1; 0 is the data of a buffer never written.      *)
(***************************************************************************)
EXTENDS Integers

CONSTANTS
  MaxPasses       \* bound on the passes made before SIGINT

ASSUME BoundAssumption == MaxPasses \in Nat \ {0}

Bufs     == {"x", "y"}
Torn     == -1
NoHeader == -1      \* the header as allocated: N = 0, L = 0

VARIABLES
  buf0, buf1,     \* packetbuf0, packetbuf1: the buffer each points to
  hdr,            \* globalseqn in the header of a buffer
  body,           \* the pass whose columns a buffer holds
  filled,         \* bufferfilled
  globalseqn,     \* ctransport::globalseqn
  exitall,        \* exit_all in main.cc
  mpc,            \* the main thread
  hp,             \* the buffer it writes the header to
  sp,             \* the buffer it publishes
  seen,           \* the columns there when the copy started
  sent,           \* the last packet published: header, pass and kind
  cpc,            \* the coherent thread: "idle", "writing" or "written"
  notified,       \* ghost: passes handed over by notifysend
  hgen, pgen      \* ghost: notified when hp and when sp was read

vars == <<buf0, buf1, hdr, body, filled, globalseqn, exitall, mpc, hp, sp,
          seen, sent, cpc, notified, hgen, pgen>>
mainVars == <<globalseqn, mpc, hp, sp, seen, sent, hgen, pgen>>
coherentVars == <<buf0, buf1, body, cpc, notified>>

Init ==
  /\ buf0 = "x" /\ buf1 = "y"
  /\ hdr = [b \in Bufs |-> NoHeader]
  /\ body = [b \in Bufs |-> 0]
  /\ filled = FALSE /\ globalseqn = 0 /\ exitall = FALSE
  /\ mpc = "head" /\ hp = "x" /\ sp = "y"
  /\ seen = 0 /\ sent = [seq |-> NoHeader, pass |-> 0, kind |-> "whole"]
  /\ cpc = "idle" /\ notified = 0 /\ hgen = 0 /\ pgen = 0

-----------------------------------------------------------------------------
(* The coherent thread.                                                    *)

\* The calls of write() of a pass change packetbuf0 column by column.
WriteBegin ==
  /\ cpc = "idle"
  /\ \/ notified < MaxPasses
     \/ exitall /\ ~filled /\ mpc # "left" /\ notified < MaxPasses + 2
  /\ body' = [body EXCEPT ![buf0] = Torn]
  /\ cpc' = "writing"
  /\ UNCHANGED <<buf0, buf1, hdr, filled, exitall, notified>>
  /\ UNCHANGED mainVars

WriteEnd ==
  /\ cpc = "writing"
  /\ body' = [body EXCEPT ![buf0] = notified + 1]
  /\ cpc' = "written"
  /\ UNCHANGED <<buf0, buf1, hdr, filled, exitall, notified>>
  /\ UNCHANGED mainVars

\* Mutant: the buffers are left alone while a packet waits to be sent.
NotifyUnlessFilled ==
  /\ cpc = "written"
  /\ buf0' = (IF filled THEN buf0 ELSE buf1)
  /\ buf1' = (IF filled THEN buf1 ELSE buf0)
  /\ filled' = TRUE
  /\ notified' = notified + 1
  /\ cpc' = "idle"
  /\ UNCHANGED <<hdr, body, exitall>>
  /\ UNCHANGED mainVars

\* notifysend(): under the mutex the buffers are swapped and bufferfilled is
\* set, whether or not the main thread has finished with the last packet.
NotifySend ==
  /\ cpc = "written"
  /\ buf0' = buf1 /\ buf1' = buf0
  /\ filled' = TRUE
  /\ notified' = notified + 1
  /\ cpc' = "idle"
  /\ UNCHANGED <<hdr, body, exitall>>
  /\ UNCHANGED mainVars

-----------------------------------------------------------------------------
(* The main thread.                                                        *)

\* Mutant: the header is written to the buffer being published.
HeadOfPublished ==
  /\ mpc = "head" /\ ~exitall
  /\ hp' = buf1 /\ hgen' = notified
  /\ mpc' = "fill"
  /\ UNCHANGED <<hdr, filled, exitall, globalseqn, sp, seen, sent, pgen>>
  /\ UNCHANGED coherentVars

\* Mutant: exit_all is not looked at before the next packet.
HeadIgnoresExit ==
  /\ mpc = "head"
  /\ hp' = buf0 /\ hgen' = notified
  /\ mpc' = "fill"
  /\ UNCHANGED <<hdr, filled, exitall, globalseqn, sp, seen, sent, pgen>>
  /\ UNCHANGED coherentVars

\* while(!exit_all) and the head of send(): packetbuf0 is looked up, without
\* the mutex, to write the header to.
SendHead ==
  /\ mpc = "head" /\ ~exitall
  /\ hp' = buf0 /\ hgen' = notified
  /\ mpc' = "fill"
  /\ UNCHANGED <<hdr, filled, exitall, globalseqn, sp, seen, sent, pgen>>
  /\ UNCHANGED coherentVars

SendFillHeader ==
  /\ mpc = "fill"
  /\ hdr' = [hdr EXCEPT ![hp] = globalseqn]
  /\ globalseqn' = globalseqn + 1
  /\ mpc' = "wait"
  /\ UNCHANGED <<filled, exitall, hp, sp, seen, sent, hgen, pgen>>
  /\ UNCHANGED coherentVars

\* cv.wait: nothing ever sets the transport's own do_exit.
SendTake ==
  /\ mpc = "wait" /\ filled
  /\ filled' = FALSE
  /\ mpc' = "ptr"
  /\ UNCHANGED <<hdr, exitall, globalseqn, hp, sp, seen, sent, hgen, pgen>>
  /\ UNCHANGED coherentVars

\* Mutant: packetbuf0 is published.
LookupWritten ==
  /\ mpc = "ptr"
  /\ sp' = buf0 /\ pgen' = notified
  /\ mpc' = "held"
  /\ UNCHANGED <<hdr, filled, exitall, globalseqn, hp, seen, sent, hgen>>
  /\ UNCHANGED coherentVars

\* packetbuf1 is looked up, after the mutex was released ...
SendLookup ==
  /\ mpc = "ptr"
  /\ sp' = buf1 /\ pgen' = notified
  /\ mpc' = "held"
  /\ UNCHANGED <<hdr, filled, exitall, globalseqn, hp, seen, sent, hgen>>
  /\ UNCHANGED coherentVars

\* ... copied into a message from some later moment on, when the buffer may
\* have become packetbuf0 again and been written to ...
SendCopyBegin ==
  /\ mpc = "held"
  /\ seen' = body[sp]
  /\ mpc' = "copy"
  /\ UNCHANGED <<hdr, filled, exitall, globalseqn, hp, sp, sent, hgen, pgen>>
  /\ UNCHANGED coherentVars

\* What the copy makes a packet of.  It is torn if the buffer was being written
\* or changed meanwhile, and then named by the pass that was looked up; it is
\* early if it holds a whole pass that has not been handed over yet.
Packet ==
  LET torn == seen = Torn \/ body[sp] # seen IN
  [seq  |-> hdr[sp],
   pass |-> IF torn THEN pgen ELSE seen,
   kind |-> IF torn THEN "torn" ELSE IF seen <= notified THEN "whole" ELSE "early"]

\* Mutant: bufferfilled is cleared after the packet was sent.
ClearAfterCopy ==
  /\ mpc = "copy"
  /\ sent' = Packet
  /\ mpc' = "head"
  /\ filled' = FALSE
  /\ UNCHANGED <<hdr, exitall, globalseqn, hp, sp, seen, hgen, pgen>>
  /\ UNCHANGED coherentVars

\* ... and published.
SendCopied ==
  /\ mpc = "copy"
  /\ sent' = Packet
  /\ mpc' = "head"
  /\ UNCHANGED <<hdr, filled, exitall, globalseqn, hp, sp, seen, hgen, pgen>>
  /\ UNCHANGED coherentVars

LeaveLoop ==
  /\ mpc = "head" /\ exitall
  /\ mpc' = "left"
  /\ UNCHANGED <<hdr, filled, exitall, globalseqn, hp, sp, seen, sent, hgen, pgen>>
  /\ UNCHANGED coherentVars

\* SIGINT: signal_handler sets exit_all.
Interrupt ==
  /\ ~exitall
  /\ exitall' = TRUE
  /\ UNCHANGED <<hdr, filled>> /\ UNCHANGED mainVars /\ UNCHANGED coherentVars

\* The main thread has left its loop.
Finished == mpc = "left" /\ UNCHANGED vars

-----------------------------------------------------------------------------
CoherentThread == WriteBegin \/ WriteEnd \/ NotifySend

Main == \/ SendHead \/ SendFillHeader \/ SendTake
        \/ SendLookup \/ SendCopyBegin \/ SendCopied \/ LeaveLoop

Next == CoherentThread \/ Main \/ Interrupt \/ Finished

Spec == Init /\ [][Next]_vars

\* Both threads are scheduled; the devices keep the coherent thread going.
FairSpec == Spec /\ WF_vars(CoherentThread) /\ WF_vars(Main)

-----------------------------------------------------------------------------
(* Properties.                                                             *)

\* Every variable keeps its type and the two pointers stay apart.
TypeOK ==
  /\ buf0 \in Bufs /\ buf1 \in Bufs /\ buf0 # buf1
  /\ hdr \in [Bufs -> Nat \cup {NoHeader}]
  /\ body \in [Bufs -> Nat \cup {Torn}]
  /\ filled \in BOOLEAN /\ exitall \in BOOLEAN
  /\ globalseqn \in Nat
  /\ mpc \in {"head", "fill", "wait", "ptr", "held", "copy", "left"}
  /\ hp \in Bufs /\ sp \in Bufs
  /\ seen \in Nat \cup {Torn}
  /\ sent \in [seq : Nat \cup {NoHeader}, pass : Nat, kind : {"whole", "torn", "early"}]
  /\ cpc \in {"idle", "writing", "written"}
  /\ notified \in Nat /\ hgen \in Nat /\ pgen \in Nat

\* The buffer looked up keeps the pass it held then, before and while it is
\* copied, until the coherent thread has handed over the next pass and begun
\* another one (ctransport.cc:150-160, 226-242).
CopyIntact ==
  mpc \in {"held", "copy"} /\ (notified = pgen \/ (notified = pgen + 1 /\ cpc = "idle"))
    => body[sp] = pgen /\ (mpc = "copy" => seen = pgen)

\* A packet whose header was written during its own pass, and which is copied
\* before the next pass is handed over, carries the number that send() has just
\* drawn, in a buffer the coherent thread leaves alone
\* (ctransport.cc:134-160, 226-242).
PromptPacket ==
  mpc \in {"held", "copy"} /\ pgen = hgen + 1 /\ notified = pgen
    => sp # buf0 /\ hdr[sp] = globalseqn - 1

\* Main never waits with the pass handed over last unsent: a notification is only
\* taken for a packet that is looked up after it, and one that comes while a
\* packet is being copied stays for the next send() (ctransport.cc:150-160,
\* 226-242).
NothingLeft ==
  (mpc \in {"head", "fill", "wait", "left"} /\ ~filled)
    => sent.pass = notified /\ sent.kind = "whole"

\* The packets a client receives never go back by more than one pass, and only
\* after one that went out before it was handed over; the same pass comes twice
\* only as the same packet or spoilt, however the threads overtake each other:
\* Transport implements Publisher (ctransport.cc:134-160, 226-242).
Client == INSTANCE Publisher WITH made <- notified, packet <- sent

ClientPromise == Client!Spec

\* A pass that was handed over is taken, or a later one in its place, unless
\* the program ends: clearing bufferfilled never loses a notification.
NotificationServed ==
  \A n \in 1 .. MaxPasses : (notified = n) ~> (pgen >= n \/ exitall)

\* When the coherent thread pauses, the packet it handed over last goes out,
\* complete.
LastPassSent == <>[]((sent.pass = MaxPasses /\ sent.kind = "whole") \/ exitall)

\* After SIGINT the main thread leaves its loop.
InterruptServed == exitall ~> (mpc = "left")

\* Every packet starts with a header: a client that finds N = 0 or L = 0 says
\* "daemon sent invalid header" (Aegirsupport.cc:64-65).
HeaderValid == sent.pass > 0 => sent.seq # NoHeader
=============================================================================
