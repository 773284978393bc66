------------------------------ MODULE Coherent ------------------------------
(***************************************************************************)
(* ccoherent::threadf over all the receivers of a run: the reference is    *)
(* device 0, the signal devices are 1 .. NumSignals in the order of the    *)
(* devices vector.  In each pass the coherent thread reads the reference   *)
(* and then every signal device, writes the ready ones into successive     *)
(* columns of the packet and notifies the transport.  The main thread      *)
(* stops the devices one after the other and joins the coherent thread.    *)
(*                                                                         *)
(* Both branches of the loop (all devices synchronised or not) read, write *)
(* and consume alike; what they do with lags is in TimeSync.               *)
(*                                                                         *)
(* Every device taken by itself implements SampleRing.                     *)
(***************************************************************************)
EXTENDS Integers, FiniteSets

CONSTANTS
  NumSignals,     \* signal devices opened
  N,              \* asyncbufn
  Wrap,           \* 2^32: readcnt and the numbers recorded for slots wrap there
  MayStop,        \* FALSE: runs that the user does not end
  MaxBlocks,      \* bound on the blocks a device delivers before its exit request
  MaxPhantom      \* bound on the read() calls made on a stopped device

ASSUME NumSignalsAssumption == NumSignals \in Nat \ {0}
ASSUME NAssumption == N \in Nat \ {0}
ASSUME WrapAssumption == Wrap \in Nat /\ Wrap > N /\ Wrap % N = 0
ASSUME BoundAssumption ==
  MayStop \in BOOLEAN /\ MaxBlocks \in Nat /\ MaxPhantom \in Nat

Ref     == 0
Signals == 1 .. NumSignals
Devs    == 0 .. NumSignals
Columns == 0 .. NumSignals

Torn   == -1
Zeroed == -2
Empty  == [dev |-> -1, cnt |-> 0, blk |-> Zeroed]  \* not written in this pass

VARIABLES
  ring,       \* per device: the fields of cbuffer and csdrdevice
  cdev,       \* the device the coherent thread is working on
  cpc,        \* where it stands with it
  column,     \* the loop's column counter c
  packet,     \* packetbuf0: the columns written in this pass
  mpc,        \* the main thread: "run", or the device it stops next
  coexit      \* ccoherent::do_exit

vars == <<ring, cdev, cpc, column, packet, mpc, coexit>>
coherentVars == <<cdev, cpc, column, packet>>

Slots == 0 .. N-1
Slot(i) == i % N
Count(i) == i % Wrap

Init ==
  /\ ring = [d \in Devs |->
       [wp |-> 0, rp |-> 0, newdata |-> 0,
        tag |-> [s \in Slots |-> 0], data |-> [s \in Slots |-> Zeroed],
        writing |-> FALSE, streaming |-> TRUE, exitreq |-> FALSE,
        async |-> "running", seen |-> Zeroed, sfloat |-> Zeroed,
        phantom |-> 0, skipped |-> 0]]
  /\ cdev = Ref /\ cpc = "idle" /\ column = 0
  /\ packet = [k \in Columns |-> Empty]
  /\ mpc = -1 /\ coexit = FALSE

-----------------------------------------------------------------------------
(* The callback threads.                                                   *)

\* Mutant: the callback that cancels the transfers does not deliver its block.
CancelWithoutDelivery(d) ==
  LET r == ring[d] IN
  /\ r.async \in {"running", "cancelled"} /\ ~r.writing
  /\ r.wp < MaxBlocks \/ (r.exitreq /\ r.async = "running")
  /\ ring' = IF r.exitreq
             THEN [ring EXCEPT ![d].async = "cancelled"]
             ELSE [ring EXCEPT ![d].writing = TRUE,
                               ![d].tag[Slot(r.wp)] = Count(r.wp),
                               ![d].data[Slot(r.wp)] = Torn]
  /\ UNCHANGED <<coherentVars, mpc, coexit>>

CallbackBegin(d) ==
  LET r == ring[d] IN
  /\ r.async \in {"running", "cancelled"} /\ ~r.writing
  /\ r.wp < MaxBlocks \/ (r.exitreq /\ r.async = "running")
  /\ ring' = [ring EXCEPT ![d].writing = TRUE,
                          ![d].async = IF r.exitreq THEN "cancelled" ELSE @,
                          ![d].tag[Slot(r.wp)] = Count(r.wp),
                          ![d].data[Slot(r.wp)] = Torn]
  /\ UNCHANGED <<coherentVars, mpc, coexit>>

CallbackEnd(d) ==
  LET r == ring[d] IN
  /\ r.writing
  /\ ring' = [ring EXCEPT ![d].writing = FALSE,
                          ![d].data[Slot(r.wp)] = r.wp,
                          ![d].wp = @ + 1,
                          ![d].newdata = @ + 1]
  /\ UNCHANGED <<coherentVars, mpc, coexit>>

AsyncReturn(d) ==
  /\ ring[d].async = "cancelled" /\ ~ring[d].writing
  /\ ring' = [ring EXCEPT ![d].async = "done"]
  /\ UNCHANGED <<coherentVars, mpc, coexit>>

-----------------------------------------------------------------------------
(* The coherent thread.                                                    *)

\* The head of the loop: do_exit is tested and the pass begins with the
\* reference in column 0.
StartPass ==
  /\ cpc = "idle" /\ cdev = Ref /\ column = 0 /\ ~coexit
  /\ column' = 1
  /\ UNCHANGED <<ring, cdev, cpc, packet, mpc, coexit>>

CoherentExit ==
  /\ cpc = "idle" /\ cdev = Ref /\ column = 0 /\ coexit
  /\ cpc' = "done"
  /\ UNCHANGED <<ring, cdev, column, packet, mpc, coexit>>

\* d->read() on a streaming device: wait for a delivery ...
ReadEnter ==
  /\ cpc = "idle" /\ column > 0 /\ cdev \in Devs /\ ring[cdev].streaming
  /\ cpc' = "wait"
  /\ UNCHANGED <<ring, cdev, column, packet, mpc, coexit>>

\* ... and take it.
ReadTake ==
  /\ cpc = "wait" /\ ~ring[cdev].writing /\ ring[cdev].newdata > 0
  /\ ring' = [ring EXCEPT ![cdev].newdata = @ - 1]
  /\ cpc' = "got"
  /\ UNCHANGED <<cdev, column, packet, mpc, coexit>>

\* d->read() on a stopped device returns at once.
ReadWithoutWait ==
  /\ cpc = "idle" /\ column > 0 /\ cdev \in Devs /\ ~ring[cdev].streaming
  /\ ring[cdev].phantom < MaxPhantom \/ coexit
  /\ ring' = [ring EXCEPT ![cdev].phantom = @ + 1]
  /\ cpc' = "got"
  /\ UNCHANGED <<cdev, column, packet, mpc, coexit>>

\* Mutant: readiness is judged by the number recorded for the slot at rp.
ReadyBySlot(d) ==
  d = Ref \/ (ring[d].tag[Slot(ring[d].rp)] >= N /\ ring[d].streaming)

\* is_ready(), which compares readcnt; the reference is not asked.
Ready(d) == d = Ref \/ (Count(ring[d].wp) >= N /\ ring[d].streaming)

\* Mutant: the column is counted for a device that is not ready.
PassOverColumn ==
  /\ cpc = "got" /\ ~Ready(cdev)
  /\ ring' = [ring EXCEPT ![cdev].skipped = @ + 1]
  /\ cdev' = cdev + 1 /\ cpc' = "idle"
  /\ column' = column + 1
  /\ UNCHANGED <<packet, mpc, coexit>>

\* Mutant: consume() is called for a device that is not ready.
PassOverConsumes ==
  /\ cpc = "got" /\ ~Ready(cdev)
  /\ ring' = [ring EXCEPT ![cdev].skipped = @ + 1, ![cdev].rp = @ + 1]
  /\ cdev' = cdev + 1 /\ cpc' = "idle"
  /\ UNCHANGED <<column, packet, mpc, coexit>>

\* The device is passed over: no column, no consume().
PassOver ==
  /\ cpc = "got" /\ ~Ready(cdev)
  /\ ring' = [ring EXCEPT ![cdev].skipped = @ + 1]
  /\ cdev' = cdev + 1 /\ cpc' = "idle"
  /\ UNCHANGED <<column, packet, mpc, coexit>>

ConvertBegin ==
  /\ cpc = "got" /\ Ready(cdev)
  /\ ring' = [ring EXCEPT ![cdev].seen = ring[cdev].data[Slot(ring[cdev].rp)]]
  /\ cpc' = "conv"
  /\ UNCHANGED <<cdev, column, packet, mpc, coexit>>

ConvertEnd ==
  LET r == ring[cdev] IN
  /\ cpc = "conv"
  /\ ring' = [ring EXCEPT ![cdev].sfloat =
                IF r.data[Slot(r.rp)] = r.seen THEN r.seen ELSE Torn]
  /\ cpc' = "send"
  /\ UNCHANGED <<cdev, column, packet, mpc, coexit>>

\* The column that a device is written to.
ColumnOf(d) == IF d = Ref THEN 0 ELSE column

\* Mutant: consume() is forgotten for the reference.
ConsumeSignalsOnly ==
  LET r == ring[cdev]
      c == ColumnOf(cdev) IN
  /\ cpc = "send"
  /\ packet' = [packet EXCEPT
                  ![c] = [dev |-> cdev, cnt |-> r.tag[Slot(r.rp)], blk |-> r.sfloat]]
  /\ column' = IF cdev = Ref THEN column ELSE column + 1
  /\ ring' = IF cdev = Ref THEN ring ELSE [ring EXCEPT ![cdev].rp = @ + 1]
  /\ cdev' = cdev + 1 /\ cpc' = "idle"
  /\ UNCHANGED <<mpc, coexit>>

\* transport->write(c, ...), c++ and consume().
WriteAndConsume ==
  LET r == ring[cdev]
      c == ColumnOf(cdev) IN
  /\ cpc = "send"
  /\ packet' = [packet EXCEPT
                  ![c] = [dev |-> cdev, cnt |-> r.tag[Slot(r.rp)], blk |-> r.sfloat]]
  /\ column' = IF cdev = Ref THEN column ELSE column + 1
  /\ ring' = [ring EXCEPT ![cdev].rp = @ + 1]
  /\ cdev' = cdev + 1 /\ cpc' = "idle"
  /\ UNCHANGED <<mpc, coexit>>

\* notifysend() at the end of the pass: the thread goes on with the other
\* buffer.  What that one still holds from an earlier packet counts as Empty.
NotifySend ==
  /\ cpc = "idle" /\ cdev = NumSignals + 1
  /\ packet' = [k \in Columns |-> Empty]
  /\ cdev' = Ref /\ column' = 0
  /\ UNCHANGED <<ring, cpc, mpc, coexit>>

-----------------------------------------------------------------------------
(* The main thread after its send loop: stop() and request_exit() on the   *)
(* reference and then on each signal device, and coherent.request_exit().  *)

BeginShutdown ==
  /\ MayStop /\ mpc = -1
  /\ mpc' = Ref
  /\ UNCHANGED <<ring, coherentVars, coexit>>

StopDevice ==
  /\ mpc \in Devs /\ ring[mpc].streaming
  /\ ring' = [ring EXCEPT ![mpc].streaming = FALSE]
  /\ UNCHANGED <<coherentVars, mpc, coexit>>

\* Mutant: request_exit() is called without stop().
RequestExitFirst ==
  /\ mpc \in Devs
  /\ ring' = [ring EXCEPT ![mpc].exitreq = TRUE]
  /\ mpc' = mpc + 1
  /\ UNCHANGED <<coherentVars, coexit>>

RequestDeviceExit ==
  /\ mpc \in Devs /\ ~ring[mpc].streaming
  /\ ring' = [ring EXCEPT ![mpc].exitreq = TRUE]
  /\ mpc' = mpc + 1
  /\ UNCHANGED <<coherentVars, coexit>>

RequestCoherentExit ==
  /\ mpc = NumSignals + 1 /\ ~coexit
  /\ coexit' = TRUE
  /\ UNCHANGED <<ring, coherentVars, mpc>>

\* coherent.join() returned and every asynch thread has ended.
Finished ==
  /\ cpc = "done" /\ \A d \in Devs : ring[d].async = "done"
  /\ UNCHANGED vars

\* A run that is not ended has used up its bound: nothing is left to take from
\* the device the coherent thread waits for.
BoundReached ==
  /\ ~MayStop
  /\ cpc = "wait" /\ ring[cdev].newdata = 0 /\ ring[cdev].wp = MaxBlocks
  /\ UNCHANGED vars

-----------------------------------------------------------------------------
Device(d) == CallbackBegin(d) \/ CallbackEnd(d) \/ AsyncReturn(d)

CoherentThread == \/ StartPass \/ CoherentExit \/ ReadEnter \/ ReadTake
                  \/ ReadWithoutWait \/ PassOver \/ ConvertBegin \/ ConvertEnd
                  \/ WriteAndConsume \/ NotifySend

Main == StopDevice \/ RequestDeviceExit \/ RequestCoherentExit

Next == (\E d \in Devs : Device(d)) \/ CoherentThread \/ BeginShutdown \/ Main
          \/ Finished \/ BoundReached

Spec == Init /\ [][Next]_vars

\* USB transfers complete, the threads are scheduled; the user may stay for
\* ever (BeginShutdown is not fair).
FairSpec == /\ Spec
            /\ \A d \in Devs : WF_vars(CallbackBegin(d)) /\ WF_vars(CallbackEnd(d))
                                 /\ WF_vars(AsyncReturn(d))
            /\ WF_vars(CoherentThread)
            /\ WF_vars(Main)

-----------------------------------------------------------------------------
(* Properties.                                                             *)

BlockNumbers == Nat \cup {Torn, Zeroed}
ColumnContents == [dev : Devs \cup {-1}, cnt : Nat, blk : BlockNumbers]

\* Every variable keeps its type.
TypeOK ==
  /\ DOMAIN ring = Devs
  /\ \A d \in Devs : /\ {ring[d].wp, ring[d].rp, ring[d].newdata} \subseteq Nat
                     /\ {ring[d].phantom, ring[d].skipped} \subseteq Nat
                     /\ {ring[d].seen, ring[d].sfloat} \subseteq BlockNumbers
                     /\ ring[d].async \in {"running", "cancelled", "done"}
  /\ cdev \in 0 .. NumSignals + 1 /\ mpc \in -1 .. NumSignals + 1
  /\ cpc \in {"idle", "wait", "got", "conv", "send", "done"}
  /\ column \in 0 .. NumSignals + 1
  /\ coexit \in BOOLEAN
  /\ \A k \in Columns : packet[k] \in ColumnContents

\* Each device taken by itself behaves as one SampleRing, whose reader is the
\* coherent thread while it works on that device.
Ring(d) == INSTANCE SampleRing WITH
  IsReference <- (d = Ref), MayFail <- FALSE, MaxPhantom <- MaxPhantom + 1,
  wp <- ring[d].wp, rp <- ring[d].rp, newdata <- ring[d].newdata,
  tag <- ring[d].tag, data <- ring[d].data, writing <- ring[d].writing,
  streaming <- ring[d].streaming, exitreq <- ring[d].exitreq,
  async <- ring[d].async, seen <- ring[d].seen, sfloat <- ring[d].sfloat,
  phantom <- ring[d].phantom, skipped <- ring[d].skipped,
  rpc <- IF cdev = d \/ cpc = "done" THEN cpc ELSE "idle"

RingsImplemented ==
  /\ \A d \in Devs : Ring(d)!Init
  /\ [][\A d \in Devs : [Ring(d)!Next]_(Ring(d)!vars)]_vars

\* A pass handles every device once: what a device has consumed or been passed
\* over for is what the reference has consumed, less the pass under way
\* (ccoherent.cc:228-276).
PassesAgree ==
  \A d \in Signals :
    ring[d].rp + ring[d].skipped =
      ring[Ref].rp - (IF Ref < cdev /\ cdev <= d THEN 1 ELSE 0)

Written == {k \in Columns : packet[k] # Empty}
Unlapped(d) ==
  ring[d].wp + (IF ring[d].writing THEN 1 ELSE 0) <= ring[d].rp - 1 + N

\* The columns written in a pass are 0, 1, 2, ... without a gap, of devices in
\* the order of the vector, each at most once.
ColumnsInOrder ==
  /\ Written = 0 .. (IF cdev > Ref THEN column - 1 ELSE -1)
  /\ \A j, k \in Written : j < k => packet[j].dev < packet[k].dev
  /\ \A k \in Written : k <= packet[k].dev /\ packet[k].dev < cdev

\* A device that has had a column has one in every later packet, until it is
\* stopped or its readcnt wraps around: since columns are counted anew in each
\* pass, a device that dropped out would leave those of its successors in the
\* wrong place and the last ones with the samples of an earlier packet
\* (ccoherent.cc:245-276, crtlsdr.h:92-94, ctransport.cc:226-242).
ColumnsStay ==
  cdev = NumSignals + 1 /\ mpc = -1 =>
    \A d \in Signals :
      ring[d].rp > 0 /\ ring[d].wp < Wrap => \E k \in Written : packet[k].dev = d

\* When a packet is handed over, a column whose block the callback has not come
\* round to lags the reference column by the skew of its device, no more and
\* no less, and both carry the number of the block they hold.
OffsetIsSkew ==
  cdev = NumSignals + 1 /\ mpc = -1 =>
    \A k \in Written \ {0} :
      LET d == packet[k].dev IN
      Unlapped(Ref) /\ Unlapped(d) =>
        /\ packet[0].blk = packet[k].blk + ring[d].skipped
        /\ packet[0].cnt = Count(packet[0].blk) /\ packet[k].cnt = Count(packet[k].blk)

\* Once main has begun to stop the devices, the coherent thread ends: it is
\* not caught in a read of a device that was stopped, before or after it.
ShutdownCompletes == (mpc # -1) ~> (cpc = "done")
=============================================================================
