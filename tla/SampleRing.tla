----------------------------- MODULE SampleRing -----------------------------
(***************************************************************************)
(* One receiver: the USB callback thread that fills the circular buffer    *)
(* (cbuffer) of a crtlsdr / crefsdr, the coherent thread that reads it,    *)
(* and the shutdown of the two.                                            *)
(*                                                                         *)
(* A sample block is named by its number in the stream of the device: the  *)
(* k-th call of the callback delivers block k.  A slot holds the number of *)
(* the block it stores, Torn while the callback is writing it, or Zeroed   *)
(* as it was allocated.  A copy that overlaps a write yields Torn: the     *)
(* buffer is converted after the mutex is released, so nothing excludes    *)
(* the overlap.                                                            *)
(***************************************************************************)
EXTENDS Integers

CONSTANTS
  N,              \* asyncbufn, the number of slots of the ring
  Wrap,           \* 2^32: readcnt and the numbers recorded for slots wrap there
  IsReference,    \* TRUE: a crefsdr, whose blocks are sent without is_ready()
  MayFail,        \* TRUE: rtlsdr_read_async may return by itself (device lost)
  MaxBlocks,      \* bound on the blocks delivered before the exit request
  MaxPhantom      \* bound on the read() calls made after stop()

ASSUME NAssumption == N \in Nat \ {0}
ASSUME WrapAssumption == Wrap \in Nat /\ Wrap > N /\ Wrap % N = 0
ASSUME KindAssumption == IsReference \in BOOLEAN /\ MayFail \in BOOLEAN
ASSUME BoundAssumption == MaxBlocks \in Nat /\ MaxPhantom \in Nat

Torn   == -1
Zeroed == -2

VARIABLES
  wp,         \* s8bit.wp, readcnt: blocks delivered
  rp,         \* s8bit.rp: blocks consumed
  newdata,    \* deliveries that no read() has taken yet
  tag,        \* s8bit.readcnt[]: the block number recorded for a slot
  data,       \* s8bit.ptr[]: what the slot holds
  writing,    \* the callback holds mtx, inside setbufferptr
  streaming,  \* csdrdevice::streaming
  exitreq,    \* csdrdevice::do_exit
  async,      \* the asynch thread: "running", "cancelled", then "done", or "lost"
  rpc,        \* the coherent thread, where it stands with this device
  seen,       \* slot contents when convtofloat started
  sfloat,     \* the converted block
  phantom,    \* ghost: read() calls that returned without a delivery
  skipped     \* ghost: read() calls that were not followed by consume()

vars == <<wp, rp, newdata, tag, data, writing, streaming, exitreq, async,
          rpc, seen, sfloat, phantom, skipped>>

readerVars == <<rp, rpc, seen, sfloat, phantom, skipped>>
deviceVars == <<wp, tag, data, writing, async>>

Slots == 0 .. N-1
Slot(i) == i % N          \* i & (N-1): asyncbufn is 8, a power of two
Count(i) == i % Wrap      \* i as a uint32_t, which leaves the slots as they are

\* Blocks started by the callback, the one being written included.
Started == IF writing THEN wp + 1 ELSE wp

ReaderStates == {"idle", "wait", "got", "conv", "send", "done"}

\* The coherent thread has returned from read() and not yet finished with it.
Holding == rpc \in {"got", "conv", "send"}

Init ==
  /\ wp = 0 /\ rp = 0 /\ newdata = 0
  /\ tag = [s \in Slots |-> 0]
  /\ data = [s \in Slots |-> Zeroed]
  /\ writing = FALSE
  /\ streaming = TRUE /\ exitreq = FALSE
  /\ async = "running"
  /\ rpc = "idle" /\ seen = Zeroed /\ sfloat = Zeroed
  /\ phantom = 0 /\ skipped = 0

-----------------------------------------------------------------------------
(* The callback thread.                                                    *)

\* Mutant: the slot is tagged after readcnt was incremented.
TagAfterIncrement ==
  /\ async \in {"running", "cancelled"} /\ ~writing
  /\ wp < MaxBlocks \/ (exitreq /\ async = "running")
  /\ writing' = TRUE
  /\ async' = IF exitreq THEN "cancelled" ELSE async
  /\ tag' = [tag EXCEPT ![Slot(wp)] = Count(wp + 1)]
  /\ data' = [data EXCEPT ![Slot(wp)] = Torn]
  /\ UNCHANGED <<wp, newdata, streaming, exitreq>>
  /\ UNCHANGED readerVars

\* Mutant: the callback that cancels the transfers does not deliver its block.
CancelWithoutDelivery ==
  /\ async \in {"running", "cancelled"} /\ ~writing
  /\ wp < MaxBlocks \/ (exitreq /\ async = "running")
  /\ writing' = ~exitreq
  /\ async' = IF exitreq THEN "cancelled" ELSE async
  /\ tag' = IF exitreq THEN tag ELSE [tag EXCEPT ![Slot(wp)] = Count(wp)]
  /\ data' = IF exitreq THEN data ELSE [data EXCEPT ![Slot(wp)] = Torn]
  /\ UNCHANGED <<wp, newdata, streaming, exitreq>>
  /\ UNCHANGED readerVars

\* asynch_callback up to the copy: a requested exit cancels the transfers,
\* the mutex is taken and the slot is tagged and starts to change.
\* Transfers already queued may still call back after the cancellation.
CallbackBegin ==
  /\ async \in {"running", "cancelled"} /\ ~writing
  /\ wp < MaxBlocks \/ (exitreq /\ async = "running")
  /\ writing' = TRUE
  /\ async' = IF exitreq THEN "cancelled" ELSE async
  /\ tag' = [tag EXCEPT ![Slot(wp)] = Count(wp)]
  /\ data' = [data EXCEPT ![Slot(wp)] = Torn]
  /\ UNCHANGED <<wp, newdata, streaming, exitreq>>
  /\ UNCHANGED readerVars

\* The copy is complete: wp and readcnt advance, newdata is incremented, the
\* mutex is released and waiters are notified.
CallbackEnd ==
  /\ writing
  /\ writing' = FALSE
  /\ data' = [data EXCEPT ![Slot(wp)] = wp]
  /\ wp' = wp + 1
  /\ newdata' = newdata + 1
  /\ UNCHANGED <<tag, streaming, exitreq, async>>
  /\ UNCHANGED readerVars

\* rtlsdr_read_async returns once it was cancelled from the callback.
AsyncReturn ==
  /\ async = "cancelled" /\ ~writing
  /\ async' = "done"
  /\ UNCHANGED <<wp, tag, data, writing, newdata, streaming, exitreq>>
  /\ UNCHANGED readerVars

\* rtlsdr_read_async returns by itself, the device is gone; asynch_threadf only
\* prints a message.
DeviceFails ==
  /\ MayFail
  /\ async = "running" /\ ~writing
  /\ async' = "lost"
  /\ UNCHANGED <<wp, tag, data, writing, newdata, streaming, exitreq>>
  /\ UNCHANGED readerVars

-----------------------------------------------------------------------------
(* The coherent thread.                                                    *)

\* read() while streaming: the condition variable's wait is entered.
ReadEnter ==
  /\ rpc = "idle" /\ streaming
  /\ rpc' = "wait"
  /\ UNCHANGED <<rp, seen, sfloat, phantom, skipped, newdata, streaming, exitreq>>
  /\ UNCHANGED deviceVars

\* Mutant: newdata is decremented whether read() has waited or not.
ReadAlwaysDecrements ==
  /\ rpc = "idle" /\ ~streaming
  /\ phantom < MaxPhantom
  /\ rpc' = "got"
  /\ phantom' = phantom + 1
  /\ newdata' = newdata - 1
  /\ UNCHANGED <<rp, seen, sfloat, skipped, streaming, exitreq>>
  /\ UNCHANGED deviceVars

\* read() after stop(): it returns the buffer at rp without waiting.
ReadWithoutWait ==
  /\ rpc = "idle" /\ ~streaming
  /\ phantom < MaxPhantom
  /\ rpc' = "got"
  /\ phantom' = phantom + 1
  /\ UNCHANGED <<rp, seen, sfloat, skipped, newdata, streaming, exitreq>>
  /\ UNCHANGED deviceVars

\* read() wakes up with the mutex held and a delivery to take.
ReadTake ==
  /\ rpc = "wait" /\ ~writing /\ newdata > 0
  /\ newdata' = newdata - 1
  /\ rpc' = "got"
  /\ UNCHANGED <<rp, seen, sfloat, phantom, skipped, streaming, exitreq>>
  /\ UNCHANGED deviceVars

\* Mutant: one more block than the ring holds is asked for.
ReadyLate == IsReference \/ (Count(wp) > N /\ streaming)

\* is_ready() compares readcnt, so that a device is not ready again for N blocks
\* when it has wrapped around.  The reference device is never asked.
Ready == IsReference \/ (Count(wp) >= N /\ streaming)

\* A signal device that is not ready: the delivery was taken, but consume()
\* is not called and rp stays where it is.
NotReady ==
  /\ rpc = "got" /\ ~Ready
  /\ rpc' = "idle"
  /\ skipped' = skipped + 1
  /\ UNCHANGED <<rp, seen, sfloat, phantom, newdata, streaming, exitreq>>
  /\ UNCHANGED deviceVars

\* Mutant: the newest block is converted instead of the one at rp.
ConvertNewest ==
  /\ rpc = "got" /\ Ready
  /\ seen' = data[Slot(wp)]
  /\ rpc' = "conv"
  /\ UNCHANGED <<rp, sfloat, phantom, skipped, newdata, streaming, exitreq>>
  /\ UNCHANGED deviceVars

\* convtofloat starts to read the slot at rp; no lock is held.
ConvertBegin ==
  /\ rpc = "got" /\ Ready
  /\ seen' = data[Slot(rp)]
  /\ rpc' = "conv"
  /\ UNCHANGED <<rp, sfloat, phantom, skipped, newdata, streaming, exitreq>>
  /\ UNCHANGED deviceVars

\* convtofloat is done: what it read is mixed if the slot changed meanwhile.
ConvertEnd ==
  /\ rpc = "conv"
  /\ sfloat' = IF data[Slot(rp)] = seen THEN seen ELSE Torn
  /\ rpc' = "send"
  /\ UNCHANGED <<rp, seen, phantom, skipped, newdata, streaming, exitreq>>
  /\ UNCHANGED deviceVars

\* transport->write(channel, get_readcntbuf(), sfloat) and consume().
WriteAndConsume ==
  /\ rpc = "send"
  /\ rp' = rp + 1
  /\ rpc' = "idle"
  /\ UNCHANGED <<seen, sfloat, phantom, skipped, newdata, streaming, exitreq>>
  /\ UNCHANGED deviceVars

\* The coherent thread sees its own do_exit, which main sets after this
\* device was stopped, at the head of its loop.
ReaderExit ==
  /\ rpc = "idle" /\ exitreq
  /\ rpc' = "done"
  /\ UNCHANGED <<rp, seen, sfloat, phantom, skipped, newdata, streaming, exitreq>>
  /\ UNCHANGED deviceVars

-----------------------------------------------------------------------------
(* The main thread, shutting down: stop() and then request_exit().         *)

Stop ==
  /\ streaming
  /\ streaming' = FALSE
  /\ UNCHANGED <<newdata, exitreq>>
  /\ UNCHANGED deviceVars /\ UNCHANGED readerVars

\* Mutant: request_exit() before stop().
RequestExitFirst ==
  /\ ~exitreq
  /\ exitreq' = TRUE
  /\ UNCHANGED <<newdata, streaming>>
  /\ UNCHANGED deviceVars /\ UNCHANGED readerVars

RequestExit ==
  /\ ~streaming /\ ~exitreq
  /\ exitreq' = TRUE
  /\ UNCHANGED <<newdata, streaming>>
  /\ UNCHANGED deviceVars /\ UNCHANGED readerVars

\* Both threads have ended.
Finished ==
  /\ async \in {"done", "lost"} /\ rpc = "done"
  /\ UNCHANGED vars

\* The device is gone and nobody wakes the coherent thread: main, which joins
\* it at the end, hangs.
Orphaned ==
  /\ async = "lost" /\ rpc = "wait" /\ newdata = 0
  /\ UNCHANGED vars

-----------------------------------------------------------------------------
Device == CallbackBegin \/ CallbackEnd \/ AsyncReturn \/ DeviceFails

Reader == \/ ReadEnter \/ ReadWithoutWait \/ ReadTake \/ NotReady
          \/ ConvertBegin \/ ConvertEnd \/ WriteAndConsume \/ ReaderExit

Next == Device \/ Reader \/ Stop \/ RequestExit \/ Finished \/ Orphaned

Spec == Init /\ [][Next]_vars

\* The USB host keeps delivering until it was cancelled; the operating system
\* schedules the coherent thread.  Nothing makes the user leave the program.
FairSpec ==
  /\ Spec
  /\ WF_vars(CallbackBegin) /\ WF_vars(CallbackEnd)
  /\ WF_vars(AsyncReturn)
  /\ WF_vars(ReadEnter \/ ReadTake \/ NotReady \/ ConvertBegin
             \/ ConvertEnd \/ WriteAndConsume \/ ReaderExit)

-----------------------------------------------------------------------------
(* Properties.                                                             *)

BlockNumbers == Nat \cup {Torn, Zeroed}

\* Every variable keeps its type; in particular rp never passes the callback
\* by more than the reads that did not wait.
TypeOK ==
  /\ wp \in Nat /\ rp \in Nat /\ newdata \in Nat
  /\ tag \in [Slots -> Nat]
  /\ data \in [Slots -> BlockNumbers]
  /\ writing \in BOOLEAN /\ streaming \in BOOLEAN /\ exitreq \in BOOLEAN
  /\ async \in {"running", "cancelled", "done", "lost"}
  /\ rpc \in ReaderStates
  /\ seen \in BlockNumbers /\ sfloat \in BlockNumbers
  /\ phantom \in Nat /\ skipped \in Nat

\* Three counters kept by two threads stay in step: each delivery is waiting
\* in newdata, is being handled, was consumed, or was taken and dropped by a
\* read() of a device that was not ready (crtlsdr.cc:245-272, ccoherent.cc:245).
Accounting ==
  wp + phantom = newdata + rp + skipped + (IF Holding THEN 1 ELSE 0)

\* While streaming, a signal device falls behind its callback by at most N-1
\* blocks beyond its backlog, all of them lost before the ring was first full,
\* and the reference by none (crtlsdr.h:92-94, ccoherent.cc:245-252).  This holds
\* until readcnt wraps around; a signal device then loses blocks once more.
StartupSkew ==
  streaming => /\ IsReference => skipped = 0
               /\ wp < Wrap => skipped <= N-1

\* The last N blocks started by the callback are in their slots, complete and
\* under their own number, whatever the reader does meanwhile
\* (common.h:127-135).
RingContents ==
  \A b \in 0 .. wp-1 :
    b + N >= Started => data[Slot(b)] = b /\ tag[Slot(b)] = Count(b)

\* Unless the callback has come round to its slot, a block that the reader
\* waited for is sent complete, in its turn, under its own number.
CleanRead ==
  (rpc = "send" /\ phantom = 0 /\ Started <= rp + N)
    => sfloat = rp /\ tag[Slot(rp)] = Count(rp)

\* The coherent thread is never left waiting for a device whose transfers were
\* cancelled: the callback that cancels delivers its block after stop() has
\* closed the way into the wait (crtlsdr.cc:44-49, 77-89, main.cc:422-427).
NoOrphanWait ==
  ~(async = "done" /\ rpc = "wait" /\ newdata = 0)

\* Once an exit is requested, the coherent thread leaves for good the wait it
\* may be in, unless the device was lost.
ShutdownFreesReader ==
  exitreq ~> (async = "lost" \/ [](rpc # "wait"))
-----------------------------------------------------------------------------
(* What makes these inductive.                                             *)

\* While streaming every read() waits, and a signal device has consumed nothing
\* before the ring is first full.
SkewInv ==
  streaming =>
    /\ phantom = 0
    /\ IsReference => skipped = 0
    /\ ~IsReference /\ wp < N => rp = 0 /\ rpc \notin {"conv", "send"}
    /\ ~IsReference /\ wp < Wrap => skipped <= N-1

\* The slot being written is already tagged with the number it will have.
WritingTag == writing => tag[Slot(wp)] = Count(wp)

\* A conversion in progress started on the complete block at rp, unless the
\* callback has come round to its slot.
ConvertInv ==
  (rpc = "conv" /\ phantom = 0 /\ Started <= rp + N) => seen = rp

\* The callback that cancels the transfers still has its block to deliver.
WaitInv ==
  /\ exitreq => ~streaming
  /\ async \in {"cancelled", "done"} => exitreq
  /\ rpc = "wait" /\ async = "cancelled" => writing \/ newdata > 0
  /\ async = "done" => ~writing /\ (rpc = "wait" => newdata > 0)
=============================================================================
