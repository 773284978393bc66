# A TLA+ verification of AegirSDR

AegirSDR reads several software-defined radio receivers that share a clock,
aligns their sample streams in time and phase against a reference receiver, and
publishes the aligned streams as packets on a ZeroMQ socket. Nearly everything
that can go wrong in it goes wrong between threads: USB callbacks against the
coherent thread, the coherent thread against the send loop of main, control
threads against the console, and all of them against the shutdown. That is what
this project models (TLA+), checks on small instances (TLC) and proves for
every value of the constants (TLAPS).

Paths are those of the repository, whose C++ sources are in `src/` and
`include/`; `PROJECT.json` maps every definition to its lines.

    tlc -workers 2 -config MCRing.cfg SampleRing      # one of the runs
    tlapm SampleRingProofs.tla                        # one of the proof modules

The `.cfg` of a run carries the name of the run; `PROJECT.json` says which
module it is for. Constants are plain numbers, so that the component module is
checked as it stands and needs no wrapper module.

## 1. The system

### 1.1 Threads

| thread | code | how many |
|---|---|---|
| main: reads options, opens and starts the devices, loops in `ctransport::send()`, shuts down | `main.cc` | 1 |
| asynch thread: runs `rtlsdr_read_async`, whose callbacks fill the ring | `crtlsdr.cc`, `chackrf.cc` | one per device |
| control thread: drives the time synchronisation of one signal device | `ccontrol.cc` | one per signal device |
| coherent thread: reads all devices in turn, writes packets, measures lags | `ccoherent.cc` | 1 |
| console thread: executes commands | `console.cc` | 1 |
| local and remote thread: read commands from the terminal and from a socket | `console.cc` | 1 each |

### 1.2 Components

**Sample ring of a device** (`common.h` `cbuffer`, `csdrdevice`, `crtlsdr`,
`chackrf`). *State*: the ring (`wp`, `rp`, slots, the block number of each
slot), `newdata`, `streaming`, `do_exit`, the converted block `sfloat`.
*Operations*: `asynch_callback` (tag and fill a slot, advance, notify),
`read()` (wait for a delivery), `convtofloat()`, `consume()`, `is_ready()`,
`stop()`, `request_exit()`. *Interactions*: the callback is called by
librtlsdr, the rest by the coherent thread and by main; mutex and condition
variable guard `newdata` and the copy into the ring, not the conversion out of
it. *Hard*: overtaking, start-up, shutdown in the middle of a read, loss of the
device. *Correct when*: each block the reader waits for is converted once, whole,
in turn and under its own number; counters kept by two threads agree; shutdown
frees the reader.

**Coherent thread** (`ccoherent`). *State*: the device it is at, the column
counter, the lag queue, `do_exit`. *Operations*: a pass: read the reference, then
each signal device; write a column and consume, or pass the device over; queue
lags; `computelag`; `notifysend`. *Hard*: one device that is late holds up or
shifts the others; devices are stopped under its feet. *Correct when*: all
devices advance by one block per pass, columns keep the order of the devices, a
device that has a column does not lose it, and what one device lags behind another is
its start-up skew.

**Transport** (`ctransport`). *State*: two packet buffers and the pointers
to them, `bufferfilled`, the sequence number. *Operations*: `write()` and
`notifysend()` from the coherent thread, `send()` from main. *Hard*: only the
swap and the wait hold the mutex; main looks both pointers up without it.
*Correct when*: a packet carries one pass, whole, under its own header and
in its turn, no notification is lost, and the loop is left after SIGINT.

**Time synchronisation** (`ccontrol`, `csdrdevice`, `ccoherent::computelag`).
*State*: per device `lagrequested`, `lagready`, `lagp`, `synced`, the
correction of the resampler. *Operations*: the loop of the control thread (wait
until unsynchronised, request a lag, wait for it, correct or declare
synchronised), the answers of the coherent thread, `request sync`, `request lag`
and `samplerate` of the console, the exit requests of main. *Hard*: flags
shared by four threads and written in more than one step; verdicts on a stale
lag; a queue shorter than the list of devices. *Correct when*: requests are
answered, corrections taken back, a device declared synchronised is aligned, and
every device gets there.

**Console** (`console.cc`, `lqueue`). *State*: the command queue and its
pointer, `command_processed`, `exit_console`, `do_exit`. *Operations*: push
and pop, the commands, quit, exit by main. *Hard*: three threads hand a
flag round; the queue is created and deleted by one of four threads that use it;
joins of threads blocked in a read; a command that waits for another thread.
*Correct when*: a queue is used only while it lives, quit ends the program, the prompt
returns, no join hangs.

**Start of the devices** (`barrier` in `common.h`, `crtlsdr::start`,
`main.cc:385-412`). *State*: the list of devices, the count of the barrier.
*Operations*: open each device and drop it when that fails, create the barrier for
those that are left, start a thread for each, meet, start the transfers. *Hard*: a
barrier for the wrong number of devices lets nobody through; one that lets somebody
through early shifts that device against the others. *Correct when*: none
leaves early, all leave.

**Main and lifecycle** (`main.cc:405-449`, the destructors). *State*: `exit_all`, the
handles, the barrier. *Operations*: start the console and the coherent thread, the send
loop, SIGINT, stop and tell every device to exit, join the coherent thread, close the
reference, tell the console, close the signal devices, join the console, delete.
*Hard*: asynch, control and console threads still use what is being closed; SIGINT may
come before the start is over. *Correct when*: the program ends, and a closed handle or
a deleted barrier is used by no call that was begun after its thread was told to end.

**Reference noise and phase correction** (`crefnoise`, `csdrdevice`,
`console.cc` `phase`). *State*: the noise flag, per device `sfloat` and the
running average of the phase coefficient. *Operations*: convert, correlate with
the reference, estimate, correct in place, send (coherent thread); switch the noise,
convert and estimate by command (console thread), without a lock on `sfloat`.
*Hard*: two writers of one buffer; a flag tested per device and switched in
between; an average that never recovers from a NaN. *Correct when*: what is sent is
the block of its pass, corrected once; estimates stop with the noise; coefficients
are numbers.

**Lag measurement** (`cdsp`, `ccoherent::computelag`): FFT, cross-correlation,
peak search and interpolation. **Configuration** (`yamlparser.cc`, `common.cc`,
`main.cc`): options of the command line over those of a yaml file. **Clients**
(`soapydrv`, `gr-Aegir`, `matlabclient`): consumers of the packet stream in other
processes. **Documentation tooling** (`gr-Aegir/docs`) and a **flow graph**
(`gnuradio/`): all the Python of the repository. None of these is modelled; "Not
modelled" in section 5 says why.

### 1.3 How the components meet

    librtlsdr --callback--> ring(d) --read/convert/consume--> coherent thread
    coherent thread --write/notifysend--> packetbuf0/1 --send--> main --> ZeroMQ
    control(d) --lagrequested--> coherent thread --set_lag--> control(d)
    control(d) --set_correction_f--> device d
    terminal, socket --push--> commandqueue --pop--> console thread
    console thread --set_synchronized, requestfftblocking, set_samplerate--> devices
    main --stop, request_exit--> devices, control threads, coherent, console

    console thread --convtofloat, est_phasecorrect--> sfloat, phasecorr <--same-- coherent thread

The shutdown (`main.cc:418-449`) crosses all of them: SIGINT sets `exit_all`,
`send()` returns with one more packet, each device is stopped and told to exit, the
coherent thread is told and joined, the handle of the reference is closed, the
console is told, the other handles are closed, the console is joined. `Lifecycle`
models all of it over threads reduced to what they ask of it; the other modules model in
detail the part that meets their component.

## 2. The modules

| module | models | state in the code |
|---|---|---|
| `SampleRing` | one device, its callback thread, its reader, its shutdown | `wp`, `rp`, `newdata`, `streaming` as in the code; `tag` = `s8bit.readcnt[]`; `data` = the slots; `exitreq` = `do_exit` |
| `Coherent` | all devices, the coherent thread and main's shutdown of them | `ring[d]` = the state of `SampleRing` per device; `column` = the counter `c`; `packet` = the columns of `packetbuf0` |
| `Publisher` | what a client of the socket is promised | `made` = passes handed over; `packet` = the one that went out last |
| `Transport` | double buffer, `write`/`notifysend` against `send` | `buf0`, `buf1` = `packetbuf0`, `packetbuf1`; `hdr`, `body` = header and columns of a buffer; `filled` = `bufferfilled`; `sent` = the last packet |
| `TimeSync` | control threads, lag queue, console commands on devices, shutdown | `lagrequested`, `lagready`, `lagp`, `synced` as in the code; `offset` = the lag the samples really have |
| `PhaseCorrection` | `sfloat` and the phase coefficients, under the coherent and the console thread | `enabled`, `sfloat` as in the code; `nan` = the devices whose average is NaN; `taken` = `rp` |
| `Console` | queue, local, remote and console thread, main's exit request | `alloc`, `q` = `commandqueue`; `processed`, `exitconsole`, `doexit`, `exitall` = the four flags |
| `StartBarrier` | opening, barrier and start of the asynch threads | `opened` = the devices vector; `cnt` as in the code |
| `Lifecycle` | EXTENDS `StartBarrier` with the program to its end | `stopped`, `exiting` = `streaming`, `do_exit` of the devices; `closed`, `freed` = handles, barrier; `coh`, `con`, `ctl`, `at` = where each thread is |
| `*Proofs` | the theorems about the module of that name | |

**Abstraction and refinement.** There are three, all proved (section 4) and two of
them also run.

* `SampleRing` is the abstract specification of a device: what one callback
  thread and one reader promise each other. `Coherent` is the detailed one: a single
  reader goes round all devices, and main stops one after the other.
  `RingsImplemented` states that every device, taken by itself, implements
  `SampleRing`. The mapping takes the fields of `ring[d]`, and `rpc` from the place of
  the coherent thread: its own state while it is at device `d`, idle otherwise,
  done when the coherent thread has ended.
* `Publisher` is what the transport promises its clients, and it is less than order.
  Passes come out in order and some are left out, as long as main is not two passes
  late. When it is, `send()` may copy a buffer that was written again whole and not yet
  handed over: the pass after next goes out *early* (`PublishEarly`). After it the pass
  before it may still go out, one step back, or its own pass once more under another
  number. Otherwise the pass that came out last only comes again as the same packet or
  spoilt, and a packet is torn only after a later pass was handed over. `Transport`
  implements it (`ClientPromise`), with the passes notified for `made` and the last
  packet for `packet`. `Publisher` promises nothing of the sequence numbers of two
  passes, because the code does not keep it (section 6).
* `StartBarrier`'s `StartSpec` is a specification by itself. `Lifecycle` extends its
  state and its steps, and its main deletes the barrier. A deleted barrier keeps no
  promise: a thread that is in it or comes to it may pass or sleep for ever
  (`BarrierGone`). Theorem `Implementation` states when that cannot happen: a program
  that is not told to end before its first packet implements `StartBarrier` to its end.

**Granularity.** What the code does under one mutex is one action. What it does
without a lock is split at each access to shared state: `convtofloat` is a
begin and an end, with a slot that changes in between read as `Torn`; `send()` looks
up each pointer, begins its copy and ends it in actions of their own; the local thread of
the console reads `exit_console` and `command_processed` in two; `requestfftblocking()` is its two
assignments and its wait; `phase` is a look-up, a conversion, a correlation and an
estimate per device. A copy of a buffer is whole or torn; which bytes are mixed
is left out.

**Data.** A block of samples is its number in the stream of its device. A pass of the
coherent thread is its number. A lag is its order of magnitude: 0 is within
`sync_threshold`, and a correction takes one order off, because
`ccontrol.cc` corrects nine tenths of the lag it is told (`frac_t`). A command
is `quit`, `request lag` or any other in `Console`; in `TimeSync` it is what it does to the
devices, in `Lifecycle` which handles it calls, or that it waits for lags. `request lag`
is in all three because it alone waits for another thread (`csdrdevice.h:145-152`). `sfloat` is a block and how often it was
multiplied; a coefficient is a number or NaN. `readcnt` and the numbers in the slots
are taken modulo `Wrap`, which stands for 2^32 and is any multiple of the ring; the
pointers `wp` and `rp` are not, because a ring of 8 is indexed by their low bits
and nothing compares them.

**Bounds.** All are constants, in guards: `MaxBlocks` (deliveries before an
exit request; after one, a callback that has yet to cancel is always allowed),
`MaxPhantom` (reads of a stopped device, which do not wait), `MaxPasses`,
`MaxLines`, `MaxRemote`, `MaxCommands`; `Lifecycle` has none. Where a bound makes the system stop that
would not stop, the module has an action for it, named and commented
(`BoundReached` in `Coherent` and `PhaseCorrection`); `Finished` actions are real ends.
`SampleRing`'s `Orphaned` is a real hang, see section 6.

## 3. What is checked

Sizes are distinct states. No run uses symmetry, since devices are ordered.

| run | question | instance | states |
|---|---|---|---|
| `MCRing` | Do callback and reader agree, in every interleaving with stop, exit and loss of the device? | ring of 4, counts wrap at 8, 13 blocks, 2 reads after stop | 164 k |
| `MCCoherent` | Do passes keep the devices in step? | reference and 2 signal devices, ring of 2, counts wrap at 4, 6 blocks | 6.4 M |
| `MCCoherentRings` | Does each device implement `SampleRing`, does the shutdown end the coherent thread? | reference and 1 signal device, ring of 2, 3 blocks | 479 k |
| `MCTransport` | Does the transport implement `Publisher`, are packets whole, is no notification lost, does the loop end? | 5 passes and 2 more at the end | 20 k |
| `MCTimeSync` | Do devices converge, is `synced` true? | 2 devices, a queue with one place for them, lags to level 2, one `request sync` | 66 k |
| `MCTimeSyncStop` | Which waits hold up the shutdown? | 1 device, 2 commands of any kind, exit at any time, joins of the coherent and the console thread | 71 k |
| `MCPhase` | Is what is sent corrected once, do estimates stop, do coefficients stay numbers? | 2 signal devices, ring of 2, 3 passes, 2 commands | 806 k |
| `MCConsole` | Do quit, Ctrl+C and Ctrl+D all end the program? | 2 lines, 2 remote messages, any of them quit or request lag | 331 k |
| `MCLifecycle` | Do all devices start together, does the program end, who uses what is closed? | reference and 2 signal devices, any of which may fail to open; spurious wake-ups; SIGINT, quit and request lag at any time | 1.03 M |
| `MCTransportHeader`, `MCTimeSyncLost`, `MCConsolePrompt` | the three disagreements of section 6 | smallest that shows them | |

**Why the bounds are enough.** In `MCRing` 13 blocks fill the ring of 4, take the
count past its wrap at 8, fill the ring once more after it and leave one block for each
slot but one: the reader can be anywhere in it at each of these moments. In
`MCCoherent` every signal device can become ready late, in the same pass or a
different one, and once more after the wrap; two signal devices are the fewest that
can change columns. The refinement needs one device of each kind, as other devices only
delay the reader; the run without shutdown is kept apart from the one with it to
afford a second signal device. In `Transport` two buffers are involved and a send is
overtaken by one and by two passes within four; the fifth follows an early packet.
`MCTimeSync` has the fewest devices that compete for the queue (`nfft = 2` leaves one place), a lag that needs two
corrections and a command that undoes a synchronisation. `MCTimeSyncStop` gives a
command time to be started in the wait of another thread. In `MCPhase` the second
device is visited after a switch in mid-pass, the third pass reuses the first slot
of a ring of two, and the second command overlaps what the first left behind. For
`MCConsole` two lines and two messages make a second command queue up behind a `quit`
or a `request lag` from either side. In `MCLifecycle` two signal devices give a list that is
empty, has one of either, or both; no counter needs a bound.

**Properties, by module.**

* `SampleRing`: `Accounting` (every delivery is pending, in hand, consumed or
  passed over), `StartupSkew` (what is passed over is bounded by the ring and
  settled before the first block is sent), `RingContents` and `CleanRead`
  (data), `NoOrphanWait` and `ShutdownFreesReader` (shutdown).
* `Coherent`: `PassesAgree`, `ColumnsInOrder`, `OffsetIsSkew` (the blocks in a
  packet differ by exactly the start-up skews of their devices),
  `ColumnsStay` (a device that has had a column has one in every later packet),
  `RingsImplemented`, `ShutdownCompletes`.
* `Transport`: `ClientPromise` (it implements `Publisher`), `CopyIntact`,
  `PromptPacket`, `NothingLeft` (main never waits with the last pass unsent),
  `NotificationServed`, `LastPassSent`, `InterruptServed`.
* `TimeSync`: `NoStrayCorrection`, `SyncedMeansAligned`,
  `StandingRequestServed`, `Converges`, `OnlyLagHoldsUp` (main's joins end, except
  that of a console which waits for a lag nobody computes any more).
* `PhaseCorrection`: `SentCorrected` (a column is the block of its pass, corrected
  once), `EstimateAligned` (blocks of one pass are correlated), `LateEstimates` (at
  most one estimate after the noise is disabled), `CoefficientsFinite`.
* `Console`: `JoinedBeforeDelete`, `ExitSeen` (main never joins a console thread that
  sleeps on an empty queue), `ExitCompletes`, `QuitEnds`, `QuitServed`.
* `Lifecycle`: `StartTogether` and `NobodySleepsOn` (`TogetherOrNotAtAll` and
  `NobodyLeftAsleep` of `StartBarrier` as long as the barrier serves: a device starts
  only when all have come, and then none sleeps on), `StartIsOver` (once main
  has waited for a packet no asynch thread meets a deleted barrier or a closed handle
  at its start), `LateCalls` (only calls begun before meet a closed handle),
  `AllStart`, `ShutdownCompletes`.

Each module also has one type invariant. All are proved; only that of `TimeSync` is
also run, because it bounds the lag queue. Every property is accompanied by a
mutated definition in its module (comment "Mutant:") under which TLC finds it
violated; mutants are no part of `Next`.

**Properties with a premise.**

* `Converges` assumes that no request is lost, since `MCTimeSyncLost` shows that
  one can be.
* `SyncedMeansAligned` speaks of runs with `request sync` as the only command. With
  `samplerate` it does not hold, because a verdict on the lag before the change may be
  declared after it; nor with `request lag`, whose measurement may be taken while
  the control thread corrects.
* `StartupSkew` and `ColumnsStay` hold until `readcnt` wraps around. Then
  `is_ready()` is false again for a ring of blocks, and the device loses as many of them
  as the reader asks for meanwhile, with its column: a new skew, equally permanent.
* `CleanRead` and `OffsetIsSkew` leave out blocks that the callback has come
  round to, `CopyIntact` and `PromptPacket` sends that two passes have overtaken.
* `SentCorrected` and `EstimateAligned` leave out devices the command `phase`
  came to between conversion and sending; `CoefficientsFinite` programs in which it
  came before the first packet.
* `OnlyLagHoldsUp`, `ExitCompletes`, `QuitServed` and `Lifecycle`'s `ShutdownCompletes`
  each name the one wait that need not end: `request lag` in the console thread
  (section 6). They show that there is no other. `QuitEnds` supposes that the local
  thread does not wait for a line for ever: a `quit` executed after it has read
  `exit_console` and before it reads `command_processed` leaves it in `getline`.
* `Lifecycle`'s `ShutdownCompletes` and `AllStart` also leave out behaviours in which a
  call was made with a closed handle or deleted barrier: what follows is undefined.
  `StartTogether` and `NobodySleepsOn` hold while `BarrierServes`: the barrier exists, or
  main had waited for a packet when it deleted it.

**Fairness.** Weak fairness of each thread that does not wait for a person: the
operating system schedules it, mutexes are released, `nanosleep` ends, USB
delivers as long as the transfers run (and cancelled transfers call back), the
receive of the remote thread has a timeout. Nothing obliges the user to type, to
send a message or to end the program, with one exception: after
SIGINT the user presses Ctrl+D when `signal_handler` asks for it (`main.cc:58`). `Console`
states that of the local thread; in `Lifecycle`, which has no local thread, it is the
condition `InputEnds`, that the console thread ends once told to. After the end of the input
`getline` returns at once every time (`Ended`). That the coherent thread answers a
`request lag` is not assumed in `Console` and `Lifecycle`; in `TimeSync`, which has the
answers, the wait ends when one is there and not otherwise. `Lifecycle` asks nothing of the
control threads, of spurious wake-ups or of a thread asleep in a deleted barrier.
`PhaseCorrection` has no liveness property and states no fairness. No strong fairness is
used.

## 4. What is proved

TLAPS proves the following for every value of the constants that the modules'
assumptions allow: any ring size, any wrap of its counts, any number of devices, any
queue, any bound.

| module | theorem | states |
|---|---|---|
| `SampleRingProofs` | `TypeCorrect` | `[]TypeOK` |
| | `DeliveriesCounted` | `[]Accounting` |
| | `SkewBounded` | `[]StartupSkew` |
| | `RingCorrect` | `[]RingContents` |
| | `ReadCorrect` | `[]CleanRead` |
| | `ShutdownCorrect` | `[]NoOrphanWait` |
| `CoherentProofs` | `TypeCorrect` | `[]TypeOK` |
| | `PassesCorrect` | `[]PassesAgree` |
| | `ColumnsCorrect` | `[]ColumnsInOrder` |
| | `ColumnsStayCorrect` | `[]ColumnsStay` |
| | `DevicesCorrect` | `[]` of `Accounting`, `StartupSkew`, `RingContents`, `CleanRead`, `NoOrphanWait` of every device |
| | `OffsetCorrect` | `[]OffsetIsSkew` |
| | `RingsCorrect` | `RingsImplemented` |
| `TransportProofs` | `TypeCorrect` | `[]TypeOK` |
| | `CopyCorrect` | `[]CopyIntact` |
| | `PacketCorrect` | `[]PromptPacket` |
| | `NotificationsKept` | `[]NothingLeft` |
| | `PromiseKept` | `ClientPromise`: `Transport` implements `Publisher` |
| `TimeSyncProofs` | `TypeCorrect` | `[]TypeOK` |
| | `CorrectionsTakenBack` | `[]NoStrayCorrection` |
| | `SyncedCorrect` | `[]SyncedMeansAligned` |
| `PhaseCorrectionProofs` | `TypeCorrect` | `[]TypeOK` |
| | `SentCorrect` | `[]SentCorrected` |
| | `EstimatesAligned` | `[]EstimateAligned` |
| | `LateBounded` | `[]LateEstimates` |
| | `CoefficientsCorrect` | `[]CoefficientsFinite` |
| `ConsoleProofs` | `TypeCorrect` | `[]TypeOK` |
| | `QueueCorrect` | `[]JoinedBeforeDelete` |
| | `ExitCorrect` | `[]ExitSeen` |
| `StartBarrierProofs` | `TypeCorrect` | `StartSpec => []StartTypeOK` |
| | `BarrierCorrect` | `StartSpec => []TogetherOrNotAtAll` |
| | `AwakeningCorrect` | `StartSpec => []NobodyLeftAsleep` |
| `LifecycleProofs` | `Implementation` | `Spec /\ []AfterFirstPacket => StartSpec`: `Lifecycle` implements `StartBarrier` if it is not told to end before its first packet |
| | `StartCorrect` | `[]StartTogether` |
| | `AwakeningKept` | `[]NobodySleepsOn` |
| | `StartIsOverCorrect` | `[]StartIsOver` |
| | `LateCallsCorrect` | `[]LateCalls` |
| | `ReadsReleased` | `[]LastBlockLeft` |
| | `LifeTypeCorrect` | `[]TypeOK` |

**The arguments.** Few of the properties are inductive by themselves.

* *Counters* (`CountInv`). `Accounting` is nearly inductive; `StartupSkew` is
  not, because a pass-over is only bounded while nothing was consumed. `SkewInv`
  adds that before the ring is first full a signal device has `rp = 0` and is not
  being converted; then `Accounting` bounds what was passed over by the deliveries,
  fewer than `N`.
* *Ring* (`RingInv`). `RingContents` needs to know that the slot being
  written bears the block's number (`WritingTag`), and that slots fewer than `N` apart
  are distinct (lemma `SlotsApart`, on `%`). A conversion is right if it
  started right (`ConvertInv`) and no delivery has come round since; that the
  block was there at all follows from `Accounting` (`HeldWasDelivered`).
* *Shutdown of a ring* (`ShutdownInv`). A cancellation implies that `stop()` came
  before. The callback that cancels is still writing or has delivered: so a
  reader in the wait has something to take, and no other reader can
  enter it.
* *Coherent thread*. A step changes the counters of one device at most
  (`RingUpdate`, `ReaderCounts`), and only `WriteAndConsume` and `PassOver` move on:
  they add one to what the device has consumed or was passed over for, which is what
  `PassesAgree` counts. `Place` ties the column counter to the device, so that a
  column is never written twice. `ColumnsStayCorrect` needs to know
  of the pass under way (`StayInv`) that the devices handled already have their columns if
  they ever had one: a device that streams, has not wrapped and is passed over has had
  fewer deliveries than its ring has slots, hence by `SkewInv` has consumed nothing
  (`PassedOverEmpty`). For `RingsCorrect` every action of `Coherent` is
  shown to be one action of the `SampleRing` of the device it touches and a stutter
  of all others; the bound on reads of a stopped device needs `LastPass`, that a pass
  reads each device once more at most after the coherent thread was told to end.
* *Every device* (`DeviceInv`). The invariants of `SampleRing` are about one device with
  a reader of its own. `RingKept` states them of each device of `Coherent`. A step of
  `Coherent` is one of the `SampleRing` of the device it touches and a stutter of the others
  (`StepMaps`); so each lemma about a step of the ring
  is stated once more for a device `d`, and `DevicesCorrect` collects what follows for
  all of them. Theorem `RingsCorrect` alone would not do: it says that behaviours are
  those of `SampleRing`, and a theorem of a module instantiated with a parameter cannot
  be cited.
* *Offset* (`OffsetInv`). Why two columns of a packet differ by the start-up skew: the
  block in a column is the one its device was due when it was written, or its slot had
  been reused (`SentInv`, from `CleanRead` of that device); what was due is what the
  device had consumed; and by `PassesAgree` that and what it was passed over for make up
  what the reference has consumed. A step of another device leaves the column and the
  counters alone (`SentAppended`), and a device that was overtaken stays so until the
  packet is sent (`UnlappedBefore`).
* *Transport* (`TransportInv`). `packetbuf1` always holds the pass handed over
  last (`BodyInv`); the buffer looked up is `packetbuf1` until the next hand-over
  and `packetbuf0` until the one after it (`CopyInv`); likewise for
  the buffer the header went to (`HeaderInv`). After two hand-overs the buffer in hand
  may hold any pass from the one looked up to the next to be handed over, or be torn,
  and this again when the copy begins (`HeldInv`, `SeenInv`). `PacketIs` says what
  `send()` can make of that. For the refinement, `OrderInv` says
  that the pass looked up is at least the pass sent, or the one before it if that was
  early, and `RepeatInv` that a pass which is looked up again still has in its buffer the
  header it was first sent with. `TakenInv`
  is why no notification is lost: the flag is taken before the buffer is looked up, so
  that a pass handed over after the take sets it again.
* *Time synchronisation* (`SInv`). A control thread that has its answer has no
  request standing (`AlignInv`), and what is queued has one (`QueueInv`): a device
  in the queue is not being corrected, so that its lag stays true until it is
  answered. The queue is ordered by device, hence holds each once.
* *Phase correction*. `PassInv` gives the number of the block each device is at,
  `CleanInv` that without a phase command this is the block in `sfloat`, multiplied
  once it is ready to be sent. `LateInv`: an estimate decided on before the noise was
  disabled is the first late one, and no other is decided on after. `FiniteInv` follows
  the zeroes: until an early phase command no buffer that is converted, held or
  correlated is block 0.
* *Console* (`QueueInv`). Where the console thread is tells whether the queue
  lives (`Life`), and that the local and the remote thread have ended before it is
  deleted; `Taken` says that the console thread alone takes from it. `ExitInv` follows
  main's request: it sets `do_exit` before it pushes, so that a console thread which looked
  too early finds the command of main, or one before it, in the queue.
* *Barrier* (`BarrierCounts`). `cnt` is the number of threads still to come, so
  that it is 0 only when all have come. It uses the library's facts on
  cardinalities. `Awakened`: a thread goes to sleep only while another is still to come,
  and the last one wakes all that sleep in the step that makes the count 0.
* *Lifecycle* (`AllInv`). While the barrier serves, every step is one of `StartBarrier` or
  leaves its variables alone (`Implements`), which keeps its invariant (`StartInv`). That
  main deletes the barrier too late to harm anybody is no matter of form: it follows
  from `PassesRead` below, by which a main that has waited for a packet has seen all
  threads past it. `MainPlace` says what main has
  stopped and closed by where it is, `PassesRead` that a pass which has come to a
  device has read all before it, so that the first packet shows that all devices
  stream and nobody is at the barrier, and `CallsHeld` that every thread caught in a call when told to end is
  recorded. The next device of a list is the least of those left (`LeastNext`), a
  fact on well-founded sets. `ReadInv` is the order of the shutdown as the coherent
  thread meets it: a device is stopped before it is told to end and told before its
  transfers end, so that a wait, which begins on a device that streams, is older than the
  last delivery and finds it.

**Out of the prover's reach**, and model-checked only: liveness under fairness
(`ShutdownFreesReader`, `ShutdownCompletes` of both modules, `NotificationServed`,
`LastPassSent`, `InterruptServed`, `StandingRequestServed`, `Converges`,
`OnlyLagHoldsUp`, `ExitCompletes`, `QuitEnds`, `QuitServed`, `AllStart`). Every
invariant and action property that a run checks is proved. Where something must
eventually happen the part of it that is safe is proved too, namely that nobody
sleeps past what would wake him: `NoOrphanWait` for `ShutdownFreesReader`, `NothingLeft`
for `NotificationServed` and `LastPassSent`, `NobodySleepsOn` for `AllStart`,
`ExitSeen` for `ExitCompletes`, `LastBlockLeft` for the `ShutdownCompletes` of
`Lifecycle`. `Converges`, `StandingRequestServed` and `OnlyLagHoldsUp` have no such part:
a control thread may wait for ever (`MCTimeSyncLost`), and so may the console.

## 5. What the models leave out, and why

* **Start-up skew depends on scheduling.** How many blocks a device is passed over
  depends on when the coherent thread begins to read. In the program it starts
  last and plans its FFTs first, so the rings usually fill before the first
  read; nothing in the code enforces it, and the models start both at once.
* **Age of a lag.** The samples measured are at most a ring of 8 blocks old. The
  sleep of a correction lasts at least 184320 samples (`ccontrol.cc:36-38,79-102`:
  `0.9 * 100 * 2^11`), 22 blocks of the default 8192 samples, so that `TimeSync` may
  take the lag when the device is visited.
* **HackRF.** Same streaming code, described by `SampleRing`;
  `set_correction_f` does nothing, so that `TimeSync` does not apply to it.
* **Build variants.** `USELIBRTLSDRBUFS`, `RASPBERRYPI` and the packet variants
  without header or with 32-bit floats.
* **`std::queue`.** `lqueue::pop()` takes the front after releasing
  the mutex. The order is modelled, the data race is not: front and back share
  storage only when `push()` has to grow the map of the deque.
* **Non-blocking `logs`.** `logs` reads the pipe `main` puts on stderr with `-q`,
  non-blocking (`main.cc:75`); without `-q` it reads standard input
  (`console.cc:373`), which ends with the input. `Console` counts it among the commands
  that return.
* **Remote messages.** The ROUTER socket delivers the identity of the sender as a
  message of its own, and the payload has no terminating zero. `Console` lets any
  remote message be `quit` or another command, which covers both.
* **Phase arithmetic.** A correlation is taken for 0 exactly when one of its blocks is
  all zeroes. `PhaseCorrection` takes all devices for ready and in step, which is what
  `Coherent` shows of them, and lets each pass be synchronised or not.
* **Signal processing, formatting, tuning and gain commands, option parsing.** They
  change no state that the properties are about.
* **Which calls fail.** A call of librtlsdr that fails prints a message and changes
  nothing else; only the opening of a device and the loss of one are modelled.

### Not modelled

* **Lag measurement and DSP kernels**: real-valued arithmetic by VOLK and FFTW.
  `TimeSync` and `PhaseCorrection` take its results as inputs.
* **Configuration**: parsing of a file and of the command line before any thread exists.
  Its outcome is the constants of the modules.
* **Clients** (SoapySDR plugin, GNU Radio block, Matlab scripts): programs in other
  processes that keep no state between two packets. What they may receive is
  `Publisher`.
* **Packet layout**: `packetlength` and the row-major conversion, sequential code
  on the bytes of one packet.
* **`ctransportsoapy`**: a copy of the transport whose `send()` publishes nothing;
  no code creates it.
* **The Python of the repository**: the documentation scripts `gr_modtool` puts
  into every out-of-tree module (`gr-Aegir/docs`), the XML bindings generated for them,
  and a flow graph that GNU Radio Companion generates (`gnuradio/gnuradiozmq.py`). None
  of it is code of the receiver, none runs with it, and none keeps state a property
  could be about. The receiver is C++ throughout, and so is everything `PROJECT.json`
  maps.

## 6. Where code and documentation disagree

Three disagreements have a run, whose counterexample is the evidence:

1. `MCTransportHeader`: a packet can be published with the header as
   allocated, when two passes end during one `send()`, or one before the first
   (`ctransport.cc:137`). The SoapySDR plugin calls that an invalid header. For the same
   reason a later packet may carry an earlier sequence number, or the same one as
   another pass.
2. `MCTimeSyncLost`: `requestfftblocking()` sets `lagrequested` before it clears
   `lagready` (`csdrdevice.h:145-146`). An answer in between is cleared and the control
   thread waits for ever.
3. `MCConsolePrompt`: the local thread clears `command_processed` after its push,
   perhaps after the console thread has set it (`console.cc:51`): the prompt does
   not return.

Others were met while modelling and are part of the models, without a run of their
own:

* After `quit`, main pushes on the queue the console thread has deleted
  (`console.cc:158,406`; `JoinedBeforeDelete` says that nobody else does).
* SIGINT during the start goes straight to the shutdown after it: handles are closed
  and the barrier is deleted under asynch threads that have not come to it
  (`main.cc:418-445`; `BarrierGone`, and the premises of `StartIsOver`, `StartTogether` and
  `NobodySleepsOn`).
* The reference is closed before the console is told to end, so that a command
  begun after may still use its handle, and control threads are never joined
  (`main.cc:430-432`; `LateCalls`). `delete ref_dev` destroys the members of the
  derived class before the base class joins the asynch thread, whose callback may still
  be using the ring.
* `phase` is listed as `list phasecorrections` (`README.md:27`) but makes a new
  estimate for each device, from whatever slot is at `rp`, also with the noise disabled;
  before the first packet it correlates zeroes, and the coefficient is NaN from then on.
* Phase corrections are `updated continuously` (`README.md:25`), but a pass in which
  all devices are synchronised estimates nothing (`ccoherent.cc:241-255`).
* A lost device leaves the coherent thread in its wait and main in the join
  (`crtlsdr.cc:62`; action `Orphaned` of `SampleRing`, a real hang).
* A device whose skew has used up the slack of the ring may have its block
  replaced during the conversion (`crtlsdr.cc:275`; the premise of
  `CleanRead`).
* A device that is not ready shifts the columns of those after it
  (`ccoherent.cc:273`); `ColumnsInOrder` is what remains. The last columns of such
  a packet hold what was there two passes before, and the header still counts them. So
  do the columns of devices that could not be opened, which stay zero: the transport
  is sized by the devices asked for (`main.cc:355`).
* `readcnt` wraps around after 2^32 blocks, about 200 days at the default rate
  and block size; each device that streams on loses up to a ring of blocks then, which
  shifts it against the reference for good (`csdrdevice.h:186`, `crtlsdr.h:92`).
* A send that is overtaken twice, between its look-up of `packetbuf1` and the end of
  its copy (`ctransport.cc:150-155`), publishes a buffer being written, or one written
  whole and not yet handed over: pass n + 2 goes out, and then pass n + 1 or n + 2 again
  (the premises of `CopyIntact` and `PromptPacket`; `PublishEarly`, `PublishSpoilt` and
  the torn packets of `Publisher`).
* `samplerate` may be followed by `synced` on the old lag (section 3).
* `request lag` does not return while all devices are synchronised
  (`ccoherent.cc:242`), executing nothing meanwhile, not even a `quit` that is queued
  behind it. If the program is told to end then, the coherent thread ends without an
  answer, `requestfftblocking()` has no test for an exit (`csdrdevice.h:145-152`), and main
  waits in `console.join()` for ever (`main.cc:438`), although `signal_handler` has said
  `exiting after CTRL+D...` (`main.cc:58`). `HeldUp` of `TimeSync` and `Lifecycle` and the
  state `lag` of `Console` are this hang, which `OnlyLagHoldsUp`, `ExitCompletes`,
  `QuitServed` and `ShutdownCompletes` have to leave out. A `request lag` that overlaps a
  correction may make it be applied twice.
* A control thread that is told to exit asks for one more lag before it looks at
  `do_exit`; main does not join it, and `OnlyLagHoldsUp` shows that nothing else makes the
  shutdown wait for it.
* A `quit` ends the program only after another line or the end of the input, when the
  local thread is in `getline` or gets there: a remote one as a rule, and a local one
  when it is executed between the two tests of `localc` (`console.cc:47-48`), the first of
  which has seen `exit_console` still false (the premise of `QuitEnds`).

Found by reading, in code that is not modelled: the interpolation of the peak adds the
neighbours with opposite signs in its curvature (`ccoherent.cc:193`,
`a = -y[-1] - 2 y[0] + y[1]`), so that it is no parabola through the three points, while
the control class is said to synchronise `to fractional sample delays` (`ccontrol.h`);
`readStream` of the SoapySDR plugin drops the rest of a packet when the caller asks
for less, though it announces more fragments (`Aegirsupport.cc:174`).

## 7. Plan

Done, in this order: `SampleRing`, `Coherent` over it, `Transport`, `TimeSync`,
`Console`, `StartBarrier`, `PhaseCorrection`, `Lifecycle` over `StartBarrier`,
`Publisher` over `Transport`; proofs about each, among them the three refinements.

Left, each of less weight than what is there:

* the layout of a packet and the arithmetic of a lag (`packetlength`, row-major
  conversion, peak and fraction, `fillts`) as functions on integers against a reference
  definition;
* the precedence of the command line over the configuration file;
* a measurement service (ask, then be answered) as the abstract specification of
  `TimeSync`, which implements it only once request and answer are exchanged under one
  lock (`MCTimeSyncLost`).

Runs stay few: new questions about a module join its run where one instance can
answer them.
