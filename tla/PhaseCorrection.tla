--------------------------- MODULE PhaseCorrection ---------------------------
(***************************************************************************)
(* Phase correction: the coherent thread converts the block of a device    *)
(* into sfloat, estimates the phase against the reference while the noise  *)
(* source is enabled, multiplies sfloat by the coefficient in place and    *)
(* sends it.  The console switches the noise source, and its command phase *)
(* converts and estimates too, in the same sfloat, without a lock.         *)
(*                                                                         *)
(* A block is known by its number in the stream of its device, 0 being the *)
(* zeroes that buffers are created with.  A coefficient is known by        *)
(* whether it is a number: a correlation with zeroes is 0, its             *)
(* normalisation is not a number, and the running average never forgets    *)
(* it.                                                                     *)
(*                                                                         *)
(* The devices are ready and in step (module Coherent); which of them are  *)
(* synchronised is left to module TimeSync.                                *)
(***************************************************************************)
EXTENDS Integers

CONSTANTS
  NumSignals,     \* signal devices
  N,              \* asyncbufn, the slots of a ring
  MaxPasses,      \* bound on the passes
  MaxCommands     \* bound on the console commands

ASSUME SignalsAssumption == NumSignals \in Nat \ {0}
ASSUME RingAssumption == N \in Nat \ {0}
ASSUME BoundAssumption == MaxPasses \in Nat /\ MaxCommands \in Nat

Devs == 1 .. NumSignals

\* What sfloat holds: a block and how often it was multiplied.
Samples(b, n) == [blk |-> b, times |-> n]
Torn == Samples(-1, 0)      \* parts of several
NoPair == [blk |-> 0, ref |-> 0]

VARIABLES
  enabled,        \* crefnoise::enabled
  sfloat,         \* per device: its samples
  nan,            \* the devices whose phasecorrprev is not a number
  refblk,         \* the block in sfloat of the reference
  taken,          \* per device: the blocks consumed
  branch,         \* whether the scan found all devices synchronised
  cpc, cdev,      \* the coherent thread and the device it is at
  con,            \* the console thread
  pair,           \* the blocks the coherent thread is correlating
  sent,           \* per device: the last column
  commands,       \* bound: commands executed
  early,          \* ghost: a phase command came before the first packet
  clean,          \* ghost: no phase command at the device since its conversion
  late            \* ghost: coherent estimates since the noise was disabled

coherentVars == <<refblk, taken, branch, cpc, cdev, pair, sent>>
vars == <<enabled, sfloat, nan, con, commands, early, clean, late, coherentVars>>

Idle == [step |-> "idle", dev |-> 1, src |-> 0, over |-> FALSE, pair |-> NoPair]

\* A noise source behind a serial port is enabled when the port was opened; if
\* it was not, or if it belongs to the reference device, the flag is not
\* initialised.
Init ==
  /\ enabled \in BOOLEAN
  /\ sfloat = [d \in Devs |-> Samples(0, 0)]
  /\ nan = {}
  /\ refblk = 0 /\ taken = [d \in Devs |-> 0]
  /\ branch = "some" /\ cpc = "top" /\ cdev = 1
  /\ con = Idle /\ commands = 0
  /\ pair = NoPair
  /\ sent = [d \in Devs |-> [pass |-> 0, col |-> Samples(0, 0), clean |-> FALSE]]
  /\ early = FALSE /\ clean = [d \in Devs |-> FALSE] /\ late = 0

-----------------------------------------------------------------------------
(* sfloat under two writers.                                               *)

ConsoleConverts(d) == con.step = "convert" /\ con.dev = d

\* What is found in sfloat while the console may be writing to it.
Content(d) == IF ConsoleConverts(d) /\ sfloat[d] # Samples(con.src, 0)
              THEN Torn ELSE sfloat[d]

\* The coherent thread writes s to sfloat.
Store(d, s) ==
  /\ sfloat' = [sfloat EXCEPT ![d] =
                  IF ConsoleConverts(d) /\ s # Samples(con.src, 0) THEN Torn ELSE s]
  /\ con' = IF ConsoleConverts(d) THEN [con EXCEPT !.over = TRUE] ELSE con

\* est_phasecorrect() of the blocks p.
Estimate(d, p) == nan' = IF p.blk = 0 \/ p.ref = 0 THEN nan \cup {d} ELSE nan

-----------------------------------------------------------------------------
(* ccoherent::threadf.                                                     *)

\* The reference is read, converted and sent.
ConvertReference ==
  /\ cpc = "top" /\ refblk < MaxPasses
  /\ refblk' = refblk + 1
  /\ cpc' = "scan"
  /\ UNCHANGED <<taken, branch, cdev, pair, sent>>
  /\ UNCHANGED <<enabled, sfloat, nan, con, commands, early, clean, late>>

Scan ==
  /\ cpc = "scan"
  /\ branch' \in {"all", "some"}
  /\ cpc' = "convert" /\ cdev' = 1
  /\ UNCHANGED <<refblk, taken, pair, sent>>
  /\ UNCHANGED <<enabled, sfloat, nan, con, commands, early, clean, late>>

\* read() waits for the block; convtofloat().
ConvertDevice ==
  /\ cpc = "convert"
  /\ Store(cdev, Samples(taken[cdev] + 1, 0))
  /\ clean' = [clean EXCEPT ![cdev] = ~ConsoleConverts(cdev)]
  /\ cpc' = IF branch = "some" THEN "check" ELSE "correct"
  /\ UNCHANGED <<refblk, taken, branch, cdev, pair, sent>>
  /\ UNCHANGED <<enabled, nan, commands, early, late>>

\* Mutant: the correlation starts at the first half of the reference's sfloat,
\* which convtofloat() leaves zero.
CorrelateWithPadding ==
  /\ cpc = "check"
  /\ IF enabled THEN /\ pair' = [blk |-> Content(cdev).blk, ref |-> 0]
                     /\ cpc' = "estimate"
                ELSE cpc' = "correct" /\ pair' = pair
  /\ UNCHANGED <<refblk, taken, branch, cdev, sent>>
  /\ UNCHANGED <<enabled, sfloat, nan, con, commands, early, clean, late>>

\* Mutant: isenabled() was only asked for the first device of the pass.
CheckFirstOnly ==
  /\ cpc = "check"
  /\ IF enabled \/ cdev > 1
     THEN /\ pair' = [blk |-> Content(cdev).blk, ref |-> refblk]
          /\ cpc' = "estimate"
     ELSE cpc' = "correct" /\ pair' = pair
  /\ UNCHANGED <<refblk, taken, branch, cdev, sent>>
  /\ UNCHANGED <<enabled, sfloat, nan, con, commands, early, clean, late>>

\* The unsynchronised branch: refnoise->isenabled(), and the correlation.
CheckNoise ==
  /\ cpc = "check"
  /\ IF enabled THEN /\ pair' = [blk |-> Content(cdev).blk, ref |-> refblk]
                     /\ cpc' = "estimate"
                ELSE cpc' = "correct" /\ pair' = pair
  /\ UNCHANGED <<refblk, taken, branch, cdev, sent>>
  /\ UNCHANGED <<enabled, sfloat, nan, con, commands, early, clean, late>>

CoherentEstimate ==
  /\ cpc = "estimate"
  /\ Estimate(cdev, pair)
  /\ late' = IF enabled THEN late ELSE late + 1
  /\ cpc' = "correct"
  /\ UNCHANGED <<refblk, taken, branch, cdev, pair, sent>>
  /\ UNCHANGED <<enabled, sfloat, con, commands, early, clean>>

\* Mutant: the result of phasecorrect() is not stored in place.
CorrectElsewhere ==
  /\ cpc = "correct"
  /\ cpc' = "send"
  /\ UNCHANGED <<refblk, taken, branch, cdev, pair, sent>>
  /\ UNCHANGED <<enabled, sfloat, nan, con, commands, early, clean, late>>

\* phasecorrect() multiplies sfloat in place.
Correct ==
  /\ cpc = "correct"
  /\ LET s == Content(cdev)
     IN  Store(cdev, IF s = Torn THEN Torn ELSE Samples(s.blk, s.times + 1))
  /\ cpc' = "send"
  /\ UNCHANGED <<refblk, taken, branch, cdev, pair, sent>>
  /\ UNCHANGED <<enabled, nan, commands, early, clean, late>>

\* Mutant: only devices in the unsynchronised branch are consumed.
ConsumeUnsynchronised ==
  /\ cpc = "send"
  /\ sent' = [sent EXCEPT ![cdev] =
                [pass |-> refblk, col |-> Content(cdev), clean |-> clean[cdev]]]
  /\ taken' = [taken EXCEPT ![cdev] = IF branch = "some" THEN @ + 1 ELSE @]
  /\ IF cdev < NumSignals THEN cdev' = cdev + 1 /\ cpc' = "convert"
                          ELSE cdev' = 1 /\ cpc' = "top"
  /\ UNCHANGED <<refblk, branch, pair>>
  /\ UNCHANGED <<enabled, sfloat, nan, con, commands, early, clean, late>>

\* write() and consume(); after the last device the packet is complete.
Send ==
  /\ cpc = "send"
  /\ sent' = [sent EXCEPT ![cdev] =
                [pass |-> refblk, col |-> Content(cdev), clean |-> clean[cdev]]]
  /\ taken' = [taken EXCEPT ![cdev] = @ + 1]
  /\ IF cdev < NumSignals THEN cdev' = cdev + 1 /\ cpc' = "convert"
                          ELSE cdev' = 1 /\ cpc' = "top"
  /\ UNCHANGED <<refblk, branch, pair>>
  /\ UNCHANGED <<enabled, sfloat, nan, con, commands, early, clean, late>>

Coherent == \/ ConvertReference \/ Scan \/ ConvertDevice \/ CheckNoise
            \/ CoherentEstimate \/ Correct \/ Send

-----------------------------------------------------------------------------
(* The console thread.                                                     *)

\* request re and request rd: crefnoise::set_state().  What the flag says is
\* then also sent to the source, which nothing in the program reads back.
SetState ==
  /\ con.step = "idle" /\ commands < MaxCommands
  /\ enabled' \in BOOLEAN
  /\ late' = 0
  /\ commands' = commands + 1
  /\ UNCHANGED <<sfloat, nan, con, early, clean>> /\ UNCHANGED coherentVars

\* phase: the loop over the devices begins.
StartPhase ==
  /\ con.step = "idle" /\ commands < MaxCommands
  /\ con' = [Idle EXCEPT !.step = "enter"]
  /\ commands' = commands + 1
  /\ early' = (early \/ \E d \in Devs : taken[d] = 0)
  /\ UNCHANGED <<enabled, sfloat, nan, clean, late>> /\ UNCHANGED coherentVars

\* The block at rp: the one in hand or, as long as the next was not delivered,
\* the one before it in its slot.  A device that was read once is ready: its
\* first N blocks were all delivered.
AtReadPointer(d) ==
  LET b == taken[d] + 1
  IN  {b} \cup IF cdev = d /\ cpc \in {"check", "estimate", "correct", "send"} THEN {}
               ELSE IF b = 1 THEN {0}
               ELSE IF b > N THEN {b - N} ELSE {}

\* convtofloat() begins: the slot is looked up ...
PhaseConvert ==
  /\ con.step = "enter"
  /\ \E b \in AtReadPointer(con.dev) :
       con' = [con EXCEPT !.step = "convert", !.src = b, !.over = FALSE]
  /\ clean' = [clean EXCEPT ![con.dev] = FALSE]
  /\ UNCHANGED <<enabled, sfloat, nan, commands, early, late>> /\ UNCHANGED coherentVars

\* ... and the conversion ends.  If the coherent thread wrote meanwhile, what
\* is left depends on who was ahead.
PhaseConverted ==
  /\ con.step = "convert"
  /\ \/ sfloat' = [sfloat EXCEPT ![con.dev] = Samples(con.src, 0)]
     \/ con.over /\ UNCHANGED sfloat
  /\ con' = [con EXCEPT !.step = "correlate", !.over = FALSE]
  /\ UNCHANGED <<enabled, nan, commands, early, clean, late>> /\ UNCHANGED coherentVars

PhaseCorrelate ==
  /\ con.step = "correlate"
  /\ con' = [con EXCEPT !.step = "estimate",
                        !.pair = [blk |-> Content(con.dev).blk, ref |-> refblk]]
  /\ UNCHANGED <<enabled, sfloat, nan, commands, early, clean, late>>
  /\ UNCHANGED coherentVars

\* The coefficient and its running average are replaced and printed.
PhaseEstimate ==
  /\ con.step = "estimate"
  /\ Estimate(con.dev, con.pair)
  /\ con' = IF con.dev < NumSignals THEN [Idle EXCEPT !.step = "enter", !.dev = con.dev + 1]
                                    ELSE Idle
  /\ UNCHANGED <<enabled, sfloat, commands, early, clean, late>> /\ UNCHANGED coherentVars

Phase == PhaseConvert \/ PhaseConverted \/ PhaseCorrelate \/ PhaseEstimate

\* The bounds are reached; the program goes on.
BoundReached ==
  /\ cpc = "top" /\ refblk = MaxPasses
  /\ con.step = "idle" /\ commands = MaxCommands
  /\ UNCHANGED vars

-----------------------------------------------------------------------------
Next == Coherent \/ SetState \/ StartPhase \/ Phase \/ BoundReached

Spec == Init /\ [][Next]_vars

-----------------------------------------------------------------------------
(* Properties.                                                             *)

Contents == {Torn} \cup [blk : Nat, times : {0, 1}]
Pairs == [blk : Nat \cup {-1}, ref : Nat]

\* Every variable keeps its type; no samples are multiplied twice.
TypeOK ==
  /\ enabled \in BOOLEAN
  /\ sfloat \in [Devs -> Contents]
  /\ nan \subseteq Devs
  /\ refblk \in Nat /\ taken \in [Devs -> Nat]
  /\ branch \in {"all", "some"}
  /\ cpc \in {"top", "scan", "convert", "check", "estimate", "correct", "send"}
  /\ cdev \in Devs
  /\ con \in [step : {"idle", "enter", "convert", "correlate", "estimate"},
              dev : Devs, src : Nat, over : BOOLEAN, pair : Pairs]
  /\ pair \in Pairs
  /\ sent \in [Devs -> [pass : Nat, col : Contents, clean : BOOLEAN]]
  /\ commands \in Nat /\ late \in Nat
  /\ early \in BOOLEAN /\ clean \in [Devs -> BOOLEAN]

\* A column to which no phase command came between its conversion and its
\* sending is the block of its pass, corrected exactly once
\* (ccoherent.cc:242-273, csdrdevice.cc:84-88).
SentCorrected == \A d \in Devs : sent[d].clean => sent[d].col = Samples(sent[d].pass, 1)

\* The coherent thread correlates a device with the reference of the same pass,
\* unless a phase command came to the device meanwhile (ccoherent.cc:262-268).
EstimateAligned == (cpc = "estimate" /\ clean[cdev]) => pair.blk = pair.ref

\* Once the noise source is disabled the coherent thread makes at most one more
\* estimate, the one it had decided on before, whatever number of devices it
\* has still to visit in the pass (ccoherent.cc:266, crefnoise.h:52-73).
LateEstimates == ~enabled => late <= 1

\* Every coefficient is a number, unless the command phase was given before the
\* first packet, when it correlates with zeroes (csdrdevice.cc:65-74,
\* console.cc:266-280).
CoefficientsFinite == ~early => nan = {}
=============================================================================
