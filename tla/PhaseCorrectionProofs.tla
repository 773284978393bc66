----------------------- MODULE PhaseCorrectionProofs -----------------------
(***************************************************************************)
(* Proofs about PhaseCorrection: what is sent, what is correlated, how     *)
(* long estimates go on and when coefficients stay numbers, for any number *)
(* of devices, slots, passes and commands.                                 *)
(***************************************************************************)
EXTENDS PhaseCorrection, TLAPS

USE SignalsAssumption, RingAssumption, BoundAssumption

InHand == {"check", "estimate", "correct"}

\* The devices are visited in turn, one block each in a pass; what phasecorrect()
\* is about to multiply was not multiplied yet.
PassInv ==
  /\ cpc \in {"top", "scan"} => cdev = 1
  /\ \A d \in Devs :
       taken[d] = IF cpc # "top" /\ d >= cdev THEN refblk - 1 ELSE refblk
  /\ cpc \in InHand => sfloat[cdev].times = 0

\* Without a phase command at the device the block in hand is the one that was
\* due.
CleanInv ==
  /\ \A d \in Devs : ConsoleConverts(d) => ~clean[d]
  /\ clean[cdev] => /\ cpc \in InHand => sfloat[cdev] = Samples(refblk, 0)
                    /\ cpc = "send" => sfloat[cdev] = Samples(refblk, 1)
  /\ SentCorrected /\ EstimateAligned

\* An estimate that the coherent thread has decided on is the first late one.
LateInv ==
  /\ enabled \/ cpc = "estimate" => late = 0
  /\ late <= 1

\* Until a phase command comes too early, no zeroes are converted or correlated.
FiniteInv ==
  ~early =>
    /\ nan = {}
    /\ con.step # "idle" => \A d \in Devs : taken[d] >= 1
    /\ con.step \in {"convert", "correlate"} => con.src >= 1
    /\ con.step = "estimate" => con.pair.blk # 0 /\ con.pair.ref # 0
    /\ cpc = "estimate" => pair.blk # 0 /\ pair.ref # 0
    /\ \A d \in Devs :
         taken[d] >= 1 \/ (d = cdev /\ cpc \in InHand \cup {"send"})
           => sfloat[d].blk # 0

IInv == TypeOK /\ PassInv /\ CleanInv /\ LateInv /\ FiniteInv

-----------------------------------------------------------------------------
(* sfloat under two writers.                                               *)

ConTypes == [step : {"idle", "enter", "convert", "correlate", "estimate"},
             dev : Devs, src : Nat, over : BOOLEAN, pair : Pairs]

LEMMA ContentTypes ==
  ASSUME TypeOK, NEW d \in Devs
  PROVE  /\ Content(d) \in Contents
         /\ Content(d).blk \in Nat \cup {-1}
         /\ Content(d) = Torn \/ Content(d) = sfloat[d]
         /\ Torn \in Contents /\ Torn.blk = -1 /\ Torn.times = 0
<1>1. Torn \in Contents /\ Torn.blk = -1 /\ Torn.times = 0
  BY DEF Contents, Torn, Samples
<1>2. Content(d) = Torn \/ Content(d) = sfloat[d]
  BY DEF Content
<1>3. sfloat[d] \in Contents
  BY DEF TypeOK
<1>4. \A s \in Contents : s.blk \in Nat \cup {-1}
  BY <1>1 DEF Contents
<1> QED
  BY <1>1, <1>2, <1>3, <1>4

LEMMA StoreTypes ==
  ASSUME TypeOK, NEW d \in Devs, NEW s \in Contents, Store(d, s)
  PROVE  /\ sfloat' \in [Devs -> Contents]
         /\ con' \in ConTypes
         /\ con'.step = con.step /\ con'.dev = con.dev
         /\ con'.src = con.src /\ con'.pair = con.pair
         /\ sfloat'[d] = s \/ sfloat'[d] = Torn
         /\ ~ConsoleConverts(d) => sfloat'[d] = s
         /\ \A e \in Devs : e # d => sfloat'[e] = sfloat[e]
<1>1. Torn \in Contents
  BY DEF Contents
<1>2. con \in ConTypes /\ sfloat \in [Devs -> Contents]
  BY DEF TypeOK, ConTypes
<1>3. con' = con \/ con' = [con EXCEPT !.over = TRUE]
  BY DEF Store
<1>4. /\ con' \in ConTypes
      /\ con'.step = con.step /\ con'.dev = con.dev
      /\ con'.src = con.src /\ con'.pair = con.pair
  BY <1>2, <1>3 DEF ConTypes
<1>5. /\ sfloat' = [sfloat EXCEPT ![d] = s] \/ sfloat' = [sfloat EXCEPT ![d] = Torn]
      /\ ~ConsoleConverts(d) => sfloat' = [sfloat EXCEPT ![d] = s]
  BY DEF Store
<1> QED
  BY <1>1, <1>2, <1>4, <1>5

\* What the console finds at the read pointer of a device is a block, and not
\* the zeroes the ring was created with once the device has delivered.
LEMMA ReadPointer ==
  ASSUME TypeOK, NEW d \in Devs, NEW b \in AtReadPointer(d)
  PROVE  b \in Nat /\ (taken[d] >= 1 => b >= 1)
<1>1. taken[d] \in Nat
  BY DEF TypeOK
<1> QED
  BY <1>1 DEF AtReadPointer

LEMMA IdleTypes ==
  /\ Idle \in ConTypes /\ Idle.dev = 1 /\ Idle.step = "idle"
  /\ \A d \in Devs : /\ [Idle EXCEPT !.step = "enter", !.dev = d] \in ConTypes
                     /\ [Idle EXCEPT !.step = "enter"] \in ConTypes
<1>1. NoPair \in Pairs /\ 1 \in Devs
  BY DEF NoPair, Pairs, Devs
<1>2. Idle \in ConTypes /\ Idle.dev = 1 /\ Idle.step = "idle"
  BY <1>1 DEF Idle, ConTypes
<1> QED
  BY <1>2 DEF ConTypes

LEMMA InitIInv == Init => IInv
<1> SUFFICES ASSUME Init PROVE IInv
  OBVIOUS
<1> USE DEF Init, Devs, Samples, Idle, NoPair
<1>1. TypeOK
  <2>1. sfloat \in [Devs -> Contents] /\ pair \in Pairs
    BY DEF Contents, Pairs
  <2>2. sent \in [Devs -> [pass : Nat, col : Contents, clean : BOOLEAN]]
    BY DEF Contents
  <2>3. con \in ConTypes
    BY IdleTypes
  <2> QED
    BY <2>1, <2>2, <2>3 DEF TypeOK, ConTypes
<1>2. PassInv
  BY DEF PassInv, InHand
<1>3. CleanInv
  BY DEF CleanInv, InHand, ConsoleConverts, SentCorrected, EstimateAligned
<1>4. LateInv /\ FiniteInv
  BY DEF LateInv, FiniteInv, InHand
<1> QED
  BY <1>1, <1>2, <1>3, <1>4 DEF IInv

-----------------------------------------------------------------------------
(* Every step keeps the invariant.                                         *)

LEMMA NextTypes == IInv /\ [Next]_vars => TypeOK'
<1> SUFFICES ASSUME IInv, [Next]_vars PROVE TypeOK'
  OBVIOUS
<1>0. TypeOK
  BY DEF IInv
<1> USE <1>0 DEF TypeOK, coherentVars
<1>1. CASE ConvertReference
  BY <1>1 DEF ConvertReference
<1>2. CASE Scan
  BY <1>2 DEF Scan, Devs
<1>3. CASE ConvertDevice
  <2>1. Samples(taken[cdev] + 1, 0) \in Contents
    BY DEF Samples, Contents
  <2>2. sfloat' \in [Devs -> Contents] /\ con' \in ConTypes
    BY <1>3, <2>1, StoreTypes DEF ConvertDevice
  <2> QED
    BY <1>3, <2>2 DEF ConvertDevice, ConTypes
<1>4. CASE CheckNoise
  <2>1. pair' \in Pairs
    <3>1. Content(cdev).blk \in Nat \cup {-1}
      BY ContentTypes
    <3> QED
      BY <1>4, <3>1 DEF CheckNoise, Pairs
  <2> QED
    BY <1>4, <2>1 DEF CheckNoise
<1>5. CASE CoherentEstimate
  BY <1>5 DEF CoherentEstimate, Estimate
<1>6. CASE Correct
  <2>1. PICK s \in Contents : Store(cdev, s)
    <3>1. Content(cdev) = Torn \/ Content(cdev) = sfloat[cdev]
      BY ContentTypes
    <3>2. sfloat[cdev] \in Contents /\ sfloat[cdev].times = 0 /\ Torn \in Contents
      BY <1>6, ContentTypes DEF Correct, IInv, PassInv, InHand
    <3>3. sfloat[cdev] # Torn => Samples(sfloat[cdev].blk, sfloat[cdev].times + 1) \in Contents
      BY <3>2 DEF Contents, Samples
    <3> QED
      BY <1>6, <3>1, <3>2, <3>3 DEF Correct
  <2>2. sfloat' \in [Devs -> Contents] /\ con' \in ConTypes
    BY <2>1, StoreTypes
  <2> QED
    BY <1>6, <2>2 DEF Correct, ConTypes
<1>7. CASE Send
  <2>1. Content(cdev) \in Contents
    BY ContentTypes
  <2>2. cdev' \in Devs
    BY <1>7 DEF Send, Devs
  <2> QED
    BY <1>7, <2>1, <2>2 DEF Send
<1>8. CASE SetState
  BY <1>8 DEF SetState
<1>9. CASE StartPhase
  <2>1. con' \in ConTypes
    BY <1>9, IdleTypes DEF StartPhase, ConTypes
  <2> QED
    BY <1>9, <2>1 DEF StartPhase, ConTypes
<1>10. CASE PhaseConvert
  <2>1. con' \in ConTypes
    <3>1. PICK b \in AtReadPointer(con.dev) :
            con' = [con EXCEPT !.step = "convert", !.src = b, !.over = FALSE]
      BY <1>10 DEF PhaseConvert
    <3>2. b \in Nat
      BY ReadPointer
    <3> QED
      BY <3>1, <3>2 DEF ConTypes
  <2> QED
    BY <1>10, <2>1 DEF PhaseConvert, ConTypes
<1>11. CASE PhaseConverted
  <2>1. Samples(con.src, 0) \in Contents
    BY DEF Samples, Contents
  <2>2. con' \in ConTypes /\ sfloat' \in [Devs -> Contents]
    BY <1>11, <2>1 DEF PhaseConverted, ConTypes
  <2> QED
    BY <1>11, <2>2 DEF PhaseConverted, ConTypes
<1>12. CASE PhaseCorrelate
  <2>1. con' \in ConTypes
    <3>1. Content(con.dev).blk \in Nat \cup {-1}
      BY ContentTypes
    <3>2. [blk |-> Content(con.dev).blk, ref |-> refblk] \in Pairs
      BY <3>1 DEF Pairs
    <3> QED
      BY <1>12, <3>2 DEF PhaseCorrelate, ConTypes
  <2> QED
    BY <1>12, <2>1 DEF PhaseCorrelate, ConTypes
<1>13. CASE PhaseEstimate
  <2>1. con' \in ConTypes
    <3>1. con.dev < NumSignals => con.dev + 1 \in Devs
      BY DEF Devs
    <3> QED
      BY <1>13, <3>1, IdleTypes DEF PhaseEstimate
  <2>2. nan' \subseteq Devs
    BY <1>13 DEF PhaseEstimate, Estimate
  <2> QED
    BY <1>13, <2>1, <2>2 DEF PhaseEstimate, ConTypes
<1>14. CASE UNCHANGED vars
  BY <1>14 DEF vars
<1> QED
  BY <1>1, <1>2, <1>3, <1>4, <1>5, <1>6, <1>7, <1>8, <1>9, <1>10, <1>11,
     <1>12, <1>13, <1>14
  DEF Next, Coherent, Phase, BoundReached

LEMMA NextPass == IInv /\ [Next]_vars => PassInv'
<1> SUFFICES ASSUME IInv, [Next]_vars PROVE PassInv'
  OBVIOUS
<1>0. TypeOK /\ PassInv
  BY DEF IInv
<1>a. cdev \in Devs /\ refblk \in Nat /\ taken \in [Devs -> Nat]
  BY <1>0 DEF TypeOK
<1> USE <1>0 DEF PassInv, InHand, coherentVars
<1>1. CASE ConvertReference
  BY <1>1, <1>a DEF ConvertReference, Devs
<1>2. CASE Scan
  BY <1>2 DEF Scan
<1>3. CASE ConvertDevice
  <2>1. Samples(taken[cdev] + 1, 0) \in Contents
    BY <1>a DEF Samples, Contents
  <2>2. sfloat'[cdev].times = 0
    BY <1>3, <1>a, <2>1, StoreTypes, ContentTypes DEF ConvertDevice, Samples
  <2> QED
    BY <1>3, <2>2 DEF ConvertDevice
<1>4. CASE CheckNoise
  BY <1>4 DEF CheckNoise
<1>5. CASE CoherentEstimate
  BY <1>5 DEF CoherentEstimate
<1>6. CASE Correct
  BY <1>6 DEF Correct
<1>7. CASE Send
  BY <1>7, <1>a DEF Send, Devs
<1>8. CASE SetState
  BY <1>8 DEF SetState
<1>9. CASE StartPhase
  BY <1>9 DEF StartPhase
<1>10. CASE PhaseConvert
  BY <1>10 DEF PhaseConvert
<1>11. CASE PhaseConverted
  <2>1. con.dev \in Devs /\ sfloat \in [Devs -> Contents]
    BY DEF TypeOK
  <2>2. sfloat' = sfloat \/ sfloat' = [sfloat EXCEPT ![con.dev] = Samples(con.src, 0)]
    BY <1>11 DEF PhaseConverted
  <2>3. Samples(con.src, 0).times = 0
    BY DEF Samples
  <2> QED
    BY <1>11, <1>a, <2>1, <2>2, <2>3 DEF PhaseConverted
<1>12. CASE PhaseCorrelate
  BY <1>12 DEF PhaseCorrelate
<1>13. CASE PhaseEstimate
  BY <1>13 DEF PhaseEstimate
<1>14. CASE UNCHANGED vars
  BY <1>14 DEF vars
<1> QED
  BY <1>1, <1>2, <1>3, <1>4, <1>5, <1>6, <1>7, <1>8, <1>9, <1>10, <1>11,
     <1>12, <1>13, <1>14
  DEF Next, Coherent, Phase, BoundReached

LEMMA NextClean == IInv /\ [Next]_vars => CleanInv'
<1> SUFFICES ASSUME IInv, [Next]_vars PROVE CleanInv'
  OBVIOUS
<1>0. TypeOK /\ PassInv /\ CleanInv
  BY DEF IInv
<1>a. /\ cdev \in Devs /\ refblk \in Nat /\ taken \in [Devs -> Nat]
      /\ clean \in [Devs -> BOOLEAN] /\ con.dev \in Devs
  BY <1>0 DEF TypeOK
<1>b. cpc # "top" => taken[cdev] + 1 = refblk
  BY <1>0, <1>a DEF PassInv, Devs
<1> USE <1>0 DEF CleanInv, InHand, coherentVars, SentCorrected, EstimateAligned, ConsoleConverts
<1>1. CASE ConvertReference
  BY <1>1 DEF ConvertReference
<1>2. CASE Scan
  BY <1>2 DEF Scan
<1>3. CASE ConvertDevice
  <2>1. Samples(taken[cdev] + 1, 0) \in Contents
    BY <1>a DEF Samples, Contents
  <2>2. /\ con'.step = con.step /\ con'.dev = con.dev
        /\ ~ConsoleConverts(cdev) => sfloat'[cdev] = Samples(refblk, 0)
    BY <1>3, <1>a, <1>b, <2>1, StoreTypes DEF ConvertDevice
  <2> QED
    BY <1>3, <1>a, <2>2 DEF ConvertDevice
<1>4. CASE CheckNoise
  <2>1. clean[cdev] => Content(cdev).blk = refblk
    <3>1. clean[cdev] => Content(cdev) = Samples(refblk, 0)
      BY <1>4, <1>a DEF CheckNoise, Content
    <3> QED
      BY <3>1 DEF Samples
  <2> QED
    BY <1>4, <2>1 DEF CheckNoise
<1>5. CASE CoherentEstimate
  BY <1>5 DEF CoherentEstimate
<1>6. CASE Correct
  <2> DEFINE s == IF Content(cdev) = Torn THEN Torn
                  ELSE Samples(Content(cdev).blk, Content(cdev).times + 1)
  <2>1. Store(cdev, s)
    BY <1>6 DEF Correct
  <2>2. con'.step = con.step /\ con'.dev = con.dev
    <3>1. con' = con \/ con' = [con EXCEPT !.over = TRUE]
      BY <2>1 DEF Store
    <3>2. con \in ConTypes
      BY DEF TypeOK, ConTypes
    <3> QED
      BY <3>1, <3>2 DEF ConTypes
  <2>3. clean[cdev] => sfloat'[cdev] = Samples(refblk, 1)
    <3> SUFFICES ASSUME clean[cdev] PROVE sfloat'[cdev] = Samples(refblk, 1)
      OBVIOUS
    <3>1. Content(cdev) = Samples(refblk, 0) /\ ~ConsoleConverts(cdev)
      BY <1>6, <1>a DEF Correct, Content
    <3>2. Content(cdev) # Torn
      BY <3>1, <1>a DEF Samples, Torn
    <3>3. s = Samples(refblk, 1)
      BY <3>1, <3>2 DEF Samples
    <3>4. sfloat' = [sfloat EXCEPT ![cdev] = s]
      BY <2>1, <3>1 DEF Store
    <3>5. sfloat \in [Devs -> Contents]
      BY DEF TypeOK
    <3> HIDE DEF s
    <3> QED
      BY <1>a, <3>3, <3>4, <3>5
  <2> QED
    BY <1>6, <2>2, <2>3 DEF Correct
<1>7. CASE Send
  <2>1. clean[cdev] => Content(cdev) = Samples(refblk, 1)
    BY <1>7, <1>a DEF Send, Content
  <2>2. /\ sent'[cdev] = [pass |-> refblk, col |-> Content(cdev), clean |-> clean[cdev]]
        /\ \A d \in Devs : d # cdev => sent'[d] = sent[d]
    <3>1. sent \in [Devs -> [pass : Nat, col : Contents, clean : BOOLEAN]]
      BY DEF TypeOK
    <3> QED
      BY <1>7, <1>a, <3>1 DEF Send
  <2>3. SentCorrected'
    BY <2>1, <2>2
  <2>4. cpc' \notin InHand \cup {"send"} /\ UNCHANGED <<clean, con>>
    BY <1>7 DEF Send
  <2> QED
    BY <2>3, <2>4
<1>8. CASE SetState
  BY <1>8 DEF SetState
<1>9. CASE StartPhase
  <2>1. con'.step = "enter"
    BY <1>9 DEF StartPhase, Idle
  <2> QED
    BY <1>9, <2>1 DEF StartPhase
<1>10. CASE PhaseConvert
  <2>1. con'.dev = con.dev
    BY <1>10 DEF PhaseConvert, TypeOK
  <2> QED
    BY <1>10, <1>a, <2>1 DEF PhaseConvert
<1>11. CASE PhaseConverted
  <2>1. con'.step = "correlate" /\ ~clean[con.dev]
    BY <1>11, <1>a DEF PhaseConverted, TypeOK
  <2>2. \A d \in Devs : d # con.dev => sfloat'[d] = sfloat[d]
    BY <1>11, <1>a DEF PhaseConverted, TypeOK
  <2> QED
    BY <1>11, <1>a, <2>1, <2>2 DEF PhaseConverted
<1>12. CASE PhaseCorrelate
  <2>1. con'.step = "estimate"
    BY <1>12 DEF PhaseCorrelate, TypeOK
  <2> QED
    BY <1>12, <2>1 DEF PhaseCorrelate
<1>13. CASE PhaseEstimate
  <2>1. con'.step \in {"enter", "idle"}
    BY <1>13 DEF PhaseEstimate, Idle
  <2> QED
    BY <1>13, <2>1 DEF PhaseEstimate
<1>14. CASE UNCHANGED vars
  BY <1>14 DEF vars
<1> QED
  BY <1>1, <1>2, <1>3, <1>4, <1>5, <1>6, <1>7, <1>8, <1>9, <1>10, <1>11,
     <1>12, <1>13, <1>14
  DEF Next, Coherent, Phase, BoundReached

LEMMA NextLate == IInv /\ [Next]_vars => LateInv'
<1> SUFFICES ASSUME IInv, [Next]_vars PROVE LateInv'
  OBVIOUS
<1>0. LateInv /\ late \in Nat /\ enabled \in BOOLEAN
  BY DEF IInv, TypeOK
<1> USE <1>0 DEF LateInv
<1>1. CASE CheckNoise
  BY <1>1 DEF CheckNoise
<1>2. CASE CoherentEstimate
  BY <1>2 DEF CoherentEstimate
<1>3. CASE SetState
  BY <1>3 DEF SetState
<1>4. CASE \/ ConvertReference \/ Scan \/ ConvertDevice \/ Correct \/ Send
           \/ StartPhase \/ Phase \/ UNCHANGED vars
  <2>1. UNCHANGED <<enabled, late>> /\ (cpc' = "estimate" => cpc = "estimate")
    BY <1>4 DEF ConvertReference, Scan, ConvertDevice, Correct, Send, StartPhase, Phase,
         PhaseConvert, PhaseConverted, PhaseCorrelate, PhaseEstimate, coherentVars, vars
  <2> QED
    BY <2>1
<1> QED
  BY <1>1, <1>2, <1>3, <1>4 DEF Next, Coherent, BoundReached

LEMMA NextFinite == IInv /\ [Next]_vars => FiniteInv'
<1> SUFFICES ASSUME IInv, [Next]_vars, ~early' PROVE FiniteInv'
  BY DEF FiniteInv
<1>0. TypeOK /\ PassInv /\ FiniteInv
  BY DEF IInv
<1>a. /\ cdev \in Devs /\ refblk \in Nat /\ taken \in [Devs -> Nat]
      /\ con.dev \in Devs /\ early \in BOOLEAN /\ nan \subseteq Devs
      /\ con \in ConTypes /\ sfloat \in [Devs -> Contents]
      /\ \A d \in Devs : Content(d) = Torn \/ Content(d) = sfloat[d]
      /\ Torn.blk = -1
  BY <1>0, ContentTypes DEF TypeOK, ConTypes
<1>b. ~early
  BY <1>0 DEF Next, Coherent, Phase, BoundReached, ConvertReference, Scan,
    ConvertDevice, CheckNoise, CoherentEstimate, Correct, Send, SetState, StartPhase,
    PhaseConvert, PhaseConverted, PhaseCorrelate, PhaseEstimate, vars
<1>c. /\ cpc # "top" => taken[cdev] + 1 = refblk
      /\ \A d \in Devs : taken[d] >= 1 => refblk >= 1
  BY <1>0, <1>a DEF PassInv, Devs
<1> USE <1>0, <1>b DEF FiniteInv, InHand, coherentVars
<1>1. CASE ConvertReference
  BY <1>1 DEF ConvertReference
<1>2. CASE Scan
  BY <1>2 DEF Scan
<1>3. CASE ConvertDevice
  <2> DEFINE s == Samples(taken[cdev] + 1, 0)
  <2>1. s \in Contents /\ s.blk # 0
    BY <1>a DEF Samples, Contents
  <2>2. Store(cdev, s)
    BY <1>3 DEF ConvertDevice
  <2> HIDE DEF s
  <2>3. /\ con'.step = con.step /\ con'.dev = con.dev
        /\ con'.src = con.src /\ con'.pair = con.pair
        /\ sfloat'[cdev].blk # 0
        /\ \A e \in Devs : e # cdev => sfloat'[e] = sfloat[e]
    BY <1>a, <2>1, <2>2, StoreTypes
  <2> QED
    BY <1>3, <1>a, <2>3 DEF ConvertDevice
<1>4. CASE CheckNoise
  <2>1. Content(cdev).blk # 0 /\ refblk # 0
    BY <1>4, <1>a, <1>c DEF CheckNoise
  <2> QED
    BY <1>4, <2>1 DEF CheckNoise
<1>5. CASE CoherentEstimate
  BY <1>5 DEF CoherentEstimate, Estimate
<1>6. CASE Correct
  <2> DEFINE s == IF Content(cdev) = Torn THEN Torn
                  ELSE Samples(Content(cdev).blk, Content(cdev).times + 1)
  <2>1. Store(cdev, s)
    BY <1>6 DEF Correct
  <2>2. s.blk # 0
    BY <1>6, <1>a DEF Correct, Samples
  <2>3. s \in Contents
    <3>1. sfloat[cdev] \in Contents /\ sfloat[cdev].times = 0 /\ Torn \in Contents
      BY <1>6, <1>a, ContentTypes DEF Correct, PassInv
    <3>2. sfloat[cdev] # Torn => Samples(sfloat[cdev].blk, sfloat[cdev].times + 1) \in Contents
      BY <3>1 DEF Contents, Samples
    <3> QED
      BY <1>a, <3>1, <3>2
  <2> HIDE DEF s
  <2>4. /\ con'.step = con.step /\ con'.dev = con.dev
        /\ con'.src = con.src /\ con'.pair = con.pair
        /\ sfloat'[cdev].blk # 0
        /\ \A e \in Devs : e # cdev => sfloat'[e] = sfloat[e]
    BY <1>a, <2>1, <2>2, <2>3, StoreTypes
  <2> QED
    BY <1>6, <1>a, <2>4 DEF Correct
<1>7. CASE Send
  BY <1>7, <1>a DEF Send
<1>8. CASE SetState
  BY <1>8 DEF SetState
<1>9. CASE StartPhase
  <2>1. con'.step = "enter"
    BY <1>9 DEF StartPhase, Idle
  <2>2. \A d \in Devs : taken[d] >= 1
    <3>1. ~ \E d \in Devs : taken[d] = 0
      BY <1>9, Zenon DEF StartPhase
    <3> QED
      BY <1>a, <3>1
  <2> QED
    BY <1>9, <2>1, <2>2 DEF StartPhase
<1>10. CASE PhaseConvert
  <2>1. PICK b \in AtReadPointer(con.dev) :
          con' = [con EXCEPT !.step = "convert", !.src = b, !.over = FALSE]
    BY <1>10 DEF PhaseConvert
  <2>2. con.step = "enter" /\ taken[con.dev] >= 1
    BY <1>10, <1>a DEF PhaseConvert
  <2>3. b >= 1
    BY <1>a, <2>2, ReadPointer
  <2>4. con'.step = "convert" /\ con'.src = b
    BY <1>a, <2>1 DEF ConTypes
  <2> QED
    BY <1>10, <2>2, <2>3, <2>4 DEF PhaseConvert
<1>11. CASE PhaseConverted
  <2>1. con.step = "convert" /\ con'.step = "correlate" /\ con'.src = con.src
    BY <1>11, <1>a DEF PhaseConverted, ConTypes
  <2>2. Samples(con.src, 0).blk # 0
    BY <2>1, <1>a DEF Samples, ConTypes
  <2>3. sfloat' = sfloat \/ sfloat' = [sfloat EXCEPT ![con.dev] = Samples(con.src, 0)]
    BY <1>11 DEF PhaseConverted
  <2>4. \A d \in Devs : sfloat'[d].blk # 0 \/ sfloat'[d] = sfloat[d]
    BY <1>a, <2>2, <2>3
  <2> QED
    BY <1>11, <1>a, <2>1, <2>4 DEF PhaseConverted
<1>12. CASE PhaseCorrelate
  <2>1. /\ con.step = "correlate" /\ con'.step = "estimate"
        /\ con'.pair = [blk |-> Content(con.dev).blk, ref |-> refblk]
    BY <1>12, <1>a DEF PhaseCorrelate, ConTypes
  <2>2. taken[con.dev] >= 1
    BY <1>a, <2>1
  <2>3. Content(con.dev).blk # 0 /\ refblk # 0
    BY <1>a, <1>c, <2>2
  <2> QED
    BY <1>12, <2>1, <2>3 DEF PhaseCorrelate
<1>13. CASE PhaseEstimate
  <2>1. con.step = "estimate" /\ con'.step \in {"enter", "idle"}
    BY <1>13 DEF PhaseEstimate, Idle
  <2>2. nan' = nan
    BY <1>13, <2>1 DEF PhaseEstimate, Estimate
  <2> QED
    BY <1>13, <2>1, <2>2 DEF PhaseEstimate
<1>14. CASE UNCHANGED vars
  BY <1>14 DEF vars
<1> QED
  BY <1>1, <1>2, <1>3, <1>4, <1>5, <1>6, <1>7, <1>8, <1>9, <1>10, <1>11,
     <1>12, <1>13, <1>14
  DEF Next, Coherent, Phase, BoundReached

LEMMA Invariance == Spec => []IInv
<1>1. IInv /\ [Next]_vars => IInv'
  BY NextTypes, NextPass, NextClean, NextLate, NextFinite DEF IInv
<1> QED
  BY InitIInv, <1>1, PTL DEF Spec

-----------------------------------------------------------------------------
\* Every variable keeps its type, and no samples are multiplied twice.
THEOREM TypeCorrect == Spec => []TypeOK
<1>1. IInv => TypeOK
  BY DEF IInv
<1> QED
  BY Invariance, <1>1, PTL

\* What is sent of a device the console leaves alone is the block of the pass,
\* corrected once (ccoherent.cc:242-273).
THEOREM SentCorrect == Spec => []SentCorrected
<1>1. IInv => SentCorrected
  BY DEF IInv, CleanInv
<1> QED
  BY Invariance, <1>1, PTL

\* What the coherent thread correlates of such a device belongs together
\* (ccoherent.cc:261-268).
THEOREM EstimatesAligned == Spec => []EstimateAligned
<1>1. IInv => EstimateAligned
  BY DEF IInv, CleanInv
<1> QED
  BY Invariance, <1>1, PTL

\* However many devices a pass visits, at most one estimate of the coherent
\* thread comes after the noise was disabled (crefnoise.h:52-73).
THEOREM LateBounded == Spec => []LateEstimates
<1>1. IInv => LateEstimates
  BY DEF IInv, LateInv, LateEstimates
<1> QED
  BY Invariance, <1>1, PTL

\* Coefficients stay numbers unless the command phase comes too early
\* (csdrdevice.cc:65-74).
THEOREM CoefficientsCorrect == Spec => []CoefficientsFinite
<1>1. IInv => CoefficientsFinite
  BY DEF IInv, FiniteInv, CoefficientsFinite
<1> QED
  BY Invariance, <1>1, PTL
=============================================================================
