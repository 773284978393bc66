--------------------------- MODULE TransportProofs ---------------------------
(***************************************************************************)
(* Proofs about Transport, for every number of passes and with or without  *)
(* an interrupt.                                                           *)
(***************************************************************************)
EXTENDS Transport, TLAPS

\* TypeOK is inductive.
LEMMA InitTypeOK == Init => TypeOK
<1> SUFFICES ASSUME Init PROVE TypeOK
  OBVIOUS
<1>1. hdr \in [Bufs -> Nat \cup {NoHeader}] /\ body \in [Bufs -> Nat \cup {Torn}]
  BY DEF Init
<1>2. sent \in [seq : Nat \cup {NoHeader}, pass : Nat, kind : {"whole", "torn", "early"}]
  BY DEF Init
<1> QED BY <1>1, <1>2 DEF Init, TypeOK, Bufs

LEMMA NextTypeOK == TypeOK /\ [Next]_vars => TypeOK'
<1> SUFFICES ASSUME TypeOK, [Next]_vars PROVE TypeOK'
  OBVIOUS
<1> USE DEF TypeOK, mainVars, coherentVars
<1>1. CASE WriteBegin
  BY <1>1 DEF WriteBegin
<1>2. CASE WriteEnd
  BY <1>2 DEF WriteEnd
<1>3. CASE NotifySend
  BY <1>3 DEF NotifySend
<1>4. CASE SendHead
  BY <1>4 DEF SendHead
<1>5. CASE SendFillHeader
  BY <1>5 DEF SendFillHeader
<1>6. CASE SendTake
  BY <1>6 DEF SendTake
<1>7. CASE SendLookup
  BY <1>7 DEF SendLookup
<1>12. CASE SendCopyBegin
  <2>1. body[sp] \in Nat \cup {Torn}
    OBVIOUS
  <2> QED BY <1>12, <2>1 DEF SendCopyBegin
<1>8. CASE SendCopied
  <2>1. hdr[sp] \in Nat \cup {NoHeader} /\ pgen \in Nat
    OBVIOUS
  <2>2. seen # Torn => seen \in Nat
    OBVIOUS
  <2>3. Packet \in [seq : Nat \cup {NoHeader}, pass : Nat, kind : {"whole", "torn", "early"}]
    BY <2>1, <2>2 DEF Packet
  <2> QED BY <1>8, <2>3 DEF SendCopied
<1>9. CASE LeaveLoop
  BY <1>9 DEF LeaveLoop
<1>10. CASE Interrupt
  BY <1>10 DEF Interrupt
<1>11. CASE UNCHANGED vars
  BY <1>11 DEF vars
<1> QED
  BY <1>1, <1>2, <1>3, <1>4, <1>5, <1>6, <1>7, <1>8, <1>9, <1>10, <1>11, <1>12
     DEF Next, CoherentThread, Main, Finished

\* The two packet buffers never become one, and every variable keeps its type.
THEOREM TypeCorrect == Spec => []TypeOK
BY InitTypeOK, NextTypeOK, PTL DEF Spec

-----------------------------------------------------------------------------
(* packetbuf1 always holds the pass handed over last: the coherent thread  *)
(* writes to it only once it has become packetbuf0.                        *)

BodyInv ==
  /\ body[buf1] = notified
  /\ cpc = "idle" /\ notified > 0 => body[buf0] = notified - 1
  /\ cpc = "writing" => body[buf0] = Torn
  /\ cpc = "written" => body[buf0] = notified + 1

\* The buffer looked up stays where it is until the next notification, which
\* makes it packetbuf0; it changes when the coherent thread begins to write.
\* It never holds an older pass than when it was looked up, nor one later than
\* the next to be handed over.
HeldInv ==
  mpc \in {"held", "copy"} =>
    /\ pgen <= notified
    /\ notified = pgen => sp = buf1
    /\ notified = pgen + 1 => sp = buf0 /\ (cpc = "idle" => body[sp] = pgen)
    /\ body[sp] # Torn => pgen <= body[sp] /\ body[sp] <= notified + 1

\* The same of what was there when the copy began.
SeenInv ==
  mpc = "copy" =>
    /\ seen # Torn => pgen <= seen /\ seen <= notified + 1
    /\ notified = pgen => seen = pgen
    /\ notified = pgen + 1 /\ cpc = "idle" => seen = pgen

CopyInv == HeldInv /\ SeenInv

\* Where the header went, seen from the passes handed over since.
HeaderInv ==
  /\ hgen <= notified
  /\ mpc = "fill" => /\ notified = hgen => hp = buf0
                     /\ notified = hgen + 1 => hp = buf1
  /\ mpc \in {"wait", "ptr"} =>
       /\ notified = hgen => hdr[buf0] = globalseqn - 1
       /\ notified = hgen + 1 => hdr[buf1] = globalseqn - 1
  /\ mpc \in {"held", "copy"} /\ pgen = hgen + 1 /\ notified = pgen
       => hdr[sp] = globalseqn - 1

TransportInv == TypeOK /\ BodyInv /\ CopyInv /\ HeaderInv

LEMMA InitTransportInv == Init => TransportInv
<1> SUFFICES ASSUME Init PROVE TransportInv
  OBVIOUS
<1>1. TypeOK
  BY InitTypeOK
<1>2. BodyInv /\ CopyInv /\ HeaderInv
  BY DEF Init, BodyInv, CopyInv, HeldInv, SeenInv, HeaderInv, Bufs
<1> QED BY <1>1, <1>2 DEF TransportInv

LEMMA NextTransportInv == TransportInv /\ [Next]_vars => TransportInv'
<1> SUFFICES ASSUME TransportInv, [Next]_vars PROVE TransportInv'
  OBVIOUS
<1>0. TypeOK /\ TypeOK'
  BY NextTypeOK DEF TransportInv
<1>a. BodyInv /\ HeldInv /\ SeenInv /\ HeaderInv
  BY DEF TransportInv, CopyInv
<1> USE DEF mainVars, coherentVars
<1>1. CASE WriteBegin
  <2>1. BodyInv'
    BY <1>0, <1>a, <1>1 DEF WriteBegin, BodyInv, TypeOK, Torn
  <2>2. HeldInv'
    BY <1>0, <1>a, <1>1 DEF WriteBegin, HeldInv, TypeOK, Torn
  <2>3. SeenInv'
    BY <1>0, <1>a, <1>1 DEF WriteBegin, SeenInv, HeldInv, TypeOK, Torn
  <2>4. HeaderInv'
    BY <1>0, <1>a, <1>1 DEF WriteBegin, HeaderInv, TypeOK, Torn
  <2> QED BY <1>0, <2>1, <2>2, <2>3, <2>4 DEF TransportInv, CopyInv
<1>2. CASE WriteEnd
  <2>1. BodyInv'
    BY <1>0, <1>a, <1>2 DEF WriteEnd, BodyInv, TypeOK, Torn
  <2>2. HeldInv'
    BY <1>0, <1>a, <1>2 DEF WriteEnd, HeldInv, TypeOK, Torn
  <2>3. SeenInv'
    BY <1>0, <1>a, <1>2 DEF WriteEnd, SeenInv, HeldInv, TypeOK, Torn
  <2>4. HeaderInv'
    BY <1>0, <1>a, <1>2 DEF WriteEnd, HeaderInv, TypeOK, Torn
  <2> QED BY <1>0, <2>1, <2>2, <2>3, <2>4 DEF TransportInv, CopyInv
<1>3. CASE NotifySend
  <2>1. BodyInv'
    BY <1>0, <1>a, <1>3 DEF NotifySend, BodyInv, TypeOK, Torn
  <2>2. HeldInv'
    BY <1>0, <1>a, <1>3 DEF NotifySend, HeldInv, BodyInv, TypeOK, Torn
  <2>3. SeenInv'
    BY <1>0, <1>a, <1>3 DEF NotifySend, SeenInv, HeldInv, BodyInv, TypeOK, Torn
  <2>4. HeaderInv'
    BY <1>0, <1>a, <1>3 DEF NotifySend, HeaderInv, HeldInv, TypeOK, Torn
  <2> QED BY <1>0, <2>1, <2>2, <2>3, <2>4 DEF TransportInv, CopyInv
<1>4. CASE SendHead
  <2>1. BodyInv'
    BY <1>0, <1>a, <1>4 DEF SendHead, BodyInv, TypeOK, Torn
  <2>2. HeldInv'
    BY <1>0, <1>a, <1>4 DEF SendHead, HeldInv, TypeOK, Torn
  <2>3. SeenInv'
    BY <1>0, <1>a, <1>4 DEF SendHead, SeenInv, TypeOK, Torn
  <2>4. HeaderInv'
    BY <1>0, <1>a, <1>4 DEF SendHead, HeaderInv, TypeOK, Torn
  <2> QED BY <1>0, <2>1, <2>2, <2>3, <2>4 DEF TransportInv, CopyInv
<1>5. CASE SendFillHeader
  <2>1. BodyInv'
    BY <1>0, <1>a, <1>5 DEF SendFillHeader, BodyInv, TypeOK, Torn
  <2>2. HeldInv'
    BY <1>0, <1>a, <1>5 DEF SendFillHeader, HeldInv, TypeOK, Torn
  <2>3. SeenInv'
    BY <1>0, <1>a, <1>5 DEF SendFillHeader, SeenInv, TypeOK, Torn
  <2>4. HeaderInv'
    BY <1>0, <1>a, <1>5 DEF SendFillHeader, HeaderInv, TypeOK, Torn
  <2> QED BY <1>0, <2>1, <2>2, <2>3, <2>4 DEF TransportInv, CopyInv
<1>6. CASE SendTake
  <2>1. BodyInv'
    BY <1>0, <1>a, <1>6 DEF SendTake, BodyInv, TypeOK, Torn
  <2>2. HeldInv'
    BY <1>0, <1>a, <1>6 DEF SendTake, HeldInv, TypeOK, Torn
  <2>3. SeenInv'
    BY <1>0, <1>a, <1>6 DEF SendTake, SeenInv, TypeOK, Torn
  <2>4. HeaderInv'
    BY <1>0, <1>a, <1>6 DEF SendTake, HeaderInv, TypeOK, Torn
  <2> QED BY <1>0, <2>1, <2>2, <2>3, <2>4 DEF TransportInv, CopyInv
<1>7. CASE SendLookup
  <2>1. BodyInv'
    BY <1>0, <1>a, <1>7 DEF SendLookup, BodyInv, TypeOK, Torn
  <2>2. HeldInv'
    BY <1>0, <1>a, <1>7 DEF SendLookup, HeldInv, BodyInv, TypeOK, Torn
  <2>3. SeenInv'
    BY <1>0, <1>a, <1>7 DEF SendLookup, SeenInv, TypeOK, Torn
  <2>4. HeaderInv'
    BY <1>0, <1>a, <1>7 DEF SendLookup, HeaderInv, TypeOK, Torn
  <2> QED BY <1>0, <2>1, <2>2, <2>3, <2>4 DEF TransportInv, CopyInv
<1>8. CASE SendCopyBegin
  <2>1. BodyInv'
    BY <1>0, <1>a, <1>8 DEF SendCopyBegin, BodyInv, TypeOK, Torn
  <2>2. HeldInv'
    BY <1>0, <1>a, <1>8 DEF SendCopyBegin, HeldInv, TypeOK, Torn
  <2>3. SeenInv'
    BY <1>0, <1>a, <1>8 DEF SendCopyBegin, SeenInv, HeldInv, BodyInv, TypeOK, Torn
  <2>4. HeaderInv'
    BY <1>0, <1>a, <1>8 DEF SendCopyBegin, HeaderInv, HeldInv, TypeOK, Torn
  <2> QED BY <1>0, <2>1, <2>2, <2>3, <2>4 DEF TransportInv, CopyInv
<1>9. CASE SendCopied
  <2>1. BodyInv'
    BY <1>0, <1>a, <1>9 DEF SendCopied, BodyInv, TypeOK, Torn
  <2>2. HeldInv'
    BY <1>0, <1>a, <1>9 DEF SendCopied, HeldInv, TypeOK, Torn
  <2>3. SeenInv'
    BY <1>0, <1>a, <1>9 DEF SendCopied, SeenInv, TypeOK, Torn
  <2>4. HeaderInv'
    BY <1>0, <1>a, <1>9 DEF SendCopied, HeaderInv, TypeOK, Torn
  <2> QED BY <1>0, <2>1, <2>2, <2>3, <2>4 DEF TransportInv, CopyInv
<1>10. CASE LeaveLoop
  <2>1. BodyInv'
    BY <1>0, <1>a, <1>10 DEF LeaveLoop, BodyInv, TypeOK, Torn
  <2>2. HeldInv'
    BY <1>0, <1>a, <1>10 DEF LeaveLoop, HeldInv, TypeOK, Torn
  <2>3. SeenInv'
    BY <1>0, <1>a, <1>10 DEF LeaveLoop, SeenInv, TypeOK, Torn
  <2>4. HeaderInv'
    BY <1>0, <1>a, <1>10 DEF LeaveLoop, HeaderInv, TypeOK, Torn
  <2> QED BY <1>0, <2>1, <2>2, <2>3, <2>4 DEF TransportInv, CopyInv
<1>11. CASE Interrupt
  <2>1. BodyInv'
    BY <1>0, <1>a, <1>11 DEF Interrupt, BodyInv, TypeOK, Torn
  <2>2. HeldInv'
    BY <1>0, <1>a, <1>11 DEF Interrupt, HeldInv, TypeOK, Torn
  <2>3. SeenInv'
    BY <1>0, <1>a, <1>11 DEF Interrupt, SeenInv, TypeOK, Torn
  <2>4. HeaderInv'
    BY <1>0, <1>a, <1>11 DEF Interrupt, HeaderInv, TypeOK, Torn
  <2> QED BY <1>0, <2>1, <2>2, <2>3, <2>4 DEF TransportInv, CopyInv
<1>12. CASE UNCHANGED vars
  <2>1. BodyInv'
    BY <1>0, <1>a, <1>12 DEF vars, BodyInv, TypeOK, Torn
  <2>2. HeldInv'
    BY <1>0, <1>a, <1>12 DEF vars, HeldInv, TypeOK, Torn
  <2>3. SeenInv'
    BY <1>0, <1>a, <1>12 DEF vars, SeenInv, TypeOK, Torn
  <2>4. HeaderInv'
    BY <1>0, <1>a, <1>12 DEF vars, HeaderInv, TypeOK, Torn
  <2> QED BY <1>0, <2>1, <2>2, <2>3, <2>4 DEF TransportInv, CopyInv
<1> QED
  BY <1>1, <1>2, <1>3, <1>4, <1>5, <1>6, <1>7, <1>8, <1>9, <1>10, <1>11, <1>12
     DEF Next, CoherentThread, Main, Finished

\* A packet is copied intact unless the coherent thread gets more than one pass
\* ahead of the main thread (ctransport.cc:150-160).
THEOREM CopyCorrect == Spec => []CopyIntact
<1>1. TransportInv => CopyIntact
  BY DEF TransportInv, CopyIntact, CopyInv, HeldInv, SeenInv, BodyInv, TypeOK
<1> QED BY <1>1, InitTransportInv, NextTransportInv, PTL DEF Spec

\* A prompt main thread sends a packet under its own number, from the buffer
\* that is not being written (ctransport.cc:134-160).
THEOREM PacketCorrect == Spec => []PromptPacket
<1>1. TransportInv => PromptPacket
  BY DEF TransportInv, PromptPacket, CopyInv, HeldInv, HeaderInv, TypeOK
<1> QED BY <1>1, InitTransportInv, NextTransportInv, PTL DEF Spec

-----------------------------------------------------------------------------
(* The transport implements Publisher.  A look-up finds a pass at least as *)
(* late as what went out last, one less if that was early.  If it is the   *)
(* same pass it is the same buffer with the header that already went out:  *)
(* until another pass is handed over the next header goes to the other     *)
(* buffer.                                                                 *)

\* What went out last, counted as a pass that was handed over before it.
LastMade == IF sent.kind = "early" THEN sent.pass - 1 ELSE sent.pass

OrderInv ==
  /\ LastMade <= notified
  /\ mpc \in {"held", "copy"} => LastMade <= pgen /\ pgen > 0
  /\ filled \/ mpc = "ptr" => notified > 0
  /\ mpc \in {"fill", "wait", "ptr"} => LastMade <= hgen

RepeatInv ==
  /\ sent.kind = "torn" => sent.pass < notified
  /\ mpc \in {"held", "copy"} /\ sent.kind # "early" /\ sent.pass = pgen
       => sent.kind = "whole" /\ hdr[sp] = sent.seq
  /\ sent.kind = "whole" /\ 0 < sent.pass /\ sent.pass = notified
       => hdr[buf1] = sent.seq

\* When main has nothing in hand and no pass was handed over since its last
\* look-up, that look-up found what went out.
SettledInv ==
  mpc \in {"head", "fill", "wait", "left"} /\ pgen = notified
    => sent.pass = notified /\ sent.kind = "whole"

PublishInv == /\ TransportInv /\ OrderInv /\ RepeatInv /\ SettledInv
              /\ pgen <= notified

LEMMA InitPublishInv == Init => PublishInv
<1> SUFFICES ASSUME Init PROVE PublishInv
  OBVIOUS
<1>1. OrderInv /\ RepeatInv /\ SettledInv /\ pgen <= notified
  BY DEF Init, OrderInv, RepeatInv, SettledInv, LastMade
<1> QED BY <1>1, InitTransportInv DEF PublishInv

\* What send() makes of the buffer it has looked up: the pass it looked up,
\* or a later one, but a later one than was handed over only from the buffer
\* of an older one, and the last one handed over only from packetbuf1.
LEMMA PacketIs ==
  ASSUME PublishInv, SendCopied
  PROVE  /\ sent'.seq = hdr[sp]
         /\ sent'.pass \in Nat /\ pgen <= sent'.pass
         /\ \/ sent'.kind = "torn" /\ sent'.pass = pgen /\ pgen < notified
            \/ sent'.kind = "whole" /\ sent'.pass <= notified
            \/ sent'.kind = "early" /\ sent'.pass = notified + 1 /\ pgen < notified
         /\ sent'.kind = "whole" /\ sent'.pass = notified => sp = buf1
         /\ pgen = notified => sent'.pass = notified /\ sent'.kind = "whole"
<1>0. /\ TypeOK /\ BodyInv /\ HeldInv /\ SeenInv /\ OrderInv /\ mpc = "copy"
  BY DEF PublishInv, TransportInv, CopyInv, SendCopied
<1>1. /\ pgen \in Nat /\ notified \in Nat /\ seen \in Nat \cup {Torn}
      /\ pgen <= notified /\ pgen > 0
  BY <1>0 DEF TypeOK, HeldInv, OrderInv
<1>2. sent' = Packet
  BY DEF SendCopied
<1>3. notified = pgen => sp = buf1 /\ seen = pgen /\ body[sp] = pgen
  BY <1>0 DEF HeldInv, SeenInv, BodyInv
<1>4. CASE seen = Torn \/ body[sp] # seen
  <2>1. pgen < notified
    BY <1>1, <1>3, <1>4 DEF Torn
  <2>2. sent' = [seq |-> hdr[sp], pass |-> pgen, kind |-> "torn"]
    BY <1>2, <1>4 DEF Packet
  <2> QED BY <1>1, <2>1, <2>2
<1>5. CASE ~(seen = Torn \/ body[sp] # seen)
  <2>1. seen \in Nat /\ body[sp] = seen /\ pgen <= seen /\ seen <= notified + 1
    BY <1>0, <1>1, <1>5 DEF SeenInv
  <2>2. sent' = [seq |-> hdr[sp], pass |-> seen,
                 kind |-> IF seen <= notified THEN "whole" ELSE "early"]
    BY <1>2, <1>5 DEF Packet
  <2>3. seen = notified => sp = buf1
    <3>1. sp = buf0 \/ sp = buf1
      BY <1>0 DEF TypeOK, Bufs
    <3>2. body[buf0] # notified
      BY <1>0, <1>1 DEF BodyInv, TypeOK, Torn
    <3> QED BY <2>1, <3>1, <3>2
  <2> QED BY <1>1, <1>3, <2>1, <2>2, <2>3
<1> QED BY <1>4, <1>5

LEMMA NextPublishInv == PublishInv /\ [Next]_vars => PublishInv'
<1> SUFFICES ASSUME PublishInv, [Next]_vars
             PROVE OrderInv' /\ RepeatInv' /\ SettledInv' /\ (pgen <= notified)'
  BY NextTransportInv DEF PublishInv
<1>0. /\ TypeOK /\ BodyInv /\ HeldInv /\ HeaderInv
      /\ OrderInv /\ RepeatInv /\ SettledInv /\ pgen <= notified
  BY DEF PublishInv, TransportInv, CopyInv
<1> USE DEF mainVars, coherentVars
<1>1. CASE WriteBegin
  <2>1. OrderInv'
    BY <1>0, <1>1 DEF WriteBegin, OrderInv, LastMade, HeaderInv, TypeOK
  <2>2. RepeatInv'
    BY <1>0, <1>1 DEF WriteBegin, OrderInv, RepeatInv, LastMade, BodyInv,
       HeldInv, HeaderInv, TypeOK
  <2>3. SettledInv' /\ (pgen <= notified)'
    BY <1>0, <1>1 DEF WriteBegin, SettledInv, TypeOK
  <2> QED BY <2>1, <2>2, <2>3
<1>2. CASE WriteEnd
  <2>1. OrderInv'
    BY <1>0, <1>2 DEF WriteEnd, OrderInv, LastMade, HeaderInv, TypeOK
  <2>2. RepeatInv'
    BY <1>0, <1>2 DEF WriteEnd, OrderInv, RepeatInv, LastMade, BodyInv,
       HeldInv, HeaderInv, TypeOK
  <2>3. SettledInv' /\ (pgen <= notified)'
    BY <1>0, <1>2 DEF WriteEnd, SettledInv, TypeOK
  <2> QED BY <2>1, <2>2, <2>3
<1>3. CASE NotifySend
  <2>1. OrderInv'
    BY <1>0, <1>3 DEF NotifySend, OrderInv, LastMade, HeaderInv, TypeOK
  <2>2. RepeatInv'
    BY <1>0, <1>3 DEF NotifySend, OrderInv, RepeatInv, LastMade, BodyInv,
       HeldInv, HeaderInv, TypeOK
  <2>3. SettledInv' /\ (pgen <= notified)'
    BY <1>0, <1>3 DEF NotifySend, SettledInv, TypeOK
  <2> QED BY <2>1, <2>2, <2>3
<1>4. CASE SendHead
  <2>1. OrderInv'
    BY <1>0, <1>4 DEF SendHead, OrderInv, LastMade, HeaderInv, TypeOK
  <2>2. RepeatInv'
    BY <1>0, <1>4 DEF SendHead, OrderInv, RepeatInv, LastMade, BodyInv,
       HeldInv, HeaderInv, TypeOK
  <2>3. SettledInv' /\ (pgen <= notified)'
    BY <1>0, <1>4 DEF SendHead, SettledInv, TypeOK
  <2> QED BY <2>1, <2>2, <2>3
<1>5. CASE SendFillHeader
  <2>1. OrderInv'
    BY <1>0, <1>5 DEF SendFillHeader, OrderInv, LastMade, HeaderInv, TypeOK
  <2>2. RepeatInv'
    BY <1>0, <1>5 DEF SendFillHeader, OrderInv, RepeatInv, LastMade, BodyInv,
       HeldInv, HeaderInv, TypeOK
  <2>3. SettledInv' /\ (pgen <= notified)'
    BY <1>0, <1>5 DEF SendFillHeader, SettledInv, TypeOK
  <2> QED BY <2>1, <2>2, <2>3
<1>6. CASE SendTake
  <2>1. OrderInv'
    BY <1>0, <1>6 DEF SendTake, OrderInv, LastMade, HeaderInv, TypeOK
  <2>2. RepeatInv'
    BY <1>0, <1>6 DEF SendTake, OrderInv, RepeatInv, LastMade, BodyInv,
       HeldInv, HeaderInv, TypeOK
  <2>3. SettledInv' /\ (pgen <= notified)'
    BY <1>0, <1>6 DEF SendTake, SettledInv, TypeOK
  <2> QED BY <2>1, <2>2, <2>3
<1>7. CASE SendLookup
  <2>1. OrderInv'
    BY <1>0, <1>7 DEF SendLookup, OrderInv, LastMade, HeaderInv, TypeOK
  <2>2. RepeatInv'
    BY <1>0, <1>7 DEF SendLookup, OrderInv, RepeatInv, LastMade, BodyInv,
       HeldInv, HeaderInv, TypeOK
  <2>3. SettledInv' /\ (pgen <= notified)'
    BY <1>0, <1>7 DEF SendLookup, SettledInv, TypeOK
  <2> QED BY <2>1, <2>2, <2>3
<1>8. CASE SendCopyBegin
  <2>1. OrderInv'
    BY <1>0, <1>8 DEF SendCopyBegin, OrderInv, LastMade, HeaderInv, TypeOK
  <2>2. RepeatInv'
    BY <1>0, <1>8 DEF SendCopyBegin, OrderInv, RepeatInv, LastMade, BodyInv,
       HeldInv, HeaderInv, TypeOK
  <2>3. SettledInv' /\ (pgen <= notified)'
    BY <1>0, <1>8 DEF SendCopyBegin, SettledInv, TypeOK
  <2> QED BY <2>1, <2>2, <2>3
<1>9. CASE LeaveLoop
  <2>1. OrderInv'
    BY <1>0, <1>9 DEF LeaveLoop, OrderInv, LastMade, HeaderInv, TypeOK
  <2>2. RepeatInv'
    BY <1>0, <1>9 DEF LeaveLoop, OrderInv, RepeatInv, LastMade, BodyInv,
       HeldInv, HeaderInv, TypeOK
  <2>3. SettledInv' /\ (pgen <= notified)'
    BY <1>0, <1>9 DEF LeaveLoop, SettledInv, TypeOK
  <2> QED BY <2>1, <2>2, <2>3
<1>10. CASE Interrupt
  <2>1. OrderInv'
    BY <1>0, <1>10 DEF Interrupt, OrderInv, LastMade, HeaderInv, TypeOK
  <2>2. RepeatInv'
    BY <1>0, <1>10 DEF Interrupt, OrderInv, RepeatInv, LastMade, BodyInv,
       HeldInv, HeaderInv, TypeOK
  <2>3. SettledInv' /\ (pgen <= notified)'
    BY <1>0, <1>10 DEF Interrupt, SettledInv, TypeOK
  <2> QED BY <2>1, <2>2, <2>3
<1>11. CASE UNCHANGED vars
  <2>1. OrderInv'
    BY <1>0, <1>11 DEF vars, OrderInv, LastMade, HeaderInv, TypeOK
  <2>2. RepeatInv'
    BY <1>0, <1>11 DEF vars, OrderInv, RepeatInv, LastMade, BodyInv,
       HeldInv, HeaderInv, TypeOK
  <2>3. SettledInv' /\ (pgen <= notified)'
    BY <1>0, <1>11 DEF vars, SettledInv, TypeOK
  <2> QED BY <2>1, <2>2, <2>3
<1>12. CASE SendCopied
  <2>1. /\ sent'.pass \in Nat /\ pgen \in Nat /\ notified \in Nat
        /\ notified' = notified /\ pgen' = pgen /\ hdr' = hdr /\ buf1' = buf1
        /\ mpc' = "head" /\ filled' = filled
    BY <1>0, <1>12, PacketIs DEF SendCopied, TypeOK
  <2>2. OrderInv'
    BY <1>0, <1>12, <2>1, PacketIs DEF OrderInv, LastMade
  <2>3. RepeatInv'
    <3>1. sent'.kind = "torn" => sent'.pass < notified'
      BY <1>12, <2>1, PacketIs
    <3>2. sent'.kind = "whole" /\ sent'.pass = notified' => hdr'[buf1'] = sent'.seq
      BY <1>12, <2>1, PacketIs
    <3> QED BY <2>1, <3>1, <3>2 DEF RepeatInv
  <2>4. SettledInv' /\ (pgen <= notified)'
    BY <1>0, <1>12, <2>1, PacketIs DEF SettledInv
  <2> QED BY <2>2, <2>3, <2>4
<1> QED
  BY <1>1, <1>2, <1>3, <1>4, <1>5, <1>6, <1>7, <1>8, <1>9, <1>10, <1>11, <1>12
     DEF Next, CoherentThread, Main, Finished

\* What send() publishes is a step of Publisher.
LEMMA SendIsPublish ==
  ASSUME PublishInv, SendCopied PROVE [Client!Next]_(Client!vars)
<1>0. /\ TypeOK /\ OrderInv /\ RepeatInv /\ mpc = "copy" /\ notified' = notified
  BY DEF PublishInv, TransportInv, SendCopied, coherentVars
<1>1. /\ sent'.pass \in Nat /\ sent.pass \in Nat /\ pgen \in Nat /\ notified \in Nat
      /\ LastMade <= pgen /\ pgen > 0
  BY <1>0, PacketIs DEF TypeOK, OrderInv
<1>2. sent' = [seq |-> sent'.seq, pass |-> sent'.pass, kind |-> sent'.kind]
  BY DEF SendCopied, Packet
<1>3. sent = [seq |-> sent.seq, pass |-> sent.pass, kind |-> sent.kind]
  BY <1>0 DEF TypeOK
<1> DEFINE first == IF sent.kind = "early" THEN sent.pass - 1 ELSE sent.pass + 1
<1>4. ASSUME sent'.pass \in first .. notified, sent'.kind # "early"
      PROVE  [Client!Next]_(Client!vars)
  <2>1. sent'.kind = "whole" \/ (sent'.kind = "torn" /\ sent'.pass < notified)
    BY <1>4, PacketIs
  <2>2. Client!PublishMade
    BY <1>0, <1>2, <1>4, <2>1 DEF Client!PublishMade, Client!NextPass, Client!GoesOut
  <2> QED BY <2>2 DEF Client!Next
<1>5. CASE sent'.kind = "early"
  <2>1. sent'.pass = notified + 1 /\ pgen < notified
    BY <1>5, PacketIs
  <2>2. sent.pass <= notified
    BY <1>1, <2>1 DEF LastMade
  <2>3. Client!PublishEarly
    BY <1>0, <1>2, <1>5, <2>1, <2>2 DEF Client!PublishEarly, Client!GoesOut
  <2> QED BY <2>3 DEF Client!Next
<1>6. CASE sent'.kind # "early" /\ (sent.kind = "early" \/ sent.pass < sent'.pass)
  <2>1. sent'.pass <= notified /\ pgen <= sent'.pass
    BY <1>1, <1>6, PacketIs
  <2>2. first <= sent'.pass /\ first \in Int
    BY <1>1, <1>6, <2>1 DEF LastMade
  <2> QED BY <1>1, <1>4, <1>6, <2>1, <2>2
<1>7. CASE sent'.kind # "early" /\ sent.kind # "early" /\ ~(sent.pass < sent'.pass)
  <2>1. sent'.pass = pgen /\ sent.pass = pgen
    BY <1>1, <1>7, PacketIs DEF LastMade
  <2>2. sent.kind = "whole" /\ hdr[sp] = sent.seq
    BY <1>0, <1>7, <2>1 DEF RepeatInv
  <2>3. CASE sent'.kind = "whole"
    <3>1. sent' = sent
      BY <1>2, <1>3, <2>1, <2>2, <2>3, PacketIs
    <3> QED BY <1>0, <3>1 DEF Client!vars
  <2>4. CASE sent'.kind = "torn"
    <3>1. Client!PublishSpoilt
      BY <1>0, <1>2, <2>1, <2>2, <2>4, PacketIs DEF Client!PublishSpoilt, Client!GoesOut
    <3> QED BY <3>1 DEF Client!Next
  <2> QED BY <1>7, <2>3, <2>4, PacketIs
<1> QED BY <1>5, <1>6, <1>7

LEMMA StepPublishes == PublishInv /\ [Next]_vars => [Client!Next]_(Client!vars)
<1> SUFFICES ASSUME PublishInv, [Next]_vars PROVE [Client!Next]_(Client!vars)
  OBVIOUS
<1>1. CASE NotifySend
  <2>1. Client!Make
    BY <1>1 DEF NotifySend, mainVars, Client!Make
  <2> QED BY <2>1 DEF Client!Next
<1>2. CASE SendCopied
  BY <1>2, SendIsPublish
<1>3. CASE WriteBegin \/ WriteEnd
  BY <1>3 DEF WriteBegin, WriteEnd, mainVars, Client!vars
<1>4. CASE SendHead \/ SendFillHeader \/ SendTake \/ SendLookup \/ SendCopyBegin
            \/ LeaveLoop
  BY <1>4 DEF SendHead, SendFillHeader, SendTake, SendLookup, SendCopyBegin,
     LeaveLoop, coherentVars, Client!vars
<1>5. CASE Interrupt
  BY <1>5 DEF Interrupt, mainVars, coherentVars, Client!vars
<1>6. CASE UNCHANGED vars
  BY <1>6 DEF vars, Client!vars
<1> QED BY <1>1, <1>2, <1>3, <1>4, <1>5, <1>6
           DEF Next, CoherentThread, Main, Finished

\* For any number of passes and however the threads overtake each other, the
\* packets a client receives go back by at most one pass, and only after one that
\* went out before it was handed over (ctransport.cc:134-160, 226-242).
THEOREM PromiseKept == Spec => ClientPromise
<1>1. Init => Client!Init
  BY DEF Init, Client!Init, NoHeader
<1> QED BY <1>1, InitPublishInv, NextPublishInv, StepPublishes, PTL
           DEF Spec, ClientPromise, Client!Spec

-----------------------------------------------------------------------------
(* No notification is lost: bufferfilled is cleared before the look-up, so *)
(* that main only has nothing to take when it has looked up the last pass. *)

TakenInv == ~filled /\ mpc # "ptr" => pgen = notified

LEMMA NextTakenInv == TakenInv /\ [Next]_vars => TakenInv'
<1> SUFFICES ASSUME TakenInv, [Next]_vars PROVE TakenInv'
  OBVIOUS
<1> USE DEF TakenInv, mainVars, coherentVars
<1>1. CASE CoherentThread
  BY <1>1 DEF CoherentThread, WriteBegin, WriteEnd, NotifySend
<1>2. CASE Main
  BY <1>2 DEF Main, SendHead, SendFillHeader, SendTake, SendLookup,
     SendCopyBegin, SendCopied, LeaveLoop
<1>3. CASE Interrupt \/ UNCHANGED vars
  BY <1>3 DEF Interrupt, vars
<1> QED BY <1>1, <1>2, <1>3 DEF Next, Finished

\* Main waits for a notification only when the pass handed over last has gone
\* out, and whole, however the two threads overtake each other
\* (ctransport.cc:150-160, 226-242).
THEOREM NotificationsKept == Spec => []NothingLeft
<1>1. Init => TakenInv
  BY DEF Init, TakenInv
<1>2. PublishInv /\ TakenInv => NothingLeft
  BY DEF PublishInv, SettledInv, TakenInv, NothingLeft
<1> QED BY <1>1, <1>2, InitPublishInv, NextPublishInv, NextTakenInv, PTL DEF Spec
=============================================================================
