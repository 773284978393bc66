--------------------------- MODULE CoherentProofs ---------------------------
(***************************************************************************)
(* Proofs about Coherent, for any number of devices, every ring size and   *)
(* every bound.                                                            *)
(***************************************************************************)
EXTENDS Coherent, TLAPS

\* Before a 32-bit counter wraps around it is the number of blocks.
LEMMA CountBelow == ASSUME NEW i \in Nat, i < Wrap PROVE Count(i) = i
BY WrapAssumption DEF Count

LEMMA CountType == ASSUME NEW i \in Nat PROVE Count(i) \in Nat
BY WrapAssumption, NAssumption DEF Count

LEMMA SlotType == ASSUME NEW i \in Nat PROVE Slot(i) \in Slots
BY NAssumption DEF Slot, Slots

-----------------------------------------------------------------------------
(* Types, and where the coherent thread stands in its pass.                *)

RingRecord ==
  [wp : Nat, rp : Nat, newdata : Nat,
   tag : [Slots -> Nat], data : [Slots -> BlockNumbers],
   writing : BOOLEAN, streaming : BOOLEAN, exitreq : BOOLEAN,
   async : {"running", "cancelled", "done"},
   seen : BlockNumbers, sfloat : BlockNumbers, phantom : Nat, skipped : Nat]

\* A column is counted for a device at most, and the reference has column 0.
Place ==
  /\ cpc \in {"wait", "got", "conv", "send"} => cdev \in Devs /\ column > 0
  /\ IF cdev = Ref THEN column \in {0, 1} ELSE column \in 1 .. cdev

TypeInv ==
  /\ ring \in [Devs -> RingRecord]
  /\ cdev \in 0 .. NumSignals + 1 /\ mpc \in -1 .. NumSignals + 1
  /\ cpc \in {"idle", "wait", "got", "conv", "send", "done"}
  /\ coexit \in BOOLEAN
  /\ packet \in [Columns -> ColumnContents]
  /\ Place

LEMMA InitTypeInv == Init => TypeInv
<1> SUFFICES ASSUME Init PROVE TypeInv
  OBVIOUS
<1>1. ring \in [Devs -> RingRecord]
  BY DEF Init, RingRecord, BlockNumbers
<1>2. packet \in [Columns -> ColumnContents]
  BY DEF Init, ColumnContents, Empty, BlockNumbers
<1>3. coexit \in BOOLEAN
  BY DEF Init
<1>4. Place
  BY DEF Init, Place, Ref
<1>5. cdev \in 0 .. NumSignals + 1 /\ mpc \in -1 .. NumSignals + 1
  BY NumSignalsAssumption DEF Init, Ref
<1>6. cpc \in {"idle", "wait", "got", "conv", "send", "done"}
  BY DEF Init
<1> QED
  BY <1>1, <1>2, <1>3, <1>4, <1>5, <1>6 DEF TypeInv

\* A ring in which a callback, a read() or main has changed what it changes.
LEMMA Begun ==
  ASSUME NEW r \in RingRecord, NEW s \in Slots, NEW n \in Nat, NEW a \in {"running", "cancelled", "done"}
  PROVE  [r EXCEPT !.writing = TRUE, !.async = a, !.tag[s] = n, !.data[s] = Torn] \in RingRecord
BY DEF RingRecord, BlockNumbers

LEMMA Delivered ==
  ASSUME NEW r \in RingRecord, NEW s \in Slots, NEW b \in Nat, NEW w \in Nat, NEW n \in Nat
  PROVE  [r EXCEPT !.writing = FALSE, !.data[s] = b, !.wp = w, !.newdata = n] \in RingRecord
BY DEF RingRecord, BlockNumbers

LEMMA Counted ==
  ASSUME NEW r \in RingRecord, NEW n \in Nat
  PROVE  /\ [r EXCEPT !.newdata = n] \in RingRecord
         /\ [r EXCEPT !.phantom = n] \in RingRecord
         /\ [r EXCEPT !.skipped = n] \in RingRecord
         /\ [r EXCEPT !.rp = n] \in RingRecord
BY DEF RingRecord

LEMMA Converted ==
  ASSUME NEW r \in RingRecord, NEW b \in BlockNumbers
  PROVE  /\ [r EXCEPT !.seen = b] \in RingRecord
         /\ [r EXCEPT !.sfloat = b] \in RingRecord
BY DEF RingRecord

LEMMA Ended ==
  ASSUME NEW r \in RingRecord
  PROVE  /\ [r EXCEPT !.async = "done"] \in RingRecord
         /\ [r EXCEPT !.streaming = FALSE] \in RingRecord
         /\ [r EXCEPT !.exitreq = TRUE] \in RingRecord
BY DEF RingRecord

\* The counters and block numbers of a ring.
LEMMA Fields ==
  ASSUME NEW r \in RingRecord
  PROVE  /\ r.wp \in Nat /\ r.rp \in Nat /\ r.newdata \in Nat
         /\ r.phantom \in Nat /\ r.skipped \in Nat
         /\ r.seen \in BlockNumbers /\ r.sfloat \in BlockNumbers
         /\ r.async \in {"running", "cancelled", "done"}
         /\ \A s \in Slots : r.tag[s] \in Nat /\ r.data[s] \in BlockNumbers
         /\ Slot(r.wp) \in Slots /\ Slot(r.rp) \in Slots /\ Count(r.wp) \in Nat
<1>1. r.wp \in Nat /\ r.rp \in Nat
  BY DEF RingRecord
<1> QED
  BY <1>1, SlotType, CountType DEF RingRecord

\* A step that changes the ring of one device.
LEMMA RingUpdate ==
  ASSUME ring \in [Devs -> RingRecord], NEW d \in Devs, NEW r \in RingRecord,
         ring' = [ring EXCEPT ![d] = r]
  PROVE  ring' \in [Devs -> RingRecord]
OBVIOUS

\* A callback touches its own ring and no more.
LEMMA DeviceType == ASSUME TypeInv, NEW d \in Devs, Device(d) PROVE TypeInv'
<1> DEFINE r == ring[d]
<1>1. r \in RingRecord /\ ring \in [Devs -> RingRecord]
  BY DEF TypeInv
<1>2. UNCHANGED <<coherentVars, mpc, coexit>>
  BY DEF Device, CallbackBegin, CallbackEnd, AsyncReturn
<1>3. CASE CallbackBegin(d)
  <2> DEFINE a == IF r.exitreq THEN "cancelled" ELSE r.async
             s == [r EXCEPT !.writing = TRUE, !.async = a,
                            !.tag[Slot(r.wp)] = Count(r.wp), !.data[Slot(r.wp)] = Torn]
  <2>1. a \in {"running", "cancelled", "done"}
    BY <1>1, Fields
  <2>2. s \in RingRecord
    <3> HIDE DEF a, r
    <3> QED BY <1>1, <2>1, Fields, Begun
  <2>3. ring' = [ring EXCEPT ![d] = s]
    BY <1>3 DEF CallbackBegin
  <2> QED
    BY <1>1, <1>2, <2>2, <2>3, RingUpdate DEF TypeInv, Place, coherentVars
<1>4. CASE CallbackEnd(d)
  <2> DEFINE w == r.wp + 1
             n == r.newdata + 1
             s == [r EXCEPT !.writing = FALSE, !.data[Slot(r.wp)] = r.wp,
                            !.wp = w, !.newdata = n]
  <2>1. w \in Nat /\ n \in Nat
    BY <1>1, Fields
  <2>2. s \in RingRecord
    <3> HIDE DEF w, n, r
    <3> QED BY <1>1, <2>1, Fields, Delivered
  <2>3. ring' = [ring EXCEPT ![d] = s]
    BY <1>4 DEF CallbackEnd
  <2> QED
    BY <1>1, <1>2, <2>2, <2>3, RingUpdate DEF TypeInv, Place, coherentVars
<1>5. CASE AsyncReturn(d)
  <2>1. ring' = [ring EXCEPT ![d] = [r EXCEPT !.async = "done"]]
    BY <1>5 DEF AsyncReturn
  <2> QED
    BY <1>1, <1>2, <2>1, RingUpdate, Ended DEF TypeInv, Place, coherentVars
<1> QED
  BY <1>3, <1>4, <1>5 DEF Device

\* The coherent thread goes from device to device, and counts a column for each
\* at most.
LEMMA CoherentType == TypeInv /\ CoherentThread => TypeInv'
<1> SUFFICES ASSUME TypeInv, CoherentThread PROVE TypeInv'
  OBVIOUS
<1> USE NumSignalsAssumption
<1> DEFINE r == ring[cdev]
<1>0. cdev \in Devs => r \in RingRecord
  BY DEF TypeInv
<1>a. ring \in [Devs -> RingRecord]
  BY DEF TypeInv
<1>1. CASE StartPass \/ CoherentExit \/ ReadEnter
  BY <1>1 DEF StartPass, CoherentExit, ReadEnter, TypeInv, Place, Ref
<1>2. CASE ReadTake
  <2>1. /\ cdev \in Devs /\ ring' = [ring EXCEPT ![cdev] = [r EXCEPT !.newdata = r.newdata - 1]]
        /\ r.newdata > 0
    BY <1>2 DEF ReadTake, TypeInv, Place
  <2>2. r.newdata - 1 \in Nat
    BY <1>0, <2>1, Fields
  <2>3. ring' \in [Devs -> RingRecord]
    BY <1>0, <1>a, <2>1, <2>2, RingUpdate, Counted
  <2> QED
    BY <1>2, <2>3 DEF ReadTake, TypeInv, Place
<1>3. CASE ReadWithoutWait
  <2>1. cdev \in Devs /\ ring' = [ring EXCEPT ![cdev] = [r EXCEPT !.phantom = r.phantom + 1]]
    BY <1>3 DEF ReadWithoutWait
  <2>2. r.phantom + 1 \in Nat
    BY <1>0, <2>1, Fields
  <2>3. ring' \in [Devs -> RingRecord]
    BY <1>0, <1>a, <2>1, <2>2, RingUpdate, Counted
  <2> QED
    BY <1>3, <2>3 DEF ReadWithoutWait, TypeInv, Place
<1>4. CASE PassOver
  <2>1. cdev \in Devs /\ ring' = [ring EXCEPT ![cdev] = [r EXCEPT !.skipped = r.skipped + 1]]
    BY <1>4 DEF PassOver, TypeInv, Place
  <2>2. r.skipped + 1 \in Nat
    BY <1>0, <2>1, Fields
  <2>3. ring' \in [Devs -> RingRecord]
    BY <1>0, <1>a, <2>1, <2>2, RingUpdate, Counted
  <2>4. cdev # Ref
    BY <1>4 DEF PassOver, Ready
  <2> QED
    BY <1>4, <2>1, <2>3, <2>4 DEF PassOver, TypeInv, Place, Devs, Ref
<1>5. CASE ConvertBegin
  <2>1. cdev \in Devs /\ ring' = [ring EXCEPT ![cdev] = [r EXCEPT !.seen = r.data[Slot(r.rp)]]]
    BY <1>5 DEF ConvertBegin, TypeInv, Place
  <2>2. ring' \in [Devs -> RingRecord]
    BY <1>0, <1>a, <2>1, Fields, RingUpdate, Converted
  <2> QED
    BY <1>5, <2>2 DEF ConvertBegin, TypeInv, Place
<1>6. CASE ConvertEnd
  <2> DEFINE b == IF r.data[Slot(r.rp)] = r.seen THEN r.seen ELSE Torn
  <2>1. cdev \in Devs /\ ring' = [ring EXCEPT ![cdev] = [r EXCEPT !.sfloat = b]]
    BY <1>6 DEF ConvertEnd, TypeInv, Place
  <2>2. b \in BlockNumbers
    BY <1>0, <2>1, Fields DEF BlockNumbers
  <2>3. ring' \in [Devs -> RingRecord]
    <3> HIDE DEF b
    <3> QED BY <1>0, <1>a, <2>1, <2>2, RingUpdate, Converted
  <2> QED
    BY <1>6, <2>3 DEF ConvertEnd, TypeInv, Place
<1>7. CASE WriteAndConsume
  <2> DEFINE e == [dev |-> cdev, cnt |-> r.tag[Slot(r.rp)], blk |-> r.sfloat]
  <2>1. /\ cdev \in Devs /\ ring' = [ring EXCEPT ![cdev] = [r EXCEPT !.rp = r.rp + 1]]
        /\ packet' = [packet EXCEPT ![ColumnOf(cdev)] = e]
    BY <1>7 DEF WriteAndConsume, TypeInv, Place
  <2>2. r.rp + 1 \in Nat
    BY <1>0, <2>1, Fields
  <2>3. ring' \in [Devs -> RingRecord]
    BY <1>0, <1>a, <2>1, <2>2, RingUpdate, Counted
  <2>4. e \in ColumnContents
    BY <1>0, <2>1, Fields DEF ColumnContents
  <2>5. packet' \in [Columns -> ColumnContents]
    <3> HIDE DEF e
    <3> QED BY <2>1, <2>4 DEF TypeInv
  <2> QED
    BY <1>7, <2>1, <2>3, <2>5 DEF WriteAndConsume, TypeInv, Place, Devs, Ref
<1>8. CASE NotifySend
  <2>1. packet' \in [Columns -> ColumnContents]
    BY <1>8 DEF NotifySend, ColumnContents, Empty, BlockNumbers
  <2> QED
    BY <1>8, <2>1 DEF NotifySend, TypeInv, Place, Ref
<1> QED
  BY <1>1, <1>2, <1>3, <1>4, <1>5, <1>6, <1>7, <1>8 DEF CoherentThread

LEMMA MainType == TypeInv /\ (Main \/ BeginShutdown) => TypeInv'
<1> SUFFICES ASSUME TypeInv, Main \/ BeginShutdown PROVE TypeInv'
  OBVIOUS
<1>1. UNCHANGED coherentVars
  BY DEF Main, StopDevice, RequestDeviceExit, RequestCoherentExit, BeginShutdown
<1>2. ring' \in [Devs -> RingRecord]
  <2>1. CASE StopDevice
    BY <2>1, Ended, RingUpdate DEF StopDevice, TypeInv
  <2>2. CASE RequestDeviceExit
    BY <2>2, Ended, RingUpdate DEF RequestDeviceExit, TypeInv
  <2>3. CASE RequestCoherentExit \/ BeginShutdown
    BY <2>3 DEF RequestCoherentExit, BeginShutdown, TypeInv
  <2> QED
    BY <2>1, <2>2, <2>3 DEF Main
<1>3. mpc' \in -1 .. NumSignals + 1
  BY NumSignalsAssumption DEF Main, StopDevice, RequestDeviceExit, RequestCoherentExit,
     BeginShutdown, TypeInv, Devs, Ref
<1>4. coexit' \in BOOLEAN
  BY DEF Main, StopDevice, RequestDeviceExit, RequestCoherentExit, BeginShutdown, TypeInv
<1> QED
  BY <1>1, <1>2, <1>3, <1>4 DEF TypeInv, Place, coherentVars

LEMMA NextTypeInv == TypeInv /\ [Next]_vars => TypeInv'
<1> SUFFICES ASSUME TypeInv, [Next]_vars PROVE TypeInv'
  OBVIOUS
<1>1. CASE UNCHANGED vars
  BY <1>1 DEF vars, TypeInv, Place
<1> QED
  BY <1>1, DeviceType, CoherentType, MainType DEF Next, Finished, BoundReached

\* For any number of devices, every variable keeps its type.
THEOREM TypeCorrect == Spec => []TypeOK
<1>1. TypeInv => TypeOK
  BY NumSignalsAssumption DEF TypeInv, TypeOK, RingRecord, Place, Ref
<1> QED
  BY <1>1, InitTypeInv, NextTypeInv, PTL DEF Spec

-----------------------------------------------------------------------------
(* What the reader consumes and passes over.                               *)

\* Only the coherent thread consumes and passes over, and only for the device it
\* works on; the others it leaves alone.
LEMMA ReaderCounts ==
  ASSUME TypeInv, Next
  PROVE  \/ /\ cdev' = cdev
            /\ \A d \in Devs : ring'[d].rp = ring[d].rp /\ ring'[d].skipped = ring[d].skipped
         \/ /\ WriteAndConsume /\ cdev' = cdev + 1
            /\ ring'[cdev].rp = ring[cdev].rp + 1
            /\ \A d \in Devs : d # cdev => ring'[d].rp = ring[d].rp
            /\ \A d \in Devs : ring'[d].skipped = ring[d].skipped
         \/ /\ PassOver /\ cdev' = cdev + 1 /\ cdev # Ref
            /\ ring'[cdev].skipped = ring[cdev].skipped + 1
            /\ \A d \in Devs : d # cdev => ring'[d].skipped = ring[d].skipped
            /\ \A d \in Devs : ring'[d].rp = ring[d].rp
         \/ /\ cdev = NumSignals + 1 /\ cdev' = Ref
            /\ \A d \in Devs : ring'[d].rp = ring[d].rp /\ ring'[d].skipped = ring[d].skipped
<1>0. ring \in [Devs -> RingRecord]
  BY DEF TypeInv
<1>1. ASSUME NEW d \in Devs, Device(d)
      PROVE  /\ cdev' = cdev
             /\ \A e \in Devs : ring'[e].rp = ring[e].rp /\ ring'[e].skipped = ring[e].skipped
  <2>1. \A e \in Devs : e # d => ring'[e] = ring[e]
    BY <1>0, <1>1 DEF Device, CallbackBegin, CallbackEnd, AsyncReturn
  <2>2. ring'[d].rp = ring[d].rp /\ ring'[d].skipped = ring[d].skipped
    <3>1. CASE CallbackBegin(d)
      BY <1>0, <3>1 DEF CallbackBegin, RingRecord
    <3>2. CASE CallbackEnd(d)
      BY <1>0, <3>2 DEF CallbackEnd, RingRecord
    <3>3. CASE AsyncReturn(d)
      BY <1>0, <3>3 DEF AsyncReturn, RingRecord
    <3> QED
      BY <1>1, <3>1, <3>2, <3>3 DEF Device
  <2>3. cdev' = cdev
    BY <1>1 DEF Device, CallbackBegin, CallbackEnd, AsyncReturn, coherentVars
  <2> QED
    BY <2>1, <2>2, <2>3
<1>2. ASSUME ReadTake \/ ReadWithoutWait \/ ConvertBegin \/ ConvertEnd
      PROVE  /\ cdev' = cdev
             /\ \A e \in Devs : ring'[e].rp = ring[e].rp /\ ring'[e].skipped = ring[e].skipped
  <2>1. CASE ReadTake
    BY <1>0, <2>1 DEF ReadTake, RingRecord
  <2>2. CASE ReadWithoutWait
    BY <1>0, <2>2 DEF ReadWithoutWait, RingRecord
  <2>3. CASE ConvertBegin
    BY <1>0, <2>3 DEF ConvertBegin, RingRecord
  <2>4. CASE ConvertEnd
    BY <1>0, <2>4 DEF ConvertEnd, RingRecord
  <2> QED
    BY <1>2, <2>1, <2>2, <2>3, <2>4
<1>3. CASE StartPass \/ CoherentExit \/ ReadEnter \/ Finished \/ BoundReached
  BY <1>3 DEF StartPass, CoherentExit, ReadEnter, Finished, BoundReached, vars
<1>4. ASSUME Main \/ BeginShutdown
      PROVE  /\ cdev' = cdev
             /\ \A e \in Devs : ring'[e].rp = ring[e].rp /\ ring'[e].skipped = ring[e].skipped
  <2> USE DEF coherentVars
  <2>1. CASE StopDevice
    BY <1>0, <2>1 DEF StopDevice, RingRecord
  <2>2. CASE RequestDeviceExit
    BY <1>0, <2>2 DEF RequestDeviceExit, RingRecord
  <2>3. CASE RequestCoherentExit \/ BeginShutdown
    BY <2>3 DEF RequestCoherentExit, BeginShutdown
  <2> QED
    BY <1>4, <2>1, <2>2, <2>3 DEF Main
<1>5. CASE PassOver
  <2>1. cdev \in Devs /\ cdev # Ref
    BY <1>5 DEF PassOver, TypeInv, Place, Ready
  <2> QED
    BY <1>0, <1>5, <2>1 DEF PassOver, RingRecord
<1>6. CASE WriteAndConsume
  <2>1. cdev \in Devs
    BY <1>6 DEF WriteAndConsume, TypeInv, Place
  <2> QED
    BY <1>0, <1>6, <2>1 DEF WriteAndConsume, RingRecord
<1>7. CASE NotifySend
  BY <1>7 DEF NotifySend
<1> QED
  BY <1>1, <1>2, <1>3, <1>4, <1>5, <1>6, <1>7 DEF Next, CoherentThread

LEMMA NextPasses == TypeInv /\ PassesAgree /\ [Next]_vars => PassesAgree'
<1> SUFFICES ASSUME TypeInv, PassesAgree, [Next]_vars PROVE PassesAgree'
  OBVIOUS
<1>1. CASE UNCHANGED vars
  BY <1>1 DEF vars, PassesAgree
<1>2. CASE Next
  <2> SUFFICES ASSUME NEW d \in Signals
               PROVE  ring'[d].rp + ring'[d].skipped =
                        ring'[Ref].rp - (IF Ref < cdev' /\ cdev' <= d THEN 1 ELSE 0)
    BY DEF PassesAgree
  <2>1. /\ ring[d].rp \in Nat /\ ring[d].skipped \in Nat /\ ring[Ref].rp \in Nat
        /\ d \in Devs /\ Ref \in Devs /\ d # Ref /\ d \in 1 .. NumSignals
        /\ cdev \in 0 .. NumSignals + 1
    BY Fields, NumSignalsAssumption DEF TypeInv, Signals, Devs, Ref
  <2>2. ring[d].rp + ring[d].skipped =
          ring[Ref].rp - (IF Ref < cdev /\ cdev <= d THEN 1 ELSE 0)
    BY DEF PassesAgree
  <2> QED
    BY <1>2, <2>1, <2>2, ReaderCounts, NumSignalsAssumption DEF Ref
<1> QED
  BY <1>1, <1>2

LEMMA PassInvariance == Spec => [](TypeInv /\ PassesAgree)
<1>1. Init => PassesAgree
  BY NumSignalsAssumption DEF Init, PassesAgree, Signals, Devs, Ref
<1> QED
  BY <1>1, InitTypeInv, NextTypeInv, NextPasses, PTL DEF Spec

\* For any number of devices, a pass handles each of them exactly once.
THEOREM PassesCorrect == Spec => []PassesAgree
BY PassInvariance, PTL

-----------------------------------------------------------------------------
(* The columns of a packet.                                                *)

\* Only three steps of the coherent thread touch the packet or its place in it.
LEMMA PacketSteps ==
  Next => \/ UNCHANGED <<packet, column, cdev>>
          \/ StartPass \/ PassOver \/ WriteAndConsume \/ NotifySend
BY DEF Next, Device, CallbackBegin, CallbackEnd, AsyncReturn, CoherentThread, CoherentExit,
       ReadEnter, ReadTake, ReadWithoutWait, ConvertBegin, ConvertEnd, BeginShutdown, Main,
       StopDevice, RequestDeviceExit, RequestCoherentExit, Finished, BoundReached, vars,
       coherentVars

\* Writing a device's column appends it to those written.
LEMMA WriteColumns ==
  ASSUME TypeInv, ColumnsInOrder, WriteAndConsume
  PROVE  ColumnsInOrder'
<1> DEFINE r == ring[cdev]
           c == ColumnOf(cdev)
           e == [dev |-> cdev, cnt |-> r.tag[Slot(r.rp)], blk |-> r.sfloat]
<1>1. /\ packet' = [packet EXCEPT ![c] = e]
      /\ cdev \in Devs /\ cdev' = cdev + 1 /\ column > 0
      /\ column' = IF cdev = Ref THEN column ELSE column + 1
  BY DEF WriteAndConsume, TypeInv, Place
<1>2. /\ cdev \in 0 .. NumSignals /\ NumSignals \in Nat
      /\ IF cdev = Ref THEN column = 1 /\ c = 0 ELSE column \in 1 .. cdev /\ c = column
      /\ c \in Columns /\ c <= cdev
  BY <1>1, NumSignalsAssumption DEF TypeInv, Place, Devs, Ref, ColumnOf, Columns
<1>3. e.dev = cdev /\ e # Empty
  <2>1. e.dev = cdev /\ Empty.dev = -1
    BY DEF Empty
  <2> QED
    BY <1>2, <2>1
<1> HIDE DEF e, c, r
<1>4. /\ packet'[c] = e
      /\ \A k \in Columns : k # c => packet'[k] = packet[k]
  BY <1>1, <1>2 DEF TypeInv
<1>5. Written' = Written \cup {c}
  BY <1>2, <1>3, <1>4 DEF Written
<1>6. Written = 0 .. c-1
  BY <1>2 DEF ColumnsInOrder, Ref
<1>7. Written' = 0 .. (IF cdev' > Ref THEN column' - 1 ELSE -1)
  BY <1>1, <1>2, <1>5, <1>6 DEF Ref
<1>8. \A k \in Written : k # c /\ packet'[k] = packet[k] /\ packet[k].dev < cdev
  BY <1>2, <1>4, <1>6 DEF ColumnsInOrder, Written
<1>9. \A j, k \in Written' : j < k => packet'[j].dev < packet'[k].dev
  <2> SUFFICES ASSUME NEW j \in Written', NEW k \in Written', j < k
               PROVE  packet'[j].dev < packet'[k].dev
    OBVIOUS
  <2>1. j \in Written
    BY <1>2, <1>5, <1>6
  <2>2. CASE k \in Written
    BY <1>8, <2>1, <2>2 DEF ColumnsInOrder
  <2>3. CASE k = c
    BY <1>3, <1>4, <1>8, <2>1, <2>3
  <2> QED
    BY <1>5, <2>2, <2>3
<1>10. \A k \in Written' : k <= packet'[k].dev /\ packet'[k].dev < cdev'
  <2> SUFFICES ASSUME NEW k \in Written'
               PROVE  k <= packet'[k].dev /\ packet'[k].dev < cdev'
    OBVIOUS
  <2>1. CASE k \in Written
    <3>1. packet[k].dev \in Int
      BY <2>1 DEF TypeInv, ColumnContents, Written, Devs
    <3> QED
      BY <1>1, <1>2, <1>8, <2>1, <3>1 DEF ColumnsInOrder
  <2>2. CASE k = c
    BY <1>1, <1>2, <1>3, <1>4, <2>2
  <2> QED
    BY <1>5, <2>1, <2>2
<1> QED
  BY <1>7, <1>9, <1>10 DEF ColumnsInOrder

LEMMA NextColumns == TypeInv /\ ColumnsInOrder /\ [Next]_vars => ColumnsInOrder'
<1> SUFFICES ASSUME TypeInv, ColumnsInOrder, [Next]_vars PROVE ColumnsInOrder'
  OBVIOUS
<1>1. CASE UNCHANGED <<packet, column, cdev>>
  BY <1>1 DEF ColumnsInOrder, Written
<1>2. CASE StartPass
  BY <1>2 DEF StartPass, ColumnsInOrder, Written, Ref
<1>3. CASE PassOver
  <2>1. cdev > Ref /\ cdev' = cdev + 1 /\ cdev \in Int /\ UNCHANGED <<packet, column>>
    BY <1>3, NumSignalsAssumption DEF PassOver, TypeInv, Place, Ready, Devs, Ref
  <2>2. \A k \in Written : packet[k].dev \in Int
    BY DEF TypeInv, ColumnContents, Written, Devs
  <2> QED
    BY <2>1, <2>2 DEF ColumnsInOrder, Written, Ref
<1>4. CASE WriteAndConsume
  BY <1>4, WriteColumns
<1>5. CASE NotifySend
  <2>1. Written' = {} /\ cdev' = Ref
    BY <1>5 DEF NotifySend, Written
  <2> QED
    BY <2>1 DEF ColumnsInOrder, Ref
<1> QED
  BY <1>1, <1>2, <1>3, <1>4, <1>5, PacketSteps DEF vars

\* For any number of devices, the columns of a packet are those of the ready
\* devices, in their order and without a gap.
THEOREM ColumnsCorrect == Spec => []ColumnsInOrder
<1>1. Init => ColumnsInOrder
  BY DEF Init, ColumnsInOrder, Written, Ref
<1> QED
  BY <1>1, InitTypeInv, NextTypeInv, NextColumns, PTL DEF Spec

-----------------------------------------------------------------------------
(* Every device by itself implements SampleRing.                           *)

\* The pass in which the coherent thread is told to end is its last: a stopped
\* device is read once more in it, and the thread ends when all were told to.
Handled(d) == \/ cdev > d
              \/ cdev = d /\ cpc # "idle"
              \/ cdev = Ref /\ column = 0

LastPass ==
  /\ \A d \in Devs : ring[d].phantom <= MaxPhantom + (IF coexit /\ Handled(d) THEN 1 ELSE 0)
  /\ \A d \in Devs : mpc > d => ring[d].exitreq
  /\ coexit => mpc = NumSignals + 1

LEMMA InitLastPass == Init => LastPass
BY BoundAssumption, NumSignalsAssumption DEF Init, LastPass, Devs, Handled

LEMMA NextLastPass == TypeInv /\ LastPass /\ [Next]_vars => LastPass'
<1> SUFFICES ASSUME TypeInv, LastPass, [Next]_vars PROVE LastPass'
  OBVIOUS
<1>0. /\ ring \in [Devs -> RingRecord] /\ MaxPhantom \in Nat
      /\ \A d \in Devs : ring[d].phantom \in Nat
      /\ Devs = 0 .. NumSignals /\ NumSignals \in Nat /\ Ref = 0
  BY Fields, BoundAssumption, NumSignalsAssumption DEF TypeInv, Devs, Ref
<1>1. ASSUME NEW d \in Devs, Device(d) PROVE LastPass'
  <2>1. \A e \in Devs : ring'[e].phantom = ring[e].phantom /\ ring'[e].exitreq = ring[e].exitreq
    <3>1. CASE CallbackBegin(d)
      BY <1>0, <3>1 DEF CallbackBegin, RingRecord
    <3>2. CASE CallbackEnd(d)
      BY <1>0, <3>2 DEF CallbackEnd, RingRecord
    <3>3. CASE AsyncReturn(d)
      BY <1>0, <3>3 DEF AsyncReturn, RingRecord
    <3> QED
      BY <1>1, <3>1, <3>2, <3>3 DEF Device
  <2>2. UNCHANGED <<cdev, cpc, column, mpc, coexit>>
    BY <1>1 DEF Device, CallbackBegin, CallbackEnd, AsyncReturn, coherentVars
  <2> QED
    BY <2>1, <2>2 DEF LastPass, Handled
<1>2. CASE StartPass \/ CoherentExit \/ ReadEnter \/ NotifySend
  BY <1>0, <1>2 DEF StartPass, CoherentExit, ReadEnter, NotifySend, LastPass, Handled, TypeInv
<1>3. CASE ReadTake \/ PassOver \/ ConvertBegin \/ ConvertEnd \/ WriteAndConsume
  <2>1. \A e \in Devs : ring'[e].phantom = ring[e].phantom /\ ring'[e].exitreq = ring[e].exitreq
    <3>1. CASE ReadTake
      BY <1>0, <3>1 DEF ReadTake, RingRecord
    <3>2. CASE PassOver
      BY <1>0, <3>2 DEF PassOver, RingRecord
    <3>3. CASE ConvertBegin
      BY <1>0, <3>3 DEF ConvertBegin, RingRecord
    <3>4. CASE ConvertEnd
      BY <1>0, <3>4 DEF ConvertEnd, RingRecord
    <3>5. CASE WriteAndConsume
      BY <1>0, <3>5 DEF WriteAndConsume, RingRecord
    <3> QED
      BY <1>3, <3>1, <3>2, <3>3, <3>4, <3>5
  <2>2. UNCHANGED <<mpc, coexit>> /\ \A d \in Devs : Handled(d) => Handled(d)'
    BY <1>0, <1>3 DEF ReadTake, PassOver, ConvertBegin, ConvertEnd, WriteAndConsume, Handled,
       TypeInv, Place
  <2> QED
    BY <1>0, <2>1, <2>2 DEF LastPass
<1>4. CASE ReadWithoutWait
  <2>1. /\ cdev \in Devs /\ cpc' = "got" /\ UNCHANGED <<cdev, column, mpc, coexit>>
        /\ ring'[cdev].phantom = ring[cdev].phantom + 1
        /\ \A e \in Devs : e # cdev => ring'[e].phantom = ring[e].phantom
        /\ \A e \in Devs : ring'[e].exitreq = ring[e].exitreq
    BY <1>0, <1>4 DEF ReadWithoutWait, RingRecord
  <2>2. ~Handled(cdev) /\ Handled(cdev)'
    BY <1>0, <1>4, <2>1 DEF ReadWithoutWait, Handled
  <2>3. ring[cdev].phantom <= MaxPhantom /\ (ring[cdev].phantom < MaxPhantom \/ coexit)
    BY <1>0, <1>4, <2>1, <2>2 DEF ReadWithoutWait, LastPass
  <2>4. \A d \in Devs : Handled(d) => Handled(d)'
    BY <1>0, <2>1 DEF Handled
  <2> QED
    BY <1>0, <2>1, <2>2, <2>3, <2>4 DEF LastPass
<1>5. CASE Main \/ BeginShutdown
  <2>1. UNCHANGED coherentVars
    BY <1>5 DEF Main, StopDevice, RequestDeviceExit, RequestCoherentExit, BeginShutdown
  <2>2. CASE StopDevice
    <3>1. \A e \in Devs : ring'[e].phantom = ring[e].phantom /\ ring'[e].exitreq = ring[e].exitreq
      BY <1>0, <2>2 DEF StopDevice, RingRecord
    <3> QED
      BY <2>1, <2>2, <3>1 DEF StopDevice, LastPass, Handled, coherentVars
  <2>3. CASE RequestDeviceExit
    <3>1. /\ \A e \in Devs : ring'[e].phantom = ring[e].phantom
          /\ \A e \in Devs : e # mpc => ring'[e].exitreq = ring[e].exitreq
          /\ ring'[mpc].exitreq
      BY <1>0, <2>3 DEF RequestDeviceExit, RingRecord
    <3>2. mpc \in Devs /\ mpc' = mpc + 1 /\ ~coexit /\ ~coexit'
      BY <1>0, <2>3 DEF RequestDeviceExit, LastPass
    <3> QED
      BY <1>0, <2>1, <3>1, <3>2 DEF LastPass, Handled, coherentVars
  <2>4. CASE RequestCoherentExit
    BY <1>0, <2>1, <2>4 DEF RequestCoherentExit, LastPass, Handled, coherentVars
  <2>5. CASE BeginShutdown
    BY <1>0, <2>1, <2>5 DEF BeginShutdown, LastPass, Handled, coherentVars
  <2> QED
    BY <1>5, <2>2, <2>3, <2>4, <2>5 DEF Main
<1>6. CASE UNCHANGED vars
  BY <1>6 DEF vars, LastPass, Handled
<1> QED
  BY <1>1, <1>2, <1>3, <1>4, <1>5, <1>6 DEF Next, CoherentThread, Finished, BoundReached

\* The reader of a device, as SampleRing sees it.
ReaderOf(d) == IF cdev = d \/ cpc = "done" THEN cpc ELSE "idle"

\* A step that neither changes the ring of a device nor its reader does nothing
\* in its SampleRing.
LEMMA RingIdle ==
  ASSUME NEW d \in Devs, ring'[d] = ring[d], ReaderOf(d)' = ReaderOf(d)
  PROVE  UNCHANGED Ring(d)!vars
BY DEF Ring!vars, ReaderOf

\* A callback is a callback of its own ring and stutters in the others.
LEMMA DeviceMaps ==
  ASSUME TypeInv, NEW d \in Devs, NEW e \in Devs, Device(e)
  PROVE  [Ring(d)!Next]_(Ring(d)!vars)
<1> USE DEF coherentVars, Ring!readerVars
<1>1. CASE d = e
  <2>1. CASE CallbackBegin(d)
    <3>1. Ring(d)!CallbackBegin
      BY <2>1 DEF CallbackBegin, Ring!CallbackBegin, TypeInv, RingRecord, Slot, Ring!Slot,
         Count, Ring!Count, Torn, Ring!Torn
    <3> QED
      BY <3>1 DEF Ring!Next, Ring!Device
  <2>2. CASE CallbackEnd(d)
    <3>1. Ring(d)!CallbackEnd
      BY <2>2 DEF CallbackEnd, Ring!CallbackEnd, TypeInv, RingRecord, Slot, Ring!Slot
    <3> QED
      BY <3>1 DEF Ring!Next, Ring!Device
  <2>3. CASE AsyncReturn(d)
    <3>1. Ring(d)!AsyncReturn
      BY <2>3 DEF AsyncReturn, Ring!AsyncReturn, TypeInv, RingRecord
    <3> QED
      BY <3>1 DEF Ring!Next, Ring!Device
  <2> QED
    BY <1>1, <2>1, <2>2, <2>3 DEF Device
<1>2. CASE d # e
  <2>1. ring'[d] = ring[d] /\ UNCHANGED <<cdev, cpc>>
    BY <1>2 DEF Device, CallbackBegin, CallbackEnd, AsyncReturn, TypeInv
  <2> QED
    BY <2>1, RingIdle DEF ReaderOf
<1> QED
  BY <1>1, <1>2

\* The coherent thread reads one device and leaves the others idle.
LEMMA ReaderMaps ==
  ASSUME TypeInv, LastPass, NEW d \in Devs, CoherentThread
  PROVE  [Ring(d)!Next]_(Ring(d)!vars)
<1> USE DEF Ring!deviceVars
<1>0. /\ ring \in [Devs -> RingRecord] /\ Place
      /\ Devs = 0 .. NumSignals /\ NumSignals \in Nat /\ Ref = 0
  BY NumSignalsAssumption DEF TypeInv, Devs, Ref
<1>1. CASE StartPass \/ NotifySend
  <2>1. ring' = ring /\ cpc = "idle" /\ cpc' = "idle"
    BY <1>1 DEF StartPass, NotifySend
  <2> QED
    BY <2>1, RingIdle DEF ReaderOf
<1>2. CASE CoherentExit
  <2>1. ring[d].exitreq
    BY <1>0, <1>2 DEF CoherentExit, LastPass
  <2>2. Ring(d)!ReaderExit
    BY <1>2, <2>1 DEF CoherentExit, Ring!ReaderExit
  <2> QED
    BY <2>2 DEF Ring!Next, Ring!Reader
<1>3. CASE cdev # d /\ ~CoherentExit
  <2>1. cpc # "done" /\ cpc' # "done" /\ (cdev' # cdev => cpc' = "idle")
    BY <1>3 DEF CoherentThread, StartPass, CoherentExit, ReadEnter, ReadTake, ReadWithoutWait,
       PassOver, ConvertBegin, ConvertEnd, WriteAndConsume, NotifySend
  <2>2. ring'[d] = ring[d]
    BY <1>0, <1>3 DEF CoherentThread, StartPass, CoherentExit, ReadEnter, ReadTake,
       ReadWithoutWait, PassOver, ConvertBegin, ConvertEnd, WriteAndConsume, NotifySend
  <2> QED
    BY <1>3, <2>1, <2>2, RingIdle DEF ReaderOf
<1>4. CASE cdev = d /\ ReadEnter
  <2>1. Ring(d)!ReadEnter
    BY <1>4 DEF ReadEnter, Ring!ReadEnter
  <2> QED
    BY <2>1 DEF Ring!Next, Ring!Reader
<1>5. CASE cdev = d /\ ReadTake
  <2>1. Ring(d)!ReadTake
    BY <1>0, <1>5 DEF ReadTake, Ring!ReadTake, RingRecord
  <2> QED
    BY <2>1 DEF Ring!Next, Ring!Reader
<1>6. CASE cdev = d /\ ReadWithoutWait
  <2>1. ring[d].phantom < MaxPhantom + 1
    <3>1. ~Handled(d) /\ ring[d].phantom \in Nat
      BY <1>0, <1>6, Fields DEF ReadWithoutWait, Handled
    <3> QED
      BY <3>1, BoundAssumption DEF LastPass
  <2>2. Ring(d)!ReadWithoutWait
    BY <1>0, <1>6, <2>1 DEF ReadWithoutWait, Ring!ReadWithoutWait, RingRecord
  <2> QED
    BY <2>2 DEF Ring!Next, Ring!Reader
<1>7. CASE cdev = d /\ PassOver
  <2>1. ~Ring(d)!Ready
    BY <1>7 DEF PassOver, Ready, Ring!Ready, Count, Ring!Count
  <2>2. cdev' # d /\ cdev' = d + 1
    BY <1>0, <1>7 DEF PassOver
  <2>3. Ring(d)!NotReady
    BY <1>0, <1>7, <2>1, <2>2 DEF PassOver, Ring!NotReady, RingRecord
  <2> QED
    BY <2>3 DEF Ring!Next, Ring!Reader
<1>8. CASE cdev = d /\ ConvertBegin
  <2>1. Ring(d)!Ready
    BY <1>8 DEF ConvertBegin, Ready, Ring!Ready, Count, Ring!Count
  <2>2. Ring(d)!ConvertBegin
    BY <1>0, <1>8, <2>1 DEF ConvertBegin, Ring!ConvertBegin, RingRecord, Slot, Ring!Slot
  <2> QED
    BY <2>2 DEF Ring!Next, Ring!Reader
<1>9. CASE cdev = d /\ ConvertEnd
  <2>1. Ring(d)!ConvertEnd
    BY <1>0, <1>9 DEF ConvertEnd, Ring!ConvertEnd, RingRecord, Slot, Ring!Slot, Torn, Ring!Torn
  <2> QED
    BY <2>1 DEF Ring!Next, Ring!Reader
<1>10. CASE cdev = d /\ WriteAndConsume
  <2>1. cdev' # d
    BY <1>0, <1>10 DEF WriteAndConsume
  <2>2. Ring(d)!WriteAndConsume
    BY <1>0, <1>10, <2>1 DEF WriteAndConsume, Ring!WriteAndConsume, RingRecord
  <2> QED
    BY <2>2 DEF Ring!Next, Ring!Reader
<1> QED
  BY <1>1, <1>2, <1>3, <1>4, <1>5, <1>6, <1>7, <1>8, <1>9, <1>10 DEF CoherentThread

\* stop() and request_exit() are those of the device they are called for.
LEMMA MainMaps ==
  ASSUME TypeInv, NEW d \in Devs, Main \/ BeginShutdown
  PROVE  [Ring(d)!Next]_(Ring(d)!vars)
<1> USE DEF coherentVars, Ring!readerVars, Ring!deviceVars
<1>0. ring \in [Devs -> RingRecord] /\ UNCHANGED <<cdev, cpc>>
  BY DEF TypeInv, Main, StopDevice, RequestDeviceExit, RequestCoherentExit, BeginShutdown
<1>1. CASE StopDevice /\ mpc = d
  <2>1. Ring(d)!Stop
    BY <1>0, <1>1 DEF StopDevice, Ring!Stop, RingRecord
  <2> QED
    BY <2>1 DEF Ring!Next
<1>2. CASE RequestDeviceExit /\ mpc = d /\ ~ring[d].exitreq
  <2>1. Ring(d)!RequestExit
    BY <1>0, <1>2 DEF RequestDeviceExit, Ring!RequestExit, RingRecord
  <2> QED
    BY <2>1 DEF Ring!Next
<1>3. CASE RequestDeviceExit /\ mpc = d /\ ring[d].exitreq
  <2>1. ring'[d] = ring[d]
    BY <1>0, <1>3 DEF RequestDeviceExit, RingRecord
  <2> QED
    BY <1>0, <2>1, RingIdle DEF ReaderOf
<1>4. CASE mpc # d \/ RequestCoherentExit \/ BeginShutdown
  <2>1. ring'[d] = ring[d]
    BY <1>0, <1>4 DEF Main, StopDevice, RequestDeviceExit, RequestCoherentExit, BeginShutdown
  <2> QED
    BY <1>0, <2>1, RingIdle DEF ReaderOf
<1> QED
  BY <1>1, <1>2, <1>3, <1>4 DEF Main

LEMMA StepMaps ==
  TypeInv /\ LastPass /\ [Next]_vars => \A d \in Devs : [Ring(d)!Next]_(Ring(d)!vars)
<1> SUFFICES ASSUME TypeInv, LastPass, [Next]_vars, NEW d \in Devs
             PROVE  [Ring(d)!Next]_(Ring(d)!vars)
  OBVIOUS
<1>1. CASE UNCHANGED vars
  BY <1>1, RingIdle DEF vars, ReaderOf
<1> QED
  BY <1>1, DeviceMaps, ReaderMaps, MainMaps DEF Next, Finished, BoundReached

LEMMA InitMaps == Init => \A d \in Devs : Ring(d)!Init
<1> SUFFICES ASSUME Init, NEW d \in Devs PROVE Ring(d)!Init
  OBVIOUS
<1>1. /\ ring[d].wp = 0 /\ ring[d].rp = 0 /\ ring[d].newdata = 0
      /\ ring[d].phantom = 0 /\ ring[d].skipped = 0
      /\ ring[d].writing = FALSE /\ ring[d].streaming = TRUE /\ ring[d].exitreq = FALSE
      /\ ring[d].async = "running" /\ ring[d].seen = Zeroed /\ ring[d].sfloat = Zeroed
  BY DEF Init
<1>2. /\ ring[d].tag = [s \in Slots |-> 0]
      /\ ring[d].data = [s \in Slots |-> Zeroed]
  BY DEF Init
<1>3. cpc = "idle"
  BY DEF Init
<1> QED
  BY <1>1, <1>2, <1>3 DEF Ring!Init, Slots, Ring!Slots, Zeroed, Ring!Zeroed

\* For any number of devices and every ring size, each device behaves as one
\* SampleRing, so that what is proved of a ring holds of every device.
THEOREM RingsCorrect == Spec => RingsImplemented
<1>1. TypeInv /\ LastPass /\ [Next]_vars =>
        [\A d \in Devs : [Ring(d)!Next]_(Ring(d)!vars)]_vars
  BY StepMaps
<1>2. Spec => [](TypeInv /\ LastPass)
  BY InitTypeInv, InitLastPass, NextTypeInv, NextLastPass, PTL DEF Spec
<1> QED
  BY <1>1, <1>2, InitMaps, PTL DEF Spec, RingsImplemented
-----------------------------------------------------------------------------
(* The safety of every device.  StepMaps makes each step of Coherent a step  *)
(* of the SampleRing of any device d, so that the invariants of a ring are   *)
(* carried over one device at a time.                                        *)

\* The arithmetic of the slots is that of any ring, the reference's for one.
Reference == INSTANCE SampleRingProofs WITH
  IsReference <- TRUE, MayFail <- FALSE,
  wp <- ring[Ref].wp, rp <- ring[Ref].rp, newdata <- ring[Ref].newdata,
  tag <- ring[Ref].tag, data <- ring[Ref].data, writing <- ring[Ref].writing,
  streaming <- ring[Ref].streaming, exitreq <- ring[Ref].exitreq,
  async <- ring[Ref].async, seen <- ring[Ref].seen, sfloat <- ring[Ref].sfloat,
  phantom <- ring[Ref].phantom, skipped <- ring[Ref].skipped,
  rpc <- cpc

LEMMA SlotsApart ==
  ASSUME NEW a \in Nat, NEW b \in Nat, b < a, a < b + N
  PROVE  Slot(a) # Slot(b)
BY Reference!SlotsApart, NAssumption, WrapAssumption, BoundAssumption
   DEF Slot, Reference!Slot

\* Slots and counts are those of Coherent in every ring.
LEMMA RingSlots ==
  ASSUME NEW d \in Devs
  PROVE  /\ \A i \in Nat : Ring(d)!Slot(i) = Slot(i) /\ Ring(d)!Count(i) = Count(i)
         /\ \A i \in Nat : Ring(d)!Slot(i) \in Slots /\ Ring(d)!Count(i) \in Nat
         /\ \A i \in Nat : i < Wrap => Ring(d)!Count(i) = i
         /\ \A a, b \in Nat : b < a /\ a < b + N => Ring(d)!Slot(a) # Ring(d)!Slot(b)
<1>1. \A i \in Nat : Ring(d)!Slot(i) = Slot(i) /\ Ring(d)!Count(i) = Count(i)
  BY DEF Ring!Slot, Slot, Ring!Count, Count
<1> QED BY <1>1, SlotType, CountType, CountBelow, SlotsApart

\* Deliveries are counted, and a skew only builds up before the ring is first
\* full.
CountsKept(d) == Ring(d)!Accounting /\ Ring(d)!SkewInv

LEMMA NextCounts ==
  ASSUME NEW d \in Devs, ring[d] \in RingRecord, ring'[d] \in RingRecord,
         CountsKept(d), [Ring(d)!Next]_(Ring(d)!vars)
  PROVE  CountsKept(d)'
<1>0. /\ ring[d].wp \in Nat /\ ring[d].rp \in Nat /\ ring[d].newdata \in Nat
      /\ ring[d].phantom \in Nat /\ ring[d].skipped \in Nat
      /\ Ring(d)!Count(ring[d].wp) \in Nat
      /\ ring[d].wp < Wrap => Ring(d)!Count(ring[d].wp) = ring[d].wp
      /\ N \in Nat \ {0} /\ Wrap \in Nat /\ N < Wrap
      /\ ring[d].streaming \in BOOLEAN
  BY RingSlots, NAssumption, WrapAssumption DEF RingRecord
<1> USE <1>0 DEF CountsKept, Ring!Accounting, Ring!SkewInv, Ring!Holding, Ring!readerVars, Ring!deviceVars
<1>1. CASE Ring(d)!CallbackBegin
  BY <1>1 DEF Ring!CallbackBegin
<1>2. CASE Ring(d)!CallbackEnd
  BY <1>2 DEF Ring!CallbackEnd
<1>3. CASE Ring(d)!AsyncReturn
  BY <1>3 DEF Ring!AsyncReturn
<1>4. CASE Ring(d)!DeviceFails
  BY <1>4 DEF Ring!DeviceFails
<1>5. CASE Ring(d)!ReadEnter
  BY <1>5 DEF Ring!ReadEnter
<1>6. CASE Ring(d)!ReadWithoutWait
  BY <1>6 DEF Ring!ReadWithoutWait
<1>7. CASE Ring(d)!ReadTake
  BY <1>7 DEF Ring!ReadTake
<1>8. CASE Ring(d)!NotReady
  BY <1>8 DEF Ring!NotReady, Ring!Ready
<1>9. CASE Ring(d)!ConvertBegin
  BY <1>9 DEF Ring!ConvertBegin, Ring!Ready
<1>10. CASE Ring(d)!ConvertEnd
  BY <1>10 DEF Ring!ConvertEnd
<1>11. CASE Ring(d)!WriteAndConsume
  BY <1>11 DEF Ring!WriteAndConsume
<1>12. CASE Ring(d)!ReaderExit
  BY <1>12 DEF Ring!ReaderExit
<1>13. CASE Ring(d)!Stop
  BY <1>13 DEF Ring!Stop
<1>14. CASE Ring(d)!RequestExit
  BY <1>14 DEF Ring!RequestExit
<1>15. CASE UNCHANGED Ring(d)!vars
  BY <1>15 DEF Ring!vars
<1> QED
  BY <1>1, <1>2, <1>3, <1>4, <1>5, <1>6, <1>7, <1>8, <1>9, <1>10, <1>11,
     <1>12, <1>13, <1>14, <1>15
     DEF Ring!Next, Ring!Device, Ring!Reader, Ring!Finished, Ring!Orphaned

\* The last N blocks are in their slots, and what a reader that waited converts
\* and sends is the block at rp, unless the callback has come round to it.
ContentsKept(d) ==
  Ring(d)!RingContents /\ Ring(d)!WritingTag /\ Ring(d)!ConvertInv /\ Ring(d)!CleanRead

\* While the callback has not come round to it, the slot at rp holds the block
\* at rp, which was delivered.
LEMMA HeldIsIntact ==
  ASSUME NEW d \in Devs, ring[d] \in RingRecord, CountsKept(d), Ring(d)!RingContents,
         Ring(d)!Holding, ring[d].phantom = 0, Ring(d)!Started <= ring[d].rp + N
  PROVE  /\ ring[d].rp < ring[d].wp
         /\ ring[d].data[Ring(d)!Slot(ring[d].rp)] = ring[d].rp
         /\ ring[d].tag[Ring(d)!Slot(ring[d].rp)] = Ring(d)!Count(ring[d].rp)
<1>1. ring[d].rp \in Nat /\ ring[d].wp \in Nat /\ ring[d].newdata \in Nat /\ ring[d].skipped \in Nat
  BY DEF RingRecord
<1>2. ring[d].rp < ring[d].wp
  BY <1>1 DEF CountsKept, Ring!Accounting
<1> QED BY <1>1, <1>2 DEF Ring!RingContents

\* A step that leaves the ring and the conversion alone keeps them.
LEMMA ContentsStutter ==
  ASSUME NEW d \in Devs, ContentsKept(d),
         ring'[d].wp = ring[d].wp, ring'[d].rp = ring[d].rp, ring'[d].tag = ring[d].tag,
         ring'[d].data = ring[d].data, ring'[d].writing = ring[d].writing,
         ring'[d].seen = ring[d].seen, ring'[d].sfloat = ring[d].sfloat,
         ring'[d].phantom = 0 => ring[d].phantom = 0,
         ReaderOf(d)' \notin {"conv", "send"} \/ ReaderOf(d)' = ReaderOf(d)
  PROVE  ContentsKept(d)'
BY DEF ContentsKept, ReaderOf, Ring!RingContents, Ring!WritingTag, Ring!ConvertInv, Ring!CleanRead,
       Ring!Started, Ring!Slot, Ring!Count

\* The callback starts on a slot that holds no block less than a ring old.
LEMMA BeginContents ==
  ASSUME NEW d \in Devs, ring[d] \in RingRecord, CountsKept(d), ContentsKept(d),
         Ring(d)!CallbackBegin
  PROVE  ContentsKept(d)'
<1> DEFINE r == ring[d]
           slot == Ring(d)!Slot(r.wp)
<1>1. /\ r.wp \in Nat /\ r.rp \in Nat /\ N \in Nat \ {0}
      /\ r.tag \in [Slots -> Nat] /\ r.data \in [Slots -> BlockNumbers]
  BY NAssumption DEF RingRecord
<1>2. /\ slot \in Slots
      /\ \A b \in Nat : Ring(d)!Slot(b) \in Slots
      /\ \A b \in Nat : b < r.wp /\ r.wp < b + N => Ring(d)!Slot(b) # slot
  BY <1>1, RingSlots
<1>3. /\ Ring(d)!Started' = r.wp + 1 /\ Ring(d)!Started = r.wp
      /\ ring'[d].writing
      /\ ring'[d].wp = r.wp /\ ring'[d].rp = r.rp /\ ring'[d].phantom = r.phantom
      /\ ring'[d].seen = r.seen /\ ring'[d].sfloat = r.sfloat
      /\ ReaderOf(d)' = ReaderOf(d)
      /\ ring'[d].tag = [r.tag EXCEPT ![slot] = Ring(d)!Count(r.wp)]
      /\ ring'[d].data = [r.data EXCEPT ![slot] = Ring(d)!Torn]
  BY DEF Ring!CallbackBegin, Ring!Started, Ring!readerVars, ReaderOf
<1>4. \A t \in Slots : t # slot => ring'[d].data[t] = r.data[t] /\ ring'[d].tag[t] = r.tag[t]
  BY <1>1, <1>3
<1> HIDE DEF slot
<1>5. Ring(d)!RingContents'
  <2> SUFFICES ASSUME NEW b \in 0 .. r.wp-1, b + N >= r.wp + 1
               PROVE  /\ ring'[d].data[Ring(d)!Slot(b)] = b
                      /\ ring'[d].tag[Ring(d)!Slot(b)] = Ring(d)!Count(b)
    BY <1>3 DEF Ring!RingContents, Ring!Slot, Ring!Count
  <2>1. r.data[Ring(d)!Slot(b)] = b /\ r.tag[Ring(d)!Slot(b)] = Ring(d)!Count(b)
    BY <1>1, <1>3 DEF ContentsKept, Ring!RingContents
  <2>2. Ring(d)!Slot(b) \in Slots /\ Ring(d)!Slot(b) # slot
    BY <1>1, <1>2
  <2> QED BY <1>4, <2>1, <2>2
<1>6. Ring(d)!WritingTag'
  <2>1. ring'[d].tag[slot] = Ring(d)!Count(r.wp)
    BY <1>1, <1>2, <1>3
  <2> QED BY <1>3, <2>1 DEF Ring!WritingTag, Ring!Slot, Ring!Count, slot
<1>7. Ring(d)!ConvertInv'
  BY <1>1, <1>3 DEF ContentsKept, Ring!ConvertInv, ReaderOf
<1>8. Ring(d)!CleanRead'
  <2> SUFFICES ASSUME ReaderOf(d) = "send", r.phantom = 0, r.wp + 1 <= r.rp + N
               PROVE  /\ r.sfloat = r.rp
                      /\ ring'[d].tag[Ring(d)!Slot(r.rp)] = Ring(d)!Count(r.rp)
    BY <1>3 DEF Ring!CleanRead, ReaderOf, Ring!Slot, Ring!Count
  <2>1. r.sfloat = r.rp
    BY <1>1, <1>3 DEF ContentsKept, Ring!CleanRead, ReaderOf
  <2>2. r.rp < r.wp /\ r.tag[Ring(d)!Slot(r.rp)] = Ring(d)!Count(r.rp)
    BY <1>1, <1>3, HeldIsIntact DEF ContentsKept, Ring!Holding, ReaderOf
  <2>3. Ring(d)!Slot(r.rp) \in Slots /\ Ring(d)!Slot(r.rp) # slot
    BY <1>1, <1>2, <2>2
  <2> QED BY <1>4, <2>1, <2>2, <2>3
<1> QED BY <1>5, <1>6, <1>7, <1>8 DEF ContentsKept

\* The delivery completes the slot under the number it was tagged with.
LEMMA EndContents ==
  ASSUME NEW d \in Devs, ring[d] \in RingRecord, ContentsKept(d), Ring(d)!CallbackEnd
  PROVE  ContentsKept(d)'
<1> DEFINE r == ring[d]
           slot == Ring(d)!Slot(r.wp)
<1>1. /\ r.wp \in Nat /\ r.rp \in Nat /\ N \in Nat \ {0}
      /\ r.tag \in [Slots -> Nat] /\ r.data \in [Slots -> BlockNumbers]
  BY NAssumption DEF RingRecord
<1>2. /\ slot \in Slots
      /\ \A b \in Nat : Ring(d)!Slot(b) \in Slots
      /\ \A b \in Nat : b < r.wp /\ r.wp < b + N => Ring(d)!Slot(b) # slot
  BY <1>1, RingSlots
<1>3. /\ Ring(d)!Started' = r.wp + 1 /\ Ring(d)!Started = r.wp + 1
      /\ r.writing /\ ~ring'[d].writing
      /\ ring'[d].wp = r.wp + 1 /\ ring'[d].rp = r.rp /\ ring'[d].phantom = r.phantom
      /\ ring'[d].seen = r.seen /\ ring'[d].sfloat = r.sfloat /\ ring'[d].tag = r.tag
      /\ ReaderOf(d)' = ReaderOf(d)
      /\ ring'[d].data = [r.data EXCEPT ![slot] = r.wp]
  BY DEF Ring!CallbackEnd, Ring!Started, Ring!readerVars, ReaderOf
<1>4. Ring(d)!RingContents'
  <2> SUFFICES ASSUME NEW b \in 0 .. r.wp, b + N >= r.wp + 1
               PROVE  /\ ring'[d].data[Ring(d)!Slot(b)] = b
                      /\ r.tag[Ring(d)!Slot(b)] = Ring(d)!Count(b)
    BY <1>1, <1>3 DEF Ring!RingContents, Ring!Slot, Ring!Count
  <2>1. CASE b = r.wp
    BY <1>1, <1>2, <1>3, <2>1 DEF ContentsKept, Ring!WritingTag
  <2>2. CASE b < r.wp
    <3>1. r.data[Ring(d)!Slot(b)] = b /\ r.tag[Ring(d)!Slot(b)] = Ring(d)!Count(b)
      BY <1>1, <1>3, <2>2 DEF ContentsKept, Ring!RingContents
    <3>2. Ring(d)!Slot(b) \in Slots /\ Ring(d)!Slot(b) # slot
      BY <1>1, <1>2, <2>2
    <3> QED BY <1>1, <1>3, <3>1, <3>2
  <2> QED BY <1>1, <2>1, <2>2
<1>5. Ring(d)!WritingTag' /\ Ring(d)!ConvertInv' /\ Ring(d)!CleanRead'
  BY <1>3 DEF ContentsKept, Ring!WritingTag, Ring!ConvertInv, Ring!CleanRead, ReaderOf,
     Ring!Slot, Ring!Count
<1> QED BY <1>4, <1>5 DEF ContentsKept

LEMMA NextContents ==
  ASSUME NEW d \in Devs, ring[d] \in RingRecord, CountsKept(d), ContentsKept(d),
         [Ring(d)!Next]_(Ring(d)!vars)
  PROVE  ContentsKept(d)'
<1> USE DEF ReaderOf, Ring!readerVars, Ring!deviceVars
<1>1. CASE Ring(d)!CallbackBegin
  BY <1>1, BeginContents
<1>2. CASE Ring(d)!CallbackEnd
  BY <1>2, EndContents
<1>3. CASE Ring(d)!AsyncReturn
  BY <1>3, ContentsStutter DEF Ring!AsyncReturn
<1>4. CASE Ring(d)!DeviceFails
  BY <1>4, ContentsStutter DEF Ring!DeviceFails
<1>5. CASE Ring(d)!ReadEnter
  BY <1>5, ContentsStutter DEF Ring!ReadEnter
<1>6. CASE Ring(d)!ReadWithoutWait
  <2>1. ring'[d].phantom # 0
    BY <1>6 DEF Ring!ReadWithoutWait, RingRecord
  <2> QED BY <1>6, <2>1, ContentsStutter DEF Ring!ReadWithoutWait
<1>7. CASE Ring(d)!ReadTake
  BY <1>7, ContentsStutter DEF Ring!ReadTake
<1>8. CASE Ring(d)!NotReady
  BY <1>8, ContentsStutter DEF Ring!NotReady
<1>9. CASE Ring(d)!ConvertBegin
  BY <1>9, HeldIsIntact
     DEF Ring!ConvertBegin, ContentsKept, Ring!RingContents, Ring!WritingTag, Ring!ConvertInv,
         Ring!CleanRead, Ring!Started, Ring!Holding, Ring!Slot, Ring!Count
<1>10. CASE Ring(d)!ConvertEnd
  BY <1>10, HeldIsIntact
     DEF Ring!ConvertEnd, ContentsKept, Ring!RingContents, Ring!WritingTag, Ring!ConvertInv,
         Ring!CleanRead, Ring!Started, Ring!Holding, Ring!Slot, Ring!Count
<1>11. CASE Ring(d)!WriteAndConsume
  BY <1>11 DEF Ring!WriteAndConsume, ContentsKept, Ring!RingContents, Ring!WritingTag,
     Ring!ConvertInv, Ring!CleanRead, Ring!Started, Ring!Slot, Ring!Count
<1>12. CASE Ring(d)!ReaderExit
  BY <1>12, ContentsStutter DEF Ring!ReaderExit
<1>13. CASE Ring(d)!Stop
  BY <1>13, ContentsStutter DEF Ring!Stop
<1>14. CASE Ring(d)!RequestExit
  BY <1>14, ContentsStutter DEF Ring!RequestExit
<1>15. CASE UNCHANGED Ring(d)!vars
  BY <1>15, ContentsStutter DEF Ring!vars
<1> QED
  BY <1>1, <1>2, <1>3, <1>4, <1>5, <1>6, <1>7, <1>8, <1>9, <1>10, <1>11,
     <1>12, <1>13, <1>14, <1>15
     DEF Ring!Next, Ring!Device, Ring!Reader, Ring!Finished, Ring!Orphaned

\* A reader that waits for a device being cancelled has a block coming.
LEMMA NextWaits ==
  ASSUME NEW d \in Devs, ring[d] \in RingRecord, Ring(d)!WaitInv,
         [Ring(d)!Next]_(Ring(d)!vars)
  PROVE  Ring(d)!WaitInv'
<1>0. ring[d].newdata \in Nat /\ ring[d].exitreq \in BOOLEAN /\ ring[d].streaming \in BOOLEAN
  BY DEF RingRecord
<1> USE <1>0 DEF Ring!WaitInv, Ring!readerVars, Ring!deviceVars
<1>1. CASE Ring(d)!Device
  BY <1>1 DEF Ring!Device, Ring!CallbackBegin, Ring!CallbackEnd, Ring!AsyncReturn, Ring!DeviceFails
<1>2. CASE Ring(d)!Reader
  BY <1>2 DEF Ring!Reader, Ring!ReadEnter, Ring!ReadWithoutWait, Ring!ReadTake, Ring!NotReady,
     Ring!ConvertBegin, Ring!ConvertEnd, Ring!WriteAndConsume, Ring!ReaderExit
<1>3. CASE Ring(d)!Stop \/ Ring(d)!RequestExit
  BY <1>3 DEF Ring!Stop, Ring!RequestExit
<1>4. CASE UNCHANGED Ring(d)!vars
  BY <1>4 DEF Ring!vars
<1> QED
  BY <1>1, <1>2, <1>3, <1>4 DEF Ring!Next, Ring!Finished, Ring!Orphaned

\* Neither a block begun nor a read() that did not wait is taken back.
LEMMA NothingTakenBack ==
  ASSUME NEW d \in Devs, ring[d] \in RingRecord, [Ring(d)!Next]_(Ring(d)!vars)
  PROVE  /\ Ring(d)!Started \in Nat /\ Ring(d)!Started' \in Nat
         /\ Ring(d)!Started' >= Ring(d)!Started
         /\ ring[d].phantom \in Nat
         /\ ring'[d].phantom = 0 => ring[d].phantom = 0
<1>0. ring[d].wp \in Nat /\ ring[d].phantom \in Nat /\ ring[d].writing \in BOOLEAN
  BY DEF RingRecord
<1> USE <1>0 DEF Ring!Started, Ring!readerVars, Ring!deviceVars
<1>1. CASE Ring(d)!Device
  BY <1>1 DEF Ring!Device, Ring!CallbackBegin, Ring!CallbackEnd, Ring!AsyncReturn, Ring!DeviceFails
<1>2. CASE Ring(d)!Reader
  BY <1>2 DEF Ring!Reader, Ring!ReadEnter, Ring!ReadWithoutWait, Ring!ReadTake, Ring!NotReady,
     Ring!ConvertBegin, Ring!ConvertEnd, Ring!WriteAndConsume, Ring!ReaderExit
<1>3. CASE Ring(d)!Stop \/ Ring(d)!RequestExit
  BY <1>3 DEF Ring!Stop, Ring!RequestExit
<1>4. CASE UNCHANGED Ring(d)!vars
  BY <1>4 DEF Ring!vars
<1> QED
  BY <1>1, <1>2, <1>3, <1>4 DEF Ring!Next, Ring!Finished, Ring!Orphaned

RingKept(d) == CountsKept(d) /\ ContentsKept(d) /\ Ring(d)!WaitInv
DeviceInv == TypeInv /\ LastPass /\ \A d \in Devs : RingKept(d)

LEMMA InitDeviceInv == Init => DeviceInv
<1> SUFFICES ASSUME Init, NEW d \in Devs PROVE RingKept(d)
  BY InitTypeInv, InitLastPass DEF DeviceInv
<1>1. Ring(d)!Init
  BY InitMaps
<1>2. CountsKept(d)
  BY <1>1, NAssumption DEF CountsKept, Ring!Init, Ring!Accounting, Ring!SkewInv, Ring!Holding
<1>3. ContentsKept(d)
  BY <1>1 DEF ContentsKept, Ring!Init, Ring!RingContents, Ring!WritingTag, Ring!ConvertInv, Ring!CleanRead
<1>4. Ring(d)!WaitInv
  BY <1>1 DEF Ring!Init, Ring!WaitInv
<1> QED BY <1>2, <1>3, <1>4 DEF RingKept

LEMMA NextDeviceInv == DeviceInv /\ [Next]_vars => DeviceInv'
<1> SUFFICES ASSUME DeviceInv, [Next]_vars PROVE DeviceInv'
  OBVIOUS
<1>1. TypeInv' /\ LastPass'
  BY NextTypeInv, NextLastPass DEF DeviceInv
<1>2. ASSUME NEW d \in Devs PROVE RingKept(d)'
  <2>1. ring[d] \in RingRecord /\ ring'[d] \in RingRecord
    BY <1>1 DEF DeviceInv, TypeInv
  <2>2. [Ring(d)!Next]_(Ring(d)!vars)
    BY StepMaps DEF DeviceInv
  <2> QED
    BY <2>1, <2>2, NextCounts, NextContents, NextWaits DEF DeviceInv, RingKept
<1> QED BY <1>1, <1>2 DEF DeviceInv

\* For any number of devices, what makes a SampleRing correct holds of each of
\* them while they share one reader and one shutdown: no delivery is lost or
\* counted twice, the skew of the start is bounded, the last N blocks are in
\* their slots, an unlapped block is sent complete under its number, and no
\* device leaves the coherent thread waiting after it was cancelled.
THEOREM DevicesCorrect ==
  Spec => [](\A d \in Devs : /\ Ring(d)!Accounting /\ Ring(d)!StartupSkew
                             /\ Ring(d)!RingContents /\ Ring(d)!CleanRead
                             /\ Ring(d)!NoOrphanWait)
<1>1. DeviceInv =>
        \A d \in Devs : /\ Ring(d)!Accounting /\ Ring(d)!StartupSkew
                        /\ Ring(d)!RingContents /\ Ring(d)!CleanRead
                        /\ Ring(d)!NoOrphanWait
  BY NAssumption DEF DeviceInv, RingKept, CountsKept, ContentsKept, Ring!SkewInv, Ring!StartupSkew,
     Ring!WaitInv, Ring!NoOrphanWait
<1> QED BY <1>1, InitDeviceInv, NextDeviceInv, PTL DEF Spec

-----------------------------------------------------------------------------
(* What a column holds.                                                    *)

\* A device is stopped only once main has begun to stop the devices.
Streaming == mpc = -1 => \A d \in Devs : ring[d].streaming

\* Column 0 is the reference's.  A column written in this pass holds the block
\* last consumed of its device, under its number, as long as the reads of that
\* device have waited and the callback has not come round to the block.
SentInv ==
  /\ 0 \in Written => packet[0].dev = Ref
  /\ \A k \in Written, d \in Devs :
       packet[k].dev = d /\ ring[d].phantom = 0 /\ Unlapped(d) =>
         packet[k].blk = ring[d].rp - 1 /\ packet[k].cnt = Count(ring[d].rp - 1)

OffsetInv == DeviceInv /\ PassesAgree /\ ColumnsInOrder /\ Streaming /\ SentInv

LEMMA NextStreaming == TypeInv /\ Streaming /\ [Next]_vars => Streaming'
<1> SUFFICES ASSUME TypeInv, Streaming, [Next]_vars, mpc' = -1, NEW d \in Devs
             PROVE  ring'[d].streaming
  BY DEF Streaming
<1>0. ring \in [Devs -> RingRecord]
  BY DEF TypeInv
<1>1. mpc = -1
  <2>1. CASE BeginShutdown \/ RequestDeviceExit
    BY <2>1, NumSignalsAssumption DEF BeginShutdown, RequestDeviceExit, Devs, Ref
  <2>2. CASE UNCHANGED mpc
    BY <2>2
  <2> QED
    BY <2>1, <2>2
       DEF Next, Device, CallbackBegin, CallbackEnd, AsyncReturn, CoherentThread, StartPass,
           CoherentExit, ReadEnter, ReadTake, ReadWithoutWait, PassOver, ConvertBegin, ConvertEnd,
           WriteAndConsume, NotifySend, Main, StopDevice, RequestCoherentExit, Finished,
           BoundReached, vars
<1>2. ring[d].streaming /\ ~Main
  BY <1>1, NumSignalsAssumption DEF Streaming, Main, StopDevice, RequestDeviceExit,
     RequestCoherentExit, Devs, Ref
<1>3. ASSUME NEW e \in Devs, Device(e) PROVE ring'[d].streaming = ring[d].streaming
  <2>1. CASE CallbackBegin(e)
    BY <1>0, <2>1 DEF CallbackBegin, RingRecord
  <2>2. CASE CallbackEnd(e)
    BY <1>0, <2>2 DEF CallbackEnd, RingRecord
  <2>3. CASE AsyncReturn(e)
    BY <1>0, <2>3 DEF AsyncReturn, RingRecord
  <2> QED BY <1>3, <2>1, <2>2, <2>3 DEF Device
<1>4. ASSUME CoherentThread PROVE ring'[d].streaming = ring[d].streaming
  <2>1. CASE ReadTake
    BY <1>0, <2>1 DEF ReadTake, RingRecord
  <2>2. CASE ReadWithoutWait
    BY <1>0, <2>2 DEF ReadWithoutWait, RingRecord
  <2>3. CASE PassOver
    BY <1>0, <2>3 DEF PassOver, RingRecord
  <2>4. CASE ConvertBegin
    BY <1>0, <2>4 DEF ConvertBegin, RingRecord
  <2>5. CASE ConvertEnd
    BY <1>0, <2>5 DEF ConvertEnd, RingRecord
  <2>6. CASE WriteAndConsume
    BY <1>0, <2>6 DEF WriteAndConsume, RingRecord
  <2>7. CASE StartPass \/ CoherentExit \/ ReadEnter \/ NotifySend
    BY <2>7 DEF StartPass, CoherentExit, ReadEnter, NotifySend
  <2> QED BY <1>4, <2>1, <2>2, <2>3, <2>4, <2>5, <2>6, <2>7 DEF CoherentThread
<1> QED
  BY <1>2, <1>3, <1>4 DEF Next, BeginShutdown, Finished, BoundReached, vars

\* A written column is a device's, and not of the reference but for column 0.
LEMMA WrittenDevice ==
  ASSUME TypeInv, ColumnsInOrder, NEW k \in Written
  PROVE  /\ packet[k].dev \in Devs /\ packet[k].dev < cdev
         /\ k # 0 => 0 \in Written /\ packet[k].dev \in Signals
<1>1. k \in 0 .. NumSignals /\ packet[k].dev \in Devs \cup {-1}
  BY DEF TypeInv, ColumnContents, Written, Columns
<1>2. k <= packet[k].dev /\ packet[k].dev < cdev
  BY DEF ColumnsInOrder
<1>3. \A j \in Int : Written = 0 .. j /\ k # 0 => 0 \in Written
  BY <1>1
<1>4. cdev \in Int /\ column \in Int
  BY NumSignalsAssumption DEF TypeInv, Place, Ref
<1>5. k # 0 => 0 \in Written
  BY <1>3, <1>4 DEF ColumnsInOrder
<1> QED
  BY <1>1, <1>2, <1>5, NumSignalsAssumption DEF Devs, Signals

\* The callback does not go back: what it has come round to, it has.
LEMMA UnlappedBefore ==
  ASSUME DeviceInv, [Next]_vars, NEW d \in Devs, ring'[d].rp = ring[d].rp,
         ring'[d].phantom = 0, Unlapped(d)'
  PROVE  ring[d].phantom = 0 /\ Unlapped(d)
<1>1. ring[d] \in RingRecord /\ ring'[d] \in RingRecord /\ [Ring(d)!Next]_(Ring(d)!vars)
  BY StepMaps, NextTypeInv DEF DeviceInv, TypeInv
<1>2. /\ ring[d].rp \in Nat /\ ring[d].wp \in Nat /\ ring'[d].wp \in Nat /\ N \in Nat
      /\ ring[d].writing \in BOOLEAN /\ ring'[d].writing \in BOOLEAN
  BY <1>1, NAssumption DEF RingRecord
<1> QED
  BY <1>1, <1>2, NothingTakenBack DEF Unlapped, Ring!Started

\* The column written last holds the block that is consumed with it.
LEMMA SentAppended ==
  ASSUME OffsetInv, WriteAndConsume, NEW d, d = cdev, NEW c, c = ColumnOf(d)
  PROVE  /\ d \in Devs /\ c \in Columns /\ (c = 0 => d = Ref)
         /\ packet'[c].dev = d
         /\ \A k \in Columns : k # c => packet'[k] = packet[k]
         /\ Written' \subseteq Written \cup {c}
         /\ ring'[d].phantom = 0 /\ Unlapped(d)' =>
              packet'[c].blk = ring'[d].rp - 1 /\ packet'[c].cnt = Count(ring'[d].rp - 1)
<1> DEFINE r == ring[d]
           e == [dev |-> d, cnt |-> r.tag[Slot(r.rp)], blk |-> r.sfloat]
<1>1. /\ d \in Devs /\ cpc = "send" /\ r \in RingRecord
      /\ packet' = [packet EXCEPT ![c] = e]
      /\ ring' = [ring EXCEPT ![d].rp = r.rp + 1]
      /\ ring \in [Devs -> RingRecord] /\ packet \in [Columns -> ColumnContents]
  BY DEF WriteAndConsume, OffsetInv, DeviceInv, TypeInv, Place
<1>2. c \in Columns /\ (c = 0 => d = Ref)
  BY <1>1, NumSignalsAssumption
     DEF OffsetInv, DeviceInv, TypeInv, Place, ColumnOf, Columns, Devs, Ref
<1>3. /\ packet'[c] = e
      /\ \A k \in Columns : k # c => packet'[k] = packet[k]
  <2> HIDE DEF e
  <2> QED BY <1>1, <1>2
<1>4. Written' \subseteq Written \cup {c}
  BY <1>3 DEF Written
<1>5. /\ r.rp \in Nat /\ r.wp \in Nat /\ r.writing \in BOOLEAN /\ N \in Nat
      /\ ring'[d] = [r EXCEPT !.rp = r.rp + 1]
      /\ ring'[d].rp = r.rp + 1 /\ ring'[d].wp = r.wp
      /\ ring'[d].writing = r.writing /\ ring'[d].phantom = r.phantom
  BY <1>1, NAssumption DEF RingRecord
<1>6. ASSUME r.phantom = 0, r.wp + (IF r.writing THEN 1 ELSE 0) <= r.rp + N
      PROVE  e.blk = r.rp /\ e.cnt = Count(r.rp)
  <2>1. Ring(d)!CleanRead
    BY <1>1 DEF OffsetInv, DeviceInv, RingKept, ContentsKept
  <2> QED
    BY <1>1, <1>5, <1>6, <2>1 DEF Ring!CleanRead, Ring!Started, Ring!Slot, Ring!Count, Slot, Count
<1>7. ring'[d].phantom = 0 /\ Unlapped(d)' =>
        e.blk = ring'[d].rp - 1 /\ e.cnt = Count(ring'[d].rp - 1)
  <2> SUFFICES ASSUME ring'[d].phantom = 0, Unlapped(d)'
               PROVE  e.blk = ring'[d].rp - 1 /\ e.cnt = Count(ring'[d].rp - 1)
    OBVIOUS
  <2>1. ring'[d].rp - 1 = r.rp
    BY <1>5
  <2>2. r.wp + (IF r.writing THEN 1 ELSE 0) <= r.rp + N
    BY <1>5 DEF Unlapped
  <2> HIDE DEF e
  <2> QED BY <1>5, <1>6, <2>1, <2>2
<1>8. e.dev = d
  OBVIOUS
<1> HIDE DEF e
<1> QED
  BY <1>1, <1>2, <1>3, <1>4, <1>7, <1>8

LEMMA NextSentInv == OffsetInv /\ [Next]_vars => SentInv'
<1> SUFFICES ASSUME OffsetInv, [Next]_vars PROVE SentInv'
  OBVIOUS
<1>0. TypeInv /\ DeviceInv /\ ColumnsInOrder /\ SentInv
  BY DEF OffsetInv, DeviceInv
\* Columns that stay, of devices that nothing is consumed from.
<1>1. ASSUME NEW k \in Written, NEW d \in Devs, packet[k].dev = d,
             packet'[k] = packet[k], ring'[d].rp = ring[d].rp,
             ring'[d].phantom = 0, Unlapped(d)'
      PROVE  packet'[k].blk = ring'[d].rp - 1 /\ packet'[k].cnt = Count(ring'[d].rp - 1)
  BY <1>0, <1>1, UnlappedBefore DEF SentInv
<1>2. CASE WriteAndConsume
  <2> DEFINE c == ColumnOf(cdev)
  <2>1. /\ cdev \in Devs /\ c \in Columns /\ (c = 0 => cdev = Ref)
        /\ packet'[c].dev = cdev
        /\ \A k \in Columns : k # c => packet'[k] = packet[k]
        /\ Written' \subseteq Written \cup {c}
    BY <1>2, SentAppended
  <2>2. \A d \in Devs : d # cdev => ring'[d].rp = ring[d].rp
    BY <1>0, <1>2 DEF WriteAndConsume, TypeInv
  <2> HIDE DEF c
  <2>3. 0 \in Written' => packet'[0].dev = Ref
    <3>1. 0 \in Columns
      BY NumSignalsAssumption DEF Columns
    <3> QED
      BY <1>0, <2>1, <3>1 DEF SentInv
  <2>4. ASSUME NEW k \in Written', NEW d \in Devs, packet'[k].dev = d,
               ring'[d].phantom = 0, Unlapped(d)'
        PROVE  packet'[k].blk = ring'[d].rp - 1 /\ packet'[k].cnt = Count(ring'[d].rp - 1)
    <3>1. CASE k = c
      BY <1>2, <2>1, <2>4, <3>1, SentAppended DEF c
    <3>2. CASE k # c
      <4>1. k \in Written /\ packet'[k] = packet[k]
        BY <2>1, <3>2 DEF Written
      <4>2. d < cdev /\ d \in Int /\ cdev \in Int
        BY <1>0, <2>1, <2>4, <4>1, WrittenDevice, NumSignalsAssumption DEF Devs
      <4> QED
        BY <1>1, <2>2, <2>4, <4>1, <4>2
    <3> QED BY <3>1, <3>2
  <2> QED BY <2>3, <2>4 DEF SentInv
<1>3. CASE NotifySend
  <2>1. Written' = {}
    BY <1>3 DEF NotifySend, Written
  <2> QED BY <2>1 DEF SentInv
<1>4. CASE UNCHANGED packet /\ ~WriteAndConsume
  <2>1. \A d \in Devs : ring'[d].rp = ring[d].rp
    BY <1>0, <1>4, ReaderCounts DEF vars
  <2>2. Written' = Written
    BY <1>4 DEF Written
  <2> QED BY <1>0, <1>1, <1>4, <2>1, <2>2 DEF SentInv
<1> QED
  BY <1>2, <1>3, <1>4, PacketSteps DEF StartPass, PassOver, vars

LEMMA OffsetInvariance == Spec => []OffsetInv
<1>1. Init => OffsetInv
  <2> SUFFICES ASSUME Init PROVE OffsetInv
    OBVIOUS
  <2>1. Written = {}
    BY DEF Init, Written
  <2>2. PassesAgree
    BY NumSignalsAssumption DEF Init, PassesAgree, Signals, Devs, Ref
  <2>3. ColumnsInOrder
    BY <2>1 DEF Init, ColumnsInOrder, Ref
  <2>4. Streaming /\ SentInv
    BY <2>1 DEF Init, Streaming, SentInv
  <2> QED BY <2>2, <2>3, <2>4, InitDeviceInv DEF OffsetInv
<1>2. OffsetInv /\ [Next]_vars => OffsetInv'
  BY NextDeviceInv, NextPasses, NextColumns, NextStreaming, NextSentInv DEF OffsetInv, DeviceInv
<1> QED BY <1>1, <1>2, PTL DEF Spec

\* For any number of devices and every ring size, the columns of a packet are
\* as far apart as the devices have been since their start (ccoherent.cc:228-276):
\* what the clients see as a delay between two receivers does not depend on how
\* the callbacks and the coherent thread have interleaved.
THEOREM OffsetCorrect == Spec => []OffsetIsSkew
<1>1. OffsetInv => OffsetIsSkew
  <2> SUFFICES ASSUME OffsetInv, cdev = NumSignals + 1, mpc = -1,
                      NEW k \in Written \ {0}, NEW d, d = packet[k].dev,
                      Unlapped(Ref), Unlapped(d)
               PROVE  /\ packet[0].blk = packet[k].blk + ring[d].skipped
                      /\ packet[0].cnt = Count(packet[0].blk)
                      /\ packet[k].cnt = Count(packet[k].blk)
    BY DEF OffsetIsSkew
  <2>0. TypeInv /\ ColumnsInOrder /\ SentInv /\ PassesAgree /\ Streaming
    BY DEF OffsetInv, DeviceInv
  <2>1. 0 \in Written /\ d \in Signals /\ d \in Devs /\ Ref \in Devs
    BY <2>0, WrittenDevice, NumSignalsAssumption DEF Ref, Devs
  <2>2. packet[0].dev = Ref
    BY <2>0, <2>1 DEF SentInv
  <2>3. \A e \in Devs : ring[e].phantom = 0 /\ ring[e].rp \in Nat /\ ring[e].skipped \in Nat
    BY <2>0, Fields
       DEF OffsetInv, DeviceInv, RingKept, CountsKept, Ring!SkewInv, Streaming, TypeInv
  <2>4. packet[0].blk = ring[Ref].rp - 1 /\ packet[0].cnt = Count(ring[Ref].rp - 1)
    BY <2>0, <2>1, <2>2, <2>3 DEF SentInv
  <2>5. packet[k].blk = ring[d].rp - 1 /\ packet[k].cnt = Count(ring[d].rp - 1)
    BY <2>0, <2>1, <2>3 DEF SentInv
  <2>6. ring[d].rp + ring[d].skipped = ring[Ref].rp
    BY <2>0, <2>1, <2>3, NumSignalsAssumption DEF PassesAgree, Signals, Ref
  <2> QED BY <2>1, <2>3, <2>4, <2>5, <2>6
<1> QED BY <1>1, OffsetInvariance, PTL

-----------------------------------------------------------------------------
(* A device that has had a column keeps having one.                        *)

\* Of the devices of this pass that are handled already, those that ever had a
\* column have one.
StayInv ==
  mpc = -1 =>
    \A d \in Signals :
      d < cdev /\ ring[d].rp > 0 /\ ring[d].wp < Wrap => \E k \in Written : packet[k].dev = d

\* No block is taken back.
LEMMA BlocksKept ==
  ASSUME NEW d \in Devs, ring[d] \in RingRecord, [Ring(d)!Next]_(Ring(d)!vars)
  PROVE  ring'[d].wp \in Nat /\ ring'[d].wp >= ring[d].wp
<1>0. ring[d].wp \in Nat
  BY DEF RingRecord
<1> USE <1>0 DEF Ring!readerVars, Ring!deviceVars
<1>1. CASE Ring(d)!Device
  BY <1>1 DEF Ring!Device, Ring!CallbackBegin, Ring!CallbackEnd, Ring!AsyncReturn, Ring!DeviceFails
<1>2. CASE Ring(d)!Reader
  BY <1>2 DEF Ring!Reader, Ring!ReadEnter, Ring!ReadWithoutWait, Ring!ReadTake, Ring!NotReady,
     Ring!ConvertBegin, Ring!ConvertEnd, Ring!WriteAndConsume, Ring!ReaderExit
<1>3. CASE Ring(d)!Stop \/ Ring(d)!RequestExit
  BY <1>3 DEF Ring!Stop, Ring!RequestExit
<1>4. CASE UNCHANGED Ring(d)!vars
  BY <1>4 DEF Ring!vars
<1> QED
  BY <1>1, <1>2, <1>3, <1>4 DEF Ring!Next, Ring!Finished, Ring!Orphaned

\* Main does not go back to its loop.
LEMMA MainInLoop == TypeInv /\ [Next]_vars /\ mpc' = -1 => mpc = -1
<1> SUFFICES ASSUME TypeInv, [Next]_vars, mpc' = -1 PROVE mpc = -1
  OBVIOUS
<1>1. CASE BeginShutdown \/ RequestDeviceExit
  BY <1>1, NumSignalsAssumption DEF BeginShutdown, RequestDeviceExit, Devs, Ref
<1>2. CASE UNCHANGED mpc
  BY <1>2
<1> QED
  BY <1>1, <1>2
     DEF Next, Device, CallbackBegin, CallbackEnd, AsyncReturn, CoherentThread, StartPass,
         CoherentExit, ReadEnter, ReadTake, ReadWithoutWait, PassOver, ConvertBegin, ConvertEnd,
         WriteAndConsume, NotifySend, Main, StopDevice, RequestCoherentExit, Finished,
         BoundReached, vars

\* A device that streams and is passed over has consumed nothing yet, or its
\* readcnt has wrapped around.
LEMMA PassedOverEmpty ==
  ASSUME OffsetInv, PassOver, mpc = -1, ring[cdev].wp < Wrap
  PROVE  ring[cdev].rp = 0
<1>1. cdev \in Devs /\ cdev # Ref /\ ring[cdev] \in RingRecord
  BY DEF PassOver, Ready, OffsetInv, DeviceInv, TypeInv, Place
<1>2. ring[cdev].streaming /\ ring[cdev].wp \in Nat
  BY <1>1 DEF OffsetInv, Streaming, RingRecord
<1>3. ring[cdev].wp < N
  BY <1>2, CountBelow, NAssumption DEF PassOver, Ready
<1> QED
  BY <1>1, <1>2, <1>3 DEF OffsetInv, DeviceInv, RingKept, CountsKept, Ring!SkewInv

LEMMA NextStayInv == OffsetInv /\ StayInv /\ [Next]_vars => StayInv'
<1> SUFFICES ASSUME OffsetInv, StayInv, [Next]_vars, mpc' = -1, NEW d \in Signals,
                    d < cdev', ring'[d].rp > 0, ring'[d].wp < Wrap
             PROVE  \E k \in Written' : packet'[k].dev = d
  BY DEF StayInv
<1>0. TypeInv /\ ColumnsInOrder /\ mpc = -1
  BY MainInLoop DEF OffsetInv, DeviceInv
<1>1. /\ d \in Devs /\ d \in Int /\ d > Ref /\ Ref = 0
      /\ cdev \in 0 .. NumSignals + 1 /\ NumSignals \in Nat /\ cdev \in Int
  BY <1>0, NumSignalsAssumption DEF TypeInv, Signals, Devs, Ref
<1>2. ring[d].wp < Wrap
  <2>1. ring[d] \in RingRecord /\ [Ring(d)!Next]_(Ring(d)!vars)
    BY <1>0, <1>1, StepMaps DEF OffsetInv, DeviceInv, TypeInv
  <2>2. ring'[d].wp \in Nat /\ ring'[d].wp >= ring[d].wp /\ ring[d].wp \in Nat
    BY <1>1, <2>1, BlocksKept DEF RingRecord
  <2> QED
    BY <2>2, WrapAssumption
<1>3. ASSUME d < cdev, ring'[d].rp = ring[d].rp
      PROVE  \E k \in Written : packet[k].dev = d
  BY <1>0, <1>2, <1>3 DEF StayInv
<1>4. CASE WriteAndConsume
  <2> DEFINE c == ColumnOf(cdev)
  <2>1. /\ cdev \in Devs /\ c \in Columns /\ packet'[c].dev = cdev
        /\ \A k \in Columns : k # c => packet'[k] = packet[k]
    BY <1>4, SentAppended
  <2>2. c \notin Written /\ cdev' = cdev + 1
    BY <1>0, <1>1, <1>4 DEF WriteAndConsume, ColumnsInOrder, ColumnOf, TypeInv, Place
  <2> HIDE DEF c
  <2>3. CASE d = cdev
    <3>1. packet'[c] # Empty
      BY <1>1, <2>1, <2>3 DEF Empty
    <3> QED
      BY <2>1, <2>3, <3>1 DEF Written
  <2>4. CASE d # cdev
    <3>1. d < cdev /\ ring'[d].rp = ring[d].rp
      BY <1>0, <1>1, <1>4, <2>2, <2>4 DEF WriteAndConsume, TypeInv
    <3>2. PICK k \in Written : packet[k].dev = d
      BY <1>3, <3>1
    <3>3. k \in Columns /\ packet'[k] = packet[k] /\ packet[k] # Empty
      BY <2>1, <2>2 DEF Written
    <3> QED
      BY <3>2, <3>3 DEF Written
  <2> QED
    BY <2>3, <2>4
<1>5. CASE PassOver
  <2>1. packet' = packet /\ cdev' = cdev + 1 /\ ring'[d].rp = ring[d].rp
    BY <1>0, <1>1, <1>5, ReaderCounts DEF PassOver, Next, CoherentThread, TypeInv, RingRecord
  <2>2. d # cdev
    BY <1>0, <1>2, <1>5, <2>1, PassedOverEmpty
  <2>3. d < cdev
    BY <1>1, <2>1, <2>2
  <2> QED
    BY <1>3, <2>1, <2>3 DEF Written
<1>6. CASE NotifySend
  BY <1>1, <1>6 DEF NotifySend
<1>7. CASE UNCHANGED <<packet, cdev>>
  <2>1. ring'[d].rp = ring[d].rp
    <3>1. CASE UNCHANGED vars
      BY <3>1 DEF vars
    <3>2. CASE Next
      BY <1>0, <1>1, <1>7, <3>2, ReaderCounts
    <3> QED
      BY <3>1, <3>2
  <2> QED
    BY <1>3, <1>7, <2>1 DEF Written
<1> QED
  BY <1>4, <1>5, <1>6, <1>7, PacketSteps DEF StartPass, vars

\* For any number of devices and every ring size, a device that has had a column
\* has one in every later packet until it is stopped or readcnt wraps around.
THEOREM ColumnsStayCorrect == Spec => []ColumnsStay
<1>1. Init => StayInv
  BY DEF Init, StayInv, Signals, Ref
<1>2. OffsetInv /\ StayInv => ColumnsStay
  <2> SUFFICES ASSUME OffsetInv, StayInv, cdev = NumSignals + 1, mpc = -1, NEW d \in Signals,
                      ring[d].rp > 0, ring[d].wp < Wrap
               PROVE  \E k \in Written : packet[k].dev = d
    BY DEF ColumnsStay
  <2>1. d < cdev
    BY NumSignalsAssumption DEF Signals
  <2> QED
    BY <2>1 DEF StayInv
<1> QED
  BY <1>1, <1>2, NextStayInv, OffsetInvariance, PTL DEF Spec
=============================================================================
