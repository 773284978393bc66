--------------------------- MODULE SampleRingProofs ---------------------------
(***************************************************************************)
(* Proofs about SampleRing, for every ring size N, both kinds of device    *)
(* and every bound.                                                        *)
(***************************************************************************)
EXTENDS SampleRing, TLAPS

-----------------------------------------------------------------------------
(* Arithmetic of the slots.                                                *)

LEMMA DivMod ==
  ASSUME NEW n \in Nat \ {0}, NEW a \in Nat
  PROVE  /\ a \div n \in Int
         /\ a % n \in 0 .. n-1
         /\ a = n * (a \div n) + (a % n)
BY SMT

\* Distinct multiples of n are at least n apart.
LEMMA MultiplesApart ==
  ASSUME NEW n \in Nat \ {0}, NEW p \in Int, NEW q \in Int, p < q
  PROVE  n * p \in Int /\ n * q \in Int /\ n * p + n <= n * q
BY SMT

\* Two blocks less than a ring apart are never in the same slot.
LEMMA SlotsApart ==
  ASSUME NEW a \in Nat, NEW b \in Nat, b < a, a < b + N
  PROVE  Slot(a) # Slot(b)
<1>1. SUFFICES ASSUME a % N = b % N PROVE FALSE
  BY DEF Slot
<1> DEFINE p == b \div N
           q == a \div N
           r == a % N
           np == N * p
           nq == N * q
<1>2. p \in Int /\ q \in Int /\ r \in Int /\ a = nq + r /\ b = np + r
  BY DivMod, NAssumption, <1>1
<1>3. np \in Int /\ nq \in Int
  BY <1>2, NAssumption
<1>4. np < nq /\ nq < np + N
  <2> HIDE DEF p, q, r, np, nq
  <2> QED BY <1>2, <1>3, NAssumption
<1>5. CASE p < q
  <2>1. CASE p + 1 < q
    <3>1. N * (p + 1) + N <= nq
      BY <2>1, <1>2, MultiplesApart, NAssumption
    <3>2. N * (p + 1) = np + N
      BY <1>2, NAssumption
    <3> QED BY <3>1, <3>2, <1>3, <1>4, NAssumption
  <2>2. CASE p + 1 = q
    <3>1. nq = np + N
      BY <2>2, <1>2, NAssumption
    <3> QED BY <3>1, <1>3, <1>4, NAssumption
  <2> QED BY <2>1, <2>2, <1>2, <1>5
<1>6. CASE q < p
  <2>1. nq + N <= np
    BY <1>6, <1>2, MultiplesApart, NAssumption
  <2> QED BY <2>1, <1>3, <1>4, NAssumption
<1>7. CASE p = q
  BY <1>7, <1>3, <1>4
<1> QED BY <1>2, <1>5, <1>6, <1>7

\* Before the counter wraps around it is the number of blocks.
LEMMA CountBelow == ASSUME NEW i \in Nat, i < Wrap PROVE Count(i) = i
<1> DEFINE q == i \div Wrap
           r == i % Wrap
           wq == Wrap * q
<1>1. Wrap \in Nat \ {0}
  BY WrapAssumption, NAssumption
<1>2. q \in Int /\ r \in 0 .. Wrap-1 /\ i = wq + r
  BY <1>1, DivMod
<1>3. wq \in Int
  BY <1>1, <1>2
<1>4. CASE q < 0
  <2>1. wq + Wrap <= Wrap * 0
    BY <1>1, <1>2, <1>4, MultiplesApart
  <2> QED BY <1>1, <1>2, <1>3, <2>1
<1>5. CASE q > 0
  <2>1. Wrap * 0 + Wrap <= wq
    BY <1>1, <1>2, <1>5, MultiplesApart
  <2> QED BY <1>1, <1>2, <1>3, <2>1
<1>6. CASE q = 0
  BY <1>1, <1>2, <1>6 DEF Count
<1> QED BY <1>2, <1>4, <1>5, <1>6

LEMMA CountType == ASSUME NEW i \in Nat PROVE Count(i) \in Nat
BY DivMod, WrapAssumption, NAssumption DEF Count

LEMMA SlotType == ASSUME NEW i \in Nat PROVE Slot(i) \in Slots
BY DivMod, NAssumption DEF Slot, Slots

-----------------------------------------------------------------------------
\* TypeOK holds in every reachable state.
LEMMA InitTypeOK == Init => TypeOK
<1> SUFFICES ASSUME Init PROVE TypeOK
  OBVIOUS
<1>1. tag \in [Slots -> Nat] /\ data \in [Slots -> BlockNumbers]
  BY DEF Init, BlockNumbers
<1>2. seen \in BlockNumbers /\ sfloat \in BlockNumbers
  BY DEF Init, BlockNumbers
<1> QED BY <1>1, <1>2 DEF Init, TypeOK, ReaderStates

LEMMA NextTypeOK == TypeOK /\ [Next]_vars => TypeOK'
<1> SUFFICES ASSUME TypeOK, [Next]_vars PROVE TypeOK'
  OBVIOUS
<1> USE DEF TypeOK, readerVars, deviceVars, ReaderStates
<1>0. Slot(wp) \in Slots /\ Slot(rp) \in Slots /\ Count(wp) \in Nat
  BY SlotType, CountType
<1>1. CASE CallbackBegin
  <2>1. tag' \in [Slots -> Nat] /\ data' \in [Slots -> BlockNumbers]
    BY <1>0, <1>1 DEF CallbackBegin, BlockNumbers
  <2> QED BY <1>1, <2>1 DEF CallbackBegin
<1>2. CASE CallbackEnd
  <2>1. data' \in [Slots -> BlockNumbers]
    BY <1>0, <1>2 DEF CallbackEnd, BlockNumbers
  <2>2. wp' \in Nat /\ newdata' \in Nat /\ writing' = FALSE
    BY <1>2 DEF CallbackEnd
  <2>3. UNCHANGED <<tag, streaming, exitreq, async, rp, rpc, seen, sfloat,
                    phantom, skipped>>
    BY <1>2 DEF CallbackEnd
  <2> QED BY <2>1, <2>2, <2>3
<1>3. CASE AsyncReturn
  BY <1>3 DEF AsyncReturn
<1>4. CASE DeviceFails
  BY <1>4 DEF DeviceFails
<1>5. CASE ReadEnter
  BY <1>5 DEF ReadEnter
<1>6. CASE ReadWithoutWait
  BY <1>6 DEF ReadWithoutWait
<1>7. CASE ReadTake
  BY <1>7 DEF ReadTake
<1>8. CASE NotReady
  BY <1>8 DEF NotReady
<1>9. CASE ConvertBegin
  <2>1. seen' \in BlockNumbers
    BY <1>0, <1>9 DEF ConvertBegin
  <2> QED BY <1>9, <2>1 DEF ConvertBegin
<1>10. CASE ConvertEnd
  <2>1. sfloat' \in BlockNumbers
    BY <1>10 DEF ConvertEnd, BlockNumbers
  <2> QED BY <1>10, <2>1 DEF ConvertEnd
<1>11. CASE WriteAndConsume
  BY <1>11 DEF WriteAndConsume
<1>12. CASE ReaderExit
  BY <1>12 DEF ReaderExit
<1>13. CASE Stop
  BY <1>13 DEF Stop
<1>14. CASE RequestExit
  BY <1>14 DEF RequestExit
<1>15. CASE UNCHANGED vars
  BY <1>15 DEF vars
<1> QED
  BY <1>1, <1>2, <1>3, <1>4, <1>5, <1>6, <1>7, <1>8, <1>9, <1>10, <1>11,
     <1>12, <1>13, <1>14, <1>15 DEF Next, Device, Reader, Finished, Orphaned

\* Every variable of the ring keeps its type, for every ring size.
THEOREM TypeCorrect == Spec => []TypeOK
BY InitTypeOK, NextTypeOK, PTL DEF Spec

-----------------------------------------------------------------------------
(* The counters.  A skew only builds up before the ring is first full; until *)
(* then a signal device has consumed nothing, so the reads it dropped are    *)
(* bounded by the deliveries.                                                *)

CountInv == TypeOK /\ Accounting /\ SkewInv

LEMMA InitCountInv == Init => CountInv
<1> SUFFICES ASSUME Init PROVE CountInv
  OBVIOUS
<1>1. TypeOK
  BY InitTypeOK
<1>2. Accounting
  BY DEF Init, Accounting, Holding
<1>3. SkewInv
  BY NAssumption DEF Init, SkewInv
<1> QED BY <1>1, <1>2, <1>3 DEF CountInv

LEMMA NextCountInv == CountInv /\ [Next]_vars => CountInv'
<1> SUFFICES ASSUME CountInv, [Next]_vars PROVE CountInv'
  OBVIOUS
<1>0. TypeOK /\ TypeOK'
  BY NextTypeOK DEF CountInv
<1> USE DEF TypeOK, Accounting, SkewInv, Holding, readerVars, deviceVars
<1>a. Accounting /\ SkewInv
  BY DEF CountInv
<1>b. /\ Count(wp) \in Nat
      /\ wp < Wrap => Count(wp) = wp
      /\ N \in Nat /\ Wrap \in Nat /\ N < Wrap
  BY <1>0, CountType, CountBelow, NAssumption, WrapAssumption
<1>1. CASE CallbackBegin
  BY <1>0, <1>a, <1>1 DEF CountInv, CallbackBegin
<1>2. CASE CallbackEnd
  BY <1>0, <1>a, <1>b, <1>2, NAssumption DEF CountInv, CallbackEnd
<1>3. CASE AsyncReturn
  BY <1>0, <1>a, <1>3 DEF CountInv, AsyncReturn
<1>4. CASE DeviceFails
  BY <1>0, <1>a, <1>4 DEF CountInv, DeviceFails
<1>5. CASE ReadEnter
  BY <1>0, <1>a, <1>5 DEF CountInv, ReadEnter
<1>6. CASE ReadWithoutWait
  BY <1>0, <1>a, <1>6 DEF CountInv, ReadWithoutWait
<1>7. CASE ReadTake
  BY <1>0, <1>a, <1>7 DEF CountInv, ReadTake
<1>8. CASE NotReady
  <2>1. Accounting'
    BY <1>0, <1>a, <1>8 DEF NotReady
  <2>2. SkewInv'
    BY <1>0, <1>a, <1>b, <1>8, NAssumption, KindAssumption DEF NotReady, Ready
  <2> QED BY <1>0, <2>1, <2>2 DEF CountInv
<1>9. CASE ConvertBegin
  <2>1. Accounting'
    BY <1>0, <1>a, <1>9 DEF ConvertBegin
  <2>2. SkewInv'
    BY <1>0, <1>a, <1>b, <1>9, NAssumption, KindAssumption DEF ConvertBegin, Ready
  <2> QED BY <1>0, <2>1, <2>2 DEF CountInv
<1>10. CASE ConvertEnd
  BY <1>0, <1>a, <1>10 DEF CountInv, ConvertEnd
<1>11. CASE WriteAndConsume
  BY <1>0, <1>a, <1>11 DEF CountInv, WriteAndConsume
<1>12. CASE ReaderExit
  BY <1>0, <1>a, <1>12 DEF CountInv, ReaderExit
<1>13. CASE Stop
  BY <1>0, <1>a, <1>13 DEF CountInv, Stop
<1>14. CASE RequestExit
  BY <1>0, <1>a, <1>14 DEF CountInv, RequestExit
<1>15. CASE UNCHANGED vars
  BY <1>0, <1>a, <1>15 DEF CountInv, vars
<1> QED
  BY <1>1, <1>2, <1>3, <1>4, <1>5, <1>6, <1>7, <1>8, <1>9, <1>10, <1>11,
     <1>12, <1>13, <1>14, <1>15 DEF Next, Device, Reader, Finished, Orphaned

\* No delivery is lost or counted twice between the callback and the reader,
\* in whatever order stop and exit come (crtlsdr.cc:245-272).
THEOREM DeliveriesCounted == Spec => []Accounting
<1>1. CountInv => Accounting
  BY KindAssumption DEF CountInv
<1> QED BY <1>1, InitCountInv, NextCountInv, PTL DEF Spec

\* The skew a signal device carries away from its start is at most N-1 blocks,
\* and the reference has none (crtlsdr.h:92-94).
THEOREM SkewBounded == Spec => []StartupSkew
<1>1. CountInv => StartupSkew
  BY KindAssumption, NAssumption DEF CountInv, SkewInv, StartupSkew
<1> QED BY <1>1, InitCountInv, NextCountInv, PTL DEF Spec

-----------------------------------------------------------------------------
(* The slots and what the reader copies from them.                         *)

RingInv == CountInv /\ RingContents /\ WritingTag /\ ConvertInv /\ CleanRead

\* The block at rp that a reader holds was delivered, if it waited for it.
LEMMA HeldWasDelivered ==
  CountInv /\ Holding /\ phantom = 0 => rp < wp
BY DEF CountInv, TypeOK, Accounting

\* While the callback has not come round to it, the slot at rp holds rp.
LEMMA HeldIsIntact ==
  CountInv /\ RingContents /\ Holding /\ phantom = 0 /\ Started <= rp + N
    => data[Slot(rp)] = rp /\ tag[Slot(rp)] = Count(rp)
BY HeldWasDelivered DEF RingContents, CountInv, TypeOK

LEMMA InitRingInv == Init => RingInv
<1> SUFFICES ASSUME Init PROVE RingInv
  OBVIOUS
<1>1. CountInv
  BY InitCountInv
<1>2. RingContents /\ WritingTag
  BY DEF Init, RingContents, WritingTag
<1>3. ConvertInv /\ CleanRead
  BY DEF Init, ConvertInv, CleanRead
<1> QED BY <1>1, <1>2, <1>3 DEF RingInv

\* A step that leaves the ring and the conversion alone keeps the invariant.
LEMMA RingStutter ==
  ASSUME RingInv, CountInv',
         UNCHANGED <<wp, rp, tag, data, writing, seen, sfloat>>,
         phantom' = 0 => phantom = 0,
         rpc' \notin {"conv", "send"} \/ rpc' = rpc
  PROVE  RingInv'
<1>1. RingContents' /\ WritingTag'
  BY DEF RingInv, RingContents, WritingTag, Started, Slot
<1>2. ConvertInv' /\ CleanRead'
  BY DEF RingInv, ConvertInv, CleanRead, Started, Slot
<1> QED BY <1>1, <1>2 DEF RingInv

LEMMA NextRingInv == RingInv /\ [Next]_vars => RingInv'
<1> SUFFICES ASSUME RingInv, [Next]_vars PROVE RingInv'
  OBVIOUS
<1>0. CountInv /\ CountInv' /\ TypeOK /\ TypeOK'
  BY NextCountInv DEF RingInv, CountInv
<1> USE DEF readerVars, deviceVars
<1>1. CASE CallbackBegin
  <2>1. Started' = wp + 1 /\ Started = wp /\ wp' = wp /\ writing'
    BY <1>1 DEF CallbackBegin, Started
  <2>2. \A b \in Nat : b < wp /\ wp < b + N => Slot(b) # Slot(wp)
    BY <1>0, SlotsApart DEF TypeOK
  <2>3. Slot(wp) \in Slots
    BY <1>0, SlotType DEF TypeOK
  <2>4. \A s \in Slots : s # Slot(wp) => data'[s] = data[s] /\ tag'[s] = tag[s]
    BY <1>0, <1>1 DEF CallbackBegin, TypeOK
  <2>5. RingContents'
    <3> SUFFICES ASSUME NEW b \in 0 .. wp-1, b + N >= wp + 1
                 PROVE  data'[Slot(b)] = b /\ tag'[Slot(b)] = Count(b)
      BY <2>1 DEF RingContents, Slot
    <3>1. data[Slot(b)] = b /\ tag[Slot(b)] = Count(b)
      BY <1>0, <2>1, NAssumption DEF RingInv, RingContents, TypeOK
    <3>2. Slot(b) \in Slots /\ Slot(b) # Slot(wp)
      BY <1>0, <2>2, SlotType, NAssumption DEF TypeOK
    <3> QED BY <2>4, <3>1, <3>2
  <2>6. WritingTag'
    <3>1. tag'[Slot(wp)] = Count(wp)
      BY <1>0, <1>1, <2>3 DEF CallbackBegin, TypeOK
    <3> QED BY <2>1, <3>1 DEF WritingTag, Slot
  <2>7. ConvertInv'
    BY <1>0, <1>1, <2>1, NAssumption
       DEF RingInv, ConvertInv, CallbackBegin, TypeOK
  <2>8. CleanRead'
    <3> SUFFICES ASSUME rpc = "send", phantom = 0, wp + 1 <= rp + N
                 PROVE  sfloat = rp /\ tag'[Slot(rp)] = Count(rp)
      BY <1>1, <2>1 DEF CleanRead, CallbackBegin, Slot
    <3>1. sfloat = rp /\ tag[Slot(rp)] = Count(rp)
      BY <1>0, <2>1, NAssumption DEF RingInv, CleanRead, TypeOK
    <3>2. rp < wp
      BY <1>0, HeldWasDelivered DEF Holding
    <3>3. Slot(rp) \in Slots /\ Slot(rp) # Slot(wp)
      BY <1>0, <2>2, <3>2, SlotType, NAssumption DEF TypeOK
    <3> QED BY <2>4, <3>1, <3>3
  <2> QED BY <1>0, <2>5, <2>6, <2>7, <2>8 DEF RingInv
<1>2. CASE CallbackEnd
  <2>1. Started' = wp + 1 /\ Started = wp + 1 /\ wp' = wp + 1
    BY <1>2 DEF CallbackEnd, Started
  <2>2. Slot(wp) \in Slots /\ tag' = tag
    BY <1>0, <1>2, SlotType DEF TypeOK, CallbackEnd
  <2>3. RingContents'
    <3> SUFFICES ASSUME NEW b \in 0 .. wp, b + N >= wp + 1
                 PROVE  data'[Slot(b)] = b /\ tag'[Slot(b)] = Count(b)
      BY <1>0, <2>1 DEF RingContents, Slot, TypeOK
    <3>1. CASE b = wp
      BY <1>0, <1>2, <2>2, <3>1 DEF CallbackEnd, TypeOK, RingInv, WritingTag
    <3>2. CASE b < wp
      <4>1. data[Slot(b)] = b /\ tag[Slot(b)] = Count(b)
        BY <1>0, <2>1, <3>2 DEF RingInv, RingContents, TypeOK
      <4>2. Slot(b) \in Slots /\ Slot(b) # Slot(wp)
        BY <1>0, <3>2, SlotsApart, SlotType, NAssumption DEF TypeOK
      <4> QED BY <1>0, <1>2, <2>2, <4>1, <4>2 DEF CallbackEnd, TypeOK
    <3> QED BY <1>0, <3>1, <3>2 DEF TypeOK
  <2>4. WritingTag'
    BY <1>2 DEF CallbackEnd, WritingTag
  <2>5. ConvertInv' /\ CleanRead'
    BY <1>2, <2>1, <2>2
       DEF RingInv, ConvertInv, CleanRead, CallbackEnd, Slot
  <2> QED BY <1>0, <2>3, <2>4, <2>5 DEF RingInv
<1>3. CASE AsyncReturn
  BY <1>0, <1>3, RingStutter DEF AsyncReturn
<1>4. CASE DeviceFails
  BY <1>0, <1>4, RingStutter DEF DeviceFails
<1>5. CASE ReadEnter
  BY <1>0, <1>5, RingStutter DEF ReadEnter
<1>6. CASE ReadWithoutWait
  <2>1. phantom' # 0
    BY <1>0, <1>6 DEF ReadWithoutWait, TypeOK
  <2> QED BY <1>0, <1>6, <2>1, RingStutter DEF ReadWithoutWait
<1>7. CASE ReadTake
  BY <1>0, <1>7, RingStutter DEF ReadTake
<1>8. CASE NotReady
  BY <1>0, <1>8, RingStutter DEF NotReady
<1>9. CASE ConvertBegin
  <2>1. UNCHANGED <<wp, rp, tag, data, writing, phantom>> /\ rpc' = "conv"
    BY <1>9 DEF ConvertBegin
  <2>2. RingContents' /\ WritingTag' /\ CleanRead'
    BY <2>1 DEF RingInv, RingContents, WritingTag, CleanRead, Started, Slot
  <2>3. ConvertInv'
    BY <1>0, <1>9, <2>1, HeldIsIntact
       DEF ConvertBegin, RingInv, ConvertInv, Started, Holding
  <2> QED BY <1>0, <2>2, <2>3 DEF RingInv
<1>10. CASE ConvertEnd
  <2>1. UNCHANGED <<wp, rp, tag, data, writing, phantom>> /\ rpc' = "send"
    BY <1>10 DEF ConvertEnd
  <2>2. RingContents' /\ WritingTag' /\ ConvertInv'
    BY <2>1 DEF RingInv, RingContents, WritingTag, ConvertInv, Started, Slot
  <2>3. CleanRead'
    <3> SUFFICES ASSUME phantom = 0, Started <= rp + N
                 PROVE  sfloat' = rp /\ tag[Slot(rp)] = Count(rp)
      BY <2>1 DEF CleanRead, Started, Slot
    <3>1. data[Slot(rp)] = rp /\ tag[Slot(rp)] = Count(rp)
      BY <1>0, <1>10, HeldIsIntact DEF RingInv, Holding, ConvertEnd
    <3>2. seen = rp
      BY <1>10 DEF RingInv, ConvertInv, ConvertEnd
    <3> QED BY <1>10, <3>1, <3>2 DEF ConvertEnd
  <2> QED BY <1>0, <2>2, <2>3 DEF RingInv
<1>11. CASE WriteAndConsume
  <2>1. UNCHANGED <<wp, tag, data, writing>> /\ rpc' = "idle"
    BY <1>11 DEF WriteAndConsume
  <2> QED
    BY <1>0, <2>1 DEF RingInv, RingContents, WritingTag, ConvertInv,
                      CleanRead, Started, Slot
<1>12. CASE ReaderExit
  BY <1>0, <1>12, RingStutter DEF ReaderExit
<1>13. CASE Stop
  BY <1>0, <1>13, RingStutter DEF Stop
<1>14. CASE RequestExit
  BY <1>0, <1>14, RingStutter DEF RequestExit
<1>15. CASE UNCHANGED vars
  BY <1>0, <1>15, RingStutter DEF vars
<1> QED
  BY <1>1, <1>2, <1>3, <1>4, <1>5, <1>6, <1>7, <1>8, <1>9, <1>10, <1>11,
     <1>12, <1>13, <1>14, <1>15 DEF Next, Device, Reader, Finished, Orphaned

\* The last N blocks are in their slots under their own numbers
\* (common.h:127-144).
THEOREM RingCorrect == Spec => []RingContents
<1>1. RingInv => RingContents
  BY DEF RingInv
<1> QED BY <1>1, InitRingInv, NextRingInv, PTL DEF Spec

\* A block the callback has not come round to is sent complete and in its turn
\* (crtlsdr.cc:264-294).
THEOREM ReadCorrect == Spec => []CleanRead
<1>1. RingInv => CleanRead
  BY DEF RingInv
<1> QED BY <1>1, InitRingInv, NextRingInv, PTL DEF Spec

-----------------------------------------------------------------------------
(* Shutdown.  The callback that cancels the transfers still has its block to *)
(* deliver, and by then stop() has closed the way into the wait: a reader    *)
(* that is waiting finds that block, or an earlier one.                      *)

ShutdownInv == TypeOK /\ WaitInv

LEMMA InitShutdownInv == Init => ShutdownInv
BY InitTypeOK DEF Init, ShutdownInv, WaitInv

LEMMA NextShutdownInv ==
  ASSUME ShutdownInv, [Next]_vars
  PROVE  ShutdownInv'
<1>0. TypeOK /\ TypeOK'
  BY NextTypeOK DEF ShutdownInv
<1> USE DEF ShutdownInv, WaitInv, readerVars, deviceVars
<1>1. CASE CallbackBegin
  BY <1>0, <1>1 DEF CallbackBegin
<1>2. CASE CallbackEnd
  BY <1>0, <1>2 DEF CallbackEnd, TypeOK
<1>3. CASE AsyncReturn
  BY <1>0, <1>3 DEF AsyncReturn
<1>4. CASE DeviceFails
  BY <1>0, <1>4 DEF DeviceFails
<1>5. CASE ReadEnter
  BY <1>0, <1>5 DEF ReadEnter, TypeOK
<1>6. CASE ReadWithoutWait
  BY <1>0, <1>6 DEF ReadWithoutWait
<1>7. CASE ReadTake
  BY <1>0, <1>7 DEF ReadTake
<1>8. CASE NotReady
  BY <1>0, <1>8 DEF NotReady
<1>9. CASE ConvertBegin
  BY <1>0, <1>9 DEF ConvertBegin
<1>10. CASE ConvertEnd
  BY <1>0, <1>10 DEF ConvertEnd
<1>11. CASE WriteAndConsume
  BY <1>0, <1>11 DEF WriteAndConsume
<1>12. CASE ReaderExit
  BY <1>0, <1>12 DEF ReaderExit
<1>13. CASE Stop
  BY <1>0, <1>13 DEF Stop
<1>14. CASE RequestExit
  BY <1>0, <1>14 DEF RequestExit
<1>15. CASE UNCHANGED vars
  BY <1>0, <1>15 DEF vars
<1> QED
  BY <1>1, <1>2, <1>3, <1>4, <1>5, <1>6, <1>7, <1>8, <1>9, <1>10, <1>11,
     <1>12, <1>13, <1>14, <1>15 DEF Next, Device, Reader, Finished, Orphaned

\* Whenever stop() and request_exit() come, a device whose transfers were
\* cancelled does not leave the coherent thread waiting.
THEOREM ShutdownCorrect == Spec => []NoOrphanWait
<1>1. ShutdownInv => NoOrphanWait
  BY DEF ShutdownInv, WaitInv, NoOrphanWait
<1> QED BY <1>1, InitShutdownInv, NextShutdownInv, PTL DEF Spec
=============================================================================
