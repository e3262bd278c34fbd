------------------------- MODULE QpixFifoCtrlProofs -------------------------
(* Proofs about the stream controller, for every FIFO depth, set of packet  *)
(* lengths, consumer and number of hits.                                    *)
EXTENDS QpixFifoCtrl, SequenceTheorems, TLAPS

USE FifoDepthAssumption, LengthsAssumption, ReadyAssumption,
    SparseAssumption, MaxHitsAssumption

(* The FIFO's output port carries a hit, or no hit yet. *)
LEMMA DoutIsHit == ASSUME fifo \in Seq(Hit), hold \in Hit PROVE FifoDout \in Hit
BY DEF FifoDout, FifoValid

LEMMA AppendType ==
  ASSUME NEW S, NEW s \in Seq(S), NEW e \in S
  PROVE  Append(s, e) \in Seq(S)
OBVIOUS

LEMMA LastType ==
  ASSUME NEW S, NEW s \in Seq(S), Len(s) > 0
  PROVE  s[Len(s)] \in S
OBVIOUS

(* What an edge does to the FIFO and the bus keeps their types. *)
LEMMA EdgeTypes ==
  ASSUME TypeOK, Edge
  PROVE  /\ fifo' \in Seq(Hit) /\ hold' \in Hit /\ popped' \in Nat
         /\ stream' \in Seq([beat: Beat, last: BOOLEAN])
         /\ packetLength' \in Lengths /\ hits' \in Hit
<1>1. fifo' \in Seq(Hit) /\ hold' \in Hit /\ popped' \in Nat
  BY SMTT(30) DEF Edge, FifoRead, FifoValid, TypeOK
<1>2. [beat |-> tdata, last |-> tlast]
        \in [beat: Beat, last: BOOLEAN]
  BY DEF TypeOK
<1>3. stream' \in Seq([beat: Beat, last: BOOLEAN])
  <2>1. Append(stream, [beat |-> tdata, last |-> tlast])
          \in Seq([beat: Beat, last: BOOLEAN])
    BY <1>2, AppendType DEF TypeOK
  <2>2. QED
    BY <2>1 DEF Edge, Transfer, TypeOK
<1>4. QED
  BY <1>1, <1>3 DEF Edge, TypeOK

(* The types of the state hold in every reachable state. *)
THEOREM TypeCorrect == Spec => []TypeOK
<1>1. Init => TypeOK
  <2> SUFFICES ASSUME Init PROVE TypeOK
    OBVIOUS
  <2>1. tdata \in Beat /\ hold \in Hit /\ hits \in Hit /\ fifo \in Seq(Hit)
    BY DEF Init, Beat, Hit, NoHit
  <2>2. newWord \in BOOLEAN /\ ren \in BOOLEAN /\ tvalid \in BOOLEAN /\ tlast \in BOOLEAN
    BY DEF Init
  <2>3. stream \in Seq([beat: Beat, last: BOOLEAN])
    BY DEF Init
  <2>4. QED
    BY <2>1, <2>2, <2>3 DEF Init, TypeOK
<1>2. TypeOK /\ [Next]_vars => TypeOK'
  <2> SUFFICES ASSUME TypeOK, [Next]_vars PROVE TypeOK'
    OBVIOUS
  <2>1. ASSUME Tick PROVE TypeOK'
    <3>1. /\ fifo' \in Seq(Hit) /\ hold' \in Hit /\ popped' \in Nat
          /\ stream' \in Seq([beat: Beat, last: BOOLEAN])
          /\ packetLength' \in Lengths /\ hits' \in Hit
      BY <2>1, EdgeTypes DEF Tick, Clock
    <3>2. tready' \in Ready /\ steady' \in BOOLEAN
      BY <2>1 DEF Tick, TypeOK
    <3> DEFINE FsmTypes == /\ state \in {"IDLE", "WRITE_DATA_S", "DONE_S"}
                           /\ phase \in 0..2 /\ newWord \in BOOLEAN /\ nPackets \in Nat
                           /\ ren \in BOOLEAN /\ tvalid \in BOOLEAN /\ tlast \in BOOLEAN
                           /\ tdata \in Beat /\ records \in Nat
    <3>3. CASE StartRead
      <4>1. (/\ newWord \in BOOLEAN /\ ren \in BOOLEAN
             /\ tvalid \in BOOLEAN /\ tlast \in BOOLEAN)'
        BY <3>3 DEF StartRead, NoBeat, TypeOK
      <4>2. FsmTypes'
        BY <3>3, <4>1 DEF StartRead, NoBeat, TypeOK
      <4>3. QED
        BY <3>1, <3>2, <4>2 DEF TypeOK
    <3>4. CASE StayIdle
      <4>1. (/\ newWord \in BOOLEAN /\ ren \in BOOLEAN
             /\ tvalid \in BOOLEAN /\ tlast \in BOOLEAN)'
        BY <3>4 DEF StayIdle, NoBeat, TypeOK
      <4>2. FsmTypes'
        BY <3>4, <4>1 DEF StayIdle, NoBeat, TypeOK
      <4>3. QED
        BY <3>1, <3>2, <4>2 DEF TypeOK
    <3>5. CASE Stall
      <4>1. FsmTypes'
        BY <3>5 DEF Stall, NoBeat, HaveWord, FifoValid, TypeOK
      <4>2. QED
        BY <3>1, <3>2, <4>1 DEF TypeOK
    <3>6. CASE SendPart
      <4>1. tdata' \in Beat
        BY <3>6, DoutIsHit DEF SendPart, Offer, WordSent, PartsLeft, TypeOK, Beat
      <4>2. (/\ newWord \in BOOLEAN /\ ren \in BOOLEAN
             /\ tvalid \in BOOLEAN /\ tlast \in BOOLEAN)'
        BY <3>6 DEF SendPart, Offer, TypeOK
      <4>3. FsmTypes'
        BY <3>6, <4>1, <4>2 DEF SendPart, Offer, PartsLeft, TypeOK
      <4>4. QED
        BY <3>1, <3>2, <4>3 DEF TypeOK
    <3>7. CASE SendLastPart
      <4>1. tdata' \in Beat
        BY <3>7, DoutIsHit DEF SendLastPart, Offer, WordSent, TypeOK, Beat
      <4>2. newWord' \in BOOLEAN /\ ren' \in BOOLEAN
        BY <3>7 DEF SendLastPart, FifoEmpty
      <4>3. tvalid' \in BOOLEAN /\ tlast' \in BOOLEAN
        BY <3>7 DEF SendLastPart, Offer, Full
      <4>4. FsmTypes'
        BY <3>7, <4>1, <4>2, <4>3 DEF SendLastPart, Offer, TypeOK
      <4>5. QED
        BY <3>1, <3>2, <4>4 DEF TypeOK
    <3>8. CASE Finish
      <4>1. FsmTypes'
        BY <3>8 DEF Finish, NoBeat, TypeOK
      <4>2. QED
        BY <3>1, <3>2, <4>1 DEF TypeOK
    <3>9. QED
      BY <2>1, <3>3, <3>4, <3>5, <3>6, <3>7, <3>8 DEF Tick, Clock, WriteFsm
  <2>2. ASSUME HitArrives PROVE TypeOK'
    BY <2>2 DEF HitArrives, TypeOK, fsmVars, Hit
  <2>3. ASSUME SetPacketLength PROVE TypeOK'
    BY <2>3 DEF SetPacketLength, TypeOK, fsmVars
  <2>4. CASE UNCHANGED vars
    BY <2>4 DEF vars, fsmVars, TypeOK
  <2>5. QED
    BY <2>1, <2>2, <2>3, <2>4 DEF Next
<1>3. QED
  BY <1>1, <1>2, PTL DEF Spec

-----------------------------------------------------------------------------
(* ReadsMatchRecords is not inductive: that a strobe pops a word only as the *)
(* word is latched needs ren to be exactly "sending, no word in hand", and   *)
(* the third beat must find its word in hand.                                *)
ReadInv ==
  /\ ReadsMatchRecords
  /\ ren <=> state = "WRITE_DATA_S" /\ ~newWord
  /\ state = "WRITE_DATA_S" /\ phase > 0 => newWord
  /\ state # "WRITE_DATA_S" => phase = 0

LEMMA ReadInvInit == Init => ReadInv
BY DEF Init, ReadInv, ReadsMatchRecords, InHand

LEMMA ReadInvTick ==
  ASSUME TypeOK, ReadInv, Tick
  PROVE  ReadInv'
<1> USE DEF ReadInv, ReadsMatchRecords, InHand, FifoValid, FifoEmpty, HaveWord,
            CanSend, Okay, Edge, FifoRead
<1>1. CASE StartRead
  BY <1>1 DEF StartRead, NoBeat, Tick, Clock, TypeOK
<1>2. CASE StayIdle
  BY <1>2 DEF StayIdle, NoBeat, Tick, Clock, TypeOK
<1>3. CASE Stall
  BY <1>3 DEF Stall, NoBeat, Tick, Clock, TypeOK
<1>4. CASE SendPart
  BY <1>4 DEF SendPart, Offer, Tick, Clock, TypeOK
<1>5. CASE SendLastPart
  <2>1. /\ newWord /\ ~ren /\ state = "WRITE_DATA_S"
        /\ phase' = 0 /\ records' = records + 1
    BY <1>5 DEF SendLastPart, Offer, TypeOK
  <2>2. popped' = popped /\ fifo' = fifo
    BY <2>1 DEF Tick, Clock
  <2>3. CASE fifo = <<>>
    BY <1>5, <2>1, <2>2, <2>3 DEF SendLastPart, TypeOK
  <2>4. CASE fifo # <<>>
    <3>1. state' = "WRITE_DATA_S" /\ ren' = TRUE /\ newWord' = FALSE
      BY <1>5, <2>1, <2>4 DEF SendLastPart
    <3>2. QED
      BY <2>1, <2>2, <2>4, <3>1 DEF TypeOK
  <2>5. QED
    BY <2>3, <2>4
<1>6. CASE Finish
  BY <1>6 DEF Finish, NoBeat, Tick, Clock, TypeOK
<1>7. QED
  BY <1>1, <1>2, <1>3, <1>4, <1>5, <1>6 DEF Tick, Clock, WriteFsm

LEMMA ReadInvHolds == Spec => [](TypeOK /\ ReadInv)
<1>1. TypeOK /\ ReadInv /\ [Next]_vars => ReadInv'
  <2> SUFFICES ASSUME TypeOK, ReadInv, [Next]_vars PROVE ReadInv'
    OBVIOUS
  <2>1. CASE Tick
    BY <2>1, ReadInvTick
  <2>2. CASE HitArrives
    <3>1. fifo' # <<>>
      BY <2>2 DEF HitArrives, TypeOK
    <3>2. QED
      BY <2>2, <3>1 DEF HitArrives, fsmVars, ReadInv, ReadsMatchRecords, InHand, FifoValid
  <2>3. CASE SetPacketLength
    BY <2>3 DEF SetPacketLength, fsmVars, ReadInv, ReadsMatchRecords, InHand, FifoValid
  <2>4. CASE UNCHANGED vars
    BY <2>4 DEF vars, fsmVars, ReadInv, ReadsMatchRecords, InHand, FifoValid
  <2>5. QED
    BY <2>1, <2>2, <2>3, <2>4 DEF Next
<1>2. QED
  BY <1>1, ReadInvInit, TypeCorrect, PTL DEF Spec

(* Every FIFO read becomes exactly one record and finds a word to read: the *)
(* ren strobe of qpix_carrier_fifo_ctrl is never doubled or lost.           *)
THEOREM ReadsMatch == Spec => []ReadsMatchRecords
<1>1. ReadInv => ReadsMatchRecords
  BY DEF ReadInv
<1>2. QED
  BY <1>1, ReadInvHolds, PTL

-----------------------------------------------------------------------------
(* Framing needs the phase counter tied to the number of beats offered so   *)
(* far, the one on the bus included.                                        *)
OnBus == IF tvalid THEN 1 ELSE 0

FrameInv ==
  /\ Framing
  /\ phase = (Len(stream) + OnBus) % 3
  /\ state # "WRITE_DATA_S" => phase = 0

LEMMA TransferFrames ==
  ASSUME TypeOK, FrameInv, Edge
  PROVE  /\ \A i \in 1..Len(stream') :
              /\ stream'[i].beat.part = (i - 1) % 3
              /\ stream'[i].last => stream'[i].beat.part = 2
         /\ Len(stream') = Len(stream) + OnBus
<1>1. CASE tvalid
  <2> DEFINE e == [beat |-> tdata, last |-> tlast]
  <2>1. stream' = Append(stream, e)
    BY <1>1 DEF Edge, Transfer
  <2>2. Len(stream') = Len(stream) + 1
    BY <2>1 DEF TypeOK
  <2>3. \A i \in 1..Len(stream) : stream'[i] = stream[i]
    BY <2>1 DEF TypeOK
  <2>4. stream'[Len(stream) + 1] = e
    BY <2>1 DEF TypeOK
  <2>5. e.beat.part = (Len(stream) + 1 - 1) % 3 /\ (e.last => e.beat.part = 2)
    BY <1>1 DEF FrameInv, Framing, TypeOK
  <2> HIDE DEF e
  <2>6. Len(stream) \in Nat
    BY DEF TypeOK
  <2>7. \A i \in 1..Len(stream') : i \in 1..Len(stream) \/ i = Len(stream) + 1
    BY <2>2, <2>6
  <2>8. \A i \in 1..Len(stream') :
           /\ stream'[i].beat.part = (i - 1) % 3
           /\ stream'[i].last => stream'[i].beat.part = 2
    <3> SUFFICES ASSUME NEW i \in 1..Len(stream')
                 PROVE  /\ stream'[i].beat.part = (i - 1) % 3
                        /\ stream'[i].last => stream'[i].beat.part = 2
      OBVIOUS
    <3>1. CASE i \in 1..Len(stream)
      BY <2>3, <3>1 DEF FrameInv, Framing
    <3>2. CASE i = Len(stream) + 1
      BY <2>4, <2>5, <3>2
    <3>3. QED
      BY <2>7, <3>1, <3>2
  <2>9. QED
    BY <1>1, <2>2, <2>8 DEF OnBus
<1>2. CASE ~tvalid
  BY <1>2 DEF Edge, Transfer, FrameInv, Framing, OnBus, TypeOK
<1>3. QED
  BY <1>1, <1>2

LEMMA FrameInvTick ==
  ASSUME TypeOK, FrameInv, Tick
  PROVE  FrameInv'
<1>1. Edge
  BY DEF Tick, Clock
<1>2. Len(stream) \in Nat /\ Len(stream') \in Nat
  BY <1>1, EdgeTypes DEF TypeOK
<1>3. /\ \A i \in 1..Len(stream') :
           /\ stream'[i].beat.part = (i - 1) % 3
           /\ stream'[i].last => stream'[i].beat.part = 2
      /\ Len(stream') = Len(stream) + OnBus
  BY <1>1, TransferFrames
<1>4. phase = Len(stream') % 3
  BY <1>3 DEF FrameInv
<1>5. CASE StartRead \/ StayIdle \/ Stall \/ Finish
  <2>1. tvalid' = FALSE /\ tlast' = FALSE /\ phase' = phase
    BY <1>5 DEF StartRead, StayIdle, Stall, Finish, NoBeat, FrameInv
  <2>2. state' # "WRITE_DATA_S" => phase' = 0
    BY <1>5 DEF StartRead, StayIdle, Stall, Finish, FrameInv
  <2>3. phase' = (Len(stream') + OnBus') % 3
    BY <1>2, <1>4, <2>1 DEF OnBus
  <2>4. QED
    BY <1>3, <2>1, <2>2, <2>3 DEF FrameInv, Framing
<1>6. CASE SendPart
  <2>1. /\ tvalid' = TRUE /\ tlast' = FALSE /\ tdata'.part = phase
        /\ phase < 2 /\ phase' = phase + 1 /\ state' = "WRITE_DATA_S"
    BY <1>6 DEF SendPart, Offer, PartsLeft
  <2>2. phase' = (Len(stream') + 1) % 3
    BY <1>2, <1>4, <2>1
  <2>3. QED
    BY <1>3, <1>4, <2>1, <2>2 DEF FrameInv, Framing, OnBus
<1>7. CASE SendLastPart
  <2>1. /\ tvalid' = TRUE /\ tdata'.part = phase
        /\ phase = 2 /\ phase' = 0
    BY <1>7 DEF SendLastPart, Offer
  <2>2. phase' = (Len(stream') + 1) % 3
    BY <1>2, <1>4, <2>1
  <2>3. QED
    BY <1>3, <1>4, <2>1, <2>2 DEF FrameInv, Framing, OnBus
<1>8. QED
  BY <1>5, <1>6, <1>7 DEF Tick, Clock, WriteFsm

LEMMA FrameInvHolds == Spec => [](TypeOK /\ FrameInv)
<1>1. Init => FrameInv
  BY DEF Init, FrameInv, Framing, OnBus
<1>2. TypeOK /\ FrameInv /\ [Next]_vars => FrameInv'
  <2> SUFFICES ASSUME TypeOK, FrameInv, [Next]_vars PROVE FrameInv'
    OBVIOUS
  <2>1. CASE Tick
    BY <2>1, FrameInvTick
  <2>2. CASE HitArrives
    BY <2>2 DEF HitArrives, fsmVars, FrameInv, Framing, OnBus
  <2>3. CASE SetPacketLength
    BY <2>3 DEF SetPacketLength, fsmVars, FrameInv, Framing, OnBus
  <2>4. CASE UNCHANGED vars
    BY <2>4 DEF vars, fsmVars, FrameInv, Framing, OnBus
  <2>5. QED
    BY <2>1, <2>2, <2>3, <2>4 DEF Next
<1>3. QED
  BY <1>1, <1>2, TypeCorrect, PTL DEF Spec

(* The beats offered cycle through the three parts of a record without a    *)
(* slip, and TLAST comes only on a third part, for every consumer.          *)
THEOREM FramingHolds == Spec => []Framing
<1>1. FrameInv => Framing
  BY DEF FrameInv
<1>2. QED
  BY <1>1, FrameInvHolds, PTL

-----------------------------------------------------------------------------
(* What the bus hands over extends the stream by one beat, and no more. *)
LEMMA StreamGrows ==
  ASSUME TypeOK, Edge
  PROVE  /\ Len(stream) \in Nat /\ Len(stream') = Len(stream) + OnBus
         /\ \A i \in 1..Len(stream) : stream'[i] = stream[i]
         /\ tvalid => stream'[Len(stream')] = [beat |-> tdata, last |-> tlast]
<1>1. CASE tvalid
  BY <1>1 DEF Edge, Transfer, TypeOK, OnBus
<1>2. CASE ~tvalid
  BY <1>2 DEF Edge, Transfer, TypeOK, OnBus
<1>3. QED
  BY <1>1, <1>2

(* The FIFO holds the words after the last one dropped, in the order they   *)
(* came, so that its output never goes back.                                *)
FifoInv ==
  /\ hits = popped + Len(fifo)
  /\ \A i \in 1..Len(fifo) : fifo[i] = popped + i
  /\ hold = popped

LEMMA DoutIsOldest ==
  ASSUME TypeOK, FifoInv
  PROVE  FifoDout = IF FifoValid THEN popped + 1 ELSE popped
BY DEF FifoDout, FifoValid, FifoInv, TypeOK

LEMMA FifoInvInit == Init => FifoInv
BY DEF Init, FifoInv, NoHit

LEMMA FifoInvStep ==
  ASSUME TypeOK, FifoInv, [Next]_vars
  PROVE  FifoInv'
<1>1. CASE Tick
  <2>1. FifoRead
    BY <1>1 DEF Tick, Clock, Edge
  <2>2. hits' = hits
    BY <1>1 DEF Tick, Clock, Edge
  <2>3. CASE ren /\ FifoValid
    <3>1. fifo # <<>> /\ fifo \in Seq(Hit)
      BY <2>3 DEF FifoValid, TypeOK
    <3>2. fifo' = Tail(fifo) /\ hold' = Head(fifo) /\ popped' = popped + 1
      BY <2>1, <2>3 DEF FifoRead
    <3>3. Len(fifo') = Len(fifo) - 1 /\ Len(fifo) \in Nat \ {0}
      BY <3>1, <3>2
    <3>4. \A i \in 1..Len(fifo') : fifo'[i] = fifo[i + 1]
      BY <3>1, <3>2
    <3>5. Head(fifo) = fifo[1]
      BY <3>1
    <3>6. QED
      BY <2>2, <3>2, <3>3, <3>4, <3>5 DEF FifoInv, TypeOK
  <2>4. CASE ~(ren /\ FifoValid)
    BY <2>1, <2>2, <2>4 DEF FifoRead, FifoInv
  <2>5. QED
    BY <2>3, <2>4
<1>2. CASE HitArrives
  <2>1. fifo' = Append(fifo, hits + 1) /\ fifo \in Seq(Hit)
    BY <1>2 DEF HitArrives, TypeOK
  <2>2. /\ Len(fifo') = Len(fifo) + 1 /\ Len(fifo) \in Nat
        /\ fifo'[Len(fifo) + 1] = hits + 1
        /\ \A i \in 1..Len(fifo) : fifo'[i] = fifo[i]
    BY <2>1
  <2>3. hits' = hits + 1 /\ hold' = hold /\ popped' = popped
    BY <1>2 DEF HitArrives
  <2>4. \A i \in 1..Len(fifo') : i \in 1..Len(fifo) \/ i = Len(fifo) + 1
    BY <2>2
  <2>5. \A i \in 1..Len(fifo') : fifo'[i] = popped' + i
    <3>1. TAKE i \in 1..Len(fifo')
    <3>2. CASE i \in 1..Len(fifo)
      BY <2>2, <2>3, <3>2 DEF FifoInv
    <3>3. CASE i = Len(fifo) + 1
      BY <2>2, <2>3, <3>3 DEF FifoInv, TypeOK
    <3>4. QED
      BY <2>4, <3>2, <3>3
  <2>6. QED
    BY <2>2, <2>3, <2>5 DEF FifoInv, TypeOK, Hit
<1>3. CASE SetPacketLength
  BY <1>3 DEF SetPacketLength, FifoInv
<1>4. CASE UNCHANGED vars
  BY <1>4 DEF vars, FifoInv
<1>5. QED
  BY <1>1, <1>2, <1>3, <1>4 DEF Next

LEMMA FifoInvHolds == Spec => [](TypeOK /\ FifoInv)
<1>1. TypeOK /\ FifoInv /\ [Next]_vars => FifoInv'
  BY FifoInvStep
<1>2. QED
  BY <1>1, FifoInvInit, TypeCorrect, PTL DEF Spec

LEMMA DoutGrows ==
  ASSUME TypeOK, TypeOK', FifoInv, FifoInv', [Next]_vars
  PROVE  /\ FifoDout \in Nat /\ FifoDout' \in Nat
         /\ FifoDout <= FifoDout'
<1>1. FifoDout = (IF FifoValid THEN popped + 1 ELSE popped)
  BY DoutIsOldest
<1>2. FifoDout' = (IF FifoValid' THEN popped' + 1 ELSE popped')
  BY DEF FifoDout, FifoValid, FifoInv, TypeOK
<1> USE DEF FifoValid, TypeOK
<1>3. CASE Tick
  <2>1. FifoRead
    BY <1>3 DEF Tick, Clock, Edge
  <2>2. CASE ren /\ fifo # <<>>
    BY <1>1, <1>2, <2>1, <2>2 DEF FifoRead
  <2>3. CASE ~(ren /\ fifo # <<>>)
    <3>1. fifo' = fifo /\ popped' = popped
      BY <2>1, <2>3 DEF FifoRead
    <3>2. popped \in Nat
      OBVIOUS
    <3>3. QED
      BY <1>1, <1>2, <3>1, <3>2
  <2>4. QED
    BY <2>2, <2>3
<1>4. CASE HitArrives
  <2>1. fifo' # <<>>
    BY <1>4 DEF HitArrives
  <2>2. QED
    BY <1>1, <1>2, <1>4, <2>1 DEF HitArrives
<1>5. CASE SetPacketLength
  BY <1>1, <1>2, <1>5 DEF SetPacketLength
<1>6. CASE UNCHANGED vars
  BY <1>1, <1>2, <1>6 DEF vars
<1>7. QED
  BY <1>3, <1>4, <1>5, <1>6 DEF Next

-----------------------------------------------------------------------------
(* HitOrder lacks what is to come: the last beat handed over is no newer    *)
(* than the one on the bus, and both no newer than the FIFO's output.       *)
OrderInv ==
  /\ HitOrder
  /\ tvalid => tdata.hit <= FifoDout
  /\ Len(stream) > 0 =>
       stream[Len(stream)].beat.hit <= IF tvalid THEN tdata.hit ELSE FifoDout

LEMMA OrderStream ==
  ASSUME TypeOK, TypeOK', OrderInv, Edge
  PROVE  /\ HitOrder'
         /\ tvalid => stream'[Len(stream')].beat.hit = tdata.hit
         /\ ~tvalid => stream' = stream
<1>1. CASE tvalid
  <2>1. /\ Len(stream) \in Nat /\ Len(stream') = Len(stream) + 1
        /\ \A i \in 1..Len(stream) : stream'[i] = stream[i]
        /\ stream'[Len(stream')].beat.hit = tdata.hit
    BY <1>1, StreamGrows DEF OnBus
  <2>2. ASSUME NEW i \in 1..Len(stream') - 1
        PROVE  stream'[i].beat.hit <= stream'[i + 1].beat.hit
    <3>1. CASE i = Len(stream)
      BY <1>1, <2>1, <3>1 DEF OrderInv
    <3>2. CASE i # Len(stream)
      <4>1. i \in 1..Len(stream) - 1 /\ i \in 1..Len(stream) /\ i + 1 \in 1..Len(stream)
        BY <2>1, <3>2
      <4>2. QED
        BY <2>1, <4>1 DEF OrderInv, HitOrder
    <3>3. QED
      BY <3>1, <3>2
  <2>3. QED
    BY <1>1, <2>1, <2>2 DEF HitOrder
<1>2. CASE ~tvalid
  BY <1>2 DEF Edge, Transfer, OrderInv, HitOrder
<1>3. QED
  BY <1>1, <1>2

LEMMA OrderInvTick ==
  ASSUME TypeOK, TypeOK', FifoInv, FifoInv', OrderInv, Tick
  PROVE  OrderInv'
<1>1. Edge
  BY DEF Tick, Clock
<1>2. /\ HitOrder'
      /\ tvalid => stream'[Len(stream')].beat.hit = tdata.hit
      /\ ~tvalid => stream' = stream
  BY <1>1, OrderStream
<1>3. FifoDout \in Nat /\ FifoDout' \in Nat /\ FifoDout <= FifoDout'
  BY DoutGrows DEF Next
<1>4. /\ tdata.hit \in Nat
      /\ Len(stream) > 0 => stream[Len(stream)].beat.hit \in Nat
  <2>1. Len(stream) > 0 => stream[Len(stream)] \in [beat: Beat, last: BOOLEAN]
    BY LastType DEF TypeOK
  <2>2. QED
    BY SMTT(30), <2>1 DEF TypeOK, Beat, Hit
<1>5. /\ Len(stream') \in Nat
      /\ Len(stream') > 0 =>
           /\ stream'[Len(stream')].beat.hit \in Nat
           /\ stream'[Len(stream')].beat.hit <= FifoDout
  BY SMTT(30), <1>2, <1>3, <1>4 DEF OrderInv, TypeOK
<1>6. CASE StartRead \/ StayIdle \/ Stall \/ Finish
  <2>1. tvalid' = FALSE
    BY <1>6 DEF StartRead, StayIdle, Stall, Finish, NoBeat
  <2>2. QED
    BY <1>2, <1>3, <1>5, <2>1 DEF OrderInv
<1>7. CASE SendPart \/ SendLastPart
  <2>1. tvalid' = TRUE /\ tdata'.hit = FifoDout
    BY <1>7 DEF SendPart, SendLastPart, Offer, WordSent
  <2>2. QED
    BY <1>2, <1>3, <1>5, <2>1 DEF OrderInv
<1>8. QED
  BY <1>6, <1>7 DEF Tick, Clock, WriteFsm

(* No beat carries an older hit than an earlier beat, for every FIFO depth, *)
(* backlog and consumer: the FIFO's output is sent as it stands, and it     *)
(* never goes back.                                                         *)
THEOREM HitOrderHolds == Spec => []HitOrder
<1>1. Init => OrderInv
  BY DEF Init, OrderInv, HitOrder
<1>2. TypeOK /\ TypeOK' /\ FifoInv /\ FifoInv' /\ OrderInv /\ [Next]_vars => OrderInv'
  <2> SUFFICES ASSUME TypeOK, TypeOK', FifoInv, FifoInv', OrderInv, [Next]_vars
               PROVE  OrderInv'
    OBVIOUS
  <2>1. CASE Tick
    BY <2>1, OrderInvTick
  <2>2. CASE ~Tick
    <3>1. stream' = stream /\ tvalid' = tvalid /\ tdata' = tdata
      BY <2>2 DEF Next, HitArrives, SetPacketLength, vars, fsmVars
    <3>2. FifoDout \in Nat /\ FifoDout' \in Nat /\ FifoDout <= FifoDout'
      BY DoutGrows
    <3>3. /\ tdata.hit \in Nat /\ Len(stream) \in Nat
          /\ Len(stream) > 0 => stream[Len(stream)].beat.hit \in Nat
      <4>1. Len(stream) > 0 => stream[Len(stream)] \in [beat: Beat, last: BOOLEAN]
        BY LastType DEF TypeOK
      <4>2. QED
        BY SMTT(30), <4>1 DEF TypeOK, Beat, Hit
    <3>4. QED
      BY <3>1, <3>2, <3>3 DEF OrderInv, HitOrder
  <2>3. QED
    BY <2>1, <2>2
<1>3. OrderInv => HitOrder
  BY DEF OrderInv
<1>4. QED
  BY <1>1, <1>2, <1>3, FifoInvHolds, PTL DEF Spec

-----------------------------------------------------------------------------
(* The beats so far, the one on the bus included, are those of the records  *)
(* sent and of the record at work.                                          *)
CountInv == Len(stream) + OnBus = 3 * records + phase

LEMMA CountInvTick ==
  ASSUME TypeOK, ReadInv, CountInv, Tick
  PROVE  CountInv'
<1>1. /\ Len(stream) \in Nat /\ records \in Nat /\ phase \in 0..2
      /\ Len(stream') = 3 * records + phase
  BY StreamGrows DEF Tick, Clock, TypeOK, CountInv
<1>2. CASE StartRead \/ StayIdle \/ Stall \/ Finish
  BY <1>1, <1>2 DEF StartRead, StayIdle, Stall, Finish, NoBeat, CountInv, OnBus, ReadInv
<1>3. CASE SendPart
  BY <1>1, <1>3 DEF SendPart, Offer, CountInv, OnBus
<1>4. CASE SendLastPart
  BY <1>1, <1>4 DEF SendLastPart, Offer, CountInv, OnBus
<1>5. QED
  BY <1>2, <1>3, <1>4 DEF Tick, Clock, WriteFsm

LEMMA CountInvHolds == Spec => [](TypeOK /\ ReadInv /\ FifoInv /\ CountInv)
<1>1. Init => CountInv
  BY DEF Init, CountInv, OnBus
<1>2. TypeOK /\ ReadInv /\ CountInv /\ [Next]_vars => CountInv'
  BY CountInvTick DEF Next, HitArrives, SetPacketLength, vars, fsmVars, CountInv, OnBus
<1>3. QED
  BY <1>1, <1>2, ReadInvHolds, FifoInvHolds, PTL DEF Spec

(* While the consumer has been ready, the first part is never sent with a   *)
(* word already in hand: it goes out at the edge that drops its word.       *)
LowInv ==
  /\ LowWordsComplete
  /\ steady => tready
  /\ steady /\ state = "WRITE_DATA_S" /\ phase = 0 => ~newWord
  /\ steady /\ tvalid /\ tdata.part = 0 => tdata.hit = 1 + ((Len(stream) + 1) \div 3)

LEMMA LowStream ==
  ASSUME TypeOK, LowInv, Edge, steady
  PROVE  \A i \in 1..Len(stream') :
           stream'[i].beat.part = 0 => stream'[i].beat.hit = 1 + (i \div 3)
<1>1. CASE tvalid
  <2>1. /\ Len(stream) \in Nat /\ Len(stream') = Len(stream) + 1
        /\ \A i \in 1..Len(stream) : stream'[i] = stream[i]
        /\ stream'[Len(stream) + 1].beat = tdata
    BY <1>1, StreamGrows DEF OnBus
  <2>2. TAKE i \in 1..Len(stream')
  <2>3. CASE i \in 1..Len(stream)
    BY <2>1, <2>3 DEF LowInv, LowWordsComplete
  <2>4. CASE i = Len(stream) + 1
    BY <1>1, <2>1, <2>4 DEF LowInv
  <2>5. QED
    BY <2>1, <2>3, <2>4
<1>2. CASE ~tvalid
  BY <1>2 DEF Edge, Transfer, LowInv, LowWordsComplete
<1>3. QED
  BY <1>1, <1>2

LEMMA LowInvTick ==
  ASSUME TypeOK, ReadInv, FifoInv, CountInv, LowInv, Tick
  PROVE  LowInv'
<1> SUFFICES ASSUME steady'
             PROVE  LowInv'
  BY DEF LowInv, LowWordsComplete
<1>1. steady /\ tready /\ tready'
  BY DEF Tick, LowInv, TypeOK
<1>2. LowWordsComplete'
  BY <1>1, LowStream DEF Tick, Clock, LowWordsComplete
<1>3. CASE StartRead \/ StayIdle \/ Stall \/ Finish
  <2>1. tvalid' = FALSE
    BY <1>3 DEF StartRead, StayIdle, Stall, Finish, NoBeat
  <2>2. ~Stall
    BY <1>1 DEF Stall, CanSend, HaveWord, ReadInv, ReadsMatchRecords
  <2>3. (state = "WRITE_DATA_S" /\ phase = 0 => ~newWord)'
    BY <1>1, <1>3, <2>2 DEF StartRead, StayIdle, Finish, Okay
  <2>4. QED
    BY <1>1, <1>2, <2>1, <2>3 DEF LowInv
<1>4. CASE SendPart
  <2>1. /\ state = "WRITE_DATA_S" /\ phase \in {0, 1} /\ phase' = phase + 1
        /\ tdata'.part = phase /\ tdata'.hit = FifoDout
    BY <1>4 DEF SendPart, Offer, PartsLeft, WordSent, TypeOK
  <2>2. ASSUME phase = 0
        PROVE  FifoDout = 1 + ((Len(stream') + 1) \div 3)
    <3>1. ~newWord /\ FifoValid /\ popped = records
      BY <1>1, <2>1, <2>2 DEF LowInv, ReadInv, ReadsMatchRecords, InHand, TypeOK
    <3>2. FifoDout = records + 1
      BY <3>1, DoutIsOldest
    <3>3. Len(stream') = 3 * records /\ records \in Nat
      BY <2>2, StreamGrows DEF Tick, Clock, CountInv, TypeOK
    <3>4. (Len(stream') + 1) \div 3 = records
      BY <3>3
    <3>5. QED
      BY <3>2, <3>3, <3>4
  <2>3. QED
    BY <1>1, <1>2, <2>1, <2>2 DEF LowInv
<1>5. CASE SendLastPart
  <2>1. tdata'.part = 2
    BY <1>5 DEF SendLastPart, Offer
  <2>2. (state = "WRITE_DATA_S" /\ phase = 0 => ~newWord)'
    BY <1>5 DEF SendLastPart, Offer
  <2>3. QED
    BY <1>1, <1>2, <2>1, <2>2 DEF LowInv
<1>6. QED
  BY <1>3, <1>4, <1>5 DEF Tick, Clock, WriteFsm

(* Up to the first stall the k-th record's low timestamp word is the k-th   *)
(* hit's, at any backlog and for every FIFO depth: no hit is skipped.       *)
THEOREM LowWordsHold == Spec => []LowWordsComplete
<1>1. Init => LowInv
  BY DEF Init, LowInv, LowWordsComplete
<1>2. TypeOK /\ ReadInv /\ FifoInv /\ CountInv /\ LowInv /\ [Next]_vars => LowInv'
  BY LowInvTick DEF Next, HitArrives, SetPacketLength, vars, fsmVars, LowInv, LowWordsComplete
<1>3. LowInv => LowWordsComplete
  BY DEF LowInv
<1>4. QED
  BY <1>1, <1>2, <1>3, CountInvHolds, PTL DEF Spec

-----------------------------------------------------------------------------
(* Where the open packet begins: behind the last beat with TLAST. *)
OpensAt(f) ==
  /\ f = 0 \/ (f \in 1..Len(stream) /\ stream[f].last)
  /\ \A j \in 1..Len(stream) : stream[j].last => j <= f

LEMMA OpenRecordsAt ==
  ASSUME NEW f \in Nat, OpensAt(f), Len(stream) \in Nat
  PROVE  OpenRecords = (Len(stream) - f) \div 3
<1> DEFINE lasts == {i \in 1..Len(stream) : stream[i].last}
           Opens(i) == i \in lasts \cup {0} /\ \A j \in lasts : j <= i
<1>1. Opens(f)
  BY DEF OpensAt
<1>2. \A i : Opens(i) => i = f
  BY DEF OpensAt
<1>3. (CHOOSE i \in lasts \cup {0} : \A j \in lasts : j <= i) = f
  BY <1>1, <1>2
<1>4. QED
  BY <1>3 DEF OpenRecords

Bound(m) == m \in Lengths \cup {1} /\ \A l \in Lengths : l <= m

(* The packet counter counts the records behind the last TLAST, the one on  *)
(* the bus included, and stays below every bound.                           *)
PacketInv ==
  \E f \in Nat :
    /\ OpensAt(f)
    /\ IF tlast
         THEN nPackets = 0 /\ (\A m : Bound(m) => Len(stream) <= f + 3 * m + 2)
         ELSE Len(stream) + OnBus = f + 3 * nPackets + phase
    /\ \A m : Bound(m) => nPackets <= m /\ (nPackets > 0 => nPackets < m)

LEMMA BoundType == ASSUME NEW m, Bound(m) PROVE m \in Nat
BY DEF Bound

LEMMA PacketOpens ==
  ASSUME TypeOK, Edge, tlast => tvalid,
         NEW f \in Nat, OpensAt(f),
         NEW g \in Nat, g = IF tlast THEN Len(stream) + 1 ELSE f
  PROVE  OpensAt(g)'
<1>1. /\ Len(stream) \in Nat /\ Len(stream') = Len(stream) + OnBus
      /\ \A i \in 1..Len(stream) : stream'[i] = stream[i]
      /\ tvalid => stream'[Len(stream')] = [beat |-> tdata, last |-> tlast]
  BY StreamGrows
<1>2. CASE tlast
  <2>1. Len(stream') = g /\ stream'[g].last
    BY <1>1, <1>2 DEF OnBus
  <2>2. QED
    BY <1>1, <2>1 DEF OpensAt
<1>3. CASE tvalid /\ ~tlast
  <2>1. Len(stream') = Len(stream) + 1 /\ ~stream'[Len(stream) + 1].last
    BY <1>1, <1>3 DEF OnBus
  <2>2. \A i \in 1..Len(stream') : i \in 1..Len(stream) \/ i = Len(stream) + 1
    BY <1>1, <2>1
  <2>3. QED
    BY <1>1, <1>3, <2>1, <2>2 DEF OpensAt
<1>4. CASE ~tvalid
  BY <1>4 DEF Edge, Transfer, OpensAt
<1>5. QED
  BY <1>2, <1>3, <1>4

LEMMA PacketInvTick ==
  ASSUME TypeOK, ReadInv, FrameInv, PacketInv, Tick
  PROVE  PacketInv'
<1>1. PICK f \in Nat :
        /\ OpensAt(f)
        /\ IF tlast
             THEN nPackets = 0 /\ (\A m : Bound(m) => Len(stream) <= f + 3 * m + 2)
             ELSE Len(stream) + OnBus = f + 3 * nPackets + phase
        /\ \A m : Bound(m) => nPackets <= m /\ (nPackets > 0 => nPackets < m)
  BY DEF PacketInv
<1>2. /\ Len(stream) \in Nat /\ Len(stream') \in Nat /\ nPackets \in Nat /\ phase \in 0..2
      /\ Len(stream') = Len(stream) + OnBus
  BY StreamGrows DEF Tick, Clock, TypeOK, OnBus
<1>3. tlast => tvalid /\ phase = 0
  <2> SUFFICES ASSUME tlast PROVE tvalid /\ phase = 0
    OBVIOUS
  <2>1. tvalid /\ Len(stream) % 3 = 2
    BY DEF FrameInv, Framing
  <2>2. phase = (Len(stream) + 1) % 3
    BY <2>1 DEF FrameInv, OnBus
  <2>3. QED
    BY <1>2, <2>1, <2>2
<1>4. PICK g \in Nat : g = IF tlast THEN Len(stream) + 1 ELSE f
  BY <1>2
<1>5. OpensAt(g)'
  BY <1>1, <1>3, <1>4, PacketOpens DEF Tick, Clock
<1>6. Len(stream') = g + 3 * nPackets + phase
  <2>1. CASE tlast
    BY <1>1, <1>2, <1>3, <1>4, <2>1 DEF OnBus
  <2>2. CASE ~tlast
    <3>1. Len(stream') = f + 3 * nPackets + phase /\ g = f
      BY <1>1, <1>2, <1>4, <2>2
    <3>2. QED
      BY <3>1
  <2>3. QED
    BY <2>1, <2>2
<1>7. CASE StartRead \/ StayIdle \/ Stall \/ Finish
  <2>1. tvalid' = FALSE /\ tlast' = FALSE /\ nPackets' = nPackets /\ phase' = phase
    BY <1>7 DEF StartRead, StayIdle, Stall, Finish, NoBeat, ReadInv
  <2>2. (Len(stream) + OnBus)' = g + 3 * nPackets' + phase'
    BY <1>2, <1>6, <2>1 DEF OnBus
  <2>3. QED
    BY <1>1, <1>5, <2>1, <2>2 DEF PacketInv, Bound
<1>8. CASE SendPart
  <2>1. tvalid' = TRUE /\ tlast' = FALSE /\ nPackets' = nPackets /\ phase' = phase + 1
    BY <1>8 DEF SendPart, Offer
  <2>2. (Len(stream) + OnBus)' = g + 3 * nPackets' + phase'
    BY <1>2, <1>6, <2>1 DEF OnBus
  <2>3. QED
    BY <1>1, <1>5, <2>1, <2>2 DEF PacketInv, Bound
<1>9. CASE SendLastPart
  <2>1. /\ tvalid' = TRUE /\ tlast' = Full /\ phase = 2 /\ phase' = 0
        /\ nPackets' = IF Full THEN 0 ELSE nPackets + 1
    BY <1>9 DEF SendLastPart, Offer
  <2>2. CASE Full
    <3>1. \A m : Bound(m) => Len(stream') <= g + 3 * m + 2
      BY <1>1, <1>2, <1>6, <2>1, BoundType
    <3>2. \A m : Bound(m) => nPackets' <= m /\ ~(nPackets' > 0)
      BY <2>1, <2>2, BoundType
    <3>3. QED
      BY <1>5, <2>1, <2>2, <3>1, <3>2 DEF PacketInv, Bound
  <2>3. CASE ~Full
    <3>1. (Len(stream) + OnBus)' = g + 3 * nPackets' + phase'
      BY <1>2, <1>6, <2>1, <2>3 DEF OnBus
    <3>2. \A m : Bound(m) => nPackets' <= m /\ nPackets' < m
      BY <1>2, <2>1, <2>3, BoundType DEF Full, Bound, TypeOK
    <3>3. QED
      BY <1>5, <2>1, <2>3, <3>1, <3>2 DEF PacketInv, Bound
  <2>4. QED
    BY <2>2, <2>3
<1>10. QED
  BY <1>7, <1>8, <1>9 DEF Tick, Clock, WriteFsm

LEMMA PacketInvBounds ==
  ASSUME TypeOK, PacketInv
  PROVE  PacketBound
<1> SUFFICES ASSUME NEW m, Bound(m)
             PROVE  OpenRecords <= m
  BY DEF PacketBound, Bound
<1>1. PICK f \in Nat :
        /\ OpensAt(f)
        /\ IF tlast THEN Len(stream) <= f + 3 * m + 2
                    ELSE Len(stream) + OnBus = f + 3 * nPackets + phase
        /\ nPackets <= m
  BY DEF PacketInv
<1>2. Len(stream) \in Nat /\ nPackets \in Nat /\ phase \in 0..2 /\ m \in Nat
  BY BoundType DEF TypeOK
<1>3. OpenRecords = (Len(stream) - f) \div 3
  BY <1>1, <1>2, OpenRecordsAt
<1>4. Len(stream) - f <= 3 * m + 2
  BY <1>1, <1>2 DEF OnBus
<1>5. QED
  BY <1>2, <1>3, <1>4

(* However the length register is rewritten while a packet is open, no      *)
(* packet outgrows the largest length written, for every set of lengths.    *)
THEOREM PacketBoundHolds == Spec => []PacketBound
<1>1. Init => PacketInv
  <2> SUFFICES ASSUME Init PROVE PacketInv
    OBVIOUS
  <2>1. OpensAt(0)
    BY DEF Init, OpensAt
  <2>2. \A m : Bound(m) => 0 <= m
    BY BoundType
  <2>3. QED
    BY <2>1, <2>2 DEF Init, PacketInv, OnBus
<1>2. TypeOK /\ ReadInv /\ FrameInv /\ PacketInv /\ [Next]_vars => PacketInv'
  BY PacketInvTick DEF Next, HitArrives, SetPacketLength, vars, fsmVars,
     PacketInv, OpensAt, OnBus, Bound
<1>3. TypeOK /\ PacketInv => PacketBound
  BY PacketInvBounds
<1>4. QED
  BY <1>1, <1>2, <1>3, ReadInvHolds, FrameInvHolds, PTL DEF Spec

-----------------------------------------------------------------------------
(* With hits spaced wider than a record, a word in hand has left the FIFO   *)
(* empty, so that the FIFO's output shows the word in hand throughout.      *)
SparseInv ==
  /\ Len(fifo) <= 1
  /\ state = "WRITE_DATA_S" /\ newWord => fifo = <<>>

LEMMA SparseInvTick ==
  ASSUME TypeOK, ReadInv, SparseInv, Tick
  PROVE  SparseInv'
<1>1. FifoRead
  BY DEF Tick, Clock, Edge
<1>2. Len(fifo') <= Len(fifo) /\ (fifo = <<>> => fifo' = <<>>)
  BY <1>1 DEF FifoRead, FifoValid, TypeOK
<1>3. ren => fifo' = <<>>
  BY <1>1 DEF FifoRead, FifoValid, TypeOK, SparseInv, ReadInv, ReadsMatchRecords
<1>4. CASE StartRead
  BY <1>2, <1>4 DEF StartRead, SparseInv, TypeOK
<1>5. CASE StayIdle \/ Finish
  BY <1>2, <1>5 DEF StayIdle, Finish, SparseInv, TypeOK
<1>6. CASE Stall \/ SendPart
  <2>1. state = "WRITE_DATA_S"
    BY <1>6 DEF Stall, SendPart, Offer
  <2>2. QED
    BY <1>2, <1>3, <2>1 DEF SparseInv, ReadInv, TypeOK
<1>7. CASE SendLastPart
  <2>1. newWord /\ fifo = <<>>
    BY <1>7 DEF SendLastPart, Offer, ReadInv, SparseInv
  <2>2. QED
    BY <1>2, <1>7, <2>1 DEF SendLastPart, SparseInv, TypeOK, FifoEmpty
<1>8. QED
  BY <1>4, <1>5, <1>6, <1>7 DEF Tick, Clock, WriteFsm

LEMMA SparseInvStep ==
  ASSUME Sparse, TypeOK, ReadInv, SparseInv, [Next]_vars
  PROVE  SparseInv'
<1>1. CASE HitArrives
  BY <1>1 DEF HitArrives, fsmVars, SparseInv, TypeOK
<1>2. CASE SetPacketLength \/ UNCHANGED vars
  BY <1>2 DEF SetPacketLength, vars, fsmVars, SparseInv
<1>3. QED
  BY <1>1, <1>2, SparseInvTick DEF Next

(* The word on the FIFO's output while a record is sent is the record's. *)
LEMMA DoutIsRecord ==
  ASSUME TypeOK, ReadInv, FifoInv, SparseInv, state = "WRITE_DATA_S", CanSend
  PROVE  FifoDout = records + 1
<1>1. CASE newWord
  BY <1>1, DoutIsOldest DEF SparseInv, FifoValid, ReadInv, ReadsMatchRecords, InHand, TypeOK
<1>2. CASE ~newWord
  <2>1. FifoValid
    BY <1>2 DEF CanSend, HaveWord
  <2>2. popped = records
    BY <1>2 DEF ReadInv, ReadsMatchRecords, InHand, TypeOK
  <2>3. QED
    BY <2>1, <2>2, DoutIsOldest
<1>3. QED
  BY <1>1, <1>2

-----------------------------------------------------------------------------
(* Software writes one packet length and leaves it. *)
OneLength == \A l, m \in Lengths : l = m
Length == CHOOSE l \in Lengths : TRUE

LEMMA LengthIs ==
  ASSUME OneLength, TypeOK PROVE packetLength = Length /\ Length \in Nat
BY DEF OneLength, Length, TypeOK

(* Where the packet counter stands: at the records since the last multiple  *)
(* of the length.                                                           *)
CycleInv ==
  IF Length = 0 THEN nPackets = 0
  ELSE nPackets < Length /\ \E q \in Nat : records = Length * q + nPackets

LEMMA Remainder ==
  ASSUME NEW m \in Nat \ {0}, NEW q \in Nat, NEW r \in 0..m - 1
  PROVE  (m * q + r) % m = r
BY SMTT(30)

LEMMA CycleInvTick ==
  ASSUME OneLength, TypeOK, CycleInv, Tick
  PROVE  CycleInv'
<1>1. packetLength = Length /\ Length \in Nat /\ nPackets \in Nat /\ records \in Nat
  BY LengthIs DEF TypeOK
<1> Length' = Length
  BY DEF Length
<1>2. CASE SendLastPart
  <2>1. /\ records' = records + 1
        /\ nPackets' = IF nPackets + 1 >= Length THEN 0 ELSE nPackets + 1
    BY <1>1, <1>2 DEF SendLastPart, Full
  <2>2. CASE Length = 0
    BY <1>1, <2>1, <2>2 DEF CycleInv
  <2>3. CASE Length # 0
    <3>1. PICK q \in Nat : records = Length * q + nPackets
      BY <2>3 DEF CycleInv
    <3>2. CASE nPackets + 1 >= Length
      <4>1. records' = Length * (q + 1) + nPackets'
        BY <1>1, <2>1, <2>3, <3>1, <3>2 DEF CycleInv
      <4>2. QED
        <5>1. nPackets' = 0 /\ q + 1 \in Nat
          BY <2>1, <3>2
        <5>2. QED
          BY <1>1, <2>3, <4>1, <5>1 DEF CycleInv
    <3>3. CASE nPackets + 1 < Length
      <4>1. records' = Length * q + nPackets' /\ nPackets' < Length
        BY <1>1, <2>1, <3>1, <3>3
      <4>2. QED
        BY <2>3, <4>1 DEF CycleInv
    <3>4. QED
      BY <1>1, <3>2, <3>3
  <2>4. QED
    BY <2>2, <2>3
<1>3. CASE ~SendLastPart
  <2>1. records' = records /\ nPackets' = nPackets
    BY <1>3 DEF Tick, Clock, WriteFsm, StartRead, StayIdle, Stall, SendPart, Finish, NoBeat
  <2>2. QED
    BY <2>1 DEF CycleInv
<1>4. QED
  BY <1>2, <1>3

(* The packet is full exactly when the record being sent closes it. *)
LEMMA FullCloses ==
  ASSUME OneLength, TypeOK, CycleInv
  PROVE  Full <=> Promise!Closes(records + 1)
<1>1. packetLength = Length /\ Length \in Nat /\ nPackets \in Nat /\ records \in Nat
  BY LengthIs DEF TypeOK
<1>2. Promise!Closes(records + 1) <=> Length = 0 \/ (records + 1) % Length = 0
  BY DEF Promise!Closes, Length
<1>3. CASE Length = 0
  BY <1>1, <1>2, <1>3 DEF Full
<1>4. CASE Length # 0
  <2>1. PICK q \in Nat : records = Length * q + nPackets
    BY <1>4 DEF CycleInv
  <2>2. nPackets < Length
    BY <1>4 DEF CycleInv
  <2>3. CASE Full
    <3>1. records + 1 = Length * (q + 1) + 0
      BY <1>1, <2>1, <2>2, <2>3 DEF Full
    <3>2. (records + 1) % Length = 0
      <4>1. q + 1 \in Nat /\ 0 \in 0..Length - 1 /\ Length \in Nat \ {0}
        BY <1>1, <1>4
      <4>2. (Length * (q + 1) + 0) % Length = 0
        BY <4>1, Remainder
      <4>3. QED
        BY <3>1, <4>2
    <3>3. QED
      BY <1>2, <2>3, <3>2
  <2>4. CASE ~Full
    <3>1. records + 1 = Length * q + (nPackets + 1) /\ nPackets + 1 \in 0..Length - 1
      BY <1>1, <2>1, <2>2, <2>4 DEF Full
    <3>2. (records + 1) % Length = nPackets + 1
      BY <1>1, <1>4, <3>1, Remainder
    <3>3. QED
      BY <1>1, <1>2, <1>4, <2>4, <3>2
  <2>5. QED
    BY <2>3, <2>4
<1>5. QED
  BY <1>3, <1>4

-----------------------------------------------------------------------------
(* The beats so far, the one on the bus included, carry their records'      *)
(* hits and close the packets where they should.                            *)
BeatInv ==
  /\ \A i \in 1..Len(stream) :
       /\ stream[i].beat.hit = 1 + ((i - 1) \div 3)
       /\ i % 3 = 0 => (stream[i].last <=> Promise!Closes(i \div 3))
  /\ tvalid =>
       /\ tdata.hit = 1 + (Len(stream) \div 3)
       /\ phase = 0 => (tlast <=> Promise!Closes(records))

LEMMA BeatStream ==
  ASSUME TypeOK, CountInv, BeatInv, Edge
  PROVE  \A i \in 1..Len(stream') :
           /\ stream'[i].beat.hit = 1 + ((i - 1) \div 3)
           /\ i % 3 = 0 => (stream'[i].last <=> Promise!Closes(i \div 3))
<1>1. CASE tvalid
  <2>1. /\ Len(stream) \in Nat /\ Len(stream') = Len(stream) + 1
        /\ \A i \in 1..Len(stream) : stream'[i] = stream[i]
        /\ stream'[Len(stream) + 1].beat = tdata
        /\ stream'[Len(stream) + 1].last = tlast
    BY <1>1, StreamGrows DEF OnBus
  <2>2. TAKE i \in 1..Len(stream')
  <2>3. CASE i \in 1..Len(stream)
    BY <2>1, <2>3 DEF BeatInv
  <2>4. CASE i = Len(stream) + 1
    <3>1. stream'[i].beat.hit = 1 + ((i - 1) \div 3)
      BY <1>1, <2>1, <2>4 DEF BeatInv
    <3>2. ASSUME i % 3 = 0 PROVE phase = 0 /\ i \div 3 = records
      <4>1. i = 3 * records + phase /\ records \in Nat /\ phase \in 0..2
        BY <1>1, <2>4 DEF CountInv, OnBus, TypeOK
      <4>2. i % 3 = phase /\ i \div 3 = records
        BY <4>1
      <4>3. QED
        BY <3>2, <4>2
    <3>3. QED
      BY <1>1, <2>1, <2>4, <3>1, <3>2 DEF BeatInv
  <2>5. QED
    BY <2>1, <2>3, <2>4
<1>2. CASE ~tvalid
  <2>1. stream' = stream
    BY <1>2 DEF Edge, Transfer
  <2>2. QED
    BY <2>1 DEF BeatInv
<1>3. QED
  BY <1>1, <1>2

LEMMA BeatInvTick ==
  ASSUME OneLength, TypeOK, ReadInv, FifoInv, SparseInv, CountInv, CycleInv, BeatInv, Tick
  PROVE  BeatInv'
<1> DEFINE Sent == \A i \in 1..Len(stream) :
       /\ stream[i].beat.hit = 1 + ((i - 1) \div 3)
       /\ i % 3 = 0 => (stream[i].last <=> Promise!Closes(i \div 3))
<1>1. Sent'
  <2>1. Edge
    BY DEF Tick, Clock
  <2>2. QED
    BY <2>1, BeatStream DEF Promise!Closes
<1>2. /\ Len(stream) \in Nat /\ records \in Nat /\ phase \in 0..2
      /\ Len(stream') = 3 * records + phase
  BY StreamGrows DEF Tick, Clock, TypeOK, CountInv
<1>3. Len(stream') \div 3 = records
  BY <1>2
<1> HIDE DEF Sent
<1>4. CASE StartRead \/ StayIdle \/ Stall \/ Finish
  <2>1. tvalid' = FALSE
    BY <1>4 DEF StartRead, StayIdle, Stall, Finish, NoBeat
  <2>2. QED
    BY <1>1, <2>1 DEF BeatInv, Sent
<1>5. CASE SendPart
  <2>1. tdata'.hit = records + 1
    BY <1>5, DoutIsRecord DEF SendPart, Offer, WordSent
  <2>2. phase' # 0
    BY <1>2, <1>5 DEF SendPart
  <2>3. QED
    BY <1>1, <1>2, <1>3, <2>1, <2>2 DEF BeatInv, Sent
<1>6. CASE SendLastPart
  <2>1. tdata'.hit = records + 1
    BY <1>6, DoutIsRecord DEF SendLastPart, Offer, WordSent
  <2>2. tlast' = Full /\ records' = records + 1
    BY <1>6 DEF SendLastPart
  <2>3. tlast' <=> Promise!Closes(records')
    BY <2>2, FullCloses
  <2>4. (tlast <=> Promise!Closes(records))'
    BY <2>3 DEF Promise!Closes
  <2>5. QED
    BY <1>1, <1>2, <1>3, <2>1, <2>4 DEF BeatInv, Sent
<1>7. QED
  BY <1>4, <1>5, <1>6 DEF Tick, Clock, WriteFsm

LEMMA BeatInvStep ==
  ASSUME OneLength, TypeOK, ReadInv, FifoInv, SparseInv, CountInv, CycleInv, BeatInv,
         [Next]_vars
  PROVE  CycleInv' /\ BeatInv'
<1>1. CASE Tick
  BY <1>1, CycleInvTick, BeatInvTick
<1>2. CASE ~Tick
  <2>1. UNCHANGED <<stream, tvalid, tlast, tdata, phase, nPackets, records>>
    BY <1>2 DEF Next, HitArrives, SetPacketLength, vars, fsmVars
  <2>2. QED
    BY <2>1 DEF CycleInv, Length, BeatInv, Promise!Closes
<1>3. QED
  BY <1>1, <1>2

DeliverInv == SparseInv /\ CycleInv /\ BeatInv

LEMMA DeliverInvHolds ==
  ASSUME Sparse, OneLength
  PROVE  Spec => [](TypeOK /\ FifoInv /\ CountInv /\ ReadInv /\ DeliverInv)
<1>1. Init => DeliverInv
  <2> SUFFICES ASSUME Init PROVE DeliverInv
    OBVIOUS
  <2>1. SparseInv /\ BeatInv
    BY DEF Init, SparseInv, BeatInv
  <2>2. Length \in Nat
    BY DEF Length
  <2>3. CycleInv
    <3>1. 0 = Length * 0 + 0
      BY <2>2
    <3>2. nPackets = 0 /\ records = 0
      BY DEF Init
    <3>3. QED
      BY <2>2, <3>1, <3>2 DEF CycleInv
  <2>4. QED
    BY <2>1, <2>3 DEF DeliverInv
<1>2. TypeOK /\ ReadInv /\ FifoInv /\ CountInv /\ DeliverInv /\ [Next]_vars => DeliverInv'
  BY SparseInvStep, BeatInvStep DEF DeliverInv
<1>3. QED
  BY <1>1, <1>2, CountInvHolds, PTL DEF Spec

-----------------------------------------------------------------------------
(* The hits waiting and the records delivered are sequences. *)
LEMMA WaitingIs ==
  ASSUME hits \in Nat, RecordsOffered \in Nat, RecordsOffered <= hits
  PROVE  /\ Waiting \in Seq(Nat) /\ Len(Waiting) = hits - RecordsOffered
         /\ \A n \in 1..hits - RecordsOffered : Waiting[n] = RecordsOffered + n
<1>1. hits - RecordsOffered \in Nat
  OBVIOUS
<1>2. Waiting \in [1..hits - RecordsOffered -> Nat]
  BY DEF Waiting
<1>3. Waiting \in Seq(Nat)
  BY <1>1, <1>2, SeqDef
<1>4. Len(Waiting) = hits - RecordsOffered
  BY <1>1, <1>2, <1>3, LenProperties
<1>5. QED
  BY <1>3, <1>4 DEF Waiting

Sent == [low: Nat, mid: Nat, high: Nat, last: BOOLEAN]

LEMMA OfferedIs ==
  ASSUME TypeOK
  PROVE  /\ RecordsOffered \in Nat
         /\ 3 * RecordsOffered <= Len(stream) /\ Len(stream) <= 3 * RecordsOffered + 2
<1>1. Len(stream) \in Nat
  BY DEF TypeOK
<1>2. QED
  BY <1>1 DEF RecordsOffered

LEMMA DeliveredIs ==
  TypeOK => Delivered \in Seq(Sent) /\ Len(Delivered) = RecordsOffered
<1> SUFFICES ASSUME TypeOK
             PROVE  Delivered \in Seq(Sent) /\ Len(Delivered) = RecordsOffered
  OBVIOUS
<1>1. RecordsOffered \in Nat /\ 3 * RecordsOffered <= Len(stream) /\ Len(stream) \in Nat
  BY OfferedIs DEF TypeOK
<1>2. \A i \in 1..Len(stream) : stream[i].beat.hit \in Nat /\ stream[i].last \in BOOLEAN
  <2>1. TAKE i \in 1..Len(stream)
  <2>2. stream[i] \in [beat: Beat, last: BOOLEAN]
    BY ElementOfSeq DEF TypeOK
  <2>3. QED
    BY <2>2 DEF Beat, Hit
<1>3. \A n \in 1..RecordsOffered :
        3 * n - 2 \in 1..Len(stream) /\ 3 * n - 1 \in 1..Len(stream) /\ 3 * n \in 1..Len(stream)
  BY <1>1
<1>4. Delivered \in [1..RecordsOffered -> Sent]
  BY <1>2, <1>3 DEF Delivered, Sent
<1>5. Delivered \in Seq(Sent)
  BY <1>1, <1>4, SeqDef
<1>6. QED
  BY <1>1, <1>4, <1>5, LenProperties

(* No record is delivered before its hit came. *)
LEMMA OfferedArrived ==
  ASSUME TypeOK, ReadInv, FifoInv, CountInv
  PROVE  hits \in Nat /\ RecordsOffered <= records /\ records <= hits
<1>1. /\ Len(stream) \in Nat /\ records \in Nat /\ phase \in 0..2 /\ popped \in Nat
      /\ Len(fifo) \in Nat /\ hits \in Nat
  BY DEF TypeOK, Hit
<1>2. records <= popped /\ popped <= hits
  BY <1>1 DEF FifoInv, ReadInv, ReadsMatchRecords, InHand
<1>3. Len(stream) <= 3 * records + 2
  BY <1>1 DEF CountInv, OnBus
<1>4. RecordsOffered <= records
  BY <1>1, <1>3, OfferedIs
<1>5. QED
  BY <1>1, <1>2, <1>4

(* A beat that does not complete a record, or no beat, delivers nothing. *)
LEMMA PartDeliversNothing ==
  ASSUME TypeOK, TypeOK', Edge, RecordsOffered' = RecordsOffered
  PROVE  Waiting' = Waiting /\ Delivered' = Delivered
<1>1. RecordsOffered \in Nat /\ 3 * RecordsOffered <= Len(stream) /\ Len(stream) \in Nat
  BY OfferedIs DEF TypeOK
<1>2. \A i \in 1..Len(stream) : stream'[i] = stream[i]
  BY StreamGrows
<1>3. \A n \in 1..RecordsOffered :
        3 * n - 2 \in 1..Len(stream) /\ 3 * n - 1 \in 1..Len(stream) /\ 3 * n \in 1..Len(stream)
  BY <1>1
<1>4. Delivered' = Delivered
  BY <1>2, <1>3 DEF Delivered
<1>5. QED
  BY <1>4 DEF Waiting, Edge

(* The third beat of a record delivers the oldest waiting hit. *)
LEMMA ThirdBeatDelivers ==
  ASSUME TypeOK, TypeOK', ReadInv, FifoInv, CountInv, DeliverInv, DeliverInv', Edge,
         RecordsOffered' # RecordsOffered
  PROVE  Promise!Deliver
<1> DEFINE R == RecordsOffered
<1>1. /\ R \in Nat /\ 3 * R <= Len(stream) /\ Len(stream) <= 3 * R + 2
      /\ Len(stream) \in Nat
  BY OfferedIs DEF TypeOK
<1>2. /\ Len(stream') = Len(stream) + OnBus
      /\ \A i \in 1..Len(stream) : stream'[i] = stream[i]
  BY StreamGrows
<1>3. Len(stream') = 3 * R + 3 /\ RecordsOffered' = R + 1 /\ OnBus = 1
  <2>1. RecordsOffered' = Len(stream') \div 3 /\ R = Len(stream) \div 3
    BY DEF RecordsOffered
  <2>2. OnBus = 1
    <3>1. CASE ~tvalid
      <4>1. Len(stream') = Len(stream)
        BY <1>1, <1>2, <3>1 DEF OnBus
      <4>2. QED
        BY <2>1, <4>1
    <3>2. QED
      BY <3>1 DEF OnBus
  <2>3. Len(stream') = 3 * R + 3
    BY <1>1, <1>2, <2>1, <2>2
  <2>4. QED
    BY <1>1, <2>1, <2>2, <2>3
<1>4. records = R + 1
  <2>1. 3 * R + 3 = 3 * records + phase /\ records \in Nat /\ phase \in 0..2
    BY <1>2, <1>3 DEF CountInv, TypeOK
  <2>2. QED
    BY <1>1, <2>1
<1>5. hits \in Nat /\ R < hits /\ hits' = hits
  BY <1>1, <1>4, OfferedArrived DEF Edge
<1>6. Waiting' = Tail(Waiting) /\ Waiting # <<>> /\ Head(Waiting) = R + 1
  <2>1. /\ Waiting \in Seq(Nat) /\ Len(Waiting) = hits - R
        /\ \A n \in 1..hits - R : Waiting[n] = R + n
    BY <1>1, <1>5, WaitingIs
  <2>2. Waiting # <<>> /\ Head(Waiting) = R + 1
    BY <1>1, <1>5, <2>1
  <2>3. /\ Tail(Waiting) \in Seq(Nat) /\ Len(Tail(Waiting)) = hits - R - 1
        /\ \A n \in 1..hits - R - 1 : Tail(Waiting)[n] = Waiting[n + 1]
    BY <2>1, <2>2, HeadTailProperties
  <2>4. /\ Waiting' \in Seq(Nat) /\ Len(Waiting') = hits - R - 1
        /\ \A n \in 1..hits - R - 1 : Waiting'[n] = R + 1 + n
    <3>1. Waiting' = [n \in 1..hits - R - 1 |-> R + 1 + n]
      BY <1>1, <1>3, <1>5 DEF Waiting
    <3>2. hits - R - 1 \in Nat /\ Waiting' \in [1..hits - R - 1 -> Nat]
      BY <1>1, <1>5, <3>1
    <3>3. Waiting' \in Seq(Nat)
      BY <3>2, SeqDef
    <3>4. QED
      BY <3>1, <3>2, <3>3, LenProperties
  <2>5. \A n \in 1..hits - R - 1 : Waiting'[n] = Tail(Waiting)[n]
    BY <1>1, <1>5, <2>1, <2>3, <2>4
  <2>6. Waiting' = Tail(Waiting)
    BY <2>3, <2>4, <2>5, SeqEqual
  <2>7. QED
    BY <2>2, <2>6
<1> DEFINE rec == [low |-> R + 1, mid |-> R + 1, high |-> R + 1, last |-> Promise!Closes(R + 1)]
<1>7. Delivered' = Append(Delivered, rec)
  <2>1. /\ Delivered \in Seq(Sent) /\ Len(Delivered) = R
        /\ Delivered' \in Seq(Sent) /\ Len(Delivered') = R + 1
    <3>1. Delivered \in Seq(Sent) /\ Len(Delivered) = R
      BY DeliveredIs
    <3>2. (Delivered \in Seq(Sent) /\ Len(Delivered) = RecordsOffered)'
      BY DeliveredIs, PTL
    <3>3. QED
      BY <1>3, <3>1, <3>2 DEF Sent
  <2>2. rec \in Sent
    BY <1>1 DEF Sent, Promise!Closes
  <2>3. /\ Append(Delivered, rec) \in Seq(Sent) /\ Len(Append(Delivered, rec)) = R + 1
        /\ \A n \in 1..R : Append(Delivered, rec)[n] = Delivered[n]
        /\ Append(Delivered, rec)[R + 1] = rec
    BY <2>1, <2>2, AppendProperties
  <2>4. ASSUME NEW n \in 1..R PROVE Delivered'[n] = Delivered[n]
    <3>1. /\ 3 * n - 2 \in 1..Len(stream) /\ 3 * n - 1 \in 1..Len(stream)
          /\ 3 * n \in 1..Len(stream) /\ n \in 1..RecordsOffered'
      BY <1>1, <1>3
    <3>2. QED
      BY <1>2, <3>1 DEF Delivered
  <2>5. Delivered'[R + 1] = rec
    <3>1. R + 1 \in 1..RecordsOffered'
      BY <1>1, <1>3
    <3>2. /\ 3 * (R + 1) - 2 = 3 * R + 1 /\ 3 * (R + 1) - 1 = 3 * R + 2
          /\ 3 * (R + 1) = 3 * R + 3
      BY <1>1
    <3>3. Delivered'[R + 1] = [low  |-> stream'[3 * R + 1].beat.hit,
                               mid  |-> stream'[3 * R + 2].beat.hit,
                               high |-> stream'[3 * R + 3].beat.hit,
                               last |-> stream'[3 * R + 3].last]
      BY <3>1, <3>2 DEF Delivered
    <3>4. /\ 3 * R + 1 \in 1..Len(stream') /\ 3 * R + 2 \in 1..Len(stream')
          /\ 3 * R + 3 \in 1..Len(stream')
      BY <1>1, <1>3
    <3>5. /\ (3 * R + 1 - 1) \div 3 = R /\ (3 * R + 2 - 1) \div 3 = R
          /\ (3 * R + 3 - 1) \div 3 = R /\ (3 * R + 3) \div 3 = R + 1
          /\ (3 * R + 3) % 3 = 0
      BY <1>1
    <3>6. /\ \A i \in 1..Len(stream') : stream'[i].beat.hit = 1 + ((i - 1) \div 3)
          /\ \A i \in 1..Len(stream') :
               i % 3 = 0 => (stream'[i].last <=> Promise!Closes(i \div 3))
      BY DEF DeliverInv, BeatInv, Promise!Closes
    <3>7. stream'[3 * R + 3].last <=> Promise!Closes(R + 1)
      BY <3>4, <3>5, <3>6
    <3>8. stream'[3 * R + 3].last \in BOOLEAN /\ Promise!Closes(R + 1) \in BOOLEAN
      <4>1. stream'[3 * R + 3] \in [beat: Beat, last: BOOLEAN]
        BY <3>4, ElementOfSeq DEF TypeOK, Beat, Hit
      <4>2. QED
        BY <4>1 DEF Promise!Closes
    <3>9. /\ stream'[3 * R + 1].beat.hit = R + 1 /\ stream'[3 * R + 2].beat.hit = R + 1
          /\ stream'[3 * R + 3].beat.hit = R + 1
      <4> DEFINE Carries(i) == stream'[i].beat.hit = 1 + ((i - 1) \div 3)
      <4>1. \A i \in 1..Len(stream') : Carries(i)
        BY <3>6
      <4> HIDE DEF Carries
      <4>2. Carries(3 * R + 1) /\ Carries(3 * R + 2) /\ Carries(3 * R + 3)
        BY <3>4, <4>1
      <4> USE DEF Carries
      <4>3. /\ stream'[3 * R + 1].beat.hit = 1 + R /\ stream'[3 * R + 2].beat.hit = 1 + R
            /\ stream'[3 * R + 3].beat.hit = 1 + R
        BY <1>1, <3>5, <4>2
      <4>4. QED
        BY <1>1, <4>3
    <3>10. QED
      BY <3>3, <3>7, <3>8, <3>9
  <2>6. \A n \in 1..R + 1 : Delivered'[n] = Append(Delivered, rec)[n]
    BY <1>1, <2>3, <2>4, <2>5
  <2>7. QED
    BY <2>1, <2>3, <2>6, SeqEqual
<1>8. Len(Delivered) = R
  BY DeliveredIs
<1>9. QED
  BY <1>6, <1>7, <1>8 DEF Promise!Deliver, Promise!Record

LEMMA DeliveryInit == Init => Promise!Init
<1> SUFFICES ASSUME Init PROVE Waiting = <<>> /\ Delivered = <<>>
  BY DEF Promise!Init
<1>1. stream = <<>> /\ hits = 0 /\ RecordsOffered = 0
  BY DEF Init, RecordsOffered
<1>2. QED
  BY <1>1 DEF Waiting, Delivered

LEMMA DeliveryStep ==
  ASSUME TypeOK, TypeOK', ReadInv, FifoInv, CountInv, DeliverInv, DeliverInv', [Next]_vars
  PROVE  [Promise!Next]_<<Waiting, Delivered>>
<1>1. CASE Tick
  BY <1>1, PartDeliversNothing, ThirdBeatDelivers DEF Tick, Clock, Promise!Next
<1>2. CASE HitArrives
  <2> DEFINE R == RecordsOffered
  <2>1. /\ stream' = stream /\ RecordsOffered' = R /\ Delivered' = Delivered
        /\ hits' = hits + 1 /\ hits < MaxHits
    BY <1>2 DEF HitArrives, RecordsOffered, Delivered
  <2>2. R \in Nat /\ hits \in Nat /\ R <= hits
    BY OfferedIs, OfferedArrived DEF TypeOK
  <2>3. /\ Waiting \in Seq(Nat) /\ Len(Waiting) = hits - R
        /\ \A n \in 1..hits - R : Waiting[n] = R + n
    BY <2>2, WaitingIs
  <2>4. /\ Waiting' \in Seq(Nat) /\ Len(Waiting') = hits + 1 - R
        /\ \A n \in 1..hits + 1 - R : Waiting'[n] = R + n
    <3>1. Waiting' = [n \in 1..hits + 1 - R |-> R + n]
      BY <2>1, <2>2 DEF Waiting
    <3>2. hits + 1 - R \in Nat /\ Waiting' \in [1..hits + 1 - R -> Nat]
      BY <2>2, <3>1
    <3>3. Waiting' \in Seq(Nat)
      BY <3>2, SeqDef
    <3>4. QED
      BY <3>1, <3>2, <3>3, LenProperties
  <2>5. /\ Append(Waiting, hits + 1) \in Seq(Nat)
        /\ Len(Append(Waiting, hits + 1)) = hits - R + 1
        /\ \A n \in 1..hits - R : Append(Waiting, hits + 1)[n] = Waiting[n]
        /\ Append(Waiting, hits + 1)[hits - R + 1] = hits + 1
    BY <2>2, <2>3, AppendProperties
  <2>6. \A n \in 1..hits + 1 - R : Waiting'[n] = Append(Waiting, hits + 1)[n]
    BY <2>2, <2>3, <2>4, <2>5
  <2>7. Waiting' = Append(Waiting, hits + 1)
    BY <2>2, <2>4, <2>5, <2>6, SeqEqual
  <2>8. Len(Waiting) + Len(Delivered) = hits
    BY <2>2, <2>3, DeliveredIs
  <2>9. Promise!Arrive
    BY <2>1, <2>7, <2>8 DEF Promise!Arrive
  <2>10. QED
    BY <2>9 DEF Promise!Next
<1>3. CASE SetPacketLength \/ UNCHANGED vars
  BY <1>3 DEF SetPacketLength, vars, fsmVars, Waiting, Delivered, RecordsOffered
<1>4. QED
  BY <1>1, <1>2, <1>3 DEF Next

(* With hits spaced wider than a record and one packet length, the          *)
(* controller puts every hit on the stream once, whole and in order, and    *)
(* closes a packet at every Length-th record, wherever the consumer stalls  *)
(* it: it implements the promised delivery, step by step.                   *)
THEOREM DeliversWholeHits ==
  ASSUME Sparse, OneLength PROVE Spec => Promise!Safety
<1>1. QED
  BY DeliverInvHolds, TypeCorrect, DeliveryInit, DeliveryStep, PTL
     DEF Spec, Promise!Safety, Promise!vars
=============================================================================
