--------------------------- MODULE ReadoutProofs ---------------------------
(***************************************************************************)
(* Proofs about hit capture, for every set of ports, counter width and      *)
(* sequence of pulses and settings, and about the hit path behind it, for   *)
(* every FIFO depth, delay of the FIFO and spacing of hits that fits it.    *)
(***************************************************************************)
EXTENDS Readout, TLAPS

USE PeriodAssumption, StartsAssumption

-----------------------------------------------------------------------------
(* The state of the capture keeps its types (HitCapture.tla). *)
THEOREM TypeCorrect == CaptureSpec => []CaptureTypeOK
<1>1. CaptureInit => CaptureTypeOK
  <2> SUFFICES ASSUME CaptureInit PROVE CaptureTypeOK
    OBVIOUS
  <2>1. PICK s \in Starts :
          /\ mask = s.mask /\ force = s.force /\ select = s.select
          /\ sampleWindow = s.window /\ deltaT = s.deltaT
    BY DEF CaptureInit
  <2>2. /\ mask \subseteq Ports /\ force \in BOOLEAN /\ select \in Sources
        /\ sampleWindow \in BOOLEAN /\ deltaT \in [Chips -> BOOLEAN]
    BY <2>1
  <2>3. synced \in [Chips -> BOOLEAN \X BOOLEAN]
    BY <2>2 DEF CaptureInit
  <2>4. q \in [1..3 -> SUBSET Ports] /\ samples \in [1..5 -> SUBSET Ports]
    BY DEF CaptureInit
  <2>5. active \subseteq Ports /\ edge \subseteq Ports /\ gated \subseteq Ports
    BY DEF CaptureInit
  <2>6. counter \in 0..Period - 1
    BY DEF CaptureInit
  <2>7. valid \in BOOLEAN
    BY Zenon DEF CaptureInit
  <2>8. word \in [ports: SUBSET Ports, time: 0..Period - 1]
    BY DEF CaptureInit
  <2> QED
    BY <2>2, <2>3, <2>4, <2>5, <2>6, <2>7, <2>8 DEF CaptureTypeOK
<1>2. CaptureTypeOK /\ [CaptureNext]_captureVars => CaptureTypeOK'
  <2> SUFFICES ASSUME CaptureTypeOK, [CaptureNext]_captureVars PROVE CaptureTypeOK'
    OBVIOUS
  <2> USE DEF CaptureTypeOK
  <2>1. CASE FastTick
    <3>1. q' \in [1..3 -> SUBSET Ports]
      BY <2>1 DEF FastTick
    <3>2. samples' \in [1..5 -> SUBSET Ports]
      BY <2>1 DEF FastTick
    <3>3. edge' \in SUBSET Ports /\ gated' \in SUBSET Ports
      BY <2>1 DEF FastTick, Rising
    <3>4. counter' \in 0..Period - 1
      <4>1. counter' = IF counter = Period - 1 THEN 0 ELSE counter + 1
        BY <2>1 DEF FastTick
      <4> QED
        BY <4>1
    <3>7. valid' \in BOOLEAN
      <4>1. valid' = (Trigger # {})
        BY <2>1 DEF FastTick
      <4> QED
        BY <4>1, Zenon
    <3>5. word' \in [ports: SUBSET Ports, time: 0..Period - 1]
      BY <2>1 DEF FastTick, Recorded
    <3>6. synced' \in [Chips -> BOOLEAN \X BOOLEAN]
      BY <2>1 DEF FastTick
    <3> QED
      BY <2>1, <3>1, <3>2, <3>3, <3>4, <3>5, <3>6, <3>7 DEF FastTick, padVars, cfgVars
  <2>2. CASE Pads
    BY <2>2 DEF Pads, Fall, Rise, cfgVars, capVars
  <2>3. CASE Reconfigure
    BY <2>3 DEF Reconfigure, padVars, capVars, Sources
  <2>4. CASE UNCHANGED captureVars
    BY <2>4 DEF captureVars, padVars, cfgVars, capVars
  <2> QED
    BY <2>1, <2>2, <2>3, <2>4 DEF CaptureNext
<1> QED
  BY <1>1, <1>2, PTL DEF CaptureSpec

(* The pipeline holds the last samples: each stage is that many edges old. *)
Pipeline ==
  /\ q = <<samples[1], samples[2], samples[3]>>
  /\ edge = samples[3] \ samples[4]

(* A word is offered exactly for a fall three edges old of a port enabled   *)
(* now, and names its ports and count (HitCapture.tla).                     *)
THEOREM FallStampedHolds == CaptureSpec => []FallStamped
<1> DEFINE Inv == Pipeline /\ FallStamped
<1>1. CaptureInit => Inv
  BY DEF CaptureInit, Pipeline, FallStamped, Fell
<1>2. CaptureTypeOK /\ Inv /\ [CaptureNext]_captureVars => Inv'
  <2> SUFFICES ASSUME CaptureTypeOK, Inv, [CaptureNext]_captureVars PROVE Inv'
    OBVIOUS
  <2>1. CASE FastTick
    <3>1. /\ samples'[1] = active /\ samples'[2] = samples[1] /\ samples'[3] = samples[2]
          /\ samples'[4] = samples[3] /\ samples'[5] = samples[4]
      BY <2>1 DEF FastTick
    <3>2. Pipeline'
      BY <2>1, <3>1 DEF FastTick, Pipeline, Rising
    <3>3. Fell' = edge
      BY <3>1 DEF Fell, Pipeline
    <3>4. gated' = Enabled
      BY <2>1 DEF FastTick, Enabled, CaptureTypeOK
    <3>5. LastCount' = counter
      <4>1. counter' = IF counter = Period - 1 THEN 0 ELSE counter + 1
        BY <2>1 DEF FastTick
      <4>2. counter \in 0..Period - 1
        BY DEF CaptureTypeOK
      <4> QED
        BY <4>1, <4>2 DEF LastCount
    <3>6. FallStamped'
      BY <2>1, <3>3, <3>4, <3>5 DEF FastTick, FallStamped, Trigger, Recorded
    <3> QED
      BY <3>2, <3>6
  <2>2. CASE UNCHANGED capVars
    BY <2>2 DEF capVars, Pipeline, FallStamped, Fell, LastCount
  <2>3. Pads \/ Reconfigure \/ UNCHANGED captureVars => UNCHANGED capVars
    BY DEF Pads, Fall, Rise, Reconfigure, captureVars
  <2> QED
    BY <2>1, <2>2, <2>3 DEF CaptureNext
<1> QED
  BY <1>1, <1>2, TypeCorrect, PTL DEF CaptureSpec

-----------------------------------------------------------------------------
(* The hit path leaves the capture as it is: a fast edge is the capture's,  *)
(* a slow one or a word becoming visible does not touch it.                 *)
LEMMA CaptureInside == Spec => CaptureSpec
<1>1. Init => CaptureInit
  BY DEF Init
<1>2. [Next]_vars => [CaptureNext]_captureVars
  BY DEF Next, vars, FastEdge, SlowEdge, Visible, Environment, CaptureNext
<1> QED
  BY <1>1, <1>2, PTL DEF Spec, CaptureSpec

(* In the hit path too a word is offered exactly for a fall three edges old *)
(* of a port enabled now, whatever the FIFO and the stream do (Readout.tla).*)
THEOREM FallStampedInPath == Spec => []FallStamped
BY CaptureInside, FallStampedHolds, PTL

-----------------------------------------------------------------------------
(* Slow edges from the edge that writes a word to its record's last beat:   *)
(* the FIFO's delay, the read and three beats.  A FIFO without delay does   *)
(* not save the edge that ends the record before.                           *)
Latest == IF MaxDelay = 0 THEN 5 ELSE MaxDelay + 4

(* A consumer that is always ready, and hits no closer than that.           *)
Spaced == Ready = {TRUE} /\ Spacing >= 4 * Latest

(* Slow edges the last word written still needs, at most.                   *)
Left ==
  IF written = records THEN 0
  ELSE IF state = "WRITE_DATA_S" THEN 3 - phase
  ELSE IF state = "DONE_S" THEN Latest
  ELSE IF written > hits THEN 4 + MaxDelay - waited
  ELSE 4

(* It is out before the next one comes: four fast edges make a slow one.    *)
OnTime == Left > 0 => 4 * Left + gap <= 4 * Latest + divider

(* Between records, at the read, with the word in hand. *)
AtRest ==
  /\ state \in {"IDLE", "DONE_S"} /\ phase = 0 /\ ~ren
  /\ hits \in {records, written} /\ popped = records
  /\ fifo = IF hits = records THEN <<>> ELSE <<hits>>

AtRead ==
  /\ state = "WRITE_DATA_S" /\ phase = 0 /\ ren
  /\ hits = written /\ written = records + 1 /\ popped = records
  /\ fifo = <<hits>>

WithWord ==
  /\ state = "WRITE_DATA_S" /\ phase \in {1, 2} /\ newWord /\ ~ren
  /\ hits = written /\ written = records + 1 /\ popped = written
  /\ fifo = <<>> /\ hold = hits

(* At most one hit is anywhere between the FIFO's input and its last beat.  *)
OneAtATime ==
  /\ ~lost /\ tready
  /\ records \in Nat /\ written \in {records, records + 1}
  /\ waited \in 0..MaxDelay
  /\ written = hits \/ state = "DONE_S" => waited = 0
  /\ AtRest \/ AtRead \/ WithWord

HitAt(i) == 1 + ((i - 1) \div 3)

(* Every beat, the one on the bus too, is of the hit its place calls for.   *)
BeatsInPlace ==
  /\ stream \in Seq([beat: [part: 0..2, hit: Nat], last: BOOLEAN])
  /\ tdata \in [part: 0..2, hit: Nat] /\ tlast \in BOOLEAN /\ tvalid \in BOOLEAN
  /\ Len(stream) + (IF tvalid THEN 1 ELSE 0) = 3 * records + phase
  /\ \A i \in 1..Len(stream) : stream[i].beat.hit = HitAt(i)
  /\ tvalid => tdata.hit = HitAt(Len(stream) + 1)

SpacedInv ==
  /\ divider \in 0..4 /\ gap \in 0..Spacing
  /\ spaced => OneAtATime /\ OnTime /\ BeatsInPlace

USE FifoAssumption, MaxDelayAssumption, SpacingAssumption

(* What is left fits the time left, from one step to the next. *)
LEMMA StillInTime ==
  ASSUME NEW l \in Nat, NEW a \in Nat, NEW b \in 0..a, NEW g \in Nat, NEW d \in Nat,
         4 * a + g <= 4 * l + d
  PROVE  4 * b + g <= 4 * l + d
OBVIOUS

LEMMA FastEdgeInTime ==
  ASSUME NEW l \in Nat, NEW a \in Nat, NEW g \in Nat, NEW h \in Nat, NEW d \in Nat,
         h <= g + 1, 4 * a + g <= 4 * l + d
  PROVE  4 * a + h <= 4 * l + (d + 1)
OBVIOUS

LEMMA SlowEdgeInTime ==
  ASSUME NEW l \in Nat, NEW a \in Nat, NEW b \in Nat, b < a, NEW g \in Nat,
         4 * a + g <= 4 * l + 4
  PROVE  4 * b + g <= 4 * l + 0
OBVIOUS

LEMMA StartsInTime ==
  ASSUME NEW l \in Nat, NEW a \in 0..l, NEW d \in 1..4
  PROVE  4 * a + 1 <= 4 * l + d
OBVIOUS

LEMMA TooLate ==
  ASSUME NEW l \in Nat, NEW a \in Nat, a > 0, NEW g \in Nat, g >= 4 * l, NEW d \in 0..3
  PROVE  ~(4 * a + g <= 4 * l + d)
OBVIOUS

LEMMA LatestConstant == Latest' = Latest
BY DEF Latest

LEMMA SpacedInit ==
  ASSUME Spaced, Init PROVE SpacedInv
<1>1. OneAtATime /\ OnTime
  BY DEF Init, Stream!Init, Spaced, OneAtATime, AtRest, OnTime, Left
<1>3. tlast \in BOOLEAN /\ tvalid \in BOOLEAN /\ ~tvalid
  BY Zenon DEF Init, Stream!Init
<1>2. BeatsInPlace
  BY <1>3 DEF Init, Stream!Init, BeatsInPlace, Stream!NoHit
<1> QED
  BY <1>1, <1>2 DEF Init, SpacedInv

(* A hit that comes in time finds the one before out of the way. *)
LEMMA WriteFindsRoom ==
  ASSUME Spaced, SpacedInv, FastEdge, valid, spaced'
  PROVE  written = records /\ AtRest /\ ~Full
<1>4. spaced /\ (valid => gap = Spacing)
  BY Zenon DEF FastEdge
<1>1. spaced /\ gap = Spacing /\ divider \in 0..3
  BY <1>4 DEF FastEdge, SpacedInv
<1>2. ~(Left > 0)
  <2> SUFFICES ASSUME Left > 0 PROVE FALSE
    OBVIOUS
  <2>1. Left \in Nat /\ Latest \in Nat
    BY <1>1 DEF Left, Latest, SpacedInv, OneAtATime, AtRest, AtRead, WithWord
  <2> QED
    BY <1>1, <2>1, TooLate DEF Spaced, SpacedInv, OnTime
<1>3. written = records
  BY <1>1, <1>2 DEF Left, Latest, SpacedInv, OneAtATime, AtRest, AtRead, WithWord
<1> QED
  BY <1>1, <1>3 DEF SpacedInv, OneAtATime, AtRest, AtRead, WithWord, Full

LEMMA SpacedFastEdge ==
  ASSUME Spaced, SpacedInv, FastEdge
  PROVE  SpacedInv'
<1> USE DEF SpacedInv
<1>1. divider' \in 0..4 /\ gap' \in 0..Spacing
  <2>1. Spacing >= 1
    BY DEF Spaced, Latest
  <2> QED
    BY <2>1 DEF FastEdge
<1>2. SUFFICES ASSUME spaced' PROVE (OneAtATime /\ OnTime /\ BeatsInPlace)'
  BY <1>1
<1>3. spaced
  BY <1>2 DEF FastEdge
<1>4. BeatsInPlace'
  BY <1>3 DEF FastEdge, streamVars, BeatsInPlace, HitAt
<1>5. CASE ~valid
  <2>1. OneAtATime'
    BY <1>3, <1>5 DEF FastEdge, streamVars, OneAtATime, AtRest, AtRead, WithWord
  <2>2. Left' = Left
    BY <1>5 DEF FastEdge, streamVars, Left
  <2>3. gap' <= gap + 1 /\ divider' = divider + 1
    BY <1>5 DEF FastEdge
  <2>4. Left \in Nat /\ Latest \in Nat
    BY <1>3 DEF Left, Latest, OneAtATime, AtRest, AtRead, WithWord
  <2>6. ASSUME Left > 0 PROVE 4 * Left + gap' <= 4 * Latest + divider'
    <3>1. 4 * Left + gap <= 4 * Latest + divider
      BY <1>3, <2>6 DEF OnTime
    <3>2. gap \in Nat /\ gap' \in Nat /\ divider \in Nat
      BY <1>1
    <3> QED
      BY <2>3, <2>4, <3>1, <3>2, FastEdgeInTime
  <2>5. OnTime'
    BY <2>2, <2>6, LatestConstant DEF OnTime
  <2> QED
    BY <1>4, <2>1, <2>5
<1>6. CASE valid
  <2>1. written = records /\ AtRest /\ ~Full
    BY <1>2, <1>6, WriteFindsRoom
  <2>2. written' = written + 1 /\ gap' = 1 /\ divider' \in 1..4
    BY <1>6, <2>1 DEF FastEdge
  <2>6. ~lost'
    BY <1>3, <2>1 DEF FastEdge, OneAtATime
  <2>3. OneAtATime'
    BY <1>3, <2>1, <2>2, <2>6 DEF FastEdge, streamVars, OneAtATime, AtRest, AtRead, WithWord
  <2>4. Left' \in 0..Latest /\ Latest \in Nat
    BY <1>3, <2>1, <2>2 DEF FastEdge, streamVars, Left, Latest, OneAtATime, AtRest
  <2>7. 4 * Left' + gap' <= 4 * Latest + divider'
    BY <2>2, <2>4, StartsInTime
  <2>5. OnTime'
    BY <2>7, LatestConstant DEF OnTime
  <2> QED
    BY <1>4, <2>3, <2>5
<1> QED
  BY <1>5, <1>6

-----------------------------------------------------------------------------
(* What an edge does to the beats: the one on the bus joins the stream.     *)
LEMMA EdgeKeepsBeats ==
  ASSUME BeatsInPlace, Stream!Transfer, records \in Nat, phase \in 0..2
  PROVE  /\ stream' \in Seq([beat: [part: 0..2, hit: Nat], last: BOOLEAN])
         /\ Len(stream') = 3 * records + phase
         /\ \A i \in 1..Len(stream') : stream'[i].beat.hit = HitAt(i)
<1>1. CASE tvalid
  BY <1>1 DEF BeatsInPlace, Stream!Transfer, HitAt
<1>2. CASE ~tvalid
  BY <1>2 DEF BeatsInPlace, Stream!Transfer
<1> QED
  BY <1>1, <1>2

(* An edge that offers no beat. *)
LEMMA QuietEdge ==
  ASSUME BeatsInPlace, Stream!Edge, Stream!NoBeat, records \in Nat, phase \in 0..2,
         phase' = phase
  PROVE  BeatsInPlace'
<1>1. /\ stream' \in Seq([beat: [part: 0..2, hit: Nat], last: BOOLEAN])
      /\ Len(stream') = 3 * records + phase
      /\ \A i \in 1..Len(stream') : stream'[i].beat.hit = HitAt(i)
  BY EdgeKeepsBeats DEF Stream!Edge
<1>2. tlast' \in BOOLEAN /\ tvalid' \in BOOLEAN /\ ~tvalid'
  BY Zenon DEF Stream!NoBeat
<1> QED
  BY <1>1, <1>2 DEF BeatsInPlace, Stream!NoBeat

(* An edge that offers a beat of the hit after the records sent. *)
LEMMA BeatEdge ==
  ASSUME BeatsInPlace, Stream!Edge, records \in Nat, phase \in 0..2,
         tvalid' = TRUE, tlast' \in BOOLEAN,
         tdata' = [part |-> phase, hit |-> records + 1],
         3 * records' + phase' = 3 * records + phase + 1
  PROVE  BeatsInPlace'
<1>1. /\ stream' \in Seq([beat: [part: 0..2, hit: Nat], last: BOOLEAN])
      /\ Len(stream') = 3 * records + phase
      /\ \A i \in 1..Len(stream') : stream'[i].beat.hit = HitAt(i)
  BY EdgeKeepsBeats DEF Stream!Edge
<1>2. HitAt(Len(stream') + 1) = records + 1
  BY <1>1 DEF HitAt
<1> QED
  BY <1>1, <1>2 DEF BeatsInPlace, HitAt

LEMMA SpacedSlowEdge ==
  ASSUME Spaced, SpacedInv, SlowEdge
  PROVE  SpacedInv'
<1> USE DEF SpacedInv
<1>1. /\ divider = 4 /\ divider' = 0 /\ gap' = gap /\ spaced' = spaced
      /\ lost' = lost /\ written' = written
      /\ written > hits => waited < MaxDelay
      /\ waited' = IF written > hits THEN waited + 1 ELSE 0
      /\ Stream!WriteFsm /\ Stream!Edge /\ hits' = hits
  BY DEF SlowEdge, Stream!Tick, Stream!Clock, Stream!Edge
<1>2. SUFFICES ASSUME spaced PROVE (OneAtATime /\ OnTime /\ BeatsInPlace)'
  BY <1>1
<1>3. tready'
  BY DEF SlowEdge, Stream!Tick, Spaced
<1>4. /\ Left \in Nat /\ Latest \in Nat
      /\ records \in Nat /\ phase \in 0..2 /\ waited \in 0..MaxDelay
      /\ written \in {records, records + 1}
  BY <1>2 DEF Left, Latest, OneAtATime, AtRest, AtRead, WithWord
<1>5. ASSUME Left' \in 0..Latest, Left' = 0 \/ Left' < Left PROVE OnTime'
  <2>1. ASSUME Left' > 0 PROVE 4 * Left' + gap' <= 4 * Latest + divider'
    <3>1. 4 * Left + gap <= 4 * Latest + 4
      BY <1>1, <1>2, <1>4, <1>5, <2>1 DEF OnTime
    <3>2. gap \in Nat /\ Left' \in Nat /\ Left' < Left
      BY <1>4, <1>5, <2>1
    <3> QED
      BY <1>1, <1>4, <3>1, <3>2, SlowEdgeInTime
  <2> QED
    BY <2>1, LatestConstant DEF OnTime
<1>6. CASE AtRest
  <2>1. UNCHANGED <<fifo, hold, popped>>
    BY <1>1, <1>6 DEF AtRest, Stream!Edge, Stream!FifoRead
  <2>2. CASE Stream!StartRead
    <3>1. hits = records + 1 /\ written = hits /\ fifo = <<hits>> /\ state = "IDLE"
      BY <1>4, <1>6, <2>2 DEF Stream!StartRead, Stream!FifoEmpty, AtRest
    <3>2. AtRead'
      BY <1>1, <1>6, <2>1, <2>2, <3>1 DEF Stream!StartRead, Stream!NoBeat, AtRest, AtRead
    <3>3. OneAtATime'
      BY <1>1, <1>2, <1>3, <2>2, <3>1, <3>2 DEF Stream!StartRead, Stream!NoBeat, OneAtATime
    <3>4. Left = 4 /\ Left' = 3
      BY <1>1, <1>4, <2>2, <3>1 DEF Left, Stream!StartRead, Stream!NoBeat
    <3>5. OnTime'
      BY <1>4, <1>5, <3>4 DEF Latest
    <3>6. BeatsInPlace'
      BY <1>1, <1>2, <1>4, <1>6, <2>2, QuietEdge DEF Stream!StartRead, AtRest
    <3> QED
      BY <3>3, <3>5, <3>6
  <2>3. CASE Stream!StayIdle
    <3>1. hits = records /\ fifo = <<>> /\ state = "IDLE"
      BY <1>4, <1>6, <2>3 DEF Stream!StayIdle, Stream!FifoEmpty, AtRest
    <3>2. AtRest'
      BY <1>1, <1>6, <2>1, <2>3, <3>1 DEF Stream!StayIdle, Stream!NoBeat, AtRest
    <3>3. OneAtATime'
      BY <1>1, <1>2, <1>3, <1>4, <2>3, <3>1, <3>2
      DEF Stream!StayIdle, Stream!NoBeat, OneAtATime
    <3>4. Left' \in 0..Latest /\ (Left' = 0 \/ Left' < Left)
      BY <1>1, <1>4, <2>3, <3>1 DEF Left, Latest, Stream!StayIdle, Stream!NoBeat
    <3>5. OnTime'
      BY <1>5, <3>4
    <3>6. BeatsInPlace'
      BY <1>1, <1>2, <1>4, <1>6, <2>3, QuietEdge DEF Stream!StayIdle, AtRest
    <3> QED
      BY <3>3, <3>5, <3>6
  <2>4. CASE Stream!Finish
    <3>1. state = "DONE_S" /\ state' = "IDLE" /\ records' = records /\ waited = 0
      BY <1>2, <2>4 DEF Stream!Finish, Stream!Okay, Stream!NoBeat, OneAtATime
    <3>2. AtRest'
      BY <1>1, <1>6, <2>1, <2>4, <3>1 DEF Stream!Finish, AtRest
    <3>3. OneAtATime'
      BY <1>1, <1>2, <1>3, <1>4, <3>1, <3>2 DEF OneAtATime
    <3>4. Left' \in 0..Latest /\ (Left' = 0 \/ Left' < Left)
      BY <1>1, <1>4, <3>1 DEF Left, Latest
    <3>5. OnTime'
      BY <1>5, <3>4
    <3>6. BeatsInPlace'
      BY <1>1, <1>2, <1>4, <2>4, QuietEdge DEF Stream!Finish
    <3> QED
      BY <3>3, <3>5, <3>6
  <2> QED
    BY <1>1, <1>6, <2>2, <2>3, <2>4 DEF Stream!WriteFsm, AtRest, Stream!Stall,
      Stream!SendPart, Stream!SendLastPart, Stream!Offer
<1>7. CASE AtRead
  <2>1. fifo' = <<>> /\ hold' = hits /\ popped' = popped + 1
    BY <1>1, <1>7 DEF AtRead, Stream!Edge, Stream!FifoRead, Stream!FifoValid
  <2>2. Stream!SendPart
    BY <1>1, <1>2, <1>7 DEF Stream!WriteFsm, Stream!StartRead, Stream!StayIdle,
      Stream!Stall, Stream!SendLastPart, Stream!Finish, Stream!CanSend, Stream!HaveWord,
      Stream!FifoValid, AtRead, OneAtATime
  <2>3. WithWord'
    BY <1>1, <1>4, <1>7, <2>1, <2>2 DEF Stream!SendPart, AtRead, WithWord
  <2>4. OneAtATime'
    BY <1>1, <1>2, <1>3, <1>7, <2>2, <2>3 DEF Stream!SendPart, AtRead, OneAtATime
  <2>5. Left = 3 /\ Left' = 2
    BY <1>1, <1>4, <1>7, <2>2, <2>3 DEF Left, AtRead, Stream!SendPart
  <2>6. OnTime'
    BY <1>4, <1>5, <2>5 DEF Latest
  <2>7. tdata' = [part |-> phase, hit |-> records + 1]
    BY <1>7, <2>2 DEF Stream!SendPart, Stream!Offer, Stream!WordSent, Stream!FifoDout,
      Stream!FifoValid, AtRead
  <2>9. tlast' \in BOOLEAN
    BY <2>2, Zenon DEF Stream!SendPart
  <2>8. BeatsInPlace'
    BY <1>1, <1>2, <1>4, <1>7, <2>2, <2>7, <2>9, BeatEdge DEF Stream!SendPart, Stream!Offer, AtRead
  <2> QED
    BY <2>4, <2>6, <2>8
<1>8. CASE WithWord
  <2>1. UNCHANGED <<fifo, hold, popped>>
    BY <1>1, <1>8 DEF WithWord, Stream!Edge, Stream!FifoRead
  <2>2. Stream!FifoDout = records + 1 /\ Stream!FifoEmpty
    BY <1>8 DEF Stream!FifoDout, Stream!FifoValid, Stream!FifoEmpty, WithWord
  <2>3. CASE Stream!SendPart
    <3>1. phase = 1 /\ phase' = 2 /\ records' = records
      BY <1>4, <1>8, <2>3 DEF Stream!SendPart, Stream!PartsLeft, WithWord
    <3>2. WithWord'
      BY <1>1, <1>8, <2>1, <2>3, <3>1 DEF Stream!SendPart, WithWord
    <3>3. OneAtATime'
      BY <1>1, <1>2, <1>3, <1>8, <2>3, <3>1, <3>2 DEF Stream!SendPart, WithWord, OneAtATime
    <3>4. Left = 2 /\ Left' = 1
      BY <1>1, <1>4, <1>8, <3>1, <3>2 DEF Left, WithWord
    <3>5. OnTime'
      BY <1>4, <1>5, <3>4 DEF Latest
    <3>6. tdata' = [part |-> phase, hit |-> records + 1]
      BY <2>2, <2>3 DEF Stream!SendPart, Stream!Offer, Stream!WordSent
    <3>8. tlast' \in BOOLEAN
      BY <2>3, Zenon DEF Stream!SendPart
    <3>7. BeatsInPlace'
      BY <1>1, <1>2, <1>4, <2>3, <3>1, <3>6, <3>8, BeatEdge DEF Stream!SendPart, Stream!Offer
    <3> QED
      BY <3>3, <3>5, <3>7
  <2>4. CASE Stream!SendLastPart
    <3>1. /\ phase = 2 /\ phase' = 0 /\ records' = records + 1
          /\ state' = "DONE_S" /\ ren' = FALSE
      BY <2>2, <2>4 DEF Stream!SendLastPart
    <3>2. AtRest'
      BY <1>1, <1>4, <1>8, <2>1, <3>1 DEF WithWord, AtRest
    <3>3. OneAtATime'
      BY <1>1, <1>2, <1>3, <1>4, <1>8, <3>1, <3>2 DEF WithWord, OneAtATime
    <3>4. Left' = 0
      BY <1>1, <1>8, <3>1 DEF Left, WithWord
    <3>5. OnTime'
      BY <1>4, <1>5, <3>4
    <3>6. tdata' = [part |-> phase, hit |-> records + 1]
      BY <2>2, <2>4 DEF Stream!SendLastPart, Stream!Offer, Stream!WordSent
    <3>7. tlast' \in BOOLEAN
      BY <2>4 DEF Stream!SendLastPart, Stream!Full
    <3>8. BeatsInPlace'
      BY <1>1, <1>2, <1>4, <2>4, <3>1, <3>6, <3>7, BeatEdge DEF Stream!SendLastPart, Stream!Offer
    <3> QED
      BY <3>3, <3>5, <3>8
  <2> QED
    BY <1>1, <1>2, <1>8, <2>3, <2>4 DEF Stream!WriteFsm, Stream!StartRead, Stream!StayIdle,
      Stream!Stall, Stream!Finish, Stream!CanSend, Stream!HaveWord, WithWord, OneAtATime
<1> QED
  BY <1>2, <1>6, <1>7, <1>8 DEF OneAtATime

(* A word that becomes visible has the read and its beats before it. *)
LEMMA SpacedVisible ==
  ASSUME Spaced, SpacedInv, Visible
  PROVE  SpacedInv'
<1> USE DEF SpacedInv
<1>1. /\ written > hits /\ hits' = hits + 1 /\ fifo' = Append(fifo, hits + 1) /\ waited' = 0
      /\ UNCHANGED <<divider, written, lost, gap, spaced, state, phase, newWord, ren, tvalid,
                      tlast, tdata, tready, hold, popped, records, stream>>
  BY DEF Visible, Stream!HitArrives, Stream!fsmVars
<1>2. SUFFICES ASSUME spaced PROVE (OneAtATime /\ OnTime /\ BeatsInPlace)'
  BY <1>1
<1>3. AtRest /\ hits = records /\ written = records + 1 /\ fifo = <<>>
  BY <1>1, <1>2 DEF OneAtATime, AtRest, AtRead, WithWord
<1>4. AtRest' /\ OneAtATime'
  BY <1>1, <1>2, <1>3 DEF OneAtATime, AtRest
<1>5. /\ Left \in Nat /\ Latest \in Nat /\ Left' \in 0..Left /\ Left > 0
  BY <1>1, <1>2, <1>3 DEF Left, Latest, OneAtATime, AtRest
<1>6. 4 * Left' + gap' <= 4 * Latest + divider'
  <2>1. 4 * Left + gap <= 4 * Latest + divider
    BY <1>2, <1>5 DEF OnTime
  <2>2. /\ gap \in Nat /\ divider \in Nat /\ gap' = gap /\ divider' = divider
    BY <1>1
  <2> QED
    BY <1>5, <2>1, <2>2, StillInTime
<1>8. OnTime'
  BY <1>6, LatestConstant DEF OnTime
<1>7. BeatsInPlace'
  BY <1>1, <1>2 DEF BeatsInPlace, HitAt
<1> QED
  BY <1>4, <1>7, <1>8

(* With a consumer always ready, hits at least 4 * Latest fast edges apart  *)
(* all reach the stream, each as a whole record of its own, for every FIFO  *)
(* depth and delay and every phase of the clocks (Readout.tla;              *)
(* qpix_carrier_data_ctrl.vhd, qpix_carrier_fifo_ctrl.vhd).                 *)
THEOREM SpacedHitsWholeHolds ==
  ASSUME Spaced PROVE Spec => []SpacedHitsWhole
<1>1. Init => SpacedInv
  BY SpacedInit
<1>2. SpacedInv /\ [Next]_vars => SpacedInv'
  <2> SUFFICES ASSUME SpacedInv, [Next]_vars PROVE SpacedInv'
    OBVIOUS
  <2>1. CASE Environment \/ UNCHANGED vars
    <3>1. UNCHANGED <<streamVars, linkVars>>
      BY <2>1 DEF Environment, vars
    <3>2. OneAtATime => OneAtATime'
      BY <3>1 DEF streamVars, linkVars, OneAtATime, AtRest, AtRead, WithWord
    <3>3. Left' = Left
      BY <3>1 DEF streamVars, linkVars, Left, Latest
    <3>4. OnTime => OnTime'
      BY <3>1, <3>3, LatestConstant DEF linkVars, OnTime
    <3>5. BeatsInPlace => BeatsInPlace'
      BY <3>1 DEF streamVars, BeatsInPlace, HitAt
    <3> QED
      BY <3>1, <3>2, <3>4, <3>5 DEF linkVars, SpacedInv
  <2> QED
    BY <2>1, SpacedFastEdge, SpacedSlowEdge, SpacedVisible DEF Next
<1>3. SpacedInv => SpacedHitsWhole
  <2> SUFFICES ASSUME SpacedInv, spaced PROVE SpacedHitsWhole
    BY DEF SpacedHitsWhole
  <2>1. DOMAIN stream = 1..Len(stream)
    BY DEF SpacedInv, BeatsInPlace
  <2> QED
    BY <2>1 DEF SpacedInv, OneAtATime, BeatsInPlace, HitAt, SpacedHitsWhole
<1> QED
  BY <1>1, <1>2, <1>3, PTL DEF Spec
=============================================================================
