---------------------------- MODULE QpixRegProofs ----------------------------
(***************************************************************************)
(* Proofs about the two independent parts of qpix_reg_rtl: the serial load  *)
(* and readout, for every word length, word and number of writes, and for   *)
(* either way each race of the clocks goes; and the pulse sequencers, for   *)
(* every width of their counters, every set of settings and any number of   *)
(* sequences running at once, as long as no control bit is held for so long *)
(* that its counter wraps (NoWrap).                                         *)
(***************************************************************************)
EXTENDS Serial, QpixPulses, SequenceTheorems, TLAPS

(***************************************************************************)
(* Serial load and readout (Serial.tla).                                   *)
(***************************************************************************)
USE NAssumption

Word == [1..N -> Bit]
PisoType == [reg: Word, counter: 0..Last, clkD: BOOLEAN, clkOut: BOOLEAN, dataOut: Bit]

(* The types of the state. *)
TypeInv ==
  /\ data \in Word /\ data0 \in Word /\ dataSync \in Word
  /\ late \in BOOLEAN /\ phase \in 0..2 * N - 1
  /\ gen \in PisoType /\ readGen \in PisoType
  /\ chip \in [1..N -> Bit \cup {"x"}]
  /\ loaded \in Word \cup {NoWord} /\ expected \in Word \cup {NoWord}
  /\ clocks \in Nat /\ readClocks \in Nat
  /\ calm \in BOOLEAN /\ readCalm \in BOOLEAN

-----------------------------------------------------------------------------
(* What has been stable since the last edge has been sampled by it. *)
Sampled ==
  /\ \A b \in Synced \cap stable : b \in ctl <=> b \in sync0
  /\ "data" \in stable => data0 = data
  /\ "sys" \in stable \cap ctl =>
       readGen.counter = 0 /\ ~readGen.clkD /\ readClocks = 0

(* The edges of a train a shift register has seen before an edge of phase p. *)
Seen(l, p) == IF l THEN p ELSE IF p = 0 THEN 2 * N - 1 ELSE p - 1

(* A shift register under a train counts its edges; without one it stands   *)
(* at the start or at the end: no train is cut short.                       *)
InStep(open, l, p, g) ==
  g.counter \in {IF open THEN Seen(l, p) ELSE 0, Last}

HalfClock(g) == IF g.clkD THEN 1 ELSE 0

(* It has given n clocks, and raises the clock again at every odd count. *)
Gave(g, n) ==
  /\ g.counter = 2 * n + HalfClock(g)
  /\ g.clkD => ~g.clkOut

(* The readout's shift register between resets, and what a reset that is    *)
(* lifted leaves: no train, and none on its way until it has taken effect.  *)
ReadInv ==
  /\ NoReset => InStep("read" \in qb, late, phase, readGen) /\ Gave(readGen, readClocks)
  /\ "rst" \in sync0 \ ctl => Over("read")
  /\ "rst" \in sync \ sync0 => "read" \notin qa \cup qb /\ ("read" \in sync0 <=> "read" \in sync)

(* No train of xmit, and none on its way. *)
NoTrain ==
  /\ "xmit" \notin qa \cup qb
  /\ "xmit" \in ctl => "xmit" \in sync0
  /\ "xmit" \in sync0 => "xmit" \in sync

(* The load register's clock rests before the load reaches it. *)
Rests == "load" \notin sync \/ ~gen.clkD

Holds(w) == gen.reg = w /\ gen.counter = 0 /\ ~gen.clkD

(* A load, from the write that raises its bit to the register it fills. *)
LoadInv ==
  /\ calm => NoTrain /\ NoReset
  /\ calm /\ "load" \in ctl \cap sync0 => Rests
  /\ loaded # NoWord =>
       /\ calm /\ "load" \notin ctl
       /\ IF "load" \in sync0 THEN data0 = loaded /\ "load" \notin stable /\ Rests
          ELSE IF "load" \in sync THEN dataSync = loaded /\ ~gen.clkD
          ELSE Holds(loaded)

(* The word on its way: what the register still has, the bit on the line,   *)
(* what the chip has.                                                       *)
OnItsWay(w) ==
  LET out == clocks + HalfClock(gen)
  IN /\ \A i \in 1..N - out : gen.reg[i] = w[i + out]
     /\ gen.clkD => gen.dataOut = w[out]
     /\ \A i \in 1..clocks : chip[N - clocks + i] = w[i]

(* A transmission, from the write that raises its bit. *)
SendInv ==
  expected # NoWord =>
    /\ NoReset /\ "load" \notin ctl \cup sync0
    /\ IF "load" \in sync
         THEN /\ dataSync = expected /\ ~gen.clkD /\ clocks = 0
              /\ "xmit" \notin sync0 \cup qa \cup qb
         ELSE /\ InStep("xmit" \in qb, late, phase, gen)
              /\ Gave(gen, clocks)
              /\ OnItsWay(expected)

(* A shift register moves its word by one and takes one bit in. *)
LEMMA ShiftIn ==
  ASSUME NEW S, NEW r \in [1..N -> S], NEW b \in S
  PROVE  /\ Head(r) = r[1] /\ r[1] \in S
         /\ Append(Tail(r), b) \in [1..N -> S]
         /\ \A i \in 1..N : Append(Tail(r), b)[i] = IF i < N THEN r[i + 1] ELSE b
<1>1. r \in Seq(S) /\ Len(r) = N /\ r # <<>>
  <2>1. r \in Seq(S)
    BY SeqDef
  <2>2. QED
    BY <2>1, LenProperties
<1>2. /\ Tail(r) \in Seq(S) /\ Len(Tail(r)) = N - 1
      /\ \A i \in 1..N - 1 : Tail(r)[i] = r[i + 1]
  BY <1>1, HeadTailProperties
<1>3. /\ Append(Tail(r), b) \in Seq(S) /\ Len(Append(Tail(r), b)) = N
      /\ \A i \in 1..N - 1 : Append(Tail(r), b)[i] = Tail(r)[i]
      /\ Append(Tail(r), b)[N] = b
  BY <1>2, AppendProperties
<1>4. Append(Tail(r), b) \in [1..N -> S]
  BY <1>3, LenProperties
<1>5. QED
  BY <1>1, <1>2, <1>3, <1>4

(* What a piso becomes, by what its edge sees. *)
LEMMA PisoReset ==
  ASSUME NEW g \in PisoType, NEW load, NEW fires, NEW in
  PROVE  LET h == Piso(g, TRUE, load, fires, in)
         IN h \in PisoType /\ h.counter = 0 /\ ~h.clkD
<1>1. Zeros \in Word /\ 0 \in 0..Last /\ "0" \in Bit
  BY DEF Zeros, Word, Bit, Last
<1>2. QED
  BY <1>1 DEF Piso, PisoType

LEMMA PisoLoad ==
  ASSUME NEW g \in PisoType, NEW fires, NEW in \in Word
  PROVE  LET h == Piso(g, FALSE, TRUE, fires, in)
         IN /\ h \in PisoType /\ h.reg = in /\ h.counter = 0
            /\ (h.clkD <=> g.clkD) /\ (h.clkOut <=> g.clkD)
<1>1. 0 \in 0..Last /\ "0" \in Bit
  BY DEF Bit, Last
<1>2. QED
  BY <1>1 DEF Piso, Loaded, PisoType

LEMMA PisoIdle ==
  ASSUME NEW g \in PisoType, NEW fires, NEW in, ~(fires /\ g.counter < Last)
  PROVE  LET h == Piso(g, FALSE, FALSE, fires, in)
         IN /\ h \in PisoType /\ h.reg = g.reg /\ h.counter = g.counter
            /\ ~h.clkD /\ (h.clkOut <=> g.clkD)
<1>1. "0" \in Bit
  BY DEF Bit
<1>2. QED
  BY <1>1 DEF Piso, PisoType

LEMMA PisoShift ==
  ASSUME NEW g \in PisoType, NEW in, NEW n \in Nat, Gave(g, n), g.counter < Last
  PROVE  LET h == Piso(g, FALSE, FALSE, TRUE, in)
         IN /\ h \in PisoType /\ h.counter = g.counter + 1
            /\ (h.clkD <=> ~g.clkD) /\ (h.clkOut <=> g.clkD)
            /\ g.clkD => h.reg = g.reg /\ h.dataOut = g.dataOut
            /\ ~g.clkD => h.dataOut = g.reg[1] /\ h.reg = Append(Tail(g.reg), "0")
<1> DEFINE h == Piso(g, FALSE, FALSE, TRUE, in)
           lagged == [g EXCEPT !.clkOut = g.clkD]
           next == [lagged EXCEPT !.clkD = ~@, !.counter = @ + 1]
<1>1. g.reg \in [1..N -> Bit] /\ "0" \in Bit /\ g.counter + 1 \in 0..Last
  BY DEF PisoType, Word, Bit, Last
<1>2. h = Shifted(lagged)
  BY DEF Piso, PisoType
<1>3. lagged \in PisoType /\ lagged.reg = g.reg /\ lagged.counter = g.counter
      /\ lagged.clkD = g.clkD /\ lagged.clkOut = g.clkD /\ lagged.dataOut = g.dataOut
  BY DEF PisoType
<1>4. next \in PisoType /\ next.reg = g.reg /\ next.counter = g.counter + 1
      /\ next.clkD = ~g.clkD /\ next.clkOut = g.clkD /\ next.dataOut = g.dataOut
  BY <1>1, <1>3 DEF PisoType
<1>5. CASE g.clkD
  <2>1. g.counter % 2 # 0
    BY <1>5 DEF Gave, HalfClock
  <2>2. h = next
    BY <1>2, <1>3, <2>1 DEF Shifted
  <2>3. QED
    BY <1>4, <1>5, <2>2
<1>6. CASE ~g.clkD
  <2>1. g.counter % 2 = 0
    BY <1>6 DEF Gave, HalfClock
  <2>2. h = [next EXCEPT !.dataOut = Head(g.reg), !.reg = Append(Tail(@), "0")]
    BY <1>2, <1>3, <2>1 DEF Shifted
  <2> HIDE DEF next, h
  <2>3. /\ Head(g.reg) = g.reg[1] /\ g.reg[1] \in Bit
        /\ Append(Tail(g.reg), "0") \in Word
    BY <1>1, ShiftIn DEF Word
  <2>4. /\ h \in PisoType /\ h.counter = next.counter /\ h.clkD = next.clkD
        /\ h.clkOut = next.clkOut /\ h.dataOut = g.reg[1]
        /\ h.reg = Append(Tail(g.reg), "0")
    BY <1>4, <2>2, <2>3 DEF PisoType
  <2>5. QED
    BY <1>4, <1>6, <2>3, <2>4 DEF h
<1>7. QED
  BY <1>5, <1>6

(* A shift register, its train and its one-shot before and after an edge.   *)
BeforeEdge(l, p, q, open, open2, fires, g, n) ==
  /\ l \in BOOLEAN /\ p \in 0..2 * N - 1
  /\ q = (IF p = 2 * N - 1 THEN 0 ELSE p + 1)
  /\ p # 0 => (open2 <=> open)
  /\ fires <=> (IF l /\ p = 0 THEN open2 ELSE open)
  /\ g \in PisoType /\ n \in Nat
  /\ InStep(open, l, p, g) /\ Gave(g, n)

AfterEdge(l, q, open2, fires, g, h, n) ==
  /\ InStep(open2, l, q, h)
  /\ Gave(h, IF g.clkD THEN n + 1 ELSE n)
  /\ Ticks(g, h) <=> g.clkD
  /\ g.clkD => fires /\ g.counter < Last

(* An edge moves a shift register along with its train, and raises its      *)
(* clock at every odd count.                                                *)
LEMMA TrainEdge ==
  ASSUME NEW l, NEW p, NEW q, NEW open \in BOOLEAN, NEW open2 \in BOOLEAN,
         NEW fires \in BOOLEAN, NEW g, NEW n, NEW in,
         BeforeEdge(l, p, q, open, open2, fires, g, n)
  PROVE  AfterEdge(l, q, open2, fires, g, Piso(g, FALSE, FALSE, fires, in), n)
<1> USE DEF BeforeEdge, AfterEdge
<1> DEFINE h == Piso(g, FALSE, FALSE, fires, in)
<1>1. g.counter \in 0..2 * N /\ Last = 2 * N /\ g.clkD \in BOOLEAN
  BY DEF PisoType, Last
<1>2. CASE fires /\ g.counter < Last
  <2>1. /\ h.counter = g.counter + 1 /\ (h.clkD <=> ~g.clkD) /\ (h.clkOut <=> g.clkD)
    BY <1>2, PisoShift
  <2> HIDE DEF h
  <2>2. InStep(open2, l, q, h)
    <3>1. CASE fires <=> open
      <4>1. open /\ g.counter = Seen(l, p)
        <5>1. open /\ g.counter # Last
          BY <1>1, <1>2, <3>1
        <5>2. g.counter \in {Seen(l, p), Last}
          BY <5>1 DEF InStep
        <5>3. QED
          BY <5>1, <5>2
      <4>2. CASE p = 2 * N - 1
        BY <1>1, <1>2, <2>1, <4>1, <4>2 DEF InStep, Seen
      <4>3. CASE p # 2 * N - 1
        BY <1>1, <1>2, <2>1, <3>1, <4>1, <4>3 DEF InStep, Seen
      <4>4. QED
        BY <4>2, <4>3
    <3>2. CASE ~(fires <=> open)
      <4>1. l /\ p = 0 /\ open2 /\ ~open /\ q = 1
        BY <1>2, <3>2
      <4>2. g.counter = 0
        <5>1. g.counter # Last /\ g.counter \in {0, Last}
          BY <1>1, <1>2, <4>1 DEF InStep
        <5>2. QED
          BY <5>1
      <4>3. QED
        BY <2>1, <4>1, <4>2 DEF InStep, Seen
    <3>3. QED
      BY <3>1, <3>2
  <2>3. Gave(h, IF g.clkD THEN n + 1 ELSE n)
    <3>1. CASE g.clkD
      BY <1>1, <2>1, <3>1 DEF Gave, HalfClock
    <3>2. CASE ~g.clkD
      BY <1>1, <2>1, <3>2 DEF Gave, HalfClock
    <3>3. QED
      BY <3>1, <3>2
  <2>4. Ticks(g, h) <=> g.clkD
    BY <2>1 DEF Ticks, Gave
  <2>5. QED
    BY <1>2, <2>2, <2>3, <2>4 DEF h
<1>3. CASE ~(fires /\ g.counter < Last)
  <2>1. /\ h.counter = g.counter /\ ~h.clkD /\ (h.clkOut <=> g.clkD)
    BY <1>3, PisoIdle
  <2> HIDE DEF h
  <2>2. g.counter \in {0, Last} /\ InStep(open2, l, q, h)
    BY <1>1, <1>3, <2>1 DEF InStep, Seen
  <2>3. ~g.clkD
    BY <1>1, <2>2 DEF Gave, HalfClock
  <2>4. Gave(h, n) /\ ~Ticks(g, h)
    BY <2>1, <2>3 DEF Gave, HalfClock, Ticks
  <2>5. QED
    BY <2>2, <2>3, <2>4 DEF h
<1>4. QED
  BY <1>2, <1>3

-----------------------------------------------------------------------------
LEMMA ByN ==
  ASSUME NEW m \in Nat \ {0}, NEW p \in 0..m - 1
  PROVE  (p + 1) % m = IF p = m - 1 THEN 0 ELSE p + 1
<1>1. CASE p = m - 1
  <2>1. m % m = 0
    BY SMTT(30)
  <2>2. QED
    BY <1>1, <2>1
<1>2. CASE p # m - 1
  BY <1>2
<1>3. QED
  BY <1>1, <1>2

(* What an edge does to a one-shot. *)
LEMMA Fires ==
  ASSUME NEW clocked, NEW rising, FireShots(clocked, rising), NEW s
  PROVE  /\ s \notin clocked => (s \in qb' <=> s \in qb)
         /\ s \notin qa \cup rising /\ s \notin qb => s \notin qa' /\ s \notin qb'
         /\ s \notin qa \cup rising => s \notin qa'
BY DEF FireShots

(* A slow edge, as a shift register and its one-shot see it. *)
LEMMA EdgeClocks ==
  ASSUME TypeInv, SlowEdge, NEW s \in {"xmit", "read"}
  PROVE  /\ phase' = IF phase = 2 * N - 1 THEN 0 ELSE phase + 1
         /\ phase' \in 0..2 * N - 1 /\ late' = late
         /\ phase # 0 => (s \in qb' <=> s \in qb)
         /\ Sees(s) <=> (IF late /\ phase = 0 THEN s \in qb' ELSE s \in qb)
         /\ (s \in qa' \/ s \in qb') => (s \in qa \cup qb \/ s \in sync0 \ sync)
<1>1. phase' = (phase + 1) % (2 * N) /\ late' = late
  BY DEF SlowEdge
<1>2. phase \in 0..2 * N - 1 /\ 2 * N \in Nat \ {0}
  BY DEF TypeInv
<1>3. phase' = IF phase = 2 * N - 1 THEN 0 ELSE phase + 1
  BY <1>1, <1>2, ByN
<1>4. phase' \in 0..2 * N - 1
  BY <1>2, <1>3
<1>5. s \in ShotClocks <=> phase = 0
  BY DEF ShotClocks
<1>6. FireShots(ShotClocks, (sync0 \ sync) \cap {"xmit", "read"})
  BY DEF SlowEdge
<1>7. /\ phase # 0 => (s \in qb' <=> s \in qb)
      /\ (s \in qa' \/ s \in qb') => (s \in qa \cup qb \/ s \in sync0 \ sync)
  BY <1>5, <1>6, Fires
<1>8. Sees(s) <=> (IF late /\ phase = 0 THEN s \in qb' ELSE s \in qb)
  BY <1>5 DEF Sees
<1>9. QED
  BY <1>1, <1>3, <1>4, <1>7, <1>8

LEMMA PisoTypes ==
  ASSUME NEW g \in PisoType, NEW reset, NEW load, NEW fires, NEW in \in Word
  PROVE  Piso(g, reset, load, fires, in) \in PisoType
<1> DEFINE lagged == [g EXCEPT !.clkOut = g.clkD]
           next == [lagged EXCEPT !.clkD = ~@, !.counter = @ + 1]
           moved == [next EXCEPT !.dataOut = Head(lagged.reg), !.reg = Append(Tail(@), "0")]
<1>1. "0" \in Bit /\ 0 \in 0..Last /\ Zeros \in Word
  BY DEF Word, Bit, Last, Zeros
<1>2. lagged \in PisoType
  BY DEF PisoType
<1>3. ASSUME lagged.counter < Last PROVE Shifted(lagged) \in PisoType
  <2>1. lagged.counter + 1 \in 0..Last
    BY <1>2, <1>3 DEF PisoType, Last
  <2>2. next \in PisoType /\ next.reg = lagged.reg
    BY <1>2, <2>1 DEF PisoType
  <2>3. Head(lagged.reg) \in Bit /\ Append(Tail(next.reg), "0") \in Word
    <3>1. next.reg \in [1..N -> Bit]
      BY <2>2 DEF PisoType, Word
    <3>2. /\ Head(next.reg) = next.reg[1] /\ next.reg[1] \in Bit
          /\ Append(Tail(next.reg), "0") \in [1..N -> Bit]
      BY <1>1, <3>1, ShiftIn
    <3>3. QED
      BY <2>2, <3>2 DEF Word
  <2>4. moved \in PisoType
    BY <2>2, <2>3 DEF PisoType
  <2>5. Shifted(lagged) \in {next, moved}
    BY DEF Shifted
  <2>6. QED
    BY <2>2, <2>4, <2>5
<1>4. CASE reset
  BY <1>1, <1>2, <1>4 DEF Piso, PisoType
<1>5. CASE ~reset /\ load
  BY <1>1, <1>2, <1>5 DEF Piso, Loaded, PisoType
<1>6. CASE ~reset /\ ~load /\ fires /\ g.counter < Last
  <2>1. Piso(g, reset, load, fires, in) = Shifted(lagged)
    BY <1>6 DEF Piso
  <2>2. lagged.counter = g.counter
    BY DEF PisoType
  <2>3. QED
    BY <1>3, <1>6, <2>1, <2>2
<1>7. CASE ~reset /\ ~load /\ ~(fires /\ g.counter < Last)
  BY <1>1, <1>2, <1>7 DEF Piso, PisoType
<1>8. QED
  BY <1>4, <1>5, <1>6, <1>7

-----------------------------------------------------------------------------
LEMMA TypeInit == Init => TypeInv
<1> SUFFICES ASSUME Init PROVE TypeInv
  OBVIOUS
<1>1. /\ Zeros \in Word /\ "0" \in Bit /\ 0 \in 0..Last /\ 0 \in 0..2 * N - 1
      /\ [i \in 1..N |-> "x"] \in [1..N -> Bit \cup {"x"}]
  BY DEF Zeros, Word, Bit, Last
<1>2. PisoInit \in PisoType
  BY <1>1 DEF PisoInit, PisoType
<1>3. QED
  BY <1>1, <1>2 DEF Init, TypeInv

LEMMA TypeStep == TypeInv /\ [Next]_vars => TypeInv'
<1> SUFFICES ASSUME TypeInv, [Next]_vars PROVE TypeInv'
  OBVIOUS
<1>1. CASE SlowEdge
  <2>1. gen' \in PisoType /\ readGen' \in PisoType
    <3>1. Zeros \in Word
      BY DEF Zeros, Word, Bit
    <3>2. QED
      BY <1>1, <3>1, PisoTypes DEF SlowEdge, TypeInv
  <2>2. chip' \in [1..N -> Bit \cup {"x"}] /\ clocks' \in Nat
    <3>1. ASSUME NEW b \in Bit \cup {"x"}
          PROVE  Append(Tail(chip), b) \in [1..N -> Bit \cup {"x"}]
      BY ShiftIn DEF TypeInv
    <3>2. (IF gen'.dataOut = gen.dataOut THEN gen.dataOut ELSE "x") \in Bit \cup {"x"}
      BY DEF TypeInv, PisoType
    <3>3. CASE Ticks(gen, gen')
      <4>1. chip' = Append(Tail(chip), IF gen'.dataOut = gen.dataOut
                                         THEN gen.dataOut ELSE "x")
        BY <1>1, <3>3 DEF SlowEdge
      <4>2. clocks' \in Nat
        BY <1>1, <3>3 DEF SlowEdge, TypeInv
      <4>3. QED
        BY <3>1, <3>2, <4>1, <4>2
    <3>4. CASE ~Ticks(gen, gen')
      BY <1>1, <3>4 DEF SlowEdge, TypeInv
    <3>5. QED
      BY <3>3, <3>4
  <2>3. readClocks' \in Nat
    <3>1. readClocks' \in {0, readClocks, readClocks + 1}
      BY <1>1 DEF SlowEdge
    <3>2. QED
      BY <3>1 DEF TypeInv
  <2>4. phase' \in 0..2 * N - 1
    BY <1>1, EdgeClocks
  <2>5. UNCHANGED <<data, late, calm, loaded, expected, readCalm>>
    BY <1>1 DEF SlowEdge
  <2>6. data0' = data /\ dataSync' = data0
    BY <1>1 DEF SlowEdge
  <2>7. QED
    BY <2>1, <2>2, <2>3, <2>4, <2>5, <2>6 DEF TypeInv
<1>2. CASE IntRstEdge
  BY <1>2 DEF IntRstEdge, historyVars, TypeInv
<1>3. CASE Software
  <2> USE DEF TypeInv, clockVars, Toggle, Over, NoReset
  <2>1. ASSUME NEW w \in Words, SetData(w) PROVE TypeInv'
    BY <2>1, WordsAssumption DEF SetData, Word
  <2>2. ASSUME NEW b, Other(b) \/ ToggleReset(b) PROVE TypeInv'
    BY <2>2 DEF Other, ToggleReset
  <2>3. ASSUME RaiseLoad \/ DropLoad PROVE TypeInv'
    BY <2>3 DEF RaiseLoad, DropLoad
  <2>4. ASSUME RaiseXmit \/ DropXmit PROVE TypeInv'
    <3>1. expected' \in {expected, loaded, NoWord} /\ loaded' \in {loaded, NoWord}
      BY <2>4 DEF RaiseXmit, DropXmit
    <3>2. clocks' \in {0, clocks} /\ calm' \in BOOLEAN
      BY <2>4 DEF RaiseXmit, DropXmit
    <3>3. UNCHANGED <<data, data0, dataSync, late, phase, gen, readGen, chip, readClocks, readCalm>>
      BY <2>4 DEF RaiseXmit, DropXmit
    <3>4. QED
      BY <3>1, <3>2, <3>3
  <2>5. ASSUME ToggleRead PROVE TypeInv'
    BY <2>5 DEF ToggleRead
  <2>6. QED
    BY <1>3, <2>1, <2>2, <2>3, <2>4, <2>5 DEF Software
<1>4. CASE UNCHANGED vars
  BY <1>4 DEF vars, clockVars, historyVars, TypeInv
<1>5. QED
  BY <1>1, <1>2, <1>3, <1>4 DEF Next

-----------------------------------------------------------------------------
(* A software step writes the data or turns one control over. *)
LEMMA SoftwareIs ==
  ASSUME Software
  PROVE  (\E w \in Words : SetData(w)) \/ (\E b : Toggle(b))
BY DEF Software, Other, ToggleReset, RaiseLoad, DropLoad, RaiseXmit, DropXmit, ToggleRead

LEMMA SampledInit == Init => Sampled
BY DEF Init, Sampled

LEMMA SampledStep == TypeInv /\ Sampled /\ [Next]_vars => Sampled'
<1> SUFFICES ASSUME TypeInv, Sampled, [Next]_vars PROVE Sampled'
  OBVIOUS
<1>1. CASE SlowEdge
  <2>1. ctl' = ctl /\ sync0' = ctl \cap Synced /\ data' = data /\ data0' = data
    BY <1>1 DEF SlowEdge
  <2>2. ASSUME "sys" \in ctl
        PROVE  readGen'.counter = 0 /\ ~readGen'.clkD /\ readClocks' = 0
    <3>1. readGen' = Piso(readGen, TRUE, FALSE, Sees("read"), Zeros) /\ readClocks' = 0
      BY <1>1, <2>2 DEF SlowEdge, Piso
    <3>2. QED
      BY <3>1, PisoReset DEF TypeInv
  <2>3. QED
    BY <2>1, <2>2 DEF Sampled
<1>2. CASE IntRstEdge \/ UNCHANGED vars
  BY <1>2 DEF IntRstEdge, vars, clockVars, historyVars, Sampled
<1>3. ASSUME NEW w \in Words, SetData(w) PROVE Sampled'
  BY <1>3 DEF SetData, clockVars, Sampled
<1>4. ASSUME NEW b, Toggle(b) PROVE Sampled'
  BY <1>4 DEF Toggle, Sampled
<1>5. QED
  BY <1>1, <1>2, <1>3, <1>4, SoftwareIs DEF Next

-----------------------------------------------------------------------------
(* Between resets an edge keeps the readout in step with its train. *)
LEMMA ReadEdge ==
  ASSUME TypeInv, SlowEdge, "rst" \notin sync, "sys" \notin ctl,
         InStep("read" \in qb, late, phase, readGen), Gave(readGen, readClocks)
  PROVE  /\ InStep("read" \in qb', late', phase', readGen')
         /\ Gave(readGen', readClocks')
<1>1. /\ phase' = IF phase = 2 * N - 1 THEN 0 ELSE phase + 1
      /\ late' = late
      /\ phase # 0 => ("read" \in qb' <=> "read" \in qb)
      /\ Sees("read") <=> (IF late /\ phase = 0 THEN "read" \in qb' ELSE "read" \in qb)
  BY EdgeClocks
<1>2. PICK fires \in BOOLEAN : fires <=> Sees("read")
  OBVIOUS
<1>3. PICK open \in BOOLEAN : open <=> "read" \in qb
  OBVIOUS
<1>4. PICK open2 \in BOOLEAN : open2 <=> "read" \in qb'
  OBVIOUS
<1>5. readGen' = Piso(readGen, FALSE, FALSE, fires, Zeros)
  BY <1>2 DEF SlowEdge, Piso
<1>6. /\ readGen \in PisoType /\ readClocks \in Nat /\ late \in BOOLEAN
      /\ phase \in 0..2 * N - 1
  BY DEF TypeInv
<1>7. InStep(open, late, phase, readGen)
  BY <1>3 DEF InStep
<1>8. /\ InStep(open2, late, phase', readGen')
      /\ Gave(readGen', IF readGen.clkD THEN readClocks + 1 ELSE readClocks)
      /\ Ticks(readGen, readGen') <=> readGen.clkD
      /\ readGen.clkD => readGen.counter < Last
  <2>1. BeforeEdge(late, phase, phase', open, open2, fires, readGen, readClocks)
    BY <1>1, <1>2, <1>3, <1>4, <1>6, <1>7 DEF BeforeEdge
  <2>2. AfterEdge(late, phase', open2, fires, readGen, readGen', readClocks)
    BY <1>5, <2>1, TrainEdge
  <2>3. QED
    BY <2>2 DEF AfterEdge
<1>9. readClocks' = IF readGen.clkD THEN readClocks + 1 ELSE readClocks
  <2>1. readGen.clkD => readClocks <= N
    BY <1>6, <1>8 DEF Gave, HalfClock, Last, PisoType
  <2>2. readClocks' = IF Ticks(readGen, readGen') /\ readClocks <= N
                        THEN readClocks + 1 ELSE readClocks
    BY DEF SlowEdge
  <2>3. QED
    BY <1>8, <2>1, <2>2
<1>10. QED
  BY <1>1, <1>4, <1>8, <1>9 DEF InStep

LEMMA ReadSlow ==
  ASSUME TypeInv, Sampled, ReadInv, SlowEdge
  PROVE  ReadInv'
<1>1. sync0' = ctl \cap Synced /\ sync' = sync0 /\ ctl' = ctl
  BY DEF SlowEdge
<1>2. ("read" \in qa' \/ "read" \in qb') => ("read" \in qa \cup qb \/ "read" \in sync0 \ sync)
  BY EdgeClocks
<1>3. ASSUME NoReset'
      PROVE  (InStep("read" \in qb, late, phase, readGen) /\ Gave(readGen, readClocks))'
  <2>1. Resets \cap ctl = {} /\ "rst" \notin sync0
    BY <1>1, <1>3 DEF NoReset
  <2>2. CASE "rst" \notin sync
    BY <2>1, <2>2, ReadEdge DEF ReadInv, NoReset, Resets
  <2>3. CASE "rst" \in sync
    <3>1. "read" \notin qb'
      BY <1>2, <2>1, <2>3 DEF ReadInv
    <3>2. readGen' = Piso(readGen, TRUE, FALSE, Sees("read"), Zeros) /\ readClocks' = 0
      BY <2>3 DEF SlowEdge, Piso
    <3>3. readGen'.counter = 0 /\ ~readGen'.clkD
      BY <3>2, PisoReset DEF TypeInv
    <3>4. QED
      <4>1. InStep("read" \in qb', late', phase', readGen')
        BY <3>1, <3>3 DEF InStep
      <4>2. Gave(readGen', readClocks')
        <5>1. HalfClock(readGen') = 0 /\ readClocks' = 0
          BY <3>2, <3>3 DEF HalfClock
        <5>2. QED
          BY <3>3, <5>1 DEF Gave
      <4>3. QED
        BY <4>1, <4>2
  <2>4. QED
    BY <2>2, <2>3
<1>4. ("rst" \in sync0 \ ctl => Over("read"))'
  BY <1>1 DEF Synced
<1>5. ("rst" \in sync \ sync0 =>
         "read" \notin qa \cup qb /\ ("read" \in sync0 <=> "read" \in sync))'
  <2> SUFFICES ASSUME "rst" \in sync0 \ ctl
               PROVE  /\ "read" \notin qa' \cup qb'
                      /\ "read" \in ctl \cap Synced <=> "read" \in sync0
    BY <1>1 DEF Synced
  <2>1. Over("read")
    BY DEF ReadInv
  <2>2. QED
    BY <1>2, <2>1 DEF Over, Synced
<1>6. QED
  BY <1>3, <1>4, <1>5 DEF ReadInv

LEMMA ReadInvStep ==
  ASSUME TypeInv, Sampled, readCalm => ReadInv, [Next]_vars, readCalm'
  PROVE  ReadInv'
<1> DEFINE kept == /\ UNCHANGED <<late, phase, readGen, readClocks, sync0, sync>>
                   /\ "read" \in qb' <=> "read" \in qb
                   /\ "read" \in qa' => "read" \in qa
<1>1. CASE SlowEdge
  BY <1>1, ReadSlow DEF SlowEdge
<1>2. CASE IntRstEdge
  <2>1. FireShots({"CLKin2", "control"}, {})
    BY <1>2 DEF IntRstEdge
  <2>2. /\ "read" \in qb' <=> "read" \in qb
        /\ "read" \in qa' => "read" \in qa
    <3>1. "read" \notin {"CLKin2", "control"} /\ "read" \notin {}
      OBVIOUS
    <3>2. QED
      BY <2>1, <3>1, Fires
  <2>3. kept /\ readCalm /\ ctl' = ctl
    BY <1>2, <2>2 DEF IntRstEdge, historyVars
  <2>4. QED
    BY <2>3 DEF ReadInv, NoReset, InStep, Gave, Over
<1>3. CASE UNCHANGED vars \/ \E w \in Words : SetData(w)
  BY <1>3 DEF vars, SetData, clockVars, historyVars, ReadInv, NoReset, InStep, Gave, Over
<1>4. ASSUME NEW b, Toggle(b) PROVE kept
  BY <1>4 DEF Toggle, Shots, Synced
<1>5. ASSUME NEW b, b \notin Resets \cup {"read"}, Toggle(b), readCalm
      PROVE  ReadInv'
  <2>1. kept /\ \A c \in Resets \cup {"read"} : c \in ctl' <=> c \in ctl
    BY <1>4, <1>5 DEF Toggle
  <2>2. QED
    BY <1>5, <2>1 DEF ReadInv, NoReset, InStep, Gave, Over, Resets
<1>6. ASSUME NEW b, Other(b) \/ RaiseLoad \/ DropLoad \/ RaiseXmit \/ DropXmit
      PROVE  ReadInv'
  BY <1>5, <1>6 DEF Other, RaiseLoad, DropLoad, RaiseXmit, DropXmit, Resets
<1>7. CASE ToggleRead
  <2>1. kept /\ readCalm /\ Resets \subseteq stable /\ \A c \in Resets : c \in ctl' <=> c \in ctl
    BY <1>4, <1>7 DEF ToggleRead, Toggle, Resets
  <2>2. "rst" \notin sync0 \ ctl
    BY <2>1 DEF Sampled, Resets, Synced
  <2>3. QED
    BY <2>1, <2>2 DEF ReadInv, NoReset, InStep, Gave, Over, Resets
<1>8. ASSUME NEW b, ToggleReset(b) PROVE ReadInv'
  <2>1. kept /\ b \in Resets /\ ctl' = (ctl \ {b}) \cup ({b} \ ctl)
    BY <1>4, <1>8 DEF ToggleReset, Toggle
  <2>2. "read" \in ctl' <=> "read" \in ctl
    BY <2>1 DEF Resets
  <2>3. CASE b \notin ctl
    <3>1. readCalm /\ ~NoReset' /\ (\A c \in ctl : c \in ctl')
      BY <1>8, <2>1, <2>3 DEF ToggleReset, NoReset
    <3>2. QED
      BY <2>1, <2>2, <3>1 DEF ReadInv, Over
  <2>4. CASE b \in ctl
    <3>1. b \in stable /\ Over("read")
      BY <1>8, <2>4 DEF ToggleReset
    <3>2. Over("read")'
      BY <2>1, <2>2, <3>1 DEF Over
    <3>3. ASSUME NoReset'
          PROVE  (InStep("read" \in qb, late, phase, readGen) /\ Gave(readGen, readClocks))'
      <4>1. b = "sys"
        BY <2>1, <2>4, <3>1, <3>3 DEF NoReset, Resets, Sampled, Synced
      <4>2. readGen.counter = 0 /\ ~readGen.clkD /\ readClocks = 0
        BY <2>4, <3>1, <4>1 DEF Sampled
      <4>3. QED
        BY <2>1, <3>1, <4>2 DEF InStep, Gave, HalfClock, Over
    <3>4. QED
      BY <3>2, <3>3 DEF ReadInv, Over
  <2>5. QED
    BY <2>3, <2>4
<1>9. QED
  BY <1>1, <1>2, <1>3, <1>6, <1>7, <1>8 DEF Next, Software

(* Between two resets the readout is clocked N times in all, however often  *)
(* a read is asked for, for every word length (qpix_reg_rtl.v, piso.v).     *)
THEOREM OneReadPerResetHolds == Spec => []OneReadPerReset
<1>1. Init => (readCalm => ReadInv)
  <2> SUFFICES ASSUME Init PROVE ReadInv
    OBVIOUS
  <2>1. /\ "read" \notin qb /\ readGen.counter = 0 /\ ~readGen.clkD /\ readClocks = 0
        /\ sync0 = {} /\ sync = {}
    BY DEF Init, PisoInit
  <2>2. QED
    BY <2>1 DEF ReadInv, InStep, Gave, HalfClock
<1>2. TypeInv /\ Sampled /\ (readCalm => ReadInv) /\ [Next]_vars => (readCalm => ReadInv)'
  BY ReadInvStep
<1>3. TypeInv /\ (readCalm => ReadInv) => OneReadPerReset
  BY DEF OneReadPerReset, ReadInv, TypeInv, PisoType, Gave, HalfClock, Last
<1>4. QED
  BY <1>1, <1>2, <1>3, TypeInit, TypeStep, SampledInit, SampledStep, PTL DEF Spec

-----------------------------------------------------------------------------
(* Without a train an edge loads the shift register or leaves its word. *)
LEMMA GenQuiet ==
  ASSUME TypeInv, SlowEdge, NoReset, "xmit" \notin qa \cup qb, "xmit" \notin sync0 \ sync
  PROVE  /\ "xmit" \notin qa' \cup qb'
         /\ gen'.clkOut <=> gen.clkD
         /\ "load" \in sync =>
              gen'.reg = dataSync /\ gen'.counter = 0 /\ (gen'.clkD <=> gen.clkD)
         /\ "load" \notin sync =>
              gen'.reg = gen.reg /\ gen'.counter = gen.counter /\ ~gen'.clkD
<1>1. "xmit" \notin qa' \cup qb' /\ ~Sees("xmit")
  BY EdgeClocks
<1>2. "rst" \notin sync /\ "sys" \notin ctl /\ gen \in PisoType /\ dataSync \in Word
  BY DEF NoReset, Resets, TypeInv
<1>3. CASE "load" \in sync
  <2>1. gen' = Piso(gen, FALSE, TRUE, FALSE, dataSync)
    BY <1>1, <1>2, <1>3 DEF SlowEdge, Piso
  <2>2. /\ gen'.reg = dataSync /\ gen'.counter = 0
        /\ (gen'.clkD <=> gen.clkD) /\ (gen'.clkOut <=> gen.clkD)
    <3> DEFINE h == Piso(gen, FALSE, TRUE, FALSE, dataSync)
    <3>1. h.reg = dataSync /\ h.counter = 0 /\ (h.clkD <=> gen.clkD) /\ (h.clkOut <=> gen.clkD)
      BY <1>2, PisoLoad, ZenonT(30)
    <3>2. QED
      BY <2>1, <3>1
  <2>3. QED
    BY <1>1, <1>3, <2>2
<1>4. CASE "load" \notin sync
  <2>1. gen' = Piso(gen, FALSE, FALSE, FALSE, dataSync)
    BY <1>1, <1>2, <1>4 DEF SlowEdge, Piso
  <2>2. /\ gen'.reg = gen.reg /\ gen'.counter = gen.counter
        /\ ~gen'.clkD /\ (gen'.clkOut <=> gen.clkD)
    <3> DEFINE h == Piso(gen, FALSE, FALSE, FALSE, dataSync)
    <3>1. /\ h.reg = gen.reg /\ h.counter = gen.counter
          /\ ~h.clkD /\ (h.clkOut <=> gen.clkD)
      <4>1. h.reg = gen.reg /\ h.counter = gen.counter
        BY <1>2, PisoIdle
      <4>2. ~h.clkD
        BY <1>2, PisoIdle
      <4>3. h.clkOut <=> gen.clkD
        BY <1>2, PisoIdle
      <4>4. QED
        BY <4>1, <4>2, <4>3
    <3>2. QED
      BY <2>1, <3>1
  <2>3. QED
    BY <1>1, <1>4, <2>2
<1>5. QED
  BY <1>3, <1>4

LEMMA LoadSlow ==
  ASSUME TypeInv, LoadInv, SlowEdge
  PROVE  LoadInv'
<1>1. /\ sync0' = ctl \cap Synced /\ sync' = sync0 /\ ctl' = ctl
      /\ dataSync' = data0 /\ calm' = calm /\ loaded' = loaded
  BY DEF SlowEdge
<1>2. SUFFICES ASSUME calm PROVE LoadInv'
  BY <1>1 DEF LoadInv
<1>3. NoTrain /\ NoReset
  BY <1>2 DEF LoadInv
<1>4. /\ "xmit" \notin qa' \cup qb'
      /\ "load" \in sync =>
           gen'.reg = dataSync /\ gen'.counter = 0 /\ (gen'.clkD <=> gen.clkD)
      /\ "load" \notin sync =>
           gen'.reg = gen.reg /\ gen'.counter = gen.counter /\ ~gen'.clkD
  BY <1>3, GenQuiet DEF NoTrain
<1>5. NoTrain' /\ NoReset'
  BY <1>1, <1>3, <1>4 DEF NoTrain, NoReset, Synced, Resets
<1>6. ASSUME "load" \in ctl PROVE Rests'
  BY <1>1, <1>2, <1>4, <1>6 DEF LoadInv, Rests
<1>7. ASSUME loaded # NoWord
      PROVE  /\ "load" \notin ctl /\ "load" \notin sync0'
             /\ IF "load" \in sync' THEN dataSync' = loaded /\ ~gen'.clkD
                ELSE Holds(loaded)'
  <2>1. "load" \notin ctl /\ "load" \notin sync0'
    BY <1>1, <1>7 DEF LoadInv
  <2>2. CASE "load" \in sync0
    BY <1>1, <1>4, <1>7, <2>1, <2>2 DEF LoadInv, Rests
  <2>3. CASE "load" \notin sync0 /\ "load" \in sync
    BY <1>1, <1>4, <1>7, <2>1, <2>3 DEF LoadInv, Holds
  <2>4. CASE "load" \notin sync0 /\ "load" \notin sync
    BY <1>1, <1>4, <1>7, <2>1, <2>4 DEF LoadInv, Holds
  <2>5. QED
    BY <2>2, <2>3, <2>4
<1>8. QED
  BY <1>1, <1>2, <1>5, <1>6, <1>7 DEF LoadInv

LEMMA LoadStep == TypeInv /\ Sampled /\ LoadInv /\ [Next]_vars => LoadInv'
<1> SUFFICES ASSUME TypeInv, Sampled, LoadInv, [Next]_vars PROVE LoadInv'
  OBVIOUS
<1> DEFINE kept == /\ UNCHANGED <<gen, sync0, sync, data0, dataSync>>
                   /\ "xmit" \in qb' <=> "xmit" \in qb
                   /\ "xmit" \in qa' => "xmit" \in qa
           same(C) == \A c \in C : c \in ctl' <=> c \in ctl
<1>1. CASE SlowEdge
  BY <1>1, LoadSlow
<1>2. CASE IntRstEdge
  <2>1. FireShots({"CLKin2", "control"}, {})
    BY <1>2 DEF IntRstEdge
  <2>2. /\ "xmit" \in qb' <=> "xmit" \in qb
        /\ "xmit" \in qa' => "xmit" \in qa
    <3>1. "xmit" \notin {"CLKin2", "control"} /\ "xmit" \notin {}
      OBVIOUS
    <3>2. QED
      BY <2>1, <3>1, Fires
  <2>3. kept /\ UNCHANGED <<ctl, calm, loaded, stable>>
    BY <1>2, <2>2 DEF IntRstEdge, historyVars
  <2>4. QED
    BY <2>3 DEF LoadInv, NoTrain, NoReset, Rests, Holds
<1>3. CASE UNCHANGED vars \/ \E w \in Words : SetData(w)
  <2>1. /\ UNCHANGED <<gen, sync0, sync, data0, dataSync, qa, qb, ctl, calm, loaded>>
        /\ "load" \in stable' => "load" \in stable
    BY <1>3 DEF vars, SetData, clockVars, historyVars
  <2>2. QED
    BY <2>1 DEF LoadInv, NoTrain, NoReset, Rests, Holds
<1>4. ASSUME NEW b, Toggle(b)
      PROVE  kept /\ stable' = stable \ {b} /\ ctl' = (ctl \ {b}) \cup ({b} \ ctl)
  BY <1>4 DEF Toggle, Shots, Synced
<1>5. ASSUME NEW b, Other(b) \/ (ToggleRead /\ b = "read") PROVE LoadInv'
  <2>1. b \notin Resets \cup {"load", "xmit"} /\ Toggle(b) /\ UNCHANGED <<calm, loaded>>
    BY <1>5 DEF Other, ToggleRead, Resets
  <2>2. /\ kept /\ UNCHANGED <<calm, loaded>> /\ same(Resets \cup {"load", "xmit"})
        /\ "load" \in stable' => "load" \in stable
    BY <1>4, <2>1
  <2>3. QED
    BY <2>2 DEF LoadInv, NoTrain, NoReset, Rests, Holds, Resets
<1>6. ASSUME NEW b, ToggleReset(b) PROVE LoadInv'
  BY <1>6 DEF ToggleReset, LoadInv
<1>7. CASE RaiseLoad
  <2>1. /\ kept /\ loaded' = NoWord /\ same(Resets \cup {"xmit"})
        /\ "load" \notin ctl
        /\ calm' => "load" \in stable /\ Over("xmit") /\ NoReset
    <3>1. /\ "load" \notin ctl /\ Toggle("load") /\ loaded' = NoWord
          /\ calm' => "load" \in stable /\ Over("xmit") /\ NoReset
      BY <1>7 DEF RaiseLoad
    <3>2. kept /\ ctl' = (ctl \ {"load"}) \cup ({"load"} \ ctl)
      BY <1>4, <3>1
    <3>3. QED
      BY <3>1, <3>2 DEF Resets
  <2>2. calm' => "load" \notin sync0
    BY <2>1 DEF Sampled, Synced
  <2>3. QED
    BY <2>1, <2>2 DEF LoadInv, NoTrain, NoReset, Over, Resets
<1>8. CASE DropLoad
  <2>1. /\ kept /\ same(Resets \cup {"xmit"}) /\ calm' = calm
        /\ "load" \in ctl /\ "load" \notin ctl' /\ "load" \notin stable'
    BY <1>4, <1>8 DEF DropLoad, Resets
  <2>2. ASSUME loaded' # NoWord
        PROVE  calm /\ "load" \in sync0 /\ data0 = loaded' /\ Rests
    <3>1. calm /\ {"load", "data"} \subseteq stable /\ loaded' = data
      BY <1>8, <2>2 DEF DropLoad
    <3>2. "load" \in sync0 /\ data0 = data
      BY <2>1, <3>1 DEF Sampled, Synced
    <3>3. QED
      BY <2>1, <3>1, <3>2 DEF LoadInv
  <2>3. (calm => NoTrain /\ NoReset)'
    BY <2>1 DEF LoadInv, NoTrain, NoReset, Resets
  <2>4. QED
    BY <2>1, <2>2, <2>3 DEF LoadInv, Rests
<1>9. CASE RaiseXmit
  BY <1>9 DEF RaiseXmit, LoadInv
<1>10. CASE DropXmit
  <2>1. /\ kept /\ same(Resets \cup {"load"}) /\ UNCHANGED <<calm, loaded>>
        /\ "xmit" \notin ctl' /\ ("load" \in stable' <=> "load" \in stable)
    BY <1>4, <1>10 DEF DropXmit, Resets
  <2>2. QED
    BY <2>1 DEF LoadInv, NoTrain, NoReset, Rests, Holds, Resets
<1>11. QED
  BY <1>1, <1>2, <1>3, <1>5, <1>6, <1>7, <1>8, <1>9, <1>10 DEF Next, Software

-----------------------------------------------------------------------------
(* An edge of the train moves the word on by half a bit. *)
LEMMA WordMoves ==
  ASSUME TypeInv, SlowEdge, NoReset, "load" \notin sync, NEW w \in Word,
         InStep("xmit" \in qb, late, phase, gen), Gave(gen, clocks), OnItsWay(w)
  PROVE  /\ InStep("xmit" \in qb, late, phase, gen)'
         /\ Gave(gen, clocks)'
         /\ OnItsWay(w)'
<1>1. /\ phase' = IF phase = 2 * N - 1 THEN 0 ELSE phase + 1
      /\ late' = late
      /\ phase # 0 => ("xmit" \in qb' <=> "xmit" \in qb)
      /\ Sees("xmit") <=> (IF late /\ phase = 0 THEN "xmit" \in qb' ELSE "xmit" \in qb)
  BY EdgeClocks
<1>2. PICK fires \in BOOLEAN : fires <=> Sees("xmit")
  OBVIOUS
<1>3. PICK open \in BOOLEAN : open <=> "xmit" \in qb
  OBVIOUS
<1>4. PICK open2 \in BOOLEAN : open2 <=> "xmit" \in qb'
  OBVIOUS
<1>5. gen' = Piso(gen, FALSE, FALSE, fires, dataSync)
  BY <1>2 DEF SlowEdge, Piso, NoReset, Resets
<1>6. /\ gen \in PisoType /\ gen' \in PisoType /\ clocks \in Nat /\ late \in BOOLEAN
      /\ phase \in 0..2 * N - 1 /\ dataSync \in Word
      /\ chip \in [1..N -> Bit \cup {"x"}]
  <2>1. gen' \in PisoType
    BY TypeStep DEF TypeInv, Next
  <2>2. QED
    BY <2>1 DEF TypeInv
<1>7. AfterEdge(late, phase', open2, fires, gen, gen', clocks)
  <2>1. InStep(open, late, phase, gen)
    BY <1>3 DEF InStep
  <2>2. BeforeEdge(late, phase, phase', open, open2, fires, gen, clocks)
    BY <1>1, <1>2, <1>3, <1>4, <1>6, <2>1 DEF BeforeEdge
  <2>3. QED
    BY <1>5, <2>2, TrainEdge
<1>8. InStep("xmit" \in qb, late, phase, gen)'
  BY <1>1, <1>4, <1>7 DEF AfterEdge, InStep
<1>9. gen.counter = 2 * clocks + HalfClock(gen) /\ Last = 2 * N
  BY DEF Gave, Last
<1>10. CASE gen.clkD
  <2>1. fires /\ gen.counter < Last /\ Ticks(gen, gen') /\ Gave(gen', clocks + 1)
    BY <1>7, <1>10 DEF AfterEdge
  <2>2. HalfClock(gen) = 1 /\ clocks + 1 <= N
    BY <1>6, <1>9, <1>10, <2>1 DEF HalfClock
  <2>3. gen' = Piso(gen, FALSE, FALSE, TRUE, dataSync)
    BY <1>5, <2>1
  <2>4. ~gen'.clkD /\ gen'.reg = gen.reg /\ gen'.dataOut = gen.dataOut
    BY <1>6, <1>10, <2>1, <2>3, PisoShift
  <2>5. clocks' = clocks + 1 /\ chip' = Append(Tail(chip), gen.dataOut)
    BY <1>6, <2>1, <2>2, <2>4 DEF SlowEdge
  <2>6. gen.dataOut = w[clocks + 1] /\ gen.dataOut \in Bit \cup {"x"}
    BY <1>6, <1>10, <2>2 DEF OnItsWay, PisoType
  <2>7. \A i \in 1..N : chip'[i] = IF i < N THEN chip[i + 1] ELSE gen.dataOut
    BY <1>6, <2>5, <2>6, ShiftIn
  <2>8. HalfClock(gen') = 0
    BY <2>4 DEF HalfClock
  <2>9. \A i \in 1..clocks + 1 : chip'[N - (clocks + 1) + i] = w[i]
    <3>1. TAKE i \in 1..clocks + 1
    <3>2. N - (clocks + 1) + i \in 1..N
      BY <1>6, <2>2
    <3>3. CASE i = clocks + 1
      BY <1>6, <2>6, <2>7, <3>2, <3>3
    <3>4. CASE i # clocks + 1
      <4>1. i \in 1..clocks /\ N - (clocks + 1) + i < N
        BY <1>6, <3>4
      <4>2. chip'[N - (clocks + 1) + i] = chip[N - (clocks + 1) + i + 1]
        BY <2>7, <3>2, <4>1
      <4>3. N - (clocks + 1) + i + 1 = N - clocks + i
        BY <1>6, <4>1
      <4>4. chip[N - clocks + i] = w[i]
        BY <4>1 DEF OnItsWay
      <4>5. QED
        BY <4>2, <4>3, <4>4
    <3>5. QED
      BY <3>3, <3>4
  <2>10. \A i \in 1..N - (clocks + 1) : gen'.reg[i] = w[i + (clocks + 1)]
    BY <2>2, <2>4 DEF OnItsWay
  <2>11. OnItsWay(w)'
    <3>1. clocks' + HalfClock(gen') = clocks + 1 /\ clocks' = clocks + 1
      BY <1>6, <2>5, <2>8
    <3>2. QED
      BY <2>4, <2>9, <2>10, <3>1 DEF OnItsWay
  <2>12. QED
    BY <1>8, <2>1, <2>5, <2>11
<1>11. CASE ~gen.clkD
  <2>1. ~Ticks(gen, gen') /\ Gave(gen', clocks)
    BY <1>7, <1>11 DEF AfterEdge
  <2>2. clocks' = clocks /\ chip' = chip
    BY <2>1 DEF SlowEdge
  <2>3. HalfClock(gen) = 0
    BY <1>11 DEF HalfClock
  <2>4. /\ \A i \in 1..N - clocks : gen.reg[i] = w[i + clocks]
        /\ \A i \in 1..clocks : chip[N - clocks + i] = w[i]
    <3>1. clocks + HalfClock(gen) = clocks
      BY <1>6, <2>3
    <3>2. QED
      BY <3>1 DEF OnItsWay
  <2>5. CASE fires /\ gen.counter < Last
    <3>1. gen' = Piso(gen, FALSE, FALSE, TRUE, dataSync)
      BY <1>5, <2>5
    <3>2. /\ gen'.clkD /\ gen'.dataOut = gen.reg[1]
          /\ \A i \in 1..N - 1 : gen'.reg[i] = gen.reg[i + 1]
      <4> DEFINE h == Piso(gen, FALSE, FALSE, TRUE, dataSync)
      <4>1. /\ h.clkD <=> ~gen.clkD
            /\ ~gen.clkD => h.dataOut = gen.reg[1] /\ h.reg = Append(Tail(gen.reg), "0")
        <5>1. gen \in PisoType /\ clocks \in Nat /\ gen.counter < Last
          BY <1>6, <2>5
        <5>2. QED
          <6>1. h.clkD <=> ~gen.clkD
            BY <5>1, PisoShift
          <6>2. ~gen.clkD => h.dataOut = gen.reg[1]
            BY <5>1, PisoShift
          <6>3. ~gen.clkD => h.reg = Append(Tail(gen.reg), "0")
            BY <5>1, PisoShift
          <6>4. QED
            BY <6>1, <6>2, <6>3
      <4> HIDE DEF h
      <4>2. gen' = h
        BY <3>1 DEF h
      <4>3. gen.reg \in [1..N -> Bit] /\ "0" \in Bit
        BY <1>6 DEF PisoType, Word, Bit
      <4>4. \A i \in 1..N - 1 : Append(Tail(gen.reg), "0")[i] = gen.reg[i + 1]
        BY <4>3, ShiftIn
      <4>5. QED
        BY <1>11, <4>1, <4>2, <4>4
    <3>3. HalfClock(gen') = 1 /\ clocks < N
      BY <1>6, <1>9, <2>3, <2>5, <3>2 DEF HalfClock
    <3>4. gen'.dataOut = w[clocks + 1]
      BY <1>6, <2>4, <3>2, <3>3
    <3>5. \A i \in 1..N - (clocks + 1) : gen'.reg[i] = w[i + (clocks + 1)]
      <4>1. TAKE i \in 1..N - (clocks + 1)
      <4>2. i \in 1..N - 1 /\ i + 1 \in 1..N - clocks /\ (i + 1) + clocks = i + (clocks + 1)
        BY <1>6
      <4>3. QED
        BY <2>4, <3>2, <4>2
    <3>6. OnItsWay(w)'
      BY <1>6, <2>2, <2>4, <3>3, <3>4, <3>5 DEF OnItsWay
    <3>7. QED
      BY <1>8, <2>1, <2>2, <3>6
  <2>6. CASE ~(fires /\ gen.counter < Last)
    <3>1. gen'.reg = gen.reg /\ ~gen'.clkD
      <4> DEFINE h == Piso(gen, FALSE, FALSE, fires, dataSync)
      <4>1. h.reg = gen.reg /\ ~h.clkD
        <5>1. gen \in PisoType
          BY <1>6
        <5>2. h.reg = gen.reg
          BY <2>6, <5>1, PisoIdle
        <5>3. ~h.clkD
          BY <2>6, <5>1, PisoIdle
        <5>4. QED
          BY <5>2, <5>3
      <4>2. QED
        BY <1>5, <4>1
    <3>2. HalfClock(gen') = 0
      BY <3>1 DEF HalfClock
    <3>3. OnItsWay(w)'
      BY <1>6, <2>2, <2>4, <3>1, <3>2 DEF OnItsWay
    <3>4. QED
      BY <1>8, <2>1, <2>2, <3>3
  <2>7. QED
    BY <2>5, <2>6
<1>12. QED
  BY <1>10, <1>11

LEMMA SendSlow ==
  ASSUME TypeInv, SendInv, SlowEdge
  PROVE  SendInv'
<1>1. /\ sync0' = ctl \cap Synced /\ sync' = sync0 /\ ctl' = ctl /\ expected' = expected
      /\ dataSync' = data0
  BY DEF SlowEdge
<1>2. SUFFICES ASSUME expected # NoWord PROVE SendInv'
  BY <1>1 DEF SendInv
<1>3. NoReset /\ "load" \notin ctl \cup sync0 /\ expected \in Word
  BY <1>2 DEF SendInv, TypeInv
<1>4. NoReset' /\ "load" \notin ctl' \cup sync0' /\ "load" \notin sync'
  BY <1>1, <1>3 DEF NoReset, Resets
<1>5. CASE "load" \in sync
  <2>1. /\ dataSync = expected /\ ~gen.clkD /\ clocks = 0
        /\ "xmit" \notin sync0 \cup qa \cup qb
    BY <1>2, <1>5 DEF SendInv
  <2>2. /\ "xmit" \notin qb' /\ ~gen'.clkOut /\ ~gen'.clkD
        /\ gen'.reg = expected /\ gen'.counter = 0
    BY <1>3, <1>5, <2>1, GenQuiet
  <2>3. clocks' = 0
    BY <2>1, <2>2 DEF SlowEdge, Ticks
  <2>4. HalfClock(gen') = 0
    BY <2>2 DEF HalfClock
  <2>5. Gave(gen, clocks)'
    BY <2>2, <2>3, <2>4 DEF Gave
  <2>6. InStep("xmit" \in qb, late, phase, gen)'
    BY <2>2 DEF InStep
  <2>7. OnItsWay(expected)'
    BY <1>1, <2>2, <2>3, <2>4 DEF OnItsWay
  <2>8. QED
    BY <1>4, <2>5, <2>6, <2>7 DEF SendInv
<1>6. CASE "load" \notin sync
  <2>1. /\ InStep("xmit" \in qb, late, phase, gen)
        /\ Gave(gen, clocks)
        /\ OnItsWay(expected)
    BY <1>2, <1>6 DEF SendInv
  <2>2. PICK w \in Word : w = expected
    BY <1>3
  <2>3. /\ InStep("xmit" \in qb, late, phase, gen)'
        /\ Gave(gen, clocks)'
        /\ OnItsWay(w)'
    BY <1>3, <1>6, <2>1, <2>2, WordMoves
  <2>4. OnItsWay(expected)'
    BY <1>1, <2>2, <2>3 DEF OnItsWay
  <2>5. QED
    BY <1>4, <2>3, <2>4 DEF SendInv
<1>7. QED
  BY <1>5, <1>6

LEMMA SendStep == TypeInv /\ Sampled /\ LoadInv /\ SendInv /\ [Next]_vars => SendInv'
<1> SUFFICES ASSUME TypeInv, Sampled, LoadInv, SendInv, [Next]_vars PROVE SendInv'
  OBVIOUS
<1> DEFINE kept == /\ UNCHANGED <<gen, chip, late, phase, sync0, sync, data0, dataSync>>
                   /\ "xmit" \in qb' <=> "xmit" \in qb
                   /\ "xmit" \in qa' => "xmit" \in qa
           same(C) == \A c \in C : c \in ctl' <=> c \in ctl
<1>1. CASE SlowEdge
  BY <1>1, SendSlow
<1>2. CASE IntRstEdge
  <2>1. FireShots({"CLKin2", "control"}, {})
    BY <1>2 DEF IntRstEdge
  <2>2. /\ "xmit" \in qb' <=> "xmit" \in qb
        /\ "xmit" \in qa' => "xmit" \in qa
    <3>1. "xmit" \notin {"CLKin2", "control"} /\ "xmit" \notin {}
      OBVIOUS
    <3>2. QED
      BY <2>1, <3>1, Fires
  <2>3. kept /\ UNCHANGED <<ctl, expected, clocks>>
    BY <1>2, <2>2 DEF IntRstEdge, historyVars
  <2>4. QED
    BY <2>3 DEF SendInv, NoReset, InStep, Gave, OnItsWay
<1>3. CASE UNCHANGED vars \/ \E w \in Words : SetData(w)
  <2>1. UNCHANGED <<gen, chip, late, phase, sync0, sync, data0, dataSync, qa, qb, ctl,
                    expected, clocks>>
    BY <1>3 DEF vars, SetData, clockVars, historyVars
  <2>2. QED
    BY <2>1 DEF SendInv, NoReset, InStep, Gave, OnItsWay
<1>4. ASSUME NEW b, Toggle(b)
      PROVE  kept /\ stable' = stable \ {b} /\ ctl' = (ctl \ {b}) \cup ({b} \ ctl)
  BY <1>4 DEF Toggle, Shots, Synced
<1>5. ASSUME NEW b, b \notin Resets \cup {"load"}, Toggle(b), UNCHANGED clocks,
             expected' \in {expected, NoWord}
      PROVE  SendInv'
  <2>1. kept /\ same(Resets \cup {"load"})
    BY <1>4, <1>5
  <2>2. QED
    BY <1>5, <2>1 DEF SendInv, NoReset, InStep, Gave, OnItsWay, Resets
<1>6. ASSUME NEW b, Other(b) PROVE SendInv'
  BY <1>5, <1>6 DEF Other
<1>7. CASE ToggleRead
  BY <1>5, <1>7 DEF ToggleRead, Resets
<1>8. CASE DropXmit
  <2>1. Toggle("xmit") /\ UNCHANGED clocks /\ expected' \in {expected, NoWord}
    BY <1>8 DEF DropXmit
  <2>2. QED
    BY <1>5, <2>1 DEF Resets
<1>9. ASSUME NEW b, ToggleReset(b) \/ RaiseLoad PROVE SendInv'
  BY <1>9 DEF ToggleReset, RaiseLoad, SendInv
<1>10. CASE DropLoad
  <2>1. expected' = NoWord
    BY <1>10 DEF DropLoad, SendInv
  <2>2. QED
    BY <2>1 DEF SendInv
<1>11. CASE RaiseXmit
  <2>1. SUFFICES ASSUME expected' # NoWord PROVE SendInv'
    BY DEF SendInv
  <2>2. /\ expected' = loaded /\ loaded # NoWord /\ clocks' = 0
        /\ "load" \in stable \ ctl /\ Over("xmit") /\ "xmit" \notin ctl
    BY <1>11, <2>1 DEF RaiseXmit
  <2>3. kept /\ same(Resets \cup {"load"})
    <3>1. kept /\ ctl' = (ctl \ {"xmit"}) \cup ({"xmit"} \ ctl)
      BY <1>4, <1>11 DEF RaiseXmit
    <3>2. QED
      BY <3>1 DEF Resets
  <2>4. /\ calm /\ NoReset /\ "load" \notin sync0 /\ loaded \in Word
        /\ IF "load" \in sync THEN dataSync = loaded /\ ~gen.clkD ELSE Holds(loaded)
    BY <2>2 DEF LoadInv, TypeInv
  <2>5. NoReset' /\ "load" \notin ctl' \cup sync0'
    BY <2>2, <2>3, <2>4 DEF NoReset, Resets
  <2>6. "xmit" \notin sync0' \cup qa' \cup qb'
    BY <2>2, <2>3 DEF Over
  <2>7. CASE "load" \in sync
    BY <2>2, <2>3, <2>4, <2>5, <2>6, <2>7 DEF SendInv
  <2>8. CASE "load" \notin sync
    <3>1. gen' = gen /\ gen.reg = expected' /\ gen.counter = 0 /\ ~gen.clkD
      BY <2>2, <2>3, <2>4, <2>8 DEF Holds
    <3>2. HalfClock(gen') = 0
      BY <3>1 DEF HalfClock
    <3>3. InStep("xmit" \in qb, late, phase, gen)'
      BY <2>6, <3>1 DEF InStep
    <3>4. Gave(gen, clocks)'
      BY <2>2, <3>1, <3>2 DEF Gave
    <3>5. OnItsWay(expected)'
      BY <2>2, <3>1, <3>2 DEF OnItsWay
    <3>6. QED
      BY <2>3, <2>5, <2>8, <3>3, <3>4, <3>5 DEF SendInv
  <2>9. QED
    BY <2>7, <2>8
<1>12. QED
  BY <1>1, <1>2, <1>3, <1>6, <1>7, <1>8, <1>9, <1>10, <1>11 DEF Next, Software

(* A load and a transmission that software keeps apart clock the word into  *)
(* the chip whole, in exactly N clocks, for every word and word length and  *)
(* whichever way the races of the clocks go (qpix_reg_rtl.v, oneshot.vhd,   *)
(* piso.v).                                                                 *)
THEOREM WordArrivesHolds == Spec => []WordArrives
<1>1. Init => LoadInv /\ SendInv
  BY DEF Init, LoadInv, SendInv, Rests
<1>2. TypeInv /\ SendInv => WordArrives
  <2> SUFFICES ASSUME TypeInv, SendInv, expected # NoWord
               PROVE  clocks <= N /\ (clocks = N => chip = expected)
    BY DEF WordArrives
  <2>1. expected \in [1..N -> Bit] /\ chip \in [1..N -> Bit \cup {"x"}] /\ clocks \in Nat
    BY DEF TypeInv, Word
  <2>2. CASE "load" \in sync
    BY <2>2 DEF SendInv
  <2>3. CASE "load" \notin sync
    <3>1. Gave(gen, clocks) /\ OnItsWay(expected)
      BY <2>3 DEF SendInv
    <3>2. clocks <= N
      BY <2>1, <3>1 DEF Gave, HalfClock, TypeInv, PisoType, Last
    <3>3. ASSUME clocks = N PROVE chip = expected
      <4>1. \A i \in 1..N : chip[N - N + i] = expected[i]
        BY <3>1, <3>3 DEF OnItsWay
      <4>2. \A i \in 1..N : chip[i] = expected[i]
        BY <4>1
      <4>3. QED
        BY <2>1, <4>2
    <3>4. QED
      BY <3>2, <3>3
  <2>4. QED
    BY <2>2, <2>3
<1>3. QED
  BY <1>1, <1>2, TypeInit, TypeStep, SampledInit, SampledStep, LoadStep, SendStep, PTL DEF Spec

(***************************************************************************)
(* Pulse sequencers (QpixPulses.tla).                                      *)
(***************************************************************************)
USE WAssumption, BitsAssumption, CounterAssumption, SettingsAssumption

LEMMA SumNat == ASSUME NEW a \in Nat, NEW b \in Nat PROVE a + b \in Nat
  OBVIOUS

(* A count and the one after it, short of a wrap. *)
LEMMA CountsUp ==
  ASSUME NoWrap, NEW n \in Nat, n < MaxHold
  PROVE  (n + 1) % 2^W = n + 1
<1> DEFINE m == 2^W
<1>1. m \in Nat /\ n + 1 < m
  BY DEF NoWrap
<1> HIDE DEF m
<1>2. (n + 1) % m = n + 1
  BY <1>1
<1> QED
  BY <1>2 DEF m

(* At a clock edge the counter of a set bit goes up by one, that of a       *)
(* cleared one to 0.                                                        *)
LEMMA CountersStep ==
  ASSUME NoWrap, PulseTypeOK, Tick, NEW f \in Sequences
  PROVE  cnt'[f] = IF f \in bits THEN cnt[f] + 1 ELSE 0
<1>1. cnt[f] \in Nat /\ cnt[f] < MaxHold
  BY DEF PulseTypeOK, Tick
<1>2. Advance(f) = cnt[f] + 1
  BY <1>1, CountsUp DEF Advance
<1> QED
  BY <1>2 DEF Tick, Counters

-----------------------------------------------------------------------------
LEMMA PulseTypeStep == PulseTypeOK /\ [PulseNext]_pulseVars => PulseTypeOK'
<1> SUFFICES ASSUME PulseTypeOK, [PulseNext]_pulseVars PROVE PulseTypeOK'
  OBVIOUS
<1>1. CASE Tick
  <2>1. UNCHANGED <<bits, resetWidth, calGap, windowWait, windowWidth, retuned, cut>>
    BY <1>1 DEF Tick, settings
  <2>2. cnt' \in [Sequences -> Nat]
    <3> DEFINE m == 2^W
    <3>1. \A n \in Nat : (n + 1) % m \in Nat
      <4>1. m \in Nat \ {0}
        OBVIOUS
      <4> HIDE DEF m
      <4>2. QED
        BY <4>1
    <3>2. \A f \in Sequences : cnt[f] \in Nat
      BY DEF PulseTypeOK
    <3>3. \A f \in Sequences : Advance(f) \in Nat
      BY <3>1, <3>2 DEF Advance
    <3> QED
      BY <1>1, <3>3 DEF Tick, Counters
  <2>3. rst' \in [Sequences -> BOOLEAN]
    BY <1>1 DEF Tick, ResetLines
  <2>4. trig' \in [Triggering -> BOOLEAN]
    BY <1>1 DEF Tick, Triggers
  <2>5. calControl' \in BOOLEAN /\ window' \in BOOLEAN
    BY <1>1 DEF Tick, Calibration, Window
  <2>6. opened' \in Nat
    BY <1>1 DEF Tick, History, PulseTypeOK
  <2>7. high' \in [Ext -> Nat]
    BY <1>1 DEF Tick, History, PulseTypeOK
  <2>8. seen' \subseteq Sequences
    BY <1>1 DEF Tick, History, PulseTypeOK
  <2> QED
    BY <2>1, <2>2, <2>3, <2>4, <2>5, <2>6, <2>7, <2>8 DEF PulseTypeOK
<1>2. CASE Settings
  BY <1>2 DEF Settings, Register8, lines, PulseTypeOK
<1>3. ASSUME NEW f \in Bits, SetBit(f) PROVE PulseTypeOK'
  BY <1>3 DEF SetBit, settings, lines, PulseTypeOK
<1>4. ASSUME NEW f \in Bits, ClearBit(f) PROVE PulseTypeOK'
  <2>1. cut' \in BOOLEAN
    BY <1>4 DEF ClearBit, PulseTypeOK
  <2> QED
    BY <1>4, <2>1 DEF ClearBit, settings, lines, PulseTypeOK
<1>5. CASE UNCHANGED pulseVars
  BY <1>5 DEF pulseVars, settings, PulseTypeOK
<1> QED
  BY <1>1, <1>2, <1>3, <1>4, <1>5 DEF PulseNext

LEMMA PulseTypeInit == PulseInit => PulseTypeOK
<1> SUFFICES ASSUME PulseInit PROVE PulseTypeOK
  OBVIOUS
<1>1. /\ cnt \in [Sequences -> Nat] /\ rst \in [Sequences -> BOOLEAN]
      /\ trig \in [Triggering -> BOOLEAN] /\ high \in [Ext -> Nat]
  BY DEF PulseInit
<1>2. bits \subseteq Sequences /\ seen \subseteq Sequences
  BY DEF PulseInit
<1> QED
  BY <1>1, <1>2 DEF PulseInit, PulseTypeOK

(* The sequencers' state keeps its types: counters stay counts, lines stay  *)
(* single bits (qpix_reg_rtl.v:704-834).                                    *)
THEOREM PulseTypeCorrect == PulseSpec => []PulseTypeOK
  BY PulseTypeInit, PulseTypeStep, PTL DEF PulseSpec

-----------------------------------------------------------------------------
(* What the settings are once the type invariant holds. *)
LEMMA SettingsNat ==
  ASSUME PulseTypeOK
  PROVE  /\ resetWidth \in Nat /\ calGap \in Nat
         /\ windowWait \in Nat /\ windowWidth \in Nat
  BY DEF PulseTypeOK

(* PulseOrder is not inductive: a trigger line held up while its counter is *)
(* at 0 would let the reset start under it.                                 *)
OrderInv == PulseOrder /\ (trig["trig"] => cnt["trig"] > 0)

LEMMA OrderStep ==
  NoWrap /\ PulseTypeOK /\ OrderInv /\ [PulseNext]_pulseVars => OrderInv'
<1> SUFFICES ASSUME NoWrap, PulseTypeOK, OrderInv, [PulseNext]_pulseVars PROVE OrderInv'
  OBVIOUS
<1> USE DEF OrderInv, PulseOrder
<1>1. CASE Tick
  <2>1. /\ resetWidth \in Nat /\ calGap \in Nat /\ windowWait \in Nat
        /\ cnt \in [Sequences -> Nat]
    BY SettingsNat DEF PulseTypeOK
  <2>2. /\ {"cal", "trig", "win"} \subseteq Sequences
        /\ {"trig", "win"} \subseteq Triggering
        /\ {"cal", "trig", "win"} \cap Ext = {}
    BY DEF Sequences, Triggering, Ext
  <2>3. \A f \in {"cal", "trig", "win"} :
          rst'[f] => f \in bits /\ cnt[f] < ResetEnd(f) /\ (cnt[f] = 0 \/ rst[f])
    BY <1>1, <2>2 DEF Tick, ResetLines, Start
  <2>4. \A f \in {"trig", "win"} :
          trig'[f] <=> /\ f \in bits
                       /\ cnt[f] >= resetWidth \/ (trig[f] /\ ~(f = "win" /\ cnt[f] = 0))
    BY <1>1, <2>2 DEF Tick, Triggers, TriggerStart, Start
  <2>5. /\ ResetEnd("cal") = resetWidth + calGap
        /\ ResetEnd("trig") = resetWidth /\ ResetEnd("win") = resetWidth
    BY DEF ResetEnd
  <2>6. cnt["cal"] \in Nat /\ cnt["trig"] \in Nat /\ cnt["win"] \in Nat
    BY <2>1, <2>2
  <2>7. window' => trig'["win"] /\ ~rst'["win"]
    <3>1. window' => /\ "win" \in bits
                     /\ cnt["win"] >= resetWidth + windowWait
                          \/ (window /\ cnt["win"] # 0)
      BY <1>1 DEF Tick, Window, WindowStart, Start
    <3> QED
      BY <3>1, <2>1, <2>3, <2>4, <2>5, <2>6
  <2>8. calControl' => rst'["cal"]
    <3>1. calControl' => /\ "cal" \in bits /\ cnt["cal"] < resetWidth
                         /\ cnt["cal"] = 0 \/ calControl
      BY <1>1 DEF Tick, Calibration, Start
    <3>2. "cal" \in bits /\ cnt["cal"] < ResetEnd("cal")
             /\ (cnt["cal"] = 0 \/ rst["cal"]) => rst'["cal"]
      BY <1>1, <2>2 DEF Tick, ResetLines, Start
    <3> QED
      BY <3>1, <3>2, <2>1, <2>5, <2>6
  <2>9. \A f \in {"trig", "win"} : ~(rst'[f] /\ trig'[f])
    BY <2>1, <2>3, <2>4, <2>5, <2>6
  <2>10. trig'["trig"] => cnt'["trig"] > 0
    BY <1>1, <2>2, <2>4, <2>6, CountersStep
  <2> QED
    BY <2>7, <2>8, <2>9, <2>10
<1>2. ASSUME UNCHANGED lines PROVE OrderInv'
  BY <1>2 DEF lines
<1>3. PulseNext => Tick \/ UNCHANGED lines
  BY DEF PulseNext, Settings, SetBit, ClearBit
<1>4. UNCHANGED pulseVars => UNCHANGED lines
  BY DEF pulseVars, lines
<1> QED
  BY <1>1, <1>2, <1>3, <1>4

LEMMA OrderInit == PulseInit => OrderInv
<1>1. \A f \in {"trig", "win"} : f \in Sequences /\ f \in Triggering
  BY DEF Sequences, Triggering
<1> QED
  BY <1>1 DEF PulseInit, OrderInv, PulseOrder

(* The sample window lies inside its trigger and outside its reset, the     *)
(* calibration line inside its reset, and reset comes before trigger,       *)
(* whatever software rewrites or clears meanwhile (qpix_reg_rtl.v:710-806). *)
THEOREM PulseOrderHolds ==
  ASSUME NoWrap PROVE PulseSpec => []PulseOrder
<1>1. OrderInv => PulseOrder
  BY DEF OrderInv
<1> QED
  BY <1>1, PulseTypeInit, PulseTypeStep, OrderInit, OrderStep, PTL DEF PulseSpec

-----------------------------------------------------------------------------
(* A bit seen set at an edge has its counter under way. *)
SeenCounted == \A f \in seen : cnt[f] > 0

LEMMA SeenStep ==
  NoWrap /\ PulseTypeOK /\ SeenCounted /\ [PulseNext]_pulseVars => SeenCounted'
<1> SUFFICES ASSUME NoWrap, PulseTypeOK, SeenCounted, [PulseNext]_pulseVars PROVE SeenCounted'
  OBVIOUS
<1>1. CASE Tick
  <2>1. seen' = bits /\ bits \subseteq Sequences
    BY <1>1 DEF Tick, History, PulseTypeOK
  <2>2. \A f \in bits : cnt'[f] = cnt[f] + 1 /\ cnt[f] \in Nat
    BY <1>1, <2>1, CountersStep DEF PulseTypeOK
  <2> QED
    BY <2>1, <2>2 DEF SeenCounted
<1>2. ASSUME UNCHANGED lines PROVE SeenCounted'
  BY <1>2 DEF lines, SeenCounted
<1>3. PulseNext => Tick \/ UNCHANGED lines
  BY DEF PulseNext, Settings, SetBit, ClearBit
<1>4. UNCHANGED pulseVars => UNCHANGED lines
  BY DEF pulseVars, lines
<1> QED
  BY <1>1, <1>2, <1>3, <1>4

(* A reset pulse rises only at the first edge that sees its control bit set *)
(* (qpix_reg_rtl.v:712).                                                    *)
THEOREM RisesAtTransitionHolds ==
  ASSUME NoWrap PROVE PulseSpec => RisesAtTransition
<1>1. PulseInit => SeenCounted
  BY DEF PulseInit, SeenCounted
<1>2. PulseTypeOK /\ SeenCounted /\ [PulseNext]_pulseVars =>
        [\A f \in {"cal", "trig", "win"} : rst'[f] /\ ~rst[f] => f \notin seen]_pulseVars
  <2> SUFFICES ASSUME PulseTypeOK, SeenCounted, PulseNext,
                      NEW f \in {"cal", "trig", "win"}, rst'[f], ~rst[f]
               PROVE  f \notin seen
    OBVIOUS
  <2>1. CASE Tick
    <3>1. f \in Sequences
      BY DEF Sequences
    <3>2. Start(f)
      BY <2>1, <3>1 DEF Tick, ResetLines
    <3> QED
      BY <3>2 DEF Start, SeenCounted
  <2>2. PulseNext => Tick \/ UNCHANGED lines
    BY DEF PulseNext, Settings, SetBit, ClearBit
  <2> QED
    BY <2>1, <2>2 DEF lines
<1> QED
  BY <1>1, <1>2, PulseTypeInit, PulseTypeStep, SeenStep, PTL DEF PulseSpec, RisesAtTransition

-----------------------------------------------------------------------------
(* Where a sequence stands, read off its counter: how much of the window is *)
(* over, and that a reset pulse is as old as its counter says.              *)
WindowSoFar ==
  /\ opened = IF cnt["win"] <= WindowStart THEN 0
              ELSE IF cnt["win"] <= WindowEnd THEN cnt["win"] - WindowStart
              ELSE windowWidth
  /\ window => cnt["win"] > WindowStart

PulseSoFar(f) ==
  /\ rst[f] <=> cnt[f] > 0 /\ cnt[f] <= resetWidth
  /\ rst[f] => f \in bits
  /\ high[f] = IF cnt[f] <= resetWidth THEN cnt[f] ELSE resetWidth

LengthInv ==
  ~retuned => WindowSoFar /\ (~cut => \A f \in Ext : PulseSoFar(f))

LEMMA WindowTick ==
  ASSUME NoWrap, PulseTypeOK, Tick, WindowSoFar
  PROVE  WindowSoFar'
<1>1. /\ cnt["win"] \in Nat /\ opened \in Nat /\ "win" \in Sequences
      /\ cnt'["win"] = IF "win" \in bits THEN cnt["win"] + 1 ELSE 0
  BY CountersStep DEF PulseTypeOK, Sequences
<1>2. /\ WindowStart \in Nat /\ WindowEnd = WindowStart + windowWidth
      /\ windowWidth \in Nat
      /\ WindowStart' = WindowStart /\ WindowEnd' = WindowEnd
      /\ windowWidth' = windowWidth
  BY SettingsNat DEF WindowStart, WindowEnd, Tick, settings
<1>3. window' <=> /\ "win" \in bits /\ cnt["win"] < WindowEnd
                  /\ cnt["win"] >= WindowStart \/ (window /\ cnt["win"] # 0)
  BY DEF Tick, Window, Start
<1>4. opened' = IF "win" \notin bits THEN 0
                ELSE opened + (IF window' THEN 1 ELSE 0)
  BY DEF Tick, History
<1> HIDE DEF WindowStart, WindowEnd
<1>5. CASE "win" \notin bits
  BY <1>1, <1>2, <1>3, <1>4, <1>5 DEF WindowSoFar
<1>6. CASE "win" \in bits /\ cnt["win"] < WindowStart
  <2>1. ~window' /\ opened' = 0 /\ cnt'["win"] <= WindowStart
    BY <1>1, <1>2, <1>3, <1>4, <1>6 DEF WindowSoFar
  <2> QED
    BY <2>1, <1>2 DEF WindowSoFar
<1>7. CASE "win" \in bits /\ cnt["win"] >= WindowStart /\ cnt["win"] < WindowEnd
  <2>1. /\ opened' = cnt["win"] - WindowStart + 1
        /\ cnt'["win"] > WindowStart /\ cnt'["win"] <= WindowEnd
    BY <1>1, <1>2, <1>3, <1>4, <1>7 DEF WindowSoFar
  <2> QED
    BY <2>1, <1>1, <1>2, <1>7 DEF WindowSoFar
<1>8. CASE "win" \in bits /\ cnt["win"] >= WindowEnd
  <2>1. ~window' /\ opened' = windowWidth /\ cnt'["win"] > WindowEnd
    BY <1>1, <1>2, <1>3, <1>4, <1>8 DEF WindowSoFar
  <2> QED
    BY <2>1, <1>1, <1>2 DEF WindowSoFar
<1> QED
  BY <1>1, <1>2, <1>5, <1>6, <1>7, <1>8

(* A plain reset pulse at a clock edge. *)
LEMMA ExtTick ==
  ASSUME PulseTypeOK, Tick, NEW f \in Ext
  PROVE  /\ f \in Sequences /\ cnt[f] \in Nat /\ cnt[f] < MaxHold
         /\ high[f] \in Nat /\ resetWidth \in Nat
         /\ rst'[f] <=> cnt[f] < resetWidth /\ ((f \in bits /\ cnt[f] = 0) \/ rst[f])
         /\ high'[f] = IF ~rst'[f] THEN IF f \in bits THEN high[f] ELSE 0
                       ELSE IF ~rst[f] THEN 1
                       ELSE IF high[f] < MaxHold THEN high[f] + 1 ELSE high[f]
<1>1. /\ f \in Sequences /\ cnt[f] \in Nat /\ cnt[f] < MaxHold
      /\ high[f] \in Nat /\ resetWidth \in Nat
  BY SettingsNat DEF PulseTypeOK, Tick, Ext, Sequences
<1>2. ResetEnd(f) = resetWidth
  BY DEF ResetEnd, Ext
<1>3. rst'[f] <=> cnt[f] < resetWidth /\ ((f \in bits /\ cnt[f] = 0) \/ rst[f])
  BY <1>1, <1>2 DEF Tick, ResetLines, Start
<1> QED
  BY <1>1, <1>3 DEF Tick, History

LEMMA PulseTick ==
  ASSUME NoWrap, PulseTypeOK, Tick, NEW f \in Ext, PulseSoFar(f)
  PROVE  PulseSoFar(f)'
<1>1. /\ f \in Sequences /\ cnt[f] \in Nat /\ cnt[f] < MaxHold
      /\ high[f] \in Nat /\ resetWidth \in Nat
  BY ExtTick
<1>2. rst'[f] <=> cnt[f] < resetWidth /\ ((f \in bits /\ cnt[f] = 0) \/ rst[f])
  BY ExtTick
<1>3. high'[f] = IF ~rst'[f] THEN IF f \in bits THEN high[f] ELSE 0
                 ELSE IF ~rst[f] THEN 1
                 ELSE IF high[f] < MaxHold THEN high[f] + 1 ELSE high[f]
  BY ExtTick
<1>4. bits' = bits /\ resetWidth' = resetWidth
  BY DEF Tick, settings
<1>5. cnt'[f] = IF f \in bits THEN cnt[f] + 1 ELSE 0
  BY <1>1, CountersStep
<1>6. CASE f \in bits /\ cnt[f] < resetWidth
  <2>1. rst'[f] /\ high'[f] = cnt[f] + 1
    BY <1>1, <1>2, <1>3, <1>6 DEF PulseSoFar
  <2> QED
    BY <2>1, <1>1, <1>4, <1>5, <1>6 DEF PulseSoFar
<1>7. CASE f \in bits /\ cnt[f] >= resetWidth
  <2>1. ~rst'[f] /\ high'[f] = resetWidth
    BY <1>1, <1>2, <1>3, <1>7 DEF PulseSoFar
  <2> QED
    BY <2>1, <1>1, <1>4, <1>5, <1>7 DEF PulseSoFar
<1>8. CASE f \notin bits
  <2>1. ~rst'[f] /\ high'[f] = 0
    BY <1>2, <1>3, <1>8 DEF PulseSoFar
  <2> QED
    BY <2>1, <1>1, <1>4, <1>5, <1>8 DEF PulseSoFar
<1> QED
  BY <1>1, <1>6, <1>7, <1>8

LEMMA LengthStep ==
  NoWrap /\ PulseTypeOK /\ LengthInv /\ [PulseNext]_pulseVars => LengthInv'
<1> SUFFICES ASSUME NoWrap, PulseTypeOK, LengthInv, [PulseNext]_pulseVars, ~retuned'
             PROVE  (WindowSoFar /\ (~cut => \A f \in Ext : PulseSoFar(f)))'
  BY DEF LengthInv
<1>1. CASE Tick
  <2>1. ~retuned /\ cut' = cut
    BY <1>1 DEF Tick
  <2> QED
    BY <1>1, <2>1, WindowTick, PulseTick DEF LengthInv
<1>2. CASE Settings
  <2>1. ~retuned /\ Running = {} /\ UNCHANGED <<bits, lines, cut>>
    BY <1>2 DEF Settings
  <2>2. bits = {} /\ \A f \in Sequences : cnt[f] = 0
    BY <2>1 DEF Running, PulseTypeOK
  <2>3. "win" \in Sequences /\ Ext \subseteq Sequences
    BY DEF Sequences, Ext
  <2>4. WindowSoFar'
    <3>1. WindowStart \in Nat /\ WindowStart' \in Nat
      <4>1. PulseTypeOK'
        BY PulseTypeStep
      <4>2. resetWidth' \in Nat /\ windowWait' \in Nat
        BY <4>1 DEF PulseTypeOK
      <4>3. resetWidth \in Nat /\ windowWait \in Nat
        BY SettingsNat
      <4>4. resetWidth + windowWait \in Nat
        BY <4>3
      <4>5. resetWidth' + windowWait' \in Nat
        BY <4>2, SumNat
      <4> QED
        BY <4>4, <4>5, Zenon DEF WindowStart
    <3>2. cnt["win"] = 0 /\ opened = 0 /\ ~window
      BY <2>1, <2>2, <2>3, <3>1 DEF LengthInv, WindowSoFar
    <3> QED
      BY <2>1, <3>1, <3>2 DEF WindowSoFar, lines
  <2>5. resetWidth \in Nat /\ resetWidth' \in Nat
    BY PulseTypeStep DEF PulseTypeOK
  <2>6. ~cut => \A f \in Ext : ~rst[f] /\ high[f] = 0 /\ cnt[f] = 0
    BY <2>1, <2>2, <2>3, <2>5 DEF LengthInv, PulseSoFar
  <2> QED
    BY <2>1, <2>4, <2>5, <2>6 DEF PulseSoFar, lines
<1>3. ASSUME NEW g \in Bits, SetBit(g)
      PROVE  (WindowSoFar /\ (~cut => \A f \in Ext : PulseSoFar(f)))'
  BY <1>3 DEF SetBit, settings, lines, LengthInv, WindowSoFar, WindowStart, WindowEnd,
              PulseSoFar
<1>4. ASSUME NEW g \in Bits, ClearBit(g)
      PROVE  (WindowSoFar /\ (~cut => \A f \in Ext : PulseSoFar(f)))'
  <2>1. WindowSoFar'
    BY <1>4 DEF ClearBit, settings, lines, LengthInv, WindowSoFar, WindowStart, WindowEnd
  <2>2. ASSUME ~cut', NEW f \in Ext PROVE PulseSoFar(f)'
    <3>1. ~cut /\ PulseSoFar(f) /\ ~(g \in Ext /\ cnt[g] <= resetWidth)
      BY <1>4, <2>2 DEF ClearBit, LengthInv
    <3>2. rst[f] => f # g
      BY <3>1, <2>2 DEF PulseSoFar
    <3> QED
      BY <1>4, <3>1, <3>2 DEF ClearBit, settings, lines, PulseSoFar
  <2> QED
    BY <2>1, <2>2
<1>5. CASE UNCHANGED pulseVars
  BY <1>5 DEF pulseVars, settings, LengthInv, WindowSoFar, WindowStart, WindowEnd, PulseSoFar
<1> QED
  BY <1>1, <1>2, <1>3, <1>4, <1>5 DEF PulseNext

LEMMA LengthInit == PulseInit => LengthInv
<1> SUFFICES ASSUME PulseInit PROVE WindowSoFar /\ \A f \in Ext : PulseSoFar(f)
  BY DEF LengthInv
<1>1. cnt["win"] = 0 /\ \A f \in Ext : ~rst[f] /\ cnt[f] = 0
  BY DEF PulseInit, Sequences, Ext
<1>2. WindowStart \in Nat /\ resetWidth \in Nat
  BY PulseTypeInit, SettingsNat DEF WindowStart
<1>3. WindowSoFar
  BY <1>1, <1>2 DEF PulseInit, WindowSoFar
<1>4. \A f \in Ext : high[f] = 0
  BY DEF PulseInit
<1>5. \A f \in Ext : PulseSoFar(f)
  BY <1>1, <1>2, <1>4 DEF PulseSoFar
<1> QED
  BY <1>3, <1>5

(* While the settings are left alone a hold of the window's bit opens the   *)
(* window for its programmed number of cycles, and a reset pulse whose bit  *)
(* is held through it is its programmed width long, no more and no less     *)
(* (qpix_reg_rtl.v:793-834).                                                *)
THEOREM ProgrammedLengthsHolds ==
  ASSUME NoWrap PROVE PulseSpec => []ProgrammedLengths
<1>1. PulseTypeOK /\ LengthInv => ProgrammedLengths
  <2> SUFFICES ASSUME PulseTypeOK, LengthInv, ~retuned
               PROVE  /\ opened <= windowWidth
                      /\ cnt["win"] >= WindowStart + windowWidth => opened = windowWidth
                      /\ ~cut => \A f \in Ext : /\ high[f] <= resetWidth
                                                /\ cnt[f] >= resetWidth => high[f] = resetWidth
                                                /\ cnt[f] > resetWidth => ~rst[f]
    BY DEF ProgrammedLengths
  <2>1. /\ WindowStart \in Nat /\ windowWidth \in Nat /\ resetWidth \in Nat
        /\ WindowEnd = WindowStart + windowWidth
    BY SettingsNat DEF WindowStart, WindowEnd
  <2>2. cnt["win"] \in Nat /\ \A f \in Ext : cnt[f] \in Nat
    BY DEF PulseTypeOK, Sequences, Ext
  <2> HIDE DEF WindowStart, WindowEnd
  <2>3. opened <= windowWidth
           /\ (cnt["win"] >= WindowStart + windowWidth => opened = windowWidth)
    BY <2>1, <2>2 DEF LengthInv, WindowSoFar
  <2>4. ASSUME NEW f \in Ext, ~cut
        PROVE  /\ high[f] <= resetWidth
               /\ cnt[f] >= resetWidth => high[f] = resetWidth
               /\ cnt[f] > resetWidth => ~rst[f]
    BY <2>1, <2>2, <2>4 DEF LengthInv, PulseSoFar
  <2> QED
    BY <2>3, <2>4
<1> QED
  BY <1>1, PulseTypeInit, PulseTypeStep, LengthInit, LengthStep, PTL DEF PulseSpec
-----------------------------------------------------------------------------
(* A counter is never ahead of the length of the reset pulse it times. *)
CountInPulse == \A f \in Ext : rst[f] => cnt[f] <= high[f]

LEMMA CountInPulseStep ==
  NoWrap /\ PulseTypeOK /\ CountInPulse /\ [PulseNext]_pulseVars => CountInPulse'
<1> SUFFICES ASSUME NoWrap, PulseTypeOK, CountInPulse, [PulseNext]_pulseVars
             PROVE  CountInPulse'
  OBVIOUS
<1>1. CASE Tick
  <2> SUFFICES ASSUME NEW f \in Ext, rst'[f] PROVE cnt'[f] <= high'[f]
    BY DEF CountInPulse
  <2>1. cnt'[f] = IF f \in bits THEN cnt[f] + 1 ELSE 0
    BY <1>1, ExtTick, CountersStep
  <2> QED
    BY <1>1, <2>1, ExtTick DEF CountInPulse
<1>2. UNCHANGED lines => CountInPulse'
  BY DEF lines, CountInPulse
<1>3. PulseNext => Tick \/ UNCHANGED lines
  BY DEF PulseNext, Settings, SetBit, ClearBit
<1>4. UNCHANGED pulseVars => UNCHANGED lines
  BY DEF pulseVars, lines
<1> QED
  BY <1>1, <1>2, <1>3, <1>4

(* A reset pulse ends only after the width programmed by then, however its  *)
(* control bit is cleared and set and the width rewritten meanwhile         *)
(* (qpix_reg_rtl.v:811-834).                                                *)
THEOREM NoShortPulseHolds ==
  ASSUME NoWrap PROVE PulseSpec => NoShortPulse
<1>1. PulseInit => CountInPulse
  BY DEF PulseInit, CountInPulse, Ext, Sequences
<1>2. PulseTypeOK /\ CountInPulse /\ [PulseNext]_pulseVars =>
        [\A f \in Ext : rst[f] /\ ~rst'[f] => high[f] >= resetWidth]_pulseVars
  <2> SUFFICES ASSUME PulseTypeOK, CountInPulse, PulseNext, NEW f \in Ext, rst[f], ~rst'[f]
               PROVE  high[f] >= resetWidth
    OBVIOUS
  <2>1. PulseNext => Tick \/ UNCHANGED lines
    BY DEF PulseNext, Settings, SetBit, ClearBit
  <2>2. Tick
    BY <2>1 DEF lines
  <2> QED
    BY <2>2, ExtTick DEF CountInPulse
<1> QED
  BY <1>1, <1>2, PulseTypeInit, PulseTypeStep, CountInPulseStep, PTL
     DEF PulseSpec, NoShortPulse
=============================================================================
