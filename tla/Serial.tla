------------------------------- MODULE Serial -------------------------------
(***************************************************************************)
(* Loading a QPIX chip's input register and clocking its readout:           *)
(* qpix_reg_rtl.v 510-698 with oneshot.vhd and piso.v, for one chip.        *)
(*                                                                          *)
(* SlowEdge is a rising edge of clk20k.  Every 2N-th one comes with a       *)
(* rising edge of clk_shift, every second one with one of clk_pulse: the    *)
(* dividers start together.  Where two of these clocks rise together, what  *)
(* is sampled is old or new as routing has it: the same at every edge for   *)
(* the shift registers (late), either way for the one-shots' inputs.        *)
(* Registers and shift registers power up as 0, and the load input left     *)
(* open at the readout's shift register is 0.                               *)
(***************************************************************************)
EXTENDS Naturals, Sequences

CONSTANTS
  N,          \* bits of a word: 32
  Words,      \* words software loads
  Uses,       \* the sets of control bits, one of which a behaviour's software uses
  MaxWrites   \* bound: register writes

Controls == {"rst", "sys", "load", "xmit", "read", "loadData", "CLKin2", "control"}
Synced == {"rst", "load", "xmit", "read"}
Shots == {"xmit", "read", "loadData", "CLKin2", "control"}
Bit == {"0", "1"}
NoWord == <<>>
Zeros == [i \in 1..N |-> "0"]

ASSUME NAssumption == N \in Nat \ {0}
ASSUME WordsAssumption == Words \subseteq [1..N -> Bit]
ASSUME UsesAssumption == Uses \subseteq SUBSET Controls
ASSUME MaxWritesAssumption == MaxWrites \in Nat

VARIABLES
  uses,               \* the control bits software uses
  ctl, data,          \* bits of reg_0 and reg_1 that are high; reg_2
  sync0, sync,        \* the two stages of Synced, and of the data
  data0, dataSync,
  qa, qb,             \* the one-shots whose QA, QB is high
  late,               \* whether a shift register sees a one-shot of its own edge
  phase,              \* slow edges since the last of clk_shift
  gen, readGen,       \* serial_gen1, serial_gen1_read
  chip,               \* the chip's input register, "x" for an undefined bit
  writes,             \* history: register writes
  stable,             \* history: controls and "data" unchanged since the last edge
  calm, loaded,       \* history: the load went undisturbed; what it has left
  expected, clocks,   \* history: what the chip should get; clocks it got for it
  readCalm, readClocks  \* history: resets left readouts alone; clocks since the last

clockVars == <<sync0, sync, data0, dataSync, qa, qb, phase, gen, readGen, chip>>
historyVars == <<stable, calm, loaded, expected, clocks, readCalm, readClocks>>
vars == <<uses, ctl, data, late, writes, clockVars, historyVars>>

-----------------------------------------------------------------------------
\* Mutant: shifts once more.
Last_More == 2 * N + 1

(* The count at which a shift register stops. *)
Last == 2 * N

\* Mutant: a load keeps the count.
Loaded_KeepsCount(p, in) == [p EXCEPT !.reg = in, !.dataOut = "0"]

(* A load leaves the clock's level as it is. *)
Loaded(p, in) == [p EXCEPT !.reg = in, !.dataOut = "0", !.counter = 0]

\* Mutant: the data changes with the falling clock.
Shifted_Late(p) ==
  LET next == [p EXCEPT !.clkD = ~@, !.counter = @ + 1]
  IN IF p.counter % 2 = 1
       THEN [next EXCEPT !.dataOut = Head(p.reg), !.reg = Append(Tail(@), "0")]
       ELSE next

(* The data changes with every other edge, and the clock lags behind it. *)
Shifted(p) ==
  LET next == [p EXCEPT !.clkD = ~@, !.counter = @ + 1]
  IN IF p.counter % 2 = 0
       THEN [next EXCEPT !.dataOut = Head(p.reg), !.reg = Append(Tail(@), "0")]
       ELSE next

(* What a piso becomes at an edge that sees these inputs. *)
Piso(p, rst, load, xmit, in) ==
  LET lagged == [p EXCEPT !.clkOut = p.clkD]
  IN IF rst THEN [lagged EXCEPT !.reg = Zeros, !.counter = 0, !.clkD = FALSE,
                                !.dataOut = "0"]
     ELSE IF load THEN Loaded(lagged, in)
     ELSE IF xmit /\ p.counter < Last THEN Shifted(lagged)
     ELSE [lagged EXCEPT !.clkD = FALSE, !.dataOut = "0"]

Ticks(old, new) == new.clkOut /\ ~old.clkOut

-----------------------------------------------------------------------------
(* One-shots: a rising trigger sets QA, the clock copies it to QB, and QB   *)
(* clears QA.                                                               *)
ShotClocks ==
  (IF phase = 0 THEN {"xmit", "read"} ELSE {}) \cup
  (IF phase % 2 = 0 THEN {"loadData"} ELSE {})

(* An edge of the clocks of these one-shots, as these triggers rise.  QB    *)
(* may miss a trigger rising with its clock, and a QB that falls may hold   *)
(* such a trigger off.                                                      *)
FireShots(clocked, rising) ==
  \E quick, held \in BOOLEAN :
    /\ qb' = (qb \ clocked) \cup
             (clocked \cap (qa \cup (IF quick THEN rising \ qb ELSE {})))
    /\ qa' = (qa \cup (IF held THEN rising \ qb ELSE rising)) \ qb'

Sees(s) == IF late /\ s \in ShotClocks THEN s \in qb' ELSE s \in qb

(* A rising edge of clk20k. *)
SlowEdge ==
  /\ FireShots(ShotClocks, (sync0 \ sync) \cap {"xmit", "read"})
  /\ sync0' = ctl \cap Synced /\ sync' = sync0
  /\ data0' = data /\ dataSync' = data0
  /\ phase' = (phase + 1) % (2 * N)
  /\ LET rst == "rst" \in sync \/ "sys" \in ctl
     IN /\ gen' = Piso(gen, rst, "load" \in sync, Sees("xmit"), dataSync)
        /\ readGen' = Piso(readGen, rst, FALSE, Sees("read"), Zeros)
        /\ readClocks' = IF rst THEN 0
                         ELSE IF Ticks(readGen, readGen') /\ readClocks <= N
                           THEN readClocks + 1
                         ELSE readClocks
  /\ IF Ticks(gen, gen')
       THEN /\ chip' = Append(Tail(chip), IF gen'.dataOut = gen.dataOut
                                            THEN gen.dataOut ELSE "x")
            /\ clocks' = IF clocks <= N THEN clocks + 1 ELSE clocks
       ELSE UNCHANGED <<chip, clocks>>
  /\ stable' = Controls \cup {"data"}
  /\ UNCHANGED <<uses, ctl, data, late, writes, calm, loaded, expected, readCalm>>

(* A rising edge of clk_intrst, ten times as fast. *)
IntRstEdge ==
  /\ FireShots({"CLKin2", "control"}, {})
  /\ UNCHANGED <<uses, ctl, data, late, writes, sync0, sync, data0, dataSync, phase, gen,
                 readGen, chip, historyVars>>

-----------------------------------------------------------------------------
(* The train of one-shot s is over and none is on its way. *)
Over(s) ==
  /\ s \notin qa \cup qb
  /\ s \in ctl <=> s \in sync0
  /\ s \in ctl <=> s \in sync

Resets == {"rst", "sys"}
NoReset == Resets \cap ctl = {} /\ "rst" \notin sync0 \cup sync

Write == writes < MaxWrites /\ writes' = writes + 1

SetData(w) ==
  /\ Write /\ w # data
  /\ data' = w
  /\ stable' = stable \ {"data"}
  /\ UNCHANGED <<uses, ctl, late, clockVars, calm, loaded, expected, clocks, readCalm,
                 readClocks>>

(* Software sets or clears one control bit. *)
Toggle(b) ==
  /\ Write
  /\ ctl' = (ctl \ {b}) \cup ({b} \ ctl)
  /\ qa' = IF b \in (Shots \ Synced) \ (ctl \cup qb) THEN qa \cup {b} ELSE qa
  /\ stable' = stable \ {b}
  /\ UNCHANGED <<uses, data, late, sync0, sync, data0, dataSync, qb, phase, gen, readGen, chip,
                 readClocks>>

Other(b) ==
  /\ b \notin Resets \cup {"load", "xmit", "read"}
  /\ Toggle(b)
  /\ UNCHANGED <<calm, loaded, expected, clocks, readCalm>>

(* A reset undoes a load, and a transfer under way. *)
ToggleReset(b) ==
  /\ b \in Resets /\ Toggle(b)
  /\ calm' = FALSE /\ loaded' = NoWord /\ expected' = NoWord
  /\ readCalm' = IF b \in ctl THEN b \in stable /\ Over("read") ELSE readCalm
  /\ UNCHANGED clocks

RaiseLoad ==
  /\ "load" \notin ctl /\ Toggle("load")
  /\ calm' = ("load" \in stable /\ Over("xmit") /\ NoReset)
  /\ loaded' = NoWord /\ expected' = NoWord
  /\ UNCHANGED <<clocks, readCalm>>

(* A load is good when an edge has seen it with the word in place. *)
DropLoad ==
  /\ "load" \in ctl /\ Toggle("load")
  /\ loaded' = IF calm /\ {"load", "data"} \subseteq stable THEN data ELSE NoWord
  /\ UNCHANGED <<calm, expected, clocks, readCalm>>

(* A transmission is in order when the one before is over, and an edge has  *)
(* come since the load was dropped.                                         *)
RaiseXmit ==
  /\ "xmit" \notin ctl /\ Toggle("xmit")
  /\ calm' = FALSE /\ loaded' = NoWord /\ clocks' = 0
  /\ expected' = IF "load" \in stable \ ctl /\ Over("xmit") THEN loaded ELSE NoWord
  /\ UNCHANGED readCalm

DropXmit ==
  /\ "xmit" \in ctl /\ Toggle("xmit")
  /\ expected' = IF "xmit" \in stable THEN expected ELSE NoWord
  /\ UNCHANGED <<calm, loaded, clocks, readCalm>>

ToggleRead ==
  /\ Toggle("read")
  /\ readCalm' = (readCalm /\ Resets \subseteq stable)
  /\ UNCHANGED <<calm, loaded, expected, clocks>>

Software ==
  \/ \E w \in Words : SetData(w)
  \/ \E b \in uses : Other(b) \/ ToggleReset(b)
  \/ "load" \in uses /\ (RaiseLoad \/ DropLoad)
  \/ "xmit" \in uses /\ (RaiseXmit \/ DropXmit)
  \/ "read" \in uses /\ ToggleRead

PisoInit ==
  [reg |-> Zeros, counter |-> 0, clkD |-> FALSE, clkOut |-> FALSE, dataOut |-> "0"]

Init ==
  /\ uses \in Uses
  /\ ctl = {} /\ data = Zeros
  /\ sync0 = {} /\ sync = {} /\ data0 = Zeros /\ dataSync = Zeros
  /\ qa = {} /\ qb = {} /\ late \in BOOLEAN /\ phase = 0
  /\ gen = PisoInit /\ readGen = PisoInit
  /\ chip = [i \in 1..N |-> "x"]
  /\ writes = 0 /\ stable = Controls \cup {"data"}
  /\ calm = FALSE /\ loaded = NoWord /\ expected = NoWord /\ clocks = 0
  /\ readCalm = TRUE /\ readClocks = 0

Next == SlowEdge \/ IntRstEdge \/ Software
Spec == Init /\ [][Next]_vars
FairSpec == Spec /\ WF_vars(SlowEdge)

-----------------------------------------------------------------------------
(* A load and a transmission that software keeps apart clock the word into  *)
(* the chip, whole and in exactly N clocks, whatever the phases of the      *)
(* clocks and whichever way their races go.                                 *)
WordArrives ==
  expected # NoWord => clocks <= N /\ (clocks = N => chip = expected)

(* And they do so in the end, unless software cuts in. *)
TransferEnds == expected # NoWord ~> (clocks = N \/ expected = NoWord)

(* Between two resets the readout is clocked N times in all, however often  *)
(* a read is asked for: the counter that ends the train has no load.        *)
OneReadPerReset ==
  readCalm /\ NoReset =>
    /\ readClocks <= N
    /\ readGen.counter = Last /\ ~readGen.clkD /\ ~readGen.clkOut => readClocks = N
=============================================================================
