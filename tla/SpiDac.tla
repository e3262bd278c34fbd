------------------------------- MODULE SpiDac -------------------------------
(***************************************************************************)
(* spi_interface_ctrl and its spi_interface instances (src/hdl): load       *)
(* strobes from the register map become SPI transfers to the threshold      *)
(* DACs, one chip select each on a shared clock, data and load line.        *)
(*                                                                          *)
(* One step of Tick is one edge of the 50 MHz clock; rst is tied to 0 in    *)
(* the block design.  Outputs are combinational, so they are operators.     *)
(* Word w has bits w[1] (first on the wire) to w[Bits].                     *)
(*                                                                          *)
(* External: the register map's strobe, two cycles long with the word on    *)
(* the port from the second on (one write at a time); and the DAC chips     *)
(* (MCP4911), which shift in SDI when SCK rises with their select low, keep *)
(* the word when the select rises after exactly Bits clocks, and show it    *)
(* while bLDAC is low.                                                      *)
(***************************************************************************)
EXTENDS Naturals, Sequences, FiniteSetsExt

CONSTANTS
  N,          \* spi_slaves
  Bits,       \* spi_length
  ClockDiv,   \* clock_div
  Words,      \* the words software loads
  MaxWrites   \* bound: writes in a behaviour

Slaves == 0..N - 1
Bit == 0..1
NoWord == [b \in 1..Bits |-> 0]

ASSUME NAssumption == N \in Nat \ {0}
ASSUME BitsAssumption == Bits \in Nat \ {0}
ASSUME ClockDivAssumption == ClockDiv \in Nat \ {0}
ASSUME WordsAssumption == Words \subseteq [1..Bits -> Bit]

VARIABLES
  strobe, coming, spiData,   \* new_reg cycles left, the word on its way, DAC_reg ports
  bufReg, dacStat,           \* buf_reg and dac_stat, as sets of slaves
  state, curCnt, curBit,     \* per spi_interface
  shift, held, dac,          \* per chip: bits shifted in, word kept, word shown
  paced,                     \* history: every write so far was paced
  writes                     \* bound

ctrlVars == <<bufReg, dacStat, state, curCnt, curBit>>
chipVars == <<shift, held, dac>>
vars == <<strobe, coming, spiData, ctrlVars, chipVars, paced, writes>>

NewReg == {k \in Slaves : strobe[k] > 0}

-----------------------------------------------------------------------------
(* The indexer: the lowest-numbered buffered request drives the pins. *)
Found == bufReg # {}
Index == IF Found THEN Min(bufReg) ELSE 0

(* Pins of one spi_interface. *)
Sending(k) == state[k] \in {"S_PREP", "S_SEND"}
Cs(k) == ~Sending(k)                       \* bCS high
Done(k) == state[k] = "S_DONE"

(* Pins of the controller: SCK, SDI and bLDAC through the indexer. *)
\* Mutant: the last bit first.
Sck == state[Index] = "S_SEND"
Sdi_LsbFirst == IF Sending(Index) /\ curBit[Index] < Bits
                  THEN spiData[Index][Bits - curBit[Index]] ELSE 0
Sdi == IF Sending(Index) /\ curBit[Index] < Bits
         THEN spiData[Index][curBit[Index] + 1] ELSE 0
Ldac == state[Index] = "S_LDAC"            \* bLDAC low

(* fsm-2 of spi_interface. *)
Elapsed(k) == curCnt[k] >= ClockDiv - 1
NextState(k) ==
  CASE state[k] = "S_IDLE" -> IF k \in dacStat THEN "S_PREP" ELSE "S_IDLE"
    [] state[k] = "S_PREP" -> IF curBit[k] >= Bits THEN "S_LDAC"
                              ELSE IF Elapsed(k) THEN "S_SEND" ELSE "S_PREP"
    [] state[k] = "S_SEND" -> IF Elapsed(k) THEN "S_PREP" ELSE "S_SEND"
    [] state[k] = "S_LDAC" -> IF Elapsed(k) THEN "S_DONE" ELSE "S_LDAC"
    [] state[k] = "S_DONE" -> IF Elapsed(k) THEN "S_IDLE" ELSE "S_DONE"

\* Mutant: the bit counter is not reset at the end of a word.
NextBit_NoReset(k) ==
  IF state[k] = "S_SEND" /\ NextState(k) = "S_PREP" THEN curBit[k] + 1 ELSE curBit[k]

NextBit(k) ==
  IF curBit[k] >= Bits THEN 0
  ELSE IF state[k] = "S_SEND" /\ NextState(k) = "S_PREP" THEN curBit[k] + 1
  ELSE curBit[k]

(* fsm-1 of every spi_interface. *)
Interfaces ==
  /\ state' = [k \in Slaves |-> NextState(k)]
  /\ curCnt' = [k \in Slaves |->
       IF state[k] = "S_IDLE" \/ state[k] # NextState(k) THEN 0 ELSE curCnt[k] + 1]
  /\ curBit' = [k \in Slaves |-> NextBit(k)]

\* Mutant: a request is dropped when its transfer starts.
Requests_Taken == {k \in bufReg \cup NewReg : state[k] = "S_IDLE"}

(* The dac updater: being done outweighs a new request. *)
Requests == {k \in bufReg \cup NewReg : ~Done(k)}

\* Mutants: the flag is not dropped by default; every request flagged at once.
Selected_Sticky == IF Found THEN {Index} ELSE dacStat
Selected_All == bufReg

Selected == IF Found THEN {Index} ELSE {}

DacUpdater == bufReg' = Requests /\ dacStat' = Selected

(* The register map's side: the strobe runs out, the port catches up. *)
Ports ==
  /\ strobe' = [k \in Slaves |-> IF strobe[k] > 0 THEN strobe[k] - 1 ELSE 0]
  /\ spiData' = [k \in Slaves |-> IF strobe[k] = 2 THEN coming[k] ELSE spiData[k]]
  /\ UNCHANGED <<coming, paced, writes>>

(* The chips watch the pins change. *)
Chips ==
  /\ shift' = [k \in Slaves |->
       IF Cs(k)' THEN <<>>
       ELSE IF Sck' /\ ~Sck THEN Append(shift[k], Sdi')
       ELSE shift[k]]
  /\ held' = [k \in Slaves |->
       IF ~Cs(k) /\ Cs(k)' /\ Len(shift[k]) = Bits THEN shift[k] ELSE held[k]]
  /\ dac' = IF Ldac' THEN held' ELSE dac

Tick == Interfaces /\ DacUpdater /\ Ports /\ Chips

(* A DAC with a word not yet loaded. *)
Busy(k) == strobe[k] > 0 \/ k \in bufReg \/ k \in dacStat \/ state[k] # "S_IDLE"

(* A write of k that waits for k itself and every higher-numbered DAC to    *)
(* have loaded, since k would take the shared lines from them.              *)
Paced(k) == \A j \in Slaves : j >= k => ~Busy(j)

(* Software writes a DAC register. *)
WriteDac(k, w) ==
  /\ writes < MaxWrites
  /\ NewReg = {}
  /\ strobe' = [strobe EXCEPT ![k] = 2]
  /\ coming' = [coming EXCEPT ![k] = w]
  /\ paced' = (paced /\ Paced(k))
  /\ writes' = writes + 1
  /\ UNCHANGED <<spiData, ctrlVars, chipVars>>

Init ==
  /\ strobe = [k \in Slaves |-> 0]
  /\ coming = [k \in Slaves |-> NoWord] /\ spiData = [k \in Slaves |-> NoWord]
  /\ bufReg = {} /\ dacStat = {}
  /\ state = [k \in Slaves |-> "S_IDLE"]
  /\ curCnt = [k \in Slaves |-> 0] /\ curBit = [k \in Slaves |-> 0]
  /\ shift = [k \in Slaves |-> <<>>]
  /\ held = [k \in Slaves |-> NoWord] /\ dac = [k \in Slaves |-> NoWord]
  /\ paced = TRUE /\ writes = 0

Next == Tick \/ \E k \in Slaves, w \in Words : WriteDac(k, w)
Spec == Init /\ [][Next]_vars
FairSpec == Spec /\ WF_vars(Tick)

-----------------------------------------------------------------------------
States == {"S_IDLE", "S_PREP", "S_SEND", "S_LDAC", "S_DONE"}

TypeOK ==
  /\ strobe \in [Slaves -> 0..2]
  /\ coming \in [Slaves -> [1..Bits -> Bit]]
  /\ spiData \in [Slaves -> [1..Bits -> Bit]]
  /\ bufReg \subseteq Slaves /\ dacStat \subseteq Slaves
  /\ state \in [Slaves -> States]
  /\ curCnt \in [Slaves -> 0..ClockDiv - 1]
  /\ curBit \in [Slaves -> 0..Bits]
  /\ shift \in [Slaves -> Seq(Bit)]
  /\ held \in [Slaves -> [1..Bits -> Bit]] /\ dac \in [Slaves -> [1..Bits -> Bit]]
  /\ paced \in BOOLEAN /\ writes \in Nat

(* A transfer starts only for a request still buffered: the dac_stat flag,  *)
(* which lags buf_reg by an edge, never restarts a transfer just finished.  *)
(* It needs a clock divider of 2 or more, whatever software writes when.    *)
NoSpuriousStart ==
  [][\A k \in Slaves :
       state[k] = "S_IDLE" /\ state'[k] = "S_PREP" => k \in bufReg]_vars

(* A slave drives exactly Bits clocks from select to load: its bit counter  *)
(* points into the word whenever its clock is high, and is back at 0 when   *)
(* it loads, so no transfer starts in the middle of a word.                 *)
WholeWords ==
  \A k \in Slaves :
    /\ state[k] = "S_SEND" => curBit[k] < Bits
    /\ state[k] \in {"S_IDLE", "S_LDAC", "S_DONE"} => curBit[k] = 0

(* With paced writes no two chips are selected together, so each sees only  *)
(* its own clocks, and the load line falls only with every select high.     *)
OneSelected ==
  paced => /\ \A j, k \in Slaves : ~Cs(j) /\ ~Cs(k) => j = k
           /\ Ldac => \A k \in Slaves : Cs(k)

(* With paced writes, a DAC no longer busy shows the word last written to   *)
(* its register: the request was held until the word was loaded.            *)
PacedWordLoaded == paced => \A k \in Slaves : ~Busy(k) => dac[k] = spiData[k]

(* A word written while all writes are paced is shown by its DAC in the     *)
(* end, and before a later write of that DAC: no request is dropped or      *)
(* merged with another.                                                     *)
PacedWordShown ==
  \A k \in Slaves, w \in Words :
    paced /\ strobe[k] > 0 /\ coming[k] = w ~> dac[k] = w \/ ~paced
=============================================================================
