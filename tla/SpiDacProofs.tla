---------------------------- MODULE SpiDacProofs ----------------------------
(* Proofs about the DAC path, for every number of DACs, word length, clock  *)
(* divider and pattern of writes.                                           *)
EXTENDS SpiDac, WellFoundedInduction, TLAPS

USE NAssumption, BitsAssumption, ClockDivAssumption, WordsAssumption

(* A set of naturals that is not empty has a least element. *)
LEMMA LeastExists ==
  ASSUME NEW S \in SUBSET Nat, S # {}
  PROVE  \E k \in S : \A j \in S : k <= j
<1> DEFINE R == {ss \in Nat \X Nat : ss[1] < ss[2]}
<1>1. IsWellFoundedOn(R, Nat)
  BY NatLessThanWellFounded DEF OpToRel
<1>2. PICK k \in S : \A j \in S : <<j, k>> \notin R
  <2> HIDE DEF R
  <2>1. QED
    BY <1>1, WFMin
<1>3. ASSUME NEW j \in S PROVE k <= j
  <2>1. <<j, k>> \notin R
    BY <1>2
  <2>2. <<j, k>> \in Nat \X Nat
    OBVIOUS
  <2>3. ~(j < k)
    BY <2>1, <2>2
  <2>4. QED
    BY <2>3
<1>4. QED
  BY <1>3

(* The indexer names a slave, one with a request if there is any. *)
LEMMA MinIsMember ==
  ASSUME NEW S \in SUBSET Slaves, S # {}
  PROVE  Min(S) \in S
<1>1. \E k \in S : \A j \in S : k <= j
  BY LeastExists DEF Slaves
<1>2. QED
  BY <1>1 DEF Min

LEMMA ZeroIsSlave == 0 \in Slaves
BY DEF Slaves

LEMMA IndexIsSlave ==
  ASSUME bufReg \subseteq Slaves
  PROVE  Index \in Slaves /\ (Found => Index \in bufReg)
<1>1. Found => Min(bufReg) \in bufReg
  BY MinIsMember DEF Found
<1>2. QED
  BY <1>1, ZeroIsSlave DEF Index

LEMMA IndexIsSlaveNext ==
  ASSUME bufReg' \subseteq Slaves
  PROVE  Index' \in Slaves
<1>1. Found' => Min(bufReg') \in bufReg'
  BY MinIsMember DEF Found
<1>2. QED
  BY <1>1, ZeroIsSlave DEF Index

(* The state machines, their counters and the request flags. *)
CtrlTypeOK ==
  /\ bufReg \subseteq Slaves /\ dacStat \subseteq Slaves
  /\ state \in [Slaves -> States]
  /\ curCnt \in [Slaves -> 0..ClockDiv - 1]
  /\ curBit \in [Slaves -> 0..Bits]

(* fsm-1 and fsm-2 of one spi_interface. *)
LEMMA InterfaceTypes ==
  ASSUME CtrlTypeOK, Interfaces
  PROVE  /\ state' \in [Slaves -> States]
         /\ curCnt' \in [Slaves -> 0..ClockDiv - 1]
         /\ curBit' \in [Slaves -> 0..Bits]
<1>1. ASSUME NEW k \in Slaves PROVE NextState(k) \in States
  BY DEF CtrlTypeOK, States, NextState
<1>2. ASSUME NEW k \in Slaves, state[k] # "S_IDLE", state[k] = NextState(k)
      PROVE  curCnt[k] + 1 \in 0..ClockDiv - 1
  <2>1. state[k] \in States \ {"S_IDLE"}
    BY <1>2 DEF CtrlTypeOK
  <2>2. ~Elapsed(k)
    BY <1>2, <2>1 DEF States, NextState
  <2>3. QED
    BY <2>2 DEF Elapsed, CtrlTypeOK
<1>3. ASSUME NEW k \in Slaves PROVE NextBit(k) \in 0..Bits
  BY DEF CtrlTypeOK, NextBit
<1>4. QED
  BY <1>1, <1>2, <1>3 DEF Interfaces

LEMMA CtrlTypeInit == Init => CtrlTypeOK
BY DEF Init, CtrlTypeOK, States

LEMMA CtrlTypeStep == CtrlTypeOK /\ [Next]_vars => CtrlTypeOK'
<1> SUFFICES ASSUME CtrlTypeOK, [Next]_vars PROVE CtrlTypeOK'
  OBVIOUS
<1>1. CASE Tick
  <2>1. bufReg' \subseteq Slaves
    BY <1>1 DEF Tick, DacUpdater, Requests, NewReg, CtrlTypeOK
  <2>2. dacStat' \subseteq Slaves
    BY <1>1, IndexIsSlave DEF Tick, DacUpdater, Selected, CtrlTypeOK
  <2>3. QED
    BY <1>1, <2>1, <2>2, InterfaceTypes DEF Tick, CtrlTypeOK
<1>2. CASE \E k \in Slaves, w \in Words : WriteDac(k, w)
  BY <1>2 DEF WriteDac, ctrlVars, CtrlTypeOK
<1>3. CASE UNCHANGED vars
  BY <1>3 DEF vars, ctrlVars, CtrlTypeOK
<1>4. QED
  BY <1>1, <1>2, <1>3 DEF Next
-----------------------------------------------------------------------------
(* The pins a chip sees carry bits. *)
LEMMA SdiIsBit ==
  ASSUME CtrlTypeOK', spiData' \in [Slaves -> [1..Bits -> Bit]]
  PROVE  Sdi' \in Bit
<1>1. Index' \in Slaves
  BY IndexIsSlaveNext DEF CtrlTypeOK
<1>2. curBit'[Index'] \in 0..Bits
  BY <1>1 DEF CtrlTypeOK
<1>3. curBit'[Index'] < Bits => spiData'[Index'][curBit'[Index'] + 1] \in Bit
  BY <1>1, <1>2
<1>4. QED
  BY <1>3 DEF Sdi, Bit

LEMMA AppendType ==
  ASSUME NEW S, NEW s \in Seq(S), NEW e \in S
  PROVE  Append(s, e) \in Seq(S)
OBVIOUS

(* A chip that has seen exactly Bits clocks holds a word. *)
LEMMA FullShiftIsWord ==
  ASSUME NEW s \in Seq(Bit), Len(s) = Bits
  PROVE  s \in [1..Bits -> Bit]
OBVIOUS

LEMMA ChipTypes ==
  ASSUME TypeOK, Chips, CtrlTypeOK', spiData' \in [Slaves -> [1..Bits -> Bit]]
  PROVE  /\ shift' \in [Slaves -> Seq(Bit)]
         /\ held' \in [Slaves -> [1..Bits -> Bit]]
         /\ dac' \in [Slaves -> [1..Bits -> Bit]]
<1>1. ASSUME NEW k \in Slaves PROVE Append(shift[k], Sdi') \in Seq(Bit)
  BY SdiIsBit, AppendType DEF TypeOK
<1>2. shift' \in [Slaves -> Seq(Bit)]
  BY <1>1 DEF Chips, TypeOK
<1>3. ASSUME NEW k \in Slaves, Len(shift[k]) = Bits PROVE shift[k] \in [1..Bits -> Bit]
  BY <1>3, FullShiftIsWord DEF TypeOK
<1>4. held' \in [Slaves -> [1..Bits -> Bit]]
  BY <1>3 DEF Chips, TypeOK
<1>5. QED
  BY <1>2, <1>4 DEF Chips, TypeOK

LEMMA TypeImpliesCtrlType == TypeOK => CtrlTypeOK
BY DEF TypeOK, CtrlTypeOK

(* The types of the state hold in every reachable state. *)
THEOREM TypeCorrect == Spec => []TypeOK
<1>1. Init => TypeOK
  <2> SUFFICES ASSUME Init PROVE TypeOK
    OBVIOUS
  <2>1. NoWord \in [1..Bits -> Bit]
    BY DEF NoWord, Bit
  <2>2. shift \in [Slaves -> Seq(Bit)]
    BY DEF Init
  <2>3. paced \in BOOLEAN /\ writes \in Nat
    BY DEF Init
  <2>4. QED
    BY <2>1, <2>2, <2>3, CtrlTypeInit DEF Init, TypeOK, CtrlTypeOK
<1>2. TypeOK /\ [Next]_vars => TypeOK'
  <2> SUFFICES ASSUME TypeOK, [Next]_vars PROVE TypeOK'
    OBVIOUS
  <2>1. CtrlTypeOK'
    BY TypeImpliesCtrlType, CtrlTypeStep
  <2>2. CASE Tick
    <3>1. /\ strobe' \in [Slaves -> 0..2]
          /\ spiData' \in [Slaves -> [1..Bits -> Bit]]
          /\ UNCHANGED <<coming, paced, writes>>
      BY <2>2 DEF Tick, Ports, TypeOK
    <3>2. /\ shift' \in [Slaves -> Seq(Bit)]
          /\ held' \in [Slaves -> [1..Bits -> Bit]]
          /\ dac' \in [Slaves -> [1..Bits -> Bit]]
      BY <2>1, <2>2, <3>1, ChipTypes DEF Tick
    <3>3. paced' \in BOOLEAN /\ writes' \in Nat /\ coming' \in [Slaves -> [1..Bits -> Bit]]
      BY <3>1 DEF TypeOK
    <3>4. QED
      BY <2>1, <3>1, <3>2, <3>3 DEF CtrlTypeOK, TypeOK
  <2>3. ASSUME NEW k \in Slaves, NEW w \in Words, WriteDac(k, w)
        PROVE  TypeOK'
    <3>1. strobe' \in [Slaves -> 0..2] /\ coming' \in [Slaves -> [1..Bits -> Bit]]
      BY <2>3 DEF WriteDac, TypeOK
    <3>2. paced' \in BOOLEAN
      BY <2>3 DEF WriteDac, TypeOK
    <3>3. writes' \in Nat /\ UNCHANGED <<spiData, shift, held, dac>>
      BY <2>3 DEF WriteDac, chipVars, TypeOK
    <3>4. QED
      BY <2>1, <3>1, <3>2, <3>3 DEF CtrlTypeOK, TypeOK
  <2>4. CASE UNCHANGED vars
    BY <2>4 DEF vars, ctrlVars, chipVars, TypeOK
  <2>5. QED
    BY <2>2, <2>3, <2>4 DEF Next
<1>3. QED
  BY <1>1, <1>2, PTL DEF Spec

-----------------------------------------------------------------------------
(* The bit counter points into the word while the clock is high and is back *)
(* at 0 from the load on: no transfer starts in the middle of a word.       *)
THEOREM WholeWordsHolds == Spec => []WholeWords
<1>1. Init => CtrlTypeOK /\ WholeWords
  BY CtrlTypeInit DEF Init, WholeWords
<1>2. CtrlTypeOK /\ WholeWords /\ [Next]_vars => (CtrlTypeOK /\ WholeWords)'
  <2> SUFFICES ASSUME CtrlTypeOK, WholeWords, [Next]_vars
               PROVE  WholeWords'
    BY CtrlTypeStep
  <2>1. ASSUME Interfaces, NEW k \in Slaves
        PROVE  /\ state'[k] = "S_SEND" => curBit'[k] < Bits
               /\ state'[k] \in {"S_IDLE", "S_LDAC", "S_DONE"} => curBit'[k] = 0
    <3>1. state'[k] = NextState(k) /\ curBit'[k] = NextBit(k)
      BY <2>1 DEF Interfaces
    <3>2. state[k] \in States /\ curBit[k] \in 0..Bits
      BY DEF CtrlTypeOK
    <3>3. CASE state[k] \in {"S_IDLE", "S_LDAC", "S_DONE"}
      BY <3>1, <3>2, <3>3 DEF NextState, NextBit, WholeWords
    <3>4. CASE state[k] = "S_PREP"
      BY <3>1, <3>2, <3>4 DEF NextState, NextBit
    <3>5. CASE state[k] = "S_SEND"
      BY <3>1, <3>2, <3>5 DEF NextState, NextBit, WholeWords
    <3>6. QED
      BY <3>2, <3>3, <3>4, <3>5 DEF States
  <2>2. CASE Tick
    BY <2>1, <2>2 DEF Tick, WholeWords
  <2>3. CASE (\E k \in Slaves, w \in Words : WriteDac(k, w)) \/ UNCHANGED vars
    BY <2>3 DEF WriteDac, vars, ctrlVars, WholeWords
  <2>4. QED
    BY <2>2, <2>3 DEF Next
<1>3. QED
  BY <1>1, <1>2, PTL DEF Spec

-----------------------------------------------------------------------------
(* The selection flag lags the request by an edge.  By the last edge of     *)
(* S_DONE the request is gone, so the flag of a slave back in S_IDLE can    *)
(* only stand for a request that is still there.                            *)
RequestInv ==
  /\ CtrlTypeOK
  /\ \A k \in Slaves : state[k] = "S_DONE" /\ curCnt[k] > 0 => k \notin bufReg
  /\ \A k \in Slaves : state[k] = "S_IDLE" /\ k \in dacStat => k \in bufReg

LEMMA RequestInvStep ==
  ASSUME ClockDiv >= 2
  PROVE  RequestInv /\ [Next]_vars => RequestInv'
<1> SUFFICES ASSUME RequestInv, [Next]_vars PROVE RequestInv'
  OBVIOUS
<1>1. CtrlTypeOK /\ CtrlTypeOK'
  BY CtrlTypeStep DEF RequestInv
<1>2. CASE Tick
  <2>1. ASSUME NEW k \in Slaves
        PROVE  /\ state'[k] = NextState(k)
               /\ state[k] # NextState(k) => curCnt'[k] = 0
               /\ k \in bufReg' <=> (k \in bufReg \/ k \in NewReg) /\ ~Done(k)
               /\ k \in dacStat' => k \in bufReg
    <3>1. k \in dacStat' => k \in bufReg
      BY <1>1, <1>2, IndexIsSlave DEF Tick, DacUpdater, Selected, CtrlTypeOK
    <3>2. QED
      BY <1>2, <3>1 DEF Tick, Interfaces, DacUpdater, Requests
  <2>2. ASSUME NEW k \in Slaves, state'[k] = "S_DONE", curCnt'[k] > 0
        PROVE  k \notin bufReg'
    <3>1. state[k] = "S_DONE"
      BY <2>1, <2>2
    <3>2. QED
      BY <2>1, <3>1 DEF Done
  <2>3. ASSUME NEW k \in Slaves, state'[k] = "S_IDLE", k \in dacStat'
        PROVE  k \in bufReg'
    <3>1. k \in bufReg
      BY <2>1, <2>3
    <3>2. ~(state[k] = "S_DONE" /\ curCnt[k] > 0)
      BY <3>1 DEF RequestInv
    <3>3. ASSUME state[k] = "S_DONE" PROVE FALSE
      <4>1. curCnt[k] \in 0..ClockDiv - 1 /\ ~(curCnt[k] > 0)
        BY <1>1, <3>2, <3>3 DEF CtrlTypeOK
      <4>2. ~Elapsed(k)
        BY <4>1 DEF Elapsed
      <4>3. NextState(k) = "S_DONE"
        BY <3>3, <4>2 DEF NextState
      <4>4. QED
        BY <2>1, <2>3, <4>3
    <3>4. QED
      BY <2>1, <3>1, <3>3 DEF Done
  <2>4. QED
    BY <1>1, <2>2, <2>3 DEF RequestInv
<1>3. CASE (\E k \in Slaves, w \in Words : WriteDac(k, w)) \/ UNCHANGED vars
  BY <1>1, <1>3 DEF WriteDac, vars, ctrlVars, RequestInv
<1>4. QED
  BY <1>2, <1>3 DEF Next

LEMMA RequestInvHolds ==
  ASSUME ClockDiv >= 2
  PROVE  Spec => []RequestInv
<1>1. Init => RequestInv
  <2>1. Init => \A k \in Slaves : state[k] = "S_IDLE" /\ k \notin dacStat
    BY DEF Init
  <2>2. QED
    BY <2>1, CtrlTypeInit DEF RequestInv
<1>2. QED
  BY <1>1, RequestInvStep, PTL DEF Spec

(* With a divider of 2 or more, a transfer starts only for a request that   *)
(* is still buffered, whatever software writes when.                        *)
THEOREM NoSpuriousStartHolds ==
  ASSUME ClockDiv >= 2
  PROVE  Spec => NoSpuriousStart
<1>1. RequestInv /\ [Next]_vars
        => [\A k \in Slaves :
              state[k] = "S_IDLE" /\ state'[k] = "S_PREP" => k \in bufReg]_vars
  <2> SUFFICES ASSUME RequestInv, Next, NEW k \in Slaves,
                      state[k] = "S_IDLE", state'[k] = "S_PREP"
               PROVE  k \in bufReg
    OBVIOUS
  <2>1. CASE Tick
    <3>1. NextState(k) = "S_PREP"
      BY <2>1 DEF Tick, Interfaces
    <3>2. k \in dacStat
      BY <3>1 DEF NextState
    <3>3. QED
      BY <3>2 DEF RequestInv
  <2>2. CASE \E j \in Slaves, w \in Words : WriteDac(j, w)
    BY <2>2 DEF WriteDac, ctrlVars
  <2>3. QED
    BY <2>1, <2>2 DEF Next
<1>2. QED
  BY <1>1, RequestInvHolds, PTL DEF Spec, NoSpuriousStart

-----------------------------------------------------------------------------
(* The indexer's request is the least. *)
LEMMA IndexIsLeast ==
  ASSUME bufReg \subseteq Slaves, NEW k \in bufReg, \A j \in bufReg : k <= j
  PROVE  Index = k
<1>1. Min(bufReg) \in bufReg /\ \A j \in bufReg : Min(bufReg) <= j
  <2>1. \E i \in bufReg : \A j \in bufReg : i <= j
    OBVIOUS
  <2>2. QED
    BY <2>1 DEF Min
<1>2. k \in Nat /\ Min(bufReg) \in Nat
  <2>1. Slaves \subseteq Nat
    BY DEF Slaves
  <2>2. QED
    BY <1>1, <2>1
<1>3. QED
  BY <1>1, <1>2 DEF Index, Found

LEMMA IndexIsLowest ==
  ASSUME bufReg \subseteq Slaves, Found
  PROVE  \A j \in bufReg : Index <= j
<1>1. \E i \in bufReg : \A j \in bufReg : i <= j
  BY LeastExists DEF Slaves, Found
<1>2. QED
  BY <1>1 DEF Min, Index

(* While the writes are paced a new request never comes below another, so a *)
(* slave at work, or about to be, is the one the shared pins follow.        *)
Lowest(k) == k \in bufReg /\ \A j \in bufReg : k <= j

AtWork(k) ==
  state[k] \in {"S_PREP", "S_SEND", "S_LDAC"} \/ (state[k] = "S_IDLE" /\ k \in dacStat)

PacedInv ==
  paced =>
    /\ \A j \in NewReg : \A i \in bufReg \cup NewReg : i <= j
    /\ \A k \in Slaves : AtWork(k) => Lowest(k)
    /\ \A k \in Slaves : strobe[k] > 0 =>
         /\ state[k] = "S_IDLE" /\ k \notin dacStat
         /\ strobe[k] = 2 => k \notin bufReg

LEMMA PacedTick ==
  ASSUME ClockDiv >= 2, TypeOK, RequestInv, PacedInv, paced, Tick
  PROVE  PacedInv'
<1>1. /\ bufReg' \subseteq bufReg \cup NewReg
      /\ \A k \in Slaves : k \in bufReg /\ ~Done(k) => k \in bufReg'
      /\ NewReg \subseteq Slaves /\ bufReg \subseteq Slaves /\ dacStat' \subseteq Slaves
  BY IndexIsSlave DEF Tick, DacUpdater, Requests, Selected, NewReg, TypeOK
<1>2. ASSUME NEW k \in Slaves, strobe'[k] > 0 PROVE strobe[k] = 2
  <2>1. strobe[k] \in 0..2
    BY DEF TypeOK
  <2>2. QED
    BY <1>2, <2>1 DEF Tick, Ports
<1>3. NewReg' \subseteq NewReg
  BY <1>2 DEF NewReg
<1>4. \A j \in NewReg' : \A i \in (bufReg \cup NewReg)' : i <= j
  BY <1>1, <1>3 DEF PacedInv
<1>5. ASSUME NEW k \in Slaves, Lowest(k), ~Done(k)
      PROVE  Lowest(k)'
  BY <1>1, <1>5 DEF Lowest, PacedInv
<1>6. ASSUME NEW k \in dacStat'
      PROVE  Lowest(k)
  BY <1>6, IndexIsSlave, IndexIsLowest DEF Tick, DacUpdater, Selected, Lowest, TypeOK
<1>7. ASSUME NEW k \in Slaves PROVE state'[k] = NextState(k) /\ state[k] \in States
  BY DEF Tick, Interfaces, TypeOK
<1>8. ASSUME NEW k \in Slaves, AtWork(k)'
      PROVE  Lowest(k)'
  <2>1. CASE state'[k] \in {"S_PREP", "S_SEND", "S_LDAC"}
    <3>1. AtWork(k) /\ ~Done(k)
      BY <1>7, <2>1 DEF AtWork, NextState, Done, States
    <3>2. QED
      BY <1>5, <3>1 DEF PacedInv
  <2>2. CASE state'[k] = "S_IDLE" /\ k \in dacStat'
    <3>1. Lowest(k)
      BY <1>6, <2>2
    <3>2. ASSUME Done(k) PROVE FALSE
      <4>1. Elapsed(k)
        BY <1>7, <2>2, <3>2 DEF NextState, Done
      <4>2. curCnt[k] > 0
        BY <4>1 DEF Elapsed, TypeOK
      <4>3. QED
        BY <3>1, <3>2, <4>2 DEF RequestInv, Done, Lowest
    <3>3. QED
      BY <1>5, <3>1, <3>2
  <2>3. QED
    BY <1>8, <2>1, <2>2 DEF AtWork
<1>9. ASSUME NEW k \in Slaves, strobe'[k] > 0
      PROVE  /\ state'[k] = "S_IDLE" /\ k \notin dacStat'
             /\ strobe'[k] # 2
  <2>1. strobe[k] = 2 /\ state[k] = "S_IDLE" /\ k \notin dacStat /\ k \notin bufReg
    BY <1>2, <1>9 DEF PacedInv
  <2>2. QED
    BY <1>6, <1>7, <2>1 DEF NextState, Lowest, Tick, Ports
<1>10. QED
  BY <1>4, <1>8, <1>9 DEF PacedInv

LEMMA PacedWrite ==
  ASSUME TypeOK, PacedInv, NEW k \in Slaves, NEW w \in Words, WriteDac(k, w), paced'
  PROVE  PacedInv'
<1>1. /\ paced /\ NewReg = {} /\ \A j \in Slaves : j >= k => ~Busy(j)
      /\ UNCHANGED ctrlVars /\ strobe' = [strobe EXCEPT ![k] = 2]
  BY DEF WriteDac, Paced
<1>2. NewReg' = {k} /\ \A j \in Slaves \ {k} : ~(strobe'[j] > 0)
  BY <1>1 DEF NewReg, TypeOK
<1>3. \A i \in bufReg : i <= k
  BY <1>1 DEF Busy, TypeOK, Slaves
<1>4. state[k] = "S_IDLE" /\ k \notin dacStat /\ k \notin bufReg
  BY <1>1 DEF Busy, Slaves
<1>5. \A j \in NewReg' : \A i \in (bufReg \cup NewReg)' : i <= j
  BY <1>1, <1>2, <1>3 DEF ctrlVars, Slaves
<1>6. \A j \in Slaves : AtWork(j)' => Lowest(j)'
  BY <1>1 DEF ctrlVars, AtWork, Lowest, PacedInv
<1>7. QED
  BY <1>1, <1>2, <1>4, <1>5, <1>6 DEF ctrlVars, PacedInv

LEMMA PacedStep ==
  ASSUME ClockDiv >= 2
  PROVE  TypeOK /\ RequestInv /\ PacedInv /\ [Next]_vars => PacedInv'
<1> SUFFICES ASSUME TypeOK, RequestInv, PacedInv, [Next]_vars PROVE PacedInv'
  OBVIOUS
<1>1. CASE Tick
  <2>1. paced' = paced
    BY <1>1 DEF Tick, Ports
  <2>2. QED
    BY <1>1, <2>1, PacedTick DEF PacedInv
<1>2. ASSUME NEW k \in Slaves, NEW w \in Words, WriteDac(k, w)
      PROVE  PacedInv'
  BY <1>2, PacedWrite DEF PacedInv
<1>3. CASE UNCHANGED vars
  BY <1>3 DEF vars, ctrlVars, PacedInv, NewReg, AtWork, Lowest
<1>4. QED
  BY <1>1, <1>2, <1>3 DEF Next

LEMMA PacedInvHolds ==
  ASSUME ClockDiv >= 2
  PROVE  Spec => []PacedInv
<1>1. Init => PacedInv
  BY DEF Init, PacedInv, NewReg, AtWork
<1>2. TypeOK /\ RequestInv /\ PacedInv /\ [Next]_vars => PacedInv'
  BY PacedStep
<1>3. Spec => []RequestInv
  BY RequestInvHolds
<1>4. QED
  BY <1>1, <1>2, <1>3, TypeCorrect, PTL DEF Spec

(* While every write is paced, one chip at most is selected, and the load   *)
(* line falls only with every select high (spi_interface_ctrl.v).           *)
THEOREM OneSelectedHolds ==
  ASSUME ClockDiv >= 2
  PROVE  Spec => []OneSelected
<1>1. TypeOK /\ PacedInv => OneSelected
  <2> SUFFICES ASSUME TypeOK, PacedInv, paced
               PROVE  /\ \A j, k \in Slaves : ~Cs(j) /\ ~Cs(k) => j = k
                      /\ Ldac => \A k \in Slaves : Cs(k)
    BY DEF OneSelected
  <2>1. ASSUME NEW j \in Slaves, NEW k \in Slaves, AtWork(j), AtWork(k)
        PROVE  j = k
    BY <2>1 DEF PacedInv, Lowest, Slaves
  <2>2. ASSUME NEW j \in Slaves, ~Cs(j) PROVE AtWork(j)
    BY <2>2 DEF Cs, Sending, AtWork
  <2>3. Ldac => Index \in Slaves /\ AtWork(Index) /\ Cs(Index)
    BY IndexIsSlave DEF Ldac, AtWork, Cs, Sending, TypeOK
  <2>4. QED
    BY <2>1, <2>2, <2>3
<1>2. Spec => []PacedInv
  BY PacedInvHolds
<1>3. QED
  BY <1>1, <1>2, TypeCorrect, PTL

-----------------------------------------------------------------------------
(* A chip at work has seen the first bits of the word on its port, one more *)
(* while the clock is high; one whose transfer is over, or that none is     *)
(* asked of, keeps and shows the word.                                      *)
Quiet == {"S_IDLE", "S_LDAC", "S_DONE"}

Shown(k) ==
  \/ state[k] \in {"S_LDAC", "S_DONE"}
  \/ state[k] = "S_IDLE" /\ strobe[k] = 0 /\ k \notin bufReg

Shifting(k) ==
  /\ state[k] \in Quiet => shift[k] = <<>>
  /\ state[k] = "S_PREP" => Len(shift[k]) = curBit[k]
  /\ state[k] = "S_SEND" => Len(shift[k]) = curBit[k] + 1
  /\ \A i \in 1..Len(shift[k]) : shift[k][i] = spiData[k][i]

Loaded(k) == Shifting(k) /\ (Shown(k) => held[k] = spiData[k] /\ dac[k] = spiData[k])

LoadInv == paced => \A k \in Slaves : Loaded(k)

Before == TypeOK /\ WholeWords /\ PacedInv /\ LoadInv /\ paced
After == TypeOK' /\ WholeWords' /\ PacedInv' /\ paced'

(* The shared pins are those of the slave at work. *)
LEMMA WorkingDrives ==
  ASSUME TypeOK, PacedInv, paced, NEW k \in Slaves, AtWork(k)
  PROVE  Index = k
<1>1. Lowest(k)
  BY DEF PacedInv
<1>2. QED
  BY <1>1, IndexIsLeast DEF Lowest, TypeOK

LEMMA LeastNext ==
  ASSUME bufReg' \subseteq Slaves, NEW k \in bufReg', \A j \in bufReg' : k <= j
  PROVE  Index' = k
<1>1. Min(bufReg') \in bufReg' /\ \A j \in bufReg' : Min(bufReg') <= j
  <2>1. \E i \in bufReg' : \A j \in bufReg' : i <= j
    OBVIOUS
  <2>2. QED
    BY <2>1 DEF Min
<1>2. k \in Nat /\ Min(bufReg') \in Nat
  <2>1. Slaves \subseteq Nat
    BY DEF Slaves
  <2>2. QED
    BY <1>1, <2>1
<1>3. QED
  BY <1>1, <1>2 DEF Index, Found

LEMMA WorkingDrivesNext ==
  ASSUME After, NEW k \in Slaves, AtWork(k)'
  PROVE  Index' = k
<1>1. Lowest(k)'
  BY DEF After, PacedInv
<1>2. QED
  BY <1>1, LeastNext DEF Lowest, After, TypeOK

LEMMA LoadSlave ==
  ASSUME Before, After, Tick, NEW k \in Slaves
  PROVE  Loaded(k)'
<1> USE DEF Before, After
<1>1. /\ state'[k] = NextState(k) /\ curBit'[k] = NextBit(k)
      /\ state[k] \in States /\ curBit[k] \in 0..Bits /\ strobe[k] \in 0..2
      /\ shift[k] \in Seq(Bit) /\ spiData[k] \in [1..Bits -> Bit]
  BY DEF Tick, Interfaces, TypeOK
<1>2. /\ shift'[k] = IF Cs(k)' THEN <<>>
                     ELSE IF Sck' /\ ~Sck THEN Append(shift[k], Sdi') ELSE shift[k]
      /\ held'[k] = IF ~Cs(k) /\ Cs(k)' /\ Len(shift[k]) = Bits THEN shift[k] ELSE held[k]
      /\ dac'[k] = IF Ldac' THEN held'[k] ELSE dac[k]
  BY DEF Tick, Chips
<1>3. strobe[k] # 2 => spiData'[k] = spiData[k]
  BY DEF Tick, Ports
<1>4. Loaded(k)
  BY DEF LoadInv
<1>5. strobe[k] > 0 => /\ state[k] = "S_IDLE" /\ k \notin dacStat
                       /\ strobe[k] = 2 => k \notin bufReg
  BY DEF PacedInv
<1>6. AtWork(k) => Index = k
  BY WorkingDrives
<1>7. AtWork(k)' => Index' = k
  BY WorkingDrivesNext
<1>8. CASE state[k] = "S_IDLE" /\ state'[k] = "S_IDLE"
  <2>1. Cs(k) /\ Cs(k)'
    BY <1>8 DEF Cs, Sending
  <2>2. shift'[k] = <<>> /\ held'[k] = held[k]
    BY <1>2, <2>1
  <2>3. ASSUME Shown(k)' PROVE Shown(k) /\ strobe[k] = 0
    <3>1. strobe'[k] = 0 /\ k \notin bufReg'
      BY <1>8, <2>3 DEF Shown
    <3>2. k \notin bufReg /\ k \notin NewReg
      BY <1>8, <3>1 DEF Tick, DacUpdater, Requests, Done, TypeOK
    <3>3. strobe[k] = 0
      BY <1>1, <3>2 DEF NewReg
    <3>4. QED
      BY <1>8, <3>2, <3>3 DEF Shown
  <2>4. Shown(k)' => held'[k] = spiData'[k] /\ dac'[k] = spiData'[k]
    <3> SUFFICES ASSUME Shown(k)' PROVE held'[k] = spiData'[k] /\ dac'[k] = spiData'[k]
      OBVIOUS
    <3>1. held[k] = spiData[k] /\ dac[k] = spiData[k]
      BY <1>4, <2>3 DEF Loaded
    <3>2. spiData'[k] = spiData[k]
      BY <1>3, <2>3
    <3>3. QED
      BY <1>2, <2>2, <3>1, <3>2
  <2>5. Shifting(k)'
    BY <1>8, <2>2 DEF Shifting
  <2>6. QED
    BY <2>4, <2>5 DEF Loaded
<1>9. CASE state[k] = "S_IDLE" /\ state'[k] # "S_IDLE"
  <2>1. state'[k] = "S_PREP" /\ k \in dacStat
    BY <1>1, <1>9 DEF NextState
  <2>2. spiData'[k] = spiData[k]
    BY <1>3, <1>5, <2>1
  <2>3. curBit[k] = 0 /\ curBit'[k] = 0
    BY <1>1, <1>9 DEF WholeWords, NextBit
  <2>4. ~Cs(k)' /\ ~Sck'
    BY <1>7, <2>1 DEF AtWork, Cs, Sending, Sck
  <2>5. shift'[k] = <<>>
    BY <1>2, <1>4, <1>9, <2>4 DEF Loaded, Shifting, Quiet
  <2>6. QED
    BY <2>1, <2>3, <2>5 DEF Loaded, Shifting, Shown, Quiet
<1>10. CASE state[k] = "S_PREP"
  <2>1. spiData'[k] = spiData[k] /\ Index = k /\ ~Sck
    BY <1>3, <1>5, <1>1, <1>6, <1>10 DEF AtWork, Sck
  <2>2. /\ Len(shift[k]) = curBit[k]
        /\ \A i \in 1..Len(shift[k]) : shift[k][i] = spiData[k][i]
    BY <1>4, <1>10 DEF Loaded, Shifting
  <2>3. CASE state'[k] = "S_PREP"
    <3>1. curBit'[k] = curBit[k]
      BY <1>1, <1>10, <2>3 DEF NextState, NextBit
    <3>2. shift'[k] = shift[k]
      BY <1>2, <1>7, <2>3 DEF AtWork, Cs, Sending, Sck
    <3>3. QED
      BY <2>1, <2>2, <2>3, <3>1, <3>2 DEF Loaded, Shifting, Shown, Quiet
  <2>4. CASE state'[k] = "S_SEND"
    <3>1. curBit'[k] = curBit[k] /\ curBit[k] < Bits
      BY <1>1, <1>10, <2>4 DEF NextState, NextBit
    <3>2. Sck' /\ ~Cs(k)' /\ Sdi' = spiData'[k][curBit'[k] + 1]
      BY <1>7, <2>4, <3>1 DEF AtWork, Cs, Sending, Sck, Sdi
    <3>3. shift'[k] = Append(shift[k], spiData[k][curBit[k] + 1])
      BY <1>2, <2>1, <3>1, <3>2
    <3>4. Len(shift'[k]) = curBit[k] + 1
      BY <1>1, <2>2, <3>3
    <3>5. \A i \in 1..Len(shift'[k]) : shift'[k][i] = spiData'[k][i]
      BY <1>1, <2>1, <2>2, <3>3, <3>4
    <3>6. QED
      BY <2>4, <3>1, <3>4, <3>5 DEF Loaded, Shifting, Shown, Quiet
  <2>5. CASE state'[k] = "S_LDAC"
    <3>1. Len(shift[k]) = Bits
      BY <1>1, <1>10, <2>2, <2>5 DEF NextState
    <3>2. ~Cs(k) /\ Cs(k)' /\ Ldac'
      BY <1>7, <1>10, <2>5 DEF AtWork, Cs, Sending, Ldac
    <3>3. shift'[k] = <<>> /\ held'[k] = shift[k] /\ dac'[k] = shift[k]
      BY <1>2, <3>1, <3>2
    <3>4. shift[k] = spiData[k]
      BY <1>1, <2>2, <3>1
    <3>5. QED
      BY <2>1, <2>5, <3>3, <3>4 DEF Loaded, Shifting
  <2>6. QED
    BY <1>1, <1>10, <2>3, <2>4, <2>5 DEF NextState
<1>11. CASE state[k] = "S_SEND"
  <2>1. spiData'[k] = spiData[k] /\ Sck
    BY <1>3, <1>5, <1>1, <1>6, <1>11 DEF AtWork, Sck
  <2>2. /\ state'[k] \in {"S_SEND", "S_PREP"} /\ curBit[k] < Bits
        /\ curBit'[k] = IF state'[k] = "S_PREP" THEN curBit[k] + 1 ELSE curBit[k]
    BY <1>1, <1>11 DEF NextState, NextBit, WholeWords
  <2>3. shift'[k] = shift[k]
    BY <1>2, <2>1, <2>2 DEF Cs, Sending
  <2>4. QED
    BY <1>4, <1>11, <2>1, <2>2, <2>3 DEF Loaded, Shifting, Shown, Quiet
<1>12. CASE state[k] \in {"S_LDAC", "S_DONE"}
  <2>1. state'[k] \in Quiet
    BY <1>1, <1>12 DEF NextState, Quiet
  <2>2. Cs(k) /\ Cs(k)'
    BY <1>12, <2>1 DEF Cs, Sending, Quiet
  <2>3. spiData'[k] = spiData[k] /\ held[k] = spiData[k] /\ dac[k] = spiData[k]
    BY <1>1, <1>3, <1>4, <1>5, <1>12 DEF Loaded, Shown
  <2>4. shift'[k] = <<>> /\ held'[k] = spiData'[k] /\ dac'[k] = spiData'[k]
    BY <1>2, <2>2, <2>3
  <2>5. QED
    BY <2>1, <2>4 DEF Loaded, Shifting, Quiet
<1>13. QED
  BY <1>1, <1>8, <1>9, <1>10, <1>11, <1>12 DEF States

LEMMA LoadStep ==
  TypeOK /\ WholeWords /\ PacedInv /\ LoadInv /\ [Next]_vars
    /\ TypeOK' /\ WholeWords' /\ PacedInv' => LoadInv'
<1> SUFFICES ASSUME TypeOK, WholeWords, PacedInv, LoadInv, [Next]_vars,
                    TypeOK', WholeWords', PacedInv', paced', NEW k \in Slaves
             PROVE  Loaded(k)'
  BY DEF LoadInv
<1>1. CASE Tick
  <2>1. paced
    BY <1>1 DEF Tick, Ports
  <2>2. QED
    BY <1>1, <2>1, LoadSlave DEF Before, After
<1>2. ASSUME NEW j \in Slaves, NEW w \in Words, WriteDac(j, w)
      PROVE  Loaded(k)'
  <2>1. Loaded(k)
    BY <1>2 DEF WriteDac, LoadInv
  <2>2. Shown(k)' => Shown(k)
    BY <1>2 DEF WriteDac, ctrlVars, Shown, TypeOK
  <2>3. Shifting(k)' = Shifting(k) /\ UNCHANGED <<held, dac, spiData>>
    BY <1>2 DEF WriteDac, ctrlVars, chipVars, Shifting
  <2>4. QED
    BY <2>1, <2>2, <2>3 DEF Loaded
<1>3. CASE UNCHANGED vars
  BY <1>3 DEF vars, ctrlVars, chipVars, LoadInv, Loaded, Shifting, Shown
<1>4. QED
  BY <1>1, <1>2, <1>3 DEF Next

(* While every write is paced, a DAC no longer busy shows the word last     *)
(* written to its register, shifted in whole (spi_interface.v).             *)
THEOREM PacedWordLoadedHolds ==
  ASSUME ClockDiv >= 2
  PROVE  Spec => []PacedWordLoaded
<1>1. Init => LoadInv
  BY DEF Init, LoadInv, Loaded, Shifting, Shown, Quiet
<1>2. TypeOK /\ LoadInv => PacedWordLoaded
  <2> SUFFICES ASSUME TypeOK, LoadInv, paced, NEW k \in Slaves, ~Busy(k)
               PROVE  dac[k] = spiData[k]
    BY DEF PacedWordLoaded
  <2>1. strobe[k] \in 0..2
    BY DEF TypeOK
  <2>2. Shown(k)
    BY <2>1 DEF Busy, Shown
  <2>3. QED
    BY <2>2 DEF LoadInv, Loaded
<1>3. Spec => []PacedInv
  BY PacedInvHolds
<1>4. QED
  BY <1>1, <1>2, <1>3, LoadStep, TypeCorrect, WholeWordsHolds, PTL DEF Spec

=============================================================================
