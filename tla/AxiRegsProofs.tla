--------------------------- MODULE AxiRegsProofs ---------------------------
(***************************************************************************)
(* Proofs about the register path, for every set of addresses, values and   *)
(* strobes, and every overlap of a read and a write.                        *)
(***************************************************************************)
EXTENDS AxiRegs, TLAPS

(* The read machine and the master's read channel: the address is valid     *)
(* until it is taken, and the master waits from there to the answer.        *)
ReadInv ==
  /\ {arvalid, arready, rvalid, rbusy} \subseteq BOOLEAN
  /\ rstate \in {"IDLE", "WAIT_MEMORY_RDATA", "READ_REGISTER", "READ_RESPONSE", "DONE"}
  /\ rvalid <=> rstate = "DONE"
  /\ rstate = "IDLE" => ~arready /\ (arvalid <=> rbusy)
  /\ rstate # "IDLE" => rbusy
  /\ rstate = "WAIT_MEMORY_RDATA" => (arvalid <=> arready)
  /\ rstate \in {"READ_REGISTER", "READ_RESPONSE", "DONE"} => ~arvalid /\ ~arready

(* A channel of a write is still to come, or has been taken. *)
ToCome(channel, valid, ready) == ~ready /\ (wbusy => (channel \in toRaise <=> ~valid))
Taken(channel, valid, ready) == channel \notin toRaise /\ (valid <=> ready)

WriteTypes ==
  /\ {awvalid, awready, wvalid, wready, bvalid, wbusy} \subseteq BOOLEAN
  /\ toRaise \subseteq {"aw", "w"}
  /\ wstate \in {"IDLE", "ADDR_FIRST", "DATA_FIRST", "UPDATE_REGISTER", "DONE"}

(* The write machine has taken the channels its state names, and the master *)
(* waits from the first of them to the answer.                              *)
WriteInv ==
  /\ WriteTypes
  /\ bvalid <=> wstate = "DONE"
  /\ ~wbusy => wstate = "IDLE" /\ ~awvalid /\ ~wvalid /\ toRaise = {}
  /\ IF wstate \in {"IDLE", "DATA_FIRST"} THEN ToCome("aw", awvalid, awready)
                                          ELSE Taken("aw", awvalid, awready)
  /\ IF wstate \in {"IDLE", "ADDR_FIRST"} THEN ToCome("w", wvalid, wready)
                                          ELSE Taken("w", wvalid, wready)
  /\ wstate = "DONE" => ~awvalid /\ ~wvalid

LEMMA ReadTick ==
  ASSUME ReadInv, NEW rready \in BOOLEAN, Slave!ReadFsm(rready),
         arvalid' = (arvalid /\ ~arready), rbusy' = (rbusy /\ ~(rvalid /\ rready))
  PROVE  ReadInv'
<1> USE DEF ReadInv
<1>1. CASE Slave!ReadIdle
  BY <1>1 DEF Slave!ReadIdle
<1>2. CASE Slave!ReadWait
  BY <1>2 DEF Slave!ReadWait
<1>3. CASE Slave!ReadRegister
  BY <1>3 DEF Slave!ReadRegister
<1>4. CASE Slave!ReadResponse
  BY <1>4 DEF Slave!ReadResponse
<1>5. CASE Slave!ReadDone(rready)
  BY <1>5 DEF Slave!ReadDone
<1> QED
  BY <1>1, <1>2, <1>3, <1>4, <1>5 DEF Slave!ReadFsm

LEMMA WriteTick ==
  ASSUME WriteInv, NEW bready \in BOOLEAN, Slave!WriteFsm(bready),
         awvalid' = (awvalid /\ ~awready), wvalid' = (wvalid /\ ~wready),
         wbusy' = (wbusy /\ ~(bvalid /\ bready)), toRaise' = toRaise
  PROVE  WriteInv'
<1> USE DEF WriteInv, WriteTypes, ToCome, Taken, Slave!SkipAddress, Slave!TakeAddress,
            Slave!SkipData, Slave!TakeData
<1>1. CASE Slave!WriteIdle
  BY <1>1 DEF Slave!WriteIdle
<1>2. CASE Slave!AddrFirst
  BY <1>2 DEF Slave!AddrFirst
<1>3. CASE Slave!DataFirst
  BY <1>3 DEF Slave!DataFirst
<1>4. CASE Slave!UpdateRegister
  BY <1>4 DEF Slave!UpdateRegister
<1>5. CASE Slave!WriteDone(bready)
  BY <1>5 DEF Slave!WriteDone
<1> QED
  BY <1>1, <1>2, <1>3, <1>4, <1>5 DEF Slave!WriteFsm

LEMMA AccessStep == ReadInv /\ WriteInv /\ [Next]_vars => ReadInv' /\ WriteInv'
<1> SUFFICES ASSUME ReadInv, WriteInv, [Next]_vars PROVE ReadInv' /\ WriteInv'
  OBVIOUS
<1>1. ASSUME NEW rready \in BOOLEAN, NEW bready \in BOOLEAN, Tick(rready, bready)
      PROVE  ReadInv' /\ WriteInv'
  BY <1>1, ReadTick, WriteTick DEF Tick, Slave!Clock, MasterEdge
<1>2. ASSUME NEW a \in Used, IssueRead(a)
      PROVE  ReadInv' /\ WriteInv'
  <2>1. ReadInv'
    BY <1>2 DEF IssueRead, ReadInv, slaveVars
  <2>2. WriteInv'
    BY <1>2 DEF IssueRead, WriteInv, WriteTypes, ToCome, Taken, slaveVars
  <2> QED
    BY <2>1, <2>2
<1>3. ASSUME NEW a \in Used, NEW w, NEW strobes, NEW first \in {{"aw"}, {"w"}, {"aw", "w"}},
             IssueWrite(a, w, strobes, first)
      PROVE  ReadInv' /\ WriteInv'
  <2>1. ReadInv'
    BY <1>3 DEF IssueWrite, ReadInv, slaveVars
  <2>2. /\ wstate' = "IDLE" /\ ~bvalid' /\ ~awready' /\ ~wready' /\ wbusy' = TRUE
        /\ {awvalid, awready, wvalid, wready, bvalid}' \subseteq BOOLEAN
    BY <1>3 DEF IssueWrite, WriteInv, WriteTypes, ToCome, slaveVars
  <2>3. /\ toRaise' \subseteq {"aw", "w"}
        /\ "aw" \in toRaise' <=> ~awvalid'
        /\ "w" \in toRaise' <=> ~wvalid'
    BY <1>3 DEF IssueWrite
  <2> QED
    BY <2>1, <2>2, <2>3 DEF WriteInv, WriteTypes, ToCome
<1>4. CASE RaiseRest
  <2>1. ReadInv'
    BY <1>4 DEF RaiseRest, ReadInv, slaveVars
  <2>2. WriteInv'
    BY <1>4 DEF RaiseRest, WriteInv, WriteTypes, ToCome, Taken, slaveVars
  <2> QED
    BY <2>1, <2>2
<1>5. CASE UNCHANGED vars
  BY <1>5 DEF vars, masterVars, slaveVars, ReadInv, WriteInv, WriteTypes, ToCome, Taken
<1> QED
  BY <1>1, <1>2, <1>3, <1>4, <1>5 DEF Next

LEMMA AccessInit == Init => ReadInv /\ WriteInv
  BY DEF Init, Slave!Init, ReadInv, WriteInv, WriteTypes, ToCome, Taken

(* No answer comes without a transaction that waits for it, though both     *)
(* machines are released by one acknowledge, which either's request raises  *)
(* (AxiLiteSlaveSimple.vhd).                                                *)
THEOREM NoStrayAnswerHolds == Spec => []NoStrayAnswer
<1>1. ReadInv /\ WriteInv => NoStrayAnswer
  BY DEF ReadInv, WriteInv, WriteTypes, NoStrayAnswer
<1> QED
  BY <1>1, AccessInit, AccessStep, PTL DEF Spec
-----------------------------------------------------------------------------
USE UsedAssumption

LEMMA StrobedWord ==
  ASSUME NEW w \in Word, NEW strobes PROVE Slave!Strobed(w, strobes) \in Word
  BY DEF Slave!Strobed, Word, HalfWord, Zero

LEMMA StoreOfWord ==
  ASSUME NEW r, NEW w \in Word PROVE Map!StoreOf(r, w) \in Word
  BY DEF Map!StoreOf, Map!Low, Map!Bit0, Map!Zero, Map!One, Word, HalfWord, Zero

LEMMA AddrUsed ==
  ASSUME Slave!TypeOK PROVE Slave!Addr \in Used
  BY DEF Slave!TypeOK, Slave!Addr

LEMMA TypeInit == Init => TypeOK
<1> SUFFICES ASSUME Init PROVE TypeOK
  OBVIOUS
<1>1. ZeroWord \in Word /\ Map!ZeroWord \in Map!Word /\ Map!Word = Word
  BY DEF ZeroWord, Word, HalfWord, Zero, Map!ZeroWord, Map!Word, Map!HalfWord, Map!Zero, Map!One
<1>2. Slave!TypeOK
  BY <1>1 DEF Init, Slave!Init, Slave!TypeOK
<1>3. Map!TypeOK
  <2>1. [hi |-> "05a7", lo |-> "cafe"] \in Map!Word
    BY DEF Map!Word, Map!HalfWord
  <2> QED
    BY <1>1, <2>1 DEF Init, Map!Init, Map!TypeOK, Map!Dacs
<1> QED
  BY <1>1, <1>2, <1>3 DEF Init, TypeOK

LEMMA SlaveTypes ==
  ASSUME TypeOK, NEW rready \in BOOLEAN, NEW bready \in BOOLEAN, Slave!Clock(rready, bready)
  PROVE  Slave!TypeOK'
<1> USE DEF TypeOK, Slave!TypeOK
<1>0. ZeroWord \in Word /\ Map!Word = Word
  BY DEF ZeroWord, Word, HalfWord, Zero, Map!ZeroWord, Map!Word, Map!HalfWord, Map!Zero, Map!One
<1>1. /\ rstate' \in {"IDLE", "WAIT_MEMORY_RDATA", "READ_REGISTER", "READ_RESPONSE", "DONE"}
      /\ {arready, rreq, rvalid}' \subseteq BOOLEAN
      /\ sRaddr' \in Used /\ {vRdata, axiRdata}' \subseteq Word
  <2>1. rdata \in Word
    BY <1>0 DEF Map!TypeOK
  <2>2. CASE Slave!ReadIdle
    BY <2>2 DEF Slave!ReadIdle
  <2>3. CASE Slave!ReadWait
    BY <2>3 DEF Slave!ReadWait
  <2>4. CASE Slave!ReadRegister
    BY <2>1, <2>4 DEF Slave!ReadRegister
  <2>5. CASE Slave!ReadResponse
    BY <2>5 DEF Slave!ReadResponse
  <2>6. CASE Slave!ReadDone(rready)
    BY <1>0, <2>6 DEF Slave!ReadDone
  <2> QED
    BY <2>2, <2>3, <2>4, <2>5, <2>6 DEF Slave!Clock, Slave!ReadFsm
<1>2. /\ wstate' \in {"IDLE", "ADDR_FIRST", "DATA_FIRST", "UPDATE_REGISTER", "DONE"}
      /\ {awready, wready, wreq, wen, bvalid}' \subseteq BOOLEAN
      /\ sWaddr' \in Used /\ {wdataReg, wdata}' \subseteq Word
      /\ wstrbReg' \subseteq {"hi", "lo"}
  <2> USE DEF Slave!SkipAddress, Slave!TakeAddress, Slave!SkipData, Slave!TakeData
  <2>1. CASE Slave!WriteIdle
    BY <2>1 DEF Slave!WriteIdle
  <2>2. CASE Slave!AddrFirst
    BY <2>2 DEF Slave!AddrFirst
  <2>3. CASE Slave!DataFirst
    BY <2>3 DEF Slave!DataFirst
  <2>4. CASE Slave!UpdateRegister
    BY <2>4, StrobedWord DEF Slave!UpdateRegister
  <2>5. CASE Slave!WriteDone(bready)
    BY <2>5 DEF Slave!WriteDone
  <2> QED
    BY <2>1, <2>2, <2>3, <2>4, <2>5 DEF Slave!Clock, Slave!WriteFsm
<1> QED
  BY <1>1, <1>2

LEMMA MapTypes ==
  ASSUME TypeOK, Map!Clock
  PROVE  Map!TypeOK'
<1>0. Map!Word = Word
  BY DEF Word, HalfWord, Zero, Map!Word, Map!HalfWord, Map!Zero, Map!One
<1>1. /\ Slave!Addr \in Used /\ wdata \in Word /\ rdata \in Word
      /\ store \in [Map!Stored -> Word] /\ Used \subseteq Map!Address
  BY <1>0, AddrUsed DEF TypeOK, Slave!TypeOK, Map!TypeOK
<1>2. ack' \in BOOLEAN /\ port' \in [Map!Stored -> Word] /\ load' \subseteq Map!Dacs
  BY <1>1 DEF Map!Clock, Map!LoadStrobe, TypeOK, Slave!TypeOK, Slave!Req
<1>3. store' \in [Map!Stored -> Word]
  BY <1>1, StoreOfWord DEF Map!Clock
<1>4. rdata' \in Word
  <2>1. Map!BadAddress \in Word /\ Map!Low(FpgaId) \in Word
    BY DEF Map!BadAddress, Map!Low, Map!Zero, Word, HalfWord, Zero
  <2>2. \A a \in Map!Stored : store[a] \in Word /\ [rdata EXCEPT !.lo = store[a].lo] \in Word
    BY <1>1 DEF Word
  <2>3. \A a \in Map!Stored : Map!ReadSource(a) \in Map!Stored
    BY DEF Map!ReadSource, Map!Stored, Map!Wide
  <2>4. Slave!Addr \in Map!Stored \cup {"FPGA_ID", "unmapped"}
    BY <1>1 DEF Map!Address
  <2> QED
    BY <1>1, <2>1, <2>2, <2>3, <2>4 DEF Map!Clock
<1> QED
  BY <1>0, <1>2, <1>3, <1>4 DEF Map!TypeOK

LEMMA TypeStep == TypeOK /\ [Next]_vars => TypeOK'
<1> SUFFICES ASSUME TypeOK, [Next]_vars PROVE TypeOK'
  OBVIOUS
<1>1. ASSUME NEW rready \in BOOLEAN, NEW bready \in BOOLEAN, Tick(rready, bready)
      PROVE  TypeOK'
  <2>1. ZeroWord \in Word
    BY DEF ZeroWord, Word, HalfWord, Zero
  <2>2. /\ {arvalid, awvalid, wvalid, rbusy, wbusy}' \subseteq BOOLEAN
        /\ araddr' \in Used /\ awaddr' \in Used
        /\ mdata' \in Word /\ wstrb' \subseteq {"hi", "lo"} /\ toRaise' \subseteq {"aw", "w"}
    BY <1>1, <2>1 DEF Tick, MasterEdge, TypeOK
  <2> QED
    BY <1>1, <2>2, SlaveTypes, MapTypes DEF Tick, TypeOK
<1>2. ASSUME UNCHANGED <<slaveVars, mapVars>>,
             {arvalid, awvalid, wvalid, rbusy, wbusy}' \subseteq BOOLEAN,
             araddr' \in Used, awaddr' \in Used,
             mdata' \in Word, wstrb' \subseteq {"hi", "lo"}, toRaise' \subseteq {"aw", "w"}
      PROVE  TypeOK'
  BY <1>2 DEF TypeOK, Slave!TypeOK, Map!TypeOK, slaveVars, mapVars
<1>3. ASSUME NEW a \in Used, IssueRead(a)
      PROVE  TypeOK'
  BY <1>2, <1>3 DEF IssueRead, TypeOK
<1>4. ASSUME NEW a \in Used, NEW h \in Halves, NEW strobes \in Strobes,
             NEW first \in {{"aw"}, {"w"}, {"aw", "w"}},
             IssueWrite(a, [hi |-> h, lo |-> h], strobes, first)
      PROVE  TypeOK'
  <2>1. [hi |-> h, lo |-> h] \in Word
    BY DEF Word, HalfWord
  <2> QED
    BY <1>2, <1>4, <2>1, StrobesAssumption DEF IssueWrite, TypeOK
<1>5. CASE RaiseRest
  BY <1>2, <1>5 DEF RaiseRest, TypeOK
<1>6. CASE UNCHANGED vars
  BY <1>2, <1>6 DEF vars, masterVars, TypeOK
<1> QED
  BY <1>1, <1>3, <1>4, <1>5, <1>6 DEF Next

(* Every signal of the register path keeps its type; above all, nothing but *)
(* words reaches the registers (TransactRegiMap.vhd).                       *)
THEOREM TypeCorrect == Spec => []TypeOK
  BY TypeInit, TypeStep, PTL DEF Spec

-----------------------------------------------------------------------------
(* What a write under way has taken is what the master still asks; the      *)
(* request stands only in UPDATE_REGISTER; and a load strobe names the      *)
(* register whose word the store already holds.                             *)
CarryInv ==
  /\ wreq <=> wen
  /\ wreq => wstate = "UPDATE_REGISTER" /\ wdata = Slave!Strobed(mdata, wstrb)
  /\ wstate \in {"ADDR_FIRST", "UPDATE_REGISTER"} => sWaddr = awaddr
  /\ wstate \in {"DATA_FIRST", "UPDATE_REGISTER"} => wdataReg = mdata /\ wstrbReg = wstrb
  /\ load # {} => wstate \in {"UPDATE_REGISTER", "DONE"}
  /\ \A d \in load : d = awaddr /\ d \in Map!Dacs /\ store[d] = Asked

(* What an edge stores, if it stores anything. *)
LEMMA Stores ==
  ASSUME TypeOK, CarryInv, Map!Clock
  PROVE  store' = IF wreq /\ awaddr \in Map!Stored
                    THEN [store EXCEPT ![awaddr] = Asked] ELSE store
<1>1. wreq => Slave!Addr = awaddr /\ wdata = Slave!Strobed(mdata, wstrb)
  BY DEF CarryInv, Slave!Addr
<1>2. Map!Storing <=> wreq /\ awaddr \in Map!Stored
  BY <1>1 DEF Map!Storing, Map!Write, Slave!Req, CarryInv, TypeOK, Slave!TypeOK
<1> QED
  BY <1>1, <1>2 DEF Map!Clock, Asked

LEMMA CarryTick ==
  ASSUME TypeOK, WriteInv, CarryInv,
         NEW rready \in BOOLEAN, NEW bready \in BOOLEAN, Tick(rready, bready)
  PROVE  CarryInv'
<1>1. /\ UNCHANGED <<awaddr, mdata, wstrb>> \/ (wstate = "DONE" /\ wstate' = "IDLE")
      /\ wstate # "DONE" => UNCHANGED <<awaddr, mdata, wstrb>>
  BY DEF Tick, MasterEdge, WriteInv, WriteTypes, Slave!Clock, Slave!WriteFsm, Slave!WriteIdle,
         Slave!AddrFirst, Slave!DataFirst, Slave!UpdateRegister, Slave!WriteDone
<1>2. /\ wreq' <=> wen'
      /\ wreq' => wstate' = "UPDATE_REGISTER" /\ wdata' = Slave!Strobed(mdata', wstrb')
      /\ wstate' \in {"ADDR_FIRST", "UPDATE_REGISTER"} => sWaddr' = awaddr'
      /\ wstate' \in {"DATA_FIRST", "UPDATE_REGISTER"} => wdataReg' = mdata' /\ wstrbReg' = wstrb'
      /\ wreq => wstate' \in {"UPDATE_REGISTER", "DONE"}
  <2> USE <1>1 DEF CarryInv, Slave!SkipAddress, Slave!TakeAddress, Slave!SkipData,
                   Slave!TakeData
  <2>1. CASE Slave!WriteIdle
    BY <2>1 DEF Slave!WriteIdle
  <2>2. CASE Slave!AddrFirst
    BY <2>2 DEF Slave!AddrFirst
  <2>3. CASE Slave!DataFirst
    BY <2>3 DEF Slave!DataFirst
  <2>4. CASE Slave!UpdateRegister
    BY <2>4 DEF Slave!UpdateRegister
  <2>5. CASE Slave!WriteDone(bready)
    BY <2>5 DEF Slave!WriteDone
  <2> QED
    BY <2>1, <2>2, <2>3, <2>4, <2>5 DEF Tick, Slave!Clock, Slave!WriteFsm
<1>3. load' # {} => wreq
  BY DEF Tick, Map!Clock, Map!LoadStrobe, Map!Write, CarryInv, TypeOK, Slave!TypeOK
<1>4. ASSUME NEW d \in load'
      PROVE  d = awaddr' /\ d \in Map!Dacs /\ store'[d] = Asked'
  <2>1. wreq /\ wstate = "UPDATE_REGISTER" /\ UNCHANGED <<awaddr, mdata, wstrb>>
    BY <1>1, <1>3, <1>4 DEF CarryInv
  <2>2. d = awaddr /\ d \in Map!Dacs
    BY <1>4, <2>1 DEF Tick, Map!Clock, Map!LoadStrobe, Slave!Addr, CarryInv
  <2>3. d \in Map!Stored
    BY <2>2 DEF Map!Stored, Map!LowCleared
  <2>4. store'[d] = Asked
    BY <2>1, <2>2, <2>3, Stores DEF Tick, TypeOK, Map!TypeOK
  <2> QED
    BY <2>1, <2>2, <2>4 DEF Asked
<1> QED
  BY <1>2, <1>3, <1>4 DEF CarryInv

LEMMA CarryStep == TypeOK /\ WriteInv /\ CarryInv /\ [Next]_vars => CarryInv'
<1> SUFFICES ASSUME TypeOK, WriteInv, CarryInv, [Next]_vars PROVE CarryInv'
  OBVIOUS
<1>1. ASSUME NEW rready \in BOOLEAN, NEW bready \in BOOLEAN, Tick(rready, bready)
      PROVE  CarryInv'
  BY <1>1, CarryTick
<1>2. ASSUME UNCHANGED <<slaveVars, mapVars, awaddr, mdata, wstrb>>
      PROVE  CarryInv'
  BY <1>2 DEF slaveVars, mapVars, CarryInv, Asked
<1>3. ASSUME NEW a \in Used, IssueRead(a)
      PROVE  CarryInv'
  BY <1>2, <1>3 DEF IssueRead
<1>4. ASSUME NEW a \in Used, NEW w, NEW strobes, NEW first,
             IssueWrite(a, w, strobes, first)
      PROVE  CarryInv'
  <2>1. wstate = "IDLE" /\ UNCHANGED <<slaveVars, mapVars>>
    BY <1>4 DEF IssueWrite, WriteInv
  <2> QED
    BY <2>1 DEF slaveVars, mapVars, CarryInv
<1>5. CASE RaiseRest
  BY <1>2, <1>5 DEF RaiseRest
<1>6. CASE UNCHANGED vars
  BY <1>2, <1>6 DEF vars, masterVars
<1> QED
  BY <1>1, <1>3, <1>4, <1>5, <1>6 DEF Next

LEMMA CarryInit == Init => CarryInv
  BY DEF Init, Slave!Init, Map!Init, CarryInv

(* At an edge that sees a DAC's load strobe the word asked for is on that   *)
(* DAC's port after it, also with a read in flight on the shared request    *)
(* line (TransactRegiMap.vhd).                                              *)
THEOREM LoadCarriesWordHolds == Spec => LoadCarriesWord
<1>1. CarryInv /\ [Next]_vars =>
        [\A d \in Map!Dacs :
           d \in load /\ (\E rready, bready \in BOOLEAN : Tick(rready, bready))
             => awaddr = d /\ port'[d] = Asked]_vars
  BY DEF CarryInv, Tick, Map!Clock
<1> QED
  BY <1>1, TypeInit, TypeStep, AccessInit, AccessStep, CarryInit, CarryStep, PTL
     DEF Spec, LoadCarriesWord
-----------------------------------------------------------------------------
(* A read that has been acknowledged holds what its register held, unless a *)
(* write is about; and an acknowledge is someone's: of the write itself, or *)
(* of a read that is still there.                                           *)
AnswerInv ==
  /\ rreq <=> rstate = "WAIT_MEMORY_RDATA"
  /\ rstate # "IDLE" => sRaddr = araddr
  /\ rstate = "READ_REGISTER" /\ ~wbusy => Shows(araddr, store, rdata)
  /\ ack => wreq \/ wstate = "DONE" \/ rstate \in {"WAIT_MEMORY_RDATA", "READ_REGISTER"}

ReadBack == "reg_2" \notin Used

(* With no write about, the edge that acknowledges a read latches what its  *)
(* register holds.                                                          *)
LEMMA LatchShows ==
  ASSUME ReadBack, TypeOK, ~wreq, ~wen, rreq, sRaddr = araddr, Map!Clock
  PROVE  Shows(araddr, store', rdata')
<1>1. Slave!Addr = araddr /\ Slave!Req /\ ~Map!Write /\ araddr # "reg_2"
  BY DEF Slave!Addr, Slave!Req, Map!Write, ReadBack, TypeOK
<1>2. store' = store
  BY <1>1 DEF Map!Clock, Map!Storing
<1>3. CASE araddr \in {"FPGA_ID", "unmapped"}
  BY <1>1, <1>3 DEF Map!Clock, Shows
<1>4. CASE araddr \notin {"FPGA_ID", "unmapped"}
  <2>1. CASE araddr \in Map!LowKept
    <3>1. rdata' = [rdata EXCEPT !.lo = store[araddr].lo]
      BY <1>1, <1>4, <2>1 DEF Map!Clock
    <3>2. rdata'.lo = store[araddr].lo
      BY <3>1 DEF TypeOK, Map!TypeOK, Map!Word
    <3> QED
      BY <1>2, <1>4, <2>1, <3>2 DEF Shows
  <2>2. CASE araddr \notin Map!LowKept
    BY <1>1, <1>2, <1>4, <2>2 DEF Map!Clock, Map!ReadSource, Shows
  <2> QED
    BY <2>1, <2>2
<1> QED
  BY <1>3, <1>4

LEMMA AnswerTick ==
  ASSUME ReadBack, TypeOK, ReadInv, WriteInv, CarryInv, AnswerInv,
         NEW rready \in BOOLEAN, NEW bready \in BOOLEAN, Tick(rready, bready)
  PROVE  AnswerInv'
<1>1. /\ rreq' <=> rstate' = "WAIT_MEMORY_RDATA"
      /\ rstate' # "IDLE" => sRaddr' = araddr'
      /\ rreq => rstate' \in {"WAIT_MEMORY_RDATA", "READ_REGISTER"}
      /\ rstate' = "READ_REGISTER" => rreq /\ sRaddr = araddr /\ araddr' = araddr
  <2> USE DEF AnswerInv
  <2>1. araddr' = araddr
    BY DEF Tick, MasterEdge
  <2>2. CASE Slave!ReadIdle
    BY <2>1, <2>2 DEF Slave!ReadIdle
  <2>3. CASE Slave!ReadWait
    BY <2>1, <2>3 DEF Slave!ReadWait
  <2>4. CASE Slave!ReadRegister
    BY <2>1, <2>4 DEF Slave!ReadRegister
  <2>5. CASE Slave!ReadResponse
    BY <2>1, <2>5 DEF Slave!ReadResponse
  <2>6. CASE Slave!ReadDone(rready)
    BY <2>1, <2>6 DEF Slave!ReadDone
  <2> QED
    BY <2>2, <2>3, <2>4, <2>5, <2>6 DEF Tick, Slave!Clock, Slave!ReadFsm
<1>2. /\ wreq => wreq' \/ wstate' = "DONE"
      /\ wreq => wbusy'
  <2>1. wreq => wstate = "UPDATE_REGISTER" /\ wbusy /\ ~bvalid
    BY DEF CarryInv, WriteInv
  <2>2. wreq => wbusy'
    BY <2>1 DEF Tick, MasterEdge
  <2>3. wreq => Slave!UpdateRegister
    BY <2>1 DEF Tick, Slave!Clock, Slave!WriteFsm, Slave!WriteIdle, Slave!AddrFirst,
                Slave!DataFirst, Slave!WriteDone
  <2> QED
    BY <2>2, <2>3 DEF Slave!UpdateRegister
<1>3. ack' => rreq \/ wreq
  BY DEF Tick, Map!Clock, Slave!Req
<1>4. rstate' = "READ_REGISTER" /\ ~wbusy' => Shows(araddr', store', rdata')
  BY <1>1, <1>2, LatchShows DEF Tick, CarryInv
<1> QED
  BY <1>1, <1>2, <1>3, <1>4 DEF AnswerInv

LEMMA AnswerStep ==
  ASSUME ReadBack
  PROVE  TypeOK /\ ReadInv /\ WriteInv /\ CarryInv /\ AnswerInv /\ [Next]_vars => AnswerInv'
<1> SUFFICES ASSUME TypeOK, ReadInv, WriteInv, CarryInv, AnswerInv, [Next]_vars
             PROVE  AnswerInv'
  OBVIOUS
<1>1. ASSUME NEW rready \in BOOLEAN, NEW bready \in BOOLEAN, Tick(rready, bready)
      PROVE  AnswerInv'
  BY <1>1, AnswerTick
<1>2. ASSUME UNCHANGED <<slaveVars, mapVars>>, araddr' = araddr \/ rstate = "IDLE",
             wbusy => wbusy'
      PROVE  AnswerInv'
  BY <1>2 DEF slaveVars, mapVars, AnswerInv, Shows
<1>3. ASSUME NEW a \in Used, IssueRead(a)
      PROVE  AnswerInv'
  BY <1>2, <1>3 DEF IssueRead, ReadInv
<1>4. ASSUME NEW a \in Used, NEW w, NEW strobes, NEW first,
             IssueWrite(a, w, strobes, first)
      PROVE  AnswerInv'
  BY <1>2, <1>4 DEF IssueWrite
<1>5. CASE RaiseRest
  BY <1>2, <1>5 DEF RaiseRest
<1>6. CASE UNCHANGED vars
  BY <1>2, <1>6 DEF vars, masterVars
<1> QED
  BY <1>1, <1>3, <1>4, <1>5, <1>6 DEF Next

LEMMA AnswerInit == Init => AnswerInv
  BY DEF Init, Slave!Init, Map!Init, AnswerInv

-----------------------------------------------------------------------------
(* Each machine's edge is a step of its side of the register file. *)
LEMMA ReadSideTick ==
  ASSUME TypeOK, ReadInv, AnswerInv,
         NEW rready \in BOOLEAN, NEW bready \in BOOLEAN, Tick(rready, bready)
  PROVE  ReadSide' = ReadSide \/ Promise!AnswerRead \/ Promise!TakeRead
<1>1. araddr' = araddr /\ rbusy' = (rbusy /\ ~(rvalid /\ rready))
  BY DEF Tick, MasterEdge
<1>2. CASE Slave!ReadIdle
  BY <1>1, <1>2 DEF Slave!ReadIdle, ReadSide, ReadInv
<1>3. CASE Slave!ReadWait
  BY <1>1, <1>3 DEF Slave!ReadWait, ReadSide, ReadInv
<1>4. CASE Slave!ReadRegister
  <2>1. /\ ReadSide = [st |-> "asked", addr |-> araddr]
        /\ ReadSide' = [st |-> "answered", word |-> rdata]
    BY <1>1, <1>4 DEF Slave!ReadRegister, ReadSide, ReadInv
  <2>2. WriteSide = Promise!Idle => ~wbusy
    BY DEF WriteSide, Promise!Idle
  <2>3. rdata \in Word
    BY DEF TypeOK, Map!TypeOK, Map!Word, Word, Map!HalfWord, HalfWord, Map!One, Map!Zero, Zero
  <2> QED
    BY <1>4, <2>1, <2>2, <2>3 DEF Slave!ReadRegister, AnswerInv, Promise!AnswerRead
<1>5. CASE Slave!ReadResponse
  BY <1>1, <1>5 DEF Slave!ReadResponse, ReadSide, ReadInv
<1>6. CASE Slave!ReadDone(rready)
  <2>1. CASE rready
    BY <1>1, <1>6, <2>1
       DEF Slave!ReadDone, ReadSide, ReadInv, Promise!TakeRead, Promise!Idle
  <2>2. CASE ~rready
    BY <1>1, <1>6, <2>2 DEF Slave!ReadDone, ReadSide, ReadInv
  <2> QED
    BY <2>1, <2>2
<1> QED
  BY <1>2, <1>3, <1>4, <1>5, <1>6 DEF Tick, Slave!Clock, Slave!ReadFsm

LEMMA WriteSideTick ==
  ASSUME TypeOK, ReadInv, WriteInv, CarryInv, AnswerInv,
         NEW rready \in BOOLEAN, NEW bready \in BOOLEAN, Tick(rready, bready)
  PROVE  UNCHANGED <<store, WriteSide>> \/ Promise!Writing
<1>0. wstate # "DONE" => UNCHANGED <<awaddr, mdata, wstrb, wbusy>>
  BY DEF Tick, MasterEdge, WriteInv, WriteTypes
<1>1. store' = IF wreq /\ awaddr \in Map!Stored
                 THEN [store EXCEPT ![awaddr] = Asked] ELSE store
  BY Stores DEF Tick
<1>2. CASE wstate \in {"IDLE", "ADDR_FIRST", "DATA_FIRST"}
  <2>1. store' = store
    BY <1>1, <1>2 DEF CarryInv
  <2>2. wstate' # "DONE"
    BY <1>2 DEF Tick, Slave!Clock, Slave!WriteFsm, Slave!WriteIdle, Slave!AddrFirst,
                Slave!DataFirst, Slave!UpdateRegister, Slave!WriteDone
  <2>3. wstate # "DONE" /\ WriteSide' = WriteSide
    BY <1>0, <1>2, <2>2 DEF WriteSide
  <2> QED
    BY <2>1, <2>3
<1>3. CASE wstate = "UPDATE_REGISTER"
  <2>1. wstate' = IF ack THEN "DONE" ELSE wstate
    BY <1>3 DEF Tick, Slave!Clock, Slave!WriteFsm, Slave!WriteIdle, Slave!AddrFirst,
                Slave!DataFirst, Slave!UpdateRegister, Slave!WriteDone
  <2>2. WriteSide = [st |-> "asked", addr |-> awaddr, word |-> Slave!Strobed(mdata, wstrb)]
    BY <1>3 DEF WriteSide, WriteInv
  <2>3. Promise!Written = IF awaddr \in Map!Stored
                            THEN [store EXCEPT ![awaddr] = Asked] ELSE store
    BY <2>2 DEF Promise!Written, Asked
  <2>4. wreq => store' = Promise!Written
    BY <1>1, <2>3
  <2>5. ~wreq => store' = store
    BY <1>1
  <2>6. CASE ~ack
    <3>1. WriteSide' = WriteSide
      BY <1>0, <1>3, <2>1, <2>6 DEF WriteSide
    <3> QED
      BY <2>2, <2>4, <2>5, <3>1 DEF Promise!Writing, Promise!Store
  <2>7. CASE ack
    <3>1. WriteSide' = [st |-> "answered"]
      BY <1>0, <1>3, <2>1, <2>7 DEF WriteSide, WriteInv
    <3>2. ~wreq => ReadSide # Promise!Idle
      BY <1>3, <2>7 DEF AnswerInv, ReadInv, ReadSide, Promise!Idle
    <3>3. Promise!AnswerWrite
      BY <2>2, <2>4, <2>5, <3>1, <3>2 DEF Promise!AnswerWrite
    <3> QED
      BY <3>3 DEF Promise!Writing
  <2> QED
    BY <2>6, <2>7
<1>4. CASE wstate = "DONE"
  <2>1. store' = store /\ wbusy /\ bvalid
    BY <1>1, <1>4 DEF CarryInv, WriteInv
  <2>2. wstate' = (IF bready THEN "IDLE" ELSE wstate) /\ wbusy' = (wbusy /\ ~(bvalid /\ bready))
    BY <1>4 DEF Tick, MasterEdge, Slave!Clock, Slave!WriteFsm, Slave!WriteIdle, Slave!AddrFirst,
                Slave!DataFirst, Slave!UpdateRegister, Slave!WriteDone
  <2>3. WriteSide = [st |-> "answered"]
    BY <1>4, <2>1 DEF WriteSide
  <2>4. CASE bready
    <3>1. WriteSide' = Promise!Idle
      BY <2>1, <2>2, <2>4 DEF WriteSide, Promise!Idle
    <3> QED
      BY <2>1, <2>3, <3>1 DEF Promise!Writing, Promise!TakeWrite
  <2>5. CASE ~bready
    BY <1>4, <2>1, <2>2, <2>5 DEF WriteSide, WriteInv, WriteTypes
  <2> QED
    BY <2>4, <2>5
<1> QED
  BY <1>2, <1>3, <1>4 DEF WriteInv, WriteTypes

LEMMA PromiseStep ==
  TypeOK /\ ReadInv /\ WriteInv /\ CarryInv /\ AnswerInv /\ [Next]_vars
    => [Promise!Next]_<<store, ReadSide, WriteSide>>
<1> SUFFICES ASSUME TypeOK, ReadInv, WriteInv, CarryInv, AnswerInv, [Next]_vars
             PROVE  [Promise!Next]_<<store, ReadSide, WriteSide>>
  OBVIOUS
<1>1. ASSUME NEW rready \in BOOLEAN, NEW bready \in BOOLEAN, Tick(rready, bready)
      PROVE  [Promise!Next]_<<store, ReadSide, WriteSide>>
  BY <1>1, ReadSideTick, WriteSideTick DEF Promise!Next, Promise!Reading
<1>2. ASSUME NEW a \in Used, IssueRead(a)
      PROVE  [Promise!Next]_<<store, ReadSide, WriteSide>>
  <2>1. UNCHANGED <<store, WriteSide>>
    BY <1>2 DEF IssueRead, slaveVars, mapVars, WriteSide
  <2>2. ReadSide = Promise!Idle /\ ReadSide' = [st |-> "asked", addr |-> a]
    BY <1>2 DEF IssueRead, slaveVars, ReadSide, ReadInv, Promise!Idle
  <2>3. Promise!AskRead
    BY <2>2 DEF Promise!AskRead
  <2> QED
    BY <2>1, <2>3 DEF Promise!Next, Promise!Reading
<1>3. ASSUME NEW a \in Used, NEW h \in Halves, NEW strobes \in Strobes, NEW first,
             IssueWrite(a, [hi |-> h, lo |-> h], strobes, first)
      PROVE  [Promise!Next]_<<store, ReadSide, WriteSide>>
  <2>1. store' = store /\ ReadSide' = ReadSide
    BY <1>3 DEF IssueWrite, slaveVars, mapVars, ReadSide
  <2>2. [hi |-> h, lo |-> h] \in Word
    BY DEF Word, HalfWord
  <2>3. /\ WriteSide = Promise!Idle
        /\ WriteSide' = [st |-> "asked", addr |-> a,
                         word |-> Slave!Strobed([hi |-> h, lo |-> h], strobes)]
    BY <1>3 DEF IssueWrite, slaveVars, WriteSide, WriteInv, Promise!Idle
  <2>4. Promise!AskWrite
    BY <2>1, <2>2, <2>3, StrobedWord DEF Promise!AskWrite
  <2> QED
    BY <2>1, <2>4 DEF Promise!Next, Promise!Writing
<1>4. ASSUME UNCHANGED <<slaveVars, mapVars, rbusy, wbusy, araddr, awaddr, mdata, wstrb>>
      PROVE  [Promise!Next]_<<store, ReadSide, WriteSide>>
  BY <1>4 DEF slaveVars, mapVars, ReadSide, WriteSide
<1>5. CASE RaiseRest
  BY <1>4, <1>5 DEF RaiseRest
<1>6. CASE UNCHANGED vars
  BY <1>4, <1>6 DEF vars, masterVars
<1> QED
  BY <1>1, <1>2, <1>3, <1>5, <1>6 DEF Next

LEMMA PromiseInit == Init => Promise!Init
<1> SUFFICES ASSUME Init PROVE Promise!Init
  OBVIOUS
<1>1. store \in [Map!Stored -> Word]
  BY TypeInit DEF TypeOK, Map!TypeOK, Map!Word, Word, Map!HalfWord, HalfWord, Map!One, Map!Zero, Zero
<1> QED
  BY <1>1 DEF Init, ReadSide, WriteSide, Promise!Init, Promise!Idle

(* As long as software leaves register 2 alone, which reads back register   *)
(* 1, the register path is the register file software relies on, whatever   *)
(* it reads and writes and however reads and writes overlap                 *)
(* (AxiLiteSlaveSimple.vhd, TransactRegiMap.vhd).                           *)
THEOREM ActsAsRegisterFileHolds ==
  ASSUME ReadBack PROVE Spec => ActsAsRegisterFile
<1>1. TypeOK /\ ReadInv /\ WriteInv /\ CarryInv /\ AnswerInv /\ [Next]_vars => AnswerInv'
  BY AnswerStep
<1> QED
  BY <1>1, TypeInit, TypeStep, AccessInit, AccessStep, CarryInit, CarryStep, AnswerInit,
     PromiseInit, PromiseStep, PTL
     DEF Spec, ActsAsRegisterFile, Promise!Spec, Promise!vars
=============================================================================
