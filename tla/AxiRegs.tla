------------------------------- MODULE AxiRegs -------------------------------
(***************************************************************************)
(* The register path as the block design wires it: the processor's AXI      *)
(* master, AxiLiteSlaveSimple and TransactRegiMap on one 50 MHz clock.      *)
(*                                                                          *)
(* The master follows the AXI rules: valid stays up until ready, and it has *)
(* one read and one write outstanding at most (the slave's interface is     *)
(* declared so in the block design).  With Overlap empty it has one         *)
(* transaction in all, as the processor's strongly ordered accesses do.     *)
(***************************************************************************)
CONSTANTS
  Halves, Odd, FpgaId,
  Used,      \* the addresses this instance reads and writes
  Strobes,   \* the sets of half-words a write may strobe
  Overlap    \* the addresses of a read and a write that may be outstanding together

VARIABLES
  arvalid, araddr, awvalid, awaddr, wvalid, mdata, wstrb,
  rstate, arready, rreq, sRaddr, vRdata, rvalid, axiRdata,
  wstate, awready, wready, wreq, wen, sWaddr, wdataReg, wstrbReg, wdata, bvalid,
  ack, rdata, store, port, load,
  rbusy, wbusy,   \* the master waits for an answer
  toRaise         \* write channels the master has still to raise

Zero == "0"
ZeroWord == [hi |-> Zero, lo |-> Zero]
HalfWord == Halves \cup {Zero, "1", FpgaId, "abad", "add0", "05a7", "cafe"}
Word == [hi: HalfWord, lo: HalfWord]

Slave == INSTANCE AxiLiteSlave WITH Address <- Used
Map == INSTANCE TransactRegMap WITH addr <- Slave!Addr, req <- Slave!Req

masterVars == <<arvalid, araddr, awvalid, awaddr, wvalid, mdata, wstrb,
                rbusy, wbusy, toRaise>>
mapVars == <<ack, rdata, store, port, load>>
slaveVars == <<rstate, arready, rreq, sRaddr, vRdata, rvalid, axiRdata,
               wstate, awready, wready, wreq, wen, sWaddr, wdataReg, wstrbReg,
               wdata, bvalid>>
vars == <<masterVars, slaveVars, mapVars>>

ASSUME UsedAssumption == Used \subseteq Map!Address /\ "scratch" \in Used
ASSUME OverlapAssumption == Overlap \subseteq Used
ASSUME StrobesAssumption == Strobes \subseteq SUBSET {"hi", "lo"}

-----------------------------------------------------------------------------
Free == ~rbusy /\ ~wbusy

IssueRead(a) ==
  /\ ~rbusy
  /\ wbusy => {a, awaddr} \subseteq Overlap
  /\ rbusy' = TRUE
  /\ arvalid' = TRUE /\ araddr' = a
  /\ UNCHANGED <<awvalid, awaddr, wvalid, mdata, wstrb, wbusy,
                 toRaise, slaveVars, mapVars>>

(* A write raises its two channels together, or either one first. *)
IssueWrite(a, w, strobes, first) ==
  /\ ~wbusy
  /\ rbusy => {a, araddr} \subseteq Overlap
  /\ wbusy' = TRUE
  /\ awaddr' = a /\ mdata' = w /\ wstrb' = strobes
  /\ awvalid' = ("aw" \in first) /\ wvalid' = ("w" \in first)
  /\ toRaise' = {"aw", "w"} \ first
  /\ UNCHANGED <<arvalid, araddr, rbusy, slaveVars, mapVars>>

RaiseRest ==
  /\ toRaise # {}
  /\ awvalid' = (awvalid \/ "aw" \in toRaise)
  /\ wvalid' = (wvalid \/ "w" \in toRaise)
  /\ toRaise' = {}
  /\ UNCHANGED <<arvalid, araddr, awaddr, mdata, wstrb, rbusy, wbusy,
                 slaveVars, mapVars>>

(* The master's side of an edge: handshakes end.  Between writes it drives *)
(* no particular address and data.                                          *)
MasterEdge(rready, bready) ==
  LET done == bvalid /\ bready
  IN /\ arvalid' = (arvalid /\ ~arready)
     /\ awvalid' = (awvalid /\ ~awready)
     /\ wvalid' = (wvalid /\ ~wready)
     /\ rbusy' = (rbusy /\ ~(rvalid /\ rready))
     /\ wbusy' = (wbusy /\ ~done)
     /\ awaddr' = IF done THEN "scratch" ELSE awaddr
     /\ mdata' = IF done THEN ZeroWord ELSE mdata
     /\ wstrb' = IF done THEN {} ELSE wstrb
     /\ UNCHANGED <<araddr, toRaise>>

Tick(rready, bready) ==
  Slave!Clock(rready, bready) /\ Map!Clock /\ MasterEdge(rready, bready)

Init ==
  /\ Slave!Init /\ Map!Init
  /\ arvalid = FALSE /\ araddr = "scratch"
  /\ awvalid = FALSE /\ awaddr = "scratch" /\ wvalid = FALSE
  /\ mdata = ZeroWord /\ wstrb = {}
  /\ rbusy = FALSE /\ wbusy = FALSE /\ toRaise = {}

Next ==
  \/ \E rready, bready \in BOOLEAN : Tick(rready, bready)
  \/ \E a \in Used : IssueRead(a)
  \/ \E a \in Used, h \in Halves, strobes \in Strobes,
        first \in {{"aw"}, {"w"}, {"aw", "w"}} :
       IssueWrite(a, [hi |-> h, lo |-> h], strobes, first)
  \/ RaiseRest

Spec == Init /\ [][Next]_vars

(* The clock runs, and the master raises both channels of a write and takes *)
(* the answers.                                                             *)
FairSpec ==
  Spec /\ WF_vars(Tick(TRUE, TRUE)) /\ WF_vars(RaiseRest)

-----------------------------------------------------------------------------
TypeOK ==
  /\ Slave!TypeOK /\ Map!TypeOK
  /\ {arvalid, awvalid, wvalid, rbusy, wbusy} \subseteq BOOLEAN
  /\ araddr \in Used /\ awaddr \in Used
  /\ mdata \in Word /\ wstrb \subseteq {"hi", "lo"}
  /\ toRaise \subseteq {"aw", "w"}

(* What the outstanding write asks the register to become. *)
Asked == Map!StoreOf(awaddr, Slave!Strobed(mdata, wstrb))

(* Answers match questions: no response without a transaction waiting for   *)
(* it, though both machines are released by the same acknowledge.           *)
NoStrayAnswer == (bvalid => wbusy) /\ (rvalid => rbusy)

(* Every transaction is answered, with both machines waiting on one shared  *)
(* acknowledge.                                                             *)
EveryAccessAnswered == (rbusy ~> ~rbusy) /\ (wbusy ~> ~wbusy)

(* At every edge that sees a DAC's load strobe, the word asked for is on    *)
(* the register's port after it, also with a read in flight.  The strobe    *)
(* leaves one edge before the port changes, and the DAC path shifts the     *)
(* word out of the port: this is what SpiDac assumes of the register map.   *)
LoadCarriesWord ==
  [][\A d \in Map!Dacs :
       d \in load /\ (\E rready, bready \in BOOLEAN : Tick(rready, bready))
         => awaddr = d /\ port'[d] = Asked]_vars

-----------------------------------------------------------------------------
(* The register file that software relies on, seen in the register path. *)
Shows(a, file, w) ==
  IF a = "FPGA_ID" THEN w = Map!Low(FpgaId)
  ELSE IF a = "unmapped" THEN w = Map!BadAddress
  ELSE w.lo = file[a].lo /\ (a \in Map!LowKept \/ w.hi = file[a].hi)

ReadSide ==
  IF ~rbusy THEN [st |-> "idle"]
  ELSE IF rstate \in {"READ_RESPONSE", "DONE"} THEN [st |-> "answered", word |-> vRdata]
  ELSE [st |-> "asked", addr |-> araddr]

WriteSide ==
  IF ~wbusy THEN [st |-> "idle"]
  ELSE IF wstate = "DONE" THEN [st |-> "answered"]
  ELSE [st |-> "asked", addr |-> awaddr, word |-> Slave!Strobed(mdata, wstrb)]

Promise == INSTANCE RegisterFile WITH
  Address <- Used, Stored <- Map!Stored, Fits <- Map!StoreOf,
  file <- store, rd <- ReadSide, wr <- WriteSide

(* Software sees a register file, whatever order a write's channels are     *)
(* raised in: a read that overlaps no write returns what its register holds *)
(* (the high half of the two 16-bit registers the map does not clear is     *)
(* left open), an answered write that overlaps no read is stored, and with  *)
(* both on the shared request line still no register changes but the one    *)
(* an unanswered write names, and to what that write asks.                  *)
ActsAsRegisterFile == Promise!Spec
=============================================================================
