---------------------------- MODULE AxiLiteSlave ----------------------------
(***************************************************************************)
(* AxiLiteSlaveSimple (src/hdl/AxiLiteSlaveSimple.vhd): the AXI4-Lite slave *)
(* through which software reaches the register map.  Its read and its write *)
(* state machine run side by side on the 50 MHz clock and share one request *)
(* line, one address and one acknowledge towards the register map.          *)
(*                                                                          *)
(* The byte strobes are kept per half-word.  Both machines answer OKAY to   *)
(* every address, so the response codes are left out.                       *)
(***************************************************************************)
CONSTANTS Address, Word, ZeroWord, Zero

VARIABLES
  arvalid, araddr,                          \* from the master: read address
  awvalid, awaddr, wvalid, mdata, wstrb,    \* and write address and data
  rstate, arready, rreq, sRaddr, vRdata, rvalid, axiRdata,          \* read FSM
  wstate, awready, wready, wreq, wen, sWaddr, wdataReg, wstrbReg,   \* write FSM
  wdata, bvalid,
  ack, rdata                                \* from the register map

\* Mutants: the read's address first; one machine's request left out.
Addr_ReadFirst == IF rreq THEN sRaddr ELSE sWaddr
Req_WriteOnly == wreq

(* The request to the register map: a write's address hides a read's. *)
Addr == IF wreq THEN sWaddr ELSE sRaddr
Req == rreq \/ wreq

-----------------------------------------------------------------------------
(* The read machine, one action per state; rready is sampled at the edge. *)
ReadIdle ==
  /\ rstate = "IDLE"
  /\ arready' = arvalid
  /\ rreq' = arvalid
  /\ sRaddr' = IF arvalid THEN araddr ELSE sRaddr
  /\ rstate' = IF arvalid THEN "WAIT_MEMORY_RDATA" ELSE rstate
  /\ UNCHANGED <<vRdata, rvalid, axiRdata>>

ReadWait ==
  /\ rstate = "WAIT_MEMORY_RDATA"
  /\ arready' = FALSE
  /\ rreq' = (rreq /\ ~ack)
  /\ rstate' = IF ack THEN "READ_REGISTER" ELSE rstate
  /\ UNCHANGED <<sRaddr, vRdata, rvalid, axiRdata>>

ReadRegister ==
  /\ rstate = "READ_REGISTER"
  /\ arready' = FALSE
  /\ vRdata' = rdata
  /\ rstate' = "READ_RESPONSE"
  /\ UNCHANGED <<rreq, sRaddr, rvalid, axiRdata>>

ReadResponse ==
  /\ rstate = "READ_RESPONSE"
  /\ arready' = FALSE
  /\ rvalid' = TRUE
  /\ axiRdata' = vRdata
  /\ rstate' = "DONE"
  /\ UNCHANGED <<rreq, sRaddr, vRdata>>

ReadDone(rready) ==
  /\ rstate = "DONE"
  /\ arready' = FALSE
  /\ rvalid' = (rvalid /\ ~rready)
  /\ axiRdata' = IF rready THEN ZeroWord ELSE axiRdata
  /\ rstate' = IF rready THEN "IDLE" ELSE rstate
  /\ UNCHANGED <<rreq, sRaddr, vRdata>>

ReadFsm(rready) ==
  ReadIdle \/ ReadWait \/ ReadRegister \/ ReadResponse \/ ReadDone(rready)

-----------------------------------------------------------------------------
(* The write machine.  A channel is taken when its valid is seen. *)
TakeAddress == awready' = TRUE /\ sWaddr' = awaddr
SkipAddress == awready' = FALSE /\ sWaddr' = sWaddr
TakeData == wready' = TRUE /\ wdataReg' = mdata /\ wstrbReg' = wstrb
SkipData == wready' = FALSE /\ UNCHANGED <<wdataReg, wstrbReg>>

WriteIdle ==
  /\ wstate = "IDLE"
  /\ wreq' = FALSE /\ wen' = FALSE
  /\ IF awvalid THEN TakeAddress ELSE SkipAddress
  /\ IF wvalid THEN TakeData ELSE SkipData
  /\ wstate' = IF awvalid /\ wvalid THEN "UPDATE_REGISTER"
               ELSE IF awvalid THEN "ADDR_FIRST"
               ELSE IF wvalid THEN "DATA_FIRST"
               ELSE wstate
  /\ UNCHANGED <<wdata, bvalid>>

AddrFirst ==
  /\ wstate = "ADDR_FIRST"
  /\ SkipAddress
  /\ IF wvalid THEN TakeData ELSE SkipData
  /\ wstate' = IF wvalid THEN "UPDATE_REGISTER" ELSE wstate
  /\ UNCHANGED <<wreq, wen, wdata, bvalid>>

DataFirst ==
  /\ wstate = "DATA_FIRST"
  /\ SkipData
  /\ IF awvalid THEN TakeAddress ELSE SkipAddress
  /\ wstate' = IF awvalid THEN "UPDATE_REGISTER" ELSE wstate
  /\ UNCHANGED <<wreq, wen, wdata, bvalid>>

(* A lane without its strobe is written as 0. *)
Strobed(w, strobes) ==
  [hi |-> IF "hi" \in strobes THEN w.hi ELSE Zero,
   lo |-> IF "lo" \in strobes THEN w.lo ELSE Zero]

UpdateRegister ==
  /\ wstate = "UPDATE_REGISTER"
  /\ SkipAddress /\ SkipData
  /\ wdata' = Strobed(wdataReg, wstrbReg)
  /\ wreq' = ~ack /\ wen' = ~ack
  /\ bvalid' = (bvalid \/ ack)
  /\ wstate' = IF ack THEN "DONE" ELSE wstate

\* Mutant: BVALID is not taken back.
WriteDone_KeepsValid(bready) ==
  /\ wstate = "DONE"
  /\ SkipAddress /\ SkipData
  /\ wstate' = IF bready THEN "IDLE" ELSE wstate
  /\ UNCHANGED <<wreq, wen, wdata, bvalid>>

WriteDone(bready) ==
  /\ wstate = "DONE"
  /\ SkipAddress /\ SkipData
  /\ bvalid' = (bvalid /\ ~bready)
  /\ wstate' = IF bready THEN "IDLE" ELSE wstate
  /\ UNCHANGED <<wreq, wen, wdata>>

WriteFsm(bready) ==
  WriteIdle \/ AddrFirst \/ DataFirst \/ UpdateRegister \/ WriteDone(bready)

Clock(rready, bready) == ReadFsm(rready) /\ WriteFsm(bready)

Init ==
  /\ rstate = "IDLE" /\ arready = FALSE /\ rreq = FALSE /\ rvalid = FALSE
  /\ wstate = "IDLE" /\ awready = FALSE /\ wready = FALSE
  /\ wreq = FALSE /\ wen = FALSE /\ bvalid = FALSE
  /\ sRaddr = "scratch" /\ sWaddr = "scratch"
  /\ vRdata = ZeroWord /\ axiRdata = ZeroWord
  /\ wdataReg = ZeroWord /\ wdata = ZeroWord /\ wstrbReg = {}

TypeOK ==
  /\ rstate \in {"IDLE", "WAIT_MEMORY_RDATA", "READ_REGISTER", "READ_RESPONSE", "DONE"}
  /\ wstate \in {"IDLE", "ADDR_FIRST", "DATA_FIRST", "UPDATE_REGISTER", "DONE"}
  /\ {arready, rreq, rvalid, awready, wready, wreq, wen, bvalid} \subseteq BOOLEAN
  /\ sRaddr \in Address /\ sWaddr \in Address
  /\ {vRdata, axiRdata, wdataReg, wdata} \subseteq Word
  /\ wstrbReg \subseteq {"hi", "lo"}
=============================================================================
