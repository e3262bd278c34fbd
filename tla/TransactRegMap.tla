--------------------------- MODULE TransactRegMap ---------------------------
(***************************************************************************)
(* TransactRegiMap (src/hdl/TransactRegiMap.vhd): the register file behind  *)
(* the AXI-Lite slave.  Clock is one rising edge of the 50 MHz clock.       *)
(*                                                                          *)
(* A 32-bit word is a pair of half-words, since a register is 32 or 16 bits *)
(* wide; FPGA_ID and force_valid, narrower still, live in the low half, and *)
(* of what is written to force_valid only bit 0 is kept.                    *)
(* Registers power up as 0.                                                 *)
(***************************************************************************)
CONSTANTS
  Halves,   \* half-word values software writes
  Odd,      \* the half-words whose bit 0 is set
  FpgaId    \* the value of the FPGA_ID pins

Zero == "0"
One == "1"
HalfWord == Halves \cup {Zero, One, FpgaId, "abad", "add0", "05a7", "cafe"}
Word == [hi: HalfWord, lo: HalfWord]
ZeroWord == [hi |-> Zero, lo |-> Zero]
Low(h) == [hi |-> Zero, lo |-> h]
Bit0(h) == IF h \in Odd THEN One ELSE Zero
BadAddress == [hi |-> "abad", lo |-> "add0"]

(* Registers by how they are read and written. *)
Wide == {"scratch", "reg_0", "reg_1", "reg_2", "reg_3", "reg_4", "reg_5",
         "reg_6", "reg_7", "reg_8", "reg_9", "reg_a", "PacketLength"}
LowKept == {"SHDN", "QpixMask"}        \* a read leaves rdata's high half alone
Dacs == {"DAC_reg1", "DAC_reg2"}
LowCleared == Dacs \cup {"force_valid"}
Stored == Wide \cup LowKept \cup LowCleared
Address == Stored \cup {"FPGA_ID", "unmapped"}

VARIABLES
  addr, wdata, req, wen,  \* from the slave
  ack, rdata,             \* to the slave
  store,                  \* scratch_word, s_reg_0 .. s_force_valid
  port,                   \* reg_0 .. force_valid: the store one edge later
  load                    \* the DACs whose load strobe is high

Write == wen /\ req

StoreOf(r, w) ==
  IF r \in Wide THEN w ELSE Low(IF r = "force_valid" THEN Bit0(w.lo) ELSE w.lo)

(* The register whose contents a read of r returns. *)
ReadSource(r) == IF r = "reg_2" THEN "reg_1" ELSE r

\* Mutant: stored when the acknowledge is up, an edge after the strobe.
Storing_Late == Write /\ ack /\ addr \in Stored

Storing == Write /\ addr \in Stored

LoadStrobe == IF Write THEN {addr} \cap Dacs ELSE {}

(* One edge of the clocked process. *)
Clock ==
  /\ ack' = req
  /\ port' = store
  /\ load' = LoadStrobe
  /\ store' = IF Storing
                THEN [store EXCEPT ![addr] = StoreOf(addr, wdata)]
                ELSE store
  /\ rdata' = IF addr = "unmapped" THEN BadAddress
              ELSE IF addr = "FPGA_ID"
                THEN (IF ~wen /\ req THEN Low(FpgaId) ELSE rdata)
              ELSE IF Write THEN rdata
              ELSE IF addr \in LowKept THEN [rdata EXCEPT !.lo = store[addr].lo]
              ELSE store[ReadSource(addr)]

Init ==
  /\ ack = FALSE
  /\ rdata = ZeroWord
  /\ store = [r \in Stored |-> IF r = "scratch" THEN [hi |-> "05a7", lo |-> "cafe"]
                                                ELSE ZeroWord]
  /\ port = [r \in Stored |-> ZeroWord]
  /\ load = {}

TypeOK ==
  /\ ack \in BOOLEAN
  /\ rdata \in Word
  /\ store \in [Stored -> Word]
  /\ port \in [Stored -> Word]
  /\ load \subseteq Dacs
=============================================================================
