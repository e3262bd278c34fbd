--------------------------- MODULE MCCommandServer ---------------------------
(* Instances of the command server for TLC. *)
EXTENDS CommandServer

Command(packet, known, access, bytes) ==
  [packet |-> packet, known |-> known, access |-> access, bytes |-> bytes]

(* A register write, one to a register that does not exist, a control read, *)
(* a DAC word, an I2C transfer, the first quadlet alone of one, and an      *)
(* unknown packet that ends in half a quadlet.                              *)
SomeCommands ==
  {Command("QPIX", TRUE, "write", 12), Command("QPIX", FALSE, "write", 12),
   Command("CTRL", TRUE, "read", 12), Command("SPI", TRUE, "write", 8),
   Command("I2C", TRUE, "write", 8),
   Command("I2C", TRUE, "write", 4), Command("other", TRUE, "write", 10)}
=============================================================================
