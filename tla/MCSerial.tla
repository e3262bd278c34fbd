------------------------------ MODULE MCSerial ------------------------------
(* An instance of the serial load and readout for TLC. *)
EXTENDS Serial

(* A word that tells its bits apart, and from the zeros shifted in. *)
SomeWords == {[i \in 1..N |-> IF i = N THEN "1" ELSE "0"]}

SomeUses == {{"rst", "load", "xmit"}, {"rst", "sys", "read"},
             {"loadData", "CLKin2", "control"}}
=============================================================================
