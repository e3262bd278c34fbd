------------------------------ MODULE MCReadout ------------------------------
(* Instances of the hit path for TLC. *)
EXTENDS Readout

(* Every port enabled by force_valid, and one port enabled by the window of *)
(* the second chip's deltaT pad.                                            *)
SomeStarts ==
  LET low == [c \in Chips |-> FALSE]
  IN {[mask |-> Ports, force |-> TRUE, select |-> "window", window |-> FALSE,
       deltaT |-> low],
      [mask |-> {CHOOSE p \in Ports : TRUE}, force |-> FALSE, select |-> "chip2",
       window |-> FALSE, deltaT |-> [low EXCEPT !["chip2"] = TRUE]]}
=============================================================================
