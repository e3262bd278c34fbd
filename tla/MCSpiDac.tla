------------------------------ MODULE MCSpiDac ------------------------------
(* Instances of the DAC path for TLC: words of two or three bits. *)
EXTENDS SpiDac
Words2 == [1..2 -> 0..1]
Words3 == {<<1, 0, 0>>, <<0, 1, 1>>, <<1, 1, 0>>}
=============================================================================
