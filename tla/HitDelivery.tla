----------------------------- MODULE HitDelivery -----------------------------
(***************************************************************************)
(* What the readout promises, seen from the network end: hits come out once *)
(* each, in order and whole, in packets of a fixed number of records.       *)
(***************************************************************************)
EXTENDS Naturals, Sequences

CONSTANTS PacketLength, MaxHits

VARIABLES
  waiting,    \* hits not yet delivered, oldest first
  delivered   \* records delivered

vars == <<waiting, delivered>>

Record(h, last) == [low |-> h, mid |-> h, high |-> h, last |-> last]

(* The n-th record closes a packet. *)
Closes(n) == PacketLength = 0 \/ n % PacketLength = 0

Arrive ==
  /\ Len(waiting) + Len(delivered) < MaxHits
  /\ waiting' = Append(waiting, Len(waiting) + Len(delivered) + 1)
  /\ UNCHANGED delivered

Deliver ==
  /\ waiting # <<>>
  /\ waiting' = Tail(waiting)
  /\ delivered' = Append(delivered,
                         Record(Head(waiting), Closes(Len(delivered) + 1)))

Init == waiting = <<>> /\ delivered = <<>>
Next == Arrive \/ Deliver
Safety == Init /\ [][Next]_vars
Spec == Safety /\ WF_vars(Deliver)
=============================================================================
