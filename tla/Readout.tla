------------------------------- MODULE Readout -------------------------------
(***************************************************************************)
(* The hit path from the pads to the stream: HitCapture at 200 MHz writes   *)
(* the FIFO generator that QpixFifoCtrl empties at 50 MHz, four fast edges  *)
(* to a slow one.                                                           *)
(*                                                                          *)
(* External: the FIFO generator between the two clocks.  A word written     *)
(* shows on the read side at most MaxDelay slow edges later, and a word     *)
(* that finds the FIFO full is gone: full is not connected.                 *)
(***************************************************************************)
EXTENDS HitCapture

CONSTANTS
  FifoDepth, Lengths, Ready, Sparse, MaxHits,         \* of QpixFifoCtrl
  MaxDelay,  \* slow edges until a word written is visible
  Spacing    \* fast edges between hits that keep their records whole

ASSUME FifoAssumption == FifoDepth \in Nat \ {0}
ASSUME MaxDelayAssumption == MaxDelay \in Nat
ASSUME SpacingAssumption == Spacing \in Nat

VARIABLES
  state, phase, newWord, nPackets, ren, tvalid, tlast, tdata, packetLength, tready,
  steady, fifo, hold, hits, popped, records, stream,  \* of QpixFifoCtrl
  divider,       \* fast edges since the slow one
  waited,        \* slow edges the oldest invisible word has waited
  written,       \* words the FIFO has taken
  lost,          \* history: a word found the FIFO full
  gap, spaced    \* history: fast edges since the last word, capped; none came sooner

Stream == INSTANCE QpixFifoCtrl

linkVars == <<divider, waited, written, lost, gap, spaced>>
streamVars == <<state, phase, newWord, nPackets, ren, tvalid, tlast, tdata,
                packetLength, tready, steady, fifo, hold, hits, popped, records, stream>>
vars == <<captureVars, streamVars, linkVars>>

-----------------------------------------------------------------------------
Full == written - popped >= FifoDepth

(* A fast edge.  The FIFO takes the word offered since the last one. *)
FastEdge ==
  /\ divider < 4
  /\ FastTick
  /\ divider' = divider + 1
  /\ written' = IF valid /\ ~Full THEN written + 1 ELSE written
  /\ lost' = (lost \/ (valid /\ Full))
  /\ spaced' = (spaced /\ (valid => gap = Spacing))
  /\ gap' = IF valid THEN 1 ELSE IF gap < Spacing THEN gap + 1 ELSE gap
  /\ UNCHANGED <<streamVars, waited>>

SlowEdge ==
  /\ divider = 4
  /\ Stream!Tick
  /\ written > hits => waited < MaxDelay
  /\ divider' = 0
  /\ waited' = IF written > hits THEN waited + 1 ELSE 0
  /\ UNCHANGED <<captureVars, written, lost, gap, spaced>>

Visible ==
  /\ written > hits
  /\ Stream!HitArrives
  /\ waited' = 0
  /\ UNCHANGED <<captureVars, divider, written, lost, gap, spaced>>

Environment ==
  /\ Pads \/ Reconfigure
  /\ UNCHANGED <<streamVars, linkVars>>

Init ==
  /\ CaptureInit /\ Stream!Init
  /\ divider = 0 /\ waited = 0 /\ written = 0 /\ lost = FALSE
  /\ gap = Spacing /\ spaced = TRUE

Next == FastEdge \/ SlowEdge \/ Visible \/ Environment
Spec == Init /\ [][Next]_vars

-----------------------------------------------------------------------------
(* Hits at least Spacing fast edges apart all reach the stream, each as a   *)
(* record of its own, whole, whatever the phase of the two clocks and the   *)
(* delay of the FIFO between them: the hits that FifoTorn mixes come closer *)
(* than that.                                                               *)
SpacedHitsWhole ==
  spaced =>
    /\ ~lost
    /\ \A i \in DOMAIN stream : stream[i].beat.hit = 1 + ((i - 1) \div 3)
=============================================================================
