----------------------------- MODULE HitCapture -----------------------------
(***************************************************************************)
(* From the QPIX pads to the FIFO generator, at 200 MHz:                    *)
(* qpix_carrier_data_ctrl.vhd with one EdgeDetector per port, and the       *)
(* sample_valid multiplexer of qpix_reg_rtl.v with its synchronizers.       *)
(*                                                                          *)
(* A port is active while its pad is low.  Sets of ports stand for the      *)
(* 16-bit vectors.  The counter is Period wide (2^64 in the source).  What  *)
(* the 50 MHz side and software own (mask, force_valid, the selection, the  *)
(* sample window) changes between any two edges, the mask bit by bit; the   *)
(* pads are asynchronous.                                                   *)
(***************************************************************************)
EXTENDS Naturals, Sequences

CONSTANTS
  Ports,       \* inputs
  Period,      \* what the timestamp counter wraps at
  Starts,      \* settings a behaviour starts from: [mask, force, select, window, deltaT]
  MaxPulses,   \* bound: pulses on the pads
  MaxChanges   \* bound: changes of mask, gate and selection

Chips == {"chip1", "chip2"}
Sources == {"window"} \cup Chips

ASSUME StartsAssumption ==
  Starts \subseteq [mask: SUBSET Ports, force: BOOLEAN, select: Sources,
                    window: BOOLEAN, deltaT: [Chips -> BOOLEAN]]
ASSUME PeriodAssumption == Period \in Nat \ {0}
ASSUME BoundsAssumption == MaxPulses \in Nat /\ MaxChanges \in Nat

VARIABLES
  active,                    \* ports whose pad is low
  q,                         \* input_q: the last three samples, newest first
  edge,                      \* qpixPortDataE
  counter,                   \* counter
  valid, word,               \* qpixCtrlOutValid, qpixCtrlOut
  mask, force,               \* qpixMask, force_valid
  select,                    \* sample_select and deltaT_select
  sampleWindow, deltaT,      \* sample_window_valid, the deltaT pads
  synced,                    \* the two flip-flops behind each deltaT pad
  samples,                   \* history: the pads at the last five edges, newest first
  gated,                     \* history: the ports enabled at the last edge
  pulses, changes            \* history: pulses and changes so far

padVars == <<active, pulses>>
cfgVars == <<mask, force, select, sampleWindow, deltaT, changes>>
capVars == <<q, edge, counter, valid, word, synced, samples, gated>>
captureVars == <<padVars, cfgVars, capVars>>

-----------------------------------------------------------------------------
(* The edge detector's combinational output. *)
Rising == q[2] \ q[3]

SampleValid == IF select = "window" THEN sampleWindow ELSE synced[select][2]

Enabled == IF SampleValid \/ force THEN mask ELSE {}

Trigger == edge \cap Enabled

\* Mutant: only what triggered is recorded.
Recorded_Masked == Trigger

(* The word holds every port's edge, the masked ones too. *)
Recorded == edge

(* One edge of the 200 MHz clock. *)
FastTick ==
  /\ q' = <<active, q[1], q[2]>>
  /\ edge' = Rising
  /\ counter' = IF counter = Period - 1 THEN 0 ELSE counter + 1
  /\ valid' = (Trigger # {})
  /\ word' = IF Trigger # {} THEN [ports |-> Recorded, time |-> counter] ELSE word
  /\ synced' = [c \in Chips |-> <<deltaT[c], synced[c][1]>>]
  /\ samples' = <<active, samples[1], samples[2], samples[3], samples[4]>>
  /\ gated' = {p \in mask : force \/ SampleValid}
  /\ UNCHANGED <<padVars, cfgVars>>

-----------------------------------------------------------------------------
(* The environment: pads, and what the slow clock and software own. *)
Fall(p) ==
  /\ p \notin active /\ pulses < MaxPulses
  /\ active' = active \cup {p} /\ pulses' = pulses + 1
  /\ UNCHANGED <<cfgVars, capVars>>

Rise(p) ==
  /\ p \in active
  /\ active' = active \ {p}
  /\ UNCHANGED <<pulses, cfgVars, capVars>>

Reconfigure ==
  /\ changes < MaxChanges /\ changes' = changes + 1
  /\ \/ /\ \E p \in Ports : mask' = (mask \ {p}) \cup ({p} \ mask)
        /\ UNCHANGED <<force, select, sampleWindow, deltaT>>
     \/ force' = ~force /\ UNCHANGED <<mask, select, sampleWindow, deltaT>>
     \/ select' \in Sources \ {select} /\ UNCHANGED <<mask, force, sampleWindow, deltaT>>
     \/ sampleWindow' = ~sampleWindow /\ UNCHANGED <<mask, force, select, deltaT>>
     \/ /\ \E c \in Chips : deltaT' = [deltaT EXCEPT ![c] = ~@]
        /\ UNCHANGED <<mask, force, select, sampleWindow>>
  /\ UNCHANGED <<padVars, capVars>>

Pads == \E p \in Ports : Fall(p) \/ Rise(p)

CaptureInit ==
  /\ active = {} /\ pulses = 0
  /\ q = <<{}, {}, {}>> /\ edge = {} /\ counter = 0
  /\ valid = FALSE /\ word = [ports |-> {}, time |-> 0]
  /\ \E s \in Starts :
       /\ mask = s.mask /\ force = s.force /\ select = s.select
       /\ sampleWindow = s.window /\ deltaT = s.deltaT
  /\ synced = [c \in Chips |-> <<deltaT[c], deltaT[c]>>]
  /\ samples = <<{}, {}, {}, {}, {}>> /\ gated = {}
  /\ changes = 0

CaptureNext == FastTick \/ Pads \/ Reconfigure
CaptureSpec == CaptureInit /\ [][CaptureNext]_captureVars

-----------------------------------------------------------------------------
CaptureTypeOK ==
  /\ active \subseteq Ports /\ edge \subseteq Ports /\ mask \subseteq Ports
  /\ gated \subseteq Ports
  /\ q \in [1..3 -> SUBSET Ports]
  /\ samples \in [1..5 -> SUBSET Ports]
  /\ counter \in 0..Period - 1
  /\ valid \in BOOLEAN /\ force \in BOOLEAN /\ sampleWindow \in BOOLEAN
  /\ word \in [ports: SUBSET Ports, time: 0..Period - 1]
  /\ select \in Sources
  /\ deltaT \in [Chips -> BOOLEAN]
  /\ synced \in [Chips -> BOOLEAN \X BOOLEAN]

(* The ports that fell between two samples, three edges before the last.    *)
Fell == samples[4] \ samples[5]

(* The count at the last edge. *)
LastCount == IF counter = 0 THEN Period - 1 ELSE counter - 1

(* However pads, mask and gate change between edges, a word is offered      *)
(* exactly when a port fell three edges ago and is enabled now, once for    *)
(* each fall; it names every port that fell at that edge and counts the     *)
(* edges up to now: all ports have the same latency.                        *)
FallStamped ==
  /\ valid <=> Fell \cap gated # {}
  /\ valid => word = [ports |-> Fell, time |-> LastCount]
=============================================================================
