---------------------------- MODULE QpixFifoCtrl ----------------------------
(***************************************************************************)
(* qpix_carrier_fifo_ctrl (src/hdl/qpix_carrier_fifo_ctrl.vhd): the clocked *)
(* process that reads 80-bit hit words out of the FIFO generator and sends  *)
(* each as three 32-bit beats of an AXI stream, closing a packet every      *)
(* qpixPacketLength words.                                                  *)
(*                                                                          *)
(* One step of Tick is one rising edge of the 50 MHz clock.  Signals the    *)
(* process assigns with <= and variables it assigns with := are both state  *)
(* here: an action reads their values before the edge.  rst is tied to 0 in *)
(* the block design, so the reset branch never runs.                        *)
(*                                                                          *)
(* The FIFO generator is external: a first-word-fall-through FIFO, which    *)
(* shows its oldest word (valid, not empty) without being asked and drops   *)
(* it at an edge where ren is high; when empty its output keeps the word    *)
(* last dropped.  The stream's consumer is external too: it raises and      *)
(* lowers TREADY as it likes.                                               *)
(*                                                                          *)
(* A hit word is known by its ordinal among those written to the FIFO; beat *)
(* part 0 is bits 31..0 of the word, 1 is bits 63..32, 2 is the tag x"cafe" *)
(* and the channel bits 79..64.                                             *)
(***************************************************************************)
EXTENDS Naturals, Sequences

CONSTANTS
  FifoDepth,  \* words the FIFO generator holds
  Lengths,    \* packet lengths software writes to the register
  Ready,      \* the values TREADY takes: {TRUE}, or BOOLEAN for a consumer that stalls
  Sparse,     \* TRUE: no hit arrives before the previous one has been sent
  MaxHits     \* bound: hits in a behaviour

ASSUME FifoDepthAssumption == FifoDepth \in Nat \ {0}
ASSUME LengthsAssumption == Lengths \subseteq Nat /\ Lengths # {}
ASSUME ReadyAssumption == Ready \subseteq BOOLEAN /\ TRUE \in Ready
ASSUME SparseAssumption == Sparse \in BOOLEAN
ASSUME MaxHitsAssumption == MaxHits \in Nat

VARIABLES
  state, phase, newWord, nPackets,  \* s_state_r, v_word_phase, newWord, nPackets
  ren, tvalid, tlast, tdata,        \* the registered outputs
  packetLength, tready,             \* inputs: the register, the consumer
  steady,                           \* history: the consumer has been ready so far
  fifo, hold,                       \* FIFO generator: visible words, word last dropped
  hits,                             \* history: words written to the FIFO
  popped, records,                  \* history: words read, third beats offered
  stream                            \* history: beats offered

fsmVars == <<state, phase, newWord, nPackets, ren, tvalid, tlast, tdata>>
vars == <<fsmVars, packetLength, tready, steady, fifo, hold, hits, popped, records, stream>>

NoHit == 0
Hit == 0..MaxHits
Beat == [part: 0..2, hit: Hit]

-----------------------------------------------------------------------------
(* The FIFO generator's output port. *)
FifoValid == fifo # <<>>
FifoEmpty == fifo = <<>>
FifoDout == IF FifoValid THEN Head(fifo) ELSE hold

(* What the edge does outside the process: a read drops the oldest word... *)
FifoRead ==
  IF ren /\ FifoValid
    THEN /\ fifo' = Tail(fifo)
         /\ hold' = Head(fifo)
         /\ popped' = popped + 1
    ELSE UNCHANGED <<fifo, hold, popped>>

(* ... and the beat on the bus is over.                                     *)
Transfer ==
  stream' = IF tvalid
              THEN Append(stream, [beat |-> tdata, last |-> tlast])
              ELSE stream

Edge == FifoRead /\ Transfer /\ UNCHANGED <<packetLength, hits>>

\* Mutant: TLAST keeps its value between beats.
NoBeat_KeepsLast == /\ tvalid' = FALSE
                    /\ UNCHANGED <<tlast, tdata, nPackets, records>>

NoBeat == /\ tvalid' = FALSE
          /\ tlast' = FALSE
          /\ UNCHANGED <<tdata, nPackets, records>>

-----------------------------------------------------------------------------
(* IDLE: a word is visible, ask the FIFO to move past it. *)
StartRead ==
  /\ state = "IDLE" /\ ~FifoEmpty
  /\ state' = "WRITE_DATA_S"
  /\ ren' = TRUE
  /\ newWord' = FALSE
  /\ phase' = 0
  /\ NoBeat

StayIdle ==
  /\ state = "IDLE" /\ FifoEmpty
  /\ ren' = FALSE
  /\ phase' = 0
  /\ NoBeat
  /\ UNCHANGED <<state, newWord>>

\* Mutant: the word in hand is forgotten when the FIFO runs empty.
HaveWord_NoLatch == FifoValid

(* newWord as the process sees it after its first IF. *)
HaveWord == newWord \/ FifoValid

CanSend == tready /\ HaveWord

\* Mutants: the word last read, for every part or for the later parts.
WordSent_LastRead == hold
WordSent_Latched == IF phase = 0 THEN FifoDout ELSE hold

WordSent == FifoDout

(* WRITE_DATA_S without a word to send or a consumer to take it. *)
Stall ==
  /\ state = "WRITE_DATA_S" /\ ~CanSend
  /\ newWord' = HaveWord
  /\ ren' = ~HaveWord
  /\ NoBeat
  /\ UNCHANGED <<state, phase>>

Offer ==
  /\ state = "WRITE_DATA_S" /\ CanSend
  /\ tvalid' = TRUE
  /\ tdata' = [part |-> phase, hit |-> WordSent]

PartsLeft == phase < 2

(* The first two beats of a record. *)
SendPart ==
  /\ Offer
  /\ PartsLeft
  /\ phase' = phase + 1
  /\ newWord' = TRUE
  /\ ren' = FALSE
  /\ tlast' = FALSE
  /\ UNCHANGED <<state, nPackets, records>>

\* Mutants: the count of the record being sent is left out; equality, which
\* a length register lowered meanwhile is past.
Full_Late == nPackets >= packetLength
Full_Equal == nPackets + 1 = packetLength

Full == nPackets + 1 >= packetLength

(* The third beat: close the packet if it is long enough, go on to the next *)
(* word if there is one.                                                    *)
SendLastPart ==
  /\ Offer
  /\ phase = 2
  /\ phase' = 0
  /\ records' = records + 1
  /\ tlast' = Full
  /\ nPackets' = IF Full THEN 0 ELSE nPackets + 1
  /\ state' = IF FifoEmpty THEN "DONE_S" ELSE state
  /\ ren' = ~FifoEmpty
  /\ newWord' = FifoEmpty

\* Mutant: the handshake itself is waited for, one cycle after it happened.
Okay_Handshake == tready /\ tvalid

Okay == tready

(* DONE_S: back to IDLE once TREADY is seen high. *)
Finish ==
  /\ state = "DONE_S"
  /\ state' = IF Okay THEN "IDLE" ELSE state
  /\ ren' = FALSE
  /\ NoBeat
  /\ UNCHANGED <<phase, newWord>>

WriteFsm == StartRead \/ StayIdle \/ Stall \/ SendPart \/ SendLastPart \/ Finish

Clock == WriteFsm /\ Edge
Tick == Clock /\ tready' \in Ready /\ steady' = (steady /\ tready')

-----------------------------------------------------------------------------
(* The 200 MHz side: a hit word becomes visible.  A full FIFO takes none: *)
(* its full flag is not connected.                                        *)
HitArrives ==
  /\ hits < MaxHits
  /\ Len(fifo) < FifoDepth
  /\ Sparse => fifo = <<>> /\ state # "WRITE_DATA_S"
  /\ hits' = hits + 1
  /\ fifo' = Append(fifo, hits + 1)
  /\ UNCHANGED <<fsmVars, packetLength, tready, steady, hold, popped, records, stream>>

(* Software writes the packet length register, at any time. *)
SetPacketLength ==
  /\ packetLength' \in Lengths
  /\ UNCHANGED <<fsmVars, tready, steady, fifo, hold, hits, popped, records, stream>>

Init ==
  /\ state = "IDLE" /\ phase = 0 /\ newWord = FALSE /\ nPackets = 0
  /\ ren = FALSE /\ tvalid = FALSE /\ tlast = FALSE
  /\ tdata = [part |-> 0, hit |-> NoHit]
  /\ packetLength \in Lengths
  /\ tready \in Ready /\ steady = tready
  /\ fifo = <<>> /\ hold = NoHit
  /\ hits = 0 /\ popped = 0 /\ records = 0
  /\ stream = <<>>

Next == Tick \/ HitArrives \/ SetPacketLength
Spec == Init /\ [][Next]_vars

(* The clock never stops, and the consumer is ready again and again. *)
FairSpec == Spec /\ WF_vars(Tick /\ tready')

-----------------------------------------------------------------------------
(* Types of the state.  newWord is meaningful only in WRITE_DATA_S. *)
TypeOK ==
  /\ state \in {"IDLE", "WRITE_DATA_S", "DONE_S"}
  /\ phase \in 0..2
  /\ newWord \in BOOLEAN
  /\ nPackets \in Nat
  /\ ren \in BOOLEAN /\ tvalid \in BOOLEAN /\ tlast \in BOOLEAN
  /\ tdata \in Beat
  /\ packetLength \in Lengths
  /\ tready \in Ready /\ steady \in BOOLEAN
  /\ fifo \in Seq(Hit)
  /\ hold \in Hit
  /\ hits \in Hit
  /\ popped \in Nat /\ records \in Nat
  /\ stream \in Seq([beat: Beat, last: BOOLEAN])

(* A word read whose record is not out yet: read at the edge that latches   *)
(* newWord, gone at the edge that offers the third beat.                    *)
InHand == IF state = "WRITE_DATA_S" /\ newWord THEN 1 ELSE 0

(* Every FIFO read becomes exactly one record, and no read finds the FIFO   *)
(* empty: the ren strobe, raised one edge and seen by the FIFO at the next, *)
(* is never doubled or lost, whatever the consumer and the arrivals do.     *)
ReadsMatchRecords ==
  /\ popped = records + InHand
  /\ ren => FifoValid

(* The beats offered cycle through the three parts without a slip, and      *)
(* TLAST comes only on a third part: a packet holds whole records.          *)
Framing ==
  /\ \A i \in 1..Len(stream) :
       /\ stream[i].beat.part = (i - 1) % 3
       /\ stream[i].last => stream[i].beat.part = 2
  /\ tvalid => tdata.part = Len(stream) % 3
  /\ tlast => tvalid /\ tdata.part = 2

(* Records sent since the last TLAST. *)
OpenRecords ==
  LET lasts == {i \in 1..Len(stream) : stream[i].last}
      from  == CHOOSE i \in lasts \cup {0} : \A j \in lasts : j <= i
  IN (Len(stream) - from) \div 3

(* However the length register is rewritten while a packet is open, no      *)
(* packet outgrows the largest length written.                              *)
PacketBound ==
  \A m \in Lengths \cup {1} : (\A l \in Lengths : l <= m) => OpenRecords <= m

(* Hits leave in the order they came: no beat carries an older hit than an  *)
(* earlier beat, even with records torn by a backlog.                       *)
HitOrder ==
  \A i \in 1..Len(stream) - 1 : stream[i].beat.hit <= stream[i + 1].beat.hit

(* While the consumer has never stalled, the low timestamp word of the k-th *)
(* record is that of the k-th hit, at any backlog: no hit is skipped.       *)
LowWordsComplete ==
  steady =>
    \A i \in 1..Len(stream) :
      stream[i].beat.part = 0 => stream[i].beat.hit = 1 + (i \div 3)

(* "take two clk cycles to send out the new word" (line 149), "write the    *)
(* last part word" (line 162): the three beats of a record are parts of one *)
(* hit word.                                                                *)
RecordIntact ==
  \A i \in 1..Len(stream) :
    stream[i].beat.part = 2 =>
      /\ stream[i - 1].beat.hit = stream[i].beat.hit
      /\ stream[i - 2].beat.hit = stream[i].beat.hit

(* Every hit in the FIFO is read in the end. *)
EveryHitRead == \A n \in 1..MaxHits : hits >= n ~> popped >= n

-----------------------------------------------------------------------------
(* What the readout promises: three beats offered make a record delivered. *)
RecordsOffered == Len(stream) \div 3

Delivered ==
  [n \in 1..RecordsOffered |->
     [low  |-> stream[3 * n - 2].beat.hit,
      mid  |-> stream[3 * n - 1].beat.hit,
      high |-> stream[3 * n].beat.hit,
      last |-> stream[3 * n].last]]

Waiting == [n \in 1..hits - RecordsOffered |-> RecordsOffered + n]

Promise == INSTANCE HitDelivery WITH
  PacketLength <- CHOOSE l \in Lengths : TRUE,
  waiting <- Waiting, delivered <- Delivered

(* With hits spaced wider than a record, the controller puts every hit on   *)
(* the stream once, whole, in order, in packets of the configured length,   *)
(* and does so in the end, wherever the consumer stalls it.  (What a stall  *)
(* costs is the beat on the bus, which is withdrawn untaken, line 112.)     *)
DeliversHits == Promise!Spec
=============================================================================
