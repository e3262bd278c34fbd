---------------------------- MODULE CommandServer ----------------------------
(***************************************************************************)
(* The TCP command server on the carrier's one processor: the main loop     *)
(* (main.c) polls the tick flags and the network, lwIP calls recv_callback  *)
(* (ethControl.c) for each segment, HandleCmdRequest (helper.c) takes the   *)
(* segment for one command and acts on it, and IicSend (iic_ctrl.c) spins   *)
(* until the I2C interrupt has come, the timer interrupt (platform.c) going *)
(* on meanwhile.                                                            *)
(*                                                                          *)
(* TCP is a byte stream: it is cut at any byte, and a segment may hold less *)
(* or more than one command.  A byte is the command it belongs to and its   *)
(* place there.  A word (quadlet) of the buffer is a word of a command;     *)
(* Torn when its bytes are clients', but not of one word; or Junk when some *)
(* of them lie past the segment.  No client's word, wherever it begins, has *)
(* a packet code's value (four letters, helper.h) unless it is one; Junk may. *)
(*                                                                          *)
(* External: the client and the network, lwIP with its receive window and   *)
(* send buffer (a chain of pbufs is handed over when segments came out of   *)
(* order), and the I2C controller.                                          *)
(***************************************************************************)
EXTENDS Naturals, Sequences, FiniteSets

CONSTANTS
  Commands,             \* commands clients send: [packet, known, access, bytes]
  SndBuf, Window,       \* lwIP's send buffer and receive window, in bytes
  Chains,               \* TRUE: segments may come out of order
  FastEvery, SlowEvery, \* 5 and 10: timer interrupts per tcp_fasttmr, tcp_slowtmr
  Cuts,                 \* bound: the lengths of segments, and of first pbufs
  MaxCommands,          \* bound: commands in a behaviour
  MaxSegments           \* bound: segments received in a behaviour

Packets == {"QPIX", "SPI", "I2C", "CTRL", "other"}

(* known: the register, address or control code the second word selects     *)
(* exists.  Clients send whole quadlets, and unknown packets of any length. *)
ASSUME CommandsAssumption ==
  /\ Commands \subseteq [packet: Packets, known: BOOLEAN, access: {"read", "write"},
                         bytes: 4..12]
  /\ \A c \in Commands : c.packet # "other" => c.bytes % 4 = 0
ASSUME BuffersAssumption == SndBuf \in Nat /\ SndBuf % 4 = 0 /\ Window \in Nat
ASSUME ChainsAssumption == Chains \in BOOLEAN
ASSUME TimerAssumption ==
  /\ FastEvery \in Nat \ {0} /\ SlowEvery \in Nat \ {0}
  /\ SlowEvery % FastEvery = 0
ASSUME BoundsAssumption ==
  Cuts \subseteq Nat \ {0} /\ MaxCommands \in Nat /\ MaxSegments \in Nat

VARIABLES
  open,                \* a client is connected
  sent, flight,        \* commands sent; bytes of the stream not yet received
  segments,            \* number of segments received
  wnd, free,           \* lwIP: receive window, free send buffer
  acked,               \* answers the client has acknowledged
  pc,                  \* where the main loop is
  rx,                  \* RxEthBuffer
  pending,             \* the answer HandleCmdRequest will return
  fast, slow, ticks,   \* TcpFastTmrFlag, TcpSlowTmrFlag, the timer's counters
  bus,                 \* I2C controller: "idle" or "busy"
  sendComplete, errors,       \* SendComplete, TotalErrorCount # 0
  effects,             \* history: register writes and I2C transfers
  answers, refused,    \* history: answers written; why tcp_write refused others
  inStep,              \* history: the client has waited for each answer and each
                       \* segment was one command
  chained, tiny        \* history: a chain was received; less than a quadlet was

netVars == <<open, sent, flight, segments, wnd, acked, inStep, chained, tiny>>
cmdVars == <<rx, pending, effects, free, answers, refused>>
tmrVars == <<fast, slow, ticks>>
iicVars == <<bus, sendComplete, errors>>
vars == <<netVars, cmdVars, tmrVars, iicVars, pc>>

Junk == [cmd |-> 0, at |-> 0]
Torn == [cmd |-> 0, at |-> 1]
NoAnswer == [cmd |-> 0, verdict |-> "BAD", bytes |-> 0]

-----------------------------------------------------------------------------
(* Bytes of the stream and words of the buffer. *)
Bytes(n, c) == [i \in 1..c.bytes |-> [cmd |-> n, at |-> i - 1]]

(* recv_size: rounded up to whole quadlets. *)
RecvSize(b) == 4 * ((b + 3) \div 4)

(* The i-th word memcpy finds at the first pbuf's payload. *)
Payload(first, i) ==
  IF Len(first) < 4 * i + 4 THEN Junk
  ELSE LET b == first[4 * i + 1]
       IN IF b.at % 4 = 0 /\ first[4 * i + 4].cmd = b.cmd
            THEN [cmd |-> b.cmd, at |-> b.at \div 4] ELSE Torn

\* Mutant: only what the segment holds is in the buffer.
Received_Only(first, size) ==
  [i \in {j \in 0..2 : 4 * j < size} |-> Payload(first, i)]

(* RxEthBuffer after the copy: what the segment does not reach stays. *)
Received(first, size) ==
  [i \in 0..2 |-> IF 4 * i < size THEN Payload(first, i) ELSE rx[i]]

-----------------------------------------------------------------------------
(* HandleCmdRequest.  luck is what the words that are no command's own      *)
(* happen to contain; a packet code selects nothing.                        *)
Luck == [packet: Packets, known: BOOLEAN, access: {"read", "write"}]

IsHead(w) == w.cmd # 0 /\ w.at = 0
PacketOf(w, luck) ==
  IF w = Junk THEN luck.packet ELSE IF IsHead(w) THEN sent[w.cmd].packet ELSE "other"
IsCode(w) == IsHead(w) /\ sent[w.cmd].packet # "other"
Selects(w) == w.cmd # 0 /\ w.at = 1
Known(w, luck) == IF Selects(w) THEN sent[w.cmd].known ELSE luck.known /\ ~IsCode(w)
Reads(w, luck) ==
  IF Selects(w) THEN sent[w.cmd].access = "read"
  ELSE luck.access = "read" /\ ~IsCode(w)

\* Mutants: the size of a register command, and what it selects, not checked.
Valid_AnySize(buf, size, luck) ==
  CASE PacketOf(buf[0], luck) = "SPI" -> TRUE
    [] PacketOf(buf[0], luck) = "I2C" -> size = 8 /\ Known(buf[1], luck)
    [] OTHER -> Known(buf[1], luck)
Valid_AnyRegister(buf, size, luck) ==
  CASE PacketOf(buf[0], luck) = "SPI" -> TRUE
    [] PacketOf(buf[0], luck) = "I2C" -> size = 8 /\ Known(buf[1], luck)
    [] OTHER -> size = 12

(* A command is acted on if its size is right and what it selects exists;   *)
(* an SPI command's size is not looked at.                                  *)
Valid(buf, size, luck) ==
  CASE PacketOf(buf[0], luck) = "SPI" -> TRUE
    [] PacketOf(buf[0], luck) = "I2C" -> size = 8 /\ Known(buf[1], luck)
    [] OTHER -> size = 12 /\ Known(buf[1], luck)

(* whole: no part of a quadlet was received. *)
Effect(buf, luck, whole) ==
  LET packet == PacketOf(buf[0], luck)
  IN [packet |-> packet, head |-> buf[0], select |-> buf[1],
      data |-> IF packet \in {"QPIX", "CTRL"} THEN buf[2] ELSE buf[1],
      whole |-> whole]

Reply(buf, size, luck) ==
  LET packet == PacketOf(buf[0], luck)
  IN [cmd |-> buf[0].cmd,
      verdict |-> IF packet = "other" THEN "echo"
                  ELSE IF ~Valid(buf, size, luck) THEN "BAD"
                  ELSE IF Reads(buf[1], luck) /\ packet \in {"QPIX", "CTRL"}
                    THEN "value" ELSE "GOOD",
      bytes |-> IF packet = "other" THEN size ELSE 8]

(* tcp_write refuses an answer that the send buffer has no room for, and    *)
(* any when lwIP is out of memory or queue; err is not looked at.           *)
TcpWrite(answer) ==
  \/ /\ answer.bytes <= free
     /\ answers' = Append(answers, answer)
     /\ free' = free - answer.bytes
     /\ UNCHANGED refused
  \/ /\ refused' = refused \cup {IF answer.bytes <= free THEN "memory" ELSE "room"}
     /\ UNCHANGED <<answers, free>>

\* Mutant: SendComplete is not reset before a transfer.
StartSend_KeepsFlag ==
  bus' = "busy" /\ errors' = FALSE /\ sendComplete' = sendComplete

(* IicSend up to its loop. *)
StartSend == bus' = "busy" /\ errors' = FALSE /\ sendComplete' = FALSE

Act(buf, size, luck, whole) ==
  LET reply == Reply(buf, size, luck)
  IN /\ effects' = IF reply.verdict = "GOOD"
                     THEN Append(effects, Effect(buf, luck, whole)) ELSE effects
     /\ IF PacketOf(buf[0], luck) = "I2C" /\ reply.verdict = "GOOD"
          THEN /\ StartSend
               /\ pending' = reply
               /\ pc' = "spin"
               /\ UNCHANGED <<free, answers, refused>>
          ELSE /\ TcpWrite(reply)
               /\ pc' = "fast"
               /\ UNCHANGED <<pending, iicVars>>

\* Mutant: room for the segment is not asked for.
HasRoom_Always(len) == TRUE

HasRoom(len) == free > len

(* recv_callback with the first k bytes of the stream, the first j of them  *)
(* in the first pbuf.  The window is opened again by the first pbuf alone.  *)
Receive(k, j) ==
  /\ pc = "input" /\ open /\ segments < MaxSegments
  /\ {j, k} \subseteq Cuts /\ (j < k => Chains)
  /\ k <= wnd
  /\ flight' = SubSeq(flight, k + 1, Len(flight))
  /\ segments' = segments + 1
  /\ wnd' = wnd - k + j
  /\ inStep' = (inStep /\ k = Len(flight) /\ j = k)
  /\ chained' = (chained \/ j < k)
  /\ tiny' = (tiny \/ k < 4)
  /\ IF HasRoom(j)
       THEN \E luck \in Luck :
              /\ rx' = Received(SubSeq(flight, 1, j), RecvSize(k))
              /\ Act(rx', RecvSize(k), luck, k % 4 = 0)
       ELSE pc' = "fast" /\ UNCHANGED <<cmdVars, iicVars>>
  /\ UNCHANGED <<open, sent, acked, tmrVars>>

ReceiveSome ==
  \E k \in 1..Len(flight) : \E j \in 1..k : Receive(k, j)

(* recv_callback without a pbuf: the client has closed. *)
ReceiveClose ==
  /\ pc = "input" /\ open /\ flight = <<>>
  /\ open' = FALSE
  /\ pc' = "fast"
  /\ UNCHANGED <<sent, flight, segments, wnd, acked, inStep, chained, tiny, cmdVars,
                 tmrVars, iicVars>>

(* accept_callback, on a connection with buffers of its own. *)
Accept ==
  /\ pc = "input" /\ ~open
  /\ open' = TRUE
  /\ wnd' = Window /\ free' = SndBuf /\ acked' = Len(answers)
  /\ pc' = "fast"
  /\ UNCHANGED <<sent, flight, segments, inStep, chained, tiny, rx, pending, effects,
                 answers, refused, tmrVars, iicVars>>

\* Mutant: the loop waits for success only.
SendOver_Success == sendComplete

SendOver == sendComplete \/ errors

(* IicSend's loop ends; its result is not looked at. *)
SpinEnds ==
  /\ pc = "spin" /\ SendOver
  /\ TcpWrite(pending)
  /\ pc' = "fast"
  /\ UNCHANGED <<netVars, rx, pending, effects, tmrVars, iicVars>>

-----------------------------------------------------------------------------
(* The main loop. *)
Nothing == UNCHANGED <<netVars, cmdVars, ticks, iicVars>>

CallFast ==
  /\ pc = "fast"
  /\ pc' = IF fast THEN "fastCalled" ELSE "slow"
  /\ UNCHANGED <<fast, slow>> /\ Nothing

ClearFast ==
  /\ pc = "fastCalled"
  /\ fast' = FALSE
  /\ pc' = "slow"
  /\ slow' = slow /\ Nothing

CallSlow ==
  /\ pc = "slow"
  /\ pc' = IF slow THEN "slowCalled" ELSE "input"
  /\ UNCHANGED <<fast, slow>> /\ Nothing

\* Mutant: the other flag is cleared.
SlowCleared_Fast == fast' = FALSE /\ slow' = slow

SlowCleared == slow' = FALSE /\ fast' = fast

ClearSlow ==
  /\ pc = "slowCalled"
  /\ SlowCleared
  /\ pc' = "input"
  /\ Nothing

(* xemacif_input finds nothing. *)
NoFrame ==
  /\ pc = "input"
  /\ pc' = "fast"
  /\ UNCHANGED <<fast, slow>> /\ Nothing

MainLoop == SpinEnds \/ CallFast \/ ClearFast \/ CallSlow \/ ClearSlow \/ NoFrame

-----------------------------------------------------------------------------
(* Interrupts.  The timer's, with both counters in one. *)
TimerCallback ==
  /\ ticks' = (ticks + 1) % SlowEvery
  /\ fast' = (fast \/ ticks' % FastEvery = 0)
  /\ slow' = (slow \/ ticks' = 0)
  /\ UNCHANGED <<netVars, cmdVars, iicVars, pc>>

(* The I2C controller ends a transfer with one event, success or error or   *)
(* both; Handler sees success first.                                        *)
Handler ==
  /\ bus = "busy"
  /\ bus' = "idle"
  /\ \E event \in SUBSET {"SEND", "ERROR"} :
       /\ event # {}
       /\ sendComplete' = (sendComplete \/ "SEND" \in event)
       /\ errors' = (errors \/ "SEND" \notin event)
  /\ UNCHANGED <<netVars, cmdVars, tmrVars, pc>>

(* The client. *)
Send(c) ==
  /\ open /\ Len(sent) < MaxCommands
  /\ sent' = Append(sent, c)
  /\ flight' = flight \o Bytes(Len(sent) + 1, c)
  /\ inStep' = (inStep /\ acked = Len(sent))
  /\ UNCHANGED <<open, segments, wnd, acked, chained, tiny, cmdVars, tmrVars, iicVars, pc>>

Acknowledge ==
  /\ open /\ acked < Len(answers)
  /\ acked' = acked + 1
  /\ free' = free + answers[acked + 1].bytes
  /\ UNCHANGED <<open, sent, flight, segments, wnd, inStep, chained, tiny, rx, pending,
                 effects, answers, refused, tmrVars, iicVars, pc>>

Init ==
  /\ open = FALSE /\ sent = <<>> /\ flight = <<>> /\ segments = 0
  /\ wnd = Window /\ free = SndBuf /\ acked = 0
  /\ pc = "fast"
  /\ rx = [i \in 0..2 |-> Junk] /\ pending = NoAnswer
  /\ fast = FALSE /\ slow = FALSE /\ ticks = 0
  /\ bus = "idle" /\ sendComplete = FALSE /\ errors = FALSE
  /\ effects = <<>> /\ answers = <<>> /\ refused = {}
  /\ inStep = TRUE /\ chained = FALSE /\ tiny = FALSE

Next ==
  \/ ReceiveSome \/ ReceiveClose \/ Accept \/ MainLoop
  \/ TimerCallback \/ Handler
  \/ (\E c \in Commands : Send(c)) \/ Acknowledge
Spec == Init /\ [][Next]_vars

(* The processor runs, the I2C controller ends its transfers, and TCP       *)
(* delivers in the end what a connected client sent.                        *)
FairSpec ==
  Spec /\ WF_vars(MainLoop) /\ WF_vars(Handler) /\ SF_vars(ReceiveSome)

-----------------------------------------------------------------------------
Word == [cmd: 0..MaxCommands, at: 0..2]
Byte == [cmd: 1..MaxCommands, at: 0..11]
Answer == [cmd: 0..MaxCommands, verdict: {"GOOD", "BAD", "value", "echo"}, bytes: Nat]
EffectType ==
  [packet: Packets, head: Word, select: Word, data: Word, whole: BOOLEAN]

TypeOK ==
  /\ open \in BOOLEAN
  /\ sent \in Seq(Commands) /\ Len(sent) <= MaxCommands
  /\ flight \in Seq(Byte) /\ segments \in 0..MaxSegments
  /\ wnd \in 0..Window /\ free \in 0..SndBuf
  /\ acked \in 0..Len(answers)
  /\ pc \in {"fast", "fastCalled", "slow", "slowCalled", "input", "spin"}
  /\ rx \in [0..2 -> Word]
  /\ pending \in Answer
  /\ fast \in BOOLEAN /\ slow \in BOOLEAN /\ ticks \in 0..SlowEvery - 1
  /\ bus \in {"idle", "busy"} /\ sendComplete \in BOOLEAN /\ errors \in BOOLEAN
  /\ effects \in Seq(EffectType)
  /\ answers \in Seq(Answer)
  /\ refused \subseteq {"room", "memory"}
  /\ inStep \in BOOLEAN /\ chained \in BOOLEAN /\ tiny \in BOOLEAN

HasSelector(c) == c.bytes >= 8
WellSized(c) == c.bytes = IF c.packet \in {"QPIX", "CTRL"} THEN 12 ELSE 8

(* At whatever byte TCP cuts the stream, a register is written and an I2C   *)
(* transfer made only for a command that a client sent, with its selector   *)
(* and data and only if what it selects exists - but for the last word of a *)
(* segment that ends inside a quadlet, which memcpy completes with memory   *)
(* past it: the data of a register command, the one word of an I2C command. *)
(* A command of the wrong size may take in words of the next, and one too   *)
(* short for a selector is not covered.  An SPI word is its command's as    *)
(* long as each segment is one command: its size is not checked, so the     *)
(* first quadlet alone loads what an earlier command left in the buffer,    *)
(* and less than a quadlet is completed to anything.                        *)
EffectsAreCommanded ==
  ~chained =>
    \A i \in DOMAIN effects :
      LET e == effects[i]
          c == sent[e.head.cmd]
          own(at) == [cmd |-> e.head.cmd, at |-> at]
          pastEnd(w) == ~e.whole /\ w = Junk
      IN /\ e.packet # "SPI" \/ ~tiny => IsHead(e.head) /\ c.packet = e.packet
         /\ e.packet # "SPI" /\ HasSelector(c) =>
              \/ e.select = own(1) /\ c.known
              \/ e.packet = "I2C" /\ pastEnd(e.select)
         /\ e.packet # "SPI" /\ WellSized(c) =>
              \/ e.data = own(IF e.packet = "I2C" THEN 1 ELSE 2)
              \/ pastEnd(e.data)
         /\ e.packet = "SPI" /\ inStep /\ HasSelector(c) => e.data = own(1)

(* What the server should say to a command. *)
RightVerdict(c) ==
  IF c.packet = "other" THEN "echo"
  ELSE IF c.packet = "SPI" THEN "GOOD"
  ELSE IF ~c.known \/ ~WellSized(c) THEN "BAD"
  ELSE IF c.access = "read" /\ c.packet # "I2C" THEN "value" ELSE "GOOD"

(* A client that waits for each answer gets them in the order of its        *)
(* commands, each with its verdict, and, when no answer is refused, a       *)
(* command is acted on once exactly when it is answered GOOD.               *)
AnswersPair ==
  inStep =>
    /\ \A n \in DOMAIN answers :
         /\ answers[n].cmd = n
         /\ answers[n].verdict = RightVerdict(sent[n])
    /\ refused = {} =>
         Len(effects) = Cardinality({n \in DOMAIN answers : answers[n].verdict = "GOOD"})
                        + (IF pc = "spin" THEN 1 ELSE 0)

(* The check against the length of the segment is enough for an answer that *)
(* is longer than it: nothing is done whose answer then finds no room.  It  *)
(* is not enough for less than a quadlet, which four free bytes let in.     *)
AnswerHasRoom == ~chained /\ ~tiny => "room" \notin refused

(* "indicate that the packet has been received" (ethControl.c:130): the     *)
(* window is open again when everything sent has been received.             *)
WindowReturned == flight = <<>> => wnd = Window

(* IicSend returns when its own transfer is over, never on a flag that an   *)
(* earlier one left.                                                        *)
SpinEndsWithTransfer == [][pc = "spin" /\ pc' # "spin" => bus = "idle"]_vars

(* A client that waits for each answer gets one to each command, also when  *)
(* an I2C transfer fails, unless tcp_write refuses one.                     *)
CommandAnswered ==
  \A n \in 1..MaxCommands :
    Len(sent) >= n /\ inStep ~> Len(answers) >= n \/ ~inStep \/ refused # {}

(* A tick is handed to lwIP also when it comes while IicSend spins, so the  *)
(* timers never stop.  One that comes between the call and the clearing of  *)
(* the flag (main.c:44-51) is taken with the call before it: lwIP's timers  *)
(* need not be "absoluetly accurate" (platform.c:57-58).                    *)
TickServed ==
  /\ fast /\ pc # "fastCalled" ~> pc = "fastCalled"
  /\ slow /\ pc # "slowCalled" ~> pc = "slowCalled"
=============================================================================
