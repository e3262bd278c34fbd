-------------------------- MODULE DmaReadoutProofs --------------------------
(***************************************************************************)
(* Proofs about the readout of packets by DMA and UDP, for every set of     *)
(* packet sizes, every limit of the DMA and of the u16 length, any number   *)
(* of hosts, packets and retries, and any interleaving of the engine, the   *)
(* interrupt handler and the main loop.                                     *)
(***************************************************************************)
EXTENDS DmaReadout, TLAPS

USE SizesAssumption, LimitsAssumption, MaxSendRetryAssumption, HostsAssumption,
    MaxPacketsAssumption

Remotes == [{"ip", "port"} -> Hosts \cup {NoHost}]
Payloads == [packet: 0..MaxPackets, bytes: 0..Wrap - 1, whole: BOOLEAN]
Datagrams == [to: Remotes, data: Payloads]

(* What keeps the types: the bound on the packets, the packet in the buffer *)
(* has been closed and is the one before the next, and a try is left while  *)
(* there is sending.                                                        *)
TypeInv ==
  /\ TypeOK
  /\ sent \in Seq(Datagrams)
  /\ Len(sizes) <= MaxPackets
  /\ next = buffer + 1 /\ buffer <= Len(sizes)
  /\ engine = "filling" => buffer > 0
  /\ pc = "sending" => retries > 0

LEMMA TypeInit == Init => TypeInv
<1> SUFFICES ASSUME Init PROVE TypeInv
  OBVIOUS
<1>1. datagram \in Payloads
  BY DEF Init, NoDatagram, Payloads
<1>2. remote \in Remotes
  BY DEF Init, Remotes
<1>3. sizes \in Seq(Sizes) /\ Len(sizes) <= MaxPackets /\ sent \in Seq(Datagrams)
  BY DEF Init
<1> QED
  <2>1. TypeOK
    <3>1. /\ datagram \in [packet: 0..MaxPackets, bytes: 0..Wrap - 1, whole: BOOLEAN]
          /\ remote \in [{"ip", "port"} -> Hosts \cup {NoHost}]
      BY <1>1, <1>2 DEF Payloads, Remotes
    <3>2. 0 \in 0..MaxPackets /\ 0 \in 0..MaxSendRetry
      OBVIOUS
    <3> QED
      BY <1>3, <3>1, <3>2 DEF Init, TypeOK
  <2>2. next = buffer + 1 /\ buffer <= Len(sizes) /\ engine # "filling" /\ pc # "sending"
    BY DEF Init
  <2> QED
    BY <1>3, <2>1, <2>2 DEF TypeInv

LEMMA TypeStep == TypeInv /\ [Next]_vars => TypeInv'
<1> SUFFICES ASSUME TypeInv, [Next]_vars PROVE TypeInv'
  OBVIOUS
<1> USE DEF TypeInv, TypeOK, dmaVars, isrVars, mainVars
<1>1. ASSUME NEW b \in Sizes, PacketCloses(b) PROVE TypeInv'
  BY <1>1 DEF PacketCloses
<1>2. CASE StartFilling
  BY <1>2 DEF StartFilling
<1>3. CASE EndFilling
  <2>2. CASE sizes[buffer] <= MaxLength
    <3>1. buffer \in 1..Len(sizes)
      BY <1>3 DEF EndFilling
    <3>2. sizes[buffer] \in Sizes
      BY <3>1
    <3> QED
      BY <1>3, <2>2, <3>2 DEF EndFilling
  <2>3. CASE ~(sizes[buffer] <= MaxLength)
    BY <1>3, <2>3 DEF EndFilling
  <2> QED
    BY <2>2, <2>3
<1>4. CASE Enter
  <2>1. recvPackets' \in Nat /\ pc' = "acked" /\ irq' = FALSE
    BY <1>4 DEF Enter
  <2> QED
    BY <1>4, <2>1 DEF Enter
<1>5. CASE ReadLength
  BY <1>5 DEF ReadLength
<1>6. CASE Copy
  <2>1. SendSize \in 0..Wrap - 1
    BY DEF SendSize
  <2>2. datagram' \in [packet: 0..MaxPackets, bytes: 0..Wrap - 1, whole: BOOLEAN]
    BY <1>6, <2>1 DEF Copy
  <2>3. retries' \in 0..MaxSendRetry /\ retries' > 0
    BY <1>6 DEF Copy
  <2> QED
    BY <1>6, <2>2, <2>3 DEF Copy
<1>7. CASE AllocFails
  BY <1>7 DEF AllocFails
<1>8. CASE Send
  <2>1. [to |-> remote, data |-> datagram] \in Datagrams
    BY DEF Datagrams, Remotes, Payloads
  <2>2. sent' \in Seq(Datagrams)
    BY <1>8, <2>1 DEF Send
  <2> QED
    BY <1>8, <2>2 DEF Send, AfterSend
<1>9. CASE SendFails
  BY <1>9 DEF SendFails, GiveUp
<1>10. CASE Rearm
  BY <1>10 DEF Rearm
<1>11. CASE Leave
  BY <1>11 DEF Leave
<1>12. CASE AcceptCallback
  BY <1>12 DEF AcceptCallback
<1>13. ASSUME NEW h \in Hosts, UdpEchoRecv(h) PROVE TypeInv'
  BY <1>13 DEF UdpEchoRecv, StoreOrder
<1>14. CASE UdpEchoStore \/ UdpEchoDone
  BY <1>14 DEF UdpEchoStore, UdpEchoDone, StoreOrder
<1>15. CASE UNCHANGED vars
  BY <1>15 DEF vars
<1> QED
  BY <1>1, <1>2, <1>3, <1>4, <1>5, <1>6, <1>7, <1>8, <1>9, <1>10, <1>11, <1>12, <1>13,
     <1>14, <1>15 DEF Next, Hardware, Handler, MainLoop, UdpCallback

(* The state of the readout keeps its types; above all, retries never go    *)
(* below zero (udp_server.c:22).                                            *)
THEOREM TypeCorrect == Spec => []TypeOK
<1>1. TypeInv => TypeOK
  BY DEF TypeInv
<1> QED
  BY <1>1, TypeInit, TypeStep, PTL DEF Spec

-----------------------------------------------------------------------------
(* The engine and the handler take turns on the buffer: while the handler   *)
(* is at work, or about to be, the engine is idle, and what the handler has *)
(* read is about the packet in the buffer, which was not sent before.       *)
Busy == irq \/ pc \in {"acked", "copy", "sending"}

TurnInv ==
  /\ irq \/ pc \in {"acked", "copy", "sending", "done"} => engine = "idle"
  /\ engine = "idle" => buffer > 0 /\ length = sizes[buffer]
  /\ irq => pc \in {"off", "rearmed"}
  /\ pc = "copy" => dataLen = length
  /\ pc = "sending" => /\ datagram.packet = buffer /\ datagram.whole
                      /\ datagram.bytes = sizes[buffer] % Wrap

SentInv ==
  \A i \in DOMAIN sent :
    /\ sent[i].data.packet \in 1..buffer
    /\ Busy \/ engine = "filling" => sent[i].data.packet < buffer

LEMMA ClosedSizes ==
  ASSUME TypeInv, NEW b \in Sizes, PacketCloses(b), NEW k \in 1..Len(sizes)
  PROVE  k \in DOMAIN sizes' /\ sizes'[k] = sizes[k]
  BY DEF TypeInv, TypeOK, PacketCloses

LEMMA TurnStep == TypeInv /\ TurnInv /\ [Next]_vars => TurnInv'
<1> SUFFICES ASSUME TypeInv, TurnInv, [Next]_vars PROVE TurnInv'
  OBVIOUS
<1> USE DEF TurnInv, TypeInv, dmaVars, isrVars, mainVars
<1>1. ASSUME NEW b \in Sizes, PacketCloses(b) PROVE TurnInv'
  <2>1. buffer > 0 => sizes'[buffer] = sizes[buffer]
    BY <1>1, ClosedSizes DEF TypeOK
  <2>2. pc = "sending" => buffer > 0
    OBVIOUS
  <2> QED
    BY <1>1, <2>1, <2>2 DEF PacketCloses
<1>2. CASE StartFilling
  BY <1>2 DEF StartFilling
<1>3. CASE EndFilling
  BY <1>3 DEF EndFilling, TypeOK
<1>4. CASE Enter
  BY <1>4 DEF Enter
<1>5. CASE ReadLength
  BY <1>5 DEF ReadLength
<1>6. CASE Copy
  BY <1>6 DEF Copy, SendSize
<1>7. CASE AllocFails
  BY <1>7 DEF AllocFails
<1>8. CASE Send
  BY <1>8 DEF Send, AfterSend
<1>9. CASE SendFails
  BY <1>9 DEF SendFails
<1>10. CASE Rearm
  BY <1>10 DEF Rearm
<1>11. CASE Leave
  BY <1>11 DEF Leave
<1>12. CASE AcceptCallback
  BY <1>12 DEF AcceptCallback
<1>13. ASSUME NEW h \in Hosts, UdpEchoRecv(h) PROVE TurnInv'
  BY <1>13 DEF UdpEchoRecv
<1>14. CASE UdpEchoStore \/ UdpEchoDone
  BY <1>14 DEF UdpEchoStore, UdpEchoDone
<1>15. CASE UNCHANGED vars
  BY <1>15 DEF vars
<1> QED
  BY <1>1, <1>2, <1>3, <1>4, <1>5, <1>6, <1>7, <1>8, <1>9, <1>10, <1>11, <1>12, <1>13,
     <1>14, <1>15 DEF Next, Hardware, Handler, MainLoop, UdpCallback

(* The one step that sends: what it adds to the datagrams sent. *)
LEMMA SendAdds ==
  ASSUME TypeInv, Send
  PROVE  /\ Len(sent') = Len(sent) + 1
         /\ \A i \in 1..Len(sent) : sent'[i] = sent[i]
         /\ sent'[Len(sent')] = [to |-> remote, data |-> datagram]
<1> DEFINE d == [to |-> remote, data |-> datagram]
<1>1. sent \in Seq(Datagrams) /\ d \in Datagrams /\ sent' = Append(sent, d)
  BY DEF TypeInv, TypeOK, Send, Datagrams, Remotes, Payloads
<1> HIDE DEF d
<1>2. Len(sent') = Len(sent) + 1 /\ sent'[Len(sent')] = d
         /\ \A i \in 1..Len(sent) : sent'[i] = sent[i]
  BY <1>1
<1> QED
  BY <1>2 DEF d

LEMMA OnlySendSends == Next /\ ~Send => sent' = sent
  BY DEF Next, Hardware, Handler, MainLoop, PacketCloses, StartFilling, EndFilling, Enter,
         ReadLength, Copy, AllocFails, SendFails, Rearm, Leave, AcceptCallback,
         UdpCallback, UdpEchoRecv, UdpEchoStore, UdpEchoDone

LEMMA SentStep ==
  ASSUME TypeInv, TurnInv, SentInv, DatagramPerPacket, [Next]_vars
  PROVE  SentInv' /\ DatagramPerPacket'
<1>1. sent \in Seq(Datagrams) /\ buffer \in Nat /\ next = buffer + 1
  BY DEF TypeInv, TypeOK
<1>2. ASSUME Send PROVE SentInv' /\ DatagramPerPacket'
  <2>1. /\ buffer' = buffer /\ sizes' = sizes /\ engine' = engine /\ irq' = irq
        /\ pc = "sending" /\ pc' = "done"
    BY <1>2 DEF Send, AfterSend, dmaVars
  <2>2. engine = "idle" /\ ~irq /\ buffer \in DOMAIN sizes
    BY <2>1 DEF TurnInv, TypeInv, TypeOK
  <2>3. \A i \in DOMAIN sent :
          sent[i].data.packet \in 1..buffer /\ sent[i].data.packet < buffer
    BY <2>1 DEF SentInv, Busy
  <2>4. ASSUME NEW i \in DOMAIN sent'
        PROVE  \/ i \in DOMAIN sent /\ sent'[i] = sent[i]
               \/ i = Len(sent) + 1 /\ sent'[i].data = datagram
    <3>1. sent' \in Seq(Datagrams)
      BY TypeStep DEF TypeInv
    <3>2. /\ DOMAIN sent' = 1..Len(sent) + 1 /\ DOMAIN sent = 1..Len(sent)
          /\ Len(sent) \in Nat
      BY <1>1, <1>2, <3>1, SendAdds
    <3>3. CASE i \in 1..Len(sent)
      <4>1. sent'[i] = sent[i]
        BY <1>2, <3>3, SendAdds
      <4> QED
        BY <3>2, <3>3, <4>1
    <3>4. CASE i = Len(sent) + 1
      <4>1. sent'[i] = [to |-> remote, data |-> datagram]
        BY <1>2, <3>1, <3>2, <3>4, SendAdds
      <4> QED
        BY <3>4, <4>1
    <3> QED
      BY <2>4, <3>2, <3>3, <3>4
  <2>5. /\ datagram.packet = buffer /\ datagram.whole
        /\ datagram.bytes = sizes[buffer] % Wrap
    BY <2>1 DEF TurnInv
  <2>6. \A i \in DOMAIN sent' : sent'[i].data.packet \in 1..buffer
    <3>1. buffer \in 1..buffer
      BY <1>1, <2>2 DEF TurnInv
    <3> QED
      BY <2>3, <2>4, <2>5, <3>1
  <2>7. SentInv'
    BY <2>1, <2>2, <2>6 DEF SentInv, Busy
  <2>8. ASSUME NEW i \in DOMAIN sent'
        PROVE  /\ sent'[i].data.whole /\ sent'[i].data.packet \in DOMAIN sizes'
               /\ sent'[i].data.bytes = sizes'[sent'[i].data.packet] % Wrap
    BY <2>1, <2>2, <2>4, <2>5 DEF DatagramPerPacket
  <2>9. ASSUME NEW i \in DOMAIN sent', NEW j \in 1..i - 1
        PROVE  sent'[j].data.packet < sent'[i].data.packet
    <3>1. i \in 1..Len(sent) + 1
      BY <1>1, <2>4
    <3>2. j \in DOMAIN sent /\ sent'[j] = sent[j]
      BY <1>1, <1>2, <3>1, SendAdds
    <3>3. CASE i \in DOMAIN sent /\ sent'[i] = sent[i]
      BY <3>2, <3>3 DEF DatagramPerPacket
    <3>4. CASE sent'[i].data = datagram
      BY <2>3, <2>5, <3>2, <3>4
    <3> QED
      BY <2>4, <3>3, <3>4
  <2>10. DatagramPerPacket'
    BY <2>8, <2>9 DEF DatagramPerPacket
  <2> QED
    BY <2>7, <2>10
<1>3. ASSUME sent' = sent, ~Send PROVE SentInv'
  <2>1. CASE StartFilling
    <3>1. buffer' = buffer + 1
      BY <1>1, <2>1 DEF StartFilling
    <3> QED
      BY <1>1, <1>3, <3>1 DEF SentInv
  <2>2. CASE EndFilling
    BY <1>3, <2>2 DEF EndFilling, SentInv, Busy, isrVars
  <2>3. CASE Enter
    BY <1>3, <2>3 DEF Enter, SentInv, Busy
  <2>4. CASE ReadLength \/ Copy \/ SendFails
    BY <1>3, <2>4 DEF ReadLength, Copy, SendFails, SentInv, Busy, dmaVars
  <2>5. CASE AllocFails \/ Rearm \/ Leave
    BY <1>3, <2>5 DEF AllocFails, Rearm, Leave, SentInv, Busy, dmaVars
  <2>6. ASSUME UNCHANGED <<engine, buffer, irq, pc>> PROVE SentInv'
    BY <1>3, <2>6 DEF SentInv, Busy
  <2>7. CASE \E b \in Sizes : PacketCloses(b)
    BY <2>6, <2>7 DEF PacketCloses, dmaVars, isrVars
  <2>8. CASE MainLoop
    BY <2>6, <2>8 DEF MainLoop, AcceptCallback, UdpCallback, UdpEchoRecv, UdpEchoStore,
       UdpEchoDone, dmaVars, isrVars
  <2>9. CASE UNCHANGED vars
    BY <2>6, <2>9 DEF vars, dmaVars, isrVars
  <2> QED
    BY <1>3, <2>1, <2>2, <2>3, <2>4, <2>5, <2>7, <2>8, <2>9 DEF Next, Hardware, Handler
<1>4. ASSUME sent' = sent PROVE DatagramPerPacket'
  <2>1. \A k \in DOMAIN sizes : k \in DOMAIN sizes' /\ sizes'[k] = sizes[k]
    <3>1. CASE \E b \in Sizes : PacketCloses(b)
      <4>1. DOMAIN sizes = 1..Len(sizes)
        BY DEF TypeInv, TypeOK
      <4> QED
        BY <3>1, <4>1, ClosedSizes
    <3>2. CASE sizes' = sizes
      BY <3>2
    <3>3. ~(\E b \in Sizes : PacketCloses(b)) => sizes' = sizes
      BY DEF Next, Hardware, Handler, MainLoop, StartFilling, EndFilling, Enter, ReadLength,
             Copy, AllocFails, Send, SendFails, Rearm, Leave, AcceptCallback, UdpCallback,
             UdpEchoRecv, UdpEchoStore, UdpEchoDone, vars
    <3> QED
      BY <3>1, <3>2, <3>3
  <2> QED
    BY <1>4, <2>1 DEF DatagramPerPacket
<1>5. UNCHANGED vars => sent' = sent
  BY DEF vars
<1> QED
  BY <1>2, <1>3, <1>4, <1>5, OnlySendSends

(* A datagram carries one packet whole, with that packet's length modulo    *)
(* the u16, later than every packet sent before it, and no retry repeats    *)
(* one: whatever the engine, the network and the main loop do meanwhile     *)
(* (dmaControl.c:139-150, udp_server.c:22-34).                              *)
THEOREM DatagramPerPacketHolds == Spec => []DatagramPerPacket
<1>1. Init => TurnInv /\ SentInv /\ DatagramPerPacket
  BY DEF Init, TurnInv, SentInv, DatagramPerPacket
<1> QED
  BY <1>1, TypeInit, TypeStep, TurnStep, SentStep, PTL DEF Spec

-----------------------------------------------------------------------------
(* The pcb's address and port are those of the host that sent last, each    *)
(* once it has been stored.                                                 *)
RemoteInv ==
  /\ remote.ip = IF main = "echoed" THEN hostBefore ELSE host
  /\ remote.port = IF main = "loop" THEN host ELSE hostBefore

LEMMA RemoteStep == TypeInv /\ RemoteInv /\ [Next]_vars => RemoteInv'
<1> SUFFICES ASSUME TypeInv, RemoteInv, [Next]_vars PROVE RemoteInv'
  OBVIOUS
<1>1. remote \in [{"ip", "port"} -> Hosts \cup {NoHost}] /\ main \in {"loop", "echoed", "stored"}
  BY DEF TypeInv, TypeOK
<1>2. ASSUME NEW h \in Hosts, UdpEchoRecv(h) PROVE RemoteInv'
  BY <1>1, <1>2 DEF UdpEchoRecv, RemoteInv
<1>3. CASE UdpEchoStore \/ UdpEchoDone
  BY <1>1, <1>3 DEF UdpEchoStore, UdpEchoDone, StoreOrder, RemoteInv
<1>4. ASSUME UNCHANGED <<main, remote, host, hostBefore>> PROVE RemoteInv'
  BY <1>4 DEF RemoteInv
<1>5. CASE Hardware \/ Handler \/ AcceptCallback
  BY <1>4, <1>5 DEF Hardware, Handler, PacketCloses, StartFilling, EndFilling, Enter,
     ReadLength, Copy, AllocFails, Send, SendFails, Rearm, Leave, AcceptCallback, mainVars
<1>6. CASE UNCHANGED vars
  BY <1>4, <1>6 DEF vars, mainVars
<1> QED
  BY <1>2, <1>3, <1>5, <1>6 DEF Next, MainLoop, UdpCallback

(* A datagram goes to the host that sent last, one that interrupts          *)
(* udp_echo_recv to what has been stored of it by then (udp_server.c:42-46). *)
THEOREM GoesToLastHostHolds == Spec => GoesToLastHost
<1>1. Init => RemoteInv
  BY DEF Init, RemoteInv
<1>2. TypeInv /\ RemoteInv /\ [Next]_vars =>
        [sent' # sent =>
           LET d == sent'[Len(sent')].to
           IN /\ d.ip = IF main = "echoed" THEN hostBefore ELSE host
              /\ d.port = IF main = "loop" THEN host ELSE hostBefore]_vars
  BY OnlySendSends, SendAdds DEF RemoteInv
<1> QED
  BY <1>1, <1>2, TypeInit, TypeStep, RemoteStep, PTL DEF Spec, GoesToLastHost
=============================================================================
