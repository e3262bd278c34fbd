----------------------------- MODULE DmaReadout -----------------------------
(***************************************************************************)
(* From the DMA engine to the network: the receive interrupt handler        *)
(* (RxUDPIntrHandler in dmaControl.c, udp_packet_send in udp_server.c) on   *)
(* one buffer with the DMA engine, interrupting the main loop, whose UDP    *)
(* callback (udp_echo_recv) sets where the handler's datagrams go.          *)
(*                                                                          *)
(* One processor: while the handler runs the main loop does not, and the    *)
(* handler may start between any two of the main loop's stores.             *)
(*                                                                          *)
(* External: the stream FIFO's queue of closed packets; the DMA engine in   *)
(* simple mode, which fills the buffer with the next packet once its length *)
(* register is written, and halts without an interrupt on a packet longer   *)
(* than that (only the completion interrupt is enabled, dmaControl.c:16);   *)
(* lwIP, whose allocation and sending may fail.                             *)
(*                                                                          *)
(* A packet is its ordinal and its size.  Sizes are in units that keep      *)
(* 16-bit truncation and the DMA's limit as Wrap and MaxLength.             *)
(***************************************************************************)
EXTENDS Naturals, Sequences

CONSTANTS
  Sizes,         \* packet sizes
  Wrap,          \* what a u16 size wraps at
  MaxLength,     \* 0xFFFFF: the length the DMA is armed with
  MaxSendRetry,  \* MAX_SEND_RETRY
  Hosts, NoHost, \* senders of UDP packets to the carrier, and none yet
  MaxPackets     \* bound: packets in a behaviour

ASSUME SizesAssumption == Sizes \subseteq Nat
ASSUME LimitsAssumption == Wrap \in Nat \ {0} /\ MaxLength \in Nat
ASSUME MaxSendRetryAssumption == MaxSendRetry \in Nat \ {0}
ASSUME HostsAssumption == NoHost \notin Hosts
ASSUME MaxPacketsAssumption == MaxPackets \in Nat

VARIABLES
  sizes,                   \* history: the sizes of the packets closed so far
  engine, next, irq,       \* DMA: armed/filling/idle/halted, next packet, interrupt
  buffer, length,          \* packet in RX_DMA_BUFFER_BASE; the length register
  pc, recvPackets, dataLen, datagram, retries,   \* the handler
  treg,                    \* TREG_ADDR: packets counted
  tcpConnection,           \* tcp_connection # 0
  main, remote,            \* udp_echo_recv's progress, the pcb's remote_ip and remote_port
  host, hostBefore,        \* history: the host that sent last, and the one before
  sent                     \* history: datagrams handed to the network

dmaVars == <<engine, next, irq, buffer, length>>
isrVars == <<pc, recvPackets, dataLen, datagram, retries, treg>>
mainVars == <<tcpConnection, main, remote, host, hostBefore>>
vars == <<sizes, dmaVars, isrVars, mainVars, sent>>

Packet == 1..MaxPackets
NoDatagram == [packet |-> 0, bytes |-> 0, whole |-> FALSE]

-----------------------------------------------------------------------------
(* The hardware. *)
PacketCloses(b) ==
  /\ Len(sizes) < MaxPackets
  /\ sizes' = Append(sizes, b)
  /\ UNCHANGED <<dmaVars, isrVars, mainVars, sent>>

StartFilling ==
  /\ engine = "armed" /\ next <= Len(sizes)
  /\ engine' = "filling"
  /\ buffer' = next
  /\ next' = next + 1
  /\ UNCHANGED <<irq, length, sizes, isrVars, mainVars, sent>>

EndFilling ==
  /\ engine = "filling"
  /\ IF sizes[buffer] <= MaxLength
       THEN engine' = "idle" /\ irq' = TRUE /\ length' = sizes[buffer]
       ELSE engine' = "halted" /\ UNCHANGED <<irq, length>>
  /\ UNCHANGED <<next, buffer, sizes, isrVars, mainVars, sent>>

-----------------------------------------------------------------------------
(* RxUDPIntrHandler.  Its other returns are never taken: it is entered with *)
(* the completion bit set, and errors raise no interrupt.                   *)
Enter ==
  /\ pc = "off" /\ irq
  /\ irq' = FALSE
  /\ recvPackets' = recvPackets + 1
  /\ pc' = "acked"
  /\ UNCHANGED <<engine, next, buffer, length, dataLen, datagram, retries, treg,
                 sizes, mainVars, sent>>

\* Mutant: the DMA is armed again before the buffer has been copied.
ReadLength_Rearms ==
  /\ pc = "acked"
  /\ dataLen' = length
  /\ pc' = IF tcpConnection THEN "copy" ELSE "done"
  /\ engine' = "armed"
  /\ UNCHANGED <<next, irq, buffer, length, recvPackets, datagram, retries, treg,
                 sizes, mainVars, sent>>

ReadLength ==
  /\ pc = "acked"
  /\ dataLen' = length
  /\ pc' = IF tcpConnection THEN "copy" ELSE "done"
  /\ UNCHANGED <<dmaVars, recvPackets, datagram, retries, treg, sizes, mainVars, sent>>

(* udp_packet_send: the size is a u16. *)
SendSize == dataLen % Wrap

Copy ==
  /\ pc = "copy"
  /\ datagram' = [packet |-> buffer, bytes |-> SendSize, whole |-> engine # "filling"]
  /\ retries' = MaxSendRetry
  /\ pc' = "sending"
  /\ UNCHANGED <<dmaVars, recvPackets, dataLen, treg, sizes, mainVars, sent>>

AllocFails ==
  /\ pc = "copy"
  /\ pc' = "done"
  /\ UNCHANGED <<dmaVars, recvPackets, dataLen, datagram, retries, treg, sizes,
                 mainVars, sent>>

AfterSend == "done"

Send ==
  /\ pc = "sending"
  /\ sent' = Append(sent, [to |-> remote, data |-> datagram])
  /\ pc' = AfterSend
  /\ retries' = retries
  /\ UNCHANGED <<dmaVars, recvPackets, dataLen, datagram, treg, sizes, mainVars>>

GiveUp == retries = 1

SendFails ==
  /\ pc = "sending"
  /\ retries' = retries - 1
  /\ pc' = IF GiveUp THEN "done" ELSE "sending"
  /\ UNCHANGED <<dmaVars, recvPackets, dataLen, datagram, treg, sizes, mainVars, sent>>

(* The write to the length register arms the engine. *)
Rearm ==
  /\ pc = "done"
  /\ engine' = "armed"
  /\ pc' = "rearmed"
  /\ UNCHANGED <<next, irq, buffer, length, recvPackets, dataLen, datagram, retries,
                 treg, sizes, mainVars, sent>>

\* Mutant: what is pending is acknowledged once more on the way out.
Leave_Acks ==
  /\ pc = "rearmed"
  /\ treg' = recvPackets
  /\ pc' = "off"
  /\ irq' = FALSE
  /\ UNCHANGED <<engine, next, buffer, length, recvPackets, dataLen, datagram, retries,
                 sizes, mainVars, sent>>

Leave ==
  /\ pc = "rearmed"
  /\ treg' = recvPackets
  /\ pc' = "off"
  /\ UNCHANGED <<dmaVars, recvPackets, dataLen, datagram, retries, sizes, mainVars, sent>>

Handler ==
  \/ Enter \/ ReadLength \/ Copy \/ AllocFails \/ Send \/ SendFails \/ Rearm \/ Leave

-----------------------------------------------------------------------------
(* The main loop, at lwIP's callbacks. *)
AcceptCallback ==
  /\ pc = "off"
  /\ tcpConnection' = TRUE
  /\ UNCHANGED <<main, remote, host, hostBefore, sizes, dmaVars, isrVars, sent>>

\* Mutant: the port is stored first.
StoreOrder_PortFirst == <<"port", "ip">>

StoreOrder == <<"ip", "port">>

(* udp_echo_recv, for a packet of host h: it goes back to h, wherever the   *)
(* pcb points and whether lwIP can send it or not...                        *)
UdpEchoRecv(h) ==
  /\ pc = "off" /\ main = "loop"
  /\ hostBefore' = host /\ host' = h
  /\ main' = "echoed"
  /\ UNCHANGED <<tcpConnection, remote, sizes, dmaVars, isrVars, sent>>

(* ... then the first of two stores... *)
UdpEchoStore ==
  /\ pc = "off" /\ main = "echoed"
  /\ remote' = [remote EXCEPT ![StoreOrder[1]] = host]
  /\ main' = "stored"
  /\ UNCHANGED <<tcpConnection, host, hostBefore, sizes, dmaVars, isrVars, sent>>

(* ... and the second. *)
UdpEchoDone ==
  /\ pc = "off" /\ main = "stored"
  /\ remote' = [remote EXCEPT ![StoreOrder[2]] = host]
  /\ main' = "loop"
  /\ UNCHANGED <<tcpConnection, host, hostBefore, sizes, dmaVars, isrVars, sent>>

Init ==
  /\ sizes = <<>>
  /\ engine = "armed" /\ next = 1 /\ irq = FALSE
  /\ buffer = 0 /\ length = 0
  /\ pc = "off" /\ recvPackets = 0 /\ dataLen = 0
  /\ datagram = NoDatagram /\ retries = 0
  /\ treg = 0
  /\ tcpConnection = FALSE
  /\ main = "loop" /\ remote = [ip |-> NoHost, port |-> NoHost]
  /\ host = NoHost /\ hostBefore = NoHost
  /\ sent = <<>>

Hardware == (\E b \in Sizes : PacketCloses(b)) \/ StartFilling \/ EndFilling
UdpCallback == (\E h \in Hosts : UdpEchoRecv(h)) \/ UdpEchoStore \/ UdpEchoDone
MainLoop == AcceptCallback \/ UdpCallback

Next == Hardware \/ Handler \/ MainLoop
Spec == Init /\ [][Next]_vars

(* The engine fills, and a pending interrupt is taken and handled. *)
FairSpec == Spec /\ WF_vars(StartFilling) /\ WF_vars(EndFilling) /\ WF_vars(Handler)

-----------------------------------------------------------------------------
TypeOK ==
  /\ sizes \in Seq(Sizes)
  /\ engine \in {"armed", "filling", "idle", "halted"}
  /\ next \in Nat /\ buffer \in 0..MaxPackets
  /\ irq \in BOOLEAN
  /\ length \in Nat /\ dataLen \in Nat
  /\ pc \in {"off", "acked", "copy", "sending", "done", "rearmed"}
  /\ recvPackets \in Nat /\ treg \in Nat
  /\ datagram \in [packet: 0..MaxPackets, bytes: 0..Wrap - 1, whole: BOOLEAN]
  /\ retries \in 0..MaxSendRetry
  /\ tcpConnection \in BOOLEAN
  /\ main \in {"loop", "echoed", "stored"}
  /\ remote \in [{"ip", "port"} -> Hosts \cup {NoHost}]
  /\ {host, hostBefore} \subseteq Hosts \cup {NoHost}

(* With the engine running beside the handler on one buffer, a datagram     *)
(* carries one packet: never a buffer being filled again, nor one packet's  *)
(* bytes with another's length.  A packet below the u16 limit is all there. *)
(* Datagrams leave in the order of their packets, and a retry never sends   *)
(* what was sent before (dmaControl.c:139-150, udp_server.c:22-34).         *)
DatagramPerPacket ==
  \A i \in DOMAIN sent :
    LET d == sent[i].data
    IN /\ d.whole
       /\ d.packet \in DOMAIN sizes
       /\ d.bytes = sizes[d.packet] % Wrap
       /\ \A j \in 1..i - 1 : sent[j].data.packet < d.packet

(* A datagram goes to the host that sent last, or to the one before it      *)
(* while udp_echo_recv is at work; between its two stores, to the last      *)
(* host's address with the port of the one before, never the other way      *)
(* round (udp_server.c:42-46).                                              *)
GoesToLastHost ==
  [][sent' # sent =>
       LET d == sent'[Len(sent')].to
       IN /\ d.ip = IF main = "echoed" THEN hostBefore ELSE host
          /\ d.port = IF main = "loop" THEN host ELSE hostBefore]_vars

(* Every packet is counted in TREG in the end, whatever the network does,   *)
(* unless it or an earlier one, longer than the DMA's limit, has halted the *)
(* engine: no completion interrupt is lost to one that is being handled.    *)
EveryPacketCounted ==
  \A n \in Packet : Len(sizes) >= n ~> treg >= n \/ (engine = "halted" /\ buffer <= n)
=============================================================================
