------------------------ MODULE CommandServerProofs ------------------------
(***************************************************************************)
(* Proofs about the command server, for every set of commands, buffer and   *)
(* window, chain and timer, wherever TCP cuts the stream.  What the answers *)
(* hold is a sum over a sequence: where induction would be the argument,    *)
(* the proofs take the least index at which it fails.                       *)
(***************************************************************************)
EXTENDS CommandServer, WellFoundedInduction, SequenceTheorems, FiniteSetTheorems, TLAPS

(* A set of naturals that is not empty has a least element: what stands in  *)
(* for induction over the bytes of the stream and over the answers.         *)
LEMMA LeastExists ==
  ASSUME NEW S \in SUBSET Nat, S # {}
  PROVE  \E k \in S : \A j \in S : k <= j
<1> DEFINE R == {ss \in Nat \X Nat : ss[1] < ss[2]}
<1>1. IsWellFoundedOn(R, Nat)
  BY NatLessThanWellFounded DEF OpToRel
<1>2. PICK k \in S : \A j \in S : <<j, k>> \notin R
  <2> HIDE DEF R
  <2>1. QED
    BY <1>1, WFMin
<1>3. ASSUME NEW j \in S PROVE k <= j
  <2>1. <<j, k>> \notin R
    BY <1>2
  <2>2. <<j, k>> \in Nat \X Nat
    OBVIOUS
  <2>3. ~(j < k)
    BY <2>1, <2>2
  <2>4. QED
    BY <2>3
<1>4. QED
  BY <1>3

(* f sums up w, element by element. *)
Sums(f, w, n) ==
  /\ f \in [0..n -> Nat] /\ f[0] = 0
  /\ \A i \in 1..n : f[i] = f[i - 1] + w[i]

LEMMA SumsExist ==
  ASSUME NEW n \in Nat, NEW w \in [1..n -> Nat]
  PROVE  \E f : Sums(f, w, n)
<1> DEFINE Bad == {m \in 0..n : ~\E f : Sums(f, w, m)}
<1> SUFFICES ASSUME ~\E f : Sums(f, w, n) PROVE FALSE
  OBVIOUS
<1>1. Bad # {}
  <2>1. n \in 0..n
    OBVIOUS
  <2>2. QED
    BY <2>1
<1>2. PICK k \in Bad : \A j \in Bad : k <= j
  <2>1. Bad \in SUBSET Nat
    OBVIOUS
  <2> HIDE DEF Bad
  <2>2. QED
    BY <1>1, <2>1, LeastExists
<1>3. k # 0
  <2>1. Sums([i \in 0..0 |-> 0], w, 0)
    BY DEF Sums
  <2>2. QED
    BY <1>2, <2>1
<1>4. k \in 1..n /\ k - 1 \in 0..n /\ k - 1 \notin Bad
  BY <1>2, <1>3
<1>5. PICK g : Sums(g, w, k - 1)
  BY <1>4
<1> DEFINE h == [i \in 0..k |-> IF i < k THEN g[i] ELSE g[k - 1] + w[k]]
<1>6. Sums(h, w, k)
  <2>1. g \in [0..k - 1 -> Nat] /\ g[0] = 0 /\ \A i \in 1..k - 1 : g[i] = g[i - 1] + w[i]
    BY <1>5 DEF Sums
  <2>2. h \in [0..k -> Nat]
    BY <1>4, <2>1
  <2>3. h[0] = 0
    BY <1>4, <2>1
  <2>4. ASSUME NEW i \in 1..k PROVE h[i] = h[i - 1] + w[i]
    BY <1>4, <2>1
  <2> HIDE DEF h
  <2>5. QED
    BY <2>2, <2>3, <2>4 DEF Sums
<1>7. QED
  BY <1>2, <1>6

LEMMA SumsAgree ==
  ASSUME NEW n \in Nat, NEW v, NEW w, NEW f, NEW g, NEW m \in 0..n,
         Sums(f, v, n), Sums(g, w, m), \A i \in 1..m : v[i] = w[i]
  PROVE  \A i \in 0..m : f[i] = g[i]
<1> DEFINE Bad == {i \in 0..m : f[i] # g[i]}
<1>1. SUFFICES ASSUME Bad # {} PROVE FALSE
  OBVIOUS
<1>2. PICK k \in Bad : \A j \in Bad : k <= j
  <2>1. Bad \in SUBSET Nat
    OBVIOUS
  <2> HIDE DEF Bad
  <2>2. QED
    BY <1>1, <2>1, LeastExists
<1>3. k # 0
  BY <1>2 DEF Sums
<1>4. k \in 1..m /\ k \in 1..n /\ k - 1 \in 0..m /\ k - 1 \notin Bad
  BY <1>2, <1>3
<1>5. f[k] = f[k - 1] + v[k] /\ g[k] = g[k - 1] + w[k] /\ v[k] = w[k]
  BY <1>4 DEF Sums
<1>6. QED
  BY <1>2, <1>4, <1>5

LEMMA SumsGrow ==
  ASSUME NEW n \in Nat, NEW w \in [1..n -> Nat], NEW f, Sums(f, w, n)
  PROVE  \A i, j \in 0..n : i <= j => f[i] <= f[j]
<1> SUFFICES ASSUME NEW i \in 0..n, NEW e \in 0..n, i <= e, ~(f[i] <= f[e])
             PROVE  FALSE
  OBVIOUS
<1> DEFINE Bad == {j \in i..n : ~(f[i] <= f[j])}
<1>2. PICK k \in Bad : \A j \in Bad : k <= j
  <2>1. Bad \in SUBSET Nat /\ e \in Bad
    OBVIOUS
  <2> HIDE DEF Bad
  <2>2. QED
    BY <2>1, LeastExists
<1>3. f \in [0..n -> Nat]
  BY DEF Sums
<1>4. k # i
  BY <1>2, <1>3
<1>5. k \in 1..n /\ k - 1 \in i..n /\ k - 1 \notin Bad /\ w[k] \in Nat
  BY <1>2, <1>4
<1>6. f[k] = f[k - 1] + w[k] /\ f[k] \in Nat /\ f[k - 1] \in Nat /\ f[i] \in Nat
  BY <1>3, <1>5 DEF Sums
<1>7. f[i] <= f[k - 1]
  BY <1>5
<1>8. ~(f[i] <= f[k])
  BY <1>2
<1>9. QED
  BY <1>5, <1>6, <1>7, <1>8

-----------------------------------------------------------------------------
(* A byte of the stream belongs to a command, ends it or is followed by the *)
(* command's next byte, and the stream ends with a command.                 *)
MoreIn(b) == b.at + 1 < sent[b.cmd].bytes

InCommand(b) == b.cmd \in 1..Len(sent) /\ b.at < sent[b.cmd].bytes

StreamInv ==
  /\ \A i \in 1..Len(flight) : InCommand(flight[i])
  /\ \A i \in 1..Len(flight) - 1 :
       MoreIn(flight[i]) => flight[i + 1] = [cmd |-> flight[i].cmd, at |-> flight[i].at + 1]
  /\ Len(flight) > 0 => ~MoreIn(flight[Len(flight)])

LEMMA CommandType ==
  ASSUME NEW c \in Commands
  PROVE  /\ c.packet \in Packets /\ c.known \in BOOLEAN /\ c.bytes \in 4..12
         /\ c.packet # "other" => c.bytes % 4 = 0
BY CommandsAssumption

LEMMA SentType ==
  ASSUME TypeOK, NEW n \in 1..Len(sent)
  PROVE  sent[n] \in Commands
BY DEF TypeOK

LEMMA FunctionIsSeq ==
  ASSUME NEW S, NEW n \in Nat, NEW f \in [1..n -> S]
  PROVE  f \in Seq(S) /\ Len(f) = n
BY SeqDef

LEMMA BytesType ==
  ASSUME NEW n \in 1..MaxCommands, NEW c \in Commands
  PROVE  /\ Bytes(n, c) \in Seq(Byte) /\ Len(Bytes(n, c)) = c.bytes
         /\ \A i \in 1..c.bytes : Bytes(n, c)[i] = [cmd |-> n, at |-> i - 1]
<1>1. c.bytes \in 4..12
  BY CommandType
<1>2. \A i \in 1..c.bytes : i - 1 \in 0..11
  BY <1>1
<1>3. Bytes(n, c) \in [1..c.bytes -> Byte]
  BY <1>2 DEF Bytes, Byte
<1>4. Bytes(n, c) \in Seq(Byte) /\ Len(Bytes(n, c)) = c.bytes
  <2>1. c.bytes \in Nat
    BY <1>1
  <2>2. QED
    BY <1>3, <2>1, FunctionIsSeq
<1>5. \A i \in 1..c.bytes : Bytes(n, c)[i] = [cmd |-> n, at |-> i - 1]
  BY DEF Bytes
<1>6. QED
  BY <1>4, <1>5

(* A command that begins the stream goes on until it ends. *)
LEMMA CommandBytes ==
  ASSUME TypeOK, StreamInv, NEW k \in 1..Len(flight), flight[1].at = 0
  PROVE  /\ flight[1].cmd \in 1..Len(sent)
         /\ \A i \in 1..k : i <= sent[flight[1].cmd].bytes =>
              flight[i] = [cmd |-> flight[1].cmd, at |-> i - 1]
<1> DEFINE n == flight[1].cmd
           Bad == {i \in 1..k : i <= sent[n].bytes /\ flight[i] # [cmd |-> n, at |-> i - 1]}
<1>1. flight \in Seq(Byte) /\ Len(flight) \in Nat /\ flight[1] \in Byte
  BY DEF TypeOK
<1>2. n \in 1..Len(sent)
  BY DEF StreamInv, InCommand
<1>3. sent[n].bytes \in 4..12
  BY <1>2, SentType, CommandType
<1>4. Bad = {}
  <2>1. SUFFICES ASSUME Bad # {} PROVE FALSE
    OBVIOUS
  <2>2. PICK m \in Bad : \A j \in Bad : m <= j
    <3>1. Bad \in SUBSET Nat
      OBVIOUS
    <3> HIDE DEF Bad
    <3>2. QED
      BY <2>1, <3>1, LeastExists
  <2>3. m # 1
    <3>1. flight[1] = [cmd |-> n, at |-> 0]
      BY <1>1 DEF Byte
    <3>2. QED
      BY <2>2, <3>1
  <2>4. m \in 2..k /\ m <= sent[n].bytes /\ m - 1 \notin Bad
    BY <1>1, <1>3, <2>2, <2>3
  <2> HIDE DEF n, Bad
  <2>5. /\ m - 1 \in 1..k /\ m - 1 \in 1..Len(flight) - 1 /\ m - 1 <= sent[n].bytes
        /\ (m - 1) + 1 = m /\ (m - 1) - 1 = m - 2 /\ (m - 2) + 1 = m - 1 /\ m - 1 < sent[n].bytes
    <3>1. k \in 1..Len(flight) /\ Len(flight) \in Nat
      BY <1>1
    <3>2. m \in 2..k /\ m <= sent[n].bytes /\ sent[n].bytes \in 4..12
      BY <1>3, <2>4 DEF n
    <3>3. QED
      BY <3>1, <3>2, SMTT(30)
  <2>6. flight[m - 1] = [cmd |-> n, at |-> m - 2]
    BY <2>4, <2>5 DEF Bad
  <2>7. MoreIn(flight[m - 1])
    BY <2>5, <2>6 DEF MoreIn
  <2>8. flight[m] = [cmd |-> n, at |-> m - 1]
    BY <2>4, <2>5, <2>6, <2>7 DEF StreamInv
  <2>9. QED
    BY <2>2, <2>8 DEF Bad
<1>5. QED
  BY <1>2, <1>4

-----------------------------------------------------------------------------
(* What the receive buffer holds after the copy. *)
LEMMA PayloadType ==
  ASSUME TypeOK, NEW k \in 1..Len(flight), NEW i \in 0..2
  PROVE  /\ Payload(SubSeq(flight, 1, k), i) \in Word
         /\ k < 4 * i + 4 => Payload(SubSeq(flight, 1, k), i) = Junk
         /\ k >= 4 * i + 4 /\ Payload(SubSeq(flight, 1, k), i) # Torn =>
              /\ flight[4 * i + 1].at % 4 = 0
              /\ Payload(SubSeq(flight, 1, k), i)
                   = [cmd |-> flight[4 * i + 1].cmd, at |-> flight[4 * i + 1].at \div 4]
<1> DEFINE first == SubSeq(flight, 1, k)
<1>1. flight \in Seq(Byte) /\ Len(flight) \in Nat
  BY DEF TypeOK
<1>2. Len(first) = k /\ \A a \in 1..k : first[a] = flight[a] /\ flight[a] \in Byte
  BY <1>1
<1> HIDE DEF first
<1>3. Junk \in Word /\ Torn \in Word
  BY BoundsAssumption DEF Junk, Torn, Word
<1>4. CASE k < 4 * i + 4
  BY <1>2, <1>3, <1>4 DEF Payload, first
<1>5. CASE ~(k < 4 * i + 4)
  <2> DEFINE b == flight[4 * i + 1]
  <2>1. 4 * i + 1 \in 1..k /\ 4 * i + 4 \in 1..k
    BY <1>5
  <2>2. b \in Byte /\ first[4 * i + 1] = b
    BY <1>2, <2>1
  <2>3. Payload(first, i) = IF b.at % 4 = 0 /\ first[4 * i + 4].cmd = b.cmd
                              THEN [cmd |-> b.cmd, at |-> b.at \div 4] ELSE Torn
    BY <1>2, <1>5, <2>2 DEF Payload
  <2>4. [cmd |-> b.cmd, at |-> b.at \div 4] \in Word
    <3>1. b.cmd \in 0..MaxCommands /\ b.at \in 0..11
      BY <2>2, BoundsAssumption DEF Byte
    <3>2. b.at \div 4 \in 0..2
      BY <3>1, SMTT(30)
    <3>3. QED
      BY <3>1, <3>2 DEF Word
  <2> HIDE DEF b
  <2>5. QED
    BY <1>3, <1>5, <2>3, <2>4 DEF first, b
<1>6. QED
  BY <1>4, <1>5

(* A word whose first and last bytes are one command's word is that word. *)
LEMMA PayloadOwn ==
  ASSUME TypeOK, NEW k \in 1..Len(flight), NEW i \in 0..2, k >= 4 * i + 4, NEW n,
         flight[4 * i + 1] = [cmd |-> n, at |-> 4 * i],
         flight[4 * i + 4] = [cmd |-> n, at |-> 4 * i + 3]
  PROVE  Payload(SubSeq(flight, 1, k), i) = [cmd |-> n, at |-> i]
<1> DEFINE first == SubSeq(flight, 1, k)
<1>1. flight \in Seq(Byte) /\ Len(flight) \in Nat
  BY DEF TypeOK
<1>2. Len(first) = k /\ \A a \in 1..k : first[a] = flight[a]
  BY <1>1
<1> HIDE DEF first
<1>3. 4 * i + 1 \in 1..k /\ 4 * i + 4 \in 1..k /\ ~(k < 4 * i + 4)
  OBVIOUS
<1>4. first[4 * i + 1] = [cmd |-> n, at |-> 4 * i] /\ first[4 * i + 4].cmd = n
  BY <1>2, <1>3
<1>5. (4 * i) % 4 = 0 /\ (4 * i) \div 4 = i
  OBVIOUS
<1>6. QED
  BY <1>2, <1>3, <1>4, <1>5 DEF Payload, first

LEMMA SizeType ==
  ASSUME NEW k \in Nat \ {0}
  PROVE  /\ RecvSize(k) \in Nat /\ RecvSize(k) % 4 = 0
         /\ RecvSize(k) >= k /\ RecvSize(k) < k + 4 /\ RecvSize(k) >= 4
         /\ k % 4 = 0 => RecvSize(k) = k
BY DEF RecvSize

LEMMA ReceivedType ==
  ASSUME TypeOK, NEW k \in 1..Len(flight), NEW size
  PROVE  Received(SubSeq(flight, 1, k), size) \in [0..2 -> Word]
<1>1. rx \in [0..2 -> Word]
  BY DEF TypeOK
<1>2. \A i \in 0..2 : Payload(SubSeq(flight, 1, k), i) \in Word
  BY PayloadType
<1>3. QED
  BY <1>1, <1>2 DEF Received

(* A buffer that begins with a packet code holds the command's words as far *)
(* as the segment reaches, and past it what memcpy finds there.             *)
LEMMA ReceivedCommand ==
  ASSUME TypeOK, StreamInv, NEW k \in 1..Len(flight), NEW buf, NEW luck,
         buf = Received(SubSeq(flight, 1, k), RecvSize(k)),
         k >= 4, PacketOf(buf[0], luck) # "other"
  PROVE  /\ IsHead(buf[0]) /\ buf[0].cmd \in 1..Len(sent)
         /\ flight[1].at = 0 /\ flight[1].cmd = buf[0].cmd
         /\ PacketOf(buf[0], luck) = sent[buf[0].cmd].packet
         /\ HasSelector(sent[buf[0].cmd]) =>
              /\ k >= 8 => buf[1] = [cmd |-> buf[0].cmd, at |-> 1]
              /\ k \in 5..7 => buf[1] = Junk
         /\ sent[buf[0].cmd].bytes = 12 =>
              /\ k >= 12 => buf[2] = [cmd |-> buf[0].cmd, at |-> 2]
              /\ k \in 9..11 => buf[2] = Junk
<1> DEFINE pay(i) == Payload(SubSeq(flight, 1, k), i)
           size == RecvSize(k)
           n == flight[1].cmd
<1>1. k \in Nat \ {0} /\ flight \in Seq(Byte) /\ flight[1] \in Byte
  BY DEF TypeOK
<1>2. /\ size \in Nat /\ size >= 4 /\ (k > 4 => size >= 8) /\ (k > 8 => size >= 12)
  BY <1>1 DEF RecvSize
<1> HIDE DEF size
<1>3. /\ buf[0] = pay(0)
      /\ k > 4 => buf[1] = pay(1)
      /\ k > 8 => buf[2] = pay(2)
  <2>1. \A i \in 0..2 : 4 * i < size => buf[i] = pay(i)
    BY DEF Received, size
  <2>2. QED
    BY <1>2, <2>1
<1>4. \/ pay(0) = Torn
      \/ flight[1].at % 4 = 0 /\ pay(0) = [cmd |-> n, at |-> flight[1].at \div 4]
  <2>1. 4 * 0 + 4 = 4 /\ 4 * 0 + 1 = 1
    OBVIOUS
  <2>2. QED
    BY <2>1, PayloadType
<1> HIDE DEF pay
<1>5. n \in Nat \ {0} /\ flight[1].at \in 0..11
  BY <1>1, BoundsAssumption DEF Byte
<1>6. pay(0) # Torn /\ pay(0) # Junk
  <2>1. buf[0] # Torn
    BY DEF PacketOf, Torn, Junk, IsHead
  <2>2. QED
    BY <1>3, <1>4, <1>5, <2>1 DEF Junk, Torn
<1>7. IsHead(buf[0]) /\ PacketOf(buf[0], luck) = sent[buf[0].cmd].packet
  BY <1>3, <1>6 DEF PacketOf
<1>8. flight[1].at = 0 /\ buf[0].cmd = n
  BY <1>3, <1>4, <1>5, <1>6, <1>7 DEF IsHead
<1>9. /\ n \in 1..Len(sent)
      /\ \A i \in 1..k : i <= sent[n].bytes => flight[i] = [cmd |-> n, at |-> i - 1]
  BY <1>8, CommandBytes
<1>10. sent[n].bytes \in 4..12
  BY <1>9, SentType, CommandType
<1>11. ASSUME NEW i \in 0..2, k >= 4 * i + 4, sent[n].bytes >= 4 * i + 4
       PROVE  pay(i) = [cmd |-> n, at |-> i]
  <2>1. 4 * i + 1 \in 1..k /\ 4 * i + 4 \in 1..k /\ 4 * i + 1 <= sent[n].bytes
        /\ (4 * i + 1) - 1 = 4 * i /\ (4 * i + 4) - 1 = 4 * i + 3
    BY <1>10, <1>11
  <2>2. flight[4 * i + 1] = [cmd |-> n, at |-> 4 * i]
        /\ flight[4 * i + 4] = [cmd |-> n, at |-> 4 * i + 3]
    BY <1>9, <1>11, <2>1
  <2>3. QED
    BY <1>11, <2>2, PayloadOwn DEF pay
<1>12. ASSUME NEW i \in 0..2, k < 4 * i + 4 PROVE pay(i) = Junk
  BY <1>12, PayloadType DEF pay
<1>13. ASSUME HasSelector(sent[n])
       PROVE  /\ k >= 8 => buf[1] = [cmd |-> n, at |-> 1]
              /\ k \in 5..7 => buf[1] = Junk
  BY <1>3, <1>10, <1>11, <1>12, <1>13 DEF HasSelector
<1>14. ASSUME sent[n].bytes = 12
       PROVE  /\ k >= 12 => buf[2] = [cmd |-> n, at |-> 2]
              /\ k \in 9..11 => buf[2] = Junk
  BY <1>3, <1>11, <1>12, <1>14
<1>15. QED
  BY <1>7, <1>8, <1>9, <1>13, <1>14

-----------------------------------------------------------------------------
(* The steps that leave the stream alone. *)
LEMMA StreamStep ==
  TypeOK /\ StreamInv /\ [Next]_vars => StreamInv'
<1> SUFFICES ASSUME TypeOK, StreamInv, [Next]_vars PROVE StreamInv'
  OBVIOUS
<1>1. flight \in Seq(Byte) /\ sent \in Seq(Commands)
  BY DEF TypeOK
<1>2. ASSUME NEW k \in 1..Len(flight), NEW j \in 1..k, Receive(k, j) PROVE StreamInv'
  <2>1. sent' = sent /\ flight' = SubSeq(flight, k + 1, Len(flight))
    BY <1>2 DEF Receive
  <2>2. Len(flight') = Len(flight) - k /\ \A i \in 1..Len(flight) - k : flight'[i] = flight[i + k]
    BY <1>1, <2>1
  <2>3. \A i \in 1..Len(flight') : InCommand(flight'[i])
    BY <1>1, <2>2 DEF StreamInv
  <2>4. ASSUME NEW i \in 1..Len(flight') - 1, MoreIn(flight'[i])
        PROVE  flight'[i + 1] = [cmd |-> flight'[i].cmd, at |-> flight'[i].at + 1]
    <3>0. i \in 1..Len(flight) - k /\ i + 1 \in 1..Len(flight) - k /\ (i + 1) + k = (i + k) + 1
          /\ i + k \in 1..Len(flight) - 1
      BY <1>1, <2>2
    <3>1. flight'[i] = flight[i + k] /\ flight'[i + 1] = flight[(i + 1) + k]
      BY <2>2, <3>0
    <3>2. flight'[i + 1] = flight[(i + k) + 1]
      BY <3>0, <3>1
    <3>3. QED
      BY <2>4, <3>0, <3>1, <3>2 DEF StreamInv
  <2>5. Len(flight') > 0 => ~MoreIn(flight'[Len(flight')])
    <3>1. SUFFICES ASSUME Len(flight') > 0 PROVE ~MoreIn(flight'[Len(flight')])
      OBVIOUS
    <3>2. Len(flight) > 0 /\ Len(flight) - k \in 1..Len(flight) - k
          /\ Len(flight) - k + k = Len(flight)
      BY <1>1, <2>2, <3>1
    <3>3. flight'[Len(flight')] = flight[Len(flight)]
      BY <2>2, <3>2
    <3>4. QED
      BY <3>2, <3>3 DEF StreamInv
  <2>6. QED
    BY <2>1, <2>3, <2>4, <2>5 DEF StreamInv, InCommand, MoreIn
<1>3. ASSUME NEW c \in Commands, Send(c) PROVE StreamInv'
  <2> DEFINE n == Len(sent) + 1
             bytes == Bytes(n, c)
             l == Len(flight)
  <2>1. sent' = Append(sent, c) /\ flight' = flight \o bytes /\ n \in 1..MaxCommands
    BY <1>1, <1>3, BoundsAssumption DEF Send
  <2>2. c.bytes \in 4..12
    BY CommandType
  <2>3. /\ bytes \in Seq(Byte) /\ Len(bytes) = c.bytes
        /\ \A i \in 1..c.bytes : bytes[i] = [cmd |-> n, at |-> i - 1]
    BY <2>1, BytesType
  <2>4. sent'[n] = c /\ Len(sent') = n /\ n \in Nat /\ \A m \in 1..Len(sent) : sent'[m] = sent[m]
    BY <1>1, <2>1
  <2> HIDE DEF bytes
  <2>5. /\ Len(flight') = l + c.bytes /\ l \in Nat
        /\ \A i \in 1..l : flight'[i] = flight[i]
        /\ \A i \in 1..c.bytes : flight'[l + i] = [cmd |-> n, at |-> i - 1]
    <3>1. l \in Nat
      BY <1>1
    <3>2. /\ Len(flight') = l + Len(bytes)
          /\ \A i \in 1..l + Len(bytes) :
               flight'[i] = IF i <= l THEN flight[i] ELSE bytes[i - l]
      BY <1>1, <2>1, <2>3, ConcatProperties
    <3>3. ASSUME NEW i \in 1..l PROVE flight'[i] = flight[i]
      <4>1. i \in 1..l + Len(bytes) /\ i <= l
        BY <2>2, <2>3, <3>1
      <4>2. QED
        BY <3>2, <4>1
    <3>4. ASSUME NEW i \in 1..c.bytes PROVE flight'[l + i] = bytes[i]
      <4>1. l + i \in 1..l + Len(bytes) /\ ~(l + i <= l) /\ (l + i) - l = i
        BY <2>2, <2>3, <3>1
      <4>2. QED
        BY <3>2, <4>1
    <3>5. QED
      BY <2>3, <3>1, <3>2, <3>3, <3>4
  <2> HIDE DEF l
  <2>6. \A i \in 1..l :
          flight[i].cmd \in 1..Len(sent') /\ sent'[flight[i].cmd] = sent[flight[i].cmd]
    <3>1. \A i \in 1..l : flight[i].cmd \in 1..Len(sent)
      BY DEF StreamInv, InCommand, l
    <3>2. QED
      BY <1>1, <2>4, <3>1
  <2>7. ASSUME NEW i \in 1..Len(flight')
        PROVE  \/ i \in 1..l /\ flight'[i] = flight[i]
               \/ /\ i - l \in 1..c.bytes /\ i - l - 1 < c.bytes
                  /\ flight'[i] = [cmd |-> n, at |-> i - l - 1]
    <3>1. CASE i \in 1..l
      BY <2>5, <3>1
    <3>2. CASE i \notin 1..l
      <4>1. l \in Nat /\ c.bytes \in Nat /\ i \in 1..l + c.bytes
        BY <2>2, <2>5
      <4>2. i - l \in 1..c.bytes /\ l + (i - l) = i /\ i - l - 1 < c.bytes
        BY <3>2, <4>1
      <4>3. flight'[l + (i - l)] = [cmd |-> n, at |-> i - l - 1]
        BY <2>5, <4>2
      <4>4. QED
        BY <4>2, <4>3
    <3>3. QED
      BY <3>1, <3>2
  <2> HIDE DEF n
  <2>8. ASSUME NEW i \in 1..Len(flight')
        PROVE  flight'[i].cmd \in 1..Len(sent') /\ flight'[i].at < sent'[flight'[i].cmd].bytes
    <3>1. CASE i \in 1..l /\ flight'[i] = flight[i]
      BY <2>6, <3>1 DEF StreamInv, InCommand, l
    <3>2. CASE i - l - 1 < c.bytes /\ flight'[i] = [cmd |-> n, at |-> i - l - 1]
      <4>1. flight'[i].cmd = n /\ flight'[i].at = i - l - 1 /\ n \in 1..n
        BY <2>1, <3>2
      <4>2. QED
        BY <2>4, <3>2, <4>1
    <3>3. QED
      BY <2>7, <3>1, <3>2
  <2>9. ASSUME NEW i \in 1..Len(flight') - 1,
               flight'[i].at + 1 < sent'[flight'[i].cmd].bytes
        PROVE  flight'[i + 1] = [cmd |-> flight'[i].cmd, at |-> flight'[i].at + 1]
    <3>0. i \in 1..Len(flight') /\ i \in Nat /\ l \in Nat
      BY <2>2, <2>5
    <3>1. CASE i \in 1..l /\ flight'[i] = flight[i]
      <4>1. MoreIn(flight[i])
        BY <2>6, <2>9, <3>1 DEF MoreIn
      <4>2. i \in 1..l - 1 /\ i + 1 \in 1..l
        BY <2>5, <3>1, <4>1 DEF StreamInv, l
      <4>3. QED
        BY <2>5, <3>1, <4>1, <4>2 DEF StreamInv, l
    <3>2. CASE i - l \in 1..c.bytes /\ flight'[i] = [cmd |-> n, at |-> i - l - 1]
      <4>1. flight'[i].cmd = n /\ flight'[i].at = i - l - 1
        BY <3>2
      <4>2. (i - l - 1) + 1 < c.bytes
        BY <2>4, <2>9, <4>1
      <4>3. i - l + 1 \in 1..c.bytes /\ l + (i - l + 1) = i + 1 /\ (i - l + 1) - 1 = (i - l - 1) + 1
        <5>1. l \in Nat /\ c.bytes \in Nat /\ i \in Nat /\ 1 =< i - l
          BY <2>2, <3>0, <3>2
        <5>2. QED
          BY <4>2, <5>1
      <4>4. flight'[i + 1] = [cmd |-> n, at |-> (i - l + 1) - 1]
        BY <2>5, <4>3
      <4>5. QED
        BY <4>1, <4>3, <4>4
    <3>3. QED
      BY <2>7, <3>0, <3>1, <3>2
  <2>10. Len(flight') > 0 /\ ~(flight'[Len(flight')].at + 1 < sent'[flight'[Len(flight')].cmd].bytes)
    <3>1. c.bytes \in 1..c.bytes /\ (c.bytes - 1) + 1 = c.bytes /\ Len(flight') > 0
      <4>1. l \in Nat /\ Len(flight') = l + c.bytes
        BY <2>5
      <4>2. QED
        BY <2>2, <4>1
    <3>2. flight'[Len(flight')] = [cmd |-> n, at |-> c.bytes - 1]
      <4>1. flight'[l + c.bytes] = [cmd |-> n, at |-> c.bytes - 1]
        BY <2>5, <3>1
      <4>2. QED
        BY <2>5, <4>1
    <3>3. flight'[Len(flight')].cmd = n /\ flight'[Len(flight')].at + 1 = c.bytes
      BY <3>1, <3>2
    <3>4. QED
      BY <2>2, <2>4, <3>1, <3>3
  <2>11. QED
    BY <2>8, <2>9, <2>10 DEF StreamInv, InCommand, MoreIn
<1>4. CASE UNCHANGED <<sent, flight>>
  BY <1>4 DEF StreamInv, InCommand, MoreIn
<1>5. QED
  BY <1>2, <1>3, <1>4 DEF Next, ReceiveSome, ReceiveClose, Accept, MainLoop, SpinEnds, CallFast,
     ClearFast, CallSlow, ClearSlow, NoFrame, Nothing, TimerCallback, Handler, Acknowledge,
     vars, netVars

-----------------------------------------------------------------------------
(* The send buffer lacks what the answers not yet acknowledged hold.        *)
AnswerBytes == [i \in 1..Len(answers) |-> answers[i].bytes]

FreeInv ==
  \E f : /\ Sums(f, AnswerBytes, Len(answers))
         /\ free = SndBuf - (f[Len(answers)] - f[acked])

LEMMA AnswerBytesType ==
  ASSUME TypeOK
  PROVE  AnswerBytes \in [1..Len(answers) -> Nat] /\ Len(answers) \in Nat
<1>1. answers \in Seq(Answer)
  BY DEF TypeOK
<1>2. \A i \in 1..Len(answers) : answers[i] \in Answer
  BY <1>1
<1>3. QED
  BY <1>1, <1>2 DEF AnswerBytes, Answer

LEMMA WriteStep ==
  ASSUME TypeOK, FreeInv, NEW answer \in Answer, TcpWrite(answer), acked' = acked
  PROVE  /\ answers' \in Seq(Answer) /\ Len(answers') >= Len(answers)
         /\ free' \in 0..SndBuf /\ refused' \subseteq {"room", "memory"}
         /\ acked' \in 0..Len(answers')
         /\ FreeInv'
<1> DEFINE n == Len(answers)
<1>1. /\ answers \in Seq(Answer) /\ n \in Nat /\ acked \in 0..n
      /\ free \in 0..SndBuf /\ SndBuf \in Nat /\ refused \subseteq {"room", "memory"} /\ answer.bytes \in Nat
  BY BuffersAssumption DEF TypeOK, Answer
<1>2. CASE answer.bytes <= free /\ answers' = Append(answers, answer)
           /\ free' = free - answer.bytes /\ refused' = refused
  <2>1. /\ answers' \in Seq(Answer) /\ Len(answers') = n + 1
        /\ \A i \in 1..n : answers'[i] = answers[i]
        /\ answers'[n + 1] = answer
    BY <1>1, <1>2
  <2>2. free' \in 0..SndBuf
    BY <1>1, <1>2
  <2>3. PICK f : Sums(f, AnswerBytes, n) /\ free = SndBuf - (f[n] - f[acked])
    BY DEF FreeInv
  <2>4. AnswerBytes' \in [1..n + 1 -> Nat]
    <3>0. \A i \in 1..n + 1 : answers'[i] \in Answer
      BY <1>1, <2>1
    <3>1. \A i \in 1..n + 1 : answers'[i].bytes \in Nat
      BY <3>0 DEF Answer
    <3>2. QED
      BY <2>1, <3>1 DEF AnswerBytes
  <2>5. PICK g : Sums(g, AnswerBytes', n + 1)
    BY <1>1, <2>4, SumsExist
  <2>6. \A i \in 0..n : g[i] = f[i]
    <3>1. \A i \in 1..n : AnswerBytes'[i] = AnswerBytes[i]
      BY <1>1, <2>1 DEF AnswerBytes
    <3>2. n \in 0..n + 1 /\ n + 1 \in Nat
      BY <1>1
    <3> HIDE DEF n
    <3>3. QED
      BY <2>3, <2>5, <3>1, <3>2, SumsAgree
  <2>7. g[n + 1] = g[n] + answer.bytes
    <3>1. AnswerBytes'[n + 1] = answer.bytes
      BY <1>1, <2>1 DEF AnswerBytes
    <3>2. QED
      BY <1>1, <2>5, <3>1 DEF Sums
  <2>8. f[n] \in Nat /\ f[acked] \in Nat
    BY <1>1, <2>3 DEF Sums
  <2>9. free' = SndBuf - (g[n + 1] - g[acked])
    <3>1. g[n] = f[n] /\ g[acked] = f[acked]
      BY <1>1, <2>6
    <3>2. free = SndBuf - (f[n] - f[acked]) /\ free' = free - answer.bytes
      BY <1>2, <2>3
    <3>3. SndBuf \in Nat /\ answer.bytes \in Nat
      BY <1>1
    <3>4. QED
      BY <2>7, <2>8, <3>1, <3>2, <3>3
  <2>10. Sums(g, AnswerBytes, n)' <=> Sums(g, AnswerBytes', Len(answers'))
    BY <2>1, <2>5 DEF Sums
  <2>11. FreeInv'
    BY <1>2, <2>1, <2>5, <2>9 DEF FreeInv
  <2>12. QED
    BY <1>1, <1>2, <2>1, <2>2, <2>11
<1>3. CASE /\ refused' = refused \cup {IF answer.bytes <= free THEN "memory" ELSE "room"}
           /\ UNCHANGED <<answers, free>>
  <2>1. FreeInv'
    BY <1>3 DEF FreeInv, AnswerBytes, Sums
  <2>2. QED
    BY <1>1, <1>3, <2>1
<1>4. QED
  BY <1>2, <1>3 DEF TcpWrite

(* The first word of the buffer is never left over. *)
LEMMA PacketType ==
  ASSUME TypeOK, StreamInv, NEW k \in 1..Len(flight), NEW j \in 1..k, NEW buf, NEW luck \in Luck,
         buf = Received(SubSeq(flight, 1, j), RecvSize(k))
  PROVE  /\ buf[0].cmd = 0 \/ buf[0].cmd \in 1..Len(sent)
         /\ PacketOf(buf[0], luck) \in Packets
<1>1. k \in Nat \ {0} /\ j \in Nat /\ j \in 1..Len(flight)
  BY DEF TypeOK
<1>2. buf[0] = Payload(SubSeq(flight, 1, j), 0)
  BY <1>1, SizeType DEF Received
<1>3. \/ buf[0] \in {Junk, Torn}
      \/ buf[0] = [cmd |-> flight[1].cmd, at |-> flight[1].at \div 4]
  <2>1. 4 * 0 + 1 = 1
    OBVIOUS
  <2>2. j < 4 * 0 + 4 \/ j >= 4 * 0 + 4
    BY <1>1
  <2>3. QED
    BY <1>1, <1>2, <2>1, <2>2, PayloadType
<1>4. flight[1].cmd \in 1..Len(sent)
  BY <1>1 DEF StreamInv, InCommand
<1>5. buf[0].cmd = 0 \/ buf[0].cmd \in 1..Len(sent)
  BY <1>3, <1>4 DEF Junk, Torn
<1>6. CASE IsHead(buf[0])
  <2>1. sent[buf[0].cmd].packet \in Packets
    BY <1>5, <1>6, SentType, CommandType DEF IsHead
  <2>2. QED
    BY <1>5, <1>6, <2>1 DEF PacketOf, Luck
<1>7. CASE ~IsHead(buf[0])
  BY <1>5, <1>7 DEF PacketOf, Luck, Packets
<1>8. QED
  BY <1>5, <1>6, <1>7

LEMMA ReplyType ==
  ASSUME NEW buf \in [0..2 -> Word], NEW size \in Nat, NEW luck \in Luck, NEW whole \in BOOLEAN,
         PacketOf(buf[0], luck) \in Packets
  PROVE  /\ Reply(buf, size, luck) \in Answer
         /\ Effect(buf, luck, whole) \in EffectType
<1>1. buf[0] \in Word /\ buf[1] \in Word /\ buf[2] \in Word
  OBVIOUS
<1>2. Effect(buf, luck, whole) \in EffectType
  BY <1>1 DEF Effect, EffectType
<1>3. buf[0].cmd \in 0..MaxCommands
  BY <1>1 DEF Word
<1>4. QED
  BY <1>2, <1>3 DEF Reply, Answer

(* What HandleCmdRequest leaves behind has its type. *)
LEMMA ActType ==
  ASSUME TypeOK, FreeInv, NEW buf \in [0..2 -> Word], NEW size \in Nat, NEW luck \in Luck,
         NEW whole \in BOOLEAN, PacketOf(buf[0], luck) \in Packets,
         Act(buf, size, luck, whole), acked' = acked
  PROVE  /\ effects' \in Seq(EffectType)
         /\ answers' \in Seq(Answer) /\ pending' \in Answer
         /\ free' \in 0..SndBuf /\ refused' \subseteq {"room", "memory"} /\ acked' \in 0..Len(answers')
         /\ bus' \in {"idle", "busy"} /\ sendComplete' \in BOOLEAN /\ errors' \in BOOLEAN
         /\ pc' \in {"fast", "spin"}
         /\ FreeInv'
<1> DEFINE reply == Reply(buf, size, luck)
<1>1. reply \in Answer /\ Effect(buf, luck, whole) \in EffectType
  BY ReplyType
<1>2. effects' \in Seq(EffectType)
  <2>1. effects' = effects \/ effects' = Append(effects, Effect(buf, luck, whole))
    BY DEF Act
  <2>2. effects \in Seq(EffectType)
    BY DEF TypeOK
  <2>3. CASE effects' = Append(effects, Effect(buf, luck, whole))
    BY <1>1, <2>2, <2>3, AppendProperties
  <2>4. QED
    BY <2>1, <2>2, <2>3
<1> HIDE DEF reply
<1>3. CASE StartSend /\ pending' = reply /\ pc' = "spin" /\ UNCHANGED <<free, answers, refused>>
  <2>1. FreeInv'
    BY <1>3 DEF FreeInv, AnswerBytes, Sums
  <2>2. QED
    BY <1>1, <1>2, <1>3, <2>1 DEF TypeOK, StartSend
<1>4. CASE TcpWrite(reply) /\ pc' = "fast" /\ UNCHANGED <<pending, iicVars>>
  <2>1. /\ answers' \in Seq(Answer)
        /\ free' \in 0..SndBuf /\ refused' \subseteq {"room", "memory"}
        /\ acked' \in 0..Len(answers')
        /\ FreeInv'
    BY <1>1, <1>4, WriteStep
  <2>2. QED
    BY <1>2, <1>4, <2>1 DEF TypeOK, iicVars
<1>5. QED
  BY <1>3, <1>4 DEF Act, reply

Inv == TypeOK /\ StreamInv /\ FreeInv

LEMMA ReceiveType ==
  ASSUME Inv, NEW k \in 1..Len(flight), NEW j \in 1..k, Receive(k, j)
  PROVE  TypeOK' /\ FreeInv'
<1> USE DEF Inv
<1>1. flight' \in Seq(Byte)
  BY DEF TypeOK, Receive
<1>2. k \in Nat \ {0} /\ j \in 1..Len(flight) /\ segments' \in 0..MaxSegments
  BY BoundsAssumption DEF TypeOK, Receive
<1>3. wnd' \in 0..Window
  <2>1. wnd \in 0..Window /\ Window \in Nat /\ k <= wnd /\ wnd' = wnd - k + j
    BY BuffersAssumption DEF TypeOK, Receive
  <2>2. QED
    BY <1>2, <2>1
<1>4. inStep' \in BOOLEAN /\ chained' \in BOOLEAN /\ tiny' \in BOOLEAN
  BY DEF TypeOK, Receive
<1>5. UNCHANGED <<open, sent, acked, tmrVars>>
  BY DEF Receive
<1>6. CASE pc' = "fast" /\ UNCHANGED <<cmdVars, iicVars>>
  <2>1. FreeInv'
    BY <1>5, <1>6 DEF FreeInv, AnswerBytes, Sums, cmdVars
  <2>2. QED
    BY <1>1, <1>2, <1>3, <1>4, <1>5, <1>6, <2>1 DEF TypeOK, cmdVars, iicVars, tmrVars
<1>7. ASSUME NEW luck \in Luck, NEW size, size = RecvSize(k),
             rx' = Received(SubSeq(flight, 1, j), size), Act(rx', size, luck, k % 4 = 0)
      PROVE  TypeOK' /\ FreeInv'
  <2>1. size \in Nat /\ (k % 4 = 0) \in BOOLEAN
    BY <1>2, <1>7, SizeType
  <2>2. rx' \in [0..2 -> Word] /\ PacketOf(rx'[0], luck) \in Packets
    <3>1. PICK buf : buf = rx'
      OBVIOUS
    <3>2. buf \in [0..2 -> Word] /\ PacketOf(buf[0], luck) \in Packets
      BY <1>2, <1>7, <3>1, ReceivedType, PacketType
    <3>3. QED
      BY <3>1, <3>2
  <2>3. acked' = acked
    BY <1>5
  <2>4. /\ effects' \in Seq(EffectType)
        /\ answers' \in Seq(Answer) /\ pending' \in Answer
        /\ free' \in 0..SndBuf /\ refused' \subseteq {"room", "memory"} /\ acked' \in 0..Len(answers')
        /\ bus' \in {"idle", "busy"} /\ sendComplete' \in BOOLEAN /\ errors' \in BOOLEAN
        /\ pc' \in {"fast", "spin"}
        /\ FreeInv'
    BY <1>7, <2>1, <2>2, <2>3, ActType
  <2>5. QED
    BY <1>1, <1>2, <1>3, <1>4, <1>5, <2>2, <2>4 DEF TypeOK, tmrVars
<1>8. QED
  BY <1>6, <1>7 DEF Receive

LEMMA TypeStep ==
  Inv /\ [Next]_vars => TypeOK' /\ FreeInv'
<1> SUFFICES ASSUME Inv, [Next]_vars PROVE TypeOK' /\ FreeInv'
  OBVIOUS
<1> USE DEF Inv
<1>1. CASE ReceiveSome
  BY <1>1, ReceiveType DEF ReceiveSome
<1>2. CASE SpinEnds
  <2>1. TcpWrite(pending) /\ acked' = acked /\ pending \in Answer
    BY <1>2 DEF SpinEnds, netVars, TypeOK
  <2>2. /\ answers' \in Seq(Answer)
        /\ free' \in 0..SndBuf /\ refused' \subseteq {"room", "memory"}
        /\ acked' \in 0..Len(answers')
        /\ FreeInv'
    BY <2>1, WriteStep
  <2>3. QED
    BY <1>2, <2>2 DEF SpinEnds, TypeOK, netVars, tmrVars, iicVars
<1>3. CASE Accept
  <2>1. Len(answers) \in Nat /\ SndBuf \in Nat /\ Window \in Nat
    BY BuffersAssumption DEF TypeOK
  <2>2. TypeOK'
    BY <1>3, <2>1 DEF Accept, TypeOK, tmrVars, iicVars
  <2>3. PICK f : Sums(f, AnswerBytes, Len(answers))
    BY DEF FreeInv
  <2>4. f[Len(answers)] \in Nat
    BY <2>1, <2>3 DEF Sums
  <2>5. free' = SndBuf - (f[Len(answers)] - f[acked'])
    BY <1>3, <2>1, <2>4 DEF Accept
  <2>6. answers' = answers
    BY <1>3 DEF Accept
  <2>7. QED
    BY <2>2, <2>3, <2>5, <2>6 DEF FreeInv, AnswerBytes, Sums
<1>4. CASE Acknowledge
  <2>1. /\ Len(answers) \in Nat /\ SndBuf \in Nat /\ acked \in 0..Len(answers)
        /\ free \in 0..SndBuf /\ acked' = acked + 1 /\ acked' \in 1..Len(answers)
        /\ answers' = answers /\ free' = free + answers[acked'].bytes
    BY <1>4, BuffersAssumption DEF Acknowledge, TypeOK
  <2>2. PICK f : Sums(f, AnswerBytes, Len(answers))
                 /\ free = SndBuf - (f[Len(answers)] - f[acked])
    BY DEF FreeInv
  <2>3. AnswerBytes \in [1..Len(answers) -> Nat]
    BY AnswerBytesType
  <2>4. f[acked'] = f[acked] + answers[acked'].bytes
    BY <2>1, <2>2 DEF Sums, AnswerBytes
  <2>5. f[acked'] \in Nat /\ f[acked] \in Nat /\ f[Len(answers)] \in Nat
        /\ answers[acked'].bytes \in Nat
    <3>1. f \in [0..Len(answers) -> Nat]
      BY <2>2 DEF Sums
    <3>2. AnswerBytes[acked'] \in Nat /\ AnswerBytes[acked'] = answers[acked'].bytes
      BY <2>1, <2>3 DEF AnswerBytes
    <3>3. QED
      BY <2>1, <3>1, <3>2
  <2>6. f[acked'] <= f[Len(answers)]
    <3>1. acked' \in 0..Len(answers) /\ Len(answers) \in 0..Len(answers) /\ acked' <= Len(answers)
      BY <2>1
    <3>2. QED
      BY <2>1, <2>2, <2>3, <3>1, SumsGrow
  <2>7. free' = SndBuf - (f[Len(answers)] - f[acked']) /\ free' \in 0..SndBuf
    <3>1. free' = free + (f[acked'] - f[acked])
      BY <2>1, <2>4, <2>5, SMTT(30)
    <3>2. free \in Nat /\ f[acked'] >= f[acked]
      BY <2>1, <2>4, <2>5
    <3> DEFINE a == f[acked]
               b == f[acked']
               l == f[Len(answers)]
    <3>3. /\ a \in Nat /\ b \in Nat /\ l \in Nat /\ b >= a /\ b <= l /\ SndBuf \in Nat
          /\ free \in Nat /\ free = SndBuf - (l - a) /\ free' = free + (b - a)
      BY <2>1, <2>2, <2>5, <2>6, <3>1, <3>2
    <3> HIDE DEF a, b, l
    <3>4. free' = SndBuf - (l - b) /\ free' \in 0..SndBuf
      BY <3>3
    <3>5. QED
      BY <3>4 DEF b, l
  <2>8. FreeInv'
    BY <2>1, <2>2, <2>7 DEF FreeInv, AnswerBytes, Sums
  <2>9. acked' \in 0..Len(answers)
    BY <2>1
  <2>10. QED
    BY <1>4, <2>7, <2>8, <2>9 DEF Acknowledge, TypeOK, tmrVars, iicVars
<1>5. CASE \E c \in Commands : Send(c)
  <2>1. PICK c \in Commands : Send(c)
    BY <1>5
  <2>2. sent' \in Seq(Commands) /\ Len(sent') <= MaxCommands /\ Len(sent) + 1 \in 0..MaxCommands
    BY <2>1, BoundsAssumption DEF Send, TypeOK
  <2>3. Bytes(Len(sent) + 1, c) \in Seq(Byte)
    <3>1. Len(sent) + 1 \in 1..MaxCommands
      BY <2>1, BoundsAssumption DEF Send, TypeOK
    <3>2. QED
      BY <3>1, BytesType
  <2>4. flight' \in Seq(Byte)
    BY <2>1, <2>3, ConcatProperties DEF Send, TypeOK
  <2>5. FreeInv'
    BY <2>1 DEF Send, cmdVars, FreeInv, AnswerBytes, Sums
  <2>6. inStep' \in BOOLEAN
    BY <2>1 DEF Send, TypeOK
  <2>7. QED
    BY <2>1, <2>2, <2>4, <2>5, <2>6 DEF Send, TypeOK, cmdVars, tmrVars, iicVars
<1>6. CASE UNCHANGED <<free, answers, acked>> /\ TypeOK'
  BY <1>6 DEF FreeInv, AnswerBytes, Sums
<1>7. CASE ReceiveClose
  BY <1>6, <1>7 DEF ReceiveClose, TypeOK, netVars, cmdVars, tmrVars, iicVars
<1>8. CASE CallFast \/ ClearFast \/ CallSlow \/ ClearSlow \/ NoFrame
  <2>1. /\ UNCHANGED <<netVars, cmdVars, ticks, iicVars>>
        /\ pc' \in {"fast", "fastCalled", "slow", "slowCalled", "input"}
        /\ fast' \in BOOLEAN /\ slow' \in BOOLEAN
    BY <1>8 DEF CallFast, ClearFast, CallSlow, ClearSlow, NoFrame, Nothing, SlowCleared, TypeOK
  <2>2. TypeOK'
    BY <2>1 DEF TypeOK, netVars, cmdVars, iicVars
  <2>3. QED
    BY <1>6, <2>1, <2>2 DEF netVars, cmdVars
<1>9. CASE TimerCallback
  <2>1. ticks' \in 0..SlowEvery - 1
    BY <1>9, TimerAssumption DEF TimerCallback, TypeOK
  <2>2. fast' \in BOOLEAN /\ slow' \in BOOLEAN
    BY <1>9 DEF TimerCallback, TypeOK
  <2>3. TypeOK'
    BY <1>9, <2>1, <2>2 DEF TimerCallback, TypeOK, netVars, cmdVars, iicVars
  <2>4. QED
    BY <1>6, <1>9, <2>3 DEF TimerCallback, netVars, cmdVars
<1>10. CASE Handler
  <2>1. TypeOK'
    BY <1>10 DEF Handler, TypeOK, netVars, cmdVars, tmrVars
  <2>2. QED
    BY <1>6, <1>10, <2>1 DEF Handler, netVars, cmdVars
<1>11. CASE UNCHANGED vars
  <2>1. TypeOK'
    BY <1>11 DEF vars, TypeOK, netVars, cmdVars, tmrVars, iicVars
  <2>2. QED
    BY <1>6, <1>11, <2>1 DEF vars, netVars, cmdVars
<1>12. QED
  BY <1>1, <1>2, <1>3, <1>4, <1>5, <1>7, <1>8, <1>9, <1>10, <1>11 DEF Next, MainLoop

LEMMA InvHolds == Spec => []Inv
<1>1. Init => Inv
  <2> SUFFICES ASSUME Init PROVE Inv
    OBVIOUS
  <2>1. TypeOK
    <3>1. Junk \in Word /\ NoAnswer \in Answer
      BY BoundsAssumption DEF Junk, Word, NoAnswer, Answer
    <3>2. 0 \in 0..SlowEvery - 1
      BY TimerAssumption
    <3>3. /\ <<>> \in Seq(Commands) /\ <<>> \in Seq(Byte) /\ <<>> \in Seq(Answer)
          /\ <<>> \in Seq(EffectType) /\ Len(<<>>) = 0
      OBVIOUS
    <3>4. wnd \in 0..Window /\ free \in 0..SndBuf
      BY BuffersAssumption DEF Init
    <3>5. rx \in [0..2 -> Word]
      BY <3>1 DEF Init
    <3>6. sent \in Seq(Commands) /\ Len(sent) <= MaxCommands /\ flight \in Seq(Byte)
          /\ effects \in Seq(EffectType) /\ answers \in Seq(Answer)
          /\ acked \in 0..Len(answers)
      BY <3>3, BoundsAssumption DEF Init
    <3>7. pending \in Answer /\ ticks \in 0..SlowEvery - 1
      BY <3>1, <3>2 DEF Init
    <3>8. QED
      BY <3>4, <3>5, <3>6, <3>7 DEF Init, TypeOK
  <2>2. StreamInv
    BY DEF Init, StreamInv
  <2>3. FreeInv
    <3>1. Sums([i \in 0..0 |-> 0], AnswerBytes, 0)
      BY DEF Sums
    <3>2. Len(answers) = 0 /\ acked = 0 /\ free = SndBuf - (0 - 0)
      BY BuffersAssumption DEF Init
    <3>3. QED
      BY <3>1, <3>2 DEF FreeInv
  <2>4. QED
    BY <2>1, <2>2, <2>3 DEF Inv
<1>2. Inv /\ [Next]_vars => Inv'
  BY TypeStep, StreamStep DEF Inv
<1>3. QED
  BY <1>1, <1>2, PTL DEF Spec

(* Memory has its types in every state: no word comes from a command that   *)
(* was not sent, and neither the window nor the send buffer is ever         *)
(* overdrawn or grows beyond its size, whatever is acknowledged when        *)
(* (ethControl.c:118-147).                                                  *)
THEOREM TypeOKHolds == Spec => []TypeOK
BY InvHolds, PTL DEF Inv

-----------------------------------------------------------------------------
(* Answers that say GOOD. *)
GoodOnes(s) == {n \in DOMAIN s : s[n].verdict = "GOOD"}

LEMMA GoodCounted ==
  ASSUME NEW s \in Seq(Answer)
  PROVE  IsFiniteSet(GoodOnes(s)) /\ Cardinality(GoodOnes(s)) \in Nat
<1>1. Len(s) \in Nat /\ DOMAIN s = 1..Len(s)
  OBVIOUS
<1>2. IsFiniteSet(1..Len(s))
  BY <1>1, FS_Interval
<1>3. GoodOnes(s) \subseteq 1..Len(s)
  BY <1>1 DEF GoodOnes
<1>4. QED
  BY <1>2, <1>3, FS_Subset, FS_CardinalityType

LEMMA GoodAppended ==
  ASSUME NEW s \in Seq(Answer), NEW a \in Answer
  PROVE  Cardinality(GoodOnes(Append(s, a)))
           = Cardinality(GoodOnes(s)) + (IF a.verdict = "GOOD" THEN 1 ELSE 0)
<1> DEFINE n == Len(s)
<1>1. n \in Nat /\ DOMAIN s = 1..n
  OBVIOUS
<1>2. IsFiniteSet(GoodOnes(s))
  BY GoodCounted
<1>3. n + 1 \notin GoodOnes(s)
  BY <1>1 DEF GoodOnes
<1>4. DOMAIN Append(s, a) = 1..n + 1 /\ \A i \in 1..n : Append(s, a)[i] = s[i]
  OBVIOUS
<1>5. Append(s, a)[n + 1] = a
  OBVIOUS
<1>6. GoodOnes(Append(s, a)) = IF a.verdict = "GOOD" THEN GoodOnes(s) \cup {n + 1} ELSE GoodOnes(s)
  <2>1. ASSUME NEW i \in 1..n + 1
        PROVE  Append(s, a)[i].verdict = "GOOD"
                 <=> (i \in 1..n /\ s[i].verdict = "GOOD") \/ (i = n + 1 /\ a.verdict = "GOOD")
    BY <1>1, <1>4, <1>5
  <2>2. \A i : i \in 1..n + 1 <=> i \in 1..n \/ i = n + 1
    BY <1>1
  <2> HIDE DEF n
  <2>3. QED
    BY <1>1, <1>4, <2>1, <2>2 DEF GoodOnes
<1>7. Cardinality(GoodOnes(s)) \in Nat
        /\ Cardinality(GoodOnes(s) \cup {n + 1}) = Cardinality(GoodOnes(s)) + 1
  BY <1>2, <1>3, GoodCounted, FS_AddElement
<1>8. QED
  BY <1>6, <1>7

(* A client in step: at most its last command is not answered, and that one *)
(* is the whole stream, the transfer under way, or its answer was refused.  *)
StepInv ==
  inStep =>
    /\ ~chained /\ ~tiny
    /\ Len(answers) <= Len(sent)
    /\ flight # <<>> => /\ pc # "spin"
                        /\ Len(answers) + 1 = Len(sent)
                        /\ flight = Bytes(Len(sent), sent[Len(sent)])
    /\ pc = "spin" => /\ Len(answers) + 1 = Len(sent)
                      /\ pending.cmd = Len(sent) /\ pending.verdict = "GOOD"
                      /\ RightVerdict(sent[Len(sent)]) = "GOOD"
    /\ \A n \in DOMAIN answers :
         answers[n].cmd = n /\ answers[n].verdict = RightVerdict(sent[n])
    /\ refused = {} =>
         Len(effects) = Cardinality(GoodOnes(answers)) + (IF pc = "spin" THEN 1 ELSE 0)

(* The answer to a segment that is one command. *)
LEMMA ReplyRight ==
  ASSUME Inv, NEW n \in 1..Len(sent), NEW k \in 1..Len(flight), k = Len(flight),
         flight = Bytes(n, sent[n]),
         NEW luck \in Luck, NEW buf, buf = Received(SubSeq(flight, 1, k), RecvSize(k))
  PROVE  /\ k >= 4
         /\ Reply(buf, RecvSize(k), luck) \in Answer
         /\ Reply(buf, RecvSize(k), luck).cmd = n
         /\ Reply(buf, RecvSize(k), luck).verdict = RightVerdict(sent[n])
<1> USE DEF Inv
<1> DEFINE c == sent[n]
           size == RecvSize(k)
<1>1. c \in Commands /\ c.packet \in Packets /\ c.bytes \in 4..12 /\ c.known \in BOOLEAN
      /\ (c.packet # "other" => c.bytes % 4 = 0)
  BY SentType, CommandType
<1>2. k = c.bytes /\ \A i \in 1..c.bytes : flight[i] = [cmd |-> n, at |-> i - 1]
  <2>1. n \in 1..MaxCommands
    BY BoundsAssumption DEF TypeOK
  <2>2. QED
    BY <1>1, <2>1, BytesType
<1>3. k \in 4..12 /\ k >= 4 /\ size \in Nat /\ (c.packet # "other" => size = c.bytes)
  <2>1. PICK b : b = c.bytes
    OBVIOUS
  <2>2. b \in 4..12 /\ k = b /\ (c.packet # "other" => b % 4 = 0)
    BY <1>1, <1>2, <2>1
  <2>3. b \in Nat \ {0} /\ b >= 4
    BY <2>2
  <2>4. RecvSize(b) \in Nat /\ (b % 4 = 0 => RecvSize(b) = b)
    BY <2>3, SizeType
  <2>5. QED
    BY <2>1, <2>2, <2>3, <2>4
<1>4. buf \in [0..2 -> Word] /\ PacketOf(buf[0], luck) \in Packets
  <2>1. k \in 1..k
    BY <1>3
  <2>2. QED
    BY <2>1, ReceivedType, PacketType
<1>5. ASSUME NEW i \in 0..2, k >= 4 * i + 4 PROVE buf[i] = [cmd |-> n, at |-> i]
  <2>1. 4 * i + 1 \in 1..c.bytes /\ 4 * i + 4 \in 1..c.bytes
        /\ (4 * i + 1) - 1 = 4 * i /\ (4 * i + 4) - 1 = 4 * i + 3
    BY <1>1, <1>2, <1>5
  <2>2. /\ flight[4 * i + 1] = [cmd |-> n, at |-> 4 * i]
        /\ flight[4 * i + 4] = [cmd |-> n, at |-> 4 * i + 3]
    BY <1>2, <2>1
  <2>3. Payload(SubSeq(flight, 1, k), i) = [cmd |-> n, at |-> i]
    BY <1>5, <2>2, PayloadOwn
  <2>4. 4 * i < RecvSize(k)
    BY <1>3, <1>5, SizeType
  <2>5. buf[i] = Payload(SubSeq(flight, 1, k), i)
    BY <2>4 DEF Received
  <2>6. QED
    BY <2>3, <2>5
<1>6. buf[0].cmd = n /\ n # 0 /\ IsHead(buf[0]) /\ buf[0] # Junk
  <2>1. 0 \in 0..2 /\ k >= 4 * 0 + 4
    BY <1>3
  <2>2. buf[0] = [cmd |-> n, at |-> 0]
    BY <1>5, <2>1
  <2>3. QED
    BY <2>2 DEF IsHead, Junk
<1>7. PacketOf(buf[0], luck) = c.packet
  BY <1>6 DEF PacketOf
<1>8. Reply(buf, size, luck) \in Answer
  BY <1>3, <1>4, ReplyType
<1>9. Reply(buf, size, luck).cmd = n
  BY <1>6 DEF Reply
<1>10. c.packet # "other" /\ size >= 8 =>
         Known(buf[1], luck) = c.known /\ Reads(buf[1], luck) = (c.access = "read")
  <2>1. SUFFICES ASSUME c.packet # "other", size >= 8
                 PROVE  Known(buf[1], luck) = c.known /\ Reads(buf[1], luck) = (c.access = "read")
    OBVIOUS
  <2>2. 1 \in 0..2 /\ k >= 4 * 1 + 4
    BY <1>2, <1>3, <2>1
  <2>3. buf[1] = [cmd |-> n, at |-> 1]
    BY <1>5, <2>2
  <2>4. Selects(buf[1]) /\ buf[1].cmd = n
    BY <1>6, <2>3 DEF Selects
  <2>5. QED
    BY <2>4 DEF Known, Reads
<1> HIDE DEF size
<1>11. Reply(buf, size, luck).verdict = RightVerdict(c)
  <2>1. CASE c.packet = "other"
    BY <1>7, <2>1 DEF Reply, RightVerdict
  <2>2. CASE c.packet = "SPI"
    <3>1. Valid(buf, size, luck)
      BY <1>7, <2>2 DEF Valid
    <3>2. QED
      BY <1>7, <2>2, <3>1 DEF Reply, RightVerdict
  <2>3. CASE c.packet \in {"QPIX", "CTRL", "I2C"}
    <3>1. WellSized(c) <=> size = (IF c.packet \in {"QPIX", "CTRL"} THEN 12 ELSE 8)
      BY <1>3, <2>3 DEF WellSized
    <3>2. Valid(buf, size, luck) <=> WellSized(c) /\ c.known
      BY <1>7, <1>10, <2>3, <3>1 DEF Valid
    <3>3. WellSized(c) => size >= 8
      BY <3>1
    <3>4. CASE WellSized(c) /\ c.known
      BY <1>7, <1>10, <2>3, <3>2, <3>3, <3>4 DEF Reply, RightVerdict
    <3>5. CASE ~(WellSized(c) /\ c.known)
      BY <1>7, <2>3, <3>2, <3>5 DEF Reply, RightVerdict
    <3>6. QED
      BY <3>4, <3>5
  <2>4. QED
    BY <1>1, <2>1, <2>2, <2>3 DEF Packets
<1>12. QED
  BY <1>3, <1>8, <1>9, <1>11, Zenon DEF size

(* Writing the answer to the last command. *)
LEMMA WriteInStep ==
  ASSUME Inv, NEW answer \in Answer, TcpWrite(answer),
         Len(answers) + 1 = Len(sent), answer.cmd = Len(sent),
         answer.verdict = RightVerdict(sent[Len(sent)]),
         \A n \in DOMAIN answers :
           answers[n].cmd = n /\ answers[n].verdict = RightVerdict(sent[n])
  PROVE  \/ refused' # {} /\ answers' = answers
         \/ /\ refused' = refused /\ Len(answers') = Len(sent)
            /\ \A n \in DOMAIN answers' :
                 answers'[n].cmd = n /\ answers'[n].verdict = RightVerdict(sent[n])
            /\ Cardinality(GoodOnes(answers'))
                 = Cardinality(GoodOnes(answers)) + (IF answer.verdict = "GOOD" THEN 1 ELSE 0)
<1>1. SUFFICES ASSUME ~(refused' # {} /\ answers' = answers)
               PROVE  /\ refused' = refused /\ Len(answers') = Len(sent)
                      /\ \A n \in DOMAIN answers' :
                           answers'[n].cmd = n /\ answers'[n].verdict = RightVerdict(sent[n])
                      /\ Cardinality(GoodOnes(answers'))
                           = Cardinality(GoodOnes(answers)) + (IF answer.verdict = "GOOD" THEN 1 ELSE 0)
  OBVIOUS
<1>2. answers' = Append(answers, answer) /\ refused' = refused
  BY <1>1 DEF TcpWrite
<1>3. answers \in Seq(Answer) /\ Len(answers) \in Nat
  BY DEF Inv, TypeOK
<1>4. /\ Len(answers') = Len(sent) /\ DOMAIN answers' = 1..Len(sent)
      /\ \A n \in 1..Len(sent) : answers'[n] = IF n \in DOMAIN answers THEN answers[n] ELSE answer
      /\ \A n \in 1..Len(sent) : n \in DOMAIN answers \/ n = Len(sent)
  BY <1>2, <1>3
<1>5. ASSUME NEW n \in 1..Len(sent)
      PROVE  answers'[n].cmd = n /\ answers'[n].verdict = RightVerdict(sent[n])
  BY <1>3, <1>4
<1>6. QED
  BY <1>2, <1>3, <1>4, <1>5, GoodAppended

LEMMA StepStep ==
  Inv /\ StepInv /\ [Next]_vars => StepInv'
<1> SUFFICES ASSUME Inv, StepInv, [Next]_vars, inStep' PROVE StepInv'
  BY DEF StepInv
<1>1. /\ answers \in Seq(Answer) /\ Len(answers) \in Nat /\ DOMAIN answers = 1..Len(answers)
      /\ sent \in Seq(Commands) /\ Len(sent) \in Nat /\ flight \in Seq(Byte)
      /\ effects \in Seq(EffectType)
      /\ acked \in 0..Len(answers)
      /\ Cardinality(GoodOnes(answers)) \in Nat
  BY GoodCounted DEF Inv, TypeOK
<1>2. ASSUME NEW k \in 1..Len(flight), NEW j \in 1..k, Receive(k, j) PROVE StepInv'
  <2>1. /\ inStep /\ k = Len(flight) /\ j = k /\ pc = "input" /\ sent' = sent
        /\ flight' = SubSeq(flight, k + 1, Len(flight)) /\ (chained' = (chained \/ j < k))
        /\ (tiny' = (tiny \/ k < 4))
    BY <1>2 DEF Receive
  <2>2. flight # <<>> /\ flight' = <<>> /\ SubSeq(flight, 1, k) = flight
    BY <1>1, <2>1, SubSeqFull
  <2> DEFINE n == Len(sent)
  <2>3. /\ ~chained /\ ~tiny /\ Len(answers) + 1 = n
        /\ flight = Bytes(n, sent[n]) /\ n \in 1..Len(sent)
        /\ \A m \in DOMAIN answers : answers[m].cmd = m /\ answers[m].verdict = RightVerdict(sent[m])
        /\ refused = {} => Len(effects) = Cardinality(GoodOnes(answers))
    BY <1>1, <2>1, <2>2 DEF StepInv
  <2>4. ~chained' /\ ~tiny'
    <3>1. ~(j < k) /\ ~(k < 4)
      <4>1. k = sent[n].bytes
        <5>1. n \in 1..MaxCommands /\ sent[n] \in Commands
          BY <2>3, BoundsAssumption, SentType DEF Inv, TypeOK
        <5>2. Len(Bytes(n, sent[n])) = sent[n].bytes
          BY <5>1, BytesType
        <5>3. QED
          BY <2>1, <2>3, <5>2
      <4>2. sent[n].bytes \in 4..12
        BY <2>3, SentType, CommandType DEF Inv
      <4>3. k \in 4..12 /\ j = k
        BY <2>1, <4>1, <4>2
      <4>4. QED
        BY <4>3
    <3>2. QED
      BY <2>1, <2>3, <3>1, Zenon
  <2>5. CASE pc' = "fast" /\ UNCHANGED cmdVars
    BY <1>1, <2>1, <2>2, <2>3, <2>4, <2>5 DEF StepInv, cmdVars, RightVerdict, WellSized, GoodOnes
  <2>6. ASSUME NEW luck \in Luck, NEW size, size = RecvSize(k),
               rx' = Received(SubSeq(flight, 1, j), size), Act(rx', size, luck, k % 4 = 0)
        PROVE  StepInv'
    <3> PICK buf : buf = rx'
      OBVIOUS
    <3> PICK reply : reply = Reply(buf, size, luck)
      OBVIOUS
    <3>1. reply \in Answer /\ reply.cmd = n /\ reply.verdict = RightVerdict(sent[n])
      BY <2>1, <2>3, <2>6, ReplyRight
    <3>3. Len(effects') = Len(effects) + (IF reply.verdict = "GOOD" THEN 1 ELSE 0)
      BY <1>1, <2>6 DEF Act
    <3>4. CASE /\ reply.verdict = "GOOD" /\ pending' = reply /\ pc' = "spin"
               /\ UNCHANGED <<free, answers, refused>>
      BY <1>1, <2>1, <2>2, <2>3, <2>4, <3>1, <3>3, <3>4
         DEF StepInv, RightVerdict, WellSized, GoodOnes
    <3>5. CASE TcpWrite(reply) /\ pc' = "fast"
      <4>1. \/ refused' # {} /\ answers' = answers
            \/ /\ refused' = refused /\ Len(answers') = n
               /\ \A m \in DOMAIN answers' :
                    answers'[m].cmd = m /\ answers'[m].verdict = RightVerdict(sent[m])
               /\ Cardinality(GoodOnes(answers'))
                    = Cardinality(GoodOnes(answers)) + (IF reply.verdict = "GOOD" THEN 1 ELSE 0)
        BY <2>3, <3>1, <3>5, WriteInStep
      <4>2. CASE refused' # {} /\ answers' = answers
        BY <1>1, <2>1, <2>2, <2>3, <2>4, <3>5, <4>2
           DEF StepInv, RightVerdict, WellSized, GoodOnes
      <4>3. CASE ~(refused' # {} /\ answers' = answers)
        BY <1>1, <2>1, <2>2, <2>3, <2>4, <3>3, <3>5, <4>1, <4>3
           DEF StepInv, RightVerdict, WellSized, GoodOnes
      <4>4. QED
        BY <4>2, <4>3
    <3>6. QED
      BY <2>6, <3>4, <3>5 DEF Act
  <2>7. QED
    BY <1>2, <2>5, <2>6 DEF Receive
<1>3. CASE SpinEnds
  <2>1. /\ pc = "spin" /\ TcpWrite(pending) /\ pc' = "fast" /\ UNCHANGED <<netVars, effects>>
    BY <1>3 DEF SpinEnds
  <2>2. /\ inStep /\ ~chained /\ ~tiny /\ flight = <<>> /\ Len(answers) + 1 = Len(sent)
        /\ pending.cmd = Len(sent) /\ pending.verdict = "GOOD"
        /\ RightVerdict(sent[Len(sent)]) = "GOOD"
        /\ \A n \in DOMAIN answers : answers[n].cmd = n /\ answers[n].verdict = RightVerdict(sent[n])
        /\ refused = {} => Len(effects) = Cardinality(GoodOnes(answers)) + 1
    BY <2>1 DEF StepInv, netVars
  <2>3. pending \in Answer
    BY DEF Inv, TypeOK
  <2>4. \/ refused' # {} /\ answers' = answers
        \/ /\ refused' = refused /\ Len(answers') = Len(sent)
           /\ \A m \in DOMAIN answers' :
                answers'[m].cmd = m /\ answers'[m].verdict = RightVerdict(sent[m])
           /\ Cardinality(GoodOnes(answers')) = Cardinality(GoodOnes(answers)) + 1
    BY <2>1, <2>2, <2>3, WriteInStep
  <2>5. UNCHANGED <<sent, flight, inStep, chained, tiny, effects>>
    BY <2>1 DEF netVars
  <2>6. CASE refused' # {} /\ answers' = answers
    BY <1>1, <2>1, <2>2, <2>5, <2>6 DEF StepInv, RightVerdict, WellSized
  <2>7. CASE ~(refused' # {} /\ answers' = answers)
    BY <1>1, <2>1, <2>2, <2>4, <2>5, <2>7 DEF StepInv, RightVerdict, WellSized, GoodOnes
  <2>8. QED
    BY <2>6, <2>7
<1>4. ASSUME NEW c \in Commands, Send(c) PROVE StepInv'
  <2>1. /\ sent' = Append(sent, c) /\ flight' = flight \o Bytes(Len(sent) + 1, c)
        /\ inStep /\ acked = Len(sent) /\ Len(sent) < MaxCommands
        /\ UNCHANGED <<chained, tiny, answers, refused, effects, pending, pc>>
    BY <1>4 DEF Send, cmdVars
  <2>2. Len(answers) = Len(sent) /\ ~chained /\ ~tiny /\ flight = <<>> /\ pc # "spin"
    <3>1. ~chained /\ ~tiny /\ Len(answers) <= Len(sent)
          /\ (flight # <<>> \/ pc = "spin" => Len(answers) + 1 = Len(sent))
      BY <2>1 DEF StepInv
    <3>2. /\ acked = Len(sent) /\ pc' = pc /\ acked <= Len(answers)
          /\ Len(answers) \in Nat /\ Len(sent) \in Nat
      BY <1>1, <2>1
    <3>3. Len(answers) = Len(sent) /\ Len(answers) + 1 # Len(sent)
      BY <3>1, <3>2
    <3>4. QED
      BY <3>1, <3>3, Zenon
  <2>3. /\ Len(sent') = Len(sent) + 1 /\ sent'[Len(sent) + 1] = c
        /\ \A n \in 1..Len(sent) : sent'[n] = sent[n]
    BY <1>1, <2>1
  <2>4. flight' = Bytes(Len(sent'), sent'[Len(sent')])
    <3>1. Bytes(Len(sent) + 1, c) \in Seq(Byte)
      <4>1. Len(sent) + 1 \in 1..MaxCommands
        BY <1>1, <2>1, BoundsAssumption
      <4>2. QED
        BY <4>1, BytesType
    <3>2. flight' = Bytes(Len(sent) + 1, c)
      BY <2>1, <2>2, <3>1, ConcatEmptySeq
    <3>3. QED
      BY <2>3, <3>2
  <2>5. \A n \in DOMAIN answers :
          answers[n].cmd = n /\ answers[n].verdict = RightVerdict(sent'[n])
    BY <1>1, <2>1, <2>2, <2>3 DEF StepInv
  <2>6. refused = {} => Len(effects) = Cardinality(GoodOnes(answers))
    BY <1>1, <2>1, <2>2 DEF StepInv
  <2>7. QED
    BY <1>1, <2>1, <2>2, <2>3, <2>4, <2>5, <2>6
       DEF StepInv, Bytes, RightVerdict, WellSized, GoodOnes
<1>5. CASE /\ UNCHANGED <<sent, flight, inStep, chained, tiny, answers, refused, effects, pending>>
           /\ (pc' = "spin" <=> pc = "spin")
  BY <1>5 DEF StepInv, Bytes, RightVerdict, WellSized, GoodOnes
<1>6. CASE CallFast \/ ClearFast \/ CallSlow \/ ClearSlow \/ NoFrame \/ ReceiveClose \/ Accept
  BY <1>5, <1>6 DEF CallFast, ClearFast, CallSlow, ClearSlow, NoFrame, ReceiveClose, Accept,
     Nothing, netVars, cmdVars
<1>7. CASE TimerCallback \/ Handler \/ Acknowledge \/ UNCHANGED vars
  BY <1>5, <1>7 DEF TimerCallback, Handler, Acknowledge, vars, netVars, cmdVars
<1>8. QED
  BY <1>2, <1>3, <1>4, <1>6, <1>7 DEF Next, ReceiveSome, MainLoop

LEMMA StepHolds == Spec => []StepInv
<1>1. Init => StepInv
  <2>1. GoodOnes(<<>>) = {}
    BY DEF GoodOnes
  <2>2. Cardinality({}) = 0
    BY FS_EmptySet
  <2>3. SUFFICES ASSUME Init PROVE StepInv
    OBVIOUS
  <2>4. /\ answers = <<>> /\ sent = <<>> /\ flight = <<>> /\ effects = <<>>
        /\ pc = "fast" /\ ~chained /\ ~tiny
    BY <2>3 DEF Init
  <2>5. Len(effects) = Cardinality(GoodOnes(answers)) + 0
    <3>1. Len(effects) = 0
      BY <2>4
    <3>2. Cardinality(GoodOnes(answers)) = 0
      BY <2>1, <2>2, <2>4, Zenon
    <3>3. QED
      BY <3>1, <3>2
  <2>6. \A n \in DOMAIN answers : FALSE
    BY <2>4
  <2>7. QED
    BY <2>4, <2>5, <2>6 DEF StepInv
<1>2. QED
  BY <1>1, StepStep, InvHolds, PTL DEF Spec

(* A client that waits for each answer gets them in the order of its        *)
(* commands, each with its verdict, and, when tcp_write refuses none, has a *)
(* command acted on once exactly when it is answered GOOD (helper.c:4-125,  *)
(* ethControl.c:118-148): no word that an earlier command left in the       *)
(* buffer reaches a later answer.                                           *)
THEOREM AnswersPairHolds == Spec => []AnswersPair
<1>1. StepInv => AnswersPair
  BY DEF StepInv, AnswersPair, GoodOnes
<1>2. QED
  BY <1>1, StepHolds, PTL

-----------------------------------------------------------------------------
(* An effect has the parts of the command that its packet code belongs to,  *)
(* as far as they were received.                                            *)
Commanded(e) ==
  LET c == sent[e.head.cmd]
      own(at) == [cmd |-> e.head.cmd, at |-> at]
      pastEnd(w) == ~e.whole /\ w = Junk
  IN /\ e.head.cmd \in 1..Len(sent) /\ IsHead(e.head) /\ c.packet = e.packet
     /\ e.packet # "SPI" /\ HasSelector(c) =>
          \/ e.select = own(1) /\ c.known
          \/ e.packet = "I2C" /\ pastEnd(e.select)
     /\ e.packet # "SPI" /\ WellSized(c) =>
          \/ e.data = own(IF e.packet = "I2C" THEN 1 ELSE 2)
          \/ pastEnd(e.data)
     /\ e.packet = "SPI" /\ inStep /\ HasSelector(c) => e.data = own(1)

(* Less than a quadlet can be taken for an SPI command, and nothing else. *)
CommandedInv ==
  ~chained => \A i \in DOMAIN effects :
                (effects[i].packet = "SPI" /\ tiny) \/ Commanded(effects[i])

(* The effect of one segment that is one pbuf. *)
LEMMA ReceivedEffect ==
  ASSUME Inv, NEW k \in 1..Len(flight), NEW luck \in Luck, NEW buf,
         buf = Received(SubSeq(flight, 1, k), RecvSize(k)),
         Reply(buf, RecvSize(k), luck).verdict = "GOOD",
         NEW e, e = Effect(buf, luck, k % 4 = 0),
         sent' = sent, inStep' = (inStep /\ k = Len(flight)), tiny' = (tiny \/ k < 4)
  PROVE  (e.packet = "SPI" /\ tiny') \/ Commanded(e)'
<1> USE DEF Inv
<1> DEFINE n == buf[0].cmd
           c == sent[buf[0].cmd]
           packet == PacketOf(buf[0], luck)
           size == RecvSize(k)
<1>1. packet # "other" /\ Valid(buf, size, luck)
  BY DEF Reply
<1>2. k \in Nat \ {0}
  BY DEF TypeOK
<1>3. size = 4 * ((k + 3) \div 4)
  BY DEF RecvSize
<1>4. /\ e.packet = packet /\ e.head = buf[0] /\ e.select = buf[1] /\ e.whole = (k % 4 = 0)
      /\ e.data = IF packet \in {"QPIX", "CTRL"} THEN buf[2] ELSE buf[1]
  BY DEF Effect
<1>5. packet \in Packets
  <2>1. k \in 1..k
    BY <1>2
  <2>2. QED
    BY <2>1, PacketType
<1> HIDE DEF packet, size
<1>6. packet # "SPI" => /\ size = IF packet = "I2C" THEN 8 ELSE 12
                        /\ Known(buf[1], luck)
  BY <1>1, <1>5 DEF Valid, Packets, packet
<1>7. CASE k < 4
  <2>1. size = 4
    BY <1>2, <1>3, <1>7
  <2>2. packet = "SPI"
    BY <1>6, <2>1
  <2>3. QED
    BY <1>4, <1>7, <2>2
<1>8. CASE k >= 4
  <2>1. /\ IsHead(buf[0]) /\ n \in 1..Len(sent) /\ packet = c.packet
        /\ flight[1].at = 0 /\ flight[1].cmd = n
        /\ HasSelector(c) => /\ k >= 8 => buf[1] = [cmd |-> n, at |-> 1]
                             /\ k \in 5..7 => buf[1] = Junk
        /\ c.bytes = 12 => /\ k >= 12 => buf[2] = [cmd |-> n, at |-> 2]
                           /\ k \in 9..11 => buf[2] = Junk
    <3>1. TypeOK /\ StreamInv /\ PacketOf(buf[0], luck) # "other"
      BY <1>1 DEF packet
    <3>2. buf = Received(SubSeq(flight, 1, k), RecvSize(k))
      OBVIOUS
    <3>3. /\ IsHead(buf[0]) /\ n \in 1..Len(sent)
          /\ flight[1].at = 0 /\ flight[1].cmd = n
          /\ PacketOf(buf[0], luck) = c.packet
          /\ HasSelector(c) => /\ k >= 8 => buf[1] = [cmd |-> n, at |-> 1]
                               /\ k \in 5..7 => buf[1] = Junk
          /\ c.bytes = 12 => /\ k >= 12 => buf[2] = [cmd |-> n, at |-> 2]
                             /\ k \in 9..11 => buf[2] = Junk
      BY <1>8, <3>1, <3>2, ReceivedCommand, ZenonT(30)
    <3>4. QED
      BY <3>3 DEF packet
  <2>2. n # 0 /\ c \in Commands /\ c.bytes \in 4..12
    BY <2>1, SentType, CommandType
  <2>3. ASSUME packet # "SPI", HasSelector(c)
        PROVE  \/ k >= 8 /\ buf[1] = [cmd |-> n, at |-> 1] /\ c.known
               \/ packet = "I2C" /\ k % 4 # 0 /\ buf[1] = Junk
    <3>1. CASE k >= 8
      <4>1. buf[1] = [cmd |-> n, at |-> 1]
        BY <2>1, <2>3, <3>1
      <4>2. Selects(buf[1]) /\ buf[1].cmd = n
        BY <2>2, <4>1 DEF Selects
      <4>3. QED
        BY <1>6, <2>3, <3>1, <4>1, <4>2 DEF Known
    <3>2. CASE ~(k >= 8)
      <4>1. k \in 5..7 /\ k % 4 # 0 /\ packet = "I2C"
        BY <1>2, <1>3, <1>6, <1>8, <2>3, <3>2
      <4>2. QED
        BY <2>1, <2>3, <4>1
    <3>3. QED
      BY <3>1, <3>2
  <2>4. ASSUME packet # "SPI", WellSized(c)
        PROVE  \/ e.data = [cmd |-> n, at |-> IF packet = "I2C" THEN 1 ELSE 2]
               \/ k % 4 # 0 /\ e.data = Junk
    <3>1. CASE packet = "I2C"
      <4>1. HasSelector(c) /\ e.data = buf[1]
        BY <1>4, <2>1, <2>4, <3>1 DEF WellSized, HasSelector
      <4>2. QED
        BY <2>3, <2>4, <3>1, <4>1
    <3>2. CASE packet \in {"QPIX", "CTRL"}
      <4>1. c.bytes = 12 /\ e.data = buf[2] /\ size = 12
        BY <1>4, <1>6, <2>1, <2>4, <3>2 DEF WellSized
      <4>2. k \in 9..12
        BY <1>2, <1>3, <4>1
      <4>3. k = 12 \/ (k \in 9..11 /\ k % 4 # 0)
        BY <4>2
      <4>4. QED
        BY <2>1, <3>2, <4>1, <4>3
    <3>3. QED
      BY <1>1, <1>5, <2>4, <3>1, <3>2 DEF Packets, packet
  <2>5. ASSUME packet = "SPI", k = Len(flight), HasSelector(c)
        PROVE  e.data = [cmd |-> n, at |-> 1]
    <3>1. k >= 8
      <4>1. SUFFICES ASSUME ~(k >= 8) PROVE FALSE
        OBVIOUS
      <4>2. flight[1].at = 0 /\ flight[1].cmd = n
        BY <2>1
      <4>3. k \in 1..k /\ c.bytes >= 8
        BY <1>2, <2>5 DEF HasSelector
      <4>4. flight[k] = [cmd |-> n, at |-> k - 1]
        <5>1. k <= c.bytes
          BY <1>2, <2>2, <4>1, <4>3
        <5>2. TypeOK /\ StreamInv
          OBVIOUS
        <5>3. \A i \in 1..k : i <= c.bytes => flight[i] = [cmd |-> n, at |-> i - 1]
          BY <4>2, <5>2, CommandBytes
        <5>4. QED
          BY <4>3, <5>1, <5>3
      <4>5. MoreIn(flight[k])
        BY <1>2, <2>2, <4>1, <4>3, <4>4 DEF MoreIn
      <4>6. QED
        BY <1>2, <2>5, <4>5 DEF StreamInv
    <3>2. QED
      BY <1>4, <2>1, <2>5, <3>1
  <2>6. /\ e.head.cmd = n /\ IsHead(e.head) /\ e.packet = packet /\ e.select = buf[1]
        /\ e.whole = (k % 4 = 0)
    BY <1>4, <2>1
  <2> HIDE DEF n
  <2>7. Commanded(e)'
    <3>1. sent'[e.head.cmd] = c /\ e.head.cmd \in 1..Len(sent') /\ IsHead(e.head) /\ c.packet = e.packet
      BY <2>1, <2>6 DEF n
    <3>2. e.packet # "SPI" /\ HasSelector(c)
          => \/ e.select = [cmd |-> e.head.cmd, at |-> 1] /\ c.known
             \/ e.packet = "I2C" /\ ~e.whole /\ e.select = Junk
      BY <2>3, <2>6
    <3>3. e.packet # "SPI" /\ WellSized(c)
          => \/ e.data = [cmd |-> e.head.cmd, at |-> IF e.packet = "I2C" THEN 1 ELSE 2]
             \/ ~e.whole /\ e.data = Junk
      BY <2>4, <2>6
    <3>4. e.packet = "SPI" /\ inStep' /\ HasSelector(c) => e.data = [cmd |-> e.head.cmd, at |-> 1]
      BY <2>5, <2>6
    <3>5. QED
      BY <3>1, <3>2, <3>3, <3>4 DEF Commanded, IsHead, HasSelector, WellSized
  <2>8. QED
    BY <2>7
<1>9. QED
  BY <1>2, <1>7, <1>8

LEMMA CommandedStep ==
  Inv /\ CommandedInv /\ [Next]_vars => CommandedInv'
<1> SUFFICES ASSUME Inv, CommandedInv, [Next]_vars, ~chained' PROVE CommandedInv'
  BY DEF CommandedInv
<1>1. effects \in Seq(EffectType) /\ sent \in Seq(Commands)
  BY DEF Inv, TypeOK
<1>2. ASSUME NEW e, Commanded(e), inStep' => inStep,
             sent' = sent \/ \E c \in Commands : sent' = Append(sent, c)
      PROVE  Commanded(e)'
  <2>1. e.head.cmd \in 1..Len(sent)
    BY <1>2 DEF Commanded
  <2>2. e.head.cmd \in 1..Len(sent') /\ sent'[e.head.cmd] = sent[e.head.cmd]
    BY <1>1, <1>2, <2>1
  <2>3. QED
    BY <1>2, <2>2 DEF Commanded, IsHead, HasSelector, WellSized
<1>3. CASE /\ effects' = effects /\ (chained => chained') /\ (inStep' => inStep) /\ (tiny => tiny')
           /\ (sent' = sent \/ \E c \in Commands : sent' = Append(sent, c))
  <2>1. ASSUME NEW i \in DOMAIN effects
        PROVE  (effects[i].packet = "SPI" /\ tiny') \/ Commanded(effects[i])'
    <3>1. (effects[i].packet = "SPI" /\ tiny) \/ Commanded(effects[i])
      BY <1>3 DEF CommandedInv
    <3>2. QED
      BY <1>2, <1>3, <3>1
  <2>2. QED
    BY <1>3, <2>1 DEF CommandedInv, Commanded
<1>4. ASSUME NEW k \in 1..Len(flight), NEW j \in 1..k, Receive(k, j) PROVE CommandedInv'
  <2>1. /\ sent' = sent /\ inStep' = (inStep /\ k = Len(flight) /\ j = k)
        /\ chained' = (chained \/ j < k) /\ tiny' = (tiny \/ k < 4)
    BY <1>4 DEF Receive
  <2>2. CASE effects' = effects
    BY <1>3, <2>1, <2>2
  <2>3. ASSUME NEW luck \in Luck,
               rx' = Received(SubSeq(flight, 1, j), RecvSize(k)),
               Act(rx', RecvSize(k), luck, k % 4 = 0), effects' # effects
        PROVE  CommandedInv'
    <3> PICK buf : buf = rx'
      OBVIOUS
    <3> PICK e : e = Effect(buf, luck, k % 4 = 0)
      OBVIOUS
    <3>1. effects' = Append(effects, e) /\ Reply(buf, RecvSize(k), luck).verdict = "GOOD"
      BY <2>3 DEF Act
    <3>2. ~chained /\ j = k
      <4>1. ~(j < k) /\ ~chained
        BY <2>1, Zenon
      <4>2. QED
        BY <4>1 DEF Inv, TypeOK
    <3>3. (e.packet = "SPI" /\ tiny') \/ Commanded(e)'
      <4>1. inStep' = (inStep /\ k = Len(flight))
        BY <2>1, <3>2
      <4>2. buf = Received(SubSeq(flight, 1, k), RecvSize(k))
        BY <2>3, <3>2
      <4>3. QED
        BY <2>1, <3>1, <4>1, <4>2, ReceivedEffect
    <3>4. ASSUME NEW i \in DOMAIN effects'
          PROVE  (i \in DOMAIN effects /\ effects'[i] = effects[i]) \/ effects'[i] = e
      BY <1>1, <3>1
    <3>5. ASSUME NEW i \in DOMAIN effects', effects'[i] # e
          PROVE  /\ effects'[i] = effects[i]
                 /\ (effects[i].packet = "SPI" /\ tiny') \/ Commanded(effects[i])'
      <4>1. i \in DOMAIN effects /\ effects'[i] = effects[i]
        BY <3>4, <3>5
      <4>2. (effects[i].packet = "SPI" /\ tiny) \/ Commanded(effects[i])
        BY <3>2, <4>1 DEF CommandedInv
      <4>3. (effects[i].packet = "SPI" /\ tiny') \/ Commanded(effects[i])'
        <5>1. inStep' => inStep
          BY <2>1
        <5>2. CASE effects[i].packet = "SPI" /\ tiny
          BY <2>1, <5>2
        <5>3. CASE Commanded(effects[i])
          <6>1. PICK a : a = effects[i]
            OBVIOUS
          <6>2. Commanded(a)
            BY <5>3, <6>1 DEF Commanded
          <6>3. Commanded(a)'
            BY <1>2, <2>1, <5>1, <6>2
          <6>4. QED
            BY <2>1, <2>3, <4>1, <6>1, <6>3
        <5>4. QED
          BY <4>2, <5>2, <5>3
      <4>4. QED
        BY <4>1, <4>3
    <3>6. ASSUME NEW i \in DOMAIN effects'
          PROVE  \/ /\ effects'[i] = effects[i]
                    /\ (effects[i].packet = "SPI" /\ tiny') \/ Commanded(effects[i])'
                 \/ /\ effects'[i] = e
                    /\ (e.packet = "SPI" /\ tiny') \/ Commanded(e)'
      BY <3>3, <3>5
    <3>7. SUFFICES ASSUME NEW i \in DOMAIN effects'
                   PROVE  (effects'[i].packet = "SPI" /\ tiny') \/ Commanded(effects[i])'
      BY DEF CommandedInv, Commanded
    <3>8. CASE effects'[i] = e /\ ((e.packet = "SPI" /\ tiny') \/ Commanded(e)')
      BY <3>8 DEF Commanded
    <3>9. QED
      BY <3>6, <3>8
  <2>4. QED
    BY <1>4, <2>2, <2>3 DEF Receive, cmdVars
<1>5. CASE \E c \in Commands : Send(c)
  <2>1. PICK c \in Commands : Send(c)
    BY <1>5
  <2>2. /\ effects' = effects /\ chained' = chained /\ tiny' = tiny /\ (inStep' => inStep)
        /\ sent' = Append(sent, c)
    BY <2>1 DEF Send, cmdVars
  <2>3. QED
    BY <1>3, <2>2
<1>6. CASE UNCHANGED <<effects, chained, tiny, inStep, sent>>
  BY <1>3, <1>6
<1>7. QED
  BY <1>4, <1>5, <1>6 DEF Next, ReceiveSome, ReceiveClose, Accept, MainLoop, SpinEnds, CallFast,
     ClearFast, CallSlow, ClearSlow, NoFrame, Nothing, TimerCallback, Handler, Acknowledge,
     vars, netVars, cmdVars

(* At whatever byte TCP cuts the stream, a register is written and an I2C   *)
(* transfer started only for the command whose packet code leads the        *)
(* segment, with its selector and data as far as they were received: only a *)
(* segment that ends inside a quadlet has its last word completed by memory *)
(* past it.  An SPI word is that of its command while each segment is one   *)
(* command (helper.c:15-118, ethControl.c:141-146).                         *)
THEOREM EffectsAreCommandedHolds == Spec => []EffectsAreCommanded
<1>1. Init => CommandedInv
  BY DEF Init, CommandedInv
<1>2. CommandedInv /\ StepInv => EffectsAreCommanded
  <2>1. SUFFICES ASSUME CommandedInv, StepInv, ~chained, NEW i \in DOMAIN effects
                 PROVE  \/ effects[i].packet = "SPI" /\ tiny /\ ~inStep
                        \/ Commanded(effects[i])
    BY DEF EffectsAreCommanded, Commanded
  <2>2. QED
    BY <2>1 DEF CommandedInv, StepInv
<1>3. QED
  BY InvHolds, StepHolds, CommandedStep, <1>1, <1>2, PTL DEF Spec

-----------------------------------------------------------------------------
(* Answers are whole quadlets, and so is what is left of a send buffer that *)
(* began with whole quadlets.                                               *)
RoomInv ==
  /\ free % 4 = 0
  /\ \A i \in 1..Len(answers) : answers[i].bytes % 4 = 0
  /\ pending.bytes % 4 = 0
  /\ ~chained /\ ~tiny => "room" \notin refused /\ (pc = "spin" => pending.bytes <= free)

LEMMA QuadletSums ==
  ASSUME NEW a \in Nat, NEW b \in Nat, a % 4 = 0, b % 4 = 0
  PROVE  (a + b) % 4 = 0 /\ (b <= a => (a - b) % 4 = 0)
<1>1. PICK m \in Nat : a = 4 * m
  BY a = 4 * (a \div 4), a \div 4 \in Nat
<1>2. PICK n \in Nat : b = 4 * n
  BY b = 4 * (b \div 4), b \div 4 \in Nat
<1>3. a + b = 4 * (m + n) /\ a - b = 4 * (m - n)
  BY <1>1, <1>2
<1>4. (4 * (m + n)) % 4 = 0 /\ (4 * (m - n)) % 4 = 0
  BY <1>1, <1>2
<1>5. QED
  BY <1>3, <1>4

(* Room for more than the segment is room for its answer. *)
LEMMA ReplyFits ==
  ASSUME Inv, RoomInv, NEW k \in 1..Len(flight), NEW luck, NEW buf, k >= 4, HasRoom(k)
  PROVE  Reply(buf, RecvSize(k), luck).bytes <= free
<1>1. k \in Nat /\ free \in Nat /\ free % 4 = 0 /\ free > k
  BY BuffersAssumption DEF Inv, TypeOK, RoomInv, HasRoom
<1>2. RecvSize(k) <= free /\ 8 <= free
  BY <1>1 DEF RecvSize
<1>3. QED
  BY <1>2 DEF Reply

LEMMA ReplyQuadlets ==
  ASSUME NEW k \in Nat \ {0}, NEW luck, NEW buf
  PROVE  Reply(buf, RecvSize(k), luck).bytes \in Nat /\ Reply(buf, RecvSize(k), luck).bytes % 4 = 0
<1>1. RecvSize(k) \in Nat /\ RecvSize(k) % 4 = 0
  BY SizeType
<1>2. QED
  BY <1>1 DEF Reply

LEMMA WriteRoom ==
  ASSUME Inv, RoomInv, NEW answer, TcpWrite(answer), answer.bytes \in Nat, answer.bytes % 4 = 0
  PROVE  /\ free' % 4 = 0
         /\ \A i \in 1..Len(answers') : answers'[i].bytes % 4 = 0
         /\ answer.bytes <= free /\ "room" \notin refused => "room" \notin refused'
<1>1. free \in Nat /\ answers \in Seq(Answer) /\ Len(answers) \in Nat
  BY BuffersAssumption DEF Inv, TypeOK
<1>2. CASE /\ answer.bytes <= free /\ answers' = Append(answers, answer)
           /\ free' = free - answer.bytes /\ refused' = refused
  <2>1. Len(answers') = Len(answers) + 1
    BY <1>1, <1>2
  <2>2. ASSUME NEW i \in 1..Len(answers') PROVE answers'[i] = IF i <= Len(answers) THEN answers[i] ELSE answer
    BY <1>1, <1>2, <2>1
  <2>3. free' % 4 = 0
    BY <1>1, <1>2, QuadletSums DEF RoomInv
  <2>4. QED
    BY <1>1, <1>2, <2>1, <2>2, <2>3 DEF RoomInv
<1>3. CASE /\ refused' = refused \cup {IF answer.bytes <= free THEN "memory" ELSE "room"}
           /\ UNCHANGED <<answers, free>>
  BY <1>1, <1>3 DEF RoomInv
<1>4. QED
  BY <1>2, <1>3 DEF TcpWrite

LEMMA RoomStep == Inv /\ RoomInv /\ [Next]_vars => RoomInv'
<1> SUFFICES ASSUME Inv, RoomInv, [Next]_vars PROVE RoomInv'
  OBVIOUS
<1>1. free \in Nat /\ answers \in Seq(Answer) /\ Len(answers) \in Nat
  BY BuffersAssumption DEF Inv, TypeOK
<1>2. ASSUME NEW k \in 1..Len(flight), NEW j \in 1..k, Receive(k, j) PROVE RoomInv'
  <2>1. pc = "input" /\ chained' = (chained \/ j < k) /\ tiny' = (tiny \/ k < 4)
        /\ k \in Nat \ {0}
    BY <1>2 DEF Inv, TypeOK, Receive
  <2>2. CASE pc' = "fast" /\ UNCHANGED cmdVars
    BY <2>1, <2>2 DEF RoomInv, cmdVars
  <2>3. ASSUME NEW luck \in Luck, HasRoom(j), Act(rx', RecvSize(k), luck, k % 4 = 0)
        PROVE  RoomInv'
    <3> PICK buf : buf = rx'
      OBVIOUS
    <3> PICK reply : reply = Reply(buf, RecvSize(k), luck)
      OBVIOUS
    <3>1. reply.bytes \in Nat /\ reply.bytes % 4 = 0
      BY <2>1, <2>3, ReplyQuadlets
    <3>2. ASSUME ~chained', ~tiny' PROVE "room" \notin refused /\ reply.bytes <= free
      <4>1. ~(j < k) /\ ~chained /\ ~(k < 4) /\ ~tiny
        BY <2>1, <3>2, Zenon
      <4>2. j = k /\ k >= 4
        BY <2>1, <4>1 DEF Inv, TypeOK
      <4>3. reply.bytes <= free
        BY <2>3, <4>2, ReplyFits
      <4>4. QED
        BY <4>1, <4>3 DEF RoomInv
    <3>3. CASE pending' = reply /\ pc' = "spin" /\ UNCHANGED <<free, answers, refused>>
      BY <3>1, <3>2, <3>3 DEF RoomInv
    <3>4. CASE TcpWrite(reply) /\ pc' = "fast" /\ pending' = pending
      <4>1. /\ free' % 4 = 0
            /\ \A i \in 1..Len(answers') : answers'[i].bytes % 4 = 0
            /\ reply.bytes <= free /\ "room" \notin refused => "room" \notin refused'
        BY <3>1, <3>4, WriteRoom
      <4>2. QED
        BY <3>2, <3>4, <4>1 DEF RoomInv
    <3>5. QED
      BY <2>3, <3>3, <3>4 DEF Act
  <2>4. QED
    BY <1>2, <2>2, <2>3 DEF Receive
<1>3. CASE SpinEnds
  <2>1. pc = "spin" /\ TcpWrite(pending) /\ pc' = "fast" /\ pending' = pending
        /\ chained' = chained /\ tiny' = tiny
    BY <1>3 DEF SpinEnds, netVars
  <2>2. pending.bytes \in Nat /\ pending.bytes % 4 = 0
    BY DEF Inv, TypeOK, Answer, RoomInv
  <2>3. /\ free' % 4 = 0
        /\ \A i \in 1..Len(answers') : answers'[i].bytes % 4 = 0
        /\ pending.bytes <= free /\ "room" \notin refused => "room" \notin refused'
    BY <2>1, <2>2, WriteRoom
  <2>4. QED
    BY <2>1, <2>3 DEF RoomInv
<1>4. CASE Accept
  BY <1>4, BuffersAssumption DEF Accept, RoomInv
<1>5. CASE Acknowledge
  <2>1. /\ acked + 1 \in 1..Len(answers) /\ free' = free + answers[acked + 1].bytes
        /\ UNCHANGED <<answers, pending, refused, pc, chained, tiny>>
    BY <1>1, <1>5 DEF Acknowledge, Inv, TypeOK
  <2>2. answers[acked + 1].bytes \in Nat /\ answers[acked + 1].bytes % 4 = 0
    <3>1. answers[acked + 1] \in Answer
      BY <1>1, <2>1
    <3>2. QED
      BY <2>1, <3>1 DEF Answer, RoomInv
  <2>3. free' % 4 = 0 /\ free' >= free /\ free' \in Nat
    <3>1. free \in Nat /\ free % 4 = 0
      BY <1>1 DEF RoomInv
    <3>2. (free + answers[acked + 1].bytes) % 4 = 0
      BY <2>2, <3>1, QuadletSums
    <3>3. QED
      BY <2>1, <2>2, <3>1, <3>2
  <2>4. pending.bytes \in Nat
    BY DEF Inv, TypeOK, Answer
  <2>5. QED
    BY <1>1, <2>1, <2>3, <2>4 DEF RoomInv
<1>6. CASE UNCHANGED <<cmdVars, chained, tiny>> /\ (pc' = "spin" => pc = "spin")
  BY <1>6 DEF RoomInv, cmdVars
<1>7. CASE CallFast \/ ClearFast \/ CallSlow \/ ClearSlow \/ NoFrame \/ ReceiveClose
  BY <1>6, <1>7 DEF CallFast, ClearFast, CallSlow, ClearSlow, NoFrame, ReceiveClose, Nothing, netVars
<1>8. CASE TimerCallback \/ Handler \/ (\E c \in Commands : Send(c)) \/ UNCHANGED vars
  BY <1>6, <1>8 DEF TimerCallback, Handler, Send, vars, netVars
<1>9. QED
  BY <1>2, <1>3, <1>4, <1>5, <1>7, <1>8 DEF Next, ReceiveSome, MainLoop

(* Where recv_callback found room for more than the segment, which held a   *)
(* quadlet at least, an answer that is longer than it still fits            *)
(* (ethControl.c:118-148), also when acknowledgements and an I2C transfer   *)
(* come between.                                                            *)
THEOREM AnswerHasRoomHolds == Spec => []AnswerHasRoom
<1>1. Init => RoomInv
  BY BuffersAssumption DEF Init, RoomInv, NoAnswer
<1>2. RoomInv => AnswerHasRoom
  BY DEF RoomInv, AnswerHasRoom
<1>3. QED
  BY <1>1, <1>2, RoomStep, InvHolds, PTL DEF Spec

-----------------------------------------------------------------------------
(* A transfer is under way only while IicSend spins on it, with both flags  *)
(* down.                                                                    *)
SpinInv ==
  /\ bus \in {"idle", "busy"}
  /\ bus = "busy" => pc = "spin" /\ ~sendComplete /\ ~errors

LEMMA ActStep ==
  ASSUME NEW buf, NEW size, NEW luck, NEW whole, Act(buf, size, luck, whole), bus = "idle"
  PROVE  SpinInv'
<1>1. CASE pc' = "spin" /\ StartSend
  BY <1>1 DEF StartSend, SpinInv
<1>2. CASE UNCHANGED iicVars
  BY <1>2 DEF iicVars, SpinInv
<1> QED
  BY <1>1, <1>2 DEF Act

LEMMA SpinStep == SpinInv /\ [Next]_vars => SpinInv'
<1> SUFFICES ASSUME SpinInv, [Next]_vars PROVE SpinInv'
  OBVIOUS
<1>1. CASE ReceiveSome
  <2>1. PICK k, j : Receive(k, j)
    BY <1>1 DEF ReceiveSome
  <2>2. bus = "idle"
    BY <2>1 DEF Receive, SpinInv
  <2>3. CASE UNCHANGED iicVars
    BY <2>2, <2>3 DEF iicVars, SpinInv
  <2>4. CASE \E size, luck, whole : Act(rx', size, luck, whole)
    BY <2>2, <2>4, ActStep
  <2> QED
    BY <2>1, <2>3, <2>4 DEF Receive
<1>2. CASE SpinEnds
  BY <1>2 DEF SpinEnds, SendOver, SpinInv, iicVars
<1>3. CASE Handler
  BY <1>3 DEF Handler, SpinInv
<1>4. CASE UNCHANGED <<iicVars, pc>>
  BY <1>4 DEF iicVars, SpinInv
<1>5. CASE pc # "spin" /\ UNCHANGED iicVars
  BY <1>5 DEF iicVars, SpinInv
<1>6. CASE MainLoop /\ ~SpinEnds
  BY <1>6, <1>5 DEF MainLoop, CallFast, ClearFast, CallSlow, ClearSlow, NoFrame, Nothing
<1>7. CASE ReceiveClose \/ Accept
  BY <1>7, <1>5 DEF ReceiveClose, Accept
<1>8. CASE TimerCallback \/ (\E c \in Commands : Send(c)) \/ Acknowledge
  BY <1>8, <1>4 DEF TimerCallback, Send, Acknowledge
<1>9. CASE UNCHANGED vars
  BY <1>9, <1>4 DEF vars
<1> QED
  BY <1>1, <1>2, <1>3, <1>6, <1>7, <1>8, <1>9 DEF Next

(* IicSend returns when its own transfer is over: nothing it finds set was  *)
(* left by an earlier one, and no second transfer starts meanwhile          *)
(* (iic_ctrl.c:108-120).                                                    *)
THEOREM SpinEndsWithTransferHolds == Spec => SpinEndsWithTransfer
<1>1. Init => SpinInv
  BY DEF Init, SpinInv
<1>2. SpinInv /\ [Next]_vars => [pc = "spin" /\ pc' # "spin" => bus = "idle"]_vars
  <2> SUFFICES ASSUME SpinInv, Next, pc = "spin", pc' # "spin"
               PROVE  bus = "idle"
    OBVIOUS
  <2>1. SpinEnds
    BY DEF Next, ReceiveSome, Receive, ReceiveClose, Accept, MainLoop, CallFast, ClearFast,
           CallSlow, ClearSlow, NoFrame, TimerCallback, Handler, Send, Acknowledge
  <2> QED
    BY <2>1 DEF SpinEnds, SendOver, SpinInv
<1> QED
  BY <1>1, <1>2, SpinStep, PTL DEF Spec, SpinEndsWithTransfer
=============================================================================
