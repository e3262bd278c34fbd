--------------------------- MODULE Ps7BootProofs ---------------------------
(***************************************************************************)
(* Proofs about the start-up of the processing system, for every silicon    *)
(* version, poll limit, delay and number of calls, whether PLLs, DCI and    *)
(* DDR controller ever answer or not.                                       *)
(*                                                                          *)
(* The tables are data, put together from pieces.  The first part turns     *)
(* each into its shape, a few facts about the operation at a position; the  *)
(* second follows the interpreter through a table of that shape.            *)
(***************************************************************************)
EXTENDS Ps7Boot, SequenceTheorems, TLAPS

(* The operations of a table.  Every table is a list of its own operations. *)
Items(s) == {s[k] : k \in DOMAIN s}
Listed(s) == s \in Seq(Items(s))

LEMMA ListedIn == ASSUME NEW S, NEW s \in Seq(S) PROVE Listed(s)
<1>1. s \in [1..Len(s) -> S] /\ Len(s) \in Nat
  OBVIOUS
<1>2. s \in [1..Len(s) -> Items(s)]
  BY <1>1 DEF Items
<1> QED
  BY <1>1, <1>2, SeqDef DEF Listed

LEMMA ListedLen ==
  ASSUME NEW s, Listed(s)
  PROVE  /\ Len(s) \in Nat /\ DOMAIN s = 1..Len(s)
         /\ Items(s) = {s[k] : k \in 1..Len(s)}
  BY DEF Listed, Items

(* What is at a position of two tables run one after the other. *)
LEMMA Joined ==
  ASSUME NEW s, NEW t, Listed(s), Listed(t)
  PROVE  /\ Listed(s \o t) /\ Len(s \o t) = Len(s) + Len(t)
         /\ \A k \in 1..Len(s) : (s \o t)[k] = s[k]
         /\ \A k \in 1..Len(t) : (s \o t)[Len(s) + k] = t[k]
         /\ \A k \in 1..Len(s \o t) : k > Len(s) => (s \o t)[k] = t[k - Len(s)]
<1> DEFINE S == Items(s) \cup Items(t)
<1>1. s \in Seq(S) /\ t \in Seq(S)
  BY SeqMonotonic DEF Listed
<1> HIDE DEF S
<1>2. Len(s) \in Nat /\ Len(t) \in Nat
  BY <1>1
<1>3. /\ s \o t \in Seq(S) /\ Len(s \o t) = Len(s) + Len(t)
      /\ \A k \in 1..Len(s) + Len(t) :
           (s \o t)[k] = IF k <= Len(s) THEN s[k] ELSE t[k - Len(s)]
  BY <1>1, ConcatProperties
<1>4. Listed(s \o t)
  BY <1>3, ListedIn
<1> QED
  BY <1>2, <1>3, <1>4

(* The operations of a concatenation, of a table made of one kind of       *)
(* operation, and of a run of pins.                                        *)
LEMMA ItemsJoined ==
  ASSUME NEW s, NEW t, Listed(s), Listed(t)
  PROVE  Items(s \o t) = Items(s) \cup Items(t)
<1>1. /\ Listed(s \o t) /\ Len(s \o t) = Len(s) + Len(t)
      /\ \A k \in 1..Len(s) : (s \o t)[k] = s[k]
      /\ \A k \in 1..Len(t) : (s \o t)[Len(s) + k] = t[k]
      /\ \A k \in 1..Len(s \o t) : k > Len(s) => (s \o t)[k] = t[k - Len(s)]
  BY Joined
<1>2. /\ Len(s) \in Nat /\ Items(s) = {s[k] : k \in 1..Len(s)}
      /\ Len(t) \in Nat /\ Items(t) = {t[k] : k \in 1..Len(t)}
      /\ Items(s \o t) = {(s \o t)[k] : k \in 1..Len(s \o t)}
  BY <1>1, ListedLen
<1> DEFINE u == s \o t
<1> HIDE DEF u
<1>3. ASSUME NEW o \in Items(u) PROVE o \in Items(s) \cup Items(t)
  <2>1. PICK k \in 1..Len(u) : o = u[k]
    BY <1>2, <1>3 DEF u
  <2>2. CASE k <= Len(s)
    BY <2>1, <2>2, <1>1, <1>2 DEF u
  <2>3. CASE k > Len(s)
    BY <2>1, <2>3, <1>1, <1>2 DEF u
  <2> QED
    BY <2>1, <2>2, <2>3, <1>2
<1>4. ASSUME NEW o \in Items(s) PROVE o \in Items(u)
  <2>1. PICK k \in 1..Len(s) : o = s[k]
    BY <1>2
  <2>2. k \in 1..Len(u) /\ u[k] = o
    BY <2>1, <1>1, <1>2 DEF u
  <2> QED
    BY <2>2, <1>2 DEF u
<1>5. ASSUME NEW o \in Items(t) PROVE o \in Items(u)
  <2>1. PICK k \in 1..Len(t) : o = t[k]
    BY <1>2
  <2>2. Len(s) + k \in 1..Len(u) /\ u[Len(s) + k] = o
    BY <2>1, <1>1, <1>2 DEF u
  <2> QED
    BY <2>2, <1>2 DEF u
<1> QED
  BY <1>3, <1>4, <1>5 DEF u

LEMMA EachListed ==
  ASSUME NEW u, NEW fields, Listed(fields)
  PROVE  /\ Listed(V30!Each(u, fields)) /\ Len(V30!Each(u, fields)) = Len(fields)
         /\ \A k \in 1..Len(fields) :
              V30!Each(u, fields)[k] = V30!MaskWrite(u, fields[k], "set")
<1> DEFINE s == [k \in 1..Len(fields) |-> V30!MaskWrite(u, fields[k], "set")]
           S == {V30!MaskWrite(u, fields[k], "set") : k \in 1..Len(fields)}
<1>1. Len(fields) \in Nat /\ DOMAIN fields = 1..Len(fields)
  BY ListedLen
<1>2. V30!Each(u, fields) = s
  BY <1>1 DEF V30!Each
<1>3. s \in Seq(S) /\ Len(s) = Len(fields)
  BY <1>1
<1>4. Listed(s)
  BY <1>3, ListedIn
<1> QED
  BY <1>2, <1>3, <1>4

LEMMA PinsListed ==
  ASSUME NEW a \in Nat, NEW b \in Nat, NEW n \in Nat, b + 1 - a = n, NEW x
  PROVE  /\ Listed(V30!Pins(a, b, x)) /\ Len(V30!Pins(a, b, x)) = n
         /\ \A k \in 1..n : V30!Pins(a, b, x)[k] = V30!MaskWrite("mio", a + k - 1, x)
<1> DEFINE s == [k \in 1..n |-> V30!MaskWrite("mio", a + k - 1, x)]
           S == {V30!MaskWrite("mio", a + k - 1, x) : k \in 1..n}
<1>1. V30!Pins(a, b, x) = s
  BY DEF V30!Pins
<1>2. s \in [1..n -> S]
  OBVIOUS
<1>3. s \in Seq(S) /\ Len(s) = n
  <2> HIDE DEF s, S
  <2> QED
    BY <1>2, SeqDef
<1>4. Listed(s)
  BY <1>3, ListedIn
<1> QED
  BY <1>1, <1>3, <1>4

-----------------------------------------------------------------------------
(* A table being put together: it opens the SLCR and then does its body.   *)
Opened(s) == Listed(s) /\ Len(s) > 0 /\ s[1] = V30!Unlock
Body(s) == {s[k] : k \in 2..Len(s)}

LEMMA Opening == Opened(<<V30!Unlock>>) /\ Body(<<V30!Unlock>>) = {}
<1>1. Listed(<<V30!Unlock>>)
  BY DEF Listed, Items
<1> QED
  BY <1>1 DEF Opened, Body

LEMMA OpenedJoined ==
  ASSUME NEW s, NEW t, Opened(s), Listed(t)
  PROVE  Opened(s \o t) /\ Body(s \o t) = Body(s) \cup Items(t)
<1>1. /\ Listed(s \o t) /\ Len(s \o t) = Len(s) + Len(t)
      /\ \A k \in 1..Len(s) : (s \o t)[k] = s[k]
      /\ \A k \in 1..Len(t) : (s \o t)[Len(s) + k] = t[k]
      /\ \A k \in 1..Len(s \o t) : k > Len(s) => (s \o t)[k] = t[k - Len(s)]
  BY Joined DEF Opened
<1>2. /\ Len(s) \in Nat /\ Len(s) > 0 /\ s[1] = V30!Unlock
      /\ Len(t) \in Nat /\ Items(t) = {t[k] : k \in 1..Len(t)}
  BY ListedLen DEF Opened
<1> DEFINE u == s \o t
<1> HIDE DEF u
<1>3. ASSUME NEW o \in Body(u) PROVE o \in Body(s) \cup Items(t)
  <2>1. PICK k \in 2..Len(u) : o = u[k]
    BY <1>3 DEF Body
  <2>2. CASE k <= Len(s)
    BY <2>1, <2>2, <1>1, <1>2 DEF u, Body
  <2>3. CASE k > Len(s)
    BY <2>1, <2>3, <1>1, <1>2 DEF u
  <2> QED
    BY <2>1, <2>2, <2>3, <1>2
<1>4. ASSUME NEW o \in Body(s) PROVE o \in Body(u)
  <2>1. PICK k \in 2..Len(s) : o = s[k]
    BY <1>4 DEF Body
  <2>2. k \in 2..Len(u) /\ u[k] = o
    BY <2>1, <1>1, <1>2 DEF u
  <2> QED
    BY <2>2 DEF Body
<1>5. ASSUME NEW o \in Items(t) PROVE o \in Body(u)
  <2>1. PICK k \in 1..Len(t) : o = t[k]
    BY <1>2
  <2>2. Len(s) + k \in 2..Len(u) /\ u[Len(s) + k] = o
    BY <2>1, <1>1, <1>2 DEF u
  <2> QED
    BY <2>2 DEF Body
<1>6. Opened(u)
  BY <1>1, <1>2 DEF Opened, u
<1> QED
  BY <1>3, <1>4, <1>5, <1>6 DEF u

LEMMA ItemsOfOne == ASSUME NEW a PROVE Items(<<a>>) = {a}
  BY DEF Items

LEMMA ItemsOfFour ==
  ASSUME NEW a, NEW b, NEW c, NEW d
  PROVE  Items(<<a, b, c, d>>) = {a, b, c, d}
<1>1. \A k \in 1..4 : k = 1 \/ k = 2 \/ k = 3 \/ k = 4
  OBVIOUS
<1> QED
  BY <1>1 DEF Items

LEMMA LiteralListed ==
  ASSUME NEW a, NEW b, NEW c, NEW d, NEW e, NEW f, NEW g, NEW h, NEW j
  PROVE  /\ Listed(<<a>>) /\ Listed(<<a, b>>) /\ Listed(<<a, b, c>>)
         /\ Listed(<<a, b, c, d>>) /\ Listed(<<a, b, c, d, e>>)
         /\ Listed(<<a, b, c, d, e, f>>) /\ Listed(<<a, b, c, d, e, f, g>>)
         /\ Listed(<<a, b, c, d, e, f, g, h, j>>)
  BY DEF Listed, Items

(* A table that opens the SLCR first and closes them at l. *)
Bracketed(s, l) ==
  /\ Listed(s) /\ l \in 2..Len(s) - 1
  /\ s[1] = V30!Unlock /\ s[l] = V30!Lock /\ s[Len(s)] = V30!Exit

LEMMA Closing ==
  ASSUME NEW s, Opened(s)
  PROVE  \E l \in Nat :
           LET t == s \o <<V30!Lock, V30!Exit>>
           IN  /\ Bracketed(t, l) /\ Len(t) = l + 1
               /\ \A k \in 2..l - 1 : t[k] \in Body(s)
               /\ \A o \in Body(s) : \E k \in 2..l - 1 : t[k] = o
<1> DEFINE e == <<V30!Lock, V30!Exit>>
           t == s \o e
<1>1. Listed(e) /\ Len(e) = 2 /\ e[1] = V30!Lock /\ e[2] = V30!Exit
  BY LiteralListed
<1>2. Listed(s) /\ Len(s) \in Nat /\ Len(s) > 0 /\ s[1] = V30!Unlock
  BY ListedLen DEF Opened
<1> HIDE DEF e
<1>3. /\ Listed(t) /\ Len(t) = Len(s) + Len(e)
      /\ \A k \in 1..Len(s) : t[k] = s[k]
      /\ \A k \in 1..Len(e) : t[Len(s) + k] = e[k]
  <2>1. Listed(s) /\ Listed(e)
    BY <1>1, <1>2
  <2> QED
    BY <2>1, Joined
<1> HIDE DEF t
<1>4. t[Len(s) + 1] = V30!Lock /\ t[Len(s) + 2] = V30!Exit /\ Len(t) = Len(s) + 2
  BY <1>1, <1>3
<1> DEFINE l == Len(s) + 1
<1>5. l \in Nat /\ Bracketed(t, l) /\ Len(t) = l + 1 /\ 2..l - 1 = 2..Len(s)
  BY <1>2, <1>3, <1>4 DEF Bracketed
<1>6. \A k \in 2..Len(s) : t[k] = s[k] /\ t[k] \in Body(s)
  BY <1>2, <1>3 DEF Body
<1>7. \A o \in Body(s) : \E k \in 2..Len(s) : t[k] = o
  BY <1>6 DEF Body
<1> HIDE DEF l
<1> QED
  BY <1>5, <1>6, <1>7 DEF t, e

-----------------------------------------------------------------------------
(* The pins come in order. *)
PinOp(n) == V30!MaskWrite("mio", n, BoardPin[n])
PinsTo(s, n) ==
  Listed(s) /\ Len(s) = n /\ \A k \in 1..n : s[k] = PinOp(k - 1)

LEMMA MorePins ==
  ASSUME NEW s, NEW a \in Nat, NEW b \in Nat, a <= b, NEW x, PinsTo(s, a),
         \A n \in a..b : BoardPin[n] = x
  PROVE  PinsTo(s \o V30!Pins(a, b, x), b + 1)
<1> DEFINE t == V30!Pins(a, b, x)
<1>1. PICK m \in Nat : m = b + 1 - a
  OBVIOUS
<1>5. /\ Listed(t) /\ Len(t) = m
      /\ \A k \in 1..m : t[k] = V30!MaskWrite("mio", a + k - 1, x)
  BY <1>1, PinsListed
<1> HIDE DEF t
<1>2. /\ Listed(s \o t) /\ Len(s \o t) = Len(s) + Len(t)
      /\ \A k \in 1..Len(s) : (s \o t)[k] = s[k]
      /\ \A k \in 1..Len(s \o t) : k > Len(s) => (s \o t)[k] = t[k - Len(s)]
  BY <1>5, Joined DEF PinsTo
<1>3. Len(s \o t) = b + 1
  BY <1>1, <1>2, <1>5 DEF PinsTo
<1> DEFINE u == s \o t
<1> HIDE DEF u
<1>4. ASSUME NEW k \in 1..b + 1 PROVE u[k] = PinOp(k - 1)
  <2>1. CASE k <= a
    BY <2>1, <1>2 DEF PinsTo, u
  <2>2. CASE k > a
    <3>1. u[k] = t[k - a]
      BY <2>2, <1>2, <1>3 DEF PinsTo, u
    <3>2. k - a \in 1..m /\ a + (k - a) - 1 = k - 1 /\ k - 1 \in a..b
      BY <2>2, <1>1
    <3>3. t[k - a] = V30!MaskWrite("mio", k - 1, x)
      BY <3>2, <1>5
    <3> QED
      BY <3>1, <3>2, <3>3 DEF PinOp
  <2> QED
    BY <2>1, <2>2
<1> QED
  BY <1>2, <1>3, <1>4 DEF PinsTo, t, u

LEMMA BoardPins ==
  /\ \A n \in 0..0 : BoardPin[n] = "gpio"
  /\ \A n \in 1..6 : BoardPin[n] = "qspi"
  /\ \A n \in 7..7 : BoardPin[n] = "gpio"
  /\ \A n \in 8..8 : BoardPin[n] = "qspi"
  /\ \A n \in 9..9 : BoardPin[n] = "gpio"
  /\ \A n \in 10..11 : BoardPin[n] = "uart0"
  /\ \A n \in 12..13 : BoardPin[n] = "i2c1"
  /\ \A n \in 14..15 : BoardPin[n] = "can0"
  /\ \A n \in 16..21 : BoardPin[n] = "enet0"
  /\ \A n \in 22..27 : BoardPin[n] = "enet0"
  /\ \A n \in 28..31 : BoardPin[n] = "usb0"
  /\ \A n \in 32..35 : BoardPin[n] = "usb0"
  /\ \A n \in 36..39 : BoardPin[n] = "usb0"
  /\ \A n \in 40..45 : BoardPin[n] = "sd0"
  /\ \A n \in 46..47 : BoardPin[n] = "sd0"
  /\ \A n \in 48..49 : BoardPin[n] = "uart1"
  /\ \A n \in 50..51 : BoardPin[n] = "gpio"
  /\ \A n \in 52..53 : BoardPin[n] = "enet0"
  BY DEF BoardPin

LEMMA PinTable == PinsTo(V30!PinInit, 54)
<1>1. PinsTo(V30!SparePin0, 1)
  <2>1. \A n \in 0..0 : BoardPin[n] = "gpio"
    BY BoardPins
  <2> QED
    <3>1. ASSUME NEW z \in Nat, z = 0, NEW n \in Nat, n = 1
          PROVE  PinsTo(V30!Pins(z, z, "gpio"), n)
      <4> DEFINE s == V30!Pins(z, z, "gpio")
      <4>1. z + 1 - z = n
        BY <3>1
      <4>2. /\ Listed(s) /\ Len(s) = n
            /\ \A k \in 1..n : s[k] = V30!MaskWrite("mio", z + k - 1, "gpio")
        BY <4>1, PinsListed
      <4> HIDE DEF s
      <4>3. \A k \in 1..n : z + k - 1 = k - 1 /\ k - 1 = 0
        BY <3>1
      <4>4. PinsTo(s, n)
        BY <2>1, <4>2, <4>3 DEF PinsTo, PinOp
      <4> QED
        BY <4>4 DEF s
    <3> QED
      BY <3>1 DEF V30!SparePin0
<1> DEFINE p7 == V30!SparePin0 \o V30!FlashPins
           p8 == p7 \o V30!SparePin7
           p9 == p8 \o V30!FlashClockPin
           p10 == p9 \o V30!SparePin9
           p12 == p10 \o V30!ConsolePins
           p14 == p12 \o V30!I2cPins
           p16 == p14 \o V30!CanPins
           p22 == p16 \o V30!EnetTxPins
           p28 == p22 \o V30!EnetRxPins
           p32 == p28 \o V30!UsbLinkPins
           p36 == p32 \o V30!UsbLowPins
           p40 == p36 \o V30!UsbHighPins
           p46 == p40 \o V30!CardPins
           p48 == p46 \o V30!CardSensePins
           p50 == p48 \o V30!UartPins
           p52 == p50 \o V30!GpioPins
           p54 == p52 \o V30!MdioPins
<1> HIDE DEF p7, p8, p9, p10, p12, p14, p16, p22, p28, p32, p36, p40, p46, p48, p50, p52, p54
<1>2. PinsTo(p7, 7)
  BY <1>1, BoardPins, MorePins DEF p7, V30!FlashPins
<1>3. PinsTo(p8, 8)
  BY <1>2, BoardPins, MorePins DEF p8, V30!SparePin7
<1>4. PinsTo(p9, 9)
  BY <1>3, BoardPins, MorePins DEF p9, V30!FlashClockPin
<1>5. PinsTo(p10, 10)
  BY <1>4, BoardPins, MorePins DEF p10, V30!SparePin9
<1>6. PinsTo(p12, 12)
  BY <1>5, BoardPins, MorePins DEF p12, V30!ConsolePins
<1>7. PinsTo(p14, 14)
  BY <1>6, BoardPins, MorePins DEF p14, V30!I2cPins
<1>8. PinsTo(p16, 16)
  BY <1>7, BoardPins, MorePins DEF p16, V30!CanPins
<1>9. PinsTo(p22, 22)
  BY <1>8, BoardPins, MorePins DEF p22, V30!EnetTxPins
<1>10. PinsTo(p28, 28)
  BY <1>9, BoardPins, MorePins DEF p28, V30!EnetRxPins
<1>11. PinsTo(p32, 32)
  BY <1>10, BoardPins, MorePins DEF p32, V30!UsbLinkPins
<1>12. PinsTo(p36, 36)
  BY <1>11, BoardPins, MorePins DEF p36, V30!UsbLowPins
<1>13. PinsTo(p40, 40)
  BY <1>12, BoardPins, MorePins DEF p40, V30!UsbHighPins
<1>14. PinsTo(p46, 46)
  BY <1>13, BoardPins, MorePins DEF p46, V30!CardPins
<1>15. PinsTo(p48, 48)
  BY <1>14, BoardPins, MorePins DEF p48, V30!CardSensePins
<1>16. PinsTo(p50, 50)
  BY <1>15, BoardPins, MorePins DEF p50, V30!UartPins
<1>17. PinsTo(p52, 52)
  BY <1>16, BoardPins, MorePins DEF p52, V30!GpioPins
<1>18. PinsTo(p54, 54)
  BY <1>17, BoardPins, MorePins DEF p54, V30!MdioPins
<1> QED
  BY <1>18 DEF V30!PinInit, p7, p8, p9, p10, p12, p14, p16, p22, p28, p32, p36, p40, p46, p48,
     p50, p52, p54

-----------------------------------------------------------------------------
(* An operation that writes; one that writes a given register.              *)
Writing(o) == o.op \in {"write", "maskwrite"}
Writes(o, u, f) == Writing(o) /\ o.unit = u /\ o.field = f

(* The pin table: pads, then every pin to its function, then the SD inputs,*)
(* all between opening and closing the SLCR.                               *)
MioWork(o) ==
  /\ o.op = "maskwrite"
  /\ o.unit \in {"ddriob", "dci", "sdio"} \/ \E n \in 0..53 : o = PinOp(n)

MioShape(s) ==
  \E l \in Nat : /\ Bracketed(s, l) /\ Len(s) = l + 1
                 /\ \A k \in 2..l - 1 : MioWork(s[k])
                 /\ \A n \in 0..53 : \E k \in 2..l - 1 : s[k] = PinOp(n)

(* Masked writes to given units. *)
Masked(s, U) == Listed(s) /\ \A o \in Items(s) : o.op = "maskwrite" /\ o.unit \in U

LEMMA EachMasked ==
  ASSUME NEW fields, Listed(fields), NEW U, NEW u \in U
  PROVE  /\ Masked(V30!Each(u, fields), U)
         /\ \A o \in Items(V30!Each(u, fields)) :
              \E f \in Items(fields) : o = V30!MaskWrite(u, f, "set")
<1> DEFINE s == V30!Each(u, fields)
<1>1. /\ Listed(s) /\ Len(s) = Len(fields)
      /\ \A k \in 1..Len(fields) : s[k] = V30!MaskWrite(u, fields[k], "set")
  BY EachListed
<1> HIDE DEF s
<1>2. Items(s) = {s[k] : k \in 1..Len(s)} /\ Items(fields) = {fields[k] : k \in 1..Len(fields)}
  BY <1>1, ListedLen
<1>3. \A o \in Items(s) : \E f \in Items(fields) : o = V30!MaskWrite(u, f, "set")
  BY <1>1, <1>2
<1>4. Masked(s, U)
  BY <1>1, <1>3 DEF Masked, V30!MaskWrite
<1> QED
  BY <1>3, <1>4 DEF s

LEMMA MaskedJoined ==
  ASSUME NEW s, NEW t, NEW U, Masked(s, U), Masked(t, U)
  PROVE  Masked(s \o t, U)
  BY Joined, ItemsJoined DEF Masked

LEMMA MioTable == MioShape(V30!MioInitData)
<1> DEFINE U == {"ddriob", "dci", "sdio"}
<1>1. Masked(V30!PadInit, U)
  <2>1. Masked(V30!AddressPads, U)
    BY LiteralListed, EachMasked DEF V30!AddressPads
  <2>2. Masked(V30!PadDrive, U)
    BY LiteralListed, EachMasked DEF V30!PadDrive
  <2>3. Masked(V30!DataPads, U)
    <3>1. Listed(V30!DataPads)
      BY LiteralListed DEF V30!DataPads
    <3>2. Items(V30!DataPads) =
          {V30!MaskWrite("ddriob", "data0", "on"),
           V30!MaskWrite("ddriob", "data1", "on"),
           V30!MaskWrite("ddriob", "diff0", "on"),
           V30!MaskWrite("ddriob", "diff1", "on")}
      BY ItemsOfFour DEF V30!DataPads
    <3> QED
      BY <3>1, <3>2 DEF Masked, V30!MaskWrite
  <2>4. Masked(V30!DciSetup, U)
    <3>1. Listed(V30!DciSetup)
      BY LiteralListed DEF V30!DciSetup
    <3>2. Items(V30!DciSetup) =
          {V30!MaskWrite("ddriob", "ctrl", "set"),
           V30!MaskWrite("dci", "reset", "on"),
           V30!MaskWrite("dci", "reset", "off"),
           V30!MaskWrite("dci", "enable", "on")}
      BY ItemsOfFour DEF V30!DciSetup
    <3> QED
      BY <3>1, <3>2 DEF Masked, V30!MaskWrite
  <2> QED
    BY <2>1, <2>2, <2>3, <2>4, MaskedJoined DEF V30!PadInit
<1>2. Masked(V30!CardSense, U)
  <2>1. Listed(V30!CardSense)
    BY LiteralListed DEF V30!CardSense
  <2>2. Items(V30!CardSense) =
        {V30!MaskWrite("sdio", "wp_cd", "set")}
    BY ItemsOfOne DEF V30!CardSense
  <2> QED
    BY <2>1, <2>2 DEF Masked, V30!MaskWrite
<1> DEFINE s1 == <<V30!Unlock>> \o V30!PadInit
           s2 == s1 \o V30!PinInit
           s3 == s2 \o V30!CardSense
<1> HIDE DEF s1, s2, s3
<1>3. Opened(s1) /\ Body(s1) = Items(V30!PadInit)
  BY <1>1, Opening, OpenedJoined DEF s1, Masked
<1>4. Opened(s2) /\ Body(s2) = Body(s1) \cup Items(V30!PinInit)
  BY <1>3, PinTable, OpenedJoined DEF s2, PinsTo
<1>5. Opened(s3) /\ Body(s3) = Body(s2) \cup Items(V30!CardSense)
  BY <1>2, <1>4, OpenedJoined DEF s3, Masked
<1>6. Items(V30!PinInit) = {PinOp(n) : n \in 0..53}
  <2>1. Items(V30!PinInit) = {V30!PinInit[k] : k \in 1..54}
    <3> DEFINE t == V30!PinInit
    <3>1. Listed(t) /\ Len(t) = 54
      BY PinTable DEF PinsTo
    <3> HIDE DEF t
    <3>2. DOMAIN t = 1..54
      BY <3>1, ListedLen
    <3>3. Items(t) = {t[k] : k \in 1..54}
      BY <3>2 DEF Items
    <3> QED
      BY <3>3 DEF t
  <2>2. \A k \in 1..54 : V30!PinInit[k] = PinOp(k - 1) /\ k - 1 \in 0..53
    BY PinTable DEF PinsTo
  <2>3. \A n \in 0..53 : n + 1 \in 1..54 /\ V30!PinInit[n + 1] = PinOp(n)
    <3>1. \A n \in 0..53 : n + 1 \in 1..54 /\ n + 1 - 1 = n
      OBVIOUS
    <3> QED
      BY <2>2, <3>1
  <2> QED
    BY <2>1, <2>2, <2>3
<1>7. \A o \in Body(s3) : MioWork(o)
  BY <1>1, <1>2, <1>3, <1>4, <1>5, <1>6 DEF Masked, MioWork, PinOp, V30!MaskWrite
<1>8. \A n \in 0..53 : PinOp(n) \in Body(s3)
  BY <1>4, <1>5, <1>6
<1> DEFINE s == s3 \o <<V30!Lock, V30!Exit>>
<1>9. PICK l \in Nat : /\ Bracketed(s, l) /\ Len(s) = l + 1
                       /\ \A k \in 2..l - 1 : s[k] \in Body(s3)
                       /\ \A o \in Body(s3) : \E k \in 2..l - 1 : s[k] = o
  BY <1>5, Closing
<1> HIDE DEF s
<1>10. MioShape(s)
  BY <1>7, <1>8, <1>9 DEF MioShape
<1> QED
  BY <1>10 DEF s, s1, s2, s3, V30!MioInitData

-----------------------------------------------------------------------------
(* The clock table leaves the DDR clock alone and gives the bus clock to   *)
(* these units.                                                            *)
AperUnits ==
  {"dma", "usb0", "usb1", "enet0", "sd0", "can0", "i2c0", "i2c1", "uart0", "uart1",
   "gpio", "qspi", "smc"}
AperOp == V30!MaskWrite("clk", "aper", AperUnits)

ClockWork(o) ==
  /\ o.op = "maskwrite" /\ o.unit \in {"clk", "fabric"}
  /\ o.field # "ddr" /\ (o.unit = "clk" /\ o.field = "aper" => o = AperOp)

ClockShape(s) ==
  \E l \in Nat : /\ Bracketed(s, l) /\ Len(s) = l + 1
                 /\ \A k \in 2..l - 1 : ClockWork(s[k])
                 /\ \E k \in 2..l - 1 : s[k] = AperOp

LEMMA ClockTable == ClockShape(V30!ClockInitData)
<1>1. Listed(V30!UnitClocks) /\ \A o \in Items(V30!UnitClocks) : ClockWork(o)
  <2>1. Listed(V30!UnitClocks)
    BY LiteralListed DEF V30!UnitClocks
  <2>2. \A o \in Items(V30!UnitClocks) :
          \E f \in {"dci", "gem0_rx", "gem0", "lqspi", "sdio", "uart", "can", "can_mio", "pcap"} :
            \E v : o = V30!MaskWrite("clk", f, v)
    <3>1. Items(V30!UnitClocks) = {V30!UnitClocks[k] : k \in 1..9}
      BY DEF Items, V30!UnitClocks
    <3>2. \A k \in 1..9 :
                      \/ k = 1 \/ k = 2 \/ k = 3 \/ k = 4 \/ k = 5
                      \/ k = 6 \/ k = 7 \/ k = 8 \/ k = 9
      OBVIOUS
    <3> QED
      BY <3>1, <3>2 DEF V30!UnitClocks
  <2> QED
    BY <2>1, <2>2 DEF ClockWork, V30!MaskWrite
<1>2. Listed(V30!FabricClocks) /\ \A o \in Items(V30!FabricClocks) : ClockWork(o)
  <2>1. \A o \in Items(<<"fclk0", "fclk1", "ratio">>) : o # "ddr"
    <3>1. \A k \in 1..3 : k = 1 \/ k = 2 \/ k = 3
      OBVIOUS
    <3> QED
      BY <3>1 DEF Items
  <2>2. /\ Masked(V30!FabricClocks, {"fabric"})
        /\ \A o \in Items(V30!FabricClocks) :
             \E f \in Items(<<"fclk0", "fclk1", "ratio">>) :
               o = V30!MaskWrite("fabric", f, "set")
    BY LiteralListed, EachMasked DEF V30!FabricClocks
  <2> QED
    BY <2>1, <2>2 DEF Masked, ClockWork, V30!MaskWrite
<1>3. Listed(V30!BusClocks) /\ Items(V30!BusClocks) = {AperOp}
  BY LiteralListed, ItemsOfOne DEF V30!BusClocks, AperOp, AperUnits
<1>4. ClockWork(AperOp)
  BY DEF ClockWork, AperOp, V30!MaskWrite
<1> DEFINE s1 == <<V30!Unlock>> \o V30!UnitClocks
           s2 == s1 \o V30!FabricClocks
           s3 == s2 \o V30!BusClocks
<1> HIDE DEF s1, s2, s3
<1>5. Opened(s1) /\ Body(s1) = Items(V30!UnitClocks)
  BY <1>1, Opening, OpenedJoined DEF s1
<1>6. Opened(s2) /\ Body(s2) = Body(s1) \cup Items(V30!FabricClocks)
  BY <1>2, <1>5, OpenedJoined DEF s2
<1>7. Opened(s3) /\ Body(s3) = Body(s2) \cup {AperOp}
  BY <1>3, <1>6, OpenedJoined DEF s3
<1>8. (\A o \in Body(s3) : ClockWork(o)) /\ AperOp \in Body(s3)
  BY <1>1, <1>2, <1>4, <1>5, <1>6, <1>7
<1> DEFINE s == s3 \o <<V30!Lock, V30!Exit>>
<1>9. PICK l \in Nat : /\ Bracketed(s, l) /\ Len(s) = l + 1
                       /\ \A k \in 2..l - 1 : s[k] \in Body(s3)
                       /\ \A o \in Body(s3) : \E k \in 2..l - 1 : s[k] = o
  BY <1>7, Closing
<1> HIDE DEF s
<1>10. ClockShape(s)
  BY <1>8, <1>9 DEF ClockShape
<1> QED
  BY <1>10 DEF s, s1, s2, s3, V30!ClockInitData

-----------------------------------------------------------------------------
(* The PLL table, position by position.                                     *)
SetupAt(s, a, p) == \A j \in 1..7 : s[a + j] = V30!PllSetup(p)[j]
ArmClockOp == V30!MaskWrite("clk", "arm", {"cpu"})
DdrClockOp == V30!MaskWrite("clk", "ddr", {"ddr"})

(* Three PLLs, each set up and locked before its bypass is taken away, the *)
(* clocks they feed in between (PllSetup).                                 *)
PllShape(s) ==
  /\ Bracketed(s, 25) /\ Len(s) = 26
  /\ SetupAt(s, 1, "armpll") /\ SetupAt(s, 9, "ddrpll") /\ SetupAt(s, 17, "iopll")
  /\ s[9] = ArmClockOp /\ s[17] = DdrClockOp

LEMMA SetupListed == ASSUME NEW p PROVE Listed(V30!PllSetup(p)) /\ Len(V30!PllSetup(p)) = 7
  BY LiteralListed DEF V30!PllSetup

(* A table with one more operation, with one more PLL. *)
LEMMA OneMore ==
  ASSUME NEW s, Listed(s), NEW o
  PROVE  /\ Listed(s \o <<o>>) /\ Len(s \o <<o>>) = Len(s) + 1 /\ Len(s) \in Nat
         /\ (s \o <<o>>)[Len(s) + 1] = o
         /\ \A k \in 1..Len(s) : (s \o <<o>>)[k] = s[k]
<1>1. Listed(<<o>>) /\ Len(<<o>>) = 1 /\ <<o>>[1] = o
  BY LiteralListed
<1>2. Len(s) \in Nat
  BY ListedLen
<1> QED
  BY <1>1, <1>2, Joined

LEMMA SetupJoined ==
  ASSUME NEW s, Listed(s), NEW p, NEW o
  PROVE  LET t == s \o (V30!PllSetup(p) \o <<o>>)
         IN  /\ Listed(t) /\ Len(t) = Len(s) + 8
             /\ \A k \in 1..Len(s) : t[k] = s[k]
             /\ SetupAt(t, Len(s), p) /\ t[Len(s) + 8] = o
<1> DEFINE r == V30!PllSetup(p) \o <<o>>
           t == s \o r
<1>1. Listed(V30!PllSetup(p)) /\ Len(V30!PllSetup(p)) = 7
  BY SetupListed
<1>2. /\ Listed(r) /\ Len(r) = 8 /\ r[8] = o
      /\ \A k \in 1..7 : r[k] = V30!PllSetup(p)[k]
  <2> DEFINE q == V30!PllSetup(p)
  <2> HIDE DEF q
  <2>1. Listed(q)
    BY <1>1 DEF q
  <2>2. /\ Listed(q \o <<o>>) /\ Len(q \o <<o>>) = Len(q) + 1 /\ Len(q) \in Nat
        /\ (q \o <<o>>)[Len(q) + 1] = o
        /\ \A k \in 1..Len(q) : (q \o <<o>>)[k] = q[k]
    BY <2>1, OneMore
  <2>3. /\ Listed(q \o <<o>>) /\ Len(q \o <<o>>) = 8 /\ (q \o <<o>>)[8] = o
        /\ \A k \in 1..7 : (q \o <<o>>)[k] = q[k]
    <3>1. Len(q) = 7
      BY <1>1 DEF q
    <3> QED
      BY <2>2, <3>1
  <2> QED
    BY <2>3 DEF q
<1> HIDE DEF r
<1>3. Listed(s) /\ Len(s) \in Nat
  BY ListedLen
<1>4. /\ Listed(t) /\ Len(t) = Len(s) + Len(r)
      /\ \A k \in 1..Len(s) : t[k] = s[k]
      /\ \A k \in 1..Len(r) : t[Len(s) + k] = r[k]
  <2>1. Listed(s) /\ Listed(r)
    BY <1>2, <1>3
  <2> QED
    BY <2>1, Joined
<1> HIDE DEF t
<1>5. SetupAt(t, Len(s), p)
  <2> DEFINE q == V30!PllSetup(p)
  <2>1. \A k \in 1..7 : r[k] = q[k]
    BY <1>2
  <2> HIDE DEF q
  <2>2. \A k \in 1..7 : t[Len(s) + k] = q[k]
    BY <1>2, <1>4, <2>1
  <2> QED
    BY <2>2 DEF SetupAt, q
<1>6. Len(t) = Len(s) + 8 /\ t[Len(s) + 8] = o
  BY <1>2, <1>4
<1> QED
  BY <1>4, <1>5, <1>6 DEF t, r

LEMMA PllTable == PllShape(V30!PllInitData)
<1> DEFINE s0 == <<V30!Unlock>>
           s1 == s0 \o V30!ArmPll
           s2 == s1 \o V30!DdrPll
           s3 == s2 \o V30!IoPll
           e == <<V30!Lock, V30!Exit>>
           s == s3 \o e
<1>1. Listed(s0) /\ Len(s0) = 1 /\ s0[1] = V30!Unlock
  BY LiteralListed
<1>2. Listed(e) /\ Len(e) = 2 /\ e[1] = V30!Lock /\ e[2] = V30!Exit
  BY LiteralListed
<1> HIDE DEF s0, e
<1>3. /\ Listed(s1) /\ Len(s1) = 9 /\ s1[1] = V30!Unlock
      /\ SetupAt(s1, 1, "armpll") /\ s1[9] = ArmClockOp
  <2>1. Listed(s0)
    BY <1>1
  <2>2. /\ Listed(s1) /\ Len(s1) = Len(s0) + 8
        /\ \A k \in 1..Len(s0) : s1[k] = s0[k]
        /\ SetupAt(s1, Len(s0), "armpll") /\ s1[Len(s0) + 8] = ArmClockOp
    <3>1. V30!ArmPll = V30!PllSetup("armpll") \o <<ArmClockOp>>
      BY DEF V30!ArmPll, ArmClockOp
    <3> QED
      BY <2>1, <3>1, SetupJoined
  <2> HIDE DEF s1
  <2> QED
    BY <1>1, <2>2
<1> HIDE DEF s1
<1>4. /\ Listed(s2) /\ Len(s2) = 17 /\ \A k \in 1..9 : s2[k] = s1[k]
      /\ SetupAt(s2, 9, "ddrpll") /\ s2[17] = DdrClockOp
  <2>1. Listed(s1)
    BY <1>3
  <2>2. /\ Listed(s2) /\ Len(s2) = Len(s1) + 8
        /\ \A k \in 1..Len(s1) : s2[k] = s1[k]
        /\ SetupAt(s2, Len(s1), "ddrpll") /\ s2[Len(s1) + 8] = DdrClockOp
    <3>1. V30!DdrPll = V30!PllSetup("ddrpll") \o <<DdrClockOp>>
      BY DEF V30!DdrPll, DdrClockOp
    <3> QED
      BY <2>1, <3>1, SetupJoined
  <2> HIDE DEF s2
  <2> QED
    BY <1>3, <2>2
<1> HIDE DEF s2
<1>5. /\ Listed(s3) /\ Len(s3) = 24 /\ \A k \in 1..17 : s3[k] = s2[k]
      /\ SetupAt(s3, 17, "iopll")
  <2> DEFINE q == V30!IoPll
  <2>1. Listed(s2) /\ Listed(q)
    BY <1>4, SetupListed DEF V30!IoPll
  <2> HIDE DEF q
  <2>2. /\ Listed(s3) /\ Len(s3) = Len(s2) + Len(q)
        /\ \A k \in 1..Len(s2) : s3[k] = s2[k]
        /\ \A k \in 1..Len(q) : s3[Len(s2) + k] = q[k]
    BY <2>1, Joined DEF q
  <2>3. Len(q) = 7 /\ q = V30!PllSetup("iopll")
    BY SetupListed DEF q, V30!IoPll
  <2> HIDE DEF s3
  <2> QED
    BY <1>4, <2>2, <2>3 DEF SetupAt
<1> HIDE DEF s3
<1>6. /\ Listed(s) /\ Len(s) = 26 /\ \A k \in 1..24 : s[k] = s3[k]
      /\ s[25] = V30!Lock /\ s[26] = V30!Exit
  <2>1. Listed(s3) /\ Listed(e)
    BY <1>2, <1>5
  <2>2. /\ Listed(s) /\ Len(s) = Len(s3) + Len(e)
        /\ \A k \in 1..Len(s3) : s[k] = s3[k]
        /\ \A k \in 1..Len(e) : s[Len(s3) + k] = e[k]
    BY <2>1, Joined
  <2> HIDE DEF s
  <2> QED
    BY <1>2, <1>5, <2>2
<1> HIDE DEF s
<1>7. \A k \in 1..17 : s[k] = s2[k]
  BY <1>5, <1>6
<1>8. \A k \in 1..9 : s[k] = s1[k]
  BY <1>4, <1>7
<1>9. Bracketed(s, 25)
  BY <1>3, <1>6, <1>8 DEF Bracketed
<1>10. SetupAt(s, 1, "armpll") /\ SetupAt(s, 9, "ddrpll") /\ SetupAt(s, 17, "iopll")
  BY <1>3, <1>4, <1>5, <1>6, <1>7, <1>8 DEF SetupAt
<1>11. s[9] = ArmClockOp /\ s[17] = DdrClockOp
  BY <1>3, <1>4, <1>7, <1>8
<1>12. PllShape(s)
  BY <1>6, <1>9, <1>10, <1>11 DEF PllShape
<1> QED
  BY <1>12 DEF s, s3, s2, s1, s0, e, V30!PllInitData

-----------------------------------------------------------------------------
(* The table of the DDR controller. *)
SetOp(f) == V30!MaskWrite("ddrc", f, "set")
SettingsOf(s, F) ==
  /\ Listed(s)
  /\ \A o \in Items(s) : \E f \in Nat \ {0} : o = SetOp(f)
  /\ \A f \in F : SetOp(f) \in Items(s)

LEMMA EachSettings ==
  ASSUME NEW fields, Listed(fields), Items(fields) \subseteq Nat \ {0}
  PROVE  SettingsOf(V30!Each("ddrc", fields), Items(fields))
<1> DEFINE s == V30!Each("ddrc", fields)
<1>1. /\ Listed(s) /\ Len(s) = Len(fields)
      /\ \A k \in 1..Len(fields) : s[k] = SetOp(fields[k])
  BY EachListed DEF SetOp
<1> HIDE DEF s
<1>2. Items(s) = {s[k] : k \in 1..Len(s)} /\ Items(fields) = {fields[k] : k \in 1..Len(fields)}
  BY <1>1, ListedLen
<1>3. \A o \in Items(s) : \E f \in Items(fields) : o = SetOp(f)
  BY <1>1, <1>2
<1>4. \A f \in Items(fields) : SetOp(f) \in Items(s)
  BY <1>1, <1>2
<1> QED
  BY <1>1, <1>3, <1>4 DEF SettingsOf, s

LEMMA SettingsJoined ==
  ASSUME NEW s, NEW t, NEW F, NEW G, SettingsOf(s, F), SettingsOf(t, G)
  PROVE  SettingsOf(s \o t, F \cup G)
  BY Joined, ItemsJoined DEF SettingsOf

LEMMA TwoSettings ==
  ASSUME NEW a \in Nat \ {0}, NEW b \in Nat \ {0}
  PROVE  SettingsOf(V30!Each("ddrc", <<a, b>>), {a, b})
<1>1. Items(<<a, b>>) = {a, b}
  <2>1. \A k \in 1..2 : k = 1 \/ k = 2
    OBVIOUS
  <2> QED
    BY <2>1 DEF Items
<1> QED
  BY <1>1, LiteralListed, EachSettings

LEMMA FourSettings ==
  ASSUME NEW a \in Nat \ {0}, NEW b \in Nat \ {0}, NEW c \in Nat \ {0}, NEW d \in Nat \ {0}
  PROVE  SettingsOf(V30!Each("ddrc", <<a, b, c, d>>), {a, b, c, d})
<1>1. Items(<<a, b, c, d>>) = {a, b, c, d}
  BY ItemsOfFour
<1> QED
  BY <1>1, LiteralListed, EachSettings

LEMMA FiveSettings ==
  ASSUME NEW a \in Nat \ {0}, NEW b \in Nat \ {0}, NEW c \in Nat \ {0}, NEW d \in Nat \ {0},
         NEW e \in Nat \ {0}
  PROVE  SettingsOf(V30!Each("ddrc", <<a, b, c, d, e>>), {a, b, c, d, e})
<1>1. Items(<<a, b, c, d, e>>) = {a, b, c, d, e}
  <2>1. \A k \in 1..5 : k = 1 \/ k = 2 \/ k = 3 \/ k = 4 \/ k = 5
    OBVIOUS
  <2> QED
    BY <2>1 DEF Items
<1> QED
  BY <1>1, LiteralListed, EachSettings

LEMMA SixSettings ==
  ASSUME NEW a \in Nat \ {0}, NEW b \in Nat \ {0}, NEW c \in Nat \ {0}, NEW d \in Nat \ {0},
         NEW e \in Nat \ {0}, NEW f \in Nat \ {0}
  PROVE  SettingsOf(V30!Each("ddrc", <<a, b, c, d, e, f>>), {a, b, c, d, e, f})
<1>1. Items(<<a, b, c, d, e, f>>) = {a, b, c, d, e, f}
  <2>1. \A k \in 1..6 : k = 1 \/ k = 2 \/ k = 3 \/ k = 4 \/ k = 5 \/ k = 6
    OBVIOUS
  <2> QED
    BY <2>1 DEF Items
<1> QED
  BY <1>1, LiteralListed, EachSettings

LEMMA SevenSettings ==
  ASSUME NEW a \in Nat \ {0}, NEW b \in Nat \ {0}, NEW c \in Nat \ {0}, NEW d \in Nat \ {0},
         NEW e \in Nat \ {0}, NEW f \in Nat \ {0}, NEW g \in Nat \ {0}
  PROVE  SettingsOf(V30!Each("ddrc", <<a, b, c, d, e, f, g>>), {a, b, c, d, e, f, g})
<1>1. Items(<<a, b, c, d, e, f, g>>) = {a, b, c, d, e, f, g}
  <2>1. \A k \in 1..7 : k = 1 \/ k = 2 \/ k = 3 \/ k = 4 \/ k = 5 \/ k = 6 \/ k = 7
    OBVIOUS
  <2> QED
    BY <2>1 DEF Items
<1> QED
  BY <1>1, LiteralListed, EachSettings

LEMMA SettingsLeft ==
  ASSUME NEW s, NEW t, NEW F, NEW G, SettingsOf(s, F), SettingsOf(t, G)
  PROVE  SettingsOf(s \o t, F)
  BY SettingsJoined DEF SettingsOf

(* The pieces of the DDR table that all silicon versions share. *)
LEMMA SharedSettings ==
  /\ SettingsOf(V30!DdrQueues, {\h4, \h8, \hC, \h10})
  /\ SettingsOf(V30!DdrTiming, {\h14, \h18, \h1C, \h20})
  /\ SettingsOf(V30!DdrModes, {\h24, \h28, \h2C, \h30, \h34})
  /\ SettingsOf(V30!DdrAddresses, {\h38, \h3C, \h40, \h44})
  /\ SettingsOf(V30!DdrOdt, {\h48, \h50, \h58, \h5C})
  /\ SettingsOf(V30!DdrEcc, {\hC4, \hC8, \hDC, \hF0, \hF4})
  /\ SettingsOf(V30!PhyLanes, {\h114, \h118, \h11C, \h120, \h124})
  /\ SettingsOf(V30!PhyRatios, {\h12C, \h130, \h134, \h138})
  /\ SettingsOf(V30!PhyReads, {\h140, \h144, \h148, \h14C})
  /\ SettingsOf(V30!PhyWrites, {\h154, \h158, \h15C, \h160})
  /\ SettingsOf(V30!PhyGates, {\h168, \h16C, \h170, \h174})
  /\ SettingsOf(V30!PhyWriteData, {\h17C, \h180, \h184, \h188})
  /\ SettingsOf(V30!PhyMode, {\h190, \h194})
  /\ SettingsOf(V30!WritePorts, {\h204, \h208, \h20C, \h210, \h214})
  /\ SettingsOf(V30!ReadPorts, {\h218, \h21C, \h220, \h224})
  /\ SettingsOf(V30!DdrStart, {\h2A8, \h2AC, \h2B0, \h2B4})
<1>1. SettingsOf(V30!DdrQueues, {\h4, \h8, \hC, \h10})
  BY FourSettings, SMTT(30) DEF V30!DdrQueues
<1>2. SettingsOf(V30!DdrTiming, {\h14, \h18, \h1C, \h20})
  BY FourSettings, SMTT(30) DEF V30!DdrTiming
<1>3. SettingsOf(V30!DdrModes, {\h24, \h28, \h2C, \h30, \h34})
  BY FiveSettings, SMTT(30) DEF V30!DdrModes
<1>4. SettingsOf(V30!DdrAddresses, {\h38, \h3C, \h40, \h44})
  BY FourSettings, SMTT(30) DEF V30!DdrAddresses
<1>5. SettingsOf(V30!DdrOdt, {\h48, \h50, \h58, \h5C})
  BY FourSettings, SMTT(30) DEF V30!DdrOdt
<1>6. SettingsOf(V30!DdrEcc, {\hC4, \hC8, \hDC, \hF0, \hF4})
  BY FiveSettings, SMTT(30) DEF V30!DdrEcc
<1>7. SettingsOf(V30!PhyLanes, {\h114, \h118, \h11C, \h120, \h124})
  BY FiveSettings, SMTT(30) DEF V30!PhyLanes
<1>8. SettingsOf(V30!PhyRatios, {\h12C, \h130, \h134, \h138})
  BY FourSettings, SMTT(30) DEF V30!PhyRatios
<1>9. SettingsOf(V30!PhyReads, {\h140, \h144, \h148, \h14C})
  BY FourSettings, SMTT(30) DEF V30!PhyReads
<1>10. SettingsOf(V30!PhyWrites, {\h154, \h158, \h15C, \h160})
  BY FourSettings, SMTT(30) DEF V30!PhyWrites
<1>11. SettingsOf(V30!PhyGates, {\h168, \h16C, \h170, \h174})
  BY FourSettings, SMTT(30) DEF V30!PhyGates
<1>12. SettingsOf(V30!PhyWriteData, {\h17C, \h180, \h184, \h188})
  BY FourSettings, SMTT(30) DEF V30!PhyWriteData
<1>13. SettingsOf(V30!PhyMode, {\h190, \h194})
  BY TwoSettings, SMTT(30) DEF V30!PhyMode
<1>14. SettingsOf(V30!WritePorts, {\h204, \h208, \h20C, \h210, \h214})
  BY FiveSettings, SMTT(30) DEF V30!WritePorts
<1>15. SettingsOf(V30!ReadPorts, {\h218, \h21C, \h220, \h224})
  BY FourSettings, SMTT(30) DEF V30!ReadPorts
<1>16. SettingsOf(V30!DdrStart, {\h2A8, \h2AC, \h2B0, \h2B4})
  BY FourSettings, SMTT(30) DEF V30!DdrStart
<1> QED
  BY <1>1, <1>2, <1>3, <1>4, <1>5, <1>6, <1>7, <1>8, <1>9, <1>10, <1>11, <1>12, <1>13, <1>14,
     <1>15, <1>16

LEMMA HeadSettings ==
  SettingsOf(V30!DdrQueues \o V30!DdrTiming \o V30!DdrModes \o V30!DdrAddresses
               \o V30!DdrOdt, {})
<1>1. SettingsOf(V30!DdrQueues, {})
  BY SharedSettings DEF SettingsOf
<1> QED
  BY <1>1, SharedSettings, SettingsLeft

(* The lane registers are among those of the PHY. *)
LanesSet ==
  {\h114, \h118, \h11C, \h120, \h124}
    \cup {\h12C, \h130, \h134, \h138}
    \cup {\h140, \h144, \h148, \h14C}
    \cup {\h154, \h158, \h15C, \h160}
    \cup {\h168, \h16C, \h170, \h174}
    \cup {\h17C, \h180, \h184, \h188}

LEMMA LanesCovered == LaneRegisters \subseteq LanesSet
<1>1. \A lane \in 0..3 : lane = 0 \/ lane = 1 \/ lane = 2 \/ lane = 3
  OBVIOUS
<1> QED
  BY <1>1 DEF LaneRegisters, LanesSet

(* What the tables write to the controller after the pieces that differ. *)
LEMMA TailSettings ==
  ASSUME NEW s, SettingsOf(s, {})
  PROVE  SettingsOf(s \o V30!DdrEcc \o V30!PhyLanes \o V30!PhyRatios \o V30!PhyReads
                      \o V30!PhyWrites \o V30!PhyGates \o V30!PhyWriteData \o V30!PhyMode
                      \o V30!WritePorts \o V30!ReadPorts \o V30!DdrStart, LanesSet)
<1> DEFINE t1 == s \o V30!DdrEcc
           t2 == t1 \o V30!PhyLanes
           t3 == t2 \o V30!PhyRatios
           t4 == t3 \o V30!PhyReads
           t5 == t4 \o V30!PhyWrites
           t6 == t5 \o V30!PhyGates
           t7 == t6 \o V30!PhyWriteData
           t8 == t7 \o V30!PhyMode
           t9 == t8 \o V30!WritePorts
           t10 == t9 \o V30!ReadPorts
           t11 == t10 \o V30!DdrStart
<1> HIDE DEF t1, t2, t3, t4, t5, t6, t7, t8, t9, t10, t11
<1>1. SettingsOf(t1, {})
  BY SharedSettings, SettingsLeft DEF t1
<1>2. SettingsOf(t2, {} \cup {\h114, \h118, \h11C, \h120, \h124})
  BY <1>1, SharedSettings, SettingsJoined DEF t2
<1>3. SettingsOf(t3,
        {}
          \cup {\h114, \h118, \h11C, \h120, \h124}
          \cup {\h12C, \h130, \h134, \h138})
  BY <1>2, SharedSettings, SettingsJoined DEF t3
<1>4. SettingsOf(t4,
        {}
          \cup {\h114, \h118, \h11C, \h120, \h124}
          \cup {\h12C, \h130, \h134, \h138}
          \cup {\h140, \h144, \h148, \h14C})
  BY <1>3, SharedSettings, SettingsJoined DEF t4
<1>5. SettingsOf(t5,
        {}
          \cup {\h114, \h118, \h11C, \h120, \h124}
          \cup {\h12C, \h130, \h134, \h138}
          \cup {\h140, \h144, \h148, \h14C}
          \cup {\h154, \h158, \h15C, \h160})
  BY <1>4, SharedSettings, SettingsJoined DEF t5
<1>6. SettingsOf(t6,
        {}
          \cup {\h114, \h118, \h11C, \h120, \h124}
          \cup {\h12C, \h130, \h134, \h138}
          \cup {\h140, \h144, \h148, \h14C}
          \cup {\h154, \h158, \h15C, \h160}
          \cup {\h168, \h16C, \h170, \h174})
  BY <1>5, SharedSettings, SettingsJoined DEF t6
<1>7. SettingsOf(t7,
        {}
          \cup {\h114, \h118, \h11C, \h120, \h124}
          \cup {\h12C, \h130, \h134, \h138}
          \cup {\h140, \h144, \h148, \h14C}
          \cup {\h154, \h158, \h15C, \h160}
          \cup {\h168, \h16C, \h170, \h174}
          \cup {\h17C, \h180, \h184, \h188})
  BY <1>6, SharedSettings, SettingsJoined DEF t7
<1>8. SettingsOf(t7, LanesSet)
  BY <1>7 DEF LanesSet
<1>9. SettingsOf(t8, LanesSet)
  BY <1>8, SharedSettings, SettingsLeft DEF t8
<1>10. SettingsOf(t9, LanesSet)
  BY <1>9, SharedSettings, SettingsLeft DEF t9
<1>11. SettingsOf(t10, LanesSet)
  BY <1>10, SharedSettings, SettingsLeft DEF t10
<1>12. SettingsOf(t11, LanesSet)
  BY <1>11, SharedSettings, SettingsLeft DEF t11
<1> QED
  BY <1>12 DEF t1, t2, t3, t4, t5, t6, t7, t8, t9, t10, t11

(* The pieces that differ between the silicon versions.                     *)
LEMMA ControlSettings ==
  SettingsOf(V30!Each("ddrc", <<\h60, \h64, \h68, \h6C, \h78, \h7C>>), {})
<1>1. ASSUME NEW a, NEW b, NEW c, NEW d, NEW e, NEW f,
             a = \h60, b = \h64, c = \h68, d = \h6C, e = \h78, f = \h7C
      PROVE  SettingsOf(V30!Each("ddrc", <<a, b, c, d, e, f>>), {})
  <2>1. /\ a \in Nat \ {0} /\ b \in Nat \ {0} /\ c \in Nat \ {0} /\ d \in Nat \ {0}
        /\ e \in Nat \ {0} /\ f \in Nat \ {0}
    BY <1>1
  <2>2. SettingsOf(V30!Each("ddrc", <<a, b, c, d, e, f>>), {a, b, c, d, e, f})
    BY <2>1, SixSettings, Zenon
  <2> QED
    BY <2>2 DEF SettingsOf
<1> QED
  BY <1>1

LEMMA CalibrationSettings ==
  SettingsOf(V30!Each("ddrc", <<\hA4, \hA8, \hAC, \hB0, \hB4, \hB8>>), {})
<1>1. ASSUME NEW a, NEW b, NEW c, NEW d, NEW e, NEW f,
             a = \hA4, b = \hA8, c = \hAC, d = \hB0, e = \hB4, f = \hB8
      PROVE  SettingsOf(V30!Each("ddrc", <<a, b, c, d, e, f>>), {})
  <2>1. /\ a \in Nat \ {0} /\ b \in Nat \ {0} /\ c \in Nat \ {0} /\ d \in Nat \ {0}
        /\ e \in Nat \ {0} /\ f \in Nat \ {0}
    BY <1>1
  <2>2. SettingsOf(V30!Each("ddrc", <<a, b, c, d, e, f>>), {a, b, c, d, e, f})
    BY <2>1, SixSettings, Zenon
  <2> QED
    BY <2>2 DEF SettingsOf
<1> QED
  BY <1>1

LEMMA EarlyCalibrationSettings ==
  SettingsOf(V30!Each("ddrc", <<\hA0, \hA4, \hA8, \hAC, \hB0, \hB4, \hB8>>), {})
<1>1. ASSUME NEW a, NEW b, NEW c, NEW d, NEW e, NEW f, NEW g,
             a = \hA0, b = \hA4, c = \hA8, d = \hAC, e = \hB0, f = \hB4, g = \hB8
      PROVE  SettingsOf(V30!Each("ddrc", <<a, b, c, d, e, f, g>>), {})
  <2>1. /\ a \in Nat \ {0} /\ b \in Nat \ {0} /\ c \in Nat \ {0} /\ d \in Nat \ {0}
        /\ e \in Nat \ {0} /\ f \in Nat \ {0} /\ g \in Nat \ {0}
    BY <1>1
  <2>2. SettingsOf(V30!Each("ddrc", <<a, b, c, d, e, f, g>>), {a, b, c, d, e, f, g})
    BY <2>1, SevenSettings, Zenon
  <2> QED
    BY <2>2 DEF SettingsOf
<1> QED
  BY <1>1

LEMMA AllSettings ==
  /\ SettingsOf(V30!DdrSettings, LanesSet)
  /\ SettingsOf(V20!DdrSettings, LanesSet)
  /\ SettingsOf(V10!DdrSettings, LanesSet)
<1> DEFINE head == V30!DdrQueues \o V30!DdrTiming \o V30!DdrModes \o V30!DdrAddresses
                     \o V30!DdrOdt
<1>1. SettingsOf(head, {})
  BY HeadSettings
<1> HIDE DEF head
<1>2. ASSUME NEW s, SettingsOf(s, {}), NEW t, SettingsOf(t, {})
      PROVE  SettingsOf(head \o s \o t, {})
  BY <1>1, <1>2, SettingsLeft
<1>3. SettingsOf(V30!DdrSettings, LanesSet)
  <2>1. SettingsOf(V30!DdrControl, {})
    <3>1. SettingsOf(V30!Each("ddrc", <<\h60, \h64, \h68, \h6C, \h78, \h7C>>), {})
      BY ControlSettings
    <3> QED
      BY <3>1 DEF V30!DdrControl, SettingsOf
  <2>2. SettingsOf(V30!DdrCalibration, {})
    <3>1. SettingsOf(V30!Each("ddrc", <<\hA4, \hA8, \hAC, \hB0, \hB4, \hB8>>), {})
      BY CalibrationSettings
    <3> QED
      BY <3>1 DEF V30!DdrCalibration, SettingsOf
  <2> QED
    BY <2>1, <2>2, <1>2, TailSettings DEF V30!DdrSettings, head
<1>4. SettingsOf(V20!DdrSettings, LanesSet)
  <2>1. SettingsOf(V20!DdrControl, {})
    <3>1. SettingsOf(V30!Each("ddrc", <<\h60, \h64, \h68, \h6C, \h78, \h7C>>), {})
      BY ControlSettings
    <3>2. V20!DdrControl = V30!Each("ddrc", <<\h60, \h64, \h68, \h6C, \h78, \h7C>>)
      BY DEF V20!DdrControl, V20!Each, V20!MaskWrite, V30!Each, V30!MaskWrite
    <3> QED
      BY <3>1, <3>2 DEF SettingsOf
  <2>2. SettingsOf(V20!DdrCalibration, {})
    <3>1. SettingsOf(V30!Each("ddrc", <<\hA0, \hA4, \hA8, \hAC, \hB0, \hB4, \hB8>>), {})
      BY EarlyCalibrationSettings
    <3>2. V20!DdrCalibration = V30!Each("ddrc", <<\hA0, \hA4, \hA8, \hAC, \hB0, \hB4, \hB8>>)
      BY DEF V20!DdrCalibration, V20!Each, V20!MaskWrite, V30!Each, V30!MaskWrite
    <3> QED
      BY <3>1, <3>2 DEF SettingsOf
  <2>3. V20!DdrSettings =
          head \o V20!DdrControl \o V20!DdrCalibration
               \o V30!DdrEcc \o V30!PhyLanes \o V30!PhyRatios
               \o V30!PhyReads \o V30!PhyWrites \o V30!PhyGates \o V30!PhyWriteData \o V30!PhyMode
               \o V30!WritePorts \o V30!ReadPorts \o V30!DdrStart
    BY DEF V20!DdrSettings, head,
           V30!DdrQueues, V30!DdrTiming, V30!DdrModes, V30!DdrAddresses, V30!DdrOdt,
           V30!DdrEcc, V30!PhyLanes, V30!PhyRatios, V30!PhyReads, V30!PhyWrites, V30!PhyGates,
           V30!PhyWriteData, V30!PhyMode, V30!WritePorts, V30!ReadPorts, V30!DdrStart,
           V30!Each, V30!MaskWrite,
           V20!DdrQueues, V20!DdrTiming, V20!DdrModes, V20!DdrAddresses, V20!DdrOdt,
           V20!DdrEcc, V20!PhyLanes, V20!PhyRatios, V20!PhyReads, V20!PhyWrites, V20!PhyGates,
           V20!PhyWriteData, V20!PhyMode, V20!WritePorts, V20!ReadPorts, V20!DdrStart,
           V20!Each, V20!MaskWrite
  <2> QED
    BY <2>1, <2>2, <2>3, <1>2, TailSettings
<1>5. SettingsOf(V10!DdrSettings, LanesSet)
  <2>1. SettingsOf(V10!DdrControl, {})
    <3>0. \A n \in {\h60, \h64, \h68, \h6C} : n \in Nat \ {0}
      OBVIOUS
    <3>1. SettingsOf(V30!Each("ddrc", <<\h60, \h64, \h68, \h6C>>),
                     {\h60, \h64, \h68, \h6C})
      BY <3>0, FourSettings, ZenonT(30)
    <3>2. V10!DdrControl = V30!Each("ddrc", <<\h60, \h64, \h68, \h6C>>)
      BY DEF V10!DdrControl, V10!Each, V10!MaskWrite, V30!Each, V30!MaskWrite
    <3> QED
      BY <3>1, <3>2 DEF SettingsOf
  <2>2. SettingsOf(V10!DdrCalibration, {})
    <3>1. SettingsOf(V30!Each("ddrc", <<\hA0, \hA4, \hA8, \hAC, \hB0, \hB4, \hB8>>), {})
      BY EarlyCalibrationSettings
    <3>2. V10!DdrCalibration = V30!Each("ddrc", <<\hA0, \hA4, \hA8, \hAC, \hB0, \hB4, \hB8>>)
      BY DEF V10!DdrCalibration, V10!Each, V10!MaskWrite, V30!Each, V30!MaskWrite
    <3> QED
      BY <3>1, <3>2 DEF SettingsOf
  <2>3. V10!DdrSettings =
          head \o V10!DdrControl \o V10!DdrCalibration
               \o V30!DdrEcc \o V30!PhyLanes \o V30!PhyRatios
               \o V30!PhyReads \o V30!PhyWrites \o V30!PhyGates \o V30!PhyWriteData \o V30!PhyMode
               \o V30!WritePorts \o V30!ReadPorts \o V30!DdrStart
    BY DEF V10!DdrSettings, head,
           V30!DdrQueues, V30!DdrTiming, V30!DdrModes, V30!DdrAddresses, V30!DdrOdt,
           V30!DdrEcc, V30!PhyLanes, V30!PhyRatios, V30!PhyReads, V30!PhyWrites, V30!PhyGates,
           V30!PhyWriteData, V30!PhyMode, V30!WritePorts, V30!ReadPorts, V30!DdrStart,
           V30!Each, V30!MaskWrite,
           V10!DdrQueues, V10!DdrTiming, V10!DdrModes, V10!DdrAddresses, V10!DdrOdt,
           V10!DdrEcc, V10!PhyLanes, V10!PhyRatios, V10!PhyReads, V10!PhyWrites, V10!PhyGates,
           V10!PhyWriteData, V10!PhyMode, V10!WritePorts, V10!ReadPorts, V10!DdrStart,
           V10!Each, V10!MaskWrite
  <2> QED
    BY <2>1, <2>2, <2>3, <1>2, TailSettings
<1> QED
  BY <1>3, <1>4, <1>5

(* The controller is held in reset, set up, the pads calibrated, and only  *)
(* then released.                                                          *)
HoldOp == V30!MaskWrite("ddrc", 0, "held")
ReleaseOp == V30!MaskWrite("ddrc", 0, "released")
DciPoll == V30!MaskPoll("dci", "done")
DdrPoll == V30!MaskPoll("ddrc", "mode")

DdrShape(s) ==
  \E n \in Nat :
    /\ Listed(s) /\ Len(s) = n + 5 /\ s[1] = HoldOp
    /\ \A k \in 2..n + 1 : \E f \in Nat \ {0} : s[k] = SetOp(f)
    /\ \A f \in LaneRegisters : \E k \in 2..n + 1 : s[k] = SetOp(f)
    /\ s[n + 2] = DciPoll /\ s[n + 3] = ReleaseOp /\ s[n + 4] = DdrPoll
    /\ s[n + 5] = V30!Exit

LEMMA DdrTable ==
  ASSUME NEW q, SettingsOf(q, LanesSet)
  PROVE  DdrShape(<<HoldOp>> \o q \o <<DciPoll>> \o <<ReleaseOp, DdrPoll>> \o <<V30!Exit>>)
<1> DEFINE h == <<HoldOp>>
           r == <<ReleaseOp, DdrPoll>>
           s1 == h \o q
           s2 == s1 \o <<DciPoll>>
           s3 == s2 \o r
           s == s3 \o <<V30!Exit>>
           n == Len(q)
<1>1. Listed(h) /\ Len(h) = 1 /\ h[1] = HoldOp
  BY LiteralListed
<1>2. Listed(r) /\ Len(r) = 2 /\ r[1] = ReleaseOp /\ r[2] = DdrPoll
  BY LiteralListed
<1>3. /\ Listed(q) /\ n \in Nat /\ Items(q) = {q[k] : k \in 1..n}
      /\ \A o \in Items(q) : \E f \in Nat \ {0} : o = SetOp(f)
      /\ \A f \in LaneRegisters : SetOp(f) \in Items(q)
  BY ListedLen, LanesCovered DEF SettingsOf
<1> HIDE DEF h, r
<1>4. /\ Listed(s1) /\ Len(s1) = n + 1 /\ s1[1] = HoldOp
      /\ \A k \in 1..n : s1[1 + k] = q[k]
  <2>1. Listed(h) /\ Listed(q)
    BY <1>1, <1>3
  <2>2. /\ Listed(s1) /\ Len(s1) = Len(h) + Len(q)
        /\ \A k \in 1..Len(h) : s1[k] = h[k]
        /\ \A k \in 1..Len(q) : s1[Len(h) + k] = q[k]
    BY <2>1, Joined
  <2> HIDE DEF s1
  <2> QED
    BY <1>1, <1>3, <2>2
<1> HIDE DEF s1
<1>5. /\ Listed(s2) /\ Len(s2) = n + 2 /\ s2[n + 2] = DciPoll
      /\ \A k \in 1..n + 1 : s2[k] = s1[k]
  <2>1. Listed(s1)
    BY <1>4
  <2>2. /\ Listed(s2) /\ Len(s2) = Len(s1) + 1
        /\ s2[Len(s1) + 1] = DciPoll
        /\ \A k \in 1..Len(s1) : s2[k] = s1[k]
    BY <2>1, OneMore
  <2> HIDE DEF s2
  <2> QED
    BY <1>3, <1>4, <2>2
<1> HIDE DEF s2
<1>6. /\ Listed(s3) /\ Len(s3) = n + 4 /\ s3[n + 3] = ReleaseOp /\ s3[n + 4] = DdrPoll
      /\ \A k \in 1..n + 2 : s3[k] = s2[k]
  <2>1. Listed(s2) /\ Listed(r)
    BY <1>2, <1>5
  <2>2. /\ Listed(s3) /\ Len(s3) = Len(s2) + Len(r)
        /\ \A k \in 1..Len(s2) : s3[k] = s2[k]
        /\ \A k \in 1..Len(r) : s3[Len(s2) + k] = r[k]
    BY <2>1, Joined
  <2> HIDE DEF s3
  <2> QED
    BY <1>2, <1>3, <1>5, <2>2
<1> HIDE DEF s3
<1>7. /\ Listed(s) /\ Len(s) = n + 5 /\ s[n + 5] = V30!Exit
      /\ \A k \in 1..n + 4 : s[k] = s3[k]
  <2>1. Listed(s3)
    BY <1>6
  <2>2. /\ Listed(s) /\ Len(s) = Len(s3) + 1
        /\ s[Len(s3) + 1] = V30!Exit
        /\ \A k \in 1..Len(s3) : s[k] = s3[k]
    BY <2>1, OneMore
  <2> HIDE DEF s
  <2> QED
    BY <1>3, <1>6, <2>2
<1> HIDE DEF s
<1>8. \A k \in 1..n + 1 : s[k] = s1[k]
  BY <1>3, <1>5, <1>6, <1>7
<1>9. \A k \in 1..n : s[1 + k] = q[k]
  BY <1>3, <1>4, <1>8
<1>10. ASSUME NEW k \in 2..n + 1 PROVE \E f \in Nat \ {0} : s[k] = SetOp(f)
  <2>1. k - 1 \in 1..n /\ 1 + (k - 1) = k
    BY <1>3
  <2>2. s[k] = q[k - 1]
    BY <2>1, <1>9
  <2> QED
    BY <2>1, <2>2, <1>3
<1>11. ASSUME NEW f \in LaneRegisters PROVE \E k \in 2..n + 1 : s[k] = SetOp(f)
  <2>1. PICK k \in 1..n : q[k] = SetOp(f)
    BY <1>3
  <2>2. 1 + k \in 2..n + 1 /\ s[1 + k] = SetOp(f)
    BY <1>3, <1>9, <2>1
  <2> QED
    BY <2>2
<1>12. s[1] = HoldOp /\ s[n + 2] = DciPoll /\ s[n + 3] = ReleaseOp /\ s[n + 4] = DdrPoll
  BY <1>3, <1>4, <1>5, <1>6, <1>7, <1>8
<1> HIDE DEF n
<1>13. DdrShape(s)
  BY <1>3, <1>7, <1>10, <1>11, <1>12 DEF DdrShape
<1> QED
  BY <1>13 DEF s, s3, s2, s1, h, r

LEMMA DdrTables ==
  \A s \in {V10!DdrInitData, V20!DdrInitData, V30!DdrInitData} : DdrShape(s)
<1>1. DdrShape(V30!DdrInitData)
  BY AllSettings, DdrTable
  DEF V30!DdrInitData, V30!DdrHold, V30!DdrAwaitDci, V30!DdrRelease,
      HoldOp, ReleaseOp, DciPoll, DdrPoll
<1>2. DdrShape(V20!DdrInitData)
  <2>1. V20!DdrInitData =
          <<HoldOp>> \o V20!DdrSettings \o <<DciPoll>> \o <<ReleaseOp, DdrPoll>> \o <<V30!Exit>>
    BY DEF V20!DdrInitData, V20!DdrHold, V20!DdrAwaitDci, V20!DdrRelease,
           HoldOp, ReleaseOp, DciPoll, DdrPoll, V20!MaskWrite, V20!MaskPoll, V20!Exit,
           V30!MaskWrite, V30!MaskPoll, V30!Exit
  <2> QED
    BY <2>1, AllSettings, DdrTable
<1>3. DdrShape(V10!DdrInitData)
  <2>1. V10!DdrInitData =
          <<HoldOp>> \o V10!DdrSettings \o <<DciPoll>> \o <<ReleaseOp, DdrPoll>> \o <<V30!Exit>>
    BY DEF V10!DdrInitData, V10!DdrHold, V10!DdrAwaitDci, V10!DdrRelease,
           HoldOp, ReleaseOp, DciPoll, DdrPoll, V10!MaskWrite, V10!MaskPoll, V10!Exit,
           V30!MaskWrite, V30!MaskPoll, V30!Exit
  <2> QED
    BY <2>1, AllSettings, DdrTable
<1> QED
  BY <1>1, <1>2, <1>3

-----------------------------------------------------------------------------
(* After the bitstream, and for the debugger. *)
PostShape(s) ==
  /\ Bracketed(s, 4) /\ Len(s) = 5
  /\ s[2] = V30!MaskWrite("slcr", "shifters", "on")
  /\ s[3] = V30!MaskWrite("slcr", "fpga_resets", "off")
DebugShape(s) ==
  /\ Listed(s) /\ Len(s) = 4 /\ s[4] = V30!Exit
  /\ \A k \in 1..3 : s[k].op = "write" /\ s[k].unit = "cti"

LEMMA PostTable == PostShape(V30!PostConfig)
<1>1. Listed(V30!PostConfig)
  BY LiteralListed DEF V30!PostConfig
<1> QED
  BY <1>1 DEF PostShape, Bracketed, V30!PostConfig

LEMMA DebugTable == DebugShape(V30!Debug)
<1>1. Listed(V30!Debug)
  BY LiteralListed DEF V30!Debug
<1>2. \A k \in 1..3 : k = 1 \/ k = 2 \/ k = 3
  OBVIOUS
<1> QED
  BY <1>1, <1>2 DEF DebugShape, V30!Debug, V30!Write

-----------------------------------------------------------------------------
(* Pads, consoles, and the reset pulse of the USB PHY. *)
Consoles == {"uart1", "uart0", "qspi", "devcfg"}
LowOp == V30!MaskWrite("gpio", "pin51", "low")
HighOp == V30!MaskWrite("gpio", "pin51", "high")
OutputOp == V30!MaskWrite("gpio", "output", "pin51")
DirectionOp == V30!MaskWrite("gpio", "direction", "pin51")

(* The peripherals, then the reset pulse of the USB PHY: high, low, the    *)
(* delay, high again.                                                      *)
PeripheralsShape(s) ==
  \E l, n \in Nat :
    /\ Bracketed(s, l) /\ l <= n /\ Len(s) = n + 7
    /\ \A k \in 2..l - 1 : s[k].op = "maskwrite" /\ s[k].unit = "ddriob"
    /\ \A k \in l + 1..n : s[k].op = "maskwrite" /\ s[k].unit \in Consoles
    /\ s[n + 1] = DirectionOp /\ s[n + 2] = HighOp /\ s[n + 3] = OutputOp
    /\ s[n + 4] = LowOp /\ s[n + 5] = V30!MaskDelay /\ s[n + 6] = HighOp
    /\ s[n + 7] = V30!Exit

LEMMA PeripheralsTable == PeripheralsShape(V30!PeripheralsInitData)
<1> DEFINE pads == V30!Each("ddriob", <<"term0", "term1", "dterm0", "dterm1">>)
           u == <<V30!Unlock>>
           s1 == u \o pads
           s2 == s1 \o <<V30!Lock>>
           s3 == s2 \o V30!UartInit
           s4 == s3 \o V30!FlashAndFabric
           s5 == s4 \o V30!UsbReset
           s == s5 \o <<V30!Exit>>
           m == Len(pads)
           n == Len(s4)
<1>1. Masked(pads, {"ddriob"})
  BY LiteralListed, EachMasked
<1> HIDE DEF pads
<1>2. Masked(V30!UartInit, Consoles)
  <2>1. Masked(V30!Each("uart1", <<"divider", "baud", "control", "mode">>), Consoles)
    BY LiteralListed, EachMasked DEF Consoles
  <2>2. Masked(V30!Each("uart0", <<"divider", "baud", "control", "mode">>), Consoles)
    BY LiteralListed, EachMasked DEF Consoles
  <2> QED
    BY <2>1, <2>2, MaskedJoined DEF V30!UartInit
<1>3. Masked(V30!FlashAndFabric, Consoles)
  <2>1. Listed(V30!FlashAndFabric)
    BY LiteralListed DEF V30!FlashAndFabric
  <2>2. \A k \in 1..2 : k = 1 \/ k = 2
    OBVIOUS
  <2>3. \A o \in Items(V30!FlashAndFabric) :
          o = V30!MaskWrite("qspi", "hold", "set") \/ o = V30!MaskWrite("devcfg", "por", "set")
    BY <2>2 DEF Items, V30!FlashAndFabric
  <2> QED
    BY <2>1, <2>3 DEF Masked, V30!MaskWrite, Consoles
<1>4. /\ Listed(V30!UsbReset) /\ Len(V30!UsbReset) = 6
      /\ V30!UsbReset[1] = DirectionOp /\ V30!UsbReset[2] = HighOp
      /\ V30!UsbReset[3] = OutputOp /\ V30!UsbReset[4] = LowOp
      /\ V30!UsbReset[5] = V30!MaskDelay /\ V30!UsbReset[6] = HighOp
  BY LiteralListed DEF V30!UsbReset, DirectionOp, HighOp, OutputOp, LowOp
<1>5. /\ Listed(s1) /\ Len(s1) = m + 1 /\ m \in Nat /\ s1[1] = V30!Unlock
      /\ \A k \in 2..m + 1 : s1[k].op = "maskwrite" /\ s1[k].unit = "ddriob"
  <2>1. Opened(u) /\ Body(u) = {}
    BY Opening
  <2>2. Listed(pads) /\ Listed(u) /\ Len(u) = 1
    BY <1>1, LiteralListed DEF Masked
  <2> HIDE DEF u
  <2>3. Opened(s1) /\ Body(s1) = Items(pads)
    BY <2>1, <2>2, OpenedJoined
  <2>4. Len(s1) = Len(u) + Len(pads)
    <3>1. Listed(u) /\ Listed(pads)
      BY <2>2
    <3> QED
      BY <3>1, Joined
  <2>5. m \in Nat
    BY <2>2, ListedLen
  <2> HIDE DEF s1, m
  <2>6. Len(s1) = m + 1
    BY <2>2, <2>4, <2>5 DEF m
  <2> QED
    BY <1>1, <2>3, <2>5, <2>6 DEF Opened, Body, Masked
<1> HIDE DEF s1, u, m
<1>6. /\ Listed(s2) /\ Len(s2) = m + 2 /\ s2[m + 2] = V30!Lock
      /\ \A k \in 1..m + 1 : s2[k] = s1[k]
  <2>1. Listed(s1)
    BY <1>5
  <2>2. /\ Listed(s2) /\ Len(s2) = Len(s1) + 1
        /\ s2[Len(s1) + 1] = V30!Lock
        /\ \A k \in 1..Len(s1) : s2[k] = s1[k]
    BY <2>1, OneMore
  <2> HIDE DEF s2
  <2> QED
    BY <1>5, <2>2
<1> HIDE DEF s2
<1>7. ASSUME NEW t, Listed(t), NEW q, Masked(q, Consoles)
      PROVE  /\ Listed(t \o q) /\ Len(t) \in Nat /\ Len(t \o q) \in Nat
             /\ Len(t) <= Len(t \o q)
             /\ \A k \in 1..Len(t) : (t \o q)[k] = t[k]
             /\ \A k \in Len(t) + 1..Len(t \o q) :
                  (t \o q)[k].op = "maskwrite" /\ (t \o q)[k].unit \in Consoles
  <2>1. Listed(q)
    BY <1>7 DEF Masked
  <2>2. /\ Listed(t \o q) /\ Len(t \o q) = Len(t) + Len(q)
        /\ \A k \in 1..Len(t) : (t \o q)[k] = t[k]
        /\ \A k \in 1..Len(t \o q) : k > Len(t) => (t \o q)[k] = q[k - Len(t)]
    BY <1>7, <2>1, Joined
  <2>3. /\ Len(t) \in Nat /\ Len(q) \in Nat /\ Items(q) = {q[k] : k \in 1..Len(q)}
    BY <1>7, <2>1, ListedLen
  <2> DEFINE w == t \o q
  <2> HIDE DEF w
  <2>4. ASSUME NEW k \in Len(t) + 1..Len(w)
        PROVE  w[k].op = "maskwrite" /\ w[k].unit \in Consoles
    <3>1. k \in 1..Len(w) /\ k > Len(t) /\ k - Len(t) \in 1..Len(q)
      BY <2>2, <2>3 DEF w
    <3>2. w[k] = q[k - Len(t)] /\ q[k - Len(t)] \in Items(q)
      BY <2>2, <2>3, <3>1 DEF w
    <3> QED
      BY <1>7, <3>2 DEF Masked
  <2> QED
    BY <2>2, <2>3, <2>4 DEF w
<1>8. /\ Listed(s3) /\ Len(s3) \in Nat /\ Len(s2) <= Len(s3)
      /\ \A k \in 1..Len(s2) : s3[k] = s2[k]
      /\ \A k \in Len(s2) + 1..Len(s3) : s3[k].op = "maskwrite" /\ s3[k].unit \in Consoles
  BY <1>2, <1>6, <1>7
<1> HIDE DEF s3
<1>9. /\ Listed(s4) /\ n \in Nat /\ Len(s3) <= n
      /\ \A k \in 1..Len(s3) : s4[k] = s3[k]
      /\ \A k \in Len(s3) + 1..n : s4[k].op = "maskwrite" /\ s4[k].unit \in Consoles
  BY <1>3, <1>7, <1>8
<1> HIDE DEF s4, n
<1>10. /\ Listed(s5) /\ Len(s5) = n + 6
       /\ \A k \in 1..n : s5[k] = s4[k]
       /\ \A k \in 1..6 : s5[n + k] = V30!UsbReset[k]
  <2> DEFINE q == V30!UsbReset
  <2>1. Listed(s4) /\ Listed(q)
    BY <1>4, <1>9
  <2> HIDE DEF q
  <2>2. /\ Listed(s5) /\ Len(s5) = Len(s4) + Len(q)
        /\ \A k \in 1..Len(s4) : s5[k] = s4[k]
        /\ \A k \in 1..Len(q) : s5[Len(s4) + k] = q[k]
    BY <2>1, Joined DEF q
  <2>3. Len(q) = 6
    BY <1>4 DEF q
  <2> HIDE DEF s5
  <2> QED
    BY <1>9, <2>2, <2>3 DEF n, q
<1> HIDE DEF s5
<1>11. /\ Listed(s) /\ Len(s) = n + 7 /\ s[n + 7] = V30!Exit
       /\ \A k \in 1..n + 6 : s[k] = s5[k]
  <2>1. Listed(s5)
    BY <1>10
  <2>2. /\ Listed(s) /\ Len(s) = Len(s5) + 1
        /\ s[Len(s5) + 1] = V30!Exit
        /\ \A k \in 1..Len(s5) : s[k] = s5[k]
    BY <2>1, OneMore
  <2> HIDE DEF s
  <2> QED
    BY <1>9, <1>10, <2>2
<1> HIDE DEF s
<1> DEFINE l == m + 2
<1>12. l \in Nat /\ l <= n /\ l \in 2..Len(s) - 1
  BY <1>5, <1>6, <1>8, <1>9, <1>11
<1>13. \A k \in 1..n : s[k] = s4[k]
  BY <1>9, <1>10, <1>11
<1>14. \A k \in 1..l : s[k] = s2[k]
  BY <1>5, <1>6, <1>8, <1>9, <1>12, <1>13
<1>15. \A k \in 2..l - 1 : s[k].op = "maskwrite" /\ s[k].unit = "ddriob"
  BY <1>5, <1>6, <1>14
<1>16. s[1] = V30!Unlock /\ s[l] = V30!Lock
  BY <1>5, <1>6, <1>14
<1>17. ASSUME NEW k \in l + 1..n PROVE s[k].op = "maskwrite" /\ s[k].unit \in Consoles
  <2>1. s[k] = s4[k]
    BY <1>5, <1>13, <1>17
  <2>2. CASE k <= Len(s3)
    BY <1>5, <1>6, <1>8, <1>9, <2>1, <2>2
  <2>3. CASE k > Len(s3)
    BY <1>5, <1>8, <1>9, <2>1, <2>3
  <2> QED
    BY <1>5, <1>8, <1>9, <2>2, <2>3
<1>18. \A k \in 1..6 : s[n + k] = V30!UsbReset[k]
  BY <1>9, <1>10, <1>11
<1>19. /\ s[n + 1] = DirectionOp /\ s[n + 2] = HighOp /\ s[n + 3] = OutputOp
       /\ s[n + 4] = LowOp /\ s[n + 5] = V30!MaskDelay /\ s[n + 6] = HighOp
  BY <1>4, <1>18
<1>20. Bracketed(s, l)
  BY <1>11, <1>12, <1>16 DEF Bracketed
<1> HIDE DEF l
<1>21. PeripheralsShape(s)
  BY <1>9, <1>11, <1>12, <1>15, <1>17, <1>19, <1>20 DEF PeripheralsShape
<1> QED
  BY <1>21 DEF s, s5, s4, s3, s2, s1, u, pads, V30!PeripheralsInitData, V30!PadTermination

(* These tables are the same for all silicon versions. *)
LEMMA SameTables ==
  /\ V10!MioInitData = V30!MioInitData /\ V20!MioInitData = V30!MioInitData
  /\ V10!PllInitData = V30!PllInitData /\ V20!PllInitData = V30!PllInitData
  /\ V10!ClockInitData = V30!ClockInitData /\ V20!ClockInitData = V30!ClockInitData
  /\ V10!PeripheralsInitData = V30!PeripheralsInitData
  /\ V20!PeripheralsInitData = V30!PeripheralsInitData
  /\ V10!PostConfig = V30!PostConfig /\ V20!PostConfig = V30!PostConfig
  /\ V10!Debug = V30!Debug /\ V20!Debug = V30!Debug
<1>1. V10!MioInitData = V30!MioInitData /\ V20!MioInitData = V30!MioInitData
  BY DEF V10!MioInitData, V10!Exit, V10!Lock, V10!Write, V10!CardSense,
     V10!MaskWrite, V10!PinInit, V10!MdioPins, V10!Pins, V10!GpioPins, V10!UartPins,
     V10!CardSensePins, V10!CardPins, V10!UsbHighPins, V10!UsbLowPins,
     V10!UsbLinkPins, V10!EnetRxPins, V10!EnetTxPins, V10!CanPins, V10!I2cPins,
     V10!ConsolePins, V10!SparePin9, V10!FlashClockPin, V10!SparePin7,
     V10!FlashPins, V10!SparePin0, V10!PadInit, V10!DciSetup, V10!PadDrive,
     V10!Each, V10!DataPads, V10!AddressPads, V10!Unlock, V20!MioInitData, V20!Exit,
     V20!Lock, V20!Write, V20!CardSense, V20!MaskWrite, V20!PinInit, V20!MdioPins,
     V20!Pins, V20!GpioPins, V20!UartPins, V20!CardSensePins, V20!CardPins,
     V20!UsbHighPins, V20!UsbLowPins, V20!UsbLinkPins, V20!EnetRxPins,
     V20!EnetTxPins, V20!CanPins, V20!I2cPins, V20!ConsolePins, V20!SparePin9,
     V20!FlashClockPin, V20!SparePin7, V20!FlashPins, V20!SparePin0, V20!PadInit,
     V20!DciSetup, V20!PadDrive, V20!Each, V20!DataPads, V20!AddressPads,
     V20!Unlock, V30!MioInitData, V30!Exit, V30!Lock, V30!Write, V30!CardSense,
     V30!MaskWrite, V30!PinInit, V30!MdioPins, V30!Pins, V30!GpioPins, V30!UartPins,
     V30!CardSensePins, V30!CardPins, V30!UsbHighPins, V30!UsbLowPins,
     V30!UsbLinkPins, V30!EnetRxPins, V30!EnetTxPins, V30!CanPins, V30!I2cPins,
     V30!ConsolePins, V30!SparePin9, V30!FlashClockPin, V30!SparePin7,
     V30!FlashPins, V30!SparePin0, V30!PadInit, V30!DciSetup, V30!PadDrive,
     V30!Each, V30!DataPads, V30!AddressPads, V30!Unlock
<1>2. V10!PllInitData = V30!PllInitData /\ V20!PllInitData = V30!PllInitData
  BY DEF V10!PllInitData, V10!Exit, V10!Lock, V10!Write, V10!IoPll, V10!PllSetup,
     V10!MaskWrite, V10!MaskPoll, V10!DdrPll, V10!ArmPll, V10!Unlock,
     V20!PllInitData, V20!Exit, V20!Lock, V20!Write, V20!IoPll, V20!PllSetup,
     V20!MaskWrite, V20!MaskPoll, V20!DdrPll, V20!ArmPll, V20!Unlock,
     V30!PllInitData, V30!Exit, V30!Lock, V30!Write, V30!IoPll, V30!PllSetup,
     V30!MaskWrite, V30!MaskPoll, V30!DdrPll, V30!ArmPll, V30!Unlock
<1>3. V10!ClockInitData = V30!ClockInitData /\ V20!ClockInitData = V30!ClockInitData
  BY DEF V10!ClockInitData, V10!Exit, V10!Lock, V10!Write, V10!BusClocks,
     V10!MaskWrite, V10!FabricClocks, V10!Each, V10!UnitClocks, V10!Unlock,
     V20!ClockInitData, V20!Exit, V20!Lock, V20!Write, V20!BusClocks, V20!MaskWrite,
     V20!FabricClocks, V20!Each, V20!UnitClocks, V20!Unlock, V30!ClockInitData,
     V30!Exit, V30!Lock, V30!Write, V30!BusClocks, V30!MaskWrite, V30!FabricClocks,
     V30!Each, V30!UnitClocks, V30!Unlock
<1>4. /\ V10!PeripheralsInitData = V30!PeripheralsInitData
      /\ V20!PeripheralsInitData = V30!PeripheralsInitData
  BY DEF V10!PeripheralsInitData, V10!Exit, V10!UsbReset, V10!MaskWrite,
     V10!MaskDelay, V10!FlashAndFabric, V10!UartInit, V10!Each, V10!PadTermination,
     V10!Lock, V10!Write, V10!Unlock, V20!PeripheralsInitData, V20!Exit,
     V20!UsbReset, V20!MaskWrite, V20!MaskDelay, V20!FlashAndFabric, V20!UartInit,
     V20!Each, V20!PadTermination, V20!Lock, V20!Write, V20!Unlock,
     V30!PeripheralsInitData, V30!Exit, V30!UsbReset, V30!MaskWrite, V30!MaskDelay,
     V30!FlashAndFabric, V30!UartInit, V30!Each, V30!PadTermination, V30!Lock,
     V30!Write, V30!Unlock
<1>5. V10!PostConfig = V30!PostConfig /\ V20!PostConfig = V30!PostConfig
  BY DEF V10!PostConfig, V10!Exit, V10!Lock, V10!Write, V10!MaskWrite, V10!Unlock,
     V20!PostConfig, V20!Exit, V20!Lock, V20!Write, V20!MaskWrite, V20!Unlock,
     V30!PostConfig, V30!Exit, V30!Lock, V30!Write, V30!MaskWrite, V30!Unlock
<1>6. V10!Debug = V30!Debug /\ V20!Debug = V30!Debug
  BY DEF V10!Debug, V10!Exit, V10!Write, V20!Debug, V20!Exit, V20!Write, V30!Debug,
     V30!Exit, V30!Write
<1> QED
  BY <1>1, <1>2, <1>3, <1>4, <1>5, <1>6
-----------------------------------------------------------------------------
(* The table being run.                                                     *)
Code == TablesOf[siVer][table]

Tables == {"mio", "pll", "clock", "ddr", "peripherals", "post", "debug"}
Brackets == {"mio", "pll", "clock", "peripherals", "post"}

(* A call that was made has a table.                                       *)
TypeInv ==
  /\ TypeOK
  /\ active \/ calls > 0 => table \in Tables

(* Where a table closes the SLCR. *)
LockAt(s) == CHOOSE l \in 2..Len(s) - 1 : s[l] = V30!Lock

(* In a table that opens the SLCR they are open up to where it closes them; *)
(* the DDR controller's table finds them closed.                            *)
LockInv ==
  /\ active /\ table \in Brackets /\ pc > 1 => (unlocked <=> pc <= LockAt(Code))
  /\ active /\ table = "ddr" => ~unlocked
  /\ inited /\ ~(active /\ table = "post") => ~unlocked
  /\ active /\ inited => table \in {"post", "debug"}
  /\ SlcrLeftOpen

(* What a table has written is in the register until it writes another      *)
(* value to it.                                                             *)
Stays(s, k, n) ==
  /\ Writing(s[k]) /\ ~Writes(s[k], "slcr", "lock")
  /\ \A m \in k + 1..n : Writes(s[m], s[k].unit, s[k].field) => s[m].value = s[k].value

(* An operation of the table that was not undone by a later one holds.     *)
KeptInv ==
  active => \A k \in 1..pc - 1 :
              Stays(Code, k, pc - 1) => Is(Code[k].unit, Code[k].field, Code[k].value)

(* PllUsedLocked is not inductive: the PLL must be locked before its bypass *)
(* is taken away, and bypassed before its reset unlocks it.                 *)
PllInv ==
  /\ PllUsedLocked
  /\ active => \A p \in Plls :
       /\ Writes(Op, p, "bypass") /\ Op.value = "off" => p \in locked
       /\ Writes(Op, p, "reset") /\ unlocked => ~Is(p, "bypass", "off")

(* As far as the DDR table has got, its registers were set since the hold, *)
(* the pads are calibrated, the controller has started.                    *)
DdrInv ==
  active /\ table = "ddr" =>
    /\ \A k \in 2..pc - 1 : Writing(Code[k]) /\ Code[k].field # 0 => Code[k].field \in sinceHold
    /\ Op = ReleaseOp => dciDone
    /\ Op.op = "exit" => ddrUp

(* What holds once ps7_init has run a table. *)
Past(tables) == inited \/ (active /\ table \in tables)
StageInv ==
  /\ Past({"pll", "clock", "ddr", "peripherals"}) =>
       \A n \in 0..53 : Is("mio", n, BoardPin[n])
  /\ Past({"clock", "ddr", "peripherals"}) =>
       Is("clk", "ddr", {"ddr"}) /\ \A p \in Plls : Is(p, "bypass", "off")
  /\ Past({"ddr", "peripherals"}) => Is("clk", "aper", AperUnits)
  /\ Past({"peripherals"}) => ddrUp

(* While the delay runs the PHY has been in reset for as long as the timer *)
(* counts.                                                                 *)
UsbInv ==
  /\ active /\ Op.op = "maskdelay" /\ i = 1 => lowFor >= timer.count
  /\ active /\ (\E k \in 1..pc - 1 : Code[k].op = "maskdelay") => lowFor = DelayTime
  /\ inited => UsbPhyReset

-----------------------------------------------------------------------------
(* Every table of every silicon version has its shape.                     *)
LEMMA Shapes ==
  ASSUME NEW v \in SiliconVersions
  PROVE  /\ MioShape(TablesOf[v]["mio"]) /\ PllShape(TablesOf[v]["pll"])
         /\ ClockShape(TablesOf[v]["clock"]) /\ DdrShape(TablesOf[v]["ddr"])
         /\ PeripheralsShape(TablesOf[v]["peripherals"])
         /\ PostShape(TablesOf[v]["post"]) /\ DebugShape(TablesOf[v]["debug"])
<1>1. /\ TablesOf[v]["mio"] \in {V10!MioInitData, V20!MioInitData, V30!MioInitData}
      /\ TablesOf[v]["pll"] \in {V10!PllInitData, V20!PllInitData, V30!PllInitData}
      /\ TablesOf[v]["clock"] \in {V10!ClockInitData, V20!ClockInitData, V30!ClockInitData}
      /\ TablesOf[v]["ddr"] \in {V10!DdrInitData, V20!DdrInitData, V30!DdrInitData}
      /\ TablesOf[v]["peripherals"] \in
           {V10!PeripheralsInitData, V20!PeripheralsInitData, V30!PeripheralsInitData}
      /\ TablesOf[v]["post"] \in {V10!PostConfig, V20!PostConfig, V30!PostConfig}
      /\ TablesOf[v]["debug"] \in {V10!Debug, V20!Debug, V30!Debug}
  BY DEF TablesOf
<1> QED
  BY <1>1, SameTables, MioTable, PllTable, ClockTable, DdrTables, PeripheralsTable,
     PostTable, DebugTable

(* What a bracketed table does with the SLCR, and where it ends. *)
LockFacts(s) ==
  /\ LockAt(s) \in 2..Len(s) - 1 /\ s[LockAt(s)] = V30!Lock /\ s[1] = V30!Unlock
  /\ \A k \in 1..Len(s) :
       /\ Writes(s[k], "slcr", "lock") => k = 1 \/ k = LockAt(s)
       /\ Writing(s[k]) /\ s[k].unit \in SlcrUnits /\ ~Writes(s[k], "slcr", "lock")
            => 1 < k /\ k < LockAt(s)
       /\ s[k].op = "maskpoll" => 1 < k /\ k < LockAt(s)

Ends(s) ==
  /\ Listed(s) /\ Len(s) \in Nat /\ Len(s) > 1
  /\ \A k \in 1..Len(s) : s[k].op = "exit" <=> k = Len(s)

LEMMA LockAtIs ==
  ASSUME NEW s, NEW l \in 2..Len(s) - 1, s[l] = V30!Lock,
         \A k \in 2..Len(s) - 1 : k # l => s[k] # V30!Lock
  PROVE  LockAt(s) = l
  BY DEF LockAt

LEMMA Keys ==
  /\ V30!Unlock.op = "write" /\ V30!Unlock.unit = "slcr" /\ V30!Unlock.field = "lock"
  /\ V30!Unlock.value = "open"
  /\ V30!Lock.op = "write" /\ V30!Lock.unit = "slcr" /\ V30!Lock.field = "lock"
  /\ V30!Lock.value = "closed"
  /\ V30!Exit.op = "exit" /\ V30!MaskDelay.op = "maskdelay"
  BY DEF V30!Unlock, V30!Lock, V30!Exit, V30!MaskDelay, V30!Write

(* A bracketed table whose other operations neither end it nor touch the    *)
(* lock, and write the SLCR or poll only between the keys.                  *)
LEMMA BracketFacts ==
  ASSUME NEW s, NEW l \in Nat, Bracketed(s, l),
         \A k \in 2..l - 1 : /\ s[k].op \in {"maskwrite", "maskpoll"}
                             /\ ~Writes(s[k], "slcr", "lock"),
         \A k \in l + 1..Len(s) - 1 : /\ s[k].op \in {"maskwrite", "maskdelay"}
                                      /\ Writing(s[k]) => s[k].unit \notin SlcrUnits
  PROVE  LockFacts(s) /\ Ends(s) /\ LockAt(s) = l
<1>1. /\ Listed(s) /\ Len(s) \in Nat /\ l \in 2..Len(s) - 1
      /\ s[1] = V30!Unlock /\ s[l] = V30!Lock /\ s[Len(s)] = V30!Exit
  BY ListedLen DEF Bracketed
<1>2. "slcr" \in SlcrUnits
  BY DEF SlcrUnits
<1>3. LockAt(s) = l
  <2>1. ASSUME NEW k \in 2..Len(s) - 1, k # l PROVE s[k] # V30!Lock
    <3>1. k \in 2..l - 1 \/ k \in l + 1..Len(s) - 1
      BY <1>1, <2>1
    <3> QED
      BY <3>1, Keys
  <2> QED
    BY <1>1, <2>1, LockAtIs
<1>4. ASSUME NEW k \in 1..Len(s)
      PROVE  /\ Writes(s[k], "slcr", "lock") => k = 1 \/ k = l
             /\ Writing(s[k]) /\ s[k].unit \in SlcrUnits /\ ~Writes(s[k], "slcr", "lock")
                  => 1 < k /\ k < l
             /\ s[k].op = "maskpoll" => 1 < k /\ k < l
             /\ s[k].op = "exit" <=> k = Len(s)
  <2>1. CASE k = 1
    BY <1>1, <2>1, Keys DEF Writes, Writing
  <2>2. CASE k \in 2..l - 1
    BY <1>1, <2>2
  <2>3. CASE k = l
    BY <1>1, <2>3, Keys DEF Writes, Writing
  <2>4. CASE k \in l + 1..Len(s) - 1
    BY <1>1, <1>2, <2>4 DEF Writes
  <2>5. CASE k = Len(s)
    BY <1>1, <2>5, Keys DEF Writes, Writing
  <2> QED
    BY <1>1, <2>1, <2>2, <2>3, <2>4, <2>5
<1> QED
  BY <1>1, <1>3, <1>4 DEF LockFacts, Ends

(* The units each table writes. *)
UnitsOf ==
  [mio |-> {"ddriob", "dci", "sdio", "mio", "slcr"},
   pll |-> {"armpll", "ddrpll", "iopll", "clk", "slcr"},
   clock |-> {"clk", "fabric", "slcr"},
   ddr |-> {"ddrc"},
   peripherals |-> {"slcr", "ddriob", "uart1", "uart0", "qspi", "devcfg", "gpio"},
   post |-> {"slcr"},
   debug |-> {"cti"}]

WritesOnly(s, U) == \A k \in 1..Len(s) : Writing(s[k]) => s[k].unit \in U
NoDelay(s) == \A k \in 1..Len(s) : s[k].op # "maskdelay"

(* What a table leaves in a register. *)
Final(s, u, f, v) ==
  \E k \in 1..Len(s) - 1 :
    Stays(s, k, Len(s) - 1) /\ Writes(s[k], u, f) /\ s[k].value = v

(* What the shapes say about single operations, table by table.            *)
LEMMA MioFacts ==
  ASSUME NEW s, MioShape(s)
  PROVE  /\ LockFacts(s) /\ Ends(s) /\ NoDelay(s) /\ WritesOnly(s, UnitsOf["mio"])
         /\ \A n \in 0..53 : Final(s, "mio", n, BoardPin[n])
<1>1. PICK l \in Nat : /\ Bracketed(s, l) /\ Len(s) = l + 1
                       /\ \A k \in 2..l - 1 : MioWork(s[k])
                       /\ \A n \in 0..53 : \E k \in 2..l - 1 : s[k] = PinOp(n)
  BY DEF MioShape
<1>2. /\ Listed(s) /\ l \in 2..Len(s) - 1 /\ Len(s) = l + 1
      /\ s[1] = V30!Unlock /\ s[l] = V30!Lock /\ s[Len(s)] = V30!Exit
  BY <1>1 DEF Bracketed
<1>3. \A n : /\ PinOp(n).op = "maskwrite" /\ PinOp(n).unit = "mio"
             /\ PinOp(n).field = n /\ PinOp(n).value = BoardPin[n]
  BY DEF PinOp, V30!MaskWrite
<1>4. \A k \in 2..l - 1 : /\ s[k].op = "maskwrite"
                          /\ s[k].unit \in {"ddriob", "dci", "sdio", "mio"}
                          /\ s[k].unit = "mio" => s[k].value = BoardPin[s[k].field]
  <2> SUFFICES ASSUME NEW k \in 2..l - 1
               PROVE  /\ s[k].op = "maskwrite"
                      /\ s[k].unit \in {"ddriob", "dci", "sdio", "mio"}
                      /\ s[k].unit = "mio" => s[k].value = BoardPin[s[k].field]
    OBVIOUS
  <2>1. MioWork(s[k])
    BY <1>1
  <2>2. CASE s[k].unit \in {"ddriob", "dci", "sdio"}
    BY <2>1, <2>2 DEF MioWork
  <2>3. CASE \E n \in 0..53 : s[k] = PinOp(n)
    <3>1. PICK n \in 0..53 : s[k] = PinOp(n)
      BY <2>3
    <3> DEFINE o == s[k]
    <3>2. /\ o.op = "maskwrite" /\ o.unit = "mio" /\ o.field = n /\ o.value = BoardPin[n]
      BY <3>1, <1>3
    <3> HIDE DEF o
    <3>3. /\ o.op = "maskwrite" /\ o.unit = "mio" /\ o.value = BoardPin[o.field]
      BY <3>2
    <3> QED
      BY <3>3 DEF o
  <2> QED
    BY <2>1, <2>2, <2>3 DEF MioWork
<1>5. LockFacts(s) /\ Ends(s)
  <2>1. \A k \in 2..l - 1 : /\ s[k].op \in {"maskwrite", "maskpoll"}
                            /\ ~Writes(s[k], "slcr", "lock")
    BY <1>4 DEF Writes
  <2>2. \A k \in l + 1..Len(s) - 1 : /\ s[k].op \in {"maskwrite", "maskdelay"}
                                     /\ Writing(s[k]) => s[k].unit \notin SlcrUnits
    BY <1>2
  <2> QED
    BY <1>1, <2>1, <2>2, BracketFacts
<1>6. ASSUME NEW k \in 1..Len(s)
      PROVE  s[k].op # "maskdelay" /\ (Writing(s[k]) => s[k].unit \in UnitsOf["mio"])
             /\ (Writing(s[k]) /\ s[k].unit = "mio" => s[k].value = BoardPin[s[k].field])
  <2>1. k = 1 \/ k \in 2..l - 1 \/ k = l \/ k = Len(s)
    BY <1>2
  <2> QED
    BY <2>1, <1>2, <1>4, Keys DEF UnitsOf, Writing
<1>7. ASSUME NEW n \in 0..53 PROVE Final(s, "mio", n, BoardPin[n])
  <2>1. PICK k \in 2..l - 1 : s[k] = PinOp(n)
    BY <1>1
  <2>2. k \in 1..Len(s) - 1 /\ \A m \in k + 1..Len(s) - 1 : m \in 1..Len(s)
    BY <1>2
  <2>3. Writes(s[k], "mio", n) /\ s[k].value = BoardPin[n]
    BY <2>1, <1>3 DEF Writes, Writing
  <2>4. Stays(s, k, Len(s) - 1)
    BY <2>2, <2>3, <1>6 DEF Stays, Writes
  <2> QED
    BY <2>2, <2>3, <2>4 DEF Final
<1> QED
  BY <1>5, <1>6, <1>7 DEF NoDelay, WritesOnly

LEMMA ClockFacts ==
  ASSUME NEW s, ClockShape(s)
  PROVE  /\ LockFacts(s) /\ Ends(s) /\ NoDelay(s) /\ WritesOnly(s, UnitsOf["clock"])
         /\ \A k \in 1..Len(s) : ~Writes(s[k], "clk", "ddr")
         /\ Final(s, "clk", "aper", AperUnits)
<1>1. PICK l \in Nat : /\ Bracketed(s, l) /\ Len(s) = l + 1
                       /\ \A k \in 2..l - 1 : ClockWork(s[k])
                       /\ \E k \in 2..l - 1 : s[k] = AperOp
  BY DEF ClockShape
<1>2. /\ Listed(s) /\ l \in 2..Len(s) - 1 /\ Len(s) = l + 1
      /\ s[1] = V30!Unlock /\ s[l] = V30!Lock /\ s[Len(s)] = V30!Exit
  BY <1>1 DEF Bracketed
<1>3. /\ AperOp.op = "maskwrite" /\ AperOp.unit = "clk"
      /\ AperOp.field = "aper" /\ AperOp.value = AperUnits
  BY DEF AperOp, V30!MaskWrite
<1>4. \A k \in 2..l - 1 :
        /\ s[k].op = "maskwrite" /\ s[k].unit \in {"clk", "fabric"} /\ s[k].field # "ddr"
        /\ Writes(s[k], "clk", "aper") => s[k].value = AperUnits
  BY <1>1, <1>3 DEF ClockWork, Writes
<1>5. LockFacts(s) /\ Ends(s)
  BY <1>1, <1>2, <1>4, BracketFacts DEF Writes
<1>6. ASSUME NEW k \in 1..Len(s)
      PROVE  /\ s[k].op # "maskdelay" /\ (Writing(s[k]) => s[k].unit \in UnitsOf["clock"])
             /\ Writes(s[k], "clk", "aper") => s[k].value = AperUnits
             /\ ~Writes(s[k], "clk", "ddr")
  <2>1. k = 1 \/ k \in 2..l - 1 \/ k = l \/ k = Len(s)
    BY <1>2
  <2> QED
    BY <2>1, <1>2, <1>4, Keys DEF UnitsOf, Writing, Writes
<1>7. Final(s, "clk", "aper", AperUnits)
  <2>1. PICK k \in 2..l - 1 : s[k] = AperOp
    BY <1>1
  <2>2. k \in 1..Len(s) - 1 /\ \A m \in k + 1..Len(s) - 1 : m \in 1..Len(s)
    BY <1>2
  <2>3. Writes(s[k], "clk", "aper") /\ s[k].value = AperUnits
    BY <2>1, <1>3 DEF Writes, Writing
  <2>4. Stays(s, k, Len(s) - 1)
    BY <2>2, <2>3, <1>6 DEF Stays, Writes
  <2> QED
    BY <2>2, <2>3, <2>4 DEF Final
<1> QED
  BY <1>5, <1>6, <1>7 DEF NoDelay, WritesOnly

(* In the PLL table a bypass goes only after the poll, a reset comes only   *)
(* after the bypass.                                                        *)
PllOrder(s) ==
  \A k \in 1..Len(s) : \A p \in Plls :
    /\ Writes(s[k], p, "bypass") /\ s[k].value = "off" =>
         k > 1 /\ s[k - 1] = V30!MaskPoll(p, "lock")
    /\ Writes(s[k], p, "reset") =>
         /\ k > 1 /\ ~Writes(s[k - 1], "slcr", "lock")
         /\ Writes(s[k - 1], p, "reset") \/ s[k - 1] = V30!MaskWrite(p, "bypass", "on")

LEMMA SetupIs ==
  ASSUME NEW p
  PROVE  LET s == V30!PllSetup(p)
         IN  /\ s[1] = V30!MaskWrite(p, "cfg", "set") /\ s[2] = V30!MaskWrite(p, "fdiv", "set")
             /\ s[3] = V30!MaskWrite(p, "bypass", "on")
             /\ s[4] = V30!MaskWrite(p, "reset", "on") /\ s[5] = V30!MaskWrite(p, "reset", "off")
             /\ s[6] = V30!MaskPoll(p, "lock") /\ s[7] = V30!MaskWrite(p, "bypass", "off")
  BY DEF V30!PllSetup

LEMMA PllPositions ==
  ASSUME NEW s, PllShape(s)
  PROVE  /\ s[1] = V30!Unlock /\ s[9] = ArmClockOp /\ s[17] = DdrClockOp
         /\ s[25] = V30!Lock /\ s[26] = V30!Exit /\ Len(s) = 26
         /\ \A a \in {1, 9, 17} :
              LET p == IF a = 1 THEN "armpll" ELSE IF a = 9 THEN "ddrpll" ELSE "iopll"
              IN  /\ s[a + 1] = V30!MaskWrite(p, "cfg", "set")
                  /\ s[a + 2] = V30!MaskWrite(p, "fdiv", "set")
                  /\ s[a + 3] = V30!MaskWrite(p, "bypass", "on")
                  /\ s[a + 4] = V30!MaskWrite(p, "reset", "on")
                  /\ s[a + 5] = V30!MaskWrite(p, "reset", "off")
                  /\ s[a + 6] = V30!MaskPoll(p, "lock")
                  /\ s[a + 7] = V30!MaskWrite(p, "bypass", "off")
<1>1. /\ s[1] = V30!Unlock /\ s[25] = V30!Lock /\ s[26] = V30!Exit /\ Len(s) = 26
      /\ s[9] = ArmClockOp /\ s[17] = DdrClockOp
  BY DEF PllShape, Bracketed
<1>2. ASSUME NEW a \in Nat, NEW p, SetupAt(s, a, p)
      PROVE  /\ s[a + 1] = V30!MaskWrite(p, "cfg", "set")
             /\ s[a + 2] = V30!MaskWrite(p, "fdiv", "set")
             /\ s[a + 3] = V30!MaskWrite(p, "bypass", "on")
             /\ s[a + 4] = V30!MaskWrite(p, "reset", "on")
             /\ s[a + 5] = V30!MaskWrite(p, "reset", "off")
             /\ s[a + 6] = V30!MaskPoll(p, "lock")
             /\ s[a + 7] = V30!MaskWrite(p, "bypass", "off")
  BY <1>2, SetupIs DEF SetupAt
<1>3. SetupAt(s, 1, "armpll") /\ SetupAt(s, 9, "ddrpll") /\ SetupAt(s, 17, "iopll")
  BY DEF PllShape
<1> QED
  BY <1>1, <1>2, <1>3

-----------------------------------------------------------------------------
PllAt(a) == IF a = 1 THEN "armpll" ELSE IF a = 9 THEN "ddrpll" ELSE "iopll"

LEMMA PllFacts ==
  ASSUME NEW s, PllShape(s)
  PROVE  /\ LockFacts(s) /\ Ends(s) /\ NoDelay(s) /\ WritesOnly(s, UnitsOf["pll"])
         /\ PllOrder(s) /\ Final(s, "clk", "ddr", {"ddr"})
         /\ \A p \in Plls : Final(s, p, "bypass", "off")
<1>1. /\ s[1] = V30!Unlock /\ s[25] = V30!Lock /\ s[26] = V30!Exit /\ Len(s) = 26
      /\ s[9] = ArmClockOp /\ s[17] = DdrClockOp /\ Bracketed(s, 25)
  BY PllPositions DEF PllShape
<1>2. \A a \in {1, 9, 17} :
        /\ s[a + 1] = V30!MaskWrite(PllAt(a), "cfg", "set")
        /\ s[a + 2] = V30!MaskWrite(PllAt(a), "fdiv", "set")
        /\ s[a + 3] = V30!MaskWrite(PllAt(a), "bypass", "on")
        /\ s[a + 4] = V30!MaskWrite(PllAt(a), "reset", "on")
        /\ s[a + 5] = V30!MaskWrite(PllAt(a), "reset", "off")
        /\ s[a + 6] = V30!MaskPoll(PllAt(a), "lock")
        /\ s[a + 7] = V30!MaskWrite(PllAt(a), "bypass", "off")
  BY PllPositions DEF PllAt
<1>3. \A k \in 1..26 : \/ k \in {1, 9, 17, 25, 26}
                       \/ \E a \in {1, 9, 17} : \E j \in 1..7 : k = a + j
  <2> SUFFICES ASSUME NEW k \in 1..26, k \notin {1, 9, 17, 25, 26}
               PROVE  \E a \in {1, 9, 17} : \E j \in 1..7 : k = a + j
    OBVIOUS
  <2>1. CASE k < 9
    <3>1. k - 1 \in 1..7 /\ k = 1 + (k - 1)
      BY <2>1
    <3> QED
      BY <3>1
  <2>2. CASE 9 < k /\ k < 17
    <3>1. k - 9 \in 1..7 /\ k = 9 + (k - 9)
      BY <2>2
    <3> QED
      BY <3>1
  <2>3. CASE 17 < k
    <3>1. k - 17 \in 1..7 /\ k = 17 + (k - 17)
      BY <2>3
    <3> QED
      BY <3>1
  <2> QED
    BY <2>1, <2>2, <2>3
<1>4. \A j \in 1..7 : j = 1 \/ j = 2 \/ j = 3 \/ j = 4 \/ j = 5 \/ j = 6 \/ j = 7
  OBVIOUS
<1>5. \A a \in {1, 9, 17} : PllAt(a) \in Plls
  BY DEF PllAt, Plls
<1>6. \A p \in Plls : p # "slcr" /\ p # "clk"
  BY DEF Plls
<1>7. \A a \in {1, 9, 17} : \A j \in 1..7 :
        /\ s[a + j].unit = PllAt(a) /\ s[a + j].op \in {"maskwrite", "maskpoll"}
        /\ Writes(s[a + j], PllAt(a), "bypass") => j = 3 \/ j = 7
        /\ Writes(s[a + j], PllAt(a), "reset") => j = 4 \/ j = 5
        /\ j = 3 => s[a + j].value = "on"
  <2> SUFFICES ASSUME NEW a \in {1, 9, 17}, NEW j \in 1..7
               PROVE  /\ s[a + j].unit = PllAt(a) /\ s[a + j].op \in {"maskwrite", "maskpoll"}
                      /\ Writes(s[a + j], PllAt(a), "bypass") => j = 3 \/ j = 7
                      /\ Writes(s[a + j], PllAt(a), "reset") => j = 4 \/ j = 5
                      /\ j = 3 => s[a + j].value = "on"
    OBVIOUS
  <2>1. CASE j = 1
    BY <2>1, <1>2 DEF V30!MaskWrite, Writes
  <2>2. CASE j = 2
    BY <2>2, <1>2 DEF V30!MaskWrite, Writes
  <2>3. CASE j = 3
    BY <2>3, <1>2 DEF V30!MaskWrite, Writes
  <2>4. CASE j = 4
    BY <2>4, <1>2 DEF V30!MaskWrite, Writes
  <2>5. CASE j = 5
    BY <2>5, <1>2 DEF V30!MaskWrite, Writes
  <2>6. CASE j = 6
    BY <2>6, <1>2 DEF V30!MaskPoll, Writes, Writing
  <2>7. CASE j = 7
    BY <2>7, <1>2 DEF V30!MaskWrite, Writes
  <2> QED
    BY <1>4, <2>1, <2>2, <2>3, <2>4, <2>5, <2>6, <2>7
<1>8. /\ ArmClockOp.op = "maskwrite" /\ ArmClockOp.unit = "clk" /\ ArmClockOp.field = "arm"
      /\ DdrClockOp.op = "maskwrite" /\ DdrClockOp.unit = "clk" /\ DdrClockOp.field = "ddr"
      /\ DdrClockOp.value = {"ddr"}
  BY DEF ArmClockOp, DdrClockOp, V30!MaskWrite
<1>9. LockFacts(s) /\ Ends(s)
  <2>1. \A k \in 2..25 - 1 : /\ s[k].op \in {"maskwrite", "maskpoll"}
                             /\ ~Writes(s[k], "slcr", "lock")
    BY <1>1, <1>3, <1>5, <1>6, <1>7, <1>8 DEF Writes
  <2>2. \A k \in 25 + 1..Len(s) - 1 : /\ s[k].op \in {"maskwrite", "maskdelay"}
                                      /\ Writing(s[k]) => s[k].unit \notin SlcrUnits
    BY <1>1
  <2>3. Bracketed(s, 25) /\ 25 \in Nat
    BY <1>1
  <2> QED
    BY <2>1, <2>2, <2>3, BracketFacts
<1>10. NoDelay(s) /\ WritesOnly(s, UnitsOf["pll"])
  <2>1. ASSUME NEW k \in 1..26
        PROVE  s[k].op # "maskdelay" /\ (Writing(s[k]) => s[k].unit \in UnitsOf["pll"])
    <3>1. CASE k \in {1, 9, 17, 25, 26}
      BY <3>1, <1>1, <1>8, Keys DEF UnitsOf, Writing
    <3>2. CASE \E a \in {1, 9, 17} : \E j \in 1..7 : k = a + j
      <4>1. PICK a \in {1, 9, 17}, j \in 1..7 : k = a + j
        BY <3>2
      <4> QED
        BY <4>1, <1>5, <1>7 DEF UnitsOf, Plls
    <3> QED
      BY <3>1, <3>2, <1>3
  <2> QED
    BY <2>1, <1>1 DEF NoDelay, WritesOnly
<1>11. ASSUME NEW k \in 1..26, NEW p \in Plls, NEW f \in {"bypass", "reset"}, Writes(s[k], p, f)
       PROVE  \E a \in {1, 9, 17} : \E j \in 1..7 : k = a + j /\ p = PllAt(a)
  <2>1. s[k].unit = p
    BY <1>11 DEF Writes
  <2>2. k \notin {1, 9, 17, 25, 26}
    <3>1. s[26].op = "exit" /\ ~Writes(s[26], p, f)
      BY <1>1, Keys DEF Writes, Writing
    <3> QED
      BY <2>1, <3>1, <1>1, <1>6, <1>8, <1>11, Keys
  <2>3. PICK a \in {1, 9, 17}, j \in 1..7 : k = a + j
    BY <2>2, <1>3
  <2> QED
    BY <2>1, <2>3, <1>7
<1>12. PllOrder(s)
  <2>1. ASSUME NEW k \in 1..26, NEW p \in Plls, Writes(s[k], p, "bypass"), s[k].value = "off"
        PROVE  k > 1 /\ s[k - 1] = V30!MaskPoll(p, "lock")
    <3>1. PICK a \in {1, 9, 17}, j \in 1..7 : k = a + j /\ p = PllAt(a)
      BY <2>1, <1>11
    <3>2. j = 7
      BY <2>1, <3>1, <1>7
    <3>3. k - 1 = a + 6
      BY <3>1, <3>2
    <3> QED
      BY <3>1, <3>2, <3>3, <1>2
  <2>2. ASSUME NEW k \in 1..26, NEW p \in Plls, Writes(s[k], p, "reset")
        PROVE  /\ k > 1 /\ ~Writes(s[k - 1], "slcr", "lock")
               /\ Writes(s[k - 1], p, "reset") \/ s[k - 1] = V30!MaskWrite(p, "bypass", "on")
    <3>1. PICK a \in {1, 9, 17}, j \in 1..7 : k = a + j /\ p = PllAt(a)
      BY <2>2, <1>11
    <3>2. j = 4 \/ j = 5
      BY <2>2, <3>1, <1>7
    <3>3. k > 1 /\ k - 1 = a + (j - 1) /\ j - 1 \in 1..7
      BY <3>1, <3>2
    <3>4. ~Writes(s[k - 1], "slcr", "lock")
      BY <3>3, <1>5, <1>6, <1>7 DEF Writes
    <3>5. CASE j = 4
      BY <3>1, <3>3, <3>4, <3>5, <1>2
    <3>6. CASE j = 5
      <4>1. k - 1 = a + 4
        BY <3>3, <3>6
      <4>2. Writes(s[k - 1], p, "reset")
        BY <3>1, <4>1, <1>2 DEF V30!MaskWrite, Writes, Writing
      <4> QED
        BY <3>3, <3>4, <4>2
    <3> QED
      BY <3>2, <3>5, <3>6
  <2> QED
    BY <2>1, <2>2, <1>1 DEF PllOrder
<1>13. Final(s, "clk", "ddr", {"ddr"})
  <2>1. Writes(s[17], "clk", "ddr") /\ s[17].value = {"ddr"}
    BY <1>1, <1>8 DEF Writes, Writing
  <2>2. \A m \in 17 + 1..25 : ~Writes(s[m], "clk", "ddr")
    BY <1>1, <1>3, <1>5, <1>6, <1>7, <1>8, Keys DEF Writes
  <2>3. Stays(s, 17, 25)
    BY <2>1, <2>2 DEF Stays, Writes
  <2> QED
    BY <1>1, <2>1, <2>3 DEF Final
<1>14. ASSUME NEW p \in Plls PROVE Final(s, p, "bypass", "off")
  <2>1. PICK a \in {1, 9, 17} : p = PllAt(a)
    BY DEF PllAt, Plls
  <2>2. Writes(s[a + 7], p, "bypass") /\ s[a + 7].value = "off"
    BY <2>1, <1>2 DEF V30!MaskWrite, Writes, Writing
  <2>3. ASSUME NEW m \in a + 7 + 1..25, Writes(s[m], p, "bypass") PROVE FALSE
    <3>1. PICK b \in {1, 9, 17}, j \in 1..7 : m = b + j /\ p = PllAt(b)
      BY <2>3, <1>11
    <3>2. b = a
      BY <2>1, <3>1 DEF PllAt
    <3> QED
      BY <2>3, <3>1, <3>2
  <2>4. Stays(s, a + 7, 25)
    BY <2>2, <2>3, <1>6 DEF Stays, Writes
  <2>5. a + 7 \in 1..25
    OBVIOUS
  <2> QED
    BY <1>1, <2>2, <2>4, <2>5 DEF Final
<1> QED
  BY <1>9, <1>10, <1>12, <1>13, <1>14

NoPoll(s) == \A k \in 1..Len(s) : s[k].op # "maskpoll"

LEMMA MioPolls == ASSUME NEW s, MioShape(s) PROVE NoPoll(s)
<1>1. PICK l \in Nat : /\ Bracketed(s, l) /\ Len(s) = l + 1
                       /\ \A k \in 2..l - 1 : MioWork(s[k])
  BY DEF MioShape
<1>2. /\ l \in 2..Len(s) - 1 /\ Len(s) = l + 1
      /\ s[1] = V30!Unlock /\ s[l] = V30!Lock /\ s[Len(s)] = V30!Exit
  BY <1>1 DEF Bracketed
<1>3. \A k \in 2..l - 1 : s[k].op = "maskwrite"
  BY <1>1 DEF MioWork
<1>4. ASSUME NEW k \in 1..Len(s) PROVE s[k].op # "maskpoll"
  <2>1. k = 1 \/ k \in 2..l - 1 \/ k = l \/ k = Len(s)
    BY <1>2
  <2> QED
    BY <2>1, <1>2, <1>3, Keys
<1> QED
  BY <1>4 DEF NoPoll

LEMMA ClockPolls == ASSUME NEW s, ClockShape(s) PROVE NoPoll(s)
<1>1. PICK l \in Nat : /\ Bracketed(s, l) /\ Len(s) = l + 1
                       /\ \A k \in 2..l - 1 : ClockWork(s[k])
  BY DEF ClockShape
<1>2. /\ l \in 2..Len(s) - 1 /\ Len(s) = l + 1
      /\ s[1] = V30!Unlock /\ s[l] = V30!Lock /\ s[Len(s)] = V30!Exit
  BY <1>1 DEF Bracketed
<1>3. \A k \in 2..l - 1 : s[k].op = "maskwrite"
  BY <1>1 DEF ClockWork
<1>4. ASSUME NEW k \in 1..Len(s) PROVE s[k].op # "maskpoll"
  <2>1. k = 1 \/ k \in 2..l - 1 \/ k = l \/ k = Len(s)
    BY <1>2
  <2> QED
    BY <2>1, <1>2, <1>3, Keys
<1> QED
  BY <1>4 DEF NoPoll

(* In the DDR table the controller is held first; it is released after every *)
(* lane and the poll for the calibration, and the table ends with the poll  *)
(* for the controller.                                                      *)
DdrOrder(s) ==
  \A k \in 1..Len(s) :
    /\ Writes(s[k], "ddrc", 0) => s[k] = ReleaseOp \/ (s[k] = HoldOp /\ k = 1)
    /\ s[k] = ReleaseOp =>
         /\ k > 1 /\ s[k - 1] = DciPoll
         /\ \A f \in LaneRegisters : \E j \in 2..k - 1 : Writes(s[j], "ddrc", f)
    /\ s[k].op = "exit" => s[k - 1] = DdrPoll
    /\ s[k].op = "maskpoll" => s[k] \in {DciPoll, DdrPoll}

LEMMA DdrOps ==
  /\ HoldOp.op = "maskwrite" /\ HoldOp.unit = "ddrc" /\ HoldOp.field = 0 /\ HoldOp.value = "held"
  /\ ReleaseOp.op = "maskwrite" /\ ReleaseOp.unit = "ddrc" /\ ReleaseOp.field = 0
  /\ ReleaseOp.value = "released"
  /\ DciPoll.op = "maskpoll" /\ DciPoll.unit = "dci"
  /\ DdrPoll.op = "maskpoll" /\ DdrPoll.unit = "ddrc"
  /\ \A f : SetOp(f).op = "maskwrite" /\ SetOp(f).unit = "ddrc" /\ SetOp(f).field = f
  BY DEF HoldOp, ReleaseOp, DciPoll, DdrPoll, SetOp, V30!MaskWrite, V30!MaskPoll

LEMMA DdrFacts ==
  ASSUME NEW s, DdrShape(s)
  PROVE  Ends(s) /\ NoDelay(s) /\ WritesOnly(s, UnitsOf["ddr"]) /\ DdrOrder(s)
<1>1. PICK n \in Nat :
        /\ Listed(s) /\ Len(s) = n + 5 /\ s[1] = HoldOp
        /\ \A k \in 2..n + 1 : \E f \in Nat \ {0} : s[k] = SetOp(f)
        /\ \A f \in LaneRegisters : \E k \in 2..n + 1 : s[k] = SetOp(f)
        /\ s[n + 2] = DciPoll /\ s[n + 3] = ReleaseOp /\ s[n + 4] = DdrPoll
        /\ s[n + 5] = V30!Exit
  BY DEF DdrShape
<1>2. ASSUME NEW k \in 2..n + 1
      PROVE  s[k].op = "maskwrite" /\ s[k].unit = "ddrc" /\ s[k].field \in Nat \ {0}
  <2>1. PICK f \in Nat \ {0} : s[k] = SetOp(f)
    BY <1>1
  <2> QED
    BY <2>1, DdrOps
<1>3. ASSUME NEW k \in 1..Len(s)
      PROVE  k = 1 \/ k \in 2..n + 1 \/ k = n + 2 \/ k = n + 3 \/ k = n + 4 \/ k = n + 5
  BY <1>1
<1>4. ASSUME NEW k \in 1..Len(s)
      PROVE  /\ s[k].op = "exit" <=> k = Len(s)
             /\ s[k].op # "maskdelay" /\ (Writing(s[k]) => s[k].unit = "ddrc")
             /\ Writes(s[k], "ddrc", 0) => (k = 1 \/ k = n + 3)
             /\ s[k] = ReleaseOp => k = n + 3
             /\ s[k].op = "maskpoll" => k = n + 2 \/ k = n + 4
  <2>1. CASE k = 1
    BY <2>1, <1>1, DdrOps
  <2>2. CASE k \in 2..n + 1
    <3>1. /\ s[k].op = "maskwrite" /\ s[k].unit = "ddrc" /\ s[k].field # 0
          /\ k # Len(s)
      BY <2>2, <1>1, <1>2
    <3> QED
      BY <3>1, DdrOps DEF Writes
  <2>3. CASE k = n + 2
    BY <2>3, <1>1, DdrOps DEF Writes, Writing
  <2>4. CASE k = n + 3
    BY <2>4, <1>1, DdrOps
  <2>5. CASE k = n + 4
    BY <2>5, <1>1, DdrOps DEF Writes, Writing
  <2>6. CASE k = n + 5
    BY <2>6, <1>1, DdrOps, Keys DEF Writes, Writing
  <2> QED
    BY <1>3, <2>1, <2>2, <2>3, <2>4, <2>5, <2>6
<1>5. DdrOrder(s)
  <2>1. ASSUME NEW f \in LaneRegisters
        PROVE  \E j \in 2..n + 3 - 1 : Writes(s[j], "ddrc", f)
    <3>1. PICK j \in 2..n + 1 : s[j] = SetOp(f)
      BY <1>1
    <3>2. j \in 2..n + 3 - 1
      OBVIOUS
    <3>3. Writes(s[j], "ddrc", f)
      BY <3>1, DdrOps DEF Writes, Writing
    <3> QED
      BY <3>2, <3>3
  <2>2. n + 3 > 1 /\ n + 3 - 1 = n + 2 /\ Len(s) - 1 = n + 4
    BY <1>1
  <2>3. ASSUME NEW k \in 1..Len(s)
        PROVE  /\ Writes(s[k], "ddrc", 0) => s[k] = ReleaseOp \/ (s[k] = HoldOp /\ k = 1)
               /\ s[k] = ReleaseOp =>
                    /\ k > 1 /\ s[k - 1] = DciPoll
                    /\ \A f \in LaneRegisters : \E j \in 2..k - 1 : Writes(s[j], "ddrc", f)
               /\ s[k].op = "exit" => s[k - 1] = DdrPoll
               /\ s[k].op = "maskpoll" => s[k] \in {DciPoll, DdrPoll}
    <3>1. Writes(s[k], "ddrc", 0) => s[k] = ReleaseOp \/ (s[k] = HoldOp /\ k = 1)
      BY <1>1, <1>4
    <3>2. s[k] = ReleaseOp =>
            /\ k > 1 /\ s[k - 1] = DciPoll
            /\ \A f \in LaneRegisters : \E j \in 2..k - 1 : Writes(s[j], "ddrc", f)
      BY <1>1, <1>4, <2>1, <2>2
    <3>3. s[k].op = "exit" => s[k - 1] = DdrPoll
      BY <1>1, <1>4, <2>2
    <3>4. s[k].op = "maskpoll" => s[k] \in {DciPoll, DdrPoll}
      BY <1>1, <1>4
    <3> QED
      BY <3>1, <3>2, <3>3, <3>4
  <2> QED
    BY <2>3 DEF DdrOrder
<1>6. Ends(s)
  BY <1>1, <1>4, ListedLen DEF Ends
<1> QED
  BY <1>4, <1>5, <1>6 DEF NoDelay, WritesOnly, UnitsOf

(* The reset pulse of the USB PHY: low, the delay, high.                    *)
PulseOrder(s) ==
  \A k \in 1..Len(s) :
    /\ s[k].op = "maskdelay" =>
         /\ k > 1 /\ s[k - 1] = LowOp
         /\ \A m \in k + 1..Len(s) :
              Writing(s[m]) /\ s[m].unit = "gpio" => s[m].value # "low"
    /\ s[k].op = "exit" => \E m \in 1..k - 1 : s[m].op = "maskdelay"

LEMMA PulseOps ==
  /\ \A o \in {LowOp, HighOp} : o.op = "maskwrite" /\ o.unit = "gpio" /\ o.field = "pin51"
  /\ LowOp.value = "low" /\ HighOp.value = "high"
  /\ OutputOp.op = "maskwrite" /\ OutputOp.unit = "gpio" /\ OutputOp.field = "output"
  /\ OutputOp.value = "pin51"
  /\ DirectionOp.op = "maskwrite" /\ DirectionOp.unit = "gpio" /\ DirectionOp.field = "direction"
  /\ DirectionOp.value = "pin51"
  BY DEF LowOp, HighOp, OutputOp, DirectionOp, V30!MaskWrite

LEMMA PeripheralsFacts ==
  ASSUME NEW s, PeripheralsShape(s)
  PROVE  /\ LockFacts(s) /\ Ends(s) /\ NoPoll(s) /\ WritesOnly(s, UnitsOf["peripherals"])
         /\ PulseOrder(s) /\ Final(s, "gpio", "pin51", "high")
         /\ Final(s, "gpio", "output", "pin51")
<1>1. PICK l \in Nat, n \in Nat :
        /\ Bracketed(s, l) /\ l <= n /\ Len(s) = n + 7
        /\ \A k \in 2..l - 1 : s[k].op = "maskwrite" /\ s[k].unit = "ddriob"
        /\ \A k \in l + 1..n : s[k].op = "maskwrite" /\ s[k].unit \in Consoles
        /\ s[n + 1] = DirectionOp /\ s[n + 2] = HighOp /\ s[n + 3] = OutputOp
        /\ s[n + 4] = LowOp /\ s[n + 5] = V30!MaskDelay /\ s[n + 6] = HighOp
        /\ s[n + 7] = V30!Exit
  BY DEF PeripheralsShape
<1>2. l \in 2..Len(s) - 1 /\ s[1] = V30!Unlock /\ s[l] = V30!Lock
  BY <1>1 DEF Bracketed
<1>3. ASSUME NEW k \in 1..Len(s)
      PROVE  \/ k = 1 \/ k \in 2..l - 1 \/ k = l \/ k \in l + 1..n
             \/ k = n + 1 \/ k = n + 2 \/ k = n + 3 \/ k = n + 4 \/ k = n + 5 \/ k = n + 6
             \/ k = n + 7
  BY <1>1, <1>2
<1> n \in Nat
  BY <1>1
<1>4. ASSUME NEW k \in n + 1..n + 6
      PROVE  /\ s[k].op \in {"maskwrite", "maskdelay"}
             /\ Writing(s[k]) => s[k].unit = "gpio"
             /\ s[k].op = "maskdelay" => k = n + 5
             /\ Writing(s[k]) /\ s[k].value = "low" => k = n + 4
             /\ Writes(s[k], "gpio", "output") => s[k].value = "pin51"
  <2>1. k = n + 1 \/ k = n + 2 \/ k = n + 3 \/ k = n + 4 \/ k = n + 5 \/ k = n + 6
    OBVIOUS
  <2>2. CASE k = n + 1
    BY <2>2, <1>1, PulseOps DEF Writes, Writing
  <2>3. CASE k = n + 2
    BY <2>3, <1>1, PulseOps DEF Writes, Writing
  <2>4. CASE k = n + 3
    BY <2>4, <1>1, PulseOps DEF Writes, Writing
  <2>5. CASE k = n + 4
    BY <2>5, <1>1, PulseOps DEF Writes, Writing
  <2>6. CASE k = n + 5
    BY <2>6, <1>1, Keys DEF Writes, Writing
  <2>7. CASE k = n + 6
    BY <2>7, <1>1, PulseOps DEF Writes, Writing
  <2> QED
    BY <2>1, <2>2, <2>3, <2>4, <2>5, <2>6, <2>7
<1>5. LockFacts(s) /\ Ends(s)
  <2>1. \A k \in 2..l - 1 : /\ s[k].op \in {"maskwrite", "maskpoll"}
                            /\ ~Writes(s[k], "slcr", "lock")
    BY <1>1 DEF Writes
  <2>2. ASSUME NEW k \in l + 1..Len(s) - 1
        PROVE  /\ s[k].op \in {"maskwrite", "maskdelay"}
               /\ Writing(s[k]) => s[k].unit \notin SlcrUnits
    <3>1. k \in l + 1..n \/ k \in n + 1..n + 6
      BY <1>1, <1>2
    <3>2. s[k].op \in {"maskwrite", "maskdelay"}
          /\ (Writing(s[k]) => s[k].unit \in Consoles \cup {"gpio"})
      BY <3>1, <1>1, <1>4
    <3> QED
      BY <3>2 DEF Consoles, SlcrUnits, Plls
  <2> QED
    BY <1>1, <2>1, <2>2, BracketFacts
<1>6. ASSUME NEW k \in 1..Len(s)
      PROVE  /\ s[k].op # "maskpoll"
             /\ Writing(s[k]) => s[k].unit \in UnitsOf["peripherals"]
             /\ s[k].op = "maskdelay" => k = n + 5
             /\ s[k].op = "exit" => k = n + 7
             /\ Writing(s[k]) /\ s[k].unit = "gpio" => k \in n + 1..n + 6
  <2>1. k = 1 \/ k \in 2..l - 1 \/ k = l \/ k \in l + 1..n \/ k \in n + 1..n + 6 \/ k = n + 7
    <3>1. k \in 1..n + 7 /\ l \in 2..n
      BY <1>1, <1>2
    <3> QED
      BY <3>1
  <2>2. CASE k = 1 \/ k = l
    BY <2>2, <1>2, Keys DEF UnitsOf, Writing
  <2>3. CASE k \in 2..l - 1
    BY <2>3, <1>1 DEF UnitsOf
  <2>4. CASE k \in l + 1..n
    <3>1. s[k].op = "maskwrite" /\ s[k].unit \in Consoles
      BY <2>4, <1>1
    <3> QED
      BY <3>1 DEF UnitsOf, Consoles
  <2>5. CASE k \in n + 1..n + 6
    BY <2>5, <1>4 DEF UnitsOf
  <2>6. CASE k = n + 7
    BY <2>6, <1>1, Keys DEF Writing
  <2> QED
    BY <2>1, <2>2, <2>3, <2>4, <2>5, <2>6
<1>7. PulseOrder(s)
  <2>1. ASSUME NEW k \in 1..Len(s), s[k].op = "maskdelay"
        PROVE  /\ k > 1 /\ s[k - 1] = LowOp
               /\ \A m \in k + 1..Len(s) :
                    Writing(s[m]) /\ s[m].unit = "gpio" => s[m].value # "low"
    <3>1. k = n + 5 /\ k > 1 /\ k - 1 = n + 4
      BY <2>1, <1>6
    <3>2. ASSUME NEW m \in k + 1..Len(s), Writing(s[m]), s[m].unit = "gpio", s[m].value = "low"
          PROVE  FALSE
      <4>1. m \in 1..Len(s) /\ m > n + 4
        BY <1>1, <3>1
      <4> QED
        BY <4>1, <3>2, <1>4, <1>6
    <3> QED
      BY <3>1, <3>2, <1>1
  <2>2. ASSUME NEW k \in 1..Len(s), s[k].op = "exit"
        PROVE  \E m \in 1..k - 1 : s[m].op = "maskdelay"
    <3>1. n + 5 \in 1..k - 1
      BY <2>2, <1>6
    <3> QED
      BY <3>1, <1>1, Keys
  <2> QED
    BY <2>1, <2>2 DEF PulseOrder
<1>8. Final(s, "gpio", "pin51", "high")
  <2>1. n + 6 \in 1..Len(s) - 1 /\ Writes(s[n + 6], "gpio", "pin51") /\ s[n + 6].value = "high"
    BY <1>1, PulseOps DEF Writes, Writing
  <2>2. n + 6 + 1..Len(s) - 1 = {}
    BY <1>1
  <2>3. Stays(s, n + 6, Len(s) - 1)
    BY <2>1, <2>2 DEF Stays, Writes
  <2> QED
    BY <2>1, <2>3 DEF Final
<1>9. Final(s, "gpio", "output", "pin51")
  <2>1. n + 3 \in 1..Len(s) - 1 /\ Writes(s[n + 3], "gpio", "output") /\ s[n + 3].value = "pin51"
    BY <1>1, PulseOps DEF Writes, Writing
  <2>2. \A m \in n + 3 + 1..Len(s) - 1 : m \in n + 1..n + 6
    BY <1>1
  <2>3. Stays(s, n + 3, Len(s) - 1)
    BY <2>1, <2>2, <1>4 DEF Stays, Writes
  <2> QED
    BY <2>1, <2>3 DEF Final
<1> QED
  BY <1>5, <1>6, <1>7, <1>8, <1>9 DEF NoPoll, WritesOnly

LEMMA PostFacts ==
  ASSUME NEW s, PostShape(s)
  PROVE  LockFacts(s) /\ Ends(s) /\ NoPoll(s) /\ NoDelay(s) /\ WritesOnly(s, UnitsOf["post"])
<1>1. /\ Bracketed(s, 4) /\ Len(s) = 5 /\ s[1] = V30!Unlock /\ s[4] = V30!Lock
      /\ s[5] = V30!Exit
      /\ \A k \in 2..3 : /\ s[k].op = "maskwrite" /\ s[k].unit = "slcr"
                         /\ s[k].field \in {"shifters", "fpga_resets"}
  <2>1. \A k \in 2..3 : k = 2 \/ k = 3
    OBVIOUS
  <2> QED
    BY <2>1 DEF PostShape, Bracketed, V30!MaskWrite
<1>2. LockFacts(s) /\ Ends(s)
  <2>1. \A k \in 2..4 - 1 : /\ s[k].op \in {"maskwrite", "maskpoll"}
                            /\ ~Writes(s[k], "slcr", "lock")
    BY <1>1 DEF Writes
  <2>2. \A k \in 4 + 1..Len(s) - 1 : /\ s[k].op \in {"maskwrite", "maskdelay"}
                                     /\ Writing(s[k]) => s[k].unit \notin SlcrUnits
    BY <1>1
  <2>3. Bracketed(s, 4) /\ 4 \in Nat
    BY <1>1
  <2> QED
    BY <2>1, <2>2, <2>3, BracketFacts
<1>3. ASSUME NEW k \in 1..5
      PROVE  s[k].op \notin {"maskpoll", "maskdelay"} /\ (Writing(s[k]) => s[k].unit = "slcr")
  <2>1. k = 1 \/ k \in 2..3 \/ k = 4 \/ k = 5
    OBVIOUS
  <2> QED
    BY <2>1, <1>1, Keys DEF Writing
<1> QED
  BY <1>1, <1>2, <1>3 DEF NoPoll, NoDelay, WritesOnly, UnitsOf

LEMMA DebugFacts ==
  ASSUME NEW s, DebugShape(s)
  PROVE  Ends(s) /\ NoPoll(s) /\ NoDelay(s) /\ WritesOnly(s, UnitsOf["debug"])
<1>1. /\ Listed(s) /\ Len(s) = 4 /\ s[4].op = "exit"
      /\ \A k \in 1..3 : s[k].op = "write" /\ s[k].unit = "cti"
  BY Keys DEF DebugShape
<1>2. \A k \in 1..4 : k \in 1..3 \/ k = 4
  OBVIOUS
<1>3. \A k \in 1..4 : /\ s[k].op = "exit" <=> k = 4
                      /\ s[k].op \notin {"maskpoll", "maskdelay"}
                      /\ Writing(s[k]) => s[k].unit = "cti"
  BY <1>1, <1>2 DEF Writing
<1> QED
  BY <1>1, <1>3 DEF Ends, NoPoll, NoDelay, WritesOnly, UnitsOf

-----------------------------------------------------------------------------
(* What the rest of the proof needs to know of a table.                    *)
Facts(t, s) ==
  /\ Ends(s) /\ WritesOnly(s, UnitsOf[t])
  /\ t \in Brackets => LockFacts(s)
  /\ t \notin {"pll", "ddr"} => NoPoll(s)
  /\ t # "peripherals" => NoDelay(s)
  /\ t = "mio" => \A n \in 0..53 : Final(s, "mio", n, BoardPin[n])
  /\ t = "pll" => /\ PllOrder(s) /\ Final(s, "clk", "ddr", {"ddr"})
                  /\ \A p \in Plls : Final(s, p, "bypass", "off")
  /\ t = "clock" => /\ \A k \in 1..Len(s) : ~Writes(s[k], "clk", "ddr")
                    /\ Final(s, "clk", "aper", AperUnits)
  /\ t = "ddr" => DdrOrder(s)
  /\ t = "peripherals" => /\ PulseOrder(s) /\ Final(s, "gpio", "pin51", "high")
                          /\ Final(s, "gpio", "output", "pin51")

LEMMA TableFacts ==
  ASSUME NEW v \in SiliconVersions, NEW t \in Tables
  PROVE  Facts(t, TablesOf[v][t])
<1>1. ASSUME NEW s, MioShape(s) PROVE Facts("mio", s)
  BY <1>1, MioFacts, MioPolls DEF Facts, Brackets
<1>2. ASSUME NEW s, PllShape(s) PROVE Facts("pll", s)
  BY <1>2, PllFacts DEF Facts, Brackets
<1>3. ASSUME NEW s, ClockShape(s) PROVE Facts("clock", s)
  BY <1>3, ClockFacts, ClockPolls DEF Facts, Brackets
<1>4. ASSUME NEW s, DdrShape(s) PROVE Facts("ddr", s)
  BY <1>4, DdrFacts DEF Facts, Brackets
<1>5. ASSUME NEW s, PeripheralsShape(s) PROVE Facts("peripherals", s)
  BY <1>5, PeripheralsFacts DEF Facts, Brackets
<1>6. ASSUME NEW s, PostShape(s) PROVE Facts("post", s)
  BY <1>6, PostFacts DEF Facts, Brackets
<1>7. ASSUME NEW s, DebugShape(s) PROVE Facts("debug", s)
  BY <1>7, DebugFacts DEF Facts, Brackets
<1>8. t = "mio" \/ t = "pll" \/ t = "clock" \/ t = "ddr" \/ t = "peripherals" \/ t = "post"
      \/ t = "debug"
  BY DEF Tables
<1> QED
  BY <1>1, <1>2, <1>3, <1>4, <1>5, <1>6, <1>7, <1>8, Shapes

LEMMA Following ==
  /\ NextTable["mio"] = "pll" /\ NextTable["pll"] = "clock" /\ NextTable["clock"] = "ddr"
  /\ NextTable["ddr"] = "peripherals" /\ NextTable["peripherals"] = "none"
  /\ NextTable["post"] = "none" /\ NextTable["debug"] = "none"
  /\ DOMAIN NextTable = Tables
  BY DEF NextTable, Tables

(* The operation of a call in progress. *)
LEMMA AtOp ==
  ASSUME TypeInv, active
  PROVE  /\ Facts(table, Code) /\ table \in Tables /\ siVer \in SiliconVersions
         /\ Op = Code[pc] /\ pc \in 1..Len(Code) /\ Len(Code) \in Nat /\ pc \in Nat
         /\ Op.op = "exit" <=> pc = Len(Code)
<1>1. table \in Tables /\ siVer \in SiliconVersions /\ pc \in DOMAIN Code /\ Op = Code[pc]
  BY DEF TypeInv, TypeOK, Code, Op
<1>2. Facts(table, Code)
  BY <1>1, TableFacts DEF Code
<1>3. Ends(Code)
  BY <1>2 DEF Facts
<1> DEFINE s == Code
<1>4. /\ DOMAIN s = 1..Len(s) /\ Len(s) \in Nat
      /\ \A k \in 1..Len(s) : s[k].op = "exit" <=> k = Len(s)
  BY <1>3, ListedLen DEF Ends
<1>5. pc \in DOMAIN s /\ Op = s[pc]
  BY <1>1
<1> HIDE DEF s
<1>6. /\ pc \in 1..Len(s) /\ Len(s) \in Nat /\ pc \in Nat
      /\ Op.op = "exit" <=> pc = Len(s)
  <2>0. pc \in 1..Len(s) /\ Len(s) \in Nat
    BY <1>4, <1>5, Zenon
  <2>1. pc \in 1..Len(s) /\ Len(s) \in Nat /\ pc \in Nat
    BY <2>0
  <2>2. s[pc].op = "exit" <=> pc = Len(s)
    BY <1>4, <2>1
  <2>3. Op.op = s[pc].op
    BY <1>5
  <2> QED
    BY <2>1, <2>2, <2>3
<1> QED
  BY <1>1, <1>2, <1>6 DEF s

(* The callers, and the hardware. *)
Calls == \E first \in {"mio", "post", "debug"} : Call(first) /\ (first = "post" => inited)
Hardware == PllLocks \/ DciFinishes \/ DdrStarts \/ Tick \/ UNCHANGED vars

LEMMA StepCases ==
  ASSUME [Next]_vars
  PROVE  ExitOp \/ WriteOp \/ PollOp \/ DelayOp \/ Calls \/ Hardware
<1>1. ASSUME Ps7Init PROVE Calls
  BY <1>1 DEF Ps7Init, Calls
<1>2. ASSUME Ps7PostConfig PROVE Calls
  BY <1>2 DEF Ps7PostConfig, Calls
<1>3. ASSUME Ps7Debug PROVE Calls
  BY <1>3 DEF Ps7Debug, Calls
<1> QED
  BY <1>1, <1>2, <1>3 DEF Next, Cpu, Hardware

(* An operation that is not the last is followed by the next one. *)
LEMMA GoesOn ==
  ASSUME TypeInv, active, Op.op # "exit", UNCHANGED <<siVer, active, table>>, pc' = pc + 1
  PROVE  /\ Code' = Code /\ Op' = Code[pc + 1] /\ pc' \in 1..Len(Code)
         /\ pc' \in DOMAIN TablesOf[siVer'][table']
<1>1. pc \in 1..Len(Code) /\ Len(Code) \in Nat /\ pc # Len(Code) /\ Facts(table, Code)
  BY AtOp
<1>2. DOMAIN Code = 1..Len(Code)
  BY <1>1, ListedLen DEF Facts, Ends
<1>3. Code' = Code
  BY DEF Code
<1>4. Op' = Code'[pc']
  BY DEF Op, Code
<1>5. pc' \in 1..Len(Code)
  BY <1>1
<1> QED
  BY <1>2, <1>3, <1>4, <1>5 DEF Code

(* Another table starts at its first operation. *)
LEMMA Starts ==
  ASSUME siVer' \in SiliconVersions, table' \in Tables, pc' = 1
  PROVE  /\ Facts(table', Code') /\ Op' = Code'[1] /\ Len(Code') \in Nat /\ Len(Code') > 1
         /\ pc' \in DOMAIN TablesOf[siVer'][table']
<1>1. Facts(table', Code')
  BY TableFacts DEF Code
<1>2. Op' = Code'[1]
  BY DEF Op, Code
<1> DEFINE s == Code'
<1>3. s = TablesOf[siVer'][table']
  BY DEF Code
<1> HIDE DEF s
<1>4. Ends(s)
  BY <1>1 DEF Facts, s
<1>5. DOMAIN s = 1..Len(s) /\ Len(s) \in Nat /\ Len(s) > 1
  BY <1>4, ListedLen DEF Ends
<1> QED
  BY <1>1, <1>2, <1>3, <1>5 DEF s

-----------------------------------------------------------------------------
(* Types: above all, a call always has an operation to run, so a table is  *)
(* never run past its end.                                                 *)
LEMMA TypeInit == ASSUME Init PROVE TypeInv
<1>1. timer \in [on: BOOLEAN, count: 0..DelayTime] /\ lowFor \in 0..DelayTime
  BY BootAssumption DEF Init
<1>2. i \in 0..PollTime \cup {1} /\ calls \in 0..MaxCalls /\ ~(calls > 0)
  BY BootAssumption DEF Init
<1>3. locked \subseteq Plls
  BY DEF Init
<1>4. ~active /\ active \in BOOLEAN /\ inited \in BOOLEAN /\ dciDone \in BOOLEAN
      /\ ddrUp \in BOOLEAN /\ unlocked \in BOOLEAN
  BY DEF Init
<1>5. siVer \in SiliconVersions /\ table = "none" /\ ret = "none"
  BY DEF Init
<1> QED
  BY <1>1, <1>2, <1>3, <1>4, <1>5 DEF TypeInv, TypeOK

(* A call that returns. *)
LEMMA Returned ==
  ASSUME NEW r \in {"success", "timeout"}, inited \in BOOLEAN, Return(r)
  PROVE  /\ ~active' /\ active' \in BOOLEAN /\ ret' = r /\ table' = table /\ pc' = pc
         /\ inited' \in BOOLEAN
         /\ table \in {"post", "debug"} => inited' = inited
         /\ table \notin {"post", "debug"} => (inited' <=> r = "success")
<1>1. CASE table \in {"post", "debug"}
  BY <1>1, Zenon DEF Return
<1>2. CASE table \notin {"post", "debug"}
  <2>1. inited' = (r = "success")
    BY <1>2 DEF Return
  <2>2. (r = "success") \in BOOLEAN
    OBVIOUS
  <2> QED
    BY <2>1, <2>2, Zenon DEF Return
<1> QED
  BY <1>1, <1>2

LEMMA TypeStep == ASSUME TypeInv, [Next]_vars PROVE TypeInv'
<1>1. CASE ExitOp
  <2>1. active /\ siVer' = siVer /\ calls' = calls /\ i' = 0 /\ UNCHANGED <<regVars, hwVars>>
    BY <1>1 DEF ExitOp, Running
  <2>2. table \in Tables /\ siVer \in SiliconVersions
    BY <2>1, AtOp
  <2>3. CASE NextTable[table] = "none"
    <3>1. Return("success") /\ inited \in BOOLEAN
      BY <1>1, <2>3 DEF ExitOp, TypeInv, TypeOK
    <3>2. /\ ~active' /\ active' \in BOOLEAN /\ ret' = "success" /\ table' = table
          /\ inited' \in BOOLEAN
      BY <3>1, Returned
    <3> QED
      BY <2>1, <2>2, <3>2, BootAssumption DEF TypeInv, TypeOK, regVars, hwVars
  <2>4. CASE NextTable[table] # "none"
    <3>1. table' = NextTable[table] /\ pc' = 1 /\ UNCHANGED <<active, ret, inited>>
      BY <1>1, <2>4 DEF ExitOp
    <3>2. table' \in Tables
      BY <2>2, <2>4, <3>1, Following DEF Tables
    <3>3. pc' \in DOMAIN TablesOf[siVer'][table']
      BY <2>1, <2>2, <3>1, <3>2, Starts
    <3> QED
      BY <2>1, <2>2, <3>1, <3>2, <3>3, Following, BootAssumption
      DEF TypeInv, TypeOK, regVars, hwVars
  <2> QED
    BY <2>3, <2>4
<1>2. CASE WriteOp
  <2>1. /\ active /\ Op.op # "exit" /\ pc' = pc + 1 /\ i' = 0
        /\ UNCHANGED <<siVer, calls, active, table, ret, inited, timer>>
    BY <1>2 DEF WriteOp, Running, Advance
  <2>2. pc' \in DOMAIN TablesOf[siVer'][table']
    BY <2>1, GoesOn
  <2>3. /\ unlocked' \in BOOLEAN /\ locked' \subseteq Plls /\ dciDone' \in BOOLEAN
        /\ ddrUp' \in BOOLEAN /\ lowFor' \in 0..DelayTime
    <3>1. unlocked' = (Op.value = "open") \/ unlocked' = unlocked
      BY <1>2 DEF WriteOp, Store, regVars
    <3>2. \/ UNCHANGED <<locked, dciDone, ddrUp, lowFor>> \/ HardwareTakes
      BY <1>2 DEF WriteOp, Store
    <3>3. unlocked' \in BOOLEAN
      BY <3>1 DEF TypeInv, TypeOK
    <3>4. locked' \subseteq Plls
      BY <3>2 DEF TypeInv, TypeOK, HardwareTakes
    <3>5. dciDone' \in BOOLEAN /\ ddrUp' \in BOOLEAN
      BY <3>2, Zenon DEF TypeInv, TypeOK, HardwareTakes
    <3>6. lowFor' \in 0..DelayTime
      BY <3>2, BootAssumption DEF TypeInv, TypeOK, HardwareTakes
    <3> QED
      BY <3>3, <3>4, <3>5, <3>6
  <2> QED
    BY <2>1, <2>2, <2>3, BootAssumption DEF TypeInv, TypeOK
<1>3. CASE PollOp
  <2>1. /\ active /\ Op.op # "exit" /\ UNCHANGED <<siVer, calls, regVars, hwVars>>
    BY <1>3 DEF PollOp, Running
  <2>2. CASE Advance /\ UNCHANGED <<active, table, ret, inited>>
    <3>1. pc' \in DOMAIN TablesOf[siVer'][table']
      BY <2>1, <2>2, GoesOn DEF Advance
    <3> QED
      BY <2>1, <2>2, <3>1, BootAssumption DEF Advance, TypeInv, TypeOK, regVars, hwVars
  <2>3. CASE PollAgain
    BY <2>1, <2>3, BootAssumption DEF PollAgain, TypeInv, TypeOK, regVars, hwVars
  <2>4. CASE TimedOut
    <3>1. Return("timeout") /\ inited \in BOOLEAN /\ i' = 0
      BY <2>4 DEF TimedOut, TypeInv, TypeOK
    <3>2. /\ ~active' /\ active' \in BOOLEAN /\ ret' = "timeout" /\ table' = table
          /\ inited' \in BOOLEAN
      BY <3>1, Returned
    <3> QED
      BY <2>1, <3>1, <3>2, BootAssumption DEF TypeInv, TypeOK, regVars, hwVars
  <2> QED
    BY <1>3, <2>2, <2>3, <2>4 DEF PollOp
<1>4. CASE DelayOp
  <2>1. /\ active /\ Op.op # "exit"
        /\ UNCHANGED <<siVer, calls, active, table, ret, inited, regVars>>
        /\ UNCHANGED <<locked, dciDone, ddrUp, lowFor>>
    BY <1>4 DEF DelayOp, Running
  <2>2. CASE StartTimer /\ i' = 1 /\ pc' = pc
    BY <2>1, <2>2, BootAssumption DEF StartTimer, TypeInv, TypeOK, regVars
  <2>3. CASE Advance /\ timer' = timer
    <3>1. pc' \in DOMAIN TablesOf[siVer'][table']
      BY <2>1, <2>3, GoesOn DEF Advance
    <3> QED
      BY <2>1, <2>3, <3>1, BootAssumption DEF Advance, TypeInv, TypeOK, regVars
  <2> QED
    BY <1>4, <2>2, <2>3 DEF DelayOp
<1>5. CASE Calls
  <2>1. PICK first \in {"mio", "post", "debug"} : Call(first)
    BY <1>5 DEF Calls
  <2>2. table' \in Tables /\ siVer' \in SiliconVersions /\ pc' = 1
    BY <2>1 DEF Call, Tables, TypeInv, TypeOK
  <2>3. pc' \in DOMAIN TablesOf[siVer'][table']
    BY <2>2, Starts
  <2> QED
    BY <2>1, <2>2, <2>3, Following, BootAssumption DEF Call, TypeInv, TypeOK, regVars, hwVars
<1>6. CASE Hardware
  <2>1. CASE PllLocks
    BY <2>1 DEF PllLocks, TypeInv, TypeOK, cpuVars, regVars
  <2>2. CASE DciFinishes
    BY <2>2 DEF DciFinishes, TypeInv, TypeOK, cpuVars, regVars
  <2>3. CASE DdrStarts
    BY <2>3 DEF DdrStarts, TypeInv, TypeOK, cpuVars, regVars
  <2>4. CASE Tick
    BY <2>4, BootAssumption DEF Tick, TypeInv, TypeOK, cpuVars, regVars
  <2>5. CASE UNCHANGED vars
    BY <2>5 DEF TypeInv, TypeOK, vars, cpuVars, regVars, hwVars
  <2> QED
    BY <1>6, <2>1, <2>2, <2>3, <2>4, <2>5 DEF Hardware
<1> QED
  BY <1>1, <1>2, <1>3, <1>4, <1>5, <1>6, StepCases

(* The operation of a table that opens and closes the SLCR. *)
LEMMA AtLock ==
  ASSUME TypeInv, active, table \in Brackets
  PROVE  /\ LockAt(Code) \in Nat /\ LockAt(Code) > 1 /\ pc \in Nat /\ pc > 0
         /\ pc = 1 => Writing(Op) /\ LockKey /\ Op.value = "open"
         /\ pc = LockAt(Code) => Writing(Op) /\ LockKey /\ Op.value = "closed"
         /\ Writing(Op) /\ LockKey => pc = 1 \/ pc = LockAt(Code)
         /\ Writing(Op) /\ Op.unit \in SlcrUnits /\ ~LockKey => 1 < pc /\ pc < LockAt(Code)
         /\ Op.op = "maskpoll" => 1 < pc /\ pc < LockAt(Code)
         /\ Op.op = "exit" => pc > LockAt(Code)
<1> DEFINE s == Code
           l == LockAt(s)
<1>1. /\ Facts(table, s) /\ pc \in 1..Len(s) /\ Op = s[pc]
      /\ Op.op = "exit" <=> pc = Len(s)
  BY AtOp
<1>2. LockFacts(s) /\ Len(s) \in Nat
  BY <1>1 DEF Facts, Ends
<1> HIDE DEF s, l
<1>3. l \in 2..Len(s) - 1 /\ s[l] = V30!Lock /\ s[1] = V30!Unlock
  BY <1>2 DEF LockFacts, l
<1>4. LockKey <=> Op.unit = "slcr" /\ Op.field = "lock"
  BY DEF LockKey
<1>5. /\ pc = 1 => Writing(Op) /\ LockKey /\ Op.value = "open"
      /\ pc = l => Writing(Op) /\ LockKey /\ Op.value = "closed"
  BY <1>1, <1>3, <1>4, Keys DEF Writing
<1>6. Writes(Op, "slcr", "lock") <=> Writing(Op) /\ LockKey
  BY <1>4 DEF Writes
<1>7. /\ Writing(Op) /\ LockKey => pc = 1 \/ pc = l
      /\ Writing(Op) /\ Op.unit \in SlcrUnits /\ ~LockKey => 1 < pc /\ pc < l
      /\ Op.op = "maskpoll" => 1 < pc /\ pc < l
  BY <1>1, <1>2, <1>6 DEF LockFacts, l
<1>8. l \in Nat /\ l > 1 /\ pc \in Nat /\ pc > 0 /\ (Op.op = "exit" => pc > l)
  BY <1>1, <1>2, <1>3
<1> QED
  BY <1>5, <1>7, <1>8 DEF s, l

(* A write, as far as the SLCR go.                                         *)
LEMMA Written ==
  ASSUME WriteOp
  PROVE  /\ active /\ Writing(Op) /\ Op.op # "exit" /\ pc' = pc + 1 /\ Store
         /\ UNCHANGED <<siVer, calls, active, table, ret, inited, timer>>
         /\ LockKey /\ Op.value = "open" => unlocked'
         /\ LockKey /\ Op.value = "closed" => ~unlocked'
         /\ ~LockKey => unlocked' = unlocked
  BY DEF WriteOp, Running, Advance, Writing, Store, regVars

(* LockInv: the SLCR are open exactly between their two keys.              *)
LEMMA LockInit == ASSUME Init PROVE LockInv
  BY DEF Init, LockInv, SlcrLeftOpen

LEMMA LockStep == ASSUME TypeInv, LockInv, [Next]_vars PROVE LockInv'
<1> DEFINE A1 == active /\ table \in Brackets /\ pc > 1 => (unlocked <=> pc <= LockAt(Code))
<1>0. SUFFICES A1' /\ (active' /\ table' = "ddr" => ~unlocked')
               /\ (inited' /\ ~(active' /\ table' = "post") => ~unlocked')
               /\ (active' /\ inited' => table' \in {"post", "debug"}) /\ SlcrLeftOpen'
  BY DEF LockInv
<1>1. CASE ExitOp
  <2>1. active /\ Op.op = "exit" /\ calls' = calls /\ unlocked' = unlocked /\ table \in Tables
    BY <1>1, AtOp DEF ExitOp, Running, regVars
  <2>2. table \in Brackets => ~unlocked
    <3>1. SUFFICES ASSUME table \in Brackets PROVE ~unlocked
      OBVIOUS
    <3> DEFINE l == LockAt(Code)
    <3>2. pc > l /\ l \in Nat /\ l > 1 /\ pc \in Nat
      BY <2>1, <3>1, AtLock
    <3>3. pc > 1 => (unlocked <=> pc <= l)
      BY <2>1, <3>1 DEF LockInv
    <3> HIDE DEF l
    <3> QED
      BY <3>2, <3>3
  <2>3. CASE NextTable[table] = "none"
    <3>1. Return("success") /\ inited \in BOOLEAN
      BY <1>1, <2>3 DEF ExitOp, TypeInv, TypeOK
    <3>2. /\ ~active' /\ ret' = "success" /\ table' = table
          /\ table \in {"post", "debug"} => inited' = inited
      BY <3>1, Returned
    <3>3. table \in {"peripherals", "post", "debug"}
      BY <2>1, <2>3, Following DEF Tables
    <3>4. inited' => ~unlocked'
      BY <2>1, <2>2, <3>1, <3>2, <3>3 DEF LockInv, Brackets, Return
    <3> QED
      BY <2>1, <2>2, <3>2, <3>3, <3>4 DEF SlcrLeftOpen, Brackets
  <2>4. CASE NextTable[table] # "none"
    <3>1. table' = NextTable[table] /\ pc' = 1 /\ UNCHANGED <<active, ret, inited>>
      BY <1>1, <2>4 DEF ExitOp
    <3>2. table \in {"mio", "pll", "clock", "ddr"} /\ (table' = "ddr" => table = "clock")
      BY <2>1, <2>4, <3>1, Following DEF Tables
    <3>3. ~inited'
      BY <2>1, <3>1, <3>2 DEF LockInv
    <3> QED
      BY <2>1, <2>2, <3>1, <3>2, <3>3 DEF SlcrLeftOpen, Brackets
  <2> QED
    BY <2>3, <2>4
<1>2. CASE WriteOp
  <2>1. /\ active /\ Writing(Op) /\ Op.op # "exit" /\ pc' = pc + 1
        /\ UNCHANGED <<siVer, calls, active, table, ret, inited, timer>>
        /\ LockKey /\ Op.value = "open" => unlocked'
        /\ LockKey /\ Op.value = "closed" => ~unlocked'
        /\ ~LockKey => unlocked' = unlocked
    BY <1>2, Written
  <2>2. Code' = Code
    BY <2>1 DEF Code
  <2>3. A1'
    <3>1. SUFFICES ASSUME table \in Brackets PROVE unlocked' <=> pc' <= LockAt(Code')
      BY <2>1
    <3> DEFINE l == LockAt(Code)
    <3>2. /\ l \in Nat /\ l > 1 /\ pc \in Nat /\ pc > 0
          /\ pc = 1 => LockKey /\ Op.value = "open"
          /\ pc = l => LockKey /\ Op.value = "closed"
          /\ LockKey => pc = 1 \/ pc = l
      BY <2>1, <3>1, AtLock
    <3>3. pc > 1 => (unlocked <=> pc <= l)
      BY <2>1, <3>1 DEF LockInv
    <3> HIDE DEF l
    <3>4. unlocked' <=> pc + 1 <= l
      <4>1. CASE pc = 1
        BY <2>1, <3>2, <4>1
      <4>2. CASE pc = l
        BY <2>1, <3>2, <4>2
      <4>3. CASE pc # 1 /\ pc # l
        BY <2>1, <3>2, <3>3, <4>3
      <4> QED
        BY <4>1, <4>2, <4>3
    <3> QED
      BY <2>1, <2>2, <3>4 DEF l
  <2>4. ASSUME table \notin Brackets PROVE unlocked' = unlocked
    <3>1. /\ table \in {"ddr", "debug"} /\ Facts(table, Code) /\ Op = Code[pc]
          /\ pc \in 1..Len(Code)
      BY <2>1, <2>4, AtOp DEF Tables, Brackets
    <3>2. Op.unit \in {"ddrc", "cti"}
      BY <2>1, <3>1 DEF Facts, WritesOnly, UnitsOf
    <3> QED
      BY <2>1, <3>2 DEF LockKey
  <2>5. active' /\ (table' = "ddr" => ~unlocked') /\ (inited' => table' \in {"post", "debug"})
    BY <2>1, <2>4 DEF LockInv, Brackets
  <2>6. inited' /\ table' # "post" => ~unlocked'
    BY <2>1, <2>4, <2>5 DEF LockInv, Brackets
  <2> QED
    BY <2>3, <2>5, <2>6 DEF SlcrLeftOpen
<1>3. CASE PollOp
  <2>1. active /\ Op.op = "maskpoll" /\ UNCHANGED <<siVer, calls, unlocked>>
    BY <1>3 DEF PollOp, Running, regVars
  <2>2. /\ table \in {"pll", "ddr"}
    <3>1. /\ Facts(table, Code) /\ Op = Code[pc] /\ pc \in 1..Len(Code)
      BY <2>1, AtOp
    <3> QED
      BY <2>1, <3>1 DEF Facts, NoPoll
  <2>3. ~inited
    BY <2>1, <2>2 DEF LockInv
  <2> DEFINE l == LockAt(Code)
  <2>4. ASSUME table = "pll"
        PROVE  l \in Nat /\ pc \in Nat /\ 1 < pc /\ pc < l /\ unlocked
    <3>1. l \in Nat /\ pc \in Nat /\ 1 < pc /\ pc < l
      BY <2>1, <2>4, AtLock DEF Brackets
    <3>2. unlocked <=> pc <= l
      BY <2>1, <2>4, <3>1 DEF LockInv, Brackets
    <3> HIDE DEF l
    <3> QED
      BY <3>1, <3>2
  <2>5. table = "ddr" => ~unlocked
    BY <2>1 DEF LockInv
  <2>6. CASE Advance /\ UNCHANGED <<active, table, ret, inited>>
    <3>1. Code' = Code /\ pc' = pc + 1
      BY <2>1, <2>6 DEF Code, Advance
    <3>2. A1'
      <4>1. SUFFICES ASSUME table \in Brackets PROVE unlocked <=> pc + 1 <= l
        BY <2>1, <2>6, <3>1
      <4>2. table = "pll"
        BY <2>2, <4>1 DEF Brackets
      <4>3. l \in Nat /\ pc \in Nat /\ 1 < pc /\ pc < l /\ unlocked
        BY <2>4, <4>2
      <4> HIDE DEF l
      <4> QED
        BY <4>3
    <3> QED
      BY <2>1, <2>3, <2>5, <2>6, <3>2 DEF SlcrLeftOpen
  <2>7. CASE PollAgain
    <3>1. Code' = Code /\ pc' = pc /\ UNCHANGED <<active, table, ret, inited>>
      BY <2>1, <2>7 DEF Code, PollAgain
    <3> QED
      BY <2>1, <2>3, <2>5, <3>1 DEF SlcrLeftOpen, LockInv
  <2>8. CASE TimedOut
    <3>1. Return("timeout") /\ inited \in BOOLEAN
      BY <2>8 DEF TimedOut, TypeInv, TypeOK
    <3>2. ~active' /\ ret' = "timeout" /\ table' = table /\ ~inited'
      <4>1. table \notin {"post", "debug"}
        BY <2>2
      <4> QED
        BY <4>1, <3>1, Returned
    <3> QED
      BY <2>1, <2>2, <2>4, <2>5, <3>2 DEF SlcrLeftOpen
  <2> QED
    BY <1>3, <2>6, <2>7, <2>8 DEF PollOp
<1>4. CASE DelayOp
  <2>1. /\ active /\ Op.op = "maskdelay" /\ (pc' = pc \/ pc' = pc + 1)
        /\ UNCHANGED <<siVer, calls, active, table, ret, inited, unlocked>>
    BY <1>4 DEF DelayOp, Running, Advance, regVars
  <2>2. Code' = Code
    BY <2>1 DEF Code
  <2>3. A1'
    <3>1. SUFFICES ASSUME table \in Brackets, pc' > 1 PROVE unlocked <=> pc' <= LockAt(Code)
      BY <2>1, <2>2
    <3> DEFINE l == LockAt(Code)
    <3>2. l \in Nat /\ pc \in Nat /\ pc > 0 /\ pc # 1 /\ pc # l
      BY <2>1, <3>1, AtLock DEF Writing
    <3>3. pc > 1 => (unlocked <=> pc <= l)
      BY <2>1, <3>1 DEF LockInv
    <3> HIDE DEF l
    <3>4. unlocked <=> pc' <= l
      BY <2>1, <3>2, <3>3
    <3> QED
      BY <3>4 DEF l
  <2> QED
    BY <2>1, <2>3 DEF LockInv, SlcrLeftOpen
<1>5. CASE Calls
  <2>1. PICK first \in {"mio", "post", "debug"} : Call(first) /\ (first = "post" => inited)
    BY <1>5 DEF Calls
  <2>2. /\ ~active /\ active' /\ pc' = 1 /\ table' = first /\ unlocked' = unlocked
        /\ inited' = (inited /\ first # "mio")
    BY <2>1 DEF Call, regVars
  <2>3. inited' => ~unlocked' /\ table' \in {"post", "debug"}
    <3>1. inited' => inited /\ first # "mio"
      BY <2>2, Zenon
    <3> QED
      BY <2>2, <3>1 DEF LockInv
  <2> QED
    BY <2>2, <2>3 DEF SlcrLeftOpen
<1>6. CASE Hardware
  <2>1. UNCHANGED <<siVer, cpuVars, unlocked>>
    BY <1>6 DEF Hardware, PllLocks, DciFinishes, DdrStarts, Tick, vars, cpuVars, regVars, hwVars
  <2>2. Code' = Code
    BY <2>1 DEF Code, cpuVars
  <2> QED
    BY <2>1, <2>2 DEF LockInv, SlcrLeftOpen, cpuVars
<1> QED
  BY <1>1, <1>2, <1>3, <1>4, <1>5, <1>6, StepCases

(* Every write of a table reaches its register: the SLCR are open when a    *)
(* table writes to them.                                                    *)
LEMMA Taken ==
  ASSUME TypeInv, LockInv, WriteOp
  PROVE  \/ LockKey /\ UNCHANGED <<regs, sinceHold, locked, dciDone, ddrUp, lowFor>>
         \/ ~LockKey /\ Put(Op) /\ HardwareTakes /\ (Op.unit \in SlcrUnits => unlocked)
<1>1. active /\ Writing(Op) /\ Store
  BY Written
<1>2. ASSUME Op.unit \in SlcrUnits, ~LockKey PROVE unlocked
  <2>1. /\ Facts(table, Code) /\ Op = Code[pc] /\ pc \in 1..Len(Code) /\ table \in Tables
    BY <1>1, AtOp
  <2>2. Op.unit \in UnitsOf[table]
    BY <1>1, <2>1 DEF Facts, WritesOnly
  <2>3. table \in Brackets
    <3>1. UnitsOf["ddr"] = {"ddrc"} /\ UnitsOf["debug"] = {"cti"}
      BY DEF UnitsOf
    <3>2. "ddrc" \notin SlcrUnits /\ "cti" \notin SlcrUnits
      BY DEF SlcrUnits, Plls
    <3> QED
      BY <1>2, <2>1, <2>2, <3>1, <3>2 DEF Tables, Brackets
  <2> DEFINE l == LockAt(Code)
  <2>4. l \in Nat /\ pc \in Nat /\ 1 < pc /\ pc < l
    BY <1>1, <1>2, <2>3, AtLock
  <2>5. unlocked <=> pc <= l
    BY <1>1, <2>3, <2>4 DEF LockInv
  <2> HIDE DEF l
  <2> QED
    BY <2>4, <2>5
<1> QED
  BY <1>1, <1>2 DEF Store

(* What a register holds after a write.                                    *)
LEMMA IsAfter ==
  ASSUME TypeInv, LockInv, WriteOp, NEW u, NEW f, NEW v
  PROVE  Is(u, f, v)' <=> IF Writes(Op, u, f) /\ ~LockKey THEN Op.value = v ELSE Is(u, f, v)
<1>1. Writing(Op)
  BY Written
<1>2. CASE LockKey /\ UNCHANGED <<regs, sinceHold, locked, dciDone, ddrUp, lowFor>>
  BY <1>2 DEF Is
<1>3. CASE ~LockKey /\ Put(Op)
  <2> DEFINE r == <<Op.unit, Op.field>>
             k == <<u, f>>
  <2>1. regs' = [n \in DOMAIN regs \cup {r} |-> IF n = r THEN Op.value ELSE regs[n]]
    BY <1>3 DEF Put
  <2>2. k = r <=> Writes(Op, u, f)
    BY <1>1 DEF Writes
  <2> HIDE DEF r, k
  <2>3. (k \in DOMAIN regs' /\ regs'[k] = v)
          <=> IF k = r THEN Op.value = v ELSE k \in DOMAIN regs /\ regs[k] = v
    BY <2>1
  <2> QED
    BY <1>3, <2>2, <2>3 DEF Is, k
<1> QED
  BY <1>2, <1>3, Taken

(* The registers, where no write happens.                                   *)

LEMMA StaysLess ==
  ASSUME NEW s, NEW k \in Nat, NEW n \in Nat, Stays(s, k, n)
  PROVE  Stays(s, k, n - 1)
  BY DEF Stays

-----------------------------------------------------------------------------
(* KeptInv: what a table wrote is what its registers hold.                 *)
LEMMA KeptInit == ASSUME Init PROVE KeptInv
  BY DEF Init, KeptInv

LEMMA KeptStep == ASSUME TypeInv, LockInv, KeptInv, [Next]_vars PROVE KeptInv'
<1>1. ASSUME active, Code' = Code, pc' = pc + 1,
             (~Writing(Op) /\ regs' = regs) \/ WriteOp
      PROVE  KeptInv'
  <2>1. pc \in Nat /\ Op = Code[pc]
    BY <1>1, AtOp
  <2> SUFFICES ASSUME NEW k \in 1..pc, Stays(Code, k, pc)
               PROVE  Is(Code[k].unit, Code[k].field, Code[k].value)'
    BY <1>1, <2>1 DEF KeptInv
  <2> DEFINE s == Code
  <2>2. /\ Writing(s[k]) /\ ~Writes(s[k], "slcr", "lock")
        /\ \A m \in k + 1..pc : Writes(s[m], s[k].unit, s[k].field) => s[m].value = s[k].value
    BY DEF Stays
  <2>3. CASE k = pc
    <3>1. Writing(Op) /\ ~LockKey /\ WriteOp /\ s[k] = Op
      BY <1>1, <2>1, <2>2, <2>3 DEF LockKey, Writes
    <3>2. ASSUME NEW u, NEW f, NEW v, u = Op.unit, f = Op.field, v = Op.value
          PROVE  Is(u, f, v)'
      <4>1. Writes(Op, u, f)
        BY <3>1, <3>2 DEF Writes
      <4> QED
        BY <3>1, <3>2, <4>1, IsAfter
    <3> QED
      BY <1>1, <3>1, <3>2 DEF Is
  <2>4. CASE k # pc
    <3>1. k \in 1..pc - 1 /\ k \in Nat
      BY <2>1, <2>4
    <3>2. Stays(s, k, pc - 1)
      BY <2>1, <3>1, StaysLess
    <3>3. Is(s[k].unit, s[k].field, s[k].value)
      BY <1>1, <3>1, <3>2 DEF KeptInv
    <3>4. CASE ~Writing(Op) /\ regs' = regs
      BY <1>1, <3>3, <3>4 DEF Is
    <3>5. CASE WriteOp
      <4>1. pc \in k + 1..pc
        BY <2>1, <3>1
      <4>2. Writes(Op, s[k].unit, s[k].field) => Op.value = s[k].value
        BY <2>1, <2>2, <4>1
      <4>3. ASSUME NEW u, NEW f, NEW v, Is(u, f, v), Writes(Op, u, f) => Op.value = v
            PROVE  Is(u, f, v)'
        BY <3>5, <4>3, IsAfter
      <4>4. ASSUME NEW u, NEW f, NEW v, u = s[k].unit, f = s[k].field, v = s[k].value
            PROVE  Is(u, f, v)'
        BY <3>3, <4>2, <4>3, <4>4
      <4> QED
        BY <1>1, <4>4 DEF Is
    <3> QED
      BY <1>1, <3>4, <3>5
  <2> QED
    BY <2>3, <2>4
<1>2. ASSUME ~active' \/ pc' = 1 PROVE KeptInv'
  BY <1>2 DEF KeptInv
<1>3. ASSUME UNCHANGED <<siVer, active, table, pc, regs>> PROVE KeptInv'
  <2>1. Code' = Code
    BY <1>3 DEF Code
  <2> QED
    BY <1>3, <2>1 DEF KeptInv, Is
<1>4. CASE ExitOp
  BY <1>2, <1>4 DEF ExitOp, Return
<1>5. CASE WriteOp
  <2>1. active /\ pc' = pc + 1 /\ UNCHANGED <<siVer, table>>
    BY <1>5, Written
  <2> QED
    BY <1>1, <1>5, <2>1 DEF Code
<1>6. CASE PollOp
  <2>1. active /\ ~Writing(Op) /\ regs' = regs /\ siVer' = siVer
    BY <1>6 DEF PollOp, Running, Writing, regVars
  <2>2. CASE Advance /\ UNCHANGED <<active, table, ret, inited>>
    BY <1>1, <2>1, <2>2 DEF Advance, Code
  <2>3. CASE PollAgain
    BY <1>3, <2>1, <2>3 DEF PollAgain
  <2>4. CASE TimedOut
    BY <1>2, <2>4 DEF TimedOut, Return
  <2> QED
    BY <1>6, <2>2, <2>3, <2>4 DEF PollOp
<1>7. CASE DelayOp
  <2>1. /\ active /\ ~Writing(Op) /\ regs' = regs /\ UNCHANGED <<siVer, active, table>>
        /\ pc' = pc \/ pc' = pc + 1
    BY <1>7 DEF DelayOp, Running, Writing, regVars, Advance
  <2> QED
    BY <1>1, <1>3, <2>1 DEF Code
<1>8. CASE Calls
  BY <1>2, <1>8 DEF Calls, Call
<1>9. CASE Hardware
  BY <1>3, <1>9
  DEF Hardware, PllLocks, DciFinishes, DdrStarts, Tick, vars, cpuVars, regVars, hwVars
<1> QED
  BY <1>4, <1>5, <1>6, <1>7, <1>8, <1>9, StepCases

-----------------------------------------------------------------------------
LEMMA PllInit == ASSUME Init PROVE PllInv
  BY DEF Init, PllInv, PllUsedLocked, Is

LEMMA PllStep == ASSUME TypeInv, LockInv, KeptInv, PllInv, [Next]_vars PROVE PllInv'
<1> DEFINE Ready(o, p) ==
             /\ Writes(o, p, "bypass") /\ o.value = "off" => p \in locked
             /\ Writes(o, p, "reset") /\ unlocked => ~Is(p, "bypass", "off")
<1> SUFFICES ASSUME NEW p \in Plls
             PROVE  /\ (Is(p, "bypass", "off") => p \in locked)'
                    /\ active' => Ready(Op, p)'
  BY DEF PllInv, PllUsedLocked
<1>1. /\ Is(p, "bypass", "off") => p \in locked
      /\ active => Ready(Op, p)
      /\ p \in SlcrUnits /\ p # "slcr"
  BY DEF PllInv, PllUsedLocked, SlcrUnits, Plls
(* the first operation of a table sets up no PLL *)
<1>2. ASSUME siVer' \in SiliconVersions, table' \in Tables, pc' = 1
      PROVE  Ready(Op, p)'
  <2> DEFINE s == Code'
  <2>1. Facts(table', s) /\ Op' = s[1] /\ Len(s) \in Nat /\ Len(s) > 1
    BY <1>2, Starts
  <2> HIDE DEF s
  <2>2. CASE table' = "pll"
    <3>1. 1 \in 1..Len(s)
      BY <2>1
    <3>2. /\ ~(Writes(s[1], p, "bypass") /\ s[1].value = "off") /\ ~Writes(s[1], p, "reset")
      BY <2>1, <2>2, <3>1 DEF Facts, PllOrder
    <3> QED
      BY <2>1, <3>2
  <2>3. CASE table' # "pll"
    <3>1. 1 \in 1..Len(s) /\ p \notin UnitsOf[table']
      BY <1>2, <2>1, <2>3 DEF Tables, UnitsOf, Plls
    <3>2. ~Writes(s[1], p, "bypass") /\ ~Writes(s[1], p, "reset")
      BY <2>1, <3>1 DEF Facts, WritesOnly, Writes
    <3> QED
      BY <2>1, <3>2
  <2> QED
    BY <2>2, <2>3
(* what the next operation relies on, the one before it has brought about *)
<1>3. ASSUME active, Op.op # "exit", UNCHANGED <<siVer, active, table>>, pc' = pc + 1
      PROVE  /\ \/ ~(Writes(Op', p, "bypass") /\ Op'.value = "off")
                \/ Op = V30!MaskPoll(p, "lock")
             /\ \/ ~Writes(Op', p, "reset")
                \/ /\ ~Writes(Op, "slcr", "lock")
                   /\ Writes(Op, p, "reset") \/ Op = V30!MaskWrite(p, "bypass", "on")
  <2> DEFINE s == Code
             n == pc + 1
  <2>1. /\ Facts(table, s) /\ Op = s[pc] /\ pc \in Nat /\ table \in Tables
        /\ Op' = s[n] /\ n \in 1..Len(s)
    <3>1. pc' \in 1..Len(Code) /\ Op' = Code[pc + 1]
      BY <1>3, GoesOn
    <3> QED
      BY <1>3, <3>1, AtOp
  <2>2. n - 1 = pc
    BY <2>1
  <2> HIDE DEF s, n
  <2>3. CASE table = "pll"
    BY <2>1, <2>2, <2>3 DEF Facts, PllOrder
  <2>4. CASE table # "pll"
    <3>1. p \notin UnitsOf[table]
      BY <2>1, <2>4 DEF Tables, UnitsOf, Plls
    <3> QED
      BY <2>1, <3>1 DEF Facts, WritesOnly, Writes
  <2> QED
    BY <2>3, <2>4
<1>4. CASE ExitOp
  <2>1. active /\ siVer' = siVer /\ UNCHANGED <<regs, locked>>
    BY <1>4 DEF ExitOp, Running, regVars, hwVars
  <2>2. (Is(p, "bypass", "off") => p \in locked)'
    BY <1>1, <2>1 DEF Is
  <2>3. ASSUME active' PROVE Ready(Op, p)'
    <3>1. NextTable[table] # "none" /\ table' = NextTable[table] /\ pc' = 1
      BY <1>4, <2>3 DEF ExitOp, Return
    <3>2. table \in Tables /\ siVer \in SiliconVersions
      BY <2>1, AtOp
    <3>3. table' \in Tables
      BY <3>1, <3>2, Following DEF Tables
    <3> QED
      BY <1>2, <2>1, <3>1, <3>2, <3>3
  <2> QED
    BY <2>2, <2>3
<1>5. CASE WriteOp
  <2>1. /\ active /\ Writing(Op) /\ Op.op # "exit" /\ pc' = pc + 1
        /\ UNCHANGED <<siVer, active, table>>
        /\ ~LockKey => unlocked' = unlocked
    BY <1>5, Written
  <2>2. Op # V30!MaskPoll(p, "lock")
    BY <2>1 DEF Writing, V30!MaskPoll
  <2>3. ~(Writes(Op', p, "bypass") /\ Op'.value = "off")
    BY <1>3, <2>1, <2>2
  <2>4. CASE LockKey /\ UNCHANGED <<regs, sinceHold, locked, dciDone, ddrUp, lowFor>>
    <3>1. Writes(Op, "slcr", "lock")
      BY <2>1, <2>4 DEF LockKey, Writes
    <3>2. ~Writes(Op', p, "reset")
      BY <1>3, <2>1, <3>1
    <3> QED
      BY <1>1, <2>3, <2>4, <3>2 DEF Is, Writes, Writing
  <2>5. CASE ~LockKey /\ Put(Op) /\ HardwareTakes /\ (Op.unit \in SlcrUnits => unlocked)
    <3>1. Is(p, "bypass", "off")'
            <=> IF Writes(Op, p, "bypass") THEN Op.value = "off" ELSE Is(p, "bypass", "off")
      BY <1>5, <2>5, IsAfter
    <3>2. p \in locked' <=> p \in locked /\ ~Writes(Op, p, "reset")
      BY <2>1, <2>5 DEF HardwareTakes, Reset, Writes
    <3>3. Writes(Op, p, "reset") => unlocked /\ ~Writes(Op, p, "bypass")
      BY <1>1, <2>5 DEF Writes
    <3>4. (Is(p, "bypass", "off") => p \in locked)'
      BY <1>1, <2>1, <3>1, <3>2, <3>3
    <3>5. ASSUME Writes(Op', p, "reset") PROVE ~Is(p, "bypass", "off")'
      <4>1. CASE Writes(Op, p, "reset")
        BY <1>1, <2>1, <3>1, <3>3, <4>1
      <4>2. CASE Op = V30!MaskWrite(p, "bypass", "on")
        <5>1. Writes(Op, p, "bypass") /\ Op.value = "on"
          BY <2>1, <4>2 DEF Writes, V30!MaskWrite
        <5> QED
          BY <3>1, <5>1
      <4> QED
        BY <1>3, <2>1, <3>5, <4>1, <4>2
    <3>6. Ready(Op, p)'
      BY <2>3, <3>5 DEF Writes, Writing
    <3> QED
      BY <3>4, <3>6
  <2> QED
    BY <1>5, <2>4, <2>5, Taken
<1>6. CASE PollOp
  <2>1. /\ active /\ Op.op = "maskpoll" /\ UNCHANGED <<siVer, regs, locked, unlocked>>
    BY <1>6 DEF PollOp, Running, regVars, hwVars
  <2>2. (Is(p, "bypass", "off") => p \in locked)'
    BY <1>1, <2>1 DEF Is
  <2>3. CASE Answer /\ Advance /\ UNCHANGED <<active, table, ret, inited>>
    <3>1. pc' = pc + 1
      BY <2>3 DEF Advance
    <3>2. Op = V30!MaskPoll(p, "lock") => p \in locked
      <4>1. SUFFICES ASSUME Op = V30!MaskPoll(p, "lock") PROVE p \in locked
        OBVIOUS
      <4>2. Op.unit = p /\ p # "dci" /\ p # "ddrc"
        BY <4>1 DEF V30!MaskPoll, Plls
      <4>3. CASE p \in locked
        BY <4>3
      <4>4. CASE p \notin locked
        BY <2>3, <4>2, <4>4 DEF Answer
      <4> QED
        BY <4>3, <4>4
    <3>3. ~Writes(Op, p, "reset") /\ Op # V30!MaskWrite(p, "bypass", "on")
      BY <2>1 DEF Writes, Writing, V30!MaskWrite
    <3>4. /\ Writes(Op', p, "bypass") /\ Op'.value = "off" => p \in locked
          /\ ~Writes(Op', p, "reset")
      BY <1>3, <2>1, <2>3, <3>1, <3>2, <3>3
    <3>5. Ready(Op, p)'
      BY <2>1, <3>4 DEF Writes, Writing
    <3> QED
      BY <2>2, <3>5
  <2>4. CASE PollAgain
    <3>1. Op' = Op /\ active' = active
      BY <2>1, <2>4 DEF PollAgain, Op
    <3>2. Ready(Op, p)'
      BY <1>1, <2>1, <3>1 DEF Is, Writes, Writing
    <3> QED
      BY <2>2, <3>2
  <2>5. CASE TimedOut
    BY <2>2, <2>5 DEF TimedOut, Return
  <2> QED
    BY <1>6, <2>3, <2>4, <2>5 DEF PollOp
<1>7. CASE DelayOp
  <2>1. active /\ Op.op = "maskdelay" /\ (pc' = pc \/ pc' = pc + 1)
    BY <1>7 DEF DelayOp, Running, Advance
  <2>2. UNCHANGED <<siVer, active, table, regs, locked, unlocked>>
    BY <1>7 DEF DelayOp, Running, regVars
  <2>3. (Is(p, "bypass", "off") => p \in locked)'
    BY <1>1, <2>2 DEF Is
  <2>4. CASE pc' = pc
    <3>1. Op' = Op
      BY <2>2, <2>4 DEF Op
    <3>2. Ready(Op, p)'
      BY <1>1, <2>1, <2>2, <3>1 DEF Is, Writes, Writing
    <3> QED
      BY <2>3, <3>2
  <2>5. CASE pc' = pc + 1
    <3>2. /\ ~Writes(Op, p, "reset") /\ Op # V30!MaskWrite(p, "bypass", "on")
          /\ Op # V30!MaskPoll(p, "lock")
      BY <2>1 DEF Writes, Writing, V30!MaskWrite, V30!MaskPoll
    <3>3. ~(Writes(Op', p, "bypass") /\ Op'.value = "off") /\ ~Writes(Op', p, "reset")
      BY <1>3, <2>1, <2>2, <2>5, <3>2
    <3>4. Ready(Op, p)'
      BY <3>3 DEF Writes, Writing
    <3> QED
      BY <2>3, <3>4
  <2> QED
    BY <2>1, <2>4, <2>5
<1>8. CASE Calls
  <2>1. UNCHANGED <<regs, locked>> /\ siVer' = siVer /\ pc' = 1 /\ table' \in Tables
    BY <1>8 DEF Calls, Call, regVars, hwVars, Tables
  <2>2. siVer \in SiliconVersions
    BY DEF TypeInv, TypeOK
  <2> QED
    BY <1>1, <1>2, <2>1, <2>2 DEF Is
<1>9. CASE Hardware
  <2>1. UNCHANGED <<siVer, cpuVars, regs, unlocked>> /\ locked \subseteq locked'
    BY <1>9
    DEF Hardware, PllLocks, DciFinishes, DdrStarts, Tick, vars, regVars, hwVars
  <2>2. Op' = Op /\ active' = active
    BY <2>1 DEF Op, cpuVars
  <2>3. (Is(p, "bypass", "off") => p \in locked)'
    BY <1>1, <2>1 DEF Is
  <2>4. active => Ready(Op, p)'
    BY <1>1, <2>1, <2>2 DEF Is, Writes, Writing
  <2> QED
    BY <2>2, <2>3, <2>4
<1> QED
  BY <1>4, <1>5, <1>6, <1>7, <1>8, <1>9, StepCases

-----------------------------------------------------------------------------
(* DdrInv: how far the DDR table has got.                                  *)
LEMMA DdrInit == ASSUME Init PROVE DdrInv
  BY DEF Init, DdrInv

(* What a poll that was answered has seen. *)
LEMMA Answered ==
  ASSUME Answer
  PROVE  (Op = DciPoll => dciDone) /\ (Op = DdrPoll => ddrUp)
<1>1. ASSUME Op = DciPoll, ~dciDone PROVE FALSE
  <2>1. Op.unit = "dci" /\ "dci" \notin Plls
    BY <1>1, DdrOps DEF Plls
  <2> QED
    BY <1>1, <2>1 DEF Answer
<1>2. ASSUME Op = DdrPoll, ~ddrUp PROVE FALSE
  <2>1. Op.unit = "ddrc" /\ "ddrc" \notin Plls
    BY <1>2, DdrOps DEF Plls
  <2> QED
    BY <1>2, <2>1 DEF Answer
<1> QED
  BY <1>1, <1>2

LEMMA DdrStep == ASSUME TypeInv, LockInv, DdrInv, [Next]_vars PROVE DdrInv'
<1> DEFINE Set(s, n) == \A k \in 2..n - 1 :
                          Writing(s[k]) /\ s[k].field # 0 => s[k].field \in sinceHold
<1>1. ASSUME active, Op.op # "exit", UNCHANGED <<siVer, active, table>>, pc' = pc + 1,
             table = "ddr"
      PROVE  /\ Code' = Code /\ pc \in Nat /\ pc > 0 /\ Op = Code[pc] /\ DdrOrder(Code)
             /\ Op.unit = "ddrc" \/ ~Writing(Op)
             /\ Op' = ReleaseOp => Op = DciPoll
             /\ Op'.op = "exit" => Op = DdrPoll
  <2> DEFINE s == Code
             n == pc + 1
  <2>1. /\ Facts(table, s) /\ Op = s[pc] /\ pc \in 1..Len(s) /\ pc \in Nat
        /\ Code' = Code /\ Op' = s[n] /\ n \in 1..Len(s)
    <3>1. pc' \in 1..Len(Code) /\ Op' = Code[pc + 1] /\ Code' = Code
      BY <1>1, GoesOn
    <3> QED
      BY <1>1, <3>1, AtOp
  <2>2. n - 1 = pc /\ pc > 0
    BY <2>1
  <2> HIDE DEF s, n
  <2>3. DdrOrder(s) /\ WritesOnly(s, {"ddrc"})
    BY <1>1, <2>1 DEF Facts, UnitsOf
  <2>4. Op.unit = "ddrc" \/ ~Writing(Op)
    BY <2>1, <2>3 DEF WritesOnly
  <2>5. (s[n] = ReleaseOp => s[pc] = DciPoll) /\ (s[n].op = "exit" => s[pc] = DdrPoll)
    BY <2>1, <2>2, <2>3 DEF DdrOrder
  <2> QED
    BY <2>1, <2>2, <2>3, <2>4, <2>5 DEF s
<1>2. CASE ExitOp
  <2>1. SUFFICES ASSUME active', table' = "ddr" PROVE DdrInv'
    BY DEF DdrInv
  <2>2. /\ active /\ siVer' = siVer /\ pc' = 1
    BY <1>2, <2>1 DEF ExitOp, Running, Return
  <2>3. siVer' \in SiliconVersions /\ table' \in Tables
    BY <2>1, <2>2, AtOp DEF Tables
  <2> DEFINE s == Code'
  <2>4. Facts(table', s) /\ Op' = s[1] /\ Len(s) \in Nat /\ Len(s) > 1
    BY <2>2, <2>3, Starts
  <2> HIDE DEF s
  <2>5. Ends(s) /\ DdrOrder(s) /\ 1 \in 1..Len(s)
    BY <2>1, <2>4 DEF Facts
  <2>6. s[1] # ReleaseOp /\ s[1].op # "exit"
    BY <2>4, <2>5 DEF Ends, DdrOrder
  <2> QED
    BY <2>2, <2>4, <2>6 DEF DdrInv
<1>3. CASE WriteOp
  <2>1. SUFFICES ASSUME table = "ddr" PROVE DdrInv'
    BY <1>3, Written DEF DdrInv
  <2>2. /\ active /\ Writing(Op) /\ Op.op # "exit" /\ pc' = pc + 1
        /\ UNCHANGED <<siVer, active, table>>
    BY <1>3, Written
  <2>3. /\ Code' = Code /\ pc \in Nat /\ pc > 0 /\ Op = Code[pc] /\ DdrOrder(Code)
        /\ Op.unit = "ddrc"
        /\ Op' = ReleaseOp => Op = DciPoll
        /\ Op'.op = "exit" => Op = DdrPoll
    BY <1>1, <2>1, <2>2
  <2>4. Op' # ReleaseOp /\ Op'.op # "exit"
    BY <2>2, <2>3, DdrOps DEF Writing
  <2>5. HardwareTakes
    BY <1>3, <2>3, Taken DEF LockKey
  <2>6. ASSUME NEW k \in 2..pc, Writing(Code[k]), Code[k].field # 0
        PROVE  Code[k].field \in sinceHold'
    <3> DEFINE s == Code
    <3>1. pc \in 1..Len(s)
      BY <2>2, AtOp
    <3>2. pc > 1
      BY <2>3, <2>6
    <3> HIDE DEF s
    <3>3. ~(DdrReset /\ Op.value = "held")
      <4>1. ASSUME DdrReset, Op.value = "held" PROVE FALSE
        <5>1. Writes(s[pc], "ddrc", 0)
          BY <2>2, <2>3, <4>1 DEF DdrReset, Writes, s
        <5>2. s[pc] = ReleaseOp
          BY <2>3, <3>1, <3>2, <5>1 DEF DdrOrder, s
        <5> QED
          BY <2>3, <4>1, <5>2, DdrOps DEF s
      <4> QED
        BY <4>1
    <3>4. sinceHold \subseteq sinceHold'
      BY <2>3, <2>5, <3>3 DEF HardwareTakes
    <3>5. CASE k = pc
      <4>1. s[k] = Op /\ Op.field # 0
        BY <2>3, <2>6, <3>5 DEF s
      <4>2. Op.field \in sinceHold'
        BY <2>3, <2>5, <4>1 DEF HardwareTakes, DdrReset
      <4> QED
        BY <4>1, <4>2 DEF s
    <3>6. CASE k # pc
      <4>1. k \in 2..pc - 1
        BY <2>3, <3>6
      <4>2. s[k].field \in sinceHold
        BY <2>1, <2>2, <2>6, <4>1 DEF DdrInv, s
      <4> QED
        BY <3>4, <4>2 DEF s
    <3> QED
      BY <3>5, <3>6
  <2>7. pc' - 1 = pc
    BY <2>2, <2>3
  <2> QED
    BY <2>2, <2>3, <2>4, <2>6, <2>7 DEF DdrInv
<1>4. CASE PollOp
  <2>1. SUFFICES ASSUME active', table' = "ddr" PROVE DdrInv'
    BY DEF DdrInv
  <2>2. /\ active /\ Op.op = "maskpoll" /\ UNCHANGED <<siVer, sinceHold, dciDone, ddrUp>>
    BY <1>4 DEF PollOp, Running, regVars, hwVars
  <2>3. CASE Answer /\ Advance /\ UNCHANGED <<active, table, ret, inited>>
    <3>1. pc' = pc + 1 /\ table = "ddr"
      BY <2>1, <2>3 DEF Advance
    <3>2. /\ Code' = Code /\ pc \in Nat /\ pc > 0 /\ Op = Code[pc]
          /\ Op' = ReleaseOp => Op = DciPoll
          /\ Op'.op = "exit" => Op = DdrPoll
      BY <1>1, <2>2, <2>3, <3>1
    <3>3. (Op' = ReleaseOp => dciDone) /\ (Op'.op = "exit" => ddrUp)
      BY <2>3, <3>2, Answered
    <3>4. ASSUME NEW k \in 2..pc' - 1, Writing(Code[k]), Code[k].field # 0
          PROVE  Code[k].field \in sinceHold
      <4>1. k # pc
        BY <2>2, <3>2, <3>4 DEF Writing
      <4>2. k \in 2..pc - 1
        BY <3>1, <3>2, <4>1
      <4> QED
        BY <2>2, <3>1, <3>4, <4>2 DEF DdrInv
    <3> QED
      BY <2>2, <3>2, <3>3, <3>4 DEF DdrInv
  <2>4. CASE PollAgain
    <3>1. Code' = Code /\ Op' = Op /\ UNCHANGED <<active, table, pc>>
      BY <2>2, <2>4 DEF PollAgain, Code, Op
    <3> QED
      BY <2>2, <3>1 DEF DdrInv
  <2>5. CASE TimedOut
    BY <2>1, <2>5 DEF TimedOut, Return
  <2> QED
    BY <1>4, <2>3, <2>4, <2>5 DEF PollOp
<1>5. CASE DelayOp
  <2>1. active /\ Op.op = "maskdelay" /\ table' = table
    BY <1>5 DEF DelayOp, Running
  <2>2. table # "ddr"
    <3>1. Facts(table, Code) /\ Op = Code[pc] /\ pc \in 1..Len(Code)
      BY <2>1, AtOp
    <3> QED
      BY <2>1, <3>1 DEF Facts, NoDelay
  <2> QED
    BY <2>1, <2>2 DEF DdrInv
<1>6. CASE Calls
  BY <1>6 DEF Calls, Call, DdrInv
<1>7. CASE Hardware
  <2>1. /\ UNCHANGED <<siVer, cpuVars, sinceHold>> /\ (dciDone => dciDone') /\ (ddrUp => ddrUp')
    BY <1>7
    DEF Hardware, PllLocks, DciFinishes, DdrStarts, Tick, vars, regVars, hwVars
  <2>2. Code' = Code /\ Op' = Op /\ UNCHANGED <<active, table, pc>>
    BY <2>1 DEF Code, Op, cpuVars
  <2> QED
    BY <2>1, <2>2 DEF DdrInv
<1> QED
  BY <1>2, <1>3, <1>4, <1>5, <1>6, <1>7, StepCases

-----------------------------------------------------------------------------
Stages == {"pll", "clock", "ddr", "peripherals"}

(* ps7_init gets past a table only where the table ends.                    *)
LEMMA PastBefore ==
  ASSUME TypeInv, LockInv, [Next]_vars, NEW T \in SUBSET Stages, "peripherals" \in T, Past(T)'
  PROVE  \/ Past(T)
         \/ ExitOp /\ active /\ Op.op = "exit" /\ NextTable[table] \in T /\ table \notin T
<1>1. CASE ExitOp
  <2>1. active /\ Op.op = "exit" /\ table \in Tables
    BY <1>1, AtOp DEF ExitOp, Running
  <2>2. CASE NextTable[table] = "none"
    <3>1. Return("success") /\ inited \in BOOLEAN
      BY <1>1, <2>2 DEF ExitOp, TypeInv, TypeOK
    <3>2. /\ ~active' /\ table \in {"post", "debug"} => inited' = inited
      BY <3>1, Returned
    <3>3. table \in {"peripherals", "post", "debug"}
      BY <2>1, <2>2, Following DEF Tables
    <3> QED
      BY <2>1, <3>1, <3>2, <3>3, Returned DEF Past
  <2>3. CASE NextTable[table] # "none"
    BY <1>1, <2>1, <2>3 DEF ExitOp, Past
  <2> QED
    BY <2>2, <2>3
<1>2. CASE WriteOp
  BY <1>2, Written DEF Past
<1>3. CASE PollOp
  <2>1. active /\ Op.op = "maskpoll"
    BY <1>3 DEF PollOp, Running
  <2>2. CASE Advance /\ UNCHANGED <<active, table, ret, inited>>
    BY <2>2 DEF Past
  <2>3. CASE PollAgain
    BY <2>3 DEF PollAgain, Past
  <2>4. CASE TimedOut
    <3>1. Return("timeout") /\ inited \in BOOLEAN
      BY <2>4 DEF TimedOut, TypeInv, TypeOK
    <3>2. table \notin {"post", "debug"}
      <4>1. Facts(table, Code) /\ Op = Code[pc] /\ pc \in 1..Len(Code)
        BY <2>1, AtOp
      <4> QED
        BY <2>1, <4>1 DEF Facts, NoPoll
    <3>3. ~active' /\ ~inited'
      BY <3>1, <3>2, Returned
    <3> QED
      BY <3>3 DEF Past
  <2> QED
    BY <1>3, <2>2, <2>3, <2>4 DEF PollOp
<1>4. CASE DelayOp
  BY <1>4 DEF DelayOp, Past
<1>5. CASE Calls
  <2>1. PICK first \in {"mio", "post", "debug"} : Call(first)
    BY <1>5 DEF Calls
  <2>2. table' \notin T /\ (inited' => inited)
    <3>1. table' = first /\ inited' = (inited /\ first # "mio")
      BY <2>1 DEF Call
    <3>2. table' \notin T
      BY <3>1 DEF Stages
    <3>3. inited' => inited
      BY <3>1, Zenon
    <3> QED
      BY <3>2, <3>3
  <2> QED
    BY <2>2 DEF Past
<1>6. CASE Hardware
  BY <1>6 DEF Hardware, PllLocks, DciFinishes, DdrStarts, Tick, vars, cpuVars, Past
<1> QED
  BY <1>1, <1>2, <1>3, <1>4, <1>5, <1>6, StepCases

(* Only a write changes a register. *)
LEMMA OnlyWrites == ASSUME [Next]_vars PROVE WriteOp \/ regs' = regs
  BY StepCases
  DEF ExitOp, PollOp, DelayOp, Calls, Call, Hardware, PllLocks, DciFinishes, DdrStarts, Tick,
      vars, regVars

(* A register that no later table writes keeps what a table has left in it. *)
LEMMA Lasting ==
  ASSUME TypeInv, LockInv, [Next]_vars, NEW T \in SUBSET Stages, "peripherals" \in T,
         NEW u, NEW f, NEW v,
         Past(T) => Is(u, f, v),
         active /\ Past(T) => ~Writes(Op, u, f),
         active /\ Op.op = "exit" /\ NextTable[table] \in T /\ table \notin T => Is(u, f, v),
         Past(T)'
  PROVE  Is(u, f, v)'
<1>1. CASE Past(T)
  <2>1. CASE WriteOp
    <3>1. active
      BY <2>1, Written
    <3> QED
      BY <1>1, <2>1, <3>1, IsAfter
  <2>2. CASE regs' = regs
    BY <1>1, <2>2 DEF Is
  <2> QED
    BY <2>1, <2>2, OnlyWrites
<1>2. CASE ExitOp /\ active /\ Op.op = "exit" /\ NextTable[table] \in T /\ table \notin T
  BY <1>2 DEF ExitOp, regVars, Is
<1> QED
  BY <1>1, <1>2, PastBefore

(* What a table leaves behind when it ends. *)
LEMMA FinalIs ==
  ASSUME TypeInv, KeptInv, active, Op.op = "exit", NEW u, NEW f, NEW v, Final(Code, u, f, v)
  PROVE  Is(u, f, v)
<1> DEFINE s == Code
<1>1. pc = Len(s) /\ Len(s) \in Nat
  BY AtOp
<1>2. PICK k \in 1..Len(s) - 1 :
        Stays(s, k, Len(s) - 1) /\ Writes(s[k], u, f) /\ s[k].value = v
  BY DEF Final
<1>3. Is(s[k].unit, s[k].field, s[k].value)
  BY <1>1, <1>2 DEF KeptInv
<1> QED
  BY <1>2, <1>3 DEF Writes

LEMMA StageInit == ASSUME Init PROVE StageInv
  BY DEF Init, StageInv, Past

LEMMA StageStep ==
  ASSUME TypeInv, LockInv, KeptInv, DdrInv, StageInv, [Next]_vars
  PROVE  StageInv'
<1> DEFINE T1 == {"pll", "clock", "ddr", "peripherals"}
           T2 == {"clock", "ddr", "peripherals"}
           T3 == {"ddr", "peripherals"}
           T4 == {"peripherals"}
<1>1. ASSUME active
      PROVE  Facts(table, Code) /\ table \in Tables /\ Op = Code[pc] /\ pc \in 1..Len(Code)
  BY <1>1, AtOp
<1>2. ASSUME active, inited PROVE table \in {"post", "debug"}
  BY <1>2 DEF LockInv
<1>3. ASSUME active, NEW u, NEW f, Writes(Op, u, f) PROVE u \in UnitsOf[table]
  BY <1>1, <1>3 DEF Facts, WritesOnly, Writes
<1>4. ASSUME NEW n \in 0..53, Past(T1)' PROVE Is("mio", n, BoardPin[n])'
  <2>1. ASSUME active, Past(T1) PROVE ~Writes(Op, "mio", n)
    <3>1. table \in T1 \cup {"post", "debug"}
      BY <1>2, <2>1 DEF Past
    <3>2. "mio" \notin UnitsOf[table]
      BY <3>1 DEF UnitsOf
    <3> QED
      BY <1>3, <2>1, <3>2
  <2>2. ASSUME active, Op.op = "exit", NextTable[table] \in T1, table \notin T1
        PROVE  Is("mio", n, BoardPin[n])
    <3>1. table = "mio" /\ Facts("mio", Code)
      BY <1>1, <2>2, Following DEF Tables
    <3> QED
      BY <2>2, <3>1, FinalIs DEF Facts
  <2>3. Past(T1) => Is("mio", n, BoardPin[n])
    BY DEF StageInv
  <2>4. T1 \in SUBSET Stages /\ "peripherals" \in T1
    BY DEF Stages
  <2> HIDE DEF T1
  <2>5. ASSUME NEW m, NEW v, m = n, v = BoardPin[n] PROVE Is("mio", m, v)'
    BY <1>4, <2>1, <2>2, <2>3, <2>4, <2>5, Lasting
  <2> QED
    BY <2>5
<1>5. ASSUME Past(T2)' PROVE Is("clk", "ddr", {"ddr"})' /\ \A p \in Plls : Is(p, "bypass", "off")'
  <2>1. T2 \in SUBSET Stages /\ "peripherals" \in T2
    BY DEF Stages
  <2>2. ASSUME active, Past(T2) PROVE table \in {"clock", "ddr", "peripherals", "post", "debug"}
    BY <1>2, <2>2 DEF Past
  <2>3. ASSUME active, Past(T2) PROVE ~Writes(Op, "clk", "ddr")
    <3>1. CASE table = "clock"
      BY <1>1, <2>3, <3>1 DEF Facts
    <3>2. CASE table # "clock"
      <4>1. "clk" \notin UnitsOf[table]
        BY <2>2, <2>3, <3>2 DEF UnitsOf
      <4> QED
        BY <1>3, <2>3, <4>1
    <3> QED
      BY <3>1, <3>2
  <2>4. ASSUME active, Past(T2), NEW p \in Plls PROVE ~Writes(Op, p, "bypass")
    <3>1. p \notin UnitsOf[table]
      BY <2>2, <2>4 DEF UnitsOf, Plls
    <3> QED
      BY <1>3, <2>4, <3>1
  <2>5. ASSUME active, Op.op = "exit", NextTable[table] \in T2, table \notin T2
        PROVE  Is("clk", "ddr", {"ddr"}) /\ \A p \in Plls : Is(p, "bypass", "off")
    <3>1. table = "pll" /\ Facts("pll", Code)
      BY <1>1, <2>5, Following DEF Tables
    <3>2. Is("clk", "ddr", {"ddr"})
      BY <2>5, <3>1, FinalIs DEF Facts
    <3>3. ASSUME NEW p \in Plls PROVE Is(p, "bypass", "off")
      BY <2>5, <3>1, FinalIs DEF Facts
    <3> QED
      BY <3>2, <3>3
  <2>6. Past(T2) => Is("clk", "ddr", {"ddr"}) /\ \A p \in Plls : Is(p, "bypass", "off")
    BY DEF StageInv
  <2> HIDE DEF T2
  <2>7. Is("clk", "ddr", {"ddr"})'
    BY <1>5, <2>1, <2>3, <2>5, <2>6, Lasting
  <2>8. ASSUME NEW p \in Plls PROVE Is(p, "bypass", "off")'
    BY <1>5, <2>1, <2>4, <2>5, <2>6, Lasting
  <2> QED
    BY <2>7, <2>8
<1>6. ASSUME Past(T3)' PROVE Is("clk", "aper", AperUnits)'
  <2>1. T3 \in SUBSET Stages /\ "peripherals" \in T3
    BY DEF Stages
  <2>2. ASSUME active, Past(T3) PROVE ~Writes(Op, "clk", "aper")
    <3>1. table \in {"ddr", "peripherals", "post", "debug"}
      BY <1>2, <2>2 DEF Past
    <3>2. "clk" \notin UnitsOf[table]
      BY <3>1 DEF UnitsOf
    <3> QED
      BY <1>3, <2>2, <3>2
  <2>3. ASSUME active, Op.op = "exit", NextTable[table] \in T3, table \notin T3
        PROVE  Is("clk", "aper", AperUnits)
    <3>1. table = "clock" /\ Facts("clock", Code)
      BY <1>1, <2>3, Following DEF Tables
    <3> QED
      BY <2>3, <3>1, FinalIs DEF Facts
  <2>4. Past(T3) => Is("clk", "aper", AperUnits)
    BY DEF StageInv
  <2> HIDE DEF T3
  <2>5. ASSUME NEW v, v = AperUnits PROVE Is("clk", "aper", v)'
    BY <1>6, <2>1, <2>2, <2>3, <2>4, <2>5, Lasting
  <2> QED
    BY <2>5 DEF AperUnits
<1>7. ASSUME Past(T4)' PROVE ddrUp'
  <2>1. T4 \in SUBSET Stages /\ "peripherals" \in T4
    BY DEF Stages
  <2>2. CASE Past(T4)
    <3>1. ddrUp
      BY <2>2 DEF StageInv
    <3>2. CASE WriteOp
      <4>1. active /\ Writing(Op)
        BY <3>2, Written
      <4>2. table \in {"peripherals", "post", "debug"}
        BY <1>2, <2>2, <4>1 DEF Past
      <4>3. "ddrc" \notin UnitsOf[table]
        BY <4>2 DEF UnitsOf
      <4>4. Op.unit # "ddrc"
        BY <1>3, <4>1, <4>3 DEF Writes
      <4> QED
        BY <3>1, <3>2, <4>4, Taken DEF HardwareTakes, DdrReset
    <3>3. CASE ExitOp \/ PollOp \/ DelayOp \/ Calls \/ Hardware
      BY <3>1, <3>3
      DEF ExitOp, PollOp, DelayOp, Calls, Call, Hardware, PllLocks, DciFinishes, DdrStarts,
          Tick, vars, hwVars
    <3> QED
      BY <3>2, <3>3, StepCases
  <2>3. CASE ExitOp /\ active /\ Op.op = "exit" /\ NextTable[table] \in T4 /\ table \notin T4
    <3>1. table = "ddr" /\ ddrUp' = ddrUp
      BY <1>1, <2>3, Following DEF Tables, ExitOp, hwVars
    <3> QED
      BY <2>3, <3>1 DEF DdrInv
  <2> HIDE DEF T4
  <2> QED
    BY <1>7, <2>1, <2>2, <2>3, PastBefore
<1> QED
  BY <1>4, <1>5, <1>6, <1>7 DEF StageInv

-----------------------------------------------------------------------------
(* UsbInv: the USB PHY is held in reset for the whole delay.               *)
LEMMA UsbInit == ASSUME Init PROVE UsbInv
  BY DEF Init, UsbInv

LEMMA UsbStep == ASSUME TypeInv, LockInv, KeptInv, UsbInv, [Next]_vars PROVE UsbInv'
<1> DEFINE Delayed(s, n) == \E k \in 1..n - 1 : s[k].op = "maskdelay"
<1>1. lowFor \in 0..DelayTime /\ timer.count \in 0..DelayTime /\ DelayTime \in Nat
  BY BootAssumption DEF TypeInv, TypeOK
<1>2. ASSUME active
      PROVE  /\ Facts(table, Code) /\ table \in Tables /\ Op = Code[pc] /\ pc \in 1..Len(Code)
             /\ pc \in Nat /\ pc > 0
  BY <1>2, AtOp
<1>3. ASSUME ~active' \/ pc' = 1, ~active' \/ i' = 0, UNCHANGED <<inited, regs, lowFor>>
      PROVE  UsbInv'
  BY <1>3 DEF UsbInv, UsbPhyReset, Is
(* on to the next operation, when this one is no delay *)
<1>4. ASSUME active, Op.op # "maskdelay", UNCHANGED <<siVer, active, table>>, pc' = pc + 1, i' = 0,
             Delayed(Code, pc) => lowFor' = lowFor, inited' => UsbPhyReset'
      PROVE  UsbInv'
  <2>1. Code' = Code
    BY <1>4 DEF Code
  <2> DEFINE s == Code
  <2>2. ASSUME NEW k \in 1..pc' - 1, s[k].op = "maskdelay" PROVE lowFor' = DelayTime
    <3>1. k # pc
      BY <1>2, <1>4, <2>2
    <3>2. k \in 1..pc - 1
      BY <1>2, <1>4, <3>1
    <3>3. Delayed(s, pc)
      BY <2>2, <3>2
    <3> QED
      BY <1>4, <3>3 DEF UsbInv
  <2> QED
    BY <1>4, <2>1, <2>2 DEF UsbInv
<1>5. CASE ExitOp
  <2>1. /\ active /\ Op.op = "exit" /\ i' = 0 /\ UNCHANGED <<regs, lowFor>>
    BY <1>5 DEF ExitOp, Running, regVars, hwVars
  <2>2. CASE NextTable[table] = "none"
    <3>1. Return("success") /\ inited \in BOOLEAN
      BY <1>5, <2>2 DEF ExitOp, TypeInv, TypeOK
    <3>2. /\ ~active'
          /\ table \in {"post", "debug"} => inited' = inited
      BY <3>1, Returned
    <3>3. CASE table \in {"post", "debug"}
      BY <1>3, <2>1, <3>2, <3>3
    <3>4. CASE table = "peripherals"
      <4>1. /\ PulseOrder(Code) /\ Final(Code, "gpio", "pin51", "high")
            /\ Final(Code, "gpio", "output", "pin51")
        BY <1>2, <2>1, <3>4 DEF Facts
      <4>2. Is("gpio", "pin51", "high") /\ Is("gpio", "output", "pin51")
        BY <2>1, <4>1, FinalIs
      <4>3. Delayed(Code, pc)
        BY <1>2, <2>1, <4>1 DEF PulseOrder
      <4>4. lowFor = DelayTime
        BY <2>1, <4>3 DEF UsbInv
      <4> QED
        BY <2>1, <3>2, <4>2, <4>4 DEF UsbInv, UsbPhyReset, Is
    <3>5. table \in {"peripherals", "post", "debug"}
      BY <1>2, <2>1, <2>2, Following DEF Tables
    <3> QED
      BY <3>3, <3>4, <3>5
  <2>3. CASE NextTable[table] # "none"
    BY <1>3, <1>5, <2>1, <2>3 DEF ExitOp
  <2> QED
    BY <2>2, <2>3
<1>6. CASE WriteOp
  <2>1. /\ active /\ Writing(Op) /\ pc' = pc + 1 /\ i' = 0
        /\ UNCHANGED <<siVer, active, table, inited>>
    BY <1>6, Written DEF WriteOp, Advance
  <2>2. Op.op # "maskdelay"
    BY <2>1 DEF Writing
  <2>3. lowFor' = lowFor \/ (Op.unit = "gpio" /\ Op.value = "low")
    BY <1>6, Taken DEF HardwareTakes
  <2>4. ASSUME Delayed(Code, pc) PROVE lowFor' = lowFor
    <3> DEFINE s == Code
    <3>1. PICK k \in 1..pc - 1 : s[k].op = "maskdelay"
      BY <2>4
    <3>2. /\ Facts(table, s) /\ Op = s[pc] /\ pc \in 1..Len(s) /\ pc \in Nat /\ Len(s) \in Nat
      BY <2>1, AtOp
    <3> HIDE DEF s
    <3>3. k \in 1..Len(s) /\ pc \in k + 1..Len(s)
      BY <3>1, <3>2
    <3>4. table = "peripherals"
      BY <3>1, <3>2, <3>3 DEF Facts, NoDelay
    <3>5. ~(Op.unit = "gpio" /\ Op.value = "low")
      BY <2>1, <3>1, <3>2, <3>3, <3>4 DEF Facts, PulseOrder
    <3> QED
      BY <2>3, <3>5
  <2>5. ASSUME inited PROVE UsbPhyReset'
    <3>1. table \in {"post", "debug"}
      BY <2>1, <2>5 DEF LockInv
    <3>2. Op.unit \in UnitsOf[table]
      BY <1>2, <2>1 DEF Facts, WritesOnly
    <3>3. Op.unit # "gpio"
      BY <3>1, <3>2 DEF UnitsOf
    <3>4. /\ Is("gpio", "pin51", "high")' <=> Is("gpio", "pin51", "high")
          /\ Is("gpio", "output", "pin51")' <=> Is("gpio", "output", "pin51")
      BY <1>6, <3>3, IsAfter DEF Writes
    <3> QED
      BY <2>3, <2>5, <3>3, <3>4 DEF UsbInv, UsbPhyReset
  <2> QED
    BY <1>4, <2>1, <2>2, <2>4, <2>5
<1>7. CASE PollOp
  <2>1. active /\ Op.op = "maskpoll" /\ UNCHANGED <<siVer, regs, lowFor>>
    BY <1>7 DEF PollOp, Running, regVars, hwVars
  <2>2. inited => UsbPhyReset'
    BY <2>1 DEF UsbInv, UsbPhyReset, Is
  <2>3. CASE Advance /\ UNCHANGED <<active, table, ret, inited>>
    BY <1>4, <2>1, <2>2, <2>3 DEF Advance
  <2>4. CASE PollAgain
    <3>1. Op' = Op /\ Code' = Code /\ UNCHANGED <<active, table, pc, inited>>
      BY <2>1, <2>4 DEF PollAgain, Op, Code
    <3> QED
      BY <2>1, <2>2, <3>1 DEF UsbInv
  <2>5. CASE TimedOut
    <3>1. Return("timeout") /\ inited \in BOOLEAN
      BY <2>5 DEF TimedOut, TypeInv, TypeOK
    <3>2. table \notin {"post", "debug"}
      BY <1>2, <2>1 DEF Facts, NoPoll
    <3>3. ~active' /\ ~inited'
      BY <3>1, <3>2, Returned
    <3> QED
      BY <3>3 DEF UsbInv
  <2> QED
    BY <1>7, <2>3, <2>4, <2>5 DEF PollOp
<1>8. CASE DelayOp
  <2>1. /\ active /\ Op.op = "maskdelay"
        /\ UNCHANGED <<siVer, active, table, inited, regs, lowFor>>
    BY <1>8 DEF DelayOp, Running, regVars
  <2>2. Code' = Code /\ (UsbPhyReset => UsbPhyReset')
    BY <2>1 DEF Code, UsbPhyReset, Is
  <2>3. CASE StartTimer /\ pc' = pc
    <3>1. timer'.count = 0
      BY <2>3 DEF StartTimer
    <3> QED
      BY <1>1, <2>1, <2>2, <2>3, <3>1 DEF UsbInv
  <2>4. CASE i = 1 /\ timer.count >= DelayTime /\ Advance
    <3>1. lowFor = DelayTime
      <4>1. lowFor >= timer.count
        BY <2>1, <2>4 DEF UsbInv
      <4> QED
        BY <1>1, <2>4, <4>1
    <3> QED
      BY <2>1, <2>2, <2>4, <3>1 DEF UsbInv, Advance
  <2> QED
    BY <1>8, <2>3, <2>4 DEF DelayOp
<1>9. CASE Calls
  <2>1. PICK first \in {"mio", "post", "debug"} : Call(first)
    BY <1>9 DEF Calls
  <2>2. pc' = 1 /\ i' = 0 /\ UNCHANGED <<regs, lowFor>> /\ inited' = (inited /\ first # "mio")
    BY <2>1 DEF Call, regVars, hwVars
  <2>3. inited' => inited
    BY <2>2, Zenon
  <2> QED
    BY <2>2, <2>3 DEF UsbInv, UsbPhyReset, Is
<1>10. CASE Hardware
  <2>1. UNCHANGED <<siVer, cpuVars, regs>>
    BY <1>10
    DEF Hardware, PllLocks, DciFinishes, DdrStarts, Tick, vars, regVars, hwVars
  <2>2. Code' = Code /\ Op' = Op /\ UNCHANGED <<active, table, pc, i, inited>>
    BY <2>1 DEF Code, Op, cpuVars
  <2>3. CASE UNCHANGED <<timer, lowFor>>
    BY <2>1, <2>2, <2>3 DEF UsbInv, UsbPhyReset, Is
  <2>4. CASE Tick
    <3>1. /\ timer.count < DelayTime /\ timer'.count = timer.count + 1
          /\ Is("gpio", "pin51", "low") /\ lowFor < DelayTime => lowFor' = lowFor + 1
          /\ ~(Is("gpio", "pin51", "low") /\ lowFor < DelayTime) => lowFor' = lowFor
      BY <2>4 DEF Tick, TypeInv, TypeOK
    <3>2. lowFor = DelayTime => lowFor' = DelayTime
      BY <1>1, <3>1
    <3>3. ASSUME active, Op.op = "maskdelay", i = 1 PROVE lowFor' >= timer'.count
      <4> DEFINE s == Code
      <4>1. /\ Facts(table, s) /\ Op = s[pc] /\ pc \in 1..Len(s) /\ pc \in Nat
        BY <1>2, <3>3
      <4> HIDE DEF s
      <4>2. table = "peripherals"
        BY <3>3, <4>1 DEF Facts, NoDelay
      <4>3. pc > 1 /\ s[pc - 1] = LowOp
        BY <3>3, <4>1, <4>2 DEF Facts, PulseOrder
      <4>4. pc - 1 \in 1..pc - 1 /\ (pc - 1) + 1..pc - 1 = {}
        BY <4>1, <4>3
      <4>5. Stays(s, pc - 1, pc - 1)
        BY <4>3, <4>4, PulseOps DEF Stays, Writes, Writing
      <4>6. Is(s[pc - 1].unit, s[pc - 1].field, s[pc - 1].value)
        BY <3>3, <4>4, <4>5 DEF KeptInv, s
      <4>7. Is("gpio", "pin51", "low")
        BY <4>3, <4>6, PulseOps
      <4>8. lowFor >= timer.count
        BY <3>3 DEF UsbInv
      <4> QED
        BY <1>1, <3>1, <4>7, <4>8
    <3> QED
      BY <2>1, <2>2, <3>2, <3>3 DEF UsbInv, UsbPhyReset, Is
  <2> QED
    BY <1>10, <2>3, <2>4
    DEF Hardware, PllLocks, DciFinishes, DdrStarts, vars, hwVars
<1> QED
  BY <1>5, <1>6, <1>7, <1>8, <1>9, <1>10, StepCases

-----------------------------------------------------------------------------
(* The inductive invariant of the start-up.                                *)
BootInv ==
  TypeInv /\ LockInv /\ KeptInv /\ PllInv /\ DdrInv /\ StageInv /\ UsbInv

(* Whatever calls are made, and whether the hardware answers or not, the   *)
(* state is where the tables have brought it (ps7_init.c, ps7_config).     *)
THEOREM BootInvariant == Spec => []BootInv
<1>1. ASSUME Init PROVE BootInv
  BY <1>1, TypeInit, LockInit, KeptInit, PllInit, DdrInit, StageInit, UsbInit DEF BootInv
<1>2. ASSUME BootInv, [Next]_vars PROVE BootInv'
  BY <1>2, TypeStep, LockStep, KeptStep, PllStep, DdrStep, StageStep, UsbStep DEF BootInv
<1> QED
  BY <1>1, <1>2, PTL DEF Spec

(* The start-up's state keeps its types: ps7_config never reads past the   *)
(* end of a table (ps7_init.c, OPCODE_EXIT).                               *)
THEOREM TypeCorrect == Spec => []TypeOK
  BY BootInvariant, PTL DEF BootInv, TypeInv

(* A PLL in use is locked, also while ps7_init runs again on a running     *)
(* system or after a poll that gave up (ps7_init.c, REMOVE PLL BY PASS).   *)
THEOREM PllsLocked == Spec => []PllUsedLocked
  BY BootInvariant, PTL DEF BootInv, PllInv

(* A call leaves the SLCR locked, unless it gave up waiting for a PLL      *)
(* (ps7_init.c, LOCK IT BACK).                                             *)
THEOREM SlcrClosed == Spec => []SlcrLeftOpen
  BY BootInvariant, PTL DEF BootInv, LockInv

(* The bus clocks cover every pin's peripheral.                            *)
LEMMA PinsClocked ==
  ASSUME Is("clk", "aper", AperUnits), NEW n \in 0..53
  PROVE  BoardPin[n] \in Clocked
<1>1. BoardPin[n] \in AperUnits
  BY DEF BoardPin, AperUnits
<1>2. AperUnits \subseteq Clocked
  <2> DEFINE k == <<"clk", "aper">>
  <2>1. k \in DOMAIN regs /\ regs[k] = AperUnits /\ k[1] = "clk"
    BY DEF Is
  <2> HIDE DEF k
  <2> QED
    BY <2>1 DEF Clocked
<1> QED
  BY <1>1, <1>2

(* When ps7_init returns success PLLs and DDR run, every pin has its       *)
(* function and clock, the USB PHY its full reset pulse (ps7_init).        *)
THEOREM SuccessIsReady == Spec => []ReadyOnSuccess
<1>1. ASSUME BootInv PROVE ReadyOnSuccess
  <2>1. SUFFICES ASSUME ~active, inited
                 PROVE  /\ \A p \in Plls : Is(p, "bypass", "off")
                        /\ ddrUp /\ ~unlocked /\ UsbPhyReset
                        /\ \A n \in 0..53 : Is("mio", n, BoardPin[n]) /\ BoardPin[n] \in Clocked
    BY DEF ReadyOnSuccess
  <2>2. /\ \A n \in 0..53 : Is("mio", n, BoardPin[n])
        /\ \A p \in Plls : Is(p, "bypass", "off")
        /\ Is("clk", "aper", AperUnits) /\ ddrUp
    BY <1>1, <2>1 DEF BootInv, StageInv, Past
  <2>3. ~unlocked /\ UsbPhyReset
    BY <1>1, <2>1 DEF BootInv, LockInv, UsbInv
  <2> QED
    BY <2>2, <2>3, PinsClocked
<1> QED
  BY <1>1, BootInvariant, PTL

(* The DDR controller leaves reset only with a clock from a locked PLL,    *)
(* calibrated pads and every byte lane set up since (UNLOCK DDR).          *)
THEOREM DdrReleasedWhenReady == Spec => DdrReleasedReady
<1> DEFINE Ready == /\ dciDone /\ LaneRegisters \subseteq sinceHold
                    /\ "ddr" \in Clocked /\ "ddrpll" \in locked /\ Is("ddrpll", "bypass", "off")
<1>1. ASSUME BootInv, [Next]_vars, DdrReleases PROVE Ready
  <2>1. TypeInv /\ LockInv
    BY <1>1 DEF BootInv
  <2>2. WriteOp
    BY <1>1, OnlyWrites DEF DdrReleases, Is
  <2>3. Writes(Op, "ddrc", 0) /\ Op.value = "released"
    BY <1>1, <2>1, <2>2, IsAfter DEF DdrReleases
  <2>4. active
    BY <2>2, Written
  <2> DEFINE s == Code
  <2>5. Facts(table, s) /\ Op = s[pc] /\ pc \in 1..Len(s) /\ pc \in Nat /\ table \in Tables
    BY <2>1, <2>4, AtOp
  <2>6. table = "ddr"
    <3>1. "ddrc" \in UnitsOf[table]
      BY <2>3, <2>5 DEF Facts, WritesOnly, Writes
    <3> QED
      BY <2>5, <3>1 DEF UnitsOf, Tables
  <2>7. DdrOrder(s)
    BY <2>5, <2>6 DEF Facts
  <2> HIDE DEF s
  <2>8. Op = ReleaseOp
    BY <2>3, <2>5, <2>7, DdrOps DEF DdrOrder
  <2>9. \A f \in LaneRegisters : \E j \in 2..pc - 1 : Writes(s[j], "ddrc", f)
    BY <2>5, <2>7, <2>8 DEF DdrOrder
  <2>10. dciDone /\ \A k \in 2..pc - 1 : Writing(s[k]) /\ s[k].field # 0 => s[k].field \in sinceHold
    BY <1>1, <2>4, <2>6, <2>8 DEF BootInv, DdrInv, s
  <2>11. \A f \in LaneRegisters : f # 0
    BY DEF LaneRegisters
  <2>12. LaneRegisters \subseteq sinceHold
    BY <2>9, <2>10, <2>11 DEF Writes
  <2>13. Is("clk", "ddr", {"ddr"}) /\ Is("ddrpll", "bypass", "off")
    BY <1>1, <2>4, <2>6 DEF BootInv, StageInv, Past, Plls
  <2>14. "ddr" \in Clocked
    <3> DEFINE k == <<"clk", "ddr">>
    <3>1. k \in DOMAIN regs /\ regs[k] = {"ddr"} /\ k[1] = "clk"
      BY <2>13 DEF Is
    <3> HIDE DEF k
    <3> QED
      BY <3>1 DEF Clocked
  <2>15. "ddrpll" \in locked
    BY <1>1, <2>13 DEF BootInv, PllInv, PllUsedLocked, Plls
  <2> QED
    BY <2>10, <2>12, <2>13, <2>14, <2>15
<1> QED
  BY <1>1, BootInvariant, PTL DEF Spec, DdrReleasedReady
=============================================================================
