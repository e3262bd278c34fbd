---------------------------- MODULE RegisterFile ----------------------------
(***************************************************************************)
(* What software relies on when it reads and writes the carrier's           *)
(* registers: a read returns what the register holds, an answered write is  *)
(* in the register, and nothing else changes it.  A read and a write        *)
(* outstanding together disturb each other: the read may return anything,   *)
(* the write may be lost; no other register is touched.                     *)
(***************************************************************************)
CONSTANTS
  Address, Stored, Word,
  Fits(_, _),      \* Fits(a, w): what writing w leaves in register a
  Shows(_, _, _)   \* Shows(a, file, w): reading a may return w

VARIABLES file, rd, wr
vars == <<file, rd, wr>>

Idle == [st |-> "idle"]

AskRead ==
  /\ rd = Idle
  /\ \E a \in Address : rd' = [st |-> "asked", addr |-> a]

AnswerRead ==
  /\ rd.st = "asked"
  /\ \E w \in Word : /\ wr = Idle => Shows(rd.addr, file, w)
                     /\ rd' = [st |-> "answered", word |-> w]

TakeRead ==
  /\ rd.st = "answered"
  /\ rd' = Idle

Reading == AskRead \/ AnswerRead \/ TakeRead

AskWrite ==
  /\ wr = Idle
  /\ \E a \in Address, w \in Word : wr' = [st |-> "asked", addr |-> a, word |-> w]
  /\ file' = file

Written ==
  IF wr.addr \in Stored
    THEN [file EXCEPT ![wr.addr] = Fits(wr.addr, wr.word)]
    ELSE file

Store ==
  /\ wr.st = "asked"
  /\ file' = Written
  /\ wr' = wr

AnswerWrite ==
  /\ wr.st = "asked"
  /\ file' = Written \/ (file' = file /\ rd # Idle)
  /\ wr' = [st |-> "answered"]

TakeWrite ==
  /\ wr.st = "answered"
  /\ wr' = Idle
  /\ file' = file

Writing == AskWrite \/ Store \/ AnswerWrite \/ TakeWrite

Init ==
  /\ file \in [Stored -> Word]
  /\ rd = Idle
  /\ wr = Idle

Next ==
  \/ Reading /\ UNCHANGED <<file, wr>>
  \/ Writing /\ UNCHANGED rd
  \/ Reading /\ Writing

Spec == Init /\ [][Next]_vars
=============================================================================
