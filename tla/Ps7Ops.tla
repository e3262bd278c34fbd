------------------------------- MODULE Ps7Ops -------------------------------
(***************************************************************************)
(* The operations the start-up tables of ps7_init.c are made of             *)
(* (the EMIT_ macros of ps7_init.h).  An address is a pair <<unit, field>>;  *)
(* a masked write changes the field or fields under its mask and no other,   *)
(* so it is written here as the new value of that field.  Values that no     *)
(* property tells apart are "set".                                           *)
(***************************************************************************)
EXTENDS Naturals, Sequences

Write(u, f, v)     == [op |-> "write", unit |-> u, field |-> f, value |-> v]
MaskWrite(u, f, v) == [op |-> "maskwrite", unit |-> u, field |-> f, value |-> v]
MaskPoll(u, f)     == [op |-> "maskpoll", unit |-> u, field |-> f]
MaskDelay          == [op |-> "maskdelay"]
Exit               == [op |-> "exit"]

(* The keys that open and close the system level control registers.         *)
Unlock == Write("slcr", "lock", "open")
Lock   == Write("slcr", "lock", "closed")

(* Masked writes of a list of registers of one unit. *)
Each(u, fields) == [i \in DOMAIN fields |-> MaskWrite(u, fields[i], "set")]

(* The multiplexers of MIO pins a to b, all given to peripheral x. *)
Pins(a, b, x) == [i \in 1..(b + 1 - a) |-> MaskWrite("mio", a + i - 1, x)]

(* A PLL is programmed, bypassed, reset, awaited and put to use.            *)
PllSetup(p) ==
  <<MaskWrite(p, "cfg", "set"), MaskWrite(p, "fdiv", "set"),
    MaskWrite(p, "bypass", "on"),
    MaskWrite(p, "reset", "on"), MaskWrite(p, "reset", "off"),
    MaskPoll(p, "lock"),
    MaskWrite(p, "bypass", "off")>>
=============================================================================
