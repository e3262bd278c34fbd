------------------------------- MODULE Ps7Boot -------------------------------
(***************************************************************************)
(* Start-up of the processing system: ps7_init, ps7_post_config and          *)
(* ps7_debug (ps7_init.c) run the tables of the silicon version they find    *)
(* through the interpreter ps7_config, beside the hardware the tables wait   *)
(* for.                                                                     *)
(*                                                                          *)
(* A register keeps the last value written to it; one of the system level    *)
(* control registers ignores writes while they are locked.  PLLs lock, the   *)
(* DCI calibrates and the DDR controller starts some time after they may, or *)
(* never.  A boot loader or a debugger, neither under src/, makes the calls: *)
(* ps7_init again on a running system or after a failed call, too, and       *)
(* ps7_post_config after a success.                                          *)
(***************************************************************************)
EXTENDS Naturals, Sequences

CONSTANTS
  SiliconVersions,  \* what the version register may hold
  PollTime,         \* PS7_MASK_POLL_TIME (100000000)
  DelayTime,        \* timer ticks of the 1 ms delay
  MaxCalls          \* bound: calls made

ASSUME BootAssumption ==
  /\ SiliconVersions \subseteq 0..15 /\ PollTime \in Nat
  /\ DelayTime \in Nat /\ MaxCalls \in Nat

VARIABLES
  siVer,          \* what ps7GetSiliconVersion reads
  active,         \* a call is in progress
  table, pc,      \* the table being run or run last, and the operation in it
  i,              \* i: polls of the current operation; 1 while a delay runs
  ret,            \* what the last call returned
  inited,         \* the last ps7_init succeeded
  calls,          \* calls made
  regs,           \* registers written, by <<unit, field>>
  unlocked,       \* the SLCR take writes
  locked,         \* PLLs that are locked
  dciDone, ddrUp, \* DCI calibrated; DDR controller in an operating mode
  timer,          \* the global timer
  lowFor,         \* ticks of the USB PHY's reset pulse
  sinceHold       \* DDR controller registers written since it was held

cpuVars == <<active, table, pc, i, ret, inited, calls>>
regVars == <<regs, unlocked, sinceHold>>
hwVars  == <<locked, dciDone, ddrUp, timer, lowFor>>
vars == <<siVer, cpuVars, regVars, hwVars>>

V30 == INSTANCE Ps7Init30
V20 == INSTANCE Ps7Init20
V10 == INSTANCE Ps7Init10

Plls == {"armpll", "ddrpll", "iopll"}
SlcrUnits == Plls \cup {"clk", "fabric", "ddriob", "dci", "mio", "sdio", "slcr"}

Is(u, f, v) == <<u, f>> \in DOMAIN regs /\ regs[<<u, f>>] = v

(* The units that have a clock. *)
Clocked == UNION {regs[k] : k \in {k \in DOMAIN regs : k[1] = "clk"}}

-----------------------------------------------------------------------------
(* The tables of a silicon version; unknown versions take the last ones.    *)
TablesOf ==
  [v \in SiliconVersions |->
    CASE v = 0 -> [mio |-> V10!MioInitData, pll |-> V10!PllInitData,
                   clock |-> V10!ClockInitData, ddr |-> V10!DdrInitData,
                   peripherals |-> V10!PeripheralsInitData,
                   post |-> V10!PostConfig, debug |-> V10!Debug]
      [] v = 1 -> [mio |-> V20!MioInitData, pll |-> V20!PllInitData,
                   clock |-> V20!ClockInitData, ddr |-> V20!DdrInitData,
                   peripherals |-> V20!PeripheralsInitData,
                   post |-> V20!PostConfig, debug |-> V20!Debug]
      [] OTHER -> [mio |-> V30!MioInitData, pll |-> V30!PllInitData,
                   clock |-> V30!ClockInitData, ddr |-> V30!DdrInitData,
                   peripherals |-> V30!PeripheralsInitData,
                   post |-> V30!PostConfig, debug |-> V30!Debug]]

Op == TablesOf[siVer][table][pc]

(* ps7_init runs five tables in this order; the other calls run one.        *)
NextTable ==
  [mio |-> "pll", pll |-> "clock", clock |-> "ddr", ddr |-> "peripherals",
   peripherals |-> "none", post |-> "none", debug |-> "none"]

Return(r) ==
  /\ active' = FALSE /\ ret' = r /\ UNCHANGED <<table, pc>>
  /\ inited' = IF table \in {"post", "debug"} THEN inited ELSE r = "success"

Advance == pc' = pc + 1 /\ i' = 0

Running(opcode) ==
  /\ active /\ Op.op = opcode
  /\ UNCHANGED <<siVer, calls>>

(* OPCODE_EXIT: on to the next table, or back to the caller.                *)
ExitOp ==
  /\ Running("exit") /\ i' = 0
  /\ IF NextTable[table] = "none" THEN Return("success")
     ELSE /\ table' = NextTable[table] /\ pc' = 1
          /\ UNCHANGED <<active, ret, inited>>
  /\ UNCHANGED <<regVars, hwVars>>

(* What a write does to the hardware it reaches. *)
Reset(u) == Op.unit = u /\ Op.field = "reset"
DdrReset == Op.unit = "ddrc" /\ Op.field = 0
HardwareTakes ==
  /\ locked' = locked \ {p \in Plls : Reset(p)}
  /\ dciDone' = (dciDone /\ ~Reset("dci"))
  /\ ddrUp' = (ddrUp /\ ~(DdrReset /\ Op.value = "held"))
  /\ lowFor' = IF Op.unit = "gpio" /\ Op.value = "low" THEN 0 ELSE lowFor
  /\ sinceHold' = IF Op.unit # "ddrc" THEN sinceHold
                  ELSE IF DdrReset THEN IF Op.value = "held" THEN {} ELSE sinceHold
                  ELSE sinceHold \cup {Op.field}

LockKey == Op.unit = "slcr" /\ Op.field = "lock"

(* A register takes a write. *)
Put(o) ==
  LET r == <<o.unit, o.field>>
  IN regs' = [k \in DOMAIN regs \cup {r} |-> IF k = r THEN o.value ELSE regs[k]]

Store ==
  IF LockKey
    THEN unlocked' = (Op.value = "open")
         /\ UNCHANGED <<regs, sinceHold, locked, dciDone, ddrUp, lowFor>>
  ELSE IF Op.unit \in SlcrUnits => unlocked
    THEN \E o \in {Op} : Put(o)
         /\ UNCHANGED unlocked /\ HardwareTakes
  ELSE UNCHANGED <<regVars, locked, dciDone, ddrUp, lowFor>>

(* OPCODE_WRITE and OPCODE_MASKWRITE. *)
WriteOp ==
  /\ Running("write") \/ Running("maskwrite")
  /\ Store /\ Advance
  /\ UNCHANGED <<active, table, ret, inited, timer>>

(* What a poll reads. *)
Answer ==
  CASE Op.unit \in Plls  -> Op.unit \in locked
    [] Op.unit = "dci"   -> dciDone
    [] Op.unit = "ddrc"  -> ddrUp

\* Mutant: a poll that gave up counts as answered.
TimedOut_Ignored ==
  /\ i = PollTime /\ Advance
  /\ UNCHANGED <<active, table, ret, inited>>

TimedOut ==
  /\ i = PollTime /\ i' = 0
  /\ Return("timeout")

PollAgain ==
  /\ i < PollTime /\ i' = i + 1
  /\ UNCHANGED <<active, table, pc, ret, inited>>

(* OPCODE_MASKPOLL: one turn of its loop. *)
PollOp ==
  /\ Running("maskpoll")
  /\ IF Answer THEN Advance /\ UNCHANGED <<active, table, ret, inited>>
     ELSE PollAgain \/ TimedOut
  /\ UNCHANGED <<regVars, hwVars>>

\* Mutants: the timer is not started; the timer is not set back.
StartTimer_Stopped == timer' = [on |-> FALSE, count |-> 0]
StartTimer_NoReset == timer' = [timer EXCEPT !.on = TRUE]

(* perf_reset_and_start_timer *)
StartTimer == timer' = [on |-> TRUE, count |-> 0]

(* OPCODE_MASKDELAY: the timer is started, then read until it is late       *)
(* enough.                                                                  *)
DelayOp ==
  /\ Running("maskdelay")
  /\ \/ /\ i = 0 /\ StartTimer
        /\ i' = 1 /\ UNCHANGED pc
     \/ /\ i = 1 /\ timer.count >= DelayTime
        /\ Advance /\ UNCHANGED timer
  /\ UNCHANGED <<active, table, ret, inited, regVars, locked, dciDone, ddrUp, lowFor>>

Cpu == ExitOp \/ WriteOp \/ PollOp \/ DelayOp

(* The callers. *)
Call(first) ==
  /\ ~active /\ calls < MaxCalls
  /\ active' = TRUE /\ table' = first /\ pc' = 1 /\ i' = 0
  /\ ret' = "none" /\ calls' = calls + 1
  /\ inited' = (inited /\ first # "mio")
  /\ UNCHANGED <<siVer, regVars, hwVars>>

Ps7Init == Call("mio")
Ps7PostConfig == inited /\ Call("post")
Ps7Debug == Call("debug")

-----------------------------------------------------------------------------
(* The hardware the tables wait for. *)
PllLocks ==
  /\ \E p \in Plls \ locked : Is(p, "reset", "off") /\ locked' = locked \cup {p}
  /\ UNCHANGED <<siVer, cpuVars, regVars, dciDone, ddrUp, timer, lowFor>>

DciFinishes ==
  /\ ~dciDone /\ Is("dci", "enable", "on") /\ "dci" \in Clocked
  /\ dciDone' = TRUE
  /\ UNCHANGED <<siVer, cpuVars, regVars, locked, ddrUp, timer, lowFor>>

DdrStarts ==
  /\ ~ddrUp /\ Is("ddrc", 0, "released")
  /\ ddrUp' = TRUE
  /\ UNCHANGED <<siVer, cpuVars, regVars, locked, dciDone, timer, lowFor>>

(* The count stops mattering at DelayTime. *)
Tick ==
  /\ timer.on /\ timer.count < DelayTime
  /\ timer' = [timer EXCEPT !.count = @ + 1]
  /\ lowFor' = IF Is("gpio", "pin51", "low") /\ lowFor < DelayTime
               THEN lowFor + 1 ELSE lowFor
  /\ UNCHANGED <<siVer, cpuVars, regVars, locked, dciDone, ddrUp>>

Init ==
  /\ siVer \in SiliconVersions
  /\ active = FALSE /\ table = "none" /\ pc = 1 /\ i = 0
  /\ ret = "none" /\ inited = FALSE /\ calls = 0
  /\ regs = << >> /\ unlocked \in BOOLEAN /\ sinceHold = {}
  /\ locked \in {{}, Plls} /\ dciDone = FALSE /\ ddrUp = FALSE
  /\ timer = [on |-> FALSE, count |-> 0] /\ lowFor = 0

Next ==
  \/ Cpu
  \/ Ps7Init \/ Ps7PostConfig \/ Ps7Debug
  \/ PllLocks \/ DciFinishes \/ DdrStarts \/ Tick

(* The processor runs and its timer counts; PLLs, DCI and DDR may never     *)
(* answer.                                                                  *)
Spec == Init /\ [][Next]_vars
FairSpec == Spec /\ WF_vars(Cpu) /\ WF_vars(Tick)

-----------------------------------------------------------------------------
TypeOK ==
  /\ siVer \in SiliconVersions /\ active \in BOOLEAN /\ inited \in BOOLEAN
  /\ table \in DOMAIN NextTable \cup {"none"}
  /\ active => pc \in DOMAIN TablesOf[siVer][table]
  /\ i \in 0..PollTime \cup {1} /\ calls \in 0..MaxCalls
  /\ ret \in {"none", "success", "timeout"}
  /\ unlocked \in BOOLEAN /\ locked \subseteq Plls
  /\ dciDone \in BOOLEAN /\ ddrUp \in BOOLEAN
  /\ timer \in [on: BOOLEAN, count: 0..DelayTime] /\ lowFor \in 0..DelayTime

(* A PLL that the tables have put to use is locked, also when ps7_init runs *)
(* again on a running system or after a poll that gave up (ps7_init.c,      *)
(* ASSERT RESET to REMOVE PLL BY PASS).                                     *)
PllUsedLocked ==
  \A p \in Plls : Is(p, "bypass", "off") => p \in locked

(* The registers of the four byte lanes of the DDR PHY. *)
LaneRegisters ==
  {base + 4 * lane : base \in {\h118, \h12C, \h140, \h154, \h168, \h17C}, lane \in 0..3}

DdrReleases == ~Is("ddrc", 0, "released") /\ Is("ddrc", 0, "released")'

(* The DDR controller leaves reset only when its clock is running from a    *)
(* locked PLL, the pads are calibrated and every byte lane has been set up  *)
(* since it was put into reset: work of four tables (UNLOCK DDR).           *)
DdrReleasedReady ==
  [][DdrReleases =>
       /\ dciDone /\ LaneRegisters \subseteq sinceHold
       /\ "ddr" \in Clocked /\ "ddrpll" \in locked /\ Is("ddrpll", "bypass", "off")]_vars

(* PCW_MIO_TREE_PERIPHERALS of the block design (qpixlar_bd.bd). *)
BoardPin ==
  [n \in 0..53 |->
    CASE n \in 1..6 \cup {8} -> "qspi"  [] n \in {0, 7, 9, 50, 51} -> "gpio"
      [] n \in 10..11 -> "uart0"        [] n \in 12..13 -> "i2c1"
      [] n \in 14..15 -> "can0"         [] n \in 16..27 \cup {52, 53} -> "enet0"
      [] n \in 28..39 -> "usb0"         [] n \in 40..47 -> "sd0"
      [] n \in 48..49 -> "uart1"]

UsbPhyReset ==
  /\ Is("gpio", "pin51", "high") /\ Is("gpio", "output", "pin51")
  /\ lowFor = DelayTime

(* When ps7_init returns success, on every silicon version: the PLLs and    *)
(* the DDR run, every pin has the function the block design gives it and    *)
(* its peripheral a clock, the USB PHY has had its full reset pulse, and    *)
(* the SLCR are locked again (ps7_init.c, ps7_init).                        *)
ReadyOnSuccess ==
  ~active /\ inited =>
    /\ \A p \in Plls : Is(p, "bypass", "off")
    /\ ddrUp /\ ~unlocked /\ UsbPhyReset
    /\ \A n \in 0..53 : Is("mio", n, BoardPin[n]) /\ BoardPin[n] \in Clocked

(* A call that gave up waiting for a PLL leaves the SLCR open to writes;    *)
(* every other call leaves them closed (LOCK IT BACK).                      *)
SlcrLeftOpen ==
  ~active /\ calls > 0 /\ table # "debug" => (unlocked <=> ret = "timeout" /\ table = "pll")

(* Every call returns, whether the hardware answers or not: polls give up   *)
(* and the delay's timer runs (ps7_init.c, ps7_config).                     *)
CallReturns == active ~> ~active
=============================================================================
