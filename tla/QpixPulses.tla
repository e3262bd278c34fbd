----------------------------- MODULE QpixPulses -----------------------------
(***************************************************************************)
(* The pulse sequencers of qpix_reg_rtl (src/hdl/qpix_reg_rtl.v, 704-893):  *)
(* while software holds a control bit of register 0, a counter runs on the  *)
(* 50 MHz clock and its value switches the reset, trigger, calibration and  *)
(* sample-window lines of the two QPIX chips.                               *)
(*                                                                          *)
(*   "cal"  calibrate: reset and calibration line together, reset longer    *)
(*   "trig" reset, then trigger                                             *)
(*   "arb"  reset, trigger inside it (arbitrary function generator)         *)
(*   "win"  reset, then trigger, then a sample window                       *)
(*   "ext1", "ext2"  a plain reset pulse of chip 1, chip 2                  *)
(*                                                                          *)
(* Counters are W bits wide (32 in the source), the window's 64-bit one is  *)
(* never seen to wrap.                                                      *)
(***************************************************************************)
EXTENDS Naturals, FiniteSets

CONSTANTS
  W,              \* counter width
  ArbHold,        \* 500: extra reset of the "arb" sequence
  Bits,           \* the sequences software uses
  Widths, Gaps, Waits, WindowWidths,  \* settings software writes
  MaxHold,        \* bound: cycles a bit is held, and counted by the history
  Together        \* bound: sequences running at once

Sequences == {"cal", "trig", "arb", "win", "ext1", "ext2"}
Ext == {"ext1", "ext2"}
Triggering == {"trig", "arb", "win"}

ASSUME WAssumption == {W, ArbHold, MaxHold, Together} \subseteq Nat
ASSUME BitsAssumption == Bits \subseteq Sequences
ASSUME CounterAssumption == 2^W \in Nat \ {0}
ASSUME SettingsAssumption ==
  UNION {Widths, Gaps, Waits, WindowWidths} \subseteq Nat

(* No bit is held until its counter wraps: a premise of most of what follows. *)
NoWrap == MaxHold < 2^W

VARIABLES
  bits,                  \* the control bits that are set
  resetWidth, calGap, windowWait, windowWidth,   \* registers 7, 8, 9
  cnt,                   \* counter50M, counter50M_2 .. counter50M_6
  rst, trig,             \* reset and trigger lines, by sequence
  calControl, window,    \* calibrate_cal_control, sample_window_valid
  opened, high,          \* history: window cycles of this hold, length of a reset pulse so far
  seen,                  \* history: the control bits at the last edge
  retuned, cut           \* history: settings rewritten while a sequence runs, a
                         \* reset pulse's bit cleared before the pulse is over

settings == <<resetWidth, calGap, windowWait, windowWidth>>
pulseVars == <<bits, settings, cnt, rst, trig, calControl, window, opened, high, seen,
          retuned, cut>>

-----------------------------------------------------------------------------
\* Mutant: one cycle too short.
ResetEnd_Early(f) == CASE f = "cal" -> resetWidth + calGap
                       [] f = "arb" -> resetWidth + ArbHold
                       [] OTHER -> resetWidth - 1

(* The count at which a sequence lets go of the reset line. *)
ResetEnd(f) == CASE f = "cal" -> resetWidth + calGap
                 [] f = "arb" -> resetWidth + ArbHold
                 [] OTHER -> resetWidth

Start(f) == f \in bits /\ cnt[f] = 0

\* Mutant: every pulse ends with its control bit.
ResetLines_WithBit ==
  rst' = [f \in Sequences |->
            f \in bits /\ cnt[f] < ResetEnd(f) /\ (Start(f) \/ rst[f])]

(* The reset lines.  Only the plain pulses outlive their control bit. *)
ResetLines ==
  rst' = [f \in Sequences |->
            /\ f \in bits \/ f \in Ext
            /\ cnt[f] < ResetEnd(f)
            /\ Start(f) \/ rst[f]]

TriggerStart == resetWidth

Triggers ==
  trig' = [f \in Triggering |->
             /\ f \in bits
             /\ cnt[f] >= TriggerStart \/ (trig[f] /\ ~(f = "win" /\ Start(f)))]

Calibration ==
  calControl' = /\ "cal" \in bits
                /\ cnt["cal"] < resetWidth
                /\ Start("cal") \/ calControl

WindowStart_NoReset == windowWait   \* Mutant: the reset is not waited for.
WindowStart == resetWidth + windowWait

WindowEnd == WindowStart + windowWidth

Window ==
  window' = /\ "win" \in bits
            /\ cnt["win"] < WindowEnd
            /\ cnt["win"] >= WindowStart \/ (window /\ ~Start("win"))

\* Mutant: counters one bit short.
Advance_Narrow(f) == IF f = "win" THEN cnt[f] + 1 ELSE (cnt[f] + 1) % 2^(W - 1)

Advance(f) == IF f = "win" THEN cnt[f] + 1 ELSE (cnt[f] + 1) % 2^W

Counters ==
  cnt' = [f \in Sequences |-> IF f \in bits THEN Advance(f) ELSE 0]

History ==
  /\ opened' = IF "win" \notin bits THEN 0
               ELSE opened + (IF window' THEN 1 ELSE 0)
  /\ high' = [f \in Ext |-> IF ~rst'[f] THEN IF f \in bits THEN high[f] ELSE 0
                            ELSE IF ~rst[f] THEN 1
                            ELSE IF high[f] < MaxHold THEN high[f] + 1
                            ELSE high[f]]
  /\ seen' = bits

(* One edge of the 50 MHz clock.  The guard is the bound MaxHold. *)
Tick ==
  /\ \A f \in Sequences : cnt[f] < MaxHold
  /\ ResetLines /\ Triggers /\ Calibration /\ Window /\ Counters /\ History
  /\ UNCHANGED <<bits, settings, retuned, cut>>

(* Pins shared by the sequences. *)
RstExt1 == \E f \in Sequences \ {"ext2"} : rst[f]
RstExt2 == \E f \in Sequences \ {"ext1"} : rst[f]
Trigger == \E f \in Triggering : trig[f]

lines == <<cnt, rst, trig, calControl, window, opened, high, seen>>

Running == bits \cup {f \in Sequences : cnt[f] > 0}

(* Software sets or clears a control bit. *)
SetBit(f) ==
  /\ f \notin bits
  /\ Cardinality(Running \cup {f}) <= Together
  /\ bits' = bits \cup {f}
  /\ UNCHANGED <<settings, lines, retuned, cut>>

ClearBit(f) ==
  /\ f \in bits
  /\ bits' = bits \ {f}
  /\ cut' = (cut \/ (f \in Ext /\ cnt[f] <= resetWidth))
  /\ UNCHANGED <<settings, lines, retuned>>

Register8 == resetWidth' \in Widths /\ calGap' \in Gaps

(* Software writes registers 7, 8 and 9. *)
Settings ==
  /\ Register8
  /\ windowWait' \in Waits /\ windowWidth' \in WindowWidths
  /\ retuned' = (retuned \/ Running # {})
  /\ UNCHANGED <<bits, lines, cut>>

PulseInit ==
  /\ bits = {}
  /\ resetWidth \in Widths /\ calGap \in Gaps
  /\ windowWait \in Waits /\ windowWidth \in WindowWidths
  /\ cnt = [f \in Sequences |-> 0]
  /\ rst = [f \in Sequences |-> FALSE]
  /\ trig = [f \in Triggering |-> FALSE]
  /\ calControl = FALSE /\ window = FALSE
  /\ opened = 0 /\ high = [f \in Ext |-> 0] /\ seen = {}
  /\ retuned = FALSE /\ cut = FALSE

PulseNext == Tick \/ Settings \/ \E f \in Bits : SetBit(f) \/ ClearBit(f)
PulseSpec == PulseInit /\ [][PulseNext]_pulseVars

-----------------------------------------------------------------------------
PulseTypeOK ==
  /\ bits \subseteq Sequences
  /\ resetWidth \in Widths /\ calGap \in Gaps
  /\ windowWait \in Waits /\ windowWidth \in WindowWidths
  /\ cnt \in [Sequences -> Nat]
  /\ rst \in [Sequences -> BOOLEAN]
  /\ trig \in [Triggering -> BOOLEAN]
  /\ calControl \in BOOLEAN /\ window \in BOOLEAN
  /\ opened \in Nat /\ high \in [Ext -> Nat] /\ seen \subseteq Sequences
  /\ retuned \in BOOLEAN /\ cut \in BOOLEAN

(* Samples are taken only after the chips are out of their window reset and *)
(* the trigger is up; the calibration line is never up without the reset    *)
(* around it; and in the two sequences that promise so reset comes first    *)
(* and trigger second, never together: however settings are rewritten and   *)
(* bits cleared meanwhile, as long as no bit is held for 2^32 cycles        *)
(* (qpix_reg_rtl.v:710-806).                                                *)
PulseOrder ==
  /\ window => trig["win"] /\ ~rst["win"]
  /\ calControl => rst["cal"]
  /\ \A f \in {"trig", "win"} : ~(rst[f] /\ trig[f])

(* With settings left alone, a hold of window_trig opens one window of      *)
(* window_width cycles, never more and all of them if held long enough, and *)
(* a reset pulse whose bit is held through it is resetWidth cycles long, no *)
(* more and no less, and then over (qpix_reg_rtl.v:793-796, 811-834).       *)
ProgrammedLengths ==
  ~retuned =>
    /\ opened <= windowWidth
    /\ cnt["win"] >= WindowStart + windowWidth => opened = windowWidth
    /\ ~cut =>
         \A f \in Ext :
           /\ high[f] <= resetWidth
           /\ cnt[f] >= resetWidth => high[f] = resetWidth
           /\ cnt[f] > resetWidth => ~rst[f]

(* A reset pulse is never too short for the chip: it ends only after the    *)
(* width programmed by then, also when its control bit is cleared before it *)
(* is over (the line then stays up until the bit has been set again) and    *)
(* when the width is rewritten under it (qpix_reg_rtl.v:811-834).           *)
NoShortPulse ==
  [][\A f \in Ext : rst[f] /\ ~rst'[f] => high[f] >= resetWidth]_pulseVars

(* "rising edge at start of reg bit transition" (qpix_reg_rtl.v:712): a     *)
(* sequence's reset rises only at the first edge that sees its control bit  *)
(* set.  It needs the bit to be let go before the counter wraps.            *)
RisesAtTransition ==
  [][\A f \in {"cal", "trig", "win"} : rst'[f] /\ ~rst[f] => f \notin seen]_pulseVars
=============================================================================
