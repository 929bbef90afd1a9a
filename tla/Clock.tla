------------------------------- MODULE Clock -------------------------------
(***************************************************************************)
(* The arithmetic of the clock (cmos.c): from the chip's registers to the  *)
(* numbers the rest of the kernel uses.  A time is a record of its six     *)
(* fields; the year counts from 2000.  Seconds since 1970 are a pair of    *)
(* days and seconds of the day.                                            *)
(***************************************************************************)
EXTENDS Integers, Sequences

Fields == <<"s", "m", "h", "d", "mo", "y">>

-----------------------------------------------------------------------------
\* The chip (external): the calendar it keeps, and how it shows a field.
Leap(y) == y % 4 = 0                   \* of 2000 .. 2099

MonthLength(mo, y) ==
  CASE mo = 2 -> IF Leap(y) THEN 29 ELSE 28
    [] mo \in {4, 6, 9, 11} -> 30
    [] OTHER -> 31

Times == {t \in [s : 0 .. 59, m : 0 .. 59, h : 0 .. 23,
                 d : 1 .. 31, mo : 1 .. 12, y : 0 .. 99] :
            t.d <= MonthLength(t.mo, t.y)}

NextDay(t) ==
  IF t.d < MonthLength(t.mo, t.y) THEN [t EXCEPT !.d = @ + 1]
  ELSE IF t.mo < 12 THEN [t EXCEPT !.d = 1, !.mo = @ + 1]
  ELSE [t EXCEPT !.d = 1, !.mo = 1, !.y = (@ + 1) % 100]

NextSecond(t) ==
  IF t.s < 59 THEN [t EXCEPT !.s = @ + 1]
  ELSE IF t.m < 59 THEN [t EXCEPT !.s = 0, !.m = @ + 1]
  ELSE IF t.h < 23 THEN [t EXCEPT !.s = 0, !.m = 0, !.h = @ + 1]
  ELSE NextDay([t EXCEPT !.s = 0, !.m = 0, !.h = 0])

Bcd(x)        == 16 * (x \div 10) + (x % 10)
Coded(x, bcd) == IF bcd THEN Bcd(x) ELSE x
Hour12(h)     == ((h + 11) % 12) + 1

Shown(f, t, mode) ==
  IF f = "h" /\ ~mode.h24
  THEN Coded(Hour12(t.h), mode.bcd) + IF t.h >= 12 THEN 128 ELSE 0
  ELSE Coded(t[f], mode.bcd)

-----------------------------------------------------------------------------
\* Faults: definitions of the next section as a likely mistake leaves them.
LeapDaysSoon(year) == (year - 68) \div 4
NoonIsZero(x, n)   == x
YearFrom1970(y)    == y + 30

-----------------------------------------------------------------------------
\* Bits 0-4 and the PM bit are taken from a register by remainders.
BCD2BIN(x) == 10 * (x \div 16) + (x % 16)

Noon(x, n) == IF x % n = (IF n = 32 THEN 18 ELSE 12) THEN x - (x % n) ELSE x

Hours(x, mode) ==
  LET z == IF mode.bcd THEN BCD2BIN(Noon(x, 32) % 32) ELSE Noon(x, 16)
  IN  IF mode.h24 THEN (IF mode.bcd THEN BCD2BIN(x) ELSE x)
      ELSE IF z < 128 THEN z
      ELSE IF mode.bcd THEN z + 12 ELSE (z % 16) + 12

\* rtc_read: regs has what was read of each field.
rtc_read(regs, mode) ==
  [f \in DOMAIN regs |-> IF f = "h" THEN Hours(regs[f], mode)
                         ELSE IF mode.bcd THEN BCD2BIN(regs[f]) ELSE regs[f]]

doy == <<0, 31, 59, 90, 120, 151, 181, 212, 243, 273, 304, 334>>

LeapDays(year) ==
  ((year - 69) \div 4) - ((year - 1) \div 100) + ((year + 299) \div 400)

Days(d, mo, y) ==
  d + doy[mo] - 1 + (y + 30) * 365 + LeapDays(y + 100)

to_epoch(t) == <<Days(t.d, t.mo, t.y), t.s + t.m * 60 + t.h * 3600>>

FatYear(y) == y + 20
FatTime(t) == [t EXCEPT !.y = FatYear(@), !.s = @ \div 2]

-----------------------------------------------------------------------------
\* What they should be.
DayNumber(t) ==
  10957 + 365 * t.y + ((t.y + 3) \div 4) + doy[t.mo] + t.d - 1
  + IF t.mo > 2 /\ Leap(t.y) THEN 1 ELSE 0

Second(t) == t.s + 60 * t.m + 3600 * t.h

\* Where they are not: the day behind 29 February is counted as that day
\* again, until the end of the year; in the afternoon, a clock that shows BCD
\* and twelve hours is taken for one in the morning.
Missing(t) == IF t.mo > 2 /\ Leap(t.y) THEN 1 ELSE 0

Understood(t, mode) ==
  IF mode.bcd /\ ~mode.h24 /\ t.h >= 12 THEN [t EXCEPT !.h = @ - 12] ELSE t
=============================================================================
