-------------------------- MODULE InterruptsProofs --------------------------
(***************************************************************************)
(* For every time the machine starts at and any number of seconds and      *)
(* interrupts: who is interrupted, what is in service, and that epoch is   *)
(* right.  The invariant says of each call what it has read so far.  First *)
(* what the clock's conversions return for every time of the century.      *)
(***************************************************************************)
EXTENDS Interrupts, SequenceTheorems, TLAPS

\* What six registers can be read as: a time, or a date the calendar has not,
\* such as a 31 February, from a reading a second interrupts.
Clocks == [s : 0 .. 59, m : 0 .. 59, h : 0 .. 23,
           d : 1 .. 31, mo : 1 .. 12, y : 0 .. 99]

LEMMA InCalendar ==
  ASSUME NEW t
  PROVE  t \in Times <=> t \in Clocks /\ t.d <= MonthLength(t.mo, t.y)
BY DEF Times, Clocks

\* The fields are numbers in their ranges.
LEMMA TimeFields ==
  ASSUME NEW t \in Clocks
  PROVE  /\ t \in [s : 0 .. 59, m : 0 .. 59, h : 0 .. 23,
                   d : 1 .. 31, mo : 1 .. 12, y : 0 .. 99]
         /\ t.s \in 0 .. 59 /\ t.m \in 0 .. 59 /\ t.h \in 0 .. 23
         /\ t.d \in 1 .. 31 /\ t.mo \in 1 .. 12 /\ t.y \in 0 .. 99
         /\ MonthLength(t.mo, t.y) \in Nat
<1>1. \A mo \in 1 .. 12, y \in 0 .. 99 : MonthLength(mo, y) \in Nat
  BY DEF MonthLength
<1> QED BY <1>1 DEF Clocks

\* Two digits in a byte and back (cmos.c:9).
LEMMA BcdThereAndBack ==
  ASSUME NEW x \in 0 .. 99
  PROVE  Bcd(x) \in 0 .. 153 /\ BCD2BIN(Bcd(x)) = x
<1>1. x \div 10 \in 0 .. 9 /\ x % 10 \in 0 .. 9
      /\ x = 10 * (x \div 10) + (x % 10)
  OBVIOUS
<1>2. \A q, r \in 0 .. 9 : /\ (16 * q + r) \div 16 = q
                           /\ (16 * q + r) % 16 = r
  OBVIOUS
<1> QED BY <1>1, <1>2 DEF Bcd, BCD2BIN

\* The days of the leap years (cmos.c:19-20).
LEMMA LeapDaysCounted ==
  ASSUME NEW y \in 0 .. 99
  PROVE  LeapDays(y + 100) = ((y + 3) \div 4) + 7
<1>1. ((y + 100) - 69) \div 4 = ((y + 3) \div 4) + 7
  OBVIOUS
<1>2. ((y + 100) - 1) \div 100 = ((y + 100) + 299) \div 400
  OBVIOUS
<1> QED BY <1>1, <1>2 DEF LeapDays

-----------------------------------------------------------------------------
Modes == [bcd : BOOLEAN, h24 : BOOLEAN]

\* What the registers show at a time (a reading that nothing delays).
Registers(t, md) == [f \in {Fields[k] : k \in 1 .. 6} |-> Shown(f, t, md)]

\* A field but the hour is understood as it is shown, whatever the mode.
LEMMA FieldUnderstood ==
  ASSUME NEW x \in 0 .. 99, NEW bcd \in BOOLEAN
  PROVE  /\ Coded(x, bcd) \in 0 .. 153
         /\ (IF bcd THEN BCD2BIN(Coded(x, bcd)) ELSE Coded(x, bcd)) = x
BY BcdThereAndBack DEF Coded

\* The hour is, but for the afternoon of a clock that shows BCD and twelve
\* hours (cmos.c:40-49).
LEMMA HourUnderstood ==
  ASSUME NEW t \in Clocks, NEW md \in Modes
  PROVE  /\ Shown("h", t, md) \in 0 .. 255
         /\ Hours(Shown("h", t, md), md) = Understood(t, md).h
<1> DEFINE h == t.h
<1>1. t \in [s : 0 .. 59, m : 0 .. 59, h : 0 .. 23,
             d : 1 .. 31, mo : 1 .. 12, y : 0 .. 99] /\ h \in 0 .. 23
  BY TimeFields
<1>2. Understood(t, md).h =
        IF md.bcd /\ ~md.h24 /\ h >= 12 THEN h - 12 ELSE h
  BY <1>1 DEF Understood
<1>3. CASE md.h24
  BY <1>1, <1>2, <1>3, FieldUnderstood DEF Shown, Hours, Modes
<1>4. CASE ~md.h24 /\ ~md.bcd
  <2>1. Shown("h", t, md) = Hour12(h) + IF h >= 12 THEN 128 ELSE 0
    BY <1>4 DEF Shown, Coded
  <2>2. CASE h < 12
    BY <1>1, <1>2, <1>4, <2>1, <2>2 DEF Hour12, Hours, Noon
  <2>3. CASE h >= 12
    BY <1>1, <1>2, <1>4, <2>1, <2>3 DEF Hour12, Hours, Noon
  <2> QED BY <1>1, <2>2, <2>3
<1>5. CASE ~md.h24 /\ md.bcd
  <2>1. Shown("h", t, md) = Bcd(Hour12(h)) + IF h >= 12 THEN 128 ELSE 0
    BY <1>5 DEF Shown, Coded
  <2>2. CASE h < 12
    BY <1>1, <1>2, <1>5, <2>1, <2>2 DEF Bcd, BCD2BIN, Hour12, Hours, Noon
  <2>3. CASE h >= 12
    BY <1>1, <1>2, <1>5, <2>1, <2>3 DEF Bcd, BCD2BIN, Hour12, Hours, Noon
  <2> QED BY <1>1, <2>2, <2>3
<1> QED BY <1>3, <1>4, <1>5 DEF Modes

\* The day is counted right but behind a 29 February (cmos.c:15-20).
LEMMA DaysCounted ==
  ASSUME NEW t \in Clocks
  PROVE  Days(t.d, t.mo, t.y) = DayNumber(t) - Missing(t)
<1> DEFINE q == (t.y + 3) \div 4
           k == doy[t.mo]
           x == Missing(t)
           d == t.d
           y == t.y
<1>1. t.d \in 1 .. 31 /\ t.mo \in 1 .. 12 /\ t.y \in 0 .. 99
  BY TimeFields
<1>2. d \in Int /\ y \in Int /\ q \in Int /\ k \in Int /\ x \in Int
  BY <1>1 DEF doy, Missing
<1>3. DayNumber(t) = 10957 + 365 * y + q + k + d - 1 + x
  BY DEF DayNumber, Missing
<1>4. Days(t.d, t.mo, t.y) = d + k - 1 + (y + 30) * 365 + (q + 7)
  BY <1>1, LeapDaysCounted DEF Days
<1>5. d + k - 1 + (y + 30) * 365 + (q + 7)
        = (10957 + 365 * y + q + k + d - 1 + x) - x
  <2> HIDE DEF q, k, x, d, y
  <2> QED BY <1>2
<1> QED BY <1>3, <1>4, <1>5


-----------------------------------------------------------------------------
\* Whatever six registers show, in every mode, is converted to that date and
\* time, but for the day behind a 29 February and the afternoon of a clock that
\* shows BCD and twelve hours (cmos.c:13-56).
THEOREM ReadingConverted ==
  ASSUME NEW t \in Clocks, NEW md \in Modes
  PROVE  /\ to_epoch(rtc_read(Registers(t, md), md))
              = <<DayNumber(t) - Missing(t), Second(Understood(t, md))>>
         /\ rtc_read(Registers(t, md), md).mo = t.mo
         /\ rtc_read(Registers(t, md), md).y = t.y
<1> DEFINE r == rtc_read(Registers(t, md), md)
           u == Understood(t, md)
<1>1. {Fields[k] : k \in 1 .. 6} = {"s", "m", "h", "d", "mo", "y"}
  BY DEF Fields
<1>2. t.s \in 0 .. 99 /\ t.m \in 0 .. 99 /\ t.d \in 0 .. 99
      /\ t.mo \in 0 .. 99 /\ t.y \in 0 .. 99
  BY TimeFields
<1>3. /\ Registers(t, md) = [f \in {"s", "m", "h", "d", "mo", "y"} |->
                                Shown(f, t, md)]
  BY <1>1 DEF Registers
<1>4. r = [f \in {"s", "m", "h", "d", "mo", "y"} |->
             IF f = "h" THEN Hours(Shown(f, t, md), md)
             ELSE IF md.bcd THEN BCD2BIN(Shown(f, t, md))
             ELSE Shown(f, t, md)]
  BY <1>3 DEF rtc_read
<1>5. /\ Shown("s", t, md) = Coded(t.s, md.bcd)
      /\ Shown("m", t, md) = Coded(t.m, md.bcd)
      /\ Shown("d", t, md) = Coded(t.d, md.bcd)
      /\ Shown("mo", t, md) = Coded(t.mo, md.bcd)
      /\ Shown("y", t, md) = Coded(t.y, md.bcd)
  BY DEF Shown
<1>6. md.bcd \in BOOLEAN
  BY DEF Modes
<1>7. r.s = t.s /\ r.m = t.m /\ r.d = t.d /\ r.mo = t.mo /\ r.y = t.y
  BY <1>2, <1>4, <1>5, <1>6, FieldUnderstood
<1>8. r.h = u.h
  BY <1>4, HourUnderstood
<1>9. u.s = t.s /\ u.m = t.m
  BY TimeFields DEF Understood
<1> HIDE DEF r, u
<1>10. /\ Days(r.d, r.mo, r.y) = DayNumber(t) - Missing(t)
       /\ r.s + r.m * 60 + r.h * 3600 = Second(u)
  <2>1. u.h \in Int
    BY TimeFields DEF u, Understood
  <2> QED BY <1>2, <1>7, <1>8, <1>9, <2>1, DaysCounted DEF Second
<1> QED BY <1>7, <1>10 DEF to_epoch, r, u

\* From one second to the next, the number of the day is that of the next day
\* or the same, but when the century ends: what EpochRight compares epoch with
\* is the count of days the calendar gives.
THEOREM DaysFollow ==
  ASSUME NEW t \in Times,
         ~(t.d = 31 /\ t.mo = 12 /\ t.y = 99)
  PROVE  DayNumber(NextDay(t)) = DayNumber(t) + 1
<1>1. /\ t \in [s : 0 .. 59, m : 0 .. 59, h : 0 .. 23,
                d : 1 .. 31, mo : 1 .. 12, y : 0 .. 99]
      /\ t.d \in 1 .. 31 /\ t.mo \in 1 .. 12 /\ t.y \in 0 .. 99
      /\ t.d <= MonthLength(t.mo, t.y) /\ MonthLength(t.mo, t.y) \in Nat
  BY TimeFields, InCalendar
<1>2. CASE t.d < MonthLength(t.mo, t.y)
  <2>1. /\ NextDay(t).d = t.d + 1 /\ NextDay(t).mo = t.mo
        /\ NextDay(t).y = t.y
    BY <1>1, <1>2 DEF NextDay
  <2>2. doy[t.mo] \in Int /\ (t.y + 3) \div 4 \in Int
    BY <1>1 DEF doy
  <2> QED BY <1>1, <2>1, <2>2 DEF DayNumber
<1>3. CASE t.d >= MonthLength(t.mo, t.y) /\ t.mo < 12
  <2>1. /\ NextDay(t).d = 1 /\ NextDay(t).mo = t.mo + 1
        /\ NextDay(t).y = t.y
    BY <1>1, <1>3 DEF NextDay
  <2>2. t.d = MonthLength(t.mo, t.y)
    BY <1>1, <1>3 DEF MonthLength
  <2>3. (t.mo = 2 => t.d = IF Leap(t.y) THEN 29 ELSE 28)
        /\ (t.mo \in {4, 6, 9, 11} => t.d = 30)
        /\ (t.mo \in {1, 3, 5, 7, 8, 10} => t.d = 31)
    BY <1>1, <2>2 DEF MonthLength
  <2> QED BY <1>1, <1>3, <2>1, <2>3 DEF DayNumber, doy
<1>4. CASE t.d >= MonthLength(t.mo, t.y) /\ t.mo = 12
  <2>1. t.d = 31 /\ t.y < 99
    BY <1>1, <1>4 DEF MonthLength
  <2>2. /\ NextDay(t).d = 1 /\ NextDay(t).mo = 1
        /\ NextDay(t).y = t.y + 1
    BY <1>1, <1>4, <2>1 DEF NextDay
  <2> QED BY <1>1, <1>4, <2>1, <2>2 DEF DayNumber, Leap, doy
<1> QED BY <1>1, <1>2, <1>3, <1>4 DEF MonthLength

-----------------------------------------------------------------------------
Regs    == UNION {[S -> 0 .. 255] : S \in SUBSET Field}
Moments == Times \X Nat
Calls   == [irq : Irqs, pc : Steps, flags : {TRUE}, regs : Regs,
            at : {<<>>} \cup Moments, torn : BOOLEAN, alone : BOOLEAN]

TypeInv ==
  /\ time \in Times /\ mode \in Modes /\ ticks \in 0 .. MaxTicks
  /\ century \in 0 .. ticks
  /\ flag \in BOOLEAN /\ others \in 0 .. MaxOthers /\ waiting \in 0 .. others
  /\ irr \subseteq Irqs /\ enabled \in BOOLEAN /\ raced \in BOOLEAN
  /\ stack \in Seq(Calls)

\* A call that has been at get_cmos, and one that has not: only the first is
\* interrupted, only the second can be in service.
Beyond(c) == c.irq = Rtc /\ c.pc \notin {"stub", "run"}

Nested ==
  /\ \A k \in 1 .. Len(stack) :
       /\ stack[k].irq # Rtc => stack[k].pc \in {"stub", "run"}
       /\ k < Len(stack) => Beyond(stack[k])
  /\ enabled => stack = <<>> \/ Beyond(stack[Len(stack)])

InService ==
  isr = IF stack # <<>> /\ stack[Len(stack)].pc = "stub"
        THEN Bits(stack[Len(stack)].irq) ELSE {}

\* The keyboard's line is up while it has a byte: requested, or being served.
ByteWaits ==
  /\ Kbd \in irr => waiting > 0
  /\ stack # <<>> /\ stack[Len(stack)].irq = Kbd => waiting > 0 /\ Kbd \notin irr

\* What a call has read when it is at a step.
SeenAt == [stub |-> {}, run |-> {}, s |-> {}, m |-> {"s"}, h |-> {"s", "m"},
           d |-> {"s", "m", "h"}, mo |-> {"s", "m", "h", "d"},
           y |-> {"s", "m", "h", "d", "mo"}, epoch |-> Field, fattime |-> Field]

ReadSoFar(c, now) ==
  c.pc # "iret" =>
    /\ DOMAIN c.regs = SeenAt[c.pc]
    /\ c.pc \in {"stub", "run", "s"} => c.regs = <<>>
    /\ c.pc \in {"m", "h", "d", "mo", "y", "epoch", "fattime"} =>
         /\ c.at \in Moments
         /\ ~c.torn => \A f \in DOMAIN c.regs :
                          c.regs[f] = Shown(f, c.at[1], mode)
    /\ c.pc \in {"m", "h", "d", "mo", "y"} /\ ~c.torn => c.at[1] = now

Read == \A k \in 1 .. Len(stack) : ReadSoFar(stack[k], time)

IInv == TypeInv /\ Nested /\ InService /\ ByteWaits /\ Read /\ EpochRight

-----------------------------------------------------------------------------
LEMMA Names ==
  /\ Field = {"s", "m", "h", "d", "mo", "y"}
  /\ Steps = {"stub", "run", "epoch", "fattime", "iret",
              "s", "m", "h", "d", "mo", "y"}
  /\ Irqs = {0, 1, 8} /\ Rtc = 8 /\ Kbd = 1 /\ Timer = 0 /\ Slave = 2
<1>1. Len(Fields) = 6
  BY DEF Fields
<1>2. Field = {"s", "m", "h", "d", "mo", "y"}
  BY <1>1 DEF Field, Fields
<1> QED BY <1>2 DEF Steps, Irqs, Rtc, Kbd, Timer, Slave

\* The chip's next second is a time of the calendar.
LEMMA SecondsInCalendar ==
  ASSUME NEW t \in Times
  PROVE  NextSecond(t) \in Times
<1>2. ASSUME NEW u \in Clocks
      PROVE  /\ u.s < 59 => u.s + 1 \in 0 .. 59
             /\ u.m < 59 => u.m + 1 \in 0 .. 59
             /\ u.h < 23 => u.h + 1 \in 0 .. 23
             /\ u.mo < 12 => u.mo + 1 \in 1 .. 12
             /\ (u.y + 1) % 100 \in 0 .. 99
             /\ u.d \in Nat /\ u.mo \in 1 .. 12 /\ u.y \in 0 .. 99
  BY DEF Clocks
<1>3. \A mo \in 1 .. 12, y \in 0 .. 99 : MonthLength(mo, y) \in 28 .. 31
  BY DEF MonthLength
<1>4. \A u \in Clocks : u.d = 1 => u \in Times
  <2> SUFFICES ASSUME NEW u \in Clocks, u.d = 1 PROVE u \in Times
    OBVIOUS
  <2>1. MonthLength(u.mo, u.y) \in 28 .. 31
    BY <1>2, <1>3
  <2> QED BY <2>1, InCalendar
<1>5. \A u \in Times : NextDay(u) \in Times
  <2> SUFFICES ASSUME NEW u \in Times PROVE NextDay(u) \in Times
    OBVIOUS
  <2>1. u \in Clocks
    BY InCalendar
  <2>2. CASE u.d < MonthLength(u.mo, u.y)
    <3> DEFINE d == u.d + 1
               v == [u EXCEPT !.d = d]
    <3>1. NextDay(u) = v
      BY <2>2 DEF NextDay
    <3>2. MonthLength(u.mo, u.y) \in 28 .. 31 /\ u.d \in Nat
      BY <1>2, <1>3, <2>1
    <3>3. d \in 1 .. 31 /\ d <= MonthLength(u.mo, u.y)
      BY <2>2, <3>2
    <3> HIDE DEF d
    <3>4. v \in Clocks /\ v.d = d /\ v.mo = u.mo /\ v.y = u.y
      BY <2>1, <3>3 DEF Clocks
    <3> QED BY <3>1, <3>3, <3>4, InCalendar
  <2>3. CASE ~(u.d < MonthLength(u.mo, u.y)) /\ u.mo < 12
    <3> DEFINE d == 1
               mo == u.mo + 1
               v == [u EXCEPT !.d = d, !.mo = mo]
    <3>1. NextDay(u) = v
      BY <2>3 DEF NextDay
    <3>2. d \in 1 .. 31 /\ mo \in 1 .. 12
      BY <1>2, <2>1, <2>3
    <3>3. d = 1
      OBVIOUS
    <3> HIDE DEF d, mo
    <3>4. v \in Clocks /\ v.d = d
      BY <2>1, <3>2 DEF Clocks
    <3> QED BY <1>4, <3>1, <3>3, <3>4
  <2>4. CASE ~(u.d < MonthLength(u.mo, u.y)) /\ ~(u.mo < 12)
    <3> DEFINE d == 1
               mo == 1
               y == (u.y + 1) % 100
               v == [u EXCEPT !.d = d, !.mo = mo, !.y = y]
    <3>1. NextDay(u) = v
      BY <2>4 DEF NextDay
    <3>2. d \in 1 .. 31 /\ mo \in 1 .. 12 /\ y \in 0 .. 99
      BY <1>2, <2>1
    <3>3. d = 1
      OBVIOUS
    <3> HIDE DEF d, mo, y
    <3>4. v \in Clocks /\ v.d = d
      BY <2>1, <3>2 DEF Clocks
    <3> QED BY <1>4, <3>1, <3>3, <3>4
  <2> QED BY <2>2, <2>3, <2>4
<1>6. \A u \in Clocks : u.d = t.d /\ u.mo = t.mo /\ u.y = t.y => u \in Times
  BY InCalendar
<1>7. t \in Clocks
  BY InCalendar
<1>8. CASE t.s < 59
  <2> DEFINE x == t.s + 1
             v == [t EXCEPT !.s = x]
  <2>1. NextSecond(t) = v
    BY <1>8 DEF NextSecond
  <2>2. x \in 0 .. 59
    BY <1>2, <1>7, <1>8
  <2> HIDE DEF x
  <2>3. v \in Clocks /\ v.d = t.d /\ v.mo = t.mo /\ v.y = t.y
    BY <1>7, <2>2 DEF Clocks
  <2> QED BY <1>6, <2>1, <2>3
<1>9. CASE ~(t.s < 59) /\ t.m < 59
  <2> DEFINE z == 0
             x == t.m + 1
             v == [t EXCEPT !.s = z, !.m = x]
  <2>1. NextSecond(t) = v
    BY <1>9 DEF NextSecond
  <2>2. z \in 0 .. 59 /\ x \in 0 .. 59
    BY <1>2, <1>7, <1>9
  <2> HIDE DEF x, z
  <2>3. v \in Clocks /\ v.d = t.d /\ v.mo = t.mo /\ v.y = t.y
    BY <1>7, <2>2 DEF Clocks
  <2> QED BY <1>6, <2>1, <2>3
<1>10. CASE ~(t.s < 59) /\ ~(t.m < 59)
  <2> DEFINE z == 0
             x == IF t.h < 23 THEN t.h + 1 ELSE 0
             v == [t EXCEPT !.s = z, !.m = z, !.h = x]
  <2>1. NextSecond(t) = IF t.h < 23 THEN v ELSE NextDay(v)
    BY <1>10 DEF NextSecond
  <2>2. z \in 0 .. 59 /\ x \in 0 .. 23
    BY <1>2, <1>7
  <2> HIDE DEF x, z
  <2>3. v \in Clocks /\ v.d = t.d /\ v.mo = t.mo /\ v.y = t.y
    BY <1>7, <2>2 DEF Clocks
  <2> QED BY <1>5, <1>6, <2>1, <2>3
<1> QED BY <1>8, <1>9, <1>10

\* What a register shows fits a byte.
LEMMA ShownInByte ==
  ASSUME NEW t \in Times, NEW f \in Field, NEW md \in Modes
  PROVE  Shown(f, t, md) \in 0 .. 255
<1>1. /\ t.s \in 0 .. 99 /\ t.m \in 0 .. 99 /\ t.d \in 0 .. 99
      /\ t.mo \in 0 .. 99 /\ t.y \in 0 .. 99
  BY TimeFields, InCalendar
<1>2. f = "h" \/ (f # "h" /\ t[f] \in 0 .. 99)
  BY <1>1, Names
<1>3. CASE f = "h"
  BY <1>3, HourUnderstood, InCalendar
<1>4. CASE f # "h" /\ t[f] \in 0 .. 99
  <2>1. Shown(f, t, md) = Coded(t[f], md.bcd)
    BY <1>4 DEF Shown
  <2>2. md.bcd \in BOOLEAN
    BY DEF Modes
  <2>3. Coded(t[f], md.bcd) \in 0 .. 153
    BY <1>4, <2>2, FieldUnderstood
  <2>4. \A x \in 0 .. 153 : x \in 0 .. 255
    OBVIOUS
  <2> QED BY <2>1, <2>3, <2>4
<1> QED BY <1>2, <1>3, <1>4

-----------------------------------------------------------------------------
\* The stack: its top taken off, and its top replaced.
LEMMA Below ==
  ASSUME NEW S, NEW st \in Seq(S), st # <<>>
  PROVE  /\ Len(st) \in Nat \ {0} /\ st[Len(st)] \in S
         /\ SubSeq(st, 1, Len(st) - 1) \in Seq(S)
         /\ Len(SubSeq(st, 1, Len(st) - 1)) = Len(st) - 1
         /\ \A k \in 1 .. Len(st) - 1 :
              SubSeq(st, 1, Len(st) - 1)[k] = st[k]
<1>1. Len(st) \in Nat \ {0} /\ st[Len(st)] \in S
  BY EmptySeq, ElementOfSeq, LenProperties
<1> DEFINE n == Len(st) - 1
<1>2. n \in Nat /\ \A i \in 1 .. n : st[i] \in S
  BY <1>1, ElementOfSeq
<1> HIDE DEF n
<1>3. /\ SubSeq(st, 1, n) \in Seq(S)
      /\ Len(SubSeq(st, 1, n)) = IF 1 <= n THEN n - 1 + 1 ELSE 0
      /\ \A i \in 1 .. n - 1 + 1 : SubSeq(st, 1, n)[i] = st[1 + i - 1]
  BY <1>2, SubSeqProperties
<1>4. \A i \in 1 .. n : i \in 1 .. n - 1 + 1 /\ 1 + i - 1 = i
  BY <1>2
<1>5. \A i \in 1 .. n : SubSeq(st, 1, n)[i] = st[i]
  BY <1>3, <1>4
<1>6. (IF 1 <= n THEN n - 1 + 1 ELSE 0) = n
  BY <1>2
<1>7. /\ SubSeq(st, 1, n) \in Seq(S) /\ Len(SubSeq(st, 1, n)) = n
      /\ \A k \in 1 .. n : SubSeq(st, 1, n)[k] = st[k]
  BY <1>3, <1>5, <1>6
<1> QED BY <1>1, <1>7 DEF n

LEMMA Replaced ==
  ASSUME NEW S, NEW st \in Seq(S), st # <<>>, NEW x \in S
  PROVE  LET r == Append(SubSeq(st, 1, Len(st) - 1), x)
         IN  /\ r \in Seq(S) /\ r # <<>> /\ Len(r) = Len(st)
             /\ r[Len(st)] = x
             /\ \A k \in 1 .. Len(st) - 1 : r[k] = st[k]
<1> DEFINE b == SubSeq(st, 1, Len(st) - 1)
<1>1. b \in Seq(S) /\ Len(b) = Len(st) - 1 /\ Len(st) \in Nat \ {0}
      /\ \A k \in 1 .. Len(st) - 1 : b[k] = st[k]
  BY Below
<1> HIDE DEF b
<1>2. LET r == Append(b, x)
      IN  /\ r \in Seq(S) /\ r # <<>> /\ Len(r) = Len(st)
          /\ r[Len(st)] = x
          /\ \A k \in 1 .. Len(st) - 1 : r[k] = st[k]
  BY <1>1, AppendProperties
<1> QED BY <1>2 DEF b

\* A call with its step changed is a call.
LEMMA Moved ==
  ASSUME NEW c \in Calls, NEW p \in Steps
  PROVE  /\ [c EXCEPT !.pc = p] \in Calls
         /\ [c EXCEPT !.pc = p].pc = p /\ [c EXCEPT !.pc = p].irq = c.irq
         /\ [c EXCEPT !.pc = p].regs = c.regs /\ [c EXCEPT !.pc = p].at = c.at
         /\ [c EXCEPT !.pc = p].torn = c.torn
BY DEF Calls

-----------------------------------------------------------------------------
\* What is in service is on top.
LEMMA OnTop ==
  ASSUME IInv, stack # <<>>
  PROVE  /\ top \in Calls /\ Len(stack) \in Nat \ {0}
         /\ top = stack[Len(stack)]
         /\ top.pc = "stub" => isr = Bits(top.irq) /\ ~enabled
         /\ top.pc # "stub" => isr = {}
         /\ top.flags = TRUE
         /\ ReadSoFar(top, time)
         /\ top.irq # Rtc => top.pc \in {"stub", "run"}
<1>1. top \in Calls /\ Len(stack) \in Nat \ {0}
  BY Below DEF IInv, TypeInv, top
<1>2. Len(stack) \in 1 .. Len(stack)
  BY <1>1
<1>3. top.flags = TRUE
  BY <1>1 DEF Calls
<1> QED BY <1>1, <1>2, <1>3
        DEF IInv, Nested, InService, Read, Beyond, top

\* The handler goes on to a step behind its acknowledgement.
LEMMA TopGoesOn ==
  ASSUME IInv, stack # <<>>, NEW x \in Calls, stack' = Append(below, x),
         x.irq = top.irq, x.pc # "stub",
         x.irq # Rtc => x.pc = "run",
         enabled' => Beyond(x),
         UNCHANGED <<time, mode, waiting, irr>>, isr' = {},
         ReadSoFar(x, time)
  PROVE  stack' \in Seq(Calls) /\ Nested' /\ InService' /\ ByteWaits' /\ Read'
<1>1. stack \in Seq(Calls) /\ Len(stack) \in Nat \ {0}
  BY OnTop DEF IInv, TypeInv
<1>2. /\ stack' \in Seq(Calls) /\ stack' # <<>> /\ Len(stack') = Len(stack)
      /\ stack'[Len(stack')] = x
      /\ \A k \in 1 .. Len(stack) - 1 : stack'[k] = stack[k]
  <2>1. stack' = Append(SubSeq(stack, 1, Len(stack) - 1), x)
    BY DEF below
  <2> QED BY <1>1, <2>1, Replaced
<1>3. \A k \in 1 .. Len(stack) : k \in 1 .. Len(stack) - 1 \/ k = Len(stack)
  BY <1>1
<1>4. \A k \in 1 .. Len(stack) - 1 : k \in 1 .. Len(stack) /\ k < Len(stack)
  BY <1>1
<1>5. ASSUME NEW k \in 1 .. Len(stack')
      PROVE  /\ stack'[k].irq # Rtc => stack'[k].pc \in {"stub", "run"}
             /\ k < Len(stack') => Beyond(stack'[k])
             /\ ReadSoFar(stack'[k], time)
  <2>1. CASE k \in 1 .. Len(stack) - 1
    BY <1>2, <1>4, <2>1 DEF IInv, Nested, Read
  <2>2. CASE k = Len(stack)
    BY <1>1, <1>2, <2>2
  <2> QED BY <1>2, <1>3, <2>1, <2>2
<1>6. Nested'
  BY <1>2, <1>5 DEF Nested, Beyond
<1>7. Read'
  BY <1>5 DEF Read, ReadSoFar
<1>8. InService'
  BY <1>2 DEF InService
<1>9. ByteWaits'
  BY <1>2 DEF IInv, ByteWaits, top
<1> QED BY <1>2, <1>6, <1>7, <1>8, <1>9

\* The handler returns.
LEMMA TopReturns ==
  ASSUME IInv, stack # <<>>, top.pc # "stub", Return,
         UNCHANGED <<time, mode, isr>>, Kbd \in irr' => waiting' > 0
  PROVE  stack' \in Seq(Calls) /\ enabled' = TRUE
         /\ Nested' /\ InService' /\ ByteWaits' /\ Read'
<1>1. stack \in Seq(Calls) /\ Len(stack) \in Nat \ {0} /\ isr = {}
  BY OnTop DEF IInv, TypeInv
<1>2. /\ stack' \in Seq(Calls) /\ Len(stack') = Len(stack) - 1
      /\ \A k \in 1 .. Len(stack) - 1 : stack'[k] = stack[k]
  BY <1>1, Below DEF Return, below
<1>3. \A k \in 1 .. Len(stack) - 1 : k \in 1 .. Len(stack) /\ k < Len(stack)
  BY <1>1
<1>4. ASSUME NEW k \in 1 .. Len(stack')
      PROVE  Beyond(stack'[k]) /\ ReadSoFar(stack'[k], time)
  BY <1>2, <1>3 DEF IInv, Nested, Read
<1>5. stack' # <<>> => Len(stack') \in 1 .. Len(stack')
  BY <1>2, EmptySeq
<1>6. Nested'
  BY <1>4, <1>5 DEF Nested, Beyond
<1>7. Read'
  BY <1>4 DEF Read, ReadSoFar
<1>8. InService' /\ ByteWaits'
  BY <1>1, <1>4, <1>5 DEF InService, ByteWaits, Beyond, Rtc, Kbd
<1>9. enabled' = TRUE
  BY OnTop DEF Return
<1> QED BY <1>2, <1>6, <1>7, <1>8, <1>9

\* The devices change no call but to mark its reading as torn.
LEMMA CallsStay ==
  ASSUME IInv, UNCHANGED <<time, mode, isr, enabled, stack>>,
         waiting' \in Nat, waiting' >= waiting,
         Kbd \in irr' => (Kbd \in irr \/ waiting = 0) /\ waiting' > 0
  PROVE  stack' \in Seq(Calls) /\ Nested' /\ InService' /\ ByteWaits' /\ Read'
<1>1. stack' \in Seq(Calls) /\ Nested' /\ InService' /\ Read'
  BY DEF IInv, TypeInv, Nested, InService, Read, ReadSoFar, Beyond
<1>2. waiting \in Nat
  BY DEF IInv, TypeInv
<1>3. ByteWaits'
  BY <1>2 DEF IInv, ByteWaits
<1> QED BY <1>1, <1>3

LEMMA TickKeeps ==
  ASSUME IInv, Tick
  PROVE  IInv'
<1>1. stack \in Seq(Calls) /\ Len(stack) \in Nat
      /\ DOMAIN stack = 1 .. Len(stack)
  BY LenProperties DEF IInv, TypeInv
<1>2. ASSUME NEW k \in 1 .. Len(stack)
      PROVE  /\ stack[k] \in Calls /\ stack'[k] \in Calls
             /\ stack'[k].irq = stack[k].irq /\ stack'[k].pc = stack[k].pc
             /\ stack'[k].regs = stack[k].regs /\ stack'[k].at = stack[k].at
             /\ stack'[k].torn = (stack[k].torn \/ Midway(stack[k]))
  <2> DEFINE b == stack[k].torn \/ Midway(stack[k])
  <2>1. stack[k] \in Calls
    BY <1>1, ElementOfSeq
  <2>2. b \in BOOLEAN
    OBVIOUS
  <2>3. stack'[k] = [stack[k] EXCEPT !.torn = b]
    BY <1>1 DEF Tick
  <2> HIDE DEF b
  <2>4. /\ stack'[k] \in Calls /\ stack'[k].torn = b
        /\ stack'[k].irq = stack[k].irq /\ stack'[k].pc = stack[k].pc
        /\ stack'[k].regs = stack[k].regs /\ stack'[k].at = stack[k].at
    BY <2>1, <2>2, <2>3 DEF Calls
  <2> QED BY <2>1, <2>4 DEF b
<1>3. stack' \in Seq(Calls) /\ Len(stack') = Len(stack)
      /\ (stack' = <<>> <=> stack = <<>>)
  <2>1. stack' = [k \in 1 .. Len(stack) |-> stack'[k]]
    BY <1>1 DEF Tick
  <2>2. stack' \in [1 .. Len(stack) -> Calls]
    BY <1>2, <2>1
  <2>3. stack' \in Seq(Calls)
    BY <1>1, <2>2, SeqDef
  <2>4. Len(stack') = Len(stack)
    BY <1>1, <2>2, <2>3, LenProperties
  <2> QED BY <1>1, <2>3, <2>4, EmptySeq
<1>4. UNCHANGED <<mode, bytes, isr, enabled, store>> /\ time' = NextSecond(time)
      /\ century' \in {century, century + 1}
      /\ ticks' = ticks + 1 /\ ticks < MaxTicks /\ flag' = TRUE
      /\ irr' \in {irr, irr \cup {Rtc}}
  BY DEF Tick
<1>5. TypeInv'
  <2>1. time' \in Times
    BY <1>4, SecondsInCalendar DEF IInv, TypeInv
  <2>2. ticks' \in 0 .. MaxTicks /\ century' \in 0 .. ticks'
    BY <1>4, BoundAssumption DEF IInv, TypeInv
  <2>3. irr' \subseteq Irqs
    BY <1>4 DEF IInv, TypeInv, Irqs
  <2> QED BY <1>3, <1>4, <2>1, <2>2, <2>3 DEF IInv, TypeInv, bytes, store
<1>6. Nested'
  BY <1>1, <1>2, <1>3, <1>4, EmptySeq DEF IInv, Nested, Beyond
<1>7. InService'
  BY <1>1, <1>2, <1>3, <1>4, EmptySeq DEF IInv, InService
<1>8. ByteWaits'
  BY <1>1, <1>2, <1>3, <1>4, EmptySeq, Names DEF IInv, ByteWaits, bytes
<1>9. Read'
  <2> SUFFICES ASSUME NEW k \in 1 .. Len(stack)
               PROVE  ReadSoFar(stack[k], time)'
    BY <1>3 DEF Read
  <2>1. ReadSoFar(stack[k], time)
    BY DEF IInv, Read
  <2>2. /\ stack[k].torn \in BOOLEAN
        /\ stack[k].pc \in {"m", "h", "d", "mo", "y"} => Midway(stack[k])
    <3>1. stack[k].torn \in BOOLEAN
      BY <1>2 DEF Calls
    <3>2. ASSUME stack[k].pc \in {"m", "h", "d", "mo", "y"}
          PROVE  Midway(stack[k])
      <4>1. DOMAIN stack[k].regs = SeenAt[stack[k].pc]
            /\ SeenAt[stack[k].pc] # {}
        BY <2>1, <3>2 DEF ReadSoFar, SeenAt
      <4>2. stack[k].regs # <<>>
        BY <4>1
      <4> QED BY <3>2, <4>2, Names DEF Midway
    <3> QED BY <3>1, <3>2
  <2>3. mode' = mode
    BY <1>4
  <2>4. CASE stack[k].pc \in {"m", "h", "d", "mo", "y"}
    <3>1. stack'[k].torn = TRUE
      BY <1>2, <2>2, <2>4
    <3> QED BY <1>2, <2>1, <3>1 DEF ReadSoFar
  <2>5. CASE stack[k].pc \notin {"m", "h", "d", "mo", "y"}
    <3>1. stack[k].pc \in Field => stack[k].pc = "s"
      BY <2>5, Names
    <3>2. ~Midway(stack[k])
      BY <2>1, <3>1 DEF ReadSoFar, Midway
    <3>3. stack'[k].torn = stack[k].torn
      BY <1>2, <2>2, <3>2
    <3> QED BY <1>2, <2>1, <2>3, <2>5, <3>3 DEF ReadSoFar
  <2> QED BY <2>4, <2>5
<1>10. EpochRight'
  BY <1>4 DEF IInv, EpochRight, store
<1> QED BY <1>5, <1>6, <1>7, <1>8, <1>9, <1>10 DEF IInv

LEMMA EmptyRegs == <<>> \in Regs /\ DOMAIN <<>> = {}
<1>1. <<>> \in [{} -> 0 .. 255] /\ {} \in SUBSET Field
  OBVIOUS
<1>2. <<>> \in Regs
  BY <1>1 DEF Regs
<1> QED BY <1>2

LEMMA DeliverKeeps ==
  ASSUME IInv, NEW i \in Irqs, Deliver(i)
  PROVE  IInv'
<1> DEFINE f == [k \in DOMAIN stack |->
                   [stack[k] EXCEPT !.alone = @ /\ i # Rtc]]
           x == Called(i)
<1>1. stack \in Seq(Calls) /\ Len(stack) \in Nat
      /\ DOMAIN stack = 1 .. Len(stack) /\ DOMAIN f = 1 .. Len(stack)
  BY LenProperties DEF IInv, TypeInv
<1>2. ASSUME NEW k \in 1 .. Len(stack)
      PROVE  /\ f[k] \in Calls
             /\ f[k].irq = stack[k].irq /\ f[k].pc = stack[k].pc
             /\ f[k].regs = stack[k].regs /\ f[k].at = stack[k].at
             /\ f[k].torn = stack[k].torn
  <2> DEFINE b == stack[k].alone /\ i # Rtc
  <2>1. stack[k] \in Calls
    BY <1>1, ElementOfSeq
  <2>2. b \in BOOLEAN
    OBVIOUS
  <2>3. f[k] = [stack[k] EXCEPT !.alone = b]
    BY <1>1
  <2> HIDE DEF b, f
  <2> QED BY <2>1, <2>2, <2>3 DEF Calls
<1>3. f \in Seq(Calls) /\ Len(f) = Len(stack)
  <2>1. f = [k \in 1 .. Len(stack) |-> f[k]]
    BY <1>1
  <2> HIDE DEF f
  <2>2. f \in [1 .. Len(stack) -> Calls]
    BY <1>2, <2>1
  <2>3. f \in Seq(Calls)
    BY <1>1, <2>2, SeqDef
  <2> QED BY <1>1, <2>2, <2>3, LenProperties
<1>4. /\ enabled = TRUE /\ i \in irr /\ irr' = irr \ {i}
      /\ isr' = isr \cup Bits(i) /\ enabled' = FALSE
      /\ stack' = Append(f, x)
      /\ raced' \in BOOLEAN
      /\ UNCHANGED <<chip, flag, bytes, epoch, fattime, source>>
  BY DEF Deliver, Ready, FlagInGate, IInv, TypeInv
<1>5. /\ x \in Calls /\ x.irq = i /\ x.pc = "stub" /\ x.regs = <<>>
  <2> DEFINE a == (ClockCalls(stack) = {})
  <2>1. x = [irq |-> i, pc |-> "stub", flags |-> TRUE, regs |-> <<>>,
             at |-> <<>>, torn |-> FALSE, alone |-> a] /\ a \in BOOLEAN
    BY <1>4 DEF Called
  <2> HIDE DEF a, x
  <2>2. x.irq = i /\ x.pc = "stub" /\ x.regs = <<>>
    BY <2>1
  <2>3. "stub" \in Steps
    BY Names
  <2>4. x \in Calls
    BY <2>1, <2>3, EmptyRegs DEF Calls
  <2> QED BY <2>2, <2>4
<1> HIDE DEF f, x
<1>6. /\ stack' \in Seq(Calls) /\ stack' # <<>>
      /\ Len(stack') = Len(stack) + 1 /\ stack'[Len(stack')] = x
      /\ \A k \in 1 .. Len(stack) : stack'[k] = f[k]
  BY <1>1, <1>3, <1>4, <1>5, AppendProperties
<1>7. ASSUME NEW k \in 1 .. Len(stack)
      PROVE  Beyond(stack'[k]) /\ Beyond(stack[k])
  <2>1. stack # <<>> /\ Len(stack) \in 1 .. Len(stack)
    BY <1>1, EmptySeq
  <2>2. Beyond(stack[Len(stack)])
    BY <1>4, <2>1 DEF IInv, Nested
  <2>3. k < Len(stack) \/ k = Len(stack)
    BY LenProperties DEF IInv, TypeInv
  <2>4. Beyond(stack[k])
    BY <2>2, <2>3 DEF IInv, Nested
  <2> QED BY <1>2, <1>6, <2>4 DEF Beyond
<1>8. \A k \in 1 .. Len(stack') : k \in 1 .. Len(stack) \/ k = Len(stack')
  BY <1>1, <1>6
<1>9. TypeInv'
  BY <1>4, <1>6 DEF IInv, TypeInv, chip, bytes
<1>10. Nested'
  <2> SUFFICES ASSUME NEW k \in 1 .. Len(stack')
               PROVE  /\ stack'[k].irq # Rtc => stack'[k].pc \in {"stub", "run"}
                      /\ k < Len(stack') => Beyond(stack'[k])
    BY <1>4 DEF Nested, Beyond
  <2>1. CASE k \in 1 .. Len(stack)
    BY <1>7, <2>1 DEF Beyond
  <2>2. CASE k = Len(stack')
    BY <1>1, <1>5, <1>6, <2>2
  <2> QED BY <1>8, <2>1, <2>2
<1>11. InService'
  <2>1. isr = {}
    <3>1. stack # <<>> => Len(stack) \in 1 .. Len(stack)
      BY <1>1, EmptySeq
    <3> QED BY <1>7, <3>1 DEF IInv, InService, Beyond
  <2> QED BY <1>4, <1>5, <1>6, <2>1 DEF InService
<1>12. ByteWaits'
  BY <1>4, <1>5, <1>6, Names DEF IInv, ByteWaits, bytes
<1>13. Read'
  <2> SUFFICES ASSUME NEW k \in 1 .. Len(stack')
               PROVE  ReadSoFar(stack'[k], time)
    BY <1>4 DEF Read, ReadSoFar, chip
  <2>1. CASE k \in 1 .. Len(stack)
    <3>1. ReadSoFar(stack[k], time)
      BY <2>1 DEF IInv, Read
    <3> QED BY <1>2, <1>6, <2>1, <3>1 DEF ReadSoFar
  <2>2. CASE k = Len(stack')
    <3>1. stack'[k] = x
      BY <1>6, <2>2
    <3>2. SeenAt[x.pc] = {}
      BY <1>5 DEF SeenAt
    <3>3. ReadSoFar(x, time)
      BY <1>5, <3>2, EmptyRegs DEF ReadSoFar
    <3> QED BY <3>1, <3>3
  <2> QED BY <1>8, <2>1, <2>2
<1>14. EpochRight'
  BY <1>4 DEF IInv, EpochRight, chip
<1> QED BY <1>9, <1>10, <1>11, <1>12, <1>13, <1>14 DEF IInv

-----------------------------------------------------------------------------
LEMMA InitKeeps == Init => IInv
<1> SUFFICES ASSUME Init PROVE IInv
  OBVIOUS
<1>1. time \in Times /\ mode \in Modes
  BY StartAssumption DEF Init, Modes
<1>2. stack = <<>> /\ stack \in Seq(Calls) /\ Len(stack) = 0
  BY EmptySeq DEF Init
<1>3. TypeInv
  <2>1. irr \subseteq Irqs /\ flag \in BOOLEAN
    BY Names DEF Init
  <2>2. ticks = 0 /\ century = 0 /\ others = 0 /\ waiting = 0 /\ enabled = TRUE /\ raced = FALSE
    BY DEF Init
  <2>3. ticks \in 0 .. MaxTicks /\ century \in 0 .. ticks
        /\ others \in 0 .. MaxOthers
        /\ waiting \in 0 .. others
    BY <2>2, BoundAssumption
  <2> QED BY <1>1, <1>2, <2>1, <2>2, <2>3 DEF TypeInv
<1>4. Nested /\ InService /\ Read
  BY <1>2 DEF Init, Nested, InService, Read
<1>5. ByteWaits
  BY <1>2, Names DEF Init, ByteWaits
<1>6. EpochRight
  BY DEF Init, EpochRight
<1> QED BY <1>3, <1>4, <1>5, <1>6 DEF IInv

LEMMA DevicesKeep ==
  ASSUME IInv, TimerTick \/ KeyByte
  PROVE  IInv'
<1>1. /\ UNCHANGED <<time, mode, ticks, century, flag, isr, enabled, stack,
                     epoch, fattime, source, raced>>
      /\ others' = others + 1 /\ others < MaxOthers
  BY DEF TimerTick, KeyByte, chip, store
<1>2. others \in Nat /\ waiting \in Nat /\ waiting <= others
  BY BoundAssumption DEF IInv, TypeInv
<1>3. /\ waiting' \in {waiting, waiting + 1}
      /\ irr' \in {irr, irr \cup {Timer}, irr \cup {Kbd}}
      /\ Kbd \in irr' => (Kbd \in irr \/ waiting = 0) /\ waiting' > 0
  <2>1. CASE TimerTick
    BY <2>1, Names DEF TimerTick, IInv, ByteWaits
  <2>2. CASE KeyByte
    BY <1>2, <2>2, Names DEF KeyByte, IInv, ByteWaits
  <2> QED BY <2>1, <2>2
<1>4. waiting' \in Nat /\ waiting' >= waiting /\ waiting' <= others'
      /\ others' <= MaxOthers /\ others' \in Nat
  BY <1>1, <1>2, <1>3, BoundAssumption
<1>5. Nested' /\ InService' /\ ByteWaits' /\ Read'
  BY <1>1, <1>3, <1>4, CallsStay
<1>6. TypeInv'
  BY <1>1, <1>3, <1>4, BoundAssumption DEF IInv, TypeInv, Irqs
<1>7. EpochRight'
  BY <1>1 DEF IInv, EpochRight
<1> QED BY <1>5, <1>6, <1>7 DEF IInv

LEMMA AcknowledgeKeeps ==
  ASSUME IInv, Acknowledge
  PROVE  IInv'
<1> DEFINE x == [top EXCEPT !.pc = "run"]
<1>1. /\ stack # <<>> /\ top.pc = "stub" /\ stack' = Append(below, x)
      /\ isr' = isr \ Eoi(top.irq)
      /\ UNCHANGED <<chip, flag, bytes, irr, enabled, store>>
  BY DEF Acknowledge, GoTo
<1>2. top \in Calls /\ isr = Bits(top.irq) /\ ~enabled /\ ReadSoFar(top, time)
  BY <1>1, OnTop
<1>3. /\ x \in Calls /\ x.pc = "run" /\ x.irq = top.irq
      /\ x.regs = top.regs /\ x.at = top.at /\ x.torn = top.torn
  BY <1>2, Moved, Names
<1> HIDE DEF x
<1>4. ReadSoFar(x, time)
  BY <1>1, <1>2, <1>3 DEF ReadSoFar, SeenAt
<1>5. isr' = {}
  BY <1>1, <1>2 DEF Eoi
<1>6. stack' \in Seq(Calls) /\ Nested' /\ InService' /\ ByteWaits' /\ Read'
  BY <1>1, <1>2, <1>3, <1>4, <1>5, TopGoesOn DEF chip, bytes
<1>7. TypeInv' /\ EpochRight'
  BY <1>1, <1>6 DEF IInv, TypeInv, EpochRight, chip, bytes, store
<1> QED BY <1>6, <1>7 DEF IInv

LEMMA ReturnsKeep ==
  ASSUME IInv, RunPlain \/ EndClock
  PROVE  IInv'
<1>1. /\ stack # <<>> /\ top.pc # "stub" /\ Return
      /\ UNCHANGED <<chip, flag, others, isr, store>>
  BY DEF RunPlain, EndClock, bytes, pic
<1>2. /\ waiting' \in 0 .. others' /\ irr' \subseteq Irqs
      /\ Kbd \in irr' => waiting' > 0
  <2>1. waiting \in 0 .. others /\ irr \subseteq Irqs /\ others \in Nat
    BY BoundAssumption DEF IInv, TypeInv
  <2>2. CASE RunPlain /\ top.irq = Kbd
    <3>1. waiting > 0 /\ Kbd \notin irr
      BY <1>1, <2>2 DEF IInv, ByteWaits, top
    <3>2. waiting' = waiting - 1
          /\ irr' = IF waiting > 1 THEN irr \cup {Kbd} ELSE irr
      BY <2>2 DEF RunPlain
    <3> QED BY <1>1, <2>1, <3>1, <3>2, Names
  <2>3. CASE EndClock \/ top.irq # Kbd
    <3>1. UNCHANGED <<waiting, irr, others>>
      BY <1>1, <2>3 DEF RunPlain, EndClock, bytes, pic
    <3> QED BY <2>1, <3>1 DEF IInv, ByteWaits
  <2> QED BY <2>2, <2>3
<1>3. /\ stack' \in Seq(Calls) /\ enabled' = TRUE
      /\ Nested' /\ InService' /\ ByteWaits' /\ Read'
  BY <1>1, <1>2, TopReturns DEF chip
<1>4. TypeInv' /\ EpochRight'
  BY <1>1, <1>2, <1>3 DEF IInv, TypeInv, EpochRight, chip, store
<1> QED BY <1>3, <1>4 DEF IInv

LEMMA ReadStatusKeeps ==
  ASSUME IInv, ReadStatus
  PROVE  IInv'
<1> DEFINE p == IF flag THEN "s" ELSE "iret"
           x == [top EXCEPT !.pc = p]
<1>1. /\ stack # <<>> /\ top.pc = "run" /\ top.irq = Rtc
      /\ stack' = Append(below, x) /\ flag' = FALSE /\ enabled' = TRUE
      /\ UNCHANGED <<chip, bytes, irr, isr, store>>
  BY DEF ReadStatus, GoTo, StatusRead, pic
<1>2. top \in Calls /\ isr = {} /\ ReadSoFar(top, time)
  BY <1>1, OnTop
<1>3. p \in {"s", "iret"} /\ p \in Steps
  BY Names
<1> HIDE DEF p
<1>4. /\ x \in Calls /\ x.pc = p /\ x.irq = top.irq
      /\ x.regs = top.regs /\ x.at = top.at /\ x.torn = top.torn
  BY <1>2, <1>3, Moved
<1> HIDE DEF x
<1>5. ReadSoFar(x, time)
  <2>1. x.regs = <<>>
    BY <1>1, <1>2, <1>4 DEF ReadSoFar
  <2>2. x.pc # "iret" => x.pc = "s" /\ SeenAt[x.pc] = {}
    BY <1>3, <1>4 DEF SeenAt
  <2> QED BY <2>1, <2>2, EmptyRegs DEF ReadSoFar
<1>6. Beyond(x) /\ x.pc # "stub" /\ (x.irq # Rtc => x.pc = "run")
  BY <1>1, <1>3, <1>4 DEF Beyond
<1>7. stack' \in Seq(Calls) /\ Nested' /\ InService' /\ ByteWaits' /\ Read'
  BY <1>1, <1>2, <1>4, <1>5, <1>6, TopGoesOn DEF chip, bytes
<1>8. TypeInv' /\ EpochRight'
  BY <1>1, <1>7 DEF IInv, TypeInv, EpochRight, chip, bytes, store
<1> QED BY <1>7, <1>8 DEF IInv

LEMMA ReadFieldKeeps ==
  ASSUME IInv, ReadField
  PROVE  IInv'
<1> DEFINE f == top.pc
           g == After(top.pc)
           D == DOMAIN top.regs \cup {f}
           r == [h \in D |-> IF h = f THEN Shown(f, time, mode) ELSE top.regs[h]]
           a == IF top.regs = <<>> THEN <<time, century>> ELSE top.at
           x == [top EXCEPT !.pc = g, !.regs = r, !.at = a]
<1>1. /\ stack # <<>> /\ f \in Field /\ stack' = Append(below, x)
      /\ enabled' = TRUE
      /\ UNCHANGED <<chip, flag, bytes, irr, isr, store>>
  BY DEF ReadField, pic
<1>2. /\ top \in Calls /\ isr = {} /\ ReadSoFar(top, time) /\ top.irq = Rtc
      /\ time \in Times /\ mode \in Modes
  BY <1>1, OnTop, Names DEF IInv, TypeInv
<1>3. g \in Field \cup {"epoch"} /\ g \in Steps
      /\ g \in {"m", "h", "d", "mo", "y", "epoch"}
      /\ SeenAt[g] = SeenAt[f] \cup {f}
  BY <1>1, Names DEF After, SeenAt
<1>4. /\ D = SeenAt[g] /\ D \in SUBSET Field
      /\ top.regs = <<>> <=> f = "s"
  <2>1. DOMAIN top.regs = SeenAt[f] /\ (f = "s" => top.regs = <<>>)
    BY <1>1, <1>2, Names DEF ReadSoFar
  <2>2. SeenAt[f] \subseteq Field /\ (f # "s" => SeenAt[f] # {})
    <3>1. /\ SeenAt["s"] = {} /\ SeenAt["m"] = {"s"}
          /\ SeenAt["h"] = {"s", "m"} /\ SeenAt["d"] = {"s", "m", "h"}
          /\ SeenAt["mo"] = {"s", "m", "h", "d"}
          /\ SeenAt["y"] = {"s", "m", "h", "d", "mo"}
      BY DEF SeenAt
    <3>2. f \in {"s", "m", "h", "d", "mo", "y"}
      BY <1>1, Names
    <3> HIDE DEF f
    <3> QED BY <3>1, <3>2, Names
  <2> QED BY <1>1, <1>3, <2>1, <2>2, EmptyRegs
<1>5. top.regs \in [DOMAIN top.regs -> 0 .. 255]
  BY <1>2 DEF Calls, Regs
<1>6. Shown(f, time, mode) \in 0 .. 255
  BY <1>1, <1>2, ShownInByte
<1>7. r \in Regs /\ DOMAIN r = D
  <2>1. r \in [D -> 0 .. 255]
    BY <1>5, <1>6
  <2> QED BY <1>4, <2>1 DEF Regs
<1>8. a \in {<<>>} \cup Moments
  <2>1. <<time, century>> \in Moments
    BY <1>2 DEF IInv, TypeInv, Moments
  <2> QED BY <1>2, <2>1 DEF Calls
<1>9. ~top.torn => \A h \in D : r[h] = Shown(h, a[1], mode)
  <2>1. CASE f = "s"
    <3>1. a = <<time, century>> /\ D = {f}
      BY <1>4, <2>1, EmptyRegs
    <3> QED BY <3>1
  <2>2. CASE f # "s"
    <3>1. a = top.at /\ f \in {"m", "h", "d", "mo", "y"}
      BY <1>1, <1>4, <2>2, Names
    <3>2. ~top.torn => /\ a[1] = time
                       /\ \A h \in DOMAIN top.regs :
                            top.regs[h] = Shown(h, a[1], mode)
      BY <1>2, <3>1 DEF ReadSoFar
    <3> QED BY <3>2
  <2> QED BY <2>1, <2>2
<1>10. a \in Moments /\ (~top.torn => a[1] = time)
  <2>1. CASE f = "s"
    BY <1>2, <1>4, <2>1 DEF IInv, TypeInv, Moments
  <2>2. CASE f # "s"
    <3>1. a = top.at /\ f \in {"m", "h", "d", "mo", "y"}
      BY <1>1, <1>4, <2>2, Names
    <3> QED BY <1>2, <3>1 DEF ReadSoFar
  <2> QED BY <2>1, <2>2
<1> HIDE DEF D, r, a, f, g
<1>11. /\ x \in Calls /\ x.pc = g /\ x.irq = top.irq
       /\ x.regs = r /\ x.at = a /\ x.torn = top.torn
  BY <1>2, <1>3, <1>7, <1>8 DEF Calls
<1> HIDE DEF x
<1>12. ReadSoFar(x, time)
  BY <1>3, <1>4, <1>7, <1>9, <1>10, <1>11 DEF ReadSoFar
<1>13. Beyond(x) /\ x.pc # "stub" /\ (x.irq # Rtc => x.pc = "run")
  BY <1>2, <1>3, <1>11 DEF Beyond
<1>14. stack' \in Seq(Calls) /\ Nested' /\ InService' /\ ByteWaits' /\ Read'
  BY <1>1, <1>2, <1>11, <1>12, <1>13, TopGoesOn DEF chip, bytes
<1>15. TypeInv' /\ EpochRight'
  BY <1>1, <1>14 DEF IInv, TypeInv, EpochRight, chip, bytes, store
<1> QED BY <1>14, <1>15 DEF IInv

LEMMA SetEpochKeeps ==
  ASSUME IInv, SetEpoch
  PROVE  IInv'
<1> DEFINE x == [top EXCEPT !.pc = "fattime"]
<1>1. /\ stack # <<>> /\ top.pc = "epoch" /\ stack' = Append(below, x)
      /\ epoch' = to_epoch(rtc_read(top.regs, mode))
      /\ source' = <<[at |-> top.at, torn |-> top.torn]>>
      /\ UNCHANGED <<chip, flag, bytes, irr, isr, enabled, fattime, raced>>
  BY DEF SetEpoch, GoTo, pic
<1>2. /\ top \in Calls /\ isr = {} /\ ReadSoFar(top, time) /\ top.irq = Rtc
      /\ mode \in Modes
  BY <1>1, OnTop DEF IInv, TypeInv
<1>3. /\ x \in Calls /\ x.pc = "fattime" /\ x.irq = top.irq
      /\ x.regs = top.regs /\ x.at = top.at /\ x.torn = top.torn
  BY <1>2, Moved, Names
<1> HIDE DEF x
<1>4. SeenAt["epoch"] = Field /\ SeenAt["fattime"] = Field
  BY DEF SeenAt
<1>5. /\ DOMAIN top.regs = Field /\ top.at \in Moments
      /\ ~top.torn => \A f \in Field : top.regs[f] = Shown(f, top.at[1], mode)
  BY <1>1, <1>2, <1>4 DEF ReadSoFar
<1>6. ReadSoFar(x, time)
  BY <1>3, <1>4, <1>5 DEF ReadSoFar
<1>7. Beyond(x) /\ x.pc # "stub" /\ (x.irq # Rtc => x.pc = "run")
  BY <1>2, <1>3 DEF Beyond
<1>8. stack' \in Seq(Calls) /\ Nested' /\ InService' /\ ByteWaits' /\ Read'
  BY <1>1, <1>2, <1>3, <1>6, <1>7, TopGoesOn DEF chip, bytes
<1>9. EpochRight'
  <2>1. CASE top.torn
    BY <1>1, <2>1 DEF EpochRight
  <2>2. CASE ~top.torn
    <3> DEFINE t == top.at[1]
    <3>1. t \in Times /\ t \in Clocks
      BY <1>5, InCalendar DEF Moments
    <3>2. top.regs = Registers(t, mode)
      <4>1. top.regs = [f \in Field |-> top.regs[f]]
        BY <1>2, <1>5 DEF Calls, Regs
      <4>2. Registers(t, mode) = [f \in Field |-> Shown(f, t, mode)]
        BY DEF Registers, Field, Fields
      <4> QED BY <1>5, <2>2, <4>1, <4>2
    <3> HIDE DEF t
    <3>3. epoch' = <<DayNumber(t) - Missing(t), Second(Understood(t, mode))>>
      BY <1>1, <1>2, <3>1, <3>2, ReadingConverted
    <3> QED BY <1>1, <3>3 DEF EpochRight, chip, t
  <2> QED BY <2>1, <2>2
<1>10. TypeInv'
  BY <1>1, <1>8 DEF IInv, TypeInv, chip, bytes
<1> QED BY <1>8, <1>9, <1>10 DEF IInv

LEMMA SetFatTimeKeeps ==
  ASSUME IInv, SetFatTime
  PROVE  IInv'
<1> DEFINE x == [top EXCEPT !.pc = "iret"]
<1>1. /\ stack # <<>> /\ top.pc = "fattime" /\ stack' = Append(below, x)
      /\ raced' \in BOOLEAN
      /\ UNCHANGED <<chip, flag, bytes, irr, isr, enabled, epoch, source>>
  BY DEF SetFatTime, GoTo, pic
<1>2. top \in Calls /\ isr = {} /\ top.irq = Rtc
  BY <1>1, OnTop
<1>3. x \in Calls /\ x.pc = "iret" /\ x.irq = top.irq
  BY <1>2, Moved, Names
<1> HIDE DEF x
<1>4. /\ ReadSoFar(x, time)
      /\ Beyond(x) /\ x.pc # "stub" /\ (x.irq # Rtc => x.pc = "run")
  BY <1>2, <1>3 DEF ReadSoFar, Beyond
<1>5. stack' \in Seq(Calls) /\ Nested' /\ InService' /\ ByteWaits' /\ Read'
  BY <1>1, <1>2, <1>3, <1>4, TopGoesOn DEF chip, bytes
<1>6. TypeInv' /\ EpochRight'
  BY <1>1, <1>5 DEF IInv, TypeInv, EpochRight, chip, bytes
<1> QED BY <1>5, <1>6 DEF IInv

LEMMA StutterKeeps ==
  ASSUME IInv, UNCHANGED vars
  PROVE  IInv'
BY DEF IInv, TypeInv, Nested, InService, ByteWaits, Read, ReadSoFar,
       EpochRight, Beyond, vars, chip, bytes, pic, store

LEMMA NextKeeps == IInv /\ [Next]_vars => IInv'
<1> SUFFICES ASSUME IInv, [Next]_vars PROVE IInv'
  OBVIOUS
<1>1. CASE Tick
  BY <1>1, TickKeeps
<1>2. CASE TimerTick \/ KeyByte
  BY <1>2, DevicesKeep
<1>3. CASE Handler
  BY <1>3, AcknowledgeKeeps, ReturnsKeep, ReadStatusKeeps, ReadFieldKeeps,
     SetEpochKeeps, SetFatTimeKeeps DEF Handler
<1>4. CASE Interrupt
  BY <1>4, DeliverKeeps DEF Interrupt
<1>5. CASE Quiet \/ UNCHANGED vars
  BY <1>5, StutterKeeps DEF Quiet
<1> QED BY <1>1, <1>2, <1>3, <1>4, <1>5 DEF Next

LEMMA Invariance == Spec => []IInv
BY InitKeeps, NextKeeps, PTL DEF Spec

-----------------------------------------------------------------------------
\* Every variable keeps its range, and in service is exactly what has not been
\* acknowledged, for any starting time and any number of interrupts
\* (intr.asm:133-176).
THEOREM InterruptsTyped == Spec => []TypeOK
<1>1. IInv => TypeOK
  <2> SUFFICES ASSUME IInv PROVE TypeOK
    OBVIOUS
  <2>1. DOMAIN stack = 1 .. Len(stack) /\ Len(stack) \in Nat
    BY LenProperties DEF IInv, TypeInv
  <2>2. ASSUME NEW k \in 1 .. Len(stack)
        PROVE  IsCall(stack[k])
    <3>1. stack[k] \in Calls
      BY ElementOfSeq DEF IInv, TypeInv
    <3>2. stack[k].regs \in Regs /\ stack[k].at \in {<<>>} \cup Moments
      BY <3>1 DEF Calls
    <3>3. stack[k].at \in {<<>>} \cup Times \X Nat
      BY <3>2 DEF Moments
    <3>4. /\ DOMAIN stack[k].regs \subseteq Field
          /\ \A f \in DOMAIN stack[k].regs : stack[k].regs[f] \in 0 .. 255
      BY <3>2 DEF Regs
    <3> QED BY <3>1, <3>3, <3>4 DEF IsCall, Calls
  <2>3. isr = UNION {Bits(stack[k].irq) : k \in {l \in DOMAIN stack :
                                                   stack[l].pc = "stub"}}
    <3>1. ASSUME NEW k \in 1 .. Len(stack), stack[k].pc = "stub"
          PROVE  k = Len(stack)
      <4>1. ~(k < Len(stack))
        BY <3>1 DEF IInv, Nested, Beyond
      <4>2. Len(stack) \in Nat
        BY <2>1
      <4> QED BY <4>1, <4>2
    <3>2. stack # <<>> <=> Len(stack) \in 1 .. Len(stack)
      BY <2>1, EmptySeq DEF IInv, TypeInv
    <3>3. CASE stack # <<>> /\ stack[Len(stack)].pc = "stub"
      <4>1. {l \in DOMAIN stack : stack[l].pc = "stub"} = {Len(stack)}
        BY <2>1, <3>1, <3>2, <3>3
      <4>2. isr = Bits(stack[Len(stack)].irq)
        BY <3>3 DEF IInv, InService
      <4> QED BY <4>1, <4>2
    <3>4. CASE ~(stack # <<>> /\ stack[Len(stack)].pc = "stub")
      <4>1. {l \in DOMAIN stack : stack[l].pc = "stub"} = {}
        BY <2>1, <3>1, <3>2, <3>4
      <4>2. isr = {}
        BY <3>4 DEF IInv, InService
      <4> QED BY <4>1, <4>2
    <3> QED BY <3>3, <3>4
  <2> QED BY <2>1, <2>2, <2>3 DEF IInv, TypeInv, TypeOK, Modes
<1> QED BY <1>1, Invariance, PTL

\* However interrupts nest, only the clock's handler is ever interrupted, and
\* only behind its first get_cmos (intr.c:26-28, cmos_low.asm:6-15).
THEOREM OnlyTheClocks == Spec => []OnlyClockInterrupted
<1>1. IInv => OnlyClockInterrupted
  <2> SUFFICES ASSUME IInv, NEW k \in 1 .. Len(stack) - 1
               PROVE  Beyond(stack[k])
    BY DEF OnlyClockInterrupted, Beyond
  <2>1. Len(stack) \in Nat
    BY LenProperties DEF IInv, TypeInv
  <2> QED BY <2>1 DEF IInv, Nested
<1> QED BY <1>1, Invariance, PTL

\* From any time of the century, in any mode and however its handler is
\* interrupted, epoch is right but where the conversion itself is wrong and
\* after a second during the reading (cmos.c:13-56).
THEOREM EpochIsRight == Spec => []EpochRight
<1>1. IInv => EpochRight
  BY DEF IInv
<1> QED BY <1>1, Invariance, PTL

-----------------------------------------------------------------------------
\* fattime is stored behind epoch by a handler that another may interrupt in
\* between.  A handler that is alone on the stack has the reading epoch is from
\* until it has stored fattime; handlers that have raced leave none that is.
Readings == [Field -> Nat]

Lonely == \A k \in 1 .. Len(stack) : stack[k].irq = Rtc =>
  /\ stack[k].alone =>
       \A j \in 1 .. Len(stack) : stack[j].irq = Rtc => j = k
  /\ ~raced => stack[k].alone
  /\ stack[k].alone /\ stack[k].pc = "fattime" =>
       epoch = to_epoch(rtc_read(stack[k].regs, mode))

Stored ==
  ~raced /\ source # <<>>
  /\ (\A k \in 1 .. Len(stack) : stack[k].pc # "fattime") =>
    \E r \in Readings : epoch = to_epoch(r) /\ fattime = FatTime(r)

FatInv == Lonely /\ Stored

\* A byte is understood as a number, whatever it holds and whatever the mode.
LEMMA HoursNumber ==
  ASSUME NEW x \in 0 .. 255, NEW md \in Modes
  PROVE  BCD2BIN(x) \in Nat /\ Hours(x, md) \in Nat
<1>1. \A z \in Nat : BCD2BIN(z) \in Nat
  BY DEF BCD2BIN
<1>2. Noon(x, 32) \in 0 .. 255 /\ Noon(x, 16) \in 0 .. 255
  BY DEF Noon
<1>3. \A z \in 0 .. 255 : z % 32 \in Nat /\ z % 16 \in Nat /\ z \in Nat
  OBVIOUS
<1>4. BCD2BIN(Noon(x, 32) % 32) \in Nat /\ x \in Nat /\ Noon(x, 16) \in Nat
  BY <1>1, <1>2, <1>3
<1> DEFINE z == IF md.bcd THEN BCD2BIN(Noon(x, 32) % 32) ELSE Noon(x, 16)
<1>5. z \in Nat /\ z + 12 \in Nat /\ (z % 16) + 12 \in Nat
  <2>1. z \in Nat
    BY <1>4
  <2> HIDE DEF z
  <2> QED BY <2>1
<1>6. Hours(x, md) = IF md.h24 THEN (IF md.bcd THEN BCD2BIN(x) ELSE x)
                     ELSE IF z < 128 THEN z
                     ELSE IF md.bcd THEN z + 12 ELSE (z % 16) + 12
  BY DEF Hours
<1> HIDE DEF z
<1>7. Hours(x, md) \in Nat
  BY <1>1, <1>4, <1>5, <1>6
<1> QED BY <1>1, <1>4, <1>7

LEMMA ReadingNumbers ==
  ASSUME NEW g \in [Field -> 0 .. 255], NEW md \in Modes
  PROVE  rtc_read(g, md) \in Readings
<1>1. \A f \in Field : g[f] \in 0 .. 255 /\ g[f] \in Nat
  OBVIOUS
<1>2. \A f \in Field : BCD2BIN(g[f]) \in Nat /\ Hours(g[f], md) \in Nat
  BY <1>1, HoursNumber
<1>3. DOMAIN g = Field
  OBVIOUS
<1> QED BY <1>1, <1>2, <1>3 DEF rtc_read, Readings

\* Two seconds of fattime are one of epoch and the next (cmos.c:63-66).
LEMMA FatTimeIsEpoch ==
  ASSUME NEW r \in Readings
  PROVE  LET e == to_epoch(r)
             f == FatTime(r)
         IN  /\ Days(f.d, f.mo, f.y - 20) = e[1]
             /\ e[2] - (3600 * f.h + 60 * f.m + 2 * f.s) \in {0, 1}
<1> DEFINE y == FatYear(r.y)
           s == r.s \div 2
           f == [r EXCEPT !.y = y, !.s = s]
<1>1. DOMAIN r = {"s", "m", "h", "d", "mo", "y"}
  BY Names DEF Readings
<1>2. /\ r.s \in Nat /\ r.m \in Nat /\ r.h \in Nat /\ r.d \in Nat
      /\ r.mo \in Nat /\ r.y \in Nat
  BY Names DEF Readings
<1>3. y - 20 = r.y
  BY <1>2 DEF FatYear
<1>4. r.s - 2 * s \in {0, 1} /\ s \in Nat
  <2>1. \A k \in Nat : k - 2 * (k \div 2) \in {0, 1} /\ k \div 2 \in Nat
    OBVIOUS
  <2> QED BY <1>2, <2>1
<1>5. FatTime(r) = f
  BY DEF FatTime
<1>6. to_epoch(r)[1] = Days(r.d, r.mo, r.y)
      /\ to_epoch(r)[2] = r.s + r.m * 60 + r.h * 3600
  BY DEF to_epoch
<1> HIDE DEF y, s
<1>7. /\ f.d = r.d /\ f.mo = r.mo /\ f.h = r.h /\ f.m = r.m
      /\ f.y = y /\ f.s = s
  BY <1>1
<1> HIDE DEF f
<1>8. Days(f.d, f.mo, f.y - 20) = Days(r.d, r.mo, r.y)
  BY <1>3, <1>7
<1>9. (r.s + r.m * 60 + r.h * 3600) - (3600 * f.h + 60 * f.m + 2 * f.s)
        \in {0, 1}
  BY <1>2, <1>4, <1>7
<1> QED BY <1>5, <1>6, <1>8, <1>9

LEMMA StoredFollows ==
  ASSUME IInv, Stored
  PROVE  FatTimeFollows
<1> SUFFICES ASSUME ~raced, source # <<>>,
                    \A k \in DOMAIN stack : stack[k].pc # "fattime"
             PROVE  /\ Days(fattime.d, fattime.mo, fattime.y - 20) = epoch[1]
                    /\ epoch[2] - (3600 * fattime.h + 60 * fattime.m
                                     + 2 * fattime.s) \in {0, 1}
  BY DEF FatTimeFollows
<1>1. DOMAIN stack = 1 .. Len(stack)
  BY LenProperties DEF IInv, TypeInv
<1>2. PICK r \in Readings : epoch = to_epoch(r) /\ fattime = FatTime(r)
  BY <1>1 DEF Stored
<1> QED BY <1>2, FatTimeIsEpoch

\* A step that stores nothing, starts nothing and ends nothing.
LEMMA FatWaits ==
  ASSUME FatInv, Len(stack') = Len(stack),
         UNCHANGED <<mode, epoch, fattime, source>>, raced' <=> raced,
         \A k \in 1 .. Len(stack) :
           /\ stack'[k].irq = stack[k].irq
           /\ stack'[k].alone <=> stack[k].alone
           /\ stack'[k].pc = "fattime" <=> stack[k].pc = "fattime"
           /\ stack[k].pc = "fattime" => stack'[k].regs = stack[k].regs
  PROVE  FatInv'
<1>1. Lonely'
  BY DEF FatInv, Lonely
<1>2. Stored'
  BY DEF FatInv, Stored
<1> QED BY <1>1, <1>2 DEF FatInv

\* The handler on top goes on to a step that is not in between.
LEMMA FatTopGoesOn ==
  ASSUME IInv, FatInv, stack # <<>>, top.pc # "fattime",
         NEW x \in Calls, stack' = Append(below, x),
         x.irq = top.irq, x.alone <=> top.alone, x.pc # "fattime",
         UNCHANGED <<mode, epoch, fattime, source>>, raced' <=> raced
  PROVE  FatInv'
<1>1. stack \in Seq(Calls) /\ Len(stack) \in Nat \ {0}
      /\ top = stack[Len(stack)]
  BY OnTop DEF IInv, TypeInv
<1>2. /\ Len(stack') = Len(stack) /\ stack'[Len(stack)] = x
      /\ \A k \in 1 .. Len(stack) - 1 : stack'[k] = stack[k]
  <2>1. stack' = Append(SubSeq(stack, 1, Len(stack) - 1), x)
    BY DEF below
  <2> QED BY <1>1, <2>1, Replaced
<1>3. \A k \in 1 .. Len(stack) : k \in 1 .. Len(stack) - 1 \/ k = Len(stack)
  BY <1>1
<1>4. ASSUME NEW k \in 1 .. Len(stack)
      PROVE  /\ stack'[k].irq = stack[k].irq
             /\ stack'[k].alone <=> stack[k].alone
             /\ stack'[k].pc = "fattime" <=> stack[k].pc = "fattime"
             /\ stack[k].pc = "fattime" => stack'[k].regs = stack[k].regs
  <2>1. CASE k \in 1 .. Len(stack) - 1
    BY <1>2, <2>1
  <2>2. CASE k = Len(stack)
    BY <1>1, <1>2, <2>2
  <2> QED BY <1>3, <2>1, <2>2
<1> QED BY <1>2, <1>4, FatWaits

\* The handler on top returns.
LEMMA FatTopReturns ==
  ASSUME IInv, FatInv, stack # <<>>, top.pc # "fattime", stack' = below,
         UNCHANGED <<mode, epoch, fattime, source>>, raced' <=> raced
  PROVE  FatInv'
<1>1. stack \in Seq(Calls) /\ Len(stack) \in Nat \ {0}
      /\ top = stack[Len(stack)]
  BY OnTop DEF IInv, TypeInv
<1>2. /\ Len(stack') = Len(stack) - 1
      /\ \A k \in 1 .. Len(stack) - 1 : stack'[k] = stack[k]
  BY <1>1, Below DEF below
<1>3. \A k \in 1 .. Len(stack) - 1 : k \in 1 .. Len(stack)
  BY <1>1
<1>4. \A k \in 1 .. Len(stack) : k \in 1 .. Len(stack) - 1 \/ k = Len(stack)
  BY <1>1
<1>5. Lonely'
  BY <1>2, <1>3 DEF FatInv, Lonely
<1>6. Stored'
  <2> SUFFICES ASSUME ~raced, source # <<>>,
                      \A k \in 1 .. Len(stack) - 1 : stack[k].pc # "fattime"
               PROVE  \E r \in Readings : epoch = to_epoch(r)
                                          /\ fattime = FatTime(r)
    BY <1>2 DEF Stored
  <2>1. \A k \in 1 .. Len(stack) : stack[k].pc # "fattime"
    BY <1>1, <1>4
  <2> QED BY <2>1 DEF FatInv, Stored
<1> QED BY <1>5, <1>6 DEF FatInv

\* What is put on a stack of calls to make one is a call.
LEMMA LastIsCall ==
  ASSUME NEW st \in Seq(Calls), NEW c, Append(st, c) \in Seq(Calls)
  PROVE  c \in Calls
<1> DEFINE n == Len(st)
<1>1. st \in Seq(Calls \cup {c}) /\ c \in Calls \cup {c}
  <2>1. n \in Nat /\ DOMAIN st = 1 .. n /\ st \in [1 .. n -> Calls]
    BY LenProperties
  <2>2. st \in [1 .. n -> Calls \cup {c}]
    BY <2>1
  <2> QED BY <2>1, <2>2, SeqDef
<1>2. Len(Append(st, c)) = n + 1 /\ Append(st, c)[n + 1] = c /\ n \in Nat
  BY <1>1, AppendProperties, LenProperties
<1>3. n + 1 \in 1 .. Len(Append(st, c))
  BY <1>2
<1> QED BY <1>2, <1>3, ElementOfSeq

LEMMA TickFat ==
  ASSUME IInv, FatInv, Tick
  PROVE  FatInv'
<1>1. /\ UNCHANGED <<mode, epoch, fattime, source, raced>>
      /\ stack' = [k \in DOMAIN stack |->
                     [stack[k] EXCEPT !.torn = @ \/ Midway(stack[k])]]
  BY DEF Tick, store
<1>2. stack \in Seq(Calls) /\ Len(stack) \in Nat
      /\ DOMAIN stack = 1 .. Len(stack)
  BY LenProperties DEF IInv, TypeInv
<1>3. ASSUME NEW k \in 1 .. Len(stack)
      PROVE  /\ stack'[k].irq = stack[k].irq
             /\ stack'[k].alone <=> stack[k].alone
             /\ stack'[k].pc = stack[k].pc /\ stack'[k].regs = stack[k].regs
  <2> DEFINE b == stack[k].torn \/ Midway(stack[k])
  <2>1. stack[k] \in Calls
    BY <1>2, ElementOfSeq
  <2>2. stack'[k] = [stack[k] EXCEPT !.torn = b]
    BY <1>1, <1>2
  <2> HIDE DEF b
  <2> QED BY <2>1, <2>2 DEF Calls
<1>4. stack' \in Seq(Calls)
  <2>1. IInv'
    BY TickKeeps
  <2> QED BY <2>1 DEF IInv, TypeInv
<1>5. Len(stack') = Len(stack)
  <2>1. DOMAIN stack' = 1 .. Len(stack)
    BY <1>1, <1>2
  <2> QED BY <1>2, <1>4, <2>1, LenProperties
<1> QED BY <1>1, <1>3, <1>5, FatWaits

LEMMA DeliverFat ==
  ASSUME IInv, FatInv, NEW i \in Irqs, Deliver(i)
  PROVE  FatInv'
<1> DEFINE f == [k \in DOMAIN stack |->
                   [stack[k] EXCEPT !.alone = @ /\ i # Rtc]]
           x == Called(i)
           n == Len(stack)
<1>1. stack \in Seq(Calls) /\ n \in Nat /\ DOMAIN stack = 1 .. n
      /\ DOMAIN f = 1 .. n
  BY LenProperties DEF IInv, TypeInv
<1>2. ASSUME NEW k \in 1 .. n
      PROVE  /\ f[k] \in Calls
             /\ f[k].irq = stack[k].irq /\ f[k].pc = stack[k].pc
             /\ f[k].regs = stack[k].regs
             /\ f[k].alone <=> stack[k].alone /\ i # Rtc
  <2> DEFINE b == stack[k].alone /\ i # Rtc
  <2>1. stack[k] \in Calls
    BY <1>1, ElementOfSeq
  <2>2. b \in BOOLEAN
    OBVIOUS
  <2>3. f[k] = [stack[k] EXCEPT !.alone = b]
    BY <1>1
  <2> HIDE DEF b, f
  <2>4. /\ f[k] \in Calls /\ f[k].alone = b
        /\ f[k].irq = stack[k].irq /\ f[k].pc = stack[k].pc
        /\ f[k].regs = stack[k].regs
    BY <2>1, <2>2, <2>3 DEF Calls
  <2> QED BY <2>4 DEF b
<1>3. f \in Seq(Calls) /\ Len(f) = n
  <2>1. f = [k \in 1 .. n |-> f[k]]
    BY <1>1
  <2> HIDE DEF f
  <2>2. f \in [1 .. n -> Calls]
    BY <1>2, <2>1
  <2>3. f \in Seq(Calls)
    BY <1>1, <2>2, SeqDef
  <2> QED BY <1>1, <2>2, <2>3, LenProperties
<1>4. /\ stack' = Append(f, x)
      /\ raced' <=> (raced \/ (i = Rtc /\ ClockCalls(stack) # {}))
      /\ UNCHANGED <<mode, epoch, fattime, source>>
  BY DEF Deliver, chip
<1>5. /\ x.irq = i /\ x.pc = "stub"
      /\ x.alone <=> ClockCalls(stack) = {}
  BY DEF Called
<1>6. ClockCalls(stack) = {} <=> \A k \in 1 .. n : stack[k].irq # Rtc
  BY <1>1 DEF ClockCalls
<1>7. x \in Calls
  <2>1. IInv'
    BY DeliverKeeps
  <2>2. Append(f, x) \in Seq(Calls)
    BY <1>4, <2>1 DEF IInv, TypeInv
  <2> QED BY <1>3, <2>2, LastIsCall
<1> HIDE DEF f, x
<1>8. /\ Len(stack') = n + 1 /\ stack'[n + 1] = x
      /\ \A k \in 1 .. n : stack'[k] = f[k]
  BY <1>1, <1>3, <1>4, <1>7, AppendProperties
<1> HIDE DEF n
<1>9. \A k \in 1 .. n + 1 : k \in 1 .. n \/ k = n + 1
  BY <1>1
<1>10. \A k \in 1 .. n : k # n + 1 /\ k \in 1 .. n + 1
  BY <1>1
<1>11. Lonely'
  <2> SUFFICES ASSUME NEW k \in 1 .. n + 1, stack'[k].irq = Rtc
               PROVE  /\ stack'[k].alone =>
                           \A j \in 1 .. n + 1 : stack'[j].irq = Rtc => j = k
                      /\ ~raced' => stack'[k].alone
                      /\ stack'[k].alone /\ stack'[k].pc = "fattime" =>
                           epoch = to_epoch(rtc_read(stack'[k].regs, mode))
    BY <1>4, <1>8 DEF Lonely
  <2>1. CASE k \in 1 .. n
    <3>1. stack[k].irq = Rtc /\ (stack'[k].alone <=> stack[k].alone /\ i # Rtc)
          /\ stack'[k].pc = stack[k].pc /\ stack'[k].regs = stack[k].regs
      BY <1>2, <1>8, <2>1
    <3>2. /\ stack[k].alone =>
               \A j \in 1 .. n : stack[j].irq = Rtc => j = k
          /\ ~raced => stack[k].alone
          /\ stack[k].alone /\ stack[k].pc = "fattime" =>
               epoch = to_epoch(rtc_read(stack[k].regs, mode))
      BY <2>1, <3>1 DEF FatInv, Lonely, n
    <3>3. ~raced' => ~raced /\ i # Rtc
      BY <1>4, <1>6, <2>1, <3>1
    <3>4. ASSUME stack'[k].alone, NEW j \in 1 .. n + 1, stack'[j].irq = Rtc
          PROVE  j = k
      <4>1. j # n + 1
        BY <1>5, <1>8, <3>1, <3>4
      <4>2. j \in 1 .. n /\ stack[j].irq = Rtc
        BY <1>2, <1>8, <1>9, <3>4, <4>1
      <4> QED BY <3>1, <3>2, <3>4, <4>2
    <3> QED BY <3>1, <3>2, <3>3, <3>4
  <2>2. CASE k = n + 1
    <3>1. stack'[k] = x /\ i = Rtc
      BY <1>5, <1>8, <2>2
    <3>2. ASSUME ClockCalls(stack) = {}, NEW j \in 1 .. n + 1,
                 stack'[j].irq = Rtc
          PROVE  j = k
      BY <1>2, <1>6, <1>8, <1>9, <2>2, <3>2
    <3> QED BY <1>4, <1>5, <3>1, <3>2
  <2> QED BY <1>9, <2>1, <2>2
<1>12. Stored'
  <2> SUFFICES ASSUME ~raced', source # <<>>,
                      \A k \in 1 .. n + 1 : stack'[k].pc # "fattime"
               PROVE  \E r \in Readings : epoch = to_epoch(r)
                                          /\ fattime = FatTime(r)
    BY <1>4, <1>8 DEF Stored
  <2>1. ~raced
    BY <1>4
  <2>2. \A k \in 1 .. n : stack[k].pc # "fattime"
    BY <1>2, <1>8, <1>10
  <2> QED BY <2>1, <2>2 DEF FatInv, Stored, n
<1> QED BY <1>11, <1>12 DEF FatInv

LEMMA SetEpochFat ==
  ASSUME IInv, FatInv, SetEpoch
  PROVE  FatInv'
<1> DEFINE x == [top EXCEPT !.pc = "fattime"]
           n == Len(stack)
<1>1. /\ stack # <<>> /\ top.pc = "epoch" /\ stack' = Append(below, x)
      /\ epoch' = to_epoch(rtc_read(top.regs, mode))
      /\ UNCHANGED <<mode, raced>>
  BY DEF SetEpoch, GoTo, chip
<1>2. /\ stack \in Seq(Calls) /\ n \in Nat \ {0} /\ top = stack[n]
      /\ top \in Calls /\ top.irq = Rtc
  BY <1>1, OnTop DEF IInv, TypeInv
<1>3. /\ x \in Calls /\ x.pc = "fattime" /\ x.irq = Rtc
      /\ x.regs = top.regs /\ (x.alone <=> top.alone)
  <2>1. "fattime" \in Steps
    BY Names
  <2> QED BY <1>2, <2>1 DEF Calls
<1> HIDE DEF x
<1>4. /\ Len(stack') = n /\ stack'[n] = x
      /\ \A k \in 1 .. n - 1 : stack'[k] = stack[k]
  <2>1. stack' = Append(SubSeq(stack, 1, Len(stack) - 1), x)
    BY <1>1 DEF below
  <2> QED BY <1>1, <1>2, <1>3, <2>1, Replaced
<1> HIDE DEF n
<1>5. /\ \A k \in 1 .. n : k \in 1 .. n - 1 \/ k = n
      /\ \A k \in 1 .. n - 1 : k # n
      /\ n \in 1 .. n
  BY <1>2
<1>6. ASSUME NEW k \in 1 .. n
      PROVE  /\ stack'[k].irq = stack[k].irq
             /\ stack'[k].alone <=> stack[k].alone
             /\ k # n => stack'[k] = stack[k]
  BY <1>2, <1>3, <1>4, <1>5
<1>7. Lonely'
  <2> SUFFICES ASSUME NEW k \in 1 .. n, stack'[k].irq = Rtc
               PROVE  /\ stack'[k].alone =>
                           \A j \in 1 .. n : stack'[j].irq = Rtc => j = k
                      /\ ~raced => stack'[k].alone
                      /\ stack'[k].alone /\ stack'[k].pc = "fattime" =>
                           epoch' = to_epoch(rtc_read(stack'[k].regs, mode))
    BY <1>1, <1>4 DEF Lonely
  <2>1. stack[k].irq = Rtc
    BY <1>6
  <2>2. /\ stack[k].alone => \A j \in 1 .. n : stack[j].irq = Rtc => j = k
        /\ ~raced => stack[k].alone
    BY <2>1 DEF FatInv, Lonely, n
  <2>3. stack'[k].alone => k = n
    BY <1>2, <1>5, <1>6, <2>2
  <2> QED BY <1>1, <1>3, <1>4, <1>6, <2>2, <2>3
<1>8. Stored'
  BY <1>3, <1>4, <1>5 DEF Stored
<1> QED BY <1>7, <1>8 DEF FatInv

LEMMA SetFatTimeFat ==
  ASSUME IInv, FatInv, SetFatTime
  PROVE  FatInv'
<1> DEFINE x == [top EXCEPT !.pc = "iret"]
           n == Len(stack)
           R == rtc_read(top.regs, mode)
<1>1. /\ stack # <<>> /\ top.pc = "fattime" /\ stack' = Append(below, x)
      /\ fattime' = FatTime(R)
      /\ raced' <=> (raced /\ ~top.alone)
      /\ UNCHANGED <<mode, epoch, source>>
  BY DEF SetFatTime, GoTo, chip
<1>2. /\ stack \in Seq(Calls) /\ n \in Nat \ {0} /\ top = stack[n]
      /\ top \in Calls /\ top.irq = Rtc /\ mode \in Modes
      /\ ReadSoFar(top, time)
  BY <1>1, OnTop DEF IInv, TypeInv
<1>3. /\ x \in Calls /\ x.pc = "iret" /\ x.irq = Rtc
      /\ (x.alone <=> top.alone)
  <2>1. "iret" \in Steps
    BY Names
  <2> QED BY <1>2, <2>1 DEF Calls
<1>4. R \in Readings
  <2>1. DOMAIN top.regs = Field
    BY <1>1, <1>2 DEF ReadSoFar, SeenAt
  <2>2. top.regs \in [DOMAIN top.regs -> 0 .. 255]
    <3>1. top.regs \in Regs
      BY <1>2 DEF Calls
    <3> QED BY <3>1 DEF Regs
  <2>3. top.regs \in [Field -> 0 .. 255]
    BY <2>1, <2>2
  <2> QED BY <1>2, <2>3, ReadingNumbers
<1> HIDE DEF x
<1>5. /\ Len(stack') = n /\ stack'[n] = x
      /\ \A k \in 1 .. n - 1 : stack'[k] = stack[k]
  <2>1. stack' = Append(SubSeq(stack, 1, Len(stack) - 1), x)
    BY <1>1 DEF below
  <2> QED BY <1>1, <1>2, <1>3, <2>1, Replaced
<1>6. top.alone => epoch = to_epoch(R)
  <2>1. n \in 1 .. n
    BY <1>2
  <2> QED BY <1>1, <1>2, <2>1 DEF FatInv, Lonely
<1>7. ~raced => top.alone
  <2>1. n \in 1 .. n
    BY <1>2
  <2> QED BY <1>2, <2>1 DEF FatInv, Lonely
<1> HIDE DEF n, R
<1>8. /\ \A k \in 1 .. n : k \in 1 .. n - 1 \/ k = n
      /\ \A k \in 1 .. n - 1 : k # n
      /\ n \in 1 .. n
  BY <1>2
<1>9. ASSUME NEW k \in 1 .. n
      PROVE  /\ stack'[k].irq = stack[k].irq
             /\ stack'[k].alone <=> stack[k].alone
             /\ k # n => stack'[k] = stack[k]
  BY <1>2, <1>3, <1>5, <1>8
<1>10. Lonely'
  <2> SUFFICES ASSUME NEW k \in 1 .. n, stack'[k].irq = Rtc
               PROVE  /\ stack'[k].alone =>
                           \A j \in 1 .. n : stack'[j].irq = Rtc => j = k
                      /\ ~raced' => stack'[k].alone
                      /\ stack'[k].alone /\ stack'[k].pc = "fattime" =>
                           epoch = to_epoch(rtc_read(stack'[k].regs, mode))
    BY <1>1, <1>5 DEF Lonely
  <2>1. stack[k].irq = Rtc
    BY <1>9
  <2>2. /\ stack[k].alone => \A j \in 1 .. n : stack[j].irq = Rtc => j = k
        /\ ~raced => stack[k].alone
        /\ stack[k].alone /\ stack[k].pc = "fattime" =>
             epoch = to_epoch(rtc_read(stack[k].regs, mode))
    BY <2>1 DEF FatInv, Lonely, n
  <2>3. top.alone => k = n
    <3>1. top.alone => \A j \in 1 .. n : stack[j].irq = Rtc => j = n
      BY <1>2, <1>8 DEF FatInv, Lonely, n
    <3> QED BY <2>1, <3>1
  <2>4. ~raced' => stack'[k].alone
    BY <1>1, <1>3, <1>5, <1>9, <2>2, <2>3
  <2>5. stack'[k].pc = "fattime" => k # n
    BY <1>3, <1>5
  <2> QED BY <1>9, <2>2, <2>4, <2>5
<1>11. Stored'
  <2> SUFFICES ASSUME ~raced'
               PROVE  \E r \in Readings : epoch = to_epoch(r)
                                          /\ fattime' = FatTime(r)
    BY <1>1 DEF Stored
  <2>1. fattime' = FatTime(R)
    BY <1>1
  <2>2. top.alone
    BY <1>1, <1>7, Zenon
  <2>3. epoch = to_epoch(R)
    BY <1>6, <2>2
  <2> WITNESS R \in Readings
  <2> QED BY <2>1, <2>3
<1> QED BY <1>10, <1>11 DEF FatInv

LEMMA HandlersFat ==
  ASSUME IInv, FatInv, Acknowledge \/ ReadStatus \/ ReadField
  PROVE  FatInv'
<1> DEFINE p == IF flag THEN "s" ELSE "iret"
           g == After(top.pc)
           r == [h \in DOMAIN top.regs \cup {top.pc} |->
                   IF h = top.pc THEN Shown(top.pc, time, mode)
                   ELSE top.regs[h]]
           a == IF top.regs = <<>> THEN <<time, century>> ELSE top.at
<1>1. /\ stack # <<>> /\ top.pc # "fattime"
      /\ UNCHANGED <<mode, epoch, fattime, source, raced>>
  BY Names DEF Acknowledge, ReadStatus, ReadField, chip, store
<1>2. top \in Calls
  BY <1>1, OnTop
<1>3. PICK x : stack' = Append(below, x) /\ x.irq = top.irq
               /\ (x.alone <=> top.alone) /\ x.pc # "fattime"
  <2>1. CASE Acknowledge
    <3>1. stack' = Append(below, [top EXCEPT !.pc = "run"])
      BY <2>1 DEF Acknowledge, GoTo
    <3> QED BY <1>2, <3>1 DEF Calls
  <2>2. CASE ReadStatus
    <3>1. stack' = Append(below, [top EXCEPT !.pc = p])
      BY <2>2 DEF ReadStatus, GoTo
    <3>2. p # "fattime"
      OBVIOUS
    <3> HIDE DEF p
    <3> QED BY <1>2, <3>1, <3>2 DEF Calls
  <2>3. CASE ReadField
    <3> DEFINE y == [top EXCEPT !.pc = g, !.regs = r, !.at = a]
    <3>1. stack' = Append(below, y)
      BY <2>3 DEF ReadField
    <3>2. g # "fattime"
      BY DEF After
    <3> HIDE DEF g, r, a
    <3>3. y.irq = top.irq /\ (y.alone <=> top.alone) /\ y.pc = g
      BY <1>2 DEF Calls
    <3> HIDE DEF y
    <3> QED BY <3>1, <3>2, <3>3
  <2> QED BY <2>1, <2>2, <2>3
<1>4. x \in Calls
  <2>1. IInv'
    BY AcknowledgeKeeps, ReadStatusKeeps, ReadFieldKeeps
  <2>2. stack' \in Seq(Calls)
    BY <2>1 DEF IInv, TypeInv
  <2>3. below \in Seq(Calls)
    BY <1>1, Below DEF below, IInv, TypeInv
  <2> QED BY <1>3, <2>2, <2>3, LastIsCall
<1> QED BY <1>1, <1>3, <1>4, FatTopGoesOn

LEMMA FatInit == Init => FatInv
<1> SUFFICES ASSUME Init PROVE FatInv
  OBVIOUS
<1>1. stack = <<>> /\ Len(stack) = 0 /\ source = <<>>
  BY EmptySeq DEF Init
<1> QED BY <1>1 DEF FatInv, Lonely, Stored

LEMMA FatNext == IInv /\ FatInv /\ [Next]_vars => FatInv'
<1> SUFFICES ASSUME IInv, FatInv, [Next]_vars PROVE FatInv'
  OBVIOUS
<1>1. CASE Tick
  BY <1>1, TickFat
<1>2. CASE TimerTick \/ KeyByte \/ Quiet \/ UNCHANGED vars
  <2>1. UNCHANGED <<mode, epoch, fattime, source, raced, stack>>
    BY <1>2 DEF TimerTick, KeyByte, Quiet, vars, chip, store
  <2> QED BY <2>1, FatWaits
<1>3. CASE Acknowledge \/ ReadStatus \/ ReadField
  BY <1>3, HandlersFat
<1>4. CASE RunPlain \/ EndClock
  <2>1. /\ stack # <<>> /\ top.pc # "fattime" /\ stack' = below
        /\ UNCHANGED <<mode, epoch, fattime, source, raced>>
    BY <1>4 DEF RunPlain, EndClock, Return, chip, store
  <2> QED BY <2>1, FatTopReturns
<1>5. CASE SetEpoch
  BY <1>5, SetEpochFat
<1>6. CASE SetFatTime
  BY <1>6, SetFatTimeFat
<1>7. CASE Interrupt
  BY <1>7, DeliverFat DEF Interrupt
<1> QED BY <1>1, <1>2, <1>3, <1>4, <1>5, <1>6, <1>7 DEF Next, Handler

\* Where no handlers have interrupted each other, what the file system gets is
\* what epoch is, to two seconds, torn or not, from any time of the century, in
\* any mode and with any number of interrupts in between (cmos.c:63-66).
THEOREM FatTimeFollowsEpoch == Spec => []FatTimeFollows
<1>1. IInv /\ FatInv => FatTimeFollows
  BY StoredFollows DEF FatInv
<1> QED BY <1>1, InitKeeps, NextKeeps, FatInit, FatNext, PTL DEF Spec
-----------------------------------------------------------------------------
\* epoch goes back only as GoesBackExplained says.  The six registers of one
\* reading are read from the second up to the year, so what they show, torn or
\* not, is never before the first of them was read: what is still to be read can
\* only grow until the century ends.
LaterDate(v, t) ==
  \/ v.y > t.y
  \/ v.y = t.y /\ (v.mo > t.mo \/ (v.mo = t.mo /\ v.d > t.d))

NoEarlier(v, t) ==
  \/ LaterDate(v, t)
  \/ v.y = t.y /\ v.mo = t.mo /\ v.d = t.d /\ Second(v) >= Second(t)

\* Of moments: a time and how many centuries have ended before it.
Follows(a, b) == a[2] > b[2] \/ (a[2] = b[2] /\ NoEarlier(a[1], b[1]))

Now == <<time, century>>

LEMMA SecondsAreNumbers ==
  ASSUME NEW t \in Clocks
  PROVE  /\ Second(t) \in Nat
         /\ Second(t) = t.s + 60 * t.m + 3600 * t.h
<1> DEFINE s == t.s   m == t.m   h == t.h
<1>1. s \in 0 .. 59 /\ m \in 0 .. 59 /\ h \in 0 .. 23
  BY TimeFields
<1>2. Second(t) = s + 60 * m + 3600 * h
  BY DEF Second
<1>3. s + 60 * m + 3600 * h \in Nat
  <2> HIDE DEF s, m, h
  <2> QED BY <1>1
<1> QED BY <1>2, <1>3

LEMMA NoEarlierTwice ==
  ASSUME NEW t \in Clocks, NEW u \in Clocks, NEW v \in Clocks,
         NoEarlier(u, t), NoEarlier(v, u)
  PROVE  NoEarlier(v, t)
<1>1. /\ Second(t) \in Nat /\ Second(u) \in Nat /\ Second(v) \in Nat
      /\ t.y \in Nat /\ u.y \in Nat /\ v.y \in Nat
      /\ t.mo \in Nat /\ u.mo \in Nat /\ v.mo \in Nat
      /\ t.d \in Nat /\ u.d \in Nat /\ v.d \in Nat
  BY TimeFields, SecondsAreNumbers
<1> QED BY <1>1 DEF NoEarlier, LaterDate

LEMMA NoEarlierItself ==
  ASSUME NEW t \in Clocks
  PROVE  NoEarlier(t, t)
BY SecondsAreNumbers DEF NoEarlier

LEMMA MomentParts ==
  ASSUME NEW a \in Moments
  PROVE  a[1] \in Times /\ a[1] \in Clocks /\ a[2] \in Nat
BY InCalendar DEF Moments

LEMMA FollowsTwice ==
  ASSUME NEW a \in Moments, NEW b \in Moments, NEW c \in Moments,
         Follows(b, a), Follows(c, b)
  PROVE  Follows(c, a)
<1>1. a[2] \in Nat /\ b[2] \in Nat /\ c[2] \in Nat
      /\ a[1] \in Clocks /\ b[1] \in Clocks /\ c[1] \in Clocks
  BY MomentParts
<1>2. NoEarlier(b[1], a[1]) /\ NoEarlier(c[1], b[1]) => NoEarlier(c[1], a[1])
  BY <1>1, NoEarlierTwice
<1> QED BY <1>1, <1>2 DEF Follows

\* The chip's next second is later, but when the century ends.
LEMMA NextSecondLater ==
  ASSUME NEW t \in Times, ~(NextSecond(t).y < t.y)
  PROVE  NoEarlier(NextSecond(t), t)
<1>1. /\ t \in [s : 0 .. 59, m : 0 .. 59, h : 0 .. 23,
                d : 1 .. 31, mo : 1 .. 12, y : 0 .. 99]
      /\ t.s \in 0 .. 59 /\ t.m \in 0 .. 59 /\ t.h \in 0 .. 23
      /\ t.d \in 1 .. 31 /\ t.mo \in 1 .. 12 /\ t.y \in 0 .. 99
      /\ MonthLength(t.mo, t.y) \in Nat
  BY TimeFields, InCalendar
<1> DEFINE s == t.s   m == t.m   h == t.h
<1>2. s \in 0 .. 59 /\ m \in 0 .. 59 /\ h \in 0 .. 23
  BY <1>1
<1>3. CASE t.s < 59
  <2>1. /\ NextSecond(t).s = t.s + 1 /\ NextSecond(t).m = t.m
        /\ NextSecond(t).h = t.h /\ NextSecond(t).d = t.d
        /\ NextSecond(t).mo = t.mo /\ NextSecond(t).y = t.y
    BY <1>1, <1>3 DEF NextSecond
  <2>2. (s + 1) + 60 * m + 3600 * h >= s + 60 * m + 3600 * h
    <3> HIDE DEF s, m, h
    <3> QED BY <1>2
  <2> QED BY <2>1, <2>2 DEF NoEarlier, Second
<1>4. CASE ~(t.s < 59) /\ t.m < 59
  <2>1. /\ NextSecond(t).s = 0 /\ NextSecond(t).m = t.m + 1
        /\ NextSecond(t).h = t.h /\ NextSecond(t).d = t.d
        /\ NextSecond(t).mo = t.mo /\ NextSecond(t).y = t.y
    BY <1>1, <1>4 DEF NextSecond
  <2>2. 0 + 60 * (m + 1) + 3600 * h >= s + 60 * m + 3600 * h
    <3> HIDE DEF s, m, h
    <3> QED BY <1>2
  <2> QED BY <2>1, <2>2 DEF NoEarlier, Second
<1>5. CASE ~(t.s < 59) /\ ~(t.m < 59) /\ t.h < 23
  <2>1. /\ NextSecond(t).s = 0 /\ NextSecond(t).m = 0
        /\ NextSecond(t).h = t.h + 1 /\ NextSecond(t).d = t.d
        /\ NextSecond(t).mo = t.mo /\ NextSecond(t).y = t.y
    BY <1>1, <1>5 DEF NextSecond
  <2>2. 0 + 60 * 0 + 3600 * (h + 1) >= s + 60 * m + 3600 * h
    <3> HIDE DEF s, m, h
    <3> QED BY <1>2
  <2> QED BY <2>1, <2>2 DEF NoEarlier, Second
<1>6. CASE ~(t.s < 59) /\ ~(t.m < 59) /\ ~(t.h < 23)
  <2> DEFINE z == 0
             u == [t EXCEPT !.s = z, !.m = z, !.h = z]
  <2>1. NextSecond(t) = NextDay(u)
    BY <1>6 DEF NextSecond
  <2>2. z \in 0 .. 23 /\ z \in 0 .. 59
    OBVIOUS
  <2> HIDE DEF z
  <2>3. /\ u \in [s : 0 .. 59, m : 0 .. 59, h : 0 .. 23,
                  d : 1 .. 31, mo : 1 .. 12, y : 0 .. 99]
        /\ u.d = t.d /\ u.mo = t.mo /\ u.y = t.y
    BY <1>1, <2>2
  <2> HIDE DEF u
  <2>4. CASE u.d < MonthLength(u.mo, u.y)
    <3>1. /\ NextDay(u).d = t.d + 1 /\ NextDay(u).mo = t.mo
          /\ NextDay(u).y = t.y
      BY <2>3, <2>4 DEF NextDay
    <3> QED BY <1>1, <2>1, <3>1 DEF NoEarlier, LaterDate
  <2>5. CASE ~(u.d < MonthLength(u.mo, u.y)) /\ u.mo < 12
    <3>1. NextDay(u).mo = t.mo + 1 /\ NextDay(u).y = t.y
      BY <2>3, <2>5 DEF NextDay
    <3> QED BY <1>1, <2>1, <3>1 DEF NoEarlier, LaterDate
  <2>6. CASE ~(u.d < MonthLength(u.mo, u.y)) /\ ~(u.mo < 12)
    <3>1. NextDay(u).y = (t.y + 1) % 100
      BY <2>3, <2>6 DEF NextDay
    <3>2. (t.y + 1) % 100 \in {t.y + 1, 0}
      BY <1>1
    <3>3. NextDay(u).y > t.y \/ (NextDay(u).y = 0 /\ t.y = 0)
      BY <1>1, <2>1, <3>1, <3>2
    <3>4. (0 + 1) % 100 # 0
      OBVIOUS
    <3>5. NextDay(u).y > t.y
      BY <3>1, <3>3, <3>4
    <3> QED BY <2>1, <3>5 DEF NoEarlier, LaterDate
  <2> QED BY <2>4, <2>5, <2>6
<1> QED BY <1>3, <1>4, <1>5, <1>6

\* What a reading will show if no other second passes: what has been read, and
\* the rest as it is now.
Readers == {"m", "h", "d", "mo", "y", "epoch"}

Mixed(v, now, seen) == \A f \in Field \ seen : v[f] = now[f]

LEMMA MixedLater ==
  ASSUME NEW v \in Clocks, NEW now \in Clocks, NEW next \in Clocks,
         NEW pc \in Readers, Mixed(v, now, SeenAt[pc])
  PROVE  \E w \in Clocks : /\ \A f \in SeenAt[pc] : w[f] = v[f]
                           /\ Mixed(w, next, SeenAt[pc])
                           /\ NoEarlier(next, now) => NoEarlier(w, v)
<1> DEFINE seen == SeenAt[pc]
           vs == v.s   vm == v.m   vh == v.h   vd == v.d   vo == v.mo   vy == v.y
           ns == now.s   nm == now.m   nh == now.h
           nd == now.d   no == now.mo   ny == now.y
           xs == next.s   xm == next.m   xh == next.h
           xd == next.d   xo == next.mo   xy == next.y
           m == IF "m"  \in seen THEN vm ELSE xm
           h == IF "h"  \in seen THEN vh ELSE xh
           d == IF "d"  \in seen THEN vd ELSE xd
           o == IF "mo" \in seen THEN vo ELSE xo
           y == IF "y"  \in seen THEN vy ELSE xy
           w == [s |-> vs, m |-> m, h |-> h, d |-> d, mo |-> o, y |-> y]
<1>1. /\ vs \in 0 .. 59 /\ vm \in 0 .. 59 /\ vh \in 0 .. 23
      /\ vd \in 1 .. 31 /\ vo \in 1 .. 12 /\ vy \in 0 .. 99
  BY TimeFields
<1>2. /\ ns \in 0 .. 59 /\ nm \in 0 .. 59 /\ nh \in 0 .. 23
      /\ nd \in 1 .. 31 /\ no \in 1 .. 12 /\ ny \in 0 .. 99
  BY TimeFields
<1>3. /\ xs \in 0 .. 59 /\ xm \in 0 .. 59 /\ xh \in 0 .. 23
      /\ xd \in 1 .. 31 /\ xo \in 1 .. 12 /\ xy \in 0 .. 99
  BY TimeFields
<1>4. \/ seen = {"s"} \/ seen = {"s", "m"} \/ seen = {"s", "m", "h"}
      \/ seen = {"s", "m", "h", "d"} \/ seen = {"s", "m", "h", "d", "mo"}
      \/ seen = {"s", "m", "h", "d", "mo", "y"}
  <2>1. /\ SeenAt["m"] = {"s"} /\ SeenAt["h"] = {"s", "m"}
        /\ SeenAt["d"] = {"s", "m", "h"} /\ SeenAt["mo"] = {"s", "m", "h", "d"}
        /\ SeenAt["y"] = {"s", "m", "h", "d", "mo"} /\ SeenAt["epoch"] = Field
    BY DEF SeenAt
  <2> QED BY <2>1, Names DEF Readers
<1>5. "s" \in seen /\ \A f \in seen : f \in Field
  BY <1>4, Names
<1>6. /\ "m" \in seen \/ vm = nm
      /\ "h" \in seen \/ vh = nh
      /\ "d" \in seen \/ vd = nd
      /\ "mo" \in seen \/ vo = no
      /\ "y" \in seen \/ vy = ny
  BY Names DEF Mixed
<1>7. NoEarlier(next, now) =>
        \/ xy > ny
        \/ xy = ny /\ (xo > no \/ (xo = no /\ xd > nd))
        \/ xy = ny /\ xo = no /\ xd = nd
           /\ xs + 60 * xm + 3600 * xh >= ns + 60 * nm + 3600 * nh
  BY DEF NoEarlier, LaterDate, Second
<1>8. Mixed(w, next, seen) /\ \A f \in seen : w[f] = v[f]
  BY <1>5, Names DEF Mixed
<1>9. ASSUME NoEarlier(next, now)
      PROVE  \/ y > vy
             \/ y = vy /\ (o > vo \/ (o = vo /\ d > vd))
             \/ y = vy /\ o = vo /\ d = vd
                /\ vs + 60 * m + 3600 * h >= vs + 60 * vm + 3600 * vh
  <2> HIDE DEF vs, vm, vh, vd, vo, vy, ns, nm, nh, nd, no, ny,
               xs, xm, xh, xd, xo, xy, w
  <2>1. CASE seen = {"s"}
    <3>1. m = xm /\ h = xh /\ d = xd /\ o = xo /\ y = xy
          /\ vm = nm /\ vh = nh /\ vd = nd /\ vo = no /\ vy = ny
      BY <1>6, <2>1
    <3> HIDE DEF m, h, d, o, y
    <3> QED BY <1>1, <1>2, <1>3, <1>7, <1>9, <3>1
  <2>2. CASE seen = {"s", "m"}
    <3>1. m = vm /\ h = xh /\ d = xd /\ o = xo /\ y = xy
          /\ vh = nh /\ vd = nd /\ vo = no /\ vy = ny
      BY <1>6, <2>2
    <3> HIDE DEF m, h, d, o, y
    <3> QED BY <1>1, <1>2, <1>3, <1>7, <1>9, <3>1
  <2>3. CASE seen = {"s", "m", "h"}
    <3>1. m = vm /\ h = vh /\ d = xd /\ o = xo /\ y = xy
          /\ vd = nd /\ vo = no /\ vy = ny
      BY <1>6, <2>3
    <3> HIDE DEF m, h, d, o, y
    <3> QED BY <1>1, <1>2, <1>3, <1>7, <1>9, <3>1
  <2>4. CASE seen = {"s", "m", "h", "d"}
    <3>1. m = vm /\ h = vh /\ d = vd /\ o = xo /\ y = xy
          /\ vo = no /\ vy = ny
      BY <1>6, <2>4
    <3> HIDE DEF m, h, d, o, y
    <3> QED BY <1>1, <1>2, <1>3, <1>7, <1>9, <3>1
  <2>5. CASE seen = {"s", "m", "h", "d", "mo"}
    <3>1. m = vm /\ h = vh /\ d = vd /\ o = vo /\ y = xy /\ vy = ny
      BY <1>6, <2>5
    <3> HIDE DEF m, h, d, o, y
    <3> QED BY <1>1, <1>2, <1>3, <1>7, <1>9, <3>1
  <2>6. CASE seen = {"s", "m", "h", "d", "mo", "y"}
    <3>1. m = vm /\ h = vh /\ d = vd /\ o = vo /\ y = vy
      BY <2>6
    <3> HIDE DEF m, h, d, o, y
    <3> QED BY <1>1, <3>1
  <2> QED BY <1>4, <2>1, <2>2, <2>3, <2>4, <2>5, <2>6
<1>10. /\ m \in 0 .. 59 /\ h \in 0 .. 23 /\ d \in 1 .. 31
       /\ o \in 1 .. 12 /\ y \in 0 .. 99
  BY <1>1, <1>3
<1> HIDE DEF m, h, d, o, y, seen
<1>11. w \in Clocks
  BY <1>1, <1>10 DEF Clocks
<1>12. NoEarlier(next, now) => NoEarlier(w, v)
  BY <1>9 DEF NoEarlier, LaterDate, Second
<1> QED BY <1>8, <1>11, <1>12 DEF seen

LEMMA DayNumbers ==
  ASSUME NEW t \in Clocks
  PROVE  DayNumber(t) \in Nat /\ DayNumber(t) >= 10957
<1> DEFINE x == 365 * t.y   q == (t.y + 3) \div 4   k == doy[t.mo]   d == t.d
           l == IF t.mo > 2 /\ Leap(t.y) THEN 1 ELSE 0
<1>1. t.d \in 1 .. 31 /\ t.mo \in 1 .. 12 /\ t.y \in 0 .. 99
  BY TimeFields
<1>2. x \in Nat /\ q \in Nat /\ k \in Nat /\ d \in 1 .. 31 /\ l \in {0, 1}
  BY <1>1 DEF doy
<1>3. DayNumber(t) = 10957 + x + q + k + d - 1 + l
  BY DEF DayNumber
<1> HIDE DEF x, q, k, d, l
<1> QED BY <1>2, <1>3

\* A later date has a higher number: what EpochRight compares epoch with grows.
LEMMA DatesOrdered ==
  ASSUME NEW t \in Times, NEW v \in Clocks, LaterDate(v, t)
  PROVE  /\ DayNumber(v) \in Int /\ DayNumber(t) \in Int
         /\ DayNumber(v) > DayNumber(t)
<1> DEFINE L(mo, y) == IF mo > 2 /\ Leap(y) THEN 1 ELSE 0
           D(mo, y) == doy[mo] + L(mo, y)
           q(y) == (y + 3) \div 4
<1>1. /\ t.d \in 1 .. 31 /\ t.mo \in 1 .. 12 /\ t.y \in 0 .. 99
      /\ v.d \in 1 .. 31 /\ v.mo \in 1 .. 12 /\ v.y \in 0 .. 99
      /\ t.d <= MonthLength(t.mo, t.y) /\ MonthLength(t.mo, t.y) \in Nat
  BY TimeFields, InCalendar
<1>2. \A mo \in 1 .. 12 : doy[mo] \in 0 .. 334
  BY DEF doy
<1>3. \A mo \in 1 .. 12, y \in 0 .. 99 : D(mo, y) \in 0 .. 335
  <2> SUFFICES ASSUME NEW mo \in 1 .. 12, NEW y \in 0 .. 99
               PROVE  D(mo, y) \in 0 .. 335
    OBVIOUS
  <2>1. L(mo, y) \in {0, 1}
    OBVIOUS
  <2>2. doy[mo] \in 0 .. 334
    BY <1>2
  <2> HIDE DEF L
  <2> QED BY <2>1, <2>2
<1>4. \A y \in 0 .. 99 : q(y) \in Nat
  OBVIOUS
<1>5. \A mo \in 1 .. 12, y \in 0 .. 99 :
        D(mo, y) + MonthLength(mo, y) <= IF Leap(y) THEN 366 ELSE 365
  BY DEF doy, MonthLength
<1>6. \A a \in 1 .. 12, b \in 1 .. 12, y \in 0 .. 99 :
        a < b => D(a, y) + MonthLength(a, y) <= D(b, y)
  <2> SUFFICES ASSUME NEW a \in 1 .. 12, NEW b \in 1 .. 12, NEW y \in 0 .. 99,
                      a < b
               PROVE  D(a, y) + MonthLength(a, y) <= D(b, y)
    OBVIOUS
  <2>1. D(a, y) + MonthLength(a, y) = D(a + 1, y)
    BY DEF doy, MonthLength
  <2>2. D(a + 1, y) <= D(b, y)
    BY DEF doy
  <2>3. D(a, y) + MonthLength(a, y) \in Int
    BY DEF doy, MonthLength
  <2> QED BY <2>1, <2>2, <2>3
<1>7. \A a \in 0 .. 99, b \in 0 .. 99 :
        a < b => q(a) + (IF Leap(a) THEN 1 ELSE 0) <= q(b)
  BY DEF Leap
<1>8. ASSUME NEW u \in Clocks
      PROVE  /\ DayNumber(u) = 10957 + 365 * u.y + q(u.y) + D(u.mo, u.y) + u.d - 1
             /\ q(u.y) \in Nat /\ D(u.mo, u.y) \in 0 .. 335
  <2>1. u.mo \in 1 .. 12 /\ u.y \in 0 .. 99 /\ u.d \in 1 .. 31
    BY TimeFields
  <2>2. doy[u.mo] \in Int /\ L(u.mo, u.y) \in Int
    <3>1. doy[u.mo] \in 0 .. 334 /\ L(u.mo, u.y) \in {0, 1}
      BY <1>2, <2>1
    <3> HIDE DEF L
    <3> QED BY <3>1
  <2>3. q(u.y) \in Nat /\ D(u.mo, u.y) \in 0 .. 335
    BY <1>3, <1>4, <2>1
  <2>4. DayNumber(u) = 10957 + 365 * u.y + q(u.y) + doy[u.mo] + u.d - 1
                       + L(u.mo, u.y)
    BY DEF DayNumber
  <2> DEFINE e == D(u.mo, u.y)
             l == L(u.mo, u.y)
             k == doy[u.mo]
             z == q(u.y)
             x == 365 * u.y
  <2>5. x \in Int /\ u.d \in Int /\ k \in Int /\ l \in Int /\ z \in Int
        /\ e = k + l
    BY <2>1, <2>2, <2>3
  <2>6. DayNumber(u) = 10957 + x + z + k + u.d - 1 + l
    BY <2>4
  <2> HIDE DEF e, l, k, z, x
  <2>7. DayNumber(u) = 10957 + x + z + e + u.d - 1
    BY <2>5, <2>6
  <2> QED BY <2>3, <2>7 DEF x, z, e
<1>9. t \in Clocks
  BY InCalendar
<1> HIDE DEF D, q
<1> DEFINE Dt == D(t.mo, t.y)   qt == q(t.y)
           Dv == D(v.mo, v.y)   qv == q(v.y)
           M  == MonthLength(t.mo, t.y)
           n  == IF Leap(t.y) THEN 1 ELSE 0
           td == t.d   ty == t.y   vd == v.d   vy == v.y
<1>10. /\ DayNumber(t) = 10957 + 365 * ty + qt + Dt + td - 1
       /\ DayNumber(v) = 10957 + 365 * vy + qv + Dv + vd - 1
       /\ qt \in Nat /\ qv \in Nat /\ Dt \in 0 .. 335 /\ Dv \in 0 .. 335
       /\ n \in {0, 1} /\ td <= M /\ M \in Nat
       /\ td \in 1 .. 31 /\ ty \in 0 .. 99 /\ vd \in 1 .. 31 /\ vy \in 0 .. 99
  BY <1>1, <1>8, <1>9
<1>11. CASE v.y > t.y
  <2>1. Dt + M <= 365 + n
    BY <1>1, <1>5
  <2>2. qt + n <= qv /\ vy > ty
    BY <1>1, <1>7, <1>11
  <2> HIDE DEF Dt, Dv, M, n, qt, qv, td, ty, vd, vy
  <2> QED BY <1>10, <2>1, <2>2
<1>12. CASE v.y = t.y /\ v.mo > t.mo
  <2>1. Dt + M <= Dv
    BY <1>1, <1>6, <1>12
  <2>2. qv = qt /\ vy = ty
    BY <1>12
  <2> HIDE DEF Dt, Dv, M, n, qt, qv, td, ty, vd, vy
  <2> QED BY <1>10, <2>1, <2>2
<1>13. CASE v.y = t.y /\ v.mo = t.mo /\ v.d > t.d
  <2>1. Dt = Dv /\ qv = qt /\ vy = ty /\ vd > td
    BY <1>13
  <2> HIDE DEF Dt, Dv, M, n, qt, qv, td, ty, vd, vy
  <2> QED BY <1>10, <2>1
<1> QED BY <1>11, <1>12, <1>13 DEF LaterDate
\* A reading that is no earlier is converted to no earlier a time, but for the
\* day and the afternoon the conversion loses.
LEMMA ConvertedLater ==
  ASSUME NEW t \in Times, NEW v \in Clocks, NEW md \in Modes,
         NoEarlier(v, t), ~(Missing(v) > Missing(t)), Understood(v, md) = v
  PROVE  ~Before(<<DayNumber(v) - Missing(v), Second(Understood(v, md))>>,
                 <<DayNumber(t) - Missing(t), Second(Understood(t, md))>>)
<1> DEFINE a  == DayNumber(v)   b == DayNumber(t)
           p  == Missing(v)     q == Missing(t)
           sv == Second(v)      st == Second(t)
           su == Second(Understood(t, md))
<1>1. p \in {0, 1} /\ q \in {0, 1}
  BY DEF Missing
<1>2. t \in Clocks
  BY InCalendar
<1>3. su <= st /\ su \in Int /\ st \in Int /\ sv \in Int
  <2> DEFINE s == t.s   m == t.m   h == t.h   hu == Understood(t, md).h
  <2>1. s \in 0 .. 59 /\ m \in 0 .. 59 /\ h \in 0 .. 23
    BY <1>2, TimeFields
  <2>2. Understood(t, md).s = s /\ Understood(t, md).m = m
        /\ hu \in {h, h - 12}
    BY <1>2, TimeFields DEF Understood
  <2>3. su = s + 60 * m + 3600 * hu /\ st = s + 60 * m + 3600 * h
    BY <2>2 DEF Second
  <2>4. sv \in Int
    BY SecondsAreNumbers
  <2> HIDE DEF s, m, h, hu, su, st, sv
  <2> QED BY <2>1, <2>2, <2>3, <2>4
<1>4. CASE LaterDate(v, t)
  <2>1. a \in Int /\ b \in Int /\ a > b /\ p <= q
    BY <1>1, <1>4, DatesOrdered
  <2>2. ~(a - p < b - q) /\ a - p # b - q
    <3> HIDE DEF a, b, p, q
    <3> QED BY <1>1, <2>1
  <2> QED BY <2>2 DEF Before
<1>5. CASE /\ v.y = t.y /\ v.mo = t.mo /\ v.d = t.d
           /\ Second(v) >= Second(t)
  <2>1. p = q /\ a = b /\ sv >= st
    BY <1>5 DEF Missing, DayNumber
  <2>2. ~(sv < su)
    <3> HIDE DEF sv, st, su
    <3> QED BY <1>3, <2>1
  <2>3. ~(a - p < b - q)
    <3>1. a \in Int
      BY TimeFields, DayNumbers
    <3> HIDE DEF a, b, p, q
    <3> QED BY <1>1, <2>1, <3>1
  <2> QED BY <2>2, <2>3 DEF Before
<1> QED BY <1>4, <1>5 DEF NoEarlier

-----------------------------------------------------------------------------
\* The invariant.  Of a reading under way: since when it is, not before what
\* epoch is from unless another handler has come in between, and that it will
\* not show an earlier time in the same century.
Reading(c) ==
  c.pc \in Readers =>
    /\ c.at \in Moments /\ Follows(Now, c.at)
    /\ c.alone /\ source # <<>> => Follows(c.at, source[1].at)
    /\ \E v \in Clocks : /\ \A f \in SeenAt[c.pc] : c.regs[f] = Shown(f, v, mode)
                         /\ Mixed(v, time, SeenAt[c.pc])
                         /\ c.at[2] = century => NoEarlier(v, c.at[1])

Sourced ==
  /\ source # <<>> => source[1].at \in Moments /\ Follows(Now, source[1].at)
  /\ source = <<>> => epoch = <<0, 0>>
  /\ source = <<>> \/ 1 \in DOMAIN source
  /\ epoch \in Nat \X Int

Ordered == Sourced /\ \A k \in 1 .. Len(stack) : Reading(stack[k])

\* Nothing but the stack changes, and no reading on it.
LEMMA ReadingsStay ==
  ASSUME Ordered,
         UNCHANGED <<chip, epoch, source>>,
         \A k \in 1 .. Len(stack') :
           \/ stack'[k].pc \notin Readers
           \/ /\ k \in 1 .. Len(stack)
              /\ stack'[k].pc = stack[k].pc /\ stack'[k].at = stack[k].at
              /\ stack'[k].regs = stack[k].regs
              /\ stack'[k].alone => stack[k].alone
  PROVE  Ordered'
<1>1. Sourced'
  BY DEF Ordered, Sourced, Now, chip
<1>2. ASSUME NEW k \in 1 .. Len(stack')
      PROVE  Reading(stack[k])' 
  <2>1. CASE stack'[k].pc \notin Readers
    BY <2>1 DEF Reading
  <2>2. CASE /\ k \in 1 .. Len(stack)
             /\ stack'[k].pc = stack[k].pc /\ stack'[k].at = stack[k].at
             /\ stack'[k].regs = stack[k].regs
             /\ stack'[k].alone => stack[k].alone
    <3>1. Reading(stack[k])
      BY <2>2 DEF Ordered
    <3> QED BY <2>2, <3>1 DEF Reading, Now, chip
  <2> QED BY <2>1, <2>2
<1> QED BY <1>1, <1>2 DEF Ordered
\* The handler on top goes on.
LEMMA TopReads ==
  ASSUME IInv, Ordered, stack # <<>>, NEW x \in Calls,
         stack' = Append(below, x), UNCHANGED <<chip, epoch, source>>,
         Reading(x)
  PROVE  Ordered'
<1> DEFINE n == Len(stack)
<1>1. stack \in Seq(Calls) /\ n \in Nat \ {0}
  BY OnTop DEF IInv, TypeInv
<1>2. /\ Len(stack') = n /\ stack'[n] = x
      /\ \A k \in 1 .. n - 1 : stack'[k] = stack[k]
  <2>1. stack' = Append(SubSeq(stack, 1, Len(stack) - 1), x)
    BY DEF below
  <2> QED BY <1>1, <2>1, Replaced
<1>3. \A k \in 1 .. n : k = n \/ (k \in 1 .. n - 1 /\ k \in 1 .. Len(stack))
  BY <1>1
<1> HIDE DEF n
<1>4. ASSUME NEW k \in 1 .. n
      PROVE  Reading(stack[k])'
  <2>1. Reading(stack'[k])
    BY <1>2, <1>3 DEF Ordered
  <2> QED BY <2>1 DEF Reading, Now, chip
<1>5. Sourced'
  BY DEF Ordered, Sourced, Now, chip
<1> QED BY <1>2, <1>4, <1>5 DEF Ordered

LEMMA TickOrdered ==
  ASSUME IInv, Ordered, Tick
  PROVE  Ordered'
<1>1. /\ time \in Times /\ time' \in Times /\ time' = NextSecond(time)
      /\ time \in Clocks /\ time' \in Clocks
      /\ UNCHANGED <<mode, epoch, source>>
      /\ century' = IF time'.y < time.y THEN century + 1 ELSE century
      /\ stack' = [k \in DOMAIN stack |->
                     [stack[k] EXCEPT !.torn = @ \/ Midway(stack[k])]]
  BY SecondsInCalendar, InCalendar DEF IInv, TypeInv, Tick, store
<1>2. /\ stack \in Seq(Calls) /\ Len(stack) \in Nat
      /\ DOMAIN stack = 1 .. Len(stack) /\ stack' \in Seq(Calls)
      /\ century \in Nat
  <2>1. IInv'
    BY TickKeeps
  <2>2. stack \in Seq(Calls) /\ stack' \in Seq(Calls)
    BY <2>1 DEF IInv, TypeInv
  <2>3. ticks \in Nat /\ century \in 0 .. ticks
    BY BoundAssumption DEF IInv, TypeInv
  <2> QED BY <2>2, <2>3, LenProperties
<1>3. Len(stack') = Len(stack)
  <2>1. DOMAIN stack' = 1 .. Len(stack)
    BY <1>1, <1>2
  <2> QED BY <1>2, <2>1, LenProperties
<1>4. ASSUME NEW k \in 1 .. Len(stack)
      PROVE  /\ stack'[k].pc = stack[k].pc /\ stack'[k].regs = stack[k].regs
             /\ stack'[k].at = stack[k].at
             /\ stack'[k].alone <=> stack[k].alone
  <2> DEFINE b == stack[k].torn \/ Midway(stack[k])
  <2>1. stack[k] \in Calls
    BY <1>2, ElementOfSeq
  <2>2. stack'[k] = [stack[k] EXCEPT !.torn = b]
    BY <1>1, <1>2
  <2> HIDE DEF b
  <2> QED BY <2>1, <2>2 DEF Calls
<1>5. \/ century' = century + 1
      \/ century' = century /\ NoEarlier(time', time)
  <2>1. CASE time'.y < time.y
    BY <1>1, <2>1
  <2>2. CASE ~(time'.y < time.y)
    <3>1. ~(NextSecond(time).y < time.y)
      BY <1>1, <2>2
    <3>2. NoEarlier(NextSecond(time), time)
      BY <1>1, <3>1, NextSecondLater
    <3>3. NoEarlier(time', time)
      BY <1>1, <3>2
    <3> QED BY <1>1, <2>2, <3>3
  <2> QED BY <2>1, <2>2
<1>6. /\ Now \in Moments /\ Now' \in Moments
      /\ Now[1] = time /\ Now[2] = century
      /\ Now'[1] = time' /\ Now'[2] = century'
  BY <1>1, <1>2, <1>5 DEF Moments, Now
<1>7. Follows(Now', Now)
  <2>1. century' > century \/ (century' = century /\ NoEarlier(time', time))
    BY <1>2, <1>5
  <2> QED BY <1>6, <2>1 DEF Follows
<1>8. Sourced'
  BY <1>1, <1>6, <1>7, FollowsTwice DEF Ordered, Sourced
<1>9. ASSUME NEW k \in 1 .. Len(stack)
      PROVE  Reading(stack[k])'
  <2> SUFFICES ASSUME stack'[k].pc \in Readers
               PROVE  Reading(stack[k])'
    BY DEF Reading
  <2> DEFINE c == stack[k]
             S == SeenAt[c.pc]
  <2>1. c.pc \in Readers /\ Reading(c)
    BY <1>4 DEF Ordered
  <2>2. /\ c.at \in Moments /\ Follows(Now, c.at)
        /\ c.alone /\ source # <<>> => Follows(c.at, source[1].at)
    BY <2>1 DEF Reading
  <2>3. PICK v \in Clocks : /\ \A f \in S : c.regs[f] = Shown(f, v, mode)
                            /\ Mixed(v, time, S)
                            /\ c.at[2] = century => NoEarlier(v, c.at[1])
    BY <2>1 DEF Reading
  <2>4. PICK w \in Clocks : /\ \A f \in S : w[f] = v[f]
                            /\ Mixed(w, time', S)
                            /\ NoEarlier(time', time) => NoEarlier(w, v)
    <3>1. PICK now \in Clocks, next \in Clocks, pc \in Readers :
            now = time /\ next = time' /\ pc = c.pc
      BY <1>1, <2>1
    <3>2. \E w \in Clocks : /\ \A f \in SeenAt[pc] : w[f] = v[f]
                            /\ Mixed(w, next, SeenAt[pc])
                            /\ NoEarlier(next, now) => NoEarlier(w, v)
      <4>1. Mixed(v, now, SeenAt[pc])
        BY <2>3, <3>1
      <4> QED BY <4>1, MixedLater
    <3> HIDE DEF c
    <3> QED BY <3>1, <3>2
  <2>5. Follows(Now', c.at)
    BY <1>6, <1>7, <2>2, FollowsTwice
  <2>6. \A f \in S : c.regs[f] = Shown(f, w, mode)
    <3> SUFFICES ASSUME NEW f \in S PROVE Shown(f, v, mode) = Shown(f, w, mode)
      BY <2>3
    <3>1. w[f] = v[f]
      BY <2>4
    <3>2. f = "h" => w.h = v.h
      BY <3>1
    <3> QED BY <3>1, <3>2 DEF Shown
  <2>7. ASSUME c.at[2] = century' PROVE NoEarlier(w, c.at[1])
    <3>1. c.at[2] \in Nat /\ c.at[1] \in Clocks
      BY <2>2, MomentParts
    <3>2. c.at[2] <= century
      BY <1>2, <1>6, <2>2, <3>1 DEF Follows
    <3>3. century' = century /\ NoEarlier(time', time)
      BY <1>2, <1>5, <2>7, <3>1, <3>2
    <3>4. NoEarlier(v, c.at[1]) /\ NoEarlier(w, v)
      BY <2>3, <2>4, <2>7, <3>3
    <3> QED BY <3>1, <3>4, NoEarlierTwice
  <2>8. /\ stack'[k].pc = c.pc /\ stack'[k].regs = c.regs
        /\ stack'[k].at = c.at /\ (stack'[k].alone <=> c.alone)
        /\ mode' = mode /\ source' = source
    BY <1>1, <1>4
  <2> HIDE DEF c
  <2> QED BY <2>2, <2>4, <2>5, <2>6, <2>7, <2>8 DEF Reading
<1> QED BY <1>3, <1>8, <1>9 DEF Ordered

LEMMA DeliverOrdered ==
  ASSUME IInv, Ordered, NEW i \in Irqs, Deliver(i)
  PROVE  Ordered'
<1> DEFINE f == [k \in DOMAIN stack |->
                   [stack[k] EXCEPT !.alone = @ /\ i # Rtc]]
           x == Called(i)
           n == Len(stack)
<1>1. stack \in Seq(Calls) /\ n \in Nat /\ DOMAIN stack = 1 .. n
      /\ stack' = Append(f, x) /\ UNCHANGED <<chip, epoch, source>>
  BY LenProperties DEF IInv, TypeInv, Deliver
<1>2. ASSUME NEW k \in 1 .. n
      PROVE  /\ f[k] \in Calls /\ f[k].pc = stack[k].pc
             /\ f[k].regs = stack[k].regs /\ f[k].at = stack[k].at
             /\ f[k].alone => stack[k].alone
  <2> DEFINE b == stack[k].alone /\ i # Rtc
  <2>1. stack[k] \in Calls
    BY <1>1, ElementOfSeq
  <2>2. b \in BOOLEAN
    OBVIOUS
  <2>3. f[k] = [stack[k] EXCEPT !.alone = b]
    BY <1>1
  <2> HIDE DEF b, f
  <2>4. /\ f[k] \in Calls /\ f[k].alone = b /\ f[k].pc = stack[k].pc
        /\ f[k].regs = stack[k].regs /\ f[k].at = stack[k].at
    BY <2>1, <2>2, <2>3 DEF Calls
  <2> QED BY <2>4 DEF b
<1>3. f \in Seq(Calls) /\ Len(f) = n
  <2>1. f = [k \in 1 .. n |-> f[k]]
    BY <1>1
  <2> HIDE DEF f
  <2>2. f \in [1 .. n -> Calls]
    BY <1>2, <2>1
  <2>3. f \in Seq(Calls)
    BY <1>1, <2>2, SeqDef
  <2> QED BY <1>1, <2>2, <2>3, LenProperties
<1>4. x.pc = "stub"
  BY DEF Called
<1>5. x \in Calls
  <2>1. IInv'
    BY DeliverKeeps
  <2>2. Append(f, x) \in Seq(Calls)
    BY <1>1, <2>1 DEF IInv, TypeInv
  <2> HIDE DEF f, x
  <2> QED BY <1>3, <2>2, LastIsCall
<1> HIDE DEF f, x
<1>6. /\ Len(stack') = n + 1 /\ stack'[n + 1] = x
      /\ \A k \in 1 .. n : stack'[k] = f[k]
  BY <1>1, <1>3, <1>5, AppendProperties
<1> HIDE DEF n
<1>7. \A k \in 1 .. n + 1 : k \in 1 .. n \/ k = n + 1
  BY <1>1
<1>8. \A k \in 1 .. n + 1 :
        \/ stack'[k].pc \notin Readers
        \/ /\ k \in 1 .. n
           /\ stack'[k].pc = stack[k].pc /\ stack'[k].at = stack[k].at
           /\ stack'[k].regs = stack[k].regs
           /\ stack'[k].alone => stack[k].alone
  BY <1>2, <1>4, <1>6, <1>7 DEF Readers
<1> QED BY <1>1, <1>6, <1>8, ReadingsStay DEF n
LEMMA ReadFieldOrdered ==
  ASSUME IInv, Ordered, ReadField
  PROVE  Ordered'
<1> DEFINE f == top.pc
           g == After(top.pc)
           D == DOMAIN top.regs \cup {f}
           r == [h \in D |-> IF h = f THEN Shown(f, time, mode) ELSE top.regs[h]]
           a == IF top.regs = <<>> THEN <<time, century>> ELSE top.at
           x == [top EXCEPT !.pc = g, !.regs = r, !.at = a]
<1>1. /\ stack # <<>> /\ f \in Field /\ stack' = Append(below, x)
      /\ UNCHANGED <<chip, epoch, source>>
  BY DEF ReadField, store
<1>2. /\ top \in Calls /\ ReadSoFar(top, time)
      /\ time \in Times /\ time \in Clocks /\ mode \in Modes
      /\ century \in Nat
  <2>1. ticks \in Nat /\ century \in 0 .. ticks
    BY BoundAssumption DEF IInv, TypeInv
  <2>2. time \in Times /\ mode \in Modes
    BY DEF IInv, TypeInv
  <2>3. top \in Calls /\ ReadSoFar(top, time)
    BY <1>1, OnTop
  <2> QED BY <2>1, <2>2, <2>3, InCalendar
<1>3. g \in Readers /\ SeenAt[g] = SeenAt[f] \cup {f}
  BY <1>1, Names DEF After, SeenAt, Readers
<1>4. DOMAIN top.regs = SeenAt[f] /\ (f = "s" => top.regs = <<>>)
  BY <1>1, <1>2, Names DEF ReadSoFar
<1>5. f # "s" => f \in Readers /\ top.regs # <<>>
  <2>1. SeenAt[f] # {} \/ f = "s"
    <3>1. /\ SeenAt["s"] = {} /\ SeenAt["m"] = {"s"}
          /\ SeenAt["h"] = {"s", "m"} /\ SeenAt["d"] = {"s", "m", "h"}
          /\ SeenAt["mo"] = {"s", "m", "h", "d"}
          /\ SeenAt["y"] = {"s", "m", "h", "d", "mo"}
      BY DEF SeenAt
    <3>2. f \in {"s", "m", "h", "d", "mo", "y"}
      BY <1>1, Names
    <3> HIDE DEF f
    <3> QED BY <3>1, <3>2
  <2>2. f # "s" => f \in Readers
    BY <1>1, Names DEF Readers
  <2> QED BY <1>4, <2>1, <2>2, EmptyRegs
<1>6. Now \in Moments /\ Now[1] = time /\ Now[2] = century /\ Now = <<time, century>>
  BY <1>2 DEF Moments, Now
<1>7. x \in Calls
  <2>1. IInv'
    BY ReadFieldKeeps
  <2>2. stack' \in Seq(Calls)
    BY <2>1 DEF IInv, TypeInv
  <2>3. below \in Seq(Calls)
    BY <1>1, Below DEF below, IInv, TypeInv
  <2> HIDE DEF x
  <2> QED BY <1>1, <2>2, <2>3, LastIsCall
<1>8. x.pc = g /\ x.regs = r /\ x.at = a /\ (x.alone <=> top.alone)
  <2> HIDE DEF g, r, a
  <2> QED BY <1>2 DEF Calls
<1>9. \A h \in SeenAt[g] :
        r[h] = IF h = f THEN Shown(f, time, mode) ELSE top.regs[h]
  BY <1>3, <1>4
<1>10. a = IF f = "s" THEN Now ELSE top.at
  BY <1>4, <1>5, <1>6
<1> HIDE DEF x, r, a, g
<1>11. CASE f = "s"
  <2>1. a = Now /\ SeenAt[g] = {"s"}
    BY <1>3, <1>4, <1>10, <1>11, EmptyRegs
  <2>2. Follows(Now, Now)
    BY <1>2, <1>6, NoEarlierItself DEF Follows
  <2>3. source # <<>> => Follows(Now, source[1].at)
    BY DEF Ordered, Sourced
  <2>4. /\ \A h \in SeenAt[g] : r[h] = Shown(h, time, mode)
        /\ Mixed(time, time, SeenAt[g]) /\ NoEarlier(time, Now[1])
    BY <1>2, <1>6, <1>9, <1>11, <2>1, NoEarlierItself DEF Mixed
  <2>5. Reading(x)
    BY <1>2, <1>6, <1>8, <2>1, <2>2, <2>3, <2>4 DEF Reading
  <2> QED BY <1>1, <1>7, <2>5, TopReads
<1>12. CASE f # "s"
  <2>1. a = top.at /\ f \in Readers /\ Reading(top)
    <3>1. Len(stack) \in 1 .. Len(stack) /\ top = stack[Len(stack)]
      BY <1>1, OnTop
    <3> QED BY <1>5, <1>10, <1>12, <3>1 DEF Ordered
  <2>2. /\ top.at \in Moments /\ Follows(Now, top.at)
        /\ top.alone /\ source # <<>> => Follows(top.at, source[1].at)
    BY <2>1 DEF Reading
  <2>3. PICK v \in Clocks :
          /\ \A h \in SeenAt[f] : top.regs[h] = Shown(h, v, mode)
          /\ Mixed(v, time, SeenAt[f])
          /\ top.at[2] = century => NoEarlier(v, top.at[1])
    BY <2>1 DEF Reading
  <2>4. f \notin SeenAt[f]
    <3>1. /\ SeenAt["m"] = {"s"} /\ SeenAt["h"] = {"s", "m"}
          /\ SeenAt["d"] = {"s", "m", "h"}
          /\ SeenAt["mo"] = {"s", "m", "h", "d"}
          /\ SeenAt["y"] = {"s", "m", "h", "d", "mo"}
      BY DEF SeenAt
    <3>2. f \in {"m", "h", "d", "mo", "y"}
      BY <1>1, <1>12, Names
    <3> HIDE DEF f
    <3> QED BY <3>1, <3>2
  <2>5. v[f] = time[f]
    BY <1>1, <2>3, <2>4 DEF Mixed
  <2>6. Shown(f, time, mode) = Shown(f, v, mode)
    <3>1. f = "h" => v.h = time.h
      BY <2>5
    <3> QED BY <2>5, <3>1 DEF Shown
  <2>7. \A h \in SeenAt[g] : r[h] = Shown(h, v, mode)
    BY <1>3, <1>9, <2>3, <2>6
  <2>8. Mixed(v, time, SeenAt[g])
    BY <1>3, <2>3 DEF Mixed
  <2>9. Reading(x)
    BY <1>8, <2>1, <2>2, <2>3, <2>7, <2>8 DEF Reading
  <2> QED BY <1>1, <1>7, <2>9, TopReads
<1> QED BY <1>11, <1>12

\* What epoch becomes: what the six registers show, converted.
LEMMA EpochStored ==
  ASSUME IInv, Ordered, SetEpoch
  PROVE  /\ stack # <<>> /\ top.pc = "epoch" /\ mode \in Modes
         /\ Reading(top) /\ top.at \in Moments
         /\ epoch' \in Nat \X Int
         /\ \E v \in Clocks :
              /\ top.regs = Registers(v, mode)
              /\ top.at[2] = century => NoEarlier(v, top.at[1])
              /\ epoch' = <<DayNumber(v) - Missing(v),
                            Second(Understood(v, mode))>>
<1>1. /\ stack # <<>> /\ top.pc = "epoch"
      /\ epoch' = to_epoch(rtc_read(top.regs, mode))
  BY DEF SetEpoch
<1>2. /\ top \in Calls /\ ReadSoFar(top, time) /\ mode \in Modes
      /\ Len(stack) \in 1 .. Len(stack) /\ top = stack[Len(stack)]
  <2>1. mode \in Modes
    BY DEF IInv, TypeInv
  <2>2. Len(stack) \in Nat \ {0} /\ top \in Calls /\ ReadSoFar(top, time)
        /\ top = stack[Len(stack)]
    BY <1>1, OnTop
  <2> QED BY <2>1, <2>2
<1>3. Reading(top)
  BY <1>2 DEF Ordered
<1>4. "epoch" \in Readers /\ SeenAt["epoch"] = Field
  BY DEF Readers, SeenAt
<1>5. PICK v \in Clocks : /\ \A f \in Field : top.regs[f] = Shown(f, v, mode)
                          /\ top.at[2] = century => NoEarlier(v, top.at[1])
  BY <1>1, <1>3, <1>4 DEF Reading
<1>6. top.regs = Registers(v, mode)
  <2>1. DOMAIN top.regs = Field
    BY <1>1, <1>2, <1>4 DEF ReadSoFar
  <2>2. top.regs = [f \in Field |-> top.regs[f]]
    BY <1>2, <2>1 DEF Calls, Regs
  <2>3. Registers(v, mode) = [f \in Field |-> Shown(f, v, mode)]
    BY DEF Registers, Field, Fields
  <2> QED BY <1>5, <2>2, <2>3
<1>7. epoch' = <<DayNumber(v) - Missing(v), Second(Understood(v, mode))>>
  BY <1>1, <1>2, <1>6, ReadingConverted
<1>8. DayNumber(v) - Missing(v) \in Nat
  <2> DEFINE p == Missing(v)   d == DayNumber(v)
  <2>1. p \in {0, 1} /\ d \in Nat /\ d >= 10957
    BY DayNumbers DEF Missing
  <2>2. d - p \in Nat
    <3> HIDE DEF p, d
    <3> QED BY <2>1
  <2> QED BY <2>2
<1>9. Second(Understood(v, mode)) \in Int
  <2> DEFINE s == v.s   m == v.m   h == v.h   hu == Understood(v, mode).h
  <2>1. s \in 0 .. 59 /\ m \in 0 .. 59 /\ h \in 0 .. 23
    BY TimeFields
  <2>2. Understood(v, mode).s = s /\ Understood(v, mode).m = m
        /\ hu \in {h, h - 12}
    BY TimeFields DEF Understood
  <2>3. Second(Understood(v, mode)) = s + 60 * m + 3600 * hu
    BY <2>2 DEF Second
  <2>4. s + 60 * m + 3600 * hu \in Int
    <3> HIDE DEF s, m, h, hu
    <3> QED BY <2>1, <2>2
  <2> QED BY <2>3, <2>4
<1>10. epoch' \in Nat \X Int
  BY <1>7, <1>8, <1>9
<1>11. top.at \in Moments
  BY <1>1, <1>3, <1>4 DEF Reading
<1> QED BY <1>1, <1>2, <1>3, <1>5, <1>6, <1>7, <1>10, <1>11

LEMMA SetEpochOrdered ==
  ASSUME IInv, FatInv, Ordered, SetEpoch
  PROVE  Ordered'
<1> DEFINE x == [top EXCEPT !.pc = "fattime"]
           n == Len(stack)
<1>1. /\ stack # <<>> /\ top.pc = "epoch" /\ stack' = Append(below, x)
      /\ source' = <<[at |-> top.at, torn |-> top.torn]>>
      /\ UNCHANGED <<time, century, mode>>
  BY DEF SetEpoch, GoTo, chip
<1>2. /\ stack \in Seq(Calls) /\ n \in Nat \ {0} /\ top = stack[n]
      /\ top \in Calls /\ top.irq = Rtc
  BY <1>1, OnTop DEF IInv, TypeInv
<1>3. x \in Calls /\ x.pc = "fattime"
  <2>1. "fattime" \in Steps
    BY Names
  <2> QED BY <1>2, <2>1 DEF Calls
<1> HIDE DEF x
<1>4. /\ Len(stack') = n /\ stack'[n] = x
      /\ \A k \in 1 .. n - 1 : stack'[k] = stack[k]
  <2>1. stack' = Append(SubSeq(stack, 1, Len(stack) - 1), x)
    BY <1>1 DEF below
  <2> QED BY <1>1, <1>2, <1>3, <2>1, Replaced
<1>5. /\ \A k \in 1 .. n : k = n \/ (k \in 1 .. n - 1 /\ k # n)
      /\ n \in 1 .. n
  BY <1>2
<1>6. /\ Reading(top) /\ top.at \in Moments /\ Follows(Now, top.at)
      /\ epoch' \in Nat \X Int
  BY <1>1, EpochStored DEF Reading, Readers
<1>7. Sourced'
  <2>1. source'[1].at = top.at /\ source' # <<>> /\ Now' = Now
        /\ 1 \in DOMAIN source'
    BY <1>1 DEF Now
  <2> QED BY <1>6, <2>1 DEF Sourced
<1>8. ASSUME NEW k \in 1 .. n
      PROVE  Reading(stack[k])'
  <2>1. CASE k = n
    BY <1>3, <1>4, <2>1 DEF Reading, Readers
  <2>2. CASE k \in 1 .. n - 1 /\ k # n /\ stack[k].pc \in Readers
    <3>1. stack'[k] = stack[k] /\ Reading(stack[k])
      BY <1>4, <2>2 DEF Ordered
    <3>2. stack[k].irq = Rtc
      BY <2>2 DEF IInv, Nested, Readers
    <3>3. ~stack[k].alone
      BY <1>2, <1>5, <2>2, <3>2 DEF FatInv, Lonely
    <3> QED BY <1>1, <2>2, <3>1, <3>3 DEF Reading, Now
  <2>3. CASE k \in 1 .. n - 1 /\ stack[k].pc \notin Readers
    BY <1>4, <2>3 DEF Reading
  <2> QED BY <1>5, <2>1, <2>2, <2>3
<1> QED BY <1>4, <1>7, <1>8 DEF Ordered

LEMMA InitOrdered == Init => Ordered
<1> SUFFICES ASSUME Init PROVE Ordered
  OBVIOUS
<1>1. stack = <<>> /\ Len(stack) = 0 /\ source = <<>> /\ epoch = <<0, 0>>
  BY EmptySeq DEF Init
<1> QED BY <1>1 DEF Ordered, Sourced

LEMMA NextOrdered == IInv /\ FatInv /\ Ordered /\ [Next]_vars => Ordered'
<1> SUFFICES ASSUME IInv, FatInv, Ordered, [Next]_vars PROVE Ordered'
  OBVIOUS
<1>1. CASE Tick
  BY <1>1, TickOrdered
<1>2. CASE TimerTick \/ KeyByte \/ Quiet \/ UNCHANGED vars
  <2>1. UNCHANGED <<chip, epoch, source, stack>>
    BY <1>2 DEF TimerTick, KeyByte, Quiet, vars, store
  <2> QED BY <2>1, ReadingsStay
<1>3. CASE Acknowledge \/ ReadStatus \/ SetFatTime
  <2> DEFINE p == IF flag THEN "s" ELSE "iret"
  <2>1. /\ stack # <<>> /\ UNCHANGED <<chip, epoch, source>>
    BY <1>3 DEF Acknowledge, ReadStatus, SetFatTime, store
  <2>2. top \in Calls /\ p \in {"s", "iret"}
    BY <2>1, OnTop
  <2>3. \E q \in {"run", "s", "iret"} :
          stack' = Append(below, [top EXCEPT !.pc = q])
    <3> HIDE DEF p
    <3>1. CASE Acknowledge
      BY <3>1 DEF Acknowledge, GoTo
    <3>2. CASE ReadStatus
      BY <2>2, <3>2 DEF ReadStatus, GoTo, p
    <3>3. CASE SetFatTime
      BY <3>3 DEF SetFatTime, GoTo
    <3> QED BY <1>3, <3>1, <3>2, <3>3
  <2>4. PICK q \in {"run", "s", "iret"} :
          stack' = Append(below, [top EXCEPT !.pc = q])
    BY <2>3
  <2>5. /\ [top EXCEPT !.pc = q] \in Calls
        /\ [top EXCEPT !.pc = q].pc = q
    <3>1. q \in Steps
      BY Names
    <3> HIDE DEF p
    <3> QED BY <2>2, <3>1, Moved
  <2>6. Reading([top EXCEPT !.pc = q])
    BY <2>5 DEF Reading, Readers
  <2> QED BY <2>1, <2>4, <2>5, <2>6, TopReads
<1>4. CASE ReadField
  BY <1>4, ReadFieldOrdered
<1>5. CASE SetEpoch
  BY <1>5, SetEpochOrdered
<1>6. CASE RunPlain \/ EndClock
  <2>1. /\ stack # <<>> /\ stack' = below /\ UNCHANGED <<chip, epoch, source>>
    BY <1>6 DEF RunPlain, EndClock, Return, store
  <2>2. /\ stack \in Seq(Calls) /\ Len(stack) \in Nat \ {0}
        /\ Len(stack') = Len(stack) - 1
        /\ \A k \in 1 .. Len(stack) - 1 : stack'[k] = stack[k]
    BY <2>1, Below DEF below, IInv, TypeInv
  <2>3. \A k \in 1 .. Len(stack) - 1 : k \in 1 .. Len(stack)
    BY <2>2
  <2> QED BY <2>1, <2>2, <2>3, ReadingsStay
<1>7. CASE Interrupt
  BY <1>7, DeliverOrdered DEF Interrupt
<1> QED BY <1>1, <1>2, <1>3, <1>4, <1>5, <1>6, <1>7 DEF Next, Handler

-----------------------------------------------------------------------------
LEMMA EpochStays ==
  ASSUME [Next]_vars, ~SetEpoch
  PROVE  epoch' = epoch
BY DEF Next, Quiet, Tick, TimerTick, KeyByte, Handler, Acknowledge, RunPlain,
       ReadStatus, ReadField, SetFatTime, EndClock, Interrupt, Deliver,
       vars, store

LEMMA SetEpochExplained ==
  ASSUME IInv, FatInv, Ordered, SetEpoch, Before(epoch', epoch)
  PROVE  \/ raced \/ source[1].torn \/ century # source[1].at[2]
         \/ Missing(rtc_read(top.regs, mode)) > Missing(source[1].at[1])
         \/ mode.bcd /\ ~mode.h24 /\ top.regs["h"] >= 128
<1> SUFFICES ASSUME ~raced, ~source[1].torn, century = source[1].at[2],
                    ~(Missing(rtc_read(top.regs, mode))
                        > Missing(source[1].at[1])),
                    ~(mode.bcd /\ ~mode.h24 /\ top.regs["h"] >= 128)
             PROVE  FALSE
  OBVIOUS
<1>1. /\ stack # <<>> /\ top.pc = "epoch" /\ mode \in Modes
      /\ Reading(top) /\ top.at \in Moments /\ epoch' \in Nat \X Int
  BY EpochStored
<1>2. PICK v \in Clocks : /\ top.regs = Registers(v, mode)
                          /\ top.at[2] = century => NoEarlier(v, top.at[1])
                          /\ epoch' = <<DayNumber(v) - Missing(v),
                                        Second(Understood(v, mode))>>
  BY EpochStored
<1>3. source # <<>>
  <2> SUFFICES ASSUME source = <<>> PROVE FALSE
    OBVIOUS
  <2>1. epoch = <<0, 0>>
    BY DEF Ordered, Sourced
  <2> DEFINE p == Missing(v)   d == DayNumber(v)
  <2>2. p \in {0, 1} /\ d \in Nat /\ d >= 10957
    BY DayNumbers DEF Missing
  <2>3. epoch'[1] = d - p /\ epoch[1] = 0
    BY <1>2, <2>1
  <2>4. ~(d - p < 0) /\ d - p # 0
    <3> HIDE DEF d, p
    <3> QED BY <2>2
  <2> HIDE DEF d, p
  <2> QED BY <2>3, <2>4 DEF Before
<1>4. source[1].at \in Moments
  BY <1>3 DEF Ordered, Sourced
<1> DEFINE t == source[1].at[1]
<1>5. t \in Times /\ t \in Clocks /\ source[1].at[2] \in Nat
      /\ top.at[2] \in Nat /\ top.at[1] \in Clocks
  BY <1>1, <1>4, MomentParts
<1>6. top.alone
  <2>1. Len(stack) \in 1 .. Len(stack) /\ top = stack[Len(stack)]
    BY <1>1, OnTop
  <2>2. top.irq = Rtc
    BY <1>1, OnTop
  <2> QED BY <2>1, <2>2 DEF FatInv, Lonely
<1>7. Follows(Now, top.at) /\ Follows(top.at, source[1].at)
  BY <1>1, <1>3, <1>6 DEF Reading, Readers
<1>8. top.at[2] = century /\ NoEarlier(top.at[1], t)
  <2>1. Now[2] = century
    BY DEF Now
  <2>2. century \in Nat
    BY <1>5
  <2> DEFINE a == top.at[2]   b == source[1].at[2]
  <2>3. (century > a \/ century = a)
        /\ (a > b \/ (a = b /\ NoEarlier(top.at[1], t)))
    BY <1>7, <2>1 DEF Follows
  <2>4. a \in Nat /\ b \in Nat /\ b = century
    BY <1>5
  <2> HIDE DEF a, b, t
  <2>5. a = century /\ a = b
    BY <2>2, <2>3, <2>4
  <2>6. NoEarlier(top.at[1], t)
    BY <2>2, <2>3, <2>4, <2>5
  <2> QED BY <2>5, <2>6 DEF a
<1>9. NoEarlier(v, t)
  BY <1>2, <1>5, <1>8, NoEarlierTwice
<1>10. ~(Missing(v) > Missing(t))
  <2>1. /\ rtc_read(top.regs, mode).mo = v.mo
        /\ rtc_read(top.regs, mode).y = v.y
    BY <1>1, <1>2, ReadingConverted
  <2> QED BY <2>1 DEF Missing
<1>11. Understood(v, mode) = v
  <2> SUFFICES ASSUME mode.bcd, ~mode.h24, v.h >= 12 PROVE FALSE
    BY DEF Understood
  <2>1. top.regs["h"] = Shown("h", v, mode)
    <3>1. "h" \in {Fields[k] : k \in 1 .. 6}
      BY DEF Fields
    <3> QED BY <1>2, <3>1 DEF Registers
  <2>2. Shown("h", v, mode) = Bcd(Hour12(v.h)) + 128
    BY DEF Shown, Coded
  <2>3. Hour12(v.h) \in 0 .. 99
    <3>1. \A h \in 0 .. 23 : Hour12(h) \in 0 .. 99
      BY DEF Hour12
    <3> QED BY <3>1, TimeFields
  <2>4. Bcd(Hour12(v.h)) \in 0 .. 153
    BY <2>3, BcdThereAndBack
  <2> DEFINE z == Bcd(Hour12(v.h))
  <2>5. z + 128 >= 128
    <3> HIDE DEF z
    <3>1. z \in 0 .. 153
      BY <2>4 DEF z
    <3> QED BY <3>1
  <2> QED BY <2>1, <2>2, <2>5
<1>12. epoch = <<DayNumber(t) - Missing(t), Second(Understood(t, mode))>>
  <2>1. 1 \in DOMAIN source
    BY <1>3 DEF Ordered, Sourced
  <2> QED BY <2>1 DEF IInv, EpochRight
<1> HIDE DEF t
<1>13. ~Before(epoch', epoch)
  BY <1>1, <1>2, <1>5, <1>9, <1>10, <1>11, <1>12, ConvertedLater
<1> QED BY <1>13

\* From any time of the century and in any mode, and however its handler is
\* interrupted, the clock's epoch goes back for the reasons GoesBackExplained
\* gives and for no other (cmos.c:17, 27-32, 43, 63).
THEOREM GoingBackIsExplained == Spec => GoesBackExplained
<1>1. IInv /\ FatInv /\ Ordered /\ [Next]_vars =>
        [Before(epoch', epoch) =>
           \/ raced \/ source[1].torn \/ century # source[1].at[2]
           \/ Missing(rtc_read(top.regs, mode)) > Missing(source[1].at[1])
           \/ mode.bcd /\ ~mode.h24 /\ top.regs["h"] >= 128]_vars
  <2> SUFFICES ASSUME IInv, FatInv, Ordered, [Next]_vars, Before(epoch', epoch)
               PROVE  \/ raced \/ source[1].torn \/ century # source[1].at[2]
                      \/ Missing(rtc_read(top.regs, mode))
                           > Missing(source[1].at[1])
                      \/ mode.bcd /\ ~mode.h24 /\ top.regs["h"] >= 128
    OBVIOUS
  <2>1. ~Before(epoch, epoch)
    BY DEF Ordered, Sourced, Before
  <2>2. SetEpoch
    BY <2>1, EpochStays
  <2> QED BY <2>2, SetEpochExplained
<1> QED BY <1>1, InitKeeps, NextKeeps, FatInit, FatNext, InitOrdered,
           NextOrdered, PTL DEF Spec, GoesBackExplained
=============================================================================
