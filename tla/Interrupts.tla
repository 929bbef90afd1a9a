----------------------------- MODULE Interrupts -----------------------------
(***************************************************************************)
(* Interrupts, from sti on: the two controllers, the stubs of intr.asm,    *)
(* and the handlers of timer, keyboard and clock.  Gates clear the         *)
(* interrupt flag, stubs acknowledge before they call; get_cmos sets the   *)
(* flag again, so the clock's handler is interrupted, by itself too.       *)
(* Exceptions end the machine and are left out.                            *)
(***************************************************************************)
EXTENDS Clock

CONSTANTS
  Starts,          \* the time when interrupts are enabled, and how the chip
                   \* shows it: <<time, mode>>
  MaxTicks,        \* seconds that pass
  MaxOthers        \* interrupts of timer and keyboard

ASSUME StartAssumption ==
  Starts \subseteq Times \X [bcd : BOOLEAN, h24 : BOOLEAN]
ASSUME BoundAssumption == MaxTicks \in Nat /\ MaxOthers \in Nat

VARIABLES
  time, mode, ticks,   \* the clock's chip
  century,             \* how often its year has gone back to 0 (history)
  flag,                \* its register C: a second has passed (and its line)
  others,              \* interrupts of timer and keyboard so far
  waiting,             \* bytes of the keyboard that have not been read
  irr, isr,            \* the controllers: requests, interrupts in service
  enabled,             \* the interrupt flag
  stack,               \* the handlers that have not returned
  epoch, fattime,
  source,              \* the reading epoch is from (history)
  raced                \* since the last handler on its own, one clock's handler
                       \* has interrupted another (history)

chip  == <<time, mode, ticks, century>>
bytes == <<others, waiting>>
pic   == <<irr, isr>>
store == <<epoch, fattime, source, raced>>
vars  == <<chip, flag, bytes, pic, enabled, stack, store>>

Timer == 0
Kbd   == 1
Slave == 2
Rtc   == 8
Irqs  == {Timer, Kbd, Rtc}

ClockCalls(st) == {k \in DOMAIN st : st[k].irq = Rtc}

\* A call of a handler: where it is, the flag it goes back to, and, of the
\* clock's, what it has read.  History: since which time of which century,
\* whether a second has passed meanwhile, and whether there was no other call of
\* the clock's.
Field == {Fields[k] : k \in 1 .. Len(Fields)}
Steps == {"stub", "run", "epoch", "fattime", "iret"} \cup Field

Called(i) == [irq |-> i, pc |-> "stub", flags |-> enabled, regs |-> <<>>,
              at |-> <<>>, torn |-> FALSE, alone |-> ClockCalls(stack) = {}]

top      == stack[Len(stack)]
below    == SubSeq(stack, 1, Len(stack) - 1)
GoTo(pc) == stack' = Append(below, [top EXCEPT !.pc = pc])

-----------------------------------------------------------------------------
\* Faults: definitions of the next sections as a likely mistake leaves them.
GateOfTraps     == enabled
EoiToOne(i)     == {i}
StatusNotRead   == flag
FieldsFromYear(f) == CASE f = "s" -> "y" [] f = "y" -> "mo" [] f = "mo" -> "d"
                       [] f = "d" -> "h" [] f = "h" -> "m" [] OTHER -> "epoch"

-----------------------------------------------------------------------------
Init ==
  /\ \E c \in Starts : time = c[1] /\ mode = c[2]
  /\ ticks = 0 /\ century = 0
  /\ flag \in BOOLEAN
  /\ others = 0 /\ waiting = 0
  /\ irr = (IF flag THEN {Rtc} ELSE {}) /\ isr = {}
  /\ enabled = TRUE /\ stack = <<>>
  /\ epoch = <<0, 0>> /\ fattime = <<>>
  /\ source = <<>> /\ raced = FALSE

\* Between the first read and the last.
Midway(call) == call.pc \in Field /\ call.regs # <<>>

\* The devices (external).  A request is the edge of a line.
Tick ==
  /\ ticks < MaxTicks /\ ticks' = ticks + 1
  /\ time' = NextSecond(time)
  /\ century' = IF time'.y < time.y THEN century + 1 ELSE century
  /\ flag' = TRUE
  /\ irr' = IF flag THEN irr ELSE irr \cup {Rtc}
  /\ stack' = [k \in DOMAIN stack |->
                 [stack[k] EXCEPT !.torn = @ \/ Midway(stack[k])]]
  /\ UNCHANGED <<mode, bytes, isr, enabled, store>>

TimerTick ==
  /\ others < MaxOthers /\ others' = others + 1
  /\ Timer \notin irr /\ irr' = irr \cup {Timer}
  /\ UNCHANGED <<chip, flag, waiting, isr, enabled, stack, store>>

KeyByte ==
  /\ others < MaxOthers /\ others' = others + 1
  /\ waiting' = waiting + 1
  /\ irr' = IF waiting = 0 THEN irr \cup {Kbd} ELSE irr
  /\ UNCHANGED <<chip, flag, isr, enabled, stack, store>>

-----------------------------------------------------------------------------
\* The controllers give way to what is in service at the same or a higher
\* priority; the second one is line 2 of the first.
Bits(i)  == IF i >= 8 THEN {i, Slave} ELSE {i}
Level(i) == IF i >= 8 THEN Slave ELSE i

Ready(i) == /\ i \in irr
            /\ \A k \in isr : Level(i) < Level(k)
            /\ \A k \in irr \ {i} : Level(i) < Level(k)

FlagInGate == FALSE

Deliver(i) ==
  /\ enabled /\ Ready(i)
  /\ irr' = irr \ {i} /\ isr' = isr \cup Bits(i)
  /\ enabled' = FlagInGate
  /\ stack' = Append([k \in DOMAIN stack |->
                        [stack[k] EXCEPT !.alone = @ /\ i # Rtc]], Called(i))
  /\ raced' = (raced \/ (i = Rtc /\ ClockCalls(stack) # {}))
  /\ UNCHANGED <<chip, flag, bytes, epoch, fattime, source>>

\* irqm, irqs: one controller or both.
Eoi(i) == Bits(i)

Acknowledge ==
  /\ stack # <<>> /\ top.pc = "stub"
  /\ isr' = isr \ Eoi(top.irq)
  /\ GoTo("run")
  /\ UNCHANGED <<chip, flag, bytes, irr, enabled, store>>

Return == stack' = below /\ enabled' = top.flags

\* do_irq0 and do_irq1, up to the iret.
RunPlain ==
  /\ stack # <<>> /\ top.pc = "run" /\ top.irq # Rtc
  /\ IF top.irq = Kbd
     THEN /\ waiting' = waiting - 1
          /\ irr' = IF waiting > 1 THEN irr \cup {Kbd} ELSE irr
     ELSE UNCHANGED <<waiting, irr>>
  /\ Return
  /\ UNCHANGED <<chip, flag, others, isr, store>>

-----------------------------------------------------------------------------
\* do_irq8.  get_cmos leaves the interrupt flag set.
StatusRead == FALSE

ReadStatus ==
  /\ stack # <<>> /\ top.pc = "run" /\ top.irq = Rtc
  /\ flag' = StatusRead
  /\ GoTo(IF flag THEN "s" ELSE "iret")
  /\ enabled' = TRUE
  /\ UNCHANGED <<chip, bytes, pic, store>>

\* rtc_read; the mode, in the last register, does not change.
After(f) == CASE f = "s" -> "m" [] f = "m" -> "h" [] f = "h" -> "d"
              [] f = "d" -> "mo" [] f = "mo" -> "y" [] OTHER -> "epoch"

ReadField ==
  /\ stack # <<>> /\ top.pc \in Field
  /\ LET f == top.pc IN
     stack' = Append(below,
       [top EXCEPT !.pc = After(f),
                   !.regs = [g \in DOMAIN @ \cup {f} |->
                               IF g = f THEN Shown(f, time, mode) ELSE @[g]],
                   !.at = IF top.regs = <<>> THEN <<time, century>> ELSE @])
  /\ enabled' = TRUE
  /\ UNCHANGED <<chip, flag, bytes, pic, store>>

\* print_rtc sets the one, then the other.
SetEpoch ==
  /\ stack # <<>> /\ top.pc = "epoch"
  /\ epoch' = to_epoch(rtc_read(top.regs, mode))
  /\ source' = <<[at |-> top.at, torn |-> top.torn]>>
  /\ GoTo("fattime")
  /\ UNCHANGED <<chip, flag, bytes, pic, enabled, fattime, raced>>

SetFatTime ==
  /\ stack # <<>> /\ top.pc = "fattime"
  /\ fattime' = FatTime(rtc_read(top.regs, mode))
  /\ raced' = (raced /\ ~top.alone)
  /\ GoTo("iret")
  /\ UNCHANGED <<chip, flag, bytes, pic, enabled, epoch, source>>

EndClock ==
  /\ stack # <<>> /\ top.pc = "iret"
  /\ Return
  /\ UNCHANGED <<chip, flag, bytes, pic, store>>

Handler == \/ Acknowledge \/ RunPlain \/ ReadStatus \/ ReadField
           \/ SetEpoch \/ SetFatTime \/ EndClock

\* Nothing is left but main's loop.
Quiet == /\ stack = <<>> /\ irr = {} /\ ticks = MaxTicks /\ others = MaxOthers
         /\ UNCHANGED vars

Interrupt == \E i \in Irqs : Deliver(i)

Next == Quiet \/ Tick \/ TimerTick \/ KeyByte \/ Handler \/ Interrupt

Spec     == Init /\ [][Next]_vars
FairSpec == Spec /\ WF_vars(Handler) /\ WF_vars(Interrupt)

-----------------------------------------------------------------------------
\* Type invariant.  In service are only interrupts whose stub has not got to
\* the acknowledgement.
IsCall(c) ==
  /\ c.irq \in Irqs /\ c.pc \in Steps /\ c.at \in {<<>>} \cup Times \X Nat
  /\ c.flags \in BOOLEAN /\ c.torn \in BOOLEAN /\ c.alone \in BOOLEAN
  /\ DOMAIN c.regs \subseteq Field
  /\ \A f \in DOMAIN c.regs : c.regs[f] \in 0 .. 255

TypeOK ==
  /\ time \in Times /\ mode \in [bcd : BOOLEAN, h24 : BOOLEAN]
  /\ ticks \in 0 .. MaxTicks /\ century \in 0 .. ticks
  /\ flag \in BOOLEAN /\ others \in 0 .. MaxOthers /\ waiting \in 0 .. others
  /\ irr \subseteq Irqs
  /\ isr = UNION {Bits(stack[k].irq) : k \in {l \in DOMAIN stack :
                                                stack[l].pc = "stub"}}
  /\ enabled \in BOOLEAN /\ raced \in BOOLEAN
  /\ \A k \in DOMAIN stack : IsCall(stack[k])

\* Only the clock's handler is ever interrupted, and only behind its first
\* get_cmos (intr.c:26-28, cmos_low.asm:6-15).
OnlyClockInterrupted ==
  \A k \in 1 .. Len(stack) - 1 :
    stack[k].irq = Rtc /\ stack[k].pc \notin {"stub", "run"}

\* epoch is the time of the first read, unless a second has passed before the
\* last, and except where the conversion is wrong: see Missing and Understood
\* (cmos.c:13-56).
EpochRight ==
  \A k \in DOMAIN source : ~source[k].torn =>
    LET t == source[k].at[1]
    IN  epoch = <<DayNumber(t) - Missing(t), Second(Understood(t, mode))>>

\* fattime is the same time to two seconds, between a handler's stores excepted
\* and after handlers that have interrupted each other (cmos.c:63-66).
FatTimeFollows ==
  ~raced /\ source # <<>> /\ (\A k \in DOMAIN stack : stack[k].pc # "fattime") =>
    /\ Days(fattime.d, fattime.mo, fattime.y - 20) = epoch[1]
    /\ epoch[2] - (3600 * fattime.h + 60 * fattime.m + 2 * fattime.s) \in {0, 1}

\* epoch goes back only from a torn reading (a torn one is late, never early),
\* when handlers have interrupted each other, behind a 29 February, on a reading
\* in the afternoon of a clock that shows BCD and twelve hours, and when the
\* century has ended (cmos.c:17, 27-32, 43, 63).
Before(e, f) == e[1] < f[1] \/ (e[1] = f[1] /\ e[2] < f[2])

GoesBackExplained ==
  [][Before(epoch', epoch) =>
       \/ raced \/ source[1].torn \/ century # source[1].at[2]
       \/ Missing(rtc_read(top.regs, mode)) > Missing(source[1].at[1])
       \/ mode.bcd /\ ~mode.h24 /\ top.regs["h"] >= 128]_vars

\* Every second and every byte is seen to: if one were not, no other would come
\* (intr.asm:141-165, cmos.c:72).
RequestsServed == (flag ~> ~flag) /\ (waiting > 0 ~> waiting = 0)
=============================================================================
