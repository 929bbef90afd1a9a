------------------------------ MODULE Keyboard ------------------------------
(***************************************************************************)
(* The keyboard (driver/kbd.c): a typist, the keyboard that turns keys     *)
(* into bytes of scan code set 1, and the driver that turns bytes into     *)
(* characters.  It has no next-state relation of its own: whoever extends  *)
(* it says when interrupt 1 comes and what the callback does.              *)
(***************************************************************************)
EXTENDS Naturals, Sequences

CONSTANT Room      \* bytes the keyboard keeps

ASSUME RoomAssumption == Room \in Nat

VARIABLES
  down, last,      \* the keys held, and the one that repeats
  capsOn,          \* what the typist has made of Caps Lock
  queue,           \* bytes on their way, each with what is wanted of it
  lost,            \* a key has not found room
  odd,             \* keys after which the driver may be mistaken: see Odd
  status,          \* kbd_status
  typed            \* the last call of in_clb: what it was given, and ought to

typist == <<down, last, capsOn, odd>>
keys   == <<typist, queue, lost, status, typed>>

None   == "none"
Shifts == {"lshift", "rshift"}
Ctrls  == {"ctrl", "rctrl"}

Code == [lshift |-> 42, rshift |-> 54, ctrl |-> 29, rctrl |-> 29, caps |-> 58, up |-> 72,
         x |-> 45, d |-> 32, one |-> 2, f7 |-> 65]
Keys == DOMAIN Code \cup {"prtsc", "pause"}

\* What a code stands for, without and with Shift; 0 is a hole in both maps.
map       == [c \in {45, 32, 2, 65, 72} |->
                CASE c = 45 -> "x" [] c = 32 -> "d" [] c = 2 -> "1"
                  [] c = 65 -> "F7" [] c = 72 -> "Up"]
shift_map == [map EXCEPT ![45] = "X", ![32] = "D", ![2] = "!"]
Letter    == {45, 32}

-----------------------------------------------------------------------------
\* Faults: definitions of the next section as a likely mistake leaves them;
\* none is part of the specification.
ModifierNoTwin(code)     == CASE code = 42 -> {"shift"} [] code = 29 -> {"ctrl"}
                              [] OTHER -> {}
UpperWhateverCaps(st, c) == "shift" \in st

-----------------------------------------------------------------------------
\* The keyboard (external).  Keys between the blocks are preceded by 224 and,
\* under Shift, wrapped in its break and make; PrtSc in its make and break.
\* This is the keyboard with Num Lock off; the Alt keys, which share a bit as
\* the Ctrl keys do, are left out.
Held     == down \cap Shifts # {}
CtrlHeld == down \cap Ctrls # {}

MakeBytes(k) ==
  CASE k = "up" -> (IF Held THEN <<224, 170>> ELSE <<>>) \o <<224, 72>>
    [] k = "prtsc" -> (IF Held \/ CtrlHeld THEN <<>> ELSE <<224, 42>>)
                        \o <<224, 55>>
    [] k = "rctrl" -> <<224, 29>>
    [] k = "pause" -> IF CtrlHeld THEN <<224, 70, 224, 198>>
                      ELSE <<225, 29, 69, 225, 157, 197>>
    [] OTHER -> <<Code[k]>>

RepeatBytes(k) == IF k \in {"up", "prtsc"}
                  THEN SubSeq(MakeBytes(k), Len(MakeBytes(k)) - 1, Len(MakeBytes(k)))
                  ELSE MakeBytes(k)

BreakBytes(k) ==
  CASE k = "up" -> <<224, 200>> \o (IF Held THEN <<224, 42>> ELSE <<>>)
    [] k = "prtsc" -> <<224, 183>> \o (IF Held \/ CtrlHeld THEN <<>>
                                       ELSE <<224, 170>>)
    [] k = "rctrl" -> <<224, 157>>
    [] k = "pause" -> <<>>
    [] OTHER -> <<Code[k] + 128>>

\* The character a key stands for, and the modifiers the callback is told.
\* Letters are capitals under Shift or under Caps Lock, not under both, and not
\* with Ctrl.
Modifiers == (IF Held THEN {"shift"} ELSE {}) \cup (IF CtrlHeld THEN {"ctrl"} ELSE {})

Wanted(k) ==
  LET c == Code[k]
      upper == IF c \in Letter
               THEN ~CtrlHeld /\ Held # capsOn ELSE Held
  IN  <<(IF upper THEN shift_map ELSE map)[c], Modifiers>>

Send(bytes, want) ==
  IF Len(queue) + Len(bytes) > Room
  THEN lost' = TRUE /\ UNCHANGED queue
  ELSE /\ queue' = queue \o [n \in 1 .. Len(bytes) |->
                     [code |-> bytes[n],
                      want |-> IF n = Len(bytes) THEN want ELSE <<>>]]
       /\ UNCHANGED lost

\* The driver has one bit for both Shift keys, one for both Ctrl keys, and takes
\* the wrapping for a key; Caps Lock repeats.  "shift" is over when no key is
\* held, "ctrl" when no Ctrl is; but PrtSc let go under Ctrl leaves the Shift
\* bit "stuck" until Shift is let go.
Odd(k) == IF k \in {"up", "prtsc"} /\ Len(MakeBytes(k)) = 4 THEN odd \cup {"shift"}
          ELSE odd

Certain(k) == /\ ~lost /\ k \in DOMAIN Code /\ Code[k] \in DOMAIN map
              /\ odd \subseteq {"caps"} /\ (Code[k] \in Letter => "caps" \notin odd)

Press(k) ==
  /\ k \notin down /\ down' = down \cup {k} /\ last' = k
  /\ odd' = Odd(k)
  /\ capsOn' = (capsOn # (k = "caps"))
  /\ Send(MakeBytes(k), IF Certain(k) /\ Odd(k) = odd THEN Wanted(k) ELSE <<>>)
  /\ UNCHANGED <<status, typed>>

Repeat ==
  /\ last \in down \ {"pause"}
  /\ odd' = odd \cup (IF last = "caps" THEN {"caps"} ELSE {})
  /\ Send(RepeatBytes(last), IF Certain(last) THEN Wanted(last) ELSE <<>>)
  /\ UNCHANGED <<down, last, capsOn, status, typed>>

Release(k) ==
  /\ k \in down /\ down' = down \ {k}
  /\ last' = IF last = k THEN None ELSE last
  /\ odd' = LET twin  == IF Shifts \subseteq down /\ k \in Shifts THEN {"shift"}
                         ELSE IF Ctrls \subseteq down /\ k \in Ctrls THEN {"ctrl"} ELSE {}
                stuck == IF k = "prtsc" /\ "shift" \in odd /\ Len(BreakBytes(k)) = 2
                         THEN {"stuck"} ELSE {}
                over  == (IF down = {k} THEN {"shift"} ELSE {})
                         \cup (IF k \in Shifts THEN {"stuck"} ELSE {})
                         \cup (IF down \cap Ctrls = {k} THEN {"ctrl"} ELSE {})
            IN  (odd \ over) \cup twin \cup stuck
  /\ Send(BreakBytes(k), <<>>)
  /\ UNCHANGED <<capsOn, status, typed>>

-----------------------------------------------------------------------------
\* drv_kbd_init's share, and what precedes it.
KeyboardInit ==
  /\ down = {} /\ last = None /\ capsOn = FALSE /\ odd = {}
  /\ queue = <<>> /\ lost = FALSE /\ status = {} /\ typed = <<>>

\* set1_scancode_to_ascii.  A byte of 128 or more is the break of the rest:
\* also 224, 225, and the keyboard's answers.
Modifier(code) == CASE code \in {42, 54} -> {"shift"} [] code = 29 -> {"ctrl"}
                    [] code = 56 -> {"alt"} [] OTHER -> {}
Lock(code)     == CASE code = 58 -> {"caps"} [] code = 69 -> {"num"}
                    [] code = 70 -> {"scroll"} [] OTHER -> {}
Special(st)    == st \cap {"shift", "ctrl", "alt"}

Upper(st, c) ==
  IF c \notin Letter THEN "shift" \in st
  ELSE IF "shift" \in st THEN "caps" \notin st /\ Special(st) = {"shift"}
  ELSE "caps" \in st /\ Special(st) = {}

Ascii(st, c) == IF Upper(st, c) THEN shift_map[c] ELSE map[c]

\* The status after a byte, and what the callback is given, if anything.
NewStatus(code) ==
  IF code >= 128 THEN status \ Modifier(code - 128)
  ELSE (status \cup Modifier(code) \cup Lock(code)) \ (status \cap Lock(code))

Given(code) == IF code < 128 /\ code \in DOMAIN map
               THEN <<Ascii(status, code), Special(status)>> ELSE <<>>

\* Two bytes for the lights, each answered by 250, if the controller takes them.
Answers(code) == IF code < 128 /\ Lock(code) # {} THEN {0, 2} ELSE {0}
Answer        == [code |-> 250, want |-> <<>>]

\* do_irq1: one byte.  What it gives goes to the callback, in_clb.
do_irq1 ==
  /\ queue # <<>>
  /\ LET byte == Head(queue) IN
     /\ status' = NewStatus(byte.code)
     /\ \E n \in Answers(byte.code) :
          queue' = Tail(queue) \o [k \in 1 .. n |-> Answer]
     /\ typed' = IF Given(byte.code) = <<>> THEN typed
                 ELSE [given |-> Given(byte.code), want |-> byte.want]
  /\ UNCHANGED <<typist, lost>>

-----------------------------------------------------------------------------
\* Type invariant.  A byte that is read can leave two answers in its place.
KeyboardTypeOK ==
  /\ down \subseteq Keys /\ last \in Keys \cup {None} /\ capsOn \in BOOLEAN
  /\ odd \subseteq {"shift", "stuck", "caps", "ctrl"} /\ lost \in BOOLEAN
  /\ Len(queue) <= 2 * Room
  /\ \A n \in DOMAIN queue : queue[n].code \in 0 .. 255
  /\ status \subseteq {"shift", "ctrl", "alt", "caps", "num", "scroll"}

\* When every byte has been read and none was lost, a modifier that is set is
\* held, prefixes, wrapped keys and answers notwithstanding, and one that is
\* held is set, with the exceptions of a driver that has one bit for two keys
\* (kbd.c:103-130): after one of two Shift or two Ctrl keys is let go its bit is
\* clear until the other repeats or goes down again; a key between the blocks
\* under Shift, and PrtSc, clear or set the Shift bit until no key is held; and
\* PrtSc let go under Ctrl leaves it set until a Shift is let go.  Caps Lock is
\* as the typist has made it until its key is held long enough to repeat.
ModifierHeld ==
  queue = <<>> /\ ~lost =>
    /\ "ctrl" \in status => CtrlHeld
    /\ "ctrl" \notin odd => ("ctrl" \in status <=> CtrlHeld)
    /\ "shift" \in status =>
         down \cap (Shifts \cup {"prtsc"}) # {} \/ "stuck" \in odd
    /\ odd \cap {"shift", "stuck"} = {} => ("shift" \in status <=> Held)
    /\ "caps" \notin odd => ("caps" \in status <=> capsOn)

\* A key gives the character it stood for when it went down or repeated, and
\* the modifiers held then, however late its bytes are read (kbd.c:102-185):
\* each that goes down or repeats while no byte has been lost and none of
\* ModifierHeld's exceptions lasts; that of Caps Lock touches letters only.
CaseRight == typed # <<>> /\ typed.want # <<>> => typed.given = typed.want
=============================================================================
