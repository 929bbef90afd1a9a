----------------------------- MODULE TextScreen -----------------------------
(***************************************************************************)
(* The text console (driver/screen.c, the TEXT_ functions) with its        *)
(* writers, from the one interrupted first to the one that interrupts all. *)
(* The boot thread (Main) prints one character at a time in write().  The  *)
(* clock handlers (1 .. Clocks) print the time; get_cmos has left          *)
(* interrupts on, so they can be interrupted, also by the clock's next     *)
(* tick if a key has held them up for that long.  The other handlers (Key: *)
(* keyboard, timer, uart) run with interrupts off and to their end; they   *)
(* print, clear, and hide or show the console (keybord_in).                *)
(*                                                                         *)
(* A cell is its character; colours are left out.  The text lives in video *)
(* memory ("vga") or, while the console is hidden, in screen0_buf ("ram"). *)
(***************************************************************************)
EXTENDS Naturals, Sequences

CONSTANTS
  Rows, Cols,    \* TEXT_NUM_ROWS, TEXT_NUM_COLS
  Chars,         \* printable characters
  NewLine,       \* '\n'
  Empty,         \* a cell that TEXT_clear_row has cleared
  Pattern,       \* what the 'D' key paints over a hidden console
  Keys,          \* which of "F1" (clear), "D" (hide), "E" (show) are pressed
  Clocks,        \* how many clock handlers can be nested in one another
  Nesting        \* may a handler start inside a character?

ASSUME ScreenAssumption == /\ Rows \in Nat \ {0} /\ Cols \in Nat \ {0}
                           /\ Clocks \in Nat /\ Nesting \in BOOLEAN
                           /\ Empty \notin Chars \cup {NewLine}

VARIABLES
  cells,         \* what each of the two buffers holds
  buffer,        \* data->buffer
  enabled,       \* data->enabled
  col, row,      \* data->col, data->row
  cursor,        \* where the hardware cursor is
  pc,            \* where each writer is in TEXT_screen_char
  next,          \* what TEXT_newline returns to: the store or the cursor
  old,           \* the col or row a writer has in a register
  line,          \* the row TEXT_newline copies next
  to, at,        \* buffer and index TEXT_screen_char is about to store to
  char,          \* the character being printed
  raced,         \* a handler has started inside a character (history)
  before         \* the text when the character began (history, if ~Nesting)

text   == <<cells, buffer, enabled, cursor>>
locals == <<next, old, line, to, at, char>>
vars   == <<text, col, row, pc, locals, raced, before>>

Main    == 0
Key     == Clocks + 1
Writers == Main .. Key
Buffers == {"vga", "ram"}
Size    == Rows * Cols
Cell    == 0 .. Size - 1

Pc == {"idle", "newline", "row", "inc", "scroll", "wipe", "aim", "store",
       "col", "cursor"}

\* The text a buffer shows, down to the current row: each row up to its first
\* cleared cell.
IsLength(buf, r, n) ==
  /\ \A c \in 0 .. n - 1 : buf[r * Cols + c] # Empty
  /\ n < Cols => buf[r * Cols + n] = Empty

RowText(buf, r) ==
  LET n == CHOOSE m \in 0 .. Cols : IsLength(buf, r, m)
  IN [c \in 1 .. n |-> buf[r * Cols + (c - 1)]]

Lines(buf) == [r \in 1 .. row + 1 |-> RowText(buf, r - 1)]

\* The writers that can interrupt w.  An interrupted writer does not move; a
\* handler starts between two characters or, with Nesting, inside one.
Above(w) == {v \in Writers : v > w}

Running(w) == \A v \in Above(w) : pc[v] = "idle"
At(w, p)   == Running(w) /\ pc[w] = p

Quiet == \A w \in Writers : pc[w] = "idle"
MayStart(w) == (w # Main /\ Nesting) \/ Quiet
Racing      == raced' = (raced \/ ~Quiet)

Goto(w, p) == pc' = [pc EXCEPT ![w] = p]

-----------------------------------------------------------------------------
\* drv_screen_text_init, set_enabled(2) and clear: the console is enabled on
\* video memory, which then shows this.
Start(shown) ==
  /\ cells = [b \in Buffers |-> shown]
  /\ buffer = "vga" /\ enabled = TRUE
  /\ col = 0 /\ row = 0 /\ cursor = 0
  /\ pc = [w \in Writers |-> "idle"]
  /\ next = [w \in Writers |-> "aim"]
  /\ old = [w \in Writers |-> 0] /\ line = old
  /\ at = old /\ to = [w \in Writers |-> "vga"]
  /\ char = [w \in Writers |-> NewLine]
  /\ raced = FALSE
  /\ before = << <<>> >>

Init == Start([i \in Cell |-> Empty])

-----------------------------------------------------------------------------
\* Faults: definitions of the next section as a likely mistake leaves them;
\* none is part of the specification.
NeverFull     == FALSE
StoresToo(ch) == "aim"            \* a newline is stored like a character
NeverLast     == FALSE
RowBelow      == Rows
InPlace       == "vga"
NotCopied     == cells["vga"]

-----------------------------------------------------------------------------
Full        == col >= Cols
Returns(ch) == IF ch = NewLine THEN "cursor" ELSE "aim"

\* TEXT_screen_char is entered and looks at the column.  (A local goes back to
\* its first value as soon as the code no longer uses it.)
Begin(w, ch) ==
  /\ At(w, "idle")
  /\ MayStart(w)
  /\ char' = [char EXCEPT ![w] = ch]
  /\ next' = [next EXCEPT ![w] = Returns(ch)]
  /\ Goto(w, IF ch = NewLine \/ Full THEN "newline" ELSE "aim")
  /\ Racing
  /\ before' = IF Nesting THEN before ELSE Lines(cells[buffer])
  /\ UNCHANGED <<text, col, row, old, line, to, at>>

\* TEXT_newline: the column goes to 0 ...
Newline(w) ==
  /\ At(w, "newline")
  /\ col' = 0
  /\ Goto(w, "row")
  /\ UNCHANGED <<text, row, locals, raced, before>>

\* ... the row is looked at ...
LastRow == row >= Rows - 1

LookAtRow(w) ==
  /\ At(w, "row")
  /\ \/ /\ ~LastRow
        /\ old' = [old EXCEPT ![w] = row]
        /\ Goto(w, "inc")
        /\ UNCHANGED line
     \/ /\ LastRow
        /\ line' = [line EXCEPT ![w] = 1]
        /\ Goto(w, IF Rows > 1 THEN "scroll" ELSE "wipe")
        /\ UNCHANGED old
  /\ UNCHANGED <<text, col, row, next, to, at, char, raced, before>>

\* ... and, if it is not the last, incremented: the compiler may use the value
\* it has just compared or load it again.
IncRow(w) ==
  /\ At(w, "inc")
  /\ \E r \in {row, old[w]} : row' = r + 1
  /\ old' = [old EXCEPT ![w] = 0]
  /\ Goto(w, next[w])
  /\ UNCHANGED <<text, col, next, line, to, at, char, raced, before>>

\* On the last row every row is copied to the one above it, ...
Scroll(w) ==
  /\ At(w, "scroll")
  /\ cells' = [cells EXCEPT ![buffer] =
       [i \in Cell |-> IF i \div Cols = line[w] - 1
                       THEN cells[buffer][i + Cols] ELSE cells[buffer][i]]]
  /\ line' = [line EXCEPT ![w] = line[w] + 1]
  /\ Goto(w, IF line[w] + 1 < Rows THEN "scroll" ELSE "wipe")
  /\ UNCHANGED <<buffer, enabled, cursor, col, row, next, old, to, at, char,
                 raced, before>>

\* ... and the last one is cleared.
Wiped == Rows - 1

Wipe(w) ==
  /\ At(w, "wipe")
  /\ cells' = [cells EXCEPT ![buffer] =
       [i \in Cell |-> IF i \div Cols = Wiped THEN Empty
                       ELSE cells[buffer][i]]]
  /\ line' = [line EXCEPT ![w] = 0]
  /\ Goto(w, next[w])
  /\ UNCHANGED <<buffer, enabled, cursor, col, row, next, old, to, at, char,
                 raced, before>>

\* The address of the cell is computed from buffer, col and row ...
Aim(w) ==
  /\ At(w, "aim")
  /\ to' = [to EXCEPT ![w] = buffer]
  /\ at' = [at EXCEPT ![w] = col + row * Cols]
  /\ old' = [old EXCEPT ![w] = col]
  /\ Goto(w, "store")
  /\ UNCHANGED <<text, col, row, next, line, char, raced, before>>

\* ... and the character is stored there, in the buffer or behind its end.
Store(w) ==
  /\ At(w, "store")
  /\ cells' = IF at[w] \in Cell THEN [cells EXCEPT ![to[w]][at[w]] = char[w]]
              ELSE cells
  /\ to' = [to EXCEPT ![w] = "vga"] /\ at' = [at EXCEPT ![w] = 0]
  /\ char' = [char EXCEPT ![w] = NewLine]
  /\ Goto(w, "col")
  /\ UNCHANGED <<buffer, enabled, cursor, col, row, next, old, line, raced,
                 before>>

IncCol(w) ==
  /\ At(w, "col")
  /\ \E c \in {col, old[w]} : col' = c + 1
  /\ old' = [old EXCEPT ![w] = 0]
  /\ Goto(w, "cursor")
  /\ UNCHANGED <<text, row, next, line, to, at, char, raced, before>>

\* TEXT_cursor_move, on an enabled console; the function returns.
MoveCursor(w) ==
  /\ At(w, "cursor")
  /\ cursor' = IF enabled THEN row * Cols + col ELSE cursor
  /\ pc' = [pc EXCEPT ![w] = "idle"]
  /\ next' = [next EXCEPT ![w] = "aim"]
  /\ UNCHANGED <<cells, buffer, enabled, col, row, old, line, to, at, char,
                 raced, before>>

\* TEXT_screen_clear, from a function key.  It mends whatever an earlier race
\* has left, unless it is itself in the middle of a character.
Clear ==
  /\ "F1" \in Keys
  /\ At(Key, "idle") /\ MayStart(Key)
  /\ cells' = [cells EXCEPT ![buffer] = [i \in Cell |-> Empty]]
  /\ cursor' = IF enabled THEN 0 ELSE cursor
  /\ col' = 0 /\ row' = 0
  /\ raced' = ~Quiet
  /\ UNCHANGED <<buffer, enabled, pc, locals, before>>

\* set_enabled(0, screen0_buf), from the 'D' key, which then paints over the
\* video memory.
Hidden == "ram"

Hide ==
  /\ "D" \in Keys
  /\ At(Key, "idle") /\ MayStart(Key)
  /\ cells' = [b \in Buffers |-> IF b = "vga" THEN [i \in Cell |-> Pattern]
                                 ELSE IF buffer # "ram" THEN cells["vga"]
                                 ELSE cells["ram"]]
  /\ enabled' = FALSE /\ buffer' = Hidden
  /\ Racing
  /\ UNCHANGED <<cursor, col, row, pc, locals, before>>

\* set_enabled(1), from the 'E' key.
Text == cells[buffer]

Show ==
  /\ "E" \in Keys
  /\ At(Key, "idle") /\ MayStart(Key)
  /\ cells' = [cells EXCEPT !["vga"] = Text]
  /\ enabled' = TRUE /\ buffer' = "vga"
  /\ cursor' = row * Cols + col
  /\ Racing
  /\ UNCHANGED <<col, row, pc, locals, before>>

Step(w) == \/ Newline(w) \/ LookAtRow(w) \/ IncRow(w) \/ Scroll(w) \/ Wipe(w)
           \/ Aim(w) \/ Store(w) \/ IncCol(w) \/ MoveCursor(w)

Next == \/ \E w \in Writers : \/ Step(w)
                              \/ \E ch \in Chars \cup {NewLine} : Begin(w, ch)
        \/ Clear \/ Hide \/ Show

Spec == Init /\ [][Next]_vars

-----------------------------------------------------------------------------
\* Type invariant.
TypeOK ==
  /\ cells \in [Buffers -> [Cell -> Chars \cup {Empty, Pattern}]]
  /\ buffer \in Buffers /\ enabled \in BOOLEAN
  /\ col \in Nat /\ row \in Nat /\ cursor \in Nat
  /\ pc \in [Writers -> Pc] /\ next \in [Writers -> {"aim", "cursor"}]
  /\ old \in [Writers -> Nat] /\ line \in [Writers -> Nat]
  /\ to \in [Writers -> Buffers] /\ at \in [Writers -> Nat]
  /\ char \in [Writers -> Chars \cup {NewLine}]
  /\ raced \in BOOLEAN /\ before \in Seq(Seq(Chars))

\* However the writers interleave, each of those that can be interrupted, main
\* and the clock handlers that are nested, acts at most once on a look that has
\* become stale: row and column get behind the screen by no more than there are
\* of them, and a store no further behind the buffer than that puts it
\* (screen.c:49-62, 79-82; cmos.c:58; cmos_low.asm:14).
Beyond == Clocks + 1

DamageBounded ==
  /\ row < Rows + Beyond /\ col <= Cols + Beyond
  /\ \A w \in Writers :
       pc[w] = "store" => at[w] < (Rows + Clocks) * Cols + Cols + Beyond

\* Unless a handler has started inside a character since the last clear, every
\* store is inside the buffer the console is using (screen.c:80-81).
StoresInside ==
  ~raced => \A w \in Writers :
     pc[w] = "store" => at[w] \in Cell /\ to[w] = buffer

\* ... and between characters the text has no holes: each row is filled from
\* the left, the current one up to the column, and those below are empty, so
\* that TEXT_newline need not clear the row it moves to (screen.c:49-62, 79-84).
TextWellFormed ==
  ~raced /\ Quiet =>
     /\ row < Rows /\ col <= Cols
     /\ \A i \in Cell :
          /\ i >= row * Cols + col => cells[buffer][i] = Empty
          /\ i \div Cols = row /\ i < row * Cols + col => cells[buffer][i] # Empty
          /\ i % Cols > 0 /\ cells[buffer][i] # Empty =>
                cells[buffer][i - 1] # Empty

\* While the console is hidden, nothing is printed over what 'D' painted, and
\* while it is shown the cursor follows the text; handlers that start between
\* two characters do not change that (screen.c:75-76, 83, 98-122).
HiddenOrFollowed ==
  /\ ~enabled => \A i \in Cell : cells["vga"][i] = Pattern
  /\ enabled /\ Quiet => cursor = row * Cols + col

\* A character is a single step of the abstract console, taken when it is
\* complete; hiding and showing are no step at all.
Abstract == INSTANCE Console WITH
  lines <- IF Quiet THEN Lines(cells[buffer]) ELSE before
ImplementsConsole == Abstract!ConsoleSpec
=============================================================================
