------------------------------ MODULE Screens ------------------------------
(***************************************************************************)
(* The console the kernel prints on: the text console, or the graphics     *)
(* console (driver/screen.c, the GRAPHIC_ functions), whichever            *)
(* init_screen installs for the loader's frame buffer.  They have the same *)
(* writers and the same position; the graphics console goes to the next    *)
(* line after a character and not before one, has no cursor, and clears    *)
(* only part of a row at 24 bits.  It is never hidden: 'D' would copy the  *)
(* frame buffer over the kernel (see Boot).                                *)
(*                                                                         *)
(* A cell holds the character last drawn in it; a row of characters is     *)
(* copied in one step, and the byte a 24-bit glyph can leave in the pixel  *)
(* to its right is left out.                                               *)
(***************************************************************************)
EXTENDS TextScreen

CONSTANT Depths    \* the frame buffers there are: 0 for text, or bits per pixel

ASSUME DepthAssumption == Depths \subseteq {0, 15, 16, 24, 32}

VARIABLE bpp       \* data->bpp, or 0 for the text console

Graphic == bpp # 0
Bytes   == (bpp + 7) \div 8

-----------------------------------------------------------------------------
\* A fault, as in TextScreen: the turn to the next line is left out.
NoEdge(c) == FALSE

-----------------------------------------------------------------------------
\* GRAPHIC_clear_row writes two bytes for each pixel of a row, or four at 32
\* bits; the branch for 24 bits asks for 32 again and is never taken.
Cleared(c) == bpp = 32 \/ (c + 1) * Bytes <= Cols * 2

Row(r, buf) ==
  [i \in Cell |-> IF i \div Cols = r /\ Cleared(i % Cols) THEN Empty ELSE buf[i]]

\* GRAPHIC_screen_char: a newline goes to GRAPHIC_newline and returns ("cursor"
\* is where either function ends), anything else is drawn.
BeginGraphic(w, ch) ==
  /\ At(w, "idle")
  /\ MayStart(w)
  /\ char' = [char EXCEPT ![w] = ch]
  /\ \/ /\ ch = NewLine
        /\ next' = [next EXCEPT ![w] = "cursor"]
        /\ Goto(w, "newline")
     \/ ch # NewLine /\ Goto(w, "aim") /\ UNCHANGED next
  /\ Racing
  /\ UNCHANGED <<text, col, row, old, line, to, at, before>>

\* putchar_font.  A glyph beyond the right edge is drawn on the left, one pixel
\* line lower, over two cells, or between the lines if they are further apart.
Glyph(w) ==
  IF old[w] < Cols
  THEN IF at[w] \in Cell THEN [cells[to[w]] EXCEPT ![at[w]] = char[w]]
       ELSE cells[to[w]]
  ELSE [i \in Cell |-> IF i \in {at[w] - Cols, at[w]} THEN Pattern
                       ELSE cells[to[w]][i]]

Draw(w) ==
  /\ At(w, "store")
  /\ \E seen \in {cells[to[w]], Glyph(w)} :
       /\ old[w] < Cols => seen = Glyph(w)
       /\ cells' = [cells EXCEPT ![to[w]] = seen]
  /\ to' = [to EXCEPT ![w] = "vga"] /\ at' = [at EXCEPT ![w] = 0]
  /\ char' = [char EXCEPT ![w] = NewLine]
  /\ Goto(w, "col")
  /\ UNCHANGED <<buffer, enabled, cursor, col, row, next, old, line, raced,
                 before>>

\* The column is incremented and compared, each time from memory or from a
\* register; next is "aim" until it has been compared.
AtEdge(c) == c >= Cols

Turn(w, c) ==
  /\ Goto(w, IF AtEdge(c) THEN "newline" ELSE "cursor")
  /\ next' = [next EXCEPT ![w] = "cursor"]

Advance(w) ==
  /\ At(w, "col")
  /\ \E c \in {col, old[w]} :
       /\ col' = c + 1
       /\ Turn(w, c + 1) \/ (Goto(w, "cursor") /\ UNCHANGED next)
  /\ old' = [old EXCEPT ![w] = 0]
  /\ UNCHANGED <<text, row, line, to, at, char, raced, before>>

Compare(w) ==
  /\ At(w, "cursor") /\ next[w] = "aim"
  /\ Turn(w, col)
  /\ UNCHANGED <<text, col, row, old, line, to, at, char, raced, before>>

Return(w) ==
  /\ At(w, "cursor") /\ next[w] = "cursor"
  /\ pc' = [pc EXCEPT ![w] = "idle"]
  /\ next' = [next EXCEPT ![w] = "aim"]
  /\ UNCHANGED <<text, col, row, old, line, to, at, char, raced, before>>

\* The end of GRAPHIC_newline on the last row.
WipeGraphic(w) ==
  /\ At(w, "wipe")
  /\ cells' = [cells EXCEPT ![buffer] = Row(Rows - 1, cells[buffer])]
  /\ line' = [line EXCEPT ![w] = 0]
  /\ Goto(w, next[w])
  /\ UNCHANGED <<buffer, enabled, cursor, col, row, next, old, to, at, char,
                 raced, before>>

\* GRAPHIC_screen_clear, every row of it.
Blank(buf) == [i \in Cell |-> IF Cleared(i % Cols) THEN Empty ELSE buf[i]]

ClearGraphic ==
  /\ "F1" \in Keys
  /\ At(Key, "idle") /\ MayStart(Key)
  /\ cells' = [cells EXCEPT ![buffer] = Blank(cells[buffer])]
  /\ col' = 0 /\ row' = 0
  /\ raced' = ~Quiet
  /\ UNCHANGED <<buffer, enabled, cursor, pc, locals, before>>

NextGraphic ==
  \/ \E w \in Writers :
       \/ \E ch \in Chars \cup {NewLine} : BeginGraphic(w, ch)
       \/ Newline(w) \/ LookAtRow(w) \/ IncRow(w) \/ Scroll(w) \/ WipeGraphic(w)
       \/ Aim(w) \/ Draw(w) \/ Advance(w) \/ Compare(w) \/ Return(w)
  \/ ClearGraphic

\* init_screen: what it paints shows where the clear does not reach.
InitScreens ==
  /\ bpp \in Depths
  /\ Start(IF Graphic THEN Blank([i \in Cell |-> Pattern]) ELSE [i \in Cell |-> Empty])

NextScreens == /\ UNCHANGED bpp
               /\ \/ ~Graphic /\ Next
                  \/ Graphic /\ NextGraphic

SpecScreens == InitScreens /\ [][NextScreens]_<<vars, bpp>>

-----------------------------------------------------------------------------
\* What TextWellFormed says of the text console holds of the graphics console
\* up to the edge that its clear reaches, two thirds of a row at 24 bits; and
\* between characters it has room for one (screen.c:221-275).
ScreenWellFormed ==
  IF ~Graphic THEN TextWellFormed
  ELSE ~raced /\ Quiet =>
     /\ row < Rows /\ col < Cols
     /\ \A i \in Cell : bpp # 24 \/ 3 * ((i % Cols) + 1) <= 2 * Cols =>
          /\ i >= row * Cols + col => cells[buffer][i] = Empty
          /\ i \div Cols = row /\ i < row * Cols + col => cells[buffer][i] # Empty
          /\ i % Cols > 0 /\ cells[buffer][i] # Empty =>
                cells[buffer][i - 1] # Empty
=============================================================================
