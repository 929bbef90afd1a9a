--------------------------- MODULE ScreensProofs ---------------------------
(***************************************************************************)
(* Both consoles, whichever init_screen installs, for every screen size    *)
(* and depth.  The text console is TextScreen's, so what is proved of that *)
(* holds here; the graphics console has its own steps.  It compares the    *)
(* column after a character and not before one: a writer that has counted  *)
(* and not yet compared is one column ahead, and each of them may be.      *)
(* What the text console's invariant says of all cells holds of those that *)
(* the clear of a row reaches.                                             *)
(***************************************************************************)
EXTENDS Screens, TextScreenProofs

\* The part of the type invariant that is not in Types or Lined.
Sheet == /\ cells \in [Buffers -> [Cell -> Chars \cup {Empty, Pattern}]]
         /\ Rest

\* Where a writer is in GRAPHIC_screen_char, and what it draws.
Entering == {"newline", "row", "inc", "scroll", "wipe"}
Drawing  == {"aim", "store"}

Brushes == /\ char \in [Writers -> Chars \cup {NewLine}]
           /\ \A w \in Writers :
                /\ pc[w] \in {"idle", "aim", "store", "col"} => next[w] = "aim"
                /\ pc[w] \in Entering => next[w] = "cursor"
                /\ pc[w] \in Drawing => char[w] # NewLine

\* A writer that has counted the column up and has not yet compared it, or has
\* and goes to the next line.
Passed(w) == pc[w] = "newline" \/ (pc[w] = "cursor" /\ next[w] = "aim")
Ahead(w)  == IF Passed(w) THEN 1 ELSE 0
Leading   == {w \in Writers : Passed(w)}

EdgeRoom ==
  /\ col + 1 <= Cols + Cardinality(Leading)
  /\ \A w \in Writers : Aimed(w) =>
       old[w] + 1 <= Cols + Cardinality(Below(Leading, w))

Edges == Numbers /\ RowRoom /\ EdgeRoom /\ StoreBound

\* Without a race there is room for a character between two of them.
Roomy == /\ Unraced
         /\ ~raced /\ (\A w \in Writers : ~Passed(w)) => col < Cols

-----------------------------------------------------------------------------
LEMMA EdgesInit == InitScreens => Types /\ Lined /\ Edges /\ Roomy
<1> SUFFICES ASSUME InitScreens PROVE Types /\ Lined /\ Edges /\ Roomy
  OBVIOUS
<1>1. Types /\ Lined
  BY DEF InitScreens, Start, Types, Numbers, Buffers, Pc, Lined
<1>2. /\ \A w \in Writers : pc[w] = "idle"
      /\ col = 0 /\ row = 0
  BY DEF InitScreens, Start
<1>3. Edges
  <2>1. RowOwing = {} /\ Leading = {}
    BY <1>2 DEF RowOwing, Leading, Passed
  <2>2. Cardinality({}) = 0
    BY FS_EmptySet
  <2> QED BY <1>1, <1>2, <2>1, <2>2, Sizes, Levels
          DEF Types, Edges, RowRoom, EdgeRoom, StoreBound, Aimed
<1>4. Roomy
  BY <1>2, Sizes DEF Roomy, Unraced, Alone, Fresh
<1> QED BY <1>1, <1>3, <1>4

\* The column stays as close as the writers that lead allow, if w only steps
\* back, leaves room for itself, or counts its register up and leads.
LEMMA EdgeStep ==
  ASSUME Numbers, Numbers', EdgeRoom, NEW w \in Writers, Turns(w),
         \/ col' + Ahead(w) <= col + Ahead(w)'
         \/ col' + 1 <= Cols + Ahead(w)'
         \/ Aimed(w) /\ col' <= old[w] + Ahead(w)',
         Aimed(w)' => \/ Aimed(w) /\ old'[w] = old[w]
                      \/ ~Passed(w) /\ old'[w] = col
  PROVE  EdgeRoom'
<1>0. \A v \in Writers : v \in Int
  BY Levels DEF Writers, Main, Key
<1>1. /\ Leading \in SUBSET Writers /\ Leading' \in SUBSET Writers
      /\ Leading \ {w} = Leading' \ {w}
      /\ \A v \in Leading \cup Leading' : v <= w
  <2>1. \A v \in Writers : Passed(v) \/ Passed(v)' => v <= w
    BY <1>0, TurnKeeps DEF Passed
  <2>2. \A v \in Writers \ {w} : Passed(v)' <=> Passed(v)
    BY DEF Turns, Passed
  <2> QED BY <2>1, <2>2 DEF Leading
<1>2. PICK S \in SUBSET Writers, T \in SUBSET Writers :
        S = Leading /\ T = Leading'
  BY <1>1
<1>3. PICK r \in 0 .. Beyond :
        /\ Cardinality(S) = r + (IF w \in S THEN 1 ELSE 0)
        /\ Cardinality(T) = r + (IF w \in T THEN 1 ELSE 0)
        /\ Cardinality(Below(S, w)) = r
        /\ Cardinality(Below(T, w)) = r
  BY <1>1, <1>2, Owed
<1>4. \A v \in Writers : v < w => Below(S, v) = Below(T, v)
  BY <1>1, <1>2, Owed
<1>5. /\ Cardinality(Leading) = r + Ahead(w)
      /\ Cardinality(Leading)' = r + Ahead(w)'
      /\ Cardinality(Below(Leading, w)) = r
      /\ Cardinality(Below(Leading, w))' = r
  BY <1>2, <1>3 DEF Leading, Ahead, Below
<1>6. PICK a \in 0 .. 1, b \in 0 .. 1, o \in Nat, p \in Nat, x \in Nat, y \in Nat :
        /\ a = Ahead(w) /\ b = Ahead(w)' /\ x = col /\ y = col'
        /\ o = old[w] /\ p = old'[w]
  BY DEF Ahead, Numbers
<1>7. r \in Nat /\ Cols \in Nat
  BY Sizes, Levels
<1>8. x + 1 <= Cols + (r + a) /\ (Aimed(w) => o + 1 <= Cols + r)
  <2>1. Aimed(w) => old[w] + 1 <= Cols + Cardinality(Below(Leading, w))
    BY DEF EdgeRoom
  <2> QED BY <1>5, <1>6, <2>1 DEF EdgeRoom
<1>9. (col + 1 <= Cols + Cardinality(Leading))'
  <2>1. y + a <= x + b \/ y + 1 <= Cols + b \/ (o + 1 <= Cols + r /\ y <= o + b)
    BY <1>6, <1>8
  <2>2. x + 1 <= Cols + (r + a)
    BY <1>8
  <2>3. y + 1 <= Cols + (r + b)
    BY ONLY <1>7, <2>1, <2>2, a \in 0 .. 1, b \in 0 .. 1, o \in Nat, x \in Nat,
            y \in Nat
  <2> QED BY <1>5, <1>6, <2>3
<1>10. ASSUME NEW v \in Writers, Aimed(v)'
       PROVE  old'[v] + 1 <= Cols + Cardinality(Below(Leading, v))'
  <2>1. CASE v < w
    <3>1. Aimed(v) /\ old'[v] = old[v]
      BY <1>10, <2>1, TurnKeeps DEF Aimed
    <3>2. Below(Leading, v) = Below(Leading, v)'
      BY <1>2, <1>4, <2>1 DEF Below
    <3> QED BY <3>1, <3>2 DEF EdgeRoom
  <2>2. CASE v = w
    <3>1. p + 1 <= Cols + r
      <4>1. CASE Aimed(w) /\ old'[w] = old[w]
        BY <1>6, <1>8, <4>1
      <4>2. CASE ~Passed(w) /\ old'[w] = col
        BY <1>6, <1>7, <1>8, <4>2 DEF Ahead
      <4> QED BY <1>10, <2>2, <4>1, <4>2
    <3> QED BY <1>5, <1>6, <2>2, <3>1
  <2>3. CASE v > w
    BY <1>10, <2>3, TurnKeeps DEF Aimed
  <2> QED BY <2>1, <2>2, <2>3, TurnKeeps
<1> QED BY <1>9, <1>10 DEF EdgeRoom

LEMMA EdgesStep ==
  ASSUME Edges, Numbers', NEW w \in Writers, Turns(w),
         row' + RowOwed(w)' <= row + RowOwed(w) \/ row' + RowOwed(w)' < Rows,
         pc'[w] = "inc" => old'[w] < Rows - 1,
         pc'[w] = "store" => at'[w] < (Rows + Clocks) * Cols + Cols + Beyond,
         \/ col' + Ahead(w) <= col + Ahead(w)'
         \/ col' + 1 <= Cols + Ahead(w)'
         \/ Aimed(w) /\ col' <= old[w] + Ahead(w)',
         Aimed(w)' => \/ Aimed(w) /\ old'[w] = old[w]
                      \/ ~Passed(w) /\ old'[w] = col
  PROVE  Edges'
  BY RowStep, EdgeStep DEF Edges

\* What the bounds are worth.
LEMMA EdgesWorth == Edges => row < Rows + Beyond /\ col <= Cols + Beyond
<1> SUFFICES ASSUME Edges PROVE row < Rows + Beyond /\ col <= Cols + Beyond
  OBVIOUS
<1>1. PICK S \in SUBSET Writers, T \in SUBSET Writers :
        S = RowOwing /\ T = Leading
  BY DEF RowOwing, Leading
<1>2. /\ Cardinality(S) \in Nat
      /\ Cardinality(T) \in 0 .. Beyond + 1
  <2>1. /\ Cardinality(T \ {Main}) \in 0 .. Beyond
        /\ Cardinality(T) =
             Cardinality(T \ {Main}) + (IF Main \in T THEN 1 ELSE 0)
    BY OneOfMany, KeyWrites
  <2> QED BY <2>1, Counted, Levels
<1>3. /\ row + Cardinality(S) < Rows + Beyond
      /\ col + 1 <= Cols + Cardinality(T)
      /\ row \in Nat /\ col \in Nat
  BY <1>1 DEF Edges, Numbers, RowRoom, EdgeRoom
<1> QED BY <1>2, <1>3, Sizes, Levels

\* Every step of every writer keeps the bounds (screen.c:221-296).
LEMMA EdgesNext == Edges /\ Brushes /\ NextGraphic => Edges'
<1> SUFFICES ASSUME Edges, Brushes, NextGraphic PROVE Edges'
  OBVIOUS
<1> USE Sizes
<1>0. /\ Numbers
      /\ \A w \in Writers : pc[w] \in Entering => next[w] = "cursor"
  BY DEF Edges, Brushes
<1>1. ASSUME NEW w \in Writers, NEW ch \in Chars \cup {NewLine}, BeginGraphic(w, ch)
      PROVE  Edges'
  <2>1. Numbers' /\ Turns(w)
    BY <1>0, <1>1 DEF BeginGraphic, At, Goto, Pc, Numbers, Turns
  <2>2. /\ pc[w] = "idle" /\ pc'[w] \in {"aim", "newline"}
        /\ UNCHANGED <<row, col>>
    BY <1>0, <1>1 DEF BeginGraphic, At, Goto, Numbers
  <2> QED BY <1>0, <2>1, <2>2, EdgesStep DEF RowOwed, Ahead, Passed, Aimed, Numbers
<1>2. ASSUME NEW w \in Writers, Newline(w)
      PROVE  Edges'
  <2>1. Numbers' /\ Turns(w)
    BY <1>0, <1>2 DEF Newline, At, Goto, Pc, Numbers, Turns, locals
  <2>2. pc[w] = "newline" /\ pc'[w] = "row" /\ row' = row /\ col' = 0
    BY <1>0, <1>2 DEF Newline, At, Goto, Numbers
  <2> QED BY <1>0, <2>1, <2>2, EdgesStep DEF RowOwed, Ahead, Passed, Aimed, Numbers
<1>3. ASSUME NEW w \in Writers, LookAtRow(w)
      PROVE  Edges'
  <2>1. Numbers' /\ Turns(w)
    BY <1>0, <1>3 DEF LookAtRow, At, Goto, Pc, Numbers, Turns
  <2>2. /\ pc[w] = "row" /\ UNCHANGED <<row, col, next>>
        /\ \/ pc'[w] = "inc" /\ row < Rows - 1 /\ old'[w] = row
           \/ pc'[w] \in {"scroll", "wipe"}
        /\ row \in Nat
    BY <1>0, <1>3 DEF LookAtRow, LastRow, At, Goto, Numbers
  <2> QED BY <1>0, <2>1, <2>2, EdgesStep DEF RowOwed, Ahead, Passed, Aimed, Numbers
<1>4. ASSUME NEW w \in Writers, IncRow(w)
      PROVE  Edges'
  <2>1. Numbers' /\ Turns(w)
    BY <1>0, <1>4 DEF IncRow, At, Goto, Pc, Numbers, Turns
  <2>2. /\ pc[w] = "inc" /\ pc'[w] = "cursor" /\ next[w] = "cursor"
        /\ UNCHANGED <<col, next>>
        /\ (row' = row + 1) \/ (row' = old[w] + 1)
    BY <1>0, <1>4 DEF IncRow, At, Goto, Numbers, Entering
  <2>3. old[w] < Rows - 1 /\ old[w] \in Nat
    BY <1>0, <2>2 DEF Edges, RowRoom, Numbers
  <2>4. RowOwed(w) = 1 /\ RowOwed(w)' = 0 /\ Ahead(w)' = 0 /\ Ahead(w) = 0
    BY <2>2 DEF RowOwed, Ahead, Passed
  <2>5. row' + RowOwed(w)' <= row + RowOwed(w) \/ row' + RowOwed(w)' < Rows
    BY <1>0, <2>2, <2>3, <2>4 DEF Numbers
  <2>6. col' + Ahead(w) <= col + Ahead(w)'
    BY <1>0, <2>2, <2>4 DEF Numbers
  <2> QED BY <2>1, <2>2, <2>5, <2>6, EdgesStep DEF Aimed
<1>5. ASSUME NEW w \in Writers, Scroll(w) \/ WipeGraphic(w)
      PROVE  Edges'
  <2>1. Numbers' /\ Turns(w)
    BY <1>0, <1>5 DEF Scroll, WipeGraphic, At, Goto, Pc, Numbers, Turns
  <2>2. /\ \/ pc[w] = "scroll" /\ pc'[w] \in {"scroll", "wipe"}
           \/ pc[w] = "wipe" /\ pc'[w] = "cursor" /\ next[w] = "cursor"
        /\ UNCHANGED <<row, col, next>>
    BY <1>0, <1>5 DEF Scroll, WipeGraphic, At, Goto, Numbers, Entering
  <2> QED BY <1>0, <2>1, <2>2, EdgesStep DEF RowOwed, Ahead, Passed, Aimed, Numbers
<1>6. ASSUME NEW w \in Writers, Aim(w)
      PROVE  Edges'
  <2>1. /\ pc[w] = "aim" /\ pc'[w] = "store" /\ UNCHANGED <<row, col, next>>
        /\ old'[w] = col /\ at'[w] = col + row * Cols /\ Turns(w)
    BY <1>0, <1>6 DEF Aim, At, Goto, Numbers, Turns
  <2>2. col < Cols + Beyond /\ row < Rows + Beyond
    <3>1. PICK T \in SUBSET Writers : T = Leading
      BY DEF Leading
    <3>2. w \notin T
      BY <2>1, <3>1 DEF Leading, Passed
    <3>3. /\ Cardinality(T \ {w}) \in 0 .. Beyond
          /\ Cardinality(T) = Cardinality(T \ {w}) + (IF w \in T THEN 1 ELSE 0)
      BY OneOfMany
    <3>4. col + 1 <= Cols + Cardinality(T) /\ col \in Nat
      BY <1>0, <3>1 DEF Edges, EdgeRoom, Numbers
    <3> QED BY <3>2, <3>3, <3>4, EdgesWorth, Levels
  <2>3. /\ at'[w] \in Nat
        /\ at'[w] < (Rows + Clocks) * Cols + Cols + Beyond
    BY <1>0, <2>1, <2>2, CellBound DEF Numbers
  <2>4. Numbers'
    BY <1>0, <1>6, <2>1, <2>3 DEF Aim, At, Goto, Pc, Numbers
  <2> QED BY <1>0, <2>1, <2>3, <2>4, EdgesStep
          DEF RowOwed, Ahead, Passed, Aimed, Numbers
<1>7. ASSUME NEW w \in Writers, Draw(w)
      PROVE  Edges'
  <2>1. Numbers' /\ Turns(w)
    BY <1>0, <1>7 DEF Draw, At, Goto, Pc, Numbers, Turns
  <2>2. pc[w] = "store" /\ pc'[w] = "col" /\ UNCHANGED <<row, col, next, old>>
    BY <1>0, <1>7 DEF Draw, At, Goto, Numbers
  <2> QED BY <1>0, <2>1, <2>2, EdgesStep DEF RowOwed, Ahead, Passed, Aimed, Numbers
<1>8. ASSUME NEW w \in Writers, Advance(w)
      PROVE  Edges'
  <2>1. pc[w] = "col" /\ next[w] = "aim"
    BY <1>8 DEF Advance, At, Brushes
  <2>2. PICK c \in {col, old[w]} :
          /\ col' = c + 1
          /\ \/ /\ c + 1 >= Cols /\ pc' = [pc EXCEPT ![w] = "newline"]
                /\ next' = [next EXCEPT ![w] = "cursor"]
             \/ /\ ~(c + 1 >= Cols) /\ pc' = [pc EXCEPT ![w] = "cursor"]
                /\ next' = [next EXCEPT ![w] = "cursor"]
             \/ pc' = [pc EXCEPT ![w] = "cursor"] /\ next' = next
    BY <1>8 DEF Advance, Turn, AtEdge, Goto
  <2> DEFINE zero == 0
  <2>3. /\ old' = [old EXCEPT ![w] = zero] /\ zero \in Nat
        /\ UNCHANGED <<row, at>>
    BY <1>8 DEF Advance
  <2>4. c \in Nat
    BY <1>0, <2>2 DEF Numbers
  <2> HIDE DEF zero
  <2>5. Turns(w)
    BY <1>0, <1>8, <2>2, <2>3 DEF Advance, At, Numbers, Turns
  <2>6. Numbers'
    BY <1>0, <2>2, <2>3, <2>4 DEF Pc, Numbers
  <2>7. /\ RowOwed(w)' = 0 /\ RowOwed(w) = 0 /\ ~Aimed(w)' /\ Aimed(w)
        /\ pc'[w] \notin {"inc", "store"} /\ Ahead(w) = 0
        /\ Passed(w)' \/ ~(c + 1 >= Cols)
    BY <1>0, <2>1, <2>2 DEF RowOwed, Aimed, Ahead, Passed, Numbers
  <2>8. \/ col' + Ahead(w) <= col + Ahead(w)'
        \/ col' + 1 <= Cols + Ahead(w)'
        \/ Aimed(w) /\ col' <= old[w] + Ahead(w)'
    <3>1. CASE Passed(w)'
      <4>1. Ahead(w)' = 1
        BY <3>1 DEF Ahead
      <4> QED BY <1>0, <2>2, <2>4, <2>7, <4>1 DEF Numbers
    <3>2. CASE ~Passed(w)'
      <4>1. Ahead(w)' = 0
        BY <3>2 DEF Ahead
      <4> QED BY <2>2, <2>4, <2>7, <3>2, <4>1
    <3> QED BY <3>1, <3>2
  <2>9. row' + RowOwed(w)' <= row + RowOwed(w)
    BY <1>0, <2>3, <2>7 DEF Numbers
  <2> QED BY <2>5, <2>6, <2>7, <2>8, <2>9, EdgesStep
<1>9. ASSUME NEW w \in Writers, Compare(w)
      PROVE  Edges'
  <2>1. Numbers' /\ Turns(w)
    BY <1>0, <1>9 DEF Compare, Turn, AtEdge, At, Goto, Pc, Numbers, Turns
  <2>2. /\ pc[w] = "cursor" /\ next[w] = "aim" /\ UNCHANGED <<row, col>>
        /\ next'[w] = "cursor"
        /\ pc'[w] = "newline" \/ (pc'[w] = "cursor" /\ col < Cols)
    BY <1>0, <1>9 DEF Compare, Turn, AtEdge, At, Goto, Numbers
  <2> QED BY <1>0, <2>1, <2>2, EdgesStep DEF RowOwed, Ahead, Passed, Aimed, Numbers
<1>10. ASSUME NEW w \in Writers, Return(w)
       PROVE  Edges'
  <2>1. Numbers' /\ Turns(w)
    BY <1>0, <1>10 DEF Return, At, Pc, Numbers, Turns
  <2>2. /\ pc[w] = "cursor" /\ next[w] = "cursor" /\ pc'[w] = "idle"
        /\ UNCHANGED <<row, col>>
    BY <1>0, <1>10 DEF Return, At, Numbers
  <2> QED BY <1>0, <2>1, <2>2, EdgesStep DEF RowOwed, Ahead, Passed, Aimed, Numbers
<1>11. CASE ClearGraphic
  <2>1. /\ Running(Key) /\ pc[Key] = "idle" /\ UNCHANGED <<pc, old, next, at>>
        /\ Key \in Writers /\ col' = 0 /\ row' = 0
    BY <1>11, KeyWrites DEF ClearGraphic, At, locals
  <2>2. Numbers' /\ Turns(Key)
    BY <1>0, <2>1 DEF Numbers, Turns
  <2> QED BY <1>0, <2>1, <2>2, EdgesStep DEF RowOwed, Ahead, Passed, Aimed, Numbers
<1> QED BY <1>1, <1>2, <1>3, <1>4, <1>5, <1>6, <1>7, <1>8, <1>9, <1>10, <1>11
        DEF NextGraphic

\* What GRAPHIC_screen_char remembers is what it will do (screen.c:253-296).
LEMMA BrushesNext == Types /\ Brushes /\ NextGraphic => Brushes'
<1> SUFFICES ASSUME Types, Brushes, NextGraphic PROVE Brushes'
  OBVIOUS
<1> USE DEF Brushes, Entering, Drawing
<1>0. pc \in [Writers -> Pc] /\ next \in [Writers -> {"aim", "cursor"}]
  BY DEF Types, Numbers
<1>1. ASSUME NEW w \in Writers, NEW ch \in Chars \cup {NewLine}, BeginGraphic(w, ch)
      PROVE  Brushes'
  BY <1>0, <1>1 DEF BeginGraphic, At, Goto
<1>2. ASSUME NEW w \in Writers, Newline(w) \/ LookAtRow(w) \/ Scroll(w)
      PROVE  Brushes'
  <2>1. UNCHANGED <<next, char>> /\ pc[w] \in Entering
    BY <1>2 DEF Newline, LookAtRow, Scroll, At, locals
  <2>2. \E p \in {"row", "inc", "scroll", "wipe"} : pc' = [pc EXCEPT ![w] = p]
    BY <1>2 DEF Newline, LookAtRow, Scroll, Goto
  <2> QED BY <1>0, <2>1, <2>2
<1>3. ASSUME NEW w \in Writers, IncRow(w) \/ WipeGraphic(w)
      PROVE  Brushes'
  <2>1. UNCHANGED <<next, char>> /\ pc' = [pc EXCEPT ![w] = "cursor"]
    BY <1>3 DEF IncRow, WipeGraphic, At, Goto
  <2> QED BY <1>0, <2>1
<1>4. ASSUME NEW w \in Writers, Aim(w)
      PROVE  Brushes'
  <2>1. /\ UNCHANGED <<next, char>> /\ pc' = [pc EXCEPT ![w] = "store"]
        /\ pc[w] = "aim"
    BY <1>4 DEF Aim, At, Goto
  <2> QED BY <1>0, <2>1
<1>5. ASSUME NEW w \in Writers, Draw(w)
      PROVE  Brushes'
  <2>1. /\ UNCHANGED next /\ pc' = [pc EXCEPT ![w] = "col"] /\ pc[w] = "store"
        /\ char' = [char EXCEPT ![w] = NewLine]
    BY <1>5 DEF Draw, At, Goto
  <2> QED BY <1>0, <2>1
<1>6. ASSUME NEW w \in Writers, Advance(w) \/ Compare(w)
      PROVE  Brushes'
  <2>1. /\ UNCHANGED char
        /\ \/ /\ \E p \in {"newline", "cursor"} : pc' = [pc EXCEPT ![w] = p]
              /\ next' = [next EXCEPT ![w] = "cursor"]
           \/ pc' = [pc EXCEPT ![w] = "cursor"] /\ next' = next
    BY <1>6, Zenon DEF Advance, Compare, Turn, Goto
  <2> QED BY <1>0, <2>1
<1>7. ASSUME NEW w \in Writers, Return(w)
      PROVE  Brushes'
  BY <1>0, <1>7 DEF Return
<1>8. CASE ClearGraphic
  BY <1>8 DEF ClearGraphic, locals
<1> QED BY <1>1, <1>2, <1>3, <1>4, <1>5, <1>6, <1>7, <1>8 DEF NextGraphic

\* The steps the two consoles share are the text console's.
LEMMA SharedNext ==
  ASSUME NEW w \in Writers,
         Newline(w) \/ LookAtRow(w) \/ IncRow(w) \/ Scroll(w) \/ Aim(w)
  PROVE  [Next]_vars
  BY DEF Next, Step

LEMMA LinedGraphic == Types /\ Lined /\ NextGraphic => Lined'
<1> SUFFICES ASSUME Types, Lined, NextGraphic PROVE Lined'
  OBVIOUS
<1> DEFINE zero == 0
<1>0. /\ pc \in [Writers -> Pc] /\ next \in [Writers -> {"aim", "cursor"}]
      /\ line \in [Writers -> Nat] /\ zero \in Nat
      /\ \A w \in Writers : pc[w] = "scroll" => line[w] \in 1 .. Rows - 1
  BY DEF Types, Numbers, Lined
<1>1. ASSUME NEW w \in Writers,
             Newline(w) \/ LookAtRow(w) \/ IncRow(w) \/ Scroll(w) \/ Aim(w)
      PROVE  Lined'
  BY <1>1, SharedNext, LinedNext
<1>2. ASSUME NEW w \in Writers,
             \/ Draw(w) \/ Advance(w) \/ Compare(w) \/ Return(w)
             \/ \E ch \in Chars \cup {NewLine} : BeginGraphic(w, ch)
      PROVE  Lined'
  <2>1. line' = line
    BY <1>2 DEF Draw, Advance, Compare, Return, BeginGraphic
  <2>2. \E p \in {"col", "newline", "cursor", "idle", "aim"} :
           pc' = [pc EXCEPT ![w] = p]
    BY <1>2, Zenon DEF Draw, Advance, Compare, Return, BeginGraphic, Turn, Goto
  <2>3. \A v \in Writers : pc'[v] = "scroll" => pc[v] = "scroll"
    BY <1>0, <2>2
  <2> QED BY <1>0, <2>1, <2>3 DEF Lined
<1>3. ASSUME NEW w \in Writers, WipeGraphic(w)
      PROVE  Lined'
  <2>1. line' = [line EXCEPT ![w] = zero] /\ pc' = [pc EXCEPT ![w] = next[w]]
    BY <1>3 DEF WipeGraphic, Goto
  <2> HIDE DEF zero
  <2> QED BY <1>0, <2>1 DEF Lined
<1>4. CASE ClearGraphic
  BY <1>0, <1>4 DEF ClearGraphic, locals, Lined
<1> QED BY <1>1, <1>2, <1>3, <1>4 DEF NextGraphic

\* The types, and what the one writer inside a character has looked at.
LEMMA RoomyNext ==
  Types /\ Brushes /\ Roomy /\ NextGraphic => Types' /\ Roomy'
<1> SUFFICES ASSUME Types, Brushes, Roomy, NextGraphic PROVE Types' /\ Roomy'
  OBVIOUS
<1> USE Sizes
<1> USE DEF Types, Numbers, Buffers, text, locals
<1> USE DEF Roomy, Unraced, Alone, Fresh, Passed
<1>0. \A w \in Writers :
         /\ pc[w] \in {"idle", "aim", "store", "col"} => next[w] = "aim"
         /\ pc[w] \in Entering => next[w] = "cursor"
  BY DEF Brushes
<1>1. ASSUME NEW w \in Writers, NEW ch \in Chars \cup {NewLine}, BeginGraphic(w, ch)
      PROVE  Types' /\ Roomy'
  <2>1. Types'
    BY <1>1 DEF BeginGraphic, At, Goto, Pc, Racing
  <2>2. ~raced' => ~raced /\ \A v \in Writers : pc[v] = "idle"
    BY <1>1 DEF BeginGraphic, Racing, Quiet
  <2>3. /\ \A v \in Writers \ {w} : pc'[v] = pc[v]
        /\ pc'[w] \in {"newline", "aim"}
        /\ UNCHANGED <<col, row>>
    BY <1>1 DEF BeginGraphic, Goto
  <2>4. ~raced' => Alone'
    BY <2>2, <2>3, Zenon
  <2>5. ~raced' => col < Cols
    BY <2>2
  <2>6. ~raced' => Fresh'
    BY <2>2, <2>3, <2>5
  <2> QED BY <2>1, <2>2, <2>3, <2>4, <2>5, <2>6
<1>2. ASSUME NEW w \in Writers,
             Newline(w) \/ LookAtRow(w) \/ IncRow(w) \/ Scroll(w) \/ Aim(w)
      PROVE  Types' /\ Roomy'
  <2>1. Types' /\ Unraced'
    BY <1>2, SharedNext, UnracedNext
  <2>2. raced' = raced /\ pc[w] # "idle"
    BY <1>2 DEF Newline, LookAtRow, IncRow, Scroll, Aim, At
  <2>3. ~raced => col' < Cols
    <3>1. CASE Newline(w)
      BY <3>1 DEF Newline
    <3>2. CASE LookAtRow(w) \/ IncRow(w) \/ Scroll(w) \/ Aim(w)
      BY <3>2 DEF LookAtRow, IncRow, Scroll, Aim, At
    <3> QED BY <1>2, <3>1, <3>2
  <2> QED BY <2>1, <2>2, <2>3
<1>3. ASSUME NEW w \in Writers, WipeGraphic(w)
      PROVE  Types' /\ Roomy'
  BY <1>0, <1>3 DEF WipeGraphic, At, Goto, Pc, Entering
<1>4. ASSUME NEW w \in Writers, Draw(w)
      PROVE  Types' /\ Roomy'
  BY <1>0, <1>4 DEF Draw, At, Goto, Pc
<1>5. ASSUME NEW w \in Writers, Advance(w)
      PROVE  Types' /\ Roomy'
  <2>1. pc[w] = "col" /\ next[w] = "aim"
    BY <1>0, <1>5 DEF Advance, At
  <2>2. PICK c \in {col, old[w]} :
          /\ col' = c + 1
          /\ \/ /\ c + 1 >= Cols /\ pc' = [pc EXCEPT ![w] = "newline"]
                /\ next' = [next EXCEPT ![w] = "cursor"]
             \/ /\ ~(c + 1 >= Cols) /\ pc' = [pc EXCEPT ![w] = "cursor"]
                /\ next' = [next EXCEPT ![w] = "cursor"]
             \/ pc' = [pc EXCEPT ![w] = "cursor"] /\ next' = next
    BY <1>5 DEF Advance, Turn, AtEdge, Goto
  <2> DEFINE zero == 0
  <2>3. /\ old' = [old EXCEPT ![w] = zero] /\ zero \in Nat
        /\ UNCHANGED <<row, at, to, buffer, raced>>
    BY <1>5 DEF Advance
  <2>4. c \in Nat
    BY <2>2
  <2> HIDE DEF zero
  <2>5. Types'
    BY <2>2, <2>3, <2>4 DEF Pc
  <2>6. ~raced => c = col /\ col < Cols
    BY <2>1, <2>2
  <2>7. ~raced => Alone'
    BY <2>1, <2>2
  <2>8. ~raced => \A v \in Writers \ {w} : pc'[v] = "idle"
    BY <2>1, <2>2
  <2>9. ~raced => Fresh'
    BY <2>2, <2>8
  <2>10. ~raced /\ ~Passed(w)' => col' < Cols
    BY <2>1, <2>2, <2>6
  <2> QED BY <2>2, <2>3, <2>5, <2>6, <2>7, <2>9, <2>10
<1>6. ASSUME NEW w \in Writers, Compare(w)
      PROVE  Types' /\ Roomy'
  <2>1. /\ pc[w] = "cursor" /\ UNCHANGED <<row, col, at, to, old, buffer, raced>>
        /\ next' = [next EXCEPT ![w] = "cursor"]
        /\ \/ col >= Cols /\ pc' = [pc EXCEPT ![w] = "newline"]
           \/ ~(col >= Cols) /\ pc' = [pc EXCEPT ![w] = "cursor"]
    BY <1>6 DEF Compare, Turn, AtEdge, Goto, At
  <2>2. Types'
    BY <2>1 DEF Pc
  <2>3. ~raced => Alone'
    BY <2>1
  <2>4. ~raced => \A v \in Writers \ {w} : pc'[v] = "idle"
    BY <2>1
  <2>5. ~raced => Fresh'
    BY <2>1, <2>4
  <2>6. ~raced /\ ~Passed(w)' => col' < Cols
    BY <2>1
  <2> QED BY <2>1, <2>2, <2>3, <2>5, <2>6
<1>7. ASSUME NEW w \in Writers, Return(w)
      PROVE  Types' /\ Roomy'
  BY <1>7 DEF Return, At, Pc
<1>8. CASE ClearGraphic
  <2>1. Types'
    BY <1>8 DEF ClearGraphic
  <2>2. ~raced' => \A w \in Writers : pc'[w] = "idle"
    BY <1>8 DEF ClearGraphic, Quiet
  <2>3. col' = 0 /\ row' = 0
    BY <1>8 DEF ClearGraphic
  <2> QED BY <2>1, <2>2, <2>3
<1> QED BY <1>1, <1>2, <1>3, <1>4, <1>5, <1>6, <1>7, <1>8 DEF NextGraphic

-----------------------------------------------------------------------------
\* The cells that the clear of a row reaches (screen.c:203-219).
Reached == {i \in Cell : Cleared(i % Cols)}

LEMMA Reach ==
  ASSUME bpp \in Depths, Graphic
  PROVE  /\ \A i \in Cell :
              i \in Reached <=> (bpp # 24 \/ 3 * ((i % Cols) + 1) <= 2 * Cols)
         /\ \A i \in Reached : i % Cols > 0 => i - 1 \in Reached
         /\ \A i \in Reached : i \div Cols < Rows - 1 => i + Cols \in Reached
<1>1. bpp \in {15, 16, 24, 32}
  BY DepthAssumption DEF Graphic
<1>2. /\ bpp \in {15, 16} => Bytes = 2
      /\ bpp = 24 => Bytes = 3
  BY <1>1 DEF Bytes
<1>3. ASSUME NEW c \in Nat, c < Cols
      PROVE  Cleared(c) <=> (bpp # 24 \/ 3 * (c + 1) <= 2 * Cols)
  <2>1. CASE bpp = 32
    BY <2>1 DEF Cleared
  <2>2. CASE bpp \in {15, 16}
    <3>1. (c + 1) * 2 <= Cols * 2
      BY <1>3, Sizes
    <3> QED BY <1>2, <2>2, <3>1 DEF Cleared
  <2>3. CASE bpp = 24
    <3>1. (c + 1) * 3 = 3 * (c + 1) /\ Cols * 2 = 2 * Cols
      BY Sizes
    <3> QED BY <1>2, <2>3, <3>1 DEF Cleared
  <2> QED BY <1>1, <2>1, <2>2, <2>3
<1>4. ASSUME NEW i \in Cell
      PROVE  i % Cols \in Nat /\ i % Cols < Cols
  BY Cells, Sizes
<1>5. \A i \in Cell :
         i \in Reached <=> (bpp # 24 \/ 3 * ((i % Cols) + 1) <= 2 * Cols)
  BY <1>3, <1>4 DEF Reached
<1>6. ASSUME NEW i \in Reached, i % Cols > 0
      PROVE  i - 1 \in Reached
  <2>1. i \in Cell /\ i - 1 \in Cell
    BY <1>6, Cells DEF Reached
  <2>2. (i - 1) % Cols = (i % Cols) - 1
    <3> DEFINE q == i \div Cols
               c == (i % Cols) - 1
    <3>1. i \in Nat /\ q \in Nat /\ i % Cols \in 0 .. Cols - 1
          /\ i = Cols * q + (i % Cols)
      BY <2>1, Cells, DivMod, Sizes
    <3>2. c \in Nat /\ c < Cols
      BY <1>6, <3>1, Sizes
    <3>3. i - 1 = q * Cols + c
      BY <3>1, <3>2, Sizes
    <3> HIDE DEF q, c
    <3>4. (i - 1) % Cols = c
      BY <3>1, <3>2, <3>3, Unique
    <3> QED BY <3>4 DEF c
  <2>3. i % Cols \in Nat
    BY <1>4, <2>1
  <2> QED BY <1>5, <2>1, <2>2, <2>3, Sizes
<1>7. ASSUME NEW i \in Reached, i \div Cols < Rows - 1
      PROVE  i + Cols \in Reached
  <2>1. i \in Cell
    BY DEF Reached
  <2>2. i + Cols \in Cell /\ (i + Cols) % Cols = i % Cols
    BY <1>7, <2>1, Cells
  <2> QED BY <2>2 DEF Reached
<1> QED BY <1>5, <1>6, <1>7

\* What a cell of the graphics console holds.
Dots == Chars \cup {Empty, Pattern}

\* Every step leaves characters, cleared cells and the pattern only.
LEMMA SheetNext ==
  ASSUME Types, Lined, Brushes, Sheet, NextGraphic
  PROVE  Sheet'
<1> DEFINE Goal == /\ cells' \in [Buffers -> [Cell -> Dots]]
                   /\ UNCHANGED <<enabled, cursor, before>>
<1>1. /\ cells \in [Buffers -> [Cell -> Dots]] /\ buffer \in Buffers
      /\ to \in [Writers -> Buffers]
      /\ cells[buffer] \in [Cell -> Dots]
  BY DEF Sheet, Dots, Types
<1>2. ASSUME NEW w \in Writers,
             \/ Newline(w) \/ LookAtRow(w) \/ IncRow(w) \/ Aim(w)
             \/ Advance(w) \/ Compare(w) \/ Return(w)
             \/ \E ch \in Chars \cup {NewLine} : BeginGraphic(w, ch)
      PROVE  Goal
  BY <1>1, <1>2 DEF Newline, LookAtRow, IncRow, Aim, Advance, Compare, Return,
     BeginGraphic, text
<1>3. ASSUME NEW w \in Writers, Scroll(w)
      PROVE  Goal
  <2> DEFINE u == [i \in Cell |-> IF i \div Cols = line[w] - 1
                                  THEN cells[buffer][i + Cols]
                                  ELSE cells[buffer][i]]
  <2>1. UNCHANGED <<enabled, cursor, before>>
        /\ cells' = [cells EXCEPT ![buffer] = u]
    BY <1>3 DEF Scroll
  <2>2. line[w] \in 1 .. Rows - 1
    BY <1>3 DEF Scroll, At, Lined
  <2>3. ASSUME NEW i \in Cell
        PROVE  u[i] \in Dots
    <3>1. i \div Cols = line[w] - 1 => i + Cols \in Cell
      BY <2>2, Cells, Sizes
    <3> QED BY <1>1, <3>1
  <2>4. u \in [Cell -> Dots]
    BY <2>3
  <2> HIDE DEF u
  <2> QED BY <1>1, <2>1, <2>4
<1>4. ASSUME NEW w \in Writers, WipeGraphic(w)
      PROVE  Goal
  <2> DEFINE u == Row(Rows - 1, cells[buffer])
  <2>1. u \in [Cell -> Dots]
    BY <1>1 DEF Row, Dots
  <2>2. UNCHANGED <<enabled, cursor, before>>
        /\ cells' = [cells EXCEPT ![buffer] = u]
    BY <1>4 DEF WipeGraphic
  <2> HIDE DEF u
  <2> QED BY <1>1, <2>1, <2>2
<1>5. ASSUME NEW w \in Writers, Draw(w)
      PROVE  Goal
  <2>1. char[w] \in Dots /\ to[w] \in Buffers /\ cells[to[w]] \in [Cell -> Dots]
    BY <1>1, <1>5 DEF Draw, At, Brushes, Drawing, Dots
  <2>2. Glyph(w) \in [Cell -> Dots]
    <3>1. CASE old[w] < Cols
      BY <2>1, <3>1 DEF Glyph
    <3>2. CASE ~(old[w] < Cols)
      <4>1. Glyph(w) = [i \in Cell |-> IF i \in {at[w] - Cols, at[w]}
                                       THEN Pattern ELSE cells[to[w]][i]]
        BY <3>2 DEF Glyph
      <4>2. Pattern \in Dots
        BY DEF Dots
      <4> QED BY <2>1, <4>1, <4>2
    <3> QED BY <3>1, <3>2
  <2>3. PICK seen \in {cells[to[w]], Glyph(w)} :
           cells' = [cells EXCEPT ![to[w]] = seen]
    BY <1>5 DEF Draw
  <2>4. seen \in [Cell -> Dots]
    BY <2>1, <2>2
  <2>5. UNCHANGED <<enabled, cursor, before>>
    BY <1>5 DEF Draw
  <2> QED BY <1>1, <2>1, <2>3, <2>4, <2>5
<1>6. ASSUME ClearGraphic
      PROVE  Goal
  <2> DEFINE u == Blank(cells[buffer])
  <2>1. u \in [Cell -> Dots]
    BY <1>1 DEF Blank, Dots
  <2>2. UNCHANGED <<enabled, cursor, before>>
        /\ cells' = [cells EXCEPT ![buffer] = u]
    BY <1>6 DEF ClearGraphic
  <2> HIDE DEF u
  <2> QED BY <1>1, <2>1, <2>2
<1> HIDE DEF Goal
<1>7. Goal
  BY <1>2, <1>3, <1>4, <1>5, <1>6 DEF NextGraphic
<1> QED BY <1>7 DEF Goal, Sheet, Rest, Dots

-----------------------------------------------------------------------------
\* A screen g whose rows are cleared to their end and that shows, as far as the
\* clear reaches, what this one shows ...
Agree(g, t) == \A i \in Reached : g[i] = t[i]

\* ... is a text console's (see Shape).
Settled(g) ==
  /\ \A w \in Writers :
       /\ pc[w] \in Moving => EmptyFrom(g, row * Cols + Cols)
       /\ pc[w] = "col" => FilledTo(g, row, row * Cols + (col + 1))
       /\ pc[w] \in {"scroll", "wipe"} => row = Rows - 1
  /\ (\A w \in Writers : pc[w] \notin Moving \cup {"col"}) =>
        FilledTo(g, row, row * Cols + col)

IsModel(g) == /\ g \in [Cell -> Marks] /\ NoHoles(g) /\ Settled(g)
              /\ Agree(g, cells[buffer])

GraphicShape == \E g : IsModel(g)

GraphicInv == /\ bpp \in Depths /\ Graphic
              /\ Types /\ Lined /\ Sheet /\ Brushes /\ Edges /\ Roomy
              /\ ~raced => GraphicShape

\* A step of the one writer inside a character, by where it leaves it.
LEMMA SettledOf ==
  ASSUME NEW w \in Writers, \A v \in Writers \ {w} : pc'[v] = "idle",
         NEW t,
         pc'[w] \in Moving => EmptyFrom(t, row' * Cols + Cols),
         pc'[w] = "col" => FilledTo(t, row', row' * Cols + (col' + 1)),
         pc'[w] \in {"scroll", "wipe"} => row' = Rows - 1,
         pc'[w] \notin Moving \cup {"col"} =>
            FilledTo(t, row', row' * Cols + col')
  PROVE  Settled(t)'
<1>1. ASSUME NEW v \in Writers, v # w
      PROVE  pc'[v] \notin Moving \cup {"col"}
  BY <1>1 DEF Moving
<1>2. ASSUME NEW v \in Writers
      PROVE  /\ pc'[v] \in Moving => EmptyFrom(t, row' * Cols + Cols)
             /\ pc'[v] = "col" => FilledTo(t, row', row' * Cols + (col' + 1))
             /\ pc'[v] \in {"scroll", "wipe"} => row' = Rows - 1
  BY <1>1 DEF Moving
<1> QED BY <1>2 DEF Settled

\* What the invariant says of the model when w is at a step.
LEMMA SettledAt ==
  ASSUME GraphicInv, ~raced, NEW w \in Writers, pc[w] # "idle",
         NEW g, IsModel(g)
  PROVE  /\ \A v \in Writers \ {w} : pc[v] = "idle"
         /\ g \in [Cell -> Marks] /\ NoHoles(g)
         /\ pc[w] \in Moving => EmptyFrom(g, row * Cols + Cols) /\ col = 0
         /\ pc[w] \in {"scroll", "wipe"} => row = Rows - 1
         /\ pc[w] = "col" => FilledTo(g, row, row * Cols + (col + 1))
         /\ pc[w] \notin Moving \cup {"col"} => FilledTo(g, row, row * Cols + col)
         /\ row \in Nat /\ col \in Nat /\ row < Rows /\ col <= Cols
<1>1. \A v \in Writers \ {w} : pc[v] = "idle"
  BY DEF GraphicInv, Roomy, Unraced, Alone
<1>2. pc[w] \notin Moving \cup {"col"} =>
        \A v \in Writers : pc[v] \notin Moving \cup {"col"}
  BY <1>1 DEF Moving
<1>3. row \in Nat /\ col \in Nat
  BY DEF GraphicInv, Types, Numbers
<1>4. row < Rows /\ col <= Cols /\ (pc[w] \in Moving => col = 0)
  BY DEF GraphicInv, Roomy, Unraced, Fresh, Moving
<1> QED BY <1>1, <1>2, <1>3, <1>4 DEF IsModel, Settled

\* Steps that draw nothing keep the model.
LEMMA ModelKept ==
  ASSUME GraphicInv, ~raced, NEW w \in Writers, NEW g, IsModel(g),
         UNCHANGED bpp,
         \/ Newline(w) \/ LookAtRow(w) \/ IncRow(w) \/ Aim(w) \/ Advance(w)
         \/ Compare(w) \/ Return(w)
  PROVE  IsModel(g)'
<1>1. /\ pc[w] # "idle" /\ pc \in [Writers -> Pc]
      /\ UNCHANGED <<cells, buffer, bpp>>
      /\ \E p : pc' = [pc EXCEPT ![w] = p]
  BY DEF Newline, LookAtRow, IncRow, Aim, Advance, Compare, Return, Turn, At,
         Goto, text, GraphicInv, Types, Numbers
<1>2. /\ \A v \in Writers \ {w} : pc[v] = "idle"
      /\ g \in [Cell -> Marks] /\ NoHoles(g)
      /\ pc[w] \in Moving => EmptyFrom(g, row * Cols + Cols) /\ col = 0
      /\ pc[w] = "col" => FilledTo(g, row, row * Cols + (col + 1))
      /\ pc[w] \notin Moving \cup {"col"} => FilledTo(g, row, row * Cols + col)
      /\ row \in Nat /\ col \in Nat /\ row < Rows /\ col <= Cols
  BY <1>1, SettledAt
<1>3. \A v \in Writers \ {w} : pc'[v] = "idle"
  BY <1>1, <1>2
<1>4. Agree(g, cells[buffer])'
  BY <1>1 DEF IsModel, Agree, Reached, Cleared, Bytes
<1> SUFFICES Settled(g)'
  BY <1>2, <1>4 DEF IsModel, NoHoles
<1>5. CASE Newline(w)
  <2>1. pc[w] = "newline" /\ pc'[w] = "row" /\ row' = row
    BY <1>1, <1>5 DEF Newline, At, Goto
  <2>2. EmptyFrom(g, row * Cols + Cols)
    BY <1>2, <2>1, BelowRow DEF Moving
  <2> QED BY <1>2, <1>3, <2>1, <2>2, SettledOf DEF Moving
<1>6. CASE LookAtRow(w)
  <2>1. pc[w] = "row" /\ row' = row
    BY <1>6 DEF LookAtRow, At
  <2>2. pc'[w] = "inc" \/ (pc'[w] \in {"scroll", "wipe"} /\ row >= Rows - 1)
    BY <1>1, <1>6 DEF LookAtRow, LastRow, Goto
  <2>3. pc'[w] \in {"scroll", "wipe"} => row' = Rows - 1
    BY <1>2, <2>1, <2>2, Sizes
  <2>4. EmptyFrom(g, row' * Cols + Cols)
    BY <1>2, <2>1 DEF Moving
  <2>5. pc'[w] \in Moving
    BY <2>2 DEF Moving
  <2> QED BY <1>3, <2>3, <2>4, <2>5, SettledOf DEF Moving
<1>7. CASE IncRow(w)
  <2>1. pc[w] = "inc" /\ pc'[w] \in {"aim", "cursor"} /\ col' = col
        /\ row' \in {row + 1, old[w] + 1} /\ old[w] = row
    BY <1>1, <1>7 DEF IncRow, At, Goto, GraphicInv, Types, Numbers, Roomy,
       Unraced, Fresh
  <2>2. EmptyFrom(g, row * Cols + Cols) /\ col = 0 /\ row' = row + 1
    BY <1>2, <2>1 DEF Moving
  <2>3. FilledTo(g, row + 1, (row + 1) * Cols)
    BY <1>2, <2>2, NextRow
  <2>4. row' * Cols + col' = (row + 1) * Cols
    BY <1>2, <2>1, <2>2, Sizes
  <2> QED BY <1>3, <2>1, <2>2, <2>3, <2>4, SettledOf DEF Moving
<1>8. CASE Aim(w) \/ Compare(w) \/ Return(w)
  <2>1. pc[w] \in {"aim", "cursor"}
        /\ pc'[w] \in {"store", "idle", "newline", "cursor"}
        /\ row' = row /\ col' = col
    BY <1>1, <1>8 DEF Aim, Compare, Return, Turn, At, Goto
  <2> QED BY <1>2, <1>3, <2>1, SettledOf DEF Moving
<1>9. CASE Advance(w)
  <2>1. pc[w] = "col" /\ pc'[w] \in {"newline", "cursor"} /\ row' = row
        /\ col' \in {col + 1, old[w] + 1} /\ old[w] = col
    BY <1>1, <1>9 DEF Advance, Turn, At, Goto, GraphicInv, Roomy, Unraced, Fresh
  <2>2. col' = col + 1
    BY <2>1
  <2> QED BY <1>2, <1>3, <2>1, <2>2, SettledOf DEF Moving
<1> QED BY <1>5, <1>6, <1>7, <1>8, <1>9

\* Copying a row, and clearing the last, do the same to the model, which they
\* clear to its end (screen.c:203-243).
LEMMA ModelMoved ==
  ASSUME GraphicInv, ~raced, NEW w \in Writers, NEW g, IsModel(g),
         UNCHANGED bpp, Scroll(w) \/ WipeGraphic(w)
  PROVE  GraphicShape'
<1> DEFINE t == cells[buffer]
           u == cells'[buffer']
<1>1. /\ pc[w] # "idle" /\ pc \in [Writers -> Pc]
      /\ UNCHANGED <<buffer, col, row, bpp>>
      /\ \E p : pc' = [pc EXCEPT ![w] = p]
      /\ line \in [Writers -> Nat] /\ buffer \in Buffers
      /\ cells \in [Buffers -> [Cell -> Dots]]
      /\ next[w] \in {"aim", "cursor"}
      /\ bpp \in Depths /\ Graphic
  BY DEF Scroll, WipeGraphic, At, Goto, GraphicInv, Types, Numbers, Lined, Sheet,
         Dots
<1>2. /\ \A v \in Writers \ {w} : pc[v] = "idle"
      /\ g \in [Cell -> Marks] /\ NoHoles(g)
      /\ pc[w] \in Moving => EmptyFrom(g, row * Cols + Cols) /\ col = 0
      /\ pc[w] \in {"scroll", "wipe"} => row = Rows - 1
      /\ row \in Nat /\ col \in Nat
  BY <1>1, SettledAt
<1>3. \A v \in Writers \ {w} : pc'[v] = "idle"
  BY <1>1, <1>2
<1>4. Reached' = Reached /\ \A i \in Reached : i \in Cell /\ g[i] = t[i]
  BY <1>1 DEF Reached, Cleared, Bytes, IsModel, Agree
<1>5. CASE Scroll(w)
  <2> DEFINE h == [i \in Cell |-> IF i \div Cols = line[w] - 1 THEN g[i + Cols]
                                  ELSE g[i]]
  <2>1. /\ pc[w] = "scroll" /\ line[w] \in 1 .. Rows - 1
        /\ pc'[w] \in {"scroll", "wipe"}
    BY <1>1, <1>5 DEF Scroll, At, Goto, GraphicInv, Lined
  <2>2. u = [i \in Cell |-> IF i \div Cols = line[w] - 1 THEN t[i + Cols]
                            ELSE t[i]]
    BY <1>1, <1>5 DEF Scroll
  <2>3. h \in [Cell -> Marks] /\ NoHoles(h)
    BY <1>2, <2>1, ScrollRow
  <2>4. EmptyFrom(h, row' * Cols + Cols)
    <3>1. row * Cols + Cols = Rows * Cols /\ Rows * Cols \in Nat
      <4>1. (Rows - 1) * Cols + Cols = Rows * Cols /\ Rows * Cols \in Nat
        BY Sizes
      <4> QED BY <1>2, <2>1, <4>1
    <3>2. \A i \in Cell : ~(i >= Rows * Cols)
      BY <3>1 DEF Cell, Size
    <3> QED BY <1>1, <3>1, <3>2 DEF EmptyFrom
  <2>5. ASSUME NEW i \in Reached
        PROVE  h[i] = u[i]
    <3>1. CASE i \div Cols = line[w] - 1
      <4>1. i + Cols \in Reached
        BY <1>1, <2>1, <3>1, Reach, Sizes
      <4> QED BY <1>4, <2>2, <3>1, <4>1
    <3>2. CASE i \div Cols # line[w] - 1
      BY <1>4, <2>2, <3>2
    <3> QED BY <3>1, <3>2
  <2> HIDE DEF h, u
  <2>6. PICK k : k = h
    OBVIOUS
  <2>7. Settled(k)'
    BY <1>1, <1>2, <1>3, <2>1, <2>4, <2>6, SettledOf DEF Moving
  <2>8. Agree(k, cells[buffer])'
    BY <1>4, <2>5, <2>6 DEF Agree, u
  <2>9. IsModel(k)'
    BY <2>3, <2>6, <2>7, <2>8 DEF IsModel, NoHoles
  <2> QED BY <2>9 DEF GraphicShape
<1>6. CASE WipeGraphic(w)
  <2> DEFINE h == [i \in Cell |-> IF i \div Cols = Rows - 1 THEN Empty ELSE g[i]]
  <2>1. pc[w] = "wipe" /\ pc'[w] \in {"aim", "cursor"}
    BY <1>1, <1>6 DEF WipeGraphic, At, Goto
  <2>2. u = Row(Rows - 1, t)
    BY <1>1, <1>6 DEF WipeGraphic
  <2>3. h \in [Cell -> Marks] /\ NoHoles(h)
        /\ FilledTo(h, Rows - 1, (Rows - 1) * Cols)
    BY <1>2, WipeRow
  <2>4. row' * Cols + col' = (Rows - 1) * Cols /\ row' = Rows - 1
    <3>1. (Rows - 1) * Cols + 0 = (Rows - 1) * Cols
      BY Sizes
    <3> QED BY <1>1, <1>2, <2>1, <3>1 DEF Moving
  <2>5. \A i \in Reached : h[i] = u[i]
    BY <1>4, <2>2 DEF Row, Reached
  <2> HIDE DEF h, u
  <2>6. Settled(h)'
    BY <1>3, <2>1, <2>3, <2>4, SettledOf DEF Moving
  <2>7. Agree(h, cells[buffer])'
    BY <1>4, <2>5 DEF Agree, u
  <2>8. IsModel(h)'
    BY <2>3, <2>6, <2>7 DEF IsModel, NoHoles
  <2> QED BY <2>8 DEF GraphicShape
<1> QED BY <1>5, <1>6

\* Drawing a character (screen.c:256-275).
LEMMA ModelDrawn ==
  ASSUME GraphicInv, ~raced, NEW w \in Writers, NEW g, IsModel(g),
         UNCHANGED bpp, Draw(w)
  PROVE  GraphicShape'
<1> DEFINE t == cells[buffer]
           u == cells'[buffer']
           p == row * Cols + col
           h == [g EXCEPT ![p] = char[w]]
<1>1. /\ pc[w] = "store" /\ pc'[w] = "col" /\ pc \in [Writers -> Pc]
      /\ UNCHANGED <<buffer, col, row, bpp>>
      /\ pc' = [pc EXCEPT ![w] = "col"]
      /\ buffer \in Buffers /\ cells \in [Buffers -> [Cell -> Dots]]
      /\ bpp \in Depths /\ Graphic
  BY DEF Draw, At, Goto, GraphicInv, Types, Numbers, Sheet, Dots
<1>2. /\ \A v \in Writers \ {w} : pc[v] = "idle"
      /\ g \in [Cell -> Marks] /\ NoHoles(g)
      /\ FilledTo(g, row, row * Cols + col)
      /\ row \in Nat /\ col \in Nat /\ row < Rows
  BY <1>1, SettledAt DEF Moving
<1>3. \A v \in Writers \ {w} : pc'[v] = "idle"
  BY <1>1, <1>2
<1>4. Reached' = Reached /\ \A i \in Reached : i \in Cell /\ g[i] = t[i]
  BY <1>1 DEF Reached, Cleared, Bytes, IsModel, Agree
<1>5. /\ col < Cols /\ old[w] = col /\ to[w] = buffer
      /\ at[w] = col + row * Cols
  BY <1>1 DEF GraphicInv, Roomy, Unraced, Fresh
<1>6. at[w] = p /\ p \in Cell
  <2>1. col + row * Cols = row * Cols + col
    BY <1>2, Sizes
  <2> QED BY <1>2, <1>5, <2>1, OnScreen
<1>7. char[w] \in Marks /\ char[w] # Empty
  BY <1>1, ScreenAssumption DEF GraphicInv, Brushes, Drawing, Marks
<1>8. NoHoles(h) /\ h \in [Cell -> Marks] /\ FilledTo(h, row, row * Cols + (col + 1))
  BY <1>2, <1>5, <1>7, StoreChar
<1> HIDE DEF p
<1>9. u = [t EXCEPT ![p] = char[w]]
  <2>1. Glyph(w) = [t EXCEPT ![p] = char[w]]
    BY <1>5, <1>6 DEF Glyph
  <2>2. cells' = [cells EXCEPT ![buffer] = Glyph(w)]
    BY <1>5 DEF Draw
  <2> QED BY <1>1, <2>1, <2>2
<1>10. t \in [Cell -> Dots]
  BY <1>1
<1> HIDE DEF t
<1>11. \A i \in Reached : h[i] = u[i]
  BY <1>2, <1>4, <1>9, <1>10
<1> HIDE DEF h, u
<1>12. PICK k : k = h
  OBVIOUS
<1>13. Settled(k)'
  BY <1>1, <1>3, <1>8, <1>12, SettledOf DEF Moving
<1>14. Agree(k, cells[buffer])'
  BY <1>4, <1>11, <1>12 DEF Agree, u
<1>15. IsModel(k)'
  BY <1>8, <1>12, <1>13, <1>14 DEF IsModel, NoHoles
<1> QED BY <1>15 DEF GraphicShape

\* A cleared screen, and the model of it.
LEMMA ModelCleared ==
  ASSUME row' = 0, col' = 0, \A w \in Writers : pc'[w] = "idle",
         NEW t, cells'[buffer'] = Blank(t), UNCHANGED bpp
  PROVE  GraphicShape'
<1> DEFINE h == [i \in Cell |-> Empty]
<1>1. h \in [Cell -> Marks] /\ \A i \in Cell : h[i] = Empty
  BY DEF Marks
<1>2. NoHoles(h) /\ \A i \in Reached : h[i] = cells'[buffer'][i]
  BY DEF NoHoles, Reached, Blank
<1> HIDE DEF h
<1>3. row' * Cols + col' = 0
  BY Sizes
<1>4. FilledTo(h, row', row' * Cols + col')
  BY <1>1, <1>3, FilledToStart
<1>5. Key \in Writers /\ pc'[Key] \notin Moving \cup {"col"}
  BY KeyWrites DEF Moving
<1>6. Settled(h)'
  BY <1>4, <1>5, SettledOf DEF Moving
<1>7. Agree(h, cells[buffer])'
  BY <1>2 DEF Agree, Reached, Cleared, Bytes
<1>8. IsModel(h)'
  BY <1>1, <1>2, <1>6, <1>7 DEF IsModel, NoHoles
<1> QED BY <1>8 DEF GraphicShape

\* init_screen (screen.c:203-219, 321-337).
LEMMA GraphicInit == InitScreens /\ Graphic => GraphicInv
<1> SUFFICES ASSUME InitScreens, Graphic PROVE GraphicInv
  OBVIOUS
<1>1. Types /\ Lined /\ Edges /\ Roomy /\ bpp \in Depths
  BY EdgesInit DEF InitScreens
<1> DEFINE p == [i \in Cell |-> Pattern]
           t == Blank(p)
<1>2. Start(t)
  BY DEF InitScreens
<1>3. t \in [Cell -> Dots]
  BY DEF Blank, Dots
<1> HIDE DEF t
<1>4. /\ cells = [b \in Buffers |-> t] /\ buffer \in Buffers
      /\ cells[buffer] = t
  BY <1>2 DEF Start, Buffers
<1>5. Sheet
  <2>1. 0 \in Nat /\ << <<>> >> \in Seq(Seq(Chars))
    OBVIOUS
  <2>2. Rest
    BY <1>2, <2>1 DEF Start, Rest
  <2> QED BY <1>3, <1>4, <2>2 DEF Sheet, Dots
<1>6. Brushes
  BY <1>2 DEF Start, Brushes, Entering, Drawing
<1>7. row = 0 /\ col = 0 /\ \A w \in Writers : pc[w] = "idle"
  BY <1>2 DEF Start
<1>8. GraphicShape
  <2> DEFINE h == [i \in Cell |-> Empty]
  <2>1. h \in [Cell -> Marks] /\ \A i \in Cell : h[i] = Empty
    BY DEF Marks
  <2>2. NoHoles(h) /\ \A i \in Reached : h[i] = t[i]
    BY DEF NoHoles, Reached, Blank, t
  <2> HIDE DEF h
  <2>3. row * Cols + col = 0
    BY <1>7, Sizes
  <2>4. FilledTo(h, row, row * Cols + col)
    BY <2>1, <2>3, FilledToStart
  <2>5. Settled(h)
    BY <1>7, <2>4 DEF Settled, Moving
  <2> QED BY <1>4, <2>1, <2>2, <2>5 DEF IsModel, Agree, GraphicShape
<1> QED BY <1>1, <1>5, <1>6, <1>8 DEF GraphicInv

\* Every step of every writer keeps the invariant of the graphics console.
LEMMA GraphicNext == GraphicInv /\ NextGraphic /\ UNCHANGED bpp => GraphicInv'
<1> SUFFICES ASSUME GraphicInv, NextGraphic, UNCHANGED bpp PROVE GraphicInv'
  OBVIOUS
<1>1. Types' /\ Lined' /\ Sheet' /\ Brushes' /\ Edges' /\ Roomy'
  BY EdgesNext, BrushesNext, LinedGraphic, RoomyNext, SheetNext DEF GraphicInv
<1>2. bpp' \in Depths /\ Graphic'
  BY DEF GraphicInv, Graphic
<1> SUFFICES ASSUME ~raced' PROVE GraphicShape'
  BY <1>1, <1>2 DEF GraphicInv
<1>3. ASSUME NEW w \in Writers,
             \/ Newline(w) \/ LookAtRow(w) \/ IncRow(w) \/ Aim(w)
             \/ Advance(w) \/ Compare(w) \/ Return(w)
      PROVE  GraphicShape'
  <2>1. ~raced
    BY <1>3 DEF Newline, LookAtRow, IncRow, Aim, Advance, Compare, Return
  <2>2. PICK g : IsModel(g)
    BY <2>1 DEF GraphicInv, GraphicShape
  <2>3. IsModel(g)'
    BY <1>3, <2>1, <2>2, ModelKept
  <2> QED BY <2>3 DEF GraphicShape
<1>4. ASSUME NEW w \in Writers, Scroll(w) \/ WipeGraphic(w) \/ Draw(w)
      PROVE  GraphicShape'
  <2>1. ~raced
    BY <1>4 DEF Scroll, WipeGraphic, Draw
  <2>2. PICK g : IsModel(g)
    BY <2>1 DEF GraphicInv, GraphicShape
  <2> QED BY <1>4, <2>1, <2>2, ModelMoved, ModelDrawn
<1>5. ASSUME NEW w \in Writers, NEW ch \in Chars \cup {NewLine}, BeginGraphic(w, ch)
      PROVE  GraphicShape'
  <2>1. /\ ~raced /\ \A v \in Writers : pc[v] = "idle"
        /\ UNCHANGED <<cells, buffer, col, row>>
        /\ pc'[w] \in {"newline", "aim"}
        /\ \A v \in Writers \ {w} : pc'[v] = "idle"
    BY <1>5 DEF BeginGraphic, Racing, Quiet, Goto, text, GraphicInv, Types, Numbers
  <2>2. PICK g : IsModel(g)
    BY <2>1 DEF GraphicInv, GraphicShape
  <2>3. FilledTo(g, row, row * Cols + col)
    BY <2>1, <2>2 DEF IsModel, Settled, Moving
  <2>4. Settled(g)'
    BY <2>1, <2>3, SettledOf DEF Moving
  <2>5. Agree(g, cells[buffer])'
    BY <2>1, <2>2 DEF IsModel, Agree, Reached, Cleared, Bytes
  <2>6. IsModel(g)'
    BY <2>2, <2>4, <2>5 DEF IsModel, NoHoles
  <2> QED BY <2>6 DEF GraphicShape
<1>6. CASE ClearGraphic
  <2>1. /\ \A w \in Writers : pc'[w] = "idle"
        /\ row' = 0 /\ col' = 0 /\ buffer' = buffer /\ buffer \in Buffers
        /\ cells' = [cells EXCEPT ![buffer] = Blank(cells[buffer])]
    BY <1>6 DEF ClearGraphic, Quiet, GraphicInv, Types
  <2>2. PICK t : t = cells[buffer]
    OBVIOUS
  <2>3. cells'[buffer'] = Blank(t)
    BY <2>1, <2>2 DEF GraphicInv, Sheet
  <2> QED BY <2>1, <2>3, ModelCleared
<1> QED BY <1>3, <1>4, <1>5, <1>6 DEF NextGraphic

-----------------------------------------------------------------------------
\* The invariant of both consoles.
TextInv    == Typed /\ Bounds /\ ShapeInv
ScreensInv == bpp \in Depths /\ (IF Graphic THEN GraphicInv ELSE TextInv)

LEMMA ScreensInvInit == InitScreens => ScreensInv
<1> SUFFICES ASSUME InitScreens PROVE ScreensInv
  OBVIOUS
<1>1. bpp \in Depths
  BY DEF InitScreens
<1>2. CASE Graphic
  BY <1>1, <1>2, GraphicInit DEF ScreensInv
<1>3. CASE ~Graphic
  <2>1. Init
    BY <1>3 DEF InitScreens, Init
  <2>2. Story
    BY <2>1, StoryInit
  <2>3. Rest
    <3>1. 0 \in Nat /\ before \in Seq(Seq(Chars))
      BY <2>2 DEF Story, Telling
    <3> QED BY <2>1, <3>1 DEF Init, Start, Rest
  <2>4. Typed
    BY <2>2, <2>3 DEF Typed, Story, ShapeInv
  <2> QED BY <1>1, <1>3, <2>1, <2>4, BoundsInit, ShapeInit DEF ScreensInv, TextInv
<1> QED BY <1>2, <1>3

\* A stutter keeps it.
LEMMA GraphicStutter == GraphicInv /\ UNCHANGED <<vars, bpp>> => GraphicInv'
<1> SUFFICES ASSUME GraphicInv, UNCHANGED <<vars, bpp>> PROVE GraphicInv'
  OBVIOUS
<1>1. UNCHANGED <<cells, buffer, enabled, cursor, col, row, pc, next, old, line,
                  to, at, char, raced, before, bpp>>
  BY DEF vars, text, locals
<1>2. Types' /\ Lined' /\ Sheet' /\ Brushes' /\ Edges' /\ Roomy'
  <2>1. Types' /\ Lined' /\ Sheet' /\ Brushes'
    BY <1>1 DEF GraphicInv, Types, Numbers, Lined, Sheet, Rest, Brushes
  <2>2. Edges'
    BY <1>1, <2>1 DEF GraphicInv, Types, Edges, RowRoom, RowOwing, EdgeRoom,
       Leading, Below, Passed, Aimed, StoreBound
  <2>3. Roomy'
    BY <1>1 DEF GraphicInv, Roomy, Unraced, Alone, Fresh, Passed
  <2> QED BY <2>1, <2>2, <2>3
<1>3. ~raced => GraphicShape'
  <2> SUFFICES ASSUME ~raced PROVE GraphicShape'
    OBVIOUS
  <2>1. PICK g : IsModel(g)
    BY DEF GraphicInv, GraphicShape
  <2>2. IsModel(g)'
    BY <1>1, <2>1 DEF IsModel, NoHoles, Settled, Agree, Reached, Cleared, Bytes
  <2> QED BY <2>2 DEF GraphicShape
<1> QED BY <1>1, <1>2, <1>3 DEF GraphicInv, Graphic

LEMMA ScreensInvNext ==
  ScreensInv /\ [NextScreens]_<<vars, bpp>> => ScreensInv'
<1> SUFFICES ASSUME ScreensInv, [NextScreens]_<<vars, bpp>> PROVE ScreensInv'
  OBVIOUS
<1>1. UNCHANGED bpp /\ Graphic' = Graphic /\ bpp' \in Depths
  BY DEF NextScreens, Graphic, ScreensInv
<1>2. CASE Graphic
  <2>1. GraphicInv
    BY <1>2 DEF ScreensInv
  <2>2. GraphicInv'
    BY <1>1, <1>2, <2>1, GraphicNext, GraphicStutter DEF NextScreens
  <2> QED BY <1>1, <1>2, <2>2 DEF ScreensInv
<1>3. CASE ~Graphic
  <2>1. TextInv /\ [Next]_vars
    BY <1>3 DEF ScreensInv, NextScreens
  <2>2. TextInv'
    BY <2>1, TypedNext, BoundsNext, ShapeNext DEF TextInv
  <2> QED BY <1>1, <1>3, <2>2 DEF ScreensInv
<1> QED BY <1>2, <1>3

\* The type invariant of both consoles, for every screen and depth and with or
\* without nested handlers: a glyph that is drawn beyond the right edge still
\* leaves characters, cleared cells and the pattern only.
THEOREM ScreensTyped == SpecScreens => []TypeOK
<1>1. ScreensInv => TypeOK
  <2>1. CASE Graphic
    BY <2>1 DEF ScreensInv, GraphicInv, Types, Numbers, Lined, Sheet, Rest,
       Brushes, TypeOK
  <2>2. CASE ~Graphic
    <3>1. Ink \cup {Pattern} = Chars \cup {Empty, Pattern}
      BY DEF Ink
    <3> QED BY <2>2, <3>1 DEF ScreensInv, TextInv, Typed, Rest, Inked, Types,
            Numbers, Lined, Paper, Pens, TypeOK
  <2> QED BY <2>1, <2>2
<1> QED BY <1>1, ScreensInvInit, ScreensInvNext, PTL DEF SpecScreens

\* However the writers interleave, and however many clock handlers are nested,
\* neither console's position or store gets further behind the screen than the
\* text console's bound; the graphics console compares only after it has counted,
\* and each of its writers can be one column ahead (screen.c:49-62, 79-84,
\* 221-296; cmos.c:58).
THEOREM ScreensDamageIsBounded == SpecScreens => []DamageBounded
<1>1. ScreensInv => DamageBounded
  <2> SUFFICES ASSUME ScreensInv PROVE DamageBounded
    OBVIOUS
  <2>1. CASE Graphic
    <3>1. Edges
      BY <2>1 DEF ScreensInv, GraphicInv
    <3> QED BY <3>1, EdgesWorth DEF Edges, StoreBound, DamageBounded
  <2>2. CASE ~Graphic
    BY <2>2, BoundsWorth DEF ScreensInv, TextInv
  <2> QED BY <2>1, <2>2
<1> QED BY <1>1, ScreensInvInit, ScreensInvNext, PTL DEF SpecScreens

\* Unless a handler has started inside a character since the last clear, every
\* store of either console is inside the screen (screen.c:80-81, 256-275).
THEOREM ScreensStoresAreInside == SpecScreens => []StoresInside
<1>1. ScreensInv => StoresInside
  <2>1. ScreensInv => Types /\ Unraced
    BY DEF ScreensInv, GraphicInv, Roomy, TextInv, ShapeInv
  <2> QED BY <2>1, OnScreen DEF Types, Numbers, Unraced, Fresh, StoresInside
<1> QED BY <1>1, ScreensInvInit, ScreensInvNext, PTL DEF SpecScreens

\* ... and between characters the text of either console has no holes, on the
\* graphics console as far as its clear reaches, at every depth; there it also
\* leaves room for a character (screen.c:203-296).
THEOREM ScreensAreWellFormed == SpecScreens => []ScreenWellFormed
<1>1. ScreensInv => ScreenWellFormed
  <2>1. CASE ~Graphic
    <3> SUFFICES ASSUME ShapeInv, ~raced, Quiet
                 PROVE  /\ row < Rows /\ col <= Cols
                        /\ NoHoles(cells[buffer])
                        /\ FilledTo(cells[buffer], row, row * Cols + col)
      BY <2>1 DEF ScreensInv, TextInv, ScreenWellFormed, TextWellFormed, NoHoles,
         FilledTo, EmptyFrom
    <3> QED BY DEF ShapeInv, Unraced, Shape, Quiet, Moving
  <2>2. CASE Graphic
    <3> SUFFICES ASSUME GraphicInv, ~raced, Quiet
                 PROVE  /\ row < Rows /\ col < Cols
                        /\ \A i \in Cell :
                             bpp # 24 \/ 3 * ((i % Cols) + 1) <= 2 * Cols =>
                          /\ i >= row * Cols + col => cells[buffer][i] = Empty
                          /\ i \div Cols = row /\ i < row * Cols + col =>
                                cells[buffer][i] # Empty
                          /\ i % Cols > 0 /\ cells[buffer][i] # Empty =>
                                cells[buffer][i - 1] # Empty
      BY <2>2 DEF ScreensInv, ScreenWellFormed
    <3>1. row < Rows /\ col < Cols
      BY DEF GraphicInv, Roomy, Unraced, Quiet, Passed
    <3>2. PICK g : IsModel(g)
      BY DEF GraphicInv, GraphicShape
    <3>3. NoHoles(g) /\ FilledTo(g, row, row * Cols + col)
      BY <3>2 DEF IsModel, Settled, Quiet, Moving
    <3>4. ASSUME NEW i \in Cell, bpp # 24 \/ 3 * ((i % Cols) + 1) <= 2 * Cols
          PROVE  /\ i \in Reached /\ g[i] = cells[buffer][i]
                 /\ i % Cols > 0 => g[i - 1] = cells[buffer][i - 1]
      <4>1. i \in Reached /\ (i % Cols > 0 => i - 1 \in Reached)
        BY <3>4, Reach DEF GraphicInv
      <4> QED BY <3>2, <4>1 DEF IsModel, Agree
    <3> QED BY <3>1, <3>3, <3>4 DEF NoHoles, FilledTo, EmptyFrom
  <2> QED BY <2>1, <2>2
<1> QED BY <1>1, ScreensInvInit, ScreensInvNext, PTL DEF SpecScreens
=============================================================================
