-------------------------- MODULE TextScreenProofs --------------------------
(***************************************************************************)
(* The bound on what interrupted characters can do to the console, for     *)
(* every screen size.  A writer that has looked at the row and not yet     *)
(* counted it up owes one row, one that has looked at the column and not   *)
(* yet counted it up owes one column.  Row and column together with the    *)
(* number of writers that owe them never pass the bound: a look owes only  *)
(* when there is room, and besides the writer that takes it no more can    *)
(* owe than can be interrupted, however many clock handlers are nested.    *)
(*                                                                         *)
(* And, while no handler has started inside a character, the position is   *)
(* what the one writer has looked at: every store hits the screen, the     *)
(* text is well formed, and a hidden console is never drawn on.            *)
(*                                                                         *)
(* Last, the console implements the abstract one, if handlers start only   *)
(* between two characters: from its first step to its last, a character    *)
(* has left the text as it was, or moved it up by a row, or added the      *)
(* character to that, and where its writer is tells which.                 *)
(***************************************************************************)
EXTENDS TextScreen, FiniteSetTheorems, SequenceTheorems, TLAPS

\* The part of the type invariant the arithmetic needs.
Numbers == /\ col \in Nat /\ row \in Nat
           /\ pc \in [Writers -> Pc]
           /\ old \in [Writers -> Nat] /\ at \in [Writers -> Nat]
           /\ next \in [Writers -> {"aim", "cursor"}]

RowOwed(w) == IF pc[w] = "inc" THEN 1 ELSE 0

OwesCol(w) == \/ pc[w] \in {"aim", "store", "col"}
              \/ pc[w] \in {"row", "inc", "scroll", "wipe"} /\ next[w] = "aim"
ColOwed(w) == IF OwesCol(w) THEN 1 ELSE 0

RowOwing == {w \in Writers : pc[w] = "inc"}
ColOwing == {w \in Writers : OwesCol(w)}
Below(S, w) == {v \in S : v < w}

RowRoom ==
  /\ row + Cardinality(RowOwing) < Rows + Beyond
  /\ \A w \in Writers : pc[w] = "inc" => old[w] < Rows - 1

\* A register copy of the column has room for itself and for what the writers
\* below, which cannot move meanwhile, still owe.
Aimed(w) == pc[w] \in {"store", "col"}

ColRoom ==
  /\ col + Cardinality(ColOwing) <= Cols + Beyond
  /\ \A w \in Writers : Aimed(w) =>
       old[w] + 1 + Cardinality(Below(ColOwing, w)) <= Cols + Beyond

StoreBound == \A w \in Writers :
  pc[w] = "store" => at[w] < (Rows + Clocks) * Cols + Cols + Beyond

Bounds == Numbers /\ RowRoom /\ ColRoom /\ StoreBound

\* The screen has at least one cell.
LEMMA Sizes == Rows \in Nat \ {0} /\ Cols \in Nat \ {0}
  BY ScreenAssumption

\* The number of clock handlers.
LEMMA Levels == Clocks \in Nat /\ Beyond = Clocks + 1
  BY ScreenAssumption DEF Beyond

\* A cell that is behind the screen by no more rows and columns than writers can
\* be interrupted is no more than this behind its first cell (screen.c:80-81).
LEMMA CellBound ==
  ASSUME NEW r \in Nat, NEW c \in Nat, r < Rows + Beyond, c < Cols + Beyond
  PROVE  /\ c + r * Cols \in Nat
         /\ c + r * Cols < (Rows + Clocks) * Cols + Cols + Beyond
<1> DEFINE m == Rows + Clocks
<1>1. m \in Nat /\ r <= m /\ Cols \in Nat
  BY Sizes, Levels
<1> HIDE DEF m
<1>2. r * Cols \in Nat /\ m * Cols \in Nat /\ r * Cols <= m * Cols
  BY <1>1
<1>3. c + r * Cols < m * Cols + Cols + Beyond
  BY <1>1, <1>2, Levels
<1> QED BY <1>2, <1>3 DEF m

LEMMA KeyWrites == Main \in Writers /\ Key \in Writers
  BY Levels DEF Writers, Main, Key

\* Sets of writers are finite; without w they are no more than the others.
LEMMA Counted ==
  ASSUME NEW S \in SUBSET Writers
  PROVE  IsFiniteSet(S) /\ Cardinality(S) \in Nat
<1>1. IsFiniteSet(Writers)
  BY FS_Interval, Levels DEF Writers, Main, Key
<1> QED BY <1>1, FS_Subset, FS_CardinalityType

LEMMA OneOfMany ==
  ASSUME NEW S \in SUBSET Writers, NEW w \in Writers
  PROVE  /\ Cardinality(S \ {w}) \in 0 .. Beyond
         /\ Cardinality(S) = Cardinality(S \ {w}) + (IF w \in S THEN 1 ELSE 0)
<1>1. IsFiniteSet(Writers) /\ Cardinality(Writers) = Clocks + 2
  BY FS_Interval, Levels DEF Writers, Main, Key
<1>2. /\ IsFiniteSet(Writers \ {w})
      /\ Cardinality(Writers \ {w}) = Clocks + 1
  BY <1>1, FS_RemoveElement, Levels
<1>3. S \ {w} \in SUBSET (Writers \ {w})
  OBVIOUS
<1>4. Cardinality(S \ {w}) <= Clocks + 1
  BY <1>2, <1>3, FS_Subset
<1>5. Cardinality(S \ {w}) \in Nat /\ Cardinality(S) \in Nat /\ IsFiniteSet(S)
  BY Counted
<1>6. Cardinality(S \ {w}) =
        IF w \in S THEN Cardinality(S) - 1 ELSE Cardinality(S)
  BY <1>5, FS_RemoveElement
<1>7. Cardinality(S \ {w}) \in 0 .. Beyond
  BY <1>4, <1>5, Levels
<1> QED BY <1>5, <1>6, <1>7

\* When w moves, those that can interrupt it owe nothing, so that what is owed
\* is w's and that of the writers below, which w does not change.
LEMMA Owed ==
  ASSUME NEW S \in SUBSET Writers, NEW T \in SUBSET Writers, NEW w \in Writers,
         S \ {w} = T \ {w}, \A v \in S \cup T : v <= w
  PROVE  /\ \E r \in 0 .. Beyond :
              /\ Cardinality(S) = r + (IF w \in S THEN 1 ELSE 0)
              /\ Cardinality(T) = r + (IF w \in T THEN 1 ELSE 0)
              /\ Cardinality(Below(S, w)) = r
              /\ Cardinality(Below(T, w)) = r
         /\ \A v \in Writers : v < w => Below(S, v) = Below(T, v)
<1>0. \A v \in Writers : v \in Int
  BY Levels DEF Writers, Main, Key
<1>1. Below(S, w) = S \ {w} /\ Below(T, w) = T \ {w}
  <2>1. \A v \in S \cup T : v < w <=> v # w
    BY <1>0
  <2> QED BY <2>1 DEF Below
<1>2. ASSUME NEW v \in Writers, v < w
      PROVE  Below(S, v) = Below(T, v)
  <2>1. \A x \in S \cup T : x < v => x # w
    BY <1>0, <1>2
  <2> QED BY <2>1 DEF Below
<1>3. /\ Cardinality(S \ {w}) \in 0 .. Beyond
      /\ Cardinality(S) = Cardinality(S \ {w}) + (IF w \in S THEN 1 ELSE 0)
      /\ Cardinality(T) = Cardinality(S \ {w}) + (IF w \in T THEN 1 ELSE 0)
  BY OneOfMany
<1> QED BY <1>1, <1>2, <1>3

\* The cleared console is within the bounds (screen.c:124-130).
LEMMA BoundsInit == Init => Bounds
<1> SUFFICES ASSUME Init PROVE Bounds
  OBVIOUS
<1>1. Numbers
  BY DEF Init, Start, Numbers, Pc
<1>2. \A w \in Writers : pc[w] = "idle"
  BY DEF Init, Start
<1>3. col = 0 /\ row = 0
  BY DEF Init, Start
<1>4. RowOwing = {} /\ ColOwing = {}
  BY <1>2 DEF RowOwing, ColOwing, OwesCol
<1>5. Cardinality({}) = 0
  BY FS_EmptySet
<1> QED BY <1>1, <1>2, <1>3, <1>4, <1>5, Sizes, Levels
       DEF Bounds, RowRoom, ColRoom, StoreBound, Aimed

\* A step of w alone, while those that can interrupt it are between characters
\* (intr.asm:134-176, cmos_low.asm:13).
Turns(w) == /\ Running(w)
            /\ \A v \in Writers \ {w} :
                 /\ pc'[v] = pc[v] /\ next'[v] = next[v]
                 /\ old'[v] = old[v] /\ at'[v] = at[v]

LEMMA TurnKeeps ==
  ASSUME NEW w \in Writers, Turns(w)
  PROVE  /\ \A v \in Writers : v > w => pc[v] = "idle" /\ pc'[v] = "idle"
         /\ \A v \in Writers : v < w => /\ pc'[v] = pc[v] /\ next'[v] = next[v]
                                        /\ old'[v] = old[v] /\ at'[v] = at[v]
         /\ \A v \in Writers : v < w \/ v = w \/ v > w
<1>1. \A v \in Writers : v \in Int
  BY Levels DEF Writers, Main, Key
<1>2. \A v \in Writers : v > w => pc[v] = "idle" /\ v # w
  BY <1>1 DEF Turns, Running, Above
<1>3. \A v \in Writers : v < w => v # w
  BY <1>1
<1> QED BY <1>1, <1>2, <1>3 DEF Turns

\* The row stays below the bound if w pays what it owes, or owes only what there
\* is room for on the screen.
LEMMA RowStep ==
  ASSUME Numbers, Numbers', RowRoom, StoreBound, NEW w \in Writers, Turns(w),
         row' + RowOwed(w)' <= row + RowOwed(w) \/ row' + RowOwed(w)' < Rows,
         pc'[w] = "inc" => old'[w] < Rows - 1,
         pc'[w] = "store" => at'[w] < (Rows + Clocks) * Cols + Cols + Beyond
  PROVE  RowRoom' /\ StoreBound'
<1>1. /\ RowOwing \in SUBSET Writers /\ RowOwing' \in SUBSET Writers
      /\ RowOwing \ {w} = RowOwing' \ {w}
      /\ \A v \in RowOwing \cup RowOwing' : v <= w
  <2>1. \A v \in Writers : v \in Int
    BY Levels DEF Writers, Main, Key
  <2>2. \A v \in Writers : pc[v] = "inc" \/ pc'[v] = "inc" => v <= w
    BY <2>1, TurnKeeps
  <2>3. \A v \in Writers \ {w} : pc'[v] = pc[v]
    BY DEF Turns
  <2> QED BY <2>2, <2>3 DEF RowOwing
<1>2. PICK S \in SUBSET Writers, T \in SUBSET Writers :
        S = RowOwing /\ T = RowOwing'
  BY <1>1
<1>3. PICK r \in 0 .. Beyond :
        /\ Cardinality(S) = r + (IF w \in S THEN 1 ELSE 0)
        /\ Cardinality(T) = r + (IF w \in T THEN 1 ELSE 0)
  BY <1>1, <1>2, Owed
<1>4. /\ Cardinality(RowOwing) = r + RowOwed(w)
      /\ Cardinality(RowOwing)' = r + RowOwed(w)'
  BY <1>2, <1>3 DEF RowOwing, RowOwed
<1>5. (row + Cardinality(RowOwing) < Rows + Beyond)'
  <2>1. PICK a \in 0 .. 1, b \in 0 .. 1, x \in Nat, y \in Nat :
          a = RowOwed(w) /\ b = RowOwed(w)' /\ x = row /\ y = row'
    BY DEF RowOwed, Numbers
  <2>2. x + (r + a) < Rows + Beyond /\ (y + b <= x + a \/ y + b < Rows)
    BY <1>4, <2>1 DEF RowRoom
  <2>3. r \in Nat /\ r <= Beyond /\ Beyond \in Nat /\ Rows \in Nat
    BY Levels, Sizes
  <2>4. y + (r + b) < Rows + Beyond
    BY ONLY <2>2, <2>3, a \in 0 .. 1, b \in 0 .. 1, x \in Nat, y \in Nat
  <2> QED BY <1>4, <2>1, <2>4
<1>6. \A v \in Writers : pc'[v] = "inc" => old'[v] < Rows - 1
  BY DEF RowRoom, Turns
<1>7. \A v \in Writers : pc'[v] = "store" =>
        at'[v] < (Rows + Clocks) * Cols + Cols + Beyond
  BY DEF StoreBound, Turns
<1> QED BY <1>5, <1>6, <1>7 DEF RowRoom, StoreBound

\* ... and so does the column, which w may also count up from its register.
LEMMA ColStep ==
  ASSUME Numbers, Numbers', ColRoom, NEW w \in Writers, Turns(w),
         \/ col' + ColOwed(w)' <= col + ColOwed(w)
         \/ col' + ColOwed(w)' <= Cols
         \/ Aimed(w) /\ col' + ColOwed(w)' <= old[w] + 1,
         Aimed(w)' => \/ Aimed(w) /\ old'[w] = old[w]
                      \/ OwesCol(w) /\ old'[w] = col
  PROVE  ColRoom'
<1>0. \A v \in Writers : v \in Int
  BY Levels DEF Writers, Main, Key
<1>1. /\ ColOwing \in SUBSET Writers /\ ColOwing' \in SUBSET Writers
      /\ ColOwing \ {w} = ColOwing' \ {w}
      /\ \A v \in ColOwing \cup ColOwing' : v <= w
  <2>2. \A v \in Writers : OwesCol(v) \/ OwesCol(v)' => v <= w
    BY <1>0, TurnKeeps DEF OwesCol
  <2>3. \A v \in Writers \ {w} : OwesCol(v)' <=> OwesCol(v)
    BY DEF Turns, OwesCol
  <2> QED BY <2>2, <2>3 DEF ColOwing
<1>2. PICK S \in SUBSET Writers, T \in SUBSET Writers :
        S = ColOwing /\ T = ColOwing'
  BY <1>1
<1>3. PICK r \in 0 .. Beyond :
        /\ Cardinality(S) = r + (IF w \in S THEN 1 ELSE 0)
        /\ Cardinality(T) = r + (IF w \in T THEN 1 ELSE 0)
        /\ Cardinality(Below(S, w)) = r
        /\ Cardinality(Below(T, w)) = r
  BY <1>1, <1>2, Owed
<1>4. \A v \in Writers : v < w => Below(S, v) = Below(T, v)
  BY <1>1, <1>2, Owed
<1>5. /\ Cardinality(ColOwing) = r + ColOwed(w)
      /\ Cardinality(ColOwing)' = r + ColOwed(w)'
      /\ Cardinality(Below(ColOwing, w)) = r
      /\ Cardinality(Below(ColOwing, w))' = r
  BY <1>2, <1>3 DEF ColOwing, ColOwed, Below
<1>6. /\ ColOwed(w) \in 0 .. 1 /\ ColOwed(w)' \in 0 .. 1
      /\ OwesCol(w) => ColOwed(w) = 1
      /\ col \in Nat /\ col' \in Nat /\ r \in Nat /\ r <= Clocks + 1
      /\ old[w] \in Nat /\ old'[w] \in Nat
  BY Levels DEF ColOwed, Numbers
<1>7. /\ col + r + ColOwed(w) <= Cols + Beyond
      /\ Aimed(w) => old[w] + 1 + r <= Cols + Beyond
  <2>1. Aimed(w) => old[w] + 1 + Cardinality(Below(ColOwing, w)) <= Cols + Beyond
    BY DEF ColRoom
  <2> QED BY <1>5, <1>6, <2>1 DEF ColRoom
<1>8. (col + Cardinality(ColOwing) <= Cols + Beyond)'
  <2>1. PICK a \in 0 .. 1, b \in 0 .. 1, o \in Nat, x \in Nat, y \in Nat :
          /\ a = ColOwed(w) /\ b = ColOwed(w)' /\ x = col /\ y = col'
          /\ o = old[w]
    BY <1>6
  <2>2. /\ x + r + a <= Cols + Beyond
        /\ \/ y + b <= x + a
           \/ y + b <= Cols
           \/ o + 1 + r <= Cols + Beyond /\ y + b <= o + 1
    BY <1>7, <2>1
  <2>3. r \in Nat /\ r <= Beyond /\ Beyond \in Nat /\ Cols \in Nat
    BY Levels, Sizes
  <2>4. y + (r + b) <= Cols + Beyond
    BY ONLY <2>2, <2>3, a \in 0 .. 1, b \in 0 .. 1, o \in Nat, x \in Nat, y \in Nat
  <2> QED BY <1>5, <2>1, <2>4
<1>9. ASSUME NEW v \in Writers, Aimed(v)'
      PROVE  old'[v] + 1 + Cardinality(Below(ColOwing, v))' <= Cols + Beyond
  <2>1. CASE v < w
    <3>1. Aimed(v) /\ old'[v] = old[v]
      BY <1>9, <2>1, TurnKeeps DEF Aimed
    <3>2. Below(ColOwing, v) = Below(ColOwing, v)'
      BY <1>2, <1>4, <2>1 DEF Below
    <3> QED BY <3>1, <3>2 DEF ColRoom
  <2>2. CASE v = w
    <3>1. old'[w] + 1 + r <= Cols + Beyond
      BY <1>6, <1>7, <1>9, <2>2, Sizes, Levels
    <3> QED BY <1>5, <2>2, <3>1
  <2>3. CASE v > w
    BY <1>9, <2>3, TurnKeeps DEF Aimed
  <2> QED BY <2>1, <2>2, <2>3, TurnKeeps
<1> QED BY <1>8, <1>9 DEF ColRoom

LEMMA BoundsStep ==
  ASSUME Bounds, Numbers', NEW w \in Writers, Turns(w),
         row' + RowOwed(w)' <= row + RowOwed(w) \/ row' + RowOwed(w)' < Rows,
         pc'[w] = "inc" => old'[w] < Rows - 1,
         pc'[w] = "store" => at'[w] < (Rows + Clocks) * Cols + Cols + Beyond,
         \/ col' + ColOwed(w)' <= col + ColOwed(w)
         \/ col' + ColOwed(w)' <= Cols
         \/ Aimed(w) /\ col' + ColOwed(w)' <= old[w] + 1,
         Aimed(w)' => \/ Aimed(w) /\ old'[w] = old[w]
                      \/ OwesCol(w) /\ old'[w] = col
  PROVE  Bounds'
  BY RowStep, ColStep DEF Bounds

\* Every step of every writer keeps them (screen.c:43-84).
LEMMA BoundsNext == Bounds /\ [Next]_vars => Bounds'
<1> SUFFICES ASSUME Bounds, [Next]_vars PROVE Bounds'
  OBVIOUS
<1> USE Sizes
<1>0. Numbers
  BY DEF Bounds
<1>1. ASSUME NEW w \in Writers, NEW ch \in Chars \cup {NewLine}, Begin(w, ch)
      PROVE  Bounds'
  <2>1. Numbers' /\ Turns(w)
    BY <1>0, <1>1 DEF Begin, Full, Returns, At, Goto, Pc, Numbers, Turns
  <2>2. /\ (pc'[w] = "aim" /\ col < Cols) \/ pc'[w] = "newline"
        /\ pc[w] = "idle" /\ UNCHANGED <<row, col>>
    BY <1>0, <1>1 DEF Begin, Full, At, Goto, Numbers
  <2> QED BY <1>0, <2>1, <2>2, BoundsStep
          DEF RowOwed, ColOwed, OwesCol, Aimed, Numbers
<1>2. ASSUME NEW w \in Writers, Newline(w)
      PROVE  Bounds'
  <2>1. Numbers' /\ Turns(w)
    BY <1>0, <1>2 DEF Newline, At, Goto, Pc, Numbers, Turns, locals
  <2>2. pc[w] = "newline" /\ pc'[w] = "row" /\ row' = row /\ col' = 0
    BY <1>0, <1>2 DEF Newline, At, Goto, Numbers
  <2> QED BY <1>0, <2>1, <2>2, BoundsStep
          DEF RowOwed, ColOwed, OwesCol, Aimed, Numbers
<1>3. ASSUME NEW w \in Writers, LookAtRow(w)
      PROVE  Bounds'
  <2>1. Numbers' /\ Turns(w)
    BY <1>0, <1>3 DEF LookAtRow, At, Goto, Pc, Numbers, Turns
  <2>2. /\ pc[w] = "row" /\ UNCHANGED <<row, col, next>>
        /\ \/ pc'[w] = "inc" /\ row < Rows - 1 /\ old'[w] = row
           \/ pc'[w] \in {"scroll", "wipe"}
        /\ row \in Nat
    BY <1>0, <1>3 DEF LookAtRow, LastRow, At, Goto, Numbers
  <2> QED BY <1>0, <2>1, <2>2, BoundsStep
          DEF RowOwed, ColOwed, OwesCol, Aimed, Numbers
<1>4. ASSUME NEW w \in Writers, IncRow(w)
      PROVE  Bounds'
  <2>1. Numbers' /\ Turns(w)
    BY <1>0, <1>4 DEF IncRow, At, Goto, Pc, Numbers, Turns
  <2>2. /\ pc[w] = "inc" /\ pc'[w] \in {"aim", "cursor"} /\ pc'[w] = next[w]
        /\ UNCHANGED <<col, next>>
        /\ (row' = row + 1) \/ (row' = old[w] + 1)
    BY <1>0, <1>4 DEF IncRow, At, Goto, Numbers
  <2>3. old[w] < Rows - 1 /\ old[w] \in Nat
    BY <1>0, <2>2 DEF Bounds, RowRoom, Numbers
  <2>4. RowOwed(w) = 1 /\ RowOwed(w)' = 0 /\ ColOwed(w)' = ColOwed(w)
    BY <2>2 DEF RowOwed, ColOwed, OwesCol
  <2>5. row' + RowOwed(w)' <= row + RowOwed(w) \/ row' + RowOwed(w)' < Rows
    BY <1>0, <2>2, <2>3, <2>4 DEF Numbers
  <2>6. col' + ColOwed(w)' <= col + ColOwed(w)
    BY <1>0, <2>2, <2>4 DEF Numbers, ColOwed
  <2> QED BY <2>1, <2>2, <2>5, <2>6, BoundsStep DEF Aimed
<1>5. ASSUME NEW w \in Writers, Scroll(w) \/ Wipe(w)
      PROVE  Bounds'
  <2>1. Numbers' /\ Turns(w)
    BY <1>0, <1>5 DEF Scroll, Wipe, At, Goto, Pc, Numbers, Turns
  <2>2. /\ \/ pc[w] = "scroll" /\ pc'[w] \in {"scroll", "wipe"}
           \/ pc[w] = "wipe" /\ pc'[w] \in {"aim", "cursor"} /\ pc'[w] = next[w]
        /\ UNCHANGED <<row, col, next>>
    BY <1>0, <1>5 DEF Scroll, Wipe, At, Goto, Numbers
  <2> QED BY <1>0, <2>1, <2>2, BoundsStep
          DEF RowOwed, ColOwed, OwesCol, Aimed, Numbers
<1>6. ASSUME NEW w \in Writers, Aim(w)
      PROVE  Bounds'
  <2>1. /\ pc[w] = "aim" /\ pc'[w] = "store" /\ UNCHANGED <<row, col, next>>
        /\ old'[w] = col /\ at'[w] = col + row * Cols /\ Turns(w)
    BY <1>0, <1>6 DEF Aim, At, Goto, Numbers, Turns
  <2>2. col < Cols + Beyond /\ row < Rows + Beyond
    <3>1. RowOwing \in SUBSET Writers /\ ColOwing \in SUBSET Writers
          /\ w \in ColOwing
      BY <2>1 DEF RowOwing, ColOwing, OwesCol
    <3>2. PICK S \in SUBSET Writers, T \in SUBSET Writers :
            S = RowOwing /\ T = ColOwing
      BY <3>1
    <3>3. Cardinality(S) \in Nat /\ Cardinality(T) \in Nat \ {0}
      <4>1. Cardinality(S) \in Nat
        BY Counted
      <4>2. /\ Cardinality(T \ {w}) \in 0 .. Beyond
            /\ Cardinality(T) = Cardinality(T \ {w}) + (IF w \in T THEN 1 ELSE 0)
        BY OneOfMany
      <4> QED BY <3>1, <3>2, <4>1, <4>2
    <3>4. /\ row + Cardinality(S) < Rows + Beyond
          /\ col + Cardinality(T) <= Cols + Beyond
      BY <3>2 DEF Bounds, RowRoom, ColRoom
    <3> QED BY <1>0, <3>3, <3>4, Levels DEF Numbers
  <2>3. /\ at'[w] \in Nat
        /\ at'[w] < (Rows + Clocks) * Cols + Cols + Beyond
    BY <1>0, <2>1, <2>2, CellBound DEF Numbers
  <2>4. Numbers'
    BY <1>0, <1>6, <2>1, <2>3 DEF Aim, At, Goto, Pc, Numbers
  <2> QED BY <1>0, <2>1, <2>3, <2>4, BoundsStep
          DEF RowOwed, ColOwed, OwesCol, Aimed, Numbers
<1>7. ASSUME NEW w \in Writers, Store(w)
      PROVE  Bounds'
  <2>1. Numbers' /\ Turns(w)
    BY <1>0, <1>7 DEF Store, At, Goto, Pc, Numbers, Turns
  <2>2. /\ pc[w] = "store" /\ pc'[w] = "col" /\ UNCHANGED <<row, col, next, old>>
    BY <1>0, <1>7 DEF Store, At, Goto, Numbers
  <2> QED BY <1>0, <2>1, <2>2, BoundsStep
          DEF RowOwed, ColOwed, OwesCol, Aimed, Numbers
<1>8. ASSUME NEW w \in Writers, IncCol(w)
      PROVE  Bounds'
  <2>1. Numbers' /\ Turns(w)
    BY <1>0, <1>8 DEF IncCol, At, Goto, Pc, Numbers, Turns
  <2>2. /\ pc[w] = "col" /\ pc'[w] = "cursor" /\ row' = row
        /\ (col' = col + 1) \/ (col' = old[w] + 1)
    BY <1>0, <1>8 DEF IncCol, At, Goto, Numbers
  <2>3. /\ RowOwed(w)' = RowOwed(w) /\ ColOwed(w) = 1 /\ ColOwed(w)' = 0
        /\ Aimed(w) /\ ~Aimed(w)'
    BY <2>2 DEF RowOwed, ColOwed, OwesCol, Aimed
  <2>4. row' + RowOwed(w)' <= row + RowOwed(w)
    BY <1>0, <2>2, <2>3 DEF Numbers, RowOwed
  <2>5. \/ col' + ColOwed(w)' <= col + ColOwed(w)
        \/ Aimed(w) /\ col' + ColOwed(w)' <= old[w] + 1
    BY <1>0, <2>2, <2>3 DEF Numbers
  <2> QED BY <2>1, <2>2, <2>3, <2>4, <2>5, BoundsStep
<1>9. ASSUME NEW w \in Writers, MoveCursor(w)
      PROVE  Bounds'
  <2>1. Numbers' /\ Turns(w)
    BY <1>0, <1>9 DEF MoveCursor, At, Pc, Numbers, Turns
  <2>2. pc[w] = "cursor" /\ pc'[w] = "idle" /\ UNCHANGED <<row, col>>
    BY <1>0, <1>9 DEF MoveCursor, At, Numbers
  <2> QED BY <1>0, <2>1, <2>2, BoundsStep
          DEF RowOwed, ColOwed, OwesCol, Aimed, Numbers
<1>10. CASE Clear \/ Hide \/ Show
  <2>1. /\ Running(Key) /\ pc[Key] = "idle" /\ UNCHANGED <<pc, old, next, at>>
        /\ Key \in Writers
    BY <1>10, KeyWrites DEF Clear, Hide, Show, At, locals
  <2>2. (col' = col /\ row' = row) \/ (col' = 0 /\ row' = 0)
    BY <1>10 DEF Clear, Hide, Show
  <2>3. Numbers' /\ Turns(Key)
    BY <1>0, <2>1, <2>2 DEF Numbers, Turns
  <2> QED BY <1>0, <2>1, <2>2, <2>3, BoundsStep
          DEF RowOwed, ColOwed, OwesCol, Aimed, Numbers
<1>11. CASE UNCHANGED vars
  <2>1. UNCHANGED <<row, col, pc, next, old, at>>
    BY <1>11 DEF vars, locals
  <2> QED BY <2>1 DEF Bounds, Numbers, RowRoom, ColRoom, StoreBound, RowOwing,
             ColOwing, OwesCol, Aimed, Below
<1> QED BY <1>1, <1>2, <1>3, <1>4, <1>5, <1>6, <1>7, <1>8, <1>9, <1>10, <1>11
        DEF Next, Step

LEMMA BoundsWorth == Bounds => DamageBounded
<1> SUFFICES ASSUME Bounds PROVE DamageBounded
  OBVIOUS
<1>1. PICK S \in SUBSET Writers, T \in SUBSET Writers :
        S = RowOwing /\ T = ColOwing
  BY DEF RowOwing, ColOwing
<1>2. Cardinality(S) \in Nat /\ Cardinality(T) \in Nat
  BY Counted
<1>3. /\ row + Cardinality(S) < Rows + Beyond
      /\ col + Cardinality(T) <= Cols + Beyond
      /\ row \in Nat /\ col \in Nat
  BY <1>1 DEF Bounds, Numbers, RowRoom, ColRoom
<1>4. row < Rows + Beyond /\ col <= Cols + Beyond
  BY <1>2, <1>3, Sizes, Levels
<1> QED BY <1>4 DEF Bounds, StoreBound, DamageBounded

\* However the writers interleave, and however many clock handlers are nested,
\* row and column get behind the screen by no more than there are writers that
\* can be interrupted, and a store no further than that puts it (screen.c:49-62,
\* 71-84; cmos.c:58).
THEOREM DamageIsBounded == Spec => []DamageBounded
BY BoundsInit, BoundsNext, BoundsWorth, PTL DEF Spec

-----------------------------------------------------------------------------
\* Without a race only one writer is inside a character, ...
Alone == \A v, w \in Writers : pc[v] # "idle" /\ pc[w] # "idle" => v = w

\* ... what it has looked at is still so, ...
Fresh == \A w \in Writers :
  /\ pc[w] = "inc" => row < Rows - 1 /\ old[w] = row
  /\ pc[w] \in {"row", "inc", "scroll", "wipe"} => col = 0
  /\ pc[w] \in {"aim", "store", "col"} => col < Cols
  /\ pc[w] \in {"store", "col"} => old[w] = col
  /\ pc[w] = "store" => at[w] = col + row * Cols /\ to[w] = buffer

\* ... and the position is one the next character can be printed at.
Unraced == ~raced => Alone /\ Fresh /\ row < Rows /\ col <= Cols

Types == /\ Numbers
         /\ buffer \in Buffers /\ to \in [Writers -> Buffers]
         /\ raced \in BOOLEAN

\* The cell of a valid position is on the screen (screen.c:80-81).
LEMMA OnScreen ==
  ASSUME NEW r \in Nat, NEW c \in Nat, r < Rows, c < Cols
  PROVE  c + r * Cols \in Cell
<1>1. /\ r * Cols \in Nat /\ (Rows - 1) * Cols \in Nat
      /\ r * Cols <= (Rows - 1) * Cols
  BY Sizes
<1>2. Rows * Cols = (Rows - 1) * Cols + Cols
  BY Sizes
<1> QED BY <1>1, <1>2, Sizes DEF Cell, Size

\* The cleared console, with nobody printing (screen.c:124-130).
LEMMA UnracedInit == Init => Types /\ Unraced
<1> SUFFICES ASSUME Init PROVE Types /\ Unraced
  OBVIOUS
<1>1. Types
  BY DEF Init, Start, Types, Numbers, Writers, Buffers, Pc
<1>2. \A w \in Writers : pc[w] = "idle"
  BY DEF Init, Start
<1>3. col = 0 /\ row = 0
  BY DEF Init, Start
<1> QED BY <1>1, <1>2, <1>3, Sizes DEF Unraced, Alone, Fresh

\* A step of the one writer inside a character keeps what it has looked at, and
\* a writer that starts while another is inside one is a race (screen.c:43-84).
LEMMA UnracedNext == Types /\ Unraced /\ [Next]_vars => Types' /\ Unraced'
<1> SUFFICES ASSUME Types, Unraced, [Next]_vars PROVE Types' /\ Unraced'
  OBVIOUS
<1> USE Sizes
<1> USE DEF Types, Numbers, Unraced, Alone, Fresh, Buffers, text, locals
<1>1. ASSUME NEW w \in Writers, NEW ch \in Chars \cup {NewLine}, Begin(w, ch)
      PROVE  Types' /\ Unraced'
  <2>1. Types'
    BY <1>1 DEF Begin, Full, Returns, At, Goto, Pc, Racing
  <2>2. ~raced' => ~raced /\ \A v \in Writers : pc[v] = "idle"
    BY <1>1 DEF Begin, Racing, Quiet
  <2>3. /\ \A v \in Writers \ {w} : pc'[v] = pc[v]
        /\ pc'[w] = IF ch = NewLine \/ col >= Cols THEN "newline" ELSE "aim"
        /\ UNCHANGED <<col, row>>
    BY <1>1 DEF Begin, Full, Goto
  <2>4. ~raced' => Alone'
    BY <2>2, <2>3, Zenon
  <2>5. ~raced' => Fresh'
    BY <2>2, <2>3
  <2> QED BY <2>1, <2>2, <2>3, <2>4, <2>5
<1>2. ASSUME NEW w \in Writers, Newline(w)
      PROVE  Types' /\ Unraced'
  BY <1>2 DEF Newline, At, Goto, Pc
<1>3. ASSUME NEW w \in Writers, LookAtRow(w)
      PROVE  Types' /\ Unraced'
  BY <1>3 DEF LookAtRow, LastRow, At, Goto, Pc
<1>4. ASSUME NEW w \in Writers, IncRow(w)
      PROVE  Types' /\ Unraced'
  BY <1>4 DEF IncRow, At, Goto, Pc
<1>5. ASSUME NEW w \in Writers, Scroll(w)
      PROVE  Types' /\ Unraced'
  BY <1>5 DEF Scroll, At, Goto, Pc
<1>6. ASSUME NEW w \in Writers, Wipe(w)
      PROVE  Types' /\ Unraced'
  BY <1>6 DEF Wipe, At, Goto, Pc
<1>7. ASSUME NEW w \in Writers, Aim(w)
      PROVE  Types' /\ Unraced'
  <2>1. col + row * Cols \in Nat
    BY <1>7 DEF Aim, At
  <2>2. /\ pc[w] = "aim" /\ pc' = [pc EXCEPT ![w] = "store"]
        /\ UNCHANGED <<col, row, buffer, next, raced>>
        /\ old' = [old EXCEPT ![w] = col]
        /\ to' = [to EXCEPT ![w] = buffer]
    BY <1>7, Zenon DEF Aim, At, Goto
  <2>3. at' = [at EXCEPT ![w] = col + row * Cols]
    BY <1>7, Zenon DEF Aim
  <2>4. Types'
    <3>1. at' \in [Writers -> Nat]
      BY <2>1, <2>3
    <3>2. pc' \in [Writers -> Pc]
      BY <2>2 DEF Pc
    <3>3. old' \in [Writers -> Nat]
      BY <2>2
    <3>4. to' \in [Writers -> Buffers]
      BY <2>2
    <3> QED BY <2>2, <3>1, <3>2, <3>3, <3>4
  <2>5. ~raced => Alone'
    BY <2>2
  <2>6. ASSUME ~raced, NEW v \in Writers, v # w
        PROVE  pc'[v] = "idle"
    BY <2>2, <2>6
  <2>7. /\ pc'[w] = "store" /\ old'[w] = col' /\ to'[w] = buffer'
        /\ at'[w] = col' + row' * Cols
    BY <2>2, <2>3
  <2>8. ~raced => col' < Cols /\ row' < Rows
    BY <2>2
  <2> QED BY <2>2, <2>4, <2>5, <2>6, <2>7, <2>8
<1>8. ASSUME NEW w \in Writers, Store(w)
      PROVE  Types' /\ Unraced'
  BY <1>8 DEF Store, At, Goto, Pc
<1>9. ASSUME NEW w \in Writers, IncCol(w)
      PROVE  Types' /\ Unraced'
  BY <1>9 DEF IncCol, At, Goto, Pc
<1>10. ASSUME NEW w \in Writers, MoveCursor(w)
       PROVE  Types' /\ Unraced'
  BY <1>10 DEF MoveCursor, At, Pc
<1>11. CASE Clear
  <2>1. Types'
    BY <1>11 DEF Clear
  <2>2. ~raced' => \A w \in Writers : pc'[w] = "idle"
    BY <1>11 DEF Clear, Quiet
  <2>3. col' = 0 /\ row' = 0
    BY <1>11 DEF Clear
  <2> QED BY <2>1, <2>2, <2>3
<1>12. CASE Hide \/ Show
  BY <1>12 DEF Hide, Show, Hidden, Racing, Quiet
<1>13. CASE UNCHANGED vars
  BY <1>13 DEF vars
<1> QED BY <1>1, <1>2, <1>3, <1>4, <1>5, <1>6, <1>7, <1>8, <1>9, <1>10, <1>11,
           <1>12, <1>13 DEF Next, Step

\* Unless a handler has started inside a character since the last clear, every
\* store is inside the buffer the console is using, on every screen
\* (screen.c:80-81).
THEOREM StoresAreInside == Spec => []StoresInside
<1>1. Types /\ Unraced => StoresInside
  BY OnScreen DEF Types, Numbers, Unraced, Fresh, StoresInside
<1> QED BY <1>1, UnracedInit, UnracedNext, PTL DEF Spec

-----------------------------------------------------------------------------
\* Rows and columns of a cell.
LEMMA DivMod ==
  ASSUME NEW a \in Nat, NEW b \in Nat \ {0}
  PROVE  /\ a \div b \in Nat /\ a % b \in 0 .. b - 1
         /\ a = b * (a \div b) + (a % b)
  OBVIOUS

LEMMA MulMono ==
  ASSUME NEW a \in Nat, NEW b \in Nat, NEW c \in Nat, a <= b
  PROVE  a * c <= b * c /\ a * c \in Nat /\ b * c \in Nat
  OBVIOUS

LEMMA Unique ==
  ASSUME NEW r \in Nat, NEW c \in Nat, c < Cols
  PROVE  /\ (r * Cols + c) \div Cols = r /\ (r * Cols + c) % Cols = c
         /\ r * Cols + c \in Nat
  BY Sizes

LEMMA RowOf ==
  ASSUME NEW i \in Nat, NEW r \in Nat
  PROVE  i \div Cols = r <=> r * Cols <= i /\ i < r * Cols + Cols
<1> DEFINE q == i \div Cols
           m == i % Cols
<1>1. q \in Nat /\ m \in 0 .. Cols - 1 /\ i = q * Cols + m
  BY Sizes, DivMod
<1>2. ASSUME r * Cols <= i, i < r * Cols + Cols
      PROVE  q = r
  <2> DEFINE c == i - r * Cols
  <2>1. c \in Nat /\ c < Cols /\ i = r * Cols + c
    BY <1>2, Sizes
  <2> HIDE DEF c
  <2> QED BY <2>1, Unique
<1>3. ASSUME q = r
      PROVE  r * Cols <= i /\ i < r * Cols + Cols
  BY <1>1, <1>3, Sizes
<1> QED BY <1>2, <1>3

LEMMA Cells ==
  ASSUME NEW i \in Cell
  PROVE  /\ i \in Nat /\ i \div Cols \in Nat /\ i \div Cols < Rows
         /\ i % Cols \in Nat
         /\ i % Cols > 0 => i - 1 \in Cell /\ (i - 1) \div Cols = i \div Cols
         /\ i \div Cols < Rows - 1 =>
              i + Cols \in Cell /\ (i + Cols) % Cols = i % Cols
              /\ (i + Cols) \div Cols = (i \div Cols) + 1
<1> DEFINE q == i \div Cols
           m == i % Cols
<1>1. /\ q \in Nat /\ m \in 0 .. Cols - 1 /\ i = q * Cols + m
      /\ i \in Nat /\ i < Rows * Cols
  <2>1. Rows * Cols \in Nat
    BY Sizes
  <2>2. i \in Nat /\ i < Rows * Cols
    BY <2>1 DEF Cell, Size
  <2>3. q \in Nat /\ m \in 0 .. Cols - 1 /\ i = Cols * q + m
    BY <2>2, Sizes, DivMod
  <2>4. Cols * q = q * Cols
    BY <2>3, Sizes
  <2> QED BY <2>2, <2>3, <2>4
<1> HIDE DEF q, m
<1>2. q < Rows
  <2> SUFFICES ASSUME q >= Rows PROVE FALSE
    BY <1>1, Sizes
  <2>1. Rows * Cols <= q * Cols
    BY <1>1, Sizes, MulMono
  <2> QED BY <1>1, <2>1, Sizes
<1>3. ASSUME m > 0
      PROVE  i - 1 \in Cell /\ (i - 1) \div Cols = q
  <2> DEFINE c == m - 1
  <2>1. c \in Nat /\ c < Cols /\ i - 1 = q * Cols + c
    BY <1>1, <1>3, Sizes
  <2>2. i - 1 \in Cell
    BY <1>1, <1>3, <2>1, Sizes DEF Cell, Size
  <2> HIDE DEF c
  <2> QED BY <1>1, <2>1, <2>2, Unique
<1>4. ASSUME q < Rows - 1
      PROVE  i + Cols \in Cell /\ (i + Cols) % Cols = m
             /\ (i + Cols) \div Cols = q + 1
  <2> DEFINE p == q + 1
  <2>1. p \in Nat /\ p * Cols = q * Cols + Cols /\ p + 1 \in Nat
        /\ (p + 1) * Cols = p * Cols + Cols /\ p + 1 <= Rows
    BY <1>1, <1>4, Sizes
  <2>2. (p + 1) * Cols <= Rows * Cols
    BY <2>1, Sizes, MulMono
  <2>3. i + Cols = p * Cols + m
    BY <1>1, <2>1, Sizes
  <2> HIDE DEF p
  <2>4. (p * Cols + m) \div Cols = p /\ (p * Cols + m) % Cols = m
    <3>1. p \in Nat /\ m \in Nat /\ m < Cols
      BY <1>1, <2>1, Sizes
    <3> QED BY <3>1, Unique
  <2>5. i + Cols \in Cell
    BY <1>1, <2>1, <2>2, <2>3, Sizes DEF Cell, Size
  <2> QED BY <2>3, <2>4, <2>5 DEF p
<1> QED BY <1>1, <1>2, <1>3, <1>4 DEF q, m

-----------------------------------------------------------------------------
\* What a cell holds.
Marks == Chars \cup {NewLine, Empty, Pattern}

\* The rows of a text t: each is filled from the left, ...
NoHoles(t) ==
  \A i \in Cell : i % Cols > 0 /\ t[i] # Empty => t[i - 1] # Empty

\* ... nothing is at a position or behind it, ...
EmptyFrom(t, e) == \A i \in Cell : i >= e => t[i] = Empty

\* ... and its row r is filled up to a position.
FilledTo(t, r, e) ==
  EmptyFrom(t, e) /\ \A i \in Cell : i \div Cols = r /\ i < e => t[i] # Empty

\* Copying a row to the one above it (screen.c:53-60).
LEMMA ScrollRow ==
  ASSUME NEW t \in [Cell -> Marks], NEW l \in 1 .. Rows - 1, NoHoles(t),
         NEW u, u = [i \in Cell |-> IF i \div Cols = l - 1 THEN t[i + Cols]
                                    ELSE t[i]]
  PROVE  u \in [Cell -> Marks] /\ NoHoles(u)
<1>1. l - 1 \in Nat /\ l - 1 < Rows - 1
  BY Sizes
<1>2. ASSUME NEW i \in Cell, i \div Cols = l - 1
      PROVE  i + Cols \in Cell /\ (i + Cols) % Cols = i % Cols
             /\ u[i] = t[i + Cols]
  BY <1>1, <1>2, Cells
<1>3. u \in [Cell -> Marks]
  BY <1>2
<1>4. ASSUME NEW i \in Cell, i % Cols > 0, u[i] # Empty
      PROVE  u[i - 1] # Empty
  <2>1. i - 1 \in Cell /\ (i - 1) \div Cols = i \div Cols
    BY <1>4, Cells
  <2>2. CASE i \div Cols = l - 1
    <3>1. /\ i + Cols \in Cell /\ (i + Cols) % Cols > 0
          /\ t[i + Cols] # Empty
      BY <1>2, <1>4, <2>2
    <3>2. t[(i + Cols) - 1] # Empty
      BY <3>1 DEF NoHoles
    <3>3. (i + Cols) - 1 = (i - 1) + Cols
      BY Cells, Sizes
    <3>4. u[i - 1] = t[(i - 1) + Cols]
      BY <1>2, <2>1, <2>2
    <3> QED BY <3>2, <3>3, <3>4
  <2>3. CASE i \div Cols # l - 1
    <3>1. u[i] = t[i] /\ u[i - 1] = t[i - 1]
      BY <2>1, <2>3
    <3> QED BY <1>4, <3>1 DEF NoHoles
  <2> QED BY <2>2, <2>3
<1> QED BY <1>3, <1>4 DEF NoHoles

\* Clearing the last row (screen.c:61).
LEMMA WipeRow ==
  ASSUME NEW t \in [Cell -> Marks], NoHoles(t),
         NEW u, u = [i \in Cell |-> IF i \div Cols = Rows - 1 THEN Empty
                                    ELSE t[i]]
  PROVE  /\ u \in [Cell -> Marks] /\ NoHoles(u)
         /\ FilledTo(u, Rows - 1, (Rows - 1) * Cols)
<1>1. u \in [Cell -> Marks]
  BY DEF Marks
<1>2. NoHoles(u)
  BY Cells DEF NoHoles
<1>3. ASSUME NEW i \in Cell
      PROVE  /\ i >= (Rows - 1) * Cols => u[i] = Empty
             /\ ~(i \div Cols = Rows - 1 /\ i < (Rows - 1) * Cols)
  <2> DEFINE r == Rows - 1
  <2>1. r \in Nat /\ i \in Nat /\ r * Cols \in Nat
        /\ r * Cols + Cols = Rows * Cols /\ i < Rows * Cols
    <3>1. r \in Nat /\ Rows = r + 1
      BY Sizes
    <3>2. (r + 1) * Cols = r * Cols + Cols /\ r * Cols \in Nat
      BY <3>1, Sizes
    <3>3. Rows * Cols \in Nat /\ i \in 0 .. (Rows * Cols) - 1
      BY Sizes DEF Cell, Size
    <3> QED BY <3>1, <3>2, <3>3
  <2>2. u[i] = IF i \div Cols = r THEN Empty ELSE t[i]
    OBVIOUS
  <2> HIDE DEF r
  <2>3. i \div Cols = r <=> r * Cols <= i /\ i < r * Cols + Cols
    BY <2>1, RowOf
  <2>4. /\ i >= r * Cols => u[i] = Empty
        /\ ~(i \div Cols = r /\ i < r * Cols)
    BY <2>1, <2>2, <2>3
  <2> QED BY <2>4 DEF r
<1> QED BY <1>1, <1>2, <1>3 DEF FilledTo, EmptyFrom

\* Storing a character at the position (screen.c:80-82).
LEMMA StoreChar ==
  ASSUME NEW t \in [Cell -> Marks], NoHoles(t),
         NEW r \in Nat, NEW c \in Nat, r < Rows, c < Cols,
         FilledTo(t, r, r * Cols + c),
         NEW ch \in Marks, ch # Empty,
         NEW u, u = [t EXCEPT ![r * Cols + c] = ch]
  PROVE  /\ u \in [Cell -> Marks] /\ NoHoles(u)
         /\ FilledTo(u, r, r * Cols + (c + 1))
<1> DEFINE p == r * Cols + c
<1>1. /\ p \in Cell /\ p \in Nat /\ p \div Cols = r
      /\ r * Cols + (c + 1) = p + 1
  <2>1. r * Cols \in Nat /\ c + r * Cols = p
    BY Sizes
  <2>2. p \in Cell
    BY <2>1, OnScreen
  <2> QED BY <2>1, <2>2, Unique
<1>2. FilledTo(t, r, p) /\ u = [t EXCEPT ![p] = ch]
  OBVIOUS
<1> HIDE DEF p
<1>3. u \in [Cell -> Marks] /\ u[p] = ch
      /\ \A i \in Cell \ {p} : u[i] = t[i]
  BY <1>1, <1>2
<1>4. ASSUME NEW i \in Cell
      PROVE  /\ i >= p + 1 => u[i] = Empty
             /\ i \div Cols = r /\ i < p + 1 => u[i] # Empty
             /\ i % Cols > 0 /\ u[i] # Empty => u[i - 1] # Empty
  <2>1. i \in Nat
    BY Cells
  <2>2. i >= p + 1 => u[i] = Empty
    BY <1>1, <1>2, <1>3, <2>1 DEF FilledTo, EmptyFrom
  <2>3. i \div Cols = r /\ i < p + 1 => u[i] # Empty
    <3>1. i < p + 1 => i = p \/ (i # p /\ i < p)
      BY <1>1, <2>1
    <3> QED BY <1>2, <1>3, <3>1 DEF FilledTo
  <2>4. ASSUME i % Cols > 0, u[i] # Empty
        PROVE  u[i - 1] # Empty
    <3>1. i - 1 \in Cell /\ (i - 1) \div Cols = i \div Cols
      BY <2>4, Cells
    <3>2. CASE i - 1 = p
      BY <1>3, <3>2
    <3>3. CASE i = p /\ i - 1 # p
      <4>1. (i - 1) \div Cols = r /\ i - 1 < p
        BY <1>1, <3>1, <3>3
      <4>2. t[i - 1] # Empty
        BY <1>2, <3>1, <4>1 DEF FilledTo
      <4> QED BY <1>3, <3>1, <3>3, <4>2
    <3>4. CASE i # p /\ i - 1 # p
      BY <1>3, <2>4, <3>1, <3>4 DEF NoHoles
    <3> QED BY <3>2, <3>3, <3>4
  <2> QED BY <2>2, <2>3, <2>4
<1> QED BY <1>1, <1>3, <1>4 DEF NoHoles, FilledTo, EmptyFrom

\* Moving to a row that is still empty (screen.c:49-51).
LEMMA NextRow ==
  ASSUME NEW t, NEW r \in Nat, EmptyFrom(t, r * Cols + Cols)
  PROVE  FilledTo(t, r + 1, (r + 1) * Cols)
<1> DEFINE p == r + 1
<1>1. p \in Nat /\ p * Cols = r * Cols + Cols /\ p * Cols \in Nat
  BY Sizes
<1> HIDE DEF p
<1>2. \A i \in Cell : i \div Cols = p => i \in Nat /\ p * Cols <= i
  BY <1>1, RowOf, Cells
<1>3. FilledTo(t, p, p * Cols)
  BY <1>1, <1>2 DEF FilledTo, EmptyFrom
<1> QED BY <1>3 DEF p

\* What is empty behind the position is empty below its row.
LEMMA BelowRow ==
  ASSUME NEW t, NEW r \in Nat, NEW c \in Nat, c <= Cols,
         FilledTo(t, r, r * Cols + c)
  PROVE  EmptyFrom(t, r * Cols + Cols)
<1>1. r * Cols \in Nat /\ \A i \in Cell : i \in Nat
  BY Sizes, Cells
<1>2. \A i \in Cell : i >= r * Cols + Cols => i >= r * Cols + c
  BY <1>1, Sizes
<1> QED BY <1>2 DEF FilledTo, EmptyFrom

-----------------------------------------------------------------------------
\* The invariant.  Inside TEXT_newline the column is 0 already while the row
\* is still the one that has been filled.
Moving == {"row", "inc", "scroll", "wipe"}

Shape ==
  LET t == cells[buffer] IN
  /\ NoHoles(t)
  /\ \A w \in Writers :
       /\ pc[w] \in Moving => EmptyFrom(t, row * Cols + Cols)
       /\ pc[w] = "col" => FilledTo(t, row, row * Cols + (col + 1))
       /\ pc[w] \in {"scroll", "wipe"} => row = Rows - 1
       /\ pc[w] = "scroll" => line[w] \in 1 .. Rows - 1
  /\ (\A w \in Writers : pc[w] \notin Moving \cup {"col"}) =>
        FilledTo(t, row, row * Cols + col)

Lined == /\ line \in [Writers -> Nat]
         /\ \A w \in Writers : pc[w] = "scroll" => line[w] \in 1 .. Rows - 1

Drawn == /\ Lined
         /\ cells \in [Buffers -> [Cell -> Marks]]
         /\ char \in [Writers -> Chars \cup {NewLine}]

ShapeInv == Types /\ Unraced /\ Drawn /\ (~raced => Shape)

\* A step of the one writer inside a character, by where it leaves it.
LEMMA ShapeOf ==
  ASSUME NEW w \in Writers, \A v \in Writers \ {w} : pc'[v] = "idle",
         NEW t, t = cells'[buffer'], NoHoles(t),
         pc'[w] \in Moving => EmptyFrom(t, row' * Cols + Cols),
         pc'[w] = "col" => FilledTo(t, row', row' * Cols + (col' + 1)),
         pc'[w] \in {"scroll", "wipe"} => row' = Rows - 1,
         pc'[w] = "scroll" => line'[w] \in 1 .. Rows - 1,
         pc'[w] \notin Moving \cup {"col"} =>
            FilledTo(t, row', row' * Cols + col')
  PROVE  Shape'
<1>1. ASSUME NEW v \in Writers, v # w
      PROVE  pc'[v] \notin Moving \cup {"col"}
  BY <1>1 DEF Moving
<1>2. ASSUME NEW v \in Writers
      PROVE  /\ pc'[v] \in Moving => EmptyFrom(t, row' * Cols + Cols)
             /\ pc'[v] = "col" => FilledTo(t, row', row' * Cols + (col' + 1))
             /\ pc'[v] \in {"scroll", "wipe"} => row' = Rows - 1
             /\ pc'[v] = "scroll" => line'[v] \in 1 .. Rows - 1
  BY <1>1 DEF Moving
<1> QED BY <1>2 DEF Shape, NoHoles, EmptyFrom, FilledTo

\* What the invariant says of the text when w is at a step.
LEMMA ShapeAt ==
  ASSUME ShapeInv, ~raced, NEW w \in Writers, pc[w] # "idle"
  PROVE  LET t == cells[buffer] IN
         /\ \A v \in Writers \ {w} : pc[v] = "idle"
         /\ t \in [Cell -> Marks] /\ NoHoles(t)
         /\ pc[w] \in Moving => EmptyFrom(t, row * Cols + Cols) /\ col = 0
         /\ pc[w] = "col" => FilledTo(t, row, row * Cols + (col + 1))
         /\ pc[w] \notin Moving \cup {"col"} => FilledTo(t, row, row * Cols + col)
         /\ row \in Nat /\ col \in Nat /\ row < Rows /\ col <= Cols
<1>1. \A v \in Writers \ {w} : pc[v] = "idle"
  BY DEF ShapeInv, Unraced, Alone
<1>2. pc[w] \notin Moving \cup {"col"} =>
        \A v \in Writers : pc[v] \notin Moving \cup {"col"}
  BY <1>1 DEF Moving
<1>3. buffer \in Buffers /\ row \in Nat /\ col \in Nat
  BY DEF ShapeInv, Types, Numbers
<1>4. row < Rows /\ col <= Cols /\ (pc[w] \in Moving => col = 0)
  BY DEF ShapeInv, Unraced, Fresh, Moving
<1> QED BY <1>1, <1>2, <1>3, <1>4 DEF ShapeInv, Shape, Drawn

\* Steps that do not touch the cells.
LEMMA CellsKept ==
  ASSUME ShapeInv, NEW w \in Writers, Types', Unraced', ~raced', ~raced,
         \/ Newline(w) \/ LookAtRow(w) \/ IncRow(w) \/ Aim(w) \/ IncCol(w)
         \/ MoveCursor(w)
  PROVE  Shape'
<1> DEFINE t == cells[buffer]
<1>1. /\ pc[w] # "idle" /\ pc \in [Writers -> Pc] /\ UNCHANGED <<cells, buffer>>
      /\ \A v \in Writers \ {w} : pc'[v] = pc[v]
      /\ line \in [Writers -> Nat]
  BY DEF Newline, LookAtRow, IncRow, Aim, IncCol, MoveCursor, At, Goto, text,
         ShapeInv, Types, Numbers, Drawn, Lined
<1>2. /\ \A v \in Writers \ {w} : pc[v] = "idle"
      /\ NoHoles(t)
      /\ pc[w] \in Moving => EmptyFrom(t, row * Cols + Cols) /\ col = 0
      /\ pc[w] = "col" => FilledTo(t, row, row * Cols + (col + 1))
      /\ pc[w] \notin Moving \cup {"col"} => FilledTo(t, row, row * Cols + col)
      /\ row \in Nat /\ col \in Nat /\ row < Rows /\ col <= Cols
  BY <1>1, ShapeAt
<1>3. \A v \in Writers \ {w} : pc'[v] = "idle"
  BY <1>1, <1>2
<1>4. t = cells'[buffer']
  BY <1>1
<1> HIDE DEF t
<1>5. CASE Newline(w)
  <2>1. pc[w] = "newline" /\ pc'[w] = "row" /\ row' = row
    BY <1>1, <1>5 DEF Newline, At, Goto
  <2>2. EmptyFrom(t, row * Cols + Cols)
    BY <1>2, <2>1, BelowRow DEF Moving
  <2> QED BY <1>2, <1>3, <1>4, <2>1, <2>2, ShapeOf DEF Moving
<1>6. CASE LookAtRow(w)
  <2>1. pc[w] = "row" /\ row' = row
    BY <1>6 DEF LookAtRow, At
  <2>2. \/ pc'[w] = "inc"
        \/ pc'[w] \in {"scroll", "wipe"} /\ row >= Rows - 1
           /\ line' = [line EXCEPT ![w] = 1] /\ (pc'[w] = "scroll" => Rows > 1)
    BY <1>1, <1>6 DEF LookAtRow, LastRow, Goto
  <2>3. pc'[w] \in {"scroll", "wipe"} => row' = Rows - 1
    BY <1>2, <2>1, <2>2, Sizes
  <2>4. pc'[w] = "scroll" => line'[w] \in 1 .. Rows - 1
    BY <1>1, <2>2, Sizes
  <2>5. EmptyFrom(t, row' * Cols + Cols)
    BY <1>2, <2>1 DEF Moving
  <2>6. pc'[w] \in Moving
    BY <2>2 DEF Moving
  <2> QED BY <1>2, <1>3, <1>4, <2>3, <2>4, <2>5, <2>6, ShapeOf DEF Moving
<1>7. CASE IncRow(w)
  <2>1. pc[w] = "inc" /\ pc'[w] \in {"aim", "cursor"} /\ col' = col
        /\ row' \in {row + 1, old[w] + 1} /\ old[w] = row
    BY <1>1, <1>7 DEF IncRow, At, Goto, ShapeInv, Types, Numbers, Unraced, Fresh
  <2>2. EmptyFrom(t, row * Cols + Cols) /\ col = 0 /\ row' = row + 1
    BY <1>2, <2>1 DEF Moving
  <2>3. FilledTo(t, row + 1, (row + 1) * Cols)
    BY <1>2, <2>2, NextRow
  <2>4. row' * Cols + col' = (row + 1) * Cols
    BY <1>2, <2>1, <2>2, Sizes
  <2> QED BY <1>2, <1>3, <1>4, <2>1, <2>2, <2>3, <2>4, ShapeOf DEF Moving
<1>8. CASE Aim(w) \/ MoveCursor(w)
  <2>1. pc[w] \in {"aim", "cursor"} /\ pc'[w] \in {"store", "idle"}
        /\ row' = row /\ col' = col
    BY <1>1, <1>8 DEF Aim, MoveCursor, At, Goto
  <2> QED BY <1>2, <1>3, <1>4, <2>1, ShapeOf DEF Moving
<1>9. CASE IncCol(w)
  <2>1. pc[w] = "col" /\ pc'[w] = "cursor" /\ row' = row
        /\ col' \in {col + 1, old[w] + 1} /\ old[w] = col
    BY <1>1, <1>9 DEF IncCol, At, Goto, ShapeInv, Unraced, Fresh
  <2>2. col' = col + 1
    BY <2>1
  <2> QED BY <1>2, <1>3, <1>4, <2>1, <2>2, ShapeOf DEF Moving
<1> QED BY <1>5, <1>6, <1>7, <1>8, <1>9

\* Steps that do.
LEMMA CellsDrawn ==
  ASSUME ShapeInv, NEW w \in Writers, ~raced', ~raced,
         Scroll(w) \/ Wipe(w) \/ Store(w)
  PROVE  Shape'
<1> DEFINE t == cells[buffer]
           u == cells'[buffer']
<1>1. /\ pc[w] # "idle" /\ pc \in [Writers -> Pc] /\ UNCHANGED <<buffer, col, row>>
      /\ \A v \in Writers \ {w} : pc'[v] = pc[v]
      /\ line \in [Writers -> Nat] /\ buffer \in Buffers
      /\ cells \in [Buffers -> [Cell -> Marks]]
      /\ next \in [Writers -> {"aim", "cursor"}]
  BY DEF Scroll, Wipe, Store, At, Goto, ShapeInv, Types, Numbers, Drawn, Lined
<1>2. /\ \A v \in Writers \ {w} : pc[v] = "idle"
      /\ t \in [Cell -> Marks] /\ NoHoles(t)
      /\ pc[w] \in Moving => EmptyFrom(t, row * Cols + Cols) /\ col = 0
      /\ pc[w] \notin Moving \cup {"col"} => FilledTo(t, row, row * Cols + col)
      /\ row \in Nat /\ col \in Nat /\ row < Rows /\ col <= Cols
  BY <1>1, ShapeAt
<1>3. \A v \in Writers \ {w} : pc'[v] = "idle"
  BY <1>1, <1>2
<1>4. CASE Scroll(w)
  <2>1. /\ pc[w] = "scroll" /\ row = Rows - 1 /\ line[w] \in 1 .. Rows - 1
        /\ pc'[w] = IF line[w] + 1 < Rows THEN "scroll" ELSE "wipe"
        /\ line'[w] = line[w] + 1
    BY <1>1, <1>4 DEF Scroll, At, Goto, ShapeInv, Shape
  <2>2. u = [i \in Cell |-> IF i \div Cols = line[w] - 1 THEN t[i + Cols]
                            ELSE t[i]]
    BY <1>1, <1>4 DEF Scroll
  <2>3. pc'[w] = "scroll" => line'[w] \in 1 .. Rows - 1
    BY <2>1, Sizes
  <2> HIDE DEF t
  <2>4. NoHoles(u)
    BY <1>2, <2>1, <2>2, ScrollRow
  <2>5. EmptyFrom(u, row' * Cols + Cols)
    <3>1. row * Cols + Cols = Rows * Cols /\ Rows * Cols \in Nat
      <4>1. (Rows - 1) * Cols + Cols = Rows * Cols /\ Rows * Cols \in Nat
        BY Sizes
      <4> QED BY <2>1, <4>1
    <3>2. \A i \in Cell : ~(i >= Rows * Cols)
      BY <3>1 DEF Cell, Size
    <3> QED BY <1>1, <3>1, <3>2 DEF EmptyFrom
  <2>6. pc'[w] \in {"scroll", "wipe"}
    BY <2>1
  <2> HIDE DEF u
  <2>7. u = cells'[buffer']
    BY DEF u
  <2> QED BY <1>1, <1>3, <2>1, <2>3, <2>4, <2>5, <2>6, <2>7, ShapeOf DEF Moving
<1>5. CASE Wipe(w)
  <2>1. pc[w] = "wipe" /\ row = Rows - 1 /\ pc'[w] \in {"aim", "cursor"}
        /\ col = 0
    BY <1>1, <1>2, <1>5 DEF Wipe, At, Goto, ShapeInv, Shape, Moving
  <2>2. u = [i \in Cell |-> IF i \div Cols = Rows - 1 THEN Empty ELSE t[i]]
    BY <1>1, <1>5 DEF Wipe, Wiped
  <2> HIDE DEF t
  <2>3. NoHoles(u) /\ FilledTo(u, Rows - 1, (Rows - 1) * Cols)
    BY <1>2, <2>2, WipeRow
  <2>4. row' * Cols + col' = (Rows - 1) * Cols /\ row' = Rows - 1
    <3>1. (Rows - 1) * Cols + 0 = (Rows - 1) * Cols
      BY Sizes
    <3> QED BY <1>1, <2>1, <3>1
  <2> HIDE DEF u
  <2>5. u = cells'[buffer']
    BY DEF u
  <2> QED BY <1>3, <2>1, <2>3, <2>4, <2>5, ShapeOf DEF Moving
<1>6. CASE Store(w)
  <2> DEFINE p == row * Cols + col
  <2>1. /\ pc[w] = "store" /\ pc'[w] = "col" /\ col < Cols
        /\ at[w] = col + row * Cols /\ to[w] = buffer
    BY <1>1, <1>6 DEF Store, At, Goto, ShapeInv, Unraced, Fresh
  <2>2. at[w] = p /\ p \in Cell
    <3>1. col + row * Cols = row * Cols + col
      BY <1>2, Sizes
    <3> QED BY <1>2, <2>1, <3>1, OnScreen
  <2>3. char[w] \in Marks /\ char[w] # Empty
    BY ScreenAssumption DEF ShapeInv, Drawn, Marks
  <2> HIDE DEF p
  <2>4. u = [t EXCEPT ![p] = char[w]]
    BY <1>1, <1>6, <2>1, <2>2 DEF Store
  <2>5. FilledTo(t, row, row * Cols + col)
    BY <1>2, <2>1 DEF Moving
  <2> HIDE DEF t
  <2>6. NoHoles(u) /\ FilledTo(u, row, row * Cols + (col + 1))
    <3>1. u = [t EXCEPT ![row * Cols + col] = char[w]]
      BY <2>4 DEF p
    <3> HIDE DEF u
    <3>2. row \in Nat /\ col \in Nat /\ row < Rows /\ col < Cols
          /\ t \in [Cell -> Marks] /\ NoHoles(t)
      BY <1>2, <2>1
    <3> QED BY <2>3, <2>5, <3>1, <3>2, StoreChar
  <2> HIDE DEF u
  <2>7. u = cells'[buffer']
    BY DEF u
  <2> QED BY <1>1, <1>3, <2>1, <2>6, <2>7, ShapeOf DEF Moving
<1> QED BY <1>4, <1>5, <1>6

-----------------------------------------------------------------------------
\* TEXT_newline copies rows 1 to Rows - 1 (screen.c:53).
LEMMA LinedNext == Lined /\ Types /\ [Next]_vars => Lined'
<1> SUFFICES ASSUME Lined, Types, [Next]_vars PROVE Lined'
  OBVIOUS
<1> USE DEF Lined
<1>1. pc \in [Writers -> Pc] /\ next \in [Writers -> {"aim", "cursor"}]
  BY DEF Types, Numbers
<1>2. ASSUME NEW w \in Writers, NEW ch \in Chars \cup {NewLine}, Begin(w, ch)
      PROVE  Lined'
  BY <1>1, <1>2 DEF Begin, Goto
<1>3. ASSUME NEW w \in Writers,
             \/ Newline(w) \/ IncRow(w) \/ Aim(w) \/ Store(w) \/ IncCol(w)
             \/ MoveCursor(w)
      PROVE  Lined'
  <2>1. line' = line
    BY <1>3 DEF Newline, IncRow, Aim, Store, IncCol, MoveCursor, text, locals
  <2>2. \E p \in {"row", next[w], "store", "col", "cursor", "idle"} :
           p # "scroll" /\ pc' = [pc EXCEPT ![w] = p]
    BY <1>1, <1>3
       DEF Newline, IncRow, Aim, Store, IncCol, MoveCursor, Goto
  <2>3. \A v \in Writers : pc'[v] = "scroll" => pc[v] = "scroll"
    BY <1>1, <2>2
  <2> QED BY <2>1, <2>3
<1>4. ASSUME NEW w \in Writers, LookAtRow(w)
      PROVE  Lined'
  <2> DEFINE one == 1
  <2>1. one \in Nat /\ (Rows > 1 => one \in 1 .. Rows - 1)
    BY Sizes
  <2>2. \/ /\ line' = line /\ pc' = [pc EXCEPT ![w] = "inc"]
        \/ /\ line' = [line EXCEPT ![w] = one]
           /\ pc' = [pc EXCEPT ![w] = IF Rows > 1 THEN "scroll" ELSE "wipe"]
    BY <1>4 DEF LookAtRow, Goto
  <2> HIDE DEF one
  <2> QED BY <1>1, <2>1, <2>2
<1>5. ASSUME NEW w \in Writers, Scroll(w)
      PROVE  Lined'
  <2> DEFINE l == line[w] + 1
  <2>1. l \in Nat /\ (l < Rows => l \in 1 .. Rows - 1)
    BY Sizes
  <2>2. /\ line' = [line EXCEPT ![w] = l]
        /\ pc' = [pc EXCEPT ![w] = IF l < Rows THEN "scroll" ELSE "wipe"]
    BY <1>5 DEF Scroll, Goto
  <2> HIDE DEF l
  <2> QED BY <1>1, <2>1, <2>2
<1>6. ASSUME NEW w \in Writers, Wipe(w)
      PROVE  Lined'
  <2> DEFINE z == 0
  <2>1. z \in Nat
    OBVIOUS
  <2>2. line' = [line EXCEPT ![w] = z] /\ pc' = [pc EXCEPT ![w] = next[w]]
    BY <1>6 DEF Wipe, Goto
  <2> HIDE DEF z
  <2> QED BY <1>1, <2>1, <2>2
<1>7. CASE Clear \/ Hide \/ Show \/ UNCHANGED vars
  BY <1>7 DEF Clear, Hide, Show, vars, text, locals
<1> QED BY <1>2, <1>3, <1>4, <1>5, <1>6, <1>7 DEF Next, Step

\* Every step keeps the ranges of the cells and of the characters.
LEMMA DrawnNext == Drawn /\ Types /\ [Next]_vars => Drawn'
<1> SUFFICES ASSUME Drawn, Types, [Next]_vars
             PROVE  /\ cells' \in [Buffers -> [Cell -> Marks]]
                    /\ char' \in [Writers -> Chars \cup {NewLine}]
  BY LinedNext DEF Drawn
<1> USE DEF Drawn
<1>1. buffer \in Buffers /\ to \in [Writers -> Buffers]
      /\ cells[buffer] \in [Cell -> Marks]
  BY DEF Types
<1> DEFINE Goal == /\ cells' \in [Buffers -> [Cell -> Marks]]
                   /\ char' \in [Writers -> Chars \cup {NewLine}]
<1>2. ASSUME NEW w \in Writers, NEW ch \in Chars \cup {NewLine}, Begin(w, ch)
      PROVE  Goal
  BY <1>2 DEF Begin, text
<1>3. ASSUME NEW w \in Writers,
             \/ Newline(w) \/ LookAtRow(w) \/ IncRow(w) \/ Aim(w) \/ IncCol(w)
             \/ MoveCursor(w)
      PROVE  Goal
  BY <1>3 DEF Newline, LookAtRow, IncRow, Aim, IncCol, MoveCursor, text, locals
<1>4. ASSUME NEW w \in Writers, Scroll(w)
      PROVE  Goal
  <2> DEFINE u == [i \in Cell |-> IF i \div Cols = line[w] - 1
                                  THEN cells[buffer][i + Cols]
                                  ELSE cells[buffer][i]]
  <2>1. char' = char /\ cells' = [cells EXCEPT ![buffer] = u]
    BY <1>4 DEF Scroll
  <2>2. line[w] \in 1 .. Rows - 1
    BY <1>4 DEF Scroll, At, Lined
  <2>3. ASSUME NEW i \in Cell
        PROVE  u[i] \in Marks
    <3>1. i \div Cols = line[w] - 1 => i + Cols \in Cell
      BY <2>2, Cells, Sizes
    <3> QED BY <1>1, <3>1
  <2>4. u \in [Cell -> Marks]
    BY <2>3
  <2> HIDE DEF u
  <2> QED BY <1>1, <2>1, <2>4
<1>5. ASSUME NEW w \in Writers, Wipe(w)
      PROVE  Goal
  <2> DEFINE u == [i \in Cell |-> IF i \div Cols = Wiped THEN Empty
                                  ELSE cells[buffer][i]]
  <2>1. u \in [Cell -> Marks]
    BY <1>1 DEF Marks
  <2>2. char' = char /\ cells' = [cells EXCEPT ![buffer] = u]
    BY <1>5 DEF Wipe
  <2> HIDE DEF u
  <2> QED BY <1>1, <2>1, <2>2
<1>6. ASSUME NEW w \in Writers, Store(w)
      PROVE  Goal
  <2>1. to[w] \in Buffers /\ char[w] \in Marks /\ NewLine \in Chars \cup {NewLine}
    BY <1>1 DEF Marks
  <2>2. /\ cells' = IF at[w] \in Cell
                    THEN [cells EXCEPT ![to[w]][at[w]] = char[w]] ELSE cells
        /\ char' = [char EXCEPT ![w] = NewLine]
    BY <1>6 DEF Store
  <2> QED BY <2>1, <2>2
<1>7. CASE Clear \/ Hide \/ Show
  <2>1. Empty \in Marks /\ Pattern \in Marks /\ "vga" \in Buffers
        /\ "ram" \in Buffers
    BY DEF Marks, Buffers
  <2>2. UNCHANGED char
    BY <1>7 DEF Clear, Hide, Show, locals
  <2>3. CASE Clear
    BY <1>1, <2>1, <2>2, <2>3 DEF Clear
  <2>4. CASE Hide
    BY <1>1, <2>1, <2>2, <2>4 DEF Hide
  <2>5. CASE Show
    BY <1>1, <2>1, <2>2, <2>5 DEF Show, Text
  <2> QED BY <1>7, <2>3, <2>4, <2>5
<1>8. CASE UNCHANGED vars
  BY <1>8 DEF vars, text, locals
<1> QED BY <1>2, <1>3, <1>4, <1>5, <1>6, <1>7, <1>8 DEF Next, Step

\* An empty buffer is filled up to its start.
LEMMA FilledToStart ==
  ASSUME NEW t, NEW r, NEW e, e = 0, \A i \in Cell : t[i] = Empty
  PROVE  FilledTo(t, r, e)
<1>1. \A i \in Cell : ~(i < e)
  BY Cells
<1> QED BY <1>1 DEF FilledTo, EmptyFrom

\* The cleared console is empty.
LEMMA ShapeInit == Init => ShapeInv
<1> SUFFICES ASSUME Init PROVE ShapeInv
  OBVIOUS
<1>1. Drawn
  BY DEF Init, Start, Drawn, Lined, Marks
<1>2. /\ buffer = "vga" /\ "vga" \in Buffers /\ row = 0 /\ col = 0
      /\ \A w \in Writers : pc[w] = "idle"
      /\ \A i \in Cell : cells["vga"][i] = Empty
  BY DEF Init, Start, Buffers
<1>3. row * Cols + col = 0 /\ \A i \in Cell : i >= 0
  BY <1>2, Sizes, Cells
<1>4. Shape
  <2>1. NoHoles(cells["vga"])
    BY <1>2 DEF NoHoles
  <2>2. FilledTo(cells["vga"], row, row * Cols + col)
    BY <1>2, <1>3, FilledToStart
  <2> QED BY <1>2, <2>1, <2>2 DEF Shape, Moving
<1> QED BY <1>1, <1>4, UnracedInit DEF ShapeInv

\* Every step keeps the shape.
LEMMA ShapeNext == ShapeInv /\ [Next]_vars => ShapeInv'
<1> SUFFICES ASSUME ShapeInv, [Next]_vars PROVE ShapeInv'
  OBVIOUS
<1>1. Types' /\ Unraced' /\ Drawn'
  BY UnracedNext, DrawnNext DEF ShapeInv
<1> SUFFICES ASSUME ~raced' PROVE Shape'
  BY <1>1 DEF ShapeInv
<1>2. ASSUME NEW w \in Writers, Step(w)
      PROVE  Shape'
  <2>1. ~raced
    BY <1>2 DEF Step, Newline, LookAtRow, IncRow, Scroll, Wipe, Aim, Store,
                IncCol, MoveCursor
  <2> QED BY <1>1, <1>2, <2>1, CellsKept, CellsDrawn DEF Step
<1>3. ASSUME NEW w \in Writers, NEW ch \in Chars \cup {NewLine}, Begin(w, ch)
      PROVE  Shape'
  <2>1. /\ ~raced /\ \A v \in Writers : pc[v] = "idle"
        /\ UNCHANGED <<cells, buffer, col, row>>
        /\ pc'[w] \in {"newline", "aim"}
        /\ \A v \in Writers \ {w} : pc'[v] = "idle"
    BY <1>3 DEF Begin, Racing, Quiet, Goto, text, ShapeInv, Types, Numbers
  <2> DEFINE t == cells[buffer]
  <2>2. NoHoles(t) /\ FilledTo(t, row, row * Cols + col)
    BY <2>1 DEF ShapeInv, Shape, Moving
  <2>3. t = cells'[buffer']
    BY <2>1
  <2> HIDE DEF t
  <2> QED BY <2>1, <2>2, <2>3, ShapeOf DEF Moving
<1>4. CASE Clear
  <2>1. /\ \A w \in Writers : pc'[w] = "idle"
        /\ row' = 0 /\ col' = 0 /\ buffer' = buffer /\ buffer \in Buffers
        /\ cells' = [cells EXCEPT ![buffer] = [i \in Cell |-> Empty]]
    BY <1>4 DEF Clear, Quiet, ShapeInv, Types
  <2>2. \A i \in Cell : cells'[buffer'][i] = Empty
    BY <2>1 DEF ShapeInv, Drawn
  <2>3. row' * Cols + col' = 0 /\ \A i \in Cell : i >= 0
    BY <2>1, Sizes, Cells
  <2> DEFINE u == cells'[buffer']
  <2>4. NoHoles(u) /\ FilledTo(u, row', row' * Cols + col')
    <3>1. NoHoles(u)
      BY <2>2 DEF NoHoles
    <3>2. FilledTo(u, row', row' * Cols + col')
      BY <2>2, <2>3, FilledToStart
    <3> QED BY <3>1, <3>2
  <2>5. u = cells'[buffer'] /\ Key \in Writers
    BY KeyWrites
  <2> HIDE DEF u
  <2> QED BY <2>1, <2>4, <2>5, ShapeOf DEF Moving
<1>5. CASE Hide \/ Show
  <2>1. /\ ~raced /\ \A w \in Writers : pc[w] = "idle" /\ pc'[w] = "idle"
        /\ UNCHANGED <<col, row>> /\ buffer \in Buffers
        /\ cells \in [Buffers -> [Cell -> Marks]]
    BY <1>5 DEF Hide, Show, Racing, Quiet, ShapeInv, Types, Drawn
  <2> DEFINE t == cells[buffer]
  <2>2. NoHoles(t) /\ FilledTo(t, row, row * Cols + col)
    BY <2>1 DEF ShapeInv, Shape, Moving
  <2>3. cells'[buffer'] = t
    <3>1. CASE Hide
      BY <2>1, <3>1 DEF Hide, Hidden, Buffers
    <3>2. CASE Show
      BY <2>1, <3>2 DEF Show, Text, Buffers
    <3> QED BY <1>5, <3>1, <3>2
  <2>4. Key \in Writers
    BY KeyWrites
  <2> HIDE DEF t
  <2> QED BY <2>1, <2>2, <2>3, <2>4, ShapeOf DEF Moving
<1>6. CASE UNCHANGED vars
  BY <1>6 DEF ShapeInv, Shape, NoHoles, EmptyFrom, FilledTo, vars, text, locals
<1> QED BY <1>2, <1>3, <1>4, <1>5, <1>6 DEF Next

\* Unless a handler has started inside a character since the last clear, the
\* text between characters has no holes: on every screen TEXT_newline finds the
\* row it moves to empty (screen.c:49-62, 79-84).
THEOREM TextIsWellFormed == Spec => []TextWellFormed
<1>1. ShapeInv => TextWellFormed
  <2> SUFFICES ASSUME ShapeInv, ~raced, Quiet
               PROVE  /\ row < Rows /\ col <= Cols
                      /\ NoHoles(cells[buffer])
                      /\ FilledTo(cells[buffer], row, row * Cols + col)
    BY DEF TextWellFormed, NoHoles, FilledTo, EmptyFrom
  <2> QED BY DEF ShapeInv, Unraced, Shape, Quiet, Moving
<1> QED BY <1>1, ShapeInit, ShapeNext, PTL DEF Spec

-----------------------------------------------------------------------------
\* Where the text is while the console is hidden, and the cursor while it is
\* shown (screen.c:75-76, 83, 98-122).
Shown == /\ ~raced /\ Types /\ Unraced /\ Drawn
         /\ enabled \in BOOLEAN /\ (enabled <=> buffer = "vga")
         /\ HiddenOrFollowed

LEMMA ShownInit == Init => Shown
<1> SUFFICES ASSUME Init PROVE Shown
  OBVIOUS
<1>1. Types /\ Unraced /\ ~raced
  BY UnracedInit DEF Init, Start
<1>2. Drawn
  BY DEF Init, Start, Drawn, Lined, Marks
<1>3. row * Cols + col = 0 /\ cursor = 0 /\ enabled = TRUE /\ buffer = "vga"
  BY Sizes DEF Init, Start
<1> QED BY <1>1, <1>2, <1>3 DEF Shown, HiddenOrFollowed

\* Every step keeps that, if a handler starts only between two characters.
LEMMA ShownNext ==
  ASSUME Nesting = FALSE, Shown, [Next]_vars
  PROVE  Shown'
<1> USE DEF Shown
<1>1. Types' /\ Unraced' /\ Drawn'
  BY UnracedNext, DrawnNext
<1> DEFINE Goal == /\ ~raced' /\ enabled' \in BOOLEAN
                   /\ enabled' <=> buffer' = "vga"
                   /\ HiddenOrFollowed'
<1>2. buffer \in Buffers /\ cells \in [Buffers -> [Cell -> Marks]]
      /\ pc \in [Writers -> Pc] /\ next \in [Writers -> {"aim", "cursor"}]
      /\ "vga" \in Buffers /\ "ram" \in Buffers /\ Key \in Writers
  BY KeyWrites DEF Types, Numbers, Drawn, Buffers
<1>3. ASSUME NEW w \in Writers, NEW ch \in Chars \cup {NewLine}, Begin(w, ch)
      PROVE  Goal
  <2>1. ~raced' /\ UNCHANGED <<cells, buffer, enabled>> /\ pc'[w] # "idle"
    BY <1>2, <1>3 DEF Begin, MayStart, Racing, Goto, text
  <2> QED BY <2>1 DEF HiddenOrFollowed, Quiet
<1>4. ASSUME NEW w \in Writers,
             \/ Newline(w) \/ LookAtRow(w) \/ IncRow(w) \/ Aim(w) \/ IncCol(w)
      PROVE  Goal
  <2>1. raced' = raced /\ UNCHANGED <<cells, buffer, enabled>>
    BY <1>4 DEF Newline, LookAtRow, IncRow, Aim, IncCol, text, locals
  <2>2. pc'[w] # "idle"
    BY <1>2, <1>4 DEF Newline, LookAtRow, IncRow, Aim, IncCol, Goto
  <2> QED BY <2>1, <2>2 DEF HiddenOrFollowed, Quiet
<1>5. ASSUME NEW w \in Writers, Scroll(w) \/ Wipe(w) \/ Store(w)
      PROVE  Goal
  <2>1. UNCHANGED <<raced, buffer, enabled>>
    BY <1>5 DEF Scroll, Wipe, Store
  <2>2. pc'[w] # "idle"
    BY <1>2, <1>5 DEF Scroll, Wipe, Store, Goto
  <2>3. buffer # "vga" => cells'["vga"] = cells["vga"]
    <3>1. CASE Scroll(w) \/ Wipe(w)
      BY <1>2, <3>1 DEF Scroll, Wipe
    <3>2. CASE Store(w)
      <4>1. to[w] = buffer
        BY <3>2 DEF Store, At, Unraced, Fresh
      <4> QED BY <1>2, <3>2, <4>1 DEF Store
    <3> QED BY <1>5, <3>1, <3>2
  <2> QED BY <2>1, <2>2, <2>3 DEF HiddenOrFollowed, Quiet
<1>6. ASSUME NEW w \in Writers, MoveCursor(w)
      PROVE  Goal
  <2>1. /\ UNCHANGED <<raced, cells, buffer, enabled, row, col>>
        /\ enabled => cursor' = row * Cols + col
    BY <1>6 DEF MoveCursor
  <2> QED BY <2>1 DEF HiddenOrFollowed
<1>7. ASSUME Clear
      PROVE  Goal
  <2>1. /\ ~raced' /\ UNCHANGED <<buffer, enabled>>
        /\ cells' = [cells EXCEPT ![buffer] = [i \in Cell |-> Empty]]
        /\ enabled => cursor' = 0 /\ row' = 0 /\ col' = 0
    BY <1>7 DEF Clear, MayStart, Racing
  <2>2. buffer # "vga" => cells'["vga"] = cells["vga"]
    BY <1>2, <2>1
  <2>3. enabled => cursor' = row' * Cols + col'
    BY <2>1, Sizes
  <2> QED BY <2>1, <2>2, <2>3 DEF HiddenOrFollowed
<1>8. ASSUME Hide
      PROVE  Goal
  <2>1. /\ ~raced' /\ enabled' = FALSE /\ buffer' = "ram"
        /\ \A i \in Cell : cells'["vga"][i] = Pattern
    BY <1>2, <1>8 DEF Hide, Hidden, MayStart, Racing
  <2> QED BY <2>1 DEF HiddenOrFollowed
<1>9. ASSUME Show
      PROVE  Goal
  <2>1. /\ ~raced' /\ enabled' = TRUE /\ buffer' = "vga"
        /\ cursor' = row' * Cols + col'
    BY <1>9 DEF Show, MayStart, Racing
  <2> QED BY <2>1 DEF HiddenOrFollowed
<1>10. ASSUME UNCHANGED vars
      PROVE  Goal
  BY <1>10 DEF HiddenOrFollowed, Quiet, vars, text, locals
<1> HIDE DEF Goal
<1>11. Goal
  BY <1>3, <1>4, <1>5, <1>6, <1>7, <1>8, <1>9, <1>10 DEF Next, Step
<1> QED BY <1>1, <1>11 DEF Goal

\* If handlers start only between two characters, a hidden console is never
\* drawn on and the cursor of a shown one follows its text, on every screen and
\* with every order of the keys (screen.c:75-76, 83, 98-122).
THEOREM HiddenIsLeftAlone ==
  ASSUME Nesting = FALSE
  PROVE  Spec => []HiddenOrFollowed
<1>1. Shown => HiddenOrFollowed
  BY DEF Shown
<1>2. Shown /\ [Next]_vars => Shown'
  BY ShownNext
<1> QED BY <1>1, <1>2, ShownInit, PTL DEF Spec

-----------------------------------------------------------------------------
C == INSTANCE Console WITH lines <- before

\* Every row of a text has a length, ...
Measured(t) == \A r \in 0 .. Rows - 1 : \E n \in 0 .. Cols : IsLength(t, r, n)

\* ... and nothing but characters stands in it.
Ink == Chars \cup {Empty}

Paper == /\ cells \in [Buffers -> [Cell -> Ink \cup {Pattern}]]
         /\ cells[buffer] \in [Cell -> Ink]

\* What w will store is a character that is printed.
InLine == {"newline", "row", "inc", "scroll", "wipe"}

Inking(w) == \/ pc[w] \in {"aim", "store"}
             \/ pc[w] \in InLine /\ next[w] = "aim"

Pens == /\ char \in [Writers -> Chars \cup {NewLine}]
        /\ \A w \in Writers : Inking(w) => char[w] \in Chars \ {NewLine}

Inked == Types /\ Lined /\ Paper /\ Pens

-----------------------------------------------------------------------------
\* A row has one length, and up to it stands its text.
LEMMA LengthUnique ==
  ASSUME NEW t, NEW r \in Nat, NEW m \in 0 .. Cols, NEW n \in 0 .. Cols,
         IsLength(t, r, m), IsLength(t, r, n)
  PROVE  m = n
<1>1. ASSUME NEW i \in 0 .. Cols, NEW j \in 0 .. Cols, IsLength(t, r, i),
             IsLength(t, r, j)
      PROVE  ~(i < j)
  <2> SUFFICES ASSUME i < j PROVE FALSE
    OBVIOUS
  <2>1. i \in 0 .. j - 1 /\ i < Cols
    BY Sizes
  <2> QED BY <1>1, <2>1 DEF IsLength
<1>2. ~(m < n) /\ ~(n < m)
  BY <1>1
<1> QED BY <1>2, Sizes

Prefix(t, r, n) == [c \in 1 .. n |-> t[r * Cols + (c - 1)]]

LEMMA TextOfRow ==
  ASSUME NEW t, NEW r \in Nat, NEW n \in 0 .. Cols, IsLength(t, r, n)
  PROVE  RowText(t, r) = Prefix(t, r, n)
<1> USE DEF Prefix
<1> DEFINE k == CHOOSE m \in 0 .. Cols : IsLength(t, r, m)
<1>1. k \in 0 .. Cols /\ IsLength(t, r, k)
  OBVIOUS
<1>2. RowText(t, r) = [c \in 1 .. k |-> t[r * Cols + (c - 1)]]
  BY DEF RowText
<1> HIDE DEF k
<1>3. k = n
  BY <1>1, LengthUnique
<1> QED BY <1>2, <1>3

\* Rows with the same cells have the same text.
SameCells(u, s, t, r) ==
  \A c \in 0 .. Cols - 1 : u[s * Cols + c] = t[r * Cols + c]

LEMMA SameRow ==
  ASSUME NEW t, NEW r \in Nat, NEW n \in 0 .. Cols, IsLength(t, r, n),
         NEW u, NEW s \in Nat, SameCells(u, s, t, r)
  PROVE  IsLength(u, s, n) /\ RowText(u, s) = RowText(t, r)
<1> USE DEF SameCells
<1>1. IsLength(u, s, n)
  <2>1. \A c \in 0 .. n - 1 : c \in 0 .. Cols - 1
    BY Sizes
  <2>2. n < Cols => n \in 0 .. Cols - 1
    BY Sizes
  <2> QED BY <2>1, <2>2 DEF IsLength
<1>2. /\ RowText(t, r) = [c \in 1 .. n |-> t[r * Cols + (c - 1)]]
      /\ RowText(u, s) = [c \in 1 .. n |-> u[s * Cols + (c - 1)]]
  BY <1>1, TextOfRow DEF Prefix
<1>3. ASSUME NEW c \in 1 .. n
      PROVE  u[s * Cols + (c - 1)] = t[r * Cols + (c - 1)]
  <2> DEFINE d == c - 1
  <2>1. d \in 0 .. Cols - 1
    BY Sizes
  <2> HIDE DEF d
  <2>2. u[s * Cols + d] = t[r * Cols + d]
    BY <2>1
  <2> QED BY <2>2 DEF d
<1> QED BY <1>1, <1>2, <1>3

\* A cleared row has none.
LEMMA ClearedRow ==
  ASSUME NEW u, NEW r \in Nat,
         \A c \in 0 .. Cols - 1 : u[r * Cols + c] = Empty
  PROVE  /\ \E n \in 0 .. Cols : IsLength(u, r, n)
         /\ RowText(u, r) = <<>>
<1> DEFINE n == 0
<1>1. n \in 0 .. Cols /\ n \in 0 .. Cols - 1 /\ (0 .. n - 1) = {} /\ (1 .. n) = {}
  BY Sizes
<1>2. \A e : [c \in 1 .. n |-> e[c]] = <<>>
  BY <1>1
<1> HIDE DEF n
<1>3. IsLength(u, r, n)
  BY <1>1 DEF IsLength
<1>4. RowText(u, r) = [c \in 1 .. n |-> u[r * Cols + (c - 1)]]
  BY <1>1, <1>3, TextOfRow DEF Prefix
<1>5. RowText(u, r) = <<>>
  BY <1>1, <1>4
<1> QED BY <1>1, <1>3, <1>5

\* The cells of a row.
LEMMA RowCell ==
  ASSUME NEW r \in Nat, r < Rows, NEW c \in 0 .. Cols - 1
  PROVE  r * Cols + c \in Cell /\ (r * Cols + c) \div Cols = r
<1>1. c \in Nat /\ c < Cols
  BY Sizes
<1>2. (r * Cols + c) \div Cols = r
  BY <1>1, Unique
<1>3. c + r * Cols \in Cell
  BY <1>1, OnScreen
<1>4. c + r * Cols = r * Cols + c
  BY <1>1, Sizes
<1> QED BY <1>2, <1>3, <1>4

\* What stands in a row of characters is a line of them.
LEMMA RowTyped ==
  ASSUME NEW t \in [Cell -> Ink], NEW r \in Nat, r < Rows,
         NEW n \in 0 .. Cols, IsLength(t, r, n)
  PROVE  RowText(t, r) \in Seq(Chars) /\ Len(RowText(t, r)) = n
<1>1. RowText(t, r) = [c \in 1 .. n |-> t[r * Cols + (c - 1)]]
  BY TextOfRow DEF Prefix
<1>2. ASSUME NEW c \in 1 .. n
      PROVE  t[r * Cols + (c - 1)] \in Chars
  <2> DEFINE d == c - 1
  <2>1. d \in 0 .. Cols - 1 /\ d \in 0 .. n - 1
    BY Sizes
  <2> HIDE DEF d
  <2>2. t[r * Cols + d] \in Ink /\ t[r * Cols + d] # Empty
    BY <2>1, RowCell DEF IsLength
  <2> QED BY <2>2 DEF Ink, d
<1> DEFINE f == [c \in 1 .. n |-> t[r * Cols + (c - 1)]]
<1>3. f \in [1 .. n -> Chars] /\ n \in Nat
  BY <1>2
<1>4. RowText(t, r) = f
  BY <1>1
<1> HIDE DEF f
<1> QED BY <1>3, <1>4

\* A row that is filled up to a column has that length.
LEMMA FilledLength ==
  ASSUME NEW t, NEW r \in Nat, r < Rows, NEW c \in 0 .. Cols,
         FilledTo(t, r, r * Cols + c)
  PROVE  IsLength(t, r, c)
<1>1. ASSUME NEW d \in 0 .. c - 1
      PROVE  t[r * Cols + d] # Empty
  <2>1. d \in 0 .. Cols - 1 /\ r * Cols \in Nat
    BY Sizes
  <2>2. r * Cols + d < r * Cols + c
    BY <2>1
  <2> QED BY <2>1, <2>2, RowCell DEF FilledTo
<1>2. ASSUME c < Cols
      PROVE  t[r * Cols + c] = Empty
  <2>1. c \in 0 .. Cols - 1 /\ r * Cols \in Nat
    BY <1>2, Sizes
  <2>2. r * Cols + c >= r * Cols + c
    BY <2>1
  <2> QED BY <2>1, <2>2, RowCell DEF FilledTo, EmptyFrom
<1> QED BY <1>1, <1>2 DEF IsLength

\* Below a position at the end of its row every row is cleared.
LEMMA RowsBelow ==
  ASSUME NEW t, NEW r \in Nat, EmptyFrom(t, r * Cols + Cols),
         NEW s \in Nat, r < s, s < Rows
  PROVE  RowText(t, s) = <<>>
<1>1. ASSUME NEW c \in 0 .. Cols - 1
      PROVE  t[s * Cols + c] = Empty
  <2>1. (r + 1) * Cols <= s * Cols /\ (r + 1) * Cols = r * Cols + Cols
        /\ r * Cols \in Nat /\ s * Cols \in Nat
    BY Sizes, MulMono
  <2>2. s * Cols + c >= r * Cols + Cols
    BY <2>1, Sizes
  <2> QED BY <2>2, RowCell DEF EmptyFrom
<1> QED BY <1>1, ClearedRow

-----------------------------------------------------------------------------
\* Copying a row to the one above it copies its text (screen.c:53-60).
LEMMA ScrollText ==
  ASSUME NEW t, NEW l \in 1 .. Rows - 1, Measured(t),
         NEW u, u = [i \in Cell |-> IF i \div Cols = l - 1 THEN t[i + Cols]
                                    ELSE t[i]]
  PROVE  /\ Measured(u)
         /\ \A r \in 0 .. Rows - 1 :
              RowText(u, r) = RowText(t, IF r = l - 1 THEN r + 1 ELSE r)
<1>1. ASSUME NEW r \in 0 .. Rows - 1
      PROVE  LET s == IF r = l - 1 THEN r + 1 ELSE r
             IN  /\ s \in 0 .. Rows - 1
                 /\ \A c \in 0 .. Cols - 1 : u[r * Cols + c] = t[s * Cols + c]
  <2> DEFINE s == IF r = l - 1 THEN r + 1 ELSE r
  <2>1. s \in 0 .. Rows - 1 /\ l - 1 \in Nat /\ r \in Nat /\ r < Rows
    BY Sizes
  <2>2. ASSUME NEW c \in 0 .. Cols - 1
        PROVE  u[r * Cols + c] = t[s * Cols + c]
    <3>1. r * Cols + c \in Cell /\ (r * Cols + c) \div Cols = r
      BY <2>1, RowCell
    <3>2. u[r * Cols + c] = IF r = l - 1 THEN t[(r * Cols + c) + Cols]
                            ELSE t[r * Cols + c]
      BY <3>1
    <3>3. (r * Cols + c) + Cols = (r + 1) * Cols + c
      BY <2>1, Sizes
    <3> QED BY <3>2, <3>3
  <2> QED BY <2>1, <2>2
<1>2. ASSUME NEW r \in 0 .. Rows - 1
      PROVE  /\ \E n \in 0 .. Cols : IsLength(u, r, n)
             /\ RowText(u, r) = RowText(t, IF r = l - 1 THEN r + 1 ELSE r)
  <2> DEFINE s == IF r = l - 1 THEN r + 1 ELSE r
  <2>1. /\ s \in 0 .. Rows - 1 /\ r \in Nat /\ s \in Nat
        /\ SameCells(u, r, t, s)
    BY <1>1, Sizes DEF SameCells
  <2> HIDE DEF s
  <2>2. PICK n \in 0 .. Cols : IsLength(t, s, n)
    BY <2>1 DEF Measured
  <2>3. IsLength(u, r, n) /\ RowText(u, r) = RowText(t, s)
    BY <2>1, <2>2, SameRow
  <2> QED BY <2>3 DEF s
<1> QED BY <1>2 DEF Measured

\* Clearing the last row leaves it without text (screen.c:61).
LEMMA WipeText ==
  ASSUME NEW t, Measured(t),
         NEW u, u = [i \in Cell |-> IF i \div Cols = Rows - 1 THEN Empty
                                    ELSE t[i]]
  PROVE  /\ Measured(u)
         /\ \A r \in 0 .. Rows - 1 :
              RowText(u, r) = IF r = Rows - 1 THEN <<>> ELSE RowText(t, r)
<1>1. ASSUME NEW r \in 0 .. Rows - 1, NEW c \in 0 .. Cols - 1
      PROVE  u[r * Cols + c] = IF r = Rows - 1 THEN Empty ELSE t[r * Cols + c]
  <2>1. r \in Nat /\ r < Rows
    BY Sizes
  <2>2. r * Cols + c \in Cell /\ (r * Cols + c) \div Cols = r
    BY <2>1, RowCell
  <2> QED BY <2>2
<1>2. ASSUME NEW r \in 0 .. Rows - 1
      PROVE  /\ \E n \in 0 .. Cols : IsLength(u, r, n)
             /\ RowText(u, r) = IF r = Rows - 1 THEN <<>> ELSE RowText(t, r)
  <2>1. r \in Nat
    BY Sizes
  <2>2. CASE r = Rows - 1
    <3>1. \A c \in 0 .. Cols - 1 : u[r * Cols + c] = Empty
      BY <1>1, <2>2
    <3> QED BY <2>1, <2>2, <3>1, ClearedRow
  <2>3. CASE r # Rows - 1
    <3>1. SameCells(u, r, t, r)
      BY <1>1, <2>3 DEF SameCells
    <3>2. PICK n \in 0 .. Cols : IsLength(t, r, n)
      BY DEF Measured
    <3>3. IsLength(u, r, n) /\ RowText(u, r) = RowText(t, r)
      BY <2>1, <3>1, <3>2, SameRow
    <3> QED BY <2>3, <3>3
  <2> QED BY <2>2, <2>3
<1> QED BY <1>2 DEF Measured

\* Storing a character at the end of a row appends it there (screen.c:80-81).
Stored(t, p, ch) == [t EXCEPT ![p] = ch]

Longer(u, t, r, ch) ==
  \A s \in 0 .. Rows - 1 : RowText(u, s) =
     IF s = r THEN Append(RowText(t, r), ch) ELSE RowText(t, s)

LEMMA StoreText ==
  ASSUME NEW t \in [Cell -> Ink], NoHoles(t), Measured(t),
         NEW r \in Nat, NEW c \in Nat, r < Rows, c < Cols,
         NEW p, p = r * Cols + c, FilledTo(t, r, p), NEW ch \in Chars,
         NEW u, u = Stored(t, p, ch)
  PROVE  Measured(u) /\ Longer(u, t, r, ch)
<1> USE DEF Stored, Longer
<1>1. c \in 0 .. Cols /\ c + 1 \in 0 .. Cols /\ c \in 0 .. Cols - 1
      /\ r \in 0 .. Rows - 1
  BY Sizes
<1>2. r * Cols + c \in Cell
  BY <1>1, RowCell
<1>3. ASSUME NEW s \in 0 .. Rows - 1, NEW d \in 0 .. Cols - 1, s # r \/ d # c
      PROVE  u[s * Cols + d] = t[s * Cols + d]
  <2>1. s \in Nat /\ s < Rows /\ d \in Nat /\ d < Cols
    BY Sizes
  <2>2. s * Cols + d \in Cell
    BY <2>1, RowCell
  <2>3. /\ (s * Cols + d) \div Cols = s /\ (s * Cols + d) % Cols = d
        /\ (r * Cols + c) \div Cols = r /\ (r * Cols + c) % Cols = c
    BY <2>1, Unique
  <2>4. s * Cols + d # r * Cols + c
    BY <1>3, <2>3
  <2> QED BY <2>2, <2>4
<1>4. IsLength(u, r, c + 1)
  <2>1. t \in [Cell -> Marks] /\ ch \in Marks /\ ch # Empty
    BY ScreenAssumption DEF Ink, Marks
  <2>2. FilledTo(u, r, r * Cols + (c + 1))
    BY <2>1, StoreChar
  <2> QED BY <1>1, <2>2, FilledLength
<1>5. RowText(u, r) = Append(RowText(t, r), ch)
  <2>1. IsLength(t, r, c)
    BY <1>1, FilledLength
  <2> DEFINE e == c + 1
  <2>2. RowText(u, r) = [x \in 1 .. e |-> u[r * Cols + (x - 1)]]
    <3>1. e \in 0 .. Cols /\ IsLength(u, r, e)
      BY <1>1, <1>4
    <3> HIDE DEF e
    <3>2. RowText(u, r) = Prefix(u, r, e)
      BY <3>1, TextOfRow
    <3> QED BY <3>2 DEF Prefix
  <2>3. RowText(t, r) \in Seq(Chars) /\ Len(RowText(t, r)) = c
    BY <1>1, <2>1, RowTyped
  <2>4. RowText(t, r) = [x \in 1 .. c |-> t[r * Cols + (x - 1)]]
    BY <1>1, <2>1, TextOfRow DEF Prefix
  <2> DEFINE T == RowText(t, r)
             U == RowText(u, r)
  <2>5. U \in Seq(Chars) /\ Len(U) = c + 1
    <3>1. u \in [Cell -> Ink]
      BY <1>2 DEF Ink
    <3> QED BY <1>1, <1>4, <3>1, RowTyped
  <2>6. ASSUME NEW x \in 1 .. c + 1
        PROVE  U[x] = IF x = c + 1 THEN ch ELSE T[x]
    <3> DEFINE d == x - 1
    <3>1. x = c + 1 => d = c
      OBVIOUS
    <3>2. x # c + 1 => d \in 0 .. Cols - 1 /\ d # c /\ x \in 1 .. c
      BY Sizes
    <3>3. U[x] = u[r * Cols + d]
      BY <2>2
    <3>4. x \in 1 .. c => T[x] = t[r * Cols + d]
      BY <2>4
    <3> HIDE DEF d, T, U
    <3>5. x = c + 1 => U[x] = ch
      BY <1>2, <3>1, <3>3
    <3>6. ASSUME x # c + 1
          PROVE  U[x] = T[x]
      <4>1. u[r * Cols + d] = t[r * Cols + d]
        BY <1>1, <1>3, <3>2, <3>6
      <4> QED BY <3>2, <3>3, <3>4, <3>6, <4>1
    <3> QED BY <3>5, <3>6
  <2>7. T \in Seq(Chars) /\ Len(T) = c
    BY <2>3
  <2> HIDE DEF T, U
  <2>8. /\ Append(T, ch) \in Seq(Chars) /\ Len(Append(T, ch)) = c + 1
        /\ \A x \in 1 .. c + 1 :
             Append(T, ch)[x] = IF x = c + 1 THEN ch ELSE T[x]
    BY <2>7, AppendProperties
  <2>9. U = Append(T, ch)
    BY <2>5, <2>6, <2>8, SeqEqual
  <2> QED BY <2>9 DEF T, U
<1>6. ASSUME NEW s \in 0 .. Rows - 1
      PROVE  /\ \E n \in 0 .. Cols : IsLength(u, s, n)
             /\ RowText(u, s) = IF s = r THEN Append(RowText(t, r), ch)
                                ELSE RowText(t, s)
  <2>1. CASE s = r
    BY <1>1, <1>4, <1>5, <2>1
  <2>2. CASE s # r
    <3>1. SameCells(u, s, t, s)
      BY <1>3, <2>2 DEF SameCells
    <3>2. PICK n \in 0 .. Cols : IsLength(t, s, n)
      BY DEF Measured
    <3>3. s \in Nat
      OBVIOUS
    <3>4. IsLength(u, s, n) /\ RowText(u, s) = RowText(t, s)
      BY <3>1, <3>2, <3>3, SameRow
    <3> QED BY <2>2, <3>4
  <2> QED BY <2>1, <2>2
<1> QED BY <1>6 DEF Measured

-----------------------------------------------------------------------------
\* What a new line makes of the text: it is below the others while there is
\* room, and pushes the first one out when there is none.
LEMMA KeptLines ==
  ASSUME NEW B \in Seq(Seq(Chars)), Len(B) <= Rows
  PROVE  LET K == C!Kept(Append(B, <<>>)) IN
         /\ K \in Seq(Seq(Chars))
         /\ Len(K) = IF Len(B) < Rows THEN Len(B) + 1 ELSE Rows
         /\ \A r \in 1 .. Len(K) :
              K[r] = IF r = Len(K) THEN <<>>
                     ELSE IF Len(B) < Rows THEN B[r] ELSE B[r + 1]
<1> DEFINE A == Append(B, <<>>)
           n == Len(B)
<1>1. <<>> \in Seq(Chars) /\ n \in Nat
  BY EmptySeq
<1>2. /\ A \in Seq(Seq(Chars)) /\ Len(A) = n + 1
      /\ \A r \in 1 .. n + 1 : A[r] = IF r = n + 1 THEN <<>> ELSE B[r]
  BY <1>1, AppendProperties
<1> HIDE DEF A, n
<1>3. CASE n < Rows
  <2>1. C!Kept(A) = A
    BY <1>1, <1>2, <1>3, Sizes DEF C!Kept
  <2> QED BY <1>1, <1>2, <1>3, <2>1 DEF A, n
<1>4. CASE ~(n < Rows)
  <2>1. n = Rows
    BY <1>1, <1>4, Sizes DEF n
  <2>2. C!Kept(A) = Tail(A) /\ A # <<>>
    BY <1>1, <1>2, <2>1, Sizes, EmptySeq DEF C!Kept
  <2> DEFINE K == C!Kept(A)
  <2>3. /\ K \in Seq(Seq(Chars)) /\ Len(K) = n
        /\ \A r \in 1 .. n : K[r] = A[r + 1]
    BY <1>1, <1>2, <2>2, HeadTailProperties
  <2> HIDE DEF K
  <2>4. ASSUME NEW r \in 1 .. n
        PROVE  K[r] = IF r = n THEN <<>> ELSE B[r + 1]
    <3>1. r + 1 \in 1 .. n + 1 /\ (r + 1 = n + 1 <=> r = n)
      BY <1>1
    <3> QED BY <1>2, <2>3, <3>1
  <2>5. /\ K \in Seq(Seq(Chars)) /\ Len(K) = Rows
        /\ \A r \in 1 .. Len(K) : K[r] = IF r = Len(K) THEN <<>> ELSE B[r + 1]
    BY <2>1, <2>3, <2>4
  <2> QED BY <1>4, <2>5 DEF K, A, n
<1> QED BY <1>3, <1>4

\* The first rows of a screen as lines.
TextOf(t, n) == [r \in 1 .. n |-> RowText(t, r - 1)]

LEMMA TextTyped ==
  ASSUME NEW t \in [Cell -> Ink], Measured(t), NEW n \in 1 .. Rows
  PROVE  /\ TextOf(t, n) \in Seq(Seq(Chars)) /\ Len(TextOf(t, n)) = n
         /\ \A r \in 1 .. n : TextOf(t, n)[r] = RowText(t, r - 1)
<1>1. ASSUME NEW r \in 1 .. n
      PROVE  RowText(t, r - 1) \in Seq(Chars)
  <2> DEFINE s == r - 1
  <2>1. s \in Nat /\ s < Rows /\ s \in 0 .. Rows - 1
    BY Sizes
  <2> HIDE DEF s
  <2>2. PICK m \in 0 .. Cols : IsLength(t, s, m)
    BY <2>1 DEF Measured
  <2>3. RowText(t, s) \in Seq(Chars)
    BY <2>1, <2>2, RowTyped
  <2> QED BY <2>3 DEF s
<1>2. n \in Nat /\ TextOf(t, n) = [r \in 1 .. n |-> RowText(t, r - 1)]
  BY Sizes DEF TextOf
<1>3. TextOf(t, n) \in [1 .. n -> Seq(Chars)]
  BY <1>1, <1>2
<1>4. TextOf(t, n) \in Seq(Seq(Chars)) /\ Len(TextOf(t, n)) = n
  BY <1>2, <1>3
<1> QED BY <1>2, <1>4

\* A text is what its rows are.
LEMMA SameText ==
  ASSUME NEW t \in [Cell -> Ink], Measured(t), NEW n \in 1 .. Rows,
         NEW L \in Seq(Seq(Chars)), Len(L) = n,
         \A r \in 0 .. n - 1 : RowText(t, r) = L[r + 1]
  PROVE  TextOf(t, n) = L
<1>1. /\ TextOf(t, n) \in Seq(Seq(Chars)) /\ Len(TextOf(t, n)) = n
      /\ \A r \in 1 .. n : TextOf(t, n)[r] = RowText(t, r - 1)
  BY TextTyped
<1>2. ASSUME NEW r \in 1 .. n
      PROVE  RowText(t, r - 1) = L[r]
  <2> DEFINE s == r - 1
  <2>1. s \in 0 .. n - 1 /\ r = s + 1
    OBVIOUS
  <2> HIDE DEF s
  <2>2. RowText(t, s) = L[s + 1]
    BY <2>1
  <2> QED BY <2>1, <2>2 DEF s
<1> DEFINE T == TextOf(t, n)
<1>3. T \in Seq(Seq(Chars)) /\ Len(T) = Len(L) /\ \A r \in 1 .. Len(T) : T[r] = L[r]
  BY <1>1, <1>2
<1> HIDE DEF T
<1>4. T = L
  BY <1>3, SeqEqual
<1> QED BY <1>4 DEF T

-----------------------------------------------------------------------------
\* Every step of every writer, nested or not, leaves characters only.
LEMMA PensNext ==
  ASSUME Types, Pens, [Next]_vars
  PROVE  Pens'
<1>1. /\ pc \in [Writers -> Pc] /\ next \in [Writers -> {"aim", "cursor"}]
      /\ char \in [Writers -> Chars \cup {NewLine}]
      /\ \A v \in Writers : Inking(v) => char[v] \in Chars \ {NewLine}
  BY DEF Types, Numbers, Pens
<1>2. ASSUME NEW w \in Writers, NEW ch \in Chars \cup {NewLine}, Begin(w, ch)
      PROVE  Pens'
  <2>1. /\ char' = [char EXCEPT ![w] = ch]
        /\ next' = [next EXCEPT ![w] = Returns(ch)]
        /\ pc' = [pc EXCEPT ![w] = IF ch = NewLine \/ Full THEN "newline"
                                   ELSE "aim"]
    BY <1>2 DEF Begin, Goto
  <2>2. /\ char'[w] = ch /\ next'[w] = Returns(ch)
        /\ ch = NewLine => pc'[w] = "newline"
        /\ \A v \in Writers \ {w} :
             char'[v] = char[v] /\ next'[v] = next[v] /\ pc'[v] = pc[v]
    BY <1>1, <2>1
  <2>3. ASSUME NEW v \in Writers, Inking(v)'
        PROVE  char'[v] \in Chars \ {NewLine}
    BY <1>1, <2>2, <2>3 DEF Inking, Returns
  <2> QED BY <1>1, <2>1, <2>3 DEF Pens
<1>3. ASSUME NEW w \in Writers,
             \/ Newline(w) \/ LookAtRow(w) \/ IncRow(w) \/ Scroll(w)
             \/ Wipe(w) \/ Aim(w)
      PROVE  Pens'
  <2>1. UNCHANGED <<char, next>>
    BY <1>3 DEF Newline, LookAtRow, IncRow, Scroll, Wipe, Aim, locals
  <2>2. \E p : /\ pc' = [pc EXCEPT ![w] = p]
               /\ \/ pc[w] \in InLine /\ p \in InLine \cup {next[w]}
                  \/ pc[w] = "aim" /\ p = "store"
    BY <1>3 DEF Newline, LookAtRow, IncRow, Scroll, Wipe, Aim, Goto, At, InLine
  <2>3. ASSUME NEW v \in Writers, Inking(v)'
        PROVE  Inking(v)
    BY <1>1, <2>1, <2>2, <2>3 DEF Inking, InLine
  <2> QED BY <1>1, <2>1, <2>3 DEF Pens
<1>4. ASSUME NEW w \in Writers, Store(w) \/ IncCol(w) \/ MoveCursor(w)
      PROVE  Pens'
  <2>1. \E p \in {"col", "cursor", "idle"} : pc' = [pc EXCEPT ![w] = p]
    BY <1>4 DEF Store, IncCol, MoveCursor, Goto
  <2>2. /\ char' = char \/ char' = [char EXCEPT ![w] = NewLine]
        /\ next' = next \/ next' = [next EXCEPT ![w] = "aim"]
    BY <1>4 DEF Store, IncCol, MoveCursor
  <2>3. ~Inking(w)'
    BY <1>1, <2>1 DEF Inking, InLine
  <2>4. \A v \in Writers \ {w} :
           char'[v] = char[v] /\ next'[v] = next[v] /\ pc'[v] = pc[v]
    BY <1>1, <2>1, <2>2
  <2>5. ASSUME NEW v \in Writers, Inking(v)'
        PROVE  char'[v] \in Chars \ {NewLine}
    BY <1>1, <2>3, <2>4, <2>5 DEF Inking
  <2>6. char' \in [Writers -> Chars \cup {NewLine}]
    BY <1>1, <2>2
  <2> QED BY <2>5, <2>6 DEF Pens
<1>5. CASE Clear \/ Hide \/ Show \/ UNCHANGED vars
  <2>1. UNCHANGED <<pc, char, next>>
    BY <1>5 DEF Clear, Hide, Show, vars, locals
  <2> QED BY <1>1, <2>1 DEF Pens, Inking
<1> QED BY <1>2, <1>3, <1>4, <1>5 DEF Next, Step

LEMMA PaperNext ==
  ASSUME Inked, [Next]_vars
  PROVE  Paper'
<1>1. /\ buffer \in Buffers /\ to \in [Writers -> Buffers]
      /\ cells \in [Buffers -> [Cell -> Ink \cup {Pattern}]]
      /\ cells[buffer] \in [Cell -> Ink] /\ "vga" \in Buffers /\ "ram" \in Buffers
  BY DEF Inked, Types, Paper, Buffers
<1> DEFINE u == [i \in Cell |-> Empty]
           v == [i \in Cell |-> Pattern]
<1>2. u \in [Cell -> Ink] /\ u \in [Cell -> Ink \cup {Pattern}]
      /\ v \in [Cell -> Ink \cup {Pattern}]
  BY DEF Ink
<1> HIDE DEF u, v
\* The used buffer is drawn on ...
<1>3. ASSUME buffer' = buffer,
             NEW t \in [Cell -> Ink], cells' = [cells EXCEPT ![buffer] = t]
      PROVE  Paper'
  <2>1. t \in [Cell -> Ink \cup {Pattern}]
    BY DEF Ink
  <2> QED BY <1>1, <1>3, <2>1 DEF Paper
<1>4. ASSUME UNCHANGED <<cells, buffer>>
      PROVE  Paper'
  BY <1>1, <1>4 DEF Paper
<1>5. ASSUME NEW w \in Writers, NEW ch \in Chars \cup {NewLine}, Begin(w, ch)
      PROVE  Paper'
  BY <1>4, <1>5 DEF Begin, text
<1>6. ASSUME NEW w \in Writers,
             \/ Newline(w) \/ LookAtRow(w) \/ IncRow(w) \/ Aim(w) \/ IncCol(w)
             \/ MoveCursor(w)
      PROVE  Paper'
  <2>1. UNCHANGED <<cells, buffer>>
    BY <1>6 DEF Newline, LookAtRow, IncRow, Aim, IncCol, MoveCursor, text
  <2> QED BY <1>4, <2>1
<1>7. ASSUME NEW w \in Writers, Scroll(w)
      PROVE  Paper'
  <2> DEFINE t == [i \in Cell |-> IF i \div Cols = line[w] - 1
                                  THEN cells[buffer][i + Cols]
                                  ELSE cells[buffer][i]]
  <2>1. buffer' = buffer /\ cells' = [cells EXCEPT ![buffer] = t]
    BY <1>7 DEF Scroll
  <2>2. line[w] \in 1 .. Rows - 1
    BY <1>7 DEF Scroll, At, Inked, Lined
  <2>3. ASSUME NEW i \in Cell
        PROVE  t[i] \in Ink
    <3>1. i \div Cols = line[w] - 1 => i + Cols \in Cell
      BY <2>2, Cells, Sizes
    <3> QED BY <1>1, <3>1
  <2>4. t \in [Cell -> Ink]
    BY <2>3
  <2> HIDE DEF t
  <2> QED BY <1>3, <2>1, <2>4
<1>8. ASSUME NEW w \in Writers, Wipe(w)
      PROVE  Paper'
  <2> DEFINE t == [i \in Cell |-> IF i \div Cols = Wiped THEN Empty
                                  ELSE cells[buffer][i]]
  <2>1. t \in [Cell -> Ink]
    BY <1>1 DEF Ink
  <2>2. buffer' = buffer /\ cells' = [cells EXCEPT ![buffer] = t]
    BY <1>8 DEF Wipe
  <2> HIDE DEF t
  <2> QED BY <1>3, <2>1, <2>2
\* ... or the buffer a writer has aimed at.
<1>9. ASSUME NEW w \in Writers, Store(w)
      PROVE  Paper'
  <2>1. char[w] \in Chars /\ char[w] \in Ink /\ to[w] \in Buffers
    BY <1>1, <1>9 DEF Store, At, Inked, Pens, Inking, Ink
  <2>2. /\ cells' = IF at[w] \in Cell
                    THEN [cells EXCEPT ![to[w]][at[w]] = char[w]] ELSE cells
        /\ buffer' = buffer
    BY <1>9 DEF Store
  <2>3. CASE at[w] \in Cell
    <3>1. cells' \in [Buffers -> [Cell -> Ink \cup {Pattern}]]
      BY <1>1, <2>1, <2>2, <2>3
    <3>2. CASE to[w] = buffer
      BY <1>1, <2>1, <2>2, <2>3, <3>1, <3>2 DEF Paper
    <3>3. CASE to[w] # buffer
      BY <1>1, <2>1, <2>2, <2>3, <3>1, <3>3 DEF Paper
    <3> QED BY <3>2, <3>3
  <2>4. CASE at[w] \notin Cell
    BY <1>4, <2>2, <2>4
  <2> QED BY <2>3, <2>4
<1>10. CASE Clear
  BY <1>2, <1>3, <1>10 DEF Clear, u
<1>11. CASE Hide
  <2>1. /\ buffer' = "ram"
        /\ cells' = [b \in Buffers |-> IF b = "vga" THEN v
                                       ELSE IF buffer # "ram" THEN cells["vga"]
                                       ELSE cells["ram"]]
    BY <1>11 DEF Hide, Hidden, v
  <2>2. buffer # "ram" => buffer = "vga"
    BY <1>1 DEF Buffers
  <2>3. cells'["ram"] \in [Cell -> Ink]
    BY <1>1, <2>1, <2>2
  <2>4. cells' \in [Buffers -> [Cell -> Ink \cup {Pattern}]]
    BY <1>1, <1>2, <2>1
  <2> QED BY <2>1, <2>3, <2>4 DEF Paper
<1>12. CASE Show
  <2>1. buffer' = "vga" /\ cells' = [cells EXCEPT !["vga"] = cells[buffer]]
    BY <1>12 DEF Show, Text
  <2> QED BY <1>1, <2>1 DEF Paper
<1>13. CASE UNCHANGED vars
  BY <1>4, <1>13 DEF vars, text
<1> QED BY <1>5, <1>6, <1>7, <1>8, <1>9, <1>10, <1>11, <1>12, <1>13
        DEF Next, Step

-----------------------------------------------------------------------------
\* How far the character that a writer at p prints has changed the text B to
\* t, where it goes on to n, has copied the rows before l and is on row r.
Account(p, n, l, r, B, t) ==
  /\ p \in InLine => /\ Len(B) = r + 1
                     /\ n = "aim" => Len(B[r + 1]) = Cols
  /\ p \in {"newline", "row", "inc"} => TextOf(t, r + 1) = B
  /\ p = "scroll" => \A s \in 0 .. r :
       RowText(t, s) = IF s < l - 1 THEN B[s + 2] ELSE B[s + 1]
  /\ p = "wipe" => \A s \in 0 .. r - 1 : RowText(t, s) = B[s + 2]
  /\ p \in {"aim", "store"} => TextOf(t, r + 1) = C!Opened(B)
  /\ p = "col" => \E ch \in Chars \ {NewLine} :
                    TextOf(t, r + 1) = C!Added(C!Opened(B), ch)
  /\ p = "cursor" => \E ch \in Chars \cup {NewLine} :
                       TextOf(t, r + 1) = C!Printed(B, ch)

Told(w) == Account(pc[w], next[w], line[w], row, before, cells[buffer])

Telling ==
  /\ Measured(cells[buffer])
  /\ before \in Seq(Seq(Chars)) /\ Len(before) \in 1 .. Rows
  /\ \A w \in Writers : Told(w)

Story == ShapeInv /\ ~raced /\ Inked /\ Telling

LEMMA ToldIdle ==
  ASSUME NEW w \in Writers, pc[w] = "idle"
  PROVE  Told(w)
  BY DEF Told, Account, InLine

\* A line break, seen from the text.
LEMMA Broken ==
  ASSUME NEW t \in [Cell -> Ink], Measured(t), NEW n \in {"aim", "cursor"},
         NEW r \in Nat, r < Rows, NEW s \in Nat, s < Rows,
         NEW B \in Seq(Seq(Chars)), Len(B) = r + 1,
         n = "aim" => Len(B[r + 1]) = Cols,
         \/ s = r + 1 /\ \A x \in 0 .. r : RowText(t, x) = B[x + 1]
         \/ s = r /\ r = Rows - 1
            /\ \A x \in 0 .. r - 1 : RowText(t, x) = B[x + 2],
         RowText(t, s) = <<>>, NEW l
  PROVE  Account(n, n, l, s, B, t)
<1> DEFINE K == C!Kept(Append(B, <<>>))
<1>1. /\ K \in Seq(Seq(Chars))
      /\ Len(K) = IF Len(B) < Rows THEN Len(B) + 1 ELSE Rows
      /\ \A x \in 1 .. Len(K) :
           K[x] = IF x = Len(K) THEN <<>>
                  ELSE IF Len(B) < Rows THEN B[x] ELSE B[x + 1]
  <2>1. Len(B) <= Rows
    BY Sizes
  <2> QED BY <2>1, KeptLines
<1> HIDE DEF K
<1>2. Len(K) = s + 1 /\ s + 1 \in 1 .. Rows /\ (Len(B) < Rows <=> s = r + 1)
  BY <1>1, Sizes
<1>3. ASSUME NEW x \in 0 .. (s + 1) - 1
      PROVE  RowText(t, x) = K[x + 1]
  <2>1. x + 1 \in 1 .. Len(K) /\ (x + 1 = Len(K) <=> x = s)
    BY <1>2
  <2>2. CASE x = s
    BY <1>1, <2>1, <2>2
  <2>3. CASE x # s
    <3>1. CASE s = r + 1
      <4>1. x \in 0 .. r /\ s # r
        BY <2>3, <3>1
      <4>2. K[x + 1] = B[x + 1]
        BY <1>1, <1>2, <2>1, <2>3, <3>1
      <4> QED BY <4>1, <4>2
    <3>2. CASE s # r + 1
      <4>1. s = r /\ x \in 0 .. r - 1
        BY <2>3, <3>2
      <4>2. K[x + 1] = B[(x + 1) + 1]
        BY <1>1, <1>2, <2>1, <2>3, <3>2
      <4>3. (x + 1) + 1 = x + 2
        OBVIOUS
      <4> QED BY <3>2, <4>1, <4>2, <4>3
    <3> QED BY <3>1, <3>2
  <2> QED BY <2>2, <2>3
<1>4. TextOf(t, s + 1) = K
  BY <1>1, <1>2, <1>3, SameText
<1>5. CASE n = "aim"
  <2>1. C!Opened(B) = K
    BY <1>5 DEF C!Opened, K
  <2> QED BY <1>4, <1>5, <2>1 DEF Account, InLine
<1>6. CASE n = "cursor"
  <2>1. C!Printed(B, NewLine) = K
    BY DEF C!Printed, K
  <2> QED BY <1>4, <1>6, <2>1 DEF Account, InLine
<1> QED BY <1>5, <1>6

\* What is known when w is at a step.
LEMMA StoryAt ==
  ASSUME Story, NEW w \in Writers, pc[w] # "idle"
  PROVE  LET t == cells[buffer] IN
         /\ \A v \in Writers \ {w} : pc[v] = "idle"
         /\ t \in [Cell -> Ink] /\ NoHoles(t) /\ Measured(t)
         /\ pc[w] \in Moving => EmptyFrom(t, row * Cols + Cols)
         /\ pc[w] \notin Moving \cup {"col"} => FilledTo(t, row, row * Cols + col)
         /\ row \in Nat /\ col \in Nat /\ row < Rows /\ col <= Cols
         /\ row + 1 \in 1 .. Rows
         /\ before \in Seq(Seq(Chars)) /\ Len(before) \in 1 .. Rows
         /\ Account(pc[w], next[w], line[w], row, before, t)
         /\ pc \in [Writers -> Pc] /\ next \in [Writers -> {"aim", "cursor"}]
         /\ line \in [Writers -> Nat]
<1>1. ShapeInv /\ ~raced /\ Paper /\ Telling
  BY DEF Story, Inked
<1>2. /\ \A v \in Writers \ {w} : pc[v] = "idle"
      /\ NoHoles(cells[buffer])
      /\ pc[w] \in Moving => EmptyFrom(cells[buffer], row * Cols + Cols)
      /\ pc[w] \notin Moving \cup {"col"} =>
           FilledTo(cells[buffer], row, row * Cols + col)
      /\ row \in Nat /\ col \in Nat /\ row < Rows /\ col <= Cols
  BY <1>1, ShapeAt
<1>3. row + 1 \in 1 .. Rows
  BY <1>2, Sizes
<1>4. /\ pc \in [Writers -> Pc] /\ next \in [Writers -> {"aim", "cursor"}]
      /\ line \in [Writers -> Nat]
  BY <1>1 DEF ShapeInv, Types, Numbers, Drawn, Lined
<1> QED BY <1>1, <1>2, <1>3, <1>4 DEF Paper, Telling, Told

\* Steps of TEXT_newline (screen.c:43-62).
LEMMA NewlineTold ==
  ASSUME Story, NEW w \in Writers, Newline(w) \/ LookAtRow(w) \/ IncRow(w)
  PROVE  /\ UNCHANGED <<cells, buffer, before>>
         /\ Account(pc'[w], next'[w], line'[w], row', before, cells[buffer])
<1> DEFINE t == cells[buffer]
<1>1. /\ pc[w] # "idle" /\ UNCHANGED <<cells, buffer, before, next>>
      /\ pc[w] \in {"newline", "row", "inc"}
  BY DEF Newline, LookAtRow, IncRow, At, text, locals
<1>2. /\ t \in [Cell -> Ink] /\ Measured(t)
      /\ pc[w] \in Moving => EmptyFrom(t, row * Cols + Cols)
      /\ row \in Nat /\ row < Rows /\ row + 1 \in 1 .. Rows
      /\ before \in Seq(Seq(Chars)) /\ Len(before) = row + 1
      /\ next[w] = "aim" => Len(before[row + 1]) = Cols
      /\ TextOf(t, row + 1) = before
      /\ pc \in [Writers -> Pc] /\ next[w] \in {"aim", "cursor"}
      /\ line \in [Writers -> Nat]
  BY <1>1, StoryAt DEF Account, InLine
<1> HIDE DEF t
<1>3. ASSUME NEW x \in 0 .. row
      PROVE  RowText(t, x) = before[x + 1]
  <2>1. x + 1 \in 1 .. row + 1 /\ (x + 1) - 1 = x
    BY <1>2
  <2>2. TextOf(t, row + 1)[x + 1] = RowText(t, (x + 1) - 1)
    BY <1>2, <2>1, TextTyped
  <2> QED BY <1>2, <2>1, <2>2
<1>4. CASE Newline(w)
  <2>1. pc'[w] = "row" /\ row' = row
    BY <1>2, <1>4 DEF Newline, Goto
  <2> QED BY <1>1, <1>2, <2>1 DEF Account, InLine, t
<1>5. CASE LookAtRow(w)
  <2>1. /\ row' = row
        /\ \/ pc'[w] = "inc"
           \/ pc'[w] = "scroll" /\ line'[w] = 1
           \/ pc'[w] = "wipe" /\ ~(Rows > 1)
    BY <1>2, <1>5 DEF LookAtRow, Goto
  <2>2. CASE pc'[w] = "inc"
    BY <1>1, <1>2, <2>1, <2>2 DEF Account, InLine, t
  <2>3. CASE pc'[w] = "scroll" /\ line'[w] = 1
    <3>1. \A x \in 0 .. row : ~(x < line'[w] - 1)
      BY <2>3
    <3>2. \A x \in 0 .. row' : RowText(t, x) =
             IF x < line'[w] - 1 THEN before[x + 2] ELSE before[x + 1]
      BY <1>3, <2>1, <3>1
    <3> QED BY <1>1, <1>2, <2>1, <2>3, <3>2 DEF Account, InLine, t
  <2>4. CASE pc'[w] = "wipe" /\ ~(Rows > 1)
    <3>1. \A x \in 0 .. row' - 1 : FALSE
      BY <1>2, <2>1, <2>4, Sizes
    <3> QED BY <1>1, <1>2, <2>1, <2>4, <3>1 DEF Account, InLine, t
  <2> QED BY <2>1, <2>2, <2>3, <2>4
<1>6. CASE IncRow(w)
  <2>1. /\ pc[w] = "inc" /\ pc'[w] = next[w]
        /\ row' \in {row + 1, old[w] + 1} /\ old[w] = row /\ row < Rows - 1
    BY <1>2, <1>6
       DEF IncRow, At, Goto, Story, ShapeInv, Unraced, Fresh
  <2> DEFINE s == row + 1
  <2>2. s \in Nat /\ s < Rows /\ row < s /\ row' = s /\ pc[w] \in Moving
    BY <1>2, <2>1, Sizes DEF Moving
  <2>3. RowText(t, s) = <<>>
    <3> HIDE DEF s
    <3> QED BY <1>2, <2>2, RowsBelow
  <2>4. Account(next[w], next[w], line'[w], s, before, t)
    <3>1. s = row + 1
      OBVIOUS
    <3> HIDE DEF s
    <3> QED BY <1>2, <1>3, <2>2, <2>3, <3>1, Broken
  <2> QED BY <1>1, <2>1, <2>2, <2>4 DEF t
<1> QED BY <1>1, <1>4, <1>5, <1>6

LEMMA ScrollTold ==
  ASSUME Story, NEW w \in Writers, Scroll(w)
  PROVE  /\ UNCHANGED <<buffer, before>> /\ Measured(cells'[buffer'])
         /\ Account(pc'[w], next'[w], line'[w], row', before, cells'[buffer'])
<1> DEFINE t == cells[buffer]
           u == cells'[buffer']
           l == line[w]
<1>1. /\ pc[w] = "scroll" /\ UNCHANGED <<buffer, before, next, row>>
      /\ pc[w] # "idle"
  BY DEF Scroll, At
<1>2. /\ t \in [Cell -> Ink] /\ Measured(t)
      /\ row \in Nat /\ before \in Seq(Seq(Chars)) /\ Len(before) = row + 1
      /\ next[w] = "aim" => Len(before[row + 1]) = Cols
      /\ \A x \in 0 .. row : RowText(t, x) =
           IF x < l - 1 THEN before[x + 2] ELSE before[x + 1]
      /\ pc \in [Writers -> Pc] /\ line \in [Writers -> Nat]
  BY <1>1, StoryAt DEF Account, InLine
<1>3. row = Rows - 1 /\ l \in 1 .. Rows - 1
  BY <1>1 DEF Story, ShapeInv, Shape
<1>4. u = [i \in Cell |-> IF i \div Cols = l - 1 THEN t[i + Cols] ELSE t[i]]
  <2>1. buffer \in Buffers /\ cells \in [Buffers -> [Cell -> Marks]]
    BY DEF Story, ShapeInv, Drawn, Types
  <2> QED BY <2>1 DEF Scroll
<1>5. /\ line'[w] = l + 1
      /\ pc'[w] = IF l + 1 < Rows THEN "scroll" ELSE "wipe"
  BY <1>2 DEF Scroll, Goto
<1> HIDE DEF t, u, l
<1>6. /\ Measured(u)
      /\ \A r \in 0 .. Rows - 1 :
           RowText(u, r) = RowText(t, IF r = l - 1 THEN r + 1 ELSE r)
  BY <1>2, <1>3, <1>4, ScrollText
<1>7. ASSUME NEW x \in 0 .. row
      PROVE  RowText(u, x) = IF x < l THEN before[x + 2] ELSE before[x + 1]
  <2>1. x \in 0 .. Rows - 1 /\ l \in Nat /\ x \in Nat
    BY <1>3, Sizes
  <2>2. CASE x = l - 1
    <3>1. x + 1 \in 0 .. row /\ ~(x + 1 < l - 1) /\ x < l /\ (x + 1) + 1 = x + 2
      BY <1>3, <2>1, <2>2, Sizes
    <3>2. RowText(t, x + 1) = before[(x + 1) + 1]
      BY <1>2, <3>1
    <3> QED BY <1>6, <2>1, <2>2, <3>1, <3>2
  <2>3. CASE x # l - 1
    <3>1. x < l <=> x < l - 1
      BY <2>1, <2>3
    <3> QED BY <1>2, <1>6, <2>1, <2>3, <3>1
  <2> QED BY <2>2, <2>3
<1>8. CASE l + 1 < Rows
  <2>1. line'[w] - 1 = l
    BY <1>3, <1>5
  <2> QED BY <1>1, <1>2, <1>5, <1>6, <1>7, <1>8, <2>1 DEF Account, InLine, u
<1>9. CASE ~(l + 1 < Rows)
  <2>1. \A x \in 0 .. row - 1 : x \in 0 .. row /\ x < l
    BY <1>2, <1>3, <1>9, Sizes
  <2> QED BY <1>1, <1>2, <1>5, <1>6, <1>7, <1>9, <2>1 DEF Account, InLine, u
<1> QED BY <1>8, <1>9

LEMMA WipeTold ==
  ASSUME Story, NEW w \in Writers, Wipe(w)
  PROVE  /\ UNCHANGED <<buffer, before>> /\ Measured(cells'[buffer'])
         /\ Account(pc'[w], next'[w], line'[w], row', before, cells'[buffer'])
<1> DEFINE t == cells[buffer]
           u == cells'[buffer']
<1>1. /\ pc[w] = "wipe" /\ UNCHANGED <<buffer, before, next, row>>
      /\ pc[w] # "idle"
  BY DEF Wipe, At
<1>2. /\ t \in [Cell -> Ink] /\ Measured(t)
      /\ row \in Nat /\ row < Rows /\ before \in Seq(Seq(Chars)) /\ Len(before) = row + 1
      /\ next[w] = "aim" => Len(before[row + 1]) = Cols
      /\ \A x \in 0 .. row - 1 : RowText(t, x) = before[x + 2]
      /\ pc \in [Writers -> Pc] /\ next[w] \in {"aim", "cursor"}
  BY <1>1, StoryAt DEF Account, InLine
<1>3. row = Rows - 1
  BY <1>1 DEF Story, ShapeInv, Shape
<1>4. u = [i \in Cell |-> IF i \div Cols = Rows - 1 THEN Empty ELSE t[i]]
  <2>1. buffer \in Buffers /\ cells \in [Buffers -> [Cell -> Marks]]
    BY DEF Story, ShapeInv, Drawn, Types
  <2> QED BY <2>1 DEF Wipe, Wiped
<1>5. pc'[w] = next[w]
  BY <1>2 DEF Wipe, Goto
<1>6. u \in [Cell -> Ink]
  BY <1>2, <1>4 DEF Ink
<1> HIDE DEF t, u
<1>7. /\ Measured(u)
      /\ \A r \in 0 .. Rows - 1 :
           RowText(u, r) = IF r = Rows - 1 THEN <<>> ELSE RowText(t, r)
  BY <1>2, <1>4, WipeText
<1>8. RowText(u, row) = <<>> /\ \A x \in 0 .. row - 1 : RowText(u, x) = before[x + 2]
  <2>1. row \in 0 .. Rows - 1
        /\ \A x \in 0 .. row - 1 : x \in 0 .. Rows - 1 /\ x # Rows - 1
    BY <1>2, <1>3, Sizes
  <2> QED BY <1>2, <1>3, <1>7, <2>1
<1>9. Account(next[w], next[w], line'[w], row, before, u)
  BY <1>2, <1>3, <1>6, <1>7, <1>8, Broken
<1> QED BY <1>1, <1>5, <1>7, <1>9 DEF u

\* The character goes to the end of the current row (screen.c:79-82).
LEMMA StoreTold ==
  ASSUME Story, NEW w \in Writers, Store(w)
  PROVE  /\ UNCHANGED <<buffer, before>> /\ Measured(cells'[buffer'])
         /\ Account(pc'[w], next'[w], line'[w], row', before, cells'[buffer'])
<1> DEFINE t == cells[buffer]
           u == cells'[buffer']
           ch == char[w]
           n == row + 1
<1>1. /\ pc[w] = "store" /\ UNCHANGED <<buffer, before, next, row>>
      /\ pc[w] # "idle"
  BY DEF Store, At
<1>2. /\ t \in [Cell -> Ink] /\ NoHoles(t) /\ Measured(t)
      /\ FilledTo(t, row, row * Cols + col)
      /\ row \in Nat /\ col \in Nat /\ row < Rows /\ n \in 1 .. Rows
      /\ before \in Seq(Seq(Chars))
      /\ TextOf(t, n) = C!Opened(before)
      /\ pc \in [Writers -> Pc]
  BY <1>1, StoryAt DEF Account, InLine, Moving
<1>3. /\ col < Cols /\ at[w] = col + row * Cols /\ to[w] = buffer
      /\ ch \in Chars \ {NewLine}
  BY <1>1 DEF Story, ShapeInv, Unraced, Fresh, Inked, Pens, Inking
<1>4. at[w] = row * Cols + col /\ row * Cols + col \in Cell
  <2>1. col + row * Cols = row * Cols + col
    BY <1>2, Sizes
  <2> QED BY <1>2, <1>3, <2>1, OnScreen
<1>5. u = Stored(t, row * Cols + col, ch)
  <2>1. buffer \in Buffers /\ cells \in [Buffers -> [Cell -> Marks]]
    BY DEF Story, ShapeInv, Drawn, Types
  <2> QED BY <1>3, <1>4, <2>1 DEF Store, Stored
<1>6. pc'[w] = "col"
  BY <1>2 DEF Store, Goto
<1>7. u \in [Cell -> Ink]
  BY <1>2, <1>3, <1>5 DEF Ink, Stored
<1> HIDE DEF t, u, ch
<1>8. /\ Measured(u)
      /\ \A s \in 0 .. Rows - 1 :
           RowText(u, s) = IF s = row THEN Append(RowText(t, row), ch)
                           ELSE RowText(t, s)
  <2>1. ch \in Chars
    BY <1>3
  <2> DEFINE p == row * Cols + col
  <2>2. col < Cols /\ FilledTo(t, row, p) /\ u = Stored(t, p, ch)
    BY <1>2, <1>3, <1>5
  <2>3. p = row * Cols + col
    OBVIOUS
  <2> HIDE DEF p
  <2>4. Measured(u) /\ Longer(u, t, row, ch)
    BY <1>2, <2>1, <2>2, <2>3, StoreText
  <2> QED BY <2>4 DEF Longer
<1> DEFINE L == TextOf(t, n)
           A == C!Added(L, ch)
<1>9. /\ L \in Seq(Seq(Chars)) /\ Len(L) = n
      /\ \A r \in 1 .. n : L[r] = RowText(t, r - 1)
  BY <1>2, TextTyped
<1> HIDE DEF L
<1>10. /\ A \in Seq(Seq(Chars)) /\ Len(A) = n
       /\ \A r \in 1 .. n : A[r] = IF r = n THEN Append(L[n], ch) ELSE L[r]
  <2>1. n \in 1 .. n /\ L[n] \in Seq(Chars)
    BY <1>2, <1>9, ElementOfSeq
  <2>2. Append(L[n], ch) \in Seq(Chars)
    BY <1>3, <2>1, AppendProperties
  <2>3. A = [L EXCEPT ![n] = Append(L[n], ch)]
    BY <1>9 DEF C!Added
  <2> HIDE DEF A, n
  <2> QED BY <1>9, <2>1, <2>2, <2>3, ExceptSeq
<1> HIDE DEF A
<1>11. ASSUME NEW x \in 0 .. n - 1
       PROVE  RowText(u, x) = A[x + 1]
  <2>1. /\ x \in 0 .. Rows - 1 /\ x + 1 \in 1 .. n /\ (x + 1) - 1 = x
        /\ (x = row <=> x + 1 = n)
    BY <1>2, Sizes
  <2>2. L[x + 1] = RowText(t, x)
    BY <1>9, <2>1
  <2> QED BY <1>8, <1>10, <2>1, <2>2
<1>12. TextOf(u, n) = A
  <2> HIDE DEF n
  <2> QED BY <1>2, <1>7, <1>8, <1>10, <1>11, SameText
<1>13. A = C!Added(C!Opened(before), ch)
  BY <1>2 DEF A, L
<1> QED BY <1>1, <1>3, <1>6, <1>8, <1>12, <1>13 DEF Account, InLine, u

\* Steps that leave the text alone: it is what was told before.
LEMMA PositionTold ==
  ASSUME Story, NEW w \in Writers, Aim(w) \/ IncCol(w)
  PROVE  /\ UNCHANGED <<cells, buffer, before>>
         /\ Account(pc'[w], next'[w], line'[w], row', before, cells[buffer])
<1>1. /\ pc[w] # "idle" /\ UNCHANGED <<cells, buffer, before, row>>
      /\ \/ pc[w] = "aim" /\ pc' = [pc EXCEPT ![w] = "store"]
         \/ pc[w] = "col" /\ pc' = [pc EXCEPT ![w] = "cursor"]
  BY DEF Aim, IncCol, At, Goto, text
<1>2. /\ pc \in [Writers -> Pc]
      /\ Account(pc[w], next[w], line[w], row, before, cells[buffer])
  BY <1>1, StoryAt
<1>3. CASE pc[w] = "aim"
  BY <1>1, <1>2, <1>3 DEF Account, InLine
<1>4. CASE pc[w] = "col"
  <2>1. PICK ch \in Chars \ {NewLine} :
           TextOf(cells[buffer], row + 1) = C!Added(C!Opened(before), ch)
    BY <1>2, <1>4 DEF Account
  <2>2. C!Printed(before, ch) = C!Added(C!Opened(before), ch)
    BY DEF C!Printed
  <2>3. pc'[w] = "cursor" /\ ch \in Chars \cup {NewLine}
    BY <1>1, <1>2, <1>4
  <2> QED BY <1>1, <2>1, <2>2, <2>3 DEF Account, InLine
<1> QED BY <1>1, <1>3, <1>4

\* A character begins: the text as it is, is the text before it.
LEMMA BeginTold ==
  ASSUME Nesting = FALSE, Story, NEW w \in Writers,
         NEW ch \in Chars \cup {NewLine}, Begin(w, ch)
  PROVE  /\ Quiet /\ UNCHANGED <<cells, buffer, row>>
         /\ before' = Lines(cells[buffer])
         /\ before' \in Seq(Seq(Chars)) /\ Len(before') \in 1 .. Rows
         /\ Account(pc'[w], next'[w], line'[w], row', before', cells[buffer])
<1> DEFINE t == cells[buffer]
           n == row + 1
<1>1. /\ Quiet /\ UNCHANGED <<cells, buffer, row, col, line>>
      /\ before' = Lines(t)
      /\ next' = [next EXCEPT ![w] = Returns(ch)]
      /\ pc' = [pc EXCEPT ![w] = IF ch = NewLine \/ Full THEN "newline" ELSE "aim"]
  BY DEF Begin, MayStart, Goto, text
<1>2. /\ t \in [Cell -> Ink] /\ Measured(t)
      /\ FilledTo(t, row, row * Cols + col)
      /\ row \in Nat /\ col \in Nat /\ row < Rows /\ col <= Cols
      /\ pc \in [Writers -> Pc] /\ next \in [Writers -> {"aim", "cursor"}]
  <2>1. \A v \in Writers : pc[v] \notin Moving \cup {"col"}
    BY <1>1 DEF Quiet, Moving
  <2> QED BY <2>1 DEF Story, ShapeInv, Shape, Inked, Paper, Telling, Types,
             Numbers, Unraced
<1>3. n \in 1 .. Rows /\ Lines(t) = TextOf(t, n) /\ row \in 0 .. Rows - 1
      /\ col \in 0 .. Cols
  BY <1>2, Sizes DEF Lines, TextOf
<1> HIDE DEF t
<1>4. /\ before' \in Seq(Seq(Chars)) /\ Len(before') = n
      /\ Len(before'[n]) = col
  <2>1. /\ TextOf(t, n) \in Seq(Seq(Chars)) /\ Len(TextOf(t, n)) = n
        /\ \A r \in 1 .. n : TextOf(t, n)[r] = RowText(t, r - 1)
    BY <1>2, <1>3, TextTyped
  <2>2. n \in 1 .. n /\ n - 1 = row
    BY <1>2
  <2>3. TextOf(t, n)[n] = RowText(t, row)
    BY <2>1, <2>2
  <2>4. IsLength(t, row, col)
    BY <1>2, <1>3, FilledLength
  <2>5. Len(RowText(t, row)) = col
    BY <1>2, <1>3, <2>4, RowTyped
  <2> QED BY <1>1, <1>3, <2>1, <2>3, <2>5
<1>5. CASE pc'[w] = "newline"
  <2>1. next'[w] = "aim" => Len(before'[n]) = Cols
    <3> SUFFICES ASSUME next'[w] = "aim" PROVE col = Cols
      BY <1>4
    <3>1. ch # NewLine
      BY <1>1, <1>2 DEF Returns
    <3>2. Full
      BY <1>1, <1>2, <1>5, <3>1
    <3> QED BY <1>2, <3>2, Sizes DEF Full
  <2> QED BY <1>1, <1>3, <1>4, <1>5, <2>1 DEF Account, InLine, t
<1>6. CASE pc'[w] # "newline"
  <2>1. pc'[w] = "aim" /\ col < Cols
    BY <1>1, <1>2, <1>6, Sizes DEF Full
  <2>2. C!Opened(before') = before'
    BY <1>3, <1>4, <2>1, Sizes DEF C!Opened
  <2> QED BY <1>1, <1>3, <1>4, <2>1, <2>2 DEF Account, InLine, t
<1> QED BY <1>1, <1>3, <1>4, <1>5, <1>6 DEF t

-----------------------------------------------------------------------------
\* Only one writer is at a step, so its account is all there is to tell.
LEMMA OneTells ==
  ASSUME NEW w \in Writers, \A v \in Writers \ {w} : pc'[v] = "idle",
         Measured(cells'[buffer']),
         before' \in Seq(Seq(Chars)), Len(before') \in 1 .. Rows,
         Account(pc'[w], next'[w], line'[w], row', before', cells'[buffer'])
  PROVE  Telling'
<1>1. ASSUME NEW v \in Writers, pc'[v] = "idle"
      PROVE  Account(pc'[v], next'[v], line'[v], row', before', cells'[buffer'])
  BY <1>1 DEF Account, InLine
<1>2. \A v \in Writers :
        Account(pc'[v], next'[v], line'[v], row', before', cells'[buffer'])
  BY <1>1
<1> QED BY <1>2 DEF Telling, Told

\* A step inside a character.
LEMMA StepTold ==
  ASSUME Story, NEW w \in Writers, Step(w)
  PROVE  /\ before' = before /\ Measured(cells'[buffer'])
         /\ Account(pc'[w], next'[w], line'[w], row', before, cells'[buffer'])
         /\ pc[w] # "idle" /\ raced' = raced
         /\ \A v \in Writers \ {w} : pc[v] = "idle" /\ pc'[v] = "idle"
<1>1. pc[w] # "idle" /\ raced' = raced /\ \E p : pc' = [pc EXCEPT ![w] = p]
  BY DEF Step, Newline, LookAtRow, IncRow, Scroll, Wipe, Aim, Store, IncCol,
         MoveCursor, At, Goto
<1>2. /\ Measured(cells[buffer]) /\ \A v \in Writers \ {w} : pc[v] = "idle"
      /\ pc \in [Writers -> Pc]
  BY <1>1, StoryAt
<1>3. \A v \in Writers \ {w} : pc'[v] = "idle"
  BY <1>1, <1>2
<1> DEFINE Goal == /\ before' = before /\ Measured(cells'[buffer'])
                   /\ Account(pc'[w], next'[w], line'[w], row', before,
                              cells'[buffer'])
<1>4. ASSUME UNCHANGED <<cells, buffer, before>>,
             Account(pc'[w], next'[w], line'[w], row', before, cells[buffer])
      PROVE  Goal
  BY <1>2, <1>4
<1>5. ASSUME Newline(w) \/ LookAtRow(w) \/ IncRow(w)
      PROVE  Goal
  BY <1>4, <1>5, NewlineTold
<1>6. ASSUME Scroll(w)
      PROVE  Goal
  BY <1>6, ScrollTold
<1>7. ASSUME Wipe(w)
      PROVE  Goal
  BY <1>7, WipeTold
<1>8. ASSUME Store(w)
      PROVE  Goal
  BY <1>8, StoreTold
<1>9. ASSUME Aim(w) \/ IncCol(w)
      PROVE  Goal
  BY <1>4, <1>9, PositionTold
<1>10. ASSUME MoveCursor(w)
      PROVE  Goal
  <2>1. pc'[w] = "idle" /\ UNCHANGED <<cells, buffer, before>>
    BY <1>2, <1>10 DEF MoveCursor
  <2>2. Account(pc'[w], next'[w], line'[w], row', before, cells[buffer])
    BY <2>1 DEF Account, InLine
  <2> QED BY <1>4, <2>1, <2>2
<1> HIDE DEF Goal
<1>11. Goal
  BY <1>5, <1>6, <1>7, <1>8, <1>9, <1>10 DEF Step
<1> QED BY <1>1, <1>2, <1>3, <1>11 DEF Goal

\* Keys are served between characters: the text is erased, or moves with the
\* buffer that is used.
LEMMA KeyTold ==
  ASSUME Nesting = FALSE, Story, Clear \/ Hide \/ Show
  PROVE  /\ Quiet /\ Quiet' /\ before' = before /\ raced' = raced
         /\ Clear => row' = 0 /\ \A i \in Cell : cells'[buffer'][i] = Empty
         /\ Hide \/ Show => row' = row /\ cells'[buffer'] = cells[buffer]
<1>1. buffer \in Buffers /\ cells \in [Buffers -> [Cell -> Marks]]
      /\ raced \in BOOLEAN
  BY DEF Story, ShapeInv, Types, Drawn
<1>2. Quiet /\ UNCHANGED <<pc, before>>
  BY DEF Clear, Hide, Show, MayStart, locals
<1>3. Quiet' /\ raced' = raced
  BY <1>1, <1>2 DEF Quiet, Clear, Hide, Show, Racing, Story
<1>4. Clear => row' = 0 /\ \A i \in Cell : cells'[buffer'][i] = Empty
  BY <1>1 DEF Clear
<1>5. Hide => row' = row /\ cells'[buffer'] = cells[buffer]
  BY <1>1 DEF Hide, Hidden, Buffers
<1>6. Show => row' = row /\ cells'[buffer'] = cells[buffer]
  BY <1>1 DEF Show, Text, Buffers
<1> QED BY <1>2, <1>3, <1>4, <1>5, <1>6

LEMMA ErasedMeasured ==
  ASSUME NEW t, \A i \in Cell : t[i] = Empty
  PROVE  Measured(t) /\ RowText(t, 0) = <<>>
<1>1. ASSUME NEW r \in Nat, r < Rows
      PROVE  /\ \E n \in 0 .. Cols : IsLength(t, r, n)
             /\ RowText(t, r) = <<>>
  <2>1. \A c \in 0 .. Cols - 1 : t[r * Cols + c] = Empty
    BY <1>1, RowCell
  <2> QED BY <2>1, ClearedRow
<1>2. 0 \in Nat /\ 0 < Rows /\ \A r \in 0 .. Rows - 1 : r \in Nat /\ r < Rows
  BY Sizes
<1> QED BY <1>1, <1>2 DEF Measured

LEMMA StoryNext ==
  ASSUME Nesting = FALSE, Story, [Next]_vars
  PROVE  Story'
<1>1. ShapeInv'
  BY ShapeNext DEF Story
<1>2. Inked'
  <2>1. Types' /\ Drawn'
    BY <1>1 DEF ShapeInv
  <2>2. Lined'
    BY <2>1 DEF Drawn
  <2> QED BY <2>1, <2>2, PensNext, PaperNext DEF Story, Inked
<1>3. /\ before \in Seq(Seq(Chars)) /\ Len(before) \in 1 .. Rows
      /\ Measured(cells[buffer]) /\ ~raced /\ raced \in BOOLEAN
      /\ pc \in [Writers -> Pc]
  BY DEF Story, Telling, Inked, Types, Numbers
<1>4. ASSUME NEW w \in Writers, Step(w)
      PROVE  ~raced' /\ Telling'
  <2>1. /\ before' = before /\ Measured(cells'[buffer']) /\ raced' = raced
        /\ Account(pc'[w], next'[w], line'[w], row', before, cells'[buffer'])
        /\ \A v \in Writers \ {w} : pc'[v] = "idle"
    BY <1>4, StepTold
  <2>2. before' \in Seq(Seq(Chars)) /\ Len(before') \in 1 .. Rows
    BY <1>3, <2>1
  <2>3. Account(pc'[w], next'[w], line'[w], row', before', cells'[buffer'])
    BY <2>1
  <2>4. Telling'
    BY <2>1, <2>2, <2>3, OneTells
  <2> QED BY <1>3, <2>1, <2>4
<1>5. ASSUME NEW w \in Writers, NEW ch \in Chars \cup {NewLine}, Begin(w, ch)
      PROVE  ~raced' /\ Telling'
  <2>1. /\ Quiet /\ UNCHANGED <<cells, buffer, row>>
        /\ before' \in Seq(Seq(Chars)) /\ Len(before') \in 1 .. Rows
        /\ Account(pc'[w], next'[w], line'[w], row', before', cells[buffer])
    BY <1>5, BeginTold
  <2>2. ~raced' /\ \A v \in Writers \ {w} : pc'[v] = "idle"
    BY <1>3, <1>5, <2>1 DEF Begin, Racing, Goto, Quiet
  <2>3. /\ Measured(cells'[buffer'])
        /\ Account(pc'[w], next'[w], line'[w], row', before', cells'[buffer'])
    BY <1>3, <2>1
  <2>4. Telling'
    BY <2>1, <2>2, <2>3, OneTells
  <2> QED BY <2>2, <2>4
<1>6. ASSUME Clear \/ Hide \/ Show
      PROVE  ~raced' /\ Telling'
  <2>1. /\ Quiet' /\ before' = before /\ raced' = raced
        /\ \/ \A i \in Cell : cells'[buffer'][i] = Empty
           \/ cells'[buffer'] = cells[buffer]
    BY <1>6, KeyTold
  <2>2. Measured(cells'[buffer'])
    BY <1>3, <2>1, ErasedMeasured
  <2>3. \A w \in Writers : pc'[w] = "idle"
    BY <2>1 DEF Quiet
  <2>4. Key \in Writers /\ before' \in Seq(Seq(Chars))
        /\ Len(before') \in 1 .. Rows
    BY <1>3, <2>1, KeyWrites
  <2>5. Account(pc'[Key], next'[Key], line'[Key], row', before',
                cells'[buffer'])
    BY <2>3, <2>4 DEF Account, InLine
  <2>6. Telling'
    BY <2>2, <2>3, <2>4, <2>5, OneTells
  <2> QED BY <1>3, <2>1, <2>6
<1>7. ASSUME UNCHANGED vars
      PROVE  ~raced' /\ Telling'
  <2>1. UNCHANGED <<cells, buffer, pc, next, line, row, before, raced>>
    BY <1>7 DEF vars, text, locals
  <2>2. \A w \in Writers :
          Account(pc'[w], next'[w], line'[w], row', before', cells'[buffer'])
    BY <2>1 DEF Story, Telling, Told
  <2>3. Telling'
    BY <1>3, <2>1, <2>2 DEF Telling, Told
  <2> QED BY <1>3, <2>1, <2>3
<1>8. ~raced' /\ Telling'
  BY <1>4, <1>5, <1>6, <1>7 DEF Next
<1> QED BY <1>1, <1>2, <1>8 DEF Story

LEMMA StoryInit ==
  ASSUME Init
  PROVE  Story /\ Lines(cells[buffer]) = Abstract!Blank
<1>1. ShapeInv /\ ~raced
  BY ShapeInit DEF Init, Start
<1>2. /\ cells = [b \in Buffers |-> [i \in Cell |-> Empty]] /\ buffer = "vga"
      /\ "vga" \in Buffers /\ row = 0 /\ before = << <<>> >>
      /\ \A w \in Writers : pc[w] = "idle"
      /\ char \in [Writers -> Chars \cup {NewLine}]
  BY DEF Init, Start, Buffers
<1>3. Paper /\ Pens
  BY <1>2 DEF Paper, Pens, Ink, Inking, InLine
<1>4. Inked
  BY <1>1, <1>3 DEF Inked, ShapeInv, Drawn
<1> DEFINE t == cells[buffer]
<1>5. Measured(t) /\ RowText(t, 0) = <<>>
  <2>1. \A i \in Cell : t[i] = Empty
    BY <1>2
  <2> HIDE DEF t
  <2> QED BY <2>1, ErasedMeasured
<1>6. before \in Seq(Seq(Chars)) /\ Len(before) \in 1 .. Rows
  BY <1>2, Sizes
<1>7. \A w \in Writers : Told(w)
  BY <1>2, ToldIdle
<1>8. Lines(t) = << <<>> >>
  <2> HIDE DEF t
  <2>1. Lines(t) = [r \in 1 .. 1 |-> RowText(t, r - 1)]
    BY <1>2 DEF Lines
  <2>2. \A r \in 1 .. 1 : r - 1 = 0
    OBVIOUS
  <2>3. Lines(t) = [r \in 1 .. 1 |-> <<>>]
    BY <1>5, <2>1, <2>2
  <2> QED BY <2>3
<1> QED BY <1>1, <1>4, <1>5, <1>6, <1>7, <1>8 DEF Story, Telling, Abstract!Blank

-----------------------------------------------------------------------------
\* The step that completes a character is a step of the abstract console; the
\* others leave its lines as they are, but for the key that erases them.
LEMMA ConsoleSteps ==
  ASSUME Nesting = FALSE, Story, [Next]_vars
  PROVE  LET shown == IF Quiet THEN Lines(cells[buffer]) ELSE before IN
         \/ shown' = shown \/ shown' = Abstract!Blank
         \/ \E ch \in Chars \cup {NewLine} : shown' = Abstract!Printed(shown, ch)
<1> DEFINE shown == IF Quiet THEN Lines(cells[buffer]) ELSE before
           Goal == \/ shown' = shown \/ shown' = Abstract!Blank
                   \/ \E ch \in Chars \cup {NewLine} :
                        shown' = Abstract!Printed(shown, ch)
<1>1. ASSUME NEW w \in Writers, NEW ch \in Chars \cup {NewLine}, Begin(w, ch)
      PROVE  Goal
  <2>1. Quiet /\ before' = Lines(cells[buffer])
    BY <1>1, BeginTold
  <2>2. pc'[w] # "idle"
    BY <1>1 DEF Begin, Goto, Story, ShapeInv, Types, Numbers
  <2> QED BY <2>1, <2>2 DEF Quiet
<1>2. ASSUME NEW w \in Writers, Step(w)
      PROVE  Goal
  <2>1. /\ before' = before /\ pc[w] # "idle"
        /\ \A v \in Writers \ {w} : pc[v] = "idle" /\ pc'[v] = "idle"
    BY <1>2, StepTold
  <2>2. ~Quiet
    BY <2>1 DEF Quiet
  <2>3. CASE MoveCursor(w)
    <3>1. pc[w] = "cursor" /\ UNCHANGED <<cells, buffer, row>>
      BY <2>3 DEF MoveCursor, At
    <3>2. PICK ch \in Chars \cup {NewLine} :
             TextOf(cells[buffer], row + 1) = C!Printed(before, ch)
      BY <2>1, <3>1, StoryAt DEF Account
    <3>3. Lines(cells[buffer])' = TextOf(cells[buffer], row + 1)
      BY <3>1 DEF Lines, TextOf
    <3>4. C!Printed(before, ch) = Abstract!Printed(before, ch)
      BY DEF C!Printed, C!Added, C!Opened, C!Kept, Abstract!Printed,
             Abstract!Added, Abstract!Opened, Abstract!Kept
    <3>5. Lines(cells[buffer])' = Abstract!Printed(before, ch)
      BY <3>2, <3>3, <3>4
    <3>6. Quiet'
      <4>1. pc'[w] = "idle"
        BY <2>3 DEF MoveCursor, Story, ShapeInv, Types, Numbers
      <4> QED BY <2>1, <4>1 DEF Quiet
    <3>7. shown = before /\ shown' = Lines(cells[buffer])'
      BY <2>2, <3>6
    <3> HIDE DEF shown
    <3>8. shown' = Abstract!Printed(shown, ch)
      BY <3>5, <3>7
    <3> QED BY <3>8
  <2>4. CASE ~MoveCursor(w)
    <3>1. pc'[w] # "idle"
      BY <1>2, <2>4 DEF Step, Newline, LookAtRow, IncRow, Scroll, Wipe, Aim,
         Store, IncCol, Goto, Story, ShapeInv, Types, Numbers
    <3>2. ~Quiet'
      BY <3>1 DEF Quiet
    <3> QED BY <2>1, <2>2, <3>2
  <2> QED BY <2>3, <2>4
<1>3. ASSUME Clear \/ Hide \/ Show
      PROVE  Goal
  <2>1. /\ Quiet /\ Quiet'
        /\ Clear => row' = 0 /\ \A i \in Cell : cells'[buffer'][i] = Empty
        /\ Hide \/ Show => row' = row /\ cells'[buffer'] = cells[buffer]
    BY <1>3, KeyTold
  <2>2. CASE Clear
    <3> DEFINE u == cells'[buffer']
    <3>1. RowText(u, 0) = <<>>
      <4>1. \A i \in Cell : u[i] = Empty
        BY <2>1, <2>2
      <4> HIDE DEF u
      <4> QED BY <4>1, ErasedMeasured
    <3>2. Lines(cells[buffer])' = TextOf(u, row' + 1)
      BY DEF Lines, TextOf
    <3> HIDE DEF u
    <3>3. TextOf(u, row' + 1) = [r \in 1 .. 1 |-> RowText(u, r - 1)]
      BY <2>1, <2>2 DEF TextOf
    <3>4. \A r \in 1 .. 1 : r - 1 = 0
      OBVIOUS
    <3>5. TextOf(u, row' + 1) = [r \in 1 .. 1 |-> <<>>]
      BY <3>1, <3>3, <3>4
    <3>6. shown' = Lines(cells[buffer])'
      BY <2>1
    <3>7. Abstract!Blank = [r \in 1 .. 1 |-> <<>>]
      BY DEF Abstract!Blank
    <3> HIDE DEF shown
    <3>8. shown' = Abstract!Blank
      BY <3>2, <3>5, <3>6, <3>7
    <3> QED BY <3>8
  <2>3. CASE Hide \/ Show
    <3>1. Lines(cells[buffer])' = Lines(cells[buffer])
      BY <2>1, <2>3 DEF Lines
    <3> QED BY <2>1, <3>1
  <2> QED BY <1>3, <2>2, <2>3
<1>4. ASSUME UNCHANGED vars
      PROVE  Goal
  <2>1. UNCHANGED <<cells, buffer, pc, row, before>>
    BY <1>4 DEF vars, text
  <2>2. Lines(cells[buffer])' = Lines(cells[buffer]) /\ (Quiet' <=> Quiet)
    BY <2>1 DEF Lines, Quiet
  <2> QED BY <2>1, <2>2
<1> HIDE DEF Goal
<1>5. Goal
  BY <1>1, <1>2, <1>3, <1>4 DEF Next
<1> QED BY <1>5 DEF Goal

\* Printing on the text console is printing on the abstract one, if handlers
\* start only between two characters: on every screen a character is one step,
\* taken when it is complete, at the end of the last line, which is continued
\* below when it is full; the text moves up when there is no room for that; and
\* hiding and showing the console lose none of it (screen.c:43-130).
THEOREM TextScreenImplementsConsole ==
  ASSUME Nesting = FALSE
  PROVE  Spec => ImplementsConsole
<1>1. Init => /\ Story
              /\ (IF Quiet THEN Lines(cells[buffer]) ELSE before) = Abstract!Blank
  <2> SUFFICES ASSUME Init
               PROVE  /\ Story
                      /\ (IF Quiet THEN Lines(cells[buffer]) ELSE before)
                            = Abstract!Blank
    OBVIOUS
  <2>1. Quiet
    BY DEF Init, Start, Quiet
  <2> QED BY <2>1, StoryInit
<1>2. Story /\ [Next]_vars => Story'
  BY StoryNext
<1>3. Story /\ [Next]_vars =>
        [\/ Abstract!Erase
         \/ \E ch \in Chars \cup {NewLine} : Abstract!Put(ch)]_(
           IF Quiet THEN Lines(cells[buffer]) ELSE before)
  BY ConsoleSteps DEF Abstract!Erase, Abstract!Put
<1> QED BY <1>1, <1>2, <1>3, PTL DEF Spec, ImplementsConsole, Abstract!ConsoleSpec

-----------------------------------------------------------------------------
\* The rest of the type invariant.
Rest == /\ enabled \in BOOLEAN /\ cursor \in Nat
        /\ before \in Seq(Seq(Chars))

Typed == Inked /\ Unraced /\ Rest /\ (Nesting = FALSE => Story)

LEMMA TypedNext ==
  ASSUME Typed, [Next]_vars
  PROVE  Typed'
<1>1. Types' /\ Unraced' /\ Lined'
  BY UnracedNext, LinedNext DEF Typed, Inked
<1>2. Inked'
  BY <1>1, PensNext, PaperNext DEF Typed, Inked
<1>3. Nesting = FALSE => Story'
  BY StoryNext DEF Typed
<1>4. before' \in Seq(Seq(Chars))
  <2>1. CASE Nesting = FALSE
    BY <1>3, <2>1 DEF Story, Telling
  <2>2. CASE Nesting # FALSE
    BY <2>2, ScreenAssumption DEF Typed, Rest, Next, Step, Begin, Newline,
       LookAtRow, IncRow, Scroll, Wipe, Aim, Store, IncCol, MoveCursor, Clear,
       Hide, Show, vars
  <2> QED BY <2>1, <2>2
<1>5. row * Cols + col \in Nat
  BY Sizes DEF Typed, Inked, Types, Numbers
<1>6. enabled' \in {enabled, TRUE, FALSE} /\ cursor' \in {cursor, 0, row * Cols + col}
  <2> DEFINE Goal == /\ enabled' \in {enabled, TRUE, FALSE}
                     /\ cursor' \in {cursor, 0, row * Cols + col}
  <2>1. ASSUME NEW w \in Writers, NEW ch \in Chars \cup {NewLine}, Begin(w, ch)
        PROVE  Goal
    BY <2>1 DEF Begin, text
  <2>2. ASSUME NEW w \in Writers, Step(w)
        PROVE  Goal
    BY <2>2 DEF Step, Newline, LookAtRow, IncRow, Scroll, Wipe, Aim, Store,
       IncCol, MoveCursor, text
  <2>3. ASSUME Clear \/ Hide \/ Show
        PROVE  Goal
    BY <2>3 DEF Clear, Hide, Show
  <2>4. ASSUME UNCHANGED vars
        PROVE  Goal
    BY <2>4 DEF vars, text
  <2> HIDE DEF Goal
  <2>5. Goal
    BY <2>1, <2>2, <2>3, <2>4 DEF Next
  <2> QED BY <2>5 DEF Goal
<1>7. enabled' \in BOOLEAN /\ cursor' \in Nat
  <2>1. enabled \in BOOLEAN /\ cursor \in Nat /\ 0 \in Nat
    BY DEF Typed, Rest
  <2>2. cursor' \in Nat
    BY <1>5, <1>6, <2>1
  <2>3. enabled' \in BOOLEAN
    BY <1>6, <2>1, Zenon
  <2> QED BY <2>2, <2>3
<1> QED BY <1>1, <1>2, <1>3, <1>4, <1>7 DEF Typed, Rest

\* The type invariant, for every screen and with or without nested handlers:
\* whatever races there are, the buffer the console uses holds characters and
\* cleared cells only, and what is about to be stored is a character.
THEOREM TextScreenTyped == Spec => []TypeOK
<1>1. Init => Typed
  <2> SUFFICES ASSUME Init PROVE Typed
    OBVIOUS
  <2>1. Story
    BY StoryInit
  <2>2. Rest
    <3>1. 0 \in Nat /\ before \in Seq(Seq(Chars))
      BY <2>1 DEF Story, Telling
    <3> QED BY <3>1 DEF Init, Start, Rest
  <2> QED BY <2>1, <2>2 DEF Typed, Story, ShapeInv
<1>2. Typed /\ [Next]_vars => Typed'
  BY TypedNext
<1>3. Typed => TypeOK
  <2>1. Ink \cup {Pattern} = Chars \cup {Empty, Pattern}
    BY DEF Ink
  <2> QED BY <2>1 DEF Typed, Rest, Inked, Types, Numbers, Lined, Paper, Pens, TypeOK
<1> QED BY <1>1, <1>2, <1>3, PTL DEF Spec
=============================================================================
