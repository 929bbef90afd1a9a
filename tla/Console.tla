------------------------------ MODULE Console ------------------------------
(***************************************************************************)
(* What a program that prints expects of the console: the text is a list   *)
(* of lines, a character goes to the end of the last one, a full line is   *)
(* continued on the next, and only the last Rows lines are kept.  Hiding   *)
(* the console and showing it again is not visible here: the text stays.   *)
(***************************************************************************)
EXTENDS Naturals, Sequences

CONSTANTS Rows, Cols, Chars, NewLine

VARIABLE lines

Blank == << <<>> >>

Kept(ls) == IF Len(ls) > Rows THEN Tail(ls) ELSE ls

\* A full line is continued on the next one.
Opened(ls) == IF Len(ls[Len(ls)]) = Cols THEN Kept(Append(ls, <<>>)) ELSE ls

Added(ls, ch) == [ls EXCEPT ![Len(ls)] = Append(ls[Len(ls)], ch)]

Printed(ls, ch) == IF ch = NewLine THEN Kept(Append(ls, <<>>))
                   ELSE Added(Opened(ls), ch)

Put(ch) == lines' = Printed(lines, ch)

Erase == lines' = Blank

ConsoleSpec ==
  lines = Blank /\ [][Erase \/ \E ch \in Chars \cup {NewLine} : Put(ch)]_lines
=============================================================================
