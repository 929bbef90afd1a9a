---------------------------- MODULE MCInterrupts ----------------------------
(***************************************************************************)
(* Interrupts around the seconds at which the calendar carries.            *)
(***************************************************************************)
EXTENDS Interrupts

At(h, m, s, d, mo, y) ==
  [s |-> s, m |-> m, h |-> h, d |-> d, mo |-> mo, y |-> y]

Mode(bcd, h24) == [bcd |-> bcd, h24 |-> h24]

MCStarts == {<<At(11, 59, 59, 1, 3, 24), Mode(TRUE, FALSE)>>,
             <<At(23, 59, 59, 29, 2, 24), Mode(FALSE, FALSE)>>,
             <<At(23, 59, 58, 31, 12, 27), Mode(TRUE, TRUE)>>,
             <<At(23, 59, 59, 31, 12, 99), Mode(FALSE, TRUE)>>}
=============================================================================
