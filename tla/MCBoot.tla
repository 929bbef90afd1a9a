------------------------------- MODULE MCBoot -------------------------------
(***************************************************************************)
(* Boot on a few machines.  On most of them two keys are hit at any time,  *)
(* those with a command; on the last one four are at the end, every key.   *)
(***************************************************************************)
EXTENDS Boot

Drives(a, b, c, d) == [u \in Unit |-> <<a, b, c, d>>[u + 1]]

Plain == [loader |-> TRUE, fb |-> "text",
          drives |-> Drives("ata", "none", "none", "none"),
          ext2 |-> FALSE, volume |-> TRUE,
          hit |-> {"one", "f7"}, early |-> 2, late |-> 2]

With(m, drives) == [m EXCEPT !.drives = drives]

MCMachines ==
  { Plain,
    [Plain EXCEPT !.loader = FALSE],
    [Plain EXCEPT !.fb = "huge"],
    [Plain EXCEPT !.fb = "other"],
    [Plain EXCEPT !.fb = "rgb", !.hit = {"lshift", "d"}, !.ext2 = TRUE],
    [Plain EXCEPT !.fb = "none", !.hit = {"lshift", "d"}, !.ext2 = TRUE],
    [Plain EXCEPT !.hit = {"lshift", "x"}],
    [Plain EXCEPT !.volume = FALSE],
    With(Plain, Drives("none", "none", "none", "none")),
    With(Plain, Drives("ata", "atapi", "none", "ata")),
    With(Plain, Drives("atapi", "ata", "none", "none")),
    With([Plain EXCEPT !.ext2 = TRUE], Drives("none", "ata", "atapi", "ata")),
    With([Plain EXCEPT !.ext2 = TRUE], Drives("none", "none", "ata", "ata")),
    [Plain EXCEPT !.ext2 = TRUE, !.early = 0, !.late = 4,
                  !.hit = {"lshift", "rshift", "ctrl", "rctrl", "caps", "prtsc",
                           "pause", "up", "x", "one"}] }
=============================================================================
