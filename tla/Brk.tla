-------------------------------- MODULE Brk --------------------------------
(***************************************************************************)
(* What sbrk promises its caller: one program break that only moves up, by *)
(* exactly the bytes asked for, and an answer that is the address of the   *)
(* old break, or 0 for a call that is refused and changes nothing.         *)
(*                                                                         *)
(* The 0 is the kernel's choice (newlib_calls.c:104).  The C library tests *)
(* for the pointer -1, so one that looks no further takes a refusal for    *)
(* a grant at address 0: this module says how sbrk and a caller that knows *)
(* its convention agree, not that the library is such a caller.            *)
(***************************************************************************)
EXTENDS Naturals

CONSTANTS Requests,      \* the increments the library may pass
          Base           \* the address of the heap's first byte, never 0

VARIABLES brk,           \* bytes handed out so far, counted from the base
          ret            \* the answer of the call that ended last

brkVars == <<brk, ret>>

Refusal == [addr |-> 0, len |-> 0]

BrkInit == brk = 0 /\ ret = Refusal

Grow(incr) == /\ brk' = brk + incr
              /\ ret' = [addr |-> Base + brk, len |-> incr]

Refuse == brk' = brk /\ ret' = Refusal

BrkNext == Refuse \/ \E incr \in Requests : Grow(incr)

BrkSpec == BrkInit /\ [][BrkNext]_brkVars
=============================================================================
