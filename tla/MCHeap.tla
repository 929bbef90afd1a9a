------------------------------- MODULE MCHeap -------------------------------
(***************************************************************************)
(* Instances of Heap for TLC.  Words of 4 bits, of which free_page's mask  *)
(* covers 2; a scan index that reaches 3 words; two page tables of 3       *)
(* entries, of which the first is in the page directory.                   *)
(* The RAM sizes give one, two and three words of bitmap: the third makes  *)
(* the scan index wrap.                                                    *)
(***************************************************************************)
EXTENDS Heap

MCRamSizes == {5, 9, 12}
MCRequests == {1, 2, 5}
MCNestedRam == {5, 9}
MCNestedRequests == {1, 5}
MCSerial   == {"main"}
MCNested   == {"main", "isr"}

\* Nothing is claimed of what follows a "main" call that a nested call has
\* disturbed: it is explored until that call is over.
UntilUnwound == overlap => pc["main"] # "idle"
=============================================================================
