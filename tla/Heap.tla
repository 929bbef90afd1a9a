-------------------------------- MODULE Heap --------------------------------
(***************************************************************************)
(* The kernel heap: sbrk (newlib_calls.c) on top of the page allocator     *)
(* (alloc.c), from the state init_mem (main.c) leaves behind.              *)
(*                                                                         *)
(* sbrk is called by the boot thread ("main") and by the keyboard          *)
(* interrupt ("isr"), whose handler prints and reads directories and so    *)
(* allocates.  The handler runs with interrupts off and to its end, so     *)
(* "main" only moves while no "isr" call is in progress; an "isr" call may *)
(* start between any two steps of a "main" call.                           *)
(*                                                                         *)
(* Physical pages are numbered from 0; "frame" f is the page BasePage + f, *)
(* the one bit f of the bitmap stands for.  The bitmap `map` is the set of *)
(* its bits that are 1.  Virtual pages are numbered from the heap's base,  *)
(* 0xE0000000, and `size` is counted in pages (the code keeps it in bytes, *)
(* always a multiple of the unit).  malloc_tpts has storage for more page  *)
(* tables than init_mem's set_state enters into the page directory: an     *)
(* entry in one of the others maps nothing, and alloc_page does not look.  *)
(***************************************************************************)
EXTENDS Integers

CONSTANTS
  WordBits,      \* bits of a bitmap word (32)
  CastBits,      \* bits of the uint16_t that free_page's mask is cast to (16)
  ScanRange,     \* words alloc_page's uint8_t index can reach (256)
  CopiedBits,    \* bits of the boot bitmap that init_mem copies (8 words)
  BitmapPages,   \* pages init_mem allocates for the bitmap
  BasePage,      \* physical page of bit 0 (0x800, that is 8 MB)
  AddrPages,     \* pages of the 32-bit address space (2^20)
  Entries,       \* page-table entries malloc_tpts has storage for (2048)
  TableSize,     \* entries of one page table (1024)
  Numpts,        \* malloc_data.numpts: page tables in the directory (1)
  HeapBase,      \* address of the heap's first page (0xE0000000)
  Unit,          \* bytes of a page (4096)
  Requests,      \* increments passed to sbrk
  RamSizes,      \* values init_mem may give total_range
  Contexts       \* callers: {"main"} or {"main", "isr"}

ASSUME SizesAssumption ==
  /\ {WordBits, CastBits, ScanRange, CopiedBits, BasePage, AddrPages,
      Entries, TableSize, HeapBase, Unit} \subseteq Nat \ {0}
  /\ BitmapPages \in Nat /\ Numpts \in Nat
  /\ RamSizes \subseteq Nat \ {0}
  /\ Requests \subseteq Nat
  /\ "main" \in Contexts /\ Contexts \subseteq {"main", "isr"}

\* The bitmap's own frames lie in the copied, low part of its first word.
ASSUME BitmapAssumption == BitmapPages <= CastBits /\ CastBits <= WordBits
                           /\ BitmapPages <= CopiedBits

\* Every frame the scan can find, and the limit free_page computes when the
\* scan can fail, fit the 32-bit physical address space.
ASSUME AddressAssumption ==
  /\ ScanRange * WordBits * WordBits + BasePage < AddrPages
  /\ Entries < AddrPages
  /\ HeapBase + Entries * Unit < AddrPages * Unit

\* An increment is a 32-bit number of bytes.
ASSUME IncrementAssumption == \A incr \in Requests : incr < AddrPages * Unit

VARIABLES
  total_range,   \* pages of RAM, as init_mem takes them from multiboot
  reserved,      \* the bits set when the heap came up (history variable)
  map,           \* the bits set now
  pt,            \* page table of the heap: physical page, 0 = not present
  size,          \* sbrk's static `size`, in pages
  rest,          \* sbrk's static `rest`: unused bytes of the last page
  pc,            \* where each context is in its call of sbrk
  req,           \* the call's increment, first page and number of pages
  n,             \* alloc_page's loop counter: pages mapped so far
  free,          \* alloc_page's `free`: a word number, then a frame
  k,             \* free_page's loop counter: pages given back so far
  ret,           \* the address the call that ended last has answered, with
                 \* the bytes it was asked for (0 bytes if it was refused)
  overlap,       \* an "isr" call started inside a "main" call (history)
  undone         \* a failed call has given frames back (history)

setup == <<total_range, reserved>>
heap  == <<map, pt, size, rest>>
loops == <<n, free, k>>
vars  == <<setup, heap, pc, req, loops, ret, overlap, undone>>

AddrBytes == AddrPages * Unit

\* Words alloc_page compares its index with, and the frames it can find.
Words == total_range \div WordBits
Reach == (IF Words < ScanRange THEN Words ELSE ScanRange) * WordBits
Frame == 0 .. ScanRange * WordBits - 1

\* A bit that free_page also clears when it frees another frame of its word.
Fragile(f) == f % WordBits >= CastBits

\* Faults: definitions of this module as a likely mistake leaves them; none is
\* part of the specification.
WholeWord(f)      == {g \in Frame : g \div WordBits = f \div WordBits}
NoBits(f)         == {}
OnePageTooMany(b) == b \div Unit + 1
Retries(c)        == "word"
FromBase(c)       == k[c]
AllButLast(c)     == k[c] + 2 < n[c]
Unwrapped(c)      == rest + req[c].pages * Unit - req[c].incr
NewBreak(c)       == size * Unit - rest + req[c].incr

\* The bits `map[bit >> 5] &= (uint16_t)~(1 << (bit & 31))` clears: the mask
\* has no bits above CastBits, so all of those go, and bit f itself.
ClearedBits(f) ==
  {g \in Frame : g = f \/ (g \div WordBits = f \div WordBits /\ Fragile(g))}

\* free_page only touches a physical page of the pool; the limit is computed
\* in 32 bits from total_range * 4096 * 32.
Limit == (total_range * WordBits + BasePage) % AddrPages
InPool(phys) == phys >= BasePage /\ phys < Limit

Pc == {"idle", "word", "bit", "mark", "map", "undo", "fail", "check",
       "spin", "wild"}

NoRequest == [incr |-> 0, first |-> 0, pages |-> 0]

\* The answer of a call that is refused: address 0, not (void *)-1.
Refusal == [addr |-> 0, len |-> 0]

Running(c) == c = "main" => \A d \in Contexts \ {"main"} : pc[d] = "idle"

At(c, p) == Running(c) /\ pc[c] = p

Goto(c, p) == pc' = [pc EXCEPT ![c] = p]

\* sbrk is left and its locals are gone.
Leave(c) == /\ Goto(c, "idle")
            /\ req' = [req EXCEPT ![c] = NoRequest]
            /\ n' = [n EXCEPT ![c] = 0]
            /\ free' = [free EXCEPT ![c] = 0]
            /\ k' = [k EXCEPT ![c] = 0]

-----------------------------------------------------------------------------
\* init_mem: the bitmap's frames are marked and only CopiedBits bits of the
\* boot bitmap reach the new one; what follows is whatever that RAM holds.
Init ==
  /\ total_range \in RamSizes
  /\ \E garbage \in SUBSET {f \in Frame : f >= CopiedBits} :
        reserved = (0 .. BitmapPages - 1) \cup garbage
  /\ map = reserved
  /\ pt = [p \in 0 .. Entries - 1 |-> 0]
  /\ size = 0 /\ rest = 0
  /\ pc = [c \in Contexts |-> "idle"]
  /\ req = [c \in Contexts |-> NoRequest]
  /\ n = [c \in Contexts |-> 0] /\ free = n /\ k = n
  /\ ret = Refusal
  /\ overlap = FALSE /\ undone = FALSE

\* for(n = 0; n < size; n++): the next page of the request, or the end.
AfterPage(done, pages) == IF done < pages THEN "word" ELSE "check"

-----------------------------------------------------------------------------
\* sbrk is entered: the bytes that `rest` does not cover, in 32 bits, rounded
\* up to pages, and the call of alloc_page at the end of the heap.
PagesFor(bytes) == bytes \div Unit + (IF bytes % Unit # 0 THEN 1 ELSE 0)

Enter(c, incr) ==
  /\ At(c, "idle")
  /\ LET allocp == PagesFor((incr - rest) % AddrBytes)
     IN /\ req' = [req EXCEPT ![c] =
                     [incr |-> incr, first |-> size, pages |-> allocp]]
        /\ Goto(c, AfterPage(0, allocp))
  /\ overlap' = (overlap \/ \E d \in Contexts \ {c} : pc[d] # "idle")
  /\ UNCHANGED <<setup, heap, loops, ret, undone>>

WordFull(w) == \A f \in Frame : f \div WordBits = w => f \in map

\* The first loop of alloc_page: the first word with a bit to spare.
FindWord(c) ==
  /\ At(c, "word")
  /\ \E w \in 0 .. ScanRange - 1 :
        /\ w < Words /\ ~WordFull(w)
        /\ \A v \in 0 .. w - 1 : WordFull(v)
        /\ free' = [free EXCEPT ![c] = w]
  /\ Goto(c, "bit")
  /\ UNCHANGED <<setup, heap, req, n, k, ret, overlap, undone>>

\* No word has one: give back the n pages this call has mapped, and fail.
GivesUp(c) == IF n[c] > 0 THEN "undo" ELSE "fail"

Exhausted(c) ==
  /\ At(c, "word")
  /\ Words < ScanRange
  /\ \A w \in 0 .. Words - 1 : WordFull(w)
  /\ Goto(c, GivesUp(c))
  /\ UNCHANGED <<setup, heap, req, loops, ret, overlap, undone>>

\* The uint8_t index wraps before it reaches total_range / 32: no exit.
Spin(c) ==
  /\ At(c, "word")
  /\ Words >= ScanRange
  /\ \A w \in 0 .. ScanRange - 1 : WordFull(w)
  /\ Goto(c, "spin")
  /\ UNCHANGED <<setup, heap, req, loops, ret, overlap, undone>>

\* The second loop reads the word again: its first clear bit, or, if the word
\* has filled up meanwhile, `free` is left as the number of the word.
FindBit(c) ==
  /\ At(c, "bit")
  /\ LET w == free[c]
     IN \E f \in Frame :
          /\ \/ /\ f \div WordBits = w /\ f \notin map
                /\ \A g \in Frame : g \div WordBits = w /\ g < f => g \in map
             \/ WordFull(w) /\ f = w
          /\ free' = [free EXCEPT ![c] = f]
  /\ Goto(c, "mark")
  /\ UNCHANGED <<setup, heap, req, n, k, ret, overlap, undone>>

Mark(c) ==
  /\ At(c, "mark")
  /\ map' = map \cup {free[c]}
  /\ Goto(c, "map")
  /\ UNCHANGED <<setup, pt, size, rest, req, loops, ret, overlap, undone>>

\* pt_set_entry and invlpg, then the loop's next round.
MapPage(c) ==
  /\ At(c, "map")
  /\ req[c].first + n[c] < Entries
  /\ pt' = [pt EXCEPT ![req[c].first + n[c]] = free[c] + BasePage]
  /\ n' = [n EXCEPT ![c] = n[c] + 1]
  /\ Goto(c, AfterPage(n[c] + 1, req[c].pages))
  /\ UNCHANGED <<setup, map, size, rest, req, free, k, ret, overlap, undone>>

\* The entry lies behind the last page table: data->pts[2] is no pointer of
\* the table, and nothing is known of what follows.
MapWild(c) ==
  /\ At(c, "map")
  /\ req[c].first + n[c] >= Entries
  /\ Goto(c, "wild")
  /\ UNCHANGED <<setup, heap, req, loops, ret, overlap, undone>>

\* One round of free_page's loop.
UndonePage(c) == req[c].first + k[c]
MoreToUndo(c) == k[c] + 1 < n[c]

Undo(c) ==
  /\ At(c, "undo")
  /\ LET p    == UndonePage(c)
         phys == pt[p]
     IN IF InPool(phys)
        THEN /\ map' = map \ ClearedBits(phys - BasePage)
             /\ pt' = [pt EXCEPT ![p] = 0]
             /\ undone' = TRUE
        ELSE UNCHANGED <<map, pt, undone>>
  /\ k' = [k EXCEPT ![c] = k[c] + 1]
  /\ Goto(c, IF MoreToUndo(c) THEN "undo" ELSE "fail")
  /\ UNCHANGED <<setup, size, rest, req, n, free, ret, overlap>>

\* alloc_page returned 0: sbrk sets errno and returns 0.
Fail(c) ==
  /\ At(c, "fail")
  /\ ret' = Refusal
  /\ Leave(c)
  /\ UNCHANGED <<setup, heap, overlap, undone>>

\* alloc_page returned the address it was given.  sbrk compares it with
\* 0xE0000000 + size once more: `size` may have been read before the call or
\* may be read after it, the order of the operands is the compiler's.
OldBreak(c) == size * Unit - rest
NewRest(c)  == (rest + req[c].pages * Unit - req[c].incr) % AddrBytes

Return(c) ==
  /\ At(c, "check")
  /\ \E again \in {req[c].first, size} :
        IF req[c].first = again
        THEN /\ ret' = [addr |-> (HeapBase + OldBreak(c)) % AddrBytes,
                        len |-> req[c].incr]
             /\ size' = (size + req[c].pages) % AddrPages
             /\ rest' = NewRest(c)
        ELSE ret' = Refusal /\ UNCHANGED <<size, rest>>
  /\ Leave(c)
  /\ UNCHANGED <<setup, map, pt, overlap, undone>>

\* A context that spins or has written through a wild pointer stays there.
Hung ==
  /\ \E c \in Contexts : pc[c] \in {"spin", "wild"}
  /\ UNCHANGED vars

Step(c) == \/ FindWord(c) \/ Exhausted(c) \/ Spin(c) \/ FindBit(c) \/ Mark(c)
           \/ MapPage(c) \/ MapWild(c) \/ Undo(c) \/ Fail(c) \/ Return(c)

Next == \/ \E c \in Contexts : Step(c) \/ \E incr \in Requests : Enter(c, incr)
        \/ Hung

Spec == Init /\ [][Next]_vars

\* The processor goes on executing a call that has been entered.
FairSpec == Spec /\ \A c \in Contexts : WF_vars(Step(c))

-----------------------------------------------------------------------------
\* Type invariant.
TypeOK ==
  /\ total_range \in RamSizes
  /\ reserved \subseteq Frame /\ map \subseteq Frame
  /\ pt \in [0 .. Entries - 1 -> 0 .. AddrPages - 1]
  /\ size \in 0 .. AddrPages - 1 /\ rest \in 0 .. AddrBytes - 1
  /\ pc \in [Contexts -> Pc]
  /\ req \in [Contexts -> [incr : Nat, first : 0 .. AddrPages - 1, pages : Nat]]
  /\ n \in [Contexts -> Nat] /\ free \in [Contexts -> Nat]
  /\ k \in [Contexts -> Nat]
  /\ ret \in [addr : 0 .. AddrBytes - 1, len : Nat]
  /\ overlap \in BOOLEAN /\ undone \in BOOLEAN

Page == 0 .. Entries - 1
Present(p) == pt[p] # 0
FrameOf(p) == pt[p] - BasePage

\* The tables set_state has put into the page directory, and the pages that the
\* processor finds through it.
Directory == 0 .. Numpts - 1
Behind(p) == p \div TableSize \notin Directory
Translated(p) == Present(p) /\ ~Behind(p)

AllIdle == \A c \in Contexts : pc[c] = "idle"

\* Two heap pages never share a frame (alloc.c:61-89).  The one way it happens
\* without nested calls: a failed allocation has been rolled back, and
\* free_page's 16-bit mask (alloc.c:53) has freed, with the frame it meant,
\* the frames of the upper half of the same bitmap word.
Exclusive ==
  ~overlap => \A p, q \in Page :
     p # q /\ Present(p) /\ pt[p] = pt[q] => undone /\ Fragile(FrameOf(p))

\* The frames that hold the bitmap itself are never handed out to the heap,
\* nor marked free by a rollback (main.c:438-440, alloc.c:53, 66-77).
BitmapProtected ==
  ~overlap => /\ 0 .. BitmapPages - 1 \subseteq map
              /\ \A p \in Page : Present(p) => FrameOf(p) >= BitmapPages

\* Every page below the break sbrk has announced is mapped, also after later
\* calls have failed and been rolled back (newlib_calls.c:93-110); but for the
\* pages behind the directory, from 4 MB on (numpts is 1, main.c:52): those are
\* granted all the same, with an entry in malloc_tpts that maps nothing.
HeapBacked ==
  ~overlap => \A p \in 0 .. size - 1 :
                 p \in Page /\ (Translated(p) \/ (Behind(p) /\ Present(p)))

\* The break lies in the last page of the heap: sbrk's two counters do not
\* drift apart, whatever increments it was called with.
BreakInLastPage == ~overlap => rest < Unit /\ (size = 0 => rest = 0)

\* Between calls no page beyond the break has an entry: a failed call has taken
\* back every page it had entered (alloc.c:70).
NothingBeyondBreak ==
  ~overlap /\ AllIdle => \A p \in Page : Present(p) => p < size

\* Between calls no frame is lost: a bit that is set was set when the heap
\* came up, or a page of the heap uses its frame.
NoFrameLost ==
  ~overlap /\ AllIdle =>
     \A f \in map : f \in reserved \/ \E p \in Page : pt[p] = f + BasePage

\* What sbrk promises (newlib_calls.c:93-110): each answer is the old break and
\* the break moves up by what was asked, or it is address 0 and nothing changes.
\* That a refusal is 0 is sbrk's own convention, not the C library's, which
\* tests for (void *)-1.
Abstract == INSTANCE Brk WITH brk <- size * Unit - rest, Base <- HeapBase
ImplementsBrk == Abstract!BrkSpec

\* Every call of sbrk returns, unless it runs off the page tables or the pool
\* has so many words that the 8-bit scan index cannot pass them all.
CallsReturn ==
  \A c \in Contexts :
     pc[c] # "idle" ~> \/ pc[c] \in {"idle", "wild"}
                       \/ pc[c] = "spin" /\ Words >= ScanRange
=============================================================================
