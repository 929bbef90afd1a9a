----------------------------- MODULE HeapProofs -----------------------------
(***************************************************************************)
(* The heap is sound for every size of RAM, bitmap word, page table and    *)
(* address space, as long as no call of sbrk is nested in another.         *)
(*                                                                         *)
(* Type correctness holds for nested calls too and is inductive once the   *)
(* scan's result is known to be a frame (TypeInv).  The other invariants   *)
(* need each other: that frames are exclusive needs their bits to be set   *)
(* (FramesMarked), that pages survive a rollback needs the pages beyond    *)
(* the break to belong to the call that is running (PagesOwned), and that  *)
(* a rollback takes everything back needs the pool's limit not to have     *)
(* wrapped (RollbackReachesPool).  IInv is their conjunction.              *)
(***************************************************************************)
EXTENDS Heap, TLAPS

\* Arithmetic of the 32-bit counters: a remainder is below its modulus, ...
LEMMA ModRange ==
  ASSUME NEW a \in Int, NEW b \in Nat \ {0}
  PROVE  a % b \in 0 .. b - 1
  OBVIOUS

\* ... a quotient of naturals is a natural, ...
LEMMA DivRange ==
  ASSUME NEW a \in Nat, NEW b \in Nat \ {0}
  PROVE  a \div b \in Nat
  OBVIOUS

\* ... the two give the number back, ...
LEMMA DivMod ==
  ASSUME NEW a \in Nat, NEW b \in Nat \ {0}
  PROVE  a = b * (a \div b) + (a % b)
  OBVIOUS

\* ... and multiplication keeps the order.
LEMMA MulMono ==
  ASSUME NEW a \in Nat, NEW b \in Nat, NEW c \in Nat, a <= b
  PROVE  a * c <= b * c /\ a * c \in Nat /\ b * c \in Nat
  OBVIOUS

\* What the assumptions say of the constants, in the form the steps use.
LEMMA Consts ==
  /\ WordBits \in Nat \ {0} /\ CastBits \in Nat \ {0}
  /\ ScanRange \in Nat \ {0} /\ CopiedBits \in Nat \ {0}
  /\ BasePage \in Nat \ {0} /\ AddrPages \in Nat \ {0}
  /\ Entries \in Nat \ {0} /\ Unit \in Nat \ {0} /\ BitmapPages \in Nat
  /\ HeapBase \in Nat \ {0}
  /\ AddrBytes \in Nat \ {0}
  /\ "main" \in Contexts /\ Contexts \subseteq {"main", "isr"}
  /\ Requests \subseteq Nat
  BY SizesAssumption DEF AddrBytes

\* A frame has a physical page, not 0, in the 32-bit address space
\* (AddressAssumption; alloc.c:78-86).
LEMMA FrameBound ==
  ASSUME NEW f \in Frame
  PROVE  /\ f \in Nat /\ f + BasePage \in 1 .. AddrPages - 1
         /\ f + BasePage # 0 /\ (f + BasePage) - BasePage = f
  <1> USE Consts
  <1>1. ScanRange * WordBits \in Nat
    OBVIOUS
  <1>2. ScanRange * WordBits <= ScanRange * WordBits * WordBits
    BY <1>1, MulMono
  <1> QED BY <1>1, <1>2, AddressAssumption DEF Frame

-----------------------------------------------------------------------------
(* Type correctness.  A frame number must be one of the bitmap's by the     *)
(* time it is marked and mapped, or the page table would not be typed.      *)

TypeInv == /\ TypeOK
           /\ \A c \in Contexts : pc[c] \in {"mark", "map"} => free[c] \in Frame

Request == [incr : Nat, first : 0 .. AddrPages - 1, pages : Nat]

\* An idle context has a well-typed request.
LEMMA NoRequestType == NoRequest \in Request
  BY Consts DEF NoRequest, Request

Answer == [addr : 0 .. AddrBytes - 1, len : Nat]

\* A refused call's answer is an address too.
LEMMA RefusalType == Refusal \in Answer
  BY Consts DEF Refusal, Answer

\* init_mem leaves well-typed state behind (main.c:433-445).
LEMMA TypeInit == Init => TypeInv
<1> SUFFICES ASSUME Init PROVE TypeInv
  OBVIOUS
<1> USE Consts
<1>1. /\ pc \in [Contexts -> Pc] /\ \A c \in Contexts : pc[c] = "idle"
      /\ n \in [Contexts -> Nat] /\ free \in [Contexts -> Nat]
      /\ k \in [Contexts -> Nat]
  BY DEF Init, Pc
<1>2. req \in [Contexts -> Request]
  BY NoRequestType DEF Init
<1>3. reserved \subseteq Frame
  <2>1. 0 .. BitmapPages - 1 \subseteq Frame
    <3>1. WordBits <= ScanRange * WordBits
      BY MulMono
    <3> QED BY <3>1, BitmapAssumption DEF Frame
  <2> QED BY <2>1 DEF Init
<1>4. pt \in [0 .. Entries - 1 -> 0 .. AddrPages - 1]
  BY DEF Init
<1>5. ret \in [addr : 0 .. AddrBytes - 1, len : Nat]
  BY RefusalType DEF Init, Answer
<1>6. /\ total_range \in RamSizes /\ map \subseteq Frame
      /\ size \in 0 .. AddrPages - 1 /\ rest \in 0 .. AddrBytes - 1
  BY <1>3 DEF Init
<1>7. overlap \in BOOLEAN /\ undone \in BOOLEAN
  BY DEF Init
<1> QED BY <1>1, <1>2, <1>3, <1>4, <1>5, <1>6, <1>7
       DEF TypeInv, TypeOK, Request

\* Every step of every context keeps the types.
LEMMA TypeNext == TypeInv /\ [Next]_vars => TypeInv'
<1> SUFFICES ASSUME TypeInv, [Next]_vars PROVE TypeInv'
  OBVIOUS
<1> USE DEF TypeInv, TypeOK, setup, heap, loops
<1>1. ASSUME NEW c \in Contexts, NEW incr \in Requests, Enter(c, incr)
      PROVE  TypeInv'
  <2> DEFINE allocmin == (incr - rest) % AddrBytes
             allocp == allocmin \div Unit + (IF allocmin % Unit # 0 THEN 1 ELSE 0)
             new == [incr |-> incr, first |-> size, pages |-> allocp]
             p == AfterPage(0, allocp)
  <2>1. allocp \in Nat
    <3>1. incr - rest \in Int
      BY Consts
    <3>2. allocmin \in Nat
      BY <3>1, ModRange, Consts
    <3> HIDE DEF allocmin
    <3>3. allocmin \div Unit \in Nat
      BY <3>2, DivRange, Consts
    <3> QED BY <3>3
  <2>2. req' = [req EXCEPT ![c] = new] /\ pc' = [pc EXCEPT ![c] = p]
    BY <1>1 DEF Enter, PagesFor, Goto
  <2> HIDE DEF allocp
  <2>3. new \in [incr : Nat, first : 0 .. AddrPages - 1, pages : Nat]
        /\ p \in Pc \ {"mark", "map"}
    BY <2>1, Consts DEF AfterPage, Pc
  <2> HIDE DEF new, p
  <2>4. /\ req' \in [Contexts -> [incr : Nat, first : 0 .. AddrPages - 1, pages : Nat]]
        /\ pc' \in [Contexts -> Pc]
        /\ \A d \in Contexts : pc'[d] \in {"mark", "map"} => pc[d] = pc'[d]
    BY <2>2, <2>3
  <2>5. overlap' \in BOOLEAN
    BY <1>1 DEF Enter, PagesFor
  <2> QED BY <1>1, <2>4, <2>5 DEF Enter, PagesFor
<1>2. ASSUME NEW c \in Contexts, FindWord(c)
      PROVE  TypeInv'
  <2>1. PICK w \in 0 .. ScanRange - 1 : free' = [free EXCEPT ![c] = w]
    BY <1>2 DEF FindWord
  <2> QED BY <1>2, <2>1 DEF FindWord, Goto, Pc
<1>3. ASSUME NEW c \in Contexts, Exhausted(c)
      PROVE  TypeInv'
  BY <1>3 DEF Exhausted, GivesUp, Goto, Pc
<1>4. ASSUME NEW c \in Contexts, Spin(c)
      PROVE  TypeInv'
  BY <1>4 DEF Spin, Goto, Pc
<1>5. ASSUME NEW c \in Contexts, FindBit(c)
      PROVE  TypeInv'
  <2>1. PICK f \in Frame : free' = [free EXCEPT ![c] = f]
    BY <1>5 DEF FindBit
  <2> QED BY <1>5, <2>1, FrameBound DEF FindBit, Goto, Pc
<1>6. ASSUME NEW c \in Contexts, Mark(c)
      PROVE  TypeInv'
  BY <1>6 DEF Mark, At, Goto, Pc
<1>7. ASSUME NEW c \in Contexts, MapPage(c)
      PROVE  TypeInv'
  <2>1. free[c] + BasePage \in 0 .. AddrPages - 1
    <3>1. free[c] \in Frame
      BY <1>7 DEF MapPage, At
    <3> HIDE DEF TypeInv, TypeOK
    <3> QED BY <3>1, FrameBound, Consts
  <2>2. pt' \in [0 .. Entries - 1 -> 0 .. AddrPages - 1]
    BY <1>7, <2>1 DEF MapPage
  <2>3. /\ pc' \in [Contexts -> Pc] /\ n' \in [Contexts -> Nat]
        /\ \A d \in Contexts : pc'[d] \in {"mark", "map"} => pc'[d] = pc[d]
    BY <1>7 DEF MapPage, AfterPage, Goto, Pc
  <2> QED BY <1>7, <2>2, <2>3 DEF MapPage
<1>8. ASSUME NEW c \in Contexts, MapWild(c)
      PROVE  TypeInv'
  BY <1>8 DEF MapWild, Goto, Pc
<1>9. ASSUME NEW c \in Contexts, Undo(c)
      PROVE  TypeInv'
  <2>1. map' \subseteq Frame
    BY <1>9 DEF Undo, UndonePage, MoreToUndo
  <2>2. pt' \in [0 .. Entries - 1 -> 0 .. AddrPages - 1]
    <3>1. CASE pt' = pt
      BY <3>1
    <3>2. CASE pt' = [pt EXCEPT ![req[c].first + k[c]] = 0]
      <4>1. 0 \in 0 .. AddrPages - 1
        BY Consts
      <4> QED BY <3>2, <4>1
    <3> QED BY <1>9, <3>1, <3>2 DEF Undo, UndonePage, MoreToUndo
  <2>3. undone' \in BOOLEAN
    BY <1>9 DEF Undo, UndonePage, MoreToUndo
  <2>4. /\ pc' \in [Contexts -> Pc] /\ k' \in [Contexts -> Nat]
        /\ \A d \in Contexts : pc'[d] \in {"mark", "map"} => pc'[d] = pc[d]
    BY <1>9 DEF Undo, UndonePage, MoreToUndo, Goto, Pc
  <2> QED BY <1>9, <2>1, <2>2, <2>3, <2>4 DEF Undo, UndonePage, MoreToUndo
<1>l. ASSUME NEW c \in Contexts, Leave(c)
      PROVE  /\ pc' \in [Contexts -> Pc]
             /\ req' \in [Contexts -> Request]
             /\ n' \in [Contexts -> Nat] /\ free' \in [Contexts -> Nat]
             /\ k' \in [Contexts -> Nat]
             /\ \A d \in Contexts :
                   pc'[d] \in {"mark", "map"} => pc[d] = pc'[d] /\ free'[d] = free[d]
  BY <1>l, NoRequestType DEF Leave, Goto, Pc, Request
<1>10. ASSUME NEW c \in Contexts, Fail(c)
       PROVE  TypeInv'
  <2>1. ret' \in [addr : 0 .. AddrBytes - 1, len : Nat]
    BY <1>10, RefusalType DEF Fail, Answer
  <2>2. Leave(c)
    BY <1>10 DEF Fail
  <2> QED BY <1>10, <1>l, <2>1, <2>2 DEF Fail, Request
<1>11. ASSUME NEW c \in Contexts, Return(c)
       PROVE  TypeInv'
  <2>1. /\ size' \in 0 .. AddrPages - 1 /\ rest' \in 0 .. AddrBytes - 1
        /\ ret' \in [addr : 0 .. AddrBytes - 1, len : Nat]
    <3>1. /\ size + req[c].pages \in Int
          /\ rest + req[c].pages * Unit - req[c].incr \in Int
          /\ HeapBase + (size * Unit - rest) \in Int /\ req[c].incr \in Nat
      <4>1. /\ size \in Int /\ rest \in Int /\ Unit \in Int
            /\ req[c].pages \in Int /\ req[c].incr \in Nat
            /\ HeapBase \in Int
        BY Consts
      <4> HIDE DEF TypeInv, TypeOK
      <4> QED BY <4>1
    <3>2. /\ (size + req[c].pages) % AddrPages \in 0 .. AddrPages - 1
          /\ (rest + req[c].pages * Unit - req[c].incr) % AddrBytes
               \in 0 .. AddrBytes - 1
          /\ (HeapBase + (size * Unit - rest)) % AddrBytes \in 0 .. AddrBytes - 1
      BY <3>1, ModRange, Consts
    <3>3. CASE ret' = Refusal /\ UNCHANGED <<size, rest>>
      BY <3>3, RefusalType DEF Answer
    <3>4. CASE /\ ret' = [addr |-> (HeapBase + (size * Unit - rest)) % AddrBytes,
                          len |-> req[c].incr]
               /\ size' = (size + req[c].pages) % AddrPages
               /\ rest' = (rest + req[c].pages * Unit - req[c].incr) % AddrBytes
      BY <3>1, <3>2, <3>4
    <3> QED BY <1>11, <3>3, <3>4 DEF Return, OldBreak, NewRest
  <2> QED BY <1>11, <1>l, <2>1 DEF Return, OldBreak, NewRest, Request
<1>12. CASE UNCHANGED vars
  BY <1>12 DEF vars
<1> QED BY <1>1, <1>2, <1>3, <1>4, <1>5, <1>6, <1>7, <1>8, <1>9, <1>10,
           <1>11, <1>12 DEF Next, Step, Hung

\* The heap's variables keep their types in every behaviour, nested calls of
\* sbrk from the keyboard interrupt included (alloc.c, newlib_calls.c:93-110).
THEOREM TypeCorrect == Spec => []TypeOK
<1>1. TypeInv => TypeOK
  BY DEF TypeInv
<1> QED BY <1>1, TypeInit, TypeNext, PTL DEF Spec

-----------------------------------------------------------------------------
(* Safety.  While no call has been nested in another, exactly one call is   *)
(* in progress at a time, it works at the end of the heap, and what it has  *)
(* mapped there is accounted for by its loop counters.                      *)

OneCall ==
  ~overlap => \A c, d \in Contexts : c # d => pc[c] = "idle" \/ pc[d] = "idle"

Pool == BitmapPages .. Reach - 1

\* A frame in use is marked, unless a rollback has wrongly cleared its bit.
Marked(f) == f \in map \/ (undone /\ Fragile(f))

FramesMarked ==
  ~overlap => \A p \in Page :
     Present(p) => FrameOf(p) \in Pool /\ Marked(FrameOf(p))

\* What a call has mapped so far: its pages first+from .. first+n-1.
MappedFrom(c, from) ==
  \A p \in size + from .. size + n[c] - 1 : p \in Page /\ Present(p)

CallOK(c) ==
  /\ pc[c] = "idle" => n[c] = 0 /\ k[c] = 0
  /\ pc[c] # "idle" => req[c].first = size
  /\ pc[c] \in {"word", "bit", "mark", "map"} =>
        n[c] < req[c].pages /\ MappedFrom(c, 0)
  /\ pc[c] \in {"word", "bit", "mark", "map"} => k[c] = 0
  /\ pc[c] = "check" => n[c] = req[c].pages /\ MappedFrom(c, 0)
  /\ pc[c] = "bit" => /\ free[c] \in 0 .. ScanRange - 1 /\ free[c] < Words
                      /\ ~WordFull(free[c])
  /\ pc[c] = "mark" => free[c] \in Pool \ map
  /\ pc[c] = "map" => /\ free[c] \in Pool \cap map
                      /\ \A p \in Page : pt[p] = free[c] + BasePage =>
                            undone /\ Fragile(free[c])
  /\ pc[c] = "undo" => Words < ScanRange /\ k[c] < n[c] /\ MappedFrom(c, k[c])

CallsOK == ~overlap => \A c \in Contexts : CallOK(c)

\* A page beyond the break belongs to the call in progress.
Owner(c, p) == /\ pc[c] \notin {"idle", "fail"}
               /\ p < size + n[c]
               /\ pc[c] = "undo" => p >= size + k[c]

PagesOwned ==
  ~overlap => \A p \in Page :
     Present(p) /\ p >= size => \E c \in Contexts : Owner(c, p)

IInv == /\ TypeInv /\ OneCall /\ FramesMarked /\ Exclusive /\ BitmapProtected
        /\ HeapBacked /\ CallsOK /\ PagesOwned

\* A number below the modulus is its own remainder.
LEMMA ModSmall ==
  ASSUME NEW a \in Nat, NEW b \in Nat \ {0}, a < b
  PROVE  a % b = a
  OBVIOUS

\* The scan only finds frames below Reach, and Reach frames fit the pool.
LEMMA ReachFacts ==
  ASSUME TypeInv
  PROVE  /\ Words \in Nat /\ Reach \in Nat /\ Reach <= ScanRange * WordBits
         /\ \A f \in Frame, w \in 0 .. ScanRange - 1 :
               w < Words /\ f \div WordBits = w => f < Reach
         /\ Words < ScanRange => Reach <= total_range
                                 /\ total_range < ScanRange * WordBits
<1> DEFINE m == IF Words < ScanRange THEN Words ELSE ScanRange
<1>1. total_range \in Nat
  BY SizesAssumption DEF TypeInv, TypeOK
<1>2. Words \in Nat
  BY <1>1, DivRange, Consts DEF Words
<1>3. m \in Nat /\ m <= ScanRange /\ (Words < ScanRange => m = Words)
  BY <1>2, Consts
<1>4. Reach = m * WordBits
  BY DEF Reach
<1> HIDE DEF m
<1>5. Reach \in Nat /\ Reach <= ScanRange * WordBits
  BY <1>3, <1>4, MulMono, Consts
<1>6. ASSUME NEW f \in Frame, NEW w \in 0 .. ScanRange - 1,
             w < Words, f \div WordBits = w
      PROVE  f < Reach
  <2>1. f = WordBits * w + (f % WordBits) /\ f % WordBits \in 0 .. WordBits - 1
    <3>1. f \in Nat
      BY FrameBound
    <3>2. f = WordBits * (f \div WordBits) + (f % WordBits)
      BY <3>1, DivMod, Consts
    <3>3. f % WordBits \in 0 .. WordBits - 1
      BY <3>1, ModRange, Consts
    <3> QED BY <1>6, <3>2, <3>3
  <2>2. w + 1 <= m /\ w + 1 \in Nat
    BY <1>2, <1>6, Consts DEF m
  <2>3. (w + 1) * WordBits <= m * WordBits
    BY <2>2, <1>3, MulMono, Consts
  <2>4. (w + 1) * WordBits = WordBits * w + WordBits
    BY <2>2, Consts
  <2> QED BY <2>1, <2>3, <2>4, <1>4, <1>5, Consts
<1>7. ASSUME Words < ScanRange
      PROVE  Reach <= total_range /\ total_range < ScanRange * WordBits
  <2>1. /\ total_range = WordBits * Words + (total_range % WordBits)
        /\ total_range % WordBits \in 0 .. WordBits - 1
    BY <1>1, DivMod, ModRange, Consts DEF Words
  <2>2. Reach = WordBits * Words
    BY <1>2, <1>3, <1>4, <1>7, Consts
  <2>3. (Words + 1) * WordBits <= ScanRange * WordBits
    BY <1>2, <1>7, MulMono, Consts
  <2>4. (Words + 1) * WordBits = WordBits * Words + WordBits
    BY <1>2, Consts
  <2> QED BY <2>1, <2>2, <2>3, <2>4, <1>1, <1>5, Consts
<1> QED BY <1>2, <1>5, <1>6, <1>7

\* When the scan can fail at all, the 32-bit limit of free_page has not
\* wrapped: a rollback skips no frame of the pool (alloc.c:49-51).
LEMMA RollbackReachesPool ==
  ASSUME TypeInv, Words < ScanRange, NEW f \in Nat, f < Reach
  PROVE  InPool(f + BasePage)
<1>1. total_range \in Nat
  BY SizesAssumption DEF TypeInv, TypeOK
<1>2. f < total_range /\ total_range < ScanRange * WordBits
  BY <1>1, ReachFacts
<1>3. /\ total_range * WordBits \in Nat
      /\ total_range <= total_range * WordBits
  BY <1>1, Consts
<1>4. /\ ScanRange * WordBits \in Nat /\ ScanRange * WordBits * WordBits \in Nat
      /\ total_range * WordBits <= ScanRange * WordBits * WordBits
  <2>1. ScanRange * WordBits \in Nat
    BY Consts
  <2> QED BY <2>1, <1>1, <1>2, MulMono, Consts
<1>5. total_range * WordBits + BasePage < AddrPages
  BY <1>3, <1>4, AddressAssumption, Consts
<1>6. Limit = total_range * WordBits + BasePage
  BY <1>3, <1>5, ModSmall, Consts DEF Limit
<1> QED BY <1>1, <1>2, <1>3, <1>6, Consts DEF InPool

\* The bitmap's frames are in the half of a word free_page's mask keeps
\* (alloc.c:53, BitmapAssumption).
LEMMA BitmapNotFragile ==
  ASSUME NEW f \in 0 .. BitmapPages - 1
  PROVE  ~Fragile(f) /\ f \in Frame
<1>1. f \in Nat /\ f < CastBits /\ f < WordBits
  BY BitmapAssumption, Consts
<1>2. f % WordBits = f
  BY <1>1, ModSmall, Consts
<1>3. WordBits <= ScanRange * WordBits /\ ScanRange * WordBits \in Nat
  BY MulMono, Consts
<1> QED BY <1>1, <1>2, <1>3, Consts DEF Fragile, Frame

\* The empty heap satisfies the invariant (main.c:433-445).
LEMMA InvInit == Init => IInv
<1> SUFFICES ASSUME Init PROVE IInv
  OBVIOUS
<1>1. TypeInv
  BY TypeInit
<1>2. /\ \A p \in Page : ~Present(p)
      /\ \A c \in Contexts : pc[c] = "idle"
  BY DEF Init, Page, Present
<1>3. size = 0 /\ 0 .. BitmapPages - 1 \subseteq map
  BY DEF Init
<1>4. HeapBacked
  BY <1>3 DEF HeapBacked, Translated
<1>5. CallsOK
  BY <1>2 DEF Init, CallsOK, CallOK
<1>6. Exclusive /\ FramesMarked /\ PagesOwned
  BY <1>2 DEF Exclusive, FramesMarked, PagesOwned
<1>7. BitmapProtected /\ OneCall
  BY <1>2, <1>3 DEF BitmapProtected, OneCall
<1> QED BY <1>1, <1>4, <1>5, <1>6, <1>7 DEF IInv

\* While no call is nested, a step finds and leaves the other context idle.
LEMMA Solo ==
  ASSUME IInv, NEW c \in Contexts, Step(c), ~overlap'
  PROVE  /\ ~overlap /\ pc[c] # "idle" /\ CallOK(c)
         /\ \A d \in Contexts : d # c => pc[d] = "idle" /\ pc'[d] = "idle"
         /\ \A d \in Contexts : d # c => n'[d] = 0 /\ k'[d] = 0
         /\ setup' = setup /\ pc' \in [Contexts -> Pc]
<1>1. overlap' = overlap /\ setup' = setup
  BY DEF Step, FindWord, Exhausted, GivesUp, Spin, FindBit, Mark, MapPage,
         MapWild, Undo, UndonePage, MoreToUndo, Fail, Return, OldBreak, NewRest,
         setup
<1>2. pc[c] # "idle" /\ \E p : pc' = [pc EXCEPT ![c] = p]
  BY DEF Step, FindWord, Exhausted, GivesUp, Spin, FindBit, Mark, MapPage,
         MapWild, Undo, UndonePage, MoreToUndo, Fail, Return, OldBreak, NewRest,
         At, Goto, Leave
<1>3. \A d \in Contexts : d # c => pc[d] = "idle"
  BY <1>1, <1>2 DEF IInv, OneCall
<1>4. pc \in [Contexts -> Pc]
  BY DEF IInv, TypeInv, TypeOK
<1>5. [Next]_vars
  BY DEF Next
<1>6. pc' \in [Contexts -> Pc]
  BY <1>5, TypeNext DEF IInv, TypeInv, TypeOK
<1>7. n \in [Contexts -> Nat] /\ k \in [Contexts -> Nat]
  BY DEF IInv, TypeInv, TypeOK
<1>8. /\ n' = n \/ \E x : n' = [n EXCEPT ![c] = x]
      /\ k' = k \/ \E x : k' = [k EXCEPT ![c] = x]
  BY DEF Step, FindWord, Exhausted, GivesUp, Spin, FindBit, Mark, MapPage,
         MapWild, Undo, UndonePage, MoreToUndo, Fail, Return, OldBreak, NewRest,
         Leave, loops
<1>9. \A d \in Contexts : d # c => n'[d] = n[d] /\ k'[d] = k[d]
  BY <1>7, <1>8
<1>10. \A d \in Contexts : d # c => n[d] = 0 /\ k[d] = 0
  BY <1>1, <1>3 DEF IInv, CallsOK, CallOK
<1> QED BY <1>1, <1>2, <1>3, <1>4, <1>6, <1>9, <1>10 DEF IInv, CallsOK

\* So it is enough to look at the call that takes the step.
LEMMA Alone ==
  ASSUME NEW c \in Contexts,
         \A d \in Contexts : d # c => pc'[d] = "idle" /\ n'[d] = 0 /\ k'[d] = 0,
         CallOK(c)',
         \A p \in Page : Present(p)' /\ p >= size' => Owner(c, p)'
  PROVE  OneCall' /\ CallsOK' /\ PagesOwned'
<1>1. OneCall'
  BY DEF OneCall
<1>2. CallsOK'
  BY DEF CallsOK, CallOK
<1>3. PagesOwned'
  BY DEF PagesOwned, Page
<1> QED BY <1>1, <1>2, <1>3

\* Steps that do not touch the bitmap, the page table or sbrk's counters.
LEMMA HeapKept ==
  ASSUME IInv, UNCHANGED <<setup, heap, overlap, undone>>
  PROVE  FramesMarked' /\ Exclusive' /\ BitmapProtected' /\ HeapBacked'
<1>1. /\ total_range' = total_range /\ map' = map /\ pt' = pt /\ size' = size
      /\ overlap' = overlap /\ undone' = undone
  BY DEF setup, heap
<1>2. FramesMarked' /\ Exclusive'
  BY <1>1 DEF IInv, FramesMarked, Exclusive, Present, FrameOf, Page, Pool,
              Marked, Fragile, Reach, Words
<1>3. BitmapProtected' /\ HeapBacked'
  BY <1>1 DEF IInv, BitmapProtected, HeapBacked, Translated, Present, FrameOf, Page
<1> QED BY <1>2, <1>3

\* The scan, a failure to find a bit and a wild entry leave the heap alone
\* (alloc.c:65-76).
LEMMA ScanSteps ==
  ASSUME IInv, NEW c \in Contexts, ~overlap',
         FindWord(c) \/ Exhausted(c) \/ Spin(c) \/ FindBit(c) \/ MapWild(c)
  PROVE  IInv'
<1>s. Step(c)
  BY DEF Step
<1>1. /\ ~overlap /\ CallOK(c) /\ setup' = setup
      /\ \A d \in Contexts :
            d # c => pc[d] = "idle" /\ pc'[d] = "idle" /\ n'[d] = 0 /\ k'[d] = 0
  BY <1>s, Solo
<1>2. TypeInv'
  BY <1>s, TypeNext DEF IInv, Next
<1>3. UNCHANGED <<setup, heap, overlap, undone, req, n, k>>
  BY DEF FindWord, Exhausted, GivesUp, Spin, FindBit, MapWild, loops, setup,
         heap
<1>4. /\ map' = map /\ pt' = pt /\ size' = size /\ undone' = undone
      /\ total_range' = total_range /\ req' = req /\ n' = n /\ k' = k
  BY <1>3 DEF heap, setup
<1>5. FramesMarked' /\ Exclusive' /\ BitmapProtected' /\ HeapBacked'
  BY <1>3, HeapKept
<1>t. /\ pc \in [Contexts -> Pc] /\ free \in [Contexts -> Nat]
      /\ n \in [Contexts -> Nat] /\ size \in Nat /\ Words \in Nat
  <2>1. Words \in Nat
    BY ReachFacts DEF IInv
  <2> QED BY <2>1, Consts DEF IInv, TypeInv, TypeOK
<1>6. CallOK(c)' /\ pc[c] \in {"word", "bit", "map"} /\ pc'[c] \notin {"idle"}
      /\ (pc'[c] \in {"undo", "fail"} => Exhausted(c))
  <2> USE <1>1, <1>4, <1>t DEF CallOK, At, Goto, MappedFrom, Present, Page
  <2>1. CASE FindWord(c)
    <3>1. PICK w \in 0 .. ScanRange - 1 :
             w < Words /\ ~WordFull(w) /\ free' = [free EXCEPT ![c] = w]
      BY <2>1 DEF FindWord
    <3> QED BY <2>1, <3>1 DEF FindWord, WordFull, Words
  <2>2. CASE Exhausted(c)
    <3>1. pc[c] = "word" /\ pc'[c] = IF n[c] > 0 THEN "undo" ELSE "fail"
      BY <2>2 DEF Exhausted, GivesUp
    <3> QED BY <2>2, <3>1 DEF Exhausted, GivesUp, Words
  <2>3. CASE Spin(c)
    BY <2>3 DEF Spin
  <2>4. CASE FindBit(c)
    <3>1. PICK f \in Frame : /\ f \div WordBits = free[c] /\ f \notin map
                             /\ free' = [free EXCEPT ![c] = f]
      BY <2>4 DEF FindBit
    <3>2. f < Reach /\ f \in Nat
      BY <2>4, <3>1, ReachFacts, FrameBound DEF FindBit, IInv
    <3>3. f \in Pool
      BY <1>1, <3>1, <3>2, ReachFacts, Consts DEF IInv, BitmapProtected, Pool
    <3> QED BY <2>4, <3>1, <3>3 DEF FindBit, Pool, Reach, Words
  <2>5. CASE MapWild(c)
    BY <2>5 DEF MapWild
  <2> QED BY <2>1, <2>2, <2>3, <2>4, <2>5
<1>7. ASSUME NEW p \in Page, Present(p)', p >= size'
      PROVE  Owner(c, p)'
  <2>1. Owner(c, p)
    BY <1>1, <1>4, <1>7 DEF IInv, PagesOwned, Present, Page, Owner
  <2>2. k[c] = 0 \/ pc[c] \notin {"word", "bit", "map"}
    BY <1>1 DEF CallOK
  <2>3. n[c] > 0
    BY <1>4, <1>7, <1>t, <2>1 DEF Owner, Page
  <2>4. Exhausted(c) => pc'[c] = "undo"
    BY <1>t, <2>3 DEF Exhausted, GivesUp, Goto
  <2> QED BY <1>4, <1>6, <1>7, <1>t, <2>1, <2>2, <2>4 DEF Owner, Page
<1> QED BY <1>1, <1>2, <1>5, <1>6, <1>7, Alone DEF IInv

\* Marking a free frame disturbs no page of the heap (alloc.c:77).
LEMMA MarkStep ==
  ASSUME IInv, NEW c \in Contexts, ~overlap', Mark(c)
  PROVE  IInv'
<1>s. Step(c)
  BY DEF Step
<1>1. /\ ~overlap /\ CallOK(c) /\ setup' = setup
      /\ \A d \in Contexts :
            d # c => pc[d] = "idle" /\ pc'[d] = "idle" /\ n'[d] = 0 /\ k'[d] = 0
  BY <1>s, Solo
<1>2. TypeInv'
  BY <1>s, TypeNext DEF IInv, Next
<1>3. /\ map' = map \cup {free[c]} /\ pt' = pt /\ size' = size
      /\ undone' = undone /\ overlap' = overlap /\ total_range' = total_range
      /\ req' = req /\ n' = n /\ k' = k /\ free' = free
      /\ pc[c] = "mark" /\ pc'[c] = "map"
  BY DEF Mark, At, Goto, loops, setup, IInv, TypeInv, TypeOK
<1>4. FramesMarked' /\ Exclusive'
  BY <1>1, <1>3 DEF IInv, FramesMarked, Exclusive, Present, FrameOf, Page,
                    Pool, Marked, Fragile, Reach, Words
<1>5. BitmapProtected' /\ HeapBacked'
  BY <1>1, <1>3 DEF IInv, BitmapProtected, HeapBacked, Translated, Present, FrameOf, Page
<1>6. free[c] \in Pool \ map /\ free[c] \in Frame
  BY <1>1, <1>3 DEF CallOK, IInv, TypeInv
<1>7. ASSUME NEW p \in Page, pt[p] = free[c] + BasePage
      PROVE  undone /\ Fragile(free[c])
  BY <1>1, <1>6, <1>7, FrameBound
     DEF IInv, FramesMarked, Present, FrameOf, Marked
<1>8. CallOK(c)'
  BY <1>1, <1>3, <1>6, <1>7
     DEF CallOK, MappedFrom, Present, Page, Pool, Reach, Words, Fragile
<1>9. \A p \in Page : Present(p)' /\ p >= size' => Owner(c, p)'
  BY <1>1, <1>3 DEF IInv, PagesOwned, Present, Owner
<1> QED BY <1>1, <1>2, <1>4, <1>5, <1>8, <1>9, Alone DEF IInv

\* A page that is mapped gets a frame no other page has (alloc.c:78-86).
LEMMA MapStep ==
  ASSUME IInv, NEW c \in Contexts, ~overlap', MapPage(c)
  PROVE  IInv'
<1> DEFINE e == size + n[c]
<1>s. Step(c)
  BY DEF Step
<1>1. /\ ~overlap /\ CallOK(c) /\ setup' = setup
      /\ \A d \in Contexts :
            d # c => pc[d] = "idle" /\ pc'[d] = "idle" /\ n'[d] = 0 /\ k'[d] = 0
  BY <1>s, Solo
<1>2. TypeInv'
  BY <1>s, TypeNext DEF IInv, Next
<1>t. /\ size \in Nat /\ n[c] \in Nat /\ req[c].pages \in Nat /\ e \in Nat
      /\ pt \in [Page -> 0 .. AddrPages - 1] /\ Entries \in Nat
  <2>1. /\ size \in Nat /\ Entries \in Nat
        /\ pt \in [Page -> 0 .. AddrPages - 1]
    BY Consts DEF IInv, TypeInv, TypeOK, Page
  <2>2. n[c] \in Nat /\ req[c].pages \in Nat
    BY DEF IInv, TypeInv, TypeOK
  <2> QED BY <2>1, <2>2
<1>3. /\ map' = map /\ size' = size /\ undone' = undone /\ overlap' = overlap
      /\ total_range' = total_range
      /\ req' = req /\ k' = k /\ free' = free /\ n'[c] = n[c] + 1
      /\ pc[c] = "map" /\ pc'[c] = AfterPage(n[c] + 1, req[c].pages)
  BY DEF MapPage, At, Goto, setup, IInv, TypeInv, TypeOK
<1>4. req[c].first = size /\ n[c] < req[c].pages /\ k[c] = 0 /\ MappedFrom(c, 0)
  BY <1>1, <1>3 DEF CallOK
<1>5. e \in Page /\ pt' = [pt EXCEPT ![e] = free[c] + BasePage]
  BY <1>4, <1>t DEF MapPage, Page
<1>6. /\ free[c] \in Pool \cap map /\ free[c] \in Frame
      /\ \A p \in Page : pt[p] = free[c] + BasePage => undone /\ Fragile(free[c])
  BY <1>1, <1>3 DEF CallOK, IInv, TypeInv
<1>7. free[c] + BasePage # 0 /\ (free[c] + BasePage) - BasePage = free[c]
  BY <1>6, FrameBound
<1>8. /\ pt'[e] = free[c] + BasePage
      /\ \A p \in Page : p # e => pt'[p] = pt[p]
  BY <1>5, <1>t
<1>9. FramesMarked'
  BY <1>1, <1>3, <1>6, <1>7, <1>8
     DEF IInv, FramesMarked, Present, FrameOf, Page, Pool, Marked, Fragile,
         Reach, Words
<1>10. Exclusive'
  BY <1>1, <1>3, <1>6, <1>7, <1>8
     DEF IInv, Exclusive, Present, FrameOf, Page, Fragile
<1>11. BitmapProtected'
  <2>1. free[c] >= BitmapPages
    BY <1>6, ReachFacts, Consts DEF Pool, IInv
  <2> QED BY <1>1, <1>3, <1>7, <1>8, <2>1
          DEF IInv, BitmapProtected, Present, FrameOf, Page
<1>12. HeapBacked'
  BY <1>1, <1>3, <1>7, <1>8 DEF IInv, HeapBacked, Translated, Present, Page
<1>13. MappedFrom(c, 0)'
  <2>1. ASSUME NEW p \in size + 0 .. size + (n[c] + 1) - 1
        PROVE  p \in Page /\ Present(p)'
    <3>1. p = e \/ (p # e /\ p \in size + 0 .. size + n[c] - 1)
      BY <1>t
    <3>2. p # e => p \in Page /\ Present(p)
      BY <1>4, <3>1 DEF MappedFrom
    <3> QED BY <1>5, <1>7, <1>8, <3>2 DEF Present
  <2> QED BY <1>3, <2>1 DEF MappedFrom, Page
<1>14. CallOK(c)'
  BY <1>1, <1>3, <1>4, <1>13, <1>t DEF CallOK, AfterPage
<1>15. ASSUME NEW p \in Page, Present(p)', p >= size'
       PROVE  Owner(c, p)'
  <2>1. p < size + n[c] \/ p = e
    BY <1>1, <1>3, <1>8, <1>15 DEF IInv, PagesOwned, Present, Owner
  <2> QED BY <1>3, <1>t, <2>1 DEF Owner, AfterPage, Page
<1> QED BY <1>1, <1>2, <1>9, <1>10, <1>11, <1>12, <1>14, <1>15, Alone DEF IInv

\* A round of the rollback takes back a page of the failed call and no
\* other (alloc.c:49-58).
LEMMA UndoStep ==
  ASSUME IInv, NEW c \in Contexts, ~overlap', Undo(c)
  PROVE  IInv'
<1> DEFINE e == size + k[c]
           f == pt[e] - BasePage
<1>s. Step(c)
  BY DEF Step
<1>1. /\ ~overlap /\ CallOK(c) /\ setup' = setup
      /\ \A d \in Contexts :
            d # c => pc[d] = "idle" /\ pc'[d] = "idle" /\ n'[d] = 0 /\ k'[d] = 0
  BY <1>s, Solo
<1>2. TypeInv'
  BY <1>s, TypeNext DEF IInv, Next
<1>t. /\ size \in Nat /\ n[c] \in Nat /\ k[c] \in Nat /\ e \in Nat
      /\ pt \in [Page -> 0 .. AddrPages - 1]
  <2>1. size \in Nat /\ pt \in [Page -> 0 .. AddrPages - 1]
    BY Consts DEF IInv, TypeInv, TypeOK, Page
  <2>2. n[c] \in Nat /\ k[c] \in Nat
    BY DEF IInv, TypeInv, TypeOK
  <2> QED BY <2>1, <2>2
<1>3. /\ size' = size /\ overlap' = overlap /\ total_range' = total_range
      /\ req' = req /\ n' = n /\ k'[c] = k[c] + 1 /\ pc[c] = "undo"
      /\ pc'[c] = IF k[c] + 1 < n[c] THEN "undo" ELSE "fail"
  BY DEF Undo, UndonePage, MoreToUndo, At, Goto, setup, IInv, TypeInv, TypeOK
<1>4. /\ req[c].first = size /\ Words < ScanRange /\ k[c] < n[c]
      /\ MappedFrom(c, k[c])
  BY <1>1, <1>3 DEF CallOK
<1>5. e \in Page /\ Present(e)
  BY <1>4, <1>t DEF MappedFrom
<1>6. f \in Pool /\ pt[e] = f + BasePage
  BY <1>1, <1>5, <1>t, Consts DEF IInv, FramesMarked, FrameOf
<1>7. f \in Nat /\ f < Reach
  BY <1>6, ReachFacts, Consts DEF Pool, IInv
<1>8. InPool(pt[e])
  <2> HIDE DEF f
  <2> QED BY <1>4, <1>6, <1>7, RollbackReachesPool DEF IInv
<1>9. /\ map' = map \ ClearedBits(f) /\ pt' = [pt EXCEPT ![e] = 0]
      /\ undone' = TRUE
  BY <1>4, <1>8 DEF Undo, UndonePage, MoreToUndo
<1>10. pt'[e] = 0 /\ \A p \in Page : p # e => pt'[p] = pt[p]
  BY <1>5, <1>9, <1>t
<1> HIDE DEF f
<1>11. ASSUME NEW p \in Page, Present(p)'
       PROVE  /\ p # e /\ Present(p) /\ FrameOf(p)' = FrameOf(p)
              /\ FrameOf(p) \in Pool /\ Marked(FrameOf(p))'
  <2>1. p # e /\ Present(p) /\ pt'[p] = pt[p]
    BY <1>10, <1>11 DEF Present
  <2>2. FrameOf(p)' = FrameOf(p) /\ FrameOf(p) \in Pool /\ Marked(FrameOf(p))
    BY <1>1, <2>1 DEF IInv, FramesMarked, FrameOf
  <2>3. pt[p] \in Int /\ BasePage \in Int /\ f \in Int
    BY <1>7, <1>t, Consts
  <2>4. FrameOf(p) = f => Fragile(FrameOf(p))
    <3>1. FrameOf(p) = f => pt[p] = pt[e]
      BY <1>6, <2>3 DEF FrameOf
    <3> QED BY <1>1, <1>5, <2>1, <3>1 DEF IInv, Exclusive
  <2>5. FrameOf(p) \in ClearedBits(f) => Fragile(FrameOf(p))
    BY <2>4 DEF ClearedBits
  <2>6. ASSUME ~Fragile(FrameOf(p))
        PROVE  FrameOf(p) \in map'
    BY <1>9, <2>2, <2>5, <2>6 DEF Marked
  <2>7. Fragile(FrameOf(p))' <=> Fragile(FrameOf(p))
    BY <2>2 DEF Fragile
  <2>8. Marked(FrameOf(p))'
    BY <1>9, <2>2, <2>6, <2>7 DEF Marked
  <2> QED BY <2>1, <2>2, <2>8
<1>12. FramesMarked'
  BY <1>3, <1>11 DEF FramesMarked, Pool, Reach, Words, Page
<1>13. Exclusive'
  <2> SUFFICES ASSUME NEW p \in Page, NEW q \in Page, p # q, Present(p)',
                      pt'[p] = pt'[q]
               PROVE  undone' /\ Fragile(FrameOf(p))'
    BY DEF Exclusive, Page
  <2>1. Present(q)' /\ Present(p)
    BY <1>11 DEF Present
  <2>2. pt[p] = pt[q] /\ FrameOf(p)' = FrameOf(p)
    BY <1>10, <1>11, <2>1
  <2>3. Fragile(FrameOf(p))
    BY <1>1, <2>1, <2>2 DEF IInv, Exclusive
  <2> QED BY <1>9, <2>2, <2>3 DEF Fragile
<1>14. BitmapProtected'
  <2>1. ASSUME NEW b \in 0 .. BitmapPages - 1
        PROVE  b \in map'
    <3>1. b # f
      BY <1>6, <1>7, ReachFacts, Consts DEF Pool, IInv
    <3>2. b \notin ClearedBits(f)
      BY <3>1, BitmapNotFragile DEF ClearedBits
    <3> QED BY <1>1, <1>9, <3>2 DEF IInv, BitmapProtected
  <2>2. ASSUME NEW p \in Page, Present(p)'
        PROVE  FrameOf(p)' >= BitmapPages
    BY <1>1, <1>11, <2>2 DEF IInv, BitmapProtected
  <2> QED BY <2>1, <2>2 DEF BitmapProtected, Page
<1>15. HeapBacked'
  BY <1>1, <1>3, <1>10, <1>t DEF IInv, HeapBacked, Translated, Present, Page
<1>16. ASSUME NEW p \in e + 1 .. size + n[c] - 1
       PROVE  p \in Page /\ Present(p)'
  <2>1. p \in size + k[c] .. size + n[c] - 1 /\ p # e
    BY <1>t
  <2>2. p \in Page /\ Present(p)
    BY <1>4, <2>1 DEF MappedFrom
  <2> QED BY <1>10, <2>1, <2>2 DEF Present
<1>17. CallOK(c)'
  <2>1. size' + k'[c] = e + 1
    BY <1>3, <1>t
  <2>2. MappedFrom(c, k[c])'
    BY <1>3, <1>16, <2>1 DEF MappedFrom, Page
  <2> QED BY <1>1, <1>3, <1>4, <1>t, <2>2 DEF CallOK, Words
<1>18. ASSUME NEW p \in Page, Present(p)', p >= size'
       PROVE  Owner(c, p)'
  <2>1. Owner(c, p) /\ p # e
    BY <1>1, <1>3, <1>11, <1>18 DEF IInv, PagesOwned, Owner
  <2>2. p \in Nat
    BY Consts DEF Page
  <2> QED BY <1>3, <1>t, <2>1, <2>2 DEF Owner
<1> QED BY <1>1, <1>2, <1>12, <1>13, <1>14, <1>15, <1>17, <1>18, Alone DEF IInv

\* What a call that ends leaves of its locals.
LEMMA LeaveFacts ==
  ASSUME IInv, NEW c \in Contexts, Leave(c)
  PROVE  pc'[c] = "idle" /\ n'[c] = 0 /\ k'[c] = 0
BY DEF Leave, Goto, IInv, TypeInv, TypeOK

\* A failed call, once rolled back, has no page left (newlib_calls.c:103-106).
LEMMA FailStep ==
  ASSUME IInv, NEW c \in Contexts, ~overlap', Fail(c)
  PROVE  IInv'
<1>s. Step(c)
  BY DEF Step
<1>1. /\ ~overlap /\ CallOK(c) /\ setup' = setup
      /\ \A d \in Contexts :
            d # c => pc[d] = "idle" /\ pc'[d] = "idle" /\ n'[d] = 0 /\ k'[d] = 0
  BY <1>s, Solo
<1>2. TypeInv'
  BY <1>s, TypeNext DEF IInv, Next
<1>3. UNCHANGED <<setup, heap, overlap, undone>> /\ pc[c] = "fail" /\ Leave(c)
  BY DEF Fail, At
<1>4. FramesMarked' /\ Exclusive' /\ BitmapProtected' /\ HeapBacked'
  BY <1>3, HeapKept
<1>5. CallOK(c)'
  BY <1>3, LeaveFacts DEF CallOK
<1>6. \A p \in Page : Present(p)' /\ p >= size' => Owner(c, p)'
  BY <1>1, <1>3 DEF IInv, PagesOwned, Owner, Present, heap
<1> QED BY <1>1, <1>2, <1>4, <1>5, <1>6, Alone DEF IInv

\* A successful call moves the break over the pages it has mapped
\* (newlib_calls.c:99-109).
LEMMA ReturnStep ==
  ASSUME IInv, NEW c \in Contexts, ~overlap', Return(c)
  PROVE  IInv'
<1>s. Step(c)
  BY DEF Step
<1>1. /\ ~overlap /\ CallOK(c) /\ setup' = setup
      /\ \A d \in Contexts :
            d # c => pc[d] = "idle" /\ pc'[d] = "idle" /\ n'[d] = 0 /\ k'[d] = 0
  BY <1>s, Solo
<1>2. TypeInv'
  BY <1>s, TypeNext DEF IInv, Next
<1>t. /\ size \in Nat /\ size < AddrPages /\ n[c] \in Nat
      /\ AddrPages \in Nat \ {0} /\ Entries \in Nat /\ Entries < AddrPages
  <2>1. n[c] \in Nat
    BY DEF IInv, TypeInv, TypeOK
  <2> QED BY <2>1, Consts, AddressAssumption DEF IInv, TypeInv, TypeOK
<1>3. /\ map' = map /\ pt' = pt /\ undone' = undone /\ overlap' = overlap
      /\ total_range' = total_range /\ pc[c] = "check" /\ Leave(c)
  BY <1>1 DEF Return, OldBreak, NewRest, At, setup
<1>4. req[c].first = size /\ n[c] = req[c].pages /\ MappedFrom(c, 0)
  BY <1>1, <1>3 DEF CallOK
<1>5. size' = (size + n[c]) % AddrPages
  BY <1>4 DEF Return, OldBreak, NewRest
<1>6. size + n[c] < AddrPages
  <2>1. CASE n[c] = 0
    BY <1>t, <2>1
  <2>2. CASE n[c] # 0
    <3>1. size + n[c] - 1 \in Page
      BY <1>4, <1>t, <2>2 DEF MappedFrom
    <3> QED BY <1>t, <3>1 DEF Page
  <2> QED BY <2>1, <2>2
<1>7. size' = size + n[c]
  BY <1>5, <1>6, <1>t, ModSmall
<1>8. FramesMarked' /\ Exclusive' /\ BitmapProtected'
  BY <1>3 DEF IInv, FramesMarked, Exclusive, BitmapProtected, Present, FrameOf,
              Page, Pool, Marked, Fragile, Reach, Words
<1>9. HeapBacked'
  <2> SUFFICES ASSUME NEW p \in 0 .. size' - 1
               PROVE  p \in Page /\ Present(p)
    BY <1>3 DEF HeapBacked, Translated, Page, Present
  <2>1. CASE p < size
    BY <1>1, <1>t, <2>1 DEF IInv, HeapBacked, Translated
  <2>2. CASE p >= size
    BY <1>4, <1>7, <1>t, <2>2 DEF MappedFrom
  <2> QED BY <1>t, <2>1, <2>2
<1>10. CallOK(c)'
  BY <1>3, LeaveFacts DEF CallOK
<1>11. ASSUME NEW p \in Page
       PROVE  ~(Present(p)' /\ p >= size')
  <2>1. Present(p) /\ p >= size => p < size + n[c]
    BY <1>1 DEF IInv, PagesOwned, Owner
  <2>2. p \in Nat
    BY Consts DEF Page
  <2> QED BY <1>3, <1>7, <1>t, <2>1, <2>2 DEF Present
<1> QED BY <1>1, <1>2, <1>8, <1>9, <1>10, <1>11, Alone DEF IInv

\* A call that starts has mapped nothing yet (newlib_calls.c:93-98).
LEMMA EnterStep ==
  ASSUME IInv, NEW c \in Contexts, NEW incr \in Requests, ~overlap',
         Enter(c, incr)
  PROVE  IInv'
<1>1. ~overlap /\ \A d \in Contexts : pc[d] = "idle"
  BY DEF Enter, PagesFor, At
<1>2. TypeInv'
  BY TypeNext DEF IInv, Next
<1>3. UNCHANGED <<setup, heap, overlap, undone, n, k>>
  <2>1. overlap' = overlap
    BY <1>1 DEF Enter, PagesFor, IInv, TypeInv, TypeOK
  <2> QED BY <2>1 DEF Enter, PagesFor, loops
<1>4. FramesMarked' /\ Exclusive' /\ BitmapProtected' /\ HeapBacked'
  BY <1>3, HeapKept
<1>5. /\ \A d \in Contexts : d # c => pc'[d] = "idle"
      /\ pc'[c] = AfterPage(0, req'[c].pages) /\ req'[c].first = size
      /\ req'[c].pages \in Nat
  <2>1. req'[c].pages \in Nat
    BY <1>2 DEF TypeInv, TypeOK
  <2> QED BY <1>1, <2>1 DEF Enter, PagesFor, Goto, IInv, TypeInv, TypeOK
<1>6. \A d \in Contexts : n'[d] = 0 /\ k'[d] = 0
  BY <1>1, <1>3 DEF IInv, CallsOK, CallOK
<1>7. MappedFrom(c, 0)'
  <2>1. size \in Nat /\ size' = size
    BY <1>3, Consts DEF heap, IInv, TypeInv, TypeOK
  <2> QED BY <1>6, <2>1 DEF MappedFrom
<1>8. CallOK(c)'
  BY <1>3, <1>5, <1>6, <1>7 DEF CallOK, AfterPage, heap
<1>9. \A p \in Page : ~(Present(p)' /\ p >= size')
  BY <1>1, <1>3 DEF IInv, PagesOwned, Owner, Present, heap
<1> QED BY <1>2, <1>4, <1>5, <1>6, <1>8, <1>9, Alone DEF IInv

\* The invariant is inductive.
LEMMA InvNext == IInv /\ [Next]_vars => IInv'
<1> SUFFICES ASSUME IInv, [Next]_vars PROVE IInv'
  OBVIOUS
<1>1. CASE overlap'
  <2>1. TypeInv'
    BY TypeNext DEF IInv
  <2> QED BY <1>1, <2>1
          DEF IInv, OneCall, FramesMarked, Exclusive, BitmapProtected,
              HeapBacked, Translated, CallsOK, PagesOwned
<1>2. CASE ~overlap' /\ UNCHANGED vars
  <2>1. TypeInv'
    BY TypeNext DEF IInv
  <2>2. FramesMarked' /\ Exclusive' /\ BitmapProtected' /\ HeapBacked'
    BY <1>2, HeapKept DEF vars
  <2>3. OneCall' /\ CallsOK' /\ PagesOwned'
    BY <1>2 DEF vars, setup, heap, loops, IInv, OneCall, CallsOK, CallOK,
                PagesOwned, Owner, MappedFrom, WordFull, Words, Reach, Pool,
                Page, Present, Fragile
  <2> QED BY <2>1, <2>2, <2>3 DEF IInv
<1>3. CASE ~overlap' /\ Next
  <2>1. ASSUME NEW c \in Contexts, NEW incr \in Requests, Enter(c, incr)
        PROVE  IInv'
    BY <1>3, <2>1, EnterStep
  <2>2. ASSUME NEW c \in Contexts, Step(c)
        PROVE  IInv'
    BY <1>3, <2>2, ScanSteps, MarkStep, MapStep, UndoStep, FailStep,
       ReturnStep DEF Step
  <2>3. CASE Hung
    BY <1>2, <1>3, <2>3 DEF Hung
  <2> QED BY <1>3, <2>1, <2>2, <2>3 DEF Next
<1> QED BY <1>1, <1>2, <1>3

\* So it holds in every state.
LEMMA InvAlways == Spec => []IInv
  BY InvInit, InvNext, PTL DEF Spec

\* As long as no call is nested in another, two pages of the heap have
\* different frames, except in the upper half of a bitmap word after a
\* rollback has gone through free_page's 16-bit mask (alloc.c:43-89).
THEOREM HeapExclusive == Spec => []Exclusive
<1>1. IInv => Exclusive
  BY DEF IInv
<1> QED BY <1>1, InvAlways, PTL

\* The frames of the allocator's own bitmap are never given to the heap
\* (main.c:438-440, alloc.c:43-89).
THEOREM BitmapSafe == Spec => []BitmapProtected
<1>1. IInv => BitmapProtected
  BY DEF IInv
<1> QED BY <1>1, InvAlways, PTL

\* Every page below the break that sbrk has announced has its entry, whatever
\* calls failed afterwards, and the pages of the first numpts page tables are
\* mapped by it; the ones behind are not (newlib_calls.c:93-110, alloc.c:31-89).
THEOREM BreakBacked == Spec => []HeapBacked
<1>1. IInv => HeapBacked
  BY DEF IInv
<1> QED BY <1>1, InvAlways, PTL

\* Between calls no page beyond the break has an entry: rollbacks are complete,
\* because the limit free_page compares with cannot have wrapped when the
\* scan can fail (alloc.c:49-51, 65-71).
THEOREM RollbackComplete == Spec => []NothingBeyondBreak
<1>1. ASSUME IInv
      PROVE  NothingBeyondBreak
  <2>1. size \in Int
    BY <1>1, Consts DEF IInv, TypeInv, TypeOK
  <2>2. ASSUME ~overlap, AllIdle, NEW p \in Page, Present(p)
        PROVE  p < size
    <3>1. p \in Int /\ ~(p >= size)
      BY <1>1, <2>2 DEF IInv, PagesOwned, Owner, AllIdle, Page
    <3> QED BY <2>1, <3>1
  <2> QED BY <2>2 DEF NothingBeyondBreak
<1> QED BY <1>1, InvAlways, PTL

-----------------------------------------------------------------------------
(* The two counters of sbrk.  What a call asks of alloc_page is what `rest` *)
(* does not cover, so what is left over is less than a page, although both  *)
(* counters wrap at 32 bits.                                                *)

Uncovered(c) == (req[c].incr - rest) % AddrBytes

Counters ==
  ~overlap => /\ rest < Unit /\ (size = 0 => rest = 0)
              /\ \A c \in Contexts :
                   pc[c] # "idle" => req[c].pages = PagesFor(Uncovered(c))

\* A remainder and a multiple make up every integer, ...
LEMMA IntDivMod ==
  ASSUME NEW a \in Int, NEW b \in Nat \ {0}
  PROVE  /\ a \div b \in Int /\ a % b \in 0 .. b - 1
         /\ a = b * (a \div b) + (a % b)
  OBVIOUS

\* ... and a remainder is its own remainder, whatever multiple is added.
LEMMA ModShift ==
  ASSUME NEW b \in Nat \ {0}, NEW r \in 0 .. b - 1, NEW q \in Int
  PROVE  (r + b * q) % b = r
  OBVIOUS

\* Rounding up leaves less than a page, and no page for no bytes.
LEMMA Rounding ==
  ASSUME NEW bytes \in Nat
  PROVE  /\ PagesFor(bytes) \in Nat
         /\ PagesFor(bytes) * Unit - bytes \in 0 .. Unit - 1
         /\ PagesFor(bytes) = 0 => bytes = 0
<1>u. Unit \in Nat \ {0}
  BY Consts
<1>1. /\ bytes \div Unit \in Nat /\ bytes % Unit \in 0 .. Unit - 1
      /\ bytes = Unit * (bytes \div Unit) + (bytes % Unit)
  <2>1. bytes \div Unit \in Nat
    BY <1>u, DivRange
  <2>2. bytes % Unit \in 0 .. Unit - 1
    BY <1>u, ModRange
  <2>3. bytes = Unit * (bytes \div Unit) + (bytes % Unit)
    BY <1>u, DivMod
  <2> QED BY <2>1, <2>2, <2>3
<1> DEFINE q == bytes \div Unit
           r == bytes % Unit
<1>2. PagesFor(bytes) = IF r # 0 THEN q + 1 ELSE q
  BY <1>1, Consts DEF PagesFor
<1>3. q \in Nat /\ r \in 0 .. Unit - 1 /\ bytes = Unit * q + r
  BY <1>1
<1> HIDE DEF q, r
<1>4. (q + 1) * Unit = Unit * q + Unit /\ q * Unit = Unit * q
  BY <1>3, Consts
<1>5. Unit * q \in Nat
  BY <1>3, Consts
<1> QED BY <1>2, <1>3, <1>4, <1>5, Consts

\* The bytes left over when a call is answered.
LEMMA LeftOver ==
  ASSUME NEW incr \in Nat, NEW r \in Nat,
         NEW pages, pages = PagesFor((incr - r) % AddrBytes)
  PROVE  /\ (r + pages * Unit - incr) % AddrBytes
              = pages * Unit - ((incr - r) % AddrBytes)
         /\ pages * Unit - ((incr - r) % AddrBytes) \in 0 .. Unit - 1
<1> DEFINE x == incr - r
           a == x % AddrBytes
           s == pages * Unit - a
<1>1. x \in Int /\ a \in Nat /\ x = AddrBytes * (x \div AddrBytes) + a
      /\ x \div AddrBytes \in Int
  BY IntDivMod, Consts
<1>2. s \in 0 .. Unit - 1 /\ pages * Unit \in Nat
  BY <1>1, Rounding, Consts
<1>3. Unit <= AddrBytes
  BY Consts, MulMono DEF AddrBytes
<1>4. s \in 0 .. AddrBytes - 1
  BY <1>2, <1>3, Consts
<1>5. r + pages * Unit - incr = s + AddrBytes * (-(x \div AddrBytes))
  <2>1. AddrBytes * (-(x \div AddrBytes)) = -(AddrBytes * (x \div AddrBytes))
    BY <1>1, Consts
  <2>2. AddrBytes * (x \div AddrBytes) = x - a
    BY <1>1, Consts
  <2> QED BY <1>1, <1>2, <2>1, <2>2
<1>6. (s + AddrBytes * (-(x \div AddrBytes))) % AddrBytes = s
  <2>1. -(x \div AddrBytes) \in Int /\ AddrBytes \in Nat \ {0}
    BY <1>1, Consts
  <2> HIDE DEF s
  <2> QED BY <2>1, <1>4, ModShift
<1> QED BY <1>2, <1>5, <1>6

\* Every step keeps the counters (newlib_calls.c:93-110).
LEMMA CountersNext ==
  IInv /\ IInv' /\ Counters /\ [Next]_vars => Counters'
<1> SUFFICES ASSUME IInv, IInv', Counters, [Next]_vars, ~overlap'
             PROVE  Counters'
  BY DEF Counters
<1>t. /\ size \in Nat /\ rest \in Nat /\ rest' \in Nat
      /\ pc \in [Contexts -> Pc] /\ req \in [Contexts -> Request]
      /\ n \in [Contexts -> Nat]
  <2>1. rest \in 0 .. AddrBytes - 1 /\ rest' \in 0 .. AddrBytes' - 1
        /\ size \in 0 .. AddrPages - 1 /\ AddrBytes' = AddrBytes
    BY DEF IInv, TypeInv, TypeOK, AddrBytes
  <2>2. size \in Nat /\ rest \in Nat /\ rest' \in Nat
    BY <2>1, Consts
  <2> QED BY <2>2 DEF IInv, TypeInv, TypeOK, Request
<1>1. ASSUME NEW c \in Contexts, NEW incr \in Requests, Enter(c, incr)
      PROVE  Counters'
  <2>1. ~overlap /\ \A d \in Contexts : pc[d] = "idle"
    BY <1>1 DEF Enter, At
  <2>2. UNCHANGED <<size, rest>>
        /\ req' = [req EXCEPT ![c] = [incr |-> incr, first |-> size,
             pages |-> PagesFor((incr - rest) % AddrBytes)]]
        /\ \A d \in Contexts \ {c} : pc'[d] = "idle"
    BY <1>t, <1>1, <2>1 DEF Enter, heap, Goto
  <2>3. /\ req'[c].pages = PagesFor((incr - rest) % AddrBytes)
        /\ req'[c].incr = incr
    BY <1>t, <2>2
  <2>4. req'[c].pages = PagesFor(Uncovered(c))'
    BY <2>2, <2>3 DEF Uncovered, PagesFor
  <2> QED BY <2>1, <2>2, <2>4 DEF Counters
<1>2. ASSUME NEW c \in Contexts, Return(c)
      PROVE  Counters'
  <2>1. ~overlap /\ CallOK(c) /\ \A d \in Contexts : d # c => pc'[d] = "idle"
    BY <1>2, Solo DEF Step
  <2>2. pc[c] = "check" /\ Leave(c)
    BY <1>2 DEF Return, At
  <2>3. /\ req[c].first = size /\ n[c] = req[c].pages
        /\ req[c].pages = PagesFor(Uncovered(c))
    BY <2>1, <2>2 DEF CallOK, Counters
  <2>4. /\ rest' = (rest + req[c].pages * Unit - req[c].incr) % AddrBytes
        /\ size' = (size + req[c].pages) % AddrPages
    BY <1>2, <2>3 DEF Return, NewRest
  <2> DEFINE incr == req[c].incr
             pages == req[c].pages
  <2>5. incr \in Nat /\ pages \in Nat
    BY <1>t DEF Request
  <2>6. pages = PagesFor((incr - rest) % AddrBytes)
    BY <2>3 DEF Uncovered
  <2>7. rest' = (rest + pages * Unit - incr) % AddrBytes
    BY <2>4
  <2>8. size + pages < AddrPages
    <3>1. CASE pages = 0
      BY Consts, <2>5, <3>1 DEF IInv, TypeInv, TypeOK
    <3>2. CASE pages # 0
      <4>1. size + pages - 1 \in Page
        BY <1>t, <2>1, <2>2, <2>3, <2>5, <3>2 DEF CallOK, MappedFrom
      <4> QED BY <1>t, <2>5, <4>1, AddressAssumption, Consts DEF Page
    <3> QED BY <3>1, <3>2
  <2>9. size' = size + pages
    BY <1>t, <2>4, <2>5, <2>8, ModSmall, Consts
  <2> HIDE DEF incr, pages
  <2>10. /\ rest' = pages * Unit - ((incr - rest) % AddrBytes)
         /\ rest' \in 0 .. Unit - 1
    BY <1>t, <2>5, <2>6, <2>7, LeftOver
  <2>11. size' = 0 => rest' = 0
    <3> SUFFICES ASSUME size' = 0 PROVE rest' = 0
      OBVIOUS
    <3>1. pages = 0
      BY <1>t, <2>5, <2>9
    <3>2. (incr - rest) % AddrBytes \in Nat
      BY <1>t, <2>5, IntDivMod, Consts
    <3>3. (incr - rest) % AddrBytes = 0
      BY <2>6, <3>1, <3>2, Rounding
    <3>4. pages * Unit = 0
      BY <3>1, Consts
    <3>5. \A x, y \in Int : x = 0 /\ y = 0 => x - y = 0
      OBVIOUS
    <3>6. pages * Unit - ((incr - rest) % AddrBytes) = 0
      BY <3>3, <3>4
    <3> QED BY <2>10, <3>6, Zenon
  <2>12. pc'[c] = "idle"
    BY <1>t, <2>2 DEF Leave, Goto
  <2>13. rest' < Unit
    BY <2>10, Consts
  <2> QED BY <2>1, <2>11, <2>12, <2>13 DEF Counters
<1>3. ASSUME NEW c \in Contexts, Step(c), ~Return(c)
      PROVE  Counters'
  <2>1. ~overlap /\ pc[c] # "idle"
        /\ \A d \in Contexts : d # c => pc'[d] = "idle"
    BY <1>3, Solo
  <2>2. UNCHANGED <<size, rest>>
    BY <1>3 DEF Step, FindWord, Exhausted, Spin, FindBit, Mark, MapPage,
                MapWild, Undo, Fail, heap
  <2>3. req'[c] = req[c] \/ pc'[c] = "idle"
    BY <1>t, <1>3 DEF Step, FindWord, Exhausted, Spin, FindBit, Mark, MapPage,
                MapWild, Undo, Fail, Leave, Goto
  <2>4. req'[c] = req[c] => PagesFor(Uncovered(c))' = PagesFor(Uncovered(c))
    BY <2>2 DEF Uncovered, PagesFor
  <2> QED BY <2>1, <2>2, <2>3, <2>4 DEF Counters
<1>4. CASE Hung \/ UNCHANGED vars
  BY <1>4 DEF Hung, vars, heap, Counters, Uncovered
<1> QED BY <1>1, <1>2, <1>3, <1>4 DEF Next

\* The break stays in the last page of the heap, for every increment and also
\* where the 32-bit counters wrap (newlib_calls.c:93-110).
THEOREM BreakStaysInLastPage == Spec => []BreakInLastPage
<1>1. Init => Counters
  BY Consts DEF Init, Counters
<1>2. IInv /\ Counters => BreakInLastPage
  BY DEF Counters, BreakInLastPage
<1> QED BY <1>1, <1>2, CountersNext, InvAlways, PTL DEF Spec

-----------------------------------------------------------------------------
(* Frames.  A bit that is set was set when the heap came up, or is a page's *)
(* frame, or was about to be: a call is between Mark and MapPage, or hung.  *)

Mapped(f) == \E p \in Page : pt[p] = f + BasePage

FramesKept ==
  ~overlap => \A f \in map :
     \/ f \in reserved \/ Mapped(f)
     \/ \E c \in Contexts : pc[c] \in {"map", "wild"} /\ free[c] = f

\* Every step keeps track of them: a page that is mapped was not there before,
\* and one that is given back takes its bit with it (alloc.c:43-89).
LEMMA FramesKeptNext ==
  IInv /\ IInv' /\ FramesKept /\ [Next]_vars => FramesKept'
<1> SUFFICES ASSUME IInv, IInv', FramesKept, [Next]_vars, ~overlap',
                    NEW f \in map'
             PROVE  \/ f \in reserved' \/ Mapped(f)'
                    \/ \E c \in Contexts : pc'[c] \in {"map", "wild"} /\ free'[c] = f
  BY DEF FramesKept
<1>t. /\ pc \in [Contexts -> Pc] /\ free \in [Contexts -> Nat]
      /\ pt \in [Page -> 0 .. AddrPages - 1] /\ map \subseteq Frame
      /\ map' \subseteq Frame /\ free' \in [Contexts -> Nat]
  BY DEF IInv, TypeInv, TypeOK, Page
<1>f. f \in Nat /\ f + BasePage # 0
  BY <1>t, FrameBound
<1>1. ASSUME NEW c \in Contexts, MapPage(c)
      PROVE  \/ f \in reserved' \/ Mapped(f)'
  <2>1. /\ ~overlap /\ CallOK(c) /\ reserved' = reserved
        /\ \A d \in Contexts : d # c => pc[d] = "idle"
    BY <1>1, Solo DEF Step, setup
  <2> DEFINE e == size + n[c]
  <2>2. /\ pc[c] = "map" /\ req[c].first = size /\ map' = map
        /\ e \in Page /\ pt' = [pt EXCEPT ![e] = free[c] + BasePage]
    <3>1. size \in Nat /\ n[c] \in Nat
      BY Consts DEF IInv, TypeInv, TypeOK
    <3>2. pc[c] = "map" /\ req[c].first = size
      BY <1>1, <2>1 DEF MapPage, At, CallOK
    <3>3. e < Entries /\ map' = map
          /\ pt' = [pt EXCEPT ![e] = free[c] + BasePage]
      BY <1>1, <3>2 DEF MapPage
    <3> QED BY <3>1, <3>2, <3>3, Consts DEF Page
  <2>3. ~Present(e)
    <3>1. size \in Nat /\ n[c] \in Nat
      BY Consts DEF IInv, TypeInv, TypeOK
    <3> QED BY <2>1, <2>2, <3>1 DEF IInv, PagesOwned, Owner
  <2>4. CASE free[c] = f
    BY <1>t, <2>2, <2>4 DEF Mapped, Page
  <2>5. CASE Mapped(f)
    <3>1. PICK p \in Page : pt[p] = f + BasePage
      BY <2>5 DEF Mapped
    <3>2. p # e
      BY <1>f, <2>3, <3>1 DEF Present
    <3> QED BY <1>t, <2>2, <3>1, <3>2 DEF Mapped, Page
  <2> QED BY <2>1, <2>2, <2>4, <2>5 DEF FramesKept
<1>2. ASSUME NEW c \in Contexts, Undo(c)
      PROVE  \/ f \in reserved' \/ Mapped(f)'
  <2>1. /\ ~overlap /\ reserved' = reserved /\ pc[c] = "undo"
        /\ \A d \in Contexts : d # c => pc[d] = "idle"
    BY <1>2, Solo DEF Step, setup, Undo, At
  <2> DEFINE e == UndonePage(c)
  <2>2. CASE ~InPool(pt[e])
    BY <1>2, <2>1, <2>2 DEF Undo, FramesKept, Mapped, Page
  <2>3. CASE InPool(pt[e])
    <3>1. /\ map' = map \ ClearedBits(pt[e] - BasePage)
          /\ pt' = [pt EXCEPT ![e] = 0]
      BY <1>2, <2>3 DEF Undo
    <3>2. f \in map /\ f \in Frame /\ f \notin ClearedBits(pt[e] - BasePage)
      BY <1>t, <3>1
    <3>3. f # pt[e] - BasePage
      BY <3>2 DEF ClearedBits
    <3>4. f \in reserved \/ Mapped(f)
      BY <2>1, <3>2 DEF FramesKept
    <3>5. ASSUME NEW p \in Page, pt[p] = f + BasePage
          PROVE  Mapped(f)'
      <4>1. p # e
        BY <1>f, <3>3, <3>5, Consts
      <4>2. pt'[p] = f + BasePage
        BY <1>t, <3>1, <3>5, <4>1
      <4> QED BY <4>2 DEF Mapped, Page
    <3> QED BY <2>1, <3>4, <3>5 DEF Mapped
  <2> QED BY <2>2, <2>3
<1>3. ASSUME NEW c \in Contexts, Mark(c)
      PROVE  \/ f \in reserved' \/ Mapped(f)'
             \/ pc'[c] = "map" /\ free'[c] = f
  <2>1. /\ ~overlap /\ reserved' = reserved /\ pc[c] = "mark"
        /\ \A d \in Contexts : d # c => pc[d] = "idle"
    BY <1>3, Solo DEF Step, setup, Mark, At
  <2>2. /\ map' = map \cup {free[c]} /\ pt' = pt /\ free' = free
        /\ pc'[c] = "map"
    BY <1>3, <1>t DEF Mark, Goto, loops
  <2> QED BY <2>1, <2>2 DEF FramesKept, Mapped, Page
<1>4. ASSUME NEW c \in Contexts, Step(c),
             ~MapPage(c), ~MapWild(c), ~Undo(c), ~Mark(c)
      PROVE  f \in reserved' \/ Mapped(f)'
  <2>1. /\ ~overlap /\ reserved' = reserved
        /\ \A d \in Contexts : d # c => pc[d] = "idle"
    BY <1>4, Solo DEF setup
  <2>2. UNCHANGED <<map, pt>> /\ pc[c] \notin {"map", "wild"}
    BY <1>4 DEF Step, FindWord, Exhausted, Spin, FindBit, Fail, Return, At,
                heap
  <2> QED BY <2>1, <2>2 DEF FramesKept, Mapped, Page
<1>5. ASSUME NEW c \in Contexts, NEW incr \in Requests, Enter(c, incr)
      PROVE  f \in reserved' \/ Mapped(f)'
  <2>1. ~overlap /\ \A d \in Contexts : pc[d] = "idle"
    BY <1>5 DEF Enter, At
  <2>2. UNCHANGED <<map, pt, reserved>>
    BY <1>5 DEF Enter, heap, setup
  <2> QED BY <2>1, <2>2 DEF FramesKept, Mapped, Page
<1>6. CASE Hung \/ UNCHANGED vars
  <2>1. UNCHANGED <<map, pt, reserved, pc, free, overlap>>
    BY <1>6 DEF Hung, vars, heap, setup, loops
  <2> QED BY <2>1 DEF FramesKept, Mapped, Page
<1>7. ASSUME NEW c \in Contexts, MapWild(c)
      PROVE  \/ f \in reserved' \/ Mapped(f)'
             \/ pc'[c] \in {"map", "wild"} /\ free'[c] = f
  <2>1. /\ ~overlap /\ reserved' = reserved
        /\ \A d \in Contexts : d # c => pc[d] = "idle"
    BY <1>7, Solo DEF Step, setup
  <2>2. UNCHANGED <<map, pt, free>> /\ pc'[c] = "wild"
    BY <1>7, <1>t DEF MapWild, Goto, heap, loops
  <2> QED BY <2>1, <2>2 DEF FramesKept, Mapped, Page
<1> QED BY <1>1, <1>2, <1>3, <1>4, <1>5, <1>6, <1>7 DEF Next

\* Between calls no frame is lost, neither by calls that succeed nor by those
\* that are rolled back (alloc.c:43-89).
THEOREM NoFrameIsLost == Spec => []NoFrameLost
<1>1. Init => FramesKept
  BY DEF Init, FramesKept
<1>2. IInv /\ FramesKept => NoFrameLost
  BY DEF FramesKept, Mapped, NoFrameLost, AllIdle
<1> QED BY <1>1, <1>2, FramesKeptNext, InvAlways, PTL DEF Spec

-----------------------------------------------------------------------------
(* The heap implements one program break.  A request smaller than           *)
(* `rest` asks for almost the whole address space, because incr - rest      *)
(* wraps; since no such request can be mapped, an answered call has moved   *)
(* the break by its increment.                                              *)

Asked == \A c \in Contexts : pc[c] # "idle" => req[c].incr \in Requests

\* A call asks for what it was entered with.
LEMMA AskedNext == IInv /\ Asked /\ [Next]_vars => Asked'
<1> SUFFICES ASSUME IInv, Asked, [Next]_vars PROVE Asked'
  OBVIOUS
<1>t. pc \in [Contexts -> Pc] /\ req \in [Contexts -> Request]
  BY DEF IInv, TypeInv, TypeOK, Request
<1>1. ASSUME NEW c \in Contexts, NEW incr \in Requests, Enter(c, incr)
      PROVE  Asked'
  <2>1. /\ req'[c].incr = incr
        /\ \A d \in Contexts \ {c} : req'[d] = req[d] /\ pc'[d] = pc[d]
    BY <1>t, <1>1 DEF Enter, Goto
  <2> QED BY <2>1 DEF Asked
<1>2. ASSUME NEW c \in Contexts, Step(c)
      PROVE  Asked'
  <2>1. pc[c] # "idle"
    BY <1>2 DEF Step, FindWord, Exhausted, Spin, FindBit, Mark, MapPage,
                MapWild, Undo, Fail, Return, At
  <2>2. req'[c] = req[c] \/ pc'[c] = "idle"
    BY <1>t, <1>2 DEF Step, FindWord, Exhausted, Spin, FindBit, Mark, MapPage,
                MapWild, Undo, Fail, Return, Leave, Goto
  <2>3. \A d \in Contexts \ {c} : req'[d] = req[d] /\ pc'[d] = pc[d]
    BY <1>t, <1>2 DEF Step, FindWord, Exhausted, Spin, FindBit, Mark, MapPage,
                MapWild, Undo, Fail, Return, Leave, Goto
  <2> QED BY <2>1, <2>2, <2>3 DEF Asked
<1>3. CASE Hung \/ UNCHANGED vars
  BY <1>3 DEF Hung, vars, Asked
<1> QED BY <1>1, <1>2, <1>3 DEF Next

\* A request that wraps is rounded up to the whole address space, so where
\* fewer pages do, it has not wrapped (newlib_calls.c:93-94).
LEMMA NoWrap ==
  ASSUME NEW incr \in Nat, incr < AddrBytes, NEW r \in 0 .. Unit - 1,
         PagesFor((incr - r) % AddrBytes) < AddrPages
  PROVE  (incr - r) % AddrBytes = incr - r
<1> DEFINE x == incr - r
<1>t. /\ Unit \in Nat \ {0} /\ AddrPages \in Nat \ {0} /\ AddrBytes \in Nat \ {0}
      /\ r \in Nat /\ r < Unit /\ x \in Int /\ x < AddrBytes
  BY Consts
<1>1. CASE x >= 0
  BY <1>t, <1>1, ModSmall
<1>2. CASE x < 0
  <2> DEFINE b == x + AddrBytes
             pages == PagesFor(b)
  <2>1. Unit <= AddrBytes
    BY Consts, MulMono DEF AddrBytes
  <2>2. b \in 0 .. AddrBytes - 1 /\ b > AddrBytes - Unit
    BY <1>t, <1>2, <2>1
  <2>3. x % AddrBytes = b
    <3>1. (b + AddrBytes * (-1)) % AddrBytes = b
      <4> HIDE DEF b
      <4> QED BY <1>t, <2>2, ModShift
    <3>2. b + AddrBytes * (-1) = x
      BY <1>t
    <3> QED BY <3>1, <3>2
  <2>4. pages \in Nat /\ pages * Unit - b \in 0 .. Unit - 1 /\ pages < AddrPages
    BY <2>2, <2>3, Rounding
  <2> HIDE DEF pages, b, x
  <2>5. pages * Unit <= (AddrPages - 1) * Unit /\ pages * Unit \in Nat
    BY <1>t, <2>4, MulMono
  <2>6. (AddrPages - 1) * Unit = AddrBytes - Unit
    BY <1>t DEF AddrBytes
  <2>7. pages * Unit >= b
    BY <1>t, <2>2, <2>4, <2>5
  <2> QED BY <1>t, <2>2, <2>5, <2>6, <2>7
<1> QED BY <1>t, <1>1, <1>2

\* An answered call has moved the break by its increment and answers the old
\* one (newlib_calls.c:99-110).
LEMMA ReturnGrows ==
  ASSUME IInv, IInv', Counters, Asked, ~overlap, ~overlap',
         NEW c \in Contexts, Return(c)
  PROVE  Abstract!Grow(req[c].incr) /\ req[c].incr \in Requests
<1> DEFINE incr == req[c].incr
           pages == req[c].pages
<1>t. /\ size \in Nat /\ rest \in Nat /\ n \in [Contexts -> Nat]
      /\ req[c] \in Request /\ Unit \in Nat \ {0} /\ AddrPages \in Nat \ {0}
      /\ size < AddrPages
  <2>1. rest \in 0 .. AddrBytes - 1 /\ size \in 0 .. AddrPages - 1
    BY DEF IInv, TypeInv, TypeOK
  <2> QED BY <2>1, Consts DEF IInv, TypeInv, TypeOK, Request
<1>1. pc[c] = "check" /\ CallOK(c)
  BY Solo DEF Return, At, Step
<1>2. /\ req[c].first = size /\ n[c] = pages /\ rest < Unit
      /\ pages = PagesFor((incr - rest) % AddrBytes) /\ incr \in Requests
  BY <1>1 DEF CallOK, Counters, Uncovered, Asked
<1>3. /\ incr \in Nat /\ incr < AddrBytes /\ pages \in Nat
  BY <1>t, <1>2, IncrementAssumption, SizesAssumption DEF Request, AddrBytes
<1>4. size + pages < AddrPages
  <2>1. CASE pages = 0
    BY <1>t, <2>1
  <2>2. CASE pages # 0
    <3>1. size + pages - 1 \in Page
      BY <1>t, <1>1, <1>2, <1>3, <2>2 DEF CallOK, MappedFrom
    <3> QED BY <1>t, <1>3, <3>1, AddressAssumption, Consts DEF Page
  <2> QED BY <2>1, <2>2
<1>5. /\ size' = (size + pages) % AddrPages
      /\ rest' = (rest + pages * Unit - incr) % AddrBytes
      /\ ret' = [addr |-> (HeapBase + (size * Unit - rest)) % AddrBytes,
                 len |-> incr]
  BY <1>2 DEF Return, NewRest, OldBreak
<1> HIDE DEF incr, pages
<1>6. size' = size + pages
  BY <1>t, <1>3, <1>4, <1>5, ModSmall
<1>7. rest' = pages * Unit - (incr - rest)
  <2>1. rest \in 0 .. Unit - 1 /\ pages < AddrPages
    BY <1>t, <1>2, <1>3, <1>4
  <2>2. (incr - rest) % AddrBytes = incr - rest
    BY <1>2, <1>3, <2>1, NoWrap
  <2> QED BY <1>t, <1>2, <1>3, <1>5, <2>2, LeftOver
<1>8. size' * Unit - rest' = (size * Unit - rest) + incr
  <2>1. size' * Unit = size * Unit + pages * Unit
    BY <1>t, <1>3, <1>6
  <2>2. size * Unit \in Nat /\ pages * Unit \in Nat
    BY <1>t, <1>3
  <2> QED BY <1>t, <1>3, <1>7, <2>1, <2>2
<1>9. (HeapBase + (size * Unit - rest)) % AddrBytes = HeapBase + (size * Unit - rest)
  <2>1. size <= Entries
    <3>1. CASE size # 0
      <4>1. size - 1 \in Page
        BY <1>t, <3>1 DEF IInv, HeapBacked
      <4> QED BY <1>t, <4>1, Consts DEF Page
    <3> QED BY <1>t, <3>1, Consts
  <2>2. size * Unit <= Entries * Unit /\ size * Unit \in Nat /\ Entries * Unit \in Nat
    BY <1>t, <2>1, MulMono, Consts
  <2>3. size * Unit >= rest
    <3>1. CASE size = 0
      BY <1>t, <3>1, <2>2 DEF Counters
    <3>2. CASE size # 0
      <4>1. 1 * Unit <= size * Unit
        BY <1>t, <3>2, MulMono
      <4> QED BY <1>t, <1>2, <2>2, <4>1
    <3> QED BY <3>1, <3>2
  <2>4. HeapBase + Entries * Unit < AddrBytes /\ HeapBase \in Nat /\ AddrBytes \in Nat
    BY AddressAssumption, Consts DEF AddrBytes
  <2>5. HeapBase + (size * Unit - rest) \in 0 .. AddrBytes - 1
    BY <1>t, <2>2, <2>3, <2>4
  <2> QED BY <2>4, <2>5, ModSmall
<1> QED BY <1>2, <1>5, <1>8, <1>9 DEF Abstract!Grow, incr

\* Every step is a step of the break, or leaves it alone.
LEMMA BreakSteps ==
  ASSUME IInv, IInv', Counters, Asked, ~overlap, ~overlap', [Next]_vars
  PROVE  [Abstract!BrkNext]_(Abstract!brkVars)
<1>1. ASSUME NEW c \in Contexts, NEW incr \in Requests, Enter(c, incr)
      PROVE  UNCHANGED <<size, rest, ret>>
  BY <1>1 DEF Enter, heap
<1>2. ASSUME NEW c \in Contexts, Return(c)
      PROVE  Abstract!BrkNext
  BY <1>2, ReturnGrows DEF Abstract!BrkNext
<1>3. ASSUME NEW c \in Contexts, Fail(c)
      PROVE  Abstract!BrkNext
  BY <1>3 DEF Fail, heap, Refusal, Abstract!BrkNext, Abstract!Refuse,
              Abstract!Refusal
<1>4. ASSUME NEW c \in Contexts, Step(c), ~Return(c), ~Fail(c)
      PROVE  UNCHANGED <<size, rest, ret>>
  BY <1>4 DEF Step, FindWord, Exhausted, Spin, FindBit, Mark, MapPage,
              MapWild, Undo, heap
<1>5. CASE Hung \/ UNCHANGED vars
  BY <1>5 DEF Hung, vars, heap, Abstract!brkVars
<1>6. UNCHANGED <<size, rest, ret>> => UNCHANGED Abstract!brkVars
  BY DEF Abstract!brkVars
<1> QED BY <1>1, <1>2, <1>3, <1>4, <1>5, <1>6 DEF Next

\* As long as no call is nested in another, sbrk keeps one break for every
\* sequence of increments, also those that wrap: a grant answers the old break's
\* address, and a refusal answers 0 and changes nothing (newlib_calls.c:93-114,
\* alloc.c:43-89).
THEOREM HeapImplementsBrk == Spec /\ [](~overlap) => ImplementsBrk
<1>1. Init => Counters /\ Asked /\ Abstract!BrkInit
  BY Consts DEF Init, Counters, Asked, Refusal, Abstract!BrkInit, Abstract!Refusal
<1>2. IInv /\ IInv' /\ Counters /\ Asked /\ ~overlap /\ (~overlap)' /\ [Next]_vars
        => [Abstract!BrkNext]_(Abstract!brkVars)
  BY BreakSteps
<1> QED
  BY <1>1, <1>2, CountersNext, AskedNext, InvAlways, PTL
     DEF Spec, ImplementsBrk, Abstract!BrkSpec
=============================================================================
