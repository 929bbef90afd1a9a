---------------------------- MODULE Ext2Proofs ----------------------------
(***************************************************************************)
(* What Ext2 promises of its buffers and of its lookups, on every file     *)
(* system, for every path and any number of failing reads.                 *)
(***************************************************************************)
EXTENDS Ext2, SequenceTheorems, WellFoundedInduction, TLAPS

\* The state of the cache, as Fetched, Open and Numbered take and give it.
Shaped(c) == DOMAIN c.held = Buffer /\ DOMAIN c.tag = Buffer /\ c.failures \in Nat

WrongIn(c) == {n \in Buffer : c.tag[n] \in DOMAIN image.blocks
                              /\ \E u \in Unit : c.held[n][u] # c.tag[n]}

\* d comes after c: only a failure has made a buffer wrong.
Later(c, d) == /\ Shaped(d) /\ c.failures <= d.failures
               /\ WrongIn(d) \subseteq WrongIn(c) \/ d.failures > c.failures

LEMMA LaterSelf == ASSUME NEW c, Shaped(c) PROVE Later(c, c)
  BY DEF Later, Shaped

LEMMA LaterTwice ==
  ASSUME NEW c, NEW d, NEW e, Shaped(c), Later(c, d), Later(d, e)
  PROVE  Later(c, e)
  BY DEF Later, Shaped

\* A read of a block leaves the buffer wrong only if it fails (ext2.c:11-27).
LEMMA FetchedLater ==
  ASSUME NEW c, Shaped(c), NEW n \in Buffer, NEW b, NEW d \in Fetched(c, n, b)
  PROVE  Later(c, d)
<1> DEFINE filled(k, f, ok) ==
             [held |-> [c.held EXCEPT ![n] =
                          [u \in Unit |-> IF u < k THEN b ELSE c.held[n][u]]],
              tag |-> [c.tag EXCEPT ![n] = b],
              failures |-> c.failures + f, clean |-> c.clean /\ ok]
<1>1. \/ d = c
      \/ d = filled(Slots, 0, TRUE)
      \/ b \notin DOMAIN image.blocks /\ d = filled(0, 0, FALSE)
      \/ \E k \in {0, Slots \div 2} : d = filled(k, 1, FALSE)
  BY DEF Fetched, Hit, Whole
<1>2. CASE d = c
  BY <1>2, LaterSelf
<1>3. ASSUME NEW k, NEW f \in Nat, NEW ok, d = filled(k, f, ok)
      PROVE  /\ Shaped(d) /\ d.failures = c.failures + f
             /\ d.tag[n] = b /\ \A u \in Unit : d.held[n][u] = IF u < k THEN b ELSE c.held[n][u]
             /\ \A m \in Buffer \ {n} : d.tag[m] = c.tag[m] /\ d.held[m] = c.held[m]
  BY <1>3 DEF Shaped
<1> HIDE DEF filled
<1>c. c.failures \in Nat
  BY DEF Shaped
<1>4. CASE d = filled(Slots, 0, TRUE)
  <2>0. 0 \in Nat
    OBVIOUS
  <2>1. \A u \in Unit : u < Slots
    BY SizeAssumption DEF Unit
  <2>2. /\ Shaped(d) /\ d.failures = c.failures + 0
        /\ d.tag[n] = b /\ \A u \in Unit : d.held[n][u] = IF u < Slots THEN b ELSE c.held[n][u]
        /\ \A m \in Buffer \ {n} : d.tag[m] = c.tag[m] /\ d.held[m] = c.held[m]
    BY <1>3, <1>4, <2>0, Zenon
  <2>3. n \notin WrongIn(d) /\ d.failures = c.failures
    BY <1>c, <2>2, <2>1 DEF WrongIn
  <2>4. WrongIn(d) \subseteq WrongIn(c)
    BY <2>2, <2>3 DEF WrongIn
  <2> QED BY <1>c, <2>2, <2>3, <2>4 DEF Later
<1>5. CASE b \notin DOMAIN image.blocks /\ d = filled(0, 0, FALSE)
  <2>0. 0 \in Nat
    OBVIOUS
  <2>2. /\ Shaped(d) /\ d.failures = c.failures + 0
        /\ d.tag[n] = b /\ \A u \in Unit : d.held[n][u] = IF u < 0 THEN b ELSE c.held[n][u]
        /\ \A m \in Buffer \ {n} : d.tag[m] = c.tag[m] /\ d.held[m] = c.held[m]
    BY <1>3, <1>5, <2>0, Zenon
  <2>3. n \notin WrongIn(d)
    BY <2>2, <1>5, Zenon DEF WrongIn
  <2>4. WrongIn(d) \subseteq WrongIn(c)
    BY <2>2, <2>3 DEF WrongIn
  <2>5. d.failures = c.failures
    BY <1>c, <2>2
  <2> QED BY <1>c, <2>2, <2>4, <2>5 DEF Later
<1>6. CASE \E k \in {0, Slots \div 2} : d = filled(k, 1, FALSE)
  <2>0. 1 \in Nat
    OBVIOUS
  <2> PICK k : d = filled(k, 1, FALSE)
    BY <1>6
  <2>1. Shaped(d) /\ d.failures = c.failures + 1
    BY <1>3, <2>0, Zenon
  <2>a. \A x \in Nat : \A y : y = x + 1 => x <= y /\ y > x
    OBVIOUS
  <2>2. c.failures <= d.failures /\ d.failures > c.failures
    BY <1>c, <2>a, <2>1, Zenon
  <2> QED BY <2>1, <2>2, Zenon DEF Later
<1> QED BY <1>1, <1>2, <1>4, <1>5, <1>6 DEF filled

\* An inode is read through two buffers (ext2.c:53-68).
LEMMA OpenLater ==
  ASSUME NEW c, Shaped(c), NEW i, NEW o \in Open(i, c)
  PROVE  Later(c, o.cache)
<1>1. PICK c1 \in Fetched(c, "groups", GroupBlock(i)) :
        \E g \in As("group", In(c1.held["groups"], GroupUnit(i))) :
        \E c2 \in Fetched(c1, "inodes", InodeBlock(g, i)) :
          o.cache = c2
  BY DEF Open
<1>2. PICK g, c2 : c2 \in Fetched(c1, "inodes", InodeBlock(g, i)) /\ o.cache = c2
  BY <1>1
<1>3. "groups" \in Buffer /\ "inodes" \in Buffer
  BY DEF Buffer
<1>4. Later(c, c1) /\ Shaped(c1)
  BY <1>3, FetchedLater DEF Later
<1>5. Later(c1, c2)
  BY <1>2, <1>3, <1>4, FetchedLater
<1> QED BY <1>2, <1>4, <1>5, LaterTwice

\* A block's number is read through one (ext2.c:194-199).
LEMMA NumberedLater ==
  ASSUME Shaped(Cache), NEW o \in Numbered
  PROVE  Later(Cache, o.cache) /\ Shaped(o.cache)
<1>1. "inodes" \in Buffer
  BY DEF Buffer
<1>2. o.cache = Cache \/ o.cache \in Fetched(Cache, "inodes", node.ind)
  BY DEF Numbered
<1> QED BY <1>1, <1>2, LaterSelf, FetchedLater DEF Later

-----------------------------------------------------------------------------
\* The buffers there are, and how far ext2_init is: the handler is only called
\* once ready is set, and malloc has answered by then.
Called ==
  /\ \/ setup \in {{"superblock"}, {"buffers"}} /\ ~ready
     \/ setup \subseteq Buffer \cup {"ready"}
  /\ ready => "ready" \notin setup
  /\ pc # "idle" => ready
  /\ HaltExplained

Kept == Shaped(Cache) /\ fs \in DOMAIN Images /\ Called

\* A step changes the cache by reads, by a tag of ext2_init, or not at all.
Read     == \E d : Later(Cache, d) /\ held' = d.held /\ tag' = d.tag
                   /\ failures' = d.failures
Publishes == \E x \in Buffer : tag' = [tag EXCEPT ![x] = Unset]
CacheStep == Read \/ /\ UNCHANGED held /\ failures' \in {failures, failures + 1}
                     /\ UNCHANGED tag \/ Publishes

LEMMA CacheSteps ==
  ASSUME Kept, [Next]_vars
  PROVE  CacheStep
<1>0. Shaped(Cache)
  BY DEF Kept
<1>a. ASSUME NEW d, Later(Cache, d), Keep(d) PROVE CacheStep
  BY <1>a DEF Keep, CacheStep, Read
<1>1. CASE ReadSuperblock
  BY <1>1 DEF ReadSuperblock, CacheStep
<1>2. CASE \E x \in Buffer \cup {"ready"} : Publish(x)
  <2> PICK x \in Buffer \cup {"ready"} : Publish(x)
    BY <1>2
  <2> QED BY DEF Publish, CacheStep, Publishes
<1>3. CASE OpenDir
  <2>1. PICK o \in Open(dir, Cache) : Keep(o.cache)
    BY <1>3 DEF OpenDir
  <2> QED BY <1>0, <1>a, <2>1, OpenLater
<1>4. CASE SearchBlock
  <2>1. PICK o \in Numbered :
          Keep(o.cache) \/ \E c \in Fetched(o.cache, "entries", o.block) : Keep(c)
    BY <1>4 DEF SearchBlock
  <2>2. Later(Cache, o.cache) /\ Shaped(o.cache)
    BY <1>0, NumberedLater
  <2>3. \A c \in Fetched(o.cache, "entries", o.block) : Later(Cache, c)
    BY <1>0, <2>2, FetchedLater, LaterTwice DEF Buffer
  <2> QED BY <1>a, <2>1, <2>2, <2>3
<1>5. CASE DumpInode
  <2>1. PICK o \in Open(answer, Cache) : Keep(o.cache)
    BY <1>5 DEF DumpInode
  <2> QED BY <1>0, <1>a, <2>1, OpenLater
<1>6. CASE ListRoot
  <2>1. \/ \E o \in Open(Root, Cache) : Keep(o.cache)
        \/ UNCHANGED cache
    BY <1>6 DEF ListRoot, Enter
  <2>2. CASE UNCHANGED cache
    BY <2>2 DEF cache, CacheStep
  <2>3. ASSUME NEW o \in Open(Root, Cache), Keep(o.cache) PROVE CacheStep
    <3> QED BY <1>0, <1>a, <2>3, OpenLater
  <2> QED BY <2>1, <2>2, <2>3
<1>7. CASE ListEntry
  <2> DEFINE top == frames[Len(frames)]
  <2>1. \/ UNCHANGED cache
        \/ \E c \in Fetched(Cache, "entries", Head(top.blocks)) \cup {Cache} :
             Keep(c) \/ \E i : \E o \in Open(i, c) : Keep(o.cache)
    BY <1>7 DEF ListEntry, Enter
  <2> HIDE DEF top
  <2>2. CASE UNCHANGED cache
    BY <2>2 DEF cache, CacheStep
  <2>3. ASSUME NEW c \in Fetched(Cache, "entries", Head(top.blocks)) \cup {Cache},
               Keep(c) \/ \E i : \E o \in Open(i, c) : Keep(o.cache)
        PROVE CacheStep
    <3>1. Later(Cache, c) /\ Shaped(c)
      BY <1>0, FetchedLater, LaterSelf DEF Buffer, Later
    <3>2. \A i : \A o \in Open(i, c) : Later(Cache, o.cache)
      BY <1>0, <3>1, OpenLater, LaterTwice
    <3> QED BY <1>a, <2>3, <3>1, <3>2
  <2> QED BY <2>1, <2>2, <2>3
<1>8. CASE PrintGroups
  <2> DEFINE c0 == [Cache EXCEPT !.clean = Wrong = {}]
  <2>1. PICK c \in Fetched(c0, "groups", FirstBgdt) :
          held' = c.held /\ tag' = c.tag /\ failures' = c.failures
    BY <1>8 DEF PrintGroups
  <2>2. c0.held = held /\ c0.tag = tag /\ c0.failures = failures
        /\ Cache.held = held /\ Cache.tag = tag /\ Cache.failures = failures
    BY DEF Cache
  <2> HIDE DEF c0
  <2>3. Shaped(c0) /\ WrongIn(c0) = WrongIn(Cache)
    BY <1>0, <2>2 DEF Shaped, WrongIn
  <2>4. Later(c0, c)
    BY <2>3, FetchedLater DEF Buffer
  <2>5. Later(Cache, c)
    BY <2>2, <2>3, <2>4 DEF Later
  <2> QED BY <2>1, <2>5 DEF CacheStep, Read
<1>9. CASE Allocate \/ ListEnd \/ Halt \/ Rest \/ List \/ UNCHANGED vars
           \/ \E p \in Paths : Find(p)
  BY <1>9 DEF Allocate, ListEnd, Halt, Rest, List, Find, vars, cache, Idle, CacheStep
<1> QED
  BY <1>1, <1>2, <1>3, <1>4, <1>5, <1>6, <1>7, <1>8, <1>9 DEF Next, SetUp, Handler

-----------------------------------------------------------------------------
\* Before the first call nothing has been read.
LEMMA KeptInit == Init => Kept
  BY DEF Init, Kept, Called, Shaped, Cache, HaltExplained

\* Every step keeps that (ext2.c:29-50).
LEMMA KeptNext == Kept /\ [Next]_vars => Kept'
<1> SUFFICES ASSUME Kept, [Next]_vars PROVE Kept'
  OBVIOUS
<1>1. CacheStep
  BY CacheSteps
<1>2. Shaped(Cache)'
  <2>1. DOMAIN held = Buffer /\ DOMAIN tag = Buffer /\ failures \in Nat
    BY DEF Kept, Shaped, Cache
  <2>2. DOMAIN held' = Buffer /\ DOMAIN tag' = Buffer /\ failures' \in Nat
    BY <1>1, <2>1 DEF CacheStep, Read, Publishes, Later, Shaped
  <2> QED BY <2>2 DEF Shaped, Cache
<1>f. fs' = fs
  BY DEF Next, SetUp, Handler, ReadSuperblock, Allocate, Publish, OpenDir,
         SearchBlock, DumpInode, ListRoot, ListEntry, ListEnd, Halt, Rest,
         PrintGroups, List, Find, vars, disk
<1> SUFFICES Called'
  BY <1>2, <1>f DEF Kept
<1> USE DEF Called
<1>3. Called
  BY DEF Kept
<1>4. CASE ReadSuperblock
  BY <1>3, <1>4 DEF ReadSuperblock, ReadyAtFirst, HaltExplained
<1>5. CASE Allocate
  BY <1>3, <1>5 DEF Allocate, HaltExplained, Buffer
<1>6. CASE \E x \in Buffer \cup {"ready"} : Publish(x)
  BY <1>3, <1>6 DEF Publish, HaltExplained, Buffer
<1>7. CASE PrintGroups
  BY <1>3, <1>7 DEF PrintGroups, HaltExplained, disk
<1>8. CASE List \/ \E p \in Paths : Find(p)
  BY <1>3, <1>8 DEF List, Find, Idle, HaltExplained, disk
<1>9. CASE Handler
  <2>1. pc # "idle" /\ UNCHANGED disk
    BY <1>9 DEF Handler, OpenDir, SearchBlock, DumpInode, ListRoot, ListEntry,
                ListEnd, Halt
  <2>2. ready /\ setup \subseteq Buffer
    BY <1>3, <2>1
  <2>3. pc' = "halted" => present # Buffer
    BY <1>9 DEF Handler, OpenDir, SearchBlock, DumpInode, ListRoot, ListEntry,
                ListEnd, Halt, Enter, Found, Needs, Buffer
  <2>4. setup' = setup /\ ready' = ready /\ present' = present
    BY <2>1 DEF disk
  <2>5. HaltExplained'
    BY <2>2, <2>3, <2>4 DEF HaltExplained
  <2>6. setup \subseteq Buffer \cup {"ready"}
    BY <2>2
  <2> QED BY <1>3, <2>2, <2>4, <2>5, <2>6
<1>10. CASE Rest \/ UNCHANGED vars
  BY <1>3, <1>10 DEF Rest, vars, disk, HaltExplained
<1> QED
  BY <1>4, <1>5, <1>6, <1>7, <1>8, <1>9, <1>10 DEF Next, SetUp

LEMMA KeptAlways == Spec => []Kept
BY KeptInit, KeptNext, PTL DEF Spec

\* A call goes through a missing buffer only if malloc has refused it: none
\* can come before ext2_init has set ready (ext2.c:31, 43-45, 49).
THEOREM HaltsAreExplained == Spec => []HaltExplained
<1>1. Kept => HaltExplained
  BY DEF Kept, Called
<1> QED BY <1>1, KeptAlways, PTL

\* On every file system, a buffer that holds what its tag says goes wrong only
\* by a read that fails, however calls follow each other and also while
\* ext2_init is still storing its tags (ext2.c:11-27, 46-48).
THEOREM BuffersGoWrongByFailure == Spec => GoesWrongByFailure
<1>1. ASSUME Kept, [Next]_vars
      PROVE  Wrong' \subseteq Wrong \/ failures' > failures
  <2>1. CacheStep
    BY <1>1, CacheSteps
  <2>f. fs' = fs
    BY <1>1 DEF Next, SetUp, Handler, ReadSuperblock, Allocate, Publish, OpenDir,
                SearchBlock, DumpInode, ListRoot, ListEntry, ListEnd, Halt, Rest,
                PrintGroups, List, Find, vars, disk
  <2>w. Wrong = WrongIn(Cache)
    BY DEF Wrong, WrongIn, Cache
  <2>2. CASE Read
    <3> PICK d : Later(Cache, d) /\ held' = d.held /\ tag' = d.tag
                 /\ failures' = d.failures
      BY <2>2 DEF Read
    <3>1. Wrong' = WrongIn(d)
      BY <2>f DEF Wrong, WrongIn, image
    <3> QED BY <2>w, <3>1 DEF Later, Cache
  <2>3. CASE UNCHANGED held /\ (UNCHANGED tag \/ Publishes)
    <3>1. ASSUME NEW m \in Wrong' PROVE m \in Wrong
      <4>1. tag'[m] # Unset
        <5>1. fs \in DOMAIN Images /\ tag'[m] \in DOMAIN Images[fs].blocks
          BY <1>1, <2>f, <3>1 DEF Wrong, image, Kept
        <5>2. tag'[m] \in 1 .. Len(Images[fs].blocks)
          BY <5>1, ImageAssumption
        <5>3. Len(Images[fs].blocks) \in Nat /\ Len(Images[fs].blocks) < Unset
          BY <5>1, ImageAssumption
        <5> QED BY <5>2, <5>3
      <4>2. tag'[m] = tag[m]
        BY <1>1, <2>3, <3>1, <4>1 DEF Publishes, Wrong, Kept, Shaped, Cache
      <4> QED BY <2>3, <2>f, <3>1, <4>2 DEF Wrong, image
    <3> QED BY <3>1
  <2> QED BY <2>1, <2>2, <2>3 DEF CacheStep
<1> QED BY <1>1, KeptAlways, PTL DEF Spec, GoesWrongByFailure

-----------------------------------------------------------------------------
\* Induction, from the library's theorem that the numbers are well founded.
Smaller == {p \in Nat \X Nat : p[1] < p[2]}

LEMMA Least ==
  ASSUME NEW T \in SUBSET Nat, T # {}
  PROVE  \E x \in T : \A y \in T : x <= y
<1>1. IsWellFoundedOn(Smaller, Nat)
  BY NatLessThanWellFounded DEF OpToRel, Smaller
<1>2. PICK x \in T : \A y \in T : <<y, x>> \notin Smaller
  BY <1>1, WFMin
<1>3. ASSUME NEW y \in T
      PROVE  x <= y
  <2>1. x \in Nat /\ y \in Nat /\ ~(y < x)
    BY <1>2 DEF Smaller
  <2> QED BY <2>1
<1> QED BY <1>3

LEMMA Induct ==
  ASSUME NEW S, 0 \in S, \A n \in Nat : n \in S => n + 1 \in S
  PROVE  Nat \subseteq S
<1> DEFINE T == {n \in Nat : n \notin S}
<1> SUFFICES ASSUME T # {} PROVE FALSE
  OBVIOUS
<1>1. PICK x \in T : \A y \in T : x <= y
  BY Least
<1>2. x \in Nat /\ x # 0 /\ x \notin S
  OBVIOUS
<1>3. x - 1 \in Nat /\ x - 1 \notin T
  BY <1>1, <1>2
<1>4. x - 1 \in S
  BY <1>3
<1>5. (x - 1) + 1 \in S
  BY <1>3, <1>4
<1> QED BY <1>2, <1>5

-----------------------------------------------------------------------------
\* The loop of find_in_dir_block (ext2.c:163-183), and what it returns at an
\* offset, by what it returns further on.
Unit0(h, g, at) == IF In(h, at).is = "entry" THEN In(h, at) ELSE g
Hits(e, name)   == e.size # 0 /\ e.name # <<>> /\ Match(e, name)

Loop(h, g, name, f, at) ==
  IF at >= Slots THEN 0
  ELSE IF Hits(Unit0(h, g, at), name) THEN Unit0(h, g, at).inode
  ELSE f[at + Past(Unit0(h, g, at))]

\* The sizes of entries are numbers.
Measures(h, g) == \A at \in Unit : Past(Unit0(h, g, at)) \in Nat \ {0}

LEMMA LoopExists ==
  ASSUME NEW h, NEW g, NEW name, Measures(h, g)
  PROVE  \E f : f = [at \in Nat |-> Loop(h, g, name, f, at)]
<1> DEFINE Ok(f, at) == f[at] = Loop(h, g, name, f, at)
           Total(f)  == f = [at \in Nat |-> f[at]]
           S == {n \in Nat : \E f : /\ Total(f)
                                    /\ \A at \in Nat : at + n >= Slots => Ok(f, at)}
<1>1. 0 \in S
  <2> DEFINE z == [at \in Nat |-> 0]
  <2>1. Total(z)
    OBVIOUS
  <2>2. \A at \in Nat : at + 0 >= Slots => Ok(z, at)
    BY SizeAssumption DEF Loop
  <2> HIDE DEF z, Total, Ok
  <2> QED BY <2>1, <2>2
<1>2. ASSUME NEW n \in Nat, n \in S
      PROVE  n + 1 \in S
  <2> PICK f : Total(f) /\ \A at \in Nat : at + n >= Slots => Ok(f, at)
    BY <1>2
  <2>1. CASE n >= Slots
    <3>1. \A at \in Nat : at + n >= Slots
      BY <2>1, SizeAssumption
    <3>2. \A at \in Nat : at + (n + 1) >= Slots => Ok(f, at)
      BY <3>1
    <3> HIDE DEF Total, Ok
    <3> QED BY <3>2
  <2>2. CASE ~(n >= Slots)
    <3> DEFINE a == (Slots - n) - 1
               v == Loop(h, g, name, f, a)
               d == [f EXCEPT ![a] = v]
    <3>1. a \in Nat /\ a < Slots /\ a \in Unit
      BY <2>2, SizeAssumption DEF Unit
    <3>2. Total(d) /\ d[a] = v /\ \A at \in Nat \ {a} : d[at] = f[at]
      BY <3>1
    <3>3. ASSUME NEW at \in Nat, at + (n + 1) >= Slots
          PROVE  Ok(d, at)
      <4>1. at >= a
        BY <2>2, <3>3, SizeAssumption
      <4>2. at < Slots => at \in Unit
        BY SizeAssumption DEF Unit
      <4>3. at < Slots => at + Past(Unit0(h, g, at)) \in Nat \ {a}
        BY <3>1, <4>1, <4>2 DEF Measures
      <4>4. Loop(h, g, name, d, at) = Loop(h, g, name, f, at)
        <5> HIDE DEF d, v, a
        <5>1. CASE at >= Slots
          BY <5>1 DEF Loop
        <5>2. CASE ~(at >= Slots)
          <6>1. d[at + Past(Unit0(h, g, at))] = f[at + Past(Unit0(h, g, at))]
            BY <3>2, <4>3, <5>2, SizeAssumption
          <6> QED BY <6>1 DEF Loop
        <5> QED BY <5>1, <5>2
      <4>5. CASE at = a
        <5> HIDE DEF d
        <5> QED BY <3>2, <4>4, <4>5
      <4>6. CASE at # a
        <5>1. at + n >= Slots
          BY <2>2, <4>1, <4>6, <3>1, SizeAssumption
        <5>2. f[at] = Loop(h, g, name, f, at)
          BY <5>1
        <5> HIDE DEF d
        <5> QED BY <3>2, <4>4, <4>6, <5>2
      <4> QED BY <4>5, <4>6
    <3> HIDE DEF d, Total, Ok
    <3> QED BY <3>2, <3>3
  <2> QED BY <2>1, <2>2
<1>3. Slots \in S
  <2> HIDE DEF S
  <2> QED BY <1>1, <1>2, Induct, SizeAssumption
<1>4. PICK f : Total(f) /\ \A at \in Nat : at + Slots >= Slots => Ok(f, at)
  BY <1>3
<1>5. \A at \in Nat : f[at] = Loop(h, g, name, f, at)
  <2>1. \A at \in Nat : at + Slots >= Slots
    BY SizeAssumption
  <2> QED BY <1>4, <2>1
<1>6. f = [at \in Nat |-> Loop(h, g, name, f, at)]
  BY <1>4, <1>5
<1> QED BY <1>6

\* What find_in_dir_block returns is the loop's answer at the first offset.
LEMMA FirstInLoop ==
  ASSUME NEW h, NEW g, NEW name, Measures(h, g)
  PROVE  \E f : /\ f = [at \in Nat |-> Loop(h, g, name, f, at)]
                /\ FirstIn(h, g, name) = f[0]
<1> DEFINE F == CHOOSE f : f = [at \in Nat |-> Loop(h, g, name, f, at)]
<1>1. F = [at \in Nat |-> Loop(h, g, name, F, at)]
  BY LoopExists
<1>2. FirstIn(h, g, name) = F[0]
  BY DEF FirstIn, Loop, Unit0, Hits
<1> QED BY <1>1, <1>2

-----------------------------------------------------------------------------
\* What the blocks of a file system hold.
Nothing == {[is |-> "garbage"], [is |-> "none"]}

LEMMA BlocksTyped ==
  ASSUME NEW f \in DOMAIN Images, NEW b \in DOMAIN Images[f].blocks
  PROVE  /\ b \in Nat \ {0} /\ b # Unset
         /\ \A u \in Unit : UnitOf(f, b, u) \in Content
<1> PICK B : B = Images[f].blocks
  OBVIOUS
<1>1. B \in Seq([1 .. Slots -> Content]) /\ Len(B) < Unset
  BY ImageAssumption
<1>2. b \in 1 .. Len(B) /\ B[b] \in [1 .. Slots -> Content] /\ Len(B) \in Nat
  BY <1>1
<1>3. b \in Nat \ {0} /\ b # Unset
  BY <1>1, <1>2, SizeAssumption DEF Unset
<1>4. \A u \in Unit : u + 1 \in 1 .. Slots
  BY SizeAssumption DEF Unit
<1>5. \A u \in Unit : UnitOf(f, b, u) = B[b][u + 1]
  BY DEF UnitOf
<1> QED BY <1>2, <1>3, <1>4, <1>5

LEMMA InTyped ==
  ASSUME fs \in DOMAIN Images, NEW h, NEW u \in Unit
  PROVE  In(h, u) \in Content \cup Nothing
<1>1. CASE h[u] \in DOMAIN image.blocks
  <2>1. In(h, u) = UnitOf(fs, h[u], u)
    BY <1>1 DEF In, image, UnitOf
  <2> QED BY <1>1, <2>1, BlocksTyped DEF image
<1>2. CASE h[u] \notin DOMAIN image.blocks
  BY <1>2 DEF In, Nothing
<1> QED BY <1>1, <1>2

LEMMA UnitsTyped ==
  ASSUME NEW f \in DOMAIN Images, NEW k \in Units[f]
  PROVE  k \in Content
<1>1. PICK b \in DOMAIN Images[f].blocks, u \in 1 .. Slots : k = Images[f].blocks[b][u]
  BY DEF Units
<1>2. Images[f].blocks \in Seq([1 .. Slots -> Content])
  BY ImageAssumption
<1>3. Images[f].blocks[b] \in [1 .. Slots -> Content]
  BY <1>2
<1> QED BY <1>1, <1>3

LEMMA AsTyped ==
  ASSUME fs \in DOMAIN Images, NEW kind \in {"group", "inode", "block", "entry"},
         NEW u \in Content \cup Nothing, NEW x \in As(kind, u)
  PROVE  x \in Content /\ x.is = kind
<1>1. Zero(kind) \in Content /\ Zero(kind).is = kind
  BY EmptySeq, SizeAssumption
     DEF Zero, Content, GroupKind, InodeKind, BlockKind, EntryKind
<1>2. CASE u.is = kind
  <2>1. u \in Content
    BY <1>2 DEF Nothing
  <2> QED BY <1>2, <2>1 DEF As
<1>3. CASE u.is # kind
  <2>1. x = Zero(kind) \/ (x \in Units[fs] /\ x.is = kind)
    BY <1>3 DEF As
  <2> QED BY <1>1, <2>1, UnitsTyped
<1> QED BY <1>2, <1>3

LEMMA KindOf ==
  ASSUME NEW x \in Content
  PROVE  /\ x.is = "group" => x \in GroupKind
         /\ x.is = "inode" => x \in InodeKind
         /\ x.is = "block" => x \in BlockKind
         /\ x.is = "entry" => x \in EntryKind
  BY DEF Content, GroupKind, InodeKind, BlockKind, EntryKind

LEMMA MeasuresHold ==
  ASSUME fs \in DOMAIN Images, NEW h, NEW g \in EntryKind
  PROVE  Measures(h, g)
<1> SUFFICES ASSUME NEW at \in Unit PROVE Past(Unit0(h, g, at)) \in Nat \ {0}
  BY DEF Measures
<1>1. Unit0(h, g, at) \in EntryKind
  <2>1. In(h, at) \in Content \cup Nothing
    BY InTyped
  <2>2. In(h, at).is = "entry" => In(h, at) \in Content
    BY <2>1 DEF Nothing
  <2> QED BY <2>2, KindOf DEF Unit0
<1>2. Unit0(h, g, at).size \in Nat
  BY <1>1 DEF EntryKind
<1> QED BY <1>2 DEF Past

-----------------------------------------------------------------------------
\* The rows of entries.
LEMMA StartsClosed ==
  ASSUME NEW f, NEW b
  PROVE  Closed(f, b, Starts(f, b)) /\ Starts(f, b) \subseteq Unit
<1>1. 0 \in Unit
  BY SizeAssumption DEF Unit
<1> QED BY <1>1 DEF Closed, Starts

LEMMA StartsLeast ==
  ASSUME NEW f, NEW b, NEW S \in SUBSET Unit, Closed(f, b, S)
  PROVE  Starts(f, b) \subseteq S
  BY DEF Starts

\* find_in_dir_block returns the inode of an entry that the name begins with,
\* or 0 if the block has none (ext2.c:163-183).
LEMMA FirstInRight ==
  ASSUME fs \in DOMAIN Images, NEW b \in DOMAIN image.blocks, NEW h,
         \A u \in Unit : In(h, u) = UnitOf(fs, b, u),
         \A e \in Row(fs, b) : e.is = "entry",
         NEW g \in EntryKind, NEW name,
         \A e \in Row(fs, b) : Hits(e, name) => e.inode # 0,
         NEW i, i = FirstIn(h, g, name)
  PROVE  /\ i = 0 => \A e \in Row(fs, b) : ~Hits(e, name)
         /\ i # 0 => \E e \in Row(fs, b) : Hits(e, name) /\ e.inode = i
<1> DEFINE St == Starts(fs, b)
           U(u) == UnitOf(fs, b, u)
<1>1. PICK f : /\ f = [at \in Nat |-> Loop(h, g, name, f, at)]
               /\ i = f[0]
  BY MeasuresHold, FirstInLoop
<1>2. ASSUME NEW u \in St
      PROVE  /\ u \in Unit /\ u \in Nat /\ u < Slots /\ U(u) \in EntryKind
             /\ U(u) \in Row(fs, b) /\ U(u).is = "entry"
             /\ Past(U(u)) \in Nat \ {0}
             /\ Hits(U(u), name) => f[u] = U(u).inode
             /\ ~Hits(U(u), name) => f[u] = f[u + Past(U(u))]
             /\ u + Past(U(u)) < Slots => u + Past(U(u)) \in St
             /\ u + Past(U(u)) >= Slots => f[u + Past(U(u))] = 0
  <2>1. u \in Unit /\ U(u) \in Row(fs, b)
    BY StartsClosed DEF Row
  <2>2. U(u).is = "entry" /\ U(u) \in Content
    BY <2>1, BlocksTyped DEF image
  <2>3. U(u) \in EntryKind
    BY <2>2, KindOf
  <2>4. U(u).size \in Nat
    BY <2>3 DEF EntryKind
  <2>5. Past(U(u)) \in Nat \ {0}
    BY <2>4 DEF Past
  <2>6. u \in Nat /\ u < Slots
    BY <2>1, SizeAssumption DEF Unit
  <2>7. Unit0(h, g, u) = U(u)
    BY <2>1, <2>2 DEF Unit0
  <2> DEFINE v == u + Past(U(u))
  <2>8. v \in Nat /\ f[u] = Loop(h, g, name, f, u) /\ f[v] = Loop(h, g, name, f, v)
    BY <1>1, <2>5, <2>6
  <2>9. v < Slots => v \in Unit
    BY <2>8, SizeAssumption DEF Unit
  <2>10. v \in Unit => v \in St
    BY <2>2, StartsClosed DEF Closed
  <2>11. ~(u >= Slots)
    BY <2>6, SizeAssumption
  <2>12. v >= Slots => f[v] = 0
    BY <2>8 DEF Loop
  <2>13. /\ Hits(U(u), name) => f[u] = U(u).inode
         /\ ~Hits(U(u), name) => f[u] = f[v]
    BY <2>7, <2>8, <2>11 DEF Loop
  <2> QED BY <2>1, <2>2, <2>3, <2>5, <2>6, <2>9, <2>10, <2>12, <2>13
<1>3. \A e \in Row(fs, b) : \E u \in St : e = U(u)
  BY DEF Row
<1>4. 0 \in St /\ St \subseteq Unit
  BY StartsClosed DEF Closed
<1>5. ASSUME i = 0, NEW e \in Row(fs, b)
      PROVE  ~Hits(e, name)
  <2> DEFINE S == {u \in St : f[u] = 0}
  <2>1. Closed(fs, b, S)
    <3>1. 0 \in S
      BY <1>1, <1>4, <1>5
    <3>2. ASSUME NEW u \in S, u + Past(U(u)) \in Unit
          PROVE  u + Past(U(u)) \in S
      <4>1. u + Past(U(u)) < Slots
        BY <3>2, SizeAssumption DEF Unit
      <4>2. ~Hits(U(u), name)
        BY <1>2
      <4> QED BY <1>2, <4>1, <4>2
    <3> HIDE DEF S
    <3> QED BY <3>1, <3>2 DEF Closed
  <2>2. St \subseteq S
    <3>1. S \in SUBSET Unit
      BY <1>4
    <3> HIDE DEF S
    <3> QED BY <2>1, <3>1, StartsLeast
  <2>3. PICK u \in St : e = U(u)
    BY <1>3
  <2>4. f[u] = 0
    BY <2>2
  <2> QED BY <1>2, <2>3, <2>4
<1>6. ASSUME i # 0, \A e \in Row(fs, b) : ~(Hits(e, name) /\ e.inode = i)
      PROVE  FALSE
  <2> DEFINE S == {u \in St : f[u] = i}
  <2>0. ASSUME NEW u \in S
        PROVE  f[u + Past(U(u))] = i /\ u + Past(U(u)) < Slots
               /\ u + Past(U(u)) \in S
    <3>1. U(u) \in Row(fs, b) /\ f[u] = i
      BY <1>2
    <3>2. ~Hits(U(u), name)
      BY <1>2, <1>6, <3>1
    <3>3. f[u + Past(U(u))] = i
      BY <1>2, <3>1, <3>2
    <3>4. u + Past(U(u)) \in Nat
      BY <1>2
    <3>5. u + Past(U(u)) < Slots
      BY <1>2, <1>6, <3>3, <3>4, SizeAssumption
    <3> QED BY <1>2, <3>3, <3>5
  <2>1. 0 \in S
    BY <1>1, <1>4
  <2> DEFINE T == {Slots - u : u \in S}
  <2>2. T \in SUBSET Nat /\ T # {}
    <3>1. \A u \in S : Slots - u \in Nat
      BY <1>2, SizeAssumption
    <3> QED BY <2>1, <3>1
  <2>3. PICK x \in T : \A y \in T : x <= y
    <3> HIDE DEF T
    <3> QED BY <2>2, Least
  <2>4. PICK u \in S : x = Slots - u
    OBVIOUS
  <2>5. u + Past(U(u)) \in S
    BY <2>0
  <2>6. Slots - (u + Past(U(u))) \in T
    BY <2>5
  <2>7. x <= Slots - (u + Past(U(u)))
    BY <2>3, <2>6
  <2>8. u \in Nat /\ Past(U(u)) \in Nat \ {0}
    BY <1>2
  <2> QED BY <2>4, <2>7, <2>8, SizeAssumption
<1> QED BY <1>5, <1>6

-----------------------------------------------------------------------------
\* The walk along a path exists, and goes as it is written.
Step(f, p, at, k) ==
  IF k = 0 THEN Root
  ELSE IF at[k - 1] \in DOMAIN Images[f].entries
       THEN Named(f, at[k - 1], p[k]) ELSE 0

LEMMA WalkExists ==
  ASSUME NEW f, NEW p, NEW L \in Nat
  PROVE  \E at : at = [k \in 0 .. L |-> Step(f, p, at, k)]
<1> DEFINE Total(at) == at = [k \in 0 .. L |-> at[k]]
           S == {n \in Nat : \E at : /\ Total(at)
                                    /\ \A k \in 0 .. L : k < n => at[k] = Step(f, p, at, k)}
<1>1. 0 \in S
  <2> DEFINE z == [k \in 0 .. L |-> 0]
  <2>1. Total(z) /\ \A k \in 0 .. L : ~(k < 0)
    OBVIOUS
  <2> HIDE DEF z, Total
  <2> QED BY <2>1
<1>2. ASSUME NEW n \in Nat, n \in S
      PROVE  n + 1 \in S
  <2> PICK at : Total(at) /\ \A k \in 0 .. L : k < n => at[k] = Step(f, p, at, k)
    BY <1>2
  <2> DEFINE v == Step(f, p, at, n)
             d == [at EXCEPT ![n] = v]
  <2>1. Total(d) /\ (n \in 0 .. L => d[n] = v) /\ \A k \in (0 .. L) \ {n} : d[k] = at[k]
    OBVIOUS
  <2>2. ASSUME NEW k \in 0 .. L, k < n + 1
        PROVE  d[k] = Step(f, p, d, k)
    <3> HIDE DEF v, d
    <3>1. k # 0 => d[k - 1] = at[k - 1]
      <4> SUFFICES ASSUME k # 0 PROVE d[k - 1] = at[k - 1]
        OBVIOUS
      <4>1. k - 1 \in (0 .. L) \ {n}
        BY <2>2
      <4> QED BY <2>1, <4>1
    <3>2. Step(f, p, d, k) = Step(f, p, at, k)
      BY <3>1 DEF Step
    <3>3. CASE k = n
      BY <2>1, <3>2, <3>3 DEF v
    <3>4. CASE k # n
      <4>1. k < n /\ k \in (0 .. L) \ {n}
        BY <2>2, <3>4
      <4> QED BY <2>1, <3>2, <4>1
    <3> QED BY <3>3, <3>4
  <2> HIDE DEF d, Total
  <2> QED BY <2>1, <2>2
<1>3. L + 1 \in S
  <2> HIDE DEF S
  <2> QED BY <1>1, <1>2, Induct
<1>4. PICK at : Total(at) /\ \A k \in 0 .. L : k < L + 1 => at[k] = Step(f, p, at, k)
  BY <1>3
<1>5. \A k \in 0 .. L : at[k] = Step(f, p, at, k)
  BY <1>4
<1>6. at = [k \in 0 .. L |-> Step(f, p, at, k)]
  BY <1>4, <1>5
<1> QED BY <1>6

LEMMA WalkSteps ==
  ASSUME NEW f, NEW p, Len(p) \in Nat
  PROVE  /\ Walk(f, p)[0] = Root
         /\ \A k \in 0 .. Len(p) : k # 0 =>
              Walk(f, p)[k] = IF Walk(f, p)[k - 1] \in DOMAIN Images[f].entries
                              THEN Named(f, Walk(f, p)[k - 1], p[k]) ELSE 0
<1> DEFINE A == CHOOSE at : at = [k \in 0 .. Len(p) |-> Step(f, p, at, k)]
<1>1. A = [k \in 0 .. Len(p) |-> Step(f, p, A, k)]
  BY WalkExists
<1>2. Walk(f, p) = A
  BY DEF Walk, Step
<1> HIDE DEF A
<1>3. \A k \in 0 .. Len(p) : A[k] = Step(f, p, A, k)
  BY <1>1
<1>4. 0 \in 0 .. Len(p)
  OBVIOUS
<1> QED BY <1>2, <1>3, <1>4 DEF Step

-----------------------------------------------------------------------------
\* A call that has met no failure sees what the disk holds.
Sound(c) == c.clean => WrongIn(c) = {}

LEMMA FetchedSound ==
  ASSUME NEW c, Shaped(c), Sound(c), NEW n \in Buffer, NEW b,
         NEW d \in Fetched(c, n, b)
  PROVE  /\ Shaped(d) /\ Sound(d) /\ (d.clean => c.clean)
         /\ d.tag[n] = b /\ \A m \in Buffer \ {n} : d.tag[m] = c.tag[m]
         /\ d.clean /\ b \in DOMAIN image.blocks =>
              \A u \in Unit : d.held[n][u] = b
<1>1. Shaped(d)
  BY FetchedLater DEF Later
<1>2. /\ d.tag[n] = b /\ \A m \in Buffer \ {n} : d.tag[m] = c.tag[m]
      /\ d.clean => /\ c.clean
                    /\ \/ d.held = c.held /\ d.tag = c.tag
                       \/ /\ \A u \in Unit : d.held[n][u] = b
                          /\ \A m \in Buffer \ {n} : d.held[m] = c.held[m]
  <2> DEFINE filled(k, f, ok) ==
               [held |-> [c.held EXCEPT ![n] =
                            [u \in Unit |-> IF u < k THEN b ELSE c.held[n][u]]],
                tag |-> [c.tag EXCEPT ![n] = b],
                failures |-> c.failures + f, clean |-> c.clean /\ ok]
  <2>1. \/ d = c /\ c.tag[n] = b
        \/ d = filled(Slots, 0, TRUE)
        \/ \E k, f : d = filled(k, f, FALSE)
    BY DEF Fetched, Hit, Whole
  <2>2. ASSUME NEW k, NEW f, NEW ok, d = filled(k, f, ok)
        PROVE  /\ d.tag[n] = b /\ \A m \in Buffer \ {n} : d.tag[m] = c.tag[m]
               /\ d.clean = (c.clean /\ ok)
               /\ \A u \in Unit : d.held[n][u] = IF u < k THEN b ELSE c.held[n][u]
               /\ \A m \in Buffer \ {n} : d.held[m] = c.held[m]
    BY <2>2 DEF Shaped
  <2> HIDE DEF filled
  <2>3. CASE d = c /\ c.tag[n] = b
    BY <2>3
  <2>4. CASE d = filled(Slots, 0, TRUE)
    <3>1. \A u \in Unit : u < Slots
      BY SizeAssumption DEF Unit
    <3>2. /\ d.tag[n] = b /\ \A m \in Buffer \ {n} : d.tag[m] = c.tag[m]
          /\ d.clean = (c.clean /\ TRUE)
          /\ \A u \in Unit : d.held[n][u] = IF u < Slots THEN b ELSE c.held[n][u]
          /\ \A m \in Buffer \ {n} : d.held[m] = c.held[m]
      BY <2>2, <2>4, Zenon
    <3>3. d.clean => c.clean
      BY <3>2
    <3> QED BY <3>1, <3>2, <3>3
  <2>5. CASE \E k, f : d = filled(k, f, FALSE)
    <3> PICK k, f : d = filled(k, f, FALSE)
      BY <2>5
    <3>1. /\ d.tag[n] = b /\ \A m \in Buffer \ {n} : d.tag[m] = c.tag[m]
          /\ d.clean = (c.clean /\ FALSE)
      BY <2>2, Zenon
    <3>2. ~d.clean
      BY <3>1
    <3> QED BY <3>1, <3>2
  <2> QED BY <2>1, <2>3, <2>4, <2>5
<1>3. Sound(d)
  <2> SUFFICES ASSUME d.clean, NEW m \in WrongIn(d) PROVE FALSE
    BY DEF Sound
  <2>1. c.clean /\ WrongIn(c) = {}
    BY <1>2 DEF Sound
  <2>2. CASE d.held = c.held /\ d.tag = c.tag
    BY <2>1, <2>2 DEF WrongIn
  <2>3. CASE /\ \A u \in Unit : d.held[n][u] = b
             /\ \A x \in Buffer \ {n} : d.held[x] = c.held[x]
    <3>1. m # n
      BY <1>2, <2>3 DEF WrongIn
    <3>2. d.tag[m] = c.tag[m] /\ d.held[m] = c.held[m] /\ m \in Buffer
      BY <1>2, <2>3, <3>1 DEF WrongIn
    <3>3. m \in WrongIn(c)
      BY <3>2 DEF WrongIn
    <3> QED BY <2>1, <3>3
  <2> QED BY <1>2, <2>2, <2>3
<1>4. ASSUME d.clean, b \in DOMAIN image.blocks, NEW u \in Unit
      PROVE  d.held[n][u] = b
  BY <1>2, <1>3, <1>4 DEF Sound, WrongIn
<1> QED BY <1>1, <1>2, <1>3, <1>4

\* What a buffer in order shows of a block.
LEMMA Seen ==
  ASSUME NEW h, NEW b \in DOMAIN image.blocks, NEW u \in Unit, h[u] = b
  PROVE  In(h, u) = UnitOf(fs, b, u)
  BY DEF In, image, UnitOf

LEMMA UnitsInside ==
  ASSUME NEW i \in Nat
  PROVE  GroupUnit(i) \in Unit /\ InodeUnit(i) \in Unit
<1> DEFINE x == Index(i)
<1>1. x \in Nat
  BY SizeAssumption DEF Index
<1> HIDE DEF x
<1>2. Group(i) \in Nat
  BY <1>1, SizeAssumption DEF Group, x
<1>3. Group(i) % GroupsPerBlock \in 0 .. GroupsPerBlock - 1
  BY <1>2, SizeAssumption
<1>4. x % InodesPerGroup \in Nat
  BY <1>1, SizeAssumption
<1>5. (x % InodesPerGroup) % InodesPerBlock \in 0 .. InodesPerBlock - 1
  BY <1>4, SizeAssumption
<1> QED BY <1>3, <1>5, SizeAssumption DEF GroupUnit, InodeUnit, Unit, x

\* An inode is read through two reads, each sound.
LEMMA OpenSound ==
  ASSUME NEW c, Shaped(c), Sound(c), NEW i, NEW o \in Open(i, c)
  PROVE  /\ Shaped(o.cache) /\ Sound(o.cache) /\ (o.cache.clean => c.clean)
         /\ \E c1 \in Fetched(c, "groups", GroupBlock(i)) :
            \E g \in As("group", In(c1.held["groups"], GroupUnit(i))) :
            \E c2 \in Fetched(c1, "inodes", InodeBlock(g, i)) :
              /\ Shaped(c1) /\ Sound(c1)
              /\ o.cache = c2
              /\ o.inode \in As("inode", In(c2.held["inodes"], InodeUnit(i)))
<1>1. PICK c1 \in Fetched(c, "groups", GroupBlock(i)) :
        \E g \in As("group", In(c1.held["groups"], GroupUnit(i))) :
        \E c2 \in Fetched(c1, "inodes", InodeBlock(g, i)) :
          /\ o.cache = c2
          /\ o.inode \in As("inode", In(c2.held["inodes"], InodeUnit(i)))
  BY DEF Open
<1>2. PICK g, c2 :
          /\ g \in As("group", In(c1.held["groups"], GroupUnit(i)))
          /\ c2 \in Fetched(c1, "inodes", InodeBlock(g, i)) /\ o.cache = c2
          /\ o.inode \in As("inode", In(c2.held["inodes"], InodeUnit(i)))
  BY <1>1
<1>3. "groups" \in Buffer /\ "inodes" \in Buffer
  BY DEF Buffer
<1>4. Shaped(c1) /\ Sound(c1) /\ (c1.clean => c.clean)
  BY <1>3, FetchedSound
<1>5. Shaped(c2) /\ Sound(c2) /\ (c2.clean => c1.clean)
  BY <1>2, <1>3, <1>4, FetchedSound
<1> QED BY <1>2, <1>4, <1>5

\* The inode that is read of a directory is the one the disk holds, unless a
\* read has failed (ext2.c:53-68).
LEMMA OpenRight ==
  ASSUME fs \in DOMAIN Images, NEW c, Shaped(c), Sound(c),
         NEW d \in Nat, Placed(fs, d), NEW o \in Open(d, c), o.cache.clean
  PROVE  o.inode = InodeOf(fs, d)
<1>1. Placed(fs, d) /\ d \in Nat
  OBVIOUS
<1>2. PICK c1 \in Fetched(c, "groups", GroupBlock(d)) :
        \E g \in As("group", In(c1.held["groups"], GroupUnit(d))) :
        \E c2 \in Fetched(c1, "inodes", InodeBlock(g, d)) :
          /\ Shaped(c1) /\ Sound(c1)
          /\ o.cache = c2
          /\ o.inode \in As("inode", In(c2.held["inodes"], InodeUnit(d)))
  BY OpenSound
<1>3. PICK g, c2 :
          /\ g \in As("group", In(c1.held["groups"], GroupUnit(d)))
          /\ Shaped(c1) /\ Sound(c1)
          /\ c2 \in Fetched(c1, "inodes", InodeBlock(g, d)) /\ o.cache = c2
          /\ o.inode \in As("inode", In(c2.held["inodes"], InodeUnit(d)))
  BY <1>2
<1>4. "groups" \in Buffer /\ "inodes" \in Buffer
  BY DEF Buffer
<1>5. GroupUnit(d) \in Unit /\ InodeUnit(d) \in Unit
  BY <1>1, UnitsInside
<1>6. c1.clean /\ c2.clean
  BY <1>3, <1>4, FetchedSound
<1>7. GroupBlock(d) \in DOMAIN image.blocks /\ GroupOf(fs, d).is = "group"
  BY <1>1 DEF Placed, image
<1>8. c1.held["groups"][GroupUnit(d)] = GroupBlock(d)
  BY <1>4, <1>5, <1>6, <1>7, FetchedSound
<1>9. In(c1.held["groups"], GroupUnit(d)) = GroupOf(fs, d)
  BY <1>5, <1>7, <1>8, Seen DEF GroupOf
<1>10. g = GroupOf(fs, d)
  BY <1>3, <1>7, <1>9 DEF As
<1>11. InodeBlock(g, d) \in DOMAIN image.blocks /\ InodeOf(fs, d).is = "inode"
  BY <1>1, <1>10 DEF Placed, image
<1>12. c2.held["inodes"][InodeUnit(d)] = InodeBlock(g, d)
  BY <1>3, <1>4, <1>5, <1>6, <1>11, FetchedSound
<1>13. In(c2.held["inodes"], InodeUnit(d)) = InodeOf(fs, d)
  BY <1>5, <1>10, <1>11, <1>12, Seen DEF InodeOf
<1> QED BY <1>3, <1>11, <1>13 DEF As

\* The number of a directory's block, while the indirect block stays where it
\* was put (ext2.c:194-199).
LEMMA NumberedRight ==
  ASSUME fs \in DOMAIN Images, Shaped(Cache), Sound(Cache),
         j \in 0 .. Direct + Slots, NEW o \in Numbered
  PROVE  /\ Shaped(o.cache) /\ Sound(o.cache) /\ (o.cache.clean => clean)
         /\ j = Direct + Slots => o.block = 0
         /\ o.cache.clean /\ (j > Direct /\ node.ind # 0 => tag["inodes"] = node.ind)
            /\ (\E d \in DOMAIN image.entries : node = InodeOf(fs, d)) =>
              /\ o.block = BlockOf(fs, node, j)
              /\ j >= Direct /\ o.block # 0 => o.cache.tag["inodes"] = node.ind
<1>0. "inodes" \in Buffer /\ Cache.clean = clean /\ Cache.tag = tag
      /\ Direct \in Nat /\ Slots \in Nat
  BY SizeAssumption DEF Buffer, Cache
<1>1. CASE j < Direct
  <2>1. o.cache = Cache /\ o.block = node.blocks[j + 1] /\ j # Direct + Slots
        /\ ~(j >= Direct)
    BY <1>0, <1>1 DEF Numbered
  <2> QED BY <1>0, <1>1, <2>1 DEF BlockOf
<1>2. CASE ~(j < Direct) /\ (node.ind = 0 \/ j = Direct + Slots)
  BY <1>0, <1>2 DEF Numbered, BlockOf
<1>3. CASE ~(j < Direct) /\ node.ind # 0 /\ j # Direct + Slots
  <2>1. PICK c \in IF j = Direct THEN Fetched(Cache, "inodes", node.ind) ELSE {Cache} :
          \E p \in As("block", In(c.held["inodes"], j - Direct)) :
            o = [cache |-> c, block |-> p.to]
    BY <1>3 DEF Numbered
  <2>2. PICK p \in As("block", In(c.held["inodes"], j - Direct)) :
            o = [cache |-> c, block |-> p.to]
    BY <2>1
  <2>3. /\ Shaped(c) /\ Sound(c) /\ (c.clean => clean)
        /\ j = Direct => c.tag["inodes"] = node.ind
        /\ j # Direct => c.tag = tag
    <3>1. CASE j = Direct
      BY <1>0, <2>1, <3>1, FetchedSound
    <3>2. CASE j # Direct
      BY <1>0, <2>1, <3>2
    <3> QED BY <3>1, <3>2
  <2>4. ASSUME c.clean, j > Direct /\ node.ind # 0 => tag["inodes"] = node.ind,
               NEW d \in DOMAIN image.entries, node = InodeOf(fs, d)
        PROVE  p.to = BlockOf(fs, node, j) /\ c.tag["inodes"] = node.ind
    <3>1. IsDirectory(fs, d)
      BY DirectoryAssumption DEF image
    <3>2. node.ind \in DOMAIN image.blocks
          /\ \A u \in Unit : UnitOf(fs, node.ind, u).is = "block"
      BY <1>3, <2>4, <3>1 DEF IsDirectory, image
    <3>3. j - Direct \in Unit
      BY <1>0, <1>3 DEF Unit
    <3>4. c.tag["inodes"] = node.ind
      <4>1. CASE j = Direct
        BY <2>3, <4>1
      <4>2. CASE j # Direct
        BY <1>0, <1>3, <2>3, <2>4, <4>2
      <4> QED BY <4>1, <4>2
    <3>5. c.held["inodes"][j - Direct] = node.ind
      BY <1>0, <2>3, <2>4, <3>2, <3>3, <3>4 DEF Sound, WrongIn
    <3>6. In(c.held["inodes"], j - Direct) = UnitOf(fs, node.ind, j - Direct)
      BY <3>2, <3>3, <3>5, Seen
    <3>7. p = UnitOf(fs, node.ind, j - Direct)
      BY <2>2, <3>2, <3>3, <3>6 DEF As
    <3> QED BY <1>3, <3>4, <3>7 DEF BlockOf
  <2>5. o.cache = c /\ o.block = p.to
    BY <2>2
  <2> QED BY <1>3, <2>3, <2>4, <2>5
<1> QED BY <1>1, <1>2, <1>3

-----------------------------------------------------------------------------
\* What a directory's blocks say of a name, and what its entries say.
LEMMA NameAbsent ==
  ASSUME NEW f \in DOMAIN Images, NEW d \in DOMAIN Images[f].entries,
         NEW name \in Seq(STRING), NEW m \in 0 .. Direct + Slots,
         BlockOf(f, InodeOf(f, d), m) = 0,
         \A k \in 0 .. m - 1 : \A e \in Row(f, BlockOf(f, InodeOf(f, d), k)) : ~Hits(e, name)
  PROVE  Named(f, d, name) = 0
<1> DEFINE n == InodeOf(f, d)
<1>1. IsDirectory(f, d)
  BY DirectoryAssumption
<1>2. Prefix(name, name)
  BY SubSeqFull DEF Prefix
<1>3. ASSUME NEW e \in Images[f].entries[d], e.name = name
      PROVE  FALSE
  <2>1. PICK k \in Used(f, n) : e \in Row(f, BlockOf(f, n, k))
    BY <1>1 DEF IsDirectory
  <2>2. e.size # 0 /\ e.name # <<>>
    BY <1>1 DEF IsDirectory
  <2>3. k \in Nat /\ m \in Nat /\ \A i \in 0 .. k : BlockOf(f, n, i) # 0
    BY SizeAssumption DEF Used
  <2>4. k < m
    BY <2>3
  <2>5. ~Hits(e, name)
    BY <2>1, <2>3, <2>4
  <2> QED BY <1>2, <1>3, <2>2, <2>5 DEF Hits, Match
<1> QED BY <1>3 DEF Named

LEMMA NamePresent ==
  ASSUME NEW f \in DOMAIN Images, NEW d \in DOMAIN Images[f].entries, NEW name,
         \A e \in Images[f].entries[d] : Prefix(e.name, name) => e.name = name /\ e.inode # 0,
         NEW k \in Used(f, InodeOf(f, d)),
         NEW e \in Row(f, BlockOf(f, InodeOf(f, d), k)), Hits(e, name)
  PROVE  e.inode # 0 /\ Named(f, d, name) = e.inode
<1> DEFINE es == {x \in Images[f].entries[d] : x.name = name /\ x.inode # 0}
<1>1. IsDirectory(f, d)
  BY DirectoryAssumption
<1>2. e \in Images[f].entries[d]
  BY <1>1 DEF IsDirectory, Hits
<1>3. e \in es
  BY <1>2 DEF Hits, Match
<1>4. \A x \in es : x.inode = e.inode
  BY <1>1, <1>3 DEF IsDirectory
<1>5. (CHOOSE x \in es : TRUE) \in es
  BY <1>3
<1> QED BY <1>3, <1>4, <1>5 DEF Named

-----------------------------------------------------------------------------
\* A lookup under way: k names of the path are behind it, and if nothing has
\* led it astray it is where the walk is; the blocks of this directory that it
\* has been through do not hold the next name.
Looking == {"open", "search", "found"}

Misses(name, k) == /\ BlockOf(fs, node, k) # 0
                   /\ \A e \in Row(fs, BlockOf(fs, node, k)) : ~Hits(e, name)

Searched ==
  /\ node = InodeOf(fs, dir)
  /\ j > Direct /\ node.ind # 0 => tag["inodes"] = node.ind
  /\ \A k \in 0 .. j - 1 : Misses(Head(path), k)

OnWay(k) ==
  /\ path = SubSeq(goal, k + 1, Len(goal))
  /\ pc = "found" => k = Len(goal) /\ answer = dir
  /\ pc # "found" => k < Len(goal)
  /\ clean /\ Plain(fs, goal) => /\ dir = Walk(fs, goal)[k]
                                 /\ pc = "search" => Searched

Sought == /\ goal \in Paths /\ Sound(Cache)
          /\ \E k \in 0 .. Len(goal) : OnWay(k)

LookInv ==
  /\ pc \notin {"search", "halted"} => j = 0
  /\ pc = "search" => j \in 0 .. Direct + Slots
  /\ pc \in Looking => Sought

\* A path, and what is left of it.
LEMMA PathLeft ==
  ASSUME NEW p \in Paths, NEW k \in 0 .. Len(p), k < Len(p),
         NEW q, q = SubSeq(p, k + 1, Len(p))
  PROVE  /\ p \in Seq(Seq(STRING)) /\ Len(p) \in Nat
         /\ k + 1 \in 1 .. Len(p) /\ p[k + 1] \in Seq(STRING)
         /\ Head(q) = p[k + 1] /\ Len(q) = Len(p) - k
         /\ Tail(q) = SubSeq(p, k + 2, Len(p))
<1>1. p \in Seq(Seq(STRING)) /\ Len(p) \in Nat
  BY PathAssumption
<1>2. k + 1 \in 1 .. Len(p) /\ p[k + 1] \in Seq(STRING)
  BY <1>1
<1>3. /\ q \in Seq(Seq(STRING)) /\ Len(q) = Len(p) - k
      /\ \A i \in 1 .. Len(p) - k : q[i] = p[k + i]
  <2>1. k + 1 \in 1 .. Len(p) + 1 /\ Len(p) \in k .. Len(p)
    BY <1>1, <1>2
  <2>2. /\ q \in Seq(Seq(STRING)) /\ Len(q) = IF k + 1 <= Len(p) THEN Len(p) - (k + 1) + 1 ELSE 0
        /\ \A i \in 1 .. Len(p) - (k + 1) + 1 : q[i] = p[(k + 1) + i - 1]
    BY <1>1, <1>2, SubSeqProperties
  <2>3. Len(p) - (k + 1) + 1 = Len(p) - k /\ k + 1 <= Len(p)
    BY <1>1, <1>2
  <2>4. \A i \in 1 .. Len(p) - k : (k + 1) + i - 1 = k + i
    BY <1>1
  <2> QED BY <2>2, <2>3, <2>4
<1>4. Head(q) = p[k + 1]
  BY <1>1, <1>2, <1>3
<1>5. Tail(q) = SubSeq(p, k + 2, Len(p))
  <2>1. q # <<>>
    <3>1. Len(q) # 0
      BY <1>1, <1>3
    <3> QED BY <1>3, <3>1, EmptySeq
  <2>2. Tail(q) \in Seq(Seq(STRING)) /\ Len(Tail(q)) = (Len(p) - k) - 1
        /\ \A i \in 1 .. Len(Tail(q)) : Tail(q)[i] = q[i + 1]
    BY <1>3, <2>1, HeadTailProperties
  <2>3. /\ SubSeq(p, k + 2, Len(p)) \in Seq(Seq(STRING))
        /\ Len(SubSeq(p, k + 2, Len(p))) = (Len(p) - k) - 1
        /\ \A i \in 1 .. (Len(p) - k) - 1 : SubSeq(p, k + 2, Len(p))[i] = p[(k + 1) + i]
    <3>1. k + 2 \in Int /\ Len(p) \in Int
          /\ \A i \in k + 2 .. Len(p) : p[i] \in Seq(STRING)
      BY <1>1, <1>2
    <3> PICK m : m = k + 2
      OBVIOUS
    <3>2. /\ SubSeq(p, m, Len(p)) \in Seq(Seq(STRING))
          /\ Len(SubSeq(p, m, Len(p))) = IF m <= Len(p) THEN Len(p) - m + 1 ELSE 0
          /\ \A i \in 1 .. Len(p) - m + 1 : SubSeq(p, m, Len(p))[i] = p[m + i - 1]
      BY <3>1, SubSeqProperties
    <3>3. /\ Len(p) - m + 1 = (Len(p) - k) - 1
          /\ (IF m <= Len(p) THEN Len(p) - m + 1 ELSE 0) = (Len(p) - k) - 1
          /\ \A i \in 1 .. Len(p) - m + 1 : m + i - 1 = (k + 1) + i
      BY <1>1, <1>2
    <3> QED BY <3>2, <3>3
  <2>4. \A i \in 1 .. (Len(p) - k) - 1 : q[i + 1] = p[(k + 1) + i]
    <3> TAKE i \in 1 .. (Len(p) - k) - 1
    <3>1. i + 1 \in 1 .. Len(p) - k /\ k + (i + 1) = (k + 1) + i
      BY <1>1
    <3> QED BY <1>3, <3>1
  <2> PICK s, t : s = Tail(q) /\ t = SubSeq(p, k + 2, Len(p))
    OBVIOUS
  <2>5. /\ s \in Seq(Seq(STRING)) /\ t \in Seq(Seq(STRING)) /\ Len(s) = Len(t)
        /\ \A i \in 1 .. Len(s) : s[i] = t[i]
    BY <2>2, <2>3, <2>4
  <2> QED BY <2>5, SeqEqual
<1> QED BY <1>1, <1>2, <1>3, <1>4, <1>5

-----------------------------------------------------------------------------
\* A directory's answer takes the lookup one name on.
LEMMA FoundOnWay ==
  ASSUME goal \in Paths, NEW k \in 0 .. Len(goal), k < Len(goal),
         path = SubSeq(goal, k + 1, Len(goal)), NEW i, Found(i),
         goal' = goal, fs' = fs,
         clean' /\ Plain(fs, goal) => i = Walk(fs, goal)[k + 1]
  PROVE  pc' # "search" /\ pc' # "halted" /\ j' = 0 /\ \E m \in 0 .. Len(goal) : OnWay(m)'
<1> PICK m : m = k + 1
  OBVIOUS
<1>1. /\ Len(goal) \in Nat /\ Len(path) = Len(goal) - k
      /\ Tail(path) = SubSeq(goal, k + 2, Len(goal))
  BY PathLeft
<1>2. m \in 0 .. Len(goal) /\ k + 2 = m + 1 /\ (Len(path) = 1 <=> m = Len(goal))
  BY <1>1
<1>3. path' = SubSeq(goal', m + 1, Len(goal'))
  BY <1>1, <1>2 DEF Found
<1>4. /\ pc' = "found" => m = Len(goal') /\ answer' = dir'
      /\ pc' # "found" => m < Len(goal')
      /\ pc' # "search" /\ pc' # "halted" /\ j' = 0
  BY <1>1, <1>2 DEF Found, IsLast
<1>5. clean' /\ Plain(fs', goal') => dir' = Walk(fs', goal')[m]
  BY DEF Found
<1>6. OnWay(m)'
  BY <1>3, <1>4, <1>5 DEF OnWay
<1> QED BY <1>2, <1>4, <1>6

LEMMA FindNext ==
  ASSUME LookInv, Kept, NEW p \in Paths, Find(p)
  PROVE  LookInv'
<1>1. /\ pc = "idle" /\ pc' = "open" /\ goal' = p /\ path' = p /\ dir' = Root
      /\ j' = j /\ fs' = fs /\ clean' = (Wrong = {})
      /\ held' = held /\ tag' = tag
  BY DEF Find, Idle, disk
<1>2. p \in Seq(Seq(STRING)) /\ p # <<>>
  BY PathAssumption
<1>3. Len(p) \in Nat /\ 0 < Len(p) /\ p = SubSeq(p, 1, Len(p))
  BY <1>2, EmptySeq, SubSeqFull
<1>4. Walk(fs, p)[0] = Root
  BY <1>3, WalkSteps
<1>5. OnWay(0)'
  <2>1. path' = SubSeq(goal', 0 + 1, Len(goal'))
    BY <1>1, <1>3
  <2>2. dir' = Walk(fs', goal')[0] /\ pc' # "search" /\ pc' # "found" /\ 0 < Len(goal')
    BY <1>1, <1>3, <1>4
  <2> QED BY <2>1, <2>2 DEF OnWay
<1>6. Sound(Cache)'
  BY <1>1 DEF Sound, Cache, WrongIn, Wrong, image
<1>7. j' = 0
  BY <1>1 DEF LookInv
<1>8. Sought'
  <2>1. goal' \in Paths /\ 0 \in 0 .. Len(goal')
    BY <1>1, <1>3
  <2> QED BY <1>5, <1>6, <2>1 DEF Sought
<1> QED BY <1>1, <1>7, <1>8 DEF LookInv

LEMMA SoundCache ==
  ASSUME NEW c, Keep(c), fs' = fs, Sound(c)
  PROVE  Sound(Cache)'
<1>1. held' = c.held /\ tag' = c.tag /\ clean' = c.clean
  BY DEF Keep
<1>2. WrongIn(Cache)' = WrongIn(c)
  BY <1>1 DEF WrongIn, Cache, image
<1>3. Cache'.clean = c.clean
  BY <1>1 DEF Cache
<1> QED BY <1>2, <1>3 DEF Sound

LEMMA OpenDirNext ==
  ASSUME LookInv, Kept, OpenDir
  PROVE  LookInv'
<1>1. /\ pc = "open" /\ goal' = goal /\ fs' = fs /\ j = 0
      /\ fs \in DOMAIN Images /\ Shaped(Cache)
      /\ goal \in Paths /\ Sound(Cache) /\ Cache.clean = clean
  BY DEF OpenDir, LookInv, Looking, Sought, Kept, disk, Cache
<1> PICK k \in 0 .. Len(goal) : OnWay(k)
  BY <1>1 DEF LookInv, Looking, Sought
<1>2. k < Len(goal) /\ path = SubSeq(goal, k + 1, Len(goal))
  BY <1>1 DEF OnWay
<1>3. PICK o \in Open(dir, Cache) :
        /\ Keep(o.cache)
        /\ \/ /\ o.inode.mode = "dir"
              /\ node' = o.inode /\ pc' = "search"
              /\ UNCHANGED <<path, dir, j, answer>>
           \/ o.inode.mode # "dir" /\ Found(0)
  BY DEF OpenDir
<1>4. Sound(o.cache) /\ (o.cache.clean => clean) /\ clean' = o.cache.clean
  BY <1>1, <1>3, OpenSound DEF Keep
<1>5. Sound(Cache)'
  BY <1>1, <1>3, <1>4, SoundCache
<1>6. Len(goal) \in Nat /\ k + 1 \in 1 .. Len(goal)
  BY <1>1, <1>2, PathLeft
<1>7. ASSUME clean', Plain(fs, goal)
      PROVE  o.inode = InodeOf(fs, dir) /\ o.inode.mode = "dir" /\ dir = Walk(fs, goal)[k]
  <2>1. dir = Walk(fs, goal)[k]
    BY <1>1, <1>4, <1>7 DEF OnWay
  <2>2. dir \in DOMAIN Images[fs].entries
    <3>1. (k + 1) - 1 = k
      BY <1>6
    <3> QED BY <1>6, <1>7, <2>1, <3>1 DEF Plain
  <2>3. o.inode = InodeOf(fs, dir)
    <3>1. dir \in Nat /\ Placed(fs, dir)
      BY <1>1, <2>2, DirectoryAssumption, ImageAssumption DEF IsDirectory
    <3> QED BY <1>1, <1>4, <1>7, <3>1, OpenRight
  <2>4. InodeOf(fs, dir).mode = "dir"
    BY <1>1, <2>2, DirectoryAssumption DEF IsDirectory, Placed
  <2> QED BY <2>1, <2>3, <2>4
<1>8. CASE /\ o.inode.mode = "dir"
           /\ node' = o.inode /\ pc' = "search"
           /\ UNCHANGED <<path, dir, j, answer>>
  <2>1. j' = 0 /\ path' = path /\ dir' = dir
    BY <1>1, <1>8
  <2>2. clean' /\ Plain(fs', goal') => dir' = Walk(fs', goal')[k] /\ Searched'
    <3> SUFFICES ASSUME clean', Plain(fs, goal)
                 PROVE  dir' = Walk(fs, goal)[k] /\ Searched'
      BY <1>1
    <3>1. node' = InodeOf(fs', dir') /\ dir' = Walk(fs, goal)[k]
      BY <1>1, <1>7, <1>8, <2>1
    <3>2. ~(j' > Direct) /\ 0 .. j' - 1 = {}
      BY <2>1, SizeAssumption
    <3> QED BY <3>1, <3>2 DEF Searched
  <2>3. OnWay(k)'
    <3>1. path' = SubSeq(goal', k + 1, Len(goal')) /\ k < Len(goal') /\ pc' = "search"
      BY <1>1, <1>2, <1>8, <2>1
    <3> QED BY <2>2, <3>1 DEF OnWay
  <2>4. Sought'
    BY <1>1, <1>5, <2>3 DEF Sought
  <2>5. j' \in 0 .. Direct + Slots
    BY <2>1, SizeAssumption
  <2> QED BY <1>8, <2>4, <2>5 DEF LookInv
<1>9. CASE o.inode.mode # "dir" /\ Found(0)
  <2>1. clean' /\ Plain(fs, goal) => 0 = Walk(fs, goal)[k + 1]
    BY <1>7, <1>9
  <2>2. pc' # "search" /\ pc' # "halted" /\ j' = 0 /\ \E m \in 0 .. Len(goal) : OnWay(m)'
    BY <1>1, <1>2, <1>9, <2>1, FoundOnWay
  <2>3. Sought'
    BY <1>1, <1>5, <2>2 DEF Sought
  <2> QED BY <2>2, <2>3 DEF LookInv
<1> QED BY <1>3, <1>8, <1>9

LEMMA SearchBlockNext ==
  ASSUME LookInv, Kept, SearchBlock
  PROVE  LookInv'
<1>1. /\ pc = "search" /\ goal' = goal /\ fs' = fs /\ j \in 0 .. Direct + Slots
      /\ fs \in DOMAIN Images /\ Shaped(Cache)
      /\ goal \in Paths /\ Sound(Cache) /\ Cache.clean = clean
      /\ Direct \in Nat /\ Slots \in Nat
  BY SizeAssumption
     DEF SearchBlock, LookInv, Looking, Sought, Kept, disk, Cache
<1> PICK k \in 0 .. Len(goal) : OnWay(k)
  BY <1>1 DEF LookInv, Looking, Sought
<1>2. k < Len(goal) /\ path = SubSeq(goal, k + 1, Len(goal))
  BY <1>1 DEF OnWay
<1> PICK name : name = Head(path)
  OBVIOUS
<1>3. Len(goal) \in Nat /\ k + 1 \in 1 .. Len(goal) /\ name = goal[k + 1]
      /\ name \in Seq(STRING)
  BY <1>1, <1>2, PathLeft
<1>4. PICK o \in Numbered :
        IF o.block = 0 THEN Keep(o.cache) /\ Found(0)
        ELSE \E c \in Fetched(o.cache, "entries", o.block) :
             \E g \in As("entry", [is |-> "none"]) :
               LET i == FirstIn(c.held["entries"], g, Head(path))
               IN /\ Keep(c)
                  /\ \/ i # 0 /\ Found(i)
                     \/ /\ i = 0 /\ j' = j + 1
                        /\ UNCHANGED <<path, dir, node, answer, pc>>
  BY DEF SearchBlock
<1>5. /\ Shaped(o.cache) /\ Sound(o.cache) /\ (o.cache.clean => clean)
      /\ j = Direct + Slots => o.block = 0
  BY <1>1, NumberedRight
<1>6. ASSUME clean, Plain(fs, goal)
      PROVE  /\ dir \in DOMAIN Images[fs].entries /\ dir = Walk(fs, goal)[k]
             /\ Walk(fs, goal)[k + 1] = Named(fs, dir, name)
             /\ \A e \in Images[fs].entries[dir] :
                  Prefix(e.name, name) => e.name = name /\ e.inode # 0
             /\ Searched
  <2>1. dir = Walk(fs, goal)[k] /\ Searched
    BY <1>1, <1>6 DEF OnWay
  <2>2. (k + 1) - 1 = k /\ k + 1 # 0 /\ k + 1 \in 0 .. Len(goal)
    BY <1>3
  <2>3. /\ Walk(fs, goal)[k] \in DOMAIN Images[fs].entries
        /\ \A e \in Images[fs].entries[Walk(fs, goal)[k]] :
             Prefix(e.name, goal[k + 1]) => e.name = goal[k + 1] /\ e.inode # 0
    BY <1>3, <1>6, <2>2 DEF Plain
  <2>4. Walk(fs, goal)[k + 1] = Named(fs, dir, name)
    BY <1>3, <2>1, <2>2, <2>3, WalkSteps
  <2> QED BY <1>3, <2>1, <2>3, <2>4
<1>7. ASSUME o.cache.clean, Plain(fs, goal)
      PROVE  /\ o.block = BlockOf(fs, InodeOf(fs, dir), j)
             /\ j >= Direct /\ o.block # 0 => o.cache.tag["inodes"] = node.ind
             /\ node = InodeOf(fs, dir)
             /\ \A m \in 0 .. j - 1 : Misses(name, m)
  <2>1. Searched /\ dir \in DOMAIN image.entries
    BY <1>5, <1>6, <1>7 DEF image
  <2>2. /\ o.block = BlockOf(fs, node, j)
        /\ j >= Direct /\ o.block # 0 => o.cache.tag["inodes"] = node.ind
    BY <1>1, <1>7, <2>1, NumberedRight DEF Searched
  <2> QED BY <2>1, <2>2 DEF Searched
<1>8. CASE o.block = 0
  <2>1. Keep(o.cache) /\ Found(0)
    BY <1>4, <1>8
  <2>2. Sound(Cache)' /\ clean' = o.cache.clean
    BY <1>1, <1>5, <2>1, SoundCache DEF Keep
  <2>3. ASSUME clean', Plain(fs, goal)
        PROVE  0 = Walk(fs, goal)[k + 1]
    <3>1. BlockOf(fs, InodeOf(fs, dir), j) = 0
          /\ \A m \in 0 .. j - 1 : \A e \in Row(fs, BlockOf(fs, InodeOf(fs, dir), m)) :
                ~Hits(e, name)
      BY <1>7, <1>8, <2>2, <2>3 DEF Misses
    <3>2. /\ dir \in DOMAIN Images[fs].entries
          /\ Walk(fs, goal)[k + 1] = Named(fs, dir, name)
      BY <1>5, <1>6, <2>2, <2>3
    <3>3. Named(fs, dir, name) = 0
      BY <1>1, <1>3, <3>1, <3>2, NameAbsent
    <3> QED BY <3>2, <3>3
  <2>4. pc' # "search" /\ pc' # "halted" /\ j' = 0 /\ \E m \in 0 .. Len(goal) : OnWay(m)'
    BY <1>1, <1>2, <2>1, <2>3, FoundOnWay
  <2>5. Sought'
    BY <1>1, <2>2, <2>4 DEF Sought
  <2> QED BY <2>4, <2>5 DEF LookInv
<1>9. CASE o.block # 0
  <2>1. PICK c, g, i :
          /\ c \in Fetched(o.cache, "entries", o.block)
          /\ g \in As("entry", [is |-> "none"])
          /\ i = FirstIn(c.held["entries"], g, name)
          /\ Keep(c)
          /\ \/ i # 0 /\ Found(i)
             \/ /\ i = 0 /\ j' = j + 1
                /\ UNCHANGED <<path, dir, node, answer, pc>>
    BY <1>4, <1>9
  <2>2. /\ Shaped(c) /\ Sound(c) /\ (c.clean => o.cache.clean)
        /\ c.tag["inodes"] = o.cache.tag["inodes"]
        /\ c.clean /\ o.block \in DOMAIN image.blocks =>
             \A u \in Unit : c.held["entries"][u] = o.block
    BY <1>5, <2>1, FetchedSound DEF Buffer
  <2>3. Sound(Cache)' /\ clean' = c.clean /\ tag' = c.tag
    BY <1>1, <2>1, <2>2, SoundCache DEF Keep
  <2>4. g \in EntryKind
    <3>1. [is |-> "none"] \in Content \cup Nothing
      BY DEF Nothing
    <3> QED BY <1>1, <2>1, <3>1, AsTyped, KindOf
  <2>5. ASSUME clean', Plain(fs, goal)
        PROVE  /\ o.block = BlockOf(fs, InodeOf(fs, dir), j)
               /\ dir \in DOMAIN Images[fs].entries
               /\ j \in Used(fs, InodeOf(fs, dir))
               /\ i = 0 => \A e \in Row(fs, o.block) : ~Hits(e, name)
               /\ i # 0 => \E e \in Row(fs, o.block) : Hits(e, name) /\ e.inode = i
    <3>1. /\ o.block = BlockOf(fs, InodeOf(fs, dir), j)
          /\ node = InodeOf(fs, dir)
          /\ \A m \in 0 .. j - 1 : BlockOf(fs, InodeOf(fs, dir), m) # 0
      BY <1>7, <2>2, <2>3, <2>5 DEF Misses
    <3>2. dir \in DOMAIN Images[fs].entries
          /\ \A e \in Images[fs].entries[dir] :
                Prefix(e.name, name) => e.name = name /\ e.inode # 0
      BY <1>5, <1>6, <2>2, <2>3, <2>5
    <3>3. j \in Used(fs, InodeOf(fs, dir))
      <4>1. \A m \in 0 .. j : m = j \/ m \in 0 .. j - 1
        BY <1>1
      <4> QED BY <1>1, <1>9, <3>1, <4>1 DEF Used
    <3>4. IsDirectory(fs, dir)
      BY <1>1, <3>2, DirectoryAssumption
    <3>5. /\ o.block \in DOMAIN image.blocks
          /\ \A e \in Row(fs, o.block) : e.is = "entry"
          /\ \A e \in Row(fs, o.block) : e.size # 0 /\ e.name # <<>> =>
                                          e \in Images[fs].entries[dir]
      BY <3>1, <3>3, <3>4 DEF IsDirectory, image
    <3>6. \A e \in Row(fs, o.block) : Hits(e, name) => e.inode # 0
      BY <3>2, <3>5 DEF Hits, Match
    <3>7. \A u \in Unit : In(c.held["entries"], u) = UnitOf(fs, o.block, u)
      BY <2>2, <2>3, <2>5, <3>5, Seen
    <3>8. /\ i = 0 => \A e \in Row(fs, o.block) : ~Hits(e, name)
          /\ i # 0 => \E e \in Row(fs, o.block) : Hits(e, name) /\ e.inode = i
      BY <1>1, <2>1, <2>4, <3>5, <3>6, <3>7, FirstInRight
    <3> QED BY <3>1, <3>2, <3>3, <3>8
  <2>6. CASE i # 0 /\ Found(i)
    <3>1. ASSUME clean', Plain(fs, goal)
          PROVE  i = Walk(fs, goal)[k + 1]
      <4>1. PICK e \in Row(fs, o.block) : Hits(e, name) /\ e.inode = i
        BY <2>5, <2>6, <3>1
      <4>2. clean
        BY <1>5, <2>2, <2>3, <3>1
      <4>3. Named(fs, dir, name) = e.inode
        BY <1>1, <1>6, <2>5, <3>1, <4>1, <4>2, NamePresent
      <4> QED BY <1>6, <3>1, <4>1, <4>2, <4>3
    <3>2. pc' # "search" /\ pc' # "halted" /\ j' = 0 /\ \E m \in 0 .. Len(goal) : OnWay(m)'
      BY <1>1, <1>2, <2>6, <3>1, FoundOnWay
    <3>3. Sought'
      BY <1>1, <2>3, <3>2 DEF Sought
    <3> QED BY <3>2, <3>3 DEF LookInv
  <2>7. CASE i = 0 /\ j' = j + 1 /\ UNCHANGED <<path, dir, node, answer, pc>>
    <3>1. j' \in 0 .. Direct + Slots
      BY <1>1, <1>5, <1>9, <2>7
    <3>2. ASSUME clean', Plain(fs, goal)
          PROVE  dir' = Walk(fs, goal)[k] /\ Searched'
      <4>1. dir = Walk(fs, goal)[k] /\ node = InodeOf(fs, dir)
        BY <1>5, <1>6, <1>7, <2>2, <2>3, <3>2
      <4>2. \A m \in 0 .. j - 1 : Misses(name, m)
        BY <1>7, <2>2, <2>3, <3>2
      <4>3. Misses(name, j)
        BY <1>9, <2>5, <2>7, <3>2, <4>1 DEF Misses
      <4>4. \A m \in 0 .. (j + 1) - 1 : Misses(name, m)
        <5>1. \A m \in 0 .. (j + 1) - 1 : m = j \/ m \in 0 .. j - 1
          BY <1>1
        <5> QED BY <4>2, <4>3, <5>1
      <4>5. \A m \in 0 .. j' - 1 : Misses(Head(path), m)'
        BY <1>1, <2>7, <4>4 DEF Misses
      <4>6. j' > Direct /\ node'.ind # 0 => tag'["inodes"] = node'.ind
        <5>1. j' > Direct => j >= Direct
          BY <1>1, <2>7
        <5> QED BY <1>7, <1>9, <2>2, <2>3, <2>7, <3>2, <5>1
      <4> QED BY <1>1, <2>7, <4>1, <4>5, <4>6 DEF Searched
    <3>3. OnWay(k)'
      <4>1. path' = SubSeq(goal', k + 1, Len(goal')) /\ k < Len(goal') /\ pc' = "search"
        BY <1>1, <1>2, <2>7
      <4>2. clean' /\ Plain(fs', goal') => dir' = Walk(fs', goal')[k] /\ Searched'
        BY <1>1, <3>2
      <4> QED BY <4>1, <4>2 DEF OnWay
    <3>4. Sought'
      BY <1>1, <2>3, <3>3 DEF Sought
    <3> QED BY <1>1, <2>7, <3>1, <3>4 DEF LookInv
  <2> QED BY <2>1, <2>6, <2>7
<1> QED BY <1>8, <1>9

\* Every other step ends a lookup or has none under way.
LEMMA LookNext ==
  ASSUME LookInv, Kept, [Next]_vars
  PROVE  LookInv'
<1>1. CASE \E p \in Paths : Find(p)
  BY <1>1, FindNext
<1>2. CASE OpenDir
  BY <1>2, OpenDirNext
<1>3. CASE SearchBlock
  BY <1>3, SearchBlockNext
<1>4. ASSUME pc' \notin Looking, j' = j, pc \in {"search", "halted"} => pc' = "halted"
      PROVE  LookInv'
  BY <1>4 DEF LookInv, Looking
<1>5. CASE SetUp \/ PrintGroups \/ List \/ DumpInode \/ ListRoot \/ ListEntry \/ ListEnd
           \/ Halt
  <2>1. /\ pc' \notin Looking /\ j' = j
        /\ pc \in {"search", "halted"} => pc' = "halted"
    BY <1>5 DEF SetUp, ReadSuperblock, Allocate, Publish, PrintGroups, Idle, List,
                DumpInode, ListRoot, ListEntry, ListEnd, Halt, Enter, lookup, Looking
  <2> QED BY <1>4, <2>1
<1>6. CASE Rest \/ UNCHANGED vars
  <2>1. UNCHANGED vars
    BY <1>6 DEF Rest
  <2> QED BY <2>1 DEF vars, disk, cache, lookup, LookInv, Looking, Sought, Sound,
                      Cache, WrongIn, image, OnWay, Searched, Misses
<1> QED BY <1>1, <1>2, <1>3, <1>5, <1>6 DEF Next, Handler

\* On every file system whose directories are laid out as ext2 lays them out,
\* for every path: a lookup that meets no failed read and no misleading entry
\* returns the inode the path names, or 0 (ext2.c:11-50, 163-239).
THEOREM LookupIsRight == Spec => []LookupRight
<1>1. Init => LookInv
  BY DEF Init, LookInv, Looking
<1>2. LookInv => LookupRight
  <2> SUFFICES ASSUME LookInv, pc = "found", clean, Plain(fs, goal)
               PROVE  answer = Walk(fs, goal)[Len(goal)]
    BY DEF LookupRight
  <2>1. PICK k \in 0 .. Len(goal) : OnWay(k)
    BY DEF LookInv, Looking, Sought
  <2> QED BY <2>1 DEF OnWay
<1>3. LookInv /\ Kept /\ [Next]_vars => LookInv'
  BY LookNext
<1> QED BY <1>1, <1>2, <1>3, KeptAlways, PTL DEF Spec

-----------------------------------------------------------------------------
\* The parts of the state have their types.
CacheTyped(c) == /\ c.held \in [Buffer -> [Unit -> Nat]] /\ c.tag \in [Buffer -> Nat]
                 /\ c.failures \in 0 .. MaxFailures /\ c.clean \in BOOLEAN

LEMMA FetchedTyped ==
  ASSUME NEW c, CacheTyped(c), NEW n \in Buffer, NEW b \in Nat, NEW d \in Fetched(c, n, b)
  PROVE  CacheTyped(d)
<1> DEFINE filled(k, f, ok) ==
             [held |-> [c.held EXCEPT ![n] =
                          [u \in Unit |-> IF u < k THEN b ELSE c.held[n][u]]],
              tag |-> [c.tag EXCEPT ![n] = b],
              failures |-> c.failures + f, clean |-> c.clean /\ ok]
<1>1. \/ d = c
      \/ d = filled(Slots, 0, TRUE)
      \/ d = filled(0, 0, FALSE)
      \/ c.failures # MaxFailures /\ \E k \in {0, Slots \div 2} : d = filled(k, 1, FALSE)
  BY DEF Fetched, Hit, Whole
<1>2. ASSUME NEW k, NEW f, NEW ok, d = filled(k, f, ok), c.failures + f \in 0 .. MaxFailures
      PROVE  CacheTyped(d)
  <2>1. d.tag \in [Buffer -> Nat] /\ d.failures \in 0 .. MaxFailures
    BY <1>2 DEF CacheTyped
  <2>2. d.held \in [Buffer -> [Unit -> Nat]]
    <3>1. c.held \in [Buffer -> [Unit -> Nat]]
      BY DEF CacheTyped
    <3>2. [u \in Unit |-> IF u < k THEN b ELSE c.held[n][u]] \in [Unit -> Nat]
      BY <3>1
    <3> QED BY <1>2, <3>1, <3>2
  <2>3. d.clean = (c.clean /\ ok)
    BY <1>2
  <2>4. d.clean \in BOOLEAN
    BY <2>3, Zenon
  <2> QED BY <2>1, <2>2, <2>4 DEF CacheTyped
<1> HIDE DEF filled
<1>3. c.failures + 0 \in 0 .. MaxFailures
      /\ (c.failures # MaxFailures => c.failures + 1 \in 0 .. MaxFailures)
  <2> PICK m : m = c.failures
    OBVIOUS
  <2>1. m \in 0 .. MaxFailures
    BY DEF CacheTyped
  <2>2. m + 0 \in 0 .. MaxFailures /\ (m # MaxFailures => m + 1 \in 0 .. MaxFailures)
    BY <2>1, SizeAssumption
  <2> QED BY <2>2
<1>4. CASE d = filled(Slots, 0, TRUE)
  BY <1>2, <1>3, <1>4, Zenon
<1>5. CASE d = filled(0, 0, FALSE)
  BY <1>2, <1>3, <1>5, Zenon
<1>6. CASE c.failures # MaxFailures /\ \E k \in {0, Slots \div 2} : d = filled(k, 1, FALSE)
  BY <1>2, <1>3, <1>6, Zenon
<1> QED BY <1>1, <1>4, <1>5, <1>6

LEMMA NumbersTyped ==
  ASSUME NEW i \in Nat
  PROVE  /\ GroupBlock(i) \in Nat
         /\ \A g \in GroupKind : InodeBlock(g, i) \in Nat
<1> DEFINE x == Index(i)
<1>1. x \in Nat
  BY SizeAssumption DEF Index
<1> HIDE DEF x
<1>2. Group(i) \in Nat
  BY <1>1, SizeAssumption DEF Group, x
<1>3. Group(i) \div GroupsPerBlock \in Nat
  BY <1>2, SizeAssumption
<1>4. x % InodesPerGroup \in Nat
  BY <1>1, SizeAssumption
<1>5. (x % InodesPerGroup) \div InodesPerBlock \in Nat
  BY <1>4, SizeAssumption
<1>6. \A g \in GroupKind : g.table \in Nat
  BY DEF GroupKind
<1> QED BY <1>3, <1>5, <1>6, SizeAssumption DEF GroupBlock, InodeBlock, x

LEMMA OpenTyped ==
  ASSUME fs \in DOMAIN Images, NEW c, CacheTyped(c), NEW i \in Nat, NEW o \in Open(i, c)
  PROVE  CacheTyped(o.cache) /\ o.inode \in InodeKind
<1>1. PICK c1 \in Fetched(c, "groups", GroupBlock(i)) :
        \E g \in As("group", In(c1.held["groups"], GroupUnit(i))) :
        \E c2 \in Fetched(c1, "inodes", InodeBlock(g, i)) :
          /\ o.cache = c2
          /\ o.inode \in As("inode", In(c2.held["inodes"], InodeUnit(i)))
  BY DEF Open
<1>2. PICK g, c2 :
          /\ g \in As("group", In(c1.held["groups"], GroupUnit(i)))
          /\ c2 \in Fetched(c1, "inodes", InodeBlock(g, i)) /\ o.cache = c2
          /\ o.inode \in As("inode", In(c2.held["inodes"], InodeUnit(i)))
  BY <1>1
<1>3. "groups" \in Buffer /\ "inodes" \in Buffer
  BY DEF Buffer
<1>4. CacheTyped(c1)
  BY <1>3, NumbersTyped, FetchedTyped
<1>5. /\ In(c1.held["groups"], GroupUnit(i)) \in Content \cup Nothing
      /\ In(c2.held["inodes"], InodeUnit(i)) \in Content \cup Nothing
  BY InTyped, UnitsInside
<1>6. g \in GroupKind /\ o.inode \in InodeKind
  BY <1>2, <1>5, AsTyped, KindOf
<1>7. CacheTyped(c2)
  BY <1>2, <1>3, <1>4, <1>6, NumbersTyped, FetchedTyped
<1> QED BY <1>2, <1>6, <1>7

LEMMA NumberedTyped ==
  ASSUME fs \in DOMAIN Images, CacheTyped(Cache), node \in InodeKind,
         j \in 0 .. Direct + Slots, NEW o \in Numbered
  PROVE  CacheTyped(o.cache) /\ o.block \in Nat
<1>0. Direct \in Nat /\ Slots \in Nat /\ "inodes" \in Buffer
  BY SizeAssumption DEF Buffer
<1>1. CASE j < Direct
  <2>1. j + 1 \in 1 .. Direct
    BY <1>0, <1>1
  <2>2. node.blocks[j + 1] \in Nat
    BY <2>1 DEF InodeKind
  <2> QED BY <1>1, <2>2 DEF Numbered
<1>2. CASE ~(j < Direct) /\ (node.ind = 0 \/ j = Direct + Slots)
  BY <1>2 DEF Numbered
<1>3. CASE ~(j < Direct) /\ node.ind # 0 /\ j # Direct + Slots
  <2>1. PICK c, p :
          /\ c \in IF j = Direct THEN Fetched(Cache, "inodes", node.ind) ELSE {Cache}
          /\ p \in As("block", In(c.held["inodes"], j - Direct))
          /\ o = [cache |-> c, block |-> p.to]
    BY <1>3 DEF Numbered
  <2>2. j - Direct \in Unit
    BY <1>0, <1>3 DEF Unit
  <2>3. p \in BlockKind
    BY <2>1, <2>2, InTyped, AsTyped, KindOf
  <2>4. node.ind \in Nat
    BY DEF InodeKind
  <2>5. CacheTyped(c)
    BY <1>0, <2>1, <2>4, FetchedTyped
  <2> QED BY <2>1, <2>3, <2>5 DEF BlockKind
<1> QED BY <1>1, <1>2, <1>3

LEMMA FirstInTyped ==
  ASSUME fs \in DOMAIN Images, NEW h, NEW g \in EntryKind, NEW name
  PROVE  FirstIn(h, g, name) \in Nat
<1>1. PICK f : /\ f = [at \in Nat |-> Loop(h, g, name, f, at)]
               /\ FirstIn(h, g, name) = f[0]
  BY MeasuresHold, FirstInLoop
<1> DEFINE S == {n \in Nat : \A at \in Nat : at + n >= Slots => f[at] \in Nat}
<1>2. \A at \in Nat : f[at] = Loop(h, g, name, f, at)
  BY <1>1
<1>3. 0 \in S
  BY <1>2, SizeAssumption DEF Loop
<1>4. ASSUME NEW n \in Nat, n \in S
      PROVE  n + 1 \in S
  <2> SUFFICES ASSUME NEW at \in Nat, at + (n + 1) >= Slots
               PROVE  f[at] \in Nat
    OBVIOUS
  <2>1. CASE at >= Slots
    BY <1>2, <2>1 DEF Loop
  <2>2. CASE ~(at >= Slots)
    <3>1. at \in Unit
      BY <2>2, SizeAssumption DEF Unit
    <3> PICK e : e = Unit0(h, g, at)
      OBVIOUS
    <3>2. Past(e) \in Nat \ {0}
      BY <3>1, MeasuresHold DEF Measures
    <3>3. e \in EntryKind
      <4>1. In(h, at).is = "entry" => In(h, at) \in Content
        BY <3>1, InTyped DEF Nothing
      <4> QED BY <4>1, KindOf DEF Unit0
    <3>4. e.inode \in Nat
      BY <3>3 DEF EntryKind
    <3>5. f[at + Past(e)] \in Nat
      <4> PICK m : m = at + Past(e)
        OBVIOUS
      <4>1. m \in Nat /\ m + n >= Slots
        BY <3>2, SizeAssumption
      <4> QED BY <1>4, <4>1
    <3>6. f[at] = IF Hits(e, name) THEN e.inode ELSE f[at + Past(e)]
      BY <1>2, <2>2 DEF Loop
    <3> QED BY <3>4, <3>5, <3>6
  <2> QED BY <2>1, <2>2
<1>5. Slots \in S
  <2> HIDE DEF S
  <2> QED BY <1>3, <1>4, Induct, SizeAssumption
<1>6. f[0] \in Nat
  BY <1>5, SizeAssumption
<1> QED BY <1>1, <1>6

-----------------------------------------------------------------------------
DiskTyped == /\ fs \in DOMAIN Images
             /\ setup \in SUBSET (Buffer \cup {"superblock", "buffers", "ready"})
             /\ ready \in BOOLEAN /\ present \in SUBSET Buffer
WalkTyped == /\ goal \in Seq(Seq(STRING)) /\ path \in Seq(Seq(STRING))
             /\ dir \in Nat /\ answer \in Nat
             /\ node \in InodeKind /\ j \in 0 .. Direct + Slots
ListTyped == frames \in Seq(Frame) /\ printed \in Seq(Seq(Seq(STRING)))
PcTyped   == pc \in {"idle", "open", "search", "found", "root", "list", "halted",
                     "overflow"}

Typed == DiskTyped /\ CacheTyped(Cache) /\ WalkTyped /\ ListTyped /\ PcTyped

LEMMA TypedIsTypeOK == ASSUME Typed, LookInv PROVE TypeOK
<1>1. /\ DiskTyped /\ WalkTyped /\ ListTyped /\ PcTyped
      /\ held \in [Buffer -> [Unit -> Nat]] /\ tag \in [Buffer -> Nat]
      /\ failures \in 0 .. MaxFailures /\ clean \in BOOLEAN
  BY DEF Typed, CacheTyped, Cache
<1>2. ASSUME pc \in {"open", "search"} PROVE path # <<>>
  <2>1. goal \in Paths /\ \E k \in 0 .. Len(goal) : OnWay(k)
    BY <1>2 DEF LookInv, Looking, Sought
  <2>2. PICK k \in 0 .. Len(goal) : OnWay(k)
    BY <2>1
  <2>3. k < Len(goal) /\ path = SubSeq(goal, k + 1, Len(goal))
    BY <1>2, <2>2 DEF OnWay
  <2>4. Len(path) = Len(goal) - k /\ Len(goal) \in Nat
    BY <2>1, <2>3, PathLeft
  <2>5. Len(path) # 0
    BY <2>3, <2>4
  <2> QED BY <2>5, EmptySeq
<1> QED BY <1>1, <1>2 DEF TypeOK, DiskTyped, WalkTyped, ListTyped, PcTyped

LEMMA KeepTyped ==
  ASSUME NEW c, CacheTyped(c), Keep(c)
  PROVE  CacheTyped(Cache)'
  BY DEF CacheTyped, Keep, Cache

LEMMA FoundTyped ==
  ASSUME WalkTyped, path # <<>>, goal' = goal, NEW i \in Nat, Found(i)
  PROVE  WalkTyped' /\ PcTyped'
<1>1. path' \in Seq(Seq(STRING))
  BY HeadTailProperties DEF Found, WalkTyped
<1>2. node' \in InodeKind
  BY DEF Found, Zero, InodeKind
<1>3. j' \in 0 .. Direct + Slots
  BY SizeAssumption DEF Found
<1> QED BY <1>1, <1>2, <1>3 DEF Found, WalkTyped, PcTyped

LEMMA EnterTyped ==
  ASSUME fs \in DOMAIN Images, NEW i \in Nat, NEW where \in Seq(Seq(STRING)),
         NEW c, CacheTyped(c), NEW rest \in Seq(Frame), Enter(i, where, c, rest)
  PROVE  CacheTyped(Cache)' /\ frames' \in Seq(Frame) /\ PcTyped'
<1>1. PICK o \in Open(i, c) :
        /\ Keep(o.cache)
        /\ \/ frames' = Append(rest, [path |-> where, blocks |-> o.inode.blocks, at |-> 0])
              /\ pc' = "list"
           \/ frames' = rest /\ pc' \in {"list", "overflow"}
  BY DEF Enter
<1>2. CacheTyped(o.cache) /\ o.inode \in InodeKind
  BY OpenTyped
<1>3. o.inode.blocks \in Seq(Nat)
  <2>1. o.inode.blocks \in [1 .. Direct -> Nat]
    BY <1>2 DEF InodeKind
  <2>2. Direct \in Nat
    BY SizeAssumption
  <2>3. o.inode.blocks \in UNION {[1 .. n -> Nat] : n \in Nat}
    BY <2>1, <2>2
  <2> QED BY <2>3, SeqDef, Zenon
<1>4. [path |-> where, blocks |-> o.inode.blocks, at |-> 0] \in Frame
  BY <1>3 DEF Frame
<1>5. frames' \in Seq(Frame)
  BY <1>1, <1>4
<1> QED BY <1>1, <1>2, <1>5, KeepTyped DEF PcTyped

-----------------------------------------------------------------------------
\* What a step leaves alone keeps its type.
LEMMA Unmoved ==
  ASSUME Typed
  PROVE  /\ UNCHANGED disk => DiskTyped'
         /\ UNCHANGED cache => CacheTyped(Cache)'
         /\ UNCHANGED lookup => WalkTyped'
         /\ UNCHANGED <<frames, printed>> => ListTyped'
         /\ UNCHANGED pc => PcTyped'
  BY DEF Typed, DiskTyped, CacheTyped, Cache, WalkTyped, ListTyped, PcTyped, disk, cache, lookup

LEMMA SetUpTyped ==
  ASSUME Typed, SetUp PROVE Typed'
<1>0. /\ DiskTyped /\ held \in [Buffer -> [Unit -> Nat]] /\ tag \in [Buffer -> Nat]
      /\ failures \in 0 .. MaxFailures /\ clean \in BOOLEAN
  BY DEF Typed, CacheTyped, Cache
<1>1. CASE ReadSuperblock
  <2>1. DiskTyped'
    BY <1>0, <1>1 DEF ReadSuperblock, DiskTyped, ReadyAtFirst
  <2>2. failures' \in 0 .. MaxFailures
    <3>1. failures' = failures \/ (failures < MaxFailures /\ failures' = failures + 1)
      BY <1>1 DEF ReadSuperblock
    <3> QED BY <1>0, <3>1, SizeAssumption
  <2>3. CacheTyped(Cache)'
    BY <1>0, <1>1, <2>2 DEF ReadSuperblock, CacheTyped, Cache
  <2> QED BY <1>1, <2>1, <2>3, Unmoved DEF ReadSuperblock, Typed
<1>2. CASE Allocate
  <2>1. DiskTyped'
    BY <1>0, <1>2 DEF Allocate, DiskTyped
  <2> QED BY <1>2, <2>1, Unmoved DEF Allocate, Typed
<1>3. CASE \E x \in Buffer \cup {"ready"} : Publish(x)
  <2> PICK x \in Buffer \cup {"ready"} : Publish(x)
    BY <1>3
  <2>1. DiskTyped'
    BY <1>0 DEF Publish, DiskTyped
  <2>2. tag' \in [Buffer -> Nat]
    <3>1. W - 1 \in Nat
      BY SizeAssumption
    <3> PICK w : w = Unset
      OBVIOUS
    <3>2. w \in Nat
      BY <3>1 DEF Unset
    <3>3. tag' = tag \/ (x \in Buffer /\ tag' = [tag EXCEPT ![x] = w])
      BY DEF Publish
    <3> QED BY <1>0, <3>2, <3>3
  <2>3. CacheTyped(Cache)'
    BY <1>0, <2>2 DEF Publish, CacheTyped, Cache
  <2> QED BY <2>1, <2>3, Unmoved DEF Publish, Typed
<1> QED BY <1>1, <1>2, <1>3 DEF SetUp

LEMMA CallsTyped ==
  ASSUME Typed, PrintGroups \/ List \/ \E p \in Paths : Find(p)
  PROVE  Typed'
<1>0. /\ CacheTyped(Cache) /\ WalkTyped /\ ListTyped /\ "groups" \in Buffer
  BY DEF Typed, Buffer
<1>1. CASE PrintGroups
  <2> DEFINE c0 == [Cache EXCEPT !.clean = Wrong = {}]
  <2>1. PICK c \in Fetched(c0, "groups", FirstBgdt) :
          held' = c.held /\ tag' = c.tag /\ failures' = c.failures
    BY <1>1 DEF PrintGroups
  <2>2. /\ c0.held = Cache.held /\ c0.tag = Cache.tag /\ c0.failures = Cache.failures
        /\ c0.clean \in BOOLEAN
    BY DEF Cache
  <2> HIDE DEF c0
  <2>3. CacheTyped(c0)
    BY <1>0, <2>2 DEF CacheTyped
  <2>4. CacheTyped(c)
    BY <1>0, <2>1, <2>3, SizeAssumption, FetchedTyped
  <2>5. clean' \in BOOLEAN
    BY <1>1 DEF PrintGroups, Idle
  <2>6. CacheTyped(Cache)'
    BY <2>1, <2>4, <2>5 DEF CacheTyped, Cache
  <2> QED BY <1>1, <2>6, Unmoved DEF PrintGroups, Typed
<1>2. CASE List
  <2>1. CacheTyped(Cache)'
    BY <1>0, <1>2 DEF List, Idle, CacheTyped, Cache
  <2>2. ListTyped' /\ PcTyped'
    BY <1>0, <1>2, EmptySeq DEF List, ListTyped, PcTyped
  <2> QED BY <1>2, <2>1, <2>2, Unmoved DEF List, Typed
<1>3. CASE \E p \in Paths : Find(p)
  <2> PICK p \in Paths : Find(p)
    BY <1>3
  <2>1. CacheTyped(Cache)'
    BY <1>0 DEF Find, Idle, CacheTyped, Cache
  <2>2. WalkTyped' /\ PcTyped'
    BY <1>0, PathAssumption DEF Find, WalkTyped, PcTyped, Root
  <2> QED BY <2>1, <2>2, Unmoved DEF Find, Typed
<1> QED BY <1>1, <1>2, <1>3

LEMMA LookupTyped ==
  ASSUME Typed, LookInv, OpenDir \/ SearchBlock \/ DumpInode
  PROVE  Typed'
<1>0. /\ CacheTyped(Cache) /\ WalkTyped /\ fs \in DOMAIN Images
      /\ (pc \in {"open", "search"} => path # <<>>)
  BY TypedIsTypeOK DEF Typed, TypeOK
<1>1. CASE OpenDir
  <2>1. PICK o \in Open(dir, Cache) :
        /\ Keep(o.cache)
        /\ \/ /\ o.inode.mode = "dir"
              /\ node' = o.inode /\ pc' = "search"
              /\ UNCHANGED <<path, dir, j, answer>>
           \/ o.inode.mode # "dir" /\ Found(0)
    BY <1>1 DEF OpenDir
  <2>2. CacheTyped(o.cache) /\ o.inode \in InodeKind
    BY <1>0, OpenTyped DEF WalkTyped
  <2>3. CacheTyped(Cache)'
    BY <2>1, <2>2, KeepTyped
  <2>4. goal' = goal /\ path # <<>> /\ UNCHANGED disk /\ UNCHANGED <<frames, printed>>
    BY <1>0, <1>1 DEF OpenDir
  <2>5. WalkTyped' /\ PcTyped'
    <3>1. CASE Found(0)
      BY <1>0, <2>4, <3>1, FoundTyped
    <3>2. CASE node' = o.inode /\ pc' = "search" /\ UNCHANGED <<path, dir, j, answer>>
      BY <1>0, <2>2, <2>4, <3>2 DEF WalkTyped, PcTyped
    <3> QED BY <2>1, <3>1, <3>2
  <2> QED BY <2>3, <2>4, <2>5, Unmoved DEF Typed
<1>2. CASE SearchBlock
  <2>1. PICK o \in Numbered :
        IF o.block = 0 THEN Keep(o.cache) /\ Found(0)
        ELSE \E c \in Fetched(o.cache, "entries", o.block) :
             \E g \in As("entry", [is |-> "none"]) :
               LET i == FirstIn(c.held["entries"], g, Head(path))
               IN /\ Keep(c)
                  /\ \/ i # 0 /\ Found(i)
                     \/ /\ i = 0 /\ j' = j + 1
                        /\ UNCHANGED <<path, dir, node, answer, pc>>
    BY <1>2 DEF SearchBlock
  <2>2. CacheTyped(o.cache) /\ o.block \in Nat
    BY <1>0, NumberedTyped DEF WalkTyped
  <2>3. /\ goal' = goal /\ path # <<>> /\ UNCHANGED disk /\ UNCHANGED <<frames, printed>>
        /\ pc = "search"
    BY <1>0, <1>2 DEF SearchBlock
  <2>4. j = Direct + Slots => o.block = 0
    <3>1. j = Direct + Slots => ~(j < Direct)
      BY SizeAssumption
    <3> QED BY <3>1 DEF Numbered
  <2>5. CASE o.block = 0
    BY <1>0, <2>1, <2>2, <2>3, <2>5, KeepTyped, FoundTyped, Unmoved DEF Typed
  <2>6. CASE o.block # 0
    <3>1. PICK c, g, i :
            /\ c \in Fetched(o.cache, "entries", o.block)
            /\ g \in As("entry", [is |-> "none"])
            /\ i = FirstIn(c.held["entries"], g, Head(path))
            /\ Keep(c)
            /\ \/ i # 0 /\ Found(i)
               \/ /\ i = 0 /\ j' = j + 1
                  /\ UNCHANGED <<path, dir, node, answer, pc>>
      BY <2>1, <2>6
    <3>2. CacheTyped(Cache)'
      <4>1. CacheTyped(c)
        BY <2>2, <3>1, FetchedTyped DEF Buffer
      <4> QED BY <3>1, <4>1, KeepTyped
    <3>3. i \in Nat
      <4>1. [is |-> "none"] \in Content \cup Nothing
        BY DEF Nothing
      <4>2. g \in EntryKind
        BY <1>0, <3>1, <4>1, AsTyped, KindOf
      <4> QED BY <1>0, <3>1, <4>2, FirstInTyped
    <3>4. WalkTyped' /\ PcTyped'
      <4>1. CASE Found(i)
        BY <1>0, <2>3, <3>3, <4>1, FoundTyped
      <4>2. CASE j' = j + 1 /\ UNCHANGED <<path, dir, node, answer, pc>>
        <5>1. j' \in 0 .. Direct + Slots
          <6>1. j \in 0 .. Direct + Slots /\ Direct + Slots \in Nat
            BY <1>0, SizeAssumption DEF WalkTyped
          <6>2. j # Direct + Slots /\ j' = j + 1
            BY <2>4, <2>6, <4>2
          <6> QED BY <6>1, <6>2, SizeAssumption
        <5> QED BY <1>0, <2>3, <4>2, <5>1 DEF WalkTyped, PcTyped
      <4> QED BY <3>1, <4>1, <4>2
    <3> QED BY <2>3, <3>2, <3>4, Unmoved DEF Typed
  <2> QED BY <2>5, <2>6
<1>3. CASE DumpInode
  <2>1. PICK o \in Open(answer, Cache) : Keep(o.cache)
    BY <1>3 DEF DumpInode
  <2>2. CacheTyped(Cache)'
    BY <1>0, <2>1, OpenTyped, KeepTyped DEF WalkTyped
  <2>3. WalkTyped' /\ PcTyped'
    BY <1>0, <1>3, EmptySeq DEF DumpInode, WalkTyped, PcTyped
  <2> QED BY <1>3, <2>2, <2>3, Unmoved DEF DumpInode, Typed
<1> QED BY <1>1, <1>2, <1>3

LEMMA ListingTyped ==
  ASSUME Typed, ListRoot \/ ListEntry \/ ListEnd
  PROVE  Typed'
<1>0. CacheTyped(Cache) /\ ListTyped /\ fs \in DOMAIN Images /\ Root \in Nat
  BY DEF Typed, DiskTyped, Root
<1>1. CASE ListRoot
  <2>1. UNCHANGED disk /\ UNCHANGED lookup /\ UNCHANGED printed
    BY <1>1 DEF ListRoot
  <2>2. CASE Enter(Root, <<>>, Cache, <<>>)
    <3>1. <<>> \in Seq(Seq(STRING)) /\ <<>> \in Seq(Frame)
      BY EmptySeq
    <3>2. CacheTyped(Cache)' /\ frames' \in Seq(Frame) /\ PcTyped'
      BY <1>0, <2>2, <3>1, EnterTyped
    <3>3. ListTyped'
      BY <1>0, <2>1, <3>2 DEF ListTyped
    <3> QED BY <2>1, <3>2, <3>3, Unmoved DEF Typed
  <2>3. CASE pc' = "halted" /\ UNCHANGED <<cache, frames>>
    <3>1. PcTyped'
      BY <2>3 DEF PcTyped
    <3> QED BY <2>1, <2>3, <3>1, Unmoved DEF Typed
  <2> QED BY <1>1, <2>2, <2>3 DEF ListRoot
<1>2. CASE ListEnd
  <2>1. ListTyped' /\ PcTyped'
    BY <1>0, <1>2, EmptySeq DEF ListEnd, ListTyped, PcTyped
  <2> QED BY <1>2, <2>1, Unmoved DEF ListEnd, Typed
<1>3. CASE ListEntry
  <2> DEFINE below == SubSeq(frames, 1, Len(frames) - 1)
             top   == frames[Len(frames)]
             On(f) == frames' = Append(below, f) /\ UNCHANGED pc
  <2>0. UNCHANGED disk /\ UNCHANGED lookup /\ pc = "list" /\ frames # <<>>
    BY <1>3 DEF ListEntry
  <2>1. frames \in Seq(Frame) /\ printed \in Seq(Seq(Seq(STRING)))
    BY <1>0 DEF ListTyped
  <2>2. below \in Seq(Frame) /\ top \in Frame
    <3>1. Len(frames) \in Nat \ {0}
      BY <2>0, <2>1, EmptySeq
    <3>2. \A n \in 1 .. Len(frames) : frames[n] \in Frame
      BY <2>1
    <3>3. \A n \in 1 .. Len(frames) - 1 : frames[n] \in Frame
      BY <3>1, <3>2
    <3>4. below \in Seq(Frame)
      BY <3>1, <3>3, SubSeqProperties
    <3> QED BY <3>1, <3>2, <3>4
  <2>3. top.path \in Seq(Seq(STRING)) /\ top.blocks \in Seq(Nat) /\ top.at \in Nat
    BY <2>2 DEF Frame
  <2>4. ASSUME NEW f \in Frame, On(f)
        PROVE  frames' \in Seq(Frame) /\ PcTyped'
    BY <2>0, <2>2, <2>4 DEF PcTyped
  <2>5. CASE top.blocks = <<>>
    <3>1. frames' = below /\ UNCHANGED <<pc, cache, printed>>
      BY <1>3, <2>5 DEF ListEntry
    <3>2. ListTyped'
      BY <2>1, <2>2, <3>1 DEF ListTyped
    <3> QED BY <2>0, <3>1, <3>2, Unmoved DEF Typed
  <2>6. CASE top.blocks # <<>> /\ (Head(top.blocks) = 0 \/ top.at >= Slots)
    <3> DEFINE f == [top EXCEPT !.blocks = Tail(@), !.at = 0]
    <3>1. On(f) /\ UNCHANGED <<cache, printed>>
      BY <1>3, <2>6 DEF ListEntry
    <3>2. f \in Frame
      <4>1. Tail(top.blocks) \in Seq(Nat)
        BY <2>3, <2>6, HeadTailProperties
      <4> QED BY <2>2, <4>1 DEF Frame
    <3> HIDE DEF f
    <3>3. ListTyped'
      BY <2>1, <2>4, <3>1, <3>2 DEF ListTyped
    <3> QED BY <2>0, <2>4, <3>1, <3>2, <3>3, Unmoved DEF Typed
  <2>7. CASE top.blocks # <<>> /\ ~(Head(top.blocks) = 0 \/ top.at >= Slots)
    <3>1. PICK c, e, self, file :
            /\ c \in Fetched(Cache, "entries", Head(top.blocks)) \cup {Cache}
            /\ e \in As("entry", In(c.held["entries"], top.at))
            /\ self = [top EXCEPT !.at = Onwards(@, e)]
            /\ file = Append(top.path, e.name)
            /\ \/ On(self) /\ Keep(c) /\ printed' = printed
               \/ /\ printed' = Append(printed, file)
                  /\ \/ Enter(e.inode, file, c, Append(below, self))
                     \/ On(self) /\ Keep(c)
      BY <1>3, <2>7 DEF ListEntry, Reads
    <3>2. Head(top.blocks) \in Nat
      BY <2>3, <2>7, HeadTailProperties
    <3>3. CacheTyped(c)
      <4>1. c = Cache \/ c \in Fetched(Cache, "entries", Head(top.blocks))
        BY <3>1
      <4> QED BY <1>0, <3>2, <4>1, FetchedTyped DEF Buffer
    <3>4. e \in EntryKind
      <4>1. top.at \in Unit
        BY <2>3, <2>7, SizeAssumption DEF Unit
      <4> QED BY <1>0, <3>1, <4>1, InTyped, AsTyped, KindOf
    <3>5. /\ e.name \in Seq(STRING) /\ e.inode \in Nat /\ Onwards(top.at, e) \in Nat
      BY <2>3, <3>4 DEF EntryKind, Onwards, Past
    <3>6. self \in Frame
      BY <2>2, <3>1, <3>5 DEF Frame
    <3>7. file \in Seq(Seq(STRING))
      BY <2>3, <3>1, <3>5
    <3>8. printed' \in Seq(Seq(Seq(STRING)))
      <4>1. Append(printed, file) \in Seq(Seq(Seq(STRING)))
        BY <2>1, <3>7
      <4> QED BY <2>1, <3>1, <4>1
    <3>9. CASE On(self) /\ Keep(c)
      <4>1. CacheTyped(Cache)'
        BY <3>3, <3>9, KeepTyped
      <4>2. ListTyped' /\ PcTyped'
        BY <2>4, <3>6, <3>8, <3>9 DEF ListTyped
      <4> QED BY <2>0, <4>1, <4>2, Unmoved DEF Typed
    <3>10. CASE Enter(e.inode, file, c, Append(below, self))
      <4>1. Append(below, self) \in Seq(Frame)
        BY <2>2, <3>6
      <4>2. CacheTyped(Cache)' /\ frames' \in Seq(Frame) /\ PcTyped'
        BY <1>0, <3>3, <3>5, <3>7, <3>10, <4>1, EnterTyped
      <4>3. ListTyped'
        BY <3>8, <4>2 DEF ListTyped
      <4> QED BY <2>0, <4>2, <4>3, Unmoved DEF Typed
    <3> QED BY <3>1, <3>9, <3>10
  <2> QED BY <2>5, <2>6, <2>7
<1> QED BY <1>1, <1>2, <1>3

LEMMA TypedNext ==
  ASSUME Typed, LookInv, [Next]_vars
  PROVE  Typed'
<1>1. CASE SetUp
  BY <1>1, SetUpTyped
<1>2. CASE PrintGroups \/ List \/ \E p \in Paths : Find(p)
  BY <1>2, CallsTyped
<1>3. CASE OpenDir \/ SearchBlock \/ DumpInode
  BY <1>3, LookupTyped
<1>4. CASE ListRoot \/ ListEntry \/ ListEnd
  BY <1>4, ListingTyped
<1>5. CASE Halt
  <2>1. PcTyped'
    BY <1>5 DEF Halt, PcTyped
  <2> QED BY <1>5, <2>1, Unmoved DEF Halt, Typed
<1>6. CASE Rest \/ UNCHANGED vars
  BY <1>6, Unmoved DEF Rest, vars, Typed
<1> QED BY <1>1, <1>2, <1>3, <1>4, <1>5, <1>6 DEF Next, Handler

LEMMA TypedInit == Init => Typed
<1> SUFFICES ASSUME Init PROVE Typed
  OBVIOUS
<1>1. DiskTyped /\ PcTyped
  BY DEF Init, DiskTyped, PcTyped
<1>2. CacheTyped(Cache)
  <2>1. held = [n \in Buffer |-> [u \in Unit |-> 0]] /\ tag = [n \in Buffer |-> 0]
        /\ failures = 0 /\ clean = TRUE
    BY DEF Init
  <2> QED BY <2>1, SizeAssumption DEF CacheTyped, Cache
<1>3. WalkTyped
  BY EmptySeq, SizeAssumption DEF Init, WalkTyped, Zero, InodeKind
<1>4. ListTyped
  BY EmptySeq DEF Init, ListTyped
<1> QED BY <1>1, <1>2, <1>3, <1>4 DEF Typed

\* On every file system made of descriptors, inodes, block numbers and entries,
\* and with any failures of reads: each variable of the reader keeps its type,
\* and a lookup under way has a name left to look up (ext2.c:11-239).
THEOREM ReaderTyped == Spec => []TypeOK
<1>1. Typed /\ LookInv => TypeOK
  BY TypedIsTypeOK
<1>2. Typed /\ LookInv /\ Kept /\ [Next]_vars => (Typed /\ LookInv)'
  BY TypedNext, LookNext
<1>3. Init => Typed /\ LookInv
  BY TypedInit DEF Init, LookInv, Looking
<1> QED BY <1>1, <1>2, <1>3, KeptAlways, PTL DEF Spec

-----------------------------------------------------------------------------
(* A listing under way.  Each call of ext2_print_inode has so many of its   *)
(* directory's blocks left, and an entry of the first that it has come to;  *)
(* the lines before that entry have been printed, and every call below will *)
(* go on where the one above it ends.                                       *)

BlocksOf(f, p) == InodeOf(f, Images[f].dirs[p]).blocks

Left(F)       == Direct + 1 - Len(F.blocks)
Reached(f, F) == Before(f, F.path, Left(F), F.at)

Inside(f, F) ==
  /\ F.path \in DOMAIN Images[f].dirs
  /\ Len(F.blocks) <= Direct
  /\ \A i \in 1 .. Len(F.blocks) :
       F.blocks[i] = BlocksOf(f, F.path)[Direct - Len(F.blocks) + i]
  /\ IF F.blocks # <<>> /\ F.blocks[1] # 0
     THEN F.at >= Slots \/ F.at \in Starts(f, F.blocks[1]) ELSE F.at = 0

Stacked(f, S) ==
  \A n \in 1 .. Len(S) :
    /\ Inside(f, S[n]) /\ Len(S[n].path) = n - 1
    /\ n < Len(S) => Reached(f, S[n]) = End(f, S[n + 1].path)

Count(f, S) == IF S = <<>> THEN Len(Images[f].listing) ELSE Reached(f, S[Len(S)])

Followed(f, S, lines) ==
  /\ Stacked(f, S) /\ Len(lines) = Count(f, S)
  /\ Len(lines) <= Len(Images[f].listing)
  /\ \A i \in 1 .. Len(lines) : lines[i] = Images[f].listing[i]

ListInv ==
  pc \in {"root", "list", "overflow"} =>
    /\ Sound(Cache)
    /\ clean => /\ pc # "overflow"
                /\ pc = "root" => printed = <<>>
                /\ pc = "list" => Followed(fs, frames, printed)

Top(S)   == S[Len(S)]
Under(S) == SubSeq(S, 1, Len(S) - 1)

\* A stack of calls without the one on top, and with one more.
LEMMA Below ==
  ASSUME NEW f, NEW S \in Seq(Frame), S # <<>>, Stacked(f, S)
  PROVE  /\ Len(S) \in Nat \ {0} /\ Top(S) \in Frame /\ Inside(f, Top(S))
         /\ Under(S) \in Seq(Frame) /\ Len(Under(S)) = Len(S) - 1
         /\ Stacked(f, Under(S)) /\ Len(Top(S).path) = Len(S) - 1
         /\ Count(f, S) = Reached(f, Top(S))
         /\ Under(S) # <<>> =>
              Reached(f, Under(S)[Len(Under(S))]) = End(f, Top(S).path)
<1> PICK m, below : m = Len(S) /\ below = SubSeq(S, 1, m - 1)
  OBVIOUS
<1>1. m \in Nat \ {0} /\ \A n \in 1 .. m : S[n] \in Frame
  BY EmptySeq, LenProperties, ElementOfSeq
<1>2. /\ below \in Seq(Frame) /\ Len(below) = m - 1
      /\ \A n \in 1 .. m - 1 : below[n] = S[n]
  <2> PICK l : l = m - 1
    OBVIOUS
  <2>1. \A n \in 1 .. l : S[n] \in Frame
    BY <1>1
  <2>2. l \in Int
    BY <1>1
  <2>3. /\ SubSeq(S, 1, l) \in Seq(Frame)
        /\ Len(SubSeq(S, 1, l)) = IF 1 <= l THEN l - 1 + 1 ELSE 0
        /\ \A n \in 1 .. l - 1 + 1 : SubSeq(S, 1, l)[n] = S[1 + n - 1]
    BY <2>1, <2>2, SubSeqProperties
  <2>4. (IF 1 <= l THEN l - 1 + 1 ELSE 0) = l /\ l - 1 + 1 = l
        /\ \A n \in 1 .. l : 1 + n - 1 = n
    BY <1>1
  <2> QED BY <2>3, <2>4
<1>3. m \in 1 .. m /\ Inside(f, S[m]) /\ Len(S[m].path) = m - 1
  BY <1>1 DEF Stacked
<1>4. ASSUME NEW n \in 1 .. m - 1
      PROVE  /\ Inside(f, below[n]) /\ Len(below[n].path) = n - 1
             /\ Reached(f, below[n]) = End(f, S[n + 1].path)
             /\ n < m - 1 => below[n + 1] = S[n + 1]
  <2>1. n \in 1 .. m /\ n < m /\ (n < m - 1 => n + 1 \in 1 .. m - 1)
    BY <1>1
  <2> QED BY <1>2, <2>1 DEF Stacked
<1>5. Stacked(f, below)
  <2>1. \A n \in 1 .. Len(below) :
          /\ Inside(f, below[n]) /\ Len(below[n].path) = n - 1
          /\ n < Len(below) => Reached(f, below[n]) = End(f, below[n + 1].path)
    BY <1>2, <1>4
  <2> QED BY <2>1 DEF Stacked
<1>6. ASSUME below # <<>>
      PROVE  Reached(f, below[Len(below)]) = End(f, S[m].path)
  <2>1. Len(below) # 0
    BY <1>2, <1>6, EmptySeq
  <2>2. m - 1 \in 1 .. m - 1 /\ (m - 1) + 1 = m
    BY <1>1, <1>2, <2>1
  <2> QED BY <1>2, <1>4, <2>2
<1>7. Count(f, S) = Reached(f, S[m])
  BY DEF Count
<1> QED BY <1>1, <1>2, <1>3, <1>5, <1>6, <1>7 DEF Top, Under

LEMMA Above ==
  ASSUME NEW f, NEW S \in Seq(Frame), Stacked(f, S), NEW F \in Frame,
         Inside(f, F), Len(F.path) = Len(S),
         S # <<>> => Reached(f, S[Len(S)]) = End(f, F.path)
  PROVE  /\ Append(S, F) \in Seq(Frame) /\ Len(Append(S, F)) = Len(S) + 1
         /\ Append(S, F) # <<>> /\ Append(S, F)[Len(S) + 1] = F
         /\ Stacked(f, Append(S, F)) /\ Count(f, Append(S, F)) = Reached(f, F)
<1> PICK m, T : m = Len(S) /\ T = Append(S, F)
  OBVIOUS
<1>1. m \in Nat
  BY LenProperties
<1>2. /\ T \in Seq(Frame) /\ Len(T) = m + 1 /\ T[m + 1] = F
      /\ \A n \in 1 .. m : T[n] = S[n]
  BY AppendProperties
<1>3. T # <<>>
  <2>1. Len(T) # 0
    BY <1>1, <1>2
  <2> QED BY <1>2, <2>1, EmptySeq
<1>4. ASSUME NEW n \in 1 .. m + 1
      PROVE  /\ Inside(f, T[n]) /\ Len(T[n].path) = n - 1
             /\ n < m + 1 => Reached(f, T[n]) = End(f, T[n + 1].path)
  <2>1. CASE n = m + 1
    BY <1>1, <1>2, <2>1
  <2>2. CASE n = m /\ n # m + 1
    <3>1. n \in 1 .. m /\ m # 0
      BY <1>1, <2>2
    <3>2. S # <<>>
      BY <3>1, EmptySeq
    <3>3. /\ Inside(f, S[n]) /\ Len(S[n].path) = n - 1
          /\ Reached(f, S[n]) = End(f, F.path)
      BY <2>2, <3>1, <3>2 DEF Stacked
    <3> QED BY <1>2, <2>2, <3>1, <3>3
  <2>3. CASE n # m /\ n # m + 1
    <3>1. n \in 1 .. m /\ n < m /\ n + 1 \in 1 .. m
      BY <1>1, <2>3
    <3>2. /\ Inside(f, S[n]) /\ Len(S[n].path) = n - 1
          /\ Reached(f, S[n]) = End(f, S[n + 1].path)
      BY <3>1 DEF Stacked
    <3> QED BY <1>2, <3>1, <3>2
  <2> QED BY <2>1, <2>2, <2>3
<1>5. Stacked(f, T)
  BY <1>2, <1>4 DEF Stacked
<1> QED BY <1>2, <1>3, <1>5 DEF Count

\* What the image says of a directory.
LEMMA Listed ==
  ASSUME NEW f \in DOMAIN Images, NEW p \in DOMAIN Images[f].dirs
  PROVE  /\ p \in Seq(Seq(STRING)) /\ Len(p) \in Nat /\ Len(p) < StackDepth
         /\ Images[f].dirs[p] \in Nat /\ Placed(f, Images[f].dirs[p])
         /\ BlocksOf(f, p) \in [1 .. Direct -> Nat]
         /\ \A k \in 1 .. Direct : TellsBlock(f, p, k, BlocksOf(f, p)[k])
         /\ \A k \in 1 .. Direct + 1, u \in Nat : Before(f, p, k, u) \in Nat
         /\ Len(Images[f].listing) \in Nat
<1> DEFINE d == Images[f].dirs[p]
<1>1. IsListed(f)
  BY ListingAssumption
<1>2. /\ p \in Seq(Seq(STRING)) /\ Len(p) < StackDepth
      /\ d \in Nat /\ Placed(f, d)
      /\ \A k \in 1 .. Direct : TellsBlock(f, p, k, InodeOf(f, d).blocks[k])
  BY <1>1 DEF IsListed
<1>3. InodeOf(f, d).blocks \in [1 .. Direct -> Nat]
  <2>1. InodeOf(f, d) \in Content
    <3>1. InodeBlock(GroupOf(f, d), d) \in DOMAIN Images[f].blocks
          /\ InodeUnit(d) \in Unit
      BY <1>2, UnitsInside DEF Placed
    <3> QED BY <3>1, BlocksTyped DEF InodeOf, UnitOf
  <2>2. InodeOf(f, d).is = "inode"
    BY <1>2 DEF Placed
  <2> HIDE DEF d
  <2>3. InodeOf(f, d) \in InodeKind
    BY <2>1, <2>2, KindOf
  <2> QED BY <2>3 DEF InodeKind
<1>4. \A k \in 1 .. Direct + 1, u \in Nat : Before(f, p, k, u) \in Nat
  <2>1. Images[f].before[p] \in [1 .. Direct + 1 -> [0 .. Slots -> Nat]]
    BY <1>1 DEF IsListed
  <2>2. \A u \in Nat : (IF u < Slots THEN u ELSE Slots) \in 0 .. Slots
    BY SizeAssumption
  <2> QED BY <2>1, <2>2 DEF Before
<1>5. Len(Images[f].listing) \in Nat /\ Len(p) \in Nat
  BY <1>1, <1>2, LenProperties DEF IsListed
<1> QED BY <1>2, <1>3, <1>4, <1>5 DEF BlocksOf

\* A call begins with the first entry of its directory, and the stack has room
\* for it.
LEMMA EnterSound ==
  ASSUME NEW c, Shaped(c), Sound(c), NEW i, NEW p, NEW rest, Enter(i, p, c, rest),
         fs' = fs
  PROVE  Sound(Cache)' /\ (clean' => c.clean)
<1>1. PICK o \in Open(i, c) : Keep(o.cache)
  BY DEF Enter
<1>2. Sound(o.cache) /\ (o.cache.clean => c.clean) /\ clean' = o.cache.clean
  BY <1>1, OpenSound DEF Keep
<1> QED BY <1>1, <1>2, SoundCache

LEMMA EnterFollowed ==
  ASSUME fs \in DOMAIN Images, NEW c, Shaped(c), Sound(c),
         NEW p \in DOMAIN Images[fs].dirs,
         NEW i, i = Images[fs].dirs[p],
         NEW rest \in Seq(Frame), Len(rest) = Len(p), Stacked(fs, rest),
         rest # <<>> => Reached(fs, rest[Len(rest)]) = End(fs, p),
         Enter(i, p, c, rest), clean'
  PROVE  /\ pc' = "list" /\ Stacked(fs, frames')
         /\ Count(fs, frames') = Before(fs, p, 1, 0)
<1> DEFINE d == Images[fs].dirs[p]
           b == BlocksOf(fs, p)
           F == [path |-> p, blocks |-> b, at |-> 0]
<1>0. Direct \in Nat \ {0}
  BY SizeAssumption
<1>1. /\ p \in Seq(Seq(STRING)) /\ Len(p) \in Nat /\ Len(p) < StackDepth
      /\ d \in Nat /\ Placed(fs, d) /\ b \in [1 .. Direct -> Nat]
  BY Listed
<1>2. PICK o \in Open(d, c) :
        /\ Keep(o.cache)
        /\ \/ /\ o.inode.mode = "dir" /\ Len(rest) < StackDepth
              /\ frames' = Append(rest, [path |-> p, blocks |-> o.inode.blocks,
                                         at |-> 0])
              /\ pc' = "list"
           \/ o.inode.mode # "dir"
           \/ Len(rest) = StackDepth
  BY DEF Enter
<1>3. o.cache.clean
  BY <1>2 DEF Keep
<1>4. o.inode = InodeOf(fs, d) /\ o.inode.mode = "dir"
  BY <1>1, <1>2, <1>3, OpenRight DEF Placed
<1>5. Len(rest) # StackDepth
  BY <1>1
<1>6. frames' = Append(rest, F) /\ pc' = "list"
  BY <1>2, <1>4, <1>5 DEF BlocksOf
<1>7. b \in Seq(Nat) /\ Len(b) = Direct
  <2> HIDE DEF b
  <2>1. b \in UNION {[1 .. n -> Nat] : n \in Nat}
    BY <1>0, <1>1
  <2>2. b \in Seq(Nat)
    BY <2>1, SeqDef, Zenon
  <2> QED BY <1>0, <1>1, <2>2, LenProperties
<1> HIDE DEF d
<1>8. F \in Frame /\ F.path = p /\ F.blocks = b /\ F.at = 0
  BY <1>1, <1>7 DEF Frame
<1> HIDE DEF F
<1>9. Inside(fs, F)
  <2>1. \A n \in 1 .. Direct : b[n] = b[Direct - Direct + n]
    BY <1>0
  <2>2. 0 \in Starts(fs, b[1])
    BY StartsClosed DEF Closed
  <2>3. Len(F.blocks) <= Direct
    BY <1>0, <1>7, <1>8
  <2>4. \A n \in 1 .. Len(F.blocks) :
          F.blocks[n] = BlocksOf(fs, F.path)[Direct - Len(F.blocks) + n]
    BY <1>7, <1>8, <2>1
  <2> QED BY <1>8, <2>2, <2>3, <2>4 DEF Inside
<1>10. Reached(fs, F) = Before(fs, p, 1, 0)
  <2>1. Direct + 1 - Len(F.blocks) = 1
    BY <1>0, <1>7, <1>8
  <2> QED BY <1>8, <2>1 DEF Reached, Left
<1>11. Stacked(fs, Append(rest, F)) /\ Count(fs, Append(rest, F)) = Reached(fs, F)
  BY <1>8, <1>9, Above
<1> QED BY <1>6, <1>10, <1>11

\* The call on top has come to its end: the one below goes on there.
LEMMA CallEnds ==
  ASSUME NEW f \in DOMAIN Images, NEW S \in Seq(Frame), S # <<>>, Stacked(f, S),
         Top(S).blocks = <<>>
  PROVE  Stacked(f, Under(S)) /\ Count(f, Under(S)) = Count(f, S)
<1>1. /\ Len(S) \in Nat \ {0} /\ Top(S) \in Frame /\ Inside(f, Top(S))
      /\ Under(S) \in Seq(Frame) /\ Len(Under(S)) = Len(S) - 1
      /\ Stacked(f, Under(S)) /\ Len(Top(S).path) = Len(S) - 1
      /\ Count(f, S) = Reached(f, Top(S))
      /\ Under(S) # <<>> =>
           Reached(f, Under(S)[Len(Under(S))]) = End(f, Top(S).path)
  BY Below
<1> PICK F, below : F = Top(S) /\ below = Under(S)
  OBVIOUS
<1>2. Reached(f, F) = End(f, F.path)
  <2>1. Len(F.blocks) = 0 /\ F.at = 0
    BY <1>1, EmptySeq DEF Inside
  <2>2. Direct + 1 - 0 = Direct + 1
    BY SizeAssumption
  <2> QED BY <2>1, <2>2 DEF Reached, Left, End
<1>3. CASE below = <<>>
  <2>1. Len(F.path) = 0
    BY <1>1, <1>3, EmptySeq
  <2>2. F.path \in Seq(Seq(STRING))
    BY <1>1 DEF Frame
  <2>3. F.path = <<>>
    BY <2>1, <2>2, EmptySeq
  <2>4. End(f, <<>>) = Len(Images[f].listing)
    BY ListingAssumption DEF IsListed
  <2> QED BY <1>1, <1>2, <1>3, <2>3, <2>4 DEF Count
<1>4. CASE below # <<>>
  BY <1>1, <1>2, <1>4 DEF Count
<1> QED BY <1>1, <1>3, <1>4

\* The block a call has come to is its directory's, and what it tells is what
\* the image says.
LEMMA BlockAt ==
  ASSUME NEW f \in DOMAIN Images, NEW F \in Frame, Inside(f, F), F.blocks # <<>>
  PROVE  /\ Left(F) \in 1 .. Direct /\ Len(F.blocks) \in 1 .. Direct
         /\ Head(F.blocks) = F.blocks[1]
         /\ F.blocks[1] = BlocksOf(f, F.path)[Left(F)]
         /\ TellsBlock(f, F.path, Left(F), F.blocks[1])
<1> PICK q, n : q = F.blocks /\ n = Len(q)
  OBVIOUS
<1>1. q \in Seq(Nat) /\ q # <<>>
  BY DEF Frame
<1>2. n \in Nat /\ n # 0 /\ Head(q) = q[1]
  BY <1>1, EmptySeq, HeadTailProperties, LenProperties
<1>3. n <= Direct /\ Direct \in Nat
  BY SizeAssumption DEF Inside
<1>4. Direct + 1 - n \in 1 .. Direct /\ n \in 1 .. Direct /\ 1 \in 1 .. n
      /\ Direct - n + 1 = Direct + 1 - n
  BY <1>2, <1>3
<1>5. q[1] = BlocksOf(f, F.path)[Direct + 1 - n]
  BY <1>4 DEF Inside
<1>6. TellsBlock(f, F.path, Direct + 1 - n, q[1])
  <2>1. F.path \in DOMAIN Images[f].dirs
    BY DEF Inside
  <2> QED BY <1>4, <1>5, <2>1, Listed
<1> QED BY <1>2, <1>4, <1>5, <1>6 DEF Left

\* The next block of the directory.
LEMMA NextBlock ==
  ASSUME NEW f \in DOMAIN Images, NEW F \in Frame, Inside(f, F), F.blocks # <<>>,
         F.blocks[1] = 0 \/ F.at >= Slots,
         NEW G, G = [F EXCEPT !.blocks = Tail(@), !.at = 0]
  PROVE  /\ G \in Frame /\ G.path = F.path
         /\ Inside(f, G) /\ Reached(f, G) = Reached(f, F)
<1> PICK q, r, n, k : q = F.blocks /\ r = Tail(q) /\ n = Len(q) /\ k = Left(F)
  OBVIOUS
<1>1. /\ k \in 1 .. Direct /\ n \in 1 .. Direct /\ Direct \in Nat \ {0}
      /\ TellsBlock(f, F.path, k, q[1]) /\ k = Direct + 1 - n
  BY BlockAt, SizeAssumption DEF Left
<1>2. /\ r \in Seq(Nat) /\ Len(r) = n - 1
      /\ \A i \in 1 .. n - 1 : r[i] = q[i + 1]
  <2>1. q \in Seq(Nat) /\ q # <<>>
    BY DEF Frame
  <2> QED BY <2>1, HeadTailProperties
<1>3. G \in Frame /\ G.path = F.path /\ G.blocks = r /\ G.at = 0
  BY <1>2 DEF Frame
<1>4. Inside(f, G)
  <2>1. n - 1 <= Direct
    BY <1>1
  <2>2. \A i \in 1 .. n - 1 : r[i] = BlocksOf(f, F.path)[Direct - (n - 1) + i]
    <3> TAKE i \in 1 .. n - 1
    <3>0. n \in Nat /\ Direct \in Nat
      BY <1>1
    <3>1. i + 1 \in 1 .. n /\ Direct - n + (i + 1) = Direct - (n - 1) + i
      BY <3>0
    <3>2. q[i + 1] = BlocksOf(f, F.path)[Direct - n + (i + 1)]
      BY <3>1 DEF Inside
    <3> QED BY <1>2, <3>1, <3>2
  <2>3. 0 \in Starts(f, r[1])
    BY StartsClosed DEF Closed
  <2>4. F.path \in DOMAIN Images[f].dirs
    BY DEF Inside
  <2> QED BY <1>2, <1>3, <2>1, <2>2, <2>3, <2>4 DEF Inside
<1>5. Reached(f, G) = Before(f, F.path, k + 1, 0)
  <2>1. Direct + 1 - (n - 1) = k + 1
    BY <1>1
  <2> QED BY <1>2, <1>3, <2>1 DEF Reached, Left
<1>6. Reached(f, F) = Before(f, F.path, k + 1, 0)
  <2>1. CASE q[1] = 0
    <3>1. F.at = 0
      BY <2>1 DEF Inside
    <3> QED BY <1>1, <2>1, <3>1 DEF Reached, TellsBlock
  <2>2. CASE q[1] # 0
    <3>1. F.at >= Slots /\ F.at \in Nat /\ Slots \in Nat
      BY <2>2, SizeAssumption DEF Frame
    <3>2. ~(F.at < Slots) /\ ~(Slots < Slots)
      BY <3>1
    <3>3. Before(f, F.path, k, F.at) = Before(f, F.path, k, Slots)
      BY <3>2 DEF Before
    <3> QED BY <1>1, <2>2, <3>3 DEF Reached, TellsBlock
  <2> QED BY <2>1, <2>2
<1> QED BY <1>3, <1>4, <1>5, <1>6

\* The next entry of the block.
LEMMA NextEntry ==
  ASSUME NEW f \in DOMAIN Images, NEW F \in Frame, Inside(f, F), F.blocks # <<>>,
         NEW b, b = F.blocks[1], b # 0, ~(F.at >= Slots),
         NEW e, e = UnitOf(f, b, F.at),
         NEW G, G = [F EXCEPT !.at = Onwards(@, e)]
  PROVE  /\ b \in DOMAIN Images[f].blocks /\ F.at \in Unit
         /\ e \in EntryKind /\ Tells(f, F.path, Left(F), F.at, e)
         /\ G \in Frame /\ G.path = F.path /\ Inside(f, G)
         /\ Reached(f, G) = Before(f, F.path, Left(F), F.at + Past(e))
<1>1. /\ Left(F) \in 1 .. Direct /\ Len(F.blocks) \in 1 .. Direct
      /\ TellsBlock(f, F.path, Left(F), b)
  BY BlockAt
<1>2. b \in DOMAIN Images[f].blocks /\ F.at \in Starts(f, b)
  BY <1>1 DEF TellsBlock, Inside
<1>3. F.at \in Unit
  BY <1>2, StartsClosed
<1>4. e.is = "entry" /\ Tells(f, F.path, Left(F), F.at, e)
  BY <1>1, <1>2 DEF TellsBlock
<1>5. e \in EntryKind
  <2>1. e \in Content
    BY <1>2, <1>3, BlocksTyped
  <2> QED BY <1>4, <2>1, KindOf
<1> PICK u : u = F.at + Past(e)
  OBVIOUS
<1>6. Past(e) \in Nat /\ u \in Nat
  <2>1. e.size \in Nat /\ F.at \in Nat
    BY <1>5 DEF EntryKind, Frame
  <2>2. Past(e) \in Nat
    BY <2>1 DEF Past
  <2> QED BY <2>1, <2>2
<1>7. /\ G \in Frame /\ G.path = F.path /\ G.blocks = F.blocks /\ G.at = u
  BY <1>6 DEF Frame, Onwards
<1>8. u >= Slots \/ u \in Starts(f, b)
  <2>1. ~(u >= Slots) => u \in Unit
    BY <1>6, SizeAssumption DEF Unit
  <2> QED BY <1>2, <1>4, <2>1, StartsClosed DEF Closed
<1>9. Inside(f, G)
  BY <1>7, <1>8 DEF Inside
<1>10. Reached(f, G) = Before(f, F.path, Left(F), u)
  BY <1>7 DEF Reached, Left
<1> QED BY <1>2, <1>3, <1>4, <1>5, <1>7, <1>9, <1>10

\* A frame takes the place of the one on top.
LEMMA OnTop ==
  ASSUME NEW f, NEW S \in Seq(Frame), S # <<>>, Stacked(f, S), NEW G \in Frame,
         Inside(f, G), G.path = Top(S).path
  PROVE  /\ Append(Under(S), G) \in Seq(Frame)
         /\ Len(Append(Under(S), G)) = Len(S) /\ Append(Under(S), G) # <<>>
         /\ Append(Under(S), G)[Len(S)] = G
         /\ Stacked(f, Append(Under(S), G))
         /\ Count(f, Append(Under(S), G)) = Reached(f, G)
<1>1. /\ Len(S) \in Nat \ {0}
      /\ Under(S) \in Seq(Frame) /\ Len(Under(S)) = Len(S) - 1
      /\ Stacked(f, Under(S)) /\ Len(Top(S).path) = Len(S) - 1
      /\ Under(S) # <<>> =>
           Reached(f, Under(S)[Len(Under(S))]) = End(f, Top(S).path)
  BY Below
<1> PICK T, l : T = Under(S) /\ l = Len(S)
  OBVIOUS
<1>2. /\ T \in Seq(Frame) /\ Len(G.path) = Len(T) /\ Stacked(f, T)
      /\ T # <<>> => Reached(f, T[Len(T)]) = End(f, G.path)
  BY <1>1
<1>3. /\ Append(T, G) \in Seq(Frame) /\ Len(Append(T, G)) = Len(T) + 1
      /\ Append(T, G) # <<>> /\ Append(T, G)[Len(T) + 1] = G
      /\ Stacked(f, Append(T, G)) /\ Count(f, Append(T, G)) = Reached(f, G)
  BY <1>2, Above
<1>4. Len(T) + 1 = l
  BY <1>1
<1> QED BY <1>3, <1>4

\* A line of the listing is printed.
LEMMA LinePrinted ==
  ASSUME NEW f, NEW lines \in Seq(Seq(Seq(STRING))), NEW S, Followed(f, S, lines),
         NEW file \in Seq(Seq(STRING)), Len(Images[f].listing) \in Nat,
         Count(f, S) < Len(Images[f].listing),
         Images[f].listing[Count(f, S) + 1] = file,
         NEW T, Stacked(f, T), Count(f, T) = Count(f, S) + 1
  PROVE  Followed(f, T, Append(lines, file))
<1> PICK m, L, N : m = Len(lines) /\ L = Append(lines, file) /\ N = Images[f].listing
  OBVIOUS
<1>1. /\ m \in Nat /\ m = Count(f, S) /\ m < Len(N) /\ Len(N) \in Nat
      /\ N[m + 1] = file /\ \A i \in 1 .. m : lines[i] = N[i]
  BY LenProperties DEF Followed
<1>2. Len(L) = m + 1 /\ L[m + 1] = file /\ \A i \in 1 .. m : L[i] = lines[i]
  BY AppendProperties
<1>3. Len(L) <= Len(N)
  BY <1>1, <1>2
<1>4. \A i \in 1 .. m + 1 : L[i] = N[i]
  <2> TAKE i \in 1 .. m + 1
  <2>1. i = m + 1 \/ i \in 1 .. m
    BY <1>1
  <2> QED BY <1>1, <1>2, <2>1
<1> QED BY <1>1, <1>2, <1>3, <1>4 DEF Followed

\* One round of the loop (ext2.c:110-149).
LEMMA ListEntryNext ==
  ASSUME Kept, Typed, ListInv, ListEntry
  PROVE  ListInv'
<1> DEFINE top   == Top(frames)
           below == Under(frames)
           On(f) == frames' = Append(below, f) /\ UNCHANGED pc
<1>0. /\ fs \in DOMAIN Images /\ Shaped(Cache) /\ fs' = fs /\ Cache.clean = clean
      /\ pc = "list" /\ frames # <<>> /\ Sound(Cache)
      /\ clean => Followed(fs, frames, printed)
  BY DEF Kept, ListEntry, ListInv, disk, Cache
<1>1. /\ frames \in Seq(Frame) /\ printed \in Seq(Seq(Seq(STRING)))
      /\ top \in Frame /\ Len(Images[fs].listing) \in Nat
  <2>1. frames \in Seq(Frame) /\ printed \in Seq(Seq(Seq(STRING)))
    BY DEF Typed, ListTyped
  <2>2. Len(frames) \in Nat \ {0}
    BY <1>0, <2>1, EmptySeq, LenProperties
  <2>3. top \in Frame
    BY <2>1, <2>2, ElementOfSeq DEF Top
  <2>4. Images[fs].listing \in Seq(Seq(Seq(STRING)))
    BY <1>0, ListingAssumption DEF IsListed
  <2> QED BY <2>1, <2>3, <2>4, LenProperties
<1>2. clean => Stacked(fs, frames) /\ Inside(fs, top)
  <2>1. clean => Stacked(fs, frames)
    BY <1>0 DEF Followed
  <2> QED BY <1>0, <1>1, <2>1, Below
<1>3. SUFFICES /\ Sound(Cache)'
               /\ clean' => pc' = "list" /\ Followed(fs, frames', printed')
  BY <1>0 DEF ListInv
<1>4. ASSUME UNCHANGED <<cache, pc, printed>>,
             clean => Stacked(fs, frames') /\ Count(fs, frames') = Count(fs, frames)
      PROVE  /\ Sound(Cache)'
             /\ clean' => pc' = "list" /\ Followed(fs, frames', printed')
  <2>1. held' = held /\ tag' = tag /\ clean' = clean /\ pc' = pc /\ printed' = printed
    BY <1>4 DEF cache
  <2>2. Sound(Cache)'
    BY <1>0, <2>1 DEF Sound, WrongIn, Cache, image
  <2> SUFFICES ASSUME clean' PROVE pc' = "list" /\ Followed(fs, frames', printed')
    BY <2>2
  <2>3. clean /\ Followed(fs, frames, printed)
    BY <1>0, <2>1
  <2> QED BY <1>0, <1>4, <2>1, <2>3 DEF Followed
<1>5. CASE top.blocks = <<>>
  <2>1. frames' = below /\ UNCHANGED <<cache, pc, printed>>
    BY <1>5 DEF ListEntry, Top, Under
  <2>2. clean => Stacked(fs, below) /\ Count(fs, below) = Count(fs, frames)
    BY <1>0, <1>1, <1>2, <1>5, CallEnds
  <2> QED BY <1>4, <2>1, <2>2
<1>6. CASE top.blocks # <<>> /\ (Head(top.blocks) = 0 \/ top.at >= Slots)
  <2> PICK G : G = [top EXCEPT !.blocks = Tail(@), !.at = 0]
    OBVIOUS
  <2>1. frames' = Append(below, G) /\ UNCHANGED <<cache, pc, printed>>
    BY <1>6 DEF ListEntry, Top, Under
  <2>2. ASSUME clean
        PROVE  Stacked(fs, Append(below, G))
               /\ Count(fs, Append(below, G)) = Count(fs, frames)
    <3>1. Head(top.blocks) = top.blocks[1]
      BY <1>0, <1>1, <1>2, <1>6, <2>2, BlockAt
    <3>2. /\ G \in Frame /\ G.path = top.path
          /\ Inside(fs, G) /\ Reached(fs, G) = Reached(fs, top)
      BY <1>0, <1>1, <1>2, <1>6, <2>2, <3>1, NextBlock
    <3>3. /\ Stacked(fs, Append(below, G))
          /\ Count(fs, Append(below, G)) = Reached(fs, G)
      BY <1>0, <1>1, <1>2, <2>2, <3>2, OnTop
    <3>4. Count(fs, frames) = Reached(fs, top)
      BY <1>0, <1>1, <1>2, <2>2, Below
    <3> QED BY <3>2, <3>3, <3>4
  <2> QED BY <1>4, <2>1, <2>2
<1>7. CASE top.blocks # <<>> /\ ~(Head(top.blocks) = 0 \/ top.at >= Slots)
  <2>1. PICK c, e, self, file :
          /\ c \in Fetched(Cache, "entries", Head(top.blocks))
          /\ e \in As("entry", In(c.held["entries"], top.at))
          /\ self = [top EXCEPT !.at = Onwards(@, e)]
          /\ file = Append(top.path, e.name)
          /\ \/ Untold(e) /\ On(self) /\ Keep(c) /\ printed' = printed
             \/ /\ ~Untold(e) /\ printed' = Append(printed, file)
                /\ \/ e.type = "dir" /\ Enter(e.inode, file, c, Append(below, self))
                   \/ e.type # "dir" /\ On(self) /\ Keep(c)
    <3>1. Reads(top.at)
      BY <1>1, <1>7, SizeAssumption DEF Reads, Frame
    <3> QED BY <1>7, <3>1 DEF ListEntry, Top, Under, Untold
  <2>2. Shaped(c) /\ Sound(c) /\ (c.clean => clean)
    BY <1>0, <2>1, FetchedSound DEF Buffer
  <2>3. Sound(Cache)' /\ (clean' => c.clean)
    <3>1. Keep(c) => Sound(Cache)' /\ (clean' => c.clean)
      BY <1>0, <2>2, SoundCache DEF Keep
    <3> QED BY <1>0, <2>1, <2>2, <3>1, EnterSound
  <2> SUFFICES ASSUME clean' PROVE pc' = "list" /\ Followed(fs, frames', printed')
    BY <1>3, <2>3
  <2>4. c.clean /\ clean /\ Followed(fs, frames, printed) /\ Inside(fs, top)
        /\ Stacked(fs, frames)
    BY <1>0, <1>2, <2>2, <2>3
  <2> PICK b, k : b = top.blocks[1] /\ k = Left(top)
    OBVIOUS
  <2>5. Head(top.blocks) = b /\ b # 0 /\ k \in 1 .. Direct
    BY <1>0, <1>1, <1>7, <2>4, BlockAt
  <2>6. e = UnitOf(fs, b, top.at)
    <3> PICK e0, G : e0 = UnitOf(fs, b, top.at) /\ G = [top EXCEPT !.at = Onwards(@, e0)]
      OBVIOUS
    <3>1. b \in DOMAIN Images[fs].blocks /\ top.at \in Unit /\ e0 \in EntryKind
      BY <1>0, <1>1, <1>7, <2>4, <2>5, NextEntry
    <3>2. c.held["entries"][top.at] = b
      BY <1>0, <2>1, <2>4, <2>5, <3>1, FetchedSound DEF Buffer, image
    <3>3. In(c.held["entries"], top.at) = e0
      BY <3>1, <3>2, Seen DEF image
    <3>4. e0.is = "entry"
      BY <3>1 DEF EntryKind
    <3> QED BY <2>1, <3>3, <3>4 DEF As
  <2>7. /\ e \in EntryKind /\ Tells(fs, top.path, k, top.at, e)
        /\ self \in Frame /\ self.path = top.path /\ Inside(fs, self)
        /\ Reached(fs, self) = Before(fs, top.path, k, top.at + Past(e))
    BY <1>0, <1>1, <1>7, <2>1, <2>4, <2>5, <2>6, NextEntry
  <2>8. Reached(fs, top) = Before(fs, top.path, k, top.at)
    BY DEF Reached
  <2>9. Count(fs, frames) = Reached(fs, top)
    BY <1>0, <1>1, <2>4, Below
  <2> PICK T : T = Append(below, self)
    OBVIOUS
  <2>10. /\ T \in Seq(Frame) /\ Len(T) = Len(frames) /\ T # <<>>
         /\ T[Len(frames)] = self /\ Stacked(fs, T) /\ Count(fs, T) = Reached(fs, self)
    BY <1>0, <1>1, <2>4, <2>7, OnTop
  <2>11. CASE Untold(e)
    <3>1. Reached(fs, self) = Reached(fs, top)
      BY <2>7, <2>8, <2>11 DEF Tells
    <3>2. frames' = T /\ pc' = "list" /\ printed' = printed
      BY <1>0, <2>1, <2>11
    <3> QED BY <2>4, <2>9, <2>10, <3>1, <3>2 DEF Followed
  <2>12. CASE ~Untold(e)
    <3>1. /\ Count(fs, frames) < Len(Images[fs].listing)
          /\ Images[fs].listing[Count(fs, frames) + 1] = file
          /\ printed' = Append(printed, file)
      BY <2>1, <2>7, <2>8, <2>9, <2>12 DEF Tells
    <3>2. /\ top.path \in Seq(Seq(STRING)) /\ e.name \in Seq(STRING)
          /\ file \in Seq(Seq(STRING)) /\ Len(file) = Len(top.path) + 1
      BY <1>1, <2>1, <2>7 DEF Frame, EntryKind
    <3>3. ASSUME pc' = "list", Stacked(fs, frames'),
                 Count(fs, frames') = Count(fs, frames) + 1
          PROVE  pc' = "list" /\ Followed(fs, frames', printed')
      <4>1. Followed(fs, frames', Append(printed, file))
        BY <1>1, <2>4, <3>1, <3>2, <3>3, LinePrinted
      <4> QED BY <3>1, <3>3, <4>1
    <3>4. CASE e.type # "dir"
      <4>1. Reached(fs, self) = Reached(fs, top) + 1
        BY <2>7, <2>8, <2>12, <3>4 DEF Tells
      <4>2. frames' = T /\ pc' = "list"
        BY <1>0, <2>1, <2>12, <3>4
      <4> QED BY <2>9, <2>10, <3>3, <4>1, <4>2
    <3>5. CASE e.type = "dir"
      <4>1. /\ file \in DOMAIN Images[fs].dirs /\ Images[fs].dirs[file] = e.inode
            /\ Before(fs, file, 1, 0) = Reached(fs, top) + 1
            /\ End(fs, file) = Reached(fs, self)
        BY <2>1, <2>7, <2>8, <2>12, <3>5 DEF Tells
      <4>2. Len(T) = Len(file) /\ Reached(fs, T[Len(T)]) = End(fs, file)
        <5>1. Len(top.path) = Len(frames) - 1 /\ Len(frames) \in Nat
          BY <1>0, <1>1, <2>4, Below
        <5> QED BY <2>10, <3>2, <4>1, <5>1
      <4>3. Enter(e.inode, file, c, T)
        BY <2>1, <2>12, <3>5
      <4>4. /\ pc' = "list" /\ Stacked(fs, frames')
            /\ Count(fs, frames') = Before(fs, file, 1, 0)
        BY <1>0, <2>2, <2>10, <4>1, <4>2, <4>3, EnterFollowed
      <4> QED BY <2>9, <3>3, <4>1, <4>4
    <3> QED BY <3>4, <3>5
  <2> QED BY <2>11, <2>12
<1> QED BY <1>5, <1>6, <1>7

\* The first call is of the root (ext2.c:89-161).
LEMMA ListRootNext ==
  ASSUME Kept, Typed, ListInv, ListRoot
  PROVE  ListInv'
<1>1. /\ fs \in DOMAIN Images /\ Shaped(Cache) /\ fs' = fs /\ Cache.clean = clean
      /\ pc = "root" /\ Sound(Cache) /\ printed' = printed
      /\ clean => printed = <<>>
  BY DEF Kept, ListRoot, ListInv, disk, Cache
<1>2. CASE pc' = "halted"
  BY <1>2 DEF ListInv
<1>3. CASE Enter(Root, <<>>, Cache, <<>>)
  <2>1. Sound(Cache)' /\ (clean' => clean)
    BY <1>1, <1>3, EnterSound
  <2> SUFFICES ASSUME clean'
               PROVE  pc' = "list" /\ Followed(fs, frames', printed')
    BY <1>1, <2>1 DEF ListInv
  <2> PICK p, rest : p = <<>> /\ rest = <<>>
    OBVIOUS
  <2>2. /\ p \in DOMAIN Images[fs].dirs /\ Images[fs].dirs[p] = Root
        /\ Before(fs, p, 1, 0) = 0 /\ Len(Images[fs].listing) \in Nat
    BY <1>1, ListingAssumption, LenProperties DEF IsListed
  <2>3. /\ rest \in Seq(Frame) /\ Len(rest) = 0 /\ Len(p) = 0 /\ rest = <<>>
        /\ Stacked(fs, rest)
    <3>1. rest \in Seq(Frame) /\ Len(rest) = 0 /\ Len(p) = 0
      BY EmptySeq
    <3> QED BY <3>1 DEF Stacked
  <2>4. /\ pc' = "list" /\ Stacked(fs, frames') /\ Count(fs, frames') = 0
    BY <1>1, <1>3, <2>2, <2>3, EnterFollowed
  <2>5. printed' = <<>> /\ Len(printed') = 0
    BY <1>1, <2>1, EmptySeq
  <2> QED BY <2>2, <2>4, <2>5 DEF Followed
<1> QED BY <1>2, <1>3 DEF ListRoot

LEMMA ListNext ==
  ASSUME Kept, Typed, ListInv, [Next]_vars
  PROVE  ListInv'
<1>1. CASE ListEntry
  BY <1>1, ListEntryNext
<1>2. CASE ListRoot
  BY <1>2, ListRootNext
<1>3. CASE List
  <2>1. /\ pc' = "root" /\ printed' = <<>> /\ fs' = fs /\ held' = held /\ tag' = tag
        /\ clean' = (Wrong = {})
    BY <1>3 DEF List, Idle, disk
  <2>2. Sound(Cache)'
    BY <2>1 DEF Sound, Cache, WrongIn, Wrong, image
  <2> QED BY <2>1, <2>2 DEF ListInv
<1>4. CASE SetUp \/ PrintGroups \/ (\E p \in Paths : Find(p)) \/ OpenDir \/ SearchBlock
           \/ DumpInode \/ ListEnd \/ Halt
  <2>1. pc' \notin {"root", "list", "overflow"}
    BY <1>4 DEF SetUp, ReadSuperblock, Allocate, Publish, PrintGroups, Idle, Find,
                OpenDir, SearchBlock, DumpInode, ListEnd, Halt, Found
  <2> QED BY <2>1 DEF ListInv
<1>5. CASE Rest \/ UNCHANGED vars
  <2>1. UNCHANGED vars
    BY <1>5 DEF Rest
  <2> QED BY <2>1 DEF vars, disk, cache, lookup, ListInv, Sound, Cache, WrongIn, image
<1> QED BY <1>1, <1>2, <1>3, <1>4, <1>5 DEF Next, Handler

\* On every file system that, as far as direct blocks lead, is no deeper than the
\* stack has room for: a listing that meets no failed read prints, in order and
\* once each, every entry of the tree that is not in an indirect block or below
\* one, and stays inside the stack (ext2.c:11-19, 89-157).
THEOREM ListingIsRight == Spec => []ListingRight
<1>1. Init => Typed /\ LookInv /\ ListInv
  BY TypedInit DEF Init, LookInv, Looking, ListInv
<1>2. /\ Typed /\ LookInv /\ ListInv /\ Kept /\ [Next]_vars
      => (Typed /\ LookInv /\ ListInv)'
  BY TypedNext, LookNext, ListNext
<1>3. Typed /\ ListInv => ListingRight
  <2> SUFFICES ASSUME Typed, ListInv, clean PROVE ListingRight
    BY DEF ListingRight
  <2>1. pc # "overflow"
    BY DEF ListInv
  <2>2. ASSUME pc = "list", frames = <<>>
        PROVE  printed = image.listing
    <3> PICK N : N = Images[fs].listing
      OBVIOUS
    <3>1. /\ Len(printed) = Len(N)
          /\ \A i \in 1 .. Len(printed) : printed[i] = N[i]
      BY <2>2 DEF ListInv, Followed, Count
    <3>2. printed \in Seq(Seq(Seq(STRING))) /\ N \in Seq(Seq(Seq(STRING)))
      BY ListingAssumption DEF Typed, ListTyped, DiskTyped, IsListed
    <3> QED BY <3>1, <3>2, SeqEqual DEF image
  <2>3. {image.listing[n] : n \in DOMAIN image.listing} = Files(fs) \ Missed(fs)
    <3>1. IsTree(fs)
      BY TreeAssumption DEF Typed, DiskTyped
    <3> QED BY <3>1, Zenon DEF IsTree, image
  <2> QED BY <2>1, <2>2, <2>3 DEF ListingRight
<1> QED BY <1>1, <1>2, <1>3, KeptAlways, PTL DEF Spec
=============================================================================
