-------------------------------- MODULE Ext2 --------------------------------
(***************************************************************************)
(* The ext2 reader (ext2.c): main sets it up once, the keyboard's handler  *)
(* (keybord_in, F6 to F8) lists and looks up through three block buffers.  *)
(* A handler runs to its end before main goes on.  Reads can fail, and the *)
(* reader does not look at their status.                                   *)
(*                                                                         *)
(* A block is a row of Slots units.  A unit is a group descriptor, an      *)
(* inode, a block number or the head of a directory entry; an entry takes  *)
(* as many units as its size says.                                         *)
(***************************************************************************)
EXTENDS Naturals, Sequences

CONSTANTS
  Images,          \* file systems: blocks, directories, a listing, the tree
  Slots,           \* units of a block
  InodesPerGroup, InodesPerBlock, GroupsPerBlock,
  FirstBgdt,       \* the block of the first descriptors: 2 or 1
  Direct,          \* direct blocks of an inode (12)
  W,               \* 2^32
  Paths,           \* what is looked up
  MaxFailures,     \* how often a read fails
  StackDepth       \* calls of ext2_print_inode the stack has room for

Root   == 2
Unset  == W - 1                             \* 0xFFFFFFFF
Unit   == 0 .. Slots - 1
Buffer == {"inodes", "entries", "groups"}   \* buf[0], buf[1], bgdtbuf

\* What a unit can be; only the first unit of an entry describes it.
GroupKind == [is : {"group"}, table : Nat]
InodeKind == [is : {"inode"}, mode : {"unused", "file", "dir"}, ind : Nat,
              blocks : [1 .. Direct -> Nat]]
BlockKind == [is : {"block"}, to : Nat]
EntryKind == [is : {"entry"}, name : Seq(STRING), inode : Nat, size : Nat,
              type : {"file", "dir"}]
Content   == GroupKind \cup InodeKind \cup BlockKind \cup EntryKind
               \cup [is : {"rest"}]

ASSUME ImageAssumption ==
  \A f \in DOMAIN Images :
    /\ DOMAIN Images[f].entries \subseteq Nat
    /\ Images[f].blocks \in Seq([1 .. Slots -> Content])
    /\ Len(Images[f].blocks) < Unset

ASSUME SizeAssumption ==
  /\ {Slots, Direct, InodesPerGroup, InodesPerBlock, GroupsPerBlock, W}
       \subseteq Nat \ {0}
  /\ InodesPerBlock <= Slots /\ GroupsPerBlock <= Slots
  /\ FirstBgdt \in Nat /\ MaxFailures \in Nat

ASSUME PathAssumption == Paths \subseteq Seq(Seq(STRING)) \ {<<>>}

VARIABLES
  fs,              \* the file system on the disk
  setup,           \* what ext2_init has still to do
  ready,           \* data->ready
  present,         \* the buffers malloc has returned
  held,            \* buf, bgdtbuf: the block each unit has come from
  tag,             \* buf_block, bgdtbuf_block
  failures,        \* failed reads so far
  clean,           \* the call has only seen buffers that hold what their tag
                   \* says (history)
  pc,              \* what the handler is doing
  goal, path,      \* the path it looks up, and what is left of it
  dir, node, j,    \* the directory it searches: number, inode, block index
  answer,          \* what ext2_find_inode has returned
  frames, printed  \* the calls of ext2_print_inode; what they have printed

disk   == <<fs, setup, ready, present>>
cache  == <<held, tag, failures, clean>>
lookup == <<goal, path, dir, node, j, answer>>
vars   == <<disk, cache, pc, lookup, frames, printed>>

Zero(kind) ==
  CASE kind = "group" -> [is |-> "group", table |-> 0]
    [] kind = "inode" -> [is |-> "inode", mode |-> "unused", ind |-> 0,
                          blocks |-> [k \in 1 .. Direct |-> 0]]
    [] kind = "block" -> [is |-> "block", to |-> 0]
    [] kind = "entry" -> [is |-> "entry", name |-> <<>>, inode |-> 0,
                          size |-> 0, type |-> "file"]

image == Images[fs]

\* What a unit of a buffer holds.  (Only file systems have blocks worth a
\* description: other blocks, and 0 before the first read, are garbage.)
In(h, u) == IF h[u] \in DOMAIN image.blocks THEN image.blocks[h[u]][u + 1]
            ELSE [is |-> "garbage"]

\* A unit read as one of another kind can be any of it; what matters is
\* whether it is nothing or leads on.
LeadsOn(u) == /\ u.is = "inode" => u.mode = "dir"
              /\ u.is = "entry" => u.type = "dir" /\ u.size = 1
Units == [f \in DOMAIN Images |->
            {k \in UNION {{Images[f].blocks[b][u] : u \in 1 .. Slots} :
                            b \in DOMAIN Images[f].blocks} : LeadsOn(k)}]

As(kind, u) == IF u.is = kind THEN {u}
               ELSE {Zero(kind)} \cup {k \in Units[fs] : k.is = kind}

Prefix(a, b) == Len(a) <= Len(b) /\ a = SubSeq(b, 1, Len(a))

\* The buffers that do not hold the block their tag names.
Wrong == {n \in Buffer : tag[n] \in DOMAIN image.blocks
                         /\ \E u \in Unit : held[n][u] # tag[n]}

-----------------------------------------------------------------------------
\* Faults: definitions of the next section as a likely mistake leaves them;
\* none is part of the specification.
ReadyTooSoon        == TRUE
HitIfUsed(c, n, b)  == c.tag[n] # Unset
OnwardsBySize(at, e) == at + e.size
LastIfNone(p)       == p = <<>>
NeededAtFirst(at)   == at = 0
HalfABlock          == Slots \div 2

-----------------------------------------------------------------------------
\* read_block_buf and read_block_bgdt, from one state of the cache to those it
\* can lead to.  A failed read leaves nothing or the first half, one behind the
\* file system may be refused; the tag is set all the same.
Hit(c, n, b) == c.tag[n] = b
Whole        == Slots

Fetched(c, n, b) ==
  LET Filled(k, f, ok) ==
        [held |-> [c.held EXCEPT ![n] =
                     [u \in Unit |-> IF u < k THEN b ELSE c.held[n][u]]],
         tag |-> [c.tag EXCEPT ![n] = b],
         failures |-> c.failures + f, clean |-> c.clean /\ ok]
  IN  IF Hit(c, n, b) THEN {c}
      ELSE {Filled(Whole, 0, TRUE)} \cup
           IF b \notin DOMAIN image.blocks THEN {Filled(0, 0, FALSE)}
           ELSE {Filled(k, 1, FALSE) : k \in IF c.failures = MaxFailures THEN {}
                                             ELSE {0, Slots \div 2}}

Cache == [held |-> held, tag |-> tag, failures |-> failures, clean |-> clean]
Keep(c) == /\ held' = c.held /\ tag' = c.tag
           /\ failures' = c.failures /\ clean' = c.clean

\* An inode: the descriptor of its group, the block of the group's table, the
\* unit in it.  (There is no inode 0: the subtraction wraps.)
Index(i)       == (i + W - 1) % W
Group(i)       == Index(i) \div InodesPerGroup
GroupBlock(i)  == Group(i) \div GroupsPerBlock + FirstBgdt
GroupUnit(i)   == Group(i) % GroupsPerBlock
InodeBlock(g, i) ==
  g.table + (Index(i) % InodesPerGroup) \div InodesPerBlock
InodeUnit(i)   == (Index(i) % InodesPerGroup) % InodesPerBlock

\* Inode i is read: the cache, and the copy of the inode.
Open(i, c0) ==
  LET Read(c1) ==
        UNION {{[cache |-> c2, inode |-> n] :
                  n \in As("inode", In(c2.held["inodes"], InodeUnit(i)))} : c2 \in UNION {Fetched(c1, "inodes", InodeBlock(g, i)) :
                   g \in As("group", In(c1.held["groups"], GroupUnit(i)))}}
  IN  UNION {Read(c1) : c1 \in Fetched(c0, "groups", GroupBlock(i))}

-----------------------------------------------------------------------------
\* ext2_init.  Its last four stores may come in any order.
Init ==
  /\ fs \in DOMAIN Images
  /\ setup = {"superblock"} /\ ready = FALSE /\ present = {}
  /\ held = [n \in Buffer |-> [u \in Unit |-> 0]] /\ tag = [n \in Buffer |-> 0]
  /\ failures = 0 /\ clean = TRUE
  /\ pc = "idle" /\ goal = <<>> /\ path = <<>>
  /\ dir = 0 /\ node = Zero("inode") /\ j = 0 /\ answer = 0
  /\ frames = <<>> /\ printed = <<>>

\* Without its magic number the superblock ends the set-up.
ReadyAtFirst == FALSE

ReadSuperblock ==
  /\ pc = "idle" /\ setup = {"superblock"}
  /\ \/ setup' = {"buffers"} /\ ready' = ReadyAtFirst /\ UNCHANGED failures
     \/ setup' = {} /\ failures < MaxFailures /\ failures' = failures + 1
        /\ UNCHANGED ready
  /\ UNCHANGED <<fs, present, held, tag, clean, pc, lookup, frames, printed>>

\* malloc, three times; that it has failed is only printed.
Allocate ==
  /\ pc = "idle" /\ setup = {"buffers"}
  /\ present' \in {Buffer} \cup {Buffer \ {n} : n \in Buffer}
  /\ setup' = Buffer \cup {"ready"}
  /\ UNCHANGED <<fs, ready, cache, pc, lookup, frames, printed>>

Publish(x) ==
  /\ pc = "idle" /\ x \in setup \cap (Buffer \cup {"ready"})
  /\ setup' = setup \ {x}
  /\ ready' = (ready \/ x = "ready")
  /\ tag' = IF x \in Buffer THEN [tag EXCEPT ![x] = Unset] ELSE tag
  /\ UNCHANGED <<fs, present, held, failures, clean, pc, lookup, frames,
                 printed>>

-----------------------------------------------------------------------------
\* The handler begins a call; its first reads need the buffers in ns.  Through
\* one that malloc has not returned, a read ends in a page fault.
Needs(ns) == ns \subseteq present

Halt == /\ \/ pc = "open" /\ ~Needs({"groups", "inodes"})
           \/ pc \in {"search", "list"} /\ ~Needs({"entries"})
        /\ pc' = "halted"
        /\ UNCHANGED <<disk, cache, lookup, frames, printed>>

Idle == pc = "idle" /\ ready /\ clean' = (Wrong = {})

\* ext2_print_bgdt (F6).
PrintGroups ==
  /\ Idle /\ Needs({"groups"})
  /\ \E c \in Fetched([Cache EXCEPT !.clean = Wrong = {}], "groups", FirstBgdt) :
       held' = c.held /\ tag' = c.tag /\ failures' = c.failures
  /\ UNCHANGED <<disk, pc, lookup, frames, printed>>

\* ext2_dump_inode(ext2_find_inode(2, p)) (F8).
Find(p) ==
  /\ Idle
  /\ pc' = "open" /\ goal' = p /\ path' = p /\ dir' = Root
  /\ UNCHANGED <<disk, held, tag, failures, node, j, answer, frames, printed>>

\* ext2_find_in_dir: the directory's inode, then its blocks one by one.  A name
\* that is not found is inode 0, which the next name is then looked up in.
IsLast(p) == Len(p) = 1

Found(i) ==
  /\ answer' = i /\ dir' = i /\ path' = Tail(path)
  /\ pc' = IF IsLast(path) THEN "found" ELSE "open"
  /\ node' = Zero("inode") /\ j' = 0

OpenDir ==
  /\ pc = "open" /\ Needs({"groups", "inodes"})
  /\ \E o \in Open(dir, Cache) :
       /\ Keep(o.cache)
       /\ \/ /\ o.inode.mode = "dir"
             /\ node' = o.inode /\ pc' = "search"
             /\ UNCHANGED <<path, dir, j, answer>>
          \/ o.inode.mode # "dir" /\ Found(0)
  /\ UNCHANGED <<disk, goal, frames, printed>>

\* find_in_dir_block: the inode of the first entry the name begins with (g is
\* what units that are no entries are taken for).
Past(e)        == IF e.size = 0 THEN 1 ELSE e.size
Match(e, name) == Prefix(e.name, name)

FirstIn(h, g, name) ==
  LET entry(at) == IF In(h, at).is = "entry" THEN In(h, at) ELSE g
      f[at \in Nat] ==
        IF at >= Slots THEN 0
        ELSE IF entry(at).size # 0 /\ entry(at).name # <<>>
                /\ Match(entry(at), name)
             THEN entry(at).inode
             ELSE f[at + Past(entry(at))]
  IN  f[0]

\* The number of block j of the directory: in the inode or, behind the direct
\* ones, in the indirect block, which stays in buf[0] meanwhile.
Numbered ==
  IF j < Direct THEN {[cache |-> Cache, block |-> node.blocks[j + 1]]}
  ELSE IF node.ind = 0 \/ j = Direct + Slots THEN {[cache |-> Cache, block |-> 0]}
  ELSE UNION {{[cache |-> c, block |-> p.to] :
                 p \in As("block", In(c.held["inodes"], j - Direct))} :
                c \in IF j = Direct THEN Fetched(Cache, "inodes", node.ind)
                      ELSE {Cache}}

SearchBlock ==
  /\ pc = "search" /\ Needs({"entries"})
  /\ \E o \in Numbered :
       IF o.block = 0 THEN Keep(o.cache) /\ Found(0)
       ELSE \E c \in Fetched(o.cache, "entries", o.block) :
            \E g \in As("entry", [is |-> "none"]) :
              LET i == FirstIn(c.held["entries"], g, Head(path))
              IN /\ Keep(c)
                 /\ \/ i # 0 /\ Found(i)
                    \/ /\ i = 0 /\ j' = j + 1
                       /\ UNCHANGED <<path, dir, node, answer, pc>>
  /\ UNCHANGED <<disk, goal, frames, printed>>

\* ext2_dump_inode, also of inode 0.
DumpInode ==
  /\ pc = "found"
  /\ pc' = "idle"
  /\ \E o \in Open(answer, Cache) : Keep(o.cache)
  /\ path' = <<>> /\ goal' = <<>> /\ dir' = 0 /\ answer' = 0
  /\ UNCHANGED <<disk, node, j, frames, printed>>

-----------------------------------------------------------------------------
\* ext2_print_inode (F7): a directory is listed by a call of its own.  A call
\* the stack has no room for writes over what lies below it.
Enter(i, where, c0, rest) ==
  \E o \in Open(i, c0) :
    /\ Keep(o.cache)
    /\ \/ /\ o.inode.mode = "dir" /\ Len(rest) < StackDepth
          /\ frames' = Append(rest, [path |-> where, blocks |-> o.inode.blocks,
                                     at |-> 0])
          /\ pc' = "list"
       \/ o.inode.mode # "dir" /\ frames' = rest /\ pc' = "list"
       \/ /\ o.inode.mode = "dir" /\ Len(rest) = StackDepth
          /\ frames' = rest /\ pc' = "overflow"

List ==
  /\ Idle
  /\ pc' = "root" /\ printed' = <<>>
  /\ UNCHANGED <<disk, held, tag, failures, lookup, frames>>

ListRoot ==
  /\ pc = "root"
  /\ IF Needs({"groups", "inodes"})
     THEN Enter(Root, <<>>, Cache, <<>>)
     ELSE pc' = "halted" /\ UNCHANGED <<cache, frames>>
  /\ UNCHANGED <<disk, lookup, printed>>

Hidden(name)   == name \in {<<".">>, <<".", ".">>}
Reads(at)      == at < Slots
Onwards(at, e) == at + Past(e)

\* One round of the loop over the directory's blocks and entries, or its end.
ListEntry ==
  /\ pc = "list" /\ Needs({"entries"}) /\ frames # <<>>
  /\ LET below == SubSeq(frames, 1, Len(frames) - 1)
         top   == frames[Len(frames)]
         On(f) == frames' = Append(below, f) /\ UNCHANGED pc
     IN  IF top.blocks = <<>>
         THEN frames' = below /\ UNCHANGED <<pc, cache, printed>>
         ELSE IF Head(top.blocks) = 0 \/ top.at >= Slots
         THEN /\ On([top EXCEPT !.blocks = Tail(@), !.at = 0])
              /\ UNCHANGED <<cache, printed>>
         ELSE \E c \in IF Reads(top.at)
                       THEN Fetched(Cache, "entries", Head(top.blocks))
                       ELSE {Cache} :
              \E e \in As("entry", In(c.held["entries"], top.at)) :
                LET self == [top EXCEPT !.at = Onwards(@, e)]
                    file == Append(top.path, e.name)
                IN  IF e.size = 0 \/ e.name = <<>> \/ Hidden(e.name)
                    THEN On(self) /\ Keep(c) /\ UNCHANGED printed
                    ELSE /\ printed' = Append(printed, file)
                         /\ IF e.type = "dir"
                            THEN Enter(e.inode, file, c, Append(below, self))
                            ELSE On(self) /\ Keep(c)
  /\ UNCHANGED <<disk, lookup>>

ListEnd ==
  /\ pc = "list" /\ frames = <<>>
  /\ pc' = "idle" /\ printed' = <<>>
  /\ UNCHANGED <<disk, cache, lookup, frames>>

\* The machine has stopped, or there is nothing to read.
Rest == /\ pc \in {"halted", "overflow"} \/ (pc = "idle" /\ setup = {} /\ ~ready)
        /\ UNCHANGED vars

SetUp   == ReadSuperblock \/ Allocate \/ \E x \in Buffer \cup {"ready"} : Publish(x)
Handler == \/ OpenDir \/ SearchBlock \/ DumpInode
           \/ ListRoot \/ ListEntry \/ ListEnd \/ Halt

Next == \/ SetUp \/ Handler \/ Rest
        \/ PrintGroups \/ List \/ \E p \in Paths : Find(p)

Spec     == Init /\ [][Next]_vars
FairSpec == Spec /\ WF_vars(Handler)

-----------------------------------------------------------------------------
\* Type invariant.
Frame  == [path : Seq(Seq(STRING)), blocks : Seq(Nat), at : Nat]

TypeOK ==
  /\ fs \in DOMAIN Images
  /\ setup \in SUBSET (Buffer \cup {"superblock", "buffers", "ready"})
  /\ ready \in BOOLEAN /\ clean \in BOOLEAN /\ present \in SUBSET Buffer
  /\ held \in [Buffer -> [Unit -> Nat]] /\ tag \in [Buffer -> Nat]
  /\ failures \in 0 .. MaxFailures
  /\ pc \in {"idle", "open", "search", "found", "root", "list", "halted",
            "overflow"}
  /\ goal \in Seq(Seq(STRING)) /\ path \in Seq(Seq(STRING))
  /\ pc \in {"open", "search"} => path # <<>>
  /\ dir \in Nat /\ answer \in Nat
  /\ node \in InodeKind /\ j \in 0 .. Direct + Slots
  /\ frames \in Seq(Frame) /\ printed \in Seq(Seq(Seq(STRING)))

\* How a file system f holds a directory d, as the entries of Images have it: a
\* descriptor, an inode, blocks up to the first that is 0, and in each a row of
\* entries, one of which begins where the last one ends.
UnitOf(f, b, u) == Images[f].blocks[b][u + 1]
GroupOf(f, d)   == UnitOf(f, GroupBlock(d), GroupUnit(d))
InodeOf(f, d)   == UnitOf(f, InodeBlock(GroupOf(f, d), d), InodeUnit(d))

BlockOf(f, n, k) == IF k < Direct THEN n.blocks[k + 1]
                    ELSE IF n.ind = 0 \/ k = Direct + Slots THEN 0
                    ELSE UnitOf(f, n.ind, k - Direct).to
Used(f, n) == {k \in 0 .. Direct + Slots : \A i \in 0 .. k : BlockOf(f, n, i) # 0}

Closed(f, b, S) ==
  0 \in S /\ \A u \in S :
     LET e == UnitOf(f, b, u)
     IN  e.is = "entry" /\ u + Past(e) \in Unit => u + Past(e) \in S
Starts(f, b) == {u \in Unit : \A S \in SUBSET Unit : Closed(f, b, S) => u \in S}
Row(f, b)    == {UnitOf(f, b, u) : u \in Starts(f, b)}

Placed(f, d) ==
  /\ GroupBlock(d) \in DOMAIN Images[f].blocks /\ GroupOf(f, d).is = "group"
  /\ InodeBlock(GroupOf(f, d), d) \in DOMAIN Images[f].blocks
  /\ InodeOf(f, d).is = "inode" /\ InodeOf(f, d).mode = "dir"

IsDirectory(f, d) ==
  LET n == InodeOf(f, d)
      IsBlock(b, kind) == /\ b \in DOMAIN Images[f].blocks
                          /\ \A u \in Unit : UnitOf(f, b, u).is = kind
      rows == UNION {Row(f, BlockOf(f, n, k)) : k \in Used(f, n)}
      es   == Images[f].entries[d]
  IN  /\ Placed(f, d) /\ (n.ind = 0 \/ IsBlock(n.ind, "block"))
      /\ \A k \in Used(f, n) : BlockOf(f, n, k) \in DOMAIN Images[f].blocks
      /\ \A e \in rows : e.is = "entry"
      /\ es = {e \in rows : e.size # 0 /\ e.name # <<>>}
      /\ \A e, o \in es : e.name = o.name /\ e.inode # 0 /\ o.inode # 0 =>
                          e.inode = o.inode

ASSUME DirectoryAssumption ==
  \A f \in DOMAIN Images : \A d \in DOMAIN Images[f].entries : IsDirectory(f, d)

\* How a file system f is listed: every directory under its path, with its
\* inode; and how many lines come before unit u of its block k.  What an entry
\* tells takes a line, a directory's also those of what is in it.
Before(f, p, k, u) == Images[f].before[p][k][IF u < Slots THEN u ELSE Slots]
End(f, p)          == Before(f, p, Direct + 1, 0)
Untold(e)          == e.size = 0 \/ e.name = <<>> \/ Hidden(e.name)

Tells(f, p, k, u, e) ==
  LET file == Append(p, e.name)
      now  == Before(f, p, k, u)
      next == Before(f, p, k, u + Past(e))
      dirs == Images[f].dirs
  IN  IF Untold(e) THEN next = now
      ELSE /\ now < Len(Images[f].listing) /\ Images[f].listing[now + 1] = file
           /\ IF e.type = "dir"
              THEN /\ file \in DOMAIN dirs /\ dirs[file] = e.inode
                   /\ Before(f, file, 1, 0) = now + 1 /\ End(f, file) = next
              ELSE next = now + 1

TellsBlock(f, p, k, b) ==
  IF b = 0 THEN Before(f, p, k, 0) = Before(f, p, k + 1, 0)
  ELSE /\ b \in DOMAIN Images[f].blocks
       /\ Before(f, p, k, Slots) = Before(f, p, k + 1, 0)
       /\ \A u \in Starts(f, b) : /\ UnitOf(f, b, u).is = "entry"
                                  /\ Tells(f, p, k, u, UnitOf(f, b, u))

IsListed(f) ==
  LET dirs    == Images[f].dirs
      listing == Images[f].listing
  IN  /\ listing \in Seq(Seq(Seq(STRING)))
      /\ Images[f].before \in [DOMAIN dirs -> [1 .. Direct + 1 -> [0 .. Slots -> Nat]]]
      /\ <<>> \in DOMAIN dirs /\ dirs[<<>>] = Root
      /\ Before(f, <<>>, 1, 0) = 0 /\ End(f, <<>>) = Len(listing)
      /\ \A p \in DOMAIN dirs :
           /\ p \in Seq(Seq(STRING)) /\ Len(p) < StackDepth
           /\ dirs[p] \in Nat /\ Placed(f, dirs[p])
           /\ \A k \in 1 .. Direct :
                TellsBlock(f, p, k, InodeOf(f, dirs[p]).blocks[k])

ASSUME ListingAssumption == \A f \in DOMAIN Images : IsListed(f)

\* The whole tree of a file system, every directory of it under its path.  It is
\* more than the listing, which takes the direct blocks of a directory and not
\* those its indirect block names.
DirectBlocks(f, d)   == {InodeOf(f, d).blocks[k] : k \in 1 .. Direct} \ {0}
IndirectBlocks(f, d) == IF InodeOf(f, d).ind = 0 THEN {}
                        ELSE {UnitOf(f, InodeOf(f, d).ind, u).to : u \in Unit} \ {0}
Told(f, bs)          == {e \in UNION {Row(f, b) : b \in bs} : ~Untold(e)}
ToldIn(f, d)         == Told(f, DirectBlocks(f, d) \cup IndirectBlocks(f, d))

Files(f) == LET dirs == Images[f].tree
           IN  UNION {{Append(p, e.name) : e \in ToldIn(f, dirs[p])} : p \in DOMAIN dirs}

\* What lies in an indirect block, or below what does.
Indirect(f) == LET dirs == Images[f].tree
               IN  UNION {{Append(p, e.name) : e \in Told(f, IndirectBlocks(f, dirs[p]))} :
                            p \in DOMAIN dirs}
Missed(f)   == {q \in Files(f) : \E n \in 1 .. Len(q) : SubSeq(q, 1, n) \in Indirect(f)}

IsTree(f) ==
  LET dirs    == Images[f].tree
      listing == Images[f].listing
      Subdirs(p) == {e \in ToldIn(f, dirs[p]) : e.type = "dir"}
  IN  /\ <<>> \in DOMAIN dirs /\ dirs[<<>>] = Root
      /\ \A p \in DOMAIN dirs :
           /\ Placed(f, dirs[p])
           /\ \A e \in Subdirs(p) : /\ Append(p, e.name) \in DOMAIN dirs
                                     /\ dirs[Append(p, e.name)] = e.inode
           /\ p # <<>> => \E o \in DOMAIN dirs : \E e \in Subdirs(o) : p = Append(o, e.name)
      /\ {listing[n] : n \in DOMAIN listing} = Files(f) \ Missed(f)

ASSUME TreeAssumption == \A f \in DOMAIN Images : IsTree(f)

\* What a path p names, directory by directory; and what can lead the lookup
\* astray: an entry the wanted name only begins with, or a removed one.
Named(f, d, name) ==
  LET es == {e \in Images[f].entries[d] : e.name = name /\ e.inode # 0}
  IN  IF es = {} THEN 0 ELSE (CHOOSE e \in es : TRUE).inode

Walk(f, p) ==
  LET at[k \in 0 .. Len(p)] ==
        IF k = 0 THEN Root
        ELSE IF at[k - 1] \in DOMAIN Images[f].entries
             THEN Named(f, at[k - 1], p[k]) ELSE 0
  IN  at

Plain(f, p) ==
  \A k \in 1 .. Len(p) :
    /\ Walk(f, p)[k - 1] \in DOMAIN Images[f].entries
    /\ \A e \in Images[f].entries[Walk(f, p)[k - 1]] :
         Prefix(e.name, p[k]) => e.name = p[k] /\ e.inode # 0

\* A lookup returns the inode its path names, or 0 if the last name is not there;
\* provided that every directory on the way is (the lookup goes on in inode 0
\* where one is not), that no entry on the way is misleading, and that the call
\* has met no failed read, its own or an earlier one's still in a buffer.  Calls
\* that come while ext2_init is still storing its tags are right as well
\* (ext2.c:11-50, 163-239).
LookupRight == pc = "found" /\ clean /\ Plain(fs, goal) =>
                  answer = Walk(fs, goal)[Len(goal)]

\* A listing is in order and without repetition, although each directory's calls
\* go through the buffers of the ones above, and misses nothing of the tree but
\* what lies in or below an indirect block, which it never reads (ext2.c:113); and
\* the recursion gets out of the stack only after a failed read, whose stale block
\* can make a directory its own child (ext2.c:11-19, 89-157).
ListingRight ==
  clean => /\ pc # "overflow"
           /\ pc = "list" /\ frames = <<>> =>
                /\ printed = image.listing
                /\ {printed[n] : n \in DOMAIN printed} = Files(fs) \ Missed(fs)

\* No call goes through a buffer that is not there, unless malloc has refused
\* it (ext2.c:31, 43-45, 49).
HaltExplained ==
  pc = "halted" => present # Buffer /\ setup \subseteq Buffer

\* A buffer goes wrong only by a read that fails (ext2.c:11-27, 46-48).
GoesWrongByFailure == [][Wrong' \subseteq Wrong \/ failures' > failures]_vars

\* Every call ends (or stops the machine), whatever the blocks hold: also
\* entries without a size (ext2.c:115-125, 169-181, 204-210).
CallsEnd == []<>(pc \in {"idle", "halted", "overflow"})
=============================================================================
