------------------------------- MODULE MCExt2 -------------------------------
(***************************************************************************)
(* Two small file systems for Ext2.  Blocks of four units, inode tables of *)
(* two blocks, descriptor blocks for two groups: the root, its children    *)
(* and theirs lie in different groups, and the directories' entries in     *)
(* direct and indirect blocks; a listing misses those in the latter.       *)
(***************************************************************************)
EXTENDS Ext2, TLC

Entry(name, i, size, type) ==
  [is |-> "entry", name |-> name, inode |-> i, size |-> size, type |-> type]
Inode(mode, blocks, ind) ==
  [is |-> "inode", mode |-> mode, blocks |-> blocks, ind |-> ind]
To(b)     == [is |-> "block", to |-> b]
Table(b)  == [is |-> "group", table |-> b]
Rest4     == [is |-> "rest"]        \* the inside of an entry, or nothing
Free      == Inode("unused", <<0, 0>>, 0)
File      == Inode("file", <<0, 0>>, 0)
Dot(i)    == Entry(<<".">>, i, 1, "dir")
DotDot(i) == Entry(<<".", ".">>, i, 1, "dir")

Groups(t0, t1) == <<Table(t0), Table(t1), Rest4, Rest4>>
Inodes(i0, i1) == <<i0, i1, Rest4, Rest4>>
NoBlock        == <<Rest4, Rest4, Rest4, Rest4>>

\* The entries of a block of a directory that have a size and a name.
EntriesIn(block) ==
  {block[u] : u \in {v \in 1 .. 4 : /\ block[v].is = "entry"
                                   /\ block[v].size # 0 /\ block[v].name # <<>>}}

\* Lines of the listing before each unit of a block, and behind it.
Lines(a, b, c, d, e) == [u \in 0 .. 4 |-> <<a, b, c, d, e>>[u + 1]]
All(n)               == Lines(n, n, n, n, n)

\* The root (2) has two direct blocks (10, 11) and an indirect one (12, 13).
\* "a" (5, in the second group) holds "b" (9, in the third), which holds a file;
\* "v" (8), whose entry is in an indirect block, holds another.
RootA == <<Dot(2), DotDot(2), Entry(<<"a">>, 5, 2, "dir"), Rest4>>
RootB == <<Entry(<<"t", "o">>, 3, 2, "file"), Rest4,
           Entry(<<"t">>, 4, 2, "file"), Rest4>>
RootC == <<Entry(<<>>, 0, 1, "file"), Entry(<<"u">>, 7, 1, "file"),
           Entry(<<"v">>, 8, 2, "dir"), Rest4>>
A     == <<Dot(5), DotDot(2), Entry(<<"b">>, 9, 1, "dir"),
           Entry(<<"c">>, 6, 1, "file")>>
B     == <<Dot(9), DotDot(5), Entry(<<"t">>, 10, 2, "file"), Rest4>>
V     == <<Dot(8), DotDot(2), Entry(<<"t">>, 3, 2, "file"), Rest4>>
Tree ==
  [blocks |-> <<NoBlock, Groups(4, 6), Groups(8, 0),
                Inodes(Free, Inode("dir", <<10, 11>>, 12)), Inodes(File, File),
                Inodes(Inode("dir", <<14, 0>>, 0), File),
                Inodes(File, Inode("dir", <<16, 0>>, 0)),
                Inodes(Inode("dir", <<15, 0>>, 0), File), NoBlock,
                RootA, RootB, <<To(13), To(0), To(0), To(0)>>, RootC, A, B, V>>,
   entries |-> [d \in {2, 5, 9} |->
                  CASE d = 2 -> EntriesIn(RootA) \cup EntriesIn(RootB)
                                \cup EntriesIn(RootC)
                    [] d = 5 -> EntriesIn(A)
                    [] d = 9 -> EntriesIn(B)],
   listing |-> << <<<<"a">>>>, <<<<"a">>, <<"b">>>>,
                  <<<<"a">>, <<"b">>, <<"t">>>>, <<<<"a">>, <<"c">>>>,
                  <<<<"t", "o">>>>, <<<<"t">>>> >>,
   dirs |-> << >> :> 2 @@ <<<<"a">>>> :> 5 @@ <<<<"a">>, <<"b">>>> :> 9,
   tree |-> << >> :> 2 @@ <<<<"a">>>> :> 5 @@ <<<<"a">>, <<"b">>>> :> 9
            @@ <<<<"v">>>> :> 8,
   before |-> << >> :> <<Lines(0, 0, 0, 0, 4), Lines(4, 4, 5, 5, 6), All(6)>>
              @@ <<<<"a">>>> :> <<Lines(1, 1, 1, 3, 4), All(4), All(4)>>
              @@ <<<<"a">>, <<"b">>>> :> <<Lines(2, 2, 2, 2, 3), All(3), All(3)>>]

\* A directory with an entry without a size, and one with an entry that was
\* removed from the start of a block.
OddA == <<Dot(2), DotDot(2), Entry(<<"t">>, 3, 0, "file"),
          Entry(<<"u">>, 4, 1, "file")>>
OddB == <<Entry(<<"t">>, 0, 2, "file"), Rest4, Entry(<<"a">>, 5, 2, "dir"), Rest4>>
OddC == <<Dot(5), DotDot(2), Entry(<<"t">>, 4, 2, "file"), Rest4>>
Odd ==
  [blocks |-> <<NoBlock, Groups(4, 6), NoBlock,
                Inodes(Free, Inode("dir", <<10, 11>>, 0)), Inodes(Free, File),
                Inodes(Inode("dir", <<12, 0>>, 0), Free), NoBlock, NoBlock,
                NoBlock, OddA, OddB, OddC>>,
   entries |-> [d \in {2, 5} |->
                  IF d = 2 THEN EntriesIn(OddA) \cup EntriesIn(OddB)
                  ELSE EntriesIn(OddC)],
   listing |-> << <<<<"u">>>>, <<<<"t">>>>, <<<<"a">>>>, <<<<"a">>, <<"t">>>> >>,
   dirs |-> << >> :> 2 @@ <<<<"a">>>> :> 5,
   tree |-> << >> :> 2 @@ <<<<"a">>>> :> 5,
   before |-> << >> :> <<Lines(0, 0, 0, 0, 1), Lines(1, 1, 2, 2, 4), All(4)>>
              @@ <<<<"a">>>> :> <<Lines(3, 3, 3, 3, 4), All(4), All(4)>>]

MCImages == <<Tree, Odd>>
MCPaths  == {<<<<"t">>>>, <<<<"t", "o">>>>, <<<<"u">>>>, <<<<"a">>, <<"t">>>>,
             <<<<"a">>, <<"b">>, <<"t">>>>}
=============================================================================
