--------------------------- MODULE KeyboardProofs ---------------------------
(***************************************************************************)
(* The keyboard and its driver, for every room and whatever is typed, as   *)
(* long as Boot runs.  The bytes on their way take the driver through a    *)
(* row of statuses: what the typist does adds to its end, what the driver  *)
(* reads takes from its beginning.  So the last status is the one that has *)
(* to agree with the keys, and each byte's own says what it will give.     *)
(***************************************************************************)
EXTENDS Boot, SequenceTheorems, TLAPS

Lamps    == {"shift", "ctrl", "alt", "caps", "num", "scroll"}
Statuses == SUBSET Lamps
Glyphs   == {"x", "d", "1", "F7", "Up", "X", "D", "!"}
Wants    == {<<>>} \cup (Glyphs \X Statuses)
Octets   == 0 .. 255
Bytes    == [code : Octets, want : Wants]

\* NewStatus and Given of any status.
Then(st, code) ==
  IF code >= 128 THEN st \ Modifier(code - 128)
  ELSE (st \cup Modifier(code) \cup Lock(code)) \ (st \cap Lock(code))

Gives(st, code) == IF code < 128 /\ code \in DOMAIN map
                   THEN <<Ascii(st, code), Special(st)>> ELSE <<>>

\* The bytes take the driver from one status to another, and each gives what
\* is wanted of it.
Right(st, byte) == byte.want # <<>> => Gives(st, byte.code) = byte.want

Row(t, q) == \A n \in 1 .. Len(q) : /\ t[n] = Then(t[n - 1], q[n].code)
                                    /\ Right(t[n - 1], q[n])

Reads(st, q, end) ==
  \E t \in [0 .. Len(q) -> Statuses] : t[0] = st /\ t[Len(q)] = end /\ Row(t, q)

Tagged(bytes, want) ==
  [n \in 1 .. Len(bytes) |-> [code |-> bytes[n],
                              want |-> IF n = Len(bytes) THEN want ELSE <<>>]]

-----------------------------------------------------------------------------
LEMMA NothingRead ==
  ASSUME NEW st \in Statuses
  PROVE  Reads(st, <<>>, st)
<1> DEFINE t == [n \in 0 .. 0 |-> st]
<1>1. t \in [0 .. 0 -> Statuses] /\ t[0] = st
  OBVIOUS
<1>2. Len(<<>>) = 0 /\ 1 .. 0 = {}
  BY EmptySeq
<1> HIDE DEF t
<1>3. Row(t, <<>>)
  BY <1>2 DEF Row
<1> QED BY <1>1, <1>2, <1>3 DEF Reads

\* One row of bytes behind the other.
LEMMA BothRead ==
  ASSUME NEW p \in Seq(Bytes), NEW q \in Seq(Bytes), NEW a, NEW b, NEW c,
         Reads(a, p, b), Reads(b, q, c)
  PROVE  Reads(a, p \o q, c)
<1> DEFINE m == Len(p)
           n == Len(q)
           r == p \o q
<1>1. m \in Nat /\ n \in Nat
  BY LenProperties
<1>2. /\ Len(r) = m + n
      /\ \A k \in 1 .. m + n : r[k] = IF k <= m THEN p[k] ELSE q[k - m]
  BY ConcatProperties
<1>3. PICK s \in [0 .. m -> Statuses] : s[0] = a /\ s[m] = b /\ Row(s, p)
  BY DEF Reads
<1>4. PICK t \in [0 .. n -> Statuses] : t[0] = b /\ t[n] = c /\ Row(t, q)
  BY DEF Reads
<1> DEFINE u == [k \in 0 .. m + n |-> IF k <= m THEN s[k] ELSE t[k - m]]
<1>5. u \in [0 .. m + n -> Statuses]
  <2>1. \A k \in 0 .. m + n : /\ k <= m => k \in 0 .. m
                              /\ ~(k <= m) => k - m \in 0 .. n
    BY <1>1
  <2> QED BY <2>1
<1>6. u[0] = a /\ u[m + n] = c
  <2>1. CASE n = 0
    BY <1>1, <1>3, <1>4, <2>1
  <2>2. CASE n # 0
    BY <1>1, <1>3, <1>4, <2>2
  <2> QED BY <2>1, <2>2
<1>7. \A k \in 0 .. m + n : u[k] = IF k <= m THEN s[k] ELSE t[k - m]
  OBVIOUS
<1> HIDE DEF u, r, m, n
<1>8. ASSUME NEW k \in 1 .. m + n
      PROVE  u[k] = Then(u[k - 1], r[k].code) /\ Right(u[k - 1], r[k])
  <2>1. k \in 0 .. m + n /\ k - 1 \in 0 .. m + n
    BY <1>1
  <2>2. CASE k <= m
    <3>1. k \in 1 .. m /\ k - 1 <= m
      BY <1>1, <2>2
    <3>2. u[k] = s[k] /\ u[k - 1] = s[k - 1] /\ r[k] = p[k]
      BY <1>2, <1>7, <2>1, <2>2, <3>1
    <3>3. s[k] = Then(s[k - 1], p[k].code) /\ Right(s[k - 1], p[k])
      BY <1>3, <3>1 DEF Row, m
    <3> QED BY <3>2, <3>3
  <2>3. CASE ~(k <= m)
    <3>1. k - m \in 1 .. n /\ (k - 1) - m = (k - m) - 1
      BY <1>1, <2>3
    <3>2. u[k] = t[k - m] /\ r[k] = q[k - m]
      BY <1>2, <1>7, <2>1, <2>3
    <3>3. u[k - 1] = t[(k - m) - 1]
      <4>1. CASE k - 1 <= m
        <5>1. k - 1 = m /\ (k - m) - 1 = 0
          BY <1>1, <2>3, <4>1
        <5> QED BY <1>3, <1>4, <1>7, <2>1, <4>1, <5>1
      <4>2. CASE ~(k - 1 <= m)
        BY <1>7, <2>1, <3>1, <4>2
      <4> QED BY <4>1, <4>2
    <3>4. /\ t[k - m] = Then(t[(k - m) - 1], q[k - m].code)
          /\ Right(t[(k - m) - 1], q[k - m])
      BY <1>4, <3>1 DEF Row, n
    <3> QED BY <3>2, <3>3, <3>4
  <2> QED BY <2>2, <2>3
<1>9. Row(u, r) /\ Len(r) = m + n
  BY <1>2, <1>8 DEF Row
<1>10. Reads(a, r, c)
  BY <1>5, <1>6, <1>9 DEF Reads
<1> QED BY <1>10 DEF r

\* The driver reads the first byte.
LEMMA FirstRead ==
  ASSUME NEW q \in Seq(Bytes), q # <<>>, NEW a, NEW b, Reads(a, q, b)
  PROVE  /\ Right(a, Head(q))
         /\ Reads(Then(a, Head(q).code), Tail(q), b)
<1> DEFINE n == Len(q)
           r == Tail(q)
<1>1. /\ n \in Nat \ {0} /\ Head(q) = q[1] /\ Len(r) = n - 1
      /\ \A k \in 1 .. n - 1 : r[k] = q[k + 1]
  BY HeadTailProperties, EmptySeq, LenProperties
<1>2. PICK s \in [0 .. n -> Statuses] : s[0] = a /\ s[n] = b /\ Row(s, q)
  BY DEF Reads
<1>3. 1 \in 1 .. n /\ 1 - 1 = 0
  BY <1>1
<1>4. s[1] = Then(a, q[1].code) /\ Right(a, q[1])
  BY <1>2, <1>3 DEF Row
<1> DEFINE u == [k \in 0 .. n - 1 |-> s[k + 1]]
<1>5. u \in [0 .. n - 1 -> Statuses] /\ u[0] = s[1] /\ u[n - 1] = b
  <2>1. \A k \in 0 .. n - 1 : k + 1 \in 0 .. n
    BY <1>1
  <2> QED BY <1>1, <1>2, <2>1
<1>6. \A k \in 0 .. n - 1 : u[k] = s[k + 1]
  OBVIOUS
<1> HIDE DEF u, r, n
<1>7. ASSUME NEW k \in 1 .. n - 1
      PROVE  u[k] = Then(u[k - 1], r[k].code) /\ Right(u[k - 1], r[k])
  <2>1. k + 1 \in 1 .. n /\ k - 1 \in 0 .. n - 1 /\ k \in 0 .. n - 1
        /\ (k + 1) - 1 = k /\ (k - 1) + 1 = k
    BY <1>1
  <2>2. s[k + 1] = Then(s[k], q[k + 1].code) /\ Right(s[k], q[k + 1])
    BY <1>2, <2>1 DEF Row, n
  <2>3. u[k] = s[k + 1] /\ u[k - 1] = s[k] /\ r[k] = q[k + 1]
    BY <1>1, <1>6, <2>1
  <2> QED BY <2>2, <2>3
<1>8. Row(u, r) /\ Len(r) = n - 1
  BY <1>1, <1>7 DEF Row
<1>9. Reads(s[1], r, b)
  BY <1>5, <1>8 DEF Reads
<1> QED BY <1>1, <1>4, <1>9 DEF r

\* Bytes as they are sent.
LEMMA TaggedBytes ==
  ASSUME NEW b \in Seq(Octets), NEW w \in Wants
  PROVE  /\ Tagged(b, w) \in Seq(Bytes) /\ Len(Tagged(b, w)) = Len(b)
         /\ \A n \in 1 .. Len(b) :
              /\ Tagged(b, w)[n].code = b[n]
              /\ Tagged(b, w)[n].want = IF n = Len(b) THEN w ELSE <<>>
<1> DEFINE q == Tagged(b, w)
           m == Len(b)
           wish(n) == IF n = m THEN w ELSE <<>>
<1>1. m \in Nat /\ \A n \in 1 .. m : b[n] \in Octets
  BY LenProperties, ElementOfSeq
<1>2. q = [n \in 1 .. m |-> [code |-> b[n], want |-> wish(n)]]
  BY DEF Tagged
<1>3. \A n \in 1 .. m : wish(n) \in Wants
  BY DEF Wants
<1> HIDE DEF q, m, wish
<1>4. \A n \in 1 .. m : [code |-> b[n], want |-> wish(n)] \in Bytes
  BY <1>1, <1>3 DEF Bytes
<1>5. q \in [1 .. m -> Bytes]
  BY <1>2, <1>4
<1>6. q \in Seq(Bytes) /\ Len(q) = m
  <2>1. q \in Seq(Bytes)
    BY <1>1, <1>5, SeqDef
  <2> QED BY <1>1, <1>5, <2>1, LenProperties
<1>7. \A n \in 1 .. m : q[n].code = b[n] /\ q[n].want = wish(n)
  BY <1>2
<1> QED BY <1>6, <1>7 DEF q, m, wish

LEMMA TaggedBoth ==
  ASSUME NEW a \in Seq(Octets), NEW b \in Seq(Octets), b # <<>>,
         NEW w \in Wants
  PROVE  Tagged(a \o b, w) = Tagged(a, <<>>) \o Tagged(b, w)
<1> DEFINE m == Len(a)
           n == Len(b)
           p == Tagged(a, <<>>)
           q == Tagged(b, w)
           r == Tagged(a \o b, w)
<1>1. /\ m \in Nat /\ n \in Nat \ {0} /\ a \o b \in Seq(Octets)
      /\ Len(a \o b) = m + n
      /\ \A k \in 1 .. m + n : (a \o b)[k] = IF k <= m THEN a[k] ELSE b[k - m]
  BY ConcatProperties, LenProperties, EmptySeq
<1>2. <<>> \in Wants
  BY DEF Wants
<1>p. /\ p \in Seq(Bytes) /\ Len(p) = m
      /\ \A k \in 1 .. m : p[k].code = a[k] /\ p[k].want = <<>>
  BY <1>2, TaggedBytes
<1>q. /\ q \in Seq(Bytes) /\ Len(q) = n
      /\ \A k \in 1 .. n : /\ q[k].code = b[k]
                           /\ q[k].want = IF k = n THEN w ELSE <<>>
  BY TaggedBytes
<1>r. /\ r \in Seq(Bytes) /\ Len(r) = m + n
      /\ \A k \in 1 .. m + n : /\ r[k].code = (a \o b)[k]
                               /\ r[k].want = IF k = m + n THEN w ELSE <<>>
  <2> DEFINE c == a \o b
  <2>1. c \in Seq(Octets) /\ Len(c) = m + n
    BY <1>1
  <2> HIDE DEF m, n, c
  <2>2. /\ Tagged(c, w) \in Seq(Bytes) /\ Len(Tagged(c, w)) = Len(c)
        /\ \A k \in 1 .. Len(c) : /\ Tagged(c, w)[k].code = c[k]
                                  /\ Tagged(c, w)[k].want =
                                       IF k = Len(c) THEN w ELSE <<>>
    BY <2>1, TaggedBytes
  <2> QED BY <2>1, <2>2 DEF c
<1>3. /\ p \in Seq(Bytes) /\ q \in Seq(Bytes) /\ r \in Seq(Bytes)
      /\ Len(p) = m /\ Len(q) = n /\ Len(r) = m + n
  BY <1>p, <1>q, <1>r
<1> HIDE DEF m, n, p, q, r
<1>4. /\ p \o q \in Seq(Bytes) /\ Len(p \o q) = m + n
      /\ \A k \in 1 .. m + n : (p \o q)[k] = IF k <= m THEN p[k] ELSE q[k - m]
  BY <1>3, ConcatProperties
<1>5. \A x, y \in Bytes : x.code = y.code /\ x.want = y.want => x = y
  BY DEF Bytes
<1>6. ASSUME NEW k \in 1 .. m + n
      PROVE  r[k] = (p \o q)[k]
  <2>1. r[k] \in Bytes /\ (p \o q)[k] \in Bytes
    BY <1>3, <1>4, ElementOfSeq
  <2>2. CASE k <= m
    <3>1. k \in 1 .. m /\ k # m + n
      BY <1>1, <2>2
    <3>2. (p \o q)[k] = p[k] /\ (a \o b)[k] = a[k]
      BY <1>1, <1>4, <2>2
    <3>3. r[k].code = p[k].code /\ r[k].want = p[k].want
      BY <1>p, <1>r, <3>1, <3>2
    <3> QED BY <1>5, <2>1, <3>2, <3>3
  <2>3. CASE ~(k <= m)
    <3>1. k - m \in 1 .. n /\ (k = m + n <=> k - m = n)
      BY <1>1, <2>3
    <3>2. (p \o q)[k] = q[k - m] /\ (a \o b)[k] = b[k - m]
      BY <1>1, <1>4, <2>3
    <3>3. r[k].code = q[k - m].code /\ r[k].want = q[k - m].want
      BY <1>q, <1>r, <3>1, <3>2
    <3> QED BY <1>5, <2>1, <3>2, <3>3
  <2> QED BY <2>2, <2>3
<1>7. r = p \o q
  BY <1>3, <1>4, <1>6, SeqEqual
<1> QED BY <1>7 DEF p, q, r

-----------------------------------------------------------------------------
\* What is sent is read in this order: the last byte gives what is wanted.
Sent(st, bytes, want, end) == /\ bytes \in Seq(Octets)
                              /\ Reads(st, Tagged(bytes, want), end)

LEMMA OneRead ==
  ASSUME NEW a \in Statuses, NEW x \in Octets, NEW w \in Wants,
         Then(a, x) \in Statuses, w # <<>> => Gives(a, x) = w
  PROVE  Sent(a, <<x>>, w, Then(a, x))
<1> DEFINE b == <<x>>
           q == Tagged(b, w)
           t == [n \in 0 .. 1 |-> IF n = 0 THEN a ELSE Then(a, x)]
<1>1. b \in Seq(Octets) /\ Len(b) = 1 /\ b[1] = x
  OBVIOUS
<1>2. t \in [0 .. 1 -> Statuses] /\ t[0] = a /\ t[1] = Then(a, x)
  OBVIOUS
<1> HIDE DEF b, q, t
<1>3. q \in Seq(Bytes) /\ Len(q) = 1 /\ q[1].code = x /\ q[1].want = w
  <2>1. 1 \in 1 .. Len(b)
    BY <1>1
  <2> QED BY <1>1, <2>1, TaggedBytes DEF q
<1>4. Row(t, q)
  <2>1. \A n \in 1 .. 1 : n = 1 /\ n - 1 = 0
    OBVIOUS
  <2> QED BY <1>2, <1>3, <2>1 DEF Row, Right
<1>5. Reads(a, q, Then(a, x))
  BY <1>2, <1>3, <1>4 DEF Reads
<1> QED BY <1>1, <1>5 DEF b, q, Sent

LEMMA SentBoth ==
  ASSUME NEW p, NEW q, NEW w \in Wants, NEW a, NEW b, NEW c,
         Sent(a, p, <<>>, b), Sent(b, q, w, c), q # <<>>
  PROVE  Sent(a, p \o q, w, c)
<1>1. <<>> \in Wants
  BY DEF Wants
<1>2. p \in Seq(Octets) /\ q \in Seq(Octets)
  BY DEF Sent
<1>3. Tagged(p, <<>>) \in Seq(Bytes) /\ Tagged(q, w) \in Seq(Bytes)
  BY <1>1, <1>2, TaggedBytes
<1>4. Reads(a, Tagged(p, <<>>) \o Tagged(q, w), c)
  BY <1>3, BothRead DEF Sent
<1>5. Reads(a, Tagged(p \o q, w), c)
  BY <1>2, <1>4, TaggedBoth
<1>6. p \o q \in Seq(Octets)
  BY <1>2, ConcatProperties
<1> QED BY <1>5, <1>6 DEF Sent

LEMMA TwoBytes ==
  ASSUME NEW x \in Octets, NEW y \in Octets
  PROVE  <<x>> \o <<y>> = <<x, y>> /\ <<y>> # <<>>
<1> DEFINE p == <<x>>
           q == <<y>>
           r == <<x, y>>
<1>1. /\ p \in Seq(Octets) /\ Len(p) = 1 /\ p[1] = x
      /\ q \in Seq(Octets) /\ Len(q) = 1 /\ q[1] = y
      /\ r \in Seq(Octets) /\ Len(r) = 2 /\ r[1] = x /\ r[2] = y
  OBVIOUS
<1> HIDE DEF p, q, r
<1>2. /\ p \o q \in Seq(Octets) /\ Len(p \o q) = 2
      /\ \A k \in 1 .. 2 : (p \o q)[k] = IF k <= 1 THEN p[k] ELSE q[k - 1]
  <2>1. /\ p \o q \in Seq(Octets) /\ Len(p \o q) = Len(p) + Len(q)
        /\ \A k \in 1 .. Len(p) + Len(q) :
             (p \o q)[k] = IF k <= Len(p) THEN p[k] ELSE q[k - Len(p)]
    BY <1>1, ConcatProperties
  <2>2. Len(p) + Len(q) = 2
    BY <1>1
  <2> QED BY <1>1, <2>1, <2>2
<1>3. \A k \in 1 .. 2 : r[k] = (p \o q)[k]
  BY <1>1, <1>2
<1>4. r = p \o q
  BY <1>1, <1>2, <1>3, SeqEqual
<1>5. q # <<>>
  <2>1. Len(q) # 0
    BY <1>1
  <2> QED BY <1>1, <2>1, EmptySeq
<1> QED BY <1>4, <1>5 DEF p, q, r

LEMMA PairNotEmpty ==
  ASSUME NEW x \in Octets, NEW y \in Octets
  PROVE  <<x, y>> # <<>>
<1>1. Len(<<x, y>>) # 0 /\ <<x, y>> \in Seq(Octets)
  OBVIOUS
<1> QED BY <1>1, EmptySeq

LEMMA TwoRead ==
  ASSUME NEW a \in Statuses, NEW x \in Octets, NEW y \in Octets,
         NEW b \in Statuses, b = Then(a, x), NEW c \in Statuses, c = Then(b, y),
         NEW w \in Wants, w # <<>> => Gives(b, y) = w
  PROVE  Sent(a, <<x, y>>, w, c)
<1>1. Sent(a, <<x>>, <<>>, b) /\ Sent(b, <<y>>, w, c)
  BY OneRead DEF Wants
<1>2. <<x>> \o <<y>> = <<x, y>> /\ <<y>> # <<>>
  BY TwoBytes
<1> QED BY <1>1, <1>2, SentBoth

-----------------------------------------------------------------------------
\* What the codes of the model do: breaks of 96, 97, and 122, and keys that are
\* neither modifier nor lock, do nothing (kbd.c:103-121).
LEMMA Effects ==
  ASSUME NEW st \in Statuses
  PROVE  /\ \A c \in {224, 225, 250, 45, 32, 2, 65, 72, 55, 173, 160, 130, 193,
                      200, 183, 186, 197, 198} : Then(st, c) = st
         /\ \A c \in {42, 54} : Then(st, c) = st \cup {"shift"}
         /\ \A c \in {170, 182} : Then(st, c) = st \ {"shift"}
         /\ Then(st, 29) = st \cup {"ctrl"} /\ Then(st, 157) = st \ {"ctrl"}
         /\ Then(st, 58) = (st \cup {"caps"}) \ (st \cap {"caps"})
         /\ Then(st, 69) = (st \cup {"num"}) \ (st \cap {"num"})
         /\ Then(st, 70) = (st \cup {"scroll"}) \ (st \cap {"scroll"})
<1>1. ASSUME NEW c \in {224, 225, 250, 173, 160, 130, 193, 200, 183, 186, 197,
                        198}
      PROVE  Then(st, c) = st
  <2>1. c >= 128 /\ c - 128 \notin {42, 54, 29, 56}
    BY <1>1
  <2>2. Modifier(c - 128) = {}
    BY <2>1 DEF Modifier
  <2> QED BY <2>1, <2>2 DEF Then
<1>2. ASSUME NEW c \in {45, 32, 2, 65, 72, 55}
      PROVE  Then(st, c) = st
  <2>1. Modifier(c) = {} /\ Lock(c) = {} /\ ~(c >= 128)
    BY <1>2 DEF Modifier, Lock
  <2> QED BY <2>1 DEF Then
<1>3. ASSUME NEW c \in {42, 54}
      PROVE  Then(st, c) = st \cup {"shift"}
  <2>1. Modifier(c) = {"shift"} /\ Lock(c) = {} /\ ~(c >= 128)
    BY <1>3 DEF Modifier, Lock
  <2> QED BY <2>1 DEF Then
<1>4. ASSUME NEW c \in {170, 182}
      PROVE  Then(st, c) = st \ {"shift"}
  <2>1. Modifier(c - 128) = {"shift"} /\ c >= 128
    BY <1>4 DEF Modifier
  <2> QED BY <2>1 DEF Then
<1>5. Then(st, 29) = st \cup {"ctrl"}
  <2>1. Modifier(29) = {"ctrl"} /\ Lock(29) = {} /\ ~(29 >= 128)
    BY DEF Modifier, Lock
  <2> QED BY <2>1 DEF Then
<1>6. Then(st, 157) = st \ {"ctrl"}
  <2>1. Modifier(157 - 128) = {"ctrl"} /\ 157 >= 128
    BY DEF Modifier
  <2> QED BY <2>1 DEF Then
<1>7. /\ Then(st, 58) = (st \cup {"caps"}) \ (st \cap {"caps"})
      /\ Then(st, 69) = (st \cup {"num"}) \ (st \cap {"num"})
      /\ Then(st, 70) = (st \cup {"scroll"}) \ (st \cap {"scroll"})
  <2>1. /\ Modifier(58) = {} /\ Lock(58) = {"caps"} /\ ~(58 >= 128)
        /\ Modifier(69) = {} /\ Lock(69) = {"num"} /\ ~(69 >= 128)
        /\ Modifier(70) = {} /\ Lock(70) = {"scroll"} /\ ~(70 >= 128)
    BY DEF Modifier, Lock
  <2> QED BY <2>1 DEF Then
<1> QED BY <1>1, <1>2, <1>3, <1>4, <1>5, <1>6, <1>7

LEMMA ThenStatus ==
  ASSUME NEW st \in Statuses, NEW c
  PROVE  Then(st, c) \in Statuses
<1>1. \A d : Modifier(d) \in Statuses /\ Lock(d) \in Statuses
  BY DEF Modifier, Lock, Statuses, Lamps
<1> QED BY <1>1 DEF Then, Statuses

\* The keys.
LEMMA KeyCodes ==
  /\ DOMAIN Code = {"lshift", "rshift", "ctrl", "rctrl", "caps", "up", "x",
                    "d", "one", "f7"}
  /\ Code["lshift"] = 42 /\ Code["rshift"] = 54 /\ Code["ctrl"] = 29
  /\ Code["rctrl"] = 29
  /\ Code["caps"] = 58 /\ Code["up"] = 72 /\ Code["x"] = 45 /\ Code["d"] = 32
  /\ Code["one"] = 2 /\ Code["f7"] = 65
  /\ DOMAIN map = {45, 32, 2, 65, 72} /\ DOMAIN shift_map = {45, 32, 2, 65, 72}
  /\ \A c \in {45, 32, 2, 65, 72} : map[c] \in Glyphs /\ shift_map[c] \in Glyphs
BY DEF Code, map, shift_map, Glyphs

\* The codes of the keys between the blocks, and of the keys they stand for.
Prefix      == 224
PausePrefix == 225
ShiftMake   == 42
ShiftBreak  == 170
CtrlMake    == 29
CtrlBreak   == 157
NumMake     == 69
NumBreak    == 197
ScrollMake  == 70
ScrollBreak == 198
UpMake      == 72
UpBreak     == 200
PrtScMake   == 55
PrtScBreak  == 183

LEMMA CodesAreBytes ==
  /\ Prefix \in Octets /\ PausePrefix \in Octets
  /\ ShiftMake \in Octets /\ ShiftBreak \in Octets
  /\ CtrlMake \in Octets /\ CtrlBreak \in Octets
  /\ NumMake \in Octets /\ NumBreak \in Octets
  /\ ScrollMake \in Octets /\ ScrollBreak \in Octets
  /\ UpMake \in Octets /\ UpBreak \in Octets
  /\ PrtScMake \in Octets /\ PrtScBreak \in Octets
BY DEF Prefix, PausePrefix, ShiftMake, ShiftBreak, CtrlMake, CtrlBreak, NumMake,
       NumBreak, ScrollMake, ScrollBreak, UpMake, UpBreak, PrtScMake, PrtScBreak,
       Octets

LEMMA NamedEffects ==
  ASSUME NEW st \in Statuses
  PROVE  /\ \A c \in {Prefix, PausePrefix, NumBreak, ScrollBreak, UpMake, UpBreak,
                      PrtScMake, PrtScBreak} : Then(st, c) = st
         /\ Then(st, ShiftMake) = st \cup {"shift"}
         /\ Then(st, ShiftBreak) = st \ {"shift"}
         /\ Then(st, CtrlMake) = st \cup {"ctrl"}
         /\ Then(st, CtrlBreak) = st \ {"ctrl"}
         /\ Then(st, NumMake) = (st \cup {"num"}) \ (st \cap {"num"})
         /\ Then(st, ScrollMake) = (st \cup {"scroll"}) \ (st \cap {"scroll"})
<1>1. \A c \in {Prefix, PausePrefix, NumBreak, ScrollBreak, UpMake, UpBreak,
                PrtScMake, PrtScBreak} : Then(st, c) = st
  BY Effects DEF Prefix, PausePrefix, NumBreak, ScrollBreak, UpMake, UpBreak,
                 PrtScMake, PrtScBreak
<1>2. /\ Then(st, ShiftMake) = st \cup {"shift"}
      /\ Then(st, ShiftBreak) = st \ {"shift"}
  BY Effects DEF ShiftMake, ShiftBreak
<1>3. /\ Then(st, CtrlMake) = st \cup {"ctrl"}
      /\ Then(st, CtrlBreak) = st \ {"ctrl"}
      /\ Then(st, NumMake) = (st \cup {"num"}) \ (st \cap {"num"})
      /\ Then(st, ScrollMake) = (st \cup {"scroll"}) \ (st \cap {"scroll"})
  BY Effects DEF CtrlMake, CtrlBreak, NumMake, ScrollMake
<1> QED BY <1>1, <1>2, <1>3

\* Two bytes, the first of which does nothing.
LEMMA PrefixRead ==
  ASSUME NEW a \in Statuses, NEW x \in {Prefix, PausePrefix}, NEW y \in Octets,
         NEW w \in Wants, w # <<>> => Gives(a, y) = w
  PROVE  Sent(a, <<x, y>>, w, Then(a, y)) /\ <<x, y>> # <<>>
<1>1. Then(a, y) \in Statuses
  BY ThenStatus
<1>2. x \in Octets /\ Then(a, x) = a
  BY NamedEffects, CodesAreBytes
<1>3. Sent(a, <<x, y>>, w, Then(a, y))
  BY <1>1, <1>2, TwoRead
<1>4. <<x, y>> # <<>>
  BY <1>2, PairNotEmpty
<1> QED BY <1>3, <1>4

LEMMA WrappedRead ==
  ASSUME NEW a \in Statuses, NEW x \in Octets, NEW y \in Octets,
         NEW b, b = Then(a, x), NEW w \in Wants, w # <<>> => Gives(b, y) = w
  PROVE  Sent(a, <<Prefix, x>> \o <<Prefix, y>>, w, Then(b, y))
<1>1. b \in Statuses /\ <<>> \in Wants
  BY ThenStatus DEF Wants
<1>2. Sent(a, <<Prefix, x>>, <<>>, b)
  BY <1>1, PrefixRead
<1>3. Sent(b, <<Prefix, y>>, w, Then(b, y)) /\ <<Prefix, y>> # <<>>
  BY <1>1, PrefixRead
<1> QED BY <1>2, <1>3, SentBoth

\* Pause is PrtSc's prefix twice, around Ctrl and Num Lock.
Four(u, v, x, y)        == <<u, v, x, y>>
Six(s, t, u, v, x, y)   == <<s, t, u, v, x, y>>
Pairs(u, v, x, y)       == <<u, v>> \o <<x, y>>
Threes(s, t, u, v, x, y) == (<<s, t>> \o <<u, v>>) \o <<x, y>>

LEMMA FourBytes ==
  ASSUME NEW u \in Octets, NEW v \in Octets,
         NEW x \in Octets, NEW y \in Octets
  PROVE  Four(u, v, x, y) = Pairs(u, v, x, y)
<1> DEFINE p == <<u, v>>
           q == <<x, y>>
           r == <<u, v, x, y>>
<1>1. /\ p \in Seq(Octets) /\ Len(p) = 2 /\ p[1] = u /\ p[2] = v
      /\ q \in Seq(Octets) /\ Len(q) = 2 /\ q[1] = x /\ q[2] = y
      /\ r \in Seq(Octets) /\ Len(r) = 4
      /\ r[1] = u /\ r[2] = v /\ r[3] = x /\ r[4] = y
  OBVIOUS
<1> HIDE DEF p, q, r
<1>2. /\ p \o q \in Seq(Octets) /\ Len(p \o q) = 4
      /\ \A k \in 1 .. 4 : (p \o q)[k] = IF k <= 2 THEN p[k] ELSE q[k - 2]
  <2>1. /\ p \o q \in Seq(Octets) /\ Len(p \o q) = Len(p) + Len(q)
        /\ \A k \in 1 .. Len(p) + Len(q) :
             (p \o q)[k] = IF k <= Len(p) THEN p[k] ELSE q[k - Len(p)]
    BY <1>1, ConcatProperties
  <2>2. Len(p) + Len(q) = 4
    BY <1>1
  <2> QED BY <1>1, <2>1, <2>2
<1>3. \A k \in 1 .. 4 : k = 1 \/ k = 2 \/ k = 3 \/ k = 4
  OBVIOUS
<1>4. \A k \in 1 .. 4 : r[k] = (p \o q)[k]
  BY <1>1, <1>2, <1>3
<1>5. r = p \o q
  BY <1>1, <1>2, <1>4, SeqEqual
<1> QED BY <1>5 DEF p, q, r, Four, Pairs

LEMMA SixBytes ==
  ASSUME NEW s \in Octets, NEW t \in Octets, NEW u \in Octets,
         NEW v \in Octets, NEW x \in Octets, NEW y \in Octets
  PROVE  Six(s, t, u, v, x, y) = Threes(s, t, u, v, x, y)
<1> DEFINE p == <<s, t, u, v>>
           q == <<x, y>>
           r == <<s, t, u, v, x, y>>
<1>0. p = <<s, t>> \o <<u, v>>
  <2>1. Four(s, t, u, v) = Pairs(s, t, u, v)
    BY FourBytes
  <2> QED BY <2>1 DEF Four, Pairs
<1>1. /\ p \in Seq(Octets) /\ Len(p) = 4
      /\ p[1] = s /\ p[2] = t /\ p[3] = u /\ p[4] = v
      /\ q \in Seq(Octets) /\ Len(q) = 2 /\ q[1] = x /\ q[2] = y
      /\ r \in Seq(Octets) /\ Len(r) = 6
      /\ r[1] = s /\ r[2] = t /\ r[3] = u /\ r[4] = v /\ r[5] = x /\ r[6] = y
  OBVIOUS
<1> HIDE DEF p, q, r
<1>2. /\ p \o q \in Seq(Octets) /\ Len(p \o q) = 6
      /\ \A k \in 1 .. 6 : (p \o q)[k] = IF k <= 4 THEN p[k] ELSE q[k - 4]
  <2>1. /\ p \o q \in Seq(Octets) /\ Len(p \o q) = Len(p) + Len(q)
        /\ \A k \in 1 .. Len(p) + Len(q) :
             (p \o q)[k] = IF k <= Len(p) THEN p[k] ELSE q[k - Len(p)]
    BY <1>1, ConcatProperties
  <2>2. Len(p) + Len(q) = 6
    BY <1>1
  <2> QED BY <1>1, <2>1, <2>2
<1>3. \A k \in 1 .. 6 : k = 1 \/ k = 2 \/ k = 3 \/ k = 4 \/ k = 5 \/ k = 6
  OBVIOUS
<1>4. /\ r[1] = (p \o q)[1] /\ r[2] = (p \o q)[2] /\ r[3] = (p \o q)[3]
      /\ r[4] = (p \o q)[4] /\ r[5] = (p \o q)[5] /\ r[6] = (p \o q)[6]
  BY <1>1, <1>2
<1>5. r = p \o q
  <2>1. \A k \in 1 .. Len(r) : r[k] = (p \o q)[k]
    BY <1>1, <1>3, <1>4
  <2>2. Len(r) = Len(p \o q)
    BY <1>1, <1>2
  <2> QED BY <1>1, <1>2, <2>1, <2>2, SeqEqual
<1> QED BY <1>0, <1>5 DEF q, r, Six, Threes

LEMMA PauseRead ==
  ASSUME NEW a \in Statuses
  PROVE  \E f \in Statuses :
           /\ Sent(a, <<PausePrefix, CtrlMake, NumMake, PausePrefix, CtrlBreak, NumBreak>>, <<>>, f)
           /\ f \ {"ctrl", "num"} = a \ {"ctrl", "num"} /\ "ctrl" \notin f
<1> DEFINE b == Then(a, CtrlMake)
           c == Then(b, NumMake)
           d == Then(c, CtrlBreak)
<1>1. b \in Statuses /\ c \in Statuses /\ d \in Statuses /\ <<>> \in Wants
  BY ThenStatus DEF Wants
<1>2. b = a \cup {"ctrl"}
  BY NamedEffects
<1> HIDE DEF b
<1>3. c = (b \cup {"num"}) \ (b \cap {"num"})
  BY <1>1, NamedEffects
<1>4. Then(c, PausePrefix) = c
  BY <1>1, NamedEffects
<1> HIDE DEF c
<1>5. d = c \ {"ctrl"} /\ Then(d, NumBreak) = d
  <2>1. d = c \ {"ctrl"}
    BY <1>1, NamedEffects
  <2> HIDE DEF d
  <2> QED BY <1>1, <2>1, NamedEffects
<1>6. Sent(a, <<PausePrefix, CtrlMake>>, <<>>, b)
  BY <1>1, PrefixRead, CodesAreBytes DEF b
<1>7. Sent(b, <<NumMake, PausePrefix>>, <<>>, c)
  BY <1>1, <1>4, TwoRead, CodesAreBytes DEF c
<1>8. Sent(c, <<CtrlBreak, NumBreak>>, <<>>, d)
  BY <1>1, <1>5, TwoRead, CodesAreBytes
<1> HIDE DEF d
<1>9. <<NumMake, PausePrefix>> # <<>> /\ <<CtrlBreak, NumBreak>> # <<>>
  BY CodesAreBytes, PairNotEmpty
<1>10. Sent(a, <<PausePrefix, CtrlMake>> \o <<NumMake, PausePrefix>>, <<>>, c)
  BY <1>1, <1>6, <1>7, <1>9, SentBoth
<1>11. Sent(a, <<PausePrefix, CtrlMake, NumMake, PausePrefix, CtrlBreak, NumBreak>>, <<>>, d)
  <2>1. Sent(a, (<<PausePrefix, CtrlMake>> \o <<NumMake, PausePrefix>>) \o <<CtrlBreak, NumBreak>>, <<>>, d)
    BY <1>1, <1>8, <1>9, <1>10, SentBoth
  <2>2. <<PausePrefix, CtrlMake, NumMake, PausePrefix, CtrlBreak, NumBreak>>
          = (<<PausePrefix, CtrlMake>> \o <<NumMake, PausePrefix>>)
              \o <<CtrlBreak, NumBreak>>
    <3>1. Six(PausePrefix, CtrlMake, NumMake, PausePrefix, CtrlBreak, NumBreak)
            = Threes(PausePrefix, CtrlMake, NumMake, PausePrefix, CtrlBreak,
                     NumBreak)
      <4>1. \A x, y, z \in Octets :
              Six(PausePrefix, CtrlMake, NumMake, x, y, z)
                = Threes(PausePrefix, CtrlMake, NumMake, x, y, z)
        <5>1. PausePrefix \in Octets /\ CtrlMake \in Octets /\ NumMake \in Octets
          BY CodesAreBytes
        <5> HIDE DEF PausePrefix, CtrlMake, NumMake
        <5> QED BY <5>1, SixBytes
      <4> QED BY <4>1, CodesAreBytes
    <3> QED BY <3>1 DEF Six, Threes
  <2> QED BY <2>1, <2>2, Zenon
<1>12. d \ {"ctrl", "num"} = a \ {"ctrl", "num"} /\ "ctrl" \notin d
  BY <1>2, <1>3, <1>5
<1> QED BY <1>1, <1>11, <1>12

LEMMA NamedBytes ==
  /\ MakeBytes("up") = IF Held
                       THEN <<Prefix, ShiftBreak>> \o <<Prefix, UpMake>>
                       ELSE <<Prefix, UpMake>>
  /\ MakeBytes("prtsc") = IF Held \/ CtrlHeld
                          THEN <<Prefix, PrtScMake>>
                          ELSE <<Prefix, ShiftMake>> \o <<Prefix, PrtScMake>>
  /\ MakeBytes("pause") =
       IF CtrlHeld
       THEN <<Prefix, ScrollMake>> \o <<Prefix, ScrollBreak>>
       ELSE <<PausePrefix, CtrlMake, NumMake, PausePrefix, CtrlBreak, NumBreak>>
  /\ BreakBytes("up") = IF Held
                        THEN <<Prefix, UpBreak>> \o <<Prefix, ShiftMake>>
                        ELSE <<Prefix, UpBreak>>
  /\ BreakBytes("prtsc") = IF Held \/ CtrlHeld
                           THEN <<Prefix, PrtScBreak>>
                           ELSE <<Prefix, PrtScBreak>> \o <<Prefix, ShiftBreak>>
  /\ MakeBytes("rctrl") = <<Prefix, CtrlMake>>
  /\ BreakBytes("rctrl") = <<Prefix, CtrlBreak>>
<1> DEFINE up(x) == <<Prefix, x>>
<1>0. \A x \in Octets : /\ up(x) \in Seq(Octets)
                          /\ <<>> \o up(x) = up(x) /\ up(x) \o <<>> = up(x)
  <2> SUFFICES ASSUME NEW x \in Octets
               PROVE  /\ up(x) \in Seq(Octets)
                      /\ <<>> \o up(x) = up(x) /\ up(x) \o <<>> = up(x)
    OBVIOUS
  <2>1. up(x) \in Seq(Octets)
    BY CodesAreBytes
  <2> HIDE DEF up
  <2> QED BY <2>1, ConcatEmptySeq
<1>1. /\ <<>> \o <<Prefix, UpMake>> = <<Prefix, UpMake>>
      /\ <<>> \o <<Prefix, PrtScMake>> = <<Prefix, PrtScMake>>
      /\ <<Prefix, UpBreak>> \o <<>> = <<Prefix, UpBreak>>
      /\ <<Prefix, PrtScBreak>> \o <<>> = <<Prefix, PrtScBreak>>
  BY <1>0, CodesAreBytes
<1>2. <<Prefix, ScrollMake>> \o <<Prefix, ScrollBreak>>
        = <<Prefix, ScrollMake, Prefix, ScrollBreak>>
  <2>1. Four(Prefix, ScrollMake, Prefix, ScrollBreak)
          = Pairs(Prefix, ScrollMake, Prefix, ScrollBreak)
    BY FourBytes, CodesAreBytes
  <2> QED BY <2>1 DEF Four, Pairs
<1>3. MakeBytes("up") = (IF Held THEN <<Prefix, ShiftBreak>> ELSE <<>>)
                          \o <<Prefix, UpMake>>
  BY DEF MakeBytes, Prefix, ShiftBreak, UpMake
<1>4. MakeBytes("prtsc") = (IF Held \/ CtrlHeld THEN <<>>
                            ELSE <<Prefix, ShiftMake>>) \o <<Prefix, PrtScMake>>
  BY DEF MakeBytes, Prefix, ShiftMake, PrtScMake
<1>5. MakeBytes("pause") =
        IF CtrlHeld THEN <<Prefix, ScrollMake, Prefix, ScrollBreak>>
        ELSE <<PausePrefix, CtrlMake, NumMake, PausePrefix, CtrlBreak, NumBreak>>
  BY DEF MakeBytes, Prefix, PausePrefix, ScrollMake, ScrollBreak, CtrlMake,
         NumMake, CtrlBreak, NumBreak
<1>6. BreakBytes("up") = <<Prefix, UpBreak>>
                           \o (IF Held THEN <<Prefix, ShiftMake>> ELSE <<>>)
  BY DEF BreakBytes, Prefix, ShiftMake, UpBreak
<1>7. BreakBytes("prtsc") = <<Prefix, PrtScBreak>>
                              \o (IF Held \/ CtrlHeld THEN <<>>
                                  ELSE <<Prefix, ShiftBreak>>)
  BY DEF BreakBytes, Prefix, ShiftBreak, PrtScBreak
<1>8. /\ MakeBytes("rctrl") = <<Prefix, CtrlMake>>
      /\ BreakBytes("rctrl") = <<Prefix, CtrlBreak>>
  BY DEF MakeBytes, BreakBytes, Prefix, CtrlMake, CtrlBreak
<1> QED BY <1>1, <1>2, <1>3, <1>4, <1>5, <1>6, <1>7, <1>8

\* What the bytes of a press do.
Pressed(k, a, f) ==
  /\ "ctrl" \in f <=>
       k \in Ctrls \/ ("ctrl" \in a /\ (k = "pause" => CtrlHeld))
  /\ "alt" \in f <=> "alt" \in a
  /\ "caps" \in f <=> ~("caps" \in a <=> k = "caps")
  /\ "shift" \in f <=>
       \/ k \in Shifts
       \/ k = "prtsc" /\ ~Held /\ ~CtrlHeld
       \/ "shift" \in a /\ ~(k = "up" /\ Held)

LEMMA PressRead ==
  ASSUME NEW k \in Keys, NEW a \in Statuses, NEW w \in Wants,
         w # <<>> => /\ k \in DOMAIN Code /\ Gives(a, Code[k]) = w
                     /\ k = "up" => ~Held
  PROVE  \E f \in Statuses : Sent(a, MakeBytes(k), w, f) /\ Pressed(k, a, f)
<1>0. <<>> \in Wants
  BY DEF Wants
<1>1. CASE k \in DOMAIN Code \ {"up", "rctrl"}
  <2> DEFINE f == Then(a, Code[k])
  <2>1. MakeBytes(k) = <<Code[k]>> /\ Code[k] \in Octets
    BY <1>1, KeyCodes DEF MakeBytes, Octets
  <2>2. f \in Statuses
    BY ThenStatus
  <2>3. Sent(a, MakeBytes(k), w, f)
    BY <2>1, <2>2, OneRead
  <2>4. Pressed(k, a, f)
    <3>1. CASE k \in Shifts
      <4>1. f = a \cup {"shift"}
        BY <3>1, Effects, KeyCodes DEF Shifts
      <4> QED BY <3>1, <4>1 DEF Pressed, Shifts, Ctrls
    <3>2. CASE k = "ctrl"
      <4>1. f = a \cup {"ctrl"}
        BY <3>2, Effects, KeyCodes
      <4> QED BY <3>2, <4>1 DEF Pressed, Shifts, Ctrls
    <3>3. CASE k = "caps"
      <4>1. f = (a \cup {"caps"}) \ (a \cap {"caps"})
        BY <3>3, Effects, KeyCodes
      <4> QED BY <3>3, <4>1 DEF Pressed, Shifts, Ctrls
    <3>4. CASE k \in {"x", "d", "one", "f7"}
      <4>1. f = a
        BY <3>4, Effects, KeyCodes
      <4> QED BY <3>4, <4>1 DEF Pressed, Shifts, Ctrls
    <3> QED BY <1>1, <3>1, <3>2, <3>3, <3>4, KeyCodes DEF Shifts
  <2> QED BY <2>2, <2>3, <2>4
<1>c. CASE k = "rctrl"
  <2> DEFINE f == Then(a, CtrlMake)
  <2>1. MakeBytes(k) = <<Prefix, CtrlMake>>
    BY <1>c, NamedBytes
  <2>2. w # <<>> => Gives(a, CtrlMake) = w
    BY <1>c, KeyCodes DEF CtrlMake
  <2>3. f = a \cup {"ctrl"} /\ f \in Statuses
    BY NamedEffects, ThenStatus
  <2>4. Sent(a, <<Prefix, CtrlMake>>, w, f)
    BY <2>2, PrefixRead, CodesAreBytes
  <2> HIDE DEF f
  <2>5. Pressed(k, a, f)
    BY <1>c, <2>3 DEF Pressed, Shifts, Ctrls
  <2> QED BY <2>1, <2>3, <2>4, <2>5
<1>2. CASE k = "up" /\ ~Held
  <2>1. MakeBytes(k) = <<Prefix, UpMake>>
    BY <1>2, NamedBytes
  <2>3. Then(a, UpMake) = a
    BY NamedEffects
  <2>4. w # <<>> => Gives(a, UpMake) = w
    BY <1>2, KeyCodes DEF UpMake
  <2>5. Sent(a, <<Prefix, UpMake>>, w, a)
    BY <2>3, <2>4, PrefixRead, CodesAreBytes
  <2>6. Pressed(k, a, a)
    BY <1>2 DEF Pressed, Shifts, Ctrls
  <2> QED BY <2>1, <2>5, <2>6
<1>3. CASE k = "up" /\ Held
  <2> DEFINE b == a \ {"shift"}
  <2>1. MakeBytes(k) = <<Prefix, ShiftBreak>> \o <<Prefix, UpMake>>
    BY <1>3, NamedBytes
  <2>2. b = Then(a, ShiftBreak)
    BY NamedEffects
  <2>3. b \in Statuses
    BY DEF Statuses
  <2> HIDE DEF b
  <2>4. Then(b, UpMake) = b
    BY <2>3, NamedEffects
  <2>5. w = <<>>
    BY <1>3
  <2>6. Sent(a, <<Prefix, ShiftBreak>> \o <<Prefix, UpMake>>, w, b)
    BY <2>2, <2>4, <2>5, WrappedRead, CodesAreBytes
  <2>7. Pressed(k, a, b)
    BY <1>3 DEF Pressed, Shifts, Ctrls, b
  <2> QED BY <2>1, <2>3, <2>6, <2>7
<1>4. CASE k = "prtsc" /\ (Held \/ CtrlHeld)
  <2>1. MakeBytes(k) = <<Prefix, PrtScMake>>
    BY <1>4, NamedBytes
  <2>3. w = <<>> /\ Then(a, PrtScMake) = a
    BY <1>4, NamedEffects, KeyCodes
  <2>4. Sent(a, <<Prefix, PrtScMake>>, w, a)
    BY <2>3, PrefixRead, CodesAreBytes
  <2>5. Pressed(k, a, a)
    BY <1>4 DEF Pressed, Shifts, Ctrls
  <2> QED BY <2>1, <2>4, <2>5
<1>5. CASE k = "prtsc" /\ ~Held /\ ~CtrlHeld
  <2> DEFINE b == a \cup {"shift"}
  <2>1. MakeBytes(k) = <<Prefix, ShiftMake>> \o <<Prefix, PrtScMake>>
    BY <1>5, NamedBytes
  <2>2. b = Then(a, ShiftMake) /\ w = <<>>
    BY <1>5, NamedEffects, KeyCodes
  <2>3. b \in Statuses
    BY DEF Statuses, Lamps
  <2> HIDE DEF b
  <2>4. Then(b, PrtScMake) = b
    BY <2>3, NamedEffects
  <2>5. Sent(a, <<Prefix, ShiftMake>> \o <<Prefix, PrtScMake>>, w, b)
    BY <2>2, <2>4, WrappedRead, CodesAreBytes
  <2>6. Pressed(k, a, b)
    BY <1>5 DEF Pressed, Shifts, Ctrls, b
  <2> QED BY <2>1, <2>3, <2>5, <2>6
<1>6. CASE k = "pause" /\ CtrlHeld
  <2> DEFINE b == Then(a, ScrollMake)
  <2>1. MakeBytes(k) = <<Prefix, ScrollMake>> \o <<Prefix, ScrollBreak>>
    BY <1>6, NamedBytes
  <2>2. b = (a \cup {"scroll"}) \ (a \cap {"scroll"}) /\ w = <<>>
    BY <1>6, NamedEffects, KeyCodes
  <2>3. b \in Statuses
    BY ThenStatus
  <2>4. Sent(a, <<Prefix, ScrollMake>> \o <<Prefix, ScrollBreak>>, w, Then(b, ScrollBreak))
    BY <2>2, WrappedRead, CodesAreBytes
  <2> HIDE DEF b
  <2>5. Then(b, ScrollBreak) = b
    BY <2>3, NamedEffects
  <2>6. Pressed(k, a, b)
    BY <1>6, <2>2 DEF Pressed, Shifts, Ctrls
  <2> QED BY <2>1, <2>3, <2>4, <2>5, <2>6
<1>7. CASE k = "pause" /\ ~CtrlHeld
  <2>1. MakeBytes(k) = <<PausePrefix, CtrlMake, NumMake, PausePrefix, CtrlBreak, NumBreak>> /\ w = <<>>
    BY <1>7, NamedBytes, KeyCodes
  <2>2. PICK f \in Statuses :
          /\ Sent(a, <<PausePrefix, CtrlMake, NumMake, PausePrefix, CtrlBreak, NumBreak>>, <<>>, f)
          /\ f \ {"ctrl", "num"} = a \ {"ctrl", "num"} /\ "ctrl" \notin f
    BY PauseRead
  <2>3. Pressed(k, a, f)
    BY <1>7, <2>2 DEF Pressed, Shifts, Ctrls
  <2> QED BY <2>1, <2>2, <2>3
<1> QED BY <1>1, <1>c, <1>2, <1>3, <1>4, <1>5, <1>6, <1>7 DEF Keys

\* A repetition is the press without its wrapping.
Repeated(k, a, f) ==
  /\ "ctrl" \in f <=> k \in Ctrls \/ "ctrl" \in a
  /\ "alt" \in f <=> "alt" \in a
  /\ "caps" \in f <=> ~("caps" \in a <=> k = "caps")
  /\ "shift" \in f <=> k \in Shifts \/ "shift" \in a

LastTwo(r) == SubSeq(r, Len(r) - 1, Len(r))

LEMMA LastPair ==
  ASSUME NEW p \in Seq(Octets), NEW x \in Octets, NEW y \in Octets
  PROVE  LastTwo(p \o <<x, y>>) = <<x, y>>
<1> DEFINE q == <<x, y>>
           r == p \o q
           m == Len(p)
           s == SubSeq(r, Len(r) - 1, Len(r))
<1>1. q \in Seq(Octets) /\ Len(q) = 2 /\ q[1] = x /\ q[2] = y
  OBVIOUS
<1>2. m \in Nat
  BY LenProperties
<1> HIDE DEF q
<1>3. /\ r \in Seq(Octets) /\ Len(r) = m + Len(q)
      /\ \A k \in 1 .. m + Len(q) : r[k] = IF k <= m THEN p[k] ELSE q[k - m]
  BY <1>1, ConcatProperties
<1>4. Len(r) = m + 2 /\ r[m + 1] = x /\ r[m + 2] = y
  BY <1>1, <1>2, <1>3
<1> HIDE DEF r, m
<1>5. /\ Len(r) - 1 \in 1 .. Len(r) + 1 /\ Len(r) \in Len(r) - 1 .. Len(r)
      /\ Len(r) - 1 = m + 1 /\ Len(r) = m + 2
  BY <1>2, <1>4
<1>6. s = SubSeq(p \o q, m + 1, m + 2)
  BY <1>5 DEF r
<1>7. SubSeq(p \o q, m + 1, m + 2) = SubSeq(q, 1, 2)
  <2> DEFINE lo == m + 1
             hi == m + 2
  <2>1. lo \in Len(p) + 1 .. Len(p) + Len(q) /\ hi \in Len(p) + 1 .. Len(p) + Len(q)
    BY <1>1, <1>2 DEF m
  <2>2. lo - Len(p) = 1 /\ hi - Len(p) = 2
    BY <1>2 DEF m
  <2> HIDE DEF lo, hi
  <2>3. SubSeq(p \o q, lo, hi) = SubSeq(q, lo - Len(p), hi - Len(p))
    BY <1>1, <2>1, SubSeqOfConcat2
  <2>4. SubSeq(p \o q, lo, hi) = SubSeq(q, 1, 2)
    BY <2>2, <2>3
  <2> QED BY <2>4 DEF lo, hi
<1>8. SubSeq(q, 1, 2) = q
  BY <1>1, SubSeqFull
<1>9. s = q
  BY <1>6, <1>7, <1>8
<1> QED BY <1>9 DEF s, r, q, LastTwo

LEMMA RepeatedBytes ==
  /\ RepeatBytes("up") = <<Prefix, UpMake>>
  /\ RepeatBytes("prtsc") = <<Prefix, PrtScMake>>
<1> DEFINE wrap(yes, x) == IF yes THEN <<Prefix, x>> ELSE <<>>
<1>1. /\ wrap(Held, ShiftBreak) \in Seq(Octets)
      /\ wrap(~(Held \/ CtrlHeld), ShiftMake) \in Seq(Octets)
  BY CodesAreBytes
<1>2. /\ MakeBytes("up") = wrap(Held, ShiftBreak) \o <<Prefix, UpMake>>
      /\ MakeBytes("prtsc") = wrap(~(Held \/ CtrlHeld), ShiftMake)
                                \o <<Prefix, PrtScMake>>
  BY DEF MakeBytes, Prefix, ShiftBreak, ShiftMake, UpMake, PrtScMake
<1> HIDE DEF wrap
<1>3. /\ LastTwo(wrap(Held, ShiftBreak) \o <<Prefix, UpMake>>)
           = <<Prefix, UpMake>>
      /\ LastTwo(wrap(~(Held \/ CtrlHeld), ShiftMake)
                   \o <<Prefix, PrtScMake>>) = <<Prefix, PrtScMake>>
  BY <1>1, LastPair, CodesAreBytes
<1>4. /\ LastTwo(MakeBytes("up")) = <<Prefix, UpMake>>
      /\ LastTwo(MakeBytes("prtsc")) = <<Prefix, PrtScMake>>
  BY <1>2, <1>3
<1> QED BY <1>4 DEF RepeatBytes, LastTwo

LEMMA Lengths ==
  /\ Held => Len(MakeBytes("up")) = 4
  /\ ~Held /\ ~CtrlHeld => Len(MakeBytes("prtsc")) = 4
  /\ Held \/ CtrlHeld => Len(BreakBytes("prtsc")) = 2
<1>1. ASSUME NEW u \in Octets, NEW v \in Octets, NEW x \in Octets, NEW y \in Octets
      PROVE  Len(Pairs(u, v, x, y)) = 4
  <2>1. Len(Four(u, v, x, y)) = 4
    BY DEF Four
  <2> QED BY <2>1, FourBytes
<1>2. /\ Held => MakeBytes("up") = Pairs(Prefix, ShiftBreak, Prefix, UpMake)
      /\ ~Held /\ ~CtrlHeld =>
           MakeBytes("prtsc") = Pairs(Prefix, ShiftMake, Prefix, PrtScMake)
  BY NamedBytes DEF Pairs
<1>3. /\ Len(Pairs(Prefix, ShiftBreak, Prefix, UpMake)) = 4
      /\ Len(Pairs(Prefix, ShiftMake, Prefix, PrtScMake)) = 4
  BY <1>1, CodesAreBytes
<1>4. Held \/ CtrlHeld => BreakBytes("prtsc") = <<Prefix, PrtScBreak>>
  BY NamedBytes
<1>5. Len(<<Prefix, PrtScBreak>>) = 2
  OBVIOUS
<1> QED BY <1>2, <1>3, <1>4, <1>5

LEMMA RepeatRead ==
  ASSUME NEW k \in Keys \ {"pause"}, NEW a \in Statuses, NEW w \in Wants,
         w # <<>> => k \in DOMAIN Code /\ Gives(a, Code[k]) = w
  PROVE  \E f \in Statuses : Sent(a, RepeatBytes(k), w, f) /\ Repeated(k, a, f)
<1>1. CASE k \in DOMAIN Code \ {"up"}
  <2>1. k # "up" /\ k # "prtsc"
    BY <1>1, KeyCodes
  <2>2. PICK f \in Statuses : Sent(a, MakeBytes(k), w, f) /\ Pressed(k, a, f)
    BY <2>1, PressRead
  <2>3. RepeatBytes(k) = MakeBytes(k)
    BY <2>1 DEF RepeatBytes
  <2>4. Repeated(k, a, f)
    BY <2>1, <2>2 DEF Repeated, Pressed
  <2> QED BY <2>2, <2>3, <2>4
<1>2. CASE k = "up"
  <2>1. Then(a, UpMake) = a
    BY NamedEffects
  <2>2. w # <<>> => Gives(a, UpMake) = w
    BY <1>2, KeyCodes DEF UpMake
  <2>3. Sent(a, <<Prefix, UpMake>>, w, a)
    BY <2>1, <2>2, PrefixRead, CodesAreBytes
  <2>4. Repeated(k, a, a)
    BY <1>2 DEF Repeated, Shifts, Ctrls
  <2> QED BY <1>2, <2>3, <2>4, RepeatedBytes
<1>3. CASE k = "prtsc"
  <2>1. Then(a, PrtScMake) = a /\ w = <<>>
    BY <1>3, NamedEffects, KeyCodes
  <2>2. Sent(a, <<Prefix, PrtScMake>>, w, a)
    BY <2>1, PrefixRead, CodesAreBytes
  <2>3. Repeated(k, a, a)
    BY <1>3 DEF Repeated, Shifts, Ctrls
  <2> QED BY <1>3, <2>2, <2>3, RepeatedBytes
<1> QED BY <1>1, <1>2, <1>3, KeyCodes DEF Keys

\* What the bytes of a release do.
Released(k, a, f) ==
  /\ "ctrl" \in f <=> k \notin Ctrls /\ "ctrl" \in a
  /\ "alt" \in f <=> "alt" \in a
  /\ "caps" \in f <=> "caps" \in a
  /\ "shift" \in f <=>
       \/ k = "up" /\ Held
       \/ /\ "shift" \in a /\ k \notin Shifts
          /\ k = "prtsc" => Held \/ CtrlHeld

LEMMA ReleaseRead ==
  ASSUME NEW k \in Keys, NEW a \in Statuses
  PROVE  \E f \in Statuses : Sent(a, BreakBytes(k), <<>>, f) /\ Released(k, a, f)
<1>0. <<>> \in Wants
  BY DEF Wants
<1>c. CASE k = "rctrl"
  <2> DEFINE f == Then(a, CtrlBreak)
  <2>1. f = a \ {"ctrl"} /\ f \in Statuses
    BY NamedEffects, ThenStatus
  <2>2. Sent(a, <<Prefix, CtrlBreak>>, <<>>, f)
    BY <1>0, PrefixRead, CodesAreBytes
  <2> HIDE DEF f
  <2>3. Released(k, a, f)
    BY <1>c, <2>1 DEF Released, Shifts, Ctrls
  <2> QED BY <1>c, <2>1, <2>2, <2>3, NamedBytes
<1>1. CASE k \in DOMAIN Code \ {"up", "rctrl"}
  <2> DEFINE c == Code[k] + 128
             f == Then(a, c)
  <2>1. k \notin {"up", "prtsc", "pause", "rctrl"} /\ c \in Octets
    BY <1>1, KeyCodes DEF Octets
  <2>2. BreakBytes(k) = <<c>>
    BY <2>1 DEF BreakBytes
  <2>3. f \in Statuses
    BY ThenStatus
  <2>4. Sent(a, BreakBytes(k), <<>>, f)
    BY <1>0, <2>1, <2>2, <2>3, OneRead
  <2>5. Released(k, a, f)
    <3>1. CASE k \in Shifts
      <4>1. c \in {170, 182}
        BY <3>1, KeyCodes DEF Shifts
      <4>2. f = a \ {"shift"}
        BY <4>1, Effects
      <4> QED BY <3>1, <4>2 DEF Released, Shifts, Ctrls
    <3>2. CASE k = "ctrl"
      <4>1. c = 157
        BY <3>2, KeyCodes
      <4>2. f = a \ {"ctrl"}
        BY <4>1, Effects
      <4> QED BY <3>2, <4>2 DEF Released, Shifts, Ctrls
    <3>3. CASE k \in {"caps", "x", "d", "one", "f7"}
      <4>1. c \in {186, 173, 160, 130, 193}
        BY <3>3, KeyCodes
      <4>2. f = a
        BY <4>1, Effects
      <4> QED BY <3>3, <4>2 DEF Released, Shifts, Ctrls
    <3> QED BY <1>1, <3>1, <3>2, <3>3, KeyCodes DEF Shifts
  <2> QED BY <2>3, <2>4, <2>5
<1>2. CASE k = "up"
  <2>1. Then(a, UpBreak) = a
    BY NamedEffects
  <2>2. Sent(a, <<Prefix, UpBreak>>, <<>>, a)
    BY <1>0, <2>1, PrefixRead, CodesAreBytes
  <2>3. CASE ~Held
    <3>1. Released(k, a, a)
      BY <1>2, <2>3 DEF Released, Shifts, Ctrls
    <3> QED BY <1>2, <2>2, <2>3, <3>1, NamedBytes
  <2>4. CASE Held
    <3> DEFINE f == a \cup {"shift"}
    <3>1. f = Then(a, ShiftMake) /\ f \in Statuses
      BY NamedEffects DEF Statuses, Lamps
    <3>2. Released(k, a, f)
      BY <1>2, <2>4 DEF Released, Shifts, Ctrls
    <3> HIDE DEF f
    <3>3. Sent(a, <<Prefix, UpBreak>> \o <<Prefix, ShiftMake>>, <<>>, f)
      BY <1>0, <2>1, <3>1, WrappedRead, CodesAreBytes
    <3> QED BY <1>2, <2>4, <3>1, <3>2, <3>3, NamedBytes
  <2> QED BY <2>3, <2>4
<1>3. CASE k = "prtsc"
  <2>1. Then(a, PrtScBreak) = a
    BY NamedEffects
  <2>2. Sent(a, <<Prefix, PrtScBreak>>, <<>>, a)
    BY <1>0, <2>1, PrefixRead, CodesAreBytes
  <2>3. CASE Held \/ CtrlHeld
    <3>1. Released(k, a, a)
      BY <1>3, <2>3 DEF Released, Shifts, Ctrls
    <3> QED BY <1>3, <2>2, <2>3, <3>1, NamedBytes
  <2>4. CASE ~(Held \/ CtrlHeld)
    <3> DEFINE f == a \ {"shift"}
    <3>1. f = Then(a, ShiftBreak) /\ f \in Statuses
      BY NamedEffects DEF Statuses
    <3>2. Released(k, a, f)
      BY <1>3, <2>4 DEF Released, Shifts, Ctrls
    <3> HIDE DEF f
    <3>3. Sent(a, <<Prefix, PrtScBreak>> \o <<Prefix, ShiftBreak>>, <<>>, f)
      BY <1>0, <2>1, <3>1, WrappedRead, CodesAreBytes
    <3> QED BY <1>3, <2>4, <3>1, <3>2, <3>3, NamedBytes
  <2> QED BY <2>3, <2>4
<1>4. CASE k = "pause"
  <2>1. BreakBytes(k) = <<>>
    BY <1>4 DEF BreakBytes
  <2>2. Tagged(<<>>, <<>>) = <<>>
    <3>1. <<>> \in Seq(Octets) /\ Len(<<>>) = 0
      BY EmptySeq
    <3>2. Tagged(<<>>, <<>>) \in Seq(Bytes) /\ Len(Tagged(<<>>, <<>>)) = 0
      BY <1>0, <3>1, TaggedBytes
    <3> QED BY <3>2, EmptySeq
  <2>3. Sent(a, BreakBytes(k), <<>>, a)
    BY <2>1, <2>2, NothingRead DEF Sent
  <2>4. Released(k, a, a)
    BY <1>4 DEF Released, Shifts, Ctrls
  <2> QED BY <2>3, <2>4
<1> QED BY <1>1, <1>c, <1>2, <1>3, <1>4, KeyCodes DEF Keys

-----------------------------------------------------------------------------
\* The status the bytes on their way end in agrees with the keys: what
\* ModifierHeld says of the driver's own once there are no more of them.
Agrees(e) ==
  /\ "ctrl" \in e => CtrlHeld
  /\ "ctrl" \notin odd => ("ctrl" \in e <=> CtrlHeld)
  /\ "alt" \notin e
  /\ "shift" \in e => down \cap (Shifts \cup {"prtsc"}) # {} \/ "stuck" \in odd
  /\ odd \cap {"shift", "stuck"} = {} => ("shift" \in e <=> Held)
  /\ "caps" \notin odd => ("caps" \in e <=> capsOn)

KeyTypes ==
  /\ queue \in Seq(Bytes) /\ lost \in BOOLEAN
  /\ down \subseteq Keys /\ last \in Keys \cup {None}
  /\ odd \subseteq {"shift", "stuck", "caps", "ctrl"}
  /\ capsOn \in BOOLEAN /\ machine.hit \subseteq Keys

Foreseen == \E e \in Statuses : Reads(status, queue, e) /\ (~lost => Agrees(e))

\* The keyboard keeps Room bytes at most of its own; each lock among them leaves
\* one byte more when it is read, and f counts those from a byte on.
More(byte) == IF Answers(byte.code) = {0} THEN 0 ELSE 1

Bounded(q) ==
  \E f \in [1 .. Len(q) + 1 -> Nat] :
    /\ Len(q) + f[1] <= 2 * Room
    /\ \A n \in 1 .. Len(q) : f[n + 1] + More(q[n]) <= f[n]

KeysInv == KeyTypes /\ Bounded(queue) /\ Foreseen /\ CaseRight

\* What the typist wants is what the driver gives in a status that agrees.
LEMMA WantedGiven ==
  ASSUME KeyTypes, NEW e \in Statuses, Agrees(e), NEW k, Certain(k)
  PROVE  Gives(e, Code[k]) = Wanted(k) /\ Wanted(k) \in Wants
<1> DEFINE c == Code[k]
<1>1. /\ c \in DOMAIN map /\ odd \subseteq {"caps"}
      /\ c \in Letter => "caps" \notin odd
  BY DEF Certain
<1>2. c < 128 /\ c \in {45, 32, 2, 65, 72}
  BY <1>1, KeyCodes
<1> HIDE DEF c
<1>3. Special(e) = Modifiers
  <2>1. ("shift" \in e <=> Held) /\ ("ctrl" \in e <=> CtrlHeld) /\ "alt" \notin e
    BY <1>1 DEF Agrees
  <2> QED BY <2>1 DEF Special, Modifiers
<1> DEFINE upper == IF c \in Letter
                    THEN ~CtrlHeld /\ Held # capsOn ELSE Held
<1>4. Upper(e, c) <=> upper
  <2>1. "shift" \in e <=> Held
    BY <1>1 DEF Agrees
  <2>2. CASE c \notin Letter
    BY <2>1, <2>2 DEF Upper
  <2>3. CASE c \in Letter
    <3>1. "caps" \in e <=> capsOn
      BY <1>1, <2>3 DEF Agrees
    <3>2. Special(e) = {"shift"} <=> "shift" \in e /\ ~CtrlHeld
      BY <1>1 DEF Special, Agrees
    <3>3. Special(e) = {} <=> "shift" \notin e /\ ~CtrlHeld
      BY <1>1 DEF Special, Agrees
    <3>4. capsOn \in BOOLEAN /\ Held \in BOOLEAN
      BY DEF KeyTypes, Held
    <3> QED BY <2>1, <2>3, <3>1, <3>2, <3>3, <3>4 DEF Upper
  <2> QED BY <2>2, <2>3
<1>5. Gives(e, c) = <<Ascii(e, c), Special(e)>>
  BY <1>1, <1>2 DEF Gives
<1>6. Ascii(e, c) = IF upper THEN shift_map[c] ELSE map[c]
  BY <1>4 DEF Ascii
<1>7. Ascii(e, c) = (IF upper THEN shift_map ELSE map)[c]
  BY <1>6
<1>8. Wanted(k) = <<(IF upper THEN shift_map ELSE map)[c], Modifiers>>
  BY DEF Wanted, c
<1>9. Gives(e, c) = Wanted(k)
  BY <1>3, <1>5, <1>7, <1>8
<1>10. Ascii(e, c) \in Glyphs
  BY <1>2, <1>6, KeyCodes
<1>11. Special(e) \in Statuses
  BY DEF Special, Statuses
<1> HIDE DEF upper
<1>12. Gives(e, c) \in Wants
  BY <1>5, <1>10, <1>11 DEF Wants
<1> QED BY <1>9, <1>12 DEF c

LEMMA SendRead ==
  ASSUME NEW bytes, NEW want \in Wants, Send(bytes, want), queue \in Seq(Bytes),
         NEW e, NEW f, Reads(status, queue, e), Sent(e, bytes, want, f)
  PROVE  \/ lost' = TRUE /\ queue' = queue
         \/ /\ lost' = lost /\ queue' \in Seq(Bytes) /\ Len(queue') <= Room
            /\ Reads(status, queue', f)
<1>1. CASE lost' = TRUE /\ queue' = queue
  BY <1>1
<1>2. CASE /\ lost' = lost /\ queue' = queue \o Tagged(bytes, want)
           /\ ~(Len(queue) + Len(bytes) > Room)
  <2>1. Tagged(bytes, want) \in Seq(Bytes) /\ Len(Tagged(bytes, want)) = Len(bytes)
    BY TaggedBytes DEF Sent
  <2>2. Reads(status, queue \o Tagged(bytes, want), f)
    BY <2>1, BothRead DEF Sent
  <2>3. /\ queue \o Tagged(bytes, want) \in Seq(Bytes)
        /\ Len(queue \o Tagged(bytes, want)) = Len(queue) + Len(bytes)
    <3> DEFINE t == Tagged(bytes, want)
    <3>1. t \in Seq(Bytes) /\ Len(t) = Len(bytes)
      BY <2>1
    <3> HIDE DEF t
    <3>2. queue \o t \in Seq(Bytes) /\ Len(queue \o t) = Len(queue) + Len(t)
      BY <3>1, ConcatProperties
    <3> QED BY <3>1, <3>2 DEF t
  <2>4. Len(queue) + Len(bytes) <= Room
    <3>1. Len(queue) \in Nat /\ Len(bytes) \in Nat
      BY LenProperties DEF Sent
    <3> QED BY <1>2, <3>1, RoomAssumption
  <2> QED BY <1>2, <2>2, <2>3, <2>4
<1> QED BY <1>1, <1>2 DEF Send, Tagged

\* What fits is bounded, and a byte that is read leaves the bound.
LEMMA RoomBounds ==
  ASSUME NEW q \in Seq(Bytes), Len(q) <= Room
  PROVE  Bounded(q)
<1> DEFINE m == Len(q)
           f == [n \in 1 .. m + 1 |-> m + 1 - n]
<1>1. m \in Nat /\ Room \in Nat /\ m <= Room
  BY LenProperties, RoomAssumption
<1>2. \A n : More(q[n]) \in {0, 1}
  BY DEF More
<1> HIDE DEF m
<1>3. \A n \in 1 .. m + 1 : m + 1 - n \in Nat
  BY <1>1
<1>4. f \in [1 .. m + 1 -> Nat] /\ \A n \in 1 .. m + 1 : f[n] = m + 1 - n
  BY <1>3
<1> HIDE DEF f
<1>5. m + f[1] <= 2 * Room
  BY <1>1, <1>4
<1>6. \A n \in 1 .. m : f[n + 1] + More(q[n]) <= f[n]
  <2>1. \A n \in 1 .. m : n \in 1 .. m + 1 /\ n + 1 \in 1 .. m + 1
    BY <1>1
  <2> QED BY <1>1, <1>2, <1>4, <2>1
<1> QED BY <1>4, <1>5, <1>6 DEF Bounded, m

LEMMA ReadBounds ==
  ASSUME NEW q \in Seq(Bytes), q # <<>>, Bounded(q), NEW k \in Nat,
         k <= 2 * More(Head(q)), NEW a \in Seq(Bytes), Len(a) = k,
         \A n \in 1 .. k : More(a[n]) = 0
  PROVE  Bounded(Tail(q) \o a)
<1> DEFINE m == Len(q)
           r == Tail(q) \o a
<1>1. PICK f \in [1 .. m + 1 -> Nat] :
        /\ m + f[1] <= 2 * Room
        /\ \A n \in 1 .. m : f[n + 1] + More(q[n]) <= f[n]
  BY DEF Bounded
<1>2. /\ m \in Nat /\ m >= 1 /\ Head(q) = q[1]
      /\ Tail(q) \in Seq(Bytes) /\ Len(Tail(q)) = m - 1
      /\ \A n \in 1 .. m - 1 : Tail(q)[n] = q[n + 1]
  <2>1. m \in Nat /\ m # 0
    BY EmptySeq, LenProperties
  <2> QED BY <2>1, HeadTailProperties
<1>3. /\ Len(r) = m - 1 + k
      /\ \A n \in 1 .. m - 1 + k :
           r[n] = IF n <= m - 1 THEN Tail(q)[n] ELSE a[n - (m - 1)]
  <2> DEFINE t == Tail(q)
  <2>1. t \in Seq(Bytes) /\ Len(t) = m - 1
    BY <1>2
  <2> HIDE DEF t, m
  <2>2. /\ Len(t \o a) = Len(t) + Len(a)
        /\ \A n \in 1 .. Len(t) + Len(a) :
             (t \o a)[n] = IF n <= Len(t) THEN t[n] ELSE a[n - Len(t)]
    BY <2>1, ConcatProperties
  <2>3. /\ Len(t \o a) = m - 1 + k
        /\ \A n \in 1 .. m - 1 + k :
             (t \o a)[n] = IF n <= m - 1 THEN t[n] ELSE a[n - (m - 1)]
    BY <2>1, <2>2, Zenon
  <2> QED BY <2>3 DEF t
<1>4. \A n : More(q[n]) \in {0, 1}
  BY DEF More
<1> DEFINE g == [n \in 1 .. m + k |-> IF n <= m THEN f[n + 1] ELSE f[m + 1]]
<1> HIDE DEF m, r
<1>5. /\ g \in [1 .. m + k -> Nat]
      /\ \A n \in 1 .. m + k : g[n] = IF n <= m THEN f[n + 1] ELSE f[m + 1]
  <2>1. \A n \in 1 .. m + k : (n <= m => n + 1 \in 1 .. m + 1) /\ m + 1 \in 1 .. m + 1
    BY <1>2
  <2> QED BY <2>1
<1> HIDE DEF g
<1>6. Len(r) + g[1] <= 2 * Room
  <2>1. g[1] = f[2] /\ f[1] \in Nat /\ f[2] \in Nat /\ f[2] + More(q[1]) <= f[1]
    <3>1. 1 \in 1 .. m /\ 1 \in 1 .. m + k /\ 1 \in 1 .. m + 1 /\ 2 \in 1 .. m + 1 /\ 1 + 1 = 2
      BY <1>2
    <3> QED BY <1>1, <1>2, <1>5, <3>1
  <2>2. k <= 2 * More(q[1]) /\ More(q[1]) \in {0, 1}
    BY <1>2, <1>4
  <2>3. k - 1 <= f[1] - f[2]
    BY <2>1, <2>2
  <2> QED BY <1>1, <1>2, <1>3, <2>1, <2>3, RoomAssumption
<1>7. ASSUME NEW n \in 1 .. m - 1 + k
      PROVE  g[n + 1] + More(r[n]) <= g[n]
  <2>1. n \in 1 .. m + k /\ n + 1 \in 1 .. m + k
    BY <1>2
  <2>2. CASE n <= m - 1
    <3>1. n \in 1 .. m - 1 /\ n + 1 \in 1 .. m /\ n <= m /\ n + 1 <= m
      BY <1>2, <2>2
    <3>2. r[n] = q[n + 1] /\ g[n] = f[n + 1] /\ g[n + 1] = f[(n + 1) + 1]
      BY <1>2, <1>3, <1>5, <2>1, <2>2, <3>1
    <3> QED BY <1>1, <3>1, <3>2
  <2>3. CASE ~(n <= m - 1)
    <3>1. n - (m - 1) \in 1 .. k /\ (n <= m => n = m) /\ ~(n + 1 <= m)
      BY <1>2, <2>3
    <3>2. More(r[n]) = 0
      BY <1>3, <2>3, <3>1
    <3>3. g[n] = f[m + 1] /\ g[n + 1] = f[m + 1] /\ f[m + 1] \in Nat
      <4>1. m + 1 \in 1 .. m + 1
        BY <1>2
      <4> QED BY <1>1, <1>5, <2>1, <3>1, <4>1
    <3> QED BY <3>2, <3>3
  <2> QED BY <2>2, <2>3
<1>8. Len(r) + 1 = m + k
  BY <1>2, <1>3
<1>9. Bounded(r)
  BY <1>3, <1>5, <1>6, <1>7, <1>8 DEF Bounded
<1> QED BY <1>9 DEF r

LEMMA PressAgrees ==
  ASSUME KeyTypes, NEW k \in Keys, Press(k), NEW e \in Statuses, Agrees(e),
         NEW f \in Statuses, Pressed(k, e, f)
  PROVE  Agrees(f)'
<1>1. down' = down \cup {k} /\ odd' = Odd(k) /\ (capsOn' <=> ~(capsOn <=> k = "caps"))
  BY DEF Press, KeyTypes
<1>2. odd' = odd \/ odd' = odd \cup {"shift"}
  BY <1>1 DEF Odd
<1>3. /\ k = "up" /\ Held => "shift" \in odd'
      /\ k = "prtsc" /\ ~Held /\ ~CtrlHeld => "shift" \in odd'
  BY <1>1, Lengths DEF Odd
<1>4. /\ "ctrl" \in f => CtrlHeld'
      /\ "ctrl" \notin odd' => ("ctrl" \in f <=> CtrlHeld')
  <2>1. CtrlHeld' <=> CtrlHeld \/ k \in Ctrls
    BY <1>1 DEF CtrlHeld
  <2>2. "ctrl" \notin odd' => "ctrl" \notin odd
    BY <1>2
  <2> QED BY <2>1, <2>2 DEF Pressed, Agrees
<1>5. "shift" \in f =>
        down' \cap (Shifts \cup {"prtsc"}) # {} \/ "stuck" \in odd'
  <2>1. CASE "shift" \in e
    BY <1>1, <1>2, <2>1 DEF Agrees
  <2>2. CASE "shift" \notin e
    BY <1>1, <2>2 DEF Pressed
  <2> QED BY <2>1, <2>2
<1>6. odd' \cap {"shift", "stuck"} = {} => ("shift" \in f <=> Held')
  <2>1. Held' <=> Held \/ k \in Shifts
    BY <1>1 DEF Held
  <2>2. SUFFICES ASSUME odd' \cap {"shift", "stuck"} = {}
                 PROVE  "shift" \in f <=> Held'
    OBVIOUS
  <2>3. "shift" \in e <=> Held
    BY <1>2, <2>2 DEF Agrees
  <2> QED BY <1>3, <2>1, <2>2, <2>3 DEF Pressed
<1>7. "caps" \notin odd' => ("caps" \in f <=> capsOn')
  BY <1>1, <1>2 DEF Pressed, Agrees
<1>8. "alt" \notin f
  BY DEF Pressed, Agrees
<1> QED BY <1>4, <1>5, <1>6, <1>7, <1>8 DEF Agrees

LEMMA RepeatAgrees ==
  ASSUME KeyTypes, Repeat, NEW e \in Statuses, Agrees(e),
         NEW f \in Statuses, Repeated(last, e, f)
  PROVE  Agrees(f)'
<1>1. /\ last \in down /\ down' = down /\ capsOn' = capsOn
      /\ odd' = odd \cup (IF last = "caps" THEN {"caps"} ELSE {})
  BY DEF Repeat
<1>2. /\ "ctrl" \in f => CtrlHeld'
      /\ "ctrl" \notin odd' => ("ctrl" \in f <=> CtrlHeld')
  <2>1. (CtrlHeld' <=> CtrlHeld) /\ (last \in Ctrls => CtrlHeld)
    BY <1>1 DEF CtrlHeld
  <2>2. "ctrl" \notin odd' => "ctrl" \notin odd
    BY <1>1
  <2> QED BY <2>1, <2>2 DEF Repeated, Agrees
<1>3. "shift" \in f =>
        down' \cap (Shifts \cup {"prtsc"}) # {} \/ "stuck" \in odd'
  BY <1>1 DEF Repeated, Agrees
<1>4. odd' \cap {"shift", "stuck"} = {} => ("shift" \in f <=> Held')
  <2>1. Held' <=> Held
    BY <1>1 DEF Held
  <2>2. last \in Shifts => Held
    BY <1>1 DEF Held
  <2> QED BY <1>1, <2>1, <2>2 DEF Repeated, Agrees
<1>5. "caps" \notin odd' => ("caps" \in f <=> capsOn')
  BY <1>1 DEF Repeated, Agrees
<1>6. "alt" \notin f
  BY DEF Repeated, Agrees
<1> QED BY <1>2, <1>3, <1>4, <1>5, <1>6 DEF Agrees

LEMMA ReleaseAgrees ==
  ASSUME KeyTypes, NEW k \in Keys, Release(k), NEW e \in Statuses, Agrees(e),
         NEW f \in Statuses, Released(k, e, f)
  PROVE  Agrees(f)'
<1> DEFINE twin  == IF Shifts \subseteq down /\ k \in Shifts THEN {"shift"}
                    ELSE IF Ctrls \subseteq down /\ k \in Ctrls THEN {"ctrl"} ELSE {}
           stuck == IF k = "prtsc" /\ "shift" \in odd /\ Len(BreakBytes(k)) = 2
                    THEN {"stuck"} ELSE {}
           over  == (IF down = {k} THEN {"shift"} ELSE {})
                    \cup (IF k \in Shifts THEN {"stuck"} ELSE {})
                    \cup (IF down \cap Ctrls = {k} THEN {"ctrl"} ELSE {})
<1>1. /\ k \in down /\ down' = down \ {k} /\ capsOn' = capsOn
      /\ odd' = (odd \ over) \cup twin \cup stuck
  BY DEF Release
<1>2. k = "prtsc" /\ "shift" \in odd /\ (Held \/ CtrlHeld)
        => "stuck" \in odd'
  BY <1>1, Lengths
<1>3. /\ "caps" \in odd <=> "caps" \in odd'
      /\ k \notin Shifts /\ "stuck" \in odd => "stuck" \in odd'
      /\ k \in Shifts /\ Shifts \subseteq down => "shift" \in odd'
      /\ k \notin Shifts /\ down # {k} =>
           odd \cap {"shift", "stuck"} \subseteq odd'
      /\ k \in Ctrls /\ Ctrls \subseteq down => "ctrl" \in odd'
      /\ k \notin Ctrls /\ "ctrl" \in odd => "ctrl" \in odd'
  BY <1>1 DEF Shifts, Ctrls
<1> HIDE DEF twin, stuck, over
<1>4. k \notin Shifts => (Held' <=> Held)
  BY <1>1 DEF Held
<1>5. /\ "ctrl" \in f => CtrlHeld'
      /\ "ctrl" \notin odd' => ("ctrl" \in f <=> CtrlHeld')
  <2>1. CASE k \in Ctrls
    <3>1. ~(Ctrls \subseteq down) => ~CtrlHeld'
      BY <1>1, <2>1 DEF CtrlHeld, Ctrls
    <3> QED BY <1>3, <2>1, <3>1 DEF Released
  <2>2. CASE k \notin Ctrls
    <3>1. CtrlHeld' <=> CtrlHeld
      BY <1>1, <2>2 DEF CtrlHeld
    <3> QED BY <1>3, <2>2, <3>1 DEF Released, Agrees
  <2> QED BY <2>1, <2>2
<1>6. "shift" \in f =>
        down' \cap (Shifts \cup {"prtsc"}) # {} \/ "stuck" \in odd'
  <2>1. SUFFICES ASSUME "shift" \in f, "stuck" \notin odd'
                 PROVE  down' \cap (Shifts \cup {"prtsc"}) # {}
    OBVIOUS
  <2>2. k \notin Shifts
    BY <2>1 DEF Released, Shifts, Ctrls
  <2>3. CASE Held
    BY <1>4, <2>2, <2>3 DEF Held
  <2>4. CASE ~Held
    <3>1. "shift" \in e /\ "stuck" \notin odd
      BY <1>3, <2>1, <2>2, <2>4 DEF Released
    <3>2. down \cap (Shifts \cup {"prtsc"}) # {}
      BY <3>1 DEF Agrees
    <3>3. k # "prtsc"
      <4>1. SUFFICES ASSUME k = "prtsc"
                     PROVE  FALSE
        OBVIOUS
      <4>2. CtrlHeld
        BY <2>1, <2>4, <4>1 DEF Released
      <4>3. "shift" \in odd
        BY <2>4, <3>1 DEF Agrees, KeyTypes
      <4> QED BY <1>2, <2>1, <4>1, <4>2, <4>3
    <3> QED BY <1>1, <2>2, <3>2, <3>3
  <2> QED BY <2>3, <2>4
<1>7. odd' \cap {"shift", "stuck"} = {} => ("shift" \in f <=> Held')
  <2>1. SUFFICES ASSUME odd' \cap {"shift", "stuck"} = {}
                 PROVE  "shift" \in f <=> Held'
    OBVIOUS
  <2>2. CASE k \in Shifts
    <3>1. ~(Shifts \subseteq down)
      BY <1>3, <2>1, <2>2
    <3>2. ~Held'
      BY <1>1, <2>2, <3>1 DEF Held, Shifts
    <3> QED BY <2>2, <3>2 DEF Released, Shifts, Ctrls
  <2>3. CASE k \notin Shifts /\ down = {k}
    <3>1. ~Held /\ ~Held' /\ "stuck" \notin odd
      BY <1>3, <1>4, <2>1, <2>3 DEF Held
    <3>2. "shift" \notin f
      <4>1. SUFFICES ASSUME "shift" \in f
                     PROVE  FALSE
        OBVIOUS
      <4>2. "shift" \in e /\ (k = "prtsc" => CtrlHeld)
        BY <3>1, <4>1 DEF Released
      <4>3. down \cap (Shifts \cup {"prtsc"}) # {}
        BY <3>1, <4>2 DEF Agrees
      <4>4. k = "prtsc"
        BY <2>3, <4>3
      <4> QED BY <2>3, <4>2, <4>4 DEF CtrlHeld, Ctrls
    <3> QED BY <3>1, <3>2
  <2>4. CASE k \notin Shifts /\ down # {k}
    <3>1. odd \cap {"shift", "stuck"} = {}
      BY <1>3, <2>1, <2>4
    <3>2. "shift" \in e <=> Held
      BY <3>1 DEF Agrees
    <3> QED BY <1>4, <2>4, <3>2 DEF Released
  <2> QED BY <2>2, <2>3, <2>4
<1>8. "caps" \notin odd' => ("caps" \in f <=> capsOn')
  BY <1>1, <1>3 DEF Released, Agrees
<1>9. "alt" \notin f
  BY DEF Released, Agrees
<1> QED BY <1>5, <1>6, <1>7, <1>8, <1>9 DEF Agrees

LEMMA PressKeeps ==
  ASSUME KeysInv, NEW k \in Keys, Press(k), machine' = machine
  PROVE  KeysInv'
<1> DEFINE w == IF Certain(k) /\ Odd(k) = odd THEN Wanted(k) ELSE <<>>
<1>1. PICK e \in Statuses : Reads(status, queue, e) /\ (~lost => Agrees(e))
  BY DEF KeysInv, Foreseen
<1>2. KeyTypes /\ CaseRight /\ Send(MakeBytes(k), w)
  BY DEF KeysInv, Press
<1>3. w # <<>> => /\ ~lost /\ k \in DOMAIN Code /\ (k = "up" => ~Held)
                  /\ Gives(e, Code[k]) = w /\ w \in Wants
  <2>1. SUFFICES ASSUME w # <<>>
                 PROVE  /\ ~lost /\ k \in DOMAIN Code /\ (k = "up" => ~Held)
                        /\ Gives(e, Code[k]) = w /\ w \in Wants
    OBVIOUS
  <2>2. Certain(k) /\ Odd(k) = odd /\ w = Wanted(k)
    BY <2>1
  <2>3. ~lost /\ k \in DOMAIN Code /\ odd \subseteq {"caps"}
    BY <2>2 DEF Certain
  <2>4. k = "up" => ~Held
    BY <2>2, <2>3, Lengths DEF Odd
  <2>5. Gives(e, Code[k]) = Wanted(k) /\ Wanted(k) \in Wants
    BY <1>1, <1>2, <2>2, <2>3, WantedGiven
  <2> QED BY <2>2, <2>3, <2>4, <2>5
<1>4. w \in Wants
  BY <1>3 DEF Wants
<1> HIDE DEF w
<1>5. PICK f \in Statuses : Sent(e, MakeBytes(k), w, f) /\ Pressed(k, e, f)
  BY <1>3, <1>4, PressRead
<1>6. \/ lost' = TRUE /\ queue' = queue
      \/ /\ lost' = lost /\ queue' \in Seq(Bytes) /\ Len(queue') <= Room
         /\ Reads(status, queue', f)
  BY <1>1, <1>2, <1>4, <1>5, SendRead DEF KeyTypes
<1>7. /\ down' = down \cup {k} /\ last' = k /\ status' = status /\ typed' = typed
      /\ capsOn' = (capsOn # (k = "caps")) /\ odd' = Odd(k)
  BY DEF Press
<1>8. KeyTypes'
  <2>1. queue' \in Seq(Bytes) /\ lost' \in BOOLEAN
    BY <1>2, <1>6 DEF KeyTypes
  <2>2. down' \subseteq Keys /\ last' \in Keys \cup {None} /\ capsOn' \in BOOLEAN
    BY <1>2, <1>7 DEF KeyTypes
  <2>3. odd' \subseteq {"shift", "stuck", "caps", "ctrl"}
    BY <1>2, <1>7 DEF KeyTypes, Odd
  <2>4. machine'.hit \subseteq Keys
    BY <1>2 DEF KeyTypes
  <2> QED BY <2>1, <2>2, <2>3, <2>4 DEF KeyTypes
<1>9. Foreseen'
  <2>1. CASE lost' = TRUE /\ queue' = queue
    BY <1>1, <1>7, <2>1 DEF Foreseen
  <2>2. CASE lost' = lost /\ Reads(status, queue', f)
    <3>1. ~lost' => Agrees(f)'
      BY <1>1, <1>2, <1>5, <2>2, PressAgrees
    <3> QED BY <1>7, <2>2, <3>1 DEF Foreseen
  <2> QED BY <1>6, <2>1, <2>2
<1>10. CaseRight'
  BY <1>2, <1>7 DEF CaseRight
<1>11. Bounded(queue')
  BY <1>6, RoomBounds DEF KeysInv
<1> QED BY <1>8, <1>9, <1>10, <1>11 DEF KeysInv

LEMMA RepeatKeeps ==
  ASSUME KeysInv, Repeat, machine' = machine
  PROVE  KeysInv'
<1> DEFINE w == IF Certain(last) THEN Wanted(last) ELSE <<>>
<1>1. PICK e \in Statuses : Reads(status, queue, e) /\ (~lost => Agrees(e))
  BY DEF KeysInv, Foreseen
<1>2. KeyTypes /\ CaseRight /\ Send(RepeatBytes(last), w)
  BY DEF KeysInv, Repeat
<1>3. w # <<>> => /\ ~lost /\ last \in DOMAIN Code
                  /\ Gives(e, Code[last]) = w /\ w \in Wants
  <2>1. SUFFICES ASSUME w # <<>>
                 PROVE  /\ ~lost /\ last \in DOMAIN Code
                        /\ Gives(e, Code[last]) = w /\ w \in Wants
    OBVIOUS
  <2>2. Certain(last) /\ w = Wanted(last)
    BY <2>1
  <2>3. ~lost /\ last \in DOMAIN Code
    BY <2>2 DEF Certain
  <2>4. Gives(e, Code[last]) = Wanted(last) /\ Wanted(last) \in Wants
    BY <1>1, <1>2, <2>2, <2>3, WantedGiven
  <2> QED BY <2>2, <2>3, <2>4
<1>4. w \in Wants /\ last \in Keys \ {"pause"}
  BY <1>2, <1>3 DEF Wants, Repeat, KeyTypes
<1> HIDE DEF w
<1>5. PICK f \in Statuses : Sent(e, RepeatBytes(last), w, f) /\ Repeated(last, e, f)
  BY <1>3, <1>4, RepeatRead
<1>6. \/ lost' = TRUE /\ queue' = queue
      \/ /\ lost' = lost /\ queue' \in Seq(Bytes) /\ Len(queue') <= Room
         /\ Reads(status, queue', f)
  BY <1>1, <1>2, <1>4, <1>5, SendRead DEF KeyTypes
<1>7. /\ down' = down /\ last' = last /\ status' = status /\ typed' = typed
      /\ capsOn' = capsOn
      /\ odd' = odd \cup (IF last = "caps" THEN {"caps"} ELSE {})
  BY DEF Repeat
<1>8. KeyTypes'
  BY <1>2, <1>6, <1>7 DEF KeyTypes
<1>9. Foreseen'
  <2>1. CASE lost' = TRUE /\ queue' = queue
    BY <1>1, <1>7, <2>1 DEF Foreseen
  <2>2. CASE lost' = lost /\ Reads(status, queue', f)
    <3>1. ~lost' => Agrees(f)'
      BY <1>1, <1>2, <1>5, <2>2, RepeatAgrees
    <3> QED BY <1>7, <2>2, <3>1 DEF Foreseen
  <2> QED BY <1>6, <2>1, <2>2
<1>10. CaseRight'
  BY <1>2, <1>7 DEF CaseRight
<1>11. Bounded(queue')
  BY <1>6, RoomBounds DEF KeysInv
<1> QED BY <1>8, <1>9, <1>10, <1>11 DEF KeysInv

LEMMA ReleaseKeeps ==
  ASSUME KeysInv, NEW k \in Keys, Release(k), machine' = machine
  PROVE  KeysInv'
<1>1. PICK e \in Statuses : Reads(status, queue, e) /\ (~lost => Agrees(e))
  BY DEF KeysInv, Foreseen
<1>2. /\ KeyTypes /\ CaseRight /\ Send(BreakBytes(k), <<>>) /\ <<>> \in Wants
  BY DEF KeysInv, Release, Wants
<1>3. PICK f \in Statuses : Sent(e, BreakBytes(k), <<>>, f) /\ Released(k, e, f)
  BY ReleaseRead
<1>4. \/ lost' = TRUE /\ queue' = queue
      \/ /\ lost' = lost /\ queue' \in Seq(Bytes) /\ Len(queue') <= Room
         /\ Reads(status, queue', f)
  BY <1>1, <1>2, <1>3, SendRead DEF KeyTypes
<1>5. /\ down' = down \ {k} /\ status' = status /\ typed' = typed
      /\ capsOn' = capsOn /\ last' \in {last, None}
      /\ odd' \subseteq odd \cup {"shift", "stuck", "ctrl"}
  BY DEF Release
<1>6. KeyTypes'
  BY <1>2, <1>4, <1>5 DEF KeyTypes
<1>7. Foreseen'
  <2>1. CASE lost' = TRUE /\ queue' = queue
    BY <1>1, <1>5, <2>1 DEF Foreseen
  <2>2. CASE lost' = lost /\ Reads(status, queue', f)
    <3>1. ~lost' => Agrees(f)'
      BY <1>1, <1>2, <1>3, <2>2, ReleaseAgrees
    <3> QED BY <1>5, <2>2, <3>1 DEF Foreseen
  <2> QED BY <1>4, <2>1, <2>2
<1>8. CaseRight'
  BY <1>2, <1>5 DEF CaseRight
<1>9. Bounded(queue')
  BY <1>4, RoomBounds DEF KeysInv
<1> QED BY <1>6, <1>7, <1>8, <1>9 DEF KeysInv

\* The keyboard's answers change nothing.
LEMMA AnswersRead ==
  ASSUME NEW e \in Statuses, NEW n \in {0, 2}
  PROVE  /\ [k \in 1 .. n |-> Answer] \in Seq(Bytes)
         /\ Reads(e, [k \in 1 .. n |-> Answer], e)
         /\ Len([k \in 1 .. n |-> Answer]) = n
         /\ \A m \in 1 .. n : More([k \in 1 .. n |-> Answer][m]) = 0
<1> DEFINE q == [k \in 1 .. n |-> Answer]
           t == [k \in 0 .. n |-> e]
<1>1. Answer \in Bytes /\ Answer.want = <<>> /\ Then(e, Answer.code) = e
  BY Effects DEF Answer, Bytes, Octets, Wants
<1>2. n \in Nat /\ q \in [1 .. n -> Bytes] /\ \A k \in 1 .. n : q[k] = Answer
  BY <1>1
<1> HIDE DEF q
<1>3. q \in Seq(Bytes) /\ Len(q) = n
  <2>1. q \in Seq(Bytes)
    BY <1>2, SeqDef
  <2> QED BY <1>2, <2>1, LenProperties
<1>4. /\ t \in [0 .. n -> Statuses] /\ t[0] = e /\ t[n] = e
      /\ \A k \in 1 .. n : t[k] = e /\ t[k - 1] = e
  <2>1. \A k \in 1 .. n : k \in 0 .. n /\ k - 1 \in 0 .. n
    BY <1>2
  <2> QED BY <1>2, <2>1
<1> HIDE DEF t
<1>5. Row(t, q)
  BY <1>1, <1>2, <1>3, <1>4 DEF Row, Right
<1>6. Reads(e, q, e)
  BY <1>3, <1>4, <1>5 DEF Reads
<1>7. \A k \in 1 .. n : More(q[k]) = 0
  <2>1. Answers(Answer.code) = {0}
    BY DEF Answers, Answer
  <2> QED BY <1>2, <2>1 DEF More
<1> QED BY <1>3, <1>6, <1>7 DEF q

LEMMA InterruptKeeps ==
  ASSUME KeysInv, do_irq1, machine' = machine
  PROVE  KeysInv'
<1> DEFINE byte == Head(queue)
<1>1. PICK e \in Statuses : Reads(status, queue, e) /\ (~lost => Agrees(e))
  BY DEF KeysInv, Foreseen
<1>2. KeyTypes /\ CaseRight /\ queue \in Seq(Bytes) /\ queue # <<>>
  BY DEF KeysInv, KeyTypes, do_irq1
<1>3. Right(status, byte) /\ Reads(Then(status, byte.code), Tail(queue), e)
  BY <1>1, <1>2, FirstRead
<1>4. Tail(queue) \in Seq(Bytes)
  BY <1>2, HeadTailProperties
<1>5. /\ status' = Then(status, byte.code)
      /\ typed' = IF Gives(status, byte.code) = <<>> THEN typed
                  ELSE [given |-> Gives(status, byte.code), want |-> byte.want]
      /\ UNCHANGED <<down, last, capsOn, odd, lost>>
  BY DEF do_irq1, NewStatus, Given, Then, Gives, typist
<1>6. PICK n \in {0, 2} : /\ queue' = Tail(queue) \o [k \in 1 .. n |-> Answer]
                         /\ n <= 2 * More(byte)
  <2>1. PICK n \in Answers(byte.code) :
          queue' = Tail(queue) \o [k \in 1 .. n |-> Answer]
    BY DEF do_irq1
  <2>2. n \in {0, 2}
    BY DEF Answers
  <2>3. n <= 2 * More(byte)
    <3>1. CASE n = 0
      BY <3>1 DEF More
    <3>2. CASE n = 2
      <4>1. Answers(byte.code) # {0}
        BY <3>2
      <4>2. More(byte) = 1
        BY <4>1 DEF More
      <4> QED BY <3>2, <4>2
    <3> QED BY <2>2, <3>1, <3>2
  <2> QED BY <2>1, <2>2, <2>3
<1> HIDE DEF byte
<1>7. queue' \in Seq(Bytes) /\ Reads(status', queue', e) /\ Bounded(queue')
  <2> DEFINE q == [k \in 1 .. n |-> Answer]
  <2>1. /\ q \in Seq(Bytes) /\ Reads(e, q, e) /\ Len(q) = n
        /\ \A k \in 1 .. n : More(q[k]) = 0
    BY AnswersRead
  <2>2. queue' = Tail(queue) \o q
    BY <1>6
  <2> HIDE DEF q
  <2>3. Reads(status', Tail(queue) \o q, e)
    BY <1>3, <1>4, <1>5, <2>1, BothRead
  <2>4. Tail(queue) \o q \in Seq(Bytes)
    BY <1>4, <2>1, ConcatProperties
  <2>5. Bounded(Tail(queue) \o q)
    BY <1>2, <1>6, <2>1, ReadBounds DEF KeysInv, byte
  <2> QED BY <2>2, <2>3, <2>4, <2>5
<1>8. KeyTypes'
  BY <1>2, <1>5, <1>7 DEF KeyTypes
<1>9. Foreseen'
  <2>1. Agrees(e)' <=> Agrees(e)
    BY <1>5 DEF Agrees, Held, CtrlHeld
  <2> QED BY <1>1, <1>5, <1>7, <2>1 DEF Foreseen
<1>10. CaseRight'
  BY <1>2, <1>3, <1>5 DEF CaseRight, Right
<1> QED BY <1>7, <1>8, <1>9, <1>10 DEF KeysInv

LEMMA KeysStutter ==
  ASSUME KeysInv, UNCHANGED <<machine, keys>>
  PROVE  KeysInv'
<1>1. /\ UNCHANGED <<down, last, capsOn, odd, queue, lost, status, typed>>
      /\ machine' = machine
  BY DEF keys, typist
<1>2. KeyTypes'
  BY <1>1 DEF KeysInv, KeyTypes
<1>3. Foreseen'
  BY <1>1 DEF KeysInv, Foreseen, Agrees, Held, CtrlHeld
<1>4. CaseRight'
  BY <1>1 DEF KeysInv, CaseRight
<1>5. Bounded(queue')
  BY <1>1 DEF KeysInv
<1> QED BY <1>2, <1>3, <1>4, <1>5 DEF KeysInv

-----------------------------------------------------------------------------
LEMMA KeysInit == Init => KeysInv
<1> SUFFICES ASSUME Init PROVE KeysInv
  OBVIOUS
<1>1. KeyboardInit /\ machine \in Machines
  BY DEF Init
<1>2. machine.hit \subseteq Keys
  BY <1>1, MachineAssumption DEF Machine
<1>3. <<>> \in Seq(Bytes)
  BY EmptySeq
<1>4. KeyTypes
  BY <1>1, <1>2, <1>3 DEF KeyTypes, KeyboardInit
<1>5. Reads(status, queue, {})
  BY <1>1, NothingRead DEF KeyboardInit, Statuses
<1>6. Agrees({})
  BY <1>1 DEF Agrees, Held, CtrlHeld, KeyboardInit
<1>7. {} \in Statuses
  BY DEF Statuses
<1>8. Foreseen
  BY <1>5, <1>6, <1>7 DEF Foreseen
<1>9. CaseRight
  BY <1>1 DEF CaseRight, KeyboardInit
<1>10. Bounded(queue)
  <2>1. queue \in Seq(Bytes) /\ queue = <<>>
    BY <1>1, <1>3 DEF KeyboardInit
  <2>2. Len(queue) = 0
    BY <2>1, EmptySeq
  <2>3. Len(queue) <= Room
    BY <2>2, RoomAssumption
  <2>4. queue \in Seq(Bytes)
    BY <2>1
  <2> QED BY <2>3, <2>4, RoomBounds
<1> QED BY <1>4, <1>8, <1>9, <1>10 DEF KeysInv

\* What start_kernel, the drives and the timer do leaves the keyboard alone.
LEMMA OthersLeaveKeys ==
  ASSUME Main \/ Drive \/ Timer \/ Idle
  PROVE  UNCHANGED <<machine, keys>>
<1>1. CASE Idle
  BY <1>1 DEF Idle, vars
<1>2. CASE Timer
  BY <1>2 DEF Timer
<1>3. CASE Drive
  BY <1>3 DEF Drive, Others
<1>4. CASE SetUp
  BY <1>4 DEF SetUp
<1>5. CASE Select \/ Send_identify \/ Status \/ Poll \/ Signature \/ Read_buffer
  BY <1>5 DEF Select, Send_identify, Status, Poll, Signature, Read_buffer, Others
<1>6. CASE \E p, q : Move(p, q)
  BY <1>6 DEF Move, Others
<1>7. CASE \E p, q : MainReads(p, q)
  BY <1>7 DEF MainReads
<1>8. Read_mbr \/ Init_ext2 \/ Mount \/ Scan \/ Get_free \/ Open =>
        \E p, q : MainReads(p, q)
  BY DEF Read_mbr, Init_ext2, Mount, Scan, Get_free, Open
<1> QED BY <1>1, <1>2, <1>3, <1>4, <1>5, <1>6, <1>7, <1>8 DEF Main

LEMMA KeysNext == KeysInv /\ [Next]_vars => KeysInv'
<1> SUFFICES ASSUME KeysInv, [Next]_vars PROVE KeysInv'
  OBVIOUS
<1>1. CASE Main \/ Drive \/ Timer \/ Idle
  BY <1>1, OthersLeaveKeys, KeysStutter
<1>2. CASE Key
  <2>1. do_irq1 /\ machine' = machine
    BY <1>2 DEF Key, keybord_in
  <2> QED BY <2>1, InterruptKeeps
<1>3. CASE Type
  <2>1. machine' = machine /\ machine.hit \subseteq Keys
    BY <1>3 DEF Type, KeysInv, KeyTypes
  <2>2. (\E k \in Keys : Press(k) \/ Release(k)) \/ Repeat
    BY <1>3, <2>1 DEF Type
  <2> QED BY <2>1, <2>2, PressKeeps, ReleaseKeeps, RepeatKeeps
<1>4. CASE UNCHANGED vars
  <2>1. UNCHANGED <<machine, keys>>
    BY <1>4 DEF vars
  <2> QED BY <2>1, KeysStutter
<1> QED BY <1>1, <1>2, <1>3, <1>4 DEF Next

LEMMA KeysAlways == Spec => []KeysInv
BY KeysInit, KeysNext, PTL DEF Spec

\* The status is one of the driver's, every byte on its way is a byte, and there
\* are no more than twice as many as the keyboard keeps, also when each of them
\* makes it answer (kbd.c:95-121).
THEOREM KeyboardTyped == Spec => []KeyboardTypeOK
<1>1. KeysInv => KeyboardTypeOK
  <2>1. SUFFICES ASSUME KeysInv PROVE KeyboardTypeOK
    OBVIOUS
  <2>2. KeyTypes /\ Bounded(queue) /\ Foreseen
    BY <2>1 DEF KeysInv
  <2>3. Len(queue) <= 2 * Room
    <3>1. PICK f \in [1 .. Len(queue) + 1 -> Nat] : Len(queue) + f[1] <= 2 * Room
      BY <2>2 DEF Bounded
    <3>2. Len(queue) \in Nat
      BY <2>2, LenProperties DEF KeyTypes
    <3>3. f[1] \in Nat
      BY <3>2
    <3> QED BY <3>1, <3>2, <3>3, RoomAssumption
  <2>4. \A n \in DOMAIN queue : queue[n].code \in 0 .. 255
    <3>1. \A n \in DOMAIN queue : queue[n] \in Bytes
      BY <2>2 DEF KeyTypes
    <3> QED BY <3>1 DEF Bytes, Octets
  <2>5. status \subseteq {"shift", "ctrl", "alt", "caps", "num", "scroll"}
    <3>1. PICK e \in Statuses : Reads(status, queue, e)
      BY <2>2 DEF Foreseen
    <3>2. PICK t \in [0 .. Len(queue) -> Statuses] : t[0] = status
      BY <3>1 DEF Reads
    <3>3. 0 \in 0 .. Len(queue)
      BY <2>2, LenProperties DEF KeyTypes
    <3>4. status \in Statuses
      BY <3>2, <3>3
    <3> QED BY <3>4 DEF Statuses, Lamps
  <2> QED BY <2>2, <2>3, <2>4, <2>5 DEF KeyTypes, KeyboardTypeOK
<1> QED BY <1>1, KeysAlways, PTL

\* On any machine, and however late the driver reads them: a key that goes down
\* or repeats gives the character it stood for then, and the modifiers held
\* then, while no byte has been lost and none of ModifierHeld's exceptions lasts
\* (kbd.c:102-185).
THEOREM CaseAlwaysRight == Spec => []CaseRight
<1>1. KeysInv => CaseRight
  BY DEF KeysInv
<1> QED BY <1>1, KeysAlways, PTL

\* For every room and whatever is typed, but the Alt keys: when every byte has
\* been read and none was lost, a modifier that is set is held and one that is
\* held is set, with the exceptions ModifierHeld names: one of two Shift or Ctrl
\* keys let go, the keys between the blocks and PrtSc under Shift or Ctrl, and a
\* Caps Lock that repeats (kbd.c:103-130).
THEOREM ModifierAlwaysHeld == Spec => []ModifierHeld
<1>1. KeysInv => ModifierHeld
  <2>1. SUFFICES ASSUME KeysInv, queue = <<>>, ~lost
                 PROVE  /\ "ctrl" \in status => CtrlHeld
                        /\ "ctrl" \notin odd => ("ctrl" \in status <=> CtrlHeld)
                        /\ "shift" \in status =>
                             \/ down \cap (Shifts \cup {"prtsc"}) # {}
                             \/ "stuck" \in odd
                        /\ odd \cap {"shift", "stuck"} = {} =>
                             ("shift" \in status <=> Held)
                        /\ "caps" \notin odd => ("caps" \in status <=> capsOn)
    BY DEF ModifierHeld
  <2>2. PICK e \in Statuses : Reads(status, queue, e) /\ Agrees(e)
    BY <2>1 DEF KeysInv, Foreseen
  <2>3. Len(queue) = 0
    BY <2>1, EmptySeq
  <2>4. e = status
    BY <2>2, <2>3 DEF Reads
  <2> QED BY <2>2, <2>4 DEF Agrees
<1> QED BY <1>1, KeysAlways, PTL
=============================================================================
