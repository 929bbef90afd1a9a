----------------------------- MODULE IdeProofs -----------------------------
(***************************************************************************)
(* What Ide promises of reads and writes, for every disk, geometry, set of *)
(* requests and build.  The invariant says, by where each caller is, whose *)
(* transfer the drive is in and how much of it is left.                    *)
(***************************************************************************)
EXTENDS Ide, TLAPS

\* The types, with the fields of the records.
Modes     == {"chs", "lba28", "lba48"}
Registers == [mode : Modes, head : Int, lowMode : Modes, low : Int \X Int,
              count : Nat]
Device    == [st : {"idle", "busy", "drq", "failed"},
              op : {"none", "read", "write", "flush"},
              sector : Int, left : Nat, data : Place \cup {Old}]
Calls     == [op : {"none", "read", "write"}, lba : Int, count : Nat, status : Int]

Types ==
  /\ drive \in Drives /\ capable \in BOOLEAN /\ advance \in BOOLEAN
  /\ regs \in Registers /\ regs.count \in Counts \cup {1}
  /\ dev \in Device
  /\ disk \in [Sector -> Int] /\ cached \in BOOLEAN
  /\ pc \in [Contexts -> Pc] /\ i \in [Contexts -> Nat]
  /\ call \in [Contexts -> Calls]
  /\ buf \in [Contexts -> [Place -> Int]]
  /\ mixed \in [Contexts -> BOOLEAN] /\ failed \in BOOLEAN /\ synced \in BOOLEAN

\* A call is a request, and its loop is where pc says.
Selecting == {"select", "count", "low", "command"}
Moving    == {"poll", "data"}

Counted(c) ==
  /\ pc[c] = "idle" => call[c] = NoCall
  /\ pc[c] # "idle" => /\ call[c].op \in {"read", "write"}
                       /\ call[c].lba \in 0 .. LbaSpace - 1
                       /\ call[c].count \in Counts
                       /\ c # "main" => call[c].op = "read"
  /\ i[c] <= call[c].count
  /\ pc[c] \in {"idle", "wait"} \cup Selecting => i[c] = 0
  /\ pc[c] \in Moving => i[c] < call[c].count
  /\ pc[c] \in {"flush", "settle"} => call[c].op = "write" /\ i[c] = call[c].count
  /\ pc[c] = "done" /\ call[c].status = 0 => i[c] = call[c].count

\* The drive has a sector left while it works, and holds data to be written
\* only where main waits for it.
Working ==
  /\ Deaf => \/ dev.op \in {"read", "write"} /\ dev.left >= 1
             \/ dev.op = "flush" /\ dev.st = "busy"
  /\ dev.st = "drq" => dev.sector \in Sector
  /\ dev.data # Old => /\ dev.st = "busy" /\ dev.op = "write"
                       /\ pc["main"] \in {"poll", "flush", "settle"}
                       /\ call["main"].op = "write" /\ i["main"] >= 1
  /\ (call["main"].op # "write" \/ i["main"] = 0) => \A s \in Sector : disk[s] = Old

Handler == Contexts \ {"main"}
Alone   == \A d \in Handler : pc[d] = "idle"

\* Behind the wait for BSY the drive is not busy until the command, and a
\* drive that listens has the registers written so far.
Loaded(c) ==
  /\ pc[c] \in {"count", "low", "command"} =>
       regs.mode = Mode(call[c].lba) /\ regs.head = Address(call[c].lba).head
  /\ pc[c] \in {"low", "command"} => regs.count = call[c].count
  /\ pc[c] = "command" =>
       regs.lowMode = Mode(call[c].lba) /\ regs.low = Address(call[c].lba).low

Heard(d) ==
  /\ pc[d] \in Selecting => dev.st # "busy" /\ (~Deaf => Loaded(d))
  /\ pc[d] = "data" => dev.st = "drq"

\* A call whose sectors are where they should be on the disk and in the buffer.
Fits(c) == Exact(call[c].lba)

\* The drive is in the transfer of the call, in step with it.
Remaining(c) == call[c].count - i[c]
Seeks(c)  == Fits(c) => \/ dev.sector = call[c].lba + i[c]
                        \/ dev.sector = Nowhere /\ dev.st = "busy"
Filled(c) ==
  Fits(c) => IF advance THEN \A p \in 0 .. i[c] - 1 : buf[c][p] = call[c].lba + p
             ELSE i[c] > 0 => buf[c][0] = call[c].lba + i[c] - 1
InStep(c) == /\ Deaf /\ dev.op = "read" /\ dev.left = Remaining(c)
             /\ Seeks(c) /\ Filled(c)

\* A handler that found the drive idle, by where it is.
Handled(d) ==
  ~mixed[d] =>
    /\ pc[d] = "wait" => ~Pending
    /\ pc[d] \in Selecting => ~Deaf
    /\ pc[d] = "poll" => ~Deaf \/ InStep(d)
    /\ pc[d] = "data" => InStep(d)
    /\ pc[d] = "done" /\ call[d].status = 0 => Filled(d)

\* The drive is in a handler's transfer, and will be idle when it ends.
Foreign == \E d \in Handler : /\ pc[d] \in Moving /\ Deaf /\ dev.op = "read"
                              /\ dev.left = Remaining(d)
Free    == ~Deaf \/ Foreign

\* main's read: a handler may have taken sectors of it, and then it will fail.
Reading == \/ InStep("main")
           \/ Deaf /\ dev.op = "read" /\ dev.left < Remaining("main")

\* main's write: what of it is on the disk; the drive wants the next sector,
\* or still holds the one before it.
Stored(n) ==
  LET w == call["main"]
  IN Fits("main") => \A p \in 0 .. n - 1 : w.lba + p \in Sector /\ disk[w.lba + p] = Sent(p)
Wants == /\ Deaf /\ dev.op = "write" /\ dev.data = Old
         /\ dev.left = Remaining("main") /\ Seeks("main") /\ Stored(i["main"])
Holds == /\ dev.st = "busy" /\ dev.op = "write" /\ dev.data # Old
         /\ i["main"] >= 1 /\ dev.left = Remaining("main") + 1
         /\ Fits("main") => /\ dev.sector = call["main"].lba + i["main"] - 1
                            /\ dev.sector \in Sector /\ dev.data = Sent(i["main"] - 1)
         /\ Stored(i["main"] - 1)
Finished == failed \/ Stored(call["main"].count)

\* Where a call of main is that no handler has disturbed.
Between  == pc["main"] \in {"idle", "wait", "done"} => ~Pending \/ Foreign
Preparing ==
  /\ pc["main"] = "select" => Free
  /\ pc["main"] \in {"count", "low", "command"} => Alone /\ ~Deaf /\ Loaded("main")
OfRead  ==
  call["main"].op = "read" =>
    /\ pc["main"] = "poll" => Reading \/ Free
    /\ pc["main"] = "data" => Alone /\ Reading /\ dev.st = "drq"
    /\ pc["main"] = "done" /\ call["main"].status = 0 => Filled("main")
OfWrite ==
  call["main"].op = "write" =>
    /\ pc["main"] = "poll" => Wants \/ Holds \/ (Free /\ failed)
    /\ pc["main"] = "data" => (Wants /\ dev.st = "drq") \/ (Free /\ failed)
    /\ pc["main"] = "flush" => Holds \/ (Free /\ Finished)
    /\ pc["main"] = "settle" =>
         Holds \/ ((Free \/ (dev.st = "busy" /\ dev.op = "flush")) /\ Finished)
    /\ pc["main"] = "done" /\ call["main"].status = 0 => Finished
Confined ==
  LET w == call["main"]
  IN Fits("main") /\ w.op = "write" =>
       \A s \in Sector : disk[s] # Old => /\ s - w.lba \in 0 .. i["main"] - 1
                                          /\ disk[s] = Sent(s - w.lba)

Undisturbed == ~mixed["main"] => Between /\ Preparing /\ OfRead /\ OfWrite /\ Confined

\* A build that does not move `buf` fills the first place only.
Still == ~advance => \A c \in Contexts : \A p \in Place \ {0} : buf[c][p] = Old

\* Wherever a write of main's goes, disturbed or not: what the drive has of it
\* is one piece from sector a on, and the next sector is where the piece ends.
Engaged  == Deaf /\ dev.op = "write"
Piece(a) ==
  /\ \A s \in Changed : s - a \in 0 .. i["main"] - 1 /\ disk[s] = Sent(s - a)
  /\ Engaged /\ dev.data = Old => dev.sector = a + i["main"]
  /\ Engaged /\ dev.data # Old => /\ dev.sector = a + i["main"] - 1
                                 /\ dev.data = Sent(i["main"] - 1)
Consecutive ==
  call["main"].op = "write" =>
    /\ \E a \in Int : Piece(a)
    /\ pc["main"] = "data" /\ Engaged => dev.st = "drq"

IInv == /\ Types
        /\ \A c \in Contexts : Counted(c)
        /\ Working
        /\ Still /\ Consecutive
        /\ \A d \in Handler : Heard(d) /\ Handled(d)
        /\ Undisturbed

-----------------------------------------------------------------------------
\* What the callers may ask for, and what the buffers have places for.
LEMMA Requested ==
  /\ \A x \in Counts : x \in Nat /\ x >= 1 /\ 0 .. x - 1 \subseteq Place
  /\ \A x \in Place : x \in Nat
  /\ DiskSize \in Nat \ {0} /\ LbaSpace \in Nat \ {0} /\ DiskSize < LbaSpace
  /\ Handler \subseteq {"isr"} /\ "main" \in Contexts
  /\ Old \notin Nat /\ Old \in Int /\ Junk \in Int /\ Nowhere \in Int /\ Nowhere \notin Sector
<1>1. \A x \in Counts : x \in Nat /\ x >= 1
  BY RequestsAssumption DEF Counts
<1>2. /\ \A x \in Place : x \in Nat
      /\ \A x \in Counts : 0 .. x - 1 \subseteq Place
  BY <1>1 DEF Place
<1> QED
  BY <1>1, <1>2, SpaceAssumption DEF Handler, Old, Junk, Nowhere, Sector

\* The registers an address is written to take numbers.
LEMMA AddressTypes ==
  ASSUME capable \in BOOLEAN, NEW lba \in 0 .. LbaSpace - 1
  PROVE  Mode(lba) \in Modes /\ Address(lba).head \in Int
           /\ Address(lba).low \in Int \X Int
<1>1. Mode(lba) \in Modes
  BY DEF Mode, Modes
<1>2. LowSpace \in Nat \ {0} /\ SectMask \in Nat \ {0} /\ Spt \in Nat \ {0} /\ Heads \in Nat \ {0}
      /\ lba \in Int
  BY SpaceAssumption
<1>3. Heads * Spt \in Nat \ {0}
  BY <1>2
<1>4. Chs(lba).head \in Int /\ Chs(lba).low \in Int \X Int
  <2> DEFINE track == Heads * Spt
             sect == (lba % SectMask) + 1
             base == lba + 1 - sect
  <2>1. track \in Nat \ {0} /\ sect \in Int /\ base \in Int
    BY <1>2, <1>3
  <2>2. Chs(lba) = [head |-> (base % track) \div Spt, low |-> <<base \div track, sect>>]
    BY DEF Chs
  <2> HIDE DEF track, sect, base
  <2>3. (base % track) \in Int /\ base \div track \in Int
    BY <2>1
  <2>4. (base % track) \div Spt \in Int
    BY <2>3, <1>2
  <2> QED
    BY <2>1, <2>2, <2>3, <2>4
<1>5. LowPart(lba) \in Int /\ lba \div LowSpace \in Int
  BY <1>2 DEF LowPart
<1> QED
  BY <1>1, <1>4, <1>5 DEF Address

\* A drive that has a call's registers finds the call's sector, where CHS can.
LEMMA Found ==
  ASSUME capable \in BOOLEAN, NEW lba \in 0 .. LbaSpace - 1, Exact(lba),
         regs.mode = Mode(lba), regs.head = Address(lba).head,
         regs.lowMode = Mode(lba), regs.low = Address(lba).low,
         NEW s \in Decode(Mode(lba))
  PROVE  s = lba \/ s = Nowhere
<1>2. LowSpace \in Nat \ {0} /\ SectMask \in Nat \ {0} /\ Spt \in Nat \ {0} /\ Heads \in Nat \ {0}
      /\ lba \in Nat
  BY SpaceAssumption
<1>a. ASSUME Mode(lba) = "lba48" PROVE s = lba
  BY <1>a DEF Decode, Address, LowPart
<1>b. ASSUME Mode(lba) = "lba28" PROVE s = lba
  <2>1. s = (lba \div LowSpace) * LowSpace + (lba % LowSpace)
    BY <1>b DEF Decode, Address, LowPart
  <2>2. lba = (lba \div LowSpace) * LowSpace + (lba % LowSpace)
    BY <1>2
  <2> QED
    BY <2>1, <2>2
<1>c. ASSUME Mode(lba) = "chs" PROVE s = lba \/ s = Nowhere
  <2>1. lba < SectMask
    BY <1>c DEF Exact
  <2>2. lba % SectMask = lba
    BY <2>1, <1>2
  <2>3. Heads * Spt \in Nat \ {0}
    BY <1>2
  <2>4. 0 % (Heads * Spt) = 0 /\ 0 \div (Heads * Spt) = 0 /\ 0 \div Spt = 0
    BY <2>3, <1>2
  <2>5. Chs(lba) = [head |-> 0, low |-> <<0, lba + 1>>]
    <3>1. (lba % SectMask) + 1 = lba + 1 /\ lba + 1 - (lba + 1) = 0
      BY <2>2, <1>2
    <3> QED
      BY <3>1, <2>4 DEF Chs
  <2>6. regs.head = 0 /\ regs.low[1] = 0 /\ regs.low[2] = lba + 1
    BY <2>5, <1>c DEF Address
  <2>7. (0 * Heads + 0) * Spt + (lba + 1) - 1 = lba
    BY <1>2
  <2> QED
    BY <2>6, <2>7, <1>c DEF Decode
<1> QED
  BY <1>a, <1>b, <1>c DEF Mode

-----------------------------------------------------------------------------
\* The types hold at first and after every step.
LEMMA TypesInit == Init => Types
<1> SUFFICES ASSUME Init PROVE Types
  OBVIOUS
<1> DEFINE none == 0
           first == 1
<1> none \in Int /\ none \in Nat /\ first \in Nat /\ first \in Int
  OBVIOUS
<1>1. /\ regs = [mode |-> "chs", head |-> none, lowMode |-> "chs",
                 low |-> <<none, first>>, count |-> first]
      /\ regs.count = 1
  BY DEF Init
<1>2. NoCall = [op |-> "none", lba |-> none, count |-> none, status |-> none]
  BY DEF NoCall
<1>3. dev = [st |-> "idle", op |-> "none", sector |-> none, left |-> none, data |-> Old]
  BY DEF Init, Quiet
<1>4. i = [c \in Contexts |-> none]
  BY DEF Init
<1> HIDE DEF none, first
<1>5. regs \in Registers /\ NoCall \in Calls /\ dev \in Device
  BY <1>1, <1>2, <1>3 DEF Registers, Calls, Device, Modes
<1>6. regs.count \in Counts \cup {1}
  BY <1>1
<1>7. disk \in [Sector -> Int] /\ buf \in [Contexts -> [Place -> Int]]
  BY Requested DEF Init
<1>8. call \in [Contexts -> Calls] /\ i \in [Contexts -> Nat]
  BY <1>4, <1>5 DEF Init
<1>9. /\ pc \in [Contexts -> Pc] /\ mixed \in [Contexts -> BOOLEAN]
      /\ drive \in Drives /\ capable \in BOOLEAN /\ advance \in BOOLEAN
      /\ cached \in BOOLEAN /\ failed \in BOOLEAN /\ synced \in BOOLEAN
  BY DEF Init, Pc
<1> QED
  BY <1>5, <1>6, <1>7, <1>8, <1>9 DEF Types

\* What the drive makes of its registers is a number.
LEMMA DecodeTypes ==
  ASSUME Types, NEW mode \in Modes, NEW s \in Decode(mode)
  PROVE  s \in Int
<1>1. /\ LowSpace \in Int /\ Heads \in Int /\ Spt \in Int /\ regs.head \in Int
      /\ regs.low[1] \in Int /\ regs.low[2] \in Int
  BY SpaceAssumption DEF Types, Registers
<1>2. /\ regs.head * LowSpace + regs.low[1] \in Int
      /\ (regs.low[1] * Heads + regs.head) * Spt + regs.low[2] - 1 \in Int
  BY <1>1
<1> QED
  BY <1>1, <1>2, Requested DEF Decode, Modes, Sector

LEMMA CallTypes ==
  ASSUME Types, NEW r \in Requests, Call(r.by, r.op, r.lba, r.count)
  PROVE  Types'
<1>1. /\ r.by \in Contexts /\ r.op \in {"read", "write"}
      /\ r.lba \in Int /\ r.count \in Nat
  BY RequestsAssumption, SpaceAssumption
<1> DEFINE verdict == Verdict(r.op, r.lba, r.count)
           new == [op |-> r.op, lba |-> r.lba, count |-> r.count, status |-> verdict]
<1>2. verdict \in Int
  BY DEF Verdict
<1>3. call' = [call EXCEPT ![r.by] = new]
  BY DEF Call
<1>5. pc' \in [Contexts -> Pc]
  BY <1>1 DEF Call, Goto, Types, Pc
<1>6. /\ UNCHANGED <<drive, capable, advance, regs, dev, disk, cached, failed, i, buf>>
      /\ synced' \in BOOLEAN
  BY DEF Call, build, media, Types
<1>7. mixed' \in [Contexts -> BOOLEAN]
  BY <1>1 DEF Call, Types, Pending, Deaf
<1> HIDE DEF verdict
<1>4. new \in Calls
  BY <1>1, <1>2 DEF Calls
<1>8. call' \in [Contexts -> Calls]
  BY <1>3, <1>4 DEF Types
<1> QED
  BY <1>5, <1>6, <1>7, <1>8 DEF Types

\* A drive that is doing nothing, and the place of the next sector.
LEMMA QuietTypes == Quiet("idle") \in Device /\ Quiet("failed") \in Device
<1> DEFINE zero == 0
<1>1. zero \in Int /\ zero \in Nat
  OBVIOUS
<1>2. \A st : Quiet(st) = [st |-> st, op |-> "none", sector |-> zero,
                          left |-> zero, data |-> Old]
  BY DEF Quiet
<1> HIDE DEF zero
<1> QED
  BY <1>1, <1>2 DEF Device

LEMMA SlotTypes ==
  ASSUME Types, NEW c \in Contexts, Counted(c), pc[c] = "data"
  PROVE  Slot(c) \in Place
<1>1. i[c] \in Nat /\ call[c].count \in Counts /\ i[c] < call[c].count
  BY DEF Counted, Types, Moving
<1> DEFINE count == call[c].count
<1>2. count \in Nat /\ count >= 1 /\ 0 .. count - 1 \subseteq Place
  BY <1>1, Requested
<1>3. i[c] < count
  BY <1>1
<1> HIDE DEF count
<1>4. i[c] \in 0 .. count - 1 /\ 0 \in 0 .. count - 1
  BY <1>1, <1>2, <1>3
<1> QED
  BY <1>2, <1>4 DEF Slot

\* The steps of a call ...
LEMMA StepTypes ==
  ASSUME Types, \A c \in Contexts : Counted(c), NEW c \in Contexts, Step(c)
  PROVE  Types'
<1> USE DEF Goto, Pc, build, media, local
<1>0. Types /\ c \in Contexts /\ Counted(c)
  OBVIOUS
<1> DEFINE at(p) == /\ pc' = [pc EXCEPT ![c] = p]
                    /\ UNCHANGED <<drive, capable, advance, mixed, cached, disk, failed>>
<1>1. ASSUME NEW p \in Pc, at(p),
             UNCHANGED <<call, i, buf, synced>>, dev' \in Device,
             regs' \in Registers, regs'.count \in Counts \cup {1}
      PROVE  Types'
  BY <1>0, <1>1 DEF Types
<1>2. ASSUME Wait(c) PROVE Types'
  BY <1>0, <1>1, <1>2 DEF Wait, Types
<1>s. pc[c] # "idle" => /\ Mode(call[c].lba) \in Modes
                        /\ Address(call[c].lba).head \in Int
                        /\ Address(call[c].lba).low \in Int \X Int
  BY <1>0, AddressTypes DEF Counted, Types
<1>3. ASSUME Select(c) PROVE Types'
  <2>1. pc[c] = "select"
    BY <1>3 DEF Select, At
  <2>2. regs' \in Registers /\ regs'.count = regs.count
    BY <1>0, <1>3, <1>s, <2>1 DEF Select, Types, Registers
  <2> QED
    BY <1>0, <1>1, <1>3, <2>2 DEF Select, Types
<1>4. ASSUME Count(c) PROVE Types'
  <2>1. pc[c] = "count"
    BY <1>4 DEF Count, At
  <2>2. call[c].count \in Counts /\ call[c].count \in Nat
    BY <1>0, <2>1, Requested DEF Counted
  <2>3. regs' \in Registers /\ regs'.count \in Counts \cup {1}
    BY <1>0, <1>4, <2>2 DEF Count, Sectors, Types, Registers
  <2> QED
    BY <1>0, <1>1, <1>4, <2>3 DEF Count, Types
<1>5. ASSUME Low(c) PROVE Types'
  <2>1. pc[c] = "low"
    BY <1>5 DEF Low, At
  <2>2. regs' \in Registers /\ regs'.count = regs.count
    BY <1>0, <1>5, <1>s, <2>1 DEF Low, Types, Registers
  <2> QED
    BY <1>0, <1>1, <1>5, <2>2 DEF Low, Types
<1>6. ASSUME Command(c) PROVE Types'
  <2>1. pc[c] = "command"
    BY <1>6 DEF Command, At
  <2>2. call[c].op \in {"read", "write"} /\ regs.count \in Nat
    BY <1>0, <2>1 DEF Counted, Types, Registers
  <2>3. \A s \in Decode(Mode(call[c].lba)) : s \in Int
    BY <1>0, <1>s, <2>1, DecodeTypes
  <2>4. dev' \in Device
    BY <1>0, <1>6, <2>2, <2>3 DEF Command, Types, Device
  <2> QED
    BY <1>0, <1>1, <1>6, <2>4 DEF Command, Types
<1>7. ASSUME Spin(c) PROVE Types'
  BY <1>0, <1>7 DEF Spin, Types, vars
<1>8. ASSUME NEW p \in Pc, at(p), NEW status \in Int,
             \/ UNCHANGED call
             \/ call' = [call EXCEPT ![c].status = status]
      PROVE  call' \in [Contexts -> Calls] /\ pc' \in [Contexts -> Pc]
  <2>1. [call[c] EXCEPT !.status = status] \in Calls
    BY <1>0 DEF Types, Calls
  <2> QED
    BY <1>0, <1>8, <2>1 DEF Types
<1>9. ASSUME Poll(c) PROVE Types'
  <2>1. \E p \in Pc, status \in Int :
          at(p) /\ (UNCHANGED call \/ call' = [call EXCEPT ![c].status = status])
    BY <1>9 DEF Poll, Answer, Codes
  <2> QED
    BY <1>0, <1>9, <1>8, <2>1 DEF Poll, Types
<1>10. ASSUME Settle(c) PROVE Types'
  <2> DEFINE zero == 0
  <2>1. zero \in Int /\ at("done") /\ call' = [call EXCEPT ![c].status = zero]
    BY <1>10 DEF Settle, Answer
  <2> HIDE DEF zero
  <2>2. call' \in [Contexts -> Calls] /\ pc' \in [Contexts -> Pc]
    BY <1>8, <2>1
  <2> QED
    BY <1>0, <1>10, <2>2 DEF Settle, Types
<1>11. ASSUME Flush(c) PROVE Types'
  <2>1. dev' \in Device
    <3> DEFINE zero == 0
    <3>1. zero \in Int /\ zero \in Nat
      OBVIOUS
    <3>2. dev' = dev \/ dev' = [st |-> "busy", op |-> "flush", sector |-> zero,
                                left |-> zero, data |-> Old]
      BY <1>11 DEF Flush
    <3> HIDE DEF zero
    <3> QED
      BY <1>0, <3>1, <3>2 DEF Types, Device
  <2> QED
    BY <1>0, <1>1, <1>11, <2>1 DEF Flush, Types
<1>n. i[c] + 1 \in Nat
  BY <1>0 DEF Types
<1>12. ASSUME Send(c) PROVE Types'
  <2>1. pc[c] = "data"
    BY <1>12 DEF Send, At
  <2>2. dev' \in Device
    BY <1>0, <1>12, <2>1, SlotTypes DEF Send, Types, Device
  <2>3. i' \in [Contexts -> Nat]
    BY <1>0, <1>n, <1>12 DEF Send, Types
  <2>4. pc' \in [Contexts -> Pc]
    BY <1>0, <1>12 DEF Send, Types
  <2> QED
    BY <1>0, <1>12, <2>2, <2>3, <2>4 DEF Send, Types
<1>13. ASSUME Receive(c) PROVE Types'
  <2>1. pc[c] = "data"
    BY <1>13 DEF Receive, At
  <2>2. dev' \in Device
    <3>1. dev.sector + 1 \in Int /\ (dev.left > 1 => dev.left - 1 \in Nat)
      BY <1>0 DEF Types, Device
    <3> QED
      BY <1>0, <1>13, <3>1, QuietTypes DEF Receive, Types, Device
  <2>3. i' \in [Contexts -> Nat]
    BY <1>0, <1>n, <1>13 DEF Receive, Types
  <2>4. \E p \in Pc, status \in Int :
          at(p) /\ (UNCHANGED call \/ call' = [call EXCEPT ![c].status = status])
    BY <1>13 DEF Receive, Answer
  <2>5. buf' \in [Contexts -> [Place -> Int]]
    <3>1. \E x \in Int : buf' = [buf EXCEPT ![c] = [buf[c] EXCEPT ![Slot(c)] = x]]
      BY <1>0, <1>13, Requested DEF Receive, Types, Device
    <3>2. PICK x \in Int : buf' = [buf EXCEPT ![c] = [buf[c] EXCEPT ![Slot(c)] = x]]
      BY <3>1
    <3>3. [buf[c] EXCEPT ![Slot(c)] = x] \in [Place -> Int]
      <4> HIDE DEF Slot
      <4> QED
        BY <1>0 DEF Types
    <3> QED
      BY <1>0, <3>2, <3>3 DEF Types
  <2>6. UNCHANGED <<regs, cached, failed, synced>>
    BY <1>13 DEF Receive
  <2> QED
    BY <1>0, <1>8, <2>2, <2>3, <2>4, <2>5, <2>6 DEF Types
<1>14. ASSUME Return(c) PROVE Types'
  <2>1. NoCall \in Calls
    <3> DEFINE zero == 0
    <3>1. zero \in Int /\ zero \in Nat
      OBVIOUS
    <3>2. NoCall = [op |-> "none", lba |-> zero, count |-> zero, status |-> zero]
      BY DEF NoCall
    <3> HIDE DEF zero
    <3> QED
      BY <3>1, <3>2 DEF Calls
  <2>2. call' \in [Contexts -> Calls]
    BY <1>0, <1>14, <2>1 DEF Return, Types
  <2>3. i' \in [Contexts -> Nat]
    <3> DEFINE zero == 0
    <3>1. zero \in Nat
      OBVIOUS
    <3>2. i' = [i EXCEPT ![c] = zero]
      BY <1>14 DEF Return
    <3> HIDE DEF zero
    <3> QED
      BY <1>0, <3>1, <3>2 DEF Types
  <2>4. buf' \in [Contexts -> [Place -> Int]]
    BY <1>0, <1>14, Requested DEF Return, Types
  <2>5. pc' \in [Contexts -> Pc] /\ disk' \in [Sector -> Int]
    BY <1>0, <1>14, Requested DEF Return, Types
  <2>6. mixed' \in [Contexts -> BOOLEAN] /\ failed' \in BOOLEAN
    BY <1>0, <1>14 DEF Return, Types
  <2>7. synced' \in BOOLEAN
    BY <1>0, <1>14 DEF Return, Types
  <2> QED
    BY <1>0, <1>14, <2>2, <2>3, <2>4, <2>5, <2>6, <2>7 DEF Return, Types
<1> QED
  BY <1>2, <1>3, <1>4, <1>5, <1>6, <1>7, <1>9, <1>10, <1>11, <1>12, <1>13, <1>14 DEF Step

\* ... and of the drive.
LEMMA DriveTypes ==
  ASSUME Types, Drive \/ WriteBack \/ UNCHANGED vars
  PROVE  Types'
<1> USE DEF build, media, local
<1>0. Types
  OBVIOUS
<1>1. dev.sector + 1 \in Int /\ (dev.left > 1 => dev.left - 1 \in Nat)
  BY <1>0 DEF Types, Device
<1>2. dev' \in Device
  BY <1>0, <1>1, QuietTypes
     DEF Drive, Ready, Keep, Flushed, Break, WriteBack, vars, Types, Device
<1>3. disk' \in [Sector -> Int]
  <2>1. dev.data \in Int
    <3>1. dev.data \in Place \cup {Old}
      BY <1>0 DEF Types, Device
    <3> QED
      BY <3>1, Requested
  <2> QED
    BY <1>0, <2>1 DEF Drive, Ready, Keep, Flushed, Break, WriteBack, vars, Types
<1>4. cached' \in BOOLEAN /\ failed' \in BOOLEAN
  BY <1>0 DEF Drive, Ready, Keep, Flushed, Break, WriteBack, vars, Types
<1>5. UNCHANGED <<drive, capable, advance, regs, pc, call, i, buf, mixed, synced>>
  BY DEF Drive, Ready, Keep, Flushed, Break, WriteBack, vars
<1> QED
  BY <1>0, <1>2, <1>3, <1>4, <1>5 DEF Types

-----------------------------------------------------------------------------
\* Where a call is tells how far its loop has come.
LEMMA CountedInit == Init => \A c \in Contexts : Counted(c)
<1> SUFFICES ASSUME Init, NEW c \in Contexts PROVE Counted(c)
  OBVIOUS
<1>1. pc[c] = "idle" /\ call[c] = NoCall /\ i[c] = 0 /\ call[c].count = 0
  BY DEF Init, NoCall
<1> QED
  BY <1>1 DEF Counted, Moving

LEMMA CountedStep ==
  ASSUME Types, NEW c \in Contexts, Counted(c), Step(c)
  PROVE  Counted(c)'
<1> USE DEF Goto, At, local, Selecting, Moving
<1>0. /\ pc \in [Contexts -> Pc] /\ i \in [Contexts -> Nat]
      /\ call \in [Contexts -> Calls] /\ call[c] \in Calls
      /\ i[c] \in Nat /\ call[c].count \in Nat
  BY DEF Types, Calls
<1>1. ASSUME Wait(c) \/ Select(c) \/ Count(c) \/ Low(c) PROVE Counted(c)'
  BY <1>0, <1>1 DEF Wait, Select, Count, Low, Counted
<1>2. ASSUME Command(c) PROVE Counted(c)'
  <2>1. call[c].count >= 1 /\ i[c] = 0
    BY <1>0, <1>2, Requested DEF Command, Counted
  <2> QED
    BY <1>0, <1>2, <2>1 DEF Command, Counted
<1>3. ASSUME Spin(c) PROVE Counted(c)'
  BY <1>3 DEF Spin, Counted, vars
\* An answer leaves the call as it was, but for its status.
<1>4. ASSUME NEW status, call' = [call EXCEPT ![c].status = status]
      PROVE  /\ call'[c].op = call[c].op /\ call'[c].lba = call[c].lba
             /\ call'[c].count = call[c].count /\ call'[c].status = status
  BY <1>0, <1>4 DEF Calls
<1>5. ASSUME Poll(c) PROVE Counted(c)'
  <2>1. pc[c] = "poll" /\ i' = i
    BY <1>5 DEF Poll
  <2>2. ASSUME Goto(c, "data"), UNCHANGED call PROVE Counted(c)'
    BY <1>0, <2>1, <2>2 DEF Counted
  <2>3. ASSUME NEW code \in Codes(dev.st), Answer(c, code) PROVE Counted(c)'
    <3>1. code # 0
      BY DEF Codes
    <3>2. pc'[c] = "done"
      BY <1>0, <2>3 DEF Answer
    <3> QED
      BY <1>0, <1>4, <2>1, <2>3, <3>1, <3>2 DEF Answer, Counted
  <2> QED
    BY <1>5, <2>2, <2>3 DEF Poll
<1>6. ASSUME Send(c) \/ Receive(c) PROVE Counted(c)'
  <2>1. pc[c] = "data" /\ i' = [i EXCEPT ![c] = i[c] + 1] /\ i'[c] = i[c] + 1
        /\ i[c] < call[c].count
    BY <1>0, <1>6 DEF Send, Receive, Counted
  <2>2. ASSUME More(c), pc'[c] = "poll", UNCHANGED call PROVE Counted(c)'
    BY <1>0, <2>1, <2>2 DEF More, Counted
  <2>3. ASSUME ~More(c), pc'[c] = "flush", UNCHANGED call, call[c].op = "write"
        PROVE  Counted(c)'
    BY <1>0, <2>1, <2>3 DEF More, Counted
  <2>4. ASSUME ~More(c), Answer(c, 0) PROVE Counted(c)'
    <3>1. pc'[c] = "done"
      BY <1>0, <2>4 DEF Answer
    <3> QED
      BY <1>0, <1>4, <2>1, <2>4, <3>1 DEF More, Answer, Counted
  <2> QED
    BY <1>0, <1>6, <2>2, <2>3, <2>4 DEF Send, Receive
<1>7. ASSUME Flush(c) PROVE Counted(c)'
  BY <1>0, <1>7 DEF Flush, Counted
<1>8. ASSUME Settle(c) PROVE Counted(c)'
  <2>1. pc[c] = "settle" /\ pc'[c] = "done" /\ i' = i
    BY <1>0, <1>8 DEF Settle, Answer
  <2> QED
    BY <1>0, <1>4, <1>8, <2>1 DEF Settle, Answer, Counted
<1>9. ASSUME Return(c) PROVE Counted(c)'
  <2>1. pc'[c] = "idle" /\ call'[c] = NoCall /\ i'[c] = 0 /\ NoCall.count = 0
    BY <1>0, <1>9 DEF Return, NoCall
  <2> QED
    BY <2>1 DEF Counted
<1> QED
  BY <1>1, <1>2, <1>3, <1>5, <1>6, <1>7, <1>8, <1>9 DEF Step

LEMMA CountedCall ==
  ASSUME Types, NEW r \in Requests, Counted(r.by), Call(r.by, r.op, r.lba, r.count)
  PROVE  Counted(r.by)'
<1> DEFINE c == r.by
           verdict == Verdict(r.op, r.lba, r.count)
           new == [op |-> r.op, lba |-> r.lba, count |-> r.count, status |-> verdict]
<1>1. /\ c \in Contexts /\ r.op \in {"read", "write"} /\ r.lba \in 0 .. LbaSpace - 1
      /\ r.count \in Counts /\ (c # "main" => r.op = "read")
  BY RequestsAssumption, SpaceAssumption DEF Counts
<1>2. r.count \in Nat /\ r.count >= 1
  BY <1>1, Requested
<1>3. /\ call'[c] = new /\ i'[c] = 0 /\ pc'[c] \in {"wait", "done"}
      /\ (pc'[c] = "done" => verdict # 0)
  BY <1>1 DEF Call, At, Goto, Types, Counted
<1> HIDE DEF c, verdict
<1>4. Counted(c)'
  BY <1>1, <1>2, <1>3 DEF Counted, Selecting, Moving
<1> QED
  BY <1>4 DEF c

\* What a step of one context leaves of the others'.
LEMMA OthersStand ==
  ASSUME Types, NEW c \in Contexts, Step(c), NEW d \in Contexts \ {c}
  PROVE  /\ pc'[d] = pc[d] /\ i'[d] = i[d] /\ call'[d] = call[d]
         /\ buf'[d] = buf[d] /\ mixed'[d] = mixed[d]
BY DEF Step, Wait, Select, Count, Low, Command, Spin, Poll, Receive, Send, Flush,
       Settle, Return, Answer, Goto, local, vars, Types

LEMMA CountedNext ==
  ASSUME Types, \A c \in Contexts : Counted(c), [Next]_vars
  PROVE  (\A c \in Contexts : Counted(c))'
<1> SUFFICES ASSUME NEW d \in Contexts PROVE Counted(d)'
  OBVIOUS
<1>1. ASSUME pc'[d] = pc[d], i'[d] = i[d], call'[d] = call[d] PROVE Counted(d)'
  BY <1>1 DEF Counted
<1>2. ASSUME NEW c \in Contexts, Step(c) PROVE Counted(d)'
  <2>1. CASE c = d
    BY <1>2, <2>1, CountedStep
  <2>2. CASE c # d
    BY <1>1, <1>2, <2>2, OthersStand
  <2> QED
    BY <2>1, <2>2
<1>3. ASSUME NEW r \in Requests, Call(r.by, r.op, r.lba, r.count) PROVE Counted(d)'
  <2>0. r.by \in Contexts
    BY RequestsAssumption
  <2>1. CASE r.by = d
    BY <1>3, <2>0, <2>1, CountedCall
  <2>2. CASE r.by # d
    <3>1. pc'[d] = pc[d] /\ i'[d] = i[d] /\ call'[d] = call[d]
      BY <1>3, <2>0, <2>2 DEF Call, Goto, Types
    <3> QED
      BY <1>1, <3>1
  <2> QED
    BY <2>1, <2>2
<1>4. ASSUME Drive \/ WriteBack \/ UNCHANGED vars PROVE Counted(d)'
  BY <1>1, <1>4 DEF Drive, Ready, Keep, Flushed, Break, WriteBack, vars, local
<1> QED
  BY <1>2, <1>3, <1>4 DEF Next

-----------------------------------------------------------------------------
\* What the drive works at.
LEMMA WorkingInit == Init => Working
BY DEF Init, Working, Deaf, Quiet

\* A step of a call that leaves the drive alone.
LEMMA WorkingStands ==
  ASSUME Types, Working, UNCHANGED <<dev, disk>>,
         /\ dev.data # Old => pc'["main"] \in {"poll", "flush", "settle"}
         /\ call'["main"].op # "write" => call["main"].op # "write"
         /\ call["main"].op = "write" => call'["main"].op = "write"
         /\ i'["main"] = 0 => i["main"] = 0 \/ call["main"].op # "write"
         /\ i["main"] >= 1 => i'["main"] >= 1
  PROVE  Working'
<1>1. i["main"] \in Nat
  BY Requested DEF Types
<1> QED
  BY <1>1 DEF Working, Deaf

LEMMA WorkingStep ==
  ASSUME Types, NEW c \in Contexts, Counted(c), Counted("main"), Working, Step(c)
  PROVE  Working'
<1> USE DEF Goto, At, local, media, Selecting, Moving
<1>0. /\ pc \in [Contexts -> Pc] /\ i \in [Contexts -> Nat]
      /\ call \in [Contexts -> Calls] /\ call[c] \in Calls
      /\ i[c] \in Nat /\ i["main"] \in Nat /\ "main" \in Contexts /\ dev \in Device
  BY Requested DEF Types, Calls
<1>c. c # "main" => UNCHANGED <<pc["main"], call["main"], i["main"]>>
  BY Requested, OthersStand
<1>1. ASSUME Wait(c) \/ Select(c) \/ Count(c) \/ Low(c) \/ Spin(c) PROVE Working'
  <2>1. UNCHANGED <<dev, disk, call, i>>
    BY <1>1 DEF Wait, Select, Count, Low, Spin, vars
  <2>2. dev.data # Old => pc'["main"] \in {"poll", "flush", "settle"}
    <3>1. CASE Spin(c)
      BY <3>1 DEF Spin, vars, Working
    <3>2. CASE Wait(c) \/ Select(c) \/ Count(c) \/ Low(c)
      BY <1>0, <1>c, <3>2 DEF Wait, Select, Count, Low, Working
    <3> QED
      BY <1>1, <3>1, <3>2
  <2> QED
    BY <2>1, <2>2, WorkingStands
<1>2. ASSUME Command(c) PROVE Working'
  <2>1. /\ UNCHANGED <<disk, call, i>>
        /\ c = "main" => pc["main"] = "command"
        /\ call[c].op \in {"read", "write"}
    BY <1>0, <1>2 DEF Command, Counted
  <2>2. dev.data # Old => pc'["main"] \in {"poll", "flush", "settle"}
    BY <1>0, <1>c, <2>1 DEF Working
  <2>3. CASE Deaf
    BY <1>2, <2>1, <2>2, <2>3, WorkingStands DEF Command
  <2>4. CASE ~Deaf
    <3>1. regs.count \in Nat /\ regs.count >= 1
      BY Requested DEF Types, Registers
    <3>2. /\ dev'.st = "busy" /\ dev'.op \in {"read", "write"} /\ dev'.left >= 1
          /\ dev'.data = Old
      BY <1>2, <2>1, <2>4, <3>1 DEF Command
    <3> QED
      BY <2>1, <3>2 DEF Working, Deaf
  <2> QED
    BY <2>3, <2>4
<1>3. ASSUME Poll(c) \/ Settle(c) PROVE Working'
  <2>1. UNCHANGED <<dev, disk, i>> /\ dev.st # "busy"
    BY <1>3 DEF Poll, PollEnds, Settle
  <2>2. dev.data = Old
    BY <2>1 DEF Working
  <2>3. call'["main"].op = call["main"].op
    BY <1>0, <1>3 DEF Poll, Settle, Answer, Calls
  <2> QED
    BY <2>1, <2>2, <2>3, WorkingStands
<1>4. ASSUME Send(c) PROVE Working'
  <2>1. /\ c = "main" /\ call["main"].op = "write" /\ UNCHANGED <<disk, call>>
        /\ i'["main"] = i["main"] + 1 /\ pc["main"] = "data"
        /\ pc'["main"] \in {"poll", "flush"}
    BY <1>0, <1>4 DEF Send, Counted
  <2>2. dev.data = Old
    BY <2>1 DEF Working
  <2>3. CASE dev.st = "drq" /\ dev.op = "write"
    <3>1. dev'.st = "busy" /\ dev'.op = "write" /\ dev'.left = dev.left
      BY <1>0, <1>4, <2>3 DEF Send, Device
    <3>2. dev.left >= 1 /\ i'["main"] >= 1 /\ i'["main"] # 0
      BY <1>0, <2>1, <2>3 DEF Working, Deaf
    <3> QED
      BY <2>1, <3>1, <3>2 DEF Working, Deaf
  <2>4. CASE ~(dev.st = "drq" /\ dev.op = "write")
    <3>1. UNCHANGED dev /\ i'["main"] # 0 /\ i'["main"] >= 1
      BY <1>0, <1>4, <2>1, <2>4 DEF Send
    <3> QED
      BY <2>1, <2>2, <3>1, WorkingStands
  <2> QED
    BY <2>3, <2>4
<1>5. ASSUME Receive(c) PROVE Working'
  <2>1. /\ UNCHANGED disk /\ call'["main"].op = call["main"].op
        /\ call[c].op = "read" /\ pc[c] = "data"
        /\ i' = [i EXCEPT ![c] = i[c] + 1]
    BY <1>0, <1>5 DEF Receive, Answer, Calls
  <2>2. (call'["main"].op # "write" \/ i'["main"] = 0) =>
          (call["main"].op # "write" \/ i["main"] = 0)
    BY <1>0, <1>c, <2>1
  <2>3. CASE dev.st = "drq" /\ dev.op = "read" /\ dev.left > 1
    <3>1. dev' = [dev EXCEPT !.st = "busy", !.sector = dev.sector + 1, !.left = dev.left - 1]
      BY <1>5, <2>3 DEF Receive
    <3>2. /\ dev'.st = "busy" /\ dev'.op = "read" /\ dev'.left >= 1
          /\ dev'.data = dev.data
      BY <1>0, <2>3, <3>1 DEF Device
    <3>3. dev.data = Old
      BY <2>3 DEF Working
    <3> QED
      BY <2>1, <2>2, <3>2, <3>3 DEF Working, Deaf
  <2>4. CASE dev.st = "drq" /\ dev.op = "read" /\ ~(dev.left > 1)
    <3>1. dev' = Quiet("idle")
      BY <1>5, <2>4 DEF Receive
    <3> QED
      BY <2>1, <2>2, <3>1 DEF Working, Deaf, Quiet
  <2>5. CASE ~(dev.st = "drq" /\ dev.op = "read")
    <3>1. UNCHANGED dev
      BY <1>5, <2>5 DEF Receive
    <3>2. dev.data # Old => /\ c # "main" /\ UNCHANGED <<pc["main"], i["main"]>>
      BY <1>c, <2>1 DEF Working
    <3> QED
      BY <2>1, <2>2, <3>1, <3>2 DEF Working, Deaf
  <2> QED
    BY <2>3, <2>4, <2>5
<1>6. ASSUME Flush(c) PROVE Working'
  <2>1. /\ c = "main" /\ call["main"].op = "write" /\ UNCHANGED <<disk, call, i>>
        /\ pc'["main"] = "settle"
    <3>1. pc[c] = "flush" /\ call[c].op = "write"
      BY <1>6 DEF Flush, Counted
    <3>2. c = "main"
      BY <3>1 DEF Counted
    <3> QED
      BY <1>0, <1>6, <3>1, <3>2 DEF Flush
  <2>2. CASE Deaf
    BY <1>6, <2>1, <2>2, WorkingStands DEF Flush
  <2>3. CASE ~Deaf
    BY <1>6, <2>1, <2>3 DEF Flush, Working, Deaf
  <2> QED
    BY <2>2, <2>3
<1>7. ASSUME Return(c) PROVE Working'
  <2>1. CASE c = "main"
    <3>1. UNCHANGED dev /\ pc["main"] = "done" /\ \A s \in Sector : disk'[s] = Old
      BY <1>7, <2>1 DEF Return
    <3> QED
      BY <3>1 DEF Working, Deaf
  <2>2. CASE c # "main"
    <3>1. UNCHANGED <<dev, disk>>
      BY <1>7, <2>2 DEF Return
    <3> QED
      BY <1>c, <2>2, <3>1 DEF Working, Deaf
  <2> QED
    BY <2>1, <2>2
<1> QED
  BY <1>1, <1>2, <1>3, <1>4, <1>5, <1>6, <1>7 DEF Step

LEMMA WorkingCall ==
  ASSUME Types, NEW r \in Requests, Counted(r.by), Working,
         Call(r.by, r.op, r.lba, r.count)
  PROVE  Working'
<1>1. UNCHANGED <<dev, disk, i>> /\ pc[r.by] = "idle" /\ r.by \in Contexts
  BY RequestsAssumption DEF Call, At, media
<1>2. CASE r.by = "main"
  <2>1. i["main"] = 0 /\ dev.data = Old
    BY <1>1, <1>2 DEF Counted, Working
  <2>2. \A s \in Sector : disk[s] = Old
    BY <2>1 DEF Working
  <2> QED
    BY <1>1, <2>1, <2>2 DEF Working, Deaf
<1>3. CASE r.by # "main"
  <2>1. pc'["main"] = pc["main"] /\ call'["main"] = call["main"]
    BY <1>1, <1>3, Requested DEF Call, Goto, Types
  <2> QED
    BY <1>1, <2>1 DEF Working, Deaf
<1> QED
  BY <1>2, <1>3

LEMMA WorkingDrive ==
  ASSUME Types, Working, Drive \/ WriteBack \/ UNCHANGED vars
  PROVE  Working'
<1>0. /\ dev \in Device /\ dev.left \in Nat
      /\ UNCHANGED <<pc, i, call>>
  BY DEF Types, Device, Drive, Ready, Keep, Flushed, Break, WriteBack, vars, local
<1>1. ASSUME Ready PROVE Working'
  <2>1. /\ dev' = [dev EXCEPT !.st = "drq"] /\ dev.st = "busy" /\ dev.op # "flush"
        /\ dev.data = Old /\ dev.sector \in Sector /\ UNCHANGED disk
    BY <1>1 DEF Ready, media
  <2>2. /\ dev'.st = "drq" /\ dev'.op = dev.op /\ dev'.left = dev.left
        /\ dev'.data = dev.data /\ dev'.sector = dev.sector
    BY <1>0, <2>1 DEF Device
  <2> QED
    BY <1>0, <2>1, <2>2 DEF Working, Deaf
<1>2. ASSUME Keep PROVE Working'
  <2>1. /\ call["main"].op = "write" /\ i["main"] >= 1 /\ i["main"] # 0
    BY <1>2, <1>0, Requested DEF Keep, Working, Types
  <2>2. CASE dev.left > 1
    <3>1. dev' = [dev EXCEPT !.sector = dev.sector + 1, !.left = dev.left - 1, !.data = Old]
          /\ dev.st = "busy" /\ dev.data # Old
      BY <1>2, <2>2 DEF Keep
    <3>2. /\ dev'.st = "busy" /\ dev'.op = dev.op /\ dev'.left >= 1 /\ dev'.data = Old
      BY <1>0, <2>2, <3>1 DEF Device
    <3> QED
      BY <1>0, <2>1, <3>1, <3>2 DEF Working, Deaf
  <2>3. CASE ~(dev.left > 1)
    <3>1. dev' = Quiet("idle")
      BY <1>2, <2>3 DEF Keep
    <3> QED
      BY <1>0, <2>1, <3>1 DEF Working, Deaf, Quiet
  <2> QED
    BY <2>2, <2>3
<1>3. ASSUME Flushed \/ Break PROVE Working'
  BY <1>0, <1>3 DEF Flushed, Break, Working, Deaf, Quiet
<1>4. ASSUME WriteBack \/ UNCHANGED vars PROVE Working'
  BY <1>4 DEF WriteBack, vars, media, local, Working, Deaf
<1> QED
  BY <1>1, <1>2, <1>3, <1>4 DEF Drive

-----------------------------------------------------------------------------
\* A call that does not change is addressed and filled as it was.
LEMMA AddressStands ==
  ASSUME NEW c, UNCHANGED capable, call'[c].lba = call[c].lba
  PROVE  /\ Mode(call[c].lba)' = Mode(call[c].lba)
         /\ Address(call[c].lba)' = Address(call[c].lba)
         /\ Exact(call[c].lba)' = Exact(call[c].lba)
BY DEF Mode, Address, Chs, LowPart, Exact

LEMMA FitsStands ==
  ASSUME NEW c, UNCHANGED <<capable, advance>>, call'[c].lba = call[c].lba,
         call'[c].count = call[c].count
  PROVE  Fits(c)' = Fits(c)
BY AddressStands DEF Fits

LEMMA FilledStands ==
  ASSUME NEW c, UNCHANGED <<capable, advance>>, call'[c].lba = call[c].lba,
         call'[c].count = call[c].count, i'[c] = i[c], buf'[c] = buf[c], Filled(c)
  PROVE  Filled(c)'
BY FitsStands DEF Filled

LEMMA InStepStands ==
  ASSUME NEW c, UNCHANGED <<capable, advance, dev>>, call'[c].lba = call[c].lba,
         call'[c].count = call[c].count, i'[c] = i[c], buf'[c] = buf[c], InStep(c)
  PROVE  InStep(c)'
<1>1. Filled(c)' /\ Fits(c)' = Fits(c)
  BY FilledStands, FitsStands DEF InStep
<1> QED
  BY <1>1 DEF InStep, Deaf, Remaining, Seeks, Nowhere

\* The drive goes on with a transfer it is in, or gives it up.
LEMMA DriveInStep ==
  ASSUME Types, Working, NEW c \in Contexts, InStep(c),
         Drive \/ WriteBack \/ UNCHANGED vars
  PROVE  InStep(c)' \/ ~Deaf'
<1> USE DEF media, local, build
<1>0. /\ UNCHANGED <<capable, advance, pc, call, i, buf>> /\ dev \in Device
      /\ dev.op = "read" /\ dev.data = Old
  BY DEF Drive, Ready, Keep, Flushed, Break, WriteBack, vars, Types, InStep, Working
<1>1. CASE Ready
  <2>1. dev.st = "busy" /\ dev' = [dev EXCEPT !.st = "drq"] /\ dev.sector \in Sector
    BY <1>1 DEF Ready
  <2>2. /\ dev'.st = "drq" /\ dev'.op = "read" /\ dev'.left = dev.left
        /\ dev'.sector = dev.sector
    BY <1>0, <2>1 DEF Device
  <2>3. Fits(c)' = Fits(c) /\ Filled(c)'
    BY <1>0, FitsStands, FilledStands DEF InStep
  <2>4. Seeks(c)'
    BY <1>0, <2>1, <2>2, <2>3, Requested DEF InStep, Seeks
  <2> QED
    BY <1>0, <2>2, <2>3, <2>4 DEF InStep, Deaf, Remaining
<1>2. CASE Break
  BY <1>2 DEF Break, Quiet, Deaf
<1>3. CASE WriteBack \/ UNCHANGED vars
  <2>1. UNCHANGED dev
    BY <1>3 DEF WriteBack, vars
  <2> QED
    BY <1>0, <2>1, InStepStands
<1> QED
  BY <1>0, <1>1, <1>2, <1>3 DEF Drive, Keep, Flushed

\* A sector received from a transfer in step with the call.
LEMMA ReceiveInStep ==
  ASSUME Types, NEW c \in Contexts, Counted(c), InStep(c), dev.st = "drq", Receive(c)
  PROVE  Filled(c)' /\ (IF More(c) THEN InStep(c)' ELSE ~Deaf')
<1>0. /\ i[c] \in Nat /\ call[c] \in Calls /\ call[c].count \in Nat /\ call[c].lba \in Int
      /\ dev \in Device /\ dev.left \in Nat /\ dev.sector \in Int
      /\ buf[c] \in [Place -> Int] /\ pc[c] = "data" /\ i[c] < call[c].count
      /\ call[c].count \in Counts
  BY DEF Types, Calls, Device, Receive, At, Counted, Moving
<1>1. /\ UNCHANGED <<capable, advance>> /\ i'[c] = i[c] + 1
      /\ call'[c].lba = call[c].lba /\ call'[c].count = call[c].count
      /\ buf'[c] = [buf[c] EXCEPT ![Slot(c)] = dev.sector]
      /\ dev' = IF dev.left > 1
                THEN [dev EXCEPT !.st = "busy", !.sector = dev.sector + 1,
                                 !.left = dev.left - 1]
                ELSE Quiet("idle")
  BY DEF Receive, build, Answer, Types, Calls, InStep
<1>2. dev.op = "read" /\ dev.left = call[c].count - i[c]
  BY DEF InStep, Remaining
<1>3. Fits(c)' = Fits(c)
  BY <1>1, FitsStands
<1>4. Fits(c) => dev.sector = call[c].lba + i[c]
  BY DEF InStep, Seeks
<1>5. Slot(c) = IF advance THEN i[c] ELSE 0
  BY DEF Slot
<1>6. i[c] \in Place /\ 0 \in Place
  <2>1. i[c] \in 0 .. call[c].count - 1 /\ 0 \in 0 .. call[c].count - 1
    BY <1>0
  <2> QED
    BY <1>0, <2>1, Requested
<1>7. Filled(c)'
  <2>0. SUFFICES ASSUME Fits(c)
                 PROVE  IF advance
                        THEN \A p \in 0 .. i'[c] - 1 : buf'[c][p] = call'[c].lba + p
                        ELSE i'[c] > 0 => buf'[c][0] = call'[c].lba + i'[c] - 1
    BY <1>1, <1>3 DEF Filled
  <2>1. ASSUME advance, NEW p \in 0 .. i'[c] - 1 PROVE buf'[c][p] = call'[c].lba + p
    <3>0. buf'[c] = [buf[c] EXCEPT ![i[c]] = dev.sector]
      BY <1>1, <1>5, <2>1
    <3>1. CASE p = i[c]
      BY <1>0, <1>1, <1>4, <1>6, <2>0, <3>0, <3>1
    <3>2. CASE p # i[c]
      <4>1. p \in 0 .. i[c] - 1
        BY <1>0, <1>1, <3>2
      <4>2. buf[c][p] = call[c].lba + p
        BY <2>0, <2>1, <4>1 DEF InStep, Filled
      <4>3. p \in Place
        <5>1. p \in 0 .. call[c].count - 1
          BY <1>0, <4>1
        <5> QED
          BY <1>0, <5>1, Requested
      <4>4. buf'[c][p] = buf[c][p]
        BY <1>0, <3>0, <3>2, <4>3
      <4> QED
        BY <1>1, <4>2, <4>4
    <3> QED
      BY <3>1, <3>2
  <2>2. ASSUME ~advance PROVE buf'[c][0] = call'[c].lba + i'[c] - 1
    <3>1. buf'[c][0] = dev.sector
      BY <1>0, <1>1, <1>5, <1>6, <2>2
    <3> QED
      BY <1>0, <1>1, <1>4, <2>0, <3>1
  <2> QED
    BY <2>1, <2>2
<1>8. ASSUME More(c) PROVE InStep(c)'
  <2>1. dev.left > 1
    BY <1>0, <1>2, <1>8 DEF More
  <2>2. /\ dev'.st = "busy" /\ dev'.op = "read" /\ dev'.left = dev.left - 1
        /\ dev'.sector = dev.sector + 1
    BY <1>0, <1>1, <1>2, <2>1 DEF Device
  <2>3. dev'.left = call'[c].count - i'[c]
    BY <1>0, <1>1, <1>2, <2>2
  <2>4. Seeks(c)'
    BY <1>0, <1>1, <1>3, <1>4, <2>2 DEF Seeks
  <2> QED
    BY <1>7, <2>2, <2>3, <2>4 DEF InStep, Deaf, Remaining
<1>9. ASSUME ~More(c) PROVE ~Deaf'
  <2>1. ~(dev.left > 1)
    BY <1>0, <1>2, <1>9 DEF More
  <2> QED
    BY <1>1, <2>1 DEF Quiet, Deaf
<1> QED
  BY <1>7, <1>8, <1>9

\* A command that the drive hears with the call's registers starts its transfer.
LEMMA CommandHeard ==
  ASSUME Types, NEW c \in Contexts, Counted(c), Loaded(c), ~Deaf, Command(c)
  PROVE  /\ dev'.st = "busy" /\ dev'.op = call[c].op /\ dev'.left = Remaining(c)'
         /\ dev'.data = Old /\ i'[c] = 0 /\ Seeks(c)'
<1>0. /\ pc[c] = "command" /\ i[c] = 0 /\ call[c].lba \in 0 .. LbaSpace - 1
      /\ UNCHANGED <<capable, advance, call, i>> /\ call[c].count \in Nat
      /\ capable \in BOOLEAN /\ call[c].lba \in Int
  BY DEF Command, At, Counted, local, build, Selecting, Types, Calls
<1>1. PICK s \in Decode(Mode(call[c].lba)) :
        dev' = [st |-> "busy", op |-> call[c].op, sector |-> s, left |-> regs.count,
                data |-> Old]
  BY DEF Command
<1>2. regs.count = call[c].count
  BY <1>0 DEF Loaded
<1>3. Exact(call[c].lba) => s = call[c].lba \/ s = Nowhere
  BY <1>0, Found DEF Loaded
<1>4. Fits(c)' = Fits(c)
  BY <1>0, FitsStands
<1>5. Seeks(c)'
  BY <1>0, <1>1, <1>3, <1>4 DEF Seeks, Fits, Nowhere
<1> QED
  BY <1>0, <1>1, <1>2, <1>5 DEF Remaining

-----------------------------------------------------------------------------
\* A handler that starts with the drive idle has it to itself.
LEMMA HandlerStep ==
  ASSUME Types, Working, NEW d \in Handler, Counted(d), Heard(d), Handled(d), Step(d)
  PROVE  Heard(d)' /\ Handled(d)'
<1> USE DEF Goto, At, local, build, media, Selecting
<1>0. /\ d \in Contexts /\ d # "main" /\ pc \in [Contexts -> Pc]
      /\ call \in [Contexts -> Calls] /\ call[d] \in Calls /\ call[d].op \in {"none", "read"}
      /\ mixed \in [Contexts -> BOOLEAN] /\ UNCHANGED <<capable, advance>>
      /\ i[d] \in Nat
  <2>1. UNCHANGED <<capable, advance>>
    BY DEF Step, Wait, Select, Count, Low, Command, Spin, Poll, Receive, Send, Flush,
           Settle, Return, vars
  <2>2. call[d].op \in {"none", "read"}
    BY DEF Handler, Counted, NoCall
  <2> QED
    BY <2>1, <2>2 DEF Types, Handler
<1>1. ASSUME Wait(d) PROVE Heard(d)' /\ Handled(d)'
  <2>1. /\ pc[d] = "wait" /\ pc'[d] = "select" /\ dev.st # "busy"
        /\ UNCHANGED <<dev, mixed>>
    BY <1>0, <1>1 DEF Wait
  <2>2. ~mixed[d] => ~Deaf
    BY <2>1 DEF Handled, Pending, Working, Deaf
  <2> QED
    BY <2>1, <2>2 DEF Heard, Handled, Loaded, Deaf
<1>a. call'[d].lba = call[d].lba =>
        /\ Mode(call[d].lba)' = Mode(call[d].lba)
        /\ Address(call[d].lba)' = Address(call[d].lba)
  BY <1>0, AddressStands
<1>2. ASSUME Select(d) PROVE Heard(d)' /\ Handled(d)'
  <2>1. /\ pc[d] = "select" /\ pc'[d] = "count" /\ UNCHANGED <<dev, mixed, call>>
    BY <1>0, <1>2 DEF Select
  <2>2. ~Deaf => regs'.mode = Mode(call[d].lba) /\ regs'.head = Address(call[d].lba).head
    BY <1>2 DEF Select, Types, Registers
  <2> QED
    BY <1>a, <2>1, <2>2 DEF Heard, Handled, Loaded, Deaf
<1>3. ASSUME Count(d) PROVE Heard(d)' /\ Handled(d)'
  <2>1. /\ pc[d] = "count" /\ pc'[d] = "low" /\ UNCHANGED <<dev, mixed, call>>
    BY <1>0, <1>3 DEF Count
  <2>2. ~Deaf => /\ regs'.count = call[d].count
                 /\ regs'.mode = regs.mode /\ regs'.head = regs.head
    BY <1>3 DEF Count, Sectors, Types, Registers
  <2> QED
    BY <1>a, <2>1, <2>2 DEF Heard, Handled, Loaded, Deaf
<1>4. ASSUME Low(d) PROVE Heard(d)' /\ Handled(d)'
  <2>1. /\ pc[d] = "low" /\ pc'[d] = "command" /\ UNCHANGED <<dev, mixed, call>>
    BY <1>0, <1>4 DEF Low
  <2>2. ~Deaf => /\ regs'.lowMode = Mode(call[d].lba) /\ regs'.low = Address(call[d].lba).low
                 /\ regs'.mode = regs.mode /\ regs'.head = regs.head
                 /\ regs'.count = regs.count
    BY <1>4 DEF Low, Types, Registers
  <2> QED
    BY <1>a, <2>1, <2>2 DEF Heard, Handled, Loaded, Deaf
<1>5. ASSUME Command(d) PROVE Heard(d)' /\ Handled(d)'
  <2>1. /\ pc[d] = "command" /\ pc'[d] = "poll" /\ UNCHANGED mixed
    BY <1>0, <1>5 DEF Command
  <2>2. ASSUME ~mixed[d] PROVE InStep(d)'
    <3>1. ~Deaf /\ Loaded(d)
      BY <2>1, <2>2 DEF Heard, Handled
    <3>2. call[d].op = "read"
      BY <1>0, <2>1 DEF Counted
    <3>3. dev'.st = "busy" /\ dev'.op = "read" /\ dev'.left = Remaining(d)'
          /\ i'[d] = 0 /\ Seeks(d)'
      BY <1>0, <1>5, <3>1, <3>2, CommandHeard
    <3>4. Filled(d)'
      BY <3>3 DEF Filled
    <3> QED
      BY <3>3, <3>4 DEF InStep, Deaf
  <2> QED
    BY <2>1, <2>2 DEF Heard, Handled
<1>6. ASSUME Spin(d) PROVE Heard(d)' /\ Handled(d)'
  <2>1. UNCHANGED <<capable, advance, dev, pc, i, call, buf, mixed>> /\ pc[d] = "poll"
    BY <1>6 DEF Spin, vars
  <2>2. InStep(d) => InStep(d)'
    BY <2>1, InStepStands
  <2> QED
    BY <2>1, <2>2 DEF Heard, Handled, Deaf
<1>7. ASSUME Poll(d) PROVE Heard(d)' /\ Handled(d)'
  <2>1. pc[d] = "poll" /\ UNCHANGED <<dev, i, buf, mixed>> /\ dev.st # "busy"
    BY <1>7 DEF Poll, PollEnds
  <2>2. CASE dev.st = "drq"
    <3>1. pc'[d] = "data" /\ UNCHANGED call
      BY <1>0, <1>7, <2>2 DEF Poll
    <3>2. ~mixed[d] => InStep(d)
      BY <2>1, <2>2 DEF Handled, Deaf
    <3>3. InStep(d) => InStep(d)'
      BY <1>0, <2>1, <3>1, InStepStands
    <3> QED
      BY <2>1, <2>2, <3>1, <3>2, <3>3 DEF Heard, Handled
  <2>3. CASE dev.st # "drq"
    <3>1. PICK code \in Codes(dev.st) : Answer(d, code)
      BY <1>0, <1>7, <2>1, <2>3 DEF Poll, Ignores, Counted
    <3>2. code # 0 /\ pc'[d] = "done" /\ call'[d].status = code
      BY <1>0, <3>1 DEF Answer, Codes, Calls
    <3> QED
      BY <3>2 DEF Heard, Handled
  <2> QED
    BY <2>2, <2>3
<1>8. ASSUME Receive(d) PROVE Heard(d)' /\ Handled(d)'
  <2>1. pc[d] = "data" /\ UNCHANGED mixed /\ dev.st = "drq"
    BY <1>8 DEF Receive, Heard
  <2>2. ~mixed[d] => Filled(d)' /\ (IF More(d) THEN InStep(d)' ELSE ~Deaf')
    BY <1>0, <1>8, <2>1, ReceiveInStep DEF Handled
  <2>3. pc'[d] = IF More(d) THEN "poll" ELSE "done"
    BY <1>0, <1>8 DEF Receive, Answer
  <2> QED
    BY <2>1, <2>2, <2>3 DEF Heard, Handled
<1>9. ~Send(d) /\ ~Flush(d) /\ ~Settle(d)
  BY <1>0 DEF Send, Flush, Settle, Counted
<1>10. ASSUME Return(d) PROVE Heard(d)' /\ Handled(d)'
  <2>1. pc'[d] = "idle"
    BY <1>0, <1>10 DEF Return
  <2> QED
    BY <2>1 DEF Heard, Handled
<1> QED
  BY <1>1, <1>2, <1>3, <1>4, <1>5, <1>6, <1>7, <1>8, <1>9, <1>10 DEF Step

LEMMA HandlerIdle ==
  ASSUME NEW d, pc'[d] = "idle"
  PROVE  Heard(d)' /\ Handled(d)'
BY DEF Heard, Handled, Selecting

LEMMA HandlerCall ==
  ASSUME Types, NEW r \in Requests, Call(r.by, r.op, r.lba, r.count),
         NEW d \in Handler, Counted(d), Heard(d), Handled(d)
  PROVE  Heard(d)' /\ Handled(d)'
<1>1. r.by \in Contexts /\ d \in Contexts /\ d = "isr" /\ "main" \in Contexts
  BY RequestsAssumption, SpaceAssumption DEF Handler
<1>2. CASE r.by = "main"
  <2>1. pc'[d] = "idle"
    BY <1>1, <1>2 DEF Call, At, Running, Goto, Types
  <2> QED
    BY <2>1, HandlerIdle
<1>3. CASE r.by = "isr"
  <2>1. UNCHANGED dev /\ mixed'["isr"] = Pending
    BY <1>1, <1>3 DEF Call, Types
  <2>2. /\ pc'["isr"] \in {"wait", "done"}
        /\ call'["isr"].status # 0 \/ pc'["isr"] = "wait"
    <3> DEFINE verdict == Verdict(r.op, r.lba, r.count)
               new == [op |-> r.op, lba |-> r.lba, count |-> r.count, status |-> verdict]
    <3>1. call' = [call EXCEPT !["isr"] = new]
          /\ pc' = [pc EXCEPT !["isr"] = IF verdict = 0 THEN "wait" ELSE "done"]
      BY <1>3 DEF Call, Goto
    <3> HIDE DEF verdict
    <3> QED
      BY <1>1, <3>1 DEF Types
  <2> QED
    BY <1>1, <2>1, <2>2 DEF Heard, Handled, Selecting, Pending, Deaf
<1> QED
  BY <1>1, <1>2, <1>3, SpaceAssumption

\* The drive asks for no data of its own accord.
LEMMA QuietStays ==
  ASSUME Working, ~Pending, Drive \/ WriteBack \/ UNCHANGED vars
  PROVE  ~Pending'
<1>1. CASE Ready
  BY <1>1 DEF Ready, Pending, Deaf
<1>2. CASE Keep
  <2>1. dev.st = "busy" /\ dev.data # Old
    BY <1>2 DEF Keep
  <2>2. dev.left = 1
    BY <2>1 DEF Pending, Deaf, Working
  <2>3. dev' = Quiet("idle")
    BY <1>2, <2>2 DEF Keep
  <2> QED
    BY <2>3 DEF Pending, Deaf, Quiet
<1>3. CASE Flushed \/ Break
  BY <1>3 DEF Flushed, Break, Pending, Deaf, Quiet
<1>4. CASE WriteBack \/ UNCHANGED vars
  BY <1>4 DEF WriteBack, vars, Pending, Deaf
<1> QED
  BY <1>1, <1>2, <1>3, <1>4 DEF Drive

LEMMA HandlerDrive ==
  ASSUME Types, Working, NEW d \in Handler, Counted(d), Heard(d), Handled(d),
         Drive \/ WriteBack \/ UNCHANGED vars
  PROVE  Heard(d)' /\ Handled(d)'
<1> USE DEF media, local, build
<1>0. /\ UNCHANGED <<capable, advance, pc, call, i, buf, mixed, regs>> /\ dev \in Device
      /\ d \in Contexts
  BY DEF Drive, Ready, Keep, Flushed, Break, WriteBack, vars, Types, Handler
<1>a. /\ Mode(call[d].lba)' = Mode(call[d].lba)
      /\ Address(call[d].lba)' = Address(call[d].lba)
  BY <1>0, AddressStands
<1>b. dev.st # "busy" => UNCHANGED dev
  BY DEF Drive, Ready, Keep, Flushed, Break, WriteBack, vars
<1>1. Heard(d)'
  BY <1>0, <1>a, <1>b DEF Heard, Loaded, Deaf
<1>2. ~mixed[d] /\ pc[d] = "wait" => ~Pending'
  BY QuietStays DEF Handled
<1>3. ~mixed[d] /\ pc[d] \in Selecting => ~Deaf'
  BY <1>b DEF Handled, Deaf
<1>4. ~mixed[d] /\ pc[d] = "poll" => ~Deaf' \/ InStep(d)'
  <2>1. InStep(d) => ~Deaf' \/ InStep(d)'
    BY <1>0, DriveInStep
  <2>2. ~Deaf => ~Deaf'
    BY <1>b DEF Deaf
  <2> QED
    BY <2>1, <2>2 DEF Handled
<1>5. ~mixed[d] /\ pc[d] = "data" => InStep(d)'
  <2>1. pc[d] = "data" => UNCHANGED dev
    BY <1>b DEF Heard
  <2> QED
    BY <1>0, <2>1, InStepStands DEF Handled
<1>6. ~mixed[d] /\ pc[d] = "done" /\ call[d].status = 0 => Filled(d)'
  BY <1>0, FilledStands DEF Handled
<1> QED
  BY <1>0, <1>1, <1>2, <1>3, <1>4, <1>5, <1>6 DEF Handled

LEMMA HandlersNext ==
  ASSUME Types, \A c \in Contexts : Counted(c), Working,
         \A d \in Handler : Heard(d) /\ Handled(d), [Next]_vars
  PROVE  (\A d \in Handler : Heard(d) /\ Handled(d))'
<1> SUFFICES ASSUME NEW d \in Handler PROVE Heard(d)' /\ Handled(d)'
  BY DEF Handler
<1>0. d \in Contexts /\ d # "main"
  BY DEF Handler
<1>1. ASSUME NEW c \in Contexts, Step(c) PROVE Heard(d)' /\ Handled(d)'
  <2>1. CASE c = d
    BY <1>0, <1>1, <2>1, HandlerStep
  <2>2. CASE c # d
    <3>1. c = "main"
      BY <1>0, <2>2, Requested DEF Handler
    <3>2. pc[d] = "idle"
      BY <1>0, <1>1, <3>1 DEF Step, Wait, Select, Count, Low, Command, Spin, Poll,
         Receive, Send, Flush, Settle, Return, At, Running
    <3>3. pc'[d] = "idle"
      BY <1>0, <1>1, <2>2, <3>2, OthersStand
    <3> QED
      BY <3>3, HandlerIdle
  <2> QED
    BY <2>1, <2>2
<1>2. ASSUME NEW r \in Requests, Call(r.by, r.op, r.lba, r.count)
      PROVE  Heard(d)' /\ Handled(d)'
  BY <1>0, <1>2, HandlerCall
<1>3. ASSUME Drive \/ WriteBack \/ UNCHANGED vars PROVE Heard(d)' /\ Handled(d)'
  BY <1>0, <1>3, HandlerDrive
<1> QED
  BY <1>1, <1>2, <1>3 DEF Next

-----------------------------------------------------------------------------
\* What stands of main's call while it and the disk do.
LEMMA MainStands ==
  ASSUME UNCHANGED <<capable, advance, disk, failed>>, i'["main"] = i["main"],
         call'["main"] = call["main"], buf'["main"] = buf["main"]
  PROVE  /\ Filled("main")' = Filled("main") /\ Finished' = Finished
         /\ Confined' = Confined
         /\ UNCHANGED dev => /\ Reading' = Reading /\ Wants' = Wants /\ Holds' = Holds
<1>1. Fits("main")' = Fits("main")
  BY FitsStands
<1>2. Filled("main")' = Filled("main") /\ Finished' = Finished /\ Confined' = Confined
  BY <1>1 DEF Filled, Finished, Stored, Confined, Sent
<1>3. UNCHANGED dev => Reading' = Reading
  BY <1>1, <1>2 DEF Reading, InStep, Seeks, Nowhere, Remaining, Deaf
<1>4. UNCHANGED dev => Wants' = Wants /\ Holds' = Holds
  BY <1>1 DEF Wants, Holds, Seeks, Stored, Nowhere, Remaining, Deaf, Sent
<1> QED
  BY <1>2, <1>3, <1>4

\* main moves only when no handler does.
LEMMA MainAlone ==
  ASSUME Types, Running("main"), \A d \in Handler : pc'[d] = pc[d]
  PROVE  Alone /\ Alone' /\ ~Foreign /\ ~Foreign'
BY DEF Running, Alone, Foreign, Handler, Moving

LEMMA StepMainAlone ==
  ASSUME Types, Step("main")
  PROVE  /\ Alone /\ Alone' /\ ~Foreign /\ ~Foreign'
         /\ UNCHANGED <<capable, advance, mixed["main"]>>
<1>1. \/ Running("main") /\ (\A d \in Handler : pc'[d] = pc[d])
      \/ Spin("main")
  BY OthersStand, Requested
     DEF Step, Wait, Select, Count, Low, Command, Poll, Receive, Send, Flush, Settle,
         Return, At, Handler
<1>2. Spin("main") => Running("main") /\ (\A d \in Handler : pc'[d] = pc[d])
  BY DEF Spin, At, vars
<1>3. UNCHANGED <<capable, advance, mixed["main"]>>
  BY DEF Step, Wait, Select, Count, Low, Command, Spin, Poll, Receive, Send, Flush,
         Settle, Return, build, vars
<1> QED
  BY <1>1, <1>2, <1>3, MainAlone

\* A step of main's call that no handler has disturbed.
LEMMA UndisturbedMain ==
  ASSUME Types, Counted("main"), Working, Undisturbed, Step("main")
  PROVE  Undisturbed'
<1> USE DEF Goto, At, local, build, media
<1> SUFFICES ASSUME ~mixed["main"]
             PROVE  Between' /\ Preparing' /\ OfRead' /\ OfWrite' /\ Confined'
  BY StepMainAlone DEF Undisturbed
<1> DEFINE Goal == Between' /\ Preparing' /\ OfRead' /\ OfWrite' /\ Confined'
           op == call["main"].op
<1>0. /\ "main" \in Contexts /\ pc \in [Contexts -> Pc] /\ i \in [Contexts -> Nat]
      /\ call \in [Contexts -> Calls] /\ call["main"] \in Calls
      /\ i["main"] \in Nat /\ call["main"].count \in Nat /\ call["main"].lba \in Int
      /\ UNCHANGED <<capable, advance>> /\ dev \in Device
      /\ Alone /\ Alone' /\ (Free <=> ~Deaf) /\ (Free' <=> ~Deaf')
  BY Requested, StepMainAlone DEF Types, Calls, Free
<1>1. Between /\ Preparing /\ OfRead /\ OfWrite /\ Confined
  BY DEF Undisturbed
<1>2. ~Deaf' => Between'
  BY DEF Between, Pending, Deaf
<1>3. ASSUME UNCHANGED <<disk, failed, i, buf>>, call'["main"] = call["main"]
      PROVE  /\ Filled("main")' = Filled("main") /\ Finished' = Finished /\ Confined'
             /\ UNCHANGED dev => /\ Reading' = Reading /\ Wants' = Wants
                                /\ Holds' = Holds
  BY <1>0, <1>1, <1>3, MainStands
<1>4. ASSUME Wait("main") PROVE Goal
  <2>1. /\ pc["main"] = "wait" /\ pc'["main"] = "select" /\ dev.st # "busy"
        /\ UNCHANGED <<dev, disk, failed, call, i, buf>>
    BY <1>0, <1>4 DEF Wait
  <2>2. ~Deaf'
    BY <1>0, <1>1, <2>1 DEF Between, Pending, Deaf, Working, Free
  <2> QED
    BY <1>0, <1>2, <1>3, <2>1, <2>2 DEF Preparing, OfRead, OfWrite
<1>5. ASSUME Select("main") PROVE Goal
  <2>1. /\ pc["main"] = "select" /\ pc'["main"] = "count"
        /\ UNCHANGED <<dev, disk, failed, call, i, buf>>
    BY <1>0, <1>5 DEF Select
  <2>2. ~Deaf /\ ~Deaf'
    BY <1>0, <1>1, <2>1 DEF Preparing, Deaf
  <2>3. regs'.mode = Mode(call["main"].lba) /\ regs'.head = Address(call["main"].lba).head
    BY <1>5, <2>2 DEF Select, Types, Registers
  <2>4. Loaded("main")'
    BY <1>0, <2>1, <2>3, AddressStands DEF Loaded
  <2> QED
    BY <1>0, <1>2, <1>3, <2>1, <2>2, <2>4 DEF Preparing, OfRead, OfWrite
<1>6. ASSUME Count("main") PROVE Goal
  <2>1. /\ pc["main"] = "count" /\ pc'["main"] = "low"
        /\ UNCHANGED <<dev, disk, failed, call, i, buf>>
    BY <1>0, <1>6 DEF Count
  <2>2. ~Deaf /\ ~Deaf' /\ Loaded("main")
    BY <1>0, <1>1, <2>1 DEF Preparing, Deaf
  <2>3. /\ regs'.mode = regs.mode /\ regs'.head = regs.head
        /\ regs'.count = call["main"].count
    BY <1>6, <2>2 DEF Count, Sectors, Types, Registers
  <2>4. Loaded("main")'
    BY <1>0, <2>1, <2>2, <2>3, AddressStands DEF Loaded
  <2> QED
    BY <1>0, <1>2, <1>3, <2>1, <2>2, <2>4 DEF Preparing, OfRead, OfWrite
<1>7. ASSUME Low("main") PROVE Goal
  <2>1. /\ pc["main"] = "low" /\ pc'["main"] = "command"
        /\ UNCHANGED <<dev, disk, failed, call, i, buf>>
    BY <1>0, <1>7 DEF Low
  <2>2. ~Deaf /\ ~Deaf' /\ Loaded("main")
    BY <1>0, <1>1, <2>1 DEF Preparing, Deaf
  <2>3. /\ regs'.mode = regs.mode /\ regs'.head = regs.head /\ regs'.count = regs.count
        /\ regs'.lowMode = Mode(call["main"].lba) /\ regs'.low = Address(call["main"].lba).low
    BY <1>7, <2>2 DEF Low, Types, Registers
  <2>4. Loaded("main")'
    BY <1>0, <2>1, <2>2, <2>3, AddressStands DEF Loaded
  <2> QED
    BY <1>0, <1>2, <1>3, <2>1, <2>2, <2>4 DEF Preparing, OfRead, OfWrite
<1>8. ASSUME Command("main") PROVE Goal
  <2>1. /\ pc["main"] = "command" /\ pc'["main"] = "poll"
        /\ UNCHANGED <<disk, failed, call, i, buf>>
    BY <1>0, <1>8 DEF Command
  <2>2. ~Deaf /\ Loaded("main")
    BY <1>1, <2>1 DEF Preparing
  <2>3. /\ dev'.st = "busy" /\ dev'.op = op /\ dev'.left = Remaining("main")'
        /\ dev'.data = Old /\ i'["main"] = 0 /\ Seeks("main")'
    BY <1>0, <1>8, <2>2, CommandHeard
  <2>4. op = "read" => InStep("main")'
    BY <2>3 DEF InStep, Deaf, Filled
  <2>5. op = "write" => Wants'
    BY <2>3 DEF Wants, Deaf, Stored
  <2> QED
    BY <1>3, <2>1, <2>4, <2>5 DEF Between, Preparing, OfRead, OfWrite, Reading
<1>9. ASSUME Spin("main") PROVE Goal
  <2>1. UNCHANGED <<dev, disk, failed, call, i, buf, pc>> /\ pc["main"] = "poll"
    BY <1>9 DEF Spin, vars
  <2> QED
    BY <1>0, <1>1, <1>3, <2>1 DEF Between, Preparing, OfRead, OfWrite, Deaf
<1>10. ASSUME Poll("main") PROVE Goal
  <2>1. /\ pc["main"] = "poll" /\ UNCHANGED <<dev, disk, failed, i, buf>>
        /\ dev.st # "busy" /\ op \in {"read", "write"}
    BY <1>10 DEF Poll, PollEnds, Counted
  <2>2. CASE op = "write" \/ dev.st = "drq"
    <3>1. pc'["main"] = "data" /\ UNCHANGED call
      BY <1>0, <1>10, <2>2 DEF Poll, Ignores
    <3>2. op = "read" => Reading /\ dev.st = "drq"
      BY <1>0, <1>1, <2>1, <2>2 DEF OfRead, Deaf
    <3>3. op = "write" => (Wants /\ dev.st = "drq") \/ (~Deaf /\ failed)
      BY <1>0, <1>1, <2>1 DEF OfWrite, Holds, Wants, Deaf
    <3> QED
      BY <1>0, <1>3, <2>1, <3>1, <3>2, <3>3
         DEF Between, Preparing, OfRead, OfWrite, Deaf
  <2>3. CASE op = "read" /\ dev.st # "drq"
    <3>1. PICK code \in Codes(dev.st) : Answer("main", code)
      BY <1>10, <2>3 DEF Poll, Ignores
    <3>2. code # 0 /\ pc'["main"] = "done" /\ call'["main"] = [call["main"] EXCEPT !.status = code]
      BY <1>0, <3>1 DEF Answer, Codes
    <3>3. /\ call'["main"].status # 0 /\ call'["main"].op = "read"
      BY <1>0, <2>3, <3>2 DEF Calls
    <3>4. ~Deaf'
      BY <2>1, <2>3 DEF Deaf
    <3> QED
      BY <1>2, <3>2, <3>3, <3>4 DEF Preparing, OfRead, OfWrite, Confined
  <2> QED
    BY <2>1, <2>2, <2>3
<1>11. ASSUME Receive("main") PROVE Goal
  <2>1. /\ pc["main"] = "data" /\ op = "read" /\ Reading /\ dev.st = "drq"
        /\ UNCHANGED <<disk, failed>> /\ dev.op = "read" /\ dev.left >= 1
        /\ i' = [i EXCEPT !["main"] = i["main"] + 1] /\ i["main"] < call["main"].count
    BY <1>1, <1>11 DEF Receive, OfRead, Reading, InStep, Working, Counted, Moving
  <2>2. /\ call'["main"].op = "read" /\ call'["main"].count = call["main"].count
        /\ pc'["main"] = IF More("main") THEN "poll" ELSE "done"
    BY <1>0, <1>11, <2>1 DEF Receive, Answer, Calls
  <2>3. CASE InStep("main")
    <3>1. Filled("main")' /\ (IF More("main") THEN InStep("main")' ELSE ~Deaf')
      BY <1>0, <1>11, <2>1, <2>3, ReceiveInStep
    <3> QED
      BY <1>2, <2>2, <3>1 DEF Between, Preparing, OfRead, OfWrite, Confined, Reading
  <2>4. CASE dev.left < Remaining("main")
    <3>0. dev.left \in Nat /\ i'["main"] = i["main"] + 1
      BY <1>0, <2>1 DEF Device
    <3>1. More("main")
      BY <1>0, <2>1, <2>4, <3>0 DEF More, Remaining
    <3>2. Reading' \/ ~Deaf'
      <4>1. CASE dev.left > 1
        <5>1. dev' = [dev EXCEPT !.st = "busy", !.sector = dev.sector + 1,
                                 !.left = dev.left - 1]
          BY <1>11, <2>1, <4>1 DEF Receive
        <5>2. dev'.st = "busy" /\ dev'.op = "read" /\ dev'.left = dev.left - 1
          BY <1>0, <2>1, <5>1 DEF Device
        <5>3. dev'.left < Remaining("main")'
          BY <1>0, <2>2, <2>4, <3>0, <5>2 DEF Remaining
        <5> QED
          BY <5>2, <5>3 DEF Reading, Deaf
      <4>2. CASE ~(dev.left > 1)
        <5>1. dev' = Quiet("idle")
          BY <1>11, <2>1, <4>2 DEF Receive
        <5> QED
          BY <5>1 DEF Deaf, Quiet
      <4> QED
        BY <4>1, <4>2
    <3> QED
      BY <1>0, <2>2, <3>1, <3>2 DEF Between, Preparing, OfRead, OfWrite, Confined
  <2> QED
    BY <2>1, <2>3, <2>4 DEF Reading
<1>12. ASSUME Send("main") PROVE Goal
  <2>1. /\ pc["main"] = "data" /\ op = "write" /\ UNCHANGED <<disk, failed, call>>
        /\ i'["main"] = i["main"] + 1 /\ i["main"] < call["main"].count
        /\ pc'["main"] = (IF More("main") THEN "poll" ELSE "flush")
    BY <1>0, <1>12 DEF Send, Counted, Moving
  <2>2. Fits("main")' = Fits("main")
    BY <1>0, <2>1, FitsStands
  <2>3. Confined'
    <3> SUFFICES ASSUME Fits("main"), NEW s \in Sector, disk[s] # Old
                 PROVE  /\ s - call["main"].lba \in 0 .. i'["main"] - 1
                        /\ disk[s] = Sent(s - call["main"].lba)
      BY <1>0, <2>1, <2>2 DEF Confined, Sent
    <3>1. /\ s - call["main"].lba \in 0 .. i["main"] - 1
          /\ disk[s] = Sent(s - call["main"].lba)
      BY <1>1, <2>1 DEF Confined
    <3> QED
      BY <1>0, <2>1, <3>1
  <2>4. CASE Wants /\ dev.st = "drq"
    <3>1. /\ dev.op = "write" /\ dev.left = Remaining("main") /\ dev.sector \in Sector
          /\ dev.left \in Nat /\ dev.sector \in Int
      BY <1>0, <2>4 DEF Wants, Working, Device
    <3>2. Slot("main") \in Place /\ Slot("main") # Old
      <4>1. Slot("main") \in Place
        BY <1>0, <2>1, SlotTypes
      <4> QED
        BY <4>1, Requested
    <3>3. dev' = [dev EXCEPT !.st = "busy", !.data = Slot("main")]
      BY <1>12, <2>4, <3>1 DEF Send
    <3>4. /\ dev'.st = "busy" /\ dev'.op = "write" /\ dev'.data = Slot("main")
          /\ dev'.left = dev.left /\ dev'.sector = dev.sector
      BY <1>0, <3>1, <3>3 DEF Device
    <3>5. dev'.left = Remaining("main")' + 1 /\ i'["main"] >= 1 /\ i'["main"] - 1 = i["main"]
      BY <1>0, <2>1, <3>1, <3>4 DEF Remaining
    <3>6. /\ Fits("main") => dev.sector = call["main"].lba + i["main"]
          /\ Slot("main") = Sent(i["main"])
      BY <1>0, <2>1, <2>4, <3>1 DEF Wants, Seeks, Slot, Sent, Nowhere
    <3>7. Stored(i["main"] - 1)'
      BY <1>0, <2>1, <2>2, <2>4, <3>5 DEF Wants, Stored, Sent
    <3>8. Fits("main") => /\ dev'.sector = call'["main"].lba + i'["main"] - 1
                          /\ dev'.sector \in Sector /\ dev'.data = Sent(i["main"] - 1)'
      BY <1>0, <2>1, <3>1, <3>4, <3>5, <3>6 DEF Sent
    <3>9. Holds'
      BY <2>2, <3>2, <3>4, <3>5, <3>7, <3>8 DEF Holds
    <3> QED
      BY <1>0, <2>1, <2>3, <3>9 DEF Between, Preparing, OfRead, OfWrite
  <2>5. CASE ~Deaf /\ failed
    <3>1. ~Deaf' /\ failed'
      BY <1>12, <2>1, <2>5 DEF Send, Deaf
    <3> QED
      BY <1>0, <2>1, <2>3, <3>1 DEF Between, Preparing, OfRead, OfWrite, Finished
  <2> QED
    BY <1>0, <1>1, <2>1, <2>4, <2>5 DEF OfWrite
<1>13. ASSUME Flush("main") PROVE Goal
  <2>1. /\ pc["main"] = "flush" /\ op = "write" /\ UNCHANGED <<disk, failed, call, i, buf>>
        /\ pc'["main"] = "settle"
    BY <1>0, <1>13 DEF Flush, Counted
  <2>2. CASE Holds
    <3>1. UNCHANGED dev
      BY <1>13, <2>2 DEF Flush, Holds, Deaf
    <3> QED
      BY <1>3, <2>1, <2>2, <3>1 DEF Between, Preparing, OfRead, OfWrite
  <2>3. CASE ~Deaf /\ Finished
    <3>1. dev'.st = "busy" /\ dev'.op = "flush"
      BY <1>13, <2>3 DEF Flush
    <3> QED
      BY <1>3, <2>1, <2>3, <3>1 DEF Between, Preparing, OfRead, OfWrite
  <2> QED
    BY <1>0, <1>1, <2>1, <2>2, <2>3 DEF OfWrite
<1>14. ASSUME Settle("main") PROVE Goal
  <2>1. /\ pc["main"] = "settle" /\ op = "write" /\ UNCHANGED <<dev, disk, failed, i, buf>>
        /\ pc'["main"] = "done" /\ dev.st # "busy"
    BY <1>0, <1>14 DEF Settle, Answer, Counted
  <2>2. /\ call'["main"].op = "write" /\ call'["main"].lba = call["main"].lba
        /\ call'["main"].count = call["main"].count
    BY <1>0, <1>14, <2>1 DEF Settle, Answer, Calls
  <2>3. ~Deaf /\ Finished
    BY <1>0, <1>1, <2>1 DEF OfWrite, Holds
  <2>4. Fits("main")' = Fits("main")
    BY <1>0, <2>2, FitsStands
  <2>5. ~Deaf' /\ Finished' /\ Confined'
    BY <1>0, <1>1, <2>1, <2>2, <2>3, <2>4 DEF Deaf, Finished, Stored, Confined, Sent
  <2> QED
    BY <1>0, <1>2, <2>1, <2>2, <2>5 DEF Preparing, OfRead, OfWrite
<1>15. ASSUME Return("main") PROVE Goal
  <2>1. /\ pc["main"] = "done" /\ pc'["main"] = "idle" /\ UNCHANGED dev
        /\ call'["main"].op = "none"
    BY <1>0, <1>15 DEF Return, NoCall
  <2>2. ~Pending'
    BY <1>0, <1>1, <2>1, StepMainAlone DEF Between, Pending, Deaf
  <2> QED
    BY <2>1, <2>2 DEF Between, Preparing, OfRead, OfWrite, Confined
<1> QED
  BY <1>4, <1>5, <1>6, <1>7, <1>8, <1>9, <1>10, <1>11, <1>12, <1>13, <1>14, <1>15
     DEF Step

\* A handler leaves main's transfer alone, or main's read short of sectors.
LEMMA FreeStays ==
  ASSUME Types, NEW d \in Handler, Counted(d), Heard(d), Working, Step(d), Free
  PROVE  Free'
<1> USE DEF Goto, At, local, build, Moving, Selecting
<1>0. /\ d \in Contexts /\ d # "main" /\ Handler = {d} /\ pc \in [Contexts -> Pc]
      /\ call \in [Contexts -> Calls] /\ call[d] \in Calls /\ call[d].count \in Nat
      /\ i[d] \in Nat /\ dev \in Device /\ dev.left \in Nat
  BY Requested DEF Types, Handler, Calls, Device
<1>1. ASSUME UNCHANGED dev, pc[d] \notin Moving PROVE Free'
  BY <1>0, <1>1 DEF Free, Foreign, Deaf
<1>2. ASSUME Wait(d) \/ Select(d) \/ Count(d) \/ Low(d) \/ Flush(d) \/ Settle(d) \/ Return(d)
      PROVE  Free'
  <2>1. pc[d] \notin Moving
    BY <1>2 DEF Wait, Select, Count, Low, Flush, Settle, Return
  <2>2. ~Flush(d)
    BY <1>0 DEF Flush, Counted
  <2> QED
    BY <1>1, <1>2, <2>1, <2>2 DEF Wait, Select, Count, Low, Settle, Return
<1>3. ASSUME Command(d) PROVE Free'
  <2>1. pc[d] = "command" /\ pc'[d] = "poll" /\ call[d].op = "read"
    BY <1>0, <1>3 DEF Command, Counted
  <2>2. ~Deaf
    BY <1>0, <2>1 DEF Free, Foreign
  <2>3. Loaded(d)
    BY <2>1, <2>2 DEF Heard
  <2>4. dev'.st = "busy" /\ dev'.op = "read" /\ dev'.left = Remaining(d)'
    BY <1>0, <1>3, <2>1, <2>2, <2>3, CommandHeard
  <2> QED
    BY <2>1, <2>4 DEF Free, Foreign, Deaf
<1>4. ASSUME Spin(d) PROVE Free'
  BY <1>4 DEF Spin, vars, Free, Foreign, Deaf, Remaining
<1>5. ASSUME Poll(d) PROVE Free'
  <2>1. UNCHANGED <<dev, i>> /\ dev.st # "busy" /\ pc[d] = "poll" /\ call[d].op = "read"
    BY <1>0, <1>5 DEF Poll, PollEnds, Counted
  <2>2. CASE dev.st = "drq"
    <3>1. pc'[d] = "data" /\ UNCHANGED call
      BY <1>0, <1>5, <2>2 DEF Poll
    <3> QED
      BY <1>0, <2>1, <3>1 DEF Free, Foreign, Deaf, Remaining
  <2>3. CASE dev.st # "drq"
    BY <2>1, <2>3 DEF Free, Deaf
  <2> QED
    BY <2>2, <2>3
<1>6. ASSUME Receive(d) PROVE Free'
  <2>1. /\ pc[d] = "data" /\ dev.st = "drq" /\ i[d] < call[d].count
        /\ i'[d] = i[d] + 1 /\ call'[d].count = call[d].count
        /\ pc'[d] = IF More(d) THEN "poll" ELSE "done"
    BY <1>0, <1>6 DEF Receive, Heard, Counted, Answer, Types, Calls
  <2>2. dev.op = "read" /\ dev.left = call[d].count - i[d]
    BY <1>0, <2>1 DEF Free, Foreign, Deaf, Remaining
  <2>3. CASE More(d)
    <3>1. dev.left > 1
      BY <1>0, <2>1, <2>2, <2>3 DEF More
    <3>2. dev' = [dev EXCEPT !.st = "busy", !.sector = dev.sector + 1,
                             !.left = dev.left - 1]
      BY <1>6, <2>1, <2>2, <3>1 DEF Receive
    <3>3. dev'.st = "busy" /\ dev'.op = "read" /\ dev'.left = dev.left - 1
      BY <1>0, <2>2, <3>2 DEF Device
    <3>4. dev'.left = Remaining(d)'
      BY <1>0, <2>1, <2>2, <3>3 DEF Remaining
    <3> QED
      BY <2>1, <2>3, <3>3, <3>4 DEF Free, Foreign, Deaf
  <2>4. CASE ~More(d)
    <3>1. ~(dev.left > 1)
      BY <1>0, <2>1, <2>2, <2>4 DEF More
    <3>2. dev' = Quiet("idle")
      BY <1>6, <2>1, <2>2, <3>1 DEF Receive
    <3> QED
      BY <3>2 DEF Free, Deaf, Quiet
  <2> QED
    BY <2>3, <2>4
<1>7. ~Send(d)
  BY <1>0 DEF Send, Counted
<1> QED
  BY <1>2, <1>3, <1>4, <1>5, <1>6, <1>7 DEF Step

LEMMA HandlerLeaves ==
  ASSUME Types, NEW d \in Handler, Counted(d), Working, Step(d)
  PROVE  /\ Deaf => UNCHANGED dev \/ (dev.op = "read" /\ Receive(d) /\ dev.st = "drq")
         /\ UNCHANGED <<capable, advance, disk, failed>>
         /\ i'["main"] = i["main"] /\ call'["main"] = call["main"]
         /\ buf'["main"] = buf["main"] /\ pc'["main"] = pc["main"]
         /\ mixed'["main"] = mixed["main"] /\ ~Alone
<1>0. d \in Contexts /\ d # "main" /\ pc[d] # "flush" /\ call[d].op # "write" /\ "main" \in Contexts
  BY Requested DEF Handler, Counted, NoCall
<1>1. /\ i'["main"] = i["main"] /\ call'["main"] = call["main"]
      /\ buf'["main"] = buf["main"] /\ pc'["main"] = pc["main"]
      /\ mixed'["main"] = mixed["main"]
  BY <1>0, OthersStand
<1>2. pc[d] # "idle"
  BY DEF Step, Wait, Select, Count, Low, Command, Spin, Poll, Receive, Send, Flush,
         Settle, Return, At
<1>3. UNCHANGED <<capable, advance, disk, failed>>
  BY <1>0 DEF Step, Wait, Select, Count, Low, Command, Spin, Poll, Receive, Send, Flush,
         Settle, Return, build, media, vars
<1>4. Deaf => UNCHANGED dev \/ (dev.op = "read" /\ Receive(d) /\ dev.st = "drq")
  <2>1. ~Send(d) /\ ~Flush(d)
    BY <1>0 DEF Send, Flush, At
  <2> QED
    BY <2>1 DEF Step, Wait, Select, Count, Low, Command, Spin, Poll, Receive, Settle,
         Return, vars
<1> QED
  BY <1>1, <1>2, <1>3, <1>4 DEF Alone

\* What a step of anyone else must keep for main's call to stay undisturbed.
OthersKeep ==
  LET op == call["main"].op
  IN /\ UNCHANGED <<capable, advance, i["main"], call["main"], buf["main"], pc["main"]>>
     /\ Alone /\ dev.st # "busy" /\ pc["main"] \in Exposed(op) =>
          Alone' /\ UNCHANGED <<dev, regs>>
     /\ ~Pending \/ Foreign => ~Pending' \/ Foreign'
     /\ Free => Free' /\ UNCHANGED disk
     /\ failed => failed'
     /\ Reading => Reading' \/ Free'
     /\ Wants => Wants' \/ (Free' /\ failed')
     /\ Wants /\ dev.st = "drq" => UNCHANGED <<dev, disk>>
     /\ Holds =>
          \/ Holds'
          \/ Free' /\ failed'
          \/ Wants' /\ i["main"] < call["main"].count
          \/ Free' /\ Finished' /\ i["main"] = call["main"].count
     /\ dev.st = "busy" /\ dev.op = "flush" => UNCHANGED disk /\ (UNCHANGED dev \/ Free')
     /\ pc["main"] = "done" => UNCHANGED disk
     /\ Confined'

LEMMA UndisturbedOthers ==
  ASSUME Types, Counted("main"), Working, Undisturbed, OthersKeep, ~mixed["main"]
  PROVE  Between' /\ Preparing' /\ OfRead' /\ OfWrite' /\ Confined'
<1> DEFINE op == call["main"].op
           at == pc["main"]
<1>0. Between /\ Preparing /\ OfRead /\ OfWrite
  BY DEF Undisturbed
<1>n. i["main"] \in Nat /\ call["main"].count \in Nat
  BY Requested DEF Types, Calls
<1>1. UNCHANGED <<capable, advance, i["main"], call["main"], buf["main"], pc["main"]>>
      /\ Confined'
  BY DEF OthersKeep
<1>2. Fits("main")' = Fits("main") /\ Filled("main")' = Filled("main")
  BY <1>1, FitsStands DEF Filled
<1>3. Between'
  BY <1>0, <1>1 DEF Between, OthersKeep
<1>4. Preparing'
  <2>1. at = "select" => Free'
    BY <1>0 DEF Preparing, OthersKeep
  <2>2. ASSUME at \in {"count", "low", "command"} PROVE Alone' /\ ~Deaf' /\ Loaded("main")'
    <3>1. Alone /\ ~Deaf /\ Loaded("main")
      BY <1>0, <2>2 DEF Preparing
    <3>2. Alone' /\ UNCHANGED <<dev, regs>>
      BY <2>2, <3>1 DEF OthersKeep, Exposed, Deaf
    <3>3. Loaded("main")'
      BY <1>1, <3>1, <3>2, AddressStands DEF Loaded
    <3> QED
      BY <3>1, <3>2, <3>3 DEF Deaf
  <2> QED
    BY <1>1, <2>1, <2>2 DEF Preparing
<1>5. OfRead'
  <2>1. op = "read" /\ at = "poll" => Reading' \/ Free'
    BY <1>0 DEF OfRead, OthersKeep
  <2>2. ASSUME op = "read", at = "data" PROVE Alone' /\ Reading' /\ dev'.st = "drq"
    <3>1. Alone /\ Reading /\ dev.st = "drq"
      BY <1>0, <2>2 DEF OfRead
    <3>2. Alone' /\ UNCHANGED dev
      BY <2>2, <3>1 DEF OthersKeep, Exposed
    <3>3. Reading'
      <4>1. Remaining("main")' = Remaining("main") /\ Seeks("main")' = Seeks("main")
        BY <1>1, <1>2, <3>2 DEF Remaining, Seeks, Nowhere
      <4> QED
        BY <1>2, <3>1, <3>2, <4>1 DEF Reading, InStep, Deaf
    <3> QED
      BY <3>1, <3>2, <3>3
  <2> QED
    BY <1>0, <1>1, <1>2, <2>1, <2>2 DEF OfRead
<1>6. OfWrite'
  <2> SUFFICES ASSUME op = "write" PROVE OfWrite'
    BY <1>1 DEF OfWrite
  <2>1. UNCHANGED disk /\ Finished => Finished'
    BY <1>1, <1>2 DEF Finished, Stored, OthersKeep, Sent
  <2>2. at = "poll" => Wants' \/ Holds' \/ (Free' /\ failed')
    <3>1. at = "poll" => i["main"] # call["main"].count
      BY <1>n DEF Counted, Moving
    <3>2. at = "poll" => Wants \/ Holds \/ (Free /\ failed)
      BY <1>0 DEF OfWrite
    <3> QED
      BY <3>1, <3>2 DEF OthersKeep
  <2>3. at = "data" => (Wants' /\ dev'.st = "drq") \/ (Free' /\ failed')
    <3>1. at = "data" => (Wants /\ dev.st = "drq") \/ (Free /\ failed)
      BY <1>0 DEF OfWrite
    <3>2. Wants /\ dev.st = "drq" => Wants'
      <4> SUFFICES ASSUME Wants, dev.st = "drq" PROVE Wants'
        OBVIOUS
      <4>1. UNCHANGED <<dev, disk>>
        BY DEF OthersKeep
      <4>2. /\ Remaining("main")' = Remaining("main") /\ Seeks("main")' = Seeks("main")
            /\ Stored(i["main"])' = Stored(i["main"])
        BY <1>1, <1>2, <4>1 DEF Remaining, Seeks, Nowhere, Stored, Sent
      <4> QED
        BY <4>1, <4>2 DEF Wants, Deaf
    <3>3. Wants /\ dev.st = "drq" => UNCHANGED dev
      BY DEF OthersKeep
    <3>4. Free /\ failed => Free' /\ failed'
      BY DEF OthersKeep
    <3> QED
      BY <3>1, <3>2, <3>3, <3>4
  <2>4. ASSUME at \in {"flush", "settle"}, Holds PROVE Holds' \/ (Free' /\ Finished')
    <3>1. ~(i["main"] < call["main"].count)
      BY <1>n, <2>4 DEF Counted
    <3>2. failed' => Finished'
      BY DEF Finished
    <3> QED
      BY <2>4, <3>1, <3>2 DEF OthersKeep
  <2>5. failed => failed'
    BY DEF OthersKeep
  <2>6. Free /\ Finished => Free' /\ Finished'
    BY <2>1, <2>5 DEF OthersKeep
  <2>7. dev.st = "busy" /\ dev.op = "flush" /\ Finished =>
          (Free' \/ (dev'.st = "busy" /\ dev'.op = "flush")) /\ Finished'
    BY <2>1, <2>5 DEF OthersKeep
  <2>8. at = "done" /\ Finished => Finished'
    BY <2>1, <2>5 DEF OthersKeep
  <2> QED
    BY <1>0, <1>1, <2>2, <2>3, <2>4, <2>6, <2>7, <2>8 DEF OfWrite
<1> QED
  BY <1>1, <1>3, <1>4, <1>5, <1>6

LEMMA UndisturbedHandler ==
  ASSUME Types, Counted("main"), Working, Undisturbed,
         NEW d \in Handler, Counted(d), Heard(d), Step(d)
  PROVE  Undisturbed'
<1> SUFFICES ASSUME ~mixed["main"] PROVE OthersKeep
  BY HandlerLeaves, UndisturbedOthers DEF Undisturbed
<1> DEFINE op == call["main"].op
<1>1. /\ Deaf => UNCHANGED dev \/ (dev.op = "read" /\ Receive(d) /\ dev.st = "drq")
      /\ UNCHANGED <<capable, advance, disk, failed, i["main"], call["main"],
                     buf["main"], pc["main"]>>
      /\ ~Alone
  BY HandlerLeaves
<1>2. /\ Filled("main")' = Filled("main") /\ Finished' = Finished /\ Confined' = Confined
      /\ UNCHANGED dev => /\ Reading' = Reading /\ Wants' = Wants /\ Holds' = Holds
  BY <1>1, MainStands
<1>3. Free => Free'
  BY FreeStays
<1>4. ~Pending \/ Foreign => ~Pending' \/ Foreign'
  <2>1. CASE Free
    BY <1>3, <2>1 DEF Free, Pending
  <2>2. CASE ~Pending /\ Deaf
    <3>1. dev.op # "read"
      BY <2>2 DEF Pending, Working, Deaf
    <3> QED
      BY <1>1, <2>2, <3>1 DEF Pending, Deaf
  <2> QED
    BY <2>1, <2>2 DEF Free
<1>5. Reading => Reading' \/ Free'
  <2> SUFFICES ASSUME Reading, ~UNCHANGED dev PROVE Reading' \/ Free'
    BY <1>2
  <2>0. /\ dev \in Device /\ dev.left \in Nat /\ call["main"].count \in Nat
        /\ i["main"] \in Nat /\ Deaf
    BY Requested DEF Types, Device, Calls, Reading, InStep
  <2>1. dev.st = "drq" /\ dev.op = "read" /\ Receive(d) /\ dev.left <= Remaining("main")
    BY <1>1, <2>0 DEF Reading, InStep, Remaining
  <2>2. CASE dev.left > 1
    <3>1. dev' = [dev EXCEPT !.st = "busy", !.sector = dev.sector + 1,
                             !.left = dev.left - 1]
      BY <2>1, <2>2 DEF Receive
    <3>2. dev'.st = "busy" /\ dev'.op = "read" /\ dev'.left = dev.left - 1
      BY <2>0, <2>1, <3>1 DEF Device
    <3>3. dev'.left < Remaining("main")'
      BY <1>1, <2>0, <2>1, <3>2 DEF Remaining
    <3> QED
      BY <3>2, <3>3 DEF Reading, Deaf
  <2>3. CASE ~(dev.left > 1)
    <3>1. dev' = Quiet("idle")
      BY <2>1, <2>3 DEF Receive
    <3> QED
      BY <3>1 DEF Free, Deaf, Quiet
  <2> QED
    BY <2>2, <2>3
<1>6. Wants \/ Holds => UNCHANGED dev
  BY <1>1 DEF Wants, Holds, Deaf
<1>7. dev.st = "busy" => UNCHANGED dev
  BY <1>1 DEF Deaf
<1>8. Confined
  BY DEF Undisturbed
<1> QED
  BY <1>1, <1>2, <1>3, <1>4, <1>5, <1>6, <1>7, <1>8 DEF OthersKeep

LEMMA UndisturbedCall ==
  ASSUME Types, Counted("main"), Working, Undisturbed,
         NEW r \in Requests, Counted(r.by), Call(r.by, r.op, r.lba, r.count)
  PROVE  Undisturbed'
<1>0. /\ r.by \in {"main", "isr"} /\ r.by \in Contexts /\ "main" \in Contexts
      /\ UNCHANGED <<capable, advance, regs, dev, disk, failed, i, buf>>
      /\ pc[r.by] = "idle" /\ pc \in [Contexts -> Pc] /\ call \in [Contexts -> Calls]
      /\ mixed \in [Contexts -> BOOLEAN]
  BY RequestsAssumption, SpaceAssumption DEF Call, At, build, media, Types
<1>1. CASE r.by = "main"
  <2> DEFINE verdict == Verdict(r.op, r.lba, r.count)
             new == [op |-> r.op, lba |-> r.lba, count |-> r.count, status |-> verdict]
  <2>1. /\ mixed'["main"] = Pending /\ call'["main"] = new
        /\ pc'["main"] = (IF verdict = 0 THEN "wait" ELSE "done")
    BY <1>0, <1>1 DEF Call, Goto
  <2>2. i["main"] = 0 /\ \A s \in Sector : disk'[s] = Old
    BY <1>0, <1>1 DEF Counted, Working
  <2> HIDE DEF verdict
  <2>3. ~mixed'["main"] => Between'
    BY <1>0, <2>1 DEF Between, Pending, Deaf
  <2>4. Preparing' /\ OfRead' /\ OfWrite' /\ Confined'
    BY <2>1, <2>2 DEF Preparing, OfRead, OfWrite, Confined
  <2> QED
    BY <2>3, <2>4 DEF Undisturbed
<1>2. CASE r.by = "isr"
  <2>1. /\ pc'["main"] = pc["main"] /\ call'["main"] = call["main"]
        /\ mixed'["main"] = (mixed["main"] \/ pc["main"] \in Exposed(call["main"].op))
    <3>1. mixed' = [mixed EXCEPT !["main"] = mixed["main"] \/ pc["main"] \in Exposed(call["main"].op),
                                 !["isr"] = Pending]
      BY <1>0, <1>2 DEF Call
    <3>2. mixed'["main"] = (mixed["main"] \/ pc["main"] \in Exposed(call["main"].op))
      BY <1>0, <3>1
    <3> QED
      BY <1>0, <1>2, <3>2 DEF Call, Goto
  <2> SUFFICES ASSUME ~mixed["main"], pc["main"] \notin Exposed(call["main"].op)
               PROVE  OthersKeep
    BY <1>0, <2>1, UndisturbedOthers DEF Undisturbed
  <2>2. /\ Finished' = Finished /\ Confined' = Confined
        /\ Reading' = Reading /\ Wants' = Wants /\ Holds' = Holds
    BY <1>0, <2>1, MainStands
  <2>3. Deaf' = Deaf /\ Pending' = Pending /\ ~Foreign
    BY <1>0, <1>2, Requested DEF Pending, Deaf, Foreign, Moving
  <2>4. Free => Free'
    BY <2>3 DEF Free
  <2>5. Confined
    BY DEF Undisturbed
  <2> QED
    BY <1>0, <2>1, <2>2, <2>3, <2>4, <2>5 DEF OthersKeep
<1> QED
  BY <1>0, <1>1, <1>2

\* The drive stores the sector it holds, and wants the next one or is done.
LEMMA KeepHolds ==
  ASSUME Types, Counted("main"), Working, Undisturbed, ~mixed["main"], Keep
  PROVE  /\ Holds /\ Confined'
         /\ \/ Wants' /\ i["main"] < call["main"].count
            \/ ~Deaf' /\ Finished' /\ i["main"] = call["main"].count
<1> USE DEF local, build, Sent
<1>0. /\ UNCHANGED <<capable, advance, failed, i, call, pc>> /\ i["main"] \in Nat
      /\ call["main"].count \in Nat /\ call["main"].lba \in Int /\ dev \in Device
      /\ dev.left \in Nat /\ dev.sector \in Int /\ disk \in [Sector -> Int]
  BY Requested DEF Types, Calls, Device, Keep
<1>1. /\ dev.st = "busy" /\ dev.data # Old /\ disk' = [disk EXCEPT ![dev.sector] = dev.data]
      /\ dev' = IF dev.left > 1
                THEN [dev EXCEPT !.sector = dev.sector + 1, !.left = dev.left - 1,
                                 !.data = Old]
                ELSE Quiet("idle")
  BY DEF Keep
<1>2. /\ pc["main"] \in {"poll", "flush", "settle"} /\ call["main"].op = "write"
      /\ dev.op = "write"
  BY <1>1 DEF Working
<1>3. Holds
  <2>1. ~Wants /\ ~Free
    BY <1>1, <1>2 DEF Wants, Free, Foreign, Deaf
  <2> QED
    BY <1>2, <2>1 DEF Undisturbed, OfWrite
<1>4. Fits("main")' = Fits("main")
  BY <1>0, FitsStands
<1>5. Fits("main") => /\ dev.sector = call["main"].lba + i["main"] - 1
                      /\ dev.sector \in Sector /\ dev.data = Sent(i["main"] - 1)
  BY <1>3 DEF Holds
<1>6. i["main"] >= 1 /\ dev.left = call["main"].count - i["main"] + 1
  BY <1>3 DEF Holds, Remaining
<1>7. Fits("main") => \A s \in Sector :
        disk'[s] = IF s = call["main"].lba + i["main"] - 1 THEN Sent(i["main"] - 1) ELSE disk[s]
  BY <1>0, <1>1, <1>5
<1>8. Confined'
  <2> SUFFICES ASSUME Fits("main"), NEW s \in Sector, disk'[s] # Old
               PROVE  /\ s - call["main"].lba \in 0 .. i["main"] - 1
                      /\ disk'[s] = Sent(s - call["main"].lba)
    BY <1>0, <1>4 DEF Confined
  <2>0. s \in Int
    BY DEF Sector
  <2>1. CASE s = call["main"].lba + i["main"] - 1
    BY <1>0, <1>6, <1>7, <2>1
  <2>2. CASE s # call["main"].lba + i["main"] - 1
    <3>1. disk'[s] = disk[s]
      BY <1>7, <2>2
    <3> QED
      BY <1>2, <3>1 DEF Undisturbed, Confined
  <2> QED
    BY <2>1, <2>2
<1>9. Stored(i["main"])'
  <2> SUFFICES ASSUME Fits("main"), NEW p \in 0 .. i["main"] - 1
               PROVE  /\ call["main"].lba + p \in Sector
                      /\ disk'[call["main"].lba + p] = Sent(p)
    BY <1>0, <1>4 DEF Stored
  <2>1. CASE p = i["main"] - 1
    <3>1. call["main"].lba + p = dev.sector
      BY <1>0, <1>5, <2>1
    <3> QED
      BY <1>0, <1>1, <1>5, <2>1, <3>1
  <2>2. CASE p # i["main"] - 1
    <3>1. p \in 0 .. (i["main"] - 1) - 1
      BY <1>0, <1>6, <2>2
    <3>2. call["main"].lba + p \in Sector /\ disk[call["main"].lba + p] = Sent(p)
      BY <1>3, <3>1 DEF Holds, Stored
    <3>3. call["main"].lba + p # call["main"].lba + i["main"] - 1
      BY <1>0, <2>2
    <3> QED
      BY <1>7, <3>2, <3>3
  <2> QED
    BY <2>1, <2>2
<1>10. CASE dev.left > 1
  <2>1. /\ dev'.st = "busy" /\ dev'.op = "write" /\ dev'.data = Old
        /\ dev'.left = dev.left - 1 /\ dev'.sector = dev.sector + 1
    BY <1>0, <1>1, <1>2, <1>10 DEF Device
  <2>2. dev'.left = Remaining("main")' /\ i["main"] < call["main"].count
    BY <1>0, <1>6, <1>10, <2>1 DEF Remaining
  <2>3. Seeks("main")'
    BY <1>0, <1>4, <1>5, <2>1 DEF Seeks
  <2> QED
    BY <1>3, <1>8, <1>9, <2>1, <2>2, <2>3 DEF Wants, Deaf
<1>11. CASE ~(dev.left > 1)
  <2>1. dev' = Quiet("idle")
    BY <1>1, <1>11
  <2>2. i["main"] = call["main"].count
    BY <1>0, <1>6, <1>11 DEF Counted
  <2>3. ~Deaf' /\ Finished'
    BY <1>0, <1>9, <2>1, <2>2 DEF Deaf, Quiet, Finished
  <2> QED
    BY <1>3, <1>8, <2>2, <2>3
<1> QED
  BY <1>10, <1>11

LEMMA UndisturbedDrive ==
  ASSUME Types, Counted("main"), Working, Undisturbed,
         Drive \/ WriteBack \/ UNCHANGED vars
  PROVE  Undisturbed'
<1> USE DEF media, local, build
<1>0. /\ UNCHANGED <<capable, advance, pc, call, i, buf, mixed, regs>>
      /\ dev \in Device /\ "main" \in Contexts
      /\ dev.st # "busy" => UNCHANGED dev
      /\ failed => failed'
  BY Requested DEF Drive, Ready, Keep, Flushed, Break, WriteBack, vars, Types
<1> SUFFICES ASSUME ~mixed["main"] PROVE OthersKeep
  BY <1>0, UndisturbedOthers DEF Undisturbed
<1>1. ~Keep => UNCHANGED disk
  BY DEF Drive, Ready, Flushed, Break, WriteBack, vars
<1>2. Keep => ~Free /\ dev.data # Old /\ dev.st = "busy" /\ dev.op = "write"
  BY DEF Keep, Working, Free, Foreign, Deaf
\* What each part of the drive does to the command it is in.
<1>3. Ready => /\ dev.st = "busy" /\ dev.op # "flush" /\ dev.data = Old
               /\ dev.sector \in Sector /\ UNCHANGED <<disk, failed>>
               /\ dev'.st = "drq" /\ dev'.op = dev.op /\ dev'.sector = dev.sector
               /\ dev'.left = dev.left /\ dev'.data = dev.data
  BY <1>0 DEF Ready, Device
<1>4. Break => /\ dev.st = "busy" /\ UNCHANGED disk /\ ~Deaf'
               /\ (dev.op = "write" => failed')
  <2>1. Break => dev.st = "busy" /\ UNCHANGED disk /\ dev' = Quiet("failed")
    BY DEF Break
  <2>2. Break => failed' = (failed \/ dev.op = "write")
    BY DEF Break
  <2>3. dev' = Quiet("failed") => ~Deaf'
    BY DEF Deaf, Quiet
  <2> QED
    BY <2>1, <2>2, <2>3
<1>5. Flushed => /\ dev.st = "busy" /\ dev.op = "flush" /\ UNCHANGED <<disk, failed>> /\ ~Deaf'
  BY DEF Flushed, Deaf, Quiet
<1>6. WriteBack \/ UNCHANGED vars => UNCHANGED <<dev, disk, failed>>
  BY DEF WriteBack, vars
<1>7. ~Deaf' => Free'
  BY DEF Free
<1>8. Free => Free'
  <2>1. ~Deaf => Free'
    BY <1>0 DEF Free, Deaf
  <2>2. ASSUME Foreign PROVE Free'
    <3>1. CASE Ready
      BY <1>0, <1>3, <2>2, <3>1 DEF Free, Foreign, Remaining, Deaf
    <3>2. CASE WriteBack \/ UNCHANGED vars
      BY <1>0, <1>6, <2>2, <3>2 DEF Free, Foreign, Remaining, Deaf
    <3> QED
      BY <1>2, <1>4, <1>5, <1>7, <2>2, <3>1, <3>2 DEF Drive, Free
  <2> QED
    BY <2>1, <2>2 DEF Free
<1>9. ~Pending \/ Foreign => ~Pending' \/ Foreign'
  <2>1. Free' => ~Pending' \/ Foreign'
    BY DEF Free, Pending
  <2> QED
    BY <1>8, <2>1, QuietStays DEF Free
<1>10. Reading => Reading' \/ Free'
  <2>1. InStep("main") => Reading' \/ Free'
    BY <1>0, <1>7, DriveInStep DEF Reading
  <2>2. ASSUME Deaf, dev.op = "read", dev.left < Remaining("main") PROVE Reading' \/ Free'
    <3>1. Ready => Reading'
      BY <1>0, <1>3, <2>2 DEF Reading, Remaining, Deaf
    <3>2. UNCHANGED dev => Reading'
      BY <1>0, <2>2 DEF Reading, Remaining, Deaf
    <3> QED
      BY <1>2, <1>4, <1>5, <1>6, <1>7, <2>2, <3>1, <3>2 DEF Drive
  <2> QED
    BY <2>1, <2>2 DEF Reading
<1>11. Wants => Wants' \/ (Free' /\ failed')
  <2> SUFFICES ASSUME Wants PROVE Wants' \/ (Free' /\ failed')
    OBVIOUS
  <2>0. dev.op = "write" /\ dev.data = Old
    BY DEF Wants
  <2>1. ASSUME Ready PROVE Wants'
    <3>1. Fits("main")' = Fits("main")
      BY <1>0, FitsStands
    <3>2. Seeks("main")'
      BY <1>0, <1>3, <2>1, <3>1, Requested DEF Wants, Seeks
    <3>3. Stored(i["main"])'
      BY <1>0, <1>3, <2>1, <3>1 DEF Wants, Stored, Sent
    <3> QED
      BY <1>0, <1>3, <2>1, <3>2, <3>3 DEF Wants, Remaining, Deaf
  <2>2. WriteBack \/ UNCHANGED vars => Wants'
    BY <1>0, <1>6, MainStands
  <2> QED
    BY <1>2, <1>4, <1>5, <1>7, <2>0, <2>1, <2>2 DEF Drive
<1>12. Holds => \/ Holds'
                \/ Free' /\ failed'
                \/ Wants' /\ i["main"] < call["main"].count
                \/ Free' /\ Finished' /\ i["main"] = call["main"].count
  <2> SUFFICES ASSUME Holds
               PROVE  \/ Holds'
                      \/ Free' /\ failed'
                      \/ Wants' /\ i["main"] < call["main"].count
                      \/ Free' /\ Finished' /\ i["main"] = call["main"].count
    OBVIOUS
  <2>0. dev.op = "write" /\ dev.data # Old
    BY DEF Holds
  <2>1. WriteBack \/ UNCHANGED vars => Holds'
    BY <1>0, <1>6, MainStands
  <2> QED
    BY <1>3, <1>4, <1>5, <1>7, <2>0, <2>1, KeepHolds DEF Drive
<1>13. dev.st = "busy" /\ dev.op = "flush" => UNCHANGED disk /\ (UNCHANGED dev \/ Free')
  BY <1>2, <1>3, <1>4, <1>5, <1>6, <1>7 DEF Drive
<1>14. pc["main"] = "done" => UNCHANGED disk
  BY <1>1, <1>2 DEF Working
<1>15. Confined'
  <2>1. ASSUME UNCHANGED disk PROVE Confined'
    <3>1. Fits("main")' = Fits("main")
      BY <1>0, FitsStands
    <3> QED
      BY <1>0, <2>1, <3>1 DEF Undisturbed, Confined, Sent
  <2> QED
    BY <1>1, <2>1, KeepHolds
<1>16. Alone => Alone'
  BY <1>0 DEF Alone
<1>17. Wants /\ dev.st = "drq" => UNCHANGED <<dev, disk>>
  BY <1>0, <1>1, <1>2
<1>18. Free => UNCHANGED disk
  BY <1>1, <1>2
<1> QED
  BY <1>0, <1>8, <1>9, <1>10, <1>11, <1>12, <1>13, <1>14, <1>15, <1>16, <1>17, <1>18
     DEF OthersKeep

LEMMA UndisturbedNext ==
  ASSUME IInv, [Next]_vars
  PROVE  Undisturbed'
<1>0. /\ Types /\ Counted("main") /\ Working /\ Undisturbed
      /\ \A c \in Contexts : Counted(c)
      /\ \A d \in Handler : Heard(d) /\ Counted(d) /\ d \in Contexts
  BY Requested DEF IInv, Handler
<1>1. ASSUME NEW c \in Contexts, Step(c) PROVE Undisturbed'
  <2>1. CASE c = "main"
    BY <1>0, <1>1, <2>1, UndisturbedMain
  <2>2. CASE c # "main"
    <3>1. c \in Handler
      BY <2>2 DEF Handler
    <3> QED
      BY <1>0, <1>1, <3>1, UndisturbedHandler
  <2> QED
    BY <2>1, <2>2
<1>2. ASSUME NEW r \in Requests, Call(r.by, r.op, r.lba, r.count) PROVE Undisturbed'
  <2>1. r.by \in Contexts
    BY RequestsAssumption
  <2> QED
    BY <1>0, <1>2, <2>1, UndisturbedCall
<1>3. ASSUME Drive \/ WriteBack \/ UNCHANGED vars PROVE Undisturbed'
  BY <1>0, <1>3, UndisturbedDrive
<1> QED
  BY <1>1, <1>2, <1>3 DEF Next

-----------------------------------------------------------------------------
\* The invariant is inductive.
LEMMA TypesNext ==
  ASSUME Types, \A c \in Contexts : Counted(c), [Next]_vars
  PROVE  Types'
BY StepTypes, CallTypes, DriveTypes DEF Next

LEMMA WorkingNext ==
  ASSUME Types, \A c \in Contexts : Counted(c), Working, [Next]_vars
  PROVE  Working'
<1>1. "main" \in Contexts /\ \A r \in Requests : r.by \in Contexts
  BY RequestsAssumption, SpaceAssumption
<1> QED
  BY <1>1, WorkingStep, WorkingCall, WorkingDrive DEF Next

\* Only the first place of the buffer is filled where `buf` stands still.
LEMMA StillNext ==
  ASSUME Types, Still, [Next]_vars
  PROVE  Still'
<1>1. SUFFICES ASSUME ~advance', NEW c \in Contexts, NEW p \in Place \ {0}
               PROVE  buf'[c][p] = Old
  BY DEF Still
<1>2. UNCHANGED advance
  BY DEF Next, Step, Wait, Select, Count, Low, Command, Spin, Poll, Receive, Send, Flush,
         Settle, Return, Call, Drive, Ready, Keep, Flushed, Break, WriteBack, build, vars
<1>3. buf[c][p] = Old /\ buf \in [Contexts -> [Place -> Int]]
  BY <1>1, <1>2 DEF Still, Types
<1>4. ASSUME UNCHANGED buf PROVE buf'[c][p] = Old
  BY <1>3, <1>4
<1>5. ASSUME NEW d \in Contexts, Receive(d) PROVE buf'[c][p] = Old
  <2>1. Slot(d) = 0
    BY <1>1, <1>2 DEF Slot
  <2>2. \E x : buf' = [buf EXCEPT ![d][0] = x]
    BY <1>5, <2>1 DEF Receive
  <2> QED
    BY <1>3, <2>2
<1>6. ASSUME NEW d \in Contexts, Return(d) PROVE buf'[c][p] = Old
  BY <1>3, <1>6 DEF Return
<1>7. ASSUME NEW d \in Contexts, Step(d), ~Receive(d), ~Return(d) PROVE UNCHANGED buf
  BY <1>7 DEF Step, Wait, Select, Count, Low, Command, Spin, Poll, Send, Flush, Settle,
              local, vars
<1>8. ~(\E d \in Contexts : Step(d)) => UNCHANGED buf
  BY DEF Next, Call, Drive, Ready, Keep, Flushed, Break, WriteBack, local, vars
<1> QED
  BY <1>4, <1>5, <1>6, <1>7, <1>8

-----------------------------------------------------------------------------
\* The piece of the disk a write has changed, whatever has disturbed it.
LEMMA PieceStands ==
  ASSUME NEW a \in Int, Piece(a), UNCHANGED <<advance, disk>>, i'["main"] = i["main"],
         Engaged' => Engaged /\ dev'.sector = dev.sector /\ dev'.data = dev.data
  PROVE  Piece(a)'
BY DEF Piece, Changed, Sent

\* Nothing is on the disk before the loop begins.
LEMMA PieceStarts ==
  ASSUME Types', Working', i'["main"] = 0
  PROVE  (\E a \in Int : Piece(a))'
<1>1. dev'.sector \in Int /\ (Engaged' => dev'.data = Old) /\ Changed' = {}
  BY DEF Types, Device, Working, Changed
<1>2. PICK a \in Int : a = dev'.sector
  BY <1>1
<1>3. a + 0 = a
  OBVIOUS
<1>4. Piece(a)'
  BY <1>1, <1>2, <1>3 DEF Piece
<1> QED
  BY <1>4

\* A sector sent lengthens the piece, once the drive has stored it.
LEMMA PieceSent ==
  ASSUME Types, Counted("main"), Working, Consecutive, Send("main"),
         NEW a \in Int, Piece(a)
  PROVE  Piece(a)' /\ pc'["main"] # "data"
<1>0. /\ "main" \in Contexts /\ i["main"] \in Nat /\ dev \in Device /\ dev.sector \in Int
      /\ pc["main"] = "data" /\ call["main"].op = "write"
      /\ UNCHANGED <<advance, disk>> /\ i'["main"] = i["main"] + 1
  BY Requested DEF Types, Device, Send, At, build, media
<1>1. dev.data = Old
  BY <1>0 DEF Working
<1>2. \A s \in Changed' : s - a \in 0 .. i'["main"] - 1 /\ disk'[s] = Sent(s - a)'
  <2>1. \A s \in Changed : s - a \in 0 .. i["main"] - 1 /\ disk[s] = Sent(s - a)
    BY DEF Piece
  <2>2. Changed' = Changed /\ \A x : Sent(x)' = Sent(x)
    BY <1>0 DEF Changed, Sent
  <2>3. \A x \in 0 .. i["main"] - 1 : x \in 0 .. i'["main"] - 1
    BY <1>0
  <2> QED
    BY <1>0, <2>1, <2>2, <2>3
<1>3. CASE Engaged
  <2>1. dev.st = "drq" /\ dev.op = "write" /\ dev.sector = a + i["main"]
    BY <1>0, <1>1, <1>3 DEF Consecutive, Piece, Engaged
  <2>2. dev' = [dev EXCEPT !.st = "busy", !.data = Slot("main")]
    BY <2>1 DEF Send
  <2>3. /\ Slot("main") \in Place /\ Slot("main") # Old
        /\ Slot("main") = Sent(i["main"])
    BY <1>0, Requested, SlotTypes DEF Slot, Sent
  <2>4. dev'.sector = dev.sector /\ dev'.data = Sent(i["main"]) /\ dev'.data # Old
    BY <1>0, <2>2, <2>3 DEF Device
  <2>5. dev'.sector = a + i'["main"] - 1 /\ i'["main"] - 1 = i["main"]
    BY <1>0, <2>1, <2>4
  <2>6. dev'.data = Sent(i["main"] - 1)'
    BY <1>0, <2>4, <2>5 DEF Sent
  <2> QED
    BY <1>0, <1>2, <2>4, <2>5, <2>6 DEF Piece, Send, Goto, Types
<1>4. CASE ~Engaged
  <2>1. ~Engaged'
    BY <1>4 DEF Send, Engaged, Deaf
  <2> QED
    BY <1>0, <1>2, <2>1 DEF Piece, Send, Goto, Types
<1> QED
  BY <1>3, <1>4

LEMMA PieceKept ==
  ASSUME Types, Working, Keep, NEW a \in Int, Piece(a)
  PROVE  Piece(a)' /\ pc'["main"] # "data" /\ call'["main"].op = "write"
<1>0. /\ "main" \in Contexts /\ i["main"] \in Nat /\ dev \in Device /\ dev.sector \in Int
      /\ UNCHANGED <<advance, i, pc, call>> /\ disk \in [Sector -> Int]
  BY Requested DEF Types, Device, Keep, build, local
<1>1. dev.st = "busy" /\ dev.data # Old /\ disk' = [disk EXCEPT ![dev.sector] = dev.data]
  BY DEF Keep
<1>2. /\ dev.op = "write" /\ Engaged /\ i["main"] >= 1 /\ pc["main"] # "data"
      /\ call["main"].op = "write"
  BY <1>1 DEF Working, Engaged, Deaf
<1>3. dev.sector = a + i["main"] - 1 /\ dev.data = Sent(i["main"] - 1)
  BY <1>1, <1>2 DEF Piece
<1>4. ASSUME NEW s \in Changed'
      PROVE  s - a \in 0 .. i'["main"] - 1 /\ disk'[s] = Sent(s - a)'
  <2>0. s \in Sector /\ s \in Int /\ Sent(s - a)' = Sent(s - a)
    BY <1>0, <1>4 DEF Changed, Sent, Sector
  <2>1. CASE s = dev.sector
    <3>1. s - a = i["main"] - 1
      BY <1>0, <1>3, <2>0, <2>1
    <3> QED
      BY <1>0, <1>1, <1>2, <1>3, <2>0, <2>1, <3>1
  <2>2. CASE s # dev.sector
    <3>1. disk'[s] = disk[s] /\ s \in Changed
      BY <1>0, <1>1, <1>4, <2>0, <2>2 DEF Changed
    <3> QED
      BY <1>0, <2>0, <3>1 DEF Piece
  <2> QED
    BY <2>1, <2>2
<1>5. Engaged' => dev'.data = Old /\ dev'.sector = a + i'["main"]
  <2>1. CASE dev.left > 1
    <3>1. dev' = [dev EXCEPT !.sector = dev.sector + 1, !.left = dev.left - 1, !.data = Old]
      BY <2>1 DEF Keep
    <3>2. dev'.data = Old /\ dev'.sector = dev.sector + 1
      BY <1>0, <3>1 DEF Device
    <3> QED
      BY <1>0, <1>3, <3>2
  <2>2. CASE ~(dev.left > 1)
    BY <2>2 DEF Keep, Engaged, Deaf, Quiet
  <2> QED
    BY <2>1, <2>2
<1> QED
  BY <1>0, <1>2, <1>4, <1>5 DEF Piece

LEMMA ConsecutiveNext ==
  ASSUME IInv, [Next]_vars, Types', Working'
  PROVE  Consecutive'
<1> USE DEF build, media, local
<1> DEFINE Somewhere == \E a \in Int : Piece(a)
<1>0. /\ Types /\ Working /\ Consecutive /\ Counted("main")
      /\ \A d \in Handler : Counted(d) /\ d \in Contexts /\ d # "main"
      /\ pc \in [Contexts -> Pc] /\ "main" \in Contexts
      /\ call \in [Contexts -> Calls] /\ call["main"] \in Calls
  BY Requested DEF IInv, Handler, Types
\* A step that leaves main's write, the disk and what the drive has of it alone.
<1>1. ASSUME UNCHANGED <<advance, disk>>, i'["main"] = i["main"],
             call'["main"].op = call["main"].op,
             pc'["main"] = "data" => pc["main"] = "data" \/ dev'.st # "busy",
             Engaged' => /\ Engaged /\ dev'.sector = dev.sector /\ dev'.data = dev.data
                         /\ dev.st = "drq" => dev'.st = "drq"
      PROVE  Consecutive'
  <2> SUFFICES ASSUME call["main"].op = "write" PROVE Consecutive'
    BY <1>1 DEF Consecutive
  <2>1. Somewhere'
    BY <1>0, <1>1, PieceStands DEF Consecutive
  <2>2. pc'["main"] = "data" /\ Engaged' => dev'.st = "drq"
    BY <1>0, <1>1 DEF Consecutive, Engaged, Deaf
  <2> QED
    BY <2>1, <2>2 DEF Consecutive
<1>2. ASSUME i'["main"] = 0, pc'["main"] # "data" PROVE Consecutive'
  BY <1>2, PieceStarts DEF Consecutive
<1>3. ASSUME Step("main") PROVE Consecutive'
  <2> USE DEF Goto, At
  <2>1. CASE Wait("main") \/ Select("main") \/ Count("main") \/ Low("main") \/ Spin("main")
    <3>1. UNCHANGED <<advance, disk, i, call, dev>>
      BY <2>1 DEF Wait, Select, Count, Low, Spin, vars
    <3>2. pc'["main"] # "data"
      BY <1>0, <2>1 DEF Wait, Select, Count, Low, Spin, vars
    <3>3. Engaged' = Engaged
      BY <3>1 DEF Engaged, Deaf
    <3> QED
      BY <1>1, <3>1, <3>2, <3>3
  <2>2. CASE Command("main")
    <3>1. i'["main"] = 0 /\ pc'["main"] # "data"
      BY <1>0, <2>2 DEF Command, Counted, Selecting
    <3> QED
      BY <1>2, <3>1
  <2>3. CASE Poll("main") \/ Settle("main")
    <3>1. UNCHANGED <<advance, disk, i, dev>> /\ dev.st # "busy"
      BY <2>3 DEF Poll, Settle, PollEnds
    <3>2. call'["main"].op = call["main"].op
      BY <1>0, <2>3 DEF Poll, Settle, Answer, Calls
    <3>3. Engaged' = Engaged
      BY <3>1 DEF Engaged, Deaf
    <3> QED
      BY <1>1, <3>1, <3>2, <3>3
  <2>4. CASE Receive("main")
    <3>1. call'["main"].op = "read"
      BY <1>0, <2>4 DEF Receive, Answer, Calls
    <3> QED
      BY <3>1 DEF Consecutive
  <2>5. CASE Send("main")
    <3>1. PICK a \in Int : Piece(a)
      BY <1>0, <2>5 DEF Send, Consecutive
    <3>2. Piece(a)' /\ pc'["main"] # "data"
      BY <1>0, <2>5, <3>1, PieceSent
    <3> QED
      BY <3>2 DEF Consecutive
  <2>6. CASE Flush("main")
    <3>1. /\ UNCHANGED <<advance, disk, i, call>> /\ pc'["main"] # "data"
          /\ UNCHANGED dev \/ dev'.op = "flush"
      BY <1>0, <2>6 DEF Flush
    <3>2. Engaged' => UNCHANGED dev /\ Engaged
      BY <3>1 DEF Engaged, Deaf
    <3> QED
      BY <1>1, <3>1, <3>2
  <2>7. CASE Return("main")
    <3>1. call'["main"].op = "none"
      BY <1>0, <2>7 DEF Return, NoCall
    <3> QED
      BY <3>1 DEF Consecutive
  <2> QED
    BY <1>3, <2>1, <2>2, <2>3, <2>4, <2>5, <2>6, <2>7 DEF Step
<1>4. ASSUME NEW d \in Handler, Step(d) PROVE Consecutive'
  <2>1. /\ pc'["main"] = pc["main"] /\ i'["main"] = i["main"]
        /\ call'["main"] = call["main"]
    BY <1>0, <1>4, OthersStand
  <2>2. UNCHANGED <<advance, disk>>
    BY <1>0, <1>4 DEF Step, Wait, Select, Count, Low, Command, Spin, Poll, Receive, Send,
                      Flush, Settle, Return, vars
  <2>3. \/ UNCHANGED dev \/ Command(d) \/ Receive(d)
    <3>1. ~Send(d) /\ ~Flush(d)
      BY <1>0 DEF Send, Flush, At, Counted
    <3> QED
      BY <1>4, <3>1 DEF Step, Wait, Select, Count, Low, Spin, Poll, Settle, Return, vars
  <2>4. Engaged' => UNCHANGED dev /\ Engaged
    <3>1. UNCHANGED dev => Engaged' = Engaged
      BY DEF Engaged, Deaf
    <3>2. CASE Command(d)
      <4>1. call[d].op = "read"
        BY <1>0, <3>2 DEF Command, At, Counted
      <4>2. UNCHANGED dev \/ dev'.op = "read"
        BY <3>2, <4>1 DEF Command
      <4> QED
        BY <3>1, <4>2 DEF Engaged
    <3>3. CASE Receive(d)
      <4>1. \/ UNCHANGED dev \/ dev' = Quiet("idle")
            \/ /\ dev.op = "read"
               /\ dev' = [dev EXCEPT !.st = "busy", !.sector = dev.sector + 1,
                                     !.left = dev.left - 1]
        BY <3>3 DEF Receive
      <4>2. UNCHANGED dev \/ dev'.op # "write"
        <5>1. dev \in Device
          BY <1>0 DEF Types
        <5>2. ASSUME dev.op = "read",
                     dev' = [dev EXCEPT !.st = "busy", !.sector = dev.sector + 1,
                                        !.left = dev.left - 1]
              PROVE  dev'.op # "write"
          BY <5>1, <5>2 DEF Device
        <5>3. dev' = Quiet("idle") => dev'.op # "write"
          BY DEF Quiet
        <5> QED
          BY <4>1, <5>2, <5>3
      <4> QED
        BY <3>1, <4>2 DEF Engaged
    <3> QED
      BY <2>3, <3>1, <3>2, <3>3
  <2> QED
    BY <1>1, <2>1, <2>2, <2>4
<1>5. ASSUME NEW r \in Requests, Call(r.by, r.op, r.lba, r.count) PROVE Consecutive'
  <2>1. UNCHANGED <<advance, disk, dev, i>> /\ pc[r.by] = "idle" /\ r.by \in Contexts
    BY <1>5, RequestsAssumption DEF Call, At
  <2>2. Engaged' = Engaged
    BY <2>1 DEF Engaged, Deaf
  <2>3. CASE r.by = "main"
    <3>1. i'["main"] = 0 /\ pc'["main"] # "data"
      BY <1>0, <1>5, <2>1, <2>3 DEF Call, Goto, Counted
    <3> QED
      BY <1>2, <3>1
  <2>4. CASE r.by # "main"
    <3>1. pc'["main"] = pc["main"] /\ call'["main"] = call["main"]
      BY <1>0, <1>5, <2>1, <2>4 DEF Call, Goto
    <3> QED
      BY <1>1, <2>1, <2>2, <3>1
  <2> QED
    BY <2>3, <2>4
<1>6. ASSUME Keep PROVE Consecutive'
  <2>1. PICK a \in Int : Piece(a)
    BY <1>0, <1>6 DEF Keep, Working, Consecutive
  <2>2. Piece(a)' /\ pc'["main"] # "data"
    BY <1>0, <1>6, <2>1, PieceKept
  <2> QED
    BY <2>2 DEF Consecutive
<1>7. ASSUME Ready \/ Flushed \/ Break \/ WriteBack \/ UNCHANGED vars PROVE Consecutive'
  <2>1. UNCHANGED <<advance, disk, i, pc, call>>
    BY <1>7 DEF Ready, Flushed, Break, WriteBack, vars
  <2>2. CASE Ready
    <3>1. dev' = [dev EXCEPT !.st = "drq"] /\ dev.st = "busy"
      BY <2>2 DEF Ready
    <3>2. /\ dev'.st = "drq" /\ dev'.op = dev.op /\ dev'.sector = dev.sector
          /\ dev'.data = dev.data
      BY <1>0, <3>1 DEF Types, Device
    <3>3. Engaged' = Engaged
      BY <3>1, <3>2 DEF Engaged, Deaf
    <3> QED
      BY <1>1, <2>1, <3>2, <3>3
  <2>3. CASE Flushed \/ Break
    <3>1. ~Engaged'
      BY <2>3 DEF Flushed, Break, Engaged, Deaf, Quiet
    <3> QED
      BY <1>1, <2>1, <3>1
  <2>4. CASE WriteBack \/ UNCHANGED vars
    <3>1. UNCHANGED dev
      BY <2>4 DEF WriteBack, vars
    <3>2. Engaged' = Engaged
      BY <3>1 DEF Engaged, Deaf
    <3> QED
      BY <1>1, <2>1, <3>1, <3>2
  <2> QED
    BY <1>7, <2>2, <2>3, <2>4
<1>8. \A c \in Contexts : c = "main" \/ c \in Handler
  BY DEF Handler
<1> QED
  BY <1>3, <1>4, <1>5, <1>6, <1>7, <1>8 DEF Next, Drive

LEMMA IInvInit == Init => IInv
<1> SUFFICES ASSUME Init PROVE IInv
  OBVIOUS
<1>1. ASSUME NEW c \in Contexts PROVE pc[c] = "idle" /\ call[c].op = "none"
  BY DEF Init, NoCall
<1>2. \A d \in Handler : Heard(d) /\ Handled(d)
  BY <1>1 DEF Handler, Heard, Handled, Selecting
<1>3. Undisturbed
  BY <1>1, Requested
     DEF Init, Undisturbed, Between, Preparing, OfRead, OfWrite, Confined, Pending, Deaf, Quiet
<1>4. Still /\ Consecutive
  BY <1>1, Requested DEF Init, Still, Consecutive
<1> QED
  BY <1>2, <1>3, <1>4, TypesInit, CountedInit, WorkingInit DEF IInv

LEMMA IInvNext == IInv /\ [Next]_vars => IInv'
<1> SUFFICES ASSUME IInv, [Next]_vars PROVE IInv'
  OBVIOUS
<1>1. /\ Types /\ Working /\ \A c \in Contexts : Counted(c)
      /\ \A d \in Handler : Heard(d) /\ Handled(d)
  BY DEF IInv
<1>2. Types'
  BY <1>1, TypesNext
<1>3. (\A c \in Contexts : Counted(c))'
  BY <1>1, CountedNext
<1>4. Working'
  BY <1>1, WorkingNext
<1>5. (\A d \in Handler : Heard(d) /\ Handled(d))'
  BY <1>1, HandlersNext
<1>6. Undisturbed'
  BY UndisturbedNext
<1>7. Still' /\ Consecutive'
  BY <1>1, <1>2, <1>4, StillNext, ConsecutiveNext DEF IInv
<1> QED
  BY <1>2, <1>3, <1>4, <1>5, <1>6, <1>7 DEF IInv

LEMMA Invariant == Spec => []IInv
BY IInvInit, IInvNext, PTL DEF Spec

-----------------------------------------------------------------------------
\* The drive, its registers and the calls are what their types say, in every
\* build and on every disk.
THEOREM TypeCorrect == Spec => []TypeOK
<1>1. IInv => TypeOK
  BY DEF IInv, Types, TypeOK, Device
<1> QED
  BY <1>1, Invariant, PTL

\* A read that answers 0, that no other call has spoilt and whose sectors CHS
\* can address, has filled the buffer with the sectors asked for, as the build
\* fills it, whatever the drive and the handlers do (disk.c:432-531).
THEOREM ReadsAreTruthful == Spec => []ReadTruthful
<1>1. IInv => ReadTruthful
  <2> SUFFICES ASSUME IInv, NEW c \in Contexts, Done(c), call[c].op = "read",
                      Intact(c), Exact(call[c].lba), NEW p \in 0 .. call[c].count - 1
               PROVE  buf[c][p] = Got(c, p)
    BY DEF ReadTruthful
  <2>1. Fits(c) /\ ~mixed[c] /\ pc[c] = "done" /\ call[c].status = 0
    BY DEF Intact, Fits, Done
  <2>2. i[c] = call[c].count /\ call[c].count \in Counts
    BY <2>1 DEF IInv, Counted
  <2>3. Filled(c)
    <3>1. CASE c = "main"
      BY <2>1, <3>1 DEF IInv, Undisturbed, OfRead
    <3>2. CASE c # "main"
      BY <2>1, <3>2 DEF IInv, Handler, Handled
    <3> QED
      BY <3>1, <3>2
  <2>4. call[c].count > 0 /\ p \in Place
    BY <2>2, Requested
  <2>5. CASE advance
    BY <2>1, <2>2, <2>3, <2>5 DEF Filled, Got
  <2>6. CASE ~advance /\ p = 0
    BY <2>1, <2>2, <2>3, <2>4, <2>6 DEF Filled, Got
  <2>7. CASE ~advance /\ p # 0
    BY <2>4, <2>7 DEF Got, IInv, Still
  <2> QED
    BY <2>5, <2>6, <2>7
<1> QED
  BY <1>1, Invariant, PTL

\* At any moment and whatever fails, a write that no other call has spoilt and
\* that CHS can address has changed no sector but those it was asked for, each to
\* its own place of the buffer; any other write may hit others, but no more than
\* it was asked for, one behind the other and in order (disk.c:423-510, 534-547).
THEOREM WritesAreConfined == Spec => []WriteConfined
<1>1. IInv => WriteConfined
  <2> SUFFICES ASSUME IInv PROVE WriteConfined
    OBVIOUS
  <2> DEFINE w == call["main"]
  <2>0. /\ i["main"] <= w.count /\ i["main"] \in Nat /\ w.count \in Nat
        /\ w.lba \in Int /\ \A s \in Sector : s \in Int
    BY Requested DEF IInv, Counted, Types, Calls, Sector
  <2>1. \A s \in Changed : w.op = "write"
    BY DEF IInv, Working, Changed
  <2> HIDE DEF w
  <2>2. ASSUME NEW s \in Changed, NEW t \in Changed
        PROVE  /\ disk[s] \in 0 .. w.count - 1 /\ s - t < w.count
               /\ disk[s] - disk[t] = Sent(s) - Sent(t)
    <3>1. PICK a \in Int : Piece(a)
      BY <2>1, <2>2 DEF IInv, Consecutive, w
    <3>2. /\ s - a \in 0 .. i["main"] - 1 /\ disk[s] = Sent(s - a)
          /\ t - a \in 0 .. i["main"] - 1 /\ disk[t] = Sent(t - a)
      BY <2>2, <3>1 DEF Piece
    <3>3. s \in Int /\ t \in Int
      BY <2>0, <2>2 DEF Changed
    <3>4. s - t < w.count
      BY <2>0, <3>2, <3>3
    <3>5. CASE advance
      BY <2>0, <3>2, <3>3, <3>4, <3>5 DEF Sent
    <3>6. CASE ~advance
      BY <2>0, <3>2, <3>3, <3>4, <3>6 DEF Sent
    <3> QED
      BY <3>5, <3>6
  <2>3. ASSUME Intact("main"), Exact(w.lba), NEW s \in Changed
        PROVE  s - w.lba \in 0 .. w.count - 1 /\ disk[s] = Sent(s - w.lba)
    <3>1. Fits("main") /\ Confined
      BY <2>3 DEF Intact, Fits, IInv, Undisturbed, w
    <3>2. s - w.lba \in 0 .. i["main"] - 1 /\ disk[s] = Sent(s - w.lba)
      BY <2>1, <2>3, <3>1 DEF Confined, Changed, w
    <3> QED
      BY <2>0, <2>3, <3>2 DEF Changed
  <2> QED
    BY <2>1, <2>2, <2>3 DEF WriteConfined, w
<1> QED
  BY <1>1, Invariant, PTL

\* A write that answers 0, that no other call has spoilt and that CHS can address,
\* is on the drive as the build sends it if the drive has not failed, although
\* nobody looks at what its polls return (disk.c:534-549).
THEOREM WritesAreComplete == Spec => []WriteComplete
<1>1. IInv => WriteComplete
  <2> SUFFICES ASSUME IInv, Done("main"), call["main"].op = "write", ~failed,
                      Intact("main"), Exact(call["main"].lba)
               PROVE  Written
    BY DEF WriteComplete
  <2>1. Fits("main") /\ Finished
    BY DEF Intact, Fits, Done, IInv, Undisturbed, OfWrite
  <2> QED
    BY <2>1 DEF Finished, Stored, Written
<1> QED
  BY <1>1, Invariant, PTL

\* Between calls the drive waits for no data, unless main's last call was spoilt:
\* the next command is heard (disk.c:519-547).
THEOREM DeviceIsQuiet == Spec => []DeviceQuiet
<1>1. IInv => DeviceQuiet
  <2> SUFFICES ASSUME IInv, \A c \in Contexts : pc[c] = "idle", Intact("main")
               PROVE  ~Pending
    BY DEF DeviceQuiet
  <2>1. ~Foreign
    BY DEF Foreign, Handler, Moving
  <2> QED
    BY <2>1, Requested DEF IInv, Undisturbed, Between, Intact
<1> QED
  BY <1>1, Invariant, PTL
=============================================================================
