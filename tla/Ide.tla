-------------------------------- MODULE Ide --------------------------------
(***************************************************************************)
(* Sector reads and writes of the IDE driver (disk.c) on one ATA drive,    *)
(* called through FatFs's glue (diskio.c) by the boot thread ("main") and  *)
(* by the keyboard interrupt ("isr"), whose number keys read sectors while *)
(* main may be anywhere inside ide_ata_access.  The handler runs to its    *)
(* end with interrupts off.                                                *)
(*                                                                         *)
(* The drive is external.  It takes a command in its own time, and, as the *)
(* emulator of the Makefile's run target does, ignores command-block writes *)
(* while it is busy or waits for data.  A sector's content is called by    *)
(* the sector's number; what main writes is called by its place in main's  *)
(* buffer, and Old is what a sector held when main's call began.           *)
(***************************************************************************)
EXTENDS Integers

CONSTANTS
  DiskSize,      \* ide_devices[0].Size
  LbaSpace,      \* 2^32
  Lba28Space,    \* 0x10000000: from here on LBA48 is used
  LowSpace,      \* 2^24: what LBA0 .. LBA2 hold
  SectMask,      \* 64: the CHS sector is lba & 0x3F, plus 1
  Spt, Heads,    \* 63 sectors, 16 heads
  Requests,      \* what the callers ask for: [by, op, lba, count]
  Drives,        \* subset of {"none", "ata", "atapi"}
  Contexts       \* {"main"} or {"main", "isr"}

ASSUME SpaceAssumption ==
  /\ {DiskSize, LbaSpace, Lba28Space, LowSpace, SectMask, Spt, Heads}
       \subseteq Nat \ {0}
  /\ DiskSize < LbaSpace /\ Spt < SectMask
  /\ "main" \in Contexts /\ Contexts \subseteq {"main", "isr"}

\* A handler only reads; FatFs asks for 1 to 128 sectors, which a uint8_t holds.
ASSUME RequestsAssumption ==
  \A r \in Requests :
     /\ r.by \in Contexts /\ r.op \in {"read", "write"}
     /\ r.lba \in 0 .. LbaSpace - 1 /\ r.count \in 1 .. 128
     /\ r.by = "isr" => r.op = "read"

VARIABLES
  drive,         \* what ide_initialize found: "none", "ata" or "atapi"
  capable,       \* Capabilities & 0x200: the drive knows LBA
  advance,       \* the build keeps `buf` in the register rep insw advances
  regs,          \* the drive's command block
  dev,           \* the drive: what it does, where, and how much is left
  disk,          \* the sectors
  cached,        \* some sector written is not yet on the medium
  pc,            \* where each context is in its call
  call,          \* the call in progress, or the last one, with its status
  i,             \* ide_ata_access's loop counter
  buf,           \* the sectors of the caller's buffer
  mixed,         \* another call has interfered with this one (history)
  failed,        \* the drive has failed to write in main's call (history)
  synced         \* CTRL_SYNC has answered RES_OK after the last call

build == <<drive, capable, advance>>
media == <<disk, cached, failed>>
local == <<call, i, buf>>
vars  == <<build, regs, dev, media, pc, local, mixed, synced>>

\* Contents that are not a sector's: untouched, and what an idle port reads as.
Old  == -1
Junk == -2

Sector == 0 .. DiskSize - 1
Counts == {r.count : r \in Requests}
Place  == UNION {0 .. x - 1 : x \in Counts}

Pc == {"idle", "wait", "select", "count", "low", "command", "poll", "data",
       "flush", "settle", "done"}

Running(c) == c = "main" => \A d \in Contexts \ {"main"} : pc[d] = "idle"
At(c, p)   == Running(c) /\ pc[c] = p
Goto(c, p) == pc' = [pc EXCEPT ![c] = p]

-----------------------------------------------------------------------------
\* Faults: definitions of the next sections as a likely mistake leaves them;
\* none is part of the specification.
LowHalf(lba)  == lba % LowSpace               \* LBA48's high halves left out
OneMore(c)    == call[c].count + 1
NoLook(c)     == TRUE
PollForData   == dev.st = "drq"               \* the comment at disk.c:199
AllButLast(c) == i[c] + 2 < call[c].count
SlotAhead(c)  == IF advance THEN i[c] + 1 ELSE 0

-----------------------------------------------------------------------------
\* How ide_ata_access addresses a sector: the mode, the head and the rest.
Mode(lba) == IF lba >= Lba28Space THEN "lba48"
             ELSE IF capable THEN "lba28" ELSE "chs"

Chs(lba) ==
  LET sect == (lba % SectMask) + 1
      base == lba + 1 - sect
  IN [head |-> (base % (Heads * Spt)) \div Spt,
      low  |-> <<base \div (Heads * Spt), sect>>]

\* LBA0 to LBA2; LBA48 has them twice.
LowPart(lba) == IF Mode(lba) = "lba48" THEN lba ELSE lba % LowSpace

Address(lba) ==
  IF Mode(lba) = "chs" THEN Chs(lba)
  ELSE [head |-> IF Mode(lba) = "lba28" THEN lba \div LowSpace ELSE 0,
        low  |-> <<LowPart(lba), 0>>]

\* The sector the drive takes its registers for; anything if two calls have
\* written them in different modes.
Nowhere == LbaSpace
Decode(mode) ==
  IF regs.mode # mode \/ regs.lowMode # mode THEN Sector \cup {Nowhere}
  ELSE CASE mode = "lba48" -> {regs.low[1]}
         [] mode = "lba28" -> {regs.head * LowSpace + regs.low[1]}
         [] mode = "chs"   ->
              {IF regs.low[2] \in 1 .. Spt /\ regs.head < Heads
               THEN (regs.low[1] * Heads + regs.head) * Spt + regs.low[2] - 1
               ELSE Nowhere}

\* A drive that is doing nothing.
Quiet(st) == [st |-> st, op |-> "none", sector |-> 0, left |-> 0, data |-> Old]

\* The drive does not listen; it still has a sector to give or to take.
Deaf    == dev.st \in {"busy", "drq"}
Pending == /\ Deaf /\ dev.op # "flush"
           /\ ~(dev.st = "busy" /\ dev.data # Old /\ dev.left = 1)

-----------------------------------------------------------------------------
NoCall == [op |-> "none", lba |-> 0, count |-> 0, status |-> 0]

Init ==
  /\ drive \in Drives /\ capable \in BOOLEAN /\ advance \in BOOLEAN
  /\ regs = [mode |-> "chs", head |-> 0, lowMode |-> "chs", low |-> <<0, 1>>,
             count |-> 1]
  /\ dev = Quiet("idle")
  /\ disk = [s \in Sector |-> Old] /\ cached = FALSE /\ failed = FALSE
  /\ pc = [c \in Contexts |-> "idle"]
  /\ call = [c \in Contexts |-> NoCall]
  /\ i = [c \in Contexts |-> 0]
  /\ buf = [c \in Contexts |-> [p \in Place |-> Old]]
  /\ mixed = [c \in Contexts |-> FALSE]
  /\ synced = FALSE

\* ide_read_sectors and ide_write_sectors: what is refused at once.
Verdict(op, lba, count) ==
  IF drive = "none" THEN 1
  ELSE IF drive = "ata" /\ (lba + count) % LbaSpace > DiskSize THEN 2
  ELSE IF drive = "atapi" THEN (IF op = "read" THEN 3 ELSE 8)
  ELSE 0

\* Where a handler's call spoils main's: between the writes of the command
\* block it overwrites them, between a read's poll and its transfer it takes
\* the sector main has polled for.
Exposed(op) == {"count", "low", "command"} \cup (IF op = "read" THEN {"data"} ELSE {})

\* A call begins.  While sectors of another call are pending the drive will not
\* hear its command, and gives it what the other asked for: this too spoils it.
Call(c, op, lba, count) ==
  /\ At(c, "idle")
  /\ LET verdict == Verdict(op, lba, count)
     IN /\ call' = [call EXCEPT ![c] =
                      [op |-> op, lba |-> lba, count |-> count,
                       status |-> verdict]]
        /\ Goto(c, IF verdict = 0 THEN "wait" ELSE "done")
  /\ IF c = "main"
     THEN /\ mixed' = [mixed EXCEPT !["main"] = Pending]
          /\ synced' = FALSE
     ELSE /\ mixed' = [mixed EXCEPT
                !["main"] = @ \/ pc["main"] \in Exposed(call["main"].op),
                !["isr"]  = Pending]
          /\ UNCHANGED synced
  /\ UNCHANGED <<build, regs, dev, media, i, buf>>

\* The caller has its status and goes on; after a write FatFs may ask for
\* CTRL_SYNC, for which disk_ioctl has nothing to do: RES_OK.
Return(c) ==
  /\ At(c, "done")
  /\ Goto(c, "idle")
  /\ call' = [call EXCEPT ![c] = NoCall]
  /\ i' = [i EXCEPT ![c] = 0]
  /\ buf' = [buf EXCEPT ![c] = [p \in Place |-> Old]]
  /\ IF c = "main"
     THEN /\ disk' = [s \in Sector |-> Old] /\ failed' = FALSE
          /\ synced' \in {FALSE, call[c].op = "write" /\ call[c].status = 0}
          /\ UNCHANGED mixed
     ELSE mixed' = [mixed EXCEPT ![c] = FALSE] /\ UNCHANGED <<disk, failed, synced>>
  /\ UNCHANGED <<build, regs, dev, cached>>

\* access_loop: until the drive is not busy.
Wait(c) ==
  /\ At(c, "wait")
  /\ dev.st # "busy"
  /\ Goto(c, "select")
  /\ UNCHANGED <<build, regs, dev, media, local, mixed, synced>>

\* HDDEVSEL: the head and the addressing mode.
Select(c) ==
  /\ At(c, "select")
  /\ regs' = IF Deaf THEN regs
             ELSE [regs EXCEPT !.mode = Mode(call[c].lba),
                               !.head = Address(call[c].lba).head]
  /\ Goto(c, "count")
  /\ UNCHANGED <<build, dev, media, local, mixed, synced>>

\* SECCOUNT0.
Sectors(c) == call[c].count

Count(c) ==
  /\ At(c, "count")
  /\ regs' = IF Deaf THEN regs ELSE [regs EXCEPT !.count = Sectors(c)]
  /\ Goto(c, "low")
  /\ UNCHANGED <<build, dev, media, local, mixed, synced>>

\* LBA0 .. LBA2, and for LBA48 their high halves.
Low(c) ==
  /\ At(c, "low")
  /\ regs' = IF Deaf THEN regs
             ELSE [regs EXCEPT !.lowMode = Mode(call[c].lba),
                               !.low = Address(call[c].lba).low]
  /\ Goto(c, "command")
  /\ UNCHANGED <<build, dev, media, local, mixed, synced>>

\* READ or WRITE PIO, in the mode's variant.
Command(c) ==
  /\ At(c, "command")
  /\ IF Deaf THEN UNCHANGED dev
     ELSE \E s \in Decode(Mode(call[c].lba)) :
            dev' = [st |-> "busy", op |-> call[c].op, sector |-> s,
                    left |-> regs.count, data |-> Old]
  /\ Goto(c, "poll")
  /\ UNCHANGED <<build, regs, media, local, mixed, synced>>

\* The call ends with a status.
Answer(c, status) == /\ Goto(c, "done")
                     /\ call' = [call EXCEPT ![c].status = status]

\* What ide_print_error makes of the poll's error: a failed drive shows a fault
\* or an error (22 stands for what the bits of the error register add), another
\* has no data.
Codes(st) == IF st = "failed" THEN {19, 22} ELSE {23}

\* ide_polling before each sector: a read stops at the first error, a write
\* does not look.
PollEnds   == dev.st # "busy"
Ignores(c) == call[c].op = "write"

Poll(c) ==
  /\ At(c, "poll")
  /\ PollEnds
  /\ IF Ignores(c) \/ dev.st = "drq"
     THEN Goto(c, "data") /\ UNCHANGED call
     ELSE \E code \in Codes(dev.st) : Answer(c, code)
  /\ UNCHANGED <<build, regs, dev, media, i, buf, mixed, synced>>

Spin(c) == At(c, "poll") /\ ~PollEnds /\ UNCHANGED vars

\* Where the next sector of the buffer is: the loop relies on the string
\* instruction to move `buf`, which the compiler is not told about.
Slot(c) == IF advance THEN i[c] ELSE 0
More(c) == i[c] + 1 < call[c].count

\* rep insw: a sector the drive has ready, or whatever the port reads as.
Receive(c) ==
  /\ At(c, "data") /\ call[c].op = "read"
  /\ IF dev.st = "drq" /\ dev.op = "read"
     THEN /\ buf' = [buf EXCEPT ![c][Slot(c)] = dev.sector]
          /\ dev' = IF dev.left > 1
                    THEN [dev EXCEPT !.st = "busy", !.sector = @ + 1,
                                     !.left = @ - 1]
                    ELSE Quiet("idle")
     ELSE buf' = [buf EXCEPT ![c][Slot(c)] = Junk] /\ UNCHANGED dev
  /\ i' = [i EXCEPT ![c] = i[c] + 1]
  /\ IF More(c) THEN Goto(c, "poll") /\ UNCHANGED call
     ELSE Answer(c, 0)
  /\ UNCHANGED <<build, regs, media, mixed, synced>>

\* rep outsw: a sector the drive waits for, or nothing.
Send(c) ==
  /\ At(c, "data") /\ call[c].op = "write"
  /\ dev' = IF dev.st = "drq" /\ dev.op = "write"
            THEN [dev EXCEPT !.st = "busy", !.data = Slot(c)] ELSE dev
  /\ i' = [i EXCEPT ![c] = i[c] + 1]
  /\ Goto(c, IF More(c) THEN "poll" ELSE "flush")
  /\ UNCHANGED <<build, regs, media, call, buf, mixed, synced>>

\* CACHE FLUSH follows the last sector without a poll in between.
Flush(c) ==
  /\ At(c, "flush")
  /\ dev' = IF Deaf THEN dev
            ELSE [st |-> "busy", op |-> "flush", sector |-> 0, left |-> 0,
                  data |-> Old]
  /\ Goto(c, "settle")
  /\ UNCHANGED <<build, regs, media, local, mixed, synced>>

\* The last poll, of a write, only waits.
Settle(c) ==
  /\ At(c, "settle")
  /\ dev.st # "busy"
  /\ Answer(c, 0)
  /\ UNCHANGED <<build, regs, dev, media, i, buf, mixed, synced>>

Step(c) == \/ Wait(c) \/ Select(c) \/ Count(c) \/ Low(c) \/ Command(c)
           \/ Spin(c) \/ Poll(c) \/ Receive(c) \/ Send(c) \/ Flush(c) \/ Settle(c)
           \/ Return(c)

-----------------------------------------------------------------------------
\* The drive (external).  A sector is ready to be read, or wanted, ...
Ready ==
  /\ dev.st = "busy" /\ dev.op # "flush" /\ dev.data = Old
  /\ dev.sector \in Sector
  /\ dev' = [dev EXCEPT !.st = "drq"]
  /\ UNCHANGED <<build, regs, media, pc, local, mixed, synced>>

\* ... the sector it was sent goes to the cache ...
Keep ==
  /\ dev.st = "busy" /\ dev.data # Old
  /\ disk' = [disk EXCEPT ![dev.sector] = dev.data]
  /\ cached' = TRUE
  /\ dev' = IF dev.left > 1
            THEN [dev EXCEPT !.sector = @ + 1, !.left = @ - 1, !.data = Old]
            ELSE Quiet("idle")
  /\ UNCHANGED <<build, regs, failed, pc, local, mixed, synced>>

\* ... the cache goes to the medium, on command or by itself ...
Flushed ==
  /\ dev.st = "busy" /\ dev.op = "flush"
  /\ dev' = Quiet("idle")
  /\ cached' = FALSE
  /\ UNCHANGED <<build, regs, disk, failed, pc, local, mixed, synced>>

WriteBack ==
  /\ cached /\ cached' = FALSE
  /\ UNCHANGED <<build, regs, dev, disk, failed, pc, local, mixed, synced>>

\* ... or the command fails, as it must when it runs off the disk.
Break ==
  /\ dev.st = "busy"
  /\ dev' = Quiet("failed")
  /\ failed' = (failed \/ dev.op = "write")
  /\ UNCHANGED <<build, regs, disk, cached, pc, local, mixed, synced>>

Drive == Ready \/ Keep \/ Flushed \/ Break

Next == \/ \E c \in Contexts : Step(c)
        \/ \E r \in Requests : Call(r.by, r.op, r.lba, r.count)
        \/ Drive \/ WriteBack

Spec == Init /\ [][Next]_vars

\* The drive answers every command, a handler is executed to its end, and an
\* interrupted main goes on between two interrupts.
FairSpec == Spec /\ WF_vars(Drive)
                 /\ \A c \in Contexts \ {"main"} : WF_vars(Step(c))
                 /\ SF_vars(Step("main"))

-----------------------------------------------------------------------------
\* Type invariant.
TypeOK ==
  /\ drive \in Drives /\ capable \in BOOLEAN /\ advance \in BOOLEAN
  /\ regs.count \in Counts \cup {1}
  /\ dev.st \in {"idle", "busy", "drq", "failed"}
  /\ dev.op \in {"none", "read", "write", "flush"}
  /\ dev.left \in Nat /\ dev.data \in Place \cup {Old}
  /\ DOMAIN disk = Sector /\ cached \in BOOLEAN
  /\ pc \in [Contexts -> Pc] /\ i \in [Contexts -> Nat]
  /\ \A c \in Contexts : DOMAIN buf[c] = Place
  /\ mixed \in [Contexts -> BOOLEAN] /\ failed \in BOOLEAN /\ synced \in BOOLEAN

Done(c) == pc[c] = "done" /\ call[c].status = 0

\* A call that no other has spoilt in one of the three ways Call names; a sector
\* that CHS addresses as it should: from 64 on it does not.
Intact(c)  == ~mixed[c]
Exact(lba) == Mode(lba) = "chs" => lba < SectMask

\* What the build makes of place p of the buffer: one that does not move `buf`
\* reads every sector to the first place, and writes them all from there.
Got(c, p) == IF advance THEN call[c].lba + p
             ELSE IF p = 0 THEN call[c].lba + call[c].count - 1 ELSE Old
Sent(p)   == IF advance THEN p ELSE 0

\* A read that answers 0 has put the sectors asked for where the build puts
\* them, even if the drive fails at any sector and whatever handlers read
\* meanwhile, with four exceptions: a handler's read has begun between the writes
\* of main's command block, or between a sector's poll and its transfer; the
\* read itself has begun, as a handler's at main's poll does, while sectors of
\* another call were pending; CHS from sector 64 on (disk.c:432-531).
ReadTruthful ==
  \A c \in Contexts :
     Done(c) /\ call[c].op = "read" /\ Intact(c) /\ Exact(call[c].lba) =>
        \A p \in 0 .. call[c].count - 1 : buf[c][p] = Got(c, p)

\* At any moment and whatever fails a write has changed no sector but those it
\* was asked for, each to its own place of the buffer, unless a handler's read
\* has begun between the writes of its command block, or the write while
\* sectors were pending, or CHS is asked for a sector from 64 on.  Then it may
\* hit others, but even then no more than it was asked for, one behind the
\* other and in the buffer's order (disk.c:423-510, 534-547).
Changed == {s \in Sector : disk[s] # Old}
WriteConfined ==
  LET w == call["main"]
  IN /\ \A s \in Changed : w.op = "write" /\ disk[s] \in 0 .. w.count - 1
     /\ \A s, t \in Changed : /\ s - t < w.count
                             /\ disk[s] - disk[t] = Sent(s) - Sent(t)
     /\ Intact("main") /\ Exact(w.lba) =>
          \A s \in Changed : /\ s - w.lba \in 0 .. w.count - 1
                            /\ disk[s] = Sent(s - w.lba)

Written == LET w == call["main"]
           IN \A p \in 0 .. w.count - 1 :
                w.lba + p \in Sector /\ disk[w.lba + p] = Sent(p)

\* If the drive does not fail, a write that answers 0 has given it every sector
\* as the build sends them, although it never looks at what a poll returns; the
\* exceptions are WriteConfined's (disk.c:534-549).
WriteComplete ==
  /\ Done("main") /\ call["main"].op = "write" /\ ~failed
  /\ Intact("main") /\ Exact(call["main"].lba)
  => Written

\* Between calls the drive waits for no data: the next command will be heard,
\* unless main's last call was spoilt (disk.c:519-547).
DeviceQuiet ==
  (\A c \in Contexts : pc[c] = "idle") /\ Intact("main") => ~Pending

\* Every call returns if the drive answers its commands: no order of two
\* calls' port accesses makes a poll wait for a command that was not heard
\* (disk.c:177-182, 463-468).
AccessesEnd == \A c \in Contexts : pc[c] # "idle" ~> pc[c] = "idle"

\* What disk.c:558 and disk.c:575 say they refuse: a call that reaches the
\* drive seeks inside the disk.
SeeksInside ==
  \A c \in Contexts :
     pc[c] \notin {"idle", "done"} => call[c].lba + call[c].count <= DiskSize

\* What diskio.h says of RES_OK, for a write (diskio.c:52-56, disk.c:534-549).
WriteReported ==
  /\ Done("main") /\ call["main"].op = "write"
  /\ Intact("main") /\ Exact(call["main"].lba)
  => Written

\* What diskio.h says of CTRL_SYNC: no write is pending (diskio.c:64-67).
SyncCompletes == synced => ~cached
=============================================================================
