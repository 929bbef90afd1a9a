-------------------------------- MODULE Boot --------------------------------
(***************************************************************************)
(* The boot sequence (start_kernel and what it calls in main.c), the       *)
(* detection of drives (ide_initialize in disk.c), and the keyboard's      *)
(* commands (keybord_in), which can come anywhere after sti.  A handler    *)
(* runs to its end.  What main reads takes as long as pc stays where it    *)
(* is; how a digit typed meanwhile spoils it is Ide's matter, here it may  *)
(* come out either way.  FatFs and the drives are external.                *)
(***************************************************************************)
EXTENDS Keyboard

CONSTANT Machines  \* what is booted, and how much is typed on it

\* loader: is there a multiboot header; fb: the frame buffer it reports; drives:
\* two channels of two; ext2: the partition's type is 0x83; volume: there is a
\* FAT volume; hit: keys that are hit, `early` of them anywhere, `late` in all.
Unit    == 0 .. 3
Machine == [loader : BOOLEAN, fb : {"text", "rgb", "none", "other", "huge"},
            drives : [Unit -> {"ata", "atapi", "none"}],
            ext2 : BOOLEAN, volume : BOOLEAN,
            hit : SUBSET Keys, early : Nat, late : Nat]
ASSUME MachineAssumption == \A m \in Machines : m \in Machine

VARIABLES
  machine,
  pc,              \* where start_kernel is
  gates, unmasked, \* the IDT's gates for interrupts, and both masks
  iflag,           \* the interrupt flag
  screen0,         \* whose functions screen0 points to
  unit, ticks,     \* ide_initialize's i and j; milliseconds it still waits
  sel, dev,        \* per channel the drive selected; what each drive is doing
  ide_devices,     \* the drives that have been found
  mixed,           \* a key has used the channel that is looked at (history)
  astray,          \* main may have read what is not on its drive (history)
  registered,      \* FatFs knows a file system
  events           \* keys pressed, released, repeated

ide  == <<unit, ticks, sel, dev, ide_devices, mixed>>
arch == <<gates, unmasked, iflag>>
vars == <<machine, pc, arch, screen0, ide, astray, registered, events, keys>>

Steps == <<"uart", "multiboot", "mem", "screen", "pit", "kbd", "rtc",
           "cascade", "sti">>

Detecting == {"select", "identify", "status", "poll", "signature", "buffer"}
Reading   == {"mbr", "ext2", "mount", "scan", "getfree", "open"}
Ends      == {"end", "halted", "wild"}

Channel(u) == u \div 2
Slave(u)   == u % 2
Mate(u)    == 4 * Channel(u) + 1 - u
Selected(c) == 2 * c + sel[c]

\* The drive does not listen to the registers: see Ide.
Deaf(c) == dev[Selected(c)] \in {"busy", "data"}

-----------------------------------------------------------------------------
\* Faults: definitions of the next sections as a likely mistake leaves them;
\* none is part of the specification.
StiFirst     == <<"uart", "multiboot", "mem", "pit", "kbd", "rtc", "cascade",
                  "sti", "screen">>
NoPit(s)     == CASE s = "uart" -> {4} [] s = "kbd" -> {1} [] s = "rtc" -> {8}
                  [] s = "cascade" -> {2} [] OTHER -> {}
AlwaysMaster == 0
OneTooMany   == unit = 4

-----------------------------------------------------------------------------
\* reroute_irqs has masked everything; init_int has set the gates of spurious
\* interrupts.
Init ==
  /\ machine \in Machines
  /\ pc = "uart"
  /\ gates = {7, 15} /\ unmasked = {} /\ iflag = FALSE
  /\ screen0 = "null"
  /\ unit = 0 /\ ticks = 0
  /\ sel = [c \in 0 .. 1 |-> 0] /\ dev = [u \in Unit |-> "idle"]
  /\ ide_devices = <<>> /\ mixed = FALSE
  /\ astray = FALSE /\ registered = FALSE /\ events = 0
  /\ KeyboardInit

Order == Steps
After(s) == LET n == CHOOSE n \in DOMAIN Order : Order[n] = s
            IN  IF n = Len(Order) THEN "select" ELSE Order[n + 1]

\* set_intr_gate and enable_irq; the second controller's line has no gate.
Enables(s) == CASE s = "uart" -> {4} [] s = "pit" -> {0} [] s = "kbd" -> {1}
                [] s = "rtc" -> {8} [] s = "cascade" -> {2} [] OTHER -> {}

\* Without a header there is no memory to speak of: init_mem allocates no page
\* for the bitmap it copies.
Fits(s) == /\ s = "mem" => machine.loader
           /\ s = "screen" => machine.fb # "huge"

\* init_screen: without a tag the frame buffer is RGB, of size 0; another type
\* leaves screen0 as it is.
Functions(s) == IF s # "screen" THEN screen0
                ELSE CASE machine.fb = "text" -> "text"
                       [] machine.fb \in {"rgb", "none"} -> "graphic"
                       [] OTHER -> screen0

SetUp ==
  /\ \E n \in DOMAIN Order : pc = Order[n]
  /\ IF Fits(pc)
     THEN /\ pc' = After(pc)
          /\ unmasked' = unmasked \cup Enables(pc)
          /\ gates' = gates \cup (Enables(pc) \ {2})
          /\ iflag' = (iflag \/ pc = "sti")
          /\ screen0' = Functions(pc)
     ELSE pc' = "halted" /\ UNCHANGED <<arch, screen0>>
  /\ UNCHANGED <<machine, ide, astray, registered, events, keys>>

-----------------------------------------------------------------------------
\* ide_initialize, unit by unit.  It waits on ms_counter.
Wait == 2
LastUnit == unit = 3

Step(from, to) == pc = from /\ ticks = 0 /\ pc' = to
Others == <<machine, arch, screen0, astray, registered, events, keys>>

Next_unit ==
  IF LastUnit THEN pc' = "mbr" /\ UNCHANGED unit
  ELSE pc' = "select" /\ unit' = unit + 1

SlaveBit == Slave(unit)

Select ==
  /\ Step("select", "identify")
  /\ ticks' = Wait
  /\ sel' = IF Deaf(Channel(unit)) THEN sel ELSE [sel EXCEPT ![Channel(unit)] = SlaveBit]
  /\ UNCHANGED <<unit, dev, ide_devices, mixed, Others>>

\* IDENTIFY goes to the drive that is selected; one with packets refuses.
Send_identify ==
  /\ Step("identify", "status")
  /\ ticks' = Wait
  /\ LET u == Selected(Channel(unit))
     IN dev' = IF Deaf(Channel(unit)) THEN dev
               ELSE CASE machine.drives[u] = "ata"   -> [dev EXCEPT ![u] = "busy"]
                      [] machine.drives[u] = "atapi" -> [dev EXCEPT ![u] = "error"]
                      [] OTHER -> dev
  /\ UNCHANGED <<unit, sel, ide_devices, mixed, Others>>

\* No drive: 0 or, on a channel without any, what floats there, an error.
Status ==
  /\ pc = "status" /\ ticks = 0
  /\ LET u == Selected(Channel(unit))
     IN \/ machine.drives[u] = "none" /\ Next_unit
        \/ /\ machine.drives[u] # "none"
              \/ machine.drives[Mate(u)] = "none"
           /\ pc' = "poll" /\ UNCHANGED unit
  /\ UNCHANGED <<ticks, sel, dev, ide_devices, mixed, Others>>

\* The loop has no end but the drive's error or data.
Poll ==
  /\ pc = "poll"
  /\ LET u == Selected(Channel(unit))
     IN \/ machine.drives[u] = "none" /\ pc' = "signature"
        \/ dev[u] = "error" /\ pc' = "signature"
        \/ dev[u] = "data" /\ pc' = "buffer"
  /\ UNCHANGED <<ide, Others>>

Signature ==
  /\ pc = "signature"
  /\ LET u == Selected(Channel(unit))
     IN IF machine.drives[u] = "atapi"
        THEN /\ pc' = "packet" /\ ticks' = Wait
             /\ dev' = [dev EXCEPT ![u] = "busy"]
             /\ UNCHANGED unit
        ELSE Next_unit /\ UNCHANGED <<ticks, dev>>
  /\ UNCHANGED <<sel, ide_devices, mixed, Others>>

\* The buffer is read: after IDENTIFY PACKET without a look at the status.
Read_buffer ==
  /\ pc \in {"buffer", "packet"} /\ ticks = 0
  /\ LET u == Selected(Channel(unit))
     IN /\ ide_devices' = Append(ide_devices,
             [Type |-> IF pc = "buffer" THEN "ata" ELSE "atapi", unit |-> unit,
              of |-> IF dev[u] = "data" THEN {u} ELSE {}])
        /\ dev' = IF dev[u] = "data" THEN [dev EXCEPT ![u] = "idle"] ELSE dev
  /\ Next_unit
  /\ UNCHANGED <<ticks, sel, mixed, Others>>

\* The drives (external).
Drive ==
  \E u \in Unit :
    /\ dev[u] = "busy" /\ dev' = [dev EXCEPT ![u] = "data"]
    /\ UNCHANGED <<pc, unit, ticks, sel, ide_devices, mixed, Others>>

-----------------------------------------------------------------------------
\* A sector of device 0, if that is an ATA drive.  The registers of its channel
\* are written; a drive that does not listen there answers this read.
Readable == ide_devices # <<>> /\ ide_devices[1].Type = "ata"
Stale    == Readable /\ Deaf(Channel(ide_devices[1].unit))

ReadSector ==
  IF ~Readable THEN UNCHANGED <<sel, dev>>
  ELSE LET u == ide_devices[1].unit
           c == Channel(u)
       IN IF Stale
          THEN dev' = [dev EXCEPT ![Selected(c)] = "idle"] /\ UNCHANGED sel
          ELSE sel' = [sel EXCEPT ![c] = Slave(u)] /\ UNCHANGED dev

\* The rest of start_kernel.  Each step ends a few reads, which keys can have
\* interrupted: once one may have gone astray, what main finds is left open.
Amiss == astray \/ Stale

MainReads(from, to) ==
  /\ pc = from /\ pc' = to
  /\ ReadSector /\ astray' = Amiss
  /\ UNCHANGED <<machine, arch, screen0, unit, ticks, ide_devices, mixed, events,
                 keys>>

Read_mbr ==
  /\ \/ (Amiss \/ (Readable /\ machine.ext2)) /\ MainReads("mbr", "ext2")
     \/ (Amiss \/ ~(Readable /\ machine.ext2)) /\ MainReads("mbr", "mount")
  /\ UNCHANGED registered

\* ext2_init divides by what it has read.
Init_ext2 == /\ MainReads("ext2", "end") \/ (Amiss /\ MainReads("ext2", "wild"))
             /\ UNCHANGED registered

\* f_mount registers the file system whether or not it finds it.
Mount == MainReads("mount", "scan") /\ registered' = TRUE
Scan  == MainReads("scan", "getfree") /\ UNCHANGED registered

\* f_getfree sets fs only if it succeeds; what fs is otherwise, and whether a
\* read through it faults, is left open.
Mounts == registered /\ Readable /\ machine.volume

Get_free == /\ \/ MainReads("getfree", "open")
               \/ (~Mounts \/ Amiss) /\ MainReads("getfree", "wild")
            /\ UNCHANGED registered

Open == /\ \/ Mounts /\ MainReads("open", "write")
           \/ (~Mounts \/ Amiss) /\ MainReads("open", "end")
        /\ UNCHANGED registered

Move(from, to) == pc = from /\ pc' = to /\ UNCHANGED <<ide, Others>>

Main == \/ SetUp \/ Select \/ Send_identify \/ Status \/ Poll \/ Signature
        \/ Read_buffer \/ Read_mbr \/ Init_ext2 \/ Mount \/ Scan
        \/ Get_free \/ Open \/ Move("write", "close") \/ Move("close", "end")

-----------------------------------------------------------------------------
\* Interrupts reach a handler from sti on.
Delivers(n) == iflag /\ n \in unmasked /\ pc \notin {"halted", "wild"}

\* do_irq0.
Timer ==
  /\ Delivers(0) /\ ticks > 0 /\ ticks' = ticks - 1
  /\ UNCHANGED <<machine, pc, arch, screen0, unit, sel, dev, ide_devices, mixed,
                 astray, registered, events, keys>>

\* A digit reads a sector of device 0 too, also while the channel is looked at
\* and while main reads.
ReadDigit ==
  /\ ReadSector
  /\ mixed' = (mixed \/ (/\ Readable /\ pc \in Detecting \cup {"packet"}
                        /\ Channel(unit) = Channel(ide_devices[1].unit)))
  /\ astray' = (astray \/ (Readable /\ pc \in Reading))

\* keybord_in.  Letters command without Ctrl and Alt, function keys without
\* Shift too; through screen0 they call address 0 if nothing has set it, and
\* hiding copies the whole screen into 4000 bytes.
keybord_in(given) ==
  LET plain  == given # <<>> /\ "ctrl" \notin given[2]
      hits(ch) == plain /\ given[1] = ch
      calls  == hits("D") \/ (hits("F7") /\ given[2] = {})
  IN  /\ pc' = IF calls /\ screen0 = "null" THEN "halted"
               ELSE IF hits("D") /\ machine.fb = "rgb" THEN "wild"
               ELSE pc
      /\ registered' = (registered /\ ~hits("X"))
      /\ IF hits("1") THEN ReadDigit ELSE UNCHANGED <<sel, dev, mixed, astray>>
      /\ UNCHANGED <<machine, arch, screen0, unit, ticks, ide_devices, events>>

Key == Delivers(1) /\ do_irq1 /\ keybord_in(Given(Head(queue).code))

\* The typist, from sti on.
Type ==
  /\ iflag /\ pc \notin {"halted", "wild"}
  /\ events < (IF pc = "end" THEN machine.late ELSE machine.early)
  /\ events' = events + 1
  /\ \/ \E k \in machine.hit : Press(k) \/ Release(k)
     \/ Repeat
  /\ UNCHANGED <<machine, pc, arch, screen0, ide, astray, registered>>

\* The end of start_kernel, or of everything; or a loop that waits.
Idle == /\ pc \in Ends \cup {"poll"} \/ ticks > 0
        /\ UNCHANGED vars

Next == Main \/ Drive \/ Timer \/ Key \/ Type \/ Idle

Spec     == Init /\ [][Next]_vars
FairSpec == Spec /\ WF_vars(Main) /\ WF_vars(Drive) /\ WF_vars(Timer)

-----------------------------------------------------------------------------
\* Type invariant.
TypeOK ==
  /\ machine \in Machines
  /\ pc \in {Order[n] : n \in DOMAIN Order} \cup Detecting \cup Reading
            \cup Ends \cup {"packet", "write", "close"}
  /\ gates \cup unmasked \subseteq 0 .. 15 /\ iflag \in BOOLEAN
  /\ unit \in Unit /\ ticks \in 0 .. Wait
  /\ sel \in [0 .. 1 -> {0, 1}]
  /\ dev \in [Unit -> {"idle", "busy", "data", "error"}]
  /\ Len(ide_devices) <= unit + 1
  /\ \A u \in Unit : machine.drives[u] = "none" => dev[u] = "idle"
  /\ astray \in BOOLEAN /\ registered \in BOOLEAN /\ events \in Nat
  /\ KeyboardTypeOK

\* ide_devices lists the drives there are, in their order and each with its own
\* data; device 0 always, the others unless a key has read a sector on the
\* channel meanwhile or a drive with packets has not answered within the wait
\* (disk.c:284-372).
Late(d) == d.Type = "atapi" /\ d.of = {}

DevicesReal ==
  \A k \in DOMAIN ide_devices :
    k = 1 \/ (~mixed /\ \A n \in 1 .. k - 1 : ~Late(ide_devices[n])) =>
      LET d == ide_devices[k]
      IN  /\ machine.drives[d.unit] = d.Type
          /\ Late(d) \/ d.of = {d.unit}
          /\ {ide_devices[n].unit : n \in 1 .. k} =
               {u \in 0 .. d.unit : machine.drives[u] # "none"}

\* On a machine with a header, a console, and a file system of either kind on
\* the first drive, an ATA drive, no key typed after sti finds the console or an
\* interrupt unprepared, and start_kernel never halts.  Four things only make it
\* go wild: to hide a graphic console, whose frame buffer then overwrites the
\* kernel; to unmount the volume by hand before f_getfree; a digit typed while
\* main reads the MBR, the superblock or the volume, whose sector either can
\* take, or typed while the drives are detected, if that leaves a drive waiting;
\* and a packet drive on device 0's channel that answers late, to the read of
\* the MBR (main.c:329-344, 578-629; screen.c:319-323; disk.c:443-561).  It does
\* not say that the detection ends: see BootEnds.
Sound ==
  /\ machine.loader /\ machine.fb \in {"text", "rgb", "none"}
  /\ \E u \in Unit : /\ machine.drives[u] = "ata"
                     /\ \A v \in 0 .. u - 1 : machine.drives[v] = "none"
  /\ machine.ext2 \/ machine.volume

Hiding == machine.fb = "rgb" /\ typed # <<>> /\ typed.given[1] = "D"

BootSound ==
  /\ iflag => unmasked \ gates \subseteq {2}
  /\ Sound => pc # "halted" /\ (pc = "wild" => Hiding \/ ~registered \/ astray)

\* Boot ends, also with the keyboard at work, if the drives answer; unless a
\* digit has been typed while its channel was looked at, which can take from the
\* detection what it polls for without end (disk.c:319-327).
BootEnds == <>(pc \in Ends \/ mixed)
=============================================================================
