---------------------------- MODULE BootProofs ----------------------------
(***************************************************************************)
(* What Boot promises for every set of machines and whatever is typed:     *)
(* the drives start_kernel finds, and that it comes to its end.            *)
(***************************************************************************)
EXTENDS Boot, KeyboardProofs, TLAPS

Device  == [Type : {"ata", "atapi"}, unit : Unit, of : SUBSET Unit]
SetUps  == {"uart", "multiboot", "mem", "screen", "pit", "kbd", "rtc",
            "cascade", "sti"}
Probing == Detecting \cup {"packet"}
Mounting == {"mount", "scan", "getfree", "open", "write", "close"}
Found   == {"mbr", "ext2", "end"} \cup Mounting
Stopped == {"halted", "wild"}

Ranges ==
  /\ machine \in Machine
  /\ pc \in SetUps \cup Probing \cup Found \cup Stopped
  /\ unit \in Unit
  /\ sel \in [0 .. 1 -> {0, 1}]
  /\ dev \in [Unit -> {"idle", "busy", "data", "error"}]
  /\ ide_devices \in Seq(Device)

\* A unit is a drive of a channel.
LEMMA UnitFacts ==
  ASSUME NEW u \in Unit
  PROVE  /\ Channel(u) \in 0 .. 1 /\ Slave(u) \in {0, 1}
         /\ 2 * Channel(u) + Slave(u) = u
         /\ u \in 0 .. 3 /\ (u # 3 => u + 1 \in Unit)
  BY DEF Unit, Channel, Slave

LEMMA SelectedUnit ==
  ASSUME Ranges, NEW c \in 0 .. 1
  PROVE  Selected(c) \in Unit /\ Channel(Selected(c)) = c
                              /\ Slave(Selected(c)) = sel[c]
<1>1. sel[c] \in {0, 1}
  BY DEF Ranges
<1> QED BY <1>1 DEF Selected, Unit, Channel, Slave

\* A sector's read selects device 0, or quiets the drive that answers instead.
LEMMA SectorRead ==
  ASSUME Ranges, ReadSector
  PROVE  /\ sel' \in [0 .. 1 -> {0, 1}]
         /\ dev' \in [Unit -> {"idle", "busy", "data", "error"}]
         /\ \A v \in Unit : dev'[v] \in {dev[v], "idle"}
<1>0. /\ sel \in [0 .. 1 -> {0, 1}]
      /\ dev \in [Unit -> {"idle", "busy", "data", "error"}]
  BY DEF Ranges
<1>1. CASE ~Readable
  BY <1>0, <1>1 DEF ReadSector
<1>2. CASE Readable
  <2> DEFINE u == ide_devices[1].unit
             c == Channel(u)
  <2>1. u \in Unit
    <3>1. ide_devices[1] \in Device
      BY <1>2 DEF Readable, Ranges
    <3> QED BY <3>1 DEF Device
  <2>2. c \in 0 .. 1 /\ Slave(u) \in {0, 1} /\ Selected(c) \in Unit
    BY <2>1, UnitFacts, SelectedUnit
  <2>3. \/ dev' = [dev EXCEPT ![Selected(c)] = "idle"] /\ UNCHANGED sel
        \/ sel' = [sel EXCEPT ![c] = Slave(u)] /\ UNCHANGED dev
    BY <1>2 DEF ReadSector
  <2> HIDE DEF u, c
  <2> QED BY <1>0, <2>2, <2>3
<1> QED BY <1>1, <1>2

\* The order of start_kernel's calls (main.c:578-600).
LEMMA Orders ==
  /\ \A n \in DOMAIN Order : Order[n] \in SetUps
  /\ After("uart") = "multiboot" /\ After("multiboot") = "mem"
  /\ After("mem") = "screen" /\ After("screen") = "pit"
  /\ After("pit") = "kbd" /\ After("kbd") = "rtc" /\ After("rtc") = "cascade"
  /\ After("cascade") = "sti" /\ After("sti") = "select"
<1> DEFINE O == <<"uart", "multiboot", "mem", "screen", "pit", "kbd", "rtc",
                  "cascade", "sti">>
<1>1. Order = O
  BY DEF Order, Steps
<1>2. /\ DOMAIN O = 1 .. 9 /\ Len(O) = 9
      /\ O[1] = "uart" /\ O[2] = "multiboot" /\ O[3] = "mem" /\ O[4] = "screen"
      /\ O[5] = "pit" /\ O[6] = "kbd" /\ O[7] = "rtc" /\ O[8] = "cascade"
      /\ O[9] = "sti"
  OBVIOUS
<1> HIDE DEF O
<1>3. \A n \in DOMAIN Order : Order[n] \in SetUps
  <2>1. \A n \in 1 .. 9 : n = 1 \/ n = 2 \/ n = 3 \/ n = 4 \/ n = 5 \/ n = 6
                          \/ n = 7 \/ n = 8 \/ n = 9
    OBVIOUS
  <2> QED BY <1>1, <1>2, <2>1 DEF SetUps
<1>4. ASSUME NEW n \in 1 .. 9
      PROVE  After(O[n]) = IF n = 9 THEN "select" ELSE O[n + 1]
  <2>1. \A m \in 1 .. 9 : O[m] = O[n] => m = n
    BY <1>2
  <2>2. (CHOOSE m \in DOMAIN O : O[m] = O[n]) = n
    BY <1>2, <2>1
  <2> QED BY <1>1, <1>2, <2>2 DEF After
<1> QED BY <1>2, <1>3, <1>4

-----------------------------------------------------------------------------
\* Every step keeps the ranges.
LEMMA RangesInit == Init => Ranges
  BY MachineAssumption DEF Init, Ranges, Unit, SetUps

LEMMA RangesNext == Ranges /\ [Next]_vars => Ranges'
<1> SUFFICES ASSUME Ranges, [Next]_vars PROVE Ranges'
  OBVIOUS
<1> USE DEF Ranges
<1>u. /\ Channel(unit) \in 0 .. 1 /\ Slave(unit) \in {0, 1}
      /\ (~LastUnit => unit + 1 \in Unit)
      /\ Selected(Channel(unit)) \in Unit
  BY UnitFacts, SelectedUnit DEF LastUnit
<1>n. Next_unit => pc' \in {"mbr", "select"} /\ unit' \in Unit
  BY <1>u DEF Next_unit
<1>1. CASE SetUp
  <2>1. pc' \in SetUps \cup {"select", "halted"}
    BY <1>1, Orders DEF SetUp, SetUps
  <2> QED BY <1>1, <2>1 DEF SetUp, ide, Probing, Detecting, Stopped
<1>2. CASE Select
  BY <1>2, <1>u DEF Select, Step, Others, SlaveBit, Probing, Detecting
<1>3. CASE Send_identify
  BY <1>3, <1>u DEF Send_identify, Step, Others, Probing, Detecting
<1>4. CASE Status
  BY <1>4, <1>n DEF Status, Others, Probing, Detecting, Found
<1>5. CASE Poll
  BY <1>5 DEF Poll, ide, Others, Probing, Detecting
<1>6. CASE Signature
  BY <1>6, <1>u, <1>n DEF Signature, Others, Probing, Detecting, Found
<1>7. CASE Read_buffer
  <2> DEFINE u == Selected(Channel(unit))
             d == [Type |-> IF pc = "buffer" THEN "ata" ELSE "atapi", unit |-> unit,
                   of |-> IF dev[u] = "data" THEN {u} ELSE {}]
  <2>1. d \in Device
    BY <1>u DEF Device
  <2>2. ide_devices' = Append(ide_devices, d)
    BY <1>7 DEF Read_buffer
  <2> HIDE DEF d
  <2>3. ide_devices' \in Seq(Device)
    BY <2>1, <2>2
  <2> QED
    BY <1>7, <1>u, <1>n, <2>3 DEF Read_buffer, Others, Probing, Detecting, Found
<1>8. CASE \/ Read_mbr \/ Init_ext2 \/ Mount \/ Scan \/ Get_free \/ Open
           \/ Move("write", "close") \/ Move("close", "end")
  <2>1. CASE Move("write", "close") \/ Move("close", "end")
    BY <2>1 DEF Move, ide, Others, Found, Mounting
  <2>2. CASE \E p, q : MainReads(p, q) /\ q \in Found \cup Stopped
    BY <2>2, SectorRead DEF MainReads
  <2>3. Read_mbr \/ Init_ext2 \/ Mount \/ Scan \/ Get_free \/ Open =>
          \E p, q : MainReads(p, q) /\ q \in Found \cup Stopped
    BY DEF Read_mbr, Init_ext2, Mount, Scan, Get_free, Open, Found, Mounting,
           Stopped
  <2> QED BY <1>8, <2>1, <2>2, <2>3
<1>9. CASE Drive
  BY <1>9 DEF Drive, Others
<1>10. CASE Timer \/ Type \/ Idle \/ UNCHANGED vars
  BY <1>10 DEF Timer, Type, Idle, vars, ide
<1>11. CASE Key
  <2>1. /\ pc' \in {pc, "halted", "wild"}
        /\ UNCHANGED <<machine, unit, ide_devices>>
        /\ ReadDigit \/ UNCHANGED <<sel, dev>>
    BY <1>11 DEF Key, keybord_in
  <2>2. CASE UNCHANGED <<sel, dev>>
    BY <2>1, <2>2 DEF Stopped
  <2>3. CASE ReadDigit
    BY <2>1, <2>3, SectorRead DEF ReadDigit, Stopped
  <2> QED BY <2>1, <2>2, <2>3
<1> QED
  BY <1>1, <1>2, <1>3, <1>4, <1>5, <1>6, <1>7, <1>8, <1>9, <1>10, <1>11
     DEF Next, Main

-----------------------------------------------------------------------------
(* Detection.  While nothing has come between, only the drive that is       *)
(* looked at has something to say, and the list is complete up to it.       *)

Exists(u) == machine.drives[u] # "none"
Listed    == {ide_devices[n].unit : n \in DOMAIN ide_devices}
Trusted   == ~mixed /\ \A n \in DOMAIN ide_devices : ~Late(ide_devices[n])

Watched ==
  /\ \A u \in Unit : dev[u] \in {"busy", "data"} =>
       u = unit /\ pc \in {"status", "poll", "buffer", "packet"}
  /\ pc \in Probing \ {"select"} => sel[Channel(unit)] = Slave(unit)
  /\ pc \in {"status", "poll"} /\ machine.drives[unit] = "ata" =>
       dev[unit] \in {"busy", "data"}
  /\ pc \in {"status", "poll", "signature"} /\ machine.drives[unit] = "atapi" =>
       dev[unit] = "error"
  /\ pc = "signature" => machine.drives[unit] # "ata"
  /\ pc = "buffer" => machine.drives[unit] = "ata" /\ dev[unit] = "data"
  /\ pc = "packet" => /\ machine.drives[unit] = "atapi"
                      /\ dev[unit] \in {"busy", "data"}

Complete ==
  /\ pc \in Probing => Listed = {u \in 0 .. unit - 1 : Exists(u)}
  /\ pc \in Found => Listed = {u \in Unit : Exists(u)}

Detected ==
  /\ Ranges
  /\ ide_devices = <<>> => ~mixed
  /\ pc \in SetUps => unit = 0 /\ ide_devices = <<>>
  /\ \A u \in Unit : ~Exists(u) => dev[u] = "idle"
  /\ Trusted /\ pc \notin Stopped => Watched /\ Complete
  /\ DevicesReal

\* Before detection there are no drives.
LEMMA DetectedInit == Init => Detected
<1> SUFFICES ASSUME Init PROVE Detected
  OBVIOUS
<1>1. Ranges
  BY RangesInit
<1>2. /\ ide_devices = <<>> /\ ~mixed /\ pc = "uart" /\ unit = 0
      /\ \A u \in Unit : dev[u] = "idle"
  BY DEF Init
<1>3. DevicesReal
  BY <1>2 DEF DevicesReal
<1>4. Watched /\ Complete
  BY <1>2 DEF Watched, Complete, Probing, Detecting, Found, Mounting
<1> QED BY <1>1, <1>2, <1>3, <1>4 DEF Detected

\* What does not depend on the step.
LEMMA ListKept ==
  ASSUME UNCHANGED <<machine, ide_devices>>
  PROVE  /\ Listed' = Listed /\ \A u : Exists(u)' <=> Exists(u)
         /\ mixed' = mixed => (Trusted' <=> Trusted)
         /\ (mixed => mixed') => (Trusted' => Trusted)
  BY DEF Listed, Exists, Trusted, Late

LEMMA RealKept ==
  ASSUME DevicesReal, UNCHANGED <<machine, ide_devices>>, mixed => mixed'
  PROVE  DevicesReal'
  BY DEF DevicesReal, Late

\* The next unit, or the end, when the list is complete up to this one.
LEMMA NextUnit ==
  ASSUME Detected, Ranges', machine' = machine, Next_unit,
         Listed' = {u \in 0 .. unit : Exists(u)},
         \A u \in Unit : dev'[u] \notin {"busy", "data"}
  PROVE  Watched' /\ Complete'
<1>1. Watched'
  BY DEF Watched, Next_unit, Probing, Detecting
<1> SUFFICES Complete'
  BY <1>1
<1>2. unit \in Unit /\ Unit = 0 .. 3
  BY DEF Detected, Ranges, Unit
<1>3. CASE LastUnit
  <2>1. pc' = "mbr" /\ unit = 3
    BY <1>3 DEF Next_unit, LastUnit
  <2> QED
    BY <1>2, <2>1 DEF Complete, Probing, Detecting, Exists
<1>4. CASE ~LastUnit
  <2>1. pc' = "select" /\ unit' = unit + 1
    BY <1>4 DEF Next_unit
  <2>2. unit' - 1 = unit
    BY <1>2, <2>1
  <2> QED BY <2>1, <2>2 DEF Complete, Found, Mounting, Exists
<1> QED BY <1>3, <1>4

\* What a step that looks at a drive leaves alone.
LEMMA Lookups ==
  ASSUME Detected, [Next]_vars, UNCHANGED <<machine, ide_devices, mixed>>,
         pc' \notin SetUps,
         \A u \in Unit : ~Exists(u) => dev'[u] = "idle",
         Trusted /\ pc' \notin Stopped => Watched' /\ Complete'
  PROVE  Detected'
<1>1. Ranges' /\ DevicesReal'
  BY RangesNext, RealKept DEF Detected
<1>2. (Trusted' <=> Trusted) /\ \A u : Exists(u)' <=> Exists(u)
  BY ListKept
<1> QED BY <1>1, <1>2 DEF Detected

\* In step, the drive selected is the unit.
LEMMA InStep ==
  ASSUME Ranges, sel[Channel(unit)] = Slave(unit)
  PROVE  Selected(Channel(unit)) = unit
<1>1. unit \in Unit
  BY DEF Ranges
<1> QED BY <1>1, UnitFacts DEF Selected

\* The registers of the unit are written (disk.c:291-305).
LEMMA SelectStep == Detected /\ Select => Detected'
<1> SUFFICES ASSUME Detected, Select PROVE Detected'
  OBVIOUS
<1>1. /\ UNCHANGED <<machine, ide_devices, mixed, unit, dev>>
      /\ pc = "select" /\ pc' = "identify"
      /\ sel' = IF Deaf(Channel(unit)) THEN sel
                ELSE [sel EXCEPT ![Channel(unit)] = Slave(unit)]
  BY DEF Select, Step, Others, SlaveBit
<1>2. Ranges /\ unit \in Unit /\ Channel(unit) \in 0 .. 1
  BY UnitFacts DEF Detected, Ranges
<1>3. ASSUME Trusted
      PROVE  Watched' /\ Complete'
  <2>1. Watched /\ Complete
    BY <1>1, <1>3 DEF Detected, Stopped
  <2>2. ~Deaf(Channel(unit))
    BY <1>1, <1>2, <2>1, SelectedUnit DEF Watched, Deaf
  <2>3. sel'[Channel(unit)] = Slave(unit)
    BY <1>1, <1>2, <2>2 DEF Ranges
  <2>4. Watched'
    BY <1>1, <2>1, <2>3 DEF Watched
  <2>5. Complete'
    BY <1>1, <2>1 DEF Complete, Probing, Detecting, Found, Mounting, Listed, Exists
  <2> QED BY <2>4, <2>5
<1>4. \A u \in Unit : ~Exists(u) => dev'[u] = "idle"
  BY <1>1 DEF Detected
<1> QED BY <1>1, <1>3, <1>4, Lookups DEF SetUps, Next, Main

\* IDENTIFY goes to the unit (disk.c:306-308).
LEMMA IdentifyStep == Detected /\ Send_identify => Detected'
<1> SUFFICES ASSUME Detected, Send_identify PROVE Detected'
  OBVIOUS
<1> DEFINE u == Selected(Channel(unit))
<1>1. /\ UNCHANGED <<machine, ide_devices, mixed, unit, sel>>
      /\ pc = "identify" /\ pc' = "status"
      /\ dev' = IF Deaf(Channel(unit)) THEN dev
                ELSE CASE machine.drives[u] = "ata"   -> [dev EXCEPT ![u] = "busy"]
                       [] machine.drives[u] = "atapi" -> [dev EXCEPT ![u] = "error"]
                       [] OTHER -> dev
  BY DEF Send_identify, Step, Others
<1>2. /\ Ranges /\ unit \in Unit /\ Channel(unit) \in 0 .. 1 /\ u \in Unit
      /\ machine.drives \in [Unit -> {"ata", "atapi", "none"}]
      /\ dev \in [Unit -> {"idle", "busy", "data", "error"}]
  BY UnitFacts, SelectedUnit DEF Detected, Ranges, Machine
<1>3. \A v \in Unit : ~Exists(v) => dev'[v] = "idle"
  <2>1. \A v \in Unit : ~Exists(v) => dev[v] = "idle"
    BY DEF Detected
  <2> HIDE DEF u
  <2>2. \/ dev' = dev
        \/ machine.drives[u] # "none" /\ \E x : dev' = [dev EXCEPT ![u] = x]
    BY <1>1
  <2> QED BY <1>2, <2>1, <2>2 DEF Exists
<1>4. ASSUME Trusted
      PROVE  Watched' /\ Complete'
  <2>1. Watched /\ Complete
    BY <1>1, <1>4 DEF Detected, Stopped
  <2>2. sel[Channel(unit)] = Slave(unit)
    BY <1>1, <2>1 DEF Watched, Probing, Detecting
  <2>3. u = unit
    BY <1>2, <2>2, InStep
  <2>4. \A v \in Unit : dev[v] \notin {"busy", "data"}
    BY <1>1, <2>1 DEF Watched
  <2>5. ~Deaf(Channel(unit))
    BY <1>2, <2>4 DEF Deaf
  <2> HIDE DEF u
  <2>6. dev' = CASE machine.drives[unit] = "ata"   -> [dev EXCEPT ![unit] = "busy"]
                 [] machine.drives[unit] = "atapi" -> [dev EXCEPT ![unit] = "error"]
                 [] OTHER -> dev
    BY <1>1, <2>3, <2>5
  <2>7. Watched'
    BY <1>1, <1>2, <2>2, <2>4, <2>6 DEF Watched
  <2>8. Complete'
    BY <1>1, <2>1 DEF Complete, Probing, Detecting, Found, Mounting, Listed, Exists
  <2> QED BY <2>7, <2>8
<1> HIDE DEF u
<1> QED BY <1>1, <1>3, <1>4, Lookups DEF SetUps, Next, Main

\* The unit's status is read, once (disk.c:309-313).
LEMMA StatusStep == Detected /\ Status => Detected'
<1> SUFFICES ASSUME Detected, Status PROVE Detected'
  OBVIOUS
<1> DEFINE u == Selected(Channel(unit))
<1>1. /\ UNCHANGED <<machine, ide_devices, mixed, sel, dev>> /\ pc = "status"
      /\ \/ machine.drives[u] = "none" /\ Next_unit
         \/ pc' = "poll" /\ unit' = unit
  BY DEF Status, Others
<1>2. /\ Ranges /\ Ranges' /\ unit \in Unit
      /\ \A v \in Unit : ~Exists(v) => dev[v] = "idle"
  BY RangesNext DEF Detected, Ranges, Next, Main
<1>3. ASSUME Trusted
      PROVE  Watched' /\ Complete'
  <2>1. Watched /\ Complete
    BY <1>1, <1>3 DEF Detected, Stopped
  <2>2. u = unit
    BY <1>1, <1>2, <2>1, InStep DEF Watched, Probing, Detecting
  <2>3. CASE machine.drives[u] = "none" /\ Next_unit
    <3>1. ~Exists(unit) /\ Listed' = Listed
      BY <1>1, <2>2, <2>3, ListKept DEF Exists
    <3>2. Listed = {v \in 0 .. unit - 1 : Exists(v)}
      BY <1>1, <2>1 DEF Complete, Probing, Detecting
    <3>3. Listed' = {v \in 0 .. unit : Exists(v)}
      BY <1>2, <3>1, <3>2 DEF Unit
    <3>4. \A v \in Unit : dev'[v] \notin {"busy", "data"}
      BY <1>1, <1>2, <2>1, <3>1 DEF Watched
    <3> QED BY <1>1, <1>2, <2>3, <3>3, <3>4, NextUnit
  <2>4. CASE pc' = "poll" /\ unit' = unit
    <3>1. Watched'
      BY <1>1, <2>1, <2>4 DEF Watched, Probing, Detecting
    <3>2. Complete'
      BY <1>1, <2>1, <2>4
         DEF Complete, Probing, Detecting, Found, Mounting, Listed, Exists
    <3> QED BY <3>1, <3>2
  <2> QED BY <1>1, <2>3, <2>4
<1>4. pc' \notin SetUps
  BY <1>1 DEF SetUps, Next_unit
<1> QED BY <1>1, <1>2, <1>3, <1>4, Lookups DEF Next, Main

\* The drive has data or has refused (disk.c:315-327).
LEMMA PollStep == Detected /\ Poll => Detected'
<1> SUFFICES ASSUME Detected, Poll PROVE Detected'
  OBVIOUS
<1> DEFINE u == Selected(Channel(unit))
<1>1. /\ UNCHANGED <<machine, ide_devices, mixed, sel, dev, unit>> /\ pc = "poll"
      /\ \/ machine.drives[u] = "none" /\ pc' = "signature"
         \/ dev[u] = "error" /\ pc' = "signature"
         \/ dev[u] = "data" /\ pc' = "buffer"
  BY DEF Poll, Others, ide
<1>2. /\ Ranges /\ unit \in Unit
      /\ \A v \in Unit : ~Exists(v) => dev[v] = "idle"
      /\ machine.drives \in [Unit -> {"ata", "atapi", "none"}]
  BY DEF Detected, Ranges, Machine
<1>3. ASSUME Trusted
      PROVE  Watched' /\ Complete'
  <2>1. Watched /\ Complete
    BY <1>1, <1>3 DEF Detected, Stopped
  <2>2. u = unit
    BY <1>1, <1>2, <2>1, InStep DEF Watched, Probing, Detecting
  <2> HIDE DEF u
  <2>3. Watched'
    BY <1>1, <1>2, <2>1, <2>2 DEF Watched, Probing, Detecting, Exists
  <2>4. Complete'
    BY <1>1, <2>1
       DEF Complete, Probing, Detecting, Found, Mounting, Listed, Exists
  <2> QED BY <2>3, <2>4
<1> QED BY <1>1, <1>2, <1>3, Lookups DEF SetUps, Next, Main

\* A drive with packets is asked once more (disk.c:329-345).
LEMMA SignatureStep == Detected /\ Signature => Detected'
<1> SUFFICES ASSUME Detected, Signature PROVE Detected'
  OBVIOUS
<1> DEFINE u == Selected(Channel(unit))
<1>1. /\ UNCHANGED <<machine, ide_devices, mixed, sel>> /\ pc = "signature"
      /\ \/ /\ machine.drives[u] = "atapi" /\ pc' = "packet" /\ unit' = unit
            /\ dev' = [dev EXCEPT ![u] = "busy"]
         \/ machine.drives[u] # "atapi" /\ Next_unit /\ dev' = dev
  BY DEF Signature, Others
<1>2. /\ Ranges /\ Ranges' /\ unit \in Unit /\ Channel(unit) \in 0 .. 1
      /\ \A v \in Unit : ~Exists(v) => dev[v] = "idle"
      /\ machine.drives \in [Unit -> {"ata", "atapi", "none"}]
      /\ dev \in [Unit -> {"idle", "busy", "data", "error"}]
  BY UnitFacts, RangesNext DEF Detected, Ranges, Machine, Next, Main
<1>u. u \in Unit
  BY <1>2, SelectedUnit
<1>3. ASSUME Trusted
      PROVE  Watched' /\ Complete'
  <2>1. Watched /\ Complete
    BY <1>1, <1>3 DEF Detected, Stopped
  <2>2. u = unit /\ sel[Channel(unit)] = Slave(unit)
    BY <1>1, <1>2, <2>1, InStep DEF Watched, Probing, Detecting
  <2> HIDE DEF u
  <2>3. \A v \in Unit : dev[v] \notin {"busy", "data"}
    BY <1>1, <2>1 DEF Watched
  <2>4. CASE machine.drives[u] # "atapi"
    <3>1. Next_unit /\ dev' = dev
      BY <1>1, <2>4
    <3>2. ~Exists(unit) /\ Listed' = Listed
      BY <1>1, <1>2, <2>1, <2>2, <2>4, ListKept DEF Exists, Watched
    <3>3. Listed = {v \in 0 .. unit - 1 : Exists(v)}
      BY <1>1, <2>1 DEF Complete, Probing, Detecting
    <3>4. Listed' = {v \in 0 .. unit : Exists(v)}
      BY <1>2, <3>2, <3>3 DEF Unit
    <3> QED BY <1>1, <1>2, <2>3, <3>1, <3>4, NextUnit
  <2>5. CASE machine.drives[u] = "atapi"
    <3>1. pc' = "packet" /\ unit' = unit /\ dev' = [dev EXCEPT ![unit] = "busy"]
      BY <1>1, <2>2, <2>5
    <3>2. Watched'
      BY <1>1, <1>2, <2>2, <2>3, <2>5, <3>1 DEF Watched, Probing, Detecting
    <3>3. Complete'
      BY <1>1, <2>1, <3>1
         DEF Complete, Probing, Detecting, Found, Mounting, Listed, Exists
    <3> QED BY <3>2, <3>3
  <2> QED BY <2>4, <2>5
<1>4. pc' \notin SetUps
  BY <1>1 DEF SetUps, Next_unit
<1>5. \A v \in Unit : ~Exists(v) => dev'[v] = "idle"
  <2> HIDE DEF u
  <2> QED BY <1>1, <1>2, <1>u DEF Exists
<1> QED BY <1>1, <1>3, <1>4, <1>5, Lookups DEF Next, Main

\* The list with one more device.
LEMMA Longer ==
  ASSUME Ranges, NEW d \in Device, ide_devices' = Append(ide_devices, d)
  PROVE  LET k == Len(ide_devices) + 1
         IN  /\ Len(ide_devices) \in Nat /\ k \in 1 .. k
             /\ DOMAIN ide_devices = 1 .. Len(ide_devices)
             /\ DOMAIN ide_devices' = 1 .. k
             /\ ide_devices'[k] = d
             /\ \A n \in 1 .. Len(ide_devices) :
                  n \in 1 .. k /\ ide_devices'[n] = ide_devices[n]
             /\ Listed' = Listed \cup {d.unit}
             /\ Listed' = {ide_devices'[n].unit : n \in 1 .. k}
<1> DEFINE L == Len(ide_devices)
           k == L + 1
<1>1. ide_devices \in Seq(Device)
  BY DEF Ranges
<1>2. L \in Nat /\ DOMAIN ide_devices = 1 .. L
  BY <1>1
<1>3. /\ DOMAIN ide_devices' = 1 .. k
      /\ ide_devices'[k] = d
      /\ \A n \in 1 .. L : ide_devices'[n] = ide_devices[n]
  BY <1>1
<1> HIDE DEF L
<1>4. 1 .. k = 1 .. L \cup {k} /\ k \in 1 .. k
  BY <1>2
<1>5. Listed' = {ide_devices'[n].unit : n \in 1 .. k}
  BY <1>3 DEF Listed
<1> HIDE DEF k
<1>6. Listed' = Listed \cup {d.unit}
  BY <1>2, <1>3, <1>4, <1>5 DEF Listed
<1> QED BY <1>2, <1>3, <1>4, <1>5, <1>6 DEF L, k

\* DevicesReal, of one device.
Real(k) ==
  k = 1 \/ (~mixed /\ \A n \in 1 .. k - 1 : ~Late(ide_devices[n])) =>
    LET d == ide_devices[k]
    IN  /\ machine.drives[d.unit] = d.Type
        /\ Late(d) \/ d.of = {d.unit}
        /\ {ide_devices[n].unit : n \in 1 .. k} =
             {u \in 0 .. d.unit : machine.drives[u] # "none"}

\* The drive is added to the list, with the data there is (disk.c:347-371).
LEMMA ReadBufferStep == Detected /\ Read_buffer => Detected'
<1> SUFFICES ASSUME Detected, Read_buffer PROVE Detected'
  OBVIOUS
<1> DEFINE u == Selected(Channel(unit))
           d == [Type |-> IF pc = "buffer" THEN "ata" ELSE "atapi", unit |-> unit,
                 of |-> IF dev[u] = "data" THEN {u} ELSE {}]
           L == Len(ide_devices)
           k == L + 1
<1>1. /\ UNCHANGED <<machine, mixed, sel>> /\ pc \in {"buffer", "packet"}
      /\ ide_devices' = Append(ide_devices, d)
      /\ dev' = IF dev[u] = "data" THEN [dev EXCEPT ![u] = "idle"] ELSE dev
      /\ Next_unit
  BY DEF Read_buffer, Others
<1>2. /\ Ranges /\ Ranges' /\ unit \in Unit /\ Channel(unit) \in 0 .. 1
      /\ \A v \in Unit : ~Exists(v) => dev[v] = "idle"
      /\ dev \in [Unit -> {"idle", "busy", "data", "error"}]
  BY UnitFacts, RangesNext DEF Detected, Ranges, Next, Main
<1>u. u \in Unit
  BY <1>2, SelectedUnit
<1>d. /\ d.Type = (IF pc = "buffer" THEN "ata" ELSE "atapi") /\ d.unit = unit
      /\ d.of = (IF dev[u] = "data" THEN {u} ELSE {})
      /\ d \in Device
  BY <1>2, <1>u DEF Device
<1> HIDE DEF d
<1>3. /\ L \in Nat /\ k \in 1 .. k
      /\ DOMAIN ide_devices = 1 .. L /\ DOMAIN ide_devices' = 1 .. k
      /\ ide_devices'[k] = d
      /\ \A n \in 1 .. L : n \in 1 .. k /\ ide_devices'[n] = ide_devices[n]
      /\ Listed' = Listed \cup {unit}
      /\ Listed' = {ide_devices'[n].unit : n \in 1 .. k}
  BY <1>1, <1>2, <1>d, Longer
<1> HIDE DEF u
<1>4. ASSUME Trusted
      PROVE  /\ u = unit /\ Watched
             /\ machine.drives[unit] = d.Type
             /\ Late(d) \/ d.of = {unit}
             /\ Listed' = {v \in 0 .. unit : Exists(v)}
  <2>1. Watched /\ Complete
    BY <1>1, <1>4 DEF Detected, Stopped
  <2>2. u = unit
    BY <1>1, <1>2, <2>1, InStep DEF Watched, Probing, Detecting, u
  <2>3. machine.drives[unit] = d.Type /\ (Late(d) \/ d.of = {unit})
    BY <1>1, <1>d, <2>1, <2>2 DEF Watched, Late
  <2>4. Exists(unit)
    BY <1>1, <1>d, <2>3 DEF Exists
  <2>5. Listed = {v \in 0 .. unit - 1 : Exists(v)}
    BY <1>1, <2>1 DEF Complete, Probing, Detecting
  <2>6. Listed' = {v \in 0 .. unit : Exists(v)}
    BY <1>2, <1>3, <2>4, <2>5 DEF Unit
  <2> QED BY <2>1, <2>2, <2>3, <2>6
<1>5. ide_devices = <<>> => Trusted
  BY DEF Detected, Trusted
<1>6. Trusted' => Trusted /\ ~Late(d)
  BY <1>1, <1>3 DEF Trusted, Late
<1>7. ASSUME Trusted'
      PROVE  Watched' /\ Complete'
  <2>1. /\ Trusted /\ ~Late(d) /\ u = unit /\ Watched
        /\ Listed' = {v \in 0 .. unit : Exists(v)}
    BY <1>4, <1>6, <1>7
  <2>2. dev[unit] = "data"
    BY <1>1, <1>d, <2>1 DEF Late, Watched
  <2>3. \A v \in Unit : dev'[v] \notin {"busy", "data"}
    BY <1>1, <1>2, <2>1, <2>2 DEF Watched
  <2> QED BY <1>1, <1>2, <2>1, <2>3, NextUnit
<1>8. DevicesReal'
  <2>0. DevicesReal' <=> \A n \in DOMAIN ide_devices' : Real(n)'
    BY DEF DevicesReal, Real
  <2> HIDE DEF k
  <2> SUFFICES ASSUME NEW n \in 1 .. k PROVE Real(n)'
    BY <2>0, <1>3
  <2> SUFFICES ASSUME n = 1 \/ (~mixed /\ \A m \in 1 .. n - 1 : ~Late(ide_devices'[m]))
               PROVE  LET e == ide_devices'[n]
                      IN  /\ machine.drives[e.unit] = e.Type
                          /\ Late(e) \/ e.of = {e.unit}
                          /\ {ide_devices'[m].unit : m \in 1 .. n} =
                               {v \in 0 .. e.unit : machine.drives[v] # "none"}
    BY <1>1, Zenon DEF Real, Late
  <2> USE DEF k
  <2>1. CASE n = k
    <3>1. Trusted
      <4>1. CASE n = 1
        <5>1. L = 0
          BY <1>3, <2>1, <4>1
        <5>2. ide_devices = <<>>
          BY <1>2, <5>1 DEF Ranges
        <5> QED BY <5>2, <1>5
      <4>2. CASE ~mixed /\ \A m \in 1 .. n - 1 : ~Late(ide_devices'[m])
        <5>1. n - 1 = L
          BY <1>3, <2>1
        <5>2. \A m \in 1 .. L : ~Late(ide_devices[m])
          BY <1>3, <4>2, <5>1
        <5> QED BY <1>3, <4>2, <5>2 DEF Trusted
      <4> QED BY <4>1, <4>2
    <3>2. /\ machine.drives[unit] = d.Type /\ (Late(d) \/ d.of = {unit})
          /\ Listed' = {v \in 0 .. unit : Exists(v)}
      BY <1>4, <3>1
    <3> QED BY <1>3, <1>d, <2>1, <3>2 DEF Exists
  <2>2. CASE n # k
    <3>1. n \in 1 .. L /\ \A m \in 1 .. n : m \in 1 .. L
      BY <1>3, <2>2
    <3>2. \A m \in 1 .. n : ide_devices'[m] = ide_devices[m]
      BY <1>3, <3>1
    <3>3. n \in 1 .. n /\ \A m \in 1 .. n - 1 : m \in 1 .. n
      BY <1>3, <3>1
    <3>4. n = 1 \/ (~mixed /\ \A m \in 1 .. n - 1 : ~Late(ide_devices[m]))
      BY <3>2, <3>3
    <3>5. LET e == ide_devices[n]
          IN  /\ machine.drives[e.unit] = e.Type
              /\ Late(e) \/ e.of = {e.unit}
              /\ {ide_devices[m].unit : m \in 1 .. n} =
                   {v \in 0 .. e.unit : machine.drives[v] # "none"}
      BY <1>3, <3>1, <3>4 DEF Detected, DevicesReal
    <3>6. {ide_devices'[m].unit : m \in 1 .. n} = {ide_devices[m].unit : m \in 1 .. n}
      BY <3>2
    <3> QED BY <3>2, <3>3, <3>5, <3>6
  <2> QED BY <2>1, <2>2
<1>9. pc' \notin SetUps /\ ide_devices' # <<>>
  BY <1>1, <1>3 DEF SetUps, Next_unit
<1>10. \A v \in Unit : ~Exists(v)' => dev'[v] = "idle"
  BY <1>1, <1>2, <1>u DEF Exists
<1> QED BY <1>2, <1>7, <1>8, <1>9, <1>10 DEF Detected

\* Steps that leave the list, and may mix a key's read into the detection.
LEMMA Besides ==
  ASSUME Detected, [Next]_vars, UNCHANGED <<machine, ide_devices, unit>>,
         mixed => mixed', ide_devices = <<>> => (mixed' => mixed),
         pc' \in SetUps => pc \in SetUps,
         \A u \in Unit : ~Exists(u) => dev'[u] = "idle",
         Trusted /\ Trusted' /\ pc' \notin Stopped => Watched' /\ Complete'
  PROVE  Detected'
<1>1. Ranges' /\ DevicesReal'
  BY RangesNext, RealKept DEF Detected
<1>2. (Trusted' => Trusted) /\ \A u : Exists(u)' <=> Exists(u)
  BY ListKept
<1> QED BY <1>1, <1>2 DEF Detected

\* The calls before ide_initialize (main.c:578-600).
LEMMA SetUpStep == Detected /\ SetUp => Detected'
<1> SUFFICES ASSUME Detected, SetUp PROVE Detected'
  OBVIOUS
<1>1. /\ UNCHANGED <<machine, ide_devices, unit, mixed, sel, dev>>
      /\ pc \in SetUps /\ pc' \in SetUps \cup {"select", "halted"}
  BY Orders DEF SetUp, SetUps, ide
<1>2. unit = 0 /\ ide_devices = <<>>
  BY <1>1 DEF Detected
<1>3. \A u \in Unit : ~Exists(u) => dev'[u] = "idle"
  BY <1>1 DEF Detected
<1>4. ASSUME Trusted, pc' \notin Stopped
      PROVE  Watched' /\ Complete'
  <2>1. Watched
    BY <1>1, <1>4 DEF Detected, Stopped, SetUps
  <2>2. Watched'
    BY <1>1, <2>1, <1>4 DEF Watched, SetUps, Probing, Detecting, Stopped
  <2>3. Listed' = {}
    BY <1>1, <1>2 DEF Listed
  <2>4. {u \in 0 .. unit' - 1 : Exists(u)'} = {}
    BY <1>1, <1>2
  <2>5. Complete'
    BY <1>1, <2>3, <2>4, <1>4
       DEF Complete, SetUps, Probing, Detecting, Found, Mounting, Stopped
  <2> QED BY <2>2, <2>5
<1>5. Ranges' /\ DevicesReal' /\ (Trusted' <=> Trusted)
  BY <1>1, RangesNext, RealKept, ListKept DEF Detected, Next, Main
<1> QED BY <1>1, <1>2, <1>3, <1>4, <1>5 DEF Detected, Exists

\* What start_kernel does with the drives (main.c:601-634).
AfterDetection ==
  \/ Read_mbr \/ Init_ext2 \/ Mount \/ Scan \/ Get_free \/ Open
  \/ Move("write", "close") \/ Move("close", "end")

\* All of it but the last two steps reads.
LEMMA Rest ==
  ASSUME AfterDetection
  PROVE  \/ \E p, q : MainReads(p, q) /\ p \in Found /\ q \in Found \cup {"wild"}
         \/ \E p, q : Move(p, q) /\ p \in Found /\ q \in Found
BY DEF AfterDetection, Read_mbr, Init_ext2, Mount, Scan, Get_free, Open, Found,
       Mounting

LEMMA MountStep == Detected /\ AfterDetection => Detected'
<1> SUFFICES ASSUME Detected, AfterDetection PROVE Detected'
  OBVIOUS
<1>0. Ranges
  BY DEF Detected
<1>1. /\ UNCHANGED <<machine, ide_devices, unit, mixed>>
      /\ \A v \in Unit : dev'[v] \in {dev[v], "idle"}
      /\ pc \in Found /\ pc' \in Found \cup {"wild"}
  <2>1. CASE \E p, q : MainReads(p, q) /\ p \in Found /\ q \in Found \cup {"wild"}
    BY <1>0, <2>1, SectorRead DEF MainReads
  <2>2. CASE \E p, q : Move(p, q) /\ p \in Found /\ q \in Found
    BY <2>2 DEF Move, ide, Others
  <2> QED BY <2>1, <2>2, Rest
<1>2. pc \notin Stopped /\ pc' \notin SetUps \cup Probing
  BY <1>1 DEF Found, Mounting, Stopped, SetUps, Probing, Detecting
<1>3. ASSUME Trusted, pc' \notin Stopped
      PROVE  Watched' /\ Complete'
  <2>1. Watched /\ Complete
    BY <1>2, <1>3 DEF Detected
  <2>2. Watched'
    BY <1>1, <1>2, <2>1 DEF Watched, Probing, Detecting, Found, Mounting
  <2>3. Complete'
    BY <1>1, <1>2, <1>3, <2>1 DEF Complete, Stopped, Listed, Exists
  <2> QED BY <2>2, <2>3
<1>4. \A u \in Unit : ~Exists(u) => dev'[u] = "idle"
  BY <1>1 DEF Detected
<1> QED BY <1>1, <1>2, <1>3, <1>4, Lookups DEF Next, Main, AfterDetection

\* A drive has its data.
LEMMA DriveStep == Detected /\ Drive => Detected'
<1> SUFFICES ASSUME Detected, Drive PROVE Detected'
  OBVIOUS
<1>1. /\ UNCHANGED <<machine, ide_devices, unit, mixed, sel, pc>>
      /\ \E u \in Unit : dev[u] = "busy" /\ dev' = [dev EXCEPT ![u] = "data"]
  BY DEF Drive, Others
<1>2. PICK u \in Unit : dev[u] = "busy" /\ dev' = [dev EXCEPT ![u] = "data"]
  BY <1>1
<1>3. dev \in [Unit -> {"idle", "busy", "data", "error"}]
  BY DEF Detected, Ranges
<1>4. \A v \in Unit : ~Exists(v) => dev'[v] = "idle"
  BY <1>2, <1>3 DEF Detected
<1>5. ASSUME Trusted, pc' \notin Stopped
      PROVE  Watched' /\ Complete'
  <2>1. Watched /\ Complete
    BY <1>1, <1>5 DEF Detected
  <2>2. Watched'
    BY <1>1, <1>2, <1>3, <2>1 DEF Watched
  <2>3. Complete'
    BY <1>1, <2>1 DEF Complete, Listed, Exists
  <2> QED BY <2>2, <2>3
<1> QED BY <1>1, <1>4, <1>5, Besides DEF Next

\* Steps that look at no drive.
LEMMA AsideStep == Detected /\ (Timer \/ Type \/ Idle \/ UNCHANGED vars) => Detected'
<1> SUFFICES ASSUME Detected, Timer \/ Type \/ Idle \/ UNCHANGED vars PROVE Detected'
  OBVIOUS
<1>1. UNCHANGED <<machine, ide_devices, unit, mixed, sel, dev, pc>>
  BY DEF Timer, Type, Idle, vars, ide
<1>2. ASSUME Trusted, pc' \notin Stopped
      PROVE  Watched' /\ Complete'
  <2>1. Watched /\ Complete
    BY <1>1, <1>2 DEF Detected
  <2> QED BY <1>1, <2>1 DEF Watched, Complete, Listed, Exists
<1>3. \A u \in Unit : ~Exists(u) => dev'[u] = "idle"
  BY <1>1 DEF Detected
<1> QED BY <1>1, <1>2, <1>3, Besides DEF Next

\* A key's read on the channel that is looked at says so; one on the other
\* finds no drive there that has something to say (main.c:356-362).
LEMMA KeyStep == Detected /\ Key => Detected'
<1> SUFFICES ASSUME Detected, Key PROVE Detected'
  OBVIOUS
<1>1. /\ UNCHANGED <<machine, ide_devices, unit>>
      /\ pc \notin Stopped /\ pc' \in {pc, "halted", "wild"}
      /\ ReadDigit \/ UNCHANGED <<sel, dev, mixed>>
  BY DEF Key, Delivers, keybord_in, Stopped
<1>2. /\ Ranges /\ sel \in [0 .. 1 -> {0, 1}]
      /\ dev \in [Unit -> {"idle", "busy", "data", "error"}]
      /\ \A v \in Unit : ~Exists(v) => dev[v] = "idle"
      /\ unit \in Unit /\ Channel(unit) \in 0 .. 1
  BY UnitFacts DEF Detected, Ranges
<1>3. pc' \in SetUps => pc \in SetUps
  BY <1>1 DEF SetUps
<1>4. CASE UNCHANGED <<sel, dev>> /\ (mixed' <=> mixed)
  <2>1. ASSUME Trusted, pc' \notin Stopped
        PROVE  Watched' /\ Complete'
    <3>1. Watched /\ Complete /\ pc' = pc
      BY <1>1, <2>1 DEF Detected, Stopped
    <3> QED BY <1>1, <1>4, <3>1 DEF Watched, Complete, Listed, Exists
  <2> QED BY <1>1, <1>2, <1>3, <1>4, <2>1, Besides DEF Next
<1>5. CASE ReadDigit /\ ~Readable
  <2>1. UNCHANGED <<sel, dev>> /\ (mixed' <=> mixed)
    BY <1>5 DEF ReadDigit, ReadSector, Detected
  <2> QED BY <1>4, <2>1
<1>6. CASE ReadDigit /\ Readable
  <2> DEFINE u == ide_devices[1].unit
             c == Channel(u)
  <2>1. ide_devices # <<>> /\ u \in Unit
    <3>1. ide_devices # <<>> /\ ide_devices[1] \in Device
      BY <1>2, <1>6 DEF Readable, Ranges
    <3> QED BY <3>1 DEF Device
  <2>2. /\ c \in 0 .. 1 /\ Slave(u) \in {0, 1}
        /\ Selected(c) \in Unit /\ Channel(Selected(c)) = c
    BY <1>2, <2>1, UnitFacts, SelectedUnit
  <2>3. /\ \/ /\ Deaf(c) /\ sel' = sel
              /\ dev' = [dev EXCEPT ![Selected(c)] = "idle"]
           \/ /\ ~Deaf(c) /\ dev' = dev
              /\ sel' = [sel EXCEPT ![c] = Slave(u)]
        /\ mixed' = (mixed \/ (pc \in Probing /\ Channel(unit) = c))
    BY <1>6 DEF ReadDigit, ReadSector, Stale, Probing
  <2> HIDE DEF u, c
  <2>4. \A v \in Unit : ~Exists(v) => dev'[v] = "idle"
    BY <1>2, <2>2, <2>3
  <2>5. ASSUME Trusted, Trusted', pc' \notin Stopped
        PROVE  Watched' /\ Complete'
    <3>1. Watched /\ Complete /\ pc' = pc
      BY <1>1, <2>5 DEF Detected, Stopped
    <3>2. ~(pc \in Probing /\ Channel(unit) = c)
      BY <2>3, <2>5 DEF Trusted
    <3>3. ~Deaf(c)
      BY <2>2, <3>1, <3>2 DEF Deaf, Watched, Probing, Detecting
    <3>4. dev' = dev /\ sel' = [sel EXCEPT ![c] = Slave(u)]
      BY <2>3, <3>3
    <3>5. pc \in Probing => sel'[Channel(unit)] = sel[Channel(unit)]
      BY <1>2, <2>2, <3>2, <3>4
    <3>6. Watched'
      BY <1>1, <3>1, <3>4, <3>5 DEF Watched
    <3>7. Complete'
      BY <1>1, <3>1 DEF Complete, Listed, Exists
    <3> QED BY <3>6, <3>7
  <2>6. mixed => mixed'
    BY <2>3
  <2> QED BY <1>1, <1>3, <2>1, <2>4, <2>5, <2>6, Besides DEF Next
<1> QED BY <1>1, <1>4, <1>5, <1>6

LEMMA DetectedNext == Detected /\ [Next]_vars => Detected'
  BY SetUpStep, SelectStep, IdentifyStep, StatusStep, PollStep, SignatureStep,
     ReadBufferStep, MountStep, DriveStep, AsideStep, KeyStep
     DEF Next, Main, AfterDetection

LEMMA DetectedAlways == Spec => []Detected
  BY DetectedInit, DetectedNext, PTL DEF Spec

\* On every machine, whatever is typed and however the drives take their time,
\* ide_devices lists the drives there are (disk.c:284-372).
THEOREM DrivesAreListed == Spec => []DevicesReal
<1>1. Detected => DevicesReal
  BY DEF Detected
<1> QED BY <1>1, DetectedAlways, PTL

-----------------------------------------------------------------------------
(* The way to the end.  The console is there before the keyboard is, and a  *)
(* drive that can be read before anything is mounted.                       *)

Before == {"uart", "multiboot", "mem", "screen"}

Volume == Readable /\ machine.volume

Prepared ==
  /\ unmasked \ gates \subseteq {2}
  /\ Sound => /\ pc # "halted"
              /\ pc \in SetUps => ~iflag
              /\ pc \notin Before => screen0 # "null"
              /\ pc \in Mounting => Volume \/ astray
              /\ pc = "wild" => Hiding \/ ~registered \/ astray

LEMMA PreparedInit == Init => Prepared
  BY DEF Init, Prepared, Before, Mounting

\* An interrupt is let through with its gate; the console is set before sti.
LEMMA SetUpPrepares == Detected /\ Prepared /\ SetUp => Prepared'
<1> SUFFICES ASSUME Detected, Prepared, SetUp PROVE Prepared'
  OBVIOUS
<1>1. CASE ~Fits(pc)
  <2>1. machine' = machine /\ UNCHANGED arch
    BY <1>1 DEF SetUp
  <2>2. Sound => pc \notin {"mem", "screen"}
    BY <1>1 DEF Fits, Sound
  <2>3. ~Sound
    BY <1>1, <2>2 DEF Fits, Sound
  <2> QED BY <2>1, <2>3 DEF Prepared, Sound, arch
<1>2. CASE Fits(pc)
  <2>1. /\ machine' = machine /\ pc \in SetUps /\ pc' = After(pc)
        /\ unmasked' = unmasked \cup Enables(pc)
        /\ gates' = gates \cup (Enables(pc) \ {2})
        /\ iflag' = (iflag \/ pc = "sti")
        /\ screen0' = Functions(pc)
    BY <1>2, Orders DEF SetUp
  <2>2. unmasked' \ gates' \subseteq {2}
    BY <2>1 DEF Prepared
  <2>3. ASSUME Sound
        PROVE  /\ pc' # "halted" /\ pc' \notin Mounting /\ pc' # "wild"
               /\ (pc' \in SetUps => ~iflag')
               /\ (pc' \notin Before => screen0' # "null")
    <3>1. /\ pc' # "halted" /\ pc' \notin Mounting /\ pc' # "wild"
          /\ pc = "sti" => pc' \notin SetUps
          /\ pc' \notin Before => pc = "screen" \/ pc \notin Before
      BY <2>1, Orders DEF SetUps, Mounting, Before
    <3>2. pc' \in SetUps => ~iflag'
      BY <2>1, <2>3, <3>1 DEF Prepared
    <3>3. pc = "screen" => screen0' # "null"
      BY <2>1, <2>3 DEF Functions, Sound
    <3>4. pc \notin Before => screen0' # "null"
      BY <2>1, <2>3 DEF Prepared, Functions, Before
    <3> QED BY <3>1, <3>2, <3>3, <3>4
  <2>4. Sound' <=> Sound
    BY <2>1 DEF Sound
  <2> QED BY <2>2, <2>3, <2>4 DEF Prepared
<1> QED BY <1>1, <1>2

\* Steps of the detection, and of what is beside it.
LEMMA QuietStep ==
  ASSUME Prepared, UNCHANGED <<machine, arch, screen0, typed, registered, astray>>,
         pc' = pc \/ (pc \in Probing /\ pc' \in Probing \cup {"mbr"}),
         ide_devices' = ide_devices \/ pc' \in Probing \cup {"mbr"}
  PROVE  Prepared'
<1>1. (Sound' <=> Sound) /\ UNCHANGED <<gates, unmasked, iflag, screen0, registered>>
  BY DEF Sound, arch
<1>2. Hiding' <=> Hiding
  BY DEF Hiding
<1>3. CASE pc' = pc /\ ide_devices' = ide_devices
  <2>1. Volume' <=> Volume
    BY <1>3 DEF Volume, Readable
  <2> QED BY <1>1, <1>2, <1>3, <2>1 DEF Prepared
<1>4. CASE pc' = pc /\ pc' \in Probing \cup {"mbr"}
  <2>1. pc' \notin Mounting
    BY <1>4 DEF Probing, Detecting, Mounting
  <2> QED BY <1>1, <1>2, <1>4, <2>1 DEF Prepared
<1>5. CASE pc \in Probing /\ pc' \in Probing \cup {"mbr"}
  <2>1. pc \notin Before /\ pc' \notin SetUps \cup Mounting \cup {"halted", "wild"}
    BY <1>5 DEF Probing, Detecting, Mounting, Before, SetUps
  <2> QED BY <1>1, <2>1 DEF Prepared
<1> QED BY <1>3, <1>4, <1>5

LEMMA DetectionPrepares ==
  ASSUME Detected, Prepared,
         Select \/ Send_identify \/ Status \/ Poll \/ Signature \/ Read_buffer
  PROVE  Prepared'
<1>1. Next_unit => pc' \in {"mbr", "select"}
  BY DEF Next_unit
<1>2. /\ UNCHANGED <<machine, arch, screen0, astray, registered, keys>>
      /\ pc \in Probing /\ pc' \in Probing \cup {"mbr"}
  BY <1>1 DEF Select, Send_identify, Status, Poll, Signature, Read_buffer, Step,
              Others, Probing, Detecting
<1> QED BY <1>2, QuietStep DEF keys

LEMMA AsidePrepares ==
  ASSUME Prepared, Drive \/ Timer \/ Type \/ Idle \/ UNCHANGED vars
  PROVE  Prepared'
<1>1. UNCHANGED <<machine, arch, screen0, typed, registered, astray, pc, ide_devices>>
  BY DEF Drive, Timer, Type, Idle, vars, ide, Others, keys, Press, Release, Repeat
<1> QED BY <1>1, QuietStep

\* At the end of the detection the first device is the first drive there is;
\* it is complete, or has at least begun.
LEMMA FirstDrive == Detected /\ Sound /\ pc = "mbr" => Readable
<1> SUFFICES ASSUME Detected, Sound, pc = "mbr" PROVE Readable
  OBVIOUS
<1>1. PICK u \in Unit : /\ machine.drives[u] = "ata"
                        /\ \A v \in 0 .. u - 1 : machine.drives[v] = "none"
  BY DEF Sound
<1>2. ide_devices # <<>>
  <2>1. CASE Trusted
    <3>1. Listed = {v \in Unit : Exists(v)}
      BY <2>1 DEF Detected, Complete, Stopped, Found
    <3>2. u \in Listed
      BY <1>1, <3>1 DEF Exists
    <3> QED BY <3>2 DEF Listed
  <2>2. CASE ~Trusted
    BY <2>2 DEF Trusted, Detected
  <2> QED BY <2>1, <2>2
<1>3. /\ DOMAIN ide_devices = 1 .. Len(ide_devices) /\ Len(ide_devices) \in Nat
      /\ 1 \in DOMAIN ide_devices /\ ide_devices[1] \in Device
  BY <1>2 DEF Detected, Ranges
<1> DEFINE d == ide_devices[1]
<1>4. /\ machine.drives[d.unit] = d.Type
      /\ {ide_devices[n].unit : n \in 1 .. 1} =
           {v \in 0 .. d.unit : machine.drives[v] # "none"}
  BY <1>3 DEF Detected, DevicesReal
<1>5. {ide_devices[n].unit : n \in 1 .. 1} = {d.unit}
  OBVIOUS
<1>6. d.unit \in Unit /\ d.Type \in {"ata", "atapi"}
  BY <1>3 DEF Device
<1> HIDE DEF d
<1>7. \A v \in 0 .. d.unit : machine.drives[v] # "none" => v = d.unit
  BY <1>4, <1>5
<1>8. d.unit = u
  BY <1>1, <1>4, <1>6, <1>7 DEF Unit
<1> QED BY <1>1, <1>2, <1>4, <1>8 DEF Readable, d

\* What is mounted is there (main.c:601-634).
LEMMA MountPrepares == Detected /\ Prepared /\ AfterDetection => Prepared'
<1> SUFFICES ASSUME Detected, Prepared, AfterDetection PROVE Prepared'
  OBVIOUS
<1>1. /\ UNCHANGED <<machine, arch, screen0, ide_devices, typed>>
      /\ pc \in Found /\ pc' \in Found \cup {"wild"} /\ (astray => astray')
  <2>1. CASE \E p, q : MainReads(p, q) /\ p \in Found /\ q \in Found \cup {"wild"}
    BY <2>1 DEF MainReads, keys, Amiss
  <2>2. CASE \E p, q : Move(p, q) /\ p \in Found /\ q \in Found
    BY <2>2 DEF Move, ide, Others, keys
  <2> QED BY <2>1, <2>2, Rest
<1>2. pc \notin Before /\ pc' \notin SetUps \cup {"halted"}
  BY <1>1 DEF Found, Mounting, Before, SetUps
<1>3. (Sound' <=> Sound) /\ (Volume' <=> Volume) /\ UNCHANGED <<gates, unmasked>>
  BY <1>1 DEF Sound, Volume, Readable, arch
<1>4. ASSUME Sound
      PROVE  /\ pc' \in Mounting => Volume \/ astray'
             /\ pc' = "wild" => ~registered' \/ astray'
  <2>0. pc \in Mounting => Volume \/ astray
    BY <1>4 DEF Prepared
  <2>1. CASE Read_mbr
    <3>1. /\ pc = "mbr" /\ pc' \in {"ext2", "mount"}
          /\ Amiss => astray'
          /\ pc' = "mount" => Amiss \/ ~(Readable /\ machine.ext2)
      BY <2>1 DEF Read_mbr, MainReads
    <3>2. Readable
      BY <1>4, <3>1, FirstDrive
    <3> QED BY <1>4, <3>1, <3>2 DEF Mounting, Volume, Sound
  <2>2. CASE Init_ext2
    <3>1. pc' \in {"end", "wild"} /\ (pc' = "wild" => astray')
      BY <2>2 DEF Init_ext2, MainReads
    <3> QED BY <3>1 DEF Mounting
  <2>3. CASE Get_free
    <3>1. /\ pc = "getfree" /\ pc' \in {"open", "wild"} /\ registered' = registered
          /\ Amiss => astray'
          /\ pc' = "wild" => ~Mounts \/ Amiss
      BY <2>3 DEF Get_free, MainReads
    <3>2. Volume \/ astray
      BY <2>0, <3>1 DEF Mounting
    <3> QED BY <1>1, <3>1, <3>2 DEF Mounts, Volume
  <2>4. CASE Mount \/ Scan \/ Open \/ Move("write", "close") \/ Move("close", "end")
    <3>1. pc \in Mounting /\ pc' # "wild"
      BY <2>4 DEF Mount, Scan, Open, MainReads, Move, Mounting
    <3> QED BY <1>1, <2>0, <3>1
  <2> QED BY <2>1, <2>2, <2>3, <2>4 DEF AfterDetection
<1> QED BY <1>1, <1>2, <1>3, <1>4 DEF Prepared

\* A key finds the console there, and hides it or not (main.c:329-392).
LEMMA KeyPrepares == Detected /\ Prepared /\ Key => Prepared'
<1> SUFFICES ASSUME Detected, Prepared, Key PROVE Prepared'
  OBVIOUS
<1> DEFINE given == Given(Head(queue).code)
           hides == given # <<>> /\ given[1] = "D"
<1>1. /\ UNCHANGED <<machine, arch, screen0, ide_devices>>
      /\ iflag /\ pc \notin {"halted", "wild"}
      /\ pc' \in {pc, "halted", "wild"}
      /\ pc' = "halted" => pc = "halted" \/ screen0 = "null"
      /\ pc' = "wild" => hides /\ machine.fb = "rgb"
      /\ astray => astray'
  BY DEF Key, Delivers, keybord_in, ReadDigit
<1>2. hides => typed' # <<>> /\ typed'.given[1] = "D"
  <2>1. hides => typed' = [given |-> given, want |-> Head(queue).want]
    BY DEF Key, do_irq1
  <2> HIDE DEF given
  <2>2. ASSUME NEW a, NEW b
        PROVE  [given |-> a, want |-> b] # <<>>
    <3>1. "given" \in DOMAIN [given |-> a, want |-> b]
      OBVIOUS
    <3>2. DOMAIN <<>> = {}
      OBVIOUS
    <3> QED BY <3>1, <3>2
  <2> QED BY <2>1, <2>2
<1> HIDE DEF given, hides
<1>3. /\ (Sound' <=> Sound) /\ (Volume' <=> Volume)
      /\ UNCHANGED <<gates, unmasked, iflag>>
  BY <1>1 DEF Sound, Volume, Readable, arch
<1>4. pc' = "wild" => Hiding'
  BY <1>1, <1>2 DEF Hiding
<1>5. Sound => pc \notin SetUps /\ screen0 # "null"
  BY <1>1 DEF Prepared, Before, SetUps
<1> QED BY <1>1, <1>3, <1>4, <1>5 DEF Prepared, SetUps, Mounting

LEMMA PreparedNext == Detected /\ Prepared /\ [Next]_vars => Prepared'
  BY SetUpPrepares, DetectionPrepares, MountPrepares, AsidePrepares, KeyPrepares
     DEF Next, Main, AfterDetection

\* On every machine of the kind BootSound names, start_kernel never halts and
\* goes wild for its four reasons only: a graphic console hidden, the volume
\* unmounted by hand, a digit typed while main reads (or the drives are
\* detected), a packet drive that answers late to main's read of the MBR.  That
\* detection ends is not said (main.c:329-344, 578-629).
THEOREM BootIsSound == Spec => []BootSound
<1>1. Prepared => BootSound
  BY DEF Prepared, BootSound
<1> QED BY <1>1, PreparedInit, PreparedNext, DetectedAlways, PTL DEF Spec

-----------------------------------------------------------------------------
(* Types.  Each unit adds one device at most.                               *)

Shapes ==
  /\ machine \in Machines
  /\ gates \cup unmasked \subseteq 0 .. 15 /\ iflag \in BOOLEAN
  /\ ticks \in 0 .. Wait /\ events \in Nat
  /\ astray \in BOOLEAN /\ registered \in BOOLEAN
  /\ Len(ide_devices) <= unit + 1
  /\ pc \in SetUps \cup Probing => Len(ide_devices) <= unit

LEMMA ShapesInit == Init => Shapes
<1> SUFFICES ASSUME Init PROVE Shapes
  OBVIOUS
<1>1. Len(ide_devices) = 0 /\ unit = 0
  BY EmptySeq DEF Init
<1> QED BY <1>1 DEF Init, Shapes, Wait

\* The controllers and the flag are set by start_kernel alone.
LEMMA SetUpShapes == Detected /\ Shapes /\ SetUp => Shapes'
<1> SUFFICES ASSUME Detected, Shapes, SetUp PROVE Shapes'
  OBVIOUS
<1>1. /\ UNCHANGED <<machine, unit, ticks, ide_devices, astray, registered,
                     events>>
      /\ pc \in SetUps /\ pc' \in SetUps \cup {"select", "halted"}
  BY Orders DEF SetUp, ide, SetUps
<1>2. Len(ide_devices') <= unit'
  BY <1>1 DEF Shapes
<1>3. gates' \cup unmasked' \subseteq 0 .. 15 /\ iflag' \in BOOLEAN
  <2>1. CASE Fits(pc)
    <3>1. Enables(pc) \subseteq 0 .. 15
      BY DEF Enables
    <3>2. /\ unmasked' = unmasked \cup Enables(pc)
          /\ gates' = gates \cup (Enables(pc) \ {2})
          /\ iflag' = (iflag \/ pc = "sti")
      BY <2>1 DEF SetUp
    <3> QED BY <3>1, <3>2 DEF Shapes
  <2>2. CASE ~Fits(pc)
    BY <2>2 DEF SetUp, arch, Shapes
  <2> QED BY <2>1, <2>2
<1>4. Len(ide_devices') <= unit' + 1
  <2>1. unit \in Nat /\ Len(ide_devices) \in Nat
    BY LenProperties DEF Detected, Ranges, Unit
  <2> QED BY <1>1, <1>2, <2>1
<1> QED BY <1>1, <1>2, <1>3, <1>4 DEF Shapes

\* A unit that is looked at has not been listed, and is the last one that is.
LEMMA DetectionShapes ==
  ASSUME Detected, Shapes,
         Select \/ Send_identify \/ Status \/ Poll \/ Signature \/ Read_buffer
  PROVE  Shapes'
<1>1. /\ UNCHANGED <<machine, gates, unmasked, iflag, astray, registered, events>>
      /\ pc \in Probing
  BY DEF Select, Send_identify, Status, Poll, Signature, Read_buffer, Step,
         Others, arch, Probing, Detecting
<1>2. ticks' \in 0 .. Wait
  BY DEF Select, Send_identify, Status, Poll, Signature, Read_buffer, ide,
         Shapes, Wait
<1>3. unit \in Nat /\ Len(ide_devices) \in Nat /\ Len(ide_devices) <= unit
  BY <1>1, LenProperties DEF Detected, Ranges, Unit, Shapes
<1>4. CASE unit' = unit /\ ide_devices' = ide_devices
  <2>1. Len(ide_devices') <= unit' + 1
    BY <1>3, <1>4
  <2> QED BY <1>1, <1>2, <1>3, <1>4, <2>1 DEF Shapes
<1>5. CASE Next_unit /\ ide_devices' = ide_devices
  <2>1. pc' \in {"mbr", "select"} /\ unit' \in {unit, unit + 1}
    BY <1>5 DEF Next_unit
  <2>2. Len(ide_devices') <= unit'
    BY <1>3, <1>5, <2>1
  <2>3. Len(ide_devices') <= unit' + 1
    BY <1>3, <1>5, <2>1
  <2> QED BY <1>1, <1>2, <2>2, <2>3 DEF Shapes
<1>6. CASE Read_buffer
  <2>1. PICK d \in Device : ide_devices' = Append(ide_devices, d)
    <3> DEFINE u == Selected(Channel(unit))
               d == [Type |-> IF pc = "buffer" THEN "ata" ELSE "atapi",
                     unit |-> unit,
                     of |-> IF dev[u] = "data" THEN {u} ELSE {}]
    <3>1. ide_devices' = Append(ide_devices, d)
      BY <1>6 DEF Read_buffer
    <3>2. d \in Device
      <4>1. unit \in Unit /\ u \in Unit
        BY UnitFacts, SelectedUnit DEF Detected, Ranges
      <4> QED BY <4>1 DEF Device
    <3> QED BY <3>1, <3>2
  <2>2. Len(ide_devices') = Len(ide_devices) + 1
    <3>1. ide_devices \in Seq(Device)
      BY DEF Detected, Ranges
    <3> QED BY <2>1, <3>1
  <2>3. \/ pc' = "mbr" /\ unit' = unit
        \/ pc' = "select" /\ unit' = unit + 1
    BY <1>6 DEF Read_buffer, Next_unit
  <2>4. pc' = "mbr" => pc' \notin SetUps \cup Probing
    BY DEF SetUps, Probing, Detecting
  <2>5. Len(ide_devices') <= unit' + 1
    BY <1>3, <2>2, <2>3
  <2>6. pc' # "mbr" => Len(ide_devices') <= unit'
    BY <1>3, <2>2, <2>3
  <2> QED BY <1>1, <1>2, <2>4, <2>5, <2>6 DEF Shapes
<1>7. \/ unit' = unit /\ ide_devices' = ide_devices
      \/ Next_unit /\ ide_devices' = ide_devices
      \/ Read_buffer
  BY DEF Select, Send_identify, Status, Poll, Signature, ide
<1> QED BY <1>4, <1>5, <1>6, <1>7

\* The rest leaves both the unit and the list as they are.
LEMMA OtherShapes ==
  ASSUME Detected, Shapes,
         AfterDetection \/ Drive \/ Timer \/ Key \/ Type \/ Idle \/ UNCHANGED vars
  PROVE  Shapes'
<1>0. /\ \/ ticks' = ticks
         \/ ticks > 0 /\ ticks' = ticks - 1
      /\ events' \in {events, events + 1}
      /\ registered' = registered \/ registered' \in BOOLEAN
      /\ astray' = astray \/ astray' \in BOOLEAN
      /\ UNCHANGED <<machine, gates, unmasked, iflag, unit, ide_devices>>
  <2>1. CASE AfterDetection
    <3>1. CASE \E p, q : MainReads(p, q)
      <4>1. astray' \in BOOLEAN
        BY <3>1 DEF MainReads, Amiss, Stale, Shapes
      <4>2. registered' \in {registered, TRUE}
        BY <2>1 DEF AfterDetection, Read_mbr, Init_ext2, Mount, Scan, Get_free,
                    Open, Move, Others
      <4> QED BY <3>1, <4>1, <4>2 DEF MainReads, arch, Shapes
    <3>2. CASE \E p, q : Move(p, q)
      BY <3>2 DEF Move, ide, arch, Others
    <3> QED BY <2>1, <3>1, <3>2, Rest
  <2>2. CASE Drive \/ Timer \/ Type \/ Idle \/ UNCHANGED vars
    BY <2>2 DEF Drive, Timer, Type, Idle, vars, ide, arch, Others
  <2>3. CASE Key
    <3>1. registered' \in BOOLEAN /\ (astray' = astray \/ ReadDigit)
      BY <2>3 DEF Key, keybord_in
    <3>2. ReadDigit => astray' \in BOOLEAN
      BY DEF ReadDigit
    <3> QED BY <2>3, <3>1, <3>2 DEF Key, keybord_in, arch
  <2> QED BY <2>1, <2>2, <2>3
<1>1. UNCHANGED <<machine, gates, unmasked, iflag, unit, ide_devices>>
  BY <1>0
<1>2. registered' \in BOOLEAN /\ astray' \in BOOLEAN
  BY <1>0 DEF Shapes
<1>3. ticks' \in 0 .. Wait /\ events' \in Nat
  <2>1. ticks \in 0 .. 2 /\ events \in Nat
    BY DEF Shapes, Wait
  <2> QED BY <1>0, <2>1 DEF Wait
<1>4. pc' \in SetUps \cup Probing => pc \in SetUps \cup Probing
  <2>1. CASE AfterDetection
    <3>1. pc' \in Found \cup {"wild"}
      BY <2>1, Rest DEF MainReads, Move
    <3> QED BY <3>1 DEF Found, Mounting, SetUps, Probing, Detecting
  <2>2. CASE Key
    <3>1. pc' \in {pc, "halted", "wild"}
      BY <2>2 DEF Key, keybord_in
    <3> QED BY <3>1 DEF SetUps, Probing, Detecting
  <2>3. CASE Drive \/ Timer \/ Type \/ Idle \/ UNCHANGED vars
    BY <2>3 DEF Drive, Timer, Type, Idle, vars
  <2> QED BY <2>1, <2>2, <2>3
<1> QED BY <1>1, <1>2, <1>3, <1>4 DEF Shapes

LEMMA ShapesNext == Detected /\ Shapes /\ [Next]_vars => Shapes'
  BY SetUpShapes, DetectionShapes, OtherShapes DEF Next, Main, AfterDetection

\* Of every set of machines, whatever is typed: no unit adds two devices, a
\* drive that is not there says nothing, and only lines that exist are let
\* through (disk.c:284-372).
THEOREM BootTyped == Spec => []TypeOK
<1>1. Detected /\ Shapes /\ KeyboardTypeOK => TypeOK
  <2>1. SUFFICES ASSUME Detected, Shapes, KeyboardTypeOK PROVE TypeOK
    OBVIOUS
  <2>2. SetUps \subseteq {Order[n] : n \in DOMAIN Order}
    <3> DEFINE O == <<"uart", "multiboot", "mem", "screen", "pit", "kbd", "rtc",
                      "cascade", "sti">>
    <3>1. Order = O
      BY DEF Order, Steps
    <3>2. /\ DOMAIN O = 1 .. 9
          /\ O[1] = "uart" /\ O[2] = "multiboot" /\ O[3] = "mem" /\ O[4] = "screen"
          /\ O[5] = "pit" /\ O[6] = "kbd" /\ O[7] = "rtc" /\ O[8] = "cascade"
          /\ O[9] = "sti"
      OBVIOUS
    <3> HIDE DEF O
    <3>3. \A n \in 1 .. 9 : O[n] \in {O[m] : m \in 1 .. 9}
      OBVIOUS
    <3>4. SetUps \subseteq {O[m] : m \in 1 .. 9}
      BY <3>2, <3>3 DEF SetUps
    <3> QED BY <3>1, <3>2, <3>4
  <2>3. pc \in {Order[n] : n \in DOMAIN Order} \cup Detecting \cup Reading
              \cup Ends \cup {"packet", "write", "close"}
    <3>1. pc \in SetUps \cup Probing \cup Found \cup Stopped
      BY <2>1 DEF Detected, Ranges
    <3> QED BY <2>2, <3>1 DEF Probing, Found, Mounting, Stopped, Ends,
                         Reading
  <2>4. /\ unit \in Unit /\ sel \in [0 .. 1 -> {0, 1}]
        /\ dev \in [Unit -> {"idle", "busy", "data", "error"}]
        /\ \A u \in Unit : machine.drives[u] = "none" => dev[u] = "idle"
    BY <2>1 DEF Detected, Ranges, Exists
  <2> QED BY <2>1, <2>3, <2>4 DEF Shapes, TypeOK
<1> QED BY <1>1, ShapesInit, ShapesNext, DetectedAlways, KeyboardTyped, PTL DEF Spec
===========================================================================
