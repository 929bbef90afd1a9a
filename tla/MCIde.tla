------------------------------- MODULE MCIde -------------------------------
(***************************************************************************)
(* Instances of Ide for TLC.  Nine sectors, of which the last needs LBA48, *)
(* and 4-bit sector numbers, so that 15 + 2 wraps.  CHS tracks of 3        *)
(* sectors, addressed with a 2-bit mask as the driver does with 63 and 6.  *)
(***************************************************************************)
EXTENDS Ide

Reads(by, lba)  == {[by |-> by, op |-> "read", lba |-> lba, count |-> x] : x \in {1, 2}}
Writes(lba)     == {[by |-> "main", op |-> "write", lba |-> lba, count |-> x] : x \in {1, 2}}

\* Sectors 2 and 6 differ in the head, 8 in the mode; 8 + 2 is refused.
MCNested == Reads("main", 2) \cup Writes(2) \cup Reads("main", 8) \cup Writes(8)
            \cup Reads("isr", 6) \cup Reads("isr", 8)
MCLive   == Reads("main", 2) \cup Writes(2) \cup Reads("isr", 6)
MCSerial == UNION {Reads("main", lba) \cup Writes(lba) : lba \in {0, 2, 6, 8, 15}}

MCDrives == {"ata", "atapi", "none"}
MCBoth   == {"main", "isr"}
MCMain   == {"main"}
=============================================================================
