# myos32: a verification development

myos32 is a 32-bit kernel in C: it boots from multiboot2, sets up a heap for
newlib, prints on a text or graphics console, reads an IDE disk with FatFs or
its own ext2 reader, and answers the keyboard. It has one thread ("main", from
`start_kernel`) and interrupt handlers, and no lock. Most of what can go wrong
is a handler doing, in the middle of main's work, the same kind of work on the
same state.

Paths below are the repository's; `alloc.c` etc. are under `src/`, `diskio.c` is
`other/fatfs/diskio.c`.

## 1. Inventory

| Component | State | Operations | Used by |
|---|---|---|---|
| Kernel heap (`alloc.c`, `sbrk` in `newlib_calls.c`, `init_mem` in `main.c`) | bitmap of frames, page tables of 0xE0000000.., `size` and `rest` | `alloc_page`, `free_page`, `sbrk` | `malloc`, from main and from the keyboard handler |
| IDE driver (`disk.c`) with FatFs glue (`diskio.c`) | the drive's registers, `channels`, `ide_devices` | `ide_initialize`, `ide_read_sectors`, `ide_write_sectors`; `disk_read/write/ioctl` | FatFs and ext2 (main), number keys and F5-F8 (keyboard handler) |
| Text console (`driver/screen.c`, `TEXT_`) | `col`, `row`, `buffer`, `enabled`, video memory, hardware cursor | `ch`, `str`, `clear`, `set_enabled`, `set_color` | `write()` of `printf`, from main and every handler; F keys, `D`, `E` |
| Graphics console (`driver/screen.c`) | the same on pixels | the same | the same |
| Interrupts (`arch/intr.c`, `intr.asm`) | IDT, `cached_irq_mask`, the two controllers | gates, `enable_irq`, `disable_irq`, stubs | everything |
| Clock (`arch/cmos.c`, `cmos_low.asm`) | `epoch`, `fattime`, CMOS registers | `do_irq8`, `get_cmos`, `to_epoch` | FatFs time stamps |
| Keyboard (`driver/kbd.c`, `keybord_in` in `main.c`) | `kbd_status`, `saw_break_code` | `do_irq1`, `set1_scancode_to_ascii`, the key commands | calls heap, disk, console, ext2 |
| ext2 reader (`ext2.c`) | superblock, two block buffers and a group-descriptor buffer with their tags | `ext2_init`, `ext2_find_inode`, prints and dumps | main (init), keyboard handler (the rest) |
| Boot (`start.asm`, `start_kernel`, `parse_multiboot`) | multiboot values, order of initialisation | - | - |
| FatFs (`ff.c`) | vendored | - | main, `X` key |
| Timer, serial port, libc stubs, cpuid, font | counters and ports | - | - |

Interaction is by calls and shared memory. Gates are interrupt gates, so a
handler runs with interrupts off and to its end, with one exception: `get_cmos`
ends with `sti`, so the clock's handler goes on with interrupts on, and can be
interrupted. Handlers acknowledge the controller before they run, so nothing but
the interrupt flag keeps them apart. `OnlyClockInterrupted`, proved in
`InterruptsProofs`, is what the other models take from this: their handlers run
to their end, and only the consoles' have the clock's between main and them, as
often as it is nested in itself.

What makes each component correct:

* heap: no frame is used twice, the bitmap's own frames stay out of it, all pages
  below the break are mapped and none above it, a refused call takes everything
  back, no frame is lost, the break moves by what was asked for and its answers
  say so;
* disk: a status of 0 means the data is where it was asked for; a write changes
  the sectors it names and no others; calls end;
* console: nothing is stored outside the screen; the text is a list of lines;
  hiding and showing lose nothing;
* clock, keyboard, ext2: values that are right for every input and consistent
  while they are updated; a cached block is the block its tag says;
* boot: nothing is used before it has been set up.

The code keeps each of these up to a point. The properties say up to which: an
exception in one is a case in which the code does otherwise (see 3). The hard
behaviours are listed one by one, with their lines, under `hazards` in
`PROJECT.json`.

## 2. Modules

| Module | What it is |
|---|---|
| `Heap` | sbrk, alloc_page, free_page, from the state init_mem leaves |
| `Brk` | abstract: one program break, and what sbrk answers; `Heap` implements it |
| `Ide` | sector reads and writes of two callers on one ATA drive |
| `TextScreen` | the text console: main, nested clock handlers and one other handler print |
| `Console` | abstract: the text as a list of lines; `TextScreen` implements it |
| `Screens` | extends `TextScreen`: the graphics console, and the choice between the two |
| `Ext2` | the ext2 reader with its three block buffers, under failing reads |
| `Clock` | operators: registers to time to epoch, and a reference calendar |
| `Interrupts` | extends `Clock`: controllers, stubs, nested handlers, epoch and fattime |
| `Keyboard` | typist, keyboard and driver: keys to scan codes to characters |
| `Boot` | extends `Keyboard`: start_kernel, drive detection, the key commands |
| `HeapProofs`, `IdeProofs`, `TextScreenProofs`, `ScreensProofs`, `InterruptsProofs`, `KeyboardProofs`, `Ext2Proofs`, `BootProofs` | theorems, see 4 |
| `MCHeap`, `MCIde`, `MCExt2`, `MCInterrupts`, `MCBoot` | instances |

In `Heap`, `Ide`, `TextScreen` and `Screens` `pc` says where each caller is in its
call, one action is one access to shared state (or a run of them nobody can tell
apart), `Running(c)` says that an interrupted caller does not move, and handlers
may begin between any two steps. Each module has a section of "faults": a helper
as a likely mistake would leave it, not part of the specification, which shows
that the properties notice such mistakes. History variables (`overlap`, `undone`,
`reserved`; `mixed`, `failed`, `synced`; `raced`, `before`; `clean`; `source`,
`century`; `odd`, `typed`) record what has happened for the properties and guard
nothing. `Boot`'s `astray` is one too, but that once it is set, what main reads is
left open.

### Heap

`map`, `pt`, `size`, `rest` are the code's variables, frames and pages by number.
`Enter` is sbrk up to the call; `FindWord`, `Exhausted` and `Spin` are the three
ends of the scan for a word; `FindBit` reads the word again; `Mark`, `MapPage` (or
`MapWild`, behind the last page table) take the frame; `Undo` is one round of
free_page after a failure; `Fail` and `Return` leave sbrk. Kept exactly: the
32-bit subtraction, the 16-bit cast of free_page's mask, the 8-bit scan index, the
32-bit limit, the word read twice, the operand order left to the compiler in
sbrk's comparison, the part of the bitmap that is RAM garbage. `Directory` is what
set_state enters in the page directory: `malloc_tpts` has two page tables, numpts
is 1, so the second is written to and maps nothing (`Behind`, `Translated`).
`Refusal` is the answer to a refused call: 0.

Abstracted: the scan over full words is one step (a word that fills or empties
meanwhile belongs to an overlapping call, of which nothing is claimed);
`invlpg` is left out; RAM behind the pool is memory like any other.

What the properties say about the code: without overlapping calls the heap is
right except that a rolled-back allocation may free, through the cast mask,
frames of the upper half of the same bitmap word (`Exclusive` names this as the
only way two pages get one frame); the bitmap's own frames are out of its reach.
`HeapBacked` says that the pages below the break are mapped up to 4 MB, and from
there on only entered in a table the processor never sees. `CallsReturn` names
the two ways a call does not return: 256 or more words (8192 frames, 32 MB) all
full, and running off the page tables. `Brk` is the program break with sbrk's
own convention, 0 for a refusal; newlib tests for `(void *)-1`, so that the two
agree is not claimed.

After an overlap (a handler's sbrk inside main's) nothing is claimed: both may
take one frame. That is a property of the code, not a gap of the model: the
model has these steps, and without the guard `~overlap` TLC finds the frame
taken twice.

### Ide

The driver has no lock: main and a handler use the same registers. `Call` is the
entry with its refusals, `Wait` the wait for BSY, `Select`, `Count`, `Low`,
`Command` the writes of the command block, `Poll` with `Receive` or `Send` the
sectors, `Flush` and `Settle` the end of a write, `Return` the caller with its
answer (and FatFs's optional CTRL_SYNC). The drive (external) is `Ready`,
`Keep`, `Flushed`, `WriteBack`, `Break`; like the emulator the Makefile runs, it
ignores the command block while busy or transferring. Kept exactly: the three
addressing modes with their arithmetic, the wrap of `lba + numsects`, the check
of the status for reads and its absence for writes, the flush that is sent
without a wait. `advance` is what the build does with the register that `rep
insw` moves behind the compiler's back; both builds are checked, and `Got` and
`Sent` say what each makes of a buffer.

Abstracted: LBA0-LBA2 (and their high halves) are one step, a status is its
number, a sector's content is the number of the sector or of the place in the
writer's buffer it came from. A second drive and the second channel are left
out: every caller in the kernel uses drive 0.

The guard `Intact` of the properties is the negation of `mixed`, which is true of
main's call if a handler has called between its command-block writes, or, in a
read, between a sector's poll and its transfer; and of any call that starts while
sectors of another are still pending. The last is main's call after such a one,
but also each handler's call that comes at main's poll while the drive has a
sector for main: the drive does not hear the handler's command, gives it main's
sector, and the handler answers 0 with it. `Exact` leaves out CHS from sector 64
on. In all these cases the code can answer 0 with wrong data or write to other
sectors. What is left even then is the first part of `WriteConfined`: no more
sectors change than were asked for, and they lie one behind the other.

### TextScreen

Writer 0, `Main`, prints in write(), writers 1 to `Clocks` in the clock's
handler, `Key` in the others (keyboard, timer, serial); each can be interrupted
by those above it. The clock's handler prints with interrupts on, so another can
begin inside it if it is held up, by a long key command, for a second; nothing
in the code limits how many, and `Clocks` is any number. A step is one access of
TEXT_screen_char: the look at `col` (`Begin`), `Newline`, `LookAtRow`, `IncRow`,
`Scroll` row by row, `Wipe`, `Aim`, `Store`, `IncCol`, `MoveCursor`. The
keyboard also clears (`Clear`), hides (`Hide`) and shows (`Show`) the console in
one step. Whether the compiler keeps the value it has compared or reads it again
is left open (`IncRow`, `IncCol`).

Abstracted: colours; the four port writes of the cursor are one step; a clear
by a clock handler or main does not occur in the code.

### Screens

Adds `bpp`, 0 for the text console. Both consoles share the position, the writers
and the steps of a newline up to the copying of rows; the graphics console has
its own `BeginGraphic`, `Draw`, `Advance` and `Compare` (the column is looked at
after the character), `WipeGraphic` and `ClearGraphic`. A cell is a character on
the screen. Kept exactly: which part of a row `GRAPHIC_clear_row` reaches (its
branch for 24 bits asks for 32 a second time, so two thirds of a row are
cleared, as at 16 bits, and init_screen's grey stays in the rest), the place a
glyph beyond the right edge lands at. Left out: colours, glyphs, and the one
byte that a 24-bit glyph can overwrite in the next cell's first pixel.

### Ext2

A block is a row of units (descriptor, inode, block number, directory entry), so
that what a buffer holds may be read as any of them: `As` gives what the code
makes of a unit that is something else. `ext2_init` is `ReadSuperblock`,
`Allocate` and `Publish`, whose stores to the tags and `ready` the compiler may
order as it likes; a keyboard handler may come between any two of them. A lookup
(`Find`, `OpenDir`, `SearchBlock`, `DumpInode`), a listing (`List`, `ListRoot`,
`ListEntry`, `ListEnd`: one step per entry, with a stack of `frames` for the
recursion) and the descriptor listing (`PrintGroups`) go through `Fetched`,
which is read_block_buf: the tag is set, whatever the read did. A failed read
leaves the buffer as it was or half filled. Kept exactly: the order of tag and
read, the comparison of names by prefix, entries without a size, entry numbers
across blocks, the indirect block in lookups and its absence in listings. What a
listing is compared with is the whole tree of the image (`Files`), entries in
indirect blocks included: `Missed` are those, with all that is below them.
`malloc` may refuse a buffer; the next access to it halts the machine (`Halt`).
Names are short sequences; their copying is left out (hazard at `ext2.c:145`).

### Clock and Interrupts

`Clock` has the chip's calendar and registers in its four modes, `rtc_read`,
`to_epoch` and the FAT time. `Interrupts` has the two controllers with priorities
(`irr`, `isr`), the interrupt flag, and a `stack` of handlers: stub (masks,
acknowledges), handler, return. The clock's handler reads six registers with a
`sti` after each, so a tick, a key or another clock interrupt may come in
between; then stores epoch and fattime and reads register C, without which
the chip sends no other interrupt. `source` notes which reading epoch is from, and
`century` how often the chip's two-digit year has begun anew, so that moments can
be told apart however long a handler is held up.

### Keyboard and Boot

`Keyboard` is a typist who presses, holds and releases keys, the keyboard's
scan-code set 1 (prefixes, the fake shifts of cursor and PrtSc keys, Pause's
codes without a release, a buffer of `Room` bytes) and do_irq1. One key of each
kind stands for the others, but both Shift and both Ctrl keys are there, since
the driver keeps one bit for each pair. `Boot` is start_kernel in its order
(`SetUp`), with the loader's data, gates and masks, the detection of drives in
ide_initialize poll by poll against external drives, the choice between ext2 and
FAT and the calls of FatFs, and from `sti` on the timer and the keyboard with
the commands that touch what boot is doing. Main's reads of the MBR, the
superblock and the volume are steps of their own (`MainReads`), each of a few
reads; a digit key that reads between them sets `astray`, as does a drive that
answers a read it was not meant for (`Stale`). From then on what main finds is
left open. `pc` ends in "end", "halted" (an exception or a stop) or "wild" (the
kernel overwritten, or a pointer that was never set).

## 3. Runs

| Run | Instance | Shows |
|---|---|---|
| `heap_nested` | words of 4 bits, mask of 2, one or two words, two page tables of 3 entries of which one is in the directory, page of 2 bytes, requests 1 and 5; main and handler | seven invariants |
| `heap_serial` | the same with RAM up to 3 words, where the scan index (3) wraps; requests 1, 2, 5 with pages of 3 bytes, so that a request can be less than `rest` and wrap; main only, fair | `ImplementsBrk`, `CallsReturn` |
| `ide_nested` | 9 sectors, LBA48 from 8, 4-bit sector numbers, tracks of 3; reads and writes of 1 or 2 sectors; main and handler | five invariants |
| `ide_live` | sectors 2-3 and 6-7, main and handler, fair | `AccessesEnd` |
| `ide_seek`, `ide_write_status`, `ide_sync` | main only | three disagreements of the code with its comments, see below |
| `screens_nested` | 2 x 2 cells, text or graphics at 24 or 32 bits, one character, newline, clear; main, one clock handler, a key | four invariants |
| `text_serial` | 3 x 2 cells; clear, hide, show; two nested clock handlers and a key, between characters | `HiddenOrFollowed`, `TextWellFormed`, `ImplementsConsole` |
| `ext2_reads` | two file systems of 3 groups, blocks of 4 units, 2 direct blocks, a directory with a file in an indirect block; 5 paths; one failed read, malloc may fail; room for 3 nested directories | four invariants, `GoesWrongByFailure`, `CallsEnd` |
| `interrupts` | four starts around seconds at which the calendar carries, in four modes; 2 ticks, 1 interrupt of timer or keyboard | four invariants, `GoesBackExplained`, `RequestsServed` |
| `boot_typed` | 14 machines; 2 key events at any time, on the last machine 4 at the end with every key | five invariants, `BootEnds` |

The bounds are scaled so that each boundary of the code is met several times
over: the mask covers half a word and the pool has more than one word, so a
rollback can free a neighbour's frame; a request of 5 bytes needs three pages and
exhausts the smallest RAM in the middle, the break passes from the page table that
is in the directory into the one that is not, a request of 1 leaves a rest that
covers the next one (the 32-bit subtraction then wraps); the bitmap's garbage is
every subset of what is not copied; the sector numbers wrap at 16 and the last
sector is in another mode; a track has one sector fewer than the mask can
number, as 63 and 64; a screen of two rows scrolls after three lines, with three
rows the copying loop runs twice. The first file system has directories two deep
in three groups, so that every directory evicts its parent's blocks, names of
which one begins with another, and entries in direct and indirect blocks, one of
the latter a directory with a file in it, so that a listing misses both; the
second an entry without a size and a removed one; one failed read is enough to
leave a wrong tag for any number of later calls. In `interrupts` the starts are
an afternoon in March of a leap year, the end of 29 February, of a year and of
the century; two ticks give a torn reading or a nested clock handler, and the
reading after it. In `boot_typed` the machines have every kind of frame buffer,
drives in every kind of place, no loader, no volume; two events are one key with
its release, or Shift with a letter. Nothing in the code depends on the real
sizes otherwise, and where there is a proof it removes the question.

`screens_nested` has one clock handler: with two nested in each other its screens
have too many states for a run to be repeated (2 x 1 cells were searched to the
end once, 9 million states, without a violation). `DamageIsBounded` and
`ScreensDamageIsBounded` are proved for any number of them.

`heap_nested` is cut by the constraint `UntilUnwound`: once calls have overlapped,
only the rest of main's call is explored (for its types), since the other
invariants claim nothing there. `Hung`, `Rest`, `Quiet` and `Idle` let a machine
that has stopped, spins or has nothing left to do stay there, so deadlock is
checked in every run.

Fairness. `heap_serial`: the processor goes on with a call (weak fairness of each
caller's step). `ide_live`: the drive answers (weak fairness of `Drive`, not of
`WriteBack`); a handler, which cannot be interrupted, goes on (weak); main goes on
between interrupts, which come and go, so its steps are enabled again and again
and strong fairness is what the processor gives it. `ext2_reads`: a handler, once
it runs, goes on (weak). `interrupts`: a handler goes on and the controller
delivers what it may (weak; not that seconds pass or keys are hit). `boot_typed`:
main goes on, the drives answer, the timer ticks (weak); nobody need type. The
two specifications of the consoles need none.

### Disagreements found

* `ide_seek`: `disk.c:556` and `disk.c:573` compare the 32-bit sum, which wraps;
  the comment at `disk.c:558` says positions outside the drive are refused.
* `ide_write_status`: writes ignore the drive's errors, so `disk_write` returns
  RES_OK, "Successful" in `diskio.h:17`, for sectors that were not written.
* `ide_sync`: CTRL_SYNC, "Complete pending write process" in `diskio.h:43`, does
  nothing, and the flush that ends each write is sent while the drive is busy
  with the last sector, which ignores it.

### What the other properties name

Exceptions written into a property are behaviours of the code, each seen in a
counterexample of the property without it.

* heap (`HeapBacked`, `ImplementsBrk`, and the guard `~overlap`): pages of the
  heap from 4 MB on are granted, entered in the second table, and not mapped,
  since numpts is 1 (`main.c:52`); a refused call answers 0 where newlib tests
  for `(void *)-1` (`newlib_calls.c:102`); two overlapping calls can take one
  frame.
* disk (`Intact`, `Exact`): a handler's read in main's command block, between a
  poll and its transfer, or at main's poll with sectors pending; CHS from sector
  64 on, whose sector number counts to 64 on tracks of 63. Such a write can go to
  other sectors and answer 0.
* consoles (`raced`): writers that interrupt each other inside a character count a
  row or column twice, and store behind the screen by as much as `DamageBounded`
  says: one more for every clock handler nested in another.
* ext2 (`LookupRight`, `ListingRight`, `HaltExplained`): one failed read leaves
  a wrong block under a right tag for every later call, and a directory can
  become its own child, until the stack is full. A name is found by any entry it
  begins with (`Plain`), a removed entry with such a name hides those behind it,
  a missing directory is looked up in inode 0, whose number is then computed
  from -1. A refused malloc is only printed. Listings miss what an indirect
  block lists and everything below it (`Missed`, `ext2.c:113`);
  `ext2_print_bgdt` reads behind its buffer if there are more groups than a
  block has descriptors.
* clock (`Missing`, `Understood`, `GoesBackExplained`): from March on in a leap
  year, epoch is a day behind, so it goes back 24 hours at the end of 29
  February; a chip in 12-hour BCD mode has its afternoons 12 hours early; a
  reading with a second inside is late, never early, so it does not go back
  itself, but the next may; after 2099 comes 2000. A handler that is held up for
  hours does no other harm: what it stores is no earlier than its first
  register, and unless it has raced with another nothing newer has been stored
  meanwhile. Clock handlers that have interrupted each other can leave an old
  fattime with a new epoch (`raced`).
* keyboard (`odd`, `lost`): the two Shift keys share a bit, so releasing one
  releases both, and so do the two Ctrl keys: with one still held, a letter is
  then a character or a command of its own; the fake shifts around cursor keys
  and PrtSc are taken for the key, so Shift and a cursor key loses Shift, and
  PrtSc let go under Ctrl leaves it set; Caps Lock toggles on repeat; a byte
  lost from a full buffer can leave a modifier set.
* boot (`DevicesReal`, `BootSound`, `BootEnds`): no loader header, or a frame
  buffer above 4 MB, stops boot; an unknown frame-buffer type leaves screen0
  without functions for F7 or `D` to call; a drive with packets that answers
  late enters the list with no data of its own, and what it sends then makes a
  ghost of the next; a digit key during the detection reads from the same
  channel, and the poll at `disk.c:319` then never ends or finds a drive twice;
  one typed among main's own reads takes a sector of the MBR or of the volume,
  or main takes its sector; a late packet drive on device 0's channel answers
  the read of the MBR; without a FAT volume (also after an `X` or a read gone
  wrong) `main.c:614` reads through a pointer that was never set; `D` on a
  graphics console copies the frame buffer over the kernel.
* graphics console (`ScreenWellFormed`): at 24 bits the last third of every row is
  never cleared.

## 4. Proofs

`HeapProofs`, for all word sizes, casts, scan ranges, page tables, RAM sizes,
requests, callers and any number of tables in the directory that satisfy the
named assumptions of `Heap`:

* `TypeCorrect`: `Spec => []TypeOK`, from `TypeInv`, which adds the ranges of the
  locals (a word number is below the scan range in "bit", a frame afterwards).
* `HeapExclusive`, `BitmapSafe`, `BreakBacked`, `RollbackComplete`,
  `NoFrameIsLost`: `Exclusive`, `BitmapProtected`, `HeapBacked`,
  `NothingBeyondBreak`, `NoFrameLost`. None is inductive. The invariant `IInv`
  adds: at most one call is in progress until two overlap; the frames of mapped
  pages are marked, unless a rollback's mask has unmarked them; what each `pc`
  implies for the frame in hand and the pages of the call (mapped from `first`
  to `first + n`, taken back up to `k` during a rollback); and that every page
  beyond the break belongs to the call in progress. The proof has one lemma per
  action, and the arithmetic of words, bits and the limit in lemmas of their
  own. `RollbackReachesPool` is where it matters that a scan that can fail
  implies a limit that does not wrap. `BreakBacked` says of a page either that
  it is mapped or that it has an entry in a table behind the directory, which is
  what the code makes of it; `Exclusive` and the rest are about entries, whether
  or not they map. `NoFrameIsLost` needs in addition that a marked frame of the
  pool is mapped or in hand.
* `BreakStaysInLastPage`: `BreakInLastPage`, from `Counters`: between calls the
  rest is below a page, and a call's pages cover what it asks for, through the
  wrap too.
* `HeapImplementsBrk`: `ImplementsBrk`, for every behaviour in which no call is
  nested in another. `NoWrap` is the heart: a request smaller than `rest` wraps
  to almost the whole address space, which no page table maps, so a call that is
  answered has not wrapped, and by `LeftOver` the two counters move the break by
  exactly the increment. The answers are part of it: the address of the old
  break (`ReturnGrows`; the heap does not begin at 0 and ends below 4 GB), or 0
  with nothing changed. That newlib understands the 0 is not claimed.

`IdeProofs`, for every disk, geometry, set of requests and build:

* `TypeCorrect`, `ReadsAreTruthful`, `WritesAreConfined`, `WritesAreComplete`,
  `DeviceIsQuiet`: `TypeOK`, `ReadTruthful`, `WriteConfined`, `WriteComplete`,
  `DeviceQuiet`. All follow from one invariant, `IInv`, which says by where each
  caller is in ide_ata_access whose transfer the drive is in and how many of its
  sectors are left. `Counted` is the loop alone. A handler that found the drive
  idle is in step with it (`InStep`) until it answers. A read of main that
  handlers took sectors from has fewer left on the drive than in the loop
  (`Reading`), so it ends in an error before it can answer 0. A write of main is
  at one of two points: the drive wants the next sector (`Wants`) or still holds
  the one before (`Holds`), which is how a loop that ignores its polls still
  cannot overtake the drive; what is not on the disk by then needs a failure.
  `Free` is what a handler leaves behind. `Found` is the arithmetic: the head,
  cylinder and sector numbers of each mode address the sector asked for, where
  the code's CHS formula does (`Exact`). What they say of the sectors asked for
  has `Intact` as its guard; what is left without it is `Consecutive`: a
  transfer, wherever a disturbed command block has sent it, moves from one
  sector to the next and ends after main's count. In a build that does not move
  the buffer's register, `Still` says that only the first place is ever read to.

`TextScreenProofs`, for all screen sizes:

* `DamageIsBounded`: `DamageBounded`. A writer that has looked at the row
  (column) and not yet counted it up owes one (`RowOwing`, `ColOwing` are the
  writers that do); position plus debts never exceeds the bound. When the one
  that runs, on top of the others, makes a new debt it has just found room, so
  the position is inside and the debts are at most one for each writer below
  (`Owed`); any other step pays a debt or leaves the sum (`RowStep`, `ColStep`).
  `Clocks` is arbitrary, so the debts are cardinalities. The register copy of a
  column has room for itself and the debts of the writers below.
* `StoresAreInside`: `StoresInside`, from: without a race one writer is inside a
  character, and what it has looked at is still so.
* `TextIsWellFormed`: `TextWellFormed`. The invariant `Shape` says, by where the
  one writer is, how far the row is filled: inside TEXT_newline the column is 0
  already while the row is still full; between the store and the increment one
  cell more is filled than counted; while rows are copied, every row is still
  filled from the left, whichever rows have been copied. `ScrollRow`, `WipeRow`
  and `StoreChar` are the three steps on the text; division by the row length is
  in `Unique`, `RowOf` and `Cells`. An assumption separates cleared cells from
  characters.
* `HiddenIsLeftAlone`: `HiddenOrFollowed`, if handlers start only between
  characters (`Nesting = FALSE`, as in the run).
* `TextScreenTyped`: `TypeOK`, also under races: `Pens` says what a writer will
  store is a character, `Inked` that the buffer in use holds nothing but
  characters and cleared cells (the pattern of init_screen is only in the other
  one).
* `TextScreenImplementsConsole`: `ImplementsConsole`, again for `Nesting =
  FALSE`. The refinement mapping reads the rows up to the position as lines;
  between the steps of a character they are those of `before`, and the
  character's last step is the abstract `Put`. The invariant `Story` says by
  where the writer is what it has made of the text it found (`Account`): in the
  middle of a newline the rows already copied are the next ones of the old text,
  behind the store the current line is longer by the character. `ScrollText`,
  `WipeText` and `StoreChar` with `SameText` turn cells into lines, `KeptLines`
  is the line that is pushed out.

`ScreensProofs`, for all screen sizes and depths:

* `ScreensTyped`, `ScreensDamageIsBounded`, `ScreensStoresAreInside`,
  `ScreensAreWellFormed`: `TypeOK`, `DamageBounded`, `StoresInside`,
  `ScreenWellFormed`. While the text console is used, its own invariants hold.
  The graphics console looks at the column after it has counted it up, so a
  writer between the two is one column ahead (`Ahead`, `Leading`), and the bound
  has room for each (`EdgeRoom`, `EdgeStep`); without a race there is room for a
  character (`Roomy`). For the shape of the text, the proof keeps a model: a
  screen whose rows are cleared to their end, shaped like a text console's, that
  agrees with this one wherever the clear reaches (`Reached`, `IsModel`). Every
  step has a counterpart on the model, so the lemmas about the text console are
  used once more.

`InterruptsProofs`, about the calendar, for every time of the century and every
mode, where a run tries four starts:

* `ReadingConverted`: whatever six registers show, also a date that no calendar
  has, is converted to the reference day number and second, less `Missing` and as
  `Understood`.
* `DaysFollow`: that day number goes up by one at each midnight, so the reference
  itself is a calendar.

and about the handlers, for every start, and any number of ticks and interrupts:

* `InterruptsTyped`, `OnlyTheClocks`, `EpochIsRight`: `TypeOK`,
  `OnlyClockInterrupted`, `EpochRight`. The invariant follows the stack:
  handlers below the top are clock handlers behind their first register, a stub
  has interrupts off and is on top, and each handler's registers are what the
  chip showed at the time noted, all the same time unless it is marked torn.
  `EpochIsRight` then uses `ReadingConverted`.
* `FatTimeFollowsEpoch`: `FatTimeFollows`, torn readings included. A clock handler
  alone on the stack that has stored epoch and not yet fattime holds the reading
  epoch is from (`Lonely`); between handlers the stored fattime is that of the
  stored epoch (`Stored`), or they have raced.
* `GoingBackIsExplained`: the action property `GoesBackExplained`. The invariant
  `Ordered` compares moments, times with their century (`Follows`). Of each
  reading under way, `Reading` says that it is no older than what epoch is from,
  unless another handler has come in between, and that there is a time, made of
  the fields already read and the chip's present ones for the rest (`Mixed`),
  that is no earlier than its first read. That holds over a tick because the
  fields are read from the second up to the year (`MixedLater`); with the order
  of reads turned round it does not, which is the run's mutant. `DatesOrdered`
  and `ConvertedLater` carry the order of times over to epoch.

`KeyboardProofs`, for every buffer, on any machine and whatever is typed when:

* `CaseAlwaysRight`, `ModifierAlwaysHeld`: `CaseRight`, `ModifierHeld`. Neither
  is inductive, since the driver is behind the keys by the bytes in the buffer.
  The invariant runs the driver ahead: `Reads` is a row of statuses, one before
  each byte that waits, so that each byte leads from one to the next and gives
  what was wanted when it was sent; the last status `Agrees` with the keys that
  are down, where `odd` does not say otherwise: of two Ctrl keys one of which
  was let go, only that the bit is not set without one held. A read takes the
  first off the row; a key puts its bytes behind it (`Pressed`, `Repeated`,
  `Released`: what the bytes of a key with all its prefixes do, for any status
  that agrees). When no byte waits the row is the driver's status alone.
* `KeyboardTyped`: `KeyboardTypeOK`, and with it the bound on what waits. A byte
  that is read can make the driver set the lamps, which leaves two answers in
  its place, whatever the buffer holds; answers leave none. `Bounded` counts,
  from each place in the buffer on, the bytes that can still do so (`More`).

`Ext2Proofs`, for every file system, path and number of failed reads:

* `BuffersGoWrongByFailure`: `GoesWrongByFailure`. `FetchedLater` says what one
  read of a block does to the three buffers and their tags; `Later` is
  transitive, so an action that reads several blocks (a descriptor, an inode,
  the entries) comes to the same. The tags ext2_init stores after the handlers
  are already let in only make a buffer forget what it holds.
* `HaltsAreExplained`: `HaltExplained`, from `Called`: a handler's call is
  possible only once ext2_init has set ready, when malloc has answered for all
  three buffers.
* `LookupIsRight`: `LookupRight`, for directories of any size and depth. What an
  image has to be is assumed by name: `ImageAssumption` (blocks of descriptors,
  inodes, block numbers and entries) and `DirectoryAssumption`, that a directory
  is laid out as ext2 lays it out (`IsDirectory`): its descriptor, its inode,
  direct and indirect blocks, and in each block entries of which one begins
  where the last one ends (`Starts` is the least such set of offsets). TLC
  evaluates both on the images of the run. `Plain` is the guard to read with the
  statement: every directory on the way exists, and no entry's name is the
  beginning of the one looked for without being it. The invariant `LookInv` says
  how many names are behind the lookup (`OnWay`), that its directory is where
  the walk along the path is, that no block it has been through holds the next
  name (`Searched`), and that buf[0] still holds the indirect block; a call that
  is still `clean` has buffers that show what the disk holds (`Sound`). Two
  parts need induction over data. The library's induction theorems take an
  operator; its theorem that the numbers are well founded does not. From it come
  `Least` and `Induct`, for a set of numbers, and from these that the recursive
  functions of the model exist (`LoopExists`, `WalkExists`), so that they can be
  unfolded. `FirstInRight`: the loop's answer is 0 only if no entry of the row
  is hit, by the leastness of `Starts`; and the inode of a hit otherwise,
  because the offsets cannot grow for ever.
* `ReaderTyped`: `TypeOK`, the answers of that loop included (`FirstInTyped`).
* `ListingIsRight`: `ListingRight`, for directory trees of any width, and as
  deep as the stack has room for: what is printed is the tree without `Missed`,
  which is not all of it. `TreeAssumption` says what the tree of an image is,
  all blocks of every directory, and that the listing expected is what remains
  of it; `ListingAssumption` names what an image has to be, with no recursion:
  `dirs` has every directory with its path and inode, and `before` numbers the
  places in its blocks by how many lines of the listing come before them. An
  entry that tells nothing leaves the number as it is, a file is the line with
  its number, and a directory is that line followed by those of what is in it
  (`Tells`): the conditions a listing in order, without gap or repetition,
  satisfies, whoever prints it. The invariant `Stacked` says where each call
  under way is: at an entry of one of its directory's blocks (`Inside`), and the
  calls below go on exactly where the one above will end; `Followed` that the
  lines printed are those before the top's place. That they are read through the
  same buffers, evicted by each call from the next, is `Sound`, as for lookups.

`BootProofs`, for every set of machines, and whatever is typed and when:

* `DrivesAreListed`: `DevicesReal`. The invariant `Detected` holds the detection
  to its course as long as it is `Trusted` (no key has read on the channel
  looked at, no packet drive was late): `Watched` says that only the drive
  looked at has something to say, and what it says by where ide_initialize is;
  `Complete` that the list is what exists below the unit looked at. A key's read
  on the other channel finds no drive busy there, which is why it does no harm.
  What is claimed of a device does not depend on those behind it, so it outlives
  the trust.
* `BootTyped`: `TypeOK`. `Shapes` has the list of drives in step with the units
  looked at; the keyboard's part is `KeyboardTyped`, which `BootProofs` extends.
* `BootIsSound`: `BootSound`, from `Prepared`: the console's functions are set
  before `sti`, and what is mounted can be read as long as no read has gone
  astray. `SectorRead` is what one read does to the registers and the drives;
  `FirstDrive` is the link between the two halves: whatever the keys have mixed
  up behind it, the first device in the list is the first drive there is.

Every property proved here but the two about the calendar is one a run checks (the
keyboard's types as a part of `Boot`'s), and TLC checked it before it was proved.

Only model-checked, and why:

* Liveness (`CallsReturn`, `AccessesEnd`, `CallsEnd`, `RequestsServed`,
  `BootEnds`) rests on ENABLED and fairness, which the prover does not handle.
  Every invariant, action property and refinement of a passing run is proved.

## 5. Not modelled

* FatFs (`ff.c`, `ffunicode.c`): a vendored library, and with its code pages nine
  tenths of the lines under `src/`. It appears as the requests it makes of `Ide`
  and as what start_kernel sees of mounting in `Boot`.
* Exceptions: all but one handler stop the machine, which is how `Boot` and `Ext2`
  end. (do_exc16 returns; it names its exception from behind a table of 16, and
  the stubs of 5 and 16 push no code where the handler expects one.)
* `main.c:442`: total_range counts the pages above 1 MB while frames are numbered
  from 8 MB, so the last frames have no RAM. No state of the program differs until
  one is used; it would need a model of RAM that is not there.
* The page tables of start.asm and `pt_set_entry`, which run once before anything
  else; the tags that parse_multiboot walks over; the colours and test pattern of
  init_screen; colours of both consoles; glyphs.
* `newpath` in `ext2.c:145` is two bytes short: what an overrun of malloc's blocks
  does is newlib's matter.
* Key commands that only print, `disable_irq`, which nothing calls, and register C
  of the clock before the first interrupt, which rtc_init leaves to the firmware.
* The serial port, cpuid, the font and the stubs of newlib write ports or hold
  data, and `vfs.c` is empty.

## 6. Plan

What is left:

1. RAM behind the pool, for the hazard at `main.c:442`.
2. For the live properties, the part a proof can have without fairness: a
   measure that goes down with every step of ide_ata_access, sbrk and the
   listing, from which only the scheduling is left to assume.
