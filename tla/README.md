# VidgaOS: specifications, model checking and proofs

VidgaOS is a 32-bit kernel in C for one processor: a shell on the VGA text
screen, an interrupt-driven keyboard, a FAT32 file system on an ATA disk and two
games. This directory holds TLA+ specifications of its parts, TLC models of
small instances, and proofs checked by TLAPS. Source paths below are relative
to `src/src/`, documents to `src/`, line numbers refer to the commit in `src/`.

## 1. The system

Everything runs in one thread, `kernel_main` (kernel.c), which sets up the
machine and then stays in `shell_run`. The only concurrency is that of the
hardware: interrupts between any two instructions once they are enabled, a drive
that works while the processor polls it, transfers that fail, and power that
goes away.

| Part | State | Operations | Talks to |
|---|---|---|---|
| FAT32 driver (kernel/fat32.c) | the geometry; the disk; a handle for an open file | `fat32_mkdir`, `fat32_create_file`, `fat32_delete`, `fat32_find_file`, `fat32_list_dir`, `fat32_open`, `fat32_read` | ATA driver, by calls |
| Virtual file system (kernel/vfs.c) | `vfs_cwd`: cluster and path of the current directory | `vfs_cd`, `vfs_ls`, `vfs_mkdir`, `vfs_create_file`, `vfs_delete` | FAT32 driver |
| ATA driver (kernel/ata.c) | the drive's registers | `ata_init`, `ata_read_sectors`, `ata_write_sectors` | the drive, polling |
| Keyboard driver (drivers/keyboard.c) | ring `kb_buf`, `kb_head`, `kb_tail`; `shift`, `caps` | `keyboard_irq_handler`, `keyboard_getchar` | the shared ring, interrupts |
| Interrupts and timer (kernel/idt.c, idt_asm.s) | gates, handler table, both controllers, `pit_ticks` | `idt_init`, `irq_handler`, `pit_irq_handler` | keyboard handler, by callback |
| Shell (shell/) | the line being edited | `shell_process_input`, `execute_command` | keyboard, VFS, games, screen |
| Screen (drivers/vga.c) | `vgaBuffPos`, video memory | `print_msg`, `clear_screen` | cursor registers |
| Games (games/games.c, kernel/rand.c) | generator state | `game_dice`, `game_number_guess`, `read_number` | keyboard, `pit_ticks` |
| Boot (kernel.c, entry.s) | none | `kernel_main` | all of them |

What is hard about it:

* a directory change is a sequence of sector writes to two FAT copies and two
  directories, which an error or a power loss can cut anywhere;
* the directory format has two kinds of free entry, and a search stops at one
  of them; several values end a chain; a FAT may have more entries than the
  disk has clusters;
* the current directory is kept twice, as a cluster and as a text, and the way
  up is a third copy on the disk;
* the boot sequence runs again at every power-on, on whatever is on the disk,
  and does not look whether there is a disk;
* nothing but polling keeps driver and drive in step, polls time out without
  saying so, and the result of the last poll of a write is thrown away;
* the interrupt handler shares the ring with a reader that it interrupts
  anywhere, also between "the ring is empty" and `hlt`;
* the keyboard holds one byte and asks once for it, while the boot runs with
  interrupts off; requests may be gone when the controller is asked for them;
* the screen scrolls late: a line feed never does, each character does once; a
  line that is edited wraps and scrolls in the middle of what was printed.

What makes each part correct:

* FAT32: the volume stays sound after any prefix of any call; what is reported
  as done is on the disk, but for the one write the driver may lose; what is not
  being changed stays; every call returns; reading a file follows its chain.
* VFS: calls go to the directory the path names; path and cluster of the
  current directory agree; the prompt comes back.
* ATA: a transfer that reports success has happened, with the exception of one
  lost write; an error is not followed by more writes; polling ends.
* Keyboard: the ring is a queue; a character in it reaches the shell; the
  shift flag follows the keys.
* Interrupts: set up before they come; no line is left in service; no byte is
  left in the port.
* Console: what stands in front of the cursor is what Enter hands over; the
  rest of the screen stays.

## 2. Modules

    Name83 <- Fat32 <- Vfs <- MCVfs                Keys <- Keyboard <- MCKeyboard
                ^  <- MCFat32  ^                     ^        |   ^
                |              |                     |        |    \ <- KeyboardProofs
          Fat32Proofs      VfsProofs              KeyQueue <--+ (Q == INSTANCE ... WITH)
                ^              |
    Recursion <- ChainProofs <-+

    Ata <- MCAta                       Interrupts <- MCInterrupts      Console <- MCConsole
     | ^                                    ^                             | ^
     |  \ <- AtaProofs                       \ <- InterruptsProofs        |  \ <- ConsoleProofs -> Recursion
     v (T == INSTANCE ... WITH)                                           v (E == INSTANCE ... WITH)
    Transfers                                                         LineEditor

Three modules are abstract specifications which a detailed one is shown to
implement: KeyQueue, Transfers and LineEditor.

**Name83** is the way of a name into a directory entry and back. A name is what
stands before its first dot and what stands behind it; `Head8` and `Head3` are
the truncations to eight and three bytes. `Stored` is the part of
`create_dirent` that fills the entry (fat32.c:384-410), `Rendered` the part of
the searches that rebuilds a text from it (210-222, 511-522). The blank and the
zero extension, which the code treats differently, are kept apart.

**Fat32** is the driver's three modifying calls. `fat` and `dir` are the disk:
every copy of the FAT, and the clusters seen as directory entries (`RawSlot`
stands for file data or anything never written). `pc`, `call`, `new`, `cur`,
`slot` and `idx` are the position in the call, its arguments and its local
variables.

| Actions | Code |
|---|---|
| `EnterMkdir`, `EnterCreate`, `EnterDelete` | the calls, fat32.c:443, 485, 489 |
| `Alloc`, `AllocFull` | `fat32_alloc_cluster`, 305-317, and its caller, 444-449 |
| `MarkFat` | `fat32_update_fat_entry`, 319-338: one copy of the FAT a step |
| `Fill`, `FillBeyond` | the new directory's cluster, 455-480: one sector a step |
| `ScanFinds`, `ScanNext` | the search of `create_dirent`, 374-384 and 435-440: one cluster a step |
| `SeekFinds`, `SeekEnds`, `SeekNext` | the search of `fat32_delete`, 492-524, 503, 535 |
| `Put` | the changed cluster written back, 384-433 and 524-531: one sector a step |
| `TransferRefused` | any of the error returns; ata.c:40, 64, 82, 106 |
| `PutLost` | the last write of a call, lost with its status thrown away; ata.c:118-121 |
| `Crash` | power loss |

A call holds the machine until it returns, so the model runs one at a time. The
searches only read, and nothing else runs, so reading a cluster is not a step of
its own. `Callable` are the directories the path layer can hand in.

`Faults` says what a transfer may do. With "refuse" any transfer may report an
error. In the code an error stays in the drive's status, and `ata_wait_ready`
then refuses every later transfer without issuing a command (this is what
`Transfers` says and `IsTransfers` shows of the driver); Fat32 lets later
transfers succeed as well, which allows more behaviours, not fewer. With "drop" a
write may fail in its last step, whose status the driver throws away
(ata.c:118-121), and not reach the disk. If it was the last transfer of its call,
the call reports success: `PutLost`. If it was not, the error is in the status when
the next transfer is asked for, which is refused, so the disk is left as by a
refusal of the write itself: `TransferRefused`. The runs MCFat32 and MCFat32Lost and
all proofs have both kinds of failure.
Sectors are written whole or not at all, and a read that reports success returns
what is on the disk: for a sound drive that is what `IsTransfers` shows.

**Vfs** adds the layer of paths. A path is the sequence of texts between its
slashes. `Start` resolves the typed path and cuts it into parent and name the
way the code does, aliasing included (`ParentPath`, `FileName`); `WalkUp`,
`WalkStay`, `WalkDown` and `WalkFails` are one round of the loop of
`navigate_path` (vfs.c:169-204); `ChangeDirectory`, `List` and `CallFat32` are
what the operations do where they arrive. `BootCommand` is the boot sequence,
`ShellCommand` what a user types, `PowerCycle` switches the machine off and on.
`UsesFat32` says that this machine is one of the users `Fat32` was written for.

A search of `fat32_find_file` is one step (`Lookup`): it only reads, and nothing
else runs. That it ends is not a question the model of paths can answer; it takes
the same chains to the same end marks as the search of `create_dirent`, which
Fat32 takes cluster by cluster.

`cat` is `OpenFile` (fat32.c:236-253, always in the root, whatever the current
directory), one `ReadSector` for each call of `fat32_read` (255-299) and
`CloseFile`. A file this system makes has no cluster and no bytes, so the files
that are read are a host's. Only the call that starts a cluster loads it; the
others copy from an array of their own that nothing has filled, which may or may
not hold what the earlier call left at that place of the stack: both are allowed
(`Leftover`). `volume` is what `fat32_init` found: a volume, a disk that answers
with errors ("failing"), or no drive on a bus that reads zeros ("blank"), where
every transfer succeeds and the chain of cluster 0 leads to cluster 0
(`Endless`).

**Ata** is the driver and the drive behind its ports, two processes. Each poll
and each group of registers that can be told apart is a step of the driver: the
address has two parts, so that a command with half an address can be seen.
`Respond` and `StoreSector` are the drive. `ata_poll_status` ends when the bit is
seen or when it has timed out (`Polled`), which a drive that is free cannot
change and one that is "slow" always may. The five kinds of drive are listed at
the head of the module. Only a drive that keeps to the protocol ("sound") is
required to give correct transfers; all of them are required to let calls end.
**Transfers** is what Fat32 relies on: a successful read gives the sector, a
successful write is on the disk, a failed transfer changes nothing, after the
first failure nothing is written until the next power-on, and the only way out is
the one write that fails in its last step. `T == INSTANCE Transfers WITH ...` maps
the drive's state and the driver's position to `health` and `stored`.

**Keys**, **KeyQueue** and **Keyboard** are the keyboard driver. Keyboard has one
action per instruction of the reader that touches shared state (`Test`, `Halt`,
`Load`, `Advance`), one for the whole interrupt handler, which runs with
interrupts off, and one for the timer interrupt. KeyQueue is what the driver
promises. A ring that is read at t and written at h holds the sequence
`Contents(b, h, t)`; `Q == INSTANCE KeyQueue WITH ...` is the refinement
mapping, and `IsKeyQueue` the claim.

**Interrupts** is the way from power-on to the shell: `idt_init`,
`init_keyboard`, `Sti` and `Srand` in the order of kernel.c, both interrupt
controllers (requests `irr`, lines in service `isr`), the dispatch of `irq_handler`
with the end-of-interrupt commands (idt.c:91-106), the timer, the keyboard's
one-byte buffer and the disk's line 14, which nothing turns off and nothing
handles. `Spurious` is what the controllers deliver for a request that is gone:
line 7 with nothing in service, or line 15 with only the master's line 2.
`pic_remap` writes back the masks it has found (idt.c:110-112, 130-132) and nothing
else sets them, so which lines get through is the firmware's choice: `Unmasked`.
That it has left the lines of the timer and the keyboard unmasked is an assumption
(`FirmwareMasks`); the code rests on it and does not check it, and without it
`ByteTaken` is false. `KeyAgain` is for keyboard controllers that raise the request again which the
set-up of the interrupt controller has dropped (idt.c:115); others do not, and
nothing is claimed for a byte from before.

**Console** is the screen, the line editor and the guessing game. `print_msg`
folds `Put` over the text; `Put` has the code's order of cases: line feed without
scrolling, backspace, wrap and store. `TypeCharacter`, `Backspace`, `EmptyLine`
and `Submit` are the branches of `shell_process_input`, `RunEcho` ... `RunUnknown`
those of `execute_command`; the commands that only print are `RunOther`.
`TypeDigit`, `EraseDigit` and `EnterNumber` are `read_number`. **LineEditor** is
the abstract line: it grows, shrinks from its end and is handed in. Its `line` is
not a variable of the code but the cells in front of the cursor (`Seen(Typed)`):
`IsLineEditor` relates the screen, the buffer and the command.

Definitions named `Slip...` are mistakes this code could contain. No
specification uses them; each property has been seen to fail when one of them
takes the place of the definition below it.

## 3. What is checked

| Run | What it shows | States |
|---|---|---|
| MCFat32 | directory changes on a small volume, full directories, full disk, failing transfers, lost writes, power loss | 184,242 |
| MCVfs | two boots, with a disk and with one that fails, and all commands in between | 74,428 |
| MCKeyboard | a ring of three, every interleaving of keys, ticks and the reader | 529,458 |
| MCAta | four sectors, five kinds of drive, every interleaving of driver, drive and power loss | 75,100 |
| MCInterrupts | every order of boot, requests, spurious requests and handlers | 2,034 |
| MCConsole | every way to fill, edit and hand in lines on a screen of two rows | 280,193 |

`MCFat32` checks the type invariant and:

* `LinkedAllocated`, `NoCrossLink`, `DirsInitialised`, `NoEntryPastEnd`,
  `MirrorLag`: the volume is sound after every step, hence after every error
  and power loss, and stays sound for the calls that come later;
* `InFlight`: what a call in progress relies on (section 5);
* `OkMeansWritten`: success is reported only when all there was to write has been
  written, but perhaps the last sector of the cluster with the entry, and with that
  sector the entry is on the disk and visible (`OkMeansDone`, without the exception,
  does not hold: see below);
* `AllocatedKept`: nothing else on allocated clusters changes;
* `CallReturns`: every call ends.

`MCVfs` checks `VfsTypeOK`, whose part that can fail says that a walk always
stands in a directory a call can be made on (or on the 0 of a host's ".."),
`DotDotsLead` (each ".." entry is there in full, and names the directory its own
hangs in, or 0), `UsesFat32`, `CwdAgrees` (text and cluster of the current
directory agree, and the text has no "." or ".." left), `WritesWhereAsked` (a
command changes only the directory its path names, there only the entry of that
name, and the cluster it allocates; directly under / only the directory is asked
for, since the name is lost there, as MCVfsSystem shows), `CatFollowsChain` (`cat`
goes along the chain to the end of the file, with the first sector of every
cluster in its place; the others may be leftovers, which `CatShowsFile`, checked in
MCVfsCat, does not accept) and `BackToPrompt`, which fails if the search of
`create_dirent` does not go on to the next cluster (`SlipNoAdvance`): the root of
this run has two. `MCKeyboard` checks `IsKeyQueue`, `ShiftNotStuck` and
`CharDelivered`.

`MCAta` checks `AtaTypeOK`, whose last part `Handshake` says where a sound drive is
at each step of the driver, `IsTransfers` and `CallEnds`. `MCInterrupts` checks
`NothingLeftInService` (a line left in service would shut out itself and those
behind it), `ReadyForInterrupts` and `ByteTaken`. `MCConsole` checks `IsLineEditor`,
`EditKeepsRest`, `NothingBehind`, `WinIsSeen`, and `PromptShown`, which grants two
characters of the prompt: at the bottom of the screen a line feed does not
scroll, so of several in a row, and of one after a line that has exactly filled
its row, each but the first costs the next text one character.

Bounds and why they are enough:

* Fat32: five clusters of two sectors and FAT sectors of three entries give every
  case of a search (first cluster, later cluster, end mark, full chain), of
  the allocator (found, none left, entry without a cluster), of the FAT (entry in
  the first and in a later sector) and of a cluster (cut between its sectors).
  Deleted entries lose their name in the model, and a chain never grows in the
  code, so the reachable disks are finite without a bound on the number of calls.
* Names: two typed names, one that is found as typed and one that is not.
* Vfs: `MaxDepth` 4 bounds the components of a path and `MaxBoots` 2 the power
  cycles; the second boot meets the disk the first one and its user left. The
  three default directories have the same name in the models (what happens to
  them does not depend on it). The root has two clusters, the first of them full. One
  cluster is left for the user, whose directory can be made, entered and removed while
  it is the current one (it cannot be made again: `rm` does not free its cluster);
  `cd` is also tried on a file. The file to read has two clusters and ends inside
  the second. Transfers do not fail one by one in this run (Fat32 has that),
  because a ".." that cannot be read sends the walk to the root (vfs.c:184-186)
  and the command elsewhere; the disk that fails does so from the start, as the
  sticky error makes it. `FilePaths` does not end in "." or "..": after `rm ..` the
  way up is gone. The ".." entries of the first disk are as `fat32_mkdir` writes
  them; MCVfsReserved has those of a host.
* Keyboard: a ring of three holds two characters, which is enough for full,
  wrapped and empty; one key of each kind; `PortSize` 1 because a code waits
  until its interrupt is served.
* Ata: two values for each half of the address and two contents tell apart every
  wrong sector and every lost write. All callers ask for one sector, so the loop
  over sectors is left out.
* Interrupts: `MaxTicks` 3; nothing depends on more ticks than two.
* Console: a screen of 4 by 2 cells, lines of three characters behind a prompt of
  three, so that a line wraps, fills its row exactly, scrolls and reaches its
  limit; numbers of two digits up to 10, so that a number can be out of range on
  both sides; `MaxGuesses` 2. Words of commands are one character, texts keep
  their line feeds. Texts have at most one blank line in a row, as those of
  help and of the game do; a file shown by `cat` may have more (section 4).

Fairness: `Fat32` assumes only that the processor goes on with a call (`Step`);
nothing has to fail and nobody has to make another call. `Vfs` assumes the same
of the whole kernel. `Keyboard` assumes that the processor goes on, that a
pending keyboard interrupt is served and that the timer ticks, which `pit_init`
sets up at 100 Hz; `CharDelivered` is false without the timer, since a key can
come between the test and `hlt`. `Ata` assumes that the processor goes on and
that a drive at work gets done, even a slow one; `CallEnds` must hold without
any promise of a drive that is not there. `Interrupts` assumes strong fairness of the boot
sequence and of serving requests: both are interrupted again and again by the
timer, but a hundred times a second leaves room, and the controller serves the
highest request first. Nobody has to type, and no timer has to tick there.

### Where documentation and code differ

Each of these has a run of its own in which TLC finds the statement violated.

| Run | Statement | Code |
|---|---|---|
| MCFat32Lost | "Proper status checking and error handling" (FAT32_IMPLEMENTATION.md:29) | the status after the last word of a write is thrown away, ata.c:118-121, so a call whose last write failed reports success with nothing changed (`OkMeansDone`) |
| MCVfsCat | `cat` displays the file's contents, "Reads file in 512-byte chunks" (FAT32_IMPLEMENTATION.md:129-135), "Copy data to user buffer" (:115) | a chunk that does not start a cluster is copied from a local array nothing was read into, fat32.c:257-266, 284 |
| MCVfsSystem | "Change to default directory (/system)" (kernel.c:32) | names directly under / are cut off by the terminator of the parent path, vfs.c:238 |
| MCVfsMkdir | `vfs_mkdir` "Creates directory at path" (HIERARCHICAL_FILESYSTEM.md:177) | a name without a dot is found only as "name.", fat32.c:401 and 216 |
| MCVfsReserved | "Cluster 0-1: Reserved" (FAT32_IMPLEMENTATION.md:90) | ".." of a directory in the root, as a host writes it, leads to cluster 0, vfs.c:183 |
| MCVfsNoDisk | "Without hard disk (limited functionality)" (COMPILATION.md:94) | with no drive on a bus that reads zeros, the boot sequence's `vfs_cd("/system")` follows the chain from cluster 0 to cluster 0 for ever, kernel.c:22, fat32.c:185 |

Also noticed while modelling, and not stated as properties:

* `fat32_alloc_cluster` "Scans FAT table for first free cluster" and returns "0 if
  full" (HIERARCHICAL_FILESYSTEM.md:59-60), but its loop is bounded by the entries
  of the FAT and not by the clusters of the disk (fat32.c:307), so a full disk may
  give the number of an entry without a cluster. `Alloc` and `FillBeyond` model it;
  mkdir then fails after it has marked the entry, and `LinkedAllocated` shows that
  such a number is never linked.
* "Wait for drive to be ready" (ata.c:17): the BUSY bit (ata.h:23) is never looked
  at, so a drive that shows READY while it is busy gets the next command too early
  (ata.c:19). It is the "eager" drive of MCAta.
* "Seed RNG from timer ticks (ticks accumulated during boot)" (kernel.c:38):
  interrupts are off until the line before, and all the ticks of the boot are one
  request, so the seed is 1 or little more. `Timer` and `Srand` model it.
* The boot sequence writes its directories again at every boot, although
  kernel.c:27 says "if they don't exist"; the cause is the one MCVfsSystem shows,
  the empty names.
* Clusters of "1-64 sectors" (FAT32_IMPLEMENTATION.md:114): the buffers hold eight
  (fat32.c:186).

## 4. What the models leave out

* What calls on cluster 0 would do on a recognised volume: reads there see an
  empty directory, and calls on it are not made (`CallFat32`); MCVfsReserved shows
  that they would be.
* Volumes with more than eight sectors a cluster, which do not fit the 4096-byte
  buffers (fat32.c:186); paths longer than 255 characters; paths with empty
  components ("a//b").
* Long-name entries; dates of entries; the last, partly filled sector of a file
  (`HostSize` counts sectors).
* A file with several blank lines in a row, shown at the bottom of the screen:
  `cat` hands each line feed to `print_msg`, which moves the position behind the
  text memory, one row each, and takes one row back for each character.
  FAT32_IMPLEMENTATION.md:137 says that `cat` "Handles newlines and tabs", and not
  what is shown when they leave the screen.
* Interrupt masks other than as an assumption on which lines get through
  (`Unmasked`).
* Colours, the hardware cursor, the digits printed by `print_msg_num`, the
  arithmetic of the generator (`rand` may return anything in its range), the dice.
* Gate encodings, segment set-up, saved registers and faults: straight-line set-up;
  `isr_handler` does nothing and returns to the instruction that faulted.
* Several sectors in one transfer: no caller asks for it.
* `fat32_write_dirent`, `vfs_copy` and `vfs_find` are not called by anything.
  `fat32_list_dir` only reads and prints.
* Multi-byte key sequences (0xE0): the driver looks at each byte alone.

## 5. What is proved

**Fat32Proofs**: for every geometry, every image a host may have left that is a
sound FAT32 volume (`HostDisk`), every set of names and any pattern of transfer
errors, lost writes and power losses: `TypeCorrect`, `LinksAreAllocated`,
`NoCrossLinks`, `DirectoriesInitialised`, `EntriesVisible`, `MirrorsOnlyLag`,
`CallsRely` and `AllocatedClustersKept`.

The soundness of the disk is not inductive: that the link `Put` writes is sound
depends on what the call did before. The invariant `IInv` adds `InFlight`: a new
cluster goes free, marked, formatted, linked, and until the last step no entry
and no chain names it (`NewUnnamed`, `NewMarked`); a search stands in the chain
of its directory and has left no free entry behind (`SearchPosition`), which is
why the entry it writes is never behind an end mark; free clusters and the root
are as the host left them. There is one lemma for each action, one step in it for
each conjunct the action can disturb. `FoundAsTyped` says which names are found
as they were typed.

**KeyboardProofs**: for every size of the ring and every keyboard, `TypeCorrect`
and `RingIsQueue`, the refinement of KeyQueue. The lemmas `PushAppends` and
`PopTakesHead` say what the two index updates do to the contents of a ring; the
invariant `RingInv` says that the reader, once past its test, stands on a ring
that is not empty and holds the character at its tail, whatever the handler does
in between. `ShiftIsReleased` proves `ShiftNotStuck` for any number of waiting codes;
its invariant `ShiftFollows` says that the last shift code in the port agrees with
the keys, and the flag itself when there is none.

**AtaProofs**: for every set of addresses and contents, every disk and every set
of drives, `TypeCorrect` and `TransfersImplemented`. `AtaTypeOK` is inductive
because it contains `Handshake`; `SoundPolls` says what a poll shows of a sound
drive and when it ends. With both, each step of driver and drive is mapped to one
action of Transfers or to a stutter.

**InterruptsProofs**: for every bound on the ticks and whatever else the firmware
has left unmasked, `TypeCorrect`, `ServiceEnds` and `FirstInterruptReady`. The
invariant `BootInv` adds two parts to the types: `Served`, which lines are in
service at each point of a handler (for a spurious interrupt too, which is why the
two end-of-interrupt commands clear exactly what is there), and `Order`, how far
the boot is when interrupts are on.

**Recursion** has what the next three modules need of definitions by recursion. The
induction theorems of the library take the induction hypothesis as an operator,
which the provers cannot be given; here it is a set of numbers, and `Induction`
says that a set with 0 and the successor of each of its members has all of them.
`Iteration`, `Folding` and `Orbit` say that a function defined by recursion on
the numbers, on the places of a sequence (as `FoldLeft` goes through them) or on
nothing but its last value exists, so that what `CHOOSE` picks satisfies its
equation. `GrowthStops` bounds the closure of a finite set.

**ChainProofs** proves `OkIsWritten`, the property `OkMeansWritten`, under the same
assumptions as Fat32Proofs: lost writes included, a call that reports success lacks
at most the write of its last sector (`LastPut` says that with it the call has done
what it is for). `Chain` is the recursive closure of a cluster under
the FAT. `Progress` says of a search in terms of sets where it is (in the chain
of its directory), what it has passed (no entry it was looking for) and what a
new directory's cluster has got so far; `ChainsDisjoint` says that the chain of a
new directory touches no other.

**VfsProofs** is about the whole machine: for every geometry, every sound volume
whose ".." entries are in order (`HostDotDots`), every set of paths a user may
type, every volume, failing or blank disk at each power-on, any number of power
cycles, and transfers that may fail one by one. `MachineInvariance` proves the
inductive invariant `Machine`, which has these parts:

* `Sound`: `IInv` and `Progress` of Fat32, and `DotDotsLead`. A walk that goes up
  is sound only because ".." entries are, and what makes those sound is the order
  in which `fat32_mkdir` formats and links a cluster, so it is proved step by
  step of a call (`DotsStep`), for power losses in between as well.
* `Walking`: a walk is at 0 or at a cluster in `Rooted`, the directories that can be
  reached from the root by names. Going down stays there by definition; going up
  does because the directory a ".." names owns the entry that leads back down
  (`UpStays`): it is itself reached, or the directory could not be.
* `PathTypes`: what `Resolve`, `ParentPath`, `FileName` and the fold of `Normalize`
  return, for paths of any length.
* `Reading`: while a file is open nothing else goes on, and the cluster to be read
  next is allocated or the end.

From it follow `WalksAreInDirectories` (`VfsTypeOK`), `DotDotsLeadUp`,
`MachineUsesFat32`, the property that carries what is proved of Fat32 over to the
machine (every step of the machine is one of Fat32 or leaves its variables
alone), and with it `MachineKeepsVolume` and `MachineKeepsPromises`.
The latter has the same exception as `OkMeansWritten`. `CatGoesAlong` proves
`CatFollowsChain` with a further invariant, `ReadTo`: of a
file of which n sectors are shown, the next cluster to read is number n div
SectorsPerCluster of the chain (`NthCluster`, a recursive function), or in the
middle of a cluster the one after the cluster held, unless an error cut it short.
What MCVfsCat shows to fail, `CatShowsFile`, holds on a volume with one sector a
cluster: `CatWholeIfOneSector`.

The theorems of VfsProofs cover what its run leaves out: that run has no single failing
transfers and types no ".." as a file, while `WalksAreInDirectories` and
`MachineKeepsVolume` hold after `rm ..` and after a ".." that could not be read.

**ConsoleProofs**: for every size of the screen, of the line and of the number, all
characters, words and texts that satisfy `TextsFit`, every property of MCConsole.
`print_msg` is a fold, so `Printing` says once that what holds before and after
each character is carried to the end of the text, and the other lemmas are about
one character. Two arguments meet in the invariant `ConsoleInv`:

* `Behind(k)`: the position is at most so far behind the screen that k characters
  bring it back, and nothing stands behind it. A line feed does not scroll and
  takes the position up to a row further, and each character behind the edge takes
  back a row but one cell. `Late` counts this along a text, `TextsFit` says that
  no text of the system ever leaves more than three characters missing, and the
  prompts have at least three. `AfterLine` shows that the texts stay so with what
  the user has typed in them (echo, unknown commands).
* `Stands`: the prompt and the line, as the buffer and its index have it, end at
  the position (`ShownTo`), but for two characters of the prompt. That one row is
  made free at a time is enough as long as prompt and line fit above the last
  row, which is the other part of `TextsFit`.

`ConsoleTypesHold`, `PromptStays` and `NothingStaysBehind` follow at once;
`EditKeeps` (`EditKeepsRest`) and `WinIsShown` (`WinIsSeen`) from it step by step,
and `ConsoleImplementsLineEditor` (`IsLineEditor`): the cells in front of the position
are the edited line (`SeenIsEdited`), and each action is `Type`, `Erase` or
`Enter` of LineEditor (`EditIsOneKey`, `Kinds`). `CommandIsLine` is why Enter hands
over just that line: the terminator stands where the index is, and no character
before it is one, whatever longer line the buffer has held.

`TextsFit` holds of the program: its screen is 80 by 25, its line 256 characters,
its prompts have 7 characters or more ("root/> ") and 12 ("Your guess: "), and
none of the strings of commands.c, shell.c and games.c has more than one blank line
in a row, with the line feed the shell prints first counted. It does not hold of
`cat` on every file (section 4). As in the run, the prompt is one text; the code's
grows with the path, by at most 255 characters, for which there is room.

Assumptions on constants that the proofs use: the geometry (`Geometry`), a sound
volume to begin with (`HostDisk`, `HostDotDots`), a typed path has at least one
part and the last part of one handed to mkdir, touch or rm is a name Fat32 may be
called with (`VfsAssumption`), and at least one boot; for the screen, sizes and
texts (`ConsoleAssumption`, `ControlCharacters`, `Texts`, `TextsFit`). TLC
evaluates each of them in the runs. None of the theorems restricts the failures.

Model-checked only:

* the liveness properties (`CallReturns`, `BackToPrompt`, `CharDelivered`,
  `CallEnds`, `ByteTaken`), which are out of the prover's reach;
* `CwdAgrees` and `WritesWhereAsked`: they are not true of every set of paths,
  since after `rm ..` or `touch ..` the walk goes elsewhere than the text, nor of
  ".." entries that cannot be read; a theorem would have to exclude these by an
  assumption on the constants, which no code justifies.

## 6. Plan

1. Name83, Fat32, Vfs and their runs; invariants of Fat32 proved (done).
2. Keyboard and KeyQueue, refinement proved (done).
3. Ata and Transfers, refinement proved; no disk and failing disk in Vfs (done).
4. Interrupts and boot order, safety proved (done).
5. Console and LineEditor: screen, line editor, guessing game (done).
6. Reading files with `cat` (done, in Vfs).
7. `OkMeansWritten`, the invariant of the whole machine, its use of Fat32, types and
   reading of files proved; Console proved, with its refinement (done).
8. An abstract directory store (a tree of names) that Fat32 implements, crash
   outcomes included.
