------------------------------- MODULE Fat32 -------------------------------
(***************************************************************************)
(* The FAT32 driver of VidgaOS (src/src/kernel/fat32.c): what mkdir,       *)
(* create_file and delete do to the file allocation tables and to the      *)
(* directory clusters, one disk transfer or one cluster of a search at a   *)
(* time, with transfers that fail and a machine that loses power anywhere. *)
(*                                                                         *)
(* The kernel runs one call at a time.  pc says how far the current call   *)
(* has come, call holds its arguments and new, cur, slot and idx its local *)
(* variables; fat and dir are the disk and are all that a power loss       *)
(* leaves.                                                                 *)
(*                                                                         *)
(* Definitions named Slip... are mistakes this code could contain; they    *)
(* are part of no specification and serve to see that a property notices.  *)
(***************************************************************************)
EXTENDS Name83, Integers

CONSTANTS
    NumFats,             \* boot sector: number of FAT copies
    FatSize,             \* entries in a FAT (sects_per_fat * 512 / 4)
    EntriesPerFatSector, \* FAT entries in a sector (128)
    LastCluster,         \* last cluster the disk has sectors for
    SectorsPerCluster,   \* boot sector
    SlotsPerSector,      \* directory entries in a sector (16)
    RootCluster,         \* boot sector
    FatImage,            \* the FAT of the disk the machine first boots from
    DirImage,            \* and its clusters
    Typed,               \* the names calls are made with
    Faults               \* "refuse": transfers may report an error
                         \* "drop": a write may be lost without one

Free   == 0
EocMin == 268435448      \* 0x0FFFFFF8
Eoc    == 268435455      \* 0x0FFFFFFF

Copies     == 0 .. NumFats - 1
FatEntries == 0 .. FatSize - 1
Clusters   == 2 .. LastCluster
Sectors    == 0 .. SectorsPerCluster - 1
Slots      == 1 .. SectorsPerCluster * SlotsPerSector
SectorOf(s) == (s - 1) \div SlotsPerSector
FatSector(c) == c \div EntriesPerFatSector

is_eoc(v) == v >= EocMin

(***************************************************************************)
(* One directory entry.  "end" is a zero first byte, "del" is 0xE5, "live" *)
(* anything else, and "raw" is a 32-byte piece of a cluster that was never *)
(* formatted as a directory (file data, or never written).  The kind       *)
(* stands for the attribute byte; "dots" are the entries "." and "..".     *)
(***************************************************************************)
Slot == [st : {"end", "del", "live", "raw"}, name : Name,
         kind : {"dir", "file", "label", "dots"}, start : FatEntries]

Blank(st) == [st |-> st, name |-> EmptyName, kind |-> "file", start |-> 0]
EndSlot == Blank("end")
DelSlot == Blank("del")
RawSlot == Blank("raw")
Entry(n, k, c) == [st |-> "live", name |-> n, kind |-> k, start |-> c]

-----------------------------------------------------------------------------
(* What a sound FAT32 volume looks like: f is a FAT, d the clusters.        *)

\* Chains stay on the disk, never run into a free cluster, and never join.
ChainsSound(f) ==
    /\ \A c \in Clusters : f[c] # Free =>
           is_eoc(f[c]) \/ (f[c] \in Clusters /\ f[f[c]] # Free)
    /\ \A b, c \in Clusters : f[b] = f[c] /\ f[b] \in Clusters => b = c

\* An entry that names a cluster names the head of an allocated chain.
LinksSound(f, d) ==
    \A c \in Clusters, s \in Slots :
        d[c][s].st = "live" /\ d[c][s].start # 0 =>
            /\ d[c][s].start \in Clusters
            /\ f[d[c][s].start] # Free
            /\ \A b \in Clusters : f[b] # d[c][s].start

\* The entries that own the chain they name.
Owns(e) == e.st = "live" /\ e.kind \in {"dir", "file"} /\ e.start # 0

SingleOwner(d) ==
    \A b, c \in Clusters : \A s, t \in Slots :
        Owns(d[b][s]) /\ Owns(d[c][t]) /\ d[b][s].start = d[c][t].start =>
            b = c /\ s = t

Formatted(d, c) == \A s \in Slots : d[c][s].st # "raw"

DirsFormatted(d) ==
    \A c \in Clusters, s \in Slots :
        Owns(d[c][s]) /\ d[c][s].kind = "dir" => Formatted(d, d[c][s].start)

\* Every search stops at the first "end", so nothing may live behind one,
\* neither in its cluster nor in the next cluster of the chain.
VisibleEntries(f, d) ==
    \A c \in Clusters, s \in Slots : d[c][s].st = "end" =>
        /\ \A t \in Slots : s < t => d[c][t].st # "live"
        /\ f[c] \in Clusters => \A t \in Slots : d[f[c]][t].st # "live"

\* What a free cluster still holds is no part of any directory.
FreeClustersRaw(f, d) ==
    \A c \in Clusters, s \in Slots : f[c] = Free => d[c][s] = RawSlot

ASSUME Geometry ==
    /\ NumFats \in Nat \ {0}
    /\ FatSize \in Nat /\ LastCluster \in 2 .. FatSize - 1
    /\ FatSize <= EocMin
    /\ EntriesPerFatSector \in Nat \ {0}
    /\ SectorsPerCluster \in Nat \ {0}
    /\ SlotsPerSector \in Nat \ {0, 1}
    /\ RootCluster \in Clusters
    /\ Typed \subseteq Name
    /\ Faults \subseteq {"refuse", "drop"}

\* The disk was formatted and filled by a host that keeps to the standard.
ASSUME HostDisk ==
    /\ FatImage \in [FatEntries -> 0 .. Eoc]
    /\ DirImage \in [Clusters -> [Slots -> Slot]]
    /\ FatImage[RootCluster] # Free
    /\ Formatted(DirImage, RootCluster)
    /\ \A c \in Clusters : FatImage[c] # RootCluster
    /\ ChainsSound(FatImage)
    /\ LinksSound(FatImage, DirImage)
    /\ SingleOwner(DirImage)
    /\ DirsFormatted(DirImage)
    /\ VisibleEntries(FatImage, DirImage)
    /\ FreeClustersRaw(FatImage, DirImage)

-----------------------------------------------------------------------------
VARIABLES
    fat,    \* the FAT copies on disk; copy 0 is the one that is read
    dir,    \* the clusters on disk, as directory entries
    pc,     \* where the current call is
    call,   \* its arguments
    new,    \* the cluster it allocated, 0 if none
    cur,    \* the cluster it is searching or writing
    slot,   \* the entry of cur it is about to write
    idx,    \* next FAT copy or sector of the write loop
    ret     \* how the last call ended

disk  == <<fat, dir>>
local == <<call, new, cur, slot, idx>>
vars  == <<fat, dir, pc, call, new, cur, slot, idx, ret>>

NoCall == [op |-> "none", parent |-> RootCluster, name |-> EmptyName]

Init ==
    /\ fat = [k \in Copies |-> FatImage]
    /\ dir = DirImage
    /\ pc = "idle" /\ ret = "none"
    /\ call = NoCall /\ new = 0 /\ cur = RootCluster /\ slot = 1 /\ idx = 0

\* Directories the layer above can hand in: the root and what live directory
\* entries name.
Callable ==
    {p \in Clusters :
        \/ p = RootCluster
        \/ \E c \in Clusters, s \in Slots :
               /\ Owns(dir[c][s]) /\ dir[c][s].kind = "dir"
               /\ dir[c][s].start = p}

Enter(op, p, n, at) ==
    /\ pc = "idle"
    /\ pc' = at
    /\ call' = [op |-> op, parent |-> p, name |-> n]
    /\ new' = 0 /\ cur' = p /\ slot' = 1 /\ idx' = 0
    /\ ret' = "none"
    /\ UNCHANGED disk

EnterMkdir(p, n)  == Enter("mkdir", p, n, "alloc")
EnterCreate(p, n) == Enter("create", p, n, "scan")
EnterDelete(p, n) == Enter("delete", p, n, "seek")

\* The call is over and its stack frame gone.
Return(r) ==
    /\ pc' = "idle" /\ ret' = r
    /\ call' = NoCall /\ new' = 0 /\ cur' = RootCluster /\ slot' = 1 /\ idx' = 0

\* A transfer reports an error.  Every caller up to the top gives up and returns
\* 0; fat32_alloc_cluster takes an entry it cannot read for one in use, and the
\* searches take a FAT entry they cannot read for an end of chain.  The same is left
\* when a write was lost in its last step without an error and was not the last
\* transfer of the call: the driver refuses all that come after it (Transfers).
SlipErrorIgnored ==
    /\ pc # "idle" /\ "refuse" \in Faults
    /\ Return(IF pc = "put" THEN "ok" ELSE "failed")
    /\ UNCHANGED disk

TransferRefused ==
    /\ pc # "idle" /\ "refuse" \in Faults
    /\ Return("failed")
    /\ UNCHANGED disk

-----------------------------------------------------------------------------
(* fat32_alloc_cluster                                                      *)

SlipHostMarkIsFree ==
    {c \in 2 .. FatSize - 1 : fat[0][c] \notin Clusters \cup {Eoc}}

FreeEntries == {c \in 2 .. FatSize - 1 : fat[0][c] = Free}

(***************************************************************************)
(* The first free entry.  A FAT read that fails looks like an end of       *)
(* chain, so the entry it was for is passed over.                          *)
(***************************************************************************)
Allocatable ==
    {c \in FreeEntries : "refuse" \in Faults \/ \A b \in FreeEntries : c <= b}

Alloc ==
    /\ pc = "alloc"
    /\ \E c \in Allocatable : new' = c
    /\ pc' = "mark"
    /\ UNCHANGED <<fat, dir, call, cur, slot, idx, ret>>

AllocFull ==
    /\ pc = "alloc"
    /\ FreeEntries = {}
    /\ Return("failed")
    /\ UNCHANGED disk

-----------------------------------------------------------------------------
(* fat32_update_fat_entry(new, 0x0FFFFFFF): the sector of copy 0 with the   *)
(* entry changed, written to one copy after the other.                      *)

SlipFatBuffer == [fat[0] EXCEPT ![new - 1] = Eoc]

FatBuffer == [fat[0] EXCEPT ![new] = Eoc]

SlipMirrorFirst(k) ==
    [fat EXCEPT ![(k + 1) % NumFats] = [c \in FatEntries |->
        IF FatSector(c) = FatSector(new)
          THEN FatBuffer[c] ELSE fat[(k + 1) % NumFats][c]]]

FatCopyWritten(k) ==
    [fat EXCEPT ![k] = [c \in FatEntries |->
        IF FatSector(c) = FatSector(new) THEN FatBuffer[c] ELSE fat[k][c]]]

MarkFat ==
    /\ pc = "mark"
    /\ fat' = FatCopyWritten(idx)
    /\ IF idx + 1 < NumFats
         THEN idx' = idx + 1 /\ pc' = "mark"
         ELSE idx' = 0 /\ pc' = "fill"
    /\ UNCHANGED <<dir, call, new, cur, slot, ret>>

-----------------------------------------------------------------------------
(* fat32_write_cluster, one sector a step                                   *)

SectorWritten(c, k, buffer) ==
    [dir EXCEPT ![c] = [s \in Slots |->
        IF SectorOf(s) = k THEN buffer[s] ELSE dir[c][s]]]

LastSector == idx + 1 = SectorsPerCluster

SlipUpToItself ==
    [s \in Slots |-> CASE s = 1 -> Entry(Dot, "dots", new)
                       [] s = 2 -> Entry(DotDot, "dots", new)
                       [] OTHER -> EndSlot]

\* The cluster of a new directory: ".", ".." and zeros.
FreshDirectory ==
    [s \in Slots |-> CASE s = 1 -> Entry(Dot, "dots", new)
                       [] s = 2 -> Entry(DotDot, "dots", call.parent)
                       [] OTHER -> EndSlot]

SlipFillOneSector ==
    /\ pc = "fill" /\ new \in Clusters
    /\ dir' = SectorWritten(new, idx, FreshDirectory)
    /\ idx' = 0 /\ pc' = "scan"
    /\ UNCHANGED <<fat, call, new, cur, slot, ret>>

Fill ==
    /\ pc = "fill" /\ new \in Clusters
    /\ dir' = SectorWritten(new, idx, FreshDirectory)
    /\ IF LastSector
         THEN idx' = 0 /\ pc' = "scan"
         ELSE idx' = idx + 1 /\ pc' = "fill"
    /\ UNCHANGED <<fat, call, new, cur, slot, ret>>

\* The disk has no such sector.
FillBeyond ==
    /\ pc = "fill"
    /\ new \notin Clusters
    /\ Return("failed")
    /\ UNCHANGED disk

-----------------------------------------------------------------------------
(* create_dirent and fat32_delete: the search, one cluster a step           *)

IsFree(e) == e.st \in {"end", "del"}
FreeSlots == {s \in Slots : IsFree(dir[cur][s])}

\* The entries of cur whose rebuilt name is the name asked for, before the
\* first "end".
Ended == \E s \in Slots : dir[cur][s].st = "end"
SlipNameIgnored ==
    {s \in Slots :
        /\ dir[cur][s].st = "live"
        /\ \A t \in Slots : t <= s => dir[cur][t].st # "end"}

Matches ==
    {s \in Slots :
        /\ dir[cur][s].st = "live" /\ dir[cur][s].name = call.name
        /\ \A t \in Slots : t <= s => dir[cur][t].st # "end"}

SlipLastSlot(candidates) ==
    /\ \E s \in candidates : slot' = s /\ \A t \in candidates : s >= t
    /\ pc' = "put"
    /\ UNCHANGED <<fat, dir, call, new, cur, idx, ret>>

ChosenSlot(candidates) ==
    /\ \E s \in candidates : slot' = s /\ \A t \in candidates : s <= t
    /\ pc' = "put"
    /\ UNCHANGED <<fat, dir, call, new, cur, idx, ret>>

SlipOneEocValue ==
    IF fat[0][cur] = Eoc
      THEN Return("failed") /\ UNCHANGED disk
      ELSE /\ cur' = fat[0][cur]
           /\ UNCHANGED <<fat, dir, pc, call, new, slot, idx, ret>>

SlipNoAdvance ==
    IF is_eoc(fat[0][cur])
      THEN Return("failed") /\ UNCHANGED disk
      ELSE UNCHANGED vars

\* current_cluster = fat32_get_next_cluster(current_cluster)
Advance ==
    IF is_eoc(fat[0][cur])
      THEN Return("failed") /\ UNCHANGED disk
      ELSE /\ cur' = fat[0][cur]
           /\ UNCHANGED <<fat, dir, pc, call, new, slot, idx, ret>>

ScanFinds == pc = "scan" /\ ChosenSlot(FreeSlots)
ScanNext  == pc = "scan" /\ FreeSlots = {} /\ Advance

SeekFinds == pc = "seek" /\ ChosenSlot(Matches)
SeekEnds ==
    /\ pc = "seek" /\ Matches = {} /\ Ended
    /\ Return("failed")
    /\ UNCHANGED disk
SeekNext  == pc = "seek" /\ Matches = {} /\ ~Ended /\ Advance

-----------------------------------------------------------------------------
(* The cluster with the one entry changed, written back whole               *)

SlipDeleteZeroes ==
    CASE call.op = "mkdir"  -> Entry(OnDisk(call.name), "dir", new)
      [] call.op = "create" -> Entry(OnDisk(call.name), "file", 0)
      [] OTHER              -> EndSlot

PutEntry ==
    CASE call.op = "mkdir"  -> Entry(OnDisk(call.name), "dir", new)
      [] call.op = "create" -> Entry(OnDisk(call.name), "file", 0)
      [] OTHER              -> DelSlot

PutBuffer == [dir[cur] EXCEPT ![slot] = PutEntry]

Put ==
    /\ pc = "put"
    /\ dir' = SectorWritten(cur, idx, PutBuffer)
    /\ UNCHANGED fat
    /\ IF LastSector
         THEN Return("ok")
         ELSE idx' = idx + 1 /\ UNCHANGED <<pc, call, new, cur, slot, ret>>

\* The last write of the call fails in its last step, whose status nobody looks at,
\* and no transfer comes after it that could tell.
PutLost ==
    /\ pc = "put" /\ LastSector
    /\ "drop" \in Faults
    /\ Return("ok")
    /\ UNCHANGED disk

-----------------------------------------------------------------------------
\* Power loss between any two transfers; the disk is what has been written.
Crash ==
    /\ pc # "idle"
    /\ Return("none")
    /\ UNCHANGED disk

Step ==
    \/ Alloc \/ AllocFull \/ MarkFat \/ Fill \/ FillBeyond
    \/ ScanFinds \/ ScanNext \/ SeekFinds \/ SeekEnds \/ SeekNext
    \/ Put

Calls ==
    \E p \in Callable, n \in Typed :
        EnterMkdir(p, n) \/ EnterCreate(p, n) \/ EnterDelete(p, n)

Next == Calls \/ Step \/ TransferRefused \/ PutLost \/ Crash

\* The kernel runs the call to its end.  Nobody has to make another one, and
\* nothing has to fail.
Spec == Init /\ [][Next]_vars /\ WF_vars(Step)
-----------------------------------------------------------------------------
(* What has to hold                                                         *)

\* Types.  That new is an entry of the FAT and cur a cluster of the data region
\* is the part that can go wrong: a search that follows a broken chain, or the
\* end-of-chain mark, leaves the disk (fat32.c:374-438, 492-536).
TypeOK ==
    /\ fat \in [Copies -> [FatEntries -> 0 .. Eoc]]
    /\ dir \in [Clusters -> [Slots -> Slot]]
    /\ pc \in {"idle", "alloc", "mark", "fill", "scan", "seek", "put"}
    /\ call \in [op : {"none", "mkdir", "create", "delete"},
                 parent : Clusters, name : Name]
    /\ new \in FatEntries
    /\ cur \in Clusters
    /\ slot \in Slots
    /\ idx \in Nat
    /\ ret \in {"none", "ok", "failed"}

\* Whatever call is running, failed or was cut off, every entry on the disk that
\* names a cluster names an allocated one at the head of its chain, and chains
\* do not join: the FAT entry is marked before the link is written
\* (fat32_mkdir, fat32.c:451-482).
LinkedAllocated == ChainsSound(fat[0]) /\ LinksSound(fat[0], dir)

\* No cluster is handed to two entries, also when calls before this one failed
\* half way or lost power (fat32_alloc_cluster reads what
\* fat32_update_fat_entry wrote, fat32.c:305-338).
NoCrossLink == SingleOwner(dir)

\* A directory that can be entered has been written completely: no search ever
\* reads old file data as entries (fat32.c:455-482).
DirsInitialised == DirsFormatted(dir)

\* The first free slot along the chain is taken, so that no entry lands behind
\* an end mark, where no search would find it (fat32.c:374-438).
NoEntryPastEnd == VisibleEntries(fat[0], dir)

\* The FAT copies differ only while one is behind: a mirror may still call free
\* what copy 0 has allocated, never the other way round
\* (fat32_update_fat_entry, fat32.c:328-335).
MirrorLag ==
    \A k \in Copies, c \in FatEntries :
        fat[k][c] = fat[0][c] \/ (fat[k][c] = Free /\ fat[0][c] = Eoc)

(***************************************************************************)
(* What a call in progress relies on: the inductive part.  A new directory *)
(* goes free -> marked -> formatted -> linked and nothing names it before  *)
(* the last step; a search is in the chain of its directory and has left   *)
(* no free slot behind; everything else is as the host or an earlier call  *)
(* left it.                                                                *)
(***************************************************************************)
RootKept ==
    fat[0][RootCluster] # Free /\ \A b \in Clusters : fat[0][b] # RootCluster

CallShape ==
    /\ pc \in {"alloc", "mark", "fill"} => call.op = "mkdir"
    /\ pc \in {"alloc", "scan", "seek"} => idx = 0
    /\ pc = "scan" => call.op \in {"mkdir", "create"}
    /\ pc = "seek" => call.op = "delete"
    /\ pc = "put" => call.op \in {"mkdir", "create", "delete"} /\ idx \in Sectors
    /\ pc # "idle" =>
           fat[0][call.parent] # Free /\ \A b \in Clusters : fat[0][b] # call.parent

NewUnnamed ==
    pc \in {"mark", "fill", "scan", "put"} /\ call.op = "mkdir" =>
        /\ new # 0
        /\ \A b \in Clusters : fat[0][b] # new
        /\ \A b \in Clusters, t \in Slots :
               Owns(dir[b][t]) /\ dir[b][t].start = new =>
                   pc = "put" /\ b = cur /\ t = slot

NewMarked ==
    /\ pc = "mark" => /\ idx \in Copies
                      /\ fat[0][new] = IF idx = 0 THEN Free ELSE Eoc
                      /\ new \in Clusters => \A s \in Slots : dir[new][s] = RawSlot
    /\ pc = "fill" => /\ idx \in Sectors
                      /\ fat[0][new] = Eoc
                      /\ new \in Clusters => \A s \in Slots : dir[new][s] =
                            IF SectorOf(s) < idx THEN FreshDirectory[s] ELSE RawSlot
    /\ pc \in {"scan", "put"} /\ call.op = "mkdir" =>
           new \in Clusters /\ fat[0][new] = Eoc /\ Formatted(dir, new)

SearchPosition ==
    /\ pc \in {"scan", "seek", "put"} => fat[0][cur] # Free
    /\ pc = "alloc" \/ pc = "mark" \/ pc = "fill" => cur = call.parent
    /\ pc \in {"scan", "put"} /\ call.op # "delete" =>
           \A b \in Clusters, s \in Slots : fat[0][b] = cur => ~IsFree(dir[b][s])
    /\ pc = "put" /\ call.op # "delete" =>
           /\ IsFree(dir[cur][slot]) \/ dir[cur][slot] = PutEntry
           /\ \A t \in Slots : t < slot => ~IsFree(dir[cur][t])
    /\ pc = "put" /\ call.op = "delete" =>
           \/ dir[cur][slot] = DelSlot
           \/ dir[cur][slot].st = "live" /\ dir[cur][slot].name = call.name

InFlight ==
    /\ CallShape /\ NewUnnamed /\ NewMarked /\ SearchPosition
    /\ RootKept /\ FreeClustersRaw(fat[0], dir)

\* The clusters reached from p along the FAT f; along copy 0.
Chain(f, p) ==
    LET reach[n \in Nat] ==
            IF n = 0 THEN {p}
            ELSE LET part == reach[n - 1] IN part \cup ({f[c] : c \in part} \cap Clusters)
    IN  reach[LastCluster]

ChainOf(p) == Chain(fat[0], p)

\* What a call is for, with the clusters d: the entry is in the directory's chain,
\* no end mark hides it, and a new directory is allocated in every FAT copy and
\* formatted.
Added(e, d) ==
    \E c \in ChainOf(call.parent), s \in Slots :
        /\ d[c][s] = e
        /\ \A t \in Slots : t < s => d[c][t].st # "end"

Done(d) ==
    CASE call.op = "mkdir" ->
            /\ Added(Entry(OnDisk(call.name), "dir", new), d)
            /\ \A k \in Copies : fat[k][new] = Eoc
            /\ \A s \in Slots : d[new][s] = FreshDirectory[s]
      [] call.op = "create" -> Added(Entry(OnDisk(call.name), "file", 0), d)
      [] OTHER -> cur \in ChainOf(call.parent) /\ d[cur][slot] = DelSlot

\* A call that says "ok" has done everything but perhaps its very last write, that
\* of the last sector of the cluster with the entry: whatever fails before is
\* noticed, and if that write is lost nothing else has changed instead
\* (fat32.c:426-433, 478-482, 527-531; ata.c:118-121).
OkMeansWritten ==
    [][ret' = "ok" /\ ret # "ok" =>
          LET written == SectorWritten(cur, SectorsPerCluster - 1, PutBuffer)
          IN  Done(written) /\ dir' \in {written, dir}]_vars

\* What is on an allocated cluster stays there: of all entries, and of all file
\* data, a call changes only the entry it was asked to delete or a free slot it
\* fills, and chains are never relinked.  Only the fresh cluster of a mkdir,
\* which nothing names yet, is overwritten.
MayChange(c, s) ==
    \/ pc = "fill" /\ c = new /\ \A b \in Clusters, t \in Slots :
           Owns(dir[b][t]) => dir[b][t].start # new
    \/ /\ pc = "put" /\ call.op \in {"mkdir", "create"}
       /\ IsFree(dir[c][s]) /\ dir'[c][s].name = OnDisk(call.name)
    \/ /\ pc = "put" /\ call.op = "delete"
       /\ dir[c][s].st = "live" /\ dir[c][s].name = call.name
       /\ dir'[c][s] = DelSlot

KeepsAllocated ==
    \A c \in Clusters :
        IF fat[0][c] = Free
          THEN dir'[c] = dir[c]
          ELSE /\ fat'[0][c] = fat[0][c]
               /\ \A s \in Slots : dir'[c][s] # dir[c][s] => MayChange(c, s)

AllocatedKept == [][KeepsAllocated]_vars

\* Every call comes back: chains have an end and every loop gets there.
CallReturns == (pc # "idle") ~> (pc = "idle")

-----------------------------------------------------------------------------
(* What the documentation says and the code does not do                     *)

\* FAT32_IMPLEMENTATION.md:29 "Proper status checking and error handling": what a
\* call reports as done is on the disk.  ata_write_sectors reads the status after
\* the last word and returns 1 whatever it says (ata.c:118-121).
OkMeansDone == [][ret' = "ok" /\ ret # "ok" => Done(dir')]_vars
=============================================================================
