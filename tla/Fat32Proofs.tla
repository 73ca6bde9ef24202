---------------------------- MODULE Fat32Proofs ----------------------------
(***************************************************************************)
(* Proofs about Fat32, for every disk geometry, every sound host image,    *)
(* every choice of names, transfers that report an error, writes that are  *)
(* lost without one, and power losses.                                     *)
(***************************************************************************)
EXTENDS Fat32, TLAPS

\* What depends on the disk alone.
Volume ==
    /\ LinkedAllocated /\ NoCrossLink /\ DirsInitialised /\ NoEntryPastEnd
    /\ MirrorLag /\ RootKept /\ FreeClustersRaw(fat[0], dir)

DiskType ==
    /\ fat \in [Copies -> [FatEntries -> 0 .. Eoc]]
    /\ dir \in [Clusters -> [Slots -> Slot]]

LocalType ==
    /\ pc \in {"idle", "alloc", "mark", "fill", "scan", "seek", "put"}
    /\ call \in [op : {"none", "mkdir", "create", "delete"},
                 parent : Clusters, name : Name]
    /\ new \in FatEntries
    /\ cur \in Clusters
    /\ slot \in Slots
    /\ idx \in Nat
    /\ ret \in {"none", "ok", "failed"}

InCall == CallShape /\ NewUnnamed /\ NewMarked /\ SearchPosition

IInv == DiskType /\ LocalType /\ Volume /\ InCall

-----------------------------------------------------------------------------
(* Facts about the constants and the operators                              *)

\* What is rebuilt from a stored name is a name again.
LEMMA OnDiskType == \A n \in Name : OnDisk(n) \in Name
<1> SUFFICES ASSUME NEW n \in Name PROVE OnDisk(n) \in Name
  OBVIOUS
<1>1. n.base \in Bases /\ n.rest \in Rests \cup {NoDot}
  BY DEF Name
<1>2. OnDisk(n).base \in Bases
  BY <1>1, Name83Assumption DEF OnDisk, Rendered, Stored
<1>3. CASE n.rest = NoDot
  BY <1>2, <1>3, Name83Assumption
     DEF Name, OnDisk, Rendered, Stored, ZeroExt
<1>4. CASE n.rest # NoDot
  <2>1. Head3[n.rest] \in Rests
    BY <1>1, <1>4, Name83Assumption
  <2> QED
    BY <1>2, <1>4, <2>1 DEF Name, OnDisk, Rendered, Stored, TextExt
<1> QED
  BY <1>3, <1>4

\* An entry is found under the name it was created with exactly if the name has
\* at most eight characters and a non-empty extension of at most three; all others
\* are found under another name only (create_dirent and fat32_find_file,
\* fat32.c:386-410, 210-222).
THEOREM FoundAsTyped == \A n \in Name : OnDisk(n) = n <=> Fits83(n)
<1> SUFFICES ASSUME NEW n \in Name PROVE OnDisk(n) = n <=> Fits83(n)
  OBVIOUS
<1>1. /\ n = [base |-> n.base, rest |-> n.rest]
      /\ n.base \in Bases /\ n.rest \in Rests \cup {NoDot}
  BY DEF Name
<1>2. CASE n.rest = NoDot
  <2>1. OnDisk(n).rest = ""
    BY <1>2 DEF OnDisk, Rendered, Stored, ZeroExt
  <2> QED
    BY <1>2, <2>1, Name83Assumption DEF Fits83
<1>3. CASE n.rest # NoDot
  <2>1. /\ OnDisk(n) = [base |-> OnDisk(n).base, rest |-> OnDisk(n).rest]
        /\ OnDisk(n).base = Head8[n.base]
        /\ Head3[n.rest] = "" => OnDisk(n).rest = NoDot
        /\ Head3[n.rest] # "" => OnDisk(n).rest = Head3[n.rest]
    BY <1>3 DEF OnDisk, Rendered, Stored, TextExt
  <2>2. n.rest = "" => Head3[n.rest] = ""
    BY Name83Assumption
  <2>3. OnDisk(n) = n <=> OnDisk(n).base = n.base /\ OnDisk(n).rest = n.rest
    BY <1>1, <2>1
  <2>4. CASE Head3[n.rest] = ""
    <3>1. OnDisk(n).rest = NoDot
      BY <2>1, <2>4
    <3> QED
      BY <1>3, <2>3, <2>4, <3>1 DEF Fits83
  <2>5. CASE Head3[n.rest] # ""
    <3>1. OnDisk(n).base = Head8[n.base] /\ OnDisk(n).rest = Head3[n.rest]
      BY <2>1, <2>5
    <3> QED
      BY <1>1, <1>3, <2>2, <2>3, <2>5, <3>1 DEF Fits83
  <2> QED
    BY <2>4, <2>5
<1> QED
  BY <1>2, <1>3

\* The special names are names.
LEMMA SpecialNames == EmptyName \in Name /\ Dot \in Name /\ DotDot \in Name
  BY Name83Assumption DEF Name, EmptyName, Dot, DotDot

LEMMA BlankType ==
    EndSlot \in Slot /\ DelSlot \in Slot /\ RawSlot \in Slot
  BY SpecialNames, Geometry
     DEF EndSlot, DelSlot, RawSlot, Blank, Slot, FatEntries

LEMMA EntryType ==
    ASSUME NEW n \in Name, NEW c \in FatEntries,
           NEW k \in {"dir", "file", "label", "dots"}
    PROVE  Entry(n, k, c) \in Slot
  BY DEF Entry, Slot

LEMMA ClustersInFat == Clusters \subseteq FatEntries
  BY Geometry DEF Clusters, FatEntries

LEMMA SlotFacts == Slots \subseteq Nat /\ 1 \in Slots
  BY Geometry DEF Slots

\* An end-of-chain mark is no cluster and not the free mark.
LEMMA EocFacts ==
    /\ EocMin \in Nat /\ Eoc \in Nat /\ Free \in Nat
    /\ EocMin > 0 /\ Eoc >= EocMin /\ Free = 0
  BY SMT DEF Eoc, EocMin, Free

LEMMA CopyFacts == 0 \in Copies /\ Copies \subseteq Nat
  BY Geometry DEF Copies

\* Every slot lies in one of the sectors of its cluster.
LEMMA SlotInSector == \A s \in Slots : SectorOf(s) \in Sectors
<1> SUFFICES ASSUME NEW s \in Slots PROVE SectorOf(s) \in Sectors
  OBVIOUS
<1> DEFINE q == (s - 1) \div SlotsPerSector
           r == (s - 1) % SlotsPerSector
<1>1. /\ SlotsPerSector \in Nat /\ SlotsPerSector > 0
      /\ SectorsPerCluster \in Nat
      /\ SectorsPerCluster * SlotsPerSector \in Nat
      /\ s \in Nat /\ 1 <= s /\ s <= SectorsPerCluster * SlotsPerSector
  BY Geometry DEF Slots
<1>2. q \in Int /\ r \in 0 .. SlotsPerSector - 1 /\ s - 1 = SlotsPerSector * q + r
  BY <1>1
<1>3. q >= 0
  BY <1>1, <1>2
<1>4. ~(q >= SectorsPerCluster)
  <2> HIDE DEF q, r
  <2> SUFFICES ASSUME q >= SectorsPerCluster PROVE FALSE
    OBVIOUS
  <2>1. SlotsPerSector * q >= SlotsPerSector * SectorsPerCluster
    BY <1>1, <1>2
  <2> QED
    BY <2>1, <1>1, <1>2
<1> QED
  BY <1>1, <1>2, <1>3, <1>4 DEF SectorOf, Sectors

-----------------------------------------------------------------------------
(* The initial state                                                        *)

LEMMA InitIInv == Init => IInv
<1> SUFFICES ASSUME Init PROVE IInv
  OBVIOUS
<1>1. fat[0] = FatImage /\ dir = DirImage /\ pc = "idle"
  BY CopyFacts DEF Init
<1>2. DiskType
  BY HostDisk DEF Init, DiskType
<1>3. LocalType
  BY SpecialNames, ClustersInFat, SlotFacts, Geometry
     DEF Init, LocalType, NoCall, FatEntries
<1>4. Volume
  <2>1. MirrorLag
    BY CopyFacts DEF Init, MirrorLag
  <2> QED
    BY <1>1, <2>1, HostDisk
       DEF Volume, LinkedAllocated, NoCrossLink, DirsInitialised,
           NoEntryPastEnd, RootKept
<1>5. InCall
  BY <1>1 DEF InCall, CallShape, NewUnnamed, NewMarked, SearchPosition
<1> QED
  BY <1>2, <1>3, <1>4, <1>5 DEF IInv

-----------------------------------------------------------------------------
(* Steps that leave the disk alone                                          *)

LEMMA DiskUnchanged ==
    DiskType /\ Volume /\ UNCHANGED disk => DiskType' /\ Volume'
  BY DEF DiskType, Volume, disk, LinkedAllocated, NoCrossLink, DirsInitialised,
         NoEntryPastEnd, MirrorLag, RootKept, ChainsSound, LinksSound, SingleOwner,
         DirsFormatted, Formatted, VisibleEntries, FreeClustersRaw

\* A call that is over leaves nothing to rely on.
LEMMA Returned ==
    ASSUME NEW r \in {"none", "ok", "failed"}, Return(r),
           DiskType', Volume'
    PROVE  IInv'
<1>1. LocalType'
  BY SpecialNames, ClustersInFat, SlotFacts, Geometry
     DEF Return, LocalType, NoCall, FatEntries
<1>2. InCall'
  BY DEF Return, InCall, CallShape, NewUnnamed, NewMarked, SearchPosition
<1> QED
  BY <1>1, <1>2 DEF IInv

\* A directory that a call can be made on heads an allocated chain.
LEMMA CallableHead ==
    ASSUME Volume, NEW p \in Callable
    PROVE  /\ p \in Clusters
           /\ fat[0][p] # Free
           /\ \A b \in Clusters : fat[0][b] # p
<1>1. CASE p = RootCluster
  BY <1>1, Geometry DEF Volume, RootKept
<1>2. CASE p # RootCluster
  BY <1>2 DEF Callable, Owns, Volume, LinkedAllocated, LinksSound
<1> QED
  BY <1>1, <1>2

LEMMA BeginStep ==
    ASSUME IInv, NEW p \in Callable, NEW n \in Typed,
           EnterMkdir(p, n) \/ EnterCreate(p, n) \/ EnterDelete(p, n)
    PROVE  IInv'
<1>1. DiskType' /\ Volume'
  BY DiskUnchanged DEF IInv, EnterMkdir, EnterCreate, EnterDelete, Enter
<1>2. /\ p \in Clusters /\ fat[0][p] # Free
      /\ \A b \in Clusters : fat[0][b] # p
  BY CallableHead DEF IInv
<1>3. LocalType'
  BY <1>2, SlotFacts, Geometry
     DEF LocalType, EnterMkdir, EnterCreate, EnterDelete, Enter, FatEntries
<1>4. InCall'
  BY <1>2 DEF InCall, CallShape, NewUnnamed, NewMarked, SearchPosition,
              EnterMkdir, EnterCreate, EnterDelete, Enter, disk
<1> QED
  BY <1>1, <1>3, <1>4 DEF IInv

\* The cluster that is allocated is free, so nothing names it and no chain
\* leads to it.
LEMMA AllocStep == IInv /\ Alloc => IInv'
<1> SUFFICES ASSUME IInv, Alloc PROVE IInv'
  OBVIOUS
<1>1. DiskType' /\ Volume'
  BY DiskUnchanged DEF IInv, Alloc, disk
<1>2. new' \in FatEntries /\ new' >= 2 /\ fat[0][new'] = Free
  BY Geometry DEF Alloc, Allocatable, FreeEntries, FatEntries
<1>3. LocalType'
  BY <1>2 DEF IInv, Alloc, LocalType
<1>4. \A b \in Clusters : fat[0][b] # new'
  <2> SUFFICES ASSUME NEW b \in Clusters, fat[0][b] = new' PROVE FALSE
    OBVIOUS
  <2>1. fat[0][b] # Free /\ ~is_eoc(fat[0][b])
    BY <1>2, Geometry, EocFacts DEF is_eoc, FatEntries
  <2> QED
    BY <2>1, <1>2 DEF IInv, Volume, LinkedAllocated, ChainsSound
<1>5. \A b \in Clusters, t \in Slots :
          Owns(dir[b][t]) => dir[b][t].start # new'
  BY <1>2 DEF IInv, Volume, LinkedAllocated, LinksSound, Owns
<1>6. new' \in Clusters => \A s \in Slots : dir[new'][s] = RawSlot
  BY <1>2 DEF IInv, Volume, FreeClustersRaw
<1>7. CallShape'
  BY DEF IInv, InCall, CallShape, Alloc
<1>8. NewUnnamed'
  BY <1>2, <1>4, <1>5, Geometry DEF Alloc, NewUnnamed, FatEntries
<1>9. NewMarked' /\ SearchPosition'
  <2>1. idx = 0
    BY DEF IInv, InCall, CallShape, Alloc
  <2> QED
    BY <2>1, <1>2, <1>6, CopyFacts
       DEF IInv, InCall, NewMarked, SearchPosition, Alloc
<1> QED
  BY <1>1, <1>3, <1>7, <1>8, <1>9 DEF IInv, InCall

\* A search takes the first candidate of the cluster.
LEMMA ScanFindsStep == IInv /\ ScanFinds => IInv'
<1> SUFFICES ASSUME IInv, ScanFinds PROVE IInv'
  OBVIOUS
<1>1. DiskType' /\ Volume'
  BY DiskUnchanged DEF IInv, ScanFinds, ChosenSlot, disk
<1>2. /\ slot' \in Slots /\ IsFree(dir[cur][slot'])
      /\ \A t \in Slots : IsFree(dir[cur][t]) => slot' <= t
  BY DEF ScanFinds, ChosenSlot, FreeSlots
<1>3. LocalType'
  BY <1>2 DEF IInv, ScanFinds, ChosenSlot, LocalType
<1>4. CallShape'
  BY Geometry DEF IInv, InCall, CallShape, ScanFinds, ChosenSlot, Sectors
<1>5. NewUnnamed' /\ NewMarked'
  BY DEF IInv, InCall, CallShape, NewUnnamed, NewMarked, ScanFinds, ChosenSlot,
         Formatted
<1>6. \A t \in Slots : t < slot' => ~IsFree(dir[cur][t])
  BY <1>2, SlotFacts
<1>7. SearchPosition'
  BY <1>2, <1>6 DEF IInv, InCall, CallShape, SearchPosition, ScanFinds, ChosenSlot
<1> QED
  BY <1>1, <1>3, <1>4, <1>5, <1>7 DEF IInv, InCall

LEMMA SeekFindsStep == IInv /\ SeekFinds => IInv'
<1> SUFFICES ASSUME IInv, SeekFinds PROVE IInv'
  OBVIOUS
<1>1. DiskType' /\ Volume'
  BY DiskUnchanged DEF IInv, SeekFinds, ChosenSlot, disk
<1>2. /\ slot' \in Slots /\ call.op = "delete"
      /\ dir[cur][slot'].st = "live" /\ dir[cur][slot'].name = call.name
  BY DEF IInv, InCall, CallShape, SeekFinds, ChosenSlot, Matches
<1>3. LocalType'
  BY <1>2 DEF IInv, SeekFinds, ChosenSlot, LocalType
<1>4. InCall'
  BY <1>2, Geometry
     DEF IInv, InCall, CallShape, NewUnnamed, NewMarked, SearchPosition,
         SeekFinds, ChosenSlot, Sectors
<1> QED
  BY <1>1, <1>3, <1>4 DEF IInv

\* A search that goes on stays in an allocated chain, and chains do not join:
\* the cluster it leaves is the only one in front of the one it enters.
LEMMA AdvanceStep ==
    ASSUME IInv, Advance,
           \/ pc = "scan" /\ FreeSlots = {}
           \/ pc = "seek"
    PROVE  IInv'
<1>1. CASE is_eoc(fat[0][cur])
  <2>1. DiskType' /\ Volume'
    BY <1>1, DiskUnchanged DEF IInv, Advance
  <2> QED
    BY <1>1, <2>1, Returned DEF Advance
<1>2. CASE ~is_eoc(fat[0][cur])
  <2>1. /\ cur' = fat[0][cur]
        /\ UNCHANGED <<fat, dir, pc, call, new, slot, idx, ret>>
    BY <1>2 DEF Advance
  <2>2. DiskType' /\ Volume'
    BY <2>1, DiskUnchanged DEF IInv, disk
  <2>3. cur \in Clusters /\ fat[0][cur] # Free
    BY DEF IInv, LocalType, InCall, SearchPosition
  <2>4. cur' \in Clusters /\ fat[0][cur'] # Free
    BY <1>2, <2>1, <2>3 DEF IInv, Volume, LinkedAllocated, ChainsSound
  <2>5. \A b \in Clusters : fat[0][b] = cur' => b = cur
    BY <2>1, <2>3, <2>4 DEF IInv, Volume, LinkedAllocated, ChainsSound
  <2>6. LocalType'
    BY <2>1, <2>4 DEF IInv, LocalType
  <2>7. CallShape' /\ NewUnnamed' /\ NewMarked'
    BY <2>1 DEF IInv, InCall, CallShape, NewUnnamed, NewMarked, Formatted
  <2>8. SearchPosition'
    BY <2>1, <2>4, <2>5
       DEF IInv, InCall, CallShape, SearchPosition, FreeSlots
  <2> QED
    BY <2>2, <2>6, <2>7, <2>8 DEF IInv, InCall
<1> QED
  BY <1>1, <1>2

-----------------------------------------------------------------------------
(* Steps that write the disk                                                *)

\* Marking a free entry as a one-cluster chain: copy 0 becomes the buffer that
\* was read from it, whichever copy is being written.
LEMMA MarkStep ==
    ASSUME IInv, MarkFat
    PROVE  IInv'
<1>0. DiskType /\ LocalType /\ Volume /\ InCall
  BY DEF IInv
<1>1. /\ new \in FatEntries /\ new # 0 /\ idx \in Copies /\ idx \in Nat
      /\ fat[0][new] = IF idx = 0 THEN Free ELSE Eoc
      /\ call.op = "mkdir"
  BY <1>0, CopyFacts
     DEF LocalType, InCall, CallShape, NewUnnamed, NewMarked, MarkFat
<1>2. /\ fat' = FatCopyWritten(idx) /\ UNCHANGED <<dir, call, new, cur, slot, ret>>
      /\ \/ idx' = idx + 1 /\ idx + 1 < NumFats /\ pc' = "mark"
         \/ idx' = 0 /\ pc' = "fill"
  BY DEF MarkFat
<1>3. \A c \in FatEntries :
          FatBuffer[c] = IF c = new THEN Eoc ELSE fat[0][c]
  BY <1>0, CopyFacts DEF DiskType, FatBuffer
<1>4. \A k \in Copies, c \in FatEntries :
          fat'[k][c] = IF k = idx /\ FatSector(c) = FatSector(new)
                         THEN FatBuffer[c] ELSE fat[k][c]
  BY <1>0, <1>1, <1>2 DEF DiskType, FatCopyWritten
<1>5. \A c \in FatEntries : fat'[0][c] = FatBuffer[c]
  BY <1>1, <1>3, <1>4, CopyFacts
<1>6. DiskType'
  <2>1. \A c \in FatEntries : FatBuffer[c] \in 0 .. Eoc
    BY <1>0, <1>3, CopyFacts, EocFacts DEF DiskType
  <2>2. fat' \in [Copies -> [FatEntries -> 0 .. Eoc]]
    BY <1>0, <1>1, <1>2, <2>1 DEF DiskType, FatCopyWritten
  <2> QED
    BY <1>0, <1>2, <2>2 DEF DiskType
<1>7. LocalType'
  BY <1>0, <1>1, <1>2 DEF LocalType
<1>8. \A c \in Clusters : fat'[0][c] = IF c = new THEN Eoc ELSE fat[0][c]
  BY <1>3, <1>5, ClustersInFat
<1>9. is_eoc(Eoc) /\ Eoc \notin Clusters /\ Eoc # Free
  BY Geometry, EocFacts DEF is_eoc, Clusters
<1>10. \A b \in Clusters : fat[0][b] # new
  BY <1>0 DEF InCall, NewUnnamed, MarkFat, CallShape
<1>11. LinkedAllocated'
  <2>1. ChainsSound(fat'[0])
    BY <1>0, <1>8, <1>9 DEF Volume, LinkedAllocated, ChainsSound
  <2>2. LinksSound(fat'[0], dir)
    BY <1>0, <1>8, <1>9 DEF Volume, LinkedAllocated, LinksSound
  <2> QED
    BY <2>1, <2>2, <1>2 DEF LinkedAllocated
<1>12. NoEntryPastEnd'
  BY <1>0, <1>2, <1>8, <1>9 DEF Volume, NoEntryPastEnd, VisibleEntries
<1>13. MirrorLag'
  <2> SUFFICES ASSUME NEW k \in Copies, NEW c \in FatEntries
               PROVE  \/ fat'[k][c] = fat'[0][c]
                      \/ fat'[k][c] = Free /\ fat'[0][c] = Eoc
    BY DEF MirrorLag
  <2>1. fat[k][c] = fat[0][c] \/ (fat[k][c] = Free /\ fat[0][c] = Eoc)
    BY <1>0 DEF Volume, MirrorLag
  <2>2. CASE k = idx /\ FatSector(c) = FatSector(new)
    BY <2>2, <1>4, <1>5
  <2>3. CASE ~(k = idx /\ FatSector(c) = FatSector(new))
    BY <2>1, <2>3, <1>1, <1>3, <1>4, <1>5
  <2> QED
    BY <2>2, <2>3
<1>14. RootKept' /\ FreeClustersRaw(fat[0], dir)'
  BY <1>0, <1>2, <1>8, <1>9, Geometry DEF Volume, RootKept, FreeClustersRaw
<1>15. NoCrossLink' /\ DirsInitialised'
  BY <1>0, <1>2 DEF Volume, NoCrossLink, DirsInitialised, SingleOwner, DirsFormatted,
              Formatted
<1>16. CallShape' /\ SearchPosition'
  BY <1>0, <1>1, <1>2, <1>8, <1>9
     DEF MarkFat, LocalType, InCall, CallShape, SearchPosition
<1>17. NewUnnamed'
  BY <1>0, <1>1, <1>2, <1>8, <1>9, <1>10
     DEF MarkFat, InCall, NewUnnamed
<1>18. NewMarked'
  <2>1. fat'[0][new] = Eoc
    BY <1>1, <1>3, <1>5
  <2>2. new \in Clusters => \A s \in Slots : dir[new][s] = RawSlot
    BY <1>0 DEF InCall, NewMarked, MarkFat
  <2>3. 0 \in Sectors /\ \A s \in Slots : ~(SectorOf(s) < 0)
    BY Geometry, SlotInSector DEF Sectors
  <2>4. idx' \in Nat /\ (pc' = "mark" => idx' \in Copies /\ idx' # 0)
    BY <1>1, <1>2, Geometry DEF Copies
  <2> QED
    BY <1>2, <2>1, <2>2, <2>3, <2>4 DEF NewMarked
<1> QED
  BY <1>0, <1>6, <1>7, <1>11, <1>12, <1>13, <1>14, <1>15, <1>16, <1>17, <1>18
     DEF Volume, InCall, IInv

\* Formatting the new cluster: nothing but itself is touched, and nothing names
\* it yet.
LEMMA FillStep ==
    ASSUME IInv, Fill
    PROVE  IInv'
<1>0. DiskType /\ LocalType /\ Volume /\ InCall
  BY DEF IInv
<1>1. /\ call.op = "mkdir" /\ new \in FatEntries /\ new # 0 /\ idx \in Sectors
      /\ idx \in Nat /\ fat[0][new] = Eoc
      /\ new \in Clusters /\ dir' = SectorWritten(new, idx, FreshDirectory)
      /\ UNCHANGED <<fat, call, new, cur, slot, ret>>
      /\ \/ idx + 1 = SectorsPerCluster /\ idx' = 0 /\ pc' = "scan"
         \/ idx + 1 # SectorsPerCluster /\ idx' = idx + 1 /\ pc' = "fill"
  BY <1>0 DEF LocalType, InCall, CallShape, NewUnnamed, NewMarked, Fill,
         LastSector
<1>2. /\ \A b \in Clusters : fat[0][b] # new
      /\ \A b \in Clusters, t \in Slots :
             Owns(dir[b][t]) => dir[b][t].start # new
  BY <1>0 DEF InCall, CallShape, NewUnnamed, Fill
<1>3. /\ call.parent \in Clusters /\ fat[0][call.parent] # Free
      /\ \A b \in Clusters : fat[0][b] # call.parent
  BY <1>0 DEF LocalType, InCall, CallShape, Fill
<1>4. \A c \in Clusters : c # new => dir'[c] = dir[c]
  BY <1>0, <1>1 DEF DiskType, SectorWritten
<1>5. \A s \in Slots : dir'[new][s] =
          IF SectorOf(s) < idx + 1 THEN FreshDirectory[s] ELSE RawSlot
  <2> SUFFICES ASSUME NEW s \in Slots
               PROVE  dir'[new][s] =
                   IF SectorOf(s) < idx + 1 THEN FreshDirectory[s] ELSE RawSlot
    OBVIOUS
  <2>1. dir'[new][s] = IF SectorOf(s) = idx THEN FreshDirectory[s] ELSE dir[new][s]
    BY <1>0, <1>1 DEF DiskType, SectorWritten
  <2>2. dir[new][s] = IF SectorOf(s) < idx THEN FreshDirectory[s] ELSE RawSlot
    BY <1>0, <1>1 DEF InCall, NewMarked, Fill
  <2>3. SectorOf(s) \in Int
    BY SlotInSector DEF Sectors
  <2> QED
    BY <2>1, <2>2, <2>3, <1>1
<1>6. /\ FreshDirectory[1] = Entry(Dot, "dots", new)
      /\ FreshDirectory[2] = Entry(DotDot, "dots", call.parent)
      /\ \A s \in Slots : s # 1 /\ s # 2 => FreshDirectory[s] = EndSlot
  <2>1. 1 \in Slots /\ 2 \in Slots
    <3>1. SectorsPerCluster * SlotsPerSector >= 2
      BY Geometry
    <3> QED
      BY <3>1, Geometry DEF Slots
  <2> QED
    BY <2>1 DEF FreshDirectory
<1>7. FreshDirectory \in [Slots -> Slot]
  <2>1. /\ Entry(Dot, "dots", new) \in Slot
        /\ Entry(DotDot, "dots", call.parent) \in Slot
    BY <1>1, <1>3, EntryType, SpecialNames, ClustersInFat
  <2> QED
    BY <2>1, BlankType DEF FreshDirectory
<1>8. DiskType'
  <2>1. dir'[new] \in [Slots -> Slot]
    BY <1>0, <1>1, <1>7 DEF SectorWritten, DiskType
  <2> QED
    BY <1>0, <2>1, <1>1 DEF DiskType, SectorWritten
<1>9. LocalType'
  BY <1>0, <1>1 DEF LocalType
<1>10. \A s \in Slots :
          /\ dir'[new][s].st \in {"live", "end", "raw"}
          /\ dir'[new][s].st = "live" =>
                 /\ s = 1 \/ s = 2
                 /\ dir'[new][s].kind = "dots"
                 /\ dir'[new][s].start \in {new, call.parent}
          /\ dir'[new][s].st = "end" => s # 1 /\ s # 2
  BY <1>5, <1>6 DEF Entry, EndSlot, RawSlot, Blank
<1>11. \A c \in Clusters, s \in Slots :
          Owns(dir'[c][s]) => c # new /\ Owns(dir[c][s]) /\ dir'[c][s] = dir[c][s]
  BY <1>4, <1>10 DEF Owns
<1>12. LinkedAllocated'
  <2>1. ChainsSound(fat[0])
    BY <1>0 DEF Volume, LinkedAllocated
  <2>2. Eoc # Free
    BY EocFacts
  <2>3. LinksSound(fat[0], dir')
    BY <1>0, <1>1, <1>2, <1>3, <1>4, <1>10, <2>2
       DEF Volume, LinkedAllocated, LinksSound
  <2> QED
    BY <1>1, <2>1, <2>3 DEF LinkedAllocated
<1>13. NoCrossLink'
  BY <1>0, <1>11 DEF Volume, NoCrossLink, SingleOwner
<1>14. DirsInitialised'
  BY <1>0, <1>2, <1>4, <1>11, ClustersInFat
     DEF Volume, DirsInitialised, DirsFormatted, Formatted, LinkedAllocated,
         LinksSound, Owns
<1>15. NoEntryPastEnd'
  <2> SUFFICES ASSUME NEW c \in Clusters, NEW s \in Slots, dir'[c][s].st = "end"
               PROVE  /\ \A t \in Slots : s < t => dir'[c][t].st # "live"
                      /\ fat[0][c] \in Clusters =>
                             \A t \in Slots : dir'[fat[0][c]][t].st # "live"
    BY <1>1 DEF NoEntryPastEnd, VisibleEntries
  <2>1. CASE c = new
    <3>1. Eoc \notin Clusters
      BY Geometry, EocFacts DEF Clusters
    <3>2. \A t \in Slots : s < t => t # 1 /\ t # 2
      BY <1>10, <2>1 DEF Slots
    <3> QED
      BY <1>1, <1>10, <2>1, <3>1, <3>2
  <2>2. CASE c # new
    BY <1>0, <1>2, <1>4, <2>2 DEF Volume, NoEntryPastEnd, VisibleEntries
  <2> QED
    BY <2>1, <2>2
<1>16. MirrorLag' /\ RootKept' /\ FreeClustersRaw(fat[0], dir)'
  <2>1. Eoc # Free
    BY EocFacts
  <2> QED
    BY <1>0, <1>1, <1>4, <2>1 DEF Volume, MirrorLag, RootKept, FreeClustersRaw
<1>17. CallShape' /\ NewUnnamed'
  BY <1>0, <1>1, <1>2, <1>11 DEF Fill, InCall, CallShape, NewUnnamed
<1>18. NewMarked'
  <2>1. CASE pc' = "fill"
    <3>1. idx' \in Sectors
      BY <1>1, <2>1, Geometry DEF Sectors
    <3>2. FreshDirectory' = FreshDirectory
      BY <1>1 DEF FreshDirectory
    <3> QED
      BY <1>1, <1>5, <2>1, <3>1, <3>2 DEF NewMarked
  <2>2. CASE pc' = "scan"
    <3>1. \A s \in Slots : dir'[new][s] = FreshDirectory[s]
      BY <1>1, <1>5, <2>2, SlotInSector, Geometry DEF Sectors
    <3>2. Formatted(dir', new)
      BY <1>6, <3>1 DEF Formatted, Entry, EndSlot, Blank
    <3> QED
      BY <1>1, <2>2, <3>2 DEF NewMarked
  <2> QED
    BY <1>1, <2>1, <2>2
<1>19. SearchPosition'
  BY <1>0, <1>1, <1>3 DEF Fill, InCall, CallShape, SearchPosition
<1> QED
  BY <1>0, <1>8, <1>9, <1>12, <1>13, <1>14, <1>15, <1>16, <1>17, <1>18, <1>19
     DEF Volume, InCall, IInv


\* Writing the changed cluster back changes at most the one entry, and that to
\* a link to the formatted new cluster, to an empty file or to a deletion mark.
LEMMA PutStep ==
    ASSUME IInv, Put
    PROVE  IInv'
<1>0. DiskType /\ LocalType /\ Volume /\ InCall
  BY DEF IInv
<1>1. /\ cur \in Clusters /\ slot \in Slots /\ idx \in Sectors /\ idx \in Nat
      /\ call.op \in {"mkdir", "create", "delete"}
      /\ fat[0][cur] # Free
      /\ dir' = SectorWritten(cur, idx, PutBuffer) /\ fat' = fat
      /\ \/ Return("ok")
         \/ /\ idx + 1 # SectorsPerCluster /\ idx' = idx + 1
            /\ UNCHANGED <<pc, call, new, cur, slot, ret>>
  BY <1>0 DEF LocalType, InCall, CallShape, SearchPosition, Put,
              LastSector
<1>2. call.op = "mkdir" =>
          /\ new \in Clusters /\ new # 0 /\ fat[0][new] = Eoc
          /\ Formatted(dir, new)
          /\ \A b \in Clusters : fat[0][b] # new
          /\ \A b \in Clusters, t \in Slots :
                 Owns(dir[b][t]) /\ dir[b][t].start = new => b = cur /\ t = slot
  BY <1>0 DEF InCall, NewUnnamed, NewMarked, Put
<1>3. call.op # "delete" =>
          /\ \A b \in Clusters, s \in Slots : fat[0][b] = cur => ~IsFree(dir[b][s])
          /\ \A t \in Slots : t < slot => ~IsFree(dir[cur][t])
  BY <1>0 DEF InCall, SearchPosition, Put
<1>4. /\ PutEntry \in Slot
      /\ call.op = "mkdir" =>
             PutEntry.st = "live" /\ PutEntry.kind = "dir" /\ PutEntry.start = new
      /\ call.op = "create" => PutEntry.st = "live" /\ PutEntry.start = 0
      /\ call.op = "delete" => PutEntry.st = "del"
  <2>1. OnDisk(call.name) \in Name
    BY <1>0, OnDiskType DEF LocalType
  <2>2. 0 \in FatEntries
    BY Geometry DEF FatEntries
  <2>3. CASE call.op = "mkdir"
    <3>1. PutEntry = Entry(OnDisk(call.name), "dir", new)
      BY <2>3 DEF PutEntry
    <3>2. PutEntry \in Slot
      BY <1>2, <2>1, <2>3, <3>1, EntryType, ClustersInFat
    <3> QED
      BY <2>3, <3>1, <3>2 DEF Entry
  <2>4. CASE call.op = "create"
    <3>1. PutEntry = Entry(OnDisk(call.name), "file", 0)
      BY <2>4 DEF PutEntry
    <3>2. PutEntry \in Slot
      BY <2>1, <2>2, <3>1, EntryType
    <3> QED
      BY <2>4, <3>1, <3>2 DEF Entry
  <2>5. CASE call.op = "delete"
    BY <2>5, BlankType DEF PutEntry, DelSlot, Blank
  <2> QED
    BY <1>1, <2>3, <2>4, <2>5
<1>5. \A c \in Clusters : c # cur => dir'[c] = dir[c]
  BY <1>0, <1>1 DEF DiskType, SectorWritten
<1>6. \A s \in Slots : s # slot => dir'[cur][s] = dir[cur][s]
  BY <1>0, <1>1 DEF DiskType, SectorWritten, PutBuffer
<1>7. dir'[cur][slot] = dir[cur][slot] \/ dir'[cur][slot] = PutEntry
  BY <1>0, <1>1 DEF DiskType, SectorWritten, PutBuffer
<1>8. DiskType'
  <2>1. PutBuffer \in [Slots -> Slot]
    BY <1>0, <1>1, <1>4 DEF DiskType, PutBuffer
  <2>2. dir'[cur] \in [Slots -> Slot]
    BY <1>0, <1>1, <2>1 DEF DiskType, SectorWritten
  <2> QED
    BY <1>0, <1>1, <2>2 DEF DiskType, SectorWritten
\* Every slot is as before, or it is the one that was written.
<1>9. \A c \in Clusters, s \in Slots :
          \/ dir'[c][s] = dir[c][s]
          \/ c = cur /\ s = slot /\ dir'[c][s] = PutEntry
  BY <1>5, <1>6, <1>7
<1>10. LinkedAllocated'
  <2>1. ChainsSound(fat[0])
    BY <1>0 DEF Volume, LinkedAllocated
  <2>2. LinksSound(fat[0], dir')
    BY <1>0, <1>1, <1>2, <1>4, <1>9, EocFacts
       DEF Volume, LinkedAllocated, LinksSound
  <2> QED
    BY <1>1, <2>1, <2>2 DEF LinkedAllocated
<1>11. NoCrossLink'
  <2> SUFFICES ASSUME NEW b \in Clusters, NEW c \in Clusters,
                      NEW s \in Slots, NEW t \in Slots,
                      Owns(dir'[b][s]), Owns(dir'[c][t]),
                      dir'[b][s].start = dir'[c][t].start
               PROVE  b = c /\ s = t
    BY DEF NoCrossLink, SingleOwner
  <2>1. CASE dir'[b][s] = dir[b][s] /\ dir'[c][t] = dir[c][t]
    BY <1>0, <2>1 DEF Volume, NoCrossLink, SingleOwner
  <2>2. CASE /\ b = cur /\ s = slot /\ dir'[b][s] = PutEntry
             /\ dir'[c][t] = dir[c][t]
    BY <1>1, <1>2, <1>4, <2>2 DEF Owns
  <2>3. CASE /\ c = cur /\ t = slot /\ dir'[c][t] = PutEntry
             /\ dir'[b][s] = dir[b][s]
    BY <1>1, <1>2, <1>4, <2>3 DEF Owns
  <2> QED
    BY <1>9, <2>1, <2>2, <2>3
<1>12. \A c \in Clusters : Formatted(dir, c) => Formatted(dir', c)
  BY <1>1, <1>4, <1>9 DEF Formatted
<1>13. DirsInitialised'
  <2> SUFFICES ASSUME NEW c \in Clusters, NEW s \in Slots,
                      Owns(dir'[c][s]), dir'[c][s].kind = "dir"
               PROVE  Formatted(dir', dir'[c][s].start)
    BY DEF DirsInitialised, DirsFormatted
  <2>1. CASE dir'[c][s] = dir[c][s]
    BY <1>0, <1>12, <2>1
       DEF Volume, DirsInitialised, DirsFormatted, LinkedAllocated, LinksSound, Owns
  <2>2. CASE dir'[c][s] = PutEntry
    BY <1>1, <1>2, <1>4, <1>12, <2>2 DEF Owns
  <2> QED
    BY <1>9, <2>1, <2>2
<1>14. NoEntryPastEnd'
  <2> SUFFICES ASSUME NEW c \in Clusters, NEW s \in Slots, dir'[c][s].st = "end"
               PROVE  /\ \A t \in Slots : s < t => dir'[c][t].st # "live"
                      /\ fat[0][c] \in Clusters =>
                             \A t \in Slots : dir'[fat[0][c]][t].st # "live"
    BY <1>1 DEF NoEntryPastEnd, VisibleEntries
  <2>1. dir[c][s].st = "end"
    BY <1>1, <1>4, <1>9
  <2>2. /\ \A t \in Slots : s < t => dir[c][t].st # "live"
        /\ fat[0][c] \in Clusters =>
               \A t \in Slots : dir[fat[0][c]][t].st # "live"
    BY <1>0, <2>1 DEF Volume, NoEntryPastEnd, VisibleEntries
  <2>3. CASE call.op = "delete"
    BY <1>4, <1>9, <2>2, <2>3
  <2>4. CASE call.op # "delete"
    <3>1. fat[0][c] # cur
      BY <1>3, <2>1, <2>4 DEF IsFree
    <3>2. ~(c = cur /\ s < slot)
      BY <1>3, <2>1, <2>4 DEF IsFree
    <3> QED
      BY <1>9, <2>2, <3>1, <3>2
  <2> QED
    BY <2>3, <2>4
<1>15. MirrorLag' /\ RootKept' /\ FreeClustersRaw(fat[0], dir)'
  BY <1>0, <1>1, <1>5 DEF Volume, MirrorLag, RootKept, FreeClustersRaw
<1>16. Volume'
  BY <1>10, <1>11, <1>13, <1>14, <1>15 DEF Volume
<1>17. CASE Return("ok")
  BY <1>8, <1>16, <1>17, Returned
<1>18. CASE /\ idx + 1 # SectorsPerCluster /\ idx' = idx + 1
            /\ UNCHANGED <<pc, call, new, cur, slot, ret>>
  <2>1. LocalType'
    BY <1>0, <1>18 DEF LocalType
  <2>2. CallShape'
    <3>1. idx' \in Sectors
      BY <1>1, <1>18, Geometry DEF Sectors
    <3> QED
      BY <1>0, <1>1, <1>18, <3>1 DEF Put, InCall, CallShape
  <2>3. NewUnnamed'
    BY <1>0, <1>1, <1>2, <1>9, <1>18 DEF Put, NewUnnamed
  <2>4. NewMarked'
    BY <1>1, <1>2, <1>12, <1>18 DEF Put, NewMarked
  <2>5. PutEntry' = PutEntry
    BY <1>18 DEF PutEntry
  <2>6. SearchPosition'
    <3>1. call.op # "delete" =>
              /\ \A b \in Clusters, s \in Slots :
                     fat[0][b] = cur => ~IsFree(dir'[b][s])
              /\ \A t \in Slots : t < slot => ~IsFree(dir'[cur][t])
      BY <1>1, <1>3, <1>4, <1>6, <1>9, SlotFacts DEF IsFree
    <3>2. call.op # "delete" =>
              IsFree(dir'[cur][slot]) \/ dir'[cur][slot] = PutEntry
      BY <1>0, <1>7 DEF InCall, SearchPosition, Put
    <3>3. call.op = "delete" =>
              \/ dir'[cur][slot] = DelSlot
              \/ /\ dir'[cur][slot].st = "live"
                 /\ dir'[cur][slot].name = call.name
      BY <1>0, <1>7 DEF InCall, SearchPosition, Put, PutEntry
    <3> QED
      BY <1>1, <1>18, <2>5, <3>1, <3>2, <3>3 DEF Put, SearchPosition
  <2> QED
    BY <1>8, <1>16, <2>1, <2>2, <2>3, <2>4, <2>6 DEF IInv, InCall
<1> QED
  BY <1>1, <1>17, <1>18

-----------------------------------------------------------------------------
(* The invariant                                                            *)

\* Every step that ends a call without writing.
LEMMA GiveUpStep ==
    ASSUME IInv, UNCHANGED disk,
           Return("failed") \/ Return("none") \/ Return("ok")
    PROVE  IInv'
<1>1. DiskType' /\ Volume'
  BY DiskUnchanged DEF IInv
<1> QED
  BY <1>1, Returned

LEMMA NextIInv ==
    ASSUME IInv, [Next]_vars
    PROVE  IInv'
<1>1. CASE Calls
  BY <1>1, BeginStep DEF Calls
<1>2. CASE Alloc
  BY <1>2, AllocStep
<1>3. CASE MarkFat
  BY <1>3, MarkStep
<1>4. CASE Fill
  BY <1>4, FillStep
<1>5. CASE ScanFinds
  BY <1>5, ScanFindsStep
<1>6. CASE SeekFinds
  BY <1>6, SeekFindsStep
<1>7. CASE ScanNext \/ SeekNext
  BY <1>7, AdvanceStep DEF ScanNext, SeekNext
<1>8. CASE Put
  BY <1>8, PutStep
<1>9. CASE \/ AllocFull \/ FillBeyond \/ SeekEnds
            \/ TransferRefused \/ PutLost \/ Crash
  BY <1>9, GiveUpStep
     DEF AllocFull, FillBeyond, SeekEnds, TransferRefused, PutLost, Crash
<1>10. CASE UNCHANGED vars
  <2>1. DiskType' /\ Volume'
    BY <1>10, DiskUnchanged DEF IInv, vars, disk
  <2>2. LocalType' /\ CallShape' /\ NewUnnamed' /\ SearchPosition'
    BY <1>10 DEF IInv, vars, LocalType, InCall, CallShape, NewUnnamed,
                 SearchPosition, PutEntry
  <2>3. NewMarked'
    BY <1>10 DEF IInv, vars, InCall, NewMarked, FreshDirectory, Formatted
  <2> QED
    BY <2>1, <2>2, <2>3 DEF IInv, InCall
<1> QED
  BY <1>1, <1>2, <1>3, <1>4, <1>5, <1>6, <1>7, <1>8, <1>9, <1>10
     DEF Next, Step

\* The inductive invariant holds in every reachable state.
THEOREM Invariance == Spec => []IInv
<1>1. IInv /\ [Next]_vars => IInv'
  BY NextIInv
<1> QED
  BY <1>1, InitIInv, PTL DEF Spec

\* Types: no search ever leaves the data region of the disk, whatever fails.
THEOREM TypeCorrect == Spec => []TypeOK
<1>1. IInv => TypeOK
  BY DEF IInv, DiskType, LocalType, TypeOK
<1> QED
  BY <1>1, Invariance, PTL

\* Whatever fails and wherever power is lost, an entry never names a free
\* cluster or the middle of a chain.
THEOREM LinksAreAllocated == Spec => []LinkedAllocated
<1>1. IInv => LinkedAllocated
  BY DEF IInv, Volume
<1> QED
  BY <1>1, Invariance, PTL

\* What a call in progress relies on holds whatever failed before: its new cluster
\* is named by nothing until it is linked, and its search has passed no free entry.
THEOREM CallsRely == Spec => []InFlight
<1>1. IInv => InFlight
  BY DEF IInv, InCall, Volume, InFlight
<1> QED
  BY <1>1, Invariance, PTL

\* No two entries ever own the same cluster.
THEOREM NoCrossLinks == Spec => []NoCrossLink
<1>1. IInv => NoCrossLink
  BY DEF IInv, Volume
<1> QED
  BY <1>1, Invariance, PTL

\* A directory that can be entered is completely written.
THEOREM DirectoriesInitialised == Spec => []DirsInitialised
<1>1. IInv => DirsInitialised
  BY DEF IInv, Volume
<1> QED
  BY <1>1, Invariance, PTL

\* No entry is ever put where a search would not find it.
THEOREM EntriesVisible == Spec => []NoEntryPastEnd
<1>1. IInv => NoEntryPastEnd
  BY DEF IInv, Volume
<1> QED
  BY <1>1, Invariance, PTL

\* The mirrors of the FAT are equal to copy 0 or one allocation behind.
THEOREM MirrorsOnlyLag == Spec => []MirrorLag
<1>1. IInv => MirrorLag
  BY DEF IInv, Volume
<1> QED
  BY <1>1, Invariance, PTL

-----------------------------------------------------------------------------
(* What a step may do to the disk                                           *)

LEMMA MarkKeeps ==
    ASSUME IInv, MarkFat
    PROVE  KeepsAllocated
<1>0. DiskType /\ LocalType /\ InCall
  BY DEF IInv
<1>1. /\ new \in FatEntries /\ idx \in Copies
      /\ fat[0][new] = IF idx = 0 THEN Free ELSE Eoc
      /\ fat' = FatCopyWritten(idx) /\ dir' = dir
  BY <1>0 DEF LocalType, InCall, NewMarked, MarkFat
<1>2. \A c \in FatEntries :
          FatBuffer[c] = IF c = new THEN Eoc ELSE fat[0][c]
  BY <1>0, CopyFacts DEF DiskType, FatBuffer
<1>3. \A c \in FatEntries : fat'[0][c] = FatBuffer[c]
  BY <1>0, <1>1, <1>2, CopyFacts DEF DiskType, FatCopyWritten
<1> QED
  BY <1>1, <1>2, <1>3, ClustersInFat DEF KeepsAllocated

LEMMA FillKeeps ==
    ASSUME IInv, Fill
    PROVE  KeepsAllocated
<1>0. DiskType /\ InCall
  BY DEF IInv
<1>1. /\ fat' = fat /\ pc = "fill" /\ fat[0][new] # Free
      /\ \A c \in Clusters : c # new => dir'[c] = dir[c]
      /\ \A b \in Clusters, t \in Slots :
             Owns(dir[b][t]) => dir[b][t].start # new
  BY <1>0, EocFacts
     DEF DiskType, InCall, CallShape, NewUnnamed, NewMarked, Fill,
         SectorWritten
<1> QED
  BY <1>1 DEF KeepsAllocated, MayChange

LEMMA PutKeeps ==
    ASSUME IInv, Put
    PROVE  KeepsAllocated
<1>0. DiskType /\ LocalType /\ InCall
  BY DEF IInv
<1>1. /\ fat' = fat /\ pc = "put" /\ cur \in Clusters /\ slot \in Slots
      /\ fat[0][cur] # Free /\ call.op \in {"mkdir", "create", "delete"}
      /\ dir' = SectorWritten(cur, idx, PutBuffer)
  BY <1>0 DEF LocalType, InCall, CallShape, SearchPosition, Put
<1>2. \A c \in Clusters, s \in Slots :
          \/ dir'[c][s] = dir[c][s]
          \/ c = cur /\ s = slot /\ dir'[c][s] = PutEntry
  BY <1>0, <1>1 DEF DiskType, SectorWritten, PutBuffer
<1>3. \A c \in Clusters : c # cur => dir'[c] = dir[c]
  BY <1>0, <1>1 DEF DiskType, SectorWritten
<1>4. dir[cur][slot] # PutEntry => MayChange(cur, slot) \/ dir'[cur][slot] # PutEntry
  <2> SUFFICES ASSUME dir[cur][slot] # PutEntry, dir'[cur][slot] = PutEntry
               PROVE  MayChange(cur, slot)
    OBVIOUS
  <2>1. CASE call.op = "delete"
    BY <1>0, <1>1, <2>1 DEF InCall, SearchPosition, PutEntry, MayChange
  <2>2. CASE call.op # "delete"
    <3>1. IsFree(dir[cur][slot])
      BY <1>0, <1>1, <2>2 DEF InCall, SearchPosition
    <3>2. PutEntry.name = OnDisk(call.name)
      BY <1>1, <2>2 DEF PutEntry, Entry
    <3> QED
      BY <1>1, <2>2, <3>1, <3>2 DEF MayChange
  <2> QED
    BY <2>1, <2>2
<1> QED
  BY <1>1, <1>2, <1>3, <1>4 DEF KeepsAllocated

LEMMA StepKeeps ==
    ASSUME IInv, [Next]_vars
    PROVE  [KeepsAllocated]_vars
<1>1. CASE MarkFat
  BY <1>1, MarkKeeps
<1>2. CASE Fill
  BY <1>2, FillKeeps
<1>3. CASE Put
  BY <1>3, PutKeeps
<1>4. CASE UNCHANGED disk
  BY <1>4 DEF KeepsAllocated, disk
<1>5. CASE UNCHANGED vars
  BY <1>5
<1>6. Calls => UNCHANGED disk
  BY DEF Calls, EnterMkdir, EnterCreate, EnterDelete, Enter
<1>7. Step \/ TransferRefused \/ PutLost \/ Crash =>
          MarkFat \/ Fill \/ Put \/ UNCHANGED disk
  BY DEF Step, TransferRefused, PutLost, Crash, Alloc, AllocFull, FillBeyond, ScanFinds,
         ScanNext, SeekFinds, SeekEnds, SeekNext, ChosenSlot, Advance, disk
<1> QED
  BY <1>1, <1>2, <1>3, <1>4, <1>5, <1>6, <1>7 DEF Next

\* A call never touches an allocated cluster or a chain, except for the free
\* slot it fills, the entry it was asked to delete and its own new cluster.
THEOREM AllocatedClustersKept == Spec => AllocatedKept
<1>1. IInv /\ [Next]_vars => [KeepsAllocated]_vars
  BY StepKeeps
<1> QED
  BY <1>1, Invariance, PTL DEF Spec, AllocatedKept
=============================================================================
