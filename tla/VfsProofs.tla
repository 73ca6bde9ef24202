----------------------------- MODULE VfsProofs -----------------------------
(***************************************************************************)
(* Proofs about Vfs, for every volume a host may have made, whatever the   *)
(* user types and however often power fails, as long as a write that       *)
(* reports success has reached the disk.                                   *)
(***************************************************************************)
EXTENDS Vfs, ChainProofs, SequenceTheorems

-----------------------------------------------------------------------------
(* Lookup                                                                   *)

\* The entries a search of the chain of c can stop at.
Findable(c, n) ==
    {e \in Slot :
        /\ c \in Clusters /\ e.st = "live" /\ e.kind # "label" /\ e.name = n
        /\ \E b \in ChainOf(c), s \in Slots : e = dir[b][s]}

\* What look is to satisfy in the definition of Lookup.
Looks(r, n) ==
    /\ \A c \in Nat : r[0][c] = {}
    /\ \A k \in Nat, c \in Nat :
           r[k + 1][c] =
               IF c \notin Clusters THEN {}
               ELSE IF Named(c, n) # {} THEN {dir[c][s] : s \in Named(c, n)}
               ELSE IF \E s \in Slots : dir[c][s].st = "end" THEN {}
               ELSE r[k][fat[0][c]]

LEMMA LookupLooks ==
    ASSUME DiskType, NEW n, NEW head \in Nat
    PROVE  \E r : Looks(r, n) /\ Lookup(head, n) = r[LastCluster][head]
<1> DEFINE V == [Nat -> SUBSET Slot]
           next(h) == [c \in Nat |->
               IF c \notin Clusters THEN {}
               ELSE IF Named(c, n) # {} THEN {dir[c][s] : s \in Named(c, n)}
               ELSE IF \E s \in Slots : dir[c][s].st = "end" THEN {}
               ELSE h[fat[0][c]]]
           none == [c \in Nat |-> {}]
           step == [k \in Nat |-> [h \in V |-> next(h)]]
           body(g, k) == [c \in Nat |->
               IF k = 0 \/ c \notin Clusters THEN {}
               ELSE IF Named(c, n) # {} THEN {dir[c][s] : s \in Named(c, n)}
               ELSE IF \E s \in Slots : dir[c][s].st = "end" THEN {}
               ELSE g[k - 1][fat[0][c]]]
<1>0. ASSUME NEW c \in Clusters
      PROVE  /\ c \in Nat /\ fat[0][c] \in Nat
             /\ {dir[c][s] : s \in Named(c, n)} \subseteq Slot
  BY ClustersInFat, CopyFacts, EocFacts DEF DiskType, Clusters, Named
<1>1. ASSUME NEW h \in V PROVE next(h) \in V
  <2>1. ASSUME NEW c \in Nat PROVE next(h)[c] \in SUBSET Slot
    BY <1>0
  <2> QED
    BY <2>1
<1>2. none \in V
  OBVIOUS
<1>3. PICK r : Iterates(r, V, none, step)
  <2>1. IsStep(step, V)
    <3> HIDE DEF V, next
    <3> QED
      BY <1>1 DEF IsStep
  <2> HIDE DEF V, step, none
  <2> QED
    BY <1>2, <2>1, Iteration
<1>4. ASSUME NEW k \in Nat PROVE r[k] \in V /\ r[k + 1] = next(r[k])
  <2> HIDE DEF V, next
  <2> QED
    BY <1>3 DEF Iterates
<1>5. r[0] = none
  BY <1>3 DEF Iterates
<1>6. r = [k \in Nat |-> body(r, k)]
  <2>1. ASSUME NEW k \in Nat PROVE r[k] = body(r, k)
    <3>1. CASE k = 0
      BY <1>5, <3>1
    <3>2. CASE k # 0
      <4>1. k - 1 \in Nat /\ (k - 1) + 1 = k
        BY <3>2
      <4>2. r[k] = next(r[k - 1])
        <5> HIDE DEF next
        <5> QED
          BY <4>1, <1>4
      <4>3. next(r[k - 1]) = body(r, k)
        BY <3>2
      <4> QED
        BY <4>2, <4>3
    <3> QED
      BY <3>1, <3>2
  <2> HIDE DEF body, V, step, none
  <2> QED
    BY <2>1, <1>3 DEF Iterates
<1> DEFINE look == CHOOSE g : g = [k \in Nat |-> body(g, k)]
<1>7. look = [k \in Nat |-> body(look, k)]
  <2> HIDE DEF body
  <2> QED
    BY <1>6
<1>8. Looks(look, n)
  <2> HIDE DEF look
  <2>1. \A c \in Nat : look[0][c] = {}
    BY <1>7
  <2>2. ASSUME NEW k \in Nat, NEW c \in Nat
        PROVE  look[k + 1][c] = next(look[k])[c]
    <3>1. k + 1 \in Nat /\ k + 1 # 0 /\ (k + 1) - 1 = k
      OBVIOUS
    <3>2. look[k + 1] = body(look, k + 1)
      <4> HIDE DEF body
      <4> QED
        BY <3>1, <1>7
    <3> QED
      BY <3>1, <3>2
  <2> QED
    BY <2>1, <2>2 DEF Looks
<1>9. Lookup(head, n) = look[LastCluster][head]
  BY DEF Lookup
<1> QED
  BY <1>8, <1>9

\* A search finds an entry of the chain it was sent along, if any.
LEMMA LookupFinds ==
    ASSUME DiskType, NEW n, NEW head \in Nat
    PROVE  Lookup(head, n) \subseteq Findable(head, n)
<1>1. PICK r : Looks(r, n) /\ Lookup(head, n) = r[LastCluster][head]
  BY LookupLooks
<1> DEFINE T == {k \in Nat : \A c \in Nat : r[k][c] \subseteq Findable(c, n)}
<1>2. 0 \in T
  BY <1>1 DEF Looks
<1>3. ASSUME NEW k \in Nat, k \in T PROVE k + 1 \in T
  <2> SUFFICES ASSUME NEW c \in Nat, NEW e \in r[k + 1][c]
               PROVE  e \in Findable(c, n)
    OBVIOUS
  <2>1. c \in Clusters
    BY <1>1 DEF Looks
  <2>2. c \in ChainOf(c) /\ ChainOf(c) \subseteq Clusters /\ ClosedUnder(fat[0], ChainOf(c))
    BY <2>1, ChainClosed DEF ChainOf
  <2>3. CASE Named(c, n) # {}
    <3>0. r[k + 1][c] = {dir[c][s] : s \in Named(c, n)}
      BY <1>1, <2>1, <2>3 DEF Looks
    <3>1. PICK s \in Named(c, n) : e = dir[c][s]
      BY <3>0
    <3>2. /\ s \in Slots /\ dir[c][s].st = "live" /\ dir[c][s].kind # "label"
          /\ dir[c][s].name = n
      BY DEF Named
    <3> QED
      BY <2>1, <2>2, <3>1, <3>2 DEF Findable, DiskType
  <2>4. CASE Named(c, n) = {}
    <3>1. e \in r[k][fat[0][c]]
      BY <1>1, <2>1, <2>4 DEF Looks
    <3>2. fat[0][c] \in Nat
      BY <2>1, ClustersInFat, CopyFacts, EocFacts DEF DiskType
    <3>3. e \in Findable(fat[0][c], n)
      BY <1>3, <3>1, <3>2
    <3>4. fat[0][c] \in Clusters
      BY <3>3 DEF Findable
    <3>5. ChainOf(fat[0][c]) \subseteq ChainOf(c)
      <4>1. fat[0][c] \in ChainOf(c)
        BY <2>2, <3>4 DEF ClosedUnder
      <4> QED
        BY <3>4, <4>1, <2>2, ChainLeast DEF ChainOf
    <3> QED
      BY <2>1, <3>3, <3>5 DEF Findable
  <2> QED
    BY <2>3, <2>4
<1> HIDE DEF T
<1>4. Nat \subseteq T
  BY <1>2, <1>3, Induction
<1>5. LastCluster \in Nat
  BY Geometry
<1> QED
  BY <1>1, <1>4, <1>5 DEF T

-----------------------------------------------------------------------------
(* ".." entries lead up                                                     *)

\* The new cluster of a mkdir is not the root either.
NewNotRoot ==
    pc \in {"mark", "fill", "scan", "put"} /\ call.op = "mkdir" => new # RootCluster

LEMMA NewNotRootStep ==
    ASSUME IInv, NewNotRoot, [Next]_vars
    PROVE  NewNotRoot'
<1>1. CASE Alloc
  <2>1. fat[0][new'] = Free
    BY <1>1 DEF Alloc, Allocatable, FreeEntries
  <2> QED
    BY <1>1, <2>1 DEF NewNotRoot, IInv, Volume, RootKept
<1>2. CASE Calls
  BY <1>2 DEF Calls, EnterMkdir, EnterCreate, EnterDelete, Enter, NewNotRoot
<1>3. CASE UNCHANGED <<call, new>> /\ pc \in {"mark", "fill", "scan", "put"}
  BY <1>3 DEF NewNotRoot
<1>4. CASE pc' = "idle"
  BY <1>4 DEF NewNotRoot
<1>5. CASE pc = "seek" /\ call' = call
  BY <1>5 DEF NewNotRoot, IInv, InCall, CallShape
<1>6. CASE UNCHANGED vars
  BY <1>6 DEF vars, NewNotRoot
<1> QED
  BY <1>1, <1>2, <1>3, <1>4, <1>5, <1>6
     DEF Next, Step, AllocFull, MarkFat, Fill, FillBeyond, ScanFinds, ScanNext,
         SeekFinds, SeekEnds, SeekNext, ChosenSlot, Advance, Put, PutLost,
         TransferRefused, Crash, Return

\* Owning entries and their chains start at a cluster that nothing leads to.
LEMMA OwnedHead ==
    ASSUME Volume, NEW c \in Clusters, NEW s \in Slots, Owns(dir[c][s])
    PROVE  /\ dir[c][s].start \in Clusters
           /\ fat[0][dir[c][s].start] # Free
           /\ IsHead(fat[0], dir[c][s].start)
  BY DEF Owns, Volume, LinkedAllocated, LinksSound, IsHead

\* Marking a free entry moves no chain.
LEMMA MarkKeepsLinks ==
    ASSUME IInv, MarkFat
    PROVE  /\ dir' = dir
           /\ SameLinks(fat[0], fat'[0])
           /\ \A x \in Clusters : fat'[0][x] = fat[0][x] \/ fat'[0][x] = Eoc
<1>0. DiskType /\ LocalType /\ InCall
  BY DEF IInv
<1>1. /\ new \in FatEntries /\ idx \in Copies
      /\ fat[0][new] = IF idx = 0 THEN Free ELSE Eoc
      /\ fat' = FatCopyWritten(idx) /\ dir' = dir
  BY <1>0 DEF LocalType, InCall, NewMarked, MarkFat
<1>2. \A c \in FatEntries : FatBuffer[c] = IF c = new THEN Eoc ELSE fat[0][c]
  BY <1>0, CopyFacts DEF DiskType, FatBuffer
<1>3. \A c \in FatEntries : fat'[0][c] = FatBuffer[c]
  BY <1>0, <1>1, <1>2, CopyFacts DEF DiskType, FatCopyWritten
<1>4. Free \notin Clusters /\ Eoc \notin Clusters
  BY Geometry, EocFacts DEF Clusters
<1> QED
  BY <1>1, <1>2, <1>3, <1>4, ClustersInFat DEF SameLinks

LEMMA MarkKeepsDots ==
    ASSUME IInv, DotDotsLead, MarkFat
    PROVE  DotDotsLead'
<1>1. /\ dir' = dir /\ SameLinks(fat[0], fat'[0])
      /\ \A x \in Clusters : fat'[0][x] = fat[0][x] \/ fat'[0][x] = Eoc
  BY MarkKeepsLinks
<1>2. \A p \in Clusters : Chain(fat[0], p) = Chain(fat'[0], p)
  BY <1>1, SameChains
<1>3. Eoc \notin Clusters /\ RootCluster \in Clusters
  BY Geometry, EocFacts DEF Clusters
<1>4. \A c \in Clusters, s \in Slots : Owns(dir[c][s]) => dir[c][s].start \in Clusters
  BY OwnedHead DEF IInv
<1>5. \A b \in Clusters, t \in Slots :
          dir[b][t].st = "live" /\ dir[b][t].start # 0 => dir[b][t].start \in Clusters
  BY DEF IInv, Volume, LinkedAllocated, LinksSound
<1>6. DotDotsSound(fat[0], dir)
  BY DEF DotDotsLead
<1>7. DotDotsSound(fat'[0], dir)
  BY <1>1, <1>2, <1>3, <1>4, <1>5, <1>6 DEF DotDotsSound
<1> QED
  BY <1>1, <1>7 DEF DotDotsLead

\* What formatting a new directory leaves: special entries in a cluster that is in
\* no chain but its own.
LEMMA FillEffect ==
    ASSUME IInv, Fill
    PROVE  /\ fat' = fat /\ new \in Clusters /\ pc = "fill" /\ call.op = "mkdir"
           /\ \A c \in Clusters : c # new => dir'[c] = dir[c]
           /\ \A s \in Slots : dir'[new][s].st = "live" => dir'[new][s].kind = "dots"
<1>0. DiskType /\ InCall
  BY DEF IInv
<1>1. /\ fat' = fat /\ new \in Clusters /\ pc = "fill" /\ call.op = "mkdir"
      /\ dir' = SectorWritten(new, idx, FreshDirectory)
  BY <1>0 DEF Fill, InCall, CallShape
<1>2. ASSUME NEW s \in Slots
      PROVE  dir'[new][s] = FreshDirectory[s] \/ dir'[new][s] = RawSlot
  <2>1. dir'[new][s] = IF SectorOf(s) = idx THEN FreshDirectory[s] ELSE dir[new][s]
    BY <1>0, <1>1 DEF DiskType, SectorWritten
  <2>2. dir[new][s] = IF SectorOf(s) < idx THEN FreshDirectory[s] ELSE RawSlot
    BY <1>0, <1>1 DEF InCall, NewMarked
  <2> QED
    BY <2>1, <2>2
<1>3. \A s \in Slots : FreshDirectory[s].st = "live" => FreshDirectory[s].kind = "dots"
  BY DEF FreshDirectory, Entry, EndSlot, Blank
<1> QED
  BY <1>0, <1>1, <1>2, <1>3 DEF DiskType, SectorWritten, RawSlot, Blank

LEMMA FillKeepsDots ==
    ASSUME IInv, NewNotRoot, DotDotsLead, Fill
    PROVE  DotDotsLead'
<1>1. /\ fat' = fat /\ new \in Clusters /\ pc = "fill" /\ call.op = "mkdir"
      /\ \A c \in Clusters : c # new => dir'[c] = dir[c]
      /\ \A s \in Slots : dir'[new][s].st = "live" => dir'[new][s].kind = "dots"
  BY FillEffect
<1>2. /\ \A b \in Clusters : fat[0][b] # new
      /\ \A b \in Clusters, t \in Slots : Owns(dir[b][t]) => dir[b][t].start # new
  BY <1>1 DEF IInv, InCall, NewUnnamed
<1>3. \A p \in Clusters : p # new => new \notin Chain(fat[0], p)
  BY <1>2, UnnamedOutside
<1>4. \A c \in Clusters, s \in Slots :
          Owns(dir'[c][s]) => c # new /\ Owns(dir[c][s]) /\ dir'[c][s] = dir[c][s]
  BY <1>1 DEF Owns
<1>5. \A c \in Clusters, s \in Slots :
          Owns(dir'[c][s]) => dir'[c][s].start \in Clusters /\ dir'[c][s].start # new
  BY <1>2, <1>4, OwnedHead DEF IInv
<1>6. RootCluster \in Clusters /\ RootCluster # new
  BY <1>1, Geometry DEF NewNotRoot
<1>7. DotDotsSound(fat[0], dir)
  BY DEF DotDotsLead
<1>8. DotDotsSound(fat[0], dir')
  <2> SUFFICES ASSUME NEW b \in Clusters, NEW t \in Slots,
                      dir'[b][t].st = "live", dir'[b][t].name = DotDot,
                      dir'[b][t].kind \notin {"dir", "label"}, dir'[b][t].start # 0
               PROVE  /\ dir'[b][t].kind = "dots" /\ b \notin Chain(fat[0], RootCluster)
                      /\ \A c \in Clusters, s \in Slots :
                             /\ Owns(dir'[c][s]) /\ dir'[c][s].kind = "dir"
                             /\ b \in Chain(fat[0], dir'[c][s].start)
                             => /\ c \in Chain(fat[0], dir'[b][t].start)
                                /\ \A x \in Clusters : fat[0][x] # dir'[b][t].start
    BY DEF DotDotsSound
  <2>1. CASE b = new
    BY <1>1, <1>3, <1>5, <1>6, <2>1
  <2>2. CASE b # new
    BY <1>1, <1>4, <1>7, <2>2 DEF DotDotsSound
  <2> QED
    BY <2>1, <2>2
<1> QED
  BY <1>1, <1>8 DEF DotDotsLead

\* What a write of the changed cluster leaves: at most one entry has changed, and
\* a new link is to a cluster that nothing else names.
LEMMA PutEffect ==
    ASSUME IInv, Put
    PROVE  /\ fat' = fat
           /\ \A c \in Clusters, s \in Slots :
                  \/ dir'[c][s] = dir[c][s]
                  \/ c = cur /\ s = slot /\ dir'[c][s] = PutEntry
           /\ \/ call.op = "mkdir" /\ PutEntry = Entry(OnDisk(call.name), "dir", new)
              \/ call.op = "create" /\ PutEntry = Entry(OnDisk(call.name), "file", 0)
              \/ call.op = "delete" /\ PutEntry = DelSlot
<1>0. DiskType /\ LocalType /\ InCall
  BY DEF IInv
<1>1. /\ fat' = fat /\ cur \in Clusters /\ slot \in Slots
      /\ call.op \in {"mkdir", "create", "delete"}
      /\ dir' = SectorWritten(cur, idx, PutBuffer)
  BY <1>0 DEF LocalType, InCall, CallShape, Put
<1>2. \A c \in Clusters, s \in Slots :
          \/ dir'[c][s] = dir[c][s]
          \/ c = cur /\ s = slot /\ dir'[c][s] = PutEntry
  BY <1>0, <1>1 DEF DiskType, SectorWritten, PutBuffer
<1> QED
  BY <1>1, <1>2 DEF PutEntry

LEMMA PutKeepsDots ==
    ASSUME IInv, Progress, NewNotRoot, DotDotsLead, Put
    PROVE  DotDotsLead'
<1>1. /\ fat' = fat
      /\ \A c \in Clusters, s \in Slots :
             \/ dir'[c][s] = dir[c][s]
             \/ c = cur /\ s = slot /\ dir'[c][s] = PutEntry
      /\ \/ call.op = "mkdir" /\ PutEntry = Entry(OnDisk(call.name), "dir", new)
         \/ call.op = "create" /\ PutEntry = Entry(OnDisk(call.name), "file", 0)
         \/ call.op = "delete" /\ PutEntry = DelSlot
  BY PutEffect
<1>2. DotDotsSound(fat[0], dir)
  BY DEF DotDotsLead
<1>3. /\ cur \in Chain(fat[0], call.parent)
      /\ \A b \in Clusters : fat[0][b] # call.parent
  BY DEF Put, IInv, InCall, CallShape, Progress, InItsChain, ChainOf
<1>4. call.op = "mkdir" =>
          /\ new \in Clusters /\ Chain(fat[0], new) = {new}
          /\ \A s \in Slots : dir[new][s] = FreshDirectory[s]
  <2> SUFFICES ASSUME call.op = "mkdir"
               PROVE  /\ new \in Clusters /\ Chain(fat[0], new) = {new}
                      /\ \A s \in Slots : dir[new][s] = FreshDirectory[s]
    OBVIOUS
  <2>1. new \in Clusters /\ fat[0][new] = Eoc
    BY DEF Put, IInv, InCall, NewMarked
  <2>2. Eoc \notin Clusters
    BY Geometry, EocFacts DEF Clusters
  <2>3. Chain(fat[0], new) = {new}
    BY <2>1, <2>2, ChainSingle
  <2> QED
    BY <2>1, <2>3 DEF Put, Progress, NewComplete
<1>5. Dot # DotDot
  BY DEF Dot, DotDot
\* What the first directory entry of a new directory leads to.
<1>6. ASSUME NEW t \in Slots, call.op = "mkdir",
             dir[new][t].st = "live", dir[new][t].name = DotDot
      PROVE  dir[new][t].start = call.parent
  BY <1>4, <1>5, <1>6 DEF FreshDirectory, Entry, EndSlot, Blank
<1>7. DotDotsSound(fat[0], dir')
  <2> SUFFICES ASSUME NEW b \in Clusters, NEW t \in Slots,
                      dir'[b][t].st = "live", dir'[b][t].name = DotDot,
                      dir'[b][t].kind \notin {"dir", "label"}, dir'[b][t].start # 0
               PROVE  /\ dir'[b][t].kind = "dots" /\ b \notin Chain(fat[0], RootCluster)
                      /\ \A c \in Clusters, s \in Slots :
                             /\ Owns(dir'[c][s]) /\ dir'[c][s].kind = "dir"
                             /\ b \in Chain(fat[0], dir'[c][s].start)
                             => /\ c \in Chain(fat[0], dir'[b][t].start)
                                /\ \A x \in Clusters : fat[0][x] # dir'[b][t].start
    BY DEF DotDotsSound
  <2>1. dir'[b][t] = dir[b][t]
    BY <1>1 DEF Entry, DelSlot, Blank
  <2>2. /\ dir[b][t].kind = "dots" /\ b \notin Chain(fat[0], RootCluster)
        /\ \A c \in Clusters, s \in Slots :
               /\ Owns(dir[c][s]) /\ dir[c][s].kind = "dir"
               /\ b \in Chain(fat[0], dir[c][s].start)
               => /\ c \in Chain(fat[0], dir[b][t].start)
                  /\ \A x \in Clusters : fat[0][x] # dir[b][t].start
    BY <1>2, <2>1 DEF DotDotsSound
  <2>3. ASSUME NEW c \in Clusters, NEW s \in Slots,
               Owns(dir'[c][s]), dir'[c][s].kind = "dir",
               b \in Chain(fat[0], dir'[c][s].start)
        PROVE  /\ c \in Chain(fat[0], dir'[b][t].start)
               /\ \A x \in Clusters : fat[0][x] # dir'[b][t].start
    <3>1. CASE dir'[c][s] = dir[c][s]
      BY <2>1, <2>2, <2>3, <3>1
    <3>2. CASE c = cur /\ s = slot /\ dir'[c][s] = PutEntry
      <4>1. call.op = "mkdir" /\ dir'[c][s].start = new
        BY <1>1, <2>3, <3>2 DEF Entry, DelSlot, Blank, Owns
      <4>2. b = new
        BY <1>4, <2>3, <4>1
      <4>3. dir[b][t].start = call.parent
        BY <1>6, <2>1, <4>1, <4>2
      <4> QED
        BY <1>3, <2>1, <3>2, <4>3
    <3> QED
      BY <1>1, <3>1, <3>2
  <2> QED
    BY <2>1, <2>2, <2>3
<1> QED
  BY <1>1, <1>7 DEF DotDotsLead

\* ".." entries lead up after every step of Fat32.
LEMMA DotsStep ==
    ASSUME IInv, Progress, NewNotRoot, DotDotsLead, [Next]_vars
    PROVE  DotDotsLead'
<1>1. CASE MarkFat
  BY <1>1, MarkKeepsDots
<1>2. CASE Fill
  BY <1>2, FillKeepsDots
<1>3. CASE Put
  BY <1>3, PutKeepsDots
<1>4. CASE UNCHANGED disk
  BY <1>4 DEF disk, DotDotsLead
<1>5. Calls \/ UNCHANGED vars => UNCHANGED disk
  BY DEF Calls, EnterMkdir, EnterCreate, EnterDelete, Enter, vars, disk
<1>6. Step \/ TransferRefused \/ PutLost \/ Crash =>
          MarkFat \/ Fill \/ Put \/ UNCHANGED disk
  BY DEF Step, TransferRefused, PutLost, Crash, Alloc, AllocFull, FillBeyond, ScanFinds,
         ScanNext, SeekFinds, SeekEnds, SeekNext, ChosenSlot, Advance, disk
<1> QED
  BY <1>1, <1>2, <1>3, <1>4, <1>5, <1>6 DEF Next

\* All that the proofs of Fat32 rely on, in one.
Sound == IInv /\ Progress /\ NewNotRoot /\ DotDotsLead

LEMMA InitSound == Init => Sound
<1> SUFFICES ASSUME Init PROVE Sound
  OBVIOUS
<1>1. IInv
  BY InitIInv
<1>2. Progress /\ NewNotRoot
  BY DEF Init, Progress, InItsChain, NewComplete, EntryWritten, NewNotRoot
<1>3. DotDotsLead
  BY HostDotDots, CopyFacts DEF Init, DotDotsLead
<1> QED
  BY <1>1, <1>2, <1>3 DEF Sound

LEMMA NextSound ==
    ASSUME Sound, [Next]_vars
    PROVE  Sound'
<1>1. IInv'
  BY NextIInv DEF Sound
<1>2. Progress'
  BY <1>1, ProgressStep DEF Sound
<1> QED
  BY <1>1, <1>2, NewNotRootStep, DotsStep DEF Sound

-----------------------------------------------------------------------------
(* Where a walk can be                                                      *)

\* The directories that can be reached from the root by their names alone.
IsDirectory(e) == Owns(e) /\ e.kind = "dir"

Descends(S) ==
    /\ RootCluster \in S
    /\ \A p \in S : \A c \in ChainOf(p), s \in Slots :
           IsDirectory(dir[c][s]) => dir[c][s].start \in S

Rooted == {p \in Clusters : \A S \in SUBSET Clusters : Descends(S) => p \in S}

LEMMA RootedDescends ==
    ASSUME Volume
    PROVE  Descends(Rooted) /\ Rooted \subseteq Clusters
<1>1. RootCluster \in Rooted
  BY Geometry DEF Rooted, Descends
<1>2. ASSUME NEW p \in Rooted, NEW c \in ChainOf(p), NEW s \in Slots,
             IsDirectory(dir[c][s])
      PROVE  dir[c][s].start \in Rooted
  <2>1. p \in Clusters
    BY DEF Rooted
  <2>2. c \in Clusters
    BY <2>1, ChainClosed DEF ChainOf
  <2>3. dir[c][s].start \in Clusters
    BY <1>2, <2>2, OwnedHead DEF IsDirectory
  <2>4. ASSUME NEW S \in SUBSET Clusters, Descends(S)
        PROVE  dir[c][s].start \in S
    <3>1. p \in S
      BY <2>4 DEF Rooted
    <3> QED
      BY <1>2, <2>4, <3>1 DEF Descends
  <2> QED
    BY <2>3, <2>4 DEF Rooted
<1> QED
  BY <1>1, <1>2 DEF Descends, Rooted

LEMMA RootedLeast ==
    ASSUME Volume, NEW S \in SUBSET Clusters, Descends(S)
    PROVE  Rooted \subseteq S
  BY DEF Rooted

\* Calls can be made on them.
LEMMA RootedCallable ==
    ASSUME Volume
    PROVE  Rooted \subseteq Callable
<1>1. Callable \in SUBSET Clusters
  BY DEF Callable
<1>2. Descends(Callable)
  <2>1. RootCluster \in Callable
    BY Geometry DEF Callable
  <2>2. ASSUME NEW p \in Callable, NEW c \in ChainOf(p), NEW s \in Slots,
               IsDirectory(dir[c][s])
        PROVE  dir[c][s].start \in Callable
    <3>1. c \in Clusters
      BY <1>1, ChainClosed DEF ChainOf
    <3>2. dir[c][s].start \in Clusters
      BY <2>2, <3>1, OwnedHead DEF IsDirectory
    <3> QED
      BY <2>2, <3>1, <3>2 DEF Callable, IsDirectory
  <2> QED
    BY <2>1, <2>2 DEF Descends
<1> QED
  BY <1>1, <1>2, RootedLeast

\* All but the root are named by a directory nearer to it.
LEMMA RootedBelow ==
    ASSUME Volume, NEW p \in Rooted, p # RootCluster
    PROVE  \E q \in Rooted : \E c \in ChainOf(q), s \in Slots :
               IsDirectory(dir[c][s]) /\ dir[c][s].start = p
<1> SUFFICES ASSUME \A q \in Rooted : \A c \in ChainOf(q), s \in Slots :
                        ~(IsDirectory(dir[c][s]) /\ dir[c][s].start = p)
             PROVE  FALSE
  OBVIOUS
<1> DEFINE S == Rooted \ {p}
<1>1. S \in SUBSET Clusters
  BY RootedDescends
<1>2. Descends(S)
  BY RootedDescends DEF Descends
<1>3. p \notin S
  OBVIOUS
<1> HIDE DEF S
<1> QED
  BY <1>1, <1>2, <1>3, RootedLeast

\* Going down: a directory found below a rooted one is rooted.
LEMMA DownStays ==
    ASSUME Sound, NEW p \in Rooted, NEW n, NEW e \in Lookup(p, n), e.kind = "dir"
    PROVE  e.start \in {0} \cup Rooted
<1>0. Volume /\ DiskType
  BY DEF Sound, IInv
<1>1. p \in Clusters /\ p \in Nat
  BY DEF Rooted, Clusters
<1>2. e \in Findable(p, n)
  BY <1>0, <1>1, LookupFinds
<1>3. PICK b \in ChainOf(p), s \in Slots : e = dir[b][s]
  BY <1>2 DEF Findable
<1>4. Owns(e) \/ e.start = 0
  BY <1>2 DEF Findable, Owns
<1> QED
  BY <1>0, <1>3, <1>4, RootedDescends DEF Descends, IsDirectory

\* Going up: ".." of a rooted directory is the one it is named in, or 0.
LEMMA UpStays ==
    ASSUME Sound, NEW p \in Rooted, NEW e \in Lookup(p, DotDot)
    PROVE  e.start \in {0} \cup Rooted
<1>0. Volume /\ DiskType
  BY DEF Sound, IInv
<1>1. p \in Clusters /\ p \in Nat
  BY DEF Rooted, Clusters
<1>2. e \in Findable(p, DotDot)
  BY <1>0, <1>1, LookupFinds
<1>3. PICK b \in ChainOf(p), t \in Slots : e = dir[b][t]
  BY <1>2 DEF Findable
<1>4. /\ b \in Clusters
      /\ e.st = "live" /\ e.kind # "label" /\ e.name = DotDot
  BY <1>1, <1>2, ChainClosed DEF Findable, ChainOf
<1> DEFINE up == e.start
<1>5. CASE e.kind = "dir"
  BY <1>5, DownStays
<1>6. CASE up = 0
  BY <1>6
<1>7. CASE e.kind # "dir" /\ up # 0
  <2>1. /\ b \notin Chain(fat[0], RootCluster)
        /\ \A c \in Clusters, s \in Slots :
               Owns(dir[c][s]) /\ dir[c][s].kind = "dir" /\ b \in Chain(fat[0], dir[c][s].start)
                   => c \in Chain(fat[0], up) /\ IsHead(fat[0], up)
    BY <1>3, <1>4, <1>7 DEF Sound, DotDotsLead, DotDotsSound, IsHead
  <2>2. p # RootCluster
    BY <1>3, <2>1 DEF ChainOf
  <2>3. PICK q \in Rooted : \E c \in ChainOf(q), s \in Slots :
            IsDirectory(dir[c][s]) /\ dir[c][s].start = p
    BY <1>0, <2>2, RootedBelow
  <2>4. PICK c \in ChainOf(q), s \in Slots : IsDirectory(dir[c][s]) /\ dir[c][s].start = p
    BY <2>3
  <2>5. q \in Callable /\ q \in Clusters /\ IsHead(fat[0], q)
    BY <1>0, RootedCallable, CallableHead DEF IsHead
  <2>6. c \in Clusters
    BY <2>5, ChainClosed DEF ChainOf
  <2>7. c \in Chain(fat[0], up) /\ IsHead(fat[0], up)
    BY <1>3, <2>1, <2>4, <2>6 DEF ChainOf, IsDirectory
  <2>8. up \in Clusters
    BY <1>0, <1>3, <1>4, <1>7 DEF Volume, LinkedAllocated, LinksSound
  <2>9. ChainsSound(fat[0]) /\ c \in Chain(fat[0], q)
    BY <1>0 DEF Volume, LinkedAllocated, ChainOf
  <2>10. up = q
    BY <2>5, <2>7, <2>8, <2>9, ChainsDisjoint
  <2> QED
    BY <2>10
<1> QED
  BY <1>5, <1>6, <1>7

-----------------------------------------------------------------------------
(* Paths                                                                    *)

Plain == Name \ {Dot, DotDot}

LEMMA FrontType ==
    ASSUME NEW S, NEW path \in Seq(S), path # <<>>
    PROVE  /\ Front(path) \in Seq(S) /\ Last(path) \in S
           /\ Len(Front(path)) = Len(path) - 1
<1>1. Len(path) \in Nat /\ Len(path) # 0
  BY EmptySeq, LenProperties
<1>2. Len(path) - 1 \in Nat /\ Len(path) \in 1 .. Len(path)
  BY <1>1
<1>3. Last(path) \in S
  BY <1>2, ElementOfSeq DEF Last
<1>4. Front(path) = [i \in 1 .. Len(path) - 1 |-> path[i]]
  BY <1>1, <1>2 DEF Front
<1>5. \A i \in 1 .. Len(path) - 1 : path[i] \in S
  BY <1>1, ElementOfSeq
<1> QED
  BY <1>2, <1>3, <1>4, <1>5

\* One component more of normalize_path.
Joined(done, n) ==
    CASE n = Dot -> done
      [] n = DotDot -> IF done = <<>> THEN done ELSE Front(done)
      [] OTHER -> Append(done, n)

LEMMA JoinedType ==
    ASSUME NEW done \in Seq(Plain), NEW n \in Name
    PROVE  Joined(done, n) \in Seq(Plain)
<1>0. Dot # DotDot
  BY DEF Dot, DotDot
<1>1. CASE n = Dot
  BY <1>0, <1>1 DEF Joined
<1>2. CASE n = DotDot
  BY <1>0, <1>2, FrontType DEF Joined
<1>3. CASE n # Dot /\ n # DotDot
  <2>1. n \in Plain
    BY <1>3 DEF Plain
  <2> QED
    BY <1>3, <2>1 DEF Joined
<1> QED
  BY <1>1, <1>2, <1>3

\* What is left of a path has no "." and no "..".
LEMMA SimplifyType ==
    ASSUME NEW parts \in Seq(Name)
    PROVE  Simplify(parts) \in Seq(Plain)
<1> DEFINE n == Len(parts)
           V == Seq(Plain)
           step == [i \in Nat |-> [h \in V |-> IF i \in 1 .. n THEN Joined(h, parts[i]) ELSE h]]
           body(g, s) == IF s = {} THEN <<>> ELSE Joined(g[s \ {Max(s)}], parts[Max(s)])
<1>1. n \in Nat /\ DOMAIN parts = 1 .. n /\ \A i \in 1 .. n : parts[i] \in Name
  BY LenProperties, ElementOfSeq
<1>2. PICK g : FoldsOver(g, n, V, <<>>, step)
  <2>1. ASSUME NEW i \in Nat, NEW h \in V
        PROVE  (IF i \in 1 .. n THEN Joined(h, parts[i]) ELSE h) \in V
    BY <1>1, JoinedType
  <2>2. <<>> \in V
    OBVIOUS
  <2> HIDE DEF n, V
  <2>3. IsStep(step, V)
    BY <2>1 DEF IsStep
  <2> HIDE DEF step
  <2> QED
    BY <1>1, <2>2, <2>3, Folding
<1>3. g = [s \in SUBSET (1 .. n) |-> body(g, s)]
  <2>1. g \in [SUBSET (1 .. n) -> V] /\ g[{}] = <<>>
    BY <1>2 DEF FoldsOver
  <2>2. ASSUME NEW s \in SUBSET (1 .. n), s # {}
        PROVE  g[s] = Joined(g[s \ {Max(s)}], parts[Max(s)])
    <3>1. g[s] = step[Max(s)][g[s \ {Max(s)}]]
      BY <1>2, <2>2 DEF FoldsOver
    <3>2. Max(s) \in s
      BY <1>1, <2>2, MaxOfSome
    <3>3. Max(s) \in 1 .. n /\ Max(s) \in Nat /\ s \ {Max(s)} \in SUBSET (1 .. n)
      <4>1. \A x \in s : x \in 1 .. n /\ x \in Nat
        OBVIOUS
      <4>2. s \ {Max(s)} \subseteq 1 .. n
        BY <4>1
      <4> QED
        BY <3>2, <4>1, <4>2
    <3>4. g[s \ {Max(s)}] \in V
      BY <2>1, <3>3
    <3> HIDE DEF V, n
    <3> QED
      BY <3>1, <3>3, <3>4
  <2>3. \A s \in SUBSET (1 .. n) : g[s] = body(g, s)
    BY <2>1, <2>2
  <2> HIDE DEF V, n, body
  <2> QED
    BY <2>1, <2>3
<1> DEFINE iter == CHOOSE f : f = [s \in SUBSET DOMAIN parts |-> body(f, s)]
<1>4. iter = [s \in SUBSET (1 .. n) |-> body(iter, s)]
  <2> HIDE DEF body
  <2> QED
    BY <1>1, <1>3
<1>5. Simplify(parts) = iter[DOMAIN parts]
  BY DEF Simplify, FoldLeft, MapThenFoldSet, Joined
<1> HIDE DEF iter
<1> DEFINE T == {k \in Nat : k <= n => iter[1 .. k] \in V}
<1>6. 0 \in T
  <2>1. 1 .. 0 = {} /\ {} \in SUBSET (1 .. n)
    OBVIOUS
  <2>2. iter[{}] = <<>>
    BY <1>4, <2>1
  <2>3. <<>> \in V
    OBVIOUS
  <2>4. iter[1 .. 0] \in V
    <3> HIDE DEF V, n
    <3> QED
      BY <2>1, <2>2, <2>3
  <2> HIDE DEF V, n
  <2> QED
    BY <2>4
<1>7. ASSUME NEW k \in Nat, k \in T
      PROVE  k + 1 \in T
  <2> SUFFICES ASSUME k + 1 <= n
               PROVE  iter[1 .. k + 1] \in V
    OBVIOUS
  <2>1. Max(1 .. k + 1) = k + 1 /\ (1 .. k + 1) \ {k + 1} = 1 .. k
    BY MaxUpto
  <2>2. 1 .. k + 1 \in SUBSET (1 .. n) /\ 1 .. k + 1 # {} /\ k + 1 \in 1 .. n /\ k <= n
    <3>1. k + 1 \in Nat /\ k + 1 \in 1 .. n /\ k <= n /\ k + 1 \in 1 .. k + 1
      BY <1>1
    <3>2. \A x \in 1 .. k + 1 : x \in 1 .. n
      BY <1>1, <3>1
    <3> HIDE DEF n
    <3> QED
      BY <3>1, <3>2
  <2>3. iter[1 .. k + 1] = body(iter, 1 .. k + 1)
    <3> HIDE DEF body, n
    <3> QED
      BY <1>4, <2>2
  <2>4. iter[1 .. k + 1] = Joined(iter[1 .. k], parts[k + 1])
    BY <2>1, <2>2, <2>3
  <2>5. iter[1 .. k] \in Seq(Plain) /\ parts[k + 1] \in Name
    BY <1>1, <1>7, <2>2
  <2> QED
    BY <2>4, <2>5, JoinedType
<1> HIDE DEF T
<1>8. n \in T
  BY <1>1, <1>6, <1>7, Induction
<1> QED
  BY <1>1, <1>5, <1>8 DEF T

LEMMA NormalizeType ==
    ASSUME NEW path \in Seq(Name) \ {<<>>}
    PROVE  /\ Normalize(path) \in Seq(Name) \ {<<>>}
           /\ \A i \in DOMAIN Normalize(path) : ~Special(Normalize(path)[i])
<1>1. Components(path) \in Seq(Name)
  BY FrontType DEF Components
<1>2. Simplify(Components(path)) \in Seq(Plain)
  BY <1>1, SimplifyType
<1>3. EmptyName \in Plain
  BY SpecialNames, Name83Assumption DEF Plain, EmptyName, Dot, DotDot
<1>4. Normalize(path) \in Seq(Plain) \ {<<>>}
  BY <1>2, <1>3 DEF Normalize, Top
<1>5. Seq(Plain) \subseteq Seq(Name)
  BY DEF Plain
<1>6. \A i \in DOMAIN Normalize(path) : Normalize(path)[i] \in Plain
  BY <1>4
<1> QED
  BY <1>4, <1>5, <1>6 DEF Plain, Special

Paths == Seq(Name) \ {<<>>}

LEMMA ParentType ==
    ASSUME NEW path \in Paths
    PROVE  ParentPath(path) \in Paths /\ Components(path) \in Seq(Name)
<1>1. Top \in Paths
  BY SpecialNames DEF Top, Paths
<1>2. Len(path) \in Nat /\ Len(path) # 0
  BY EmptySeq, LenProperties DEF Paths
<1>3. Front(path) \in Seq(Name) /\ Len(Front(path)) = Len(path) - 1
  BY FrontType DEF Paths
<1>4. Len(path) # 1 => Front(path) # <<>>
  BY <1>2, <1>3
<1> QED
  BY <1>1, <1>3, <1>4 DEF ParentPath, Components, Paths

LEMMA LastOfBoth ==
    ASSUME NEW S, NEW s \in Seq(S), NEW t \in Seq(S), Len(t) # 0
    PROVE  Last(s \o t) = Last(t)
<1>1. Len(s) \in Nat /\ Len(t) \in Nat /\ Len(s \o t) = Len(s) + Len(t)
  BY LenProperties, ConcatProperties
<1>2. Len(s) + Len(t) \in 1 .. Len(s) + Len(t) /\ ~(Len(s) + Len(t) <= Len(s))
      /\ (Len(s) + Len(t)) - Len(s) = Len(t)
  BY <1>1
<1>3. (s \o t)[Len(s) + Len(t)] = t[Len(t)]
  BY <1>2, ConcatProperties
<1> QED
  BY <1>1, <1>3 DEF Last

\* What is typed after a command, or comes with the boot sequence.
Request(op, p) ==
    /\ op \in {"cd", "ls", "mkdir", "touch", "rm"}
    /\ p \in [abs : BOOLEAN, parts : Paths]
    /\ op \in {"mkdir", "touch", "rm"} => FileName(p.parts) \in Typed /\ Last(p.parts) \in Typed

LEMMA ResolveType ==
    ASSUME cwd.path \in Paths, NEW op, NEW p, Request(op, p)
    PROVE  /\ Resolve(p) \in Paths
           /\ op \in {"mkdir", "touch", "rm"} => FileName(Resolve(p)) \in Typed
<1>1. p.parts \in Paths /\ p.parts \in Seq(Name) /\ cwd.path \in Seq(Name)
  BY DEF Request, Paths
<1>2. /\ Len(p.parts) \in Nat /\ Len(p.parts) # 0
      /\ Len(cwd.path) \in Nat /\ Len(cwd.path) # 0
  BY <1>1, EmptySeq, LenProperties DEF Paths
<1>3. CASE Resolve(p) = p.parts
  BY <1>1, <1>3 DEF Request
<1>4. CASE Resolve(p) = cwd.path \o p.parts
  <2>1. /\ cwd.path \o p.parts \in Seq(Name)
        /\ Len(cwd.path \o p.parts) = Len(cwd.path) + Len(p.parts)
    BY <1>1, <1>2
  <2>2. Last(cwd.path \o p.parts) = Last(p.parts)
    BY <1>1, <1>2, LastOfBoth
  <2>3. Last(Resolve(p)) = Last(p.parts) /\ Len(Resolve(p)) # 1 /\ Len(Resolve(p)) # 0
    <3>0. \A a, b \in Nat : a # 0 /\ b # 0 => a + b # 1 /\ a + b # 0
      OBVIOUS
    <3>1. Len(cwd.path) + Len(p.parts) # 1 /\ Len(cwd.path) + Len(p.parts) # 0
      BY <1>2, <3>0, Zenon
    <3> QED
      BY <1>4, <2>1, <2>2, <3>1
  <2>4. Resolve(p) \in Paths
    BY <1>4, <2>1, <2>3 DEF Paths
  <2> QED
    BY <2>3, <2>4 DEF Request, FileName
<1> QED
  BY <1>3, <1>4 DEF Resolve

LEMMA TypedRequest ==
    ASSUME NEW p, p \in CdPaths \/ p \in FilePaths
    PROVE  /\ p \in CdPaths => Request("cd", p)
           /\ p \in FilePaths => \A op \in {"mkdir", "touch", "rm"} : Request(op, p)
<1>1. /\ p \in [abs : BOOLEAN, parts : Paths] /\ p.parts \in Paths
      /\ p \in FilePaths => Last(p.parts) \in Typed
      /\ EmptyName \in Typed
  BY VfsAssumption DEF Paths
<1>2. p \in FilePaths => FileName(p.parts) \in Typed
  BY <1>1 DEF FileName
<1> QED
  BY <1>1, <1>2 DEF Request

LEMMA ListRequest ==
    ASSUME NEW n \in {Dot, EmptyName}
    PROVE  Request("ls", [abs |-> n = EmptyName, parts |-> <<n>>])
<1>1. n \in Name /\ (n = EmptyName) \in BOOLEAN
  BY SpecialNames
<1>2. <<n>> \in Paths
  BY <1>1 DEF Paths
<1> QED
  BY <1>1, <1>2 DEF Request

LEMMA SystemRequest ==
    ASSUME NEW n \in {System, Personal, Tmp}, NEW op \in {"mkdir", "cd"}
    PROVE  Request(op, Absolute(n))
<1>1. n \in Typed /\ n \in Name /\ EmptyName \in Typed
  BY VfsAssumption, Geometry
<1>2. <<n>> \in Paths /\ Len(<<n>>) = 1 /\ Last(<<n>>) = n
  BY <1>1 DEF Paths, Last
<1> QED
  BY <1>1, <1>2 DEF Request, Absolute, FileName

Scripts == {SubSeq(BootScript, k, 4) : k \in 1 .. 5}

LEMMA ScriptHead ==
    ASSUME NEW s \in Scripts, s # <<>>
    PROVE  Tail(s) \in Scripts /\ Request(Head(s).op, Head(s).path)
<1>1. PICK k \in 1 .. 5 : s = SubSeq(BootScript, k, 4)
  BY DEF Scripts
<1>2. \A i \in 1 .. 4 : Request(BootScript[i].op, BootScript[i].path)
  <2>1. /\ BootScript[1] = [op |-> "mkdir", path |-> Absolute(System)]
        /\ BootScript[2] = [op |-> "mkdir", path |-> Absolute(Personal)]
        /\ BootScript[3] = [op |-> "mkdir", path |-> Absolute(Tmp)]
        /\ BootScript[4] = [op |-> "cd", path |-> Absolute(System)]
    BY DEF BootScript
  <2> QED
    BY <2>1, SystemRequest
<1>3. \A j \in 1 .. 5 : SubSeq(BootScript, j, 4) = [i \in 1 .. 5 - j |-> BootScript[i + j - 1]]
  BY DEF BootScript
<1>4. k # 5
  <2>1. SubSeq(BootScript, 5, 4) = <<>>
    BY DEF BootScript
  <2> QED
    BY <1>1, <2>1
<1>5. Head(s) = BootScript[k] /\ Tail(s) = SubSeq(BootScript, k + 1, 4) /\ k + 1 \in 1 .. 5
  <2>1. k = 1 \/ k = 2 \/ k = 3 \/ k = 4
    BY <1>4
  <2> QED
    BY <1>1, <2>1 DEF BootScript
<1> QED
  BY <1>2, <1>4, <1>5 DEF Scripts

-----------------------------------------------------------------------------
(* The inductive invariant of the machine                                   *)

PathTypes ==
    /\ cwd \in [cluster : {0} \cup Clusters, path : Paths]
    /\ script \in Scripts
    /\ cmd \in [op : {"none", "cd", "ls", "mkdir", "touch", "rm", "cat"}, path : Paths]
    /\ walk \in {"at work", "done"}
    /\ at \in {0} \cup Clusters
    /\ left \in Seq(Name)
    /\ volume \in Disks
    /\ boots \in 1 .. MaxBoots

\* A walk begins and ends between two calls of Fat32, and without a volume it does
\* not leave the 0 it begins at.
Walking ==
    walk = "at work" =>
        /\ pc = "idle" /\ file = Closed
        /\ at = 0 \/ (volume = "fat32" /\ at \in Rooted)
        /\ cmd.op \in {"mkdir", "touch", "rm"} => FileName(cmd.path) \in Typed

\* While cat reads, nothing else goes on, and what it has to read next is
\* allocated, or the end.
Allocated(c) == c \in Clusters /\ fat[0][c] # Free

Places == ({0} \cup Clusters) \X Nat

OpenFiles ==
    [open : {TRUE}, start : {0} \cup Clusters, cluster : Nat, held : {0} \cup Clusters,
     size : Nat, shown : Seq(Places)]

Position ==
    /\ file \in OpenFiles
    /\ file.size = 0 \/ is_eoc(file.cluster) \/ Allocated(file.cluster)

Reading == file = Closed \/ (pc = "idle" /\ walk = "done" /\ Position)

Machine == Sound /\ PathTypes /\ Walking /\ Reading

\* With the disk, what is defined by it stays.
LEMMA DiskKept ==
    ASSUME Sound, UNCHANGED vars
    PROVE  /\ Sound' /\ Rooted' = Rooted /\ \A c : Allocated(c)' = Allocated(c)
           /\ pc' = pc /\ fat' = fat
<1>1. fat' = fat /\ dir' = dir /\ pc' = pc
  BY DEF vars
<1>2. Sound'
  BY NextSound
<1>3. Rooted' = Rooted
  BY <1>1 DEF Rooted, Descends, ChainOf
<1> QED
  BY <1>1, <1>2, <1>3 DEF Allocated

LEMMA InitMachine == VfsInit => Machine
<1> SUFFICES ASSUME VfsInit PROVE Machine
  OBVIOUS
<1>1. Sound
  BY InitSound DEF VfsInit
<1>2. Top \in Paths
  BY SpecialNames DEF Top, Paths
<1>3. RootOn(volume) \in {0} \cup Clusters
  BY Geometry DEF RootOn
<1>4. script \in Scripts
  <2>1. BootScript = SubSeq(BootScript, 1, 4)
    BY DEF BootScript
  <2> QED
    BY <2>1 DEF VfsInit, Scripts
<1>5. PathTypes
  BY <1>2, <1>3, <1>4, VfsAssumption DEF VfsInit, AtTop, Root, NoCmd, PathTypes
<1>6. walk = "done" /\ file = Closed
  BY DEF VfsInit
<1>7. Walking /\ Reading
  BY <1>6 DEF Walking, Reading
<1> QED
  BY <1>1, <1>5, <1>7 DEF Machine

\* A command begins its walk at the root.
LEMMA StartStep ==
    ASSUME Machine, Idle, NEW op, NEW p, Request(op, p), Start(op, p), script' \in Scripts
    PROVE  Machine'
<1>1. /\ UNCHANGED vars /\ cwd' = cwd /\ file' = file /\ volume' = volume /\ boots' = boots
      /\ cmd' = [op |-> op, path |-> Resolve(p)] /\ walk' = "at work" /\ at' = Root
      /\ left' = Components(IF op \in {"cd", "ls"} THEN Resolve(p)
                                                 ELSE ParentPath(Resolve(p)))
  BY DEF Start
<1>2. Sound' /\ Rooted' = Rooted /\ pc' = pc
  BY <1>1, DiskKept DEF Machine
<1>3. /\ Resolve(p) \in Paths
      /\ op \in {"mkdir", "touch", "rm"} => FileName(Resolve(p)) \in Typed
  BY ResolveType DEF Machine, PathTypes
<1>4. ParentPath(Resolve(p)) \in Paths
  BY <1>3, ParentType
<1>5. left' \in Seq(Name)
  BY <1>1, <1>3, <1>4, ParentType
<1>6. Root = 0 \/ (volume = "fat32" /\ Root \in Rooted /\ Root \in Clusters)
  BY RootedDescends DEF Root, RootOn, Machine, Sound, IInv, Descends
<1>7. PathTypes'
  BY <1>1, <1>3, <1>5, <1>6 DEF Machine, PathTypes, Request
<1>8. file' = Closed /\ pc' = "idle"
  BY <1>1, <1>2 DEF Idle
<1>9. Reading'
  BY <1>8 DEF Reading
<1>10. at' = 0 \/ (volume' = "fat32" /\ at' \in Rooted')
  BY <1>1, <1>2, <1>6
<1>11. cmd'.op = op /\ cmd'.path = Resolve(p)
  BY <1>1
<1>12. cmd'.op \in {"mkdir", "touch", "rm"} => FileName(cmd'.path) \in Typed
  BY <1>3, <1>11
<1>13. Walking'
  BY <1>8, <1>10, <1>12 DEF Walking
<1> QED
  BY <1>2, <1>7, <1>9, <1>13 DEF Machine

\* No command, and a walk that is over, are kept by whatever leaves the disk alone.
LEMMA WalkStep ==
    ASSUME Machine, walk = "at work",
           UNCHANGED <<vars, cwd, script, cmd, file, volume, boots>>,
           left' \in Seq(Name), walk' \in {"at work", "done"},
           at' = 0 \/ (volume = "fat32" /\ at' \in Rooted)
    PROVE  Machine'
<1>1. Sound' /\ Rooted' = Rooted /\ pc' = pc
  BY DiskKept DEF Machine
<1>2. at' \in {0} \cup Clusters
  BY RootedDescends DEF Machine, Sound, IInv
<1>3. PathTypes'
  BY <1>2 DEF Machine, PathTypes
<1>4. pc' = "idle" /\ file' = Closed
  BY <1>1 DEF Machine, Walking
<1>5. Reading'
  BY <1>4 DEF Reading
<1>6. Walking'
  BY <1>1, <1>4 DEF Machine, Walking
<1> QED
  BY <1>1, <1>3, <1>5, <1>6 DEF Machine

\* A search in "cluster 0" finds nothing.
LEMMA ZeroEmpty ==
    ASSUME Machine, NEW n
    PROVE  Lookup(0, n) = {}
<1>1. Lookup(0, n) \subseteq Findable(0, n)
  BY LookupFinds DEF Machine, Sound, IInv
<1>2. 0 \notin Clusters
  BY DEF Clusters
<1> QED
  BY <1>1, <1>2 DEF Findable

LEMMA TailType ==
    ASSUME NEW S, NEW path \in Seq(S), path # <<>>
    PROVE  Tail(path) \in Seq(S) /\ Head(path) \in S
  BY HeadTailProperties

LEMMA WalkUpStep == Machine /\ WalkUp => Machine'
<1> SUFFICES ASSUME Machine, WalkUp PROVE Machine'
  OBVIOUS
<1>1. /\ walk = "at work" /\ left # <<>> /\ left' = Tail(left) /\ walk' = walk
      /\ UNCHANGED <<vars, cwd, script, cmd, file, volume, boots>>
      /\ at' \in {e.start : e \in Lookup(at, DotDot)} \/ at' = Root
  BY DEF WalkUp, Searching
<1>2. at = 0 \/ (volume = "fat32" /\ at \in Rooted)
  BY <1>1 DEF Machine, Walking
<1>3. left' \in Seq(Name)
  BY <1>1, TailType DEF Machine, PathTypes
<1>4. at' = 0 \/ (volume = "fat32" /\ at' \in Rooted)
  <2>1. CASE at' = Root
    BY <2>1, RootedDescends DEF Root, RootOn, Machine, Sound, IInv, Descends
  <2>2. CASE at' # Root
    <3>1. PICK e \in Lookup(at, DotDot) : at' = e.start
      BY <1>1, <2>2
    <3>2. volume = "fat32" /\ at \in Rooted
      BY <1>2, <3>1, ZeroEmpty
    <3> QED
      BY <3>1, <3>2, UpStays DEF Machine
  <2> QED
    BY <2>1, <2>2
<1> QED
  BY <1>1, <1>3, <1>4, WalkStep

LEMMA WalkDownStep == Machine /\ WalkDown => Machine'
<1> SUFFICES ASSUME Machine, WalkDown PROVE Machine'
  OBVIOUS
<1>1. /\ walk = "at work" /\ left # <<>> /\ left' = Tail(left) /\ walk' = walk
      /\ UNCHANGED <<vars, cwd, script, cmd, file, volume, boots>>
      /\ \E e \in Lookup(at, Head(left)) : e.kind = "dir" /\ at' = e.start
  BY DEF WalkDown, Searching
<1>2. at = 0 \/ (volume = "fat32" /\ at \in Rooted)
  BY <1>1 DEF Machine, Walking
<1>3. left' \in Seq(Name)
  BY <1>1, TailType DEF Machine, PathTypes
<1>4. at' = 0 \/ (volume = "fat32" /\ at' \in Rooted)
  <2>1. PICK e \in Lookup(at, Head(left)) : e.kind = "dir" /\ at' = e.start
    BY <1>1
  <2>2. volume = "fat32" /\ at \in Rooted
    BY <1>2, <2>1, ZeroEmpty
  <2> QED
    BY <2>1, <2>2, DownStays DEF Machine
<1> QED
  BY <1>1, <1>3, <1>4, WalkStep

LEMMA WalkOtherStep == Machine /\ (WalkStay \/ WalkFails) => Machine'
<1> SUFFICES ASSUME Machine, WalkStay \/ WalkFails PROVE Machine'
  OBVIOUS
<1>1. /\ walk = "at work" /\ left # <<>>
      /\ left' = Tail(left) \/ left' = <<>>
      /\ UNCHANGED <<vars, cwd, script, cmd, at, file, volume, boots>>
      /\ walk' = walk \/ walk' = "done"
  BY DEF WalkStay, WalkFails, Searching
<1>2. at' = 0 \/ (volume = "fat32" /\ at' \in Rooted)
  BY <1>1 DEF Machine, Walking
<1>3. left' \in Seq(Name)
  <2>1. <<>> \in Seq(Name)
    OBVIOUS
  <2>2. Tail(left) \in Seq(Name)
    BY <1>1, TailType DEF Machine, PathTypes
  <2> QED
    BY <1>1, <2>1, <2>2
<1> QED
  BY <1>1, <1>2, <1>3, WalkStep

\* The walk is over: what comes next does not need it any more.
LEMMA OverStep ==
    ASSUME Machine, walk = "at work", walk' = "done",
           UNCHANGED <<script, cmd, at, left, file, volume, boots>>,
           [Next]_vars, cwd' \in [cluster : {0} \cup Clusters, path : Paths]
    PROVE  Machine'
<1>1. Sound'
  BY NextSound DEF Machine
<1>2. PathTypes'
  BY DEF Machine, PathTypes
<1>3. file' = Closed
  BY DEF Machine, Walking
<1>4. Walking' /\ Reading'
  BY <1>3 DEF Walking, Reading
<1> QED
  BY <1>1, <1>2, <1>4 DEF Machine

LEMMA ChangeStep == Machine /\ ChangeDirectory => Machine'
<1> SUFFICES ASSUME Machine, ChangeDirectory PROVE Machine'
  OBVIOUS
<1>1. /\ walk = "at work" /\ walk' = "done"
      /\ UNCHANGED <<vars, script, cmd, at, left, file, volume, boots>>
      /\ cwd' = [cluster |-> at, path |-> Normalize(cmd.path)]
  BY DEF ChangeDirectory, Arrived
<1>2. at \in {0} \cup Clusters /\ cmd.path \in Paths
  BY DEF Machine, PathTypes
<1>3. Normalize(cmd.path) \in Paths
  BY <1>2, NormalizeType DEF Paths
<1> QED
  BY <1>1, <1>2, <1>3, OverStep

LEMMA ListStep == Machine /\ (List \/ CallFails) => Machine'
<1> SUFFICES ASSUME Machine, List \/ CallFails PROVE Machine'
  OBVIOUS
<1>1. /\ walk = "at work" /\ walk' = "done" /\ cwd' = cwd
      /\ UNCHANGED <<vars, script, cmd, at, left, file, volume, boots>>
  BY DEF List, CallFails, Arrived
<1> QED
  BY <1>1, OverStep DEF Machine, PathTypes

\* A call is made on a directory below the root, with a name that can be typed.
LEMMA CallIsNext ==
    ASSUME Machine, CallFat32
    PROVE  Next
<1>1. /\ walk = "at work" /\ at \in Clusters
      /\ \/ cmd.op = "mkdir" /\ EnterMkdir(at, FileName(cmd.path))
         \/ cmd.op = "touch" /\ EnterCreate(at, FileName(cmd.path))
         \/ cmd.op = "rm"    /\ EnterDelete(at, FileName(cmd.path))
  BY DEF CallFat32, Arrived
<1>2. at # 0
  <2>1. 0 \notin Clusters
    BY DEF Clusters
  <2> QED
    BY <1>1, <2>1
<1>3. at \in Callable /\ FileName(cmd.path) \in Typed
  BY <1>1, <1>2, RootedCallable DEF Machine, Walking, Sound, IInv
<1>4. Calls
  BY <1>1, <1>3 DEF Calls
<1> QED
  BY <1>4 DEF Next

LEMMA CallStep == Machine /\ CallFat32 => Machine'
<1> SUFFICES ASSUME Machine, CallFat32 PROVE Machine'
  OBVIOUS
<1>1. /\ walk = "at work" /\ walk' = "done"
      /\ UNCHANGED <<cwd, script, cmd, at, left, file, volume, boots>>
  BY DEF CallFat32, Arrived
<1>2. Next
  BY CallIsNext
<1> QED
  BY <1>1, <1>2, OverStep DEF Machine, PathTypes

-----------------------------------------------------------------------------
(* cat, commands and power                                                  *)

LEMMA BootCommandStep == Machine /\ BootCommand => Machine'
<1> SUFFICES ASSUME Machine, BootCommand PROVE Machine'
  OBVIOUS
<1>1. /\ Idle /\ script # <<>> /\ script' = Tail(script)
      /\ Start(Head(script).op, Head(script).path)
  BY DEF BootCommand
<1>2. Tail(script) \in Scripts /\ Request(Head(script).op, Head(script).path)
  BY <1>1, ScriptHead DEF Machine, PathTypes
<1> QED
  BY <1>1, <1>2, StartStep

\* What holds of an entry that can be found: what it names is allocated.
LEMMA FoundAllocated ==
    ASSUME Machine, NEW n, NEW e \in Lookup(Root, n)
    PROVE  e.start = 0 \/ Allocated(e.start)
<1>1. Root \in Nat
  BY Geometry DEF Root, RootOn, Clusters
<1>2. e \in Findable(Root, n)
  BY <1>1, LookupFinds DEF Machine, Sound, IInv
<1>3. Root \in Clusters /\ ChainOf(Root) \subseteq Clusters
  BY <1>2, ChainClosed DEF Findable, ChainOf
<1> QED
  BY <1>2, <1>3
     DEF Findable, Allocated, Machine, Sound, IInv, Volume, LinkedAllocated, LinksSound

LEMMA OpenedPosition ==
    ASSUME NEW c, c = 0 \/ Allocated(c),
           file' = [Closed EXCEPT !.open = TRUE, !.start = c, !.cluster = c,
                        !.size = IF c = 0 THEN 0 ELSE HostSize[c]],
           UNCHANGED vars
    PROVE  Position'
<1>1. c \in {0} \cup Clusters /\ c \in Nat
  BY DEF Allocated, Clusters
<1> DEFINE size == IF c = 0 THEN 0 ELSE HostSize[c]
<1>2. size \in Nat
  BY <1>1, VfsAssumption
<1>3. /\ file' = [open |-> TRUE, start |-> c, cluster |-> c, held |-> 0, size |-> size,
                  shown |-> <<>>]
  BY DEF Closed
<1>4. size = 0 \/ (c \in Clusters /\ fat'[0][c] # Free)
  BY DEF Allocated, vars
<1>5. <<>> \in Seq(Places)
  OBVIOUS
<1> HIDE DEF size
<1> DEFINE opened == [open |-> TRUE, start |-> c, cluster |-> c, held |-> 0, size |-> size,
                      shown |-> <<>>]
<1>6. opened \in OpenFiles /\ opened.size = size /\ opened.cluster = c
  BY <1>1, <1>2, <1>5 DEF OpenFiles
<1>7. file' \in OpenFiles /\ file'.size = size /\ file'.cluster = c
  <2> HIDE DEF opened
  <2>1. file' = opened
    BY <1>3 DEF opened
  <2> QED
    BY <1>6, <2>1, Zenon
<1>8. file'.size = 0 \/ Allocated(file.cluster)'
  BY <1>4, <1>7 DEF Allocated
<1> QED
  BY <1>7, <1>8 DEF Position

LEMMA OpenStep ==
    ASSUME Machine, Idle, NEW n \in CatNames, OpenFile(n), script' = script
    PROVE  Machine'
<1>1. /\ UNCHANGED <<vars, cwd, walk, at, left, volume, boots>>
      /\ cmd' = [op |-> "cat", path |-> <<n>>]
      /\ \/ file' = Closed
         \/ \E e \in Lookup(Root, n) :
               file' = [Closed EXCEPT !.open = TRUE, !.start = e.start, !.cluster = e.start,
                            !.size = IF e.start = 0 THEN 0 ELSE HostSize[e.start]]
  BY DEF OpenFile
<1>2. pc = "idle" /\ walk = "done"
  BY DEF Idle
<1>3. Sound' /\ pc' = pc /\ walk' = walk
  BY <1>1, DiskKept DEF Machine
<1>4. <<n>> \in Paths
  BY VfsAssumption DEF Paths
<1>5. PathTypes'
  BY <1>1, <1>4 DEF Machine, PathTypes
<1>6. Walking'
  BY <1>2, <1>3 DEF Walking
<1>7. Reading'
  <2>1. CASE file' = Closed
    BY <2>1 DEF Reading
  <2>2. CASE file' # Closed
    <3>1. PICK e \in Lookup(Root, n) :
              file' = [Closed EXCEPT !.open = TRUE, !.start = e.start, !.cluster = e.start,
                           !.size = IF e.start = 0 THEN 0 ELSE HostSize[e.start]]
      BY <1>1, <2>2
    <3>2. e.start = 0 \/ Allocated(e.start)
      BY FoundAllocated
    <3>3. Position'
      BY <1>1, <3>1, <3>2, OpenedPosition
    <3> QED
      BY <1>2, <1>3, <3>3 DEF Reading
  <2> QED
    BY <2>1, <2>2
<1> QED
  BY <1>3, <1>5, <1>6, <1>7 DEF Machine

LEMMA ShellCommandStep == Machine /\ ShellCommand => Machine'
<1> SUFFICES ASSUME Machine, ShellCommand PROVE Machine'
  OBVIOUS
<1>1. Idle /\ script' = script /\ script' \in Scripts
  BY DEF ShellCommand, Machine, PathTypes
<1>2. CASE \E p \in CdPaths : Start("cd", p)
  BY <1>1, <1>2, TypedRequest, StartStep
<1>3. CASE \E op \in {"mkdir", "touch", "rm"}, p \in FilePaths : Start(op, p)
  BY <1>1, <1>3, TypedRequest, StartStep
<1>4. CASE \E n \in {Dot, EmptyName} : Start("ls", [abs |-> n = EmptyName, parts |-> <<n>>])
  BY <1>1, <1>4, ListRequest, StartStep
<1>5. CASE \E n \in CatNames : OpenFile(n)
  BY <1>1, <1>5, OpenStep
<1> QED
  BY <1>2, <1>3, <1>4, <1>5 DEF ShellCommand

\* One more sector shown.
Shows(f, g, data) ==
    /\ g.open = f.open /\ g.start = f.start /\ g.size = f.size
    /\ g.shown = Append(f.shown, data)

Fetched(f, g, data, h, c) ==
    g = [f EXCEPT !.shown = Append(@, data), !.held = h, !.cluster = c]

NowAt(g, h, c) == g.held = h /\ g.cluster = c

LEMMA FetchedFile ==
    ASSUME NEW f \in OpenFiles, NEW data \in Places,
           NEW h \in {0} \cup Clusters, NEW c \in Nat, NEW g,
           Fetched(f, g, data, h, c)
    PROVE  /\ g \in OpenFiles /\ Shows(f, g, data)
           /\ NowAt(g, h, c)
<1>1. Append(f.shown, data) \in Seq(Places)
  BY DEF OpenFiles
<1> QED
  BY <1>1 DEF OpenFiles, Shows, Fetched, NowAt

LEMMA CopiedFile ==
    ASSUME NEW f \in OpenFiles, NEW data \in Places, NEW g,
           g = [f EXCEPT !.shown = Append(@, data)]
    PROVE  /\ g \in OpenFiles /\ Shows(f, g, data)
           /\ NowAt(g, f.held, f.cluster)
<1>1. Append(f.shown, data) \in Seq(Places)
  BY DEF OpenFiles
<1> QED
  BY <1>1 DEF OpenFiles, Shows, NowAt

LEMMA OffsetFacts ==
    ASSUME NEW f \in OpenFiles
    PROVE  Len(f.shown) \in Nat /\ Offset(f) \in Nat /\ f.size \in Nat
<1>1. f.shown \in Seq(Places) /\ f.size \in Nat
  BY DEF OpenFiles
<1>2. Len(f.shown) \in Nat
  BY <1>1, LenProperties
<1>3. \A n \in Nat : n % SectorsPerCluster \in Nat
  BY Geometry
<1> QED
  BY <1>1, <1>2, <1>3 DEF Offset

\* What an open file makes certain.
LEMMA OpenFileFacts ==
    ASSUME Machine, file.open
    PROVE  pc = "idle" /\ walk = "done" /\ Position
<1>1. file # Closed
  BY DEF Closed
<1> QED
  BY <1>1 DEF Machine, Reading

LEMMA NextCluster ==
    ASSUME Machine, NEW c, Allocated(c)
    PROVE  /\ c \in Clusters /\ fat[0][c] \in Nat
           /\ is_eoc(fat[0][c]) \/ Allocated(fat[0][c])
  BY ClustersInFat, CopyFacts, EocFacts
     DEF Allocated, Machine, Sound, IInv, DiskType, Volume, LinkedAllocated, ChainsSound

\* A call of fat32_read, with all that is certain before and after it.
Fetches ==
    /\ ToFetch(file) /\ Allocated(file.cluster)
    /\ Shows(file, file', <<file.cluster, 0>>)
    /\ file'.held = file.cluster
    /\ \/ file'.cluster = fat[0][file.cluster]
       \/ file'.cluster = Eoc /\ "refuse" \in Faults

Copies512 ==
    /\ Offset(file) # 0
    /\ Shows(file, file', <<file.held, Offset(file)>>) \/ Shows(file, file', Leftover)
    /\ file'.held = file.held /\ file'.cluster = file.cluster

LEMMA ReadEffect ==
    ASSUME Machine, ReadSector
    PROVE  /\ pc = "idle" /\ walk = "done" /\ Position /\ file' \in OpenFiles
           /\ Fetches \/ Copies512
<1>1. file.open /\ Len(file.shown) < file.size
  BY DEF ReadSector, Unread
<1>2. pc = "idle" /\ walk = "done" /\ Position /\ file \in OpenFiles
  BY <1>1, OpenFileFacts DEF Position
<1>3. Len(file.shown) \in Nat /\ Offset(file) \in Nat /\ file.size \in Nat
  BY <1>2, OffsetFacts
<1>4. is_eoc(file.cluster) \/ Allocated(file.cluster)
  <2>1. file.size # 0
    BY <1>1, <1>3
  <2> QED
    BY <1>2, <2>1 DEF Position
<1>5. ASSUME NEW c \in {fat[0][file.cluster]} \cup (IF "refuse" \in Faults THEN {Eoc} ELSE {}),
             ToFetch(file),
             file' = [file EXCEPT !.shown = Append(@, <<file.cluster, 0>>),
                                !.held = file.cluster, !.cluster = c]
      PROVE  Fetches /\ file' \in OpenFiles
  <2>1. Allocated(file.cluster)
    BY <1>4, <1>5 DEF ToFetch
  <2>2. file.cluster \in Clusters /\ fat[0][file.cluster] \in Nat
    BY <2>1, NextCluster
  <2>3. c \in Nat /\ (c = fat[0][file.cluster] \/ (c = Eoc /\ "refuse" \in Faults))
    BY <1>5, <2>2, EocFacts
  <2>4. file.cluster \in {0} \cup Clusters /\ <<file.cluster, 0>> \in Places
    BY <2>2 DEF Places
  <2>5. /\ file' \in OpenFiles /\ Shows(file, file', <<file.cluster, 0>>)
        /\ NowAt(file', file.cluster, c)
    <3>1. file \in OpenFiles /\ c \in Nat
      BY <1>2, <2>3
    <3>2. Fetched(file, file', <<file.cluster, 0>>, file.cluster, c)
      BY <1>5 DEF Fetched
    <3> QED
      BY <2>4, <3>1, <3>2, FetchedFile
  <2> QED
    BY <1>5, <2>1, <2>3, <2>5 DEF Fetches, NowAt
<1>6. ASSUME NEW data \in {<<file.held, Offset(file)>>, Leftover},
             Offset(file) # 0, file' = [file EXCEPT !.shown = Append(@, data)]
      PROVE  Copies512 /\ file' \in OpenFiles
  <2>1. file.held \in {0} \cup Clusters
    BY <1>2 DEF OpenFiles
  <2>2. data \in Places
    BY <1>3, <2>1 DEF Leftover, Places
  <2>3. /\ file' \in OpenFiles /\ Shows(file, file', data)
        /\ NowAt(file', file.held, file.cluster)
    BY <1>2, <1>6, <2>2, CopiedFile, Zenon
  <2> QED
    BY <1>6, <2>3 DEF Copies512, NowAt
<1> QED
  BY <1>2, <1>5, <1>6 DEF ReadSector

LEMMA ReadStep == Machine /\ ReadSector => Machine'
<1> SUFFICES ASSUME Machine, ReadSector PROVE Machine'
  OBVIOUS
<1>1. UNCHANGED <<vars, cwd, script, cmd, walk, at, left, volume, boots>>
  BY DEF ReadSector, paths
<1>2. /\ pc = "idle" /\ walk = "done" /\ Position /\ file' \in OpenFiles
      /\ Fetches \/ Copies512
  BY ReadEffect
<1>3. Sound' /\ pc' = pc /\ \A c : Allocated(c)' = Allocated(c)
  BY <1>1, DiskKept DEF Machine
<1>4. PathTypes'
  BY <1>1 DEF Machine, PathTypes
<1>5. Position'
  <2>1. CASE Fetches
    <3>1. is_eoc(file'.cluster) \/ Allocated(file'.cluster)
      BY <2>1, NextCluster, EocFacts DEF Fetches, is_eoc
    <3>2. is_eoc(file'.cluster) \/ Allocated(file.cluster)'
      BY <1>1, <3>1 DEF Allocated, vars
    <3> QED
      BY <1>2, <3>2 DEF Position
  <2>2. CASE Copies512
    <3>1. file'.size = file.size /\ file'.cluster = file.cluster
      BY <2>2 DEF Copies512, Shows
    <3>2. file.size = 0 \/ is_eoc(file.cluster) \/ Allocated(file.cluster)
      BY <1>2 DEF Position
    <3>3. file'.size = 0 \/ is_eoc(file'.cluster) \/ Allocated(file.cluster)'
      BY <1>1, <3>1, <3>2 DEF Allocated, vars
    <3> QED
      BY <1>2, <3>3 DEF Position
  <2> QED
    BY <1>2, <2>1, <2>2
<1>6. pc' = "idle" /\ walk' = "done"
  BY <1>1, <1>2, <1>3
<1> QED
  BY <1>3, <1>4, <1>5, <1>6 DEF Machine, Walking, Reading

LEMMA CloseStep == Machine /\ CloseFile => Machine'
<1> SUFFICES ASSUME Machine, CloseFile PROVE Machine'
  OBVIOUS
<1>1. /\ UNCHANGED <<vars, cwd, script, cmd, walk, at, left, volume, boots>>
      /\ file.open /\ file' = Closed
  BY DEF CloseFile, paths
<1>2. walk' = "done"
  BY <1>1, OpenFileFacts
<1>3. Sound'
  BY <1>1, DiskKept DEF Machine
<1>4. PathTypes'
  BY <1>1 DEF Machine, PathTypes
<1> QED
  BY <1>1, <1>2, <1>3, <1>4 DEF Machine, Walking, Reading

\* While a call is running no walk is, and no file is open.
LEMMA Fat32StepStep ==
    ASSUME Machine, Fat32Step
    PROVE  Machine' /\ Next
<1>1. /\ Step \/ TransferRefused \/ PutLost
      /\ UNCHANGED <<cwd, script, cmd, walk, at, left, file, volume, boots>>
  BY DEF Fat32Step, vfs, paths
<1>2. pc # "idle"
  BY <1>1 DEF Step, TransferRefused, PutLost, Alloc, AllocFull, MarkFat, Fill, FillBeyond, ScanFinds,
              ScanNext, SeekFinds, SeekEnds, SeekNext, Put
<1>3. walk # "at work" /\ file = Closed
  BY <1>2 DEF Machine, Walking, Reading
<1>4. Next
  BY <1>1 DEF Next
<1>5. Sound'
  BY <1>4, NextSound DEF Machine
<1>6. PathTypes'
  BY <1>1 DEF Machine, PathTypes
<1>7. Walking' /\ Reading'
  BY <1>1, <1>3 DEF Walking, Reading
<1> QED
  BY <1>4, <1>5, <1>6, <1>7 DEF Machine

LEMMA PowerStep ==
    ASSUME Machine, PowerCycle
    PROVE  Machine' /\ [Next]_vars
<1>1. /\ volume' \in Disks /\ cwd' = AtTop(volume') /\ script' = BootScript
      /\ cmd' = NoCmd /\ walk' = "done" /\ at' = RootOn(volume') /\ left' = <<>>
      /\ file' = Closed /\ boots' = boots + 1 /\ boots < MaxBoots
  BY DEF PowerCycle
<1>2. [Next]_vars
  BY DEF PowerCycle, Next
<1>3. Sound'
  BY <1>2, NextSound DEF Machine
<1>4. Top \in Paths
  BY SpecialNames DEF Top, Paths
<1>5. RootOn(volume') \in {0} \cup Clusters
  BY Geometry DEF RootOn
<1>6. BootScript \in Scripts
  <2>1. BootScript = SubSeq(BootScript, 1, 4)
    BY DEF BootScript
  <2> QED
    BY <2>1 DEF Scripts
<1>7. boots' \in 1 .. MaxBoots
  <2>1. boots \in 1 .. MaxBoots /\ MaxBoots \in Nat
    BY VfsAssumption DEF Machine, PathTypes
  <2>2. boots' = boots + 1 /\ boots < MaxBoots
    BY <1>1
  <2> QED
    BY <2>1, <2>2
<1>8. cwd' \in [cluster : {0} \cup Clusters, path : Paths]
  BY <1>1, <1>4, <1>5 DEF AtTop
<1>9. PathTypes'
  BY <1>1, <1>4, <1>5, <1>6, <1>7, <1>8 DEF NoCmd, PathTypes
<1>10. Walking' /\ Reading'
  BY <1>1 DEF Walking, Reading
<1> QED
  BY <1>2, <1>3, <1>9, <1>10 DEF Machine

-----------------------------------------------------------------------------
(* Every step                                                               *)

LEMMA KernelStep ==
    ASSUME Machine, Kernel
    PROVE  Machine' /\ [Next]_vars
<1>1. CASE CallFat32
  BY <1>1, CallStep, CallIsNext
<1>2. CASE ~CallFat32
  <2>1. UNCHANGED vars
    BY <1>2 DEF Kernel, BootCommand, Start, WalkUp, WalkStay, WalkDown, WalkFails,
                ChangeDirectory, List, CallFails, ReadSector, CloseFile
  <2>2. Machine'
    BY <1>2, BootCommandStep, WalkUpStep, WalkOtherStep, WalkDownStep, ChangeStep,
       ListStep, ReadStep, CloseStep DEF Kernel
  <2> QED
    BY <2>1, <2>2
<1> QED
  BY <1>1, <1>2

LEMMA NextMachine ==
    ASSUME Machine, [VfsNext]_allvars
    PROVE  Machine' /\ [Next]_vars
<1>1. CASE Kernel
  BY <1>1, KernelStep
<1>2. CASE ShellCommand
  <2>1. UNCHANGED vars
    BY <1>2 DEF ShellCommand, Start, OpenFile
  <2> QED
    BY <1>2, <2>1, ShellCommandStep
<1>3. CASE Fat32Step
  BY <1>3, Fat32StepStep
<1>4. CASE PowerCycle
  BY <1>4, PowerStep
<1>5. CASE UNCHANGED allvars
  <2>1. UNCHANGED <<vars, cwd, script, cmd, walk, at, left, file, volume, boots>>
    BY <1>5 DEF allvars, vfs, paths
  <2>2. Sound' /\ Rooted' = Rooted /\ pc' = pc
    BY <2>1, DiskKept DEF Machine
  <2>3. PathTypes'
    BY <2>1 DEF Machine, PathTypes
  <2>4. Walking'
    BY <2>1, <2>2 DEF Machine, Walking
  <2>5. Reading'
    <3>1. Position => Position'
      BY <2>1 DEF Position, Allocated, vars
    <3> QED
      BY <2>1, <2>2, <3>1 DEF Machine, Reading
  <2> QED
    BY <2>1, <2>2, <2>3, <2>4, <2>5 DEF Machine
<1> QED
  BY <1>1, <1>2, <1>3, <1>4, <1>5 DEF VfsNext

\* The inductive invariant of the machine, with that of Fat32 in it.
THEOREM MachineInvariance == VfsSpec => []Machine
<1>1. Machine /\ [VfsNext]_allvars => Machine'
  BY NextMachine
<1> QED
  BY <1>1, InitMachine, PTL DEF VfsSpec

\* Types, and that a walk is always in a directory that a call can be made on, or
\* on the 0 a host writes for the root: whatever is typed, whatever ".." entries
\* the host has written or the user has made or removed, however often power
\* fails (navigate_path, vfs.c:130-228).
THEOREM WalksAreInDirectories == VfsSpec => []VfsTypeOK
<1>1. ASSUME Machine PROVE VfsTypeOK
  <2>1. TypeOK
    BY <1>1 DEF Machine, Sound, IInv, DiskType, LocalType, TypeOK
  <2>2. walk = "at work" => at \in {0} \cup Callable
    BY <1>1, RootedCallable DEF Machine, Walking, Sound, IInv
  <2>3. file.open => {file.start, file.held} \subseteq {0} \cup Clusters
    BY <1>1, OpenFileFacts DEF Position, OpenFiles
  <2> QED
    BY <1>1, <2>1, <2>2, <2>3 DEF Machine, PathTypes, Scripts, Paths, VfsTypeOK
<1> QED
  BY <1>1, MachineInvariance, PTL

\* ".." finds the way back (fat32.c:455-482, vfs.c:176-189).
THEOREM DotDotsLeadUp == VfsSpec => []DotDotsLead
<1>1. Machine => DotDotsLead
  BY DEF Machine, Sound
<1> QED
  BY <1>1, MachineInvariance, PTL

\* The machine uses Fat32 as Fat32 may be used: one call at a time, on directories
\* only, with names that can be typed (vfs.c:230-315).
THEOREM MachineUsesFat32 == VfsSpec => UsesFat32
<1>1. Machine /\ [VfsNext]_allvars => [Next]_vars
  BY NextMachine
<1>2. VfsInit => Init
  BY DEF VfsInit
<1> QED
  BY <1>1, <1>2, MachineInvariance, PTL DEF VfsSpec, UsesFat32

\* So the volume stays sound in the machine as well, through every command, every
\* failure and every power cycle.
THEOREM MachineKeepsVolume == VfsSpec =>
               [](/\ LinkedAllocated /\ NoCrossLink /\ DirsInitialised
                  /\ NoEntryPastEnd /\ MirrorLag)
<1>1. Machine => /\ LinkedAllocated /\ NoCrossLink /\ DirsInitialised
                 /\ NoEntryPastEnd /\ MirrorLag
  BY DEF Machine, Sound, IInv, Volume
<1> QED
  BY <1>1, MachineInvariance, PTL

\* And no command touches what it was not asked to; or says "ok" with more of its
\* effect missing than the write of the very last sector, the one the driver can lose
\* without telling (ata.c:118-121).
THEOREM MachineKeepsPromises == VfsSpec => AllocatedKept /\ OkMeansWritten
<1>1. Machine /\ [VfsNext]_allvars => [KeepsAllocated]_vars /\ [OkWritten]_vars
  BY NextMachine, StepKeeps, OkStep DEF Machine, Sound
<1>2. VfsSpec => [][KeepsAllocated]_vars /\ [][OkWritten]_vars
  BY <1>1, MachineInvariance, PTL DEF VfsSpec
<1> QED
  BY <1>2 DEF AllocatedKept, OkMeansWritten, OkWritten, LastWritten

-----------------------------------------------------------------------------
(* What cat shows                                                           *)

LEMMA NthSteps ==
    ASSUME NEW head
    PROVE  /\ NthCluster(head, 0) = head
           /\ \A n \in Nat : NthCluster(head, n + 1) = fat[0][NthCluster(head, n)]
<1> DEFINE iter == CHOOSE nth : nth = [k \in Nat |-> IF k = 0 THEN head ELSE fat[0][nth[k - 1]]]
<1>1. PICK r : OrbitOf(r, fat[0], head)
  BY Orbit
<1>2. iter = [k \in Nat |-> IF k = 0 THEN head ELSE fat[0][iter[k - 1]]]
  BY <1>1, Zenon DEF OrbitOf
<1>3. \A n : NthCluster(head, n) = iter[n]
  BY DEF NthCluster
<1> HIDE DEF iter
<1>4. PICK e : e = [k \in Nat |-> IF k = 0 THEN head ELSE fat[0][iter[k - 1]]]
  OBVIOUS
<1>5. \A k \in Nat : e[k] = IF k = 0 THEN head ELSE fat[0][iter[k - 1]]
  BY <1>4
<1>6. \A k \in Nat : iter[k] = IF k = 0 THEN head ELSE fat[0][iter[k - 1]]
  BY <1>2, <1>4, <1>5
<1>7. \A n \in Nat : n + 1 \in Nat /\ n + 1 # 0 /\ (n + 1) - 1 = n
  OBVIOUS
<1> QED
  BY <1>3, <1>6, <1>7

\* Position n + 1 of a file is the next sector of the cluster of position n, or the
\* first one of the next cluster.
LEMMA NextPosition ==
    ASSUME NEW n \in Nat
    PROVE  /\ n % SectorsPerCluster \in Nat /\ n \div SectorsPerCluster \in Nat
           /\ \/ /\ (n + 1) % SectorsPerCluster = 0
                 /\ (n + 1) \div SectorsPerCluster = n \div SectorsPerCluster + 1
              \/ /\ (n + 1) % SectorsPerCluster # 0
                 /\ (n + 1) \div SectorsPerCluster = n \div SectorsPerCluster
<1> DEFINE S == SectorsPerCluster
           q == n \div S
           o == n % S
           p == (n + 1) \div S
           u == (n + 1) % S
<1>1. S \in Nat /\ S > 0
  BY Geometry
<1>2. /\ q \in Int /\ o \in 0 .. S - 1 /\ n = S * q + o
      /\ p \in Int /\ u \in 0 .. S - 1 /\ n + 1 = S * p + u
  BY <1>1
<1> HIDE DEF S, q, o, p, u
<1>3. q >= 0
  BY <1>1, <1>2
<1>4. S * p - S * q = o + 1 - u
  BY <1>1, <1>2
<1>5. p >= q
  <2> SUFFICES ASSUME p <= q - 1 PROVE FALSE
    BY <1>2
  <2>1. S * p <= S * (q - 1)
    BY <1>1, <1>2
  <2>2. S * (q - 1) = S * q - S
    BY <1>1, <1>2
  <2> QED
    BY <1>1, <1>2, <1>4, <2>1, <2>2
<1>6. p <= q + 1
  <2> SUFFICES ASSUME p >= q + 2 PROVE FALSE
    BY <1>2
  <2>1. S * p >= S * (q + 2)
    BY <1>1, <1>2
  <2>2. S * (q + 2) = S * q + S + S
    BY <1>1, <1>2
  <2> QED
    BY <1>1, <1>2, <1>4, <2>1, <2>2
<1>7. CASE p = q
  BY <1>1, <1>2, <1>3, <1>4, <1>7 DEF S, q, o, p, u
<1>8. CASE p = q + 1
  <2>1. S * p = S * q + S
    BY <1>1, <1>2, <1>8
  <2>2. u = 0
    BY <1>1, <1>2, <1>4, <2>1
  <2> QED
    BY <1>2, <1>3, <1>8, <2>2 DEF S, q, o, p, u
<1> QED
  BY <1>2, <1>5, <1>6, <1>7, <1>8

\* A sector that cat shows in its place, or what is left inside a cluster.
SectorRight(f, i) ==
    \/ f.shown[i] = <<NthCluster(f.start, (i - 1) \div SectorsPerCluster),
                      (i - 1) % SectorsPerCluster>>
    \/ f.shown[i] = Leftover /\ (i - 1) % SectorsPerCluster # 0

\* Next to be read is the next cluster of the chain, or nothing after an error; in
\* the middle of a cluster, that one is the one read last.
CutShort(f) == f.cluster = Eoc /\ "refuse" \in Faults

ReadTo(f) ==
    LET n == Len(f.shown)
        q == n \div SectorsPerCluster
    IN  /\ n <= f.size
        /\ \A i \in 1 .. n : SectorRight(f, i)
        /\ Offset(f) = 0 => f.cluster = NthCluster(f.start, q) \/ CutShort(f)
        /\ Offset(f) # 0 =>
               /\ f.held = NthCluster(f.start, q)
               /\ f.cluster = NthCluster(f.start, q + 1) \/ CutShort(f)

\* The sectors shown so far stay, and the new one comes after them.
LEMMA ShowsMore ==
    ASSUME NEW f \in OpenFiles, NEW g, NEW data, Shows(f, g, data)
    PROVE  /\ Len(g.shown) = Len(f.shown) + 1
           /\ \A i \in 1 .. Len(f.shown) : SectorRight(f, i) => SectorRight(g, i)
           /\ g.shown[Len(f.shown) + 1] = data /\ g.start = f.start /\ g.size = f.size
<1>1. f.shown \in Seq(Places) /\ g.shown = Append(f.shown, data)
  BY DEF OpenFiles, Shows
<1>2. /\ Len(g.shown) = Len(f.shown) + 1 /\ g.shown[Len(f.shown) + 1] = data
      /\ \A i \in 1 .. Len(f.shown) : g.shown[i] = f.shown[i]
  BY <1>1
<1> QED
  BY <1>2 DEF Shows, SectorRight

LEMMA ReadOn ==
    ASSUME Machine, ReadSector, ReadTo(file)
    PROVE  ReadTo(file')
<1>1. /\ file \in OpenFiles /\ Len(file.shown) < file.size
      /\ Fetches \/ Copies512
  BY ReadEffect DEF ReadSector, Unread, Position
<1> DEFINE n == Len(file.shown)
           q == n \div SectorsPerCluster
           m == Len(file'.shown)
<1>2. n \in Nat /\ file.size \in Nat /\ n + 1 \in Nat /\ (n + 1) - 1 = n
  BY <1>1, OffsetFacts
<1>3. /\ n % SectorsPerCluster \in Nat /\ q \in Nat
      /\ \/ /\ (n + 1) % SectorsPerCluster = 0
            /\ (n + 1) \div SectorsPerCluster = q + 1
         \/ /\ (n + 1) % SectorsPerCluster # 0
            /\ (n + 1) \div SectorsPerCluster = q
  BY <1>2, NextPosition
<1>4. NthCluster(file.start, q + 1) = fat[0][NthCluster(file.start, q)]
  BY <1>3, NthSteps
<1>5. ASSUME NEW data, Shows(file, file', data),
             \/ data = <<NthCluster(file.start, q), n % SectorsPerCluster>>
             \/ data = Leftover /\ n % SectorsPerCluster # 0
      PROVE  /\ m = n + 1 /\ m <= file'.size
             /\ \A i \in 1 .. m : SectorRight(file', i)
  <2>1. /\ m = n + 1
        /\ \A i \in 1 .. n : SectorRight(file, i) => SectorRight(file', i)
        /\ file'.shown[n + 1] = data /\ file'.start = file.start /\ file'.size = file.size
    <3> HIDE DEF n, m
    <3> QED
      BY <1>1, <1>5, ShowsMore DEF n, m
  <2>2. SectorRight(file', n + 1)
    BY <1>2, <1>5, <2>1 DEF SectorRight
  <2>3. \A i \in 1 .. n : SectorRight(file', i)
    BY <2>1 DEF ReadTo
  <2>4. \A i \in 1 .. n + 1 : i \in 1 .. n \/ i = n + 1
    BY <1>2
  <2>5. n + 1 <= file.size
    BY <1>1, <1>2
  <2> HIDE DEF n, m
  <2> QED
    BY <2>1, <2>2, <2>3, <2>4, <2>5
<1>6. CASE Fetches
  <2>1. /\ Offset(file) = 0 /\ Allocated(file.cluster) /\ ~is_eoc(file.cluster)
        /\ Shows(file, file', <<file.cluster, 0>>)
        /\ file'.held = file.cluster /\ file'.start = file.start
        /\ \/ file'.cluster = fat[0][file.cluster]
           \/ CutShort(file')
    BY <1>6 DEF Fetches, ToFetch, CutShort, Shows
  <2>2. file.cluster = NthCluster(file.start, q)
    <3>1. ~CutShort(file)
      BY <2>1, EocFacts DEF CutShort, is_eoc
    <3> QED
      BY <2>1, <3>1 DEF ReadTo
  <2>3. n % SectorsPerCluster = 0
    BY <2>1 DEF Offset
  <2>4. /\ m = n + 1 /\ m <= file'.size
        /\ \A i \in 1 .. m : SectorRight(file', i)
    BY <1>5, <2>1, <2>2, <2>3
  <2>5. file'.cluster = NthCluster(file'.start, q + 1) \/ CutShort(file')
    BY <1>4, <2>1, <2>2
  <2>6. file'.held = NthCluster(file'.start, q)
    BY <2>1, <2>2
  <2> HIDE DEF n, m, q
  <2> QED
    BY <1>3, <2>4, <2>5, <2>6 DEF ReadTo, Offset, m
<1>7. CASE Copies512
  <2>1. /\ Offset(file) # 0
        /\ \/ Shows(file, file', <<file.held, Offset(file)>>)
           \/ Shows(file, file', Leftover)
        /\ file'.held = file.held /\ file'.cluster = file.cluster /\ file'.start = file.start
    BY <1>7 DEF Copies512, Shows
  <2>2. /\ file.held = NthCluster(file.start, q)
        /\ file.cluster = NthCluster(file.start, q + 1) \/ CutShort(file)
    BY <2>1 DEF ReadTo
  <2>3. Offset(file) = n % SectorsPerCluster
    BY DEF Offset
  <2>4. /\ m = n + 1 /\ m <= file'.size
        /\ \A i \in 1 .. m : SectorRight(file', i)
    BY <1>5, <2>1, <2>2, <2>3
  <2>5. /\ file'.held = NthCluster(file'.start, q)
        /\ file'.cluster = NthCluster(file'.start, q + 1) \/ CutShort(file')
    BY <2>1, <2>2 DEF CutShort
  <2> HIDE DEF n, m, q
  <2> QED
    BY <1>3, <2>4, <2>5 DEF ReadTo, Offset, m
<1> QED
  BY <1>1, <1>6, <1>7

\* The chain a file is read along stays as it is while it is open.
LEMMA DiskRead ==
    ASSUME fat' = fat, NEW f, f = file', ReadTo(f)
    PROVE  ReadTo(file)'
<1>1. \A c, n : NthCluster(c, n)' = NthCluster(c, n)
  BY DEF NthCluster
<1>2. \A i \in 1 .. Len(f.shown) : SectorRight(f, i) => SectorRight(file, i)'
  BY <1>1 DEF SectorRight
<1>3. (1 .. Len(file.shown))' = 1 .. Len(f.shown)
  OBVIOUS
<1> QED
  BY <1>1, <1>2, <1>3 DEF ReadTo, Offset, CutShort

ReadsOn == file.open => ReadTo(file)

LEMMA OpenedReads ==
    ASSUME NEW c, c = 0 \/ c \in Clusters,
           file' = [Closed EXCEPT !.open = TRUE, !.start = c, !.cluster = c,
                        !.size = IF c = 0 THEN 0 ELSE HostSize[c]]
    PROVE  ReadTo(file')
<1> DEFINE size == IF c = 0 THEN 0 ELSE HostSize[c]
<1>1. size \in Nat
  BY VfsAssumption
<1> HIDE DEF size
<1>2. /\ file' = [open |-> TRUE, start |-> c, cluster |-> c, held |-> 0, size |-> size,
                  shown |-> <<>>]
  BY DEF Closed, size
<1>3. file'.size = size /\ file'.start = c /\ file'.cluster = c /\ file'.shown = <<>>
  <2> DEFINE opened == [open |-> TRUE, start |-> c, cluster |-> c, held |-> 0, size |-> size,
                        shown |-> <<>>]
  <2>1. /\ opened.size = size /\ opened.start = c /\ opened.cluster = c
        /\ opened.shown = <<>>
    OBVIOUS
  <2>2. file' = opened
    BY <1>2
  <2> HIDE DEF opened
  <2> QED
    BY <2>1, <2>2, Zenon
<1>4. Len(<<>>) = 0 /\ 1 .. 0 = {} /\ 0 <= size
  BY <1>1
<1>5. 0 % SectorsPerCluster = 0 /\ 0 \div SectorsPerCluster = 0
  BY Geometry
<1>6. NthCluster(c, 0) = c
  BY NthSteps
<1> QED
  BY <1>3, <1>4, <1>5, <1>6 DEF ReadTo, Offset

LEMMA OpenReads ==
    ASSUME Machine, NEW n \in CatNames, OpenFile(n)
    PROVE  ReadsOn'
<1>1. /\ UNCHANGED vars
      /\ \/ file' = Closed
         \/ \E e \in Lookup(Root, n) :
               file' = [Closed EXCEPT !.open = TRUE, !.start = e.start, !.cluster = e.start,
                            !.size = IF e.start = 0 THEN 0 ELSE HostSize[e.start]]
  BY DEF OpenFile
<1>2. CASE file' = Closed
  BY <1>2 DEF ReadsOn, Closed
<1>3. CASE file' # Closed
  <2>1. PICK e \in Lookup(Root, n) :
            file' = [Closed EXCEPT !.open = TRUE, !.start = e.start, !.cluster = e.start,
                         !.size = IF e.start = 0 THEN 0 ELSE HostSize[e.start]]
    BY <1>1, <1>3
  <2>2. e.start = 0 \/ e.start \in Clusters
    BY FoundAllocated DEF Allocated
  <2>3. ReadTo(file')
    BY <2>1, <2>2, OpenedReads
  <2>4. fat' = fat
    BY <1>1 DEF vars
  <2> QED
    BY <2>3, <2>4, DiskRead DEF ReadsOn
<1> QED
  BY <1>2, <1>3

\* What every other step does: an open file it leaves alone, with the disk, or closes.
LEMMA OtherSteps ==
    ASSUME Machine, [VfsNext]_allvars, ~ReadSector, \A n \in CatNames : ~OpenFile(n)
    PROVE  \/ file' = Closed
           \/ file' = file /\ (file.open => fat' = fat)
<1>1. file.open => pc = "idle" /\ walk = "done"
  BY OpenFileFacts
<1>2. file = Closed => ~file.open
  BY DEF Closed
<1>3. CASE Kernel
  <2>1. CASE BootCommand \/ WalkUp \/ WalkStay \/ WalkDown \/ WalkFails
             \/ ChangeDirectory \/ List \/ CallFails
    BY <2>1 DEF BootCommand, Start, WalkUp, WalkStay, WalkDown, WalkFails, ChangeDirectory,
                List, CallFails, vars
  <2>2. CASE CallFat32
    <3>1. walk = "at work" /\ file' = file
      BY <2>2 DEF CallFat32, Arrived
    <3> QED
      BY <1>1, <3>1
  <2>3. CASE CloseFile
    BY <2>3 DEF CloseFile
  <2> QED
    BY <1>3, <2>1, <2>2, <2>3 DEF Kernel
<1>4. CASE ShellCommand
  BY <1>4 DEF ShellCommand, Start, vars
<1>5. CASE Fat32Step
  <2>1. (Step \/ TransferRefused \/ PutLost) /\ file' = file
    BY <1>5 DEF Fat32Step, vfs
  <2>2. pc # "idle"
    BY <2>1 DEF Step, TransferRefused, PutLost, Alloc, AllocFull, MarkFat, Fill, FillBeyond,
                ScanFinds, ScanNext, SeekFinds, SeekEnds, SeekNext, Put
  <2> QED
    BY <1>1, <2>1, <2>2
<1>6. CASE PowerCycle
  BY <1>6 DEF PowerCycle
<1>7. CASE UNCHANGED allvars
  BY <1>7 DEF allvars, vfs, vars
<1> QED
  BY <1>3, <1>4, <1>5, <1>6, <1>7 DEF VfsNext

LEMMA NextReads ==
    ASSUME Machine, ReadsOn, [VfsNext]_allvars
    PROVE  ReadsOn'
<1>1. CASE ReadSector
  <2>1. file.open /\ fat' = fat
    BY <1>1 DEF ReadSector, Unread, vars
  <2>2. ReadTo(file')
    BY <1>1, <2>1, ReadOn DEF ReadsOn
  <2> QED
    BY <2>1, <2>2, DiskRead DEF ReadsOn
<1>2. CASE \E n \in CatNames : OpenFile(n)
  BY <1>2, OpenReads
<1>3. CASE ~ReadSector /\ \A n \in CatNames : ~OpenFile(n)
  <2>1. \/ file' = Closed
        \/ file' = file /\ (file.open => fat' = fat)
    BY <1>3, OtherSteps
  <2>2. CASE file' = Closed
    BY <2>2 DEF ReadsOn, Closed
  <2>3. CASE file' = file /\ (file.open => fat' = fat)
    BY <2>3, DiskRead DEF ReadsOn
  <2> QED
    BY <2>1, <2>2, <2>3
<1> QED
  BY <1>1, <1>2, <1>3

\* The action cat must not get wrong: at its end it has gone along the chain, and all
\* the file has been shown, or all its chain has, or a transfer has failed.
CatShows == FileClosed => InChainOrder /\ ShownToTheEnd

LEMMA ClosedIsRead ==
    ASSUME Machine, ReadsOn, [VfsNext]_allvars
    PROVE  CatShows
<1> SUFFICES ASSUME file.open, ~file'.open, boots' = boots
             PROVE  /\ \A i \in DOMAIN file.shown : SectorRight(file, i)
                    /\ \/ Len(file.shown) = file.size \/ "refuse" \in Faults
                       \/ is_eoc(NthCluster(file.start, Len(file.shown) \div SectorsPerCluster))
  BY DEF CatShows, FileClosed, InChainOrder, ShownToTheEnd, SectorRight, SectorOfFile
<1>1. ReadTo(file) /\ file \in OpenFiles /\ walk = "done" /\ pc = "idle"
  BY OpenFileFacts DEF ReadsOn, Position
<1>2. /\ file.shown \in Seq(Places) /\ DOMAIN file.shown = 1 .. Len(file.shown)
      /\ Len(file.shown) \in Nat /\ file.size \in Nat
  BY <1>1, OffsetFacts DEF OpenFiles
<1>3. \A i \in DOMAIN file.shown : SectorRight(file, i)
  BY <1>1, <1>2 DEF ReadTo
<1>4. CloseFile
  <2>1. file' # file /\ file # Closed
    BY DEF Closed
  <2>2. ~Kernel \/ CloseFile \/ ReadSector
    BY <1>1, <2>1 DEF Kernel, BootCommand, Idle, Start, WalkUp, WalkStay, WalkDown, WalkFails,
                 ChangeDirectory, List, CallFails, CallFat32
  <2>3. ~ReadSector
    <3>1. ReadSector => file'.open = file.open
      BY ReadEffect DEF Fetches, Copies512, Shows
    <3> QED
      BY <3>1
  <2>4. ~ShellCommand /\ ~Fat32Step /\ UNCHANGED allvars => file' = file
    BY DEF allvars, vfs
  <2>5. ~ShellCommand
    BY <2>1 DEF ShellCommand, Idle
  <2>6. ~Fat32Step
    BY <2>1 DEF Fat32Step, vfs
  <2>7. ~PowerCycle
    <3>1. boots \in 1 .. MaxBoots /\ MaxBoots \in Nat
      BY VfsAssumption DEF Machine, PathTypes
    <3>2. boots + 1 # boots
      BY <3>1
    <3> QED
      BY <3>2 DEF PowerCycle
  <2> QED
    BY <2>1, <2>2, <2>3, <2>4, <2>5, <2>6, <2>7 DEF VfsNext
<1>5. CASE ~Unread(file)
  <2>1. ~(Len(file.shown) < file.size) /\ Len(file.shown) <= file.size
    BY <1>1, <1>5 DEF Unread, ReadTo
  <2>2. Len(file.shown) = file.size
    BY <1>2, <2>1
  <2> QED
    BY <1>3, <2>2
<1>6. CASE Unread(file)
  <2>1. Offset(file) = 0 /\ (~ToFetch(file) \/ "refuse" \in Faults)
    BY <1>4, <1>6 DEF CloseFile
  <2>2. is_eoc(file.cluster) \/ "refuse" \in Faults
    BY <2>1 DEF ToFetch
  <2>3. file.cluster = NthCluster(file.start, Len(file.shown) \div SectorsPerCluster)
        \/ "refuse" \in Faults
    BY <1>1, <2>1 DEF ReadTo, CutShort
  <2> QED
    BY <1>3, <2>2, <2>3
<1> QED
  BY <1>5, <1>6

\* The machine's files are read as far as ReadsOn says, and cat closes them then.
LEMMA ReadsInvariance == VfsSpec => [](Machine /\ ReadsOn) /\ [][CatShows]_allvars
<1>1. VfsInit => ReadsOn
  BY DEF VfsInit, ReadsOn, Closed
<1>2. Machine /\ ReadsOn /\ [VfsNext]_allvars => ReadsOn' /\ [CatShows]_allvars
  BY NextReads, ClosedIsRead
<1> QED
  BY <1>1, <1>2, MachineInvariance, PTL DEF VfsSpec

\* cat goes along the chain to the end of the file or of the chain, for every chain
\* and every number of sectors in a cluster: it shows the first sector of every
\* cluster in its place.  Of the other sectors it says only that nothing of another
\* place is shown for them: they may be leftovers (fat32.c:255-299, commands.c:61-76).
THEOREM CatGoesAlong == VfsSpec => CatFollowsChain
  BY ReadsInvariance, PTL DEF CatFollowsChain, CatShows

\* Where a cluster is one sector, cat does what it should: every call of fat32_read
\* starts a cluster then, and fills its array (fat32.c:257-266).
THEOREM CatWholeIfOneSector ==
    ASSUME SectorsPerCluster = 1
    PROVE  VfsSpec => CatShowsFile
<1>1. Machine /\ ReadsOn /\ CatShows =>
          (FileClosed => \A i \in DOMAIN file.shown : file.shown[i] = SectorOfFile(i))
  <2> SUFFICES ASSUME Machine, ReadsOn, CatShows, FileClosed, NEW i \in DOMAIN file.shown
               PROVE  file.shown[i] = SectorOfFile(i)
    OBVIOUS
  <2>1. DOMAIN file.shown = 1 .. Len(file.shown) /\ Len(file.shown) \in Nat
    <3>1. file \in OpenFiles
      BY OpenFileFacts DEF FileClosed, Position, ReadsOn
    <3> QED
      BY <3>1, OffsetFacts DEF OpenFiles
  <2>2. (i - 1) % SectorsPerCluster = 0
    <3>1. i - 1 \in Nat
      BY <2>1
    <3> QED
      BY <3>1
  <2> QED
    BY <2>2 DEF CatShows, InChainOrder
<1>2. VfsSpec => [][FileClosed =>
          \A i \in DOMAIN file.shown : file.shown[i] = SectorOfFile(i)]_allvars
  BY <1>1, ReadsInvariance, PTL
<1> QED
  BY <1>2 DEF CatShowsFile
=============================================================================
