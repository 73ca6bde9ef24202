----------------------------- MODULE ChainProofs -----------------------------
(***************************************************************************)
(* Chains of clusters: Chain of Fat32 is the least set that has its first  *)
(* cluster and is closed under the FAT, and what follows from that for the *)
(* searches of a call: a call that says "ok" has written what it was for.  *)
(***************************************************************************)
EXTENDS Fat32Proofs, Recursion

\* S is closed under the FAT f.
ClosedUnder(f, S) == \A c \in S : f[c] \in Clusters => f[c] \in S

-----------------------------------------------------------------------------
(* Chain is the closure of one cluster                                      *)

\* What reach is to satisfy in the definition of Chain.
Reaches(r, f, p) ==
    /\ r[0] = {p}
    /\ \A n \in Nat : r[n] \subseteq Clusters
    /\ \A n \in Nat : r[n + 1] = r[n] \cup ({f[c] : c \in r[n]} \cap Clusters)

LEMMA ChainReaches ==
    ASSUME NEW f, NEW p \in Clusters
    PROVE  \E r : Reaches(r, f, p) /\ Chain(f, p) = r[LastCluster]
<1> DEFINE V == SUBSET Clusters
           next(S) == S \cup ({f[c] : c \in S} \cap Clusters)
           step == [n \in Nat |-> [S \in V |-> next(S)]]
           body(g, n) == IF n = 0 THEN {p} ELSE next(g[n - 1])
<1>1. PICK r : Iterates(r, V, {p}, step)
  <2>1. \A S \in V : next(S) \in V
    OBVIOUS
  <2>2. {p} \in V
    OBVIOUS
  <2>3. IsStep(step, V)
    <3> HIDE DEF V, next
    <3> QED
      BY <2>1 DEF IsStep
  <2> HIDE DEF V, step
  <2> QED
    BY <2>2, <2>3, Iteration
<1>2. ASSUME NEW n \in Nat
      PROVE  r[n] \in V /\ r[n + 1] = next(r[n])
  <2> HIDE DEF V, next
  <2> QED
    BY <1>1 DEF Iterates
<1>3. r = [n \in Nat |-> body(r, n)]
  <2>1. ASSUME NEW n \in Nat
        PROVE  r[n] = body(r, n)
    <3>1. CASE n = 0
      BY <1>1, <3>1 DEF Iterates
    <3>2. CASE n # 0
      <4>1. n - 1 \in Nat /\ (n - 1) + 1 = n
        BY <3>2
      <4> HIDE DEF next
      <4> QED
        BY <4>1, <1>2, <3>2
    <3> QED
      BY <3>1, <3>2
  <2> HIDE DEF body, V, step
  <2> QED
    BY <2>1, <1>1 DEF Iterates
<1> DEFINE reach == CHOOSE g : g = [n \in Nat |-> body(g, n)]
<1>4. reach = [n \in Nat |-> body(reach, n)]
  <2> HIDE DEF body
  <2> QED
    BY <1>3
<1>5. reach = r
  <2> HIDE DEF reach
  <2> DEFINE T == {n \in Nat : reach[n] = r[n]}
  <2>1. 0 \in T
    BY <1>3, <1>4
  <2>2. ASSUME NEW n \in Nat, n \in T
        PROVE  n + 1 \in T
    <3>1. reach[n + 1] = next(reach[n])
      <4>1. n + 1 \in Nat /\ n + 1 # 0 /\ (n + 1) - 1 = n
        OBVIOUS
      <4>2. reach[n + 1] = body(reach, n + 1)
        <5> HIDE DEF body
        <5> QED
          BY <4>1, <1>4
      <4> HIDE DEF next
      <4> QED
        BY <4>1, <4>2
    <3>2. r[n + 1] = next(r[n])
      BY <1>2
    <3> HIDE DEF next
    <3> QED
      BY <2>2, <3>1, <3>2
  <2> HIDE DEF T
  <2>3. Nat \subseteq T
    BY <2>1, <2>2, Induction
  <2>4. \A n \in Nat : reach[n] = r[n]
    BY <2>3 DEF T
  <2> HIDE DEF body
  <2> QED
    BY <2>4, <1>3, <1>4
<1>6. Chain(f, p) = r[LastCluster]
  BY <1>5 DEF Chain
<1>7. Reaches(r, f, p)
  BY <1>1, <1>2 DEF Reaches, Iterates
<1> QED
  BY <1>6, <1>7

LEMMA ClustersFinite ==
    IsFiniteSet(Clusters) /\ Cardinality(Clusters) <= LastCluster
<1>1. LastCluster \in Nat /\ LastCluster >= 2
  BY Geometry
<1> QED
  BY <1>1, FS_Interval DEF Clusters

\* The chain has its first cluster and is closed.
LEMMA ChainClosed ==
    ASSUME NEW f, NEW p \in Clusters
    PROVE  p \in Chain(f, p) /\ Chain(f, p) \subseteq Clusters /\ ClosedUnder(f, Chain(f, p))
<1>1. PICK r : Reaches(r, f, p) /\ Chain(f, p) = r[LastCluster]
  BY ChainReaches
<1>2. LastCluster \in Nat /\ LastCluster # 0
  BY Geometry
<1>3. GrowsIn(r, Clusters)
  <2> SUFFICES ASSUME NEW n \in Nat
               PROVE  /\ r[n] \subseteq Clusters /\ r[n] \subseteq r[n + 1]
                      /\ r[n + 1] = r[n] => r[n + 2] = r[n + 1]
    BY DEF GrowsIn
  <2>1. n + 1 \in Nat /\ (n + 1) + 1 = n + 2
    OBVIOUS
  <2>2. r[n + 2] = r[n + 1] \cup ({f[c] : c \in r[n + 1]} \cap Clusters)
    BY <1>1, <2>1 DEF Reaches
  <2>3. r[n + 1] = r[n] \cup ({f[c] : c \in r[n]} \cap Clusters)
    BY <1>1 DEF Reaches
  <2> QED
    BY <1>1, <2>2, <2>3 DEF Reaches
<1>4. r[LastCluster + 1] = r[LastCluster]
  BY <1>2, <1>3, ClustersFinite, GrowthStops
<1>5. ClosedUnder(f, r[LastCluster])
  BY <1>1, <1>2, <1>4 DEF Reaches, ClosedUnder
<1>6. p \in r[LastCluster]
  <2> DEFINE T == {n \in Nat : p \in r[n]}
  <2>1. 0 \in T
    BY <1>1 DEF Reaches
  <2>2. \A n \in Nat : n \in T => n + 1 \in T
    BY <1>3 DEF GrowsIn
  <2> HIDE DEF T
  <2>3. Nat \subseteq T
    BY <2>1, <2>2, Induction
  <2> QED
    BY <2>3, <1>2 DEF T
<1> QED
  BY <1>1, <1>2, <1>5, <1>6 DEF Reaches

\* And it is the least such set.
LEMMA ChainLeast ==
    ASSUME NEW f, NEW p \in Clusters, NEW S, p \in S, ClosedUnder(f, S)
    PROVE  Chain(f, p) \subseteq S
<1>1. PICK r : Reaches(r, f, p) /\ Chain(f, p) = r[LastCluster]
  BY ChainReaches
<1> DEFINE T == {n \in Nat : r[n] \subseteq S}
<1>2. 0 \in T
  BY <1>1 DEF Reaches
<1>3. ASSUME NEW n \in Nat, n \in T
      PROVE  n + 1 \in T
  BY <1>1, <1>3 DEF Reaches, ClosedUnder
<1> HIDE DEF T
<1>4. Nat \subseteq T
  BY <1>2, <1>3, Induction
<1>5. LastCluster \in Nat
  BY Geometry
<1> QED
  BY <1>1, <1>4, <1>5 DEF T

-----------------------------------------------------------------------------
(* What changes of a FAT do to the chains                                   *)

\* A cluster that no other names is in no chain but its own.
LEMMA UnnamedOutside ==
    ASSUME NEW f, NEW p \in Clusters, NEW z, p # z, \A b \in Clusters : f[b] # z
    PROVE  z \notin Chain(f, p)
<1> DEFINE S == Clusters \ {z}
<1>1. p \in S /\ ClosedUnder(f, S)
  BY DEF ClosedUnder
<1> HIDE DEF S
<1>2. Chain(f, p) \subseteq S
  BY <1>1, ChainLeast
<1> QED
  BY <1>2 DEF S

\* A chain that ends with its first cluster.
LEMMA ChainSingle ==
    ASSUME NEW f, NEW p \in Clusters, f[p] \notin Clusters
    PROVE  Chain(f, p) = {p}
<1> DEFINE S == {p}
<1>1. p \in S /\ ClosedUnder(f, S)
  BY DEF ClosedUnder
<1> HIDE DEF S
<1>2. Chain(f, p) \subseteq S
  BY <1>1, ChainLeast
<1> QED
  BY <1>2, ChainClosed DEF S

\* Marking an entry that led nowhere as the end of a chain changes no chain.
SameLinks(f, g) ==
    \A c \in Clusters : f[c] = g[c] \/ (f[c] \notin Clusters /\ g[c] \notin Clusters)

LEMMA ChainWithin ==
    ASSUME NEW f, NEW g, NEW p \in Clusters, SameLinks(f, g)
    PROVE  Chain(f, p) \subseteq Chain(g, p)
<1>1. p \in Chain(g, p) /\ Chain(g, p) \subseteq Clusters /\ ClosedUnder(g, Chain(g, p))
  BY ChainClosed
<1>2. ClosedUnder(f, Chain(g, p))
  BY <1>1 DEF ClosedUnder, SameLinks
<1> QED
  BY <1>1, <1>2, ChainLeast

LEMMA SameChains ==
    ASSUME NEW f, NEW g, NEW p \in Clusters, SameLinks(f, g)
    PROVE  Chain(f, p) = Chain(g, p)
<1>1. SameLinks(g, f)
  BY DEF SameLinks
<1> QED
  BY <1>1, ChainWithin

\* Of all but the first cluster of a chain there is one before it.
LEMMA ChainBefore ==
    ASSUME NEW f, NEW p \in Clusters, NEW z \in Chain(f, p), z # p
    PROVE  \E y \in Chain(f, p) : f[y] = z
<1> SUFFICES ASSUME \A y \in Chain(f, p) : f[y] # z
             PROVE  FALSE
  OBVIOUS
<1> DEFINE S == Chain(f, p) \ {z}
<1>1. p \in S /\ ClosedUnder(f, S)
  BY ChainClosed DEF ClosedUnder
<1>2. z \notin S
  OBVIOUS
<1> HIDE DEF S
<1>3. Chain(f, p) \subseteq S
  BY <1>1, ChainLeast
<1> QED
  BY <1>2, <1>3

IsHead(f, p) == \A b \in Clusters : f[b] # p

\* Two chains of a sound volume that share a cluster start at the same one.
LEMMA ChainsDisjoint ==
    ASSUME NEW f, NEW p \in Clusters, NEW q \in Clusters, NEW c,
           ChainsSound(f), IsHead(f, p), IsHead(f, q),
           c \in Chain(f, p), c \in Chain(f, q)
    PROVE  p = q
<1> SUFFICES ASSUME p # q
             PROVE  FALSE
  OBVIOUS
<1> DEFINE S == {x \in Chain(f, p) : x \notin Chain(f, q)}
<1>1. p \in S
  BY ChainClosed, UnnamedOutside DEF IsHead
<1>2. ClosedUnder(f, S)
  <2> SUFFICES ASSUME NEW x \in S, f[x] \in Clusters, f[x] \in Chain(f, q)
               PROVE  FALSE
    BY ChainClosed DEF ClosedUnder
  <2>1. f[x] # q /\ x \in Clusters
    BY ChainClosed DEF IsHead
  <2>2. PICK y \in Chain(f, q) : f[y] = f[x]
    BY <2>1, ChainBefore
  <2>3. y \in Clusters
    BY ChainClosed
  <2>4. y = x
    BY <2>1, <2>2, <2>3 DEF ChainsSound
  <2> QED
    BY <2>2, <2>4
<1>3. c \notin S
  OBVIOUS
<1> HIDE DEF S
<1>4. Chain(f, p) \subseteq S
  BY <1>1, <1>2, ChainLeast
<1> QED
  BY <1>3, <1>4

-----------------------------------------------------------------------------
(* What a call has done so far                                              *)

(***************************************************************************)
(* InFlight says what a call relies on; this is what it has achieved: its  *)
(* search is in the chain of its directory, its new cluster is marked in   *)
(* every copy that was written and holds a fresh directory, and the sector *)
(* of its entry is on the disk once the write loop is past it.             *)
(***************************************************************************)
InItsChain == pc \in {"scan", "seek", "put"} => cur \in ChainOf(call.parent)

NewComplete ==
    /\ pc = "mark" => \A k \in Copies : k < idx => fat[k][new] = Eoc
    /\ pc \in {"mark", "fill"} => new # call.parent
    /\ pc \in {"fill", "scan", "put"} /\ call.op = "mkdir" =>
           \A k \in Copies : fat[k][new] = Eoc
    /\ pc \in {"scan", "put"} /\ call.op = "mkdir" =>
           cur # new /\ \A s \in Slots : dir[new][s] = FreshDirectory[s]

EntryWritten == pc = "put" /\ SectorOf(slot) < idx => dir[cur][slot] = PutEntry

Progress == InItsChain /\ NewComplete /\ EntryWritten

\* Nothing is achieved before a call and nothing remains after it.
LEMMA NotBegun == pc' = "idle" => Progress'
  BY DEF Progress, InItsChain, NewComplete, EntryWritten

LEMMA BeginProgress ==
    ASSUME IInv, NEW p \in Callable, NEW n \in Typed,
           EnterMkdir(p, n) \/ EnterCreate(p, n) \/ EnterDelete(p, n)
    PROVE  Progress'
<1>1. /\ pc' \in {"alloc", "scan", "seek"} /\ cur' = p /\ call'.parent = p
      /\ call'.op = "mkdir" => pc' = "alloc"
      /\ p \in Clusters
  BY CallableHead DEF IInv, EnterMkdir, EnterCreate, EnterDelete, Enter
<1>2. p \in ChainOf(p)'
  BY <1>1, ChainClosed DEF ChainOf
<1> QED
  BY <1>1, <1>2 DEF Progress, InItsChain, NewComplete, EntryWritten

LEMMA AllocProgress == IInv /\ Progress /\ Alloc => Progress'
<1> SUFFICES ASSUME IInv, Progress, Alloc PROVE Progress'
  OBVIOUS
<1>1. pc' = "mark" /\ UNCHANGED <<fat, dir, call, cur, slot, idx>> /\ idx = 0
  BY DEF Alloc, IInv, InCall, CallShape
<1>2. fat[0][new'] = Free /\ fat[0][call.parent] # Free
  BY DEF Alloc, Allocatable, FreeEntries, IInv, InCall, CallShape
<1>3. \A k \in Copies : ~(k < 0)
  BY CopyFacts
<1> QED
  BY <1>1, <1>2, <1>3 DEF Progress, InItsChain, NewComplete, EntryWritten

LEMMA MarkProgress ==
    ASSUME IInv, Progress, MarkFat
    PROVE  Progress'
<1>0. DiskType /\ LocalType /\ InCall /\ new \in FatEntries /\ idx \in Copies
  BY DEF IInv, LocalType, InCall, NewMarked, MarkFat
<1>1. /\ fat' = FatCopyWritten(idx) /\ UNCHANGED <<dir, call, new, cur, slot, ret>>
      /\ \/ idx' = idx + 1 /\ idx + 1 < NumFats /\ pc' = "mark"
         \/ idx' = 0 /\ pc' = "fill" /\ ~(idx + 1 < NumFats)
  BY DEF MarkFat
<1>2. FatBuffer[new] = Eoc
  BY <1>0, CopyFacts DEF DiskType, FatBuffer
<1>3. /\ fat'[idx][new] = Eoc
      /\ \A k \in Copies : k # idx => fat'[k][new] = fat[k][new]
  BY <1>0, <1>1, <1>2 DEF DiskType, FatCopyWritten
<1>4. \A k \in Copies : k < idx => fat[k][new] = Eoc
  BY DEF Progress, NewComplete, MarkFat
<1>5. \A k \in Copies : k < idx + 1 => fat'[k][new] = Eoc
  BY <1>0, <1>3, <1>4, CopyFacts
<1>6. ~(idx + 1 < NumFats) => \A k \in Copies : k < idx + 1
  BY <1>0, Geometry DEF Copies
<1>7. new # call.parent
  BY DEF Progress, NewComplete, MarkFat
<1>8. NewComplete'
  BY <1>1, <1>5, <1>6, <1>7 DEF NewComplete
<1> QED
  BY <1>1, <1>8 DEF Progress, InItsChain, EntryWritten

LEMMA FillProgress ==
    ASSUME IInv, IInv', Progress, Fill
    PROVE  Progress'
<1>1. /\ UNCHANGED <<fat, call, new, cur, slot, ret>>
      /\ \/ pc' = "fill"
         \/ pc' = "scan" /\ LastSector
      /\ new \in Clusters
  BY DEF Fill
<1>2. call.op = "mkdir" /\ cur = call.parent /\ new # call.parent
  BY DEF IInv, InCall, CallShape, SearchPosition, Progress, NewComplete, Fill
<1>3. \A k \in Copies : fat[k][new] = Eoc
  BY <1>2 DEF Progress, NewComplete, Fill
<1>4. CASE pc' = "fill"
  BY <1>1, <1>2, <1>3, <1>4 DEF Progress, InItsChain, NewComplete, EntryWritten
<1>5. CASE pc' = "scan" /\ LastSector
  <2>1. \A s \in Slots : dir'[new][s] = FreshDirectory[s]
    <3> SUFFICES ASSUME NEW s \in Slots
                 PROVE  dir'[new][s] = FreshDirectory[s]
      OBVIOUS
    <3>1. dir' = SectorWritten(new, idx, FreshDirectory)
      BY DEF Fill
    <3>2. dir'[new][s] = IF SectorOf(s) = idx THEN FreshDirectory[s] ELSE dir[new][s]
      BY <1>1, <3>1 DEF IInv, DiskType, SectorWritten
    <3>3. SectorOf(s) \in Sectors /\ idx \in Sectors /\ idx + 1 = SectorsPerCluster
      BY <1>5, SlotInSector DEF LastSector, IInv, InCall, NewMarked, Fill
    <3>4. SectorOf(s) # idx => SectorOf(s) < idx
      BY <3>3, Geometry DEF Sectors
    <3>5. SectorOf(s) < idx => dir[new][s] = FreshDirectory[s]
      BY <1>1 DEF IInv, InCall, NewMarked, Fill
    <3> QED
      BY <3>2, <3>4, <3>5
  <2>2. FreshDirectory' = FreshDirectory
    BY <1>1 DEF FreshDirectory
  <2>3. cur' \in ChainOf(call.parent)'
    <3>1. cur \in Clusters
      BY DEF IInv, LocalType
    <3>2. cur \in Chain(fat'[0], cur)
      BY <3>1, ChainClosed
    <3> QED
      BY <3>2, <1>1, <1>2 DEF ChainOf
  <2> QED
    BY <1>1, <1>2, <1>3, <1>5, <2>1, <2>2, <2>3
       DEF Progress, InItsChain, NewComplete, EntryWritten
<1> QED
  BY <1>1, <1>4, <1>5

\* A search finds its slot, or goes on to the next cluster of the chain.
LEMMA FindsProgress ==
    ASSUME IInv, Progress, ScanFinds \/ SeekFinds
    PROVE  Progress'
<1>1. /\ pc \in {"scan", "seek"} /\ pc' = "put" /\ idx = 0 /\ slot' \in Slots
      /\ UNCHANGED <<fat, dir, call, new, cur, idx>>
      /\ pc = "seek" => call.op = "delete"
  BY DEF ScanFinds, SeekFinds, ChosenSlot, FreeSlots, Matches, IInv, InCall, CallShape
<1>2. ~(SectorOf(slot') < 0)
  BY <1>1, SlotInSector DEF Sectors
<1>3. FreshDirectory' = FreshDirectory /\ ChainOf(call.parent)' = ChainOf(call.parent)
  BY <1>1 DEF FreshDirectory, ChainOf
<1>4. NewComplete' /\ InItsChain'
  BY <1>1, <1>3 DEF Progress, NewComplete, InItsChain
<1>5. EntryWritten'
  BY <1>1, <1>2 DEF EntryWritten, SectorOf
<1> QED
  BY <1>4, <1>5 DEF Progress

LEMMA AdvanceProgress ==
    ASSUME IInv, IInv', Progress, Advance, pc \in {"scan", "seek"}
    PROVE  Progress'
<1>1. CASE pc' = "idle"
  BY <1>1, NotBegun
<1>2. CASE pc' # "idle"
  <2>1. /\ cur' = fat[0][cur]
        /\ UNCHANGED <<fat, dir, pc, call, new, slot, idx, ret>>
    BY <1>2 DEF Advance, Return
  <2>2. cur' \in Clusters /\ call.parent \in Clusters /\ cur \in Clusters
    BY DEF IInv, LocalType
  <2>3. cur' \in ChainOf(call.parent)
    BY <2>1, <2>2, ChainClosed DEF ClosedUnder, ChainOf, Progress, InItsChain
  <2>4. pc = "scan" /\ call.op = "mkdir" => cur' # new
    BY <2>1, <2>2 DEF IInv, InCall, NewUnnamed
  <2>5. FreshDirectory' = FreshDirectory /\ ChainOf(call.parent)' = ChainOf(call.parent)
    BY <2>1 DEF FreshDirectory, ChainOf
  <2>6. NewComplete'
    BY <2>1, <2>4, <2>5 DEF Progress, NewComplete
  <2> QED
    BY <2>1, <2>3, <2>5, <2>6 DEF Progress, InItsChain, EntryWritten
<1> QED
  BY <1>1, <1>2

LEMMA PutProgress ==
    ASSUME IInv, IInv', Progress, Put
    PROVE  Progress'
<1>1. CASE pc' = "idle"
  BY <1>1, NotBegun
<1>2. CASE pc' # "idle"
  <2>1. /\ pc = "put" /\ cur \in Clusters /\ slot \in Slots /\ idx \in Nat
        /\ dir' = SectorWritten(cur, idx, PutBuffer)
        /\ idx' = idx + 1 /\ UNCHANGED <<fat, pc, call, new, cur, slot, ret>>
    BY <1>2 DEF Put, Return, IInv, LocalType
  <2>2. PutEntry' = PutEntry /\ FreshDirectory' = FreshDirectory
        /\ ChainOf(call.parent)' = ChainOf(call.parent)
    BY <2>1 DEF PutEntry, FreshDirectory, ChainOf
  <2>3. dir'[cur][slot] = IF SectorOf(slot) = idx THEN PutEntry ELSE dir[cur][slot]
    BY <2>1 DEF IInv, DiskType, SectorWritten, PutBuffer
  <2>4. \A c \in Clusters : c # cur => dir'[c] = dir[c]
    BY <2>1 DEF IInv, DiskType, SectorWritten
  <2>5. EntryWritten'
    <3>1. SectorOf(slot) < idx + 1 => SectorOf(slot) = idx \/ SectorOf(slot) < idx
      BY <2>1, SlotInSector DEF Sectors
    <3>2. SectorOf(slot)' = SectorOf(slot)
      BY <2>1 DEF SectorOf
    <3>3. SectorOf(slot) < idx => dir[cur][slot] = PutEntry
      BY <2>1 DEF Progress, EntryWritten
    <3> QED
      BY <2>1, <2>2, <2>3, <3>1, <3>2, <3>3 DEF EntryWritten
  <2>6. call.op = "mkdir" => new \in Clusters
    BY <2>1 DEF IInv, InCall, NewMarked
  <2>7. NewComplete'
    BY <2>1, <2>2, <2>4, <2>6 DEF Progress, NewComplete
  <2> QED
    BY <2>1, <2>2, <2>5, <2>7 DEF Progress, InItsChain
<1> QED
  BY <1>1, <1>2

LEMMA ProgressStep ==
    ASSUME IInv, IInv', Progress, [Next]_vars
    PROVE  Progress'
<1>1. CASE Calls
  BY <1>1, BeginProgress DEF Calls
<1>2. CASE Alloc
  BY <1>2, AllocProgress
<1>3. CASE MarkFat
  BY <1>3, MarkProgress
<1>4. CASE Fill
  BY <1>4, FillProgress
<1>5. CASE ScanFinds \/ SeekFinds
  BY <1>5, FindsProgress
<1>6. CASE ScanNext \/ SeekNext
  BY <1>6, AdvanceProgress DEF ScanNext, SeekNext
<1>7. CASE Put
  BY <1>7, PutProgress
<1>8. CASE \/ AllocFull \/ FillBeyond \/ SeekEnds
            \/ TransferRefused \/ PutLost \/ Crash
  BY <1>8, NotBegun DEF AllocFull, FillBeyond, SeekEnds, TransferRefused, PutLost,
                        Crash, Return
<1>9. CASE UNCHANGED vars
  BY <1>9 DEF vars, Progress, InItsChain, NewComplete, EntryWritten, ChainOf,
              FreshDirectory, PutEntry
<1> QED
  BY <1>1, <1>2, <1>3, <1>4, <1>5, <1>6, <1>7, <1>8, <1>9 DEF Next, Step

LEMMA ProgressInvariant == Spec => []Progress
<1>1. Init => Progress
  BY DEF Init, Progress, InItsChain, NewComplete, EntryWritten
<1>2. IInv /\ IInv' /\ Progress /\ [Next]_vars => Progress'
  BY ProgressStep
<1> QED
  BY <1>1, <1>2, Invariance, PTL DEF Spec

-----------------------------------------------------------------------------
\* The last write of a call puts its entry on the disk, in front of every end mark
\* of its cluster, and the rest of what the call was for is there already.
LEMMA LastPut ==
    ASSUME IInv, Progress, pc = "put", LastSector,
           NEW d, d = SectorWritten(cur, idx, PutBuffer)
    PROVE  Done(d)
<1>1. /\ pc = "put" /\ cur \in Clusters /\ slot \in Slots /\ idx \in Nat
      /\ cur \in ChainOf(call.parent)
      /\ call.op \in {"mkdir", "create", "delete"}
  BY DEF IInv, LocalType, InCall, CallShape, Progress, InItsChain
<1>2. \A s \in Slots : d[cur][s] =
          IF SectorOf(s) = idx THEN PutBuffer[s] ELSE dir[cur][s]
  BY <1>1 DEF IInv, DiskType, SectorWritten
<1>3. \A s \in Slots : PutBuffer[s] = IF s = slot THEN PutEntry ELSE dir[cur][s]
  BY <1>1 DEF IInv, DiskType, PutBuffer
<1>4. d[cur][slot] = PutEntry
  <2>1. SectorOf(slot) # idx => SectorOf(slot) < idx
    BY <1>1, SlotInSector, Geometry DEF LastSector, Sectors
  <2> QED
    BY <1>1, <1>2, <1>3, <2>1 DEF Progress, EntryWritten
<1>5. \A t \in Slots : t # slot => d[cur][t] = dir[cur][t]
  BY <1>2, <1>3
<1>6. call.op # "delete" => Added(PutEntry, d)
  <2> SUFFICES ASSUME call.op # "delete"
               PROVE  \A t \in Slots : t < slot => d[cur][t].st # "end"
    BY <1>1, <1>4 DEF Added
  <2>1. \A t \in Slots : t < slot => ~IsFree(dir[cur][t])
    BY <1>1 DEF IInv, InCall, SearchPosition
  <2>2. \A t \in Slots : t < slot => t # slot
    BY <1>1, SlotFacts
  <2> QED
    BY <1>5, <2>1, <2>2 DEF IsFree
<1>7. CASE call.op = "mkdir"
  <2>1. new \in Clusters /\ cur # new
    BY <1>1, <1>7 DEF IInv, InCall, NewMarked, Progress, NewComplete
  <2>2. d[new] = dir[new]
    BY <1>1, <2>1 DEF IInv, DiskType, SectorWritten
  <2>3. /\ \A k \in Copies : fat[k][new] = Eoc
        /\ \A s \in Slots : dir[new][s] = FreshDirectory[s]
    BY <1>1, <1>7 DEF Progress, NewComplete
  <2> QED
    BY <1>6, <1>7, <2>2, <2>3 DEF Done, PutEntry
<1>8. CASE call.op = "create"
  BY <1>6, <1>8 DEF Done, PutEntry
<1>9. CASE call.op = "delete"
  BY <1>1, <1>4, <1>9 DEF Done, PutEntry
<1> QED
  BY <1>1, <1>7, <1>8, <1>9

\* What the clusters are when the last sector of a call is on the disk, and what
\* "ok" says of them.
LastWritten == SectorWritten(cur, SectorsPerCluster - 1, PutBuffer)
OkWritten ==
    ret' = "ok" /\ ret # "ok" => Done(LastWritten) /\ dir' \in {LastWritten, dir}

LEMMA OkStep ==
    ASSUME IInv, Progress, [Next]_vars
    PROVE  [OkWritten]_vars
<1> SUFFICES ASSUME Next, ret' = "ok", ret # "ok"
             PROVE  Done(LastWritten) /\ dir' \in {LastWritten, dir}
  BY DEF OkWritten
<1>1. (Put \/ PutLost) /\ LastSector
  BY DEF Next, Calls, EnterMkdir, EnterCreate, EnterDelete, Enter, Step, Alloc,
         AllocFull, MarkFat, Fill, FillBeyond, ScanFinds, ScanNext, SeekFinds,
         SeekEnds, SeekNext, ChosenSlot, Advance, Put, PutLost, TransferRefused,
         Crash, Return
<1>2. SectorsPerCluster - 1 = idx
  BY <1>1, Geometry DEF LastSector, IInv, LocalType
<1>3. LastWritten = SectorWritten(cur, idx, PutBuffer)
  BY <1>2 DEF LastWritten
<1>4. Done(LastWritten)
  BY <1>1, <1>3, LastPut DEF Put, PutLost
<1>5. dir' \in {LastWritten, dir}
  BY <1>1, <1>3 DEF Put, PutLost, disk
<1> QED
  BY <1>4, <1>5

\* A call says "ok" only when all it had to write is on the disk, or all but the
\* last sector, for every geometry, every host disk and every pattern of errors,
\* lost writes and power losses (fat32.c:426-433, 478-482, 527-531; ata.c:118-121).
THEOREM OkIsWritten == Spec => OkMeansWritten
<1>1. IInv /\ Progress /\ [Next]_vars => [OkWritten]_vars
  BY OkStep
<1>2. Spec => [][OkWritten]_vars
  BY <1>1, Invariance, ProgressInvariant, PTL DEF Spec
<1> QED
  BY <1>2 DEF OkMeansWritten, OkWritten, LastWritten
=============================================================================
