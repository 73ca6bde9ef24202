-------------------------------- MODULE Vfs --------------------------------
(***************************************************************************)
(* The layer of paths (src/src/kernel/vfs.c) on top of Fat32, driven by    *)
(* the boot sequence of src/src/kernel.c and by the file commands of the   *)
(* shell (src/src/shell/commands.c).                                       *)
(*                                                                         *)
(* An absolute path is the sequence of texts between its slashes: "/" is   *)
(* <<"">>, "/a" is <<a>> and "/a/" is <<a, "">>.  A typed path is such a   *)
(* sequence and whether it starts with a slash.                            *)
(***************************************************************************)
EXTENDS Fat32, Sequences, SequencesExt

CONSTANTS
    System, Personal, Tmp,  \* the names of the default directories
    CdPaths,                \* what the user types after "cd"
    FilePaths,              \* and after "mkdir", "touch" and "rm"
    CatNames,               \* and after "cat"
    HostSize,               \* sectors in the file a host has put at a cluster
    Disks,                  \* what the machine may be switched on with
    MaxDepth,               \* bound: components of a resolved path
    MaxBoots                \* bound: times the machine is switched on

ASSUME VfsAssumption ==
    /\ {EmptyName, System, Personal, Tmp} \subseteq Typed
    /\ CdPaths \cup FilePaths \subseteq [abs : BOOLEAN, parts : Seq(Name) \ {<<>>}]
    /\ \A p \in FilePaths : Last(p.parts) \in Typed
    /\ CatNames \subseteq Name
    /\ HostSize \in [Clusters -> Nat]
    /\ Disks \subseteq {"fat32", "failing", "blank"}
    /\ MaxDepth \in Nat /\ MaxBoots \in Nat \ {0}

(***************************************************************************)
(* What an entry ".." leads to: where it is special, the directory that    *)
(* holds the entry of its own directory, or 0; the root has none.  One     *)
(* that was made by name is a directory below its own, or an empty file.   *)
(***************************************************************************)
DotDotsSound(f, d) ==
    \A b \in Clusters, t \in Slots :
        LET up == d[b][t].start
        IN  d[b][t].st = "live" /\ d[b][t].name = DotDot =>
                \/ d[b][t].kind \in {"dir", "label"} \/ up = 0
                \/ /\ d[b][t].kind = "dots" /\ b \notin Chain(f, RootCluster)
                   /\ \A c \in Clusters, s \in Slots :
                          Owns(d[c][s]) /\ d[c][s].kind = "dir" /\ b \in Chain(f, d[c][s].start)
                              => c \in Chain(f, up) /\ \A x \in Clusters : f[x] # up

ASSUME HostDotDots == DotDotsSound(FatImage, DirImage)

VARIABLES
    cwd,    \* vfs_cwd: cluster and path of the current directory
    script, \* what the boot sequence still has to do
    cmd,    \* the operation under way and its resolved path
    walk,   \* "at work" or "done": navigate_path
    at,     \* the cluster it has reached
    left,   \* the components it still has to go down
    file,   \* the file cat has open, or Closed
    volume, \* what fat32_init has found in this session
    boots   \* how often the machine was switched on

paths == <<cwd, script, cmd, walk, at, left>>
vfs == <<paths, file, volume, boots>>
allvars == <<vars, vfs>>

Top == <<EmptyName>>
Absolute(n) == [abs |-> TRUE, parts |-> <<n>>]

-----------------------------------------------------------------------------
(* Paths                                                                    *)

\* vfs_resolve_path: a relative path is appended, not simplified.
Resolve(p) == IF p.abs \/ cwd.path = Top THEN p.parts ELSE cwd.path \o p.parts

\* vfs_get_parent_path and vfs_get_filename as the operations use them: the
\* parent is written into the buffer the name points into, and for a path
\* directly under "/" the terminator lands on the first character of the name.
ParentPath(path) == IF Len(path) = 1 THEN Top ELSE Front(path)

SlipNameOfParent(path) == Last(ParentPath(path))

FileName(path) == IF Len(path) = 1 THEN EmptyName ELSE Last(path)

\* The components a loop over the path sees: nothing after a last slash.
Components(path) == IF Last(path) = EmptyName THEN Front(path) ELSE path

\* normalize_path
Simplify(parts) ==
    FoldLeft(LAMBDA done, n :
                 CASE n = Dot -> done
                   [] n = DotDot -> IF done = <<>> THEN done ELSE Front(done)
                   [] OTHER -> Append(done, n),
             <<>>, parts)

SlipKeepDotDot(path) == Components(path)

Normalize(path) ==
    LET simple == Simplify(Components(path))
    IN  IF simple = <<>> THEN Top ELSE simple

-----------------------------------------------------------------------------
(* fat32_find_file: the first entry of that name along the chain of c, as a *)
(* set of at most one.  The bytes a read of "cluster 0" returns are the end *)
(* of the last FAT copy: zeros, an empty directory.                         *)

Named(c, n) ==
    {s \in Slots :
        /\ dir[c][s].st = "live" /\ dir[c][s].kind # "label"
        /\ dir[c][s].name = n
        /\ \A t \in Slots : t < s =>
               dir[c][t].st # "end"
               /\ ~(/\ dir[c][t].st = "live" /\ dir[c][t].kind # "label"
                    /\ dir[c][t].name = n)}

Lookup(head, n) ==
    LET look[k \in Nat] == [c \in Nat |->
            IF k = 0 \/ c \notin Clusters THEN {}
            ELSE IF Named(c, n) # {} THEN {dir[c][s] : s \in Named(c, n)}
            ELSE IF \E s \in Slots : dir[c][s].st = "end" THEN {}
            ELSE look[k - 1][fat[0][c]]]
    IN  look[LastCluster][head]

-----------------------------------------------------------------------------
NoCmd == [op |-> "none", path |-> Top]

\* The open file of cat: the cluster to read next, the one read last, and what was
\* shown so far, a cluster and one of its sectors at a time.
Closed == [open |-> FALSE, start |-> 0, cluster |-> 0, held |-> 0, size |-> 0,
           shown |-> <<>>]
Leftover == <<0, 0>>

BootScript ==
    <<[op |-> "mkdir", path |-> Absolute(System)],
      [op |-> "mkdir", path |-> Absolute(Personal)],
      [op |-> "mkdir", path |-> Absolute(Tmp)],
      [op |-> "cd", path |-> Absolute(System)]>>

\* Without a volume the numbers of fat32_fs are the zeros the kernel starts with:
\* kernel_main does not look at what fat32_init returns.
RootOn(v) == IF v = "fat32" THEN RootCluster ELSE 0
Root == RootOn(volume)

\* vfs_init
AtTop(v) == [cluster |-> RootOn(v), path |-> Top]

\* vfs_init has run; the rest of the boot sequence is still to come.
VfsInit ==
    /\ Init
    /\ volume \in Disks
    /\ cwd = AtTop(volume) /\ script = BootScript
    /\ cmd = NoCmd /\ walk = "done" /\ at = Root /\ left = <<>>
    /\ file = Closed
    /\ boots = 1

Idle == pc = "idle" /\ walk = "done" /\ file = Closed

SlipFromCwd(op, p) ==
    LET path == Resolve(p)
        from == IF p.abs THEN path ELSE p.parts
    IN  /\ Len(path) <= MaxDepth
        /\ cmd' = [op |-> op, path |-> path]
        /\ walk' = "at work"
        /\ at' = IF p.abs THEN Root ELSE cwd.cluster
        /\ left' = Components(IF op \in {"cd", "ls"} THEN from ELSE ParentPath(from))
        /\ UNCHANGED <<vars, cwd, file, volume, boots>>

\* vfs_mkdir, vfs_create_file, vfs_delete, vfs_cd, vfs_ls up to the first lookup.
Start(op, p) ==
    LET path == Resolve(p)
    IN  /\ Len(path) <= MaxDepth
        /\ cmd' = [op |-> op, path |-> path]
        /\ walk' = "at work" /\ at' = Root
        /\ left' = Components(IF op \in {"cd", "ls"} THEN path ELSE ParentPath(path))
        /\ UNCHANGED <<vars, cwd, file, volume, boots>>

-----------------------------------------------------------------------------
(* cat: fat32_open, fat32_read of 512 bytes until it returns 0, fat32_close *)

\* fat32_open looks in the root, whatever the current directory is, and turns away
\* what has the attribute of a directory.  A file this system has created has no cluster and no bytes.
OpenFile(n) ==
    LET found == {e \in Lookup(Root, n) : e.kind \notin {"dir", "dots"}}
    IN  /\ cmd' = [op |-> "cat", path |-> <<n>>]
        /\ \/ /\ found = {} \/ "refuse" \in Faults
              /\ file' = Closed
           \/ \E e \in found :
                 file' = [Closed EXCEPT !.open = TRUE,
                              !.start = e.start, !.cluster = e.start,
                              !.size = IF e.start = 0 THEN 0 ELSE HostSize[e.start]]
        /\ UNCHANGED <<vars, cwd, walk, at, left, volume, boots>>

Offset(f)  == Len(f.shown) % SectorsPerCluster
Unread(f)  == f.open /\ Len(f.shown) < f.size
ToFetch(f) == Offset(f) = 0 /\ ~is_eoc(f.cluster)

SlipNextAlways ==
    /\ Unread(file) /\ ~is_eoc(file.cluster)
    /\ file' = [file EXCEPT !.shown = Append(@, <<file.cluster, Offset(file)>>),
                           !.held = file.cluster, !.cluster = fat[0][file.cluster]]
    /\ UNCHANGED <<vars, paths, volume, boots>>

(***************************************************************************)
(* One call of fat32_read.  Only a call that starts a cluster reads it and *)
(* moves file.cluster on.  The next ones copy from their own cluster_data, *)
(* a local array nobody has filled: it may hold what the earlier call has  *)
(* left at that place of the stack, or not.                                *)
(***************************************************************************)
ReadSector ==
    /\ Unread(file)
    /\ \/ /\ ToFetch(file)
          /\ \E c \in {fat[0][file.cluster]} \cup (IF "refuse" \in Faults THEN {Eoc} ELSE {}) :
                file' = [file EXCEPT !.shown = Append(@, <<file.cluster, 0>>),
                                   !.held = file.cluster, !.cluster = c]
       \/ /\ Offset(file) # 0
          /\ \E data \in {<<file.held, Offset(file)>>, Leftover} :
                file' = [file EXCEPT !.shown = Append(@, data)]
    /\ UNCHANGED <<vars, paths, volume, boots>>

\* Nothing was read: the end, a chain shorter than the size, or an error.
CloseFile ==
    /\ file.open
    /\ Unread(file) => Offset(file) = 0 /\ (~ToFetch(file) \/ "refuse" \in Faults)
    /\ file' = Closed
    /\ UNCHANGED <<vars, paths, volume, boots>>

BootCommand ==
    /\ Idle /\ script # <<>>
    /\ Start(Head(script).op, Head(script).path)
    /\ script' = Tail(script)

ShellCommand ==
    /\ Idle /\ script = <<>>
    /\ \/ \E p \in CdPaths : Start("cd", p)
       \/ \E op \in {"mkdir", "touch", "rm"}, p \in FilePaths : Start(op, p)
       \/ \E n \in {Dot, EmptyName} :
              Start("ls", [abs |-> n = EmptyName, parts |-> <<n>>])
       \/ \E n \in CatNames : OpenFile(n)
    /\ UNCHANGED script

-----------------------------------------------------------------------------
(* navigate_path                                                            *)

\* On a disk of zeros cluster 0 is followed by cluster 0: a search in it does not
\* end, and nothing else happens any more.
Endless == volume = "blank" /\ walk = "at work" /\ left # <<>> /\ Head(left) # Dot

Searching == walk = "at work" /\ left # <<>> /\ ~Endless

WalkUp ==
    /\ Searching /\ Head(left) = DotDot
    /\ \/ at' \in {e.start : e \in Lookup(at, DotDot)}
       \/ /\ Lookup(at, DotDot) = {} \/ "refuse" \in Faults
          /\ at' = Root
    /\ left' = Tail(left)
    /\ UNCHANGED <<vars, cwd, script, cmd, walk, file, volume, boots>>

WalkStay ==
    /\ walk = "at work" /\ left # <<>> /\ Head(left) = Dot
    /\ left' = Tail(left)
    /\ UNCHANGED <<vars, cwd, script, cmd, walk, at, file, volume, boots>>

Special(n) == n \in {Dot, DotDot}

SlipAnyEntry ==
    /\ Searching /\ ~Special(Head(left))
    /\ \E e \in Lookup(at, Head(left)) : at' = e.start
    /\ left' = Tail(left)
    /\ UNCHANGED <<vars, cwd, script, cmd, walk, file, volume, boots>>

WalkDown ==
    /\ Searching /\ ~Special(Head(left))
    /\ \E e \in Lookup(at, Head(left)) : e.kind = "dir" /\ at' = e.start
    /\ left' = Tail(left)
    /\ UNCHANGED <<vars, cwd, script, cmd, walk, file, volume, boots>>

\* Not found, not a directory, or a read failed: the command ends.
WalkFails ==
    /\ Searching /\ ~Special(Head(left))
    /\ "refuse" \in Faults \/ \A e \in Lookup(at, Head(left)) : e.kind # "dir"
    /\ walk' = "done" /\ left' = <<>>
    /\ UNCHANGED <<vars, cwd, script, cmd, at, file, volume, boots>>

-----------------------------------------------------------------------------
(* What is done with the cluster that was reached                           *)

Arrived == walk = "at work" /\ left = <<>>

ChangeDirectory ==
    /\ Arrived /\ cmd.op = "cd"
    /\ cwd' = [cluster |-> at, path |-> Normalize(cmd.path)]
    /\ walk' = "done"
    /\ UNCHANGED <<vars, script, cmd, at, left, file, volume, boots>>

\* fat32_list_dir only reads.
List ==
    /\ Arrived /\ cmd.op = "ls"
    /\ walk' = "done"
    /\ UNCHANGED <<vars, cwd, script, cmd, at, left, file, volume, boots>>

\* The call into fat32.c.  What it would do to "cluster 0" is not modelled.
CallFat32 ==
    /\ Arrived /\ at \in Clusters
    /\ \/ cmd.op = "mkdir" /\ EnterMkdir(at, FileName(cmd.path))
       \/ cmd.op = "touch" /\ EnterCreate(at, FileName(cmd.path))
       \/ cmd.op = "rm"    /\ EnterDelete(at, FileName(cmd.path))
    /\ walk' = "done"
    /\ UNCHANGED <<cwd, script, cmd, at, left, file, volume, boots>>

\* Without a volume there is no free cluster for mkdir, and the searches of touch
\* and rm end at once because the disk cannot be read.
CallFails ==
    /\ Arrived /\ cmd.op \in {"mkdir", "touch", "rm"}
    /\ volume # "fat32"
    /\ volume = "blank" => cmd.op = "mkdir"
    /\ walk' = "done"
    /\ UNCHANGED <<vars, cwd, script, cmd, at, left, file, volume, boots>>

Fat32Step == (Step \/ TransferRefused \/ PutLost) /\ UNCHANGED vfs

\* The machine loses power and is switched on again.
PowerCycle ==
    /\ boots < MaxBoots
    /\ IF pc = "idle" THEN UNCHANGED vars ELSE Crash
    /\ volume' \in Disks
    /\ cwd' = AtTop(volume') /\ script' = BootScript
    /\ cmd' = NoCmd /\ walk' = "done" /\ at' = RootOn(volume') /\ left' = <<>>
    /\ file' = Closed
    /\ boots' = boots + 1

Kernel ==
    \/ BootCommand
    \/ WalkUp \/ WalkStay \/ WalkDown \/ WalkFails
    \/ ChangeDirectory \/ List \/ CallFat32 \/ CallFails
    \/ ReadSector \/ CloseFile

VfsNext == Kernel \/ ShellCommand \/ Fat32Step \/ PowerCycle

\* The processor runs on; nobody has to type, and power need not fail.
VfsSpec ==
    /\ VfsInit /\ [][VfsNext]_allvars
    /\ WF_allvars(Kernel) /\ WF_allvars(Step /\ UNCHANGED vfs)

-----------------------------------------------------------------------------
(* What has to hold                                                         *)

\* Types; that the walk is always in a directory, or on the 0 a host writes for the
\* root, is the part that can fail.
VfsTypeOK ==
    /\ TypeOK
    /\ cwd \in [cluster : {0} \cup Clusters, path : Seq(Name) \ {<<>>}]
    /\ script \in {SubSeq(BootScript, k, 4) : k \in 1 .. 5}
    /\ cmd \in [op : {"none", "cd", "ls", "mkdir", "touch", "rm", "cat"},
              path : Seq(Name) \ {<<>>}]
    /\ walk \in {"at work", "done"}
    /\ at \in {0} \cup Clusters
    /\ walk = "at work" => at \in {0} \cup Callable
    /\ left \in Seq(Name)
    /\ file.open => {file.start, file.held} \subseteq {0} \cup Clusters
    /\ volume \in Disks
    /\ boots \in 1 .. MaxBoots

\* The path layer keeps to what Fat32 expects: it hands in directories only, one
\* call at a time, so that all that is proved of Fat32 holds of the machine.
UsesFat32 == Init /\ [][Next]_vars

\* ".." finds the way back, also after a mkdir that failed half way or lost power,
\* and whatever was deleted (fat32.c:455-482, vfs.c:176-189).
DotDotsLead == DotDotsSound(fat[0], dir)

\* The directory a path names, read off the directory entries alone.
ByNames(path) ==
    FoldLeft(LAMBDA found, n :
                 {e.start : e \in {x \in UNION {Lookup(c, n) : c \in found} :
                                       x.kind = "dir"}},
             {Root}, Components(path))

\* The current path is a plain one, and when it is set it names the directory
\* that the walk, which goes up through the ".." entries on the disk, arrived
\* at (vfs_cd, vfs.c:352-371; normalize_path, vfs.c:34-86).
CwdAgrees ==
    [][cwd' # cwd =>
          /\ (cwd.cluster \in ByNames(cwd.path))'
          /\ \A i \in DOMAIN cwd'.path : ~Special(cwd'.path[i])]_allvars

\* A command changes only the directory its path names, and there only the entry
\* of that name, and the cluster it allocates: the place is found by walking the
\* disk, the name is what is left of a buffer, and both have to belong to the path
\* that was typed (vfs.c:230-315).  Directly under "/" the name is lost, so there
\* only the place is asked for (BootsIntoSystem).
EntryAsked(c, s) ==
    CASE Len(cmd.path) = 1 -> TRUE
      [] cmd.op = "rm"     -> dir[c][s].name = Last(cmd.path)
      [] OTHER             -> dir'[c][s].name = OnDisk(Last(cmd.path))

WritesWhereAsked ==
    [][\A c \in Clusters : dir'[c] # dir[c] =>
          \/ c = new
          \/ /\ \E p \in ByNames(Normalize(ParentPath(cmd.path))) : c \in ChainOf(p)
             /\ \A s \in Slots : dir'[c][s] # dir[c][s] => EntryAsked(c, s)]_allvars

\* cat goes along the chain of the file, whatever clusters it has, to its end: it
\* shows as many sectors as the file has, and the first sector of every cluster in
\* its place.  What it shows for the other sectors of a cluster is theirs, or
\* nothing of the file at all, for no code loads them for the call that copies them
\* (fat32.c:255-299, commands.c:61-76): CatShowsFile is what it should show.
NthCluster(head, n) ==
    LET nth[k \in Nat] == IF k = 0 THEN head ELSE fat[0][nth[k - 1]]
    IN  nth[n]

SectorOfFile(i) == <<NthCluster(file.start, (i - 1) \div SectorsPerCluster),
                     (i - 1) % SectorsPerCluster>>

ShownToTheEnd ==
    \/ Len(file.shown) = file.size \/ "refuse" \in Faults
    \/ is_eoc(NthCluster(file.start, Len(file.shown) \div SectorsPerCluster))

InChainOrder ==
    \A i \in DOMAIN file.shown :
        \/ file.shown[i] = SectorOfFile(i)
        \/ file.shown[i] = Leftover /\ (i - 1) % SectorsPerCluster # 0

FileClosed == file.open /\ ~file'.open /\ boots' = boots

CatFollowsChain == [][FileClosed => InChainOrder /\ ShownToTheEnd]_allvars

\* After every power-on the boot sequence comes to the prompt, and every command
\* comes back to it: no loop of fat32_mkdir, create_dirent, fat32_delete,
\* navigate_path or cat goes on for ever (fat32.c:374-438, 492-536, vfs.c:168-205,
\* commands.c:65-76).  A search of fat32_find_file is one step here; it follows the
\* same chains as the searches of create_dirent, which are taken step by step.
BackToPrompt == []<>(Idle /\ script = <<>>)

-----------------------------------------------------------------------------
(* What the documentation says and the code does not do                     *)

\* FAT32_IMPLEMENTATION.md:112-116 and 129-138, of fat32_read "Copy data to user
\* buffer" and of cat "Reads file in 512-byte chunks": every sector that cat shows is
\* that of the file.  A chunk that does not start a cluster is copied from an array
\* of the call's own that nothing was read into (fat32.c:257-266, 284).
CatShowsFile ==
    [][FileClosed => \A i \in DOMAIN file.shown : file.shown[i] = SectorOfFile(i)]_allvars

\* kernel.c:32 "Change to default directory (/system)": true when the boot
\* sequence is over.
BootsIntoSystem ==
    Idle /\ script = <<>> /\ cmd = [op |-> "cd", path |-> <<System>>] =>
        cwd.path = <<System>>

\* HIERARCHICAL_FILESYSTEM.md:177 "Creates directory at path": a directory below
\* another can be reached by the path it was made with.
MkdirFound ==
    [][ret' = "ok" /\ ret # "ok" /\ cmd.op = "mkdir" /\ Len(cmd.path) > 1 =>
          (ByNames(cmd.path) # {})']_allvars

\* FAT32_IMPLEMENTATION.md:90 "Cluster 0-1: Reserved": no directory operation is
\* sent to them.
NoReservedCluster ==
    Arrived /\ volume = "fat32" /\ cmd.op \in {"mkdir", "touch", "rm"} =>
        at \in Clusters
=============================================================================
