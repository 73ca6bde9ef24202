------------------------------- MODULE MCVfs -------------------------------
(***************************************************************************)
(* A small volume for Vfs, with two sectors a cluster and three entries a  *)
(* sector: the root is 2 -> 10 and holds the directory "docs" (3), which   *)
(* has room for one more entry, and in its second cluster the file         *)
(* "docs.t" (4 -> 5); 6 to 9 are free: one for each directory of the boot  *)
(* sequence, and one more.                                                 *)
(***************************************************************************)
EXTENDS Vfs

MCBases == {"", "docs", "s", "system"}
MCRests == {"", ".", "t"}
MCHead8 == [b \in MCBases |-> b]
MCHead3 == [r \in MCRests |-> r]

Text(b, r) == [base |-> b, rest |-> r]
Docs == Text("docs", NoDot)
File == Text("s", "t")
MCSystem == Text("system", NoDot)
MCTyped == Name

Here(parts) == [abs |-> FALSE, parts |-> parts]
MCCdPaths   == {Here(<<Docs>>), Here(<<File>>), Here(<<DotDot>>), Here(<<Text("docs", "t")>>)}
MCFilePaths == {Here(<<File>>), Here(<<DotDot, File>>)}
MCCatNames  == {Text("docs", "t"), Docs, File}

SmallFat ==
    [c \in 0 .. 10 |-> CASE c = 2 -> 10
                         [] c = 4 -> 5
                         [] c \in {0, 1, 3, 5, 10} -> Eoc
                         [] OTHER -> Free]

\* The file ends in the middle of its second cluster.
MCHostSize == [c \in 2 .. 10 |-> IF c = 4 THEN 3 ELSE 0]

\* The long name of a host's file: one of these in front of "docs.t".
Label == Entry(Text("s", NoDot), "label", 0)

Volume(up) ==
    [c \in 2 .. 10 |->
        CASE c = 2 -> <<Entry(Docs, "dir", 3), Label, Label, Label, Label, Label>>
          [] c = 10 -> <<Label, Entry(Text("docs", "t"), "file", 4), Label,
                         EndSlot, EndSlot, EndSlot>>
          [] c = 3 -> <<Entry(Dot, "dots", 3), Entry(DotDot, "dots", up),
                        Label, Label, Label, EndSlot>>
          [] OTHER -> [s \in 1 .. 6 |-> RawSlot]]

\* ".." of a directory in the root names the root by its number, as fat32_mkdir
\* writes it, or by 0, as a host does.
OwnVolume  == Volume(2)
HostVolume == Volume(0)

\* A name without a '.', typed below "docs".
DotlessPaths == {Here(<<Docs, Text("s", NoDot)>>)}
=============================================================================
