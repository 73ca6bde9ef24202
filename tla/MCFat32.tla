------------------------------ MODULE MCFat32 ------------------------------
(***************************************************************************)
(* A small volume for Fat32.                                               *)
(***************************************************************************)
EXTENDS Fat32, Sequences

MCBases == {"", "a"}
MCRests == {"", ".", "t"}
MCHead8 == [b \in MCBases |-> b]
MCHead3 == [r \in MCRests |-> r]

Text(b, r) == [base |-> b, rest |-> r]
MCTyped == {Text("a", "t"), Text("a", NoDot)}
Label == Entry(Text("a", "."), "label", 0)
Dots(self, up) == <<Entry(Dot, "dots", self), Entry(DotDot, "dots", up)>>

(***************************************************************************)
(* Two sectors a cluster, two entries a sector.  The root is the chain     *)
(* 2 -> 3 with the directory "a." (4), a hole, the file "a.t" (5) and an   *)
(* end.  4 is full.  6 is free, and so is entry 7 of the FAT, but the disk *)
(* ends with cluster 6.                                                    *)
(***************************************************************************)
MCFat ==
    [c \in 0 .. 7 |-> CASE c \in {0, 4} -> EocMin
                        [] c = 2 -> 3
                        [] c \in {1, 3, 5} -> Eoc
                        [] OTHER -> Free]

MCDir ==
    [c \in 2 .. 6 |->
        CASE c = 2 -> <<Entry(Text("a", ""), "dir", 4), Label, Label, DelSlot>>
          [] c = 3 -> <<Entry(Text("a", "t"), "file", 5), Label, Label, EndSlot>>
          [] c = 4 -> Dots(4, 0) \o <<Label, Label>>
          [] OTHER -> <<RawSlot, RawSlot, RawSlot, RawSlot>>]
=============================================================================
