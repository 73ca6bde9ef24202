------------------------------ MODULE Name83 ------------------------------
(***************************************************************************)
(* Names as the FAT32 driver stores and compares them                      *)
(* (src/src/kernel/fat32.c).                                               *)
(*                                                                         *)
(* A typed name is split at its first '.' into a base and a rest; NoDot    *)
(* says that the name has no '.' at all.  A directory entry keeps eight    *)
(* bytes of the base and three of the rest.  What a later search compares  *)
(* with is not the typed name but the text rebuilt from those bytes:       *)
(* OnDisk(n).  Comparison ignores case, so names here are case-folded.     *)
(***************************************************************************)

CONSTANTS
    Bases,      \* texts before the first '.'
    Rests,      \* texts after it
    NoDot,      \* the name has no '.'
    Head8,      \* the text a base leaves in an 8-byte field read to the first blank
    Head3       \* the same for a rest in the 3-byte field

ASSUME Name83Assumption ==
    /\ "" \in Bases /\ "" \in Rests /\ "." \in Rests
    /\ NoDot \notin Rests
    /\ Head8 \in [Bases -> Bases]
    /\ Head3 \in [Rests -> Rests]
    /\ Head8[""] = "" /\ Head3[""] = "" /\ Head3["."] = "."
    /\ \A b \in Bases : Head8[Head8[b]] = Head8[b]
    /\ \A r \in Rests : Head3[Head3[r]] = Head3[r]

Name == [base : Bases, rest : Rests \cup {NoDot}]

\* The name "", which every operation directly under "/" ends up with.
EmptyName == [base |-> "", rest |-> NoDot]

\* "." and ".."
Dot    == [base |-> "", rest |-> ""]
DotDot == [base |-> "", rest |-> "."]

(***************************************************************************)
(* The extension field: without a '.' it keeps the zero bytes of the       *)
(* cleared entry, otherwise the rest padded with blanks.                   *)
(***************************************************************************)
ZeroExt == [zero |-> TRUE, text |-> ""]
TextExt(t) == [zero |-> FALSE, text |-> t]

Stored(n) ==
    [base |-> Head8[n.base],
     ext  |-> IF n.rest = NoDot THEN ZeroExt ELSE TextExt(Head3[n.rest])]

(***************************************************************************)
(* Reading an entry back: a '.' is added unless the extension starts with  *)
(* a blank, and a zero byte is not a blank.                                *)
(***************************************************************************)
Rendered(e) ==
    [base |-> e.base,
     rest |-> IF e.ext.zero THEN "" ELSE
              IF e.ext.text = "" THEN NoDot ELSE e.ext.text]

OnDisk(n) == Rendered(Stored(n))

\* The names an entry can be found under as they were typed: a base of at most
\* eight characters and a non-empty extension of at most three.
Fits83(n) ==
    /\ Head8[n.base] = n.base
    /\ n.rest \in Rests \ {""}
    /\ Head3[n.rest] = n.rest
=============================================================================
