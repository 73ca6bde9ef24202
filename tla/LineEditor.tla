----------------------------- MODULE LineEditor -----------------------------
(***************************************************************************)
(* What a line of input promises its user, at the prompt of the shell and  *)
(* in a game: the line on the screen grows by the characters that are      *)
(* typed, shrinks from its end, and what is handed in with Enter is the    *)
(* line as it stands on the screen.                                        *)
(***************************************************************************)
EXTENDS Naturals, Sequences, SequencesExt

CONSTANTS
    Modes,      \* who may be reading
    Accepts,    \* the characters each of them takes
    Limit       \* and how many of them

VARIABLES
    mode,       \* who is reading
    line,       \* what has been typed of the line
    entered     \* the line handed in last

vars == <<mode, line, entered>>

Init == mode \in Modes /\ line = <<>> /\ entered = <<>>

Type ==
    /\ Len(line) < Limit[mode]
    /\ \E ch \in Accepts[mode] : line' = Append(line, ch)
    /\ UNCHANGED <<mode, entered>>

Erase ==
    /\ line # <<>> /\ line' = Front(line)
    /\ UNCHANGED <<mode, entered>>

Enter ==
    /\ entered' = line /\ line' = <<>>
    /\ mode' \in Modes

Next == Type \/ Erase \/ Enter
Spec == Init /\ [][Next]_vars
=============================================================================
