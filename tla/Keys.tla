-------------------------------- MODULE Keys --------------------------------
(***************************************************************************)
(* Scancodes and the characters they stand for                             *)
(* (src/src/drivers/keyboard.c, src/src/kb_layouts/en_us.h).               *)
(*                                                                         *)
(* A code says which key went down or up.  A character is the key and      *)
(* which of its two legends it is; the value 0 is NoChar.                  *)
(***************************************************************************)

CONSTANTS
    Letters,    \* keys whose two legends are a letter in both cases
    Symbols,    \* keys with two other legends
    Controls,   \* enter and backspace
    ShiftKeys,  \* left and right shift
    CapsLock,
    Mute,       \* keys with a 0 in both tables
    Foreign,    \* keys of other layouts, whose codes lie behind the tables
    NoChar

Keys == Letters \cup Symbols \cup Controls \cup ShiftKeys \cup {CapsLock}
            \cup Mute \cup Foreign

Code == [key : Keys, down : BOOLEAN]
Char == [key : Letters \cup Symbols \cup Controls, upper : BOOLEAN]

ASSUME KeysAssumption == NoChar \notin Char

Legend(k, upper) == [key |-> k, upper |-> upper]

\* What a key that goes down may give, as a set: the tables have 0x60 entries,
\* and what lies behind them is anything.
CharsOf(k, shift, caps) ==
    CASE k \in Letters  -> {Legend(k, shift \/ caps)}
      [] k \in Symbols  -> {Legend(k, shift)}
      [] k \in Controls -> {Legend(k, FALSE)}
      [] k \in Foreign  -> Char \cup {NoChar}
      [] OTHER          -> {NoChar}
=============================================================================
