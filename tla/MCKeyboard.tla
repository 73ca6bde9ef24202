----------------------------- MODULE MCKeyboard -----------------------------
(***************************************************************************)
(* A ring of three for Keyboard, and a keyboard with one key of a kind.    *)
(***************************************************************************)
EXTENDS Keyboard

CONSTANTS a, enter, abnt, left, right

MCLetters == {a}
MCControls == {enter}
MCShiftKeys == {left, right}
MCForeign == {abnt}
=============================================================================
