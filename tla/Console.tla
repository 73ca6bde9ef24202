------------------------------ MODULE Console ------------------------------
(***************************************************************************)
(* The user's side of VidgaOS: the screen (src/src/drivers/vga.c), the     *)
(* line editor of the shell (src/src/shell/shell.c), its commands          *)
(* (src/src/shell/commands.c) and the guessing game                        *)
(* (src/src/games/games.c), which has a line editor of its own.            *)
(*                                                                         *)
(* All of it runs in the one thread of the kernel, between two calls of    *)
(* keyboard_getchar, and no interrupt handler touches it: what a character *)
(* sets off is one step.  A command is written as a word of one character, *)
(* and a message is cut down to the shortest text with the line feeds of   *)
(* the real one.                                                           *)
(***************************************************************************)
EXTENDS Integers, Sequences, SequencesExt

CONSTANTS
    Width, Height,      \* VGA_WIDTH and VGA_HEIGHT, 80 and 25
    LineSize,           \* of input_buffer, 256
    MaxDigits,          \* read_number takes 6
    Letters,            \* characters from 32 on that are no digits
    Digits,             \* those that are, with their values
    Glyphs,             \* characters that only the system prints
    Echo, Clear, Guess, \* the commands "echo ", "clear" and "game play guess"
    Others,             \* commands that print something, or nothing
    Outputs,            \* what these may print
    Prompt,             \* "root/> "
    Unknown,            \* "Unknown command: "
    Rules, Ask,         \* the texts of the game: what it starts with, "Your guess: "
    Hint, Praise,       \* its answers
    Highest,            \* the greatest number it thinks of, 100
    Randoms,            \* what rand may return, of 0 to 0x7FFF
    MaxGuesses          \* bound: guesses counted in one game

NL == "newline"
BS == "backspace"
NUL == "nul"
Space == " "
Chars == Letters \cup DOMAIN Digits
Text  == Seq(Chars \cup Glyphs \cup {NL})
Size  == Width * Height

ASSUME ConsoleAssumption ==
    /\ Width \in Nat /\ Height \in Nat \ {0, 1}
    /\ LineSize \in Nat \ {0} /\ MaxDigits \in Nat
    /\ Highest \in Nat \ {0} /\ Randoms \subseteq Nat
    /\ MaxGuesses \in Nat

ASSUME ControlCharacters == {NL, BS, NUL} \cap (Chars \cup Glyphs) = {}

ASSUME Texts ==
    /\ Digits \in [DOMAIN Digits -> 0 .. 9]
    /\ {Echo, Clear, Guess} \cup Others \subseteq Chars
    /\ Outputs \subseteq Text
    /\ {Prompt, Unknown, Rules, Ask, Hint, Praise} \subseteq Text

(***************************************************************************)
(* A line feed moves the position without scrolling, and each character    *)
(* makes up for one (vga.c:36-79).  Late counts the characters that are    *)
(* missing at most until the position is back on the screen, for a text    *)
(* that is printed from there.  No text of the system leaves more than     *)
(* three at any place, for none has two blank lines in a row: the          *)
(* strings of commands.c, shell.c and games.c.  What cat shows of a file   *)
(* may, and is such an output only when it does not.                       *)
(***************************************************************************)
Late(n, ch) ==
    IF ch = NL THEN (IF n = 0 THEN 2 ELSE n + 1)
               ELSE (IF n = 0 THEN 0 ELSE n - 1)

Counts(late, text) ==
    /\ late[0] = 0
    /\ \A i \in 1 .. Len(text) : late[i] = Late(late[i - 1], text[i])

Fits(text) == \E late \in [0 .. Len(text) -> 0 .. 3] : Counts(late, text)

\* The prompts bring the position back, and what is typed behind them fits above the
\* last line.
ASSUME TextsFit ==
    /\ Width >= 3
    /\ Fits(<<NL>>)
    /\ \A text \in Outputs \cup {Unknown, Rules, Hint, Praise} : Fits(<<NL>> \o text)
    /\ \A asked \in {Prompt, Ask} :
          Len(asked) >= 3 /\ \A i \in 1 .. Len(asked) : asked[i] # NL
    /\ Len(Prompt) - 2 + LineSize - 2 <= Size - Width
    /\ Len(Ask) - 2 + MaxDigits - 1 <= Size - Width

VARIABLES
    screen,         \* the text memory VGA and vgaBuffPos, counted in cells
    input_buffer,   \* the line of the shell
    buffer_idx,
    mode,           \* "shell", or "guess" while read_number waits for a line
    digits,         \* what it has: buf and idx
    target, guesses,
    entered         \* the line that was handed over last

line  == <<input_buffer, buffer_idx>>
game  == <<digits, target, guesses>>
vars  == <<screen, line, mode, game, entered>>

-----------------------------------------------------------------------------
(* vga.c                                                                    *)

Blank == [i \in 0 .. Size - 1 |-> NUL]

clear_screen == [VGA |-> Blank, pos |-> 0]

SlipLastLineStays(s) ==
    [VGA |-> [i \in 0 .. Size - 1 |->
                  IF i + Width < Size THEN s.VGA[i + Width] ELSE s.VGA[i]],
     pos |-> s.pos - Width]

scroll_screen(s) ==
    [VGA |-> [i \in 0 .. Size - 1 |->
                  IF i + Width < Size THEN s.VGA[i + Width] ELSE NUL],
     pos |-> s.pos - Width]

\* The memory goes on behind the last line, and what is put there is not shown.
Store(s, i, ch) == IF i \in 0 .. Size - 1 THEN [s.VGA EXCEPT ![i] = ch] ELSE s.VGA

SlipNoWrap(s) == s
SlipNoScroll(s) == IF s.pos >= Size THEN [s EXCEPT !.pos = s.pos - Width] ELSE s

\* Scrolling waits for the character that needs the room, and makes room once.
Wrap(s) == IF s.pos >= Size THEN scroll_screen(s) ELSE s

handle_next_line(s) == [s EXCEPT !.pos = (s.pos \div Width + 1) * Width]

Put(s, ch) ==
    CASE ch = NL -> handle_next_line(s)
      [] ch = BS -> [VGA |-> Store(s, s.pos - 1, Space), pos |-> s.pos - 1]
      [] OTHER   -> LET w == Wrap(s)
                    IN  [VGA |-> Store(w, w.pos, ch), pos |-> w.pos + 1]

print_msg(s, text) == FoldLeft(Put, s, text)

RubOut == <<BS, Space, BS>>

-----------------------------------------------------------------------------
(* shell_process_input                                                      *)

\* shell_init has run, on a screen with whatever the boot has printed last.
Init ==
    /\ screen = print_msg(clear_screen, Prompt)
    /\ input_buffer = [i \in 0 .. LineSize - 1 |-> NUL] /\ buffer_idx = 0
    /\ mode = "shell"
    /\ digits = <<>> /\ target = 0 /\ guesses = 0
    /\ entered = <<>>

TypeCharacter(ch) ==
    /\ mode = "shell"
    /\ buffer_idx < LineSize - 1
    /\ input_buffer' = [input_buffer EXCEPT ![buffer_idx] = ch]
    /\ buffer_idx' = buffer_idx + 1
    /\ screen' = print_msg(screen, <<ch>>)
    /\ UNCHANGED <<mode, game, entered>>

SlipRubPrompt ==
    /\ mode = "shell"
    /\ screen.pos > 0
    /\ buffer_idx' = IF buffer_idx > 0 THEN buffer_idx - 1 ELSE 0
    /\ screen' = print_msg(screen, RubOut)
    /\ UNCHANGED <<input_buffer, mode, game, entered>>

Backspace ==
    /\ mode = "shell"
    /\ buffer_idx > 0
    /\ buffer_idx' = buffer_idx - 1
    /\ screen' = print_msg(screen, RubOut)
    /\ UNCHANGED <<input_buffer, mode, game, entered>>

SlipNoTerminator == input_buffer

\* input_buffer[buffer_idx] = '\0'; what an earlier, longer line left behind stays.
Terminated == [input_buffer EXCEPT ![buffer_idx] = NUL]

\* The command as the functions on strings see it.
CString(b) ==
    LET end == CHOOSE n \in 0 .. LineSize :
                   /\ n = LineSize \/ b[n] = NUL
                   /\ \A i \in 0 .. n - 1 : b[i] # NUL
    IN  [i \in 1 .. end |-> b[i - 1]]

Command == CString(Terminated)

EmptyLine ==
    /\ mode = "shell" /\ buffer_idx = 0
    /\ input_buffer' = Terminated
    /\ screen' = print_msg(screen, <<NL>> \o Prompt)
    /\ entered' = <<>>
    /\ UNCHANGED <<buffer_idx, mode, game>>

\* Enter at the end of a line: execute_command gets the string.
Submit ==
    /\ mode = "shell" /\ buffer_idx > 0
    /\ input_buffer' = Terminated /\ buffer_idx' = 0
    /\ entered' = Command

\* A command that prints text and comes back to the prompt.
Prints(text) ==
    /\ screen' = print_msg(screen, <<NL>> \o text \o Prompt)
    /\ UNCHANGED <<mode, game>>

-----------------------------------------------------------------------------
(* execute_command                                                          *)

RunEcho == Submit /\ Head(Command) = Echo /\ Prints(Append(Tail(Command), NL))

RunClear ==
    /\ Submit /\ Command = <<Clear>>
    /\ screen' = print_msg(clear_screen, Prompt)
    /\ UNCHANGED <<mode, game>>

RunOther ==
    /\ Submit /\ Command \in {<<cmd>> : cmd \in Others}
    /\ \E text \in Outputs : Prints(text)

RunUnknown ==
    /\ Submit /\ Head(Command) # Echo
    /\ Command \notin {<<cmd>> : cmd \in Others \cup {Clear, Guess}}
    /\ Prints(Unknown \o Append(Command, NL))

rand_range(r, min, max) ==
    IF min >= max THEN min ELSE min + (r % (max - min + 1))

\* game_number_guess up to its first read_number.  It takes the time for the seed,
\* so rand may return anything.
RunGuess ==
    /\ Submit /\ Command = <<Guess>>
    /\ screen' = print_msg(screen, <<NL>> \o Rules \o Ask)
    /\ mode' = "guess"
    /\ digits' = <<>> /\ guesses' = 0
    /\ \E r \in Randoms : target' = rand_range(r, 1, Highest)

-----------------------------------------------------------------------------
(* game_number_guess, read_number                                           *)

SlipEchoAll(ch) ==
    /\ mode = "guess"
    /\ digits' = IF Len(digits) < MaxDigits THEN Append(digits, ch) ELSE digits
    /\ screen' = print_msg(screen, <<ch>>)
    /\ UNCHANGED <<line, mode, target, guesses, entered>>

TypeDigit(ch) ==
    /\ mode = "guess"
    /\ Len(digits) < MaxDigits
    /\ digits' = Append(digits, ch)
    /\ screen' = print_msg(screen, <<ch>>)
    /\ UNCHANGED <<line, mode, target, guesses, entered>>

EraseDigit ==
    /\ mode = "guess"
    /\ digits # <<>>
    /\ digits' = Front(digits)
    /\ screen' = print_msg(screen, RubOut)
    /\ UNCHANGED <<line, mode, target, guesses, entered>>

Value(ds) == FoldLeft(LAMBDA v, d : 10 * v + Digits[d], 0, ds)

\* Enter: the number is compared, and the next one is read into a new buf.
EnterNumber ==
    /\ mode = "guess"
    /\ entered' = digits /\ digits' = <<>>

\* Not a number between 1 and Highest: not counted.
OutOfRange ==
    /\ EnterNumber
    /\ Value(digits) \notin 1 .. Highest
    /\ screen' = print_msg(screen, <<NL>> \o Hint \o Ask)
    /\ UNCHANGED <<line, mode, target, guesses>>

Wrong ==
    /\ EnterNumber
    /\ Value(digits) \in (1 .. Highest) \ {target} /\ guesses < MaxGuesses
    /\ guesses' = guesses + 1
    /\ screen' = print_msg(screen, <<NL>> \o Hint \o Ask)
    /\ UNCHANGED <<line, mode, target>>

\* The game is over and its stack frame gone.
Correct ==
    /\ EnterNumber
    /\ Value(digits) = target
    /\ screen' = print_msg(screen, <<NL>> \o Praise \o Prompt)
    /\ mode' = "shell"
    /\ target' = 0 /\ guesses' = 0
    /\ UNCHANGED line

\* Every key but Enter.
Edit ==
    \/ \E ch \in Chars : TypeCharacter(ch)
    \/ Backspace
    \/ \E ch \in DOMAIN Digits : TypeDigit(ch)
    \/ EraseDigit

Next ==
    \/ Edit
    \/ EmptyLine
    \/ RunEcho \/ RunClear \/ RunOther \/ RunUnknown \/ RunGuess
    \/ OutOfRange \/ Wrong \/ Correct

Spec == Init /\ [][Next]_vars

-----------------------------------------------------------------------------
(* What has to hold                                                         *)

\* Types.  That the position is on the screen, or right behind it, whenever a key
\* is waited for is the part that can fail: a line feed does not scroll and every
\* character makes up for one (vga.c:36-79).
ConsoleTypeOK ==
    /\ screen \in [VGA : [0 .. Size - 1 -> Chars \cup Glyphs \cup {NUL, Space}],
                  pos : 0 .. Size]
    /\ input_buffer \in [0 .. LineSize - 1 -> Chars \cup {NUL}]
    /\ buffer_idx \in 0 .. LineSize - 1
    /\ mode \in {"shell", "guess"}
    /\ digits \in Seq(DOMAIN Digits) /\ Len(digits) <= MaxDigits
    /\ target \in IF mode = "guess" THEN 1 .. Highest ELSE {0}
    /\ guesses \in 0 .. MaxGuesses
    /\ entered \in Seq(Chars)

Typed == IF mode = "shell" THEN buffer_idx ELSE Len(digits)
Asked == IF mode = "shell" THEN Prompt ELSE Ask

Cell(i) == IF i \in 0 .. Size - 1 THEN screen.VGA[i] ELSE NUL

\* The last n cells before the cursor.
Seen(n) == [i \in 1 .. n |-> Cell(screen.pos - n + i - 1)]

E == INSTANCE LineEditor WITH
         Modes <- {"shell", "guess"},
         Accepts <- [shell |-> Chars, guess |-> DOMAIN Digits],
         Limit <- [shell |-> LineSize - 1, guess |-> MaxDigits],
         line <- Seen(Typed)

\* What you see is what you enter: the characters in front of the cursor change
\* with the keys like the line of LineEditor, through wrapping, scrolling and
\* erasing, and Enter hands over exactly them, whatever longer line the buffer
\* held before (shell.c:31-51, games.c:8-38, vga.c:43-79).
IsLineEditor == E!Spec

\* In front of the line stands the prompt.  At the bottom of the screen every line
\* feed but the first costs the next text a character, and a line that has filled
\* its row counts as one more: two characters may be missing.  No other is, and
\* none is wrong (vga.c:36-41, 65-69).
PromptShown ==
    LET shown == Seen(Len(Asked) + Typed)
    IN  \A i \in DOMAIN Asked :
            \/ shown[i] = Asked[i]
            \/ i <= 2 /\ shown[i] = NUL

\* Nothing is left behind the cursor: not of an erased character, nor of a line
\* that was there before scrolling or clearing (vga.c:15-26, 55-63, 81-88).
NothingBehind == \A i \in screen.pos .. Size - 1 : screen.VGA[i] \in {NUL, Space}

\* While a line is edited all that stands above it, and the prompt, stays, and
\* moves up one line when a character needs room (shell.c:42-50, vga.c:15-26).
EditKeepsRest ==
    [][Edit =>
          \E up \in {0, Width} :
              /\ up = Width => screen.pos = Size
              /\ \A i \in up .. screen.pos - Typed - 1 :
                    screen'.VGA[i - up] = screen.VGA[i]]_vars

\* The number that ends the game is the one that stands on the screen, and it is
\* the one that was thought of (games.c:8-38, 75-96).
WinIsSeen == [][mode = "guess" /\ mode' = "shell" => Value(Seen(Typed)) = target]_vars
=============================================================================
