------------------------------ MODULE Keyboard ------------------------------
(***************************************************************************)
(* The interrupt-driven keyboard driver (src/src/drivers/keyboard.c) with  *)
(* the two interrupts that wake its reader (src/src/kernel/idt.c).         *)
(*                                                                         *)
(* The interrupt handler runs with interrupts off on the only processor,   *)
(* so it is one step.  The reader, keyboard_getchar, can be interrupted    *)
(* between any two instructions: pc says where it is.                      *)
(***************************************************************************)
EXTENDS Keys, Integers, Sequences

CONSTANTS
    BufSize,    \* KB_BUF_SIZE, 128
    PortSize    \* bound: codes the keyboard and its controller can hold

ASSUME KeyboardAssumption ==
    /\ BufSize \in Nat \ {0, 1} /\ PortSize \in Nat
    /\ \A ks \in {Letters, Symbols, Controls, Mute, Foreign} :
           CapsLock \notin ks /\ ks \cap ShiftKeys = {}
    /\ CapsLock \notin ShiftKeys

VARIABLES
    held,       \* the shift keys that are down
    port,       \* codes waiting behind port 0x60
    shift, caps,
    kb_buf, kb_head, kb_tail,
    pc,         \* where the reader is
    c           \* its local variable

keyboard == <<held, port>>
driver   == <<shift, caps, kb_buf, kb_head>>
reader   == <<kb_tail, pc, c>>
vars     == <<held, port, shift, caps, kb_buf, kb_head, kb_tail, pc, c>>

Index == 0 .. BufSize - 1

\* init_keyboard has run; a shift key may have been down since before.
Init ==
    /\ held \in SUBSET ShiftKeys /\ port = <<>>
    /\ shift = FALSE /\ caps = FALSE
    /\ kb_buf = [i \in Index |-> NoChar] /\ kb_head = 0 /\ kb_tail = 0
    /\ pc = "test" /\ c = NoChar

-----------------------------------------------------------------------------
\* A key goes down, repeats or goes up.
Press(code) ==
    /\ Len(port) < PortSize
    /\ port' = Append(port, code)
    /\ IF code.key \notin ShiftKeys THEN UNCHANGED held
       ELSE IF code.down THEN held' = held \cup {code.key}
       ELSE code.key \in held /\ held' = held \ {code.key}
    /\ UNCHANGED <<driver, reader>>

\* hlt ends when an interrupt has been served.
Woken == IF pc = "halted" THEN "test" ELSE pc

SlipNoWrap(i) == i + 1
Succ(i) == (i + 1) % BufSize

SlipOverrun(ch) ==
    /\ kb_buf' = [kb_buf EXCEPT ![kb_head] = ch]
    /\ kb_head' = Succ(kb_head)

kb_buf_push(ch) ==
    IF Succ(kb_head) # kb_tail
      THEN /\ kb_buf' = [kb_buf EXCEPT ![kb_head] = ch]
           /\ kb_head' = Succ(kb_head)
      ELSE UNCHANGED <<kb_buf, kb_head>>

SlipOneShiftKey(code) ==
    /\ shift' = IF code.key \in ShiftKeys
                  THEN code.down \/ (code.key # CHOOSE k \in ShiftKeys : TRUE)
                  ELSE shift
    /\ caps' = IF code.key = CapsLock /\ code.down THEN ~caps ELSE caps

\* The flags translate_scancode keeps.  There is one for both shift keys.
Modifiers(code) ==
    /\ shift' = IF code.key \in ShiftKeys THEN code.down ELSE shift
    /\ caps' = IF code.key = CapsLock /\ code.down THEN ~caps ELSE caps

translate_scancode(code) ==
    IF code.down THEN CharsOf(code.key, shift, caps) ELSE {NoChar}

keyboard_irq_handler ==
    /\ port # <<>>
    /\ port' = Tail(port)
    /\ Modifiers(Head(port))
    /\ \E ch \in translate_scancode(Head(port)) :
           IF ch = NoChar THEN UNCHANGED <<kb_buf, kb_head>> ELSE kb_buf_push(ch)
    /\ pc' = Woken
    /\ UNCHANGED <<held, kb_tail, c>>

SlipTimerMasked == pc = "halted" /\ UNCHANGED vars

\* The timer interrupt, a hundred times a second; only a reader that has gone to
\* sleep notices.
pit_irq_handler ==
    /\ pc = "halted" /\ pc' = Woken
    /\ UNCHANGED <<keyboard, driver, kb_tail, c>>

-----------------------------------------------------------------------------
(* keyboard_getchar                                                         *)

Test ==
    /\ pc = "test"
    /\ pc' = IF kb_tail = kb_head THEN "hlt" ELSE "load"
    /\ UNCHANGED <<keyboard, driver, kb_tail, c>>

\* An interrupt that came between the test and this instruction is over.
Halt ==
    /\ pc = "hlt" /\ pc' = "halted"
    /\ UNCHANGED <<keyboard, driver, kb_tail, c>>

Load ==
    /\ pc = "load" /\ pc' = "advance"
    /\ c' = kb_buf[kb_tail]
    /\ UNCHANGED <<keyboard, driver, kb_tail>>

Advance ==
    /\ pc = "advance" /\ pc' = "return"
    /\ kb_tail' = Succ(kb_tail)
    /\ UNCHANGED <<keyboard, driver, c>>

\* The shell has done what the character asks for and calls again.
CallAgain ==
    /\ pc = "return" /\ pc' = "test"
    /\ UNCHANGED <<keyboard, driver, kb_tail, c>>

Getchar == Test \/ Halt \/ Load \/ Advance \/ CallAgain

Next ==
    \/ \E code \in Code : Press(code)
    \/ keyboard_irq_handler
    \/ pit_irq_handler
    \/ Getchar

\* The processor runs, the timer ticks, a pending interrupt is served and a
\* command comes back to the prompt.  Nobody has to type.
Spec ==
    /\ Init /\ [][Next]_vars
    /\ WF_vars(keyboard_irq_handler)
    /\ WF_vars(pit_irq_handler)
    /\ WF_vars(Getchar)

-----------------------------------------------------------------------------
(* What has to hold                                                         *)

\* Types; the two indices stay in the ring (keyboard.c:15-21, 80).
TypeOK ==
    /\ held \subseteq ShiftKeys
    /\ port \in Seq(Code)
    /\ shift \in BOOLEAN /\ caps \in BOOLEAN
    /\ kb_buf \in [Index -> Char \cup {NoChar}]
    /\ kb_head \in Index /\ kb_tail \in Index
    /\ pc \in {"test", "hlt", "halted", "load", "advance", "return"}
    /\ c \in Char \cup {NoChar}

\* A ring b that is read at t and written at h: how many characters wait, where
\* the i-th of them is, and what they are, oldest first.
Waiting(h, t) == IF t <= h THEN h - t ELSE h - t + BufSize
Place(t, i)   == IF t + i <= BufSize THEN t + i - 1 ELSE t + i - 1 - BufSize
Contents(b, h, t) == [i \in 1 .. Waiting(h, t) |-> b[Place(t, i)]]

Q == INSTANCE KeyQueue WITH
         Capacity <- BufSize - 1,
         queue <- Contents(kb_buf, kb_head, kb_tail),
         got <- IF pc = "return" THEN c ELSE NoChar

\* The ring shared by the handler and the interrupted reader is the queue of
\* KeyQueue: nothing is delivered twice, out of order, or lost while there is
\* room (keyboard.c:15-21, 74-82).
IsKeyQueue == Q!Spec

\* Once every code has been handled, shift is on only while a shift key is down
\* (keyboard.c:24-46).
ShiftNotStuck == shift /\ port = <<>> => held # {}

\* A character in the ring reaches the shell, also when it came after the reader
\* found the ring empty and before it went to sleep (keyboard.c:75-78): the timer
\* wakes it.
CharDelivered == (kb_head # kb_tail) ~> (pc = "return")
=============================================================================
