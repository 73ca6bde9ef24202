----------------------------- MODULE Interrupts -----------------------------
(***************************************************************************)
(* Interrupts from the power-on to the shell: the controller that          *)
(* pic_remap sets up, the stubs and irq_handler of src/src/kernel/idt.c    *)
(* and idt_asm.s, the timer, the keyboard controller's one-byte buffer,    *)
(* and the order in which src/src/entry.s and src/src/kernel.c bring them  *)
(* up.                                                                     *)
(*                                                                         *)
(* The devices on the lines are the timer (0), the keyboard (1) and the    *)
(* disk (14, through line 2 of the master), which ata.c polls without      *)
(* turning its interrupt off.  7 and 15 are what the controllers deliver   *)
(* when a request has gone away again.                                     *)
(*                                                                         *)
(* pic_remap puts back the masks it has found (idt.c:110-112, 130-132) and *)
(* nothing else writes them, so which lines get through is up to the       *)
(* firmware: Unmasked.  That the lines of timer and keyboard are among     *)
(* them is an assumption the whole kernel rests on and nowhere checks.     *)
(***************************************************************************)
EXTENDS Naturals

CONSTANTS
    Unmasked,   \* the lines of Devices that the firmware has left unmasked
    MaxTicks    \* bound: pit_ticks stays there

Devices == {0, 1, 14}
Slave   == {14}
Master  == {0, 1, 2}

ASSUME InterruptsAssumption == MaxTicks \in Nat \ {0}
ASSUME FirmwareMasks == {0, 1} \subseteq Unmasked /\ Unmasked \subseteq Devices

VARIABLES
    stage,      \* how far the boot sequence is
    irq_handlers,
    enabled,    \* the interrupt flag
    irr, isr,   \* requests and lines in service, of both controllers
    at, irq,    \* what the processor does, and which interrupt it serves
    full,       \* a byte waits in port 0x60
    early,      \* it was there before the controller was set up
    pit_ticks,
    seed        \* what the generator started from; 0 before that

kernel == <<stage, irq_handlers, enabled, seed>>
device == <<full, early>>
vars == <<stage, irq_handlers, enabled, irr, isr, at, irq, full, early, pit_ticks, seed>>

\* entry.s has switched interrupts off.
Init ==
    /\ stage = "entry" /\ irq_handlers = {} /\ enabled = FALSE
    /\ irr \in SUBSET Devices /\ isr = {}
    /\ at = "main" /\ irq = 0
    /\ full \in BOOLEAN /\ (full <=> 1 \in irr) /\ early = FALSE
    /\ pit_ticks = 0 /\ seed = 0

-----------------------------------------------------------------------------
(* kernel_main                                                              *)

Boot(from, to) == at = "main" /\ stage = from /\ stage' = to

\* Gates, pic_remap, IDT register and timer.  The first initialisation word drops
\* all requests, and a line that is up by then has to come down to be seen again.
idt_init ==
    /\ Boot("entry", "idt")
    /\ irr' = {} /\ early' = full
    /\ irq_handlers' = irq_handlers \cup {0}
    /\ UNCHANGED <<enabled, isr, at, irq, full, pit_ticks, seed>>

SlipHandlerLate ==
    /\ Boot("idt", "disk")
    /\ UNCHANGED <<irq_handlers, enabled, irr, isr, at, irq, device, pit_ticks, seed>>

SlipWrongLine ==
    /\ Boot("idt", "disk")
    /\ irq_handlers' = irq_handlers \cup {2}
    /\ UNCHANGED <<enabled, irr, isr, at, irq, device, pit_ticks, seed>>

init_keyboard ==
    /\ Boot("idt", "disk")
    /\ irq_handlers' = irq_handlers \cup {1}
    /\ UNCHANGED <<enabled, irr, isr, at, irq, device, pit_ticks, seed>>

\* Disk and file system have been initialised with interrupts off.
Sti ==
    /\ Boot("disk", "seed")
    /\ enabled' = TRUE
    /\ UNCHANGED <<irq_handlers, irr, isr, at, irq, device, pit_ticks, seed>>

Srand ==
    /\ Boot("seed", "shell")
    /\ seed' = IF pit_ticks = 0 THEN 1 ELSE pit_ticks
    /\ UNCHANGED <<irq_handlers, enabled, irr, isr, at, irq, device, pit_ticks>>

KernelMain == idt_init \/ init_keyboard \/ Sti \/ Srand

-----------------------------------------------------------------------------
(* The devices                                                              *)

\* A hundred times a second: the next tick comes after the last one was served.
\* Ticks that find a request waiting, as all but one before sti do, are lost.
Timer ==
    /\ 0 \notin isr
    /\ irr' = irr \cup {0}
    /\ UNCHANGED <<kernel, isr, at, irq, device, pit_ticks>>

\* The keyboard controller raises its line when it fills its empty buffer.
Key ==
    /\ ~full /\ full' = TRUE
    /\ irr' = irr \cup {1}
    /\ UNCHANGED <<kernel, isr, at, irq, early, pit_ticks>>

\* Some controllers ask again for a byte whose request pic_remap has dropped.
KeyAgain ==
    /\ early
    /\ irr' = irr \cup {1}
    /\ UNCHANGED <<kernel, isr, at, irq, device, pit_ticks>>

\* The drive wants attention, and ata.c reads its status before the interrupt is
\* taken, after which some controllers have forgotten it.
Drive ==
    /\ irr' \in {irr \cup {14}, irr \ {14}}
    /\ UNCHANGED <<kernel, isr, at, irq, device, pit_ticks>>

-----------------------------------------------------------------------------
(* The controllers and the processor                                        *)

\* The master's line a request comes in by; a lower one goes first.
Line(l) == IF l \in Slave THEN 2 ELSE l
Unblocked(l) == \A j \in isr \cap Master : Line(l) < j

Serve(l, service) ==
    /\ at = "main" /\ enabled
    /\ at' = "handler" /\ irq' = l /\ enabled' = FALSE
    /\ isr' = isr \cup service
    /\ UNCHANGED <<stage, irq_handlers, seed, device, pit_ticks>>

Interrupt(l) ==
    /\ l \in irr \cap Unmasked /\ Unblocked(l)
    /\ \A j \in irr \cap Unmasked : Line(l) <= Line(j)
    /\ irr' = irr \ {l}
    /\ Serve(l, {l, Line(l)})

\* The request has gone: the master puts nothing in service, the slave nothing of
\* its own.
Spurious ==
    \/ Serve(7, {}) /\ UNCHANGED irr
    \/ Unblocked(14) /\ Serve(15, {2}) /\ UNCHANGED irr

\* The handler of the table, if there is one: pit_irq_handler counts,
\* keyboard_irq_handler takes the byte.
Handler ==
    /\ at = "handler" /\ at' = "eoi"
    /\ pit_ticks' = IF irq = 0 /\ irq \in irq_handlers /\ pit_ticks < MaxTicks
                      THEN pit_ticks + 1 ELSE pit_ticks
    /\ IF irq = 1 /\ irq \in irq_handlers
         THEN full' = FALSE /\ early' = FALSE ELSE UNCHANGED device
    /\ UNCHANGED <<kernel, irr, isr, irq>>

\* An end of interrupt takes the first line out of service.
EndOf(lines) == lines \ {l \in lines : \A j \in lines : l <= j}

SlipSlaveOnly ==
    /\ at = "eoi" /\ at' = "main" /\ irq' = 0 /\ enabled' = TRUE
    /\ isr' = IF irq >= 8 THEN (isr \cap Master) \cup EndOf(isr \cap Slave)
              ELSE EndOf(isr \cap Master)
    /\ UNCHANGED <<stage, irq_handlers, seed, irr, device, pit_ticks>>

\* To the slave for its lines, to the master always; iretd enables interrupts.
EndOfInterrupt ==
    /\ at = "eoi" /\ at' = "main" /\ irq' = 0 /\ enabled' = TRUE
    /\ isr' = EndOf(isr \cap Master)
                \cup (IF irq >= 8 THEN EndOf(isr \cap Slave) ELSE isr \cap Slave)
    /\ UNCHANGED <<stage, irq_handlers, seed, irr, device, pit_ticks>>

irq_handler == Handler \/ EndOfInterrupt

Next ==
    \/ KernelMain
    \/ Timer \/ Key \/ KeyAgain \/ Drive
    \/ \E l \in Devices : Interrupt(l)
    \/ Spurious
    \/ irq_handler

\* The boot sequence gets on between interrupts, which are far apart, requests
\* of lines that are not masked are served and handlers end.  Nobody has to press a key, and the timer is not
\* needed.
Spec ==
    /\ Init /\ [][Next]_vars
    /\ SF_vars(KernelMain)
    /\ \A l \in Unmasked : SF_vars(Interrupt(l))
    /\ WF_vars(irq_handler)

-----------------------------------------------------------------------------
(* What has to hold                                                         *)

\* Types.  The part that can go wrong is the handler table: only the lines of the
\* timer and the keyboard ever get a handler.  The drive's has none, and is served
\* without one (idt.c:91-106; keyboard.c:92).
TypeOK ==
    /\ stage \in {"entry", "idt", "disk", "seed", "shell"}
    /\ irq_handlers \subseteq {0, 1}
    /\ enabled \in BOOLEAN
    /\ irr \subseteq Devices /\ isr \subseteq Devices \cup {2}
    /\ at \in {"main", "handler", "eoi"} /\ irq \in {0, 1, 7, 14, 15}
    /\ full \in BOOLEAN /\ early \in BOOLEAN
    /\ pit_ticks \in 0 .. MaxTicks /\ seed \in 0 .. MaxTicks

\* Whatever interrupted, a request that went away included, no line is left in
\* service when the handler is over: one that were left would shut out itself
\* and every line behind it (idt.c:91-106).
NothingLeftInService == at = "main" => isr = {}

\* Gates and handlers are there before the first interrupt is taken: a byte whose
\* interrupt finds no handler would stay in the port, and with it the last
\* interrupt of the keyboard (entry.s:46, kernel.c:17-18, 36).
ReadyForInterrupts ==
    at # "main" => stage \in {"seed", "shell"} /\ {0, 1} \subseteq irq_handlers

\* A byte that came after the controller was set up is taken from the port, also
\* when it came while the disk was being initialised with interrupts off.  A byte
\* that was there before waits until the line goes up again (keyboard.c:84-92).
\* This rests on FirmwareMasks: with line 1 masked no byte is ever taken.
ByteTaken == (full /\ ~early /\ stage # "entry") ~> ~full
=============================================================================
