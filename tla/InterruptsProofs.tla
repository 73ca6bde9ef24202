-------------------------- MODULE InterruptsProofs --------------------------
(***************************************************************************)
(* Proofs about Interrupts, however far the ticks are counted.             *)
(***************************************************************************)
EXTENDS Interrupts, TLAPS

-----------------------------------------------------------------------------
(* What is in service while interrupt i is handled, and what its end of      *)
(* interrupt takes out: the first line of each controller.                   *)

InService(i) == CASE i = 7  -> {}
                  [] i = 14 -> {2, 14}
                  [] i = 15 -> {2}
                  [] OTHER  -> {i}

LEMMA EndOfSmall ==
    /\ EndOf({}) = {}
    /\ \A l \in Nat : EndOf({l}) = {}
  BY DEF EndOf

LEMMA EndEmpties ==
    ASSUME NEW i \in {0, 1, 7, 14, 15}
    PROVE  EndOf(InService(i) \cap Master)
               \cup (IF i >= 8 THEN EndOf(InService(i) \cap Slave)
                               ELSE InService(i) \cap Slave) = {}
<1>1. CASE i \in {0, 1}
  <2>1. InService(i) \cap Master = {i} /\ InService(i) \cap Slave = {}
    BY <1>1 DEF InService, Master, Slave
  <2> QED
    BY <1>1, <2>1, EndOfSmall
<1>2. CASE i = 7
  <2>1. InService(i) \cap Master = {} /\ InService(i) \cap Slave = {}
    BY <1>2 DEF InService, Master, Slave
  <2> QED
    BY <1>2, <2>1, EndOfSmall
<1>3. CASE i = 14
  <2>1. InService(i) \cap Master = {2} /\ InService(i) \cap Slave = {14}
    BY <1>3 DEF InService, Master, Slave
  <2> QED
    BY <1>3, <2>1, EndOfSmall
<1>4. CASE i = 15
  <2>1. InService(i) \cap Master = {2} /\ InService(i) \cap Slave = {}
    BY <1>4 DEF InService, Master, Slave
  <2> QED
    BY <1>4, <2>1, EndOfSmall
<1> QED
  BY <1>1, <1>2, <1>3, <1>4

-----------------------------------------------------------------------------
(* The inductive invariant                                                  *)

Served == isr = IF at = "main" THEN {} ELSE InService(irq)

Order ==
    /\ stage \in {"entry", "idt", "disk"} => at = "main" /\ ~enabled
    /\ stage = "idt" => 0 \in irq_handlers
    /\ stage \in {"disk", "seed", "shell"} => {0, 1} \subseteq irq_handlers

BootInv == TypeOK /\ Served /\ Order

LEMMA InitInv == Init => BootInv
<1> SUFFICES ASSUME Init PROVE BootInv
  OBVIOUS
<1>1. full \in BOOLEAN
  BY DEF Init
<1>2. 0 \in 0 .. MaxTicks
  BY InterruptsAssumption
<1>3. TypeOK
  BY <1>1, <1>2 DEF Init, TypeOK, Devices
<1>4. Served /\ Order
  BY DEF Init, Served, Order
<1> QED
  BY <1>3, <1>4 DEF BootInv

LEMMA KernelMainInv == ASSUME BootInv, KernelMain PROVE BootInv'
<1> USE DEF BootInv, KernelMain, Boot
<1>1. Served'
  BY DEF Served, idt_init, init_keyboard, Sti, Srand
<1>2. Order'
  BY DEF Order, idt_init, init_keyboard, Sti, Srand
<1>3. irr' \subseteq Devices /\ irq_handlers' \subseteq {0, 1}
  BY DEF TypeOK, idt_init, init_keyboard, Sti, Srand
<1>4. seed' \in 0 .. MaxTicks
  BY InterruptsAssumption DEF TypeOK, idt_init, init_keyboard, Sti, Srand
<1>5. enabled' \in BOOLEAN /\ full' \in BOOLEAN /\ early' \in BOOLEAN
  BY Zenon DEF TypeOK, idt_init, init_keyboard, Sti, Srand, device
<1>6. TypeOK'
  BY <1>3, <1>5, <1>4 DEF TypeOK, idt_init, init_keyboard, Sti, Srand
<1> QED
  BY <1>1, <1>2, <1>6

LEMMA DeviceInv == ASSUME BootInv, Timer \/ Key \/ KeyAgain \/ Drive PROVE BootInv'
<1> USE DEF BootInv, Timer, Key, KeyAgain, Drive, kernel
<1>1. Served' /\ Order'
  BY DEF Served, Order
<1>2. irr' \subseteq Devices
  BY DEF TypeOK, Devices
<1>3. full' \in BOOLEAN /\ early' \in BOOLEAN
  BY Zenon DEF TypeOK, device
<1>4. TypeOK'
  BY <1>2, <1>3 DEF TypeOK
<1> QED
  BY <1>1, <1>4

LEMMA ServeInv ==
    ASSUME BootInv, NEW l \in {0, 1, 7, 14, 15}, Serve(l, InService(l)),
           irr' = irr \/ irr' = irr \ {l}
    PROVE  BootInv'
<1> USE DEF BootInv, Serve
<1>1. Served'
  BY DEF Served
<1>2. Order'
  BY DEF Order
<1>3. isr' = InService(l)
  BY <1>1 DEF Served
<1>4. irr' \subseteq Devices /\ isr' \subseteq Devices \cup {2}
  <2>1. irr' \subseteq Devices
    BY DEF TypeOK
  <2>2. InService(l) \subseteq Devices \cup {2} \/ l \in {7, 15}
    BY DEF InService, Devices
  <2>3. l \in {7, 15} => InService(l) \subseteq Devices \cup {2}
    BY DEF InService
  <2> QED
    BY <1>3, <2>1, <2>2, <2>3
<1>5. TypeOK'
  BY <1>4 DEF TypeOK, device
<1> QED
  BY <1>1, <1>2, <1>5

LEMMA InterruptInv ==
    ASSUME BootInv, NEW l \in Devices, Interrupt(l) PROVE BootInv'
<1>1. {l, Line(l)} = InService(l)
  BY DEF Devices, Line, Slave, InService
<1> QED
  BY <1>1, ServeInv DEF Interrupt, Devices

LEMMA SpuriousInv == ASSUME BootInv, Spurious PROVE BootInv'
<1>1. InService(7) = {} /\ InService(15) = {2}
  BY DEF InService
<1> QED
  BY <1>1, ServeInv DEF Spurious

LEMMA HandlerInv == ASSUME BootInv, Handler PROVE BootInv'
<1> USE DEF BootInv, Handler, kernel
<1>1. Served' /\ Order'
  BY DEF Served, Order
<1>2. pit_ticks' \in 0 .. MaxTicks
  BY InterruptsAssumption DEF TypeOK
<1>3. full' \in BOOLEAN /\ early' \in BOOLEAN
  BY Zenon DEF TypeOK, device
<1>4. TypeOK'
  BY <1>2, <1>3 DEF TypeOK
<1> QED
  BY <1>1, <1>4

LEMMA EndOfInterruptInv == ASSUME BootInv, EndOfInterrupt PROVE BootInv'
<1> USE DEF BootInv, EndOfInterrupt
<1>1. irq \in {0, 1, 7, 14, 15} /\ isr = InService(irq)
  BY DEF TypeOK, Served
<1>2. isr' = {}
  BY <1>1, EndEmpties
<1>3. Served' /\ Order'
  BY <1>2 DEF Served, Order
<1>4. TypeOK'
  BY <1>2 DEF TypeOK, device
<1> QED
  BY <1>3, <1>4

LEMMA NextInv == BootInv /\ [Next]_vars => BootInv'
<1> SUFFICES ASSUME BootInv, [Next]_vars PROVE BootInv'
  OBVIOUS
<1>1. CASE UNCHANGED vars
  BY <1>1 DEF vars, BootInv, TypeOK, Served, Order
<1>2. CASE KernelMain
  BY <1>2, KernelMainInv
<1>3. CASE Timer \/ Key \/ KeyAgain \/ Drive
  BY <1>3, DeviceInv
<1>4. ASSUME NEW l \in Devices, Interrupt(l) PROVE BootInv'
  BY <1>4, InterruptInv
<1>5. CASE Spurious
  BY <1>5, SpuriousInv
<1>6. CASE Handler \/ EndOfInterrupt
  BY <1>6, HandlerInv, EndOfInterruptInv
<1> QED
  BY <1>1, <1>2, <1>3, <1>4, <1>5, <1>6 DEF Next, irq_handler

LEMMA BootInvariant == Spec => []BootInv
  BY InitInv, NextInv, PTL DEF Spec

-----------------------------------------------------------------------------
(* What it gives                                                            *)

\* Also after a spurious interrupt, both controllers are free when a handler is
\* over (idt.c:91-106).
THEOREM ServiceEnds == Spec => []NothingLeftInService
<1>1. BootInv => NothingLeftInService
  BY DEF BootInv, Served, NothingLeftInService
<1> QED
  BY <1>1, BootInvariant, PTL

\* The first interrupt finds every gate and handler (entry.s:46, kernel.c:17-36).
THEOREM FirstInterruptReady == Spec => []ReadyForInterrupts
<1>1. BootInv => ReadyForInterrupts
  BY DEF BootInv, TypeOK, Order, ReadyForInterrupts
<1> QED
  BY <1>1, BootInvariant, PTL

\* Types, and with them that the handler table never gets a third line
\* (idt.c:77-106, keyboard.c:92).
THEOREM TypeCorrect == Spec => []TypeOK
<1>1. BootInv => TypeOK
  BY DEF BootInv
<1> QED
  BY <1>1, BootInvariant, PTL
=============================================================================
