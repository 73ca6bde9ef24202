------------------------------ MODULE KeyQueue ------------------------------
(***************************************************************************)
(* What the keyboard driver promises: a queue.  Every code the keyboard    *)
(* sends is looked at once and in order; the character it stands for goes  *)
(* to the end of the queue, and is lost only if the queue is full.  The    *)
(* reader gets the characters of the queue, each once and in order.        *)
(***************************************************************************)
EXTENDS Keys, Naturals, Sequences

CONSTANTS Capacity, PortSize

VARIABLES
    port,   \* codes the keyboard has sent
    queue,  \* characters waiting
    got     \* the one the reader is working on, or NoChar

vars == <<port, queue, got>>

Init == port = <<>> /\ queue = <<>> /\ got = NoChar

Send ==
    /\ Len(port) < PortSize
    /\ \E code \in Code : port' = Append(port, code)
    /\ UNCHANGED <<queue, got>>

May(code) ==
    IF code.down
      THEN UNION {CharsOf(code.key, s, l) : s \in BOOLEAN, l \in BOOLEAN}
      ELSE {NoChar}

Accept ==
    /\ port # <<>>
    /\ port' = Tail(port)
    /\ \E ch \in May(Head(port)) :
           queue' = IF ch = NoChar \/ Len(queue) = Capacity
                      THEN queue ELSE Append(queue, ch)
    /\ UNCHANGED got

Deliver ==
    /\ got = NoChar /\ queue # <<>>
    /\ got' = Head(queue) /\ queue' = Tail(queue)
    /\ UNCHANGED port

Use ==
    /\ got # NoChar /\ got' = NoChar
    /\ UNCHANGED <<port, queue>>

Next == Send \/ Accept \/ Deliver \/ Use
Spec == Init /\ [][Next]_vars
=============================================================================
