--------------------------- MODULE KeyboardProofs ---------------------------
(***************************************************************************)
(* Proofs about Keyboard, for every size of the ring and every keyboard.   *)
(***************************************************************************)
EXTENDS Keyboard, SequenceTheorems, TLAPS

Ring == [Index -> Char \cup {NoChar}]

-----------------------------------------------------------------------------
(* The ring as data                                                         *)

LEMMA SuccWraps ==
    \A i \in Index : Succ(i) = IF i + 1 = BufSize THEN 0 ELSE i + 1
  BY KeyboardAssumption DEF Index, Succ

LEMMA SuccInIndex == \A i \in Index : Succ(i) \in Index
  BY SuccWraps, KeyboardAssumption DEF Index

LEMMA WaitingBound ==
    ASSUME NEW h \in Index, NEW t \in Index
    PROVE  /\ Waiting(h, t) \in 0 .. BufSize - 1
           /\ Waiting(h, t) = 0 <=> h = t
           /\ Waiting(h, t) = BufSize - 1 <=> Succ(h) = t
           /\ \A i \in 1 .. Waiting(h, t) : Place(t, i) \in Index /\ Place(t, i) # h
  BY SuccWraps, KeyboardAssumption DEF Index, Waiting, Place

\* A function on 1 .. n is a sequence of length n.
LEMMA FunctionIsSeq ==
    ASSUME NEW S, NEW n \in Nat, NEW f \in [1 .. n -> S]
    PROVE  f \in Seq(S) /\ Len(f) = n
<1>1. f \in Seq(S)
  BY SeqDef
<1>2. DOMAIN f = 1 .. Len(f) /\ Len(f) \in Nat
  BY <1>1, LenProperties
<1>3. 1 .. n = 1 .. Len(f)
  BY <1>2
<1> QED
  BY <1>1, <1>2, <1>3

\* Every place that is waiting has been written.
Stocked(b, h, t) == \A i \in 1 .. Waiting(h, t) : b[Place(t, i)] \in Char

LEMMA ContentsType ==
    ASSUME NEW b \in Ring, NEW h \in Index, NEW t \in Index, Stocked(b, h, t)
    PROVE  /\ Contents(b, h, t) \in Seq(Char)
           /\ Len(Contents(b, h, t)) = Waiting(h, t)
           /\ \A i \in 1 .. Waiting(h, t) : Contents(b, h, t)[i] = b[Place(t, i)]
<1>1. Waiting(h, t) \in Nat
  BY WaitingBound, KeyboardAssumption
<1>2. Contents(b, h, t) \in [1 .. Waiting(h, t) -> Char]
  BY DEF Contents, Stocked
<1>3. \A i \in 1 .. Waiting(h, t) : Contents(b, h, t)[i] = b[Place(t, i)]
  BY DEF Contents
<1> QED
  BY <1>1, <1>2, <1>3, FunctionIsSeq

\* Writing at the head and moving it on appends.
LEMMA PushAppends ==
    ASSUME NEW b \in Ring, NEW h \in Index, NEW t \in Index, Stocked(b, h, t),
           NEW ch \in Char, Succ(h) # t
    PROVE  LET bb == [b EXCEPT ![h] = ch]
           IN  /\ bb \in Ring
               /\ Stocked(bb, Succ(h), t)
               /\ Contents(bb, Succ(h), t) = Append(Contents(b, h, t), ch)
<1> DEFINE bb == [b EXCEPT ![h] = ch]
           n  == Waiting(h, t)
<1>1. bb \in Ring /\ Succ(h) \in Index
  BY SuccInIndex DEF Ring
<1>2. n \in Nat /\ Waiting(Succ(h), t) = n + 1 /\ Place(t, n + 1) = h
  BY SuccWraps, KeyboardAssumption DEF Index, Waiting, Place
<1>3. \A i \in 1 .. n : bb[Place(t, i)] = b[Place(t, i)]
  BY WaitingBound DEF Ring
<1>4. bb[h] = ch
  BY DEF Ring
<1>5. \A i \in 1 .. n + 1 : i \in 1 .. n \/ i = n + 1
  BY <1>2
<1>6. Stocked(bb, Succ(h), t)
  BY <1>2, <1>3, <1>4, <1>5 DEF Stocked
<1>7. /\ Contents(b, h, t) \in Seq(Char) /\ Len(Contents(b, h, t)) = n
      /\ \A i \in 1 .. n : Contents(b, h, t)[i] = b[Place(t, i)]
  BY ContentsType
<1> HIDE DEF bb, n
<1>8. /\ Contents(bb, Succ(h), t) \in Seq(Char)
      /\ Len(Contents(bb, Succ(h), t)) = n + 1
      /\ \A i \in 1 .. n + 1 : Contents(bb, Succ(h), t)[i] = bb[Place(t, i)]
  <2>1. /\ Contents(bb, Succ(h), t) \in Seq(Char)
        /\ Len(Contents(bb, Succ(h), t)) = Waiting(Succ(h), t)
        /\ \A i \in 1 .. Waiting(Succ(h), t) :
               Contents(bb, Succ(h), t)[i] = bb[Place(t, i)]
    BY <1>1, <1>6, ContentsType
  <2> QED
    BY <1>2, <2>1
<1>9. /\ Append(Contents(b, h, t), ch) \in Seq(Char)
      /\ Len(Append(Contents(b, h, t), ch)) = n + 1
      /\ \A i \in 1 .. n : Append(Contents(b, h, t), ch)[i] = Contents(b, h, t)[i]
      /\ Append(Contents(b, h, t), ch)[n + 1] = ch
  BY <1>7, AppendProperties
<1>10. \A i \in 1 .. n + 1 :
           Contents(bb, Succ(h), t)[i] = Append(Contents(b, h, t), ch)[i]
  BY <1>2, <1>3, <1>4, <1>5, <1>7, <1>8, <1>9
<1>11. Contents(bb, Succ(h), t) = Append(Contents(b, h, t), ch)
  BY <1>8, <1>9, <1>10, SeqEqual
<1> QED
  BY <1>1, <1>6, <1>11 DEF bb

\* Moving the tail on takes the first character away.
LEMMA PopTakesHead ==
    ASSUME NEW b \in Ring, NEW h \in Index, NEW t \in Index, Stocked(b, h, t),
           h # t
    PROVE  /\ Stocked(b, h, Succ(t))
           /\ b[t] \in Char
           /\ Contents(b, h, t) # <<>>
           /\ Head(Contents(b, h, t)) = b[t]
           /\ Tail(Contents(b, h, t)) = Contents(b, h, Succ(t))
<1> DEFINE n == Waiting(h, t)
           q == Contents(b, h, t)
<1>1. Succ(t) \in Index
  BY SuccInIndex
<1>2. /\ n \in Nat \ {0} /\ Waiting(h, Succ(t)) = n - 1 /\ Place(t, 1) = t
      /\ \A i \in 1 .. n - 1 : Place(Succ(t), i) = Place(t, i + 1)
  BY SuccWraps, KeyboardAssumption DEF Index, Waiting, Place
<1>3. \A i \in 1 .. n - 1 : i + 1 \in 1 .. n
  BY <1>2
<1>4. Stocked(b, h, Succ(t)) /\ b[t] \in Char
  BY <1>2, <1>3 DEF Stocked
<1>5. q \in Seq(Char) /\ Len(q) = n /\ \A i \in 1 .. n : q[i] = b[Place(t, i)]
  BY ContentsType
<1>6. /\ Contents(b, h, Succ(t)) \in Seq(Char)
      /\ Len(Contents(b, h, Succ(t))) = n - 1
      /\ \A i \in 1 .. n - 1 : Contents(b, h, Succ(t))[i] = b[Place(Succ(t), i)]
  BY <1>1, <1>2, <1>4, ContentsType
<1>7. q # <<>>
  BY <1>2, <1>5, EmptySeq
<1> HIDE DEF n, q
<1>8. Head(q) = q[1] /\ Tail(q) \in Seq(Char) /\ Len(Tail(q)) = n - 1
      /\ \A i \in 1 .. n - 1 : Tail(q)[i] = q[i + 1]
  BY <1>2, <1>5, <1>7
<1>9. Head(q) = b[t]
  BY <1>2, <1>5, <1>8
<1>10. \A i \in 1 .. n - 1 : Tail(q)[i] = Contents(b, h, Succ(t))[i]
  BY <1>2, <1>3, <1>5, <1>6, <1>8
<1>11. Tail(q) = Contents(b, h, Succ(t))
  BY <1>6, <1>8, <1>10, SeqEqual
<1> QED
  BY <1>4, <1>7, <1>9, <1>11 DEF q

-----------------------------------------------------------------------------
(* The invariant                                                            *)

(***************************************************************************)
(* What the reader relies on between its instructions: it passes the test  *)
(* only on a ring that is not empty, the handler never empties it, and     *)
(* never writes where the reader reads.                                    *)
(***************************************************************************)
ReaderSafe ==
    /\ Stocked(kb_buf, kb_head, kb_tail)
    /\ pc \in {"load", "advance"} => kb_head # kb_tail
    /\ pc = "advance" => c = kb_buf[kb_tail]
    /\ pc = "return" => c \in Char

RingInv == TypeOK /\ ReaderSafe

LEMMA CharsOfType ==
    ASSUME NEW k \in Keys, NEW s \in BOOLEAN, NEW l \in BOOLEAN
    PROVE  CharsOf(k, s, l) \subseteq Char \cup {NoChar}
<1>1. \A u \in BOOLEAN :
          k \in Letters \cup Symbols \cup Controls => Legend(k, u) \in Char
  BY DEF Legend, Char
<1>2. CASE k \in Letters
  <2>1. CASE s
    BY <1>1, <1>2, <2>1 DEF CharsOf
  <2>2. CASE ~s
    BY <1>1, <1>2, <2>2 DEF CharsOf
  <2> QED
    BY <2>1, <2>2
<1>3. CASE k \notin Letters
  BY <1>1, <1>3 DEF CharsOf
<1> QED
  BY <1>2, <1>3

\* KeyQueue sees the same keys and codes.
LEMMA SameKeys ==
    /\ Q!Code = Code
    /\ \A k, s, l : Q!CharsOf(k, s, l) = CharsOf(k, s, l)
<1>1. Q!Code = Code
  BY DEF Q!Code, Code, Q!Keys, Keys
<1>2. Q!Char = Char /\ \A k, u : Q!Legend(k, u) = Legend(k, u)
  BY DEF Q!Char, Char, Q!Legend, Legend
<1>3. ASSUME NEW k, NEW s, NEW l PROVE Q!CharsOf(k, s, l) = CharsOf(k, s, l)
  BY <1>2 DEF Q!CharsOf, CharsOf
<1> QED
  BY <1>1, <1>3

LEMMA TranslateType ==
    ASSUME TypeOK, NEW code \in Code
    PROVE  translate_scancode(code) \subseteq Char \cup {NoChar}
  BY CharsOfType DEF TypeOK, translate_scancode, Code

LEMMA PortHead ==
    ASSUME TypeOK, port # <<>>
    PROVE  Head(port) \in Code /\ Tail(port) \in Seq(Code)
  BY HeadTailProperties DEF TypeOK

\* The ring of a state is a ring.
LEMMA RingType == TypeOK => kb_buf \in Ring
  BY DEF TypeOK, Ring

LEMMA InitInv == Init => RingInv
<1> SUFFICES ASSUME Init PROVE RingInv
  OBVIOUS
<1>1. TypeOK
  BY KeyboardAssumption DEF Init, TypeOK, Index
<1>2. Waiting(kb_head, kb_tail) = 0
  BY DEF Init, Waiting
<1>3. ReaderSafe
  BY <1>2 DEF Init, ReaderSafe, Stocked
<1> QED
  BY <1>1, <1>3 DEF RingInv

LEMMA PressInv ==
    ASSUME RingInv, NEW code \in Code, Press(code) PROVE RingInv'
<1>1. port' \in Seq(Code)
  BY AppendProperties DEF RingInv, TypeOK, Press
<1>2. held' \subseteq ShiftKeys
  BY DEF RingInv, TypeOK, Press
<1>3. TypeOK'
  BY <1>1, <1>2 DEF RingInv, TypeOK, Press, driver, reader
<1>4. ReaderSafe'
  BY DEF RingInv, ReaderSafe, Stocked, Waiting, Place, Press, driver, reader
<1> QED
  BY <1>3, <1>4 DEF RingInv

\* The handler in the middle of the reader: what it does to the ring.
LEMMA PushStep ==
    ASSUME RingInv, NEW ch \in Char, kb_buf_push(ch), kb_tail' = kb_tail
    PROVE  /\ kb_buf' \in Ring /\ kb_head' \in Index
           /\ Stocked(kb_buf', kb_head', kb_tail)
           /\ kb_head # kb_tail => kb_head' # kb_tail /\ kb_buf'[kb_tail] = kb_buf[kb_tail]
           /\ Contents(kb_buf', kb_head', kb_tail) =
                  LET q == Contents(kb_buf, kb_head, kb_tail)
                  IN  IF Len(q) = BufSize - 1 THEN q ELSE Append(q, ch)
<1>1. /\ kb_buf \in Ring /\ kb_head \in Index /\ kb_tail \in Index
      /\ Stocked(kb_buf, kb_head, kb_tail)
  BY RingType DEF RingInv, TypeOK, ReaderSafe
<1>2. Len(Contents(kb_buf, kb_head, kb_tail)) = Waiting(kb_head, kb_tail)
  BY <1>1, ContentsType
<1>3. Waiting(kb_head, kb_tail) = BufSize - 1 <=> Succ(kb_head) = kb_tail
  BY <1>1, WaitingBound
<1>4. CASE Succ(kb_head) = kb_tail
  BY <1>1, <1>2, <1>3, <1>4 DEF kb_buf_push
<1>5. CASE Succ(kb_head) # kb_tail
  <2>1. kb_buf' = [kb_buf EXCEPT ![kb_head] = ch] /\ kb_head' = Succ(kb_head)
    BY <1>5 DEF kb_buf_push
  <2>2. /\ kb_buf' \in Ring
        /\ Stocked(kb_buf', kb_head', kb_tail)
        /\ Contents(kb_buf', kb_head', kb_tail) =
               Append(Contents(kb_buf, kb_head, kb_tail), ch)
    BY <1>1, <1>5, <2>1, PushAppends
  <2>3. kb_head' \in Index
    BY <1>1, <2>1, SuccInIndex
  <2>4. kb_head # kb_tail =>
            kb_head' # kb_tail /\ kb_buf'[kb_tail] = kb_buf[kb_tail]
    BY <1>1, <1>5, <2>1 DEF Ring
  <2> QED
    BY <1>2, <1>3, <1>5, <2>2, <2>3, <2>4
<1> QED
  BY <1>4, <1>5

LEMMA IrqInv ==
    ASSUME RingInv, keyboard_irq_handler PROVE RingInv'
<1>1. Head(port) \in Code /\ port' \in Seq(Code)
  BY PortHead DEF RingInv, keyboard_irq_handler
<1>2. shift' \in BOOLEAN /\ caps' \in BOOLEAN
  BY <1>1 DEF RingInv, TypeOK, keyboard_irq_handler, Modifiers, Code
<1>3. PICK ch \in translate_scancode(Head(port)) :
          IF ch = NoChar THEN UNCHANGED <<kb_buf, kb_head>> ELSE kb_buf_push(ch)
  BY DEF keyboard_irq_handler
<1>4. ch \in Char \cup {NoChar}
  BY <1>1, <1>3, TranslateType DEF RingInv
<1>5. /\ kb_buf' \in Ring /\ kb_head' \in Index
      /\ Stocked(kb_buf', kb_head', kb_tail)
      /\ kb_head # kb_tail => kb_head' # kb_tail /\ kb_buf'[kb_tail] = kb_buf[kb_tail]
  <2>1. CASE ch = NoChar
    BY <1>3, <2>1, RingType DEF RingInv, TypeOK, ReaderSafe
  <2>2. CASE ch # NoChar
    BY <1>3, <1>4, <2>2, PushStep DEF keyboard_irq_handler
  <2> QED
    BY <2>1, <2>2
<1>6. pc' = Woken /\ UNCHANGED <<held, kb_tail, c>>
  BY DEF keyboard_irq_handler
<1>7. TypeOK'
  BY <1>1, <1>2, <1>5, <1>6 DEF RingInv, TypeOK, Woken, Ring
<1>8. ReaderSafe'
  BY <1>5, <1>6 DEF RingInv, ReaderSafe, Stocked, Waiting, Place, Woken
<1> QED
  BY <1>7, <1>8 DEF RingInv

LEMMA AdvanceInv ==
    ASSUME RingInv, Advance PROVE RingInv'
<1>1. /\ kb_buf \in Ring /\ kb_head \in Index /\ kb_tail \in Index
      /\ Stocked(kb_buf, kb_head, kb_tail) /\ kb_head # kb_tail
      /\ c = kb_buf[kb_tail]
  BY RingType DEF RingInv, TypeOK, ReaderSafe, Advance
<1>2. Stocked(kb_buf, kb_head, Succ(kb_tail)) /\ c \in Char
  BY <1>1, PopTakesHead
<1>3. Succ(kb_tail) \in Index
  BY <1>1, SuccInIndex
<1>4. TypeOK'
  BY <1>3 DEF RingInv, TypeOK, Advance, keyboard, driver
<1>5. ReaderSafe'
  BY <1>2 DEF ReaderSafe, Stocked, Waiting, Place, Advance, driver
<1> QED
  BY <1>4, <1>5 DEF RingInv

LEMMA LoadInv ==
    ASSUME RingInv, Load PROVE RingInv'
<1>1. TypeOK'
  BY DEF RingInv, TypeOK, Load, keyboard, driver
<1>2. ReaderSafe'
  BY DEF RingInv, ReaderSafe, Stocked, Waiting, Place, Load, driver
<1> QED
  BY <1>1, <1>2 DEF RingInv

\* The steps that only move the reader on.
LEMMA OtherInv ==
    ASSUME RingInv, pit_irq_handler \/ Test \/ Halt \/ CallAgain
    PROVE  RingInv'
<1>1. TypeOK'
  BY DEF RingInv, TypeOK, pit_irq_handler, Test, Halt, CallAgain, Woken,
         keyboard, driver
<1>2. ReaderSafe'
  BY DEF RingInv, ReaderSafe, Stocked, Waiting, Place,
         pit_irq_handler, Test, Halt, CallAgain, Woken, driver
<1> QED
  BY <1>1, <1>2 DEF RingInv

LEMMA NextInv == RingInv /\ [Next]_vars => RingInv'
<1> SUFFICES ASSUME RingInv, [Next]_vars PROVE RingInv'
  OBVIOUS
<1>1. ASSUME NEW code \in Code, Press(code) PROVE RingInv'
  BY <1>1, PressInv
<1>2. CASE keyboard_irq_handler
  BY <1>2, IrqInv
<1>3. CASE Load
  BY <1>3, LoadInv
<1>4. CASE Advance
  BY <1>4, AdvanceInv
<1>5. CASE pit_irq_handler \/ Test \/ Halt \/ CallAgain
  BY <1>5, OtherInv
<1>6. CASE UNCHANGED vars
  BY <1>6 DEF vars, RingInv, TypeOK, ReaderSafe, Stocked, Waiting, Place
<1> QED
  BY <1>1, <1>2, <1>3, <1>4, <1>5, <1>6 DEF Next, Getchar

THEOREM Invariance == Spec => []RingInv
<1> QED
  BY InitInv, NextInv, PTL DEF Spec

\* The indices stay in the ring and every variable in its range, whatever the
\* keyboard sends (keyboard.c:15-21, 74-82).
THEOREM TypeCorrect == Spec => []TypeOK
<1>1. RingInv => TypeOK
  BY DEF RingInv
<1> QED
  BY <1>1, Invariance, PTL

-----------------------------------------------------------------------------
(* The ring is a queue                                                      *)

Got == IF pc = "return" THEN c ELSE NoChar
Held == Contents(kb_buf, kb_head, kb_tail)

LEMMA InitMaps == Init => Q!Init
<1> SUFFICES ASSUME Init PROVE Q!Init
  OBVIOUS
<1>1. Waiting(kb_head, kb_tail) = 0
  BY DEF Init, Waiting
<1>2. Held \in Seq(Char) /\ Len(Held) = 0
  BY <1>1, InitInv, RingType, ContentsType
     DEF Init, Held, RingInv, TypeOK, ReaderSafe
<1>3. Held = <<>>
  BY <1>2, EmptySeq
<1> QED
  BY <1>3 DEF Init, Q!Init, Held

LEMMA PressMaps ==
    ASSUME RingInv, NEW code \in Code, Press(code) PROVE Q!Send
<1>1. UNCHANGED <<Held, Got>>
  BY DEF Press, driver, reader, Held, Got, Contents, Waiting, Place
<1> QED
  BY <1>1, SameKeys DEF Press, Q!Send, Held, Got

LEMMA IrqMaps ==
    ASSUME RingInv, keyboard_irq_handler PROVE Q!Accept
<1>1. Head(port) \in Code
  BY PortHead DEF RingInv, keyboard_irq_handler
<1>2. PICK ch \in translate_scancode(Head(port)) :
          IF ch = NoChar THEN UNCHANGED <<kb_buf, kb_head>> ELSE kb_buf_push(ch)
  BY DEF keyboard_irq_handler
<1>3. ch \in Char \cup {NoChar}
  BY <1>1, <1>2, TranslateType DEF RingInv
<1>4. ch \in Q!May(Head(port))
  <2>1. shift \in BOOLEAN /\ caps \in BOOLEAN
    BY DEF RingInv, TypeOK
  <2>2. CASE Head(port).down
    <3>1. ch \in Q!CharsOf(Head(port).key, shift, caps)
      BY <1>2, <2>2, SameKeys DEF translate_scancode
    <3> QED
      BY <2>1, <2>2, <3>1 DEF Q!May
  <2>3. CASE ~Head(port).down
    BY <1>2, <2>3 DEF translate_scancode, Q!May
  <2> QED
    BY <2>2, <2>3
<1>5. kb_tail' = kb_tail
  BY DEF keyboard_irq_handler
<1>6. Held' = IF ch = NoChar \/ Len(Held) = BufSize - 1
                THEN Held ELSE Append(Held, ch)
  <2>1. CASE ch = NoChar
    BY <1>2, <1>5, <2>1 DEF Held, Contents, Waiting, Place
  <2>2. CASE ch # NoChar
    <3>1. ch \in Char /\ kb_buf_push(ch)
      BY <1>2, <1>3, <2>2
    <3>2. Contents(kb_buf', kb_head', kb_tail) =
              IF Len(Held) = BufSize - 1 THEN Held ELSE Append(Held, ch)
      BY <1>5, <3>1, PushStep DEF Held
    <3>3. Held' = Contents(kb_buf', kb_head', kb_tail)
      BY <1>5 DEF Held, Contents, Waiting, Place
    <3> QED
      BY <2>2, <3>2, <3>3
  <2> QED
    BY <2>1, <2>2
<1>7. Got' = Got
  BY DEF keyboard_irq_handler, Woken, Got
<1>8. port # <<>> /\ port' = Tail(port)
  BY DEF keyboard_irq_handler
<1> QED
  BY <1>4, <1>6, <1>7, <1>8 DEF Q!Accept, Held, Got

LEMMA AdvanceMaps ==
    ASSUME RingInv, Advance PROVE Q!Deliver
<1>1. /\ kb_buf \in Ring /\ kb_head \in Index /\ kb_tail \in Index
      /\ Stocked(kb_buf, kb_head, kb_tail) /\ kb_head # kb_tail
      /\ c = kb_buf[kb_tail]
  BY RingType DEF RingInv, TypeOK, ReaderSafe, Advance
<1>2. Held # <<>> /\ c = Head(Held) /\ Tail(Held) = Contents(kb_buf, kb_head, Succ(kb_tail))
  BY <1>1, PopTakesHead DEF Held
<1>3. Held' = Contents(kb_buf, kb_head, Succ(kb_tail))
  BY DEF Advance, driver, Held, Contents, Waiting, Place
<1>4. Got = NoChar /\ Got' = c /\ port' = port
  BY DEF Advance, keyboard, Got
<1> QED
  BY <1>2, <1>3, <1>4 DEF Q!Deliver, Held, Got

LEMMA CallAgainMaps ==
    ASSUME RingInv, CallAgain PROVE Q!Use
<1>1. Got \in Char /\ Got' = NoChar
  BY DEF CallAgain, RingInv, ReaderSafe, Got
<1>2. Held' = Held /\ port' = port
  BY DEF CallAgain, keyboard, driver, Held, Contents, Waiting, Place
<1> QED
  BY <1>1, <1>2, KeysAssumption DEF Q!Use, Held, Got

\* What the reader does before it takes the character is invisible.
LEMMA OtherMaps ==
    ASSUME RingInv, pit_irq_handler \/ Test \/ Halt \/ Load \/ UNCHANGED vars
    PROVE  UNCHANGED Q!vars
<1>1. UNCHANGED <<port, Held, Got>>
  BY DEF pit_irq_handler, Test, Halt, Load, vars, Woken, keyboard, driver,
         Held, Got, Contents, Waiting, Place
<1> QED
  BY <1>1 DEF Q!vars, Held, Got

LEMMA NextMaps == RingInv /\ [Next]_vars => [Q!Next]_(Q!vars)
<1> SUFFICES ASSUME RingInv, [Next]_vars PROVE [Q!Next]_(Q!vars)
  OBVIOUS
<1>1. ASSUME NEW code \in Code, Press(code) PROVE Q!Next
  BY <1>1, PressMaps DEF Q!Next
<1>2. CASE keyboard_irq_handler
  BY <1>2, IrqMaps DEF Q!Next
<1>3. CASE Advance
  BY <1>3, AdvanceMaps DEF Q!Next
<1>4. CASE CallAgain
  BY <1>4, CallAgainMaps DEF Q!Next
<1>5. CASE pit_irq_handler \/ Test \/ Halt \/ Load \/ UNCHANGED vars
  BY <1>5, OtherMaps
<1> QED
  BY <1>1, <1>2, <1>3, <1>4, <1>5 DEF Next, Getchar

\* The ring, written by the interrupt handler and read between interrupts, is a
\* queue that loses a character only when it is full, and delivers every other
\* once and in order, for every size of the ring (keyboard.c:15-21, 74-82).
THEOREM RingIsQueue == Spec => IsKeyQueue
<1>1. Init => Q!Init
  BY InitMaps
<1>2. RingInv /\ [Next]_vars => [Q!Next]_(Q!vars)
  BY NextMaps
<1> QED
  BY <1>1, <1>2, Invariance, PTL DEF Spec, IsKeyQueue, Q!Spec

-----------------------------------------------------------------------------
(* The shift flag                                                           *)

IsShift(code) == code.key \in ShiftKeys

\* Nothing about shift waits behind place i of the port.
Settled(i) == \A j \in 1 .. Len(port) : i < j => ~IsShift(port[j])

\* The flag lags behind the keys by the codes in the port: the last shift code
\* there tells what it will be, and the flag itself does when there is none.
ShiftFollows ==
    /\ shift /\ Settled(0) => held # {}
    /\ \A i \in 1 .. Len(port) :
           IsShift(port[i]) /\ port[i].down /\ Settled(i) => held # {}

LEMMA PressShift ==
    ASSUME TypeOK, ShiftFollows, NEW code \in Code, Press(code)
    PROVE  ShiftFollows'
<1> DEFINE n == Len(port)
<1>1. /\ port \in Seq(Code) /\ n \in Nat
      /\ Len(port') = n + 1 /\ port'[n + 1] = code
      /\ \A i \in 1 .. n : port'[i] = port[i]
      /\ shift' = shift
  BY AppendProperties, LenProperties DEF TypeOK, Press, driver
<1> HIDE DEF n
<1>2. CASE ~IsShift(code)
  <2>1. held' = held
    BY <1>2 DEF Press, IsShift
  <2>2. \A i \in 0 .. n : Settled(i)' => Settled(i)
    BY <1>1 DEF Settled, n
  <2>3. shift' /\ Settled(0)' => held' # {}
    BY <1>1, <2>1, <2>2 DEF ShiftFollows
  <2>4. ASSUME NEW i \in 1 .. n + 1, IsShift(port'[i]), port'[i].down, Settled(i)'
        PROVE  held' # {}
    <3>1. i \in 1 .. n /\ port'[i] = port[i]
      BY <1>1, <1>2, <2>4
    <3> QED
      BY <1>1, <2>1, <2>2, <2>4, <3>1 DEF ShiftFollows, n
  <2> QED
    BY <1>1, <2>3, <2>4 DEF ShiftFollows, IsShift
<1>3. CASE IsShift(code)
  <2>1. \A i \in 0 .. n : ~Settled(i)'
    BY <1>1, <1>3 DEF Settled, IsShift
  <2>2. code.down => held' # {}
    BY <1>3 DEF Press, IsShift
  <2>3. shift' /\ Settled(0)' => held' # {}
    BY <1>1, <2>1
  <2>4. ASSUME NEW i \in 1 .. n + 1, IsShift(port'[i]), port'[i].down, Settled(i)'
        PROVE  held' # {}
    <3>1. i = n + 1
      BY <1>1, <2>1, <2>4
    <3> QED
      BY <1>1, <2>2, <2>4, <3>1
  <2> QED
    BY <1>1, <2>3, <2>4 DEF ShiftFollows, IsShift
<1> QED
  BY <1>2, <1>3

LEMMA IrqShift ==
    ASSUME TypeOK, ShiftFollows, keyboard_irq_handler PROVE ShiftFollows'
<1> DEFINE n == Len(port)
<1>1. /\ port \in Seq(Code) /\ port # <<>> /\ n \in Nat \ {0}
      /\ Len(port') = n - 1
      /\ \A i \in 1 .. n - 1 : port'[i] = port[i + 1]
      /\ Head(port) = port[1]
      /\ held' = held
  BY HeadTailProperties, LenProperties, EmptySeq DEF TypeOK, keyboard_irq_handler
<1> HIDE DEF n
<1>2. shift' = IF IsShift(port[1]) THEN port[1].down ELSE shift
  BY <1>1 DEF keyboard_irq_handler, Modifiers, IsShift
<1>3. \A i \in 0 .. n - 1 : Settled(i)' => Settled(i + 1)
  <2> SUFFICES ASSUME NEW i \in 0 .. n - 1, Settled(i)',
                      NEW j \in 1 .. n, i + 1 < j
               PROVE  ~IsShift(port[j])
    BY <1>1 DEF Settled, n
  <2>1. j - 1 \in 1 .. n - 1 /\ i < j - 1 /\ port'[j - 1] = port[j]
    BY <1>1
  <2> QED
    BY <1>1, <2>1 DEF Settled, IsShift
<1>4. shift' /\ Settled(0)' => held' # {}
  <2> SUFFICES ASSUME shift', Settled(0)' PROVE held # {}
    BY <1>1
  <2>1. Settled(1)
    BY <1>1, <1>3
  <2>2. CASE IsShift(port[1])
    <3>1. port[1].down
      BY Zenon, <1>2, <2>2
    <3>2. 1 \in 1 .. Len(port)
      BY <1>1 DEF n
    <3> QED
      BY Zenon, <2>1, <2>2, <3>1, <3>2 DEF ShiftFollows
  <2>3. CASE ~IsShift(port[1])
    <3>1. Settled(0)
      BY <1>1, <2>1, <2>3 DEF Settled, n
    <3> QED
      BY <1>2, <2>3, <3>1 DEF ShiftFollows
  <2> QED
    BY <2>2, <2>3
<1>5. ASSUME NEW i \in 1 .. n - 1, IsShift(port'[i]), port'[i].down, Settled(i)'
      PROVE  held' # {}
  <2>1. i + 1 \in 1 .. n /\ i \in 0 .. n - 1 /\ port'[i] = port[i + 1]
    BY <1>1
  <2>2. Settled(i + 1)
    BY <1>3, <1>5, <2>1
  <2>3. IsShift(port[i + 1]) /\ port[i + 1].down
    BY <1>5, <2>1 DEF IsShift
  <2> QED
    BY <1>1, <2>1, <2>2, <2>3 DEF ShiftFollows, n
<1> QED
  BY <1>1, <1>4, <1>5 DEF ShiftFollows, IsShift

LEMMA OtherShift ==
    ASSUME ShiftFollows, UNCHANGED <<held, port, shift>> PROVE ShiftFollows'
  BY DEF ShiftFollows, Settled

\* Two keys share one flag and codes wait in the keyboard, but once they have been
\* handled, shift is on only while a shift key is down, for any number of shift
\* keys and of codes that wait (keyboard.c:24-46).
THEOREM ShiftIsReleased == Spec => []ShiftNotStuck
<1>1. Init => ShiftFollows
  BY DEF Init, ShiftFollows
<1>2. TypeOK /\ ShiftFollows /\ [Next]_vars => ShiftFollows'
  <2> SUFFICES ASSUME TypeOK, ShiftFollows, [Next]_vars PROVE ShiftFollows'
    OBVIOUS
  <2>1. ASSUME NEW code \in Code, Press(code) PROVE ShiftFollows'
    BY <2>1, PressShift
  <2>2. CASE keyboard_irq_handler
    BY <2>2, IrqShift
  <2>3. CASE pit_irq_handler \/ Getchar \/ UNCHANGED vars
    <3>1. UNCHANGED <<held, port, shift>>
      BY <2>3 DEF pit_irq_handler, Getchar, Test, Halt, Load, Advance, CallAgain,
                  keyboard, driver, vars
    <3> QED
      BY <3>1, OtherShift
  <2> QED
    BY <2>1, <2>2, <2>3 DEF Next
<1>3. ShiftFollows => ShiftNotStuck
  BY DEF ShiftFollows, Settled, ShiftNotStuck
<1> QED
  BY <1>1, <1>2, <1>3, TypeCorrect, PTL DEF Spec
=============================================================================
