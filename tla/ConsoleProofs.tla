---------------------------- MODULE ConsoleProofs ----------------------------
(***************************************************************************)
(* What stands on the screen of Console, for every size of it, every text  *)
(* of the system (TextsFit) and every line: printing is a fold, so what    *)
(* holds before and after each character is carried along the text by      *)
(* induction.                                                              *)
(***************************************************************************)
EXTENDS Console, Recursion, SequenceTheorems

Cells   == Chars \cup Glyphs \cup {NUL, Space}
Printed == Cells \cup {NL, BS}
Screens == [VGA : [0 .. Size - 1 -> Cells], pos : Int]

\* The arithmetic of the screen: it has at least two rows of three cells.
LEMMA SizeFacts ==
    /\ Width \in Nat /\ Width >= 3 /\ Height \in Nat /\ Height >= 2
    /\ Size \in Nat /\ Size = Width * Height /\ Size >= Width + Width
<1>1. Width \in Nat /\ Width >= 3 /\ Height \in Nat /\ Height >= 2
  <2>1. Width >= 3
    BY Zenon, TextsFit
  <2>2. Width \in Nat /\ Height \in Nat \ {0, 1}
    BY ConsoleAssumption
  <2> QED
    BY <2>1, <2>2
<1>2. Size = Width * Height
  BY DEF Size
<1>3. Width * Height >= Width + Width /\ Width * Height \in Nat
  <2>1. PICK k \in Nat : Height = k + 2
    BY <1>1
  <2>2. Width * (k + 2) = Width * k + Width + Width /\ Width * k \in Nat
    BY <1>1, <2>1
  <2> QED
    BY <1>1, <2>1, <2>2
<1> QED
  BY <1>1, <1>2, <1>3

\* The control characters are none of those that a cell can hold, but for NUL.
LEMMA CharacterFacts ==
    /\ NL \notin Cells /\ BS \notin Cells /\ NL # BS /\ NUL # Space
    /\ NUL \notin Chars \cup Glyphs /\ Chars \subseteq Cells /\ Glyphs \subseteq Cells
<1>1. NL # BS /\ NL # NUL /\ NL # Space /\ BS # NUL /\ BS # Space /\ NUL # Space
  BY DEF NL, BS, NUL, Space
<1> QED
  BY <1>1, ControlCharacters DEF Cells

\* What is at place i of the text memory; behind it is nothing.
CellOf(s, i) == IF i \in 0 .. Size - 1 THEN s.VGA[i] ELSE NUL

LEMMA StoreEffect ==
    ASSUME NEW s \in Screens, NEW i \in Int, NEW ch \in Cells
    PROVE  /\ Store(s, i, ch) \in [0 .. Size - 1 -> Cells]
           /\ \A k \in 0 .. Size - 1 : Store(s, i, ch)[k] = IF k = i THEN ch ELSE s.VGA[k]
  BY DEF Store, Screens

\* scroll_screen: each cell gets what stood a row below it, the last row nothing.
LEMMA ScrollEffect ==
    ASSUME NEW s \in Screens
    PROVE  /\ scroll_screen(s) \in Screens
           /\ scroll_screen(s).pos = s.pos - Width
           /\ \A k \in 0 .. Size - 1 :
                 scroll_screen(s).VGA[k] = CellOf(s, k + Width)
<1>1. \A k \in 0 .. Size - 1 : k + Width < Size => k + Width \in 0 .. Size - 1
  BY SizeFacts
<1>2. \A k \in 0 .. Size - 1 : ~(k + Width < Size) => k + Width \notin 0 .. Size - 1
  BY SizeFacts
<1>3. NUL \in Cells /\ s.pos - Width \in Int
  BY SizeFacts DEF Cells, Screens
<1> DEFINE to == [i \in 0 .. Size - 1 |->
                     IF i + Width < Size THEN s.VGA[i + Width] ELSE NUL]
<1>4. \A k \in 0 .. Size - 1 : to[k] = CellOf(s, k + Width) /\ to[k] \in Cells
  BY <1>1, <1>2, <1>3 DEF CellOf, Screens
<1>5. to \in [0 .. Size - 1 -> Cells]
  BY <1>4
<1>6. scroll_screen(s) = [VGA |-> to, pos |-> s.pos - Width]
  BY DEF scroll_screen
<1> HIDE DEF to
<1> QED
  BY <1>3, <1>4, <1>5, <1>6 DEF Screens

\* A character: on a full screen it moves everything up by a line first.
LEMMA PutCharacter ==
    ASSUME NEW s \in Screens, NEW ch \in Cells
    PROVE  /\ Put(s, ch) \in Screens
           /\ s.pos < Size =>
                 /\ Put(s, ch).pos = s.pos + 1
                 /\ \A k \in 0 .. Size - 1 :
                       Put(s, ch).VGA[k] = IF k = s.pos THEN ch ELSE CellOf(s, k)
           /\ s.pos >= Size =>
                 /\ Put(s, ch).pos = s.pos - Width + 1
                 /\ \A k \in 0 .. Size - 1 :
                       Put(s, ch).VGA[k] =
                           IF k = s.pos - Width THEN ch ELSE CellOf(s, k + Width)
<1> DEFINE w == Wrap(s)
<1>1. w \in Screens
  BY ScrollEffect DEF Wrap
<1>2. w.pos \in Int
  BY <1>1 DEF Screens
<1>3. ch # NL /\ ch # BS
  BY CharacterFacts
<1>4. Put(s, ch) = [VGA |-> Store(w, w.pos, ch), pos |-> w.pos + 1]
  BY <1>3 DEF Put
<1> HIDE DEF w
<1>5. /\ Put(s, ch) \in Screens /\ Put(s, ch).pos = w.pos + 1
      /\ \A k \in 0 .. Size - 1 : Put(s, ch).VGA[k] = IF k = w.pos THEN ch ELSE w.VGA[k]
  BY <1>1, <1>2, <1>4, StoreEffect DEF Screens
<1>6. s.pos < Size => w = s
  BY SizeFacts DEF Wrap, w, Screens
<1>7. s.pos >= Size => w = scroll_screen(s)
  BY DEF Wrap, w
<1> QED
  BY <1>5, <1>6, <1>7, ScrollEffect DEF CellOf

\* Backspace blanks the cell before the position and goes there.
LEMMA PutBackspace ==
    ASSUME NEW s \in Screens
    PROVE  /\ Put(s, BS) \in Screens
           /\ Put(s, BS).pos = s.pos - 1
           /\ \A k \in 0 .. Size - 1 :
                 Put(s, BS).VGA[k] = IF k = s.pos - 1 THEN Space ELSE s.VGA[k]
<1>1. s.pos - 1 \in Int /\ Space \in Cells /\ BS # NL
  BY CharacterFacts DEF Screens, Cells
<1>2. Put(s, BS) = [VGA |-> Store(s, s.pos - 1, Space), pos |-> s.pos - 1]
  BY <1>1 DEF Put
<1> QED
  BY <1>1, <1>2, StoreEffect DEF Screens

\* A line feed only moves the position.
LEMMA PutLineFeed ==
    ASSUME NEW s \in Screens
    PROVE  /\ Put(s, NL) \in Screens
           /\ Put(s, NL).VGA = s.VGA
           /\ Put(s, NL).pos = (s.pos \div Width + 1) * Width
<1>1. (s.pos \div Width + 1) * Width \in Int
  BY SizeFacts DEF Screens
<1>2. Put(s, NL) = [s EXCEPT !.pos = (s.pos \div Width + 1) * Width]
  BY CharacterFacts DEF Put, handle_next_line
<1> QED
  BY <1>1, <1>2 DEF Screens

LEMMA PutType ==
    ASSUME NEW s \in Screens, NEW ch \in Printed
    PROVE  Put(s, ch) \in Screens
  BY PutCharacter, PutBackspace, PutLineFeed DEF Printed

\* The next line begins behind the position and not more than a line away.
LEMMA NextLine ==
    ASSUME NEW p \in Nat, NEW m \in Nat
    PROVE  /\ (p \div Width + 1) * Width > p
           /\ p < m * Width => (p \div Width + 1) * Width <= m * Width
<1> DEFINE q == p \div Width
           r == p % Width
<1>1. Width \in Nat /\ Width > 0
  BY SizeFacts
<1>2. q \in Int /\ r \in 0 .. Width - 1 /\ p = Width * q + r
  BY <1>1
<1> HIDE DEF q, r
<1>3. (q + 1) * Width = Width * q + Width
  BY <1>1, <1>2
<1>4. ASSUME p < m * Width PROVE q + 1 <= m
  <2> SUFFICES ASSUME q >= m PROVE FALSE
    BY <1>2
  <2>1. Width * q >= Width * m /\ Width * m = m * Width
    BY <1>1, <1>2
  <2> QED
    BY <1>1, <1>2, <1>4, <2>1
<1>5. ASSUME p < m * Width PROVE (q + 1) * Width <= m * Width
  BY <1>1, <1>2, <1>4, <1>5
<1> QED
  BY <1>1, <1>2, <1>3, <1>5 DEF q

-----------------------------------------------------------------------------
(* print_msg                                                                *)

\* What holds of the screen in In[k] before character k + 1 and leads to In[k + 1]
\* holds at the end.
Leads(In, text) ==
    \A k \in 0 .. Len(text) - 1 : \A s \in In[k] : Put(s, text[k + 1]) \in In[k + 1]

\* print_msg is a fold: a chain of sets that each character respects leads to its end.
LEMMA Printing ==
    ASSUME NEW text \in Seq(Printed), NEW In, NEW base \in Screens,
           base \in In[0], Leads(In, text)
    PROVE  print_msg(base, text) \in In[Len(text)] \cap Screens
<1> DEFINE n == Len(text)
           V == Screens
           step == [i \in Nat |-> [h \in V |-> IF i \in 1 .. n THEN Put(h, text[i]) ELSE h]]
           body(g, s) == IF s = {} THEN base ELSE Put(g[s \ {Max(s)}], text[Max(s)])
<1>1. n \in Nat /\ DOMAIN text = 1 .. n /\ \A i \in 1 .. n : text[i] \in Printed
  BY LenProperties, ElementOfSeq
<1>2. PICK g : FoldsOver(g, n, V, base, step)
  <2>1. ASSUME NEW i \in Nat, NEW h \in V
        PROVE  (IF i \in 1 .. n THEN Put(h, text[i]) ELSE h) \in V
    BY <1>1, PutType
  <2>2. base \in V
    OBVIOUS
  <2> HIDE DEF n, V
  <2>3. IsStep(step, V)
    BY <2>1 DEF IsStep
  <2> HIDE DEF step
  <2> QED
    BY <1>1, <2>2, <2>3, Folding
<1>3. g = [s \in SUBSET (1 .. n) |-> body(g, s)]
  <2>1. g \in [SUBSET (1 .. n) -> V] /\ g[{}] = base
    BY <1>2 DEF FoldsOver
  <2>2. ASSUME NEW s \in SUBSET (1 .. n), s # {}
        PROVE  g[s] = Put(g[s \ {Max(s)}], text[Max(s)])
    <3>1. g[s] = step[Max(s)][g[s \ {Max(s)}]]
      BY <1>2, <2>2 DEF FoldsOver
    <3>2. Max(s) \in s
      BY <1>1, <2>2, MaxOfSome
    <3>3. Max(s) \in 1 .. n /\ Max(s) \in Nat /\ s \ {Max(s)} \in SUBSET (1 .. n)
      <4>1. \A x \in s : x \in 1 .. n /\ x \in Nat
        OBVIOUS
      <4>2. s \ {Max(s)} \subseteq 1 .. n
        BY <4>1
      <4> QED
        BY <3>2, <4>1, <4>2
    <3>4. g[s \ {Max(s)}] \in V
      BY <2>1, <3>3
    <3> HIDE DEF V, n
    <3> QED
      BY <3>1, <3>3, <3>4
  <2>3. \A s \in SUBSET (1 .. n) : g[s] = body(g, s)
    BY <2>1, <2>2
  <2> HIDE DEF V, n, body
  <2> QED
    BY <2>1, <2>3
<1> DEFINE iter == CHOOSE f : f = [s \in SUBSET DOMAIN text |-> body(f, s)]
<1>4. iter = [s \in SUBSET (1 .. n) |-> body(iter, s)]
  <2> HIDE DEF body
  <2> QED
    BY <1>1, <1>3
<1>5. print_msg(base, text) = iter[DOMAIN text]
  BY DEF print_msg, FoldLeft, MapThenFoldSet
<1> HIDE DEF iter
<1> DEFINE T == {k \in Nat : k <= n => iter[1 .. k] \in In[k] \cap V}
<1>6. 0 \in T
  <2>1. 1 .. 0 = {} /\ {} \in SUBSET (1 .. n)
    OBVIOUS
  <2>2. iter[{}] = base
    BY <1>4, <2>1
  <2>3. iter[1 .. 0] \in In[0] \cap V
    <3> HIDE DEF n
    <3> QED
      BY <2>1, <2>2
  <2> HIDE DEF V, n
  <2> QED
    BY <2>3
<1>7. ASSUME NEW k \in Nat, k \in T
      PROVE  k + 1 \in T
  <2> SUFFICES ASSUME k + 1 <= n
               PROVE  iter[1 .. k + 1] \in In[k + 1] \cap V
    OBVIOUS
  <2>1. Max(1 .. k + 1) = k + 1 /\ (1 .. k + 1) \ {k + 1} = 1 .. k
    BY MaxUpto
  <2>2. /\ 1 .. k + 1 \in SUBSET (1 .. n) /\ 1 .. k + 1 # {} /\ k + 1 \in 1 .. n
        /\ k \in 0 .. n - 1
    <3>1. k + 1 \in Nat /\ k + 1 \in 1 .. n /\ k \in 0 .. n - 1 /\ k + 1 \in 1 .. k + 1
      BY <1>1
    <3>2. \A x \in 1 .. k + 1 : x \in 1 .. n
      BY <1>1, <3>1
    <3> HIDE DEF n
    <3> QED
      BY <3>1, <3>2
  <2>3. iter[1 .. k + 1] = body(iter, 1 .. k + 1)
    <3> HIDE DEF body, n
    <3> QED
      BY <1>4, <2>2
  <2>4. iter[1 .. k + 1] = Put(iter[1 .. k], text[k + 1])
    BY <2>1, <2>2, <2>3
  <2>5. iter[1 .. k] \in In[k] /\ iter[1 .. k] \in Screens /\ text[k + 1] \in Printed
    BY <1>1, <1>7, <2>2
  <2>6. Put(iter[1 .. k], text[k + 1]) \in In[k + 1]
    BY <2>2, <2>5 DEF Leads
  <2> QED
    BY <2>4, <2>5, <2>6, PutType
<1> HIDE DEF T
<1>8. n \in T
  BY <1>1, <1>6, <1>7, Induction
<1> QED
  BY <1>1, <1>5, <1>8 DEF T

-----------------------------------------------------------------------------
(* Texts                                                                    *)

\* Nothing is left behind the position.
Clean(s) == \A i \in 0 .. Size - 1 : i >= s.pos => s.VGA[i] \in {NUL, Space}

\* How far the position may be if k characters are missing to bring it back.
Reach(k) ==
    CASE k = 0 -> Size
      [] k = 1 -> Size + 2
      [] k = 2 -> Size + Width + 1
      [] OTHER -> Size + Width + Width

Behind(k) == {s \in Screens : s.pos \in 0 .. Reach(k) /\ Clean(s)}

LEMMA ReachFacts ==
    /\ Reach(0) = Size /\ Reach(1) = Size + 2 /\ Reach(2) = Size + Width + 1
    /\ Reach(3) = Size + Width + Width
  BY DEF Reach

\* One line feed more: the position gets at most a row further away.
LEMMA LateFeed ==
    ASSUME NEW k \in 0 .. 2, NEW s \in Behind(k)
    PROVE  Put(s, NL) \in Behind(Late(k, NL))
<1>1. /\ s \in Screens /\ s.pos \in Nat /\ s.pos <= Reach(k) /\ Clean(s)
  BY SizeFacts, ReachFacts DEF Behind
<1> DEFINE next == (s.pos \div Width + 1) * Width
<1>2. Put(s, NL) \in Screens /\ Put(s, NL).VGA = s.VGA /\ Put(s, NL).pos = next
  BY <1>1, PutLineFeed
<1>3. next > s.pos /\ next \in Int
  BY <1>1, NextLine, SizeFacts
<1>4. \A m \in Nat : s.pos < m * Width => next <= m * Width
  BY <1>1, NextLine
<1>5. /\ (Height + 1) * Width = Size + Width
      /\ (Height + 2) * Width = Size + Width + Width
  BY SizeFacts
<1>6. next <= Reach(Late(k, NL))
  <2> HIDE DEF next
  <2>1. CASE k = 0
    <3>1. s.pos < (Height + 1) * Width /\ Height + 1 \in Nat
      BY <1>1, <1>5, <2>1, ReachFacts, SizeFacts
    <3>2. next <= Size + Width
      BY <1>4, <1>5, <3>1
    <3> QED
      BY <2>1, <3>2, <1>3, ReachFacts, SizeFacts DEF Late
  <2>2. CASE k = 1
    <3>1. s.pos < (Height + 1) * Width /\ Height + 1 \in Nat
      BY <1>1, <1>5, <2>2, ReachFacts, SizeFacts
    <3>2. next <= Size + Width
      BY <1>4, <1>5, <3>1
    <3> QED
      BY <2>2, <3>2, <1>3, ReachFacts, SizeFacts DEF Late
  <2>3. CASE k = 2
    <3>1. s.pos < (Height + 2) * Width /\ Height + 2 \in Nat
      BY <1>1, <1>5, <2>3, ReachFacts, SizeFacts
    <3>2. next <= Size + Width + Width
      BY <1>4, <1>5, <3>1
    <3> QED
      BY <2>3, <3>2, <1>3, ReachFacts, SizeFacts DEF Late
  <2> QED
    BY <2>1, <2>2, <2>3
<1> HIDE DEF next
<1>7. Clean(Put(s, NL))
  BY <1>1, <1>2, <1>3 DEF Clean
<1>8. Late(k, NL) \in 0 .. 3 /\ Reach(Late(k, NL)) \in Int
  BY ReachFacts, SizeFacts DEF Late
<1> QED
  BY <1>1, <1>2, <1>3, <1>6, <1>7, <1>8 DEF Behind

\* One character more: behind the screen it takes back a row less one cell.
LEMMA LateCharacter ==
    ASSUME NEW k \in 0 .. 3, NEW s \in Behind(k), NEW ch \in Cells
    PROVE  Put(s, ch) \in Behind(Late(k, ch))
<1>1. /\ s \in Screens /\ s.pos \in Nat /\ s.pos <= Reach(k) /\ Clean(s)
  BY SizeFacts, ReachFacts DEF Behind
<1>2. ch # NL
  BY CharacterFacts
<1>3. /\ Late(k, ch) \in 0 .. 3
      /\ k = 0 => Late(k, ch) = 0
      /\ k # 0 => Late(k, ch) = k - 1
  BY <1>2 DEF Late
<1>4. CASE s.pos < Size
  <2>1. /\ Put(s, ch) \in Screens /\ Put(s, ch).pos = s.pos + 1
        /\ \A i \in 0 .. Size - 1 :
              Put(s, ch).VGA[i] = IF i = s.pos THEN ch ELSE CellOf(s, i)
    BY <1>1, <1>4, PutCharacter
  <2>2. Clean(Put(s, ch))
    BY <1>1, <2>1 DEF Clean, CellOf
  <2>3. s.pos + 1 \in 0 .. Reach(Late(k, ch))
    BY <1>1, <1>3, <1>4, ReachFacts, SizeFacts
  <2> QED
    BY <2>1, <2>2, <2>3 DEF Behind
<1>5. CASE s.pos >= Size
  <2>1. /\ Put(s, ch) \in Screens /\ Put(s, ch).pos = s.pos - Width + 1
        /\ \A i \in 0 .. Size - 1 :
              Put(s, ch).VGA[i] = IF i = s.pos - Width THEN ch ELSE CellOf(s, i + Width)
    BY <1>1, <1>5, PutCharacter
  <2>2. Clean(Put(s, ch))
    <3> SUFFICES ASSUME NEW i \in 0 .. Size - 1, i >= s.pos - Width + 1
                 PROVE  CellOf(s, i + Width) \in {NUL, Space} /\ i # s.pos - Width
      BY <1>1, <2>1, SizeFacts DEF Clean
    <3>1. i + Width >= s.pos /\ i # s.pos - Width
      BY <1>1, SizeFacts
    <3> QED
      BY <1>1, <3>1 DEF Clean, CellOf
  <2>3. s.pos - Width + 1 \in 0 .. Reach(Late(k, ch))
    BY <1>1, <1>3, <1>5, ReachFacts, SizeFacts
  <2> QED
    BY <2>1, <2>2, <2>3 DEF Behind
<1> QED
  BY <1>1, <1>4, <1>5, SizeFacts

\* One character further in a text that fits.
LEMMA LatePut ==
    ASSUME NEW k \in 0 .. 3, NEW s \in Behind(k), NEW ch \in Cells \cup {NL},
           Late(k, ch) \in 0 .. 3
    PROVE  Put(s, ch) \in Behind(Late(k, ch))
<1>1. CASE ch = NL
  <2>1. k \in 0 .. 2
    BY <1>1 DEF Late
  <2> QED
    BY <1>1, <2>1, LateFeed
<1>2. CASE ch # NL
  BY <1>2, LateCharacter
<1> QED
  BY <1>1, <1>2

LEMMA BehindMore ==
    ASSUME NEW k \in 0 .. 3
    PROVE  Behind(k) \subseteq Behind(3)
  BY ReachFacts, SizeFacts DEF Behind

-----------------------------------------------------------------------------
(* What stands in front of the position                                     *)

\* The first n characters of a text end at the position; the first two may be gone.
ShownTo(s, text, n) ==
    \A i \in 1 .. n :
        \/ CellOf(s, s.pos - n + i - 1) = text[i]
        \/ i <= 2 /\ CellOf(s, s.pos - n + i - 1) = NUL

\* A character goes behind the text that ends at the position, scrolled or not.
LEMMA ShowsOn ==
    ASSUME NEW s \in Screens, NEW text, NEW n \in Nat, NEW ch \in Cells,
           s.pos >= 0, n <= 1 \/ s.pos <= Size + 2, n - 2 <= Size - Width,
           text[n + 1] = ch, ShownTo(s, text, n)
    PROVE  ShownTo(Put(s, ch), text, n + 1)
<1>1. s.pos \in Nat
  BY DEF Screens
<1> SUFFICES ASSUME NEW i \in 1 .. n + 1
             PROVE  \/ CellOf(Put(s, ch), Put(s, ch).pos - (n + 1) + i - 1) = text[i]
                    \/ i <= 2 /\ CellOf(Put(s, ch), Put(s, ch).pos - (n + 1) + i - 1) = NUL
  BY DEF ShownTo
<1> DEFINE q == s.pos - n + i - 1
<1>2. q \in Int /\ (i = n + 1 => q = s.pos) /\ (i # n + 1 => q < s.pos /\ i \in 1 .. n)
  BY <1>1
<1>3. i # n + 1 => CellOf(s, q) = text[i] \/ (i <= 2 /\ CellOf(s, q) = NUL)
  BY <1>2 DEF ShownTo
<1>4. CASE s.pos < Size
  <2>1. /\ Put(s, ch).pos = s.pos + 1
        /\ \A k \in 0 .. Size - 1 :
              Put(s, ch).VGA[k] = IF k = s.pos THEN ch ELSE CellOf(s, k)
    BY <1>4, PutCharacter
  <2>2. Put(s, ch).pos - (n + 1) + i - 1 = q
    BY <1>1, <2>1
  <2>3. CellOf(Put(s, ch), q) = IF i = n + 1 THEN ch ELSE CellOf(s, q)
    BY <1>1, <1>2, <1>4, <2>1, SizeFacts DEF CellOf
  <2> HIDE DEF q
  <2> QED
    BY <1>3, <2>2, <2>3
<1>5. CASE s.pos >= Size
  <2>1. /\ Put(s, ch).pos = s.pos - Width + 1
        /\ \A k \in 0 .. Size - 1 :
              Put(s, ch).VGA[k] = IF k = s.pos - Width THEN ch ELSE CellOf(s, k + Width)
    BY <1>5, PutCharacter
  <2>2. Put(s, ch).pos - (n + 1) + i - 1 = q - Width
    BY <1>1, <2>1, SizeFacts
  <2>3. CASE i = n + 1
    <3>1. i <= 2 \/ q - Width \in 0 .. Size - 1
      BY <1>1, <1>2, <1>5, <2>3, SizeFacts
    <3>2. q - Width \in 0 .. Size - 1 => CellOf(Put(s, ch), q - Width) = ch
      BY <1>2, <2>1, <2>3 DEF CellOf
    <3>3. q - Width \notin 0 .. Size - 1 => CellOf(Put(s, ch), q - Width) = NUL
      BY DEF CellOf
    <3> HIDE DEF q
    <3> QED
      BY <2>2, <2>3, <3>1, <3>2, <3>3
  <2>4. CASE i # n + 1
    <3>1. i <= 2 \/ q - Width >= 0
      BY <1>1, <1>5, SizeFacts
    <3>2. q - Width \in 0 .. Size - 1 => CellOf(Put(s, ch), q - Width) = CellOf(s, q)
      BY <1>1, <1>2, <2>1, <2>4, SizeFacts DEF CellOf
    <3>3. q - Width \notin 0 .. Size - 1 =>
              /\ CellOf(Put(s, ch), q - Width) = NUL
              /\ q - Width >= 0 => CellOf(s, q) = NUL
      BY <1>2, SizeFacts DEF CellOf
    <3> HIDE DEF q
    <3> QED
      BY <1>2, <1>3, <2>2, <2>4, <3>1, <3>2, <3>3
  <2> QED
    BY <2>3, <2>4
<1> QED
  BY <1>1, <1>4, <1>5, SizeFacts

-----------------------------------------------------------------------------
(* One key                                                                  *)

LEMMA PrintCharacter ==
    ASSUME NEW s \in Screens, NEW ch \in Cells
    PROVE  print_msg(s, <<ch>>) = Put(s, ch)
<1> DEFINE In == [k \in Nat |-> IF k = 0 THEN {s} ELSE {Put(s, ch)}]
<1>1. <<ch>> \in Seq(Printed) /\ Len(<<ch>>) = 1 /\ <<ch>>[1] = ch
  BY DEF Printed
<1>2. s \in In[0] /\ In[1] = {Put(s, ch)}
  OBVIOUS
<1>3. Leads(In, <<ch>>)
  BY <1>1, <1>2 DEF Leads
<1> HIDE DEF In
<1>4. print_msg(s, <<ch>>) \in In[1]
  BY <1>1, <1>2, <1>3, Printing
<1> QED
  BY <1>2, <1>4

\* Backspace takes the character before the position away.
Rubbed(s, r) ==
    /\ r \in Screens /\ r.pos = s.pos - 1
    /\ \A k \in 0 .. Size - 1 : r.VGA[k] = IF k = s.pos - 1 THEN Space ELSE s.VGA[k]

\* The three characters the editors print for a backspace rub one out.
LEMMA PrintRubOut ==
    ASSUME NEW s \in Screens, s.pos \in 1 .. Size
    PROVE  Rubbed(s, print_msg(s, RubOut))
<1> DEFINE a == Put(s, BS)
           b == Put(a, Space)
           c == Put(b, BS)
           In == [k \in Nat |-> CASE k = 0 -> {s} [] k = 1 -> {a} [] k = 2 -> {b} [] OTHER -> {c}]
<1>1. /\ a \in Screens /\ a.pos = s.pos - 1
      /\ \A k \in 0 .. Size - 1 : a.VGA[k] = IF k = s.pos - 1 THEN Space ELSE s.VGA[k]
  BY PutBackspace
<1>2. Space \in Cells /\ s.pos \in Int /\ a.pos < Size
  BY <1>1, SizeFacts DEF Cells
<1>3. /\ b \in Screens /\ b.pos = a.pos + 1
      /\ \A k \in 0 .. Size - 1 : b.VGA[k] = IF k = a.pos THEN Space ELSE CellOf(a, k)
  <2> HIDE DEF a
  <2> QED
    BY <1>1, <1>2, PutCharacter
<1>4. /\ c \in Screens /\ c.pos = b.pos - 1
      /\ \A k \in 0 .. Size - 1 : c.VGA[k] = IF k = b.pos - 1 THEN Space ELSE b.VGA[k]
  <2> HIDE DEF b
  <2> QED
    BY <1>3, PutBackspace
<1>5. Rubbed(s, c)
  <2> HIDE DEF a, b, c
  <2> QED
    BY <1>1, <1>2, <1>3, <1>4 DEF Rubbed, CellOf
<1>6. /\ RubOut \in Seq(Printed) /\ Len(RubOut) = 3
      /\ RubOut[1] = BS /\ RubOut[2] = Space /\ RubOut[3] = BS
  BY DEF RubOut, Printed, Cells
<1>7. In[0] = {s} /\ In[1] = {a} /\ In[2] = {b} /\ In[3] = {c}
  <2> HIDE DEF a, b, c
  <2> QED
    OBVIOUS
<1>8. Leads(In, RubOut)
  <2> SUFFICES ASSUME NEW k \in 0 .. 2, NEW x \in In[k]
               PROVE  Put(x, RubOut[k + 1]) \in In[k + 1]
    BY <1>6 DEF Leads
  <2>1. CASE k = 0
    <3>1. x = s
      BY <1>7, <2>1
    <3> HIDE DEF In
    <3> QED
      BY <1>6, <1>7, <2>1, <3>1
  <2>2. CASE k = 1
    <3>1. x = a
      BY <1>7, <2>2
    <3>2. Put(x, Space) = b
      BY <3>1
    <3> HIDE DEF In, a, b
    <3> QED
      BY <1>6, <1>7, <2>2, <3>2
  <2>3. CASE k = 2
    <3>1. x = b
      BY <1>7, <2>3
    <3>2. Put(x, BS) = c
      BY <3>1
    <3> HIDE DEF In, b, c
    <3> QED
      BY <1>6, <1>7, <2>3, <3>2
  <2> QED
    BY <2>1, <2>2, <2>3
<1> HIDE DEF In, a, b, c
<1>9. s \in In[0]
  BY <1>7
<1>10. print_msg(s, RubOut) \in In[3]
  BY <1>6, <1>8, <1>9, Printing
<1>11. print_msg(s, RubOut) = c
  BY <1>7, <1>10
<1> QED
  BY <1>5, <1>11

LEMMA RubbedBehind ==
    ASSUME NEW s \in Behind(0), s.pos >= 1, NEW r, Rubbed(s, r)
    PROVE  r \in Behind(0)
<1>1. s \in Screens /\ s.pos \in 1 .. Size /\ Clean(s)
  BY ReachFacts, SizeFacts DEF Behind
<1>2. Clean(r)
  BY <1>1 DEF Clean, Rubbed
<1> QED
  BY <1>1, <1>2, ReachFacts, SizeFacts DEF Behind, Rubbed

\* What is left after it is the text without its last character.
LEMMA ShowsBack ==
    ASSUME NEW s \in Screens, s.pos \in 1 .. Size, NEW r, Rubbed(s, r), NEW text,
           NEW n \in Nat, ShownTo(s, text, n + 1)
    PROVE  ShownTo(r, text, n)
<1> SUFFICES ASSUME NEW i \in 1 .. n
             PROVE  \/ CellOf(r, r.pos - n + i - 1) = text[i]
                    \/ i <= 2 /\ CellOf(r, r.pos - n + i - 1) = NUL
  BY DEF ShownTo
<1> DEFINE q == s.pos - (n + 1) + i - 1
<1>1. r.pos - n + i - 1 = q /\ q \in Int /\ q < s.pos - 1 /\ i \in 1 .. n + 1
  BY SizeFacts DEF Rubbed
<1>2. CellOf(s, q) = text[i] \/ (i <= 2 /\ CellOf(s, q) = NUL)
  BY <1>1 DEF ShownTo
<1>3. CellOf(r, q) = CellOf(s, q)
  BY <1>1 DEF Rubbed, CellOf
<1> HIDE DEF q
<1> QED
  BY <1>1, <1>2, <1>3

-----------------------------------------------------------------------------
(* A text and a prompt                                                      *)

Signs == Chars \cup Glyphs \cup {NL}

LEMMA AskedFacts ==
    ASSUME NEW asked \in {Prompt, Ask}
    PROVE  /\ asked \in Seq(Signs) /\ Len(asked) \in Nat /\ Len(asked) >= 3
           /\ \A i \in 1 .. Len(asked) : asked[i] \in Cells
           /\ Len(asked) - 3 <= Size - Width
<1>1. asked \in Seq(Signs)
  BY Texts DEF Signs, Text
<1>2. Len(asked) \in Nat
  BY <1>1, LenProperties
<1>3. Len(asked) >= 3 /\ \A i \in 1 .. Len(asked) : asked[i] # NL
  BY Zenon, TextsFit
<1>4. \A i \in 1 .. Len(asked) : asked[i] \in Cells
  BY <1>1, <1>3, ElementOfSeq, CharacterFacts DEF Signs
<1>5. Len(asked) - 3 <= Size - Width
  <2>0. LineSize \in Nat \ {0} /\ MaxDigits \in Nat
    BY ConsoleAssumption
  <2>1. LineSize \in Nat /\ LineSize >= 1 /\ MaxDigits \in Nat
    BY <2>0
  <2>2. /\ Len(Prompt) - 2 + LineSize - 2 <= Size - Width
        /\ Len(Ask) - 2 + MaxDigits - 1 <= Size - Width
    BY Zenon, TextsFit
  <2>3. CASE asked = Prompt
    BY <1>2, <2>1, <2>2, <2>3, SizeFacts
  <2>4. CASE asked = Ask
    BY <1>2, <2>1, <2>2, <2>4, SizeFacts
  <2> QED
    BY <2>3, <2>4
<1> QED
  BY <1>1, <1>2, <1>3, <1>4, <1>5

\* A text that fits and a prompt bring the position back, and the prompt stands there.
LEMMA PrintAsked ==
    ASSUME NEW s \in Behind(0), NEW text \in Seq(Signs), Fits(text),
           NEW asked \in {Prompt, Ask}
    PROVE  /\ print_msg(s, text \o asked) \in Behind(0)
           /\ ShownTo(print_msg(s, text \o asked), asked, Len(asked))
<1> DEFINE n == Len(text)
           m == Len(asked)
           left(j) == IF j < 3 THEN 3 - j ELSE 0
<1>1. PICK late \in [0 .. n -> 0 .. 3] :
          /\ late[0] = 0
          /\ \A i \in 1 .. n : late[i] = Late(late[i - 1], text[i])
  BY DEF Fits, Counts
<1> DEFINE shown(j) == {x \in Behind(left(j)) : ShownTo(x, asked, j)}
           In == [k \in Nat |-> IF k < n THEN Behind(late[k]) ELSE shown(k - n)]
<1>2. n \in Nat /\ m \in Nat /\ m >= 3 /\ asked \in Seq(Signs)
  BY AskedFacts, LenProperties
<1>3. /\ text \o asked \in Seq(Printed) /\ Len(text \o asked) = n + m
      /\ \A i \in 1 .. n : (text \o asked)[i] = text[i]
      /\ \A j \in 1 .. m : (text \o asked)[n + j] = asked[j]
  <2>1. Signs \subseteq Printed
    BY CharacterFacts DEF Signs, Printed
  <2>2. text \in Seq(Printed) /\ asked \in Seq(Printed)
    BY <1>2, <2>1
  <2> QED
    BY <2>2
<1>4. \A i \in 1 .. n : text[i] \in Cells \cup {NL}
  BY ElementOfSeq, CharacterFacts DEF Signs
<1>5. Behind(3) \subseteq shown(0) /\ \A k \in 0 .. 3 : Behind(k) \subseteq Behind(3)
  BY BehindMore DEF ShownTo
<1>6. s \in In[0]
  <2>1. CASE n = 0
    <3>1. In[0] = shown(0)
      BY <2>1
    <3> HIDE DEF shown, In
    <3> QED
      BY <1>5, <3>1
  <2>2. CASE n # 0
    <3>1. In[0] = Behind(0)
      BY <1>1, <1>2, <2>2
    <3> QED
      BY <3>1
  <2> QED
    BY <2>1, <2>2
<1>7. ASSUME NEW k \in 0 .. n + m - 1, NEW x \in In[k]
      PROVE  Put(x, (text \o asked)[k + 1]) \in In[k + 1]
  <2>1. CASE k < n
    <3>1. k + 1 \in 1 .. n /\ (k + 1) - 1 = k /\ k \in Nat /\ k + 1 \in Nat /\ k \in 0 .. n
      BY <1>2, <2>1
    <3>2. x \in Behind(late[k]) /\ late[k] \in 0 .. 3 /\ late[k + 1] \in 0 .. 3
      BY <1>1, <1>2, <2>1, <3>1
    <3>3. (text \o asked)[k + 1] = text[k + 1] /\ text[k + 1] \in Cells \cup {NL}
      BY <1>3, <1>4, <3>1
    <3>4. late[k + 1] = Late(late[k], text[k + 1])
      BY <1>1, <3>1
    <3>5. Put(x, text[k + 1]) \in Behind(late[k + 1])
      BY <3>2, <3>3, <3>4, LatePut
    <3>6. k + 1 < n => In[k + 1] = Behind(late[k + 1])
      BY <3>1
    <3>7. ~(k + 1 < n) => In[k + 1] = shown(0)
      <4>1. ~(k + 1 < n) => (k + 1) - n = 0
        BY <1>2, <3>1
      <4> HIDE DEF shown
      <4> QED
        BY <3>1, <4>1
    <3> HIDE DEF In, shown
    <3> QED
      BY <1>5, <3>2, <3>3, <3>5, <3>6, <3>7
  <2>2. CASE k >= n
    <3> DEFINE j == k - n
    <3>1. /\ k \in Nat /\ k + 1 \in Nat /\ ~(k < n) /\ ~(k + 1 < n)
          /\ j \in Nat /\ j + 1 \in 1 .. m /\ (k + 1) - n = j + 1 /\ k + 1 = n + (j + 1)
      BY <1>2, <2>2
    <3>2. In[k] = shown(j) /\ In[k + 1] = shown(j + 1)
      <4> HIDE DEF shown
      <4> QED
        BY <3>1
    <3> HIDE DEF j
    <3>3. x \in Behind(left(j)) /\ ShownTo(x, asked, j) /\ left(j) \in 0 .. 3
      BY <3>1, <3>2
    <3>4. (text \o asked)[k + 1] = asked[j + 1] /\ asked[j + 1] \in Cells
      BY <1>3, <3>1, AskedFacts
    <3>5. Late(left(j), asked[j + 1]) = left(j + 1)
      BY <3>1, <3>4, CharacterFacts DEF Late
    <3>6. Put(x, asked[j + 1]) \in Behind(left(j + 1))
      <4> HIDE DEF left
      <4> QED
        BY <3>3, <3>4, <3>5, LateCharacter
    <3>7. x \in Screens /\ x.pos >= 0 /\ (j <= 1 \/ x.pos <= Size + 2)
      <4>1. x \in Screens /\ x.pos \in 0 .. Reach(left(j))
        <5> HIDE DEF left
        <5> QED
          BY <3>3 DEF Behind
      <4>2. j > 1 => Reach(left(j)) <= Size + 2
        BY <3>1, ReachFacts, SizeFacts
      <4>3. Reach(left(j)) \in Int
        BY <3>3, ReachFacts, SizeFacts
      <4> HIDE DEF left
      <4> QED
        BY <3>1, <4>1, <4>2, <4>3, SizeFacts
    <3>8. j - 2 <= Size - Width
      BY <1>2, <3>1, AskedFacts, SizeFacts
    <3>9. ShownTo(Put(x, asked[j + 1]), asked, j + 1)
      BY <3>1, <3>3, <3>4, <3>7, <3>8, ShowsOn
    <3> QED
      BY <3>2, <3>4, <3>6, <3>9
  <2> QED
    BY <1>2, <2>1, <2>2
<1>8. In[n + m] = shown(m)
  BY <1>2
<1>9. s \in Screens
  BY DEF Behind
<1> HIDE DEF In, shown
<1>10. Leads(In, text \o asked)
  BY <1>3, <1>7 DEF Leads
<1>11. print_msg(s, text \o asked) \in shown(m)
  BY <1>3, <1>6, <1>8, <1>9, <1>10, Printing
<1>12. left(m) = 0
  BY <1>2
<1> QED
  BY <1>11, <1>12 DEF shown

-----------------------------------------------------------------------------
(* The texts of the system fit                                              *)

\* Where the elements of two sequences are in the joined one.
LEMMA Joined ==
    ASSUME NEW S, NEW v \in Seq(S), NEW w \in Seq(S)
    PROVE  /\ v \o w \in Seq(S) /\ Len(v \o w) = Len(v) + Len(w)
           /\ \A i \in 1 .. Len(v) : (v \o w)[i] = v[i]
           /\ \A j \in 1 .. Len(w) : (v \o w)[Len(v) + j] = w[j]
  OBVIOUS

LEMMA FitsEmpty == Fits(<<>>)
<1> DEFINE late == [i \in 0 .. 0 |-> 0]
<1>1. late \in [0 .. Len(<<>>) -> 0 .. 3] /\ Counts(late, <<>>)
  BY DEF Counts
<1> QED
  BY <1>1 DEF Fits

\* A text stays one if a line of what the user has typed comes behind it.
LEMMA FitsLine ==
    ASSUME NEW text \in Seq(Signs), Fits(text), NEW w \in Seq(Chars),
           w # <<>> \/ text = <<NL>>
    PROVE  Fits(text \o Append(w, NL))
<1> DEFINE n == Len(text)
           m == Len(w)
<1>1. PICK late \in [0 .. n -> 0 .. 3] :
          /\ late[0] = 0
          /\ \A i \in 1 .. n : late[i] = Late(late[i - 1], text[i])
  BY DEF Fits, Counts
<1> DEFINE k == late[n]
           down(j) == IF j < k THEN k - j ELSE 0
           more == [i \in 0 .. n + m + 1 |->
                       IF i <= n THEN late[i]
                       ELSE IF i <= n + m THEN down(i - n) ELSE Late(down(m), NL)]
<1>2. n \in Nat /\ m \in Nat /\ k \in 0 .. 3 /\ (m >= 1 \/ k <= 2)
  <2>1. n \in Nat /\ m \in Nat
    BY LenProperties
  <2>2. k \in 0 .. 3
    BY <1>1, <2>1
  <2>3. w # <<>> => m # 0
    BY EmptySeq
  <2>4. text = <<NL>> => k = 2
    <3> SUFFICES ASSUME text = <<NL>> PROVE k = 2
      OBVIOUS
    <3>1. n = 1 /\ text[1] = NL
      OBVIOUS
    <3>2. late[1] = Late(late[0], NL)
      BY <1>1, <3>1
    <3> QED
      BY <1>1, <3>1, <3>2 DEF Late
  <2> HIDE DEF n, m, k
  <2> QED
    BY <2>1, <2>2, <2>3, <2>4
<1>3. /\ Len(text \o Append(w, NL)) = n + m + 1
      /\ \A i \in 1 .. n : (text \o Append(w, NL))[i] = text[i]
      /\ \A j \in 1 .. m : (text \o Append(w, NL))[n + j] = w[j]
      /\ (text \o Append(w, NL))[n + m + 1] = NL
  <2>1. Append(w, NL) \in Seq(Signs) /\ Len(Append(w, NL)) = m + 1
        /\ (\A j \in 1 .. m : Append(w, NL)[j] = w[j]) /\ Append(w, NL)[m + 1] = NL
    <3>1. w \in Seq(Signs) /\ NL \in Signs
      BY DEF Signs
    <3> QED
      BY <3>1, AppendProperties
  <2>2. /\ Len(text \o Append(w, NL)) = n + (m + 1)
        /\ \A i \in 1 .. n : (text \o Append(w, NL))[i] = text[i]
        /\ \A j \in 1 .. m + 1 : (text \o Append(w, NL))[n + j] = Append(w, NL)[j]
    <3> HIDE DEF n, m
    <3>1. PICK v \in Seq(Signs) : v = Append(w, NL)
      BY <2>1
    <3>2. Len(v) = m + 1
      BY <2>1, <3>1
    <3>3. /\ Len(text \o v) = Len(text) + Len(v)
          /\ \A i \in 1 .. Len(text) : (text \o v)[i] = text[i]
          /\ \A j \in 1 .. Len(v) : (text \o v)[Len(text) + j] = v[j]
      BY Joined
    <3> QED
      BY <3>1, <3>2, <3>3 DEF n
  <2> HIDE DEF n, m
  <2> QED
    BY <1>2, <2>1, <2>2
<1> HIDE DEF n, m, k
<1>4. \A j \in 1 .. m : w[j] # NL
  BY ElementOfSeq, CharacterFacts DEF m
<1>5. \A j \in Nat : down(j) \in 0 .. 3
  BY <1>2
<1>6. Late(down(m), NL) \in 0 .. 3
  BY <1>2 DEF Late
<1>7. more \in [0 .. n + m + 1 -> 0 .. 3]
  <2> SUFFICES ASSUME NEW i \in 0 .. n + m + 1 PROVE more[i] \in 0 .. 3
    OBVIOUS
  <2>1. i <= n => i \in 0 .. n
    BY <1>2
  <2>2. i > n => i - n \in Nat
    BY <1>2
  <2> HIDE DEF down
  <2> QED
    BY <1>1, <1>2, <1>5, <1>6, <2>1, <2>2
<1>8. more[0] = 0
  BY <1>1, <1>2
<1>9. ASSUME NEW i \in 1 .. n + m + 1
      PROVE  more[i] = Late(more[i - 1], (text \o Append(w, NL))[i])
  <2>0. i \in Nat /\ i - 1 \in Nat /\ i \in 0 .. n + m + 1 /\ i - 1 \in 0 .. n + m + 1
    BY <1>2
  <2>1. CASE i <= n
    <3>1. i \in 1 .. n /\ i - 1 <= n
      BY <1>2, <2>1
    <3>2. more[i] = late[i] /\ more[i - 1] = late[i - 1]
      BY <2>0, <2>1, <3>1
    <3> HIDE DEF more
    <3> QED
      BY <1>1, <1>3, <3>1, <3>2
  <2>2. CASE i > n /\ i <= n + m
    <3> DEFINE j == i - n
    <3>1. j \in 1 .. m /\ n + j = i
      BY <1>2, <2>2
    <3>2. (text \o Append(w, NL))[i] # NL
      BY <1>3, <1>4, <3>1
    <3>3. more[i] = down(j)
      BY <1>2, <2>0, <2>2
    <3>4. more[i - 1] = IF j = 1 THEN k ELSE down(j - 1)
      BY <1>2, <2>0, <2>2 DEF k
    <3>5. down(j) = IF (IF j = 1 THEN k ELSE down(j - 1)) = 0 THEN 0
                    ELSE (IF j = 1 THEN k ELSE down(j - 1)) - 1
      BY <1>2, <3>1
    <3> HIDE DEF more, down, j
    <3> QED
      BY <3>2, <3>3, <3>4, <3>5 DEF Late
  <2>3. CASE i = n + m + 1
    <3>1. more[i] = Late(down(m), NL)
      BY <1>2, <2>0, <2>3
    <3>2. more[i - 1] = down(m)
      BY <1>2, <2>0, <2>3 DEF k
    <3> HIDE DEF more, down
    <3> QED
      BY <1>3, <2>3, <3>1, <3>2
  <2>4. i <= n \/ (i > n /\ i <= n + m) \/ i = n + m + 1
    BY <1>2, <2>0
  <2> HIDE DEF more
  <2> QED
    BY <2>1, <2>2, <2>3, <2>4
<1>10. Counts(more, text \o Append(w, NL))
  <2> HIDE DEF more
  <2> QED
    BY <1>3, <1>8, <1>9 DEF Counts
<1> HIDE DEF more
<1> QED
  BY <1>3, <1>7, <1>10 DEF Fits

-----------------------------------------------------------------------------
(* The inductive invariant                                                  *)

\* What the line editor that reads has of its line, with its prompt: that is what
\* stands in front of the position.
Edited ==
    IF mode = "shell" THEN [j \in 1 .. buffer_idx |-> input_buffer[j - 1]] ELSE digits

Standing == Asked \o Edited
Stands == ShownTo(screen, Standing, Len(Standing))

LineTypes ==
    /\ input_buffer \in [0 .. LineSize - 1 -> Chars \cup {NUL}]
    /\ buffer_idx \in 0 .. LineSize - 1
    /\ \A i \in 0 .. buffer_idx - 1 : input_buffer[i] \in Chars
    /\ mode \in {"shell", "guess"} /\ (mode = "guess" => buffer_idx = 0)
    /\ digits \in Seq(DOMAIN Digits) /\ Len(digits) <= MaxDigits
    /\ target \in IF mode = "guess" THEN 1 .. Highest ELSE {0}
    /\ guesses \in 0 .. MaxGuesses
    /\ entered \in Seq(Chars)

\* The position is on the screen and nothing behind it, and in front of it stands the
\* line as the editor has it.
ConsoleInv == screen \in Behind(0) /\ LineTypes /\ Stands

\* The line in the editor, in either mode.
LEMMA EditedFacts ==
    ASSUME LineTypes
    PROVE  /\ Edited \in Seq(Chars) /\ Len(Edited) = Typed
           /\ mode = "shell" => Typed = buffer_idx /\ buffer_idx \in Nat
           /\ mode = "guess" => Typed = Len(digits) /\ Edited = digits
<1>1. digits \in Seq(Chars)
  BY DEF LineTypes, Chars
<1>2. buffer_idx \in Nat
  <2>1. LineSize \in Nat
    BY ConsoleAssumption
  <2> QED
    BY <2>1 DEF LineTypes
<1> DEFINE front == [j \in 1 .. buffer_idx |-> input_buffer[j - 1]]
<1>3. front \in Seq(Chars) /\ Len(front) = buffer_idx
  <2>1. ASSUME NEW j \in 1 .. buffer_idx
        PROVE  input_buffer[j - 1] \in Chars
    <3>1. j - 1 \in 0 .. buffer_idx - 1
      BY <1>2
    <3> QED
      BY <3>1 DEF LineTypes
  <2> QED
    BY <1>2, <2>1
<1>4. Edited = IF mode = "shell" THEN front ELSE digits
  BY DEF Edited
<1> HIDE DEF front
<1> QED
  BY <1>1, <1>2, <1>3, <1>4 DEF Typed

\* The prompt and the line, one behind the other.
LEMMA StandingFacts ==
    ASSUME Edited \in Seq(Chars)
    PROVE  /\ Asked \in {Prompt, Ask} /\ Len(Asked) \in Nat /\ Len(Asked) >= 3
           /\ Len(Edited) \in Nat /\ Len(Standing) = Len(Asked) + Len(Edited)
           /\ \A i \in 1 .. Len(Asked) : Standing[i] = Asked[i]
           /\ \A j \in 1 .. Len(Edited) :
                 Standing[Len(Asked) + j] = Edited[j] /\ Edited[j] \in Chars
<1>1. Asked \in {Prompt, Ask}
  BY DEF Asked
<1>2. Asked \in Seq(Signs) /\ Len(Asked) \in Nat /\ Len(Asked) >= 3
  BY <1>1, AskedFacts
<1>3. Edited \in Seq(Signs)
  BY DEF Signs
<1>4. Len(Edited) \in Nat /\ \A j \in 1 .. Len(Edited) : Edited[j] \in Chars
  BY LenProperties, ElementOfSeq
<1> QED
  BY <1>1, <1>2, <1>3, <1>4, Joined DEF Standing

\* The room the prompt and a line need is there as long as the line may grow.
LEMMA Room ==
    /\ \A n \in 0 .. LineSize - 2 : Len(Prompt) + n - 2 <= Size - Width
    /\ \A n \in 0 .. MaxDigits - 1 : Len(Ask) + n - 2 <= Size - Width
<1>1. LineSize \in Nat /\ MaxDigits \in Nat
  BY ConsoleAssumption
<1>2. /\ Len(Prompt) - 2 + LineSize - 2 <= Size - Width
      /\ Len(Ask) - 2 + MaxDigits - 1 <= Size - Width
  BY Zenon, TextsFit
<1>3. Len(Prompt) \in Nat /\ Len(Ask) \in Nat
  BY AskedFacts
<1> QED
  BY <1>1, <1>2, <1>3, SizeFacts

-----------------------------------------------------------------------------
(* Keys                                                                     *)

\* Printing one typed character, seen from the text that stands there.
LEMMA Typing ==
    ASSUME NEW s \in Behind(0), NEW n \in Nat, n - 2 <= Size - Width,
           NEW text, ShownTo(s, text, n), NEW ch \in Cells,
           NEW longer, longer[n + 1] = ch, \A i \in 1 .. n : longer[i] = text[i]
    PROVE  /\ print_msg(s, <<ch>>) \in Behind(0)
           /\ ShownTo(print_msg(s, <<ch>>), longer, n + 1)
<1>1. s \in Screens /\ s.pos >= 0 /\ s.pos <= Size + 2
  BY ReachFacts, SizeFacts DEF Behind
<1>2. print_msg(s, <<ch>>) = Put(s, ch)
  BY <1>1, PrintCharacter
<1>3. Put(s, ch) \in Behind(0)
  <2>1. Late(0, ch) = 0
    BY CharacterFacts DEF Late
  <2>2. 0 \in 0 .. 3
    OBVIOUS
  <2> QED
    BY <2>1, <2>2, LateCharacter
<1>4. ShownTo(s, longer, n)
  BY DEF ShownTo
<1> QED
  BY <1>1, <1>2, <1>3, <1>4, ShowsOn

\* Rubbing one out: there is one, so the position is not at the start of the screen.
LEMMA Erasing ==
    ASSUME NEW s \in Behind(0), NEW n \in Nat, n >= 2,
           NEW text, ShownTo(s, text, n + 1), text[n + 1] \in Chars,
           NEW shorter, \A i \in 1 .. n : shorter[i] = text[i]
    PROVE  /\ s.pos >= 1
           /\ Rubbed(s, print_msg(s, RubOut))
           /\ print_msg(s, RubOut) \in Behind(0)
           /\ ShownTo(print_msg(s, RubOut), shorter, n)
<1>1. s \in Screens /\ s.pos \in 0 .. Size
  BY ReachFacts DEF Behind
<1>2. CellOf(s, s.pos - 1) \in Chars
  <2>1. n + 1 \in 1 .. n + 1 /\ s.pos - (n + 1) + (n + 1) - 1 = s.pos - 1 /\ ~(n + 1 <= 2)
    BY <1>1, SizeFacts
  <2>2. CellOf(s, s.pos - (n + 1) + (n + 1) - 1) = text[n + 1]
    BY <2>1 DEF ShownTo
  <2> QED
    BY <2>1, <2>2
<1>3. s.pos - 1 \in 0 .. Size - 1
  BY <1>2, CharacterFacts DEF CellOf
<1>4. s.pos \in 1 .. Size
  BY <1>1, <1>3, SizeFacts
<1>5. Rubbed(s, print_msg(s, RubOut))
  BY <1>1, <1>4, PrintRubOut
<1>6. s.pos >= 1
  BY <1>4
<1>7. print_msg(s, RubOut) \in Behind(0)
  BY <1>5, <1>6, RubbedBehind
<1>8. ShownTo(print_msg(s, RubOut), text, n)
  BY <1>1, <1>4, <1>5, ShowsBack
<1> QED
  BY <1>5, <1>6, <1>7, <1>8 DEF ShownTo

\* The functions on strings find the terminator where the line ends.
LEMMA CommandIsLine ==
    ASSUME LineTypes
    PROVE  /\ Command = [i \in 1 .. buffer_idx |-> input_buffer[i - 1]]
           /\ Command \in Seq(Chars) /\ Len(Command) = buffer_idx
           /\ Terminated \in [0 .. LineSize - 1 -> Chars \cup {NUL}]
           /\ \A i \in 0 .. buffer_idx - 1 : Terminated[i] \in Chars
<1> DEFINE b == Terminated
           Ends(n) == /\ n = LineSize \/ b[n] = NUL
                      /\ \A i \in 0 .. n - 1 : b[i] # NUL
           end == CHOOSE n \in 0 .. LineSize : Ends(n)
<1>1. LineSize \in Nat /\ LineSize >= 1
  <2>1. LineSize \in Nat \ {0}
    BY ConsoleAssumption
  <2> QED
    BY <2>1
<1>2. /\ buffer_idx \in 0 .. LineSize - 1 /\ buffer_idx \in 0 .. LineSize
      /\ buffer_idx \in Nat /\ buffer_idx < LineSize
  BY <1>1 DEF LineTypes
<1>3. /\ b \in [0 .. LineSize - 1 -> Chars \cup {NUL}]
      /\ b[buffer_idx] = NUL
      /\ \A i \in 0 .. buffer_idx - 1 : b[i] = input_buffer[i] /\ b[i] \in Chars
  BY <1>1, <1>2 DEF Terminated, LineTypes
<1> HIDE DEF b
<1>4. Ends(buffer_idx)
  BY <1>3, CharacterFacts
<1>5. ASSUME NEW n \in 0 .. LineSize, Ends(n)
      PROVE  n = buffer_idx
  <2>1. n \in Nat /\ n <= LineSize
    BY <1>1
  <2>2. ~(n < buffer_idx)
    <3> SUFFICES ASSUME n < buffer_idx
                 PROVE  FALSE
      OBVIOUS
    <3>1. n \in 0 .. buffer_idx - 1 /\ n # LineSize
      BY <1>2, <2>1
    <3> QED
      BY <1>3, <1>5, <3>1, CharacterFacts
  <2>3. ~(n > buffer_idx)
    <3> SUFFICES ASSUME n > buffer_idx
                 PROVE  FALSE
      OBVIOUS
    <3>1. buffer_idx \in 0 .. n - 1
      BY <1>2, <2>1
    <3> QED
      BY <1>3, <1>5, <3>1
  <2> QED
    BY <1>2, <2>1, <2>2, <2>3
<1>6. end = buffer_idx
  <2> HIDE DEF Ends
  <2> QED
    BY <1>2, <1>4, <1>5
<1>7. Command = [i \in 1 .. end |-> b[i - 1]]
  BY DEF Command, CString, b
<1> HIDE DEF end
<1>8. ASSUME NEW i \in 1 .. buffer_idx
      PROVE  b[i - 1] = input_buffer[i - 1] /\ b[i - 1] \in Chars
  <2>1. i - 1 \in 0 .. buffer_idx - 1
    BY <1>2
  <2> QED
    BY <1>3, <2>1
<1>9. Command = [i \in 1 .. buffer_idx |-> input_buffer[i - 1]]
  BY <1>6, <1>7, <1>8
<1>10. [i \in 1 .. buffer_idx |-> input_buffer[i - 1]] \in Seq(Chars)
  BY <1>2, <1>8
<1> QED
  BY <1>2, <1>3, <1>9, <1>10 DEF b

-----------------------------------------------------------------------------
(* Steps                                                                    *)

\* A key that lengthens the line, one that shortens it, and a text with a prompt.
Lengthens(ch) ==
    /\ mode' = mode /\ Edited' = Append(Edited, ch)
    /\ screen' = print_msg(screen, <<ch>>)

Shortens ==
    /\ mode' = mode /\ Edited # <<>> /\ Edited' = Front(Edited)
    /\ screen' = print_msg(screen, RubOut)

Starts(s, text) ==
    /\ s \in Behind(0) /\ text \in Seq(Signs) /\ Fits(text)
    /\ Edited' = <<>>
    /\ screen' = print_msg(s, text \o Asked')

\* What they do to the line as the editor has it.
LEMMA Grown ==
    ASSUME Edited \in Seq(Chars), NEW ch \in Chars, mode' = mode,
           Edited' = Append(Edited, ch)
    PROVE  /\ Len(Standing') = Len(Standing) + 1 /\ Len(Standing) \in Nat
           /\ Standing'[Len(Standing) + 1] = ch
           /\ \A i \in 1 .. Len(Standing) : Standing'[i] = Standing[i]
<1>1. PICK more \in Seq(Signs) : more = Append(Edited, ch)
  <2>1. Edited \in Seq(Signs) /\ ch \in Signs
    BY DEF Signs
  <2> QED
    BY <2>1
<1>2. /\ Len(more) = Len(Edited) + 1 /\ more[Len(Edited) + 1] = ch
      /\ \A j \in 1 .. Len(Edited) : more[j] = Edited[j]
  BY <1>1, AppendProperties
<1>3. Standing' = Asked \o more
  BY <1>1 DEF Standing, Asked
<1>4. /\ Asked \in {Prompt, Ask} /\ Len(Asked) \in Nat
      /\ Len(Edited) \in Nat /\ Len(Standing) = Len(Asked) + Len(Edited)
      /\ \A i \in 1 .. Len(Asked) : Standing[i] = Asked[i]
      /\ \A j \in 1 .. Len(Edited) : Standing[Len(Asked) + j] = Edited[j]
  BY StandingFacts
<1>5. Asked \in Seq(Signs)
  BY <1>4, AskedFacts
<1>6. /\ Len(Standing') = Len(Asked) + Len(more)
      /\ \A i \in 1 .. Len(Asked) : Standing'[i] = Asked[i]
      /\ \A j \in 1 .. Len(more) : Standing'[Len(Asked) + j] = more[j]
  BY <1>3, <1>5, Joined
<1>7. Len(Standing') = Len(Standing) + 1 /\ Len(Standing) \in Nat
  BY <1>2, <1>4, <1>6
<1>8. Standing'[Len(Standing) + 1] = ch
  <2>1. /\ Len(Edited) + 1 \in 1 .. Len(more)
        /\ Len(Standing) + 1 = Len(Asked) + (Len(Edited) + 1)
    BY <1>2, <1>4
  <2> QED
    BY <1>2, <1>6, <2>1
<1>9. ASSUME NEW i \in 1 .. Len(Standing)
      PROVE  Standing'[i] = Standing[i]
  <2>1. CASE i <= Len(Asked)
    <3>1. i \in 1 .. Len(Asked)
      BY <1>4, <2>1
    <3> QED
      BY <1>4, <1>6, <3>1
  <2>2. CASE i > Len(Asked)
    <3>1. PICK j \in 1 .. Len(Edited) : i = Len(Asked) + j
      <4>1. i - Len(Asked) \in 1 .. Len(Edited) /\ i = Len(Asked) + (i - Len(Asked))
        BY <1>4, <2>2
      <4> QED
        BY <4>1
    <3>2. j \in 1 .. Len(more)
      BY <1>2, <1>4
    <3> QED
      BY <1>2, <1>4, <1>6, <3>1, <3>2
  <2> QED
    BY <1>4, <2>1, <2>2
<1> QED
  BY <1>7, <1>8, <1>9

LEMMA FrontFacts ==
    ASSUME NEW S, NEW s \in Seq(S), s # <<>>
    PROVE  /\ Front(s) \in Seq(S) /\ Len(Front(s)) = Len(s) - 1 /\ Len(s) - 1 \in Nat
           /\ \A j \in 1 .. Len(s) - 1 : Front(s)[j] = s[j]
<1>1. Len(s) \in Nat /\ Len(s) # 0
  BY EmptySeq, LenProperties
<1> DEFINE n == Len(s) - 1
<1>2. n \in Nat /\ \A i \in 1 .. n : i \in 1 .. Len(s)
  BY <1>1
<1>3. \A i \in 1 .. n : s[i] \in S
  BY <1>2, ElementOfSeq
<1>4. Front(s) = SubSeq(s, 1, n)
  BY DEF Front
<1> HIDE DEF n
<1>5. 1 \in Int /\ n \in Int
  BY <1>2
<1>6. /\ SubSeq(s, 1, n) \in Seq(S)
      /\ Len(SubSeq(s, 1, n)) = IF 1 <= n THEN n - 1 + 1 ELSE 0
      /\ \A i \in 1 .. n - 1 + 1 : SubSeq(s, 1, n)[i] = s[1 + i - 1]
  BY <1>3, <1>5, SubSeqProperties
<1>7. Len(SubSeq(s, 1, n)) = n /\ n - 1 + 1 = n
  BY <1>2, <1>6
<1>8. \A i \in 1 .. n : SubSeq(s, 1, n)[i] = s[i]
  <2> SUFFICES ASSUME NEW i \in 1 .. n
               PROVE  SubSeq(s, 1, n)[i] = s[i]
    OBVIOUS
  <2>1. 1 + i - 1 = i
    BY <1>2
  <2> QED
    BY <1>6, <1>7, <2>1
<1> QED
  BY <1>2, <1>4, <1>6, <1>7, <1>8 DEF n

\* And the other way round.
LEMMA Shrunk ==
    ASSUME Edited \in Seq(Chars), mode' = mode, Edited # <<>>, Edited' = Front(Edited)
    PROVE  /\ Len(Standing) = Len(Standing') + 1 /\ Len(Standing') \in Nat
           /\ Len(Standing') >= 3
           /\ Standing[Len(Standing') + 1] \in Chars
           /\ \A i \in 1 .. Len(Standing') : Standing'[i] = Standing[i]
<1>1. PICK less \in Seq(Signs) : less = Front(Edited)
  <2>1. Edited \in Seq(Signs)
    BY DEF Signs
  <2> QED
    BY <2>1, FrontFacts
<1>2. /\ Len(less) = Len(Edited) - 1 /\ Len(less) \in Nat
      /\ \A j \in 1 .. Len(less) : less[j] = Edited[j]
  BY <1>1, FrontFacts
<1>3. Standing' = Asked \o less
  BY <1>1 DEF Standing, Asked
<1>4. /\ Asked \in {Prompt, Ask} /\ Len(Asked) \in Nat /\ Len(Asked) >= 3
      /\ Len(Edited) \in Nat /\ Len(Standing) = Len(Asked) + Len(Edited)
      /\ \A i \in 1 .. Len(Asked) : Standing[i] = Asked[i]
      /\ \A j \in 1 .. Len(Edited) :
            Standing[Len(Asked) + j] = Edited[j] /\ Edited[j] \in Chars
  BY StandingFacts
<1>5. Asked \in Seq(Signs)
  BY <1>4, AskedFacts
<1>6. /\ Len(Standing') = Len(Asked) + Len(less)
      /\ \A i \in 1 .. Len(Asked) : Standing'[i] = Asked[i]
      /\ \A j \in 1 .. Len(less) : Standing'[Len(Asked) + j] = less[j]
  BY <1>3, <1>5, Joined
<1>7. /\ Len(Standing) = Len(Standing') + 1 /\ Len(Standing') \in Nat
      /\ Len(Standing') >= 3
  BY <1>2, <1>4, <1>6
<1>8. Standing[Len(Standing') + 1] \in Chars
  <2>1. /\ Len(Edited) \in 1 .. Len(Edited)
        /\ Len(Standing') + 1 = Len(Asked) + Len(Edited)
    BY <1>2, <1>4, <1>6
  <2> QED
    BY <1>4, <2>1
<1>9. ASSUME NEW i \in 1 .. Len(Standing')
      PROVE  Standing'[i] = Standing[i]
  <2>1. CASE i <= Len(Asked)
    <3>1. i \in 1 .. Len(Asked)
      BY <1>4, <2>1
    <3> QED
      BY <1>4, <1>6, <3>1
  <2>2. CASE i > Len(Asked)
    <3>1. PICK j \in 1 .. Len(less) : i = Len(Asked) + j
      <4>1. i - Len(Asked) \in 1 .. Len(less) /\ i = Len(Asked) + (i - Len(Asked))
        BY <1>2, <1>4, <1>6, <2>2
      <4> QED
        BY <4>1
    <3>2. j \in 1 .. Len(Edited)
      BY <1>2, <1>4
    <3> QED
      BY <1>2, <1>4, <1>6, <3>1, <3>2
  <2> QED
    BY <1>4, <2>1, <2>2
<1> QED
  BY <1>7, <1>8, <1>9

LEMMA LineGrows ==
    ASSUME ConsoleInv, NEW ch \in Chars, Lengthens(ch),
           Len(Asked) + Len(Edited) - 2 <= Size - Width
    PROVE  screen' \in Behind(0) /\ Stands'
<1>1. Edited \in Seq(Chars)
  BY EditedFacts DEF ConsoleInv
<1>2. /\ Len(Standing') = Len(Standing) + 1 /\ Len(Standing) \in Nat
      /\ Standing'[Len(Standing) + 1] = ch
      /\ \A i \in 1 .. Len(Standing) : Standing'[i] = Standing[i]
  BY <1>1, Grown DEF Lengthens
<1>3. ch \in Cells
  BY CharacterFacts
<1>4. Len(Standing) - 2 <= Size - Width
  BY <1>1, StandingFacts
<1>5. ShownTo(screen, Standing, Len(Standing)) /\ screen \in Behind(0)
  BY DEF ConsoleInv, Stands
<1>6. /\ screen' \in Behind(0)
      /\ ShownTo(screen', Standing', Len(Standing) + 1)
  BY <1>2, <1>3, <1>4, <1>5, Typing DEF Lengthens
<1> QED
  BY <1>2, <1>6 DEF Stands

LEMMA LineShrinks ==
    ASSUME ConsoleInv, Shortens
    PROVE  /\ screen.pos >= 1 /\ Rubbed(screen, screen')
           /\ screen' \in Behind(0) /\ Stands'
<1>1. Edited \in Seq(Chars)
  BY EditedFacts DEF ConsoleInv
<1>2. PICK n \in Nat : n = Len(Standing')
  BY <1>1, Shrunk DEF Shortens
<1>3. /\ Len(Standing) = n + 1 /\ n >= 3
      /\ Standing[n + 1] \in Chars
      /\ \A i \in 1 .. n : Standing'[i] = Standing[i]
  BY <1>1, <1>2, Shrunk DEF Shortens
<1>4. ShownTo(screen, Standing, n + 1) /\ screen \in Behind(0)
  BY <1>3 DEF ConsoleInv, Stands
<1>5. /\ screen.pos >= 1 /\ Rubbed(screen, screen')
      /\ screen' \in Behind(0) /\ ShownTo(screen', Standing', n)
  <2>1. n >= 2
    BY <1>3
  <2> QED
    BY <1>3, <1>4, <2>1, Erasing DEF Shortens
<1> QED
  BY <1>2, <1>5 DEF Stands

LEMMA LineStarts ==
    ASSUME NEW s, NEW text, Starts(s, text)
    PROVE  screen' \in Behind(0) /\ Stands'
<1>1. PICK asked \in {Prompt, Ask} : asked = Asked'
  BY DEF Asked
<1>2. screen' \in Behind(0) /\ ShownTo(screen', asked, Len(asked))
  BY <1>1, PrintAsked DEF Starts
<1>3. Standing' = asked
  <2>1. asked \in Seq(Signs)
    BY AskedFacts
  <2>2. Standing' = asked \o <<>>
    BY <1>1 DEF Standing, Starts
  <2> QED
    BY <2>1, <2>2, ConcatEmptySeq
<1> QED
  BY <1>2, <1>3 DEF Stands

LEMMA ModeFacts ==
    ASSUME LineTypes
    PROVE  /\ mode = "shell" => Asked = Prompt /\ Edited = Command
           /\ mode = "guess" => Asked = Ask /\ Edited = digits
<1>1. "guess" # "shell"
  OBVIOUS
<1> QED
  BY <1>1, CommandIsLine, EditedFacts DEF Asked, Edited

\* The steps that work on the line of the shell.
LEMMA TypeCharacterStep ==
    ASSUME ConsoleInv, NEW ch \in Chars, TypeCharacter(ch)
    PROVE  /\ LineTypes' /\ Lengthens(ch)
           /\ Len(Asked) + Len(Edited) - 2 <= Size - Width
<1>1. LineSize \in Nat
  BY ConsoleAssumption
<1>2. /\ mode = "shell" /\ buffer_idx < LineSize - 1 /\ mode' = mode
      /\ input_buffer' = [input_buffer EXCEPT ![buffer_idx] = ch]
      /\ buffer_idx' = buffer_idx + 1
      /\ screen' = print_msg(screen, <<ch>>)
      /\ UNCHANGED <<digits, target, guesses, entered>>
  BY DEF TypeCharacter, game
<1>3. /\ input_buffer \in [0 .. LineSize - 1 -> Chars \cup {NUL}]
      /\ buffer_idx \in 0 .. LineSize - 1 /\ buffer_idx \in Nat
      /\ \A i \in 0 .. buffer_idx - 1 : input_buffer[i] \in Chars
  BY <1>1 DEF ConsoleInv, LineTypes
<1>4. /\ input_buffer' \in [0 .. LineSize - 1 -> Chars \cup {NUL}]
      /\ input_buffer'[buffer_idx] = ch
      /\ \A i \in 0 .. buffer_idx - 1 : input_buffer'[i] = input_buffer[i]
  BY <1>1, <1>2, <1>3
<1>5. buffer_idx' \in 0 .. LineSize - 1
  BY <1>1, <1>2, <1>3
<1>6. \A i \in 0 .. buffer_idx' - 1 : input_buffer'[i] \in Chars
  <2> SUFFICES ASSUME NEW i \in 0 .. buffer_idx
               PROVE  input_buffer'[i] \in Chars
    BY <1>2, <1>3
  <2>1. i = buffer_idx \/ i \in 0 .. buffer_idx - 1
    BY <1>3
  <2> QED
    BY <1>3, <1>4, <2>1
<1>7. LineTypes'
  BY <1>2, <1>4, <1>5, <1>6 DEF ConsoleInv, LineTypes
<1>8. Edited' = Append(Edited, ch)
  <2>1. Edited = [j \in 1 .. buffer_idx |-> input_buffer[j - 1]]
    BY <1>2 DEF Edited
  <2>2. Edited' = [j \in 1 .. buffer_idx + 1 |-> input_buffer'[j - 1]]
    BY <1>2 DEF Edited
  <2>3. Edited \in Seq(Chars) /\ Len(Edited) = buffer_idx
    BY <1>2, EditedFacts DEF ConsoleInv
  <2>4. Edited' \in Seq(Chars) /\ Len(Edited') = buffer_idx + 1
    <3>1. \A j \in 1 .. buffer_idx + 1 : j - 1 \in 0 .. buffer_idx' - 1
      BY <1>2, <1>3
    <3> QED
      BY <1>3, <1>6, <2>2, <3>1
  <2>5. PICK more \in Seq(Chars) : more = Append(Edited, ch)
    <3>1. Append(Edited, ch) \in Seq(Chars)
      BY <2>3, AppendProperties
    <3> QED
      BY <3>1
  <2>6. /\ Len(more) = buffer_idx + 1 /\ more[buffer_idx + 1] = ch
        /\ \A j \in 1 .. buffer_idx : more[j] = Edited[j]
    BY <2>3, <2>5, AppendProperties
  <2>7. \A j \in 1 .. buffer_idx + 1 : more[j] = Edited'[j]
    <3> SUFFICES ASSUME NEW j \in 1 .. buffer_idx + 1
                 PROVE  more[j] = Edited'[j]
      OBVIOUS
    <3>1. CASE j = buffer_idx + 1
      <4>1. Edited'[j] = input_buffer'[buffer_idx]
        BY <1>3, <2>2, <3>1
      <4> QED
        BY <1>4, <2>6, <3>1, <4>1
    <3>2. CASE j # buffer_idx + 1
      <4>1. j \in 1 .. buffer_idx /\ j - 1 \in 0 .. buffer_idx - 1
        BY <1>3, <3>2
      <4> QED
        BY <1>4, <2>1, <2>2, <2>6, <4>1
    <3> QED
      BY <3>1, <3>2
  <2>8. more = Edited'
    BY <2>4, <2>6, <2>7, SeqEqual
  <2> QED
    BY <2>5, <2>8
<1>9. Len(Asked) + Len(Edited) - 2 <= Size - Width
  <2>1. Len(Edited) = buffer_idx /\ Asked = Prompt
    BY <1>2, EditedFacts, ModeFacts DEF ConsoleInv
  <2>2. buffer_idx \in 0 .. LineSize - 2
    BY <1>1, <1>2, <1>3
  <2> QED
    BY <2>1, <2>2, Room
<1> QED
  BY <1>2, <1>7, <1>8, <1>9 DEF Lengthens

LEMMA BackspaceStep ==
    ASSUME ConsoleInv, Backspace
    PROVE  LineTypes' /\ Shortens
<1>1. LineSize \in Nat
  BY ConsoleAssumption
<1>2. /\ mode = "shell" /\ buffer_idx > 0 /\ mode' = mode
      /\ buffer_idx' = buffer_idx - 1 /\ input_buffer' = input_buffer
      /\ screen' = print_msg(screen, RubOut)
      /\ UNCHANGED <<digits, target, guesses, entered>>
  BY DEF Backspace, game
<1>3. buffer_idx \in 0 .. LineSize - 1 /\ buffer_idx \in Nat
  BY <1>1 DEF ConsoleInv, LineTypes
<1>4. /\ buffer_idx' \in 0 .. LineSize - 1
      /\ \A i \in 0 .. buffer_idx' - 1 : i \in 0 .. buffer_idx - 1
  BY <1>1, <1>2, <1>3
<1>5. LineTypes'
  BY <1>2, <1>4 DEF ConsoleInv, LineTypes
<1>6. Edited \in Seq(Chars) /\ Len(Edited) = buffer_idx
  BY <1>2, EditedFacts DEF ConsoleInv
<1>7. Edited # <<>>
  BY <1>2, <1>6, EmptySeq
<1>8. Edited' = Front(Edited)
  <2>1. Edited = [j \in 1 .. buffer_idx |-> input_buffer[j - 1]]
    BY <1>2 DEF Edited
  <2>2. Edited' = [j \in 1 .. buffer_idx - 1 |-> input_buffer[j - 1]]
    BY <1>2 DEF Edited
  <2>3. PICK less \in Seq(Chars) : less = Front(Edited)
    BY <1>6, <1>7, FrontFacts
  <2>4. /\ Len(less) = buffer_idx - 1
        /\ \A j \in 1 .. buffer_idx - 1 : less[j] = Edited[j]
    BY <1>6, <1>7, <2>3, FrontFacts
  <2>5. Edited' \in Seq(Chars) /\ Len(Edited') = buffer_idx - 1
    <3>1. \A j \in 1 .. buffer_idx - 1 : j \in 1 .. buffer_idx /\ Edited[j] \in Chars
      BY <1>3, <1>6, ElementOfSeq
    <3>2. \A j \in 1 .. buffer_idx - 1 : input_buffer[j - 1] \in Chars
      BY <2>1, <3>1
    <3>3. buffer_idx - 1 \in Nat
      BY <1>2, <1>3
    <3> QED
      BY <2>2, <3>2, <3>3
  <2>6. \A j \in 1 .. buffer_idx - 1 : less[j] = Edited'[j]
    <3>1. \A j \in 1 .. buffer_idx - 1 : j \in 1 .. buffer_idx
      BY <1>3
    <3> QED
      BY <2>1, <2>2, <2>4, <3>1
  <2>7. less = Edited'
    BY <2>4, <2>5, <2>6, SeqEqual
  <2> QED
    BY <2>3, <2>7
<1> QED
  BY <1>2, <1>5, <1>7, <1>8 DEF Shortens

\* The steps that work on the number.
LEMMA TypeDigitStep ==
    ASSUME ConsoleInv, NEW ch \in DOMAIN Digits, TypeDigit(ch)
    PROVE  /\ LineTypes' /\ Lengthens(ch) /\ ch \in Chars
           /\ Len(Asked) + Len(Edited) - 2 <= Size - Width
<1>1. MaxDigits \in Nat
  BY ConsoleAssumption
<1>2. /\ mode = "guess" /\ Len(digits) < MaxDigits /\ mode' = mode
      /\ digits' = Append(digits, ch)
      /\ screen' = print_msg(screen, <<ch>>)
      /\ UNCHANGED <<input_buffer, buffer_idx, target, guesses, entered>>
  BY DEF TypeDigit, line
<1>3. digits \in Seq(DOMAIN Digits) /\ Len(digits) \in Nat
  BY LenProperties DEF ConsoleInv, LineTypes
<1>4. /\ digits' \in Seq(DOMAIN Digits)
      /\ Len(digits') = Len(digits) + 1
  BY <1>2, <1>3, AppendProperties
<1>5. Len(digits') <= MaxDigits
  BY <1>1, <1>2, <1>3, <1>4
<1>6. LineTypes'
  BY <1>2, <1>4, <1>5 DEF ConsoleInv, LineTypes
<1>7. Edited = digits /\ Asked = Ask
  BY <1>2, ModeFacts DEF ConsoleInv
<1>8. Edited' = digits'
  BY <1>2 DEF Edited
<1>9. Len(Asked) + Len(Edited) - 2 <= Size - Width
  <2>1. Len(digits) \in 0 .. MaxDigits - 1
    BY <1>1, <1>2, <1>3
  <2> QED
    BY <1>7, <2>1, Room
<1> QED
  BY <1>2, <1>6, <1>7, <1>8, <1>9 DEF Lengthens, Chars

LEMMA EraseDigitStep ==
    ASSUME ConsoleInv, EraseDigit
    PROVE  LineTypes' /\ Shortens
<1>1. MaxDigits \in Nat
  BY ConsoleAssumption
<1>2. /\ mode = "guess" /\ digits # <<>> /\ mode' = mode
      /\ digits' = Front(digits)
      /\ screen' = print_msg(screen, RubOut)
      /\ UNCHANGED <<input_buffer, buffer_idx, target, guesses, entered>>
  BY DEF EraseDigit, line
<1>3. digits \in Seq(DOMAIN Digits) /\ Len(digits) <= MaxDigits
  BY DEF ConsoleInv, LineTypes
<1>4. /\ digits' \in Seq(DOMAIN Digits)
      /\ Len(digits') = Len(digits) - 1 /\ Len(digits) - 1 \in Nat
  BY <1>2, <1>3, FrontFacts
<1>5. Len(digits') <= MaxDigits
  BY <1>1, <1>3, <1>4
<1>6. LineTypes'
  BY <1>2, <1>4, <1>5 DEF ConsoleInv, LineTypes
<1>7. Edited = digits
  BY <1>2, ModeFacts DEF ConsoleInv
<1>8. Edited' = digits'
  BY <1>2 DEF Edited
<1> QED
  BY <1>2, <1>6, <1>7, <1>8 DEF Shortens

\* What Enter does to the line in each editor.
Entered == Edited' = <<>> /\ entered' = Edited

\* The texts of the system fit, with the line feed of Enter in front.
LEMMA Words ==
    /\ <<NL>> \in Seq(Signs) /\ Fits(<<NL>>)
    /\ Prompt \in Seq(Signs) /\ Ask \in Seq(Signs)
    /\ \A text \in Outputs \cup {Unknown, Rules, Hint, Praise} :
          /\ text \in Seq(Signs)
          /\ <<NL>> \o text \in Seq(Signs) /\ Fits(<<NL>> \o text)
<1>1. /\ Fits(<<NL>>)
      /\ \A text \in Outputs \cup {Unknown, Rules, Hint, Praise} : Fits(<<NL>> \o text)
  BY Zenon, TextsFit
<1>2. /\ Outputs \subseteq Seq(Signs)
      /\ {Prompt, Unknown, Rules, Ask, Hint, Praise} \subseteq Seq(Signs)
  BY Texts DEF Text, Signs
<1>3. <<NL>> \in Seq(Signs)
  BY DEF Signs
<1>4. \A text \in Outputs \cup {Unknown, Rules, Hint, Praise} :
          text \in Seq(Signs) /\ <<NL>> \o text \in Seq(Signs)
  BY <1>2, <1>3, ConcatProperties
<1> QED
  BY <1>1, <1>2, <1>3, <1>4, Zenon

\* After a line feed comes what the user has typed, or what the system has to say.
LEMMA AfterLine ==
    ASSUME NEW w \in Seq(Chars)
    PROVE  /\ <<NL>> \o Append(w, NL) \in Seq(Signs)
           /\ Fits(<<NL>> \o Append(w, NL))
           /\ w # <<>> =>
                 /\ <<NL>> \o (Unknown \o Append(w, NL)) \in Seq(Signs)
                 /\ Fits(<<NL>> \o (Unknown \o Append(w, NL)))
<1>1. PICK v \in Seq(Signs) : v = Append(w, NL)
  <2>1. w \in Seq(Signs) /\ NL \in Signs
    BY DEF Signs
  <2>2. Append(w, NL) \in Seq(Signs)
    BY <2>1, AppendProperties
  <2> QED
    BY <2>2
<1>2. /\ <<NL>> \in Seq(Signs) /\ Fits(<<NL>>) /\ Unknown \in Seq(Signs)
      /\ <<NL>> \o Unknown \in Seq(Signs) /\ Fits(<<NL>> \o Unknown)
  BY Words
<1>3. <<NL>> \o v \in Seq(Signs) /\ Fits(<<NL>> \o Append(w, NL))
  BY <1>1, <1>2, FitsLine, ConcatProperties
<1>4. (<<NL>> \o Unknown) \o v = <<NL>> \o (Unknown \o v)
  <2>1. PICK feed \in Seq(Signs) : feed = <<NL>>
    BY <1>2
  <2>2. (feed \o Unknown) \o v = feed \o (Unknown \o v)
    BY <1>2, ConcatAssociative
  <2> QED
    BY <2>1, <2>2
<1>5. (<<NL>> \o Unknown) \o v \in Seq(Signs)
  BY <1>1, <1>2, ConcatProperties
<1>6. w # <<>> => Fits((<<NL>> \o Unknown) \o Append(w, NL))
  BY <1>2, FitsLine
<1> QED
  BY <1>1, <1>3, <1>4, <1>5, <1>6

\* What is left of the state when a line of the shell has been handed over.
LEMMA SubmitStep ==
    ASSUME LineTypes, Submit, UNCHANGED <<mode, game>>
    PROVE  LineTypes' /\ Entered /\ Asked' = Prompt
<1>1. LineSize \in Nat /\ LineSize >= 1
  <2>1. LineSize \in Nat \ {0}
    BY ConsoleAssumption
  <2> QED
    BY <2>1
<1>2. /\ mode = "shell" /\ mode' = "shell" /\ buffer_idx' = 0
      /\ input_buffer' = Terminated /\ entered' = Command
      /\ UNCHANGED <<digits, target, guesses>>
  BY DEF Submit, game
<1>3. /\ Command \in Seq(Chars) /\ Edited = Command
      /\ Terminated \in [0 .. LineSize - 1 -> Chars \cup {NUL}]
  BY <1>2, CommandIsLine, ModeFacts
<1>4. 0 \in 0 .. LineSize - 1 /\ 0 .. 0 - 1 = {}
  BY <1>1
<1>5. LineTypes'
  BY <1>2, <1>3, <1>4 DEF LineTypes
<1>6. Edited' = <<>>
  <2>1. Edited' = [j \in 1 .. 0 |-> input_buffer'[j - 1]]
    BY <1>2 DEF Edited
  <2> QED
    BY <2>1
<1> QED
  BY <1>2, <1>3, <1>5, <1>6 DEF Entered, Asked

\* The prompt on a screen that has just been cleared.
LEMMA FirstPrompt ==
    /\ clear_screen \in Behind(0)
    /\ <<>> \in Seq(Signs) /\ Fits(<<>>) /\ Prompt = <<>> \o Prompt
<1>1. clear_screen \in Screens
  BY DEF clear_screen, Blank, Screens, Cells
<1>2. 0 \in 0 .. Size
  BY SizeFacts
<1>3. clear_screen.pos = 0 /\ \A i \in 0 .. Size - 1 : clear_screen.VGA[i] = NUL
  BY DEF clear_screen, Blank
<1> QED
  BY <1>1, <1>2, <1>3, Words, ReachFacts, FitsEmpty, ConcatEmptySeq DEF Behind, Clean

LEMMA EmptyLineStep ==
    ASSUME ConsoleInv, EmptyLine
    PROVE  LineTypes' /\ Entered /\ \E s, text : Starts(s, text)
<1>1. LineSize \in Nat /\ LineSize >= 1
  <2>1. LineSize \in Nat \ {0}
    BY ConsoleAssumption
  <2> QED
    BY <2>1
<1>2. /\ mode = "shell" /\ mode' = "shell" /\ buffer_idx = 0 /\ buffer_idx' = 0
      /\ input_buffer' = Terminated /\ entered' = <<>>
      /\ UNCHANGED <<digits, target, guesses>>
      /\ screen' = print_msg(screen, <<NL>> \o Prompt)
  BY DEF EmptyLine, game
<1>3. Terminated \in [0 .. LineSize - 1 -> Chars \cup {NUL}]
  BY CommandIsLine DEF ConsoleInv
<1>4. 0 \in 0 .. LineSize - 1 /\ 0 .. 0 - 1 = {} /\ <<>> \in Seq(Chars)
  BY <1>1
<1>5. LineTypes'
  BY <1>2, <1>3, <1>4 DEF LineTypes, ConsoleInv
<1>6. Edited' = <<>> /\ Edited = <<>>
  <2>1. /\ Edited' = [j \in 1 .. 0 |-> input_buffer'[j - 1]]
        /\ Edited = [j \in 1 .. 0 |-> input_buffer[j - 1]]
    BY <1>2 DEF Edited
  <2> QED
    BY <2>1
<1>7. Starts(screen, <<NL>>)
  BY <1>2, <1>6, Words DEF Starts, Asked, ConsoleInv
<1> QED
  BY <1>2, <1>5, <1>6, <1>7 DEF Entered

\* A command whose text fits.
LEMMA PrintsStep ==
    ASSUME ConsoleInv, Submit, NEW text, Prints(text),
           <<NL>> \o text \in Seq(Signs), Fits(<<NL>> \o text)
    PROVE  LineTypes' /\ Entered /\ \E s, t : Starts(s, t)
<1>1. /\ UNCHANGED <<mode, game>>
      /\ screen' = print_msg(screen, (<<NL>> \o text) \o Prompt)
  BY DEF Prints
<1>2. LineTypes' /\ Entered /\ Asked' = Prompt
  BY <1>1, SubmitStep DEF ConsoleInv
<1>3. Starts(screen, <<NL>> \o text)
  BY <1>1, <1>2 DEF Starts, Entered, ConsoleInv
<1> QED
  BY <1>2, <1>3

\* The commands of the shell: each prints a text that fits, and the prompt.
LEMMA CommandSteps ==
    ASSUME ConsoleInv, RunEcho \/ RunClear \/ RunOther \/ RunUnknown
    PROVE  LineTypes' /\ Entered /\ \E s, text : Starts(s, text)
<1>1. /\ Command \in Seq(Chars)
      /\ Submit => Command # <<>> /\ Tail(Command) \in Seq(Chars)
  <2>1. Command \in Seq(Chars) /\ Len(Command) = buffer_idx
    BY CommandIsLine DEF ConsoleInv
  <2>2. Submit => buffer_idx > 0
    BY DEF Submit
  <2>3. Submit => Command # <<>>
    BY <2>1, <2>2, EmptySeq
  <2> QED
    BY <2>1, <2>3, HeadTailProperties
<1>2. CASE RunEcho
  <2>1. Submit /\ Prints(Append(Tail(Command), NL))
    BY <1>2 DEF RunEcho
  <2> QED
    BY <1>1, <2>1, AfterLine, PrintsStep
<1>3. CASE RunClear
  <2>1. Submit /\ UNCHANGED <<mode, game>> /\ screen' = print_msg(clear_screen, Prompt)
    BY <1>3 DEF RunClear
  <2>2. LineTypes' /\ Entered /\ Asked' = Prompt
    BY <2>1, SubmitStep DEF ConsoleInv
  <2>3. Starts(clear_screen, <<>>)
    BY <2>1, <2>2, FirstPrompt DEF Starts, Entered
  <2> QED
    BY <2>2, <2>3
<1>4. CASE RunOther
  <2>1. Submit /\ \E text \in Outputs : Prints(text)
    BY <1>4 DEF RunOther
  <2> QED
    BY <2>1, Words, PrintsStep
<1>5. CASE RunUnknown
  <2>1. Submit /\ Prints(Unknown \o Append(Command, NL))
    BY <1>5 DEF RunUnknown
  <2> QED
    BY <1>1, <2>1, AfterLine, PrintsStep
<1> QED
  BY <1>2, <1>3, <1>4, <1>5

LEMMA RandomRange ==
    ASSUME NEW r \in Randoms
    PROVE  rand_range(r, 1, Highest) \in 1 .. Highest
<1>1. Highest \in Nat \ {0} /\ Randoms \subseteq Nat
  BY ConsoleAssumption
<1>2. Highest \in Nat /\ Highest >= 1 /\ r \in Nat
  BY <1>1
<1>3. r % Highest \in 0 .. Highest - 1
  BY <1>2
<1>4. Highest - 1 + 1 = Highest
  BY <1>2
<1> QED
  BY <1>2, <1>3, <1>4 DEF rand_range

\* The start of a game, and the answers to a number.
LEMMA RunGuessStep ==
    ASSUME ConsoleInv, RunGuess
    PROVE  LineTypes' /\ Entered /\ \E s, text : Starts(s, text)
<1>1. LineSize \in Nat \ {0} /\ MaxDigits \in Nat /\ MaxGuesses \in Nat
  BY ConsoleAssumption
<1>2. /\ mode = "shell" /\ buffer_idx' = 0
      /\ input_buffer' = Terminated /\ entered' = Command
      /\ screen' = print_msg(screen, (<<NL>> \o Rules) \o Ask)
      /\ mode' = "guess" /\ digits' = <<>> /\ guesses' = 0
  BY DEF RunGuess, Submit
<1>3. target' \in 1 .. Highest
  BY RandomRange DEF RunGuess
<1>4. /\ Command \in Seq(Chars) /\ Edited = Command
      /\ Terminated \in [0 .. LineSize - 1 -> Chars \cup {NUL}]
  BY <1>2, CommandIsLine, ModeFacts DEF ConsoleInv
<1>5. /\ 0 \in 0 .. LineSize - 1 /\ 0 .. 0 - 1 = {} /\ 0 \in 0 .. MaxGuesses
      /\ <<>> \in Seq(DOMAIN Digits) /\ Len(<<>>) <= MaxDigits
  BY <1>1
<1>6. LineTypes'
  BY <1>2, <1>3, <1>4, <1>5 DEF LineTypes
<1>7. "guess" # "shell"
  OBVIOUS
<1>8. Edited' = <<>> /\ Asked' = Ask
  BY <1>2, <1>7 DEF Edited, Asked
<1>9. Starts(screen, <<NL>> \o Rules)
  BY <1>2, <1>8, Words DEF Starts, ConsoleInv
<1> QED
  BY <1>2, <1>4, <1>6, <1>8, <1>9 DEF Entered

\* The answer to a number that does not end the game.
LEMMA HintStep ==
    ASSUME ConsoleInv, EnterNumber, UNCHANGED <<line, mode, target>>,
           guesses' \in 0 .. MaxGuesses,
           screen' = print_msg(screen, <<NL>> \o Hint \o Ask)
    PROVE  LineTypes' /\ Entered /\ \E s, text : Starts(s, text)
<1>1. MaxDigits \in Nat
  BY ConsoleAssumption
<1>2. /\ mode = "guess" /\ mode' = "guess" /\ entered' = digits /\ digits' = <<>>
      /\ UNCHANGED <<input_buffer, buffer_idx, target>>
      /\ screen' = print_msg(screen, (<<NL>> \o Hint) \o Ask)
  BY DEF EnterNumber, line
<1>3. <<>> \in Seq(DOMAIN Digits) /\ Len(<<>>) <= MaxDigits
  BY <1>1
<1>4. Edited = digits /\ digits \in Seq(Chars)
  BY <1>2, EditedFacts DEF ConsoleInv
<1>5. LineTypes'
  BY <1>2, <1>3, <1>4 DEF LineTypes, ConsoleInv
<1>6. "guess" # "shell"
  OBVIOUS
<1>7. Edited' = <<>> /\ Asked' = Ask
  BY <1>2, <1>6 DEF Edited, Asked
<1>8. Starts(screen, <<NL>> \o Hint)
  BY <1>2, <1>7, Words DEF Starts, ConsoleInv
<1> QED
  BY <1>2, <1>4, <1>5, <1>7, <1>8 DEF Entered

LEMMA GuessSteps ==
    ASSUME ConsoleInv, OutOfRange \/ Wrong \/ Correct
    PROVE  LineTypes' /\ Entered /\ \E s, text : Starts(s, text)
<1>1. MaxGuesses \in Nat /\ MaxDigits \in Nat
  BY ConsoleAssumption
<1>2. guesses \in 0 .. MaxGuesses
  BY DEF ConsoleInv, LineTypes
<1>3. CASE OutOfRange
  <2>1. /\ EnterNumber /\ UNCHANGED <<line, mode, target>> /\ guesses' = guesses
        /\ screen' = print_msg(screen, <<NL>> \o Hint \o Ask)
    BY <1>3 DEF OutOfRange
  <2> QED
    BY <1>2, <2>1, HintStep
<1>4. CASE Wrong
  <2>1. /\ EnterNumber /\ UNCHANGED <<line, mode, target>>
        /\ guesses < MaxGuesses /\ guesses' = guesses + 1
        /\ screen' = print_msg(screen, <<NL>> \o Hint \o Ask)
    BY <1>4 DEF Wrong
  <2>2. guesses' \in 0 .. MaxGuesses
    BY <1>1, <1>2, <2>1
  <2> QED
    BY <2>1, <2>2, HintStep
<1>5. CASE Correct
  <2>1. /\ mode = "guess" /\ mode' = "shell" /\ entered' = digits /\ digits' = <<>>
        /\ UNCHANGED <<input_buffer, buffer_idx>> /\ target' = 0 /\ guesses' = 0
        /\ screen' = print_msg(screen, (<<NL>> \o Praise) \o Prompt)
    BY <1>5 DEF Correct, EnterNumber, line
  <2>2. Edited = digits /\ digits \in Seq(Chars)
    BY <2>1, EditedFacts DEF ConsoleInv
  <2>3. <<>> \in Seq(DOMAIN Digits) /\ Len(<<>>) <= MaxDigits /\ 0 \in 0 .. MaxGuesses
    BY <1>1
  <2>4. LineTypes'
    BY <2>1, <2>2, <2>3 DEF LineTypes, ConsoleInv
  <2>5. Edited' = <<>>
    <3>1. buffer_idx' = 0
      BY <2>1 DEF LineTypes, ConsoleInv
    <3>2. Edited' = [j \in 1 .. 0 |-> input_buffer'[j - 1]]
      BY <2>1, <3>1 DEF Edited
    <3> QED
      BY <3>2
  <2>6. Asked' = Prompt
    BY <2>1 DEF Asked
  <2>7. Starts(screen, <<NL>> \o Praise)
    BY <2>1, <2>5, <2>6, Words DEF Starts, ConsoleInv
  <2> QED
    BY <2>1, <2>2, <2>4, <2>5, <2>7 DEF Entered
<1> QED
  BY <1>3, <1>4, <1>5

-----------------------------------------------------------------------------
(* The invariant                                                            *)

LEMMA ConsoleStarts == Init => ConsoleInv
<1> SUFFICES ASSUME Init
             PROVE  ConsoleInv
  OBVIOUS
<1>1. LineSize \in Nat \ {0} /\ MaxDigits \in Nat /\ MaxGuesses \in Nat
  BY ConsoleAssumption
<1>2. /\ screen = print_msg(clear_screen, Prompt)
      /\ input_buffer = [i \in 0 .. LineSize - 1 |-> NUL] /\ buffer_idx = 0
      /\ mode = "shell" /\ digits = <<>> /\ target = 0 /\ guesses = 0
      /\ entered = <<>>
  BY DEF Init
<1>3. /\ 0 \in 0 .. LineSize - 1 /\ 0 .. 0 - 1 = {} /\ 0 \in 0 .. MaxGuesses
      /\ <<>> \in Seq(DOMAIN Digits) /\ Len(<<>>) <= MaxDigits /\ <<>> \in Seq(Chars)
  BY <1>1
<1>4. LineTypes
  BY <1>2, <1>3 DEF LineTypes
<1>5. PICK asked \in {Prompt, Ask} : asked = Prompt
  OBVIOUS
<1>6. screen \in Behind(0) /\ ShownTo(screen, asked, Len(asked))
  BY <1>2, <1>5, FirstPrompt, PrintAsked
<1>7. Standing = asked
  <2>1. Edited = <<>>
    <3>1. Edited = [j \in 1 .. 0 |-> input_buffer[j - 1]]
      BY <1>2 DEF Edited
    <3> QED
      BY <3>1
  <2>2. asked \in Seq(Signs) /\ Standing = asked \o <<>>
    BY <1>2, <1>5, <2>1, AskedFacts DEF Standing, Asked
  <2> QED
    BY <2>2, ConcatEmptySeq
<1> QED
  BY <1>4, <1>6, <1>7 DEF ConsoleInv, Stands

\* A step is a key that lengthens the line, one that shortens it, or Enter.
LEMMA Kinds ==
    ASSUME ConsoleInv, Next
    PROVE  /\ ConsoleInv'
           /\ Edit => (\E ch \in Chars : Lengthens(ch)) \/ Shortens
           /\ ~Edit => Entered
<1> DEFINE Keeps == LineTypes' /\ screen' \in Behind(0) /\ Stands'
<1>1. ASSUME NEW ch \in Chars, Lengthens(ch), LineTypes',
             Len(Asked) + Len(Edited) - 2 <= Size - Width
      PROVE  Keeps /\ \E c \in Chars : Lengthens(c)
  BY <1>1, LineGrows
<1>2. ASSUME Shortens, LineTypes'
      PROVE  Keeps
  BY <1>2, LineShrinks
<1>3. ASSUME LineTypes', \E s, text : Starts(s, text)
      PROVE  Keeps
  <2>1. PICK s, text : Starts(s, text)
    BY <1>3
  <2> QED
    BY <1>3, <2>1, LineStarts
<1> HIDE DEF Keeps
<1>4. ASSUME Edit
      PROVE  Keeps /\ ((\E ch \in Chars : Lengthens(ch)) \/ Shortens)
  <2>1. ASSUME NEW ch \in Chars, TypeCharacter(ch)
        PROVE  Keeps /\ ((\E c \in Chars : Lengthens(c)) \/ Shortens)
    BY <1>1, <2>1, TypeCharacterStep
  <2>2. ASSUME Backspace
        PROVE  Keeps /\ ((\E c \in Chars : Lengthens(c)) \/ Shortens)
    BY <1>2, <2>2, BackspaceStep
  <2>3. ASSUME NEW ch \in DOMAIN Digits, TypeDigit(ch)
        PROVE  Keeps /\ ((\E c \in Chars : Lengthens(c)) \/ Shortens)
    BY <1>1, <2>3, TypeDigitStep
  <2>4. ASSUME EraseDigit
        PROVE  Keeps /\ ((\E c \in Chars : Lengthens(c)) \/ Shortens)
    BY <1>2, <2>4, EraseDigitStep
  <2> QED
    BY <1>4, <2>1, <2>2, <2>3, <2>4 DEF Edit
<1>5. ASSUME ~Edit
      PROVE  Keeps /\ Entered
  <2>1. CASE EmptyLine
    BY <1>3, <2>1, EmptyLineStep
  <2>2. CASE RunEcho \/ RunClear \/ RunOther \/ RunUnknown
    BY <1>3, <2>2, CommandSteps
  <2>3. CASE RunGuess
    BY <1>3, <2>3, RunGuessStep
  <2>4. CASE OutOfRange \/ Wrong \/ Correct
    BY <1>3, <2>4, GuessSteps
  <2> QED
    BY <1>5, <2>1, <2>2, <2>3, <2>4 DEF Next
<1>6. Keeps
  BY <1>4, <1>5
<1>7. ConsoleInv'
  BY <1>6 DEF Keeps, ConsoleInv
<1> QED
  BY <1>4, <1>5, <1>7

LEMMA ConsoleKept == ConsoleInv /\ [Next]_vars => ConsoleInv'
<1>1. CASE Next
  BY <1>1, Kinds
<1>2. ASSUME ConsoleInv, UNCHANGED vars
      PROVE  ConsoleInv'
  <2>1. UNCHANGED <<screen, input_buffer, buffer_idx, mode, digits, target, guesses, entered>>
    BY <1>2 DEF vars, line, game
  <2>2. LineTypes'
    BY <1>2, <2>1 DEF ConsoleInv, LineTypes
  <2>3. Standing' = Standing
    BY <2>1 DEF Standing, Asked, Edited
  <2> QED
    BY <1>2, <2>1, <2>2, <2>3 DEF ConsoleInv, Stands
<1> QED
  BY <1>1, <1>2

\* Whenever a key is waited for the position is on the screen, nothing stands behind
\* it, and the prompt and the line of the editor stand in front of it: print_msg,
\* shell_process_input and read_number together (vga.c:36-79, shell.c:31-51,
\* games.c:8-38).
THEOREM ConsoleInvariance == Spec => []ConsoleInv
<1> QED
  BY ConsoleStarts, ConsoleKept, PTL DEF Spec

\* The types, and that the position never stays below the screen: every line feed is
\* made up for by the characters of the next text (vga.c:36-79).
THEOREM ConsoleTypesHold == Spec => []ConsoleTypeOK
<1>1. ConsoleInv => ConsoleTypeOK
  <2> SUFFICES ASSUME ConsoleInv
               PROVE  ConsoleTypeOK
    OBVIOUS
  <2>1. screen \in Screens /\ screen.pos \in 0 .. Size
    BY ReachFacts DEF ConsoleInv, Behind
  <2>2. screen \in [VGA : [0 .. Size - 1 -> Cells], pos : 0 .. Size]
    BY <2>1 DEF Screens
  <2> QED
    BY <2>2 DEF ConsoleTypeOK, ConsoleInv, LineTypes, Cells
<1> QED
  BY <1>1, ConsoleInvariance, PTL

\* What the invariant says of the cells the properties look at.
LEMMA ShownStands ==
    ASSUME ConsoleInv
    PROVE  /\ Asked \in {Prompt, Ask} /\ DOMAIN Asked = 1 .. Len(Asked)
           /\ Len(Asked) \in Nat /\ Len(Asked) >= 3
           /\ Typed \in Nat /\ Edited \in Seq(Chars) /\ Len(Edited) = Typed
           /\ \A i \in 1 .. Len(Asked) :
                 LET cell == Cell(screen.pos - (Len(Asked) + Typed) + i - 1)
                 IN  cell = Asked[i] \/ (i <= 2 /\ cell = NUL)
           /\ \A j \in 1 .. Typed : Cell(screen.pos - Typed + j - 1) = Edited[j]
<1>1. Edited \in Seq(Chars) /\ Len(Edited) = Typed
  BY EditedFacts DEF ConsoleInv
<1>2. /\ Asked \in {Prompt, Ask} /\ Len(Asked) \in Nat /\ Len(Asked) >= 3
      /\ Typed \in Nat /\ Len(Standing) = Len(Asked) + Typed
      /\ \A i \in 1 .. Len(Asked) : Standing[i] = Asked[i]
      /\ \A j \in 1 .. Typed : Standing[Len(Asked) + j] = Edited[j]
  BY <1>1, StandingFacts
<1>3. DOMAIN Asked = 1 .. Len(Asked)
  <2>1. Asked \in Seq(Signs)
    BY <1>2, AskedFacts
  <2> QED
    BY <2>1, LenProperties
<1> DEFINE n == Len(Asked) + Typed
<1>4. ASSUME NEW i \in 1 .. n
      PROVE  \/ Cell(screen.pos - n + i - 1) = Standing[i]
             \/ i <= 2 /\ Cell(screen.pos - n + i - 1) = NUL
  BY <1>2 DEF ConsoleInv, Stands, ShownTo, CellOf, Cell
<1>5. screen.pos \in Int
  BY DEF ConsoleInv, Behind, Screens
<1>6. ASSUME NEW i \in 1 .. Len(Asked)
      PROVE  LET cell == Cell(screen.pos - n + i - 1)
             IN  cell = Asked[i] \/ (i <= 2 /\ cell = NUL)
  <2>1. i \in 1 .. n
    BY <1>2
  <2> HIDE DEF n
  <2> QED
    BY <1>2, <1>4, <2>1
<1>7. ASSUME NEW j \in 1 .. Typed
      PROVE  Cell(screen.pos - Typed + j - 1) = Edited[j]
  <2>0. Len(Asked) \in Nat /\ Len(Asked) >= 3 /\ Typed \in Nat
    BY <1>2
  <2>1. Len(Asked) + j \in 1 .. n /\ ~(Len(Asked) + j <= 2)
    BY <2>0
  <2>2. screen.pos - n + (Len(Asked) + j) - 1 = screen.pos - Typed + j - 1
    BY <1>5, <2>0
  <2> HIDE DEF n
  <2> QED
    BY <1>2, <1>4, <2>1, <2>2
<1> QED
  BY <1>1, <1>2, <1>3, <1>6, <1>7

\* In front of what is typed stands the prompt, of which at most the first two
\* characters are lost at the bottom of the screen (vga.c:36-41, 65-69).
THEOREM PromptStays == Spec => []PromptShown
<1>1. ConsoleInv => PromptShown
  <2> SUFFICES ASSUME ConsoleInv, NEW i \in DOMAIN Asked
               PROVE  \/ Seen(Len(Asked) + Typed)[i] = Asked[i]
                      \/ i <= 2 /\ Seen(Len(Asked) + Typed)[i] = NUL
    BY DEF PromptShown
  <2>1. i \in 1 .. Len(Asked) /\ i \in 1 .. Len(Asked) + Typed
    BY ShownStands
  <2>2. Seen(Len(Asked) + Typed)[i] = Cell(screen.pos - (Len(Asked) + Typed) + i - 1)
    BY <2>1 DEF Seen
  <2> QED
    BY <2>1, <2>2, ShownStands
<1> QED
  BY <1>1, ConsoleInvariance, PTL

\* Behind the position there is nothing, not of a line that was erased, nor after
\* scrolling or clearing (vga.c:15-26, 55-63, 81-88).
THEOREM NothingStaysBehind == Spec => []NothingBehind
<1>1. ConsoleInv => NothingBehind
  <2> SUFFICES ASSUME ConsoleInv, NEW i \in screen.pos .. Size - 1
               PROVE  screen.VGA[i] \in {NUL, Space}
    BY DEF NothingBehind
  <2>1. screen.pos \in Nat /\ Clean(screen)
    BY ReachFacts, SizeFacts DEF ConsoleInv, Behind
  <2>2. i \in 0 .. Size - 1 /\ i >= screen.pos
    BY <2>1, SizeFacts
  <2> QED
    BY <2>1, <2>2 DEF Clean
<1> QED
  BY <1>1, ConsoleInvariance, PTL

\* What you see is what the editor has.
LEMMA SeenIsEdited == ConsoleInv => Seen(Typed) = Edited
<1> SUFFICES ASSUME ConsoleInv
             PROVE  Seen(Typed) = Edited
  OBVIOUS
<1>1. Seen(Typed) = [j \in 1 .. Typed |-> Cell(screen.pos - Typed + j - 1)]
  BY DEF Seen
<1>2. \A j \in 1 .. Typed : Cell(screen.pos - Typed + j - 1) = Edited[j]
  BY ShownStands
<1>3. Edited = [j \in 1 .. Typed |-> Edited[j]]
  BY ShownStands
<1> QED
  BY <1>1, <1>2, <1>3

\* The number that ends the game stands on the screen as it was typed, and is the one
\* that was thought of (games.c:8-38, 75-96).
THEOREM WinIsShown == Spec => WinIsSeen
<1>1. ASSUME ConsoleInv, Next, mode = "guess", mode' = "shell"
      PROVE  Value(Seen(Typed)) = target
  <2>1. "guess" # "shell"
    OBVIOUS
  <2>2. Correct
    BY <1>1, <2>1 DEF Next, Edit, TypeCharacter, Backspace, TypeDigit, EraseDigit,
       EmptyLine, RunEcho, RunClear, RunOther, RunUnknown, RunGuess, Submit,
       OutOfRange, Wrong
  <2>3. Edited = digits
    BY <1>1, ModeFacts DEF ConsoleInv
  <2> QED
    BY <1>1, <2>2, <2>3, SeenIsEdited DEF Correct
<1>2. ConsoleInv /\ [Next]_vars =>
          [mode = "guess" /\ mode' = "shell" => Value(Seen(Typed)) = target]_vars
  BY <1>1
<1> QED
  BY <1>2, ConsoleInvariance, PTL DEF Spec, WinIsSeen

\* A character leaves what stands before the line, or moves it up a row.
LEMMA PutKeepsRest ==
    ASSUME NEW s \in Behind(0), NEW ch \in Cells, NEW n \in Nat
    PROVE  \E up \in {0, Width} :
              /\ up = Width => s.pos = Size
              /\ \A i \in up .. s.pos - n - 1 : Put(s, ch).VGA[i - up] = s.VGA[i]
<1>1. s \in Screens /\ s.pos \in 0 .. Size
  BY ReachFacts DEF Behind
<1>2. CASE s.pos < Size
  <2>1. \A k \in 0 .. Size - 1 :
            Put(s, ch).VGA[k] = IF k = s.pos THEN ch ELSE CellOf(s, k)
    BY <1>1, <1>2, PutCharacter
  <2>2. ASSUME NEW i \in 0 .. s.pos - n - 1
        PROVE  Put(s, ch).VGA[i - 0] = s.VGA[i]
    <3>1. i \in 0 .. Size - 1 /\ i # s.pos /\ i - 0 = i
      BY <1>1, <1>2, SizeFacts
    <3> QED
      BY <2>1, <3>1 DEF CellOf
  <2>3. 0 # Width
    BY SizeFacts
  <2> QED
    BY <2>2, <2>3
<1>3. CASE s.pos = Size
  <2>1. \A k \in 0 .. Size - 1 :
            Put(s, ch).VGA[k] = IF k = s.pos - Width THEN ch ELSE CellOf(s, k + Width)
    BY <1>1, <1>3, PutCharacter
  <2>2. ASSUME NEW i \in Width .. s.pos - n - 1
        PROVE  Put(s, ch).VGA[i - Width] = s.VGA[i]
    <3>1. /\ i - Width \in 0 .. Size - 1 /\ i - Width # s.pos - Width
          /\ (i - Width) + Width = i /\ i \in 0 .. Size - 1
      BY <1>1, <1>3, SizeFacts
    <3> QED
      BY <2>1, <3>1 DEF CellOf
  <2> QED
    BY <1>3, <2>2
<1> QED
  BY <1>1, <1>2, <1>3, SizeFacts

\* A key other than Enter changes nothing above the line that is edited, nor its
\* prompt; a character on a full screen moves all of it up (vga.c:15-26, 43-79).
THEOREM EditKeeps == Spec => EditKeepsRest
<1> DEFINE Rest == \E up \in {0, Width} :
                      /\ up = Width => screen.pos = Size
                      /\ \A i \in up .. screen.pos - Typed - 1 :
                            screen'.VGA[i - up] = screen.VGA[i]
<1>1. ASSUME ConsoleInv, Next, Edit
      PROVE  Rest
  <2>1. Typed \in Nat /\ screen \in Behind(0) /\ Edited \in Seq(Chars) /\ Len(Edited) = Typed
    BY <1>1, ShownStands DEF ConsoleInv
  <2>2. screen \in Screens /\ screen.pos \in 0 .. Size
    BY <2>1, ReachFacts DEF Behind
  <2>3. ASSUME NEW ch \in Chars, Lengthens(ch)
        PROVE  Rest
    <3>1. ch \in Cells
      BY CharacterFacts
    <3>2. screen' = Put(screen, ch)
      BY <2>2, <2>3, <3>1, PrintCharacter DEF Lengthens
    <3> QED
      BY <2>1, <3>1, <3>2, PutKeepsRest
  <2>4. ASSUME Shortens
        PROVE  Rest
    <3>1. Rubbed(screen, screen')
      BY <1>1, <2>4, LineShrinks
    <3>2. Typed >= 1
      BY <2>1, <2>4, EmptySeq DEF Shortens
    <3>3. ASSUME NEW i \in 0 .. screen.pos - Typed - 1
          PROVE  screen'.VGA[i - 0] = screen.VGA[i]
      <4>1. i \in 0 .. Size - 1 /\ i # screen.pos - 1 /\ i - 0 = i
        BY <2>1, <2>2, <3>2, SizeFacts
      <4> QED
        BY <3>1, <4>1 DEF Rubbed
    <3>4. 0 # Width
      BY SizeFacts
    <3> QED
      BY <3>3, <3>4
  <2> QED
    BY <1>1, <2>3, <2>4, Kinds
<1>2. ConsoleInv /\ [Next]_vars => [Edit => Rest]_vars
  BY <1>1
<1> QED
  BY <1>2, ConsoleInvariance, PTL DEF Spec, EditKeepsRest

\* What is typed is what the editor that reads takes, and as much as it has room for.
Takes(m) == IF m = "shell" THEN Chars ELSE DOMAIN Digits
Holds(m) == IF m = "shell" THEN LineSize - 1 ELSE MaxDigits

LEMMA EditIsOneKey ==
    ASSUME ConsoleInv, Edit
    PROVE  /\ mode \in {"shell", "guess"}
           /\ \/ /\ Len(Edited) < Holds(mode)
                 /\ \E ch \in Takes(mode) : Lengthens(ch)
              \/ Shortens
<1>1. mode \in {"shell", "guess"}
  BY DEF ConsoleInv, LineTypes
<1>2. "guess" # "shell"
  OBVIOUS
<1>3. /\ mode = "shell" => Len(Edited) = buffer_idx
      /\ mode = "guess" => Len(Edited) = Len(digits)
  BY EditedFacts DEF ConsoleInv
<1>4. ASSUME NEW ch \in Chars, TypeCharacter(ch)
      PROVE  /\ Len(Edited) < Holds(mode)
             /\ \E c \in Takes(mode) : Lengthens(c)
  <2>1. mode = "shell" /\ buffer_idx < LineSize - 1
    BY <1>4 DEF TypeCharacter
  <2>2. Lengthens(ch)
    BY <1>4, TypeCharacterStep
  <2> QED
    BY <1>3, <2>1, <2>2 DEF Takes, Holds
<1>5. ASSUME NEW ch \in DOMAIN Digits, TypeDigit(ch)
      PROVE  /\ Len(Edited) < Holds(mode)
             /\ \E c \in Takes(mode) : Lengthens(c)
  <2>1. mode = "guess" /\ Len(digits) < MaxDigits
    BY <1>5 DEF TypeDigit
  <2>2. Lengthens(ch)
    BY <1>5, TypeDigitStep
  <2> QED
    BY <1>2, <1>3, <2>1, <2>2 DEF Takes, Holds
<1>6. Backspace \/ EraseDigit => Shortens
  BY BackspaceStep, EraseDigitStep
<1> QED
  BY <1>1, <1>4, <1>5, <1>6 DEF Edit

LEMMA EditorStarts == Init => E!Init
<1> SUFFICES ASSUME Init
             PROVE  E!Init
  OBVIOUS
<1>1. ConsoleInv
  BY ConsoleStarts
<1>2. mode = "shell" /\ buffer_idx = 0 /\ entered = <<>>
  BY DEF Init
<1>3. Edited = <<>>
  <2>1. Edited \in Seq(Chars) /\ Len(Edited) = 0
    BY <1>1, <1>2, EditedFacts DEF ConsoleInv
  <2> QED
    BY <2>1, EmptySeq
<1>4. Seen(Typed) = <<>>
  BY <1>1, <1>3, SeenIsEdited
<1> QED
  BY <1>2, <1>4 DEF E!Init

\* Every step is one of LineEditor, or changes nothing there.
LEMMA EditorStep ==
    ConsoleInv /\ Seen(Typed) = Edited /\ (Seen(Typed))' = Edited' /\ [Next]_vars
        => [E!Next]_(E!vars)
<1> SUFFICES ASSUME ConsoleInv, Seen(Typed) = Edited, (Seen(Typed))' = Edited', [Next]_vars
             PROVE  [E!Next]_(E!vars)
  OBVIOUS
<1> DEFINE Accepts == [shell |-> Chars, guess |-> DOMAIN Digits]
           Limit == [shell |-> LineSize - 1, guess |-> MaxDigits]
<1>1. \A m \in {"shell", "guess"} : Accepts[m] = Takes(m) /\ Limit[m] = Holds(m)
  BY DEF Takes, Holds
<1>2. ASSUME Next, Edit
      PROVE  E!Next
  <2>1. mode \in {"shell", "guess"}
    BY <1>2, EditIsOneKey
  <2>2. entered' = entered
    BY <1>2 DEF Edit, TypeCharacter, Backspace, TypeDigit, EraseDigit
  <2>3. CASE Len(Edited) < Holds(mode) /\ \E ch \in Takes(mode) : Lengthens(ch)
    <3>1. PICK ch \in Takes(mode) : Lengthens(ch)
      BY <2>3
    <3>2. mode' = mode /\ Edited' = Append(Edited, ch)
      BY <3>1 DEF Lengthens
    <3>3. ch \in Accepts[mode] /\ Len(Seen(Typed)) < Limit[mode]
      BY <1>1, <2>1, <2>3
    <3>4. (Seen(Typed))' = Append(Seen(Typed), ch)
      BY <3>2
    <3>5. E!Type
      BY <2>2, <3>2, <3>3, <3>4 DEF E!Type
    <3> QED
      BY <3>5 DEF E!Next
  <2>4. CASE Shortens
    <3>1. mode' = mode /\ Edited # <<>> /\ Edited' = Front(Edited)
      BY <2>4 DEF Shortens
    <3>2. E!Erase
      BY <2>2, <3>1 DEF E!Erase, E!Front, Front
    <3> QED
      BY <3>2 DEF E!Next
  <2> QED
    BY <1>2, <2>3, <2>4, EditIsOneKey
<1>3. ASSUME Next, ~Edit
      PROVE  E!Next
  <2>1. Entered /\ ConsoleInv'
    BY <1>3, Kinds
  <2>2. mode' \in {"shell", "guess"}
    BY <2>1 DEF ConsoleInv, LineTypes
  <2>3. E!Enter
    BY <2>1, <2>2 DEF E!Enter, Entered
  <2> QED
    BY <2>3 DEF E!Next
<1>4. ASSUME UNCHANGED vars
      PROVE  UNCHANGED E!vars
  <2>1. UNCHANGED <<input_buffer, buffer_idx, mode, digits, entered>>
    BY <1>4 DEF vars, line, game
  <2>2. Edited' = Edited
    BY <2>1 DEF Edited
  <2> QED
    BY <2>1, <2>2 DEF E!vars
<1> QED
  BY <1>2, <1>3, <1>4

\* The screen and the two line editors behave as one line of input: what stands in
\* front of the position is what was typed and what Enter hands over (shell.c:31-51,
\* games.c:8-38, vga.c:43-79).
THEOREM ConsoleImplementsLineEditor == Spec => IsLineEditor
<1>1. Spec => E!Init
  BY EditorStarts DEF Spec
<1>2. Spec => [](ConsoleInv /\ Seen(Typed) = Edited)
  BY ConsoleInvariance, SeenIsEdited, PTL
<1>3. /\ ConsoleInv /\ Seen(Typed) = Edited
      /\ (ConsoleInv /\ Seen(Typed) = Edited)'
      /\ [Next]_vars
      => [E!Next]_(E!vars)
  BY EditorStep
<1> QED
  BY <1>1, <1>2, <1>3, PTL DEF Spec, IsLineEditor, E!Spec
=============================================================================
