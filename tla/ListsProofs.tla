---------------------------- MODULE ListsProofs ----------------------------
(***************************************************************************)
(* The ring buffer holds a sequence, for any capacity: what growing,       *)
(* pushing, popping and rebuilding do to its contents.  And the list       *)
(* commands keep the buffer well formed and its memory accounted, and      *)
(* implement AbstractList, for any elements, limits and sequences of       *)
(* commands.                                                               *)
(***************************************************************************)
EXTENDS Lists, SequenceTheorems, FiniteSetTheorems, WellFoundedInduction, TLAPS

\* The slots of the list, and that the others are cleared.
Used(d) == {Slot(d, i) : i \in 0 .. d.count - 1}

Clear(d) == \A s \in 1 .. Cap(d) : s \notin Used(d) => d.data[s] = Blank

(***************************************************************************)
(* Indices go round at most once: (head + i) % len(data) is the index, or  *)
(* the index less the capacity.                                            *)
(***************************************************************************)
LEMMA ModOnce ==
    ASSUME NEW c \in Nat \ {0}, NEW a \in Nat, a < c + c
    PROVE  a % c = IF a < c THEN a ELSE a - c
  BY SMT

\* Two positions that agree modulo the capacity.
LEMMA Agree ==
    ASSUME NEW c \in Nat \ {0}, NEW a \in Nat, NEW t \in Nat, a < c + c, t <= c
    PROVE  a % c = t % c <=> t = a \/ t = a - c \/ (t = c /\ a = 0)
  <1>1. a % c = IF a < c THEN a ELSE a - c
    BY ModOnce
  <1>2. t % c = IF t < c THEN t ELSE t - c
    <2>1. t < c + c
      OBVIOUS
    <2> QED BY <2>1, ModOnce
  <1> QED BY <1>1, <1>2

\* What Layout says of head, tail and count, without the modulus.
LEMMA LayoutFacts ==
    ASSUME NEW d, Layout(d)
    PROVE  /\ Cap(d) \in Nat \ {0}
           /\ d.count \in 0 .. Cap(d) /\ d.head \in 0 .. Cap(d) - 1
           /\ d.tail \in 0 .. Cap(d)
           /\ d.data \in Seq(Nat) /\ Len(d.data) = Cap(d)
           /\ d.content \in Int
           /\ \/ d.tail = d.head + d.count
              \/ d.tail = d.head + d.count - Cap(d)
              \/ d.tail = Cap(d) /\ d.head = 0 /\ d.count = 0
  <1> DEFINE c == Cap(d)
             h == d.head
             n == d.count
             t == d.tail
             a == h + n
  <1>1. /\ c \in Nat \ {0} /\ n \in Nat /\ h \in Nat /\ t \in Nat
        /\ n <= c /\ h < c /\ t <= c
        /\ d.data \in Seq(Nat) /\ Len(d.data) = c /\ d.content \in Int
        /\ a % c = t % c
    BY DEF Layout, Deques, Cap
  <1> HIDE DEF c, h, n, t
  <1>2. a \in Nat /\ a < c + c
    BY <1>1
  <1>3. t = a \/ t = a - c \/ (t = c /\ a = 0)
    <2> HIDE DEF a
    <2> QED BY <1>1, <1>2, Agree
  <1>4. /\ c \in Nat \ {0} /\ n \in 0 .. c /\ h \in 0 .. c - 1 /\ t \in 0 .. c
        /\ \/ t = h + n
           \/ t = h + n - c
           \/ t = c /\ h = 0 /\ n = 0
    BY <1>1, <1>3
  <1> QED BY <1>1, <1>4 DEF c, h, n, t

\* The slot of the element i of a well laid out buffer.
LEMMA SlotIs ==
    ASSUME NEW d, Layout(d), NEW i \in 0 .. Cap(d) - 1
    PROVE  /\ Slot(d, i) = IF d.head + i < Cap(d) THEN d.head + i + 1
                                                 ELSE d.head + i + 1 - Cap(d)
           /\ Slot(d, i) \in 1 .. Cap(d)
  <1> DEFINE a == d.head + i
             c == Cap(d)
  <1>1. c \in Nat \ {0} /\ a \in Nat /\ a < c + c
    BY LayoutFacts
  <1>2. a % c = IF a < c THEN a ELSE a - c
    <2> HIDE DEF a, c
    <2> QED BY <1>1, ModOnce
  <1>3. Slot(d, i) = (a % c) + 1
    BY DEF Slot
  <1> QED BY <1>1, <1>2, <1>3

\* What is enough for a layout.
LEMMA LayoutIs ==
    ASSUME NEW D \in Seq(Nat), NEW h \in Nat, NEW t \in Nat, NEW n \in Nat, NEW x \in Int,
           0 < Len(D), n <= Len(D), h < Len(D), t <= Len(D),
           \/ t = h + n
           \/ t = h + n - Len(D)
           \/ t = Len(D) /\ h = 0 /\ n = 0
    PROVE  Layout([data |-> D, head |-> h, tail |-> t, count |-> n, content |-> x])
  <1>1. Len(D) \in Nat \ {0}
    OBVIOUS
  <1> DEFINE a == h + n
             c == Len(D)
  <1>2. a % c = t % c
    <2>1. /\ a \in Nat /\ a < c + c /\ t <= c /\ c \in Nat \ {0}
          /\ t = a \/ t = a - c \/ (t = c /\ a = 0)
      BY <1>1
    <2> HIDE DEF a, c
    <2> QED BY <2>1, Agree
  <1> QED BY <1>1, <1>2 DEF Layout, Deques, Cap

\* Parts of a sequence of slots.
LEMMA PartOf ==
    ASSUME NEW s \in Seq(Nat), NEW m \in Nat \ {0}, NEW n \in 0 .. Len(s), m <= n + 1
    PROVE  /\ SubSeq(s, m, n) \in Seq(Nat)
           /\ Len(SubSeq(s, m, n)) = n - m + 1
           /\ \A i \in 1 .. n - m + 1 : SubSeq(s, m, n)[i] = s[m + i - 1]
  <1>1. \A i \in m .. n : s[i] \in Nat
    BY ElementOfSeq
  <1> QED BY <1>1, SubSeqProperties

\* New slots are as many as asked for (make, deque.go:73).
LEMMA BlanksAre ==
    ASSUME NEW n \in Nat
    PROVE  /\ Blanks(n) \in Seq(Nat) /\ Len(Blanks(n)) = n
           /\ \A i \in 1 .. n : Blanks(n)[i] = Blank
  BY DEF Blanks, Blank

\* The slots read from the one after h round to h.
LEMMA Rotated ==
    ASSUME NEW s \in Seq(Nat), NEW c \in Nat \ {0}, c = Len(s), NEW h \in 0 .. c - 1
    PROVE  LET r == SubSeq(s, h + 1, c) \o SubSeq(s, 1, h)
           IN  /\ r \in Seq(Nat) /\ Len(r) = c
               /\ \A i \in 1 .. c : r[i] = IF h + i <= c THEN s[h + i] ELSE s[h + i - c]
  <1> DEFINE s1 == SubSeq(s, h + 1, c)
             s2 == SubSeq(s, 1, h)
             r == s1 \o s2
  <1>1. s1 \in Seq(Nat) /\ Len(s1) = c - h /\ \A i \in 1 .. c - h : s1[i] = s[h + i]
    <2>1. h + 1 \in Nat \ {0} /\ c \in 0 .. Len(s) /\ h + 1 <= c + 1
      OBVIOUS
    <2>2. /\ s1 \in Seq(Nat) /\ Len(s1) = c - (h + 1) + 1
          /\ \A i \in 1 .. c - (h + 1) + 1 : s1[i] = s[h + 1 + i - 1]
      BY <2>1, PartOf
    <2> HIDE DEF s1
    <2>3. ASSUME NEW i \in 1 .. c - h
          PROVE  s1[i] = s[h + i]
      <3>1. i \in 1 .. c - (h + 1) + 1 /\ h + 1 + i - 1 = h + i
        OBVIOUS
      <3> QED BY <2>2, <3>1
    <2> QED BY <2>2, <2>3
  <1>2. s2 \in Seq(Nat) /\ Len(s2) = h /\ \A i \in 1 .. h : s2[i] = s[i]
    <2>1. 1 \in Nat \ {0} /\ h \in 0 .. Len(s) /\ 1 <= h + 1
      OBVIOUS
    <2>2. /\ s2 \in Seq(Nat) /\ Len(s2) = h - 1 + 1
          /\ \A i \in 1 .. h - 1 + 1 : s2[i] = s[1 + i - 1]
      BY <2>1, PartOf
    <2> HIDE DEF s2
    <2> QED BY <2>2
  <1> HIDE DEF s1, s2
  <1>3. /\ r \in Seq(Nat) /\ Len(r) = Len(s1) + Len(s2)
        /\ \A i \in 1 .. Len(s1) + Len(s2) :
              r[i] = IF i <= Len(s1) THEN s1[i] ELSE s2[i - Len(s1)]
    BY <1>1, <1>2, ConcatProperties
  <1> HIDE DEF r
  <1>4. /\ r \in Seq(Nat) /\ Len(r) = c
        /\ \A i \in 1 .. c : r[i] = IF h + i <= c THEN s[h + i] ELSE s[h + i - c]
    <2>1. ASSUME NEW i \in 1 .. c
          PROVE  r[i] = IF h + i <= c THEN s[h + i] ELSE s[h + i - c]
      <3>1. CASE h + i <= c
        <4>1. i \in 1 .. c - h /\ i \in 1 .. Len(s1) + Len(s2) /\ i <= Len(s1)
          BY <1>1, <1>2, <3>1
        <4> QED BY <1>1, <1>3, <3>1, <4>1
      <3>2. CASE ~(h + i <= c)
        <4>1. r[i] = s2[i - (c - h)] /\ i - (c - h) \in 1 .. h
          BY <1>1, <1>2, <1>3, <3>2
        <4>2. i - (c - h) = h + i - c
          OBVIOUS
        <4> QED BY <1>2, <3>2, <4>1, <4>2
      <3> QED BY <3>1, <3>2
    <2> QED BY <1>1, <1>2, <1>3, <2>1
  <1> QED BY <1>4 DEF r, s1, s2

-----------------------------------------------------------------------------
(***************************************************************************)
(* grow keeps the list and doubles the slots, whether the full buffer is   *)
(* contiguous or wraps around (deque.go:75-87).                            *)
(***************************************************************************)
THEOREM GrowKeepsContents ==
    ASSUME NEW d, Layout(d), d.count = Cap(d)
    PROVE  /\ Layout(Grow(d)) /\ Cap(Grow(d)) = 2 * Cap(d)
           /\ Contents(Grow(d)) = Contents(d)
           /\ Clear(Grow(d)) /\ Grow(d).content = d.content
           /\ Grow(d).head = 0 /\ Grow(d).tail = d.count /\ Grow(d).count = d.count
  <1> DEFINE c == Cap(d)
             h == d.head
             D == d.data
             held == IF h < d.tail
                     THEN SubSeq(D, h + 1, d.tail)
                     ELSE SubSeq(D, h + 1, c) \o SubSeq(D, 1, d.tail)
             g == Grow(d)
  <1>1. /\ c \in Nat \ {0} /\ h \in 0 .. c - 1
        /\ D \in Seq(Nat) /\ Len(D) = c
        /\ (h = 0 /\ d.tail = c) \/ d.tail = h
    BY LayoutFacts
  <1>2. /\ held \in Seq(Nat) /\ Len(held) = c
        /\ \A i \in 1 .. c : held[i] = IF h + i <= c THEN D[h + i] ELSE D[h + i - c]
    <2> HIDE DEF c, h, D
    <2>1. CASE h = 0 /\ d.tail = c
      <3>1. held = SubSeq(D, 1, Len(D)) /\ SubSeq(D, 1, Len(D)) = D
        BY <1>1, <2>1, SubSeqFull
      <3>2. ASSUME NEW i \in 1 .. c
            PROVE  h + i <= c /\ h + i = i
        BY <1>1, <2>1
      <3> HIDE DEF held
      <3> QED BY <1>1, <3>1, <3>2
    <2>2. CASE d.tail = h
      <3> DEFINE r == SubSeq(D, h + 1, c) \o SubSeq(D, 1, h)
      <3>1. held = r
        BY <1>1, <2>2
      <3>2. /\ r \in Seq(Nat) /\ Len(r) = c
            /\ \A i \in 1 .. c : r[i] = IF h + i <= c THEN D[h + i] ELSE D[h + i - c]
        BY <1>1, Rotated
      <3> QED BY <3>1, <3>2
    <2> QED BY <1>1, <2>1, <2>2
  <1>3. ASSUME NEW i \in 1 .. c
        PROVE  held[i] = D[Slot(d, i - 1)]
    <2>1. i - 1 \in 0 .. Cap(d) - 1
      BY <1>1
    <2>2. Slot(d, i - 1) = IF h + (i - 1) < c THEN h + (i - 1) + 1 ELSE h + (i - 1) + 1 - c
      BY <2>1, SlotIs
    <2> HIDE DEF c, h, D, held
    <2>3. Slot(d, i - 1) = IF h + i <= c THEN h + i ELSE h + i - c
      BY <1>1, <2>2
    <2> QED BY <1>2, <2>3
  <1> HIDE DEF held
  <1>4. g = [data |-> held \o Blanks(2 * c - Len(held)), head |-> 0, tail |-> c,
             count |-> c, content |-> d.content]
    <2>1. d \in [data : Seq(Nat), head : Nat, tail : Nat, count : Nat, content : Int]
      BY DEF Layout, Deques
    <2>2. g = [d EXCEPT !.data = held \o Blanks(2 * c - Len(held)), !.head = 0, !.tail = d.count]
      BY DEF Grow, held
    <2> HIDE DEF g, held
    <2> QED BY <2>1, <2>2
  <1>5. 2 * c - Len(held) = c
    <2> HIDE DEF c
    <2> QED BY <1>1, <1>2
  <1>6. /\ g.data \in Seq(Nat) /\ Len(g.data) = 2 * c
        /\ \A i \in 1 .. c : g.data[i] = held[i]
        /\ \A i \in c + 1 .. 2 * c : g.data[i] = Blank
    <2>1. g.data = held \o Blanks(c)
      BY <1>4, <1>5
    <2> DEFINE b == Blanks(c)
               cat == held \o b
    <2>2. b \in Seq(Nat) /\ Len(b) = c /\ \A i \in 1 .. c : b[i] = Blank
      BY <1>1, BlanksAre
    <2> HIDE DEF b, c
    <2>3. /\ cat \in Seq(Nat) /\ Len(cat) = Len(held) + Len(b)
          /\ \A i \in 1 .. Len(held) + Len(b) :
                cat[i] = IF i <= Len(held) THEN held[i] ELSE b[i - Len(held)]
      BY <1>2, <2>2, ConcatProperties
    <2> HIDE DEF cat
    <2>4. ASSUME NEW i \in 1 .. c
          PROVE  cat[i] = held[i]
      <3>1. i \in 1 .. Len(held) + Len(b) /\ i <= Len(held)
        BY <1>1, <1>2, <2>2
      <3> QED BY <2>3, <3>1
    <2>5. Len(cat) = 2 * c
      BY <1>1, <1>2, <2>2, <2>3
    <2>6. ASSUME NEW i \in c + 1 .. 2 * c
          PROVE  cat[i] = Blank
      <3>1. i \in 1 .. Len(held) + Len(b) /\ ~(i <= Len(held)) /\ i - Len(held) \in 1 .. c
        BY <1>1, <1>2, <2>2
      <3> QED BY <2>2, <2>3, <3>1
    <2> QED BY <2>1, <2>3, <2>4, <2>5, <2>6 DEF cat, b
  <1>7. Layout(g)
    <2>1. d.content \in Int
      BY LayoutFacts
    <2>2. g = [data |-> g.data, head |-> 0, tail |-> c, count |-> c, content |-> d.content]
      BY <1>4
    <2>3. 0 < 2 * c /\ c <= 2 * c /\ c = 0 + c /\ c \in Nat
      <3> HIDE DEF c
      <3> QED BY <1>1
    <2> HIDE DEF c, g
    <2> QED BY <1>6, <2>1, <2>2, <2>3, LayoutIs
  <1>8. g.head = 0 /\ g.tail = c /\ g.count = c /\ Cap(g) = 2 * c
    BY <1>4, <1>6 DEF Cap
  <1>9. ASSUME NEW i \in 1 .. c
        PROVE  Slot(g, i - 1) = i
    <2> HIDE DEF c, g
    <2>1. i - 1 \in 0 .. Cap(g) - 1 /\ 0 + (i - 1) < 2 * c /\ 0 + (i - 1) + 1 = i
      BY <1>1, <1>8
    <2> QED BY <1>7, <1>8, <2>1, SlotIs
  <1>10. Contents(g) = Contents(d)
    <2>1. ASSUME NEW i \in 1 .. c
          PROVE  g.data[Slot(g, i - 1)] = D[Slot(d, i - 1)]
      <3> HIDE DEF c, g, D
      <3> QED BY <1>3, <1>6, <1>9
    <2>2. Contents(d) = [i \in 1 .. c |-> D[Slot(d, i - 1)]]
      BY DEF Contents
    <2>3. Contents(g) = [i \in 1 .. c |-> g.data[Slot(g, i - 1)]]
      BY <1>8 DEF Contents
    <2> HIDE DEF c, g, D
    <2> QED BY <2>1, <2>2, <2>3
  <1>11. Clear(g)
    <2>1. ASSUME NEW q \in 1 .. c PROVE q \in Used(g)
      <3>1. q - 1 \in 0 .. c - 1
        <4> HIDE DEF c
        <4> QED BY <1>1
      <3> HIDE DEF c, g
      <3> QED BY <1>8, <1>9, <3>1 DEF Used
    <2>2. ASSUME NEW q \in 1 .. 2 * c, q \notin Used(g) PROVE g.data[q] = Blank
      <3>1. q \in c + 1 .. 2 * c
        <4> HIDE DEF c, g
        <4> QED BY <1>1, <2>1, <2>2
      <3> QED BY <1>6, <3>1
    <2> HIDE DEF c, g
    <2> QED BY <1>8, <2>2 DEF Clear
  <1>12. g.content = d.content
    BY <1>4
  <1> QED BY <1>7, <1>8, <1>10, <1>11, <1>12

-----------------------------------------------------------------------------
\* Two indices of the buffer are two slots.
LEMMA SlotsDiffer ==
    ASSUME NEW d, Layout(d), NEW i \in 0 .. Cap(d) - 1, NEW j \in 0 .. Cap(d) - 1, i # j
    PROVE  Slot(d, i) # Slot(d, j)
  <1> DEFINE c == Cap(d)
             h == d.head
  <1>1. /\ c \in Nat \ {0} /\ h \in 0 .. c - 1
        /\ Slot(d, i) = IF h + i < c THEN h + i + 1 ELSE h + i + 1 - c
        /\ Slot(d, j) = IF h + j < c THEN h + j + 1 ELSE h + j + 1 - c
    BY LayoutFacts, SlotIs
  <1>2. i \in 0 .. c - 1 /\ j \in 0 .. c - 1
    OBVIOUS
  <1> HIDE DEF c, h
  <1> QED BY <1>1, <1>2

\* The tail is the slot after the last element.
LEMMA SlotOfTail ==
    ASSUME NEW d, Layout(d), d.count < Cap(d), d.tail < Cap(d)
    PROVE  /\ Slot(d, d.count) = d.tail + 1
           /\ LET t == (d.tail + 1) % Cap(d)
              IN  /\ t \in 0 .. Cap(d) - 1
                  /\ t = d.head + (d.count + 1) \/ t = d.head + (d.count + 1) - Cap(d)
  <1> DEFINE c == Cap(d)
             h == d.head
             n == d.count
             t == d.tail
             a == t + 1
  <1>1. /\ c \in Nat \ {0} /\ h \in 0 .. c - 1 /\ n \in 0 .. c - 1 /\ t \in 0 .. c - 1
        /\ t = h + n \/ t = h + n - c
    <2>1. c \in Nat \ {0} /\ h \in 0 .. c - 1 /\ n \in 0 .. c /\ t \in 0 .. c
      BY LayoutFacts
    <2>2. n < c /\ t < c
      OBVIOUS
    <2>3. t = h + n \/ t = h + n - c \/ t = c
      BY LayoutFacts
    <2> HIDE DEF c, h, n, t
    <2> QED BY <2>1, <2>2, <2>3
  <1>2. Slot(d, n) = IF h + n < c THEN h + n + 1 ELSE h + n + 1 - c
    BY <1>1, SlotIs
  <1>3. a % c = IF a < c THEN a ELSE a - c
    <2>1. a \in Nat /\ a < c + c
      BY <1>1
    <2> HIDE DEF a, c
    <2> QED BY <1>1, <2>1, ModOnce
  <1>4. /\ Slot(d, n) = t + 1
        /\ a % c \in 0 .. c - 1
        /\ a % c = h + (n + 1) \/ a % c = h + (n + 1) - c
    <2> DEFINE m == a % c
    <2>1. m = IF a < c THEN a ELSE a - c
      BY <1>3
    <2> HIDE DEF c, h, n, t, m
    <2> QED BY <1>1, <1>2, <2>1
  <1> QED BY <1>4

\* PushBack and PushFront once there is room.
PushedBack(d, e) ==
    [d EXCEPT !.data[d.tail + 1] = e, !.tail = (@ + 1) % Cap(d),
              !.count = @ + 1, !.content = @ + e]

PushedFront(d, e) ==
    LET b == (d.head - 1 + Cap(d)) % Cap(d)
    IN  [d EXCEPT !.data[b + 1] = e, !.head = b, !.count = @ + 1, !.content = @ + e]

(***************************************************************************)
(* PushBack appends when there is room and the tail is a slot              *)
(* (deque.go:110-121): nothing already in the list is overwritten.         *)
(***************************************************************************)
LEMMA PushBackWithRoom ==
    ASSUME NEW d, Layout(d), d.count < Cap(d), d.tail < Cap(d), NEW e \in Nat
    PROVE  /\ Layout(PushedBack(d, e)) /\ PushedBack(d, e).tail < Cap(PushedBack(d, e))
           /\ Clear(d) => Clear(PushedBack(d, e))
           /\ PushedBack(d, e).content = d.content + e
           /\ Contents(PushedBack(d, e)) = Append(Contents(d), e)
  <1> DEFINE c == Cap(d)
             n == d.count
             t == (d.tail + 1) % c
             h == d.head
             m == n + 1
             D == d.data
             E == [D EXCEPT ![d.tail + 1] = e]
             x == d.content + e
             p == PushedBack(d, e)
  <1>1. /\ c \in Nat \ {0} /\ n \in 0 .. c - 1 /\ d.tail \in 0 .. c - 1 /\ d.head \in 0 .. c - 1
        /\ D \in Seq(Nat) /\ Len(D) = c /\ x \in Int
    <2>1. /\ c \in Nat \ {0} /\ n \in 0 .. c /\ d.tail \in 0 .. c /\ d.head \in 0 .. c - 1
          /\ D \in Seq(Nat) /\ Len(D) = c /\ d.content \in Int
      BY LayoutFacts
    <2>2. n < c /\ d.tail < c
      OBVIOUS
    <2> HIDE DEF c, n, D
    <2> QED BY <2>1, <2>2
  <1>2. /\ Slot(d, n) = d.tail + 1 /\ t \in 0 .. c - 1
        /\ t = d.head + (n + 1) \/ t = d.head + (n + 1) - c
    BY SlotOfTail
  <1>3. p = [data |-> E, head |-> h, tail |-> t, count |-> m, content |-> x]
    <2>1. d \in [data : Seq(Nat), head : Nat, tail : Nat, count : Nat, content : Int]
      BY DEF Layout, Deques
    <2>2. p = [d EXCEPT !.data = E, !.tail = t, !.count = m, !.content = x]
      BY DEF PushedBack
    <2> HIDE DEF p, E, t, m, x
    <2> QED BY <2>1, <2>2
  <1>4. /\ E \in Seq(Nat) /\ Len(E) = c
        /\ \A j \in 1 .. c : E[j] = IF j = d.tail + 1 THEN e ELSE D[j]
    <2>1. d.tail + 1 \in 1 .. Len(D)
      BY <1>1
    <2> HIDE DEF D, c
    <2> QED BY <1>1, <2>1, ExceptSeq
  <1> HIDE DEF E, x
  <1>5. Layout(p)
    <2>1. /\ 0 < Len(E) /\ m <= Len(E) /\ h < Len(E) /\ t <= Len(E)
          /\ m \in Nat /\ h \in Nat /\ t \in Nat
          /\ t = h + m \/ t = h + m - Len(E)
      <3> HIDE DEF c, n, t, h
      <3> QED BY <1>1, <1>2, <1>4 DEF h
    <2> HIDE DEF c, m, t, p, h
    <2> QED BY <1>1, <1>3, <1>4, <2>1, LayoutIs
  <1>6. p.data = E /\ p.head = d.head /\ p.tail = t /\ p.count = n + 1 /\ Cap(p) = c
    BY <1>3, <1>4 DEF Cap
  <1>7. ASSUME NEW i \in 1 .. n + 1
        PROVE  p.data[Slot(p, i - 1)] = IF i = n + 1 THEN e ELSE D[Slot(d, i - 1)]
    <2>1. Slot(p, i - 1) = Slot(d, i - 1)
      BY <1>6 DEF Slot
    <2>2. i - 1 \in 0 .. Cap(d) - 1 /\ n \in 0 .. Cap(d) - 1
      <3>1. i - 1 \in 0 .. c - 1 /\ n \in 0 .. c - 1
        <4> HIDE DEF c, n
        <4> QED BY <1>1
      <3> QED BY <3>1
    <2>3. Slot(d, i - 1) \in 1 .. c
      BY <2>2, SlotIs
    <2>4. CASE i = n + 1
      <3>1. i - 1 = n
        BY <1>1, <2>4
      <3> HIDE DEF c, n, t, p
      <3> QED BY <1>2, <1>4, <1>6, <2>1, <2>3, <2>4, <3>1
    <2>5. CASE i # n + 1
      <3>1. i - 1 # n
        <4> HIDE DEF n
        <4> QED BY <1>1, <2>5
      <3>2. Slot(d, i - 1) # Slot(d, n)
        BY <2>2, <3>1, SlotsDiffer
      <3> HIDE DEF c, n, t, p
      <3> QED BY <1>2, <1>4, <1>6, <2>1, <2>3, <2>5, <3>2
    <2> QED BY <2>4, <2>5
  <1>8. Contents(p) = Append(Contents(d), e)
    <2>1. Contents(d) = [i \in 1 .. n |-> D[Slot(d, i - 1)]]
      BY DEF Contents
    <2>2. Contents(p) = [i \in 1 .. n + 1 |-> p.data[Slot(p, i - 1)]]
      BY <1>6 DEF Contents
    <2> HIDE DEF c, n, t, p, D
    <2>3. Contents(p) = [i \in 1 .. n + 1 |-> IF i = n + 1 THEN e ELSE Contents(d)[i]]
      <3>1. ASSUME NEW i \in 1 .. n + 1, i # n + 1
            PROVE  i \in 1 .. n
        BY <1>1, <3>1
      <3> QED BY <1>7, <2>1, <2>2, <3>1
    <2>4. Len(Contents(d)) = n
      BY <1>1, <2>1
    <2> QED BY <1>1, <2>1, <2>3, <2>4
  <1>9. p.tail < Cap(p)
    <2> HIDE DEF c, t, p
    <2> QED BY <1>1, <1>2, <1>6
  <1>10. Clear(d) => Clear(p)
    <2>1. \A i \in 0 .. n : Slot(p, i) = Slot(d, i)
      BY <1>6 DEF Slot
    <2> HIDE DEF c, n, t, p
    <2>2. ASSUME NEW q \in 1 .. c, q \notin Used(p)
          PROVE  q \notin Used(d) /\ q # d.tail + 1
      <3>1. n \in 0 .. n /\ \A i \in 0 .. n - 1 : i \in 0 .. n
        BY <1>1
      <3>2. Used(d) \subseteq Used(p)
        BY <1>1, <1>6, <2>1, <3>1 DEF Used, n
      <3>3. d.tail + 1 \in Used(p)
        BY <1>1, <1>2, <1>6, <2>1, <3>1 DEF Used
      <3> QED BY <2>2, <3>2, <3>3
    <2>3. ASSUME Clear(d), NEW q \in 1 .. c, q \notin Used(p) PROVE p.data[q] = Blank
      <3>1. D[q] = Blank
        BY <2>2, <2>3 DEF Clear, c
      <3> HIDE DEF D
      <3> QED BY <1>4, <1>6, <2>2, <2>3, <3>1
    <2> QED BY <1>6, <2>3 DEF Clear
  <1>11. p.content = d.content + e
    BY <1>3 DEF x
  <1> QED BY <1>5, <1>6, <1>8, <1>9, <1>10, <1>11

(***************************************************************************)
(* PushBack appends to the list whether or not it had to grow, unless it   *)
(* panics (deque.go:110-121).                                              *)
(***************************************************************************)
THEOREM PushBackAppends ==
    ASSUME NEW d, Layout(d), ~PushBackPanics(d), NEW e \in Nat
    PROVE  /\ Layout(PushBack(d, e)) /\ PushBack(d, e).tail < Cap(PushBack(d, e))
           /\ Contents(PushBack(d, e)) = Append(Contents(d), e)
  <1> DEFINE r == Room(d)
  <1>1. PushBack(d, e) = PushedBack(r, e)
    BY DEF PushBack, PushedBack
  <1>2. Layout(r) /\ r.count < Cap(r) /\ r.tail < Cap(r) /\ Contents(r) = Contents(d)
    <2>1. /\ Cap(d) \in Nat \ {0} /\ d.count \in 0 .. Cap(d) /\ d.tail \in 0 .. Cap(d)
          /\ d.count # Cap(d) => d.tail # Cap(d)
      BY LayoutFacts DEF PushBackPanics
    <2>2. CASE d.count = Cap(d)
      <3>1. r = Grow(d)
        BY <2>2 DEF Room
      <3>2. /\ Layout(r) /\ Cap(r) = 2 * Cap(d) /\ Contents(r) = Contents(d)
            /\ r.tail = Cap(d) /\ r.count = Cap(d)
        BY <2>2, <3>1, GrowKeepsContents
      <3> HIDE DEF r
      <3> QED BY <2>1, <3>2
    <2>3. CASE d.count # Cap(d)
      <3>1. r = d
        BY <2>3 DEF Room
      <3> HIDE DEF r
      <3> QED BY <2>1, <2>3, <3>1
    <2> QED BY <2>2, <2>3
  <1> HIDE DEF r
  <1>3. /\ Layout(PushedBack(r, e)) /\ PushedBack(r, e).tail < Cap(PushedBack(r, e))
        /\ Contents(PushedBack(r, e)) = Append(Contents(r), e)
    BY <1>2, PushBackWithRoom
  <1> QED BY <1>1, <1>2, <1>3

-----------------------------------------------------------------------------
(***************************************************************************)
(* PushFront puts the element before the first (deque.go:95-106), from the *)
(* slot before the head, which is the last slot when the head is 0.        *)
(***************************************************************************)
LEMMA PushFrontWithRoom ==
    ASSUME NEW d, Layout(d), d.count < Cap(d), NEW e \in Nat
    PROVE  /\ Layout(PushedFront(d, e))
           /\ Clear(d) => Clear(PushedFront(d, e))
           /\ PushedFront(d, e).content = d.content + e
           /\ PushedFront(d, e).tail = d.tail /\ Cap(PushedFront(d, e)) = Cap(d)
           /\ Contents(PushedFront(d, e)) = <<e>> \o Contents(d)
  <1> DEFINE c == Cap(d)
             n == d.count
             t == d.tail
             h == d.head
             m == n + 1
             b == (h - 1 + c) % c
             D == d.data
             E == [D EXCEPT ![b + 1] = e]
             x == d.content + e
             p == PushedFront(d, e)
  <1>1. /\ c \in Nat \ {0} /\ n \in 0 .. c - 1 /\ t \in 0 .. c /\ h \in 0 .. c - 1
        /\ D \in Seq(Nat) /\ Len(D) = c /\ x \in Int
        /\ t = h + n \/ t = h + n - c \/ (t = c /\ h = 0 /\ n = 0)
    <2>1. /\ c \in Nat \ {0} /\ n \in 0 .. c /\ t \in 0 .. c /\ h \in 0 .. c - 1
          /\ D \in Seq(Nat) /\ Len(D) = c /\ d.content \in Int
          /\ t = h + n \/ t = h + n - c \/ (t = c /\ h = 0 /\ n = 0)
      BY LayoutFacts
    <2>2. n < c
      OBVIOUS
    <2> HIDE DEF c, n, D, t, h
    <2> QED BY <2>1, <2>2
  <1>2. b = IF h = 0 THEN c - 1 ELSE h - 1
    <2> DEFINE a == h - 1 + c
    <2>1. a \in Nat /\ a < c + c /\ (IF a < c THEN a ELSE a - c) = IF h = 0 THEN c - 1 ELSE h - 1
      <3> HIDE DEF c, h
      <3> QED BY <1>1
    <2>2. b = a % c
      OBVIOUS
    <2> HIDE DEF a, b, c, h
    <2> QED BY <1>1, <2>1, <2>2, ModOnce
  <1>3. p = [data |-> E, head |-> b, tail |-> t, count |-> m, content |-> x]
    <2>1. d \in [data : Seq(Nat), head : Nat, tail : Nat, count : Nat, content : Int]
      BY DEF Layout, Deques
    <2>2. p = [d EXCEPT !.data = E, !.head = b, !.count = m, !.content = x]
      BY DEF PushedFront
    <2> HIDE DEF p, E, m, x, b
    <2> QED BY <2>1, <2>2
  <1>4. b \in 0 .. c - 1
    <2> HIDE DEF b, c, h
    <2> QED BY <1>1, <1>2
  <1>5. /\ E \in Seq(Nat) /\ Len(E) = c
        /\ \A j \in 1 .. c : E[j] = IF j = b + 1 THEN e ELSE D[j]
    <2>1. b + 1 \in 1 .. Len(D)
      <3> HIDE DEF b, c, D
      <3> QED BY <1>1, <1>4
    <2> HIDE DEF D, c, b
    <2> QED BY <1>1, <2>1, ExceptSeq
  <1> HIDE DEF E, x, b
  <1>6. Layout(p)
    <2>1. /\ 0 < Len(E) /\ m <= Len(E) /\ b < Len(E) /\ t <= Len(E)
          /\ m \in Nat /\ b \in Nat /\ t \in Nat
          /\ t = b + m \/ t = b + m - Len(E)
      <3> HIDE DEF c, n, t, h
      <3>1. Len(E) = c /\ m \in 1 .. c /\ b \in 0 .. c - 1
        BY <1>1, <1>4, <1>5
      <3>2. t = b + m \/ t = b + m - c
        BY <1>1, <1>2
      <3> HIDE DEF m
      <3> QED BY <1>1, <3>1, <3>2
    <2> HIDE DEF c, m, t, p, h
    <2> QED BY <1>1, <1>3, <1>5, <2>1, LayoutIs
  <1>7. p.data = E /\ p.head = b /\ p.count = m /\ Cap(p) = c
    BY <1>3, <1>5 DEF Cap
  <1>8. Slot(p, 0) = b + 1
    <2>1. 0 \in 0 .. Cap(p) - 1
      <3> HIDE DEF c, p
      <3> QED BY <1>1, <1>7
    <2>2. Slot(p, 0) = IF p.head + 0 < Cap(p) THEN p.head + 0 + 1 ELSE p.head + 0 + 1 - Cap(p)
      BY <1>6, <2>1, SlotIs
    <2> HIDE DEF c, p
    <2> QED BY <1>1, <1>4, <1>7, <2>2
  <1>9. ASSUME NEW i \in 1 .. n
        PROVE  Slot(p, i) = Slot(d, i - 1) /\ Slot(p, i) # b + 1 /\ Slot(p, i) \in 1 .. c
    <2>1. i \in 0 .. c - 1 /\ 0 \in 0 .. c - 1 /\ i - 1 \in 0 .. c - 1 /\ i # 0
      <3> HIDE DEF c, n
      <3> QED BY <1>1
    <2>2. Slot(d, i - 1) = IF h + (i - 1) < c THEN h + (i - 1) + 1 ELSE h + (i - 1) + 1 - c
      BY <2>1, SlotIs
    <2>3. /\ Slot(p, i) = IF b + i < c THEN b + i + 1 ELSE b + i + 1 - c
          /\ Slot(p, i) # Slot(p, 0) /\ Slot(p, i) \in 1 .. c
      <3> HIDE DEF p, c
      <3> QED BY <1>6, <1>7, <2>1, SlotIs, SlotsDiffer
    <2> HIDE DEF p, c, h, n
    <2> QED BY <1>1, <1>2, <1>8, <2>1, <2>2, <2>3
  <1>10. Contents(p) = <<e>> \o Contents(d)
    <2>1. Contents(d) = [i \in 1 .. n |-> D[Slot(d, i - 1)]]
      BY DEF Contents
    <2>2. Contents(p) = [i \in 1 .. m |-> p.data[Slot(p, i - 1)]]
      BY <1>7 DEF Contents
    <2>3. ASSUME NEW i \in 1 .. m
          PROVE  p.data[Slot(p, i - 1)] = IF i = 1 THEN e ELSE D[Slot(d, i - 2)]
      <3>1. CASE i = 1
        <4>1. Slot(p, i - 1) = b + 1
          BY <1>8, <3>1
        <4>2. b + 1 \in 1 .. c
          <5> HIDE DEF c
          <5> QED BY <1>1, <1>4
        <4> HIDE DEF p, c
        <4> QED BY <1>5, <1>7, <3>1, <4>1, <4>2
      <3>2. CASE i # 1
        <4> DEFINE j == i - 1
        <4>1. j \in 1 .. n /\ j - 1 = i - 2
          <5> HIDE DEF n
          <5> QED BY <1>1, <3>2
        <4>2. Slot(p, j) = Slot(d, j - 1) /\ Slot(p, j) # b + 1 /\ Slot(p, j) \in 1 .. c
          BY <1>9, <4>1
        <4> HIDE DEF p, c, n
        <4> QED BY <1>5, <1>7, <3>2, <4>1, <4>2
      <3> QED BY <3>1, <3>2
    <2> DEFINE s == Contents(d)
    <2>4. Len(s) = n /\ s \in Seq(Nat)
      <3>1. ASSUME NEW i \in 1 .. n PROVE s[i] \in Nat
        <4>1. i - 1 \in 0 .. c - 1
          <5> HIDE DEF c, n
          <5> QED BY <1>1
        <4>2. Slot(d, i - 1) \in 1 .. Len(D)
          BY <1>1, <4>1, SlotIs
        <4> HIDE DEF D, n
        <4> QED BY <1>1, <2>1, <4>2, ElementOfSeq
      <3> HIDE DEF n, D
      <3> QED BY <1>1, <2>1, <3>1
    <2>5. /\ <<e>> \o s \in Seq(Nat) /\ Len(<<e>> \o s) = m
          /\ \A i \in 1 .. m : (<<e>> \o s)[i] = IF i = 1 THEN e ELSE s[i - 1]
      <3>1. <<e>> \in Seq(Nat) /\ Len(<<e>>) = 1 /\ <<e>>[1] = e
        OBVIOUS
      <3> DEFINE q == <<e>>
                 r == q \o s
      <3> HIDE DEF s, q, n
      <3>2. /\ r \in Seq(Nat) /\ Len(r) = 1 + n
            /\ \A i \in 1 .. 1 + n : r[i] = IF i <= 1 THEN q[i] ELSE s[i - 1]
        BY <2>4, <3>1, ConcatProperties DEF q
      <3> HIDE DEF r
      <3>3. r \in Seq(Nat) /\ Len(r) = m /\ \A i \in 1 .. m : r[i] = IF i = 1 THEN e ELSE s[i - 1]
        <4>1. ASSUME NEW i \in 1 .. m
              PROVE  r[i] = IF i = 1 THEN e ELSE s[i - 1]
          <5>1. i \in 1 .. 1 + n /\ (i <= 1 <=> i = 1)
            BY <1>1
          <5> QED BY <3>1, <3>2, <5>1 DEF q
        <4>2. 1 + n = m
          BY <1>1
        <4> HIDE DEF m
        <4> QED BY <3>2, <4>1, <4>2
      <3> QED BY <3>3 DEF r, q
    <2>6. Contents(p) \in Seq(Nat) /\ Len(Contents(p)) = m
          /\ \A i \in 1 .. m : Contents(p)[i] = (<<e>> \o s)[i]
      <3>1. ASSUME NEW i \in 1 .. m
            PROVE  Contents(p)[i] = (<<e>> \o s)[i] /\ Contents(p)[i] \in Nat
        <4>1. CASE i = 1
          <5> HIDE DEF m, s, p
          <5> QED BY <2>2, <2>3, <2>5, <4>1
        <4>2. CASE i # 1
          <5>1. i - 1 \in 1 .. n /\ i - 1 - 1 = i - 2
            <6> HIDE DEF n
            <6> QED BY <1>1, <4>2
          <5> HIDE DEF m, p, D, n
          <5>2. s[i - 1] = D[Slot(d, i - 2)]
            BY <2>1, <5>1
          <5>3. s[i - 1] \in Nat
            <6> HIDE DEF s
            <6> QED BY <2>4, <5>1, ElementOfSeq
          <5> HIDE DEF s
          <5> QED BY <2>2, <2>3, <2>5, <4>2, <5>2, <5>3
        <4> QED BY <4>1, <4>2
      <3>2. m \in Nat
        <4> HIDE DEF n
        <4> QED BY <1>1
      <3> DEFINE u == Contents(p)
      <3> HIDE DEF m, p, s
      <3>3. u \in [1 .. m -> Nat]
        BY <2>2, <3>1
      <3> HIDE DEF u
      <3>4. u \in Seq(Nat)
        BY <3>2, <3>3, SeqDef
      <3>5. Len(u) = m
        BY <3>2, <3>3, <3>4, LenProperties
      <3> QED BY <3>1, <3>4, <3>5 DEF u
    <2> HIDE DEF p, s, m
    <2> QED BY <2>5, <2>6, SeqEqual DEF s
  <1>11. Clear(d) => Clear(p)
    <2> HIDE DEF c, n, m, p
    <2>1. ASSUME NEW q \in 1 .. c, q \notin Used(p)
          PROVE  q \notin Used(d) /\ q # b + 1
      <3>1. 0 \in 0 .. m - 1 /\ \A i \in 0 .. n - 1 : /\ i + 1 \in 1 .. n
                                                       /\ i + 1 \in 0 .. m - 1
                                                       /\ (i + 1) - 1 = i
        BY <1>1 DEF m
      <3>2. ASSUME NEW i \in 0 .. n - 1 PROVE Slot(d, i) \in Used(p)
        BY <1>7, <1>9, <3>1 DEF Used
      <3>3. Used(d) \subseteq Used(p)
        BY <3>2 DEF Used, n
      <3>4. b + 1 \in Used(p)
        BY <1>7, <1>8, <3>1 DEF Used
      <3> QED BY <2>1, <3>3, <3>4
    <2>2. ASSUME Clear(d), NEW q \in 1 .. c, q \notin Used(p) PROVE p.data[q] = Blank
      <3>1. D[q] = Blank
        BY <2>1, <2>2 DEF Clear, c
      <3> HIDE DEF D
      <3> QED BY <1>5, <1>7, <2>1, <2>2, <3>1
    <2> QED BY <1>7, <2>2 DEF Clear
  <1>12. p.content = d.content + e /\ p.tail = d.tail
    BY <1>3 DEF x
  <1> QED BY <1>6, <1>7, <1>10, <1>11, <1>12

(***************************************************************************)
(* PushFront puts the element before the list whether or not it had to     *)
(* grow (deque.go:95-106); it never panics.                                *)
(***************************************************************************)
THEOREM PushFrontPrepends ==
    ASSUME NEW d, Layout(d), NEW e \in Nat
    PROVE  /\ Layout(PushFront(e, d))
           /\ Contents(PushFront(e, d)) = <<e>> \o Contents(d)
  <1> DEFINE r == Room(d)
  <1>1. PushFront(e, d) = PushedFront(r, e)
    BY DEF PushFront, PushedFront
  <1>2. Layout(r) /\ r.count < Cap(r) /\ Contents(r) = Contents(d)
    <2>1. Cap(d) \in Nat \ {0} /\ d.count \in 0 .. Cap(d)
      BY LayoutFacts
    <2>2. CASE d.count = Cap(d)
      <3>1. r = Grow(d)
        BY <2>2 DEF Room
      <3>2. /\ Layout(r) /\ Cap(r) = 2 * Cap(d) /\ Contents(r) = Contents(d)
            /\ r.count = Cap(d)
        BY <2>2, <3>1, GrowKeepsContents
      <3> HIDE DEF r
      <3> QED BY <2>1, <3>2
    <2>3. CASE d.count # Cap(d)
      <3>1. r = d
        BY <2>3 DEF Room
      <3> HIDE DEF r
      <3> QED BY <2>1, <2>3, <3>1
    <2> QED BY <2>2, <2>3
  <1> HIDE DEF r
  <1>3. /\ Layout(PushedFront(r, e))
        /\ Contents(PushedFront(r, e)) = <<e>> \o Contents(r)
    BY <1>2, PushFrontWithRoom
  <1> QED BY <1>1, <1>2, <1>3

-----------------------------------------------------------------------------
(***************************************************************************)
(* What Remove and Trim rebuild holds what they keep (deque.go:345-354),   *)
(* and its tail is a slot unless every slot is taken: only then does the   *)
(* next push to the back panic, once an element has gone.                  *)
(***************************************************************************)
THEOREM RebuiltHolds ==
    ASSUME NEW d, Layout(d), NEW kept \in Seq(Nat), Len(kept) <= Cap(d),
           SizeOf(kept) \in Nat
    PROVE  /\ Layout(Rebuilt(d, kept)) /\ Cap(Rebuilt(d, kept)) = Cap(d)
           /\ Contents(Rebuilt(d, kept)) = kept /\ Clear(Rebuilt(d, kept))
           /\ Rebuilt(d, kept).content = SizeOf(kept)
           /\ Rebuilt(d, kept).tail = Len(kept)
  <1> DEFINE c == Cap(d)
             n == Len(kept)
             b == Blanks(c - n)
             D == kept \o b
             x == SizeOf(kept)
             p == Rebuilt(d, kept)
  <1>1. c \in Nat \ {0} /\ n \in 0 .. c /\ c - n \in Nat
    <2>1. c \in Nat \ {0} /\ n \in Nat /\ n <= c
      BY LayoutFacts
    <2> HIDE DEF c, n
    <2> QED BY <2>1
  <1>2. b \in Seq(Nat) /\ Len(b) = c - n /\ \A i \in 1 .. c - n : b[i] = Blank
    BY <1>1, BlanksAre
  <1>3. /\ D \in Seq(Nat) /\ Len(D) = c
        /\ \A i \in 1 .. n : D[i] = kept[i]
        /\ \A i \in n + 1 .. c : D[i] = Blank
    <2>1. /\ D \in Seq(Nat) /\ Len(D) = n + Len(b)
          /\ \A i \in 1 .. n + Len(b) : D[i] = IF i <= n THEN kept[i] ELSE b[i - n]
      <3> HIDE DEF b
      <3> QED BY <1>2, ConcatProperties
    <2>2. n + Len(b) = c /\ \A i \in 1 .. n : i \in 1 .. n + Len(b) /\ i <= n
      <3> HIDE DEF b, c, n
      <3> QED BY <1>1, <1>2
    <2>3. \A i \in n + 1 .. c : /\ i \in 1 .. n + Len(b) /\ ~(i <= n)
                                /\ i - n \in 1 .. c - n
      <3> HIDE DEF b, c, n
      <3> QED BY <1>1, <1>2
    <2> HIDE DEF D, c, n, b
    <2> QED BY <1>2, <2>1, <2>2, <2>3
  <1>4. p = [data |-> D, head |-> 0, tail |-> n, count |-> n, content |-> x]
    <2>1. d \in [data : Seq(Nat), head : Nat, tail : Nat, count : Nat, content : Int]
      BY DEF Layout, Deques
    <2>2. p = [d EXCEPT !.data = D, !.head = 0, !.tail = n, !.count = n, !.content = x]
      BY DEF Rebuilt
    <2> HIDE DEF p, D, n, x
    <2> QED BY <2>1, <2>2
  <1> HIDE DEF D, x
  <1>5. Layout(p)
    <2>1. /\ 0 < Len(D) /\ n <= Len(D) /\ n \in Nat /\ 0 \in Nat /\ n = 0 + n
      <3> HIDE DEF c, n
      <3> QED BY <1>1, <1>3
    <2>2. x \in Int
      BY DEF x
    <2> HIDE DEF c, n, p
    <2> QED BY <1>3, <1>4, <2>1, <2>2, LayoutIs
  <1>6. p.data = D /\ p.head = 0 /\ p.count = n /\ p.tail = n /\ Cap(p) = c
    BY <1>3, <1>4 DEF Cap
  <1>7. Contents(p) = kept
    <2>1. ASSUME NEW i \in 1 .. n
          PROVE  p.data[Slot(p, i - 1)] = kept[i]
      <3>1. i - 1 \in 0 .. Cap(p) - 1 /\ 0 + (i - 1) < c /\ 0 + (i - 1) + 1 = i
        <4> HIDE DEF c, n, p
        <4> QED BY <1>1, <1>6
      <3>2. Slot(p, i - 1) = i
        <4> HIDE DEF c, n, p
        <4> QED BY <1>5, <1>6, <3>1, SlotIs
      <3> HIDE DEF n, p
      <3> QED BY <1>3, <1>6, <3>2
    <2>2. Contents(p) = [i \in 1 .. n |-> p.data[Slot(p, i - 1)]]
      BY <1>6 DEF Contents
    <2>3. kept = [i \in 1 .. n |-> kept[i]]
      BY LenProperties
    <2> HIDE DEF n, p
    <2> QED BY <2>1, <2>2, <2>3
  <1>8. Clear(p)
    <2> HIDE DEF c, n, p
    <2>1. ASSUME NEW q \in 1 .. n PROVE q \in Used(p)
      <3>1. q - 1 \in 0 .. n - 1 /\ q - 1 \in 0 .. Cap(p) - 1 /\ 0 + (q - 1) < c
            /\ 0 + (q - 1) + 1 = q
        BY <1>1, <1>6
      <3>2. Slot(p, q - 1) = q
        BY <1>5, <1>6, <3>1, SlotIs
      <3> QED BY <1>6, <3>1, <3>2 DEF Used
    <2>2. ASSUME NEW q \in 1 .. c, q \notin Used(p) PROVE q \in n + 1 .. c
      BY <1>1, <2>1, <2>2
    <2> QED BY <1>3, <1>6, <2>2 DEF Clear
  <1>9. p.content = SizeOf(kept)
    BY <1>4 DEF x
  <1> QED BY <1>5, <1>6, <1>7, <1>8, <1>9


-----------------------------------------------------------------------------
\* A list has finitely many bytes.
LEMMA BytesAreFinite ==
    ASSUME NEW s \in Seq(Nat)
    PROVE  IsFiniteSet(Bytes(s)) /\ SizeOf(s) \in Nat
  <1>1. PICK n \in Nat : n = Len(s) /\ DOMAIN s = 1 .. n
    BY LenProperties
  <1>2. PICK f : f = [i \in 1 .. n |-> {i} \X (1 .. s[i])]
    OBVIOUS
  <1>3. PICK T : T = {{i} \X (1 .. s[i]) : i \in DOMAIN s}
    OBVIOUS
  <1>4. f \in Surjection(1 .. n, T)
    BY <1>1, <1>2, <1>3 DEF Surjection
  <1>5. IsFiniteSet(1 .. n)
    BY FS_Interval
  <1>6. IsFiniteSet(T)
    BY <1>4, <1>5, FS_Surjection
  <1>7. ASSUME NEW i \in 1 .. n PROVE IsFiniteSet({i} \X (1 .. s[i]))
    <2>1. PICK k \in Nat : k = s[i]
      BY <1>1, ElementOfSeq
    <2>2. IsFiniteSet({i})
      BY FS_Singleton
    <2>3. IsFiniteSet(1 .. k)
      BY FS_Interval
    <2> QED BY <2>1, <2>2, <2>3, FS_Product
  <1>8. \A t \in T : IsFiniteSet(t)
    BY <1>1, <1>3, <1>7
  <1>9. IsFiniteSet(UNION T)
    BY <1>6, <1>8, FS_UNION
  <1>10. Bytes(s) = UNION T
    BY <1>3 DEF Bytes
  <1> QED BY <1>9, <1>10, FS_CardinalityType DEF SizeOf

\* What a byte is.
LEMMA ByteIs ==
    ASSUME NEW s \in Seq(Nat), NEW b
    PROVE  b \in Bytes(s) <=> \E i \in 1 .. Len(s), x \in Nat : /\ b = <<i, x>>
                                                               /\ x \in 1 .. s[i]
  <1>1. DOMAIN s = 1 .. Len(s) /\ \A i \in 1 .. Len(s) : s[i] \in Nat
    BY LenProperties, ElementOfSeq
  <1> QED BY <1>1 DEF Bytes

\* The size of two lists put together.
LEMMA SizeOfConcat ==
    ASSUME NEW s \in Seq(Nat), NEW t \in Seq(Nat)
    PROVE  SizeOf(s \o t) = SizeOf(s) + SizeOf(t)
  <1>1. PICK m, n \in Nat : m = Len(s) /\ n = Len(t)
    BY LenProperties
  <1>2. PICK u : u = s \o t
    OBVIOUS
  <1>3. /\ u \in Seq(Nat) /\ Len(u) = m + n
        /\ \A i \in 1 .. m + n : u[i] = IF i <= m THEN s[i] ELSE t[i - m]
    BY <1>1, <1>2, ConcatProperties
  <1>4. PICK S, T, U, V : /\ S = Bytes(s) /\ T = Bytes(t) /\ U = Bytes(u)
                          /\ V = {<<b[1] + m, b[2]>> : b \in T}
    OBVIOUS
  <1>5. \A b : b \in S <=> \E i \in 1 .. m, x \in Nat : b = <<i, x>> /\ x \in 1 .. s[i]
    BY <1>1, <1>4, ByteIs
  <1>6. \A b : b \in T <=> \E i \in 1 .. n, x \in Nat : b = <<i, x>> /\ x \in 1 .. t[i]
    BY <1>1, <1>4, ByteIs
  <1>7. \A b : b \in U <=> \E i \in 1 .. m + n, x \in Nat : b = <<i, x>> /\ x \in 1 .. u[i]
    BY <1>3, <1>4, ByteIs
  <1>8. \A b : b \in V <=> \E i \in 1 .. n, x \in Nat : b = <<i + m, x>> /\ x \in 1 .. t[i]
    <2>1. ASSUME NEW b \in V
          PROVE  \E i \in 1 .. n, x \in Nat : b = <<i + m, x>> /\ x \in 1 .. t[i]
      <3>1. PICK a \in T : b = <<a[1] + m, a[2]>>
        BY <1>4
      <3>2. PICK i \in 1 .. n, x \in Nat : a = <<i, x>> /\ x \in 1 .. t[i]
        BY <1>6, <3>1
      <3> QED BY <3>1, <3>2
    <2>2. ASSUME NEW i \in 1 .. n, NEW x \in Nat, x \in 1 .. t[i]
          PROVE  <<i + m, x>> \in V
      <3>1. PICK a : a = <<i, x>>
        OBVIOUS
      <3>2. a \in T /\ a[1] = i /\ a[2] = x
        BY <1>6, <2>2, <3>1
      <3> QED BY <1>4, <3>2
    <2> QED BY <2>1, <2>2
  <1>9. IsFiniteSet(S) /\ IsFiniteSet(T) /\ Cardinality(S) \in Nat /\ Cardinality(T) \in Nat
    BY <1>4, BytesAreFinite DEF SizeOf
  <1>10. IsFiniteSet(V) /\ Cardinality(V) = Cardinality(T)
    <2>1. PICK f : f = [b \in T |-> <<b[1] + m, b[2]>>]
      OBVIOUS
    <2>2. f \in [T -> V] /\ \A v \in V : \E b \in T : f[b] = v
      BY <1>4, <2>1
    <2>3. ASSUME NEW a \in T, NEW b \in T, f[a] = f[b] PROVE a = b
      <3>1. PICK i \in 1 .. n, x \in Nat : a = <<i, x>>
        BY <1>6
      <3>2. PICK j \in 1 .. n, y \in Nat : b = <<j, y>>
        BY <1>6
      <3>3. f[a] = <<i + m, x>> /\ f[b] = <<j + m, y>>
        BY <2>1, <3>1, <3>2
      <3>4. <<i + m, x>> = <<j + m, y>>
        BY <2>3, <3>3
      <3>5. i + m = j + m /\ x = y
        BY <3>4
      <3>6. i = j
        BY <3>5
      <3> QED BY <3>1, <3>2, <3>5, <3>6
    <2>4. f \in Bijection(T, V)
      BY <2>2, <2>3 DEF Bijection, Injection, Surjection, IsInjective
    <2> QED BY <1>9, <2>4, FS_Bijection DEF ExistsBijection
  <1>11. U = S \cup V
    <2>1. ASSUME NEW b \in U PROVE b \in S \cup V
      <3>1. PICK i \in 1 .. m + n, x \in Nat : b = <<i, x>> /\ x \in 1 .. u[i]
        BY <1>7
      <3>2. CASE i <= m
        <4>1. i \in 1 .. m /\ u[i] = s[i]
          BY <1>3, <3>2
        <4>2. b \in S
          BY <1>5, <3>1, <4>1
        <4> QED BY <4>2
      <3>3. CASE i > m
        <4>1. i - m \in 1 .. n /\ (i - m) + m = i /\ u[i] = t[i - m]
          BY <1>3, <3>3
        <4> QED BY <1>8, <3>1, <4>1
      <3> QED BY <3>2, <3>3
    <2>2. ASSUME NEW b \in S PROVE b \in U
      <3>1. PICK i \in 1 .. m, x \in Nat : b = <<i, x>> /\ x \in 1 .. s[i]
        BY <1>5
      <3>2. i \in 1 .. m + n /\ u[i] = s[i]
        BY <1>3
      <3> QED BY <1>7, <3>1, <3>2
    <2>3. ASSUME NEW b \in V PROVE b \in U
      <3>1. PICK i \in 1 .. n, x \in Nat : b = <<i + m, x>> /\ x \in 1 .. t[i]
        BY <1>8
      <3>2. i + m \in 1 .. m + n /\ u[i + m] = t[i]
        <4>1. i + m \in 1 .. m + n /\ ~(i + m <= m) /\ (i + m) - m = i
          OBVIOUS
        <4> QED BY <1>3, <4>1
      <3> QED BY <1>7, <3>1, <3>2
    <2> QED BY <2>1, <2>2, <2>3
  <1>12. S \cap V = {}
    <2>1. ASSUME NEW b \in S, b \in V PROVE FALSE
      <3>1. PICK i \in 1 .. m, x \in Nat : b = <<i, x>>
        BY <1>5
      <3>2. PICK j \in 1 .. n, y \in Nat : b = <<j + m, y>>
        BY <1>8, <2>1
      <3>3. i = j + m
        BY <3>1, <3>2
      <3> QED BY <3>3
    <2> QED BY <2>1
  <1>13. Cardinality(S \cap V) = 0
    BY <1>12, FS_EmptySet, Zenon
  <1>14. Cardinality(S \cup V) = Cardinality(S) + Cardinality(V) - Cardinality(S \cap V)
    BY <1>9, <1>10, FS_Union
  <1> QED BY <1>2, <1>4, <1>9, <1>10, <1>11, <1>13, <1>14 DEF SizeOf

\* The size of one element, and of none.
LEMMA SizeOfOne ==
    ASSUME NEW e \in Nat
    PROVE  SizeOf(<<e>>) = e /\ SizeOf(<<>>) = 0
  <1>1. Bytes(<<>>) = {}
    BY DEF Bytes
  <1>2. SizeOf(<<>>) = 0
    BY <1>1, FS_EmptySet DEF SizeOf
  <1>3. Bytes(<<e>>) = {1} \X (1 .. e)
    <2>1. DOMAIN <<e>> = {1} /\ <<e>>[1] = e
      OBVIOUS
    <2> QED BY <2>1 DEF Bytes
  <1>4. IsFiniteSet({1}) /\ Cardinality({1}) = 1
    BY FS_Singleton
  <1>5. IsFiniteSet(1 .. e) /\ Cardinality(1 .. e) = IF 1 > e THEN 0 ELSE e - 1 + 1
    BY FS_Interval
  <1>6. Cardinality(1 .. e) = e
    BY <1>5
  <1>7. Cardinality({1} \X (1 .. e)) = 1 * e
    BY <1>4, <1>5, <1>6, FS_Product
  <1>8. SizeOf(<<e>>) = 1 * e
    BY <1>3, <1>7 DEF SizeOf
  <1> QED BY <1>2, <1>8

\* The size of a list and one element more.
LEMMA SizeOfMore ==
    ASSUME NEW s \in Seq(Nat), NEW e \in Nat
    PROVE  /\ SizeOf(Append(s, e)) = SizeOf(s) + e
           /\ SizeOf(<<e>> \o s) = SizeOf(s) + e
  <1>1. <<e>> \in Seq(Nat) /\ SizeOf(<<e>>) = e /\ SizeOf(s) \in Nat
    BY SizeOfOne, BytesAreFinite
  <1>2. SizeOf(s \o <<e>>) = SizeOf(s) + e /\ SizeOf(<<e>> \o s) = e + SizeOf(s)
    BY <1>1, SizeOfConcat
  <1>3. Append(s, e) = s \o <<e>>
    BY AppendIsConcat
  <1> QED BY <1>1, <1>2, <1>3


-----------------------------------------------------------------------------
(***************************************************************************)
(* A well-formed buffer, by the list it holds.                             *)
(***************************************************************************)
Tidy(d) == /\ Layout(d) /\ Clear(d)
           /\ Contents(d) \in Seq(Elements)
           /\ d.content = SizeOf(Contents(d))

\* What the buffer holds is a list as long as its count.
LEMMA ContentsAre ==
    ASSUME NEW d, Layout(d)
    PROVE  /\ Contents(d) \in Seq(Nat) /\ Len(Contents(d)) = d.count /\ d.count \in Nat
           /\ \A i \in 1 .. d.count : Contents(d)[i] = d.data[Slot(d, i - 1)]
  <1>1. PICK c, n, D : c = Cap(d) /\ n = d.count /\ D = d.data
    OBVIOUS
  <1>2. c \in Nat \ {0} /\ n \in 0 .. c /\ D \in Seq(Nat) /\ Len(D) = c
    BY <1>1, LayoutFacts
  <1>3. ASSUME NEW i \in 1 .. n PROVE D[Slot(d, i - 1)] \in Nat
    <2>1. i - 1 \in 0 .. c - 1
      BY <1>2
    <2>2. Slot(d, i - 1) \in 1 .. Len(D)
      BY <1>1, <1>2, <2>1, SlotIs
    <2> QED BY <1>2, <2>2, ElementOfSeq
  <1>4. PICK s : s = [i \in 1 .. n |-> D[Slot(d, i - 1)]]
    OBVIOUS
  <1>5. s \in Seq(Nat) /\ Len(s) = n
    BY <1>2, <1>3, <1>4
  <1>6. s = Contents(d)
    BY <1>1, <1>4 DEF Contents
  <1>7. \A i \in 1 .. n : s[i] = D[Slot(d, i - 1)]
    BY <1>4
  <1>8. n \in Nat
    BY <1>2
  <1> QED BY <1>1, <1>5, <1>6, <1>7, <1>8

\* Elements are numbers: their lengths.
LEMMA ElementsAreNumbers ==
    /\ \A e \in Elements : e \in Nat
    /\ \A s \in Seq(Elements) : s \in Seq(Nat) /\ Len(s) \in Nat
  <1>1. Elements \subseteq Nat
    BY ElementsAssumption
  <1>2. ASSUME NEW s \in Seq(Elements) PROVE s \in Seq(Nat) /\ Len(s) \in Nat
    BY <1>1, SeqMonotonic, LenProperties
  <1> QED BY <1>1, <1>2

\* The two ways to say it.
LEMMA WellFormedIsTidy ==
    ASSUME NEW d PROVE WellFormed(d) <=> Tidy(d)
  <1>1. ASSUME Layout(d)
        PROVE  WellFormed(d) <=> Tidy(d)
    <2>1. PICK c, n, D : c = Cap(d) /\ n = d.count /\ D = d.data
      OBVIOUS
    <2>2. c \in Nat \ {0} /\ n \in 0 .. c
      BY <1>1, <2>1, LayoutFacts
    <2>3. \A i \in 0 .. n - 1 : Slot(d, i) \in 1 .. c
      <3>1. \A i \in 0 .. n - 1 : i \in 0 .. c - 1
        BY <2>2
      <3> QED BY <1>1, <2>1, <3>1, SlotIs
    <2>4. \A s : s \in Used(d) <=> \E i \in 0 .. n - 1 : s = Slot(d, i)
      BY <2>1 DEF Used
    <2>5. PICK l : l = Contents(d)
      OBVIOUS
    <2>6. /\ Len(l) = n /\ \A i \in 1 .. n : l[i] = D[Slot(d, i - 1)]
          /\ l \in Seq(Nat)
      BY <1>1, <2>1, <2>5, ContentsAre
    <2>7. l \in Seq(Elements) <=> \A i \in 0 .. n - 1 : D[Slot(d, i)] \in Elements
      <3>1. l \in Seq(Elements) <=> \A i \in 1 .. n : l[i] \in Elements
        BY <2>6
      <3>2. \A i \in 1 .. n : i - 1 \in 0 .. n - 1
        BY <2>2
      <3>3. \A i \in 0 .. n - 1 : i + 1 \in 1 .. n /\ (i + 1) - 1 = i
        BY <2>2
      <3>4. ASSUME \A i \in 1 .. n : l[i] \in Elements, NEW i \in 0 .. n - 1
            PROVE  D[Slot(d, i)] \in Elements
        BY <2>6, <3>3, <3>4
      <3>5. ASSUME \A i \in 0 .. n - 1 : D[Slot(d, i)] \in Elements, NEW i \in 1 .. n
            PROVE  l[i] \in Elements
        BY <2>6, <3>2, <3>5
      <3> QED BY <3>1, <3>4, <3>5
    <2>8. WellFormed(d) <=> /\ \A s \in 1 .. c : IF s \in Used(d) THEN D[s] \in Elements
                                                               ELSE D[s] = Blank
                            /\ d.content = SizeOf(l)
      BY <1>1, <2>1, <2>4, <2>5 DEF WellFormed
    <2>9. (\A s \in 1 .. c : s \in Used(d) => D[s] \in Elements)
            <=> \A i \in 0 .. n - 1 : D[Slot(d, i)] \in Elements
      BY <2>3, <2>4
    <2>10. Clear(d) <=> \A s \in 1 .. c : s \notin Used(d) => D[s] = Blank
      BY <2>1 DEF Clear
    <2> QED BY <1>1, <2>5, <2>7, <2>8, <2>9, <2>10 DEF Tidy
  <1> QED BY <1>1 DEF WellFormed, Tidy

-----------------------------------------------------------------------------
\* Making room.
LEMMA RoomIsTidy ==
    ASSUME NEW d, Tidy(d)
    PROVE  /\ Tidy(Room(d)) /\ Room(d).count < Cap(Room(d))
           /\ Contents(Room(d)) = Contents(d) /\ Room(d).count = d.count
           /\ d.count # Cap(d) => Room(d) = d
           /\ d.count = Cap(d) => Room(d).tail < Cap(Room(d))
  <1>1. Layout(d) /\ Cap(d) \in Nat \ {0} /\ d.count \in 0 .. Cap(d)
    BY LayoutFacts DEF Tidy
  <1>2. CASE d.count # Cap(d)
    BY <1>1, <1>2 DEF Room
  <1>3. CASE d.count = Cap(d)
    <2>1. PICK r : r = Room(d)
      OBVIOUS
    <2>2. r = Grow(d)
      BY <1>3, <2>1 DEF Room
    <2>3. /\ Layout(r) /\ Cap(r) = 2 * Cap(d) /\ Contents(r) = Contents(d)
          /\ Clear(r) /\ r.content = d.content /\ r.tail = d.count /\ r.count = d.count
      BY <1>1, <1>3, <2>2, GrowKeepsContents
    <2>4. Tidy(r)
      BY <2>3 DEF Tidy
    <2> QED BY <1>1, <1>3, <2>1, <2>3, <2>4
  <1> QED BY <1>2, <1>3

\* A push to the back, of the whole buffer.
LEMMA PushBackIsTidy ==
    ASSUME NEW d, Tidy(d), ~PushBackPanics(d), NEW e \in Elements
    PROVE  /\ Tidy(PushBack(d, e)) /\ PushBack(d, e).tail < Cap(PushBack(d, e))
           /\ Contents(PushBack(d, e)) = Append(Contents(d), e)
  <1>1. PICK r, p : r = Room(d) /\ p = PushBack(d, e)
    OBVIOUS
  <1>2. /\ Tidy(r) /\ r.count < Cap(r) /\ Contents(r) = Contents(d)
        /\ d.count # Cap(d) => r = d
        /\ d.count = Cap(d) => r.tail < Cap(r)
    BY <1>1, RoomIsTidy
  <1>3. r.tail < Cap(r)
    <2>1. Layout(d) /\ Cap(d) \in Nat /\ d.tail \in 0 .. Cap(d)
      BY LayoutFacts DEF Tidy
    <2>2. d.count # Cap(d) => d.tail # Cap(d)
      BY DEF PushBackPanics
    <2> QED BY <1>2, <2>1, <2>2
  <1>4. e \in Nat /\ Layout(r) /\ Clear(r)
    BY <1>2, ElementsAreNumbers DEF Tidy
  <1>5. p = PushedBack(r, e)
    BY <1>1 DEF PushBack, PushedBack
  <1>6. /\ Layout(p) /\ p.tail < Cap(p) /\ Clear(p) /\ p.content = r.content + e
        /\ Contents(p) = Append(Contents(r), e)
    BY <1>2, <1>3, <1>4, <1>5, PushBackWithRoom
  <1>7. /\ Contents(r) \in Seq(Elements) /\ Contents(r) \in Seq(Nat)
        /\ r.content = SizeOf(Contents(r))
    BY <1>2, ElementsAreNumbers DEF Tidy
  <1>8. PICK s : s = Contents(r)
    OBVIOUS
  <1>9. SizeOf(Append(s, e)) = SizeOf(s) + e
    BY <1>4, <1>7, <1>8, SizeOfMore
  <1>10. Append(s, e) \in Seq(Elements)
    BY <1>7, <1>8, AppendProperties
  <1>11. p.content = SizeOf(Contents(p)) /\ Contents(p) \in Seq(Elements)
    BY <1>6, <1>7, <1>8, <1>9, <1>10
  <1> QED BY <1>1, <1>2, <1>6, <1>11 DEF Tidy

\* And a push to the front.
LEMMA PushFrontIsTidy ==
    ASSUME NEW d, Tidy(d), NEW e \in Elements
    PROVE  /\ Tidy(PushFront(e, d))
           /\ PushFront(e, d).tail = Cap(PushFront(e, d)) => d.tail = Cap(d)
           /\ Contents(PushFront(e, d)) = <<e>> \o Contents(d)
  <1>1. PICK r, p : r = Room(d) /\ p = PushFront(e, d)
    OBVIOUS
  <1>2. /\ Tidy(r) /\ r.count < Cap(r) /\ Contents(r) = Contents(d)
        /\ d.count # Cap(d) => r = d
        /\ d.count = Cap(d) => r.tail < Cap(r)
    BY <1>1, RoomIsTidy
  <1>3. e \in Nat /\ Layout(r) /\ Clear(r)
    BY <1>2, ElementsAreNumbers DEF Tidy
  <1>4. p = PushedFront(r, e)
    BY <1>1 DEF PushFront, PushedFront
  <1>5. /\ Layout(p) /\ Clear(p) /\ p.content = r.content + e
        /\ p.tail = r.tail /\ Cap(p) = Cap(r)
        /\ Contents(p) = <<e>> \o Contents(r)
    BY <1>2, <1>3, <1>4, PushFrontWithRoom
  <1>6. /\ Contents(r) \in Seq(Elements) /\ Contents(r) \in Seq(Nat)
        /\ r.content = SizeOf(Contents(r))
    BY <1>2, ElementsAreNumbers DEF Tidy
  <1>7. p.content = SizeOf(Contents(p)) /\ Contents(p) \in Seq(Elements)
    <2>1. <<e>> \in Seq(Elements)
      OBVIOUS
    <2> QED BY <1>3, <1>5, <1>6, <2>1, SizeOfMore, ConcatProperties
  <1>8. p.tail = Cap(p) => d.tail = Cap(d)
    <2>1. Layout(r) /\ Cap(r) \in Nat /\ r.tail \in 0 .. Cap(r)
      BY <1>3, LayoutFacts
    <2>2. CASE d.count # Cap(d)
      BY <1>2, <1>5, <2>2
    <2>3. CASE d.count = Cap(d)
      <3>1. PICK c, x : c = Cap(r) /\ x = r.tail
        OBVIOUS
      <3>2. x < c /\ c \in Nat /\ x \in Nat
        BY <1>2, <2>1, <2>3, <3>1
      <3>3. x # c
        BY <3>2
      <3> QED BY <1>5, <3>1, <3>3
    <2> QED BY <2>2, <2>3
  <1> QED BY <1>1, <1>2, <1>5, <1>7, <1>8 DEF Tidy

\* What is rebuilt.
LEMMA RebuiltIsTidy ==
    ASSUME NEW d, Tidy(d), NEW kept \in Seq(Elements), Len(kept) <= Cap(d)
    PROVE  /\ Tidy(Rebuilt(d, kept)) /\ Cap(Rebuilt(d, kept)) = Cap(d)
           /\ Contents(Rebuilt(d, kept)) = kept
           /\ Rebuilt(d, kept).tail = Len(kept) /\ Rebuilt(d, kept).count = Len(kept)
  <1>1. PICK p : p = Rebuilt(d, kept)
    OBVIOUS
  <1>2. kept \in Seq(Nat) /\ SizeOf(kept) \in Nat /\ Layout(d)
    BY ElementsAreNumbers, BytesAreFinite DEF Tidy
  <1>3. /\ Layout(p) /\ Cap(p) = Cap(d) /\ Contents(p) = kept /\ Clear(p)
        /\ p.content = SizeOf(kept) /\ p.tail = Len(kept)
    BY <1>1, <1>2, RebuiltHolds
  <1>4. p.count = Len(kept)
    BY <1>3, ContentsAre
  <1> QED BY <1>1, <1>3, <1>4 DEF Tidy

-----------------------------------------------------------------------------
(***************************************************************************)
(* What is left when the elements before a and from b on are popped.       *)
(***************************************************************************)
Ends(d, a, b, h, t) ==
    /\ a <= b /\ b <= d.count
    /\ h \in 0 .. Cap(d) - 1 /\ t \in 0 .. Cap(d)
    /\ h = d.head + a \/ h = d.head + a - Cap(d)
    /\ \/ t = h + (b - a)
       \/ t = h + (b - a) - Cap(d)
       \/ t = Cap(d) /\ h = 0 /\ b - a = 0

Left(d, a, b, h, t) ==
    [data |-> [s \in 1 .. Cap(d) |->
                  IF \E j \in 0 .. d.count - 1 : ~(j >= a /\ j < b) /\ s = Slot(d, j)
                  THEN Blank ELSE d.data[s]],
     head |-> h, tail |-> t, count |-> b - a,
     content |-> SizeOf(SubSeq(Contents(d), a + 1, b))]

LEMMA PoppedIsTidy ==
    ASSUME NEW d, Tidy(d), NEW a \in Nat, NEW b \in Nat, NEW h \in Nat, NEW t \in Nat,
           Ends(d, a, b, h, t)
    PROVE  /\ Tidy(Left(d, a, b, h, t))
           /\ Contents(Left(d, a, b, h, t)) = SubSeq(Contents(d), a + 1, b)
           /\ Cap(Left(d, a, b, h, t)) = Cap(d) /\ Left(d, a, b, h, t).tail = t
  <1>1. PICK c, m, D, g, C : c = Cap(d) /\ m = d.count /\ D = d.data /\ g = d.head
                             /\ C = Contents(d)
    OBVIOUS
  <1>2. PICK p, E, x : /\ p = Left(d, a, b, h, t) /\ x = SizeOf(SubSeq(C, a + 1, b))
                       /\ E = [s \in 1 .. c |->
                                 IF \E j \in 0 .. m - 1 : ~(j >= a /\ j < b) /\ s = Slot(d, j)
                                 THEN Blank ELSE D[s]]
    OBVIOUS
  <1>3. p = [data |-> E, head |-> h, tail |-> t, count |-> b - a, content |-> x]
    BY <1>2, <1>1 DEF Left
  <1>4. Layout(d) /\ Clear(d) /\ C \in Seq(Elements) /\ d.content = SizeOf(C)
    BY <1>1 DEF Tidy
  <1>5. /\ c \in Nat \ {0} /\ m \in 0 .. c /\ g \in 0 .. c - 1
        /\ D \in Seq(Nat) /\ Len(D) = c
    BY <1>1, <1>4, LayoutFacts
  <1>6. /\ a <= b /\ b <= m
        /\ h \in 0 .. c - 1 /\ t \in 0 .. c
        /\ h = g + a \/ h = g + a - c
        /\ \/ t = h + (b - a)
           \/ t = h + (b - a) - c
           \/ t = c /\ h = 0 /\ b - a = 0
    BY <1>1 DEF Ends
  <1>7. Len(C) = m /\ \A i \in 1 .. m : C[i] = D[Slot(d, i - 1)]
    BY <1>1, <1>4, ContentsAre
  <1>8. PICK S : S = SubSeq(C, a + 1, b)
    OBVIOUS
  <1>9. S \in Seq(Elements) /\ Len(S) = b - a /\ \A i \in 1 .. b - a : S[i] = C[a + i]
    <2>1. PICK k, l \in Int : k = a + 1 /\ l = b
      OBVIOUS
    <2>2. \A i \in k .. l : C[i] \in Elements
      <3>1. \A i \in k .. l : i \in 1 .. Len(C)
        BY <1>5, <1>7, <1>6, <2>1
      <3> QED BY <1>4, <3>1, ElementOfSeq
    <2>3. /\ SubSeq(C, k, l) \in Seq(Elements)
          /\ Len(SubSeq(C, k, l)) = IF k <= l THEN l - k + 1 ELSE 0
          /\ \A i \in 1 .. l - k + 1 : SubSeq(C, k, l)[i] = C[k + i - 1]
      BY <2>2, SubSeqProperties
    <2>4. Len(S) = b - a
      BY <1>8, <1>5, <1>6, <2>1, <2>3
    <2>5. ASSUME NEW i \in 1 .. b - a PROVE S[i] = C[a + i]
      <3>1. i \in 1 .. l - k + 1 /\ k + i - 1 = a + i
        BY <1>5, <1>6, <2>1
      <3> QED BY <1>8, <2>1, <2>3, <3>1
    <2> QED BY <1>8, <2>1, <2>3, <2>4, <2>5
  <1>10. \A j \in 0 .. m - 1 : /\ j \in 0 .. c - 1 /\ Slot(d, j) \in 1 .. c
                              /\ Slot(d, j) = IF g + j < c THEN g + j + 1 ELSE g + j + 1 - c
    <2>1. \A j \in 0 .. m - 1 : j \in 0 .. c - 1
      BY <1>5
    <2> QED BY <1>1, <1>4, <2>1, SlotIs
  <1>11. \A i \in 0 .. m - 1, j \in 0 .. m - 1 : i # j => Slot(d, i) # Slot(d, j)
    BY <1>1, <1>4, <1>10, SlotsDiffer
  <1>12. /\ E \in Seq(Nat) /\ Len(E) = c
         /\ \A j \in a .. b - 1 : j \in 0 .. m - 1 /\ E[Slot(d, j)] = D[Slot(d, j)]
         /\ \A j \in 0 .. m - 1 : ~(j >= a /\ j < b) => E[Slot(d, j)] = Blank
         /\ \A s \in 1 .. c : (\A j \in 0 .. m - 1 : s # Slot(d, j)) => E[s] = D[s]
    <2>1. E = [s \in 1 .. c |->
                 IF \E j \in 0 .. m - 1 : ~(j >= a /\ j < b) /\ s = Slot(d, j)
                 THEN Blank ELSE D[s]]
      BY <1>2
    <2>2. \A s \in 1 .. c : D[s] \in Nat
      BY <1>5, ElementOfSeq
    <2>3. \A s \in 1 .. c : E[s] \in Nat
      BY <2>1, <2>2 DEF Blank
    <2>4. E \in Seq(Nat) /\ Len(E) = c
      BY <1>5, <2>1, <2>3
    <2>5. ASSUME NEW j \in a .. b - 1 PROVE j \in 0 .. m - 1 /\ E[Slot(d, j)] = D[Slot(d, j)]
      <3>1. j \in 0 .. m - 1 /\ j >= a /\ j < b
        BY <1>5, <1>6
      <3>2. \A i \in 0 .. m - 1 : Slot(d, j) = Slot(d, i) => i = j
        BY <1>11, <3>1
      <3>3. Slot(d, j) \in 1 .. c
        BY <1>10, <3>1
      <3> QED BY <2>1, <3>1, <3>2, <3>3
    <2>6. \A j \in 0 .. m - 1 : ~(j >= a /\ j < b) => E[Slot(d, j)] = Blank
      BY <1>10, <2>1
    <2> QED BY <2>1, <2>4, <2>5, <2>6
  <1>13. Layout(p)
    <2>1. x \in Int
      <3>1. S \in Seq(Nat)
        BY <1>9, ElementsAreNumbers
      <3>2. SizeOf(S) \in Nat
        BY <3>1, BytesAreFinite
      <3> QED BY <1>2, <1>8, <3>2
    <2>2. PICK n : n = b - a
      OBVIOUS
    <2>3. /\ n \in Nat /\ n <= Len(E) /\ 0 < Len(E) /\ h \in Nat /\ t \in Nat
          /\ h < Len(E) /\ t <= Len(E)
      BY <1>5, <1>12, <1>6, <2>2
    <2>4. t = h + n \/ t = h + n - Len(E) \/ (t = Len(E) /\ h = 0 /\ n = 0)
      BY <1>12, <1>5, <1>6, <2>2
    <2> QED BY <1>12, <1>3, <2>1, <2>2, <2>3, <2>4, LayoutIs
  <1>14. p.data = E /\ p.head = h /\ p.count = b - a /\ p.tail = t /\ Cap(p) = c /\ p.content = x
    BY <1>12, <1>3 DEF Cap
  <1>15. \A i \in 0 .. b - a - 1 : /\ a + i \in a .. b - 1 /\ a + i \in 0 .. m - 1
                                   /\ Slot(p, i) = Slot(d, a + i)
    <2>1. TAKE i \in 0 .. b - a - 1
    <2>2. a + i \in a .. b - 1 /\ a + i \in 0 .. m - 1 /\ i \in 0 .. c - 1
      BY <1>5, <1>6
    <2>3. Slot(d, a + i) = IF g + (a + i) < c THEN g + (a + i) + 1 ELSE g + (a + i) + 1 - c
      BY <1>10, <2>2
    <2>4. Slot(p, i) = IF h + i < c THEN h + i + 1 ELSE h + i + 1 - c
      BY <1>13, <1>14, <2>2, SlotIs
    <2>5. CASE h = g + a
      BY <1>5, <1>6, <2>2, <2>3, <2>4, <2>5
    <2>6. CASE h = g + a - c
      BY <1>5, <1>6, <2>2, <2>3, <2>4, <2>6
    <2> QED BY <1>5, <1>6, <2>2, <2>5, <2>6
  <1>16. Contents(p) = S
    <2>1. PICK T : T = Contents(p)
      OBVIOUS
    <2>2. T \in Seq(Nat) /\ Len(T) = b - a /\ \A i \in 1 .. b - a : T[i] = E[Slot(p, i - 1)]
      BY <1>13, <1>14, <2>1, ContentsAre
    <2>3. ASSUME NEW i \in 1 .. b - a PROVE T[i] = S[i]
      <3>1. i - 1 \in 0 .. b - a - 1
        BY <1>5, <1>6
      <3>2. PICK j : j = a + (i - 1)
        OBVIOUS
      <3>3. j \in a .. b - 1 /\ Slot(p, i - 1) = Slot(d, j) /\ E[Slot(d, j)] = D[Slot(d, j)]
        BY <1>12, <1>15, <3>1, <3>2
      <3>4. a + i \in 1 .. m /\ (a + i) - 1 = j
        BY <1>5, <1>6, <3>2
      <3>5. C[a + i] = D[Slot(d, j)]
        BY <1>7, <3>4
      <3> QED BY <1>9, <2>2, <3>3, <3>5
    <2>4. S \in Seq(Nat)
      BY <1>9, ElementsAreNumbers
    <2> QED BY <1>9, <2>1, <2>2, <2>3, <2>4, SeqEqual
  <1>17. Clear(p)
    <2>1. ASSUME NEW s \in 1 .. c, s \notin Used(p) PROVE E[s] = Blank
      <3>1. CASE \E j \in 0 .. m - 1 : s = Slot(d, j)
        <4>1. PICK j \in 0 .. m - 1 : s = Slot(d, j)
          BY <3>1
        <4>2. CASE j >= a /\ j < b
          <5>1. PICK i : i = j - a
            OBVIOUS
          <5>2. i \in 0 .. b - a - 1 /\ a + i = j
            BY <1>5, <1>6, <4>2, <5>1
          <5>3. s = Slot(p, i)
            BY <1>15, <4>1, <5>2
          <5>4. s \in Used(p)
            BY <1>14, <5>2, <5>3 DEF Used
          <5> QED BY <2>1, <5>4
        <4> QED BY <1>12, <4>1, <4>2
      <3>2. CASE \A j \in 0 .. m - 1 : s # Slot(d, j)
        <4>1. s \notin Used(d)
          BY <1>1, <3>2 DEF Used
        <4>2. D[s] = Blank
          BY <1>1, <1>4, <4>1 DEF Clear
        <4> QED BY <1>12, <3>2, <4>2
      <3> QED BY <3>1, <3>2
    <2> QED BY <1>14, <2>1 DEF Clear
  <1> QED BY <1>2, <1>1, <1>8, <1>9, <1>13, <1>14, <1>16, <1>17 DEF Tidy

\* The size of a list is that of its parts.
LEMMA SizeOfParts ==
    ASSUME NEW s \in Seq(Elements), NEW n \in 0 .. Len(s)
    PROVE  /\ SizeOf(s) = SizeOf(SubSeq(s, 1, n)) + SizeOf(SubSeq(s, n + 1, Len(s)))
           /\ SizeOf(SubSeq(s, 1, n)) \in Nat /\ SizeOf(SubSeq(s, n + 1, Len(s))) \in Nat
  <1>1. PICK l \in Nat : l = Len(s)
    BY LenProperties
  <1>2. PICK S, T : S = SubSeq(s, 1, n) /\ T = SubSeq(s, n + 1, l)
    OBVIOUS
  <1>3. \A i \in 1 .. l : s[i] \in Elements
    BY <1>1, ElementOfSeq
  <1>4. S \in Seq(Elements)
    <2>1. 1 \in Int /\ n \in Int /\ \A i \in 1 .. n : s[i] \in Elements
      BY <1>1, <1>3
    <2> QED BY <1>2, <2>1, SubSeqProperties
  <1>5. T \in Seq(Elements)
    <2>1. n + 1 \in Int /\ l \in Int /\ \A i \in n + 1 .. l : s[i] \in Elements
      BY <1>1, <1>3
    <2> QED BY <1>2, <2>1, SubSeqProperties
  <1>6. S \o T = s
    <2>1. /\ 1 \in 1 .. Len(s) + 1 /\ n \in 1 - 1 .. Len(s) /\ l \in n .. Len(s)
      BY <1>1
    <2>2. SubSeq(s, 1, n) \o SubSeq(s, n + 1, l) = SubSeq(s, 1, l)
      BY <2>1, ConcatAdjacentSubSeq
    <2>3. SubSeq(s, 1, l) = s
      BY <1>1, SubSeqFull
    <2> QED BY <1>2, <2>2, <2>3
  <1>7. S \in Seq(Nat) /\ T \in Seq(Nat)
    BY <1>4, <1>5, ElementsAreNumbers
  <1>8. SizeOf(S \o T) = SizeOf(S) + SizeOf(T) /\ SizeOf(S) \in Nat /\ SizeOf(T) \in Nat
    BY <1>7, SizeOfConcat, BytesAreFinite
  <1> QED BY <1>1, <1>2, <1>6, <1>8

\* PopFront leaves what follows the elements it pops.
LEMMA PopFrontIsTidy ==
    ASSUME NEW d, Tidy(d), NEW n \in 0 .. d.count
    PROVE  /\ Tidy(PopFront(d, n)) /\ PopFront(d, n).count = d.count - n
           /\ Contents(PopFront(d, n)) = SubSeq(Contents(d), n + 1, d.count)
           /\ Cap(PopFront(d, n)) = Cap(d) /\ PopFront(d, n).tail = d.tail
  <1>1. PICK c, m, g, t, C, x : /\ c = Cap(d) /\ m = d.count /\ g = d.head /\ t = d.tail
                                /\ C = Contents(d) /\ x = d.content
    OBVIOUS
  <1>2. Layout(d) /\ C \in Seq(Elements) /\ x = SizeOf(C) /\ Len(C) = m
    BY <1>1, ContentsAre DEF Tidy
  <1>3. /\ c \in Nat \ {0} /\ m \in 0 .. c /\ g \in 0 .. c - 1 /\ t \in 0 .. c
        /\ t = g + m \/ t = g + m - c \/ (t = c /\ g = 0 /\ m = 0)
    BY <1>1, <1>2, LayoutFacts
  <1>4. n \in 0 .. m
    BY <1>1
  <1>5. PICK h : h = (g + n) % c
    OBVIOUS
  <1>6. h = IF g + n < c THEN g + n ELSE g + n - c
    <2>1. PICK y : y = g + n
      OBVIOUS
    <2>2. y \in Nat /\ y < c + c
      BY <1>3, <1>4, <2>1
    <2>3. y % c = IF y < c THEN y ELSE y - c
      BY <1>3, <2>2, ModOnce
    <2> QED BY <1>3, <1>4, <1>5, <2>1, <2>2, <2>3
  <1>7. /\ h \in Nat /\ h \in 0 .. c - 1
        /\ h = g + n \/ h = g + n - c
        /\ t = h + (m - n) \/ t = h + (m - n) - c \/ (t = c /\ h = 0 /\ m - n = 0)
    BY <1>3, <1>4, <1>6
  <1>8. n \in Nat /\ m \in Nat /\ t \in Nat /\ n <= m
    BY <1>3, <1>4
  <1>9. Ends(d, n, m, h, t)
    BY <1>1, <1>3, <1>7, <1>8 DEF Ends
  <1>10. PICK l : l = Left(d, n, m, h, t)
    OBVIOUS
  <1>11. /\ Tidy(l) /\ Contents(l) = SubSeq(C, n + 1, m)
         /\ Cap(l) = c /\ l.tail = t
    <2>1. /\ Tidy(Left(d, n, m, h, t))
          /\ Contents(Left(d, n, m, h, t)) = SubSeq(Contents(d), n + 1, m)
          /\ Cap(Left(d, n, m, h, t)) = Cap(d) /\ Left(d, n, m, h, t).tail = t
      BY <1>7, <1>8, <1>9, PoppedIsTidy
    <2> QED BY <1>1, <1>10, <2>1
  <1>12. l.count = m - n
    BY <1>10 DEF Left
  <1>13. PopFront(d, n) = l
    <2>1. PICK E : E = Cleared(d, 0, n - 1)
      OBVIOUS
    <2>2. E = [s \in 1 .. c |-> IF \E j \in 0 .. m - 1 : ~(j >= n /\ j < m) /\ s = Slot(d, j)
                                THEN Blank ELSE d.data[s]]
      <3>1. \A j \in Int : j \in 0 .. n - 1 <=> j \in 0 .. m - 1 /\ ~(j >= n /\ j < m)
        BY <1>8
      <3>2. \A s : s \in {Slot(d, y) : y \in 0 .. n - 1}
                     <=> \E j \in 0 .. m - 1 : ~(j >= n /\ j < m) /\ s = Slot(d, j)
        BY <3>1
      <3> QED BY <1>1, <2>1, <3>2 DEF Cleared
    <2>3. PICK S, T : S = SubSeq(C, 1, n) /\ T = SubSeq(C, n + 1, m)
      OBVIOUS
    <2>4. SizeOf(C) = SizeOf(S) + SizeOf(T) /\ SizeOf(S) \in Nat /\ SizeOf(T) \in Nat
      BY <1>2, <1>4, <2>3, SizeOfParts
    <2>5. x - SizeOf(S) = SizeOf(T)
      BY <1>2, <2>4
    <2>6. d \in Deques
      BY <1>2 DEF Layout
    <2>7. PopFront(d, n) = [d EXCEPT !.data = E, !.head = h, !.count = m - n,
                                     !.content = x - SizeOf(S)]
      BY <1>1, <1>5, <2>1, <2>3 DEF PopFront
    <2>8. PopFront(d, n) = [data |-> E, head |-> h, tail |-> t, count |-> m - n,
                            content |-> SizeOf(T)]
      BY <1>1, <2>5, <2>6, <2>7 DEF Deques
    <2>9. l = [data |-> E, head |-> h, tail |-> t, count |-> m - n,
               content |-> SizeOf(T)]
      BY <1>1, <1>10, <2>2, <2>3 DEF Left
    <2> QED BY <2>8, <2>9
  <1> QED BY <1>1, <1>11, <1>12, <1>13

\* PopBack leaves what precedes them, and the tail is a slot again.
LEMMA PopBackIsTidy ==
    ASSUME NEW d, Tidy(d), NEW n \in 1 .. d.count
    PROVE  /\ Tidy(PopBack(d, n)) /\ PopBack(d, n).count = d.count - n
           /\ Contents(PopBack(d, n)) = SubSeq(Contents(d), 1, d.count - n)
           /\ Cap(PopBack(d, n)) = Cap(d) /\ PopBack(d, n).tail < Cap(d)
  <1>1. PICK c, m, g, t, C, x : /\ c = Cap(d) /\ m = d.count /\ g = d.head /\ t = d.tail
                                /\ C = Contents(d) /\ x = d.content
    OBVIOUS
  <1>2. Layout(d) /\ C \in Seq(Elements) /\ x = SizeOf(C) /\ Len(C) = m
    BY <1>1, ContentsAre DEF Tidy
  <1>3. /\ c \in Nat \ {0} /\ m \in 0 .. c /\ g \in 0 .. c - 1 /\ t \in 0 .. c
        /\ t = g + m \/ t = g + m - c \/ (t = c /\ g = 0 /\ m = 0)
    BY <1>1, <1>2, LayoutFacts
  <1>4. n \in 1 .. m
    BY <1>1
  <1>5. PICK u, b : u = (t - n + c) % c /\ b = m - n
    OBVIOUS
  <1>6. u = IF t - n + c < c THEN t - n + c ELSE t - n
    <2>1. PICK y : y = t - n + c
      OBVIOUS
    <2>2. y \in Nat /\ y < c + c
      BY <1>3, <1>4, <2>1
    <2>3. y % c = IF y < c THEN y ELSE y - c
      BY <1>3, <2>2, ModOnce
    <2>4. y - c = t - n
      BY <1>3, <1>4, <2>1
    <2> QED BY <1>5, <2>1, <2>3, <2>4
  <1>7. /\ u \in Nat /\ u < c /\ b \in Nat /\ b <= m
        /\ u = g + b \/ u = g + b - c
    BY <1>3, <1>4, <1>5, <1>6
  <1>8. 0 \in Nat /\ g \in Nat /\ m \in Nat /\ g = g + 0 /\ b - 0 = b /\ 0 <= b /\ u \in 0 .. c
    BY <1>3, <1>7
  <1>9. Ends(d, 0, b, g, u)
    BY <1>1, <1>3, <1>7, <1>8 DEF Ends
  <1>10. PICK l : l = Left(d, 0, b, g, u)
    OBVIOUS
  <1>11. Tidy(l) /\ Contents(l) = SubSeq(C, 1, b) /\ Cap(l) = c /\ l.tail = u
    <2>1. 0 + 1 = 1
      OBVIOUS
    <2> QED BY <1>1, <1>7, <1>8, <1>9, <1>10, <2>1, PoppedIsTidy
  <1>12. l.count = b
    BY <1>8, <1>10 DEF Left
  <1>13. PopBack(d, n) = l
    <2>1. PICK E : E = Cleared(d, m - n, m - 1)
      OBVIOUS
    <2>2. E = [s \in 1 .. c |-> IF \E j \in 0 .. m - 1 : ~(j >= 0 /\ j < b) /\ s = Slot(d, j)
                                THEN Blank ELSE d.data[s]]
      <3>1. \A j \in Int : j \in m - n .. m - 1 <=> j \in 0 .. m - 1 /\ ~(j >= 0 /\ j < b)
        BY <1>4, <1>5, <1>8
      <3>2. \A s : s \in {Slot(d, y) : y \in m - n .. m - 1}
                     <=> \E j \in 0 .. m - 1 : ~(j >= 0 /\ j < b) /\ s = Slot(d, j)
        BY <3>1
      <3> QED BY <1>1, <2>1, <3>2 DEF Cleared
    <2>3. PICK S, T : S = SubSeq(C, 1, b) /\ T = SubSeq(C, m - n + 1, m)
      OBVIOUS
    <2>4. SizeOf(C) = SizeOf(S) + SizeOf(T) /\ SizeOf(S) \in Nat /\ SizeOf(T) \in Nat
      <3>1. b \in 0 .. m /\ b + 1 = m - n + 1
        BY <1>5, <1>7, <1>8
      <3> QED BY <1>2, <2>3, <3>1, SizeOfParts
    <2>5. x - SizeOf(T) = SizeOf(S)
      BY <1>2, <2>4
    <2>6. d \in Deques
      BY <1>2 DEF Layout
    <2>7. PopBack(d, n) = [d EXCEPT !.data = E, !.tail = u, !.count = b,
                                    !.content = x - SizeOf(T)]
      BY <1>1, <1>5, <2>1, <2>3 DEF PopBack
    <2>8. PopBack(d, n) = [data |-> E, head |-> g, tail |-> u, count |-> b,
                           content |-> SizeOf(S)]
      BY <1>1, <2>5, <2>6, <2>7 DEF Deques
    <2>9. l = [data |-> E, head |-> g, tail |-> u, count |-> b, content |-> SizeOf(S)]
      <3>1. 0 + 1 = 1
        OBVIOUS
      <3> QED BY <3>1, <1>1, <1>8, <1>10, <2>2, <2>3 DEF Left
    <2> QED BY <2>8, <2>9
  <1> QED BY <1>1, <1>5, <1>7, <1>11, <1>12, <1>13

\* A new list is empty, with every slot free.
LEMMA NewIsTidy ==
    /\ Tidy(NewDeque) /\ Contents(NewDeque) = <<>> /\ NewDeque.count = 0
    /\ NewDeque.tail < Cap(NewDeque)
  <1>1. PICK k, b : k = InitialCapacity /\ b = Blanks(k)
    OBVIOUS
  <1>2. k \in Nat \ {0}
    BY <1>1, CapacityAssumption
  <1>3. b \in Seq(Nat) /\ Len(b) = k /\ \A i \in 1 .. k : b[i] = Blank
    BY <1>1, <1>2, BlanksAre
  <1>4. PICK p : p = [data |-> b, head |-> 0, tail |-> 0, count |-> 0, content |-> 0]
    OBVIOUS
  <1>5. p = NewDeque
    BY <1>1, <1>4 DEF NewDeque
  <1>6. Layout(p)
    BY <1>2, <1>3, <1>4, LayoutIs
  <1>7. p.data = b /\ Cap(p) = k /\ p.count = 0 /\ p.tail = 0 /\ p.content = 0
    BY <1>3, <1>4 DEF Cap
  <1>8. Contents(p) = <<>>
    <2>1. PICK s : s = Contents(p)
      OBVIOUS
    <2>2. s \in Seq(Nat) /\ Len(s) = 0
      BY <1>6, <1>7, <2>1, ContentsAre
    <2> QED BY <2>1, <2>2, EmptySeq
  <1>9. SizeOf(<<>>) = 0
    BY SizeOfOne
  <1>10. Clear(p)
    BY <1>3, <1>7 DEF Clear
  <1>11. <<>> \in Seq(Elements)
    BY EmptySeq
  <1> QED BY <1>2, <1>5, <1>6, <1>7, <1>8, <1>9, <1>10, <1>11 DEF Tidy

\* The size of a list with one element replaced.
LEMMA SizeOfSet ==
    ASSUME NEW s \in Seq(Elements), NEW k \in 1 .. Len(s), NEW e \in Elements
    PROVE  /\ SizeOf([s EXCEPT ![k] = e]) = SizeOf(s) - s[k] + e
           /\ [s EXCEPT ![k] = e] \in Seq(Elements)
  <1>1. PICK l \in Nat : l = Len(s)
    BY LenProperties
  <1>2. PICK t : t = [s EXCEPT ![k] = e]
    OBVIOUS
  <1>3. /\ t \in Seq(Elements) /\ Len(t) = l
        /\ \A j \in 1 .. l : t[j] = IF j = k THEN e ELSE s[j]
    BY <1>1, <1>2, ExceptSeq
  <1>4. k \in 1 .. l /\ k - 1 \in 0 .. l /\ (k - 1) + 1 = k
    BY <1>1
  <1>5. \A j \in 1 .. l : s[j] \in Elements /\ t[j] \in Elements
    BY <1>1, <1>3, ElementOfSeq
  <1>6. SubSeq(s, 1, k - 1) = SubSeq(t, 1, k - 1)
    <2>1. PICK n \in Int : n = k - 1
      BY <1>4
    <2>2. \A j \in 1 .. n : s[j] \in Elements /\ t[j] \in Elements /\ s[j] = t[j]
      BY <1>3, <1>4, <1>5, <2>1
    <2>3. PICK S, T : S = SubSeq(s, 1, n) /\ T = SubSeq(t, 1, n)
      OBVIOUS
    <2>4. /\ S \in Seq(Elements) /\ Len(S) = IF 1 <= n THEN n - 1 + 1 ELSE 0
          /\ \A j \in 1 .. n - 1 + 1 : S[j] = s[1 + j - 1]
      BY <2>2, <2>3, SubSeqProperties
    <2>5. /\ T \in Seq(Elements) /\ Len(T) = IF 1 <= n THEN n - 1 + 1 ELSE 0
          /\ \A j \in 1 .. n - 1 + 1 : T[j] = t[1 + j - 1]
      BY <2>2, <2>3, SubSeqProperties
    <2>6. ASSUME NEW j \in 1 .. Len(S) PROVE S[j] = T[j]
      <3>1. j \in 1 .. n - 1 + 1 /\ 1 + j - 1 = j /\ j \in 1 .. n
        BY <2>4
      <3> QED BY <2>2, <2>4, <2>5, <3>1
    <2>7. S = T
      BY <2>4, <2>5, <2>6, SeqEqual
    <2> QED BY <2>1, <2>3, <2>7
  <1>7. SubSeq(s, k + 1, l) = SubSeq(t, k + 1, l)
    <2>1. PICK n \in Int : n = k + 1
      BY <1>4
    <2>2. \A j \in n .. l : s[j] \in Elements /\ t[j] \in Elements /\ s[j] = t[j]
      BY <1>3, <1>4, <1>5, <2>1
    <2>3. PICK S, T : S = SubSeq(s, n, l) /\ T = SubSeq(t, n, l)
      OBVIOUS
    <2>4. /\ S \in Seq(Elements) /\ Len(S) = IF n <= l THEN l - n + 1 ELSE 0
          /\ \A j \in 1 .. l - n + 1 : S[j] = s[n + j - 1]
      BY <2>2, <2>3, SubSeqProperties
    <2>5. /\ T \in Seq(Elements) /\ Len(T) = IF n <= l THEN l - n + 1 ELSE 0
          /\ \A j \in 1 .. l - n + 1 : T[j] = t[n + j - 1]
      BY <2>2, <2>3, SubSeqProperties
    <2>6. ASSUME NEW j \in 1 .. Len(S) PROVE S[j] = T[j]
      <3>1. j \in 1 .. l - n + 1 /\ n + j - 1 \in n .. l
        BY <2>4
      <3> QED BY <2>2, <2>4, <2>5, <3>1
    <2>7. S = T
      BY <2>4, <2>5, <2>6, SeqEqual
    <2> QED BY <2>1, <2>3, <2>7
  <1>8. PICK A, B : A = SubSeq(s, 1, k - 1) /\ B = SubSeq(s, k + 1, l)
    OBVIOUS
  <1>9. B \in Seq(Nat)
    <2>1. PICK n \in Int : n = k + 1
      BY <1>4
    <2>2. \A j \in n .. l : s[j] \in Elements
      BY <1>4, <1>5, <2>1
    <2>3. B \in Seq(Elements)
      BY <1>8, <2>1, <2>2, SubSeqProperties
    <2> QED BY <2>3, ElementsAreNumbers
  <1>10. SubSeq(s, k, l) = <<s[k]>> \o B /\ SubSeq(t, k, l) = <<t[k]>> \o B
    <2>1. l \in k .. Len(s) /\ k \in 1 .. Len(t) /\ l \in k .. Len(t)
      BY <1>1, <1>3, <1>4
    <2> QED BY <1>3, <1>7, <1>8, <2>1, SubSeqRecursiveFirst
  <1>11. s[k] \in Nat /\ t[k] = e /\ e \in Nat
    BY <1>3, <1>4, <1>5, ElementsAreNumbers
  <1>12. PICK x, y : x = SizeOf(A) /\ y = SizeOf(B)
    OBVIOUS
  <1>13. /\ SizeOf(SubSeq(s, k, l)) = y + s[k] /\ SizeOf(SubSeq(t, k, l)) = y + e
         /\ y \in Nat
    BY <1>9, <1>10, <1>11, <1>12, SizeOfMore, BytesAreFinite
  <1>14. SizeOf(s) = x + SizeOf(SubSeq(s, k, l)) /\ x \in Nat
    BY <1>1, <1>4, <1>8, <1>12, SizeOfParts
  <1>15. SizeOf(t) = x + SizeOf(SubSeq(t, k, l))
    BY <1>3, <1>4, <1>6, <1>8, <1>12, SizeOfParts
  <1>16. SizeOf(t) = SizeOf(s) - s[k] + e
    BY <1>11, <1>13, <1>14, <1>15
  <1> QED BY <1>2, <1>3, <1>16

\* Set replaces the element at its index.
LEMMA SetIsTidy ==
    ASSUME NEW d, Tidy(d), NEW i \in 0 .. d.count - 1, NEW e \in Elements
    PROVE  /\ Tidy(SetAt(d, i, e)) /\ SetAt(d, i, e).count = d.count
           /\ SetAt(d, i, e).tail = d.tail /\ Cap(SetAt(d, i, e)) = Cap(d)
           /\ Contents(SetAt(d, i, e)) = [Contents(d) EXCEPT ![i + 1] = e]
  <1>1. PICK c, m, g, t, D, C, x : /\ c = Cap(d) /\ m = d.count /\ g = d.head /\ t = d.tail
                                   /\ D = d.data /\ C = Contents(d) /\ x = d.content
    OBVIOUS
  <1>2. Layout(d) /\ Clear(d) /\ C \in Seq(Elements) /\ x = SizeOf(C)
    BY <1>1 DEF Tidy
  <1>3. /\ c \in Nat \ {0} /\ m \in 0 .. c /\ g \in 0 .. c - 1 /\ t \in 0 .. c
        /\ D \in Seq(Nat) /\ Len(D) = c
        /\ t = g + m \/ t = g + m - c \/ (t = c /\ g = 0 /\ m = 0)
    BY <1>1, <1>2, LayoutFacts
  <1>4. Len(C) = m /\ \A j \in 1 .. m : C[j] = D[Slot(d, j - 1)]
    BY <1>1, <1>2, ContentsAre
  <1>5. PICK p, s, E, y : /\ p = SetAt(d, i, e) /\ s = Slot(d, i) /\ E = [D EXCEPT ![s] = e]
                          /\ y = x - D[s] + e
    OBVIOUS
  <1>6. i \in 0 .. m - 1 /\ i \in 0 .. c - 1 /\ i + 1 \in 1 .. m /\ (i + 1) - 1 = i
    BY <1>1, <1>3
  <1>7. s \in 1 .. c
    BY <1>1, <1>2, <1>5, <1>6, SlotIs
  <1>8. C[i + 1] = D[s]
    BY <1>4, <1>5, <1>6
  <1>9. PICK N : N = [C EXCEPT ![i + 1] = e]
    OBVIOUS
  <1>10. y = SizeOf(N) /\ N \in Seq(Elements) /\ SizeOf(N) \in Nat
    <2>1. SizeOf(N) = x - C[i + 1] + e /\ N \in Seq(Elements)
      BY <1>2, <1>4, <1>6, <1>9, SizeOfSet
    <2>2. N \in Seq(Nat)
      BY <2>1, ElementsAreNumbers
    <2> QED BY <1>5, <1>8, <2>1, <2>2, BytesAreFinite
  <1>11. /\ E \in Seq(Nat) /\ Len(E) = c
         /\ \A j \in 1 .. c : E[j] = IF j = s THEN e ELSE D[j]
    <2>1. e \in Nat
      BY ElementsAreNumbers
    <2> QED BY <1>3, <1>5, <1>7, <2>1, ExceptSeq
  <1>12. p = [data |-> E, head |-> g, tail |-> t, count |-> m, content |-> y]
    <2>1. d \in Deques
      BY <1>2 DEF Layout
    <2>2. p = [d EXCEPT !.data = E, !.content = y]
      BY <1>1, <1>5 DEF SetAt
    <2> QED BY <1>1, <2>1, <2>2 DEF Deques
  <1>13. Layout(p)
    <2>1. /\ 0 < Len(E) /\ m \in Nat /\ g \in Nat /\ t \in Nat /\ m <= Len(E)
          /\ g < Len(E) /\ t <= Len(E) /\ y \in Int
      BY <1>3, <1>10, <1>11
    <2>2. t = g + m \/ t = g + m - Len(E) \/ (t = Len(E) /\ g = 0 /\ m = 0)
      BY <1>3, <1>11
    <2> QED BY <1>11, <1>12, <2>1, <2>2, LayoutIs
  <1>14. /\ p.data = E /\ p.head = g /\ p.tail = t /\ p.count = m /\ Cap(p) = c
         /\ p.content = y
    BY <1>11, <1>12 DEF Cap
  <1>15. \A j : Slot(p, j) = Slot(d, j)
    BY <1>1, <1>14 DEF Slot
  <1>16. Contents(p) = N
    <2>1. PICK T : T = Contents(p)
      OBVIOUS
    <2>2. T \in Seq(Nat) /\ Len(T) = m /\ \A j \in 1 .. m : T[j] = E[Slot(d, j - 1)]
      BY <1>13, <1>14, <1>15, <2>1, ContentsAre
    <2>3. N \in Seq(Nat) /\ Len(N) = m /\ \A j \in 1 .. m : N[j] = IF j = i + 1 THEN e ELSE C[j]
      <3>1. N \in Seq(Nat)
        BY <1>10, ElementsAreNumbers
      <3> QED BY <1>2, <1>4, <1>6, <1>9, <3>1, ExceptSeq
    <2>4. ASSUME NEW j \in 1 .. m PROVE T[j] = N[j]
      <3>1. j - 1 \in 0 .. c - 1 /\ (j = i + 1 <=> j - 1 = i)
        BY <1>3, <1>6
      <3>2. Slot(d, j - 1) = s <=> j = i + 1
        BY <1>1, <1>2, <1>5, <1>6, <3>1, SlotsDiffer
      <3>3. Slot(d, j - 1) \in 1 .. c
        BY <1>1, <1>2, <3>1, SlotIs
      <3> QED BY <1>4, <1>11, <2>2, <2>3, <3>2, <3>3
    <2>5. T = N
      BY <2>2, <2>3, <2>4, SeqEqual
    <2> QED BY <2>1, <2>5
  <1>17. Clear(p)
    <2>1. Used(p) = Used(d)
      BY <1>1, <1>14, <1>15 DEF Used
    <2>2. s \in Used(d)
      BY <1>1, <1>5, <1>6 DEF Used
    <2>3. \A j \in 1 .. c : j \notin Used(d) => D[j] = Blank
      BY <1>1, <1>2 DEF Clear
    <2> QED BY <1>11, <1>14, <2>1, <2>2, <2>3 DEF Clear
  <1> QED BY <1>1, <1>5, <1>9, <1>10, <1>13, <1>14, <1>16, <1>17 DEF Tidy

-----------------------------------------------------------------------------
(***************************************************************************)
(* One element after another (the loops of deque.go:93-121 and of          *)
(* list_types.go:749-795).                                                 *)
(***************************************************************************)
\* A set of numbers has a least one.
LEMMA Least ==
    ASSUME NEW S \in SUBSET Nat, S # {}
    PROVE  \E n \in S : \A m \in S : n <= m
  <1> DEFINE R == OpToRel(<, Nat)
  <1>1. IsWellFoundedOn(R, Nat)
    BY NatLessThanWellFounded
  <1>2. \A x, y \in Nat : x < y => <<x, y>> \in R
    BY DEF OpToRel
  <1> HIDE DEF R
  <1>3. PICK n \in S : \A m \in S : ~ (<<m, n>> \in R)
    BY <1>1, WFMin
  <1>4. n \in Nat /\ \A m \in S : m \in Nat
    OBVIOUS
  <1>5. \A m \in S : ~ (m < n)
    BY <1>2, <1>3, <1>4
  <1>6. \A m \in S : n <= m
    BY <1>4, <1>5
  <1> QED BY <1>6

\* The buffers after 0, 1, .. n of the elements.
Steps(f, end, unique, d, es, n) ==
    f = [k \in 0 .. n |-> IF k = 0 THEN d ELSE Add(end, unique, f[k - 1], es[k])]

\* There are such buffers, however many the elements: the loop ends.
LEMMA StepsExist ==
    ASSUME NEW end, NEW unique, NEW d, NEW es, NEW n \in Nat
    PROVE  \E f : Steps(f, end, unique, d, es, n)
  <1> DEFINE Bad == {k \in Nat : ~ \E f : Steps(f, end, unique, d, es, k)}
  <1>1. ASSUME Bad # {} PROVE FALSE
    <2>1. PICK k \in Bad : \A m \in Bad : k <= m
      BY <1>1, Least
    <2>2. k \in Nat /\ ~ \E f : Steps(f, end, unique, d, es, k)
      OBVIOUS
    <2>3. CASE k = 0
      <3>1. PICK f : f = [j \in 0 .. 0 |-> d]
        OBVIOUS
      <3>2. f = [j \in 0 .. 0 |-> IF j = 0 THEN d ELSE Add(end, unique, f[j - 1], es[j])]
        BY <3>1
      <3> QED BY <2>2, <2>3, <3>2 DEF Steps
    <2>4. CASE k # 0
      <3>1. k - 1 \in Nat /\ ~ (k <= k - 1)
        BY <2>2, <2>4
      <3>2. k - 1 \notin Bad
        BY <2>1, <3>1
      <3>3. PICK f : Steps(f, end, unique, d, es, k - 1)
        BY <3>1, <3>2
      <3>4. PICK g : g = [j \in 0 .. k |-> IF j < k THEN f[j]
                                           ELSE Add(end, unique, f[k - 1], es[k])]
        OBVIOUS
      <3>5. PICK h : h = [j \in 0 .. k |-> IF j = 0 THEN d
                                           ELSE Add(end, unique, g[j - 1], es[j])]
        OBVIOUS
      <3>6. \A j \in 0 .. k - 1 : f[j] = IF j = 0 THEN d ELSE Add(end, unique, f[j - 1], es[j])
        BY <3>3 DEF Steps
      <3>7. \A j \in 0 .. k - 1 : g[j] = f[j]
        BY <2>2, <3>4
      <3>8. ASSUME NEW j \in 0 .. k PROVE g[j] = h[j]
        <4>1. CASE j = k
          <5>1. g[j] = Add(end, unique, f[k - 1], es[k])
            BY <2>2, <3>4, <4>1
          <5>2. g[k - 1] = f[k - 1]
            BY <3>1, <3>7
          <5>3. h[j] = Add(end, unique, g[k - 1], es[k])
            BY <2>2, <2>4, <3>5, <4>1
          <5> QED BY <5>1, <5>2, <5>3
        <4>2. CASE j # k
          <5>1. j \in 0 .. k - 1 /\ (j # 0 => j - 1 \in 0 .. k - 1)
            BY <2>2, <4>2
          <5>2. g[j] = f[j] /\ (j # 0 => g[j - 1] = f[j - 1])
            BY <3>7, <5>1
          <5>3. h[j] = IF j = 0 THEN d ELSE Add(end, unique, g[j - 1], es[j])
            BY <3>5
          <5> QED BY <3>6, <5>1, <5>2, <5>3
        <4> QED BY <4>1, <4>2
      <3>9. g = h
        BY <3>4, <3>5, <3>8
      <3>10. Steps(g, end, unique, d, es, k)
        BY <3>5, <3>9 DEF Steps
      <3> QED BY <2>2, <3>10
    <2> QED BY <2>3, <2>4
  <1>2. n \notin Bad
    BY <1>1
  <1> QED BY <1>2

\* Added is the last of them.
LEMMA AddedIs ==
    ASSUME NEW end, NEW unique, NEW d, NEW es, Len(es) \in Nat
    PROVE  \E f : /\ f[0] = d /\ Added(end, unique, d, es) = f[Len(es)]
                  /\ \A n \in 1 .. Len(es) : f[n] = Add(end, unique, f[n - 1], es[n])
  <1> DEFINE l == Len(es)
             F == CHOOSE f : f = [k \in 0 .. l |-> IF k = 0 THEN d
                                                  ELSE Add(end, unique, f[k - 1], es[k])]
  <1>1. \E f : f = [k \in 0 .. l |-> IF k = 0 THEN d ELSE Add(end, unique, f[k - 1], es[k])]
    <2>1. l \in Nat
      OBVIOUS
    <2>2. PICK f : Steps(f, end, unique, d, es, l)
      BY <2>1, StepsExist
    <2>3. f = [k \in 0 .. l |-> IF k = 0 THEN d ELSE Add(end, unique, f[k - 1], es[k])]
      BY <2>2 DEF Steps
    <2> QED BY <2>3
  <1>2. F = [k \in 0 .. l |-> IF k = 0 THEN d ELSE Add(end, unique, F[k - 1], es[k])]
    BY <1>1
  <1>3. Added(end, unique, d, es) = F[l]
    BY DEF Added
  <1>4. l \in Nat
    OBVIOUS
  <1> HIDE DEF F, l
  <1>5. F[0] = d /\ \A n \in 1 .. l : F[n] = Add(end, unique, F[n - 1], es[n])
    BY <1>2, <1>4
  <1> QED BY <1>3, <1>5 DEF l

\* What follows from one buffer to the next holds of the last.
LEMMA Steadily ==
    ASSUME NEW l \in Nat, NEW S \in SUBSET Nat, 0 \in S,
           \A n \in 1 .. l : n - 1 \in S => n \in S
    PROVE  l \in S
  <1> DEFINE Bad == {n \in 0 .. l : n \notin S}
  <1>1. ASSUME Bad # {} PROVE FALSE
    <2>1. PICK n \in Bad : \A m \in Bad : n <= m
      <3>1. Bad \in SUBSET Nat
        OBVIOUS
      <3> HIDE DEF Bad
      <3> QED BY <1>1, <3>1, Least
    <2>2. n \in 0 .. l /\ n \notin S /\ n # 0
      OBVIOUS
    <2>3. n - 1 \in 0 .. l /\ ~ (n <= n - 1) /\ n \in 1 .. l
      BY <2>2
    <2>4. n - 1 \in S
      BY <2>1, <2>3
    <2> QED BY <2>2, <2>3, <2>4
  <1>2. l \notin Bad
    BY <1>1
  <1> QED BY <1>2

\* Where a push is safe: at the front always, at the back unless the tail is
\* no slot and an element is really pushed.
Safe(end, unique, d, es) ==
    \/ end = "front"
    \/ ~PushBackPanics(d)
    \/ unique /\ \A i \in 1 .. Len(es) : Contains(Contents(d), es[i])

\* What adding makes of the buffer d, of which a push to the back leaves no
\* tail that is not a slot.
Grown(end, d, r) ==
    /\ Tidy(r) /\ r.count >= d.count
    /\ r.tail = Cap(r) => d.tail = Cap(d)
    /\ end # "front" => r = d \/ r.tail < Cap(r)

\* Where one push is safe.
Fine(end, unique, d, e) ==
    \/ end = "front"
    \/ ~PushBackPanics(d)
    \/ unique /\ Contains(Contents(d), e)

\* The list after one push.
With(end, unique, s, e) ==
    IF unique /\ Contains(s, e) THEN s
    ELSE IF end = "front" THEN <<e>> \o s ELSE s \o <<e>>

\* One element.
LEMMA AddIsTidy ==
    ASSUME NEW end, NEW unique \in BOOLEAN, NEW d, Tidy(d), NEW e \in Elements,
           Fine(end, unique, d, e)
    PROVE  /\ Grown(end, d, Add(end, unique, d, e))
           /\ Add(end, unique, d, e).count > 0
           /\ Add(end, unique, d, e) = d \/ Add(end, unique, d, e).count = d.count + 1
           /\ ~unique => Add(end, unique, d, e).count = d.count + 1
           /\ Contents(Add(end, unique, d, e)) = With(end, unique, Contents(d), e)
  <1>1. PICK C, r, m : C = Contents(d) /\ r = Add(end, unique, d, e) /\ m = d.count
    OBVIOUS
  <1>2. Layout(d) /\ C \in Seq(Elements) /\ Len(C) = m /\ m \in Nat
    BY <1>1, ContentsAre DEF Tidy
  <1>3. CASE unique /\ Contains(C, e)
    <2>1. r = d
      BY <1>1, <1>3 DEF Add
    <2>2. m > 0
      <3>1. PICK i \in 1 .. Len(C) : C[i] = e
        BY <1>3 DEF Contains
      <3> QED BY <1>2, <3>1
    <2>3. Grown(end, d, r)
      BY <1>1, <1>2, <2>1 DEF Grown
    <2>4. Contents(r) = With(end, unique, C, e)
      BY <1>1, <1>3, <2>1 DEF With
    <2> QED BY <1>1, <1>3, <2>1, <2>2, <2>3, <2>4
  <1>4. CASE ~(unique /\ Contains(C, e)) /\ end = "front"
    <2>1. r = PushFront(e, d)
      BY <1>1, <1>4 DEF Add
    <2>2. /\ Tidy(r)
          /\ r.tail = Cap(r) => d.tail = Cap(d)
          /\ Contents(r) = <<e>> \o C
      BY <1>1, <2>1, PushFrontIsTidy
    <2>3. Layout(r)
      BY <2>2 DEF Tidy
    <2>4. r.count = m + 1
      <3>1. <<e>> \in Seq(Elements) /\ Len(<<e>>) = 1
        OBVIOUS
      <3>2. Len(<<e>> \o C) = 1 + m
        BY <1>2, <3>1, ConcatProperties
      <3>3. Len(Contents(r)) = r.count
        BY <2>3, ContentsAre
      <3> QED BY <1>2, <2>2, <3>2, <3>3
    <2>5. Grown(end, d, r)
      BY <1>1, <1>2, <1>4, <2>2, <2>4 DEF Grown
    <2>6. m + 1 > 0
      BY <1>2
    <2>7. Contents(r) = With(end, unique, C, e)
      BY <1>4, <2>2 DEF With
    <2> QED BY <1>1, <1>4, <2>4, <2>5, <2>6, <2>7
  <1>5. CASE ~(unique /\ Contains(C, e)) /\ end # "front"
    <2>1. r = PushBack(d, e)
      BY <1>1, <1>5 DEF Add
    <2>2. ~PushBackPanics(d)
      BY <1>1, <1>5 DEF Fine
    <2>3. /\ Tidy(r) /\ r.tail < Cap(r) /\ Contents(r) = Append(C, e)
      BY <1>1, <2>1, <2>2, PushBackIsTidy
    <2>4. Layout(r)
      BY <2>3 DEF Tidy
    <2>5. Contents(r) = C \o <<e>>
      BY <1>2, <2>3, AppendIsConcat
    <2>6. r.count = m + 1
      <3>1. Len(Append(C, e)) = m + 1
        BY <1>2, AppendProperties
      <3>2. Len(Contents(r)) = r.count
        BY <2>4, ContentsAre
      <3> QED BY <2>3, <3>1, <3>2
    <2>7. r.tail # Cap(r)
      <3>1. PICK c, t : c = Cap(r) /\ t = r.tail
        OBVIOUS
      <3>2. c \in Nat /\ t \in Nat /\ t < c
        BY <2>3, <2>4, <3>1, LayoutFacts
      <3> QED BY <3>1, <3>2
    <2>8. Grown(end, d, r)
      BY <1>1, <1>2, <2>3, <2>6, <2>7 DEF Grown
    <2>9. m + 1 > 0
      BY <1>2
    <2>10. Contents(r) = With(end, unique, C, e)
      BY <1>5, <2>5 DEF With
    <2> QED BY <1>1, <1>5, <2>6, <2>8, <2>9, <2>10
  <1> QED BY <1>3, <1>4, <1>5

\* f are the buffers after 0, 1, .. elements of es.
Goes(f, end, unique, d, es) ==
    /\ f[0] = d
    /\ \A n \in 1 .. Len(es) : f[n] = Add(end, unique, f[n - 1], es[n])

\* All on the way are tidy, and every push is safe if the first one is.
LEMMA StepsAreTidy ==
    ASSUME NEW end, NEW unique \in BOOLEAN, NEW d, Tidy(d), NEW es \in Seq(Elements),
           Safe(end, unique, d, es), NEW f, Goes(f, end, unique, d, es)
    PROVE  \A n \in 0 .. Len(es) :
              /\ Grown(end, d, f[n])
              /\ n > 0 => f[n].count > 0
              /\ ~unique => f[n].count = d.count + n
              /\ n < Len(es) => Fine(end, unique, f[n], es[n + 1])
  <1>1. PICK l \in Nat : l = Len(es)
    BY LenProperties
  <1>2. /\ f[0] = d
        /\ \A n \in 1 .. l : f[n] = Add(end, unique, f[n - 1], es[n])
    BY <1>1 DEF Goes
  <1>3. PICK m \in Nat : m = d.count
    BY ContentsAre DEF Tidy
  <1> DEFINE Good(n) == /\ Grown(end, d, f[n])
                        /\ n > 0 => f[n].count > 0
                        /\ ~unique => f[n].count = m + n
             S == {n \in 0 .. l : Good(n)}
  <1>4. 0 \in S
    <2>1. Grown(end, d, d)
      BY <1>3 DEF Grown
    <2> QED BY <1>2, <1>3, <2>1
  <1>5. ASSUME NEW n \in 0 .. l, n < l, Grown(end, d, f[n])
        PROVE  Fine(end, unique, f[n], es[n + 1])
    <2>1. PICK q, e : q = f[n] /\ e = es[n + 1]
      OBVIOUS
    <2>2. Grown(end, d, q) /\ n + 1 \in 1 .. l
      BY <1>5, <2>1
    <2>3. CASE q = d
      BY <1>1, <2>1, <2>2, <2>3 DEF Safe, Fine
    <2>4. CASE q # d /\ end # "front"
      <3>1. q.tail < Cap(q) /\ Layout(q)
        BY <2>2, <2>4 DEF Grown, Tidy
      <3>2. PICK c, t : c = Cap(q) /\ t = q.tail
        OBVIOUS
      <3>3. c \in Nat /\ t \in Nat /\ t < c
        BY <3>1, <3>2, LayoutFacts
      <3>4. q.tail # Cap(q)
        BY <3>2, <3>3
      <3> QED BY <2>1, <3>4 DEF PushBackPanics, Fine
    <2> QED BY <2>1, <2>3, <2>4 DEF Fine
  <1>6. ASSUME NEW n \in 1 .. l, n - 1 \in S PROVE n \in S
    <2>1. PICK q, r, e : q = f[n - 1] /\ r = f[n] /\ e = es[n]
      OBVIOUS
    <2>2. r = Add(end, unique, q, e) /\ e \in Elements
      BY <1>1, <1>2, <2>1, ElementOfSeq
    <2>3. /\ Grown(end, d, q) /\ Tidy(q)
          /\ ~unique => q.count = m + (n - 1)
      BY <1>6, <2>1 DEF Grown
    <2>4. Fine(end, unique, q, e)
      <3>1. n - 1 \in 0 .. l /\ n - 1 < l /\ (n - 1) + 1 = n
        OBVIOUS
      <3> QED BY <1>5, <2>1, <2>3, <3>1
    <2>5. /\ Grown(end, q, r) /\ r.count > 0
          /\ ~unique => r.count = q.count + 1
      <3>1. Tidy(q)
        BY <2>3
      <3> QED BY <2>2, <2>4, <3>1, AddIsTidy
    <2>6. r.count \in Nat /\ q.count \in Nat
      BY <2>3, <2>5, ContentsAre DEF Grown, Tidy
    <2>7. r.count >= d.count
      <3>1. q.count >= d.count /\ r.count >= q.count
        BY <2>3, <2>5 DEF Grown
      <3> QED BY <1>3, <2>6, <3>1
    <2>8. Grown(end, d, r)
      BY <2>3, <2>5, <2>7 DEF Grown
    <2>9. ~unique => r.count = m + n
      BY <2>3, <2>5
    <2> QED BY <2>1, <2>5, <2>8, <2>9
  <1>7. ASSUME NEW n \in 0 .. l PROVE Good(n)
    <2>1. S \in SUBSET Nat /\ \A k \in 1 .. n : k \in 1 .. l
      OBVIOUS
    <2>2. n \in S
      <3> HIDE DEF S
      <3> QED BY <1>4, <1>6, <2>1, Steadily
    <2> QED BY <2>2
  <1> QED BY <1>1, <1>3, <1>5, <1>7

\* All of them.
LEMMA AddedIsTidy ==
    ASSUME NEW end, NEW unique \in BOOLEAN, NEW d, Tidy(d), NEW es \in Seq(Elements),
           Safe(end, unique, d, es)
    PROVE  /\ Grown(end, d, Added(end, unique, d, es))
           /\ Len(es) > 0 => Added(end, unique, d, es).count > 0
           /\ ~unique => Added(end, unique, d, es).count = d.count + Len(es)
  <1>1. PICK l \in Nat : l = Len(es)
    BY LenProperties
  <1>2. PICK f : Goes(f, end, unique, d, es) /\ Added(end, unique, d, es) = f[l]
    BY <1>1, AddedIs DEF Goes
  <1>3. l \in 0 .. Len(es)
    BY <1>1
  <1>4. /\ Grown(end, d, f[l])
        /\ l > 0 => f[l].count > 0
        /\ ~unique => f[l].count = d.count + l
    BY <1>2, <1>3, StepsAreTidy
  <1> QED BY <1>1, <1>2, <1>4

-----------------------------------------------------------------------------
(***************************************************************************)
(* What LREM and LTRIM keep.                                               *)
(***************************************************************************)
\* The places up to j that are not in I.
Place(I, j) == Cardinality((1 .. j) \ I)

\* Counting the places up to j that are not in I meets every number on the way.
LEMMA Counting ==
    ASSUME NEW l \in Nat, NEW I \in SUBSET (1 .. l),
           NEW n \in Nat, n = Place(I, l), NEW i \in 1 .. n
    PROVE  \E j \in 1 .. l : j \notin I /\ Place(I, j) = i
  <1> DEFINE P(j) == (1 .. j) \ I
             B == {j \in 0 .. l : i <= Cardinality(P(j))}
  <1>1. \A j \in Nat : IsFiniteSet(P(j)) /\ Cardinality(P(j)) \in Nat
    <2>1. TAKE j \in Nat
    <2>2. IsFiniteSet(1 .. j)
      BY FS_Interval
    <2>3. IsFiniteSet(P(j))
      BY <2>2, FS_Difference
    <2> QED BY <2>3, FS_CardinalityType
  <1>2. Cardinality(P(0)) = 0
    <2>1. P(0) = {}
      OBVIOUS
    <2> QED BY <2>1, FS_EmptySet, Zenon
  <1>3. \A j \in Nat : /\ j + 1 \in I => P(j + 1) = P(j)
                       /\ j + 1 \notin I => P(j + 1) = P(j) \cup {j + 1} /\ j + 1 \notin P(j)
    <2>1. TAKE j \in Nat
    <2>2. 1 .. j + 1 = (1 .. j) \cup {j + 1} /\ j + 1 \notin 1 .. j
      OBVIOUS
    <2> QED BY <2>2
  <1>4. B \in SUBSET Nat /\ B # {}
    <2>1. l \in B
      BY DEF Place
    <2>2. B \in SUBSET Nat
      OBVIOUS
    <2> HIDE DEF B
    <2> QED BY <2>1, <2>2
  <1>5. PICK j \in B : \A k \in B : j <= k
    <2> HIDE DEF B
    <2> QED BY <1>4, Least
  <1>6. j \in 0 .. l /\ i <= Cardinality(P(j))
    OBVIOUS
  <1>7. j # 0
    BY <1>2, <1>6
  <1>8. PICK h \in Nat : j = h + 1
    <2>1. j - 1 \in Nat /\ j = (j - 1) + 1
      BY <1>6, <1>7
    <2> QED BY <2>1
  <1>9. Cardinality(P(h)) < i
    <2>1. h \in 0 .. l /\ ~ (j <= h)
      BY <1>6, <1>8
    <2>2. h \notin B
      BY <1>5, <2>1
    <2>3. ~ (i <= Cardinality(P(h)))
      BY <2>1, <2>2
    <2>4. PICK x \in Nat : x = Cardinality(P(h))
      BY <1>1
    <2> QED BY <2>3, <2>4
  <1>10. j \notin I
    <2>1. ASSUME j \in I PROVE FALSE
      <3>1. P(j) = P(h)
        BY <1>3, <1>8, <2>1
      <3>2. PICK x \in Nat : x = Cardinality(P(h))
        BY <1>1
      <3>3. i <= x /\ x < i
        BY <1>6, <1>9, <3>1, <3>2
      <3> QED BY <3>3
    <2> QED BY <2>1
  <1>11. Cardinality(P(j)) = Cardinality(P(h)) + 1
    <2>1. P(j) = P(h) \cup {j} /\ j \notin P(h)
      BY <1>3, <1>8, <1>10
    <2> HIDE DEF P
    <2> QED BY <1>1, <2>1, FS_AddElement
  <1>12. Cardinality(P(j)) = i
    <2>1. PICK x \in Nat : x = Cardinality(P(h))
      BY <1>1
    <2>2. x < i /\ i <= x + 1
      BY <1>6, <1>9, <1>11, <2>1
    <2> QED BY <1>11, <2>1, <2>2
  <1>13. j \in 1 .. l
    BY <1>6, <1>7
  <1>14. Place(I, j) = i
    BY <1>12 DEF Place
  <1> QED BY <1>10, <1>13, <1>14

\* What is left without some elements.
LEMMA WithoutIs ==
    ASSUME NEW s \in Seq(Elements), NEW I \in SUBSET (1 .. Len(s))
    PROVE  /\ Without(s, I) \in Seq(Elements)
           /\ Len(Without(s, I)) = Len(s) - Cardinality(I)
           /\ Cardinality(I) \in 0 .. Len(s)
           /\ I # {} => Cardinality(I) > 0
  <1>1. PICK l \in Nat : l = Len(s)
    BY LenProperties
  <1>2. IsFiniteSet(1 .. l) /\ Cardinality(1 .. l) = l
    <2>1. Cardinality(1 .. l) = IF 1 > l THEN 0 ELSE l - 1 + 1
      BY FS_Interval
    <2> QED BY <2>1, FS_Interval
  <1>3. IsFiniteSet(I) /\ Cardinality(I) \in Nat /\ Cardinality(I) <= l
    BY <1>1, <1>2, FS_Subset, FS_CardinalityType
  <1>4. PICK k \in Nat : k = Cardinality(I)
    BY <1>3
  <1>5. Cardinality((1 .. l) \ I) = l - k
    <2>1. Cardinality((1 .. l) \ I) = Cardinality(1 .. l) - Cardinality((1 .. l) \cap I)
      BY <1>2, FS_Difference
    <2>2. (1 .. l) \cap I = I
      BY <1>1
    <2> QED BY <1>2, <1>4, <2>1, <2>2
  <1>6. PICK w : w = Without(s, I)
    OBVIOUS
  <1>7. w = [i \in 1 .. l - k |-> s[CHOOSE j \in (1 .. l) \ I : Cardinality((1 .. j) \ I) = i]]
    BY <1>1, <1>4, <1>6 DEF Without
  <1>8. ASSUME NEW i \in 1 .. l - k PROVE w[i] \in Elements
    <2>1. PICK n \in Nat : n = Place(I, l) /\ i \in 1 .. n
      BY <1>3, <1>4, <1>5 DEF Place
    <2>2. \E j \in 1 .. l : j \notin I /\ Place(I, j) = i
      <3>1. I \in SUBSET (1 .. l)
        BY <1>1
      <3> QED BY <1>1, <2>1, <3>1, Counting
    <2>3. PICK j : j = CHOOSE x \in (1 .. l) \ I : Cardinality((1 .. x) \ I) = i
      OBVIOUS
    <2>4. j \in (1 .. l) \ I
      BY <2>2, <2>3 DEF Place
    <2>5. w[i] = s[j]
      BY <1>7, <2>3
    <2>6. j \in 1 .. Len(s)
      BY <1>1, <2>4
    <2> QED BY <2>5, <2>6, ElementOfSeq
  <1>9. l - k \in Nat
    BY <1>3, <1>4
  <1>10. w \in Seq(Elements) /\ Len(w) = l - k
    <2>1. PICK n \in Nat : n = l - k
      BY <1>9
    <2>2. DOMAIN w = 1 .. n /\ \A i \in 1 .. n : w[i] \in Elements
      BY <1>7, <1>8, <2>1
    <2>3. w = [i \in 1 .. n |-> w[i]]
      BY <1>7, <2>1, <2>2
    <2>4. PICK v : v = [i \in 1 .. n |-> w[i]]
      OBVIOUS
    <2>5. v \in Seq(Elements) /\ Len(v) = n
      BY <2>2, <2>4
    <2> QED BY <2>1, <2>3, <2>4, <2>5
  <1>11. I # {} => k > 0
    <2>1. Cardinality(I) = 0 <=> I = {}
      BY <1>3, FS_EmptySet
    <2>2. ASSUME I # {} PROVE k > 0
      <3>1. k # 0
        BY <1>4, <2>1, <2>2
      <3> QED BY <3>1
    <2> QED BY <2>2
  <1> QED BY <1>1, <1>3, <1>4, <1>6, <1>10, <1>11

\* LREM leaves the buffer as it is, or rebuilds it with fewer elements.
LEMMA RemoveIsTidy ==
    ASSUME NEW d, Tidy(d), NEW n \in Int, NEW e \in Elements
    PROVE  /\ Tidy(RemoveElement(d, n, e))
           /\ \/ RemoveElement(d, n, e) = d
              \/ RemoveElement(d, n, e).tail < Cap(RemoveElement(d, n, e))
           /\ \/ /\ Doomed(Contents(d), n, e) = {}
                 /\ RemoveElement(d, n, e) = d
              \/ Contents(RemoveElement(d, n, e)) = Without(Contents(d), Doomed(Contents(d), n, e))
  <1>1. PICK C, I, r : C = Contents(d) /\ I = Doomed(C, n, e) /\ r = RemoveElement(d, n, e)
    OBVIOUS
  <1>2. Layout(d) /\ C \in Seq(Elements) /\ Len(C) = d.count
    BY <1>1, ContentsAre DEF Tidy
  <1>3. PICK c, m : c = Cap(d) /\ m = d.count
    OBVIOUS
  <1>4. c \in Nat /\ m \in 0 .. c
    BY <1>2, <1>3, LayoutFacts
  <1>5. CASE I = {}
    BY <1>1, <1>5 DEF RemoveElement
  <1>6. CASE I # {}
    <2>1. PICK w : w = Without(C, I)
      OBVIOUS
    <2>2. I \in SUBSET (1 .. Len(C))
      BY <1>1 DEF Doomed
    <2>3. /\ w \in Seq(Elements) /\ Len(w) = m - Cardinality(I)
          /\ Cardinality(I) \in 0 .. m /\ Cardinality(I) > 0
      BY <1>2, <1>3, <1>6, <2>1, <2>2, WithoutIs
    <2>4. PICK k \in Nat : k = Cardinality(I)
      BY <2>3
    <2>5. Len(w) < c /\ Len(w) <= c
      BY <1>4, <2>3, <2>4
    <2>6. r = Rebuilt(d, w)
      BY <1>1, <1>6, <2>1 DEF RemoveElement
    <2>7. Tidy(r) /\ Cap(r) = c /\ r.tail = Len(w) /\ Contents(r) = w
      BY <1>3, <2>3, <2>5, <2>6, RebuiltIsTidy
    <2> QED BY <1>1, <2>1, <2>5, <2>7
  <1> QED BY <1>5, <1>6

\* LTRIM: the tail is no slot only if every slot is taken.
LEMMA TrimIsTidy ==
    ASSUME NEW d, Tidy(d), NEW start \in Int, NEW stop \in Int
    PROVE  /\ Tidy(Trim(d, start, stop))
           /\ Trim(d, start, stop).tail = Trim(d, start, stop).count
           /\ Contents(Trim(d, start, stop)) = Slice(d, start, stop)
  <1>1. PICK C, m, a, b, S : /\ C = Contents(d) /\ m = d.count
                             /\ a = RangeFirst(d, start) + 1 /\ b = RangeLast(d, stop) + 1
                             /\ S = SubSeq(C, a, b)
    OBVIOUS
  <1>2. Layout(d) /\ C \in Seq(Elements) /\ Len(C) = m /\ m \in Nat
    BY <1>1, ContentsAre DEF Tidy
  <1>3. m <= Cap(d) /\ Cap(d) \in Nat
    BY <1>1, <1>2, LayoutFacts
  <1>4. a \in Int /\ b \in Int /\ 1 <= a /\ b <= m
    BY <1>1, <1>2 DEF RangeFirst, RangeLast, FromEnd
  <1>5. \A i \in a .. b : C[i] \in Elements
    <2>1. \A i \in a .. b : i \in 1 .. Len(C)
      BY <1>2, <1>4
    <2> QED BY <1>2, <2>1, ElementOfSeq
  <1>6. S \in Seq(Elements) /\ Len(S) = IF a <= b THEN b - a + 1 ELSE 0
    BY <1>1, <1>4, <1>5, SubSeqProperties
  <1>7. Len(S) <= Cap(d)
    BY <1>2, <1>3, <1>4, <1>6
  <1>8. Trim(d, start, stop) = Rebuilt(d, S)
    BY <1>1 DEF Trim, Slice
  <1>9. S = Slice(d, start, stop)
    BY <1>1 DEF Slice
  <1> QED BY <1>6, <1>7, <1>8, <1>9, RebuiltIsTidy

-----------------------------------------------------------------------------
(***************************************************************************)
(* The inductive invariant.                                                *)
(***************************************************************************)
\* A buffer a list may have: tidy, not empty, and its tail is a slot unless an
\* LTRIM left none free, however the list has been pushed and popped since.
Sound(d, full) == /\ Tidy(d) /\ d.count > 0
                  /\ d.tail = Cap(d) => full

LInv ==
    /\ Exists => Sound(deque, filled)
    /\ memory \in Int /\ missed \in Int /\ refusals \in Nat /\ filled \in BOOLEAN
    /\ MemoryIsAccounted

\* A buffer is not NoList, and its size is a number.
LEMMA TidyFacts ==
    ASSUME NEW d, Tidy(d)
    PROVE  /\ d # NoList /\ MemoryUsage(d) \in Int
           /\ d.count \in Nat /\ d.count <= Cap(d) /\ Cap(d) \in Nat /\ d.tail \in Nat
           /\ Contents(d) \in Seq(Elements) /\ Len(Contents(d)) = d.count
  <1>1. Layout(d) /\ d \in Deques
    BY DEF Tidy, Layout
  <1>2. d # NoList
    BY <1>1, NoListAssumption
  <1>3. /\ Cap(d) \in Nat /\ d.content \in Int /\ d.count \in 0 .. Cap(d)
        /\ d.tail \in 0 .. Cap(d)
    BY <1>1, LayoutFacts
  <1>4. MemoryUsage(d) \in Int
    BY <1>3 DEF MemoryUsage
  <1> QED BY <1>1, <1>2, <1>3, <1>4, ContentsAre DEF Tidy

\* The buffer changes and the difference is accounted.
LEMMA UpdateKeeps ==
    ASSUME LInv, Exists, NEW d, Update(d), filled' \in BOOLEAN, Sound(d, filled')
    PROVE  LInv'
  <1>1. PICK q : q = deque
    OBVIOUS
  <1>2. PICK y, z : y = MemoryUsage(d) /\ z = MemoryUsage(q)
    OBVIOUS
  <1>3. y \in Int /\ z \in Int /\ d # NoList
    BY <1>1, <1>2, TidyFacts DEF LInv, Sound
  <1>4. deque' = d /\ memory' = memory + y - z /\ missed' = missed /\ refusals' = refusals
    BY <1>1, <1>2 DEF Update
  <1>5. memory \in Int /\ missed \in Int /\ memory + missed = Overhead + z /\ Overhead \in Nat
    BY <1>1, <1>2, SizesAssumption DEF LInv, MemoryIsAccounted
  <1>6. memory' \in Int /\ memory' + missed' = Overhead + y
    BY <1>3, <1>4, <1>5
  <1>7. MemoryIsAccounted'
    BY <1>2, <1>3, <1>4, <1>6 DEF MemoryIsAccounted, Exists
  <1> QED BY <1>3, <1>4, <1>6, <1>7 DEF LInv, Exists

\* A new list.
LEMMA CreateKeeps ==
    ASSUME LInv, ~Exists, NEW d, Create(d), Sound(d, FALSE)
    PROVE  LInv'
  <1>1. PICK y \in Int : y = MemoryUsage(d)
    BY TidyFacts DEF Sound
  <1>2. d # NoList
    BY TidyFacts DEF Sound
  <1>3. /\ deque' = d /\ memory' = memory + Overhead + y /\ missed' = missed
        /\ refusals' = refusals /\ filled' = FALSE
    BY <1>1 DEF Create
  <1>4. memory \in Int /\ missed \in Int /\ memory + missed = 0 /\ Overhead \in Nat
    BY SizesAssumption DEF LInv, MemoryIsAccounted
  <1>5. memory' \in Int /\ memory' + missed' = Overhead + y
    BY <1>1, <1>3, <1>4
  <1>6. MemoryIsAccounted'
    BY <1>1, <1>2, <1>3, <1>5 DEF MemoryIsAccounted, Exists
  <1> QED BY <1>2, <1>3, <1>5, <1>6 DEF LInv, Exists

\* A list deleted takes all it had accounted with it.
LEMMA DropKeeps ==
    ASSUME LInv, Exists, Drop
    PROVE  LInv'
  <1>1. PICK q : q = deque
    OBVIOUS
  <1>2. PICK z \in Int : z = MemoryUsage(q)
    BY <1>1, TidyFacts DEF LInv, Sound
  <1>3. /\ deque' = NoList /\ memory' = memory - (Overhead + z) /\ missed' = missed
        /\ refusals' = refusals /\ filled' = FALSE
    BY <1>1, <1>2 DEF Drop
  <1>4. memory \in Int /\ missed \in Int /\ memory + missed = Overhead + z /\ Overhead \in Nat
    BY <1>1, <1>2, SizesAssumption DEF LInv, MemoryIsAccounted
  <1>5. memory' \in Int /\ memory' + missed' = 0
    BY <1>2, <1>3, <1>4
  <1>6. MemoryIsAccounted'
    BY <1>3, <1>5 DEF MemoryIsAccounted, Exists
  <1> QED BY <1>3, <1>5, <1>6 DEF LInv, Exists

LEMMA UpdateOrDropKeeps ==
    ASSUME LInv, Exists, NEW d, Tidy(d), d.tail = Cap(d) => filled, UpdateOrDrop(d)
    PROVE  LInv'
  <1>1. CASE d.count = 0
    BY <1>1, DropKeeps DEF UpdateOrDrop
  <1>2. CASE d.count # 0
    <2>1. d.count > 0
      BY <1>2, TidyFacts
    <2>2. Update(d) /\ filled' = filled
      BY <1>2 DEF UpdateOrDrop
    <2>3. filled' \in BOOLEAN /\ Sound(d, filled')
      BY <2>1, <2>2 DEF LInv, Sound
    <2> QED BY <2>2, <2>3, UpdateKeeps
  <1> QED BY <1>1, <1>2

\* A push that is refused leaves a buffer that is as sound.
LEMMA RefuseKeeps ==
    ASSUME LInv, Exists, NEW d, Sound(d, filled), Refuse(d)
    PROVE  LInv'
  <1>1. PICK q : q = deque
    OBVIOUS
  <1>2. PICK y, z : y = MemoryUsage(d) /\ z = MemoryUsage(q)
    OBVIOUS
  <1>3. y \in Int /\ z \in Int /\ d # NoList
    BY <1>1, <1>2, TidyFacts DEF LInv, Sound
  <1>4. /\ deque' = d /\ memory' = memory /\ missed' = missed + y - z
        /\ refusals' = refusals + 1 /\ filled' = filled
    BY <1>1, <1>2 DEF Refuse
  <1>5. /\ memory \in Int /\ missed \in Int /\ memory + missed = Overhead + z
        /\ Overhead \in Nat /\ refusals \in Nat
    BY <1>1, <1>2, SizesAssumption DEF LInv, MemoryIsAccounted
  <1>6. missed' \in Int /\ memory' + missed' = Overhead + y /\ refusals' \in Nat
    BY <1>3, <1>4, <1>5
  <1>7. MemoryIsAccounted'
    BY <1>2, <1>3, <1>4, <1>6 DEF MemoryIsAccounted, Exists
  <1> QED BY <1>3, <1>4, <1>5, <1>6, <1>7 DEF LInv, Exists

LEMMA NothingKeeps ==
    ASSUME LInv, Nothing
    PROVE  LInv'
  BY DEF LInv, Nothing, MemoryIsAccounted, Exists

LEMMA PushInPlaceKeeps ==
    ASSUME LInv, Exists, NEW pushed, NEW undone, Sound(pushed, filled), Sound(undone, filled),
           PushInPlace(pushed, undone)
    PROVE  LInv'
  <1>1. CASE TooLarge(pushed)
    BY <1>1, RefuseKeeps DEF PushInPlace
  <1>2. CASE ~TooLarge(pushed)
    <2>1. Update(pushed) /\ filled' = filled
      BY <1>2 DEF PushInPlace
    <2>2. filled' \in BOOLEAN /\ Sound(pushed, filled')
      BY <2>1 DEF LInv
    <2> QED BY <2>1, <2>2, UpdateKeeps
  <1> QED BY <1>1, <1>2

LEMMA PushNewKeeps ==
    ASSUME LInv, ~Exists, NEW pushed, Sound(pushed, FALSE), PushNew(pushed)
    PROVE  LInv'
  <1>1. CASE TooLarge(pushed)
    BY <1>1, NothingKeeps DEF PushNew
  <1>2. CASE ~TooLarge(pushed)
    BY <1>2, CreateKeeps DEF PushNew
  <1> QED BY <1>1, <1>2

-----------------------------------------------------------------------------
\* What a push brings, in either order.
LEMMA ReverseIs ==
    ASSUME NEW S, NEW s \in Seq(S)
    PROVE  /\ Reverse(s) \in Seq(S) /\ Len(Reverse(s)) = Len(s)
           /\ \A i \in 1 .. Len(s) : Reverse(s)[i] = s[(Len(s) - i) + 1]
  <1>1. PICK l \in Nat : l = Len(s)
    BY LenProperties
  <1>2. PICK r : r = [i \in 1 .. l |-> s[(l - i) + 1]]
    OBVIOUS
  <1>3. ASSUME NEW i \in 1 .. l PROVE r[i] \in S
    <2>1. (l - i) + 1 \in 1 .. Len(s)
      BY <1>1
    <2>2. s[(l - i) + 1] \in S
      BY <2>1, ElementOfSeq
    <2> QED BY <1>2, <2>2
  <1>4. r \in Seq(S) /\ Len(r) = l
    BY <1>1, <1>2, <1>3
  <1>5. r = Reverse(s)
    BY <1>1, <1>2 DEF Reverse
  <1> QED BY <1>1, <1>2, <1>4, <1>5

LEMMA BatchesAre ==
    ASSUME NEW es \in Batches
    PROVE  es \in Seq(Elements) /\ Len(es) \in Nat /\ Len(es) > 0
  <1>1. CASE es \in {<<e>> : e \in Elements}
    <2>1. PICK e \in Elements : es = <<e>>
      BY <1>1
    <2> QED BY <2>1
  <1>2. CASE es \in {<<e, f>> : e, f \in Elements}
    <2>1. PICK e \in Elements, f \in Elements : es = <<e, f>>
      BY <1>2
    <2> QED BY <2>1
  <1> QED BY <1>1, <1>2 DEF Batches

\* Pushes make a sound buffer of a sound one.
LEMMA AllFrontIsSound ==
    ASSUME NEW d, Tidy(d), NEW full, d.tail = Cap(d) => full, NEW es \in Batches,
           NEW unique \in BOOLEAN
    PROVE  /\ Sound(AllFront(es, d, unique), full)
           /\ ~unique => AllFront(es, d, unique).count = d.count + Len(es)
  <1>1. PICK rs, r : rs = Reverse(es) /\ r = AllFront(es, d, unique)
    OBVIOUS
  <1>2. rs \in Seq(Elements) /\ Len(rs) = Len(es) /\ Len(rs) > 0
    BY <1>1, BatchesAre, ReverseIs
  <1>3. r = Added("front", unique, d, rs)
    BY <1>1 DEF AllFront
  <1>4. Safe("front", unique, d, rs)
    BY DEF Safe
  <1>5. /\ Grown("front", d, r) /\ r.count > 0
        /\ ~unique => r.count = d.count + Len(rs)
    BY <1>2, <1>3, <1>4, AddedIsTidy
  <1> QED BY <1>1, <1>2, <1>5 DEF Sound, Grown

LEMMA AllBackIsSound ==
    ASSUME NEW d, Tidy(d), NEW full, d.tail = Cap(d) => full, NEW es \in Batches,
           NEW unique \in BOOLEAN, Safe("back", unique, d, es)
    PROVE  /\ Sound(AllBack(d, es, unique), full)
           /\ ~unique => AllBack(d, es, unique).count = d.count + Len(es)
  <1>1. PICK r : r = AllBack(d, es, unique)
    OBVIOUS
  <1>2. es \in Seq(Elements) /\ Len(es) > 0
    BY BatchesAre
  <1>3. r = Added("back", unique, d, es)
    BY <1>1 DEF AllBack
  <1>4. /\ Grown("back", d, r) /\ r.count > 0
        /\ ~unique => r.count = d.count + Len(es)
    BY <1>2, <1>3, AddedIsTidy
  <1> QED BY <1>1, <1>2, <1>4 DEF Sound, Grown

-----------------------------------------------------------------------------
(***************************************************************************)
(* Every command keeps it.                                                 *)
(***************************************************************************)
LEMMA LPushKeeps == ASSUME LInv, NEW es \in Batches, LPush(es) PROVE LInv'
  <1>1. CASE Exists
    <2>1. PICK q, full, p, u : /\ q = deque /\ full = filled
                               /\ p = AllFront(es, deque, FALSE) /\ u = PopFront(p, Len(es))
      OBVIOUS
    <2>2. PushInPlace(p, u)
      BY <1>1, <2>1 DEF LPush
    <2>3. Sound(q, full) /\ q.count \in Nat /\ q.count > 0
      BY <1>1, <2>1, TidyFacts DEF LInv, Sound
    <2>4. Sound(p, full) /\ p.count = q.count + Len(es)
      BY <2>1, <2>3, AllFrontIsSound DEF Sound
    <2>5. PICK l \in Nat : l = Len(es)
      BY BatchesAre
    <2>6. Tidy(p) /\ l \in 0 .. p.count /\ p.count - l = q.count
      BY <2>3, <2>4, <2>5 DEF Sound
    <2>7. /\ Tidy(u) /\ u.count = p.count - l /\ Cap(u) = Cap(p) /\ u.tail = p.tail
      BY <2>1, <2>5, <2>6, PopFrontIsTidy
    <2>8. Sound(u, full)
      BY <2>3, <2>4, <2>6, <2>7 DEF Sound
    <2> QED BY <1>1, <2>1, <2>2, <2>4, <2>8, PushInPlaceKeeps
  <1>2. CASE ~Exists
    <2>1. PICK p : p = AllFront(es, NewDeque, FALSE)
      OBVIOUS
    <2>2. PushNew(p)
      BY <1>2, <2>1 DEF LPush
    <2>3. Sound(p, FALSE)
      <3>1. Tidy(NewDeque) /\ NewDeque.tail # Cap(NewDeque)
        BY NewIsTidy, TidyFacts
      <3> QED BY <2>1, <3>1, AllFrontIsSound
    <2> QED BY <1>2, <2>2, <2>3, PushNewKeeps
  <1> QED BY <1>1, <1>2

LEMMA RPushKeeps == ASSUME LInv, NEW es \in Batches, RPush(es) PROVE LInv'
  <1>1. CASE Exists /\ ~PushBackPanics(deque)
    <2>1. PICK q, full, p, u : /\ q = deque /\ full = filled
                               /\ p = AllBack(deque, es, FALSE) /\ u = PopBack(p, Len(es))
      OBVIOUS
    <2>2. PushInPlace(p, u)
      BY <1>1, <2>1 DEF RPush
    <2>3. Sound(q, full) /\ q.count \in Nat /\ q.count > 0 /\ ~PushBackPanics(q)
      BY <1>1, <2>1, TidyFacts DEF LInv, Sound
    <2>4. Sound(p, full) /\ p.count = q.count + Len(es)
      <3>1. Safe("back", FALSE, q, es)
        BY <2>3 DEF Safe
      <3> QED BY <2>1, <2>3, <3>1, AllBackIsSound DEF Sound
    <2>5. PICK l \in Nat : l = Len(es) /\ l > 0
      BY BatchesAre
    <2>6. Tidy(p) /\ l \in 1 .. p.count /\ p.count - l = q.count
      BY <2>3, <2>4, <2>5 DEF Sound
    <2>7. /\ Tidy(u) /\ u.count = p.count - l /\ Cap(u) = Cap(p) /\ u.tail < Cap(p)
      BY <2>1, <2>5, <2>6, PopBackIsTidy
    <2>8. u.tail # Cap(u)
      <3>1. PICK c, t : c = Cap(u) /\ t = u.tail
        OBVIOUS
      <3>2. c \in Nat /\ t \in Nat /\ t < c
        BY <2>7, <3>1, TidyFacts
      <3> QED BY <3>1, <3>2
    <2>9. Sound(u, full)
      BY <2>3, <2>6, <2>7, <2>8 DEF Sound
    <2> QED BY <1>1, <2>1, <2>2, <2>4, <2>9, PushInPlaceKeeps
  <1>2. CASE Exists /\ PushBackPanics(deque)
    BY <1>2, NothingKeeps DEF RPush
  <1>3. CASE ~Exists
    <2>1. PICK p : p = AllBack(NewDeque, es, FALSE)
      OBVIOUS
    <2>2. PushNew(p)
      BY <1>3, <2>1 DEF RPush
    <2>3. Sound(p, FALSE)
      <3>1. Tidy(NewDeque) /\ NewDeque.tail # Cap(NewDeque)
        BY NewIsTidy, TidyFacts
      <3>2. Safe("back", FALSE, NewDeque, es)
        BY <3>1 DEF Safe, PushBackPanics
      <3> QED BY <2>1, <3>1, <3>2, AllBackIsSound
    <2> QED BY <1>3, <2>2, <2>3, PushNewKeeps
  <1> QED BY <1>1, <1>2, <1>3

LEMMA LPushUniqueKeeps == ASSUME LInv, NEW es \in Batches, LPushUnique(es) PROVE LInv'
  <1>1. CASE Exists
    <2>1. PICK q, full, p : q = deque /\ full = filled /\ p = AllFront(es, deque, TRUE)
      OBVIOUS
    <2>2. PushInPlace(p, p)
      BY <1>1, <2>1 DEF LPushUnique
    <2>3. Sound(q, full)
      BY <1>1, <2>1 DEF LInv
    <2>4. Sound(p, full)
      BY <2>1, <2>3, AllFrontIsSound DEF Sound
    <2> QED BY <1>1, <2>1, <2>2, <2>4, PushInPlaceKeeps
  <1>2. CASE ~Exists
    <2>1. PICK p : p = AllFront(es, NewDeque, TRUE)
      OBVIOUS
    <2>2. PushNew(p)
      BY <1>2, <2>1 DEF LPushUnique
    <2>3. Sound(p, FALSE)
      <3>1. Tidy(NewDeque) /\ NewDeque.tail # Cap(NewDeque)
        BY NewIsTidy, TidyFacts
      <3> QED BY <2>1, <3>1, AllFrontIsSound
    <2> QED BY <1>2, <2>2, <2>3, PushNewKeeps
  <1> QED BY <1>1, <1>2

LEMMA RPushUniqueKeeps == ASSUME LInv, NEW es \in Batches, RPushUnique(es) PROVE LInv'
  <1>1. CASE Exists /\ PushBackPanics(deque) /\ ~(ToSet(es) \subseteq ToSet(Held))
    BY <1>1, NothingKeeps DEF RPushUnique
  <1>2. CASE Exists /\ ~(PushBackPanics(deque) /\ ~(ToSet(es) \subseteq ToSet(Held)))
    <2>1. PICK q, full, p : q = deque /\ full = filled /\ p = AllBack(deque, es, TRUE)
      OBVIOUS
    <2>2. PushInPlace(p, p)
      BY <1>2, <2>1 DEF RPushUnique
    <2>3. Sound(q, full)
      BY <1>2, <2>1 DEF LInv
    <2>4. Safe("back", TRUE, q, es)
      <3>1. CASE ~PushBackPanics(q)
        BY <3>1 DEF Safe
      <3>2. CASE PushBackPanics(q)
        <4>1. PICK C : C = Contents(q)
          OBVIOUS
        <4>2. ToSet(es) \subseteq ToSet(C)
          BY <1>2, <2>1, <3>2, <4>1 DEF Held
        <4>3. es \in Seq(Elements) /\ C \in Seq(Elements)
          BY <2>3, <4>1, BatchesAre, TidyFacts DEF Sound
        <4>4. DOMAIN es = 1 .. Len(es) /\ DOMAIN C = 1 .. Len(C)
          BY <4>3, LenProperties
        <4>5. ASSUME NEW i \in 1 .. Len(es) PROVE Contains(C, es[i])
          <5>1. es[i] \in ToSet(C)
            BY <4>2, <4>4 DEF ToSet
          <5> QED BY <4>4, <5>1 DEF ToSet, Contains
        <4> QED BY <4>1, <4>5 DEF Safe
      <3> QED BY <3>1, <3>2
    <2>5. Sound(p, full)
      BY <2>1, <2>3, <2>4, AllBackIsSound DEF Sound
    <2> QED BY <1>2, <2>1, <2>2, <2>5, PushInPlaceKeeps
  <1>3. CASE ~Exists
    <2>1. PICK p : p = AllBack(NewDeque, es, TRUE)
      OBVIOUS
    <2>2. PushNew(p)
      BY <1>3, <2>1 DEF RPushUnique
    <2>3. Sound(p, FALSE)
      <3>1. Tidy(NewDeque) /\ NewDeque.tail # Cap(NewDeque)
        BY NewIsTidy, TidyFacts
      <3>2. Safe("back", TRUE, NewDeque, es)
        BY <3>1 DEF Safe, PushBackPanics
      <3> QED BY <2>1, <3>1, <3>2, AllBackIsSound
    <2> QED BY <1>3, <2>2, <2>3, PushNewKeeps
  <1> QED BY <1>1, <1>2, <1>3

\* How many elements a pop takes.
LEMMA PoppedIs ==
    ASSUME LInv, Exists, NEW n \in Nat
    PROVE  Popped(n) \in 1 .. deque.count
  <1>1. PICK m \in Nat : m = deque.count /\ m > 0 /\ Len(Contents(deque)) = m
    BY TidyFacts DEF LInv, Sound
  <1>2. Len(Held) = m
    BY <1>1 DEF Held
  <1>3. Popped(n) = IF n = 0 THEN (IF 1 > m THEN m ELSE 1) ELSE (IF n > m THEN m ELSE n)
    BY <1>2 DEF Popped
  <1> QED BY <1>1, <1>3

LEMMA LPopKeeps == ASSUME LInv, NEW n \in Int, LPop(n) PROVE LInv'
  <1>1. n \in Nat
    BY DEF LPop
  <1>2. CASE Exists
    <2>1. PICK q, full, k, u : /\ q = deque /\ full = filled /\ k = Popped(n)
                               /\ u = PopFront(q, k)
      OBVIOUS
    <2>2. UpdateOrDrop(u)
      BY <1>2, <2>1 DEF LPop
    <2>3. Sound(q, full) /\ q.count \in Nat /\ k \in 1 .. q.count
      BY <1>1, <1>2, <2>1, PoppedIs, TidyFacts DEF LInv, Sound
    <2>4. k \in 0 .. q.count
      BY <2>3
    <2>5. Tidy(u) /\ Cap(u) = Cap(q) /\ u.tail = q.tail
      BY <2>1, <2>3, <2>4, PopFrontIsTidy DEF Sound
    <2>6. u.tail = Cap(u) => full
      BY <2>3, <2>5 DEF Sound
    <2> QED BY <1>2, <2>1, <2>2, <2>5, <2>6, UpdateOrDropKeeps
  <1>3. CASE ~Exists
    BY <1>3, NothingKeeps DEF LPop
  <1> QED BY <1>2, <1>3

LEMMA RPopKeeps == ASSUME LInv, NEW n \in Int, RPop(n) PROVE LInv'
  <1>1. n \in Nat
    BY DEF RPop
  <1>2. CASE Exists
    <2>1. PICK q, full, k, u : /\ q = deque /\ full = filled /\ k = Popped(n)
                               /\ u = PopBack(q, k)
      OBVIOUS
    <2>2. UpdateOrDrop(u)
      BY <1>2, <2>1 DEF RPop
    <2>3. Sound(q, full) /\ q.count \in Nat /\ k \in 1 .. q.count
      BY <1>1, <1>2, <2>1, PoppedIs, TidyFacts DEF LInv, Sound
    <2>4. Tidy(u) /\ Cap(u) = Cap(q) /\ u.tail < Cap(q)
      BY <2>1, <2>3, PopBackIsTidy DEF Sound
    <2>5. u.tail # Cap(u)
      <3>1. PICK c, t : c = Cap(u) /\ t = u.tail
        OBVIOUS
      <3>2. c \in Nat /\ t \in Nat /\ t < c
        BY <2>4, <3>1, TidyFacts
      <3> QED BY <3>1, <3>2
    <2> QED BY <1>2, <2>2, <2>4, <2>5, UpdateOrDropKeeps
  <1>3. CASE ~Exists
    BY <1>3, NothingKeeps DEF RPop
  <1> QED BY <1>2, <1>3

LEMMA LSetKeeps == ASSUME LInv, NEW i \in Int, NEW e \in Elements, LSet(i, e) PROVE LInv'
  <1>1. CASE Exists /\ FromEnd(deque, i) \in 0 .. deque.count - 1
    <2>1. PICK q, full, k, u : /\ q = deque /\ full = filled /\ k = FromEnd(q, i)
                               /\ u = SetAt(q, k, e)
      OBVIOUS
    <2>2. Update(u) /\ filled' = full
      BY <1>1, <2>1 DEF LSet
    <2>3. Sound(q, full) /\ full \in BOOLEAN /\ k \in 0 .. q.count - 1
      BY <1>1, <2>1 DEF LInv
    <2>4. Tidy(u) /\ u.count = q.count /\ u.tail = q.tail /\ Cap(u) = Cap(q)
      BY <2>1, <2>3, SetIsTidy DEF Sound
    <2>5. Sound(u, full)
      BY <2>3, <2>4 DEF Sound
    <2> QED BY <1>1, <2>2, <2>3, <2>5, UpdateKeeps
  <1>2. CASE ~(Exists /\ FromEnd(deque, i) \in 0 .. deque.count - 1)
    BY <1>2, NothingKeeps DEF LSet
  <1> QED BY <1>1, <1>2

LEMMA LRemKeeps == ASSUME LInv, NEW n \in Int, NEW e \in Elements, LRem(n, e) PROVE LInv'
  <1>1. CASE Exists
    <2>1. PICK q, full, u : q = deque /\ full = filled /\ u = RemoveElement(q, n, e)
      OBVIOUS
    <2>2. UpdateOrDrop(u)
      BY <1>1, <2>1 DEF LRem
    <2>3. Sound(q, full)
      BY <1>1, <2>1 DEF LInv
    <2>4. Tidy(u) /\ (u = q \/ u.tail < Cap(u))
      BY <2>1, <2>3, RemoveIsTidy DEF Sound
    <2>5. u.tail = Cap(u) => full
      <3>1. PICK c, t : c = Cap(u) /\ t = u.tail
        OBVIOUS
      <3>2. c \in Nat /\ t \in Nat /\ (u = q \/ t < c)
        BY <2>4, <3>1, TidyFacts
      <3>3. t = c => u = q
        BY <3>2
      <3> QED BY <2>3, <3>1, <3>3 DEF Sound
    <2> QED BY <1>1, <2>1, <2>2, <2>4, <2>5, UpdateOrDropKeeps
  <1>2. CASE ~Exists
    BY <1>2, NothingKeeps DEF LRem
  <1> QED BY <1>1, <1>2

LEMMA LTrimKeeps ==
    ASSUME LInv, NEW start \in Int, NEW stop \in Int, LTrim(start, stop)
    PROVE  LInv'
  <1>1. CASE Exists
    <2>1. PICK q, u : q = deque /\ u = Trim(q, start, stop)
      OBVIOUS
    <2>2. Tidy(q)
      BY <1>1, <2>1 DEF LInv, Sound
    <2>3. Tidy(u) /\ u.tail = u.count /\ u.count \in Nat
      BY <2>1, <2>2, TrimIsTidy, TidyFacts
    <2>4. CASE u.count = 0
      <3>1. Drop
        BY <1>1, <2>1, <2>4 DEF LTrim
      <3> QED BY <1>1, <3>1, DropKeeps
    <2>5. CASE u.count # 0
      <3>1. Update(u) /\ filled' = (u.count = Cap(u))
        BY <1>1, <2>1, <2>5 DEF LTrim
      <3>2. u.count > 0
        BY <2>3, <2>5
      <3>3. filled' \in BOOLEAN
        BY <3>1, Zenon
      <3>4. u.tail = Cap(u) => filled'
        BY <2>3, <3>1
      <3>5. Sound(u, filled')
        BY <2>3, <3>2, <3>4 DEF Sound
      <3> QED BY <1>1, <3>1, <3>3, <3>5, UpdateKeeps
    <2> QED BY <2>4, <2>5
  <1>2. CASE ~Exists
    BY <1>2, NothingKeeps DEF LTrim
  <1> QED BY <1>1, <1>2

-----------------------------------------------------------------------------
(***************************************************************************)
(* The list is always in a buffer that holds it, and the counters hold     *)
(* what it takes (LInv is inductive).                                      *)
(***************************************************************************)
THEOREM ListsStaySound == Spec => []LInv
  <1>1. Init => LInv
    <2> SUFFICES ASSUME Init PROVE LInv
      OBVIOUS
    <2>1. ~Exists /\ memory = 0 /\ missed = 0 /\ refusals = 0 /\ filled = FALSE
      BY DEF Init, Exists
    <2>2. memory + missed = 0
      BY <2>1
    <2>3. MemoryIsAccounted
      BY <2>1, <2>2 DEF MemoryIsAccounted
    <2>4. memory \in Int /\ missed \in Int /\ refusals \in Nat
      BY <2>1
    <2>5. filled \in BOOLEAN
      BY <2>1, Zenon
    <2> QED BY <2>1, <2>3, <2>4, <2>5 DEF LInv
  <1>2. LInv /\ [Next]_vars => LInv'
    <2> SUFFICES ASSUME LInv, [Next]_vars PROVE LInv'
      OBVIOUS
    <2>1. \A n \in Indices : n \in Int
      BY SizesAssumption DEF Indices
    <2>2. ASSUME NEW es \in Batches, LPush(es) \/ RPush(es) \/ LPushUnique(es) \/ RPushUnique(es)
          PROVE  LInv'
      BY <2>2, LPushKeeps, RPushKeeps, LPushUniqueKeeps, RPushUniqueKeeps
    <2>3. CASE PushX
      BY <2>3, NothingKeeps DEF PushX
    <2>4. ASSUME NEW n \in Indices, LPop(n) \/ RPop(n)
          PROVE  LInv'
      BY <2>1, <2>4, LPopKeeps, RPopKeeps
    <2>5. ASSUME NEW n \in Indices, NEW e \in Elements, LSet(n, e) \/ LRem(n, e)
          PROVE  LInv'
      BY <2>1, <2>5, LSetKeeps, LRemKeeps
    <2>6. ASSUME NEW n \in Indices, NEW stop \in Indices, LTrim(n, stop)
          PROVE  LInv'
      BY <2>1, <2>6, LTrimKeeps
    <2>7. ASSUME NEW n \in Indices, NEW stop \in Indices, LRange(n, stop)
          PROVE  LInv'
      BY <2>7, NothingKeeps DEF LRange
    <2>8. ASSUME NEW n \in Indices, LIndex(n)
          PROVE  LInv'
      BY <2>8, NothingKeeps DEF LIndex
    <2>9. CASE Delete
      <3>1. CASE Exists /\ Drop
        BY <3>1, DropKeeps
      <3>2. CASE ~Exists /\ Nothing
        BY <3>2, NothingKeeps
      <3> QED BY <2>9, <3>1, <3>2 DEF Delete
    <2>10. CASE LLen
      BY <2>10, NothingKeeps DEF LLen
    <2>11. CASE UNCHANGED vars
      BY <2>11 DEF vars, LInv, MemoryIsAccounted, Exists
    <2> QED BY <2>2, <2>3, <2>4, <2>5, <2>6, <2>7, <2>8, <2>9, <2>10, <2>11 DEF Next
  <1> QED BY <1>1, <1>2, PTL DEF Spec

(***************************************************************************)
(* The buffer of a list that exists is well formed and not empty           *)
(* (deque.go; list_operations.go:230).                                     *)
(***************************************************************************)
THEOREM BuffersAreWellFormed == Spec => []TypeOK
  <1>1. LInv => TypeOK
    <2> SUFFICES ASSUME LInv PROVE TypeOK
      OBVIOUS
    <2>1. PICK q : q = deque
      OBVIOUS
    <2>2. Exists => WellFormed(q) /\ q.count > 0
      BY <2>1, WellFormedIsTidy DEF LInv, Sound
    <2>3. {memory, missed} \subseteq Int /\ refusals \in Nat /\ filled \in BOOLEAN
      BY DEF LInv
    <2> QED BY <2>1, <2>2, <2>3 DEF TypeOK
  <1> QED BY <1>1, ListsStaySound, PTL

(***************************************************************************)
(* The counters hold what the list takes, but for what refused pushes have *)
(* taken (store.go:496-499).                                               *)
(***************************************************************************)
THEOREM MemoryIsCounted == Spec => []MemoryIsAccounted
  <1>1. LInv => MemoryIsAccounted
    BY DEF LInv
  <1> QED BY <1>1, ListsStaySound, PTL

(***************************************************************************)
(* Only an LTRIM that left no slot free lets a push to the back panic      *)
(* (deque.go:352-353).                                                     *)
(***************************************************************************)
THEOREM PanicsNeedATrim == Spec => []PanicsOnlyOnceFilled
  <1>1. LInv => PanicsOnlyOnceFilled
    BY DEF LInv, Sound, PanicsOnlyOnceFilled, PushBackPanics
  <1> QED BY <1>1, ListsStaySound, PTL

-----------------------------------------------------------------------------
(***************************************************************************)
(* The commands implement AbstractList: what they do to the list that      *)
(* clients see, which is what the buffer holds.                            *)
(***************************************************************************)
\* The list now.
LEMMA HeldIs ==
    ASSUME LInv
    PROVE  /\ Held \in Seq(Elements) /\ Len(Held) \in Nat
           /\ Exists => /\ Tidy(deque) /\ Held = Contents(deque)
                        /\ Len(Held) = deque.count /\ Len(Held) > 0
           /\ ~Exists => Held = <<>> /\ Len(Held) = 0
  <1>1. CASE Exists
    BY <1>1, TidyFacts DEF LInv, Sound, Held
  <1>2. CASE ~Exists
    <2>1. <<>> \in Seq(Elements) /\ Len(<<>>) = 0
      OBVIOUS
    <2> QED BY <1>2, <2>1 DEF Held
  <1> QED BY <1>1, <1>2

\* The list in a new buffer.
LEMMA HeldBecomes ==
    ASSUME NEW d, Tidy(d), deque' = d PROVE Held' = Contents(d)
  BY TidyFacts DEF Held, Exists

LEMMA NothingHeld == ASSUME Nothing PROVE Held' = Held
  BY DEF Nothing, Held, Exists

\* A list that becomes empty is deleted, and no list is an empty one.
LEMMA UpdateOrDropHeld ==
    ASSUME NEW d, Tidy(d), UpdateOrDrop(d) PROVE Held' = Contents(d)
  <1>1. CASE d.count = 0
    <2>1. Held' = <<>>
      BY <1>1 DEF UpdateOrDrop, Drop, Held, Exists
    <2>2. Contents(d) \in Seq(Elements) /\ Len(Contents(d)) = 0
      BY <1>1, TidyFacts
    <2>3. Contents(d) = <<>>
      BY <2>2, EmptySeq
    <2> QED BY <2>1, <2>3
  <1>2. CASE d.count # 0
    <2>1. deque' = d
      BY <1>2 DEF UpdateOrDrop, Update
    <2> QED BY <2>1, HeldBecomes
  <1> QED BY <1>1, <1>2

\* A push is answered with the length, or refused.
LEMMA PushInPlaceHeld ==
    ASSUME NEW pushed, Tidy(pushed), NEW undone, Tidy(undone), PushInPlace(pushed, undone)
    PROVE  \/ Held' = Contents(pushed) /\ answer' = Num(Len(Held'))
           \/ Held' = Contents(undone) /\ answer' = Refused /\ SizeLimit > 0
  <1>1. CASE TooLarge(pushed)
    <2>1. deque' = undone /\ answer' = Refused
      BY <1>1 DEF PushInPlace, Refuse, Answers
    <2>2. SizeLimit > 0
      BY <1>1 DEF TooLarge
    <2> QED BY <2>1, <2>2, HeldBecomes
  <1>2. CASE ~TooLarge(pushed)
    <2>1. deque' = pushed /\ answer' = Num(pushed.count)
      BY <1>2 DEF PushInPlace, Update, Answers
    <2>2. Held' = Contents(pushed)
      BY <2>1, HeldBecomes
    <2>3. Len(Contents(pushed)) = pushed.count
      BY TidyFacts
    <2> QED BY <2>1, <2>2, <2>3
  <1> QED BY <1>1, <1>2

LEMMA PushNewHeld ==
    ASSUME NEW pushed, Tidy(pushed), PushNew(pushed)
    PROVE  \/ Held' = Contents(pushed) /\ answer' = Num(Len(Held'))
           \/ Held' = Held /\ answer' = Refused /\ SizeLimit > 0
  <1>1. CASE TooLarge(pushed)
    <2>1. Nothing /\ answer' = Refused
      BY <1>1 DEF PushNew, Answers
    <2>2. SizeLimit > 0
      BY <1>1 DEF TooLarge
    <2> QED BY <2>1, <2>2, NothingHeld
  <1>2. CASE ~TooLarge(pushed)
    <2>1. deque' = pushed /\ answer' = Num(pushed.count)
      BY <1>2 DEF PushNew, Create, Answers
    <2>2. Held' = Contents(pushed)
      BY <2>1, HeldBecomes
    <2>3. Len(Contents(pushed)) = pushed.count
      BY TidyFacts
    <2> QED BY <2>1, <2>2, <2>3
  <1> QED BY <1>1, <1>2

\* g are the lists after 0, 1, .. elements of es, pushed to s.
Grows(g, end, unique, s, es) ==
    /\ g[0] = s
    /\ \A n \in 0 .. Len(es) : g[n] \in Seq(Elements)
    /\ \A n \in 1 .. Len(es) : g[n] = With(end, unique, g[n - 1], es[n])

\* Of several elements, each is pushed to the list the ones before it left.
LEMMA AddedHolds ==
    ASSUME NEW end, NEW unique \in BOOLEAN, NEW d, Tidy(d), NEW es \in Seq(Elements),
           Safe(end, unique, d, es)
    PROVE  \E g : /\ Grows(g, end, unique, Contents(d), es)
                  /\ Contents(Added(end, unique, d, es)) = g[Len(es)]
  <1>1. PICK l \in Nat : l = Len(es)
    BY LenProperties
  <1>2. PICK f : Goes(f, end, unique, d, es) /\ Added(end, unique, d, es) = f[l]
    BY <1>1, AddedIs DEF Goes
  <1>3. \A n \in 0 .. l : Tidy(f[n]) /\ (n < l => Fine(end, unique, f[n], es[n + 1]))
    BY <1>1, <1>2, StepsAreTidy DEF Grown
  <1>4. PICK g : g = [n \in 0 .. l |-> Contents(f[n])]
    OBVIOUS
  <1>5. g[0] = Contents(d) /\ g[l] = Contents(Added(end, unique, d, es))
    BY <1>2, <1>4 DEF Goes
  <1>6. \A n \in 0 .. l : g[n] \in Seq(Elements)
    BY <1>3, <1>4, TidyFacts
  <1>7. ASSUME NEW n \in 1 .. l PROVE g[n] = With(end, unique, g[n - 1], es[n])
    <2>1. n - 1 \in 0 .. l /\ n - 1 < l /\ (n - 1) + 1 = n /\ n \in 0 .. l
      OBVIOUS
    <2>2. PICK q, e : q = f[n - 1] /\ e = es[n]
      OBVIOUS
    <2>3. Tidy(q) /\ Fine(end, unique, q, e) /\ e \in Elements
      BY <1>1, <1>3, <2>1, <2>2, ElementOfSeq
    <2>4. Contents(Add(end, unique, q, e)) = With(end, unique, Contents(q), e)
      BY <2>3, AddIsTidy
    <2>5. f[n] = Add(end, unique, q, e)
      BY <1>1, <1>2, <2>2 DEF Goes
    <2> QED BY <1>4, <2>1, <2>2, <2>4, <2>5
  <1>8. Grows(g, end, unique, Contents(d), es)
    BY <1>1, <1>5, <1>6, <1>7 DEF Grows
  <1> QED BY <1>1, <1>5, <1>8

\* A push to the back appends the elements, one to the front puts them before
\* the list, both in their order.
LEMMA AllBackHolds ==
    ASSUME NEW d, Tidy(d), NEW es \in Seq(Elements), Safe("back", FALSE, d, es)
    PROVE  Contents(AllBack(d, es, FALSE)) = Contents(d) \o es
  <1>1. PICK l \in Nat : l = Len(es)
    BY LenProperties
  <1>2. PICK C : C = Contents(d) /\ C \in Seq(Elements)
    BY TidyFacts
  <1>0. PICK g : /\ Grows(g, "back", FALSE, Contents(d), es)
                 /\ Contents(Added("back", FALSE, d, es)) = g[Len(es)]
    BY AddedHolds
  <1>3. /\ g[0] = C /\ Contents(AllBack(d, es, FALSE)) = g[l]
        /\ \A n \in 1 .. l : g[n] = With("back", FALSE, g[n - 1], es[n])
    BY <1>0, <1>1, <1>2 DEF AllBack, Grows
  <1> DEFINE S == {n \in 0 .. l : g[n] = C \o SubSeq(es, 1, n)}
  <1>4. 0 \in S
    <2>1. SubSeq(es, 1, 0) = <<>>
      BY SubSeqEmpty
    <2>2. C \o <<>> = C
      BY <1>2, ConcatEmptySeq
    <2>3. g[0] = C \o SubSeq(es, 1, 0)
      BY <1>3, <2>1, <2>2, Zenon
    <2>4. 0 \in 0 .. l
      OBVIOUS
    <2> QED BY <2>3, <2>4, Zenon
  <1>5. ASSUME NEW n \in 1 .. l, n - 1 \in S PROVE n \in S
    <2>1. PICK s, t, e : s = SubSeq(es, 1, n - 1) /\ t = SubSeq(es, 1, n) /\ e = es[n]
      OBVIOUS
    <2>2. t = s \o <<e>>
      <3>1. 1 \in 1 .. Len(es) /\ n \in 1 .. Len(es)
        BY <1>1
      <3> QED BY <2>1, <3>1, SubSeqRecursiveSecond
    <2>3. s \in Seq(Elements) /\ <<e>> \in Seq(Elements)
      <3>1. \A i \in 1 .. n - 1 : i \in 1 .. Len(es)
        BY <1>1
      <3>2. \A i \in 1 .. n - 1 : es[i] \in Elements
        BY <3>1, ElementOfSeq
      <3>3. e \in Elements
        BY <1>1, <2>1, ElementOfSeq
      <3> QED BY <2>1, <3>2, <3>3, SubSeqProperties
    <2>4. g[n] = g[n - 1] \o <<e>>
      BY <1>3, <2>1 DEF With
    <2>5. g[n - 1] = C \o s
      BY <1>5, <2>1
    <2>6. (C \o s) \o <<e>> = C \o (s \o <<e>>)
      BY <1>2, <2>3, ConcatAssociative
    <2>7. g[n] = C \o SubSeq(es, 1, n)
      BY <2>1, <2>2, <2>4, <2>5, <2>6, Zenon
    <2>8. n \in 0 .. l
      OBVIOUS
    <2> QED BY <2>7, <2>8, Zenon
  <1>6. l \in S
    <2>1. S \in SUBSET Nat
      OBVIOUS
    <2> HIDE DEF S
    <2> QED BY <1>4, <1>5, <2>1, Steadily
  <1> QED BY <1>1, <1>2, <1>3, <1>6, SubSeqFull

LEMMA AllFrontHolds ==
    ASSUME NEW d, Tidy(d), NEW es \in Seq(Elements)
    PROVE  Contents(AllFront(es, d, FALSE)) = es \o Contents(d)
  <1>1. PICK l \in Nat : l = Len(es)
    BY LenProperties
  <1>2. PICK C : C = Contents(d) /\ C \in Seq(Elements)
    BY TidyFacts
  <1>3. PICK rs : /\ rs = Reverse(es) /\ rs \in Seq(Elements) /\ Len(rs) = l
                  /\ \A n \in 1 .. l : rs[n] = es[(l - n) + 1]
    BY <1>1, ReverseIs
  <1>0. PICK g : /\ Grows(g, "front", FALSE, Contents(d), rs)
                 /\ Contents(Added("front", FALSE, d, rs)) = g[Len(rs)]
    <2>1. Safe("front", FALSE, d, rs)
      BY DEF Safe
    <2>2. rs \in Seq(Elements) /\ FALSE \in BOOLEAN
      BY <1>3
    <2> QED BY <2>1, <2>2, AddedHolds
  <1>4. /\ g[0] = C /\ Contents(AllFront(es, d, FALSE)) = g[l]
        /\ \A n \in 1 .. l : g[n] = With("front", FALSE, g[n - 1], rs[n])
    BY <1>0, <1>2, <1>3 DEF AllFront, Grows
  <1> DEFINE S == {n \in 0 .. l : g[n] = SubSeq(es, (l - n) + 1, l) \o C}
  <1>5. 0 \in S
    <2>1. SubSeq(es, (l - 0) + 1, l) = <<>>
      BY SubSeqEmpty
    <2>2. <<>> \o C = C
      BY <1>2, ConcatEmptySeq
    <2>3. g[0] = SubSeq(es, (l - 0) + 1, l) \o C
      BY <1>4, <2>1, <2>2, Zenon
    <2>4. 0 \in 0 .. l
      OBVIOUS
    <2> QED BY <2>3, <2>4, Zenon
  <1>6. ASSUME NEW n \in 1 .. l, n - 1 \in S PROVE n \in S
    <2>1. PICK k \in 1 .. l : k = (l - n) + 1 /\ (l - (n - 1)) + 1 = k + 1
      OBVIOUS
    <2>2. PICK s, t, e : s = SubSeq(es, k + 1, l) /\ t = SubSeq(es, k, l) /\ e = es[k]
      OBVIOUS
    <2>3. t = <<e>> \o s
      <3>1. k \in 1 .. Len(es) /\ l \in k .. Len(es)
        BY <1>1, <2>1
      <3> QED BY <2>2, <3>1, SubSeqRecursiveFirst
    <2>4. s \in Seq(Elements) /\ <<e>> \in Seq(Elements)
      <3>1. \A i \in k + 1 .. l : i \in 1 .. Len(es)
        BY <1>1
      <3>2. \A i \in k + 1 .. l : es[i] \in Elements
        BY <3>1, ElementOfSeq
      <3>3. e \in Elements
        BY <1>1, <2>2, ElementOfSeq
      <3> QED BY <2>2, <3>2, <3>3, SubSeqProperties
    <2>5. g[n] = <<e>> \o g[n - 1]
      <3>1. rs[n] = e
        BY <1>3, <2>1, <2>2
      <3> QED BY <1>4, <3>1 DEF With
    <2>6. g[n - 1] = s \o C
      BY <1>6, <2>1, <2>2
    <2>7. <<e>> \o (s \o C) = (<<e>> \o s) \o C
      BY <1>2, <2>4, ConcatAssociative
    <2>8. g[n] = SubSeq(es, (l - n) + 1, l) \o C
      BY <2>1, <2>2, <2>3, <2>5, <2>6, <2>7, Zenon
    <2>9. n \in 0 .. l
      OBVIOUS
    <2> QED BY <2>8, <2>9, Zenon
  <1>7. l \in S
    <2>1. S \in SUBSET Nat
      OBVIOUS
    <2> HIDE DEF S
    <2> QED BY <1>5, <1>6, <2>1, Steadily
  <1>8. SubSeq(es, (l - l) + 1, l) = es
    <2>1. (l - l) + 1 = 1
      OBVIOUS
    <2> QED BY <1>1, <2>1, SubSeqFull
  <1> QED BY <1>2, <1>4, <1>7, <1>8

\* The promise asks the same of a sequence.
LEMMA SameOperators ==
    ASSUME NEW s, NEW e
    PROVE  /\ Promise!Contains(s, e) <=> Contains(s, e)
           /\ Promise!Reverse(s) = Reverse(s)
  BY DEF Promise!Contains, Contains, Promise!Reverse, Reverse

\* AtTheEnd and InFront are what grows from the list.
LEMMA AtTheEndIs ==
    ASSUME NEW es \in Seq(Elements), NEW h, Grows(h, "back", TRUE, Held, es)
    PROVE  Promise!AtTheEnd(es) = h[Len(es)]
  <1> DEFINE l == Len(es)
             F == CHOOSE f : f = [n \in 0 .. l |->
                    IF n = 0 THEN Held
                    ELSE IF Promise!Contains(f[n - 1], es[n]) THEN f[n - 1]
                         ELSE Append(f[n - 1], es[n])]
  <1>1. l \in Nat
    BY LenProperties
  <1>2. ASSUME NEW n \in 1 .. l
        PROVE  h[n] = IF Promise!Contains(h[n - 1], es[n]) THEN h[n - 1]
                      ELSE Append(h[n - 1], es[n])
    <2>1. n - 1 \in 0 .. Len(es) /\ n \in 1 .. Len(es)
      BY <1>1
    <2>2. PICK s, e : s = h[n - 1] /\ e = es[n]
      OBVIOUS
    <2>3. s \in Seq(Elements) /\ e \in Elements
      BY <2>1, <2>2, ElementOfSeq DEF Grows
    <2>4. h[n] = With("back", TRUE, s, e)
      BY <2>1, <2>2 DEF Grows
    <2>5. Append(s, e) = s \o <<e>>
      BY <2>3, AppendIsConcat
    <2> QED BY <2>2, <2>4, <2>5, SameOperators DEF With
  <1>3. PICK g : g = [n \in 0 .. l |-> h[n]]
    OBVIOUS
  <1>4. PICK k : k = [n \in 0 .. l |->
                    IF n = 0 THEN Held
                    ELSE IF Promise!Contains(g[n - 1], es[n]) THEN g[n - 1]
                         ELSE Append(g[n - 1], es[n])]
    OBVIOUS
  <1> HIDE DEF l
  <1>5. ASSUME NEW n \in 0 .. l PROVE g[n] = k[n]
    <2>1. CASE n = 0
      <3>1. h[0] = Held
        BY DEF Grows
      <3> QED BY <1>3, <1>4, <2>1, <3>1
    <2>2. CASE n # 0
      <3>1. n \in 1 .. l /\ n - 1 \in 0 .. l
        BY <1>1, <2>2
      <3>2. g[n] = h[n] /\ g[n - 1] = h[n - 1]
        BY <1>3, <3>1
      <3>3. k[n] = IF Promise!Contains(g[n - 1], es[n]) THEN g[n - 1]
                   ELSE Append(g[n - 1], es[n])
        BY <1>4, <2>2
      <3> QED BY <1>2, <3>1, <3>2, <3>3
    <2> QED BY <2>1, <2>2
  <1>6. g = k
    BY <1>3, <1>4, <1>5
  <1>7. \E f : f = [n \in 0 .. l |->
                    IF n = 0 THEN Held
                    ELSE IF Promise!Contains(f[n - 1], es[n]) THEN f[n - 1]
                         ELSE Append(f[n - 1], es[n])]
    <2>1. g = [n \in 0 .. l |->
                    IF n = 0 THEN Held
                    ELSE IF Promise!Contains(g[n - 1], es[n]) THEN g[n - 1]
                         ELSE Append(g[n - 1], es[n])]
      BY <1>4, <1>6
    <2> QED BY <2>1
  <1>8. F = [n \in 0 .. l |->
                    IF n = 0 THEN Held
                    ELSE IF Promise!Contains(F[n - 1], es[n]) THEN F[n - 1]
                         ELSE Append(F[n - 1], es[n])]
    BY <1>7
  <1>9. Promise!AtTheEnd(es) = F[l]
    BY DEF Promise!AtTheEnd, l
  <1> HIDE DEF F
  <1>10. F[0] = Held
    BY <1>1, <1>8
  <1>11. ASSUME NEW n \in 1 .. l
         PROVE  F[n] = IF Promise!Contains(F[n - 1], es[n]) THEN F[n - 1]
                       ELSE Append(F[n - 1], es[n])
    <2>1. n \in 0 .. l /\ n # 0
      BY <1>1
    <2> QED BY <1>8, <2>1
  <1> DEFINE S == {n \in 0 .. l : F[n] = h[n]}
  <1>12. 0 \in S /\ S \in SUBSET Nat
    BY <1>1, <1>10 DEF Grows
  <1>13. ASSUME NEW n \in 1 .. l, n - 1 \in S PROVE n \in S
    <2>1. F[n - 1] = h[n - 1] /\ n \in 0 .. l
      BY <1>13
    <2>2. F[n] = h[n]
      BY <1>2, <1>11, <2>1
    <2> QED BY <2>1, <2>2
  <1>14. l \in S
    <2> HIDE DEF S
    <2> QED BY <1>1, <1>12, <1>13, Steadily
  <1> QED BY <1>9, <1>14 DEF l

LEMMA InFrontIs ==
    ASSUME NEW es \in Seq(Elements), NEW h, Grows(h, "front", TRUE, Held, Reverse(es))
    PROVE  Promise!InFront(es) = h[Len(es)]
  <1> DEFINE l == Len(es)
             F == CHOOSE f : f = [n \in 0 .. l |->
                    IF n = 0 THEN Held
                    ELSE IF Promise!Contains(f[n - 1], es[l - n + 1]) THEN f[n - 1]
                         ELSE <<es[l - n + 1]>> \o f[n - 1]]
  <1>1. l \in Nat
    BY LenProperties
  <1>2. ASSUME NEW n \in 1 .. l
        PROVE  h[n] = IF Promise!Contains(h[n - 1], es[l - n + 1]) THEN h[n - 1]
                      ELSE <<es[l - n + 1]>> \o h[n - 1]
    <2>1. PICK s, e : s = h[n - 1] /\ e = es[l - n + 1]
      OBVIOUS
    <2>2. PICK rs : rs = Reverse(es) /\ Len(rs) = l /\ rs[n] = e
      BY <1>1, <2>1, ReverseIs
    <2>3. h[n] = With("front", TRUE, s, e)
      BY <2>1, <2>2 DEF Grows
    <2> QED BY <2>1, <2>3, SameOperators DEF With
  <1>3. PICK g : g = [n \in 0 .. l |-> h[n]]
    OBVIOUS
  <1>4. PICK k : k = [n \in 0 .. l |->
                    IF n = 0 THEN Held
                    ELSE IF Promise!Contains(g[n - 1], es[l - n + 1]) THEN g[n - 1]
                         ELSE <<es[l - n + 1]>> \o g[n - 1]]
    OBVIOUS
  <1> HIDE DEF l
  <1>5. ASSUME NEW n \in 0 .. l PROVE g[n] = k[n]
    <2>1. CASE n = 0
      <3>1. h[0] = Held
        BY DEF Grows
      <3> QED BY <1>3, <1>4, <2>1, <3>1
    <2>2. CASE n # 0
      <3>1. n \in 1 .. l /\ n - 1 \in 0 .. l
        BY <1>1, <2>2
      <3>2. g[n] = h[n] /\ g[n - 1] = h[n - 1]
        BY <1>3, <3>1
      <3>3. k[n] = IF Promise!Contains(g[n - 1], es[l - n + 1]) THEN g[n - 1]
                   ELSE <<es[l - n + 1]>> \o g[n - 1]
        BY <1>4, <2>2
      <3> QED BY <1>2, <3>1, <3>2, <3>3
    <2> QED BY <2>1, <2>2
  <1>6. g = k
    BY <1>3, <1>4, <1>5
  <1>7. \E f : f = [n \in 0 .. l |->
                    IF n = 0 THEN Held
                    ELSE IF Promise!Contains(f[n - 1], es[l - n + 1]) THEN f[n - 1]
                         ELSE <<es[l - n + 1]>> \o f[n - 1]]
    <2>1. g = [n \in 0 .. l |->
                    IF n = 0 THEN Held
                    ELSE IF Promise!Contains(g[n - 1], es[l - n + 1]) THEN g[n - 1]
                         ELSE <<es[l - n + 1]>> \o g[n - 1]]
      BY <1>4, <1>6
    <2> QED BY <2>1
  <1>8. F = [n \in 0 .. l |->
                    IF n = 0 THEN Held
                    ELSE IF Promise!Contains(F[n - 1], es[l - n + 1]) THEN F[n - 1]
                         ELSE <<es[l - n + 1]>> \o F[n - 1]]
    BY <1>7
  <1>9. Promise!InFront(es) = F[l]
    BY DEF Promise!InFront, l
  <1> HIDE DEF F
  <1>10. F[0] = Held
    BY <1>1, <1>8
  <1>11. ASSUME NEW n \in 1 .. l
         PROVE  F[n] = IF Promise!Contains(F[n - 1], es[l - n + 1]) THEN F[n - 1]
                       ELSE <<es[l - n + 1]>> \o F[n - 1]
    <2>1. n \in 0 .. l /\ n # 0
      BY <1>1
    <2> QED BY <1>8, <2>1
  <1> DEFINE S == {n \in 0 .. l : F[n] = h[n]}
  <1>12. 0 \in S /\ S \in SUBSET Nat
    BY <1>1, <1>10 DEF Grows
  <1>13. ASSUME NEW n \in 1 .. l, n - 1 \in S PROVE n \in S
    <2>1. F[n - 1] = h[n - 1] /\ n \in 0 .. l
      BY <1>13
    <2>2. F[n] = h[n]
      BY <1>2, <1>11, <2>1
    <2> QED BY <2>1, <2>2
  <1>14. l \in S
    <2> HIDE DEF S
    <2> QED BY <1>1, <1>12, <1>13, Steadily
  <1> QED BY <1>9, <1>14 DEF l

\* A unique push adds what the list does not have yet.
LEMMA AllBackOnce ==
    ASSUME NEW d, Tidy(d), NEW es \in Seq(Elements), Safe("back", TRUE, d, es),
           Held = Contents(d)
    PROVE  Contents(AllBack(d, es, TRUE)) = Promise!AtTheEnd(es)
  <1>1. PICK g : /\ Grows(g, "back", TRUE, Contents(d), es)
                 /\ Contents(Added("back", TRUE, d, es)) = g[Len(es)]
    <2>1. TRUE \in BOOLEAN
      OBVIOUS
    <2> QED BY <2>1, AddedHolds
  <1>2. Promise!AtTheEnd(es) = g[Len(es)]
    BY <1>1, AtTheEndIs
  <1> QED BY <1>1, <1>2 DEF AllBack

LEMMA AllFrontOnce ==
    ASSUME NEW d, Tidy(d), NEW es \in Seq(Elements), Held = Contents(d)
    PROVE  Contents(AllFront(es, d, TRUE)) = Promise!InFront(es)
  <1>1. PICK rs : rs = Reverse(es) /\ rs \in Seq(Elements) /\ Len(rs) = Len(es)
    BY ReverseIs
  <1>2. PICK g : /\ Grows(g, "front", TRUE, Contents(d), rs)
                 /\ Contents(Added("front", TRUE, d, rs)) = g[Len(rs)]
    <2>1. TRUE \in BOOLEAN /\ rs \in Seq(Elements)
      BY <1>1
    <2>2. Safe("front", TRUE, d, rs)
      BY DEF Safe
    <2> QED BY <2>1, <2>2, AddedHolds
  <1>3. Grows(g, "front", TRUE, Held, Reverse(es))
    BY <1>1, <1>2
  <1>4. Promise!InFront(es) = g[Len(es)]
    BY <1>3, InFrontIs
  <1> QED BY <1>1, <1>2, <1>4 DEF AllFront

\* A push that is refused is taken back to the list there was.
LEMMA TakenBack ==
    ASSUME NEW s \in Seq(Elements), NEW t \in Seq(Elements), Len(t) > 0
    PROVE  /\ SubSeq(s \o t, Len(s) + 1, Len(s) + Len(t)) = t
           /\ SubSeq(t \o s, 1, Len(t)) = t
  <1>1. PICK l \in Nat, m \in Nat : l = Len(s) /\ m = Len(t) /\ m > 0
    BY LenProperties
  <1>2. SubSeq(s \o t, l + 1, l + m) = SubSeq(t, 1, m)
    <2>1. l + 1 \in Len(s) + 1 .. Len(s) + Len(t) /\ l + m \in Len(s) + 1 .. Len(s) + Len(t)
      BY <1>1
    <2>2. SubSeq(s \o t, l + 1, l + m) = SubSeq(t, (l + 1) - Len(s), (l + m) - Len(s))
      BY <2>1, SubSeqOfConcat2
    <2>3. (l + 1) - Len(s) = 1 /\ (l + m) - Len(s) = m
      BY <1>1
    <2> QED BY <2>2, <2>3
  <1>3. SubSeq(t \o s, 1, m) = SubSeq(t, 1, m)
    <2>1. 1 \in 1 .. Len(t) /\ m \in 1 .. Len(t)
      BY <1>1
    <2> QED BY <2>1, SubSeqOfConcat1
  <1>4. SubSeq(t, 1, m) = t
    BY <1>1, SubSeqFull
  <1> QED BY <1>1, <1>2, <1>3, <1>4

\* What the promise says of a push and of one refused.
LEMMA PromisedPush ==
    ASSUME NEW s, Held' = s, answer' = Num(Len(Held'))
    PROVE  Promise!Pushed(s)
  BY DEF Promise!Pushed, Promise!Becomes, Promise!Num, Num

\* Only where there is a limit.
LEMMA PromisedRefusal ==
    ASSUME NEW s, Held' = s, answer' = Refused, SizeLimit > 0
    PROVE  Promise!Refuse(s)
  BY DEF Promise!Refuse, Promise!Becomes, Promise!Refused, Refused

\* A list that exists is not empty.
LEMMA KeptIs ==
    ASSUME LInv, NEW s
    PROVE  Promise!Kept(s) = IF Exists THEN s ELSE Held
  <1>1. Exists => Held # <<>>
    <2>1. Exists => Len(Held) > 0
      BY HeldIs
    <2>2. Len(<<>>) = 0
      OBVIOUS
    <2> QED BY <2>1, <2>2
  <1>2. ~Exists => Held = <<>>
    BY HeldIs
  <1> QED BY <1>1, <1>2 DEF Promise!Kept

\* Only with a list.
LEMMA PromisedDrop ==
    ASSUME LInv, Exists, answer' = Lost, Held' = Held
    PROVE Promise!Drop
  <1>1. Len(Held) > 0 /\ Len(<<>>) = 0
    BY HeldIs
  <1>2. Held # <<>>
    BY <1>1
  <1> QED BY <1>2 DEF Promise!Drop, Promise!Lost, Lost

-----------------------------------------------------------------------------
\* LPUSH.
LEMMA LPushPromised == ASSUME LInv, NEW es \in Batches, LPush(es) PROVE Promise!LPush(es)
  <1>1. PICK s : s = Held
    OBVIOUS
  <1>0. PICK l \in Nat : l = Len(es) /\ l > 0
    BY BatchesAre
  <1>9. Promise!Given("LPUSH", <<es>>)
    BY DEF LPush, Given, Promise!Given
  <1>2. es \in Seq(Elements)
    BY BatchesAre
  <1>3. CASE Held' = es \o s /\ answer' = Num(Len(Held'))
    <2>1. Promise!Pushed(es \o Held)
      BY <1>1, <1>3, PromisedPush
    <2> QED BY <1>9, <2>1 DEF Promise!LPush
  <1>4. CASE Held' = s /\ answer' = Refused /\ SizeLimit > 0
    <2>1. Promise!Refuse(Held)
      BY <1>1, <1>4, PromisedRefusal
    <2> QED BY <1>9, <2>1 DEF Promise!LPush
  <1>5. CASE Exists
    <2>1. PICK q, p, u : /\ q = deque
                         /\ p = AllFront(es, deque, FALSE) /\ u = PopFront(p, Len(es))
      OBVIOUS
    <2>2. PushInPlace(p, u)
      BY <1>5, <2>1 DEF LPush
    <2>3. /\ Tidy(q) /\ s = Contents(q) /\ s \in Seq(Elements)
          /\ Len(s) = q.count /\ Len(s) > 0 /\ q.count \in Nat
      BY <1>1, <1>5, <2>1, HeldIs, TidyFacts
    <2>4. Sound(p, TRUE) /\ p.count = q.count + Len(es)
      BY <2>1, <2>3, AllFrontIsSound
    <2>5. Tidy(p) /\ p.count = q.count + l /\ l \in 0 .. p.count
      <3>1. PICK m \in Nat : m = q.count
        BY <2>3
      <3>2. Tidy(p) /\ p.count = m + l
        BY <1>0, <2>4, <3>1 DEF Sound
      <3> QED BY <3>1, <3>2
    <2>6. Contents(p) = es \o s
      BY <1>2, <2>1, <2>3, AllFrontHolds
    <2>7. Tidy(u) /\ Contents(u) = SubSeq(es \o s, l + 1, p.count)
      <3>1. u = PopFront(p, l)
        BY <1>0, <2>1
      <3>2. Tidy(u) /\ Contents(u) = SubSeq(Contents(p), l + 1, p.count)
        BY <2>5, <3>1, PopFrontIsTidy
      <3> QED BY <2>6, <3>2
    <2>8. Contents(u) = s
      <3>1. SubSeq(es \o s, Len(es) + 1, Len(es) + Len(s)) = s
        BY <1>2, <2>3, TakenBack
      <3>2. PICK m \in Nat : m = q.count
        BY <2>3
      <3>3. p.count = Len(es) + Len(s)
        BY <1>0, <2>3, <2>5, <3>2
      <3> QED BY <1>0, <2>7, <3>1, <3>3
    <2> QED BY <1>3, <1>4, <2>2, <2>5, <2>6, <2>7, <2>8, PushInPlaceHeld
  <1>6. CASE ~Exists
    <2>1. PICK p : p = AllFront(es, NewDeque, FALSE)
      OBVIOUS
    <2>2. PushNew(p)
      BY <1>6, <2>1 DEF LPush
    <2>3. Tidy(p)
      BY <2>1, NewIsTidy, AllFrontIsSound DEF Sound
    <2>4. Contents(p) = es \o s
      <3>1. Contents(NewDeque) = s
        BY <1>1, <1>6, NewIsTidy, HeldIs
      <3> QED BY <1>2, <2>1, <3>1, NewIsTidy, AllFrontHolds
    <2> QED BY <1>1, <1>3, <1>4, <2>2, <2>3, <2>4, PushNewHeld
  <1> QED BY <1>5, <1>6

\* RPUSH.
LEMMA RPushPromised == ASSUME LInv, NEW es \in Batches, RPush(es) PROVE Promise!RPush(es)
  <1>1. PICK s : s = Held
    OBVIOUS
  <1>0. PICK l \in Nat : l = Len(es) /\ l > 0
    BY BatchesAre
  <1>9. Promise!Given("RPUSH", <<es>>)
    BY DEF RPush, Given, Promise!Given
  <1>2. es \in Seq(Elements)
    BY BatchesAre
  <1>3. CASE Held' = s \o es /\ answer' = Num(Len(Held'))
    <2>1. Promise!Pushed(Held \o es)
      BY <1>1, <1>3, PromisedPush
    <2> QED BY <1>9, <2>1 DEF Promise!RPush
  <1>4. CASE Held' = s /\ answer' = Refused /\ SizeLimit > 0
    <2>1. Promise!Refuse(Held)
      BY <1>1, <1>4, PromisedRefusal
    <2> QED BY <1>9, <2>1 DEF Promise!RPush
  <1>5. CASE Exists /\ ~PushBackPanics(deque)
    <2>1. PICK q, p, u : /\ q = deque
                         /\ p = AllBack(deque, es, FALSE) /\ u = PopBack(p, Len(es))
      OBVIOUS
    <2>2. PushInPlace(p, u)
      BY <1>5, <2>1 DEF RPush
    <2>3. /\ Tidy(q) /\ s = Contents(q) /\ s \in Seq(Elements)
          /\ Len(s) = q.count /\ Len(s) > 0 /\ q.count \in Nat
      BY <1>1, <1>5, <2>1, HeldIs, TidyFacts
    <2>4. Safe("back", FALSE, q, es)
      BY <1>5, <2>1 DEF Safe
    <2>5. Sound(p, TRUE) /\ p.count = q.count + Len(es)
      BY <2>1, <2>3, <2>4, AllBackIsSound
    <2>6. Tidy(p) /\ p.count - l = q.count /\ l \in 1 .. p.count
      <3>1. PICK m \in Nat : m = q.count
        BY <2>3
      <3>2. Tidy(p) /\ p.count = m + l
        BY <1>0, <2>5, <3>1 DEF Sound
      <3> QED BY <1>0, <3>1, <3>2
    <2>7. Contents(p) = s \o es
      BY <1>2, <2>1, <2>3, <2>4, AllBackHolds
    <2>8. Tidy(u) /\ Contents(u) = SubSeq(s \o es, 1, p.count - l)
      <3>1. u = PopBack(p, l)
        BY <1>0, <2>1
      <3>2. Tidy(u) /\ Contents(u) = SubSeq(Contents(p), 1, p.count - l)
        BY <2>6, <3>1, PopBackIsTidy
      <3> QED BY <2>7, <3>2
    <2>9. Contents(u) = s
      <3>1. SubSeq(s \o es, 1, Len(s)) = s
        BY <1>2, <2>3, TakenBack
      <3>2. p.count - l = Len(s)
        BY <2>3, <2>6
      <3> QED BY <2>8, <3>1, <3>2
    <2> QED BY <1>3, <1>4, <2>2, <2>6, <2>7, <2>8, <2>9, PushInPlaceHeld
  <1>6. CASE Exists /\ PushBackPanics(deque)
    <2>1. Promise!Drop
      BY <1>6, NothingHeld, PromisedDrop DEF RPush, Answers
    <2> QED BY <1>9, <2>1 DEF Promise!RPush
  <1>7. CASE ~Exists
    <2>1. PICK p : p = AllBack(NewDeque, es, FALSE)
      OBVIOUS
    <2>2. PushNew(p)
      BY <1>7, <2>1 DEF RPush
    <2>3. Safe("back", FALSE, NewDeque, es)
      BY NewIsTidy, TidyFacts DEF Safe, PushBackPanics
    <2>4. Tidy(p)
      BY <2>1, <2>3, NewIsTidy, AllBackIsSound DEF Sound
    <2>5. Contents(p) = s \o es
      <3>1. Contents(NewDeque) = s
        BY <1>1, <1>7, NewIsTidy, HeldIs
      <3> QED BY <1>2, <2>1, <2>3, <3>1, NewIsTidy, AllBackHolds
    <2> QED BY <1>1, <1>3, <1>4, <2>2, <2>4, <2>5, PushNewHeld
  <1> QED BY <1>5, <1>6, <1>7

\* LPUSHUNIQUE: a refused one keeps what it pushed.
LEMMA LPushUniquePromised ==
    ASSUME LInv, NEW es \in Batches, LPushUnique(es) PROVE Promise!LPushUnique(es)
  <1>1. PICK s : s = Promise!InFront(es)
    OBVIOUS
  <1>9. Promise!Given("LPUSHUNIQUE", <<es>>)
    BY DEF LPushUnique, Given, Promise!Given
  <1>2. es \in Seq(Elements)
    BY BatchesAre
  <1>3. CASE Held' = s /\ answer' = Num(Len(Held'))
    <2>1. Promise!Pushed(Promise!InFront(es))
      BY <1>1, <1>3, PromisedPush
    <2> QED BY <1>9, <2>1 DEF Promise!LPushUnique
  <1>4. CASE Exists /\ Held' = s /\ answer' = Refused /\ SizeLimit > 0
    <2>1. Promise!Kept(s) = s
      BY <1>4, KeptIs
    <2>2. Promise!Refuse(s)
      BY <1>4, PromisedRefusal
    <2> QED BY <1>1, <1>9, <2>1, <2>2 DEF Promise!LPushUnique
  <1>5. CASE ~Exists /\ Held' = Held /\ answer' = Refused /\ SizeLimit > 0
    <2>1. Promise!Kept(s) = Held
      BY <1>5, KeptIs
    <2>2. Promise!Refuse(Held)
      BY <1>5, PromisedRefusal
    <2> QED BY <1>1, <1>9, <2>1, <2>2 DEF Promise!LPushUnique
  <1>6. CASE Exists
    <2>1. PICK q, p : q = deque /\ p = AllFront(es, deque, TRUE)
      OBVIOUS
    <2>2. PushInPlace(p, p)
      BY <1>6, <2>1 DEF LPushUnique
    <2>3. Tidy(q) /\ Held = Contents(q)
      BY <1>6, <2>1, HeldIs
    <2>4. Tidy(p)
      <3>1. TRUE \in BOOLEAN
        OBVIOUS
      <3> QED BY <2>1, <2>3, <3>1, AllFrontIsSound DEF Sound
    <2>5. Contents(p) = s
      BY <1>1, <1>2, <2>1, <2>3, AllFrontOnce
    <2> QED BY <1>3, <1>4, <1>6, <2>2, <2>4, <2>5, PushInPlaceHeld
  <1>7. CASE ~Exists
    <2>1. PICK p : p = AllFront(es, NewDeque, TRUE)
      OBVIOUS
    <2>2. PushNew(p)
      BY <1>7, <2>1 DEF LPushUnique
    <2>3. Tidy(p)
      <3>1. TRUE \in BOOLEAN
        OBVIOUS
      <3> QED BY <2>1, <3>1, NewIsTidy, AllFrontIsSound DEF Sound
    <2>4. Contents(p) = s
      <3>1. Held = Contents(NewDeque)
        BY <1>7, NewIsTidy, HeldIs
      <3> QED BY <1>1, <1>2, <2>1, <3>1, NewIsTidy, AllFrontOnce
    <2> QED BY <1>3, <1>5, <1>7, <2>2, <2>3, <2>4, PushNewHeld
  <1> QED BY <1>6, <1>7

\* Elements that are all there are no danger to a tail that is no slot.
LEMMA NothingToPush ==
    ASSUME NEW C \in Seq(Elements), NEW es \in Seq(Elements), ToSet(es) \subseteq ToSet(C)
    PROVE  \A i \in 1 .. Len(es) : Contains(C, es[i])
  <1>1. DOMAIN es = 1 .. Len(es) /\ DOMAIN C = 1 .. Len(C)
    BY LenProperties
  <1>2. ASSUME NEW i \in 1 .. Len(es) PROVE Contains(C, es[i])
    <2>1. es[i] \in ToSet(C)
      BY <1>1 DEF ToSet
    <2> QED BY <1>1, <2>1 DEF ToSet, Contains
  <1> QED BY <1>2

\* RPUSHUNIQUE.
LEMMA RPushUniquePromised ==
    ASSUME LInv, NEW es \in Batches, RPushUnique(es) PROVE Promise!RPushUnique(es)
  <1>1. PICK s : s = Promise!AtTheEnd(es)
    OBVIOUS
  <1>9. Promise!Given("RPUSHUNIQUE", <<es>>)
    BY DEF RPushUnique, Given, Promise!Given
  <1>2. es \in Seq(Elements)
    BY BatchesAre
  <1>3. CASE Held' = s /\ answer' = Num(Len(Held'))
    <2>1. Promise!Pushed(Promise!AtTheEnd(es))
      BY <1>1, <1>3, PromisedPush
    <2> QED BY <1>9, <2>1 DEF Promise!RPushUnique
  <1>4. CASE Exists /\ Held' = s /\ answer' = Refused /\ SizeLimit > 0
    <2>1. Promise!Kept(s) = s
      BY <1>4, KeptIs
    <2>2. Promise!Refuse(s)
      BY <1>4, PromisedRefusal
    <2> QED BY <1>1, <1>9, <2>1, <2>2 DEF Promise!RPushUnique
  <1>5. CASE ~Exists /\ Held' = Held /\ answer' = Refused /\ SizeLimit > 0
    <2>1. Promise!Kept(s) = Held
      BY <1>5, KeptIs
    <2>2. Promise!Refuse(Held)
      BY <1>5, PromisedRefusal
    <2> QED BY <1>1, <1>9, <2>1, <2>2 DEF Promise!RPushUnique
  <1>6. CASE Exists /\ PushBackPanics(deque) /\ ~(ToSet(es) \subseteq ToSet(Held))
    <2>1. Promise!Drop
      BY <1>6, NothingHeld, PromisedDrop DEF RPushUnique, Answers
    <2>2. Promise!ToSet(es) = ToSet(es) /\ Promise!ToSet(Held) = ToSet(Held)
      BY DEF Promise!ToSet, ToSet
    <2> QED BY <1>6, <1>9, <2>1, <2>2 DEF Promise!RPushUnique
  <1>7. CASE Exists /\ ~(PushBackPanics(deque) /\ ~(ToSet(es) \subseteq ToSet(Held)))
    <2>1. PICK q, p : q = deque /\ p = AllBack(deque, es, TRUE)
      OBVIOUS
    <2>2. PushInPlace(p, p)
      BY <1>7, <2>1 DEF RPushUnique
    <2>3. Tidy(q) /\ Held = Contents(q) /\ Held \in Seq(Elements)
      BY <1>7, <2>1, HeldIs
    <2>4. Safe("back", TRUE, q, es)
      <3>1. CASE ~PushBackPanics(q)
        BY <3>1 DEF Safe
      <3>2. CASE PushBackPanics(q)
        <4>1. ToSet(es) \subseteq ToSet(Held)
          BY <1>7, <2>1, <3>2
        <4>2. \A i \in 1 .. Len(es) : Contains(Held, es[i])
          BY <1>2, <2>3, <4>1, NothingToPush
        <4> QED BY <2>3, <4>2 DEF Safe
      <3> QED BY <3>1, <3>2
    <2>5. Tidy(p)
      <3>1. TRUE \in BOOLEAN
        OBVIOUS
      <3> QED BY <2>1, <2>3, <2>4, <3>1, AllBackIsSound DEF Sound
    <2>6. Contents(p) = s
      BY <1>1, <1>2, <2>1, <2>3, <2>4, AllBackOnce
    <2> QED BY <1>3, <1>4, <1>7, <2>2, <2>5, <2>6, PushInPlaceHeld
  <1>8. CASE ~Exists
    <2>1. PICK p : p = AllBack(NewDeque, es, TRUE)
      OBVIOUS
    <2>2. PushNew(p)
      BY <1>8, <2>1 DEF RPushUnique
    <2>3. Safe("back", TRUE, NewDeque, es)
      BY NewIsTidy, TidyFacts DEF Safe, PushBackPanics
    <2>4. Tidy(p)
      <3>1. TRUE \in BOOLEAN
        OBVIOUS
      <3> QED BY <2>1, <2>3, <3>1, NewIsTidy, AllBackIsSound DEF Sound
    <2>5. Contents(p) = s
      <3>1. Held = Contents(NewDeque)
        BY <1>8, NewIsTidy, HeldIs
      <3> QED BY <1>1, <1>2, <2>1, <2>3, <3>1, NewIsTidy, AllBackOnce
    <2> QED BY <1>3, <1>5, <1>8, <2>2, <2>4, <2>5, PushNewHeld
  <1> QED BY <1>6, <1>7, <1>8

\* LPUSHX, RPUSHX without a list; LLEN; DEL.
LEMMA PushXPromised == ASSUME LInv, PushX PROVE Promise!PushNothing
  <1>1. Held = <<>> /\ Held' = Held /\ answer' = Num(0)
    BY HeldIs, NothingHeld DEF PushX, Answers
  <1> QED BY <1>1 DEF PushX, Given, Promise!Given, Promise!PushNothing, Promise!Num, Num

LEMMA LLenPromised == ASSUME LInv, LLen PROVE Promise!LLen
  <1>1. Held' = Held /\ answer' = Num(Len(Held))
    BY NothingHeld DEF LLen, Answers
  <1> QED BY <1>1 DEF LLen, Given, Promise!Given, Promise!LLen, Promise!Num, Num

LEMMA DeletePromised == ASSUME LInv, Delete PROVE Promise!Del
  <1>1. CASE Exists /\ Drop /\ Answers(Num(1))
    <2>1. Held # <<>>
      <3>1. Len(Held) > 0 /\ Len(<<>>) = 0
        BY <1>1, HeldIs
      <3> QED BY <3>1
    <2>2. Held' = <<>> /\ answer' = Num(1)
      BY <1>1 DEF Drop, Held, Exists, Answers
    <2> QED BY <2>1, <2>2 DEF Delete, Given, Promise!Given, Promise!Del, Promise!Becomes, Promise!Num, Num
  <1>2. CASE ~Exists /\ Nothing /\ Answers(Num(0))
    <2>1. Held = <<>> /\ Held' = Held /\ answer' = Num(0)
      BY <1>2, HeldIs, NothingHeld DEF Answers
    <2> QED BY <2>1 DEF Delete, Given, Promise!Given, Promise!Del, Promise!Becomes, Promise!Num, Num
  <1> QED BY <1>1, <1>2 DEF Delete

-----------------------------------------------------------------------------
\* A pop takes what the promise says, also when no element is there.
LEMMA PoppedIsAsked ==
    ASSUME LInv, NEW n \in Nat
    PROVE  /\ Promise!Asked(n) = Popped(n) /\ Popped(n) \in 0 .. Len(Held)
           /\ Len(Held) > 0 => Popped(n) > 0
  <1>1. PICK l \in Nat : l = Len(Held)
    BY HeldIs
  <1>2. Popped(n) = IF n = 0 THEN (IF 1 > l THEN l ELSE 1) ELSE (IF n > l THEN l ELSE n)
    BY <1>1 DEF Popped
  <1>3. Promise!Asked(n) = IF n = 0 THEN (IF 1 < l THEN 1 ELSE l) ELSE (IF n < l THEN n ELSE l)
    BY <1>1 DEF Promise!Asked
  <1> QED BY <1>1, <1>2, <1>3

\* The end of a list, reversed, is the start of the reversed list.
LEMMA ReverseOfEnd ==
    ASSUME NEW s \in Seq(Elements), NEW k \in 0 .. Len(s)
    PROVE  Reverse(SubSeq(s, Len(s) - k + 1, Len(s))) = SubSeq(Reverse(s), 1, k)
  <1>1. PICK l \in Nat : l = Len(s) /\ k \in Nat /\ k <= l
    BY LenProperties
  <1>2. PICK a, r, b, c : /\ a = SubSeq(s, l - k + 1, l) /\ r = Reverse(s)
                          /\ b = Reverse(a) /\ c = SubSeq(r, 1, k)
    OBVIOUS
  <1>3. \A i \in l - k + 1 .. l : s[i] \in Elements
    <2>1. \A i \in l - k + 1 .. l : i \in 1 .. Len(s)
      BY <1>1
    <2> QED BY <2>1, ElementOfSeq
  <1>4. a \in Seq(Elements) /\ Len(a) = k /\ \A i \in 1 .. k : a[i] = s[(l - k) + i]
    <2>1. l - k + 1 \in Int /\ l \in Int
      BY <1>1
    <2>2. /\ a \in Seq(Elements)
          /\ Len(a) = IF l - k + 1 <= l THEN l - (l - k + 1) + 1 ELSE 0
          /\ \A i \in 1 .. l - (l - k + 1) + 1 : a[i] = s[(l - k + 1) + i - 1]
      BY <1>2, <1>3, <2>1, SubSeqProperties
    <2>3. Len(a) = k
      BY <1>1, <2>2
    <2>4. ASSUME NEW i \in 1 .. k PROVE a[i] = s[(l - k) + i]
      <3>1. i \in 1 .. l - (l - k + 1) + 1 /\ (l - k + 1) + i - 1 = (l - k) + i
        BY <1>1
      <3> QED BY <2>2, <3>1
    <2> QED BY <2>2, <2>3, <2>4
  <1>5. b \in Seq(Elements) /\ Len(b) = k /\ \A i \in 1 .. k : b[i] = a[(k - i) + 1]
    <2>1. /\ b \in Seq(Elements) /\ Len(b) = Len(a)
          /\ \A i \in 1 .. Len(a) : b[i] = a[(Len(a) - i) + 1]
      <3>1. a \in Seq(Elements)
        BY <1>4
      <3> QED BY <1>2, <3>1, ReverseIs
    <2> QED BY <1>4, <2>1
  <1>6. r \in Seq(Elements) /\ Len(r) = l /\ \A i \in 1 .. l : r[i] = s[(l - i) + 1]
    BY <1>1, <1>2, ReverseIs
  <1>7. c \in Seq(Elements) /\ Len(c) = k /\ \A i \in 1 .. k : c[i] = r[i]
    <2>1. \A i \in 1 .. k : r[i] \in Elements
      <3>1. \A i \in 1 .. k : i \in 1 .. Len(r)
        BY <1>1, <1>6
      <3> QED BY <1>6, <3>1, ElementOfSeq
    <2>2. /\ c \in Seq(Elements)
          /\ Len(c) = IF 1 <= k THEN k - 1 + 1 ELSE 0
          /\ \A i \in 1 .. k - 1 + 1 : c[i] = r[1 + i - 1]
      <3>1. 1 \in Int /\ k \in Int
        OBVIOUS
      <3> QED BY <1>2, <2>1, <3>1, SubSeqProperties
    <2>3. Len(c) = k
      BY <1>1, <2>2
    <2>4. ASSUME NEW i \in 1 .. k PROVE c[i] = r[i]
      <3>1. i \in 1 .. k - 1 + 1 /\ 1 + i - 1 = i
        BY <1>1
      <3> QED BY <2>2, <3>1
    <2> QED BY <2>2, <2>3, <2>4
  <1>8. ASSUME NEW i \in 1 .. Len(b) PROVE b[i] = c[i]
    <2>1. i \in 1 .. k /\ i \in 1 .. l /\ (k - i) + 1 \in 1 .. k
      BY <1>1, <1>5
    <2>2. b[i] = s[(l - k) + ((k - i) + 1)]
      BY <1>4, <1>5, <2>1
    <2>3. c[i] = s[(l - i) + 1]
      BY <1>6, <1>7, <2>1
    <2>4. (l - k) + ((k - i) + 1) = (l - i) + 1
      BY <1>1
    <2> QED BY <2>2, <2>3, <2>4
  <1>9. b = c
    BY <1>5, <1>7, <1>8, SeqEqual
  <1> QED BY <1>1, <1>2, <1>9

\* LPOP.
LEMMA LPopPromised == ASSUME LInv, NEW n \in Indices, LPop(n) PROVE Promise!LPop(n)
  <1>0. Promise!Given("LPOP", <<n>>)
    BY DEF LPop, Given, Promise!Given
  <1>1. n \in Nat /\ n >= 0
    BY SizesAssumption DEF LPop, Indices
  <1>2. PICK k, s : k = Popped(n) /\ s = Held
    OBVIOUS
  <1>3. answer' = Items(SubSeq(s, 1, k))
    BY <1>2 DEF LPop, Answers
  <1>4. Promise!Asked(n) = k /\ k \in 0 .. Len(s)
    BY <1>1, <1>2, PoppedIsAsked
  <1>5. CASE Held' = SubSeq(s, k + 1, Len(s))
    BY <1>1, <1>2, <1>3, <1>4, <1>0, <1>5 DEF Promise!LPop, Promise!Becomes,
       Promise!Items, Items
  <1>6. CASE Exists
    <2>1. PICK q, u : q = deque /\ u = PopFront(q, k)
      OBVIOUS
    <2>2. UpdateOrDrop(u)
      BY <1>2, <1>6, <2>1 DEF LPop
    <2>3. Tidy(q) /\ s = Contents(q) /\ Len(s) = q.count
      BY <1>2, <1>6, <2>1, HeldIs
    <2>4. Tidy(u) /\ Contents(u) = SubSeq(s, k + 1, Len(s))
      BY <1>4, <2>1, <2>3, PopFrontIsTidy
    <2> QED BY <1>5, <2>2, <2>4, UpdateOrDropHeld
  <1>7. CASE ~Exists
    <2>1. Held' = s /\ s = <<>> /\ Len(s) = 0
      BY <1>2, <1>7, HeldIs, NothingHeld DEF LPop
    <2>2. SubSeq(s, k + 1, Len(s)) = <<>>
      <3>1. k + 1 \in Int /\ Len(s) \in Int /\ Len(s) < k + 1
        BY <1>4, <2>1
      <3> QED BY <3>1, SubSeqEmpty
    <2> QED BY <1>5, <2>1, <2>2
  <1> QED BY <1>6, <1>7

\* RPOP.
LEMMA RPopPromised == ASSUME LInv, NEW n \in Indices, RPop(n) PROVE Promise!RPop(n)
  <1>0. Promise!Given("RPOP", <<n>>)
    BY DEF RPop, Given, Promise!Given
  <1>1. n \in Nat /\ n >= 0
    BY SizesAssumption DEF RPop, Indices
  <1>2. PICK k, s : k = Popped(n) /\ s = Held
    OBVIOUS
  <1>3. Promise!Asked(n) = k /\ k \in 0 .. Len(s) /\ s \in Seq(Elements)
    BY <1>1, <1>2, PoppedIsAsked, HeldIs
  <1>4. answer' = Items(SubSeq(Promise!Reverse(s), 1, k))
    <2>1. answer' = Items(Reverse(SubSeq(s, Len(s) - k + 1, Len(s))))
      BY <1>2 DEF RPop, Answers
    <2>2. Reverse(SubSeq(s, Len(s) - k + 1, Len(s))) = SubSeq(Reverse(s), 1, k)
      BY <1>3, ReverseOfEnd
    <2> QED BY <2>1, <2>2, SameOperators
  <1>5. CASE Held' = SubSeq(s, 1, Len(s) - k)
    BY <1>1, <1>2, <1>3, <1>4, <1>0, <1>5 DEF Promise!RPop, Promise!Becomes,
       Promise!Items, Items
  <1>6. CASE Exists
    <2>1. PICK q, u : q = deque /\ u = PopBack(q, k)
      OBVIOUS
    <2>2. UpdateOrDrop(u)
      BY <1>2, <1>6, <2>1 DEF RPop
    <2>3. Tidy(q) /\ s = Contents(q) /\ Len(s) = q.count
      BY <1>2, <1>6, <2>1, HeldIs
    <2>4. k \in 1 .. q.count
      BY <1>1, <1>2, <1>6, <2>1, PoppedIs
    <2>5. Tidy(u) /\ Contents(u) = SubSeq(s, 1, Len(s) - k)
      BY <2>1, <2>3, <2>4, PopBackIsTidy
    <2> QED BY <1>5, <2>2, <2>5, UpdateOrDropHeld
  <1>7. CASE ~Exists
    <2>1. Held' = s /\ s = <<>> /\ Len(s) = 0
      BY <1>2, <1>7, HeldIs, NothingHeld DEF RPop
    <2>2. SubSeq(s, 1, Len(s) - k) = <<>>
      <3>1. Len(s) - k \in Int /\ Len(s) - k < 1
        BY <1>3, <2>1
      <3> QED BY <3>1, SubSeqEmpty
    <2> QED BY <1>5, <2>1, <2>2
  <1> QED BY <1>6, <1>7

-----------------------------------------------------------------------------
\* Indices mean the same in the buffer and in the list.
LEMMA PositionIs ==
    ASSUME NEW d, Len(Held) = d.count, d.count \in Nat, NEW i \in Int
    PROVE  Promise!Position(i) = FromEnd(d, i) + 1 /\ FromEnd(d, i) \in Int
  BY DEF Promise!Position, FromEnd

\* No index is one of an empty list.
LEMMA NoPosition ==
    ASSUME Held = <<>>, NEW i \in Int, NEW j \in Int
    PROVE  Promise!Position(i) \notin 1 .. Len(Held) /\ Promise!Part(i, j) = <<>>
  <1>1. Len(Held) = 0
    OBVIOUS
  <1>2. {p \in 1 .. Len(Held) : Promise!Position(i) <= p /\ p <= Promise!Position(j)} = {}
    BY <1>1
  <1> QED BY <1>1, <1>2 DEF Promise!Part

\* A part, from its first and last position.
LEMMA PartIs ==
    ASSUME NEW start \in Int, NEW stop \in Int, NEW l \in Nat, l = Len(Held),
           NEW a \in Int, NEW b \in Int, Promise!Position(start) \in Int,
           Promise!Position(stop) \in Int,
           a = IF Promise!Position(start) < 1 THEN 1 ELSE Promise!Position(start),
           b = IF Promise!Position(stop) > l THEN l ELSE Promise!Position(stop)
    PROVE  Promise!Part(start, stop) = SubSeq(Held, a, b)
  <1>1. PICK f, g, s : f = Promise!Position(start) /\ g = Promise!Position(stop) /\ s = Held
    OBVIOUS
  <1>2. f \in Int /\ g \in Int /\ a = (IF f < 1 THEN 1 ELSE f) /\ b = IF g > l THEN l ELSE g
    BY <1>1
  <1>3. PICK P : P = {p \in 1 .. l : f <= p /\ p <= g}
    OBVIOUS
  <1>4. P = a .. b
    BY <1>2, <1>3
  <1>5. Promise!Part(start, stop) = IF P = {} THEN <<>>
                                    ELSE SubSeq(s, Promise!Min(P), Promise!Max(P))
    BY <1>1, <1>3 DEF Promise!Part
  <1>6. CASE b < a
    <2>1. P = {}
      BY <1>4, <1>6
    <2> QED BY <1>1, <1>5, <1>6, <2>1, SubSeqEmpty
  <1>7. CASE a <= b
    <2>1. a \in P /\ b \in P /\ P # {}
      BY <1>4, <1>7
    <2>2. Promise!Min(P) = a
      BY <1>4, <2>1 DEF Promise!Min
    <2>3. Promise!Max(P) = b
      BY <1>4, <2>1 DEF Promise!Max
    <2> QED BY <1>1, <1>5, <2>1, <2>2, <2>3
  <1> QED BY <1>6, <1>7

\* What LRANGE and LTRIM take of the buffer is the part asked for.
LEMMA SliceIsPart ==
    ASSUME NEW d, Tidy(d), Held = Contents(d), NEW start \in Int, NEW stop \in Int
    PROVE  Slice(d, start, stop) = Promise!Part(start, stop)
  <1>1. Len(Held) = d.count /\ d.count \in Nat
    BY TidyFacts
  <1>2. PICK f, g, m, a, b : /\ f = FromEnd(d, start) /\ g = FromEnd(d, stop) /\ m = d.count
                             /\ a = RangeFirst(d, start) + 1 /\ b = RangeLast(d, stop) + 1
    OBVIOUS
  <1>3. /\ f \in Int /\ g \in Int /\ m \in Nat
        /\ Promise!Position(start) = f + 1 /\ Promise!Position(stop) = g + 1
    BY <1>1, <1>2, PositionIs
  <1>4. a = (IF f < 0 THEN 0 ELSE f) + 1 /\ b = (IF g >= m THEN m - 1 ELSE g) + 1
    BY <1>2 DEF RangeFirst, RangeLast
  <1>5. /\ a \in Int /\ b \in Int /\ a = (IF f + 1 < 1 THEN 1 ELSE f + 1)
        /\ b = IF g + 1 > m THEN m ELSE g + 1
    BY <1>3, <1>4
  <1>6. f + 1 \in Int /\ g + 1 \in Int
    BY <1>3
  <1>7. Promise!Part(start, stop) = SubSeq(Held, a, b)
    BY <1>1, <1>2, <1>3, <1>5, <1>6, PartIs
  <1>8. Slice(d, start, stop) = SubSeq(Contents(d), a, b)
    BY <1>2 DEF Slice
  <1> QED BY <1>7, <1>8

\* LRANGE.
LEMMA LRangePromised ==
    ASSUME LInv, NEW start \in Indices, NEW stop \in Indices, LRange(start, stop)
    PROVE Promise!LRange(start, stop)
  <1>0. Promise!Given("LRANGE", <<start, stop>>)
    BY DEF LRange, Given, Promise!Given
  <1>1. start \in Int /\ stop \in Int
    BY SizesAssumption DEF Indices
  <1>2. Held' = Held
    BY NothingHeld DEF LRange
  <1>3. CASE answer' = Items(Promise!Part(start, stop))
    BY <1>2, <1>0, <1>3 DEF Promise!LRange, Promise!Items, Items
  <1>4. CASE Exists
    <2>1. answer' = Items(Slice(deque, start, stop))
      BY <1>4 DEF LRange, Answers
    <2>2. Slice(deque, start, stop) = Promise!Part(start, stop)
      BY <1>1, <1>4, HeldIs, SliceIsPart
    <2> QED BY <1>3, <2>1, <2>2
  <1>5. CASE ~Exists
    <2>1. answer' = Items(<<>>)
      BY <1>5 DEF LRange, Answers
    <2>2. Promise!Part(start, stop) = <<>>
      BY <1>1, <1>5, HeldIs, NoPosition
    <2> QED BY <1>3, <2>1, <2>2
  <1> QED BY <1>4, <1>5

\* LTRIM: one that keeps nothing deletes the list.
LEMMA LTrimPromised ==
    ASSUME LInv, NEW start \in Indices, NEW stop \in Indices, LTrim(start, stop)
    PROVE Promise!LTrim(start, stop)
  <1>0. Promise!Given("LTRIM", <<start, stop>>)
    BY DEF LTrim, Given, Promise!Given
  <1>1. start \in Int /\ stop \in Int
    BY SizesAssumption DEF Indices
  <1>2. answer' = Done
    BY DEF LTrim, Answers
  <1>3. CASE Held' = Promise!Part(start, stop)
    BY <1>2, <1>0, <1>3 DEF Promise!LTrim, Promise!Becomes, Promise!Done, Done
  <1>4. CASE Exists
    <2>1. PICK q, u : q = deque /\ u = Trim(deque, start, stop)
      OBVIOUS
    <2>2. Tidy(q) /\ Held = Contents(q)
      BY <1>4, <2>1, HeldIs
    <2>3. Tidy(u) /\ Contents(u) = Promise!Part(start, stop)
      BY <1>1, <2>1, <2>2, TrimIsTidy, SliceIsPart
    <2>4. Held' = Contents(u)
      <3>1. CASE u.count = 0
        <4>1. UpdateOrDrop(u)
          BY <1>4, <2>1, <3>1 DEF LTrim, UpdateOrDrop
        <4> QED BY <2>3, <4>1, UpdateOrDropHeld
      <3>2. CASE u.count # 0
        <4>1. deque' = u
          BY <1>4, <2>1, <3>2 DEF LTrim, Update
        <4> QED BY <2>3, <4>1, HeldBecomes
      <3> QED BY <3>1, <3>2
    <2> QED BY <1>3, <2>3, <2>4
  <1>5. CASE ~Exists
    <2>1. Held' = Held /\ Held = <<>>
      BY <1>5, HeldIs, NothingHeld DEF LTrim
    <2>2. Promise!Part(start, stop) = <<>>
      BY <1>1, <2>1, NoPosition
    <2> QED BY <1>3, <2>1, <2>2
  <1> QED BY <1>4, <1>5

\* LSET.
LEMMA LSetPromised ==
    ASSUME LInv, NEW i \in Indices, NEW e \in Elements, LSet(i, e) PROVE Promise!LSet(i, e)
  <1>0. Promise!Given("LSET", <<i, e>>)
    BY DEF LSet, Given, Promise!Given
  <1>1. i \in Int
    BY SizesAssumption DEF Indices
  <1>2. PICK p, s : p = Promise!Position(i) /\ s = Held
    OBVIOUS
  <1>3. CASE p \in 1 .. Len(s) /\ answer' = Done /\ Held' = [s EXCEPT ![p] = e]
    BY <1>2, <1>0, <1>3 DEF Promise!LSet, Promise!Becomes, Promise!Done, Done
  <1>4. CASE p \notin 1 .. Len(s) /\ answer' = Refused /\ Held' = s
    BY <1>2, <1>0, <1>4 DEF Promise!LSet, Promise!Refused, Refused
  <1>5. CASE Exists /\ FromEnd(deque, i) \in 0 .. deque.count - 1
    <2>1. PICK q, k, u : q = deque /\ k = FromEnd(q, i) /\ u = SetAt(q, k, e)
      OBVIOUS
    <2>2. /\ Tidy(q) /\ s = Contents(q) /\ Len(s) = q.count /\ q.count \in Nat
          /\ k \in 0 .. q.count - 1
      BY <1>2, <1>5, <2>1, HeldIs, TidyFacts
    <2>3. deque' = u /\ answer' = Done
      BY <1>5, <2>1 DEF LSet, Update, Answers
    <2>4. Tidy(u) /\ Contents(u) = [s EXCEPT ![k + 1] = e]
      BY <2>1, <2>2, SetIsTidy
    <2>5. p = k + 1
      BY <1>1, <1>2, <2>1, <2>2, PositionIs
    <2>6. p \in 1 .. Len(s)
      BY <2>2, <2>5
    <2> QED BY <1>3, <2>3, <2>4, <2>5, <2>6, HeldBecomes
  <1>6. CASE Exists /\ FromEnd(deque, i) \notin 0 .. deque.count - 1
    <2>1. PICK q, k : q = deque /\ k = FromEnd(q, i)
      OBVIOUS
    <2>2. Len(s) = q.count /\ q.count \in Nat /\ k \notin 0 .. q.count - 1
      BY <1>2, <1>6, <2>1, HeldIs, TidyFacts
    <2>3. p = k + 1 /\ k \in Int
      BY <1>1, <1>2, <2>1, <2>2, PositionIs
    <2>4. p \notin 1 .. Len(s)
      BY <2>2, <2>3
    <2>5. Held' = s /\ answer' = Refused
      BY <1>2, <1>6, NothingHeld DEF LSet, Answers
    <2> QED BY <1>4, <2>4, <2>5
  <1>7. CASE ~Exists
    <2>1. Held' = s /\ answer' = Refused
      BY <1>2, <1>7, NothingHeld DEF LSet, Answers
    <2>2. p \notin 1 .. Len(s)
      BY <1>1, <1>2, <1>7, HeldIs, NoPosition
    <2> QED BY <1>4, <2>1, <2>2
  <1> QED BY <1>5, <1>6, <1>7

\* LINDEX.
LEMMA LIndexPromised == ASSUME LInv, NEW i \in Indices, LIndex(i) PROVE Promise!LIndex(i)
  <1>0. Promise!Given("LINDEX", <<i>>)
    BY DEF LIndex, Given, Promise!Given
  <1>1. i \in Int
    BY SizesAssumption DEF Indices
  <1>2. Held' = Held
    BY NothingHeld DEF LIndex
  <1>3. CASE answer' = Items(Promise!Part(i, i))
    BY <1>2, <1>0, <1>3 DEF Promise!LIndex, Promise!Items, Items
  <1>4. CASE Exists
    <2>1. PICK q, k, s, p, m : /\ q = deque /\ k = FromEnd(q, i) /\ s = Held
                               /\ p = Promise!Position(i) /\ m = q.count
      OBVIOUS
    <2>2. Tidy(q) /\ s = Contents(q) /\ Len(s) = m /\ m \in Nat /\ s \in Seq(Elements)
      BY <1>4, <2>1, HeldIs, TidyFacts
    <2>3. p = k + 1 /\ k \in Int
      BY <1>1, <2>1, <2>2, PositionIs
    <2>4. PICK a, b : a = (IF p < 1 THEN 1 ELSE p) /\ b = IF p > m THEN m ELSE p
      OBVIOUS
    <2>5. Promise!Part(i, i) = SubSeq(s, a, b)
      <3>1. a \in Int /\ b \in Int /\ p \in Int
        BY <2>2, <2>3, <2>4
      <3>2. /\ a = IF Promise!Position(i) < 1 THEN 1 ELSE Promise!Position(i)
            /\ b = IF Promise!Position(i) > m THEN m ELSE Promise!Position(i)
            /\ Promise!Position(i) \in Int
            /\ m = Len(Held) /\ m \in Nat
        BY <2>1, <2>2, <2>4, <3>1
      <3>3. Promise!Part(i, i) = SubSeq(Held, a, b)
        BY <1>1, <3>1, <3>2, PartIs
      <3> QED BY <2>1, <3>3
    <2>6. CASE k \in 0 .. m - 1
      <3>1. answer' = Items(<<q.data[Slot(q, k)]>>)
        BY <1>4, <2>1, <2>6 DEF LIndex, Answers
      <3>2. p \in 1 .. m /\ a = p /\ b = p /\ p - 1 = k
        BY <2>2, <2>3, <2>4, <2>6
      <3>3. s[p] = q.data[Slot(q, k)]
        BY <2>1, <2>2, <3>2, ContentsAre DEF Tidy
      <3>4. SubSeq(s, p, p) = <<s[p]>>
        <4>1. p \in 1 .. Len(s) /\ p \in p .. Len(s) /\ p + 1 \in Int /\ p < p + 1 /\ p \in Int
          BY <2>2, <3>2
        <4>2. SubSeq(s, p, p) = <<s[p]>> \o SubSeq(s, p + 1, p)
          BY <2>2, <4>1, SubSeqRecursiveFirst
        <4>3. SubSeq(s, p + 1, p) = <<>>
          BY <4>1, SubSeqEmpty
        <4>4. <<s[p]>> \in Seq(Elements)
          <5>1. s[p] \in Elements
            BY <2>2, <4>1, ElementOfSeq
          <5> QED BY <5>1
        <4> QED BY <4>2, <4>3, <4>4, ConcatEmptySeq
      <3> QED BY <1>3, <2>5, <3>1, <3>2, <3>3, <3>4
    <2>7. CASE k \notin 0 .. m - 1
      <3>1. answer' = Items(<<>>)
        BY <1>4, <2>1, <2>7 DEF LIndex, Answers
      <3>2. a \in Int /\ b \in Int /\ b < a
        BY <2>2, <2>3, <2>4, <2>7
      <3> QED BY <1>3, <2>5, <3>1, <3>2, SubSeqEmpty
    <2> QED BY <2>6, <2>7
  <1>5. CASE ~Exists
    <2>1. answer' = Items(<<>>)
      BY <1>5 DEF LIndex, Answers
    <2>2. Promise!Part(i, i) = <<>>
      BY <1>1, <1>5, HeldIs, NoPosition
    <2> QED BY <1>3, <2>1, <2>2
  <1> QED BY <1>4, <1>5

-----------------------------------------------------------------------------
\* Places only grow, at every element that is kept.
LEMMA PlacesGrow ==
    ASSUME NEW l \in Nat, NEW I \in SUBSET (1 .. l), NEW a \in 0 .. l, NEW b \in 0 .. l, a <= b
    PROVE  /\ Place(I, a) \in Nat /\ Place(I, b) \in Nat /\ Place(I, a) <= Place(I, b)
           /\ a < b /\ b \notin I => Place(I, a) < Place(I, b)
  <1>1. PICK A, B : A = (1 .. a) \ I /\ B = (1 .. b) \ I
    OBVIOUS
  <1>2. IsFiniteSet(1 .. a) /\ IsFiniteSet(1 .. b)
    <2>1. a \in Int /\ b \in Int /\ 1 \in Int
      OBVIOUS
    <2> QED BY <2>1, FS_Interval
  <1>3. IsFiniteSet(A) /\ IsFiniteSet(B)
    BY <1>1, <1>2, FS_Difference
  <1>4. PICK x \in Nat, y \in Nat : x = Cardinality(A) /\ y = Cardinality(B)
    BY <1>3, FS_CardinalityType
  <1>5. A \subseteq B
    BY <1>1
  <1>6. x <= y
    BY <1>3, <1>4, <1>5, FS_Subset
  <1>7. ASSUME a < b, b \notin I PROVE x < y
    <2>1. b \notin A /\ A \cup {b} \subseteq B
      BY <1>1, <1>7
    <2>2. Cardinality(A \cup {b}) = x + 1
      BY <1>3, <1>4, <2>1, FS_AddElement
    <2>3. x + 1 <= y
      BY <1>3, <1>4, <2>1, <2>2, FS_Subset
    <2> QED BY <2>3
  <1> QED BY <1>1, <1>4, <1>6, <1>7 DEF Place

\* Removing keeps the others, in their order.
LEMMA WithoutKeeps ==
    ASSUME Held \in Seq(Elements), NEW I \in SUBSET (1 .. Len(Held))
    PROVE  Promise!Keeps(Without(Held, I), (1 .. Len(Held)) \ I)
  <1>1. PICK l \in Nat, s \in {Held} : l = Len(Held)
    BY LenProperties
  <1>2. PICK w, K : w = Without(s, I) /\ K = (1 .. l) \ I
    OBVIOUS
  <1>3. PICK n \in Nat : n = Place(I, l) /\ Len(w) = n
    <2>1. Len(w) = l - Cardinality(I) /\ Cardinality(I) \in 0 .. l
      BY <1>1, <1>2, WithoutIs
    <2>2. IsFiniteSet(1 .. l) /\ Cardinality(1 .. l) = l
      <3>1. Cardinality(1 .. l) = IF 1 > l THEN 0 ELSE l - 1 + 1
        BY FS_Interval
      <3> QED BY <3>1, FS_Interval
    <2>3. (1 .. l) \cap I = I
      BY <1>1
    <2>4. Cardinality((1 .. l) \ I) = Cardinality(1 .. l) - Cardinality((1 .. l) \cap I)
      BY <2>2, FS_Difference
    <2>5. Place(I, l) = l - Cardinality(I)
      BY <2>2, <2>3, <2>4 DEF Place
    <2>6. l - Cardinality(I) \in Nat
      BY <2>1
    <2> QED BY <2>1, <2>5, <2>6
  <1>4. PICK f : f = [i \in 1 .. n |-> CHOOSE j \in (1 .. l) \ I : Cardinality((1 .. j) \ I) = i]
    OBVIOUS
  <1>5. ASSUME NEW i \in 1 .. n PROVE f[i] \in K /\ Place(I, f[i]) = i
    <2>1. \E j \in 1 .. l : j \notin I /\ Place(I, j) = i
      <3>1. I \in SUBSET (1 .. l)
        BY <1>1
      <3> QED BY <1>3, <3>1, Counting
    <2>2. PICK j : j = CHOOSE x \in (1 .. l) \ I : Cardinality((1 .. x) \ I) = i
      OBVIOUS
    <2>3. j \in (1 .. l) \ I /\ Cardinality((1 .. j) \ I) = i
      BY <2>1, <2>2 DEF Place
    <2>4. f[i] = j
      BY <1>4, <2>2
    <2> QED BY <1>2, <2>3, <2>4 DEF Place
  <1>6. ASSUME NEW i \in 1 .. n PROVE w[i] = s[f[i]]
    <2>1. w = [x \in 1 .. Len(s) - Cardinality(I) |->
                 s[CHOOSE j \in (1 .. Len(s)) \ I : Cardinality((1 .. j) \ I) = x]]
      BY <1>2 DEF Without
    <2>2. Len(s) = l /\ Len(s) - Cardinality(I) = n
      BY <1>1, <1>2, <1>3, WithoutIs
    <2>3. w = [x \in 1 .. n |-> s[CHOOSE j \in (1 .. l) \ I : Cardinality((1 .. j) \ I) = x]]
      BY <2>1, <2>2
    <2>4. w[i] = s[CHOOSE j \in (1 .. l) \ I : Cardinality((1 .. j) \ I) = i]
      BY <2>3
    <2>5. f[i] = CHOOSE j \in (1 .. l) \ I : Cardinality((1 .. j) \ I) = i
      BY <1>4
    <2> QED BY <2>4, <2>5
  <1>7. \A a, b \in 0 .. l : a <= b =>
           /\ Place(I, a) \in Nat /\ Place(I, b) \in Nat /\ Place(I, a) <= Place(I, b)
           /\ a < b /\ b \notin I => Place(I, a) < Place(I, b)
    <2>1. I \in SUBSET (1 .. l)
      BY <1>1
    <2> QED BY <2>1, PlacesGrow
  <1>8. ASSUME NEW i \in 1 .. n, NEW j \in 1 .. n, i < j PROVE f[i] < f[j]
    <2>1. PICK a, b : a = f[i] /\ b = f[j]
      OBVIOUS
    <2>2. a \in 0 .. l /\ b \in 0 .. l /\ Place(I, a) = i /\ Place(I, b) = j
      BY <1>2, <1>5, <2>1
    <2>3. ~ (b <= a)
      BY <1>7, <1>8, <2>2
    <2> QED BY <2>1, <2>2, <2>3
  <1>9. ASSUME NEW p \in K PROVE \E i \in 1 .. n : f[i] = p
    <2>1. p \in 1 .. l /\ p \in 0 .. l /\ 0 \in 0 .. l /\ l \in 0 .. l /\ p \notin I
      BY <1>2
    <2>2. PICK i \in Nat : i = Place(I, p)
      BY <1>7, <2>1
    <2>3. i <= n
      <3>1. p <= l
        BY <2>1
      <3> QED BY <1>3, <1>7, <2>1, <2>2, <3>1
    <2>4. i >= 1
      <3>1. 0 <= p /\ 0 < p
        BY <2>1
      <3>2. Place(I, 0) \in Nat /\ Place(I, 0) < i
        BY <1>7, <2>1, <2>2, <3>1
      <3> QED BY <3>2
    <2>5. i \in 1 .. n
      BY <2>3, <2>4
    <2>6. PICK q : q = f[i]
      OBVIOUS
    <2>7. q \in 0 .. l /\ q \notin I /\ Place(I, q) = i
      BY <1>2, <1>5, <2>5, <2>6
    <2>8. ~ (p < q) /\ ~ (q < p)
      <3>1. ASSUME p < q PROVE FALSE
        <4>1. p <= q
          BY <2>1, <2>7, <3>1
        <4>2. i < i
          BY <1>7, <2>1, <2>2, <2>7, <3>1, <4>1
        <4> QED BY <4>2
      <3>2. ASSUME q < p PROVE FALSE
        <4>1. q <= p
          BY <2>1, <2>7, <3>2
        <4>2. i < i
          BY <1>7, <2>1, <2>2, <2>7, <3>2, <4>1
        <4> QED BY <4>2
      <3> QED BY <3>1, <3>2
    <2>9. q = p
      BY <2>1, <2>7, <2>8
    <2> QED BY <2>5, <2>6, <2>9
  <1>10. f \in Promise!Surjection(1 .. n, K)
    <2>1. f \in [1 .. n -> K]
      BY <1>4, <1>5
    <2> QED BY <1>9, <2>1 DEF Promise!Surjection
  <1>11. \E g \in Promise!Surjection(1 .. Len(w), K) :
           /\ \A i, j \in 1 .. Len(w) : i < j => g[i] < g[j]
           /\ \A i \in 1 .. Len(w) : w[i] = Held[g[i]]
    BY <1>1, <1>3, <1>6, <1>8, <1>10
  <1> QED BY <1>1, <1>2, <1>11 DEF Promise!Keeps

\* Keeping everything changes nothing.
LEMMA AllKept ==
    ASSUME Held \in Seq(Elements) PROVE Promise!Keeps(Held, (1 .. Len(Held)) \ {})
  <1>1. PICK l \in Nat : l = Len(Held)
    BY LenProperties
  <1>2. PICK f : f = [i \in 1 .. l |-> i]
    OBVIOUS
  <1>3. f \in Promise!Surjection(1 .. l, (1 .. l) \ {})
    BY <1>2 DEF Promise!Surjection
  <1>4. \A i, j \in 1 .. l : i < j => f[i] < f[j]
    BY <1>2
  <1>5. \A i \in 1 .. l : Held[i] = Held[f[i]]
    BY <1>2
  <1> QED BY <1>1, <1>3, <1>4, <1>5 DEF Promise!Keeps

\* The promise counts like this.
LEMMA SameCount == ASSUME NEW S PROVE Promise!Cardinality(S) = Cardinality(S)
  BY DEF Promise!Cardinality, Cardinality

\* LREM takes the positions the promise chooses.
LEMMA DoomedIsChosen ==
    ASSUME NEW n, NEW e
    PROVE  Promise!Chosen(n, e) = Doomed(Held, n, e)
  <1>1. PICK s, l : s = Held /\ l = Len(s)
    OBVIOUS
  <1>2. PICK A, B : A = Promise!Chosen(n, e) /\ B = Doomed(s, n, e)
    OBVIOUS
  <1>3. ASSUME NEW p \in 1 .. l PROVE p \in A <=> p \in B
    <2>1. PICK F, T : F = {q \in 1 .. p : s[q] = e} /\ T = {q \in p .. l : s[q] = e}
      OBVIOUS
    <2>2. p \in A <=> /\ s[p] = e
                      /\ n > 0 => Promise!Cardinality(F) <= n
                      /\ n < 0 => Promise!Cardinality(T) <= -n
      BY <1>1, <1>2, <2>1 DEF Promise!Chosen
    <2>3. p \in B <=> /\ s[p] = e
                      /\ n > 0 => Cardinality(F) <= n
                      /\ n < 0 => Cardinality(T) <= -n
      BY <1>1, <1>2, <2>1 DEF Doomed, Occurrences
    <2> QED BY <2>2, <2>3, SameCount
  <1>4. A \subseteq 1 .. l /\ B \subseteq 1 .. l
    BY <1>1, <1>2 DEF Promise!Chosen, Doomed
  <1>5. A = B
    BY <1>3, <1>4
  <1> QED BY <1>1, <1>2, <1>5

LEMMA LRemPromised ==
    ASSUME LInv, NEW n \in Indices, NEW e \in Elements, LRem(n, e) PROVE Promise!LRem(n, e)
  <1>0. Promise!Given("LREM", <<n, e>>)
    BY DEF LRem, Given, Promise!Given
  <1>1. n \in Int
    BY SizesAssumption DEF Indices
  <1>2. PICK I, s : I = Doomed(Held, n, e) /\ s = Held
    OBVIOUS
  <1>3. s \in Seq(Elements) /\ I \in SUBSET (1 .. Len(s))
    BY <1>2, HeldIs DEF Doomed
  <1>4. CASE /\ answer' = Num(Cardinality(I))
             /\ Promise!Keeps(Held', (1 .. Len(s)) \ I)
    <2>1. I = Promise!Chosen(n, e)
      BY <1>2, DoomedIsChosen
    <2>2. answer' = Num(Promise!Cardinality(I))
      BY <1>4, SameCount
    <2>3. Promise!LRem(n, e)
      BY <1>0, <1>2, <1>4, <2>1, <2>2 DEF Promise!LRem, Promise!Num, Num
    <2> QED BY <2>3
  <1>5. CASE Held' = s /\ I = {} /\ answer' = Num(0)
    <2>1. Promise!Keeps(s, (1 .. Len(s)) \ {})
      BY <1>2, <1>3, AllKept
    <2>2. Cardinality(I) = 0
      BY <1>5, FS_EmptySet
    <2> QED BY <1>4, <1>5, <2>1, <2>2
  <1>6. CASE Exists
    <2>1. PICK q, u, m : q = deque /\ u = RemoveElement(deque, n, e) /\ m = q.count
      OBVIOUS
    <2>2. Tidy(q) /\ s = Contents(q) /\ Len(s) = m /\ m \in Nat
      BY <1>2, <1>6, <2>1, HeldIs, TidyFacts
    <2>3. UpdateOrDrop(u) /\ answer' = Num(m - u.count)
      BY <1>6, <2>1 DEF LRem, Answers
    <2>4. /\ Tidy(u)
          /\ (I = {} /\ u = q) \/ Contents(u) = Without(s, I)
      BY <1>1, <1>2, <2>1, <2>2, RemoveIsTidy
    <2>5. Held' = Contents(u)
      BY <2>3, <2>4, UpdateOrDropHeld
    <2>6. CASE I = {} /\ u = q
      <3>1. m - u.count = 0
        BY <2>1, <2>2, <2>6
      <3> QED BY <1>5, <2>2, <2>3, <2>5, <2>6, <3>1
    <2>7. CASE Contents(u) = Without(s, I)
      <3>1. Len(Without(s, I)) = m - Cardinality(I) /\ Cardinality(I) \in 0 .. m
        BY <1>3, <2>2, WithoutIs
      <3>2. u.count = m - Cardinality(I)
        BY <2>4, <2>7, <3>1, TidyFacts
      <3>3. m - u.count = Cardinality(I)
        BY <2>2, <3>1, <3>2
      <3>4. Promise!Keeps(Without(s, I), (1 .. Len(s)) \ I)
        BY <1>2, <1>3, WithoutKeeps
      <3> QED BY <1>4, <2>3, <2>5, <2>7, <3>3, <3>4
    <2> QED BY <2>4, <2>6, <2>7
  <1>7. CASE ~Exists
    <2>1. Held' = s /\ answer' = Num(0)
      BY <1>2, <1>7, NothingHeld DEF LRem, Answers
    <2>2. Len(s) = 0
      BY <1>2, <1>7, HeldIs
    <2>3. I = {}
      BY <1>3, <2>2
    <2> QED BY <1>5, <2>1, <2>3
  <1> QED BY <1>6, <1>7

(***************************************************************************)
(* The commands implement the list of AbstractList, for every value of the *)
(* constants: whatever the layout of the buffer, however it grew, wrapped  *)
(* round or was trimmed, the list is what the commands make of it and each *)
(* answer is the right one (list_operations.go; deque.go).                 *)
(***************************************************************************)
THEOREM ListsImplementThePromise == Spec => ImplementsList
  <1>1. Init => Promise!LInit
    <2>1. Init => /\ Held = <<>> /\ answer = Items(<<>>)
                /\ asked = <<"nothing", <<>>>>
      BY DEF Init, Held, Exists
    <2> QED BY <2>1 DEF Promise!LInit, Promise!Items, Items
  <1>2. LInv /\ [Next]_vars => [Promise!LNext]_(Promise!lvars)
    <2> SUFFICES ASSUME LInv, [Next]_vars PROVE [Promise!LNext]_(Promise!lvars)
      OBVIOUS
    <2>1. ASSUME NEW es \in Batches, LPush(es) \/ RPush(es) \/ LPushUnique(es) \/ RPushUnique(es)
          PROVE  Promise!LNext
      BY <2>1, LPushPromised, RPushPromised, LPushUniquePromised, RPushUniquePromised
         DEF Promise!LNext
    <2>2. ASSUME NEW n \in Indices, LPop(n) \/ RPop(n) \/ LIndex(n)
          PROVE  Promise!LNext
      BY <2>2, LPopPromised, RPopPromised, LIndexPromised DEF Promise!LNext
    <2>3. ASSUME NEW n \in Indices, NEW e \in Elements, LSet(n, e) \/ LRem(n, e)
          PROVE  Promise!LNext
      BY <2>3, LSetPromised, LRemPromised DEF Promise!LNext
    <2>4. ASSUME NEW n \in Indices, NEW stop \in Indices, LTrim(n, stop) \/ LRange(n, stop)
          PROVE  Promise!LNext
      BY <2>4, LTrimPromised, LRangePromised DEF Promise!LNext
    <2>5. CASE PushX \/ Delete \/ LLen
      BY <2>5, PushXPromised, DeletePromised, LLenPromised DEF Promise!LNext
    <2>6. CASE UNCHANGED vars
      <3>1. UNCHANGED <<Held, asked, answer>>
        BY <2>6 DEF vars, Held, Exists
      <3> QED BY <3>1 DEF Promise!lvars
    <2> QED BY <2>1, <2>2, <2>3, <2>4, <2>5, <2>6 DEF Next
  <1> QED BY <1>1, <1>2, ListsStaySound, PTL DEF Spec, ImplementsList, Promise!LSpec

=============================================================================
