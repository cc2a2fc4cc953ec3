------------------------------- MODULE Deque -------------------------------
(***************************************************************************)
(* The ring buffer of internal/store/deque.go, as operators on a record    *)
(*                                                                         *)
(*   data     the slots, Blank where the code keeps ""; slot i of the code *)
(*            is data[i + 1]                                               *)
(*   head     the slot of the first element                                *)
(*   tail     the slot after the last one                                  *)
(*   count    the number of elements                                       *)
(*   content  the cached sum of their lengths (contentSize)                *)
(*                                                                         *)
(* An element is represented by its length: nothing here tells two         *)
(* elements of one length apart.                                           *)
(***************************************************************************)
EXTENDS Integers, Sequences, FiniteSets

CONSTANTS Elements,         \* what a list holds
          InitialCapacity   \* dequeInitialCapacity, 8 in the code

ASSUME ElementsAssumption == Elements \subseteq Nat \ {0}
ASSUME CapacityAssumption == InitialCapacity \in Nat \ {0}

Deques == [data : Seq(Nat), head : Nat, tail : Nat, count : Nat, content : Int]

Blank == 0

Blanks(n) == [i \in 1 .. n |-> Blank]

Cap(d) == Len(d.data)

\* (d.head + i) % len(d.data), as an index of data.
Slot(d, i) == ((d.head + i) % Cap(d)) + 1

\* ToSlice: the list the buffer holds.
Contents(d) == [i \in 1 .. d.count |-> d.data[Slot(d, i - 1)]]

\* The elements of s, each as many times as it is long.
Bytes(s) == UNION {{i} \X (1 .. s[i]) : i \in DOMAIN s}

SizeOf(s) == Cardinality(Bytes(s))

NewDeque == [data |-> Blanks(InitialCapacity),
             head |-> 0, tail |-> 0, count |-> 0, content |-> 0]


\* grow: only called on a full buffer.
Grow(d) ==
    LET held == IF d.head < d.tail
                THEN SubSeq(d.data, d.head + 1, d.tail)
                ELSE SubSeq(d.data, d.head + 1, Cap(d)) \o SubSeq(d.data, 1, d.tail)
    IN  [d EXCEPT !.data = held \o Blanks(2 * Cap(d) - Len(held)),
                  !.head = 0, !.tail = d.count]

Room(d) == IF d.count = Cap(d) THEN Grow(d) ELSE d

\* PushFront and PushBack, of one element.
PushFront(e, d) ==
    LET r == Room(d)
        h == (r.head - 1 + Cap(r)) % Cap(r)
    IN  [r EXCEPT !.data[h + 1] = e, !.head = h,
                  !.count = @ + 1, !.content = @ + e]

\* Mistake: the tail runs on past the last slot.
PushBackRunsOn(d, e) ==
    LET r == Room(d)
    IN  [r EXCEPT !.data[r.tail + 1] = e, !.tail = @ + 1,
                  !.count = @ + 1, !.content = @ + e]

PushBack(d, e) ==
    LET r == Room(d)
    IN  [r EXCEPT !.data[r.tail + 1] = e, !.tail = (@ + 1) % Cap(r),
                  !.count = @ + 1, !.content = @ + e]

\* data[tail] does not exist: Go panics.
PushBackPanics(d) == d.count # Cap(d) /\ d.tail = Cap(d)

\* The slots of the elements from i to j (from 0) are cleared.
Cleared(d, i, j) ==
    LET slots == {Slot(d, x) : x \in i .. j}
    IN  [s \in 1 .. Cap(d) |-> IF s \in slots THEN Blank ELSE d.data[s]]

\* Mistake: the slot is cleared before its length is taken.
PopFrontUncounted(d, n) ==
    [d EXCEPT !.data = Cleared(d, 0, n - 1),
              !.head = (@ + n) % Cap(d), !.count = @ - n]

\* PopFront and PopBack: of the n elements asked for, those that are there.
PopFront(d, n) ==
    [d EXCEPT !.data = Cleared(d, 0, n - 1),
              !.head = (@ + n) % Cap(d), !.count = @ - n,
              !.content = @ - SizeOf(SubSeq(Contents(d), 1, n))]

PopBack(d, n) ==
    [d EXCEPT !.data = Cleared(d, d.count - n, d.count - 1),
              !.tail = (@ - n + Cap(d)) % Cap(d), !.count = @ - n,
              !.content = @ - SizeOf(SubSeq(Contents(d), d.count - n + 1, d.count))]

\* Set, at an index within the list.
SetAt(d, i, e) == [d EXCEPT !.data[Slot(d, i)] = e,
                            !.content = @ - d.data[Slot(d, i)] + e]

\* Remove and Trim put what they keep at the start of the same slots; the
\* tail is not taken modulo the capacity.
Rebuilt(d, kept) ==
    [d EXCEPT !.data = kept \o Blanks(Cap(d) - Len(kept)),
              !.head = 0, !.tail = Len(kept), !.count = Len(kept),
              !.content = SizeOf(kept)]

-----------------------------------------------------------------------------
\* Mistake: takes the last element for index -2.
FromEndShort(d, i) == IF i < 0 THEN d.count + i + 1 ELSE i

\* An index counted from the end, as LRANGE, LTRIM, LINDEX and LSET take it.
FromEnd(d, i) == IF i < 0 THEN d.count + i ELSE i

\* Range: first and last index of the part asked for; empty if first > last.
RangeFirst(d, start) == LET i == FromEnd(d, start) IN IF i < 0 THEN 0 ELSE i

RangeLast(d, stop) == LET i == FromEnd(d, stop)
                 IN  IF i >= d.count THEN d.count - 1 ELSE i

Slice(d, start, stop) == SubSeq(Contents(d), RangeFirst(d, start) + 1, RangeLast(d, stop) + 1)

Trim(d, start, stop) == Rebuilt(d, Slice(d, start, stop))

\* Which occurrences of e Remove takes: all; count from the head; -count from
\* the tail.
Occurrences(s, e, i, j) == Cardinality({x \in i .. j : s[x] = e})

Doomed(s, count, e) ==
    {i \in 1 .. Len(s) :
        /\ s[i] = e
        /\ count > 0 => Occurrences(s, e, 1, i) <= count
        /\ count < 0 => Occurrences(s, e, i, Len(s)) <= -count}

\* s without the elements at the indices of I.
Without(s, I) ==
    [i \in 1 .. Len(s) - Cardinality(I) |->
        s[CHOOSE j \in (1 .. Len(s)) \ I : Cardinality((1 .. j) \ I) = i]]

RemoveElement(d, count, e) ==
    LET doomed == Doomed(Contents(d), count, e)
    IN  IF doomed = {} THEN d ELSE Rebuilt(d, Without(Contents(d), doomed))

\* MemoryUsage, of which the fixed part is left out.
MemoryUsage(d) == Cap(d) + d.content

-----------------------------------------------------------------------------
(***************************************************************************)
(* head, tail and count agree; they say where the elements are, every slot *)
(* outside is cleared, and the cached size is the sum of the lengths.      *)
(***************************************************************************)
Layout(d) ==
    /\ d \in Deques
    /\ Cap(d) > 0 /\ d.count <= Cap(d) /\ d.head < Cap(d) /\ d.tail <= Cap(d)
    /\ (d.head + d.count) % Cap(d) = d.tail % Cap(d)

WellFormed(d) ==
    /\ Layout(d)
    /\ \A s \in 1 .. Cap(d) :
          IF \E i \in 0 .. d.count - 1 : s = Slot(d, i)
          THEN d.data[s] \in Elements
          ELSE d.data[s] = Blank
    /\ d.content = SizeOf(Contents(d))

=============================================================================
