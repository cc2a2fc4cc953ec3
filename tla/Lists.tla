------------------------------- MODULE Lists -------------------------------
(***************************************************************************)
(* The list commands on one key (internal/store/list_operations.go over    *)
(* the ListValue of list_types.go and the Deque), with the memory they     *)
(* account.  Each list command holds shard.mu from its look-up to its last *)
(* update of the counters, so each is one action.  DEL is one here too,    *)
(* although it accounts after the unlock (string_operations.go:207-220):   *)
(* what it takes off is the size it saw, and the changes add up in any     *)
(* order (KeyLifetime has that step of its own).                           *)
(*                                                                         *)
(* Not here: keys of another type, so a SET over a list, which takes off   *)
(* nothing for it (string_operations.go:129, lww.go:75); the deadline of   *)
(* the key, which the commands that empty a list leave behind              *)
(* (KeyLifetime).  Assumed: an element keeps its bytes, although the       *)
(* handlers pass views of a pooled buffer (parser.go:364-369).             *)
(***************************************************************************)
EXTENDS Deque, SequencesExt

CONSTANTS
    NoList,      \* the key is not there
    Reach,       \* bound: indices and counts clients give
    SizeLimit,   \* MaxValueSize, in the units of MemoryUsage; 0 for no limit
    Overhead,    \* what a stored list takes besides its MemoryUsage
    MaxLen,      \* bound: elements of the list
    MaxRefused   \* bound: pushes refused for their size

ASSUME NoListAssumption == NoList \notin Deques
ASSUME SizesAssumption ==
    {Reach, SizeLimit, Overhead, MaxLen, MaxRefused} \subseteq Nat

VARIABLES
    deque,      \* the ListValue's deque, or NoList
    memory,     \* what totalMemory holds for the key
    asked,      \* history: the last command, with its arguments
    answer,     \* to the last command
    refusals,   \* counts refused pushes, for the bound
    missed,     \* history: memory taken by pushes that were refused
    filled      \* history: the last LTRIM of this list left no slot free; a
                \* growth since then does not make it FALSE

vars == <<deque, memory, asked, answer, refusals, missed, filled>>

Num(n)   == [kind |-> "number", value |-> n]
Items(s) == [kind |-> "elements", value |-> s]
Done     == [kind |-> "ok"]
Refused  == [kind |-> "error"]
Lost     == [kind |-> "none"]

Exists == deque # NoList

Held == IF Exists THEN Contents(deque) ELSE <<>>

Indices == -Reach .. Reach

Batches == {<<e>> : e \in Elements} \cup {<<e, f>> : e, f \in Elements}

Init == /\ deque = NoList
        /\ memory = 0
        /\ asked = <<"nothing", <<>>>> /\ answer = Items(<<>>)
        /\ refusals = 0 /\ missed = 0 /\ filled = FALSE

-----------------------------------------------------------------------------
Given(command, arguments) == asked' = <<command, arguments>>

Answers(a) == answer' = a

\* The deque changes in place and the difference is accounted.
Update(d) ==
    /\ deque' = d
    /\ memory' = memory + MemoryUsage(d) - MemoryUsage(deque)
    /\ UNCHANGED <<refusals, missed>>

Create(d) ==
    /\ deque' = d
    /\ memory' = memory + Overhead + MemoryUsage(d)
    /\ filled' = FALSE
    /\ UNCHANGED <<refusals, missed>>

\* Mistake: frees the size after the mutation.
DropsRest ==
    /\ deque' = NoList
    /\ memory' = memory - Overhead
    /\ filled' = FALSE
    /\ UNCHANGED <<refusals, missed>>

Drop ==
    /\ deque' = NoList
    /\ memory' = memory - (Overhead + MemoryUsage(deque))
    /\ filled' = FALSE
    /\ UNCHANGED <<refusals, missed>>

\* An empty list is deleted.
UpdateOrDrop(d) == IF d.count = 0 THEN Drop ELSE Update(d) /\ UNCHANGED filled

Nothing == UNCHANGED <<deque, memory, refusals, missed, filled>>

\* checkValueSize.
TooLarge(d) == SizeLimit > 0 /\ MemoryUsage(d) > SizeLimit

\* A push that is refused leaves d, with what it takes not accounted.
Refuse(d) ==
    /\ refusals < MaxRefused
    /\ refusals' = refusals + 1
    /\ deque' = d
    /\ missed' = missed + MemoryUsage(d) - MemoryUsage(deque)
    /\ Answers(Refused)
    /\ UNCHANGED <<memory, filled>>

\* An existing list is now pushed; should it be too large it becomes undone:
\* the elements just pushed are popped again, the slots stay.
PushInPlace(pushed, undone) ==
    IF TooLarge(pushed) THEN Refuse(undone)
    ELSE /\ Update(pushed)
         /\ UNCHANGED filled
         /\ Answers(Num(pushed.count))

PushNew(pushed) ==
    IF TooLarge(pushed) THEN Nothing /\ Answers(Refused)
    ELSE Create(pushed) /\ Answers(Num(pushed.count))

-----------------------------------------------------------------------------
\* One element, at an end; a unique push leaves out what is there already.
Add(end, unique, d, e) ==
    IF unique /\ Contains(Contents(d), e) THEN d
    ELSE IF end = "front" THEN PushFront(e, d) ELSE PushBack(d, e)

\* One element after another.
Added(end, unique, d, es) ==
    LET after[n \in 0 .. Len(es)] ==
            IF n = 0 THEN d ELSE Add(end, unique, after[n - 1], es[n])
    IN  after[Len(es)]

\* Those pushed to the front from the last to the first, to keep their order.
AllFront(es, d, unique) == Added("front", unique, d, Reverse(es))
AllBack(d, es, unique)  == Added("back", unique, d, es)

Fits(es) == Len(Held) + Len(es) <= MaxLen

\* LPUSH; LPUSHX does the same to a list that exists.
LPush(es) ==
    /\ Given("LPUSH", <<es>>)
    /\ Fits(es)
    /\ \/ /\ Exists
          /\ LET pushed == AllFront(es, deque, FALSE)
             IN  PushInPlace(pushed, PopFront(pushed, Len(es)))
       \/ ~Exists /\ PushNew(AllFront(es, NewDeque, FALSE))

\* RPUSH, RPUSHX.  A panic unlocks everything and closes the connection.
RPush(es) ==
    /\ Given("RPUSH", <<es>>)
    /\ Fits(es)
    /\ \/ /\ Exists /\ ~PushBackPanics(deque)
          /\ LET pushed == AllBack(deque, es, FALSE)
             IN  PushInPlace(pushed, PopBack(pushed, Len(es)))
       \/ Exists /\ PushBackPanics(deque) /\ Nothing /\ Answers(Lost)
       \/ ~Exists /\ PushNew(AllBack(NewDeque, es, FALSE))

\* LPUSHX, RPUSHX without a list.
PushX == Given("PUSHX", <<>>) /\ ~Exists /\ Nothing /\ Answers(Num(0))

\* LPUSHUNIQUE, RPUSHUNIQUE: elements the list does not have yet, each once.
LPushUnique(es) ==
    /\ Given("LPUSHUNIQUE", <<es>>)
    /\ Fits(es)
    /\ \/ Exists /\ LET pushed == AllFront(es, deque, TRUE)
                    IN  PushInPlace(pushed, pushed)
       \/ ~Exists /\ PushNew(AllFront(es, NewDeque, TRUE))

RPushUnique(es) ==
    /\ Given("RPUSHUNIQUE", <<es>>)
    /\ Fits(es)
    /\ \/ /\ Exists
          /\ IF PushBackPanics(deque) /\ ~(ToSet(es) \subseteq ToSet(Held))
             THEN Nothing /\ Answers(Lost)
             ELSE LET pushed == AllBack(deque, es, TRUE)
                  IN  PushInPlace(pushed, pushed)
       \/ ~Exists /\ PushNew(AllBack(NewDeque, es, TRUE))

-----------------------------------------------------------------------------
\* LPOP, RPOP: a count of 0 pops one.
Popped(n) == LET k == IF n = 0 THEN 1 ELSE n
             IN  IF k > Len(Held) THEN Len(Held) ELSE k

LPop(n) ==
    /\ Given("LPOP", <<n>>)
    /\ n >= 0
    /\ Answers(Items(SubSeq(Held, 1, Popped(n))))
    /\ IF Exists THEN UpdateOrDrop(PopFront(deque, Popped(n))) ELSE Nothing

RPop(n) ==
    /\ Given("RPOP", <<n>>)
    /\ n >= 0
    /\ Answers(Items(Reverse(SubSeq(Held, Len(Held) - Popped(n) + 1, Len(Held)))))
    /\ IF Exists THEN UpdateOrDrop(PopBack(deque, Popped(n))) ELSE Nothing

LSet(i, e) ==
    /\ Given("LSET", <<i, e>>)
    /\ IF Exists /\ FromEnd(deque, i) \in 0 .. deque.count - 1
       THEN /\ Update(SetAt(deque, FromEnd(deque, i), e))
            /\ UNCHANGED filled
            /\ Answers(Done)
       ELSE Nothing /\ Answers(Refused)

LRem(n, e) ==
    /\ Given("LREM", <<n, e>>)
    /\ IF Exists
       THEN LET d == RemoveElement(deque, n, e)
            IN  UpdateOrDrop(d) /\ Answers(Num(deque.count - d.count))
       ELSE Nothing /\ Answers(Num(0))

LTrim(start, stop) ==
    /\ Given("LTRIM", <<start, stop>>)
    /\ Answers(Done)
    /\ IF Exists
       THEN LET d == Trim(deque, start, stop)
            IN  IF d.count = 0 THEN Drop
                ELSE Update(d) /\ filled' = (d.count = Cap(d))
       ELSE Nothing

\* DEL.
Delete == /\ Given("DEL", <<>>)
          /\ \/ Exists /\ Drop /\ Answers(Num(1))
             \/ ~Exists /\ Nothing /\ Answers(Num(0))

\* LRANGE, LINDEX, LLEN.
LRange(start, stop) ==
    /\ Given("LRANGE", <<start, stop>>)
    /\ Nothing
    /\ Answers(Items(IF Exists THEN Slice(deque, start, stop) ELSE <<>>))

LIndex(i) ==
    /\ Given("LINDEX", <<i>>)
    /\ Nothing
    /\ Answers(Items(IF Exists /\ FromEnd(deque, i) \in 0 .. deque.count - 1
                     THEN <<deque.data[Slot(deque, FromEnd(deque, i))]>>
                     ELSE <<>>))

LLen == Given("LLEN", <<>>) /\ Nothing /\ Answers(Num(Len(Held)))

Next == \/ \E es \in Batches : \/ LPush(es) \/ RPush(es)
                               \/ LPushUnique(es) \/ RPushUnique(es)
        \/ PushX
        \/ \E n \in Indices : \/ LPop(n) \/ RPop(n)
                              \/ \E e \in Elements : LSet(n, e) \/ LRem(n, e)
                              \/ \E stop \in Indices : \/ LTrim(n, stop)
                                                       \/ LRange(n, stop)
                              \/ LIndex(n)
        \/ Delete
        \/ LLen

Spec == Init /\ [][Next]_vars

-----------------------------------------------------------------------------
(***************************************************************************)
(* The buffer of a list that exists is well formed and not empty, after    *)
(* any pushes, pops, growth, LREM and LTRIM (deque.go; "Check if list      *)
(* became empty", list_operations.go:230).                                 *)
(***************************************************************************)
TypeOK == /\ Exists => WellFormed(deque) /\ deque.count > 0
          /\ {memory, missed} \subseteq Int
          /\ refusals \in Nat
          /\ filled \in BOOLEAN

(***************************************************************************)
(* The counters hold what the list takes: "every mutation must move the    *)
(* four counters together so they never drift" (store.go:496-499).  They   *)
(* miss what pushes that were refused have taken, slots of a buffer that   *)
(* had grown or the elements of a unique push, and nothing else; deleting  *)
(* the list subtracts that too, so the total stays short for good.         *)
(***************************************************************************)
MemoryIsAccounted ==
    memory + missed = IF Exists THEN Overhead + MemoryUsage(deque) ELSE 0

(***************************************************************************)
(* A push to the back fails with a panic only after an LTRIM that left no  *)
(* slot free (deque.go:352-353: the tail is then the capacity), and never  *)
(* after growth, LREM, LPUSHX or any pops without one.  It does not say    *)
(* that growth ends the danger: filled stays TRUE until the next LTRIM, or *)
(* until the list is deleted.                                              *)
(***************************************************************************)
PanicsOnlyOnceFilled == (Exists /\ PushBackPanics(deque)) => filled

(***************************************************************************)
(* The commands implement those of AbstractList: the contents of the       *)
(* buffer are its list, whatever the layout; each command, with the        *)
(* arguments it was given, does to the list what the same command does     *)
(* there and answers what it answers, for negative and out-of-range        *)
(* indices and counts too (deque.go; list_operations.go).  Only pushes are *)
(* refused or lost, and what that leaves of them is fixed.                 *)
(***************************************************************************)
Promise == INSTANCE AbstractList WITH list <- Held, Limited <- SizeLimit > 0

ImplementsList == Promise!LSpec

=============================================================================
