---------------------------- MODULE AbstractList ----------------------------
(***************************************************************************)
(* What the list commands of one key promise, with no buffer, capacity or  *)
(* memory: a sequence (empty when there is no key), the last command with  *)
(* its arguments, and the answer to it.                                    *)
(***************************************************************************)
EXTENDS Integers, SequencesExt

CONSTANTS Elements,     \* what a list holds
          Batches,      \* the elements one push may carry
          Indices,      \* indices and counts clients give
          Limited       \* whether the size of a list is limited

VARIABLES list, asked, answer

lvars == <<list, asked, answer>>

Num(n)      == [kind |-> "number", value |-> n]
Items(s)    == [kind |-> "elements", value |-> s]
Done        == [kind |-> "ok"]
Refused     == [kind |-> "error"]
Lost        == [kind |-> "none"]    \* the connection is closed instead

LInit == list = <<>> /\ asked = <<"nothing", <<>>>> /\ answer = Items(<<>>)

Given(command, arguments) == asked' = <<command, arguments>>

Becomes(s) == list' = s

\* A push answers the new length.
Pushed(s) == Becomes(s) /\ answer' = Num(Len(s))

\* Each element in turn goes to an end, unless the list has it by then: to the
\* front from the last to the first, to keep their order.
InFront(es) ==
    LET after[n \in 0 .. Len(es)] ==
            IF n = 0 THEN list
            ELSE LET e == es[Len(es) - n + 1]
                 IN  IF Contains(after[n - 1], e) THEN after[n - 1] ELSE <<e>> \o after[n - 1]
    IN  after[Len(es)]

AtTheEnd(es) ==
    LET after[n \in 0 .. Len(es)] ==
            IF n = 0 THEN list
            ELSE IF Contains(after[n - 1], es[n]) THEN after[n - 1]
                 ELSE Append(after[n - 1], es[n])
    IN  after[Len(es)]

\* A push may be refused for its size, where that has a limit, and leaves s.
Refuse(s) == Limited /\ answer' = Refused /\ Becomes(s)

\* A push of a new element to the back of a list may bring the connection
\* down (only as PanicsOnlyOnceFilled of Lists has it); nothing changes then.
Drop == list # <<>> /\ answer' = Lost /\ UNCHANGED list

LPush(es) == /\ Given("LPUSH", <<es>>)
             /\ Pushed(es \o list) \/ Refuse(list)

RPush(es) == /\ Given("RPUSH", <<es>>)
             /\ Pushed(list \o es) \/ Refuse(list) \/ Drop

\* A refused unique push keeps what it pushed, but makes no new list.
Kept(s) == IF list = <<>> THEN list ELSE s

LPushUnique(es) == /\ Given("LPUSHUNIQUE", <<es>>)
                   /\ Pushed(InFront(es)) \/ Refuse(Kept(InFront(es)))

RPushUnique(es) ==
    /\ Given("RPUSHUNIQUE", <<es>>)
    /\ \/ Pushed(AtTheEnd(es)) \/ Refuse(Kept(AtTheEnd(es)))
       \/ Drop /\ ~(ToSet(es) \subseteq ToSet(list))

\* Those of n elements that are there; a count of 0 asks for one.
Asked(n) == LET k == IF n = 0 THEN 1 ELSE n
            IN  IF k < Len(list) THEN k ELSE Len(list)

LPop(n) == /\ Given("LPOP", <<n>>)
           /\ n >= 0
           /\ answer' = Items(SubSeq(list, 1, Asked(n)))
           /\ Becomes(SubSeq(list, Asked(n) + 1, Len(list)))

RPop(n) == /\ Given("RPOP", <<n>>)
           /\ n >= 0
           /\ answer' = Items(SubSeq(Reverse(list), 1, Asked(n)))
           /\ Becomes(SubSeq(list, 1, Len(list) - Asked(n)))

\* Position of index i, from 1: a negative one counts from the end.
Position(i) == IF i < 0 THEN Len(list) + i + 1 ELSE i + 1

LSet(i, e) ==
    /\ Given("LSET", <<i, e>>)
    /\ IF Position(i) \in 1 .. Len(list)
       THEN answer' = Done /\ Becomes([list EXCEPT ![Position(i)] = e])
       ELSE answer' = Refused /\ UNCHANGED list

\* The first n positions of e, the last -n, or all.
Chosen(n, e) ==
    {p \in 1 .. Len(list) :
        /\ list[p] = e
        /\ n > 0 => Cardinality({q \in 1 .. p : list[q] = e}) <= n
        /\ n < 0 => Cardinality({q \in p .. Len(list) : list[q] = e}) <= -n}

\* s has the elements at the positions of P, in their order.
Keeps(s, P) ==
    \E f \in Surjection(1 .. Len(s), P) :
        /\ \A i, j \in 1 .. Len(s) : i < j => f[i] < f[j]
        /\ \A i \in 1 .. Len(s) : s[i] = list[f[i]]

LRem(n, e) == /\ Given("LREM", <<n, e>>)
              /\ answer' = Num(Cardinality(Chosen(n, e)))
              /\ Keeps(list', (1 .. Len(list)) \ Chosen(n, e))

Part(start, stop) ==
    LET P == {p \in 1 .. Len(list) : Position(start) <= p /\ p <= Position(stop)}
    IN  IF P = {} THEN <<>> ELSE SubSeq(list, Min(P), Max(P))

LTrim(start, stop) == /\ Given("LTRIM", <<start, stop>>)
                      /\ Becomes(Part(start, stop)) /\ answer' = Done

LRange(start, stop) == /\ Given("LRANGE", <<start, stop>>)
                       /\ answer' = Items(Part(start, stop)) /\ UNCHANGED list

LIndex(i) == /\ Given("LINDEX", <<i>>)
             /\ answer' = Items(Part(i, i)) /\ UNCHANGED list

LLen == Given("LLEN", <<>>) /\ answer' = Num(Len(list)) /\ UNCHANGED list

\* LPUSHX and RPUSHX of a key that is not there.
PushNothing == Given("PUSHX", <<>>) /\ list = <<>> /\ answer' = Num(0) /\ UNCHANGED list

Del == /\ Given("DEL", <<>>)
       /\ Becomes(<<>>) /\ answer' = Num(IF list = <<>> THEN 0 ELSE 1)

LNext == \/ \E es \in Batches : \/ LPush(es) \/ RPush(es)
                                \/ LPushUnique(es) \/ RPushUnique(es)
         \/ \E n \in Indices :
               \/ LPop(n) \/ RPop(n) \/ LIndex(n)
               \/ \E e \in Elements : LSet(n, e) \/ LRem(n, e)
               \/ \E stop \in Indices : LTrim(n, stop) \/ LRange(n, stop)
         \/ PushNothing \/ Del \/ LLen

LSpec == LInit /\ [][LNext]_lvars

=============================================================================
