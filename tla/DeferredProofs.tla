--------------------------- MODULE DeferredProofs ---------------------------
(***************************************************************************)
(* Safety of the deferred commands, for any nodes, keys, delays, numbers   *)
(* of commands and of events that arrive again: the map and the index by   *)
(* second of each scheduler agree, and what a tick takes from them runs    *)
(* once, was asked for, and was not cancelled.                             *)
(***************************************************************************)
EXTENDS Deferred, FiniteSetTheorems, WellFoundedInduction, TLAPS

-----------------------------------------------------------------------------
(***************************************************************************)
(* The inductive invariant, by parts.                                      *)
(***************************************************************************)
Parts == UNION {ToSet(text) : text \in Keys \cup {Argument}}

Texts == Seq(Parts)

Commands == [id : IDs, at : Times, key : Texts, args : Texts]

\* What runs: a command, or what later commands left of it.
Outcomes == [id : IDs, at : Times, key : Texts \cup Scraps, args : Texts \cup Scraps]

\* What clients deferred.
Demands == [id : IDs, due : Nat, key : Texts, args : Texts]

Events == [to : Nodes \ {Home}, op : {"defer", "cancel"}, id : IDs, delay : Nat, text : Texts]

Shape ==
    /\ now \in Times /\ defers \in 0 .. MaxDefers /\ resends \in 0 .. MaxResends
    /\ scheduled \in [Nodes -> SUBSET Commands]
    /\ timeIndex \in [Nodes -> [Times -> Seq(Commands)]]
    /\ running \in [Nodes -> Seq(Seq(Commands))]
    /\ events \subseteq Events
    /\ asked \subseteq Demands
    /\ ran \in [Nodes -> SUBSET Outcomes]
    /\ reran \in [Nodes -> SUBSET IDs]
    /\ cancelled \in [Nodes -> SUBSET IDs]
    /\ arrived \in [Nodes -> SUBSET IDs]
    /\ rearrived \in [Nodes -> SUBSET IDs]

\* A command sits in the index at its second, and no second waits empty.
Placed(n) ==
    /\ \A t \in Times : \A i \in DOMAIN timeIndex[n][t] : timeIndex[n][t][i].at = t
    /\ \A i \in DOMAIN running[n] : running[n][i] # <<>>

\* The map holds one command of an ID.
OneEach(n) == \A c, d \in scheduled[n] : c.id = d.id => c = d

Mapped(n, id) == {c \in scheduled[n] : c.id = id}

Held(n) == Indexed(n) \cup Taken(n) \cup ran[n]

\* What a node holds was given to it, and so was what it cancelled.
Given(n) ==
    /\ Got(n) \subseteq 1 .. defers
    /\ rearrived[n] \subseteq arrived[n]
    /\ arrived[Home] = {}
    /\ \A c \in scheduled[n] \cup Held(n) : c.id \in Got(n)
    /\ cancelled[n] \subseteq Got(n)

(***************************************************************************)
(* Of a command that came once there is one entry in each structure: in    *)
(* the map and the index, or among what a tick took, or it has run.        *)
(***************************************************************************)
IndexedOnce(n, id) ==
    \A t \in Times : \A i, j \in DOMAIN timeIndex[n][t] :
        timeIndex[n][t][i].id = id /\ timeIndex[n][t][j].id = id => i = j

OnceIn(seconds, id) ==
    \A i, k \in DOMAIN seconds : \A j \in DOMAIN seconds[i], l \in DOMAIN seconds[k] :
        seconds[i][j].id = id /\ seconds[k][l].id = id => i = k /\ j = l

TakenOnce(n, id) == OnceIn(running[n], id)

Apart(n, id) ==
    /\ Mapped(n, id) = {c \in Indexed(n) : c.id = id}
    /\ \A c \in Taken(n) \cup ran[n] : c.id = id => Mapped(n, id) = {}
    /\ \A c \in Taken(n), d \in ran[n] : ~ (c.id = id /\ d.id = id)
    /\ id \notin reran[n]
    /\ id \in cancelled[n] => \A c \in Held(n) : c.id # id

Single(n) == \A id \in Once(n) : IndexedOnce(n, id) /\ TakenOnce(n, id) /\ Apart(n, id)

\* The moment at which a second is over.
Until(t) == (t + 1) * PerSecond

\* A client asked for this command, for this second or an earlier one.
Asked(n, cmd) ==
    \E a \in asked : /\ a.id = cmd.id /\ a.due < Until(cmd.at)
                     /\ n # Home /\ Plain(a) => cmd.key = a.key /\ cmd.args = a.args

Wanted(n) == /\ \A c \in Held(n) : Asked(n, c)
             /\ \A c \in Taken(n) \cup ran[n] : c.at <= now

\* An event comes from a client's command, and its time has not passed it.
Sent(event) ==
    /\ event.id \in 1 .. defers
    /\ event.op = "defer" =>
          \E a \in asked : /\ a.id = event.id /\ a.due < Until(now + event.delay)
                           /\ event.text = a.key \o a.args
                           /\ a.key # <<>> /\ a.args # <<>>

NodeInv(n) == Placed(n) /\ OneEach(n) /\ Given(n) /\ Single(n) /\ Wanted(n)

IInv == Shape /\ (\A n \in Nodes : NodeInv(n)) /\ (\A event \in events : Sent(event))

-----------------------------------------------------------------------------
\* A later second is over later.
LEMMA LaterSecond ==
    ASSUME NEW x \in Nat, NEW y \in Nat, x <= y
    PROVE  /\ Until(x) \in Nat /\ Until(y) \in Nat /\ Until(x) <= Until(y)
           /\ \A moment \in Moments : x * PerSecond + moment \in Nat /\ x * PerSecond + moment < Until(x)
  <1>1. PICK p : p = PerSecond
    OBVIOUS
  <1>2. p \in Nat /\ p >= 1
    BY <1>1, DeferredAssumption
  <1>3. PICK d \in Nat : y = x + d
    <2>1. y - x \in Nat /\ y = x + (y - x)
      OBVIOUS
    <2> QED BY <2>1
  <1>4. d * p \in Nat /\ x * p \in Nat
    BY <1>2
  <1>5. (x + 1) * p = x * p + p /\ (y + 1) * p = x * p + d * p + p
    BY <1>2, <1>3
  <1>6. (x + 1) * p \in Nat /\ (y + 1) * p \in Nat /\ (x + 1) * p <= (y + 1) * p
    BY <1>2, <1>4, <1>5
  <1>7. ASSUME NEW moment \in Moments PROVE x * p + moment \in Nat /\ x * p + moment < (x + 1) * p
    <2>1. moment \in Nat /\ moment < p
      BY <1>1, <1>2 DEF Moments
    <2> QED BY <1>2, <1>4, <1>5, <2>1
  <1> QED BY <1>1, <1>6, <1>7 DEF Until

-----------------------------------------------------------------------------
(***************************************************************************)
(* Sequences: what RemovesFirst and Rest leave.                            *)
(***************************************************************************)
\* A set of numbers has a least one, which SelectInSeq finds.
LEMMA Least ==
    ASSUME NEW S \in SUBSET Nat, S # {}
    PROVE  \E n \in S : \A m \in S : n <= m
  <1> DEFINE R == OpToRel(<, Nat)
  <1>1. IsWellFoundedOn(R, Nat)
    BY NatLessThanWellFounded
  <1>2. \A x, y \in Nat : x < y => <<x, y>> \in R
    BY DEF OpToRel
  <1> HIDE DEF R
  <1>3. PICK n \in S : \A m \in S : ~ (<<m, n>> \in R)
    BY <1>1, WFMin
  <1>4. n \in Nat /\ \A m \in S : m \in Nat
    OBVIOUS
  <1>5. \A m \in S : ~ (m < n)
    BY <1>2, <1>3, <1>4
  <1>6. \A m \in S : n <= m
    BY <1>4, <1>5
  <1> QED BY <1>6

\* RemovesFirst finds the first entry of the ID, if there is one, and the
\* entries behind it move up by one.
Removed(bucket, rest, id) ==
    \/ rest = bucket /\ \A i \in DOMAIN bucket : bucket[i].id # id
    \/ \E at \in DOMAIN bucket :
          /\ bucket[at].id = id
          /\ Len(rest) = Len(bucket) - 1
          /\ \A i \in 1 .. Len(bucket) - 1 : rest[i] = IF i < at THEN bucket[i] ELSE bucket[i + 1]

\* CancelDeferredCommand on one second of the index (deferred.go:95-108).
LEMMA RemovesFirstRemoves ==
    ASSUME NEW bucket \in Seq(Commands), NEW id
    PROVE  /\ RemovesFirst(bucket, id) \in Seq(Commands)
           /\ Removed(bucket, RemovesFirst(bucket, id), id)
  <1> DEFINE I == {i \in 1 .. Len(bucket) : bucket[i].id = id}
             at == IF I # {} THEN Min(I) ELSE 0
  <1>1. RemovesFirst(bucket, id) = IF at = 0 THEN bucket ELSE RemoveAt(bucket, at)
    BY DEF RemovesFirst, SelectInSeq
  <1>2. CASE I = {}
    BY <1>1, <1>2 DEF Removed
  <1>3. CASE I # {}
    <2>1. \E n \in I : \A m \in I : n <= m
      <3>1. I \in SUBSET Nat
        OBVIOUS
      <3> HIDE DEF I
      <3> QED BY <1>3, <3>1, Least
    <2>2. at \in I
      BY <1>3, <2>1 DEF Min
    <2>3. PICK a : a = at
      OBVIOUS
    <2>4. a \in 1 .. Len(bucket) /\ bucket[a].id = id
      BY <2>2, <2>3
    <2> HIDE DEF at, I
    <2>5. RemovesFirst(bucket, id) = SubSeq(bucket, 1, a - 1) \o SubSeq(bucket, a + 1, Len(bucket))
      <3>1. a # 0
        BY <2>4
      <3>2. RemovesFirst(bucket, id) = RemoveAt(bucket, a)
        BY <1>1, <2>3, <3>1
      <3> QED BY <3>2 DEF RemoveAt
    <2>6. PICK s : s = SubSeq(bucket, 1, a - 1)
      OBVIOUS
    <2>7. PICK u : u = SubSeq(bucket, a + 1, Len(bucket))
      OBVIOUS
    <2>8. s \in Seq(Commands) /\ Len(s) = a - 1 /\ \A i \in 1 .. a - 1 : s[i] = bucket[i]
      BY <2>4, <2>6
    <2>9. /\ u \in Seq(Commands) /\ Len(u) = Len(bucket) - a
          /\ \A i \in 1 .. Len(bucket) - a : u[i] = bucket[i + a]
      BY <2>4, <2>7
    <2>10. PICK r : r = s \o u
      OBVIOUS
    <2>11. r \in Seq(Commands) /\ Len(r) = Len(bucket) - 1
      BY <2>4, <2>8, <2>9, <2>10
    <2>12. ASSUME NEW i \in 1 .. Len(bucket) - 1
           PROVE  r[i] = IF i < a THEN bucket[i] ELSE bucket[i + 1]
      <3>1. CASE i < a
        BY <2>4, <2>8, <2>9, <2>10, <3>1
      <3>2. CASE ~ (i < a)
        <4>1. r[i] = u[i - (a - 1)]
          <5>1. i \in 1 .. Len(s) + Len(u) /\ ~ (i <= Len(s))
            BY <2>4, <2>8, <2>9, <3>2
          <5>2. r[i] = u[i - Len(s)]
            BY <2>8, <2>9, <2>10, <5>1
          <5> QED BY <2>8, <5>2
        <4>2. i - (a - 1) \in 1 .. Len(bucket) - a /\ (i - (a - 1)) + a = i + 1
          BY <2>4, <3>2
        <4> QED BY <2>9, <3>2, <4>1, <4>2
      <3> QED BY <3>1, <3>2
    <2>13. a \in DOMAIN bucket
      BY <2>4
    <2> QED BY <2>4, <2>5, <2>6, <2>7, <2>10, <2>11, <2>12, <2>13 DEF Removed
  <1> QED BY <1>2, <1>3

\* The text of an event is taken apart again at its first colon.
LEMMA TextParts ==
    ASSUME NEW S, NEW key \in Seq(S), NEW args \in Seq(S), key # <<>>, args # <<>>,
           NEW text, text = key \o args
    PROVE  /\ text \in Seq(S) /\ text # <<>>
           /\ <<Head(text)>> \in Seq(S) /\ Tail(text) \in Seq(S)
           /\ Len(key) = 1 => key = <<Head(text)>> /\ args = Tail(text)
  <1>1. Len(key) > 0 /\ Len(args) > 0
    OBVIOUS
  <1>2. text \in Seq(S) /\ Len(text) = Len(key) + Len(args) /\ text # <<>>
    BY <1>1
  <1>3. Head(text) = key[1] /\ Head(text) \in S
    BY <1>1, <1>2
  <1>4. <<Head(text)>> \in Seq(S) /\ Tail(text) \in Seq(S)
    BY <1>2, <1>3
  <1>5. ASSUME Len(key) = 1 PROVE key = <<Head(text)>> /\ args = Tail(text)
    <2>1. key = <<Head(text)>>
      BY <1>3, <1>5
    <2>2. Len(Tail(text)) = Len(args)
      BY <1>2, <1>5
    <2>3. ASSUME NEW i \in 1 .. Len(args) PROVE Tail(text)[i] = args[i]
      <3>1. Tail(text)[i] = text[i + 1]
        BY <1>1, <1>2, <1>5, <2>2
      <3>2. i + 1 \in 1 .. Len(key) + Len(args) /\ ~ (i + 1 <= Len(key))
        BY <1>5
      <3>3. text[i + 1] = args[i + 1 - Len(key)]
        BY <3>2
      <3> QED BY <1>5, <3>1, <3>3
    <2> QED BY <1>4, <2>1, <2>2, <2>3
  <1> QED BY <1>2, <1>4, <1>5

\* What clients give is text, and none of it is empty.
LEMMA TextsAreTexts ==
    \A text \in Keys \cup {Argument} : text \in Texts /\ text # <<>>
  <1> SUFFICES ASSUME NEW text \in Keys \cup {Argument} PROVE text \in Texts /\ text # <<>>
    OBVIOUS
  <1>1. text # <<>> /\ text \in Seq(ToSet(text))
    BY DeferredAssumption
  <1>2. ToSet(text) \subseteq Parts
    BY DEF Parts
  <1>3. text \in Seq(Parts)
    BY <1>1, <1>2
  <1> QED BY <1>1, <1>3 DEF Texts

-----------------------------------------------------------------------------
(***************************************************************************)
(* What a node holds, by the places that hold it.                          *)
(***************************************************************************)
\* The index is read second by second.
LEMMA InIndex ==
    ASSUME NEW n
    PROVE  \A c : c \in Indexed(n) <=>
                    \E t \in Times : \E i \in DOMAIN timeIndex[n][t] : c = timeIndex[n][t][i]
  BY DEF Indexed, ToSet

\* So is what a tick took.
LEMMA InTaken ==
    ASSUME NEW n
    PROVE  \A c : c \in Taken(n) <=>
                    \E i \in DOMAIN running[n] : \E j \in DOMAIN running[n][i] : c = running[n][i][j]
  BY DEF Taken, ToSet

\* All that is held is a command.
LEMMA HeldCommands ==
    ASSUME Shape, NEW n \in Nodes
    PROVE  Held(n) \subseteq Outcomes /\ scheduled[n] \subseteq Commands
  <1>0. Commands \subseteq Outcomes
    BY DEF Commands, Outcomes
  <1>1. Indexed(n) \subseteq Commands
    <2>1. \A t \in Times : timeIndex[n][t] \in Seq(Commands)
      BY DEF Shape
    <2>2. \A t \in Times : \A i \in DOMAIN timeIndex[n][t] : timeIndex[n][t][i] \in Commands
      BY <2>1
    <2> QED BY <2>2, InIndex
  <1>2. Taken(n) \subseteq Commands
    <2>1. \A i \in DOMAIN running[n] : running[n][i] \in Seq(Commands)
      BY DEF Shape
    <2>2. \A i \in DOMAIN running[n] : \A j \in DOMAIN running[n][i] : running[n][i][j] \in Commands
      BY <2>1
    <2> QED BY <2>2, InTaken
  <1>3. ran[n] \subseteq Outcomes /\ scheduled[n] \subseteq Commands
    BY DEF Shape
  <1> QED BY <1>0, <1>1, <1>2, <1>3 DEF Held

\* A node none of whose structures changes keeps its invariant.
Untouched(n) ==
    /\ timeIndex'[n] = timeIndex[n] /\ scheduled'[n] = scheduled[n]
    /\ running'[n] = running[n] /\ ran'[n] = ran[n] /\ reran'[n] = reran[n]
    /\ cancelled'[n] = cancelled[n] /\ arrived'[n] = arrived[n] /\ rearrived'[n] = rearrived[n]

\* What was asked for stays asked for, and time does not go back.
Onwards ==
    /\ now <= now' /\ now' \in Int /\ now \in Int
    /\ defers <= defers' /\ defers \in Int /\ defers' \in Int
    /\ asked \subseteq asked'
    /\ arrived'[Home] = {}

\* A step elsewhere (each scheduler has its own structures, deferred.go:12).
LEMMA Elsewhere ==
    ASSUME Shape, NEW n \in Nodes, NodeInv(n), Untouched(n), Onwards
    PROVE  NodeInv(n)'
  <1>1. /\ Indexed(n)' = Indexed(n) /\ Taken(n)' = Taken(n) /\ Held(n)' = Held(n)
        /\ Once(n)' = Once(n) /\ \A id : Mapped(n, id)' = Mapped(n, id)
    BY DEF Untouched, Indexed, Taken, Held, Once, Mapped
  <1>2. Placed(n)' /\ OneEach(n)'
    BY DEF NodeInv, Untouched, Placed, OneEach
  <1>3. Given(n)'
    <2>1. Got(n) \subseteq Got(n)' /\ Got(n)' \subseteq 1 .. defers'
      BY DEF NodeInv, Given, Got, Onwards, Untouched
    <2> QED BY <1>1, <2>1 DEF NodeInv, Given, Onwards, Untouched
  <1>4. Single(n)'
    <2>1. \A id : Apart(n, id) => Apart(n, id)'
      BY <1>1 DEF Apart, Untouched
    <2>2. \A id : /\ IndexedOnce(n, id) => IndexedOnce(n, id)'
                  /\ TakenOnce(n, id) => TakenOnce(n, id)'
      BY DEF IndexedOnce, TakenOnce, Untouched
    <2> QED BY <1>1, <2>1, <2>2 DEF NodeInv, Single
  <1>5. Wanted(n)'
    <2>1. \A c : Asked(n, c) => Asked(n, c)'
      BY DEF Asked, Onwards
    <2>2. \A c \in Taken(n) \cup ran[n] : c.at <= now'
      <3>1. \A c \in Taken(n) \cup ran[n] : c.at \in Int
        BY HeldCommands DEF Held, Outcomes, Times
      <3> QED BY <3>1 DEF NodeInv, Wanted, Onwards
    <2>3. ran'[n] = ran[n]
      BY DEF Untouched
    <2> QED BY <1>1, <2>1, <2>2, <2>3 DEF NodeInv, Wanted
  <1> QED BY <1>2, <1>3, <1>4, <1>5 DEF NodeInv

-----------------------------------------------------------------------------
(***************************************************************************)
(* What each operation of the scheduler does to the node it is on.         *)
(***************************************************************************)
\* The index after AddDeferredCommand (deferred.go:75-78).
LEMMA AddsIndex ==
    ASSUME Shape, NEW n \in Nodes, NEW cmd \in Commands, Adds(n, cmd)
    PROVE  /\ timeIndex' \in [Nodes -> [Times -> Seq(Commands)]]
           /\ scheduled' \in [Nodes -> SUBSET Commands]
           /\ \A m \in Nodes \ {n} : timeIndex'[m] = timeIndex[m] /\ scheduled'[m] = scheduled[m]
           /\ scheduled'[n] = {c \in scheduled[n] : c.id # cmd.id} \cup {cmd}
           /\ \A t \in Times \ {cmd.at} : timeIndex'[n][t] = timeIndex[n][t]
           /\ timeIndex'[n][cmd.at] = Append(timeIndex[n][cmd.at], cmd)
           /\ Indexed(n)' = Indexed(n) \cup {cmd}
  <1>1. cmd.at \in Times
    BY DEF Adds
  <1>2. PICK s : s = Append(timeIndex[n][cmd.at], cmd)
    OBVIOUS
  <1>3. timeIndex[n][cmd.at] \in Seq(Commands)
    BY <1>1 DEF Shape
  <1>4. s \in Seq(Commands)
    BY <1>2, <1>3
  <1>5. timeIndex' = [timeIndex EXCEPT ![n][cmd.at] = s]
    BY <1>2 DEF Adds
  <1>6. timeIndex' \in [Nodes -> [Times -> Seq(Commands)]]
    BY <1>1, <1>4, <1>5 DEF Shape
  <1>7. /\ timeIndex'[n][cmd.at] = s
        /\ \A t \in Times \ {cmd.at} : timeIndex'[n][t] = timeIndex[n][t]
        /\ \A m \in Nodes \ {n} : timeIndex'[m] = timeIndex[m]
    BY <1>1, <1>5 DEF Shape
  <1>8. PICK left : left = {c \in scheduled[n] : c.id # cmd.id} \cup {cmd}
    OBVIOUS
  <1>9. left \subseteq Commands
    BY <1>8 DEF Shape
  <1>10. scheduled' = [scheduled EXCEPT ![n] = left]
    BY <1>8 DEF Adds
  <1>11. /\ scheduled' \in [Nodes -> SUBSET Commands]
         /\ scheduled'[n] = left
         /\ \A m \in Nodes \ {n} : scheduled'[m] = scheduled[m]
    BY <1>9, <1>10 DEF Shape
  <1>12. Indexed(n)' = Indexed(n) \cup {cmd}
    <2>1. PICK b : b = timeIndex[n][cmd.at]
      OBVIOUS
    <2>2. b \in Seq(Commands) /\ s = Append(b, cmd)
      BY <1>2, <1>3, <2>1
    <2>3. \A c : (\E i \in DOMAIN s : c = s[i]) <=> (\E i \in DOMAIN b : c = b[i]) \/ c = cmd
      <3>1. DOMAIN s = 1 .. Len(b) + 1 /\ DOMAIN b = 1 .. Len(b)
        BY <2>2
      <3>2. s[Len(b) + 1] = cmd /\ \A i \in 1 .. Len(b) : s[i] = b[i]
        BY <2>2
      <3>3. Len(b) \in Nat
        BY <2>2
      <3> QED BY <3>1, <3>2, <3>3
    <2>4. \A c : c \in Indexed(n)' <=>
                 \E t \in Times : \E i \in DOMAIN timeIndex'[n][t] : c = timeIndex'[n][t][i]
      BY DEF Indexed, ToSet
    <2>5. ASSUME NEW c, c \in Indexed(n)' PROVE c \in Indexed(n) \cup {cmd}
      <3>1. PICK t \in Times : \E i \in DOMAIN timeIndex'[n][t] : c = timeIndex'[n][t][i]
        BY <2>4, <2>5
      <3>2. CASE t = cmd.at
        BY <1>1, <1>7, <2>1, <2>3, <3>1, <3>2, InIndex
      <3>3. CASE t # cmd.at
        BY <1>7, <3>1, <3>3, InIndex
      <3> QED BY <3>2, <3>3
    <2>6. ASSUME NEW c, c \in Indexed(n) PROVE c \in Indexed(n)'
      <3>1. PICK t \in Times : \E i \in DOMAIN timeIndex[n][t] : c = timeIndex[n][t][i]
        BY <2>6, InIndex
      <3>2. CASE t = cmd.at
        BY <1>1, <1>7, <2>1, <2>3, <2>4, <3>1, <3>2
      <3>3. CASE t # cmd.at
        BY <1>7, <2>4, <3>1, <3>3
      <3> QED BY <3>2, <3>3
    <2>7. cmd \in Indexed(n)'
      BY <1>1, <1>7, <2>3, <2>4
    <2> QED BY <2>5, <2>6, <2>7
  <1> QED BY <1>2, <1>6, <1>7, <1>8, <1>11, <1>12

\* AddDeferredCommand on its node (deferred.go:68-79): of an ID that comes for
\* the first time it makes the one entry in each structure.
LEMMA AddsKeeps ==
    ASSUME Shape, NEW n \in Nodes, NodeInv(n), NEW cmd \in Commands, Adds(n, cmd),
           running'[n] = running[n], ran'[n] = ran[n], reran'[n] = reran[n],
           cancelled'[n] = cancelled[n], Onwards, Asked(n, cmd)',
           Got(n)' = Got(n) \cup {cmd.id}, cmd.id \in 1 .. defers',
           rearrived[n] \subseteq rearrived'[n], rearrived'[n] \subseteq arrived'[n],
           cmd.id \in Got(n) => cmd.id \in rearrived'[n]
    PROVE  NodeInv(n)'
  <1>0. /\ \A t \in Times \ {cmd.at} : timeIndex'[n][t] = timeIndex[n][t]
        /\ timeIndex'[n][cmd.at] = Append(timeIndex[n][cmd.at], cmd)
        /\ scheduled'[n] = {c \in scheduled[n] : c.id # cmd.id} \cup {cmd}
        /\ Indexed(n)' = Indexed(n) \cup {cmd}
    BY AddsIndex
  <1>1. cmd.at \in Times
    BY DEF Adds
  <1>2. PICK b : b = timeIndex[n][cmd.at]
    OBVIOUS
  <1>3. b \in Seq(Commands)
    BY <1>1, <1>2 DEF Shape
  <1>4. /\ DOMAIN timeIndex'[n][cmd.at] = 1 .. Len(b) + 1 /\ DOMAIN b = 1 .. Len(b)
        /\ timeIndex'[n][cmd.at][Len(b) + 1] = cmd
        /\ \A i \in 1 .. Len(b) : timeIndex'[n][cmd.at][i] = b[i]
        /\ Len(b) \in Nat
    BY <1>0, <1>2, <1>3
  <1>5. Taken(n)' = Taken(n) /\ Held(n)' = Held(n) \cup {cmd}
    BY <1>0 DEF Taken, Held
  <1>6. Placed(n)'
    <2>1. ASSUME NEW t \in Times, NEW i \in DOMAIN timeIndex'[n][t]
          PROVE  timeIndex'[n][t][i].at = t
      <3>0. \A k \in DOMAIN b : b[k].at = cmd.at
        BY <1>1, <1>2 DEF NodeInv, Placed
      <3>1. CASE t # cmd.at
        BY <1>0, <2>1, <3>1 DEF NodeInv, Placed
      <3>2. CASE t = cmd.at
        <4>1. i \in 1 .. Len(b) \/ i = Len(b) + 1
          BY <1>4, <2>1, <3>2
        <4> QED BY <1>4, <3>0, <3>2, <4>1
      <3> QED BY <3>1, <3>2
    <2> QED BY <2>1 DEF NodeInv, Placed
  <1>7. OneEach(n)'
    BY <1>0 DEF NodeInv, OneEach
  <1>8. Given(n)'
    <2>1. \A c \in scheduled'[n] \cup Held(n)' : c.id \in Got(n)'
      BY <1>0, <1>5 DEF NodeInv, Given
    <2>2. Got(n)' \subseteq 1 .. defers'
      BY DEF NodeInv, Given, Onwards
    <2> QED BY <2>1, <2>2 DEF NodeInv, Given, Onwards
  <1>9. Single(n)'
    <2>1. ASSUME NEW id \in Once(n)', id # cmd.id
          PROVE  IndexedOnce(n, id)' /\ TakenOnce(n, id)' /\ Apart(n, id)'
      <3>1. id \in Once(n) /\ IndexedOnce(n, id) /\ TakenOnce(n, id) /\ Apart(n, id)
        BY DEF Once, NodeInv, Single
      <3>2. Mapped(n, id)' = Mapped(n, id)
        BY <1>0, <2>1 DEF Mapped
      <3>3. Apart(n, id)'
        <4>1. {c \in Indexed(n)' : c.id = id} = {c \in Indexed(n) : c.id = id}
          BY <1>0, <2>1
        <4>2. id \in cancelled'[n] => \A c \in Held(n)' : c.id # id
          BY <1>5, <2>1, <3>1 DEF Apart
        <4> QED BY <1>5, <3>1, <3>2, <4>1, <4>2 DEF Apart
      <3>4. TakenOnce(n, id)'
        BY <3>1 DEF TakenOnce
      <3>5. IndexedOnce(n, id)'
        <4>1. ASSUME NEW t \in Times, NEW i \in DOMAIN timeIndex'[n][t],
                     NEW j \in DOMAIN timeIndex'[n][t],
                     timeIndex'[n][t][i].id = id, timeIndex'[n][t][j].id = id
              PROVE  i = j
          <5>1. CASE t # cmd.at
            BY <1>0, <3>1, <4>1, <5>1 DEF IndexedOnce
          <5>2. CASE t = cmd.at
            <6>1. i \in 1 .. Len(b) /\ j \in 1 .. Len(b)
              BY <1>4, <2>1, <4>1, <5>2
            <6> QED BY <1>1, <1>2, <1>4, <3>1, <4>1, <5>2, <6>1 DEF IndexedOnce
          <5> QED BY <5>1, <5>2
        <4> QED BY <4>1 DEF IndexedOnce
      <3> QED BY <3>3, <3>4, <3>5
    <2>2. ASSUME cmd.id \in Once(n)'
          PROVE  IndexedOnce(n, cmd.id)' /\ TakenOnce(n, cmd.id)' /\ Apart(n, cmd.id)'
      <3>1. cmd.id \notin Got(n) /\ cmd.id \in Once(n)
        BY <2>2 DEF Once
      <3>2. /\ \A c \in scheduled[n] \cup Held(n) : c.id # cmd.id
            /\ cmd.id \notin cancelled[n]
        BY <3>1 DEF NodeInv, Given
      <3>3. Mapped(n, cmd.id)' = {cmd}
        BY <1>0, <3>2 DEF Mapped
      <3>4. {c \in Indexed(n)' : c.id = cmd.id} = {cmd}
        BY <1>0, <3>2 DEF Held
      <3>5. Apart(n, cmd.id)'
        <4>1. \A c \in Taken(n)' \cup ran'[n] : c.id # cmd.id
          BY <1>5, <3>2 DEF Held
        <4>2. cmd.id \notin reran'[n]
          BY <3>1 DEF NodeInv, Single, Apart
        <4> QED BY <3>2, <3>3, <3>4, <4>1, <4>2 DEF Apart
      <3>6. TakenOnce(n, cmd.id)'
        BY <3>1 DEF TakenOnce, NodeInv, Single
      <3>7. IndexedOnce(n, cmd.id)'
        <4>0. \A t \in Times : \A i \in DOMAIN timeIndex[n][t] : timeIndex[n][t][i].id # cmd.id
          BY <3>2, InIndex DEF Held
        <4>1. ASSUME NEW t \in Times, NEW i \in DOMAIN timeIndex'[n][t],
                     NEW j \in DOMAIN timeIndex'[n][t],
                     timeIndex'[n][t][i].id = cmd.id, timeIndex'[n][t][j].id = cmd.id
              PROVE  i = j
          <5>1. t = cmd.at
            BY <1>0, <4>0, <4>1
          <5>2. \A k \in 1 .. Len(b) : b[k].id # cmd.id
            BY <1>1, <1>2, <1>4, <4>0
          <5> QED BY <1>4, <4>1, <5>1, <5>2
        <4> QED BY <4>1 DEF IndexedOnce
      <3> QED BY <3>5, <3>6, <3>7
    <2> QED BY <2>1, <2>2 DEF Single
  <1>10. Wanted(n)'
    <2>1. \A c : Asked(n, c) => Asked(n, c)'
      BY DEF Asked, Onwards
    <2>2. \A c \in Held(n)' : Asked(n, c)'
      BY <1>5, <2>1 DEF NodeInv, Wanted
    <2>3. \A c \in Taken(n) \cup ran[n] : c.at <= now'
      <3>1. \A c \in Taken(n) \cup ran[n] : c.at \in Int
        BY HeldCommands DEF Held, Outcomes, Times
      <3> QED BY <3>1 DEF NodeInv, Wanted, Onwards
    <2> QED BY <1>5, <2>2, <2>3 DEF Wanted
  <1> QED BY <1>6, <1>7, <1>8, <1>9, <1>10 DEF NodeInv

\* The index after CancelDeferredCommand (deferred.go:81-111), of a command
\* the map has.
CancelsIt(n, cmd) ==
    /\ scheduled' = [scheduled EXCEPT ![n] = @ \ {cmd}]
    /\ timeIndex' = [timeIndex EXCEPT ![n][cmd.at] = RemovesFirst(@, cmd.id)]
    /\ cancelled' = [cancelled EXCEPT ![n] = @ \cup {cmd.id}]

\* One second loses its first entry of the ID, the others nothing.
LEMMA CancelsIndex ==
    ASSUME Shape, NEW n \in Nodes, NEW cmd \in scheduled[n], CancelsIt(n, cmd)
    PROVE  /\ timeIndex' \in [Nodes -> [Times -> Seq(Commands)]]
           /\ scheduled' \in [Nodes -> SUBSET Commands]
           /\ cancelled' \in [Nodes -> SUBSET IDs]
           /\ \A m \in Nodes \ {n} : /\ timeIndex'[m] = timeIndex[m]
                                     /\ scheduled'[m] = scheduled[m]
                                     /\ cancelled'[m] = cancelled[m]
           /\ scheduled'[n] = scheduled[n] \ {cmd}
           /\ cancelled'[n] = cancelled[n] \cup {cmd.id}
           /\ cmd.at \in Times /\ cmd.id \in IDs
           /\ \A t \in Times \ {cmd.at} : timeIndex'[n][t] = timeIndex[n][t]
           /\ Removed(timeIndex[n][cmd.at], timeIndex'[n][cmd.at], cmd.id)
           /\ timeIndex[n][cmd.at] \in Seq(Commands) /\ timeIndex'[n][cmd.at] \in Seq(Commands)
  <1>1. cmd \in Commands
    BY DEF Shape
  <1>2. cmd.at \in Times /\ cmd.id \in IDs
    BY <1>1 DEF Commands
  <1>3. PICK b : b = timeIndex[n][cmd.at]
    OBVIOUS
  <1>4. PICK s : s = RemovesFirst(b, cmd.id)
    OBVIOUS
  <1>5. b \in Seq(Commands)
    BY <1>2, <1>3 DEF Shape
  <1>6. s \in Seq(Commands) /\ Removed(b, s, cmd.id)
    BY <1>4, <1>5, RemovesFirstRemoves
  <1>7. timeIndex' = [timeIndex EXCEPT ![n][cmd.at] = s]
    BY <1>3, <1>4 DEF CancelsIt
  <1>8. timeIndex' \in [Nodes -> [Times -> Seq(Commands)]]
    BY <1>2, <1>6, <1>7 DEF Shape
  <1>9. /\ timeIndex'[n][cmd.at] = s
        /\ \A t \in Times \ {cmd.at} : timeIndex'[n][t] = timeIndex[n][t]
        /\ \A m \in Nodes \ {n} : timeIndex'[m] = timeIndex[m]
    BY <1>2, <1>7 DEF Shape
  <1>10. /\ scheduled' \in [Nodes -> SUBSET Commands]
         /\ scheduled'[n] = scheduled[n] \ {cmd}
         /\ \A m \in Nodes \ {n} : scheduled'[m] = scheduled[m]
    BY DEF CancelsIt, Shape
  <1>11. /\ cancelled' \in [Nodes -> SUBSET IDs]
         /\ cancelled'[n] = cancelled[n] \cup {cmd.id}
         /\ \A m \in Nodes \ {n} : cancelled'[m] = cancelled[m]
    BY <1>2 DEF CancelsIt, Shape
  <1> QED BY <1>2, <1>3, <1>5, <1>6, <1>8, <1>9, <1>10, <1>11

\* What a bucket holds once the first entry of the ID has left it.
LEMMA RemovedSet ==
    ASSUME NEW S, NEW bucket \in Seq(S), NEW rest \in Seq(S), NEW id, Removed(bucket, rest, id)
    PROVE  /\ \A i \in DOMAIN rest : \E j \in DOMAIN bucket : rest[i] = bucket[j]
           /\ \A j \in DOMAIN bucket : bucket[j].id # id => \E i \in DOMAIN rest : rest[i] = bucket[j]
           /\ \A j, i, k : (/\ i \in DOMAIN rest /\ k \in DOMAIN rest
                            /\ rest[i].id = j /\ rest[k].id = j
                            /\ \A l, m \in DOMAIN bucket : bucket[l].id = j /\ bucket[m].id = j => l = m)
                           => i = k
           /\ (\A l, m \in DOMAIN bucket : bucket[l].id = id /\ bucket[m].id = id => l = m)
                 => \A i \in DOMAIN rest : rest[i].id # id
  <1>1. CASE rest = bucket /\ \A i \in DOMAIN bucket : bucket[i].id # id
    BY <1>1
  <1>2. ASSUME NEW at \in DOMAIN bucket, bucket[at].id = id,
               Len(rest) = Len(bucket) - 1,
               \A i \in 1 .. Len(bucket) - 1 : rest[i] = IF i < at THEN bucket[i] ELSE bucket[i + 1]
        PROVE  /\ \A i \in DOMAIN rest : \E j \in DOMAIN bucket : rest[i] = bucket[j]
               /\ \A j \in DOMAIN bucket : bucket[j].id # id => \E i \in DOMAIN rest : rest[i] = bucket[j]
               /\ \A j, i, k : (/\ i \in DOMAIN rest /\ k \in DOMAIN rest
                                /\ rest[i].id = j /\ rest[k].id = j
                                /\ \A l, m \in DOMAIN bucket : bucket[l].id = j /\ bucket[m].id = j => l = m)
                               => i = k
               /\ (\A l, m \in DOMAIN bucket : bucket[l].id = id /\ bucket[m].id = id => l = m)
                     => \A i \in DOMAIN rest : rest[i].id # id
    <2>1. /\ DOMAIN bucket = 1 .. Len(bucket) /\ DOMAIN rest = 1 .. Len(bucket) - 1
          /\ Len(bucket) \in Nat /\ at \in 1 .. Len(bucket)
      BY <1>2
    <2> DEFINE From(i) == IF i < at THEN i ELSE i + 1
    <2>2. \A i \in DOMAIN rest : From(i) \in DOMAIN bucket /\ From(i) # at /\ rest[i] = bucket[From(i)]
      BY <1>2, <2>1
    <2>3. \A i, k \in DOMAIN rest : From(i) = From(k) => i = k
      BY <2>1
    <2>4. ASSUME NEW j \in DOMAIN bucket, bucket[j].id # id
          PROVE  \E i \in DOMAIN rest : rest[i] = bucket[j]
      <3>1. j # at
        BY <1>2, <2>4
      <3>2. CASE j < at
        BY <1>2, <2>1, <3>2
      <3>3. CASE j > at
        <4>1. j - 1 \in DOMAIN rest /\ ~ (j - 1 < at) /\ (j - 1) + 1 = j
          BY <2>1, <3>3
        <4> QED BY <1>2, <2>1, <4>1
      <3> QED BY <2>1, <3>1, <3>2, <3>3
    <2> HIDE DEF From
    <2>5. \A i \in DOMAIN rest : \E j \in DOMAIN bucket : rest[i] = bucket[j]
      BY <2>2
    <2>6. ASSUME NEW j, NEW i \in DOMAIN rest, NEW k \in DOMAIN rest,
                 rest[i].id = j, rest[k].id = j,
                 \A l, m \in DOMAIN bucket : bucket[l].id = j /\ bucket[m].id = j => l = m
          PROVE  i = k
      BY <2>2, <2>3, <2>6
    <2>7. ASSUME \A l, m \in DOMAIN bucket : bucket[l].id = id /\ bucket[m].id = id => l = m,
                 NEW i \in DOMAIN rest
          PROVE  rest[i].id # id
      BY <1>2, <2>2, <2>7
    <2> QED BY <2>4, <2>5, <2>6, <2>7
  <1> QED BY <1>1, <1>2 DEF Removed

\* CancelDeferredCommand on its node: the entry leaves both structures, and
\* what a tick took is another command's (deferred.go:81-111).
LEMMA CancelsKeeps ==
    ASSUME Shape, NEW n \in Nodes, NodeInv(n), NEW cmd \in scheduled[n], CancelsIt(n, cmd),
           running'[n] = running[n], ran'[n] = ran[n], reran'[n] = reran[n],
           arrived'[n] = arrived[n], rearrived'[n] = rearrived[n], Onwards
    PROVE  NodeInv(n)'
  <1>0. /\ \A t \in Times \ {cmd.at} : timeIndex'[n][t] = timeIndex[n][t]
        /\ scheduled'[n] = scheduled[n] \ {cmd}
        /\ cancelled'[n] = cancelled[n] \cup {cmd.id}
        /\ cmd.at \in Times
    BY CancelsIndex
  <1>1. PICK b : b = timeIndex[n][cmd.at]
    OBVIOUS
  <1>2. PICK s : s = timeIndex'[n][cmd.at]
    OBVIOUS
  <1>3. b \in Seq(Commands) /\ s \in Seq(Commands) /\ Removed(b, s, cmd.id)
    BY <1>1, <1>2, CancelsIndex
  <1>4. /\ \A i \in DOMAIN s : \E j \in DOMAIN b : s[i] = b[j]
        /\ \A j \in DOMAIN b : b[j].id # cmd.id => \E i \in DOMAIN s : s[i] = b[j]
        /\ \A j, i, k : (/\ i \in DOMAIN s /\ k \in DOMAIN s
                         /\ s[i].id = j /\ s[k].id = j
                         /\ \A l, m \in DOMAIN b : b[l].id = j /\ b[m].id = j => l = m)
                        => i = k
        /\ (\A l, m \in DOMAIN b : b[l].id = cmd.id /\ b[m].id = cmd.id => l = m)
              => \A i \in DOMAIN s : s[i].id # cmd.id
    BY <1>3, RemovedSet
  <1>5. \A c : c \in Indexed(n)' <=>
               \E t \in Times : \E i \in DOMAIN timeIndex'[n][t] : c = timeIndex'[n][t][i]
    BY DEF Indexed, ToSet
  <1>6. Indexed(n)' \subseteq Indexed(n)
    <2>1. ASSUME NEW c, NEW t \in Times, NEW i \in DOMAIN timeIndex'[n][t], c = timeIndex'[n][t][i]
          PROVE  c \in Indexed(n)
      <3>1. CASE t # cmd.at
        BY <1>0, <2>1, <3>1, InIndex
      <3>2. CASE t = cmd.at
        BY <1>0, <1>1, <1>2, <1>4, <2>1, <3>2, InIndex
      <3> QED BY <3>1, <3>2
    <2> QED BY <1>5, <2>1
  <1>7. \A c \in Indexed(n) : c.id # cmd.id => c \in Indexed(n)'
    <2>1. ASSUME NEW c, NEW t \in Times, NEW i \in DOMAIN timeIndex[n][t], c = timeIndex[n][t][i],
                 c.id # cmd.id
          PROVE  c \in Indexed(n)'
      <3>1. CASE t # cmd.at
        BY <1>0, <1>5, <2>1, <3>1
      <3>2. CASE t = cmd.at
        BY <1>0, <1>1, <1>2, <1>4, <1>5, <2>1, <3>2
      <3> QED BY <3>1, <3>2
    <2> QED BY <2>1, InIndex
  <1>8. /\ Taken(n)' = Taken(n) /\ Held(n)' \subseteq Held(n)
        /\ Once(n)' = Once(n) /\ Got(n) \subseteq Got(n)' /\ Got(n)' \subseteq 1 .. defers'
    BY <1>6 DEF Taken, Held, Once, Got, NodeInv, Given, Onwards
  <1>9. Placed(n)'
    <2>1. ASSUME NEW t \in Times, NEW i \in DOMAIN timeIndex'[n][t]
          PROVE  timeIndex'[n][t][i].at = t
      <3>1. CASE t # cmd.at
        BY <1>0, <3>1 DEF NodeInv, Placed
      <3>2. CASE t = cmd.at
        BY <1>0, <1>1, <1>2, <1>4, <3>2 DEF NodeInv, Placed
      <3> QED BY <3>1, <3>2
    <2> QED BY <2>1 DEF NodeInv, Placed
  <1>10. OneEach(n)'
    BY <1>0 DEF NodeInv, OneEach
  <1>11. Given(n)'
    <2>1. cmd.id \in Got(n)
      BY DEF NodeInv, Given
    <2> QED BY <1>0, <1>8, <2>1 DEF NodeInv, Given, Onwards
  <1>12. Single(n)'
    <2>1. ASSUME NEW id \in Once(n)
          PROVE  IndexedOnce(n, id)'
      <3>0. IndexedOnce(n, id)
        BY DEF NodeInv, Single
      <3>1. ASSUME NEW t \in Times, NEW i \in DOMAIN timeIndex'[n][t],
                   NEW j \in DOMAIN timeIndex'[n][t],
                   timeIndex'[n][t][i].id = id, timeIndex'[n][t][j].id = id
            PROVE  i = j
        <4>1. CASE t # cmd.at
          BY <1>0, <3>0, <3>1, <4>1 DEF IndexedOnce
        <4>2. CASE t = cmd.at
          <5>1. \A l, m \in DOMAIN b : b[l].id = id /\ b[m].id = id => l = m
            BY <1>0, <1>1, <3>0 DEF IndexedOnce
          <5> QED BY <1>2, <1>4, <3>1, <4>2, <5>1
        <4> QED BY <4>1, <4>2
      <3> QED BY <3>1 DEF IndexedOnce
    <2>2. ASSUME NEW id \in Once(n)
          PROVE  TakenOnce(n, id)'
      BY DEF TakenOnce, NodeInv, Single
    <2>3. ASSUME NEW id \in Once(n), id # cmd.id
          PROVE  Apart(n, id)'
      <3>1. Apart(n, id)
        BY DEF NodeInv, Single
      <3>2. Mapped(n, id)' = Mapped(n, id)
        BY <1>0, <2>3 DEF Mapped
      <3>3. {c \in Indexed(n)' : c.id = id} = {c \in Indexed(n) : c.id = id}
        BY <1>6, <1>7, <2>3
      <3>4. id \in cancelled'[n] => id \in cancelled[n]
        BY <1>0, <2>3
      <3> QED BY <1>8, <3>1, <3>2, <3>3, <3>4 DEF Apart
    <2>4. ASSUME cmd.id \in Once(n)
          PROVE  Apart(n, cmd.id)'
      <3>1. Apart(n, cmd.id) /\ IndexedOnce(n, cmd.id)
        BY <2>4 DEF NodeInv, Single
      <3>2. Mapped(n, cmd.id) = {cmd}
        BY DEF Mapped, NodeInv, OneEach
      <3>3. Mapped(n, cmd.id)' = {}
        BY <1>0, <3>2 DEF Mapped
      <3>4. \A c \in Indexed(n)' : c.id # cmd.id
        <4>1. ASSUME NEW c, NEW t \in Times, NEW i \in DOMAIN timeIndex'[n][t],
                     c = timeIndex'[n][t][i], c.id = cmd.id
              PROVE  FALSE
          <5>1. c \in Indexed(n)
            BY <1>5, <1>6, <4>1
          <5>2. c = cmd
            BY <3>1, <3>2, <4>1, <5>1 DEF Apart
          <5>3. t = cmd.at
            BY <1>9, <4>1, <5>2 DEF Placed
          <5>4. \A l, m \in DOMAIN b : b[l].id = cmd.id /\ b[m].id = cmd.id => l = m
            BY <1>0, <1>1, <3>1 DEF IndexedOnce
          <5> QED BY <1>2, <1>4, <4>1, <5>3, <5>4
        <4> QED BY <1>5, <4>1
      <3>5. \A c \in Taken(n) \cup ran[n] : c.id # cmd.id
        BY <3>1, <3>2 DEF Apart
      <3> QED BY <1>8, <3>1, <3>3, <3>4, <3>5 DEF Apart, Held
    <2> QED BY <1>8, <2>1, <2>2, <2>3, <2>4 DEF Single
  <1>13. Wanted(n)'
    <2>1. \A c : Asked(n, c) => Asked(n, c)'
      BY DEF Asked, Onwards
    <2>2. \A c \in Taken(n) \cup ran[n] : c.at <= now'
      <3>1. \A c \in Taken(n) \cup ran[n] : c.at \in Int
        BY HeldCommands DEF Held, Outcomes, Times
      <3> QED BY <3>1 DEF NodeInv, Wanted, Onwards
    <2> QED BY <1>8, <2>1, <2>2 DEF NodeInv, Wanted
  <1> QED BY <1>9, <1>10, <1>11, <1>12, <1>13 DEF NodeInv

\* The seconds of ready, each of them once.
InOrder(order, number, ready) ==
    /\ number \in Nat
    /\ order \in [1 .. number -> ready]
    /\ \A i, k \in 1 .. number : order[i] = order[k] => i = k
    /\ \A t \in ready : \E i \in 1 .. number : order[i] = t

\* What was in these seconds of the index.
InSeconds(n, order, number) == [i \in 1 .. number |-> timeIndex[n][order[i]]]

\* What executeReadyCommands takes is a number of seconds, each of them once
\* (deferred.go:170-191).
LEMMA CollectTakes ==
    ASSUME Shape, NEW n \in Nodes, NEW tick \in Times, CollectReady(n, tick)
    PROVE  /\ \E order, number : /\ InOrder(order, number, Ready(n, tick))
                                 /\ running'[n] = InSeconds(n, order, number)
           /\ running' \in [Nodes -> Seq(Seq(Commands))]
           /\ \A m \in Nodes \ {n} : running'[m] = running[m]
  <1>1. PICK order \in Bijection(1 .. Cardinality(Ready(n, tick)), Ready(n, tick)) :
           running' = [running EXCEPT ![n] = [i \in DOMAIN order |-> timeIndex[n][order[i]]]]
    BY DEF CollectReady
  <1>2. PICK number : number = Cardinality(Ready(n, tick))
    OBVIOUS
  <1>3. number \in Nat
    <2>1. IsFiniteSet(Times)
      BY FS_Interval, DeferredAssumption DEF Times
    <2>2. Ready(n, tick) \subseteq Times
      BY DEF Ready
    <2> QED BY <1>2, <2>1, <2>2, FS_Subset, FS_CardinalityType
  <1>4. PICK ready : ready = Ready(n, tick)
    OBVIOUS
  <1>5. order \in [1 .. number -> ready] /\ InOrder(order, number, ready)
    BY <1>1, <1>2, <1>3, <1>4 DEF InOrder, Bijection, Injection, Surjection, IsInjective
  <1>6. \A t \in ready : timeIndex[n][t] \in Seq(Commands)
    BY <1>4 DEF Ready, Shape
  <1>7. PICK seconds : seconds = InSeconds(n, order, number)
    OBVIOUS
  <1>8. seconds \in Seq(Seq(Commands))
    BY <1>3, <1>5, <1>6, <1>7 DEF InSeconds
  <1>9. running' = [running EXCEPT ![n] = seconds]
    BY <1>1, <1>5, <1>7 DEF InSeconds
  <1>10. /\ running'[n] = seconds /\ running' \in [Nodes -> Seq(Seq(Commands))]
         /\ \A m \in Nodes \ {n} : running'[m] = running[m]
    BY <1>8, <1>9 DEF Shape
  <1> QED BY <1>3, <1>4, <1>5, <1>7, <1>10

\* The index and the map without what the tick took.
LEMMA CollectLeaves ==
    ASSUME Shape, NEW n \in Nodes, NEW tick \in Times, CollectReady(n, tick)
    PROVE  /\ timeIndex' \in [Nodes -> [Times -> Seq(Commands)]]
           /\ scheduled' \in [Nodes -> SUBSET Commands]
           /\ \A m \in Nodes \ {n} : timeIndex'[m] = timeIndex[m] /\ scheduled'[m] = scheduled[m]
           /\ scheduled'[n] = Remain(n, Ready(n, tick))
           /\ \A t \in Ready(n, tick) : timeIndex'[n][t] = <<>>
           /\ \A t \in Times \ Ready(n, tick) : timeIndex'[n][t] = timeIndex[n][t]
  <1>1. PICK left : left = [t \in Times |-> IF t \in Ready(n, tick) THEN <<>> ELSE timeIndex[n][t]]
    OBVIOUS
  <1>2. left \in [Times -> Seq(Commands)]
    BY <1>1 DEF Shape
  <1>3. timeIndex' = [timeIndex EXCEPT ![n] = left]
    BY <1>1 DEF CollectReady
  <1>4. PICK kept : kept = Remain(n, Ready(n, tick))
    OBVIOUS
  <1>5. kept \subseteq Commands
    BY <1>4 DEF Remain, Shape
  <1>6. scheduled' = [scheduled EXCEPT ![n] = kept]
    BY <1>4 DEF CollectReady
  <1>7. /\ timeIndex' \in [Nodes -> [Times -> Seq(Commands)]] /\ timeIndex'[n] = left
        /\ \A m \in Nodes \ {n} : timeIndex'[m] = timeIndex[m]
    BY <1>2, <1>3 DEF Shape
  <1>8. /\ scheduled' \in [Nodes -> SUBSET Commands] /\ scheduled'[n] = kept
        /\ \A m \in Nodes \ {n} : scheduled'[m] = scheduled[m]
    BY <1>5, <1>6 DEF Shape
  <1>9. Ready(n, tick) \subseteq Times
    BY DEF Ready
  <1> QED BY <1>1, <1>4, <1>7, <1>8, <1>9

\* executeReadyCommands under the lock: whatever comes out of the index comes
\* out of the map, and is taken once (deferred.go:164-191).
LEMMA CollectKeeps ==
    ASSUME Shape, NEW n \in Nodes, NodeInv(n), NEW tick \in Times, CollectReady(n, tick)
    PROVE  NodeInv(n)'
  <1> DEFINE R == Ready(n, tick)
  <1>0. /\ running[n] = <<>> /\ tick <= now
        /\ UNCHANGED <<now, defers, asked, ran, reran, cancelled, arrived, rearrived>>
    BY DEF CollectReady
  <1>1. PICK order, number : InOrder(order, number, R) /\ running'[n] = InSeconds(n, order, number)
    BY CollectTakes
  <1>2. /\ order \in [1 .. number -> R] /\ number \in Nat
        /\ \A i, k \in 1 .. number : order[i] = order[k] => i = k
        /\ \A t \in R : \E i \in 1 .. number : order[i] = t
        /\ running'[n] = [i \in 1 .. number |-> timeIndex[n][order[i]]]
    BY <1>1 DEF InOrder, InSeconds
  <1>3. /\ scheduled'[n] = Remain(n, R)
        /\ \A t \in R : timeIndex'[n][t] = <<>>
        /\ \A t \in Times \ R : timeIndex'[n][t] = timeIndex[n][t]
    BY CollectLeaves
  <1>4. /\ R \subseteq Times
        /\ \A t \in R : t <= tick /\ timeIndex[n][t] # <<>>
    BY DEF Ready
  <1> HIDE DEF R
  <1>5. DOMAIN running'[n] = 1 .. number /\ \A i \in 1 .. number : running'[n][i] = timeIndex[n][order[i]]
    BY <1>2
  <1>6. \A c : c \in Taken(n)' <=> \E t \in R : \E j \in DOMAIN timeIndex[n][t] : c = timeIndex[n][t][j]
    <2>1. \A c : c \in Taken(n)' <=>
                 \E i \in DOMAIN running'[n] : \E j \in DOMAIN running'[n][i] : c = running'[n][i][j]
      BY DEF Taken, ToSet
    <2>2. ASSUME NEW c, c \in Taken(n)'
          PROVE  \E t \in R : \E j \in DOMAIN timeIndex[n][t] : c = timeIndex[n][t][j]
      <3>1. PICK i \in 1 .. number : \E j \in DOMAIN running'[n][i] : c = running'[n][i][j]
        BY <1>5, <2>1, <2>2
      <3>2. running'[n][i] = timeIndex[n][order[i]] /\ order[i] \in R
        BY <1>2, <1>5
      <3> QED BY <3>1, <3>2
    <2>3. ASSUME NEW c, NEW t \in R, NEW j \in DOMAIN timeIndex[n][t], c = timeIndex[n][t][j]
          PROVE  c \in Taken(n)'
      <3>1. PICK i \in 1 .. number : order[i] = t
        BY <1>2
      <3>2. running'[n][i] = timeIndex[n][t] /\ i \in DOMAIN running'[n]
        BY <1>5, <3>1
      <3> QED BY <2>1, <2>3, <3>2
    <2> QED BY <2>2, <2>3
  <1>7. \A c : c \in Taken(n)' <=> c \in Indexed(n) /\ c.at \in R
    BY <1>4, <1>6, InIndex DEF NodeInv, Placed
  <1>8. \A c : c \in Indexed(n)' <=> c \in Indexed(n) /\ c.at \notin R
    <2>1. \A c : c \in Indexed(n)' <=>
                 \E t \in Times : \E i \in DOMAIN timeIndex'[n][t] : c = timeIndex'[n][t][i]
      BY DEF Indexed, ToSet
    <2>2. DOMAIN (<<>>) = {}
      OBVIOUS
    <2>3. \A c : c \in Indexed(n)' <=>
                 \E t \in Times \ R : \E i \in DOMAIN timeIndex[n][t] : c = timeIndex[n][t][i]
      BY <1>3, <1>4, <2>1, <2>2
    <2> QED BY <2>3, InIndex DEF NodeInv, Placed
  <1>9. \A c : c \in scheduled'[n] <=> c \in scheduled[n] /\ \A d \in Taken(n)' : d.id # c.id
    <2>1. \A c : c \in scheduled'[n] <=>
                 c \in scheduled[n] /\ \A t \in R : \A d \in ToSet(timeIndex[n][t]) : d.id # c.id
      BY <1>3 DEF Remain
    <2> QED BY <1>6, <2>1 DEF ToSet
  <1>10. Taken(n) = {}
    <2>1. DOMAIN running[n] = {}
      BY <1>0
    <2> QED BY <2>1, InTaken
  <1>11. Held(n)' = Held(n)
    BY <1>0, <1>7, <1>8, <1>10 DEF Held
  <1>12. Once(n)' = Once(n) /\ Got(n)' = Got(n)
    BY <1>0 DEF Once, Got
  <1>13. Placed(n)'
    <2>1. \A t \in Times : \A i \in DOMAIN timeIndex'[n][t] : timeIndex'[n][t][i].at = t
      <3>1. DOMAIN (<<>>) = {}
        OBVIOUS
      <3> QED BY <1>3, <3>1 DEF NodeInv, Placed
    <2>2. \A i \in DOMAIN running'[n] : running'[n][i] # <<>>
      BY <1>2, <1>4, <1>5
    <2> QED BY <2>1, <2>2 DEF Placed
  <1>14. OneEach(n)'
    BY <1>9 DEF NodeInv, OneEach
  <1>15. Given(n)'
    BY <1>0, <1>9, <1>11, <1>12 DEF NodeInv, Given
  <1>16. Single(n)'
    <2>1. ASSUME NEW id \in Once(n) PROVE IndexedOnce(n, id)'
      <3>1. IndexedOnce(n, id)
        BY DEF NodeInv, Single
      <3>2. DOMAIN (<<>>) = {}
        OBVIOUS
      <3> QED BY <1>3, <3>1, <3>2 DEF IndexedOnce
    <2>2. ASSUME NEW id \in Once(n), NEW c \in Indexed(n), c.id = id
          PROVE  Mapped(n, id) = {c} /\ \A d \in Indexed(n) : d.id = id => d = c
      <3>1. c \in Mapped(n, id) /\ \A d \in Indexed(n) : d.id = id => d \in Mapped(n, id)
        BY <2>2 DEF NodeInv, Single, Apart
      <3>2. \A d \in Mapped(n, id) : d = c
        BY <3>1 DEF Mapped, NodeInv, OneEach
      <3> QED BY <3>1, <3>2
    <2>3. ASSUME NEW id \in Once(n) PROVE TakenOnce(n, id)'
      <3>1. ASSUME NEW i \in 1 .. number, NEW k \in 1 .. number,
                   NEW j \in DOMAIN timeIndex[n][order[i]], NEW l \in DOMAIN timeIndex[n][order[k]],
                   timeIndex[n][order[i]][j].id = id, timeIndex[n][order[k]][l].id = id
            PROVE  i = k /\ j = l
        <4>1. order[i] \in Times /\ order[k] \in Times
          BY <1>2, <1>4
        <4>2. timeIndex[n][order[i]][j] \in Indexed(n) /\ timeIndex[n][order[k]][l] \in Indexed(n)
          BY <4>1, InIndex
        <4>3. timeIndex[n][order[i]][j] = timeIndex[n][order[k]][l]
          BY <2>2, <3>1, <4>2
        <4>4. order[i] = order[k]
          BY <4>1, <4>3 DEF NodeInv, Placed
        <4>5. i = k
          BY <1>2, <4>4
        <4> QED BY <3>1, <4>1, <4>5 DEF NodeInv, Single, IndexedOnce
      <3>2. ASSUME NEW i \in DOMAIN running'[n], NEW k \in DOMAIN running'[n],
                   NEW j \in DOMAIN running'[n][i], NEW l \in DOMAIN running'[n][k],
                   running'[n][i][j].id = id, running'[n][k][l].id = id
            PROVE  i = k /\ j = l
        <4>1. /\ i \in 1 .. number /\ running'[n][i] = timeIndex[n][order[i]]
              /\ k \in 1 .. number /\ running'[n][k] = timeIndex[n][order[k]]
          BY <1>5
        <4> QED BY <3>1, <3>2, <4>1
      <3> QED BY <3>2 DEF TakenOnce, OnceIn
    <2>4. ASSUME NEW id \in Once(n) PROVE Apart(n, id)'
      <3>1. Apart(n, id)
        BY DEF NodeInv, Single
      <3>2. ASSUME NEW d \in Taken(n)', d.id = id
            PROVE  /\ Mapped(n, id)' = {} /\ \A c \in Indexed(n)' : c.id # id
                   /\ \A c \in ran[n] : c.id # id
        <4>1. d \in Indexed(n) /\ d.at \in R
          BY <1>7
        <4>2. Mapped(n, id) = {d} /\ \A c \in Indexed(n) : c.id = id => c = d
          BY <2>2, <3>2, <4>1
        <4>3. Mapped(n, id)' = {}
          BY <1>9, <3>2 DEF Mapped
        <4>4. \A c \in Indexed(n)' : c.id # id
          BY <1>8, <4>1, <4>2
        <4>5. \A c \in ran[n] : c.id # id
          BY <3>1, <4>2 DEF Apart
        <4> QED BY <4>3, <4>4, <4>5
      <3>3. ASSUME \A d \in Taken(n)' : d.id # id
            PROVE  /\ Mapped(n, id)' = Mapped(n, id)
                   /\ {c \in Indexed(n)' : c.id = id} = {c \in Indexed(n) : c.id = id}
        <4>1. Mapped(n, id)' = Mapped(n, id)
          BY <1>9, <3>3 DEF Mapped
        <4>2. {c \in Indexed(n)' : c.id = id} = {c \in Indexed(n) : c.id = id}
          BY <1>7, <1>8, <3>3
        <4> QED BY <4>1, <4>2
      <3>4. Mapped(n, id)' = {c \in Indexed(n)' : c.id = id}
        <4>1. CASE \E d \in Taken(n)' : d.id = id
          BY <3>2, <4>1
        <4>2. CASE \A d \in Taken(n)' : d.id # id
          BY <3>1, <3>3, <4>2 DEF Apart
        <4> QED BY <4>1, <4>2
      <3>5. ASSUME NEW c \in Taken(n)' \cup ran'[n], c.id = id PROVE Mapped(n, id)' = {}
        <4>1. CASE c \in Taken(n)'
          BY <3>2, <3>5, <4>1
        <4>2. CASE c \in ran[n]
          <5>1. Mapped(n, id) = {}
            BY <3>1, <3>5, <4>2 DEF Apart
          <5> QED BY <1>9, <5>1 DEF Mapped
        <4> QED BY <1>0, <3>5, <4>1, <4>2
      <3>6. \A c \in Taken(n)', d \in ran'[n] : ~ (c.id = id /\ d.id = id)
        BY <1>0, <3>2
      <3>7. id \notin reran'[n] /\ (id \in cancelled'[n] => \A c \in Held(n)' : c.id # id)
        BY <1>0, <1>11, <3>1 DEF Apart
      <3> QED BY <3>4, <3>5, <3>6, <3>7 DEF Apart
    <2> QED BY <1>12, <2>1, <2>3, <2>4 DEF Single
  <1>17. Wanted(n)'
    <2>1. \A c : Asked(n, c)' <=> Asked(n, c)
      BY <1>0 DEF Asked
    <2>2. \A c \in Taken(n)' : c.at <= now
      <3>1. ASSUME NEW c \in Taken(n)' PROVE c.at <= now
        <4>1. c.at \in R
          BY <1>7
        <4>2. c.at <= tick /\ c.at \in Times
          BY <1>4, <4>1
        <4> QED BY <1>0, <4>2 DEF Shape, Times
      <3> QED BY <3>1
    <2>3. \A c \in ran[n] : c.at <= now
      BY DEF NodeInv, Wanted
    <2> QED BY <1>0, <1>11, <2>1, <2>2, <2>3 DEF NodeInv, Wanted
  <1> QED BY <1>13, <1>14, <1>15, <1>16, <1>17 DEF NodeInv

\* Where the entry in place i, j of Rest(seconds) was.
FirstAlone(seconds) == Len(Head(seconds)) = 1

WasSecond(seconds, i) == IF FirstAlone(seconds) THEN i + 1 ELSE i

WasPlace(seconds, i, j) == IF ~FirstAlone(seconds) /\ i = 1 THEN j + 1 ELSE j

\* The rest of what a tick took is the same without its first command
\* (deferred.go:192-196).
LEMMA RestPlaces ==
    ASSUME NEW S, NEW q \in Seq(Seq(S)), q # <<>>, \A i \in DOMAIN q : q[i] # <<>>
    PROVE  /\ Rest(q) \in Seq(Seq(S))
           /\ \A i \in DOMAIN Rest(q) : Rest(q)[i] # <<>>
           /\ \A i \in DOMAIN Rest(q) : i \in Nat /\ i >= 1
           /\ \A i \in DOMAIN Rest(q) : \A j \in DOMAIN Rest(q)[i] :
                 /\ j \in Nat /\ j >= 1
                 /\ WasSecond(q, i) \in DOMAIN q
                 /\ WasPlace(q, i, j) \in DOMAIN q[WasSecond(q, i)]
                 /\ Rest(q)[i][j] = q[WasSecond(q, i)][WasPlace(q, i, j)]
                 /\ ~ (WasSecond(q, i) = 1 /\ WasPlace(q, i, j) = 1)
  <1>1. Len(q) \in Nat /\ Len(q) >= 1 /\ DOMAIN q = 1 .. Len(q)
    OBVIOUS
  <1>2. PICK h : h = q[1]
    OBVIOUS
  <1>3. h \in Seq(S) /\ h # <<>> /\ Head(q) = h
    BY <1>1, <1>2
  <1>4. Len(h) \in Nat /\ Len(h) >= 1
    BY <1>3
  <1>5. PICK r : r = Rest(q)
    OBVIOUS
  <1>6. ASSUME Len(h) = 1
        PROVE  /\ r \in Seq(Seq(S)) /\ Len(r) = Len(q) - 1
               /\ \A i \in 1 .. Len(q) - 1 : r[i] = q[i + 1]
    <2>1. r = Tail(q)
      BY <1>3, <1>5, <1>6 DEF Rest
    <2>2. r \in Seq(Seq(S)) /\ Len(r) = Len(q) - 1
      BY <1>1, <2>1
    <2>3. \A i \in 1 .. Len(q) - 1 : r[i] = q[i + 1]
      BY <1>1, <2>1
    <2> QED BY <2>2, <2>3
  <1>7. ASSUME Len(h) # 1
        PROVE  /\ r \in Seq(Seq(S)) /\ Len(r) = Len(q)
               /\ r[1] \in Seq(S) /\ Len(r[1]) = Len(h) - 1
               /\ \A j \in 1 .. Len(h) - 1 : r[1][j] = h[j + 1]
               /\ \A i \in 1 .. Len(q) : i # 1 => r[i] = q[i]
    <2>1. PICK t : t = Tail(h)
      OBVIOUS
    <2>2. t \in Seq(S) /\ Len(t) = Len(h) - 1 /\ \A j \in 1 .. Len(h) - 1 : t[j] = h[j + 1]
      BY <1>3, <2>1
    <2>3. r = [q EXCEPT ![1] = t]
      BY <1>2, <1>3, <1>5, <1>7, <2>1 DEF Rest
    <2>4. r \in Seq(Seq(S)) /\ Len(r) = Len(q)
      BY <2>2, <2>3
    <2>5. r[1] = t /\ \A i \in 1 .. Len(q) : i # 1 => r[i] = q[i]
      BY <1>1, <2>3
    <2> QED BY <2>2, <2>4, <2>5
  <1>8. CASE Len(h) = 1
    <2>1. \A i : WasSecond(q, i) = i + 1
      BY <1>3, <1>8 DEF WasSecond, FirstAlone
    <2>2. \A i, j : WasPlace(q, i, j) = j
      BY <1>3, <1>8 DEF WasPlace, FirstAlone
    <2>3. DOMAIN r = 1 .. Len(q) - 1
      BY <1>6, <1>8
    <2>4. \A i \in DOMAIN r : r[i] # <<>> /\ r[i] \in Seq(S)
      <3>1. \A i \in DOMAIN q : q[i] # <<>> /\ q[i] \in Seq(S)
        OBVIOUS
      <3>2. \A i \in DOMAIN r : i + 1 \in DOMAIN q /\ r[i] = q[i + 1]
        BY <1>1, <1>6, <1>8, <2>3
      <3> QED BY <3>1, <3>2
    <2>5. ASSUME NEW i \in DOMAIN r, NEW j \in DOMAIN r[i]
          PROVE  /\ j \in Nat /\ j >= 1
                 /\ i + 1 \in DOMAIN q /\ j \in DOMAIN q[i + 1]
                 /\ r[i][j] = q[i + 1][j]
                 /\ ~ (i + 1 = 1 /\ j = 1)
      <3>1. i + 1 \in DOMAIN q /\ r[i] = q[i + 1] /\ i \in Nat /\ i >= 1
        BY <1>1, <1>6, <1>8, <2>3
      <3>2. j \in Nat /\ j >= 1
        BY <2>4
      <3> QED BY <3>1, <3>2
    <2>6. \A i \in DOMAIN r : i \in Nat /\ i >= 1
      BY <1>1, <2>3
    <2> QED BY <1>5, <1>6, <1>8, <2>1, <2>2, <2>4, <2>5, <2>6
  <1>9. CASE Len(h) # 1
    <2>1. \A i : WasSecond(q, i) = i
      BY <1>3, <1>9 DEF WasSecond, FirstAlone
    <2>2. \A i, j : WasPlace(q, i, j) = IF i = 1 THEN j + 1 ELSE j
      BY <1>3, <1>9 DEF WasPlace, FirstAlone
    <2>3. DOMAIN r = 1 .. Len(q)
      BY <1>7, <1>9
    <2>4. \A i \in DOMAIN r : r[i] # <<>> /\ r[i] \in Seq(S)
      <3>1. r[1] # <<>> /\ r[1] \in Seq(S)
        <4>1. Len(r[1]) >= 1 /\ r[1] \in Seq(S)
          <5>1. r[1] \in Seq(S) /\ Len(r[1]) = Len(h) - 1
            BY <1>7, <1>9
          <5>2. PICK size : size = Len(h)
            OBVIOUS
          <5>3. size \in Nat /\ size >= 2
            BY <1>4, <1>9, <5>2
          <5>4. size - 1 >= 1
            BY <5>3
          <5> QED BY <5>1, <5>2, <5>4
        <4>2. PICK u : u = r[1]
          OBVIOUS
        <4>3. Len(u) >= 1 /\ u \in Seq(S)
          BY <4>1, <4>2
        <4>4. u # <<>>
          BY <4>3
        <4> QED BY <4>1, <4>2, <4>4
      <3>2. \A i \in DOMAIN q : q[i] # <<>> /\ q[i] \in Seq(S)
        OBVIOUS
      <3> QED BY <1>1, <1>7, <1>9, <2>3, <3>1, <3>2
    <2>5. ASSUME NEW i \in DOMAIN r, NEW j \in DOMAIN r[i]
          PROVE  /\ j \in Nat /\ j >= 1
                 /\ i \in DOMAIN q /\ (IF i = 1 THEN j + 1 ELSE j) \in DOMAIN q[i]
                 /\ r[i][j] = q[i][IF i = 1 THEN j + 1 ELSE j]
                 /\ ~ (i = 1 /\ (IF i = 1 THEN j + 1 ELSE j) = 1)
      <3>0. j \in Nat /\ j >= 1
        BY <2>4
      <3>1. CASE i = 1
        <4>1. j \in 1 .. Len(h) - 1
          BY <1>4, <1>7, <1>9, <3>1
        <4>2. j + 1 \in DOMAIN h
          BY <1>3, <1>4, <4>1
        <4> QED BY <1>1, <1>2, <1>7, <1>9, <3>0, <3>1, <4>1, <4>2
      <3>2. CASE i # 1
        BY <1>1, <1>7, <1>9, <2>3, <3>0, <3>2
      <3> QED BY <3>1, <3>2
    <2>6. \A i \in DOMAIN r : i \in Nat /\ i >= 1
      BY <1>1, <2>3
    <2> QED BY <1>5, <1>7, <1>9, <2>1, <2>2, <2>4, <2>5, <2>6
  <1> QED BY <1>8, <1>9

\* Two places of the rest were two places.
LEMMA RestOnce ==
    ASSUME NEW S, NEW q \in Seq(Seq(S)), q # <<>>, \A i \in DOMAIN q : q[i] # <<>>,
           NEW id, OnceIn(q, id)
    PROVE  OnceIn(Rest(q), id)
  <1>1. ASSUME NEW i \in DOMAIN Rest(q), NEW k \in DOMAIN Rest(q),
               NEW j \in DOMAIN Rest(q)[i], NEW l \in DOMAIN Rest(q)[k],
               Rest(q)[i][j].id = id, Rest(q)[k][l].id = id
        PROVE  i = k /\ j = l
    <2>1. /\ WasSecond(q, i) \in DOMAIN q /\ WasPlace(q, i, j) \in DOMAIN q[WasSecond(q, i)]
          /\ Rest(q)[i][j] = q[WasSecond(q, i)][WasPlace(q, i, j)]
          /\ WasSecond(q, k) \in DOMAIN q /\ WasPlace(q, k, l) \in DOMAIN q[WasSecond(q, k)]
          /\ Rest(q)[k][l] = q[WasSecond(q, k)][WasPlace(q, k, l)]
      BY RestPlaces
    <2>2. WasSecond(q, i) = WasSecond(q, k) /\ WasPlace(q, i, j) = WasPlace(q, k, l)
      BY <1>1, <2>1 DEF OnceIn
    <2>3. i \in Nat /\ k \in Nat /\ j \in Nat /\ l \in Nat
      BY RestPlaces
    <2> QED BY <2>2, <2>3 DEF WasSecond, WasPlace
  <1> QED BY <1>1 DEF OnceIn

\* What runs has the ID and the second of the command, and its texts too but
\* for those the schedule of clients' commands only views.
LEMMA SameCommand ==
    ASSUME NEW n \in Nodes, NEW cmd \in Commands, NEW read \in Reads(n, cmd)
    PROVE  /\ read \in Outcomes /\ read.id = cmd.id /\ read.at = cmd.at
           /\ n # Home => read = cmd
  <1>1. CASE n # Home
    BY <1>1 DEF Reads, Commands, Outcomes
  <1>2. CASE n = Home
    <2>1. read \in [id : {cmd.id}, at : {cmd.at}, key : Scraps \cup {cmd.key},
                   args : Scraps \cup {cmd.args}]
      BY <1>2 DEF Reads
    <2> QED BY <1>2, <2>1 DEF Commands, Outcomes
  <1> QED BY <1>1, <1>2

\* What Execute leaves to run, and what has run.
LEMMA ExecuteMoves ==
    ASSUME Shape, NEW n \in Nodes, NodeInv(n), Execute(n)
    PROVE  LET cmd == Head(Head(running[n]))
           IN  /\ cmd \in Taken(n) /\ cmd \in Commands
               /\ running[n] # <<>> /\ running[n] \in Seq(Seq(Commands))
               /\ \A i \in DOMAIN running[n] : running[n][i] # <<>>
               /\ running[n][1][1] = cmd /\ 1 \in DOMAIN running[n] /\ 1 \in DOMAIN running[n][1]
               /\ running'[n] = Rest(running[n])
               /\ running' \in [Nodes -> Seq(Seq(Commands))]
               /\ \E read \in Reads(n, cmd) : ran'[n] = ran[n] \cup {read}
               /\ ran' \in [Nodes -> SUBSET Outcomes]
               /\ reran'[n] = reran[n] \cup {c.id : c \in {x \in ran[n] : x.id = cmd.id}}
               /\ reran' \in [Nodes -> SUBSET IDs]
               /\ \A m \in Nodes \ {n} : /\ running'[m] = running[m]
                                         /\ ran'[m] = ran[m] /\ reran'[m] = reran[m]
  <1>1. PICK q : q = running[n]
    OBVIOUS
  <1>2. q \in Seq(Seq(Commands)) /\ q # <<>> /\ \A i \in DOMAIN q : q[i] # <<>>
    BY <1>1 DEF Shape, NodeInv, Placed, Execute
  <1>3. PICK h : h = q[1]
    OBVIOUS
  <1>4. 1 \in DOMAIN q /\ Head(q) = h /\ h \in Seq(Commands)
    BY <1>2, <1>3
  <1>5. h # <<>>
    BY <1>2, <1>3, <1>4
  <1>6. PICK cmd : cmd = Head(h)
    OBVIOUS
  <1>7. cmd \in Commands /\ h[1] = cmd /\ 1 \in DOMAIN h
    BY <1>4, <1>5, <1>6
  <1>8. cmd \in Taken(n)
    BY <1>1, <1>3, <1>4, <1>7, InTaken
  <1>9. PICK rest : rest = Rest(q)
    OBVIOUS
  <1>10. rest \in Seq(Seq(Commands))
    BY <1>2, <1>9, RestPlaces
  <1>11. running' = [running EXCEPT ![n] = rest]
    BY <1>1, <1>9 DEF Execute
  <1>12. /\ running'[n] = rest /\ running' \in [Nodes -> Seq(Seq(Commands))]
         /\ \A m \in Nodes \ {n} : running'[m] = running[m]
    BY <1>10, <1>11 DEF Shape
  <1>13. PICK read \in Reads(n, cmd) : ran' = [ran EXCEPT ![n] = @ \cup {read}]
    BY <1>1, <1>4, <1>6 DEF Execute
  <1>14. /\ ran'[n] = ran[n] \cup {read} /\ ran' \in [Nodes -> SUBSET Outcomes]
         /\ \A m \in Nodes \ {n} : ran'[m] = ran[m]
    <2>1. read \in Outcomes
      BY <1>7, SameCommand
    <2> QED BY <1>13, <2>1 DEF Shape
  <1>15. PICK twice : twice = {c.id : c \in {x \in ran[n] : x.id = cmd.id}}
    OBVIOUS
  <1>16. twice \subseteq IDs
    BY <1>15 DEF Shape, Outcomes
  <1>17. reran' = [reran EXCEPT ![n] = @ \cup twice]
    BY <1>1, <1>4, <1>6, <1>15 DEF Execute
  <1>18. /\ reran'[n] = reran[n] \cup twice /\ reran' \in [Nodes -> SUBSET IDs]
         /\ \A m \in Nodes \ {n} : reran'[m] = reran[m]
    BY <1>16, <1>17 DEF Shape
  <1>19. Head(Head(running[n])) = cmd
    BY <1>1, <1>4, <1>6
  <1> QED BY <1>1, <1>2, <1>3, <1>4, <1>7, <1>8, <1>9, <1>12, <1>14, <1>15, <1>18, <1>19

\* executeCommand, of the first command taken: it has not run, and what is
\* left has other IDs or came twice (deferred.go:192-240).
LEMMA ExecuteKeeps ==
    ASSUME Shape, NEW n \in Nodes, NodeInv(n), Execute(n)
    PROVE  NodeInv(n)'
  <1>1. PICK cmd : cmd = Head(Head(running[n]))
    OBVIOUS
  <1>2. PICK q : q = running[n]
    OBVIOUS
  <1>3. /\ cmd \in Taken(n)
        /\ q \in Seq(Seq(Commands)) /\ q # <<>> /\ \A i \in DOMAIN q : q[i] # <<>>
        /\ q[1][1] = cmd /\ 1 \in DOMAIN q /\ 1 \in DOMAIN q[1]
        /\ running'[n] = Rest(q)
        /\ reran'[n] = reran[n] \cup {c.id : c \in {x \in ran[n] : x.id = cmd.id}}
        /\ cmd \in Commands
        /\ \E r \in Reads(n, cmd) : ran'[n] = ran[n] \cup {r}
    BY <1>1, <1>2, ExecuteMoves
  <1>read. PICK read \in Reads(n, cmd) : ran'[n] = ran[n] \cup {read}
    BY <1>3
  <1>same. read.id = cmd.id /\ read.at = cmd.at /\ (n # Home => read = cmd)
    BY <1>3, SameCommand
  <1>4. UNCHANGED <<now, defers, scheduled, timeIndex, asked, cancelled, arrived, rearrived>>
    BY DEF Execute
  <1>5. /\ Indexed(n)' = Indexed(n) /\ Once(n)' = Once(n) /\ Got(n)' = Got(n)
        /\ \A id : Mapped(n, id)' = Mapped(n, id)
    BY <1>4 DEF Indexed, Once, Got, Mapped
  <1>6. /\ \A i \in DOMAIN Rest(q) : Rest(q)[i] # <<>>
        /\ \A i \in DOMAIN Rest(q) : \A j \in DOMAIN Rest(q)[i] :
              /\ WasSecond(q, i) \in DOMAIN q
              /\ WasPlace(q, i, j) \in DOMAIN q[WasSecond(q, i)]
              /\ Rest(q)[i][j] = q[WasSecond(q, i)][WasPlace(q, i, j)]
              /\ ~ (WasSecond(q, i) = 1 /\ WasPlace(q, i, j) = 1)
    BY <1>3, RestPlaces
  <1>7. \A c \in Taken(n)' :
           \E k \in DOMAIN q : \E l \in DOMAIN q[k] : c = q[k][l] /\ ~ (k = 1 /\ l = 1)
    <2>1. \A c \in Taken(n)' :
             \E i \in DOMAIN Rest(q) : \E j \in DOMAIN Rest(q)[i] : c = Rest(q)[i][j]
      BY <1>3 DEF Taken, ToSet
    <2> QED BY <1>6, <2>1
  <1>8. Taken(n)' \subseteq Taken(n)
    BY <1>2, <1>7, InTaken
  <1>9. /\ Held(n)' \subseteq Held(n) \cup {read} /\ cmd \in Held(n)
        /\ Taken(n)' \cup ran'[n] \subseteq Taken(n) \cup ran[n] \cup {read}
    BY <1>3, <1>5, <1>8, <1>read DEF Held
  <1>10. Placed(n)'
    BY <1>3, <1>4, <1>6 DEF NodeInv, Placed
  <1>11. OneEach(n)' /\ Given(n)'
    <2>1. \A c \in Held(n)' : c.id \in Got(n)
      BY <1>9, <1>same DEF NodeInv, Given
    <2> QED BY <1>4, <1>5, <2>1 DEF NodeInv, OneEach, Given
  <1>12. Single(n)'
    <2>1. ASSUME NEW id \in Once(n)
          PROVE  IndexedOnce(n, id)' /\ TakenOnce(n, id)'
      <3>1. IndexedOnce(n, id)'
        BY <1>4 DEF NodeInv, Single, IndexedOnce
      <3>2. OnceIn(q, id)
        BY <1>2 DEF NodeInv, Single, TakenOnce
      <3>3. OnceIn(Rest(q), id)
        BY <1>3, <3>2, RestOnce
      <3> QED BY <1>3, <3>1, <3>3 DEF TakenOnce
    <2>2. ASSUME NEW id \in Once(n)
          PROVE  Apart(n, id)'
      <3>1. Apart(n, id) /\ OnceIn(q, id)
        BY <1>2 DEF NodeInv, Single, TakenOnce
      <3>2. Mapped(n, id)' = {c \in Indexed(n)' : c.id = id}
        BY <1>5, <3>1 DEF Apart
      <3>3. \A c \in Taken(n)' \cup ran'[n] : c.id = id => Mapped(n, id)' = {}
        BY <1>3, <1>5, <1>9, <1>same, <3>1 DEF Apart
      <3>4. ASSUME NEW c \in Taken(n)', NEW d \in ran'[n], c.id = id, d.id = id
            PROVE  FALSE
        <4>1. CASE d \in ran[n]
          BY <1>8, <3>1, <3>4, <4>1 DEF Apart
        <4>2. CASE d = read
          <5>1. PICK k \in DOMAIN q : \E l \in DOMAIN q[k] : c = q[k][l] /\ ~ (k = 1 /\ l = 1)
            BY <1>7
          <5>2. PICK l \in DOMAIN q[k] : c = q[k][l] /\ ~ (k = 1 /\ l = 1)
            BY <5>1
          <5> QED BY <1>3, <1>same, <3>1, <3>4, <4>2, <5>2 DEF OnceIn
        <4> QED BY <1>read, <4>1, <4>2
      <3>5. id \notin reran'[n]
        <4>1. id \notin reran[n]
          BY <3>1 DEF Apart
        <4>2. id = cmd.id => \A x \in ran[n] : x.id # cmd.id
          BY <1>3, <3>1 DEF Apart
        <4> QED BY <1>3, <4>1, <4>2
      <3>6. id \in cancelled'[n] => \A c \in Held(n)' : c.id # id
        BY <1>4, <1>9, <1>same, <3>1 DEF Apart
      <3> QED BY <3>2, <3>3, <3>4, <3>5, <3>6 DEF Apart
    <2> QED BY <1>5, <2>1, <2>2 DEF Single
  <1>13. Wanted(n)'
    <2>1. \A c : Asked(n, c)' <=> Asked(n, c)
      BY <1>4 DEF Asked
    <2>2. Asked(n, cmd) => Asked(n, read)
      BY <1>same DEF Asked
    <2>3. Asked(n, cmd) /\ cmd.at <= now
      BY <1>3, <1>9 DEF NodeInv, Wanted
    <2> QED BY <1>4, <1>9, <1>same, <2>1, <2>2, <2>3 DEF NodeInv, Wanted
  <1> QED BY <1>10, <1>11, <1>12, <1>13 DEF NodeInv

-----------------------------------------------------------------------------
(***************************************************************************)
(* The actions.                                                            *)
(***************************************************************************)
\* A step is the business of one node.
LEMMA OneNode ==
    ASSUME IInv, Onwards, NEW n \in Nodes, NodeInv(n)', \A m \in Nodes \ {n} : Untouched(m)
    PROVE  \A m \in Nodes : NodeInv(m)'
  BY Elsewhere DEF IInv

\* No event is ever too late for what it carries.
LEMMA SentStays ==
    ASSUME IInv, Onwards, NEW event \in events PROVE Sent(event)'
  <1>1. Sent(event) /\ event.id \in Nat /\ event.delay \in Nat
    BY DEF IInv, Shape, Events, IDs
  <1>2. event.id \in 1 .. defers'
    BY <1>1 DEF Sent, Onwards
  <1>3. ASSUME NEW a \in asked, a.due < Until(now + event.delay) PROVE a.due < Until(now' + event.delay)
    <2>1. a.due \in Nat
      BY DEF IInv, Shape, Demands
    <2>2. PICK x, y : x = now + event.delay /\ y = now' + event.delay
      OBVIOUS
    <2>3. x \in Nat /\ y \in Nat /\ x <= y
      BY <1>1, <2>2 DEF IInv, Shape, Times, Onwards
    <2>4. Until(x) \in Nat /\ Until(y) \in Nat /\ Until(x) <= Until(y)
      BY <2>3, LaterSecond
    <2>5. a.due < Until(x)
      BY <1>3, <2>2
    <2>6. a.due < Until(y)
      BY <2>1, <2>4, <2>5
    <2> QED BY <2>2, <2>6
  <1> QED BY <1>1, <1>2, <1>3 DEF Sent, Onwards

\* Numbers that do not change are onward.
LEMMA StandStill ==
    ASSUME IInv, UNCHANGED <<now, defers, asked>>, arrived'[Home] = arrived[Home]
    PROVE  Onwards
  BY DeferredAssumption DEF IInv, Shape, NodeInv, Given, Onwards, Times

\* DEFER (deferred_commands.go:238-291).
LEMMA DeferIInv ==
    ASSUME IInv, NEW key \in Keys, NEW delay \in Delays, NEW moment \in Moments,
           Defer(key, delay, moment)
    PROVE  IInv'
  <1>1. PICK cmd : cmd = [id |-> defers + 1, at |-> now + delay, key |-> key, args |-> Argument]
    OBVIOUS
  <1>2. /\ defers < MaxDefers /\ defers' = defers + 1
        /\ Adds(Home, cmd)
        /\ asked' = asked \cup {[id |-> cmd.id, due |-> cmd.at * PerSecond + moment,
                                 key |-> key, args |-> Argument]}
        /\ ToPeers([to |-> Home, op |-> "defer", id |-> cmd.id, delay |-> delay,
                    text |-> cmd.key \o cmd.args])
        /\ UNCHANGED <<now, running, resends, ran, reran, cancelled, arrived, rearrived>>
    BY <1>1 DEF Defer
  <1>3. /\ defers \in Nat /\ now \in Nat /\ delay \in Nat /\ Home \in Nodes
        /\ MaxDefers \in Nat
    BY DeferredAssumption DEF IInv, Shape, Times
  <1>4. /\ key \in Texts /\ Argument \in Texts /\ key # <<>> /\ Argument # <<>>
        /\ key \o Argument \in Texts
    BY TextsAreTexts DEF Texts
  <1>5. cmd \in Commands
    <2>1. now + delay \in Times
      BY <1>1, <1>2 DEF Adds
    <2>2. defers + 1 \in IDs
      BY <1>2, <1>3 DEF IDs
    <2> QED BY <1>1, <1>4, <2>1, <2>2 DEF Commands
  <1>6. cmd.id = defers + 1 /\ cmd.key = key /\ cmd.args = Argument /\ cmd.at = now + delay
    BY <1>1
  <1>demand. PICK a : a = [id |-> cmd.id, due |-> cmd.at * PerSecond + moment,
                           key |-> key, args |-> Argument]
    OBVIOUS
  <1>due. a.due \in Nat /\ a.due < Until(cmd.at)
    <2>1. cmd.at \in Nat /\ cmd.at <= cmd.at
      BY <1>3, <1>6
    <2>2. PICK x : x = cmd.at
      OBVIOUS
    <2>3. x * PerSecond + moment \in Nat /\ x * PerSecond + moment < Until(x)
      BY <2>1, <2>2, LaterSecond
    <2> QED BY <1>demand, <2>2, <2>3
  <1>a. a \in asked' /\ asked' = asked \cup {a} /\ a \in Demands
    BY <1>2, <1>4, <1>5, <1>demand, <1>due DEF Commands, Demands
  <1>7. Onwards
    BY <1>2, <1>3 DEF IInv, NodeInv, Given, Onwards
  <1>8. NodeInv(Home)'
    <2>1. Got(Home)' = Got(Home) \cup {cmd.id} /\ cmd.id \in 1 .. defers' /\ cmd.id \notin Got(Home)
      BY <1>2, <1>3, <1>6 DEF Got
    <2>2. Asked(Home, cmd)'
      BY <1>a, <1>due, <1>demand DEF Asked
    <2>3. rearrived[Home] \subseteq rearrived'[Home] /\ rearrived'[Home] \subseteq arrived'[Home]
      BY <1>2, <1>3 DEF IInv, NodeInv, Given
    <2> QED BY <1>2, <1>3, <1>5, <1>7, <2>1, <2>2, <2>3, AddsKeeps DEF IInv
  <1>9. \A m \in Nodes : NodeInv(m)'
    <2>1. \A m \in Nodes \ {Home} : Untouched(m)
      BY <1>2, <1>3, <1>5, AddsIndex DEF IInv, Untouched
    <2> QED BY <1>3, <1>7, <1>8, <2>1, OneNode
  <1>10. ASSUME NEW event \in events' PROVE event \in Events /\ Sent(event)'
    <2>1. CASE event \in events
      BY <1>7, <2>1, SentStays DEF IInv, Shape
    <2>2. CASE event \notin events
      <3>1. PICK m \in Nodes \ {Home} :
               event = [to |-> m, op |-> "defer", id |-> cmd.id, delay |-> delay,
                        text |-> cmd.key \o cmd.args]
        BY <1>2, <1>10, <2>2 DEF ToPeers
      <3>2. event \in Events
        BY <1>3, <1>4, <1>5, <1>6, <3>1 DEF Events, Commands
      <3>3. event.id \in 1 .. defers'
        BY <1>2, <1>3, <1>6, <3>1
      <3>4. /\ a \in asked' /\ a.id = event.id /\ a.due < Until(now' + event.delay)
            /\ event.text = a.key \o a.args /\ a.key # <<>> /\ a.args # <<>>
        BY <1>2, <1>3, <1>4, <1>6, <1>a, <1>due, <1>demand, <3>1
      <3> QED BY <3>2, <3>3, <3>4 DEF Sent
    <2> QED BY <2>1, <2>2
  <1>11. Shape'
    <2>1. timeIndex' \in [Nodes -> [Times -> Seq(Commands)]] /\ scheduled' \in [Nodes -> SUBSET Commands]
      BY <1>2, <1>3, <1>5, AddsIndex DEF IInv
    <2>2. defers' \in 0 .. MaxDefers
      BY <1>2, <1>3
    <2>3. asked' \subseteq Demands /\ events' \subseteq Events
      BY <1>a, <1>10 DEF IInv, Shape
    <2> QED BY <1>2, <2>1, <2>2, <2>3 DEF IInv, Shape
  <1> QED BY <1>9, <1>10, <1>11 DEF IInv

\* An event that arrives stays as it was, or is gone.
LEMMA ArrivesKeeps ==
    ASSUME IInv, NEW event, Arrives(event)
    PROVE  /\ event \in events /\ event \in Events /\ Sent(event)
           /\ events' \subseteq events /\ resends' \in 0 .. MaxResends
  BY DeferredAssumption DEF IInv, Shape, Arrives

\* A DEFER of another node (server/replication.go:313-335).
LEMMA ReplicatedDeferIInv ==
    ASSUME IInv, NEW event \in events, ReplicatedDefer(event) PROVE IInv'
  <1>1. PICK n : n = event.to
    OBVIOUS
  <1>2. PICK cmd : cmd = Decoded(event)
    OBVIOUS
  <1>3. /\ event.op = "defer" /\ Arrives(event) /\ Adds(n, cmd)
        /\ arrived' = [arrived EXCEPT ![n] = @ \cup {event.id}]
        /\ rearrived' = [rearrived EXCEPT ![n] = @ \cup (arrived[n] \cap {event.id})]
        /\ UNCHANGED <<now, defers, running, asked, ran, reran, cancelled>>
    BY <1>1, <1>2 DEF ReplicatedDefer
  <1>4. event \in Events /\ Sent(event) /\ events' \subseteq events /\ resends' \in 0 .. MaxResends
    BY <1>3, ArrivesKeeps
  <1>5. n \in Nodes /\ n # Home /\ event.id \in IDs /\ event.delay \in Nat
    BY <1>1, <1>4 DEF Events
  <1>6. PICK a \in asked : /\ a.id = event.id /\ a.due < Until(now + event.delay)
                           /\ event.text = a.key \o a.args /\ a.key # <<>> /\ a.args # <<>>
    BY <1>3, <1>4 DEF Sent
  <1>7. a.key \in Texts /\ a.args \in Texts
    BY DEF IInv, Shape, Demands
  <1>8. /\ <<Head(event.text)>> \in Texts /\ Tail(event.text) \in Texts
        /\ Len(a.key) = 1 => a.key = <<Head(event.text)>> /\ a.args = Tail(event.text)
    <2>1. PICK k, g, text : k = a.key /\ g = a.args /\ text = event.text
      OBVIOUS
    <2>2. k \in Seq(Parts) /\ g \in Seq(Parts) /\ k # <<>> /\ g # <<>> /\ text = k \o g
      BY <1>6, <1>7, <2>1 DEF Texts
    <2>3. /\ <<Head(text)>> \in Seq(Parts) /\ Tail(text) \in Seq(Parts)
          /\ Len(k) = 1 => k = <<Head(text)>> /\ g = Tail(text)
      BY <2>2, TextParts
    <2> QED BY <2>1, <2>3 DEF Texts
  <1>9. /\ cmd.id = event.id /\ cmd.at = now + event.delay
        /\ cmd.key = <<Head(event.text)>> /\ cmd.args = Tail(event.text)
        /\ cmd = [id |-> event.id, at |-> now + event.delay,
                  key |-> <<Head(event.text)>>, args |-> Tail(event.text)]
    BY <1>2 DEF Decoded
  <1>10. cmd \in Commands
    <2>1. now + event.delay \in Times
      BY <1>3, <1>9 DEF Adds
    <2> QED BY <1>5, <1>8, <1>9, <2>1 DEF Commands
  <1>11. /\ arrived' \in [Nodes -> SUBSET IDs] /\ arrived'[n] = arrived[n] \cup {event.id}
         /\ \A m \in Nodes \ {n} : arrived'[m] = arrived[m]
    BY <1>3, <1>5 DEF IInv, Shape
  <1>12. /\ rearrived' \in [Nodes -> SUBSET IDs]
         /\ rearrived'[n] = rearrived[n] \cup (arrived[n] \cap {event.id})
         /\ \A m \in Nodes \ {n} : rearrived'[m] = rearrived[m]
    BY <1>3, <1>5 DEF IInv, Shape
  <1>13. Onwards
    BY <1>3, <1>5, <1>11, StandStill, DeferredAssumption
  <1>14. NodeInv(n)'
    <2>1. Got(n)' = Got(n) \cup {cmd.id}
      BY <1>5, <1>9, <1>11 DEF Got
    <2>2. cmd.id \in 1 .. defers'
      BY <1>3, <1>4, <1>9 DEF Sent
    <2>3. Asked(n, cmd)'
      <3>1. Plain(a) => cmd.key = a.key /\ cmd.args = a.args
        BY <1>8, <1>9 DEF Plain
      <3> QED BY <1>3, <1>6, <1>9, <3>1 DEF Asked
    <2>4. rearrived[n] \subseteq rearrived'[n] /\ rearrived'[n] \subseteq arrived'[n]
      BY <1>5, <1>11, <1>12 DEF IInv, NodeInv, Given
    <2>5. cmd.id \in Got(n) => cmd.id \in rearrived'[n]
      BY <1>5, <1>9, <1>12 DEF Got
    <2> QED BY <1>3, <1>5, <1>10, <1>13, <2>1, <2>2, <2>3, <2>4, <2>5, AddsKeeps DEF IInv
  <1>15. \A m \in Nodes : NodeInv(m)'
    <2>1. \A m \in Nodes \ {n} : Untouched(m)
      BY <1>3, <1>5, <1>10, <1>11, <1>12, AddsIndex DEF IInv, Untouched
    <2> QED BY <1>5, <1>13, <1>14, <2>1, OneNode
  <1>16. \A e \in events' : Sent(e)'
    BY <1>4, <1>13, SentStays
  <1>17. Shape'
    <2>1. timeIndex' \in [Nodes -> [Times -> Seq(Commands)]] /\ scheduled' \in [Nodes -> SUBSET Commands]
      BY <1>3, <1>5, <1>10, AddsIndex DEF IInv
    <2> QED BY <1>3, <1>4, <1>11, <1>12, <2>1 DEF IInv, Shape
  <1> QED BY <1>15, <1>16, <1>17 DEF IInv

\* CancelDeferredCommand of an ID the map has, on any node.
LEMMA CancelsIInv ==
    ASSUME IInv, NEW n \in Nodes, NEW id, Cancels(n, id),
           UNCHANGED <<now, defers, running, asked, ran, reran, arrived, rearrived>>
    PROVE  /\ Onwards /\ \A m \in Nodes : NodeInv(m)'
           /\ timeIndex' \in [Nodes -> [Times -> Seq(Commands)]]
           /\ scheduled' \in [Nodes -> SUBSET Commands]
           /\ cancelled' \in [Nodes -> SUBSET IDs]
           /\ id \in 1 .. defers /\ id \in IDs
  <1>1. PICK cmd \in scheduled[n] : cmd.id = id /\ CancelsIt(n, cmd)
    BY DEF Cancels, CancelsIt
  <1>2. Onwards
    BY StandStill
  <1>3. NodeInv(n)'
    BY <1>1, <1>2, CancelsKeeps DEF IInv
  <1>4. \A m \in Nodes \ {n} : Untouched(m)
    BY <1>1, CancelsIndex DEF IInv, Untouched
  <1>5. \A m \in Nodes : NodeInv(m)'
    BY <1>2, <1>3, <1>4, OneNode
  <1>6. id \in 1 .. defers
    BY <1>1 DEF IInv, NodeInv, Given
  <1> QED BY <1>1, <1>2, <1>5, <1>6, CancelsIndex DEF IInv

\* DEFER.CANCEL (deferred_commands.go:293-317).
LEMMA DeferCancelIInv ==
    ASSUME IInv, NEW id \in IDs, DeferCancel(id) PROVE IInv'
  <1>1. /\ Cancels(Home, id)
        /\ ToPeers([to |-> Home, op |-> "cancel", id |-> id, delay |-> 0, text |-> <<>>])
        /\ UNCHANGED <<now, defers, running, resends, asked, ran, reran, arrived, rearrived>>
        /\ Home \in Nodes
    BY DeferredAssumption DEF DeferCancel
  <1>2. /\ Onwards /\ \A m \in Nodes : NodeInv(m)'
        /\ timeIndex' \in [Nodes -> [Times -> Seq(Commands)]]
        /\ scheduled' \in [Nodes -> SUBSET Commands]
        /\ cancelled' \in [Nodes -> SUBSET IDs]
        /\ id \in 1 .. defers
    BY <1>1, CancelsIInv
  <1>3. ASSUME NEW event \in events' PROVE event \in Events /\ Sent(event)'
    <2>1. CASE event \in events
      BY <1>2, <2>1, SentStays DEF IInv, Shape
    <2>2. CASE event \notin events
      <3>1. PICK m \in Nodes \ {Home} :
               event = [to |-> m, op |-> "cancel", id |-> id, delay |-> 0, text |-> <<>>]
        BY <1>1, <1>3, <2>2 DEF ToPeers
      <3>2. event \in Events
        BY <3>1 DEF Events, Texts
      <3> QED BY <1>1, <1>2, <3>1, <3>2 DEF Sent
    <2> QED BY <2>1, <2>2
  <1>4. Shape'
    BY <1>1, <1>2, <1>3 DEF IInv, Shape
  <1> QED BY <1>2, <1>3, <1>4 DEF IInv

\* A DEFER.CANCEL of another node (server/replication.go:336-340).
LEMMA ReplicatedCancelIInv ==
    ASSUME IInv, NEW event \in events, ReplicatedCancel(event) PROVE IInv'
  <1>1. /\ Arrives(event)
        /\ UNCHANGED <<now, defers, running, asked, ran, reran, arrived, rearrived>>
    BY DEF ReplicatedCancel
  <1>2. event \in Events /\ events' \subseteq events /\ resends' \in 0 .. MaxResends
    BY <1>1, ArrivesKeeps
  <1>3. event.to \in Nodes
    BY <1>2 DEF Events
  <1>4. Onwards
    BY <1>1, StandStill
  <1>5. \A e \in events' : Sent(e)'
    BY <1>2, <1>4, SentStays
  <1>6. CASE Cancels(event.to, event.id)
    <2>1. /\ \A m \in Nodes : NodeInv(m)'
          /\ timeIndex' \in [Nodes -> [Times -> Seq(Commands)]]
          /\ scheduled' \in [Nodes -> SUBSET Commands]
          /\ cancelled' \in [Nodes -> SUBSET IDs]
      BY <1>1, <1>3, <1>6, CancelsIInv
    <2>2. Shape'
      BY <1>1, <1>2, <2>1 DEF IInv, Shape
    <2> QED BY <1>5, <2>1, <2>2 DEF IInv
  <1>7. CASE UNCHANGED <<scheduled, timeIndex, cancelled>>
    <2>1. \A m \in Nodes : Untouched(m)
      BY <1>1, <1>7 DEF Untouched
    <2>2. \A m \in Nodes : NodeInv(m)'
      BY <1>4, <2>1, Elsewhere DEF IInv
    <2>3. Shape'
      BY <1>1, <1>2, <1>7 DEF IInv, Shape
    <2> QED BY <1>5, <2>2, <2>3 DEF IInv
  <1> QED BY <1>6, <1>7 DEF ReplicatedCancel

\* A tick takes what is ready (deferred.go:164-191).
LEMMA CollectReadyIInv ==
    ASSUME IInv, NEW n \in Nodes, NEW tick \in Times, CollectReady(n, tick) PROVE IInv'
  <1>1. UNCHANGED <<now, defers, events, resends, asked, ran, reran, cancelled, arrived, rearrived>>
    BY DEF CollectReady
  <1>2. Onwards
    BY <1>1, StandStill
  <1>3. \A m \in Nodes \ {n} : Untouched(m)
    BY <1>1, CollectTakes, CollectLeaves DEF IInv, Untouched
  <1>4. \A m \in Nodes : NodeInv(m)'
    <2>1. NodeInv(n)'
      BY CollectKeeps DEF IInv
    <2> QED BY <1>2, <1>3, <2>1, OneNode
  <1>5. \A e \in events' : Sent(e)'
    BY <1>1, <1>2, SentStays
  <1>6. Shape'
    <2>1. /\ timeIndex' \in [Nodes -> [Times -> Seq(Commands)]]
          /\ scheduled' \in [Nodes -> SUBSET Commands]
      BY CollectLeaves DEF IInv
    <2>2. running' \in [Nodes -> Seq(Seq(Commands))]
      BY CollectTakes DEF IInv
    <2> QED BY <1>1, <2>1, <2>2 DEF IInv, Shape
  <1> QED BY <1>4, <1>5, <1>6 DEF IInv

\* A command runs (deferred.go:192-240).
LEMMA ExecuteIInv ==
    ASSUME IInv, NEW n \in Nodes, Execute(n) PROVE IInv'
  <1>1. UNCHANGED <<now, defers, scheduled, timeIndex, events, resends, asked, cancelled,
                    arrived, rearrived>>
    BY DEF Execute
  <1>2. Onwards
    BY <1>1, StandStill
  <1>3. /\ running' \in [Nodes -> Seq(Seq(Commands))]
        /\ ran' \in [Nodes -> SUBSET Outcomes]
        /\ reran' \in [Nodes -> SUBSET IDs]
        /\ \A m \in Nodes \ {n} : /\ running'[m] = running[m]
                                  /\ ran'[m] = ran[m] /\ reran'[m] = reran[m]
    BY ExecuteMoves DEF IInv
  <1>4. \A m \in Nodes : NodeInv(m)'
    <2>1. NodeInv(n)'
      BY ExecuteKeeps DEF IInv
    <2>2. \A m \in Nodes \ {n} : Untouched(m)
      BY <1>1, <1>3 DEF Untouched
    <2> QED BY <1>2, <2>1, <2>2, OneNode
  <1>5. \A e \in events' : Sent(e)'
    BY <1>1, <1>2, SentStays
  <1>6. Shape'
    BY <1>1, <1>3 DEF IInv, Shape
  <1> QED BY <1>4, <1>5, <1>6 DEF IInv

\* A second passes, or nothing does.
LEMMA SecondIInv ==
    ASSUME IInv, Second \/ UNCHANGED vars PROVE IInv'
  <1>1. UNCHANGED <<defers, scheduled, timeIndex, running, events, resends, asked, ran, reran,
                    cancelled, arrived, rearrived>>
    BY DEF Second, vars
  <1>2. now \in Nat /\ now' \in Times /\ now <= now'
    BY DeferredAssumption DEF Second, vars, IInv, Shape, Times
  <1>3. Onwards
    BY <1>1, <1>2, DeferredAssumption DEF IInv, Shape, NodeInv, Given, Onwards, Times
  <1>4. \A m \in Nodes : NodeInv(m)'
    <2>1. \A m \in Nodes : Untouched(m)
      BY <1>1 DEF Untouched
    <2> QED BY <1>3, <2>1, Elsewhere DEF IInv
  <1>5. \A e \in events' : Sent(e)'
    BY <1>1, <1>3, SentStays
  <1>6. Shape'
    BY <1>1, <1>2 DEF IInv, Shape
  <1> QED BY <1>4, <1>5, <1>6 DEF IInv

\* At first no scheduler has anything.
LEMMA InitIInv == Init => IInv
  <1> SUFFICES ASSUME Init PROVE IInv
    OBVIOUS
  <1>1. Shape
    <2>1. 0 \in Times /\ 0 \in 0 .. MaxDefers /\ 0 \in 0 .. MaxResends
      BY DeferredAssumption DEF Times
    <2>2. <<>> \in Seq(Commands) /\ <<>> \in Seq(Seq(Commands))
      OBVIOUS
    <2> QED BY <2>1, <2>2 DEF Init, Shape
  <1>2. ASSUME NEW n \in Nodes PROVE NodeInv(n)
    <2>1. /\ scheduled[n] = {} /\ ran[n] = {} /\ reran[n] = {} /\ cancelled[n] = {}
          /\ arrived[n] = {} /\ rearrived[n] = {} /\ arrived[Home] = {} /\ running[n] = <<>>
          /\ \A t \in Times : timeIndex[n][t] = <<>>
          /\ defers = 0
      BY <1>2, DeferredAssumption DEF Init
    <2>2. DOMAIN (<<>>) = {}
      OBVIOUS
    <2>3. Indexed(n) = {} /\ Taken(n) = {}
      BY <2>1, <2>2, InIndex, InTaken
    <2>4. Placed(n) /\ OneEach(n) /\ Given(n) /\ Wanted(n)
      BY <2>1, <2>2, <2>3 DEF Placed, OneEach, Given, Got, Wanted, Held
    <2>5. ASSUME NEW id PROVE IndexedOnce(n, id) /\ TakenOnce(n, id) /\ Apart(n, id)
      BY <2>1, <2>2, <2>3 DEF IndexedOnce, TakenOnce, OnceIn, Apart, Mapped, Held
    <2> QED BY <2>4, <2>5 DEF NodeInv, Single
  <1>3. events = {}
    BY DEF Init
  <1> QED BY <1>1, <1>2, <1>3 DEF IInv

(***************************************************************************)
(* In every state a command that came once is in one place of a node: in   *)
(* the map and the index, among what a tick took, or among what has run    *)
(* (store/deferred.go:68-196).                                             *)
(***************************************************************************)
THEOREM Invariance == Spec => []IInv
  <1>1. ASSUME IInv, [Next]_vars PROVE IInv'
    BY <1>1, DeferIInv, DeferCancelIInv, ReplicatedDeferIInv, ReplicatedCancelIInv,
       ExecuteIInv, CollectReadyIInv, SecondIInv DEF Next
  <1> QED BY <1>1, InitIInv, PTL DEF Spec

(***************************************************************************)
(* IDs are those given, a command is in the index at its second, and the   *)
(* map has one command of an ID.                                           *)
(***************************************************************************)
THEOREM TypeCorrect == Spec => []TypeOK
  <1>1. ASSUME IInv PROVE TypeOK
    <2>1. ASSUME NEW n \in Nodes, NEW t \in Times, NEW c \in ToSet(timeIndex[n][t])
          PROVE  c.at = t
      <3>1. PICK i \in DOMAIN timeIndex[n][t] : c = timeIndex[n][t][i]
        BY DEF ToSet
      <3> QED BY <1>1, <3>1 DEF IInv, NodeInv, Placed
    <2>2. ASSUME NEW n \in Nodes
          PROVE  /\ {c.id : c \in scheduled[n]} \cup cancelled[n] \subseteq 1 .. defers
                 /\ \A c, d \in scheduled[n] : c.id = d.id => c = d
      BY <1>1 DEF IInv, NodeInv, Given, OneEach
    <2> QED BY <1>1, <2>1, <2>2 DEF TypeOK, IInv, Shape
  <1> QED BY <1>1, Invariance, PTL

(***************************************************************************)
(* The map and the index agree on every command that came once, and hold   *)
(* nothing a tick took (deferred.go:12-24, 170-191).                       *)
(***************************************************************************)
THEOREM MapAndIndexAgree == Spec => []IndexesAgree
  <1>1. ASSUME IInv PROVE IndexesAgree
    BY <1>1 DEF IInv, NodeInv, Single, Apart, Mapped, IndexesAgree
  <1> QED BY <1>1, Invariance, PTL

(***************************************************************************)
(* A command that came once and was cancelled never runs on that node, and *)
(* none runs twice (deferred.go:81-111, deferred_commands.go:74).          *)
(***************************************************************************)
THEOREM CancelledNeverRuns == Spec => []CancelledStays
  <1>1. ASSUME IInv PROVE CancelledStays
    BY <1>1 DEF IInv, NodeInv, Single, Apart, Held, CancelledStays
  <1> QED BY <1>1, Invariance, PTL

(***************************************************************************)
(* What runs, on any node, was asked for by a client and runs less than a  *)
(* second early, if early at all; on a peer it is the same command if its  *)
(* key has no colon (server/replication.go:313-335).                       *)
(***************************************************************************)
THEOREM RunsAreAskedFor == Spec => []RunsWhatWasAsked
  <1>1. ASSUME IInv PROVE RunsWhatWasAsked
    <2>1. ASSUME NEW n \in Nodes, NEW cmd \in ran[n]
          PROVE  \E a \in asked : /\ a.id = cmd.id /\ a.due < (now + 1) * PerSecond
                                  /\ n # Home /\ Plain(a) => cmd.key = a.key /\ cmd.args = a.args
      <3>1. Asked(n, cmd) /\ cmd.at <= now
        BY <1>1 DEF IInv, NodeInv, Wanted, Held
      <3>2. PICK a \in asked : /\ a.id = cmd.id /\ a.due < Until(cmd.at)
                               /\ n # Home /\ Plain(a) => cmd.key = a.key /\ cmd.args = a.args
        BY <3>1 DEF Asked
      <3>3. cmd.at \in Nat /\ now \in Nat /\ a.due \in Nat
        <4>1. cmd \in Outcomes /\ a \in Demands /\ now \in Times
          BY <1>1 DEF IInv, Shape
        <4> QED BY <4>1 DEF Outcomes, Demands, Times
      <3>4. a.due < Until(now)
        <4>1. PICK x : x = cmd.at
          OBVIOUS
        <4>2. Until(x) \in Nat /\ Until(now) \in Nat /\ Until(x) <= Until(now)
          BY <3>1, <3>3, <4>1, LaterSecond
        <4> QED BY <3>2, <3>3, <4>1, <4>2
      <3> QED BY <3>2, <3>4 DEF Until
    <2> QED BY <2>1 DEF RunsWhatWasAsked
  <1> QED BY <1>1, Invariance, PTL

=============================================================================
