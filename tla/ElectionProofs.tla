--------------------------- MODULE ElectionProofs ---------------------------
(***************************************************************************)
(* The votes of the election, for any seats and any number of processes,   *)
(* elections and messages, with startElection and the vote handlers        *)
(* interleaved store by store.                                             *)
(*                                                                         *)
(* Terms are of no help: a JoinResponse takes the term of a process back   *)
(* and leaves its vote as it is, and a vote is written with whatever term  *)
(* is in memory.  What holds is about votedFor alone: once a seat has      *)
(* granted its vote, every copy of votedFor that can still be written      *)
(* (memory, the two half-done persistStates, the file, and the decision    *)
(* processLoop is about to store) names the same candidate or a process    *)
(* of the seat itself.                                                     *)
(***************************************************************************)
EXTENDS Election, SequenceTheorems, TLAPS

Procs == Seats \X Nat

Vote == [voter : Procs, term : Nat, for : Procs]

Message == [type : {"JoinRequest"}, from : Procs]
           \cup [type : {"JoinResponse"}, term : Nat, leader : Procs,
                 nodes : SUBSET Procs]
           \cup [type : {"NodeUpdate"}, term : Nat, node : Procs]
           \cup [type : {"Heartbeat"}, from : Procs, term : Nat, leads : BOOLEAN]
           \cup [type : {"VoteRequest"}, from : Procs, term : Nat]
           \cup [type : {"VoteResponse"}, from : Procs, term : Nat, granted : BOOLEAN]

NodeFields == {"status", "starts", "term", "votedFor", "state", "leader",
               "leaderTerm", "members", "links", "timer", "step", "campaign",
               "saved", "task", "electionTerm", "voters", "needed", "won"}

IsBallot(d) == /\ DOMAIN d = {"term", "votedFor"}
               /\ d.term \in Nat /\ d.votedFor \in Procs \cup {None}

IsTask(k) == /\ DOMAIN k = {"kind", "peer", "term", "granted", "saved"}
             /\ k.kind \in {"none", "decided", "stored", "read", "count"}
             /\ k.peer \in Procs \cup {None} /\ k.term \in Nat
             /\ k.granted \in BOOLEAN /\ IsBallot(k.saved)
             /\ k.kind # "none" => k.peer \in Procs
             /\ k.granted => k.kind \in {"decided", "stored", "read"}

IsNode(nd) ==
    /\ DOMAIN nd = NodeFields
    /\ nd.starts \in Nat /\ nd.term \in Nat /\ nd.campaign \in Nat
    /\ nd.electionTerm \in Nat
    /\ nd.votedFor \in Procs \cup {None} /\ nd.leader \in Procs \cup {None}
    /\ nd.members \subseteq Procs /\ nd.links \subseteq Seats
    /\ IsBallot(nd.saved) /\ IsTask(nd.task)

Typed == /\ DOMAIN node = Seats /\ \A s \in Seats : IsNode(node[s])
         /\ DOMAIN disk = Seats /\ \A s \in Seats : IsBallot(disk[s])
         /\ DOMAIN chan = Seats
         /\ \A a \in Seats : /\ DOMAIN chan[a] = Seats
                             /\ \A b \in Seats : chan[a][b] \in Seq(Message)
         /\ votes \subseteq Vote

-----------------------------------------------------------------------------
\* The messages of a queue.
Msgs(q) == {q[i] : i \in DOMAIN q}

In(s, t) == Msgs(chan[s][t])

Grant(m) == m.type = "VoteResponse" /\ m.granted

\* The voter gave its vote in the term to a process of the seat.
Given(voter, term, seat) ==
    \E w \in votes : w.voter = voter /\ w.term = term /\ w.for[1] = seat

Messages == \A a, b \in Seats : \A m \in In(a, b) : Grant(m) => Given(m.from, m.term, b)

\* The copies of votedFor that may be the next to be stored or written.
Copies(s) ==
    {disk[s].votedFor}
    \cup {x \in {node[s].votedFor} : Up(s)}
    \cup {x \in {node[s].saved.votedFor} : Up(s) /\ node[s].step = "write"}
    \cup {x \in {node[s].task.saved.votedFor} : Up(s) /\ node[s].task.kind = "read"}
    \cup {x \in {node[s].task.peer} : Up(s) /\ node[s].task.granted}

\* A seat that granted its vote to c may store x.
Fits(s, c, x) == x = c \/ (x # None /\ x[1] = s)

Bound(s) == \A v \in votes : (v.voter[1] = s /\ Grants(v)) =>
                \A x \in Copies(s) : Fits(s, v.for, x)

Started(s) == \A v \in votes : v.voter[1] = s => v.voter[2] <= node[s].starts

\* A grant decided, stored or read meets no vote but itself and the one for
\* the process itself.
Granting(s) ==
    (Up(s) /\ node[s].task.granted) =>
        LET c == {node[s].task.peer, Id(s)}
        IN  /\ node[s].task.kind = "decided" => node[s].votedFor \in c \cup {None}
            /\ node[s].task.kind # "decided" =>
                  /\ node[s].votedFor \in c
                  /\ node[s].step = "write" => node[s].saved.votedFor \in c
            /\ node[s].task.kind = "read" => node[s].task.saved.votedFor \in c

\* startElection after the vote for itself.
Looping(s) ==
    Up(s) =>
        /\ node[s].step = "read" => node[s].votedFor # None
        /\ node[s].step = "write" =>
              /\ node[s].saved.votedFor # None
              /\ node[s].saved.votedFor \in {Id(s), node[s].votedFor}
        /\ node[s].step \in {"read", "write", "term", "won", "tally", "ask"} =>
              Given(Id(s), node[s].campaign, s)
        /\ node[s].step \in {"won", "tally", "ask"} =>
              node[s].electionTerm = node[s].campaign

\* A process whose grants and elections did not overlap stands by its vote:
\* when it voted for another it never campaigns, for its timer is lost.
Loyal(s) ==
    (Up(s) /\ Id(s) \notin overtaken) =>
        /\ \A v \in votes : v.voter = Id(s) =>
              /\ v.for = node[s].votedFor
              /\ v.for # Id(s) => node[s].timer = "lost" /\ node[s].step = "idle"
        /\ (node[s].task.granted /\ node[s].task.peer # Id(s)) =>
              /\ node[s].step = "idle"
              /\ node[s].task.kind = "decided" =>
                    node[s].votedFor \in {None, node[s].task.peer}
              /\ node[s].task.kind # "decided" =>
                    node[s].votedFor = node[s].task.peer /\ node[s].timer = "lost"

\* The answer that is about to be counted is a vote for the seat.
Counting(s) ==
    (Up(s) /\ node[s].task.kind = "count") =>
        /\ Given(node[s].task.peer, node[s].task.term, s)
        /\ node[s].task.saved.term = node[s].task.term

\* TallyIsHonest, for one seat.
Tallied(s) ==
    (Up(s) /\ ~Between(node[s]) /\ Id(s) \notin late) =>
        \A v \in node[s].voters : Given(v, node[s].electionTerm, s)

Seat(s) == /\ Bound(s) /\ Started(s) /\ Granting(s) /\ Looping(s) /\ Loyal(s)
           /\ Counting(s) /\ Tallied(s)

OneGrant == \A v, w \in votes :
    (v.voter[1] = w.voter[1] /\ Grants(v) /\ Grants(w)) => v.for = w.for

OneCandidate == \A v, w \in votes :
    (v.voter = w.voter /\ v.voter \notin overtaken) => v.for = w.for

IInv == /\ Typed /\ Messages
        /\ \A s \in Seats : Seat(s)
        /\ OneGrant /\ OneCandidate

-----------------------------------------------------------------------------
\* The fields of a message, by its type.
LEMMA MessageFields ==
    ASSUME NEW m \in Message
    PROVE  /\ m.type \in {"JoinRequest", "JoinResponse", "NodeUpdate", "Heartbeat",
                          "VoteRequest", "VoteResponse"}
           /\ m.type \in {"JoinRequest", "Heartbeat", "VoteRequest", "VoteResponse"}
                 => m.from \in Procs
           /\ m.type # "JoinRequest" => m.term \in Nat
           /\ m.type = "JoinResponse" => m.leader \in Procs /\ m.nodes \subseteq Procs
           /\ m.type = "NodeUpdate" => m.node \in Procs
           /\ m.type = "VoteResponse" => m.granted \in BOOLEAN
  BY DEF Message

\* The fields of a vote.
LEMMA VoteFields ==
    ASSUME NEW p \in Procs, NEW n \in Nat, NEW c \in Procs
    PROVE  \E v \in Vote : /\ v = [voter |-> p, term |-> n, for |-> c]
                           /\ v.voter = p /\ v.term = n /\ v.for = c
  <1>1. PICK v : v = [voter |-> p, term |-> n, for |-> c]
    OBVIOUS
  <1> QED BY <1>1 DEF Vote

\* Taking the first message of a queue.
LEMMA TailOfQueue ==
    ASSUME NEW q \in Seq(Message), q # <<>>
    PROVE  /\ Head(q) \in Message /\ Head(q) \in Msgs(q)
           /\ Tail(q) \in Seq(Message) /\ Msgs(Tail(q)) \subseteq Msgs(q)
  <1>1. /\ Len(q) \in Nat \ {0} /\ DOMAIN q = 1 .. Len(q)
        /\ Head(q) = q[1] /\ Tail(q) \in Seq(Message)
        /\ DOMAIN Tail(q) = 1 .. (Len(q) - 1)
        /\ \A i \in 1 .. (Len(q) - 1) : Tail(q)[i] = q[i + 1]
    OBVIOUS
  <1>2. Head(q) \in Msgs(q) /\ Head(q) \in Message
    BY <1>1 DEF Msgs
  <1>3. Msgs(Tail(q)) \subseteq Msgs(q)
    BY <1>1 DEF Msgs
  <1> QED BY <1>1, <1>2, <1>3

\* Adding a message to a queue.
LEMMA AppendToQueue ==
    ASSUME NEW q \in Seq(Message), NEW m \in Message
    PROVE  /\ Append(q, m) \in Seq(Message)
           /\ Msgs(Append(q, m)) = Msgs(q) \cup {m}
           /\ Append(q, m) = q \o <<m>>
  <1>1. /\ Len(q) \in Nat /\ DOMAIN q = 1 .. Len(q)
        /\ Append(q, m) \in Seq(Message)
        /\ DOMAIN Append(q, m) = 1 .. (Len(q) + 1)
        /\ \A i \in 1 .. Len(q) : Append(q, m)[i] = q[i]
        /\ Append(q, m)[Len(q) + 1] = m
    OBVIOUS
  <1>2. Msgs(Append(q, m)) = Msgs(q) \cup {m}
    BY <1>1 DEF Msgs
  <1>3. Append(q, m) = q \o <<m>>
    BY AppendIsConcat
  <1> QED BY <1>1, <1>2, <1>3

\* The empty queue.
LEMMA EmptyQueue == <<>> \in Seq(Message) /\ Msgs(<<>>) = {}
  BY DEF Msgs

-----------------------------------------------------------------------------
(***************************************************************************)
(* What a step may do to the queues: a message is taken or all are lost,   *)
(* and the process at t adds one.                                          *)
(***************************************************************************)
Rest(q) == {q, <<>>} \cup {r \in {Tail(q)} : q # <<>>}

Says(b, m) == m \in Message /\ (Grant(m) => Given(m.from, m.term, b)')

ChanMoves(t) ==
    /\ DOMAIN chan' = Seats /\ \A a \in Seats : DOMAIN chan'[a] = Seats
    /\ \A a, b \in Seats : \E r \in Rest(chan[a][b]) :
          \/ chan'[a][b] = r
          \/ a = t /\ \E m : Says(b, m) /\ chan'[a][b] = Append(r, m)

\* What is left of a queue.
LEMMA RestOfQueue ==
    ASSUME NEW q \in Seq(Message), NEW r \in Rest(q)
    PROVE  r \in Seq(Message) /\ Msgs(r) \subseteq Msgs(q)
  BY TailOfQueue, EmptyQueue DEF Rest

\* The messages that wait after a step waited before it or were sent in it.
LEMMA MessagesCome ==
    ASSUME Typed, NEW t \in Seats, ChanMoves(t), NEW a \in Seats, NEW b \in Seats
    PROVE  /\ chan'[a][b] \in Seq(Message)
           /\ \A m \in In(a, b)' : m \in In(a, b) \/ Says(b, m)
  <1>1. chan[a][b] \in Seq(Message)
    BY DEF Typed
  <1>2. PICK r \in Rest(chan[a][b]) :
          \/ chan'[a][b] = r
          \/ \E n : Says(b, n) /\ chan'[a][b] = Append(r, n)
    BY DEF ChanMoves
  <1>3. r \in Seq(Message) /\ Msgs(r) \subseteq Msgs(chan[a][b])
    BY <1>1, RestOfQueue
  <1>4. CASE chan'[a][b] = r
    BY <1>3, <1>4 DEF In
  <1>5. ASSUME NEW n, Says(b, n), chan'[a][b] = Append(r, n)
        PROVE  /\ chan'[a][b] \in Seq(Message)
               /\ \A m \in In(a, b)' : m \in In(a, b) \/ Says(b, m)
    <2>1. n \in Message
      BY <1>5 DEF Says
    <2>2. Append(r, n) \in Seq(Message) /\ Msgs(Append(r, n)) = Msgs(r) \cup {n}
      BY <1>3, <2>1, AppendToQueue
    <2>3. ASSUME NEW m \in In(a, b)' PROVE m \in In(a, b) \/ m = n
      BY <1>3, <1>5, <2>2, <2>3 DEF In
    <2> QED BY <1>5, <2>2, <2>3
  <1> QED BY <1>2, <1>4, <1>5

-----------------------------------------------------------------------------
(***************************************************************************)
(* A step of the process at t, which is up and stays up.                   *)
(***************************************************************************)
OwnStep(t) ==
    /\ Up(t) /\ Up(t)' /\ node'[t].starts = node[t].starts
    /\ DOMAIN node' = Seats /\ IsNode(node'[t])
    /\ DOMAIN disk' = Seats /\ IsBallot(disk'[t])
    /\ \A a \in Seats \ {t} : node'[a] = node[a] /\ disk'[a] = disk[a]
    /\ votes \subseteq votes' /\ votes' \subseteq Vote
    /\ \A v \in votes' : v \in votes \/ v.voter = Id(t)
    /\ overtaken \subseteq overtaken' /\ late \subseteq late'
    /\ ChanMoves(t)

\* What a seat that takes no part in a step keeps.
SameSeat(a) ==
    /\ disk'[a].votedFor = disk[a].votedFor
    /\ node'[a].starts = node[a].starts
    /\ Up(a)' =>
          /\ Up(a)
          /\ node'[a].votedFor = node[a].votedFor /\ node'[a].saved = node[a].saved
          /\ node'[a].task = node[a].task /\ node'[a].step = node[a].step
          /\ node'[a].campaign = node[a].campaign /\ node'[a].timer = node[a].timer
          /\ node'[a].electionTerm = node[a].electionTerm
          /\ node'[a].voters = node[a].voters

\* What was given stays given.
LEMMA GivenOn ==
    ASSUME votes \subseteq votes', NEW p, NEW n, NEW s, Given(p, n, s)
    PROVE  Given(p, n, s)'
  BY DEF Given

\* A seat keeps its part of the invariant when it has no part in the step.
LEMMA SeatKept ==
    ASSUME NEW a \in Seats, Seat(a), SameSeat(a),
           votes \subseteq votes', \A v \in votes' : v \in votes \/ v.voter[1] # a,
           overtaken \subseteq overtaken', late \subseteq late'
    PROVE  Seat(a)'
  <1> USE DEF SameSeat
  <1>1. Up(a)' => Id(a)' = Id(a)
    BY DEF Id
  <1>2. Copies(a)' \subseteq Copies(a)
    BY DEF Copies
  <1>3. Bound(a)'
    BY <1>2 DEF Seat, Bound, Fits, Grants
  <1>4. Started(a)'
    BY DEF Seat, Started
  <1>5. Granting(a)'
    BY <1>1 DEF Seat, Granting
  <1>6. Looping(a)'
    BY <1>1, GivenOn DEF Seat, Looping
  <1>7. Loyal(a)'
    BY <1>1 DEF Seat, Loyal, Id
  <1>8. Counting(a)'
    BY GivenOn DEF Seat, Counting
  <1>9. Tallied(a)'
    BY <1>1, GivenOn DEF Seat, Tallied, Between
  <1> QED BY <1>3, <1>4, <1>5, <1>6, <1>7, <1>8, <1>9 DEF Seat

\* Messages stay true.
LEMMA MessagesKept ==
    ASSUME Typed, Messages, NEW t \in Seats, ChanMoves(t), votes \subseteq votes'
    PROVE  Messages'
  <1>1. ASSUME NEW a \in Seats, NEW b \in Seats, NEW m \in In(a, b)', Grant(m)
        PROVE  Given(m.from, m.term, b)'
    <2>1. CASE m \in In(a, b)
      BY <1>1, <2>1, GivenOn DEF Messages
    <2>2. CASE Says(b, m)
      BY <1>1, <2>2 DEF Says
    <2> QED BY <1>1, <2>1, <2>2, MessagesCome
  <1> QED BY <1>1 DEF Messages, Grant

\* A step of the process at t: the invariant, when its own part of it is kept.
LEMMA OwnStepInvariant ==
    ASSUME IInv, NEW t \in Seats, OwnStep(t), Seat(t)', OneGrant', OneCandidate'
    PROVE  IInv'
  <1>1. Typed /\ Messages /\ ChanMoves(t) /\ \A s \in Seats : Seat(s)
    BY DEF IInv, OwnStep
  <1>2. Typed'
    <2>1. \A s \in Seats : IsNode(node'[s]) /\ IsBallot(disk'[s])
      BY <1>1 DEF Typed, OwnStep
    <2>2. \A a, b \in Seats : chan'[a][b] \in Seq(Message)
      BY <1>1, MessagesCome
    <2>3. DOMAIN chan' = Seats /\ \A a \in Seats : DOMAIN chan'[a] = Seats
      BY <1>1 DEF ChanMoves
    <2> QED BY <2>1, <2>2, <2>3 DEF Typed, OwnStep
  <1>3. Messages'
    BY <1>1, MessagesKept DEF OwnStep
  <1>4. ASSUME NEW a \in Seats, a # t PROVE Seat(a)'
    <2>1. SameSeat(a)
      BY <1>4 DEF SameSeat, OwnStep, Up
    <2>2. \A v \in votes' : v \in votes \/ v.voter[1] # a
      BY <1>4 DEF OwnStep, Id
    <2> QED BY <1>1, <2>1, <2>2, SeatKept DEF OwnStep
  <1> QED BY <1>2, <1>3, <1>4 DEF IInv

\* The same, for a step in which no vote is given.
LEMMA NoVoteInvariant ==
    ASSUME IInv, NEW t \in Seats, OwnStep(t), Seat(t)', votes' = votes
    PROVE  IInv'
  <1>1. OneGrant'
    BY DEF IInv, OneGrant, Grants
  <1>2. OneCandidate'
    BY DEF IInv, OneCandidate, OwnStep
  <1> QED BY <1>1, <1>2, OwnStepInvariant

-----------------------------------------------------------------------------
(***************************************************************************)
(* The operators the actions are made of.                                  *)
(***************************************************************************)
\* Queues that stay as they are.
LEMMA NoQueueMoves ==
    ASSUME Typed, NEW t \in Seats, UNCHANGED chan
    PROVE  ChanMoves(t)
  BY DEF Typed, ChanMoves, Rest

\* Broadcast adds a message to the queue of each connection.
LEMMA BroadcastMoves ==
    ASSUME Typed, NEW t \in Seats, NEW nd, NEW m, Broadcast(t, nd, m),
           \A b \in nd.links \cap Seats : Says(b, m)
    PROVE  ChanMoves(t)
  <1>1. DOMAIN chan' = Seats /\ \A a \in Seats : DOMAIN chan'[a] = Seats
    BY DEF Typed, Broadcast
  <1>2. ASSUME NEW a \in Seats, NEW b \in Seats
        PROVE  \/ chan'[a][b] = chan[a][b]
               \/ a = t /\ b \in nd.links /\ chan'[a][b] = Append(chan[a][b], m)
    BY DEF Typed, Broadcast
  <1>3. ASSUME NEW a \in Seats, NEW b \in Seats
        PROVE  \E r \in Rest(chan[a][b]) :
                 \/ chan'[a][b] = r
                 \/ a = t /\ \E n : Says(b, n) /\ chan'[a][b] = Append(r, n)
    <2>1. chan[a][b] \in Rest(chan[a][b])
      BY DEF Rest
    <2> QED BY <1>2, <2>1
  <1> QED BY <1>1, <1>3 DEF ChanMoves

\* Handle takes the message of s and adds at most one for each connection.
LEMMA HandleMoves ==
    ASSUME Typed, NEW s \in Seats, NEW t \in Seats, NEW nd, NEW out,
           Handle(s, t, nd, out), chan[s][t] # <<>>,
           \A b \in Seats : out[b] = <<>> \/ \E m : out[b] = <<m>> /\ Says(b, m)
    PROVE  ChanMoves(t)
  <1>1. DOMAIN chan' = Seats /\ \A a \in Seats : DOMAIN chan'[a] = Seats
    BY DEF Handle
  <1>2. ASSUME NEW a \in Seats, NEW b \in Seats
        PROVE  \E r \in Rest(chan[a][b]) :
                 \/ chan'[a][b] = r
                 \/ a = t /\ \E n : Says(b, n) /\ chan'[a][b] = Append(r, n)
    <2>1. PICK r : r = IF a = s /\ b = t THEN Tail(chan[a][b]) ELSE chan[a][b]
      OBVIOUS
    <2>2. r \in Rest(chan[a][b])
      BY <2>1 DEF Rest
    <2>3. r \in Seq(Message)
      BY <2>2, RestOfQueue DEF Typed
    <2>4. chan'[a][b] = IF a = t /\ b \in nd.links THEN r \o out[b] ELSE r
      BY <2>1 DEF Handle
    <2>5. r \o <<>> = r
      BY <2>3, ConcatEmptySeq
    <2>6. ASSUME NEW m, out[b] = <<m>>, a = t, b \in nd.links, Says(b, m)
          PROVE  \E n : Says(b, n) /\ chan'[a][b] = Append(r, n)
      <3>1. m \in Message
        BY <2>6 DEF Says
      <3>2. Append(r, m) = r \o <<m>>
        BY <2>3, <3>1, AppendToQueue
      <3> QED BY <2>4, <2>6, <3>2
    <2>7. CASE a = t /\ b \in nd.links /\ out[b] # <<>>
      BY <2>2, <2>6, <2>7
    <2>8. CASE a # t \/ b \notin nd.links \/ out[b] = <<>>
      BY <2>2, <2>4, <2>5, <2>8
    <2> QED BY <2>7, <2>8
  <1> QED BY <1>1, <1>2 DEF ChanMoves

\* A handler that answers nothing only takes the message.
LEMMA NothingMoves ==
    ASSUME Typed, NEW s \in Seats, NEW t \in Seats, NEW nd,
           Handle(s, t, nd, Nothing), chan[s][t] # <<>>
    PROVE  ChanMoves(t)
  <1>1. \A b \in Seats : Nothing[b] = <<>>
    BY DEF Nothing
  <1> QED BY <1>1, HandleMoves

\* The process at t moves to nd.
LEMMA MoveIsOwn ==
    ASSUME IInv, NEW t \in Seats, Up(t), NEW nd,
           node' = [node EXCEPT ![t] = nd] \/ (node' = node /\ nd = node[t]),
           IsNode(nd), nd.status = "up", nd.starts = node[t].starts,
           disk' = disk \/ \E d : IsBallot(d) /\ disk' = [disk EXCEPT ![t] = d],
           \/ votes' = votes
           \/ \E v \in Vote : v.voter = Id(t) /\ votes' = votes \cup {v},
           overtaken \subseteq overtaken', late \subseteq late', ChanMoves(t)
    PROVE  /\ OwnStep(t) /\ node'[t] = nd /\ Up(t)' /\ Id(t)' = Id(t)
  <1>1. /\ node'[t] = nd /\ DOMAIN node' = Seats
        /\ \A a \in Seats \ {t} : node'[a] = node[a]
    BY DEF IInv, Typed
  <1>2. Up(t)' /\ Id(t)' = Id(t)
    BY <1>1 DEF Up, Id
  <1>3. /\ DOMAIN disk' = Seats /\ IsBallot(disk'[t])
        /\ \A a \in Seats \ {t} : disk'[a] = disk[a]
    BY DEF IInv, Typed
  <1>4. /\ votes \subseteq votes' /\ votes' \subseteq Vote
        /\ \A v \in votes' : v \in votes \/ v.voter = Id(t)
    BY DEF IInv, Typed
  <1> QED BY <1>1, <1>2, <1>3, <1>4 DEF OwnStep

\* A step that leaves all that the votes depend on, or ends startElection.
LEMMA NothingVoted ==
    ASSUME IInv, NEW t \in Seats, Up(t), NEW nd,
           node' = [node EXCEPT ![t] = nd] \/ (node' = node /\ nd = node[t]),
           UNCHANGED <<disk, votes, overtaken, late>>, ChanMoves(t),
           IsNode(nd), nd.status = "up", nd.starts = node[t].starts,
           nd.votedFor = node[t].votedFor, nd.saved = node[t].saved,
           nd.task = node[t].task, nd.voters = node[t].voters,
           nd.electionTerm = node[t].electionTerm,
           \/ /\ nd.step = node[t].step /\ nd.campaign = node[t].campaign
              /\ nd.timer \in {"lost", node[t].timer}
           \/ node[t].step = "ask" /\ nd.step = "idle"
    PROVE  IInv'
  <1>1. OwnStep(t) /\ node'[t] = nd /\ Up(t)' /\ Id(t)' = Id(t)
    BY MoveIsOwn
  <1>2. Seat(t)
    BY DEF IInv
  <1>3. Copies(t)' \subseteq Copies(t)
    BY <1>1 DEF Copies
  <1>4. Bound(t)'
    BY <1>2, <1>3 DEF Seat, Bound
  <1>5. Started(t)'
    BY <1>1, <1>2 DEF Seat, Started
  <1>6. Granting(t)'
    BY <1>1, <1>2 DEF Seat, Granting
  <1>7. Looping(t)'
    BY <1>1, <1>2 DEF Seat, Looping, Given
  <1>8. Loyal(t)'
    BY <1>1, <1>2 DEF Seat, Loyal
  <1>9. Counting(t)'
    BY <1>1, <1>2 DEF Seat, Counting, Given
  <1>10. Tallied(t)'
    BY <1>1, <1>2 DEF Seat, Tallied, Between, Given
  <1>11. Seat(t)'
    BY <1>4, <1>5, <1>6, <1>7, <1>8, <1>9, <1>10 DEF Seat
  <1> QED BY <1>1, <1>11, NoVoteInvariant

\* A heartbeat, and a request for votes, may be sent by any process.
LEMMA HeartbeatSays ==
    ASSUME NEW t \in Seats, NEW b, NEW nd, IsNode(nd)
    PROVE  Says(b, HeartbeatOf(t, nd))
  <1>1. PICK m : m = HeartbeatOf(t, nd)
    OBVIOUS
  <1>2. m = [type |-> "Heartbeat", from |-> <<t, nd.starts>>, term |-> nd.term,
             leads |-> nd.state = "leader"]
    BY <1>1 DEF HeartbeatOf
  <1>3. <<t, nd.starts>> \in Procs /\ nd.term \in Nat /\ (nd.state = "leader") \in BOOLEAN
    BY DEF IsNode, Procs
  <1>4. m \in Message
    BY <1>2, <1>3 DEF Message
  <1>5. m.type = "Heartbeat"
    BY <1>2
  <1> QED BY <1>1, <1>4, <1>5 DEF Says, Grant

\* The same for a vote request.
LEMMA VoteRequestSays ==
    ASSUME NEW b, NEW p \in Procs, NEW n \in Nat
    PROVE  Says(b, [type |-> "VoteRequest", from |-> p, term |-> n])
  <1>1. PICK m : m = [type |-> "VoteRequest", from |-> p, term |-> n]
    OBVIOUS
  <1>2. m \in Message /\ m.type = "VoteRequest"
    BY <1>1 DEF Message
  <1> QED BY <1>1, <1>2 DEF Says, Grant

\* A process that is up.
LEMMA UpFacts ==
    ASSUME IInv, NEW t \in Seats, Up(t)
    PROVE  /\ Typed /\ IsNode(node[t]) /\ DOMAIN node[t] = NodeFields
           /\ node[t].status = "up" /\ IsTask(node[t].task) /\ Seat(t)
           /\ Id(t) \in Procs /\ Id(t)[1] = t /\ Id(t) # None
  <1>1. Typed /\ Seat(t) /\ node[t].status = "up"
    BY DEF IInv, Up
  <1>2. IsNode(node[t])
    BY <1>1 DEF Typed
  <1>3. DOMAIN node[t] = NodeFields /\ IsTask(node[t].task) /\ node[t].starts \in Nat
    BY <1>2 DEF IsNode
  <1>4. Id(t) \in Procs /\ Id(t)[1] = t /\ Id(t) # None
    BY <1>3, NoneAssumption DEF Id, Procs
  <1> QED BY <1>1, <1>2, <1>3, <1>4

-----------------------------------------------------------------------------
(***************************************************************************)
(* The steps of a process that give no vote.                               *)
(***************************************************************************)
\* checkNodeHealth.
LEMMA EvictKeeps == ASSUME IInv, NEW s \in Seats, NEW m, Evict(s, m) PROVE IInv'
  <1>1. PICK nd : nd = [node[s] EXCEPT !.members = @ \ {m}]
    OBVIOUS
  <1>2. /\ Up(s) /\ node' = [node EXCEPT ![s] = nd]
        /\ UNCHANGED <<disk, chan, votes, overtaken, late>>
    BY <1>1 DEF Evict, races
  <1>3. Typed /\ IsNode(node[s]) /\ DOMAIN node[s] = NodeFields /\ node[s].status = "up"
    BY <1>2, UpFacts
  <1>4. IsNode(nd) /\ \A f \in NodeFields \ {"members"} : nd[f] = node[s][f]
    BY <1>1, <1>3 DEF IsNode, NodeFields
  <1> QED BY <1>2, <1>3, <1>4, NoQueueMoves, NothingVoted DEF NodeFields

\* The timer of a leader fires.
LEMMA LeaderTimeoutKeeps == ASSUME IInv, NEW s \in Seats, LeaderTimeout(s) PROVE IInv'
  <1>1. PICK nd : nd = [node[s] EXCEPT !.timer = "lost"]
    OBVIOUS
  <1>2. /\ Up(s) /\ node' = [node EXCEPT ![s] = nd]
        /\ UNCHANGED <<disk, chan, votes, overtaken, late>>
    BY <1>1 DEF LeaderTimeout, races
  <1>3. Typed /\ IsNode(node[s]) /\ DOMAIN node[s] = NodeFields /\ node[s].status = "up"
    BY <1>2, UpFacts
  <1>4. IsNode(nd) /\ nd.timer = "lost" /\ \A f \in NodeFields \ {"timer"} : nd[f] = node[s][f]
    BY <1>1, <1>3 DEF IsNode, NodeFields
  <1> QED BY <1>2, <1>3, <1>4, NoQueueMoves, NothingVoted DEF NodeFields

\* heartbeatLoop.
LEMMA HeartbeatKeeps == ASSUME IInv, NEW s \in Seats, Heartbeat(s) PROVE IInv'
  <1>1. Up(s) /\ UNCHANGED <<node, disk, votes, overtaken, late>>
    BY DEF Heartbeat, races
  <1>2. Typed /\ IsNode(node[s]) /\ DOMAIN node[s] = NodeFields /\ node[s].status = "up"
    BY <1>1, UpFacts
  <1>3. PICK nd : nd = [node[s] EXCEPT !.links = {t \in Seats : Tells(s, t)}]
    OBVIOUS
  <1>4. nd.links = {t \in Seats : Tells(s, t)}
    BY <1>2, <1>3 DEF NodeFields
  <1>5. Broadcast(s, nd, HeartbeatOf(s, node[s]))
    BY <1>4 DEF Heartbeat, Broadcast
  <1>6. ChanMoves(s)
    BY <1>2, <1>5, HeartbeatSays, BroadcastMoves
  <1> QED BY <1>1, <1>2, <1>6, NothingVoted

\* startElection, at its end: the answers of the others are asked for.
LEMMA AskingKeeps ==
    ASSUME IInv, NEW s \in Seats, Up(s), node[s].step = "ask", NEW nd, NEW reached,
           node' = [node EXCEPT ![s] = nd], UNCHANGED <<disk, votes, overtaken, late>>,
           IsNode(nd), nd.step = "idle",
           \A f \in {"status", "starts", "votedFor", "saved", "task", "voters",
                     "electionTerm"} : nd[f] = node[s][f],
           NEW m, Broadcast(s, reached, m), \A b \in Seats : Says(b, m)
    PROVE  IInv'
  <1>1. Typed /\ node[s].status = "up"
    BY UpFacts
  <1>2. ChanMoves(s)
    BY <1>1, BroadcastMoves
  <1> QED BY <1>1, <1>2, NothingVoted

\* What Asking and Leading change.
LEMMA AskingFacts ==
    ASSUME NEW s \in Seats, IsNode(node[s]), NEW total
    PROVE  /\ IsNode(Asking(s, total)) /\ Asking(s, total).step = "idle"
           /\ \A f \in {"status", "starts", "votedFor", "saved", "task", "voters",
                        "electionTerm"} : Asking(s, total)[f] = node[s][f]
  <1>1. PICK nd : nd = [node[s] EXCEPT !.step = "idle", !.campaign = 0, !.timer = "armed",
                                       !.needed = total \div 2 + 1]
    OBVIOUS
  <1>2. Asking(s, total) = nd
    BY <1>1 DEF Asking
  <1>3. /\ IsNode(nd) /\ nd.step = "idle"
        /\ \A f \in NodeFields \ {"step", "campaign", "timer", "needed"} : nd[f] = node[s][f]
    BY <1>1 DEF IsNode, NodeFields
  <1> QED BY <1>2, <1>3 DEF NodeFields

\* The same for becomeLeader.
LEMMA LeadingFacts ==
    ASSUME NEW t \in Seats, Id(t) \in Procs, NEW nd, IsNode(nd)
    PROVE  /\ IsNode(Leading(t, nd))
           /\ \A f \in NodeFields \ {"won", "state", "leader", "leaderTerm"} :
                 Leading(t, nd)[f] = nd[f]
  <1>1. PICK new : new = [nd EXCEPT !.won = TRUE, !.state = "leader",
                                    !.leader = Id(t), !.leaderTerm = nd.term]
    OBVIOUS
  <1>2. Leading(t, nd) \in {nd, new}
    BY <1>1 DEF Leading
  <1>3. /\ IsNode(new)
        /\ \A f \in NodeFields \ {"won", "state", "leader", "leaderTerm"} : new[f] = nd[f]
    BY <1>1 DEF IsNode, NodeFields
  <1> QED BY <1>2, <1>3

\* startElection when the requests, or the victory of a single node, go out.
LEMMA RequestVotesKeeps == ASSUME IInv, NEW s \in Seats, RequestVotes(s) PROVE IInv'
  <1>1. /\ Up(s) /\ node[s].step = "ask"
        /\ UNCHANGED <<disk, votes, overtaken, late>>
    BY DEF RequestVotes, races
  <1>2. IsNode(node[s]) /\ Id(s) \in Procs /\ node[s].campaign \in Nat
    BY <1>1, UpFacts DEF IsNode
  <1>3. PICK total : total = Cardinality(node[s].members) + 1
    OBVIOUS
  <1>4. PICK nd : nd = Asking(s, total)
    OBVIOUS
  <1>5. /\ IsNode(nd) /\ nd.step = "idle"
        /\ \A f \in {"status", "starts", "votedFor", "saved", "task", "voters",
                     "electionTerm"} : nd[f] = node[s][f]
    BY <1>2, <1>4, AskingFacts
  <1>6. PICK leader : leader = Leading(s, nd)
    OBVIOUS
  <1>7. /\ IsNode(leader)
        /\ \A f \in NodeFields \ {"won", "state", "leader", "leaderTerm"} :
              leader[f] = nd[f]
    BY <1>2, <1>5, <1>6, LeadingFacts
  <1>8. \/ /\ node' = [node EXCEPT ![s] = leader]
           /\ Broadcast(s, leader, HeartbeatOf(s, leader))
        \/ /\ node' = [node EXCEPT ![s] = nd]
           /\ Broadcast(s, nd, [type |-> "VoteRequest", from |-> Id(s),
                                term |-> node[s].campaign])
    BY <1>3, <1>4, <1>6 DEF RequestVotes
  <1>9. CASE /\ node' = [node EXCEPT ![s] = leader]
             /\ Broadcast(s, leader, HeartbeatOf(s, leader))
    <2>1. \A b \in Seats : Says(b, HeartbeatOf(s, leader))
      BY <1>7, HeartbeatSays
    <2>2. /\ leader.step = "idle"
          /\ \A f \in {"status", "starts", "votedFor", "saved", "task", "voters",
                       "electionTerm"} : leader[f] = node[s][f]
      BY <1>5, <1>7 DEF NodeFields
    <2> QED BY <1>1, <1>7, <1>9, <2>1, <2>2, AskingKeeps
  <1>10. CASE /\ node' = [node EXCEPT ![s] = nd]
              /\ Broadcast(s, nd, [type |-> "VoteRequest", from |-> Id(s),
                                   term |-> node[s].campaign])
    <2>1. \A b \in Seats : Says(b, [type |-> "VoteRequest", from |-> Id(s),
                                    term |-> node[s].campaign])
      BY <1>2, VoteRequestSays
    <2> QED BY <1>1, <1>5, <1>10, <2>1, AskingKeeps
  <1> QED BY <1>8, <1>9, <1>10

\* startElection when Broadcast returns an error.
LEMMA RequestVotesFailsKeeps ==
    ASSUME IInv, NEW s \in Seats, RequestVotesFails(s) PROVE IInv'
  <1>1. /\ Up(s) /\ node[s].step = "ask"
        /\ UNCHANGED <<disk, votes, overtaken, late>>
    BY DEF RequestVotesFails, races
  <1>2. IsNode(node[s]) /\ Id(s) \in Procs /\ node[s].campaign \in Nat
    BY <1>1, UpFacts DEF IsNode
  <1>3. PICK total : total = Cardinality(node[s].members) + 1
    OBVIOUS
  <1>4. PICK nd : nd = Asking(s, total)
    OBVIOUS
  <1>5. /\ IsNode(nd) /\ nd.step = "idle"
        /\ \A f \in {"status", "starts", "votedFor", "saved", "task", "voters",
                     "electionTerm"} : nd[f] = node[s][f]
    BY <1>2, <1>4, AskingFacts
  <1>6. PICK new : new = [nd EXCEPT !.state = "follower"]
    OBVIOUS
  <1>7. IsNode(new) /\ \A f \in NodeFields \ {"state"} : new[f] = nd[f]
    BY <1>5, <1>6 DEF IsNode, NodeFields
  <1>8. /\ new.step = "idle"
        /\ \A f \in {"status", "starts", "votedFor", "saved", "task", "voters",
                     "electionTerm"} : new[f] = node[s][f]
    BY <1>5, <1>7 DEF NodeFields
  <1>9. PICK reached :
           /\ node' = [node EXCEPT ![s] = new]
           /\ Broadcast(s, [nd EXCEPT !.links = reached],
                        [type |-> "VoteRequest", from |-> Id(s), term |-> node[s].campaign])
    BY <1>3, <1>4, <1>6 DEF RequestVotesFails
  <1>10. \A b \in Seats : Says(b, [type |-> "VoteRequest", from |-> Id(s),
                                   term |-> node[s].campaign])
    BY <1>2, VoteRequestSays
  <1> QED BY <1>1, <1>7, <1>8, <1>9, <1>10, AskingKeeps

\* A process whose timer fires, and whose decided grant, if any, is recorded as
\* overlapping.
LEMMA BeginElectionKeeps == ASSUME IInv, NEW s \in Seats, BeginElection(s) PROVE IInv'
  <1>1. PICK nd : nd = [node[s] EXCEPT !.state = "candidate", !.step = "raise"]
    OBVIOUS
  <1>2. /\ Up(s) /\ node[s].timer = "armed" /\ node[s].step = "idle"
        /\ node' = [node EXCEPT ![s] = nd] /\ Overtakes(s, nd)
        /\ UNCHANGED <<disk, chan, votes, late>>
    BY <1>1 DEF BeginElection
  <1>3. Typed /\ IsNode(node[s]) /\ DOMAIN node[s] = NodeFields /\ node[s].status = "up"
        /\ Seat(s)
    BY <1>2, UpFacts
  <1>4. /\ IsNode(nd) /\ nd.step = "raise"
        /\ \A f \in NodeFields \ {"state", "step"} : nd[f] = node[s][f]
    BY <1>1, <1>3 DEF IsNode, NodeFields
  <1>5. /\ overtaken \subseteq overtaken'
        /\ (node[s].task.granted /\ node[s].task.peer # Id(s)) => Id(s) \in overtaken'
    <2>1. nd.task = node[s].task
      BY <1>4 DEF NodeFields
    <2>2. overtaken' = overtaken \cup {i \in {Id(s)} : nd.task.granted /\ nd.task.peer # i}
      BY <1>2, <1>4 DEF Overtakes
    <2> QED BY <2>1, <2>2
  <1>6. OwnStep(s) /\ node'[s] = nd /\ Up(s)' /\ Id(s)' = Id(s)
    BY <1>2, <1>3, <1>4, <1>5, NoQueueMoves, MoveIsOwn DEF NodeFields
  <1>7. /\ node'[s].votedFor = node[s].votedFor /\ node'[s].saved = node[s].saved
        /\ node'[s].task = node[s].task /\ node'[s].step = "raise"
        /\ node'[s].starts = node[s].starts
        /\ node'[s].electionTerm = node[s].electionTerm
        /\ node'[s].voters = node[s].voters
    BY <1>4, <1>6 DEF NodeFields
  <1>8. Copies(s)' \subseteq Copies(s)
    BY <1>2, <1>6, <1>7 DEF Copies
  <1>9. Bound(s)'
    BY <1>2, <1>3, <1>8 DEF Seat, Bound
  <1>10. Started(s)'
    BY <1>2, <1>3, <1>7 DEF Seat, Started
  <1>11. Granting(s)'
    BY <1>2, <1>3, <1>6, <1>7 DEF Seat, Granting
  <1>12. Looping(s)'
    BY <1>7 DEF Looping
  <1>13. Loyal(s)'
    BY <1>2, <1>3, <1>5, <1>6, <1>7 DEF Seat, Loyal
  <1>14. Counting(s)'
    BY <1>2, <1>3, <1>7 DEF Seat, Counting, Given
  <1>15. Tallied(s)'
    BY <1>2, <1>3, <1>6, <1>7 DEF Seat, Tallied, Between, Given
  <1>16. Seat(s)'
    BY <1>9, <1>10, <1>11, <1>12, <1>13, <1>14, <1>15 DEF Seat
  <1> QED BY <1>2, <1>6, <1>16, NoVoteInvariant

(***************************************************************************)
(* A step of startElection that gives no vote: from one store to the next, *)
(* with nd for the process afterwards.                                     *)
(***************************************************************************)
LEMMA StoreIsOwn ==
    ASSUME IInv, NEW s \in Seats, NEW from, NEW nd, Moves(s, from, nd),
           UNCHANGED votes, IsNode(nd),
           \A f \in {"status", "starts", "votedFor", "task"} : nd[f] = node[s][f],
           disk' = disk \/ \E d : IsBallot(d) /\ disk' = [disk EXCEPT ![s] = d]
    PROVE  /\ Up(s) /\ node[s].step = from /\ node'[s] = nd
           /\ OwnStep(s) /\ Up(s)' /\ Id(s)' = Id(s)
           /\ UNCHANGED <<votes, overtaken, late>>
           /\ Started(s)' /\ Counting(s)'
           /\ Seat(s)
  <1>1. /\ Up(s) /\ node[s].step = from /\ node' = [node EXCEPT ![s] = nd]
        /\ UNCHANGED <<chan, overtaken, late>>
    BY DEF Moves, races
  <1>2. Typed /\ node[s].status = "up" /\ Seat(s)
    BY <1>1, UpFacts
  <1>3. OwnStep(s) /\ node'[s] = nd /\ Up(s)' /\ Id(s)' = Id(s)
    BY <1>1, <1>2, NoQueueMoves, MoveIsOwn
  <1>4. Started(s)'
    BY <1>2, <1>3 DEF Seat, Started
  <1>5. Counting(s)'
    BY <1>1, <1>2, <1>3 DEF Seat, Counting, Given
  <1> QED BY <1>1, <1>2, <1>3, <1>4, <1>5

\* CurrentTerm.Add.
LEMMA RaiseTermKeeps == ASSUME IInv, NEW s \in Seats, RaiseTerm(s) PROVE IInv'
  <1>1. PICK nd : nd = [node[s] EXCEPT !.term = @ + 1, !.step = "vote"]
    OBVIOUS
  <1>2. Moves(s, "raise", nd) /\ UNCHANGED <<disk, votes>>
    BY <1>1 DEF RaiseTerm
  <1>3. IsNode(node[s]) /\ DOMAIN node[s] = NodeFields
    BY <1>2, UpFacts DEF Moves
  <1>4. /\ IsNode(nd) /\ nd.step = "vote"
        /\ \A f \in NodeFields \ {"term", "step"} : nd[f] = node[s][f]
    <2>1. /\ DOMAIN nd = NodeFields /\ nd.step = "vote" /\ nd.term = node[s].term + 1
          /\ \A f \in NodeFields \ {"term", "step"} : nd[f] = node[s][f]
      BY <1>1, <1>3 DEF NodeFields
    <2>2. nd.term \in Nat
      BY <1>3, <2>1 DEF IsNode
    <2> QED BY <1>3, <2>1, <2>2 DEF IsNode, NodeFields
  <1>5. /\ nd.votedFor = node[s].votedFor /\ nd.saved = node[s].saved
        /\ nd.task = node[s].task /\ nd.starts = node[s].starts
        /\ nd.timer = node[s].timer /\ nd.status = node[s].status
        /\ nd.electionTerm = node[s].electionTerm /\ nd.voters = node[s].voters
    BY <1>4 DEF NodeFields
  <1>6. /\ Up(s) /\ node[s].step = "raise" /\ node'[s] = nd
        /\ OwnStep(s) /\ Up(s)' /\ Id(s)' = Id(s)
        /\ UNCHANGED <<votes, overtaken, late>>
        /\ Started(s)' /\ Counting(s)' /\ Seat(s)
    BY <1>2, <1>4, <1>5, StoreIsOwn
  <1>7. Bound(s)'
    BY <1>2, <1>4, <1>5, <1>6 DEF Seat, Bound, Copies
  <1>8. Granting(s)' /\ Looping(s)'
    BY <1>4, <1>5, <1>6 DEF Seat, Granting, Looping
  <1>9. Loyal(s)'
    BY <1>4, <1>5, <1>6 DEF Seat, Loyal
  <1>10. Tallied(s)'
    BY <1>4, <1>5, <1>6 DEF Seat, Tallied, Between, Given
  <1>11. Seat(s)'
    BY <1>6, <1>7, <1>8, <1>9, <1>10 DEF Seat
  <1> QED BY <1>6, <1>11, NoVoteInvariant

\* VotedFor.Store(self).
LEMMA VoteForSelfKeeps == ASSUME IInv, NEW s \in Seats, VoteForSelf(s) PROVE IInv'
  <1>1. PICK nd : nd = [node[s] EXCEPT !.campaign = node[s].term,
                                       !.votedFor = Id(s), !.step = "read"]
    OBVIOUS
  <1>2. /\ Up(s) /\ node[s].step = "vote" /\ node' = [node EXCEPT ![s] = nd]
        /\ votes' = votes \cup {[voter |-> Id(s), term |-> node[s].term, for |-> Id(s)]}
        /\ UNCHANGED <<disk, chan, overtaken, late>>
    BY <1>1 DEF VoteForSelf, Moves, races
  <1>3. /\ Typed /\ IsNode(node[s]) /\ DOMAIN node[s] = NodeFields
        /\ node[s].status = "up" /\ Seat(s) /\ node[s].term \in Nat
        /\ Id(s) \in Procs /\ Id(s)[1] = s /\ Id(s) # None
    BY <1>2, UpFacts DEF IsNode
  <1>4. /\ IsNode(nd) /\ nd.step = "read" /\ nd.votedFor = Id(s)
        /\ nd.campaign = node[s].term
        /\ \A f \in NodeFields \ {"campaign", "votedFor", "step"} : nd[f] = node[s][f]
    BY <1>1, <1>3 DEF IsNode, NodeFields
  <1>5. PICK vote \in Vote :
           /\ vote = [voter |-> Id(s), term |-> node[s].term, for |-> Id(s)]
           /\ vote.voter = Id(s) /\ vote.term = node[s].term /\ vote.for = Id(s)
    BY <1>3, VoteFields
  <1>6. votes' = votes \cup {vote} /\ ~Grants(vote)
    BY <1>2, <1>3, <1>5 DEF Grants
  <1>7. /\ OwnStep(s) /\ node'[s] = nd /\ Up(s)' /\ Id(s)' = Id(s)
    BY <1>2, <1>3, <1>4, <1>5, <1>6, NoQueueMoves, MoveIsOwn DEF NodeFields
  <1>8. /\ nd.saved = node[s].saved /\ nd.task = node[s].task
        /\ nd.starts = node[s].starts /\ nd.timer = node[s].timer
        /\ nd.electionTerm = node[s].electionTerm /\ nd.voters = node[s].voters
    BY <1>4 DEF NodeFields
  <1>9. Bound(s)'
    <2>1. Copies(s)' \subseteq Copies(s) \cup {Id(s)}
      BY <1>2, <1>4, <1>7, <1>8 DEF Copies
    <2>2. \A v \in votes : Fits(s, v.for, Id(s))
      BY <1>3 DEF Fits
    <2> QED BY <1>3, <1>6, <2>1, <2>2 DEF Seat, Bound, Grants
  <1>10. Started(s)'
    BY <1>3, <1>5, <1>6, <1>7, <1>8 DEF Seat, Started, Id, IsNode
  <1>11. Granting(s)'
    BY <1>2, <1>3, <1>4, <1>7, <1>8 DEF Seat, Granting
  <1>12. Looping(s)'
    BY <1>3, <1>4, <1>5, <1>6, <1>7 DEF Looping, Given
  <1>13. \A v \in votes : (v.voter = Id(s) /\ Id(s) \notin overtaken) => v.for = Id(s)
    BY <1>2, <1>3 DEF Seat, Loyal
  <1>14. Loyal(s)'
    BY <1>2, <1>3, <1>4, <1>5, <1>6, <1>7, <1>8, <1>13 DEF Seat, Loyal
  <1>15. Counting(s)'
    BY <1>2, <1>3, <1>6, <1>7, <1>8 DEF Seat, Counting, Given
  <1>16. Tallied(s)'
    BY <1>2, <1>3, <1>4, <1>6, <1>7, <1>8 DEF Seat, Tallied, Between, Given
  <1>17. OneGrant'
    BY <1>6 DEF IInv, OneGrant, Grants
  <1>18. OneCandidate'
    BY <1>2, <1>5, <1>6, <1>13 DEF IInv, OneCandidate
  <1>19. Seat(s)'
    BY <1>9, <1>10, <1>11, <1>12, <1>14, <1>15, <1>16 DEF Seat
  <1> QED BY <1>7, <1>17, <1>18, <1>19, OwnStepInvariant

\* What persistState reads is a ballot with the vote in memory.
LEMMA BallotFacts ==
    ASSUME NEW nd, IsNode(nd)
    PROVE  \E b : b = Ballot(nd) /\ IsBallot(b) /\ b.votedFor = nd.votedFor
  <1>1. PICK b : b = [term |-> nd.term, votedFor |-> nd.votedFor]
    OBVIOUS
  <1>2. b = Ballot(nd)
    BY <1>1 DEF Ballot
  <1>3. IsBallot(b) /\ b.votedFor = nd.votedFor
    BY <1>1 DEF IsBallot, IsNode
  <1> QED BY <1>2, <1>3

\* persistState of startElection reads the fields.
LEMMA ReadBallotKeeps == ASSUME IInv, NEW s \in Seats, ReadBallot(s) PROVE IInv'
  <1>1. PICK nd : nd = [node[s] EXCEPT !.saved = Ballot(node[s]), !.step = "write"]
    OBVIOUS
  <1>2. Moves(s, "read", nd) /\ UNCHANGED <<disk, votes>>
    BY <1>1 DEF ReadBallot
  <1>3. IsNode(node[s]) /\ DOMAIN node[s] = NodeFields
    BY <1>2, UpFacts DEF Moves
  <1>4. PICK read : /\ read = Ballot(node[s]) /\ IsBallot(read)
                    /\ read.votedFor = node[s].votedFor
    BY <1>3, BallotFacts
  <1>5. /\ IsNode(nd) /\ nd.step = "write" /\ nd.saved.votedFor = node[s].votedFor
        /\ \A f \in NodeFields \ {"saved", "step"} : nd[f] = node[s][f]
    <2>1. nd = [node[s] EXCEPT !.saved = read, !.step = "write"]
      BY <1>1, <1>4
    <2>2. /\ DOMAIN nd = NodeFields /\ nd.step = "write" /\ nd.saved = read
          /\ \A f \in NodeFields \ {"saved", "step"} : nd[f] = node[s][f]
      BY <1>3, <2>1 DEF NodeFields
    <2> QED BY <1>3, <1>4, <2>2 DEF IsNode, NodeFields
  <1>6. /\ nd.votedFor = node[s].votedFor /\ nd.campaign = node[s].campaign
        /\ nd.task = node[s].task /\ nd.starts = node[s].starts
        /\ nd.timer = node[s].timer /\ nd.status = node[s].status
        /\ nd.electionTerm = node[s].electionTerm /\ nd.voters = node[s].voters
    BY <1>5 DEF NodeFields
  <1>7. /\ Up(s) /\ node[s].step = "read" /\ node'[s] = nd
        /\ OwnStep(s) /\ Up(s)' /\ Id(s)' = Id(s)
        /\ UNCHANGED <<votes, overtaken, late>>
        /\ Started(s)' /\ Counting(s)' /\ Seat(s)
    BY <1>2, <1>5, <1>6, StoreIsOwn
  <1>8. Bound(s)'
    <2>1. Copies(s)' \subseteq Copies(s)
      BY <1>2, <1>5, <1>6, <1>7 DEF Copies
    <2> QED BY <1>7, <2>1 DEF Seat, Bound
  <1>9. node[s].votedFor # None /\ Given(Id(s), node[s].campaign, s)
    BY <1>7 DEF Seat, Looping
  <1>10. Looping(s)'
    BY <1>5, <1>6, <1>7, <1>9 DEF Looping, Given
  <1>11. Granting(s)'
    BY <1>5, <1>6, <1>7 DEF Seat, Granting
  <1>12. Loyal(s)'
    BY <1>5, <1>6, <1>7 DEF Seat, Loyal
  <1>13. Tallied(s)'
    BY <1>5, <1>6, <1>7 DEF Seat, Tallied, Between, Given
  <1>14. Seat(s)'
    BY <1>7, <1>8, <1>10, <1>11, <1>12, <1>13 DEF Seat
  <1> QED BY <1>7, <1>14, NoVoteInvariant

\* persistState of startElection writes the file.
LEMMA WriteBallotKeeps == ASSUME IInv, NEW s \in Seats, WriteBallot(s) PROVE IInv'
  <1>1. PICK nd : nd = [node[s] EXCEPT !.saved = NoVote, !.step = "term"]
    OBVIOUS
  <1>2. Moves(s, "write", nd) /\ disk' = [disk EXCEPT ![s] = node[s].saved]
        /\ UNCHANGED votes
    BY <1>1 DEF WriteBallot
  <1>3. IsNode(node[s]) /\ DOMAIN node[s] = NodeFields /\ IsBallot(node[s].saved) /\ Typed
    BY <1>2, UpFacts DEF Moves, IsNode
  <1>4. IsBallot(NoVote)
    BY DEF NoVote, IsBallot
  <1>5. /\ IsNode(nd) /\ nd.step = "term"
        /\ \A f \in NodeFields \ {"saved", "step"} : nd[f] = node[s][f]
    BY <1>1, <1>3, <1>4 DEF IsNode, NodeFields
  <1>6. /\ nd.votedFor = node[s].votedFor /\ nd.campaign = node[s].campaign
        /\ nd.task = node[s].task /\ nd.starts = node[s].starts
        /\ nd.timer = node[s].timer /\ nd.status = node[s].status
        /\ nd.electionTerm = node[s].electionTerm /\ nd.voters = node[s].voters
    BY <1>5 DEF NodeFields
  <1>7. /\ Up(s) /\ node[s].step = "write" /\ node'[s] = nd
        /\ OwnStep(s) /\ Up(s)' /\ Id(s)' = Id(s)
        /\ UNCHANGED <<votes, overtaken, late>>
        /\ Started(s)' /\ Counting(s)' /\ Seat(s)
    BY <1>2, <1>3, <1>5, <1>6, StoreIsOwn
  <1>8. Bound(s)'
    <2>1. disk'[s] = node[s].saved
      BY <1>2, <1>3 DEF Typed
    <2>2. Copies(s)' \subseteq Copies(s)
      BY <1>5, <1>6, <1>7, <2>1 DEF Copies
    <2> QED BY <1>7, <2>2 DEF Seat, Bound
  <1>9. Given(Id(s), node[s].campaign, s)
    BY <1>7 DEF Seat, Looping
  <1>10. Looping(s)'
    BY <1>5, <1>6, <1>7, <1>9 DEF Looping, Given
  <1>11. Granting(s)'
    BY <1>5, <1>6, <1>7 DEF Seat, Granting
  <1>12. Loyal(s)'
    BY <1>5, <1>6, <1>7 DEF Seat, Loyal
  <1>13. Tallied(s)'
    BY <1>5, <1>6, <1>7 DEF Seat, Tallied, Between, Given
  <1>14. Seat(s)'
    BY <1>7, <1>8, <1>10, <1>11, <1>12, <1>13 DEF Seat
  <1> QED BY <1>7, <1>14, NoVoteInvariant

(***************************************************************************)
(* The last stores of startElection: electionTerm, electionWon and the     *)
(* tally, none of which touches votedFor or a copy of it.                  *)
(***************************************************************************)
LEMMA TermStoresKeep ==
    ASSUME IInv, NEW s \in Seats, NEW from \in {"term", "won", "tally"}, NEW nd,
           Moves(s, from, nd), UNCHANGED <<disk, votes>>, IsNode(nd),
           nd.step \in {"won", "tally", "ask"}, nd.electionTerm = node[s].campaign,
           nd.step = "ask" => nd.voters = {Id(s)},
           \A f \in {"status", "starts", "votedFor", "campaign", "task"} :
              nd[f] = node[s][f]
    PROVE  IInv'
  <1>1. /\ Up(s) /\ node[s].step = from /\ node'[s] = nd
        /\ OwnStep(s) /\ Up(s)' /\ Id(s)' = Id(s)
        /\ UNCHANGED <<votes, overtaken, late>>
        /\ Started(s)' /\ Counting(s)' /\ Seat(s)
    BY StoreIsOwn
  <1>2. /\ nd.votedFor = node[s].votedFor /\ nd.campaign = node[s].campaign
        /\ nd.task = node[s].task /\ nd.step # "write" /\ nd.step # "read"
    OBVIOUS
  <1>3. Bound(s)'
    <2>1. Copies(s)' \subseteq Copies(s)
      BY <1>1, <1>2 DEF Copies
    <2> QED BY <1>1, <2>1 DEF Seat, Bound
  <1>4. Given(Id(s), node[s].campaign, s)
    BY <1>1 DEF Seat, Looping
  <1>5. Looping(s)'
    BY <1>1, <1>2, <1>4 DEF Looping, Given
  <1>6. Granting(s)'
    BY <1>1, <1>2 DEF Seat, Granting
  <1>7. Loyal(s)'
    BY <1>1, <1>2 DEF Seat, Loyal
  <1>8. Tallied(s)'
    BY <1>1, <1>2, <1>4 DEF Tallied, Between, Given
  <1>9. Seat(s)'
    BY <1>1, <1>3, <1>5, <1>6, <1>7, <1>8 DEF Seat
  <1> QED BY <1>1, <1>9, NoVoteInvariant

\* electionTerm.Store.
LEMMA MoveElectionTermKeeps ==
    ASSUME IInv, NEW s \in Seats, MoveElectionTerm(s) PROVE IInv'
  <1>1. PICK nd : nd = [node[s] EXCEPT !.electionTerm = node[s].campaign, !.step = "won"]
    OBVIOUS
  <1>2. Moves(s, "term", nd) /\ UNCHANGED <<disk, votes>>
    BY <1>1 DEF MoveElectionTerm
  <1>3. IsNode(node[s])
    BY <1>2, UpFacts DEF Moves
  <1>4. /\ IsNode(nd) /\ nd.step = "won" /\ nd.electionTerm = node[s].campaign
        /\ \A f \in NodeFields \ {"electionTerm", "step"} : nd[f] = node[s][f]
    BY <1>1, <1>3 DEF IsNode, NodeFields
  <1>5. \A f \in {"status", "starts", "votedFor", "campaign", "task"} : nd[f] = node[s][f]
    BY <1>4 DEF NodeFields
  <1> QED BY <1>2, <1>4, <1>5, TermStoresKeep

\* electionWon.Store(false).
LEMMA ForgetWinKeeps == ASSUME IInv, NEW s \in Seats, ForgetWin(s) PROVE IInv'
  <1>1. PICK nd : nd = [node[s] EXCEPT !.won = FALSE, !.step = "tally"]
    OBVIOUS
  <1>2. Moves(s, "won", nd) /\ UNCHANGED <<disk, votes>>
    BY <1>1 DEF ForgetWin
  <1>3. IsNode(node[s]) /\ node[s].electionTerm = node[s].campaign
    BY <1>2, UpFacts DEF Moves, Seat, Looping
  <1>4. /\ IsNode(nd) /\ nd.step = "tally"
        /\ \A f \in NodeFields \ {"won", "step"} : nd[f] = node[s][f]
    BY <1>1, <1>3 DEF IsNode, NodeFields
  <1>5. /\ \A f \in {"status", "starts", "votedFor", "campaign", "task"} : nd[f] = node[s][f]
        /\ nd.electionTerm = node[s].campaign
    BY <1>3, <1>4 DEF NodeFields
  <1> QED BY <1>2, <1>4, <1>5, TermStoresKeep

\* The tally is emptied but for the vote for itself.
LEMMA EmptyTallyKeeps == ASSUME IInv, NEW s \in Seats, EmptyTally(s) PROVE IInv'
  <1>1. PICK nd : nd = [node[s] EXCEPT !.voters = {Id(s)}, !.step = "ask"]
    OBVIOUS
  <1>2. Moves(s, "tally", nd) /\ UNCHANGED <<disk, votes>>
    BY <1>1 DEF EmptyTally
  <1>3. IsNode(node[s]) /\ node[s].electionTerm = node[s].campaign
    BY <1>2, UpFacts DEF Moves, Seat, Looping
  <1>4. /\ IsNode(nd) /\ nd.step = "ask" /\ nd.voters = {Id(s)}
        /\ \A f \in NodeFields \ {"voters", "step"} : nd[f] = node[s][f]
    BY <1>1, <1>3 DEF IsNode, NodeFields
  <1>5. /\ \A f \in {"status", "starts", "votedFor", "campaign", "task"} : nd[f] = node[s][f]
        /\ nd.electionTerm = node[s].campaign
    BY <1>3, <1>4 DEF NodeFields
  <1> QED BY <1>2, <1>4, <1>5, TermStoresKeep

-----------------------------------------------------------------------------
(***************************************************************************)
(* Processes that end and start, and messages that are lost.               *)
(***************************************************************************)
\* A process ends: its memory, and what was on the way to it, is gone.
LEMMA DownKeeps ==
    ASSUME IInv, NEW s \in Seats, NEW status \in {"down", "panicked"},
           Down(s, status), UNCHANGED <<disk, votes, overtaken, late>>
    PROVE  IInv'
  <1>1. PICK gone : gone = Gone(node[s].starts, status)
    OBVIOUS
  <1>2. IsNode(node[s]) /\ node[s].starts \in Nat /\ DOMAIN node = Seats /\ Typed
    BY DEF IInv, Typed, IsNode
  <1>3. /\ IsNode(gone) /\ gone.status # "up" /\ gone.starts = node[s].starts
    BY <1>1, <1>2 DEF Gone, Fresh, NoVote, NoTask, IsNode, IsBallot, IsTask, NodeFields
  <1>4. /\ DOMAIN node' = Seats /\ node'[s] = gone
        /\ \A a \in Seats \ {s} : node'[a] = [node[a] EXCEPT !.links = @ \ {s}]
    BY <1>1 DEF Down
  <1>5. ASSUME NEW a \in Seats \ {s}
        PROVE  /\ IsNode(node'[a])
               /\ \A f \in NodeFields \ {"links"} : node'[a][f] = node[a][f]
    <2>1. IsNode(node[a])
      BY <1>2 DEF Typed
    <2>2. PICK nd : nd = [node[a] EXCEPT !.links = @ \ {s}]
      OBVIOUS
    <2>3. /\ DOMAIN nd = NodeFields /\ nd.links = node[a].links \ {s}
          /\ \A f \in NodeFields \ {"links"} : nd[f] = node[a][f]
      BY <2>1, <2>2 DEF IsNode, NodeFields
    <2>4. IsNode(nd)
      BY <2>1, <2>3 DEF IsNode, NodeFields
    <2> QED BY <1>4, <2>2, <2>3, <2>4
  <1>6. ASSUME NEW a \in Seats PROVE SameSeat(a)
    <2>1. CASE a = s
      BY <1>3, <1>4, <2>1 DEF SameSeat, Up
    <2>2. CASE a # s
      BY <1>5, <2>2 DEF SameSeat, Up, NodeFields
    <2> QED BY <2>1, <2>2
  <1>7. /\ DOMAIN chan' = Seats /\ \A a \in Seats : DOMAIN chan'[a] = Seats
        /\ \A a, b \in Seats : chan'[a][b] = IF b = s THEN <<>> ELSE chan[a][b]
    BY <1>2 DEF Down, Typed
  <1>8. ChanMoves(s)
    BY <1>7 DEF ChanMoves, Rest
  <1>9. Typed'
    <2>1. \A a \in Seats : IsNode(node'[a])
      BY <1>3, <1>4, <1>5
    <2>2. \A a, b \in Seats : chan'[a][b] \in Seq(Message)
      BY <1>2, <1>8, MessagesCome
    <2> QED BY <1>2, <1>4, <1>7, <2>1, <2>2 DEF Typed
  <1>10. Messages'
    BY <1>2, <1>8, MessagesKept DEF IInv
  <1>11. \A a \in Seats : Seat(a)'
    BY <1>6, SeatKept DEF IInv
  <1> QED BY <1>9, <1>10, <1>11 DEF IInv, OneGrant, OneCandidate, Grants

\* A message is dropped.
LEMMA LoseKeeps == ASSUME IInv, NEW s \in Seats, NEW t \in Seats, Lose(s, t) PROVE IInv'
  <1>1. UNCHANGED <<node, disk, votes, overtaken, late>> /\ Typed
    BY DEF Lose, races, IInv
  <1>2. ChanMoves(t)
    BY <1>1 DEF Typed, Lose, ChanMoves, Rest
  <1>3. Typed'
    <2>1. \A a, b \in Seats : chan'[a][b] \in Seq(Message)
      BY <1>1, <1>2, MessagesCome
    <2> QED BY <1>1, <1>2, <2>1 DEF Typed, ChanMoves
  <1>4. Messages'
    BY <1>1, <1>2, MessagesKept DEF IInv
  <1>5. ASSUME NEW a \in Seats PROVE Seat(a)'
    <2>1. SameSeat(a)
      BY <1>1 DEF SameSeat, Up
    <2> QED BY <1>1, <2>1, SeatKept DEF IInv
  <1> QED BY <1>1, <1>3, <1>4, <1>5 DEF IInv, OneGrant, OneCandidate, Grants

\* A process starts, with the term and the vote of the file, and asks to join.
LEMMA StartKeeps == ASSUME IInv, NEW s \in Seats, Start(s) PROVE IInv'
  <1>1. PICK joins \in BOOLEAN : joins = (s # Seed /\ Up(Seed))
    OBVIOUS
  <1>2. PICK nd : nd = Fresh(node[s].starts + 1, disk[s])
    OBVIOUS
  <1>3. PICK new : new = [nd EXCEPT !.links = IF joins THEN {Seed} ELSE {}]
    OBVIOUS
  <1>4. /\ IsNode(node[s]) /\ IsBallot(disk[s]) /\ node[s].status # "up" /\ Typed
        /\ UNCHANGED <<disk, votes, overtaken, late>> /\ node[s].starts \in Nat
    BY DEF IInv, Typed, Start, races, IsNode
  <1>5. DOMAIN nd = NodeFields /\ nd.starts = node[s].starts + 1
    BY <1>2 DEF Fresh, NodeFields
  <1>6. /\ IsNode(new) /\ new.status = "up" /\ new.starts = node[s].starts + 1
        /\ new.votedFor = disk[s].votedFor /\ new.step = "idle"
        /\ new.task = NoTask /\ new.voters = {}
    <2>1. IsBallot(NoVote) /\ IsTask(NoTask)
      BY DEF IsBallot, IsTask, NoTask, NoVote
    <2>2. /\ DOMAIN new = NodeFields /\ new.status = "up"
          /\ new.starts = node[s].starts + 1
          /\ new.term = disk[s].term /\ new.votedFor = disk[s].votedFor
          /\ new.leader = None /\ new.members = {} /\ new.step = "idle"
          /\ new.campaign = 0 /\ new.saved = NoVote /\ new.task = NoTask
          /\ new.electionTerm = 0 /\ new.voters = {}
          /\ new.links = IF joins THEN {Seed} ELSE {}
      BY <1>2, <1>3 DEF Fresh, NodeFields
    <2>3. disk[s].term \in Nat /\ disk[s].votedFor \in Procs \cup {None}
      BY <1>4 DEF IsBallot
    <2>4. IsNode(new)
      BY <1>4, <2>1, <2>2, <2>3, SeedAssumption DEF IsNode
    <2> QED BY <2>2, <2>4
  <1>7. node' = [node EXCEPT ![s] = new]
    BY <1>1, <1>2, <1>3 DEF Start
  <1>8. /\ DOMAIN node' = Seats /\ node'[s] = new
        /\ \A a \in Seats \ {s} : node'[a] = node[a]
    BY <1>4, <1>7 DEF Typed
  <1>9. PICK request : request = [type |-> "JoinRequest", from |-> <<s, nd.starts>>]
    OBVIOUS
  <1>10. chan' = IF joins THEN [chan EXCEPT ![s][Seed] = Append(@, request)] ELSE chan
    BY <1>1, <1>2, <1>9 DEF Start
  <1>11. /\ DOMAIN chan' = Seats /\ \A a \in Seats : DOMAIN chan'[a] = Seats
         /\ \A a, b \in Seats :
               chan'[a][b] = IF joins /\ a = s /\ b = Seed
                             THEN Append(chan[a][b], request) ELSE chan[a][b]
    BY <1>4, <1>10 DEF Typed
  <1>12. \A b \in Seats : Says(b, request)
    <2>1. request \in Message /\ request.type = "JoinRequest"
      BY <1>4, <1>5, <1>9 DEF Message, Procs
    <2> QED BY <2>1 DEF Says, Grant
  <1>13. ChanMoves(s)
    <2>1. ASSUME NEW a \in Seats, NEW b \in Seats
          PROVE  \E r \in Rest(chan[a][b]) :
                   \/ chan'[a][b] = r
                   \/ a = s /\ \E m : Says(b, m) /\ chan'[a][b] = Append(r, m)
      <3>1. chan[a][b] \in Rest(chan[a][b])
        BY DEF Rest
      <3> QED BY <1>11, <1>12, <3>1
    <2> QED BY <1>11, <2>1 DEF ChanMoves
  <1>14. Typed'
    <2>1. \A a \in Seats : IsNode(node'[a])
      BY <1>4, <1>6, <1>8 DEF Typed
    <2>2. \A a, b \in Seats : chan'[a][b] \in Seq(Message)
      BY <1>4, <1>13, MessagesCome
    <2> QED BY <1>4, <1>8, <1>11, <2>1, <2>2 DEF Typed
  <1>15. Messages'
    BY <1>4, <1>13, MessagesKept DEF IInv
  <1>16. ASSUME NEW a \in Seats, a # s PROVE Seat(a)'
    <2>1. SameSeat(a)
      BY <1>4, <1>8, <1>16 DEF SameSeat, Up
    <2> QED BY <1>4, <2>1, SeatKept DEF IInv
  <1>17. Seat(s)'
    <2>1. Seat(s)
      BY DEF IInv
    <2>2. Copies(s)' \subseteq Copies(s)
      BY <1>4, <1>6, <1>8 DEF Copies, NoTask
    <2>3. Bound(s)'
      BY <1>4, <2>1, <2>2 DEF Seat, Bound
    <2>4. \A v \in votes : v.voter[1] = s =>
             /\ v.voter[2] \in Nat /\ v.voter[2] <= node[s].starts
      BY <1>4, <2>1 DEF Seat, Started, Typed, Vote, Procs
    <2>5. Started(s)'
      BY <1>4, <1>6, <1>8, <2>4 DEF Started
    <2>6. \A v \in votes : v.voter # Id(s)'
      BY <1>4, <1>6, <1>8, <2>4 DEF Id
    <2>7. Granting(s)' /\ Looping(s)' /\ Counting(s)' /\ Tallied(s)'
      BY <1>6, <1>8 DEF Granting, Looping, Counting, Tallied, NoTask
    <2>8. Loyal(s)'
      BY <1>4, <1>6, <1>8, <2>6 DEF Loyal, NoTask
    <2> QED BY <2>3, <2>5, <2>7, <2>8 DEF Seat
  <1> QED BY <1>4, <1>14, <1>15, <1>16, <1>17 DEF IInv, OneGrant, OneCandidate, Grants

-----------------------------------------------------------------------------
(***************************************************************************)
(* The message handlers.                                                   *)
(***************************************************************************)
\* What the process at t finds when it takes the next message of s.
LEMMA ArrivedFacts ==
    ASSUME IInv, NEW s \in Seats, NEW t \in Seats, NEW type, Arrived(s, t, type)
    PROVE  \E m \in Message :
              /\ m = Head(chan[s][t]) /\ m.type = type /\ chan[s][t] # <<>>
              /\ Grant(m) => Given(m.from, m.term, t)
              /\ Up(t) /\ node[t].task = NoTask
              /\ Typed /\ IsNode(node[t]) /\ DOMAIN node[t] = NodeFields
              /\ node[t].status = "up"
  <1>1. chan[s][t] \in Seq(Message) /\ chan[s][t] # <<>>
    BY DEF IInv, Typed, Arrived
  <1>2. Head(chan[s][t]) \in Message /\ Head(chan[s][t]) \in In(s, t)
    BY <1>1, TailOfQueue DEF In
  <1>3. Grant(Head(chan[s][t])) =>
           Given(Head(chan[s][t]).from, Head(chan[s][t]).term, t)
    BY <1>2 DEF IInv, Messages
  <1>4. Up(t) /\ node[t].task = NoTask /\ Head(chan[s][t]).type = type
    BY DEF Arrived
  <1> QED BY <1>1, <1>2, <1>3, <1>4, UpFacts

\* ConnectToNode touches nothing but the members and the connections.
LEMMA JoinedFacts ==
    ASSUME NEW t \in Seats, NEW nd, IsNode(nd), NEW ids, ids \subseteq Procs
    PROVE  /\ IsNode(Joined(t, nd, ids))
           /\ \A f \in NodeFields \ {"members", "links"} : Joined(t, nd, ids)[f] = nd[f]
  <1>1. PICK found : found = {id \in ids : Reachable(t, id)}
    OBVIOUS
  <1>2. PICK new : new = [nd EXCEPT !.members = @ \cup found,
                                    !.links = @ \cup {id[1] : id \in found}]
    OBVIOUS
  <1>3. Joined(t, nd, ids) = new
    BY <1>1, <1>2 DEF Joined
  <1>4. /\ DOMAIN new = NodeFields
        /\ new.members = nd.members \cup found
        /\ new.links = nd.links \cup {id[1] : id \in found}
        /\ \A f \in NodeFields \ {"members", "links"} : new[f] = nd[f]
    BY <1>2 DEF IsNode, NodeFields
  <1>5. \A id \in found : id[1] \in Seats /\ id \in Procs
    BY <1>1 DEF Procs
  <1>6. IsNode(new)
    BY <1>4, <1>5 DEF IsNode, NodeFields
  <1> QED BY <1>3, <1>4, <1>6

\* resetElectionTimer only touches the timer.
LEMMA ResetFacts ==
    ASSUME NEW nd, IsNode(nd)
    PROVE  /\ IsNode(Reset(nd))
           /\ \A f \in NodeFields \ {"timer"} : Reset(nd)[f] = nd[f]
           /\ Reset(nd).timer = IF nd.step = "idle" THEN "lost" ELSE nd.timer
  <1>1. PICK new : new = [nd EXCEPT !.timer = IF nd.step = "idle" THEN "lost" ELSE @]
    OBVIOUS
  <1>2. Reset(nd) = new
    BY <1>1 DEF Reset
  <1>3. /\ DOMAIN new = NodeFields
        /\ \A f \in NodeFields \ {"timer"} : new[f] = nd[f]
        /\ new.timer = IF nd.step = "idle" THEN "lost" ELSE nd.timer
    BY <1>1 DEF IsNode, NodeFields
  <1>4. IsNode(new)
    BY <1>3 DEF IsNode, NodeFields
  <1> QED BY <1>2, <1>3, <1>4

\* A handler that neither votes nor counts.
LEMMA HandledKeeps ==
    ASSUME IInv, NEW t \in Seats, Up(t), NEW nd, node' = [node EXCEPT ![t] = nd],
           UNCHANGED <<disk, votes, overtaken, late>>, ChanMoves(t), IsNode(nd),
           nd.timer \in {"lost", node[t].timer},
           \A f \in {"status", "starts", "votedFor", "saved", "task", "voters",
                     "electionTerm", "step", "campaign"} : nd[f] = node[t][f]
    PROVE  IInv'
  <1>1. node[t].status = "up"
    BY UpFacts
  <1> QED BY <1>1, NothingVoted

\* handleJoinRequest: the seed's answer and its news.
LEMMA HandleJoinRequestKeeps ==
    ASSUME IInv, NEW s \in Seats, NEW t \in Seats, HandleJoinRequest(s, t)
    PROVE  IInv'
  <1>1. PICK m \in Message :
          /\ m = Head(chan[s][t]) /\ m.type = "JoinRequest" /\ chan[s][t] # <<>>
          /\ Up(t) /\ Typed /\ IsNode(node[t])
    BY ArrivedFacts DEF HandleJoinRequest
  <1>2. PICK id : id = m.from
    OBVIOUS
  <1>3. id \in Procs /\ Id(t) \in Procs
    BY <1>1, <1>2, MessageFields, UpFacts
  <1>4. PICK nd : nd = Joined(t, node[t], {id})
    OBVIOUS
  <1>5. /\ IsNode(nd) /\ nd.term \in Nat
        /\ \A f \in NodeFields \ {"members", "links"} : nd[f] = node[t][f]
    BY <1>1, <1>3, <1>4, JoinedFacts DEF IsNode
  <1>6. PICK response : response = [type |-> "JoinResponse", term |-> nd.term,
                                    leader |-> LeaderToTell(t, nd),
                                    nodes |-> nd.members \cup {Id(t)}]
    OBVIOUS
  <1>7. PICK update : update = [type |-> "NodeUpdate", term |-> nd.term, node |-> id]
    OBVIOUS
  <1>8. PICK out : out = [b \in Seats |->
                            (IF b = s THEN <<response>>
                             ELSE IF b \in {x[1] : x \in nd.members}
                             THEN <<update>> ELSE <<>>)]
    OBVIOUS
  <1>9. /\ Handle(s, t, nd, IF Reachable(t, id) THEN out ELSE Nothing)
        /\ UNCHANGED <<disk, votes, overtaken, late>>
    BY <1>1, <1>2, <1>4, <1>6, <1>7, <1>8 DEF HandleJoinRequest, races
  <1>10. \A b \in Seats : Says(b, response) /\ Says(b, update)
    <2>1. LeaderToTell(t, nd) \in Procs /\ nd.members \cup {Id(t)} \subseteq Procs
      BY <1>3, <1>5 DEF LeaderToTell, IsNode
    <2>2. response \in Message /\ response.type = "JoinResponse"
      BY <1>5, <1>6, <2>1 DEF Message
    <2>3. update \in Message /\ update.type = "NodeUpdate"
      BY <1>3, <1>5, <1>7 DEF Message
    <2> QED BY <2>2, <2>3 DEF Says, Grant
  <1>11. PICK sent : sent = IF Reachable(t, id) THEN out ELSE Nothing
    OBVIOUS
  <1>12. \A b \in Seats : sent[b] = <<>> \/ \E n : sent[b] = <<n>> /\ Says(b, n)
    <2>1. \A b \in Seats : sent[b] \in {<<>>, <<response>>, <<update>>}
      BY <1>8, <1>11 DEF Nothing
    <2> QED BY <1>10, <2>1
  <1>13. ChanMoves(t)
    BY <1>1, <1>9, <1>11, <1>12, HandleMoves
  <1>14. node' = [node EXCEPT ![t] = nd]
    BY <1>9 DEF Handle
  <1> QED BY <1>1, <1>5, <1>9, <1>13, <1>14, HandledKeeps DEF NodeFields

\* handleJoinResponse takes over the seed's term, even a lower one.
LEMMA HandleJoinResponseKeeps ==
    ASSUME IInv, NEW s \in Seats, NEW t \in Seats, HandleJoinResponse(s, t)
    PROVE  IInv'
  <1>1. PICK m \in Message :
          /\ m = Head(chan[s][t]) /\ m.type = "JoinResponse" /\ chan[s][t] # <<>>
          /\ Up(t) /\ Typed /\ IsNode(node[t])
    BY ArrivedFacts DEF HandleJoinResponse
  <1>2. m.term \in Nat /\ m.leader \in Procs /\ m.nodes \ {Id(t)} \subseteq Procs
    BY <1>1, MessageFields
  <1>3. PICK waiting : waiting = Reset(node[t])
    OBVIOUS
  <1>4. /\ IsNode(waiting)
        /\ \A f \in NodeFields \ {"timer"} : waiting[f] = node[t][f]
        /\ waiting.timer \in {"lost", node[t].timer}
    BY <1>1, <1>3, ResetFacts
  <1>5. PICK told : told = [waiting EXCEPT !.term = m.term, !.state = "follower",
                                           !.leader = m.leader]
    OBVIOUS
  <1>6. /\ IsNode(told)
        /\ \A f \in NodeFields \ {"term", "state", "leader"} : told[f] = waiting[f]
    BY <1>2, <1>4, <1>5 DEF IsNode, NodeFields
  <1>7. PICK nd : nd = Joined(t, told, m.nodes \ {Id(t)})
    OBVIOUS
  <1>8. /\ IsNode(nd)
        /\ \A f \in NodeFields \ {"members", "links"} : nd[f] = told[f]
    BY <1>2, <1>6, <1>7, JoinedFacts
  <1>9. /\ \A f \in {"status", "starts", "votedFor", "saved", "task", "voters",
                     "electionTerm", "step", "campaign"} : nd[f] = node[t][f]
        /\ nd.timer \in {"lost", node[t].timer}
    BY <1>4, <1>6, <1>8 DEF NodeFields
  <1>10. Handle(s, t, nd, Nothing) /\ UNCHANGED <<disk, votes, overtaken, late>>
    BY <1>1, <1>3, <1>5, <1>7 DEF HandleJoinResponse, races
  <1>11. ChanMoves(t) /\ node' = [node EXCEPT ![t] = nd]
    BY <1>1, <1>10, NothingMoves DEF Handle
  <1> QED BY <1>1, <1>8, <1>9, <1>10, <1>11, HandledKeeps

\* handleNodeUpdate takes over a higher term.
LEMMA HandleNodeUpdateKeeps ==
    ASSUME IInv, NEW s \in Seats, NEW t \in Seats, HandleNodeUpdate(s, t)
    PROVE  IInv'
  <1>1. PICK m \in Message :
          /\ m = Head(chan[s][t]) /\ m.type = "NodeUpdate" /\ chan[s][t] # <<>>
          /\ Up(t) /\ Typed /\ IsNode(node[t])
    BY ArrivedFacts DEF HandleNodeUpdate
  <1>2. m.term \in Nat /\ {m.node} \subseteq Procs
    BY <1>1, MessageFields
  <1>3. PICK told : told = [node[t] EXCEPT !.term = IF m.term > @ THEN m.term ELSE @]
    OBVIOUS
  <1>4. /\ IsNode(told)
        /\ \A f \in NodeFields \ {"term"} : told[f] = node[t][f]
    <2>1. /\ DOMAIN told = NodeFields /\ told.term \in {m.term, node[t].term}
          /\ \A f \in NodeFields \ {"term"} : told[f] = node[t][f]
      BY <1>1, <1>3 DEF IsNode, NodeFields
    <2>2. told.term \in Nat
      BY <1>1, <1>2, <2>1 DEF IsNode
    <2> QED BY <1>1, <2>1, <2>2 DEF IsNode, NodeFields
  <1>5. PICK nd : nd = Joined(t, told, {m.node})
    OBVIOUS
  <1>6. /\ IsNode(nd)
        /\ \A f \in NodeFields \ {"members", "links"} : nd[f] = told[f]
    BY <1>2, <1>4, <1>5, JoinedFacts
  <1>7. /\ \A f \in {"status", "starts", "votedFor", "saved", "task", "voters",
                     "electionTerm", "step", "campaign"} : nd[f] = node[t][f]
        /\ nd.timer \in {"lost", node[t].timer}
    BY <1>4, <1>6 DEF NodeFields
  <1>8. Handle(s, t, nd, Nothing) /\ UNCHANGED <<disk, votes, overtaken, late>>
    BY <1>1, <1>3, <1>5 DEF HandleNodeUpdate, races
  <1>9. ChanMoves(t) /\ node' = [node EXCEPT ![t] = nd]
    BY <1>1, <1>8, NothingMoves DEF Handle
  <1> QED BY <1>1, <1>6, <1>7, <1>8, <1>9, HandledKeeps

\* handleHeartbeat: a panic, or at most another leader and another timer.
LEMMA HandleHeartbeatKeeps ==
    ASSUME IInv, NEW s \in Seats, NEW t \in Seats, HandleHeartbeat(s, t)
    PROVE  IInv'
  <1>1. PICK m \in Message :
          /\ m = Head(chan[s][t]) /\ m.type = "Heartbeat" /\ chan[s][t] # <<>>
          /\ Up(t) /\ Typed /\ IsNode(node[t])
    BY ArrivedFacts DEF HandleHeartbeat
  <1>2. m.from \in Procs /\ m.term \in Nat
    BY <1>1, MessageFields
  <1>3. PICK nd : nd = IF m.from \in node[t].members /\ m.leads /\ m.term = node[t].term
                       THEN Following(node[t], m) ELSE node[t]
    OBVIOUS
  <1>4. PICK waiting : waiting = Reset(node[t])
    OBVIOUS
  <1>5. /\ IsNode(waiting)
        /\ \A f \in NodeFields \ {"timer"} : waiting[f] = node[t][f]
        /\ waiting.timer \in {"lost", node[t].timer}
    BY <1>1, <1>4, ResetFacts
  <1>6. PICK led : led = [waiting EXCEPT !.leader = m.from, !.leaderTerm = m.term]
    OBVIOUS
  <1>7. nd \in {node[t], waiting, led}
    BY <1>3, <1>4, <1>6 DEF Following
  <1>8. /\ IsNode(led) /\ led.timer \in {"lost", node[t].timer}
        /\ \A f \in NodeFields \ {"timer", "leader", "leaderTerm"} : led[f] = node[t][f]
    BY <1>2, <1>5, <1>6 DEF IsNode, NodeFields
  <1>9. /\ IsNode(nd) /\ nd.timer \in {"lost", node[t].timer}
        /\ \A f \in {"status", "starts", "votedFor", "saved", "task", "voters",
                     "electionTerm", "step", "campaign"} : nd[f] = node[t][f]
    BY <1>1, <1>5, <1>7, <1>8 DEF NodeFields
  <1>10. UNCHANGED <<disk, votes, late>>
    BY DEF HandleHeartbeat
  <1>11. \/ PanicAt(t)
         \/ Handle(s, t, nd, Nothing) /\ UNCHANGED overtaken
    BY <1>1, <1>3 DEF HandleHeartbeat
  <1>12. CASE PanicAt(t)
    BY <1>10, <1>12, DownKeeps DEF PanicAt
  <1>13. CASE Handle(s, t, nd, Nothing) /\ UNCHANGED overtaken
    <2>1. ChanMoves(t) /\ node' = [node EXCEPT ![t] = nd]
      BY <1>1, <1>13, NothingMoves DEF Handle
    <2> QED BY <1>1, <1>9, <1>10, <1>13, <2>1, HandledKeeps
  <1> QED BY <1>11, <1>12, <1>13

(***************************************************************************)
(* A step of processLoop that gives no vote and writes nothing: with nd    *)
(* for the process afterwards.                                             *)
(***************************************************************************)
LEMMA TaskIsOwn ==
    ASSUME IInv, NEW t \in Seats, Up(t), NEW nd, node' = [node EXCEPT ![t] = nd],
           UNCHANGED <<disk, votes>>, IsNode(nd), ChanMoves(t),
           overtaken \subseteq overtaken', late \subseteq late',
           \A f \in {"status", "starts", "saved", "step", "campaign",
                     "electionTerm"} : nd[f] = node[t][f]
    PROVE  /\ OwnStep(t) /\ node'[t] = nd /\ Up(t)' /\ Id(t)' = Id(t)
           /\ Seat(t) /\ Started(t)'
           /\ nd.starts = node[t].starts /\ nd.saved = node[t].saved
           /\ nd.step = node[t].step /\ nd.campaign = node[t].campaign
           /\ nd.electionTerm = node[t].electionTerm
  <1>1. node[t].status = "up" /\ Seat(t)
    BY UpFacts
  <1>2. OwnStep(t) /\ node'[t] = nd /\ Up(t)' /\ Id(t)' = Id(t)
    BY <1>1, MoveIsOwn
  <1>3. Started(t)'
    BY <1>1, <1>2 DEF Seat, Started
  <1> QED BY <1>1, <1>2, <1>3

\* handleVoteRequest: a panic, or the decision.
LEMMA HandleVoteRequestKeeps ==
    ASSUME IInv, NEW s \in Seats, NEW t \in Seats, HandleVoteRequest(s, t)
    PROVE  IInv'
  <1>1. PICK m \in Message :
          /\ m = Head(chan[s][t]) /\ m.type = "VoteRequest" /\ chan[s][t] # <<>>
          /\ Up(t) /\ Typed /\ IsNode(node[t]) /\ node[t].task = NoTask
    BY ArrivedFacts DEF HandleVoteRequest
  <1>2. m.from \in Procs /\ m.from # None /\ Seat(t)
    BY <1>1, MessageFields, UpFacts, NoneAssumption DEF Procs
  <1>3. PICK granted \in BOOLEAN :
          granted = (m.term = node[t].term /\ MayGrant(node[t], m.from))
    OBVIOUS
  <1>4. PICK task : task = [NoTask EXCEPT !.kind = "decided", !.peer = m.from,
                                          !.term = node[t].term, !.granted = granted]
    OBVIOUS
  <1>5. PICK nd : nd = [node[t] EXCEPT !.task = task]
    OBVIOUS
  <1>6. UNCHANGED <<disk, votes, late>>
    BY DEF HandleVoteRequest
  <1>7. PanicAt(t) \/ (Handle(s, t, nd, Nothing) /\ Overtakes(t, nd))
    BY <1>1, <1>3, <1>4, <1>5 DEF HandleVoteRequest
  <1>8. CASE PanicAt(t)
    BY <1>6, <1>8, DownKeeps DEF PanicAt
  <1>9. CASE Handle(s, t, nd, Nothing) /\ Overtakes(t, nd)
    <2>1. IsBallot(NoVote)
      BY DEF IsBallot, NoVote
    <2>2. /\ IsTask(task) /\ task.kind = "decided" /\ task.peer = m.from
          /\ task.granted = granted
      BY <1>1, <1>2, <1>4, <2>1 DEF IsTask, NoTask, IsNode
    <2>3. /\ IsNode(nd) /\ nd.task = task
          /\ \A f \in NodeFields \ {"task"} : nd[f] = node[t][f]
      BY <1>1, <1>5, <2>2 DEF IsNode, NodeFields
    <2>4. /\ overtaken \subseteq overtaken'
          /\ (nd.step # "idle" /\ granted /\ m.from # Id(t)) => Id(t) \in overtaken'
      BY <1>9, <2>2, <2>3 DEF Overtakes
    <2>5. ChanMoves(t) /\ node' = [node EXCEPT ![t] = nd]
      BY <1>1, <1>9, NothingMoves DEF Handle
    <2>6. /\ OwnStep(t) /\ node'[t] = nd /\ Up(t)' /\ Id(t)' = Id(t)
          /\ Seat(t) /\ Started(t)'
          /\ nd.saved = node[t].saved
          /\ nd.step = node[t].step /\ nd.campaign = node[t].campaign
          /\ nd.electionTerm = node[t].electionTerm
      BY <1>1, <1>6, <2>3, <2>4, <2>5, TaskIsOwn DEF NodeFields
    <2>7. /\ nd.votedFor = node[t].votedFor /\ nd.timer = node[t].timer
          /\ nd.voters = node[t].voters
      BY <2>3 DEF NodeFields
    <2>8. granted => node[t].votedFor \in {None, m.from}
      BY <1>3 DEF MayGrant
    <2>9. Bound(t)'
      <3>1. Copies(t)' \subseteq Copies(t) \cup {x \in {m.from} : granted}
        BY <1>1, <1>6, <2>2, <2>3, <2>6, <2>7 DEF Copies
      <3>2. ASSUME NEW v \in votes, v.voter[1] = t, Grants(v), granted
            PROVE  Fits(t, v.for, m.from)
        <4>1. Fits(t, v.for, node[t].votedFor)
          BY <1>1, <2>6, <3>2 DEF Seat, Bound, Copies
        <4>2. v.for # None
          BY <1>1, <3>2, NoneAssumption DEF Typed, Vote, Procs
        <4> QED BY <2>8, <3>2, <4>1, <4>2 DEF Fits
      <3> QED BY <1>6, <2>6, <3>1, <3>2 DEF Seat, Bound
    <2>10. Granting(t)'
      BY <2>2, <2>3, <2>6, <2>7, <2>8 DEF Granting
    <2>11. Looping(t)'
      BY <1>1, <1>6, <2>6, <2>7 DEF Seat, Looping, Given
    <2>12. Loyal(t)'
      BY <1>1, <1>6, <2>2, <2>3, <2>4, <2>6, <2>7, <2>8 DEF Seat, Loyal
    <2>13. Counting(t)'
      BY <2>2, <2>3, <2>6 DEF Counting
    <2>14. Tallied(t)'
      BY <1>1, <1>6, <2>6, <2>7 DEF Seat, Tallied, Between, Given
    <2>15. Seat(t)'
      BY <2>6, <2>9, <2>10, <2>11, <2>12, <2>13, <2>14 DEF Seat
    <2> QED BY <1>6, <2>6, <2>15, NoVoteInvariant
  <1> QED BY <1>7, <1>8, <1>9

\* VotedFor.Store(candidate), and the timer.
LEMMA StoreVoteKeeps == ASSUME IInv, NEW t \in Seats, StoreVote(t) PROVE IInv'
  <1>1. /\ Up(t) /\ node[t].task.kind = "decided" /\ node[t].task.granted
        /\ UNCHANGED <<disk, chan, votes, overtaken, late>>
    BY DEF StoreVote, races
  <1>2. /\ Typed /\ IsNode(node[t]) /\ IsTask(node[t].task) /\ Seat(t)
    BY <1>1, UpFacts
  <1>3. PICK peer : peer = node[t].task.peer
    OBVIOUS
  <1>4. peer \in Procs /\ peer # None
    BY <1>1, <1>2, <1>3, NoneAssumption DEF IsTask, Procs
  <1>5. PICK waiting : waiting = Reset(node[t])
    OBVIOUS
  <1>6. /\ IsNode(waiting)
        /\ \A f \in NodeFields \ {"timer"} : waiting[f] = node[t][f]
        /\ waiting.timer = IF node[t].step = "idle" THEN "lost" ELSE node[t].timer
    BY <1>2, <1>5, ResetFacts
  <1>7. PICK task : task = [node[t].task EXCEPT !.kind = "stored"]
    OBVIOUS
  <1>8. IsTask(task) /\ task.kind = "stored" /\ task.peer = peer /\ task.granted
    BY <1>1, <1>2, <1>3, <1>4, <1>7 DEF IsTask
  <1>9. waiting.task = node[t].task
    BY <1>6 DEF NodeFields
  <1>10. PICK nd : nd = [waiting EXCEPT !.votedFor = peer, !.task = task]
    OBVIOUS
  <1>11. /\ IsNode(nd) /\ nd.votedFor = peer /\ nd.task = task
         /\ \A f \in NodeFields \ {"votedFor", "task"} : nd[f] = waiting[f]
    BY <1>4, <1>6, <1>8, <1>10 DEF IsNode, NodeFields
  <1>12. node' = [node EXCEPT ![t] = nd]
    BY <1>3, <1>5, <1>7, <1>9, <1>10 DEF StoreVote
  <1>13. ChanMoves(t)
    BY <1>1, <1>2, NoQueueMoves
  <1>14. \A f \in NodeFields \ {"votedFor", "task", "timer"} : nd[f] = node[t][f]
    BY <1>6, <1>11
  <1>15. /\ OwnStep(t) /\ node'[t] = nd /\ Up(t)' /\ Id(t)' = Id(t)
         /\ Started(t)'
         /\ nd.saved = node[t].saved
         /\ nd.step = node[t].step /\ nd.campaign = node[t].campaign
         /\ nd.electionTerm = node[t].electionTerm
    BY <1>1, <1>11, <1>12, <1>13, <1>14, TaskIsOwn DEF NodeFields
  <1>16. /\ nd.voters = node[t].voters
         /\ nd.timer = IF node[t].step = "idle" THEN "lost" ELSE node[t].timer
    BY <1>6, <1>11 DEF NodeFields
  <1>17. node[t].votedFor \in {peer, Id(t), None}
    BY <1>1, <1>2, <1>3 DEF Seat, Granting
  <1>18. Bound(t)'
    <2>1. Copies(t)' \subseteq Copies(t)
      BY <1>1, <1>3, <1>8, <1>11, <1>15 DEF Copies
    <2> QED BY <1>1, <1>2, <2>1 DEF Seat, Bound
  <1>19. node[t].step = "write" => node[t].saved.votedFor \in {peer, Id(t)}
    BY <1>1, <1>2, <1>17 DEF Seat, Looping
  <1>20. Granting(t)'
    BY <1>8, <1>11, <1>15, <1>19 DEF Granting
  <1>21. Looping(t)'
    BY <1>1, <1>2, <1>4, <1>11, <1>15, <1>19 DEF Seat, Looping, Given
  <1>22. Loyal(t)'
    <2>1. SUFFICES ASSUME Id(t) \notin overtaken
                   PROVE  /\ \A v \in votes : v.voter = Id(t) =>
                                /\ v.for = peer
                                /\ v.for # Id(t) => nd.timer = "lost" /\ nd.step = "idle"
                          /\ peer # Id(t) => nd.step = "idle" /\ nd.timer = "lost"
      BY <1>1, <1>8, <1>11, <1>15 DEF Loyal
    <2>2. peer # Id(t) => node[t].step = "idle" /\ node[t].votedFor \in {None, peer}
      BY <1>1, <1>2, <1>3, <2>1 DEF Seat, Loyal
    <2>3. \A v \in votes : v.voter = Id(t) =>
              /\ v.for = node[t].votedFor
              /\ v.for # Id(t) => node[t].timer = "lost" /\ node[t].step = "idle"
      BY <1>1, <1>2, <2>1 DEF Seat, Loyal
    <2>4. \A v \in votes : v.for # None
      BY <1>2, NoneAssumption DEF Typed, Vote, Procs
    <2> QED BY <1>15, <1>16, <1>17, <2>2, <2>3, <2>4
  <1>23. Counting(t)'
    BY <1>8, <1>11, <1>15 DEF Counting
  <1>24. Tallied(t)'
    BY <1>1, <1>2, <1>15, <1>16 DEF Seat, Tallied, Between, Given
  <1>25. Seat(t)'
    BY <1>15, <1>18, <1>20, <1>21, <1>22, <1>23, <1>24 DEF Seat
  <1> QED BY <1>1, <1>15, <1>25, NoVoteInvariant

\* persistState of the handler reads the fields.
LEMMA ReadDecisionKeeps == ASSUME IInv, NEW t \in Seats, ReadDecision(t) PROVE IInv'
  <1>1. /\ Up(t) /\ node[t].task.kind \in {"decided", "stored"}
        /\ node[t].task.granted => node[t].task.kind = "stored"
        /\ UNCHANGED <<disk, chan, votes, overtaken, late>>
    BY DEF ReadDecision, races
  <1>2. Typed /\ IsNode(node[t]) /\ IsTask(node[t].task) /\ Seat(t)
    BY <1>1, UpFacts
  <1>3. PICK read : /\ read = Ballot(node[t]) /\ IsBallot(read)
                    /\ read.votedFor = node[t].votedFor
    BY <1>2, BallotFacts
  <1>4. PICK task : task = [node[t].task EXCEPT !.kind = "read", !.saved = read]
    OBVIOUS
  <1>5. /\ IsTask(task) /\ task.kind = "read" /\ task.saved = read
        /\ task.peer = node[t].task.peer /\ task.granted = node[t].task.granted
    BY <1>1, <1>2, <1>3, <1>4 DEF IsTask
  <1>6. PICK nd : nd = [node[t] EXCEPT !.task = task]
    OBVIOUS
  <1>7. /\ IsNode(nd) /\ nd.task = task
        /\ \A f \in NodeFields \ {"task"} : nd[f] = node[t][f]
    BY <1>2, <1>5, <1>6 DEF IsNode, NodeFields
  <1>8. node' = [node EXCEPT ![t] = nd]
    BY <1>2, <1>3, <1>4, <1>6 DEF ReadDecision, Typed, IsNode, NodeFields
  <1>9. ChanMoves(t)
    BY <1>1, <1>2, NoQueueMoves
  <1>10. /\ OwnStep(t) /\ node'[t] = nd /\ Up(t)' /\ Id(t)' = Id(t)
         /\ Started(t)'
         /\ nd.saved = node[t].saved
         /\ nd.step = node[t].step /\ nd.campaign = node[t].campaign
         /\ nd.electionTerm = node[t].electionTerm
    BY <1>1, <1>7, <1>8, <1>9, TaskIsOwn DEF NodeFields
  <1>11. /\ nd.voters = node[t].voters /\ nd.timer = node[t].timer
         /\ nd.votedFor = node[t].votedFor
    BY <1>7 DEF NodeFields
  <1>12. Bound(t)'
    <2>1. Copies(t)' \subseteq Copies(t)
      BY <1>1, <1>3, <1>5, <1>7, <1>10, <1>11 DEF Copies
    <2> QED BY <1>1, <1>2, <2>1 DEF Seat, Bound
  <1>13. Granting(t)'
    BY <1>1, <1>2, <1>3, <1>5, <1>7, <1>10, <1>11 DEF Seat, Granting
  <1>14. Looping(t)'
    BY <1>1, <1>2, <1>10, <1>11 DEF Seat, Looping, Given
  <1>15. Loyal(t)'
    BY <1>1, <1>2, <1>5, <1>7, <1>10, <1>11 DEF Seat, Loyal
  <1>16. Counting(t)'
    BY <1>5, <1>7, <1>10 DEF Counting
  <1>17. Tallied(t)'
    BY <1>1, <1>2, <1>10, <1>11 DEF Seat, Tallied, Between, Given
  <1>18. Seat(t)'
    BY <1>10, <1>12, <1>13, <1>14, <1>15, <1>16, <1>17 DEF Seat
  <1> QED BY <1>1, <1>10, <1>18, NoVoteInvariant

\* The file is written, and the reply goes out: the one step in which a vote is
\* granted.
LEMMA AnswerVoteKeeps == ASSUME IInv, NEW t \in Seats, AnswerVote(t) PROVE IInv'
  <1>1. Up(t) /\ node[t].task.kind = "read" /\ UNCHANGED <<overtaken, late>>
    BY DEF AnswerVote, races
  <1>2. /\ Typed /\ IsNode(node[t]) /\ node[t].status = "up" /\ Seat(t)
        /\ Id(t) \in Procs /\ Id(t)[1] = t /\ Id(t) # None
    BY <1>1, UpFacts
  <1>3. PICK task : task = node[t].task
    OBVIOUS
  <1>4. /\ IsTask(task) /\ task.kind = "read" /\ task.peer \in Procs
        /\ task.term \in Nat /\ task.granted \in BOOLEAN /\ IsBallot(task.saved)
    BY <1>1, <1>2, <1>3 DEF IsNode, IsTask
  <1>5. PICK nd : nd = [node[t] EXCEPT !.task = NoTask]
    OBVIOUS
  <1>6. IsTask(NoTask)
    BY DEF IsTask, NoTask, IsBallot, NoVote
  <1>7. /\ IsNode(nd) /\ nd.task = NoTask
        /\ \A f \in NodeFields \ {"task"} : nd[f] = node[t][f]
    BY <1>2, <1>5, <1>6 DEF IsNode, NodeFields
  <1>8. PICK vote \in Vote :
           /\ vote = [voter |-> Id(t), term |-> task.term, for |-> task.peer]
           /\ vote.voter = Id(t) /\ vote.term = task.term /\ vote.for = task.peer
    BY <1>2, <1>4, VoteFields
  <1>9. PICK reached : reached = [node[t] EXCEPT !.links = @ \cap {task.peer[1]}]
    OBVIOUS
  <1>10. PICK m : m = [type |-> "VoteResponse", from |-> Id(t), term |-> task.term,
                       granted |-> task.granted]
    OBVIOUS
  <1>11. /\ disk' = [disk EXCEPT ![t] = task.saved]
         /\ node' = [node EXCEPT ![t] = nd]
         /\ Broadcast(t, reached, m)
    <2>1. node' = [node EXCEPT ![t].task = NoTask]
      BY DEF AnswerVote
    <2>2. node' = [node EXCEPT ![t] = nd]
      BY <1>5, <2>1
    <2> QED BY <1>3, <1>9, <1>10, <2>2 DEF AnswerVote
  <1>12. votes' = votes \cup {v \in {vote} : task.granted}
    <2>1. votes' = votes \cup {[voter |-> Id(t), term |-> task.term, for |-> p] :
                               p \in {q \in {task.peer} : task.granted}}
      BY <1>3 DEF AnswerVote
    <2> QED BY <1>8, <2>1
  <1>13. /\ m \in Message /\ m.type = "VoteResponse" /\ m.from = Id(t)
         /\ m.term = task.term /\ m.granted = task.granted
    BY <1>2, <1>4, <1>10 DEF Message
  <1>14. ChanMoves(t)
    <2>1. reached.links \subseteq {task.peer[1]}
      BY <1>2, <1>9 DEF IsNode, NodeFields
    <2>2. ASSUME NEW b \in reached.links \cap Seats PROVE Says(b, m)
      <3>1. b = task.peer[1]
        BY <2>1
      <3>2. Grant(m) => Given(m.from, m.term, b)'
        BY <1>8, <1>12, <1>13, <3>1 DEF Grant, Given
      <3> QED BY <1>13, <3>2 DEF Says
    <2> QED BY <1>2, <1>11, <2>2, BroadcastMoves
  <1>15. /\ nd.status = "up" /\ nd.starts = node[t].starts
         /\ nd.votedFor = node[t].votedFor /\ nd.saved = node[t].saved
         /\ nd.step = node[t].step /\ nd.campaign = node[t].campaign
         /\ nd.timer = node[t].timer
         /\ nd.electionTerm = node[t].electionTerm /\ nd.voters = node[t].voters
    BY <1>2, <1>7 DEF NodeFields
  <1>16. /\ OwnStep(t) /\ node'[t] = nd /\ Up(t)' /\ Id(t)' = Id(t)
    <2>1. votes' = votes \/ \E v \in Vote : v.voter = Id(t) /\ votes' = votes \cup {v}
      BY <1>8, <1>12
    <2>2. \E d : IsBallot(d) /\ disk' = [disk EXCEPT ![t] = d]
      BY <1>4, <1>11
    <2> QED BY <1>1, <1>7, <1>11, <1>14, <1>15, <2>1, <2>2, MoveIsOwn
  <1>17. disk'[t] = task.saved
    BY <1>2, <1>11 DEF Typed
  \* The three copies of the vote that remain stand by the candidate.
  <1>18. task.granted =>
            /\ node[t].votedFor \in {task.peer, Id(t)}
            /\ node[t].step = "write" => node[t].saved.votedFor \in {task.peer, Id(t)}
            /\ task.saved.votedFor \in {task.peer, Id(t)}
    BY <1>1, <1>2, <1>3 DEF Seat, Granting
  <1>19. Copies(t)' \subseteq {task.saved.votedFor, node[t].votedFor}
                              \cup {x \in {node[t].saved.votedFor} : node[t].step = "write"}
    BY <1>7, <1>15, <1>16, <1>17 DEF Copies, NoTask
  <1>20. Copies(t)' \subseteq Copies(t)
    BY <1>1, <1>3, <1>19 DEF Copies
  <1>21. task.granted => \A x \in Copies(t)' : Fits(t, task.peer, x)
    BY <1>2, <1>18, <1>19 DEF Fits
  <1>22. Bound(t)'
    <2>1. ASSUME NEW v \in votes', v.voter[1] = t, Grants(v)
          PROVE  \A x \in Copies(t)' : Fits(t, v.for, x)
      <3>1. CASE v \in votes
        BY <1>2, <1>20, <2>1, <3>1 DEF Seat, Bound
      <3>2. CASE task.granted /\ v = vote
        BY <1>8, <1>21, <3>2
      <3> QED BY <1>12, <3>1, <3>2
    <2> QED BY <2>1 DEF Bound, Grants
  <1>23. Started(t)'
    BY <1>2, <1>8, <1>12, <1>15, <1>16 DEF Seat, Started, Id, IsNode
  <1>24. Granting(t)' /\ Counting(t)'
    BY <1>7, <1>16 DEF Granting, Counting, NoTask
  <1>25. Looping(t)'
    BY <1>1, <1>2, <1>12, <1>15, <1>16 DEF Seat, Looping, Given
  <1>26. (task.granted /\ Id(t) \notin overtaken) =>
            /\ task.peer = node[t].votedFor
            /\ task.peer # Id(t) => node[t].timer = "lost" /\ node[t].step = "idle"
    BY <1>1, <1>2, <1>3, <1>4, <1>18 DEF Seat, Loyal
  <1>27. \A v \in votes' : (v.voter = Id(t) /\ Id(t) \notin overtaken) =>
            /\ v.for = node[t].votedFor
            /\ v.for # Id(t) => node[t].timer = "lost" /\ node[t].step = "idle"
    BY <1>1, <1>2, <1>8, <1>12, <1>26 DEF Seat, Loyal
  <1>28. Loyal(t)'
    BY <1>1, <1>7, <1>15, <1>16, <1>27 DEF Loyal, NoTask
  <1>29. Tallied(t)'
    BY <1>1, <1>2, <1>12, <1>15, <1>16 DEF Seat, Tallied, Between, Given
  <1>30. Seat(t)'
    BY <1>22, <1>23, <1>24, <1>25, <1>28, <1>29 DEF Seat
  <1>31. OneGrant'
    <2>1. ASSUME NEW v \in votes, v.voter[1] = t, Grants(v), task.granted, Grants(vote)
          PROVE  v.for = task.peer
      <3>1. node[t].task.peer \in Copies(t)
        BY <1>1, <1>3, <2>1 DEF Copies
      <3>2. Fits(t, v.for, task.peer)
        BY <1>2, <1>3, <2>1, <3>1 DEF Seat, Bound
      <3> QED BY <1>2, <1>8, <2>1, <3>2 DEF Fits, Grants
    <2>2. ASSUME NEW v \in votes', NEW w \in votes', v.voter[1] = w.voter[1],
                 Grants(v), Grants(w)
          PROVE  v.for = w.for
      <3>1. CASE v \in votes /\ w \in votes
        BY <2>2, <3>1 DEF IInv, OneGrant
      <3>2. \A x \in votes' : x \in votes \/ (task.granted /\ x = vote)
        BY <1>12
      <3> QED BY <1>2, <1>8, <2>1, <2>2, <3>1, <3>2
    <2> QED BY <2>2 DEF OneGrant, Grants
  <1>32. OneCandidate'
    <2>1. ASSUME NEW v \in votes', NEW w \in votes', v.voter = w.voter,
                 v.voter \notin overtaken
          PROVE  v.for = w.for
      <3>1. CASE v.voter = Id(t)
        BY <1>27, <2>1, <3>1
      <3>2. CASE v.voter # Id(t)
        <4>1. v \in votes /\ w \in votes
          BY <1>8, <1>12, <2>1, <3>2
        <4> QED BY <2>1, <4>1 DEF IInv, OneCandidate
      <3> QED BY <3>1, <3>2
    <2> QED BY <1>1, <2>1 DEF OneCandidate
  <1> QED BY <1>16, <1>30, <1>31, <1>32, OwnStepInvariant

\* handleVoteResponse: the answer will be counted, or not.
LEMMA HandleVoteResponseKeeps ==
    ASSUME IInv, NEW s \in Seats, NEW t \in Seats, HandleVoteResponse(s, t)
    PROVE  IInv'
  <1>1. PICK m \in Message :
          /\ m = Head(chan[s][t]) /\ m.type = "VoteResponse" /\ chan[s][t] # <<>>
          /\ Grant(m) => Given(m.from, m.term, t)
          /\ Up(t) /\ Typed /\ IsNode(node[t]) /\ node[t].task = NoTask
    BY ArrivedFacts DEF HandleVoteResponse
  <1>2. m.from \in Procs /\ m.term \in Nat /\ Seat(t)
    BY <1>1, MessageFields, UpFacts
  <1>3. PICK count : count = [NoTask EXCEPT !.kind = "count", !.peer = m.from, !.term = m.term,
                                !.saved = [NoVote EXCEPT !.term = node[t].electionTerm]]
    OBVIOUS
  <1>4. PICK todo : todo = IF Counts(node[t], m) /\ m.granted THEN count ELSE NoTask
    OBVIOUS
  <1>5. PICK nd : nd = [node[t] EXCEPT !.task = todo]
    OBVIOUS
  <1>6. UNCHANGED <<disk, votes, late>>
    BY DEF HandleVoteResponse
  <1>7. PanicAt(t) \/ (Handle(s, t, nd, Nothing) /\ UNCHANGED overtaken)
    BY <1>1, <1>3, <1>4, <1>5 DEF HandleVoteResponse
  <1>8. CASE PanicAt(t)
    BY <1>6, <1>8, DownKeeps DEF PanicAt
  <1>9. CASE Handle(s, t, nd, Nothing) /\ UNCHANGED overtaken
    <2>1. IsTask(NoTask) /\ ~NoTask.granted /\ NoTask.kind = "none"
      BY DEF IsTask, NoTask, IsBallot, NoVote
    <2>2. /\ IsTask(count) /\ ~count.granted /\ count.kind = "count"
          /\ count.peer = m.from /\ count.term = m.term
          /\ count.saved.term = node[t].electionTerm
      <3>1. /\ IsBallot([NoVote EXCEPT !.term = node[t].electionTerm])
            /\ [NoVote EXCEPT !.term = node[t].electionTerm].term = node[t].electionTerm
        BY <1>1 DEF IsBallot, NoVote, IsNode
      <3> QED BY <1>2, <1>3, <2>1, <3>1 DEF IsTask, NoTask
    <2>3. /\ IsTask(todo) /\ ~todo.granted /\ todo.kind \in {"none", "count"}
          /\ todo.kind = "count" => /\ Given(todo.peer, todo.term, t)
                                    /\ todo.saved.term = todo.term
      BY <1>1, <1>4, <2>1, <2>2 DEF Grant, Counts
    <2>4. /\ IsNode(nd) /\ nd.task = todo
          /\ \A f \in NodeFields \ {"task"} : nd[f] = node[t][f]
      BY <1>1, <1>5, <2>3 DEF IsNode, NodeFields
    <2>5. ChanMoves(t) /\ node' = [node EXCEPT ![t] = nd]
      BY <1>1, <1>9, NothingMoves DEF Handle
    <2>6. /\ OwnStep(t) /\ node'[t] = nd /\ Up(t)' /\ Id(t)' = Id(t)
          /\ Started(t)'
          /\ nd.saved = node[t].saved
          /\ nd.step = node[t].step /\ nd.campaign = node[t].campaign
          /\ nd.electionTerm = node[t].electionTerm
      BY <1>1, <1>6, <1>9, <2>4, <2>5, TaskIsOwn DEF NodeFields
    <2>7. /\ nd.votedFor = node[t].votedFor /\ nd.timer = node[t].timer
          /\ nd.voters = node[t].voters
      BY <2>4 DEF NodeFields
    <2>8. Bound(t)'
      <3>1. Copies(t)' \subseteq Copies(t)
        BY <1>1, <1>6, <2>3, <2>4, <2>6, <2>7 DEF Copies
      <3> QED BY <1>2, <1>6, <3>1 DEF Seat, Bound
    <2>9. Granting(t)'
      BY <2>3, <2>4, <2>6 DEF Granting
    <2>10. Looping(t)'
      BY <1>1, <1>2, <1>6, <2>6, <2>7 DEF Seat, Looping, Given
    <2>11. Loyal(t)'
      BY <1>1, <1>2, <1>6, <1>9, <2>3, <2>4, <2>6, <2>7 DEF Seat, Loyal
    <2>12. Counting(t)'
      BY <1>6, <2>3, <2>4, <2>6 DEF Counting, Given
    <2>13. Tallied(t)'
      BY <1>1, <1>2, <1>6, <2>6, <2>7 DEF Seat, Tallied, Between, Given
    <2>14. Seat(t)'
      BY <2>6, <2>8, <2>9, <2>10, <2>11, <2>12, <2>13 DEF Seat
    <2> QED BY <1>6, <2>6, <2>14, NoVoteInvariant
  <1> QED BY <1>7, <1>8, <1>9

\* The answer is counted, and may make a leader.
LEMMA CountVoteKeeps == ASSUME IInv, NEW t \in Seats, CountVote(t) PROVE IInv'
  <1>1. /\ Up(t) /\ node[t].task.kind = "count"
        /\ UNCHANGED <<disk, votes, overtaken>>
        /\ late \subseteq late'
        /\ (node[t].task.saved.term # node[t].electionTerm /\ ~Between(node[t]))
              => Id(t) \in late'
    BY DEF CountVote
  <1>2. /\ Typed /\ IsNode(node[t]) /\ Seat(t) /\ Id(t) \in Procs
    BY <1>1, UpFacts
  <1>3. PICK tally : tally = [node[t] EXCEPT !.voters = @ \cup {node[t].task.peer},
                                             !.task = NoTask]
    OBVIOUS
  <1>4. PICK won \in BOOLEAN : won = (/\ ~tally.won /\ tally.state = "candidate"
                                      /\ Cardinality(tally.voters) >= tally.needed)
    OBVIOUS
  <1>5. PICK nd : nd = IF won THEN Leading(t, tally) ELSE tally
    OBVIOUS
  <1>6. PICK reached : reached = [nd EXCEPT !.links = {b \in @ : won}]
    OBVIOUS
  <1>7. node' = [node EXCEPT ![t] = nd] /\ Broadcast(t, reached, HeartbeatOf(t, nd))
    BY <1>3, <1>4, <1>5, <1>6 DEF CountVote
  <1>8. IsTask(NoTask)
    BY DEF IsTask, NoTask, IsBallot, NoVote
  <1>9. /\ IsNode(tally) /\ tally.task = NoTask
        /\ tally.voters = node[t].voters \cup {node[t].task.peer}
        /\ \A f \in NodeFields \ {"voters", "task"} : tally[f] = node[t][f]
    BY <1>2, <1>3, <1>8 DEF IsNode, NodeFields
  <1>10. /\ IsNode(nd)
         /\ \A f \in NodeFields \ {"won", "state", "leader", "leaderTerm"} :
               nd[f] = tally[f]
    BY <1>2, <1>5, <1>9, LeadingFacts
  <1>11. ChanMoves(t)
    BY <1>2, <1>7, <1>10, HeartbeatSays, BroadcastMoves
  <1>12. /\ nd.task = NoTask /\ nd.voters = node[t].voters \cup {node[t].task.peer}
         /\ nd.votedFor = node[t].votedFor /\ nd.timer = node[t].timer
         /\ \A f \in {"status", "starts", "saved", "step", "campaign",
                      "electionTerm"} : nd[f] = node[t][f]
    BY <1>9, <1>10 DEF NodeFields
  <1>13. /\ OwnStep(t) /\ node'[t] = nd /\ Up(t)' /\ Id(t)' = Id(t)
         /\ Started(t)'
         /\ nd.saved = node[t].saved
         /\ nd.step = node[t].step /\ nd.campaign = node[t].campaign
         /\ nd.electionTerm = node[t].electionTerm
    BY <1>1, <1>7, <1>10, <1>11, <1>12, TaskIsOwn
  <1>14. Bound(t)'
    <2>1. Copies(t)' \subseteq Copies(t)
      BY <1>1, <1>12, <1>13 DEF Copies, NoTask
    <2> QED BY <1>1, <1>2, <2>1 DEF Seat, Bound
  <1>15. Granting(t)' /\ Counting(t)'
    BY <1>12, <1>13 DEF Granting, Counting, NoTask
  <1>16. Looping(t)'
    BY <1>1, <1>2, <1>12, <1>13 DEF Seat, Looping, Given
  <1>17. Loyal(t)'
    BY <1>1, <1>2, <1>12, <1>13 DEF Seat, Loyal, NoTask
  <1>18. Tallied(t)'
    <2>1. SUFFICES ASSUME ~Between(nd), Id(t) \notin late', NEW v \in nd.voters
                   PROVE  Given(v, nd.electionTerm, t)
      BY <1>1, <1>13 DEF Tallied, Given
    <2>2. ~Between(node[t])
      BY <1>13, <2>1 DEF Between
    <2>3. CASE v \in node[t].voters
      BY <1>1, <1>2, <1>13, <2>1, <2>2, <2>3 DEF Seat, Tallied
    <2>4. CASE v = node[t].task.peer
      BY <1>1, <1>2, <1>13, <2>1, <2>2, <2>4 DEF Seat, Counting
    <2> QED BY <1>12, <2>3, <2>4
  <1>19. Seat(t)'
    BY <1>13, <1>14, <1>15, <1>16, <1>17, <1>18 DEF Seat
  <1> QED BY <1>1, <1>13, <1>19, NoVoteInvariant

-----------------------------------------------------------------------------
\* Nothing has started: no votes, no messages, no terms.
LEMMA InitHolds == ASSUME Init PROVE IInv
  <1>1. PICK gone : gone = Gone(0, "down")
    OBVIOUS
  <1>2. /\ IsNode(gone) /\ gone.status = "down"
    BY <1>1 DEF Gone, Fresh, NoVote, NoTask, IsNode, IsTask, IsBallot, NodeFields
  <1>3. \A s \in Seats : node[s] = gone /\ ~Up(s)
    BY <1>1, <1>2 DEF Init, Up
  <1>4. IsBallot(NoVote)
    BY DEF IsBallot, NoVote
  <1>5. /\ \A s \in Seats : disk[s] = NoVote
        /\ \A a, b \in Seats : chan[a][b] = <<>>
        /\ votes = {}
        /\ DOMAIN node = Seats /\ DOMAIN disk = Seats
        /\ DOMAIN chan = Seats /\ \A a \in Seats : DOMAIN chan[a] = Seats
    BY DEF Init
  <1>6. Typed
    BY <1>2, <1>3, <1>4, <1>5, EmptyQueue DEF Typed
  <1>7. Messages
    BY <1>5, EmptyQueue DEF Messages, In
  <1>8. \A s \in Seats : Seat(s)
    BY <1>3, <1>5 DEF Seat, Bound, Started, Granting, Looping, Loyal, Counting, Tallied
  <1> QED BY <1>5, <1>6, <1>7, <1>8 DEF IInv, OneGrant, OneCandidate

\* Every step keeps the invariant.
LEMMA NextKeeps == ASSUME IInv, [Next]_vars PROVE IInv'
  <1>1. CASE UNCHANGED vars
    <2>1. UNCHANGED <<node, disk, chan, votes, overtaken, late>>
      BY <1>1 DEF vars
    <2>2. \A a \in Seats : Seat(a)'
      BY <2>1, SeatKept DEF IInv, SameSeat, Up
    <2> QED BY <2>1, <2>2 DEF IInv, Typed, Messages, In, Given, OneGrant, OneCandidate
  <1>2. ASSUME NEW s \in Seats, Start(s) PROVE IInv'
    BY <1>2, StartKeeps
  <1>3. ASSUME NEW s \in Seats, Crash(s) PROVE IInv'
    BY <1>3, DownKeeps DEF Crash, races
  <1>4. ASSUME NEW s \in Seats, Heartbeat(s) PROVE IInv'
    BY <1>4, HeartbeatKeeps
  <1>5. ASSUME NEW s \in Seats, LeaderTimeout(s) PROVE IInv'
    BY <1>5, LeaderTimeoutKeeps
  <1>6. ASSUME NEW s \in Seats, BeginElection(s) PROVE IInv'
    BY <1>6, BeginElectionKeeps
  <1>7. ASSUME NEW s \in Seats, Campaign(s) PROVE IInv'
    BY <1>7, RaiseTermKeeps, VoteForSelfKeeps, ReadBallotKeeps, WriteBallotKeeps,
       MoveElectionTermKeeps, ForgetWinKeeps, EmptyTallyKeeps DEF Campaign
  <1>8. ASSUME NEW s \in Seats, RequestVotes(s) \/ RequestVotesFails(s) PROVE IInv'
    BY <1>8, RequestVotesKeeps, RequestVotesFailsKeeps
  <1>9. ASSUME NEW t \in Seats, GoOn(t) PROVE IInv'
    BY <1>9, StoreVoteKeeps, ReadDecisionKeeps, AnswerVoteKeeps, CountVoteKeeps DEF GoOn
  <1>10. ASSUME NEW s \in Seats, NEW m \in Ids, Evict(s, m) PROVE IInv'
    BY <1>10, EvictKeeps
  <1>11. ASSUME NEW s \in Seats, NEW t \in Seats, Lose(s, t) PROVE IInv'
    BY <1>11, LoseKeeps
  <1>12. ASSUME NEW s \in Seats, NEW t \in Seats, Receive(s, t) PROVE IInv'
    BY <1>12, HandleJoinRequestKeeps, HandleJoinResponseKeeps, HandleNodeUpdateKeeps,
       HandleHeartbeatKeeps, HandleVoteRequestKeeps, HandleVoteResponseKeeps DEF Receive
  <1> QED BY <1>1, <1>2, <1>3, <1>4, <1>5, <1>6, <1>7, <1>8, <1>9, <1>10, <1>11, <1>12
          DEF Next

(***************************************************************************)
(* The inductive invariant: what processes, files and messages say of the  *)
(* votes given agrees at all times, through every interleaving of          *)
(* startElection with the vote handlers, crashes, terms taken back and     *)
(* lost messages (cluster.go:223-257, 413-462, handlers.go:230-323).       *)
(***************************************************************************)
THEOREM Invariance == Spec => []IInv
  <1>1. Init => IInv
    BY InitHolds
  <1>2. IInv /\ [Next]_vars => IInv'
    BY NextKeeps
  <1> QED BY <1>1, <1>2, PTL DEF Spec

(***************************************************************************)
(* A seat grants its vote to one candidate of another seat, whatever       *)
(* crashes, restarts and terms taken back; and a process in whose elections*)
(* no grant fell votes once in a term (startElection, handleVoteRequest,   *)
(* persistState).                                                          *)
(***************************************************************************)
THEOREM OneVotePerTerm == Spec => []VotesOncePerTerm
  <1>1. ASSUME IInv PROVE VotesOncePerTerm
    <2>1. ASSUME NEW v \in votes, NEW w \in votes, v.voter = w.voter, v.term = w.term,
                 v.voter \notin overtaken
          PROVE  v = w
      <3>1. v \in Vote /\ w \in Vote /\ v.for = w.for
        BY <1>1, <2>1 DEF IInv, Typed, OneCandidate
      <3> QED BY <2>1, <3>1 DEF Vote
    <2> QED BY <1>1, <2>1 DEF VotesOncePerTerm, IInv, OneGrant
  <1> QED BY <1>1, Invariance, PTL

(***************************************************************************)
(* More than that: a process in whose elections no grant fell gives all    *)
(* its votes, in whatever terms, to one candidate, for after a grant its   *)
(* timer is lost and it never campaigns (StoreVote, resetElectionTimer).   *)
(***************************************************************************)
THEOREM OneCandidatePerProcess == Spec => []OneCandidate
  <1>1. IInv => OneCandidate
    BY DEF IInv
  <1> QED BY <1>1, Invariance, PTL

(***************************************************************************)
(* Every counted vote was given, in the term the tally stands for, to a    *)
(* process of the seat, but for the answers counted across a move of       *)
(* electionTerm (handleVoteResponse, startElection).                       *)
(***************************************************************************)
THEOREM HonestTally == Spec => []TallyIsHonest
  <1>1. ASSUME IInv PROVE TallyIsHonest
    <2>1. \A s \in Seats : Tallied(s)
      BY <1>1 DEF IInv, Seat
    <2> QED BY <2>1 DEF Tallied, TallyIsHonest, Given
  <1> QED BY <1>1, Invariance, PTL

(***************************************************************************)
(* Once a grant has gone out, the voter's file names the candidate until a *)
(* process of the seat votes for itself: neither of the two persistStates  *)
(* that may be half-way can write another vote (handleVoteRequest,         *)
(* persistState).                                                          *)
(***************************************************************************)
THEOREM DurableGrants == Spec => []GrantsAreDurable
  <1>1. ASSUME IInv PROVE GrantsAreDurable
    <2>1. ASSUME NEW v \in votes, Grants(v)
          PROVE  LET kept == disk[v.voter[1]].votedFor
                 IN  kept = v.for \/ (kept # None /\ kept[1] = v.voter[1])
      <3>1. PICK s \in Seats : s = v.voter[1]
        BY <1>1 DEF IInv, Typed, Vote, Procs
      <3>2. disk[s].votedFor \in Copies(s)
        BY DEF Copies
      <3>3. Fits(s, v.for, disk[s].votedFor)
        BY <1>1, <2>1, <3>1, <3>2 DEF IInv, Seat, Bound
      <3> QED BY <3>1, <3>3 DEF Fits
    <2> QED BY <2>1 DEF GrantsAreDurable
  <1> QED BY <1>1, Invariance, PTL

=============================================================================
