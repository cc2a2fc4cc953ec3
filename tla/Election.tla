------------------------------ MODULE Election ------------------------------
(***************************************************************************)
(* Membership and leader election of internal/cluster: joining through a   *)
(* seed, heartbeats, health checks, terms and votes, the persisted voting  *)
(* state, crashes and restarts.                                            *)
(*                                                                         *)
(* A seat is an address (host and cluster port) with its state file; the   *)
(* processes that run there, one after the other, have ids <<seat, count>> *)
(* (a new NodeID at every start).  In each process three goroutines act:   *)
(* electionLoop, heartbeatLoop and processLoop, which handles the messages *)
(* one by one.  A panic in any of them ends the process: nothing recovers  *)
(* it.                                                                     *)
(*                                                                         *)
(* electionLoop and processLoop share the election fields without a lock.  *)
(* startElection takes one step per store (field step), handleVoteRequest  *)
(* and handleVoteResponse one per group of stores (field task), so either  *)
(* goroutine may act between any two of them.  The other handlers,         *)
(* becomeLeader, and the reads that open a handler are one step each.      *)
(*                                                                         *)
(* Not here: a join under another cluster id, a node taken out by          *)
(* NodeUpdate (nothing sends one), handleAppendEntries (the same), the     *)
(* second connection a joiner keeps to its seed (the same messages again), *)
(* redialling by an old id.                                                *)
(***************************************************************************)
EXTENDS Naturals, FiniteSets, Sequences, FiniteSetsExt

CONSTANTS
    Seats,      \* addresses
    Seed,       \* the one every other joins through
    None,       \* no node id
    MaxEvents,  \* bound: processes started, and messages dropped
    MaxElections, \* bound: elections begun
    MaxQueue,   \* bound: messages waiting before a heartbeat is not added
    MaxBusy     \* bound: processes in the middle of startElection or a vote at once

ASSUME SeedAssumption == Seed \in Seats
ASSUME NoneAssumption == None \notin Seats \X Nat
ASSUME BoundsAssumption == {MaxEvents, MaxElections, MaxQueue, MaxBusy} \subseteq Nat

VARIABLES
    node,    \* the process at each seat
    disk,    \* raft-state file of each seat: currentTerm and votedFor
    chan,    \* chan[s][t]: messages on their way from s to t, in order
    losses,  \* counts dropped messages, for the bound
    votes,   \* history: every vote given
    overtaken, \* history: processes that granted a vote during startElection
    late       \* history: processes that counted an answer after electionTerm moved on

vars == <<node, disk, chan, losses, votes, overtaken, late>>

races == <<overtaken, late>>

Ids == Seats \X (1 .. MaxEvents)

NoVote == [term |-> 0, votedFor |-> None]

\* What processLoop is in the middle of.
NoTask == [kind |-> "none", peer |-> None, term |-> 0, granted |-> FALSE,
           saved |-> NoVote]

\* A Node and the election fields of its ClusterManager, as built by
\* NewClusterManager.
Fresh(starts, d) ==
    [status |-> "up", starts |-> starts,
     term |-> d.term, votedFor |-> d.votedFor,
     state |-> "follower", leader |-> None, leaderTerm |-> 0,
     members |-> {},         \* cm.nodes
     links |-> {},           \* transport.connections, by seat
     timer |-> "armed",      \* "lost": electionLoop waits for a stopped timer
     step |-> "idle",        \* where startElection stands
     campaign |-> 0,         \* its currentTerm
     saved |-> NoVote,       \* what its persistState has read
     task |-> NoTask,
     electionTerm |-> 0, voters |-> {}, needed |-> 0, won |-> FALSE]

Gone(starts, status) == [Fresh(starts, NoVote) EXCEPT !.status = status]

Init == /\ node = [s \in Seats |-> Gone(0, "down")]
        /\ disk = [s \in Seats |-> NoVote]
        /\ chan = [s \in Seats |-> [t \in Seats |-> <<>>]]
        /\ losses = 0
        /\ votes = {} /\ overtaken = {} /\ late = {}

-----------------------------------------------------------------------------
Up(s) == node[s].status = "up"

Id(s) == <<s, node[s].starts>>

\* In the middle of startElection, or of a message about votes.
Busy(s) == node[s].step # "idle" \/ node[s].task # NoTask

MayBegin(s) == Cardinality({t \in Seats \ {s} : Busy(t)}) < MaxBusy

EventsLeft == FoldSet(LAMBDA s, n : node[s].starts + n, losses, Seats) < MaxEvents

\* Mistake: the file keeps the term and forgets the vote.
TermAlone(nd) == [term |-> nd.term, votedFor |-> None]

\* What persistState reads, before it takes stateMu and writes the file.
Ballot(nd) == [term |-> nd.term, votedFor |-> nd.votedFor]

\* resetElectionTimer, from a message handler: it stops the timer whose channel
\* electionLoop is waiting on, unless the loop is in startElection.
Reset(nd) == [nd EXCEPT !.timer = IF nd.step = "idle" THEN "lost" ELSE @]

\* A vote is being granted to another process while startElection runs.
Overtakes(s, nd) ==
    overtaken' = overtaken \cup {i \in {Id(s)} : /\ nd.step # "idle"
                                                /\ nd.task.granted /\ nd.task.peer # i}

\* Broadcast: to every connection.
Broadcast(s, nd, m) ==
    chan' = [chan EXCEPT ![s] = [t \in Seats |->
                IF t \in nd.links THEN Append(@[t], m) ELSE @[t]]]

-----------------------------------------------------------------------------
(***************************************************************************)
(* Processes.                                                              *)
(***************************************************************************)
\* ClusterManager.Start: loadState; then JoinCluster when the process has a
\* seed and reaches it.
Start(s) ==
    /\ node[s].status # "up"
    /\ EventsLeft
    /\ LET joins == s # Seed /\ Up(Seed)
           nd    == Fresh(node[s].starts + 1, disk[s])
       IN  /\ node' = [node EXCEPT ![s] = [nd EXCEPT !.links = IF joins THEN {Seed} ELSE {}]]
           /\ chan' = IF joins
                      THEN [chan EXCEPT ![s][Seed] =
                              Append(@, [type |-> "JoinRequest", from |-> <<s, nd.starts>>])]
                      ELSE chan
    /\ UNCHANGED <<disk, losses, votes, races>>

\* What the process had in memory, and the connections to it, are gone.
Down(s, status) ==
    /\ node' = [t \in Seats |-> IF t = s
                                THEN Gone(node[s].starts, status)
                                ELSE [node[t] EXCEPT !.links = @ \ {s}]]
    /\ chan' = [t \in Seats |-> [chan[t] EXCEPT ![s] = <<>>]]

Crash(s) ==
    /\ Up(s)
    /\ EventsLeft
    /\ Down(s, "down")
    /\ UNCHANGED <<disk, losses, votes, races>>

\* checkNodeHealth: no heartbeat of m for five seconds, because the process is
\* gone or has no connection to s.
Silent(m, s) == ~Up(m[1]) \/ Id(m[1]) # m \/ s \notin node[m[1]].links

Evict(s, m) ==
    /\ Up(s)
    /\ m \in node[s].members
    /\ Silent(m, s)
    /\ node' = [node EXCEPT ![s].members = @ \ {m}]
    /\ UNCHANGED <<disk, chan, losses, votes, races>>

-----------------------------------------------------------------------------
(***************************************************************************)
(* heartbeatLoop and electionLoop.                                         *)
(***************************************************************************)
HeartbeatOf(s, nd) ==
    [type |-> "Heartbeat", from |-> <<s, nd.starts>>, term |-> nd.term,
     leads |-> nd.state = "leader"]

\* Bound: a heartbeat is left out when the queue is long, and when t would learn
\* nothing from it.
Tells(s, t) ==
    /\ t \in node[s].links
    /\ Len(chan[s][t]) < MaxQueue
    /\ \/ node[s].term > node[t].term
       \/ /\ node[s].state = "leader"
          /\ \/ node[t].timer = "armed"
             \/ node[t].leader # Id(s) \/ node[t].leaderTerm # node[s].term

Heartbeat(s) ==
    /\ Up(s)
    /\ \E t \in Seats : Tells(s, t)
    /\ chan' = [chan EXCEPT ![s] = [t \in Seats |->
                   IF Tells(s, t) THEN Append(@[t], HeartbeatOf(s, node[s])) ELSE @[t]]]
    /\ UNCHANGED <<node, disk, losses, votes, races>>

\* The timer of a leader fires for nothing, and is not set again.
LeaderTimeout(s) ==
    /\ Up(s)
    /\ node[s].timer = "armed" /\ node[s].step = "idle"
    /\ node[s].state = "leader"
    /\ node' = [node EXCEPT ![s].timer = "lost"]
    /\ UNCHANGED <<disk, chan, losses, votes, races>>

Begun(s) == node[s].step \in {"raise", "vote"}

ElectionsLeft == Cardinality({v \in votes : v.voter = v.for})
                 + Cardinality({s \in Seats : Begun(s)}) < MaxElections

\* startElection: SetState(candidate).
BeginElection(s) ==
    /\ Up(s)
    /\ node[s].timer = "armed" /\ node[s].step = "idle"
    /\ node[s].state # "leader"
    /\ ElectionsLeft /\ MayBegin(s)
    /\ LET nd == [node[s] EXCEPT !.state = "candidate", !.step = "raise"]
       IN  node' = [node EXCEPT ![s] = nd] /\ Overtakes(s, nd)
    /\ UNCHANGED <<disk, chan, losses, votes, late>>

\* startElection goes from one store to the next.
Moves(s, from, nd) == /\ Up(s) /\ node[s].step = from
                      /\ node' = [node EXCEPT ![s] = nd]
                      /\ UNCHANGED <<chan, losses, races>>

\* CurrentTerm.Add(1).
RaiseTerm(s) == /\ Moves(s, "raise", [node[s] EXCEPT !.term = @ + 1, !.step = "vote"])
                /\ UNCHANGED <<disk, votes>>

\* The term is read back, and VotedFor.Store(self).
VoteForSelf(s) ==
    /\ Moves(s, "vote", [node[s] EXCEPT !.campaign = node[s].term,
                                        !.votedFor = Id(s), !.step = "read"])
    /\ votes' = votes \cup {[voter |-> Id(s), term |-> node[s].term, for |-> Id(s)]}
    /\ UNCHANGED disk

\* persistState: the fields are read, and then the file is written.
ReadBallot(s) ==
    /\ Moves(s, "read", [node[s] EXCEPT !.saved = Ballot(node[s]), !.step = "write"])
    /\ UNCHANGED <<disk, votes>>

WriteBallot(s) ==
    /\ Moves(s, "write", [node[s] EXCEPT !.saved = NoVote, !.step = "term"])
    /\ disk' = [disk EXCEPT ![s] = node[s].saved]
    /\ UNCHANGED votes

\* electionTerm.Store, electionWon.Store(false), and the tally under votersMu.
MoveElectionTerm(s) ==
    /\ Moves(s, "term", [node[s] EXCEPT !.electionTerm = node[s].campaign, !.step = "won"])
    /\ UNCHANGED <<disk, votes>>

ForgetWin(s) == /\ Moves(s, "won", [node[s] EXCEPT !.won = FALSE, !.step = "tally"])
                /\ UNCHANGED <<disk, votes>>

EmptyTally(s) == /\ Moves(s, "tally", [node[s] EXCEPT !.voters = {Id(s)}, !.step = "ask"])
                 /\ UNCHANGED <<disk, votes>>

\* becomeLeader, once per election.
Leading(s, nd) ==
    IF nd.won THEN nd
    ELSE [nd EXCEPT !.won = TRUE, !.state = "leader",
                    !.leader = Id(s), !.leaderTerm = nd.term]

\* The timer is set, and the votes needed counted.
Asking(s, total) == [node[s] EXCEPT !.step = "idle", !.campaign = 0, !.timer = "armed",
                                    !.needed = total \div 2 + 1]

RequestVotes(s) ==
    /\ Up(s)
    /\ node[s].step = "ask"
    /\ LET total == Cardinality(node[s].members) + 1
           nd    == Asking(s, total)
       IN  IF total = 1
           THEN LET leader == Leading(s, nd)
                IN  /\ node' = [node EXCEPT ![s] = leader]
                    /\ Broadcast(s, leader, HeartbeatOf(s, leader))
           ELSE /\ node' = [node EXCEPT ![s] = nd]
                /\ Broadcast(s, nd, [type |-> "VoteRequest", from |-> Id(s),
                                     term |-> node[s].campaign])
    /\ UNCHANGED <<disk, losses, votes, races>>

\* The outgoing queue is full for some peer: Broadcast returns an error.
RequestVotesFails(s) ==
    /\ Up(s)
    /\ node[s].step = "ask"
    /\ node[s].members # {}
    /\ EventsLeft
    /\ losses' = losses + 1
    /\ LET total == Cardinality(node[s].members) + 1
           nd    == Asking(s, total)
       IN  \E reached \in SUBSET nd.links :
              /\ reached # nd.links
              /\ node' = [node EXCEPT ![s] = [nd EXCEPT !.state = "follower"]]
              /\ Broadcast(s, [nd EXCEPT !.links = reached],
                           [type |-> "VoteRequest", from |-> Id(s),
                            term |-> node[s].campaign])
    /\ UNCHANGED <<disk, votes, races>>

-----------------------------------------------------------------------------
(***************************************************************************)
(* processLoop of t takes the next message from s.  The handlers that      *)
(* reset VotedFor do it by VotedFor.Store(nil), and atomic.Value panics on *)
(* nil: the process of t ends there.                                       *)
(***************************************************************************)
Arrived(s, t, type) == /\ Up(t) /\ node[t].task = NoTask
                       /\ chan[s][t] # <<>>
                       /\ Head(chan[s][t]).type = type

\* t goes to nd and sends out[b] to each seat b it is connected to.
Handle(s, t, nd, out) ==
    /\ node' = [node EXCEPT ![t] = nd]
    /\ chan' = [a \in Seats |-> [b \in Seats |->
                   LET rest == IF a = s /\ b = t THEN Tail(chan[a][b]) ELSE chan[a][b]
                   IN  IF a = t /\ b \in nd.links THEN rest \o out[b] ELSE rest]]

Nothing == [b \in Seats |-> <<>>]

Reply(s, m) == [Nothing EXCEPT ![s] = <<m>>]

PanicAt(t) == Down(t, "panicked") /\ UNCHANGED overtaken

\* ConnectToNode succeeds when some process listens at the seat.
Reachable(t, id) == id[1] = t \/ Up(id[1])

Joined(t, nd, ids) ==
    LET found == {id \in ids : Reachable(t, id)}
    IN  [nd EXCEPT !.members = @ \cup found, !.links = @ \cup {id[1] : id \in found}]

\* What a joiner is told: the leader, else "this node as default".
LeaderToTell(t, nd) ==
    IF nd.state # "leader" /\ nd.leader \in nd.members THEN nd.leader ELSE Id(t)

HandleJoinRequest(s, t) ==
    /\ Arrived(s, t, "JoinRequest")
    /\ LET id  == Head(chan[s][t]).from
           nd  == Joined(t, node[t], {id})
           out == [b \in Seats |->
                     (IF b = s THEN <<[type |-> "JoinResponse", term |-> nd.term,
                                       leader |-> LeaderToTell(t, nd),
                                       nodes |-> nd.members \cup {Id(t)}]>>
                      ELSE IF b \in {m[1] : m \in nd.members}
                      THEN <<[type |-> "NodeUpdate", term |-> nd.term, node |-> id]>>
                      ELSE <<>>)]
       IN  Handle(s, t, nd, IF Reachable(t, id) THEN out ELSE Nothing)
    /\ UNCHANGED <<disk, losses, votes, races>>

\* The term is taken over whatever it is, and not written to disk.
HandleJoinResponse(s, t) ==
    /\ Arrived(s, t, "JoinResponse")
    /\ LET m  == Head(chan[s][t])
           nd == [Reset(node[t]) EXCEPT !.term = m.term, !.state = "follower",
                                        !.leader = m.leader]
       IN  Handle(s, t, Joined(t, nd, m.nodes \ {Id(t)}), Nothing)
    /\ UNCHANGED <<disk, losses, votes, races>>

HandleNodeUpdate(s, t) ==
    /\ Arrived(s, t, "NodeUpdate")
    /\ LET m  == Head(chan[s][t])
           nd == [node[t] EXCEPT !.term = IF m.term > @ THEN m.term ELSE @]
       IN  Handle(s, t, Joined(t, nd, {m.node}), Nothing)
    /\ UNCHANGED <<disk, losses, votes, races>>

\* A leader is accepted for a term newer than the last leader's, or again.
AcceptsLeader(nd, m) == m.term > nd.leaderTerm \/ nd.leader \in {None, m.from}

Following(nd, m) ==
    IF ~AcceptsLeader(nd, m) THEN nd
    ELSE IF m.term > nd.leaderTerm \/ nd.leader = None
         THEN [Reset(nd) EXCEPT !.leader = m.from, !.leaderTerm = m.term]
         ELSE IF m.term = nd.leaderTerm THEN Reset(nd) ELSE nd

HandleHeartbeat(s, t) ==
    /\ Arrived(s, t, "Heartbeat")
    /\ LET m  == Head(chan[s][t])
           nd == node[t]
       IN  \/ /\ m.from \in nd.members /\ m.term > nd.term
              /\ PanicAt(t)
           \/ /\ m.from \notin nd.members \/ m.term <= nd.term
              /\ Handle(s, t,
                        IF m.from \in nd.members /\ m.leads /\ m.term = nd.term
                        THEN Following(nd, m) ELSE nd,
                        Nothing)
              /\ UNCHANGED overtaken
    /\ UNCHANGED <<disk, losses, votes, late>>

\* Mistake: the vote is not looked at.
AlwaysGrants(nd, candidate) == TRUE

MayGrant(nd, candidate) == nd.votedFor \in {None, candidate}

\* handleVoteRequest: the term and the vote are read.
HandleVoteRequest(s, t) ==
    /\ Arrived(s, t, "VoteRequest") /\ MayBegin(t)
    /\ LET m  == Head(chan[s][t])
           nd == [node[t] EXCEPT !.task =
                    [NoTask EXCEPT !.kind = "decided", !.peer = m.from, !.term = node[t].term,
                       !.granted = m.term = node[t].term /\ MayGrant(node[t], m.from)]]
       IN  \/ /\ m.term > node[t].term
              /\ PanicAt(t)
           \/ /\ m.term <= node[t].term
              /\ Handle(s, t, nd, Nothing)
              /\ Overtakes(t, nd)
    /\ UNCHANGED <<disk, losses, votes, late>>

\* VotedFor.Store(candidate), and the timer.
StoreVote(t) ==
    /\ Up(t)
    /\ node[t].task.kind = "decided" /\ node[t].task.granted
    /\ node' = [node EXCEPT ![t] = [Reset(node[t]) EXCEPT !.votedFor = node[t].task.peer,
                                                          !.task.kind = "stored"]]
    /\ UNCHANGED <<disk, chan, losses, votes, races>>

\* persistState of the handler reads the fields.
ReadDecision(t) ==
    /\ Up(t)
    /\ \/ node[t].task.kind = "stored"
       \/ node[t].task.kind = "decided" /\ ~node[t].task.granted
    /\ node' = [node EXCEPT ![t].task.kind = "read", ![t].task.saved = Ballot(node[t])]
    /\ UNCHANGED <<disk, chan, losses, votes, races>>

\* The file is written, and then the reply goes out.
AnswerVote(t) ==
    /\ Up(t)
    /\ node[t].task.kind = "read"
    /\ LET task == node[t].task
       IN  /\ disk' = [disk EXCEPT ![t] = task.saved]
           /\ node' = [node EXCEPT ![t].task = NoTask]
           /\ Broadcast(t, [node[t] EXCEPT !.links = @ \cap {task.peer[1]}],
                        [type |-> "VoteResponse", from |-> Id(t), term |-> task.term,
                         granted |-> task.granted])
           /\ votes' = votes \cup {[voter |-> Id(t), term |-> task.term, for |-> p] :
                                   p \in {q \in {task.peer} : task.granted}}
    /\ UNCHANGED <<losses, races>>

\* Mistake: an answer to an earlier election counts too.
CountsAny(nd, m) == nd.state = "candidate" /\ m.term <= nd.electionTerm

Counts(nd, m) == nd.state = "candidate" /\ m.term = nd.electionTerm

\* handleVoteResponse: the state and the terms are looked at.  (saved.term is the
\* electionTerm it looked at, for the history.)
HandleVoteResponse(s, t) ==
    /\ Arrived(s, t, "VoteResponse") /\ MayBegin(t)
    /\ LET m    == Head(chan[s][t])
           todo == IF Counts(node[t], m) /\ m.granted
                   THEN [NoTask EXCEPT !.kind = "count", !.peer = m.from, !.term = m.term,
                                       !.saved = [NoVote EXCEPT !.term = node[t].electionTerm]]
                   ELSE NoTask
       IN  \/ /\ Counts(node[t], m) /\ m.term > node[t].term
              /\ PanicAt(t)
           \/ /\ Counts(node[t], m) => m.term <= node[t].term
              /\ Handle(s, t, [node[t] EXCEPT !.task = todo], Nothing)
              /\ UNCHANGED overtaken
    /\ UNCHANGED <<disk, losses, votes, late>>

\* startElection has moved electionTerm and not yet emptied the tally.
Between(nd) == nd.step \in {"won", "tally"}

\* The answer is counted, and may make the process leader.
CountVote(t) ==
    /\ Up(t)
    /\ node[t].task.kind = "count"
    /\ LET tally == [node[t] EXCEPT !.voters = @ \cup {node[t].task.peer}, !.task = NoTask]
           won   == /\ ~tally.won /\ tally.state = "candidate"
                    /\ Cardinality(tally.voters) >= tally.needed
           nd    == IF won THEN Leading(t, tally) ELSE tally
       IN  /\ node' = [node EXCEPT ![t] = nd]
           /\ Broadcast(t, [nd EXCEPT !.links = {b \in @ : won}], HeartbeatOf(t, nd))
    /\ late' = late \cup {i \in {Id(t)} : /\ node[t].task.saved.term # node[t].electionTerm
                                          /\ ~Between(node[t])}
    /\ UNCHANGED <<disk, losses, votes, overtaken>>

\* A full queue drops a message, silently.
Lose(s, t) ==
    /\ chan[s][t] # <<>>
    /\ EventsLeft
    /\ losses' = losses + 1
    /\ chan' = [chan EXCEPT ![s][t] = Tail(@)]
    /\ UNCHANGED <<node, disk, votes, races>>

Receive(s, t) ==
    \/ HandleJoinRequest(s, t) \/ HandleJoinResponse(s, t) \/ HandleNodeUpdate(s, t)
    \/ HandleHeartbeat(s, t)
    \/ HandleVoteRequest(s, t) \/ HandleVoteResponse(s, t)

\* The steps of startElection, and of a handler that is half-way.
Campaign(s) == \/ RaiseTerm(s) \/ VoteForSelf(s) \/ ReadBallot(s) \/ WriteBallot(s)
               \/ MoveElectionTerm(s) \/ ForgetWin(s) \/ EmptyTally(s)

GoOn(t) == StoreVote(t) \/ ReadDecision(t) \/ AnswerVote(t) \/ CountVote(t)

Next == \/ \E s \in Seats :
              \/ Start(s) \/ Crash(s)
              \/ Heartbeat(s) \/ LeaderTimeout(s)
              \/ BeginElection(s) \/ Campaign(s)
              \/ RequestVotes(s) \/ RequestVotesFails(s)
              \/ GoOn(s)
        \/ \E s \in Seats, m \in Ids : Evict(s, m)
        \/ \E s, t \in Seats : Receive(s, t) \/ Lose(s, t)

Spec == Init /\ [][Next]_vars

(***************************************************************************)
(* Fairness, for the liveness property: a process that stays up runs its   *)
(* goroutines.  Nothing is asked of starts, crashes and lost messages.     *)
(***************************************************************************)
Fairness == \A s \in Seats :
                /\ WF_vars(BeginElection(s)) /\ WF_vars(Campaign(s))
                /\ WF_vars(RequestVotes(s))
                /\ WF_vars(Heartbeat(s)) /\ WF_vars(GoOn(s))
                /\ WF_vars(\E m \in Ids : Evict(s, m))
                /\ \A t \in Seats : WF_vars(Receive(s, t))

FairSpec == Spec /\ Fairness

-----------------------------------------------------------------------------
(***************************************************************************)
(* A seat never grants its vote to two candidates of other seats, across   *)
(* crashes and restarts too, for the vote is never cleared.  A process     *)
(* that grants a vote in a term does not vote for itself in it, unless the *)
(* grant and startElection overlapped: between CurrentTerm.Add and         *)
(* VotedFor.Store(self) (cluster.go:415-419) processLoop may grant the     *)
(* vote of the new term, and the vote for itself follows.                  *)
(***************************************************************************)
Grants(v) == v.for[1] # v.voter[1]

VotesOncePerTerm ==
    \A v, w \in votes :
        /\ (v.voter[1] = w.voter[1] /\ Grants(v) /\ Grants(w)) => v.for = w.for
        /\ (v.voter = w.voter /\ v.term = w.term /\ v.voter \notin overtaken) => v = w

(***************************************************************************)
(* A tally holds only votes that were given in the term it stands for, to  *)
(* a process of its own seat: "Ignore votes from old terms"                *)
(* (handlers.go:289).  Two exceptions are named: a process that looked at  *)
(* an answer before startElection moved electionTerm and counted it        *)
(* afterwards, and the moments in which startElection has moved the term   *)
(* and still has the old tally.  To which process the vote was given is    *)
(* not checked: a vote for one that crashed can reach the next at its      *)
(* address, when an old JoinResponse took that one back to the same term.  *)
(***************************************************************************)
TallyIsHonest ==
    \A s \in Seats : (Up(s) /\ ~Between(node[s]) /\ Id(s) \notin late) =>
        \A v \in node[s].voters :
            \E w \in votes : /\ w.voter = v /\ w.for[1] = s
                             /\ w.term = node[s].electionTerm

(***************************************************************************)
(* Once a grant has gone out, the voter's state file names the candidate   *)
(* until a process of the seat votes for itself: "persist the term/vote    *)
(* decision durably BEFORE replying, so a crash cannot let us grant a      *)
(* second vote in this term after restart" (handlers.go:264-265).  The     *)
(* file's term may be an older one: a JoinResponse takes it back.          *)
(***************************************************************************)
GrantsAreDurable ==
    \A v \in votes : Grants(v) =>
        LET kept == disk[v.voter[1]].votedFor
        IN  kept = v.for \/ (kept # None /\ kept[1] = v.voter[1])

(***************************************************************************)
(* While some process stays up, some process leads again and again: "no    *)
(* single point of failure, automatic leader election and failover"        *)
(* (README.md:15); scripts/cluster-test.sh:229-280 stops the leader and    *)
(* expects a new one.                                                      *)
(***************************************************************************)
FailoverHappens ==
    (\E s \in Seats : <>[](Up(s) /\ ElectionsLeft))
        => []<>(\E s \in Seats : Up(s) /\ node[s].state = "leader")

=============================================================================
