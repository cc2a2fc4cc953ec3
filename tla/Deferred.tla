------------------------------ MODULE Deferred ------------------------------
(***************************************************************************)
(* DEFER and DEFER.CANCEL: the scheduler of internal/store/deferred.go on  *)
(* each node, and the events that carry both commands to the other nodes.  *)
(* A scheduler keeps a map by ID and an index by second; a tick takes what *)
(* is ready out of both under its lock and runs it without.                *)
(*                                                                         *)
(* A text is the sequence of its parts between colons, since an event      *)
(* joins key and arguments by colons and its receiver splits it at them.   *)
(* The command type is one more text, which goes with the arguments.       *)
(*                                                                         *)
(* Home's scheduler keeps no copy of the texts: its strings view the       *)
(* buffer the command was parsed into (deferred_commands.go:263-268), which*)
(* goes back to the pool when the handler returns (server/handler.go:220)  *)
(* and is written over by later commands of any connection.  What they     *)
(* read is therefore chosen when the command runs (Reads).  The event is a *)
(* copy, made in the handler.                                              *)
(***************************************************************************)
EXTENDS Integers, FiniteSets, SequencesExt

CONSTANTS
    Nodes,       \* the nodes of the cluster
    Home,        \* the node whose clients are modelled
    Keys,        \* texts clients use as keys
    Argument,    \* the text of the one argument
    Delays,      \* delays clients ask for, in seconds
    Scraps,      \* texts later commands leave in a buffer
    PerSecond,   \* moments of a second told apart
    MaxDefers,   \* bound: DEFER commands
    MaxResends,  \* bound: events that arrive once more
    MaxTime      \* bound: seconds

ASSUME DeferredAssumption ==
    /\ Home \in Nodes
    /\ Delays \subseteq Nat /\ {MaxDefers, MaxResends, MaxTime} \subseteq Nat
    /\ PerSecond \in Nat \ {0}
    /\ \A text \in Keys \cup {Argument} : text # <<>> /\ text \in Seq(ToSet(text))

VARIABLES
    now,        \* the time in seconds, cut off as by Unix()
    defers,     \* counts DEFER commands; the IDs are 1 .. defers
    scheduled,  \* DeferredScheduler.commands of each node: a set, by ID
    timeIndex,  \* DeferredScheduler.timeIndex of each node: per second a sequence
    running,    \* what executeReadyCommands has yet to run: seconds, of commands each
    events,     \* DEFER and DEFER.CANCEL events on their way
    resends,    \* counts resent events, for the bound
    asked,      \* history: what clients deferred, with the moment it is due
    ran,        \* history: what each node ran
    reran,      \* history: IDs each node ran more than once
    cancelled,  \* history: IDs whose cancellation found them, per node
    arrived,    \* history: IDs whose DEFER came by an event, per node
    rearrived   \* history: IDs whose DEFER came again

vars == <<now, defers, scheduled, timeIndex, running, events, resends, asked, ran,
                  reran, cancelled, arrived, rearrived>>

IDs == 1 .. MaxDefers

Times == 0 .. MaxTime

Init ==
    /\ now = 0 /\ defers = 0 /\ resends = 0
    /\ scheduled = [n \in Nodes |-> {}]
    /\ timeIndex = [n \in Nodes |-> [t \in Times |-> <<>>]]
    /\ running = [n \in Nodes |-> <<>>]
    /\ events = {} /\ asked = {}
    /\ ran = [n \in Nodes |-> {}] /\ reran = ran /\ cancelled = ran
    /\ arrived = ran /\ rearrived = ran

-----------------------------------------------------------------------------
\* Mistake: the map keeps the command the ID had.
AddsBeside(n, cmd) ==
    /\ cmd.at \in Times
    /\ scheduled' = [scheduled EXCEPT ![n] = @ \cup {cmd}]
    /\ timeIndex' = [timeIndex EXCEPT ![n][cmd.at] = Append(@, cmd)]

\* AddDeferredCommand: the map holds the last command of an ID, the index all.
Adds(n, cmd) ==
    /\ cmd.at \in Times
    /\ scheduled' = [scheduled EXCEPT ![n] = {c \in @ : c.id # cmd.id} \cup {cmd}]
    /\ timeIndex' = [timeIndex EXCEPT ![n][cmd.at] = Append(@, cmd)]

\* Mistake: the index keeps what was cancelled.
KeepsAll(bucket, id) == bucket

\* The first command with the ID leaves its second.
RemovesFirst(bucket, id) ==
    LET at == SelectInSeq(bucket, LAMBDA c : c.id = id)
    IN  IF at = 0 THEN bucket ELSE RemoveAt(bucket, at)

\* CancelDeferredCommand, of an ID the map has.
Cancels(n, id) ==
    \E cmd \in scheduled[n] :
       /\ cmd.id = id
       /\ scheduled' = [scheduled EXCEPT ![n] = @ \ {cmd}]
       /\ timeIndex' = [timeIndex EXCEPT ![n][cmd.at] = RemovesFirst(@, id)]
       /\ cancelled' = [cancelled EXCEPT ![n] = @ \cup {id}]

ToPeers(event) == events' = events \cup {[event EXCEPT !.to = m] : m \in Nodes \ {Home}}

\* HandleZeroCopyDeferWithReplication, at some moment of the second.  The index
\* has the second in which the command is due, ExecuteAt.Unix(); the event holds
\* the delay.
Defer(key, delay, moment) ==
    /\ defers < MaxDefers
    /\ defers' = defers + 1
    /\ LET cmd == [id |-> defers', at |-> now + delay, key |-> key, args |-> Argument]
       IN  /\ Adds(Home, cmd)
           /\ asked' = asked \cup {[id |-> cmd.id, due |-> cmd.at * PerSecond + moment,
                                    key |-> key, args |-> Argument]}
           /\ ToPeers([to |-> Home, op |-> "defer", id |-> cmd.id, delay |-> delay,
                       text |-> cmd.key \o cmd.args])
    /\ UNCHANGED <<now, running, resends, ran, reran, cancelled, arrived, rearrived>>

\* HandleZeroCopyDeferCancelWithReplication: an ID that is not there, or not
\* any more, is answered 0 and not sent.
DeferCancel(id) ==
    /\ Cancels(Home, id)
    /\ ToPeers([to |-> Home, op |-> "cancel", id |-> id, delay |-> 0, text |-> <<>>])
    /\ UNCHANGED <<now, defers, running, resends, asked, ran, reran, arrived, rearrived>>

\* An event arrives, in any order, and stays if it will be sent again.
Arrives(event) ==
    /\ event \in events
    /\ \/ events' = events \ {event} /\ UNCHANGED resends
       \/ resends < MaxResends /\ resends' = resends + 1 /\ UNCHANGED events

\* Mistake: the receiver leaves the delay out.
WithoutDelay(event) ==
    [id |-> event.id, at |-> now, key |-> <<Head(event.text)>>, args |-> Tail(event.text)]

\* What is before the first colon is the key.
Decoded(event) ==
    [id |-> event.id, at |-> now + event.delay, key |-> <<Head(event.text)>>, args |-> Tail(event.text)]

\* ApplyReplication, of a DEFER.
ReplicatedDefer(event) ==
    /\ event.op = "defer"
    /\ Arrives(event)
    /\ Adds(event.to, Decoded(event))
    /\ arrived' = [arrived EXCEPT ![event.to] = @ \cup {event.id}]
    /\ rearrived' = [rearrived EXCEPT ![event.to] = @ \cup (arrived[event.to] \cap {event.id})]
    /\ UNCHANGED <<now, defers, running, asked, ran, reran, cancelled>>

ReplicatedCancel(event) ==
    /\ event.op = "cancel"
    /\ Arrives(event)
    /\ \/ Cancels(event.to, event.id)
       \/ /\ ~ \E c \in scheduled[event.to] : c.id = event.id
          /\ UNCHANGED <<scheduled, timeIndex, cancelled>>
    /\ UNCHANGED <<now, defers, running, asked, ran, reran, arrived, rearrived>>

-----------------------------------------------------------------------------
\* Mistake: what is in this second only.
ReadyNow(n, tick) == {t \in Times : t = tick /\ timeIndex[n][t] # <<>>}

\* All seconds that had come at the tick.
Ready(n, tick) == {t \in Times : t <= tick /\ timeIndex[n][t] # <<>>}

\* Mistake: the map keeps what is about to run.
RemainAll(n, seconds) == scheduled[n]

Remain(n, seconds) ==
    {c \in scheduled[n] : \A t \in seconds : \A d \in ToSet(timeIndex[n][t]) : d.id # c.id}

\* executeReadyCommands, under the lock: the second of the tick may have passed,
\* and seconds come in the order of a Go map.
CollectReady(n, tick) ==
    /\ tick <= now
    /\ running[n] = <<>>
    /\ Ready(n, tick) # {}
    /\ \E order \in Bijection(1 .. Cardinality(Ready(n, tick)), Ready(n, tick)) :
          running' = [running EXCEPT ![n] = [i \in DOMAIN order |-> timeIndex[n][order[i]]]]
    /\ scheduled' = [scheduled EXCEPT ![n] = Remain(n, Ready(n, tick))]
    /\ timeIndex' = [timeIndex EXCEPT ![n] = [t \in Times |-> IF t \in Ready(n, tick) THEN <<>> ELSE @[t]]]
    /\ UNCHANGED <<now, defers, events, resends, asked, ran, reran, cancelled, arrived, rearrived>>

\* What is left once the first command of the first second has run.
Rest(seconds) == IF Len(Head(seconds)) = 1 THEN Tail(seconds)
                                           ELSE [seconds EXCEPT ![1] = Tail(@)]

\* The command as its texts may read by now.
Reads(n, cmd) ==
    IF n # Home THEN {cmd}
    ELSE [id : {cmd.id}, at : {cmd.at}, key : Scraps \cup {cmd.key}, args : Scraps \cup {cmd.args}]

\* executeCommand, one after the other, without the lock.
Execute(n) ==
    /\ running[n] # <<>>
    /\ LET cmd == Head(Head(running[n]))
       IN  /\ \E read \in Reads(n, cmd) : ran' = [ran EXCEPT ![n] = @ \cup {read}]
           /\ reran' = [reran EXCEPT ![n] = @ \cup {c.id : c \in {x \in ran[n] : x.id = cmd.id}}]
    /\ running' = [running EXCEPT ![n] = Rest(@)]
    /\ UNCHANGED <<now, defers, scheduled, timeIndex, events, resends, asked, cancelled,
                   arrived, rearrived>>

Second ==
    /\ now < MaxTime
    /\ now' = now + 1
    /\ UNCHANGED <<defers, scheduled, timeIndex, running, events, resends, asked, ran, reran,
                   cancelled, arrived, rearrived>>

Moments == 0 .. PerSecond - 1

Next == \/ \E key \in Keys, delay \in Delays, moment \in Moments : Defer(key, delay, moment)
        \/ \E id \in IDs : DeferCancel(id)
        \/ \E event \in events : ReplicatedDefer(event) \/ ReplicatedCancel(event)
        \/ \E n \in Nodes : Execute(n) \/ \E tick \in Times : CollectReady(n, tick)
        \/ Second

\* Each scheduler has a goroutine of its own, and time passes.
Spec == /\ Init /\ [][Next]_vars
        /\ \A n \in Nodes : WF_vars(Execute(n)) /\ WF_vars(CollectReady(n, now))
        /\ WF_vars(Second)

-----------------------------------------------------------------------------
\* The IDs a node got once: by its clients, or by one event.
Once(n) == IDs \ rearrived[n]

Indexed(n) == UNION {ToSet(timeIndex[n][t]) : t \in Times}

\* What a tick has taken, and not run yet.
Taken(n) == UNION {ToSet(running[n][i]) : i \in DOMAIN running[n]}

TypeOK ==
    /\ now \in Times /\ defers \in 0 .. MaxDefers /\ resends \in 0 .. MaxResends
    /\ \A n \in Nodes, t \in Times : \A c \in ToSet(timeIndex[n][t]) : c.at = t
    /\ \A n \in Nodes : /\ {c.id : c \in scheduled[n]} \cup cancelled[n] \subseteq 1 .. defers
                        /\ \A c, d \in scheduled[n] : c.id = d.id => c = d

(***************************************************************************)
(* The two structures of the scheduler: of a command that came once, the   *)
(* map and the index hold the same, and what a tick took is in neither.    *)
(***************************************************************************)
IndexesAgree ==
    \A n \in Nodes : \A id \in Once(n) :
        LET mapped == {c \in scheduled[n] : c.id = id}
        IN  /\ mapped = {c \in Indexed(n) : c.id = id}
            /\ \A c \in Taken(n) \cup ran[n] : c.id = id => mapped = {}

(***************************************************************************)
(* DEFER.CANCEL "cancels a scheduled command" (deferred_commands.go:74):   *)
(* a command whose cancellation was answered 1 is not run by that node,    *)
(* not even by a tick that already took others, and no command runs twice, *)
(* if its DEFER came once.                                                 *)
(***************************************************************************)
CancelledStays ==
    \A n \in Nodes : \A id \in Once(n) :
        /\ id \notin reran[n]
        /\ id \in cancelled[n] => \A cmd \in ran[n] : cmd.id # id

Plain(cmd) == Len(cmd.key) = 1

(***************************************************************************)
(* "Replicate the DEFER command to ensure scheduled commands are           *)
(* synchronized across cluster" (deferred_commands.go:280): a node runs    *)
(* only commands that clients deferred, each at the time asked for or      *)
(* later, or less than a second early, since ExecuteAt.Unix() cuts off the *)
(* fraction.  A peer runs it on the texts the client gave, provided the    *)
(* key holds no colon; of what Home's own texts read by then nothing is    *)
(* promised.                                                               *)
(***************************************************************************)
RunsWhatWasAsked ==
    \A n \in Nodes : \A cmd \in ran[n] :
        \E a \in asked : /\ a.id = cmd.id /\ a.due < (now + 1) * PerSecond
                         /\ n # Home /\ Plain(a) => cmd.key = a.key /\ cmd.args = a.args

\* The IDs a node was given.
Got(n) == IF n = Home THEN 1 .. defers ELSE arrived[n]

(***************************************************************************)
(* In the end a node has run every command it was given, however late its  *)
(* ticks came and whatever others ran or were cancelled with it, except    *)
(* those cancelled there.                                                  *)
(***************************************************************************)
DeferredRuns ==
    <>[](\A n \in Nodes : \A id \in Got(n) :
            id \in cancelled[n] \/ \E c \in ran[n] : c.id = id)

=============================================================================
