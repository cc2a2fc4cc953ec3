------------------------------ MODULE Delivery ------------------------------
(***************************************************************************)
(* The bookkeeping of one sender that keeps a replication event until the  *)
(* transport has taken it for every peer (internal/cluster/cluster.go):    *)
(* replicationLoop batches and sends, trackReplicationFailure files what   *)
(* was refused, retryLoop tries it again, reconciliationLoop brings back   *)
(* what was given up.  The loops are goroutines of their own and share     *)
(* replicationQueue, failedEvents, retryQueue and persistentQueue.         *)
(*                                                                         *)
(* A FailedReplicationEvent is shared by pointer: the map, the retry queue *)
(* and two loops may hold it, also after it left the map.                  *)
(*                                                                         *)
(* A send is refused only when the transport's outgoing queue is full      *)
(* (transport.go, Send).  A broadcast goes through the connections there   *)
(* are, single sends through the nodes the health check has left in        *)
(* cm.nodes; a peer in neither is passed over without an error.            *)
(* What becomes of an event the outgoing queue has taken is the subject of *)
(* StringReplication: sendLoop drops it silently when there is no route or *)
(* the peer's queue is full.  Whether NextRetry has passed is a free choice*)
(* each time the code looks: nothing keeps the clock from it in between.   *)
(***************************************************************************)
EXTENDS Integers, FiniteSets, SequencesExt

CONSTANTS
    Peers,         \* the other nodes
    MaxEvents,     \* bound: replication events
    QueueSize,     \* cap(replicationQueue)
    BatchSize,     \* ReplicationBatchSize
    RetrySize,     \* cap(retryQueue)
    KeptSize,      \* events the persistent queue holds
    Forgotten,     \* events it forgets when it is full
    MaxRetries,    \* failures until an event is given up
    MaxRefusals    \* bound: single sends refused, and connections lost

ASSUME SizesAssumption ==
    /\ {QueueSize, BatchSize, RetrySize, KeptSize, Forgotten, MaxRetries} \subseteq Nat \ {0}
    /\ {MaxEvents, MaxRefusals} \subseteq Nat
    /\ Forgotten <= KeptSize

\* An EventID holds the sender's clock, which counts its events.
Events == 1 .. MaxEvents

VARIABLES
    issued,           \* events queueReplication was called for
    replicationQueue,
    batch,            \* the batch of replicationLoop
    refusals,         \* refused events and peers it is to track
    tracking,         \* what trackReplicationFailure has in hand, at most one
    objects,          \* FailedReplicationEvents, in the order of their making
    failedEvents,     \* the map: per event the number of its object, 0 if none
    retryQueue,       \* numbers of objects
    retrying,         \* where retryLoop is, with which object
    persistentQueue,
    reconciling,      \* what performReconciliation has in hand
    connected,        \* peers with an entry in the transport's connections
    members,          \* peers in cm.nodes
    accepted,         \* events the outgoing queue took, with the peer
    skipped,          \* history: events a send without error passed a peer over with
    refused,          \* counts refused sends and lost connections, for the bound
    slipped           \* history: a queue dropped something, or an event was persisted
                      \* again before the reconciliation that queued it removed it

network == <<connected, members>>

vars == <<issued, replicationQueue, batch, refusals, tracking, objects, failedEvents,
          retryQueue, retrying, persistentQueue, reconciling, connected, members, accepted,
          skipped, refused, slipped>>

Idle == [at |-> "idle", object |-> 0]

Resting == [busy |-> FALSE, pending |-> <<>>, successful |-> {}]

Init == /\ issued = {} /\ replicationQueue = <<>> /\ batch = <<>>
        /\ refusals = {} /\ tracking = {} /\ objects = <<>>
        /\ failedEvents = [e \in Events |-> 0]
        /\ retryQueue = <<>> /\ retrying = Idle
        /\ persistentQueue = <<>> /\ reconciling = Resting
        /\ connected = Peers /\ members = Peers
        /\ accepted = {} /\ skipped = {} /\ refused = 0 /\ slipped = FALSE

Queued(e) == /\ Len(replicationQueue) < QueueSize
             /\ replicationQueue' = Append(replicationQueue, e)

Full == Len(replicationQueue) = QueueSize

\* Mistake: the queue makes room one event late.
AddLate(pq, e) ==
    Append(IF Len(pq) > KeptSize THEN SubSeq(pq, Forgotten + 1, Len(pq)) ELSE pq, e)

\* PersistentReplicationQueue.Add
Add(pq, e) ==
    Append(IF Len(pq) >= KeptSize THEN SubSeq(pq, Forgotten + 1, Len(pq)) ELSE pq, e)

Persist(e) == /\ persistentQueue' = Add(persistentQueue, e)
              /\ slipped' = (slipped \/ Len(persistentQueue) >= KeptSize
                                     \/ e \in reconciling.successful)

\* The channel send with a default case: a full retryQueue drops the object.
ToRetry(o) ==
    IF Len(retryQueue) < RetrySize
    THEN retryQueue' = Append(retryQueue, o) /\ UNCHANGED slipped
    ELSE slipped' = TRUE /\ UNCHANGED retryQueue

\* Send, to peers: the outgoing queue takes M for those of A and is full for the others.
Sends(M, peers, A) ==
    /\ accepted' = accepted \cup (M \X A)
    /\ refused' = refused + Cardinality(peers \ A)
    /\ refused' <= MaxRefusals

-----------------------------------------------------------------------------
\* queueReplication.  Its tries are one step: all of them found the queue full.
QueueReplication(e) ==
    /\ issued = 1 .. e - 1
    /\ issued' = issued \cup {e}
    /\ IF Full THEN Persist(e) /\ UNCHANGED replicationQueue
       ELSE Queued(e) /\ UNCHANGED <<persistentQueue, slipped>>
    /\ UNCHANGED <<batch, refusals, tracking, objects, failedEvents, retryQueue, retrying,
                   reconciling, network, accepted, skipped, refused>>

\* replicationLoop: it is back at its select when nothing is left to track.
Looping == refusals = {} /\ tracking = {}

Collect ==
    /\ Looping
    /\ Len(batch) < BatchSize
    /\ replicationQueue # <<>>
    /\ batch' = Append(batch, Head(replicationQueue))
    /\ replicationQueue' = Tail(replicationQueue)
    /\ UNCHANGED <<issued, refusals, tracking, objects, failedEvents, retryQueue, retrying,
                   persistentQueue, reconciling, network, accepted, skipped, refused, slipped>>

\* sendReplicationBatch, the batch full or its time up: no queue was full for a
\* connected peer, and that is no error for the others.
BroadcastAll ==
    /\ Looping
    /\ batch # <<>>
    /\ accepted' = accepted \cup (ToSet(batch) \X connected)
    /\ skipped' = skipped \cup (ToSet(batch) \X (Peers \ connected))
    /\ batch' = <<>>
    /\ UNCHANGED <<issued, replicationQueue, refusals, tracking, objects, failedEvents, retryQueue,
                   retrying, persistentQueue, reconciling, network, refused, slipped>>

\* The broadcast B was taken for was refused for another connected peer:
\* sendBatchToIndividualNodes sends again, to the members.  A are those it is
\* taken for by then.
SendIndividually(B, A) ==
    /\ Looping
    /\ batch # <<>>
    /\ B \subseteq connected /\ B # connected /\ A \subseteq members
    /\ accepted' = accepted \cup (ToSet(batch) \X (A \cup B))
    /\ refused' = refused + Cardinality(members \ A) /\ refused' <= MaxRefusals
    /\ skipped' = skipped \cup (ToSet(batch) \X (Peers \ (members \cup B)))
    /\ refusals' = ToSet(batch) \X (members \ A)
    /\ batch' = <<>>
    /\ UNCHANGED <<issued, replicationQueue, tracking, objects, failedEvents, retryQueue,
                   retrying, persistentQueue, reconciling, network, slipped>>

(***************************************************************************)
(* trackReplicationFailure: find or make the object under failedEventsMu;  *)
(* then, without that lock, count the failure and queue the object.        *)
(***************************************************************************)
FindObject(e, p) ==
    /\ tracking = {}
    /\ <<e, p>> \in refusals
    /\ refusals' = refusals \ {<<e, p>>}
    /\ IF failedEvents[e] # 0 THEN UNCHANGED <<objects, failedEvents>>
       ELSE /\ objects' = Append(objects, [event |-> e, nodes |-> {}, total |-> 0])
            /\ failedEvents' = [failedEvents EXCEPT ![e] = Len(objects')]
    /\ tracking' = {[object |-> failedEvents'[e], node |-> p]}
    /\ UNCHANGED <<issued, replicationQueue, batch, retryQueue, retrying, persistentQueue,
                   reconciling, network, accepted, skipped, refused, slipped>>

CountAndSchedule(t) ==
    /\ t \in tracking
    /\ tracking' = {}
    /\ objects' = [objects EXCEPT ![t.object].nodes = @ \cup {t.node}, ![t.object].total = @ + 1]
    /\ ToRetry(t.object)
    /\ UNCHANGED <<issued, replicationQueue, batch, refusals, failedEvents, retrying,
                   persistentQueue, reconciling, network, accepted, skipped, refused>>

-----------------------------------------------------------------------------
(***************************************************************************)
(* retryLoop.                                                              *)
(***************************************************************************)
Inhand == objects[retrying.object]

Goes(where) == retrying' = [retrying EXCEPT !.at = where]

TakeRetry ==
    /\ retrying.at = "idle"
    /\ retryQueue # <<>>
    /\ retrying' = [at |-> "handle", object |-> Head(retryQueue)]
    /\ retryQueue' = Tail(retryQueue)
    /\ UNCHANGED <<issued, replicationQueue, batch, refusals, tracking, objects, failedEvents,
                   persistentQueue, reconciling, network, accepted, skipped, refused, slipped>>

\* handleFailedReplication puts an object back that is not due, or failed again.
PutBack ==
    /\ retrying.at \in {"handle", "failed"}
    /\ ToRetry(retrying.object)
    /\ retrying' = Idle
    /\ UNCHANGED <<issued, replicationQueue, batch, refusals, tracking, objects, failedEvents,
                   persistentQueue, reconciling, network, accepted, skipped, refused>>

\* attemptEventRetry, room in the queue: the event is broadcast again.
Requeue ==
    /\ retrying.at = "handle"
    /\ Queued(Inhand.event)
    /\ Goes("done")
    /\ UNCHANGED <<issued, batch, refusals, tracking, objects, failedEvents, retryQueue,
                   persistentQueue, reconciling, network, accepted, skipped, refused, slipped>>

\* directRetryToFailedNodes: the snapshot of the nodes and the sends.
SendDirectly(A) ==
    /\ retrying.at = "handle" /\ Full
    /\ A \subseteq Inhand.nodes
    /\ Sends({Inhand.event}, Inhand.nodes, A)
    /\ objects' = [objects EXCEPT ![retrying.object].nodes = @ \ A]
    /\ Goes(IF A # {} THEN "reached" ELSE "missed")
    /\ UNCHANGED <<issued, replicationQueue, batch, refusals, tracking, failedEvents, retryQueue,
                   persistentQueue, reconciling, network, skipped, slipped>>

\* What is left is read after the sends.
ReachedAll == retrying.at = "reached" /\ Inhand.nodes = {}

JudgeDirect ==
    /\ retrying.at \in {"reached", "missed"}
    /\ IF ReachedAll THEN Goes("done") /\ UNCHANGED objects
       ELSE LET exceeded == Inhand.total + 1 >= MaxRetries
            IN  /\ objects' = [objects EXCEPT ![retrying.object].total = @ + 1]
                /\ Goes(IF exceeded THEN "exceeded" ELSE "failed")
    /\ UNCHANGED <<issued, replicationQueue, batch, refusals, tracking, failedEvents, retryQueue,
                   persistentQueue, reconciling, network, accepted, skipped, refused, slipped>>

GiveUp ==
    /\ retrying.at = "exceeded"
    /\ Persist(Inhand.event)
    /\ Goes("done")
    /\ UNCHANGED <<issued, replicationQueue, batch, refusals, tracking, objects, failedEvents,
                   retryQueue, reconciling, network, accepted, skipped, refused>>

\* The map entry goes by its EventID, whatever object it holds by now.
Forget ==
    /\ retrying.at = "done"
    /\ failedEvents' = [failedEvents EXCEPT ![Inhand.event] = 0]
    /\ retrying' = Idle
    /\ UNCHANGED <<issued, replicationQueue, batch, refusals, tracking, objects, retryQueue,
                   persistentQueue, reconciling, network, accepted, skipped, refused, slipped>>

\* Mistake: only what was retried before.
Retried == {failedEvents[e] : e \in {x \in Events : failedEvents[x] # 0
                                                    /\ objects[failedEvents[x]].total > 1}}

InMap == {failedEvents[e] : e \in Events} \ {0}

\* processRetryQueue, each tick, with those that are due, in the order the map
\* gives them; it stops at a full queue.
ProcessRetryQueue(due) ==
    /\ retrying.at = "idle"
    /\ due \subseteq InMap /\ due # {}
    /\ \E s \in SetToSeqs(due) :
          LET all == retryQueue \o s IN retryQueue' = SubSeq(all, 1, Min({Len(all), RetrySize}))
    /\ UNCHANGED <<issued, replicationQueue, batch, refusals, tracking, objects, failedEvents,
                   retrying, persistentQueue, reconciling, network, accepted, skipped, refused,
                   slipped>>

-----------------------------------------------------------------------------
(***************************************************************************)
(* reconciliationLoop.  cleanupStaleFailedEvents persists and deletes      *)
(* under the lock of the map: objects older than an hour, and the oldest   *)
(* of too many, so any of them.                                            *)
(***************************************************************************)
CleanupStale(e) ==
    /\ ~reconciling.busy
    /\ failedEvents[e] # 0
    /\ Persist(e)
    /\ failedEvents' = [failedEvents EXCEPT ![e] = 0]
    /\ UNCHANGED <<issued, replicationQueue, batch, refusals, tracking, objects, retryQueue,
                   retrying, reconciling, network, accepted, skipped, refused>>

GetPending ==
    /\ ~reconciling.busy
    /\ persistentQueue # <<>>
    /\ reconciling' = [busy |-> TRUE, pending |-> persistentQueue, successful |-> {}]
    /\ UNCHANGED <<issued, replicationQueue, batch, refusals, tracking, objects, failedEvents,
                   retryQueue, retrying, persistentQueue, network, accepted, skipped, refused,
                   slipped>>

Reoffer ==
    /\ reconciling.pending # <<>>
    /\ LET e == Head(reconciling.pending)
           rest == [reconciling EXCEPT !.pending = Tail(@)]
       IN  \/ Queued(e) /\ reconciling' = [rest EXCEPT !.successful = @ \cup {e}]
           \/ Full /\ reconciling' = rest /\ UNCHANGED replicationQueue
    /\ UNCHANGED <<issued, batch, refusals, tracking, objects, failedEvents, retryQueue,
                   retrying, persistentQueue, network, accepted, skipped, refused, slipped>>

\* Mistake: everything is removed.
RemovedAll(pq, gone) == <<>>

\* PersistentReplicationQueue.Remove filters in place: what stays is in order.
Removed(pq, gone) ==
    LET stays == {i \in DOMAIN pq : pq[i] \notin gone}
        rank(i) == Cardinality({h \in stays : h <= i})
    IN  [j \in 1 .. Cardinality(stays) |-> pq[CHOOSE i \in stays : rank(i) = j]]

RemoveSuccessful ==
    /\ reconciling.busy /\ reconciling.pending = <<>>
    /\ persistentQueue' = Removed(persistentQueue, reconciling.successful)
    /\ reconciling' = Resting
    /\ UNCHANGED <<issued, replicationQueue, batch, refusals, tracking, objects, failedEvents,
                   retryQueue, retrying, network, accepted, skipped, refused, slipped>>

-----------------------------------------------------------------------------
(***************************************************************************)
(* Whom a send goes to.                                                    *)
(***************************************************************************)
bookkeeping == <<issued, replicationQueue, batch, refusals, tracking, objects, failedEvents,
                 retryQueue, retrying, persistentQueue, reconciling, accepted, skipped, slipped>>

\* The bound.
Trouble == refused' = refused + 1 /\ refused' <= MaxRefusals

\* peerSendLoop: a write failed.
Disconnect(p) ==
    /\ p \in connected
    /\ connected' = connected \ {p}
    /\ Trouble
    /\ UNCHANGED <<bookkeeping, members>>

\* getConnection, for a message to p, of the anti-entropy for one, or p joining again.
Reconnect(p) ==
    /\ p \notin connected
    /\ connected' = connected \cup {p}
    /\ UNCHANGED <<bookkeeping, members, refused>>

\* checkNodeHealth: no heartbeat of p for too long.
Evict(p) ==
    /\ p \in members
    /\ members' = members \ {p}
    /\ Trouble
    /\ UNCHANGED <<bookkeeping, connected>>

-----------------------------------------------------------------------------
ReplicationLoop ==
    \/ Collect \/ BroadcastAll
    \/ \E B, A \in SUBSET Peers : SendIndividually(B, A)
    \/ \E r \in refusals : FindObject(r[1], r[2])
    \/ \E t \in tracking : CountAndSchedule(t)

RetryQueueCase ==
    \/ TakeRetry \/ PutBack \/ Requeue \/ JudgeDirect \/ GiveUp \/ Forget
    \/ \E A \in SUBSET Peers : SendDirectly(A)

Reconciliation == GetPending \/ Reoffer \/ RemoveSuccessful

Next == \/ \E e \in Events : QueueReplication(e) \/ CleanupStale(e)
        \/ ReplicationLoop
        \/ RetryQueueCase
        \/ \E due \in SUBSET InMap : ProcessRetryQueue(due)
        \/ Reconciliation
        \/ \E p \in Peers : Disconnect(p) \/ Reconnect(p) \/ Evict(p)

Spec == Init /\ [][Next]_vars

(***************************************************************************)
(* Each loop runs, and time passes: an object that is looked at again and  *)
(* again is due one of these times.  Go picks at random when the queue and *)
(* the tick are both ready, and which entry of a map comes first: no object*)
(* in the map is passed over for ever.  That refusals end is the bound     *)
(* MaxRefusals.                                                            *)
(***************************************************************************)
FairSpec == /\ Spec
            /\ WF_vars(ReplicationLoop)
            /\ WF_vars(RetryQueueCase)
            /\ SF_vars(Requeue \/ \E A \in SUBSET Peers : SendDirectly(A))
            /\ SF_vars(InMap # {} /\ ProcessRetryQueue(InMap))
            /\ WF_vars(Reconciliation)

-----------------------------------------------------------------------------
Objects == [event : Events, nodes : SUBSET Peers, total : Nat]

TypeOK ==
    /\ issued \subseteq Events
    /\ {Range(replicationQueue), Range(batch), Range(persistentQueue)} \subseteq SUBSET issued
    /\ Len(replicationQueue) <= QueueSize /\ Len(batch) <= BatchSize
    /\ Len(retryQueue) <= RetrySize /\ Len(persistentQueue) <= KeptSize
    /\ {refusals, accepted, skipped} \subseteq SUBSET (issued \X Peers)
    /\ {connected, members} \subseteq SUBSET Peers
    /\ objects \in Seq(Objects)
    /\ tracking \subseteq [object : DOMAIN objects, node : Peers]
    /\ \A e \in Events : failedEvents[e] # 0 => /\ failedEvents[e] \in DOMAIN objects
                                               /\ objects[failedEvents[e]].event = e
    /\ Range(retryQueue) \subseteq DOMAIN objects
    /\ retrying.at # "idle" => retrying.object \in DOMAIN objects

\* Objects somebody can still reach.
Reachable == {failedEvents[e] : e \in Events} \cup Range(retryQueue)
             \cup {t.object : t \in tracking} \cup {retrying.object}

\* Somewhere in the bookkeeping event e is kept for peer p.
Kept(e, p) ==
    \/ e \in Range(replicationQueue) \cup Range(batch) \cup Range(persistentQueue)
    \/ <<e, p>> \in refusals
    \/ \E t \in tracking : objects[t.object].event = e /\ t.node = p
    \/ \E o \in Reachable \cap DOMAIN objects : objects[o].event = e /\ p \in objects[o].nodes

(***************************************************************************)
(* What is left of the "reliable delivery guarantees" of cluster.go:663:   *)
(* an event is kept for a peer, through refused sends and every move       *)
(* between the queues and the loops, until the outgoing queue takes it for *)
(* the peer or a send passes over the peer, which has lost its connection  *)
(* or its place in cm.nodes.  Only a queue that overflows breaks this, or  *)
(* performReconciliation, which removes by EventID what it read before,    *)
(* meeting a copy persisted since.                                         *)
(***************************************************************************)
NothingForgotten ==
    slipped \/ \A e \in issued, p \in Peers : <<e, p>> \in accepted \cup skipped \/ Kept(e, p)

(***************************************************************************)
(* What is kept is tried in the end, and then taken by the outgoing queue  *)
(* or, by a broadcast without a connection, passed over: an object that a  *)
(* full retry queue dropped "will be retried in next cycle"                *)
(* (cluster.go:649), an event that was given up comes back by              *)
(* reconciliation.                                                         *)
(***************************************************************************)
KeptIsSent ==
    <>[](\A e \in issued, p \in Peers : Kept(e, p) => <<e, p>> \in accepted \cup skipped)

=============================================================================
