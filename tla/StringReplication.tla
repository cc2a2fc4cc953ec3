-------------------------- MODULE StringReplication --------------------------
(***************************************************************************)
(* Replication of stamped string writes (SET k v and DEL k) in a cluster:  *)
(* the client callback of internal/server/handler.go, the push path and    *)
(* the anti-entropy path of internal/cluster, and the last-write-wins      *)
(* store that both end in.                                                 *)
(*                                                                         *)
(* Node ids are the origins of the stamps: the first 8 bytes of each       *)
(* node's UUIDv7, compared as integers.  Any number of connections of a    *)
(* node write at once; one goroutine per node (processLoop) handles what   *)
(* arrives.  Messages are lost (nothing forces a delivery), reordered, and *)
(* received again when a failed push is sent again.                        *)
(***************************************************************************)
EXTENDS LWWKey, FiniteSets

CONSTANTS
    Nodes,          \* the nodes of the cluster, by origin
    Keys,           \* string keys
    Values,         \* what SET may write
    Time,           \* what a node's wall clock may read, at any moment
    MemoryLimited,  \* whether a store may refuse a SET for lack of memory
    MaxWrites,      \* bound: writes issued
    MaxResends,     \* bound: pushes not accepted for every peer
    MaxDigests      \* bound: anti-entropy entries of one key on their way
                    \*        from one node to another

ASSUME NodesAssumption  == Nodes \subseteq Nat \ {0}
ASSUME ValuesAssumption == NoVal \notin Values
ASSUME TimeAssumption   == Time \subseteq Nat \ {0}
ASSUME MemoryAssumption == MemoryLimited \in BOOLEAN
ASSUME BoundsAssumption == {MaxWrites, MaxResends, MaxDigests} \subseteq Nat

VARIABLES
    hlc,       \* ClusterManager.hlc, HLC.last of each node
    store,     \* the node's keys
    stamped,   \* callbacks that drew their stamp (NextStamp)
    applied,   \* callbacks that called SetLWW or DeleteLWW
    queue,     \* replicationQueue, retryQueue and persistentQueue of a node
    net,       \* pushed events on their way
    handling,  \* the event handleReplicationPush has in hand
    digests,   \* SyncResponse entries on their way
    resends,   \* counts failed pushes, for the bound
    issued,    \* history: every write stamped so far
    seen       \* history: the writes each node has taken into account

vars == <<hlc, store, stamped, applied, queue, net, handling, digests,
          resends, issued, seen>>

Writes == [key : Keys, val : Values \cup {NoVal},
           stamp : [p : Nat, l : 0 .. LogicalMod - 1, o : Nodes]]

Peers(n) == Nodes \ {n}

Init == /\ hlc = [n \in Nodes |-> ZeroTS]
        /\ store = [n \in Nodes |-> [k \in Keys |-> Missing]]
        /\ queue = [n \in Nodes |-> {}]
        /\ handling = [n \in Nodes |-> {}]
        /\ seen = [n \in Nodes |-> {}]
        /\ stamped = {} /\ applied = {}
        /\ net = {} /\ digests = {}
        /\ issued = {}
        /\ resends = 0

-----------------------------------------------------------------------------
(***************************************************************************)
(* The store applies a write, refuses it for lack of memory, or finds it   *)
(* superseded.  SetWithHLC looks at the memory limit only after its guard, *)
(* and DeleteWithHLC never does.                                           *)
(***************************************************************************)
ApplyAt(n, w) ==
    /\ store' = [store EXCEPT ![n][w.key] = Apply(@, w)]
    /\ seen' = [seen EXCEPT ![n] = @ \cup {w}]

RefuseAt(n, w) ==
    /\ MemoryLimited
    /\ w.val # NoVal
    /\ Wins(store[n][w.key], w.stamp)
    /\ UNCHANGED <<store, seen>>

StoreAt(n, w) == ApplyAt(n, w) \/ RefuseAt(n, w)

(***************************************************************************)
(* A client's SET or DEL: three steps of the callback, between which other *)
(* connections and the message handler of the node run.                    *)
(***************************************************************************)
NextStamp(n, k, v) ==
    /\ Cardinality(issued) < MaxWrites
    /\ hlc[n].l + 1 < LogicalMod
    /\ \E pt \in Time :
          LET ts == Now(hlc[n], pt)
              w  == [key |-> k, val |-> v, stamp |-> Stamp(ts, n)]
          IN  /\ hlc' = [hlc EXCEPT ![n] = ts]
              /\ stamped' = stamped \cup {w}
              /\ issued' = issued \cup {w}
    /\ UNCHANGED <<store, applied, queue, net, handling, digests, resends, seen>>

\* The callback ignores the store's verdict, `_, _ = SetLWW(...)`.
ApplyLocal(w) ==
    /\ w \in stamped
    /\ stamped' = stamped \ {w}
    /\ applied' = applied \cup {w}
    /\ StoreAt(w.stamp.o, w)
    /\ UNCHANGED <<hlc, queue, net, handling, digests, resends, issued>>

QueueReplicationLWW(w) ==
    /\ w \in applied
    /\ applied' = applied \ {w}
    /\ queue' = [queue EXCEPT ![w.stamp.o] = @ \cup {w}]
    /\ UNCHANGED <<hlc, store, stamped, net, handling, digests, resends,
                   issued, seen>>

-----------------------------------------------------------------------------
(***************************************************************************)
(* The push path.  A push the transport accepts for every peer is done;    *)
(* one it refuses for some is sent again, to all of them, until the retry  *)
(* bookkeeping gives up.  An accepted message may still be dropped by a    *)
(* full queue or a broken connection.                                      *)
(***************************************************************************)
SendTo(peers, w) == net' = net \cup [to : peers, write : {w}]

SendBatch(peers, n, w) ==
    /\ w \in queue[n]
    /\ queue' = [queue EXCEPT ![n] = @ \ {w}]
    /\ SendTo(peers, w)
    /\ UNCHANGED <<hlc, store, stamped, applied, handling, digests, resends,
                   issued, seen>>

SendBatchFails(peers, n, w) ==
    /\ w \in queue[n]
    /\ resends < MaxResends
    /\ resends' = resends + 1
    /\ \E reached \in SUBSET peers : reached # peers /\ SendTo(reached, w)
    /\ queue' \in {queue, [queue EXCEPT ![n] = @ \ {w}]}
    /\ UNCHANGED <<hlc, store, stamped, applied, handling, digests, issued, seen>>

\* handleReplicationPush, per event: the clock first ...
ReceivePush(n, w) ==
    /\ handling[n] = {}
    /\ [to |-> n, write |-> w] \in net
    /\ hlc[n].l + 1 < LogicalMod /\ w.stamp.l + 1 < LogicalMod
    /\ net' = net \ {[to |-> n, write |-> w]}
    /\ \E pt \in Time :
          hlc' = [hlc EXCEPT ![n] = Update(@, TS(w.stamp), pt)]
    /\ handling' = [handling EXCEPT ![n] = {w}]
    /\ UNCHANGED <<store, stamped, applied, queue, digests, resends, issued, seen>>

\* ... then ApplyReplication, whose error is logged and forgotten.
ApplyPush(n, w) ==
    /\ w \in handling[n]
    /\ handling' = [handling EXCEPT ![n] = {}]
    /\ StoreAt(n, w)
    /\ UNCHANGED <<hlc, stamped, applied, queue, net, digests, resends, issued>>

-----------------------------------------------------------------------------
(***************************************************************************)
(* Anti-entropy.  Every node keeps asking random peers for the digest of   *)
(* the next shard: a request may be on its way at any time.                *)
(***************************************************************************)
SyncReply(m, n, k) ==
    /\ n # m
    /\ handling[m] = {}
    /\ Cardinality({d \in digests : d.from = m /\ d.to = n /\ d.write.key = k})
          < MaxDigests
    /\ digests' = digests \cup [from : {m}, to : {n}, write : Digest(k, store[m][k])]
    /\ UNCHANGED <<hlc, store, stamped, applied, queue, net, handling, resends,
                   issued, seen>>

\* handleSyncResponse: the clock is not advanced.
SyncResponse(m, n, w) ==
    /\ handling[n] = {}
    /\ [from |-> m, to |-> n, write |-> w] \in digests
    /\ digests' = digests \ {[from |-> m, to |-> n, write |-> w]}
    /\ StoreAt(n, w)
    /\ UNCHANGED <<hlc, stamped, applied, queue, net, handling, resends, issued>>

-----------------------------------------------------------------------------
Client == \/ \E n \in Nodes, k \in Keys, v \in Values \cup {NoVal} : NextStamp(n, k, v)
          \/ \E w \in stamped : ApplyLocal(w)
          \/ \E w \in applied : QueueReplicationLWW(w)

Push == \E n \in Nodes :
          \/ \E w \in queue[n] : \/ SendBatch(Peers(n), n, w)
                                 \/ SendBatchFails(Peers(n), n, w)
          \/ \E m \in net : ReceivePush(n, m.write)
          \/ \E w \in handling[n] : ApplyPush(n, w)

AntiEntropy == \E m, n \in Nodes :
                  \/ \E k \in Keys : SyncReply(m, n, k)
                  \/ \E d \in digests : SyncResponse(m, n, d.write)

Next == Client \/ Push \/ AntiEntropy

Spec == Init /\ [][Next]_vars

-----------------------------------------------------------------------------
(***************************************************************************)
(* Fairness, for the liveness property only: goroutines run to their end,  *)
(* and of the exchanges of anti-entropy between each pair of nodes some    *)
(* get through (the loop asks a random peer every two seconds) and find    *)
(* memory to spare: nothing else brings back a write the store refused.    *)
(* Nothing is asked of the push path.                                      *)
(***************************************************************************)
Fairness == /\ WF_vars(\E w \in stamped : ApplyLocal(w))
            /\ \A n \in Nodes : WF_vars(\E w \in handling[n] : ApplyPush(n, w))
            /\ \A m, n \in Nodes, k \in Keys :
                  /\ WF_vars(SyncReply(m, n, k))
                  /\ SF_vars(\E d \in digests : /\ d.write.key = k
                                                 /\ SyncResponse(m, n, d.write)
                                                 /\ ApplyAt(n, d.write))

FairSpec == Spec /\ Fairness

-----------------------------------------------------------------------------
Versions == [p : Nat, l : 0 .. LogicalMod - 1, o : Nodes \cup {0}]

KeyStates == [val : Values \cup {NoVal}, ver : Versions, tomb : Versions]

TypeOK == /\ hlc \in [Nodes -> Timestamps]
          /\ store \in [Nodes -> [Keys -> KeyStates]]
          /\ stamped \subseteq Writes
          /\ applied \subseteq Writes
          /\ queue \in [Nodes -> SUBSET Writes]
          /\ net \subseteq [to : Nodes, write : Writes]
          /\ handling \in [Nodes -> SUBSET Writes]
          /\ digests \subseteq [from : Nodes, to : Nodes, write : Writes]
          /\ resends \in Nat
          /\ issued \subseteq Writes
          /\ seen \in [Nodes -> SUBSET Writes]

SeenOf(n, k) == {w \in seen[n] : w.key = k}

\* The state of a key whose last write is w.
Showing(w) == IF w.val = NoVal
              THEN [Missing EXCEPT !.tomb = w.stamp]
              ELSE [Missing EXCEPT !.val = w.val, !.ver = w.stamp]

Newest(W) == {w \in W : \A x \in W \ {w} : After(w.stamp, x.stamp)}

\* The state a key must be in after a set of writes, whatever their order.
Result(W) == IF W = {} THEN Missing ELSE Showing(CHOOSE w \in Newest(W) : TRUE)

\* The stamp of what a key holds: at most one of the two is not zero.
Version(ks) == IF ks.val = NoVal THEN ks.tomb ELSE ks.ver

(***************************************************************************)
(* A stamp names one write: the logical clock of a node and the node's id  *)
(* never give two writes the same stamp, so a replica that finds a stamp   *)
(* it already holds may drop the write (hlcStamp.After, lww.go:16-28).     *)
(***************************************************************************)
StampsIdentifyWrites == \A v, w \in issued : v.stamp = w.stamp => v = w

(***************************************************************************)
(* Every store is the newest-wins result of what it has taken in, in any   *)
(* order, with any repetition: an older create does not resurrect a        *)
(* deleted key, an older delete does not remove a newer value, and no      *)
(* tombstone is left behind (SetWithHLC, DeleteWithHLC).                   *)
(***************************************************************************)
StoreIsNewestSeen ==
    \A n \in Nodes, k \in Keys : store[n][k] = Result(SeenOf(n, k))

(***************************************************************************)
(* "All replicas converge" (handler.go:119-123): two nodes that have taken *)
(* in the same writes to a key hold the same value, version and tombstone. *)
(***************************************************************************)
ReplicasConverge ==
    \A m, n \in Nodes, k \in Keys :
        SeenOf(m, k) = SeenOf(n, k) => store[m][k] = store[n][k]

(***************************************************************************)
(* The cluster implements the promise of ReplicatedStore: no node shows a  *)
(* value nobody wrote, or goes back to an older write.                     *)
(***************************************************************************)
Shown(n, k) ==
    IF store[n][k] = Missing THEN {}
    ELSE {[key |-> k, val |-> store[n][k].val, stamp |-> Version(store[n][k])]}

Promise == INSTANCE ReplicatedStore
             WITH held <- [n \in Nodes |-> [k \in Keys |-> Shown(n, k)]]

ImplementsPromise == Promise!ASpec

(***************************************************************************)
(* Once clients stop, every node ends with the newest of the writes that   *)
(* some node took in, even if every push is lost: anti-entropy "heals      *)
(* divergence caused by dropped replication events" (antientropy.go:13-15) *)
(* and by stores that had no memory for the write when it came.            *)
(***************************************************************************)
TakenIn(k) == UNION {SeenOf(n, k) : n \in Nodes}

EventuallyHealed ==
    <>[](\A n \in Nodes, k \in Keys : store[n][k] = Result(TakenIn(k)))

-----------------------------------------------------------------------------
(***************************************************************************)
(* The inductive invariant of the safety properties, by parts: a node's    *)
(* clock is not behind a stamp it gave out; whatever is on its way was     *)
(* issued; a store shows the newest write taken in.                        *)
(***************************************************************************)
ClockCoversIssued ==
    \A w \in issued : IsStamped(w) /\ ~TSAfter(TS(w.stamp), hlc[w.stamp.o])

OnlyIssued == /\ stamped \subseteq issued /\ applied \subseteq issued
              /\ \A n \in Nodes : /\ queue[n] \subseteq issued
                                  /\ handling[n] \subseteq issued
                                  /\ seen[n] \subseteq issued
              /\ \A m \in net : m.write \in issued
              /\ \A d \in digests : d.write \in issued

ShowsNewest(ks, W) ==
    \/ W = {} /\ ks = Missing
    \/ \E w \in W : /\ ks = Showing(w)
                    /\ \A x \in W \ {w} : After(w.stamp, x.stamp)

StoresShowNewest == \A n \in Nodes, k \in Keys : ShowsNewest(store[n][k], SeenOf(n, k))

IInv == /\ TypeOK
        /\ ClockCoversIssued
        /\ StampsIdentifyWrites
        /\ OnlyIssued
        /\ StoresShowNewest

=============================================================================
