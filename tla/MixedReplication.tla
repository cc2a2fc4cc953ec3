--------------------------- MODULE MixedReplication ---------------------------
(***************************************************************************)
(* StringReplication together with the writes that reach a key without a   *)
(* stamp:                                                                  *)
(*   - MSET, GETSET, APPEND and SET with options change the store plainly  *)
(*     and then run the callback, as a SET of the final value;             *)
(*   - INCR and DECR change the store plainly and queue an event with no   *)
(*     stamp and no value;                                                 *)
(*   - a restart replays the commit log plainly: values come back without  *)
(*     their stamps, tombstones and clock do not come back at all, and the *)
(*     process joins with a node id of its own, newer than any before.     *)
(***************************************************************************)
EXTENDS StringReplication, Sequences

CONSTANTS
    Spares,        \* node ids for processes that start later
    EmptyValue,    \* the empty string
    Turns,         \* which of the turns below a behaviour may take
    MaxTurns       \* bound: how many of them

ASSUME SparesAssumption == Spares \subseteq Nodes
ASSUME EmptyValueAssumption == EmptyValue # NoVal
ASSUME TurnsAssumption ==
    /\ Turns \subseteq {"plain", "counter", "resend", "restart"}
    /\ MaxTurns \in Nat

VARIABLES
    up,        \* the processes running
    spares,    \* node ids not used yet
    plain,     \* commands that changed the store and have not called back
    counted,   \* INCR and DECR that changed the store and have not called back
    turns,     \* the turns taken, for the bounds
    pushOnly   \* history: whether every write left its node as a stamped
               \*          push that the transport accepted for every peer

mixedVars == <<up, spares, plain, counted, turns, pushOnly>>
allVars == <<vars, mixedVars>>

MInit == /\ Init
         /\ up = Nodes \ Spares
         /\ spares = Spares
         /\ plain = {} /\ counted = {}
         /\ turns = <<>>
         /\ pushOnly = TRUE

-----------------------------------------------------------------------------
Turn(kind) == /\ kind \in Turns
              /\ Len(turns) < MaxTurns
              /\ turns' = Append(turns, kind)

WritePlainly(n, k, v) == store' = [store EXCEPT ![n][k] = PlainSet(@, v)]

\* MaxWrites bounds the writes that get a stamp, MaxTurns the counters.
WritesLeft == Cardinality(issued) + Cardinality(plain) < MaxWrites

\* kvStore.Set, GetSet, Append or SetWithOptions of the handler ...
PlainWrite(n, k, v) ==
    /\ WritesLeft
    /\ Turn("plain")
    /\ WritePlainly(n, k, v)
    /\ plain' = plain \cup {[node |-> n, key |-> k, val |-> v]}
    /\ UNCHANGED <<hlc, stamped, applied, queue, net, handling, digests,
                   resends, issued, seen, up, spares, counted, pushOnly>>

\* ... and its replicate("SET", ...).
PlainCallback(c) ==
    /\ c \in plain
    /\ plain' = plain \ {c}
    /\ NextStamp(c.node, c.key, c.val)
    /\ UNCHANGED <<up, spares, counted, turns, pushOnly>>

\* kvStore.Incr or Decr: v is the new count, as a string ...
CounterWrite(n, k, v) ==
    /\ Turn("counter")
    /\ WritePlainly(n, k, v)
    /\ counted' = counted \cup {[node |-> n, key |-> k]}
    /\ UNCHANGED <<hlc, stamped, applied, queue, net, handling, digests,
                   resends, issued, seen, up, spares, plain, pushOnly>>

\* ... and replicate("INCR", key, nil): QueueReplication, whose event carries
\* the zero stamp and the value nil.
CounterCallback(c) ==
    /\ c \in counted
    /\ counted' = counted \ {c}
    /\ queue' = [queue EXCEPT ![c.node] =
                    @ \cup {[key |-> c.key, val |-> EmptyValue, stamp |-> ZeroStamp]}]
    /\ pushOnly' = FALSE
    /\ UNCHANGED <<hlc, store, stamped, applied, net, handling, digests,
                   resends, issued, seen, up, spares, plain, turns>>

-----------------------------------------------------------------------------
\* handleReplicationPush leaves the clock alone when the event has no stamp.
ReceiveUnstamped(n, w) ==
    /\ handling[n] = {}
    /\ ~IsStamped(w)
    /\ [to |-> n, write |-> w] \in net
    /\ net' = net \ {[to |-> n, write |-> w]}
    /\ handling' = [handling EXCEPT ![n] = {w}]
    /\ UNCHANGED <<hlc, store, stamped, applied, queue, digests, resends,
                   issued, seen, mixedVars>>

Sync(m, n, k) ==
    /\ SyncReply(m, n, k)
    /\ pushOnly' = FALSE
    /\ UNCHANGED <<up, spares, plain, counted, turns>>

\* The value of a key comes before its tombstone in a digest, and
\* handleSyncResponse keeps the order.
InDigestOrder(m, n, w) ==
    w.val = NoVal => ~ \E d \in digests : /\ d.from = m /\ d.to = n
                                          /\ d.write.key = w.key
                                          /\ d.write.val # NoVal

-----------------------------------------------------------------------------
\* What commit-log recovery rebuilds of a key when no entry was lost.
Recovered(ks) == IF ks.val = NoVal THEN Missing ELSE PlainSet(Missing, ks.val)

\* Mistake: the node id survives the restart.
KeptId(s) == s \in Nodes

FreshId(s) == s \in spares /\ \A t \in spares : s <= t

\* The process of n stops; what it had in memory, and what is on its way to
\* it, is gone.  Its successor is a
\* new node.
Restart(n, s) ==
    /\ FreshId(s)
    /\ Turn("restart")
    /\ spares' = spares \ {s}
    /\ up' = (up \ {n}) \cup {s}
    /\ store' = [store EXCEPT ![s] = [k \in Keys |-> Recovered(store[n][k])],
                              ![n] = [k \in Keys |-> Missing]]
    /\ hlc' = [hlc EXCEPT ![n] = ZeroTS, ![s] = ZeroTS]
    /\ seen' = [seen EXCEPT ![n] = {}]
    /\ stamped' = {w \in stamped : w.stamp.o # n}
    /\ applied' = {w \in applied : w.stamp.o # n}
    /\ plain' = {c \in plain : c.node # n}
    /\ counted' = {c \in counted : c.node # n}
    /\ queue' = [queue EXCEPT ![n] = {}]
    /\ handling' = [handling EXCEPT ![n] = {}]
    /\ net' = {m \in net : m.to # n}
    /\ digests' = {d \in digests : d.to # n}
    /\ pushOnly' = FALSE
    /\ UNCHANGED <<resends, issued>>

-----------------------------------------------------------------------------
MNext ==
    \/ \E n \in up, k \in Keys, v \in Values \cup {NoVal} :
          WritesLeft /\ NextStamp(n, k, v) /\ UNCHANGED mixedVars
    \/ (\E w \in stamped : ApplyLocal(w)) /\ UNCHANGED mixedVars
    \/ (\E w \in applied : QueueReplicationLWW(w)) /\ UNCHANGED mixedVars
    \/ \E n \in up, k \in Keys, v \in Values :
          PlainWrite(n, k, v) \/ CounterWrite(n, k, v)
    \/ \E c \in plain : PlainCallback(c)
    \/ \E c \in counted : CounterCallback(c)
    \/ \E n \in up : \E w \in queue[n] : SendBatch(up \ {n}, n, w) /\ UNCHANGED mixedVars
    \/ \E n \in up : \E w \in queue[n] :
          /\ Turn("resend")
          /\ SendBatchFails(up \ {n}, n, w)
          /\ pushOnly' = FALSE
          /\ UNCHANGED <<up, spares, plain, counted>>
    \/ \E n \in up, m \in net :
          IF IsStamped(m.write)
          THEN ReceivePush(n, m.write) /\ UNCHANGED mixedVars
          ELSE ReceiveUnstamped(n, m.write)
    \/ \E n \in up : \E w \in handling[n] : ApplyPush(n, w) /\ UNCHANGED mixedVars
    \/ \E m, n \in up, k \in Keys : Sync(m, n, k)
    \/ \E m \in Nodes, n \in up, d \in digests :
          /\ InDigestOrder(m, n, d.write)
          /\ SyncResponse(m, n, d.write)
          /\ UNCHANGED mixedVars
    \/ \E n \in up, s \in Nodes : Restart(n, s)

MSpec == MInit /\ [][MNext]_allVars

-----------------------------------------------------------------------------
(***************************************************************************)
(* A fresh process reads its clock from zero and its wall clock may have   *)
(* stepped back: stamps stay unique because the node id is fresh too       *)
(* (NewClusterManager draws a UUIDv7 at every start).                      *)
(***************************************************************************)
StampsSurviveRestarts == StampsIdentifyWrites

(***************************************************************************)
(* The plain write a handler makes before its callback leaves no trace: as *)
(* long as writes travel only by stamped pushes and none is lost, the      *)
(* replicas agree whenever nothing is on its way, in whatever order        *)
(* callbacks and pushes ran (string_commands.go:189-199,                   *)
(* handler.go:124-135).  It rests on Update: the clock is past every       *)
(* stamp in the store that the plain write covers.                         *)
(***************************************************************************)
Settled == /\ stamped = {} /\ applied = {} /\ plain = {} /\ counted = {}
           /\ net = {} /\ digests = {}
           /\ \A n \in up : queue[n] = {} /\ handling[n] = {}

Agree == \A m, n \in up, k \in Keys : store[m][k].val = store[n][k].val

PlainWritesLeaveNoTrace ==
    (Settled /\ pushOnly) => Agree

(***************************************************************************)
(* A key that a node deleted shows no older stamped write there, however   *)
(* late, repeated or reordered that comes, and whatever plain writes,      *)
(* counters and events without a stamp have put a value in its place: they *)
(* leave the tombstone, and SetWithHLC consults it although the key has a  *)
(* value (lww.go:62-71; Set and Incr do not touch shard.tombstones).  It   *)
(* ends when the node takes in a stamped SET not older, which drops the    *)
(* tombstone: a plain write over that SET leaves no stamp of either, and   *)
(* the next stamped write is stored whatever its stamp.                    *)
(***************************************************************************)
ShowsOlder(ks, s) == ks.val # NoVal /\ ks.ver # ZeroStamp /\ After(s, ks.ver)

DeletionsHold ==
    \A n \in up : \A del \in seen[n] :
        (del.val = NoVal /\ ShowsOlder(store[n][del.key], del.stamp))
            => \E set \in seen[n] : /\ set.key = del.key
                                    /\ set.val # NoVal
                                    /\ ~After(del.stamp, set.stamp)

=============================================================================
