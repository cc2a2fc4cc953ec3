------------------------------- MODULE LWWKey -------------------------------
(***************************************************************************)
(* One string key of a store shard (internal/store/lww.go and the plain    *)
(* operations of string_operations.go) as a record                         *)
(*                                                                         *)
(*   val   its value in shard.data, NoVal when the key is absent           *)
(*   ver   the hlc field of that StoredValue; ZeroStamp when the value was *)
(*         written without a stamp, or the key is absent                   *)
(*   tomb  its entry in shard.tombstones; ZeroStamp when there is none     *)
(*                                                                         *)
(* Each operator is one critical section under shard.mu.                   *)
(***************************************************************************)
EXTENDS HLC

CONSTANT NoVal

Missing == [val |-> NoVal, ver |-> ZeroStamp, tomb |-> ZeroStamp]

\* Mistake: a write is not compared with the tombstone.
WinsOverValue(ks, s) == ks.val # NoVal => After(s, ks.ver)

\* Mistake: the tombstone is consulted only when there is no value.
WinsIfAbsent(ks, s) == IF ks.val # NoVal THEN After(s, ks.ver)
                       ELSE ks.tomb # ZeroStamp => After(s, ks.tomb)

\* The last-write-wins guard shared by SetWithHLC and DeleteWithHLC: strictly
\* newer than the stored value, if any, and than the tombstone, if any.
Wins(ks, s) == /\ ks.val # NoVal => After(s, ks.ver)
               /\ ks.tomb # ZeroStamp => After(s, ks.tomb)

\* SetWithHLC: the value supersedes the tombstone.
SetWithHLC(ks, v, s) ==
    IF Wins(ks, s) THEN [val |-> v, ver |-> s, tomb |-> ZeroStamp] ELSE ks

\* Mistake: no tombstone for a key that is not there.
DeletePresent(ks, s) ==
    IF ks.val # NoVal /\ Wins(ks, s)
    THEN [val |-> NoVal, ver |-> ZeroStamp, tomb |-> s] ELSE ks

\* DeleteWithHLC: drops the value and records the tombstone, even if the key
\* is absent.
DeleteWithHLC(ks, s) ==
    IF Wins(ks, s) THEN [val |-> NoVal, ver |-> ZeroStamp, tomb |-> s] ELSE ks

\* Set, APPEND, INCR and MSET write a StoredValue with no stamp and leave the
\* tombstones alone; Delete and Clear leave none.
PlainSet(ks, v) == [ks EXCEPT !.val = v, !.ver = ZeroStamp]
PlainDelete(ks) == [ks EXCEPT !.val = NoVal, !.ver = ZeroStamp]

-----------------------------------------------------------------------------
(***************************************************************************)
(* A write to a key, as it travels: a ReplicationEvent for SET (val is the *)
(* value) or DEL (val is NoVal), and an LWWShardEntry of a digest.         *)
(***************************************************************************)
IsStamped(w) == TS(w.stamp) # ZeroTS

\* LockFreeStoreReplicationHandler.ApplyReplication, operations SET and DEL.
Apply(ks, w) ==
    CASE IsStamped(w) /\ w.val # NoVal  -> SetWithHLC(ks, w.val, w.stamp)
      [] IsStamped(w) /\ w.val = NoVal  -> DeleteWithHLC(ks, w.stamp)
      [] ~IsStamped(w) /\ w.val # NoVal -> PlainSet(ks, w.val)
      [] ~IsStamped(w) /\ w.val = NoVal -> PlainDelete(ks)

\* Mistakes: an entry for a tombstone that is not there; no tombstones.
DigestBlank(k, ks) ==
    {[key |-> k, val |-> NoVal, stamp |-> ks.tomb]}
    \cup {w \in {[key |-> k, val |-> ks.val, stamp |-> ks.ver]} : w.val # NoVal}

DigestValues(k, ks) ==
    {w \in {[key |-> k, val |-> ks.val, stamp |-> ks.ver]} : w.val # NoVal}

\* A key's entries in ShardLWWDigest: its value, then its tombstone.
Digest(k, ks) ==
    {w \in {[key |-> k, val |-> ks.val, stamp |-> ks.ver],
            [key |-> k, val |-> NoVal, stamp |-> ks.tomb]} :
        w.val # NoVal \/ IsStamped(w)}

=============================================================================
