--------------------------- MODULE ReplicationProofs ---------------------------
(***************************************************************************)
(* Safety of StringReplication, and then of MixedReplication, for every    *)
(* number of nodes, keys, values, clock readings and messages.             *)
(*                                                                         *)
(* StringReplication: the inductive invariant IInv says that a clock       *)
(* covers the stamps it has given out, that everything on its way was      *)
(* issued, and that a store shows the newest write it has taken in.        *)
(*                                                                         *)
(* MixedReplication: stamps stay unique over restarts, a stamped write     *)
(* only replaces what is older, and plain writes leave no trace as long as *)
(* every write leaves its node as an accepted push.  The lemmas about      *)
(* stamps and about taking in a write are those of the first part.         *)
(***************************************************************************)
EXTENDS MixedReplication, TLAPS

Stamps == [p : Nat, l : 0 .. LogicalMod - 1, o : Nodes]

(***************************************************************************)
(* The last-write-wins order (hlcStamp.After) is a strict total order.     *)
(***************************************************************************)
LEMMA StampFields ==
    ASSUME NEW s \in Stamps
    PROVE  /\ s.p \in Nat /\ s.l \in Nat /\ s.o \in Nat
           /\ s = [p |-> s.p, l |-> s.l, o |-> s.o]
           /\ s # ZeroStamp
<1>1. s = [p |-> s.p, l |-> s.l, o |-> s.o] /\ s.p \in Nat
      /\ s.l \in 0 .. LogicalMod - 1 /\ s.o \in Nodes
  BY DEF Stamps
<1>2. s.o \in Nat /\ s.o # 0
  BY <1>1, NodesAssumption
<1>3. s # ZeroStamp
  BY <1>2 DEF ZeroStamp, Stamp
<1> QED
  BY <1>1, <1>2, <1>3, LogicalModAssumption

\* No stamp is after itself (hlc.go, Compare).
LEMMA AfterIrreflexive == ASSUME NEW s \in Stamps PROVE ~After(s, s)
BY StampFields DEF After, TSAfter, TS

\* The order of stamps is transitive.
LEMMA AfterTransitive ==
    ASSUME NEW a \in Stamps, NEW b \in Stamps, NEW c \in Stamps,
           After(a, b), After(b, c)
    PROVE  After(a, c)
BY StampFields DEF After, TSAfter, TS

\* Of two different stamps one is after the other.
LEMMA AfterTotal ==
    ASSUME NEW a \in Stamps, NEW b \in Stamps
    PROVE  a = b \/ After(a, b) \/ After(b, a)
BY StampFields DEF After, TSAfter, TS

(***************************************************************************)
(* HLC.Now is strictly after the clock's last timestamp, and HLC.Update is *)
(* not before either of what it merges, while Logical does not wrap.       *)
(***************************************************************************)
LEMMA NowAdvances ==
    ASSUME NEW last \in Timestamps, NEW pt \in Time, last.l + 1 < LogicalMod
    PROVE  /\ Now(last, pt) \in Timestamps
           /\ TSAfter(Now(last, pt), last)
           /\ Now(last, pt) # ZeroTS
BY TimeAssumption, LogicalModAssumption
   DEF Timestamps, Now, Bump, TSAfter, ZeroTS

\* Update leaves the clock past its reading and past the stamp it got.
LEMMA UpdateAdvances ==
    ASSUME NEW last \in Timestamps, NEW remote \in Timestamps, NEW pt \in Time,
           last.l + 1 < LogicalMod, remote.l + 1 < LogicalMod
    PROVE  /\ Update(last, remote, pt) \in Timestamps
           /\ TSAfter(Update(last, remote, pt), last)
           /\ TSAfter(Update(last, remote, pt), remote)
BY TimeAssumption, LogicalModAssumption
   DEF Timestamps, Update, TSMax, Bump, TSAfter

\* Between stamps of one node the order is that of their timestamps.
LEMMA AfterSameClock ==
    ASSUME NEW a \in Timestamps, NEW b \in Timestamps, NEW c \in Timestamps,
           TSAfter(b, a), ~TSAfter(c, a)
    PROVE  ~TSAfter(c, b) /\ c # b
BY LogicalModAssumption DEF Timestamps, TSAfter

-----------------------------------------------------------------------------
(***************************************************************************)
(* What the store's operations do to a key that shows one write.           *)
(***************************************************************************)
LEMMA WriteFields ==
    ASSUME NEW w \in Writes
    PROVE  /\ w = [key |-> w.key, val |-> w.val, stamp |-> w.stamp]
           /\ w.stamp \in Stamps
           /\ w.stamp.o \in Nodes
           /\ TS(w.stamp) \in Timestamps
           /\ w.key \in Keys
           /\ w.val \in Values \cup {NoVal}
BY DEF Writes, Stamps, TS, Timestamps

\* A key that was never written takes any write (lww.go:57).
LEMMA ApplyToMissing ==
    ASSUME NEW w \in Writes, IsStamped(w)
    PROVE  Apply(Missing, w) = Showing(w)
BY WriteFields
   DEF Apply, SetWithHLC, DeleteWithHLC, Wins, Missing, Showing

\* A key that shows a write takes the newer ones and drops the others.
LEMMA ApplyToShowing ==
    ASSUME NEW v \in Writes, NEW w \in Writes, IsStamped(w)
    PROVE  Apply(Showing(v), w) =
             IF After(w.stamp, v.stamp) THEN Showing(w) ELSE Showing(v)
<1>1. v.stamp # ZeroStamp
  BY WriteFields, StampFields
<1>2. Wins(Showing(v), w.stamp) <=> After(w.stamp, v.stamp)
  BY <1>1 DEF Wins, Showing, Missing
<1>3. CASE w.val = NoVal
  BY <1>2, <1>3 DEF Apply, DeleteWithHLC, Showing, Missing
<1>4. CASE w.val # NoVal
  BY <1>2, <1>4 DEF Apply, SetWithHLC, Showing, Missing
<1> QED
  BY <1>3, <1>4

\* The digest of a key that shows a write is that write.
LEMMA DigestOfShowing ==
    ASSUME NEW w \in Writes, IsStamped(w)
    PROVE  Digest(w.key, Showing(w)) = {w}
<1>1. ~ IsStamped([key |-> w.key, val |-> NoVal, stamp |-> ZeroStamp])
  BY DEF IsStamped, ZeroStamp, Stamp, TS, ZeroTS
<1>2. CASE w.val = NoVal
  BY <1>1, <1>2, WriteFields DEF Digest, Showing, Missing
<1>3. CASE w.val # NoVal
  BY <1>1, <1>3, WriteFields DEF Digest, Showing, Missing
<1> QED
  BY <1>2, <1>3

\* A key that was never written is in no digest.
LEMMA DigestOfMissing == ASSUME NEW k PROVE Digest(k, Missing) = {}
BY DEF Digest, Missing, IsStamped, ZeroStamp, Stamp, TS, ZeroTS

\* Taking in a write keeps the store at the newest write it has taken in.
LEMMA TakingIn ==
    ASSUME NEW W \in SUBSET issued, NEW w \in issued, NEW ks,
           issued \subseteq Writes, StampsIdentifyWrites,
           \A x \in issued : IsStamped(x),
           ShowsNewest(ks, W)
    PROVE  ShowsNewest(Apply(ks, w), W \cup {w})
<1>1. CASE W = {} /\ ks = Missing
  BY <1>1, ApplyToMissing DEF ShowsNewest
<1>2. ASSUME NEW v \in W, ks = Showing(v),
             \A x \in W \ {v} : After(v.stamp, x.stamp)
      PROVE  ShowsNewest(Apply(ks, w), W \cup {w})
  <2>1. Apply(ks, w) = IF After(w.stamp, v.stamp) THEN Showing(w) ELSE Showing(v)
    BY <1>2, ApplyToShowing
  <2>2. CASE After(w.stamp, v.stamp)
    <3>1. \A x \in W : After(w.stamp, x.stamp)
      BY <1>2, <2>2, AfterTransitive, WriteFields
    <3> QED
      BY <2>1, <2>2, <3>1 DEF ShowsNewest
  <2>3. CASE ~After(w.stamp, v.stamp)
    <3>1. w = v \/ After(v.stamp, w.stamp)
      BY <2>3, AfterTotal, WriteFields DEF StampsIdentifyWrites
    <3> QED
      BY <1>2, <2>1, <2>3, <3>1 DEF ShowsNewest
  <2> QED
    BY <2>2, <2>3
<1> QED
  BY <1>1, <1>2 DEF ShowsNewest

(***************************************************************************)
(* A store step, of whichever path: the conjuncts of IInv it can disturb.  *)
(***************************************************************************)
LEMMA StoreStep ==
    ASSUME IInv, NEW n \in Nodes, NEW w \in issued, StoreAt(n, w)
    PROVE  /\ store' \in [Nodes -> [Keys -> KeyStates]]
           /\ seen' \in [Nodes -> SUBSET Writes]
           /\ \A m \in Nodes : seen'[m] \subseteq issued
           /\ \A m \in Nodes, k \in Keys :
                 ShowsNewest(store'[m][k], {x \in seen'[m] : x.key = k})
<1> USE DEF IInv
<1>1. CASE RefuseAt(n, w)
  BY <1>1 DEF RefuseAt, TypeOK, OnlyIssued, StoresShowNewest, SeenOf
<1>2. CASE ApplyAt(n, w)
  <2>1. w \in Writes /\ w.key \in Keys
    BY WriteFields DEF TypeOK
  <2>2. seen' \in [Nodes -> SUBSET Writes]
        /\ \A m \in Nodes : seen'[m] \subseteq issued
    BY <1>2, <2>1 DEF ApplyAt, TypeOK, OnlyIssued
  <2>3. Apply(store[n][w.key], w) \in KeyStates
    <3>1. store[n][w.key] \in KeyStates
      BY <2>1 DEF TypeOK
    <3>2. ZeroStamp \in Versions /\ w.stamp \in Versions
      BY <2>1, LogicalModAssumption DEF Versions, Writes, ZeroStamp, Stamp, ZeroTS
    <3>3. w.val \in Values \cup {NoVal}
      BY <2>1, WriteFields
    <3> QED
      BY <3>1, <3>2, <3>3
      DEF KeyStates, Apply, SetWithHLC, DeleteWithHLC, PlainSet, PlainDelete
  <2>4. store' \in [Nodes -> [Keys -> KeyStates]]
    BY <1>2, <2>1, <2>3 DEF ApplyAt, TypeOK
  <2>5. ASSUME NEW m \in Nodes, NEW k \in Keys
        PROVE  ShowsNewest(store'[m][k], {x \in seen'[m] : x.key = k})
    <3>1. CASE m = n /\ k = w.key
      <4>1. store'[m][k] = Apply(store[m][k], w)
        BY <1>2, <3>1 DEF ApplyAt, TypeOK
      <4>2. {x \in seen'[m] : x.key = k} = SeenOf(m, k) \cup {w}
        BY <1>2, <3>1 DEF ApplyAt, TypeOK, SeenOf
      <4>3. SeenOf(m, k) \in SUBSET issued
        BY DEF OnlyIssued, SeenOf
      <4>4. ShowsNewest(store[m][k], SeenOf(m, k))
        BY DEF StoresShowNewest
      <4>5. issued \subseteq Writes /\ \A x \in issued : IsStamped(x)
        BY DEF TypeOK, ClockCoversIssued
      <4> HIDE DEF IInv
      <4>6. StampsIdentifyWrites
        BY DEF IInv
      <4> QED
        BY <4>1, <4>2, <4>3, <4>4, <4>5, <4>6, TakingIn
    <3>2. CASE ~(m = n /\ k = w.key)
      <4>1. store'[m][k] = store[m][k]
        BY <1>2, <3>2 DEF ApplyAt, TypeOK
      <4>2. {x \in seen'[m] : x.key = k} = SeenOf(m, k)
        BY <1>2, <3>2 DEF ApplyAt, TypeOK, SeenOf
      <4> QED
        BY <4>1, <4>2 DEF StoresShowNewest
    <3> QED
      BY <3>1, <3>2
  <2> QED
    BY <2>2, <2>4, <2>5
<1> QED
  BY <1>1, <1>2 DEF StoreAt

-----------------------------------------------------------------------------
(***************************************************************************)
(* IInv is inductive.                                                      *)
(***************************************************************************)
LEMMA InitIInv == Init => IInv
<1> SUFFICES ASSUME Init PROVE IInv
  OBVIOUS
<1>1. TypeOK
  <2>1. ZeroTS \in Timestamps /\ ZeroStamp \in Versions
    BY LogicalModAssumption
    DEF Timestamps, Versions, ZeroTS, ZeroStamp, Stamp
  <2> QED
    BY <2>1 DEF Init, TypeOK, KeyStates, Missing
<1>2. ClockCoversIssued /\ StampsIdentifyWrites /\ OnlyIssued
  BY DEF Init, ClockCoversIssued, StampsIdentifyWrites, OnlyIssued
<1>3. StoresShowNewest
  BY DEF Init, StoresShowNewest, ShowsNewest, SeenOf
<1> QED
  BY <1>1, <1>2, <1>3 DEF IInv

\* A fresh stamp is ahead of every stamp of its node, and of no other node's.
LEMMA NextStampIInv ==
    ASSUME IInv, NEW n \in Nodes, NEW k \in Keys, NEW v \in Values \cup {NoVal},
           NextStamp(n, k, v)
    PROVE  IInv'
<1> USE DEF IInv
<1>1. PICK pt \in Time :
         LET ts == Now(hlc[n], pt)
             w  == [key |-> k, val |-> v, stamp |-> Stamp(ts, n)]
         IN  /\ hlc' = [hlc EXCEPT ![n] = ts]
             /\ stamped' = stamped \cup {w}
             /\ issued' = issued \cup {w}
  BY DEF NextStamp
<1> DEFINE ts == Now(hlc[n], pt)
           w  == [key |-> k, val |-> v, stamp |-> Stamp(ts, n)]
<1>2. /\ ts \in Timestamps
      /\ TSAfter(ts, hlc[n])
      /\ ts # ZeroTS
  BY NowAdvances DEF NextStamp, TypeOK
<1>3. w \in Writes /\ TS(w.stamp) = ts /\ w.stamp.o = n
  BY <1>2 DEF Writes, Stamp, TS, Timestamps
<1>4. /\ hlc' = [hlc EXCEPT ![n] = ts]
      /\ stamped' = stamped \cup {w}
      /\ issued' = issued \cup {w}
  BY <1>1
<1>5. \A x \in issued : x.stamp.o = n => x.stamp # w.stamp /\ ~TSAfter(TS(x.stamp), ts)
  <2> SUFFICES ASSUME NEW x \in issued, x.stamp.o = n
               PROVE  TS(x.stamp) # ts /\ ~TSAfter(TS(x.stamp), ts)
    BY <1>3
  <2>1. TS(x.stamp) \in Timestamps /\ ~TSAfter(TS(x.stamp), hlc[n])
    BY WriteFields DEF TypeOK, ClockCoversIssued
  <2> QED
    BY <1>2, <2>1, AfterSameClock DEF TypeOK
<1> HIDE DEF ts, w
<1>6. TypeOK'
  BY <1>2, <1>3, <1>4 DEF NextStamp, TypeOK
<1>7. ClockCoversIssued'
  <2> SUFFICES ASSUME NEW x \in issued'
               PROVE  IsStamped(x) /\ ~TSAfter(TS(x.stamp), hlc'[x.stamp.o])
    BY DEF ClockCoversIssued
  <2>1. CASE x = w
    BY <1>2, <1>3, <1>4, <2>1 DEF IsStamped, TypeOK, TSAfter, Timestamps
  <2>2. CASE x \in issued
    BY <1>4, <1>5, <2>2, WriteFields DEF TypeOK, ClockCoversIssued
  <2> QED
    BY <1>4, <2>1, <2>2
<1>8. StampsIdentifyWrites'
  BY <1>3, <1>4, <1>5 DEF StampsIdentifyWrites
<1>9. OnlyIssued'
  BY <1>4 DEF NextStamp, OnlyIssued
<1>10. StoresShowNewest'
  BY DEF NextStamp, StoresShowNewest, SeenOf
<1> QED
  BY <1>6, <1>7, <1>8, <1>9, <1>10

\* The callback applies the write it stamped (handler.go:125-131).
LEMMA ApplyLocalIInv ==
    ASSUME IInv, NEW w \in stamped, ApplyLocal(w) PROVE IInv'
<1> USE DEF IInv
<1>1. w \in issued /\ w \in Writes /\ w.stamp.o \in Nodes
  BY WriteFields DEF OnlyIssued, TypeOK
<1>2. /\ store' \in [Nodes -> [Keys -> KeyStates]]
      /\ seen' \in [Nodes -> SUBSET Writes]
      /\ \A m \in Nodes : seen'[m] \subseteq issued
      /\ \A m \in Nodes, k \in Keys :
            ShowsNewest(store'[m][k], {x \in seen'[m] : x.key = k})
  <2> HIDE DEF IInv
  <2> QED
    BY <1>1, StoreStep DEF ApplyLocal
<1>3. TypeOK'
  BY <1>1, <1>2 DEF ApplyLocal, TypeOK
<1>4. (ClockCoversIssued /\ StampsIdentifyWrites)'
  BY DEF ApplyLocal, ClockCoversIssued, StampsIdentifyWrites
<1>5. OnlyIssued'
  BY <1>1, <1>2 DEF ApplyLocal, OnlyIssued
<1>6. StoresShowNewest'
  BY <1>2 DEF StoresShowNewest, SeenOf
<1> QED
  BY <1>3, <1>4, <1>5, <1>6

\* A pushed write is applied (replication.go:65).
LEMMA ApplyPushIInv ==
    ASSUME IInv, NEW n \in Nodes, NEW w \in handling[n], ApplyPush(n, w)
    PROVE  IInv'
<1> USE DEF IInv
<1>1. w \in issued
  BY DEF OnlyIssued
<1>2. /\ store' \in [Nodes -> [Keys -> KeyStates]]
      /\ seen' \in [Nodes -> SUBSET Writes]
      /\ \A m \in Nodes : seen'[m] \subseteq issued
      /\ \A m \in Nodes, k \in Keys :
            ShowsNewest(store'[m][k], {x \in seen'[m] : x.key = k})
  <2> HIDE DEF IInv
  <2> QED
    BY <1>1, StoreStep DEF ApplyPush
<1>3. TypeOK'
  BY <1>2 DEF ApplyPush, TypeOK
<1>4. (ClockCoversIssued /\ StampsIdentifyWrites)'
  BY DEF ApplyPush, ClockCoversIssued, StampsIdentifyWrites
<1>5. OnlyIssued'
  BY <1>2 DEF ApplyPush, OnlyIssued, TypeOK
<1>6. StoresShowNewest'
  BY <1>2 DEF StoresShowNewest, SeenOf
<1> QED
  BY <1>3, <1>4, <1>5, <1>6

\* A write of a digest is applied (antientropy.go:98).
LEMMA SyncResponseIInv ==
    ASSUME IInv, NEW m \in Nodes, NEW n \in Nodes, NEW d \in digests,
           SyncResponse(m, n, d.write)
    PROVE  IInv'
<1> USE DEF IInv
<1>1. d.write \in issued
  BY DEF OnlyIssued
<1>2. /\ store' \in [Nodes -> [Keys -> KeyStates]]
      /\ seen' \in [Nodes -> SUBSET Writes]
      /\ \A i \in Nodes : seen'[i] \subseteq issued
      /\ \A i \in Nodes, k \in Keys :
            ShowsNewest(store'[i][k], {x \in seen'[i] : x.key = k})
  <2> HIDE DEF IInv
  <2> QED
    BY <1>1, StoreStep DEF SyncResponse
<1>3. TypeOK'
  BY <1>2 DEF SyncResponse, TypeOK
<1>4. (ClockCoversIssued /\ StampsIdentifyWrites)'
  BY DEF SyncResponse, ClockCoversIssued, StampsIdentifyWrites
<1>5. OnlyIssued'
  BY <1>2 DEF SyncResponse, OnlyIssued
<1>6. StoresShowNewest'
  BY <1>2 DEF StoresShowNewest, SeenOf
<1> QED
  BY <1>3, <1>4, <1>5, <1>6

\* Merging a stamp never moves a clock back.
LEMMA ReceivePushIInv ==
    ASSUME IInv, NEW n \in Nodes, NEW m \in net, ReceivePush(n, m.write)
    PROVE  IInv'
<1> USE DEF IInv
<1>1. m.write \in issued /\ m.write \in Writes
  BY DEF OnlyIssued, TypeOK
<1>2. PICK pt \in Time : hlc' = [hlc EXCEPT ![n] = Update(@, TS(m.write.stamp), pt)]
  BY DEF ReceivePush
<1>3. /\ Update(hlc[n], TS(m.write.stamp), pt) \in Timestamps
      /\ TSAfter(Update(hlc[n], TS(m.write.stamp), pt), hlc[n])
  <2>1. TS(m.write.stamp).l = m.write.stamp.l /\ TS(m.write.stamp) \in Timestamps
    BY <1>1, WriteFields DEF TS
  <2> QED
    BY <2>1, UpdateAdvances DEF ReceivePush, TypeOK
<1>4. TypeOK'
  BY <1>1, <1>2, <1>3 DEF ReceivePush, TypeOK
<1>5. ClockCoversIssued'
  <2> SUFFICES ASSUME NEW x \in issued
               PROVE  IsStamped(x) /\ ~TSAfter(TS(x.stamp), hlc'[x.stamp.o])
    BY DEF ReceivePush, ClockCoversIssued
  <2>1. TS(x.stamp) \in Timestamps /\ x.stamp.o \in Nodes
    BY WriteFields DEF TypeOK
  <2>2. CASE x.stamp.o = n
    BY <1>2, <1>3, <2>1, <2>2, AfterSameClock DEF TypeOK, ClockCoversIssued
  <2>3. CASE x.stamp.o # n
    BY <1>2, <2>1, <2>3 DEF TypeOK, ClockCoversIssued
  <2> QED
    BY <2>2, <2>3
<1>6. StampsIdentifyWrites'
  BY DEF ReceivePush, StampsIdentifyWrites
<1>7. OnlyIssued'
  BY <1>1 DEF ReceivePush, OnlyIssued, TypeOK
<1>8. StoresShowNewest'
  BY DEF ReceivePush, StoresShowNewest, SeenOf
<1> QED
  BY <1>4, <1>5, <1>6, <1>7, <1>8

\* A digest entry is the write the key shows.
LEMMA SyncReplyIInv ==
    ASSUME IInv, NEW m \in Nodes, NEW n \in Nodes, NEW k \in Keys,
           SyncReply(m, n, k)
    PROVE  IInv'
<1> USE DEF IInv
<1>1. Digest(k, store[m][k]) \subseteq issued
  <2>1. ShowsNewest(store[m][k], SeenOf(m, k)) /\ SeenOf(m, k) \subseteq issued
    BY DEF StoresShowNewest, OnlyIssued, SeenOf
  <2>2. CASE store[m][k] = Missing
    BY <2>2, DigestOfMissing
  <2>3. ASSUME NEW w \in SeenOf(m, k), store[m][k] = Showing(w)
        PROVE  Digest(k, store[m][k]) \subseteq issued
    <3>1. w \in issued /\ w \in Writes /\ IsStamped(w) /\ w.key = k
      BY <2>1 DEF SeenOf, ClockCoversIssued, TypeOK
    <3> QED
      BY <2>3, <3>1, DigestOfShowing
  <2> QED
    BY <2>1, <2>2, <2>3 DEF ShowsNewest
<1>2. TypeOK'
  BY <1>1 DEF SyncReply, TypeOK
<1>3. (ClockCoversIssued /\ StampsIdentifyWrites)'
  BY DEF SyncReply, ClockCoversIssued, StampsIdentifyWrites
<1>4. OnlyIssued'
  BY <1>1 DEF SyncReply, OnlyIssued
<1>5. StoresShowNewest'
  BY DEF SyncReply, StoresShowNewest, SeenOf
<1> QED
  BY <1>2, <1>3, <1>4, <1>5

\* Every step preserves the inductive invariant.
LEMMA NextIInv == IInv /\ [Next]_vars => IInv'
<1> SUFFICES ASSUME IInv, [Next]_vars PROVE IInv'
  OBVIOUS
<1>1. ASSUME NEW n \in Nodes, NEW k \in Keys, NEW v \in Values \cup {NoVal},
             NextStamp(n, k, v)
      PROVE  IInv'
  BY <1>1, NextStampIInv
<1>2. ASSUME NEW w \in stamped, ApplyLocal(w) PROVE IInv'
  BY <1>2, ApplyLocalIInv
<1>3. ASSUME NEW w \in applied, QueueReplicationLWW(w) PROVE IInv'
  <2>1. w \in issued /\ w.stamp.o \in Nodes
    BY WriteFields DEF IInv, OnlyIssued, TypeOK
  <2>2. TypeOK' /\ OnlyIssued'
    BY <1>3, <2>1 DEF QueueReplicationLWW, IInv, TypeOK, OnlyIssued
  <2>3. (ClockCoversIssued /\ StampsIdentifyWrites /\ StoresShowNewest)'
    BY <1>3 DEF QueueReplicationLWW, IInv, ClockCoversIssued,
                StampsIdentifyWrites, StoresShowNewest, SeenOf
  <2> QED
    BY <2>2, <2>3 DEF IInv
<1>4. ASSUME NEW n \in Nodes, NEW w \in queue[n],
             SendBatch(Peers(n), n, w) \/ SendBatchFails(Peers(n), n, w)
      PROVE  IInv'
  <2>1. w \in issued /\ w \in Writes
    BY DEF IInv, OnlyIssued, TypeOK
  <2>2. PICK reached \in SUBSET Peers(n) :
           net' = net \cup [to : reached, write : {w}]
    BY <1>4 DEF SendBatch, SendBatchFails, SendTo, Peers
  <2>3. queue' \in [Nodes -> SUBSET Writes] /\ \A m \in Nodes : queue'[m] \subseteq queue[m]
    BY <1>4 DEF SendBatch, SendBatchFails, IInv, TypeOK
  <2>4. resends' \in Nat
    BY <1>4 DEF SendBatch, SendBatchFails, IInv, TypeOK
  <2>5. UNCHANGED <<hlc, store, stamped, applied, handling, digests, issued, seen>>
    BY <1>4 DEF SendBatch, SendBatchFails
  <2>6. TypeOK'
    BY <2>1, <2>2, <2>3, <2>4, <2>5 DEF Peers, IInv, TypeOK
  <2>7. OnlyIssued'
    BY <2>1, <2>2, <2>3, <2>5 DEF IInv, OnlyIssued
  <2>8. (ClockCoversIssued /\ StampsIdentifyWrites /\ StoresShowNewest)'
    BY <2>5 DEF IInv, ClockCoversIssued, StampsIdentifyWrites,
                StoresShowNewest, SeenOf
  <2> QED
    BY <2>6, <2>7, <2>8 DEF IInv
<1>5. ASSUME NEW n \in Nodes, NEW m \in net, ReceivePush(n, m.write) PROVE IInv'
  BY <1>5, ReceivePushIInv
<1>6. ASSUME NEW n \in Nodes, NEW w \in handling[n], ApplyPush(n, w) PROVE IInv'
  BY <1>6, ApplyPushIInv
<1>7. ASSUME NEW m \in Nodes, NEW n \in Nodes, NEW k \in Keys, SyncReply(m, n, k)
      PROVE  IInv'
  BY <1>7, SyncReplyIInv
<1>8. ASSUME NEW m \in Nodes, NEW n \in Nodes, NEW d \in digests,
             SyncResponse(m, n, d.write)
      PROVE  IInv'
  BY <1>8, SyncResponseIInv
<1>9. CASE UNCHANGED vars
  BY <1>9 DEF vars, IInv, TypeOK, ClockCoversIssued, StampsIdentifyWrites,
              OnlyIssued, StoresShowNewest, SeenOf
<1> QED
  BY <1>1, <1>2, <1>3, <1>4, <1>5, <1>6, <1>7, <1>8, <1>9
  DEF Next, Client, Push, AntiEntropy

(***************************************************************************)
(* The inductive invariant holds of every behaviour of the module.         *)
(***************************************************************************)
THEOREM Invariance == Spec => []IInv
<1> QED
  BY InitIInv, NextIInv, PTL DEF Spec

-----------------------------------------------------------------------------
(***************************************************************************)
(* Type correctness: every clock, stamp and message stays well formed.     *)
(***************************************************************************)
THEOREM TypeCorrect == Spec => []TypeOK
<1>1. IInv => TypeOK
  BY DEF IInv
<1> QED
  BY <1>1, Invariance, PTL

(***************************************************************************)
(* No two writes of the cluster ever get the same stamp (NextStamp).       *)
(***************************************************************************)
THEOREM UniqueStamps == Spec => []StampsIdentifyWrites
<1>1. IInv => StampsIdentifyWrites
  BY DEF IInv
<1> QED
  BY <1>1, Invariance, PTL

\* The newest write of a set is unique, so Result is well defined.
LEMMA ShowsResult ==
    ASSUME NEW W \in SUBSET Writes, NEW ks, ShowsNewest(ks, W)
    PROVE  ks = Result(W)
<1>1. CASE W = {} /\ ks = Missing
  BY <1>1 DEF Result
<1>2. ASSUME NEW w \in W, ks = Showing(w),
             \A x \in W \ {w} : After(w.stamp, x.stamp)
      PROVE  ks = Result(W)
  <2>1. Newest(W) = {w}
    <3>1. \A x \in W \ {w} : ~After(x.stamp, w.stamp)
      BY <1>2, AfterTransitive, AfterIrreflexive, WriteFields
    <3> QED
      BY <1>2, <3>1 DEF Newest
  <2> QED
    BY <1>2, <2>1 DEF Result
<1> QED
  BY <1>1, <1>2 DEF ShowsNewest

(***************************************************************************)
(* Every store is the newest-wins result of the writes it has taken in,    *)
(* in whatever order and however often they arrived.                       *)
(***************************************************************************)
THEOREM NewestWins == Spec => []StoreIsNewestSeen
<1>1. IInv => StoreIsNewestSeen
  <2> SUFFICES ASSUME IInv, NEW n \in Nodes, NEW k \in Keys
               PROVE  store[n][k] = Result(SeenOf(n, k))
    BY DEF StoreIsNewestSeen
  <2>1. SeenOf(n, k) \in SUBSET Writes /\ ShowsNewest(store[n][k], SeenOf(n, k))
    BY DEF IInv, TypeOK, StoresShowNewest, SeenOf
  <2> QED
    BY <2>1, ShowsResult
<1> QED
  BY <1>1, Invariance, PTL

(***************************************************************************)
(* "All replicas converge" (handler.go:119-123), for every cluster.        *)
(***************************************************************************)
THEOREM Convergence == Spec => []ReplicasConverge
<1>1. StoreIsNewestSeen => ReplicasConverge
  BY DEF StoreIsNewestSeen, ReplicasConverge
<1> QED
  BY <1>1, NewestWins, PTL

-----------------------------------------------------------------------------
(***************************************************************************)
(* The cluster implements ReplicatedStore: drawing a stamp is Issue, a     *)
(* store step that changes the key is Adopt, and all else stutters.        *)
(***************************************************************************)
Held == [n \in Nodes |-> [k \in Keys |-> Shown(n, k)]]

\* What the abstract store shows of a key that shows a write is that write.
LEMMA ShowingShown ==
    ASSUME IInv, NEW n \in Nodes, NEW k \in Keys
    PROVE  \/ store[n][k] = Missing /\ Shown(n, k) = {}
           \/ \E w \in issued : /\ w.key = k
                                /\ store[n][k] = Showing(w)
                                /\ Shown(n, k) = {w}
<1>1. ShowsNewest(store[n][k], SeenOf(n, k))
  BY DEF IInv, StoresShowNewest
<1>2. CASE store[n][k] = Missing
  BY <1>2 DEF Shown
<1>3. ASSUME NEW w \in SeenOf(n, k), store[n][k] = Showing(w)
      PROVE  w \in issued /\ w.key = k /\ Shown(n, k) = {w}
  <2>1. w \in issued /\ w \in Writes /\ w.key = k
    BY DEF SeenOf, IInv, OnlyIssued, TypeOK
  <2>2. w.stamp # ZeroStamp
    BY <2>1, WriteFields, StampFields
  <2>3. /\ Showing(w).val = w.val
        /\ Version(Showing(w)) = w.stamp
        /\ Showing(w) # Missing
    BY <2>2 DEF Showing, Version, Missing
  <2> QED
    BY <1>3, <2>1, <2>3, WriteFields DEF Shown
<1> QED
  BY <1>1, <1>2, <1>3 DEF ShowsNewest

\* Drawing a stamp issues a write with a stamp nobody has.
LEMMA IssueStep ==
    ASSUME IInv, IInv', NEW n \in Nodes, NEW k \in Keys,
           NEW v \in Values \cup {NoVal}, NextStamp(n, k, v)
    PROVE  Promise!Issue \/ UNCHANGED <<issued, Held>>
<1>1. PICK w : issued' = issued \cup {w}
  BY DEF NextStamp
<1>2. UNCHANGED Held
  BY DEF NextStamp, Held, Shown, Version
<1>3. CASE w \in issued
  BY <1>1, <1>2, <1>3
<1>4. CASE w \notin issued
  <2>1. w \in Writes /\ w \in issued' \ issued
    BY <1>1, <1>4 DEF IInv, TypeOK
  <2>2. \A x \in issued : x.stamp # w.stamp
    BY <1>1, <1>4 DEF IInv, StampsIdentifyWrites
  <2> QED
    BY <1>1, <1>2, <2>1, <2>2
    DEF Promise!Issue, Promise!Writes, Writes, Held
<1> QED
  BY <1>3, <1>4

\* Applying an issued write adopts a newer one or changes nothing.
LEMMA AdoptStep ==
    ASSUME IInv, NEW n \in Nodes, NEW w \in issued, StoreAt(n, w), UNCHANGED issued
    PROVE  Promise!Adopt \/ UNCHANGED <<issued, Held>>
<1>1. CASE RefuseAt(n, w)
  BY <1>1 DEF RefuseAt, Held, Shown, Version
<1>2. CASE ApplyAt(n, w)
  <2> DEFINE k == w.key
  <2>1. w \in Writes /\ k \in Keys /\ IsStamped(w)
    BY WriteFields DEF IInv, TypeOK, ClockCoversIssued
  <2>2. store' = [store EXCEPT ![n][k] = Apply(@, w)]
    BY <1>2 DEF ApplyAt
  <2>3. store \in [Nodes -> [Keys -> KeyStates]]
    BY DEF IInv, TypeOK
  <2>4. CASE Apply(store[n][k], w) = store[n][k]
    <3>1. store' = store
      BY <2>1, <2>2, <2>3, <2>4
    <3> QED
      BY <3>1 DEF Held, Shown, Version
  <2>5. CASE Apply(store[n][k], w) # store[n][k]
    <3>1. Apply(store[n][k], w) = Showing(w) /\ \A x \in Shown(n, k) : After(w.stamp, x.stamp)
      <4>1. CASE store[n][k] = Missing /\ Shown(n, k) = {}
        BY <2>1, <4>1, ApplyToMissing
      <4>2. ASSUME NEW v \in issued, store[n][k] = Showing(v), Shown(n, k) = {v}
            PROVE  Apply(store[n][k], w) = Showing(w) /\ After(w.stamp, v.stamp)
        <5>1. v \in Writes
          BY DEF IInv, TypeOK
        <5> QED
          BY <2>1, <2>5, <4>2, <5>1, ApplyToShowing
      <4> QED
        BY <2>1, <4>1, <4>2, ShowingShown
    <3>2. store'[n][k] = Showing(w)
      BY <2>1, <2>2, <2>3, <3>1
    <3>3. Shown(n, k)' = {w}
      <4>1. w.stamp # ZeroStamp
        BY <2>1, WriteFields, StampFields
      <4>2. /\ Showing(w).val = w.val
            /\ Version(Showing(w)) = w.stamp
            /\ Showing(w) # Missing
        BY <4>1 DEF Showing, Version, Missing
      <4>3. Shown(n, k)' = {[key |-> k, val |-> w.val, stamp |-> w.stamp]}
        BY <3>2, <4>2 DEF Shown, Version
      <4> QED
        BY <2>1, <4>3, WriteFields
    <3>4. \A i \in Nodes, j \in Keys : <<i, j>> # <<n, k>> => Shown(i, j)' = Shown(i, j)
      BY <2>1, <2>2, <2>3 DEF Shown, Version
    <3>5. Held' = [Held EXCEPT ![n][k] = {w}]
      BY <2>1, <3>3, <3>4 DEF Held
    <3>6. Promise!NewerThan(w, Shown(n, k))
      BY <3>1 DEF Promise!NewerThan, Promise!After, Promise!TSAfter, Promise!TS,
                  After, TSAfter, TS
    <3>7. \E i \in Nodes, j \in Keys : \E x \in issued :
             /\ x.key = j
             /\ Promise!NewerThan(x, Held[i][j])
             /\ Held' = [Held EXCEPT ![i][j] = {x}]
      <4>1. Held[n][k] = Shown(n, k)
        BY <2>1 DEF Held
      <4> QED
        BY <2>1, <3>5, <3>6, <4>1
    <3> QED
      BY <3>7 DEF Promise!Adopt, Held
  <2> QED
    BY <2>4, <2>5
<1> QED
  BY <1>1, <1>2 DEF StoreAt

(***************************************************************************)
(* No node shows a value nobody wrote or goes back to an older write: the  *)
(* cluster implements the specification of ReplicatedStore.                *)
(***************************************************************************)
THEOREM Refinement == Spec => ImplementsPromise
<1>1. Init => Promise!AInit
  BY DEF Init, Promise!AInit, Shown
<1>2. IInv /\ IInv' /\ [Next]_vars => [Promise!ANext]_<<issued, Held>>
  <2> SUFFICES ASSUME IInv, IInv', [Next]_vars
               PROVE  Promise!ANext \/ UNCHANGED <<issued, Held>>
    OBVIOUS
  <2> USE DEF Promise!ANext
  <2>1. ASSUME NEW n \in Nodes, NEW k \in Keys, NEW v \in Values \cup {NoVal},
               NextStamp(n, k, v)
        PROVE  Promise!ANext \/ UNCHANGED <<issued, Held>>
    BY <2>1, IssueStep
  <2>2. ASSUME NEW w \in stamped, ApplyLocal(w)
        PROVE  Promise!ANext \/ UNCHANGED <<issued, Held>>
    <3>1. w \in issued /\ w.stamp.o \in Nodes
      BY WriteFields DEF IInv, OnlyIssued, TypeOK
    <3> QED
      BY <2>2, <3>1, AdoptStep DEF ApplyLocal
  <2>3. ASSUME NEW n \in Nodes, NEW w \in handling[n], ApplyPush(n, w)
        PROVE  Promise!ANext \/ UNCHANGED <<issued, Held>>
    <3>1. w \in issued
      BY DEF IInv, OnlyIssued
    <3> QED
      BY <2>3, <3>1, AdoptStep DEF ApplyPush
  <2>4. ASSUME NEW m \in Nodes, NEW n \in Nodes, NEW d \in digests,
               SyncResponse(m, n, d.write)
        PROVE  Promise!ANext \/ UNCHANGED <<issued, Held>>
    <3>1. d.write \in issued
      BY DEF IInv, OnlyIssued
    <3> QED
      BY <2>4, <3>1, AdoptStep DEF SyncResponse
  <2>5. ASSUME UNCHANGED <<issued, store>>
        PROVE  Promise!ANext \/ UNCHANGED <<issued, Held>>
    BY <2>5 DEF Held, Shown, Version
  <2>6. ASSUME NEW w \in applied, QueueReplicationLWW(w)
        PROVE  UNCHANGED <<issued, store>>
    BY <2>6 DEF QueueReplicationLWW
  <2>7. ASSUME NEW n \in Nodes, NEW w \in queue[n],
               SendBatch(Peers(n), n, w) \/ SendBatchFails(Peers(n), n, w)
        PROVE  UNCHANGED <<issued, store>>
    BY <2>7 DEF SendBatch, SendBatchFails
  <2>8. ASSUME NEW n \in Nodes, NEW m \in net, ReceivePush(n, m.write)
        PROVE  UNCHANGED <<issued, store>>
    BY <2>8 DEF ReceivePush
  <2>9. ASSUME NEW m \in Nodes, NEW n \in Nodes, NEW k \in Keys, SyncReply(m, n, k)
        PROVE  UNCHANGED <<issued, store>>
    BY <2>9 DEF SyncReply
  <2>10. CASE UNCHANGED vars
    BY <2>5, <2>10 DEF vars
  <2> QED
    BY <2>1, <2>2, <2>3, <2>4, <2>5, <2>6, <2>7, <2>8, <2>9, <2>10
    DEF Next, Client, Push, AntiEntropy
<1>3. [Promise!ANext]_<<issued, Held>> => [Promise!ANext]_Promise!avars
  BY DEF Promise!avars, Held
<1> QED
  BY <1>1, <1>2, <1>3, Invariance, PTL DEF Spec, ImplementsPromise, Promise!ASpec

-----------------------------------------------------------------------------
(***************************************************************************)
(* MixedReplication.                                                       *)
(***************************************************************************)

(***************************************************************************)
(* The inductive invariant, by parts.                                      *)
(***************************************************************************)
MVals == Values \cup {NoVal, EmptyValue}

\* Versions, and stamps of events: those of commands, and the zero stamp.
MStamps == Stamps \cup {ZeroStamp}

MWrites == [key : Keys, val : MVals, stamp : MStamps]

MKeyStates == [val : MVals, ver : MStamps, tomb : MStamps]

MTypeOK ==
    /\ hlc \in [Nodes -> Timestamps]
    /\ store \in [Nodes -> [Keys -> MKeyStates]]
    /\ stamped \subseteq Writes
    /\ applied \subseteq Writes
    /\ issued \subseteq Writes
    /\ queue \in [Nodes -> SUBSET MWrites]
    /\ handling \in [Nodes -> SUBSET MWrites]
    /\ seen \in [Nodes -> SUBSET MWrites]
    /\ net \subseteq [to : Nodes, write : MWrites]
    /\ digests \subseteq [from : Nodes, to : Nodes, write : MWrites]
    /\ up \subseteq Nodes
    /\ spares \subseteq Nodes
    /\ plain \subseteq [node : Nodes, key : Keys, val : Values]
    /\ counted \subseteq [node : Nodes, key : Keys]

\* A node that has not started has stamped nothing, and the clock of a
\* running one is not behind the stamps it gave out.
Fresh ==
    /\ up \cap spares = {}
    /\ \A c \in plain : c.node \in up
    /\ stamped \subseteq issued
    /\ applied \subseteq issued
    /\ \A w \in issued :
          /\ IsStamped(w)
          /\ w.stamp.o \notin spares
          /\ w.stamp.o \in up => ~TSAfter(TS(w.stamp), hlc[w.stamp.o])

\* Every delete that travels has a stamp.
Travels(w) == IsStamped(w) \/ w.val # NoVal

Carried ==
    /\ \A n \in Nodes : \A w \in queue[n] \cup handling[n] : Travels(w)
    /\ \A m \in net \cup digests : Travels(m.write)
    /\ \A n \in Nodes : \A v, w \in handling[n] : v = w

-----------------------------------------------------------------------------
(***************************************************************************)
(* While every write left its node as an accepted push.                    *)
(***************************************************************************)
\* Where a push of w to p is: nowhere else can it get lost.
OnWay(w, p) ==
    \/ w \in seen[p]
    \/ w \in stamped
    \/ /\ p # w.stamp.o
       /\ \/ w \in applied
          \/ w \in queue[w.stamp.o]
          \/ [to |-> p, write |-> w] \in net
          \/ w \in handling[p]

\* A key shows a write taken in, or a plain value; a plain value may stand
\* over the tombstone of a write taken in.
Plainly(ks, W) ==
    /\ ks.val # NoVal
    /\ ks.ver = ZeroStamp
    /\ ks.tomb = ZeroStamp \/ \E x \in W : ks.tomb = x.stamp

Formed(ks, W) ==
    \/ W = {} /\ ks = Missing
    \/ \E x \in W : ks = Showing(x)
    \/ Plainly(ks, W)

\* The key shows a write that is y or newer.
Covers(ks, W, y) == \E x \in W : ks = Showing(x) /\ ~After(y.stamp, x.stamp)

\* A stamp that is newer than all of W that the key does not cover.
Mends(s, ks, W) == \A y \in W : After(s, y.stamp) \/ Covers(ks, W, y)

\* A key shows the newest write, or the callback that will mend it is yet
\* to come.
CallsBack(n, k) == \E c \in plain \cup counted : c.node = n /\ c.key = k

Mending(n, k) == \E w \in stamped : /\ w.stamp.o = n
                                    /\ w.key = k
                                    /\ Mends(w.stamp, store[n][k], SeenOf(n, k))

Follows(n, k) ==
    /\ Formed(store[n][k], SeenOf(n, k))
    /\ \/ ShowsNewest(store[n][k], SeenOf(n, k))
       \/ CallsBack(n, k)
       \/ Mending(n, k)

OnlyPushes ==
    /\ digests = {}
    /\ \A n \in Nodes : queue[n] \cup handling[n] \cup seen[n] \subseteq issued
    /\ \A m \in net : m.write \in issued
    /\ \A w \in issued : w.stamp.o \in up

ClocksCover ==
    \A n \in up : \A w \in seen[n] \cup handling[n] : ~TSAfter(TS(w.stamp), hlc[n])

Reaches == \A w \in issued, p \in up : OnWay(w, p)

Follow == \A n \in up, k \in Keys : Follows(n, k)

Pushed == /\ OnlyPushes
          /\ ClocksCover
          /\ Reaches
          /\ Follow

\* What holds whatever travels, and what holds while only pushes do.
MInv == /\ MTypeOK
        /\ Fresh
        /\ StampsIdentifyWrites
        /\ Carried

PInv == MInv /\ (pushOnly => Pushed)

-----------------------------------------------------------------------------
(***************************************************************************)
(* Stamps, events and states of keys.                                      *)
(***************************************************************************)
\* A stamp that is not zero is after the zero stamp.
LEMMA StampedIsAfterZero ==
    ASSUME NEW s \in MStamps, TS(s) # ZeroTS
    PROVE  After(s, ZeroStamp)
<1>1. s \in Stamps
  BY DEF MStamps, TS, ZeroStamp, Stamp, ZeroTS
<1>2. s.p > 0 \/ s.l > 0
  BY <1>1, StampFields DEF TS, ZeroTS
<1> QED
  BY <1>1, <1>2, StampFields DEF After, TSAfter, TS, ZeroStamp, Stamp, ZeroTS

\* The zero stamp stamps nothing.
LEMMA ZeroIsUnstamped == TS(ZeroStamp) = ZeroTS
BY DEF TS, ZeroStamp, Stamp, ZeroTS

\* A stamp of a command is one of the stamps that travel, and so its write.
LEMMA WritesTravel == Writes \subseteq MWrites
BY DEF Writes, MWrites, MStamps, Stamps, MVals

\* The fields of an event.
LEMMA EventFields ==
    ASSUME NEW w \in MWrites
    PROVE  w.key \in Keys /\ w.val \in MVals /\ w.stamp \in MStamps
BY DEF MWrites

\* What the clock merges from a stamped event is a timestamp.
LEMMA EventTime ==
    ASSUME NEW w \in MWrites, IsStamped(w)
    PROVE  /\ w.stamp \in Stamps
           /\ TS(w.stamp) \in Timestamps
           /\ TS(w.stamp).l = w.stamp.l
<1>1. w.stamp \in Stamps
  BY EventFields, ZeroIsUnstamped DEF IsStamped, MStamps
<1> QED
  BY <1>1 DEF Stamps, TS, Timestamps

\* A key that was never written is well formed.
LEMMA MissingTyped == Missing \in MKeyStates
BY DEF Missing, MKeyStates, MVals, MStamps

\* The store's operations keep a key well formed.
LEMMA ApplyTyped ==
    ASSUME NEW ks \in MKeyStates, NEW w \in MWrites
    PROVE  Apply(ks, w) \in MKeyStates
<1>1. w.val \in MVals /\ w.stamp \in MStamps /\ ZeroStamp \in MStamps /\ NoVal \in MVals
  BY EventFields DEF MStamps, MVals
<1>2. SetWithHLC(ks, w.val, w.stamp) \in MKeyStates
  BY <1>1 DEF SetWithHLC, MKeyStates
<1>3. DeleteWithHLC(ks, w.stamp) \in MKeyStates
  BY <1>1 DEF DeleteWithHLC, MKeyStates
<1>4. PlainSet(ks, w.val) \in MKeyStates /\ PlainDelete(ks) \in MKeyStates
  BY <1>1 DEF PlainSet, PlainDelete, MKeyStates
<1> QED
  BY <1>2, <1>3, <1>4 DEF Apply

\* A digest's entries are well formed, and a delete in it has a stamp.
LEMMA DigestTyped ==
    ASSUME NEW k \in Keys, NEW ks \in MKeyStates, NEW w \in Digest(k, ks)
    PROVE  w \in MWrites /\ Travels(w)
<1>1. ks.val \in MVals /\ ks.ver \in MStamps /\ ks.tomb \in MStamps /\ NoVal \in MVals
  BY DEF MKeyStates, MVals
<1> QED
  BY <1>1 DEF Digest, MWrites, Travels

-----------------------------------------------------------------------------
(***************************************************************************)
(* Taking in a write, where a plain value may stand in between.            *)
(***************************************************************************)
\* What a key with a plain value does with a stamped write.
LEMMA ApplyToPlain ==
    ASSUME NEW ks, NEW w \in Writes, IsStamped(w),
           ks.val # NoVal, ks.ver = ZeroStamp
    PROVE  Apply(ks, w) = IF ks.tomb = ZeroStamp \/ After(w.stamp, ks.tomb)
                          THEN Showing(w) ELSE ks
<1>1. After(w.stamp, ZeroStamp)
  BY WriteFields, StampedIsAfterZero DEF IsStamped, MStamps
<1>2. Wins(ks, w.stamp) <=> (ks.tomb = ZeroStamp \/ After(w.stamp, ks.tomb))
  BY <1>1 DEF Wins
<1>3. CASE w.val = NoVal
  BY <1>2, <1>3 DEF Apply, DeleteWithHLC, Showing, Missing
<1>4. CASE w.val # NoVal
  BY <1>2, <1>4 DEF Apply, SetWithHLC, Showing, Missing
<1> QED
  BY <1>3, <1>4

\* A key that shows a write is no plain value.
LEMMA ShowingIsNotPlain ==
    ASSUME NEW x \in Writes, NEW W
    PROVE  ~Plainly(Showing(x), W)
<1>1. x.stamp # ZeroStamp
  BY WriteFields, StampFields
<1>2. Showing(x).val = NoVal \/ Showing(x).ver = x.stamp
  BY DEF Showing, Missing
<1> QED
  BY <1>1, <1>2 DEF Plainly

\* What a key shows has one stamp.
LEMMA ShowingStamp ==
    ASSUME NEW x \in Writes, NEW z \in Writes, Showing(x) = Showing(z)
    PROVE  x.stamp = z.stamp
<1>1. Showing(x).val = x.val /\ Showing(z).val = z.val
  BY DEF Showing, Missing
<1>2. CASE x.val = NoVal
  BY <1>1, <1>2 DEF Showing, Missing
<1>3. CASE x.val # NoVal
  BY <1>1, <1>3 DEF Showing, Missing
<1> QED
  BY <1>2, <1>3

\* A key that took in stamped writes and plain values takes in another write.
LEMMA TakingFormed ==
    ASSUME NEW W \in SUBSET issued, NEW w \in issued, NEW ks,
           issued \subseteq Writes, \A x \in issued : IsStamped(x),
           Formed(ks, W)
    PROVE  Formed(Apply(ks, w), W \cup {w})
<1>1. CASE W = {} /\ ks = Missing
  BY <1>1, ApplyToMissing DEF Formed
<1>2. ASSUME NEW x \in W, ks = Showing(x)
      PROVE  Formed(Apply(ks, w), W \cup {w})
  BY <1>2, ApplyToShowing DEF Formed
<1>3. CASE Plainly(ks, W)
  <2>1. Apply(ks, w) \in {Showing(w), ks}
    BY <1>3, ApplyToPlain DEF Plainly
  <2>2. Plainly(ks, W \cup {w})
    BY <1>3 DEF Plainly
  <2> QED
    BY <2>1, <2>2 DEF Formed
<1> QED
  BY <1>1, <1>2, <1>3 DEF Formed

\* A stamp on its way to mend the key still does after the key took in
\* another write.
LEMMA TakingMends ==
    ASSUME NEW W \in SUBSET issued, NEW w \in issued, NEW ks, NEW s \in Stamps,
           issued \subseteq Writes, \A x \in issued : IsStamped(x),
           Formed(ks, W), Mends(s, ks, W)
    PROVE  Mends(s, Apply(ks, w), W \cup {w})
<1> SUFFICES ASSUME NEW y \in W \cup {w}
             PROVE  After(s, y.stamp) \/ Covers(Apply(ks, w), W \cup {w}, y)
  BY DEF Mends
<1>1. y \in Writes /\ w \in Writes /\ y.stamp \in Stamps /\ w.stamp \in Stamps
  BY WriteFields
<1>2. Apply(ks, w) = Showing(w) /\ y = w => Covers(Apply(ks, w), W \cup {w}, y)
  BY <1>1, AfterIrreflexive DEF Covers
<1>3. CASE W = {} /\ ks = Missing
  BY <1>2, <1>3, ApplyToMissing
<1>4. ASSUME NEW x \in W, ks = Showing(x)
      PROVE  After(s, y.stamp) \/ Covers(Apply(ks, w), W \cup {w}, y)
  <2>1. x \in Writes /\ x.stamp \in Stamps
    BY WriteFields
  <2>2. Apply(ks, w) = IF After(w.stamp, x.stamp) THEN Showing(w) ELSE ks
    BY <1>4, <2>1, <1>1, ApplyToShowing
  <2>3. y \in W => After(s, y.stamp) \/ ~After(y.stamp, x.stamp)
    BY <1>4, <2>1, ShowingStamp DEF Mends, Covers
  <2>4. CASE After(w.stamp, x.stamp)
    <3>1. CASE y \in W /\ ~After(y.stamp, x.stamp)
      <4>1. ~After(y.stamp, w.stamp)
        BY <1>1, <2>1, <2>4, <3>1, AfterTransitive
      <4> QED
        BY <2>2, <2>4, <4>1 DEF Covers
    <3> QED
      BY <1>2, <2>2, <2>3, <2>4, <3>1
  <2>5. CASE ~After(w.stamp, x.stamp)
    BY <1>4, <2>2, <2>3, <2>5 DEF Covers
  <2> QED
    BY <2>4, <2>5
<1>5. CASE Plainly(ks, W)
  <2>1. \A z \in W : After(s, z.stamp)
    BY <1>5, ShowingIsNotPlain DEF Mends, Covers
  <2>2. Apply(ks, w) = IF ks.tomb = ZeroStamp \/ After(w.stamp, ks.tomb)
                       THEN Showing(w) ELSE ks
    BY <1>1, <1>5, ApplyToPlain DEF Plainly
  <2>3. ASSUME NEW x \in W, ks.tomb = x.stamp, ~After(w.stamp, x.stamp)
        PROVE  After(s, w.stamp)
    <3>1. x.stamp \in Stamps /\ After(s, x.stamp)
      BY <2>1, WriteFields
    <3>2. w.stamp = x.stamp \/ After(x.stamp, w.stamp)
      BY <1>1, <2>3, <3>1, AfterTotal
    <3> QED
      BY <1>1, <3>1, <3>2, AfterTransitive
  <2> QED
    BY <1>2, <1>5, <2>1, <2>2, <2>3 DEF Plainly
<1> QED
  BY <1>3, <1>4, <1>5 DEF Formed

\* The write that mends a key leaves it showing the newest.
LEMMA MendedShowsNewest ==
    ASSUME NEW W \in SUBSET issued, NEW w \in issued, NEW ks,
           issued \subseteq Writes, StampsIdentifyWrites,
           \A x \in issued : IsStamped(x),
           Formed(ks, W), Mends(w.stamp, ks, W)
    PROVE  ShowsNewest(Apply(ks, w), W \cup {w})
<1>1. \A y \in W \cup {w} : y \in issued /\ y \in Writes /\ y.stamp \in Stamps
  BY WriteFields
<1>2. CASE W = {} /\ ks = Missing
  BY <1>2, ApplyToMissing DEF ShowsNewest
<1>3. ASSUME NEW x \in W, ks = Showing(x)
      PROVE  ShowsNewest(Apply(ks, w), W \cup {w})
  <2>1. Apply(ks, w) = IF After(w.stamp, x.stamp) THEN Showing(w) ELSE Showing(x)
    BY <1>1, <1>3, ApplyToShowing
  <2>2. \A y \in W : After(w.stamp, y.stamp) \/ ~After(y.stamp, x.stamp)
    BY <1>1, <1>3, ShowingStamp DEF Mends, Covers
  <2>3. CASE After(w.stamp, x.stamp)
    <3>1. ASSUME NEW y \in W, ~After(y.stamp, x.stamp)
          PROVE  After(w.stamp, y.stamp)
      <4>1. y.stamp = x.stamp \/ After(x.stamp, y.stamp)
        BY <1>1, <3>1, AfterTotal
      <4> QED
        BY <1>1, <2>3, <4>1, AfterTransitive
    <3> QED
      BY <2>1, <2>2, <2>3, <3>1 DEF ShowsNewest
  <2>4. CASE ~After(w.stamp, x.stamp)
    <3>1. w.stamp = x.stamp \/ After(x.stamp, w.stamp)
      BY <1>1, <2>4, AfterTotal
    <3>2. ASSUME NEW y \in (W \cup {w}) \ {x}
          PROVE  After(x.stamp, y.stamp)
      <4>1. y.stamp # x.stamp
        BY <1>1, <3>2 DEF StampsIdentifyWrites
      <4>2. CASE ~After(y.stamp, x.stamp)
        BY <1>1, <3>2, <4>1, <4>2, AfterTotal
      <4>3. CASE After(w.stamp, y.stamp)
        BY <1>1, <3>1, <3>2, <4>3, AfterTransitive
      <4>4. CASE y = w
        BY <3>1, <4>1, <4>4
      <4> QED
        BY <2>2, <3>2, <4>2, <4>3, <4>4
    <3> QED
      BY <2>1, <2>4, <3>2 DEF ShowsNewest
  <2> QED
    BY <2>3, <2>4
<1>4. CASE Plainly(ks, W)
  <2>1. \A z \in W : After(w.stamp, z.stamp)
    BY <1>1, <1>4, ShowingIsNotPlain DEF Mends, Covers
  <2>2. Apply(ks, w) = Showing(w)
    BY <1>1, <1>4, <2>1, ApplyToPlain DEF Plainly
  <2> QED
    BY <2>1, <2>2 DEF ShowsNewest
<1> QED
  BY <1>2, <1>3, <1>4 DEF Formed

\* A key that shows the newest is formed.
LEMMA NewestIsFormed ==
    ASSUME NEW ks, NEW W, ShowsNewest(ks, W)
    PROVE  Formed(ks, W)
BY DEF ShowsNewest, Formed

\* A plain value over a formed key.
LEMMA PlainIsFormed ==
    ASSUME NEW W \in SUBSET Writes, NEW ks \in MKeyStates, Formed(ks, W),
           NEW v \in Values
    PROVE  Formed(PlainSet(ks, v), W)
<1>1. v # NoVal
  BY ValuesAssumption
<1>2. /\ PlainSet(ks, v).val = v
      /\ PlainSet(ks, v).ver = ZeroStamp
      /\ PlainSet(ks, v).tomb = ks.tomb
  BY DEF PlainSet, MKeyStates
<1>3. ks.tomb = ZeroStamp \/ \E x \in W : ks.tomb = x.stamp
  <2>1. CASE ks = Missing
    BY <2>1 DEF Missing
  <2>2. ASSUME NEW x \in W, ks = Showing(x)
        PROVE  ks.tomb = ZeroStamp \/ ks.tomb = x.stamp
    <3>1. CASE x.val = NoVal
      BY <2>2, <3>1 DEF Showing, Missing
    <3>2. CASE x.val # NoVal
      BY <2>2, <3>2 DEF Showing, Missing
    <3> QED
      BY <3>1, <3>2
  <2> QED
    BY <2>1, <2>2 DEF Formed, Plainly
<1> QED
  BY <1>1, <1>2, <1>3 DEF Formed, Plainly

-----------------------------------------------------------------------------
(***************************************************************************)
(* The steps.                                                              *)
(***************************************************************************)
\* A node drew a stamp, past its clock's reading, for the write w of key k.
Drew(n, k, w) ==
    /\ w.key = k
    /\ w.stamp.o = n
    /\ IsStamped(w)
    /\ TSAfter(TS(w.stamp), hlc[n])
    /\ hlc' = [hlc EXCEPT ![n] = TS(w.stamp)]
    /\ stamped' = stamped \cup {w}
    /\ issued' = issued \cup {w}

\* NextStamp draws a stamp past the clock's reading.
LEMMA NextStampDraws ==
    ASSUME MTypeOK, NEW n \in Nodes, NEW k \in Keys, NEW v \in Values \cup {NoVal},
           NextStamp(n, k, v)
    PROVE  \E w \in Writes : Drew(n, k, w)
<1>1. PICK pt \in Time :
         LET ts == Now(hlc[n], pt)
             w  == [key |-> k, val |-> v, stamp |-> Stamp(ts, n)]
         IN  /\ hlc' = [hlc EXCEPT ![n] = ts]
             /\ stamped' = stamped \cup {w}
             /\ issued' = issued \cup {w}
  BY DEF NextStamp
<1> DEFINE ts == Now(hlc[n], pt)
           w  == [key |-> k, val |-> v, stamp |-> Stamp(ts, n)]
<1>2. ts \in Timestamps /\ TSAfter(ts, hlc[n]) /\ ts # ZeroTS
  BY NowAdvances DEF NextStamp, MTypeOK
<1>3. w \in Writes /\ TS(w.stamp) = ts /\ w.stamp.o = n
  BY <1>2 DEF Writes, Stamp, TS, Timestamps
<1>4. Drew(n, k, w)
  BY <1>1, <1>2, <1>3 DEF Drew, IsStamped
<1> QED
  BY <1>3, <1>4

\* A command or a callback draws a stamp; a callback is then done.
Draws(n, k) ==
    /\ \E v \in Values \cup {NoVal} : NextStamp(n, k, v)
    /\ plain' \subseteq plain
    /\ \A c \in plain \ plain' : c.node = n /\ c.key = k
    /\ UNCHANGED <<up, spares, counted, pushOnly>>

\* A step is one of these.
MStep ==
    \/ \E n \in up, k \in Keys : Draws(n, k)
    \/ \E w \in stamped : ApplyLocal(w) /\ UNCHANGED mixedVars
    \/ \E w \in applied : QueueReplicationLWW(w) /\ UNCHANGED mixedVars
    \/ \E n \in up, k \in Keys, v \in Values : PlainWrite(n, k, v)
    \/ \E n \in up, k \in Keys, v \in Values : CounterWrite(n, k, v)
    \/ \E c \in counted : CounterCallback(c)
    \/ \E n \in up : \E w \in queue[n] : SendBatch(up \ {n}, n, w) /\ UNCHANGED mixedVars
    \/ \E n \in up : \E w \in queue[n] : /\ SendBatchFails(up \ {n}, n, w)
                                         /\ pushOnly' = FALSE
                                         /\ UNCHANGED <<up, spares, plain, counted>>
    \/ \E n \in up, m \in net : /\ IsStamped(m.write)
                                /\ ReceivePush(n, m.write)
                                /\ UNCHANGED mixedVars
    \/ \E n \in up, m \in net : ReceiveUnstamped(n, m.write)
    \/ \E n \in up : \E w \in handling[n] : ApplyPush(n, w) /\ UNCHANGED mixedVars
    \/ \E m, n \in up, k \in Keys : Sync(m, n, k)
    \/ \E m \in Nodes, n \in up, d \in digests : /\ SyncResponse(m, n, d.write)
                                                 /\ UNCHANGED mixedVars
    \/ \E n \in up, s \in spares : Restart(n, s)

\* The next-state relation takes no other step.
LEMMA MNextCases == MTypeOK /\ Fresh /\ MNext => MStep
<1> SUFFICES ASSUME MTypeOK, Fresh, MNext PROVE MStep
  OBVIOUS
<1>1. CASE \E n \in up, k \in Keys, v \in Values \cup {NoVal} :
              WritesLeft /\ NextStamp(n, k, v) /\ UNCHANGED mixedVars
  <2>1. PICK n \in up, k \in Keys, v \in Values \cup {NoVal} :
           NextStamp(n, k, v) /\ UNCHANGED mixedVars
    BY <1>1
  <2>2. Draws(n, k)
    BY <2>1 DEF Draws, mixedVars
  <2> QED
    BY <2>2 DEF MStep
<1>2. CASE \E c \in plain : PlainCallback(c)
  <2>1. PICK c \in plain : PlainCallback(c)
    BY <1>2
  <2>2. c.node \in up /\ c.key \in Keys /\ c.val \in Values
    BY DEF MTypeOK, Fresh
  <2>3. Draws(c.node, c.key)
    BY <2>1, <2>2 DEF PlainCallback, Draws
  <2> QED
    BY <2>2, <2>3 DEF MStep
<1>3. CASE \E n \in up : \E w \in queue[n] :
              /\ Turn("resend")
              /\ SendBatchFails(up \ {n}, n, w)
              /\ pushOnly' = FALSE
              /\ UNCHANGED <<up, spares, plain, counted>>
  BY <1>3 DEF MStep
<1>4. CASE \E n \in up, m \in net :
              IF IsStamped(m.write)
              THEN ReceivePush(n, m.write) /\ UNCHANGED mixedVars
              ELSE ReceiveUnstamped(n, m.write)
  BY <1>4 DEF MStep
<1>5. CASE \E m \in Nodes, n \in up, d \in digests :
              /\ InDigestOrder(m, n, d.write)
              /\ SyncResponse(m, n, d.write)
              /\ UNCHANGED mixedVars
  BY <1>5 DEF MStep
<1>6. CASE \E n \in up, s \in Nodes : Restart(n, s)
  BY <1>6 DEF MStep, Restart, FreshId
<1>7. CASE \E n \in up, k \in Keys, v \in Values :
              PlainWrite(n, k, v) \/ CounterWrite(n, k, v)
  BY <1>7 DEF MStep
<1>8. CASE \/ (\E w \in stamped : ApplyLocal(w)) /\ UNCHANGED mixedVars
           \/ (\E w \in applied : QueueReplicationLWW(w)) /\ UNCHANGED mixedVars
           \/ \E c \in counted : CounterCallback(c)
           \/ \E n \in up : \E w \in queue[n] : SendBatch(up \ {n}, n, w) /\ UNCHANGED mixedVars
           \/ \E n \in up : \E w \in handling[n] : ApplyPush(n, w) /\ UNCHANGED mixedVars
           \/ \E m, n \in up, k \in Keys : Sync(m, n, k)
  BY <1>8 DEF MStep
<1> QED
  BY <1>1, <1>2, <1>3, <1>4, <1>5, <1>6, <1>7, <1>8 DEF MNext

-----------------------------------------------------------------------------
(***************************************************************************)
(* Types.                                                                  *)
(***************************************************************************)
\* What the store does with an event keeps the types.
LEMMA StoreTyped ==
    ASSUME MTypeOK, NEW n \in Nodes, NEW w \in MWrites, StoreAt(n, w)
    PROVE  /\ store' \in [Nodes -> [Keys -> MKeyStates]]
           /\ seen' \in [Nodes -> SUBSET MWrites]
<1>1. CASE RefuseAt(n, w)
  BY <1>1 DEF RefuseAt, MTypeOK
<1>2. CASE ApplyAt(n, w)
  <2>1. w.key \in Keys /\ store[n][w.key] \in MKeyStates
    BY EventFields DEF MTypeOK
  <2>2. Apply(store[n][w.key], w) \in MKeyStates
    BY <2>1, ApplyTyped
  <2> QED
    BY <1>2, <2>1, <2>2 DEF ApplyAt, MTypeOK
<1> QED
  BY <1>1, <1>2 DEF StoreAt

\* A plain write keeps the types.
LEMMA WritePlainlyTyped ==
    ASSUME MTypeOK, NEW n \in Nodes, NEW k \in Keys, NEW v \in Values,
           WritePlainly(n, k, v)
    PROVE  store' \in [Nodes -> [Keys -> MKeyStates]]
<1>1. store[n][k] \in MKeyStates
  BY DEF MTypeOK
<1>2. PlainSet(store[n][k], v) \in MKeyStates
  BY <1>1 DEF PlainSet, MKeyStates, MVals, MStamps
<1> QED
  BY <1>2 DEF WritePlainly, MTypeOK

\* Every step keeps the types.
LEMMA MTypeInductive == MTypeOK /\ Fresh /\ MStep => MTypeOK'
<1> SUFFICES ASSUME MTypeOK, Fresh, MStep PROVE MTypeOK'
  OBVIOUS
<1>1. ASSUME NEW n \in up, NEW k \in Keys, Draws(n, k) PROVE MTypeOK'
  <2>1. n \in Nodes
    BY DEF MTypeOK
  <2>2. PICK v \in Values \cup {NoVal} : NextStamp(n, k, v)
    BY <1>1 DEF Draws
  <2>3. PICK w \in Writes : Drew(n, k, w)
    BY <2>1, <2>2, NextStampDraws
  <2>4. TS(w.stamp) \in Timestamps
    BY WriteFields
  <2>5. UNCHANGED <<store, applied, queue, net, handling, digests, seen, up, spares, counted>>
    BY <1>1, <2>2 DEF Draws, NextStamp
  <2> QED
    BY <1>1, <2>1, <2>3, <2>4, <2>5 DEF MTypeOK, Drew, Draws
<1>2. ASSUME NEW w \in stamped, ApplyLocal(w) /\ UNCHANGED mixedVars PROVE MTypeOK'
  <2>1. w \in Writes /\ w \in MWrites /\ w.stamp.o \in Nodes
    BY WritesTravel, WriteFields DEF MTypeOK
  <2>2. StoreAt(w.stamp.o, w)
    BY <1>2 DEF ApplyLocal
  <2>3. store' \in [Nodes -> [Keys -> MKeyStates]] /\ seen' \in [Nodes -> SUBSET MWrites]
    BY <2>1, <2>2, StoreTyped
  <2> QED
    BY <1>2, <2>1, <2>3 DEF MTypeOK, ApplyLocal, mixedVars
<1>3. ASSUME NEW w \in applied, QueueReplicationLWW(w) /\ UNCHANGED mixedVars
      PROVE  MTypeOK'
  <2>1. w \in MWrites /\ w.stamp.o \in Nodes
    BY WritesTravel, WriteFields DEF MTypeOK
  <2> QED
    BY <1>3, <2>1 DEF MTypeOK, QueueReplicationLWW, mixedVars
<1>4. ASSUME NEW n \in up, NEW k \in Keys, NEW v \in Values, PlainWrite(n, k, v)
      PROVE  MTypeOK'
  <2>1. n \in Nodes
    BY DEF MTypeOK
  <2>2. store' \in [Nodes -> [Keys -> MKeyStates]]
    BY <1>4, <2>1, WritePlainlyTyped DEF PlainWrite
  <2> QED
    BY <1>4, <2>1, <2>2 DEF MTypeOK, PlainWrite
<1>5. ASSUME NEW n \in up, NEW k \in Keys, NEW v \in Values, CounterWrite(n, k, v)
      PROVE  MTypeOK'
  <2>1. n \in Nodes
    BY DEF MTypeOK
  <2>2. store' \in [Nodes -> [Keys -> MKeyStates]]
    BY <1>5, <2>1, WritePlainlyTyped DEF CounterWrite
  <2> QED
    BY <1>5, <2>1, <2>2 DEF MTypeOK, CounterWrite
<1>6. ASSUME NEW c \in counted, CounterCallback(c) PROVE MTypeOK'
  <2>1. c.node \in Nodes /\ c.key \in Keys
    BY DEF MTypeOK
  <2>2. [key |-> c.key, val |-> EmptyValue, stamp |-> ZeroStamp] \in MWrites
    BY <2>1 DEF MWrites, MVals, MStamps
  <2> QED
    BY <1>6, <2>1, <2>2 DEF MTypeOK, CounterCallback
<1>7. ASSUME NEW n \in up, NEW w \in queue[n],
             SendBatch(up \ {n}, n, w) /\ UNCHANGED mixedVars
      PROVE  MTypeOK'
  <2>1. n \in Nodes /\ w \in MWrites
    BY DEF MTypeOK
  <2> QED
    BY <1>7, <2>1 DEF MTypeOK, SendBatch, SendTo, mixedVars
<1>8. ASSUME NEW n \in up, NEW w \in queue[n], SendBatchFails(up \ {n}, n, w),
             UNCHANGED <<up, spares, plain, counted>>
      PROVE  MTypeOK'
  <2>1. n \in Nodes /\ w \in MWrites
    BY DEF MTypeOK
  <2>2. net' \subseteq net \cup [to : up \ {n}, write : {w}]
    BY <1>8 DEF SendBatchFails, SendTo
  <2>3. net' \subseteq [to : Nodes, write : MWrites]
    BY <2>1, <2>2 DEF MTypeOK
  <2>4. queue' \in [Nodes -> SUBSET MWrites]
    BY <1>8, <2>1 DEF MTypeOK, SendBatchFails
  <2> QED
    BY <1>8, <2>3, <2>4 DEF MTypeOK, SendBatchFails
<1>9. ASSUME NEW n \in up, NEW m \in net, IsStamped(m.write),
             ReceivePush(n, m.write) /\ UNCHANGED mixedVars
      PROVE  MTypeOK'
  <2>1. n \in Nodes /\ m.write \in MWrites
    BY DEF MTypeOK
  <2>2. PICK pt \in Time : hlc' = [hlc EXCEPT ![n] = Update(@, TS(m.write.stamp), pt)]
    BY <1>9 DEF ReceivePush
  <2>3. Update(hlc[n], TS(m.write.stamp), pt) \in Timestamps
    BY <1>9, <2>1, EventTime, UpdateAdvances DEF ReceivePush, MTypeOK
  <2> QED
    BY <1>9, <2>1, <2>2, <2>3 DEF MTypeOK, ReceivePush, mixedVars
<1>10. ASSUME NEW n \in up, NEW m \in net, ReceiveUnstamped(n, m.write) PROVE MTypeOK'
  <2>1. n \in Nodes /\ m.write \in MWrites
    BY DEF MTypeOK
  <2> QED
    BY <1>10, <2>1 DEF MTypeOK, ReceiveUnstamped, mixedVars
<1>11. ASSUME NEW n \in up, NEW w \in handling[n], ApplyPush(n, w) /\ UNCHANGED mixedVars
       PROVE  MTypeOK'
  <2>1. n \in Nodes /\ w \in MWrites
    BY DEF MTypeOK
  <2>2. store' \in [Nodes -> [Keys -> MKeyStates]] /\ seen' \in [Nodes -> SUBSET MWrites]
    BY <1>11, <2>1, StoreTyped DEF ApplyPush
  <2> QED
    BY <1>11, <2>1, <2>2 DEF MTypeOK, ApplyPush, mixedVars
<1>12. ASSUME NEW m \in up, NEW n \in up, NEW k \in Keys, Sync(m, n, k) PROVE MTypeOK'
  <2>1. m \in Nodes /\ n \in Nodes /\ store[m][k] \in MKeyStates
    BY DEF MTypeOK
  <2>2. Digest(k, store[m][k]) \subseteq MWrites
    BY <2>1, DigestTyped
  <2>3. digests' = digests \cup [from : {m}, to : {n}, write : Digest(k, store[m][k])]
    BY <1>12 DEF Sync, SyncReply
  <2>4. digests' \subseteq [from : Nodes, to : Nodes, write : MWrites]
    BY <2>1, <2>2, <2>3 DEF MTypeOK
  <2> QED
    BY <1>12, <2>4 DEF MTypeOK, Sync, SyncReply
<1>13. ASSUME NEW m \in Nodes, NEW n \in up, NEW d \in digests,
              SyncResponse(m, n, d.write) /\ UNCHANGED mixedVars
       PROVE  MTypeOK'
  <2>1. n \in Nodes /\ d.write \in MWrites
    BY DEF MTypeOK
  <2>2. store' \in [Nodes -> [Keys -> MKeyStates]] /\ seen' \in [Nodes -> SUBSET MWrites]
    BY <1>13, <2>1, StoreTyped DEF SyncResponse
  <2> QED
    BY <1>13, <2>2 DEF MTypeOK, SyncResponse, mixedVars
<1>14. ASSUME NEW n \in up, NEW s \in spares, Restart(n, s) PROVE MTypeOK'
  <2>1. n \in Nodes /\ s \in Nodes
    BY DEF MTypeOK
  <2>2. ASSUME NEW k \in Keys
        PROVE  Recovered(store[n][k]) \in MKeyStates /\ Missing \in MKeyStates
    <3>1. store[n][k] \in MKeyStates /\ Missing \in MKeyStates
      BY <2>1, MissingTyped DEF MTypeOK
    <3>2. PlainSet(Missing, store[n][k].val) \in MKeyStates
      BY <3>1 DEF PlainSet, MKeyStates, MStamps
    <3> QED
      BY <3>1, <3>2 DEF Recovered
  <2>3. store' \in [Nodes -> [Keys -> MKeyStates]]
    BY <1>14, <2>1, <2>2 DEF MTypeOK, Restart
  <2>4. hlc' \in [Nodes -> Timestamps]
    <3>1. ZeroTS \in Timestamps
      BY LogicalModAssumption DEF ZeroTS, Timestamps
    <3> QED
      BY <1>14, <2>1, <3>1 DEF MTypeOK, Restart
  <2> QED
    BY <1>14, <2>1, <2>3, <2>4 DEF MTypeOK, Restart
<1> QED
  BY <1>1, <1>2, <1>3, <1>4, <1>5, <1>6, <1>7, <1>8, <1>9, <1>10, <1>11, <1>12,
     <1>13, <1>14 DEF MStep

-----------------------------------------------------------------------------
(***************************************************************************)
(* Stamps: a running node's clock covers the stamps it gave out, and a new *)
(* process has an id that has stamped nothing.                             *)
(***************************************************************************)
\* A step that stamps nothing and starts no process keeps what was drawn.
LEMMA NothingDrawn ==
    ASSUME MTypeOK, Fresh, StampsIdentifyWrites,
           UNCHANGED <<hlc, issued, up, spares>>,
           stamped' \subseteq issued, applied' \subseteq issued,
           \A c \in plain' : c.node \in up
    PROVE  Fresh' /\ StampsIdentifyWrites'
BY DEF Fresh, StampsIdentifyWrites

\* Every step keeps stamps unique.
LEMMA FreshInductive ==
    MTypeOK /\ Fresh /\ StampsIdentifyWrites /\ MStep => Fresh' /\ StampsIdentifyWrites'
<1> SUFFICES ASSUME MTypeOK, Fresh, StampsIdentifyWrites, MStep
             PROVE  Fresh' /\ StampsIdentifyWrites'
  OBVIOUS
<1>a. /\ stamped \subseteq issued /\ applied \subseteq issued
      /\ \A c \in plain : c.node \in up
      /\ up \subseteq Nodes
  BY DEF Fresh, MTypeOK
<1>1. ASSUME NEW n \in up, NEW k \in Keys, Draws(n, k)
      PROVE  Fresh' /\ StampsIdentifyWrites'
  <2>1. n \in Nodes /\ n \notin spares
    BY DEF MTypeOK, Fresh
  <2>2. PICK v \in Values \cup {NoVal} : NextStamp(n, k, v)
    BY <1>1 DEF Draws
  <2>3. PICK w \in Writes : Drew(n, k, w)
    BY <2>1, <2>2, NextStampDraws
  <2>4. \A x \in issued : /\ TS(x.stamp) \in Timestamps
                          /\ x.stamp.o = n => ~TSAfter(TS(x.stamp), hlc[n])
    BY WriteFields DEF MTypeOK, Fresh
  <2>5. hlc[n] \in Timestamps /\ TS(w.stamp) \in Timestamps
    BY <2>1, WriteFields DEF MTypeOK
  <2>6. ASSUME NEW x \in issued, x.stamp.o = n
        PROVE  ~TSAfter(TS(x.stamp), TS(w.stamp)) /\ TS(x.stamp) # TS(w.stamp)
    <3>1. ~TSAfter(TS(x.stamp), hlc[n]) /\ TSAfter(TS(w.stamp), hlc[n])
      BY <2>3, <2>4, <2>6 DEF Drew
    <3> QED
      BY <2>4, <2>5, <3>1, AfterSameClock
  <2>7. ~TSAfter(TS(w.stamp), TS(w.stamp))
    BY <2>5 DEF Timestamps, TSAfter
  <2>8. hlc'[n] = TS(w.stamp) /\ \A p \in Nodes \ {n} : hlc'[p] = hlc[p]
    BY <2>1, <2>3 DEF Drew, MTypeOK
  <2>9. /\ stamped' \subseteq issued' /\ applied' \subseteq issued'
        /\ \A c \in plain' : c.node \in up'
        /\ up' = up /\ spares' = spares
    BY <1>a, <1>1, <2>2, <2>3 DEF Drew, Draws, NextStamp
  <2>10. \A x \in issued' : /\ IsStamped(x)
                            /\ x.stamp.o \notin spares
                            /\ x.stamp.o \in up => ~TSAfter(TS(x.stamp), hlc'[x.stamp.o])
    <3>1. ASSUME NEW x \in issued
          PROVE  x.stamp.o \in up => ~TSAfter(TS(x.stamp), hlc'[x.stamp.o])
      <4>1. CASE x.stamp.o = n
        BY <2>6, <2>8, <4>1
      <4>2. CASE x.stamp.o # n
        BY <1>a, <2>8, <4>2 DEF Fresh
      <4> QED
        BY <4>1, <4>2
    <3> QED
      BY <2>1, <2>3, <2>7, <2>8, <3>1 DEF Drew, Fresh
  <2>11. Fresh'
    BY <2>9, <2>10 DEF Fresh
  <2>12. \A x \in issued : x.stamp # w.stamp
    BY <2>3, <2>6 DEF Drew
  <2>13. StampsIdentifyWrites'
    BY <2>3, <2>12 DEF StampsIdentifyWrites, Drew
  <2> QED
    BY <2>11, <2>13
<1>2. ASSUME NEW w \in stamped, ApplyLocal(w) /\ UNCHANGED mixedVars
      PROVE  Fresh' /\ StampsIdentifyWrites'
  BY <1>a, <1>2, NothingDrawn DEF ApplyLocal, mixedVars
<1>3. ASSUME NEW w \in applied, QueueReplicationLWW(w) /\ UNCHANGED mixedVars
      PROVE  Fresh' /\ StampsIdentifyWrites'
  BY <1>a, <1>3, NothingDrawn DEF QueueReplicationLWW, mixedVars
<1>4. ASSUME NEW n \in up, NEW k \in Keys, NEW v \in Values, PlainWrite(n, k, v)
      PROVE  Fresh' /\ StampsIdentifyWrites'
  <2>1. \A c \in plain' : c.node \in up
    BY <1>a, <1>4 DEF PlainWrite
  <2> QED
    BY <1>a, <1>4, <2>1, NothingDrawn DEF PlainWrite
<1>5. ASSUME NEW n \in up, NEW k \in Keys, NEW v \in Values, CounterWrite(n, k, v)
      PROVE  Fresh' /\ StampsIdentifyWrites'
  BY <1>a, <1>5, NothingDrawn DEF CounterWrite
<1>6. ASSUME NEW c \in counted, CounterCallback(c)
      PROVE  Fresh' /\ StampsIdentifyWrites'
  BY <1>a, <1>6, NothingDrawn DEF CounterCallback
<1>7. ASSUME NEW n \in up, NEW w \in queue[n],
             SendBatch(up \ {n}, n, w) /\ UNCHANGED mixedVars
      PROVE  Fresh' /\ StampsIdentifyWrites'
  BY <1>a, <1>7, NothingDrawn DEF SendBatch, mixedVars
<1>8. ASSUME NEW n \in up, NEW w \in queue[n], SendBatchFails(up \ {n}, n, w),
             UNCHANGED <<up, spares, plain, counted>>
      PROVE  Fresh' /\ StampsIdentifyWrites'
  BY <1>a, <1>8, NothingDrawn DEF SendBatchFails
<1>9. ASSUME NEW n \in up, NEW m \in net, IsStamped(m.write),
             ReceivePush(n, m.write) /\ UNCHANGED mixedVars
      PROVE  Fresh' /\ StampsIdentifyWrites'
  <2>1. n \in Nodes /\ m.write \in MWrites /\ hlc[n] \in Timestamps
    BY DEF MTypeOK
  <2>2. PICK pt \in Time : hlc' = [hlc EXCEPT ![n] = Update(@, TS(m.write.stamp), pt)]
    BY <1>9 DEF ReceivePush
  <2> DEFINE ts == Update(hlc[n], TS(m.write.stamp), pt)
  <2>3. ts \in Timestamps /\ TSAfter(ts, hlc[n])
    BY <1>9, <2>1, EventTime, UpdateAdvances DEF ReceivePush
  <2>4. hlc'[n] = ts /\ \A p \in Nodes \ {n} : hlc'[p] = hlc[p]
    BY <2>1, <2>2 DEF MTypeOK
  <2> HIDE DEF ts
  <2>5. ASSUME NEW x \in issued, x.stamp.o \in up
        PROVE  ~TSAfter(TS(x.stamp), hlc'[x.stamp.o])
    <3>1. ~TSAfter(TS(x.stamp), hlc[x.stamp.o]) /\ x \in Writes
      BY <2>5 DEF Fresh, MTypeOK
    <3>2. CASE x.stamp.o = n
      BY <2>1, <2>3, <2>4, <3>1, <3>2, WriteFields, AfterSameClock
    <3>3. CASE x.stamp.o # n
      BY <1>a, <2>4, <2>5, <3>1, <3>3
    <3> QED
      BY <3>2, <3>3
  <2> QED
    BY <1>9, <2>5 DEF Fresh, StampsIdentifyWrites, ReceivePush, mixedVars
<1>10. ASSUME NEW n \in up, NEW m \in net, ReceiveUnstamped(n, m.write)
       PROVE  Fresh' /\ StampsIdentifyWrites'
  BY <1>a, <1>10, NothingDrawn DEF ReceiveUnstamped, mixedVars
<1>11. ASSUME NEW n \in up, NEW w \in handling[n], ApplyPush(n, w) /\ UNCHANGED mixedVars
       PROVE  Fresh' /\ StampsIdentifyWrites'
  BY <1>a, <1>11, NothingDrawn DEF ApplyPush, mixedVars
<1>12. ASSUME NEW m \in up, NEW n \in up, NEW k \in Keys, Sync(m, n, k)
       PROVE  Fresh' /\ StampsIdentifyWrites'
  BY <1>a, <1>12, NothingDrawn DEF Sync, SyncReply
<1>13. ASSUME NEW m \in Nodes, NEW n \in up, NEW d \in digests,
              SyncResponse(m, n, d.write) /\ UNCHANGED mixedVars
       PROVE  Fresh' /\ StampsIdentifyWrites'
  BY <1>a, <1>13, NothingDrawn DEF SyncResponse, mixedVars
<1>14. ASSUME NEW n \in up, NEW s \in spares, Restart(n, s)
       PROVE  Fresh' /\ StampsIdentifyWrites'
  <2>1. n \in Nodes /\ s \in Nodes /\ s \notin up /\ n # s
    BY DEF MTypeOK, Fresh
  <2>2. up' \cap spares' = {} /\ spares' \subseteq spares /\ issued' = issued
    BY <1>14 DEF Restart, Fresh
  <2>3. /\ stamped' \subseteq issued' /\ applied' \subseteq issued'
        /\ \A c \in plain' : c.node \in up'
    BY <1>14, <1>a, <2>2 DEF Restart
  <2>4. ASSUME NEW x \in issued, x.stamp.o \in up'
        PROVE  ~TSAfter(TS(x.stamp), hlc'[x.stamp.o])
    <3>1. x.stamp.o # s
      BY DEF Fresh
    <3>2. x.stamp.o \in up /\ x.stamp.o # n
      BY <1>14, <2>4, <3>1 DEF Restart
    <3>3. hlc'[x.stamp.o] = hlc[x.stamp.o]
      BY <1>14, <1>a, <2>1, <3>1, <3>2 DEF Restart, MTypeOK
    <3> QED
      BY <3>2, <3>3 DEF Fresh
  <2>5. Fresh'
    BY <2>2, <2>3, <2>4 DEF Fresh
  <2> QED
    BY <2>2, <2>5 DEF StampsIdentifyWrites
<1> QED
  BY <1>1, <1>2, <1>3, <1>4, <1>5, <1>6, <1>7, <1>8, <1>9, <1>10, <1>11, <1>12,
     <1>13, <1>14 DEF MStep

-----------------------------------------------------------------------------
(***************************************************************************)
(* Deletes travel with a stamp, and one event at a time is in hand.        *)
(***************************************************************************)
\* A step that puts nothing new on its way.
LEMMA NothingSent ==
    ASSUME Carried, net' \subseteq net, digests' \subseteq digests,
           \A n \in Nodes : queue'[n] \subseteq queue[n] /\ handling'[n] \subseteq handling[n]
    PROVE  Carried'
BY DEF Carried, Travels, IsStamped

\* Every step keeps that.
LEMMA CarriedInductive == MTypeOK /\ Fresh /\ Carried /\ MStep => Carried'
<1> SUFFICES ASSUME MTypeOK, Fresh, Carried, MStep PROVE Carried'
  OBVIOUS
<1>1. ASSUME NEW n \in up, NEW k \in Keys, Draws(n, k) PROVE Carried'
  BY <1>1, NothingSent DEF Draws, NextStamp
<1>2. ASSUME NEW w \in stamped, ApplyLocal(w) /\ UNCHANGED mixedVars PROVE Carried'
  BY <1>2, NothingSent DEF ApplyLocal, mixedVars
<1>3. ASSUME NEW w \in applied, QueueReplicationLWW(w) /\ UNCHANGED mixedVars
      PROVE  Carried'
  <2>1. w.stamp.o \in Nodes /\ Travels(w)
    BY WriteFields DEF MTypeOK, Fresh, Travels
  <2> QED
    BY <1>3, <2>1 DEF QueueReplicationLWW, mixedVars, MTypeOK, Carried
<1>4. ASSUME NEW n \in up, NEW k \in Keys, NEW v \in Values, PlainWrite(n, k, v)
      PROVE  Carried'
  BY <1>4, NothingSent DEF PlainWrite
<1>5. ASSUME NEW n \in up, NEW k \in Keys, NEW v \in Values, CounterWrite(n, k, v)
      PROVE  Carried'
  BY <1>5, NothingSent DEF CounterWrite
<1>6. ASSUME NEW c \in counted, CounterCallback(c) PROVE Carried'
  <2>1. Travels([key |-> c.key, val |-> EmptyValue, stamp |-> ZeroStamp])
    BY EmptyValueAssumption DEF Travels
  <2> QED
    BY <1>6, <2>1 DEF CounterCallback, MTypeOK, Carried
<1>7. ASSUME NEW n \in up, NEW w \in queue[n],
             SendBatch(up \ {n}, n, w) /\ UNCHANGED mixedVars
      PROVE  Carried'
  <2>1. n \in Nodes /\ Travels(w)
    BY DEF MTypeOK, Carried
  <2> QED
    BY <1>7, <2>1 DEF SendBatch, SendTo, mixedVars, MTypeOK, Carried
<1>8. ASSUME NEW n \in up, NEW w \in queue[n], SendBatchFails(up \ {n}, n, w),
             UNCHANGED <<up, spares, plain, counted>>
      PROVE  Carried'
  <2>1. n \in Nodes /\ Travels(w)
    BY DEF MTypeOK, Carried
  <2>2. net' \subseteq net \cup [to : up \ {n}, write : {w}]
    BY <1>8 DEF SendBatchFails, SendTo
  <2>3. \A m \in net' : Travels(m.write)
    BY <2>1, <2>2 DEF Carried
  <2>4. \A i \in Nodes : queue'[i] \subseteq queue[i]
    BY <1>8, <2>1 DEF SendBatchFails, MTypeOK
  <2> QED
    BY <1>8, <2>3, <2>4 DEF SendBatchFails, Carried
<1>9. ASSUME NEW n \in up, NEW m \in net, IsStamped(m.write),
             ReceivePush(n, m.write) /\ UNCHANGED mixedVars
      PROVE  Carried'
  BY <1>9 DEF ReceivePush, mixedVars, MTypeOK, Carried
<1>10. ASSUME NEW n \in up, NEW m \in net, ReceiveUnstamped(n, m.write) PROVE Carried'
  BY <1>10 DEF ReceiveUnstamped, MTypeOK, Carried
<1>11. ASSUME NEW n \in up, NEW w \in handling[n], ApplyPush(n, w) /\ UNCHANGED mixedVars
       PROVE  Carried'
  <2>1. \A i \in Nodes : handling'[i] \subseteq handling[i]
    BY <1>11 DEF ApplyPush, MTypeOK
  <2> QED
    BY <1>11, <2>1, NothingSent DEF ApplyPush, mixedVars
<1>12. ASSUME NEW m \in up, NEW n \in up, NEW k \in Keys, Sync(m, n, k) PROVE Carried'
  <2>1. store[m][k] \in MKeyStates
    BY DEF MTypeOK
  <2>2. \A w \in Digest(k, store[m][k]) : Travels(w)
    BY <2>1, DigestTyped
  <2>3. digests' = digests \cup [from : {m}, to : {n}, write : Digest(k, store[m][k])]
    BY <1>12 DEF Sync, SyncReply
  <2>4. \A d \in digests' : Travels(d.write)
    BY <2>2, <2>3 DEF Carried
  <2> QED
    BY <1>12, <2>4 DEF Sync, SyncReply, Carried
<1>13. ASSUME NEW m \in Nodes, NEW n \in up, NEW d \in digests,
              SyncResponse(m, n, d.write) /\ UNCHANGED mixedVars
       PROVE  Carried'
  BY <1>13, NothingSent DEF SyncResponse, mixedVars
<1>14. ASSUME NEW n \in up, NEW s \in spares, Restart(n, s) PROVE Carried'
  <2>1. \A i \in Nodes : queue'[i] \subseteq queue[i] /\ handling'[i] \subseteq handling[i]
    BY <1>14 DEF Restart, MTypeOK
  <2>2. net' \subseteq net /\ digests' \subseteq digests
    BY <1>14 DEF Restart
  <2> QED
    BY <2>1, <2>2, NothingSent
<1> QED
  BY <1>1, <1>2, <1>3, <1>4, <1>5, <1>6, <1>7, <1>8, <1>9, <1>10, <1>11, <1>12,
     <1>13, <1>14 DEF MStep

\* The part of the invariant that holds whatever travels.
LEMMA MInvInductive == MInv /\ [MNext]_allVars => MInv'
<1> SUFFICES ASSUME MInv, [MNext]_allVars PROVE MInv'
  OBVIOUS
<1>1. CASE MNext
  BY <1>1, MNextCases, MTypeInductive, FreshInductive, CarriedInductive DEF MInv
<1>2. CASE UNCHANGED allVars
  BY <1>2 DEF allVars, vars, mixedVars, MInv, MTypeOK, Fresh, StampsIdentifyWrites, Carried,
     Travels, IsStamped
<1> QED
  BY <1>1, <1>2

\* A cluster that has just started.
LEMMA MInvInit == MInit => MInv
<1> SUFFICES ASSUME MInit PROVE MInv
  OBVIOUS
<1>1. ZeroTS \in Timestamps
  BY LogicalModAssumption DEF Timestamps, ZeroTS
<1>2. MTypeOK
  BY <1>1, MissingTyped, SparesAssumption DEF MInit, Init, MTypeOK
<1>3. Fresh /\ StampsIdentifyWrites /\ Carried
  BY DEF MInit, Init, Fresh, StampsIdentifyWrites, Carried
<1> QED
  BY <1>2, <1>3 DEF MInv

(***************************************************************************)
(* Over any number of commands, messages and restarts.                     *)
(***************************************************************************)
THEOREM MInvariance == MSpec => []MInv
<1> QED
  BY MInvInit, MInvInductive, PTL DEF MSpec

(***************************************************************************)
(* Stamps stay unique over restarts, although a new process reads its      *)
(* clock from zero (NewClusterManager draws a new node id, cluster.go).    *)
(***************************************************************************)
THEOREM StampsStayUnique == MSpec => []StampsSurviveRestarts
<1>1. MInv => StampsSurviveRestarts
  BY DEF MInv, StampsSurviveRestarts
<1> QED
  BY <1>1, MInvariance, PTL

-----------------------------------------------------------------------------
(***************************************************************************)
(* A deletion holds at its node: what keeps older writes away from the     *)
(* key.                                                                    *)
(***************************************************************************)
\* A SET taken in is not older than the deletion d.
Outdated(W, d) == \E x \in W : x.key = d.key /\ x.val # NoVal /\ ~After(d.stamp, x.stamp)

\* The stamped value of the key k is of a SET taken in, and its tombstone is
\* gone; every deletion is covered by the tombstone, or outdated.
Guards(ks, W, k) ==
    /\ \A w \in W : Travels(w)
    /\ (ks.val # NoVal /\ ks.ver # ZeroStamp)
          => /\ ks.tomb = ZeroStamp
             /\ \E x \in W : x.key = k /\ x.val # NoVal /\ x.stamp = ks.ver
    /\ \A d \in W : (d.key = k /\ d.val = NoVal)
          => \/ Outdated(W, d)
             \/ /\ ks.tomb # ZeroStamp /\ ~After(d.stamp, ks.tomb)
                /\ ks.val = NoVal \/ ks.ver = ZeroStamp

Guarded == /\ \A s \in spares : seen[s] = {}
           /\ \A n \in Nodes, k \in Keys : Guards(store[n][k], seen[n], k)

\* A deletion that is outdated stays so.
LEMMA OutdatedStays ==
    ASSUME NEW W, NEW w, NEW d, Outdated(W, d)
    PROVE  Outdated(W \cup {w}, d)
BY DEF Outdated

\* What was not taken in guards nothing.
LEMMA NothingTakenIn ==
    ASSUME NEW ks, NEW k, ks.val = NoVal \/ ks.ver = ZeroStamp
    PROVE  Guards(ks, {}, k)
BY DEF Guards

\* A key that does not change, whatever else the node takes in.
LEMMA StillGuards ==
    ASSUME NEW ks, NEW W, NEW k, NEW w, Travels(w), Guards(ks, W, k), w.key # k
    PROVE  Guards(ks, W \cup {w}, k)
<1>1. \A x \in W \cup {w} : Travels(x)
  BY DEF Guards
<1>2. (ks.val # NoVal /\ ks.ver # ZeroStamp)
         => /\ ks.tomb = ZeroStamp
            /\ \E x \in W \cup {w} : x.key = k /\ x.val # NoVal /\ x.stamp = ks.ver
  BY DEF Guards
<1>3. ASSUME NEW d \in W \cup {w}, d.key = k, d.val = NoVal
      PROVE  \/ Outdated(W \cup {w}, d)
             \/ /\ ks.tomb # ZeroStamp /\ ~After(d.stamp, ks.tomb)
                /\ ks.val = NoVal \/ ks.ver = ZeroStamp
  <2>1. d \in W
    BY <1>3
  <2> QED
    BY <1>3, <2>1, OutdatedStays DEF Guards
<1> QED
  BY <1>1, <1>2, <1>3 DEF Guards

\* A plain value leaves the tombstone.
LEMMA PlainGuards ==
    ASSUME NEW ks \in MKeyStates, NEW W, NEW k, NEW v, Guards(ks, W, k)
    PROVE  Guards(PlainSet(ks, v), W, k)
<1>1. PlainSet(ks, v).ver = ZeroStamp /\ PlainSet(ks, v).tomb = ks.tomb
  BY DEF PlainSet, MKeyStates
<1> QED
  BY <1>1 DEF Guards

\* A key takes in a write: if that wins, it is newer than the tombstone; if
\* not, it is covered by what it lost to.
LEMMA TakingGuards ==
    ASSUME NEW ks \in MKeyStates, NEW W \in SUBSET MWrites, NEW w \in MWrites, Travels(w),
           NEW k, w.key = k, Guards(ks, W, k)
    PROVE  Guards(Apply(ks, w), W \cup {w}, k)
<1>1. \A x \in W \cup {w} : Travels(x)
  BY DEF Guards
<1>2. \A d \in W : (d.key = k /\ d.val = NoVal)
         => \/ Outdated(W \cup {w}, d)
            \/ /\ ks.tomb # ZeroStamp /\ ~After(d.stamp, ks.tomb)
               /\ ks.val = NoVal \/ ks.ver = ZeroStamp
  BY OutdatedStays DEF Guards
<1>3. (ks.val # NoVal /\ ks.ver # ZeroStamp)
         => /\ ks.tomb = ZeroStamp
            /\ \E x \in W : x.key = k /\ x.val # NoVal /\ x.stamp = ks.ver
  BY DEF Guards
<1>4. CASE ~IsStamped(w)
  <2>1. w.val # NoVal
    BY <1>4 DEF Travels
  <2>2. PICK new : new = PlainSet(ks, w.val)
    OBVIOUS
  <2>3. Apply(ks, w) = new /\ new.ver = ZeroStamp /\ new.tomb = ks.tomb
    BY <1>4, <2>1, <2>2 DEF Apply, PlainSet, MKeyStates
  <2>4. \A d \in W \cup {w} : (d.key = k /\ d.val = NoVal)
           => \/ Outdated(W \cup {w}, d)
              \/ /\ new.tomb # ZeroStamp /\ ~After(d.stamp, new.tomb)
                 /\ new.val = NoVal \/ new.ver = ZeroStamp
    BY <1>2, <2>1, <2>3
  <2> QED
    BY <1>1, <2>3, <2>4 DEF Guards
<1>5. CASE IsStamped(w) /\ Wins(ks, w.stamp)
  <2>1. w.stamp \in Stamps /\ w.stamp # ZeroStamp /\ ks.tomb \in MStamps
    BY <1>5, EventTime, StampFields DEF MKeyStates
  <2>2. ASSUME NEW d \in W, d.val = NoVal, ks.tomb # ZeroStamp, ~After(d.stamp, ks.tomb)
        PROVE  ~After(d.stamp, w.stamp)
    <3>1. ks.tomb \in Stamps /\ After(w.stamp, ks.tomb)
      BY <1>5, <2>1, <2>2 DEF MStamps, Wins
    <3>2. IsStamped(d) /\ d \in MWrites
      BY <1>1, <2>2 DEF Travels
    <3>3. d.stamp \in Stamps
      BY <3>2, EventTime
    <3>4. After(d.stamp, w.stamp) => After(d.stamp, ks.tomb)
      BY <2>1, <3>1, <3>3, AfterTransitive
    <3> QED
      BY <2>2, <3>4
  <2>3. CASE w.val # NoVal
    <3>1. Apply(ks, w) = [val |-> w.val, ver |-> w.stamp, tomb |-> ZeroStamp]
      BY <1>5, <2>3 DEF Apply, SetWithHLC
    <3>2. ASSUME NEW d \in W \cup {w}, d.key = k, d.val = NoVal
          PROVE  Outdated(W \cup {w}, d)
      <4>1. d \in W
        BY <2>3, <3>2
      <4>2. CASE ks.tomb # ZeroStamp /\ ~After(d.stamp, ks.tomb)
        BY <2>2, <2>3, <3>2, <4>1, <4>2 DEF Outdated
      <4> QED
        BY <1>2, <3>2, <4>1, <4>2
    <3> QED
      BY <1>1, <2>3, <3>1, <3>2 DEF Guards
  <2>4. CASE w.val = NoVal
    <3>1. Apply(ks, w) = [val |-> NoVal, ver |-> ZeroStamp, tomb |-> w.stamp]
      BY <1>5, <2>4 DEF Apply, DeleteWithHLC
    <3>2. ASSUME NEW d \in W \cup {w}, d.key = k, d.val = NoVal
          PROVE  Outdated(W \cup {w}, d) \/ ~After(d.stamp, w.stamp)
      <4>1. CASE d = w
        BY <2>1, <4>1, AfterIrreflexive
      <4>2. CASE d \in W
        BY <1>2, <2>2, <3>2, <4>2
      <4> QED
        BY <4>1, <4>2
    <3> QED
      BY <1>1, <2>1, <3>1, <3>2 DEF Guards
  <2> QED
    BY <2>3, <2>4
<1>6. CASE IsStamped(w) /\ ~Wins(ks, w.stamp)
  <2>1. Apply(ks, w) = ks
    <3>1. CASE w.val = NoVal
      BY <1>6, <3>1 DEF Apply, DeleteWithHLC
    <3>2. CASE w.val # NoVal
      BY <1>6, <3>2 DEF Apply, SetWithHLC
    <3> QED
      BY <3>1, <3>2
  <2>2. w.stamp \in MStamps /\ After(w.stamp, ZeroStamp)
    BY <1>6, EventFields, StampedIsAfterZero DEF IsStamped
  <2>3. ASSUME w.val = NoVal
        PROVE  \/ Outdated(W \cup {w}, w)
               \/ /\ ks.tomb # ZeroStamp /\ ~After(w.stamp, ks.tomb)
                  /\ ks.val = NoVal \/ ks.ver = ZeroStamp
    <3>1. CASE ks.val # NoVal /\ ~After(w.stamp, ks.ver)
      <4>1. ks.ver # ZeroStamp
        BY <2>2, <3>1
      <4>2. PICK x \in W : x.key = k /\ x.val # NoVal /\ x.stamp = ks.ver
        BY <1>3, <3>1, <4>1
      <4> QED
        BY <3>1, <4>2 DEF Outdated
    <3>2. CASE ks.tomb # ZeroStamp /\ ~After(w.stamp, ks.tomb)
      BY <1>3, <3>2
    <3> QED
      BY <1>6, <3>1, <3>2 DEF Wins
  <2>4. \A d \in W \cup {w} : (d.key = k /\ d.val = NoVal)
           => \/ Outdated(W \cup {w}, d)
              \/ /\ ks.tomb # ZeroStamp /\ ~After(d.stamp, ks.tomb)
                 /\ ks.val = NoVal \/ ks.ver = ZeroStamp
    BY <1>2, <2>3
  <2> QED
    BY <1>1, <1>3, <2>1, <2>4 DEF Guards
<1> QED
  BY <1>4, <1>5, <1>6

\* A node that takes in a write.
LEMMA StoreGuarded ==
    ASSUME MTypeOK, Guarded, NEW n \in Nodes \ spares, NEW w \in MWrites, Travels(w),
           StoreAt(n, w), spares' = spares
    PROVE  Guarded'
<1>1. CASE RefuseAt(n, w)
  BY <1>1 DEF RefuseAt, Guarded
<1>2. CASE ApplyAt(n, w)
  <2>1. seen' = [seen EXCEPT ![n] = @ \cup {w}]
    BY <1>2 DEF ApplyAt
  <2>2. \A s \in spares' : seen'[s] = {}
    BY <2>1 DEF Guarded, MTypeOK
  <2>3. ASSUME NEW m \in Nodes, NEW k \in Keys
        PROVE  Guards(store'[m][k], seen'[m], k)
    <3>1. Guards(store[m][k], seen[m], k) /\ store[m][k] \in MKeyStates /\ seen[m] \in SUBSET MWrites
      BY DEF Guarded, MTypeOK
    <3>2. CASE m = n /\ k = w.key
      <4>1. store'[m][k] = Apply(store[m][k], w) /\ seen'[m] = seen[m] \cup {w}
        BY <1>2, <3>2 DEF ApplyAt, MTypeOK
      <4> QED
        BY <3>1, <3>2, <4>1, TakingGuards
    <3>3. CASE m = n /\ k # w.key
      <4>1. store'[m][k] = store[m][k] /\ seen'[m] = seen[m] \cup {w}
        BY <1>2, <3>3 DEF ApplyAt, MTypeOK
      <4> QED
        BY <3>1, <3>3, <4>1, StillGuards
    <3>4. CASE m # n
      <4>1. store'[m][k] = store[m][k] /\ seen'[m] = seen[m]
        BY <1>2, <3>4 DEF ApplyAt, MTypeOK
      <4> QED
        BY <3>1, <4>1
    <3> QED
      BY <3>2, <3>3, <3>4
  <2> QED
    BY <2>2, <2>3 DEF Guarded
<1> QED
  BY <1>1, <1>2 DEF StoreAt

\* A node that writes a plain value.
LEMMA PlainGuarded ==
    ASSUME MTypeOK, Guarded, NEW n \in Nodes, NEW j \in Keys, NEW v,
           WritePlainly(n, j, v), seen' = seen, spares' = spares
    PROVE  Guarded'
<1>1. ASSUME NEW m \in Nodes, NEW k \in Keys
      PROVE  Guards(store'[m][k], seen[m], k)
  <2>1. Guards(store[m][k], seen[m], k) /\ store[m][k] \in MKeyStates
    BY DEF Guarded, MTypeOK
  <2>2. CASE m = n /\ k = j
    <3>1. store'[m][k] = PlainSet(store[m][k], v)
      BY <2>2 DEF WritePlainly, MTypeOK
    <3> QED
      BY <2>1, <3>1, PlainGuards
  <2>3. CASE ~(m = n /\ k = j)
    <3>1. store'[m][k] = store[m][k]
      BY <2>3 DEF WritePlainly, MTypeOK
    <3> QED
      BY <2>1, <3>1
  <2> QED
    BY <2>2, <2>3
<1> QED
  BY <1>1 DEF Guarded

\* The guards stand after every step.
LEMMA GuardedInductive == MInv /\ Guarded /\ [MNext]_allVars => Guarded'
<1> SUFFICES ASSUME MInv, Guarded, [MNext]_allVars PROVE Guarded'
  OBVIOUS
<1>1. MTypeOK /\ Fresh /\ Carried /\ \A n \in up : n \in Nodes \ spares
  BY DEF MInv, MTypeOK, Fresh
<1>2. CASE UNCHANGED <<store, seen, spares>>
  BY <1>2 DEF Guarded
<1>3. ASSUME NEW i \in up, NEW j \in Keys, Draws(i, j) PROVE Guarded'
  BY <1>2, <1>3 DEF Draws, NextStamp
<1>4. ASSUME NEW w \in stamped, ApplyLocal(w), UNCHANGED mixedVars PROVE Guarded'
  <2>1. w \in MWrites /\ Travels(w) /\ w.stamp.o \in Nodes \ spares
    BY <1>1, WritesTravel, WriteFields DEF MTypeOK, Fresh, Travels
  <2> QED
    BY <1>1, <1>4, <2>1, StoreGuarded DEF ApplyLocal, mixedVars
<1>5. ASSUME NEW i \in up, NEW j \in Keys, NEW v \in Values,
             PlainWrite(i, j, v) \/ CounterWrite(i, j, v)
      PROVE  Guarded'
  BY <1>1, <1>5, PlainGuarded DEF PlainWrite, CounterWrite
<1>6. ASSUME NEW i \in up, NEW w \in handling[i], ApplyPush(i, w), UNCHANGED mixedVars
      PROVE  Guarded'
  <2>1. w \in MWrites /\ Travels(w)
    BY <1>1 DEF MTypeOK, Carried
  <2> QED
    BY <1>1, <1>6, <2>1, StoreGuarded DEF ApplyPush, mixedVars
<1>7. ASSUME NEW m \in Nodes, NEW i \in up, NEW d \in digests,
             SyncResponse(m, i, d.write), UNCHANGED mixedVars
      PROVE  Guarded'
  <2>1. d.write \in MWrites /\ Travels(d.write)
    BY <1>1 DEF MTypeOK, Carried
  <2> QED
    BY <1>1, <1>7, <2>1, StoreGuarded DEF SyncResponse, mixedVars
<1>8. ASSUME NEW i \in up, NEW s \in spares, Restart(i, s) PROVE Guarded'
  <2>1. /\ store' = [store EXCEPT ![s] = [k \in Keys |-> Recovered(store[i][k])],
                                  ![i] = [k \in Keys |-> Missing]]
        /\ seen' = [seen EXCEPT ![i] = {}]
        /\ spares' = spares \ {s}
    BY <1>8 DEF Restart
  <2>2. i # s /\ i \in Nodes /\ s \in Nodes /\ seen[s] = {}
    BY <1>1 DEF MTypeOK, Guarded
  <2>3. \A r \in spares' : seen'[r] = {}
    BY <1>1, <2>1 DEF MTypeOK, Guarded
  <2>4. ASSUME NEW m \in Nodes, NEW k \in Keys
        PROVE  Guards(store'[m][k], seen'[m], k)
    <3>1. CASE m = s
      <4>1. store'[m][k] = Recovered(store[i][k]) /\ seen'[m] = {}
        BY <1>1, <2>1, <2>2, <3>1 DEF MTypeOK
      <4>2. Recovered(store[i][k]).ver = ZeroStamp
        BY DEF Recovered, PlainSet, Missing
      <4> QED
        BY <4>1, <4>2, NothingTakenIn
    <3>2. CASE m = i
      <4>1. store'[m][k] = Missing /\ seen'[m] = {}
        BY <1>1, <2>1, <2>2, <3>2 DEF MTypeOK
      <4>2. Missing.val = NoVal
        BY DEF Missing
      <4> QED
        BY <4>1, <4>2, NothingTakenIn
    <3>3. CASE m # s /\ m # i
      <4>1. store'[m][k] = store[m][k] /\ seen'[m] = seen[m]
        BY <1>1, <2>1, <3>3 DEF MTypeOK
      <4> QED
        BY <4>1 DEF Guarded
    <3> QED
      BY <3>1, <3>2, <3>3
  <2> QED
    BY <2>3, <2>4 DEF Guarded
<1>9. CASE \/ \E w \in applied : QueueReplicationLWW(w) /\ UNCHANGED mixedVars
           \/ \E c \in counted : CounterCallback(c)
           \/ \E i \in up : \E w \in queue[i] :
                 SendBatch(up \ {i}, i, w) /\ UNCHANGED mixedVars
           \/ \E i \in up : \E w \in queue[i] :
                 /\ SendBatchFails(up \ {i}, i, w)
                 /\ pushOnly' = FALSE
                 /\ UNCHANGED <<up, spares, plain, counted>>
           \/ \E i \in up, m \in net : /\ IsStamped(m.write)
                                       /\ ReceivePush(i, m.write)
                                       /\ UNCHANGED mixedVars
           \/ \E i \in up, m \in net : ReceiveUnstamped(i, m.write)
           \/ \E m, i \in up, j \in Keys : Sync(m, i, j)
  BY <1>2, <1>9 DEF QueueReplicationLWW, CounterCallback, SendBatch, SendBatchFails,
     ReceivePush, ReceiveUnstamped, Sync, SyncReply, mixedVars
<1>10. CASE UNCHANGED allVars
  BY <1>2, <1>10 DEF allVars, vars, mixedVars
<1>11. CASE MNext
  <2>1. MStep
    BY <1>1, <1>11, MNextCases
  <2> QED
    BY <1>3, <1>4, <1>5, <1>6, <1>7, <1>8, <1>9, <2>1 DEF MStep
<1> QED
  BY <1>10, <1>11

(***************************************************************************)
(* A deletion holds at its node against older stamped writes, whatever     *)
(* plain writes, counters and events without a stamp come between, until a *)
(* stamped SET that is not older was taken in: for any nodes, keys,        *)
(* values, clock readings and bounds, with or without memory for the       *)
(* writes (lww.go:62-71).                                                  *)
(***************************************************************************)
THEOREM DeletionsStay == MSpec => []DeletionsHold
<1>1. MInit => Guarded
  <2> SUFFICES ASSUME MInit PROVE Guarded
    OBVIOUS
  <2>1. \A n \in Nodes : seen[n] = {} /\ \A k \in Keys : store[n][k] = Missing
    BY DEF MInit, Init
  <2>2. spares \subseteq Nodes
    BY SparesAssumption DEF MInit
  <2>3. Missing.val = NoVal
    BY DEF Missing
  <2> QED
    BY <2>1, <2>2, <2>3, NothingTakenIn DEF Guarded
<1>2. MInv /\ Guarded => DeletionsHold
  <2> SUFFICES ASSUME MInv, Guarded, NEW n \in up, NEW del \in seen[n], del.val = NoVal,
                      ShowsOlder(store[n][del.key], del.stamp)
               PROVE  Outdated(seen[n], del)
    BY DEF DeletionsHold, Outdated
  <2>1. n \in Nodes /\ del.key \in Keys
    BY EventFields DEF MInv, MTypeOK
  <2>2. Guards(store[n][del.key], seen[n], del.key)
    BY <2>1 DEF Guarded
  <2> QED
    BY <2>2 DEF Guards, ShowsOlder
<1> QED
  BY <1>1, <1>2, GuardedInductive, MInvariance, PTL DEF MSpec

-----------------------------------------------------------------------------
(***************************************************************************)
(* While every write leaves its node as an accepted push.                  *)
(***************************************************************************)
\* The steps of such a behaviour.
PushStep ==
    \/ \E n \in up, k \in Keys : Draws(n, k)
    \/ \E w \in stamped : ApplyLocal(w) /\ UNCHANGED mixedVars
    \/ \E w \in applied : QueueReplicationLWW(w) /\ UNCHANGED mixedVars
    \/ \E n \in up, k \in Keys, v \in Values : PlainWrite(n, k, v)
    \/ \E n \in up, k \in Keys, v \in Values : CounterWrite(n, k, v)
    \/ \E n \in up : \E w \in queue[n] : SendBatch(up \ {n}, n, w) /\ UNCHANGED mixedVars
    \/ \E n \in up, m \in net : ReceivePush(n, m.write) /\ UNCHANGED mixedVars
    \/ \E n \in up : \E w \in handling[n] : ApplyPush(n, w) /\ UNCHANGED mixedVars

\* pushOnly stays set only over these steps.
LEMMA PushCases ==
    ASSUME MInv, pushOnly => Pushed, MStep, pushOnly'
    PROVE  Pushed /\ PushStep
<1>1. pushOnly
  BY DEF MStep, Draws, mixedVars, PlainWrite, CounterWrite, CounterCallback,
         ReceiveUnstamped, Sync, Restart
<1>2. Pushed
  BY <1>1
<1>3. ~ \E c \in counted : CounterCallback(c)
  BY DEF CounterCallback
<1>4. ~ \E n \in up, m \in net : ReceiveUnstamped(n, m.write)
  BY <1>2 DEF ReceiveUnstamped, MInv, Fresh, Pushed, OnlyPushes
<1>5. ~ \E m, n \in up, k \in Keys : Sync(m, n, k)
  BY DEF Sync
<1>6. ~ \E m \in Nodes, n \in up, d \in digests : SyncResponse(m, n, d.write)
  BY <1>2 DEF Pushed, OnlyPushes
<1>7. ~ \E n \in up, s \in spares : Restart(n, s)
  BY DEF Restart
<1> QED
  BY <1>2, <1>3, <1>4, <1>5, <1>6, <1>7 DEF MStep, PushStep

\* A store with memory to spare takes in the write.
LEMMA TakesIn ==
    ASSUME ~MemoryLimited, MTypeOK, NEW n \in Nodes, NEW w \in MWrites, StoreAt(n, w)
    PROVE  /\ ApplyAt(n, w)
           /\ seen'[n] = seen[n] \cup {w}
           /\ \A p \in Nodes \ {n} : seen'[p] = seen[p]
           /\ \A p \in Nodes : seen[p] \subseteq seen'[p]
BY DEF StoreAt, RefuseAt, ApplyAt, MTypeOK

\* What a running node draws, applies, handles and queues.
LEMMA OnlyPushesInductive ==
    ASSUME ~MemoryLimited, MInv, Pushed, PushStep
    PROVE  OnlyPushes'
<1> USE DEF OnlyPushes
<1>a. /\ OnlyPushes /\ MTypeOK /\ up \subseteq Nodes
      /\ stamped \subseteq issued /\ applied \subseteq issued
  BY DEF Pushed, MInv, Fresh, MTypeOK
<1>b. \A w \in issued : w \in Writes /\ w \in MWrites /\ w.stamp.o \in Nodes
  BY <1>a, WritesTravel, WriteFields DEF MTypeOK
<1>1. ASSUME NEW n \in up, NEW k \in Keys, Draws(n, k) PROVE OnlyPushes'
  <2>1. n \in Nodes
    BY <1>a
  <2>2. PICK v \in Values \cup {NoVal} : NextStamp(n, k, v)
    BY <1>1 DEF Draws
  <2>3. PICK w \in Writes : Drew(n, k, w)
    BY <1>a, <2>1, <2>2, NextStampDraws
  <2> QED
    BY <1>a, <1>1, <2>2, <2>3 DEF Draws, NextStamp, Drew
<1>2. ASSUME NEW w \in stamped, ApplyLocal(w) /\ UNCHANGED mixedVars PROVE OnlyPushes'
  <2>1. w \in issued
    BY <1>a
  <2>2. \A p \in Nodes : seen'[p] \subseteq seen[p] \cup {w}
    BY <1>a, <1>b, <1>2, <2>1, TakesIn DEF ApplyLocal
  <2> QED
    BY <1>a, <1>2, <2>1, <2>2 DEF ApplyLocal, mixedVars
<1>3. ASSUME NEW w \in applied, QueueReplicationLWW(w) /\ UNCHANGED mixedVars
      PROVE  OnlyPushes'
  BY <1>a, <1>b, <1>3 DEF QueueReplicationLWW, mixedVars, MTypeOK
<1>4. ASSUME NEW n \in up, NEW k \in Keys, NEW v \in Values,
             PlainWrite(n, k, v) \/ CounterWrite(n, k, v)
      PROVE  OnlyPushes'
  BY <1>a, <1>4 DEF PlainWrite, CounterWrite
<1>5. ASSUME NEW n \in up, NEW w \in queue[n],
             SendBatch(up \ {n}, n, w) /\ UNCHANGED mixedVars
      PROVE  OnlyPushes'
  BY <1>a, <1>5 DEF SendBatch, SendTo, mixedVars, MTypeOK
<1>6. ASSUME NEW n \in up, NEW m \in net, ReceivePush(n, m.write) /\ UNCHANGED mixedVars
      PROVE  OnlyPushes'
  BY <1>a, <1>6 DEF ReceivePush, mixedVars, MTypeOK
<1>7. ASSUME NEW n \in up, NEW w \in handling[n], ApplyPush(n, w) /\ UNCHANGED mixedVars
      PROVE  OnlyPushes'
  <2>1. n \in Nodes /\ w \in issued /\ w \in MWrites
    BY <1>a, <1>b
  <2>2. \A p \in Nodes : seen'[p] \subseteq seen[p] \cup {w}
    BY <1>a, <1>7, <2>1, TakesIn DEF ApplyPush
  <2>3. \A p \in Nodes : handling'[p] \subseteq handling[p]
    BY <1>a, <1>7 DEF ApplyPush, MTypeOK
  <2> QED
    BY <1>a, <1>7, <2>1, <2>2, <2>3 DEF ApplyPush, mixedVars
<1> QED
  BY <1>1, <1>2, <1>3, <1>4, <1>5, <1>6, <1>7 DEF PushStep

\* A timestamp past the clock is past all that the clock covers.
LEMMA PastTheClock ==
    ASSUME NEW a \in Timestamps, NEW b \in Timestamps, NEW c \in Timestamps,
           TSAfter(b, a), ~TSAfter(c, a)
    PROVE  TSAfter(b, c)
BY LogicalModAssumption DEF Timestamps, TSAfter

\* A clock covers what its node has taken in and has in hand.
LEMMA ClocksCoverInductive ==
    ASSUME ~MemoryLimited, MInv, Pushed, PushStep
    PROVE  ClocksCover'
<1>a. /\ MTypeOK /\ ClocksCover /\ OnlyPushes /\ up \subseteq Nodes
      /\ stamped \subseteq issued
      /\ issued \subseteq Writes
  BY DEF Pushed, MInv, Fresh, MTypeOK
<1>b. \A n \in up : \A w \in seen[n] \cup handling[n] : w \in issued
  BY <1>a DEF OnlyPushes
<1>c. \A w \in issued : /\ w \in MWrites /\ w.stamp.o \in up /\ w.stamp.o \in Nodes
                        /\ TS(w.stamp) \in Timestamps /\ IsStamped(w)
                        /\ ~TSAfter(TS(w.stamp), hlc[w.stamp.o])
  BY <1>a, WritesTravel, WriteFields DEF OnlyPushes, MInv, Fresh
<1>1. ASSUME UNCHANGED <<hlc, up>>,
             \A n \in up : \A w \in seen'[n] \cup handling'[n] :
                w \in seen[n] \cup handling[n]
      PROVE  ClocksCover'
  BY <1>a, <1>1 DEF ClocksCover
<1>2. ASSUME NEW n \in up, NEW k \in Keys, Draws(n, k) PROVE ClocksCover'
  <2>1. n \in Nodes
    BY <1>a
  <2>2. PICK v \in Values \cup {NoVal} : NextStamp(n, k, v)
    BY <1>2 DEF Draws
  <2>3. PICK w \in Writes : Drew(n, k, w)
    BY <1>a, <2>1, <2>2, NextStampDraws
  <2>4. hlc'[n] = TS(w.stamp) /\ \A p \in Nodes \ {n} : hlc'[p] = hlc[p]
    BY <1>a, <2>1, <2>3 DEF Drew, MTypeOK
  <2>5. hlc[n] \in Timestamps /\ TS(w.stamp) \in Timestamps
        /\ TSAfter(TS(w.stamp), hlc[n])
    BY <1>a, <2>1, <2>3, WriteFields DEF Drew, MTypeOK
  <2>6. \A x \in seen[n] \cup handling[n] : ~TSAfter(TS(x.stamp), hlc'[n])
    <3> SUFFICES ASSUME NEW x \in seen[n] \cup handling[n]
                 PROVE  ~TSAfter(TS(x.stamp), hlc'[n])
      OBVIOUS
    <3>1. TS(x.stamp) \in Timestamps /\ ~TSAfter(TS(x.stamp), hlc[n])
      BY <1>a, <1>b, <1>c DEF ClocksCover
    <3> QED
      BY <2>4, <2>5, <3>1, AfterSameClock
  <2>7. up' = up /\ seen' = seen /\ handling' = handling
    BY <1>2, <2>2 DEF Draws, NextStamp
  <2> QED
    BY <1>a, <2>4, <2>6, <2>7 DEF ClocksCover
<1>3. ASSUME NEW w \in stamped, ApplyLocal(w) /\ UNCHANGED mixedVars PROVE ClocksCover'
  <2>1. w \in issued
    BY <1>a
  <2>2. seen'[w.stamp.o] = seen[w.stamp.o] \cup {w}
        /\ \A p \in Nodes \ {w.stamp.o} : seen'[p] = seen[p]
    BY <1>a, <1>c, <1>3, <2>1, TakesIn DEF ApplyLocal
  <2>3. hlc' = hlc /\ handling' = handling /\ up' = up
    BY <1>3 DEF ApplyLocal, mixedVars
  <2> QED
    BY <1>a, <1>c, <2>1, <2>2, <2>3 DEF ClocksCover
<1>4. ASSUME NEW w \in applied, QueueReplicationLWW(w) /\ UNCHANGED mixedVars
      PROVE  ClocksCover'
  BY <1>1, <1>4 DEF QueueReplicationLWW, mixedVars
<1>5. ASSUME NEW n \in up, NEW k \in Keys, NEW v \in Values,
             PlainWrite(n, k, v) \/ CounterWrite(n, k, v)
      PROVE  ClocksCover'
  BY <1>1, <1>5 DEF PlainWrite, CounterWrite
<1>6. ASSUME NEW n \in up, NEW w \in queue[n],
             SendBatch(up \ {n}, n, w) /\ UNCHANGED mixedVars
      PROVE  ClocksCover'
  BY <1>1, <1>6 DEF SendBatch, mixedVars
<1>7. ASSUME NEW n \in up, NEW m \in net, ReceivePush(n, m.write) /\ UNCHANGED mixedVars
      PROVE  ClocksCover'
  <2>1. n \in Nodes /\ hlc[n] \in Timestamps /\ m.write \in issued
    BY <1>a DEF MTypeOK, OnlyPushes
  <2>2. PICK pt \in Time : hlc' = [hlc EXCEPT ![n] = Update(@, TS(m.write.stamp), pt)]
    BY <1>7 DEF ReceivePush
  <2> DEFINE ts == Update(hlc[n], TS(m.write.stamp), pt)
  <2>3. ts \in Timestamps /\ TSAfter(ts, hlc[n]) /\ TSAfter(ts, TS(m.write.stamp))
    BY <1>7, <1>c, <2>1, EventTime, UpdateAdvances DEF ReceivePush
  <2>4. hlc'[n] = ts /\ \A p \in Nodes \ {n} : hlc'[p] = hlc[p]
    BY <1>a, <2>1, <2>2 DEF MTypeOK
  <2> HIDE DEF ts
  <2>5. \A x \in seen[n] : ~TSAfter(TS(x.stamp), ts)
    <3> SUFFICES ASSUME NEW x \in seen[n] PROVE ~TSAfter(TS(x.stamp), ts)
      OBVIOUS
    <3>1. TS(x.stamp) \in Timestamps /\ ~TSAfter(TS(x.stamp), hlc[n])
      BY <1>a, <1>b, <1>c DEF ClocksCover
    <3> QED
      BY <2>1, <2>3, <3>1, AfterSameClock
  <2>6. ~TSAfter(TS(m.write.stamp), ts)
    <3>1. TS(m.write.stamp) \in Timestamps
      BY <1>c, <2>1
    <3> QED
      BY <2>3, <3>1, LogicalModAssumption DEF TSAfter, Timestamps
  <2>7. /\ up' = up /\ seen' = seen
        /\ handling'[n] = {m.write}
        /\ \A p \in Nodes \ {n} : handling'[p] = handling[p]
    BY <1>a, <1>7, <2>1 DEF ReceivePush, mixedVars, MTypeOK
  <2> QED
    BY <1>a, <2>4, <2>5, <2>6, <2>7 DEF ClocksCover
<1>8. ASSUME NEW n \in up, NEW w \in handling[n], ApplyPush(n, w) /\ UNCHANGED mixedVars
      PROVE  ClocksCover'
  <2>1. n \in Nodes /\ w \in MWrites
    BY <1>a, <1>b, <1>c
  <2>2. seen'[n] = seen[n] \cup {w} /\ \A p \in Nodes \ {n} : seen'[p] = seen[p]
    BY <1>a, <1>8, <2>1, TakesIn DEF ApplyPush
  <2>3. \A p \in Nodes : handling'[p] \subseteq handling[p]
    BY <1>a, <1>8 DEF ApplyPush, MTypeOK
  <2>4. hlc' = hlc /\ up' = up
    BY <1>8 DEF ApplyPush, mixedVars
  <2> QED
    BY <1>a, <1>1, <2>2, <2>3, <2>4
<1> QED
  BY <1>2, <1>3, <1>4, <1>5, <1>6, <1>7, <1>8 DEF PushStep

\* A write reaches every running node, or is on its way there.
LEMMA ReachesInductive ==
    ASSUME ~MemoryLimited, MInv, Pushed, PushStep
    PROVE  Reaches'
<1>a. /\ MTypeOK /\ Reaches /\ OnlyPushes /\ Carried /\ up \subseteq Nodes
      /\ stamped \subseteq issued /\ applied \subseteq issued
      /\ issued \subseteq Writes
  BY DEF Pushed, MInv, Fresh, MTypeOK
<1>b. \A w \in issued : w \in MWrites /\ w.stamp.o \in up /\ w.stamp.o \in Nodes
  BY <1>a, WritesTravel DEF OnlyPushes
<1>1. ASSUME NEW n \in up, NEW k \in Keys, Draws(n, k) PROVE Reaches'
  <2>1. n \in Nodes
    BY <1>a
  <2>2. PICK v \in Values \cup {NoVal} : NextStamp(n, k, v)
    BY <1>1 DEF Draws
  <2>3. PICK w \in Writes : Drew(n, k, w)
    BY <1>a, <2>1, <2>2, NextStampDraws
  <2>4. UNCHANGED <<up, seen, applied, queue, net, handling>>
    BY <1>1, <2>2 DEF Draws, NextStamp
  <2> QED
    BY <1>a, <2>3, <2>4 DEF Reaches, OnWay, Drew
<1>2. ASSUME NEW w \in stamped, ApplyLocal(w) /\ UNCHANGED mixedVars PROVE Reaches'
  <2>1. w \in issued /\ w.stamp.o \in Nodes
    BY <1>a, <1>b
  <2>2. seen'[w.stamp.o] = seen[w.stamp.o] \cup {w}
        /\ \A p \in Nodes : seen[p] \subseteq seen'[p]
    BY <1>a, <1>b, <1>2, <2>1, TakesIn DEF ApplyLocal
  <2>3. /\ UNCHANGED <<up, issued, queue, net, handling>>
        /\ stamped' = stamped \ {w}
        /\ applied' = applied \cup {w}
    BY <1>2 DEF ApplyLocal, mixedVars
  <2> SUFFICES ASSUME NEW x \in issued, NEW p \in up PROVE OnWay(x, p)'
    BY <2>3 DEF Reaches
  <2>4. OnWay(x, p) /\ p \in Nodes
    BY <1>a DEF Reaches
  <2>5. CASE x = w
    BY <2>2, <2>3, <2>5 DEF OnWay
  <2>6. CASE x # w
    BY <2>2, <2>3, <2>4, <2>6 DEF OnWay
  <2> QED
    BY <2>5, <2>6
<1>3. ASSUME NEW w \in applied, QueueReplicationLWW(w) /\ UNCHANGED mixedVars
      PROVE  Reaches'
  <2>1. /\ UNCHANGED <<up, issued, seen, stamped, net, handling>>
        /\ applied' = applied \ {w}
        /\ w \in queue'[w.stamp.o]
        /\ \A p \in Nodes : queue[p] \subseteq queue'[p]
    BY <1>a, <1>b, <1>3 DEF QueueReplicationLWW, mixedVars, MTypeOK
  <2> QED
    BY <1>a, <1>b, <2>1 DEF Reaches, OnWay
<1>4. ASSUME NEW n \in up, NEW k \in Keys, NEW v \in Values,
             PlainWrite(n, k, v) \/ CounterWrite(n, k, v)
      PROVE  Reaches'
  BY <1>a, <1>4 DEF PlainWrite, CounterWrite, Reaches, OnWay
<1>5. ASSUME NEW n \in up, NEW w \in queue[n],
             SendBatch(up \ {n}, n, w) /\ UNCHANGED mixedVars
      PROVE  Reaches'
  <2>1. /\ UNCHANGED <<up, issued, seen, stamped, applied, handling>>
        /\ net \subseteq net'
        /\ \A p \in up \ {n} : [to |-> p, write |-> w] \in net'
        /\ \A p \in Nodes : queue[p] \subseteq queue'[p] \cup {w}
        /\ \A p \in Nodes \ {n} : queue'[p] = queue[p]
    BY <1>a, <1>5 DEF SendBatch, SendTo, mixedVars, MTypeOK
  <2> SUFFICES ASSUME NEW x \in issued, NEW p \in up PROVE OnWay(x, p)'
    BY <2>1 DEF Reaches
  <2>2. OnWay(x, p) /\ x.stamp.o \in Nodes
    BY <1>a, <1>b DEF Reaches
  <2>3. CASE x = w /\ x.stamp.o = n
    BY <2>1, <2>2, <2>3 DEF OnWay
  <2>4. CASE ~(x = w /\ x.stamp.o = n)
    <3>1. x \in queue[x.stamp.o] => x \in queue'[x.stamp.o]
      BY <2>1, <2>2, <2>4
    <3> QED
      BY <2>1, <2>2, <3>1 DEF OnWay
  <2> QED
    BY <2>3, <2>4
<1>6. ASSUME NEW n \in up, NEW m \in net, ReceivePush(n, m.write) /\ UNCHANGED mixedVars
      PROVE  Reaches'
  <2>1. /\ UNCHANGED <<up, issued, seen, stamped, applied, queue>>
        /\ net' = net \ {[to |-> n, write |-> m.write]}
        /\ handling[n] = {}
        /\ handling'[n] = {m.write}
        /\ \A p \in Nodes \ {n} : handling'[p] = handling[p]
    BY <1>a, <1>6 DEF ReceivePush, mixedVars, MTypeOK
  <2> SUFFICES ASSUME NEW x \in issued, NEW p \in up PROVE OnWay(x, p)'
    BY <2>1 DEF Reaches
  <2>2. OnWay(x, p) /\ p \in Nodes
    BY <1>a DEF Reaches
  <2>3. CASE p = n /\ x = m.write
    BY <2>1, <2>2, <2>3 DEF OnWay
  <2>4. CASE ~(p = n /\ x = m.write)
    <3>1. [to |-> p, write |-> x] \in net => [to |-> p, write |-> x] \in net'
      BY <2>1, <2>4
    <3>2. x \in handling[p] => x \in handling'[p]
      BY <2>1, <2>2
    <3> QED
      BY <2>1, <2>2, <3>1, <3>2 DEF OnWay
  <2> QED
    BY <2>3, <2>4
<1>7. ASSUME NEW n \in up, NEW w \in handling[n], ApplyPush(n, w) /\ UNCHANGED mixedVars
      PROVE  Reaches'
  <2>1. n \in Nodes /\ w \in issued /\ w \in MWrites
    BY <1>a, <1>b DEF OnlyPushes
  <2>2. seen'[n] = seen[n] \cup {w} /\ \A p \in Nodes : seen[p] \subseteq seen'[p]
    BY <1>a, <1>7, <2>1, TakesIn DEF ApplyPush
  <2>3. /\ UNCHANGED <<up, issued, stamped, applied, queue, net>>
        /\ \A p \in Nodes \ {n} : handling'[p] = handling[p]
    BY <1>a, <1>7, <2>1 DEF ApplyPush, mixedVars, MTypeOK
  <2>4. \A x \in handling[n] : x \in seen'[n]
    BY <1>a, <2>1, <2>2 DEF Carried
  <2> SUFFICES ASSUME NEW x \in issued, NEW p \in up PROVE OnWay(x, p)'
    BY <2>3 DEF Reaches
  <2>5. OnWay(x, p) /\ p \in Nodes
    BY <1>a DEF Reaches
  <2>6. x \in handling[p] => x \in handling'[p] \/ x \in seen'[p]
    BY <2>3, <2>4, <2>5
  <2> QED
    BY <2>2, <2>3, <2>5, <2>6 DEF OnWay
<1> QED
  BY <1>1, <1>2, <1>3, <1>4, <1>5, <1>6, <1>7 DEF PushStep

\* A key that was left alone follows as it did.
LEMMA FollowsStill ==
    ASSUME NEW n, NEW k, Follows(n, k),
           store'[n][k] = store[n][k], SeenOf(n, k)' = SeenOf(n, k),
           CallsBack(n, k) => CallsBack(n, k)',
           Mending(n, k) => Mending(n, k)'
    PROVE  Follows(n, k)'
BY DEF Follows

\* A store that takes in a write keeps following, and the write that mends
\* a key has mended it.
LEMMA FollowTakes ==
    ASSUME MInv, Pushed, NEW n \in up, NEW w \in issued, ApplyAt(n, w),
           stamped \ {w} \subseteq stamped', w \notin stamped' => w.stamp.o = n \/ w \notin stamped,
           UNCHANGED <<plain, counted, up>>
    PROVE  Follow'
<1> SUFFICES ASSUME NEW m \in up, NEW k \in Keys PROVE Follows(m, k)'
  BY DEF Follow
<1>a. /\ MTypeOK /\ OnlyPushes /\ StampsIdentifyWrites
      /\ n \in Nodes /\ m \in Nodes
      /\ issued \subseteq Writes /\ \A x \in issued : IsStamped(x)
      /\ Follows(m, k)
  BY DEF MInv, Pushed, Fresh, MTypeOK, Follow
<1>b. CallsBack(m, k)' <=> CallsBack(m, k)
  BY DEF CallsBack
<1>1. CASE m = n /\ k = w.key
  <2>1. store'[n][k] = Apply(store[n][k], w)
    BY <1>a, <1>1 DEF ApplyAt, MTypeOK
  <2>2. SeenOf(n, k)' = SeenOf(n, k) \cup {w}
    BY <1>a, <1>1 DEF ApplyAt, SeenOf, MTypeOK
  <2>3. SeenOf(n, k) \in SUBSET issued
    BY <1>a DEF SeenOf, OnlyPushes
  <2>4. Formed(store[n][k], SeenOf(n, k))
    BY <1>a, <1>1 DEF Follows
  <2>5. Formed(Apply(store[n][k], w), SeenOf(n, k) \cup {w})
    BY <1>a, <2>3, <2>4, TakingFormed
  <2>6. CASE ShowsNewest(store[n][k], SeenOf(n, k))
    <3>1. ShowsNewest(Apply(store[n][k], w), SeenOf(n, k) \cup {w})
      BY <1>a, <2>3, <2>6, TakingIn
    <3> QED
      BY <1>1, <2>1, <2>2, <2>5, <3>1 DEF Follows
  <2>7. CASE CallsBack(n, k)
    BY <1>1, <1>b, <2>1, <2>2, <2>5, <2>7 DEF Follows
  <2>8. ASSUME NEW x \in stamped, x.stamp.o = n, x.key = k,
               Mends(x.stamp, store[n][k], SeenOf(n, k))
        PROVE  Follows(n, k)'
    <3>1. CASE x = w
      <4>1. ShowsNewest(Apply(store[n][k], w), SeenOf(n, k) \cup {w})
        BY <1>a, <2>3, <2>4, <2>8, <3>1, MendedShowsNewest
      <4> QED
        BY <2>1, <2>2, <2>5, <4>1 DEF Follows
    <3>2. CASE x # w
      <4>1. x \in stamped' /\ x.stamp \in Stamps
        BY <1>a, <2>8, <3>2, WriteFields DEF MTypeOK
      <4>2. Mends(x.stamp, Apply(store[n][k], w), SeenOf(n, k) \cup {w})
        BY <1>a, <2>3, <2>4, <2>8, <4>1, TakingMends
      <4>3. Mending(n, k)'
        BY <2>1, <2>2, <2>8, <4>1, <4>2 DEF Mending
      <4> QED
        BY <2>1, <2>2, <2>5, <4>3 DEF Follows
    <3> QED
      BY <3>1, <3>2
  <2> QED
    BY <1>a, <1>1, <2>6, <2>7, <2>8 DEF Follows, Mending
<1>2. CASE ~(m = n /\ k = w.key)
  <2>1. store'[m][k] = store[m][k] /\ SeenOf(m, k)' = SeenOf(m, k)
    BY <1>a, <1>2 DEF ApplyAt, SeenOf, MTypeOK
  <2>2. ASSUME NEW x \in stamped, x.stamp.o = m, x.key = k,
               Mends(x.stamp, store[m][k], SeenOf(m, k))
        PROVE  Mending(m, k)'
    <3>1. x \in stamped'
      BY <1>2, <2>2
    <3> QED
      BY <2>1, <2>2, <3>1 DEF Mending
  <2> QED
    BY <1>a, <1>b, <2>1, <2>2, FollowsStill DEF Mending
<1> QED
  BY <1>1, <1>2

\* A plain write is followed by its callback.
LEMMA FollowPlain ==
    ASSUME MInv, Pushed, NEW n \in up, NEW j \in Keys, NEW v \in Values,
           WritePlainly(n, j, v), CallsBack(n, j)',
           plain \subseteq plain', counted \subseteq counted',
           UNCHANGED <<up, seen, stamped>>
    PROVE  Follow'
<1> SUFFICES ASSUME NEW m \in up, NEW k \in Keys PROVE Follows(m, k)'
  BY DEF Follow
<1>a. MTypeOK /\ n \in Nodes /\ m \in Nodes /\ Follows(m, k) /\ OnlyPushes
      /\ issued \subseteq Writes
  BY DEF MInv, Pushed, MTypeOK, Follow
<1>b. SeenOf(m, k)' = SeenOf(m, k)
  BY DEF SeenOf
<1>1. CASE m = n /\ k = j
  <2>1. store[n][k] \in MKeyStates /\ store'[n][k] = PlainSet(store[n][k], v)
    BY <1>a, <1>1 DEF WritePlainly, MTypeOK
  <2>2. SeenOf(n, k) \in SUBSET Writes
    BY <1>a DEF SeenOf, OnlyPushes
  <2>3. Formed(store'[n][k], SeenOf(n, k))
    BY <1>a, <1>1, <2>1, <2>2, PlainIsFormed DEF Follows
  <2> QED
    BY <1>1, <1>b, <2>3 DEF Follows
<1>2. CASE ~(m = n /\ k = j)
  <2>1. store'[m][k] = store[m][k]
    BY <1>a, <1>2 DEF WritePlainly, MTypeOK
  <2>2. CallsBack(m, k) => CallsBack(m, k)'
    BY DEF CallsBack
  <2>3. Mending(m, k) => Mending(m, k)'
    BY <1>b, <2>1 DEF Mending
  <2> QED
    BY <1>a, <1>b, <2>1, <2>2, <2>3, FollowsStill
<1> QED
  BY <1>1, <1>2

\* Every key keeps following what its node has taken in.
LEMMA FollowInductive ==
    ASSUME ~MemoryLimited, MInv, Pushed, PushStep
    PROVE  Follow'
<1>a. /\ MTypeOK /\ OnlyPushes /\ ClocksCover /\ Follow /\ up \subseteq Nodes
      /\ stamped \subseteq issued
      /\ issued \subseteq Writes
  BY DEF Pushed, MInv, Fresh, MTypeOK
<1>b. \A w \in issued : w \in MWrites /\ w.stamp.o \in up /\ w.stamp.o \in Nodes
  BY <1>a, WritesTravel DEF OnlyPushes
<1>1. ASSUME UNCHANGED <<store, seen, stamped, plain, counted, up>> PROVE Follow'
  BY <1>a, <1>1 DEF Follow, Follows, SeenOf, CallsBack, Mending
<1>2. ASSUME NEW n \in up, NEW k \in Keys, Draws(n, k) PROVE Follow'
  <2>1. n \in Nodes
    BY <1>a
  <2>2. PICK v \in Values \cup {NoVal} : NextStamp(n, k, v)
    BY <1>2 DEF Draws
  <2>3. PICK w \in Writes : Drew(n, k, w)
    BY <1>a, <2>1, <2>2, NextStampDraws
  <2>4. UNCHANGED <<store, seen, counted, up>>
    BY <1>2, <2>2 DEF Draws, NextStamp
  <2>5. w \in stamped' /\ stamped \subseteq stamped' /\ w.stamp.o = n /\ w.key = k
    BY <2>3 DEF Drew
  <2>6. ASSUME NEW y \in SeenOf(n, k) PROVE After(w.stamp, y.stamp)
    <3>1. y \in issued /\ ~TSAfter(TS(y.stamp), hlc[n])
      BY <1>a, <2>1 DEF SeenOf, OnlyPushes, ClocksCover
    <3>2. TS(y.stamp) \in Timestamps /\ hlc[n] \in Timestamps
          /\ TS(w.stamp) \in Timestamps /\ TSAfter(TS(w.stamp), hlc[n])
      BY <1>a, <2>1, <2>3, <3>1, WriteFields DEF MTypeOK, Drew
    <3>3. TSAfter(TS(w.stamp), TS(y.stamp))
      BY <3>1, <3>2, PastTheClock
    <3> QED
      BY <3>3 DEF After
  <2>7. ASSUME NEW m \in up, NEW j \in Keys PROVE Follows(m, j)'
    <3>1. SeenOf(m, j)' = SeenOf(m, j) /\ store'[m][j] = store[m][j] /\ Follows(m, j)
      BY <1>a, <2>4 DEF SeenOf, Follow
    <3>2. Mending(m, j) => Mending(m, j)'
      BY <2>5, <3>1 DEF Mending
    <3>3. CASE m = n /\ j = k
      <4>1. Mending(m, j)'
        BY <2>5, <2>6, <3>1, <3>3 DEF Mending, Mends
      <4> QED
        BY <3>1, <4>1 DEF Follows
    <3>4. CASE ~(m = n /\ j = k)
      <4>1. CallsBack(m, j) => CallsBack(m, j)'
        BY <1>2, <2>4, <3>4 DEF CallsBack, Draws
      <4> QED
        BY <3>1, <3>2, <4>1, FollowsStill
    <3> QED
      BY <3>3, <3>4
  <2> QED
    BY <2>4, <2>7 DEF Follow
<1>3. ASSUME NEW w \in stamped, ApplyLocal(w) /\ UNCHANGED mixedVars PROVE Follow'
  <2>1. w \in issued /\ w \in MWrites /\ w.stamp.o \in up /\ w.stamp.o \in Nodes
    BY <1>a, <1>b
  <2>2. ApplyAt(w.stamp.o, w)
    BY <1>a, <1>3, <2>1, TakesIn DEF ApplyLocal
  <2>3. stamped' = stamped \ {w} /\ UNCHANGED <<plain, counted, up>>
    BY <1>3 DEF ApplyLocal, mixedVars
  <2> QED
    BY <2>1, <2>2, <2>3, FollowTakes
<1>4. ASSUME NEW w \in applied, QueueReplicationLWW(w) /\ UNCHANGED mixedVars
      PROVE  Follow'
  BY <1>1, <1>4 DEF QueueReplicationLWW, mixedVars
<1>5. ASSUME NEW n \in up, NEW k \in Keys, NEW v \in Values, PlainWrite(n, k, v)
      PROVE  Follow'
  <2>1. CallsBack(n, k)'
    <3> DEFINE c == [node |-> n, key |-> k, val |-> v]
    <3>1. c \in plain' /\ c.node = n /\ c.key = k
      BY <1>5 DEF PlainWrite
    <3> HIDE DEF c
    <3> QED
      BY <3>1 DEF CallsBack
  <2> QED
    BY <1>5, <2>1, FollowPlain DEF PlainWrite
<1>6. ASSUME NEW n \in up, NEW k \in Keys, NEW v \in Values, CounterWrite(n, k, v)
      PROVE  Follow'
  <2>1. CallsBack(n, k)'
    <3> DEFINE c == [node |-> n, key |-> k]
    <3>1. c \in counted' /\ c.node = n /\ c.key = k
      BY <1>6 DEF CounterWrite
    <3> HIDE DEF c
    <3> QED
      BY <3>1 DEF CallsBack
  <2> QED
    BY <1>6, <2>1, FollowPlain DEF CounterWrite
<1>7. ASSUME NEW n \in up, NEW w \in queue[n],
             SendBatch(up \ {n}, n, w) /\ UNCHANGED mixedVars
      PROVE  Follow'
  BY <1>1, <1>7 DEF SendBatch, mixedVars
<1>8. ASSUME NEW n \in up, NEW m \in net, ReceivePush(n, m.write) /\ UNCHANGED mixedVars
      PROVE  Follow'
  BY <1>1, <1>8 DEF ReceivePush, mixedVars
<1>9. ASSUME NEW n \in up, NEW w \in handling[n], ApplyPush(n, w) /\ UNCHANGED mixedVars
      PROVE  Follow'
  <2>1. n \in Nodes /\ w \in issued /\ w \in MWrites
    BY <1>a, <1>b DEF OnlyPushes
  <2>2. ApplyAt(n, w)
    BY <1>a, <1>9, <2>1, TakesIn DEF ApplyPush
  <2>3. stamped' = stamped /\ UNCHANGED <<plain, counted, up>>
    BY <1>9 DEF ApplyPush, mixedVars
  <2> QED
    BY <2>1, <2>2, <2>3, FollowTakes
<1> QED
  BY <1>2, <1>3, <1>4, <1>5, <1>6, <1>7, <1>8, <1>9 DEF PushStep

\* A step keeps the whole invariant.
LEMMA PInvInductive ==
    ASSUME ~MemoryLimited, PInv, [MNext]_allVars
    PROVE  PInv'
<1>1. MInv'
  BY MInvInductive DEF PInv
<1>2. CASE MNext
  <2>1. ASSUME pushOnly' PROVE Pushed'
    <3>1. Pushed /\ PushStep
      BY <1>2, <2>1, MNextCases, PushCases DEF PInv, MInv
    <3> QED
      BY <3>1, OnlyPushesInductive, ClocksCoverInductive, ReachesInductive,
         FollowInductive DEF PInv, Pushed
  <2> QED
    BY <1>1, <2>1 DEF PInv
<1>3. CASE UNCHANGED allVars
  <2>1. UNCHANGED <<hlc, store, stamped, applied, queue, net, handling, digests,
                    issued, seen, up, plain, counted, pushOnly>>
    BY <1>3 DEF allVars, vars, mixedVars
  <2>2. OnlyPushes => OnlyPushes'
    BY <2>1 DEF OnlyPushes
  <2>3. ClocksCover => ClocksCover'
    BY <2>1 DEF ClocksCover
  <2>4. Reaches => Reaches'
    BY <2>1 DEF Reaches, OnWay
  <2>5. Follow => Follow'
    BY <2>1 DEF Follow, Follows, SeenOf, CallsBack, Mending
  <2> QED
    BY <1>1, <2>1, <2>2, <2>3, <2>4, <2>5 DEF PInv, Pushed
<1> QED
  BY <1>2, <1>3

\* A cluster that has just started has nothing on its way.
LEMMA PInvInit == MInit => PInv
<1> SUFFICES ASSUME MInit PROVE PInv
  OBVIOUS
<1>1. up \subseteq Nodes
  BY DEF MInit
<1>2. OnlyPushes /\ ClocksCover /\ Reaches
  BY <1>1 DEF MInit, Init, OnlyPushes, ClocksCover, Reaches
<1>3. Follow
  BY <1>1 DEF MInit, Init, Follow, Follows, Formed, ShowsNewest, SeenOf
<1> QED
  BY <1>2, <1>3, MInvInit DEF PInv, Pushed

\* Once nothing is on its way all running nodes have taken in the same
\* writes, and every key shows the newest.
LEMMA SettledAgree == PInv => PlainWritesLeaveNoTrace
<1> SUFFICES ASSUME PInv, Settled, pushOnly,
                    NEW m \in up, NEW n \in up, NEW k \in Keys
             PROVE  store[m][k].val = store[n][k].val
  BY DEF PlainWritesLeaveNoTrace, Agree
<1>1. MTypeOK /\ OnlyPushes /\ Reaches /\ Follow /\ up \subseteq Nodes
      /\ issued \subseteq Writes
  BY DEF PInv, MInv, Pushed, MTypeOK
<1>2. \A p \in up : seen[p] = issued
  <2> SUFFICES ASSUME NEW p \in up PROVE issued \subseteq seen[p]
    BY <1>1 DEF OnlyPushes
  <2> SUFFICES ASSUME NEW w \in issued PROVE w \in seen[p]
    OBVIOUS
  <2>1. OnWay(w, p) /\ w.stamp.o \in up
    BY <1>1 DEF Reaches, OnlyPushes
  <2> QED
    BY <2>1 DEF OnWay, Settled
<1>3. SeenOf(m, k) = SeenOf(n, k) /\ SeenOf(m, k) \in SUBSET Writes
  BY <1>1, <1>2 DEF SeenOf
<1>4. \A p \in up : ShowsNewest(store[p][k], SeenOf(p, k))
  BY <1>1 DEF Follow, Follows, CallsBack, Mending, Settled
<1>5. store[m][k] = Result(SeenOf(m, k)) /\ store[n][k] = Result(SeenOf(n, k))
  BY <1>3, <1>4, ShowsResult
<1> QED
  BY <1>3, <1>5

(***************************************************************************)
(* Where stores have memory to spare, the plain half of a command leaves   *)
(* no trace (string_commands.go:189-199, handler.go:124-135).              *)
(***************************************************************************)
THEOREM PlainHalvesVanish ==
    ASSUME ~MemoryLimited
    PROVE  MSpec => []PlainWritesLeaveNoTrace
<1>1. PInv /\ [MNext]_allVars => PInv'
  BY PInvInductive
<1> QED
  BY <1>1, PInvInit, SettledAgree, PTL DEF MSpec

=============================================================================
