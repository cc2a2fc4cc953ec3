--------------------------- MODULE DeliveryProofs ---------------------------
(***************************************************************************)
(* Proofs about Delivery: the sender's bookkeeping forgets no event, for   *)
(* any number of events and peers and any sizes of its queues.             *)
(***************************************************************************)
EXTENDS Delivery, FiniteSetTheorems, TLAPS

(***************************************************************************)
(* What a sequence holds, after it grew or shrank.                         *)
(***************************************************************************)
\* Append adds one element.
LEMMA AppendRange ==
    ASSUME NEW S, NEW s \in Seq(S), NEW e \in S
    PROVE  /\ Append(s, e) \in Seq(S)
           /\ Len(Append(s, e)) = Len(s) + 1
           /\ Range(Append(s, e)) = Range(s) \cup {e}
<1>1. Append(s, e) \in Seq(S) /\ Len(Append(s, e)) = Len(s) + 1
  OBVIOUS
<1>2. DOMAIN s = 1 .. Len(s) /\ DOMAIN Append(s, e) = 1 .. Len(s) + 1 /\ Len(s) \in Nat
  OBVIOUS
<1>3. (\A i \in 1 .. Len(s) : Append(s, e)[i] = s[i]) /\ Append(s, e)[Len(s) + 1] = e
  OBVIOUS
<1>4. 1 .. Len(s) + 1 = (1 .. Len(s)) \cup {Len(s) + 1}
  BY <1>2
<1>5. Range(Append(s, e)) = Range(s) \cup {e}
  BY <1>2, <1>3, <1>4 DEF Range
<1> QED
  BY <1>1, <1>5

\* Tail drops the head.
LEMMA TailRange ==
    ASSUME NEW S, NEW s \in Seq(S), s # <<>>
    PROVE  /\ Head(s) \in S
           /\ Tail(s) \in Seq(S)
           /\ Len(Tail(s)) = Len(s) - 1
           /\ Range(s) = Range(Tail(s)) \cup {Head(s)}
<1>1. /\ Head(s) \in S /\ Tail(s) \in Seq(S) /\ Len(Tail(s)) = Len(s) - 1
      /\ Len(s) \in Nat \ {0}
  OBVIOUS
<1>2. DOMAIN s = 1 .. Len(s) /\ DOMAIN Tail(s) = 1 .. Len(s) - 1
  BY <1>1
<1>3. Head(s) = s[1] /\ \A i \in 1 .. Len(s) - 1 : Tail(s)[i] = s[i + 1]
  BY <1>1
<1>4. ASSUME NEW i \in 1 .. Len(s) PROVE s[i] \in Range(Tail(s)) \cup {Head(s)}
  <2>1. CASE i = 1
    BY <1>3, <2>1
  <2>2. CASE i # 1
    <3>1. i - 1 \in 1 .. Len(s) - 1 /\ s[i] = Tail(s)[i - 1]
      BY <1>1, <1>3, <2>2
    <3> QED
      BY <1>2, <3>1 DEF Range
  <2> QED
    BY <2>1, <2>2
<1>5. ASSUME NEW i \in 1 .. Len(s) - 1 PROVE Tail(s)[i] \in Range(s)
  <2>1. i + 1 \in 1 .. Len(s)
    BY <1>1
  <2> QED
    BY <1>2, <1>3, <2>1 DEF Range
<1>6. Head(s) \in Range(s)
  BY <1>1, <1>2, <1>3 DEF Range
<1> QED
  BY <1>1, <1>2, <1>4, <1>5, <1>6 DEF Range

\* The empty sequence holds nothing, and what a sequence holds is typed.
LEMMA RangeTyped ==
    ASSUME NEW S, NEW s \in Seq(S)
    PROVE  Range(s) \subseteq S /\ Range(<<>>) = {} /\ Len(s) \in Nat
BY DEF Range

\* The persistent queue takes the event, and forgets others only if it is full.
LEMMA AddRange ==
    ASSUME NEW S, NEW pq \in Seq(S), NEW e \in S, Len(pq) <= KeptSize
    PROVE  /\ Add(pq, e) \in Seq(S)
           /\ Len(Add(pq, e)) <= KeptSize
           /\ e \in Range(Add(pq, e))
           /\ Range(Add(pq, e)) \subseteq Range(pq) \cup {e}
           /\ Len(pq) < KeptSize => Range(pq) \subseteq Range(Add(pq, e))
<1>a. Forgotten \in Nat \ {0} /\ KeptSize \in Nat \ {0} /\ Forgotten <= KeptSize
      /\ Len(pq) \in Nat
  BY SizesAssumption
<1>1. CASE Len(pq) >= KeptSize
  <2> DEFINE rest == SubSeq(pq, Forgotten + 1, Len(pq))
  <2>1. rest \in Seq(S) /\ Len(rest) = Len(pq) - Forgotten
    BY <1>a, <1>1
  <2>2. \A i \in 1 .. Len(rest) : i + Forgotten \in 1 .. Len(pq) /\ rest[i] = pq[i + Forgotten]
    BY <1>a, <1>1, <2>1
  <2>3. Range(rest) \subseteq Range(pq)
    <3>1. DOMAIN rest = 1 .. Len(rest) /\ DOMAIN pq = 1 .. Len(pq)
      BY <2>1
    <3> HIDE DEF rest
    <3> QED
      BY <2>2, <3>1 DEF Range
  <2>4. Add(pq, e) = Append(rest, e)
    BY <1>1 DEF Add
  <2> HIDE DEF rest
  <2>5. /\ Add(pq, e) \in Seq(S) /\ Len(Add(pq, e)) = Len(rest) + 1
        /\ Range(Add(pq, e)) = Range(rest) \cup {e}
    BY <2>1, <2>4, AppendRange
  <2> QED
    BY <1>a, <1>1, <2>1, <2>3, <2>5
<1>2. CASE Len(pq) < KeptSize
  <2>1. Add(pq, e) = Append(pq, e)
    BY <1>a, <1>2 DEF Add
  <2>2. /\ Add(pq, e) \in Seq(S) /\ Len(Add(pq, e)) = Len(pq) + 1
        /\ Range(Add(pq, e)) = Range(pq) \cup {e}
    BY <2>1, AppendRange
  <2> QED
    BY <1>a, <1>2, <2>2
<1> QED
  BY <1>a, <1>1, <1>2

\* The numbers up to n are n.
LEMMA IntervalSize ==
    ASSUME NEW n \in Nat
    PROVE  IsFiniteSet(1 .. n) /\ Cardinality(1 .. n) = n
<1>1. /\ IsFiniteSet(1 .. n)
      /\ Cardinality(1 .. n) = IF 1 > n THEN 0 ELSE n - 1 + 1
  BY FS_Interval
<1> QED
  BY <1>1

\* Remove takes out what was reconciled, and nothing else.
LEMMA RemovedRange ==
    ASSUME NEW S, NEW pq \in Seq(S), NEW gone
    PROVE  /\ Removed(pq, gone) \in Seq(S)
           /\ Len(Removed(pq, gone)) <= Len(pq)
           /\ Range(Removed(pq, gone)) = Range(pq) \ gone
<1> DEFINE stays == {i \in DOMAIN pq : pq[i] \notin gone}
           below(i) == {h \in stays : h <= i}
           n == Cardinality(stays)
           place(j) == CHOOSE i \in stays : Cardinality(below(i)) = j
           rank == [i \in stays |-> Cardinality(below(i))]
<1>1. DOMAIN pq = 1 .. Len(pq) /\ Len(pq) \in Nat /\ stays \subseteq 1 .. Len(pq)
  OBVIOUS
<1>2. IsFiniteSet(stays) /\ n \in Nat /\ n <= Len(pq)
  <2>1. IsFiniteSet(1 .. Len(pq)) /\ Cardinality(1 .. Len(pq)) = Len(pq)
    BY <1>1, IntervalSize
  <2> QED
    BY <1>1, <2>1, FS_Subset, FS_CardinalityType
<1>3. ASSUME NEW i \in stays
      PROVE  IsFiniteSet(below(i)) /\ Cardinality(below(i)) \in 1 .. n
  <2>1. IsFiniteSet(below(i)) /\ Cardinality(below(i)) <= n
    BY <1>2, FS_Subset
  <2>2. i \in below(i)
    BY <1>1
  <2>3. Cardinality(below(i)) \in Nat /\ Cardinality(below(i)) # 0
    BY <2>1, <2>2, FS_CardinalityType, FS_EmptySet
  <2> QED
    BY <1>2, <2>1, <2>3
<1>4. ASSUME NEW i \in stays, NEW j \in stays, i < j
      PROVE  Cardinality(below(i)) # Cardinality(below(j))
  <2>1. below(i) \in SUBSET below(j)
    BY <1>1, <1>4
  <2>2. j \in below(j) /\ j \notin below(i)
    BY <1>1, <1>4
  <2> QED
    BY <1>3, <2>1, <2>2, FS_Subset
<1>5. \A i, j \in stays : Cardinality(below(i)) = Cardinality(below(j)) => i = j
  <2> SUFFICES ASSUME NEW i \in stays, NEW j \in stays, i # j
               PROVE  Cardinality(below(i)) # Cardinality(below(j))
    OBVIOUS
  <2>1. i < j \/ j < i
    BY <1>1
  <2> QED
    BY <2>1, <1>4
<1>6. rank \in Surjection(stays, 1 .. n)
  <2>1. rank \in Injection(stays, 1 .. n)
    <3>1. rank \in [stays -> 1 .. n]
      BY <1>3
    <3>2. \A i, j \in stays : rank[i] = rank[j] => i = j
      BY <1>5
    <3> HIDE DEF rank, stays, n
    <3> QED
      BY <3>1, <3>2 DEF Injection, IsInjective
  <2>2. IsFiniteSet(1 .. n) /\ Cardinality(1 .. n) = n
    BY <1>2, IntervalSize
  <2> HIDE DEF rank, stays
  <2> QED
    BY <2>1, <2>2, FS_Injection DEF n
<1>7. \A j \in 1 .. n : place(j) \in stays /\ Cardinality(below(place(j))) = j
  <2> SUFFICES ASSUME NEW j \in 1 .. n
               PROVE  place(j) \in stays /\ Cardinality(below(place(j))) = j
    OBVIOUS
  <2>1. \E i \in stays : Cardinality(below(i)) = j
    BY <1>6 DEF Surjection
  <2> HIDE DEF stays, below
  <2> QED
    BY <2>1
<1>8. \A i \in stays : place(Cardinality(below(i))) = i
  BY <1>3, <1>5, <1>7
<1>9. Removed(pq, gone) = [j \in 1 .. n |-> pq[place(j)]]
  BY DEF Removed
<1>10. \A j \in 1 .. n : pq[place(j)] \in S /\ pq[place(j)] \notin gone
  <2>1. \A i \in stays : pq[i] \in S /\ pq[i] \notin gone
    OBVIOUS
  <2> HIDE DEF place, stays
  <2> QED
    BY <1>7, <2>1
<1> HIDE DEF place, below, rank
<1>11. Removed(pq, gone) \in Seq(S) /\ Len(Removed(pq, gone)) = n
  BY <1>2, <1>9, <1>10
<1>12. Range(Removed(pq, gone)) \subseteq Range(pq) \ gone
  BY <1>7, <1>9 DEF Range
<1>13. Range(pq) \ gone \subseteq Range(Removed(pq, gone))
  <2> SUFFICES ASSUME NEW i \in DOMAIN pq, pq[i] \notin gone
               PROVE  pq[i] \in Range(Removed(pq, gone))
    BY DEF Range
  <2>1. i \in stays
    OBVIOUS
  <2>2. Cardinality(below(i)) \in 1 .. n /\ place(Cardinality(below(i))) = i
    BY <1>3, <1>8, <2>1
  <2> HIDE DEF n, stays
  <2> QED
    BY <1>9, <2>2 DEF Range
<1> QED
  BY <1>2, <1>11, <1>12, <1>13

-----------------------------------------------------------------------------
(***************************************************************************)
(* The inductive invariant, by parts.                                      *)
(***************************************************************************)
Places == {"idle", "handle", "reached", "missed", "failed", "exceeded", "done"}

HoldsIssued(q) == q \in Seq(Events) /\ Range(q) \subseteq issued

QueuesTyped ==
    /\ issued \subseteq Events
    /\ HoldsIssued(replicationQueue) /\ Len(replicationQueue) <= QueueSize
    /\ HoldsIssued(batch) /\ Len(batch) <= BatchSize
    /\ HoldsIssued(persistentQueue) /\ Len(persistentQueue) <= KeptSize
    /\ reconciling \in [busy : BOOLEAN, pending : Seq(Events), successful : SUBSET Events]
    /\ HoldsIssued(reconciling.pending)
    /\ reconciling.successful \subseteq issued

SendsTyped ==
    /\ refusals \subseteq issued \X Peers
    /\ accepted \subseteq issued \X Peers
    /\ skipped \subseteq issued \X Peers
    /\ connected \subseteq Peers
    /\ members \subseteq Peers

\* replicationLoop tracks one failure at a time.
ObjectsTyped ==
    /\ objects \in Seq(Objects)
    /\ \A o \in DOMAIN objects : objects[o].event \in issued
    /\ tracking \subseteq [object : DOMAIN objects, node : Peers]
    /\ \A t, u \in tracking : t = u
    /\ failedEvents \in [Events -> Nat]
    /\ \A e \in Events : failedEvents[e] # 0 => /\ failedEvents[e] \in DOMAIN objects
                                               /\ objects[failedEvents[e]].event = e
    /\ retryQueue \in Seq(Nat) /\ Len(retryQueue) <= RetrySize
    /\ Range(retryQueue) \subseteq DOMAIN objects
    /\ retrying \in [at : Places, object : Nat]
    /\ retrying.at # "idle" => retrying.object \in DOMAIN objects

Typed == QueuesTyped /\ SendsTyped /\ ObjectsTyped

\* Where event e is that peer p has yet to get, and that the map and the
\* persistent queue may lose at any time: on its way to a send, refused, in an
\* object that is queued, or in the one the retry loop has in hand.
InHand(e, p) == /\ retrying.at \notin {"idle", "done"}
                /\ Inhand.event = e
                /\ p \in Inhand.nodes

Coming(e, p) ==
    \/ <<e, p>> \in accepted \cup skipped
    \/ e \in Range(replicationQueue) \cup Range(batch)
    \/ <<e, p>> \in refusals
    \/ \E t \in tracking : objects[t.object].event = e /\ t.node = p
    \/ \E o \in Range(retryQueue) : objects[o].event = e /\ p \in objects[o].nodes
    \/ InHand(e, p)

\* No event is anywhere else ...
InPlay ==
    slipped \/ \A e \in issued, p \in Peers :
                   Coming(e, p) \/ e \in Range(persistentQueue)

\* ... and the persistent queue is not the only place of what reconciliation
\* is about to remove.
Reoffered ==
    slipped \/ \A e \in reconciling.successful, p \in Peers : Coming(e, p)

IInv == Typed /\ InPlay /\ Reoffered

-----------------------------------------------------------------------------
(***************************************************************************)
(* The objects.                                                            *)
(***************************************************************************)
\* Object o got other nodes, or another count, and kept its event.
Changed(o, nodes) ==
    /\ objects' \in Seq(Objects)
    /\ DOMAIN objects' = DOMAIN objects
    /\ \A i \in DOMAIN objects : objects'[i].event = objects[i].event
    /\ \A i \in DOMAIN objects \ {o} : objects'[i] = objects[i]
    /\ objects'[o].nodes = nodes

\* Writing an element of a sequence.
LEMMA ExceptSeq ==
    ASSUME NEW S, NEW s \in Seq(S), NEW i \in DOMAIN s, NEW x \in S
    PROVE  /\ [s EXCEPT ![i] = x] \in Seq(S)
           /\ DOMAIN [s EXCEPT ![i] = x] = DOMAIN s
           /\ [s EXCEPT ![i] = x][i] = x
           /\ \A j \in DOMAIN s \ {i} : [s EXCEPT ![i] = x][j] = s[j]
OBVIOUS

\* An object is replaced by one of the same event.
LEMMA ObjectChanges ==
    ASSUME objects \in Seq(Objects), NEW o \in DOMAIN objects, NEW x \in Objects,
           x.event = objects[o].event, objects' = [objects EXCEPT ![o] = x]
    PROVE  Changed(o, x.nodes)
<1>1. /\ [objects EXCEPT ![o] = x] \in Seq(Objects)
      /\ DOMAIN [objects EXCEPT ![o] = x] = DOMAIN objects
      /\ [objects EXCEPT ![o] = x][o] = x
      /\ \A j \in DOMAIN objects \ {o} : [objects EXCEPT ![o] = x][j] = objects[j]
  BY ExceptSeq
<1>2. /\ objects' \in Seq(Objects) /\ DOMAIN objects' = DOMAIN objects
      /\ objects'[o] = x /\ \A j \in DOMAIN objects \ {o} : objects'[j] = objects[j]
  BY <1>1
<1>3. \A j \in DOMAIN objects : objects'[j].event = objects[j].event
  BY <1>2
<1> QED
  BY <1>2, <1>3 DEF Changed

\* trackReplicationFailure counts a failure.
LEMMA CountChanges ==
    ASSUME objects \in Seq(Objects), NEW o \in DOMAIN objects, NEW p \in Peers,
           objects' = [objects EXCEPT ![o].nodes = @ \cup {p}, ![o].total = @ + 1]
    PROVE  Changed(o, objects[o].nodes \cup {p})
<1> DEFINE x == [objects[o] EXCEPT !.nodes = @ \cup {p}, !.total = @ + 1]
<1>1. objects[o] \in Objects
  OBVIOUS
<1>2. x \in Objects /\ x.event = objects[o].event /\ x.nodes = objects[o].nodes \cup {p}
  BY <1>1 DEF Objects
<1>3. objects' = [objects EXCEPT ![o] = x]
  OBVIOUS
<1> HIDE DEF x
<1>4. Changed(o, x.nodes)
  BY <1>2, <1>3, ObjectChanges
<1> QED
  BY <1>2, <1>4

\* directRetryToFailedNodes takes out the nodes it reached.
LEMMA DirectChanges ==
    ASSUME objects \in Seq(Objects), NEW o \in DOMAIN objects, NEW A,
           objects' = [objects EXCEPT ![o].nodes = @ \ A]
    PROVE  Changed(o, objects[o].nodes \ A)
<1> DEFINE x == [objects[o] EXCEPT !.nodes = @ \ A]
<1>1. objects[o] \in Objects
  OBVIOUS
<1>2. x \in Objects /\ x.event = objects[o].event /\ x.nodes = objects[o].nodes \ A
  BY <1>1 DEF Objects
<1>3. objects' = [objects EXCEPT ![o] = x]
  OBVIOUS
<1> HIDE DEF x
<1>4. Changed(o, x.nodes)
  BY <1>2, <1>3, ObjectChanges
<1> QED
  BY <1>2, <1>4

\* handleFailedReplication counts a failed direct retry.
LEMMA FailureChanges ==
    ASSUME objects \in Seq(Objects), NEW o \in DOMAIN objects,
           objects' = [objects EXCEPT ![o].total = @ + 1]
    PROVE  Changed(o, objects[o].nodes)
<1> DEFINE x == [objects[o] EXCEPT !.total = @ + 1]
<1>1. objects[o] \in Objects
  OBVIOUS
<1>2. x \in Objects /\ x.event = objects[o].event /\ x.nodes = objects[o].nodes
  <2>1. PICK ob \in Objects : ob = objects[o]
    BY <1>1
  <2>2. x = [event |-> ob.event, nodes |-> ob.nodes, total |-> ob.total + 1]
    BY <2>1 DEF Objects
  <2> QED
    BY <2>1, <2>2 DEF Objects
<1>3. objects' = [objects EXCEPT ![o] = x]
  OBVIOUS
<1> HIDE DEF x
<1>4. Changed(o, x.nodes)
  BY <1>2, <1>3, ObjectChanges
<1> QED
  BY <1>2, <1>4

\* A new object comes after the others.
LEMMA NewObject ==
    ASSUME objects \in Seq(Objects), NEW e \in Events,
           objects' = Append(objects, [event |-> e, nodes |-> {}, total |-> 0])
    PROVE  /\ objects' \in Seq(Objects)
           /\ Len(objects') \in DOMAIN objects' /\ Len(objects') \in Nat \ {0}
           /\ objects'[Len(objects')].event = e
           /\ DOMAIN objects' = DOMAIN objects \cup {Len(objects')}
           /\ \A i \in DOMAIN objects : objects'[i] = objects[i]
<1> DEFINE x == [event |-> e, nodes |-> {}, total |-> 0]
<1>1. x \in Objects /\ x.event = e
  BY DEF Objects
<1>2. objects' = Append(objects, x)
  OBVIOUS
<1> HIDE DEF x
<1>3. /\ objects' \in Seq(Objects) /\ Len(objects') = Len(objects) + 1
      /\ Len(objects) \in Nat
      /\ objects'[Len(objects) + 1] = x
      /\ \A i \in 1 .. Len(objects) : objects'[i] = objects[i]
  BY <1>1, <1>2
<1>4. DOMAIN objects = 1 .. Len(objects) /\ DOMAIN objects' = 1 .. Len(objects) + 1
  BY <1>3
<1> QED
  BY <1>1, <1>3, <1>4

-----------------------------------------------------------------------------
(***************************************************************************)
(* The types.                                                              *)
(***************************************************************************)
\* The steps, one by one.
LEMMA NextCases ==
    ASSUME NEW P, Typed, [Next]_vars,
           UNCHANGED vars => P,
           \A e \in Events : QueueReplication(e) => P,
           \A e \in Events : CleanupStale(e) => P,
           Collect => P, BroadcastAll => P,
           \A B, A \in SUBSET Peers : SendIndividually(B, A) => P,
           \A p \in Peers : Disconnect(p) \/ Reconnect(p) \/ Evict(p) => P,
           \A e \in Events, p \in Peers : FindObject(e, p) => P,
           \A t \in tracking : CountAndSchedule(t) => P,
           TakeRetry => P, PutBack => P, Requeue => P, JudgeDirect => P, GiveUp => P,
           Forget => P,
           \A A \in SUBSET Peers : SendDirectly(A) => P,
           \A due \in SUBSET InMap : ProcessRetryQueue(due) => P,
           GetPending => P, Reoffer => P, RemoveSuccessful => P
    PROVE  P
<1>1. CASE UNCHANGED vars
  BY <1>1
<1>2. CASE Next
  <2>1. ASSUME NEW r \in refusals, FindObject(r[1], r[2]) PROVE P
    <3>1. r[1] \in Events /\ r[2] \in Peers
      BY DEF Typed, QueuesTyped, SendsTyped
    <3> QED
      BY <2>1, <3>1
  <2>2. CASE ReplicationLoop
    BY <2>1, <2>2 DEF ReplicationLoop
  <2>3. CASE RetryQueueCase
    BY <2>3 DEF RetryQueueCase
  <2>4. CASE Reconciliation
    BY <2>4 DEF Reconciliation
  <2> QED
    BY <1>2, <2>2, <2>3, <2>4 DEF Next
<1> QED
  BY <1>1, <1>2

\* Persist puts the event into the persistent queue.
LEMMA PersistTyped ==
    ASSUME Typed, NEW e \in Events, Persist(e)
    PROVE  /\ persistentQueue' \in Seq(Events) /\ Len(persistentQueue') <= KeptSize
           /\ e \in Range(persistentQueue')
           /\ Range(persistentQueue') \subseteq Range(persistentQueue) \cup {e}
           /\ slipped' \/ Range(persistentQueue) \subseteq Range(persistentQueue')
           /\ slipped' \/ e \notin reconciling.successful
           /\ slipped => slipped'
<1>1. persistentQueue \in Seq(Events) /\ Len(persistentQueue) <= KeptSize
      /\ Len(persistentQueue) \in Nat /\ KeptSize \in Nat
  BY SizesAssumption DEF Typed, QueuesTyped, HoldsIssued
<1>2. persistentQueue' = Add(persistentQueue, e)
  BY DEF Persist
<1>3. /\ persistentQueue' \in Seq(Events) /\ Len(persistentQueue') <= KeptSize
      /\ e \in Range(persistentQueue')
      /\ Range(persistentQueue') \subseteq Range(persistentQueue) \cup {e}
      /\ Len(persistentQueue) < KeptSize => Range(persistentQueue) \subseteq Range(persistentQueue')
  BY <1>1, <1>2, AddRange
<1>4. CASE Len(persistentQueue) >= KeptSize
  BY <1>3, <1>4 DEF Persist
<1>5. CASE Len(persistentQueue) < KeptSize
  BY <1>3, <1>5 DEF Persist
<1> QED
  BY <1>1, <1>4, <1>5

\* Queued puts the event into the replication queue.
LEMMA QueuedTyped ==
    ASSUME Typed, NEW e \in Events, Queued(e)
    PROVE  /\ replicationQueue' \in Seq(Events) /\ Len(replicationQueue') <= QueueSize
           /\ Range(replicationQueue') = Range(replicationQueue) \cup {e}
<1>1. /\ replicationQueue \in Seq(Events) /\ Len(replicationQueue) \in Nat
      /\ QueueSize \in Nat
  BY SizesAssumption DEF Typed, QueuesTyped, HoldsIssued
<1>2. /\ replicationQueue' = Append(replicationQueue, e)
      /\ Len(replicationQueue) < QueueSize
  BY DEF Queued
<1> QED
  BY <1>1, <1>2, AppendRange

\* ToRetry queues the object, or the object slips.
LEMMA ToRetryTyped ==
    ASSUME ObjectsTyped, NEW o \in DOMAIN objects, ToRetry(o)
    PROVE  /\ retryQueue' \in Seq(Nat) /\ Len(retryQueue') <= RetrySize
           /\ Range(retryQueue) \subseteq Range(retryQueue')
           /\ Range(retryQueue') \subseteq Range(retryQueue) \cup {o}
           /\ slipped' \/ o \in Range(retryQueue')
           /\ slipped => slipped'
<1>1. retryQueue \in Seq(Nat) /\ Len(retryQueue) \in Nat /\ RetrySize \in Nat /\ o \in Nat
      /\ Len(retryQueue) <= RetrySize
  BY SizesAssumption DEF ObjectsTyped
<1>2. CASE Len(retryQueue) < RetrySize
  <2>1. retryQueue' = Append(retryQueue, o) /\ slipped' = slipped
    BY <1>2 DEF ToRetry
  <2>2. /\ retryQueue' \in Seq(Nat) /\ Len(retryQueue') = Len(retryQueue) + 1
        /\ Range(retryQueue') = Range(retryQueue) \cup {o}
    BY <1>1, <2>1, AppendRange
  <2> QED
    BY <1>1, <1>2, <2>1, <2>2
<1>3. CASE ~(Len(retryQueue) < RetrySize)
  <2>1. retryQueue' = retryQueue /\ slipped' = TRUE
    BY <1>3 DEF ToRetry
  <2> QED
    BY <1>1, <2>1
<1> QED
  BY <1>2, <1>3

\* The queues hold issued events.
LEMMA QueuesInductive == ASSUME Typed, [Next]_vars PROVE QueuesTyped'
<1> DEFINE queues == <<issued, replicationQueue, batch, persistentQueue, reconciling>>
<1>0. QueuesTyped
  BY DEF Typed
<1>1. ASSUME UNCHANGED queues PROVE QueuesTyped'
  BY <1>0, <1>1 DEF QueuesTyped, HoldsIssued
<1>2. CASE UNCHANGED vars
  BY <1>1, <1>2 DEF vars
<1>3. ASSUME NEW e \in Events, QueueReplication(e) PROVE QueuesTyped'
  <2>1. /\ issued' = issued \cup {e}
        /\ UNCHANGED <<batch, reconciling>>
    BY <1>3 DEF QueueReplication
  <2>2. HoldsIssued(replicationQueue)' /\ Len(replicationQueue') <= QueueSize
    <3>1. CASE Full
      BY <1>0, <1>3, <2>1, <3>1 DEF QueueReplication, QueuesTyped, HoldsIssued
    <3>2. CASE ~Full
      <4>1. Queued(e)
        BY <1>3, <3>2 DEF QueueReplication
      <4>2. /\ replicationQueue' \in Seq(Events) /\ Len(replicationQueue') <= QueueSize
            /\ Range(replicationQueue') = Range(replicationQueue) \cup {e}
        BY <4>1, QueuedTyped
      <4> QED
        BY <1>0, <2>1, <4>2 DEF QueuesTyped, HoldsIssued
    <3> QED
      BY <3>1, <3>2
  <2>3. HoldsIssued(persistentQueue)' /\ Len(persistentQueue') <= KeptSize
    <3>1. CASE Full
      <4>1. Persist(e)
        BY <1>3, <3>1 DEF QueueReplication
      <4>2. /\ persistentQueue' \in Seq(Events) /\ Len(persistentQueue') <= KeptSize
            /\ Range(persistentQueue') \subseteq Range(persistentQueue) \cup {e}
        BY <4>1, PersistTyped
      <4> QED
        BY <1>0, <2>1, <4>2 DEF QueuesTyped, HoldsIssued
    <3>2. CASE ~Full
      BY <1>0, <1>3, <2>1, <3>2 DEF QueueReplication, QueuesTyped, HoldsIssued
    <3> QED
      BY <3>1, <3>2
  <2> QED
    BY <1>0, <2>1, <2>2, <2>3 DEF QueuesTyped, HoldsIssued
<1>4. ASSUME NEW e \in Events, CleanupStale(e) PROVE QueuesTyped'
  <2>1. Persist(e) /\ UNCHANGED <<issued, replicationQueue, batch, reconciling>>
    BY <1>4 DEF CleanupStale
  <2>2. /\ persistentQueue' \in Seq(Events) /\ Len(persistentQueue') <= KeptSize
        /\ Range(persistentQueue') \subseteq Range(persistentQueue) \cup {e}
    BY <2>1, PersistTyped
  <2>3. e \in issued
    BY <1>4 DEF CleanupStale, Typed, ObjectsTyped
  <2> QED
    BY <1>0, <2>1, <2>2, <2>3 DEF QueuesTyped, HoldsIssued
<1>5. ASSUME Collect PROVE QueuesTyped'
  <2>1. /\ Len(batch) < BatchSize /\ replicationQueue # <<>>
        /\ batch' = Append(batch, Head(replicationQueue))
        /\ replicationQueue' = Tail(replicationQueue)
        /\ UNCHANGED <<issued, persistentQueue, reconciling>>
    BY <1>5 DEF Collect
  <2>2. /\ replicationQueue \in Seq(Events) /\ batch \in Seq(Events)
        /\ Len(replicationQueue) \in Nat /\ Len(batch) \in Nat
        /\ QueueSize \in Nat /\ BatchSize \in Nat
    BY <1>0, SizesAssumption DEF QueuesTyped, HoldsIssued
  <2>3. /\ Head(replicationQueue) \in Events
        /\ Tail(replicationQueue) \in Seq(Events)
        /\ Len(Tail(replicationQueue)) = Len(replicationQueue) - 1
        /\ Range(replicationQueue)
             = Range(Tail(replicationQueue)) \cup {Head(replicationQueue)}
    BY <2>1, <2>2, TailRange
  <2>4. /\ batch' \in Seq(Events) /\ Len(batch') = Len(batch) + 1
        /\ Range(batch') = Range(batch) \cup {Head(replicationQueue)}
    BY <2>1, <2>2, <2>3, AppendRange
  <2> QED
    BY <1>0, <2>1, <2>2, <2>3, <2>4 DEF QueuesTyped, HoldsIssued
<1>6. ASSUME batch' = <<>>, UNCHANGED <<issued, replicationQueue, persistentQueue, reconciling>>
      PROVE  QueuesTyped'
  <2>1. <<>> \in Seq(Events) /\ Range(<<>>) = {} /\ Len(<<>>) = 0 /\ BatchSize \in Nat
    BY SizesAssumption DEF Range
  <2>2. HoldsIssued(batch)' /\ Len(batch') <= BatchSize
    BY <1>6, <2>1 DEF HoldsIssued
  <2> QED
    BY <1>0, <1>6, <2>2 DEF QueuesTyped, HoldsIssued
<1>7. CASE BroadcastAll
  BY <1>6, <1>7 DEF BroadcastAll
<1>8. ASSUME NEW B \in SUBSET Peers, NEW A \in SUBSET Peers, SendIndividually(B, A)
      PROVE  QueuesTyped'
  BY <1>6, <1>8 DEF SendIndividually
<1>9. ASSUME NEW e \in Events, NEW p \in Peers, FindObject(e, p) PROVE QueuesTyped'
  BY <1>1, <1>9 DEF FindObject
<1>10. ASSUME NEW t \in tracking, CountAndSchedule(t) PROVE QueuesTyped'
  BY <1>1, <1>10 DEF CountAndSchedule
<1>11. CASE TakeRetry
  BY <1>1, <1>11 DEF TakeRetry
<1>12. CASE PutBack
  BY <1>1, <1>12 DEF PutBack
<1>13. CASE JudgeDirect
  BY <1>1, <1>13 DEF JudgeDirect
<1>14. CASE Forget
  BY <1>1, <1>14 DEF Forget
<1>15. ASSUME NEW A \in SUBSET Peers, SendDirectly(A) PROVE QueuesTyped'
  BY <1>1, <1>15 DEF SendDirectly
<1>16. ASSUME NEW due \in SUBSET InMap, ProcessRetryQueue(due) PROVE QueuesTyped'
  BY <1>1, <1>16 DEF ProcessRetryQueue
<1>17. ASSUME retrying.at # "idle" PROVE Inhand.event \in issued
  BY <1>17 DEF Typed, ObjectsTyped, Inhand
<1>18. ASSUME Requeue PROVE QueuesTyped'
  <2>1. /\ Queued(Inhand.event)
        /\ UNCHANGED <<issued, batch, persistentQueue, reconciling>>
    BY <1>18 DEF Requeue
  <2>2. Inhand.event \in issued /\ Inhand.event \in Events
    BY <1>0, <1>17, <1>18 DEF Requeue, QueuesTyped
  <2>3. /\ replicationQueue' \in Seq(Events) /\ Len(replicationQueue') <= QueueSize
        /\ Range(replicationQueue') = Range(replicationQueue) \cup {Inhand.event}
    BY <2>1, <2>2, QueuedTyped
  <2> QED
    BY <1>0, <2>1, <2>2, <2>3 DEF QueuesTyped, HoldsIssued
<1>19. ASSUME GiveUp PROVE QueuesTyped'
  <2>1. /\ Persist(Inhand.event)
        /\ UNCHANGED <<issued, batch, replicationQueue, reconciling>>
    BY <1>19 DEF GiveUp
  <2>2. Inhand.event \in issued /\ Inhand.event \in Events
    BY <1>0, <1>17, <1>19 DEF GiveUp, QueuesTyped
  <2>3. /\ persistentQueue' \in Seq(Events) /\ Len(persistentQueue') <= KeptSize
        /\ Range(persistentQueue') \subseteq Range(persistentQueue) \cup {Inhand.event}
    BY <2>1, <2>2, PersistTyped
  <2> QED
    BY <1>0, <2>1, <2>2, <2>3 DEF QueuesTyped, HoldsIssued
<1>20. ASSUME GetPending PROVE QueuesTyped'
  <2>1. /\ reconciling' = [busy |-> TRUE, pending |-> persistentQueue, successful |-> {}]
        /\ UNCHANGED <<issued, batch, replicationQueue, persistentQueue>>
    BY <1>20 DEF GetPending
  <2>2. reconciling' \in [busy : BOOLEAN, pending : Seq(Events), successful : SUBSET Events]
    BY <1>0, <2>1 DEF QueuesTyped, HoldsIssued
  <2>3. reconciling'.pending = persistentQueue /\ reconciling'.successful = {}
    BY <2>1
  <2> QED
    BY <1>0, <2>1, <2>2, <2>3 DEF QueuesTyped, HoldsIssued
<1>21. ASSUME Reoffer PROVE QueuesTyped'
  <2>1. PICK e : e = Head(reconciling.pending)
    OBVIOUS
  <2>2. /\ UNCHANGED <<issued, batch, persistentQueue>>
        /\ reconciling.pending # <<>>
    BY <1>21 DEF Reoffer
  <2>3. PICK rc \in [busy : BOOLEAN, pending : Seq(Events), successful : SUBSET Events] :
           rc = reconciling
    BY <1>0 DEF QueuesTyped
  <2>4. /\ e \in Events /\ Tail(reconciling.pending) \in Seq(Events)
        /\ Range(reconciling.pending) = Range(Tail(reconciling.pending)) \cup {e}
    BY <2>1, <2>2, <2>3, TailRange
  <2>5. e \in issued
    BY <1>0, <2>4 DEF QueuesTyped, HoldsIssued
  <2>6. HoldsIssued(Tail(reconciling.pending))
    BY <1>0, <2>4 DEF QueuesTyped, HoldsIssued
  <2>7. CASE /\ Queued(e)
             /\ reconciling' = [[reconciling EXCEPT !.pending = Tail(@)]
                                   EXCEPT !.successful = @ \cup {e}]
    <3>1. /\ replicationQueue' \in Seq(Events) /\ Len(replicationQueue') <= QueueSize
          /\ Range(replicationQueue') = Range(replicationQueue) \cup {e}
      BY <2>4, <2>7, QueuedTyped
    <3>2. reconciling' = [busy |-> rc.busy, pending |-> Tail(rc.pending),
                          successful |-> rc.successful \cup {e}]
      BY <2>3, <2>7
    <3>3. reconciling'.pending = Tail(reconciling.pending)
          /\ reconciling'.successful = reconciling.successful \cup {e}
      BY <2>3, <3>2
    <3>4. reconciling' \in [busy : BOOLEAN, pending : Seq(Events), successful : SUBSET Events]
      BY <2>3, <2>4, <3>2
    <3> QED
      BY <1>0, <2>2, <2>5, <2>6, <3>1, <3>3, <3>4 DEF QueuesTyped, HoldsIssued
  <2>8. CASE /\ UNCHANGED replicationQueue
             /\ reconciling' = [reconciling EXCEPT !.pending = Tail(@)]
    <3>2. reconciling' = [busy |-> rc.busy, pending |-> Tail(rc.pending),
                          successful |-> rc.successful]
      BY <2>3, <2>8
    <3>3. reconciling'.pending = Tail(reconciling.pending)
          /\ reconciling'.successful = reconciling.successful
      BY <2>3, <3>2
    <3>4. reconciling' \in [busy : BOOLEAN, pending : Seq(Events), successful : SUBSET Events]
      BY <2>3, <2>4, <3>2
    <3> QED
      BY <1>0, <2>2, <2>6, <2>8, <3>3, <3>4 DEF QueuesTyped, HoldsIssued
  <2> QED
    BY <1>21, <2>1, <2>7, <2>8 DEF Reoffer
<1>22. ASSUME RemoveSuccessful PROVE QueuesTyped'
  <2>1. /\ persistentQueue' = Removed(persistentQueue, reconciling.successful)
        /\ reconciling' = Resting
        /\ UNCHANGED <<issued, replicationQueue, batch>>
    BY <1>22 DEF RemoveSuccessful
  <2>2. persistentQueue \in Seq(Events) /\ Len(persistentQueue) \in Nat /\ KeptSize \in Nat
    BY <1>0, SizesAssumption DEF QueuesTyped, HoldsIssued
  <2>3. /\ persistentQueue' \in Seq(Events) /\ Len(persistentQueue') <= Len(persistentQueue)
        /\ Range(persistentQueue') = Range(persistentQueue) \ reconciling.successful
    BY <2>1, <2>2, RemovedRange
  <2>4. HoldsIssued(persistentQueue)' /\ Len(persistentQueue') <= KeptSize
    <3>1. Len(persistentQueue') \in Nat
      BY <2>3
    <3> QED
      BY <1>0, <2>1, <2>2, <2>3, <3>1 DEF QueuesTyped, HoldsIssued
  <2>5. /\ reconciling' \in [busy : BOOLEAN, pending : Seq(Events), successful : SUBSET Events]
        /\ reconciling'.pending = <<>> /\ reconciling'.successful = {}
    BY <2>1 DEF Resting
  <2>6. Range(<<>>) = {} /\ <<>> \in Seq(Events)
    BY DEF Range
  <2> QED
    BY <1>0, <2>1, <2>4, <2>5, <2>6 DEF QueuesTyped, HoldsIssued
<1>23. ASSUME NEW p \in Peers, Disconnect(p) \/ Reconnect(p) \/ Evict(p) PROVE QueuesTyped'
  BY <1>1, <1>23 DEF Disconnect, Reconnect, Evict, bookkeeping
<1> HIDE DEF queues
<1> QED
  BY <1>2, <1>3, <1>4, <1>5, <1>7, <1>8, <1>9, <1>10, <1>11, <1>12, <1>13, <1>14, <1>15,
     <1>16, <1>18, <1>19, <1>20, <1>21, <1>22, <1>23, NextCases

\* Sends are of issued events.
LEMMA SendsInductive == ASSUME Typed, [Next]_vars PROVE SendsTyped'
<1> DEFINE sends == <<issued, refusals, accepted, skipped, network>>
<1>0. QueuesTyped /\ SendsTyped /\ ObjectsTyped
  BY DEF Typed
<1>1. ASSUME UNCHANGED sends PROVE SendsTyped'
  BY <1>0, <1>1 DEF SendsTyped, network
<1>2. CASE UNCHANGED vars
  BY <1>1, <1>2 DEF vars, network
<1>3. ASSUME NEW e \in Events, QueueReplication(e) PROVE SendsTyped'
  BY <1>0, <1>3 DEF QueueReplication, SendsTyped, network
<1>4. ASSUME NEW e \in Events, CleanupStale(e) PROVE SendsTyped'
  BY <1>1, <1>4 DEF CleanupStale
<1>5. CASE Collect
  BY <1>1, <1>5 DEF Collect
<1>6. ToSet(batch) \subseteq issued
  BY <1>0 DEF QueuesTyped, HoldsIssued, Range, ToSet
<1>7. CASE BroadcastAll
  BY <1>0, <1>6, <1>7 DEF BroadcastAll, SendsTyped, network
<1>8. ASSUME NEW B \in SUBSET Peers, NEW A \in SUBSET Peers, SendIndividually(B, A)
      PROVE  SendsTyped'
  <2>1. /\ accepted' = accepted \cup (ToSet(batch) \X (A \cup B))
        /\ skipped' = skipped \cup (ToSet(batch) \X (Peers \ (members \cup B)))
        /\ refusals' = ToSet(batch) \X (members \ A)
        /\ UNCHANGED <<issued, connected, members>>
    BY <1>8 DEF SendIndividually, network
  <2> QED
    BY <1>0, <1>6, <2>1 DEF SendsTyped
<1>9. ASSUME NEW e \in Events, NEW p \in Peers, FindObject(e, p) PROVE SendsTyped'
  BY <1>0, <1>9 DEF FindObject, SendsTyped, network
<1>10. ASSUME NEW t \in tracking, CountAndSchedule(t) PROVE SendsTyped'
  BY <1>1, <1>10 DEF CountAndSchedule
<1>11. CASE TakeRetry
  BY <1>1, <1>11 DEF TakeRetry
<1>12. CASE PutBack
  BY <1>1, <1>12 DEF PutBack
<1>13. CASE JudgeDirect
  BY <1>1, <1>13 DEF JudgeDirect
<1>14. CASE Forget
  BY <1>1, <1>14 DEF Forget
<1>15. ASSUME NEW A \in SUBSET Peers, SendDirectly(A) PROVE SendsTyped'
  <2>1. Inhand.event \in issued
    BY <1>0, <1>15 DEF ObjectsTyped, Inhand, SendDirectly
  <2> QED
    BY <1>0, <1>15, <2>1 DEF SendDirectly, Sends, SendsTyped, network
<1>16. ASSUME NEW due \in SUBSET InMap, ProcessRetryQueue(due) PROVE SendsTyped'
  BY <1>1, <1>16 DEF ProcessRetryQueue
<1>18. CASE Requeue
  BY <1>1, <1>18 DEF Requeue
<1>19. CASE GiveUp
  BY <1>1, <1>19 DEF GiveUp
<1>20. CASE GetPending
  BY <1>1, <1>20 DEF GetPending
<1>21. CASE Reoffer
  BY <1>1, <1>21 DEF Reoffer
<1>22. CASE RemoveSuccessful
  BY <1>1, <1>22 DEF RemoveSuccessful
<1>23. ASSUME NEW p \in Peers, Disconnect(p) \/ Reconnect(p) \/ Evict(p) PROVE SendsTyped'
  BY <1>0, <1>23 DEF Disconnect, Reconnect, Evict, bookkeeping, SendsTyped
<1> HIDE DEF sends
<1> QED
  BY <1>2, <1>3, <1>4, <1>5, <1>7, <1>8, <1>9, <1>10, <1>11, <1>12, <1>13, <1>14, <1>15,
     <1>16, <1>18, <1>19, <1>20, <1>21, <1>22, <1>23, NextCases

\* processRetryQueue adds to the queue what there is room for.
LEMMA RetriesTyped ==
    ASSUME ObjectsTyped, NEW due \in SUBSET InMap, ProcessRetryQueue(due)
    PROVE  /\ retryQueue' \in Seq(Nat) /\ Len(retryQueue') <= RetrySize
           /\ Range(retryQueue) \subseteq Range(retryQueue')
           /\ Range(retryQueue') \subseteq Range(retryQueue) \cup due
<1>1. PICK s \in SetToSeqs(due) :
         retryQueue' = SubSeq(retryQueue \o s, 1, Min({Len(retryQueue \o s), RetrySize}))
  BY DEF ProcessRetryQueue
<1>2. /\ retryQueue \in Seq(Nat) /\ Len(retryQueue) \in Nat /\ RetrySize \in Nat
      /\ Len(retryQueue) <= RetrySize
  BY SizesAssumption DEF ObjectsTyped
<1>3. due \subseteq Nat \ {0} /\ IsFiniteSet(due)
  <2>1. InMap \subseteq Nat \ {0}
    BY DEF InMap, ObjectsTyped
  <2>2. IsFiniteSet(Events)
    BY IntervalSize, SizesAssumption DEF Events
  <2>3. IsFiniteSet({failedEvents[e] : e \in Events})
    <3>1. failedEvents \in Surjection(Events, {failedEvents[e] : e \in Events})
      BY DEF ObjectsTyped, Surjection
    <3> QED
      BY <2>2, <3>1, FS_Surjection
  <2>4. IsFiniteSet(InMap)
    BY <2>3, FS_Subset DEF InMap
  <2> QED
    BY <2>1, <2>4, FS_Subset
<1>4. s \in Seq(Nat) /\ Range(s) \subseteq due /\ Len(s) \in Nat
  <2>1. s \in [1 .. Cardinality(due) -> due]
    BY <1>1 DEF SetToSeqs
  <2>2. PICK n \in Nat : n = Cardinality(due)
    BY <1>3, FS_CardinalityType
  <2>3. DOMAIN s = 1 .. n /\ \A i \in 1 .. n : s[i] \in due /\ s[i] \in Nat
    BY <1>3, <2>1, <2>2
  <2>4. s = [i \in 1 .. n |-> s[i]]
    BY <2>1, <2>2
  <2>5. s \in Seq(Nat) /\ Len(s) = n
    BY <2>3, <2>4
  <2>6. Range(s) \subseteq due
    BY <2>3 DEF Range
  <2> QED
    BY <2>5, <2>6
<1> DEFINE all == retryQueue \o s
           m == Min({Len(all), RetrySize})
<1>5. /\ all \in Seq(Nat) /\ Len(all) = Len(retryQueue) + Len(s)
      /\ \A i \in 1 .. Len(retryQueue) : all[i] = retryQueue[i]
      /\ \A i \in Len(retryQueue) + 1 .. Len(all) : all[i] = s[i - Len(retryQueue)]
  BY <1>2, <1>4
<1>6. m \in Nat /\ m <= Len(all) /\ m <= RetrySize /\ m >= Len(retryQueue)
  <2>1. m = Len(all) \/ m = RetrySize
    BY <1>2, <1>4, <1>5 DEF Min
  <2>2. \E x \in {Len(all), RetrySize} : \A y \in {Len(all), RetrySize} : x <= y
    BY <1>2, <1>4, <1>5
  <2>3. m <= Len(all) /\ m <= RetrySize
    BY <2>2 DEF Min
  <2> QED
    BY <1>2, <1>4, <1>5, <2>1, <2>3
<1> HIDE DEF all, m
<1>7. retryQueue' = SubSeq(all, 1, m)
  BY <1>1 DEF all, m
<1>8. /\ retryQueue' \in Seq(Nat) /\ Len(retryQueue') = m
      /\ \A i \in 1 .. m : retryQueue'[i] = all[i]
  BY <1>5, <1>6, <1>7
<1>9. DOMAIN retryQueue' = 1 .. m /\ DOMAIN retryQueue = 1 .. Len(retryQueue)
      /\ DOMAIN s = 1 .. Len(s)
  BY <1>2, <1>4, <1>8
<1>10. Range(retryQueue) \subseteq Range(retryQueue')
  <2>1. ASSUME NEW i \in 1 .. Len(retryQueue)
        PROVE  i \in 1 .. m /\ retryQueue'[i] = retryQueue[i]
    BY <1>2, <1>5, <1>6, <1>8
  <2> QED
    BY <1>9, <2>1 DEF Range
<1>11. Range(retryQueue') \subseteq Range(retryQueue) \cup due
  <2> SUFFICES ASSUME NEW i \in 1 .. m PROVE all[i] \in Range(retryQueue) \cup due
    BY <1>8, <1>9 DEF Range
  <2>1. CASE i <= Len(retryQueue)
    <3>1. i \in 1 .. Len(retryQueue)
      BY <1>2, <2>1
    <3> QED
      BY <1>5, <1>9, <3>1 DEF Range
  <2>2. CASE i > Len(retryQueue)
    <3>1. i \in Len(retryQueue) + 1 .. Len(all) /\ i - Len(retryQueue) \in 1 .. Len(s)
      BY <1>2, <1>4, <1>5, <1>6, <2>2
    <3>2. all[i] = s[i - Len(retryQueue)]
      BY <1>5, <3>1
    <3>3. s[i - Len(retryQueue)] \in Range(s)
      BY <1>9, <3>1 DEF Range
    <3> QED
      BY <1>4, <3>2, <3>3
  <2> QED
    BY <1>2, <2>1, <2>2
<1> QED
  BY <1>6, <1>8, <1>10, <1>11

\* Objects keep their event, and who holds one holds one there is.
LEMMA ObjectsInductive == ASSUME Typed, [Next]_vars PROVE ObjectsTyped'
<1>0. QueuesTyped /\ ObjectsTyped
  BY DEF Typed
<1>1. ASSUME UNCHANGED <<tracking, objects, failedEvents, retryQueue, retrying>>,
             issued \subseteq issued'
      PROVE  ObjectsTyped'
  BY <1>0, <1>1 DEF ObjectsTyped
<1>2. CASE UNCHANGED vars
  BY <1>1, <1>2 DEF vars
<1>3. ASSUME NEW e \in Events, QueueReplication(e) PROVE ObjectsTyped'
  BY <1>1, <1>3 DEF QueueReplication
<1>4. ASSUME NEW e \in Events, CleanupStale(e) PROVE ObjectsTyped'
  <2>1. /\ failedEvents' = [failedEvents EXCEPT ![e] = 0]
        /\ UNCHANGED <<issued, tracking, objects, retryQueue, retrying>>
    BY <1>4 DEF CleanupStale
  <2> QED
    BY <1>0, <2>1 DEF ObjectsTyped
<1>5. CASE Collect
  BY <1>1, <1>5 DEF Collect
<1>7. CASE BroadcastAll
  BY <1>1, <1>7 DEF BroadcastAll
<1>8. ASSUME NEW B \in SUBSET Peers, NEW A \in SUBSET Peers, SendIndividually(B, A)
      PROVE  ObjectsTyped'
  BY <1>1, <1>8 DEF SendIndividually
<1>9. ASSUME NEW e \in Events, NEW p \in Peers, FindObject(e, p),
             SendsTyped
      PROVE  ObjectsTyped'
  <2>1. /\ tracking' = {[object |-> failedEvents'[e], node |-> p]}
        /\ UNCHANGED <<issued, retryQueue, retrying>>
        /\ e \in issued
    BY <1>9 DEF FindObject, SendsTyped
  <2>2. CASE failedEvents[e] # 0
    <3>1. UNCHANGED <<objects, failedEvents>>
      BY <1>9, <2>2 DEF FindObject
    <3>2. failedEvents[e] \in DOMAIN objects
      BY <1>0, <2>2 DEF ObjectsTyped
    <3> QED
      BY <1>0, <2>1, <3>1, <3>2 DEF ObjectsTyped
  <2>3. CASE failedEvents[e] = 0
    <3>1. /\ objects' = Append(objects, [event |-> e, nodes |-> {}, total |-> 0])
          /\ failedEvents' = [failedEvents EXCEPT ![e] = Len(objects')]
      BY <1>9, <2>3 DEF FindObject
    <3>2. /\ objects' \in Seq(Objects)
          /\ Len(objects') \in DOMAIN objects' /\ Len(objects') \in Nat \ {0}
          /\ objects'[Len(objects')].event = e
          /\ \A i \in DOMAIN objects : objects'[i] = objects[i]
          /\ DOMAIN objects' = DOMAIN objects \cup {Len(objects')}
      BY <1>0, <3>1, NewObject DEF ObjectsTyped
    <3> DEFINE n == Len(objects')
    <3>3. /\ failedEvents' \in [Events -> Nat] /\ failedEvents'[e] = n
          /\ \A x \in Events \ {e} : failedEvents'[x] = failedEvents[x]
      BY <1>0, <3>1, <3>2 DEF ObjectsTyped
    <3>4. tracking' \subseteq [object : DOMAIN objects', node : Peers]
      <4>1. tracking' = {[object |-> n, node |-> p]} /\ n \in DOMAIN objects'
        BY <2>1, <3>2, <3>3
      <4> HIDE DEF n
      <4> QED
        BY <4>1
    <3>5. \A o \in DOMAIN objects' : objects'[o].event \in issued'
      BY <1>0, <2>1, <3>2 DEF ObjectsTyped
    <3>6. \A x \in Events : failedEvents'[x] # 0
             => /\ failedEvents'[x] \in DOMAIN objects'
                /\ objects'[failedEvents'[x]].event = x
      BY <1>0, <3>2, <3>3 DEF ObjectsTyped
    <3> QED
      BY <1>0, <2>1, <3>2, <3>3, <3>4, <3>5, <3>6 DEF ObjectsTyped
  <2> QED
    BY <2>2, <2>3
<1>10. ASSUME NEW o \in DOMAIN objects, NEW nodes, Changed(o, nodes),
              ObjectsTyped, UNCHANGED <<issued, failedEvents>>,
              tracking' \subseteq tracking,
              retryQueue' \in Seq(Nat), Len(retryQueue') <= RetrySize,
              Range(retryQueue') \subseteq DOMAIN objects,
              retrying' \in [at : Places, object : Nat],
              retrying'.at # "idle" => retrying'.object \in DOMAIN objects
       PROVE  ObjectsTyped'
  <2>1. /\ objects' \in Seq(Objects) /\ DOMAIN objects' = DOMAIN objects
        /\ \A i \in DOMAIN objects : objects'[i].event = objects[i].event
    BY <1>10 DEF Changed
  <2>2. tracking' \subseteq [object : DOMAIN objects', node : Peers]
    BY <1>0, <1>10, <2>1 DEF ObjectsTyped
  <2>3. \A t, u \in tracking' : t = u
    BY <1>0, <1>10 DEF ObjectsTyped
  <2>4. \A e \in Events : failedEvents'[e] # 0
           => /\ failedEvents'[e] \in DOMAIN objects'
              /\ objects'[failedEvents'[e]].event = e
    BY <1>0, <1>10, <2>1 DEF ObjectsTyped
  <2> QED
    BY <1>0, <1>10, <2>1, <2>2, <2>3, <2>4 DEF ObjectsTyped
<1>11. ASSUME NEW t \in tracking, CountAndSchedule(t) PROVE ObjectsTyped'
  <2>1. t.object \in DOMAIN objects /\ t.node \in Peers
    BY <1>0 DEF ObjectsTyped
  <2>2. /\ objects' = [objects EXCEPT ![t.object].nodes = @ \cup {t.node},
                                      ![t.object].total = @ + 1]
        /\ tracking' = {} /\ ToRetry(t.object)
        /\ UNCHANGED <<issued, failedEvents, retrying>>
    BY <1>11 DEF CountAndSchedule
  <2>3. Changed(t.object, objects[t.object].nodes \cup {t.node})
    BY <1>0, <2>1, <2>2, CountChanges DEF ObjectsTyped
  <2>4. /\ retryQueue' \in Seq(Nat) /\ Len(retryQueue') <= RetrySize
        /\ Range(retryQueue') \subseteq Range(retryQueue) \cup {t.object}
    BY <1>0, <2>1, <2>2, ToRetryTyped
  <2> QED
    BY <1>0, <1>10, <2>1, <2>2, <2>3, <2>4 DEF ObjectsTyped
<1>12. ASSUME UNCHANGED <<issued, tracking, objects, failedEvents>>,
              retryQueue' \in Seq(Nat), Len(retryQueue') <= RetrySize,
              Range(retryQueue') \subseteq DOMAIN objects,
              retrying' \in [at : Places, object : Nat],
              retrying'.at # "idle" => retrying'.object \in DOMAIN objects
       PROVE  ObjectsTyped'
  BY <1>0, <1>12 DEF ObjectsTyped
<1>13. CASE TakeRetry
  <2>1. /\ retryQueue # <<>>
        /\ retrying' = [at |-> "handle", object |-> Head(retryQueue)]
        /\ retryQueue' = Tail(retryQueue)
        /\ UNCHANGED <<issued, tracking, objects, failedEvents>>
    BY <1>13 DEF TakeRetry
  <2>2. retryQueue \in Seq(Nat) /\ Len(retryQueue) \in Nat /\ RetrySize \in Nat
    BY <1>0, SizesAssumption DEF ObjectsTyped
  <2>3. /\ Head(retryQueue) \in Nat /\ Tail(retryQueue) \in Seq(Nat)
        /\ Len(Tail(retryQueue)) = Len(retryQueue) - 1
        /\ Range(retryQueue) = Range(Tail(retryQueue)) \cup {Head(retryQueue)}
    BY <2>1, <2>2, TailRange
  <2>4. retrying' \in [at : Places, object : Nat] /\ retrying'.object = Head(retryQueue)
    BY <2>1, <2>3 DEF Places
  <2> QED
    BY <1>0, <1>12, <2>1, <2>2, <2>3, <2>4 DEF ObjectsTyped
<1>14. CASE PutBack
  <2>1. /\ retrying.at \in {"handle", "failed"} /\ ToRetry(retrying.object)
        /\ retrying' = Idle
        /\ UNCHANGED <<issued, tracking, objects, failedEvents>>
    BY <1>14 DEF PutBack
  <2>2. retrying.object \in DOMAIN objects
    BY <1>0, <2>1 DEF ObjectsTyped
  <2>3. /\ retryQueue' \in Seq(Nat) /\ Len(retryQueue') <= RetrySize
        /\ Range(retryQueue') \subseteq Range(retryQueue) \cup {retrying.object}
    BY <1>0, <2>1, <2>2, ToRetryTyped
  <2>4. retrying' \in [at : Places, object : Nat] /\ retrying'.at = "idle"
    BY <2>1 DEF Places, Idle
  <2> QED
    BY <1>0, <1>12, <2>1, <2>2, <2>3, <2>4 DEF ObjectsTyped
<1>15. ASSUME NEW where \in Places, Goes(where), retrying.at # "idle"
       PROVE  /\ retrying' \in [at : Places, object : Nat]
              /\ retrying'.object = retrying.object
              /\ retrying'.object \in DOMAIN objects
  BY <1>0, <1>15 DEF ObjectsTyped, Goes
<1>16. ASSUME NEW where \in Places, Goes(where), retrying.at # "idle",
              UNCHANGED <<issued, tracking, objects, failedEvents, retryQueue>>
       PROVE  ObjectsTyped'
  BY <1>0, <1>12, <1>15, <1>16 DEF ObjectsTyped
<1>17. CASE Requeue
  BY <1>16, <1>17 DEF Requeue, Places
<1>18. CASE GiveUp
  BY <1>16, <1>18 DEF GiveUp, Places
<1>19. ASSUME NEW where \in Places, Goes(where), retrying.at # "idle",
              NEW nodes, Changed(retrying.object, nodes),
              UNCHANGED <<issued, tracking, failedEvents, retryQueue>>
       PROVE  ObjectsTyped'
  <2>1. retrying.object \in DOMAIN objects
    BY <1>0, <1>19 DEF ObjectsTyped
  <2> QED
    BY <1>0, <1>10, <1>15, <1>19, <2>1 DEF ObjectsTyped
<1>20. ASSUME NEW A \in SUBSET Peers, SendDirectly(A) PROVE ObjectsTyped'
  <2>1. PICK where \in {"reached", "missed"} : Goes(where)
    BY <1>20 DEF SendDirectly
  <2>2. /\ retrying.at # "idle"
        /\ objects' = [objects EXCEPT ![retrying.object].nodes = @ \ A]
        /\ UNCHANGED <<issued, tracking, failedEvents, retryQueue>>
    BY <1>20 DEF SendDirectly
  <2>3. Changed(retrying.object, objects[retrying.object].nodes \ A)
    BY <1>0, <2>2, DirectChanges DEF ObjectsTyped
  <2>4. where \in Places
    BY DEF Places
  <2> QED
    BY <1>19, <2>1, <2>2, <2>3, <2>4
<1>21. CASE JudgeDirect
  <2>1. /\ retrying.at # "idle"
        /\ UNCHANGED <<issued, tracking, failedEvents, retryQueue>>
    BY <1>21 DEF JudgeDirect
  <2>2. CASE ReachedAll
    <3>1. Goes("done") /\ UNCHANGED objects
      BY <1>21, <2>2 DEF JudgeDirect
    <3> QED
      BY <1>16, <2>1, <3>1 DEF Places
  <2>3. CASE ~ReachedAll
    <3>1. objects' = [objects EXCEPT ![retrying.object].total = @ + 1]
      BY <1>21, <2>3 DEF JudgeDirect
    <3>2. PICK where \in {"exceeded", "failed"} : Goes(where)
      BY <1>21, <2>3 DEF JudgeDirect
    <3>3. Changed(retrying.object, objects[retrying.object].nodes)
      BY <1>0, <2>1, <3>1, FailureChanges DEF ObjectsTyped
    <3>4. where \in Places
      BY DEF Places
    <3> QED
      BY <1>19, <2>1, <3>2, <3>3, <3>4
  <2> QED
    BY <2>2, <2>3
<1>22. CASE Forget
  <2>1. /\ retrying.at = "done"
        /\ failedEvents' = [failedEvents EXCEPT ![Inhand.event] = 0]
        /\ retrying' = Idle
        /\ UNCHANGED <<issued, tracking, objects, retryQueue>>
    BY <1>22 DEF Forget
  <2>2. retrying' \in [at : Places, object : Nat] /\ retrying'.at = "idle"
    BY <2>1 DEF Places, Idle
  <2> QED
    BY <1>0, <2>1, <2>2 DEF ObjectsTyped
<1>23. ASSUME NEW due \in SUBSET InMap, ProcessRetryQueue(due) PROVE ObjectsTyped'
  <2>1. /\ retryQueue' \in Seq(Nat) /\ Len(retryQueue') <= RetrySize
        /\ Range(retryQueue') \subseteq Range(retryQueue) \cup due
    BY <1>0, <1>23, RetriesTyped
  <2>2. InMap \subseteq DOMAIN objects
    BY <1>0 DEF InMap, ObjectsTyped
  <2>3. UNCHANGED <<issued, tracking, objects, failedEvents, retrying>>
    BY <1>23 DEF ProcessRetryQueue
  <2> QED
    BY <1>0, <1>12, <2>1, <2>2, <2>3 DEF ObjectsTyped
<1>24. CASE GetPending
  BY <1>1, <1>24 DEF GetPending
<1>25. CASE Reoffer
  BY <1>1, <1>25 DEF Reoffer
<1>26. CASE RemoveSuccessful
  BY <1>1, <1>26 DEF RemoveSuccessful
<1>27. SendsTyped
  BY DEF Typed
<1>28. ASSUME NEW p \in Peers, Disconnect(p) \/ Reconnect(p) \/ Evict(p) PROVE ObjectsTyped'
  BY <1>1, <1>28 DEF Disconnect, Reconnect, Evict, bookkeeping
<1> QED
  BY <1>2, <1>3, <1>4, <1>5, <1>7, <1>8, <1>9, <1>11, <1>13, <1>14, <1>17, <1>18, <1>20,
     <1>21, <1>22, <1>23, <1>24, <1>25, <1>26, <1>27, <1>28, NextCases

-----------------------------------------------------------------------------
(***************************************************************************)
(* No event is lost.                                                       *)
(***************************************************************************)
\* What a step owes: an event on its way stays on its way, or is persisted and
\* is not one that reconciliation removes; the persistent queue loses only those.
Owed ==
    /\ issued' = issued
    /\ slipped => slipped'
    /\ \A e \in issued, p \in Peers :
          Coming(e, p) => \/ slipped' \/ Coming(e, p)'
                          \/ e \in Range(persistentQueue') /\ e \notin reconciling'.successful
    /\ \A e \in Range(persistentQueue) :
          slipped' \/ e \in Range(persistentQueue') \/ e \in reconciling.successful
    /\ \A e \in reconciling'.successful \ reconciling.successful, p \in Peers : Coming(e, p)'

\* A step that pays keeps both parts of the invariant.
LEMMA OwedSuffices ==
    ASSUME Typed, InPlay, Reoffered, Owed
    PROVE  InPlay' /\ Reoffered'
<1> SUFFICES ASSUME ~slipped' PROVE InPlay' /\ Reoffered'
  BY DEF InPlay, Reoffered
<1>1. ~slipped
  BY DEF Owed
<1>2. reconciling.successful \subseteq issued
  BY DEF Typed, QueuesTyped
<1>3. ASSUME NEW e \in issued, NEW p \in Peers, Coming(e, p)
      PROVE  \/ Coming(e, p)'
             \/ e \in Range(persistentQueue') /\ e \notin reconciling'.successful
  BY <1>3 DEF Owed
<1>4. InPlay'
  <2> SUFFICES ASSUME NEW e \in issued, NEW p \in Peers
               PROVE  Coming(e, p)' \/ e \in Range(persistentQueue')
    BY DEF InPlay, Owed
  <2>1. CASE Coming(e, p)
    BY <1>3, <2>1
  <2>2. CASE e \in Range(persistentQueue) /\ e \notin reconciling.successful
    BY <2>2 DEF Owed
  <2>3. CASE e \in reconciling.successful
    <3>1. Coming(e, p)
      BY <1>1, <2>3 DEF Reoffered
    <3> QED
      BY <1>3, <3>1
  <2> QED
    BY <1>1, <2>1, <2>2, <2>3 DEF InPlay
<1>5. Reoffered'
  <2> SUFFICES ASSUME NEW e \in reconciling'.successful, NEW p \in Peers PROVE Coming(e, p)'
    BY DEF Reoffered
  <2>1. CASE e \in reconciling.successful
    <3>1. Coming(e, p) /\ e \in issued
      BY <1>1, <1>2, <2>1 DEF Reoffered
    <3> QED
      BY <1>3, <3>1
  <2>2. CASE e \notin reconciling.successful
    BY <2>2 DEF Owed
  <2> QED
    BY <2>1, <2>2
<1> QED
  BY <1>4, <1>5

\* Of the persistent queue and the reconciliation a step of the other loops
\* owes nothing when it leaves them alone.
LEMMA OwedByLoops ==
    ASSUME Typed, UNCHANGED <<issued, persistentQueue, reconciling>>, slipped => slipped',
           \A e \in issued, p \in Peers : Coming(e, p) => slipped' \/ Coming(e, p)'
    PROVE  Owed
BY DEF Owed

\* What is on its way to a peer by an object stays so when the object only
\* loses nodes it reached.
LEMMA ComingChanged ==
    ASSUME ObjectsTyped, NEW o \in DOMAIN objects, NEW nodes, Changed(o, nodes),
           accepted \subseteq accepted', skipped \subseteq skipped',
           UNCHANGED <<replicationQueue, batch, refusals>>,
           Range(retryQueue) \subseteq Range(retryQueue'),
           retrying.at \notin {"idle", "done"}
               => retrying'.at \notin {"idle", "done"} /\ retrying'.object = retrying.object,
           \A q \in objects[o].nodes \ nodes : <<objects[o].event, q>> \in accepted',
           \A t \in tracking : \/ t \in tracking'
                               \/ t.object \in Range(retryQueue') /\ t.object = o
                                  /\ t.node \in nodes,
           NEW e, NEW p, Coming(e, p)
    PROVE  Coming(e, p)'
<1>1. \A i \in DOMAIN objects : objects'[i].event = objects[i].event
  BY DEF Changed
<1>2. ASSUME NEW i \in DOMAIN objects, objects[i].event = e, p \in objects[i].nodes,
             p \notin objects'[i].nodes
      PROVE  Coming(e, p)'
  <2>1. i = o /\ objects'[i].nodes = nodes
    BY <1>2 DEF Changed
  <2> QED
    BY <1>2, <2>1 DEF Coming
<1>3. /\ \A t \in tracking : t.object \in DOMAIN objects
      /\ Range(retryQueue) \subseteq DOMAIN objects
      /\ retrying.at # "idle" => retrying.object \in DOMAIN objects
  BY DEF ObjectsTyped
<1>4. ASSUME InHand(e, p) PROVE Coming(e, p)'
  BY <1>1, <1>2, <1>3, <1>4 DEF Coming, InHand, Inhand
<1>5. ASSUME NEW i \in Range(retryQueue), objects[i].event = e, p \in objects[i].nodes
      PROVE  Coming(e, p)'
  BY <1>1, <1>2, <1>3, <1>5 DEF Coming
<1>6. ASSUME NEW t \in tracking, objects[t.object].event = e, t.node = p
      PROVE  Coming(e, p)'
  <2>1. CASE t \in tracking'
    BY <1>1, <1>3, <1>6, <2>1 DEF Coming
  <2>2. CASE t.object \in Range(retryQueue') /\ t.object = o /\ t.node \in nodes
    <3>1. objects'[o].nodes = nodes
      BY DEF Changed
    <3> QED
      BY <1>1, <1>3, <1>6, <2>2, <3>1 DEF Coming
  <2> QED
    BY <2>1, <2>2
<1> QED
  BY <1>4, <1>5, <1>6 DEF Coming

\* Every step keeps both parts of the invariant.
LEMMA InPlayInductive == ASSUME IInv, [Next]_vars PROVE InPlay' /\ Reoffered'
<1> DEFINE P == InPlay' /\ Reoffered'
<1>0. QueuesTyped /\ SendsTyped /\ ObjectsTyped /\ Typed /\ InPlay /\ Reoffered
  BY DEF IInv, Typed
<1>1. ASSUME Owed PROVE P
  BY <1>0, <1>1, OwedSuffices
<1>2. ASSUME UNCHANGED <<issued, persistentQueue, reconciling>>, slipped => slipped',
             \A e \in issued, p \in Peers : Coming(e, p) => slipped' \/ Coming(e, p)'
      PROVE  P
  BY <1>0, <1>1, <1>2, OwedByLoops
<1> DEFINE ways == <<accepted, skipped, replicationQueue, batch, refusals, tracking, objects,
                     retryQueue, retrying>>
<1>3. ASSUME UNCHANGED ways, NEW e, NEW p, Coming(e, p) PROVE Coming(e, p)'
  BY <1>3 DEF Coming, InHand, Inhand
<1>4. CASE UNCHANGED vars
  BY <1>0, <1>4 DEF vars, InPlay, Reoffered, Coming, InHand, Inhand
<1>5. ASSUME NEW e \in Events, QueueReplication(e) PROVE P
  <2>1. /\ issued' = issued \cup {e}
        /\ UNCHANGED <<accepted, skipped, batch, refusals, tracking, objects, retryQueue, retrying,
                       reconciling>>
    BY <1>5 DEF QueueReplication
  <2>2. /\ slipped => slipped'
        /\ Range(replicationQueue) \subseteq Range(replicationQueue')
        /\ slipped' \/ Range(persistentQueue) \subseteq Range(persistentQueue')
        /\ e \in Range(replicationQueue') \cup Range(persistentQueue')
    <3>1. CASE Full
      <4>1. Persist(e) /\ UNCHANGED replicationQueue
        BY <1>5, <3>1 DEF QueueReplication
      <4> QED
        BY <1>0, <4>1, PersistTyped
    <3>2. CASE ~Full
      <4>1. Queued(e) /\ UNCHANGED <<persistentQueue, slipped>>
        BY <1>5, <3>2 DEF QueueReplication
      <4> QED
        BY <1>0, <4>1, QueuedTyped
    <3> QED
      BY <3>1, <3>2
  <2>3. ASSUME NEW x, NEW p, Coming(x, p) PROVE Coming(x, p)'
    BY <2>1, <2>2, <2>3 DEF Coming, InHand, Inhand
  <2>4. InPlay'
    <3> SUFFICES ASSUME ~slipped', NEW x \in issued', NEW p \in Peers
                 PROVE  Coming(x, p)' \/ x \in Range(persistentQueue')
      BY DEF InPlay
    <3>1. CASE x = e
      BY <2>2, <3>1 DEF Coming
    <3>2. CASE x \in issued
      BY <1>0, <2>2, <2>3, <3>2 DEF InPlay
    <3> QED
      BY <2>1, <3>1, <3>2
  <2>5. Reoffered'
    BY <1>0, <2>1, <2>2, <2>3 DEF Reoffered
  <2> QED
    BY <2>4, <2>5
<1>6. ASSUME NEW e \in Events, CleanupStale(e) PROVE P
  <2>1. Persist(e) /\ UNCHANGED <<issued, reconciling>> /\ UNCHANGED ways
    BY <1>6 DEF CleanupStale
  <2>2. /\ slipped => slipped'
        /\ slipped' \/ Range(persistentQueue) \subseteq Range(persistentQueue')
    BY <1>0, <2>1, PersistTyped
  <2>3. \A x \in issued, p \in Peers : Coming(x, p) => Coming(x, p)'
    BY <1>3, <2>1
  <2> HIDE DEF ways
  <2> QED
    BY <1>1, <2>1, <2>2, <2>3 DEF Owed
<1>7. ASSUME Collect PROVE P
  <2>1. /\ replicationQueue # <<>>
        /\ batch' = Append(batch, Head(replicationQueue))
        /\ replicationQueue' = Tail(replicationQueue)
        /\ UNCHANGED <<issued, persistentQueue, reconciling, slipped, accepted, skipped, refusals,
                       tracking, objects, retryQueue, retrying>>
    BY <1>7 DEF Collect
  <2>2. replicationQueue \in Seq(Events) /\ batch \in Seq(Events)
    BY <1>0 DEF QueuesTyped, HoldsIssued
  <2>3. /\ Head(replicationQueue) \in Events
        /\ Range(replicationQueue)
             = Range(Tail(replicationQueue)) \cup {Head(replicationQueue)}
    BY <2>1, <2>2, TailRange
  <2>4. Range(batch') = Range(batch) \cup {Head(replicationQueue)}
    BY <2>1, <2>2, <2>3, AppendRange
  <2>5. \A e \in issued, p \in Peers : Coming(e, p) => Coming(e, p)'
    BY <2>1, <2>3, <2>4 DEF Coming, InHand, Inhand
  <2> QED
    BY <1>2, <2>1, <2>5
<1>8. ToSet(batch) = Range(batch)
  BY DEF ToSet, Range
<1>9. ASSUME BroadcastAll PROVE P
  <2>1. /\ accepted' = accepted \cup (Range(batch) \X connected)
        /\ skipped' = skipped \cup (Range(batch) \X (Peers \ connected))
        /\ UNCHANGED <<issued, persistentQueue, reconciling, slipped, replicationQueue,
                       refusals, tracking, objects, retryQueue, retrying>>
    BY <1>8, <1>9 DEF BroadcastAll
  <2>2. \A e \in issued, p \in Peers : Coming(e, p) => Coming(e, p)'
    BY <2>1 DEF Coming, InHand, Inhand
  <2> QED
    BY <1>2, <2>1, <2>2
<1>10. ASSUME NEW B \in SUBSET Peers, NEW A \in SUBSET Peers, SendIndividually(B, A)
      PROVE  P
  <2>1. /\ accepted' = accepted \cup (Range(batch) \X (A \cup B))
        /\ skipped' = skipped \cup (Range(batch) \X (Peers \ (members \cup B)))
        /\ refusals = {} /\ refusals' = Range(batch) \X (members \ A)
        /\ UNCHANGED <<issued, persistentQueue, reconciling, slipped, replicationQueue,
                       tracking, objects, retryQueue, retrying>>
    BY <1>8, <1>10 DEF SendIndividually, Sends, Looping
  <2>2. ASSUME NEW e \in Range(batch), NEW p \in Peers
        PROVE  <<e, p>> \in accepted' \cup skipped' \/ <<e, p>> \in refusals'
    BY <2>1, <2>2
  <2>3. \A e \in issued, p \in Peers : Coming(e, p) => Coming(e, p)'
    BY <2>1, <2>2 DEF Coming, InHand, Inhand
  <2> QED
    BY <1>2, <2>1, <2>3
<1>11. ASSUME NEW e \in Events, NEW p \in Peers, FindObject(e, p) PROVE P
  <2>1. /\ tracking = {} /\ refusals' = refusals \ {<<e, p>>}
        /\ tracking' = {[object |-> failedEvents'[e], node |-> p]}
        /\ UNCHANGED <<issued, persistentQueue, reconciling, slipped, replicationQueue, batch,
                       retryQueue, retrying, accepted, skipped>>
    BY <1>11 DEF FindObject
  <2>2. /\ \A i \in DOMAIN objects : objects'[i] = objects[i]
        /\ objects'[failedEvents'[e]].event = e
    <3>1. CASE failedEvents[e] # 0
      BY <1>0, <1>11, <3>1 DEF FindObject, ObjectsTyped
    <3>2. CASE failedEvents[e] = 0
      <4>1. /\ objects' = Append(objects, [event |-> e, nodes |-> {}, total |-> 0])
            /\ failedEvents' = [failedEvents EXCEPT ![e] = Len(objects')]
        BY <1>11, <3>2 DEF FindObject
      <4>2. /\ objects'[Len(objects')].event = e
            /\ \A i \in DOMAIN objects : objects'[i] = objects[i]
        BY <1>0, <4>1, NewObject DEF ObjectsTyped
      <4>3. failedEvents'[e] = Len(objects')
        BY <1>0, <4>1 DEF ObjectsTyped
      <4> QED
        BY <4>2, <4>3
    <3> QED
      BY <3>1, <3>2
  <2>3. \E t \in tracking' : objects'[t.object].event = e /\ t.node = p
    BY <2>1, <2>2
  <2>4. /\ Range(retryQueue) \subseteq DOMAIN objects
        /\ retrying.at # "idle" => retrying.object \in DOMAIN objects
    BY <1>0 DEF ObjectsTyped
  <2>5. ASSUME NEW x, NEW q, Coming(x, q) PROVE Coming(x, q)'
    <3>1. CASE x = e /\ q = p
      BY <2>3, <3>1 DEF Coming
    <3>2. CASE <<x, q>> # <<e, p>>
      BY <2>1, <2>2, <2>4, <2>5, <3>2 DEF Coming, InHand, Inhand
    <3> QED
      BY <3>1, <3>2
  <2> QED
    BY <1>2, <2>1, <2>5
<1>12. ASSUME NEW t \in tracking, CountAndSchedule(t) PROVE P
  <2>1. t.object \in DOMAIN objects /\ t.node \in Peers /\ \A u \in tracking : u = t
    BY <1>0 DEF ObjectsTyped
  <2>2. /\ objects' = [objects EXCEPT ![t.object].nodes = @ \cup {t.node},
                                      ![t.object].total = @ + 1]
        /\ tracking' = {} /\ ToRetry(t.object)
        /\ UNCHANGED <<issued, persistentQueue, reconciling, replicationQueue, batch, refusals,
                       accepted, skipped, retrying>>
    BY <1>12 DEF CountAndSchedule
  <2>3. Changed(t.object, objects[t.object].nodes \cup {t.node})
    BY <1>0, <2>1, <2>2, CountChanges DEF ObjectsTyped
  <2>4. /\ Range(retryQueue) \subseteq Range(retryQueue')
        /\ slipped' \/ t.object \in Range(retryQueue')
        /\ slipped => slipped'
    BY <1>0, <2>1, <2>2, ToRetryTyped
  <2>5. ASSUME ~slipped', NEW e, NEW p, Coming(e, p) PROVE Coming(e, p)'
    BY <1>0, <2>1, <2>2, <2>3, <2>4, <2>5, ComingChanged
  <2> QED
    BY <1>2, <2>2, <2>4, <2>5
<1>13. ASSUME TakeRetry PROVE P
  <2>1. /\ retrying.at = "idle" /\ retryQueue # <<>>
        /\ retrying' = [at |-> "handle", object |-> Head(retryQueue)]
        /\ retryQueue' = Tail(retryQueue)
        /\ UNCHANGED <<issued, persistentQueue, reconciling, slipped, replicationQueue, batch,
                       refusals, tracking, objects, accepted, skipped>>
    BY <1>13 DEF TakeRetry
  <2>2. retryQueue \in Seq(Nat)
    BY <1>0 DEF ObjectsTyped
  <2>3. Range(retryQueue) = Range(Tail(retryQueue)) \cup {Head(retryQueue)}
    BY <2>1, <2>2, TailRange
  <2>4. retrying'.at = "handle" /\ retrying'.object = Head(retryQueue)
    BY <2>1
  <2>5. ASSUME NEW e, NEW p, Coming(e, p) PROVE Coming(e, p)'
    BY <2>1, <2>3, <2>4, <2>5 DEF Coming, InHand, Inhand
  <2> QED
    BY <1>2, <2>1, <2>5
<1>14. ASSUME PutBack PROVE P
  <2>1. /\ retrying.at \in {"handle", "failed"} /\ ToRetry(retrying.object)
        /\ UNCHANGED <<issued, persistentQueue, reconciling, replicationQueue, batch,
                       refusals, tracking, objects, accepted, skipped>>
    BY <1>14 DEF PutBack
  <2>2. retrying.object \in DOMAIN objects
    BY <1>0, <2>1 DEF ObjectsTyped
  <2>3. /\ Range(retryQueue) \subseteq Range(retryQueue')
        /\ slipped' \/ retrying.object \in Range(retryQueue')
        /\ slipped => slipped'
    BY <1>0, <2>1, <2>2, ToRetryTyped
  <2>4. ASSUME ~slipped', NEW e, NEW p, Coming(e, p) PROVE Coming(e, p)'
    BY <2>1, <2>3, <2>4 DEF Coming, InHand, Inhand
  <2> QED
    BY <1>2, <2>1, <2>3, <2>4
<1>15. ASSUME retrying.at # "idle" PROVE Inhand.event \in Events
  BY <1>0, <1>15 DEF ObjectsTyped, QueuesTyped, Inhand
<1>16. ASSUME Requeue PROVE P
  <2>1. /\ Queued(Inhand.event)
        /\ UNCHANGED <<issued, persistentQueue, reconciling, slipped, batch,
                       refusals, tracking, objects, retryQueue, accepted, skipped>>
    BY <1>16 DEF Requeue
  <2>2. Range(replicationQueue') = Range(replicationQueue) \cup {Inhand.event}
    BY <1>0, <1>15, <1>16, <2>1, QueuedTyped DEF Requeue
  <2>3. ASSUME NEW e, NEW p, Coming(e, p) PROVE Coming(e, p)'
    BY <2>1, <2>2, <2>3 DEF Coming, InHand
  <2> QED
    BY <1>2, <2>1, <2>3
<1>17. ASSUME NEW A \in SUBSET Peers, SendDirectly(A) PROVE P
  <2>1. /\ retrying.at = "handle"
        /\ objects' = [objects EXCEPT ![retrying.object].nodes = @ \ A]
        /\ accepted' = accepted \cup ({Inhand.event} \X A)
        /\ UNCHANGED <<issued, persistentQueue, reconciling, slipped, replicationQueue, batch,
                       refusals, tracking, retryQueue, skipped>>
    BY <1>17 DEF SendDirectly, Sends
  <2>2. retrying'.at \notin {"idle", "done"} /\ retrying'.object = retrying.object
    BY <1>0, <1>17 DEF SendDirectly, Goes, ObjectsTyped
  <2>3. retrying.object \in DOMAIN objects
    BY <1>0, <2>1 DEF ObjectsTyped
  <2>4. Changed(retrying.object, objects[retrying.object].nodes \ A)
    BY <1>0, <2>1, <2>3, DirectChanges DEF ObjectsTyped
  <2>5. \A q \in A : <<objects[retrying.object].event, q>> \in accepted'
    BY <2>1 DEF Inhand
  <2>6. ASSUME NEW e, NEW p, Coming(e, p) PROVE Coming(e, p)'
    BY <1>0, <2>1, <2>2, <2>3, <2>4, <2>5, <2>6, ComingChanged
  <2> QED
    BY <1>2, <2>1, <2>6
<1>18. ASSUME JudgeDirect PROVE P
  <2>1. /\ retrying.at # "idle"
        /\ UNCHANGED <<issued, persistentQueue, reconciling, slipped, replicationQueue, batch,
                       refusals, tracking, retryQueue, accepted, skipped>>
    BY <1>18 DEF JudgeDirect
  <2>2. CASE ReachedAll
    <3>1. Inhand.nodes = {} /\ UNCHANGED objects
      BY <1>18, <2>2 DEF JudgeDirect, ReachedAll
    <3>2. ASSUME NEW e, NEW p, Coming(e, p) PROVE Coming(e, p)'
      BY <2>1, <3>1, <3>2 DEF Coming, InHand
    <3> QED
      BY <1>2, <2>1, <3>2
  <2>3. CASE ~ReachedAll
    <3>1. /\ objects' = [objects EXCEPT ![retrying.object].total = @ + 1]
          /\ retrying'.at \in {"exceeded", "failed"} /\ retrying'.object = retrying.object
      BY <1>0, <1>18, <2>3 DEF JudgeDirect, Goes, ObjectsTyped
    <3>2. retrying.object \in DOMAIN objects
      BY <1>0, <2>1 DEF ObjectsTyped
    <3>3. Changed(retrying.object, objects[retrying.object].nodes)
      BY <1>0, <3>1, <3>2, FailureChanges DEF ObjectsTyped
    <3>4. ASSUME NEW e, NEW p, Coming(e, p) PROVE Coming(e, p)'
      BY <1>0, <2>1, <3>1, <3>2, <3>3, <3>4, ComingChanged
    <3> QED
      BY <1>2, <2>1, <3>4
  <2> QED
    BY <2>2, <2>3
<1>19. ASSUME GiveUp PROVE P
  <2>1. /\ Persist(Inhand.event)
        /\ retrying.at # "idle"
        /\ UNCHANGED <<issued, reconciling, replicationQueue, batch,
                       refusals, tracking, objects, retryQueue, accepted, skipped>>
    BY <1>19 DEF GiveUp
  <2>2. /\ Inhand.event \in Range(persistentQueue')
        /\ slipped' \/ Range(persistentQueue) \subseteq Range(persistentQueue')
        /\ slipped' \/ Inhand.event \notin reconciling.successful
        /\ slipped => slipped'
    BY <1>0, <1>15, <2>1, PersistTyped
  <2>3. ASSUME NEW e, NEW p, Coming(e, p), e # Inhand.event PROVE Coming(e, p)'
    BY <2>1, <2>3 DEF Coming, InHand
  <2> QED
    BY <1>1, <2>1, <2>2, <2>3 DEF Owed
<1>20. ASSUME Forget PROVE P
  <2>1. /\ retrying.at = "done"
        /\ UNCHANGED <<issued, persistentQueue, reconciling, slipped, replicationQueue, batch,
                       refusals, tracking, objects, retryQueue, accepted, skipped>>
    BY <1>20 DEF Forget
  <2>2. ASSUME NEW e, NEW p, Coming(e, p) PROVE Coming(e, p)'
    BY <2>1, <2>2 DEF Coming, InHand
  <2> QED
    BY <1>2, <2>1, <2>2
<1>21. ASSUME NEW due \in SUBSET InMap, ProcessRetryQueue(due) PROVE P
  <2>1. Range(retryQueue) \subseteq Range(retryQueue')
    BY <1>0, <1>21, RetriesTyped
  <2>2. UNCHANGED <<issued, persistentQueue, reconciling, slipped, replicationQueue, batch,
                    refusals, tracking, objects, retrying, accepted, skipped>>
    BY <1>21 DEF ProcessRetryQueue
  <2>3. ASSUME NEW e, NEW p, Coming(e, p) PROVE Coming(e, p)'
    BY <2>1, <2>2, <2>3 DEF Coming, InHand, Inhand
  <2> QED
    BY <1>2, <2>2, <2>3
<1>22. ASSUME GetPending PROVE P
  <2>1. /\ reconciling'.successful = {}
        /\ UNCHANGED <<issued, persistentQueue, slipped>> /\ UNCHANGED ways
    BY <1>22 DEF GetPending
  <2>2. \A e \in issued, p \in Peers : Coming(e, p) => Coming(e, p)'
    BY <1>3, <2>1
  <2> HIDE DEF ways
  <2> QED
    BY <1>1, <2>1, <2>2 DEF Owed
<1>23. ASSUME Reoffer PROVE P
  <2>1. PICK e : e = Head(reconciling.pending)
    OBVIOUS
  <2>2. /\ UNCHANGED <<issued, batch, refusals, tracking, objects, retryQueue, retrying,
                       persistentQueue, accepted, skipped, slipped>>
        /\ reconciling.pending # <<>>
    BY <1>23 DEF Reoffer
  <2>3. PICK rc \in [busy : BOOLEAN, pending : Seq(Events), successful : SUBSET Events] :
           rc = reconciling
    BY <1>0 DEF QueuesTyped
  <2>4. e \in Events
    BY <2>1, <2>2, <2>3, TailRange
  <2>5. CASE /\ Queued(e)
             /\ reconciling' = [[reconciling EXCEPT !.pending = Tail(@)]
                                   EXCEPT !.successful = @ \cup {e}]
    <3>1. Range(replicationQueue') = Range(replicationQueue) \cup {e}
      BY <1>0, <2>4, <2>5, QueuedTyped
    <3>2. reconciling' = [busy |-> rc.busy, pending |-> Tail(rc.pending),
                          successful |-> rc.successful \cup {e}]
      BY <2>3, <2>5
    <3>3. reconciling'.successful = reconciling.successful \cup {e}
      BY <2>3, <3>2
    <3>4. ASSUME NEW x, NEW p, Coming(x, p) \/ x = e PROVE Coming(x, p)'
      BY <2>2, <3>1, <3>4 DEF Coming, InHand, Inhand
    <3> QED
      BY <1>1, <2>2, <3>3, <3>4 DEF Owed
  <2>6. CASE /\ UNCHANGED replicationQueue
             /\ reconciling' = [reconciling EXCEPT !.pending = Tail(@)]
    <3>1. reconciling' = [busy |-> rc.busy, pending |-> Tail(rc.pending),
                          successful |-> rc.successful]
      BY <2>3, <2>6
    <3>2. reconciling'.successful = reconciling.successful
      BY <2>3, <3>1
    <3>3. \A x \in issued, p \in Peers : Coming(x, p) => Coming(x, p)'
      BY <1>3, <2>2, <2>6
    <3> QED
      BY <1>1, <2>2, <3>2, <3>3 DEF Owed
  <2> QED
    BY <1>23, <2>1, <2>5, <2>6 DEF Reoffer
<1>24. ASSUME RemoveSuccessful PROVE P
  <2>1. /\ persistentQueue' = Removed(persistentQueue, reconciling.successful)
        /\ reconciling' = Resting
        /\ UNCHANGED <<issued, slipped>> /\ UNCHANGED ways
    BY <1>24 DEF RemoveSuccessful
  <2>2. persistentQueue \in Seq(Events)
    BY <1>0 DEF QueuesTyped, HoldsIssued
  <2>3. Range(persistentQueue') = Range(persistentQueue) \ reconciling.successful
    BY <2>1, <2>2, RemovedRange
  <2>4. reconciling'.successful = {}
    BY <2>1 DEF Resting
  <2>5. \A e \in issued, p \in Peers : Coming(e, p) => Coming(e, p)'
    BY <1>3, <2>1
  <2> HIDE DEF ways
  <2> QED
    BY <1>1, <2>1, <2>3, <2>4, <2>5 DEF Owed
<1>25. ASSUME NEW p \in Peers, Disconnect(p) \/ Reconnect(p) \/ Evict(p) PROVE P
  BY <1>0, <1>2, <1>3, <1>25 DEF Disconnect, Reconnect, Evict, bookkeeping
<1> HIDE DEF P
<1> QED
  <2>1. P
    BY <1>0, <1>4, <1>5, <1>6, <1>7, <1>9, <1>10, <1>11, <1>12, <1>13, <1>14, <1>16, <1>17,
       <1>18, <1>19, <1>20, <1>21, <1>22, <1>23, <1>24, <1>25, NextCases DEF P
  <2> QED
    BY <2>1 DEF P

-----------------------------------------------------------------------------
(***************************************************************************)
(* The results.                                                            *)
(***************************************************************************)
\* At the start nothing is issued.
LEMMA InitHolds == Init => IInv
<1> SUFFICES ASSUME Init PROVE IInv
  OBVIOUS
<1>1. /\ issued = {} /\ replicationQueue = <<>> /\ batch = <<>>
      /\ refusals = {} /\ tracking = {} /\ objects = <<>>
      /\ failedEvents = [e \in Events |-> 0]
      /\ retryQueue = <<>> /\ retrying = Idle
      /\ persistentQueue = <<>> /\ reconciling = Resting
      /\ connected = Peers /\ members = Peers
      /\ accepted = {} /\ skipped = {} /\ refused = 0 /\ slipped = FALSE
  BY DEF Init
<1>2. /\ Range(<<>>) = {} /\ Len(<<>>) = 0 /\ DOMAIN <<>> = {}
      /\ <<>> \in Seq(Events) /\ <<>> \in Seq(Nat) /\ <<>> \in Seq(Objects)
  BY DEF Range
<1>3. /\ QueueSize \in Nat /\ BatchSize \in Nat /\ KeptSize \in Nat /\ RetrySize \in Nat
  BY SizesAssumption
<1>4. QueuesTyped
  <2>1. /\ reconciling \in [busy : BOOLEAN, pending : Seq(Events), successful : SUBSET Events]
        /\ reconciling.pending = <<>> /\ reconciling.successful = {}
    BY <1>1 DEF Resting
  <2> QED
    BY <1>1, <1>2, <1>3, <2>1 DEF QueuesTyped, HoldsIssued
<1>5. SendsTyped
  BY <1>1 DEF SendsTyped
<1>6. ObjectsTyped
  BY <1>1, <1>2, <1>3 DEF ObjectsTyped, Idle, Places
<1>7. InPlay /\ Reoffered
  BY <1>1 DEF InPlay, Reoffered, Resting
<1> QED
  BY <1>4, <1>5, <1>6, <1>7 DEF IInv, Typed

(***************************************************************************)
(* In every reachable state of the sender's bookkeeping (cluster.go) the   *)
(* queues, the map and the loops are typed, every issued event is on its   *)
(* way to every peer it has not been sent to or passed over, or in the     *)
(* persistent queue, and reconciliation removes no event that is not on    *)
(* its way again.                                                          *)
(***************************************************************************)
THEOREM Invariance == Spec => []IInv
<1>1. IInv /\ [Next]_vars => IInv'
  BY QueuesInductive, SendsInductive, ObjectsInductive, InPlayInductive DEF IInv, Typed
<1> QED
  BY InitHolds, <1>1, PTL DEF Spec

(***************************************************************************)
(* The queues hold issued events only and keep their sizes, a failed event *)
(* is filed under its own EventID, and nobody holds an object that is not  *)
(* there (cluster.go).                                                     *)
(***************************************************************************)
THEOREM TypeCorrect == Spec => []TypeOK
<1>1. IInv => TypeOK
  BY DEF IInv, Typed, QueuesTyped, HoldsIssued, SendsTyped, ObjectsTyped, TypeOK
<1> QED
  BY <1>1, Invariance, PTL

(***************************************************************************)
(* An event queueReplication was called for is taken for each peer by the  *)
(* outgoing queue, passed over by a send that finds the peer without a     *)
(* connection or no longer in cm.nodes, or kept for it, through every move *)
(* between the queues, the map and the loops, unless a queue dropped       *)
(* something or an event was persisted again while reconciliation was      *)
(* about to remove it.                                                     *)
(***************************************************************************)
THEOREM NoneForgotten == Spec => []NothingForgotten
<1>1. ASSUME IInv PROVE NothingForgotten
  <2>1. ObjectsTyped /\ InPlay
    BY <1>1 DEF IInv, Typed
  <2>2. ASSUME NEW e \in issued, NEW p \in Peers, Coming(e, p)
        PROVE  <<e, p>> \in accepted \cup skipped \/ Kept(e, p)
    BY <2>1, <2>2 DEF Coming, InHand, Inhand, Kept, Reachable, ObjectsTyped
  <2>3. \A e \in issued, p \in Peers : e \in Range(persistentQueue) => Kept(e, p)
    BY DEF Kept
  <2> QED
    BY <2>1, <2>2, <2>3 DEF InPlay, NothingForgotten
<1>2. IInv => NothingForgotten
  BY <1>1
<1> QED
  BY <1>2, Invariance, PTL

=============================================================================
