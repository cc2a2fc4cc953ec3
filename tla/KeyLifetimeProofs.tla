------------------------- MODULE KeyLifetimeProofs -------------------------
(***************************************************************************)
(* Deadlines belong to values, and the counters follow the map: for any    *)
(* connections, keys, lengths, TTLs and queue sizes, and every             *)
(* interleaving of commands, cleaner and updates of the counters.          *)
(***************************************************************************)
EXTENDS KeyLifetime, FiniteSetTheorems, TLAPS

\* A Delete or FLUSHALL has taken the value and not the deadline.
Dying(call, k) ==
    \/ call.phase \in {"account", "undeadline"} /\ call.deletes /\ call.key = k
    \/ call.phase = "clearExpiry"

\* A SetExpiry has found the key and not set the deadline.
Checks(call, k) == call.phase = "checked" /\ call.key = k

WellFormed(call) ==
    /\ call.phase = "account" => /\ {"phase", "key", "deletes"} \subseteq DOMAIN call
                                 /\ call.deletes \in BOOLEAN
    /\ call.phase = "undeadline" => call.deletes

CallsShape == /\ DOMAIN calls = Clients
              /\ \A c \in Clients : WellFormed(calls[c])

Shape == /\ DOMAIN data = Keys /\ DOMAIN expiry = Keys /\ DOMAIN meant = Keys
         /\ CallsShape
         /\ called \in Nat

(***************************************************************************)
(* DeadlinesFollowValues is about settled states.  In all others the       *)
(* deadline is that of the value but while a deletion is half-way, and     *)
(* then there is no value; a SetExpiry that is half-way still has one.     *)
(***************************************************************************)
Agrees(k) ==
    /\ (\A c \in Clients : ~Dying(calls[c], k)) => expiry[k] = meant[k]
    /\ \A c \in Clients : Dying(calls[c], k) => data[k] = Absent
    /\ \A c \in Clients : Checks(calls[c], k) => data[k] # Absent
    /\ data[k] = Absent => meant[k] = NoDeadline

IInv == Shape /\ \A k \in Keys \ astray : Agrees(k)

-----------------------------------------------------------------------------
\* A value has a size, since no key is empty.
LEMMA SizesAreNotAbsent == \A size \in Sizes : size # Absent
  BY LengthsAssumption DEF Sizes, Absent

\* A connection that is idle is half-way through nothing.
LEMMA IdleHalves == \A k : ~HalfWay(Idle, k) /\ ~Dying(Idle, k) /\ ~Checks(Idle, k)
  BY DEF Idle, HalfWay, Dying, Checks

\* HalfWay covers what the invariant is about.
LEMMA HalvesAreHalfWay ==
    ASSUME NEW call, NEW k, ~HalfWay(call, k)
    PROVE  ~Dying(call, k) /\ ~Checks(call, k)
  BY DEF HalfWay, Dying, Checks

\* A command that is over but for its accounts is half-way through nothing.
LEMMA AccountingHalves ==
    ASSUME NEW j, NEW delta, NEW k
    PROVE  /\ ~Dying(Accounting(j, delta, FALSE), k)
           /\ ~Checks(Accounting(j, delta, FALSE), k)
  BY DEF Accounting, Dying, Checks

\* What the history does not note was not half-way for another connection.
LEMMA NotedUnless ==
    ASSUME NEW others, NEW ks, Notes(others, ks), NEW k \in ks, k \notin astray'
    PROVE  k \notin astray /\ \A d \in others : ~HalfWay(calls[d], k)
  BY DEF Notes, Disturbed

\* The history only grows.
LEMMA AstrayGrows ==
    ASSUME NEW others, NEW ks, Notes(others, ks) PROVE astray \subseteq astray'
  BY DEF Notes

\* Connections are half-way through the same as before.
SameHalves(k) ==
    \A d \in Clients : /\ Dying(calls'[d], k) <=> Dying(calls[d], k)
                       /\ Checks(calls'[d], k) <=> Checks(calls[d], k)

\* The calls of the other connections stay.
LEMMA NewCall ==
    ASSUME CallsShape, NEW c \in Clients, NEW new, WellFormed(new),
           calls' = [calls EXCEPT ![c] = new]
    PROVE  /\ CallsShape' /\ calls'[c] = new
           /\ \A d \in Clients : d # c => calls'[d] = calls[d]
  <1>1. /\ DOMAIN calls' = Clients /\ calls'[c] = new
        /\ \A d \in Clients : d # c => calls'[d] = calls[d]
    BY DEF CallsShape
  <1>2. ASSUME NEW d \in Clients PROVE WellFormed(calls'[d])
    BY <1>1 DEF CallsShape
  <1>3. \A d \in Clients : WellFormed(calls[d])'
    BY <1>2 DEF WellFormed
  <1> QED BY <1>1, <1>3 DEF CallsShape

\* A connection that is half-way through as much as before changes nothing.
LEMMA NewHalves ==
    ASSUME CallsShape, NEW c \in Clients, NEW k, NEW new, WellFormed(new),
           Dying(new, k) <=> Dying(calls[c], k),
           Checks(new, k) <=> Checks(calls[c], k),
           calls' = [calls EXCEPT ![c] = new]
    PROVE  SameHalves(k)
  <1>1. calls'[c] = new /\ \A d \in Clients : d # c => calls'[d] = calls[d]
    BY NewCall
  <1>2. ASSUME NEW d \in Clients
        PROVE  /\ Dying(calls'[d], k) <=> Dying(calls[d], k)
               /\ Checks(calls'[d], k) <=> Checks(calls[d], k)
    <2>1. CASE d = c
      BY <1>1, <2>1
    <2>2. CASE d # c
      BY <1>1, <2>2
    <2> QED BY <2>1, <2>2
  <1> QED BY <1>2 DEF SameHalves

\* A key nothing happens to.
LEMMA Untouched ==
    ASSUME NEW k \in Keys, k \notin astray => Agrees(k), SameHalves(k),
           astray \subseteq astray', data'[k] = data[k],
           expiry'[k] = expiry[k], meant'[k] = meant[k]
    PROVE  k \notin astray' => Agrees(k)'
  BY DEF Agrees, SameHalves

-----------------------------------------------------------------------------
(***************************************************************************)
(* A stored value gets the deadline the command gives it, also when there  *)
(* was a deadline and no value before (string_operations.go:137-149).      *)
(***************************************************************************)
LEMMA StoreIInv ==
    ASSUME IInv, NEW c \in Clients, NEW k \in Keys, NEW size \in Sizes,
           NEW deadline, NEW given, Store(c, k, size, deadline, given),
           CallsShape', \A j \in Keys : SameHalves(j),
           k \notin astray' => deadline = given
    PROVE  IInv'
  <1>1. /\ calls[c] = Idle /\ Notes(Clients \ {c}, {k})
        /\ data' = [data EXCEPT ![k] = size]
        /\ expiry' = [expiry EXCEPT ![k] = deadline]
        /\ meant' = [meant EXCEPT ![k] = given]
    BY DEF Store, Begins
  <1>2. Shape'
    <2>1. called' \in Nat
      BY DEF IInv, Shape, Store, Begins
    <2> QED BY <1>1, <2>1 DEF IInv, Shape
  <1>3. astray \subseteq astray'
    BY <1>1, AstrayGrows
  <1>4. ASSUME NEW j \in Keys, j \notin astray' PROVE Agrees(j)'
    <2>1. CASE j # k
      BY <1>1, <1>3, <1>4, <2>1, Untouched DEF IInv, Shape
    <2>2. CASE j = k
      <3>1. \A d \in Clients : ~HalfWay(calls[d], k)
        BY <1>1, <1>4, <2>2, NotedUnless, IdleHalves
      <3>2. \A d \in Clients : ~Dying(calls[d], k) /\ ~Checks(calls[d], k)
        BY <3>1, HalvesAreHalfWay
      <3>3. \A d \in Clients : ~Dying(calls'[d], k) /\ ~Checks(calls'[d], k)
        BY <3>2 DEF SameHalves
      <3>4. data'[k] = size /\ expiry'[k] = deadline /\ meant'[k] = given
        BY <1>1 DEF IInv, Shape
      <3> QED BY <1>4, <2>2, <3>3, <3>4, SizesAreNotAbsent DEF Agrees
    <2> QED BY <2>1, <2>2
  <1> QED BY <1>2, <1>4 DEF IInv

\* Where nothing is half-way a value keeps its deadline, and none has none.
LEMMA KeptIsTrue ==
    ASSUME IInv, NEW k \in Keys, k \notin astray, NEW c \in Clients, calls[c] = Idle,
           \A d \in Clients \ {c} : ~HalfWay(calls[d], k)
    PROVE  /\ expiry[k] = Kept(k)
           /\ ClearsDeadline(k) = NoDeadline
  <1>1. \A d \in Clients : ~Dying(calls[d], k)
    BY IdleHalves, HalvesAreHalfWay
  <1>2. expiry[k] = meant[k] /\ (data[k] = Absent => meant[k] = NoDeadline)
    BY <1>1 DEF IInv, Agrees
  <1> QED BY <1>2 DEF Kept, ClearsDeadline

\* A value stored and accounted later.
LEMMA WriteIInv ==
    ASSUME IInv, NEW c \in Clients, NEW k \in Keys, NEW size \in Sizes,
           NEW deadline, NEW given, Write(c, k, size, deadline, given),
           \/ deadline = given
           \/ deadline = expiry[k] /\ given = Kept(k)
           \/ deadline = ClearsDeadline(k) /\ given = NoDeadline
    PROVE  IInv'
  <1>1. /\ Store(c, k, size, deadline, given) /\ hashes' = hashes \ {k}
        /\ calls[c] = Idle /\ Notes(Clients \ {c}, {k})
        /\ calls' = [calls EXCEPT ![c] = Accounting(k, Growth(k, size), FALSE)]
    BY DEF Write, Store, Begins
  <1>2. CallsShape' /\ \A j \in Keys : SameHalves(j)
    <2>1. CallsShape /\ WellFormed(Accounting(k, Growth(k, size), FALSE))
      BY DEF IInv, Shape, WellFormed, Accounting
    <2>2. CallsShape'
      BY <1>1, <2>1, NewCall
    <2>3. ASSUME NEW j \in Keys PROVE SameHalves(j)
      BY <1>1, <2>1, NewHalves, IdleHalves, AccountingHalves
    <2> QED BY <2>2, <2>3
  <1>3. k \notin astray' => deadline = given
    <2>1. ASSUME k \notin astray' PROVE expiry[k] = Kept(k) /\ ClearsDeadline(k) = NoDeadline
      BY <1>1, <2>1, NotedUnless, KeptIsTrue
    <2> QED BY <2>1
  <1> QED BY <1>1, <1>2, <1>3, StoreIInv

\* A value changed and accounted at once.
LEMMA RewriteIInv ==
    ASSUME IInv, NEW c \in Clients, NEW k \in Keys, NEW size \in Sizes,
           Rewrite(c, k, size)
    PROVE  IInv'
  <1>1. /\ Store(c, k, size, expiry[k], Kept(k)) /\ calls' = calls
        /\ calls[c] = Idle /\ Notes(Clients \ {c}, {k})
    BY DEF Rewrite, Store, Begins
  <1>2. CallsShape' /\ \A j \in Keys : SameHalves(j)
    BY <1>1 DEF IInv, Shape, SameHalves, CallsShape, WellFormed, Dying, Checks
  <1>3. k \notin astray' => expiry[k] = Kept(k)
    BY <1>1, NotedUnless, KeptIsTrue
  <1> QED BY <1>1, <1>2, <1>3, StoreIInv

-----------------------------------------------------------------------------
(***************************************************************************)
(* A step that changes one key, or the call of one connection.             *)
(***************************************************************************)
LEMMA OneKey ==
    ASSUME IInv, Shape', astray \subseteq astray', NEW k,
           \A j \in Keys : j # k => /\ SameHalves(j)
                                   /\ data'[j] = data[j]
                                   /\ expiry'[j] = expiry[j]
                                   /\ meant'[j] = meant[j],
           k \in Keys \ astray' => Agrees(k)'
    PROVE  IInv'
  <1>1. ASSUME NEW j \in Keys, j \notin astray', j # k PROVE Agrees(j)'
    BY <1>1, Untouched DEF IInv
  <1> QED BY <1>1 DEF IInv

\* A step that changes no value and no deadline, and moves no call.
LEMMA NoKey ==
    ASSUME IInv, CallsShape', called' \in Nat, \A j \in Keys : SameHalves(j),
           UNCHANGED <<data, expiry, meant, astray>>
    PROVE  IInv'
  <1>1. Shape'
    BY DEF IInv, Shape
  <1>2. ASSUME NEW j \in Keys, j \notin astray' PROVE Agrees(j)'
    BY <1>2, Untouched DEF IInv
  <1> QED BY <1>1, <1>2 DEF IInv

\* The commands that store a value.
LEMMA SetIInv ==
    ASSUME IInv, NEW c \in Clients, NEW k \in Keys, NEW size \in Sizes,
           \/ \E condition \in {"", "NX", "XX"} : Set(c, k, condition, size)
           \/ GetSet(c, k, size)
           \/ IncrBy(c, k, size)
           \/ HSet(c, k, size)
           \/ HDel(c, k)
    PROVE  IInv'
  <1>1. CASE \E condition \in {"", "NX", "XX"} : Set(c, k, condition, size)
    BY <1>1, WriteIInv DEF Set
  <1>2. CASE GetSet(c, k, size)
    BY <1>2, WriteIInv DEF GetSet
  <1>3. CASE IncrBy(c, k, size)
    BY <1>3, RewriteIInv DEF IncrBy
  <1>4. CASE HSet(c, k, size)
    BY <1>4, RewriteIInv DEF HSet
  <1>5. CASE HDel(c, k)
    BY <1>5, RewriteIInv DEF HDel
  <1> QED BY <1>1, <1>2, <1>3, <1>4, <1>5

\* The last field takes the value away: what deadline it leaves is noted.
LEMMA HDelLastIInv ==
    ASSUME IInv, NEW c \in Clients, NEW k \in Keys, HDelLast(c, k)
    PROVE  IInv'
  <1>1. /\ calls[c] = Idle /\ calls' = calls /\ expiry' = expiry
        /\ data' = [data EXCEPT ![k] = Absent]
        /\ meant' = [meant EXCEPT ![k] = NoDeadline]
        /\ astray' = astray \cup Disturbed(Clients \ {c}, {k})
                          \cup {j \in {k} : expiry[j] # NoDeadline}
        /\ called' \in Nat
    BY DEF HDelLast, Begins, IInv, Shape
  <1>2. Shape'
    BY <1>1 DEF IInv, Shape, CallsShape, WellFormed
  <1>3. \A j \in Keys : SameHalves(j)
    BY <1>1 DEF SameHalves, Dying, Checks
  <1>4. ASSUME k \notin astray' PROVE Agrees(k)'
    <2>1. expiry'[k] = NoDeadline /\ meant'[k] = NoDeadline /\ data'[k] = Absent
      BY <1>1, <1>4 DEF IInv, Shape
    <2>2. \A d \in Clients : ~HalfWay(calls[d], k)
      BY <1>1, <1>4, IdleHalves DEF Disturbed
    <2>3. \A d \in Clients : ~Checks(calls'[d], k)
      BY <1>1, <2>2, HalvesAreHalfWay
    <2> QED BY <2>1, <2>3 DEF Agrees
  <1>5. astray \subseteq astray'
    BY <1>1
  <1>6. \A j \in Keys : j # k => data'[j] = data[j] /\ meant'[j] = meant[j]
    BY <1>1 DEF IInv, Shape
  <1> QED BY <1>1, <1>2, <1>3, <1>4, <1>5, <1>6, OneKey

-----------------------------------------------------------------------------
\* Either deletion: the deadline goes with the value, or the call is Dying.
LEMMA RemoveKeyIInv ==
    ASSUME IInv, NEW c \in Clients, NEW k \in Keys, Delete(c, k) \/ DeleteWithHLC(c, k)
    PROVE  IInv'
  <1> PICK deadline : \E deletes \in BOOLEAN :
         RemoveKey(c, k, deadline, deletes) /\ (~deletes => deadline = NoDeadline)
    BY DEF Delete, DeleteWithHLC
  <1> PICK deletes \in BOOLEAN :
         RemoveKey(c, k, deadline, deletes) /\ (~deletes => deadline = NoDeadline)
    OBVIOUS
  <1> DEFINE new == Accounting(k, Freed(k), deletes)
  <1>1. /\ calls[c] = Idle /\ Notes(Clients \ {c}, {k}) /\ called' \in Nat
        /\ data' = [data EXCEPT ![k] = Absent]
        /\ expiry' = [expiry EXCEPT ![k] = deadline]
        /\ meant' = [meant EXCEPT ![k] = NoDeadline]
        /\ calls' = [calls EXCEPT ![c] = new]
    <2>1. called' \in Nat
      BY DEF RemoveKey, Begins, IInv, Shape
    <2>2. calls' = [calls EXCEPT ![c] = new]
      BY Zenon DEF RemoveKey
    <2>3. /\ calls[c] = Idle /\ Notes(Clients \ {c}, {k})
          /\ data' = [data EXCEPT ![k] = Absent]
          /\ expiry' = [expiry EXCEPT ![k] = deadline]
          /\ meant' = [meant EXCEPT ![k] = NoDeadline]
      BY Zenon DEF RemoveKey, Begins
    <2> QED BY <2>1, <2>2, <2>3
  <1>2. /\ WellFormed(new)
        /\ \A j : ~Checks(new, j) /\ (Dying(new, j) <=> j = k /\ deletes)
    BY DEF Accounting, WellFormed, Checks, Dying
  <1>3. CallsShape' /\ calls'[c] = new /\ \A d \in Clients : d # c => calls'[d] = calls[d]
    BY <1>1, <1>2, NewCall DEF IInv, Shape
  <1>4. Shape'
    BY <1>1, <1>3 DEF IInv, Shape
  <1>5. ASSUME NEW j \in Keys, j # k
        PROVE  /\ SameHalves(j) /\ data'[j] = data[j]
               /\ expiry'[j] = expiry[j] /\ meant'[j] = meant[j]
    <2>1. SameHalves(j)
      BY <1>1, <1>2, <1>5, IdleHalves, NewHalves DEF IInv, Shape
    <2> QED BY <1>1, <1>5, <2>1 DEF IInv, Shape
  <1>6. ASSUME k \notin astray' PROVE Agrees(k)'
    <2>1. data'[k] = Absent /\ meant'[k] = NoDeadline /\ expiry'[k] = deadline
      BY <1>1 DEF IInv, Shape
    <2>2. \A d \in Clients \ {c} : ~Checks(calls[d], k)
      BY <1>1, <1>6, NotedUnless, HalvesAreHalfWay
    <2>3. \A d \in Clients : ~Checks(calls'[d], k)
      BY <1>2, <1>3, <2>2
    <2>4. deletes => Dying(calls'[c], k)
      BY <1>2, <1>3
    <2> QED BY <2>1, <2>3, <2>4 DEF Agrees
  <1> QED BY <1>1, <1>4, <1>5, <1>6, AstrayGrows, OneKey

\* Accounting leaves a Delete as half-way as it was.
LEMMA AccountIInv ==
    ASSUME IInv, NEW c \in Clients, Account(c) PROVE IInv'
  <1> PICK new :
         new = IF calls[c].deletes THEN [calls[c] EXCEPT !.phase = "undeadline"] ELSE Idle
    OBVIOUS
  <1>1. /\ calls[c].phase = "account" /\ calls' = [calls EXCEPT ![c] = new]
        /\ called' = called /\ UNCHANGED <<data, expiry, meant, astray>>
    BY DEF Account, IInv, Shape, CallsShape
  <1>2. /\ CallsShape /\ called \in Nat /\ calls[c].deletes \in BOOLEAN
        /\ {"phase", "key", "deletes"} \subseteq DOMAIN calls[c]
    BY <1>1 DEF IInv, Shape, CallsShape, WellFormed
  <1>3. \/ new.phase = "undeadline" /\ new.key = calls[c].key
           /\ new.deletes = calls[c].deletes /\ calls[c].deletes
        \/ new = Idle /\ ~calls[c].deletes
    BY <1>2
  <1>4. WellFormed(new)
    BY <1>1, <1>3 DEF WellFormed, Idle
  <1>5. ASSUME NEW k \in Keys PROVE SameHalves(k)
    <2>1. Dying(new, k) <=> Dying(calls[c], k)
      BY <1>1, <1>3 DEF Dying, Idle
    <2>2. Checks(new, k) <=> Checks(calls[c], k)
      BY <1>1, <1>3 DEF Checks, Idle
    <2> QED BY <1>1, <1>2, <1>4, <2>1, <2>2, NewHalves
  <1>6. CallsShape'
    BY <1>1, <1>2, <1>4, NewCall
  <1> QED BY <1>1, <1>2, <1>5, <1>6, NoKey

\* The deadline goes last: there is no value, and now no deadline either.
LEMMA RemoveDeadlineIInv ==
    ASSUME IInv, NEW c \in Clients, RemoveDeadline(c) PROVE IInv'
  <1> PICK k : k = calls[c].key
    OBVIOUS
  <1>1. /\ calls[c].phase = "undeadline" /\ calls' = [calls EXCEPT ![c] = Idle]
        /\ expiry' = [expiry EXCEPT ![k] = NoDeadline]
        /\ called' = called /\ UNCHANGED <<data, meant, astray>>
    BY DEF RemoveDeadline
  <1>2. WellFormed(Idle)
    BY DEF WellFormed, Idle
  <1>3. CallsShape' /\ calls'[c] = Idle /\ \A d \in Clients : d # c => calls'[d] = calls[d]
    BY <1>1, <1>2, NewCall DEF IInv, Shape
  <1>4. Shape'
    BY <1>1, <1>3 DEF IInv, Shape
  <1>5. ASSUME NEW j \in Keys, j # k PROVE SameHalves(j) /\ expiry'[j] = expiry[j]
    <2>1. ~Dying(calls[c], j) /\ ~Checks(calls[c], j)
      BY <1>1, <1>5 DEF Dying, Checks
    <2>2. SameHalves(j)
      BY <1>1, <1>2, <2>1, IdleHalves, NewHalves DEF IInv, Shape
    <2> QED BY <1>1, <1>5, <2>2 DEF IInv, Shape
  <1>6. ASSUME k \in Keys \ astray' PROVE Agrees(k)'
    <2>1. Dying(calls[c], k) /\ k \in Keys \ astray
      BY <1>1, <1>6 DEF Dying, IInv, Shape, CallsShape, WellFormed
    <2>2. data[k] = Absent /\ meant[k] = NoDeadline /\ expiry'[k] = NoDeadline
      BY <1>1, <2>1 DEF IInv, Shape, Agrees
    <2>3. \A d \in Clients : ~Checks(calls'[d], k)
      BY <1>3, <2>1, <2>2, IdleHalves DEF IInv, Agrees
    <2> QED BY <1>1, <2>2, <2>3 DEF Agrees
  <1> QED BY <1>1, <1>4, <1>5, <1>6, OneKey

\* The key EXPIRE has found is there.
LEMMA CheckKeyIInv ==
    ASSUME IInv, NEW c \in Clients, NEW k \in Keys, NEW ttl \in TTLs, CheckKey(c, k, ttl)
    PROVE  IInv'
  <1> PICK new : new = [phase |-> "checked", key |-> k, deadline |-> now + ttl]
    OBVIOUS
  <1>1. /\ calls[c] = Idle /\ data[k] # Absent /\ called' \in Nat
        /\ calls' = [calls EXCEPT ![c] = new]
        /\ UNCHANGED <<data, expiry, meant, astray>>
    BY DEF CheckKey, Begins, IInv, Shape
  <1>2. /\ WellFormed(new) /\ Checks(new, k)
        /\ \A j \in Keys : ~Dying(new, j) /\ (j # k => ~Checks(new, j))
    BY DEF WellFormed, Dying, Checks
  <1>3. CallsShape' /\ calls'[c] = new /\ \A d \in Clients : d # c => calls'[d] = calls[d]
    BY <1>1, <1>2, NewCall DEF IInv, Shape
  <1>4. Shape'
    BY <1>1, <1>3 DEF IInv, Shape
  <1>5. ASSUME NEW j \in Keys, j # k PROVE SameHalves(j)
    BY <1>1, <1>2, <1>5, IdleHalves, NewHalves DEF IInv, Shape
  <1>6. ASSUME k \notin astray' PROVE Agrees(k)'
    <2>1. Agrees(k) /\ ~Dying(calls[c], k)
      BY <1>1, <1>6, IdleHalves DEF IInv
    <2>2. \A d \in Clients : Dying(calls'[d], k) <=> Dying(calls[d], k)
      BY <1>2, <1>3, <2>1
    <2> QED BY <1>1, <2>1, <2>2 DEF Agrees
  <1> QED BY <1>1, <1>4, <1>5, <1>6, OneKey

\* No deletion was half-way, so the deadline is set for the value found.
LEMMA SetDeadlineIInv ==
    ASSUME IInv, NEW c \in Clients, SetDeadline(c) PROVE IInv'
  <1> PICK k, deadline : k = calls[c].key /\ deadline = calls[c].deadline
    OBVIOUS
  <1>1. /\ calls[c].phase = "checked" /\ calls' = [calls EXCEPT ![c] = Idle]
        /\ expiry' = [expiry EXCEPT ![k] = deadline]
        /\ meant' = [meant EXCEPT ![k] = IF data[k] = Absent THEN @ ELSE deadline]
        /\ Notes(Clients \ {c}, {k})
        /\ called' = called /\ data' = data
    BY DEF SetDeadline
  <1>2. WellFormed(Idle)
    BY DEF WellFormed, Idle
  <1>3. CallsShape' /\ calls'[c] = Idle /\ \A d \in Clients : d # c => calls'[d] = calls[d]
    BY <1>1, <1>2, NewCall DEF IInv, Shape
  <1>4. Shape'
    BY <1>1, <1>3 DEF IInv, Shape
  <1>5. ASSUME NEW j \in Keys, j # k
        PROVE  SameHalves(j) /\ expiry'[j] = expiry[j] /\ meant'[j] = meant[j]
    <2>1. ~Dying(calls[c], j) /\ ~Checks(calls[c], j)
      BY <1>1, <1>5 DEF Dying, Checks
    <2>2. SameHalves(j)
      BY <1>1, <1>2, <2>1, IdleHalves, NewHalves DEF IInv, Shape
    <2> QED BY <1>1, <1>5, <2>2 DEF IInv, Shape
  <1>6. ASSUME k \in Keys \ astray' PROVE Agrees(k)'
    <2>1. k \notin astray /\ Checks(calls[c], k)
      BY <1>1, <1>6, NotedUnless DEF Checks
    <2>2. data[k] # Absent
      BY <1>6, <2>1 DEF IInv, Agrees
    <2>3. expiry'[k] = deadline /\ meant'[k] = deadline
      BY <1>1, <1>6, <2>2 DEF IInv, Shape
    <2>4. \A d \in Clients : ~Dying(calls'[d], k)
      BY <1>1, <1>3, <1>6, NotedUnless, HalvesAreHalfWay, IdleHalves
    <2> QED BY <1>1, <2>2, <2>3, <2>4 DEF Agrees
  <1> QED BY <1>1, <1>4, <1>5, <1>6, AstrayGrows, OneKey

\* PERSIST takes the deadline that is there.
LEMMA RemoveExpiryIInv ==
    ASSUME IInv, NEW c \in Clients, NEW k \in Keys, RemoveExpiry(c, k) PROVE IInv'
  <1>1. /\ calls[c] = Idle /\ calls' = calls /\ data' = data
        /\ expiry' = [expiry EXCEPT ![k] = NoDeadline]
        /\ meant' = [meant EXCEPT ![k] = NoDeadline]
        /\ Notes(Clients \ {c}, {k})
        /\ called' \in Nat
    BY DEF RemoveExpiry, Begins, IInv, Shape
  <1>2. Shape'
    BY <1>1 DEF IInv, Shape, CallsShape, WellFormed
  <1>3. \A j \in Keys : SameHalves(j)
    BY <1>1 DEF SameHalves, Dying, Checks
  <1>4. ASSUME k \notin astray' PROVE Agrees(k)'
    <2>1. expiry'[k] = NoDeadline /\ meant'[k] = NoDeadline
      BY <1>1 DEF IInv, Shape
    <2>2. \A d \in Clients : ~HalfWay(calls[d], k)
      BY <1>1, <1>4, NotedUnless, IdleHalves
    <2>3. \A d \in Clients : ~Dying(calls'[d], k) /\ ~Checks(calls'[d], k)
      BY <1>1, <2>2, HalvesAreHalfWay
    <2> QED BY <2>1, <2>3 DEF Agrees
  <1>5. \A j \in Keys : j # k => expiry'[j] = expiry[j] /\ meant'[j] = meant[j]
    BY <1>1 DEF IInv, Shape
  <1> QED BY <1>1, <1>2, <1>3, <1>4, <1>5, AstrayGrows, OneKey

-----------------------------------------------------------------------------
\* FLUSHALL is half-way through every key.
LEMMA ClearDataIInv ==
    ASSUME IInv, NEW c \in Clients, ClearData(c) PROVE IInv'
  <1> PICK new : new = [phase |-> "clearExpiry"]
    OBVIOUS
  <1>1. /\ calls[c] = Idle /\ calls' = [calls EXCEPT ![c] = new]
        /\ data' = [k \in Keys |-> Absent] /\ meant' = [k \in Keys |-> NoDeadline]
        /\ Notes(Clients \ {c}, Keys) /\ called' \in Nat /\ expiry' = expiry
    BY DEF ClearData, Begins, IInv, Shape
  <1>2. WellFormed(new) /\ \A k \in Keys : Dying(new, k) /\ ~Checks(new, k)
    BY DEF WellFormed, Dying, Checks
  <1>3. CallsShape' /\ calls'[c] = new /\ \A d \in Clients : d # c => calls'[d] = calls[d]
    BY <1>1, <1>2, NewCall DEF IInv, Shape
  <1>4. Shape'
    BY <1>1, <1>3 DEF IInv, Shape
  <1>5. ASSUME NEW k \in Keys, k \notin astray' PROVE Agrees(k)'
    <2>1. \A d \in Clients : ~Checks(calls'[d], k)
      BY <1>1, <1>2, <1>3, <1>5, NotedUnless, HalvesAreHalfWay
    <2>2. Dying(calls'[c], k)
      BY <1>2, <1>3
    <2> QED BY <1>1, <2>1, <2>2 DEF Agrees
  <1> QED BY <1>4, <1>5 DEF IInv

\* With the data gone, the deadlines go.
LEMMA ClearExpiryIInv ==
    ASSUME IInv, NEW c \in Clients, ClearExpiry(c) PROVE IInv'
  <1> PICK new : new = [phase |-> "clearCounts"]
    OBVIOUS
  <1>1. /\ calls[c].phase = "clearExpiry" /\ calls' = [calls EXCEPT ![c] = new]
        /\ expiry' = [k \in Keys |-> NoDeadline]
        /\ called' = called /\ UNCHANGED <<data, meant, astray>>
    BY DEF ClearExpiry
  <1>2. WellFormed(new) /\ \A k \in Keys : ~Dying(new, k) /\ ~Checks(new, k)
    BY DEF WellFormed, Dying, Checks
  <1>3. CallsShape' /\ calls'[c] = new /\ \A d \in Clients : d # c => calls'[d] = calls[d]
    BY <1>1, <1>2, NewCall DEF IInv, Shape
  <1>4. Shape'
    BY <1>1, <1>3 DEF IInv, Shape
  <1>5. ASSUME NEW k \in Keys, k \notin astray' PROVE Agrees(k)'
    <2>1. Agrees(k) /\ Dying(calls[c], k)
      BY <1>1, <1>5 DEF IInv, Dying
    <2>2. data[k] = Absent /\ meant[k] = NoDeadline /\ \A d \in Clients : ~Checks(calls[d], k)
      BY <2>1 DEF Agrees
    <2>3. \A d \in Clients : ~Checks(calls'[d], k)
      BY <1>2, <1>3, <2>2
    <2> QED BY <1>1, <2>2, <2>3 DEF Agrees
  <1> QED BY <1>4, <1>5 DEF IInv

\* The counters are not in it.
LEMMA ClearCountsIInv ==
    ASSUME IInv, NEW c \in Clients, ClearCounts(c) PROVE IInv'
  <1>1. /\ calls[c].phase = "clearCounts" /\ calls' = [calls EXCEPT ![c] = Idle]
        /\ called' = called /\ UNCHANGED <<data, expiry, meant, astray>>
    BY DEF ClearCounts
  <1>2. WellFormed(Idle) /\ \A k \in Keys : ~Dying(calls[c], k) /\ ~Checks(calls[c], k)
    BY <1>1 DEF WellFormed, Idle, Dying, Checks
  <1>3. CallsShape'
    BY <1>1, <1>2, NewCall DEF IInv, Shape
  <1>4. ASSUME NEW k \in Keys PROVE SameHalves(k)
    BY <1>1, <1>2, IdleHalves, NewHalves DEF IInv, Shape
  <1> QED BY <1>1, <1>3, <1>4, NoKey DEF IInv, Shape

-----------------------------------------------------------------------------
\* What a connection does.
LEMMA CommandIInv ==
    ASSUME IInv, NEW c \in Clients, Command(c) PROVE IInv'
  <1>1. CASE \E k \in Keys, size \in Sizes :
               \/ \E condition \in {"", "NX", "XX"} : Set(c, k, condition, size)
               \/ GetSet(c, k, size) \/ IncrBy(c, k, size) \/ HSet(c, k, size)
    BY <1>1, SetIInv
  <1>2. ASSUME NEW k \in Keys, HDel(c, k) PROVE IInv'
    BY <1>2, RewriteIInv DEF HDel
  <1>3. CASE \E k \in Keys : Delete(c, k) \/ DeleteWithHLC(c, k)
    BY <1>3, RemoveKeyIInv
  <1>4. CASE \E k \in Keys : HDelLast(c, k)
    BY <1>4, HDelLastIInv
  <1>5. CASE \E k \in Keys, ttl \in TTLs : CheckKey(c, k, ttl)
    BY <1>5, CheckKeyIInv
  <1>6. CASE \E k \in Keys : RemoveExpiry(c, k)
    BY <1>6, RemoveExpiryIInv
  <1>7. CASE Account(c) \/ RemoveDeadline(c) \/ SetDeadline(c)
    BY <1>7, AccountIInv, RemoveDeadlineIInv, SetDeadlineIInv
  <1>8. CASE ClearData(c) \/ ClearExpiry(c) \/ ClearCounts(c)
    BY <1>8, ClearDataIInv, ClearExpiryIInv, ClearCountsIInv
  <1> QED BY <1>1, <1>2, <1>3, <1>4, <1>5, <1>6, <1>7, <1>8 DEF Command

\* The check and the deletion of a reaped key are one critical section, but
\* for the half-way commands that are noted.
LEMMA DeleteExpiredIInv ==
    ASSUME IInv, NEW k, DeleteExpired(k), UNCHANGED <<calls, called>> PROVE IInv'
  <1>1. CallsShape' /\ called' \in Nat /\ \A j \in Keys : SameHalves(j)
    BY DEF IInv, Shape, CallsShape, WellFormed, SameHalves, Dying, Checks
  <1>2. CASE StillExpired(k)
    <2>1. /\ data' = [data EXCEPT ![k] = Absent]
          /\ expiry' = [expiry EXCEPT ![k] = NoDeadline]
          /\ meant' = [meant EXCEPT ![k] = NoDeadline]
          /\ Notes(Clients, {k})
      BY <1>2 DEF DeleteExpired
    <2>2. Shape'
      BY <1>1, <2>1 DEF IInv, Shape
    <2>3. ASSUME k \in Keys \ astray' PROVE Agrees(k)'
      <3>1. /\ data'[k] = Absent /\ expiry'[k] = NoDeadline /\ meant'[k] = NoDeadline
        BY <2>1, <2>3 DEF IInv, Shape
      <3>2. \A d \in Clients : ~Checks(calls'[d], k)
        BY <2>1, <2>3, NotedUnless, HalvesAreHalfWay
      <3> QED BY <3>1, <3>2 DEF Agrees
    <2>4. \A j \in Keys : j # k => /\ data'[j] = data[j] /\ expiry'[j] = expiry[j]
                                  /\ meant'[j] = meant[j]
      BY <2>1 DEF IInv, Shape
    <2> QED BY <1>1, <2>1, <2>2, <2>3, <2>4, AstrayGrows, OneKey
  <1>3. CASE ~StillExpired(k)
    BY <1>1, <1>3, NoKey DEF DeleteExpired
  <1> QED BY <1>2, <1>3

\* What the store's own goroutines do, and the clock.
LEMMA BackgroundIInv ==
    ASSUME IInv, \/ Scan \/ \E k \in Keys : QueueExpiredDeletion(k)
                 \/ Reap \/ FlushMetrics \/ Tick \/ UNCHANGED vars
    PROVE  IInv'
  <1>1. CASE Reap
    BY <1>1, DeleteExpiredIInv DEF Reap, ReapQueued, ReapDirectly
  <1>2. CASE ~Reap
    <2>1. UNCHANGED <<data, expiry, meant, astray, calls, called>>
      BY <1>2 DEF Scan, QueueExpiredDeletion, FlushMetrics, Tick, vars
    <2>2. CallsShape' /\ called' \in Nat /\ \A k \in Keys : SameHalves(k)
      BY <2>1 DEF IInv, Shape, CallsShape, WellFormed, SameHalves, Dying, Checks
    <2> QED BY <2>1, <2>2, NoKey
  <1> QED BY <1>1, <1>2

\* At first there is nothing, and nothing is half-way.
LEMMA InitIInv == Init => IInv
  <1> SUFFICES ASSUME Init PROVE IInv
    OBVIOUS
  <1>1. Shape
    BY DEF Init, Shape, CallsShape, WellFormed, Idle
  <1>2. ASSUME NEW k \in Keys PROVE Agrees(k)
    BY IdleHalves DEF Init, Agrees
  <1> QED BY <1>1, <1>2 DEF IInv

(***************************************************************************)
(* In every state deadlines go with values, but where a deletion is        *)
(* half-way (the two locks of store.go:399-423, 440-480) and for the keys  *)
(* the history notes.                                                      *)
(***************************************************************************)
THEOREM Invariance == Spec => []IInv
  <1>1. ASSUME IInv, [Next]_vars PROVE IInv'
    BY <1>1, CommandIInv, BackgroundIInv DEF Next
  <1> QED BY <1>1, InitIInv, PTL DEF Spec

(***************************************************************************)
(* With all commands over, every value has the deadline it was given last, *)
(* and a deadline has a value (string_operations.go:139-149, 220-225).     *)
(***************************************************************************)
THEOREM DeadlinesAreTrue == Spec => []DeadlinesFollowValues
  <1>1. ASSUME IInv PROVE DeadlinesFollowValues
    <2>1. ASSUME Settled, NEW k \in Keys \ astray PROVE expiry[k] = meant[k]
      <3>1. \A c \in Clients : ~Dying(calls[c], k)
        BY <2>1, IdleHalves DEF Settled
      <3> QED BY <1>1, <2>1, <3>1 DEF IInv, Agrees
    <2> QED BY <2>1 DEF DeadlinesFollowValues
  <1> QED BY <1>1, Invariance, PTL

\* A command either begins, or takes no value.
LEMMA CommandsBegin ==
    ASSUME IInv, NEW c \in Clients, Command(c), called' = called PROVE data' = data
  <1>1. ~Begins(c)
    BY DEF Begins, IInv, Shape
  <1>2. Account(c) \/ RemoveDeadline(c) \/ SetDeadline(c) \/ ClearExpiry(c) \/ ClearCounts(c)
    <2>1. ASSUME NEW k, NEW size, NEW deadline, NEW given,
                 Store(c, k, size, deadline, given)
          PROVE  FALSE
      BY <1>1, <2>1 DEF Store
    <2>2. ASSUME NEW k, NEW size, NEW condition, Set(c, k, condition, size) PROVE FALSE
      BY <2>1, <2>2 DEF Set, Write
    <2>3. ASSUME NEW k, NEW size, GetSet(c, k, size) \/ IncrBy(c, k, size) \/ HSet(c, k, size)
          PROVE  FALSE
      BY <2>1, <2>3 DEF GetSet, IncrBy, HSet, Write, Rewrite
    <2>4. ASSUME NEW k, Delete(c, k) \/ DeleteWithHLC(c, k) \/ HDel(c, k) \/ HDelLast(c, k)
          PROVE  FALSE
      BY <1>1, <2>1, <2>4 DEF Delete, DeleteWithHLC, RemoveKey, HDel, Rewrite, HDelLast
    <2>5. ASSUME NEW k, RemoveExpiry(c, k) \/ \E ttl \in TTLs : CheckKey(c, k, ttl)
          PROVE  FALSE
      BY <1>1, <2>5 DEF CheckKey, RemoveExpiry
    <2>6. ~ClearData(c)
      BY <1>1 DEF ClearData
    <2> QED BY <2>2, <2>3, <2>4, <2>5, <2>6 DEF Command
  <1> QED BY <1>2 DEF Account, RemoveDeadline, SetDeadline, ClearExpiry, ClearCounts

(***************************************************************************)
(* A value the cleaner takes is past the deadline the commands gave it,    *)
(* however long the key has been in the queue (expiry_batch.go:150-210).   *)
(***************************************************************************)
THEOREM ReapsAreDue == Spec => ReapedOnlyWhenDue
  <1>1. ASSUME IInv, Next, NEW k \in Keys, data[k] # Absent, data'[k] = Absent,
               UNCHANGED <<calls, called>>, k \notin astray
        PROVE  meant[k] # NoDeadline /\ now > meant[k]
    <2>1. Reap
      BY <1>1, CommandsBegin DEF Next, Scan, QueueExpiredDeletion, FlushMetrics, Tick
    <2>2. PICK j : DeleteExpired(j)
      BY <2>1 DEF Reap, ReapQueued, ReapDirectly
    <2>3. StillExpired(j) /\ data' = [data EXCEPT ![j] = Absent]
      BY <1>1, <2>2 DEF DeleteExpired
    <2>4. j = k
      BY <1>1, <2>3 DEF IInv, Shape
    <2>5. Agrees(k) /\ \A c \in Clients : ~Dying(calls[c], k)
      BY <1>1 DEF IInv, Agrees
    <2> QED BY <2>3, <2>4, <2>5 DEF Agrees, StillExpired, Due
  <1>2. ASSUME IInv, [Next]_vars
        PROVE  [\A k \in Keys :
                  (/\ data[k] # Absent /\ data'[k] = Absent
                   /\ UNCHANGED <<calls, called>>
                   /\ k \notin astray)
                  => (meant[k] # NoDeadline /\ now > meant[k])]_vars
    BY <1>1, <1>2
  <1> QED BY <1>2, Invariance, PTL DEF Spec, ReapedOnlyWhenDue


-----------------------------------------------------------------------------
(***************************************************************************)
(* Sums, as cardinalities: the numbers above 0 less those below.  S may be *)
(* infinite, as long as only finitely many of its members count.           *)
(***************************************************************************)
Units(x, n) == {x} \X (1 .. n)

Above(S, f) == UNION {Units(x, f[x]) : x \in S}
Below(S, f) == UNION {Units(x, -f[x]) : x \in S}

Summable(S, f) == IsFiniteSet(Above(S, f)) /\ IsFiniteSet(Below(S, f))

Sum(S, f) == Cardinality(Above(S, f)) - Cardinality(Below(S, f))

AtLeast0(n) == IF n > 0 THEN n ELSE 0

\* A number has as many units.
LEMMA UnitsOf ==
    ASSUME NEW x, NEW n \in Int
    PROVE  IsFiniteSet(Units(x, n)) /\ Cardinality(Units(x, n)) = AtLeast0(n)
  <1>1. /\ IsFiniteSet(1 .. n)
        /\ Cardinality(1 .. n) = IF 1 > n THEN 0 ELSE n - 1 + 1
    BY FS_Interval
  <1>2. Cardinality(1 .. n) = AtLeast0(n)
    BY <1>1 DEF AtLeast0
  <1>3. IsFiniteSet({x}) /\ Cardinality({x}) = 1
    BY FS_Singleton
  <1>4. /\ IsFiniteSet({x} \X (1 .. n))
        /\ Cardinality({x} \X (1 .. n)) = 1 * Cardinality(1 .. n)
    BY <1>1, <1>3, FS_Product
  <1>5. AtLeast0(n) \in Int
    BY DEF AtLeast0
  <1> QED BY <1>2, <1>4, <1>5 DEF Units

\* One number of many.
LEMMA OneAbove ==
    ASSUME NEW S, NEW x \in S, NEW f, f[x] \in Int, IsFiniteSet(Above(S, f))
    PROVE  /\ IsFiniteSet(Above(S \ {x}, f))
           /\ Cardinality(Above(S, f)) = Cardinality(Above(S \ {x}, f)) + AtLeast0(f[x])
  <1> PICK rest, own : rest = Above(S \ {x}, f) /\ own = Units(x, f[x])
    OBVIOUS
  <1>1. Above(S, f) = rest \cup own
    BY DEF Above
  <1>2. rest \cap own = {}
    BY DEF Above, Units
  <1>3. IsFiniteSet(rest)
    BY <1>1, FS_Subset
  <1>4. IsFiniteSet(own) /\ Cardinality(own) = AtLeast0(f[x])
    BY UnitsOf
  <1>5. /\ Cardinality(rest \cup own)
             = Cardinality(rest) + Cardinality(own) - Cardinality(rest \cap own)
    BY <1>3, <1>4, FS_Union
  <1>6. Cardinality(rest) \in Int /\ Cardinality(own) \in Int
    BY <1>3, <1>4, FS_CardinalityType
  <1>7. Cardinality(rest \cap own) = 0
    BY <1>2, FS_EmptySet, Zenon
  <1>8. Cardinality(rest \cup own) = Cardinality(rest) + Cardinality(own)
    BY <1>5, <1>6, <1>7
  <1> QED BY <1>1, <1>3, <1>4, <1>8

\* And the other way.
LEMMA OneAboveBack ==
    ASSUME NEW S, NEW x \in S, NEW f, f[x] \in Int, IsFiniteSet(Above(S \ {x}, f))
    PROVE  IsFiniteSet(Above(S, f))
  <1> PICK rest, own : rest = Above(S \ {x}, f) /\ own = Units(x, f[x])
    OBVIOUS
  <1>1. Above(S, f) = rest \cup own
    BY DEF Above
  <1>2. IsFiniteSet(own)
    BY UnitsOf
  <1> QED BY <1>1, <1>2, FS_Union

\* Functions that agree have the same units.
LEMMA SameAbove ==
    ASSUME NEW S, NEW f, NEW g, \A x \in S : f[x] = g[x]
    PROVE  Above(S, f) = Above(S, g) /\ Below(S, f) = Below(S, g)
  BY DEF Above, Below

\* What one number changes.
LEMMA AboveChanges ==
    ASSUME NEW S, NEW x \in S, NEW f, NEW g, f[x] \in Int, g[x] \in Int,
           \A y \in S \ {x} : f[y] = g[y], IsFiniteSet(Above(S, f))
    PROVE  /\ IsFiniteSet(Above(S, g))
           /\ Cardinality(Above(S, g))
                = Cardinality(Above(S, f)) - AtLeast0(f[x]) + AtLeast0(g[x])
  <1>1. /\ IsFiniteSet(Above(S \ {x}, f))
        /\ Cardinality(Above(S, f)) = Cardinality(Above(S \ {x}, f)) + AtLeast0(f[x])
    BY OneAbove
  <1>2. Above(S \ {x}, f) = Above(S \ {x}, g)
    BY SameAbove
  <1>3. IsFiniteSet(Above(S, g))
    BY <1>1, <1>2, OneAboveBack
  <1>4. Cardinality(Above(S, g)) = Cardinality(Above(S \ {x}, g)) + AtLeast0(g[x])
    BY <1>3, OneAbove
  <1>5. AtLeast0(f[x]) \in Int /\ AtLeast0(g[x]) \in Int
    BY DEF AtLeast0
  <1>6. Cardinality(Above(S \ {x}, f)) \in Int
    BY <1>1, FS_CardinalityType
  <1> QED BY <1>1, <1>2, <1>3, <1>4, <1>5, <1>6

\* A sum moves by what one of its numbers moves.
LEMMA SumChanges ==
    ASSUME NEW S, NEW x \in S, NEW f, NEW g, f[x] \in Int, g[x] \in Int,
           \A y \in S \ {x} : f[y] = g[y], Summable(S, f)
    PROVE  /\ Summable(S, g) /\ Sum(S, f) \in Int /\ Sum(S, g) \in Int
           /\ Sum(S, g) = Sum(S, f) - f[x] + g[x]
  <1> PICK down, lower : /\ down = [y \in S |-> -f[y]] /\ lower = [y \in S |-> -g[y]]
    OBVIOUS
  <1>1. Below(S, f) = Above(S, down) /\ Below(S, g) = Above(S, lower)
    BY DEF Above, Below
  <1>2. /\ IsFiniteSet(Above(S, f)) /\ IsFiniteSet(Above(S, down))
    BY <1>1 DEF Summable
  <1>3. /\ IsFiniteSet(Above(S, g))
        /\ Cardinality(Above(S, g))
             = Cardinality(Above(S, f)) - AtLeast0(f[x]) + AtLeast0(g[x])
    BY <1>2, AboveChanges
  <1>4. /\ down[x] = -f[x] /\ lower[x] = -g[x]
        /\ \A y \in S \ {x} : down[y] = lower[y]
    OBVIOUS
  <1>5. /\ IsFiniteSet(Above(S, lower))
        /\ Cardinality(Above(S, lower))
             = Cardinality(Above(S, down)) - AtLeast0(-f[x]) + AtLeast0(-g[x])
    BY <1>2, <1>4, AboveChanges
  <1>6. \A n \in Int : AtLeast0(n) \in Int /\ AtLeast0(n) - AtLeast0(-n) = n
    BY DEF AtLeast0
  <1>7. /\ Cardinality(Above(S, f)) \in Int /\ Cardinality(Above(S, down)) \in Int
    BY <1>2, FS_CardinalityType
  <1>8. /\ AtLeast0(f[x]) - AtLeast0(-f[x]) = f[x] /\ AtLeast0(g[x]) - AtLeast0(-g[x]) = g[x]
        /\ {AtLeast0(f[x]), AtLeast0(-f[x]), AtLeast0(g[x]), AtLeast0(-g[x])} \subseteq Int
    BY <1>6
  <1> QED BY <1>1, <1>3, <1>5, <1>7, <1>8 DEF Sum, Summable

\* Nothing, summed.
LEMMA SumOfNothing ==
    ASSUME NEW S, NEW f, \A x \in S : f[x] = 0
    PROVE  Summable(S, f) /\ Sum(S, f) = 0
  <1>1. \A x : Units(x, 0) = {} /\ Units(x, -0) = {}
    BY DEF Units
  <1>2. Above(S, f) = {} /\ Below(S, f) = {}
    BY <1>1 DEF Above, Below
  <1> QED BY <1>2, FS_EmptySet DEF Summable, Sum


\* Sums are integers.
LEMMA SumIsInt == ASSUME NEW S, NEW f, Summable(S, f) PROVE Sum(S, f) \in Int
  BY FS_CardinalityType DEF Summable, Sum

-----------------------------------------------------------------------------
(***************************************************************************)
(* The counters at every moment: what they show, what the processor has    *)
(* pending and what commands still owe make up what the map holds, less    *)
(* the name of each key reaped.  While a FLUSHALL is half-way nothing is   *)
(* held, pending or owed, and the counters show anything.                  *)
(***************************************************************************)
Amounts == [keys : Int, memory : Int]

OwedBy(call) == IF call.phase = "account" THEN call.delta ELSE Zero

OwedKeys == [c \in Clients |-> OwedBy(calls[c]).keys]
OwedMemory == [c \in Clients |-> OwedBy(calls[c]).memory]

KeysOwed == Sum(Clients, OwedKeys)
MemoryOwed == Sum(Clients, OwedMemory)
Held == Sum(Keys, data)

CallsCounted == /\ DOMAIN calls = Clients
                /\ \A c \in Clients : OwedBy(calls[c]) \in Amounts
                /\ Summable(Clients, OwedKeys) /\ Summable(Clients, OwedMemory)

DataCounted == /\ data \in [Keys -> Nat]
               /\ \A k \in hashes : k \in Keys /\ data[k] # Absent
               /\ IsFiniteSet(Present) /\ Summable(Keys, data)

CountersCounted == {counts, pending} \subseteq Amounts /\ reaped \in Nat

Balanced ==
    /\ counts.keys + pending.keys + KeysOwed = Cardinality(Present)
    /\ counts.memory + pending.memory + MemoryOwed = Held - KeyLen * reaped

Clears(call) == call.phase \in {"clearExpiry", "clearCounts"}

Emptied == /\ \A k \in Keys : data[k] = Absent
           /\ pending = Zero
           /\ \A c \in Clients : calls[c].phase # "account"
           /\ \A c, d \in Clients : Clears(calls[c]) /\ Clears(calls[d]) => c = d

CInv == /\ CallsCounted /\ DataCounted /\ CountersCounted
        /\ ~cleared => IF Clearing THEN Emptied ELSE Balanced

-----------------------------------------------------------------------------
\* One value, moved.
Moved(old, new) == [keys   |-> (IF new = Absent THEN 0 ELSE 1)
                                 - (IF old = Absent THEN 0 ELSE 1),
                    memory |-> new - old]

\* What a value of another size adds to what is held.
LEMMA ValueHeld ==
    ASSUME DataCounted, NEW k \in Keys, NEW n \in Nat, data' = [data EXCEPT ![k] = n]
    PROVE  /\ data' \in [Keys -> Nat] /\ data'[k] = n
           /\ \A j \in Keys : j # k => data'[j] = data[j]
           /\ IsFiniteSet(Present') /\ Summable(Keys, data')
           /\ Held' = Held + Moved(data[k], n).memory
           /\ Cardinality(Present') = Cardinality(Present) + Moved(data[k], n).keys
  <1>1. /\ data' \in [Keys -> Nat] /\ data'[k] = n /\ data[k] \in Nat
        /\ \A j \in Keys : j # k => data'[j] = data[j]
    BY DEF DataCounted
  <1>2. /\ Summable(Keys, data') /\ Held \in Int
        /\ Held' = Held - data[k] + n
    <2>1. PICK f, g : f = data /\ g = data'
      OBVIOUS
    <2>2. f[k] \in Int /\ g[k] \in Int /\ Summable(Keys, f)
      BY <1>1, <2>1 DEF DataCounted
    <2>3. \A j \in Keys \ {k} : f[j] = g[j]
      BY <1>1, <2>1
    <2>4. /\ Summable(Keys, g) /\ Sum(Keys, f) \in Int
          /\ Sum(Keys, g) = Sum(Keys, f) - f[k] + g[k]
      BY <2>2, <2>3, SumChanges
    <2> QED BY <1>1, <2>1, <2>4 DEF Held
  <1>3. IsFiniteSet(Present') /\ Cardinality(Present') = Cardinality(Present) + Moved(data[k], n).keys
    <2>1. IsFiniteSet(Present) /\ Cardinality(Present) \in Nat
      BY FS_CardinalityType DEF DataCounted
    <2>2. k \in Present <=> data[k] # Absent
      BY DEF Present
    <2>3. CASE n = Absent
      <3>1. Present' = Present \ {k}
        BY <1>1, <2>3 DEF Present
      <3> QED BY <2>1, <2>2, <2>3, <3>1, FS_RemoveElement DEF Moved
    <2>4. CASE n # Absent
      <3>1. Present' = Present \cup {k}
        BY <1>1, <2>4 DEF Present
      <3> QED BY <2>1, <2>2, <2>4, <3>1, FS_AddElement DEF Moved
    <2> QED BY <2>3, <2>4
  <1> QED BY <1>1, <1>2, <1>3 DEF Moved

\* What a connection owes, after a step of its call.
LEMMA CallOwes ==
    ASSUME CallsCounted, NEW c \in Clients, NEW new, OwedBy(new) \in Amounts,
           calls' = [calls EXCEPT ![c] = new]
    PROVE  /\ CallsCounted' /\ calls'[c] = new
           /\ \A d \in Clients : d # c => calls'[d] = calls[d]
           /\ KeysOwed' = KeysOwed - OwedBy(calls[c]).keys + OwedBy(new).keys
           /\ MemoryOwed' = MemoryOwed - OwedBy(calls[c]).memory + OwedBy(new).memory
  <1>1. /\ DOMAIN calls' = Clients /\ calls'[c] = new
        /\ \A d \in Clients : d # c => calls'[d] = calls[d]
    BY DEF CallsCounted
  <1>2. ASSUME NEW d \in Clients PROVE OwedBy(calls'[d]) \in Amounts
    BY <1>1 DEF CallsCounted
  <1> PICK was, is : was = OwedBy(calls[c]) /\ is = OwedBy(new)
    OBVIOUS
  <1>3. {was.keys, was.memory, is.keys, is.memory} \subseteq Int
    <2>1. was \in Amounts /\ is \in Amounts
      BY DEF CallsCounted
    <2> QED BY <2>1 DEF Amounts
  <1> PICK k1, k2, m1, m2 : /\ k1 = OwedKeys /\ k2 = OwedKeys'
                           /\ m1 = OwedMemory /\ m2 = OwedMemory'
    OBVIOUS
  <1>4. /\ k1[c] = was.keys /\ k2[c] = is.keys
        /\ m1[c] = was.memory /\ m2[c] = is.memory
        /\ \A d \in Clients \ {c} : k1[d] = k2[d] /\ m1[d] = m2[d]
    BY <1>1 DEF OwedKeys, OwedMemory
  <1>5. Summable(Clients, k1) /\ Summable(Clients, m1)
    BY DEF CallsCounted
  <1>6. Summable(Clients, k2) /\ Sum(Clients, k2) = Sum(Clients, k1) - was.keys + is.keys
    BY <1>3, <1>4, <1>5, SumChanges
  <1>7. Summable(Clients, m2) /\ Sum(Clients, m2) = Sum(Clients, m1) - was.memory + is.memory
    BY <1>3, <1>4, <1>5, SumChanges
  <1>8. CallsCounted'
    BY <1>1, <1>2, <1>6, <1>7 DEF CallsCounted
  <1> QED BY <1>1, <1>6, <1>7, <1>8 DEF KeysOwed, MemoryOwed

\* All that is added up are integers.
LEMMA AllInts ==
    ASSUME CInv
    PROVE  /\ {counts.keys, counts.memory, pending.keys, pending.memory} \subseteq Int
           /\ {KeysOwed, MemoryOwed, Held, KeyLen * reaped} \subseteq Int
           /\ Cardinality(Present) \in Int
  <1>1. {counts.keys, counts.memory, pending.keys, pending.memory} \subseteq Int
    BY DEF CInv, CountersCounted, Amounts
  <1>2. {KeysOwed, MemoryOwed, Held} \subseteq Int
    BY SumIsInt DEF CInv, CallsCounted, DataCounted, KeysOwed, MemoryOwed, Held
  <1>3. KeyLen * reaped \in Int
    BY LengthsAssumption DEF CInv, CountersCounted
  <1>4. Cardinality(Present) \in Int
    BY FS_CardinalityType DEF CInv, DataCounted
  <1> QED BY <1>1, <1>2, <1>3, <1>4

\* An idle connection owes nothing and clears nothing.
LEMMA IdleOwes == OwedBy(Idle) = Zero /\ ~Clears(Idle) /\ Zero \in Amounts
  BY DEF OwedBy, Idle, Clears, Zero, Amounts


(***************************************************************************)
(* A step that gives k a value of size n (none, for Absent), and moves the *)
(* counters, what is pending or what is owed by what that adds.            *)
(***************************************************************************)
Accounts(k, n) ==
    /\ counts'.keys + pending'.keys + KeysOwed'
         = counts.keys + pending.keys + KeysOwed + Moved(data[k], n).keys
    /\ counts'.memory + pending'.memory + MemoryOwed' + KeyLen * reaped'
         = counts.memory + pending.memory + MemoryOwed + KeyLen * reaped
             + Moved(data[k], n).memory

LEMMA ValueCInv ==
    ASSUME CInv, NEW k \in Keys, NEW n \in Nat, data' = [data EXCEPT ![k] = n],
           \A j \in hashes' : j \in hashes \ {k} \/ (j = k /\ n # Absent),
           CallsCounted', CountersCounted', Accounts(k, n),
           cleared' = (cleared \/ Clearing), ~Clearing => ~Clearing'
    PROVE  CInv'
  <1>1. /\ data' \in [Keys -> Nat] /\ data'[k] = n
        /\ \A j \in Keys : j # k => data'[j] = data[j]
        /\ IsFiniteSet(Present') /\ Summable(Keys, data')
        /\ Held' = Held + Moved(data[k], n).memory
        /\ Cardinality(Present') = Cardinality(Present) + Moved(data[k], n).keys
    BY ValueHeld DEF CInv
  <1>2. DataCounted'
    BY <1>1 DEF DataCounted, CInv
  <1>3. ASSUME ~cleared' PROVE ~Clearing' /\ Balanced'
    <2>1. ~Clearing /\ Balanced
      BY <1>3 DEF CInv
    <2>2. {Moved(data[k], n).keys, Moved(data[k], n).memory} \subseteq Int
      BY DEF Moved, CInv, DataCounted
    <2>3. /\ {KeysOwed', MemoryOwed'} \subseteq Int
          /\ {counts'.keys, counts'.memory, pending'.keys, pending'.memory} \subseteq Int
          /\ KeyLen * reaped' \in Int
      <3>1. {KeysOwed', MemoryOwed'} \subseteq Int
        BY SumIsInt DEF CallsCounted, KeysOwed, MemoryOwed
      <3>2. {counts'.keys, counts'.memory, pending'.keys, pending'.memory} \subseteq Int
        BY DEF CountersCounted, Amounts
      <3>3. KeyLen * reaped' \in Int
        BY LengthsAssumption DEF CountersCounted
      <3> QED BY <3>1, <3>2, <3>3
    <2>4. counts'.keys + pending'.keys + KeysOwed' = Cardinality(Present')
      BY <1>1, <2>1, <2>2, <2>3, AllInts DEF Balanced, Accounts
    <2>5. counts'.memory + pending'.memory + MemoryOwed' = Held' - KeyLen * reaped'
      BY <1>1, <2>1, <2>2, <2>3, AllInts DEF Balanced, Accounts
    <2> QED BY <1>3, <2>1, <2>4, <2>5 DEF Balanced
  <1> QED BY <1>2, <1>3 DEF CInv

\* A step that changes no value and moves no amount.
LEMMA QuietCInv ==
    ASSUME CInv, CallsCounted', KeysOwed' = KeysOwed, MemoryOwed' = MemoryOwed,
           \A c \in Clients : /\ calls'[c].phase = "account" => calls[c].phase = "account"
                              /\ Clears(calls'[c]) <=> Clears(calls[c]),
           UNCHANGED <<data, hashes, counts, pending, reaped, cleared>>
    PROVE  CInv'
  <1>1. DataCounted' /\ CountersCounted' /\ Held' = Held /\ Present' = Present
    BY DEF CInv, DataCounted, CountersCounted, Held, Present
  <1>2. Clearing' <=> Clearing
    BY DEF Clearing, Clears
  <1>3. Emptied => Emptied'
    BY DEF Emptied
  <1>4. Balanced => Balanced'
    BY <1>1 DEF Balanced
  <1> QED BY <1>1, <1>2, <1>3, <1>4 DEF CInv

\* A step of a call that owes nothing, before and after.
LEMMA QuietCall ==
    ASSUME CInv, NEW c \in Clients, NEW new, calls' = [calls EXCEPT ![c] = new],
           calls[c].phase # "account", new.phase # "account",
           Clears(new) <=> Clears(calls[c]),
           UNCHANGED <<data, hashes, counts, pending, reaped, cleared>>
    PROVE  CInv'
  <1>1. OwedBy(calls[c]) = Zero /\ OwedBy(new) = Zero /\ Zero \in Amounts
    BY IdleOwes DEF OwedBy
  <1>2. /\ CallsCounted' /\ calls'[c] = new
        /\ \A d \in Clients : d # c => calls'[d] = calls[d]
        /\ KeysOwed' = KeysOwed - OwedBy(calls[c]).keys + OwedBy(new).keys
        /\ MemoryOwed' = MemoryOwed - OwedBy(calls[c]).memory + OwedBy(new).memory
    BY <1>1, CallOwes DEF CInv
  <1>3. KeysOwed' = KeysOwed /\ MemoryOwed' = MemoryOwed
    BY <1>1, <1>2, AllInts DEF Zero
  <1>4. ASSUME NEW d \in Clients
        PROVE  /\ calls'[d].phase = "account" => calls[d].phase = "account"
               /\ Clears(calls'[d]) <=> Clears(calls[d])
    BY <1>2
  <1> QED BY <1>2, <1>3, <1>4, QuietCInv

\* No connection begins to clear by a call that does not.
LEMMA StillNotClearing ==
    ASSUME NEW c \in Clients, NEW new, ~Clears(new), calls'[c] = new,
           \A d \in Clients : d # c => calls'[d] = calls[d], ~Clearing
    PROVE  ~Clearing'
  BY DEF Clearing, Clears

-----------------------------------------------------------------------------
\* What storing a value adds is what the commands account for.
LEMMA GrowthMoves ==
    ASSUME CInv, NEW k \in Keys, NEW size \in Sizes
    PROVE  size \in Nat /\ size # Absent /\ Growth(k, size) = Moved(data[k], size)
           /\ Growth(k, size) \in Amounts
  <1>1. size \in Nat /\ size # Absent
    BY LengthsAssumption DEF Sizes, Absent
  <1>2. data[k] \in Nat
    BY DEF CInv, DataCounted
  <1> QED BY <1>1, <1>2 DEF Growth, Moved, Amounts

\* And so is what a deletion takes.
LEMMA FreedMoves ==
    ASSUME CInv, NEW k \in Keys, data[k] # Absent
    PROVE  Freed(k) = Moved(data[k], Absent) /\ Freed(k) \in Amounts
  <1>1. data[k] \in Nat
    BY DEF CInv, DataCounted
  <1> QED BY <1>1 DEF Freed, Moved, Amounts, Absent

\* Amounts that are added.
LEMMA PlusAmounts ==
    ASSUME NEW a \in Amounts, NEW b \in Amounts
    PROVE  /\ Plus(a, b) \in Amounts
           /\ Plus(a, b).keys = a.keys + b.keys
           /\ Plus(a, b).memory = a.memory + b.memory
  BY DEF Plus, Amounts

\* A command that accounts for its value after the lock.
LEMMA OwingCInv ==
    ASSUME CInv, NEW c \in Clients, NEW k \in Keys, NEW n \in Nat, NEW deletes,
           NEW moved \in Amounts, moved = Moved(data[k], n), calls[c] = Idle,
           data' = [data EXCEPT ![k] = n], hashes' = hashes \ {k},
           calls' = [calls EXCEPT ![c] = Accounting(k, moved, deletes)],
           cleared' = (cleared \/ Clearing), UNCHANGED <<counts, pending, reaped>>
    PROVE  CInv'
  <1> PICK new : new = Accounting(k, moved, deletes)
    OBVIOUS
  <1>1. OwedBy(new) = moved /\ ~Clears(new) /\ OwedBy(calls[c]) = Zero
    BY IdleOwes DEF OwedBy, Accounting, Clears
  <1>2. /\ CallsCounted' /\ calls'[c] = new
        /\ \A d \in Clients : d # c => calls'[d] = calls[d]
        /\ KeysOwed' = KeysOwed - OwedBy(calls[c]).keys + OwedBy(new).keys
        /\ MemoryOwed' = MemoryOwed - OwedBy(calls[c]).memory + OwedBy(new).memory
    <2>1. OwedBy(new) \in Amounts
      BY <1>1
    <2>2. CallsCounted
      BY DEF CInv
    <2>3. calls' = [calls EXCEPT ![c] = new]
      OBVIOUS
    <2> QED BY <2>1, <2>2, <2>3, CallOwes
  <1>3. KeysOwed' = KeysOwed + moved.keys /\ MemoryOwed' = MemoryOwed + moved.memory
    BY <1>1, <1>2, AllInts DEF Zero
  <1>4. {moved.keys, moved.memory} \subseteq Int
    BY DEF Amounts
  <1>5. Accounts(k, n)
    BY <1>3, <1>4, AllInts DEF Accounts
  <1>6. ~Clearing => ~Clearing'
    BY <1>1, <1>2, StillNotClearing
  <1>7. CountersCounted'
    BY DEF CInv, CountersCounted
  <1> QED BY <1>2, <1>5, <1>6, <1>7, ValueCInv

\* A command that accounts for its value at once.
LEMMA PaidCInv ==
    ASSUME CInv, NEW k \in Keys, NEW n \in Nat,
           NEW moved \in Amounts, moved = Moved(data[k], n),
           data' = [data EXCEPT ![k] = n],
           \A j \in hashes' : j \in hashes \ {k} \/ (j = k /\ n # Absent),
           counts' = Plus(counts, moved), cleared' = (cleared \/ Clearing),
           UNCHANGED <<calls, pending, reaped>>
    PROVE  CInv'
  <1>1. CallsCounted' /\ KeysOwed' = KeysOwed /\ MemoryOwed' = MemoryOwed
    BY DEF CInv, CallsCounted, KeysOwed, MemoryOwed, OwedKeys, OwedMemory
  <1>2. Clearing' <=> Clearing
    BY DEF Clearing
  <1>3. /\ counts' \in Amounts /\ counts'.keys = counts.keys + moved.keys
        /\ counts'.memory = counts.memory + moved.memory
    BY PlusAmounts DEF CInv, CountersCounted
  <1>4. {moved.keys, moved.memory} \subseteq Int
    BY DEF Amounts
  <1>5. Accounts(k, n)
    BY <1>1, <1>3, <1>4, AllInts DEF Accounts
  <1>6. CountersCounted'
    BY <1>3 DEF CInv, CountersCounted
  <1> QED BY <1>1, <1>2, <1>5, <1>6, ValueCInv


\* Every command that stores a value accounts for it.
LEMMA StoresCInv ==
    ASSUME CInv, NEW c \in Clients, NEW k \in Keys, NEW size \in Sizes,
           \/ \E condition \in {"", "NX", "XX"} : Set(c, k, condition, size)
           \/ GetSet(c, k, size)
           \/ IncrBy(c, k, size)
           \/ HSet(c, k, size)
    PROVE  CInv'
  <1>1. /\ size \in Nat /\ size # Absent /\ Growth(k, size) = Moved(data[k], size)
        /\ Growth(k, size) \in Amounts
    BY GrowthMoves
  <1>2. ASSUME NEW deadline, NEW given, Write(c, k, size, deadline, given) PROVE CInv'
    <2>1. /\ calls[c] = Idle /\ data' = [data EXCEPT ![k] = size]
          /\ hashes' = hashes \ {k} /\ cleared' = (cleared \/ Clearing)
          /\ calls' = [calls EXCEPT ![c] = Accounting(k, Growth(k, size), FALSE)]
          /\ UNCHANGED <<counts, pending, reaped>>
      BY <1>2, Zenon DEF Write, Store, Begins
    <2> QED BY <1>1, <2>1, OwingCInv
  <1>3. ASSUME Rewrite(c, k, size), hashes' \in {hashes, hashes \cup {k}} PROVE CInv'
    <2>1. /\ data' = [data EXCEPT ![k] = size] /\ cleared' = (cleared \/ Clearing)
          /\ counts' = Plus(counts, Growth(k, size))
          /\ UNCHANGED <<calls, pending, reaped>>
      BY <1>3, Zenon DEF Rewrite, Store, Accounted
    <2>2. \A j \in hashes' : j \in hashes \ {k} \/ (j = k /\ size # Absent)
      BY <1>1, <1>3
    <2> QED BY <1>1, <2>1, <2>2, PaidCInv
  <1>4. CASE \E condition \in {"", "NX", "XX"} : Set(c, k, condition, size)
    BY <1>2, <1>4 DEF Set
  <1>5. CASE GetSet(c, k, size)
    BY <1>2, <1>5 DEF GetSet
  <1>6. CASE IncrBy(c, k, size) \/ HSet(c, k, size)
    BY <1>3, <1>6 DEF IncrBy, HSet
  <1> QED BY <1>4, <1>5, <1>6

\* HDEL of a field, and of the last.
LEMMA HDelsCInv ==
    ASSUME CInv, NEW c \in Clients, NEW k \in Keys, HDel(c, k) \/ HDelLast(c, k)
    PROVE  CInv'
  <1>1. CASE HDel(c, k)
    <2>1. PICK size \in Sizes : Rewrite(c, k, size) /\ hashes' = hashes
      BY <1>1 DEF HDel
    <2>2. /\ data' = [data EXCEPT ![k] = size] /\ cleared' = (cleared \/ Clearing)
          /\ counts' = Plus(counts, Growth(k, size))
          /\ UNCHANGED <<calls, pending, reaped>>
      BY <2>1, Zenon DEF Rewrite, Store, Accounted
    <2>3. /\ size \in Nat /\ size # Absent /\ Growth(k, size) = Moved(data[k], size)
          /\ Growth(k, size) \in Amounts
      BY GrowthMoves
    <2>4. \A j \in hashes' : j \in hashes \ {k} \/ (j = k /\ size # Absent)
      BY <2>1, <2>3
    <2> QED BY <2>2, <2>3, <2>4, PaidCInv
  <1>2. CASE HDelLast(c, k)
    <2>1. /\ data' = [data EXCEPT ![k] = Absent] /\ cleared' = (cleared \/ Clearing)
          /\ counts' = Plus(counts, Freed(k)) /\ hashes' = hashes \ {k}
          /\ UNCHANGED <<calls, pending, reaped>> /\ k \in hashes
      BY <1>2, Zenon DEF HDelLast
    <2>2. data[k] # Absent
      BY <2>1 DEF CInv, DataCounted
    <2>3. Freed(k) = Moved(data[k], Absent) /\ Freed(k) \in Amounts /\ Absent \in Nat
      BY <2>2, FreedMoves DEF Absent
    <2> QED BY <2>1, <2>3, PaidCInv
  <1> QED BY <1>1, <1>2

\* Either deletion accounts for what it takes.
LEMMA RemoveKeyCInv ==
    ASSUME CInv, NEW c \in Clients, NEW k \in Keys, Delete(c, k) \/ DeleteWithHLC(c, k)
    PROVE  CInv'
  <1>1. PICK deadline, deletes : RemoveKey(c, k, deadline, deletes)
    BY DEF Delete, DeleteWithHLC
  <1>2. /\ calls[c] = Idle /\ data[k] # Absent /\ data' = [data EXCEPT ![k] = Absent]
        /\ hashes' = hashes \ {k} /\ cleared' = (cleared \/ Clearing)
        /\ calls' = [calls EXCEPT ![c] = Accounting(k, Freed(k), deletes)]
        /\ UNCHANGED <<counts, pending, reaped>>
    BY <1>1, Zenon DEF RemoveKey, Begins
  <1>3. Freed(k) = Moved(data[k], Absent) /\ Freed(k) \in Amounts /\ Absent \in Nat
    BY <1>2, FreedMoves DEF Absent
  <1> QED BY <1>2, <1>3, OwingCInv

\* What is owed is paid.
LEMMA AccountCInv ==
    ASSUME IInv, CInv, NEW c \in Clients, Account(c) PROVE CInv'
  <1>1. PICK new : new = IF calls[c].deletes THEN [calls[c] EXCEPT !.phase = "undeadline"]
                                             ELSE Idle
    OBVIOUS
  <1>2. PICK delta : delta = calls[c].delta
    OBVIOUS
  <1>3. /\ calls[c].phase = "account" /\ calls' = [calls EXCEPT ![c] = new]
        /\ counts' = Plus(counts, delta)
        /\ UNCHANGED <<data, hashes, pending, reaped, cleared>>
    BY <1>1, <1>2 DEF Account, Accounted
  <1>4. OwedBy(calls[c]) = delta /\ delta \in Amounts
    BY <1>2, <1>3 DEF OwedBy, CInv, CallsCounted
  <1>5. new.phase \in {"undeadline", "idle"}
    BY <1>1, <1>3 DEF Idle, IInv, Shape, CallsShape, WellFormed
  <1>6. OwedBy(new) = Zero /\ ~Clears(new) /\ Zero \in Amounts
    BY <1>5, IdleOwes DEF OwedBy, Clears
  <1>7. /\ CallsCounted' /\ calls'[c] = new
        /\ \A d \in Clients : d # c => calls'[d] = calls[d]
        /\ KeysOwed' = KeysOwed - OwedBy(calls[c]).keys + OwedBy(new).keys
        /\ MemoryOwed' = MemoryOwed - OwedBy(calls[c]).memory + OwedBy(new).memory
    BY <1>3, <1>6, CallOwes DEF CInv
  <1>8. {delta.keys, delta.memory} \subseteq Int
    BY <1>4 DEF Amounts
  <1>9. KeysOwed' = KeysOwed - delta.keys /\ MemoryOwed' = MemoryOwed - delta.memory
    BY <1>4, <1>6, <1>7, <1>8, AllInts DEF Zero
  <1>10. /\ counts' \in Amounts /\ counts'.keys = counts.keys + delta.keys
         /\ counts'.memory = counts.memory + delta.memory
    BY <1>3, <1>4, PlusAmounts DEF CInv, CountersCounted
  <1>11. /\ CountersCounted' /\ DataCounted' /\ Held' = Held /\ Present' = Present
    BY <1>3, <1>10 DEF CInv, CountersCounted, DataCounted, Held, Present
  <1>12. ASSUME ~cleared' PROVE ~Clearing' /\ Balanced'
    <2>1. ~Clearing /\ Balanced
      BY <1>3, <1>12 DEF CInv, Emptied
    <2>2. ~Clearing'
      BY <1>6, <1>7, <2>1, StillNotClearing
    <2>3. /\ counts'.keys + pending'.keys + KeysOwed' = Cardinality(Present')
          /\ counts'.memory + pending'.memory + MemoryOwed' = Held' - KeyLen * reaped'
      BY <1>3, <1>8, <1>9, <1>10, <1>11, <2>1, AllInts DEF Balanced
    <2> QED BY <2>2, <2>3 DEF Balanced
  <1> QED BY <1>7, <1>11, <1>12 DEF CInv

-----------------------------------------------------------------------------
\* FLUSHALL that overlaps with nothing leaves nothing to account for.
LEMMA ClearDataCInv ==
    ASSUME CInv, NEW c \in Clients, ClearData(c) PROVE CInv'
  <1>1. PICK new : new = [phase |-> "clearExpiry"]
    OBVIOUS
  <1>2. /\ calls[c] = Idle /\ calls' = [calls EXCEPT ![c] = new]
        /\ data' = [k \in Keys |-> Absent] /\ hashes' = {}
        /\ cleared' = (cleared \/ pending # Zero \/ Clearing
                               \/ \E d \in Clients : calls[d].phase = "account")
        /\ UNCHANGED <<counts, pending, reaped>>
    BY <1>1 DEF ClearData, Begins
  <1>3. /\ CallsCounted' /\ calls'[c] = new
        /\ \A d \in Clients : d # c => calls'[d] = calls[d]
    <2>1. OwedBy(new) \in Amounts
      BY <1>1, IdleOwes DEF OwedBy
    <2> QED BY <1>2, <2>1, CallOwes DEF CInv
  <1>4. DataCounted'
    <2>1. /\ data' \in [Keys -> Nat] /\ \A k \in Keys : data'[k] = 0
          /\ Present' = {}
      BY <1>2 DEF Absent, Present
    <2>2. IsFiniteSet(Present')
      BY <2>1, FS_EmptySet
    <2>3. Summable(Keys, data')
      BY <2>1, SumOfNothing
    <2> QED BY <1>2, <2>1, <2>2, <2>3 DEF DataCounted
  <1>5. CountersCounted'
    BY <1>2 DEF CInv, CountersCounted
  <1>6. Clearing'
    BY <1>1, <1>3 DEF Clearing
  <1>7. ASSUME ~cleared' PROVE Emptied'
    <2>1. \A d \in Clients : calls[d].phase # "account" /\ ~Clears(calls[d])
      BY <1>2, <1>7 DEF Clearing, Clears
    <2>2. \A d \in Clients : /\ calls'[d].phase # "account"
                             /\ Clears(calls'[d]) => d = c
      BY <1>1, <1>3, <2>1
    <2>3. pending' = Zero
      BY <1>2, <1>7
    <2> QED BY <1>2, <2>2, <2>3 DEF Emptied
  <1> QED BY <1>3, <1>4, <1>5, <1>6, <1>7 DEF CInv

\* And the counters, at 0, say so.
LEMMA ClearCountsCInv ==
    ASSUME CInv, NEW c \in Clients, ClearCounts(c) PROVE CInv'
  <1>1. /\ calls[c].phase = "clearCounts" /\ calls' = [calls EXCEPT ![c] = Idle]
        /\ counts' = Zero /\ reaped' = 0
        /\ UNCHANGED <<data, hashes, pending, cleared>>
    BY DEF ClearCounts
  <1>2. /\ CallsCounted' /\ calls'[c] = Idle
        /\ \A d \in Clients : d # c => calls'[d] = calls[d]
    BY <1>1, IdleOwes, CallOwes DEF CInv
  <1>3. CountersCounted' /\ DataCounted'
    BY <1>1, IdleOwes DEF CInv, CountersCounted, DataCounted, Present
  <1>4. ASSUME ~cleared' PROVE ~Clearing' /\ Balanced'
    <2>1. Clearing /\ Clears(calls[c])
      BY <1>1 DEF Clearing, Clears
    <2>2. Emptied
      BY <1>1, <1>4, <2>1 DEF CInv
    <2>3. ~Clearing'
      <3>1. ASSUME NEW d \in Clients PROVE ~Clears(calls'[d])
        BY <1>2, <2>1, <2>2, IdleOwes DEF Emptied
      <3> QED BY <3>1 DEF Clearing, Clears
    <2>4. \A d \in Clients : OwedBy(calls'[d]) = Zero
      BY <1>2, <2>2, IdleOwes DEF Emptied, OwedBy
    <2>5. KeysOwed' = 0 /\ MemoryOwed' = 0
      <3>1. PICK k2, m2 : k2 = OwedKeys' /\ m2 = OwedMemory'
        OBVIOUS
      <3>2. \A d \in Clients : k2[d] = 0 /\ m2[d] = 0
        BY <2>4, <3>1 DEF OwedKeys, OwedMemory, Zero
      <3>3. Sum(Clients, k2) = 0 /\ Sum(Clients, m2) = 0
        BY <3>2, SumOfNothing
      <3> QED BY <3>1, <3>3 DEF KeysOwed, MemoryOwed
    <2>6. Held' = 0 /\ Cardinality(Present') = 0
      <3>1. \A k \in Keys : data'[k] = 0
        BY <1>1, <2>2 DEF Emptied, Absent
      <3>2. Present' = {}
        BY <3>1 DEF Present, Absent
      <3>3. Sum(Keys, data') = 0
        BY <3>1, SumOfNothing
      <3> QED BY <3>2, <3>3, FS_EmptySet DEF Held
    <2>7. pending' = Zero
      BY <1>1, <2>2 DEF Emptied
    <2>8. KeyLen * reaped' = 0
      BY <1>1, LengthsAssumption
    <2> QED BY <1>1, <2>3, <2>5, <2>6, <2>7, <2>8 DEF Balanced, Zero
  <1> QED BY <1>2, <1>3, <1>4 DEF CInv


\* The steps of commands that no counter is about.
LEMMA QuietStepsCInv ==
    ASSUME CInv, NEW c \in Clients,
           \/ \E k \in Keys, ttl \in TTLs : CheckKey(c, k, ttl)
           \/ RemoveDeadline(c) \/ SetDeadline(c) \/ ClearExpiry(c)
    PROVE  CInv'
  <1>1. CASE \E k \in Keys, ttl \in TTLs : CheckKey(c, k, ttl)
    <2>1. PICK k \in Keys, ttl \in TTLs : CheckKey(c, k, ttl)
      BY <1>1
    <2>2. PICK new : new = [phase |-> "checked", key |-> k, deadline |-> now + ttl]
      OBVIOUS
    <2>3. /\ calls[c] = Idle /\ calls' = [calls EXCEPT ![c] = new]
          /\ UNCHANGED <<data, hashes, counts, pending, reaped, cleared>>
      BY <2>1, <2>2 DEF CheckKey, Begins
    <2>4. /\ calls[c].phase # "account" /\ new.phase # "account"
          /\ Clears(new) <=> Clears(calls[c])
      BY <2>2, <2>3 DEF Idle, Clears
    <2> QED BY <2>3, <2>4, QuietCall
  <1>2. CASE RemoveDeadline(c) \/ SetDeadline(c)
    <2>1. /\ calls[c].phase \in {"undeadline", "checked"}
          /\ calls' = [calls EXCEPT ![c] = Idle]
          /\ UNCHANGED <<data, hashes, counts, pending, reaped, cleared>>
      BY <1>2 DEF RemoveDeadline, SetDeadline
    <2>2. /\ calls[c].phase # "account" /\ Idle.phase # "account"
          /\ Clears(Idle) <=> Clears(calls[c])
      BY <2>1 DEF Idle, Clears
    <2> QED BY <2>1, <2>2, QuietCall
  <1>3. CASE ClearExpiry(c)
    <2>1. PICK new : new = [phase |-> "clearCounts"]
      OBVIOUS
    <2>2. /\ calls[c].phase = "clearExpiry" /\ calls' = [calls EXCEPT ![c] = new]
          /\ UNCHANGED <<data, hashes, counts, pending, reaped, cleared>>
      BY <1>3, <2>1 DEF ClearExpiry
    <2>3. /\ calls[c].phase # "account" /\ new.phase # "account"
          /\ Clears(new) <=> Clears(calls[c])
      BY <2>1, <2>2 DEF Clears
    <2> QED BY <2>2, <2>3, QuietCall
  <1> QED BY <1>1, <1>2, <1>3

\* A step that leaves calls, values and counters alone.
LEMMA NothingCounted ==
    ASSUME CInv, UNCHANGED <<data, hashes, calls, counts, pending, reaped, cleared>>
    PROVE  CInv'
  <1>1. CallsCounted' /\ KeysOwed' = KeysOwed /\ MemoryOwed' = MemoryOwed
    BY DEF CInv, CallsCounted, KeysOwed, MemoryOwed, OwedKeys, OwedMemory
  <1> QED BY <1>1, QuietCInv

\* What a connection does.
LEMMA CommandCInv ==
    ASSUME IInv, CInv, NEW c \in Clients, Command(c) PROVE CInv'
  <1>1. CASE \E k \in Keys, size \in Sizes :
               \/ \E condition \in {"", "NX", "XX"} : Set(c, k, condition, size)
               \/ GetSet(c, k, size) \/ IncrBy(c, k, size) \/ HSet(c, k, size)
    BY <1>1, StoresCInv
  <1>2. CASE \E k \in Keys : HDel(c, k) \/ HDelLast(c, k)
    BY <1>2, HDelsCInv
  <1>3. CASE \E k \in Keys : Delete(c, k) \/ DeleteWithHLC(c, k)
    BY <1>3, RemoveKeyCInv
  <1>4. CASE \/ \E k \in Keys, ttl \in TTLs : CheckKey(c, k, ttl)
             \/ RemoveDeadline(c) \/ SetDeadline(c) \/ ClearExpiry(c)
    BY <1>4, QuietStepsCInv
  <1>5. CASE \E k \in Keys : RemoveExpiry(c, k)
    BY <1>5, NothingCounted DEF RemoveExpiry
  <1>6. CASE Account(c) \/ ClearData(c) \/ ClearCounts(c)
    BY <1>6, AccountCInv, ClearDataCInv, ClearCountsCInv
  <1> QED BY <1>1, <1>2, <1>3, <1>4, <1>5, <1>6 DEF Command

\* A key reaped takes its value, its name, and its name again
\* (expiry_batch.go:201-204).
LEMMA DeleteExpiredCInv ==
    ASSUME CInv, NEW k \in Keys, DeleteExpired(k), UNCHANGED <<calls, counts>>
    PROVE  CInv'
  <1>1. CASE ~StillExpired(k)
    BY <1>1, NothingCounted DEF DeleteExpired
  <1>2. CASE StillExpired(k)
    <2>1. PICK taken : taken = [keys |-> -1, memory |-> -(KeyLen + data[k])]
      OBVIOUS
    <2>2. /\ data[k] # Absent /\ data' = [data EXCEPT ![k] = Absent]
          /\ hashes' = hashes \ {k} /\ pending' = Plus(pending, taken)
          /\ reaped' = reaped + 1 /\ cleared' = (cleared \/ Clearing)
      BY <1>2, <2>1 DEF DeleteExpired, StillExpired
    <2>3. data[k] \in Nat /\ reaped \in Nat /\ KeyLen \in Nat
      BY <1>2, LengthsAssumption DEF CInv, DataCounted, CountersCounted
    <2>4. /\ taken \in Amounts /\ taken.keys = Moved(data[k], Absent).keys
          /\ taken.memory = Moved(data[k], Absent).memory - KeyLen
          /\ {taken.keys, taken.memory} \subseteq Int
      BY <2>1, <2>2, <2>3 DEF Amounts, Moved, Absent
    <2>5. /\ pending' \in Amounts /\ pending'.keys = pending.keys + taken.keys
          /\ pending'.memory = pending.memory + taken.memory
      BY <2>2, <2>4, PlusAmounts DEF CInv, CountersCounted
    <2>6. CallsCounted' /\ KeysOwed' = KeysOwed /\ MemoryOwed' = MemoryOwed
      BY DEF CInv, CallsCounted, KeysOwed, MemoryOwed, OwedKeys, OwedMemory
    <2>7. KeyLen * reaped' = KeyLen * reaped + KeyLen
      <3>1. \A a, b \in Int : a * (b + 1) = a * b + a
        OBVIOUS
      <3> QED BY <2>2, <2>3, <3>1
    <2>8. Accounts(k, Absent)
      <3>1. {Moved(data[k], Absent).keys, Moved(data[k], Absent).memory} \subseteq Int
        BY <2>3 DEF Moved, Absent
      <3> QED BY <2>3, <2>4, <2>5, <2>6, <2>7, <3>1, AllInts DEF Accounts
    <2>9. CountersCounted' /\ Absent \in Nat
      BY <2>2, <2>3, <2>5 DEF CInv, CountersCounted, Absent
    <2>10. Clearing' <=> Clearing
      BY DEF Clearing
    <2> QED BY <1>2, <2>2, <2>6, <2>8, <2>9, <2>10, ValueCInv
  <1> QED BY <1>1, <1>2

\* What was pending is counted.
LEMMA FlushMetricsCInv ==
    ASSUME CInv, FlushMetrics PROVE CInv'
  <1>1. /\ pending # Zero /\ counts' = Plus(counts, pending) /\ pending' = Zero
        /\ UNCHANGED <<data, hashes, calls, reaped, cleared>>
    BY DEF FlushMetrics
  <1>2. CallsCounted' /\ KeysOwed' = KeysOwed /\ MemoryOwed' = MemoryOwed
    BY <1>1 DEF CInv, CallsCounted, KeysOwed, MemoryOwed, OwedKeys, OwedMemory
  <1>3. /\ counts' \in Amounts /\ counts'.keys = counts.keys + pending.keys
        /\ counts'.memory = counts.memory + pending.memory
    BY <1>1, PlusAmounts DEF CInv, CountersCounted
  <1>4. DataCounted' /\ CountersCounted' /\ Held' = Held /\ Present' = Present
    BY <1>1, <1>3, IdleOwes DEF CInv, DataCounted, CountersCounted, Held, Present
  <1>5. Clearing' <=> Clearing
    BY <1>1 DEF Clearing
  <1>6. ASSUME ~cleared' PROVE ~Clearing' /\ Balanced'
    <2>1. ~Clearing /\ Balanced
      BY <1>1, <1>6 DEF CInv, Emptied
    <2> QED BY <1>1, <1>2, <1>3, <1>4, <1>5, <2>1, AllInts DEF Balanced, Zero
  <1> QED BY <1>2, <1>4, <1>6 DEF CInv


\* Only keys are queued to be reaped.
KeysQueued == found \subseteq Keys /\ queue \in Seq(Keys)

\* Commands queue nothing.
LEMMA CommandQueues ==
    ASSUME NEW c \in Clients, Command(c) PROVE UNCHANGED <<found, queue>>
  <1>1. ASSUME NEW k, NEW size, NEW deadline, NEW given, Store(c, k, size, deadline, given)
        PROVE  UNCHANGED <<found, queue>>
    BY <1>1 DEF Store
  <1>2. ASSUME NEW k, NEW size,
               \/ \E condition \in {"", "NX", "XX"} : Set(c, k, condition, size)
               \/ GetSet(c, k, size) \/ IncrBy(c, k, size) \/ HSet(c, k, size)
               \/ HDel(c, k)
        PROVE  UNCHANGED <<found, queue>>
    BY <1>1, <1>2 DEF Set, GetSet, IncrBy, HSet, HDel, Write, Rewrite
  <1>3. ASSUME NEW k, \/ Delete(c, k) \/ DeleteWithHLC(c, k) \/ HDelLast(c, k)
                      \/ RemoveExpiry(c, k) \/ \E ttl \in TTLs : CheckKey(c, k, ttl)
        PROVE  UNCHANGED <<found, queue>>
    BY <1>3 DEF Delete, DeleteWithHLC, RemoveKey, HDelLast, RemoveExpiry, CheckKey
  <1>4. ASSUME \/ Account(c) \/ RemoveDeadline(c) \/ SetDeadline(c)
               \/ ClearData(c) \/ ClearExpiry(c) \/ ClearCounts(c)
        PROVE  UNCHANGED <<found, queue>>
    BY <1>4 DEF Account, RemoveDeadline, SetDeadline, ClearData, ClearExpiry, ClearCounts
  <1> QED BY <1>2, <1>3, <1>4 DEF Command

\* The cleaner queues keys it has found.
LEMMA KeysStayQueued ==
    ASSUME KeysQueued, [Next]_vars PROVE KeysQueued'
  <1>1. CASE \E c \in Clients : Command(c)
    BY <1>1, CommandQueues DEF KeysQueued
  <1>2. CASE Scan
    BY <1>2 DEF KeysQueued, Scan
  <1>3. CASE \E k \in Keys : QueueExpiredDeletion(k)
    BY <1>3 DEF KeysQueued, QueueExpiredDeletion
  <1>4. CASE Reap
    BY <1>4 DEF KeysQueued, Reap, ReapQueued, ReapDirectly
  <1>5. CASE FlushMetrics \/ Tick \/ UNCHANGED vars
    BY <1>5 DEF KeysQueued, FlushMetrics, Tick, vars
  <1> QED BY <1>1, <1>2, <1>3, <1>4, <1>5 DEF Next

\* What the store's own goroutines do, and the clock.
LEMMA BackgroundCInv ==
    ASSUME CInv, KeysQueued,
           \/ Scan \/ \E k \in Keys : QueueExpiredDeletion(k)
           \/ Reap \/ FlushMetrics \/ Tick \/ UNCHANGED vars
    PROVE  CInv'
  <1>1. CASE Reap
    <2>1. PICK k \in Keys : DeleteExpired(k) /\ UNCHANGED <<calls, counts>>
      <3>1. CASE ReapQueued
        <4>1. Head(queue) \in Keys
          BY <3>1 DEF KeysQueued, ReapQueued
        <4> QED BY <3>1, <4>1 DEF ReapQueued
      <3>2. CASE \E k \in Keys : ReapDirectly(k)
        BY <3>2 DEF ReapDirectly
      <3> QED BY <1>1, <3>1, <3>2 DEF Reap
    <2> QED BY <2>1, DeleteExpiredCInv
  <1>2. CASE FlushMetrics
    BY <1>2, FlushMetricsCInv
  <1>3. CASE Scan \/ (\E k \in Keys : QueueExpiredDeletion(k)) \/ Tick \/ UNCHANGED vars
    BY <1>3, NothingCounted DEF Scan, QueueExpiredDeletion, Tick, vars
  <1> QED BY <1>1, <1>2, <1>3

\* At first the map is empty and the counters say so.
LEMMA InitCInv == Init => CInv /\ KeysQueued
  <1> SUFFICES ASSUME Init PROVE CInv /\ KeysQueued
    OBVIOUS
  <1>1. \A c \in Clients : OwedBy(calls[c]) = Zero /\ ~Clears(calls[c])
    BY IdleOwes DEF Init
  <1>2. CallsCounted /\ KeysOwed = 0 /\ MemoryOwed = 0
    <2>1. PICK k1, m1 : k1 = OwedKeys /\ m1 = OwedMemory
      OBVIOUS
    <2>2. \A c \in Clients : k1[c] = 0 /\ m1[c] = 0
      BY <1>1, <2>1 DEF OwedKeys, OwedMemory, Zero
    <2>3. /\ Summable(Clients, k1) /\ Sum(Clients, k1) = 0
          /\ Summable(Clients, m1) /\ Sum(Clients, m1) = 0
      BY <2>2, SumOfNothing
    <2>4. DOMAIN calls = Clients
      BY DEF Init
    <2> QED BY <1>1, <2>1, <2>3, <2>4, IdleOwes DEF CallsCounted, KeysOwed, MemoryOwed
  <1>3. DataCounted /\ Held = 0 /\ Cardinality(Present) = 0
    <2>1. data \in [Keys -> Nat] /\ hashes = {} /\ \A k \in Keys : data[k] = 0
      BY DEF Init, Absent
    <2>2. Present = {}
      BY <2>1 DEF Present, Absent
    <2>3. Summable(Keys, data) /\ Sum(Keys, data) = 0
      BY <2>1, SumOfNothing
    <2> QED BY <2>1, <2>2, <2>3, FS_EmptySet DEF DataCounted, Held
  <1>4. CountersCounted /\ counts = Zero /\ pending = Zero /\ reaped = 0
    BY IdleOwes DEF Init, CountersCounted
  <1>5. ~Clearing
    BY <1>1 DEF Clearing, Clears
  <1>6. Balanced
    BY <1>2, <1>3, <1>4, LengthsAssumption DEF Balanced, Zero
  <1>7. KeysQueued
    BY DEF Init, KeysQueued
  <1> QED BY <1>2, <1>3, <1>4, <1>5, <1>6, <1>7 DEF CInv

(***************************************************************************)
(* In every state what is shown, pending and owed is what the map holds,   *)
(* less what the cleaner counts twice (accountKeyAdded and the rest,       *)
(* store.go:496-540; expiry_batch.go:201-204).                             *)
(***************************************************************************)
THEOREM NothingIsLost == Spec => [](CInv /\ KeysQueued)
  <1>1. ASSUME IInv, CInv, KeysQueued, [Next]_vars PROVE CInv' /\ KeysQueued'
    BY <1>1, CommandCInv, BackgroundCInv, KeysStayQueued DEF Next
  <1> QED BY <1>1, InitCInv, Invariance, PTL DEF Spec

(***************************************************************************)
(* With nothing half-way and nothing pending, the counters are those of    *)
(* the map (store.go:496-499).                                             *)
(***************************************************************************)
THEOREM CountersAreTrue == Spec => []CountersMatchMap
  <1>1. ASSUME CInv PROVE CountersMatchMap
    <2> SUFFICES ASSUME Settled, ~cleared
                 PROVE  /\ counts.keys = Cardinality(Present)
                        /\ counts.memory = Cardinality(Bytes) - KeyLen * reaped
      BY DEF CountersMatchMap
    <2>1. pending = Zero /\ \A c \in Clients : calls[c] = Idle
      BY DEF Settled
    <2>2. ~Clearing
      BY <2>1, IdleOwes DEF Clearing, Clears
    <2>3. Balanced
      BY <1>1, <2>2 DEF CInv
    <2>4. KeysOwed = 0 /\ MemoryOwed = 0
      <3>1. PICK k1, m1 : k1 = OwedKeys /\ m1 = OwedMemory
        OBVIOUS
      <3>2. \A c \in Clients : k1[c] = 0 /\ m1[c] = 0
        BY <2>1, <3>1, IdleOwes DEF OwedKeys, OwedMemory, Zero
      <3> QED BY <3>1, <3>2, SumOfNothing DEF KeysOwed, MemoryOwed
    <2>5. Held = Cardinality(Bytes)
      <3>1. Above(Keys, data) = Bytes
        BY DEF Above, Units, Bytes
      <3>2. Below(Keys, data) = {}
        BY <1>1 DEF Below, Units, CInv, DataCounted
      <3>3. IsFiniteSet(Bytes)
        BY <1>1, <3>1 DEF CInv, DataCounted, Summable
      <3> QED BY <3>1, <3>2, <3>3, FS_EmptySet, FS_CardinalityType DEF Held, Sum
    <2> QED BY <1>1, <2>1, <2>3, <2>4, <2>5, AllInts DEF Balanced, Zero
  <1> QED BY <1>1, NothingIsLost, PTL

=============================================================================
