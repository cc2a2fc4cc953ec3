---------------------------- MODULE KeyLifetime ----------------------------
(***************************************************************************)
(* The life of a key in one store, string or hash: the commands that       *)
(* create, change, delete and expire it (internal/store/lww.go, store.go,  *)
(* string_operations.go, hash_operations.go), the cleaner and the batch    *)
(* processor that reap expired keys (store.go, expiry_batch.go), and the   *)
(* counters all of them move.                                              *)
(*                                                                         *)
(* shard.data is guarded by shard.mu and shard.expiry by shard.expiryMu;   *)
(* each action below is one critical section, or one update of counters,   *)
(* and other goroutines run between two actions of a command.              *)
(*                                                                         *)
(* Not here: the commit log and versions (CommitLog, StringReplication: a  *)
(* write that loses changes nothing), a command that is refused by its     *)
(* arguments, the fields of a hash, sets (SetReplication), which come and  *)
(* go as hashes do, and lists (Lists): they do not keep their size, so a   *)
(* SET over one takes off 0 for it (string_operations.go:129, lww.go:75),  *)
(* and with lists the counters drift further.                              *)
(*                                                                         *)
(* Assumed: a key keeps its bytes while it is in a map.  SET copies it     *)
(* (string_operations.go:34-35), but EXPIRE and most other handlers pass a *)
(* view of a pooled buffer, and shard.expiry keeps it (store.go:439).      *)
(***************************************************************************)
EXTENDS Integers, FiniteSets, Sequences

CONSTANTS
    Clients,    \* connections
    Keys,
    KeyLen,     \* the length of every key
    Lengths,    \* the lengths of the values written
    TTLs,       \* seconds in EXPIRE and SET EX
    MaxMemory,  \* MaxMemoryUsage; 0 for no limit
    QueueSize,  \* capacity of the expiry queue
    BatchSize,
    MaxTime,    \* bound
    MaxCalls    \* bound: commands begun

ASSUME LengthsAssumption == Lengths \subseteq Nat /\ KeyLen \in Nat \ {0}
ASSUME TimesAssumption   == TTLs \subseteq Nat /\ MaxTime \in Nat
ASSUME SizesAssumption   == /\ {QueueSize, BatchSize} \subseteq Nat \ {0}
                            /\ {MaxMemory, MaxCalls} \subseteq Nat

VARIABLES
    now,      \* the clock
    data,     \* memorySize of the value of each key; Absent when there is none
    hashes,   \* keys whose value is a hash, the others being strings
    expiry,   \* the deadline of each key in shard.expiry, or NoDeadline
    calls,    \* per connection: the rest of the command it is in
    called,   \* counts commands, for the bound
    found,    \* keys cleanupExpiredKeys has yet to queue
    queue,    \* expiry operations: the batch, then the channel
    counts,   \* totalKeys and totalMemory (and the shard's own, alike)
    pending,  \* asyncMetrics: updates not yet in the counts
    meant,    \* history: the deadline the commands gave to the value of a key
    astray,   \* history: keys changed while another command was half-way, or
              \* whose hash was emptied and left its deadline
    reaped,   \* history: keys the counters have lost to the cleaner
    cleared   \* history: FLUSHALL ran alongside something else

vars == <<now, data, hashes, expiry, calls, called, found, queue, counts,
          pending, meant, astray, reaped, cleared>>

Absent == 0
NoDeadline == 0

Sizes == {KeyLen + n : n \in Lengths}

Zero == [keys |-> 0, memory |-> 0]

Plus(a, b) == [keys |-> a.keys + b.keys, memory |-> a.memory + b.memory]

Idle == [phase |-> "idle"]

Init == /\ now = 1
        /\ data = [k \in Keys |-> Absent]
        /\ hashes = {}
        /\ expiry = [k \in Keys |-> NoDeadline]
        /\ calls = [c \in Clients |-> Idle]
        /\ called = 0
        /\ found = {} /\ queue = <<>>
        /\ counts = Zero /\ pending = Zero
        /\ meant = [k \in Keys |-> NoDeadline]
        /\ astray = {} /\ reaped = 0 /\ cleared = FALSE

-----------------------------------------------------------------------------
\* Mistake: the arguments of After are swapped.
DueSwapped(deadline) == deadline # NoDeadline /\ deadline > now

\* now.After(deadline)
Due(deadline) == deadline # NoDeadline /\ now > deadline

\* wouldExceedMemory.
WouldExceed(delta) ==
    MaxMemory > 0 /\ delta > 0 /\ counts.memory + delta > MaxMemory

\* A Delete that has not removed the deadline yet, a SetExpiry that has not
\* stored it yet, a FLUSHALL in between.
HalfWay(call, k) ==
    \/ call.phase \in {"account", "undeadline"} /\ call.deletes /\ call.key = k
    \/ call.phase = "checked" /\ call.key = k
    \/ call.phase \in {"clearExpiry", "clearCounts"}

Clearing ==
    \E c \in Clients : calls[c].phase \in {"clearExpiry", "clearCounts"}

\* History: the keys of ks change while one of the others is half-way.
Disturbed(others, ks) == {k \in ks : \E d \in others : HalfWay(calls[d], k)}

Notes(others, ks) == astray' = astray \cup Disturbed(others, ks)

Begins(c) == /\ calls[c] = Idle
             /\ called < MaxCalls
             /\ called' = called + 1

\* What is left to do after the lock is released: to account.
Accounting(k, delta, deletes) ==
    [phase |-> "account", key |-> k, delta |-> delta, deletes |-> deletes]

\* Mistake: the count of keys is moved by the size.
AccountsSize(delta) == [delta EXCEPT !.keys = delta.memory]

\* accountKeyAdded, accountKeyRemoved, accountMemoryDelta: all four counters.
Accounted(delta) == delta

\* What storing a value of this memorySize adds to the counters.
Growth(k, size) == [keys   |-> IF data[k] = Absent THEN 1 ELSE 0,
                    memory |-> size - data[k]]

\* A command of c makes size the memorySize of k's value, under shard.mu.
Store(c, k, size, deadline, given) ==
    /\ Begins(c)
    /\ data' = [data EXCEPT ![k] = size]
    /\ expiry' = [expiry EXCEPT ![k] = deadline]
    /\ meant' = [meant EXCEPT ![k] = given]
    /\ Notes(Clients \ {c}, {k})
    /\ cleared' = (cleared \/ Clearing)
    /\ UNCHANGED <<now, found, queue, pending, reaped>>

\* A string stored now and accounted after the lock is released.
Write(c, k, size, deadline, given) ==
    /\ Store(c, k, size, deadline, given)
    /\ hashes' = hashes \ {k}
    /\ calls' = [calls EXCEPT ![c] = Accounting(k, Growth(k, size), FALSE)]
    /\ UNCHANGED counts

-----------------------------------------------------------------------------
(***************************************************************************)
(* SET, with and without options, and SetWithHLC.                          *)
(***************************************************************************)
Meets(condition, k) == /\ condition = "NX" => data[k] = Absent
                       /\ condition = "XX" => data[k] # Absent

\* Mistake: the deadline stays with the key.
KeepsDeadline(k) == expiry[k]

\* A SET without EX or KEEPTTL clears the deadline of a key it overwrites.
ClearsDeadline(k) == IF data[k] = Absent THEN expiry[k] ELSE NoDeadline

Kept(k) == IF data[k] = Absent THEN NoDeadline ELSE meant[k]

Set(c, k, condition, size) ==
    /\ Meets(condition, k)
    /\ ~WouldExceed(size - data[k])
    /\ \/ Write(c, k, size, ClearsDeadline(k), NoDeadline)
       \/ \E ttl \in TTLs : Write(c, k, size, now + ttl, now + ttl)
       \/ Write(c, k, size, expiry[k], Kept(k))                \* KEEPTTL

\* GETSET: a string only, no limit, and the deadline stays.
GetSet(c, k, size) == /\ k \notin hashes
                      /\ Write(c, k, size, expiry[k], Kept(k))

\* Accounted before the unlock; the deadline stays.
Rewrite(c, k, size) ==
    /\ Store(c, k, size, expiry[k], Kept(k))
    /\ counts' = Plus(counts, Accounted(Growth(k, size)))
    /\ UNCHANGED calls

\* INCR, DECR and APPEND.
IncrBy(c, k, size) == /\ k \notin hashes
                      /\ Rewrite(c, k, size)
                      /\ UNCHANGED hashes

(***************************************************************************)
(* HSET, HMSET and HINCRBY: a new hash is refused beyond the limit, of 0   *)
(* too; HDEL removes the key with its last field, and not its deadline.    *)
(***************************************************************************)
HSet(c, k, size) ==
    /\ IF data[k] = Absent THEN counts.memory + size <= MaxMemory
                           ELSE k \in hashes
    /\ Rewrite(c, k, size)
    /\ hashes' = hashes \cup {k}

HDel(c, k) ==
    /\ k \in hashes
    /\ \E size \in Sizes : /\ size < data[k]
                          /\ Rewrite(c, k, size)
    /\ UNCHANGED hashes

Freed(k) == [keys |-> -1, memory |-> -data[k]]

HDelLast(c, k) ==
    /\ Begins(c)
    /\ k \in hashes
    /\ data' = [data EXCEPT ![k] = Absent]
    /\ hashes' = hashes \ {k}
    /\ meant' = [meant EXCEPT ![k] = NoDeadline]
    /\ astray' = astray \cup Disturbed(Clients \ {c}, {k})
                      \cup {j \in {k} : expiry[j] # NoDeadline}
    /\ counts' = Plus(counts, Freed(k))
    /\ cleared' = (cleared \/ Clearing)
    /\ UNCHANGED <<now, expiry, calls, found, queue, pending, reaped>>

(***************************************************************************)
(* DEL: Delete takes the deadline away last, DeleteWithHLC with the value. *)
(***************************************************************************)
RemoveKey(c, k, deadline, deletes) ==
    /\ Begins(c)
    /\ data[k] # Absent
    /\ data' = [data EXCEPT ![k] = Absent]
    /\ hashes' = hashes \ {k}
    /\ expiry' = [expiry EXCEPT ![k] = deadline]
    /\ meant' = [meant EXCEPT ![k] = NoDeadline]
    /\ calls' = [calls EXCEPT ![c] =
          Accounting(k, Freed(k), deletes)]
    /\ Notes(Clients \ {c}, {k})
    /\ cleared' = (cleared \/ Clearing)
    /\ UNCHANGED <<now, found, queue, counts, pending, reaped>>

Delete(c, k) == RemoveKey(c, k, expiry[k], TRUE)

DeleteWithHLC(c, k) == RemoveKey(c, k, NoDeadline, FALSE)

Account(c) ==
    /\ calls[c].phase = "account"
    /\ counts' = Plus(counts, Accounted(calls[c].delta))
    /\ calls' = [calls EXCEPT ![c] =
          IF @.deletes THEN [@ EXCEPT !.phase = "undeadline"] ELSE Idle]
    /\ UNCHANGED <<now, data, hashes, expiry, called, found, queue, pending,
                   meant, astray, reaped, cleared>>

RemoveDeadline(c) ==
    /\ calls[c].phase = "undeadline"
    /\ expiry' = [expiry EXCEPT ![calls[c].key] = NoDeadline]
    /\ calls' = [calls EXCEPT ![c] = Idle]
    /\ UNCHANGED <<now, data, hashes, called, found, queue, counts, pending,
                   meant, astray, reaped, cleared>>

-----------------------------------------------------------------------------
(***************************************************************************)
(* EXPIRE and PEXPIRE: the key is looked up under one lock, the deadline   *)
(* stored under the other.  PERSIST looks at the deadline only.            *)
(***************************************************************************)
CheckKey(c, k, ttl) ==
    /\ Begins(c)
    /\ data[k] # Absent
    /\ calls' = [calls EXCEPT ![c] = [phase |-> "checked", key |-> k,
                                      deadline |-> now + ttl]]
    /\ UNCHANGED <<now, data, hashes, expiry, found, queue, counts, pending,
                   meant, astray, reaped, cleared>>

SetDeadline(c) ==
    /\ calls[c].phase = "checked"
    /\ LET k == calls[c].key
           deadline == calls[c].deadline
       IN  /\ expiry' = [expiry EXCEPT ![k] = deadline]
           /\ meant' = [meant EXCEPT ![k] =
                 IF data[k] = Absent THEN @ ELSE deadline]
           /\ Notes(Clients \ {c}, {k})
    /\ calls' = [calls EXCEPT ![c] = Idle]
    /\ UNCHANGED <<now, data, hashes, called, found, queue, counts, pending,
                   reaped, cleared>>

RemoveExpiry(c, k) ==
    /\ Begins(c)
    /\ expiry[k] # NoDeadline
    /\ expiry' = [expiry EXCEPT ![k] = NoDeadline]
    /\ meant' = [meant EXCEPT ![k] = NoDeadline]
    /\ Notes(Clients \ {c}, {k})
    /\ UNCHANGED <<now, data, hashes, calls, found, queue, counts, pending,
                   reaped, cleared>>

(***************************************************************************)
(* FLUSHALL: the data, the deadlines, the counters (shard after shard in   *)
(* the code; several keys of the model are keys of one shard).             *)
(***************************************************************************)
ClearData(c) ==
    /\ Begins(c)
    /\ data' = [k \in Keys |-> Absent]
    /\ hashes' = {}
    /\ meant' = [k \in Keys |-> NoDeadline]
    /\ calls' = [calls EXCEPT ![c] = [phase |-> "clearExpiry"]]
    /\ Notes(Clients \ {c}, Keys)
    /\ cleared' = (cleared \/ pending # Zero \/ Clearing
                           \/ \E d \in Clients : calls[d].phase = "account")
    /\ UNCHANGED <<now, expiry, found, queue, counts, pending, reaped>>

ClearExpiry(c) ==
    /\ calls[c].phase = "clearExpiry"
    /\ expiry' = [k \in Keys |-> NoDeadline]
    /\ calls' = [calls EXCEPT ![c] = [phase |-> "clearCounts"]]
    /\ UNCHANGED <<now, data, hashes, called, found, queue, counts, pending,
                   meant, astray, reaped, cleared>>

ClearCounts(c) ==
    /\ calls[c].phase = "clearCounts"
    /\ counts' = Zero
    /\ reaped' = 0
    /\ calls' = [calls EXCEPT ![c] = Idle]
    /\ UNCHANGED <<now, data, hashes, expiry, called, found, queue, pending,
                   meant, astray, cleared>>

-----------------------------------------------------------------------------
(***************************************************************************)
(* The cleaner collects expired keys and queues them; the batch processor  *)
(* deletes them later, or the cleaner itself when the queue is full.       *)
(***************************************************************************)
Scan == /\ found = {}
        /\ found' = {k \in Keys : Due(expiry[k])}
        /\ found' # {}
        /\ UNCHANGED <<now, data, hashes, expiry, calls, called, queue,
                       counts, pending, meant, astray, reaped, cleared>>

QueueExpiredDeletion(k) ==
    /\ k \in found
    /\ Len(queue) < QueueSize + BatchSize
    /\ found' = found \ {k}
    /\ queue' = Append(queue, k)
    /\ UNCHANGED <<now, data, hashes, expiry, calls, called, counts, pending,
                   meant, astray, reaped, cleared>>

\* Mistake: the key is taken for expired because it was queued.
StillQueued(k) == data[k] # Absent

StillExpired(k) == data[k] # Absent /\ Due(expiry[k])

\* deleteExpiredDirect: check and deletion under shard.mu.  MemoryUsage of a
\* string counts the key, and the update counts it again.
DeleteExpired(k) ==
    IF StillExpired(k)
    THEN /\ data' = [data EXCEPT ![k] = Absent]
         /\ hashes' = hashes \ {k}
         /\ expiry' = [expiry EXCEPT ![k] = NoDeadline]
         /\ meant' = [meant EXCEPT ![k] = NoDeadline]
         /\ pending' = Plus(pending, [keys   |-> -1,
                                      memory |-> -(KeyLen + data[k])])
         /\ Notes(Clients, {k})
         /\ reaped' = reaped + 1
         /\ cleared' = (cleared \/ Clearing)
    ELSE UNCHANGED <<data, hashes, expiry, meant, pending, astray, reaped,
                     cleared>>

ReapQueued == /\ queue # <<>>
              /\ DeleteExpired(Head(queue))
              /\ queue' = Tail(queue)
              /\ UNCHANGED <<now, calls, called, found, counts>>

\* The channel can be full from QueueSize operations on; the batch has the rest.
ReapDirectly(k) == /\ k \in found
                   /\ Len(queue) >= QueueSize
                   /\ DeleteExpired(k)
                   /\ found' = found \ {k}
                   /\ UNCHANGED <<now, calls, called, queue, counts>>

\* flushShardUpdates.
FlushMetrics ==
    /\ pending # Zero
    /\ counts' = Plus(counts, pending)
    /\ pending' = Zero
    /\ UNCHANGED <<now, data, hashes, expiry, calls, called, found, queue,
                   meant, astray, reaped, cleared>>

Tick == /\ now < MaxTime
        /\ now' = now + 1
        /\ UNCHANGED <<data, hashes, expiry, calls, called, found, queue,
                       counts, pending, meant, astray, reaped, cleared>>

-----------------------------------------------------------------------------
Command(c) ==
    \/ \E k \in Keys, size \in Sizes :
          \/ \E condition \in {"", "NX", "XX"} : Set(c, k, condition, size)
          \/ GetSet(c, k, size)
          \/ IncrBy(c, k, size)
          \/ HSet(c, k, size)
    \/ \E k \in Keys : \/ Delete(c, k) \/ DeleteWithHLC(c, k)
                       \/ HDel(c, k) \/ HDelLast(c, k)
                       \/ \E ttl \in TTLs : CheckKey(c, k, ttl)
                       \/ RemoveExpiry(c, k)
    \/ Account(c) \/ RemoveDeadline(c) \/ SetDeadline(c)
    \/ ClearData(c) \/ ClearExpiry(c) \/ ClearCounts(c)

Reap == ReapQueued \/ \E k \in Keys : ReapDirectly(k)

Next == \/ \E c \in Clients : Command(c)
        \/ Scan \/ (\E k \in Keys : QueueExpiredDeletion(k)) \/ Reap
        \/ FlushMetrics
        \/ Tick

Spec == Init /\ [][Next]_vars

(***************************************************************************)
(* Fairness: the cleaner and the batch processor are goroutines of the     *)
(* store, on tickers of a minute and of 10 ms.  None is asked of commands  *)
(* or of the metrics.                                                      *)
(***************************************************************************)
Fairness == /\ WF_vars(Scan)
            /\ WF_vars(\E k \in Keys : \/ QueueExpiredDeletion(k)
                                       \/ ReapDirectly(k))
            /\ WF_vars(ReapQueued)

FairSpec == Spec /\ Fairness

-----------------------------------------------------------------------------
Settled == pending = Zero /\ \A c \in Clients : calls[c] = Idle

(***************************************************************************)
(* The cleaner takes a value only after the deadline the commands gave to  *)
(* that value: "in that window a SET may have rewritten the key and        *)
(* cleared or renewed its TTL ... otherwise we would destroy a fresh       *)
(* value" (expiry_batch.go:160-164).  Keys that were changed while a       *)
(* Delete, SetExpiry or FLUSHALL of the key was half-way, or whose hash    *)
(* lost its last field, are left out: there the code does not keep it.     *)
(***************************************************************************)
ReapedOnlyWhenDue ==
    [][\A k \in Keys :
          (/\ data[k] # Absent /\ data'[k] = Absent
           /\ UNCHANGED <<calls, called>>
           /\ k \notin astray)
          => (meant[k] # NoDeadline /\ now > meant[k])]_vars

(***************************************************************************)
(* When no command is under way, shard.expiry and shard.data agree: a      *)
(* value has the deadline it was given last, and no deadline outlives its  *)
(* key to be inherited by the next value (string_operations.go:139-149,    *)
(* 220-225); whatever was queued or reaped meanwhile.                      *)
(***************************************************************************)
DeadlinesFollowValues ==
    Settled => \A k \in Keys \ astray : expiry[k] = meant[k]

(***************************************************************************)
(* Once everything is accounted, the counters say what the map holds:      *)
(* "every mutation must move the four counters together so they never      *)
(* drift" (store.go:496-499), with creations, overwrites, deletions and    *)
(* reaping in any order.  Memory is off by the name of each key reaped     *)
(* since the last FLUSHALL, counted out twice (expiry_batch.go:201-204),   *)
(* and, with strings and hashes, by nothing else.  Left out: a FLUSHALL    *)
(* that overlaps with another command or with updates still pending.       *)
(***************************************************************************)
Present == {k \in Keys : data[k] # Absent}

Bytes == UNION {{k} \X (1 .. data[k]) : k \in Keys}

CountersMatchMap ==
    (Settled /\ ~cleared) =>
        /\ counts.keys = Cardinality(Present)
        /\ counts.memory = Cardinality(Bytes) - KeyLen * reaped

(***************************************************************************)
(* A key past its deadline does not stay: the cleaner gets it, however     *)
(* full the queue is (startExpirationCleanup, QueueExpiredDeletion).       *)
(***************************************************************************)
ExpiredKeysGo ==
    \A k \in Keys :
        (data[k] # Absent /\ now > expiry[k] /\ expiry[k] # NoDeadline)
            ~> (data[k] = Absent \/ expiry[k] = NoDeadline \/ now <= expiry[k])

=============================================================================
