# Reservoir in TLA+

A specification of the parts of Reservoir whose correctness depends on order:
replication and its clock, for strings and for sets; the bookkeeping that keeps an
event until it is sent; leader election; the commit log; the life of a key; deferred
commands; lists and their ring buffer; connection limits. The modules are translated
from the Go source under `src/`; paths below are relative to it, `store/`,
`cluster/`, `server/`, `commands/` and `connection/` being under `internal/`.
`PROJECT.json` maps every definition to the lines it models.

## The system

Reservoir is an in-memory key-value store speaking RESP, with an optional commit
log and an optional cluster of equal nodes that replicate every write to each
other. One process is one node.

| Component | State it keeps | Operations | Modelled in |
|---|---|---|---|
| Hybrid logical clock (`pkg/types/hlc.go`) | last timestamp (physical, uint32 logical) | `Now`, `Update` | `HLC` |
| Last-write-wins string store (`store/lww.go`, `store/string_operations.go`) | value and version per key, tombstones | `SetWithHLC`, `DeleteWithHLC`, plain `Set`/`Delete`, `ShardLWWDigest`, `gcTombstones` | `LWWKey` |
| Replication (`server/handler.go`, `server/replication.go`, `cluster/cluster.go`, `cluster/handlers.go`, `cluster/antientropy.go`) | queues of events, messages | client callback, push, resend, digest request and response | `StringReplication`, `MixedReplication`, `SetReplication`; promise in `ReplicatedStore` |
| Set CRDT (`store/crdt_set.go`, `store/set_operations.go`) | members, add and remove stamps, key tombstone | `SADD`, `SREM`, `SPOP`, `DEL`, `SDIFFSTORE`, digest, collection | `SetReplication` |
| Retry bookkeeping (`cluster/cluster.go:591-1248`) | replication queue, failed events, retry queue, persistent queue | batch, send, track, retry, back off, give up, reconcile, clean up | `Delivery` |
| Membership and election (`cluster/cluster.go`, `handlers.go`, `node.go`) | members, term, vote, state, leader, timer, state file | join, heartbeat, evict, campaign, vote, crash, restart | `Election` |
| Commit log (`internal/commitlog`, its callers in `store`, recovery in `server/server.go`) | channel, batch, segment files, replay | `Write`, `Delete`, flush, rotate, compact, recover | `CommitLog` |
| Life of a key (`store/string_operations.go`, `store/hash_operations.go`, `store/store.go`, `store/expiry_batch.go`) | data, deadlines, counters, expiry queue | `Set`, `SetWithOptions`, `GetSet`, `IncrBy`, `HSet`, `HDel`, `Delete`, `SetExpiry`, `RemoveExpiry`, `Clear`, the cleaner | `KeyLifetime` |
| Deferred commands (`store/deferred.go`, `commands/deferred_commands.go`) | commands by id and by second | `DEFER`, `DEFER.CANCEL`, tick, execute, replicate | `Deferred` |
| Lists and the deque (`store/list_operations.go`, `list_types.go`, `deque.go`) | slots, head, tail, count, cached size; accounted memory | pushes, pops, `LSET`, `LREM`, `LTRIM`, `LRANGE`, `LINDEX`, unique and X pushes | `Deque`, `Lists`; promise in `AbstractList` |
| Connection limits (`connection/manager.go`, `server/server.go`) | total, per-address counts, rates | accept, check, add, remove, stop | `Connections` |
| Parser (`protocol/parser.go`) | a pooled buffer that stored keys and values may be views of | | not modelled but in `Deferred`; elsewhere it is assumed that they keep their bytes |
| UI, metrics, configuration, logging, errors, hash functions, vector clock | none the data depends on | | not modelled |

How they interact. A connection is accepted by `acceptLoop`, checked against the
limits, and served by a goroutine of its own that counts it. That goroutine runs a
command against the store and then calls the replication callback
(`server/handler.go:117`), which draws a stamp from the clock, applies the write
again under last-write-wins, and queues an event. `replicationLoop` broadcasts
batches of events and files what a peer's connection refused; `retryLoop` and
`reconciliationLoop` send that again. `processLoop`, one goroutine per node,
handles everything that arrives, one message after the other. Every two seconds
`antiEntropyLoop` asks a random peer for the digest of one shard and merges the
answer. The store writes SET, DEL, INCR, EXPIRE, PERSIST and FLUSHALL to the commit log (and in a
cluster, from the callback, SADD and SREM), whose single
worker writes and compacts the segment files; a start replays them beside the
first clients' commands. `electionLoop`, `heartbeatLoop` and `healthCheckLoop` share
the membership and the term with `processLoop`. Each store has a cleaner, an expiry
batch processor and a scheduler of deferred commands.

What is hard here, and what the properties are for: goroutines that interleave
between two locks (a callback, a log call after a store change, an expiry queue);
objects two loops hold by pointer; messages lost, repeated and reordered; clocks that
stand still or step back; crashes between two file operations; queues at their limit;
voting state that outlives a process; a timer that nobody sets again; a ring buffer
that wraps, grows and is rebuilt. `PROJECT.json` lists these hazards at their lines
with the properties that watch them.

What makes each component correct: replicas that took in the same writes are equal
and one newest write wins (strings), the members of a set are those its stamps say
and settle alike (sets), nothing not yet sent is forgotten (retries), one vote per
term and a leader after a failure (election), a log that rebuilds the store (commit
log), deadlines that belong to values and counters that add up (life of a key), two
indexes that agree (deferred), a buffer that is a list (lists), counts that are those
of the connections (limits).

## Modules

Each module is one component; a composition EXTENDS or INSTANCEs the parts.

    HLC <- LWWKey <- StringReplication <- MixedReplication
                     StringReplication : INSTANCE ReplicatedStore   (refinement)
    HLC <- SetReplication
    Deque <- Lists : INSTANCE AbstractList                          (refinement)
    Delivery   Deferred   Election   CommitLog   KeyLifetime   Connections

- `HLC` -- timestamps, stamps, their order, `Now` and `Update`, with the width of
  the logical counter as the constant `LogicalMod`.
- `LWWKey` -- one string key as a record of value, version and tombstone; each
  operator is one critical section under the shard lock.
- `ReplicatedStore` -- the abstract promise: a set of issued writes, no two with the
  same stamp; each node shows, per key, nothing or one issued write, and only moves
  to a newer one.
- `StringReplication` -- SET and DEL in a cluster. `NextStamp`, `ApplyLocal` and
  `QueueReplicationLWW` are the callback's three steps; `SendBatch` and
  `SendBatchFails` the outgoing side; `ReceivePush` and `ApplyPush` the two halves of
  `handleReplicationPush`; `SyncReply` and `SyncResponse` anti-entropy. `issued` and
  `seen` are history variables. It INSTANCEs `ReplicatedStore` as `Promise`.
- `MixedReplication` -- extends it with the writes that reach a key without a stamp
  (MSET, GETSET, APPEND, SET with options; INCR and DECR) and with restarts from
  the commit log under a fresh node id.
- `SetReplication` -- one set key in a cluster. A command is its plain part (`SAdd`,
  `SRem`, `SPop`; `Del` has none), then `NextStamp` and `ApplyLocal`, the callback;
  `SDiffStore` replaces the set and sends no stamp. `ReceivePush` and `Handle` take an
  event in; a digest (`SyncReply`, `SyncResponse`) names per element the stamp that won,
  and goes through `Handle` element by element; `Collect` is `gcTombstones`. `excused`
  records the removals whose stamp their node forgot, `replaced` an SDIFFSTORE.
- `Delivery` -- the loops of one sender, the transport's connections (`Disconnect`, `Reconnect`) and
  `cm.nodes` (`Evict`), which say whom a send goes to: `QueueReplication`, then `replicationLoop`
  (`Collect`, `BroadcastAll`, `SendIndividually`, and `trackReplicationFailure` as
  `FindObject` and `CountAndSchedule`), `retryLoop` (`TakeRetry`, `SendDirectly`,
  `Requeue`, `JudgeDirect`, `GiveUp`, ..., `ProcessRetryQueue`), `reconciliationLoop`
  (`GetPending`, `Reoffer`, `RemoveSuccessful`) and `CleanupStale`. Failed events are objects
  in a heap, because the map, the queue and two loops share them by pointer.
- `Deferred` -- on each node the map and the index of the scheduler; a tick
  (`CollectReady`) takes what is ready under the lock, second by second, `Execute` runs it
  without, one command after the other. A text
  is the sequence of its parts between colons, since an event joins its arguments by
  colons and the receiver splits it there. `Reads` says what the texts of the node the client is
  connected to may read when the command runs, since they view a pooled buffer; `moment` where in its
  second a DEFER came.
- `Deque` -- the ring buffer slot by slot, as operators. `Lists` -- every list command on
  one key with its rollback, answer and accounting, a push of several being the recursive
  function in `Added`; a command holds the shard lock
  throughout and is one action. `AbstractList` -- the same commands on a sequence. Both keep in `asked`
  which command ran with which arguments, so that a step of the one is the same command of the other,
  and not some command that happens to have its effect; only a push may be refused or lost.
- `Connections` -- `Accept` and `Admit` in the accept loop, `AddConnection` and
  `RemoveConnection` in the handler's goroutine, `RateExpires`, and the three ways through
  `Stop`. `burst` records that a connection was admitted before an earlier one was
  counted.
- `Election` -- seats (addresses with a state file) and the processes that run there.
  `startElection` runs beside `processLoop` without a lock, so it takes one step per store:
  `BeginElection`, `RaiseTerm`, `VoteForSelf`, `ReadBallot` and `WriteBallot` (`persistState`),
  `MoveElectionTerm`, `ForgetWin`, `EmptyTally`, `RequestVotes`. A vote request is `HandleVoteRequest` (the
  decision), `StoreVote`, `ReadDecision` and `AnswerVote`; an answer is `HandleVoteResponse` and
  `CountVote`. `overtaken` and `late` record the two races the properties name.
- `CommitLog` -- one server's store calls, queue, files, compaction and recovery, of a server without a
  cluster and of keys that only commands with a log entry touch. `torn` and `inOrder` are history variables.
- `KeyLifetime` -- the commands on string and hash keys of one store, the cleaner, the
  expiry batch and the counters. An action is one critical section under `shard.mu` or
  `shard.expiryMu`, or one update of the counters: `Delete`, `Account` and
  `RemoveDeadline` are the three parts of the code's `Delete`; `CheckKey` and
  `SetDeadline` the two of `SetExpiry`; `ClearData`, `ClearExpiry` and `ClearCounts`
  those of `Clear`. INCR, APPEND and the hash commands account before they unlock, and are
  one action. `meant`, `astray`, `reaped` and `cleared` are history variables.
- `...Proofs` -- the theorems about a module.
- `MC...` -- node sets and symmetry for TLC. Definitions introduced by a comment
  "Mistake:" are what a plausible slip in the code would compute; no action uses
  them, and each breaks the property `PROJECT.json` pairs it with.

Abstractions that matter. Values, keys and members are model values; an element of a
list is its length. Node ids are numbers because origins are compared. A shard is not
visible: keys are independent, but for FLUSHALL, which clears them one at a time. In
`StringReplication` a batch of events is sent event by event, and a digest is taken key
by key: between the keys of a shard the code holds the lock, but no property relates
two keys of a digest. In `Election` messages of a connection keep their order; in the
replication modules they do not, because an event may be sent again. The replication
modules say what becomes of an event that the transport took or lost, `Delivery` how long
the sender keeps one the outgoing queue did not take: an event of the former waits "on the network"
for the time it spends in the latter, and one that `Delivery` notes as `skipped`, or that `sendLoop` drops,
is a lost push there. Histories (`astray`, `excused`, `slipped`, `burst`, `filled`, ...)
are updated beside the code's variables and read by no guard.

## Runs

| Run | Expect | Question |
|---|---|---|
| `StringHealed` | pass | Do replicas converge, is the abstract store implemented, is a lost push healed by anti-entropy? Also checks the inductive invariant of the proofs, with stores that refuse writes for lack of memory |
| `MixedTurns` | pass | Plain writes, counters, resends and restarts, one of them per behaviour: stamps stay unique, a deleted key shows no older write although a plain one covers the tombstone, the plain half of a command leaves no trace |
| `Sets` | pass | Are the members of a set those its stamps say; do replicas settle alike, with the last add in and what was removed out? |
| `Delivery` | pass | Is an event kept until the outgoing queue took it for each peer or a send passed the peer over, and does one of these happen in the end? |
| `Deferred` | pass | Do map and index agree; does what is cancelled not run, what runs was asked for, and everything else run? |
| `Lists` | pass | Does each command, with the arguments given, do to the ring buffer and answer what it does to a list; is its memory accounted, and when can a push panic? |
| `Connections` | pass | Are the counts right, do the limits hold, what does a graceful stop leave behind? |
| `ElectionVotes` | pass | With `startElection` and the vote handlers interleaved: one grant per seat, one vote per process and term, no vote of another term counted, grants on disk before they are sent, each but for the race it names |
| `ElectionFailover` | violation | Is there a leader again and again while a process stays up? No: a seat joins, the seed stops, and the join response has lost the joiner's timer, so it never campaigns |
| `CommitLogKept` | pass | Does the log keep the newest writes through rotation, compaction and crashes, and rebuild the keys no two commands were on at once? |
| `CommitLogCompaction` | violation | Is compaction invisible for every command? Not for EXPIRE: of SET, EXPIRE and EXPIRE in three segments, compaction of the first two leaves no SET to replay |
| `KeyLifetime` | pass | Are only expired values reaped, do deadlines follow their values, do the counters add up, and does an expired key go at last? |

Why the two violations are disagreements with the repository is in `PROJECT.json`
"findings", each with the line it contradicts.

What the conditional properties leave out, and why. Several properties name the one
way the code has to break them, so that what they show is that there is no other:
`NothingForgotten` excepts a queue that dropped something and an event persisted again
before the reconciliation removed it by id (`slipped`), and peers that a send passed over without an error
(`skipped`); `LimitsHoldUnlessBurst` a burst;
`RemovalsHold` the removals in `excused`; `SettledAlike` orphans, members whose stamps
were collected; `AddsPrevail` keys that a DEL or SDIFFSTORE touched; `VotesOncePerTerm` processes that
granted a vote during their own `startElection` (`overtaken`), `TallyIsHonest` those that counted an answer
across the move of `electionTerm` (`late`); `LogMatchesStore` keys of commands that overlapped, fell into a
recovery or lost their entry (`torn`), and with `CompactionIsInvisible` entries queued out of order;
`RunsWhatWasAsked` the texts of the home node and keys with a colon; the deadlines of
`KeyLifetime` the keys in `astray`; `CancelledStays` and `IndexesAgree` ids whose DEFER came
twice; `MemoryIsAccounted` states the drift of refused pushes exactly. Each exception is
listed under "Differences from the docs" below.

### Bounds

- `StringHealed`: two nodes, one key (keys do not interact), one value and deletion,
  two writes, the least that conflict; one resend, one digest per pair on its way. `Time`
  is what any wall clock may read at any moment, so with two readings clocks jump both
  ways and stand still. `MemoryLimited` lets a store refuse a SET. The runs stay below the
  wrap of the logical counter (a guard on `NextStamp` and `ReceivePush`): with 2^32
  values per nanosecond of physical time the code relies on the same.
- `MixedTurns`: one turn of the extra kinds, two writes that get a stamp, a counter beside them
  (`DEL`, `INCR` and a `SET` that comes late is what `DeletionsHold` is about); the third node is the process
  that starts after a restart. A clock that stands still makes stamps as close as they get.
- `Sets`: one element (the stamps of two do not meet, but for DEL and the collection,
  which take the whole key). Three commands on elements, or one of them and one on
  the whole set, are within `Budget` 3: an add, a remove and an add again is the shortest
  history in which all three stamps matter. One digest on its way and one collection.
- `Delivery`: two events for two peers and every queue of size one, so that each is at its
  limit while the other event is in hand; the event given up after two failures; two of: a
  refused send, a lost connection, an evicted peer. `Forgotten` 1 of 1 is what the code does at 10000 of 10000, for 1000.
  Retry delays are free choices: a retry may come at any time.
- `Deferred`: two nodes, two DEFERs, delays 0 and 1, seconds 0 and 1 in two moments each, so that two
  commands share a second, a late tick finds two seconds, and a command may run early within its second;
  keys with and without a colon; one event that arrives once more; one text left by later commands.
- `Lists`: elements of two lengths, buffers of two slots that grow to four and eight,
  lists of up to four, indices from -2 to 2 (beyond both ends of a short list), a
  size limit of 9 that refuses a push that would fit, one refusal per behaviour.
- `Connections`: four connections, three from one address, limits of two and two and a rate
  of three: both limits and the rate are reached, alone and together.
- `ElectionVotes`: a seed and two seats that join through it, which are symmetric (seats are only
  compared). `MaxEvents` counts starts and losses, a crash needing room for the start after it: three
  let all seats start, or two and one of them again. `MaxElections` 2 lets two candidates meet, or one stand twice. `Tells` leaves out heartbeats that
  would change nothing, and `MaxQueue` those behind another message: a heartbeat
  sent later says the same or more. `MaxBusy` 1 keeps a second process out of `startElection` and the vote
  handlers while a first is inside: all but the last of their steps change only the process's own memory
  and file, so two processes meet in their messages alone, and within a process the two goroutines
  still interleave store by store. The theorems are for any values of these.
- `CommitLogKept`: SET, DEL, EXPIRE and FLUSHALL; `MaxSegmentSize` 1 and `BatchSize` 2, so three entries make closed
  segments to compact while a fourth place is current; two keys, so that the
  current segment need not mention the compacted key; channel of one, so it fills.
  Two restarts: one to interrupt a compaction, one to read what the recovered
  process made of it. Connections, keys and values are symmetric (only compared).
- `KeyLifetime`: four commands on one key are the least for SET with EX, DEL, SET and
  a fourth beside them; keys meet only in the counters and in the queue, which
  repeated operations of one key fill as well. Queue and batch of one make
  the direct path of `QueueExpiredDeletion` happen; `MaxMemory` 3 is the larger
  value, so a write is refused while a deletion is not accounted. Four ticks let a
  value expire, be written again and expire again.

Deadlock is checked for `Lists`, where there is always a next command; the other
runs are bounded and end.

### Fairness

Safety is checked without fairness. `StringReplication!FairSpec` asks that
callbacks and handlers finish (goroutines are scheduled) and that, of the digest
exchanges between each pair of nodes, some get through: the loop retries every two
seconds with a random peer and rotates over the shards, so an exchange that is
possible again and again happens (strong fairness on the response, since a later
message may have to go first). Nothing is asked of the push path, so
`EventuallyHealed` holds even if every push is lost. `Delivery!FairSpec` asks that each
loop runs; strong fairness on a retry that is due and on a pass over the failed events,
because Go picks at random between a ready queue and a ready ticker, and time passes.
That refusals end is the bound `MaxRefusals`: an outgoing queue that `sendLoop` empties has room again.
Nothing is asked of `Reconnect`.
`Deferred!Spec` asks that each scheduler runs, after a tick that may be late, and
that time passes. `Election!FairSpec` asks that a process that stays up runs its loops
and handles its messages; starts, crashes and losses are never forced.
`KeyLifetime!FairSpec` asks that the cleaner's ticker comes and that the cleaner and the
batch processor go on; commands may stop half-way.

## Proofs

**`ReplicationProofs`**, about `StringReplication`, for any nodes, keys, values, clock readings
and bounds, under the named assumptions of the modules (node ids are positive
integers, `NoVal` is not a value, wall clocks read positive integers, the bounds
are natural numbers, `LogicalMod` is positive): `Invariance` (`Spec => []IInv`),
`TypeCorrect`, `UniqueStamps`, `NewestWins`, `Convergence` (the safety properties) and
`Refinement` (`Spec => ImplementsPromise`).
`StoreIsNewestSeen` is not inductive: that a store shows the newest
of the writes it has seen is preserved by a new write only if stamps are unique,
and stamps are unique only if a node's clock is never behind a stamp it gave out,
and if whatever is on its way was issued. `IInv` is the conjunction of these:
types, `ClockCoversIssued`, `StampsIdentifyWrites`, `OnlyIssued`, `StoresShowNewest`.
The lemmas on the way are that the stamp order is a strict total order, that
`Now` and `Update` advance the clock (this is where the guard against the wrap is
used), and what `Apply` and `Digest` do to a key that shows a given write. For
the refinement, `NextStamp` issues a write whose stamp nobody has, the three
actions that apply a write adopt a newer one or stutter, and all others stutter.

and about `MixedReplication`, with the same lemmas on stamps and on what
a key shows: `MInvariance`, `StampsStayUnique` (`StampsSurviveRestarts`), `DeletionsStay`
(`DeletionsHold`) and `PlainHalvesVanish`
(`PlainWritesLeaveNoTrace`). Stamps stay unique because a new process has an id under which
nothing was stamped (`Fresh`) and a running one a clock that covers its own stamps; a
deletion always travels with its stamp (`Carried`). A deletion a node took in is either answered by a
stamped SET not older that it also took in (`Outdated`), or its tombstone, or a newer one, stands (`Guards`),
whatever value a plain write has put beside it: a plain write removes no tombstone, and a stamped SET
only one it beats. The last theorem needs more (`Pushed`):
every issued write was seen by every running node or is on its way to it, a clock covers what
its node saw or has in hand, and each key shows the newest write seen, or a callback is still to come,
or a stamped write of the node that is newer than all the key does not cover. It is
stated under `~MemoryLimited`: a store that refuses a write stays apart from the others until
anti-entropy, so without that hypothesis the property is false.

**`SetReplicationProofs`**, for any nodes, elements, clock readings and bounds: `Invariance`,
`TypeCorrect`, `MembersFollowStamps` (`WinnersAreMembers`), `RemovalsAreKept` (`RemovalsHold`),
`SettledNodesAgree` (`SettledAlike`) and `LastAddPrevails` (`AddsPrevail`). The stamps a set
keeps are those of commands on the element (`Traced`), what travels says what some command did
(`Carried`), and a node's clock covers the stamps it drew, each drawn once (`Drawn`). From
these, a removal that was applied at its node is held there, and an add kept: by its
own stamp or a later one, by a newer command of the other kind, or by a plain part whose callback is
to come (`Held`, `Kept`). That settled nodes agree needs no history: two well-formed sets whose
digests change nothing of each other have the same winner per element.

**`DeliveryProofs`**, for any events, peers and sizes of the queues: `Invariance`, `TypeCorrect`
and `NoneForgotten` (`NothingForgotten`). `NothingForgotten` counts the map of failed events
among the places that keep an event, and the map is emptied by EventID whatever object it holds:
the invariant shows that it is not needed. An issued event is in the persistent queue or
`Coming`: taken or passed over by a send, in a queue or batch, refused, tracked, in an object of the retry queue, or in the
object `retryLoop` has in hand (`InPlay`); and what reconciliation is about to remove from the
persistent queue is `Coming` too (`Reoffered`). A step owes only that what is coming stays so or
is persisted, and that the persistent queue loses only what reconciliation removes
(`OwedSuffices`). Objects
are shared, so `ComingChanged` says what a change of one object's nodes does to everyone
who holds it.

**`ElectionProofs`**, for any seats, starts, losses and elections: `Invariance`, `OneVotePerTerm`
(`VotesOncePerTerm`), `OneCandidatePerProcess`, `HonestTally` (`TallyIsHonest`) and
`DurableGrants` (`GrantsAreDurable`), with `startElection` and the vote handlers interleaved store by
store. A JoinResponse takes the joiner's term back to the seed's and keeps its vote, so no property
of the pair of term and vote is inductive. What is, speaks of `votedFor` alone: once a seat granted its
vote, every copy of `votedFor` that may still be stored or written (in memory, read by one of the
two `persistState`s that may be half-way, in the file, decided and not yet stored) names the same
candidate or a process of the seat itself (`Bound`, with `Granting` and `Looping` for the two half-done
sequences). A process whose grants and elections did not overlap stands by one candidate, for a
grant loses its timer (`Loyal`). A tally is right because an answer in a queue or about to be counted was
given (`Messages`, `Counting`) and `electionTerm` is the term of the self-vote while `startElection` goes on.

**`ListsProofs`**, for buffers of any capacity, elements of any lengths, any limits and any
sequence of commands. On the buffer, `GrowKeepsContents`, `PushBackAppends`,
`PushFrontPrepends` and `RebuiltHolds` say what an operation does to the contents, and that head,
tail and count still agree modulo the capacity. The provers have no theory of the modulus by a
variable: one lemma says that an index goes round at most once (`ModOnce`), and each buffer is
taken apart into the wrapped and the contiguous case. On the commands, `ListsStaySound`
(`Spec => []LInv`), `BuffersAreWellFormed` (`TypeOK`), `MemoryIsCounted` (`MemoryIsAccounted`)
and `PanicsNeedATrim` (`PanicsOnlyOnceFilled`). `LInv` says that the buffer of a list that exists
is `Tidy` (the layout holds, unused slots are cleared, the cached size is that of the contents),
is not empty, has a slot for its tail unless an LTRIM filled it, and that the counters hold what it
takes. None of the three properties is inductive alone: the memory a command accounts is
right because the cached size is, and a push keeps the layout because the tail is a slot, or else it
panics. Three arguments are behind it. A size is the cardinality of a set of pairs (`Bytes`), so the
size of a concatenation is the sum (`SizeOfConcat`) without an induction. The loop of a push of several
is a recursive function, whose existence has to be proved, by a least length for which it has none
(`StepsExist`). And LREM keeps as many elements as it does not take, each in its place
(`Counting`).

`ListsImplementThePromise` (`ImplementsList`) is the refinement: each command is a step of
`AbstractList` on the contents of the buffer: the command that was given, with its elements, indices
and counts, and with its answer; there is no stuttering step. Where a push is refused, there is a size limit
(`Limited`); where one is lost, it goes to the back of a list. The mapping
(`Held`) is the contents, and no list is the empty one. There is a lemma for each command
(`LPushPromised` and so on), and it needs of the state only `LInv`. What they rest on: a push of
several in the buffer and the same on the sequence grow by one rule from one list, hence to the same
(`Grows`, `AllBackHolds`, `InFrontIs`); a push that is refused takes back just what it added
(`TakenBack`), a unique one does not and the promise says so; indices clipped in the
buffer and on the sequence select the same interval (`SliceIsPart`); and what LREM leaves is mapped
in order and one to one to the positions it did not choose (`WithoutKeeps`).

**`ConnectionsProofs`**, for any finite set of connections, any addresses and limits:
`Invariance`, `HonestCounts`, `LimitsHold`, `OneIsLate`. The limits need the fact that,
without a burst, at most one connection is admitted and not counted and there is room
for it (`RoomForTheAdmitted`); the late connection that of those the accept loop has in hand
there is one at most (`OneUnseen`). The counts need that the connections are finitely many.

**`KeyLifetimeProofs`**, for any connections, keys, lengths, TTLs, limits and queue sizes:
`Invariance`, `DeadlinesAreTrue` (`DeadlinesFollowValues`) and `ReapsAreDue`
(`ReapedOnlyWhenDue`). `DeadlinesFollowValues` speaks of states without a command under way
and says nothing of a step from any other. `IInv` (`Agrees`, per key) does: the deadline is
that of the value unless a deletion is half-way, and then there is no value; a
SetExpiry that is half-way still has one; no value, no deadline meant. Two commands
half-way through one key would break it, and those keys are noted in `astray` by every
action that changes a key, which is where the lemma `NotedUnless` enters each step.
For the counters, `NothingIsLost` and `CountersAreTrue` (`CountersMatchMap`).
`CountersMatchMap` holds when all is settled; in every state, what the counters show, what
the batch processor has pending and what commands half-way still owe add up to what the map holds, less
the name of each key reaped (`Balanced`), or else a FLUSHALL is half-way and there is nothing to
account (`Emptied`). Sums over clients and keys are cardinalities of sets of pairs, so that one step
changes one term (`SumChanges`), for any number of them.

**`DeferredProofs`**, for any nodes, keys, delays, numbers of commands and of events that
arrive again: `Invariance`, `TypeCorrect`, `MapAndIndexAgree` (`IndexesAgree`),
`CancelledNeverRuns` (`CancelledStays`) and `RunsAreAskedFor` (`RunsWhatWasAsked`). Both
properties of the two structures speak of sets, and a cancellation removes the first entry of a
sequence: it removes the command only if there is one entry. So the invariant (`Single`) says that a
command that came once has one entry in the index, or one among what a tick took, or has run, and
never two of these; the map holds it exactly when the index does. That an ID comes
once is `Given`: the nodes hold only IDs they got, and those given out so far. `Placed` puts
each entry under its own second, which is where a cancellation looks for it. What runs was asked for
because what is held and what travels was (`Wanted`, `Sent`), due before its second is over
(`Until`), and an event adds the delay to a time that is not before the sender's.

Assumptions. Besides those named: `None` is not a process (`Election`), the empty string is
not `NoVal` (`MixedReplication`), the queue sizes of `Delivery` are positive and the events
it forgets at a time no more than it holds, a text of `Deferred` is a sequence of parts and not
empty, and `NoList` is not a buffer (`Lists`). TLC evaluates each of them in the runs.

Only model-checked: liveness (`EventuallyHealed`, `KeptIsSent`, `DeferredRuns`,
`ExpiredKeysGo`; out of the prover's reach), and the three properties of `CommitLog`, whose
recovery sorts and folds over the entries of all files (`SetToSortSeq`, `FoldLeft`). Where
a proof needed a recursion or a sum (`Lists`, `AbstractList`, `KeyLifetime`), the model has a
recursive function, a cardinality or a map between positions in the place of a fold.

## Differences from the docs

Besides the two findings, met while modelling:

- Digests do not advance the clock (`cluster/antientropy.go:90`), though `hlc.go:80-81` and
  `lww.go:33-34` have every received stamp do so: a node can stamp a later write below the
  one it shows, and then loses it.
- INCR and DECR replicate no value (`commands/string_commands.go:231`; `README.md:235` lists
  them as replicated): `counter` in `MixedReplication`.
- A digest of a key written by MSET has the zero stamp and is applied as a plain write over a
  newer value (`lww.go:262`; `server/handler.go:120-122` has replicas settle on the last write). A plain
  write forgets the stamp of the value it replaces, and the next stamped SET is stored whatever its
  stamp (`lww.go:62`), unless a tombstone is newer (68-71): `DeletionsHold` is what is left.
- A vote that a crashed process asked for can be counted by the next process at its address,
  when an old JoinResponse took that one back to the same term: the answer goes to the address of
  the `CandidateID` (`cluster/transport.go:392-435`), and `handleVoteResponse`
  (`handlers.go:290`) compares terms, not candidates. `TallyIsHonest` therefore counts by address.
- While `startElection` stands between `CurrentTerm.Add` and `VotedFor.Store` (`cluster.go:415-419`), a vote
  request of the new term is granted, and the process then votes for itself: two votes in one term,
  where `cluster.go:261-262` says of a restarted node that it "cannot vote twice in it". An answer that passed
  `handlers.go:290` may be counted after `electionTerm` moved, against "Ignore votes from old terms" (289).
- A heartbeat or a vote request of a higher term calls `VotedFor.Store(nil)` on an
  `atomic.Value`, which panics (`cluster/handlers.go:48`, `249`), where the code means to
  forget the vote and tests for nil (254); the process stops.
- After an LTRIM that fills the buffer, the next RPUSH with room indexes past the end
  (`deque.go:352-353`; the comment at 87-88 calls the tail a valid index). The
  connection's handler recovers (`server/handler.go:86`) and closes it.
- A refused LPUSHUNIQUE or RPUSHUNIQUE keeps the elements it pushed, and a refused push keeps the slots it
  grew; neither is accounted (`list_operations.go:521-527`, `572-578`; `store.go:496-499`).
- A deferred command whose key holds a colon is split wrongly on the peers
  (`deferred_commands.go:283`, `server/replication.go:313-332`; `scripts/populate_data.sh:43`
  uses such keys). A DEFER event that arrives twice runs twice, and after its cancellation.
  What is pending dies with the process.
- On the node the client is connected to, the texts of a deferred command are views of the pooled buffer it
  was parsed into (`deferred_commands.go:263-268`, `server/handler.go:220`), where `protocol/parser.go:376-382`
  has a copy for "long-term storage": by the time it runs they may read as parts of other commands.
  EXPIRE (`store/store.go:439`), GETSET, APPEND, INCRBY, HSET, SADD and the commands on lists hand such views to the
  store too; SET copies (`string_operations.go:34-35`). All modules but `Deferred` assume that keys,
  elements and values in a store keep their bytes.
  Due time and tick are cut off to seconds (`store/deferred.go:77`, 166), so it may run up to a second early.
- The last HDEL, LPOP, SREM of a key leaves its deadline to the next value of that name
  (`hash_operations.go:163`, against `string_operations.go:220-225`).
- A list does not keep its size, so a SET over it takes off memory 0 for it (`string_operations.go:129`,
  `lww.go:75`), against `store.go:496-499`; `KeyLifetime` and `Lists` leave such a SET out.
- HSET and HINCRBY take a limit of 0 as "refuse a new hash" (`hash_operations.go:52`, `319`), SET
  as "no limit".
- On a server without a cluster SADD, SREM, SPOP, APPEND, GETSET and the commands on lists and hashes leave no
  entry in the commit log (`set_operations.go:13`, called at `set_commands.go:26`; only `crdt_set.go:259`
  and 319 log sets), so a restart loses what they did; a SET with a TTL loses its deadline. In a cluster
  SADD and SREM are logged, one entry per command, and compaction keeps the last of a key.
- A Delete, SetExpiry or Clear that is half-way when the key changes leaves its deadline, or
  the lack of one, to the new value (`store.go:429`, `expiry_batch.go:168`).
- SREM, SPOP, DEL and SDIFFSTORE that empty or replace a set forget its stamps
  (`set_operations.go:83`): an older add still on its way brings an element back. After
  a collection an unstamped add of a collected element is named by no digest.
- Connections that arrive before an admitted one is counted pass the limits
  (`connection/manager.go:78`); one connection may be served after a graceful stop
  (`server/server.go:309`).
- "Reliable delivery guarantees" (`cluster.go:663`) end at the outgoing queue: `Broadcast` goes through the
  connections there are and reports no error for a peer without one (`transport.go:254-271`, 373-379), the single
  sends through `cm.nodes` (`cluster.go:602`), and `sendLoop` drops what has no route or a full queue (344-356).
  Such an event is neither tracked nor kept; anti-entropy may bring what carries a stamp.
- Reconciliation removes by event id what it read before (`cluster.go:1243`), and with it a copy
  persisted since; an event goes again to peers that already have it. An object that a full
  retry queue dropped after it left the map is lost, where `cluster.go:649` expects a retry.

## Not modelled, and why

- Lists, hashes and TTLs in replication: their events carry no stamp and apply in the
  order they arrive; no property beyond delivery could hold. The STORE commands of sets other
  than SDIFFSTORE and SMOVE do to a key what the modelled ones do.
- The wrap of the HLC's logical counter inside the runs: `Bump` models it, the guards
  keep below it.
- What reads answer (GET, TTL, EXISTS on an expired key), but for lists; the fields of a hash,
  a Go map used under the lock; the average sizes of a shard.
- Torn log entries (a run would need files byte by byte), I/O errors; a recovery longer than
  the five minutes the server waits.
- Authentication of messages, dialling, gob encoding; the UI, metrics,
  configuration and logging; hash functions: no state the properties depend on. The vector
  clock: nothing orders by it, its local count only names events.
- The RESP parser and its pooled buffer. Stored keys and values may be views of that buffer (see the
  differences above), so this is an assumption and not a fact of the code: what `KeyLifetime`,
  `SetReplication`, `Lists` and the replication modules say is of stores whose keys and values keep their bytes.
- Keys that change type: a SET over a list, a set or a hash in replication.

## Plan

Done: 1-6 the clock, string replication with its proofs, mixed writes, election, commit log,
life of a key; 7 sets; 8 delivery; 9 deferred commands and connection limits; 10 lists and the ring
buffer; proofs of the list commands with their refinement, of the connections, of deadlines and counters, of deferred
commands, and of the safety of mixed replication, sets, delivery and elections.

Left, most useful first:

1. `NewestWriteSurvives` of `CommitLog`, with the newest entry described by what it beats
   instead of by a fold.
2. Torn entries: a byte-coarse reader of one segment.
