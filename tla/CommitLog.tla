------------------------------ MODULE CommitLog ------------------------------
(***************************************************************************)
(* The commit log of one server: internal/commitlog (writer, segments,     *)
(* compaction, reader, recovery), the calls internal/store makes to it,    *)
(* and the recovery internal/server starts.                                *)
(*                                                                         *)
(* The server is one without a cluster, where the store alone logs, and    *)
(* the keys are those that only commands it logs touch: SET, DEL, EXPIRE,  *)
(* PERSIST, INCRBY and FLUSHALL.  SADD and SREM (set_operations.go:13-125),*)
(* APPEND, GETSET, the commands on lists and those on hashes leave no      *)
(* entry, and a restart loses what they did.  In a cluster the replication *)
(* callback logs once more, SADD and SREM too (SAddLWW and SRemLWW, inside *)
(* shard.mu: crdt_set.go:259, 319).                                        *)
(*                                                                         *)
(* A command changes the store first and logs afterwards.  An entry is     *)
(* stamped with the wall clock when Write or Delete builds it, queued,     *)
(* gathered in a batch and synced to the current segment.  The same        *)
(* goroutine compacts.  A start replays every *.log file, sorted by        *)
(* timestamp, next to the commands of the first clients.                   *)
(*                                                                         *)
(* Assumed: no two entries share a nanosecond and the wall clock is not    *)
(* set back; files are read and written without errors; a deadline does    *)
(* not pass.  Not here: INCRBY on a key without a deadline and PERSIST, to *)
(* the log what SET and EXPIRE are; SET with a TTL, whose deadline is not  *)
(* logged; a torn entry at the end of a file; a recovery longer than the   *)
(* five minutes the server waits for it; the marker file of a compaction,  *)
(* which nothing reads (RecoverFromInterruptedCompaction is never called). *)
(***************************************************************************)
EXTENDS Naturals, FiniteSets, SequencesExt

CONSTANTS
    Clients,         \* connections
    Keys,
    Values,          \* what SET may write

    NoVal,           \* not a string
    AllKeys,         \* the key of a FLUSHALL entry, ""
    Ops,             \* the commands clients send
    ChanSize,        \* capacity of writeChan
    BatchSize,
    MaxSegmentSize,  \* entries
    MaxEntries,      \* bound: entries stamped
    MaxRestarts      \* bound

ASSUME OpsAssumption ==
    Ops \subseteq {"SET", "DEL", "EXPIRE", "FLUSHALL"}
ASSUME KeysAssumption == AllKeys \notin Keys /\ NoVal \notin Values
ASSUME SizesAssumption == /\ {ChanSize, BatchSize, MaxSegmentSize} \subseteq Nat \ {0}
                          /\ {MaxEntries, MaxRestarts} \subseteq Nat

VARIABLES
    store,       \* per key: its value, and whether it has a deadline
    calls,       \* per connection: the command it is in
    clock,       \* time.Now(), at the last entry stamped
    queue,       \* batchBuffer, a prefix of it, and then writeChan
    files,       \* the *.log files: entries by name
    current,     \* segmentID
    compaction,  \* replaceSegments under way: files to delete, file made
    replay,      \* entries recovery has yet to apply
    recovery,    \* recoveryActive
    restarts,    \* for the bound
    written,     \* history: every entry that has been on disk
    inOrder,     \* history: entries were queued in the order of their stamps
    torn         \* history: keys of commands that overlapped with another of the
                 \*          key or a FLUSHALL, fell into recovery, or were dropped

vars == <<store, calls, clock, queue, files, current, compaction,
          replay, recovery, restarts, written, inOrder, torn>>

-----------------------------------------------------------------------------
(***************************************************************************)
(* What a command does to a key.                                           *)
(***************************************************************************)
Missing == [val |-> NoVal, ttl |-> FALSE]

\* The command changes the key, and so is logged.
Takes(op, ks) == op \in {"DEL", "EXPIRE"} => ks # Missing

After(op, ks, arg) ==
    CASE op = "SET"     -> [Missing EXCEPT !.val = arg]
      [] op = "DEL"     -> Missing
      [] op = "EXPIRE"  -> [ks EXCEPT !.ttl = TRUE]

\* applyFunc of the server's recovery, on one entry.
Replayed(st, e) ==
    IF e.op = "FLUSHALL" THEN [k \in Keys |-> Missing]
    ELSE IF Takes(e.op, st[e.key])
         THEN [st EXCEPT ![e.key] = After(e.op, @, e.arg)] ELSE st

InTimeOrder(entries) == SetToSortSeq(entries, LAMBDA d, e : d.ts < e.ts)

\* ReadAll: every entry, sorted.  One that two files hold, after an interrupted
\* compaction, is applied twice in a row: as once.
ReadAll(entries) == InTimeOrder(entries)

Rebuilt(entries) == FoldLeft(Replayed, [k \in Keys |-> Missing], ReadAll(entries))

-----------------------------------------------------------------------------
(***************************************************************************)
(* Files.  A name is a segment id and a number of ".compacted" suffixes;   *)
(* sort.Strings puts "1.compacted.log" before "1.log".                     *)
(***************************************************************************)
Before(a, b) == a[1] < b[1] \/ (a[1] = b[1] /\ a[2] > b[2])

Entries(fs) == UNION {ToSet(fs[name]) : name \in DOMAIN fs}

OnDisk == Entries(files)

NoCompaction == [old |-> <<>>, made |-> <<>>]

Idle == [phase |-> "idle"]

Init == /\ store = [k \in Keys |-> Missing]
        /\ calls = [c \in Clients |-> Idle]
        /\ clock = 0
        /\ queue = <<>>
        /\ files = <<1, 0>> :> <<>>
        /\ current = 1
        /\ compaction = NoCompaction
        /\ replay = <<>> /\ recovery = FALSE
        /\ restarts = 0
        /\ written = {}
        /\ inOrder = TRUE /\ torn = {}

-----------------------------------------------------------------------------
(***************************************************************************)
(* A command: the store's change, the entry and its timestamp, the queue.  *)
(* FLUSHALL logs first and then clears shard after shard.                  *)
(***************************************************************************)
CallsLeft == clock + Cardinality({c \in Clients : calls[c].phase = "called"}) < MaxEntries

\* Some connection is in a command on the key, or on all.
Busy(k) ==
    \E c \in Clients : \/ calls[c].phase = "clearing"
                       \/ calls[c].phase \in {"called", "stamped"} /\ calls[c].key \in {k, AllKeys}

Called(c, op, k, arg, keys) ==
    /\ calls[c] = Idle
    /\ CallsLeft
    /\ calls' = [calls EXCEPT ![c] = [phase |-> "called", op |-> op,
                                      key |-> k, arg |-> arg]]
    /\ torn' = torn \cup (IF recovery \/ \E key \in keys : Busy(key) THEN keys ELSE {})
    /\ UNCHANGED <<clock, queue, files, current, compaction, replay,
                   recovery, restarts, written, inOrder>>

Command(c, op, k) ==
    /\ op \in Ops \ {"FLUSHALL"}
    /\ Takes(op, store[k])
    /\ \E arg \in IF op = "SET" THEN Values ELSE {NoVal} :
          /\ Called(c, op, k, arg, {k})
          /\ store' = [store EXCEPT ![k] = After(op, @, arg)]


FlushAll(c) == /\ "FLUSHALL" \in Ops
               /\ Called(c, "FLUSHALL", AllKeys, NoVal, Keys)
               /\ UNCHANGED store

\* After the entry was queued, or not.
Logged(c) == calls' = [calls EXCEPT ![c] = IF @.op = "FLUSHALL"
                                           THEN [phase |-> "clearing", todo |-> Keys]
                                           ELSE Idle]

\* No entry while recovery is active.
NotLogged(c) ==
    /\ calls[c].phase = "called"
    /\ recovery
    /\ Logged(c)
    /\ UNCHANGED <<store, clock, queue, files, current, compaction,
                   replay, recovery, restarts, written, inOrder, torn>>

Stamped(c) ==
    /\ calls[c].phase = "called"
    /\ ~recovery
    /\ clock' = clock + 1
    /\ calls' = [calls EXCEPT ![c] = [phase |-> "stamped", op |-> @.op, key |-> @.key,
                                      arg |-> @.arg, ts |-> clock']]
    /\ UNCHANGED <<store, queue, files, current, compaction, replay,
                   recovery, restarts, written, inOrder, torn>>

EntryOf(c) == [op |-> calls[c].op, key |-> calls[c].key, arg |-> calls[c].arg,
               ts |-> calls[c].ts]

Queued(c) ==
    /\ calls[c].phase = "stamped"
    /\ Len(queue) < BatchSize + ChanSize
    /\ queue' = Append(queue, EntryOf(c))
    /\ Logged(c)
    /\ inOrder' = (inOrder /\ \A d \in Clients :
                      calls[d].phase = "stamped" => calls[d].ts >= calls[c].ts)
    /\ UNCHANGED <<store, clock, files, current, compaction, replay,
                   recovery, restarts, written, torn>>

\* Write waits 100 ms for a place, Delete does not; the store ignores both.
Dropped(c) ==
    /\ calls[c].phase = "stamped"
    /\ Len(queue) >= ChanSize
    /\ Logged(c)
    /\ torn' = torn \cup (IF calls[c].key = AllKeys THEN Keys ELSE {calls[c].key})
    /\ UNCHANGED <<store, clock, queue, files, current, compaction,
                   replay, recovery, restarts, written, inOrder>>

ClearShard(c, k) ==
    /\ calls[c].phase = "clearing"
    /\ k \in calls[c].todo
    /\ store' = [store EXCEPT ![k] = Missing]
    /\ calls' = [calls EXCEPT ![c] = IF @.todo = {k} THEN Idle
                                     ELSE [@ EXCEPT !.todo = @ \ {k}]]
    /\ UNCHANGED <<clock, queue, files, current, compaction, replay,
                   recovery, restarts, written, inOrder, torn>>

-----------------------------------------------------------------------------
(***************************************************************************)
(* writeWorker: batches, and compaction in between.                        *)
(***************************************************************************)
Compacting == compaction # NoCompaction

Full == Len(files[<<current, 0>>]) >= MaxSegmentSize

\* Mistake: the batch that starts a segment is lost.
WritesIfRoom(entries) ==
    IF Full THEN files @@ (<<current + 1, 0>> :> <<>>)
    ELSE [files EXCEPT ![<<current, 0>>] = @ \o entries]

\* rotateSegment when the current segment is full, then writeEntry for each.
Written(entries) ==
    IF Full THEN files @@ (<<current + 1, 0>> :> entries)
    ELSE [files EXCEPT ![<<current, 0>>] = @ \o entries]

\* The batch is what the worker has taken from the channel by then.
Batches == {SubSeq(queue, 1, n) : n \in 0 .. Min({Len(queue), BatchSize})}

FlushBatch ==
    /\ ~Compacting
    /\ \E batch \in Batches \ {<<>>} :
          /\ files' = Written(batch)
          /\ written' = written \cup ToSet(batch)
          /\ queue' = SubSeq(queue, Len(batch) + 1, Len(queue))
    /\ current' = IF Full THEN current + 1 ELSE current
    /\ UNCHANGED <<store, calls, clock, compaction, replay, recovery,
                   restarts, inOrder, torn>>

Segments == SetToSortSeq(DOMAIN files \ {<<current, 0>>}, Before)

\* Mistake: of two entries of a key the first stays.
KeepsFirst(kept, e) == IF e.op = "DEL" THEN {} ELSE IF kept = {} THEN {e} ELSE kept

\* buildCurrentState: what is kept of a key after entry e.
Latest(kept, e) ==
    IF e.op = "DEL" THEN {x \in kept : e.ts <= x.ts}
    ELSE IF \A x \in kept : e.ts > x.ts THEN {e} ELSE kept

CurrentState(segments) ==
    LET step(state, e) == [state EXCEPT ![e.key] = Latest(@, e)]
    IN  FoldLeft(step, [k \in Keys \cup {AllKeys} |-> {}],
                 FlattenSeq([i \in DOMAIN segments |-> files[segments[i]]]))

\* Mistake: compacted entries are stamped anew.
Restamped(e) == [e EXCEPT !.ts = clock]

\* writeCompactedSegment keeps the timestamp of each entry (it sorts them by key,
\* one to a key: the order within the file does not matter).
Preserved(e) == e

WorthIt(segments, live) ==
    LET total == FoldLeft(LAMBDA n, name : n + Len(files[name]), 0, segments)
    IN  Len(segments) >= 2 /\ 2 * (total - Cardinality(live)) >= total

Compact ==
    /\ ~Compacting
    /\ LET state == CurrentState(Segments)
           live  == UNION {state[k] : k \in DOMAIN state}
           made  == <<Segments[1][1], Segments[1][2] + 1>>
       IN  /\ WorthIt(Segments, live)
           /\ files' = files @@ (made :> InTimeOrder({Preserved(e) : e \in live}))
           /\ compaction' = [old |-> Segments, made |-> made]
    /\ UNCHANGED <<store, calls, clock, queue, current, replay, recovery,
                   restarts, written, inOrder, torn>>

Without(name) == [n \in DOMAIN files \ {name} |-> files[n]]

DeleteOld ==
    /\ compaction.old # <<>>
    /\ files' = Without(Head(compaction.old))
    /\ compaction' = [compaction EXCEPT !.old = Tail(@)]
    /\ UNCHANGED <<store, calls, clock, queue, current, replay, recovery,
                   restarts, written, inOrder, torn>>

RenameCompacted ==
    /\ Compacting
    /\ compaction.old = <<>>
    /\ LET made == compaction.made
       IN  files' = (<<made[1], made[2] - 1>> :> files[made]) @@ Without(made)
    /\ compaction' = NoCompaction
    /\ UNCHANGED <<store, calls, clock, queue, current, replay, recovery,
                   restarts, written, inOrder, torn>>

-----------------------------------------------------------------------------
(***************************************************************************)
(* The process ends, killed or by Stop, which does not close the log; and  *)
(* starts again on its files.  A flush it was in has left part of the      *)
(* batch there, or only the new segment.                                   *)
(***************************************************************************)
Restart ==
    /\ restarts < MaxRestarts
    /\ restarts' = restarts + 1
    /\ \/ UNCHANGED <<files, written>>
       \/ /\ ~Compacting /\ queue # <<>>
          /\ \E begun \in Batches : /\ files' = Written(begun)
                                   /\ written' = written \cup ToSet(begun)
    /\ current' = Max({name[1] : name \in DOMAIN files'})
    /\ store' = [k \in Keys |-> Missing]
    /\ calls' = [c \in Clients |-> Idle]
    /\ queue' = <<>>
    /\ compaction' = NoCompaction
    /\ replay' = ReadAll(Entries(files'))
    /\ recovery' = TRUE
    /\ UNCHANGED <<clock, inOrder, torn>>

Recover ==
    /\ replay # <<>>
    /\ store' = Replayed(store, Head(replay))
    /\ replay' = Tail(replay)
    /\ UNCHANGED <<calls, clock, queue, files, current, compaction,
                   recovery, restarts, written, inOrder, torn>>

RecoveryDone ==
    /\ recovery
    /\ replay = <<>>
    /\ recovery' = FALSE
    /\ UNCHANGED <<store, calls, clock, queue, files, current, compaction,
                   replay, restarts, written, inOrder, torn>>

-----------------------------------------------------------------------------
Next == \/ \E c \in Clients :
              \/ \E op \in Ops, k \in Keys : Command(c, op, k)

              \/ FlushAll(c)
              \/ NotLogged(c) \/ Stamped(c) \/ Queued(c) \/ Dropped(c)
              \/ \E k \in Keys : ClearShard(c, k)
        \/ FlushBatch
        \/ Compact \/ DeleteOld \/ RenameCompacted
        \/ Restart \/ Recover \/ RecoveryDone

Spec == Init /\ [][Next]_vars

-----------------------------------------------------------------------------
(***************************************************************************)
(* The newest entry of a key, once on disk, stays there through rotation,  *)
(* compaction, and a stop in the middle of either, however connections     *)
(* raced for the queue (buildCurrentState, replaceSegments).               *)
(***************************************************************************)
NewestWriteSurvives ==
    \A e \in written :
        (e.op # "DEL" /\ \A d \in written : d.key = e.key => d.ts <= e.ts) => e \in OnDisk

(***************************************************************************)
(* Compaction "removes old and duplicate data" (compaction.go:31): what    *)
(* recovery would rebuild is what it would rebuild from every entry ever   *)
(* written, also when compaction was cut off between two files.  This      *)
(* needs entries that each make the older ones of their key redundant, in  *)
(* the order of their stamps.                                              *)
(***************************************************************************)
Overwriting == \A e \in written : e.op \in {"SET", "DEL", "FLUSHALL"}

CompactionIsInvisible ==
    (inOrder /\ Overwriting) => Rebuilt(OnDisk) = Rebuilt(written)

(***************************************************************************)
(* The same of every command the store logs, EXPIRE among them: "the SET   *)
(* that created the key has an earlier timestamp and is replayed first, so *)
(* the key exists by the time this is applied" (server.go:103-105).        *)
(***************************************************************************)
CompactionKeepsState == Rebuilt(OnDisk) = Rebuilt(written)

(***************************************************************************)
(* When the log has caught up, a restart would rebuild of each key what    *)
(* the store holds: no SET, DEL, EXPIRE or FLUSHALL is forgotten, however  *)
(* commands on other keys raced with it and wherever the process stopped,  *)
(* and recovery puts back what a crash lost (Set, Delete, SetExpiry, Clear;*)
(* asyncRecovery).  Left out are commands on one key that overlapped, fell *)
(* into a recovery or whose entry was dropped (torn); and a log in which   *)
(* entries were queued out of order or EXPIREs compacted.                  *)
(***************************************************************************)
Settled == /\ \A c \in Clients : calls[c] = Idle
           /\ queue = <<>>
           /\ ~recovery

LogMatchesStore ==
    (Settled /\ inOrder /\ (Overwriting \/ OnDisk = written)) =>
        \A k \in Keys \ torn : store[k] = Rebuilt(OnDisk)[k]

=============================================================================
