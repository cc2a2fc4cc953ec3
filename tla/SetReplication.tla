--------------------------- MODULE SetReplication ---------------------------
(***************************************************************************)
(* One set key in a cluster: the element-stamp CRDT of                     *)
(* internal/store/crdt_set.go, the plain operations of set_operations.go   *)
(* that the command handlers run before it, and the push and anti-entropy  *)
(* paths that carry both.  The network, the callback and the message       *)
(* handler are those of StringReplication; what an event waits in a queue  *)
(* of its sender is part of its time on the network here.                  *)
(*                                                                         *)
(* Not here: keys of another type, and refusals for lack of memory.        *)
(* Assumed: a member keeps its bytes in the store, although the handlers   *)
(* pass views of a pooled buffer (parser.go:364-369).                      *)
(***************************************************************************)
EXTENDS HLC, FiniteSets

CONSTANTS
    Nodes,         \* the nodes of the cluster, by origin
    Elements,      \* what the set may hold
    Cost,          \* bound: what a command of each kind takes from the budget
    Time,          \* what a node's wall clock may read, at any moment
    Budget,        \* bound: commands
    MaxDigests,    \* bound: digests on their way
    MaxCollects    \* bound: collections of tombstones

ASSUME NodesAssumption == Nodes \subseteq Nat \ {0}
ASSUME TimeAssumption == Time \subseteq Nat \ {0}
ASSUME BoundsAssumption == /\ {Budget, MaxDigests, MaxCollects} \subseteq Nat
                           /\ Cost \in [{"add", "remove", "del", "store"} -> Nat]

VARIABLES
    hlc,        \* the clock of each node
    sets,       \* the key in shard.data of each node
    gone,       \* its entry in shard.tombstones, or ZeroStamp
    plain,      \* commands that ran their plain part
    stamped,    \* callbacks that drew their stamp
    net,        \* pushed events on their way
    handling,   \* what processLoop has in hand, an event or a digest
    digests,    \* SyncResponses on their way
    commands,   \* what clients took from the budget
    collects,   \* counts collections, for the bound
    issued,     \* history: the stamped operations
    replaced,   \* history: an SDIFFSTORE replaced the set
    excused     \* history: removals whose stamp their node forgot, or that
                \* an unstamped add overran there

vars == <<hlc, sets, gone, plain, stamped, net, handling, digests, commands,
          collects, issued, replaced, excused>>

\* Older than every stamp: an element without an entry in adds or removes.
Never == Stamp(ZeroTS, -1)

Blank == [e \in Elements |-> Never]

NoSet == [there |-> FALSE, members |-> {}, crdt |-> FALSE, adds |-> Blank, removes |-> Blank]

\* A stamp with Physical and Logical 0 counts as none.
IsStamped(w) == TS(w.stamp) # ZeroTS

Event(op, M, s) == [op |-> op, members |-> M, stamp |-> s]

-----------------------------------------------------------------------------
(***************************************************************************)
(* The set as the store keeps it: members is SetValue.Elements; crdt tells *)
(* whether the stamps exist.                                               *)
(***************************************************************************)
PlainAdd(s, M) == [s EXCEPT !.there = TRUE, !.members = @ \cup M]

\* Mistake: the key goes and the stamps stay.
PlainRemoveKeepsStamps(s, M) ==
    IF s.members \subseteq M THEN [s EXCEPT !.there = FALSE, !.members = {}]
    ELSE [s EXCEPT !.members = @ \ M]

\* A set without members is deleted, with the stamps it has.
PlainRemove(s, M) == IF s.members \subseteq M THEN NoSet ELSE [s EXCEPT !.members = @ \ M]

\* lwwSet.contains
InSet(s, e) == s.adds[e] # Never /\ ~After(s.removes[e], s.adds[e])

\* ensureCRDT: members so far have the zero stamp.
EnsureCRDT(s) ==
    IF s.crdt THEN s
    ELSE [s EXCEPT !.there = TRUE, !.crdt = TRUE,
                   !.adds = [e \in Elements |-> IF e \in s.members THEN ZeroStamp ELSE Never]]

\* syncMember, for the elements of M.
SyncMembers(s, M) == [s EXCEPT !.members = (@ \ M) \cup {e \in M : InSet(s, e)}]

\* Mistake: the stamp that came last stays.
NewestIsLast(stamps, M, st) == [e \in Elements |-> IF e \in M THEN st ELSE stamps[e]]

\* lwwSet.add and remove keep the newest stamp.
Newest(stamps, M, st) ==
    [e \in Elements |-> IF e \in M /\ After(st, stamps[e]) THEN st ELSE stamps[e]]

\* Mistake: the elements join, whether or not the add is the newest.
SAddJoins(s, M, st) ==
    LET c == EnsureCRDT(s) IN [c EXCEPT !.members = @ \cup M, !.adds = Newest(@, M, st)]

SAddLWW(s, M, st) ==
    LET c == EnsureCRDT(s) IN SyncMembers([c EXCEPT !.adds = Newest(@, M, st)], M)

\* Mistake: the elements go, whether or not the remove is the newest.
SRemDrops(s, M, st) ==
    LET c == EnsureCRDT(s) IN [c EXCEPT !.members = @ \ M, !.removes = Newest(@, M, st)]

SRemLWW(s, M, st) ==
    LET c == EnsureCRDT(s) IN SyncMembers([c EXCEPT !.removes = Newest(@, M, st)], M)

\* Mistake: the digest leaves the tombstones out.
DigestMembers(s) == {Event("add", {e}, s.adds[e]) : e \in {x \in Elements : InSet(s, x)}}

\* appendLWWDigest: an entry per element, with the stamp that won.
Digest(s) ==
    IF ~s.crdt THEN {Event("add", {e}, ZeroStamp) : e \in s.members}
    ELSE {IF InSet(s, e) THEN Event("add", {e}, s.adds[e]) ELSE Event("remove", {e}, s.removes[e]) :
             e \in {x \in Elements : s.adds[x] # Never \/ s.removes[x] # Never}}

\* gcElementTombstones, for tombstones of M that are old enough.
Pruned(s, M) ==
    [s EXCEPT !.adds    = [e \in Elements |-> IF e \in M THEN Never ELSE @[e]],
              !.removes = [e \in Elements |-> IF e \in M THEN Never ELSE @[e]]]

Dead(s) == {e \in Elements : s.removes[e] # Never /\ ~InSet(s, e)}

Empty(s) == s.members = {} /\ s.adds = Blank /\ s.removes = Blank

-----------------------------------------------------------------------------
Init == /\ hlc = [n \in Nodes |-> ZeroTS]
        /\ sets = [n \in Nodes |-> NoSet]
        /\ gone = [n \in Nodes |-> ZeroStamp]
        /\ plain = {} /\ stamped = {} /\ net = {} /\ digests = {} /\ issued = {}
        /\ handling = [n \in Nodes |-> {}]
        /\ commands = 0 /\ collects = 0 /\ replaced = FALSE /\ excused = {}

Command(c) == commands' = commands + Cost[c] /\ commands' <= Budget

Becomes(n, s) == sets' = [sets EXCEPT ![n] = s]

\* Removals node n applied to elements of M, or to the set.
Excuse(n, M) ==
    excused' = excused \cup {w \in issued \ stamped : /\ w.op = "remove" /\ w.stamp.o = n
                                                     /\ w.members \cap M # {}}

\* What is left of a command: its callback.
Calls(n, op, M) == plain' = plain \cup {[node |-> n, op |-> op, members |-> M]}

(***************************************************************************)
(* SADD, SREM and SPOP run their plain part first, and call back only if   *)
(* it changed something.                                                   *)
(***************************************************************************)
SAdd(n, M) ==
    /\ Command("add")
    /\ ~(M \subseteq sets[n].members)
    /\ Becomes(n, PlainAdd(sets[n], M))
    /\ Calls(n, "add", M)
    /\ UNCHANGED <<hlc, gone, stamped, net, handling, digests, collects, issued,
                   replaced, excused>>

SRem(n, M) ==
    /\ Command("remove")
    /\ sets[n].there
    /\ Becomes(n, PlainRemove(sets[n], M))
    /\ IF M \cap sets[n].members # {} THEN Calls(n, "remove", M) ELSE UNCHANGED plain
    /\ Excuse(n, IF sets[n].members \subseteq M THEN Elements ELSE {})
    /\ UNCHANGED <<hlc, gone, stamped, net, handling, digests, collects, issued,
                   replaced>>

\* SPOP does what SREM of some member does, and nothing to an empty set.
SPop(n) == \E e \in sets[n].members : SRem(n, {e})

\* DEL leaves everything to the callback, also if there is no key.
Del(n) ==
    /\ Command("del")
    /\ Calls(n, "del", {})
    /\ UNCHANGED <<hlc, sets, gone, stamped, net, handling, digests, collects, issued,
                   replaced, excused>>

\* SDIFFSTORE with this key as its destination: the difference, of sets that
\* are not modelled, replaces it without stamps; a difference that is not
\* empty is sent unstamped.
Difference(n, M) == Becomes(n, [NoSet EXCEPT !.there = TRUE, !.members = M])

Peers(n) == Nodes \ {n}

SDiffStore(n, M) ==
    /\ Command("store")
    /\ Difference(n, M)
    /\ net' = net \cup {m \in [to : Peers(n), event : {Event("store", {}, ZeroStamp)}] : M # {}}
    /\ replaced' = TRUE
    /\ Excuse(n, Elements)
    /\ UNCHANGED <<hlc, gone, plain, stamped, handling, digests, collects, issued>>

NextStamp(c) ==
    /\ c \in plain
    /\ plain' = plain \ {c}
    /\ hlc[c.node].l + 1 < LogicalMod
    /\ \E pt \in Time :
          LET ts == Now(hlc[c.node], pt)
              w  == Event(c.op, c.members, Stamp(ts, c.node))
          IN  /\ hlc' = [hlc EXCEPT ![c.node] = ts]
              /\ stamped' = stamped \cup {w}
              /\ issued' = issued \cup {w}
    /\ UNCHANGED <<sets, gone, net, handling, digests, commands, collects, replaced, excused>>

-----------------------------------------------------------------------------
\* DeleteWithHLC: the stamp of a set's StoredValue is the zero stamp, so only
\* the tombstone is in its way.
Superseded(n, st) == gone[n] # ZeroStamp /\ ~After(st, gone[n])

DeleteLWW(n, st) ==
    IF Superseded(n, st) THEN UNCHANGED <<sets, gone, excused>>
    ELSE /\ Becomes(n, NoSet)
         /\ gone' = [gone EXCEPT ![n] = st]
         /\ Excuse(n, Elements)

\* ApplyReplication, of a SADD or an SREM.
Applied(s, w) ==
    CASE w.op = "add" /\ IsStamped(w)  -> SAddLWW(s, w.members, w.stamp)
      [] w.op = "add" /\ ~IsStamped(w) -> PlainAdd(s, w.members)
      [] w.op = "remove"               -> SRemLWW(s, w.members, w.stamp)

Apply(n, w) ==
    \/ /\ w.op \in {"add", "remove"}
       /\ Becomes(n, Applied(sets[n], w))
       /\ Excuse(n, IF IsStamped(w) THEN {} ELSE w.members)
       /\ UNCHANGED gone
    \/ w.op = "del" /\ DeleteLWW(n, w.stamp)
    \/ /\ w.op = "store"
       /\ \E M \in SUBSET Elements : Difference(n, M)
       /\ Excuse(n, Elements)
       /\ UNCHANGED gone

\* The callback applies what it stamped and queues it for the peers.
ApplyLocal(w) ==
    /\ w \in stamped
    /\ stamped' = stamped \ {w}
    /\ Apply(w.stamp.o, w)
    /\ net' = net \cup [to : Peers(w.stamp.o), event : {w}]
    /\ UNCHANGED <<hlc, plain, handling, digests, commands, collects, issued,
                   replaced>>

\* handleReplicationPush: only a stamp moves the clock.
ReceivePush(n, m) ==
    /\ handling[n] = {}
    /\ m \in net /\ m.to = n
    /\ net' = net \ {m}
    /\ IF IsStamped(m.event)
       THEN /\ hlc[n].l + 1 < LogicalMod /\ m.event.stamp.l + 1 < LogicalMod
            /\ \E pt \in Time : hlc' = [hlc EXCEPT ![n] = Update(@, TS(m.event.stamp), pt)]
       ELSE UNCHANGED hlc
    /\ handling' = [handling EXCEPT ![n] = {m.event}]
    /\ UNCHANGED <<sets, gone, plain, stamped, digests, commands, collects, issued,
                   replaced, excused>>

\* The tombstone of the key comes last in a digest.
Handle(n, w) ==
    /\ w \in handling[n]
    /\ w.op = "del" => handling[n] = {w}
    /\ handling' = [handling EXCEPT ![n] = @ \ {w}]
    /\ Apply(n, w)
    /\ UNCHANGED <<hlc, plain, stamped, net, digests, commands, collects, issued,
                   replaced>>

\* ShardLWWDigest: the set, then the tombstone.
Facts(n) == Digest(sets[n])
            \cup {w \in {Event("del", {}, gone[n])} : IsStamped(w)}

SyncReply(m, n) ==
    /\ n # m
    /\ handling[m] = {}
    /\ Cardinality(digests) < MaxDigests
    /\ Facts(m) # {}
    /\ digests' = digests \cup {[from |-> m, to |-> n, facts |-> Facts(m)]}
    /\ UNCHANGED <<hlc, sets, gone, plain, stamped, net, handling, commands, collects, issued,
                   replaced, excused>>

SyncResponse(n, d) ==
    /\ handling[n] = {}
    /\ d \in digests /\ d.to = n
    /\ digests' = digests \ {d}
    /\ handling' = [handling EXCEPT ![n] = d.facts]
    /\ UNCHANGED <<hlc, sets, gone, plain, stamped, net, commands, collects, issued,
                   replaced, excused>>

\* gcTombstones, when some of the tombstones are an hour old.  A collection
\* that finds none changes nothing and does not count.
Collect(n, M) ==
    /\ collects < MaxCollects
    /\ collects' = collects + 1
    /\ M \subseteq Dead(sets[n])
    /\ gone' \in {gone, [gone EXCEPT ![n] = ZeroStamp]}
    /\ LET s == Pruned(sets[n], M) IN Becomes(n, IF Empty(s) THEN NoSet ELSE s)
    /\ <<sets, gone>>' # <<sets, gone>>
    /\ Excuse(n, M)
    /\ UNCHANGED <<hlc, plain, stamped, net, handling, digests, commands, issued, replaced>>

Next == \/ \E n \in Nodes :
              \/ \E M \in SUBSET Elements \ {{}} : SAdd(n, M) \/ SRem(n, M)
              \/ \E M \in SUBSET Elements : SDiffStore(n, M) \/ Collect(n, M)
              \/ SPop(n) \/ Del(n)
              \/ \E m \in net : ReceivePush(n, m)
              \/ \E w \in handling[n] : Handle(n, w)
              \/ \E m \in Nodes : SyncReply(m, n)
              \/ \E d \in digests : SyncResponse(n, d)
        \/ \E c \in plain : NextStamp(c)
        \/ \E w \in stamped : ApplyLocal(w)

Spec == Init /\ [][Next]_vars

-----------------------------------------------------------------------------
Stamps == [p : Nat, l : 0 .. LogicalMod - 1, o : Nodes] \cup {ZeroStamp, Never}

Events == [op : {"add", "remove", "del", "store"}, members : SUBSET Elements, stamp : Stamps]

TypeOK ==
    /\ hlc \in [Nodes -> Timestamps]
    /\ sets \in [Nodes -> [there : BOOLEAN, members : SUBSET Elements, crdt : BOOLEAN,
                           adds : [Elements -> Stamps], removes : [Elements -> Stamps]]]
    /\ gone \in [Nodes -> Stamps]
    /\ plain \subseteq [node : Nodes, op : DOMAIN Cost, members : SUBSET Elements]
    /\ stamped \subseteq Events /\ issued \subseteq Events
    /\ net \subseteq [to : Nodes, event : Events]
    /\ handling \in [Nodes -> SUBSET Events]
    /\ digests \subseteq [from : Nodes, to : Nodes, facts : SUBSET Events]
    /\ {commands, collects} \subseteq Nat
    /\ \A n \in Nodes : LET s == sets[n] IN
          /\ s.there \/ s = NoSet
          /\ s.crdt \/ (s.adds = Blank /\ s.removes = Blank)

\* A callback of node n is about to op e.
Underway(n, op, e) ==
    \/ \E c \in plain : c.node = n /\ c.op = op /\ e \in c.members
    \/ \E w \in stamped : w.stamp.o = n /\ w.op = op /\ e \in w.members

(***************************************************************************)
(* "The Elements map is the materialized view of the CRDT membership"      *)
(* (list_types.go:88): an element whose add no remove supersedes is a      *)
(* member, whatever order adds, removes and digests came in, unless a      *)
(* removal that took it is between its plain part and its stamp.           *)
(***************************************************************************)
WinnersAreMembers ==
    \A n \in Nodes, e \in Elements :
        InSet(sets[n], e) /\ ~Underway(n, "remove", e) => e \in sets[n].members

Touching(e) == {w \in issued : e \in w.members \/ w.op = "del"}

Last(e) == {w \in Touching(e) : \A x \in Touching(e) \ {w} : After(w.stamp, x.stamp)}

(***************************************************************************)
(* Nobody has anything in hand, and no digest any node could send would    *)
(* change another: pushes that are still on their way may be lost.         *)
(***************************************************************************)
Redundant(n, w) == IF w.op = "del" THEN Superseded(n, w.stamp) ELSE Applied(sets[n], w) = sets[n]

Settled == /\ plain = {} /\ stamped = {} /\ digests = {}
           /\ \A n \in Nodes : handling[n] = {}
           /\ \A m, n \in Nodes : \A w \in Facts(m) : m # n => Redundant(n, w)

\* A member of a set with stamps that has none itself: it came unstamped,
\* and the tombstone it had was collected.
Orphan(n, e) == /\ sets[n].crdt /\ e \in sets[n].members
                /\ sets[n].adds[e] = Never /\ sets[n].removes[e] = Never

(***************************************************************************)
(* When anti-entropy has nothing left to do all nodes agree on every       *)
(* element, whatever was lost, removed, deleted, replaced or collected     *)
(* before: "replicas converge without a coordinator" (crdt_set.go:10-15).  *)
(* The exception is an element that is an orphan somewhere: no digest      *)
(* names it.                                                               *)
(***************************************************************************)
SettledAlike ==
    Settled => \A e \in Elements :
                  \/ \A m, n \in Nodes : e \in sets[m].members <=> e \in sets[n].members
                  \/ \E n \in Nodes : Orphan(n, e)

(***************************************************************************)
(* An element whose last stamped command is a SADD is then a member on     *)
(* every node, unless a DEL or an SDIFFSTORE of the key got in its way: no *)
(* older removal, no clock that is behind, no collection of tombstones and *)
(* no plain part of another command loses the add for good.                *)
(***************************************************************************)
AddsPrevail ==
    Settled => \A e \in Elements :
                  \/ \A w \in Last(e) : w.op # "add"
                  \/ \A n \in Nodes : e \in sets[n].members
                  \/ replaced \/ \E w \in issued : w.op = "del"

(***************************************************************************)
(* "The remove stamp is retained as a per-element tombstone so a           *)
(* concurrent older add cannot resurrect the element" (crdt_set.go:125-    *)
(* 126): what a node removed comes back there only by a newer add, unless  *)
(* the node forgot the stamp, or an unstamped add overran it.              *)
(***************************************************************************)
RemovalsHold ==
    \A r \in {w \in issued \ stamped : w.op = "remove"} : \A e \in r.members :
        \/ e \notin sets[r.stamp.o].members
        \/ \E w \in issued : w.op = "add" /\ e \in w.members /\ After(w.stamp, r.stamp)
        \/ Underway(r.stamp.o, "add", e)
        \/ r \in excused

=============================================================================
