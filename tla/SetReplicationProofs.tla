------------------------ MODULE SetReplicationProofs ------------------------
(***************************************************************************)
(* Safety of SetReplication for every number of nodes, elements, commands, *)
(* clock readings, messages and collections.  The inductive invariant IInv *)
(* says that every stamp anywhere was drawn by a command, that a node's    *)
(* clock covers the stamps it drew, and what a node that applied a         *)
(* command of its own still knows of it.                                   *)
(***************************************************************************)
EXTENDS SetReplication, TLAPS

DrawnStamps == [p : Nat, l : 0 .. LogicalMod - 1, o : Nodes]

(***************************************************************************)
(* The last-write-wins order (hlcStamp.After) on stamps, with the zero     *)
(* stamp and the missing one at its start, is a strict total order.        *)
(***************************************************************************)
LEMMA StampFields ==
    ASSUME NEW s \in Stamps
    PROVE  /\ s.p \in Nat /\ s.l \in Nat /\ s.o \in Int
           /\ s.o \in Nat \/ s = Never
           /\ s = [p |-> s.p, l |-> s.l, o |-> s.o]
<1>1. CASE s \in DrawnStamps
  <2>1. s.p \in Nat /\ s.l \in Nat /\ s.o \in Nodes /\ s = [p |-> s.p, l |-> s.l, o |-> s.o]
    BY <1>1, LogicalModAssumption DEF DrawnStamps
  <2> QED
    BY <2>1, NodesAssumption
<1>2. CASE s = ZeroStamp
  BY <1>2 DEF ZeroStamp, Stamp, ZeroTS
<1>3. CASE s = Never
  BY <1>3 DEF Never, Stamp, ZeroTS
<1> QED
  BY <1>1, <1>2, <1>3 DEF Stamps, DrawnStamps

\* The zero stamp and the missing one are stamps, and different ones.
LEMMA SpecialStamps == /\ Never \in Stamps /\ ZeroStamp \in Stamps /\ ZeroStamp # Never
                       /\ TS(Never) = ZeroTS /\ TS(ZeroStamp) = ZeroTS
                       /\ DrawnStamps \subseteq Stamps
<1>1. ZeroStamp # Never
  BY DEF ZeroStamp, Never, Stamp, ZeroTS
<1>2. TS(Never) = ZeroTS /\ TS(ZeroStamp) = ZeroTS
  BY DEF ZeroStamp, Never, Stamp, ZeroTS, TS
<1> QED
  BY <1>1, <1>2 DEF Stamps, DrawnStamps

\* No stamp is after itself, nor two of them after each other.
LEMMA AfterAsymmetric ==
    ASSUME NEW a \in Stamps, NEW b \in Stamps, After(a, b)
    PROVE  ~After(b, a) /\ a # b
BY StampFields DEF After, TSAfter, TS

\* The order of stamps is transitive, also where one step allows equality.
LEMMA AfterTransitive ==
    ASSUME NEW a \in Stamps, NEW b \in Stamps, NEW c \in Stamps
    PROVE  /\ After(a, b) /\ After(b, c) => After(a, c)
           /\ ~After(b, a) /\ After(b, c) => After(a, c)
           /\ After(a, b) /\ ~After(c, b) => After(a, c)
           /\ ~After(b, a) /\ ~After(c, b) => ~After(c, a)
BY StampFields DEF After, TSAfter, TS

\* Of two different stamps one is after the other.
LEMMA AfterTotal ==
    ASSUME NEW a \in Stamps, NEW b \in Stamps
    PROVE  a = b \/ After(a, b) \/ After(b, a)
BY StampFields DEF After, TSAfter, TS

\* Every stamp is after the missing one.
LEMMA AfterNever ==
    ASSUME NEW a \in Stamps
    PROVE  /\ ~After(Never, a)
           /\ a # Never => After(a, Never)
<1>1. Never.p = 0 /\ Never.l = 0 /\ Never.o = -1
  BY DEF Never, Stamp, ZeroTS
<1>2. a # Never => a.o \in Nat
  BY StampFields
<1> QED
  BY <1>1, <1>2, StampFields DEF After, TSAfter, TS

\* A stamp that counts as one is a drawn one.
LEMMA StampedIsDrawn ==
    ASSUME NEW s \in Stamps, TS(s) # ZeroTS
    PROVE  s \in DrawnStamps /\ TS(s) \in Timestamps /\ s # Never /\ s # ZeroStamp
<1>1. s # Never /\ s # ZeroStamp
  BY SpecialStamps
<1>2. s \in DrawnStamps
  BY <1>1 DEF Stamps, DrawnStamps
<1> QED
  BY <1>1, <1>2 DEF DrawnStamps, Timestamps, TS

(***************************************************************************)
(* HLC.Now is strictly after the clock's last timestamp and HLC.Update is  *)
(* after both of what it merges, while Logical does not wrap.              *)
(***************************************************************************)
LEMMA NowAdvances ==
    ASSUME NEW last \in Timestamps, NEW pt \in Time, last.l + 1 < LogicalMod
    PROVE  /\ Now(last, pt) \in Timestamps
           /\ TSAfter(Now(last, pt), last)
           /\ Now(last, pt) # ZeroTS
BY TimeAssumption, LogicalModAssumption
   DEF Timestamps, Now, Bump, TSAfter, ZeroTS

\* Update leaves the clock past its reading.
LEMMA UpdateAdvances ==
    ASSUME NEW last \in Timestamps, NEW remote \in Timestamps, NEW pt \in Time,
           last.l + 1 < LogicalMod, remote.l + 1 < LogicalMod
    PROVE  /\ Update(last, remote, pt) \in Timestamps
           /\ TSAfter(Update(last, remote, pt), last)
BY TimeAssumption, LogicalModAssumption
   DEF Timestamps, Update, TSMax, Bump, TSAfter

\* A clock that moves on covers what it covered.
LEMMA ClockCovers ==
    ASSUME NEW a \in Timestamps, NEW b \in Timestamps, NEW c \in Timestamps,
           TSAfter(b, a), ~TSAfter(c, a)
    PROVE  ~TSAfter(c, b) /\ c # b /\ TSAfter(b, c)
BY LogicalModAssumption DEF Timestamps, TSAfter

-----------------------------------------------------------------------------
(***************************************************************************)
(* What the store's operations do to a set.                                *)
(***************************************************************************)
SetStates == [there : BOOLEAN, members : SUBSET Elements, crdt : BOOLEAN,
              adds : [Elements -> Stamps], removes : [Elements -> Stamps]]

WellFormed(s) == /\ s \in SetStates
                 /\ s.there \/ s = NoSet
                 /\ s.crdt \/ (s.adds = Blank /\ s.removes = Blank)

\* A key that is not there is a set without members and stamps.
LEMMA NoSetFacts ==
    /\ WellFormed(NoSet)
    /\ NoSet.members = {} /\ ~NoSet.crdt /\ ~NoSet.there
    /\ NoSet.adds = Blank /\ NoSet.removes = Blank
    /\ Blank \in [Elements -> Stamps] /\ \A e \in Elements : Blank[e] = Never
<1>1. Blank \in [Elements -> Stamps] /\ \A e \in Elements : Blank[e] = Never
  BY SpecialStamps DEF Blank
<1> QED
  BY <1>1 DEF WellFormed, SetStates, NoSet

\* Without stamps nothing is in the set by its stamps.
LEMMA BlankNotInSet ==
    ASSUME NEW s, NEW e \in Elements, s.adds = Blank
    PROVE  ~InSet(s, e)
BY NoSetFacts DEF InSet

\* What is not in the set by its stamps, and has one, has a remove stamp.
LEMMA OutOfSet ==
    ASSUME NEW s \in SetStates, NEW e \in Elements, ~InSet(s, e)
    PROVE  \/ s.adds[e] = Never
           \/ After(s.removes[e], s.adds[e]) /\ s.removes[e] # Never
<1>1. s.adds[e] \in Stamps /\ s.removes[e] \in Stamps
  BY DEF SetStates
<1> QED
  BY <1>1, AfterNever DEF InSet

\* Newest keeps or takes, and never goes back.
LEMMA NewestFacts ==
    ASSUME NEW f \in [Elements -> Stamps], NEW M \in SUBSET Elements, NEW st \in Stamps
    PROVE  LET g == Newest(f, M, st) IN
           /\ g \in [Elements -> Stamps]
           /\ \A e \in Elements : /\ g[e] \in Stamps
                                  /\ ~After(f[e], g[e])
                                  /\ e \in M => ~After(st, g[e])
                                  /\ e \notin M => g[e] = f[e]
                                  /\ g[e] = f[e] \/ (e \in M /\ g[e] = st)
<1>1. Newest(f, M, st) \in [Elements -> Stamps]
  BY DEF Newest
<1>2. ASSUME NEW e \in Elements
      PROVE  LET g == Newest(f, M, st) IN
             /\ g[e] \in Stamps
             /\ ~After(f[e], g[e])
             /\ e \in M => ~After(st, g[e])
             /\ e \notin M => g[e] = f[e]
             /\ g[e] = f[e] \/ (e \in M /\ g[e] = st)
  <2>1. Newest(f, M, st)[e] = IF e \in M /\ After(st, f[e]) THEN st ELSE f[e]
    BY DEF Newest
  <2>2. f[e] \in Stamps
    OBVIOUS
  <2> QED
    BY <2>1, <2>2, AfterAsymmetric
<1> QED
  BY <1>1, <1>2

\* ensureCRDT leaves the members and the remove stamps.
LEMMA EnsureFacts ==
    ASSUME NEW s, WellFormed(s)
    PROVE  LET c == EnsureCRDT(s) IN
           /\ c \in SetStates /\ c.there /\ c.crdt
           /\ c.members = s.members /\ c.removes = s.removes
           /\ s.crdt => c = s
           /\ ~s.crdt => \A e \in Elements :
                            c.adds[e] = IF e \in s.members THEN ZeroStamp ELSE Never
<1>1. CASE s.crdt
  BY <1>1, NoSetFacts DEF WellFormed, EnsureCRDT
<1>2. CASE ~s.crdt
  <2>. DEFINE a == [e \in Elements |-> IF e \in s.members THEN ZeroStamp ELSE Never]
  <2>1. a \in [Elements -> Stamps]
    BY SpecialStamps
  <2>2. EnsureCRDT(s) = [there |-> TRUE, members |-> s.members, crdt |-> TRUE,
                         adds |-> a, removes |-> s.removes]
    BY <1>2 DEF EnsureCRDT, WellFormed, SetStates
  <2> QED
    BY <1>2, <2>1, <2>2 DEF WellFormed, SetStates
<1> QED
  BY <1>1, <1>2

\* syncMember makes the elements of M members exactly if their stamps say so.
LEMMA SyncFacts ==
    ASSUME NEW s \in SetStates, NEW M \in SUBSET Elements
    PROVE  LET t == SyncMembers(s, M) IN
           /\ t \in SetStates
           /\ t.there = s.there /\ t.crdt = s.crdt /\ t.adds = s.adds /\ t.removes = s.removes
           /\ \A e \in Elements : InSet(t, e) <=> InSet(s, e)
           /\ \A e \in M : e \in t.members <=> InSet(t, e)
           /\ \A e \in Elements \ M : e \in t.members <=> e \in s.members
<1>. DEFINE N == (s.members \ M) \cup {e \in M : InSet(s, e)}
<1>1. N \in SUBSET Elements
  BY DEF SetStates
<1>2. SyncMembers(s, M) = [there |-> s.there, members |-> N, crdt |-> s.crdt,
                           adds |-> s.adds, removes |-> s.removes]
  BY DEF SyncMembers, SetStates
<1>3. SyncMembers(s, M) \in SetStates
  BY <1>1, <1>2 DEF SetStates
<1>4. ASSUME NEW e \in Elements PROVE InSet(SyncMembers(s, M), e) <=> InSet(s, e)
  BY <1>2 DEF InSet
<1> QED
  BY <1>2, <1>3, <1>4

\* A stamped add (SAddLWW).
LEMMA AddFacts ==
    ASSUME NEW s, WellFormed(s), NEW M \in SUBSET Elements, NEW st \in Stamps
    PROVE  LET t == SAddLWW(s, M, st)
               c == EnsureCRDT(s) IN
           /\ WellFormed(t) /\ t.crdt
           /\ t.removes = s.removes
           /\ t.adds = Newest(c.adds, M, st)
           /\ \A e \in M : e \in t.members <=> InSet(t, e)
           /\ \A e \in Elements \ M : e \in t.members <=> e \in s.members
<1>. PICK c : c = EnsureCRDT(s)
  OBVIOUS
<1>. PICK a : a = Newest(c.adds, M, st)
  OBVIOUS
<1>. PICK u : u = [c EXCEPT !.adds = a]
  OBVIOUS
<1>1. /\ c \in SetStates /\ c.there /\ c.crdt
      /\ c.members = s.members /\ c.removes = s.removes
  BY EnsureFacts
<1>2. c.adds \in [Elements -> Stamps]
  BY <1>1 DEF SetStates
<1>3. a \in [Elements -> Stamps]
  BY <1>2, NewestFacts
<1>4. u = [there |-> c.there, members |-> c.members, crdt |-> c.crdt,
           adds |-> a, removes |-> c.removes]
  BY <1>1 DEF SetStates
<1>5. u \in SetStates
  BY <1>1, <1>3, <1>4 DEF SetStates
<1>6. SAddLWW(s, M, st) = SyncMembers(u, M)
  BY DEF SAddLWW
<1>7. /\ u.there /\ u.crdt /\ u.removes = s.removes /\ u.members = s.members
      /\ u.adds = Newest(c.adds, M, st)
  BY <1>1, <1>4
<1>. PICK t : t = SyncMembers(u, M)
  OBVIOUS
<1>8. /\ t \in SetStates
      /\ t.there = u.there /\ t.crdt = u.crdt /\ t.adds = u.adds /\ t.removes = u.removes
      /\ \A e \in M : e \in t.members <=> InSet(t, e)
      /\ \A e \in Elements \ M : e \in t.members <=> e \in u.members
  BY <1>5, SyncFacts
<1> QED
  BY <1>6, <1>7, <1>8 DEF WellFormed

\* A stamped remove (SRemLWW).
LEMMA RemoveFacts ==
    ASSUME NEW s, WellFormed(s), NEW M \in SUBSET Elements, NEW st \in Stamps
    PROVE  LET t == SRemLWW(s, M, st)
               c == EnsureCRDT(s) IN
           /\ WellFormed(t) /\ t.crdt
           /\ t.adds = c.adds
           /\ t.removes = Newest(s.removes, M, st)
           /\ \A e \in M : e \in t.members <=> InSet(t, e)
           /\ \A e \in Elements \ M : e \in t.members <=> e \in s.members
<1>. PICK c : c = EnsureCRDT(s)
  OBVIOUS
<1>. PICK a : a = Newest(c.removes, M, st)
  OBVIOUS
<1>. PICK u : u = [c EXCEPT !.removes = a]
  OBVIOUS
<1>1. /\ c \in SetStates /\ c.there /\ c.crdt
      /\ c.members = s.members /\ c.removes = s.removes
  BY EnsureFacts
<1>2. c.removes \in [Elements -> Stamps]
  BY <1>1 DEF SetStates
<1>3. a \in [Elements -> Stamps]
  BY <1>2, NewestFacts
<1>4. u = [there |-> c.there, members |-> c.members, crdt |-> c.crdt,
           adds |-> c.adds, removes |-> a]
  BY <1>1 DEF SetStates
<1>5. u \in SetStates
  BY <1>1, <1>3, <1>4 DEF SetStates
<1>6. SRemLWW(s, M, st) = SyncMembers(u, M)
  BY DEF SRemLWW
<1>7. /\ u.there /\ u.crdt /\ u.adds = c.adds /\ u.members = s.members
      /\ u.removes = Newest(s.removes, M, st)
  BY <1>1, <1>4
<1>. PICK t : t = SyncMembers(u, M)
  OBVIOUS
<1>8. /\ t \in SetStates
      /\ t.there = u.there /\ t.crdt = u.crdt /\ t.adds = u.adds /\ t.removes = u.removes
      /\ \A e \in M : e \in t.members <=> InSet(t, e)
      /\ \A e \in Elements \ M : e \in t.members <=> e \in u.members
  BY <1>5, SyncFacts
<1> QED
  BY <1>6, <1>7, <1>8 DEF WellFormed

\* The plain SADD (set_operations.go) adds members and leaves the stamps.
LEMMA PlainAddFacts ==
    ASSUME NEW s, WellFormed(s), NEW M \in SUBSET Elements
    PROVE  LET t == PlainAdd(s, M) IN
           /\ WellFormed(t)
           /\ t.crdt = s.crdt /\ t.adds = s.adds /\ t.removes = s.removes
           /\ t.members = s.members \cup M
<1>. PICK N : N = s.members \cup M
  OBVIOUS
<1>. PICK t : t = [s EXCEPT !.there = TRUE, !.members = N]
  OBVIOUS
<1>1. s \in SetStates /\ N \in SUBSET Elements
  BY DEF WellFormed, SetStates
<1>2. t \in SetStates
  BY <1>1 DEF SetStates
<1>3. t.there /\ t.members = N /\ t.crdt = s.crdt /\ t.adds = s.adds /\ t.removes = s.removes
  BY <1>1 DEF SetStates
<1>4. PlainAdd(s, M) = t
  BY DEF PlainAdd
<1> QED
  BY <1>2, <1>3, <1>4 DEF WellFormed

\* The plain SREM takes members, and the whole key with the last of them.
LEMMA PlainRemoveFacts ==
    ASSUME NEW s, WellFormed(s), s.there, NEW M \in SUBSET Elements
    PROVE  LET t == PlainRemove(s, M) IN
           /\ WellFormed(t)
           /\ s.members \subseteq M => t = NoSet
           /\ ~(s.members \subseteq M) =>
                 /\ t.crdt = s.crdt /\ t.adds = s.adds /\ t.removes = s.removes
                 /\ t.members = s.members \ M
<1>1. CASE s.members \subseteq M
  BY <1>1, NoSetFacts DEF PlainRemove
<1>2. CASE ~(s.members \subseteq M)
  <2>1. PlainRemove(s, M) = [there |-> s.there, members |-> s.members \ M, crdt |-> s.crdt,
                             adds |-> s.adds, removes |-> s.removes]
    BY <1>2 DEF PlainRemove, WellFormed, SetStates
  <2> QED
    BY <1>2, <2>1 DEF WellFormed, SetStates
<1> QED
  BY <1>1, <1>2

\* What SDIFFSTORE leaves has no stamps.
LEMMA DifferenceFacts ==
    ASSUME NEW M \in SUBSET Elements
    PROVE  LET t == [NoSet EXCEPT !.there = TRUE, !.members = M] IN
           /\ WellFormed(t)
           /\ ~t.crdt /\ t.adds = Blank /\ t.removes = Blank
<1>. PICK t : t = [NoSet EXCEPT !.there = TRUE, !.members = M]
  OBVIOUS
<1>1. NoSet \in SetStates
  BY NoSetFacts DEF WellFormed
<1>2. t \in SetStates
  BY <1>1 DEF SetStates
<1>3. t.there /\ ~t.crdt /\ t.adds = Blank /\ t.removes = Blank
  BY <1>1, NoSetFacts DEF SetStates
<1> QED
  BY <1>2, <1>3 DEF WellFormed

(***************************************************************************)
(* A collection takes the stamps of the elements it collects and leaves    *)
(* the members (gcElementTombstones).                                      *)
(***************************************************************************)
LEMMA CollectFacts ==
    ASSUME NEW s, WellFormed(s), NEW M \in SUBSET Elements, M \subseteq Dead(s)
    PROVE  LET p == Pruned(s, M)
               t == IF Empty(p) THEN NoSet ELSE p IN
           /\ WellFormed(t)
           /\ t.members = s.members
           /\ \A e \in M : t.adds[e] = Never /\ t.removes[e] = Never
           /\ \A e \in Elements \ M :
                 /\ t.adds[e] = s.adds[e] /\ t.removes[e] = s.removes[e]
                 /\ s.adds[e] # Never \/ s.removes[e] # Never => t.crdt = s.crdt
<1>. PICK a : a = [e \in Elements |-> IF e \in M THEN Never ELSE s.adds[e]]
  OBVIOUS
<1>. PICK r : r = [e \in Elements |-> IF e \in M THEN Never ELSE s.removes[e]]
  OBVIOUS
<1>. PICK p : p = Pruned(s, M)
  OBVIOUS
<1>1. /\ s \in SetStates
      /\ s.there \/ s = NoSet
      /\ s.crdt \/ (s.adds = Blank /\ s.removes = Blank)
  BY DEF WellFormed
<1>2. a \in [Elements -> Stamps] /\ r \in [Elements -> Stamps]
  <2>1. s.adds \in [Elements -> Stamps] /\ s.removes \in [Elements -> Stamps]
    BY <1>1 DEF SetStates
  <2> QED
    BY <2>1, SpecialStamps
<1>3. /\ p \in SetStates
      /\ p.there = s.there /\ p.members = s.members /\ p.crdt = s.crdt
      /\ p.adds = a /\ p.removes = r
  <2>1. p = [s EXCEPT !.adds = a, !.removes = r]
    BY DEF Pruned
  <2>2. p \in SetStates
    BY <1>1, <1>2, <2>1 DEF SetStates
  <2> QED
    BY <1>1, <2>1, <2>2 DEF SetStates
<1>4. \A e \in M : a[e] = Never /\ r[e] = Never
  OBVIOUS
<1>5. \A e \in Elements \ M : a[e] = s.adds[e] /\ r[e] = s.removes[e]
  OBVIOUS
<1>6. CASE Empty(p)
  <2>1. a = Blank /\ r = Blank /\ s.members = {}
    BY <1>3, <1>6 DEF Empty
  <2>2. \A e \in Elements \ M : s.adds[e] = Never /\ s.removes[e] = Never
    BY <1>5, <2>1, NoSetFacts
  <2> QED
    BY <1>6, <2>1, <2>2, NoSetFacts
<1>7. CASE ~Empty(p)
  <2>2. s.crdt \/ (a = Blank /\ r = Blank)
    <3>1. SUFFICES ASSUME s.adds = Blank, s.removes = Blank PROVE a = Blank /\ r = Blank
      BY <1>1
    <3>2. \A e \in Elements : s.adds[e] = Never /\ s.removes[e] = Never
      BY <3>1, NoSetFacts
    <3> QED
      BY <3>2 DEF Blank
  <2>3. s.there
    <3>1. SUFFICES ASSUME s = NoSet PROVE FALSE
      BY <1>1
    <3>2. a = Blank /\ r = Blank
      BY <2>2, <3>1, NoSetFacts
    <3> QED
      BY <1>3, <1>7, <3>1, <3>2, NoSetFacts DEF Empty
  <2>4. WellFormed(p)
    BY <1>3, <2>2, <2>3 DEF WellFormed
  <2> QED
    BY <1>3, <1>4, <1>5, <1>7, <2>4
<1> QED
  BY <1>6, <1>7

-----------------------------------------------------------------------------
(***************************************************************************)
(* The inductive invariant.                                                *)
(***************************************************************************)
\* A command with this stamp did this to the element.
IsIssued(op, e, st) == \E v \in issued : v.op = op /\ e \in v.members /\ v.stamp = st

DelIsIssued(st) == \E v \in issued : v.op = "del" /\ v.stamp = st

\* Every stamp is drawn once, and its node's clock covers it.
Drawn ==
    /\ \A w \in issued : /\ w.op \in {"add", "remove", "del"}
                         /\ w.stamp \in DrawnStamps /\ IsStamped(w)
    /\ \A v, w \in issued : v.stamp = w.stamp => v = w
    /\ \A w \in issued : ~TSAfter(TS(w.stamp), hlc[w.stamp.o])
    /\ stamped \subseteq issued
    /\ \A c \in plain : c.op \in {"add", "remove", "del"}

\* What an event says, a command did.
Faithful(w) ==
    /\ w.op = "store" => replaced
    /\ w.op = "remove" => IsStamped(w)
    /\ w.op = "del" => DelIsIssued(w.stamp)
    /\ w.op \in {"add", "remove"} /\ IsStamped(w) =>
          \A e \in w.members : IsIssued(w.op, e, w.stamp)

Carried ==
    /\ \A m \in net : Faithful(m.event)
    /\ \A n \in Nodes : \A w \in handling[n] : Faithful(w)
    /\ \A d \in digests : \A w \in d.facts : Faithful(w)

\* The stamps a set keeps are those of commands on the element.
TracedSet(s) ==
    \A e \in Elements :
        /\ s.adds[e] \in {Never, ZeroStamp} \/ IsIssued("add", e, s.adds[e])
        /\ s.removes[e] = Never \/ IsIssued("remove", e, s.removes[e])

Traced == \A n \in Nodes : /\ TracedSet(sets[n])
                           /\ gone[n] = ZeroStamp \/ DelIsIssued(gone[n])

\* The callback of a plain command on the element is still to come.
Called(n, op, e) == \E c \in plain : c.node = n /\ c.op = op /\ e \in c.members

\* What holds of a removal r of e at its node, once applied there.
RemovalHeld(r, e) ==
    \/ \E w \in issued : w.op = "add" /\ e \in w.members /\ After(w.stamp, r.stamp)
    \/ r \in excused
    \/ /\ sets[r.stamp.o].crdt
       /\ ~After(r.stamp, sets[r.stamp.o].removes[e])
       /\ e \notin sets[r.stamp.o].members \/ Called(r.stamp.o, "add", e)

Held == \A r \in issued \ stamped : \A e \in r.members : r.op = "remove" => RemovalHeld(r, e)

\* What holds of an add w of e at its node, once applied there.
AddKept(w, e) ==
    \/ \E r \in issued : r.op = "remove" /\ e \in r.members /\ After(r.stamp, w.stamp)
    \/ Called(w.stamp.o, "remove", e)
    \/ /\ sets[w.stamp.o].crdt
       /\ ~After(w.stamp, sets[w.stamp.o].adds[e])
       /\ e \in sets[w.stamp.o].members

\* Nothing has been done to the set as a whole.
ByElements == ~replaced /\ \A w \in issued : w.op # "del"

Kept == ByElements =>
           \A w \in issued \ stamped : \A e \in w.members : w.op = "add" => AddKept(w, e)

IInv == /\ TypeOK /\ Drawn /\ Carried /\ Traced
        /\ WinnersAreMembers /\ Held /\ Kept

\* The sets of a well-typed state are well-formed.
LEMMA SetsWellFormed ==
    ASSUME TypeOK, NEW n \in Nodes
    PROVE  WellFormed(sets[n]) /\ sets[n] \in SetStates
BY DEF TypeOK, WellFormed, SetStates

\* The sets are typed if each is well-formed.
LEMMA SetsTyped ==
    ASSUME TypeOK, NEW n \in Nodes, NEW s, WellFormed(s), Becomes(n, s)
    PROVE  /\ sets'[n] = s /\ \A k \in Nodes \ {n} : sets'[k] = sets[k]
           /\ \A k \in Nodes : WellFormed(sets'[k])
           /\ sets' \in [Nodes -> SetStates]
<1>1. sets \in [Nodes -> SetStates]
  BY DEF TypeOK, SetStates
<1>2. s \in SetStates
  BY DEF WellFormed
<1>3. sets'[n] = s /\ \A k \in Nodes \ {n} : sets'[k] = sets[k]
  BY <1>1 DEF Becomes
<1>4. sets' \in [Nodes -> SetStates]
  BY <1>1, <1>2 DEF Becomes
<1>5. \A k \in Nodes : WellFormed(sets'[k])
  BY <1>3, SetsWellFormed
<1> QED
  BY <1>3, <1>4, <1>5

-----------------------------------------------------------------------------
(***************************************************************************)
(* Types.                                                                  *)
(***************************************************************************)
SetsOK == sets \in [Nodes -> SetStates] /\ \A n \in Nodes : WellFormed(sets[n])

OthersOK ==
    /\ hlc \in [Nodes -> Timestamps]
    /\ gone \in [Nodes -> Stamps]
    /\ plain \subseteq [node : Nodes, op : DOMAIN Cost, members : SUBSET Elements]
    /\ stamped \subseteq Events /\ issued \subseteq Events
    /\ net \subseteq [to : Nodes, event : Events]
    /\ handling \in [Nodes -> SUBSET Events]
    /\ digests \subseteq [from : Nodes, to : Nodes, facts : SUBSET Events]
    /\ {commands, collects} \subseteq Nat

\* The type invariant is these two.
LEMMA TypesSplit == TypeOK <=> SetsOK /\ OthersOK
BY DEF TypeOK, SetsOK, OthersOK, WellFormed, SetStates

\* Changing one set, or none, to a well-formed one keeps the sets typed.
LEMMA SetsOKStep ==
    ASSUME TypeOK,
           \/ sets' = sets
           \/ \E n \in Nodes : \E s : WellFormed(s) /\ Becomes(n, s)
    PROVE  SetsOK'
<1>1. CASE sets' = sets
  BY <1>1, TypesSplit DEF SetsOK
<1>2. ASSUME NEW n \in Nodes, NEW s, WellFormed(s), Becomes(n, s) PROVE SetsOK'
  BY <1>2, SetsTyped DEF SetsOK
<1> QED
  BY <1>1, <1>2

\* The fields of an event.
LEMMA EventFields ==
    ASSUME NEW w \in Events
    PROVE  /\ w.op \in {"add", "remove", "del", "store"}
           /\ w.members \in SUBSET Elements /\ w.stamp \in Stamps
BY DEF Events

\* Events are made of an operation, elements and a stamp.
LEMMA EventMade ==
    ASSUME NEW op \in {"add", "remove", "del", "store"}, NEW M \in SUBSET Elements,
           NEW st \in Stamps
    PROVE  /\ Event(op, M, st) \in Events
           /\ Event(op, M, st).op = op /\ Event(op, M, st).members = M
           /\ Event(op, M, st).stamp = st
BY DEF Event, Events

\* Apply is one of six things.
LEMMA ApplyCases ==
    ASSUME NEW n \in Nodes, NEW w \in Events, Apply(n, w)
    PROVE  \/ /\ w.op = "add" /\ IsStamped(w)
              /\ Becomes(n, SAddLWW(sets[n], w.members, w.stamp))
              /\ gone' = gone /\ Excuse(n, {})
           \/ /\ w.op = "add" /\ ~IsStamped(w)
              /\ Becomes(n, PlainAdd(sets[n], w.members))
              /\ gone' = gone /\ Excuse(n, w.members)
           \/ /\ w.op = "remove"
              /\ Becomes(n, SRemLWW(sets[n], w.members, w.stamp))
              /\ gone' = gone
              /\ Excuse(n, IF IsStamped(w) THEN {} ELSE w.members)
           \/ w.op = "del" /\ UNCHANGED <<sets, gone, excused>>
           \/ /\ w.op = "del" /\ Becomes(n, NoSet) /\ gone' = [gone EXCEPT ![n] = w.stamp]
              /\ Excuse(n, Elements)
           \/ /\ w.op = "store" /\ gone' = gone /\ Excuse(n, Elements)
              /\ \E M \in SUBSET Elements : Becomes(n, [NoSet EXCEPT !.there = TRUE, !.members = M])
<1>1. CASE w.op = "add"
  BY <1>1 DEF Apply, Applied
<1>2. CASE w.op = "remove"
  BY <1>2 DEF Apply, Applied
<1>3. CASE w.op = "del"
  BY <1>3 DEF Apply, DeleteLWW
<1>4. CASE w.op = "store"
  BY <1>4 DEF Apply, Difference
<1> QED
  BY <1>1, <1>2, <1>3, <1>4, EventFields

\* Applying an event keeps the types.
LEMMA ApplyTypes ==
    ASSUME TypeOK, NEW n \in Nodes, NEW w \in Events, Apply(n, w)
    PROVE  SetsOK' /\ gone' \in [Nodes -> Stamps]
<1>1. WellFormed(sets[n])
  BY SetsWellFormed
<1>2. w.members \in SUBSET Elements /\ w.stamp \in Stamps
  BY EventFields
<1>3. gone \in [Nodes -> Stamps]
  BY DEF TypeOK
<1>4. gone' \in [Nodes -> Stamps]
  BY <1>2, <1>3, ApplyCases
<1>5. /\ WellFormed(SAddLWW(sets[n], w.members, w.stamp))
      /\ WellFormed(SRemLWW(sets[n], w.members, w.stamp))
      /\ WellFormed(PlainAdd(sets[n], w.members))
      /\ WellFormed(NoSet)
      /\ \A M \in SUBSET Elements : WellFormed([NoSet EXCEPT !.there = TRUE, !.members = M])
  BY <1>1, <1>2, AddFacts, RemoveFacts, PlainAddFacts, NoSetFacts, DifferenceFacts
<1>6. sets' = sets \/ \E s : WellFormed(s) /\ Becomes(n, s)
  BY <1>5, ApplyCases
<1>7. SetsOK'
  BY <1>6, SetsOKStep
<1> QED
  BY <1>4, <1>7

\* What a digest says of a set.
LEMMA DigestFacts ==
    ASSUME NEW s, WellFormed(s), NEW w \in Digest(s)
    PROVE  /\ w \in Events
           /\ \E e \in Elements :
                 /\ w.members = {e}
                 /\ \/ w.op = "add" /\ ~s.crdt /\ w.stamp = ZeroStamp /\ e \in s.members
                    \/ w.op = "add" /\ s.crdt /\ InSet(s, e) /\ w.stamp = s.adds[e]
                    \/ /\ w.op = "remove" /\ s.crdt /\ ~InSet(s, e)
                       /\ w.stamp = s.removes[e] /\ s.removes[e] # Never
<1>1. s \in SetStates
  BY DEF WellFormed
<1>2. \A e \in Elements : s.adds[e] \in Stamps /\ s.removes[e] \in Stamps
  BY <1>1 DEF SetStates
<1>3. CASE ~s.crdt
  <2>1. PICK e \in s.members : w = Event("add", {e}, ZeroStamp)
    BY <1>3 DEF Digest
  <2>2. e \in Elements
    BY <1>1, <2>1 DEF SetStates
  <2> QED
    BY <1>3, <2>1, <2>2, EventMade, SpecialStamps
<1>4. CASE s.crdt
  <2>1. PICK e \in Elements :
           /\ s.adds[e] # Never \/ s.removes[e] # Never
           /\ w = IF InSet(s, e) THEN Event("add", {e}, s.adds[e])
                  ELSE Event("remove", {e}, s.removes[e])
    BY <1>4 DEF Digest
  <2>2. CASE InSet(s, e)
    BY <1>2, <1>4, <2>1, <2>2, EventMade
  <2>3. CASE ~InSet(s, e)
    <3>1. s.removes[e] # Never
      BY <1>1, <2>1, <2>3, OutOfSet
    <3> QED
      BY <1>2, <1>4, <2>1, <2>3, <3>1, EventMade
  <2> QED
    BY <2>2, <2>3
<1> QED
  BY <1>3, <1>4

\* A digest of a node is of its set, or its tombstone.
LEMMA FactsTyped ==
    ASSUME TypeOK, NEW n \in Nodes
    PROVE  /\ Facts(n) \subseteq Events
           /\ \A w \in Facts(n) : \/ w \in Digest(sets[n])
                                  \/ w = Event("del", {}, gone[n]) /\ IsStamped(w)
<1>1. WellFormed(sets[n]) /\ gone[n] \in Stamps
  BY SetsWellFormed DEF TypeOK
<1>2. Event("del", {}, gone[n]) \in Events
  BY <1>1, EventMade
<1>3. Digest(sets[n]) \subseteq Events
  BY <1>1, DigestFacts
<1> QED
  BY <1>2, <1>3 DEF Facts

\* The steps; an SPOP is an SREM.
LEMMA NextCases ==
    ASSUME TypeOK, [Next]_vars
    PROVE  \/ \E n \in Nodes, M \in SUBSET Elements : SAdd(n, M)
           \/ \E n \in Nodes, M \in SUBSET Elements : SRem(n, M)
           \/ \E n \in Nodes, M \in SUBSET Elements : SDiffStore(n, M)
           \/ \E n \in Nodes, M \in SUBSET Elements : Collect(n, M)
           \/ \E n \in Nodes : Del(n)
           \/ \E n \in Nodes : \E m \in net : ReceivePush(n, m)
           \/ \E n \in Nodes : \E w \in handling[n] : Handle(n, w)
           \/ \E m \in Nodes, n \in Nodes : SyncReply(m, n)
           \/ \E n \in Nodes : \E d \in digests : SyncResponse(n, d)
           \/ \E c \in plain : NextStamp(c)
           \/ \E w \in stamped : ApplyLocal(w)
           \/ UNCHANGED vars
<1>1. ASSUME NEW n \in Nodes, SPop(n)
      PROVE  \E M \in SUBSET Elements : SRem(n, M)
  <2>1. PICK e \in sets[n].members : SRem(n, {e})
    BY <1>1 DEF SPop
  <2>2. {e} \in SUBSET Elements
    BY SetsWellFormed DEF SetStates
  <2> QED
    BY <2>1, <2>2
<1> QED
  BY <1>1 DEF Next

\* The bound on commands keeps their count a number.
LEMMA CommandTypes ==
    ASSUME commands \in Nat, NEW c \in {"add", "remove", "del", "store"}, Command(c)
    PROVE  commands' \in Nat
BY BoundsAssumption DEF Command

\* A callback is typed.
LEMMA CallsTypes ==
    ASSUME TypeOK, NEW n \in Nodes, NEW op \in {"add", "remove", "del", "store"},
           NEW M \in SUBSET Elements, Calls(n, op, M)
    PROVE  plain' \subseteq [node : Nodes, op : DOMAIN Cost, members : SUBSET Elements]
<1>1. DOMAIN Cost = {"add", "remove", "del", "store"}
  BY BoundsAssumption
<1> QED
  BY <1>1 DEF Calls, TypeOK

\* The stamp a callback draws, and what it makes of it.
LEMMA NextStampFacts ==
    ASSUME TypeOK, NEW c \in plain, NextStamp(c)
    PROVE  \E ts \in Timestamps, w \in Events :
              /\ ts # ZeroTS /\ TSAfter(ts, hlc[c.node])
              /\ c.node \in Nodes /\ hlc' = [hlc EXCEPT ![c.node] = ts]
              /\ w.op = c.op /\ w.members = c.members
              /\ w.stamp \in DrawnStamps /\ w.stamp.o = c.node /\ TS(w.stamp) = ts
              /\ stamped' = stamped \cup {w} /\ issued' = issued \cup {w}
              /\ plain' = plain \ {c}
<1>1. /\ c.node \in Nodes /\ c.op \in {"add", "remove", "del", "store"}
      /\ c.members \in SUBSET Elements
  BY BoundsAssumption DEF TypeOK
<1>2. hlc[c.node] \in Timestamps
  BY <1>1 DEF TypeOK
<1>3. PICK pt \in Time :
         LET ts == Now(hlc[c.node], pt)
             w  == Event(c.op, c.members, Stamp(ts, c.node))
         IN  /\ hlc' = [hlc EXCEPT ![c.node] = ts]
             /\ stamped' = stamped \cup {w}
             /\ issued' = issued \cup {w}
  BY DEF NextStamp
<1>. PICK ts : ts = Now(hlc[c.node], pt)
  OBVIOUS
<1>4. ts \in Timestamps /\ TSAfter(ts, hlc[c.node]) /\ ts # ZeroTS
  BY <1>2, NowAdvances DEF NextStamp
<1>. PICK st : st = Stamp(ts, c.node)
  OBVIOUS
<1>5. st \in DrawnStamps /\ st.o = c.node /\ TS(st) = ts
  BY <1>1, <1>4 DEF Stamp, TS, DrawnStamps, Timestamps
<1>6. st \in Stamps
  BY <1>5, SpecialStamps
<1>. PICK w : w = Event(c.op, c.members, st)
  OBVIOUS
<1>7. w \in Events /\ w.op = c.op /\ w.members = c.members /\ w.stamp = st
  BY <1>1, <1>6, EventMade
<1>8. stamped' = stamped \cup {w} /\ issued' = issued \cup {w} /\ plain' = plain \ {c}
      /\ hlc' = [hlc EXCEPT ![c.node] = ts]
  BY <1>3 DEF NextStamp
<1> QED
  BY <1>1, <1>4, <1>5, <1>7, <1>8

\* A push that is received leaves the receiver's clock past its reading.
LEMMA ReceiveClock ==
    ASSUME TypeOK, NEW n \in Nodes, NEW m \in net, ReceivePush(n, m)
    PROVE  \/ hlc' = hlc
           \/ \E ts \in Timestamps : /\ TSAfter(ts, hlc[n])
                                     /\ hlc' = [hlc EXCEPT ![n] = ts]
<1>1. CASE IsStamped(m.event)
  <2>1. m.event \in Events /\ m.event.stamp \in Stamps
    BY EventFields DEF TypeOK
  <2>2. TS(m.event.stamp) \in Timestamps
    BY <1>1, <2>1, StampedIsDrawn DEF IsStamped
  <2>3. TS(m.event.stamp).l + 1 < LogicalMod /\ hlc[n].l + 1 < LogicalMod
    BY <1>1 DEF ReceivePush, TS
  <2>4. hlc[n] \in Timestamps
    BY DEF TypeOK
  <2>5. PICK pt \in Time : hlc' = [hlc EXCEPT ![n] = Update(hlc[n], TS(m.event.stamp), pt)]
    BY <1>1 DEF ReceivePush
  <2> QED
    BY <2>2, <2>3, <2>4, <2>5, UpdateAdvances
<1>2. CASE ~IsStamped(m.event)
  BY <1>2 DEF ReceivePush
<1> QED
  BY <1>1, <1>2

\* Types hold at the start.
LEMMA InitTypes == Init => TypeOK
<1>1. SUFFICES ASSUME Init PROVE SetsOK /\ OthersOK
  BY TypesSplit
<1>2. ZeroTS \in Timestamps
  BY LogicalModAssumption DEF ZeroTS, Timestamps
<1>3. ZeroStamp \in Stamps
  BY SpecialStamps
<1>4. SetsOK
  BY <1>1, NoSetFacts DEF Init, SetsOK, WellFormed
<1>5. OthersOK
  BY <1>1, <1>2, <1>3 DEF Init, OthersOK
<1> QED
  BY <1>4, <1>5

\* Every step keeps the types.
LEMMA TypesInductive == ASSUME TypeOK, Drawn, [Next]_vars PROVE TypeOK'
<1>1. SUFFICES SetsOK' /\ OthersOK'
  BY DEF TypeOK, SetsOK, OthersOK, WellFormed, SetStates
<1>. USE DEF OthersOK
<1>2. SetsOK /\ OthersOK
  BY TypesSplit
<1>3. ASSUME NEW n \in Nodes, NEW M \in SUBSET Elements, SAdd(n, M)
      PROVE  SetsOK' /\ OthersOK'
  <2>1. SetsOK'
    BY <1>3, SetsWellFormed, PlainAddFacts, SetsOKStep DEF SAdd
  <2>2. commands' \in Nat
    BY <1>2, <1>3, CommandTypes DEF SAdd
  <2>3. plain' \subseteq [node : Nodes, op : DOMAIN Cost, members : SUBSET Elements]
    BY <1>3, CallsTypes DEF SAdd
  <2> QED
    BY <1>2, <1>3, <2>1, <2>2, <2>3 DEF SAdd
<1>4. ASSUME NEW n \in Nodes, NEW M \in SUBSET Elements, SRem(n, M)
      PROVE  SetsOK' /\ OthersOK'
  <2>1. SetsOK'
    BY <1>4, SetsWellFormed, PlainRemoveFacts, SetsOKStep DEF SRem
  <2>2. commands' \in Nat
    BY <1>2, <1>4, CommandTypes DEF SRem
  <2>3. plain' \subseteq [node : Nodes, op : DOMAIN Cost, members : SUBSET Elements]
    BY <1>2, <1>4, CallsTypes DEF SRem
  <2> QED
    BY <1>2, <1>4, <2>1, <2>2, <2>3 DEF SRem
<1>5. ASSUME NEW n \in Nodes, NEW M \in SUBSET Elements, SDiffStore(n, M)
      PROVE  SetsOK' /\ OthersOK'
  <2>1. SetsOK'
    BY <1>5, DifferenceFacts, SetsOKStep DEF SDiffStore, Difference
  <2>2. commands' \in Nat
    BY <1>2, <1>5, CommandTypes DEF SDiffStore
  <2>3. Event("store", {}, ZeroStamp) \in Events
    BY EventMade, SpecialStamps
  <2>4. net' \subseteq [to : Nodes, event : Events]
    BY <1>2, <1>5, <2>3 DEF SDiffStore, Peers
  <2> QED
    BY <1>2, <1>5, <2>1, <2>2, <2>4 DEF SDiffStore
<1>6. ASSUME NEW n \in Nodes, NEW M \in SUBSET Elements, Collect(n, M)
      PROVE  SetsOK' /\ OthersOK'
  <2>1. SetsOK'
    BY <1>6, SetsWellFormed, CollectFacts, SetsOKStep DEF Collect
  <2>2. collects' \in Nat
    BY <1>2, <1>6 DEF Collect
  <2>3. gone' \in [Nodes -> Stamps]
    BY <1>2, <1>6, SpecialStamps DEF Collect
  <2> QED
    BY <1>2, <1>6, <2>1, <2>2, <2>3 DEF Collect
<1>7. ASSUME NEW n \in Nodes, Del(n) PROVE SetsOK' /\ OthersOK'
  <2>1. SetsOK'
    BY <1>7, SetsOKStep DEF Del
  <2>2. commands' \in Nat
    BY <1>2, <1>7, CommandTypes DEF Del
  <2>3. plain' \subseteq [node : Nodes, op : DOMAIN Cost, members : SUBSET Elements]
    BY <1>7, CallsTypes DEF Del
  <2> QED
    BY <1>2, <1>7, <2>1, <2>2, <2>3 DEF Del
<1>8. ASSUME NEW n \in Nodes, NEW m \in net, ReceivePush(n, m) PROVE SetsOK' /\ OthersOK'
  <2>1. SetsOK'
    BY <1>8, SetsOKStep DEF ReceivePush
  <2>2. hlc' \in [Nodes -> Timestamps]
    BY <1>2, <1>8, ReceiveClock
  <2>3. m.event \in Events
    BY <1>2
  <2>4. handling' \in [Nodes -> SUBSET Events] /\ net' \subseteq net
    BY <1>2, <1>8, <2>3 DEF ReceivePush
  <2> QED
    BY <1>2, <1>8, <2>1, <2>2, <2>4 DEF ReceivePush
<1>9. ASSUME NEW n \in Nodes, NEW w \in handling[n], Handle(n, w) PROVE SetsOK' /\ OthersOK'
  <2>1. w \in Events
    BY <1>2
  <2>2. SetsOK' /\ gone' \in [Nodes -> Stamps]
    BY <1>9, <2>1, ApplyTypes DEF Handle
  <2>3. handling' \in [Nodes -> SUBSET Events]
    BY <1>2, <1>9 DEF Handle
  <2> QED
    BY <1>2, <1>9, <2>2, <2>3 DEF Handle
<1>10. ASSUME NEW m \in Nodes, NEW n \in Nodes, SyncReply(m, n) PROVE SetsOK' /\ OthersOK'
  <2>1. SetsOK'
    BY <1>10, SetsOKStep DEF SyncReply
  <2>2. Facts(m) \in SUBSET Events
    BY FactsTyped
  <2>3. digests' \subseteq [from : Nodes, to : Nodes, facts : SUBSET Events]
    BY <1>2, <1>10, <2>2 DEF SyncReply
  <2> QED
    BY <1>2, <1>10, <2>1, <2>3 DEF SyncReply
<1>11. ASSUME NEW n \in Nodes, NEW d \in digests, SyncResponse(n, d) PROVE SetsOK' /\ OthersOK'
  <2>1. SetsOK'
    BY <1>11, SetsOKStep DEF SyncResponse
  <2>2. d.facts \in SUBSET Events
    BY <1>2
  <2>3. handling' \in [Nodes -> SUBSET Events] /\ digests' \subseteq digests
    BY <1>2, <1>11, <2>2 DEF SyncResponse
  <2> QED
    BY <1>2, <1>11, <2>1, <2>3 DEF SyncResponse
<1>12. ASSUME NEW c \in plain, NextStamp(c) PROVE SetsOK' /\ OthersOK'
  <2>1. SetsOK'
    BY <1>12, SetsOKStep DEF NextStamp
  <2>2. /\ hlc' \in [Nodes -> Timestamps]
        /\ stamped' \subseteq Events /\ issued' \subseteq Events /\ plain' \subseteq plain
    BY <1>2, <1>12, NextStampFacts
  <2> QED
    BY <1>2, <1>12, <2>1, <2>2 DEF NextStamp
<1>13. ASSUME NEW w \in stamped, ApplyLocal(w) PROVE SetsOK' /\ OthersOK'
  <2>1. w \in Events
    BY <1>2
  <2>2. w.stamp.o \in Nodes
    BY DEF Drawn, DrawnStamps
  <2>3. SetsOK' /\ gone' \in [Nodes -> Stamps]
    BY <1>13, <2>1, <2>2, ApplyTypes DEF ApplyLocal
  <2>4. net' \subseteq [to : Nodes, event : Events]
    BY <1>2, <1>13, <2>1 DEF ApplyLocal, Peers
  <2> QED
    BY <1>2, <1>13, <2>3, <2>4 DEF ApplyLocal
<1>14. CASE UNCHANGED vars
  BY <1>2, <1>14 DEF vars, SetsOK
<1> QED
  BY <1>3, <1>4, <1>5, <1>6, <1>7, <1>8, <1>9, <1>10, <1>11, <1>12, <1>13, <1>14, NextCases

-----------------------------------------------------------------------------
(***************************************************************************)
(* Stamps and what carries them.                                           *)
(***************************************************************************)
\* An event applied adds to excused only.
LEMMA ApplyExcuses ==
    ASSUME NEW n \in Nodes, NEW w \in Events, Apply(n, w)
    PROVE  excused \subseteq excused'
BY ApplyCases DEF Excuse

\* History only grows.
LEMMA HistoryGrows ==
    ASSUME TypeOK, Drawn, [Next]_vars
    PROVE  /\ issued \subseteq issued' /\ excused \subseteq excused'
           /\ replaced => replaced'
<1>1. ASSUME NEW n \in Nodes, NEW M \in SUBSET Elements,
             SAdd(n, M) \/ SRem(n, M) \/ SDiffStore(n, M) \/ Collect(n, M)
      PROVE  issued' = issued /\ excused \subseteq excused' /\ (replaced => replaced')
  BY <1>1 DEF SAdd, SRem, SDiffStore, Collect, Excuse
<1>2. ASSUME NEW n \in Nodes, NEW w \in handling[n], Handle(n, w)
      PROVE  issued' = issued /\ excused \subseteq excused' /\ replaced' = replaced
  <2>1. w \in Events
    BY DEF TypeOK
  <2> QED
    BY <1>2, <2>1, ApplyExcuses DEF Handle
<1>3. ASSUME NEW w \in stamped, ApplyLocal(w)
      PROVE  issued' = issued /\ excused \subseteq excused' /\ replaced' = replaced
  <2>1. w \in Events /\ w.stamp.o \in Nodes
    BY DEF TypeOK, Drawn, DrawnStamps
  <2> QED
    BY <1>3, <2>1, ApplyExcuses DEF ApplyLocal
<1>4. ASSUME NEW c \in plain, NextStamp(c)
      PROVE  issued \subseteq issued' /\ excused' = excused /\ replaced' = replaced
  BY <1>4, NextStampFacts DEF NextStamp
<1> QED
  BY <1>1, <1>2, <1>3, <1>4, NextCases
     DEF Del, ReceivePush, SyncReply, SyncResponse, vars

\* What a command did, it did.
LEMMA IssuedStays ==
    ASSUME issued \subseteq issued'
    PROVE  /\ \A op, e, st : IsIssued(op, e, st) => IsIssued(op, e, st)'
           /\ \A st : DelIsIssued(st) => DelIsIssued(st)'
BY DEF IsIssued, DelIsIssued

\* A faithful event stays faithful.
LEMMA FaithfulStays ==
    ASSUME issued \subseteq issued', replaced => replaced', NEW w, Faithful(w)
    PROVE  Faithful(w)'
BY IssuedStays DEF Faithful

\* A command's event is faithful.
LEMMA IssuedIsFaithful ==
    ASSUME TypeOK, Drawn, NEW w \in issued
    PROVE  Faithful(w) /\ w \in Events
BY DEF Faithful, Drawn, TypeOK, IsIssued, DelIsIssued

\* Drawn holds at the start.
LEMMA InitDrawn == Init => Drawn
BY DEF Init, Drawn

\* A clock that moves on covers the stamps it covered.
LEMMA CoveredStays ==
    ASSUME TypeOK, Drawn, NEW n \in Nodes, NEW ts \in Timestamps, TSAfter(ts, hlc[n]),
           hlc' = [hlc EXCEPT ![n] = ts]
    PROVE  /\ \A w \in issued : ~TSAfter(TS(w.stamp), hlc'[w.stamp.o])
           /\ \A w \in issued : w.stamp.o = n => TSAfter(ts, TS(w.stamp))
<1>1. ASSUME NEW w \in issued
      PROVE  /\ ~TSAfter(TS(w.stamp), hlc'[w.stamp.o])
             /\ w.stamp.o = n => TSAfter(ts, TS(w.stamp))
  <2>1. /\ w.stamp.o \in Nodes /\ TS(w.stamp) \in Timestamps
        /\ ~TSAfter(TS(w.stamp), hlc[w.stamp.o])
    BY DEF Drawn, DrawnStamps, TS, Timestamps
  <2>2. hlc[n] \in Timestamps /\ hlc \in [Nodes -> Timestamps]
    BY DEF TypeOK
  <2>3. CASE w.stamp.o = n
    BY <2>1, <2>2, <2>3, ClockCovers
  <2>4. CASE w.stamp.o # n
    BY <2>1, <2>2, <2>4
  <2> QED
    BY <2>3, <2>4
<1> QED
  BY <1>1

\* Every step keeps stamps drawn once and covered.
LEMMA DrawnInductive == ASSUME TypeOK, Drawn, [Next]_vars PROVE Drawn'
<1>1. ASSUME issued' = issued, hlc' = hlc, stamped' \subseteq stamped,
             \A c \in plain' : c \in plain \/ c.op \in {"add", "remove", "del"}
      PROVE  Drawn'
  BY <1>1 DEF Drawn, IsStamped
<1>2. ASSUME NEW n \in Nodes, NEW M \in SUBSET Elements, SAdd(n, M) PROVE Drawn'
  BY <1>1, <1>2 DEF SAdd, Calls
<1>3. ASSUME NEW n \in Nodes, NEW M \in SUBSET Elements, SRem(n, M) PROVE Drawn'
  BY <1>1, <1>3 DEF SRem, Calls
<1>4. ASSUME NEW n \in Nodes, NEW M \in SUBSET Elements, SDiffStore(n, M) PROVE Drawn'
  BY <1>1, <1>4 DEF SDiffStore
<1>5. ASSUME NEW n \in Nodes, NEW M \in SUBSET Elements, Collect(n, M) PROVE Drawn'
  BY <1>1, <1>5 DEF Collect
<1>6. ASSUME NEW n \in Nodes, Del(n) PROVE Drawn'
  BY <1>1, <1>6 DEF Del, Calls
<1>7. ASSUME NEW n \in Nodes, NEW m \in net, ReceivePush(n, m) PROVE Drawn'
  <2>1. \A w \in issued : ~TSAfter(TS(w.stamp), hlc'[w.stamp.o])
    BY <1>7, ReceiveClock, CoveredStays DEF Drawn
  <2> QED
    BY <1>7, <2>1 DEF ReceivePush, Drawn, IsStamped
<1>8. ASSUME NEW n \in Nodes, NEW w \in handling[n], Handle(n, w) PROVE Drawn'
  BY <1>1, <1>8 DEF Handle
<1>9. ASSUME NEW m \in Nodes, NEW n \in Nodes, SyncReply(m, n) PROVE Drawn'
  BY <1>1, <1>9 DEF SyncReply
<1>10. ASSUME NEW n \in Nodes, NEW d \in digests, SyncResponse(n, d) PROVE Drawn'
  BY <1>1, <1>10 DEF SyncResponse
<1>11. ASSUME NEW c \in plain, NextStamp(c) PROVE Drawn'
  <2>1. PICK ts \in Timestamps, w \in Events :
              /\ ts # ZeroTS /\ TSAfter(ts, hlc[c.node])
              /\ c.node \in Nodes /\ hlc' = [hlc EXCEPT ![c.node] = ts]
              /\ w.op = c.op /\ w.members = c.members
              /\ w.stamp \in DrawnStamps /\ w.stamp.o = c.node /\ TS(w.stamp) = ts
              /\ stamped' = stamped \cup {w} /\ issued' = issued \cup {w}
              /\ plain' = plain \ {c}
    BY <1>11, NextStampFacts
  <2>2. /\ \A x \in issued : ~TSAfter(TS(x.stamp), hlc'[x.stamp.o])
        /\ \A x \in issued : x.stamp.o = c.node => TSAfter(ts, TS(x.stamp))
    BY <2>1, CoveredStays
  <2>3. ~TSAfter(ts, ts) /\ hlc'[c.node] = ts
    BY <2>1 DEF TypeOK, TSAfter, Timestamps
  <2>4. \A x \in issued : x.stamp # w.stamp
    BY <2>1, <2>2, <2>3
  <2>5. w.op \in {"add", "remove", "del"} /\ IsStamped(w)
    BY <2>1 DEF Drawn, IsStamped
  <2>6. /\ \A x \in issued' : /\ x.op \in {"add", "remove", "del"}
                              /\ x.stamp \in DrawnStamps /\ IsStamped(x)
        /\ \A x, y \in issued' : x.stamp = y.stamp => x = y
        /\ \A x \in issued' : ~TSAfter(TS(x.stamp), hlc'[x.stamp.o])
    BY <2>1, <2>2, <2>3, <2>4, <2>5 DEF Drawn
  <2>7. stamped' \subseteq issued' /\ \A x \in plain' : x.op \in {"add", "remove", "del"}
    BY <2>1 DEF Drawn
  <2> QED
    BY <2>6, <2>7 DEF Drawn, IsStamped
<1>12. ASSUME NEW w \in stamped, ApplyLocal(w) PROVE Drawn'
  BY <1>1, <1>12 DEF ApplyLocal
<1>13. CASE UNCHANGED vars
  BY <1>1, <1>13 DEF vars
<1> QED
  BY <1>2, <1>3, <1>4, <1>5, <1>6, <1>7, <1>8, <1>9, <1>10, <1>11, <1>12, <1>13, NextCases

\* What a digest says, commands did.
LEMMA FactsAreFaithful ==
    ASSUME TypeOK, Drawn, Traced, NEW n \in Nodes, NEW w \in Facts(n)
    PROVE  Faithful(w)
<1>1. CASE w \in Digest(sets[n])
  <2>1. WellFormed(sets[n])
    BY SetsWellFormed
  <2>2. PICK e \in Elements :
                 /\ w.members = {e}
                 /\ \/ /\ w.op = "add" /\ ~sets[n].crdt /\ w.stamp = ZeroStamp
                       /\ e \in sets[n].members
                    \/ /\ w.op = "add" /\ sets[n].crdt /\ InSet(sets[n], e)
                       /\ w.stamp = sets[n].adds[e]
                    \/ /\ w.op = "remove" /\ sets[n].crdt /\ ~InSet(sets[n], e)
                       /\ w.stamp = sets[n].removes[e] /\ sets[n].removes[e] # Never
    BY <1>1, <2>1, DigestFacts
  <2>3. TracedSet(sets[n])
    BY DEF Traced
  <2>4. CASE w.op = "add"
    <3>1. ASSUME IsStamped(w) PROVE IsIssued("add", e, w.stamp)
      <4>1. w.stamp # Never /\ w.stamp # ZeroStamp
        BY <3>1, SpecialStamps DEF IsStamped
      <4> QED
        BY <2>2, <2>3, <2>4, <4>1 DEF TracedSet
    <3> QED
      BY <2>2, <2>4, <3>1 DEF Faithful
  <2>5. CASE w.op = "remove"
    <3>1. IsIssued("remove", e, w.stamp)
      BY <2>2, <2>3, <2>5 DEF TracedSet
    <3>2. IsStamped(w)
      BY <3>1 DEF IsIssued, Drawn, IsStamped
    <3> QED
      BY <2>2, <2>5, <3>1, <3>2 DEF Faithful
  <2> QED
    BY <2>2, <2>4, <2>5
<1>2. CASE w = Event("del", {}, gone[n]) /\ IsStamped(w)
  <2>1. w.op = "del" /\ w.stamp = gone[n]
    BY <1>2, EventMade DEF TypeOK
  <2>2. gone[n] # ZeroStamp
    BY <1>2, <2>1, SpecialStamps DEF IsStamped
  <2> QED
    BY <2>1, <2>2 DEF Traced, Faithful
<1> QED
  BY <1>1, <1>2, FactsTyped

\* Nothing is carried at the start.
LEMMA InitCarried == Init => Carried
BY DEF Init, Carried

\* Every step carries only what commands did.
LEMMA CarriedInductive ==
    ASSUME TypeOK, Drawn, Traced, Carried, [Next]_vars PROVE Carried'
<1>1. issued \subseteq issued' /\ (replaced => replaced')
  BY HistoryGrows
<1>2. ASSUME NEW w, Faithful(w) PROVE Faithful(w)'
  BY <1>1, <1>2, FaithfulStays
<1>3. ASSUME \A m \in net' : m \in net \/ Faithful(m.event) \/ Faithful(m.event)',
             handling' \in [Nodes -> SUBSET Events],
             \A n \in Nodes : \A w \in handling'[n] : w \in handling[n] \/ Faithful(w),
             \A d \in digests' : d \in digests \/ \A w \in d.facts : Faithful(w)
      PROVE  Carried'
  <2>1. \A m \in net' : Faithful(m.event)'
    BY <1>2, <1>3 DEF Carried
  <2>2. \A n \in Nodes : \A w \in handling'[n] : Faithful(w)'
    BY <1>2, <1>3 DEF Carried
  <2>3. \A d \in digests' : \A w \in d.facts : Faithful(w)'
    BY <1>2, <1>3 DEF Carried
  <2> QED
    BY <2>1, <2>2, <2>3 DEF Carried
<1>4. handling' \in [Nodes -> SUBSET Events] /\ handling \in [Nodes -> SUBSET Events]
  <2>1. TypeOK'
    BY TypesInductive
  <2> QED
    BY <2>1 DEF TypeOK
<1>5. ASSUME NEW n \in Nodes, NEW M \in SUBSET Elements, SAdd(n, M) PROVE Carried'
  BY <1>3, <1>4, <1>5 DEF SAdd
<1>6. ASSUME NEW n \in Nodes, NEW M \in SUBSET Elements, SRem(n, M) PROVE Carried'
  BY <1>3, <1>4, <1>6 DEF SRem
<1>7. ASSUME NEW n \in Nodes, NEW M \in SUBSET Elements, SDiffStore(n, M) PROVE Carried'
  <2>1. PICK w : w = Event("store", {}, ZeroStamp)
    OBVIOUS
  <2>2. w.op = "store"
    BY <2>1, EventMade, SpecialStamps
  <2>3. replaced'
    BY <1>7 DEF SDiffStore
  <2>4. Faithful(w)'
    BY <2>2, <2>3 DEF Faithful
  <2>5. \A m \in net' : m \in net \/ m.event = w
    BY <1>7, <2>1 DEF SDiffStore
  <2>6. \A m \in net' : m \in net \/ Faithful(m.event)'
    BY <2>4, <2>5
  <2> QED
    BY <1>3, <1>4, <1>7, <2>6 DEF SDiffStore
<1>8. ASSUME NEW n \in Nodes, NEW M \in SUBSET Elements, Collect(n, M) PROVE Carried'
  BY <1>3, <1>4, <1>8 DEF Collect
<1>9. ASSUME NEW n \in Nodes, Del(n) PROVE Carried'
  BY <1>3, <1>4, <1>9 DEF Del
<1>10. ASSUME NEW n \in Nodes, NEW m \in net, ReceivePush(n, m) PROVE Carried'
  <2>1. Faithful(m.event)
    BY DEF Carried
  <2>2. \A k \in Nodes : \A w \in handling'[k] : w \in handling[k] \/ w = m.event
    BY <1>4, <1>10 DEF ReceivePush
  <2> QED
    BY <1>3, <1>4, <1>10, <2>1, <2>2 DEF ReceivePush
<1>11. ASSUME NEW n \in Nodes, NEW w \in handling[n], Handle(n, w) PROVE Carried'
  <2>1. \A k \in Nodes : \A x \in handling'[k] : x \in handling[k]
    BY <1>4, <1>11 DEF Handle
  <2> QED
    BY <1>3, <1>4, <1>11, <2>1 DEF Handle
<1>12. ASSUME NEW m \in Nodes, NEW n \in Nodes, SyncReply(m, n) PROVE Carried'
  <2>1. \A w \in Facts(m) : Faithful(w)
    BY FactsAreFaithful
  <2>2. \A d \in digests' : d \in digests \/ d.facts = Facts(m)
    BY <1>12 DEF SyncReply
  <2> QED
    BY <1>3, <1>4, <1>12, <2>1, <2>2 DEF SyncReply
<1>13. ASSUME NEW n \in Nodes, NEW d \in digests, SyncResponse(n, d) PROVE Carried'
  <2>1. \A k \in Nodes : \A w \in handling'[k] : w \in handling[k] \/ w \in d.facts
    BY <1>4, <1>13 DEF SyncResponse
  <2>2. \A w \in d.facts : Faithful(w)
    BY DEF Carried
  <2> QED
    BY <1>3, <1>4, <1>13, <2>1, <2>2 DEF SyncResponse
<1>14. ASSUME NEW c \in plain, NextStamp(c) PROVE Carried'
  BY <1>3, <1>4, <1>14 DEF NextStamp
<1>15. ASSUME NEW w \in stamped, ApplyLocal(w) PROVE Carried'
  <2>1. Faithful(w)
    BY IssuedIsFaithful DEF Drawn
  <2>2. \A m \in net' : m \in net \/ m.event = w
    BY <1>15 DEF ApplyLocal
  <2> QED
    BY <1>3, <1>4, <1>15, <2>1, <2>2 DEF ApplyLocal
<1>16. CASE UNCHANGED vars
  BY <1>3, <1>4, <1>16 DEF vars
<1> QED
  BY <1>5, <1>6, <1>7, <1>8, <1>9, <1>10, <1>11, <1>12, <1>13, <1>14, <1>15, <1>16, NextCases

\* A set without stamps is traced.
LEMMA BlankTraced == ASSUME NEW s, s.adds = Blank, s.removes = Blank PROVE TracedSet(s)
BY NoSetFacts DEF TracedSet

\* A stamped add leaves the set's stamps those of commands.
LEMMA AddTraced ==
    ASSUME NEW s, WellFormed(s), TracedSet(s), NEW w \in Events, Faithful(w),
           w.op = "add", IsStamped(w)
    PROVE  TracedSet(SAddLWW(s, w.members, w.stamp))
<1>. PICK c : c = EnsureCRDT(s)
  OBVIOUS
<1>. PICK a : a = c.adds
  OBVIOUS
<1>. PICK t : t = SAddLWW(s, w.members, w.stamp)
  OBVIOUS
<1>1. w.members \in SUBSET Elements /\ w.stamp \in Stamps
  BY EventFields
<1>2. t.removes = s.removes /\ t.adds = Newest(a, w.members, w.stamp)
  BY <1>1, AddFacts
<1>3. \A e \in Elements : a[e] \in {Never, ZeroStamp, s.adds[e]}
  BY EnsureFacts
<1>4. a \in [Elements -> Stamps]
  BY EnsureFacts DEF SetStates
<1>5. \A e \in Elements : t.adds[e] = a[e] \/ (e \in w.members /\ t.adds[e] = w.stamp)
  <2>. PICK g : g = Newest(a, w.members, w.stamp)
    OBVIOUS
  <2>. PICK M \in SUBSET Elements : M = w.members
    BY <1>1
  <2>1. \A e \in Elements : g[e] = a[e] \/ (e \in M /\ g[e] = w.stamp)
    BY <1>1, <1>4, NewestFacts
  <2> QED
    BY <1>2, <2>1
<1>6. \A e \in w.members : IsIssued("add", e, w.stamp)
  BY DEF Faithful
<1> QED
  BY <1>2, <1>3, <1>5, <1>6 DEF TracedSet

\* A stamped remove leaves the set's stamps those of commands.
LEMMA RemoveTraced ==
    ASSUME NEW s, WellFormed(s), TracedSet(s), NEW w \in Events, Faithful(w),
           w.op = "remove"
    PROVE  TracedSet(SRemLWW(s, w.members, w.stamp))
<1>. PICK c : c = EnsureCRDT(s)
  OBVIOUS
<1>. PICK t : t = SRemLWW(s, w.members, w.stamp)
  OBVIOUS
<1>1. w.members \in SUBSET Elements /\ w.stamp \in Stamps
  BY EventFields
<1>2. t.adds = c.adds /\ t.removes = Newest(s.removes, w.members, w.stamp)
  BY <1>1, RemoveFacts
<1>3. \A e \in Elements : c.adds[e] \in {Never, ZeroStamp, s.adds[e]}
  BY EnsureFacts
<1>4. s.removes \in [Elements -> Stamps]
  BY DEF SetStates, WellFormed
<1>5. \A e \in Elements : t.removes[e] = s.removes[e] \/ (e \in w.members /\ t.removes[e] = w.stamp)
  BY <1>1, <1>2, <1>4, NewestFacts
<1>6. \A e \in w.members : IsIssued("remove", e, w.stamp)
  BY DEF Faithful
<1> QED
  BY <1>2, <1>3, <1>5, <1>6 DEF TracedSet

\* What a node knows stays traced when one set becomes a traced one.
LEMMA TracedStep ==
    ASSUME TypeOK, Traced, issued \subseteq issued',
           \/ sets' = sets
           \/ \E n \in Nodes : \E s : WellFormed(s) /\ TracedSet(s) /\ Becomes(n, s),
           \A n \in Nodes : gone'[n] \in {gone[n], ZeroStamp} \/ DelIsIssued(gone'[n])
    PROVE  Traced'
<1>1. ASSUME NEW s, TracedSet(s) PROVE TracedSet(s)'
  BY <1>1, IssuedStays DEF TracedSet
<1>2. ASSUME NEW n \in Nodes PROVE gone'[n] = ZeroStamp \/ (DelIsIssued(gone[n]))'
  BY DEF Traced, DelIsIssued
<1>3. ASSUME NEW n \in Nodes PROVE (TracedSet(sets[n]))'
  <2>1. PICK s : s = sets'[n]
    OBVIOUS
  <2>2. TracedSet(s)
    <3>1. CASE sets' = sets
      BY <2>1, <3>1 DEF Traced
    <3>2. ASSUME NEW k \in Nodes, NEW t, WellFormed(t), TracedSet(t), Becomes(k, t)
          PROVE  TracedSet(s)
      <4>1. s = t \/ s = sets[n]
        BY <2>1, <3>2, SetsTyped
      <4> QED
        BY <3>2, <4>1 DEF Traced
    <3> QED
      BY <3>1, <3>2
  <2>3. TracedSet(s)'
    BY <1>1, <2>2
  <2> QED
    BY <2>1, <2>3 DEF TracedSet
<1> QED
  BY <1>2, <1>3 DEF Traced

\* Nothing is known at the start.
LEMMA InitTraced == Init => Traced
BY BlankTraced, NoSetFacts DEF Init, Traced

\* Applying an event leaves what a node knows traced.
LEMMA ApplyTraced ==
    ASSUME TypeOK, Traced, issued \subseteq issued',
           NEW n \in Nodes, NEW w \in Events, Faithful(w), Apply(n, w)
    PROVE  Traced'
<1>. PICK s : s = sets[n]
  OBVIOUS
<1>1. WellFormed(s) /\ TracedSet(s)
  BY SetsWellFormed DEF Traced
<1>2. w.members \in SUBSET Elements /\ w.stamp \in Stamps
  BY EventFields
<1>3. WellFormed(SAddLWW(s, w.members, w.stamp)) /\ WellFormed(SRemLWW(s, w.members, w.stamp))
  BY <1>1, <1>2, AddFacts, RemoveFacts
<1>4. TracedSet(PlainAdd(s, w.members)) /\ WellFormed(PlainAdd(s, w.members))
  BY <1>1, <1>2, PlainAddFacts DEF TracedSet
<1>5. TracedSet(NoSet) /\ WellFormed(NoSet)
  BY NoSetFacts, BlankTraced
<1>6. ASSUME NEW M \in SUBSET Elements
      PROVE  /\ TracedSet([NoSet EXCEPT !.there = TRUE, !.members = M])
             /\ WellFormed([NoSet EXCEPT !.there = TRUE, !.members = M])
  BY DifferenceFacts, BlankTraced
<1>7. w.op = "add" /\ IsStamped(w) => TracedSet(SAddLWW(s, w.members, w.stamp))
  BY <1>1, AddTraced
<1>8. w.op = "remove" => TracedSet(SRemLWW(s, w.members, w.stamp))
  BY <1>1, RemoveTraced
<1>9. sets' = sets \/ \E t : WellFormed(t) /\ TracedSet(t) /\ Becomes(n, t)
  BY <1>3, <1>4, <1>5, <1>6, <1>7, <1>8, ApplyCases
<1>10. \A k \in Nodes : gone'[k] \in {gone[k], ZeroStamp} \/ DelIsIssued(gone'[k])
  <2>1. gone' = gone \/ (w.op = "del" /\ gone' = [gone EXCEPT ![n] = w.stamp])
    BY ApplyCases
  <2>2. w.op = "del" => DelIsIssued(w.stamp)
    BY DEF Faithful
  <2> QED
    BY <2>1, <2>2 DEF TypeOK
<1> QED
  BY <1>9, <1>10, TracedStep

\* Every step keeps what nodes know traced.
LEMMA TracedInductive ==
    ASSUME TypeOK, Drawn, Carried, Traced, [Next]_vars PROVE Traced'
<1>1. issued \subseteq issued'
  BY HistoryGrows
<1>2. ASSUME gone' = gone,
             \/ sets' = sets
             \/ \E n \in Nodes : \E s : WellFormed(s) /\ TracedSet(s) /\ Becomes(n, s)
      PROVE  Traced'
  BY <1>1, <1>2, TracedStep
<1>3. ASSUME NEW n \in Nodes PROVE WellFormed(sets[n]) /\ TracedSet(sets[n])
  BY SetsWellFormed DEF Traced
<1>4. ASSUME NEW n \in Nodes, NEW M \in SUBSET Elements, SAdd(n, M) PROVE Traced'
  <2>1. WellFormed(PlainAdd(sets[n], M)) /\ TracedSet(PlainAdd(sets[n], M))
    BY <1>3, PlainAddFacts DEF TracedSet
  <2> QED
    BY <1>2, <1>4, <2>1 DEF SAdd
<1>5. ASSUME NEW n \in Nodes, NEW M \in SUBSET Elements, SRem(n, M) PROVE Traced'
  <2>1. sets[n].there
    BY <1>5 DEF SRem
  <2>2. WellFormed(PlainRemove(sets[n], M)) /\ TracedSet(PlainRemove(sets[n], M))
    <3>1. TracedSet(NoSet)
      BY NoSetFacts, BlankTraced
    <3> QED
      BY <1>3, <2>1, <3>1, PlainRemoveFacts DEF TracedSet
  <2> QED
    BY <1>2, <1>5, <2>2 DEF SRem
<1>6. ASSUME NEW n \in Nodes, NEW M \in SUBSET Elements, SDiffStore(n, M) PROVE Traced'
  <2>1. PICK t : t = [NoSet EXCEPT !.there = TRUE, !.members = M]
    OBVIOUS
  <2>2. WellFormed(t) /\ TracedSet(t)
    BY <2>1, DifferenceFacts, BlankTraced
  <2> QED
    BY <1>2, <1>6, <2>1, <2>2 DEF SDiffStore, Difference
<1>7. ASSUME NEW n \in Nodes, NEW M \in SUBSET Elements, Collect(n, M) PROVE Traced'
  <2>1. PICK p : p = Pruned(sets[n], M)
    OBVIOUS
  <2>2. PICK t : t = IF Empty(p) THEN NoSet ELSE p
    OBVIOUS
  <2>3. M \subseteq Dead(sets[n]) /\ Becomes(n, t)
    BY <1>7, <2>1, <2>2 DEF Collect
  <2>4. /\ WellFormed(t)
        /\ \A e \in M : t.adds[e] = Never /\ t.removes[e] = Never
        /\ \A e \in Elements \ M : t.adds[e] = sets[n].adds[e] /\ t.removes[e] = sets[n].removes[e]
    BY <1>3, <2>1, <2>2, <2>3, CollectFacts
  <2>5. TracedSet(t)
    BY <1>3, <2>4 DEF TracedSet
  <2>6. \A k \in Nodes : gone'[k] \in {gone[k], ZeroStamp}
    BY <1>7 DEF Collect, TypeOK
  <2> QED
    BY <1>1, <2>3, <2>4, <2>5, <2>6, TracedStep
<1>8. ASSUME NEW n \in Nodes, NEW w \in handling[n], Handle(n, w) PROVE Traced'
  <2>1. w \in Events /\ Faithful(w)
    BY DEF TypeOK, Carried
  <2> QED
    BY <1>1, <1>8, <2>1, ApplyTraced DEF Handle
<1>9. ASSUME NEW w \in stamped, ApplyLocal(w) PROVE Traced'
  <2>1. w \in Events /\ Faithful(w) /\ w.stamp.o \in Nodes
    BY IssuedIsFaithful DEF Drawn, DrawnStamps
  <2> QED
    BY <1>1, <1>9, <2>1, ApplyTraced DEF ApplyLocal
<1>10. CASE UNCHANGED <<sets, gone>>
  BY <1>2, <1>10
<1> QED
  BY <1>4, <1>5, <1>6, <1>7, <1>8, <1>9, <1>10, NextCases
     DEF Del, ReceivePush, SyncReply, SyncResponse, NextStamp, vars

-----------------------------------------------------------------------------
(***************************************************************************)
(* Members.                                                                *)
(***************************************************************************)
\* What is in the set by its stamps after a stamped command is a member, or
\* another element that was in it before.
LEMMA WinnersAfter ==
    ASSUME NEW s, WellFormed(s), NEW M \in SUBSET Elements, NEW st \in Stamps,
           NEW t \in {SAddLWW(s, M, st), SRemLWW(s, M, st)},
           NEW e \in Elements, InSet(t, e)
    PROVE  \/ e \in t.members
           \/ e \notin M /\ InSet(s, e) /\ e \notin s.members
<1>. PICK c : c = EnsureCRDT(s)
  OBVIOUS
<1>. PICK a : a = c.adds
  OBVIOUS
<1>. PICK r : r = s.removes
  OBVIOUS
<1>1. SUFFICES ASSUME e \notin M, e \notin t.members
               PROVE  InSet(s, e) /\ e \notin s.members
  BY AddFacts, RemoveFacts
<1>2. e \notin s.members
  BY <1>1, AddFacts, RemoveFacts
<1>3. a \in [Elements -> Stamps] /\ r \in [Elements -> Stamps]
  BY EnsureFacts DEF SetStates, WellFormed
<1>4. t.adds[e] = a[e] /\ t.removes[e] = r[e]
  <2>. PICK f : f = Newest(a, M, st)
    OBVIOUS
  <2>. PICK g : g = Newest(r, M, st)
    OBVIOUS
  <2>1. f[e] = a[e] /\ g[e] = r[e]
    BY <1>1, <1>3, NewestFacts
  <2>2. CASE t = SAddLWW(s, M, st)
    <3>1. t.adds = f /\ t.removes = r
      BY <2>2, AddFacts
    <3> QED
      BY <2>1, <3>1
  <2>3. CASE t = SRemLWW(s, M, st)
    <3>1. t.adds = a /\ t.removes = g
      BY <2>3, RemoveFacts
    <3> QED
      BY <2>1, <3>1
  <2> QED
    BY <2>2, <2>3
<1>5. s.crdt \/ a[e] = Never
  BY <1>2, EnsureFacts
<1>6. s.crdt
  BY <1>4, <1>5 DEF InSet
<1>7. a = s.adds
  BY <1>6, EnsureFacts
<1> QED
  BY <1>2, <1>4, <1>7 DEF InSet

\* The same of any event that is applied.
LEMMA ApplyWinners ==
    ASSUME TypeOK, NEW n \in Nodes, NEW w \in Events, Apply(n, w),
           NEW k \in Nodes, NEW e \in Elements, InSet(sets'[k], e)
    PROVE  \/ e \in sets'[k].members
           \/ /\ InSet(sets[k], e) /\ e \notin sets[k].members
              /\ ~(k = n /\ w.op = "remove" /\ e \in w.members)
<1>. PICK s : s = sets[n]
  OBVIOUS
<1>. PICK t : t = sets'[n]
  OBVIOUS
<1>1. WellFormed(s) /\ w.members \in SUBSET Elements /\ w.stamp \in Stamps
  BY SetsWellFormed, EventFields
<1>2. /\ WellFormed(SAddLWW(s, w.members, w.stamp)) /\ WellFormed(SRemLWW(s, w.members, w.stamp))
      /\ WellFormed(PlainAdd(s, w.members)) /\ WellFormed(NoSet)
      /\ \A M \in SUBSET Elements : WellFormed([NoSet EXCEPT !.there = TRUE, !.members = M])
  BY <1>1, AddFacts, RemoveFacts, PlainAddFacts, NoSetFacts, DifferenceFacts
<1>3. \A j \in Nodes \ {n} : sets'[j] = sets[j]
  BY <1>2, SetsTyped, ApplyCases
<1>4. CASE k # n
  BY <1>3, <1>4
<1>5. CASE k = n
  <2>1. CASE t \in {SAddLWW(s, w.members, w.stamp), SRemLWW(s, w.members, w.stamp)}
    BY <1>1, <1>5, <2>1, WinnersAfter
  <2>2. CASE w.op # "remove" /\ t = PlainAdd(s, w.members)
    <3>1. InSet(s, e) /\ (e \in s.members => e \in t.members)
      BY <1>1, <1>5, <2>2, PlainAddFacts DEF InSet
    <3> QED
      BY <1>5, <2>2, <3>1
  <2>3. CASE t.adds = Blank
    BY <1>5, <2>3, BlankNotInSet
  <2>4. CASE w.op # "remove" /\ t = s
    BY <1>5, <2>4
  <2>5. \/ t \in {SAddLWW(s, w.members, w.stamp), SRemLWW(s, w.members, w.stamp)}
        \/ w.op # "remove" /\ t = PlainAdd(s, w.members)
        \/ t = NoSet
        \/ \E M \in SUBSET Elements : t = [NoSet EXCEPT !.there = TRUE, !.members = M]
        \/ w.op # "remove" /\ t = s
    BY <1>2, SetsTyped, ApplyCases
  <2>6. t = NoSet => t.adds = Blank
    BY NoSetFacts
  <2>7. (\E M \in SUBSET Elements : t = [NoSet EXCEPT !.there = TRUE, !.members = M]) => t.adds = Blank
    BY DifferenceFacts
  <2> QED
    BY <2>1, <2>2, <2>3, <2>4, <2>5, <2>6, <2>7
<1> QED
  BY <1>4, <1>5

\* The invariant holds at the start.
LEMMA InitWinners == Init => WinnersAreMembers
BY NoSetFacts, BlankNotInSet DEF Init, WinnersAreMembers

\* Every step keeps the winners members.
LEMMA WinnersInductive ==
    ASSUME TypeOK, Drawn, WinnersAreMembers, [Next]_vars PROVE WinnersAreMembers'
<1>. SUFFICES ASSUME NEW k \in Nodes, NEW e \in Elements,
                     InSet(sets'[k], e), ~Underway(k, "remove", e)'
              PROVE  e \in sets'[k].members
  BY DEF WinnersAreMembers, InSet
<1>1. ASSUME InSet(sets[k], e), ~Underway(k, "remove", e) PROVE e \in sets[k].members
  BY <1>1 DEF WinnersAreMembers
<1>2. plain \subseteq plain' /\ stamped \subseteq stamped' => ~Underway(k, "remove", e)
  BY DEF Underway
<1>3. ASSUME NEW n \in Nodes, NEW M \in SUBSET Elements, SAdd(n, M)
      PROVE  e \in sets'[k].members
  <2>1. ~Underway(k, "remove", e)
    BY <1>2, <1>3 DEF SAdd, Calls
  <2>2. PICK t : t = PlainAdd(sets[n], M)
    OBVIOUS
  <2>3. /\ WellFormed(t) /\ t.adds = sets[n].adds /\ t.removes = sets[n].removes
        /\ t.members = sets[n].members \cup M
    BY <2>2, SetsWellFormed, PlainAddFacts
  <2>4. sets'[n] = t /\ \A j \in Nodes \ {n} : sets'[j] = sets[j]
    BY <1>3, <2>2, <2>3, SetsTyped DEF SAdd
  <2> QED
    BY <1>1, <2>1, <2>3, <2>4 DEF InSet
<1>4. ASSUME NEW n \in Nodes, NEW M \in SUBSET Elements, SRem(n, M)
      PROVE  e \in sets'[k].members
  <2>1. ~Underway(k, "remove", e)
    BY <1>2, <1>4 DEF SRem, Calls
  <2>2. PICK t : t = PlainRemove(sets[n], M)
    OBVIOUS
  <2>3. /\ WellFormed(t)
        /\ \/ t = NoSet
           \/ /\ t.adds = sets[n].adds /\ t.removes = sets[n].removes
              /\ t.members = sets[n].members \ M
    BY <1>4, <2>2, SetsWellFormed, PlainRemoveFacts DEF SRem
  <2>4. sets'[n] = t /\ \A j \in Nodes \ {n} : sets'[j] = sets[j]
    BY <1>4, <2>2, <2>3, SetsTyped DEF SRem
  <2>5. CASE k # n
    BY <1>1, <2>1, <2>4, <2>5
  <2>6. CASE k = n
    <3>1. t # NoSet
      BY <2>4, <2>6, NoSetFacts, BlankNotInSet
    <3>2. e \in sets[n].members
      BY <1>1, <2>1, <2>3, <2>4, <2>6, <3>1 DEF InSet
    <3>3. e \notin M
      <4>1. SUFFICES ASSUME e \in M PROVE Underway(k, "remove", e)'
        OBVIOUS
      <4>2. Calls(n, "remove", M)
        BY <1>4, <3>2, <4>1 DEF SRem
      <4>3. PICK c : c = [node |-> n, op |-> "remove", members |-> M]
        OBVIOUS
      <4>4. c \in plain' /\ c.node = k /\ c.op = "remove" /\ e \in c.members
        BY <2>6, <4>1, <4>2, <4>3 DEF Calls
      <4> QED
        BY <4>4 DEF Underway
    <3> QED
      BY <2>3, <2>4, <2>6, <3>1, <3>2, <3>3
  <2> QED
    BY <2>5, <2>6
<1>5. ASSUME NEW n \in Nodes, NEW M \in SUBSET Elements, SDiffStore(n, M)
      PROVE  e \in sets'[k].members
  <2>1. ~Underway(k, "remove", e)
    BY <1>2, <1>5 DEF SDiffStore
  <2>2. PICK t : t = [NoSet EXCEPT !.there = TRUE, !.members = M]
    OBVIOUS
  <2>3. WellFormed(t) /\ t.adds = Blank
    BY <2>2, DifferenceFacts
  <2>4. sets'[n] = t /\ \A j \in Nodes \ {n} : sets'[j] = sets[j]
    BY <1>5, <2>2, <2>3, SetsTyped DEF SDiffStore, Difference
  <2> QED
    BY <1>1, <2>1, <2>3, <2>4, BlankNotInSet
<1>6. ASSUME NEW n \in Nodes, NEW M \in SUBSET Elements, Collect(n, M)
      PROVE  e \in sets'[k].members
  <2>1. ~Underway(k, "remove", e)
    BY <1>2, <1>6 DEF Collect
  <2>2. PICK p : p = Pruned(sets[n], M)
    OBVIOUS
  <2>3. PICK t : t = IF Empty(p) THEN NoSet ELSE p
    OBVIOUS
  <2>4. M \subseteq Dead(sets[n]) /\ Becomes(n, t)
    BY <1>6, <2>2, <2>3 DEF Collect
  <2>5. /\ WellFormed(t) /\ t.members = sets[n].members
        /\ \A x \in M : t.adds[x] = Never /\ t.removes[x] = Never
        /\ \A x \in Elements \ M : t.adds[x] = sets[n].adds[x] /\ t.removes[x] = sets[n].removes[x]
    BY <2>2, <2>3, <2>4, SetsWellFormed, CollectFacts
  <2>6. sets'[n] = t /\ \A j \in Nodes \ {n} : sets'[j] = sets[j]
    BY <2>4, <2>5, SetsTyped
  <2> QED
    BY <1>1, <2>1, <2>5, <2>6 DEF InSet
<1>7. ASSUME NEW n \in Nodes, NEW w \in handling[n], Handle(n, w)
      PROVE  e \in sets'[k].members
  <2>1. ~Underway(k, "remove", e) /\ w \in Events
    BY <1>2, <1>7 DEF Handle, TypeOK
  <2> QED
    BY <1>1, <1>7, <2>1, ApplyWinners DEF Handle
<1>8. ASSUME NEW w \in stamped, ApplyLocal(w) PROVE e \in sets'[k].members
  <2>1. w \in Events /\ w.stamp.o \in Nodes
    BY DEF TypeOK, Drawn, DrawnStamps
  <2>2. Underway(k, "remove", e) => k = w.stamp.o /\ w.op = "remove" /\ e \in w.members
    BY <1>8 DEF ApplyLocal, Underway
  <2> QED
    BY <1>1, <1>8, <2>1, <2>2, ApplyWinners DEF ApplyLocal
<1>9. ASSUME NEW c \in plain, NextStamp(c) PROVE e \in sets'[k].members
  <2>1. PICK w \in Events :
           /\ w.op = c.op /\ w.members = c.members /\ w.stamp.o = c.node
           /\ stamped' = stamped \cup {w} /\ plain' = plain \ {c}
    BY <1>9, NextStampFacts
  <2>2. ~Underway(k, "remove", e)
    BY <2>1 DEF Underway
  <2> QED
    BY <1>1, <1>9, <2>2 DEF NextStamp
<1>10. CASE UNCHANGED <<sets, stamped>> /\ plain \subseteq plain'
  BY <1>1, <1>2, <1>10
<1> QED
  BY <1>3, <1>4, <1>5, <1>6, <1>7, <1>8, <1>9, <1>10, NextCases
     DEF Del, Calls, ReceivePush, SyncReply, SyncResponse, vars

-----------------------------------------------------------------------------
(***************************************************************************)
(* What a node knows of the commands it applied itself.                    *)
(***************************************************************************)
\* What a stamped command, an add or a remove of the elements of M with the
\* stamp st, does to the stamps and the membership of e: t is what s becomes.
StampsMove(s, M, st, t, e) ==
    /\ WellFormed(t) /\ t.crdt
    /\ t.adds[e] \in Stamps /\ t.removes[e] \in Stamps
    /\ ~After(s.removes[e], t.removes[e])
    /\ s.crdt => ~After(s.adds[e], t.adds[e])
    /\ e \in M => (e \in t.members <=> InSet(t, e))
    /\ e \notin M => (e \in t.members <=> e \in s.members)
    /\ e \in M /\ t = SAddLWW(s, M, st) => ~After(st, t.adds[e])
    /\ e \in M /\ t = SRemLWW(s, M, st) => ~After(st, t.removes[e])

\* A stamped command moves stamps so.
LEMMA StampedFacts ==
    ASSUME NEW s, WellFormed(s), NEW M \in SUBSET Elements, NEW st \in Stamps,
           NEW t, t = SAddLWW(s, M, st) \/ t = SRemLWW(s, M, st), NEW e \in Elements
    PROVE  StampsMove(s, M, st, t, e)
<1>. USE DEF StampsMove
<1>. PICK c : c = EnsureCRDT(s)
  OBVIOUS
<1>. PICK a : a = c.adds
  OBVIOUS
<1>. PICK r : r = s.removes
  OBVIOUS
<1>1. a \in [Elements -> Stamps] /\ r \in [Elements -> Stamps]
  BY EnsureFacts DEF SetStates, WellFormed
<1>2. s.crdt => a = s.adds
  BY EnsureFacts
<1>3. a[e] \in Stamps /\ r[e] \in Stamps
  BY <1>1
<1>4. ~After(a[e], a[e]) /\ ~After(r[e], r[e])
  BY <1>3, AfterAsymmetric
<1>. PICK f : f = Newest(a, M, st)
  OBVIOUS
<1>. PICK g : g = Newest(r, M, st)
  OBVIOUS
<1>5. /\ f[e] \in Stamps /\ ~After(a[e], f[e]) /\ (e \in M => ~After(st, f[e]))
      /\ g[e] \in Stamps /\ ~After(r[e], g[e]) /\ (e \in M => ~After(st, g[e]))
  BY <1>1, NewestFacts
<1>6. ASSUME t = SAddLWW(s, M, st)
      PROVE  /\ WellFormed(t) /\ t.crdt /\ t.removes = r /\ t.adds = f
             /\ e \in M => (e \in t.members <=> InSet(t, e))
             /\ e \notin M => (e \in t.members <=> e \in s.members)
  BY <1>6, AddFacts
<1>7. ASSUME t = SRemLWW(s, M, st)
      PROVE  /\ WellFormed(t) /\ t.crdt /\ t.adds = a /\ t.removes = g
             /\ e \in M => (e \in t.members <=> InSet(t, e))
             /\ e \notin M => (e \in t.members <=> e \in s.members)
  BY <1>7, RemoveFacts
<1> QED
  BY <1>2, <1>3, <1>4, <1>5, <1>6, <1>7

\* The stamp of a command is drawn, and after the zero stamp.
LEMMA IssuedStamps ==
    ASSUME Drawn, NEW w \in issued
    PROVE  w.stamp \in Stamps /\ After(w.stamp, ZeroStamp) /\ After(w.stamp, Never)
           /\ w.stamp.o \in Nodes
<1>1. w.stamp \in Stamps /\ TS(w.stamp) # ZeroTS /\ w.stamp.o \in Nodes
  BY SpecialStamps DEF Drawn, IsStamped, DrawnStamps
<1>2. After(w.stamp, Never)
  BY <1>1, SpecialStamps, AfterNever
<1>3. After(w.stamp, ZeroStamp)
  <2>1. ZeroStamp.p = 0 /\ ZeroStamp.l = 0
    BY DEF ZeroStamp, Stamp, ZeroTS
  <2> QED
    BY <1>1, <2>1, StampFields DEF After, TSAfter, TS, ZeroTS
<1> QED
  BY <1>1, <1>2, <1>3

\* What is back in the set after a removal came by a newer add.
LEMMA NewerAdd ==
    ASSUME Drawn, NEW r \in issued, r.op = "remove", NEW e \in Elements,
           NEW t, WellFormed(t), TracedSet(t), InSet(t, e), ~After(r.stamp, t.removes[e])
    PROVE  \E w \in issued : w.op = "add" /\ e \in w.members /\ After(w.stamp, r.stamp)
<1>1. t.adds[e] \in Stamps /\ t.removes[e] \in Stamps
  BY DEF WellFormed, SetStates
<1>2. ~After(r.stamp, t.adds[e])
  BY <1>1, IssuedStamps, AfterTransitive DEF InSet
<1>3. t.adds[e] \notin {Never, ZeroStamp}
  BY <1>2, IssuedStamps
<1>4. PICK w \in issued : w.op = "add" /\ e \in w.members /\ w.stamp = t.adds[e]
  BY <1>3 DEF TracedSet, IsIssued
<1>5. w.stamp # r.stamp
  BY <1>4 DEF Drawn
<1> QED
  BY <1>1, <1>2, <1>4, <1>5, IssuedStamps, AfterTotal

\* What is no longer in the set after an add was taken by a newer remove.
LEMMA NewerRemove ==
    ASSUME Drawn, NEW w \in issued, NEW e \in Elements,
           NEW t, WellFormed(t), TracedSet(t), ~InSet(t, e), ~After(w.stamp, t.adds[e])
    PROVE  \E r \in issued : r.op = "remove" /\ e \in r.members /\ After(r.stamp, w.stamp)
<1>1. t.adds[e] \in Stamps /\ t.removes[e] \in Stamps /\ t \in SetStates
  BY DEF WellFormed, SetStates
<1>2. t.adds[e] # Never
  BY IssuedStamps
<1>3. After(t.removes[e], t.adds[e]) /\ t.removes[e] # Never
  BY <1>1, <1>2, OutOfSet
<1>4. PICK r \in issued : r.op = "remove" /\ e \in r.members /\ r.stamp = t.removes[e]
  BY <1>3 DEF TracedSet, IsIssued
<1>5. After(t.removes[e], w.stamp)
  BY <1>1, <1>3, IssuedStamps, AfterTransitive
<1> QED
  BY <1>4, <1>5

\* The set after an event other than a DEL or a replacement.
LEMMA AppliedTraced ==
    ASSUME TypeOK, Traced, NEW n \in Nodes, NEW w \in Events, Faithful(w), Apply(n, w),
           w.op \in {"add", "remove"}, IsStamped(w)
    PROVE  /\ TracedSet(sets'[n]) /\ WellFormed(sets'[n])
           /\ w.op = "add" => sets'[n] = SAddLWW(sets[n], w.members, w.stamp)
           /\ w.op = "remove" => sets'[n] = SRemLWW(sets[n], w.members, w.stamp)
           /\ \A k \in Nodes \ {n} : sets'[k] = sets[k]
<1>. PICK s : s = sets[n]
  OBVIOUS
<1>1. WellFormed(s) /\ TracedSet(s) /\ w.members \in SUBSET Elements /\ w.stamp \in Stamps
  BY SetsWellFormed, EventFields DEF Traced
<1>2. CASE w.op = "add"
  <2>. PICK t : t = SAddLWW(s, w.members, w.stamp)
    OBVIOUS
  <2>1. WellFormed(t) /\ TracedSet(t)
    BY <1>1, <1>2, AddFacts, AddTraced
  <2>2. Becomes(n, t)
    BY <1>2, ApplyCases
  <2>3. sets'[n] = t /\ \A k \in Nodes \ {n} : sets'[k] = sets[k]
    BY <2>1, <2>2, SetsTyped
  <2> QED
    BY <1>2, <2>1, <2>3
<1>3. CASE w.op = "remove"
  <2>. PICK t : t = SRemLWW(s, w.members, w.stamp)
    OBVIOUS
  <2>1. WellFormed(t) /\ TracedSet(t)
    BY <1>1, <1>3, RemoveFacts, RemoveTraced
  <2>2. Becomes(n, t)
    BY <1>3, ApplyCases
  <2>3. sets'[n] = t /\ \A k \in Nodes \ {n} : sets'[k] = sets[k]
    BY <2>1, <2>2, SetsTyped
  <2> QED
    BY <1>3, <2>1, <2>3
<1> QED
  BY <1>2, <1>3

\* An event without a stamp is an add, by Faithful; the set gains members.
LEMMA AppliedUnstamped ==
    ASSUME TypeOK, NEW n \in Nodes, NEW w \in Events, Faithful(w), Apply(n, w),
           w.op \in {"add", "remove"}, ~IsStamped(w)
    PROVE  /\ sets'[n].members = sets[n].members \cup w.members
           /\ sets'[n].crdt = sets[n].crdt
           /\ sets'[n].adds = sets[n].adds /\ sets'[n].removes = sets[n].removes
           /\ \A k \in Nodes \ {n} : sets'[k] = sets[k]
           /\ Excuse(n, w.members)
<1>1. w.op = "add"
  BY DEF Faithful
<1>. PICK t : t = PlainAdd(sets[n], w.members)
  OBVIOUS
<1>2. Becomes(n, t) /\ Excuse(n, w.members)
  BY <1>1, ApplyCases
<1>3. /\ WellFormed(t) /\ t.crdt = sets[n].crdt /\ t.adds = sets[n].adds
      /\ t.removes = sets[n].removes /\ t.members = sets[n].members \cup w.members
  BY SetsWellFormed, EventFields, PlainAddFacts
<1>4. sets'[n] = t /\ \A k \in Nodes \ {n} : sets'[k] = sets[k]
  BY <1>2, <1>3, SetsTyped
<1> QED
  BY <1>2, <1>3, <1>4

\* Excusing everything of a node excuses its removals of an element.
LEMMA Excused ==
    ASSUME NEW n, NEW M \in SUBSET Elements, Excuse(n, M), NEW r \in issued \ stamped,
           r.op = "remove", r.stamp.o = n, NEW e \in r.members, e \in M
    PROVE  r \in excused'
BY DEF Excuse

\* An event applied leaves what a node knows of its removals.
LEMMA ApplyHolds ==
    ASSUME TypeOK, Drawn, Traced, NEW n \in Nodes, NEW w \in Events, Faithful(w),
           Apply(n, w), plain' = plain, issued' = issued,
           NEW r \in issued \ stamped, r.op = "remove", NEW e \in r.members,
           RemovalHeld(r, e)
    PROVE  RemovalHeld(r, e)'
<1>. PICK o : o = r.stamp.o
  OBVIOUS
<1>1. o \in Nodes /\ e \in Elements
  BY IssuedStamps, EventFields DEF TypeOK
<1>2. SUFFICES ASSUME ~ \E x \in issued : x.op = "add" /\ e \in x.members /\ After(x.stamp, r.stamp),
                      r \notin excused'
               PROVE  /\ sets'[o].crdt /\ ~After(r.stamp, sets'[o].removes[e])
                      /\ e \notin sets'[o].members \/ Called(o, "add", e)
  BY DEF RemovalHeld, Called
<1>3. r \notin excused
  BY <1>2, ApplyExcuses
<1>4. /\ sets[o].crdt /\ ~After(r.stamp, sets[o].removes[e])
      /\ e \notin sets[o].members \/ Called(o, "add", e)
  BY <1>2, <1>3 DEF RemovalHeld
<1>5. CASE w.op \in {"add", "remove"} /\ IsStamped(w)
  <2>1. CASE o # n
    BY <1>1, <1>4, <1>5, <2>1, AppliedTraced
  <2>2. CASE o = n
    <3>. PICK t : t = sets'[n]
      OBVIOUS
    <3>. PICK s : s = sets[n]
      OBVIOUS
    <3>1. /\ TracedSet(t) /\ WellFormed(t)
          /\ t \in {SAddLWW(s, w.members, w.stamp), SRemLWW(s, w.members, w.stamp)}
      BY <1>5, AppliedTraced
    <3>2. WellFormed(s) /\ s.removes[e] \in Stamps
      BY <1>1, SetsWellFormed DEF SetStates
    <3>3. w.members \in SUBSET Elements /\ w.stamp \in Stamps
      BY EventFields
    <3>4. /\ t.crdt /\ t.removes[e] \in Stamps /\ ~After(s.removes[e], t.removes[e])
          /\ e \in w.members => (e \in t.members <=> InSet(t, e))
          /\ e \notin w.members => (e \in t.members <=> e \in s.members)
      <4>. PICK M \in SUBSET Elements : M = w.members
        BY <3>3
      <4>. PICK st \in Stamps : st = w.stamp
        BY <3>3
      <4>1. t = SAddLWW(s, M, st) \/ t = SRemLWW(s, M, st)
        BY <3>1
      <4>2. WellFormed(s) /\ e \in Elements
        BY <1>1, <3>2
      <4>3. StampsMove(s, M, st, t, e)
        BY <4>1, <4>2, StampedFacts
      <4> QED
        BY <4>3 DEF StampsMove
    <3>5. ~After(r.stamp, t.removes[e])
      BY <1>4, <2>2, <3>2, <3>4, IssuedStamps, AfterTransitive
    <3>6. ~InSet(t, e)
      BY <1>1, <1>2, <3>1, <3>5, NewerAdd
    <3> QED
      BY <1>4, <2>2, <3>4, <3>5, <3>6
  <2> QED
    BY <2>1, <2>2
<1>6. CASE w.op \in {"add", "remove"} /\ ~IsStamped(w)
  <2>1. ~(o = n /\ e \in w.members)
    BY <1>2, <1>6, AppliedUnstamped, Excused, EventFields
  <2> QED
    BY <1>1, <1>4, <1>6, <2>1, AppliedUnstamped
<1>7. CASE w.op \in {"del", "store"}
  <2>1. CASE sets' = sets
    BY <1>4, <2>1
  <2>2. CASE sets' # sets
    <3>1. Excuse(n, Elements)
      BY <1>7, <2>2, ApplyCases
    <3>2. o # n
      BY <1>1, <1>2, <3>1, Excused
    <3>3. \A k \in Nodes \ {n} : sets'[k] = sets[k]
      BY <1>7, <2>2, ApplyCases, SetsTyped, NoSetFacts, DifferenceFacts
    <3> QED
      BY <1>1, <1>4, <3>2, <3>3
  <2> QED
    BY <2>1, <2>2
<1> QED
  BY <1>5, <1>6, <1>7, EventFields

\* An event applied leaves what a node knows of its adds.
LEMMA ApplyKeeps ==
    ASSUME TypeOK, Drawn, Traced, ByElements, NEW n \in Nodes, NEW w \in Events, Faithful(w),
           Apply(n, w), plain' = plain, issued' = issued,
           NEW a \in issued, NEW e \in a.members, AddKept(a, e)
    PROVE  AddKept(a, e)'
<1>. PICK o : o = a.stamp.o
  OBVIOUS
<1>1. o \in Nodes /\ e \in Elements
  BY IssuedStamps, EventFields DEF TypeOK
<1>2. SUFFICES ASSUME ~ \E r \in issued : r.op = "remove" /\ e \in r.members /\ After(r.stamp, a.stamp),
                      ~Called(o, "remove", e)
               PROVE  /\ sets'[o].crdt /\ ~After(a.stamp, sets'[o].adds[e])
                      /\ e \in sets'[o].members
  BY DEF AddKept, Called
<1>3. /\ sets[o].crdt /\ ~After(a.stamp, sets[o].adds[e])
      /\ e \in sets[o].members
  BY <1>2 DEF AddKept
<1>4. w.op \in {"add", "remove"}
  BY EventFields DEF Faithful, ByElements, DelIsIssued
<1>5. CASE IsStamped(w)
  <2>1. CASE o # n
    BY <1>1, <1>3, <1>4, <1>5, <2>1, AppliedTraced
  <2>2. CASE o = n
    <3>. PICK t : t = sets'[n]
      OBVIOUS
    <3>. PICK s : s = sets[n]
      OBVIOUS
    <3>1. /\ TracedSet(t) /\ WellFormed(t)
          /\ t \in {SAddLWW(s, w.members, w.stamp), SRemLWW(s, w.members, w.stamp)}
      BY <1>4, <1>5, AppliedTraced
    <3>2. WellFormed(s) /\ s.adds[e] \in Stamps
      BY <1>1, SetsWellFormed DEF SetStates
    <3>3. w.members \in SUBSET Elements /\ w.stamp \in Stamps
      BY EventFields
    <3>4. /\ t.crdt /\ t.adds[e] \in Stamps /\ (s.crdt => ~After(s.adds[e], t.adds[e]))
          /\ e \in w.members => (e \in t.members <=> InSet(t, e))
          /\ e \notin w.members => (e \in t.members <=> e \in s.members)
      <4>. PICK M \in SUBSET Elements : M = w.members
        BY <3>3
      <4>. PICK st \in Stamps : st = w.stamp
        BY <3>3
      <4>1. t = SAddLWW(s, M, st) \/ t = SRemLWW(s, M, st)
        BY <3>1
      <4>2. WellFormed(s) /\ e \in Elements
        BY <1>1, <3>2
      <4>3. StampsMove(s, M, st, t, e)
        BY <4>1, <4>2, StampedFacts
      <4> QED
        BY <4>3 DEF StampsMove
    <3>5. ~After(a.stamp, t.adds[e])
      BY <1>3, <2>2, <3>2, <3>4, IssuedStamps, AfterTransitive
    <3>6. InSet(t, e)
      BY <1>1, <1>2, <3>1, <3>5, NewerRemove
    <3> QED
      BY <1>3, <2>2, <3>4, <3>5, <3>6
  <2> QED
    BY <2>1, <2>2
<1>6. CASE ~IsStamped(w)
  BY <1>1, <1>3, <1>4, <1>6, AppliedUnstamped
<1> QED
  BY <1>5, <1>6

\* A removal that is applied now is known now.
LEMMA AppliedIsHeld ==
    ASSUME TypeOK, Drawn, Traced, NEW w \in issued, w.op = "remove", Apply(w.stamp.o, w),
           plain' = plain, issued' = issued, NEW e \in w.members
    PROVE  RemovalHeld(w, e)'
<1>. PICK o : o = w.stamp.o
  OBVIOUS
<1>1. /\ o \in Nodes /\ w \in Events /\ Faithful(w) /\ IsStamped(w)
      /\ w.members \in SUBSET Elements /\ w.stamp \in Stamps /\ e \in Elements
  BY IssuedStamps, IssuedIsFaithful, EventFields DEF Drawn
<1>. PICK t : t = sets'[o]
  OBVIOUS
<1>. PICK s : s = sets[o]
  OBVIOUS
<1>2. WellFormed(s)
  BY <1>1, SetsWellFormed
<1>3. TracedSet(t) /\ WellFormed(t) /\ t = SRemLWW(s, w.members, w.stamp)
  BY <1>1, AppliedTraced
<1>4. StampsMove(s, w.members, w.stamp, t, e)
  BY <1>1, <1>2, <1>3, StampedFacts
<1>5. t.crdt /\ ~After(w.stamp, t.removes[e]) /\ (e \in t.members <=> InSet(t, e))
  BY <1>3, <1>4 DEF StampsMove
<1>6. InSet(t, e) => \E x \in issued : x.op = "add" /\ e \in x.members /\ After(x.stamp, w.stamp)
  BY <1>1, <1>3, <1>5, NewerAdd
<1> QED
  BY <1>5, <1>6 DEF RemovalHeld

\* An add that is applied now is known now.
LEMMA AppliedIsKept ==
    ASSUME TypeOK, Drawn, Traced, NEW w \in issued, w.op = "add", Apply(w.stamp.o, w),
           plain' = plain, issued' = issued, NEW e \in w.members
    PROVE  AddKept(w, e)'
<1>. PICK o : o = w.stamp.o
  OBVIOUS
<1>1. /\ o \in Nodes /\ w \in Events /\ Faithful(w) /\ IsStamped(w)
      /\ w.members \in SUBSET Elements /\ w.stamp \in Stamps /\ e \in Elements
  BY IssuedStamps, IssuedIsFaithful, EventFields DEF Drawn
<1>. PICK t : t = sets'[o]
  OBVIOUS
<1>. PICK s : s = sets[o]
  OBVIOUS
<1>2. WellFormed(s)
  BY <1>1, SetsWellFormed
<1>3. TracedSet(t) /\ WellFormed(t) /\ t = SAddLWW(s, w.members, w.stamp)
  BY <1>1, AppliedTraced
<1>4. StampsMove(s, w.members, w.stamp, t, e)
  BY <1>1, <1>2, <1>3, StampedFacts
<1>5. t.crdt /\ ~After(w.stamp, t.adds[e]) /\ (e \in t.members <=> InSet(t, e))
  BY <1>3, <1>4 DEF StampsMove
<1>6. ~InSet(t, e) => \E r \in issued : r.op = "remove" /\ e \in r.members /\ After(r.stamp, w.stamp)
  BY <1>1, <1>3, <1>5, NewerRemove
<1> QED
  BY <1>5, <1>6 DEF AddKept

\* A callback that draws its stamp makes a command newer than its node's own.
LEMMA CalledIsNewer ==
    ASSUME TypeOK, Drawn, NEW c \in plain, NextStamp(c), NEW v \in issued,
           NEW op, NEW e, Called(v.stamp.o, op, e)
    PROVE  \/ Called(v.stamp.o, op, e)'
           \/ \E w \in issued' : w.op = op /\ e \in w.members /\ After(w.stamp, v.stamp)
<1>1. PICK ts \in Timestamps, w \in Events :
              /\ ts # ZeroTS /\ TSAfter(ts, hlc[c.node])
              /\ c.node \in Nodes /\ hlc' = [hlc EXCEPT ![c.node] = ts]
              /\ w.op = c.op /\ w.members = c.members
              /\ w.stamp \in DrawnStamps /\ w.stamp.o = c.node /\ TS(w.stamp) = ts
              /\ stamped' = stamped \cup {w} /\ issued' = issued \cup {w}
              /\ plain' = plain \ {c}
  BY NextStampFacts
<1>2. PICK d \in plain : d.node = v.stamp.o /\ d.op = op /\ e \in d.members
  BY DEF Called
<1>3. CASE d # c
  BY <1>1, <1>2, <1>3 DEF Called
<1>4. CASE d = c
  <2>1. TSAfter(ts, TS(v.stamp))
    BY <1>1, <1>2, <1>4, CoveredStays
  <2>2. After(w.stamp, v.stamp)
    BY <1>1, <2>1 DEF After
  <2> QED
    BY <1>1, <1>2, <1>4, <2>2
<1> QED
  BY <1>3, <1>4

\* Nothing has been applied at the start.
LEMMA InitHeld == Init => Held /\ Kept
BY DEF Init, Held, Kept

\* Every step leaves what nodes know of their removals.
LEMMA HeldInductive ==
    ASSUME TypeOK, Drawn, Carried, Traced, Held, [Next]_vars PROVE Held'
<1>. SUFFICES ASSUME NEW r \in issued' \ stamped', r.op = "remove", NEW e \in r.members
              PROVE  RemovalHeld(r, e)'
  BY DEF Held
<1>1. issued \subseteq issued' /\ excused \subseteq excused'
  BY HistoryGrows
<1>2. ASSUME r \in issued \ stamped
      PROVE  /\ RemovalHeld(r, e) /\ r.stamp \in Stamps /\ r.stamp.o \in Nodes
             /\ e \in Elements
  BY <1>2, IssuedStamps, EventFields DEF Held, TypeOK
<1>3. ASSUME r \in issued \ stamped,
             \/ r \in excused'
             \/ /\ sets'[r.stamp.o].crdt = sets[r.stamp.o].crdt
                /\ sets'[r.stamp.o].removes[e] = sets[r.stamp.o].removes[e]
                /\ \/ Called(r.stamp.o, "add", e)'
                   \/ /\ e \in sets'[r.stamp.o].members => e \in sets[r.stamp.o].members
                      /\ Called(r.stamp.o, "add", e) => Called(r.stamp.o, "add", e)'
      PROVE  RemovalHeld(r, e)'
  BY <1>1, <1>2, <1>3 DEF RemovalHeld, Called
<1>4. ASSUME plain \subseteq plain'
      PROVE  Called(r.stamp.o, "add", e) => Called(r.stamp.o, "add", e)'
  BY <1>4 DEF Called
<1>5. ASSUME NEW n \in Nodes, NEW M \in SUBSET Elements, SAdd(n, M) PROVE RemovalHeld(r, e)'
  <2>1. r \in issued \ stamped /\ plain \subseteq plain'
    BY <1>5 DEF SAdd, Calls
  <2>2. PICK t : t = PlainAdd(sets[n], M)
    OBVIOUS
  <2>3. /\ WellFormed(t) /\ t.crdt = sets[n].crdt /\ t.removes = sets[n].removes
        /\ t.members = sets[n].members \cup M
    BY <2>2, SetsWellFormed, PlainAddFacts
  <2>4. sets'[n] = t /\ \A j \in Nodes \ {n} : sets'[j] = sets[j]
    BY <1>5, <2>2, <2>3, SetsTyped DEF SAdd
  <2>5. r.stamp.o = n /\ e \in M => Called(r.stamp.o, "add", e)'
    <3>1. SUFFICES ASSUME r.stamp.o = n, e \in M PROVE Called(r.stamp.o, "add", e)'
      OBVIOUS
    <3>2. PICK c : c = [node |-> n, op |-> "add", members |-> M]
      OBVIOUS
    <3>3. c \in plain' /\ c.node = n /\ c.op = "add" /\ e \in c.members
      BY <1>5, <3>1, <3>2 DEF SAdd, Calls
    <3> QED
      BY <3>1, <3>3 DEF Called
  <2> QED
    BY <1>2, <1>3, <1>4, <2>1, <2>3, <2>4, <2>5
<1>6. ASSUME NEW n \in Nodes, NEW M \in SUBSET Elements, SRem(n, M) PROVE RemovalHeld(r, e)'
  <2>1. r \in issued \ stamped /\ plain \subseteq plain'
    BY <1>6 DEF SRem, Calls
  <2>2. PICK t : t = PlainRemove(sets[n], M)
    OBVIOUS
  <2>3. /\ WellFormed(t)
        /\ sets[n].members \subseteq M => t = NoSet
        /\ ~(sets[n].members \subseteq M) =>
              /\ t.crdt = sets[n].crdt /\ t.removes = sets[n].removes
              /\ t.members = sets[n].members \ M
    BY <1>6, <2>2, SetsWellFormed, PlainRemoveFacts DEF SRem
  <2>4. sets'[n] = t /\ \A j \in Nodes \ {n} : sets'[j] = sets[j]
    BY <1>6, <2>2, <2>3, SetsTyped DEF SRem
  <2>5. r.stamp.o = n /\ sets[n].members \subseteq M => r \in excused'
    BY <1>2, <1>6, <2>1, Excused DEF SRem
  <2> QED
    BY <1>2, <1>3, <1>4, <2>1, <2>3, <2>4, <2>5
<1>7. ASSUME NEW n \in Nodes, NEW M \in SUBSET Elements, SDiffStore(n, M) PROVE RemovalHeld(r, e)'
  <2>1. r \in issued \ stamped /\ plain' = plain
    BY <1>7 DEF SDiffStore
  <2>2. PICK t : t = [NoSet EXCEPT !.there = TRUE, !.members = M]
    OBVIOUS
  <2>3. WellFormed(t)
    BY <2>2, DifferenceFacts
  <2>4. \A j \in Nodes \ {n} : sets'[j] = sets[j]
    BY <1>7, <2>2, <2>3, SetsTyped DEF SDiffStore, Difference
  <2>5. r.stamp.o = n => r \in excused'
    BY <1>2, <1>7, <2>1, Excused DEF SDiffStore
  <2> QED
    BY <1>2, <1>3, <1>4, <2>1, <2>4, <2>5
<1>8. ASSUME NEW n \in Nodes, NEW M \in SUBSET Elements, Collect(n, M) PROVE RemovalHeld(r, e)'
  <2>1. r \in issued \ stamped /\ plain' = plain
    BY <1>8 DEF Collect
  <2>2. PICK p : p = Pruned(sets[n], M)
    OBVIOUS
  <2>3. PICK t : t = IF Empty(p) THEN NoSet ELSE p
    OBVIOUS
  <2>4. M \subseteq Dead(sets[n]) /\ Becomes(n, t)
    BY <1>8, <2>2, <2>3 DEF Collect
  <2>5. /\ WellFormed(t) /\ t.members = sets[n].members
        /\ \A x \in Elements \ M :
              /\ t.removes[x] = sets[n].removes[x]
              /\ sets[n].adds[x] # Never \/ sets[n].removes[x] # Never => t.crdt = sets[n].crdt
    BY <2>2, <2>3, <2>4, SetsWellFormed, CollectFacts
  <2>6. sets'[n] = t /\ \A j \in Nodes \ {n} : sets'[j] = sets[j]
    BY <2>4, <2>5, SetsTyped
  <2>7. r.stamp.o = n /\ e \in M => r \in excused'
    BY <1>8, <2>1, Excused DEF Collect
  <2>8. CASE r \in excused' \/ r.stamp.o # n
    BY <1>2, <1>3, <1>4, <2>1, <2>6, <2>8
  <2>9. CASE r \notin excused' /\ r.stamp.o = n
    <3>1. e \in Elements \ M
      BY <1>2, <2>1, <2>7, <2>9
    <3>2. CASE After(r.stamp, sets[n].removes[e])
      <4>1. \E w \in issued : w.op = "add" /\ e \in w.members /\ After(w.stamp, r.stamp)
        BY <1>1, <1>2, <2>1, <2>9, <3>2 DEF RemovalHeld
      <4> QED
        BY <1>1, <4>1 DEF RemovalHeld
    <3>3. CASE ~After(r.stamp, sets[n].removes[e])
      <4>1. sets[n].removes[e] # Never
        BY <2>1, <3>3, IssuedStamps
      <4> QED
        BY <1>2, <1>3, <1>4, <2>1, <2>5, <2>6, <2>9, <3>1, <4>1
    <3> QED
      BY <3>2, <3>3
  <2> QED
    BY <2>8, <2>9
<1>9. ASSUME NEW n \in Nodes, NEW w \in handling[n], Handle(n, w) PROVE RemovalHeld(r, e)'
  <2>1. w \in Events /\ Faithful(w) /\ r \in issued \ stamped /\ Apply(n, w)
        /\ plain' = plain /\ issued' = issued
    BY <1>9 DEF Handle, TypeOK, Carried
  <2> QED
    BY <1>2, <2>1, ApplyHolds
<1>10. ASSUME NEW w \in stamped, ApplyLocal(w) PROVE RemovalHeld(r, e)'
  <2>1. w \in issued /\ Apply(w.stamp.o, w) /\ plain' = plain /\ issued' = issued
    BY <1>10 DEF ApplyLocal, Drawn
  <2>2. w \in Events /\ Faithful(w) /\ w.stamp.o \in Nodes
    BY <2>1, IssuedIsFaithful, IssuedStamps
  <2>3. CASE r = w
    BY <2>1, <2>3, AppliedIsHeld
  <2>4. CASE r # w
    <3>1. r \in issued \ stamped
      BY <1>10, <2>4 DEF ApplyLocal
    <3> QED
      BY <1>2, <2>1, <2>2, <3>1, ApplyHolds
  <2> QED
    BY <2>3, <2>4
<1>11. ASSUME NEW c \in plain, NextStamp(c) PROVE RemovalHeld(r, e)'
  <2>1. r \in issued \ stamped
    BY <1>11, NextStampFacts
  <2>2. Called(r.stamp.o, "add", e) =>
           \/ Called(r.stamp.o, "add", e)'
           \/ \E w \in issued' : w.op = "add" /\ e \in w.members /\ After(w.stamp, r.stamp)
    BY <1>11, <2>1, CalledIsNewer
  <2>3. sets' = sets
    BY <1>11 DEF NextStamp
  <2>4. CASE \E w \in issued' : w.op = "add" /\ e \in w.members /\ After(w.stamp, r.stamp)
    BY <2>4 DEF RemovalHeld
  <2> QED
    BY <1>3, <2>1, <2>2, <2>3, <2>4
<1>12. CASE UNCHANGED <<sets, stamped, issued>> /\ plain \subseteq plain'
  BY <1>3, <1>4, <1>12
<1> QED
  BY <1>5, <1>6, <1>7, <1>8, <1>9, <1>10, <1>11, <1>12, NextCases
     DEF Del, Calls, ReceivePush, SyncReply, SyncResponse, vars

\* Every step leaves what nodes know of their adds.
LEMMA KeptInductive ==
    ASSUME TypeOK, Drawn, Carried, Traced, Kept, [Next]_vars PROVE Kept'
<1>1. issued \subseteq issued' /\ (replaced => replaced')
  BY HistoryGrows
<1>. SUFFICES ASSUME ByElements', NEW a \in issued' \ stamped', a.op = "add", NEW e \in a.members
              PROVE  AddKept(a, e)'
  BY DEF Kept
<1>2. ByElements
  BY <1>1 DEF ByElements
<1>3. ASSUME a \in issued \ stamped
      PROVE  /\ AddKept(a, e) /\ a.stamp \in Stamps /\ a.stamp.o \in Nodes
             /\ e \in Elements
  BY <1>2, <1>3, IssuedStamps, EventFields DEF Kept, TypeOK
<1>4. ASSUME a \in issued \ stamped,
             \/ Called(a.stamp.o, "remove", e)'
             \/ /\ sets'[a.stamp.o].crdt = sets[a.stamp.o].crdt
                /\ sets'[a.stamp.o].adds[e] = sets[a.stamp.o].adds[e]
                /\ e \in sets[a.stamp.o].members => e \in sets'[a.stamp.o].members
                /\ Called(a.stamp.o, "remove", e) => Called(a.stamp.o, "remove", e)'
      PROVE  AddKept(a, e)'
  BY <1>1, <1>3, <1>4 DEF AddKept, Called
<1>5. ASSUME plain \subseteq plain'
      PROVE  Called(a.stamp.o, "remove", e) => Called(a.stamp.o, "remove", e)'
  BY <1>5 DEF Called
<1>6. ASSUME NEW n \in Nodes, NEW M \in SUBSET Elements, SAdd(n, M) PROVE AddKept(a, e)'
  <2>1. a \in issued \ stamped /\ plain \subseteq plain'
    BY <1>6 DEF SAdd, Calls
  <2>2. PICK t : t = PlainAdd(sets[n], M)
    OBVIOUS
  <2>3. /\ WellFormed(t) /\ t.crdt = sets[n].crdt /\ t.adds = sets[n].adds
        /\ t.members = sets[n].members \cup M
    BY <2>2, SetsWellFormed, PlainAddFacts
  <2>4. sets'[n] = t /\ \A j \in Nodes \ {n} : sets'[j] = sets[j]
    BY <1>6, <2>2, <2>3, SetsTyped DEF SAdd
  <2> QED
    BY <1>3, <1>4, <1>5, <2>1, <2>3, <2>4
<1>7. ASSUME NEW n \in Nodes, NEW M \in SUBSET Elements, SRem(n, M) PROVE AddKept(a, e)'
  <2>1. a \in issued \ stamped /\ plain \subseteq plain'
    BY <1>7 DEF SRem, Calls
  <2>2. PICK t : t = PlainRemove(sets[n], M)
    OBVIOUS
  <2>3. /\ WellFormed(t)
        /\ ~(sets[n].members \subseteq M) =>
              /\ t.crdt = sets[n].crdt /\ t.adds = sets[n].adds
              /\ t.members = sets[n].members \ M
    BY <1>7, <2>2, SetsWellFormed, PlainRemoveFacts DEF SRem
  <2>4. sets'[n] = t /\ \A j \in Nodes \ {n} : sets'[j] = sets[j]
    BY <1>7, <2>2, <2>3, SetsTyped DEF SRem
  <2>5. a.stamp.o = n /\ e \in M /\ e \in sets[n].members => Called(a.stamp.o, "remove", e)'
    <3>1. SUFFICES ASSUME a.stamp.o = n, e \in M, e \in sets[n].members
                   PROVE  Called(a.stamp.o, "remove", e)'
      OBVIOUS
    <3>2. PICK c : c = [node |-> n, op |-> "remove", members |-> M]
      OBVIOUS
    <3>3. c \in plain' /\ c.node = n /\ c.op = "remove" /\ e \in c.members
      BY <1>7, <3>1, <3>2 DEF SRem, Calls
    <3> QED
      BY <3>1, <3>3 DEF Called
  <2>6. CASE a.stamp.o = n /\ ~(e \in M /\ e \in sets[n].members)
    <3>1. CASE e \in sets[n].members
      BY <1>4, <1>5, <2>1, <2>3, <2>4, <2>6, <3>1
    <3>2. CASE e \notin sets[n].members
      <4>1. \/ \E x \in issued : x.op = "remove" /\ e \in x.members /\ After(x.stamp, a.stamp)
            \/ Called(a.stamp.o, "remove", e)
        BY <1>3, <2>1, <2>6, <3>2 DEF AddKept
      <4> QED
        BY <1>1, <1>5, <2>1, <4>1 DEF AddKept
    <3> QED
      BY <3>1, <3>2
  <2> QED
    BY <1>3, <1>4, <1>5, <2>1, <2>4, <2>5, <2>6
<1>8. ASSUME NEW n \in Nodes, NEW M \in SUBSET Elements, SDiffStore(n, M) PROVE AddKept(a, e)'
  BY <1>8 DEF SDiffStore, ByElements
<1>9. ASSUME NEW n \in Nodes, NEW M \in SUBSET Elements, Collect(n, M) PROVE AddKept(a, e)'
  <2>1. a \in issued \ stamped /\ plain' = plain
    BY <1>9 DEF Collect
  <2>2. PICK p : p = Pruned(sets[n], M)
    OBVIOUS
  <2>3. PICK t : t = IF Empty(p) THEN NoSet ELSE p
    OBVIOUS
  <2>4. M \subseteq Dead(sets[n]) /\ Becomes(n, t)
    BY <1>9, <2>2, <2>3 DEF Collect
  <2>5. /\ WellFormed(t) /\ t.members = sets[n].members
        /\ \A x \in Elements \ M :
              /\ t.adds[x] = sets[n].adds[x]
              /\ sets[n].adds[x] # Never \/ sets[n].removes[x] # Never => t.crdt = sets[n].crdt
    BY <2>2, <2>3, <2>4, SetsWellFormed, CollectFacts
  <2>6. sets'[n] = t /\ \A j \in Nodes \ {n} : sets'[j] = sets[j]
    BY <2>4, <2>5, SetsTyped
  <2>7. CASE a.stamp.o # n
    BY <1>3, <1>4, <1>5, <2>1, <2>6, <2>7
  <2>8. CASE a.stamp.o = n
    <3>1. SUFFICES ASSUME ~ \E x \in issued : x.op = "remove" /\ e \in x.members /\ After(x.stamp, a.stamp),
                          ~Called(a.stamp.o, "remove", e)
                   PROVE  AddKept(a, e)'
      BY <1>1, <1>5, <2>1 DEF AddKept
    <3>2. ~After(a.stamp, sets[n].adds[e])
      BY <1>3, <2>1, <2>8, <3>1 DEF AddKept
    <3>3. InSet(sets[n], e)
      BY <1>3, <2>1, <3>1, <3>2, NewerRemove, SetsWellFormed DEF Traced
    <3>4. e \in Elements \ M
      BY <1>3, <2>1, <2>4, <3>3 DEF Dead
    <3>5. sets[n].adds[e] # Never
      BY <3>3 DEF InSet
    <3> QED
      BY <1>4, <1>5, <2>1, <2>5, <2>6, <2>8, <3>4, <3>5
  <2> QED
    BY <2>7, <2>8
<1>10. ASSUME NEW n \in Nodes, NEW w \in handling[n], Handle(n, w) PROVE AddKept(a, e)'
  <2>1. w \in Events /\ Faithful(w) /\ a \in issued \ stamped /\ Apply(n, w)
        /\ plain' = plain /\ issued' = issued
    BY <1>10 DEF Handle, TypeOK, Carried
  <2> QED
    BY <1>2, <1>3, <2>1, ApplyKeeps
<1>11. ASSUME NEW w \in stamped, ApplyLocal(w) PROVE AddKept(a, e)'
  <2>1. w \in issued /\ Apply(w.stamp.o, w) /\ plain' = plain /\ issued' = issued
    BY <1>11 DEF ApplyLocal, Drawn
  <2>2. w \in Events /\ Faithful(w) /\ w.stamp.o \in Nodes
    BY <2>1, IssuedIsFaithful, IssuedStamps
  <2>3. CASE a = w
    BY <2>1, <2>3, AppliedIsKept
  <2>4. CASE a # w
    <3>1. a \in issued \ stamped
      BY <1>11, <2>4 DEF ApplyLocal
    <3> QED
      BY <1>2, <1>3, <2>1, <2>2, <3>1, ApplyKeeps
  <2> QED
    BY <2>3, <2>4
<1>12. ASSUME NEW c \in plain, NextStamp(c) PROVE AddKept(a, e)'
  <2>1. a \in issued \ stamped
    BY <1>12, NextStampFacts
  <2>2. Called(a.stamp.o, "remove", e) =>
           \/ Called(a.stamp.o, "remove", e)'
           \/ \E w \in issued' : w.op = "remove" /\ e \in w.members /\ After(w.stamp, a.stamp)
    BY <1>12, <2>1, CalledIsNewer
  <2>3. sets' = sets
    BY <1>12 DEF NextStamp
  <2>4. CASE \E w \in issued' : w.op = "remove" /\ e \in w.members /\ After(w.stamp, a.stamp)
    BY <2>4 DEF AddKept
  <2> QED
    BY <1>4, <2>1, <2>2, <2>3, <2>4
<1>13. CASE UNCHANGED <<sets, stamped, issued>> /\ plain \subseteq plain'
  BY <1>4, <1>5, <1>13
<1> QED
  BY <1>6, <1>7, <1>8, <1>9, <1>10, <1>11, <1>12, <1>13, NextCases
     DEF Del, Calls, ReceivePush, SyncReply, SyncResponse, vars

-----------------------------------------------------------------------------
(***************************************************************************)
(* The inductive invariant holds of every behaviour.                       *)
(***************************************************************************)
THEOREM Invariance == Spec => []IInv
<1>1. Init => IInv
  BY InitTypes, InitDrawn, InitCarried, InitTraced, InitWinners, InitHeld DEF IInv
<1>2. IInv /\ [Next]_vars => IInv'
  <2>1. SUFFICES ASSUME TypeOK, Drawn, Carried, Traced, WinnersAreMembers, Held, Kept,
                        [Next]_vars
                 PROVE  IInv'
    BY DEF IInv
  <2>2. TypeOK' /\ Drawn' /\ Carried' /\ Traced'
    BY <2>1, TypesInductive, DrawnInductive, CarriedInductive, TracedInductive
  <2>3. WinnersAreMembers' /\ Held' /\ Kept'
    BY <2>1, WinnersInductive, HeldInductive, KeptInductive
  <2> QED
    BY <2>2, <2>3 DEF IInv
<1> QED
  BY <1>1, <1>2, PTL DEF Spec

(***************************************************************************)
(* Sets, stamps, callbacks, events and digests keep their form, for any    *)
(* nodes and elements (crdt_set.go, set_operations.go).                    *)
(***************************************************************************)
THEOREM TypeCorrect == Spec => []TypeOK
<1>1. IInv => TypeOK
  BY DEF IInv
<1> QED
  BY <1>1, Invariance, PTL

(***************************************************************************)
(* The members are the view of the stamps: an element whose newest stamp   *)
(* is that of an add is a member, unless a removal that took it has not    *)
(* yet been stamped or applied (crdt_set.go, syncMember).                  *)
(***************************************************************************)
THEOREM MembersFollowStamps == Spec => []WinnersAreMembers
<1>1. IInv => WinnersAreMembers
  BY DEF IInv
<1> QED
  BY <1>1, Invariance, PTL

(***************************************************************************)
(* A removal its node knows of is not undone there by an older add         *)
(* (lwwSet.add, contains): RemovalsHold.                                   *)
(***************************************************************************)
LEMMA HeldIsEnough == TypeOK /\ Drawn /\ Held => RemovalsHold
<1>1. SUFFICES ASSUME TypeOK, Drawn, Held, NEW r \in issued \ stamped, r.op = "remove",
                      NEW e \in r.members
               PROVE  \/ e \notin sets[r.stamp.o].members
                      \/ \E w \in issued : w.op = "add" /\ e \in w.members /\ After(w.stamp, r.stamp)
                      \/ Underway(r.stamp.o, "add", e)
                      \/ r \in excused
  BY DEF RemovalsHold
<1>2. RemovalHeld(r, e)
  BY <1>1 DEF Held
<1>3. Called(r.stamp.o, "add", e) => Underway(r.stamp.o, "add", e)
  BY DEF Called, Underway
<1> QED
  BY <1>2, <1>3 DEF RemovalHeld

\* No older add brings an element back where it was removed (RemovalsHold).
THEOREM RemovalsAreKept == Spec => []RemovalsHold
<1>1. IInv => RemovalsHold
  BY HeldIsEnough DEF IInv
<1> QED
  BY <1>1, Invariance, PTL

-----------------------------------------------------------------------------
(***************************************************************************)
(* Where anti-entropy ends.                                                *)
(***************************************************************************)
\* What a digest holds.
LEMMA InDigest ==
    ASSUME NEW s, WellFormed(s), NEW e \in Elements
    PROVE  /\ ~s.crdt /\ e \in s.members => Event("add", {e}, ZeroStamp) \in Digest(s)
           /\ s.crdt /\ InSet(s, e) => Event("add", {e}, s.adds[e]) \in Digest(s)
           /\ s.crdt /\ ~InSet(s, e) /\ s.removes[e] # Never =>
                 Event("remove", {e}, s.removes[e]) \in Digest(s)
<1>1. CASE ~s.crdt
  BY <1>1 DEF Digest
<1>2. CASE s.crdt
  <2>1. InSet(s, e) => s.adds[e] # Never
    BY DEF InSet
  <2>2. Digest(s) = {IF InSet(s, x) THEN Event("add", {x}, s.adds[x])
                     ELSE Event("remove", {x}, s.removes[x]) :
                        x \in {x \in Elements : s.adds[x] # Never \/ s.removes[x] # Never}}
    BY <1>2 DEF Digest
  <2> QED
    BY <1>2, <2>1, <2>2
<1> QED
  BY <1>1, <1>2

\* What a set is like that an event with one element does not change.
LEMMA NothingNew ==
    ASSUME NEW s, WellFormed(s), NEW e \in Elements, NEW op \in {"add", "remove"},
           NEW st \in Stamps, Applied(s, Event(op, {e}, st)) = s
    PROVE  /\ op = "add" /\ TS(st) = ZeroTS => e \in s.members
           /\ op = "add" /\ TS(st) # ZeroTS => s.crdt /\ ~After(st, s.adds[e])
           /\ op = "remove" => s.crdt /\ ~After(st, s.removes[e])
           /\ op = "remove" \/ TS(st) # ZeroTS => (e \in s.members <=> InSet(s, e))
<1>. PICK w : w = Event(op, {e}, st)
  OBVIOUS
<1>. PICK M \in SUBSET Elements : M = {e}
  OBVIOUS
<1>1. w.op = op /\ w.members = M /\ w.stamp = st /\ (IsStamped(w) <=> TS(st) # ZeroTS)
  BY EventMade DEF IsStamped
<1>2. CASE op = "add" /\ TS(st) = ZeroTS
  <2>1. s = PlainAdd(s, M)
    BY <1>1, <1>2 DEF Applied
  <2>2. s.members = s.members \cup M
    BY <2>1, PlainAddFacts
  <2> QED
    BY <1>2, <2>2
<1>3. CASE op = "add" /\ TS(st) # ZeroTS
  <2>1. s = SAddLWW(s, M, st)
    BY <1>1, <1>3 DEF Applied
  <2>2. StampsMove(s, M, st, s, e)
    BY <2>1, StampedFacts
  <2> QED
    BY <1>3, <2>1, <2>2 DEF StampsMove
<1>4. CASE op = "remove"
  <2>1. s = SRemLWW(s, M, st)
    BY <1>1, <1>4 DEF Applied
  <2>2. StampsMove(s, M, st, s, e)
    BY <2>1, StampedFacts
  <2> QED
    BY <1>4, <2>1, <2>2 DEF StampsMove
<1> QED
  BY <1>2, <1>3, <1>4

\* In a settled state no digest of one node is news to another.
LEMMA SettledDigests ==
    ASSUME Settled, NEW m \in Nodes, NEW n \in Nodes, m # n, NEW e \in Elements,
           NEW op \in {"add", "remove"}, NEW st \in Stamps, Event(op, {e}, st) \in Digest(sets[m])
    PROVE  Applied(sets[n], Event(op, {e}, st)) = sets[n]
<1>1. Event(op, {e}, st) \in Facts(m)
  BY DEF Facts
<1>2. Redundant(n, Event(op, {e}, st))
  BY <1>1 DEF Settled
<1>3. Event(op, {e}, st).op # "del"
  BY EventMade
<1> QED
  BY <1>2, <1>3 DEF Redundant

\* A member somewhere is a member everywhere then, unless no digest names it.
LEMMA MembersSpread ==
    ASSUME TypeOK, Settled, NEW m \in Nodes, NEW n \in Nodes, NEW e \in Elements,
           e \in sets[m].members, ~Orphan(m, e)
    PROVE  e \in sets[n].members
<1>. PICK s : s = sets[m]
  OBVIOUS
<1>. PICK t : t = sets[n]
  OBVIOUS
<1>1. /\ WellFormed(s) /\ s.adds[e] \in Stamps /\ s.removes[e] \in Stamps /\ s \in SetStates
      /\ WellFormed(t) /\ t.adds[e] \in Stamps /\ t.removes[e] \in Stamps /\ t \in SetStates
  BY SetsWellFormed DEF SetStates
<1>2. SUFFICES ASSUME m # n, e \notin t.members PROVE FALSE
  OBVIOUS
<1>3. TS(ZeroStamp) = ZeroTS /\ ZeroStamp \in Stamps
  BY SpecialStamps
<1>4. ASSUME NEW op \in {"add", "remove"}, NEW st \in Stamps, Event(op, {e}, st) \in Digest(s)
      PROVE  Applied(t, Event(op, {e}, st)) = t
  BY <1>2, <1>4, SettledDigests
<1>5. ASSUME NEW op \in {"add", "remove"}, NEW st \in Stamps, Event(op, {e}, st) \in Digest(t)
      PROVE  Applied(s, Event(op, {e}, st)) = s
  BY <1>2, <1>5, SettledDigests
<1>6. CASE ~s.crdt
  <2>1. Event("add", {e}, ZeroStamp) \in Digest(s)
    BY <1>1, <1>6, InDigest
  <2>2. Applied(t, Event("add", {e}, ZeroStamp)) = t
    BY <1>3, <1>4, <2>1
  <2> QED
    BY <1>1, <1>2, <1>3, <2>2, NothingNew
<1>7. CASE s.crdt /\ InSet(s, e)
  <2>1. Event("add", {e}, s.adds[e]) \in Digest(s)
    BY <1>1, <1>7, InDigest
  <2>2. Applied(t, Event("add", {e}, s.adds[e])) = t
    BY <1>1, <1>4, <2>1
  <2>3. t.crdt /\ ~After(s.adds[e], t.adds[e]) /\ ~InSet(t, e)
    BY <1>1, <1>2, <2>2, NothingNew
  <2>4. s.adds[e] # Never
    BY <1>7 DEF InSet
  <2>5. t.adds[e] # Never
    BY <1>1, <2>3, <2>4, AfterNever
  <2>6. After(t.removes[e], t.adds[e]) /\ t.removes[e] # Never
    BY <1>1, <2>3, <2>5, OutOfSet
  <2>7. Event("remove", {e}, t.removes[e]) \in Digest(t)
    BY <1>1, <2>3, <2>6, InDigest
  <2>8. Applied(s, Event("remove", {e}, t.removes[e])) = s
    BY <1>1, <1>5, <2>7
  <2>9. ~After(t.removes[e], s.removes[e])
    BY <1>1, <2>8, NothingNew
  <2>10. After(s.removes[e], t.adds[e])
    BY <1>1, <2>6, <2>9, AfterTransitive
  <2>11. After(s.removes[e], s.adds[e])
    BY <1>1, <2>3, <2>10, AfterTransitive
  <2> QED
    BY <1>7, <2>11 DEF InSet
<1>8. CASE s.crdt /\ ~InSet(s, e)
  <2>1. s.removes[e] # Never
    BY <1>1, <1>8, OutOfSet DEF Orphan
  <2>2. Event("remove", {e}, s.removes[e]) \in Digest(s)
    BY <1>1, <1>8, <2>1, InDigest
  <2>3. Applied(t, Event("remove", {e}, s.removes[e])) = t
    BY <1>1, <1>4, <2>2
  <2>4. t.crdt /\ ~After(s.removes[e], t.removes[e]) /\ ~InSet(t, e)
    BY <1>1, <1>2, <2>3, NothingNew
  <2>5. t.removes[e] # Never
    BY <1>1, <2>1, <2>4, AfterNever
  <2>6. Event("remove", {e}, t.removes[e]) \in Digest(t)
    BY <1>1, <2>4, <2>5, InDigest
  <2>7. Applied(s, Event("remove", {e}, t.removes[e])) = s
    BY <1>1, <1>5, <2>6
  <2>8. e \in s.members <=> InSet(s, e)
    BY <1>1, <2>7, NothingNew
  <2> QED
    BY <1>8, <2>8
<1> QED
  BY <1>6, <1>7, <1>8

(***************************************************************************)
(* Where anti-entropy has nothing left to do the nodes agree               *)
(* (crdt_set.go, appendLWWDigest and ApplyReplication): SettledAlike.      *)
(***************************************************************************)
THEOREM SettledNodesAgree == Spec => []SettledAlike
<1>1. TypeOK => SettledAlike
  BY MembersSpread DEF SettledAlike
<1>2. IInv => SettledAlike
  BY <1>1 DEF IInv
<1> QED
  BY <1>2, Invariance, PTL

\* A newest add that is not lost is a member everywhere in a settled state.
LEMMA NewestAddSpreads ==
    ASSUME TypeOK, Drawn, Traced, Kept, ByElements, Settled, NEW e \in Elements,
           NEW w \in Last(e), w.op = "add", NEW n \in Nodes
    PROVE  e \in sets[n].members
<1>. PICK o : o = w.stamp.o
  OBVIOUS
<1>. PICK s : s = sets[o]
  OBVIOUS
<1>. PICK t : t = sets[n]
  OBVIOUS
<1>1. /\ w \in issued \ stamped /\ e \in w.members
      /\ \A x \in issued : e \in x.members /\ x # w => After(w.stamp, x.stamp)
  BY DEF Last, Touching, Settled, ByElements
<1>2. o \in Nodes /\ w.stamp \in Stamps
  BY <1>1, IssuedStamps
<1>3. /\ WellFormed(s) /\ s.adds[e] \in Stamps /\ TracedSet(s)
      /\ WellFormed(t) /\ t.adds[e] \in Stamps /\ TracedSet(t)
  BY <1>2, SetsWellFormed DEF SetStates, Traced
<1>4. ~ \E r \in issued : r.op = "remove" /\ e \in r.members /\ After(r.stamp, w.stamp)
  <2>1. ASSUME NEW r \in issued, r.op = "remove", e \in r.members, After(r.stamp, w.stamp)
        PROVE  FALSE
    <3>1. After(w.stamp, r.stamp)
      BY <1>1, <2>1
    <3> QED
      BY <1>2, <2>1, <3>1, IssuedStamps, AfterAsymmetric
  <2> QED
    BY <2>1
<1>5. s.crdt /\ ~After(w.stamp, s.adds[e]) /\ e \in s.members
  <2>1. AddKept(w, e)
    BY <1>1 DEF Kept
  <2>2. ~Called(o, "remove", e)
    BY DEF Settled, Called
  <2> QED
    BY <1>4, <2>1, <2>2 DEF AddKept
<1>6. InSet(s, e)
  BY <1>1, <1>3, <1>4, <1>5, NewerRemove
<1>7. s.adds[e] = w.stamp
  <2>1. s.adds[e] \notin {Never, ZeroStamp}
    BY <1>1, <1>5, IssuedStamps
  <2>2. PICK x \in issued : x.op = "add" /\ e \in x.members /\ x.stamp = s.adds[e]
    BY <1>3, <2>1 DEF TracedSet, IsIssued
  <2>3. x = w
    BY <1>1, <1>5, <2>2
  <2> QED
    BY <2>2, <2>3
<1>8. CASE n = o
  BY <1>5, <1>8
<1>9. CASE n # o
  <2>1. Event("add", {e}, w.stamp) \in Digest(s)
    BY <1>3, <1>5, <1>6, <1>7, InDigest
  <2>2. Applied(t, Event("add", {e}, w.stamp)) = t
    BY <1>2, <1>9, <2>1, SettledDigests
  <2>3. TS(w.stamp) # ZeroTS
    BY <1>1 DEF Drawn, IsStamped
  <2>4. ~After(w.stamp, t.adds[e]) /\ (e \in t.members <=> InSet(t, e))
    BY <1>2, <1>3, <2>2, <2>3, NothingNew
  <2>5. InSet(t, e)
    BY <1>1, <1>3, <1>4, <2>4, NewerRemove
  <2> QED
    BY <2>4, <2>5
<1> QED
  BY <1>8, <1>9

(***************************************************************************)
(* An element whose last command is an add is not lost (crdt_set.go,       *)
(* SAddLWW, SRemLWW and gcElementTombstones): AddsPrevail.                 *)
(***************************************************************************)
THEOREM LastAddPrevails == Spec => []AddsPrevail
<1>1. IInv => AddsPrevail
  <2>1. SUFFICES ASSUME IInv, Settled, NEW e \in Elements, NEW w \in Last(e), w.op = "add",
                        ~replaced, \A x \in issued : x.op # "del", NEW n \in Nodes
                 PROVE  e \in sets[n].members
    BY DEF AddsPrevail
  <2> QED
    BY <2>1, NewestAddSpreads DEF IInv, ByElements
<1> QED
  BY <1>1, Invariance, PTL

=============================================================================
