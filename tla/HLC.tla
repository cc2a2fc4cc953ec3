-------------------------------- MODULE HLC --------------------------------
(***************************************************************************)
(* The hybrid logical clock of pkg/types/hlc.go and the last-write-wins    *)
(* order of internal/store/lww.go, as operators.                           *)
(*                                                                         *)
(* A timestamp is [p, l] (HLCTimestamp.Physical, .Logical); a stamp adds   *)
(* the origin node, [p, l, o] (hlcStamp).  Logical is a uint32 in the      *)
(* code: it wraps to 0 at LogicalMod.                                      *)
(***************************************************************************)
EXTENDS Integers

CONSTANT LogicalMod     \* 2^32 in the code

ASSUME LogicalModAssumption == LogicalMod \in Nat \ {0}

Timestamps == [p : Nat, l : 0 .. LogicalMod - 1]

\* HLCTimestamp{}: the value of a clock that has recorded nothing.
ZeroTS == [p |-> 0, l |-> 0]

\* HLCTimestamp.After, by Compare: Physical first, then Logical.
TSAfter(a, b) == \/ a.p > b.p
                 \/ a.p = b.p /\ a.l > b.l

TSMax(a, b) == IF TSAfter(a, b) THEN a ELSE b

\* Logical++ on a uint32.
Bump(l) == IF l + 1 = LogicalMod THEN 0 ELSE l + 1

\* Mistake: restarts the count when the wall clock has not moved.
NowRestarts(last, pt) == IF pt >= last.p
                         THEN [p |-> pt, l |-> 0]
                         ELSE [last EXCEPT !.l = Bump(@)]

\* HLC.Now: last is the clock's state, pt the wall clock it reads.
Now(last, pt) == IF pt > last.p
                 THEN [p |-> pt, l |-> 0]
                 ELSE [last EXCEPT !.l = Bump(@)]

\* Mistake: the clock is left where it was.
UpdateNothing(last, remote, pt) == last

\* HLC.Update: merge a remote timestamp.
Update(last, remote, pt) ==
    LET merged == TSMax(last, remote)
    IN  IF pt > merged.p
        THEN [p |-> pt, l |-> 0]
        ELSE [p |-> merged.p, l |-> Bump(merged.l)]

-----------------------------------------------------------------------------
(***************************************************************************)
(* Stamps.  ZeroStamp is the version of a value nobody stamped.            *)
(***************************************************************************)
Stamp(ts, origin) == [p |-> ts.p, l |-> ts.l, o |-> origin]

TS(s) == [p |-> s.p, l |-> s.l]

ZeroStamp == Stamp(ZeroTS, 0)

\* Mistake: no tie-break.
AfterByClock(a, b) == TSAfter(TS(a), TS(b))

\* hlcStamp.After: the timestamp, then the origin node's id.
After(a, b) == \/ TSAfter(TS(a), TS(b))
               \/ TS(a) = TS(b) /\ a.o > b.o

=============================================================================
