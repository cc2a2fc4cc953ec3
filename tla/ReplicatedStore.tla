--------------------------- MODULE ReplicatedStore ---------------------------
(***************************************************************************)
(* What string replication promises, with no clock, queue or message: each *)
(* node holds, for each key, nothing or one of the writes issued to the    *)
(* key, and only ever moves to a newer one.                                *)
(***************************************************************************)
EXTENDS HLC

CONSTANTS Nodes, Keys, Values, NoVal

VARIABLES
    issued,    \* the writes clients have issued
    held       \* held[n][k]: the set with the write node n shows, or {}

avars == <<issued, held>>

NewerThan(w, W) == \A x \in W : After(w.stamp, x.stamp)

AInit == /\ issued = {}
         /\ held = [n \in Nodes |-> [k \in Keys |-> {}]]

Writes == [key : Keys, val : Values \cup {NoVal},
           stamp : [p : Nat, l : 0 .. LogicalMod - 1, o : Nodes]]

\* A client writes: no two writes share a stamp, so all nodes order any two
\* writes alike.
Issue == /\ \E w \in issued' \ issued :
              /\ w \in Writes
              /\ \A x \in issued : x.stamp # w.stamp
              /\ issued' = issued \cup {w}
         /\ UNCHANGED held

\* Node n learns of a write to key k and shows it.
Adopt == /\ \E n \in Nodes, k \in Keys :
              \E w \in issued : /\ w.key = k
                                /\ NewerThan(w, held[n][k])
                                /\ held' = [held EXCEPT ![n][k] = {w}]
         /\ UNCHANGED issued

ANext == Issue \/ Adopt

ASpec == AInit /\ [][ANext]_avars

=============================================================================
