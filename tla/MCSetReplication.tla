-------------------------- MODULE MCSetReplication --------------------------
(***************************************************************************)
(* Small clusters for TLC.  Origins are ordered, so nodes are numbers.     *)
(***************************************************************************)
EXTENDS SetReplication

TwoNodes == {1, 2}

\* Three commands on elements, or one of them and one on the whole set.
WholeSetCostsTwo == [add |-> 1, remove |-> 1, del |-> 2, store |-> 2]
=============================================================================
