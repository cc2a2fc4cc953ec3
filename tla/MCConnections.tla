---------------------------- MODULE MCConnections ----------------------------
(***************************************************************************)
(* Connections from two addresses, for TLC.                                *)
(***************************************************************************)
EXTENDS Connections

CONSTANTS c1, c2, c3, c4, here, there

Four == {c1, c2, c3, c4}
TwoAddresses == [x \in Four |-> IF x = c4 THEN there ELSE here]
=============================================================================
