-------------------------- MODULE MCMixedReplication --------------------------
(***************************************************************************)
(* Small clusters for TLC; the larger numbers are the later processes.     *)
(***************************************************************************)
EXTENDS MixedReplication

TwoNodes == {1, 2}
TwoAndSpare == {1, 2, 3}
Spare == {3}
=============================================================================
