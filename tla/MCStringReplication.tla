------------------------- MODULE MCStringReplication -------------------------
(***************************************************************************)
(* Small clusters for TLC.  Origins are ordered, so nodes are numbers.     *)
(***************************************************************************)
EXTENDS StringReplication

TwoNodes == {1, 2}
=============================================================================
