---------------------------- MODULE MCCommitLog ----------------------------
(***************************************************************************)
(* Symmetry for TLC: connections, keys and values are only compared.       *)
(***************************************************************************)
EXTENDS CommitLog

Symmetry == Permutations(Clients) \cup Permutations(Keys) \cup Permutations(Values)
=============================================================================
