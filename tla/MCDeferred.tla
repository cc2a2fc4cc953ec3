----------------------------- MODULE MCDeferred -----------------------------
(***************************************************************************)
(* Two nodes for TLC, and keys with and without a colon.                   *)
(***************************************************************************)
EXTENDS Deferred

CONSTANTS home, peer

TwoNodes == {home, peer}
TwoKeys == {<<"job">>, <<"job", "7">>}
Value == <<"v">>
Scrap == {<<"x">>}
=============================================================================
