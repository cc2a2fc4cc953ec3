----------------------------- MODULE MCElection -----------------------------
(***************************************************************************)
(* A seed and one or two seats that join through it, with their restarts.  *)
(***************************************************************************)
EXTENDS Election, TLC

CONSTANTS seed, seat2, seat3

TwoSeats == {seed, seat2}

ThreeSeats == {seed, seat2, seat3}

\* Seats are only compared, and the seed alone is special.
JoinersAreAlike == Permutations({seat2, seat3})
=============================================================================
