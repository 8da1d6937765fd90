--------------------------- MODULE MCStargazer ---------------------------
(* Two devices, alice and bob; carol joins for liveness.                   *)
EXTENDS Stargazer, TLC

CONSTANTS alice, bob, carol

Pair == {alice, bob}
OnlyAlice == {alice}
Trio == {alice, bob, carol}
Swap == Permutations(Pair)
=============================================================================
