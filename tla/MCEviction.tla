----------------------------- MODULE MCEviction -----------------------------
(* Model checking of Eviction over bounded snapshots.                      *)
EXTENDS Eviction

CONSTANTS a1, a2, g1, g2

MCRowId == 1..3
MCRowId4 == 1..4
MCAddr == {a1, a2}
MCAgent == {g1, g2}
=============================================================================
