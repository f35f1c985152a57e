---------------------------- MODULE MCDistributed ----------------------------
(* Values of the constants of Distributed for TLC.                         *)
EXTENDS Distributed, TLC

CONSTANTS i1, i2, c1, c2, c3, a, b, x, y

Alike == Permutations({i1, i2}) \cup Permutations({c1, c2, c3}) \cup Permutations({x, y})
=============================================================================
