---------------------------- MODULE MCPgTransport ----------------------------
(* Small instances of PgTransport for TLC.                                 *)
EXTENDS PgTransport, TLC

CONSTANTS j1, j2, c1, c2

EqualRank == [j \in Jobs |-> 0]

ConsumerSymmetry == Permutations(Consumers)
==============================================================================
