---------------------------- MODULE MCRedisState ----------------------------
(* Small instances of RedisState for TLC.  Only one part moves, so that  *)
(* they share their model values: clients are writers and admins, ids are   *)
(* runs and rules, and keys are sweepers.                                  *)
EXTENDS RedisState, TLC

CONSTANTS c1, c2, i1, i2, k1, k2

Sym == Permutations(Clients) \cup Permutations(Ids) \cup Permutations(Keys)
=============================================================================
