----------------------------- MODULE MCRunHistory -----------------------------
(* Small instances of RunHistory for TLC.                                  *)
EXTENDS RunHistory, TLC

CONSTANTS c1, c2, c3, w1, w2, w3

(* Slots are alike if they have a handler, or have none.                   *)
Sym == Permutations(Clients) \cup Permutations(Handlers) \cup Permutations(Slots \ Handlers)
==============================================================================
