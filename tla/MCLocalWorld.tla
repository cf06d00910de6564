----------------------------- MODULE MCLocalWorld -----------------------------
(* Small instances of LocalWorld for TLC.                                  *)
EXTENDS LocalWorld, TLC

CONSTANTS j0, j1, j2, q1, c1, c2, h1, h2

OneQueue == [j \in Jobs |-> q1]
AllServeOne == [c \in Consumers |-> q1]
AllKnown == [c \in Consumers |-> Jobs]
RootOnly == [c \in Consumers |-> IF c = c1 THEN Jobs ELSE {j0}]
EqualRank == [j \in Jobs |-> 0]

(* A parent of all the others.                                             *)
Pair == [j \in Jobs |-> IF j = j0 THEN SetToSeq(Jobs \ {j0}) ELSE <<>>]
Mixed == [j \in Jobs |-> IF j = j2 THEN "ignore" ELSE "fail"]
Blocks == [j \in Jobs |-> "block"]
==============================================================================
