--------------------------- MODULE MCLocalTransport --------------------------
(* Small instances of LocalTransport for TLC.                              *)
EXTENDS LocalTransport, TLC

CONSTANTS j0, j1, j2, q1, q2, c1, c2, c3

(* j2 goes to a queue of its own in the two-queue instances.               *)
OneQueue == [j \in Jobs |-> q1]
TwoQueues == [j \in Jobs |-> IF j = j2 THEN q2 ELSE q1]

AllServeOne == [c \in Consumers |-> q1]
LastServesTwo == [c \in Consumers |-> IF c = c2 THEN q2 ELSE q1]

EqualRank == [j \in Jobs |-> 0]

(* A parent of two.                                                        *)
Pair == [j \in Jobs |-> IF j = j0 THEN <<j1, j2>> ELSE <<>>]
(* A parent of one whose id a client may also enqueue on its own.          *)
Only == [j \in Jobs |-> IF j = j0 THEN <<j1>> ELSE <<>>]

Mixed == [j \in Jobs |-> IF j = j2 THEN "ignore" ELSE "fail"]
Goes == [j \in Jobs |-> IF j = j2 THEN "continue" ELSE "ignore"]
==============================================================================
