----------------------------- MODULE MCSchedules -----------------------------
(* Small instances of Schedules for TLC.                                   *)
EXTENDS Schedules, TLC

CONSTANTS p1, p2

(* Every minute, and every other minute.                                   *)
MCTimes == [c \in Crons |-> IF c = "each" THEN 1 .. MaxTime + 1
                            ELSE {t \in 1 .. MaxTime + 2 : t % 2 = 0}]
==============================================================================
