------------------------------ MODULE MCProcess ------------------------------
(* Small instances of Process for TLC.                                     *)
EXTENDS Process, TLC

CONSTANTS p1, p2, p3, a1, a2, a3

(* Two replicas' builds, and one that renamed a step; pools with a task in  *)
(* common and one of its own, or only tasks of their own.                  *)
MCBuild == (p1 :> <<"a", "b">>) @@ (p2 :> <<"a", "b">>) @@ (p3 :> <<"a", "x">>)
MCTasks == (p1 :> {"t", "u"}) @@ (p2 :> {"t"}) @@ (p3 :> {"t"})
Apart == (p1 :> {"t", "u"}) @@ (p2 :> {"v"})
==============================================================================
