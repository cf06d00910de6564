----------------------------- MODULE MCDashboard -----------------------------
EXTENDS Dashboard, TLC

CONSTANTS q1, r1, r2, c1, h1, h2, e1, f1, b1

(* Two names of one queue.                                                 *)
TwoNames == {<<"q", "a">>, <<"q", "b">>}

Sym == Permutations(Readers) \cup Permutations(Checks)
=============================================================================
