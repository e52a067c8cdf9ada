------------------------------- MODULE MCTill -------------------------------
(* Small instances of Till. *)
EXTENDS Till, TLC

CONSTANTS o1, o2, s1, s2, c1

OnceEach == c1 :> 1

Symmetry == Permutations(Order) \cup Permutations(Session)
=============================================================================
