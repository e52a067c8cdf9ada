-------------------------- MODULE MCOrderLifecycle --------------------------
(* Small instances of OrderLifecycle. *)
EXTENDS OrderLifecycle, TLC

CONSTANTS o1, o2, i1, i2, k1, k2

OneStation == i1 :> "grill" @@ i2 :> "grill"

Symmetry == Permutations({o1, o2}) \cup Permutations({k1, k2})
=============================================================================
