---------------------------- MODULE MCOrderRaces ----------------------------
(* Small instances of OrderRaces. *)
EXTENDS OrderRaces, TLC

CONSTANTS o1, o2, i1, i2, k1, k2, t1, t2

(* i2 has no station at all. *)
OneUnplaced == i1 :> "grill" @@ i2 :> "unplaced"

(* Bound: two orders as long as nothing is paid, or payments on the only one. *)
PaidAlone ==
    (\E o \in Order : paid[o] > 0) => \A o, other \in Order :
        Exists(o) /\ Exists(other) => o = other

Symmetry == Permutations({o1, o2}) \cup Permutations({k1, k2})
                \cup Permutations({t1, t2})
=============================================================================
