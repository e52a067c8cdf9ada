------------------------------ MODULE MCFloor ------------------------------
(* Small instances of Floor. *)
EXTENDS Floor, TLC

CONSTANTS o1, o2, o3, t1, t2

Symmetry == Permutations({o1, o2, o3}) \cup Permutations({t1, t2})

(* Bounds.  While a waiter is between load and service no tables are merged, which
   decides nothing about orders, and hosts only take tables out of use; with a third
   order they do so before or after, and the waiter holds one order. *)
Waiting == \E w \in Waiter : held[w] # Nothing
Crowded == \A o \in Order : Exists(o)

Small ==
    /\ Waiting \/ Crowded =>
        /\ \A t \in Table : mergedInto[t] = NoTable
        /\ \A h \in Host : job[h] # Idle => job[h] \in StatusJob /\ job[h].to = "DISABLED"
    /\ Waiting /\ Crowded =>
        /\ \A w \in Waiter : held[w] \in OrderCopy \cup {Nothing}
        /\ \A h \in Host : job[h] = Idle
=============================================================================
