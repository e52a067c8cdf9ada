----------------------------- MODULE MCBackups -----------------------------
(* Small instances of Backups. *)
EXTENDS Backups, TLC

Workers == Permutations(Worker)

(* Bound: after a deletion by hand one backup or restore at a time, or two if
   one is about to replace the database, and no other writes; other writes only
   until hours pass. *)
Bounded ==
    /\ discarded # {} => /\ written = 0
                         /\ \/ Cardinality({w \in Worker : job[w] # Idle}) <= 1
                            \/ \E w \in Worker : \E pc \in {"replace", "media", "sync"} : At(w, pc)
    /\ written > 0 => recent = 1 .. started
=============================================================================
