---------------------------- MODULE OrderContract ----------------------------
(***************************************************************************)
(* What the order services promise to the till and to the stock room,      *)
(* whatever the kitchen does: an order goes from open to paid or to        *)
(* cancelled and stays there, and the recipe of an item leaves stock at    *)
(* most once and comes back at most once, after it left.                   *)
(***************************************************************************)
CONSTANTS Order, Item

VARIABLES phase,   \* [Order -> {"none", "OPEN", "PAID", "CANCELLED"}]
          stock    \* [Item -> {"in", "out", "back"}]

Init ==
    /\ phase = [o \in Order |-> "none"]
    /\ stock = [i \in Item |-> "in"]

Move(f, S, from, to) ==
    /\ \A x \in S : f[x] = from
    /\ f' = [x \in DOMAIN f |-> IF x \in S THEN to ELSE f[x]]

(* A bill is opened; one split off a cancelled bill is born cancelled. *)
Open(o) ==
    /\ \E p \in {"OPEN", "CANCELLED"} : Move(phase, {o}, "none", p)
    /\ UNCHANGED stock

Pay(o) ==
    /\ Move(phase, {o}, "OPEN", "PAID")
    /\ UNCHANGED stock

(* Cancelling a bill gives back the stock of some items. *)
Cancel(o, S) ==
    /\ Move(phase, {o}, "OPEN", "CANCELLED")
    /\ Move(stock, S, "out", "back")

(* Items sent together leave stock together. *)
Consume(S) ==
    /\ Move(stock, S, "in", "out")
    /\ UNCHANGED phase

(* A cancelled or refunded item comes back. *)
Return(i) ==
    /\ Move(stock, {i}, "out", "back")
    /\ UNCHANGED phase

Next ==
    \/ \E o \in Order : Open(o) \/ Pay(o) \/ \E S \in SUBSET Item : Cancel(o, S)
    \/ \E S \in SUBSET Item : Consume(S)
    \/ \E i \in Item : Return(i)

Spec == Init /\ [][Next]_<<phase, stock>>
=============================================================================
