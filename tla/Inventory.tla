----------------------------- MODULE Inventory -----------------------------
(***************************************************************************)
(* Stock: the services of apps/inventory/services.py, which every change   *)
(* of stock goes through, and the products they open and close for sale.   *)
(*                                                                         *)
(* Each service is one transaction that reads the stock it changes inside  *)
(* it, so it is one action; a sale consumes the whole recipe in one        *)
(* transaction.  Counts and purchase receipts apply adjust_stock and       *)
(* receive_stock line by line, which are actions here.  Costs are left     *)
(* out.  A product has a recipe and may close itself                       *)
(* (auto_disable_on_stockout); other products are never touched.           *)
(***************************************************************************)
EXTENDS Integers, SequencesExt

CONSTANTS
    Ingredient, Warehouse, Product,
    Default,      \* the warehouse that sales consume from
    Recipe,       \* [Product -> the ingredients of its recipe, not optional]
    Fefo,         \* ingredients rotated by expiry date; the others are FIFO
    MaxQuantity,  \* bound: units in one cell, units of one movement
    MaxShort      \* bound: units consumed from one cell that were not there

ASSUME RecipeAssumption ==
    /\ Default \in Warehouse /\ IsFiniteSet(Warehouse)
    /\ Recipe \in [Product -> SUBSET Ingredient]
    /\ Fefo \subseteq Ingredient
    /\ MaxQuantity \in Nat /\ MaxShort \in Nat

Cell == Ingredient \X Warehouse

VARIABLES
    quantity,   \* [Cell -> StockItem.quantity]
    batches,    \* [Cell -> what remains of its nonempty batches, in the
                \*          order they are consumed]
    moved,      \* [Cell -> sum of its StockMovement.quantity]
    short,      \* [Cell -> sum of the shortfalls reported]
    sale        \* [Product -> Product.is_available]

stockVars == <<quantity, batches, moved, short>>
vars == <<stockVars, sale>>

Amount == 1 .. MaxQuantity

TypeOK ==
    /\ quantity \in [Cell -> Int]
    /\ batches \in [Cell -> Seq(Nat \ {0})]
    /\ moved \in [Cell -> Int]
    /\ short \in [Cell -> Nat]
    /\ sale \in [Product -> {"open", "closed"}]

Init ==
    /\ quantity = [c \in Cell |-> 0]
    /\ batches = [c \in Cell |-> <<>>]
    /\ moved = [c \in Cell |-> 0]
    /\ short = [c \in Cell |-> 0]
    /\ sale = [p \in Product |-> "open"]

-----------------------------------------------------------------------------
(* What the first n of the batches bs hold. *)
Sum(bs, n) == SumFunctionOnSet(bs, 1 .. n)

(* Mutant: what one batch gave is not taken off what the next has to give. *)
LeftOfEach(bs, n, j) == bs[j] - Min({bs[j], n})

(* What remains of the batch j of bs after n were taken, oldest first. *)
Left(bs, n, j) == bs[j] - Min({bs[j], Max({0, n - Sum(bs, j - 1)})})

(* How many batches, from the oldest on, n use up. *)
UsedUp(bs, n) == Cardinality({j \in DOMAIN bs : Sum(bs, j) <= n})

(* Mutants: the newest batch first; empty batches are taken from again. *)
TakeNewest(bs, n) == Reverse(SelectSeq(
    [j \in DOMAIN bs |-> Left(Reverse(bs), n, j)], LAMBDA b : b > 0))
TakeKeepingEmpty(bs, n) == [j \in DOMAIN bs |-> Left(bs, n, j)]

Take(bs, n) ==
    LET gone == UsedUp(bs, n)
    IN  [j \in 1 .. Len(bs) - gone |-> Left(bs, n, gone + j)]

(* The part of n that no batch has. *)
Shortfall(bs, n) == Max({0, n - Sum(bs, Len(bs))})

(* Where a new batch comes in the order of consumption: last in, or by its
   expiry date, which may put it anywhere. *)
Places(i, bs) == IF i \in Fefo THEN 1 .. Len(bs) + 1 ELSE {Len(bs) + 1}

Total(q, i) == SumFunctionOnSet([w \in Warehouse |-> q[<<i, w>>]], Warehouse)

OutOfStock(i) == Total(quantity', i) <= 0

-----------------------------------------------------------------------------
(* Steps of the services, on the cell c. *)

Consumed(C, n) ==
    /\ \A c \in C : short[c] + Shortfall(batches[c], n) <= MaxShort
    /\ quantity' = [c \in Cell |-> quantity[c] - IF c \in C THEN n ELSE 0]
    /\ moved' = [c \in Cell |-> moved[c] - IF c \in C THEN n ELSE 0]
    /\ batches' = [c \in Cell |-> IF c \in C THEN Take(batches[c], n)
                                  ELSE batches[c]]
    /\ short' = [c \in Cell |-> IF c \in C THEN short[c] + Shortfall(batches[c], n)
                                ELSE short[c]]

(* Each cell of C gets a batch of n. *)
Received(C, n) ==
    /\ \A c \in C : quantity[c] + n <= MaxQuantity
    /\ quantity' = [c \in Cell |-> quantity[c] + IF c \in C THEN n ELSE 0]
    /\ moved' = [c \in Cell |-> moved[c] + IF c \in C THEN n ELSE 0]
    /\ \E place \in [C -> 1 .. MaxQuantity + MaxShort + 1] :
        /\ \A c \in C : place[c] \in Places(c[1], batches[c])
        /\ batches' = [c \in Cell |-> IF c \in C THEN InsertAt(batches[c], place[c], n)
                                      ELSE batches[c]]
    /\ UNCHANGED short

(* Mutant: a product is closed when all of its ingredients are out. *)
ClosedWhenAllOut(I) ==
    {p \in Product : sale[p] = "open" /\ Recipe[p] # {}
                        /\ Recipe[p] \subseteq {i \in I : OutOfStock(i)}}

(* _check_critical_level and _disable_products_for of the ingredients I. *)
Closes(I) == {p \in Product : sale[p] = "open"
                                /\ \E i \in Recipe[p] \cap I : OutOfStock(i)}

(* Mutant: reopened when one ingredient is back. *)
ReopensOnAny(I) == {p \in Product : sale[p] # "open" /\ Recipe[p] \cap I # {}}

(* _reopen_products_for: closed products, whoever closed them. *)
Reopens(I) == {p \in Product : /\ sale[p] # "open"
                               /\ Recipe[p] \cap {i \in I : ~OutOfStock(i)} # {}
                               /\ \A i \in Recipe[p] : ~OutOfStock(i)}

SetSale(P, value) == sale' = [p \in Product |-> IF p \in P THEN value ELSE sale[p]]

-----------------------------------------------------------------------------
(* receive_stock. *)
ReceiveStock(i, w, n) ==
    /\ Received({<<i, w>>}, n)
    /\ SetSale(Reopens({i}), "open")

(* consume_stock and record_waste. *)
ConsumeStock(i, w, n) ==
    /\ Consumed({<<i, w>>}, n)
    /\ SetSale(Closes({i}), "closed")

AdjustStock(i, w, new) ==
    LET delta == new - quantity[<<i, w>>] IN
    \/ delta > 0 /\ ReceiveStock(i, w, delta)
    \/ delta < 0 /\ ConsumeStock(i, w, -delta)
    \/ delta = 0 /\ UNCHANGED vars

(* Mutant: as for a sale, stock may become negative. *)
CanTransferAny(i, source, n) ==
    short[<<i, source>>] + Shortfall(batches[<<i, source>>], n) <= MaxShort

(* allow_negative=False. *)
CanTransfer(i, source, n) == n <= quantity[<<i, source>>]

(* transfer_stock.  The source is consumed first, which may close products;
   the receipt then reopens what it can. *)
TransferStock(i, source, target, n) ==
    LET left == quantity[<<i, source>>] - n
        closed == {p \in Product : sale[p] = "open" /\ i \in Recipe[p]
                                     /\ Total(quantity, i) - n <= 0}
        open == {p \in Product : /\ sale[p] # "open" \/ p \in closed
                                 /\ i \in Recipe[p]
                                 /\ \A j \in Recipe[p] : ~OutOfStock(j)}
    IN
    /\ source # target
    /\ CanTransfer(i, source, n)
    /\ quantity[<<i, target>>] + n <= MaxQuantity
    /\ quantity' = [quantity EXCEPT ![<<i, source>>] = left, ![<<i, target>>] = @ + n]
    /\ moved' = [moved EXCEPT ![<<i, source>>] = @ - n, ![<<i, target>>] = @ + n]
    /\ \E place \in Places(i, batches[<<i, target>>]) :
        batches' = [batches EXCEPT ![<<i, source>>] = Take(@, n),
                                   ![<<i, target>>] = InsertAt(@, place, n)]
    /\ short' = [short EXCEPT ![<<i, source>>] = @ + Shortfall(batches[<<i, source>>], n)]
    /\ sale' = [p \in Product |-> IF p \in open THEN "open"
                                  ELSE IF p \in closed THEN "closed" ELSE sale[p]]

(* consume_for_order_item, for n portions: each ingredient in turn, each
   checked after its own consumption. *)
Sell(p, n) ==
    /\ Recipe[p] # {}
    /\ Consumed(Recipe[p] \X {Default}, n)
    /\ SetSale(Closes(Recipe[p]), "closed")

(* consume_for_order_item with reverse=True. *)
Restock(p, n) ==
    /\ Recipe[p] # {}
    /\ Received(Recipe[p] \X {Default}, n)
    /\ SetSale(Reopens(Recipe[p]), "open")

(* product_toggle_availability (apps/catalog/views.py). *)
ToggleAvailability(p) ==
    /\ sale' = [sale EXCEPT ![p] = IF @ = "open" THEN "closed" ELSE "open"]
    /\ UNCHANGED stockVars

-----------------------------------------------------------------------------
Next ==
    \/ \E i \in Ingredient, w \in Warehouse :
        \/ \E n \in Amount : ReceiveStock(i, w, n) \/ ConsumeStock(i, w, n)
        \/ \E new \in 0 .. MaxQuantity : AdjustStock(i, w, new)
        \/ \E target \in Warehouse, n \in Amount : TransferStock(i, w, target, n)
    \/ \E p \in Product :
        \/ \E n \in Amount : Sell(p, n) \/ Restock(p, n)
        \/ ToggleAvailability(p)

Spec == Init /\ [][Next]_vars

-----------------------------------------------------------------------------
(* What the stock services promise. *)

(* The books agree: a cell's quantity is what its movements sum up to, and
   its batches hold that much and, besides, exactly what was ever sold beyond
   the books (the shortfalls), which no later receipt or count takes off. *)
StockReconciles ==
    \A c \in Cell :
        /\ quantity[c] = moved[c]
        /\ Sum(batches[c], Len(batches[c])) = quantity[c] + short[c]

(* Batches are used up in their order: when a cell loses stock, only the first
   of the batches that remain has been taken from (FIFO and FEFO). *)
OldestFirst ==
    [][\A c \in Cell :
        quantity'[c] < quantity[c] /\ batches'[c] # <<>> =>
            LET gone == Len(batches[c]) - Len(batches'[c])
            IN  Tail(batches'[c]) = SubSeq(batches[c], gone + 2, Len(batches[c]))]_vars

(* A transfer carries only stock that is there in batches, so that it moves
   cost as well as quantity: it never adds to a shortfall (transfer_stock). *)
TransfersBacked ==
    [][\A i \in Ingredient, v, w \in Warehouse :
        quantity'[<<i, v>>] < quantity[<<i, v>>] /\ quantity'[<<i, w>>] > quantity[<<i, w>>]
            => short' = short]_vars

(* Using up the last of an ingredient, in all warehouses together, leaves no
   product that needs it open for sale (_check_critical_level). *)
StockoutCloses ==
    [][quantity' # quantity => \A i \in Ingredient :
        Total(quantity, i) > 0 /\ Total(quantity', i) <= 0 =>
            \A p \in Product : i \in Recipe[p] => sale'[p] # "open"]_vars

(* Stock coming in reopens a product only when nothing of its recipe is out
   (_reopen_products_for). *)
ReopenedWhenStocked ==
    [][quantity' # quantity =>
        \A p \in Product : sale[p] # "open" /\ sale'[p] = "open" =>
            \A i \in Recipe[p] : Total(quantity', i) > 0]_vars

=============================================================================
