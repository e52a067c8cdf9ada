--------------------------- MODULE OrderLifecycle ---------------------------
(***************************************************************************)
(* Orders (adisyon), their item rows, the kitchen tickets (KOT) the rows   *)
(* are sent on, and the stock movements the rows cause: the services of    *)
(* apps/orders/services.py and apps/kitchen/services.py.                   *)
(*                                                                         *)
(* Every service runs inside @transaction.atomic, and SQLite has a single  *)
(* writer, so a service call is one action.  The view, however, loads the  *)
(* order (or ticket) row before the transaction starts, and the service    *)
(* tests the status of that loaded copy.  Each action therefore takes the  *)
(* copy as a parameter (named seen...), apart from the rows the service    *)
(* reads again.  This module's Next loads and executes in one step, one    *)
(* request at a time; OrderRaces lets other requests come in between.      *)
(*                                                                         *)
(* Money is counted in units: an active item costs one, and a payment or   *)
(* refund is a number of units.                                            *)
(***************************************************************************)
EXTENDS Naturals, FiniteSets

CONSTANTS
    Order, Item, Ticket,     \* the rows that can be created
    NoOrder, NoTicket,       \* the null foreign keys
    Group,                   \* [Item -> its (station, course), or NoStation]
    NoStation,               \* neither the item nor its product nor the
                             \* default gives a station
    MaxPaid                  \* bound: units that may be paid on an order

ASSUME NullAssumption == NoOrder \notin Order /\ NoTicket \notin Ticket

ASSUME MaxPaidAssumption == MaxPaid \in Nat

VARIABLES
    status,      \* [Order -> Order.status, "none" before the row exists]
    paid,        \* [Order -> units of completed payments, tips aside]
    refunded,    \* [Order -> units refunded]
    item,        \* [Item -> OrderItem.status]
    owner,       \* [Item -> OrderItem.order]
    deducted,    \* [Item -> OrderItem.stock_deducted]
    ticketOf,    \* [Item -> the ticket its TicketLine belongs to]
    line,        \* [Item -> TicketLine.status]
    tstatus,     \* [Ticket -> KitchenTicket.status]
    torder,      \* [Ticket -> KitchenTicket.order]
    sales,       \* [Item -> number of times its recipe was consumed]
    restocks     \* [Item -> number of times its recipe was received back]

orderVars == <<status, paid, refunded>>
itemVars  == <<item, owner, deducted, line, ticketOf>>
ticketVars == <<tstatus, torder>>
stockVars == <<sales, restocks>>
vars == <<orderVars, itemVars, ticketVars, stockVars>>

Closed == {"PAID", "CANCELLED"}
OrderStatus == {"OPEN", "SENT", "PREPARING", "READY", "SERVED"} \cup Closed
ItemStatus == {"NEW", "SENT", "PREPARING", "READY", "SERVED", "CANCELLED"}
TicketStatus == {"QUEUED", "PREPARING", "READY", "COMPLETED", "CANCELLED"}
LineStatus == {"PENDING", "PREPARING", "READY", "CANCELLED"}

TypeOK ==
    /\ status \in [Order -> OrderStatus \cup {"none"}]
    /\ paid \in [Order -> Nat]
    /\ refunded \in [Order -> Nat]
    /\ item \in [Item -> ItemStatus \cup {"none"}]
    /\ owner \in [Item -> Order \cup {NoOrder}]
    /\ deducted \in [Item -> BOOLEAN]
    /\ ticketOf \in [Item -> Ticket \cup {NoTicket}]
    /\ line \in [Item -> LineStatus \cup {"none"}]
    /\ tstatus \in [Ticket -> TicketStatus \cup {"none"}]
    /\ torder \in [Ticket -> Order \cup {NoOrder}]
    /\ sales \in [Item -> Nat]
    /\ restocks \in [Item -> Nat]

Init ==
    /\ status = [o \in Order |-> "none"]
    /\ paid = [o \in Order |-> 0]
    /\ refunded = [o \in Order |-> 0]
    /\ item = [i \in Item |-> "none"]
    /\ owner = [i \in Item |-> NoOrder]
    /\ deducted = [i \in Item |-> FALSE]
    /\ ticketOf = [i \in Item |-> NoTicket]
    /\ line = [i \in Item |-> "none"]
    /\ tstatus = [k \in Ticket |-> "none"]
    /\ torder = [k \in Ticket |-> NoOrder]
    /\ sales = [i \in Item |-> 0]
    /\ restocks = [i \in Item |-> 0]

-----------------------------------------------------------------------------
Exists(o) == status[o] # "none"
Items(o) == {i \in Item : owner[i] = o}
ActiveItems(o) == {i \in Items(o) : item[i] # "CANCELLED"}
UnsentOrActive(o) == ActiveItems(o)   \* mutant: sends sent rows again
NewItems(o) == {i \in Items(o) : item[i] = "NEW"}
Tickets(o) == {k \in Ticket : torder[k] = o}
Lines(k) == {i \in Item : ticketOf[i] = k}

(* f with the value v on S. *)
Set(f, S, v) == [x \in DOMAIN f |-> IF x \in S THEN v ELSE f[x]]

(* f with one more on S. *)
Count(f, S) == [x \in DOMAIN f |-> IF x \in S THEN f[x] + 1 ELSE f[x]]

-----------------------------------------------------------------------------
(* Order services. *)

OpenOrder(o) ==
    /\ ~Exists(o)
    /\ status' = [status EXCEPT ![o] = "OPEN"]
    /\ UNCHANGED <<paid, refunded, itemVars, ticketVars, stockVars>>

AddItem(o, i, seen) ==
    /\ seen \notin Closed
    /\ item[i] = "none"
    /\ item' = [item EXCEPT ![i] = "NEW"]
    /\ owner' = [owner EXCEPT ![i] = o]
    /\ UNCHANGED <<orderVars, deducted, line, ticketOf, ticketVars, stockVars>>

(* Mutant: the flag is not reset. *)
CancelItemsFlagKept(S) ==
    /\ item' = Set(item, S, "CANCELLED")
    /\ line' = Set(line, {i \in S : ticketOf[i] # NoTicket}, "CANCELLED")
    /\ restocks' = Count(restocks, {i \in S : deducted[i]})
    /\ UNCHANGED <<owner, ticketOf, deducted, sales>>

(* The effect of cancel_item on the item rows in S: the lines are cancelled
   too, and what was deducted goes back to stock. *)
CancelItems(S) ==
    LET back == {i \in S : deducted[i]} IN
    /\ item' = Set(item, S, "CANCELLED")
    /\ line' = Set(line, {i \in S : ticketOf[i] # NoTicket}, "CANCELLED")
    /\ restocks' = Count(restocks, back)
    /\ deducted' = Set(deducted, back, FALSE)
    /\ UNCHANGED <<owner, ticketOf, sales>>

(* cancel_item reads the item, and with it the order, again. *)
CancelItem(i) ==
    /\ item[i] \notin {"none", "CANCELLED"}
    /\ status[owner[i]] # "PAID"
    /\ CancelItems({i})
    /\ UNCHANGED <<orderVars, ticketVars>>

SendToKitchen(o, seen) ==
    LET pending == NewItems(o)
        placed == {i \in pending : Group[i] # NoStation}
        unused == {k \in Ticket : tstatus[k] = "none"}
    IN
    /\ pending # {}
    /\ \E ticket \in [placed -> unused] :
        LET new == {ticket[i] : i \in placed} IN
        /\ \A i, j \in placed : ticket[i] = ticket[j] <=> Group[i] = Group[j]
        /\ ticketOf' = [i \in Item |->
                            IF i \in placed THEN ticket[i] ELSE ticketOf[i]]
        /\ line' = Set(line, placed, "PENDING")
        /\ tstatus' = Set(tstatus, new, "QUEUED")
        /\ torder' = Set(torder, new, o)
    /\ item' = Set(item, pending, "SENT")
    /\ sales' = Count(sales, {i \in pending : ~deducted[i]})
    /\ deducted' = Set(deducted, pending, TRUE)
    /\ status' = IF seen = "OPEN" THEN [status EXCEPT ![o] = "SENT"] ELSE status
    /\ UNCHANGED <<paid, refunded, owner, restocks>>

(* take_payment, with the close_order it calls once the balance is gone.
   A tip credits no units. *)
TakePayment(o, units, seen) ==
    LET covered == Cardinality(ActiveItems(o)) <= paid[o] + units IN
    /\ seen # "CANCELLED"
    /\ paid[o] + units <= MaxPaid
    /\ paid' = [paid EXCEPT ![o] = @ + units]
    /\ IF covered /\ seen # "PAID"
       THEN /\ status' = [status EXCEPT ![o] = "PAID"]
            /\ tstatus' = Set(tstatus,
                              {k \in Tickets(o) : tstatus[k] # "CANCELLED"},
                              "COMPLETED")
       ELSE UNCHANGED <<status, tstatus>>
    /\ UNCHANGED <<refunded, itemVars, torder, stockVars>>

(* cancel_order: cancel_item refuses, and rolls everything back, if there is
   an item to cancel and the order turns out to be paid. *)
CancelOrder(o, seen) ==
    /\ seen \notin Closed
    /\ ActiveItems(o) # {} => status[o] # "PAID"
    /\ CancelItems(ActiveItems(o))
    /\ status' = [status EXCEPT ![o] = "CANCELLED"]
    /\ tstatus' = Set(tstatus,
                      {k \in Tickets(o) : tstatus[k] # "COMPLETED"},
                      "CANCELLED")
    /\ UNCHANGED <<paid, refunded, torder>>

Refund(o, units) ==
    /\ units \in 1 .. (paid[o] - refunded[o])
    /\ refunded' = [refunded EXCEPT ![o] = @ + units]

(* refund_order without a restock. *)
RefundOrder(o, units) ==
    /\ Refund(o, units)
    /\ UNCHANGED <<status, paid, itemVars, ticketVars, stockVars>>

(* refund_order with restock=True: whether to receive the recipe back is
   decided on the item the view loaded. *)
RefundWithRestock(o, units, i, seenDeducted) ==
    /\ Refund(o, units)
    /\ seenDeducted
    /\ restocks' = Count(restocks, {i})
    /\ deducted' = [deducted EXCEPT ![i] = FALSE]
    /\ UNCHANGED <<status, paid, item, owner, line, ticketOf, ticketVars, sales>>

(* Mutant: the moved rows are taken off their tickets. *)
SplitOrderDetached(o, new, S, seen) ==
    /\ seen # "PAID" /\ ~Exists(new)
    /\ S \subseteq ActiveItems(o) /\ S # {} /\ S # ActiveItems(o)
    /\ status' = [status EXCEPT ![new] = seen]
    /\ owner' = Set(owner, S, new)
    /\ ticketOf' = Set(ticketOf, S, NoTicket)
    /\ UNCHANGED <<paid, refunded, item, deducted, line, ticketVars, stockVars>>

(* split_order_by_items: a ticket with any of the moved rows moves whole. *)
SplitOrder(o, new, S, seen) ==
    /\ seen # "PAID"
    /\ ~Exists(new)
    /\ S \subseteq ActiveItems(o)
    /\ S # {} /\ S # ActiveItems(o)
    /\ status' = [status EXCEPT ![new] = seen]
    /\ owner' = Set(owner, S, new)
    /\ torder' = Set(torder, {k \in Ticket : Lines(k) \cap S # {}}, new)
    /\ UNCHANGED <<paid, refunded, item, deducted, line, ticketOf, tstatus,
                   stockVars>>

(* Mutant: rows may be merged into a paid order. *)
CanMergeFrom(seenTarget, seenSource) == seenSource # "PAID"

CanMerge(seenTarget, seenSource) == seenTarget # "PAID" /\ seenSource # "PAID"

(* merge_orders: the source is left with its cancelled rows and payments. *)
MergeOrders(target, source, seenTarget, seenSource) ==
    /\ target # source
    /\ CanMerge(seenTarget, seenSource)
    /\ owner' = Set(owner, ActiveItems(source), target)
    /\ torder' = Set(torder, Tickets(source), target)
    /\ status' = [status EXCEPT ![source] = "CANCELLED"]
    /\ UNCHANGED <<paid, refunded, item, deducted, line, ticketOf, tstatus,
                   stockVars>>

(* Mutant: served whatever was loaded. *)
DeliveryServed(o, seen) ==
    /\ status' = [status EXCEPT ![o] = "SERVED"]
    /\ UNCHANGED <<paid, refunded, itemVars, ticketVars, stockVars>>

(* The courier's delivery_complete writes the status back in any case. *)
DeliveryComplete(o, seen) ==
    /\ status' = [status EXCEPT ![o] = IF seen \in Closed THEN seen
                                       ELSE "SERVED"]
    /\ UNCHANGED <<paid, refunded, itemVars, ticketVars, stockVars>>

-----------------------------------------------------------------------------
(* Kitchen services. *)

(* Mutant: a ticket's status for an order. *)
TicketStatusOf(T) == IF "PREPARING" \in T THEN "PREPARING" ELSE "QUEUED"

(* The order status that the set T of statuses of its tickets calls for. *)
StatusFromTickets(T) ==
    CASE T \subseteq {"COMPLETED"} -> "SERVED"
      [] T \subseteq {"READY", "COMPLETED"} /\ "READY" \in T -> "READY"
      [] "PREPARING" \in T -> "PREPARING"
      [] OTHER -> "SENT"

(* _sync_order_status on the loaded copy of the order; it runs after the
   ticket was saved, hence tstatus'. *)
SyncOrderStatus(o, seen) ==
    LET T == {tstatus'[k] : k \in Tickets(o)} \ {"CANCELLED"}
        new == StatusFromTickets(T)
    IN  status' = IF seen \in Closed \/ T = {} \/ seen = new THEN status
                  ELSE [status EXCEPT ![o] = new]

(* start_ticket sets every row of the ticket, the cancelled ones too. *)
StartTicket(k, seenTicket, o, seen) ==
    /\ seenTicket = "QUEUED"
    /\ tstatus' = [tstatus EXCEPT ![k] = "PREPARING"]
    /\ line' = Set(line, Lines(k), "PREPARING")
    /\ item' = Set(item, Lines(k), "PREPARING")
    /\ SyncOrderStatus(o, seen)
    /\ UNCHANGED <<paid, refunded, owner, deducted, ticketOf, torder, stockVars>>

(* Mutant: only the rows being prepared, though a waiting ticket can be made
   ready at once. *)
MarkPreparedReady(k, seenTicket, o, seen) ==
    /\ seenTicket \notin {"COMPLETED", "CANCELLED"}
    /\ tstatus' = [tstatus EXCEPT ![k] = "READY"]
    /\ line' = Set(line, Lines(k), "READY")
    /\ item' = Set(item, {i \in Lines(k) : item[i] = "PREPARING"}, "READY")
    /\ SyncOrderStatus(o, seen)
    /\ UNCHANGED <<paid, refunded, owner, deducted, ticketOf, torder, stockVars>>

MarkTicketReady(k, seenTicket, o, seen) ==
    /\ seenTicket \notin {"COMPLETED", "CANCELLED"}
    /\ tstatus' = [tstatus EXCEPT ![k] = "READY"]
    /\ line' = Set(line, Lines(k), "READY")
    /\ item' = Set(item, {i \in Lines(k) : item[i] # "CANCELLED"}, "READY")
    /\ SyncOrderStatus(o, seen)
    /\ UNCHANGED <<paid, refunded, owner, deducted, ticketOf, torder, stockVars>>

(* complete_ticket tests no status and leaves the lines alone. *)
CompleteTicket(k, o, seen) ==
    /\ tstatus' = [tstatus EXCEPT ![k] = "COMPLETED"]
    /\ item' = Set(item, {i \in Lines(k) : item[i] # "CANCELLED"}, "SERVED")
    /\ SyncOrderStatus(o, seen)
    /\ UNCHANGED <<paid, refunded, owner, deducted, line, ticketOf, torder,
                   stockVars>>

-----------------------------------------------------------------------------
(* One request at a time: what the view loaded is still so when the service
   runs. *)

OrderStep(o) ==
    \/ OpenOrder(o)
    \/ /\ Exists(o)
       /\ \/ \E i \in Item : AddItem(o, i, status[o])
          \/ SendToKitchen(o, status[o])
          \/ \E units \in 0 .. MaxPaid : TakePayment(o, units, status[o])
          \/ CancelOrder(o, status[o])
          \/ \E units \in 1 .. MaxPaid : RefundOrder(o, units)
          \/ \E units \in 1 .. MaxPaid, i \in Items(o) :
                RefundWithRestock(o, units, i, deducted[i])
          \/ \E new \in Order, S \in SUBSET Item : SplitOrder(o, new, S, status[o])
          \/ \E source \in Order :
                Exists(source) /\ MergeOrders(o, source, status[o], status[source])
          \/ DeliveryComplete(o, status[o])

KitchenStep(k) ==
    /\ tstatus[k] # "none"
    /\ LET o == torder[k] IN
        \/ StartTicket(k, tstatus[k], o, status[o])
        \/ MarkTicketReady(k, tstatus[k], o, status[o])
        \/ CompleteTicket(k, o, status[o])

Next ==
    \/ \E o \in Order : OrderStep(o)
    \/ \E i \in Item : CancelItem(i)
    \/ \E k \in Ticket : KitchenStep(k)

Spec == Init /\ [][Next]_vars

-----------------------------------------------------------------------------
(* What the services promise. *)

(* A ticket and the rows on it are at the same stage: nothing is being cooked
   that the ticket shows as waiting, and a ready ticket has no row that is
   not ready.  Rows may be cancelled at any stage.  Guards start_ticket,
   mark_ticket_ready, cancel_item and the moves of split and merge. *)
AtStage(row, ticket) ==
    /\ row \notin {"none", "NEW"}
    /\ ticket = "QUEUED" => row \in {"SENT", "CANCELLED"}
    /\ ticket = "PREPARING" => row \in {"PREPARING", "CANCELLED"}
    /\ ticket = "READY" => row \in {"READY", "CANCELLED"}

KitchenAgreement ==
    \A i \in Item : ticketOf[i] # NoTicket => AtStage(item[i], tstatus[ticketOf[i]])

(* The stock movements of an item agree with its row: its recipe is consumed
   when the item is sent, once, and received back at most once; stock_deducted
   says whether it is out; an unsent item holds no stock and a cancelled one
   has given it back.  This is about send_to_kitchen, cancel_item, cancel_order
   and refund_order, in whatever order they come. *)
StockExact ==
    \A i \in Item :
        /\ sales[i] \in {0, 1}
        /\ restocks[i] <= sales[i]
        /\ deducted[i] <=> sales[i] = 1 /\ restocks[i] = 0
        /\ item[i] \in {"none", "NEW"} => sales[i] = 0
        /\ item[i] = "CANCELLED" => ~deducted[i]

(* What was paid for stays as it was billed: no row joins a paid order and none
   leaves it (add_item, both sides of split and merge), for requests one at a
   time. *)
PaidRowsStay ==
    [][\A o \in Order : status[o] = "PAID" => Items(o)' = Items(o)]_vars

(* An abstract view: phases of orders and whether each recipe is in stock. *)
PhaseOf(st) == IF st \in Closed \cup {"none"} THEN st ELSE "OPEN"

Phase == [o \in Order |-> PhaseOf(status[o])]

Movements(sold, restocked) ==
    CASE sold = 0 /\ restocked = 0 -> "in"
      [] sold = 1 /\ restocked = 0 -> "out"
      [] sold = 1 /\ restocked = 1 -> "back"
      [] sold > 1 \/ restocked > sold -> "miscounted"

StockState == [i \in Item |-> Movements(sales[i], restocks[i])]

Contract == INSTANCE OrderContract WITH phase <- Phase, stock <- StockState

(* The services implement the contract: paid and cancelled are final and an
   item's recipe leaves stock once and comes back at most once. *)
ImplementsContract == Contract!Spec

-----------------------------------------------------------------------------
(* What the repository says and the services do not keep. *)

(* "A cancelled row cannot be changed" (update_item_quantity), and
   mark_ticket_ready and complete_ticket pass cancelled rows over; but
   start_ticket brings them back to the bill, without their stock. *)
CancelledRowsStayCancelled ==
    [][\A i \in Item : item[i] = "CANCELLED" => item'[i] = "CANCELLED"]_vars
=============================================================================
