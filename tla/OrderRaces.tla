----------------------------- MODULE OrderRaces -----------------------------
(***************************************************************************)
(* The order and kitchen services when requests overlap.  A view loads the *)
(* rows it names with get_object_or_404, outside any transaction; only then *)
(* does the service's transaction begin.  A terminal of this module holds  *)
(* such loaded copies while any other request, of OrderLifecycle's Next,   *)
(* or of another terminal, runs from beginning to end.                     *)
(***************************************************************************)
EXTENDS OrderLifecycle

CONSTANTS Terminal,   \* requests that can be between load and service
          Nothing     \* what a terminal holds outside a request

VARIABLE held         \* [Terminal -> the loaded copy]

raceVars == <<vars, held>>

OrderCopy == [order : Order, status : OrderStatus]
ItemCopy == [order : Order, item : Item, deducted : BOOLEAN]
MergeCopy == [target : Order, source : Order, status : OrderStatus,
              sourceStatus : OrderStatus]
TicketCopy == [ticket : Ticket, tstatus : TicketStatus, order : Order,
               status : OrderStatus]

Copy == OrderCopy \cup ItemCopy \cup MergeCopy \cup TicketCopy

ASSUME NothingAssumption == Nothing \notin Copy

RaceTypeOK == TypeOK /\ held \in [Terminal -> Copy \cup {Nothing}]

RaceInit == Init /\ held = [t \in Terminal |-> Nothing]

Hold(t, copy) ==
    /\ held[t] = Nothing
    /\ held' = [held EXCEPT ![t] = copy]
    /\ UNCHANGED vars

LoadOrder(t, o) ==
    /\ Exists(o)
    /\ Hold(t, [order |-> o, status |-> status[o]])

LoadItem(t, i) ==
    /\ item[i] # "none"
    /\ Hold(t, [order |-> owner[i], item |-> i, deducted |-> deducted[i]])

LoadOrders(t, target, source) ==
    /\ Exists(target) /\ Exists(source)
    /\ Hold(t, [target |-> target, source |-> source,
                status |-> status[target], sourceStatus |-> status[source]])

(* ticket_transition loads the ticket's order along with it. *)
LoadTicket(t, k) ==
    /\ tstatus[k] # "none"
    /\ Hold(t, [ticket |-> k, tstatus |-> tstatus[k], order |-> torder[k],
                status |-> status[torder[k]]])

Release(t) == held' = [held EXCEPT ![t] = Nothing]

(* The service call of the request that holds an order. *)
RunOrderService(t) ==
    /\ held[t] \in OrderCopy
    /\ LET o == held[t].order
           seen == held[t].status
       IN  \/ \E i \in Item : AddItem(o, i, seen)
           \/ SendToKitchen(o, seen)
           \/ \E units \in 0 .. MaxPaid : TakePayment(o, units, seen)
           \/ CancelOrder(o, seen)
           \/ \E new \in Order, S \in SUBSET Item : SplitOrder(o, new, S, seen)
           \/ DeliveryComplete(o, seen)
    /\ Release(t)

RunRefund(t) ==
    /\ held[t] \in ItemCopy
    /\ \E units \in 1 .. MaxPaid :
          RefundWithRestock(held[t].order, units, held[t].item, held[t].deducted)
    /\ Release(t)

RunMerge(t) ==
    /\ held[t] \in MergeCopy
    /\ MergeOrders(held[t].target, held[t].source, held[t].status,
                   held[t].sourceStatus)
    /\ Release(t)

RunKitchenService(t) ==
    /\ held[t] \in TicketCopy
    /\ LET k == held[t].ticket
           o == held[t].order
       IN  \/ StartTicket(k, held[t].tstatus, o, held[t].status)
           \/ MarkTicketReady(k, held[t].tstatus, o, held[t].status)
           \/ CompleteTicket(k, o, held[t].status)
    /\ Release(t)

(* The service refuses the request and rolls back. *)
Refuse(t) ==
    /\ held[t] # Nothing
    /\ Release(t)
    /\ UNCHANGED vars

RaceNext ==
    \/ Next /\ UNCHANGED held
    \/ \E t \in Terminal :
        \/ \E o \in Order : LoadOrder(t, o)
        \/ \E i \in Item : LoadItem(t, i)
        \/ \E target, source \in Order : LoadOrders(t, target, source)
        \/ \E k \in Ticket : LoadTicket(t, k)
        \/ RunOrderService(t)
        \/ RunRefund(t)
        \/ RunMerge(t)
        \/ RunKitchenService(t)
        \/ Refuse(t)

RaceSpec == RaceInit /\ [][RaceNext]_raceVars

-----------------------------------------------------------------------------
(* Kept however requests overlap. *)

(* An item's recipe is consumed at most once and its row is put on a ticket
   at most once, even if two waiters send the same order: send_to_kitchen
   reads the new rows inside its transaction, not with the view's copy. *)
SentOnce ==
    /\ \A i \in Item :
        /\ sales[i] <= 1
        /\ item[i] = "NEW" => sales[i] = 0 /\ ticketOf[i] = NoTicket
        /\ deducted[i] => sales[i] = 1

(* A row that was sent keeps its ticket, whoever else works on the order. *)
TicketKept ==
    [][\A i \in Item : ticketOf[i] # NoTicket => ticketOf'[i] = ticketOf[i]]_raceVars

-----------------------------------------------------------------------------
(* What the repository says and overlapping requests break. *)

(* "A paid order cannot be cancelled; use a refund" (cancel_order). *)
PaidIsNotCancelled ==
    [][\A o \in Order : status[o] = "PAID" => status'[o] # "CANCELLED"]_raceVars
=============================================================================
