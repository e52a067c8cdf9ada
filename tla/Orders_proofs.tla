--------------------------- MODULE Orders_proofs ---------------------------
(***************************************************************************)
(* Theorems about OrderLifecycle and OrderRaces, for any sets of orders,   *)
(* items, tickets and terminals.  The lemmas about single actions hold for *)
(* any loaded copy (seen...) the action may be given, so they serve the    *)
(* overlapping requests of RaceSpec as well as Spec's serial ones.         *)
(***************************************************************************)
EXTENDS OrderRaces, TLAPS

(* No row is on a ticket that was not created yet. *)
TicketsUsed ==
    \A i \in Item : ticketOf[i] # NoTicket => tstatus[ticketOf[i]] # "none"

(* What the kitchen actions need of each other. *)
KitchenInv == TypeOK /\ KitchenAgreement /\ TicketsUsed

-----------------------------------------------------------------------------
(* The kitchen's order synchronisation only writes an open status. *)
LEMMA SyncType ==
    ASSUME TypeOK, NEW o, NEW seen, SyncOrderStatus(o, seen)
    PROVE  /\ status' \in [Order -> OrderStatus \cup {"none"}]
           /\ seen \in Closed => status' = status
           /\ \A p \in Order : status'[p] # status[p] =>
                 p = o /\ status'[p] \notin Closed \cup {"none"}
  <1> DEFINE T == {tstatus'[k] : k \in Tickets(o)} \ {"CANCELLED"}
             new == StatusFromTickets(T)
  <1>1. new \in {"SERVED", "READY", "PREPARING", "SENT"}
    BY DEF StatusFromTickets
  <1>2. \/ status' = status
        \/ seen \notin Closed /\ status' = [status EXCEPT ![o] = new]
    BY DEF SyncOrderStatus
  <1> QED
    BY <1>1, <1>2 DEF TypeOK, OrderStatus, Closed

-----------------------------------------------------------------------------
(* CancelItems as its callers use it. *)
LEMMA CancelItemsInv ==
    ASSUME TypeOK, NEW S \in SUBSET Item, CancelItems(S)
    PROVE  /\ item' \in [Item -> ItemStatus \cup {"none"}]
           /\ line' \in [Item -> LineStatus \cup {"none"}]
           /\ restocks' \in [Item -> Nat]
           /\ deducted' \in [Item -> BOOLEAN]
           /\ owner' = owner /\ ticketOf' = ticketOf /\ sales' = sales
           /\ \A i \in Item :
                /\ item'[i] = IF i \in S THEN "CANCELLED" ELSE item[i]
                /\ restocks'[i] = IF i \in S /\ deducted[i] THEN restocks[i] + 1
                                  ELSE restocks[i]
                /\ deducted'[i] = (deducted[i] /\ i \notin S)
  <1> DEFINE back == {i \in S : deducted[i]}
  <1>1. /\ item' = Set(item, S, "CANCELLED")
        /\ line' = Set(line, {i \in S : ticketOf[i] # NoTicket}, "CANCELLED")
        /\ restocks' = Count(restocks, back)
        /\ deducted' = Set(deducted, back, FALSE)
        /\ UNCHANGED <<owner, ticketOf, sales>>
    BY DEF CancelItems
  <1>2. /\ item' \in [Item -> ItemStatus \cup {"none"}]
        /\ \A i \in Item : item'[i] = IF i \in S THEN "CANCELLED" ELSE item[i]
    BY <1>1 DEF Set, TypeOK, ItemStatus
  <1>3. line' \in [Item -> LineStatus \cup {"none"}]
    BY <1>1 DEF Set, TypeOK, LineStatus
  <1>4. /\ restocks' \in [Item -> Nat]
        /\ \A i \in Item : restocks'[i] = IF i \in back THEN restocks[i] + 1
                                          ELSE restocks[i]
    BY <1>1 DEF Count, TypeOK
  <1>5. /\ deducted' \in [Item -> BOOLEAN]
        /\ \A i \in Item : deducted'[i] = IF i \in back THEN FALSE ELSE deducted[i]
    BY <1>1 DEF Set, TypeOK
  <1> QED
    BY <1>1, <1>2, <1>3, <1>4, <1>5 DEF TypeOK

-----------------------------------------------------------------------------
(* Every action keeps the kitchen invariant, for any loaded copy. *)

(* A step that leaves items and tickets alone keeps the stage of every row. *)
LEMMA KitchenFrame ==
    ASSUME KitchenInv, TypeOK', UNCHANGED <<item, ticketOf, tstatus>>
    PROVE  KitchenInv'
  BY DEF KitchenInv, KitchenAgreement, TicketsUsed, AtStage

(* Moving tickets to done keeps it too: a done ticket's rows may be anywhere
   past NEW. *)
LEMMA KitchenDone ==
    ASSUME KitchenInv, TypeOK',
           UNCHANGED ticketOf,
           \A i \in Item : item'[i] \in {item[i], "CANCELLED"},
           \A k \in Ticket : tstatus'[k] \in {tstatus[k], "COMPLETED", "CANCELLED"}
    PROVE  KitchenInv'
  <1> SUFFICES ASSUME NEW i \in Item, ticketOf'[i] # NoTicket
               PROVE  /\ AtStage(item'[i], tstatus'[ticketOf'[i]])
                      /\ tstatus'[ticketOf'[i]] # "none"
    BY DEF KitchenInv, KitchenAgreement, TicketsUsed, AtStage
  <1>1. ticketOf'[i] = ticketOf[i] /\ ticketOf[i] \in Ticket
    BY DEF KitchenInv, TypeOK
  <1>2. AtStage(item[i], tstatus[ticketOf[i]]) /\ tstatus[ticketOf[i]] # "none"
    BY <1>1 DEF KitchenInv, KitchenAgreement, TicketsUsed
  <1>3. tstatus'[ticketOf[i]] \in {tstatus[ticketOf[i]], "COMPLETED", "CANCELLED"}
    BY <1>1
  <1>4. item'[i] \in {item[i], "CANCELLED"}
    OBVIOUS
  <1> QED
    BY <1>1, <1>2, <1>3, <1>4 DEF AtStage

LEMMA OpenOrderKitchen ==
    ASSUME KitchenInv, NEW o \in Order, OpenOrder(o)
    PROVE  KitchenInv'
  <1>1. TypeOK'
    BY DEF KitchenInv, TypeOK, OpenOrder, OrderStatus, itemVars, ticketVars, stockVars
  <1> QED
    BY <1>1, KitchenFrame DEF OpenOrder, itemVars, ticketVars

LEMMA AddItemKitchen ==
    ASSUME KitchenInv, NEW o \in Order, NEW i \in Item, NEW seen, AddItem(o, i, seen)
    PROVE  KitchenInv'
  <1>1. TypeOK'
    BY DEF KitchenInv, TypeOK, AddItem, ItemStatus, orderVars, ticketVars, stockVars
  <1>2. ticketOf[i] = NoTicket
    BY DEF KitchenInv, TypeOK, KitchenAgreement, AddItem, AtStage
  <1> QED
    BY <1>1, <1>2 DEF KitchenInv, TypeOK, KitchenAgreement, TicketsUsed, AtStage,
                      AddItem, ticketVars

LEMMA CancelItemKitchen ==
    ASSUME KitchenInv, NEW i \in Item, CancelItem(i)
    PROVE  KitchenInv'
  <1>1. CancelItems({i}) /\ UNCHANGED <<orderVars, ticketVars>>
    BY DEF CancelItem
  <1>2. TypeOK'
    BY <1>1, CancelItemsInv DEF KitchenInv, TypeOK, orderVars, ticketVars
  <1> QED
    BY <1>1, <1>2, CancelItemsInv, KitchenDone DEF KitchenInv, ticketVars

LEMMA CancelOrderKitchen ==
    ASSUME KitchenInv, NEW o \in Order, NEW seen, CancelOrder(o, seen)
    PROVE  KitchenInv'
  <1> DEFINE S == ActiveItems(o)
  <1>1. S \subseteq Item /\ CancelItems(S)
    BY DEF CancelOrder, ActiveItems, Items
  <1>2. /\ status' \in [Order -> OrderStatus \cup {"none"}]
        /\ tstatus' \in [Ticket -> TicketStatus \cup {"none"}]
        /\ \A k \in Ticket : tstatus'[k] \in {tstatus[k], "CANCELLED"}
        /\ UNCHANGED <<paid, refunded, torder>>
    BY DEF KitchenInv, TypeOK, CancelOrder, Set, OrderStatus, Closed, TicketStatus
  <1>3. TypeOK'
    BY <1>1, <1>2, CancelItemsInv DEF KitchenInv, TypeOK
  <1> QED
    BY <1>1, <1>2, <1>3, CancelItemsInv, KitchenDone DEF KitchenInv

LEMMA SendToKitchenKitchen ==
    ASSUME KitchenInv, NEW o \in Order, NEW seen, SendToKitchen(o, seen)
    PROVE  KitchenInv'
  <1> DEFINE pending == NewItems(o)
             placed == {i \in pending : Group[i] # NoStation}
             unused == {k \in Ticket : tstatus[k] = "none"}
  <1> USE DEF KitchenInv, TypeOK
  <1>1. placed \subseteq Item /\ pending \subseteq Item /\ unused \subseteq Ticket
    BY DEF NewItems, Items
  <1>2. PICK ticket \in [placed -> unused] :
            /\ ticketOf' = [i \in Item |->
                               IF i \in placed THEN ticket[i] ELSE ticketOf[i]]
            /\ line' = Set(line, placed, "PENDING")
            /\ tstatus' = Set(tstatus, {ticket[i] : i \in placed}, "QUEUED")
            /\ torder' = Set(torder, {ticket[i] : i \in placed}, o)
    BY DEF SendToKitchen, NewItems
  <1> DEFINE new == {ticket[i] : i \in placed}
  <1>3. /\ item' = Set(item, pending, "SENT")
        /\ sales' = Count(sales, {i \in pending : ~deducted[i]})
        /\ deducted' = Set(deducted, pending, TRUE)
        /\ status' \in {status, [status EXCEPT ![o] = "SENT"]}
        /\ UNCHANGED <<paid, refunded, owner, restocks>>
    BY DEF SendToKitchen, NewItems
  <1>4. new \subseteq unused
    BY <1>2
  <1>5. TypeOK'
    <2>1. ticketOf' \in [Item -> Ticket \cup {NoTicket}]
      BY <1>1, <1>2
    <2>2. line' \in [Item -> LineStatus \cup {"none"}]
      BY <1>2 DEF Set, LineStatus
    <2>3. tstatus' \in [Ticket -> TicketStatus \cup {"none"}]
      BY <1>2 DEF Set, TicketStatus
    <2>4. torder' \in [Ticket -> Order \cup {NoOrder}]
      BY <1>2 DEF Set
    <2>5. item' \in [Item -> ItemStatus \cup {"none"}]
      BY <1>3 DEF Set, ItemStatus
    <2>6. deducted' \in [Item -> BOOLEAN]
      BY <1>3 DEF Set
    <2>7. sales' \in [Item -> Nat]
      <3> DEFINE unsold == {i \in pending : ~deducted[i]}
      <3>1. sales' = Count(sales, unsold)
        BY <1>3
      <3> HIDE DEF unsold
      <3> QED
        BY <3>1 DEF Count
    <2>8. status' \in [Order -> OrderStatus \cup {"none"}]
      BY <1>3 DEF OrderStatus
    <2> QED
      BY <1>3, <2>1, <2>2, <2>3, <2>4, <2>5, <2>6, <2>7, <2>8
  <1>6. ASSUME NEW i \in Item, ticketOf'[i] # NoTicket
        PROVE  /\ AtStage(item'[i], tstatus'[ticketOf'[i]])
               /\ tstatus'[ticketOf'[i]] # "none"
    <2>1. CASE i \in placed
      <3>1. ticketOf'[i] = ticket[i] /\ ticket[i] \in new /\ ticket[i] \in Ticket
        BY <1>1, <1>2, <2>1
      <3>2. tstatus'[ticketOf'[i]] = "QUEUED" /\ item'[i] = "SENT"
        BY <1>2, <1>3, <2>1, <3>1 DEF Set
      <3> QED
        BY <3>2 DEF AtStage
    <2>2. CASE i \notin placed
      <3>1. ticketOf'[i] = ticketOf[i] /\ ticketOf[i] \in Ticket
        BY <1>2, <1>6, <2>2
      <3>2. AtStage(item[i], tstatus[ticketOf[i]]) /\ tstatus[ticketOf[i]] # "none"
        BY <1>6, <3>1 DEF KitchenAgreement, TicketsUsed
      <3>3. ticketOf[i] \notin new /\ i \notin pending
        BY <1>4, <3>2 DEF AtStage, NewItems
      <3>4. tstatus'[ticketOf[i]] = tstatus[ticketOf[i]] /\ item'[i] = item[i]
        BY <1>2, <1>3, <3>1, <3>3 DEF Set
      <3> QED
        BY <3>1, <3>2, <3>4
    <2> QED
      BY <2>1, <2>2
  <1> QED
    BY <1>5, <1>6 DEF KitchenAgreement, TicketsUsed

LEMMA TakePaymentKitchen ==
    ASSUME KitchenInv, NEW o \in Order, NEW units \in Nat, NEW seen,
           TakePayment(o, units, seen)
    PROVE  KitchenInv'
  <1>1. /\ paid' = [paid EXCEPT ![o] = @ + units]
        /\ status' \in {status, [status EXCEPT ![o] = "PAID"]}
        /\ UNCHANGED <<refunded, itemVars, torder, stockVars>>
    BY DEF TakePayment
  <1>2. /\ tstatus' \in [Ticket -> TicketStatus \cup {"none"}]
        /\ \A k \in Ticket : tstatus'[k] \in {tstatus[k], "COMPLETED"}
    BY DEF KitchenInv, TypeOK, TakePayment, Set, TicketStatus
  <1>3. TypeOK'
    BY <1>1, <1>2 DEF KitchenInv, TypeOK, OrderStatus, Closed, itemVars, stockVars
  <1> QED
    BY <1>1, <1>2, <1>3, KitchenDone DEF itemVars

LEMMA RefundOrderKitchen ==
    ASSUME KitchenInv, NEW o \in Order, NEW units \in Nat, RefundOrder(o, units)
    PROVE  KitchenInv'
  <1>1. TypeOK'
    BY DEF KitchenInv, TypeOK, RefundOrder, Refund, itemVars, ticketVars, stockVars
  <1> QED
    BY <1>1, KitchenFrame DEF RefundOrder, itemVars, ticketVars

LEMMA RefundWithRestockKitchen ==
    ASSUME KitchenInv, NEW o \in Order, NEW units \in Nat, NEW i \in Item,
           NEW seenDeducted, RefundWithRestock(o, units, i, seenDeducted)
    PROVE  KitchenInv'
  <1>1. TypeOK'
    BY DEF KitchenInv, TypeOK, RefundWithRestock, Refund, Count, ticketVars
  <1> QED
    BY <1>1, KitchenFrame DEF RefundWithRestock, ticketVars

LEMMA SplitOrderKitchen ==
    ASSUME KitchenInv, NEW o \in Order, NEW new \in Order, NEW S \in SUBSET Item,
           NEW seen \in OrderStatus, SplitOrder(o, new, S, seen)
    PROVE  KitchenInv'
  <1>1. TypeOK'
    BY DEF KitchenInv, TypeOK, SplitOrder, Set, stockVars
  <1> QED
    BY <1>1, KitchenFrame DEF SplitOrder

LEMMA MergeOrdersKitchen ==
    ASSUME KitchenInv, NEW target \in Order, NEW source \in Order,
           NEW seenTarget, NEW seenSource,
           MergeOrders(target, source, seenTarget, seenSource)
    PROVE  KitchenInv'
  <1>1. TypeOK'
    BY DEF KitchenInv, TypeOK, MergeOrders, Set, OrderStatus, Closed, stockVars
  <1> QED
    BY <1>1, KitchenFrame DEF MergeOrders

LEMMA DeliveryCompleteKitchen ==
    ASSUME KitchenInv, NEW o \in Order, NEW seen, DeliveryComplete(o, seen)
    PROVE  KitchenInv'
  <1>1. TypeOK'
    BY DEF KitchenInv, TypeOK, DeliveryComplete, OrderStatus, Closed, itemVars,
           ticketVars, stockVars
  <1> QED
    BY <1>1, KitchenFrame DEF DeliveryComplete, itemVars, ticketVars

(* The kitchen's own actions: the rows of the ticket follow it. *)
LEMMA StartTicketKitchen ==
    ASSUME KitchenInv, NEW k \in Ticket, NEW seenTicket, NEW o, NEW seen,
           StartTicket(k, seenTicket, o, seen)
    PROVE  KitchenInv'
  <1> USE DEF KitchenInv
  <1>1. /\ tstatus' = [tstatus EXCEPT ![k] = "PREPARING"]
        /\ line' = Set(line, Lines(k), "PREPARING")
        /\ item' = Set(item, Lines(k), "PREPARING")
        /\ SyncOrderStatus(o, seen)
        /\ UNCHANGED <<paid, refunded, owner, deducted, ticketOf, torder, stockVars>>
    BY DEF StartTicket
  <1>2. TypeOK'
    BY <1>1, SyncType DEF TypeOK, Set, ItemStatus, LineStatus, TicketStatus, stockVars
  <1> QED
    BY <1>1, <1>2 DEF TypeOK, KitchenAgreement, TicketsUsed, AtStage, Set, Lines

LEMMA MarkTicketReadyKitchen ==
    ASSUME KitchenInv, NEW k \in Ticket, NEW seenTicket, NEW o, NEW seen,
           MarkTicketReady(k, seenTicket, o, seen)
    PROVE  KitchenInv'
  <1> USE DEF KitchenInv
  <1>1. /\ tstatus' = [tstatus EXCEPT ![k] = "READY"]
        /\ line' = Set(line, Lines(k), "READY")
        /\ item' = Set(item, {i \in Lines(k) : item[i] # "CANCELLED"}, "READY")
        /\ SyncOrderStatus(o, seen)
        /\ UNCHANGED <<paid, refunded, owner, deducted, ticketOf, torder, stockVars>>
    BY DEF MarkTicketReady
  <1>2. TypeOK'
    BY <1>1, SyncType DEF TypeOK, Set, ItemStatus, LineStatus, TicketStatus, stockVars
  <1> QED
    BY <1>1, <1>2 DEF TypeOK, KitchenAgreement, TicketsUsed, AtStage, Set, Lines

LEMMA CompleteTicketKitchen ==
    ASSUME KitchenInv, NEW k \in Ticket, NEW o, NEW seen, CompleteTicket(k, o, seen)
    PROVE  KitchenInv'
  <1> USE DEF KitchenInv
  <1>1. /\ tstatus' = [tstatus EXCEPT ![k] = "COMPLETED"]
        /\ item' = Set(item, {i \in Lines(k) : item[i] # "CANCELLED"}, "SERVED")
        /\ SyncOrderStatus(o, seen)
        /\ UNCHANGED <<paid, refunded, owner, deducted, line, ticketOf, torder,
                       stockVars>>
    BY DEF CompleteTicket
  <1>2. TypeOK'
    BY <1>1, SyncType DEF TypeOK, Set, ItemStatus, TicketStatus, stockVars
  <1> QED
    BY <1>1, <1>2 DEF TypeOK, KitchenAgreement, TicketsUsed, AtStage, Set, Lines

-----------------------------------------------------------------------------
LEMMA InitKitchen == Init => KitchenInv
  BY DEF Init, KitchenInv, TypeOK, KitchenAgreement, TicketsUsed

(* Every step of the services keeps the kitchen invariant. *)
LEMMA NextKitchen == KitchenInv /\ [Next]_vars => KitchenInv'
  <1> SUFFICES ASSUME KitchenInv, [Next]_vars
               PROVE  KitchenInv'
    OBVIOUS
  <1>1. ASSUME NEW o \in Order, OrderStep(o)
        PROVE  KitchenInv'
    <2>1. CASE OpenOrder(o)
      BY <2>1, OpenOrderKitchen
    <2>2. CASE Exists(o) /\ \E i \in Item : AddItem(o, i, status[o])
      BY <2>2, AddItemKitchen
    <2>3. CASE Exists(o) /\ SendToKitchen(o, status[o])
      BY <2>3, SendToKitchenKitchen
    <2>4. CASE Exists(o) /\ \E units \in 0 .. MaxPaid : TakePayment(o, units, status[o])
      BY <2>4, TakePaymentKitchen, MaxPaidAssumption
    <2>5. CASE Exists(o) /\ CancelOrder(o, status[o])
      BY <2>5, CancelOrderKitchen
    <2>6. CASE Exists(o) /\ \E units \in 1 .. MaxPaid : RefundOrder(o, units)
      BY <2>6, RefundOrderKitchen, MaxPaidAssumption
    <2>7. CASE Exists(o) /\ \E units \in 1 .. MaxPaid, i \in Items(o) :
                               RefundWithRestock(o, units, i, deducted[i])
      BY <2>7, RefundWithRestockKitchen, MaxPaidAssumption DEF Items
    <2>8. CASE Exists(o) /\ \E new \in Order, S \in SUBSET Item :
                               SplitOrder(o, new, S, status[o])
      <3>1. status[o] \in OrderStatus
        BY <2>8 DEF Exists, KitchenInv, TypeOK
      <3> QED
        BY <2>8, <3>1, SplitOrderKitchen
    <2>9. CASE Exists(o) /\ \E source \in Order :
                 Exists(source) /\ MergeOrders(o, source, status[o], status[source])
      BY <2>9, MergeOrdersKitchen
    <2>10. CASE Exists(o) /\ DeliveryComplete(o, status[o])
      BY <2>10, DeliveryCompleteKitchen
    <2> QED
      BY <1>1, <2>1, <2>2, <2>3, <2>4, <2>5, <2>6, <2>7, <2>8, <2>9, <2>10
      DEF OrderStep
  <1>2. ASSUME NEW i \in Item, CancelItem(i)
        PROVE  KitchenInv'
    BY <1>2, CancelItemKitchen
  <1>3. ASSUME NEW k \in Ticket, KitchenStep(k)
        PROVE  KitchenInv'
    BY <1>3, StartTicketKitchen, MarkTicketReadyKitchen, CompleteTicketKitchen
    DEF KitchenStep
  <1>4. CASE UNCHANGED vars
    BY <1>4 DEF vars, orderVars, itemVars, ticketVars, stockVars, KitchenInv,
                TypeOK, KitchenAgreement, TicketsUsed, AtStage
  <1> QED
    BY <1>1, <1>2, <1>3, <1>4 DEF Next

(* Type correctness of the order and kitchen services. *)
THEOREM TypeCorrect == Spec => []TypeOK
  <1>1. KitchenInv => TypeOK
    BY DEF KitchenInv
  <1> QED
    BY <1>1, InitKitchen, NextKitchen, PTL DEF Spec

(* A ticket and its rows are always at the same stage. *)
THEOREM KitchenAgrees == Spec => []KitchenAgreement
  <1>1. KitchenInv => KitchenAgreement
    BY DEF KitchenInv
  <1> QED
    BY <1>1, InitKitchen, NextKitchen, PTL DEF Spec

-----------------------------------------------------------------------------
(* Stock.  Only three kinds of step move it: sending, cancelling rows, and a
   refund with restock. *)
StockInv == KitchenInv /\ StockExact

(* A step that neither moves stock nor makes a row new or cancelled. *)
StockFrame ==
    /\ UNCHANGED <<sales, restocks, deducted>>
    /\ \A i \in Item :
        /\ item'[i] \in {"none", "NEW"} => item[i] \in {"none", "NEW"}
        /\ item'[i] = "CANCELLED" => item[i] = "CANCELLED"

LEMMA StockFrameKeeps ==
    ASSUME StockExact, StockFrame
    PROVE  StockExact' /\ UNCHANGED StockState
  <1>1. StockExact'
    BY DEF StockExact, StockFrame
  <1>2. UNCHANGED StockState
    BY DEF StockState, StockFrame
  <1> QED
    BY <1>1, <1>2

(* The abstract stock of a row in terms of its flag. *)
LEMMA StockStateIs ==
    ASSUME TypeOK, StockExact, NEW i \in Item
    PROVE  /\ StockState[i] = "out" <=> deducted[i]
           /\ StockState[i] = "in" <=> sales[i] = 0
           /\ StockState[i] = "back" <=> sales[i] = 1 /\ restocks[i] = 1
  <1>1. /\ sales[i] \in {0, 1} /\ restocks[i] \in Nat /\ restocks[i] <= sales[i]
        /\ deducted[i] <=> sales[i] = 1 /\ restocks[i] = 0
    BY DEF TypeOK, StockExact
  <1>2. \/ sales[i] = 0 /\ restocks[i] = 0
        \/ sales[i] = 1 /\ restocks[i] = 0
        \/ sales[i] = 1 /\ restocks[i] = 1
    BY <1>1
  <1>3. CASE sales[i] = 0 /\ restocks[i] = 0
    <2>1. StockState[i] = "in"
      BY <1>3 DEF StockState, Movements
    <2> QED
      BY <1>1, <1>3, <2>1
  <1>4. CASE sales[i] = 1 /\ restocks[i] = 0
    <2>1. StockState[i] = "out"
      BY <1>4 DEF StockState, Movements
    <2> QED
      BY <1>1, <1>4, <2>1
  <1>5. CASE sales[i] = 1 /\ restocks[i] = 1
    <2>1. StockState[i] = "back"
      BY <1>5 DEF StockState, Movements
    <2> QED
      BY <1>1, <1>5, <2>1
  <1> QED
    BY <1>2, <1>3, <1>4, <1>5

(* Cancelling rows gives back exactly the stock that is out. *)
LEMMA CancelItemsStock ==
    ASSUME TypeOK, TypeOK', StockExact, NEW S \in SUBSET Item, CancelItems(S)
    PROVE  /\ StockExact'
           /\ Contract!Move(StockState, {i \in S : deducted[i]}, "out", "back")
  <1> DEFINE back == {i \in S : deducted[i]}
  <1>1. StockExact'
    <2> SUFFICES ASSUME NEW i \in Item
                 PROVE  /\ sales'[i] \in {0, 1}
                        /\ restocks'[i] <= sales'[i]
                        /\ deducted'[i] <=> sales'[i] = 1 /\ restocks'[i] = 0
                        /\ item'[i] \in {"none", "NEW"} => sales'[i] = 0
                        /\ item'[i] = "CANCELLED" => ~deducted'[i]
      BY DEF StockExact
    <2>1. /\ sales[i] \in {0, 1} /\ restocks[i] \in Nat
          /\ restocks[i] <= sales[i]
          /\ deducted[i] <=> sales[i] = 1 /\ restocks[i] = 0
          /\ item[i] \in {"none", "NEW"} => sales[i] = 0
          /\ item[i] = "CANCELLED" => ~deducted[i]
      BY DEF StockExact, TypeOK
    <2>2. /\ sales'[i] = sales[i]
          /\ item'[i] = IF i \in S THEN "CANCELLED" ELSE item[i]
          /\ restocks'[i] = IF i \in S /\ deducted[i] THEN restocks[i] + 1
                            ELSE restocks[i]
          /\ deducted'[i] <=> (deducted[i] /\ i \notin S)
      BY CancelItemsInv
    <2> QED
      BY <2>1, <2>2
  <1>2. \A i \in back : StockState[i] = "out"
    BY StockStateIs
  <1>3. StockState' = [i \in DOMAIN StockState |->
                          IF i \in back THEN "back" ELSE StockState[i]]
    <2>1. \A i \in Item : StockState'[i] = IF i \in back THEN "back" ELSE StockState[i]
      <3> SUFFICES ASSUME NEW i \in Item
                   PROVE  StockState'[i] = IF i \in back THEN "back" ELSE StockState[i]
        OBVIOUS
      <3>1. /\ sales'[i] = sales[i]
            /\ restocks'[i] = IF i \in back THEN restocks[i] + 1 ELSE restocks[i]
        BY CancelItemsInv
      <3>2. CASE i \in back
        <4>1. sales[i] = 1 /\ restocks[i] = 0
          BY <3>2 DEF StockExact
        <4>2. sales'[i] = 1 /\ restocks'[i] = 1
          BY <3>1, <3>2, <4>1
        <4> QED
          BY <3>2, <4>2 DEF StockState, Movements
      <3>3. CASE i \notin back
        BY <3>1, <3>3 DEF StockState
      <3> QED
        BY <3>2, <3>3
    <2> QED
      BY <2>1 DEF StockState
  <1> QED
    BY <1>1, <1>2, <1>3 DEF Contract!Move

(* Sending consumes exactly the rows it sends, none of them a second time. *)
LEMMA SendToKitchenStock ==
    ASSUME TypeOK, StockExact, NEW o \in Order, NEW seen, SendToKitchen(o, seen)
    PROVE  /\ StockExact'
           /\ Contract!Move(StockState, NewItems(o), "in", "out")
  <1> DEFINE pending == NewItems(o)
             unsold == {i \in pending : ~deducted[i]}
  <1>1. \A i \in pending : i \in Item /\ sales[i] = 0 /\ restocks[i] = 0 /\ ~deducted[i]
    BY DEF StockExact, TypeOK, NewItems, Items
  <1>2. unsold = pending
    BY <1>1
  <1>3. /\ item' = Set(item, pending, "SENT")
        /\ sales' = Count(sales, unsold)
        /\ deducted' = Set(deducted, pending, TRUE)
        /\ restocks' = restocks
    BY DEF SendToKitchen
  <1>4. \A i \in Item :
            /\ item'[i] = IF i \in pending THEN "SENT" ELSE item[i]
            /\ deducted'[i] = (i \in pending \/ deducted[i])
    BY <1>3 DEF Set, TypeOK
  <1>5. \A i \in Item : sales'[i] = IF i \in pending THEN sales[i] + 1 ELSE sales[i]
    <2> HIDE DEF pending, unsold
    <2> QED
      BY <1>2, <1>3 DEF Count, TypeOK
  <1> HIDE DEF pending, unsold
  <1>6. StockExact'
    <2> SUFFICES ASSUME NEW i \in Item
                 PROVE  /\ sales'[i] \in {0, 1}
                        /\ restocks'[i] <= sales'[i]
                        /\ deducted'[i] <=> sales'[i] = 1 /\ restocks'[i] = 0
                        /\ item'[i] \in {"none", "NEW"} => sales'[i] = 0
                        /\ item'[i] = "CANCELLED" => ~deducted'[i]
      BY DEF StockExact
    <2>1. CASE i \in pending
      <3>1. sales'[i] = 1 /\ restocks'[i] = 0
        BY <1>1, <1>3, <1>5, <2>1
      <3>2. item'[i] = "SENT"
        BY <1>4, <2>1
      <3>3. deducted'[i]
        BY <1>4, <2>1
      <3> QED
        BY <3>1, <3>2, <3>3
    <2>2. CASE i \notin pending
      <3>1. UNCHANGED <<sales[i], restocks[i], item[i]>>
        BY <1>3, <1>4, <1>5, <2>2
      <3>2. deducted'[i] <=> deducted[i]
        BY <1>4, <2>2
      <3> QED
        BY <3>1, <3>2 DEF StockExact
    <2> QED
      BY <2>1, <2>2
  <1>7. \A i \in pending : StockState[i] = "in"
    BY <1>1, StockStateIs
  <1>8. \A i \in Item : StockState'[i] = IF i \in pending THEN "out" ELSE StockState[i]
    <2> SUFFICES ASSUME NEW i \in Item
                 PROVE  StockState'[i] = IF i \in pending THEN "out" ELSE StockState[i]
      OBVIOUS
    <2>1. CASE i \in pending
      <3>1. sales'[i] = 1 /\ restocks'[i] = 0
        BY <1>1, <1>3, <1>5, <2>1
      <3> QED
        BY <2>1, <3>1 DEF StockState, Movements
    <2>2. CASE i \notin pending
      BY <1>3, <1>5, <2>2 DEF StockState
    <2> QED
      BY <2>1, <2>2
  <1>9. StockState' = [i \in DOMAIN StockState |->
                          IF i \in pending THEN "out" ELSE StockState[i]]
    BY <1>8 DEF StockState
  <1> QED
    BY <1>6, <1>7, <1>9 DEF Contract!Move, pending

(* A refund with restock, decided on a fresh copy of the item, gives back
   what is out. *)
LEMMA RefundWithRestockStock ==
    ASSUME TypeOK, StockExact, NEW o \in Order, NEW units, NEW i \in Item,
           RefundWithRestock(o, units, i, deducted[i])
    PROVE  /\ StockExact'
           /\ Contract!Move(StockState, {i}, "out", "back")
  <1>1. /\ deducted[i] /\ sales[i] = 1 /\ restocks[i] = 0
        /\ item[i] \notin {"none", "NEW", "CANCELLED"}
    BY DEF RefundWithRestock, StockExact
  <1>2. /\ restocks' = Count(restocks, {i})
        /\ deducted' = [deducted EXCEPT ![i] = FALSE]
        /\ UNCHANGED <<item, sales>>
    BY DEF RefundWithRestock
  <1>3. \A j \in Item : /\ restocks'[j] = IF j = i THEN restocks[j] + 1 ELSE restocks[j]
                        /\ sales'[j] = sales[j] /\ item'[j] = item[j]
    BY <1>2 DEF Count, TypeOK
  <1>4. \A j \in Item : deducted'[j] = (deducted[j] /\ j # i)
    BY <1>2 DEF TypeOK
  <1>5. StockExact'
    <2> SUFFICES ASSUME NEW j \in Item
                 PROVE  /\ sales'[j] \in {0, 1}
                        /\ restocks'[j] <= sales'[j]
                        /\ deducted'[j] <=> sales'[j] = 1 /\ restocks'[j] = 0
                        /\ item'[j] \in {"none", "NEW"} => sales'[j] = 0
                        /\ item'[j] = "CANCELLED" => ~deducted'[j]
      BY DEF StockExact
    <2>1. CASE j = i
      <3>1. sales'[i] = 1 /\ restocks'[i] = 1 /\ item'[i] = item[i]
        BY <1>1, <1>3
      <3>2. ~deducted'[i]
        BY <1>4
      <3> QED
        BY <1>1, <2>1, <3>1, <3>2
    <2>2. CASE j # i
      <3>1. UNCHANGED <<sales[j], restocks[j], item[j]>>
        BY <1>3, <2>2
      <3>2. deducted'[j] <=> deducted[j]
        BY <1>4, <2>2
      <3> QED
        BY <3>1, <3>2 DEF StockExact
    <2> QED
      BY <2>1, <2>2
  <1>6. StockState[i] = "out"
    BY <1>1, StockStateIs
  <1>7. \A j \in Item : StockState'[j] = IF j \in {i} THEN "back" ELSE StockState[j]
    <2>1. StockState'[i] = "back"
      <3>1. sales'[i] = 1 /\ restocks'[i] = 1
        BY <1>1, <1>3
      <3> QED
        BY <3>1 DEF StockState, Movements
    <2>2. \A j \in Item \ {i} : StockState'[j] = StockState[j]
      BY <1>3 DEF StockState
    <2> QED
      BY <2>1, <2>2
  <1>8. StockState' = [j \in DOMAIN StockState |->
                          IF j \in {i} THEN "back" ELSE StockState[j]]
    BY <1>7 DEF StockState
  <1> QED
    BY <1>5, <1>6, <1>8 DEF Contract!Move

-----------------------------------------------------------------------------
(* Refinement of OrderContract. *)

ContractStep == [Contract!Next]_<<Phase, StockState>>

LEMMA PhaseMove ==
    ASSUME TypeOK, NEW o \in Order, NEW st, status' = [status EXCEPT ![o] = st]
    PROVE  Contract!Move(Phase, {o}, PhaseOf(status[o]), PhaseOf(st))
  <1>1. \A p \in Order : Phase'[p] = IF p \in {o} THEN PhaseOf(st) ELSE Phase[p]
    BY DEF Phase, TypeOK
  <1>2. Phase' = [p \in DOMAIN Phase |-> IF p \in {o} THEN PhaseOf(st) ELSE Phase[p]]
    BY <1>1 DEF Phase
  <1> QED
    BY <1>2 DEF Contract!Move, Phase

LEMMA PhaseSame ==
    ASSUME \A p \in Order : PhaseOf(status'[p]) = PhaseOf(status[p])
    PROVE  UNCHANGED Phase
  BY DEF Phase

(* Moving nothing is no step. *)
LEMMA StockMoveNone ==
    ASSUME UNCHANGED StockState
    PROVE  Contract!Move(StockState, {}, "out", "back")
  BY DEF Contract!Move, StockState

(* A service step other than sending, cancelling and restocking, in terms of
   what it does to the status of an order. *)
LEMMA StockFrameContract ==
    ASSUME StockInv, TypeOK', StockFrame,
           \/ UNCHANGED Phase
           \/ \E o \in Order, p \in {"OPEN", "CANCELLED"} :
                  Contract!Move(Phase, {o}, "none", p)
           \/ \E o \in Order : Contract!Move(Phase, {o}, "OPEN", "PAID")
           \/ \E o \in Order : Contract!Move(Phase, {o}, "OPEN", "CANCELLED")
    PROVE  StockExact' /\ ContractStep
  <1>1. StockExact' /\ UNCHANGED StockState
    BY StockFrameKeeps DEF StockInv
  <1>2. CASE UNCHANGED Phase
    BY <1>1, <1>2 DEF ContractStep
  <1>3. CASE \E o \in Order, p \in {"OPEN", "CANCELLED"} :
                Contract!Move(Phase, {o}, "none", p)
    BY <1>1, <1>3 DEF ContractStep, Contract!Next, Contract!Open
  <1>4. CASE \E o \in Order : Contract!Move(Phase, {o}, "OPEN", "PAID")
    BY <1>1, <1>4 DEF ContractStep, Contract!Next, Contract!Pay
  <1>5. CASE \E o \in Order : Contract!Move(Phase, {o}, "OPEN", "CANCELLED")
    BY <1>1, <1>5, StockMoveNone DEF ContractStep, Contract!Next, Contract!Cancel
  <1> QED
    BY <1>2, <1>3, <1>4, <1>5

(* A kitchen step moves the order to another open status at most. *)
LEMMA SyncContract ==
    ASSUME StockInv, TypeOK', StockFrame, NEW o, SyncOrderStatus(o, status[o])
    PROVE  StockExact' /\ ContractStep
  <1> USE DEF StockInv, KitchenInv
  <1>1. CASE o \notin Order
    <2>1. UNCHANGED Phase
      BY <1>1, SyncType DEF Phase
    <2> QED
      BY <2>1, StockFrameContract
  <1>2. CASE o \in Order /\ status[o] = "none"
    <2>1. CASE status' = status
      <3>1. UNCHANGED Phase
        BY <2>1 DEF Phase
      <3> QED
        BY <3>1, StockFrameContract
    <2>2. CASE status' # status
      <3>1. PICK st : /\ st \notin Closed \cup {"none"}
                      /\ status' = [status EXCEPT ![o] = st]
        BY <2>2 DEF SyncOrderStatus, StatusFromTickets, Closed
      <3>2. Contract!Move(Phase, {o}, "none", "OPEN")
        BY <1>2, <3>1, PhaseMove DEF PhaseOf
      <3> QED
        BY <1>2, <3>2, StockFrameContract
    <2> QED
      BY <2>1, <2>2
  <1>3. CASE o \in Order /\ status[o] # "none"
    <2>1. \A p \in Order : PhaseOf(status'[p]) = PhaseOf(status[p])
      BY <1>3, SyncType DEF PhaseOf
    <2> QED
      BY <2>1, PhaseSame, StockFrameContract
  <1> QED
    BY <1>1, <1>2, <1>3

(* An order service step keeps the stock exact and is a step of the contract
   or a stutter. *)
LEMMA OrderStepContract ==
    ASSUME StockInv, TypeOK', NEW o \in Order, OrderStep(o)
    PROVE  StockExact' /\ ContractStep
  <1> USE DEF StockInv, KitchenInv
  <1>1. CASE OpenOrder(o)
    <2>1. StockFrame
      BY <1>1 DEF OpenOrder, StockFrame, itemVars, stockVars
    <2>2. Contract!Move(Phase, {o}, "none", "OPEN")
      BY <1>1, PhaseMove DEF OpenOrder, Exists, PhaseOf, Closed
    <2> QED
      BY <2>1, <2>2, StockFrameContract
  <1>2. ASSUME NEW i \in Item, AddItem(o, i, status[o])
        PROVE  StockExact' /\ ContractStep
    <2>1. StockFrame
      BY <1>2 DEF AddItem, StockFrame, stockVars, TypeOK
    <2>2. UNCHANGED Phase
      BY <1>2 DEF AddItem, orderVars, Phase
    <2> QED
      BY <2>1, <2>2, StockFrameContract
  <1>3. CASE Exists(o) /\ SendToKitchen(o, status[o])
    <2> DEFINE pending == NewItems(o)
    <2>1. StockExact' /\ Contract!Move(StockState, pending, "in", "out")
      BY <1>3, SendToKitchenStock
    <2>2. status' = IF status[o] = "OPEN" THEN [status EXCEPT ![o] = "SENT"]
                    ELSE status
      BY <1>3 DEF SendToKitchen
    <2>3. UNCHANGED Phase
      BY <2>2 DEF TypeOK, Phase, PhaseOf, Closed
    <2>4. pending \in SUBSET Item
      BY DEF NewItems, Items
    <2> HIDE DEF pending
    <2> QED
      BY <2>1, <2>3, <2>4 DEF ContractStep, Contract!Next, Contract!Consume
  <1>4. ASSUME NEW units, TakePayment(o, units, status[o]), Exists(o)
        PROVE  StockExact' /\ ContractStep
    <2>1. StockFrame
      BY <1>4 DEF TakePayment, StockFrame, itemVars, stockVars
    <2>2. CASE status' = status
      <3>1. UNCHANGED Phase
        BY <2>2 DEF Phase
      <3> QED
        BY <2>1, <3>1, StockFrameContract
    <2>3. CASE status' # status
      <3>1. /\ status' = [status EXCEPT ![o] = "PAID"]
            /\ PhaseOf(status[o]) = "OPEN"
        BY <1>4, <2>3 DEF TakePayment, Exists, PhaseOf, Closed
      <3>2. Contract!Move(Phase, {o}, "OPEN", "PAID")
        BY <3>1, PhaseMove DEF PhaseOf, Closed
      <3> QED
        BY <2>1, <3>2, StockFrameContract
    <2> QED
      BY <2>2, <2>3
  <1>5. CASE Exists(o) /\ CancelOrder(o, status[o])
    <2> DEFINE back == {i \in ActiveItems(o) : deducted[i]}
    <2>1. ActiveItems(o) \in SUBSET Item
      BY DEF ActiveItems, Items
    <2>2. StockExact' /\ Contract!Move(StockState, back, "out", "back")
      BY <1>5, <2>1, CancelItemsStock DEF CancelOrder
    <2>3. /\ status' = [status EXCEPT ![o] = "CANCELLED"]
          /\ PhaseOf(status[o]) = "OPEN"
      BY <1>5 DEF CancelOrder, Exists, PhaseOf, Closed
    <2>4. Contract!Move(Phase, {o}, "OPEN", "CANCELLED")
      BY <2>3, PhaseMove DEF PhaseOf, Closed
    <2>5. back \in SUBSET Item
      BY <2>1
    <2> HIDE DEF back
    <2> QED
      BY <2>2, <2>4, <2>5 DEF ContractStep, Contract!Next, Contract!Cancel
  <1>6. ASSUME NEW units, RefundOrder(o, units)
        PROVE  StockExact' /\ ContractStep
    <2>1. StockFrame
      BY <1>6 DEF RefundOrder, StockFrame, itemVars, stockVars
    <2>2. UNCHANGED Phase
      BY <1>6 DEF RefundOrder, Phase
    <2> QED
      BY <2>1, <2>2, StockFrameContract
  <1>7. ASSUME NEW units, NEW i \in Item, RefundWithRestock(o, units, i, deducted[i])
        PROVE  StockExact' /\ ContractStep
    <2>1. StockExact' /\ Contract!Move(StockState, {i}, "out", "back")
      BY <1>7, RefundWithRestockStock
    <2>2. UNCHANGED Phase
      BY <1>7 DEF RefundWithRestock, Phase
    <2> QED
      BY <2>1, <2>2 DEF ContractStep, Contract!Next, Contract!Return
  <1>8. ASSUME NEW new \in Order, NEW S, SplitOrder(o, new, S, status[o]), Exists(o)
        PROVE  StockExact' /\ ContractStep
    <2>1. StockFrame
      BY <1>8 DEF SplitOrder, StockFrame, stockVars
    <2>2. /\ status' = [status EXCEPT ![new] = status[o]]
          /\ status[new] = "none" /\ status[o] \notin {"none", "PAID"}
      BY <1>8 DEF SplitOrder, Exists
    <2>3. /\ PhaseOf(status[new]) = "none"
          /\ PhaseOf(status[o]) \in {"OPEN", "CANCELLED"}
      BY <2>2 DEF PhaseOf, Closed
    <2>4. Contract!Move(Phase, {new}, "none", PhaseOf(status[o]))
      BY <2>2, <2>3, PhaseMove
    <2> QED
      BY <2>1, <2>3, <2>4, StockFrameContract
  <1>9. ASSUME NEW source \in Order, Exists(source),
               MergeOrders(o, source, status[o], status[source])
        PROVE  StockExact' /\ ContractStep
    <2>1. StockFrame
      BY <1>9 DEF MergeOrders, StockFrame, stockVars
    <2>2. /\ status' = [status EXCEPT ![source] = "CANCELLED"]
          /\ status[source] \notin {"none", "PAID"}
      BY <1>9 DEF MergeOrders, CanMerge, Exists
    <2>3. CASE status[source] = "CANCELLED"
      <3>1. UNCHANGED Phase
        BY <2>2, <2>3 DEF Phase, TypeOK
      <3> QED
        BY <2>1, <3>1, StockFrameContract
    <2>4. CASE status[source] # "CANCELLED"
      <3>1. Contract!Move(Phase, {source}, "OPEN", "CANCELLED")
        BY <2>2, <2>4, PhaseMove DEF PhaseOf, Closed
      <3> QED
        BY <2>1, <3>1, StockFrameContract
    <2> QED
      BY <2>3, <2>4
  <1>10. CASE Exists(o) /\ DeliveryComplete(o, status[o])
    <2>1. StockFrame
      BY <1>10 DEF DeliveryComplete, StockFrame, itemVars, stockVars
    <2>2. UNCHANGED Phase
      BY <1>10 DEF DeliveryComplete, Exists, TypeOK, Phase, PhaseOf, Closed
    <2> QED
      BY <2>1, <2>2, StockFrameContract
  <1> QED
    BY <1>1, <1>2, <1>3, <1>4, <1>5, <1>6, <1>7, <1>8, <1>9, <1>10
    DEF OrderStep, Items

(* So does a kitchen step. *)
LEMMA KitchenStepContract ==
    ASSUME StockInv, TypeOK', NEW k \in Ticket, KitchenStep(k)
    PROVE  StockExact' /\ ContractStep
  <1> USE DEF StockInv, KitchenInv
  <1>1. CASE StartTicket(k, tstatus[k], torder[k], status[torder[k]])
    <2>1. item' = Set(item, Lines(k), "PREPARING")
      BY <1>1 DEF StartTicket
    <2>2. StockFrame
      BY <1>1, <2>1 DEF StartTicket, StockFrame, stockVars, Set, TypeOK
    <2> QED
      BY <1>1, <2>2, SyncContract DEF StartTicket
  <1>2. CASE MarkTicketReady(k, tstatus[k], torder[k], status[torder[k]])
    <2>1. item' = Set(item, {i \in Lines(k) : item[i] # "CANCELLED"}, "READY")
      BY <1>2 DEF MarkTicketReady
    <2>2. StockFrame
      BY <1>2, <2>1 DEF MarkTicketReady, StockFrame, stockVars, Set, TypeOK
    <2> QED
      BY <1>2, <2>2, SyncContract DEF MarkTicketReady
  <1>3. CASE CompleteTicket(k, torder[k], status[torder[k]])
    <2>1. item' = Set(item, {i \in Lines(k) : item[i] # "CANCELLED"}, "SERVED")
      BY <1>3 DEF CompleteTicket
    <2>2. StockFrame
      BY <1>3, <2>1 DEF CompleteTicket, StockFrame, stockVars, Set, TypeOK
    <2> QED
      BY <1>3, <2>2, SyncContract DEF CompleteTicket
  <1> QED
    BY <1>1, <1>2, <1>3 DEF KitchenStep

(* And cancelling a single row. *)
LEMMA CancelItemContract ==
    ASSUME StockInv, NEW i \in Item, CancelItem(i), TypeOK'
    PROVE  StockExact' /\ ContractStep
  <1> USE DEF StockInv, KitchenInv
  <1> DEFINE back == {j \in {i} : deducted[j]}
  <1>1. StockExact' /\ Contract!Move(StockState, back, "out", "back")
    BY CancelItemsStock DEF CancelItem
  <1>2. UNCHANGED Phase
    BY DEF CancelItem, orderVars, Phase
  <1>3. CASE deducted[i]
    <2>1. back = {i}
      BY <1>3
    <2> QED
      BY <1>1, <1>2, <2>1 DEF ContractStep, Contract!Next, Contract!Return
  <1>4. CASE ~deducted[i]
    <2>1. back = {}
      BY <1>4
    <2>2. StockState' = StockState
      BY <1>1, <2>1 DEF Contract!Move, StockState
    <2> QED
      BY <1>1, <1>2, <2>2 DEF ContractStep
  <1> QED
    BY <1>3, <1>4

LEMMA InitStock == Init => StockInv /\ Contract!Init
  <1> SUFFICES ASSUME Init
               PROVE  StockInv /\ Contract!Init
    OBVIOUS
  <1>1. StockExact
    BY DEF Init, StockExact
  <1>2. Phase = [o \in Order |-> "none"]
    BY DEF Init, Phase, PhaseOf
  <1>3. StockState = [i \in Item |-> "in"]
    BY DEF Init, StockState, Movements
  <1> QED
    BY <1>1, <1>2, <1>3, InitKitchen DEF StockInv, Contract!Init

(* Every step keeps the stock invariant and implements the contract. *)
LEMMA NextStock == StockInv /\ [Next]_vars => StockInv' /\ ContractStep
  <1> SUFFICES ASSUME StockInv, [Next]_vars
               PROVE  StockExact' /\ ContractStep
    BY NextKitchen DEF StockInv
  <1>1. TypeOK'
    BY NextKitchen DEF StockInv, KitchenInv
  <1>2. CASE \E o \in Order : OrderStep(o)
    BY <1>1, <1>2, OrderStepContract
  <1>3. CASE \E i \in Item : CancelItem(i)
    BY <1>1, <1>3, CancelItemContract
  <1>4. CASE \E k \in Ticket : KitchenStep(k)
    BY <1>1, <1>4, KitchenStepContract
  <1>5. CASE UNCHANGED vars
    <2>1. StockFrame
      BY <1>5 DEF vars, itemVars, stockVars, StockFrame
    <2>2. UNCHANGED Phase
      BY <1>5 DEF vars, orderVars, Phase
    <2> QED
      BY <1>1, <2>1, <2>2, StockFrameContract
  <1> QED
    BY <1>2, <1>3, <1>4, <1>5 DEF Next

(* The stock movements agree with the rows, whatever the order of sending,
   cancelling and refunding. *)
THEOREM StockCorrect == Spec => []StockExact
  <1>1. StockInv => StockExact
    BY DEF StockInv
  <1> QED
    BY <1>1, InitStock, NextStock, PTL DEF Spec

(* The order and kitchen services implement the contract of the till and the
   stock room. *)
THEOREM Refinement == Spec => ImplementsContract
  <1>1. Init => Contract!Init
    BY InitStock
  <1>2. StockInv /\ [Next]_vars => [Contract!Next]_<<Phase, StockState>>
    BY NextStock DEF ContractStep
  <1> QED
    BY <1>1, <1>2, InitStock, NextStock, PTL
    DEF Spec, ImplementsContract, Contract!Spec

-----------------------------------------------------------------------------
(* Rows of paid orders.  A row without an order is one not created yet. *)
OwnerInv == KitchenInv /\ \A i \in Item : item[i] = "none" <=> owner[i] = NoOrder

(* A row that changes hands was of no paid order, and comes to none. *)
PaidRowsStep ==
    \A i \in Item, o \in Order :
        status[o] = "PAID" => (owner'[i] = o <=> owner[i] = o)

(* Only adding, splitting and merging touch the owner of a row. *)
LEMMA NextOwner == OwnerInv /\ [Next]_vars => OwnerInv' /\ PaidRowsStep
  <1> SUFFICES ASSUME OwnerInv, [Next]_vars
               PROVE  OwnerInv' /\ PaidRowsStep
    OBVIOUS
  <1>0. KitchenInv' /\ TypeOK
    BY NextKitchen DEF OwnerInv, KitchenInv
  <1>1. ASSUME UNCHANGED owner,
               \A i \in Item : item'[i] = "none" <=> item[i] = "none"
        PROVE  OwnerInv' /\ PaidRowsStep
    BY <1>0, <1>1 DEF PaidRowsStep, OwnerInv
  <1>2. CASE \E o \in Order, i \in Item : AddItem(o, i, status[o])
    <2>1. PICK o \in Order, i \in Item : AddItem(o, i, status[o])
      BY <1>2
    <2>2. /\ item[i] = "none" /\ item' = [item EXCEPT ![i] = "NEW"]
          /\ owner' = [owner EXCEPT ![i] = o]
          /\ status[o] # "PAID"
      BY <2>1 DEF AddItem, Closed
    <2> QED
      BY <1>0, <2>2, NullAssumption DEF OwnerInv, PaidRowsStep, TypeOK
  <1>3. CASE \E o, new \in Order, S \in SUBSET Item : SplitOrder(o, new, S, status[o])
    <2>1. PICK o \in Order, new \in Order, S \in SUBSET Item :
                  SplitOrder(o, new, S, status[o])
      BY <1>3
    <2>2. /\ status[o] # "PAID" /\ owner' = Set(owner, S, new) /\ item' = item
          /\ status[new] # "PAID"
          /\ \A i \in S : i \in Item /\ owner[i] = o
      BY <2>1 DEF SplitOrder, ActiveItems, Items, Exists
    <2> QED
      BY <1>0, <2>2, NullAssumption DEF OwnerInv, PaidRowsStep, TypeOK, Set
  <1>4. CASE \E target, source \in Order :
                MergeOrders(target, source, status[target], status[source])
    <2>1. PICK target \in Order, source \in Order :
                  MergeOrders(target, source, status[target], status[source])
      BY <1>4
    <2> DEFINE S == ActiveItems(source)
    <2>2. /\ status[source] # "PAID" /\ status[target] # "PAID"
          /\ owner' = Set(owner, S, target) /\ item' = item
          /\ \A i \in S : i \in Item /\ owner[i] = source
      BY <2>1 DEF MergeOrders, CanMerge, ActiveItems, Items
    <2> HIDE DEF S
    <2> QED
      BY <1>0, <2>2, NullAssumption DEF OwnerInv, PaidRowsStep, TypeOK, Set
  <1>5. ASSUME NEW S \in SUBSET Item, CancelItems(S), \A i \in S : item[i] # "none"
        PROVE  OwnerInv' /\ PaidRowsStep
    BY <1>0, <1>1, <1>5, CancelItemsInv
  <1>6. ASSUME NEW o \in Order, OrderStep(o)
        PROVE  OwnerInv' /\ PaidRowsStep
    <2>1. CASE \/ OpenOrder(o)
               \/ \E units \in 0 .. MaxPaid : TakePayment(o, units, status[o])
               \/ \E units \in 1 .. MaxPaid : RefundOrder(o, units)
               \/ \E units \in 1 .. MaxPaid, i \in Items(o) :
                      RefundWithRestock(o, units, i, deducted[i])
               \/ DeliveryComplete(o, status[o])
      BY <1>1, <2>1 DEF OpenOrder, TakePayment, RefundOrder, RefundWithRestock,
                        DeliveryComplete, itemVars
    <2>2. CASE SendToKitchen(o, status[o])
      <3>1. /\ item' = Set(item, NewItems(o), "SENT")
            /\ owner' = owner
        BY <2>2 DEF SendToKitchen
      <3> QED
        BY <1>0, <1>1, <3>1 DEF Set, TypeOK, NewItems
    <2>3. CASE CancelOrder(o, status[o])
      <3>1. \A i \in ActiveItems(o) : item[i] # "none"
        BY NullAssumption DEF OwnerInv, ActiveItems, Items
      <3>2. ActiveItems(o) \in SUBSET Item
        BY DEF ActiveItems, Items
      <3> QED
        BY <1>5, <2>3, <3>1, <3>2 DEF CancelOrder
    <2> QED
      BY <1>2, <1>3, <1>4, <1>6, <2>1, <2>2, <2>3 DEF OrderStep
  <1>7. ASSUME NEW i \in Item, CancelItem(i)
        PROVE  OwnerInv' /\ PaidRowsStep
    BY <1>5, <1>7 DEF CancelItem
  <1>8. ASSUME NEW k \in Ticket, KitchenStep(k)
        PROVE  OwnerInv' /\ PaidRowsStep
    <2>1. \A i \in Lines(k) : i \in Item /\ item[i] # "none"
      BY <1>0, NullAssumption DEF OwnerInv, KitchenInv, KitchenAgreement, AtStage, Lines
    <2>2. PICK S \in SUBSET Lines(k), v \in {"PREPARING", "READY", "SERVED"} :
                  item' = Set(item, S, v) /\ owner' = owner
      <3>1. CASE StartTicket(k, tstatus[k], torder[k], status[torder[k]])
        BY <3>1 DEF StartTicket
      <3>2. CASE MarkTicketReady(k, tstatus[k], torder[k], status[torder[k]])
        BY <3>2 DEF MarkTicketReady
      <3>3. CASE CompleteTicket(k, torder[k], status[torder[k]])
        BY <3>3 DEF CompleteTicket
      <3> QED
        BY <1>8, <3>1, <3>2, <3>3 DEF KitchenStep
    <2> QED
      BY <1>0, <1>1, <2>1, <2>2 DEF Set, TypeOK
  <1>9. CASE UNCHANGED vars
    BY <1>1, <1>9 DEF vars, itemVars
  <1> QED
    BY <1>6, <1>7, <1>8, <1>9 DEF Next

(* A paid order keeps exactly the rows it was paid with: none joins, none leaves. *)
THEOREM PaidRowsKept == Spec => PaidRowsStay
  <1>1. Init => OwnerInv
    BY InitKitchen DEF Init, OwnerInv
  <1>2. OwnerInv /\ [Next]_vars => OwnerInv' /\ [PaidRowsStep]_vars
    BY NextOwner
  <1>3. OwnerInv /\ [Next]_vars =>
          [\A o \in Order : status[o] = "PAID" => Items(o)' = Items(o)]_vars
    BY NextOwner DEF PaidRowsStep, Items
  <1> QED
    BY <1>1, <1>2, <1>3, PTL DEF Spec, PaidRowsStay

-----------------------------------------------------------------------------
(* Overlapping requests.  The guard of each Run... action already types the
   copy it uses, so the results on tickets and sending need no invariant
   about held; only its own type does. *)

(* The service calls, on any loaded copy, that do not send anything. *)
OrderService(o, seen) ==
    \/ OpenOrder(o)
    \/ \E i \in Item : AddItem(o, i, seen)
    \/ \E units \in 0 .. MaxPaid : TakePayment(o, units, seen)
    \/ CancelOrder(o, seen)
    \/ \E units \in 1 .. MaxPaid : RefundOrder(o, units)
    \/ \E units \in 1 .. MaxPaid, i \in Item, seenDeducted \in BOOLEAN :
          RefundWithRestock(o, units, i, seenDeducted)
    \/ \E new \in Order, S \in SUBSET Item : SplitOrder(o, new, S, seen)
    \/ \E source \in Order, seenSource \in OrderStatus :
          MergeOrders(o, source, seen, seenSource)
    \/ DeliveryComplete(o, seen)

KitchenService(k, seenTicket, o, seen) ==
    \/ StartTicket(k, seenTicket, o, seen)
    \/ MarkTicketReady(k, seenTicket, o, seen)
    \/ CompleteTicket(k, o, seen)

(* Every step of RaceNext that is not a stutter of the database is one of
   these four. *)
LEMMA RaceSteps ==
    ASSUME TypeOK, [RaceNext]_raceVars
    PROVE  \/ \E o \in Order, seen \in OrderStatus \cup {"none"} :
                 OrderService(o, seen) \/ SendToKitchen(o, seen)
           \/ \E i \in Item : CancelItem(i)
           \/ \E k \in Ticket, t \in Terminal :
                 /\ held[t] \in TicketCopy
                 /\ k = held[t].ticket
                 /\ KitchenService(k, held[t].tstatus, held[t].order, held[t].status)
           \/ \E k \in Ticket :
                 KitchenService(k, tstatus[k], torder[k], status[torder[k]])
           \/ UNCHANGED vars
  <1> USE DEF OrderService, KitchenService
  <1>1. ASSUME NEW o \in Order, OrderStep(o)
        PROVE  \E seen \in OrderStatus \cup {"none"} :
                  OrderService(o, seen) \/ SendToKitchen(o, seen)
    <2> DEFINE seen == status[o]
    <2>1. seen \in OrderStatus \cup {"none"}
      BY DEF TypeOK
    <2>2. CASE \E source \in Order : /\ Exists(source)
                                     /\ MergeOrders(o, source, seen, status[source])
      BY <2>1, <2>2 DEF Exists, TypeOK
    <2>3. CASE \E units \in 1 .. MaxPaid, i \in Items(o) :
                  RefundWithRestock(o, units, i, deducted[i])
      BY <2>1, <2>3 DEF TypeOK, Items
    <2>4. CASE OpenOrder(o)
      BY <2>1, <2>4
    <2> HIDE DEF seen
    <2> QED
      BY <1>1, <2>1, <2>2, <2>3, <2>4 DEF OrderStep, seen
  <1>2. CASE Next
    BY <1>1, <1>2 DEF Next, KitchenStep
  <1>3. ASSUME NEW t \in Terminal, RunOrderService(t)
        PROVE  \E o \in Order, seen \in OrderStatus \cup {"none"} :
                  OrderService(o, seen) \/ SendToKitchen(o, seen)
    <2>1. held[t].order \in Order /\ held[t].status \in OrderStatus
      BY <1>3 DEF RunOrderService, OrderCopy
    <2> QED
      BY <1>3, <2>1 DEF RunOrderService
  <1>4. ASSUME NEW t \in Terminal, RunRefund(t)
        PROVE  \E o \in Order : OrderService(o, "none")
    <2>1. /\ held[t].order \in Order /\ held[t].item \in Item
          /\ held[t].deducted \in BOOLEAN
      BY <1>4 DEF RunRefund, ItemCopy
    <2> QED
      BY <1>4, <2>1 DEF RunRefund
  <1>5. ASSUME NEW t \in Terminal, RunMerge(t)
        PROVE  \E o \in Order, seen \in OrderStatus : OrderService(o, seen)
    <2>1. /\ held[t].target \in Order /\ held[t].source \in Order
          /\ held[t].status \in OrderStatus /\ held[t].sourceStatus \in OrderStatus
      BY <1>5 DEF RunMerge, MergeCopy
    <2> QED
      BY <1>5, <2>1 DEF RunMerge
  <1>6. ASSUME NEW t \in Terminal, RunKitchenService(t)
        PROVE  /\ held[t] \in TicketCopy /\ held[t].ticket \in Ticket
               /\ KitchenService(held[t].ticket, held[t].tstatus, held[t].order,
                                 held[t].status)
    BY <1>6 DEF RunKitchenService, TicketCopy
  <1>7. ASSUME NEW t \in Terminal,
               \/ \E o \in Order : LoadOrder(t, o)
               \/ \E i \in Item : LoadItem(t, i)
               \/ \E target, source \in Order : LoadOrders(t, target, source)
               \/ \E k \in Ticket : LoadTicket(t, k)
               \/ Refuse(t)
        PROVE  UNCHANGED vars
    BY <1>7 DEF LoadOrder, LoadItem, LoadOrders, LoadTicket, Refuse, Hold
  <1>8. CASE UNCHANGED raceVars
    BY <1>8 DEF raceVars
  <1> HIDE DEF OrderService, KitchenService
  <1> QED
    BY <1>2, <1>3, <1>4, <1>5, <1>6, <1>7, <1>8 DEF RaceNext

-----------------------------------------------------------------------------
(* The kitchen's invariant does not depend on the copies being fresh. *)
LEMMA OrderServiceKitchen ==
    ASSUME KitchenInv, NEW o \in Order, NEW seen \in OrderStatus \cup {"none"},
           OrderService(o, seen)
    PROVE  KitchenInv'
  <1>1. CASE \E new \in Order, S \in SUBSET Item : SplitOrder(o, new, S, seen)
    <2>1. CASE seen = "none"
      <3>1. UNCHANGED <<item, ticketOf, tstatus>>
        BY <1>1 DEF SplitOrder
      <3>2. TypeOK'
        BY <1>1 DEF KitchenInv, TypeOK, SplitOrder, Set, stockVars
      <3> QED
        BY <3>1, <3>2, KitchenFrame
    <2> QED
      BY <1>1, <2>1, SplitOrderKitchen
  <1> QED
    BY <1>1, OpenOrderKitchen, AddItemKitchen, TakePaymentKitchen,
       CancelOrderKitchen, RefundOrderKitchen, RefundWithRestockKitchen,
       MergeOrdersKitchen, DeliveryCompleteKitchen, MaxPaidAssumption
    DEF OrderService

LEMMA RaceKitchen == KitchenInv /\ [RaceNext]_raceVars => KitchenInv'
  <1> SUFFICES ASSUME KitchenInv, [RaceNext]_raceVars
               PROVE  KitchenInv'
    OBVIOUS
  <1>1. TypeOK
    BY DEF KitchenInv
  <1>2. CASE \E k \in Ticket, t \in Terminal :
                /\ held[t] \in TicketCopy
                /\ k = held[t].ticket
                /\ KitchenService(k, held[t].tstatus, held[t].order, held[t].status)
    BY <1>2, StartTicketKitchen, MarkTicketReadyKitchen, CompleteTicketKitchen
    DEF KitchenService
  <1>3. CASE \E k \in Ticket :
                KitchenService(k, tstatus[k], torder[k], status[torder[k]])
    BY <1>3, StartTicketKitchen, MarkTicketReadyKitchen, CompleteTicketKitchen
    DEF KitchenService
  <1>4. CASE UNCHANGED vars
    BY <1>4, NextKitchen
  <1> QED
    BY <1>1, <1>2, <1>3, <1>4, RaceSteps, OrderServiceKitchen,
       SendToKitchenKitchen, CancelItemKitchen

(* However requests overlap, a ticket and its rows are at the same stage. *)
THEOREM KitchenAgreesInRaces == RaceSpec => []KitchenAgreement
  <1>1. RaceInit => KitchenInv
    BY InitKitchen DEF RaceInit
  <1>2. KitchenInv => KitchenAgreement
    BY DEF KitchenInv
  <1> QED
    BY <1>1, <1>2, RaceKitchen, PTL DEF RaceSpec

-----------------------------------------------------------------------------
(* Sending.  A row not sent yet has no ticket and no consumption; that makes
   SentOnce inductive. *)
SentInv ==
    /\ TypeOK
    /\ \A i \in Item :
        /\ sales[i] <= 1
        /\ item[i] \in {"none", "NEW"} =>
              sales[i] = 0 /\ ticketOf[i] = NoTicket /\ ~deducted[i]
        /\ deducted[i] => sales[i] = 1

(* A step that sends nothing. *)
SentFrame ==
    /\ UNCHANGED <<sales, ticketOf>>
    /\ \A i \in Item :
        /\ deducted'[i] => deducted[i]
        /\ item'[i] \in {"none", "NEW"} => item[i] \in {"none", "NEW"}

LEMMA OrderServiceSent ==
    ASSUME TypeOK, NEW o \in Order, NEW seen, OrderService(o, seen)
    PROVE  SentFrame
  <1>1. CASE \E i \in Item : AddItem(o, i, seen)
    BY <1>1 DEF AddItem, SentFrame, stockVars, TypeOK
  <1>2. CASE CancelOrder(o, seen)
    <2>1. ActiveItems(o) \in SUBSET Item /\ CancelItems(ActiveItems(o))
      BY <1>2 DEF CancelOrder, ActiveItems, Items
    <2> QED
      BY <2>1, CancelItemsInv DEF SentFrame
  <1>3. CASE \E units \in 1 .. MaxPaid, i \in Item, seenDeducted \in BOOLEAN :
                RefundWithRestock(o, units, i, seenDeducted)
    <2>1. PICK i \in Item : /\ deducted' = [deducted EXCEPT ![i] = FALSE]
                            /\ UNCHANGED <<sales, ticketOf, item>>
      BY <1>3 DEF RefundWithRestock
    <2> QED
      BY <2>1 DEF SentFrame, TypeOK
  <1>4. CASE \/ OpenOrder(o)
             \/ \E units \in 0 .. MaxPaid : TakePayment(o, units, seen)
             \/ \E units \in 1 .. MaxPaid : RefundOrder(o, units)
             \/ \E new \in Order, S \in SUBSET Item : SplitOrder(o, new, S, seen)
             \/ \E source \in Order, seenSource \in OrderStatus :
                   MergeOrders(o, source, seen, seenSource)
             \/ DeliveryComplete(o, seen)
    BY <1>4 DEF OpenOrder, TakePayment, RefundOrder, SplitOrder, MergeOrders,
                DeliveryComplete, SentFrame, itemVars, stockVars
  <1> QED
    BY <1>1, <1>2, <1>3, <1>4 DEF OrderService

LEMMA KitchenServiceSent ==
    ASSUME TypeOK, NEW k, NEW seenTicket, NEW o, NEW seen,
           KitchenService(k, seenTicket, o, seen)
    PROVE  SentFrame
  <1>1. PICK S \in SUBSET Item, v \in {"PREPARING", "READY", "SERVED"} :
            item' = Set(item, S, v) /\ UNCHANGED <<sales, ticketOf, deducted>>
    <2>1. CASE StartTicket(k, seenTicket, o, seen)
      BY <2>1 DEF StartTicket, Lines, stockVars
    <2>2. CASE MarkTicketReady(k, seenTicket, o, seen)
      BY <2>2 DEF MarkTicketReady, Lines, stockVars
    <2>3. CASE CompleteTicket(k, o, seen)
      BY <2>3 DEF CompleteTicket, Lines, stockVars
    <2> QED
      BY <2>1, <2>2, <2>3 DEF KitchenService
  <1> QED
    BY <1>1 DEF SentFrame, Set, TypeOK

(* Sending moves rows that have no ticket and no consumption yet. *)
LEMMA SendToKitchenSent ==
    ASSUME SentInv, TypeOK', NEW o \in Order, NEW seen, SendToKitchen(o, seen)
    PROVE  /\ SentInv'
           /\ \A i \in Item : ticketOf[i] # NoTicket => ticketOf'[i] = ticketOf[i]
  <1> DEFINE pending == NewItems(o)
             placed == {i \in pending : Group[i] # NoStation}
             unsold == {i \in pending : ~deducted[i]}
  <1>1. /\ item' = Set(item, pending, "SENT")
        /\ sales' = Count(sales, unsold)
        /\ deducted' = Set(deducted, pending, TRUE)
    BY DEF SendToKitchen
  <1>2. \A i \in Item \ pending : ticketOf'[i] = ticketOf[i]
    BY DEF SendToKitchen
  <1>3. \A i \in pending : /\ i \in Item
                           /\ sales[i] = 0 /\ ticketOf[i] = NoTicket /\ ~deducted[i]
    BY DEF SentInv, NewItems, Items
  <1>4. unsold = pending
    BY <1>3
  <1> HIDE DEF pending, placed, unsold
  <1>5. \A i \in Item :
            /\ item'[i] = IF i \in pending THEN "SENT" ELSE item[i]
            /\ sales'[i] = IF i \in pending THEN sales[i] + 1 ELSE sales[i]
    BY <1>1, <1>4 DEF Set, Count, SentInv, TypeOK
  <1>6. \A i \in Item : deducted'[i] <=> (i \in pending \/ deducted[i])
    BY <1>1 DEF Set, SentInv, TypeOK
  <1>7. ASSUME NEW i \in Item
        PROVE  /\ sales'[i] <= 1
               /\ item'[i] \in {"none", "NEW"} =>
                     sales'[i] = 0 /\ ticketOf'[i] = NoTicket /\ ~deducted'[i]
               /\ deducted'[i] => sales'[i] = 1
    <2>1. CASE i \in pending
      BY <1>3, <1>5, <2>1
    <2>2. CASE i \notin pending
      <3>1. UNCHANGED <<item[i], sales[i], ticketOf[i]>>
        BY <1>2, <1>5, <2>2
      <3>2. deducted'[i] <=> deducted[i]
        BY <1>6, <2>2
      <3> QED
        BY <3>1, <3>2 DEF SentInv
    <2> QED
      BY <2>1, <2>2
  <1> QED
    BY <1>2, <1>3, <1>7 DEF SentInv

TicketKeptStep ==
    \A i \in Item : ticketOf[i] # NoTicket => ticketOf'[i] = ticketOf[i]

LEMMA RaceSent ==
    SentInv /\ TypeOK' /\ [RaceNext]_raceVars => SentInv' /\ TicketKeptStep
  <1> SUFFICES ASSUME SentInv, TypeOK', [RaceNext]_raceVars
               PROVE  SentInv' /\ TicketKeptStep
    OBVIOUS
  <1>1. TypeOK
    BY DEF SentInv
  <1>2. CASE SentFrame
    BY <1>2 DEF SentFrame, SentInv, TicketKeptStep
  <1>3. CASE \E o \in Order, seen \in OrderStatus \cup {"none"} :
                OrderService(o, seen) \/ SendToKitchen(o, seen)
    BY <1>1, <1>2, <1>3, OrderServiceSent, SendToKitchenSent DEF TicketKeptStep
  <1>4. CASE \E i \in Item : CancelItem(i)
    <2>1. PICK i \in Item : CancelItems({i})
      BY <1>4 DEF CancelItem
    <2>2. SentFrame
      BY <1>1, <2>1, CancelItemsInv DEF SentFrame
    <2> QED
      BY <1>2, <2>2
  <1>5. CASE UNCHANGED vars
    <2>1. SentFrame
      BY <1>5 DEF vars, itemVars, stockVars, SentFrame
    <2> QED
      BY <1>2, <2>1
  <1> QED
    BY <1>1, <1>2, <1>3, <1>4, <1>5, RaceSteps, KitchenServiceSent

RaceInv == KitchenInv /\ SentInv

LEMMA RaceInvariant == RaceSpec => []RaceInv
  <1>1. RaceInit => RaceInv
    BY InitKitchen DEF RaceInit, RaceInv, SentInv, KitchenInv, Init
  <1>2. RaceInv /\ [RaceNext]_raceVars => RaceInv'
    BY RaceKitchen, RaceSent DEF RaceInv, KitchenInv
  <1> QED
    BY <1>1, <1>2, PTL DEF RaceSpec

(* However requests overlap, a row is consumed and ticketed at most once. *)
THEOREM SentOnceInRaces == RaceSpec => []SentOnce
  <1>1. RaceInv => SentOnce
    BY DEF RaceInv, SentInv, SentOnce
  <1> QED
    BY <1>1, RaceInvariant, PTL

(* However requests overlap, a row never leaves its ticket for another. *)
THEOREM TicketsKeptInRaces == RaceSpec => TicketKept
  <1>1. RaceInv /\ [RaceNext]_raceVars =>
          [\A i \in Item : ticketOf[i] # NoTicket => ticketOf'[i] = ticketOf[i]]_raceVars
    BY RaceKitchen, RaceSent DEF RaceInv, KitchenInv, TicketKeptStep
  <1> QED
    BY <1>1, RaceInvariant, PTL DEF RaceSpec, TicketKept

-----------------------------------------------------------------------------
(* What a terminal holds.  The type of a loaded copy rests on the references
   of the database: rows and tickets belong to orders that are there, and
   nothing that was loaded disappears before the service runs. *)
ReferencesInv ==
    /\ \A i \in Item : item[i] # "none" => owner[i] \in Order
    /\ \A k \in Ticket : tstatus[k] # "none" => torder[k] \in Order /\ Exists(torder[k])

HeldInv ==
    /\ held \in [Terminal -> Copy \cup {Nothing}]
    /\ \A t \in Terminal :
        /\ held[t] \in OrderCopy => Exists(held[t].order)
        /\ held[t] \in MergeCopy => Exists(held[t].target)
        /\ held[t] \in TicketCopy => tstatus[held[t].ticket] # "none"

NothingDisappears ==
    /\ \A o \in Order : Exists(o) => Exists(o)'
    /\ \A k \in Ticket : tstatus[k] # "none" => tstatus'[k] # "none"

LEMMA OrderServiceReferences ==
    ASSUME RaceInv, ReferencesInv, NEW o \in Order, NEW seen \in OrderStatus,
           Exists(o),
           \/ \E i \in Item : AddItem(o, i, seen)
           \/ SendToKitchen(o, seen)
           \/ \E units \in 0 .. MaxPaid : TakePayment(o, units, seen)
           \/ CancelOrder(o, seen)
           \/ \E new \in Order, S \in SUBSET Item : SplitOrder(o, new, S, seen)
           \/ DeliveryComplete(o, seen)
    PROVE  ReferencesInv' /\ NothingDisappears
  <1> USE DEF ReferencesInv, NothingDisappears, Exists
  <1>0. TypeOK
    BY DEF RaceInv, KitchenInv
  <1>1. CASE \E i \in Item : AddItem(o, i, seen)
    BY <1>0, <1>1 DEF AddItem, TypeOK, orderVars, ticketVars
  <1>2. CASE SendToKitchen(o, seen)
    <2> DEFINE placed == {i \in NewItems(o) : Group[i] # NoStation}
               unused == {k \in Ticket : tstatus[k] = "none"}
    <2>1. PICK ticket \in [placed -> unused] :
            /\ tstatus' = Set(tstatus, {ticket[i] : i \in placed}, "QUEUED")
            /\ torder' = Set(torder, {ticket[i] : i \in placed}, o)
      BY <1>2 DEF SendToKitchen
    <2>2. /\ \A p \in Order : Exists(p) => Exists(p)'
          /\ Exists(o)'
      BY <1>0, <1>2 DEF SendToKitchen, TypeOK
    <2>3. \A k \in Ticket : tstatus[k] # "none" => tstatus'[k] # "none"
      BY <1>0, <2>1 DEF TypeOK, Set
    <2>4. \A i \in Item : item'[i] # "none" => owner'[i] \in Order
      BY <1>0, <1>2 DEF SendToKitchen, TypeOK, Set, NewItems, Items
    <2>5. ASSUME NEW k \in Ticket, tstatus'[k] # "none"
          PROVE  torder'[k] \in Order /\ status'[torder'[k]] # "none"
      <3>1. CASE k \in {ticket[i] : i \in placed}
        BY <1>0, <2>1, <2>2, <3>1 DEF TypeOK, Set
      <3>2. CASE k \notin {ticket[i] : i \in placed}
        <4>1. tstatus'[k] = tstatus[k] /\ torder'[k] = torder[k]
          BY <1>0, <2>1, <3>2 DEF TypeOK, Set
        <4> QED
          BY <4>1, <2>2, <2>5
      <3> QED
        BY <3>1, <3>2
    <2> QED
      BY <2>2, <2>3, <2>4, <2>5
  <1>3. CASE \E units \in 0 .. MaxPaid : TakePayment(o, units, seen)
    <2>1. UNCHANGED <<item, owner, torder>>
      BY <1>3 DEF TakePayment, itemVars
    <2>2. \A p \in Order : Exists(p) => Exists(p)'
      BY <1>0, <1>3 DEF TakePayment, TypeOK
    <2>3. \A k \in Ticket : /\ tstatus[k] # "none" => tstatus'[k] # "none"
                            /\ tstatus'[k] # tstatus[k] => torder[k] = o
      BY <1>0, <1>3 DEF TakePayment, TypeOK, Set, Tickets
    <2> QED
      BY <2>1, <2>2, <2>3
  <1>4. CASE CancelOrder(o, seen)
    <2>1. UNCHANGED <<owner, torder>>
      BY <1>4 DEF CancelOrder, CancelItems
    <2>2. \A p \in Order : Exists(p) => Exists(p)'
      BY <1>0, <1>4 DEF CancelOrder, TypeOK
    <2>3. \A k \in Ticket : /\ tstatus[k] # "none" => tstatus'[k] # "none"
                            /\ tstatus'[k] # tstatus[k] => torder[k] = o
      BY <1>0, <1>4 DEF CancelOrder, TypeOK, Set, Tickets
    <2>4. \A i \in Item : item'[i] # item[i] => owner[i] = o
      BY <1>0, <1>4 DEF CancelOrder, CancelItems, TypeOK, Set, ActiveItems, Items
    <2> QED
      BY <2>1, <2>2, <2>3, <2>4
  <1>5. CASE \E new \in Order, S \in SUBSET Item : SplitOrder(o, new, S, seen)
    <2>1. seen # "none"
      BY DEF OrderStatus, Closed
    <2> QED
      BY <1>0, <1>5, <2>1 DEF SplitOrder, TypeOK, Set
  <1>6. CASE DeliveryComplete(o, seen)
    BY <1>0, <1>6 DEF DeliveryComplete, TypeOK, OrderStatus, Closed, itemVars, ticketVars
  <1> QED
    BY <1>1, <1>2, <1>3, <1>4, <1>5, <1>6

(* The other requests: those that change no reference, or move them. *)
LEMMA MergeReferences ==
    ASSUME RaceInv, ReferencesInv, NEW target \in Order, NEW source \in Order,
           NEW seen, NEW seenSource, Exists(target),
           MergeOrders(target, source, seen, seenSource)
    PROVE  ReferencesInv' /\ NothingDisappears
  BY DEF RaceInv, KitchenInv, TypeOK, ReferencesInv, NothingDisappears, Exists,
         MergeOrders, Set

LEMMA OtherReferences ==
    ASSUME RaceInv, ReferencesInv,
           \/ \E o \in Order : OpenOrder(o)
           \/ \E o \in Order, units \in 1 .. MaxPaid : RefundOrder(o, units)
           \/ \E o \in Order, units \in 1 .. MaxPaid, i \in Item, b \in BOOLEAN :
                 RefundWithRestock(o, units, i, b)
           \/ \E i \in Item : CancelItem(i)
           \/ UNCHANGED vars
    PROVE  ReferencesInv' /\ NothingDisappears
  <1> USE DEF RaceInv, KitchenInv, TypeOK, ReferencesInv, NothingDisappears, Exists
  <1>1. CASE \E o \in Order : OpenOrder(o)
    BY <1>1 DEF OpenOrder, itemVars, ticketVars
  <1>2. CASE \/ \E o \in Order, units \in 1 .. MaxPaid : RefundOrder(o, units)
             \/ \E o \in Order, units \in 1 .. MaxPaid, i \in Item, b \in BOOLEAN :
                   RefundWithRestock(o, units, i, b)
    BY <1>2 DEF RefundOrder, RefundWithRestock, itemVars, ticketVars
  <1>3. CASE \E i \in Item : CancelItem(i)
    BY <1>3 DEF CancelItem, CancelItems, Set, orderVars, ticketVars
  <1>4. CASE UNCHANGED vars
    BY <1>4 DEF vars, orderVars, itemVars, ticketVars
  <1> QED
    BY <1>1, <1>2, <1>3, <1>4

LEMMA KitchenServiceReferences ==
    ASSUME RaceInv, ReferencesInv, NEW k \in Ticket, tstatus[k] # "none",
           NEW seenTicket, NEW o, NEW seen, KitchenService(k, seenTicket, o, seen)
    PROVE  ReferencesInv' /\ NothingDisappears
  <1>1. TypeOK /\ \A i \in Item : item[i] = "none" => ticketOf[i] = NoTicket
    BY DEF RaceInv, KitchenInv, SentInv
  <1>2. /\ SyncOrderStatus(o, seen)
        /\ \E new \in {"PREPARING", "READY", "COMPLETED"} :
             tstatus' = [tstatus EXCEPT ![k] = new]
        /\ UNCHANGED <<owner, torder>>
    BY DEF KitchenService, StartTicket, MarkTicketReady, CompleteTicket
  <1>3. \A p \in Order : Exists(p) => Exists(p)'
    BY <1>1, <1>2, SyncType DEF Exists
  <1>4. \A p \in Ticket : tstatus[p] # "none" <=> tstatus'[p] # "none"
    BY <1>1, <1>2 DEF TypeOK
  <1>5. NoTicket \notin Ticket
    BY NullAssumption
  <1>6. \A i \in Item : item'[i] # "none" => item[i] # "none"
    BY <1>1, <1>5 DEF KitchenService, StartTicket, MarkTicketReady, CompleteTicket,
       TypeOK, Set, Lines
  <1> QED
    BY <1>2, <1>3, <1>4, <1>6 DEF ReferencesInv, NothingDisappears, Exists

(* A service that runs finds the references as its terminal left them. *)
LEMMA RaceReferences ==
    ASSUME RaceInv, ReferencesInv, HeldInv, [RaceNext]_raceVars
    PROVE  ReferencesInv' /\ NothingDisappears
  <1>0. TypeOK
    BY DEF RaceInv, KitchenInv
  <1>1. ASSUME NEW o \in Order, OrderStep(o)
        PROVE  ReferencesInv' /\ NothingDisappears
    <2>1. CASE OpenOrder(o)
      BY <2>1, OtherReferences
    <2>2. ASSUME Exists(o) PROVE status[o] \in OrderStatus
      BY <1>0, <2>2 DEF TypeOK, Exists
    <2>3. CASE \E source \in Order : Exists(source)
                  /\ MergeOrders(o, source, status[o], status[source])
      <3>1. CASE Exists(o)
        BY <2>3, <3>1, MergeReferences
      <3> QED
        BY <1>1, <2>1, <3>1 DEF OrderStep
    <2>4. CASE \E units \in 1 .. MaxPaid, i \in Items(o) :
                  RefundWithRestock(o, units, i, deducted[i])
      <3>1. \E units \in 1 .. MaxPaid, i \in Item, b \in BOOLEAN :
               RefundWithRestock(o, units, i, b)
        BY <1>0, <2>4 DEF TypeOK, Items
      <3> QED
        BY <3>1, OtherReferences
    <2>5. CASE \E units \in 1 .. MaxPaid : RefundOrder(o, units)
      BY <2>5, OtherReferences
    <2> QED
      BY <1>1, <2>1, <2>2, <2>3, <2>4, <2>5, OrderServiceReferences DEF OrderStep
  <1>2. CASE Next
    BY <1>1, <1>2, OtherReferences, KitchenServiceReferences
    DEF Next, KitchenStep, KitchenService
  <1>3. ASSUME NEW t \in Terminal, RunOrderService(t)
        PROVE  ReferencesInv' /\ NothingDisappears
    <2>1. /\ held[t].order \in Order /\ held[t].status \in OrderStatus
          /\ Exists(held[t].order)
      BY <1>3 DEF RunOrderService, OrderCopy, HeldInv
    <2> QED
      BY <1>3, <2>1, OrderServiceReferences DEF RunOrderService
  <1>4. ASSUME NEW t \in Terminal, RunRefund(t)
        PROVE  ReferencesInv' /\ NothingDisappears
    <2>1. /\ held[t].order \in Order /\ held[t].item \in Item
          /\ held[t].deducted \in BOOLEAN
      BY <1>4 DEF RunRefund, ItemCopy
    <2> QED
      BY <1>4, <2>1, OtherReferences DEF RunRefund
  <1>5. ASSUME NEW t \in Terminal, RunMerge(t)
        PROVE  ReferencesInv' /\ NothingDisappears
    <2>1. /\ held[t].target \in Order /\ held[t].source \in Order
          /\ Exists(held[t].target)
      BY <1>5 DEF RunMerge, MergeCopy, HeldInv
    <2> QED
      BY <1>5, <2>1, MergeReferences DEF RunMerge
  <1>6. ASSUME NEW t \in Terminal, RunKitchenService(t)
        PROVE  ReferencesInv' /\ NothingDisappears
    <2>1. held[t].ticket \in Ticket /\ tstatus[held[t].ticket] # "none"
      BY <1>6 DEF RunKitchenService, TicketCopy, HeldInv
    <2>2. KitchenService(held[t].ticket, held[t].tstatus, held[t].order, held[t].status)
      BY <1>6 DEF RunKitchenService, KitchenService
    <2> QED
      BY <2>1, <2>2, KitchenServiceReferences
  <1>7. ASSUME NEW t \in Terminal,
               \/ \E o \in Order : LoadOrder(t, o)
               \/ \E i \in Item : LoadItem(t, i)
               \/ \E target, source \in Order : LoadOrders(t, target, source)
               \/ \E k \in Ticket : LoadTicket(t, k)
               \/ Refuse(t)
        PROVE  ReferencesInv' /\ NothingDisappears
    <2>1. UNCHANGED vars
      BY <1>7 DEF LoadOrder, LoadItem, LoadOrders, LoadTicket, Refuse, Hold
    <2> QED
      BY <2>1, OtherReferences
  <1>8. CASE UNCHANGED raceVars
    BY <1>8, OtherReferences DEF raceVars
  <1> QED
    BY <1>2, <1>3, <1>4, <1>5, <1>6, <1>7, <1>8 DEF RaceNext

(* What a terminal may hold, given the database it was loaded from or the one
   it is about to be used on. *)
GoodCopy(copy) ==
    /\ copy \in Copy \cup {Nothing}
    /\ copy \in OrderCopy => Exists(copy.order)
    /\ copy \in MergeCopy => Exists(copy.target)
    /\ copy \in TicketCopy => tstatus[copy.ticket] # "none"

LEMMA NothingIsGood == GoodCopy(Nothing)
  BY NothingAssumption DEF GoodCopy, Copy

LEMMA LoadedIsGood ==
    ASSUME TypeOK, ReferencesInv, NEW t \in Terminal,
           \/ \E o \in Order : LoadOrder(t, o)
           \/ \E i \in Item : LoadItem(t, i)
           \/ \E target, source \in Order : LoadOrders(t, target, source)
           \/ \E k \in Ticket : LoadTicket(t, k)
    PROVE  \E copy : GoodCopy(copy) /\ held' = [held EXCEPT ![t] = copy]
  <1>0. /\ \A c \in OrderCopy : DOMAIN c = {"order", "status"}
        /\ \A c \in ItemCopy : DOMAIN c = {"order", "item", "deducted"}
        /\ \A c \in MergeCopy : DOMAIN c = {"target", "source", "status", "sourceStatus"}
        /\ \A c \in TicketCopy : DOMAIN c = {"ticket", "tstatus", "order", "status"}
    BY DEF OrderCopy, ItemCopy, MergeCopy, TicketCopy
  <1>1. ASSUME NEW o \in Order, LoadOrder(t, o)
        PROVE  \E copy : GoodCopy(copy) /\ held' = [held EXCEPT ![t] = copy]
    <2> DEFINE copy == [order |-> o, status |-> status[o]]
    <2>1. copy \in OrderCopy /\ Exists(copy.order)
      BY <1>1 DEF LoadOrder, OrderCopy, TypeOK, Exists
    <2>2. held' = [held EXCEPT ![t] = copy]
      BY <1>1 DEF LoadOrder, Hold
    <2> HIDE DEF copy
    <2>3. GoodCopy(copy)
      BY <1>0, <2>1 DEF GoodCopy, Copy
    <2> QED
      BY <2>2, <2>3
  <1>2. ASSUME NEW i \in Item, LoadItem(t, i)
        PROVE  \E copy : GoodCopy(copy) /\ held' = [held EXCEPT ![t] = copy]
    <2> DEFINE copy == [order |-> owner[i], item |-> i, deducted |-> deducted[i]]
    <2>1. copy \in ItemCopy
      BY <1>2 DEF LoadItem, ItemCopy, TypeOK, ReferencesInv
    <2>2. held' = [held EXCEPT ![t] = copy]
      BY <1>2 DEF LoadItem, Hold
    <2> HIDE DEF copy
    <2>3. GoodCopy(copy)
      BY <1>0, <2>1 DEF GoodCopy, Copy
    <2> QED
      BY <2>2, <2>3
  <1>3. ASSUME NEW target \in Order, NEW source \in Order, LoadOrders(t, target, source)
        PROVE  \E copy : GoodCopy(copy) /\ held' = [held EXCEPT ![t] = copy]
    <2> DEFINE copy == [target |-> target, source |-> source,
                        status |-> status[target], sourceStatus |-> status[source]]
    <2>1. copy \in MergeCopy /\ Exists(copy.target)
      BY <1>3 DEF LoadOrders, MergeCopy, TypeOK, Exists
    <2>2. held' = [held EXCEPT ![t] = copy]
      BY <1>3 DEF LoadOrders, Hold
    <2> HIDE DEF copy
    <2>3. GoodCopy(copy)
      BY <1>0, <2>1 DEF GoodCopy, Copy
    <2> QED
      BY <2>2, <2>3
  <1>4. ASSUME NEW k \in Ticket, LoadTicket(t, k)
        PROVE  \E copy : GoodCopy(copy) /\ held' = [held EXCEPT ![t] = copy]
    <2> DEFINE copy == [ticket |-> k, tstatus |-> tstatus[k],
                        order |-> torder[k], status |-> status[torder[k]]]
    <2>1. copy \in TicketCopy /\ tstatus[copy.ticket] # "none"
      BY <1>4 DEF LoadTicket, TicketCopy, TypeOK, ReferencesInv, Exists
    <2>2. held' = [held EXCEPT ![t] = copy]
      BY <1>4 DEF LoadTicket, Hold
    <2> HIDE DEF copy
    <2>3. GoodCopy(copy)
      BY <1>0, <2>1 DEF GoodCopy, Copy
    <2> QED
      BY <2>2, <2>3
  <1> QED
    BY <1>1, <1>2, <1>3, <1>4

LEMMA RaceHeld ==
    ASSUME RaceInv, ReferencesInv, HeldInv, [RaceNext]_raceVars
    PROVE  HeldInv'
  <1>0. TypeOK
    BY DEF RaceInv, KitchenInv
  <1>1. NothingDisappears
    BY RaceReferences
  <1>2. ASSUME NEW CONSTANT c, GoodCopy(c)
        PROVE  GoodCopy(c)'
    BY <1>1, <1>2 DEF GoodCopy, NothingDisappears, OrderCopy, MergeCopy, TicketCopy, Exists
  <1>3. \A t \in Terminal : GoodCopy(held[t])
    BY DEF HeldInv, GoodCopy
  <1>4. ASSUME NEW t \in Terminal, NEW CONSTANT c, GoodCopy(c),
               held' = [held EXCEPT ![t] = c]
        PROVE  HeldInv'
    <2>1. held' \in [Terminal -> Copy \cup {Nothing}]
      BY <1>4 DEF HeldInv, GoodCopy
    <2>2. \A u \in Terminal : held'[u] = c \/ held'[u] = held[u]
      BY <1>4 DEF HeldInv
    <2> QED
      BY <1>2, <1>3, <1>4, <2>1, <2>2 DEF HeldInv, GoodCopy
  <1>5. CASE held' = held
    BY <1>2, <1>3, <1>5 DEF HeldInv, GoodCopy
  <1>6. \/ held' = held
        \/ \E t \in Terminal : held' = [held EXCEPT ![t] = Nothing]
        \/ \E t \in Terminal :
              \/ \E o \in Order : LoadOrder(t, o)
              \/ \E i \in Item : LoadItem(t, i)
              \/ \E target, source \in Order : LoadOrders(t, target, source)
              \/ \E k \in Ticket : LoadTicket(t, k)
    BY DEF RaceNext, raceVars, RunOrderService, RunRefund, RunMerge,
       RunKitchenService, Refuse, Release
  <1> QED
    BY <1>0, <1>4, <1>5, <1>6, NothingIsGood, LoadedIsGood

(* Whatever requests overlap, a terminal holds nothing or a well-formed copy
   of rows that are still there, and the database keeps its types. *)
THEOREM RaceTypeCorrect == RaceSpec => []RaceTypeOK
  <1> DEFINE Inv == RaceInv /\ ReferencesInv /\ HeldInv
  <1>1. RaceInit => Inv
    <2> SUFFICES ASSUME RaceInit PROVE Inv
      OBVIOUS
    <2>1. RaceInv
      BY InitKitchen DEF RaceInit, RaceInv, SentInv, KitchenInv, Init
    <2>2. ReferencesInv
      BY DEF RaceInit, Init, ReferencesInv
    <2>3. HeldInv
      BY NothingAssumption DEF RaceInit, HeldInv, Copy
    <2> QED
      BY <2>1, <2>2, <2>3
  <1>2. Inv /\ [RaceNext]_raceVars => Inv'
    BY RaceKitchen, RaceSent, RaceReferences, RaceHeld DEF RaceInv, KitchenInv
  <1>3. Inv => RaceTypeOK
    BY DEF RaceInv, KitchenInv, HeldInv, RaceTypeOK
  <1> QED
    BY <1>1, <1>2, <1>3, PTL DEF RaceSpec
=============================================================================
