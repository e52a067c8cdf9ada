---------------------------- MODULE Floor_proofs ----------------------------
(***************************************************************************)
(* Theorems about Floor, for any numbers of orders, tables, waiters and    *)
(* hosts: no table is taken from those who stay at it, and only a request  *)
(* that works on a late copy brings two parties together or seats somebody *)
(* at a table out of use.                                                  *)
(***************************************************************************)
EXTENDS Floor, TLAPS

(* The types of what the orders say. *)
OrdersTyped ==
    /\ status \in [Order -> {"none", "OPEN", "PAID", "CANCELLED"}]
    /\ otable \in [Order -> Table \cup {NoTable}]
    /\ party \in [Order -> Order \cup {NoOrder}]

(* The types of what the floor views save, and have still to save. *)
FloorTyped ==
    /\ tstatus \in [Table -> TableStatus]
    /\ mergedInto \in [Table -> Table \cup {NoTable}]
    /\ job \in [Host -> StatusJob \cup MergeJob \cup {Idle}]

HeldTyped == held \in [Waiter -> Copy \cup {Nothing}]

-----------------------------------------------------------------------------
(* The services, on copies loaded at any time.  Most of what is proved of a step
   holds whatever was loaded. *)

(* Opening, closing, cancelling, merging and transferring. *)
OnAnyCopy ==
    \/ \E new \in Order : OpenTakeaway(new)
    \/ \E new \in Order, u \in TableCopy : OpenOrder(new, u)
    \/ \E c \in OrderCopy : CloseOrder(c) \/ CancelOrder(c)
    \/ \E c, d \in OrderCopy : MergeOrders(c, d)
    \/ \E c \in OrderCopy, u \in TableCopy : TransferOrder(c, u)

(* The two services that write what they loaded of the order's status. *)
OnOrder(c) == SaveProgress(c) \/ \E new \in Order : SplitOrder(new, c)

(* The rows as they are have the types of copies. *)
LEMMA RowsAreCopies ==
    /\ OrdersTyped => \A o \in Order : Exists(o) => OrderRow(o) \in OrderCopy
    /\ FloorTyped => \A t \in Table : TableRow(t) \in TableCopy
  BY DEF OrdersTyped, FloorTyped, Exists, OrderRow, TableRow, OrderCopy, TableCopy

(* The steps of hosts and of table_unmerge leave the orders alone. *)
LEMMA HostsLeaveOrders ==
    ASSUME \/ \E h \in Host : HostStep(h)
           \/ \E main \in Table : TableUnmerge(main)
    PROVE  UNCHANGED orderVars
  BY DEF HostStep, TableUnmerge, SetStatus, ReservationCreate, ReservationSeated,
         ReservationReleased, SaveStatus, TableMerge, MergeCheck, MergeSave

(* A request without a pause works on the rows as they are. *)
LEMMA AloneServes ==
    ASSUME OrdersTyped, FloorTyped, NEW o \in Order, OrderRequest(o)
    PROVE  OnAnyCopy \/ \E p \in Order : Exists(p) /\ OnOrder(OrderRow(p))
  BY RowsAreCopies DEF OrderRequest, OnAnyCopy, OnOrder

(* A step of a waiter is a service on what it holds, which it then lets go, or
   leaves orders and tables alone. *)
LEMMA WaiterServes ==
    ASSUME NEW w \in Waiter, WaiterStep(w)
    PROVE  \/ OnAnyCopy
           \/ held[w] \in OrderCopy /\ OnOrder(held[w]) /\ Release(w)
           \/ UNCHANGED <<orderVars, tableVars, job>>
  <1>1. CASE \E o \in Order : LoadOrder(w, o) \/ LoadSource(w, o)
    BY <1>1 DEF LoadOrder, LoadSource, Hold
  <1>2. CASE \E t \in Table : LoadTable(w, t) \/ LoadDestination(w, t)
    BY <1>2 DEF LoadTable, LoadDestination, Hold
  <1>3. CASE RunOrderService(w)
    BY <1>3 DEF RunOrderService, OnAnyCopy, OnOrder
  <1>4. CASE RunOpen(w)
    BY <1>4 DEF RunOpen, OnAnyCopy
  <1>5. CASE RunMerge(w)
    BY <1>5 DEF RunMerge, MergeCopy, OnAnyCopy
  <1>6. CASE RunMove(w)
    BY <1>6 DEF RunMove, MoveCopy, OnAnyCopy
  <1>7. CASE Refuse(w)
    BY <1>7 DEF Refuse
  <1> QED
    BY <1>1, <1>2, <1>3, <1>4, <1>5, <1>6, <1>7 DEF WaiterStep

(* Every step is a service, on what is in the database or on what a waiter
   holds, or one that leaves the orders alone. *)
LEMMA StepsServe ==
    ASSUME OrdersTyped, FloorTyped, [Next]_vars
    PROVE  \/ OnAnyCopy
           \/ \E p \in Order : Exists(p) /\ OnOrder(OrderRow(p))
           \/ \E w \in Waiter : held[w] \in OrderCopy /\ OnOrder(held[w]) /\ Release(w)
           \/ UNCHANGED orderVars
  <1>1. ASSUME NEW w \in Waiter, WaiterStep(w)
        PROVE  \/ OnAnyCopy
               \/ held[w] \in OrderCopy /\ OnOrder(held[w]) /\ Release(w)
               \/ UNCHANGED orderVars
    BY <1>1, WaiterServes
  <1>2. UNCHANGED vars => UNCHANGED orderVars
    BY DEF vars
  <1> QED
    BY <1>1, <1>2, AloneServes, HostsLeaveOrders DEF Next

-----------------------------------------------------------------------------
(* Types *)

LEMMA AnyCopyTyped ==
    ASSUME OrdersTyped, FloorTyped, OnAnyCopy
    PROVE  OrdersTyped' /\ FloorTyped'
  <1> USE DEF OrdersTyped, FloorTyped, TableStatus
  <1>1. ASSUME NEW new \in Order, OpenTakeaway(new)
        PROVE  OrdersTyped' /\ FloorTyped'
    BY <1>1 DEF OpenTakeaway, Create, tableVars
  <1>2. ASSUME NEW new \in Order, NEW u \in TableCopy, OpenOrder(new, u)
        PROVE  OrdersTyped' /\ FloorTyped'
    BY <1>2 DEF OpenOrder, Create, Mark, TableCopy
  <1>3. ASSUME NEW c \in OrderCopy, CloseOrder(c) \/ CancelOrder(c)
        PROVE  OrdersTyped' /\ FloorTyped'
    BY <1>3 DEF CloseOrder, CancelOrder, Mark, OrderCopy
  <1>4. ASSUME NEW c \in OrderCopy, NEW d \in OrderCopy, MergeOrders(c, d)
        PROVE  OrdersTyped' /\ FloorTyped'
    BY <1>4 DEF MergeOrders, Mark, OrderCopy
  <1>5. ASSUME NEW c \in OrderCopy, NEW u \in TableCopy, TransferOrder(c, u)
        PROVE  OrdersTyped' /\ FloorTyped'
    BY <1>5 DEF TransferOrder, OrderCopy, TableCopy
  <1> QED
    BY <1>1, <1>2, <1>3, <1>4, <1>5 DEF OnAnyCopy

LEMMA OnOrderTyped ==
    ASSUME OrdersTyped, FloorTyped, NEW c \in OrderCopy, OnOrder(c)
    PROVE  OrdersTyped' /\ FloorTyped'
  BY DEF OrdersTyped, FloorTyped, OnOrder, SaveProgress, SplitOrder, Create,
         tableVars, OrderCopy

LEMMA HostsTyped ==
    ASSUME FloorTyped, NEW h \in Host, HostStep(h)
    PROVE  FloorTyped'
  <1> USE DEF FloorTyped
  <1>1. ASSUME NEW T \in SUBSET Table, NEW st \in TableStatus, Start(h, StatusTask(T, st))
        PROVE  job' \in [Host -> StatusJob \cup MergeJob \cup {Idle}]
    <2>1. StatusTask(T, st) \in StatusJob
      BY <1>1 DEF Start, StatusTask, StatusJob, Tables
    <2> QED
      BY <1>1, <2>1 DEF Start
  <1>2. CASE \E t \in Table, new \in TableStatus : SetStatus(h, t, new)
    BY <1>1, <1>2 DEF SetStatus
  <1>3. CASE \E T \in SUBSET Table :
                ReservationCreate(h, T) \/ ReservationSeated(h, T) \/ ReservationReleased(h, T)
    BY <1>1, <1>3 DEF ReservationCreate, ReservationSeated, ReservationReleased, TableStatus
  <1>4. CASE SaveStatus(h)
    <2>1. PICK t \in job[h].todo :
              /\ tstatus' = [tstatus EXCEPT ![t] = job[h].to]
              /\ Continue(h, [job[h] EXCEPT !.todo = @ \ {t}])
      BY <1>4 DEF SaveStatus
    <2> DEFINE rest == [job[h] EXCEPT !.todo = @ \ {t}]
    <2>2. job[h] \in StatusJob /\ mergedInto' = mergedInto
      BY <1>4 DEF SaveStatus
    <2>3. tstatus' \in [Table -> TableStatus]
      BY <2>1, <2>2 DEF StatusJob
    <2>4. rest.todo # {} => rest \in StatusJob
      BY <2>2 DEF StatusJob, Tables
    <2> QED
      BY <2>1, <2>2, <2>3, <2>4 DEF Continue
  <1>5. CASE \E main \in Table, children \in SUBSET Table : TableMerge(h, main, children)
    BY <1>5 DEF TableMerge, Start, MergeJob, Tables
  <1>6. CASE MergeCheck(h)
    <2>1. PICK t \in job[h].todo :
              job' = [job EXCEPT ![h] = IF OpenAt(t) = {} THEN [@ EXCEPT !.cleared = t]
                                        ELSE Idle]
      BY <1>6 DEF MergeCheck
    <2>2. job[h] \in MergeJob /\ UNCHANGED <<tstatus, mergedInto>>
      BY <1>6 DEF MergeCheck
    <2>3. [job[h] EXCEPT !.cleared = t] \in MergeJob
      BY <2>2 DEF MergeJob, Tables
    <2> QED
      BY <2>1, <2>2, <2>3
  <1>7. CASE MergeSave(h)
    <2> DEFINE t == job[h].cleared
               rest == [job[h] EXCEPT !.todo = @ \ {t}, !.cleared = NoTable]
    <2>1. /\ job[h] \in MergeJob
          /\ t # NoTable
          /\ mergedInto' = [mergedInto EXCEPT ![t] = job[h].main]
          /\ tstatus' = [tstatus EXCEPT ![t] = "OCCUPIED"]
          /\ Continue(h, rest)
      BY <1>7 DEF MergeSave
    <2>2. tstatus' \in [Table -> TableStatus] /\ mergedInto' \in [Table -> Table \cup {NoTable}]
      BY <2>1 DEF MergeJob, TableStatus
    <2>3. rest.todo # {} => rest \in MergeJob
      BY <2>1 DEF MergeJob, Tables
    <2> QED
      BY <2>1, <2>2, <2>3 DEF Continue
  <1> QED
    BY <1>2, <1>3, <1>4, <1>5, <1>6, <1>7 DEF HostStep

(* What a waiter loads has the type of a copy. *)
LEMMA HeldTypedStep ==
    ASSUME OrdersTyped, FloorTyped, HeldTyped, [Next]_vars
    PROVE  HeldTyped'
  <1> USE DEF HeldTyped
  <1>1. ASSUME NEW w \in Waiter, NEW copy \in Copy \cup {Nothing},
               held' = [held EXCEPT ![w] = copy]
        PROVE  HeldTyped'
    BY <1>1
  <1>2. ASSUME NEW w \in Waiter, WaiterStep(w)
        PROVE  HeldTyped'
    <2>1. ASSUME NEW o \in Order, LoadOrder(w, o) \/ LoadSource(w, o)
          PROVE  HeldTyped'
      <3>1. OrderRow(o) \in OrderCopy
        BY <2>1, RowsAreCopies DEF LoadOrder, LoadSource
      <3>2. CASE LoadOrder(w, o)
        BY <1>1, <3>1, <3>2 DEF LoadOrder, Hold, Copy
      <3>3. CASE LoadSource(w, o)
        <4>1. [target |-> held[w], source |-> OrderRow(o)] \in Copy
          BY <3>1, <3>3 DEF LoadSource, MergeCopy, Copy
        <4> QED
          BY <1>1, <3>3, <4>1 DEF LoadSource, Hold
      <3> QED
        BY <2>1, <3>2, <3>3
    <2>2. ASSUME NEW t \in Table, LoadTable(w, t) \/ LoadDestination(w, t)
          PROVE  HeldTyped'
      <3>1. TableRow(t) \in TableCopy
        BY RowsAreCopies
      <3>2. CASE LoadTable(w, t)
        BY <1>1, <3>1, <3>2 DEF LoadTable, Hold, Copy
      <3>3. CASE LoadDestination(w, t)
        <4>1. [moved |-> held[w], to |-> TableRow(t)] \in Copy
          BY <3>1, <3>3 DEF LoadDestination, MoveCopy, Copy
        <4> QED
          BY <1>1, <3>3, <4>1 DEF LoadDestination, Hold
      <3> QED
        BY <2>2, <3>2, <3>3
    <2>3. CASE Release(w)
      BY <1>1, <2>3 DEF Release
    <2> QED
      BY <1>2, <2>1, <2>2, <2>3
      DEF WaiterStep, RunOrderService, RunOpen, RunMerge, RunMove, Refuse
  <1>3. UNCHANGED held => HeldTyped'
    OBVIOUS
  <1>4. UNCHANGED vars => UNCHANGED held
    BY DEF vars
  <1> HIDE DEF HeldTyped
  <1> QED
    BY <1>2, <1>3, <1>4 DEF Next

LEMMA TypedStep ==
    ASSUME OrdersTyped, FloorTyped, [Next]_vars
    PROVE  OrdersTyped' /\ FloorTyped'
  <1>1. ASSUME UNCHANGED orderVars
        PROVE  OrdersTyped'
    BY <1>1 DEF OrdersTyped, orderVars
  <1>2. ASSUME UNCHANGED <<orderVars, tableVars, job>>
        PROVE  OrdersTyped' /\ FloorTyped'
    BY <1>1, <1>2 DEF FloorTyped, tableVars
  <1>3. ASSUME NEW o \in Order, OrderRequest(o)
        PROVE  OrdersTyped' /\ FloorTyped'
    BY <1>3, AloneServes, RowsAreCopies, AnyCopyTyped, OnOrderTyped
  <1>4. ASSUME NEW w \in Waiter, WaiterStep(w)
        PROVE  OrdersTyped' /\ FloorTyped'
    BY <1>2, <1>4, WaiterServes, AnyCopyTyped, OnOrderTyped
  <1>5. ASSUME NEW h \in Host, HostStep(h)
        PROVE  OrdersTyped' /\ FloorTyped'
    BY <1>1, <1>5, HostsLeaveOrders, HostsTyped
  <1>6. ASSUME NEW main \in Table, TableUnmerge(main)
        PROVE  OrdersTyped' /\ FloorTyped'
    <2>1. FloorTyped'
      BY <1>6 DEF FloorTyped, TableUnmerge, TableStatus
    <2> QED
      BY <1>1, <1>6, <2>1, HostsLeaveOrders
  <1>7. UNCHANGED vars => UNCHANGED <<orderVars, tableVars, job>>
    BY DEF vars
  <1> QED
    BY <1>2, <1>3, <1>4, <1>5, <1>6, <1>7 DEF Next

LEMMA Typed == Spec => [](OrdersTyped /\ FloorTyped /\ HeldTyped)
  <1>1. Init => OrdersTyped /\ FloorTyped /\ HeldTyped
    BY DEF Init, OrdersTyped, FloorTyped, HeldTyped, TableStatus
  <1>2. OrdersTyped /\ FloorTyped /\ HeldTyped /\ [Next]_vars
            => (OrdersTyped /\ FloorTyped /\ HeldTyped)'
    BY TypedStep, HeldTypedStep
  <1> QED
    BY <1>1, <1>2, PTL DEF Spec

(* Orders, tables, the hosts' jobs and what the waiters hold keep their types; a
   job always has something left to save. *)
THEOREM FloorTypeCorrect == Spec => []TypeOK
  <1>1. OrdersTyped /\ FloorTyped /\ HeldTyped => TypeOK
    BY DEF OrdersTyped, FloorTyped, HeldTyped, TypeOK
  <1> QED
    BY <1>1, Typed, PTL

-----------------------------------------------------------------------------
(* What a step may do to a table that others have *)

Kept == \A o \in Order, t \in Table :
            /\ OpenAt(t) \ {o} # {}
            /\ \/ status[o] # "PAID" /\ status'[o] = "PAID"
               \/ otable'[o] # otable[o]
            => tstatus'[t] = tstatus[t]

LEMMA AnyCopyKeeps ==
    ASSUME OrdersTyped, FloorTyped, OnAnyCopy
    PROVE  Kept
  <1> USE DEF OrdersTyped, FloorTyped, Kept
  <1>1. ASSUME NEW new \in Order, OpenTakeaway(new)
        PROVE  Kept
    BY <1>1 DEF OpenTakeaway, tableVars
  <1>2. ASSUME NEW new \in Order, NEW u \in TableCopy, OpenOrder(new, u)
        PROVE  Kept
    BY <1>2 DEF OpenOrder, Mark
  <1>3. ASSUME NEW c \in OrderCopy, CloseOrder(c)
        PROVE  Kept
    <2>1. /\ status' = [status EXCEPT ![c.order] = "PAID"]
          /\ otable' = otable
          /\ \/ tstatus' = tstatus
             \/ OpenAt(c.table) \subseteq {c.order} /\ Mark(c.table, "CLEANING")
      BY <1>3 DEF CloseOrder
    <2>2. \A t \in Table : OpenAt(t) \ {c.order} # {} => tstatus'[t] = tstatus[t]
      BY <2>1 DEF Mark
    <2>3. \A o \in Order : \/ status[o] # "PAID" /\ status'[o] = "PAID"
                           \/ otable'[o] # otable[o]
                           => o = c.order
      BY <2>1
    <2> QED
      BY <2>2, <2>3
  <1>4. ASSUME NEW c \in OrderCopy, CancelOrder(c)
        PROVE  Kept
    BY <1>4 DEF CancelOrder
  <1>5. ASSUME NEW c \in OrderCopy, NEW d \in OrderCopy, MergeOrders(c, d)
        PROVE  Kept
    BY <1>5 DEF MergeOrders
  <1>6. ASSUME NEW c \in OrderCopy, NEW u \in TableCopy, TransferOrder(c, u)
        PROVE  Kept
    <2>1. /\ otable' = [otable EXCEPT ![c.order] = u.table]
          /\ status' = status
          /\ OpenAt(u.table) = {} \/ c.order \in OpenAt(u.table)
      BY <1>6 DEF TransferOrder, CanMoveTo
    <2>2. \A t \in Table : t # u.table /\ OpenAt(t) \ {c.order} # {}
                               => tstatus'[t] = tstatus[t]
      BY <1>6 DEF TransferOrder
    <2>3. \A o \in Order : otable'[o] # otable[o] => o = c.order
      BY <2>1
    <2>4. c.order \in OpenAt(u.table) => otable'[c.order] = otable[c.order]
      BY <2>1 DEF OpenAt
    <2> QED
      BY <2>1, <2>2, <2>3, <2>4
  <1> QED
    BY <1>1, <1>2, <1>3, <1>4, <1>5, <1>6 DEF OnAnyCopy

(* Paying, seating or moving an order leaves the tables of others as they are, on
   whatever copies: close_order, open_order and transfer_order_to_table look
   for the others in their transaction. *)
THEOREM TableIsKept == Spec => TableKeptForTheRest
  <1>1. ASSUME OrdersTyped, FloorTyped, [Next]_vars
        PROVE  Kept
    <2>1. ASSUME NEW c, OnOrder(c)
          PROVE  Kept
      BY <1>1, <2>1 DEF OnOrder, SaveProgress, SplitOrder, tableVars, Kept
    <2>2. UNCHANGED orderVars => Kept
      BY DEF orderVars, Kept
    <2> QED
      BY <1>1, <2>1, <2>2, StepsServe, AnyCopyKeeps
  <1>2. OrdersTyped /\ FloorTyped /\ [Next]_vars =>
            [\A o \in Order, t \in Table :
                /\ OpenAt(t) \ {o} # {}
                /\ \/ status[o] # "PAID" /\ status'[o] = "PAID"
                   \/ otable'[o] # otable[o]
                => tstatus'[t] = tstatus[t]]_vars
    BY <1>1 DEF Kept
  <1> QED
    BY <1>2, Typed, PTL DEF Spec, TableKeptForTheRest

-----------------------------------------------------------------------------
(* Two parties at one table *)

(* Whoever opens, transfers or merges, on whatever copies, finds the table empty
   or with its own order there. *)
LEMMA AnyCopyOneParty ==
    ASSUME OrdersTyped, OnAnyCopy, NEW t \in Table, OneParty(t)
    PROVE  OneParty(t)'
  <1> USE DEF OrdersTyped, OneParty, OpenAt
  <1>1. ASSUME NEW new \in Order, OpenTakeaway(new)
        PROVE  OneParty(t)'
    BY <1>1, NullsAssumption DEF OpenTakeaway, Create
  <1>2. ASSUME NEW new \in Order, NEW u \in TableCopy, OpenOrder(new, u)
        PROVE  OneParty(t)'
    BY <1>2 DEF OpenOrder, Create
  <1>3. ASSUME NEW c \in OrderCopy, CloseOrder(c) \/ CancelOrder(c)
        PROVE  OneParty(t)'
    BY <1>3 DEF CloseOrder, CancelOrder, OrderCopy
  <1>4. ASSUME NEW c \in OrderCopy, NEW d \in OrderCopy, MergeOrders(c, d)
        PROVE  OneParty(t)'
    BY <1>4 DEF MergeOrders, OrderCopy
  <1>5. ASSUME NEW c \in OrderCopy, NEW u \in TableCopy, TransferOrder(c, u)
        PROVE  OneParty(t)'
    <2>1. /\ otable' = [otable EXCEPT ![c.order] = u.table]
          /\ UNCHANGED <<status, party>>
          /\ OpenAt(u.table) = {} \/ c.order \in OpenAt(u.table)
      BY <1>5 DEF TransferOrder, CanMoveTo
    <2> QED
      BY <2>1
  <1> QED
    BY <1>1, <1>2, <1>3, <1>4, <1>5 DEF OnAnyCopy

(* A split or a status saved on the order as it is adds nobody else. *)
LEMMA CurrentOneParty ==
    ASSUME OrdersTyped, NEW p \in Order, Exists(p), OnOrder(OrderRow(p)),
           NEW t \in Table, OneParty(t)
    PROVE  OneParty(t)'
  <1> USE DEF OrdersTyped, OneParty, OpenAt, OrderRow
  <1>1. CASE SaveProgress(OrderRow(p))
    <2>1. UNCHANGED <<status, otable, party>>
      BY <1>1 DEF SaveProgress
    <2> QED
      BY <2>1
  <1>2. ASSUME NEW new \in Order, SplitOrder(new, OrderRow(p))
        PROVE  OneParty(t)'
    <2>1. /\ status' = [status EXCEPT ![new] = status[p]]
          /\ otable' = [otable EXCEPT ![new] = otable[p]]
          /\ party' = [party EXCEPT ![new] = party[p]]
          /\ new # p
      BY <1>2 DEF SplitOrder, Create, Exists
    <2> QED
      BY <2>1
  <1> QED
    BY <1>1, <1>2 DEF OnOrder

Meet == \A t \in Table : OneParty(t) /\ ~OneParty(t)'
            => \E w \in Waiter : LateForOrder(w) /\ held'[w] = Nothing

(* Two parties meet at a table only by a split, or a status saved, on a late copy
   of an order. *)
THEOREM MeetingsAreLate == Spec => PartiesMeetOnlyLate
  <1>1. ASSUME OrdersTyped, FloorTyped, HeldTyped, [Next]_vars
        PROVE  Meet
    <2> SUFFICES ASSUME NEW t \in Table, OneParty(t), ~OneParty(t)'
                 PROVE  \E w \in Waiter : LateForOrder(w) /\ held'[w] = Nothing
      BY DEF Meet
    <2>1. ~OnAnyCopy
      BY <1>1, AnyCopyOneParty
    <2>2. \A p \in Order : ~(Exists(p) /\ OnOrder(OrderRow(p)))
      BY <1>1, CurrentOneParty
    <2>3. ~UNCHANGED orderVars
      BY DEF orderVars, OneParty, OpenAt
    <2>4. PICK w \in Waiter : held[w] \in OrderCopy /\ OnOrder(held[w]) /\ Release(w)
      BY <1>1, <2>1, <2>2, <2>3, StepsServe
    <2>5. held'[w] = Nothing
      BY <1>1, <2>4 DEF HeldTyped, Release
    <2>6. held[w].order \in Order
      BY <2>4 DEF OrderCopy
    <2>7. ASSUME held[w] = OrderRow(held[w].order)
          PROVE  Exists(held[w].order)
      BY <2>4, <2>7 DEF OrderCopy, OrderRow, Exists
    <2>8. held[w] # OrderRow(held[w].order)
      BY <2>2, <2>4, <2>6, <2>7
    <2> QED
      BY <2>4, <2>5, <2>8 DEF LateForOrder
  <1>2. OrdersTyped /\ FloorTyped /\ HeldTyped /\ [Next]_vars =>
            [\A t \in Table : OneParty(t) /\ ~OneParty(t)'
                => \E w \in Waiter : LateForOrder(w) /\ held'[w] = Nothing]_vars
    BY <1>1 DEF Meet
  <1> QED
    BY <1>2, Typed, PTL DEF Spec, PartiesMeetOnlyLate

(* As long as no waiter splits or saves an order on a late copy, the open orders of
   a table are of one party. *)
THEOREM OneParty_UnlessLate ==
    Spec /\ [](\A w \in Waiter : ~LateForOrder(w)) => []OnePartyPerTable
  <1>1. Init => OnePartyPerTable
    BY DEF Init, OnePartyPerTable, OneParty, OpenAt
  <1>2. OnePartyPerTable /\ (\A w \in Waiter : ~LateForOrder(w))
        /\ [\A t \in Table : OneParty(t) /\ ~OneParty(t)'
              => \E w \in Waiter : LateForOrder(w) /\ held'[w] = Nothing]_vars
            => OnePartyPerTable'
    <2>1. UNCHANGED vars => \A t \in Table : OneParty(t)' <=> OneParty(t)
      BY DEF vars, orderVars, OneParty, OpenAt
    <2> QED
      BY <2>1 DEF OnePartyPerTable
  <1> QED
    BY <1>1, <1>2, MeetingsAreLate, PTL DEF Spec, PartiesMeetOnlyLate

-----------------------------------------------------------------------------
(* Tables out of use *)

Seated(t) == OpenAt(t) = {} /\ OpenAt(t)' # {}

(* Opening and transferring seat somebody only at a table whose copy they found
   in use; closing, cancelling and merging seat nobody. *)
LEMMA AnyCopySeats ==
    ASSUME OrdersTyped, NEW t \in Table, Seated(t),
           \/ \E new \in Order : OpenTakeaway(new)
           \/ \E c \in OrderCopy : CloseOrder(c) \/ CancelOrder(c)
           \/ \E c, d \in OrderCopy : MergeOrders(c, d)
    PROVE  FALSE
  <1> USE DEF OrdersTyped, Seated, OpenAt
  <1>1. ASSUME NEW new \in Order, OpenTakeaway(new)
        PROVE  FALSE
    BY <1>1, NullsAssumption DEF OpenTakeaway, Create
  <1>2. ASSUME NEW c \in OrderCopy, CloseOrder(c) \/ CancelOrder(c)
        PROVE  FALSE
    BY <1>2 DEF CloseOrder, CancelOrder, OrderCopy
  <1>3. ASSUME NEW c \in OrderCopy, NEW d \in OrderCopy, MergeOrders(c, d)
        PROVE  FALSE
    BY <1>3 DEF MergeOrders, OrderCopy
  <1> QED
    BY <1>1, <1>2, <1>3

LEMMA SeatedInUse ==
    ASSUME OrdersTyped, NEW t \in Table, Seated(t), NEW u,
           \/ \E new \in Order : OpenOrder(new, u)
           \/ \E c \in OrderCopy : TransferOrder(c, u)
    PROVE  u.table = t /\ u.tstatus # "DISABLED"
  <1> USE DEF OrdersTyped, Seated, OpenAt
  <1>1. ASSUME NEW new \in Order, OpenOrder(new, u)
        PROVE  u.table = t /\ u.tstatus # "DISABLED"
    BY <1>1 DEF OpenOrder, Create
  <1>2. ASSUME NEW c \in OrderCopy, TransferOrder(c, u)
        PROVE  u.table = t /\ u.tstatus # "DISABLED"
    BY <1>2 DEF TransferOrder, CanMoveTo, OrderCopy
  <1> QED
    BY <1>1, <1>2

LEMMA CurrentSeats ==
    ASSUME OrdersTyped, NEW p \in Order, Exists(p), OnOrder(OrderRow(p)),
           NEW t \in Table, Seated(t)
    PROVE  FALSE
  <1> USE DEF OrdersTyped, Seated, OpenAt, OrderRow
  <1>1. CASE SaveProgress(OrderRow(p))
    <2>1. UNCHANGED <<status, otable>>
      BY <1>1 DEF SaveProgress
    <2> QED
      BY <2>1
  <1>2. ASSUME NEW new \in Order, SplitOrder(new, OrderRow(p))
        PROVE  FALSE
    <2>1. /\ status' = [status EXCEPT ![new] = status[p]]
          /\ otable' = [otable EXCEPT ![new] = otable[p]]
      BY <1>2 DEF SplitOrder, Create
    <2> QED
      BY <2>1
  <1> QED
    BY <1>1, <1>2 DEF OnOrder

(* Late seating, with or without a waiter's copy. *)
LateSeating(t) == \E w \in Waiter : /\ LateForTable(w, t) \/ LateForOrder(w)
                                    /\ held'[w] = Nothing

LEMMA WaiterSeats ==
    ASSUME OrdersTyped, FloorTyped, HeldTyped, NEW w \in Waiter, WaiterStep(w),
           NEW t \in Table, Seated(t), tstatus[t] = "DISABLED"
    PROVE  LateSeating(t)
  <1> USE DEF Seated
  <1>1. ~UNCHANGED orderVars
    BY DEF orderVars, OpenAt
  <1>2. Release(w) => held'[w] = Nothing
    BY DEF HeldTyped, Release
  <1>3. CASE RunOrderService(w)
    <2>1. held[w] \in OrderCopy /\ Release(w)
      BY <1>3 DEF RunOrderService
    <2>2. OnOrder(held[w])
      BY <1>3, <2>1, AnyCopySeats DEF RunOrderService, OnOrder
    <2>3. held[w].order \in Order
      BY <2>1 DEF OrderCopy
    <2>4. ASSUME held[w] = OrderRow(held[w].order)
          PROVE  Exists(held[w].order)
      BY <2>1, <2>4 DEF OrderCopy, OrderRow, Exists
    <2>5. held[w] # OrderRow(held[w].order)
      BY <2>2, <2>3, <2>4, CurrentSeats
    <2> QED
      BY <1>2, <2>1, <2>5 DEF LateSeating, LateForOrder
  <1>4. CASE RunOpen(w)
    <2>1. held[w] \in TableCopy /\ Release(w) /\ \E o \in Order : OpenOrder(o, held[w])
      BY <1>4 DEF RunOpen
    <2>2. held[w].table = t /\ held[w].tstatus # "DISABLED"
      BY <2>1, SeatedInUse
    <2>3. held[w] # TableRow(t)
      BY <2>2 DEF TableRow
    <2> QED
      BY <1>2, <2>1, <2>2, <2>3 DEF LateSeating, LateForTable
  <1>5. CASE RunMove(w)
    <2>1. /\ held[w] \in MoveCopy /\ Release(w)
          /\ TransferOrder(held[w].moved, held[w].to)
      BY <1>5 DEF RunMove
    <2>2. held[w].moved \in OrderCopy
      BY <2>1 DEF MoveCopy
    <2>3. held[w].to.table = t /\ held[w].to.tstatus # "DISABLED"
      BY <2>1, <2>2, SeatedInUse
    <2>4. held[w].to # TableRow(t)
      BY <2>3 DEF TableRow
    <2> QED
      BY <1>2, <2>1, <2>3, <2>4 DEF LateSeating, LateForTable
  <1>6. CASE RunMerge(w)
    BY <1>6, AnyCopySeats DEF RunMerge, MergeCopy
  <1> QED
    BY <1>1, <1>3, <1>4, <1>5, <1>6
    DEF WaiterStep, LoadOrder, LoadSource, LoadTable, LoadDestination, Hold, Refuse

LEMMA AloneSeats ==
    ASSUME OrdersTyped, FloorTyped, NEW o \in Order, OrderRequest(o),
           NEW t \in Table, Seated(t)
    PROVE  tstatus[t] # "DISABLED"
  <1>1. ASSUME NEW x \in Table,
               OpenOrder(o, TableRow(x)) \/ (Exists(o) /\ TransferOrder(OrderRow(o), TableRow(x)))
        PROVE  tstatus[t] # "DISABLED"
    <2>1. TableRow(x).table = t /\ TableRow(x).tstatus # "DISABLED"
      BY <1>1, SeatedInUse, RowsAreCopies
    <2> QED
      BY <2>1 DEF TableRow
  <1>2. ~ \E new \in Order : Exists(o) /\ SplitOrder(new, OrderRow(o))
    BY CurrentSeats DEF OnOrder
  <1> QED
    BY <1>1, <1>2, AnyCopySeats, RowsAreCopies DEF OrderRequest

(* Somebody is seated at a table out of use only by a request that loaded the
   table before it was disabled, or its order before that changed. *)
THEOREM DisabledSeatingIsLate == Spec => DisabledSeatedOnlyLate
  <1>1. ASSUME OrdersTyped, FloorTyped, HeldTyped, [Next]_vars,
               NEW t \in Table, tstatus[t] = "DISABLED", Seated(t)
        PROVE  LateSeating(t)
    <2>1. ~UNCHANGED orderVars
      BY <1>1 DEF orderVars, Seated, OpenAt
    <2>2. ~UNCHANGED vars
      BY <2>1 DEF vars
    <2> QED
      BY <1>1, <2>1, <2>2, AloneSeats, WaiterSeats, HostsLeaveOrders DEF Next
  <1>2. OrdersTyped /\ FloorTyped /\ HeldTyped /\ [Next]_vars =>
            [\A t \in Table : tstatus[t] = "DISABLED" /\ OpenAt(t) = {} /\ OpenAt(t)' # {}
                => \E w \in Waiter : /\ LateForTable(w, t) \/ LateForOrder(w)
                                     /\ held'[w] = Nothing]_vars
    BY <1>1 DEF Seated, LateSeating
  <1> QED
    BY <1>2, Typed, PTL DEF Spec, DisabledSeatedOnlyLate
=============================================================================
