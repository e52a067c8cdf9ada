------------------------------- MODULE Floor -------------------------------
(***************************************************************************)
(* Tables, the orders that are served at them and the reservations that    *)
(* hold them: the table side of apps/orders/services.py, and the table and *)
(* reservation views of apps/floor/views.py.                               *)
(*                                                                         *)
(* The order services run in a transaction and are one action each, with   *)
(* the copies of orders and tables that the view loaded before as          *)
(* parameters; which orders are open at a table they ask the database.  A  *)
(* waiter holds such copies while other requests run, or a request comes   *)
(* alone, on the rows as they are.                                         *)
(*                                                                         *)
(* The floor views have no transaction: they read the tables, decide, and  *)
(* then save one table after another, while other requests run in between. *)
(* A host is such a request; job is what it has still to save.             *)
(*                                                                         *)
(* A reservation's status decides nothing (any may follow any) and its     *)
(* tables can be edited at any time without an effect on the tables, so    *)
(* what the reservation views do to tables they do to any set of tables.   *)
(* An order's open statuses are one, OPEN.                                 *)
(***************************************************************************)
EXTENDS FiniteSets

CONSTANTS Order, Table, Host,
          Waiter,       \* requests that can be between load and service
          NoTable,      \* a null table, of an order that is not dine-in
          NoOrder,
          Idle,         \* a host without a job
          Nothing       \* what a waiter holds outside a request

ASSUME NullsAssumption == NoTable \notin Table /\ NoOrder \notin Order

VARIABLES
    status,      \* [Order -> Order.status]
    otable,      \* [Order -> Order.table]
    party,       \* [Order -> the order it was, in the end, split from]
    tstatus,     \* [Table -> Table.status]
    mergedInto,  \* [Table -> Table.merged_into]
    job,         \* [Host -> tables still to save, and what to save in them]
    held         \* [Waiter -> the loaded copies]

orderVars == <<status, otable, party>>
tableVars == <<tstatus, mergedInto>>
vars == <<orderVars, tableVars, job, held>>

TableStatus == {"FREE", "OCCUPIED", "RESERVED", "CLEANING", "DISABLED"}

(* cleared is the one table the host has found without an active order. *)
Tables == (SUBSET Table) \ {{}}
StatusJob == [kind : {"status"}, todo : Tables, to : TableStatus]
MergeJob == [kind : {"merge"}, todo : Tables, main : Table,
             cleared : Table \cup {NoTable}]

(* Rows as a view loads them: an order to change, a table to open an order at,
   two orders to merge, an order and the table to move it to. *)
OrderCopy == [order : Order, status : {"OPEN", "PAID", "CANCELLED"},
              table : Table \cup {NoTable}]
TableCopy == [table : Table, tstatus : TableStatus]
MergeCopy == [target : OrderCopy, source : OrderCopy]
MoveCopy == [moved : OrderCopy, to : TableCopy]
Copy == OrderCopy \cup TableCopy \cup MergeCopy \cup MoveCopy

TypeOK ==
    /\ status \in [Order -> {"none", "OPEN", "PAID", "CANCELLED"}]
    /\ otable \in [Order -> Table \cup {NoTable}]
    /\ party \in [Order -> Order \cup {NoOrder}]
    /\ tstatus \in [Table -> TableStatus]
    /\ mergedInto \in [Table -> Table \cup {NoTable}]
    /\ job \in [Host -> StatusJob \cup MergeJob \cup {Idle}]
    /\ held \in [Waiter -> Copy \cup {Nothing}]

Init ==
    /\ status = [o \in Order |-> "none"]
    /\ otable = [o \in Order |-> NoTable]
    /\ party = [o \in Order |-> NoOrder]
    /\ tstatus = [t \in Table |-> "FREE"]
    /\ mergedInto = [t \in Table |-> NoTable]
    /\ job = [h \in Host |-> Idle]
    /\ held = [w \in Waiter |-> Nothing]

-----------------------------------------------------------------------------
Exists(o) == status[o] # "none"

(* The open orders at a table; active_order is the latest of them. *)
OpenAt(t) == {o \in Order : otable[o] = t /\ status[o] = "OPEN"}

(* mark_occupied and mark_free, for an order that may have no table. *)
Mark(t, st) == tstatus' = IF t = NoTable THEN tstatus
                          ELSE [tstatus EXCEPT ![t] = st]

(* The rows of an order and of a table, as they are. *)
OrderRow(o) == [order |-> o, status |-> status[o], table |-> otable[o]]
TableRow(t) == [table |-> t, tstatus |-> tstatus[t]]

-----------------------------------------------------------------------------
(* Order services, on loaded copies c of orders and u of tables. *)

Create(o, t, root, st) ==
    /\ ~Exists(o)
    /\ status' = [status EXCEPT ![o] = st]
    /\ otable' = [otable EXCEPT ![o] = t]
    /\ party' = [party EXCEPT ![o] = root]

(* Without a table: to take away or to be delivered. *)
OpenTakeaway(o) ==
    /\ Create(o, NoTable, o, "OPEN")
    /\ UNCHANGED <<tableVars, job>>

(* A table with an active order gets no other: that one is returned. *)
OpenOrder(o, u) ==
    /\ OpenAt(u.table) = {}
    /\ u.tstatus # "DISABLED"
    /\ Create(o, u.table, o, "OPEN")
    /\ Mark(u.table, "OCCUPIED")
    /\ UNCHANGED <<mergedInto, job>>

(* Mutant: paying vacates the table. *)
CloseAndVacate(c) ==
    /\ c.status = "OPEN"
    /\ status' = [status EXCEPT ![c.order] = "PAID"]
    /\ Mark(c.table, "CLEANING")
    /\ UNCHANGED <<otable, party, mergedInto, job>>

(* close_order, from the payment that covers the bill. *)
CloseOrder(c) ==
    /\ c.status = "OPEN"
    /\ status' = [status EXCEPT ![c.order] = "PAID"]
    /\ IF OpenAt(c.table) \subseteq {c.order} THEN Mark(c.table, "CLEANING")
       ELSE UNCHANGED tstatus
    /\ UNCHANGED <<otable, party, mergedInto, job>>

(* An order paid meanwhile is still cancelled if no row of it is left. *)
CancelOrder(c) ==
    /\ c.status = "OPEN"
    /\ status' = [status EXCEPT ![c.order] = "CANCELLED"]
    /\ Mark(c.table, "FREE")
    /\ UNCHANGED <<otable, party, mergedInto, job>>

(* The new order stays at the table of the old one. *)
SplitOrder(new, c) ==
    /\ c.status # "PAID"
    /\ Create(new, c.table, party[c.order], c.status)
    /\ UNCHANGED <<tableVars, job>>

MergeOrders(target, source) ==
    /\ target.order # source.order
    /\ "PAID" \notin {target.status, source.status}
    /\ status' = [status EXCEPT ![source.order] = "CANCELLED"]
    /\ IF source.table # target.table THEN Mark(source.table, "FREE")
       ELSE UNCHANGED tstatus
    /\ UNCHANGED <<otable, party, mergedInto, job>>

(* Mutants: to a table another party has, to one that is out of use. *)
CanShare(o, u) == u.tstatus # "DISABLED"
CanReuse(o, u) == OpenAt(u.table) = {} \/ o \in OpenAt(u.table)

(* Which of several open orders of a table is the active one is left open. *)
CanMoveTo(o, u) ==
    /\ u.tstatus # "DISABLED"
    /\ OpenAt(u.table) = {} \/ o \in OpenAt(u.table)

(* A cancelled order can be transferred, and occupies the table. *)
TransferOrder(c, u) ==
    LET vacated == c.table # u.table /\ OpenAt(c.table) \subseteq {c.order}
    IN
    /\ c.status # "PAID"
    /\ CanMoveTo(c.order, u)
    /\ otable' = [otable EXCEPT ![c.order] = u.table]
    /\ tstatus' = [x \in Table |-> IF x = u.table THEN "OCCUPIED"
                                   ELSE IF vacated /\ x = c.table THEN "FREE"
                                   ELSE tstatus[x]]
    /\ UNCHANGED <<status, party, mergedInto, job>>

(* The services that move an open order on (sending, the kitchen, delivery)
   save the status they found, or another open one in its place. *)
SaveProgress(c) ==
    /\ status' = [status EXCEPT ![c.order] = c.status]
    /\ UNCHANGED <<otable, party, tableVars, job>>

-----------------------------------------------------------------------------
(* Requests: a view loads the rows it names, then the service runs. *)

Hold(w, copy) ==
    /\ held' = [held EXCEPT ![w] = copy]
    /\ UNCHANGED <<orderVars, tableVars, job>>

LoadOrder(w, o) ==
    /\ held[w] = Nothing /\ Exists(o)
    /\ Hold(w, OrderRow(o))

LoadTable(w, t) ==
    /\ held[w] = Nothing
    /\ Hold(w, TableRow(t))

(* order_merge and order_transfer load a second row after the first. *)
LoadSource(w, source) ==
    /\ held[w] \in OrderCopy /\ Exists(source)
    /\ Hold(w, [target |-> held[w], source |-> OrderRow(source)])

LoadDestination(w, t) ==
    /\ held[w] \in OrderCopy
    /\ Hold(w, [moved |-> held[w], to |-> TableRow(t)])

Release(w) == held' = [held EXCEPT ![w] = Nothing]

RunOrderService(w) ==
    /\ held[w] \in OrderCopy
    /\ \/ CloseOrder(held[w]) \/ CancelOrder(held[w]) \/ SaveProgress(held[w])
       \/ \E new \in Order : SplitOrder(new, held[w])
    /\ Release(w)

RunOpen(w) ==
    /\ held[w] \in TableCopy
    /\ \E o \in Order : OpenOrder(o, held[w])
    /\ Release(w)

RunMerge(w) ==
    /\ held[w] \in MergeCopy
    /\ MergeOrders(held[w].target, held[w].source)
    /\ Release(w)

RunMove(w) ==
    /\ held[w] \in MoveCopy
    /\ TransferOrder(held[w].moved, held[w].to)
    /\ Release(w)

(* The service refuses the request and rolls back. *)
Refuse(w) ==
    /\ held[w] # Nothing
    /\ Release(w)
    /\ UNCHANGED <<orderVars, tableVars, job>>

(* Nothing comes between load and service. *)
OrderRequest(o) ==
    \/ OpenTakeaway(o)
    \/ \E t \in Table : OpenOrder(o, TableRow(t))
    \/ /\ Exists(o)
       /\ \/ CloseOrder(OrderRow(o)) \/ CancelOrder(OrderRow(o))
          \/ \E new \in Order : SplitOrder(new, OrderRow(o))
          \/ \E source \in Order :
                Exists(source) /\ MergeOrders(OrderRow(o), OrderRow(source))
          \/ \E t \in Table : TransferOrder(OrderRow(o), TableRow(t))

WaiterStep(w) ==
    \/ \E o \in Order : LoadOrder(w, o) \/ LoadSource(w, o)
    \/ \E t \in Table : LoadTable(w, t) \/ LoadDestination(w, t)
    \/ RunOrderService(w) \/ RunOpen(w) \/ RunMerge(w) \/ RunMove(w)
    \/ Refuse(w)

-----------------------------------------------------------------------------
(* Floor views. *)

Start(h, task) ==
    /\ job[h] = Idle /\ task.todo # {}
    /\ job' = [job EXCEPT ![h] = task]

ContinueForever(h, task) == job' = [job EXCEPT ![h] = task]   \* mutant

Continue(h, task) == job' = [job EXCEPT ![h] = IF task.todo = {} THEN Idle
                                               ELSE task]

StatusTask(T, st) == [kind |-> "status", todo |-> T, to |-> st]

(* table_set_status: a table with an active order is not set free. *)
SetStatus(h, t, new) ==
    /\ new = "FREE" => OpenAt(t) = {}
    /\ Start(h, StatusTask({t}, new))
    /\ UNCHANGED <<orderVars, tstatus, mergedInto>>

(* reservation_create reserves the tables that are free as it reads them. *)
ReservationCreate(h, T) ==
    /\ Start(h, StatusTask({t \in T : tstatus[t] = "FREE"}, "RESERVED"))
    /\ UNCHANGED <<orderVars, tstatus, mergedInto>>

(* reservation_set_status, to seated; and to cancelled, or no-show of a known
   customer. *)
ReservationSeated(h, T) ==
    /\ Start(h, StatusTask(T, "OCCUPIED"))
    /\ UNCHANGED <<orderVars, tstatus, mergedInto>>

ReservationReleased(h, T) ==
    /\ Start(h, StatusTask({t \in T : tstatus[t] = "RESERVED"}, "FREE"))
    /\ UNCHANGED <<orderVars, tstatus, mergedInto>>

SaveStatus(h) ==
    /\ job[h] \in StatusJob
    /\ \E t \in job[h].todo :
        /\ tstatus' = [tstatus EXCEPT ![t] = job[h].to]
        /\ Continue(h, [job[h] EXCEPT !.todo = @ \ {t}])
    /\ UNCHANGED <<orderVars, mergedInto>>

(* table_merge, child by child. *)
TableMerge(h, main, children) ==
    /\ main \notin children
    /\ Start(h, [kind |-> "merge", todo |-> children, main |-> main,
                 cleared |-> NoTable])
    /\ UNCHANGED <<orderVars, tstatus, mergedInto>>

MergeCheck(h) ==
    /\ job[h] \in MergeJob
    /\ job[h].cleared = NoTable
    /\ \E t \in job[h].todo :
        job' = [job EXCEPT ![h] = IF OpenAt(t) = {} THEN [@ EXCEPT !.cleared = t]
                                  ELSE Idle]    \* earlier children stay merged
    /\ UNCHANGED <<orderVars, tstatus, mergedInto>>

MergeSave(h) ==
    /\ job[h] \in MergeJob
    /\ LET t == job[h].cleared IN
        /\ t # NoTable
        /\ mergedInto' = [mergedInto EXCEPT ![t] = job[h].main]
        /\ tstatus' = [tstatus EXCEPT ![t] = "OCCUPIED"]
        /\ Continue(h, [job[h] EXCEPT !.todo = @ \ {t}, !.cleared = NoTable])
    /\ UNCHANGED orderVars

(* table_unmerge is one UPDATE. *)
TableUnmerge(main) ==
    LET children == {t \in Table : mergedInto[t] = main} IN
    /\ children # {}
    /\ mergedInto' = [t \in Table |-> IF t \in children THEN NoTable
                                      ELSE mergedInto[t]]
    /\ tstatus' = [t \in Table |-> IF t \in children THEN "FREE" ELSE tstatus[t]]
    /\ UNCHANGED <<orderVars, job>>

-----------------------------------------------------------------------------
HostStep(h) ==
    \/ \E t \in Table, new \in TableStatus : SetStatus(h, t, new)
    \/ \E T \in SUBSET Table :
        ReservationCreate(h, T) \/ ReservationSeated(h, T) \/ ReservationReleased(h, T)
    \/ SaveStatus(h)
    \/ \E main \in Table, children \in SUBSET Table : TableMerge(h, main, children)
    \/ MergeCheck(h) \/ MergeSave(h)

Next ==
    \/ \E o \in Order : OrderRequest(o) /\ UNCHANGED held
    \/ \E w \in Waiter : WaiterStep(w)
    \/ \E h \in Host : HostStep(h) /\ UNCHANGED held
    \/ \E main \in Table : TableUnmerge(main) /\ UNCHANGED held

Spec == Init /\ [][Next]_vars

-----------------------------------------------------------------------------
(* What the floor promises. *)

(* Paying an order, seating or moving one leaves a table that others have to
   them: its status does not change, on whatever copies the request works
   (close_order's other_open, transfer_order_to_table's occupant and
   remaining, open_order's existing). *)
TableKeptForTheRest ==
    [][\A o \in Order, t \in Table :
        /\ OpenAt(t) \ {o} # {}
        /\ \/ status[o] # "PAID" /\ status'[o] = "PAID"
           \/ otable'[o] # otable[o]
        => tstatus'[t] = tstatus[t]]_vars

(* The open orders at t come from one order that was opened there. *)
OneParty(t) == \A o, p \in OpenAt(t) : party[o] = party[p]

(* The order that w is about to change is not as it was loaded. *)
LateForOrder(w) ==
    held[w] \in OrderCopy /\ held[w] # OrderRow(held[w].order)

(* "There is already an open order at the table" (transfer_order_to_table): two
   parties are not at one table, as long as no copy of an order is late. *)
OnePartyPerTable == \A t \in Table : OneParty(t)

(* Two parties meet at a table only by a request that works on a late copy of
   one order, which it splits or saves a status of.  Opening, transferring and
   merging never bring them together, however late: open_order and
   transfer_order_to_table ask for the active order in their transaction. *)
PartiesMeetOnlyLate ==
    [][\A t \in Table : OneParty(t) /\ ~OneParty(t)'
            => \E w \in Waiter : LateForOrder(w) /\ held'[w] = Nothing]_vars

(* The table that w is about to seat an order at is not as it was loaded. *)
LateForTable(w, t) ==
    \/ held[w] \in TableCopy /\ held[w].table = t /\ held[w] # TableRow(t)
    \/ held[w] \in MoveCopy /\ held[w].to.table = t /\ held[w].to # TableRow(t)

(* Nobody is seated at a table that is out of use, by a new order or by moving,
   splitting or saving one, but by a request that loaded the table before it
   was disabled, or its order before that changed. *)
DisabledSeatedOnlyLate ==
    [][\A t \in Table : tstatus[t] = "DISABLED" /\ OpenAt(t) = {} /\ OpenAt(t)' # {}
            => \E w \in Waiter : /\ LateForTable(w, t) \/ LateForOrder(w)
                                 /\ held'[w] = Nothing]_vars

-----------------------------------------------------------------------------
(* What the repository says and the floor does not keep: "There is an open order
   at the table; close it first" (table_set_status).  A free table has no open
   order. *)
FreeTableIsEmpty == \A t \in Table : tstatus[t] = "FREE" => OpenAt(t) = {}
=============================================================================
