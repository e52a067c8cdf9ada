--------------------------- MODULE StockDocuments ---------------------------
(***************************************************************************)
(* A purchase order and a stock count (apps/inventory/views.py) over the   *)
(* stock services.  A view is not a transaction: each call of a stock      *)
(* service is one, and each row is saved by itself, so that other requests *)
(* come in between and an exception or a crash leaves the rest undone.     *)
(*                                                                         *)
(* One order and one count, both for the warehouse Depot, with at most one *)
(* line for each ingredient, in its base unit.  Nothing in the code sets   *)
(* the status of an order to requested, ordered or cancelled, or that of a *)
(* count to cancelled.                                                     *)
(***************************************************************************)
EXTENDS Inventory, Clients

CONSTANTS
    Depot,        \* the warehouse of the order and the count
    MaxLine       \* bound: quantities entered by hand

ASSUME DocumentsAssumption == Depot \in Warehouse /\ MaxLine \in Nat

VARIABLES
    purchase,   \* PurchaseOrder.status, or "none"
    line,       \* [Ingredient -> its PurchaseOrderLine; none if ordered is 0]
    delivered,  \* [Ingredient -> what receive_stock has booked for the order]
    belated,    \* history: lines added when the order was no longer a draft
                \*          or a delivery was being closed
    count,      \* StockCount.status, or "none"
    counts,     \* [Ingredient -> its StockCountLine, or NoLine]
    touched,    \* history: ingredients moved by others since the count began
    frozen,     \* history: a request to apply the count has loaded its lines
    late,       \* history: lines entered after that
    task        \* [Client -> its request]

purchaseVars == <<purchase, line, delivered, belated>>
countVars == <<count, counts, touched, frozen, late>>
documentVars == <<purchaseVars, countVars, task>>

Quantity == 0 .. MaxLine
NoLine == [expected |-> 0, counted |-> 0, listed |-> FALSE]

Line == [ordered : Nat, received : Nat]
CountLine == [expected : Int, counted : Int, listed : BOOLEAN]

(* A line to be added to the order, or a quantity to be entered in the count. *)
Entry == [pc : {"add", "save"}, at : Ingredient, n : Nat]

(* A delivery: the quantities in the form, the received ones loaded. *)
Receipt == [pc : {"lines", "stock", "record", "check", "status"}, post : [Ingredient -> Nat],
            seen : [Ingredient -> Nat], todo : SUBSET Ingredient,
            at : Ingredient \cup {Idle}, closes : BOOLEAN]

(* A count being set up or applied. *)
Listing == [pc : {"expected", "counted"}, at : Ingredient \cup {Idle}, expected : Int,
            todo : SUBSET Ingredient]
Applying == [pc : {"load", "adjust", "finish"}, seen : [Ingredient -> Int],
             todo : SUBSET Ingredient]

DocumentsTypeOK ==
    /\ purchase \in {"none", "draft", "approved", "partial", "received"}
    /\ line \in [Ingredient -> Line]
    /\ delivered \in [Ingredient -> Nat]
    /\ count \in {"none", "open", "applied"}
    /\ counts \in [Ingredient -> CountLine]
    /\ belated \subseteq Ingredient /\ touched \subseteq Ingredient
    /\ late \subseteq Ingredient /\ frozen \in BOOLEAN
    /\ task \in [Client -> Entry \cup Receipt \cup Listing \cup Applying \cup {Idle}]

DocumentsInit ==
    /\ Init
    /\ purchase = "none"
    /\ line = [i \in Ingredient |-> [ordered |-> 0, received |-> 0]]
    /\ delivered = [i \in Ingredient |-> 0]
    /\ count = "none"
    /\ counts = [i \in Ingredient |-> NoLine]
    /\ belated = {} /\ touched = {} /\ late = {} /\ frozen = FALSE
    /\ task = [c \in Client |-> Idle]

Doing(c, pc) == task[c] # Idle /\ task[c].pc = pc

Begin(c, request) == task[c] = Idle /\ task' = [task EXCEPT ![c] = request]

Finish(c) == task' = [task EXCEPT ![c] = Idle]

Lines == {i \in Ingredient : line[i].ordered > 0}

(* Stock moved by anybody but the count itself. *)
Touch ==
    LET Moved(i) == quantity'[<<i, Depot>>] # quantity[<<i, Depot>>]
    IN  touched' = IF count = "none" THEN {} ELSE touched \cup {i \in Ingredient : Moved(i)}

-----------------------------------------------------------------------------
(* The purchase order *)

PurchaseCreate ==
    /\ purchase = "none"
    /\ purchase' = "draft"
    /\ UNCHANGED <<vars, line, delivered, belated, countVars, task>>

(* purchase_add_line: the order is editable when it is loaded ... *)
BeginAddLine(c, i, n) ==
    /\ purchase = "draft" /\ i \notin Lines /\ n > 0
    /\ Begin(c, [pc |-> "add", at |-> i, n |-> n])
    /\ UNCHANGED <<vars, purchaseVars, countVars>>

(* ... and need not be any more when the line is created. *)
AddLine(c) ==
    LET i == task[c].at
    IN  /\ Doing(c, "add") /\ i \notin Lines
        /\ line' = [line EXCEPT ![i] = [ordered |-> task[c].n, received |-> 0]]
        /\ belated' = IF purchase # "draft" \/ \E d \in Client : Doing(d, "status")
                      THEN belated \cup {i} ELSE belated
        /\ Finish(c)
        /\ UNCHANGED <<vars, purchase, delivered, countVars>>

(* purchase_approve, in any status. *)
PurchaseApprove ==
    /\ purchase # "none"
    /\ purchase' = "approved"
    /\ UNCHANGED <<vars, line, delivered, belated, countVars, task>>

(* purchase_receive: the order is loaded and must not be closed ... *)
BeginReceive(c, post) ==
    /\ purchase \notin {"none", "received"}
    /\ Begin(c, [pc |-> "lines", post |-> post, seen |-> [i \in Ingredient |-> 0],
                 todo |-> {}, at |-> Idle, closes |-> FALSE])
    /\ UNCHANGED <<vars, purchaseVars, countVars>>

(* ... then its lines; those whose quantity in the form is larger than the
   received one are gone through ... *)
LoadLines(c) ==
    LET new == {i \in Lines : task[c].post[i] > line[i].received}
    IN  /\ Doing(c, "lines")
        /\ IF new = {} THEN Finish(c)
           ELSE task' = [task EXCEPT ![c].seen = [i \in Ingredient |-> line[i].received],
                                     ![c].todo = new, ![c].pc = "stock"]
        /\ UNCHANGED <<vars, purchaseVars, countVars>>

Delta(c, i) == task[c].post[i] - task[c].seen[i]

(* ... the difference goes into stock ... *)
ReceiveLine(c, i) ==
    /\ Doing(c, "stock") /\ i \in task[c].todo
    /\ ReceiveStock(i, Depot, Delta(c, i))
    /\ delivered' = [delivered EXCEPT ![i] = @ + Delta(c, i)]
    /\ task' = [task EXCEPT ![c].at = i, ![c].pc = "record"]
    /\ Touch
    /\ UNCHANGED <<purchase, line, belated, count, counts, frozen, late>>

AfterLine(c, i) ==
    LET rest == task[c].todo \ {i}
    IN  [task EXCEPT ![c].todo = rest, ![c].at = Idle,
                     ![c].pc = IF rest = {} THEN "check" ELSE "stock"]

(* Mutant: with the first line, all are recorded. *)
RecordAllLines(c) ==
    LET t == task[c]
    IN  /\ Doing(c, "record")
        /\ line' = [i \in Ingredient |->
              IF i \in t.todo THEN [line[i] EXCEPT !.received = t.post[i]] ELSE line[i]]
        /\ task' = AfterLine(c, t.at)
        /\ UNCHANGED <<vars, purchase, delivered, belated, countVars>>

(* ... and is recorded as received. *)
RecordLine(c) ==
    LET i == task[c].at
    IN  /\ Doing(c, "record")
        /\ line' = [line EXCEPT ![i].received = task[c].post[i]]
        /\ task' = AfterLine(c, i)
        /\ UNCHANGED <<vars, purchase, delivered, belated, countVars>>

(* Mutant: lines left out of this delivery are not asked for. *)
AllReceivedOfThese(c) == \A i \in Lines : task[c].post[i] > 0 => line[i].received >= line[i].ordered

AllReceived(c) == \A i \in Lines : line[i].received >= line[i].ordered

(* The lines are read again ... *)
CheckLines(c) ==
    /\ Doing(c, "check")
    /\ task' = [task EXCEPT ![c].closes = AllReceived(c), ![c].pc = "status"]
    /\ UNCHANGED <<vars, purchaseVars, countVars>>

(* ... and the status is saved, whatever it is by now. *)
SavePurchase(c) ==
    /\ Doing(c, "status")
    /\ purchase' = IF task[c].closes THEN "received" ELSE "partial"
    /\ Finish(c)
    /\ UNCHANGED <<vars, line, delivered, belated, countVars>>

-----------------------------------------------------------------------------
(* The stock count *)

(* count_create: the count, then for each ingredient the quantity on hand,
   asked for twice, as expected and as counted. *)
CountCreate(c) ==
    /\ count = "none"
    /\ count' = "open"
    /\ Begin(c, [pc |-> "expected", at |-> Idle, expected |-> 0, todo |-> Ingredient])
    /\ UNCHANGED <<vars, purchaseVars, counts, touched, frozen, late>>

ReadExpected(c, i) ==
    /\ Doing(c, "expected") /\ i \in task[c].todo
    /\ task' = [task EXCEPT ![c].at = i, ![c].pc = "counted",
                            ![c].expected = quantity[<<i, Depot>>]]
    /\ UNCHANGED <<vars, purchaseVars, countVars>>

CreateCountLine(c) ==
    LET i == task[c].at
        rest == task[c].todo \ {i}
    IN  /\ Doing(c, "counted")
        /\ counts' = [counts EXCEPT ![i] = [expected |-> task[c].expected,
                                            counted |-> quantity[<<i, Depot>>], listed |-> TRUE]]
        /\ IF rest = {} THEN Finish(c)
           ELSE task' = [task EXCEPT ![c].todo = rest, ![c].at = Idle, ![c].pc = "expected"]
        /\ UNCHANGED <<vars, purchaseVars, count, touched, frozen, late>>

(* count_save: the count is open when it is loaded.  A form with several lines
   is as many requests: they share only this test. *)
BeginCountSave(c, i, n) ==
    /\ count = "open" /\ counts[i].listed
    /\ Begin(c, [pc |-> "save", at |-> i, n |-> n])
    /\ UNCHANGED <<vars, purchaseVars, countVars>>

CountSave(c) ==
    /\ Doing(c, "save")
    /\ counts' = [counts EXCEPT ![task[c].at].counted = task[c].n]
    /\ late' = IF frozen THEN late \cup {task[c].at} ELSE late
    /\ Finish(c)
    /\ UNCHANGED <<vars, purchaseVars, count, touched, frozen>>

(* count_apply: the count is open when it is loaded; then its lines ... *)
BeginApply(c) ==
    /\ count = "open"
    /\ Begin(c, [pc |-> "load", seen |-> [i \in Ingredient |-> 0], todo |-> {}])
    /\ UNCHANGED <<vars, purchaseVars, countVars>>

LoadCount(c) ==
    LET differ == {i \in Ingredient : counts[i].listed /\ counts[i].counted # counts[i].expected}
    IN  /\ Doing(c, "load")
        /\ task' = [task EXCEPT ![c].seen = [i \in Ingredient |-> counts[i].counted],
                                ![c].todo = differ,
                                ![c].pc = IF differ = {} THEN "finish" ELSE "adjust"]
        /\ frozen' = TRUE
        /\ UNCHANGED <<vars, purchaseVars, count, counts, touched, late>>

(* Mutant: the stock is corrected by the difference that was counted. *)
AdjustByVariance(c, i) ==
    LET new == quantity[<<i, Depot>>] + task[c].seen[i] - counts[i].expected
    IN  new \in Quantity /\ AdjustStock(i, Depot, new)

Adjust(c, i) == AdjustStock(i, Depot, task[c].seen[i])

(* ... and those that differ from what was expected set the stock. *)
AdjustLine(c, i) ==
    LET rest == task[c].todo \ {i}
    IN  /\ Doing(c, "adjust") /\ i \in task[c].todo
        /\ Adjust(c, i)
        /\ task' = [task EXCEPT ![c].todo = rest,
                                ![c].pc = IF rest = {} THEN "finish" ELSE "adjust"]
        /\ UNCHANGED <<purchaseVars, countVars>>

FinishApply(c) ==
    /\ Doing(c, "finish")
    /\ count' = "applied"
    /\ Finish(c)
    /\ UNCHANGED <<vars, purchaseVars, counts, touched, frozen, late>>

-----------------------------------------------------------------------------
(* An exception, or the end of the process: what is done stays done. *)
BreakOff(c) ==
    /\ task[c] # Idle
    /\ Finish(c)
    /\ UNCHANGED <<vars, purchaseVars, countVars>>

(* Sales, waste, transfers and whatever else moves stock. *)
StockMoves ==
    /\ Next
    /\ Touch
    /\ UNCHANGED <<purchaseVars, count, counts, frozen, late, task>>

DocumentsNext ==
    \/ PurchaseCreate \/ PurchaseApprove
    \/ \E c \in Client :
          \/ \E i \in Ingredient, n \in Quantity : BeginAddLine(c, i, n) \/ BeginCountSave(c, i, n)
          \/ AddLine(c)
          \/ \E post \in [Ingredient -> Quantity] : BeginReceive(c, post)
          \/ LoadLines(c) \/ RecordLine(c) \/ CheckLines(c) \/ SavePurchase(c)
          \/ CountCreate(c) \/ CreateCountLine(c) \/ CountSave(c)
          \/ BeginApply(c) \/ LoadCount(c) \/ FinishApply(c)
          \/ \E i \in Ingredient : ReceiveLine(c, i) \/ ReadExpected(c, i) \/ AdjustLine(c, i)
          \/ BreakOff(c)
    \/ StockMoves

DocumentsSpec == DocumentsInit /\ [][DocumentsNext]_<<vars, documentVars>>

-----------------------------------------------------------------------------
(* What the documents promise, however requests overlap or break off. *)

(* No order claims goods that never came into stock: a double click or a retry
   may book a delivery twice, but what a line says was received has been booked
   (purchase_receive). *)
ReceiptsBacked == \A i \in Ingredient : line[i].received <= delivered[i]

(* An order that is closed has been delivered in full, line by line; excepted
   are lines added while it was being closed or later (purchase_receive). *)
ClosedInFull ==
    purchase = "received" => \A i \in Lines \ belated : delivered[i] >= line[i].ordered

(* Once a count is applied the stock is what was counted, however often it was
   applied in part, again or twice at once.  Excepted are ingredients that moved
   since the count began, and lines entered after it was first applied
   (count_apply). *)
CountConverges ==
    count = "applied" =>
        \A i \in Ingredient \ (touched \cup late) :
            counts[i].listed => quantity[<<i, Depot>>] = counts[i].counted
=============================================================================
