-------------------------------- MODULE Till --------------------------------
(***************************************************************************)
(* The money of the orders and of the cash sessions: bills, discounts and  *)
(* coupons, payments, refunds and the cash the drawer should hold          *)
(* (apps/orders/services.py, models.py and the cash views).                *)
(*                                                                         *)
(* Amounts are units.  What the rows of an order sum up to is one number,  *)
(* raised and lowered by the services that edit rows.  Service charge,     *)
(* delivery fee and VAT, which are computed from it, are left out, and so  *)
(* is the opening float, which the drawer and expected_cash both start     *)
(* from.  The cash in the drawer is not in the code: it is the cash that   *)
(* has changed hands since the session was opened.                         *)
(***************************************************************************)
EXTENDS Integers, FiniteSets, FiniteSetsExt

CONSTANTS
    Order, Session, Coupon,
    NoSession,    \* the null cash_session
    UsageLimit,   \* [Coupon -> Coupon.usage_limit], 0 for no limit
    MaxRows,      \* bound: what the rows of an order sum up to
    MaxDiscount,  \* bound: sum of the discounts of an order
    MaxMoney,     \* bound: units paid on an order
    NetMoves      \* bound: what the cash movements of a session may sum up to

ASSUME NoSessionAssumption == NoSession \notin Session

ASSUME LimitAssumption ==
    /\ UsageLimit \in [Coupon -> Nat]
    /\ {MaxRows, MaxDiscount, MaxMoney} \subseteq Nat
    /\ NetMoves \subseteq Int

VARIABLES
    status,      \* [Order -> Order.status; OPEN stands for all open statuses]
    session,     \* [Order -> Order.cash_session]
    rows,        \* [Order -> net total of the active rows]
    discounts,   \* [Order -> sum of its OrderDiscount amounts]
    coupons,     \* [Order -> the coupons among them]
    usedCount,   \* [Coupon -> Coupon.used_count]
    paid,        \* [Order -> completed payments other than tips]
    refunded,    \* [Order -> refunds]
    cashRefunds, \* [Order -> refunds in cash]
    cashIn,      \* [Session -> cash payments booked on the session]
    moves,       \* [Session -> sum of its cash movements]
    sstatus,     \* [Session -> CashSession.status]
    drawer       \* cash taken since the drawer was last opened

billVars == <<rows, discounts, coupons, usedCount>>
moneyVars == <<paid, refunded, cashRefunds>>
sessionVars == <<sstatus, cashIn, moves, drawer>>
vars == <<status, session, billVars, moneyVars, sessionVars>>

TypeOK ==
    /\ status \in [Order -> {"none", "OPEN", "PAID", "CANCELLED"}]
    /\ session \in [Order -> Session \cup {NoSession}]
    /\ rows \in [Order -> Nat]
    /\ discounts \in [Order -> Nat]
    /\ coupons \in [Order -> SUBSET Coupon]
    /\ usedCount \in [Coupon -> Nat]
    /\ paid \in [Order -> Nat]
    /\ refunded \in [Order -> Nat]
    /\ cashRefunds \in [Order -> Nat]
    /\ cashIn \in [Session -> Nat]
    /\ moves \in [Session -> Int]
    /\ sstatus \in [Session -> {"none", "OPEN", "CLOSED"}]
    /\ drawer \in Int

Init ==
    /\ status = [o \in Order |-> "none"]
    /\ session = [o \in Order |-> NoSession]
    /\ rows = [o \in Order |-> 0]
    /\ discounts = [o \in Order |-> 0]
    /\ coupons = [o \in Order |-> {}]
    /\ usedCount = [c \in Coupon |-> 0]
    /\ paid = [o \in Order |-> 0]
    /\ refunded = [o \in Order |-> 0]
    /\ cashRefunds = [o \in Order |-> 0]
    /\ cashIn = [s \in Session |-> 0]
    /\ moves = [s \in Session |-> 0]
    /\ sstatus = [s \in Session |-> "none"]
    /\ drawer = 0

-----------------------------------------------------------------------------
Exists(o) == status[o] # "none"
OpenSessions == {s \in Session : sstatus[s] = "OPEN"}

(* active_cash_session: cash_open refuses a second one. *)
ActiveSession == IF OpenSessions = {} THEN NoSession
                 ELSE CHOOSE s \in OpenSessions : TRUE

(* Mutant: discounts are not limited to the subtotal. *)
BillUncapped(net, off) == net - off

(* The grand total that recalculate computes. *)
Bill(net, off) == net - Min({net, off})

Put(f, x, n) == [f EXCEPT ![x] = @ + n]

-----------------------------------------------------------------------------
(* The rows of the bill. *)

OpenOrder(o) ==
    /\ ~Exists(o)
    /\ status' = [status EXCEPT ![o] = "OPEN"]
    /\ session' = [session EXCEPT ![o] = ActiveSession]
    /\ UNCHANGED <<billVars, moneyVars, sessionVars>>

Edit(o, n) ==
    /\ rows[o] + n <= MaxRows
    /\ rows' = Put(rows, o, n)
    /\ UNCHANGED <<status, session, discounts, coupons, usedCount, moneyVars,
                   sessionVars>>

AddItem(o) == status[o] = "OPEN" /\ Edit(o, 1)

(* Mutant: a quantity below nothing is taken. *)
UpdateUnchecked(o) == Exists(o) /\ \E n \in {-1, 1} : Edit(o, n)

(* update_item_quantity asks about the row, not about the order: the row must
   be there and keep a positive quantity. *)
UpdateItemQuantity(o) ==
    /\ Exists(o) /\ rows[o] > 0
    /\ \E n \in {-1, 1} : rows[o] + n > 0 /\ Edit(o, n)

CancelItem(o) == Exists(o) /\ status[o] # "PAID" /\ rows[o] > 0 /\ Edit(o, -1)

(* start_ticket puts a cancelled row back. *)
RowRevived(o) == Exists(o) /\ Edit(o, 1)

CancelOrder(o) ==
    /\ status[o] = "OPEN"
    /\ status' = [status EXCEPT ![o] = "CANCELLED"]
    /\ rows' = [rows EXCEPT ![o] = 0]
    /\ UNCHANGED <<session, discounts, coupons, usedCount, moneyVars, sessionVars>>

(* Some rows, not all, go to an order of the same cash session; discounts
   and payments stay.  Rows may be free, so n is anything up to the sum. *)
SplitOrder(o, new, n) ==
    /\ status[o] \in {"OPEN", "CANCELLED"} /\ ~Exists(new)
    /\ n <= rows[o]
    /\ status' = [status EXCEPT ![new] = status[o]]
    /\ session' = [session EXCEPT ![new] = session[o]]
    /\ rows' = [rows EXCEPT ![o] = @ - n, ![new] = n]
    /\ UNCHANGED <<discounts, coupons, usedCount, moneyVars, sessionVars>>

MergeOrders(target, source) ==
    /\ target # source
    /\ {status[target], status[source]} \subseteq {"OPEN", "CANCELLED"}
    /\ rows[target] + rows[source] <= MaxRows
    /\ rows' = [rows EXCEPT ![target] = @ + rows[source], ![source] = 0]
    /\ status' = [status EXCEPT ![source] = "CANCELLED"]
    /\ UNCHANGED <<session, discounts, coupons, usedCount, moneyVars, sessionVars>>

-----------------------------------------------------------------------------
(* Discounts: allowed whatever the status of the order. *)

(* Mutant: used up when the count has passed the limit. *)
CouponLeftOver(c) == UsageLimit[c] # 0 => usedCount[c] <= UsageLimit[c]

CouponLeft(c) == UsageLimit[c] # 0 => usedCount[c] < UsageLimit[c]

(* compute_discount takes at most the subtotal. *)
ApplyCoupon(o, c, n) ==
    /\ Exists(o)
    /\ CouponLeft(c) /\ c \notin coupons[o]
    /\ discounts[o] + Min({n, rows[o]}) <= MaxDiscount
    /\ discounts' = Put(discounts, o, Min({n, rows[o]}))
    /\ coupons' = [coupons EXCEPT ![o] = @ \cup {c}]
    /\ usedCount' = Put(usedCount, c, 1)
    /\ UNCHANGED <<status, session, rows, moneyVars, sessionVars>>

ApplyManualDiscount(o, n) ==
    /\ Exists(o)
    /\ n \in 1 .. rows[o]
    /\ discounts[o] + n <= MaxDiscount
    /\ discounts' = Put(discounts, o, n)
    /\ UNCHANGED <<status, session, rows, coupons, usedCount, moneyVars, sessionVars>>

-----------------------------------------------------------------------------
(* Payments, refunds and the drawer. *)

(* is_fully_paid, after the payment was recorded. *)
Covered(o) == Bill(rows[o], discounts[o]) <= paid'[o]

(* The session a payment is booked on. *)
PaymentSession(o) == IF session[o] # NoSession THEN session[o] ELSE ActiveSession

(* The whole amount is booked; the change is computed from the cash handed
   over, and a tip is a payment of its own method. *)
TakePayment(o, method, n) ==
    LET booked == PaymentSession(o) IN
    /\ Exists(o) /\ status[o] # "CANCELLED"
    /\ method # "TIP" => paid[o] + n <= MaxMoney
    /\ paid' = IF method = "TIP" THEN paid ELSE Put(paid, o, n)
    /\ IF method = "CASH"
       THEN /\ cashIn' = IF booked = NoSession THEN cashIn ELSE Put(cashIn, booked, n)
            /\ drawer' = drawer + n
       ELSE UNCHANGED <<cashIn, drawer>>
    /\ status' = IF Covered(o) THEN [status EXCEPT ![o] = "PAID"] ELSE status
    /\ UNCHANGED <<session, billVars, refunded, cashRefunds, sstatus, moves>>

(* Mutant: a limit per refund rather than for all of them. *)
RefundableEach(o) == paid[o]

Refundable(o) == paid[o] - refunded[o]

RefundOrder(o, method, n) ==
    /\ Exists(o)
    /\ n \in 1 .. Refundable(o)
    /\ refunded' = Put(refunded, o, n)
    /\ IF method = "CASH"
       THEN cashRefunds' = Put(cashRefunds, o, n) /\ drawer' = drawer - n
       ELSE UNCHANGED <<cashRefunds, drawer>>
    /\ UNCHANGED <<status, session, billVars, paid, sstatus, cashIn, moves>>

CashOpen(s) ==
    /\ OpenSessions = {}
    /\ sstatus[s] = "none"
    /\ sstatus' = [sstatus EXCEPT ![s] = "OPEN"]
    /\ drawer' = 0
    /\ UNCHANGED <<status, session, billVars, moneyVars, cashIn, moves>>

CashClose(s) ==
    /\ sstatus[s] = "OPEN"
    /\ sstatus' = [sstatus EXCEPT ![s] = "CLOSED"]
    /\ UNCHANGED <<status, session, billVars, moneyVars, cashIn, moves, drawer>>

CashMovement(s, n) ==
    /\ sstatus[s] = "OPEN"
    /\ moves[s] + n \in NetMoves
    /\ moves' = Put(moves, s, n)
    /\ drawer' = drawer + n
    /\ UNCHANGED <<status, session, billVars, moneyVars, sstatus, cashIn>>

(* Mutant: refunds are not taken off. *)
ExpectedWithRefunds(s) == cashIn[s] + moves[s]

(* CashSession.expected_cash: the refunds of the session are those of the
   orders opened in it. *)
ExpectedCash(s) ==
    cashIn[s] + moves[s]
        - SumFunctionOnSet(cashRefunds, {o \in Order : session[o] = s})

-----------------------------------------------------------------------------
Amount == 1 .. MaxMoney
Method == {"CASH", "CARD"}

Next ==
    \/ \E o \in Order :
        \/ OpenOrder(o) \/ AddItem(o) \/ UpdateItemQuantity(o)
        \/ CancelItem(o) \/ RowRevived(o) \/ CancelOrder(o)
        \/ \E new \in Order, n \in 0 .. MaxRows : SplitOrder(o, new, n)
        \/ \E source \in Order : MergeOrders(o, source)
        \/ \E c \in Coupon, n \in 1 .. MaxDiscount : ApplyCoupon(o, c, n)
        \/ \E n \in 1 .. MaxDiscount : ApplyManualDiscount(o, n)
        \/ \E method \in Method \cup {"TIP"}, n \in Amount : TakePayment(o, method, n)
        \/ \E method \in Method, n \in Amount : RefundOrder(o, method, n)
    \/ \E s \in Session :
        \/ CashOpen(s) \/ CashClose(s)
        \/ \E n \in {-1, 1} : CashMovement(s, n)

Spec == Init /\ [][Next]_vars

-----------------------------------------------------------------------------
(* What the till promises. *)

(* Nobody gets back more than was paid, over all refunds (refund_order). *)
RefundsWithinPayments == \A o \in Order : refunded[o] <= paid[o]

(* An order becomes paid only by a payment that covers its bill as its rows
   and discounts stand at that moment, and its bill is never below nothing,
   however rows were cancelled under its discounts (take_payment,
   close_order, recalculate). *)
PaidWhenCovered ==
    [][\A o \in Order : status[o] # "PAID" /\ status'[o] = "PAID" =>
            /\ paid'[o] >= rows'[o] - discounts'[o]
            /\ Bill(rows'[o], discounts'[o]) >= 0]_vars

(* A coupon is counted once for every order it is on and not used beyond its
   limit (apply_coupon). *)
CouponsCounted ==
    \A c \in Coupon :
        /\ usedCount[c] = Cardinality({o \in Order : c \in coupons[o]})
        /\ UsageLimit[c] # 0 => usedCount[c] <= UsageLimit[c]

(* As long as every order was opened in the open session, expected_cash is
   the cash in the drawer, whatever was paid, refunded and moved. *)
OwnSessionAccounted ==
    \A s \in OpenSessions :
        (\A o \in Order : Exists(o) => session[o] = s) => ExpectedCash(s) = drawer

-----------------------------------------------------------------------------
(* What the repository says and the till does not keep. *)

(* "The cash that should be in the drawer" (expected_cash); payments of an
   order that outlives its session go to the closed one. *)
DrawerAccounted == \A s \in OpenSessions : ExpectedCash(s) = drawer
=============================================================================
