----------------------------- MODULE Till_proofs -----------------------------
(***************************************************************************)
(* Theorems about Till, for any numbers of orders, sessions and coupons    *)
(* and any bounds.  How often a coupon was used is a cardinality, and the  *)
(* refunds of a session are a sum; the sets they are taken over are finite *)
(* because they grow by one order at a time.                               *)
(***************************************************************************)
EXTENDS Till, Sums

LEMMA MinOfTwo ==
    ASSUME NEW a \in Int, NEW b \in Int
    PROVE  /\ Min({a, b}) \in {a, b}
           /\ Min({a, b}) <= a
           /\ Min({a, b}) <= b
  <1>1. \E x \in {a, b} : \A y \in {a, b} : x =< y
    OBVIOUS
  <1>2. /\ Min({a, b}) \in {a, b}
        /\ \A y \in {a, b} : Min({a, b}) =< y
    BY <1>1 DEF Min
  <1> QED
    BY <1>2

(* Discounts never push a bill below nothing, nor take off more than they are. *)
LEMMA BillBounds ==
    ASSUME NEW net \in Nat, NEW off \in Nat
    PROVE  /\ Bill(net, off) \in Int
           /\ Bill(net, off) >= 0
           /\ Bill(net, off) >= net - off
  <1> DEFINE cut == Min({net, off})
  <1>1. cut \in {net, off} /\ cut <= net /\ cut <= off
    BY MinOfTwo
  <1> HIDE DEF cut
  <1>2. net - cut \in Int /\ net - cut >= 0 /\ net - cut >= net - off
    BY <1>1
  <1> QED
    BY <1>2 DEF Bill, cut

LEMMA ActiveSessionTyped == ActiveSession \in Session \cup {NoSession}
  BY DEF ActiveSession, OpenSessions

-----------------------------------------------------------------------------
(* Types, and refunds within payments *)

TillInv == TypeOK /\ RefundsWithinPayments

LEMMA TillInit == Init => TillInv
  BY DEF Init, TillInv, TypeOK, RefundsWithinPayments

(* The services that edit rows or statuses touch neither money nor session. *)
LEMMA BillStep ==
    ASSUME TillInv, NEW o \in Order,
           \/ OpenOrder(o) \/ AddItem(o) \/ UpdateItemQuantity(o)
           \/ CancelItem(o) \/ RowRevived(o) \/ CancelOrder(o)
           \/ \E new \in Order, n \in 0 .. MaxRows : SplitOrder(o, new, n)
           \/ \E source \in Order : MergeOrders(o, source)
    PROVE  TillInv'
  <1> USE LimitAssumption DEF TillInv, TypeOK, RefundsWithinPayments, moneyVars, sessionVars, billVars
  <1>1. CASE OpenOrder(o)
    BY <1>1, ActiveSessionTyped DEF OpenOrder
  <1>2. CASE AddItem(o) \/ RowRevived(o)
    BY <1>2 DEF AddItem, RowRevived, Edit, Put
  <1>3. CASE UpdateItemQuantity(o)
    BY <1>3 DEF UpdateItemQuantity, Edit, Put
  <1>4. CASE CancelItem(o)
    BY <1>4 DEF CancelItem, Edit, Put
  <1>5. CASE CancelOrder(o)
    BY <1>5 DEF CancelOrder
  <1>6. ASSUME NEW new \in Order, NEW n \in 0 .. MaxRows, SplitOrder(o, new, n)
        PROVE  TillInv'
    BY <1>6 DEF SplitOrder
  <1>7. ASSUME NEW source \in Order, MergeOrders(o, source)
        PROVE  TillInv'
    BY <1>7 DEF MergeOrders
  <1> QED
    BY <1>1, <1>2, <1>3, <1>4, <1>5, <1>6, <1>7

LEMMA DiscountStep ==
    ASSUME TillInv, NEW o \in Order,
           \/ \E c \in Coupon, n \in 1 .. MaxDiscount : ApplyCoupon(o, c, n)
           \/ \E n \in 1 .. MaxDiscount : ApplyManualDiscount(o, n)
    PROVE  TillInv'
  <1> USE LimitAssumption DEF TillInv, TypeOK, RefundsWithinPayments, moneyVars, sessionVars, Put
  <1>1. ASSUME NEW c \in Coupon, NEW n \in 1 .. MaxDiscount, ApplyCoupon(o, c, n)
        PROVE  TillInv'
    <2>1. Min({n, rows[o]}) \in Nat
      <3>1. n \in Nat /\ rows[o] \in Nat
        OBVIOUS
      <3>2. \A a, b \in Nat : Min({a, b}) \in Nat
        BY MinOfTwo
      <3> QED
        BY <3>1, <3>2
    <2> QED
      BY <1>1, <2>1 DEF ApplyCoupon
  <1>2. ASSUME NEW n \in 1 .. MaxDiscount, ApplyManualDiscount(o, n)
        PROVE  TillInv'
    BY <1>2 DEF ApplyManualDiscount
  <1> QED
    BY <1>1, <1>2

LEMMA PaymentStep ==
    ASSUME TillInv, NEW o \in Order, NEW method, NEW n \in Amount,
           TakePayment(o, method, n) \/ RefundOrder(o, method, n)
    PROVE  TillInv'
  <1> USE LimitAssumption DEF TillInv, TypeOK, RefundsWithinPayments, billVars, Put, Amount
  <1>1. CASE TakePayment(o, method, n)
    <2>1. PaymentSession(o) # NoSession => PaymentSession(o) \in Session
      BY ActiveSessionTyped DEF PaymentSession
    <2>2. /\ paid' \in [Order -> Nat]
          /\ \A p \in Order : paid[p] <= paid'[p]
      BY <1>1 DEF TakePayment
    <2>3. cashIn' \in [Session -> Nat] /\ drawer' \in Int
      BY <1>1, <2>1 DEF TakePayment
    <2>4. /\ status' \in [Order -> {"none", "OPEN", "PAID", "CANCELLED"}]
          /\ UNCHANGED <<session, billVars, refunded, cashRefunds, sstatus, moves>>
      BY <1>1 DEF TakePayment
    <2> QED
      BY <2>2, <2>3, <2>4
  <1>2. CASE RefundOrder(o, method, n)
    BY <1>2 DEF RefundOrder, Refundable
  <1> QED
    BY <1>1, <1>2

LEMMA SessionStep ==
    ASSUME TillInv, NEW s \in Session,
           CashOpen(s) \/ CashClose(s) \/ \E n \in {-1, 1} : CashMovement(s, n)
    PROVE  TillInv'
  <1> USE DEF TillInv, TypeOK, RefundsWithinPayments, billVars, moneyVars, Put
  <1>1. CASE CashOpen(s)
    BY <1>1 DEF CashOpen
  <1>2. CASE CashClose(s)
    BY <1>2 DEF CashClose
  <1>3. ASSUME NEW n \in {-1, 1}, CashMovement(s, n)
        PROVE  TillInv'
    BY <1>3 DEF CashMovement
  <1> QED
    BY <1>1, <1>2, <1>3

LEMMA TillStep ==
    ASSUME TillInv, [Next]_vars
    PROVE  TillInv'
  <1>1. UNCHANGED vars => TillInv'
    BY DEF TillInv, TypeOK, RefundsWithinPayments, vars, billVars, moneyVars, sessionVars
  <1> QED
    BY <1>1, BillStep, DiscountStep, PaymentStep, SessionStep DEF Next

LEMMA TillInvariant == Spec => []TillInv
  BY TillInit, TillStep, PTL DEF Spec

(* Amounts that the code keeps positive stay so: no row total, discount or
   payment falls below nothing, and every payment is booked on a session that
   exists or on none. *)
THEOREM TillTypeCorrect == Spec => []TypeOK
  <1>1. TillInv => TypeOK
    BY DEF TillInv
  <1> QED
    BY <1>1, TillInvariant, PTL

(* However refunds, payments and edits follow one another, an order's refunds
   never exceed its payments (refund_order). *)
THEOREM RefundsCovered == Spec => []RefundsWithinPayments
  <1>1. TillInv => RefundsWithinPayments
    BY DEF TillInv
  <1> QED
    BY <1>1, TillInvariant, PTL

-----------------------------------------------------------------------------
(* Coupons *)

UsedOn(c) == {o \in Order : c \in coupons[o]}

CouponInv ==
    \A c \in Coupon :
        /\ IsFiniteSet(UsedOn(c))
        /\ usedCount[c] = Cardinality(UsedOn(c))
        /\ UsageLimit[c] # 0 => usedCount[c] <= UsageLimit[c]

LEMMA CouponInit == Init => CouponInv
  <1> SUFFICES ASSUME Init, NEW c \in Coupon
               PROVE  /\ IsFiniteSet(UsedOn(c))
                      /\ usedCount[c] = Cardinality(UsedOn(c))
                      /\ UsageLimit[c] # 0 => usedCount[c] <= UsageLimit[c]
    BY DEF CouponInv
  <1>1. UsedOn(c) = {} /\ usedCount[c] = 0
    BY DEF UsedOn, Init
  <1> QED
    BY <1>1, FS_EmptySet, LimitAssumption

LEMMA CouponStep ==
    ASSUME TypeOK, CouponInv, [Next]_vars
    PROVE  CouponInv'
  <1>1. ASSUME NEW o \in Order, NEW c \in Coupon, NEW n \in 1 .. MaxDiscount,
               ApplyCoupon(o, c, n)
        PROVE  CouponInv'
    <2>1. /\ c \notin coupons[o]
          /\ coupons' = [coupons EXCEPT ![o] = @ \cup {c}]
          /\ usedCount' = [usedCount EXCEPT ![c] = @ + 1]
          /\ UsageLimit[c] # 0 => usedCount[c] < UsageLimit[c]
      BY <1>1 DEF ApplyCoupon, CouponLeft, Put
    <2>2. UsedOn(c)' = UsedOn(c) \cup {o} /\ o \notin UsedOn(c)
      BY <2>1 DEF UsedOn, TypeOK
    <2>3. usedCount'[c] = usedCount[c] + 1 /\ usedCount[c] \in Nat
      BY <2>1 DEF TypeOK
    <2>4. /\ IsFiniteSet(UsedOn(c)')
          /\ usedCount'[c] = Cardinality(UsedOn(c)')
          /\ UsageLimit[c] # 0 => usedCount'[c] <= UsageLimit[c]
      <3>1. IsFiniteSet(UsedOn(c)) /\ usedCount[c] = Cardinality(UsedOn(c))
        BY DEF CouponInv
      <3>2. /\ IsFiniteSet(UsedOn(c) \cup {o})
            /\ Cardinality(UsedOn(c) \cup {o}) = Cardinality(UsedOn(c)) + 1
        BY <3>1, <2>2, FS_AddElement
      <3>3. UsageLimit[c] \in Nat
        BY LimitAssumption
      <3> QED
        BY <2>1, <2>2, <2>3, <3>1, <3>2, <3>3
    <2>5. ASSUME NEW d \in Coupon, d # c
          PROVE  UsedOn(d)' = UsedOn(d) /\ usedCount'[d] = usedCount[d]
      BY <2>1, <2>5 DEF UsedOn, TypeOK
    <2> QED
      BY <2>4, <2>5 DEF CouponInv
  <1>2. ASSUME UNCHANGED <<coupons, usedCount>>
        PROVE  CouponInv'
    <2>1. \A c \in Coupon : UsedOn(c)' = UsedOn(c)
      BY <1>2 DEF UsedOn
    <2> QED
      BY <1>2, <2>1 DEF CouponInv
  <1>3. ASSUME NEW o \in Order,
               \/ OpenOrder(o) \/ AddItem(o) \/ UpdateItemQuantity(o)
               \/ CancelItem(o) \/ RowRevived(o) \/ CancelOrder(o)
               \/ \E new \in Order, n \in 0 .. MaxRows : SplitOrder(o, new, n)
               \/ \E source \in Order : MergeOrders(o, source)
               \/ \E n \in 1 .. MaxDiscount : ApplyManualDiscount(o, n)
               \/ \E method \in Method \cup {"TIP"}, n \in Amount :
                     TakePayment(o, method, n)
               \/ \E method \in Method, n \in Amount : RefundOrder(o, method, n)
        PROVE  UNCHANGED <<coupons, usedCount>>
    BY <1>3 DEF OpenOrder, AddItem, UpdateItemQuantity, CancelItem, RowRevived, Edit,
                CancelOrder, SplitOrder, MergeOrders, ApplyManualDiscount,
                TakePayment, RefundOrder, billVars
  <1>4. ASSUME NEW s \in Session,
               CashOpen(s) \/ CashClose(s) \/ \E n \in {-1, 1} : CashMovement(s, n)
        PROVE  UNCHANGED <<coupons, usedCount>>
    BY <1>4 DEF CashOpen, CashClose, CashMovement, billVars
  <1>5. UNCHANGED vars => UNCHANGED <<coupons, usedCount>>
    BY DEF vars, billVars
  <1> QED
    BY <1>1, <1>2, <1>3, <1>4, <1>5 DEF Next

(* A coupon's count is the number of orders it is on, and stays within its
   limit (apply_coupon). *)
THEOREM CouponsAreCounted == Spec => []CouponsCounted
  <1>1. CouponInv => CouponsCounted
    BY DEF CouponInv, CouponsCounted, UsedOn
  <1>2. CouponInv /\ TypeOK /\ [Next]_vars => CouponInv'
    BY CouponStep
  <1> QED
    BY <1>1, <1>2, CouponInit, TillTypeCorrect, PTL DEF Spec

-----------------------------------------------------------------------------
(* Becoming paid *)

(* An order is marked paid only by a payment that covers its bill, and no bill
   is below nothing (take_payment, recalculate). *)
THEOREM PaidIsCovered == Spec => PaidWhenCovered
  <1> DEFINE Paying ==
        \A o \in Order : status[o] # "PAID" /\ status'[o] = "PAID" =>
            /\ paid'[o] >= rows'[o] - discounts'[o]
            /\ Bill(rows'[o], discounts'[o]) >= 0
  <1>1. ASSUME TypeOK, NEW o \in Order, NEW method, NEW n \in Amount,
               TakePayment(o, method, n)
        PROVE  Paying
    <2>1. /\ status' = IF Covered(o) THEN [status EXCEPT ![o] = "PAID"] ELSE status
          /\ UNCHANGED <<rows, discounts>>
      BY <1>1 DEF TakePayment, billVars
    <2>2. rows[o] \in Nat /\ discounts[o] \in Nat
      BY <1>1 DEF TypeOK
    <2>3. paid'[o] \in Nat
      BY <1>1 DEF TakePayment, TypeOK, Put, Amount
    <2>4. /\ Bill(rows[o], discounts[o]) >= 0
          /\ Bill(rows[o], discounts[o]) >= rows[o] - discounts[o]
          /\ Bill(rows[o], discounts[o]) \in Int
      BY <2>2, BillBounds
    <2>5. status'[o] = "PAID" /\ status[o] # "PAID" => Bill(rows[o], discounts[o]) <= paid'[o]
      BY <2>1, <1>1 DEF TypeOK, Covered
    <2>6. \A p \in Order : p # o => status'[p] = status[p]
      BY <2>1, <1>1 DEF TypeOK
    <2> QED
      BY <2>1, <2>2, <2>3, <2>4, <2>5, <2>6
  <1>2. ASSUME TypeOK, NEW o \in Order,
               \/ OpenOrder(o) \/ AddItem(o) \/ UpdateItemQuantity(o)
               \/ CancelItem(o) \/ RowRevived(o) \/ CancelOrder(o)
               \/ \E new \in Order, n \in 0 .. MaxRows : SplitOrder(o, new, n)
               \/ \E source \in Order : MergeOrders(o, source)
               \/ \E c \in Coupon, n \in 1 .. MaxDiscount : ApplyCoupon(o, c, n)
               \/ \E n \in 1 .. MaxDiscount : ApplyManualDiscount(o, n)
               \/ \E method \in Method, n \in Amount : RefundOrder(o, method, n)
        PROVE  \A p \in Order : status'[p] = "PAID" => status[p] = "PAID"
    BY <1>2 DEF OpenOrder, AddItem, UpdateItemQuantity, CancelItem, RowRevived, Edit,
                CancelOrder, SplitOrder, MergeOrders, ApplyCoupon,
                ApplyManualDiscount, RefundOrder, TypeOK
  <1>3. ASSUME NEW s \in Session,
               CashOpen(s) \/ CashClose(s) \/ \E n \in {-1, 1} : CashMovement(s, n)
        PROVE  UNCHANGED status
    BY <1>3 DEF CashOpen, CashClose, CashMovement
  <1>4. (\A p \in Order : status'[p] = "PAID" => status[p] = "PAID") => Paying
    OBVIOUS
  <1>5. UNCHANGED status => Paying
    OBVIOUS
  <1>6. TypeOK /\ [Next]_vars => [Paying]_vars
    <2> HIDE DEF Paying
    <2> QED
      BY <1>1, <1>2, <1>3, <1>4, <1>5 DEF Next
  <1> QED
    BY <1>6, TillTypeCorrect, PTL DEF Spec, PaidWhenCovered

-----------------------------------------------------------------------------
(* The drawer *)

OrdersOf(s) == {o \in Order : session[o] = s}

(* One session is open at most.  What does not exist yet has no money: an
   order has no session and no refunds, a session no cash and no orders. *)
DrawerInv ==
    /\ \A s \in Session : IsFiniteSet(OrdersOf(s))
    /\ \A s, t \in OpenSessions : s = t
    /\ \A o \in Order : ~Exists(o) => session[o] = NoSession /\ cashRefunds[o] = 0
    /\ \A s \in Session : sstatus[s] = "none" =>
          cashIn[s] = 0 /\ moves[s] = 0 /\ OrdersOf(s) = {}
    /\ OwnSessionAccounted

Own(s) == \A o \in Order : Exists(o) => session[o] = s

LEMMA DrawerInit == Init => DrawerInv
  <1> SUFFICES ASSUME Init PROVE DrawerInv
    OBVIOUS
  <1>1. \A s \in Session : OrdersOf(s) = {} /\ cashIn[s] = 0 /\ moves[s] = 0
    BY NoSessionAssumption DEF Init, OrdersOf
  <1>2. OpenSessions = {}
    BY DEF Init, OpenSessions
  <1>3. \A o \in Order : session[o] = NoSession /\ cashRefunds[o] = 0
    BY DEF Init
  <1> QED
    BY <1>1, <1>2, <1>3, FS_EmptySet DEF DrawerInv, OwnSessionAccounted

LEMMA RefundsTyped ==
    ASSUME TypeOK, DrawerInv, NEW s \in Session
    PROVE  /\ SumFunctionOnSet(cashRefunds, OrdersOf(s)) \in Int
           /\ ExpectedCash(s) = cashIn[s] + moves[s] - SumFunctionOnSet(cashRefunds, OrdersOf(s))
           /\ cashIn[s] \in Int /\ moves[s] \in Int /\ drawer \in Int
  <1>1. IsFiniteSet(OrdersOf(s)) /\ \A o \in OrdersOf(s) : cashRefunds[o] \in Int
    BY DEF DrawerInv, OrdersOf, TypeOK
  <1>2. SumFunctionOnSet(cashRefunds, OrdersOf(s)) \in Int
    BY <1>1, SumType
  <1>3. ExpectedCash(s) = cashIn[s] + moves[s] - SumFunctionOnSet(cashRefunds, OrdersOf(s))
    BY Zenon DEF ExpectedCash, OrdersOf
  <1> QED
    BY <1>2, <1>3 DEF TypeOK

(* No order appears and no cash changes hands. *)
LEMMA DrawerKept ==
    ASSUME DrawerInv, UNCHANGED <<session, cashRefunds, cashIn, moves, sstatus, drawer>>,
           \A o \in Order : Exists(o)' <=> Exists(o)
    PROVE  DrawerInv'
  <1>1. /\ \A s : OrdersOf(s)' = OrdersOf(s) /\ ExpectedCash(s)' = ExpectedCash(s)
        /\ OpenSessions' = OpenSessions
    BY DEF OrdersOf, ExpectedCash, OpenSessions
  <1> QED
    BY <1>1 DEF DrawerInv, OwnSessionAccounted

(* An order appears, in the open session, in that of another order or in none. *)
LEMMA DrawerOrder ==
    ASSUME TypeOK, DrawerInv, NEW o \in Order, ~Exists(o),
           NEW s \in Session \cup {NoSession}, s # NoSession => sstatus[s] # "none",
           session' = [session EXCEPT ![o] = s],
           \A p \in Order : Exists(p)' <=> Exists(p) \/ p = o,
           UNCHANGED <<cashRefunds, cashIn, moves, sstatus, drawer>>
    PROVE  DrawerInv'
  <1>1. session[o] = NoSession /\ cashRefunds[o] = 0
    BY DEF DrawerInv
  <1>2. \A t \in Session : /\ o \notin OrdersOf(t)
                           /\ t = s => OrdersOf(t)' = OrdersOf(t) \cup {o}
                           /\ t # s => OrdersOf(t)' = OrdersOf(t)
    BY <1>1, NoSessionAssumption DEF OrdersOf, TypeOK
  <1>3. ASSUME NEW t \in Session
        PROVE  /\ IsFiniteSet(OrdersOf(t)')
               /\ SumFunctionOnSet(cashRefunds', OrdersOf(t)')
                    = SumFunctionOnSet(cashRefunds, OrdersOf(t))
    <2>1. IsFiniteSet(OrdersOf(t))
      BY DEF DrawerInv
    <2>2. CASE t = s
      <3>1. \A p \in OrdersOf(t) \cup {o} : cashRefunds[p] \in Int
        BY DEF TypeOK, OrdersOf
      <3>2. SumFunctionOnSet(cashRefunds, OrdersOf(t) \cup {o})
              = SumFunctionOnSet(cashRefunds, OrdersOf(t)) + cashRefunds[o]
        BY <1>2, <2>1, <3>1, SumAdds
      <3>3. SumFunctionOnSet(cashRefunds, OrdersOf(t)) \in Int
        BY RefundsTyped
      <3>4. SumFunctionOnSet(cashRefunds, OrdersOf(t) \cup {o})
              = SumFunctionOnSet(cashRefunds, OrdersOf(t))
        BY <1>1, <3>2, <3>3
      <3>5. IsFiniteSet(OrdersOf(t) \cup {o})
        BY <2>1, FS_AddElement
      <3> QED
        BY <1>2, <2>2, <3>4, <3>5, Zenon
    <2>3. CASE t # s
      BY <1>2, <2>1, <2>3, Zenon
    <2> QED
      BY <2>2, <2>3
  <1>4. \A t \in Session : ExpectedCash(t)' = ExpectedCash(t)
    <2> SUFFICES ASSUME NEW t \in Session PROVE ExpectedCash(t)' = ExpectedCash(t)
      OBVIOUS
    <2>1. ExpectedCash(t)' = cashIn'[t] + moves'[t] - SumFunctionOnSet(cashRefunds', OrdersOf(t)')
      BY Zenon DEF ExpectedCash, OrdersOf
    <2> QED
      BY <1>3, <2>1, RefundsTyped
  <1>5. OpenSessions' = OpenSessions /\ OpenSessions \subseteq Session
    BY DEF OpenSessions
  <1>6. \A t \in Session : Own(t)' => Own(t)
    <2>1. \A p \in Order : p # o => session'[p] = session[p]
      BY DEF TypeOK
    <2> QED
      BY <2>1 DEF Own
  <1>7. OwnSessionAccounted'
    BY <1>4, <1>5, <1>6 DEF DrawerInv, OwnSessionAccounted, Own
  <1>8. \A p \in Order : ~Exists(p)' => session'[p] = NoSession /\ cashRefunds'[p] = 0
    BY DEF DrawerInv, TypeOK
  <1>9. \A t \in Session : sstatus'[t] = "none" =>
            cashIn'[t] = 0 /\ moves'[t] = 0 /\ OrdersOf(t)' = {}
    BY <1>2, NoSessionAssumption DEF DrawerInv
  <1> QED
    BY <1>3, <1>5, <1>7, <1>8, <1>9 DEF DrawerInv

LEMMA SessionsOfOrders ==
    ASSUME TypeOK, DrawerInv, NEW o \in Order
    PROVE  /\ session[o] # NoSession => session[o] \in Session /\ sstatus[session[o]] # "none"
           /\ ActiveSession # NoSession => sstatus[ActiveSession] = "OPEN"
  <1>1. session[o] # NoSession => session[o] \in Session /\ o \in OrdersOf(session[o])
    BY DEF OrdersOf, TypeOK
  <1>2. ActiveSession # NoSession => ActiveSession \in OpenSessions
    BY DEF ActiveSession
  <1> QED
    BY <1>1, <1>2 DEF DrawerInv, OpenSessions

LEMMA DrawerPayment ==
    ASSUME TypeOK, DrawerInv, NEW o \in Order, NEW method, NEW n \in Amount,
           TakePayment(o, method, n)
    PROVE  DrawerInv'
  <1> DEFINE booked == PaymentSession(o)
  <1>1. /\ Exists(o)
        /\ \A p \in Order : Exists(p)' <=> Exists(p)
        /\ UNCHANGED <<session, cashRefunds, moves, sstatus>>
    <2>1. Exists(o) /\ UNCHANGED <<session, cashRefunds, moves, sstatus>>
      BY DEF TakePayment
    <2>2. status' = [status EXCEPT ![o] = "PAID"] \/ status' = status
      BY DEF TakePayment
    <2> QED
      BY <2>1, <2>2 DEF Exists, TypeOK
  <1>2. CASE UNCHANGED <<cashIn, drawer>>
    BY <1>1, <1>2, DrawerKept
  <1>3. CASE drawer' = drawer + n /\ cashIn' = IF booked = NoSession THEN cashIn
                                                ELSE Put(cashIn, booked, n)
    <2>1. booked # NoSession => booked \in Session /\ sstatus[booked] # "none"
      BY SessionsOfOrders, ActiveSessionTyped DEF PaymentSession
    <2>2. /\ \A t : OrdersOf(t)' = OrdersOf(t)
          /\ OpenSessions' = OpenSessions /\ OpenSessions \subseteq Session
      BY <1>1 DEF OrdersOf, OpenSessions
    <2> HIDE DEF booked
    <2>3. \A t \in Session : sstatus[t] = "none" => cashIn'[t] = cashIn[t]
      BY <1>3, <2>1 DEF TypeOK, Put
    <2>4. ASSUME NEW t \in OpenSessions, \A p \in Order : Exists(p)' => session'[p] = t
          PROVE  ExpectedCash(t)' = drawer'
      <3>1. session[o] = t /\ t # NoSession /\ t \in Session
        BY <1>1, <2>2, <2>4, NoSessionAssumption
      <3>2. booked = t
        BY <3>1 DEF booked, PaymentSession
      <3>3. cashIn'[t] = cashIn[t] + n /\ n \in Int
        BY <1>3, <3>1, <3>2 DEF TypeOK, Put, Amount
      <3>4. ExpectedCash(t) = drawer
        BY <1>1, <2>4 DEF DrawerInv, OwnSessionAccounted
      <3>5. ExpectedCash(t)' = cashIn'[t] + moves[t] - SumFunctionOnSet(cashRefunds, OrdersOf(t))
        <4>1. ExpectedCash(t)' = cashIn'[t] + moves'[t] - SumFunctionOnSet(cashRefunds', OrdersOf(t)')
          BY Zenon DEF ExpectedCash, OrdersOf
        <4> QED
          BY <1>1, <2>2, <4>1, Zenon
      <3> QED
        BY <1>3, <3>1, <3>3, <3>4, <3>5, RefundsTyped
    <2>5. OwnSessionAccounted'
      BY <2>2, <2>4 DEF OwnSessionAccounted
    <2> QED
      BY <1>1, <2>2, <2>3, <2>5 DEF DrawerInv
  <1> QED
    BY <1>2, <1>3, Zenon DEF TakePayment

LEMMA DrawerRefund ==
    ASSUME TypeOK, DrawerInv, NEW o \in Order, NEW method, NEW n \in Amount,
           RefundOrder(o, method, n)
    PROVE  DrawerInv'
  <1>1. Exists(o) /\ UNCHANGED <<status, session, cashIn, moves, sstatus>>
    BY DEF RefundOrder
  <1>2. CASE UNCHANGED <<cashRefunds, drawer>>
    BY <1>1, <1>2, DrawerKept DEF Exists
  <1>3. CASE cashRefunds' = Put(cashRefunds, o, n) /\ drawer' = drawer - n
    <2>1. /\ \A t : OrdersOf(t)' = OrdersOf(t)
          /\ OpenSessions' = OpenSessions /\ OpenSessions \subseteq Session
          /\ \A p \in Order : Exists(p)' <=> Exists(p)
      BY <1>1 DEF OrdersOf, OpenSessions, Exists
    <2>2. /\ cashRefunds'[o] = cashRefunds[o] + n /\ n \in Int /\ cashRefunds[o] \in Int
          /\ \A p \in Order : p # o => cashRefunds'[p] = cashRefunds[p]
          /\ \A p \in Order : cashRefunds[p] \in Int /\ cashRefunds'[p] \in Int
      BY <1>3 DEF TypeOK, Put, Amount
    <2>3. ASSUME NEW t \in OpenSessions, \A p \in Order : Exists(p)' => session'[p] = t
          PROVE  ExpectedCash(t)' = drawer'
      <3>1. session[o] = t /\ t \in Session /\ o \in OrdersOf(t)
        BY <1>1, <2>1, <2>3 DEF OrdersOf
      <3>2. IsFiniteSet(OrdersOf(t)) /\ OrdersOf(t) \subseteq Order
        BY <3>1 DEF DrawerInv, OrdersOf
      <3>3. SumFunctionOnSet(cashRefunds', OrdersOf(t))
              = SumFunctionOnSet(cashRefunds, OrdersOf(t)) - cashRefunds[o] + cashRefunds'[o]
        BY <2>2, <3>1, <3>2, SumChanges
      <3>4. ExpectedCash(t) = drawer
        BY <1>1, <2>1, <2>3 DEF DrawerInv, OwnSessionAccounted
      <3>5. ExpectedCash(t)' = cashIn[t] + moves[t] - SumFunctionOnSet(cashRefunds', OrdersOf(t))
        <4>1. ExpectedCash(t)' = cashIn'[t] + moves'[t] - SumFunctionOnSet(cashRefunds', OrdersOf(t)')
          BY Zenon DEF ExpectedCash, OrdersOf
        <4> QED
          BY <1>1, <2>1, <4>1, Zenon
      <3> QED
        BY <1>3, <2>2, <3>1, <3>3, <3>4, <3>5, RefundsTyped
    <2>4. OwnSessionAccounted'
      BY <2>1, <2>3 DEF OwnSessionAccounted
    <2>5. \A p \in Order : ~Exists(p)' => session'[p] = NoSession /\ cashRefunds'[p] = 0
      BY <1>1, <2>1, <2>2 DEF DrawerInv
    <2> QED
      BY <1>1, <2>1, <2>4, <2>5 DEF DrawerInv
  <1> QED
    BY <1>2, <1>3, Zenon DEF RefundOrder

LEMMA DrawerSession ==
    ASSUME TypeOK, DrawerInv, NEW s \in Session,
           CashOpen(s) \/ CashClose(s) \/ \E n \in {-1, 1} : CashMovement(s, n)
    PROVE  DrawerInv'
  <1>1. UNCHANGED <<status, session, cashRefunds, cashIn>>
    BY DEF CashOpen, CashClose, CashMovement, moneyVars
  <1>2. /\ \A t : OrdersOf(t)' = OrdersOf(t)
        /\ \A p \in Order : Exists(p)' <=> Exists(p)
    BY <1>1 DEF OrdersOf, Exists
  <1>3. \A t : ExpectedCash(t)' = cashIn[t] + moves'[t] - SumFunctionOnSet(cashRefunds, OrdersOf(t))
    <2>1. \A t : ExpectedCash(t)' = cashIn'[t] + moves'[t]
                                      - SumFunctionOnSet(cashRefunds', OrdersOf(t)')
      BY Zenon DEF ExpectedCash, OrdersOf
    <2> QED
      BY <1>1, <1>2, <2>1, Zenon
  <1>4. CASE CashOpen(s)
    <2>1. /\ OpenSessions = {} /\ sstatus[s] = "none" /\ drawer' = 0 /\ moves' = moves
          /\ sstatus' = [sstatus EXCEPT ![s] = "OPEN"]
      BY <1>4 DEF CashOpen
    <2>2. OpenSessions' = {s} /\ sstatus'[s] = "OPEN"
          /\ \A t \in Session : t # s => sstatus'[t] = sstatus[t]
      BY <2>1 DEF OpenSessions, TypeOK
    <2>3. cashIn[s] = 0 /\ moves'[s] = 0 /\ OrdersOf(s) = {}
      BY <2>1 DEF DrawerInv
    <2>4. SumFunctionOnSet(cashRefunds, OrdersOf(s)) = 0
      BY <2>3, SumEmpty, Zenon
    <2>5. ExpectedCash(s)' = drawer'
      BY <1>3, <2>1, <2>3, <2>4
    <2>6. OwnSessionAccounted'
      BY <2>2, <2>5 DEF OwnSessionAccounted
    <2> QED
      BY <1>1, <1>2, <2>1, <2>2, <2>6 DEF DrawerInv
  <1>5. CASE CashClose(s)
    <2>1. /\ drawer' = drawer /\ moves' = moves
          /\ sstatus[s] = "OPEN" /\ sstatus' = [sstatus EXCEPT ![s] = "CLOSED"]
      BY <1>5 DEF CashClose
    <2>2. /\ OpenSessions' \subseteq OpenSessions /\ OpenSessions \subseteq Session
          /\ \A t \in Session : sstatus'[t] = "none" => sstatus[t] = "none"
      BY <2>1 DEF OpenSessions, TypeOK
    <2>3. \A t : ExpectedCash(t)' = ExpectedCash(t)
      BY <1>1, <2>1 DEF ExpectedCash
    <2>4. OwnSessionAccounted'
      BY <1>1, <1>2, <2>1, <2>2, <2>3 DEF DrawerInv, OwnSessionAccounted
    <2> QED
      BY <1>1, <1>2, <2>1, <2>2, <2>4 DEF DrawerInv
  <1>6. ASSUME NEW n \in {-1, 1}, CashMovement(s, n)
        PROVE  DrawerInv'
    <2>1. /\ sstatus[s] = "OPEN" /\ drawer' = drawer + n /\ sstatus' = sstatus
          /\ moves' = [moves EXCEPT ![s] = @ + n]
      BY <1>6 DEF CashMovement, Put
    <2>2. OpenSessions' = OpenSessions /\ s \in OpenSessions
      BY <2>1 DEF OpenSessions
    <2>3. /\ moves'[s] = moves[s] + n
          /\ \A t \in Session : t # s => moves'[t] = moves[t]
      BY <2>1 DEF TypeOK
    <2>4. ASSUME NEW t \in OpenSessions, \A p \in Order : Exists(p)' => session'[p] = t
          PROVE  ExpectedCash(t)' = drawer'
      <3>1. t = s
        BY <2>2 DEF DrawerInv
      <3>2. ExpectedCash(s) = drawer
        BY <1>1, <1>2, <2>2, <2>4, <3>1 DEF DrawerInv, OwnSessionAccounted
      <3>3. ExpectedCash(s)' = cashIn[s] + moves'[s] - SumFunctionOnSet(cashRefunds, OrdersOf(s))
        BY <1>3
      <3> QED
        BY <2>1, <2>3, <3>1, <3>2, <3>3, RefundsTyped
    <2>5. OwnSessionAccounted'
      BY <2>2, <2>4 DEF OwnSessionAccounted
    <2>6. \A t \in Session : sstatus'[t] = "none" => moves'[t] = moves[t]
      BY <2>1, <2>3
    <2> QED
      BY <1>1, <1>2, <2>1, <2>2, <2>5, <2>6 DEF DrawerInv
  <1> QED
    BY <1>4, <1>5, <1>6

LEMMA DrawerStep ==
    ASSUME TypeOK, DrawerInv, [Next]_vars
    PROVE  DrawerInv'
  <1> USE DEF billVars, moneyVars, sessionVars
  <1>1. ASSUME NEW o \in Order, OpenOrder(o)
        PROVE  DrawerInv'
    <2>1. \A p \in Order : Exists(p)' <=> Exists(p) \/ p = o
      BY <1>1 DEF OpenOrder, Exists, TypeOK
    <2>2. /\ ~Exists(o) /\ session' = [session EXCEPT ![o] = ActiveSession]
          /\ UNCHANGED <<cashRefunds, cashIn, moves, sstatus, drawer>>
      BY <1>1 DEF OpenOrder
    <2>3. ActiveSession # NoSession => sstatus[ActiveSession] # "none"
      BY <1>1, SessionsOfOrders
    <2> QED
      BY <2>1, <2>2, <2>3, ActiveSessionTyped, DrawerOrder
  <1>2. ASSUME NEW o \in Order, NEW new \in Order, NEW n, SplitOrder(o, new, n)
        PROVE  DrawerInv'
    <2>1. \A p \in Order : Exists(p)' <=> Exists(p) \/ p = new
      BY <1>2 DEF SplitOrder, Exists, TypeOK
    <2>2. /\ ~Exists(new) /\ session' = [session EXCEPT ![new] = session[o]]
          /\ UNCHANGED <<cashRefunds, cashIn, moves, sstatus, drawer>>
      BY <1>2 DEF SplitOrder
    <2>3. session[o] # NoSession => sstatus[session[o]] # "none"
      BY SessionsOfOrders
    <2>4. session[o] \in Session \cup {NoSession}
      BY DEF TypeOK
    <2> QED
      BY <2>1, <2>2, <2>3, <2>4, DrawerOrder
  <1>3. ASSUME NEW o \in Order,
               \/ AddItem(o) \/ UpdateItemQuantity(o)
               \/ CancelItem(o) \/ RowRevived(o) \/ CancelOrder(o)
               \/ \E source \in Order : MergeOrders(o, source)
               \/ \E c \in Coupon, n \in 1 .. MaxDiscount : ApplyCoupon(o, c, n)
               \/ \E n \in 1 .. MaxDiscount : ApplyManualDiscount(o, n)
        PROVE  DrawerInv'
    <2>1. UNCHANGED <<session, cashRefunds, cashIn, moves, sstatus, drawer>>
      BY <1>3 DEF AddItem, UpdateItemQuantity, CancelItem, RowRevived, Edit, CancelOrder,
                  MergeOrders, ApplyCoupon, ApplyManualDiscount
    <2>2. \A p \in Order : Exists(p)' <=> Exists(p)
      BY <1>3 DEF AddItem, UpdateItemQuantity, CancelItem, RowRevived, Edit, CancelOrder,
                  MergeOrders, ApplyCoupon, ApplyManualDiscount, Exists, TypeOK
    <2> QED
      BY <2>1, <2>2, DrawerKept
  <1>4. CASE UNCHANGED vars
    BY <1>4, DrawerKept DEF vars, Exists
  <1> QED
    BY <1>1, <1>2, <1>3, <1>4, DrawerPayment, DrawerRefund, DrawerSession DEF Next

(* While every order was opened in the open session, expected_cash is the cash
   in the drawer (CashSession.expected_cash). *)
THEOREM OwnSessionIsAccounted == Spec => []OwnSessionAccounted
  <1>1. DrawerInv => OwnSessionAccounted
    BY DEF DrawerInv
  <1>2. TypeOK /\ DrawerInv /\ [Next]_vars => DrawerInv'
    BY DrawerStep
  <1> QED
    BY <1>1, <1>2, DrawerInit, TillTypeCorrect, PTL DEF Spec
=============================================================================
