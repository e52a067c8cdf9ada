----------------------------- MODULE Customers -----------------------------
(***************************************************************************)
(* A customer's account (apps/crm): loyalty points, the ledger of loyalty  *)
(* transactions, consents, and the erasure of personal data.  The number   *)
(* of visits, the turnover, tier and segment are written as the points     *)
(* are, and are left out.                                                  *)
(*                                                                         *)
(* Closing a bill credits its customer in one transaction.  The views of   *)
(* the terminals load the customer inside it; the REST interface loads it  *)
(* with the order, before.  The views of the CRM have no transaction.  An  *)
(* update saves the named fields, a form every field of the copy it holds. *)
(***************************************************************************)
EXTENDS Integers, Clients

CONSTANTS
    Bill,        \* the bills of the customer
    MaxPoints    \* bound: points of one bill, points given or taken by hand

ASSUME CustomersAssumption == MaxPoints \in Nat

VARIABLES
    customer,    \* the row: its points and whether it is erased
    consented,   \* whether a consent is recorded
    ledger,      \* the sum of the loyalty transactions
    earned,      \* the bills with an EARN transaction
    desk,        \* [Client -> its request]
    earnings,    \* history: [Bill -> how many EARN transactions it has]
    overlapped   \* history: a request met another one, or was broken off

customersVars == <<customer, consented, ledger, earned, desk, earnings, overlapped>>

Points == 0 .. MaxPoints

Account == [points : Int, erased : BOOLEAN]

Errand == [pc : {"credit", "edit", "erase", "purge", "consent", "adjust", "book"},
           copy : Account, bill : Bill \cup {Idle}, points : Int]

ASSUME IdleAssumption == Idle \notin Errand

CustomersTypeOK ==
    /\ customer \in Account
    /\ consented \in BOOLEAN
    /\ ledger \in Int
    /\ earned \subseteq Bill
    /\ desk \in [Client -> Errand \cup {Idle}]
    /\ earnings \in [Bill -> Nat] /\ overlapped \in BOOLEAN

CustomersInit ==
    /\ customer = [points |-> 0, erased |-> FALSE]
    /\ consented = FALSE
    /\ ledger = 0 /\ earned = {}
    /\ desk = [c \in Client |-> Idle]
    /\ earnings = [b \in Bill |-> 0] /\ overlapped = FALSE

Waits(c, pc) == desk[c] # Idle /\ desk[c].pc = pc

(* A request loads the customer. *)
Opens(c, pc, b, n) ==
    /\ desk[c] = Idle
    /\ desk' = [desk EXCEPT ![c] = [pc |-> pc, copy |-> customer, bill |-> b, points |-> n]]
    /\ overlapped' = (overlapped \/ \E d \in Client : desk[d] # Idle)

Leaves(c) == desk' = [desk EXCEPT ![c] = Idle]

Proceeds(c, pc) == desk' = [desk EXCEPT ![c].pc = pc]

-----------------------------------------------------------------------------
(* Mutant: a bill may be credited again. *)
CreditsAgain(b, copy) == ~copy.erased

(* An erased customer, or a bill that has earned, is left alone. *)
Credits(b, copy) == ~copy.erased /\ b \notin earned

(* award_loyalty_points for a bill worth n points, on a copy of the customer;
   nothing is written in the ledger if it is worth none.  A bill may be closed
   twice, by requests that both loaded it before. *)
Award(b, n, copy) ==
    IF Credits(b, copy)
    THEN /\ customer' = [customer EXCEPT !.points = copy.points + n]
         /\ ledger' = ledger + n
         /\ earned' = IF n > 0 THEN earned \cup {b} ELSE earned
         /\ earnings' = IF n > 0 THEN [earnings EXCEPT ![b] = @ + 1] ELSE earnings
    ELSE UNCHANGED <<customer, ledger, earned, earnings>>

(* close_order from a terminal, ... *)
CloseBill(b, n) ==
    /\ Award(b, n, customer)
    /\ overlapped' = (overlapped \/ \E d \in Client : desk[d] # Idle)
    /\ UNCHANGED <<consented, desk>>

(* ... and by the payment action of the REST interface. *)
BeginCredit(c, b, n) ==
    /\ Opens(c, "credit", b, n)
    /\ UNCHANGED <<customer, consented, ledger, earned, earnings>>

Credit(c) ==
    /\ Waits(c, "credit")
    /\ Award(desk[c].bill, desk[c].points, desk[c].copy)
    /\ Leaves(c)
    /\ UNCHANGED <<consented, overlapped>>

(* customer_edit, and an update by the REST interface, which does not find
   erased customers: every field of the copy is saved. *)
BeginEdit(c) ==
    /\ Opens(c, "edit", Idle, 0)
    /\ UNCHANGED <<customer, consented, ledger, earned, earnings>>

Edit(c) ==
    /\ Waits(c, "edit")
    /\ customer' = desk[c].copy
    /\ Leaves(c)
    /\ UNCHANGED <<consented, ledger, earned, earnings, overlapped>>

(* customer_anonymize: the row, with every field of the copy, then the
   consents. *)
BeginErase(c) ==
    /\ ~customer.erased
    /\ Opens(c, "erase", Idle, 0)
    /\ UNCHANGED <<customer, consented, ledger, earned, earnings>>

Anonymize(c) ==
    /\ Waits(c, "erase")
    /\ customer' = [desk[c].copy EXCEPT !.erased = TRUE]
    /\ Proceeds(c, "purge")
    /\ UNCHANGED <<consented, ledger, earned, earnings, overlapped>>

DeleteConsents(c) ==
    /\ Waits(c, "purge")
    /\ consented' = FALSE
    /\ Leaves(c)
    /\ UNCHANGED <<customer, ledger, earned, earnings, overlapped>>

(* customer_consent does not ask whether the customer is erased. *)
RecordConsent ==
    /\ consented' = TRUE
    /\ UNCHANGED <<customer, ledger, earned, desk, earnings, overlapped>>

(* loyalty_adjust: the points, then the transaction. *)
BeginAdjust(c, n) ==
    /\ n # 0
    /\ Opens(c, "adjust", Idle, n)
    /\ UNCHANGED <<customer, consented, ledger, earned, earnings>>

SavePoints(c) ==
    /\ Waits(c, "adjust")
    /\ customer' = [customer EXCEPT !.points = desk[c].copy.points + desk[c].points]
    /\ Proceeds(c, "book")
    /\ UNCHANGED <<consented, ledger, earned, earnings, overlapped>>

(* Mutant: points taken away are not booked. *)
BookPointsGiven(c) ==
    /\ Waits(c, "book")
    /\ ledger' = IF desk[c].points > 0 THEN ledger + desk[c].points ELSE ledger
    /\ Leaves(c)
    /\ UNCHANGED <<customer, consented, earned, earnings, overlapped>>

BookPoints(c) ==
    /\ Waits(c, "book")
    /\ ledger' = ledger + desk[c].points
    /\ Leaves(c)
    /\ UNCHANGED <<customer, consented, earned, earnings, overlapped>>

GiveUp(c) ==
    /\ desk[c] # Idle
    /\ Leaves(c)
    /\ overlapped' = TRUE
    /\ UNCHANGED <<customer, consented, ledger, earned, earnings>>

CustomersNext ==
    \/ \E b \in Bill, n \in Points : CloseBill(b, n)
    \/ RecordConsent
    \/ \E c \in Client :
          \/ \E b \in Bill, n \in Points : BeginCredit(c, b, n)
          \/ \E n \in -MaxPoints .. MaxPoints : BeginAdjust(c, n)
          \/ Credit(c) \/ BeginEdit(c) \/ Edit(c)
          \/ BeginErase(c) \/ Anonymize(c) \/ DeleteConsents(c)
          \/ SavePoints(c) \/ BookPoints(c) \/ GiveUp(c)

CustomersSpec == CustomersInit /\ [][CustomersNext]_customersVars

-----------------------------------------------------------------------------
(* The customer has the points that the ledger explains, as long as requests
   come one by one and none breaks off: no sequence of closings, corrections,
   edits and an erasure loses or invents a point (award_loyalty_points,
   loyalty_adjust). *)
AccountAgrees ==
    ~overlapped /\ (\A c \in Client : ~Waits(c, "book")) => customer.points = ledger

(* However often and however concurrently a bill is closed, it earns once
   (award_loyalty_points). *)
EarnedOnce == \A b \in Bill : earnings[b] <= 1
=============================================================================
