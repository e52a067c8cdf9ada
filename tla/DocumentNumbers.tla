-------------------------- MODULE DocumentNumbers --------------------------
(***************************************************************************)
(* The numbers of one kind of document on one day (daily_sequence_number): *)
(* orders, kitchen tickets, purchase orders, counts, cash sessions.        *)
(*                                                                         *)
(* The next number is one more than the last of the visible documents, in  *)
(* the order of the texts, which are padded to a width; numbers are unique *)
(* among all rows, also those deleted softly.  The REST interface creates  *)
(* and deletes orders without a transaction.                               *)
(***************************************************************************)
EXTENDS Integers, FiniteSets, Clients

CONSTANTS
    Radix,      \* 10
    Limit,      \* the first number wider than the padding, 10000
    MaxNumber   \* bound: numbers given out, all of one digit more at most

ASSUME NumbersAssumption ==
    /\ Radix \in Nat /\ Limit \in Nat /\ MaxNumber \in Nat
    /\ 2 <= Radix /\ 1 < Limit /\ MaxNumber < Radix * Limit

VARIABLES
    issued,     \* the numbers of all rows
    removed,    \* those of deleted rows
    asked       \* [Client -> the number it was given and is about to insert]

numbersVars == <<issued, removed, asked>>

Number == 1 .. MaxNumber + 1

NumbersTypeOK ==
    /\ issued \subseteq Number
    /\ removed \subseteq issued
    /\ asked \in [Client -> Number \cup {Idle}]

NumbersInit == issued = {} /\ removed = {} /\ asked = [c \in Client |-> Idle]

(* Where the text of n comes among the others: a wider one after those that
   are a beginning of it. *)
TextRank(n) == IF n < Limit THEN 2 * Radix * n ELSE 2 * n + 1

Visible == issued \ removed

(* Mutant: the documents are counted. *)
NextByCount == Cardinality(Visible) + 1

NextNumber ==
    IF Visible = {} THEN 1
    ELSE 1 + CHOOSE n \in Visible : \A m \in Visible : TextRank(m) <= TextRank(n)

(* A number that exists is refused by the database, and the request fails. *)
Insert(n) == issued' = issued \cup {n}

(* The services create documents in their transaction. *)
CreateInService ==
    /\ NextNumber <= MaxNumber /\ NextNumber \notin issued
    /\ Insert(NextNumber)
    /\ UNCHANGED <<removed, asked>>

AskNumber(c) ==
    /\ asked[c] = Idle /\ NextNumber <= MaxNumber
    /\ asked' = [asked EXCEPT ![c] = NextNumber]
    /\ UNCHANGED <<issued, removed>>

CreateDirectly(c) ==
    /\ asked[c] # Idle
    /\ IF asked[c] \in issued THEN UNCHANGED issued ELSE Insert(asked[c])
    /\ asked' = [asked EXCEPT ![c] = Idle]
    /\ UNCHANGED removed

(* destroy of the REST interface: orders are marked as deleted. *)
Destroy(n) ==
    /\ n \in Visible
    /\ removed' = removed \cup {n}
    /\ UNCHANGED <<issued, asked>>

NumbersNext ==
    \/ CreateInService
    \/ \E c \in Client : AskNumber(c) \/ CreateDirectly(c)
    \/ \E n \in Number : Destroy(n)

NumbersSpec == NumbersInit /\ [][NumbersNext]_numbersVars

-----------------------------------------------------------------------------
(* "Produces a document number that increases within the day"
   (daily_sequence_number): the next document gets a number that no other row
   has, whatever was created at the same time, as long as the numbers fit the
   padding and no deleted document is numbered above all visible ones. *)
NumberIsNew ==
    /\ \A n \in issued : n < Limit
    /\ \A d \in removed : \E n \in Visible : d < n
    => NextNumber \notin issued
=============================================================================
