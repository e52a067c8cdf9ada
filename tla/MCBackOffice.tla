---------------------------- MODULE MCBackOffice ----------------------------
(***************************************************************************)
(* The back office on small instances: stock with its documents, the       *)
(* customers, the development center and the numbers of documents.  The    *)
(* parts share nothing but the clients, so that a step of one leaves the   *)
(* others as they are; they are checked in one run, in which only one of   *)
(* them leaves its initial state.                                          *)
(***************************************************************************)
EXTENDS StockDocuments, Customers, DevCenter, DocumentNumbers

CONSTANTS flour, cheese, pizza, main, bar, menu, page, p1, p2

Recipes == pizza :> {flour, cheese}
Targets == p1 :> {menu} @@ p2 :> {menu, page}

Clients == Permutations(Client)

stockPart == <<vars, documentVars>>

Requests(f) == {c \in Client : f[c] # Idle}

(* Bounds of the stock documents. While there is one, the stock elsewhere stays
   empty and no sale goes beyond the books; and there is one document. *)
Document == purchase # "none" \/ count # "none"

StockOfDocument ==
    Document => /\ \A c \in Cell : c[2] # Depot => quantity[c] = 0 /\ batches[c] = <<>>
                /\ \A c \in Cell : short[c] = 0
                /\ purchase = "none" \/ count = "none"

(* Orders: of two flour and one cheese; nothing else moves, and two deliveries
   at once are of flour only. *)
SmallPurchase ==
    purchase # "none" =>
        /\ \A i \in Ingredient : quantity[<<i, Depot>>] = delivered[i]
        /\ sale[pizza] = "open"
        /\ line[cheese].ordered <= 1
        /\ \A c \in Requests(task) : "post" \in DOMAIN task[c] =>
              task[c].post[cheese] <= IF Cardinality(Requests(task)) = 1 THEN 1 ELSE 0

(* Counts: of at most one cheese; only flour moves, in one batch, and two
   requests at once are about flour. *)
SmallCount ==
    count # "none" =>
        /\ \A i \in Ingredient : Len(batches[<<i, Depot>>]) <= 1
        /\ quantity[<<cheese, Depot>>] <= 1 /\ cheese \notin touched /\ counts[cheese].counted <= 1
        /\ Cardinality(Requests(task)) = 2 =>
              /\ touched = {} /\ quantity[<<cheese, Depot>>] = 0
              /\ counts[cheese].counted = counts[cheese].expected
              /\ \A c \in Client : "n" \in DOMAIN task[c] => task[c].at = flour

(* Once requests have met, the points stay near zero. *)
SmallAccount ==
    LET near == IF overlapped THEN 1 ELSE 2
    IN  customer.points \in -near .. near /\ ledger \in -near .. near

(* Two developers at once are applying or taking back proposals of the file
   menu alone, none of them rejected, tested or torn; p2 is made after p1,
   which from then on does not fail and is neither tested nor rejected; the
   tests of p1 fail; p2 is not tested, and rejected only as long as nothing
   became of it. *)
SmallTree ==
    /\ Cardinality(snapshots) <= 2
    /\ proposal[p2].status # "none" =>
          /\ proposal[p1].status \notin {"none", "draft", "failed", "rejected"}
          /\ proposal[p1].tested = "no"
    /\ proposal[p2].status = "rejected" => p2 \notin pending /\ proposal[p2].snapshot = {}
    /\ proposal[p1].tested # "passed" /\ proposal[p2].tested = "no"
    /\ Cardinality(Requests(developer)) = 2 =>
          /\ tree[page] = "none" /\ tree[menu] # "torn"
          /\ \A c \in Client :
                developer[c].pc \notin {"ask", "store", "unlink"} /\ page \notin developer[c].todo
          /\ \A p \in Proposal : proposal[p].tested = "no" /\ proposal[p].status # "rejected"

-----------------------------------------------------------------------------
BackOfficeInit == DocumentsInit /\ CustomersInit /\ DevCenterInit /\ NumbersInit

BackOfficeNext ==
    \/ /\ CustomersInit /\ DevCenterInit /\ NumbersInit
       /\ DocumentsNext /\ (StockOfDocument /\ SmallPurchase /\ SmallCount)'
       /\ UNCHANGED <<customersVars, devCenterVars, numbersVars>>
    \/ /\ DocumentsInit /\ DevCenterInit /\ NumbersInit
       /\ CustomersNext /\ SmallAccount'
       /\ UNCHANGED <<stockPart, devCenterVars, numbersVars>>
    \/ /\ DocumentsInit /\ CustomersInit /\ NumbersInit
       /\ DevCenterNext /\ SmallTree'
       /\ UNCHANGED <<stockPart, customersVars, numbersVars>>
    \/ /\ DocumentsInit /\ CustomersInit /\ DevCenterInit
       /\ NumbersNext
       /\ UNCHANGED <<stockPart, customersVars, devCenterVars>>

BackOfficeSpec ==
    BackOfficeInit /\ [][BackOfficeNext]_<<stockPart, customersVars, devCenterVars, numbersVars>>

BackOfficeTypeOK ==
    TypeOK /\ DocumentsTypeOK /\ CustomersTypeOK /\ DevCenterTypeOK /\ NumbersTypeOK
=============================================================================
