--------------------------- MODULE SupplierCredit ---------------------------
(***************************************************************************)
(* What the shop owes its suppliers, and the counted goods it owes it for: *)
(* purchases and their reversal (purchase.service.ts), payments allocated  *)
(* to them and voided again (supplier-payment.service.ts), and the ledger  *)
(* (supplier-ledger.service.ts).                                           *)
(*                                                                         *)
(* A purchase and the payment entered with it are one transaction whose    *)
(* rows nobody else sees before its commit.  A payment locks each purchase *)
(* before it reads what is owed on it; a reversal and a void read first,   *)
(* outside their transaction, and their first UPDATE decides again.        *)
(*                                                                         *)
(* Three kinds of row make a request wait while it holds another: the      *)
(* purchases, the shelf (branch_stock, moveStock), and the drawer of the   *)
(* day, which the first cash posting inserts and keeps to its commit       *)
(* (openDrawerDay).  A payment posts its cash before it locks purchases, a *)
(* reversal claims its purchase before it takes the goods off the shelf,   *)
(* a sale or a paid purchase posts its cash while it holds the shelf.      *)
(*                                                                         *)
(* The code sums allocations and ledger entries where this module keeps    *)
(* the running totals paid and balance; RowsAddUp compares them with the   *)
(* rows.  The handsets of a purchase are in IdentifierClaims.              *)
(***************************************************************************)
EXTENDS Integers, FiniteSets, Sums

CONSTANTS
    Purchases,      \* rows of purchase, numbered from the oldest
    Suppliers,
    SupplierOf,     \* purchase.supplier_id
    Total,          \* purchase.total_paise
    Pieces,         \* what its counted lines bring, all of one product at one branch and day
    Payments,       \* rows of supplier_payment
    Amounts,        \* amounts that are paid or allocated
    Clients,        \* requests in flight
    MaxSold,        \* bound: pieces the shop sells
    None

ASSUME SupplierAssumption ==
    /\ IsFiniteSet(Purchases) /\ Purchases \subseteq Nat
    /\ SupplierOf \in [Purchases -> Suppliers]
    /\ Total \in [Purchases -> Nat] /\ Pieces \in [Purchases -> Nat]
    /\ Amounts \subseteq Nat \ {0} /\ MaxSold \in Nat
    /\ None \notin Payments /\ None \notin Clients /\ None \notin Suppliers
    /\ "OPEN" \notin Clients \union {None}

VARIABLES
    status,         \* purchase.status, NONE before it is entered
    paid,           \* purchasePaidPaise
    payments,       \* supplier_payment with its allocations
    balance,        \* the sum of the supplier's ledger entries
    shelf,          \* branch_stock.quantity of the product
    sold,           \* history: the pieces that were sold
    lock,           \* who holds the purchase's row
    shelfLock,      \* who holds the row of branch_stock
    drawer,         \* the day's drawer: None, who has inserted it uncommitted, or OPEN
    txn

rows == <<status, paid, payments, balance, shelf, sold>>
vars == <<rows, lock, shelfLock, drawer, txn>>

Idle == [pc |-> "idle"]
Nothing == [p \in Purchases |-> 0]
NoPayment == [state |-> "none", supplier |-> None, amount |-> 0, alloc |-> Nothing]

Init ==
    /\ status = [p \in Purchases |-> "NONE"]
    /\ paid = Nothing
    /\ payments = [m \in Payments |-> NoPayment]
    /\ balance = [s \in Suppliers |-> 0]
    /\ shelf = 0 /\ sold = 0
    /\ lock = [p \in Purchases |-> None]
    /\ shelfLock = None /\ drawer = None
    /\ txn = [c \in Clients |-> Idle]

\* One purchase and how much of it.
Only(p, amount) == [Nothing EXCEPT ![p] = amount]

\* postLedgerEntry.
Post(s, amount) == balance' = [balance EXCEPT ![s] = @ + amount]

\* Mutant of Released: a request that ends keeps its row locks.
LocksKept(c) == lock
Released(c) == [p \in Purchases |-> IF lock[p] = c THEN None ELSE lock[p]]

\* The end of a transaction, committed or not, gives its row locks back.
End(c) ==
    /\ txn' = [txn EXCEPT ![c] = Idle]
    /\ lock' = Released(c)
    /\ shelfLock' = IF shelfLock = c THEN None ELSE shelfLock

\* The drawer it opened stays, or goes with it.
Kept(c) == IF drawer = c THEN "OPEN" ELSE drawer
Undone(c) == IF drawer = c THEN None ELSE drawer

\* An error anywhere rolls all of it back.
RollBack(c) == End(c) /\ drawer' = Undone(c) /\ UNCHANGED rows

Abort(c) == txn[c] # Idle /\ RollBack(c)

\* postByPaymentMethod as the last thing a transaction waits for: another method moves no cash;
\* cash waits for a drawer that somebody else is opening.
PostCash ==
    \/ UNCHANGED drawer
    \/ drawer \notin Clients /\ drawer' = "OPEN"

\* A payment nobody is entering.
Fresh(m) ==
    /\ payments[m] = NoPayment
    /\ \A c \in Clients : txn[c].pc = "pay" => txn[c].payment # m

-----------------------------------------------------------------------------
(* createPurchase, and the sales that carry the goods away.                *)

\* moveStock, of a purchase or a sale: its UPDATE holds the shelf to the commit.
TakeShelf(c) ==
    /\ txn[c] = Idle
    /\ shelfLock = None
    /\ txn' = [txn EXCEPT ![c] = [pc |-> "stock"]]
    /\ shelfLock' = c
    /\ UNCHANGED <<rows, lock, drawer>>

\* A purchase that brings counted goods holds the shelf by now.
Purchase(c, p) ==
    /\ IF Pieces[p] > 0 THEN txn[c].pc = "stock" ELSE txn[c] = Idle
    /\ status[p] = "NONE"
    /\ status' = [status EXCEPT ![p] = "CONFIRMED"]
    /\ shelf' = shelf + Pieces[p]
    /\ UNCHANGED sold
    /\ End(c)

EnterPurchase(c, p) ==
    /\ Purchase(c, p)
    /\ Post(SupplierOf[p], Total[p])
    /\ UNCHANGED <<paid, payments, drawer>>

\* "Paid as it was entered", in whole or in part: it settles this bill and no other.
EnterPaidPurchase(c, p, m, amount) ==
    /\ amount <= Total[p]
    /\ Fresh(m)
    /\ Purchase(c, p)
    /\ PostCash
    /\ payments' = [payments EXCEPT ![m] =
           [state |-> "live", supplier |-> SupplierOf[p], amount |-> amount,
            alloc |-> Only(p, amount)]]
    /\ paid' = [paid EXCEPT ![p] = amount]
    /\ Post(SupplierOf[p], Total[p] - amount)

\* moveStock refuses to go below zero.
Sell(c) ==
    /\ txn[c].pc = "stock"
    /\ shelf > 0 /\ sold < MaxSold
    /\ shelf' = shelf - 1 /\ sold' = sold + 1
    /\ PostCash
    /\ UNCHANGED <<status, paid, payments, balance>>
    /\ End(c)

-----------------------------------------------------------------------------
(* recordSupplierPayment.                                                  *)

Owing(p) == Total[p] - paid[p]

\* autoAllocate: the open purchases of the supplier, oldest first, as read without a lock.
AutoAllocate(s, amount) ==
    LET open == {p \in Purchases :
                    status[p] = "CONFIRMED" /\ SupplierOf[p] = s /\ Owing(p) > 0}
        due == [p \in Purchases |-> Owing(p)]
        before(p) == SumOver({q \in open : q < p}, due)
        take(p) == IF amount - before(p) < due[p] THEN amount - before(p) ELSE due[p]
    IN  [p \in Purchases |-> IF p \in open /\ before(p) < amount THEN take(p) ELSE 0]

\* The cash is posted first: the payment waits for a drawer somebody else is opening before it
\* holds anything, or opens the drawer and keeps it.
StartPayment(c, m, s, amount, plan) ==
    /\ txn[c] = Idle
    /\ Fresh(m)
    /\ txn' = [txn EXCEPT ![c] = [pc |-> "pay", payment |-> m, supplier |-> s,
                                  amount |-> amount, left |-> plan, done |-> Nothing]]
    /\ \/ UNCHANGED drawer
       \/ drawer = None /\ drawer' = c
    /\ UNCHANGED <<rows, lock, shelfLock>>

\* The page of one purchase names it; otherwise the oldest are settled first.
PayPurchase(c, m, p, amount, part) ==
    StartPayment(c, m, SupplierOf[p], amount, Only(p, part))
PayOldest(c, m, s, amount) ==
    StartPayment(c, m, s, amount, AutoAllocate(s, amount))

\* Mutant of IsNext: the purchases are locked in any order.
IsAny(x, p) == TRUE

\* The allocations are made in the order of the list.
IsNext(x, p) == \A q \in Purchases : x.left[q] > 0 => p <= q

\* Mutant of Free: the purchase is read without FOR UPDATE.
NeverHeld(c, p) == TRUE
Free(c, p) == lock[p] \in {None, c}

\* Mutant of Payable: a payment does not ask whether the purchase stands.
PayableAnyway(p) == status[p] # "NONE"
Payable(p) == status[p] = "CONFIRMED"

\* The request with its allocation to purchase p made.
Allocated(x, p) ==
    [x EXCEPT !.left = [x.left EXCEPT ![p] = 0], !.done = [x.done EXCEPT ![p] = @ + x.left[p]]]

\* Lock the purchase, look at what it owes now, allocate; or throw, which rolls all of it back.
AllocateNext(c, p) ==
    LET x == txn[c] IN
    /\ x.pc = "pay"
    /\ x.left[p] > 0 /\ IsNext(x, p)
    /\ Free(c, p)
    /\ IF Payable(p) /\ x.left[p] <= Owing(p) - x.done[p]
       THEN /\ txn' = [txn EXCEPT ![c] = Allocated(x, p)]
            /\ lock' = [lock EXCEPT ![p] = c]
            /\ UNCHANGED <<rows, shelfLock, drawer>>
       ELSE RollBack(c)

CommitPayment(c) ==
    LET x == txn[c] IN
    /\ x.pc = "pay"
    /\ x.left = Nothing
    /\ IF SumOver(Purchases, x.done) > x.amount
       THEN RollBack(c)
       ELSE /\ payments' = [payments EXCEPT ![x.payment] =
                    [state |-> "live", supplier |-> x.supplier, amount |-> x.amount,
                     alloc |-> x.done]]
            /\ paid' = [p \in Purchases |-> paid[p] + x.done[p]]
            /\ Post(x.supplier, -x.amount)
            /\ drawer' = Kept(c)
            /\ UNCHANGED <<status, shelf, sold>>
            /\ End(c)

-----------------------------------------------------------------------------
(* voidSupplierPayment and reversePurchase.                                *)

BeginVoid(c, m) ==
    /\ txn[c] = Idle
    /\ payments[m].state = "live"
    /\ txn' = [txn EXCEPT ![c] = [pc |-> "void", payment |-> m]]
    /\ UNCHANGED <<rows, lock, shelfLock, drawer>>

\* The UPDATE decides; the loser is told that the payment is already void.
CommitVoid(c) ==
    LET m == txn[c].payment IN
    /\ txn[c].pc = "void"
    /\ IF payments[m].state = "live"
       THEN /\ payments' = [payments EXCEPT ![m].state = "void"]
            /\ paid' = [p \in Purchases |-> paid[p] - payments[m].alloc[p]]
            /\ Post(payments[m].supplier, payments[m].amount)
            /\ UNCHANGED <<status, shelf, sold>>
       ELSE UNCHANGED rows
    /\ UNCHANGED drawer
    /\ End(c)

\* The status and the payments, read outside the transaction; the claim looks at the status
\* again, and at the payments nobody does.
BeginReversal(c, p) ==
    /\ txn[c] = Idle
    /\ status[p] = "CONFIRMED"
    /\ paid[p] <= 0
    /\ txn' = [txn EXCEPT ![c] = [pc |-> "reverse", purchase |-> p]]
    /\ UNCHANGED <<rows, lock, shelfLock, drawer>>

\* Mutant of Unclaimed: the reversal trusts the status it read.
ReadConfirmed(p) == TRUE
Unclaimed(p) == status[p] = "CONFIRMED"

\* The conditional UPDATE waits for whoever holds the purchase, and holds it from then on.
ClaimReversal(c) ==
    LET p == txn[c].purchase IN
    /\ txn[c].pc = "reverse"
    /\ lock[p] = None
    /\ IF Unclaimed(p)
       THEN /\ txn' = [txn EXCEPT ![c].pc = "claimed"]
            /\ lock' = [lock EXCEPT ![p] = c]
            /\ UNCHANGED shelfLock
       ELSE End(c)
    /\ UNCHANGED <<rows, drawer>>

\* The goods, for which it waits, and the ledger; goods that are no longer there roll it back.
CommitReversal(c) ==
    LET p == txn[c].purchase IN
    /\ txn[c].pc = "claimed"
    /\ Pieces[p] > 0 => shelfLock = None
    /\ IF shelf >= Pieces[p]
       THEN /\ status' = [status EXCEPT ![p] = "REVERSED"]
            /\ shelf' = shelf - Pieces[p]
            /\ Post(SupplierOf[p], -Total[p])
            /\ UNCHANGED <<paid, payments, sold>>
       ELSE UNCHANGED rows
    /\ UNCHANGED drawer
    /\ End(c)

-----------------------------------------------------------------------------
Stock(c) ==
    \/ TakeShelf(c) \/ Sell(c)
    \/ \E p \in Purchases :
           EnterPurchase(c, p) \/ \E m \in Payments, a \in Amounts : EnterPaidPurchase(c, p, m, a)

Begin(c) ==
    \/ \E m \in Payments, a \in Amounts :
           \/ \E p \in Purchases, part \in Amounts :
                  status[p] # "NONE" /\ PayPurchase(c, m, p, a, part)
           \/ \E s \in Suppliers : PayOldest(c, m, s, a)
    \/ \E m \in Payments : BeginVoid(c, m)
    \/ \E p \in Purchases : BeginReversal(c, p)

Finish(c) ==
    \/ \E p \in Purchases : AllocateNext(c, p)
    \/ CommitPayment(c) \/ CommitVoid(c) \/ ClaimReversal(c) \/ CommitReversal(c)

Next == \E c \in Clients : Stock(c) \/ Begin(c) \/ Finish(c) \/ Abort(c)

Spec == Init /\ [][Next]_vars

-----------------------------------------------------------------------------
Payment == [state : {"none", "live", "void"}, supplier : Suppliers \union {None}, amount : Nat,
            alloc : [Purchases -> Nat]]
PayTxn == [pc : {"pay"}, payment : Payments, supplier : Suppliers, amount : Nat,
           left : [Purchases -> Nat], done : [Purchases -> Nat]]
VoidTxn == [pc : {"void"}, payment : Payments]
ReverseTxn == [pc : {"reverse", "claimed"}, purchase : Purchases]
StockTxn == [pc : {"stock"}]

\* Every row and every request holds values of its type; the shelf never goes below zero, and
\* a row is locked by nobody but a request in progress that takes it.
TypeOK ==
    /\ status \in [Purchases -> {"NONE", "CONFIRMED", "REVERSED"}]
    /\ paid \in [Purchases -> Int]
    /\ payments \in [Payments -> Payment]
    /\ balance \in [Suppliers -> Int]
    /\ shelf \in Nat /\ sold \in Nat
    /\ lock \in [Purchases -> Clients \union {None}]
    /\ shelfLock \in Clients \union {None}
    /\ drawer \in Clients \union {None, "OPEN"}
    /\ txn \in [Clients -> {Idle} \union PayTxn \union VoidTxn \union ReverseTxn \union StockTxn]
    /\ \A p \in Purchases : lock[p] # None => txn[lock[p]].pc \in {"pay", "claimed"}
    /\ shelfLock # None => txn[shelfLock].pc = "stock"
    /\ drawer \in Clients => txn[drawer].pc = "pay"

\* However many people pay at once, a purchase is never settled beyond its total
\* (recordSupplierPaymentIn locks it before it reads what is owed).
NeverOverpaid == \A p \in Purchases : paid[p] <= Total[p]

\* A purchase that was reversed is never paid afterwards and never stands again, whatever a
\* payment or a second reversal had read before (the status check under the row lock and the
\* conditional claim).
ReversedIsFinal ==
    [][\A p \in Purchases : status[p] = "REVERSED" =>
           status'[p] = "REVERSED" /\ paid'[p] <= paid[p]]_vars

\* Shelf and account are what the documents add up to: a purchase brings its goods and its
\* debt once and a reversal takes both back once, a payment counts until it is voided.
RowsAddUp ==
    LET live == {m \in Payments : payments[m].state = "live"}
        standing == {p \in Purchases : status[p] = "CONFIRMED"}
    IN
    /\ shelf = SumOver(standing, Pieces) - sold
    /\ \A p \in Purchases : paid[p] = SumOver(live, [m \in Payments |-> payments[m].alloc[p]])
    /\ \A s \in Suppliers :
           balance[s] = SumOver({p \in standing : SupplierOf[p] = s}, Total)
                        - SumOver({m \in live : payments[m].supplier = s},
                                  [m \in Payments |-> payments[m].amount])

\* A request waits, or may come to wait, for another that holds the row it needs next.
Waits(c, o) ==
    /\ c # o
    /\ \/ \E p \in Purchases :
              /\ lock[p] = o
              /\ \/ txn[c].pc = "pay" /\ txn[c].left[p] > 0 /\ IsNext(txn[c], p)
                 \/ txn[c].pc = "reverse" /\ txn[c].purchase = p
       \/ txn[c].pc = "claimed" /\ Pieces[txn[c].purchase] > 0 /\ shelfLock = o
       \/ txn[c].pc = "stock" /\ drawer = o

\* Payments, reversals, purchases and sales of counted goods never all wait for one another for a
\* purchase, the shelf or the drawer, unless one of them is opening the day's drawer: of any other
\* group one waits for none of the others.  autoAllocate goes from the oldest purchase to the
\* newest whatever it read, and purchase, shelf and drawer are taken in this order by whoever does
\* not open it.  The day's first cash payment takes them the other way round: with a reversal and
\* a sale it can close a ring.
NoCircle ==
    \A group \in (SUBSET Clients) \ {{}} :
        drawer \notin group => \E c \in group : \A o \in group : ~Waits(c, o)

-----------------------------------------------------------------------------
(* What a message to the user says and the code does not do.               *)

\* "This purchase has payments against it. Void those first, then reverse it."
ReversedIsUnpaid == \A p \in Purchases : status[p] = "REVERSED" => paid[p] <= 0
=============================================================================
