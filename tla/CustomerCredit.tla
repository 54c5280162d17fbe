--------------------------- MODULE CustomerCredit ---------------------------
(***************************************************************************)
(* What a customer owes: bills on credit, collections allocated to them,   *)
(* part-exchanged handsets, voided receipts, returned goods and refunds    *)
(* (sale.service.ts, customer-payment.service.ts, return.service.ts,       *)
(* customer-ledger.service.ts).                                            *)
(*                                                                         *)
(* A request works in the steps the code has between its reads and its     *)
(* commit.  What a collection or a return reads of a bill it reads under   *)
(* the bill's row lock; what a void reads it checks again in its update;   *)
(* a void does not lock the bills its receipt was allocated to.            *)
(*                                                                         *)
(* The code sums rows where this module keeps the running totals received, *)
(* refunded and balance; RowsAddUp compares them with the rows.            *)
(*                                                                         *)
(* Left out: the optional saleId of acceptTradeIn, which puts a trade-in   *)
(* on a bill that exists without looking at what it owes (no page sends    *)
(* it), and linkTradeInToSale, which nothing calls.                        *)
(***************************************************************************)
EXTENDS Integers, FiniteSets, Sums

CONSTANTS
    Bills,          \* rows of sale, numbered from the oldest
    Total,          \* sale.total_paise
    Pieces,         \* how many pieces a bill sells (its one line of counted goods)
    Customers,
    WalkIn,         \* the bill names no customer
    TradeIns,       \* handsets taken in part-exchange, waiting for their bill
    Value,          \* trade_in.agreed_value_paise
    Receipts,       \* rows of customer_payment
    CounterPayments, Collections, Deductions,   \* amounts that are asked for
    Plans,          \* allocations a till asks for; otherwise it leaves them to autoAllocate
    Clients,        \* requests in flight, each at a branch with its own receipt series
    None

ASSUME CreditAssumption ==
    /\ IsFiniteSet(Bills) /\ Bills \subseteq Nat
    /\ Total \in [Bills -> Nat \ {0}] /\ Pieces \in [Bills -> Nat \ {0}]
    /\ Value \in [TradeIns -> Nat]
    /\ CounterPayments \subseteq Nat /\ Collections \subseteq Nat /\ Deductions \subseteq Nat
    /\ Plans \subseteq [Bills -> Nat]
    /\ WalkIn \notin Customers /\ None \notin Customers \union {WalkIn}
    /\ None \notin Bills /\ None \notin Clients /\ None \notin TradeIns

VARIABLES
    billedTo,       \* sale.customer_id; None before the bill exists
    counter,        \* what sale_payment holds for the bill
    received,       \* saleReceivedPaise of the bill
    returned,       \* alreadyReturnedQty of the bill's line
    goods,          \* the refundable value of what came back on it
    refunded,       \* all its refunds, in cash or to the account
    paidOut,        \* those through a payment method
    taken,          \* history: all that was ever received on it, since voided or not
    linked,         \* trade_in.sale_id
    receipts,
    balance,        \* the sum of the customer's ledger entries
    tradeLock, billLock,    \* who holds the row FOR UPDATE
    txn

rows == <<billedTo, counter, received, returned, goods, refunded, paidOut, taken, linked,
          receipts, balance>>
vars == <<rows, tradeLock, billLock, txn>>

Idle == [pc |-> "idle"]
NoReceipt == [status |-> "none", customer |-> None, amount |-> 0, alloc |-> [b \in Bills |-> 0]]

Init ==
    /\ billedTo = [b \in Bills |-> None]
    /\ counter = [b \in Bills |-> 0] /\ received = [b \in Bills |-> 0]
    /\ returned = [b \in Bills |-> 0] /\ goods = [b \in Bills |-> 0]
    /\ refunded = [b \in Bills |-> 0] /\ paidOut = [b \in Bills |-> 0]
    /\ taken = [b \in Bills |-> 0]
    /\ linked = [t \in TradeIns |-> None]
    /\ receipts = [p \in Receipts |-> NoReceipt]
    /\ balance = [k \in Customers |-> 0]
    /\ tradeLock = [t \in TradeIns |-> None] /\ billLock = [b \in Bills |-> None]
    /\ txn = [c \in Clients |-> Idle]

\* postCustomerLedgerEntry: a walk-in has no account.
Posted(k, amount) == [balance EXCEPT ![k] = @ + amount]
Post(k, amount) ==
    IF k \in Customers THEN balance' = Posted(k, amount) ELSE UNCHANGED balance

\* The end of a transaction, committed or not, gives its row locks back.
Unlock(c) ==
    /\ tradeLock' = [t \in TradeIns |-> IF tradeLock[t] = c THEN None ELSE tradeLock[t]]
    /\ billLock' = [b \in Bills |-> IF billLock[b] = c THEN None ELSE billLock[b]]

End(c) == txn' = [txn EXCEPT ![c] = Idle] /\ Unlock(c)

Abort(c) == txn[c] # Idle /\ End(c) /\ UNCHANGED rows

-----------------------------------------------------------------------------
(* createSale                                                              *)

TradeInWorth(t) == IF t = None THEN 0 ELSE Value[t]

\* Mutant of TradeInOpen: the trade-in is read without FOR UPDATE.
TradeInUnread(t) == linked[t] = None
TradeInOpen(t) == linked[t] = None /\ tradeLock[t] = None

\* What the till sends; the trade-in is locked and looked at, the amounts are checked.
BeginSale(c, b, k, paid, t) ==
    /\ txn[c] = Idle
    /\ billedTo[b] = None /\ \A o \in Clients : txn[o].pc = "sale" => txn[o].bill # b
    /\ t # None => TradeInOpen(t)
    /\ paid + TradeInWorth(t) <= Total[b]
    /\ paid + TradeInWorth(t) < Total[b] => k # WalkIn
    /\ txn' = [txn EXCEPT ![c] = [pc |-> "sale", bill |-> b, customer |-> k, paid |-> paid,
                                  trade |-> t]]
    /\ tradeLock' = [u \in TradeIns |-> IF u = t THEN c ELSE tradeLock[u]]
    /\ UNCHANGED <<rows, billLock>>

CommitSale(c) ==
    LET b == txn[c].bill
        settled == txn[c].paid + TradeInWorth(txn[c].trade)
    IN
    /\ txn[c].pc = "sale"
    /\ billedTo' = [billedTo EXCEPT ![b] = txn[c].customer]
    /\ counter' = [counter EXCEPT ![b] = txn[c].paid]
    /\ received' = [received EXCEPT ![b] = settled]
    /\ taken' = [taken EXCEPT ![b] = settled]
    /\ linked' = [t \in TradeIns |-> IF t = txn[c].trade THEN b ELSE linked[t]]
    /\ Post(txn[c].customer, Total[b] - settled)
    /\ End(c)
    /\ UNCHANGED <<returned, goods, refunded, paidOut, receipts>>

-----------------------------------------------------------------------------
(* recordCustomerPayment and voidCustomerPayment                           *)

Owing(b) == Total[b] - received[b]

\* autoAllocate: the open bills of the customer, oldest first, as read without a lock.
AutoAllocate(k, amount) ==
    LET open == {b \in Bills : billedTo[b] = k /\ Owing(b) > 0}
        due == [b \in Bills |-> Owing(b)]
        before(b) == SumOver({a \in open : a < b}, due)
        take(b) == IF amount - before(b) < due[b] THEN amount - before(b) ELSE due[b]
    IN  [b \in Bills |-> IF b \in open /\ before(b) < amount THEN take(b) ELSE 0]

BeginReceipt(c, p, k, amount) ==
    /\ txn[c] = Idle
    /\ amount > 0
    /\ receipts[p] = NoReceipt /\ \A o \in Clients : txn[o].pc = "receipt" => txn[o].receipt # p
    /\ \E plan \in Plans \union {AutoAllocate(k, amount)} :
           txn' = [txn EXCEPT ![c] = [pc |-> "receipt", receipt |-> p, customer |-> k,
                                      amount |-> amount, left |-> plan,
                                      done |-> [b \in Bills |-> 0]]]
    /\ UNCHANGED <<rows, tradeLock, billLock>>

\* Mutant of BillFree: the bill is read without FOR UPDATE.
NeverHeld(c, b) == TRUE
BillFree(c, b) == billLock[b] \in {None, c}

\* The request with its allocation to bill b made.
Allocated(x, b) ==
    [x EXCEPT !.left = [x.left EXCEPT ![b] = 0], !.done = [x.done EXCEPT ![b] = @ + x.left[b]]]

\* Lock the bill, look at what it owes now, allocate; or throw, which rolls all of it back.
AllocateNext(c, b) ==
    /\ txn[c].pc = "receipt"
    /\ txn[c].left[b] > 0
    /\ BillFree(c, b)
    /\ IF billedTo[b] = txn[c].customer /\ txn[c].left[b] <= Owing(b) - txn[c].done[b]
       THEN /\ txn' = [txn EXCEPT ![c] = Allocated(txn[c], b)]
            /\ billLock' = [billLock EXCEPT ![b] = c]
            /\ UNCHANGED tradeLock
       ELSE End(c)
    /\ UNCHANGED rows

CommitReceipt(c) ==
    LET p == txn[c].receipt
        done == txn[c].done
    IN
    /\ txn[c].pc = "receipt"
    /\ \A b \in Bills : txn[c].left[b] = 0
    /\ IF SumOver(Bills, done) > txn[c].amount
       THEN UNCHANGED rows
       ELSE /\ receipts' = [receipts EXCEPT ![p] =
                    [status |-> "live", customer |-> txn[c].customer, amount |-> txn[c].amount,
                     alloc |-> done]]
            /\ received' = [b \in Bills |-> received[b] + done[b]]
            /\ taken' = [b \in Bills |-> taken[b] + done[b]]
            /\ Post(txn[c].customer, -txn[c].amount)
            /\ UNCHANGED <<billedTo, counter, returned, goods, refunded, paidOut, linked>>
    /\ End(c)

BeginVoid(c, p) ==
    /\ txn[c] = Idle
    /\ receipts[p].status = "live"
    /\ txn' = [txn EXCEPT ![c] = [pc |-> "void", receipt |-> p]]
    /\ UNCHANGED <<rows, tradeLock, billLock>>

\* Mutant of StillLive: the update does not look at voided_at again.
ReadLive(p) == TRUE
StillLive(p) == receipts[p].status = "live"

CommitVoid(c) ==
    LET p == txn[c].receipt IN
    /\ txn[c].pc = "void"
    /\ IF StillLive(p)
       THEN /\ receipts' = [receipts EXCEPT ![p].status = "void"]
            /\ received' = [b \in Bills |-> received[b] - receipts[p].alloc[b]]
            /\ Post(receipts[p].customer, receipts[p].amount)
            /\ UNCHANGED <<billedTo, counter, returned, goods, refunded, paidOut, taken, linked>>
       ELSE UNCHANGED rows
    /\ End(c)

-----------------------------------------------------------------------------
(* createReturn                                                            *)

\* The goods at what the customer paid for them, pro rata and rounded down.
Share(b, q) == (Total[b] * q) \div Pieces[b]

\* Mutant of RefundCap: earlier refunds of the bill are forgotten.
CapOnReceived(b) == received[b]
RefundCap(b) == received[b] - refunded[b]

Least(x, y) == IF x < y THEN x ELSE y

\* What leaves the shop, or is shown as credited, for goods of this value.
Payable(b, refundable, method) ==
    CASE method = "none" -> 0
      [] method = "account" -> refundable
      [] method = "cash" -> IF RefundCap(b) <= 0 THEN 0 ELSE Least(refundable, RefundCap(b))

\* Mutant of ReturnAlone: the bill is read without FOR UPDATE.
ReturnTogether(b) == TRUE
ReturnAlone(b) == billLock[b] = None

BeginReturn(c, b, q, deduction, method) ==
    LET refundable == Share(b, q) - deduction
        payable == Payable(b, refundable, method)
    IN
    /\ txn[c] = Idle
    /\ billedTo[b] # None
    /\ ReturnAlone(b)
    /\ q > 0 /\ q <= Pieces[b] - returned[b]
    /\ refundable >= 0
    /\ method = "account" /\ payable > 0 => billedTo[b] # WalkIn
    /\ txn' = [txn EXCEPT ![c] =
           [pc |-> "return", bill |-> b, pieces |-> q, refundable |-> refundable,
            payable |-> payable, method |-> method]]
    /\ billLock' = [billLock EXCEPT ![b] = c]
    /\ UNCHANGED <<rows, tradeLock>>

CommitReturn(c) ==
    LET b == txn[c].bill
        cash == IF txn[c].method = "cash" THEN txn[c].payable ELSE 0
    IN
    /\ txn[c].pc = "return"
    /\ returned' = [returned EXCEPT ![b] = @ + txn[c].pieces]
    /\ goods' = [goods EXCEPT ![b] = @ + txn[c].refundable]
    /\ refunded' = [refunded EXCEPT ![b] = @ + txn[c].payable]
    /\ paidOut' = [paidOut EXCEPT ![b] = @ + cash]
    /\ Post(billedTo[b], cash - txn[c].refundable)
    /\ End(c)
    /\ UNCHANGED <<billedTo, counter, received, taken, linked, receipts>>

-----------------------------------------------------------------------------
\* Two collections that wait for each other's bills: the database ends one of them.
Waits(c, o) ==
    /\ txn[c].pc = "receipt" /\ c # o
    /\ \E b \in Bills : txn[c].left[b] > 0 /\ billLock[b] = o

Deadlocked(c) == \E o \in Clients : Waits(c, o) /\ Waits(o, c)

\* Mutant of RolledBack: the transaction that was ended keeps its row locks.
StillHolding(c) == txn' = [txn EXCEPT ![c] = Idle] /\ UNCHANGED <<tradeLock, billLock>>
RolledBack(c) == End(c)

DeadlockVictim(c) == Deadlocked(c) /\ RolledBack(c) /\ UNCHANGED rows

Methods == {"none", "account", "cash"}

Begin(c) ==
    \/ \E b \in Bills, k \in Customers \union {WalkIn}, paid \in CounterPayments,
          t \in TradeIns \union {None} : BeginSale(c, b, k, paid, t)
    \/ \E p \in Receipts, k \in Customers, amount \in Collections : BeginReceipt(c, p, k, amount)
    \/ \E p \in Receipts : BeginVoid(c, p)
    \/ \E b \in Bills, deduction \in Deductions, m \in Methods :
           \E q \in 1..Pieces[b] : BeginReturn(c, b, q, deduction, m)

Allocate(c) == \E b \in Bills : AllocateNext(c, b)
Commit(c) == CommitSale(c) \/ CommitReceipt(c) \/ CommitVoid(c) \/ CommitReturn(c)

Next == \E c \in Clients : Begin(c) \/ Allocate(c) \/ Commit(c) \/ DeadlockVictim(c) \/ Abort(c)

Spec == Init /\ [][Next]_vars

-----------------------------------------------------------------------------
SaleTxn == [pc : {"sale"}, bill : Bills, customer : Customers \union {WalkIn}, paid : Nat,
            trade : TradeIns \union {None}]
ReceiptTxn == [pc : {"receipt"}, receipt : Receipts, customer : Customers, amount : Nat,
               left : [Bills -> Nat], done : [Bills -> Nat]]
VoidTxn == [pc : {"void"}, receipt : Receipts]
ReturnTxn == [pc : {"return"}, bill : Bills, pieces : Nat, refundable : Nat, payable : Nat,
              method : Methods]
Receipt == [status : {"none", "live", "void"}, customer : Customers \union {None}, amount : Nat,
            alloc : [Bills -> Nat]]

\* Every row and every request in flight holds values of its type: no count and no amount below
\* zero, and only a collection or a return that is in progress holds a bill's lock.
TypeOK ==
    /\ billedTo \in [Bills -> Customers \union {WalkIn, None}]
    /\ counter \in [Bills -> Nat] /\ received \in [Bills -> Int]
    /\ returned \in [Bills -> Nat] /\ goods \in [Bills -> Nat]
    /\ refunded \in [Bills -> Nat] /\ paidOut \in [Bills -> Nat] /\ taken \in [Bills -> Nat]
    /\ linked \in [TradeIns -> Bills \union {None}]
    /\ receipts \in [Receipts -> Receipt]
    /\ balance \in [Customers -> Int]
    /\ tradeLock \in [TradeIns -> Clients \union {None}]
    /\ billLock \in [Bills -> Clients \union {None}]
    /\ txn \in [Clients -> {Idle} \union SaleTxn \union ReceiptTxn \union VoidTxn \union ReturnTxn]
    /\ \A b \in Bills : billLock[b] # None => txn[billLock[b]].pc \in {"receipt", "return"}

\* However many tills collect at once, a bill is never settled beyond its total
\* (recordCustomerPayment locks the bill before it reads what it owes, createSale the trade-in).
NeverOverpaid == \A b \in Bills : received[b] <= Total[b]

\* No more comes back than was sold, and the parts are not worth more than the whole
\* (createReturn locks the bill before it counts what came back).
NothingReturnedTwice == \A b \in Bills : returned[b] <= Pieces[b] /\ goods[b] <= Total[b]

\* The shop pays no money back that it did not take on the bill, though a receipt it took it
\* by may have been voided since (createReturn's refund cap).
RefundsWereReceived == \A b \in Bills : paidOut[b] <= taken[b]

\* The account and what a bill has received are what the documents add up to: a trade-in settles
\* one bill, a receipt is voided once, and a return moves the account by goods and cash once.
RowsAddUp ==
    LET live == {p \in Receipts : receipts[p].status = "live"}
        trade(b) == SumOver({t \in TradeIns : linked[t] = b}, Value)
        collected(b) == SumOver(live, [p \in Receipts |-> receipts[p].alloc[b]])
        charged == [b \in Bills |-> Total[b] + paidOut[b]]
        settled == [b \in Bills |-> counter[b] + trade(b) + goods[b]]
    IN
    /\ \A b \in Bills : received[b] = counter[b] + trade(b) + collected(b)
    /\ \A k \in Customers :
           LET bought == {b \in Bills : billedTo[b] = k}
               paidIn == {p \in live : receipts[p].customer = k}
           IN  balance[k] = SumOver(bought, charged) - SumOver(bought, settled)
                            - SumOver(paidIn, [p \in Receipts |-> receipts[p].amount])

\* "A part-paid bill hands back exactly what was paid and writes off the rest": what the dues
\* screen and autoAllocate show as owing is at most the goods the customer kept.
OnlyKeptGoodsAreOwed ==
    \A b \in Bills : billedTo[b] # None => Owing(b) <= Total[b] - goods[b]
=============================================================================
