--------------------------- MODULE StockTransfer ---------------------------
(***************************************************************************)
(* Handsets and accessories between branches, tills and adjustments:       *)
(* stock.service.ts (setDeviceStatus, moveStock), transfer.service.ts,     *)
(* adjustment.service.ts, the stock of sale.service.ts and                 *)
(* return.service.ts, and the handsets of a reversed purchase.             *)
(*                                                                         *)
(* A handler that reads without a lock and writes later is two actions,    *)
(* one for each; so is a step of a transfer, which locks the transfer row  *)
(* first.  The other handlers decide by conditional UPDATEs, whose rows    *)
(* stay locked to the commit, and are one action.                          *)
(***************************************************************************)
EXTENDS Integers, DeviceLifecycle

CONSTANTS
    Branches,
    Devices,        \* serialised handsets, registered before the model starts
    Clients,        \* requests that can be in flight at the same time
    MaxTransfers,   \* bound: rows of stock_transfer
    MaxSales,       \* bound: sale lines that sell a handset
    Opening,        \* accessories on each branch's shelf at first
    MaxQuantity,    \* bound: accessories a branch may hold
    None            \* not a branch

ASSUME StockAssumption ==
    /\ MaxTransfers \in Nat /\ MaxSales \in Nat
    /\ Opening \in Nat /\ MaxQuantity \in Nat

TransferIds == 1 .. MaxTransfers
SaleIds == 1 .. MaxSales

VARIABLES
    status,     \* device_unit.status
    branch,     \* device_unit.current_branch_id
    quantity,   \* branch_stock.quantity of one accessory
    transfer,   \* stock_transfer, with the lines of transfer_item
    ledger,     \* per transfer and branch, the SUM of its stock_ledger deltas
    sale,       \* sale_item of a handset, and whether it came back
    txn         \* the transaction each client is in

vars == <<status, branch, quantity, transfer, ledger, sale, txn>>

-----------------------------------------------------------------------------
(* The legal steps of a transfer.                                          *)

Open == {"REQUESTED", "APPROVED", "IN_TRANSIT"}

\* ALLOWED_TRANSITIONS of a transfer.
LegalSteps(from) ==
    CASE from = "REQUESTED" -> {"APPROVED", "CANCELLED"}
      [] from = "APPROVED" -> {"IN_TRANSIT", "CANCELLED"}
      [] from = "IN_TRANSIT" -> {"RECEIVED", "CANCELLED"}
      [] OTHER -> {}

-----------------------------------------------------------------------------
(* Rows.                                                                   *)

NoTransfer == [status |-> "NONE", from |-> None, to |-> None, items |-> {},
               quantity |-> 0, received |-> 0]

NoSale == [state |-> "NONE", device |-> None, branch |-> None]

\* What a handler has read, or locked, before it writes: the handsets and the
\* branches of the request, the status it saw and the one it is going to write.
Idle == [step |-> "idle", items |-> {}, from |-> None, to |-> None, quantity |-> 0,
         seen |-> "IN_STOCK", next |-> "IN_STOCK", transfer |-> 0]

Init ==
    /\ status = [d \in Devices |-> "IN_STOCK"]
    /\ branch \in [Devices -> Branches]
    /\ quantity = [b \in Branches |-> Opening]
    /\ transfer = [i \in TransferIds |-> NoTransfer]
    /\ ledger = [i \in TransferIds |-> [b \in Branches |-> 0]]
    /\ sale = [s \in SaleIds |-> NoSale]
    /\ txn = [c \in Clients |-> Idle]

Tables == <<status, branch, quantity, transfer, ledger, sale>>

Begin(c, t) ==
    /\ txn[c].step = "idle"
    /\ txn' = [txn EXCEPT ![c] = t]
    /\ UNCHANGED Tables

End(c) == txn' = [txn EXCEPT ![c] = Idle]

\* A refusal at any point, or a failure: everything rolls back.
Abort(c) ==
    /\ txn[c].step # "idle"
    /\ End(c)
    /\ UNCHANGED Tables

\* setDeviceStatus of several handsets: the UPDATE of each is conditional on the
\* status the handler expects, and all of them succeed or the request fails.
Expect(S, expected) == \A d \in S : status[d] = expected
SetStatus(S, next) == status' = [d \in Devices |-> IF d \in S THEN next ELSE status[d]]

\* Mutant of Enough: the UPDATE has lost its guard.
NeverChecked(b, n) == TRUE

\* moveStock refuses to go below zero.
Enough(b, n) == quantity[b] >= n

-----------------------------------------------------------------------------
(* Transfers.                                                              *)

OnOpenTransfer(d) == \E i \in TransferIds : transfer[i].status \in Open /\ d \in transfer[i].items

FreeTransfers == {i \in TransferIds : transfer[i].status = "NONE"}

\* requestTransfer checks its lines without locking anything ...
RequestTransfer(c) ==
    \E from, to \in Branches, S \in SUBSET Devices, n \in 0 .. MaxQuantity :
        /\ from # to
        /\ S # {} \/ n > 0
        /\ \A d \in S : branch[d] = from /\ status[d] = "IN_STOCK" /\ ~OnOpenTransfer(d)
        /\ Begin(c, [Idle EXCEPT !.step = "request", !.from = from, !.to = to,
                                 !.items = S, !.quantity = n])

\* ... and inserts the transfer.
InsertTransfer(c) ==
    LET t == txn[c] IN
    /\ t.step = "request"
    /\ \E i \in FreeTransfers :
           /\ \A j \in FreeTransfers : i <= j
           /\ transfer' = [transfer EXCEPT ![i] =
                  [status |-> "REQUESTED", from |-> t.from, to |-> t.to, items |-> t.items,
                   quantity |-> t.quantity, received |-> 0]]
    /\ End(c)
    /\ UNCHANGED <<status, branch, quantity, ledger, sale>>

\* Mutant of HoldsTransfer: loadForChange reads without FOR UPDATE.
HoldsNoTransfer(o, i) == FALSE

\* A step of transfer i is under way, its row locked.
HoldsTransfer(o, i) == txn[o].step = "change" /\ txn[o].transfer = i

\* loadForChange locks the transfer and reads its status; assertTransition.
LoadForChange(c) ==
    \E i \in TransferIds :
        /\ \A o \in Clients : ~HoldsTransfer(o, i)
        /\ \E next \in LegalSteps(transfer[i].status) :
               Begin(c, [Idle EXCEPT !.step = "change", !.transfer = i,
                                     !.seen = transfer[i].status, !.next = next])

Changing(c, next) == txn[c].step = "change" /\ txn[c].next = next

ApproveTransfer(c) ==
    /\ Changing(c, "APPROVED")
    /\ transfer' = [transfer EXCEPT ![txn[c].transfer].status = "APPROVED"]
    /\ End(c)
    /\ UNCHANGED <<status, branch, quantity, ledger, sale>>

\* The goods leave; the handsets stay with the sender until someone receives them.
DispatchTransfer(c) ==
    LET i == txn[c].transfer
        row == transfer[i]
    IN
    /\ Changing(c, "IN_TRANSIT")
    /\ Expect(row.items, "IN_STOCK")
    /\ Enough(row.from, row.quantity)
    /\ SetStatus(row.items, "IN_TRANSIT")
    /\ branch' = [d \in Devices |-> IF d \in row.items THEN row.from ELSE branch[d]]
    /\ quantity' = [quantity EXCEPT ![row.from] = @ - row.quantity]
    /\ ledger' = [ledger EXCEPT ![i][row.from] = @ - row.quantity]
    /\ transfer' = [transfer EXCEPT ![i].status = "IN_TRANSIT"]
    /\ End(c)
    /\ UNCHANGED sale

\* Mutant of Missing: it is left where it was.
LeftInTransit == "IN_TRANSIT"

\* What becomes of a handset that did not turn up.
Missing == "LOST"

\* The goods arrive; what did not arrive is lost.
ReceiveTransfer(c) ==
    LET i == txn[c].transfer
        row == transfer[i]
    IN
    /\ Changing(c, "RECEIVED")
    /\ Expect(row.items, "IN_TRANSIT")
    /\ \E arrived \in SUBSET row.items, n \in 0 .. row.quantity :
           /\ status' = [d \in Devices |-> IF d \in arrived THEN "IN_STOCK"
                                           ELSE IF d \in row.items THEN Missing ELSE status[d]]
           /\ branch' = [d \in Devices |-> IF d \in arrived THEN row.to ELSE branch[d]]
           /\ quantity' = [quantity EXCEPT ![row.to] = @ + n]
           /\ ledger' = [ledger EXCEPT ![i][row.to] = @ + n]
           /\ transfer' = [transfer EXCEPT ![i].status = "RECEIVED", ![i].received = n]
    /\ End(c)
    /\ UNCHANGED sale

\* Mutant of PutBackAt: swaps the two branches.
PutBackAtDestination(row) == row.to

\* Where the goods of a transfer cancelled on its way are.
PutBackAt(row) == row.from

\* Cancelled in transit, the goods go back to where they came from.
CancelTransfer(c) ==
    LET i == txn[c].transfer
        row == transfer[i]
        back == PutBackAt(row)
    IN
    /\ Changing(c, "CANCELLED")
    /\ \/ /\ txn[c].seen # "IN_TRANSIT"
          /\ UNCHANGED <<status, branch, quantity, ledger>>
       \/ /\ txn[c].seen = "IN_TRANSIT"
          /\ Expect(row.items, "IN_TRANSIT")
          /\ SetStatus(row.items, "IN_STOCK")
          /\ branch' = [d \in Devices |-> IF d \in row.items THEN back ELSE branch[d]]
          /\ quantity' = [quantity EXCEPT ![back] = @ + row.quantity]
          /\ ledger' = [ledger EXCEPT ![i][back] = @ + row.quantity]
    /\ transfer' = [transfer EXCEPT ![i].status = "CANCELLED"]
    /\ End(c)
    /\ UNCHANGED sale

-----------------------------------------------------------------------------
(* The till.                                                               *)

FreeSales == {s \in SaleIds : sale[s].state = "NONE"}

\* createSale validates its line against an unlocked read ...
BeginSale(c) ==
    \E d \in Devices :
        /\ status[d] = "IN_STOCK"
        /\ Begin(c, [Idle EXCEPT !.step = "sell", !.items = {d}, !.from = branch[d]])

\* Mutant of StillInStock: trusts the validation.
AssumedInStock(S) == TRUE

\* "Conditional on still being IN_STOCK: two tills cannot both sell it."
StillInStock(S) == Expect(S, "IN_STOCK")

\* ... and sells the handset if its status is still the same.
CommitSale(c) ==
    LET t == txn[c] IN
    /\ t.step = "sell"
    /\ StillInStock(t.items)
    /\ SetStatus(t.items, "SOLD")
    /\ \E s \in FreeSales, d \in t.items :
           /\ \A j \in FreeSales : s <= j
           /\ sale' = [sale EXCEPT ![s] = [state |-> "LIVE", device |-> d, branch |-> t.from]]
    /\ End(c)
    /\ UNCHANGED <<branch, quantity, transfer, ledger>>

SellAccessory(b) ==
    /\ Enough(b, 1)
    /\ quantity' = [quantity EXCEPT ![b] = @ - 1]
    /\ UNCHANGED <<status, branch, transfer, ledger, sale, txn>>

\* createReturn of a handset line that has not come back yet.  The handset waits
\* for inspection, at the branch it was sold from.
CreateReturn(s) ==
    /\ sale[s].state = "LIVE"
    /\ Expect({sale[s].device}, "SOLD")
    /\ SetStatus({sale[s].device}, "RETURNED")
    /\ sale' = [sale EXCEPT ![s].state = "RETURNED"]
    /\ UNCHANGED <<branch, quantity, transfer, ledger, txn>>

\* A conditional change of status, and nothing else the model keeps.
ChangeStatus(d, expected, next) ==
    /\ Expect({d}, expected)
    /\ SetStatus({d}, next)
    /\ UNCHANGED <<branch, quantity, transfer, ledger, sale, txn>>

\* GRADE_STATUS: AVAILABLE and USED, DAMAGED, REPAIR_REQUIRED.
InspectDevice(d) == \E next \in {"IN_STOCK", "DAMAGED", "REPAIR"} : ChangeStatus(d, "RETURNED", next)
MarkSoldExternally(d) == ChangeStatus(d, "IN_STOCK", "SOLD_PENDING_IMPORT")
ReversePurchase(d) == ChangeStatus(d, "IN_STOCK", "VOIDED")

-----------------------------------------------------------------------------
(* Adjustments.                                                            *)

\* createAdjustment of a handset, for damage or loss, reads it without a lock ...
BeginAdjustment(c) ==
    \E d \in Devices, next \in {"DAMAGED", "LOST"} :
        /\ status[d] # next
        /\ Begin(c, [Idle EXCEPT !.step = "adjust", !.items = {d}, !.seen = status[d], !.next = next])

\* ... and changes it if the move is legal and nobody else has changed it.
CommitAdjustment(c) ==
    LET t == txn[c] IN
    /\ t.step = "adjust"
    /\ CanTransition(t.seen, t.next)
    /\ Expect(t.items, t.seen)
    /\ SetStatus(t.items, t.next)
    /\ End(c)
    /\ UNCHANGED <<branch, quantity, transfer, ledger, sale>>

AdjustCount(b) ==
    /\ \/ quantity[b] < MaxQuantity /\ quantity' = [quantity EXCEPT ![b] = @ + 1]
       \/ Enough(b, 1) /\ quantity' = [quantity EXCEPT ![b] = @ - 1]
    /\ UNCHANGED <<status, branch, transfer, ledger, sale, txn>>

-----------------------------------------------------------------------------
TransferStep(c) ==
    \/ RequestTransfer(c) \/ InsertTransfer(c) \/ LoadForChange(c)
    \/ ApproveTransfer(c) \/ DispatchTransfer(c) \/ ReceiveTransfer(c) \/ CancelTransfer(c)

CounterStep(c) == BeginSale(c) \/ CommitSale(c) \/ BeginAdjustment(c) \/ CommitAdjustment(c)

DeviceStep(d) == InspectDevice(d) \/ MarkSoldExternally(d) \/ ReversePurchase(d)

Next ==
    \/ \E c \in Clients : TransferStep(c) \/ CounterStep(c) \/ Abort(c)
    \/ \E d \in Devices : DeviceStep(d)
    \/ \E s \in SaleIds : CreateReturn(s)
    \/ \E b \in Branches : SellAccessory(b) \/ AdjustCount(b)

Spec == Init /\ [][Next]_vars

-----------------------------------------------------------------------------
TransferRows == [status : Open \union {"NONE", "RECEIVED", "CANCELLED"},
                 from : Branches \union {None}, to : Branches \union {None},
                 items : SUBSET Devices, quantity : Nat, received : Nat]
SaleRows == [state : {"NONE", "LIVE", "RETURNED"}, device : Devices \union {None},
             branch : Branches \union {None}]
TxnRecords == [step : {"idle", "request", "change", "sell", "adjust"}, items : SUBSET Devices,
               from : Branches \union {None}, to : Branches \union {None}, quantity : Nat,
               seen : DeviceStatus \union Open,
               next : DeviceStatus \union Open \union {"RECEIVED", "CANCELLED"}, transfer : Nat]

\* Every table holds rows of its type; in particular no shelf holds less than nothing.
TypeOK ==
    /\ status \in [Devices -> DeviceStatus]
    /\ branch \in [Devices -> Branches]
    /\ quantity \in [Branches -> Nat]
    /\ transfer \in [TransferIds -> TransferRows]
    /\ ledger \in [TransferIds -> [Branches -> Int]]
    /\ sale \in [SaleIds -> SaleRows]
    /\ txn \in [Clients -> TxnRecords]

\* A handset in transit is never stranded: exactly one dispatched transfer carries it,
\* and it belongs to the branch that sent it (dispatch, receive, cancel and adjustments).
InTransitOnOneTransfer ==
    \A d \in Devices : status[d] = "IN_TRANSIT" =>
        \E i \in TransferIds :
            /\ transfer[i].status = "IN_TRANSIT" /\ d \in transfer[i].items
            /\ transfer[i].from = branch[d]
            /\ \A j \in TransferIds :
                  transfer[j].status = "IN_TRANSIT" /\ d \in transfer[j].items => j = i

\* Two tills, or a till and a return, never leave a sold handset on two bills that have
\* not been returned, or on none (createSale, createReturn).
SoldOnOneBill ==
    \A d \in Devices :
        LET live == {s \in SaleIds : sale[s].state = "LIVE" /\ sale[s].device = d} IN
        /\ status[d] = "SOLD" <=> live # {}
        /\ \A s, r \in live : s = r

\* Accessories are neither made nor mislaid on the way: what the stock ledger says of a
\* transfer is what its status, its quantity and what was received say.
LedgerTellsTheTransfer ==
    \A i \in TransferIds :
        LET row == transfer[i]
            Sent == IF row.status \in {"IN_TRANSIT", "RECEIVED"} THEN row.quantity ELSE 0
        IN \A b \in Branches :
               ledger[i][b] = IF b = row.from THEN -Sent
                              ELSE IF b = row.to THEN row.received ELSE 0

StepsOneByOne ==
    \A i \in TransferIds :
        LET was == transfer[i].status
            is == transfer'[i].status
        IN was # is => \/ was = "NONE" /\ is = "REQUESTED"
                       \/ was = "REQUESTED" /\ is = "APPROVED"
                       \/ was = "APPROVED" /\ is = "IN_TRANSIT"
                       \/ was = "IN_TRANSIT" /\ is = "RECEIVED"
                       \/ was \in Open /\ is = "CANCELLED"

\* "A dispatch and a cancel arriving together would each move the same stock": the steps
\* of one transfer are taken one after the other, and a closed transfer stays closed.
TransferLifecycle == [][StepsOneByOne]_vars

-----------------------------------------------------------------------------
(* What the documents say and the code does not do.                        *)

\* "A handset cannot be on two open transfers at once" (docs/02, M8).
OneOpenTransfer ==
    \A i, j \in TransferIds :
        transfer[i].status \in Open /\ transfer[j].status \in Open /\ i # j
            => transfer[i].items \intersect transfer[j].items = {}

\* "Cancelled available before receipt" (PRD FR-3.6): the goods of a transfer that is in
\* transit can be put back.
CancelAvailable ==
    \A i \in TransferIds : transfer[i].status = "IN_TRANSIT" => Expect(transfer[i].items, "IN_TRANSIT")

\* A handset "cannot be sold at A once dispatched" to B (docs/02, M8): the branch on its
\* bill is the branch it is at.
SoldWhereItIs ==
    \A s \in SaleIds : sale[s].state = "LIVE" => sale[s].branch = branch[sale[s].device]
=============================================================================
