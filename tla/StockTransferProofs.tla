------------------------ MODULE StockTransferProofs ------------------------
(***************************************************************************)
(* The goods of a shop with any number of branches, handsets, transfers    *)
(* and requests in flight: nothing is stranded on the way, the ledger      *)
(* tells what a transfer did, a sold handset is on one bill, and the steps *)
(* of a transfer come one after the other.                                 *)
(***************************************************************************)
EXTENDS StockTransfer, TLAPS

(* What a request in flight may rely on. *)

RequestOK(t) ==
    /\ t.step = "request" => t.from \in Branches /\ t.to \in Branches /\ t.from # t.to
    /\ t.step = "change" => /\ t.transfer \in TransferIds
                            /\ t.seen = transfer[t.transfer].status
                            /\ t.next \in LegalSteps(t.seen)
    /\ t.step = "sell" => \E d \in Devices : t.items = {d}
    /\ t.step = "sell" => t.from \in Branches
    /\ t.step = "adjust" => t.seen \in DeviceStatus /\ t.next \in {"DAMAGED", "LOST"}

TxnOK == \A c \in Clients : RequestOK(txn[c])

\* loadForChange lets one request at a time change a transfer.
Exclusive == \A i \in TransferIds, c, o \in Clients : HoldsTransfer(c, i) /\ HoldsTransfer(o, i) => c = o

\* A transfer has two branches from the start, and has received nothing before its end.
RowsOK ==
    \A i \in TransferIds :
        /\ transfer[i].status # "NONE" => /\ transfer[i].from \in Branches
                                          /\ transfer[i].to \in Branches
                                          /\ transfer[i].from # transfer[i].to
        /\ transfer[i].status # "RECEIVED" => transfer[i].received = 0

Carries(i, d) == transfer[i].status = "IN_TRANSIT" /\ d \in transfer[i].items

\* Whatever happens to a handset on its way, it stays the sender's and can only get lost.
OnItsWay == \A i \in TransferIds, d \in Devices :
                Carries(i, d) => status[d] \in {"IN_TRANSIT", "LOST"} /\ branch[d] = transfer[i].from
OneCarrier == \A i, j \in TransferIds, d \in Devices : Carries(i, d) /\ Carries(j, d) => i = j
SomeCarrier == \A d \in Devices : status[d] = "IN_TRANSIT" => \E i \in TransferIds : Carries(i, d)
Goods == OnItsWay /\ OneCarrier /\ SomeCarrier

\* What the ledger ought to say of a transfer at a branch.
Sent(row) == IF row.status \in {"IN_TRANSIT", "RECEIVED"} THEN row.quantity ELSE 0
Told(row, b) == IF b = row.from THEN -Sent(row) ELSE IF b = row.to THEN row.received ELSE 0
Ledger == \A i \in TransferIds, b \in Branches : ledger[i][b] = Told(transfer[i], b)

\* Bills of a handset that it has not come back from.
OnBill(s, d) == sale[s].state = "LIVE" /\ sale[s].device = d
Bills == \A d \in Devices :
            /\ status[d] = "SOLD" <=> \E s \in SaleIds : OnBill(s, d)
            /\ \A s, r \in SaleIds : OnBill(s, d) /\ OnBill(r, d) => s = r

IInv == TypeOK /\ TxnOK /\ Exclusive /\ RowsOK /\ Goods /\ Ledger /\ Bills

-----------------------------------------------------------------------------
LEMMA IdleType == Idle \in TxnRecords
BY DEF Idle, TxnRecords, DeviceStatus, Open

LEMMA IdsAreNat == TransferIds \subseteq Nat
BY StockAssumption DEF TransferIds

LEMMA ToldNothing ==
    ASSUME NEW row, NEW b, Sent(row) = 0, row.received = 0
    PROVE  Told(row, b) = 0
<1>1. -Sent(row) = 0
  <2>1. \A n \in Int : -n = 0 - n
    OBVIOUS
  <2>2. 0 \in Int /\ 0 - 0 = 0
    OBVIOUS
  <2>3. QED
    BY <2>1, <2>2, Zenon
<1>2. CASE b = row.from
  BY <1>1, <1>2, Zenon DEF Told
<1>3. CASE b # row.from
  BY <1>3, Zenon DEF Told
<1>4. QED
  BY <1>2, <1>3

LEMMA InitIInv == Init => IInv
<1> SUFFICES ASSUME Init PROVE IInv
  OBVIOUS
<1>1. \A i \in TransferIds : transfer[i] = NoTransfer
  BY DEF Init
<1>2. \A c \in Clients : txn[c] = Idle
  BY DEF Init
<1>3. TypeOK
  BY IdleType, StockAssumption
     DEF Init, TypeOK, NoTransfer, NoSale, TransferRows, SaleRows, DeviceStatus, Open
<1>4. TxnOK /\ Exclusive
  BY <1>2 DEF TxnOK, RequestOK, Idle, Exclusive, HoldsTransfer
<1>5. RowsOK /\ Goods
  BY <1>1 DEF Init, RowsOK, Goods, OnItsWay, OneCarrier, SomeCarrier, Carries, NoTransfer
<1>6. ASSUME NEW i \in TransferIds, NEW b \in Branches
      PROVE  ledger[i][b] = Told(transfer[i], b)
  <2>1. ledger[i][b] = 0
    BY DEF Init
  <2>2. Sent(transfer[i]) = 0 /\ transfer[i].received = 0
    BY <1>1 DEF Sent, NoTransfer
  <2>3. QED
    BY <2>1, <2>2, ToldNothing
<1>7. Bills
  BY DEF Init, Bills, OnBill, NoSale
<1>8. QED
  BY <1>3, <1>4, <1>5, <1>6, <1>7 DEF IInv, Ledger

\* A request that reads, or gives up: no table changes.
LEMMA TxnStep ==
    ASSUME NEW c \in Clients, NEW t \in TxnRecords, IInv,
           txn' = [txn EXCEPT ![c] = t], UNCHANGED Tables, RequestOK(t),
           \A o \in Clients \ {c} : t.step = "change" => ~HoldsTransfer(o, t.transfer)
    PROVE  IInv'
<1>1. \A o \in Clients : txn'[o] = IF o = c THEN t ELSE txn[o]
  BY DEF IInv, TypeOK
<1>2. /\ status' = status /\ branch' = branch /\ quantity' = quantity
      /\ transfer' = transfer /\ ledger' = ledger /\ sale' = sale
  BY DEF Tables
<1>3. TypeOK'
  BY <1>2 DEF IInv, TypeOK
<1>4. TxnOK'
  BY <1>1, <1>2 DEF IInv, TxnOK, RequestOK
<1>5. Exclusive'
  BY <1>1 DEF IInv, Exclusive, HoldsTransfer
<1>6. (RowsOK /\ Goods /\ Ledger /\ Bills)'
  BY <1>2 DEF IInv, RowsOK, Goods, OnItsWay, OneCarrier, SomeCarrier, Carries, Ledger, Bills, OnBill
<1>7. QED
  BY <1>3, <1>4, <1>5, <1>6 DEF IInv

\* A request that ends leaves the others what they rely on, if it leaves the
\* transfers they hold as they are.
LEMMA Ends ==
    ASSUME NEW c \in Clients, IInv, End(c),
           \A i \in TransferIds, o \in Clients \ {c} :
               HoldsTransfer(o, i) => transfer'[i].status = transfer[i].status
    PROVE  /\ txn' \in [Clients -> TxnRecords]
           /\ TxnOK' /\ Exclusive'
<1>1. \A o \in Clients : txn'[o] = IF o = c THEN Idle ELSE txn[o]
  BY DEF IInv, TypeOK, End
<1>2. txn' \in [Clients -> TxnRecords]
  BY IdleType DEF IInv, TypeOK, End
<1>3. ASSUME NEW o \in Clients
      PROVE  RequestOK(txn[o])'
  <2>1. CASE o = c
    BY <1>1, <2>1 DEF RequestOK, Idle
  <2>2. CASE o # c
    <3>1. txn'[o] = txn[o] /\ RequestOK(txn[o])
      BY <1>1, <2>2 DEF IInv, TxnOK
    <3>2. txn[o].step = "change" => transfer'[txn[o].transfer].status = transfer[txn[o].transfer].status
      BY <2>2, <3>1 DEF RequestOK, HoldsTransfer
    <3>3. QED
      BY <3>1, <3>2 DEF RequestOK
  <2>3. QED
    BY <2>1, <2>2
<1>4. Exclusive'
  BY <1>1 DEF IInv, Exclusive, HoldsTransfer, Idle
<1>5. QED
  BY <1>2, <1>3, <1>4 DEF TxnOK

\* The goods on their way are undisturbed by what happens to other handsets, and by
\* the loss of one of them.
LEMMA GoodsStay ==
    ASSUME IInv, transfer' = transfer, branch' = branch,
           \A d \in Devices : \/ status'[d] = status[d]
                              \/ status[d] \notin {"IN_TRANSIT", "LOST"} /\ status'[d] # "IN_TRANSIT"
                              \/ status'[d] = "LOST"
    PROVE  RowsOK' /\ Goods'
<1>1. RowsOK'
  BY DEF IInv, RowsOK
<1>2. OnItsWay' /\ OneCarrier' /\ SomeCarrier'
  BY DEF IInv, Goods, OnItsWay, OneCarrier, SomeCarrier, Carries
<1>3. QED
  BY <1>1, <1>2 DEF Goods

LEMMA LedgerStays ==
    ASSUME IInv, transfer' = transfer, ledger' = ledger
    PROVE  Ledger'
BY DEF IInv, Ledger

\* Nothing is sold, and nothing that is sold comes back.
LEMMA BillsStay ==
    ASSUME IInv, sale' = sale,
           \A d \in Devices : status'[d] = "SOLD" <=> status[d] = "SOLD"
    PROVE  Bills'
BY DEF IInv, Bills, OnBill

-----------------------------------------------------------------------------
(* Reading. *)

LEMMA RequestTransferStep ==
    ASSUME NEW c \in Clients, IInv, RequestTransfer(c)
    PROVE  IInv'
<1>1. PICK from \in Branches, to \in Branches, S \in SUBSET Devices, n \in 0 .. MaxQuantity :
          /\ from # to
          /\ Begin(c, [Idle EXCEPT !.step = "request", !.from = from, !.to = to,
                                   !.items = S, !.quantity = n])
  BY DEF RequestTransfer
<1> DEFINE t == [Idle EXCEPT !.step = "request", !.from = from, !.to = to,
                             !.items = S, !.quantity = n]
<1>2. n \in Nat
  BY StockAssumption
<1>3. t \in TxnRecords
  BY IdleType, <1>2 DEF TxnRecords
<1>4. RequestOK(t) /\ t.step = "request"
  BY <1>1 DEF RequestOK, Idle
<1> HIDE DEF t
<1>5. QED
  BY <1>1, <1>3, <1>4, TxnStep DEF Begin, t

LEMMA LoadForChangeStep ==
    ASSUME NEW c \in Clients, IInv, LoadForChange(c)
    PROVE  IInv'
<1>1. PICK i \in TransferIds :
          /\ \A o \in Clients : ~HoldsTransfer(o, i)
          /\ \E next \in LegalSteps(transfer[i].status) :
                 Begin(c, [Idle EXCEPT !.step = "change", !.transfer = i,
                                       !.seen = transfer[i].status, !.next = next])
  BY DEF LoadForChange
<1>2. PICK next \in LegalSteps(transfer[i].status) :
          Begin(c, [Idle EXCEPT !.step = "change", !.transfer = i,
                                !.seen = transfer[i].status, !.next = next])
  BY <1>1
<1> DEFINE t == [Idle EXCEPT !.step = "change", !.transfer = i,
                             !.seen = transfer[i].status, !.next = next]
<1>3. transfer[i].status \in Open /\ next \in Open \union {"RECEIVED", "CANCELLED"}
  BY DEF LegalSteps, Open
<1>4. t \in TxnRecords
  BY IdleType, IdsAreNat, <1>3 DEF TxnRecords
<1>5. RequestOK(t) /\ t.transfer = i
  BY DEF RequestOK, Idle
<1>6. txn' = [txn EXCEPT ![c] = t] /\ UNCHANGED Tables
  BY <1>2 DEF Begin
<1> HIDE DEF t
<1>7. \A o \in Clients : ~HoldsTransfer(o, t.transfer)
  BY <1>1, <1>5
<1>8. QED
  BY <1>4, <1>5, <1>6, <1>7, TxnStep

LEMMA BeginSaleStep ==
    ASSUME NEW c \in Clients, IInv, BeginSale(c)
    PROVE  IInv'
<1>1. PICK d \in Devices :
          Begin(c, [Idle EXCEPT !.step = "sell", !.items = {d}, !.from = branch[d]])
  BY DEF BeginSale
<1> DEFINE t == [Idle EXCEPT !.step = "sell", !.items = {d}, !.from = branch[d]]
<1>2. branch[d] \in Branches
  BY DEF IInv, TypeOK
<1>3. t \in TxnRecords
  BY IdleType, <1>2 DEF TxnRecords
<1>4. RequestOK(t) /\ t.step = "sell"
  BY <1>2 DEF RequestOK, Idle
<1> HIDE DEF t
<1>5. QED
  BY <1>1, <1>3, <1>4, TxnStep DEF Begin, t

LEMMA BeginAdjustmentStep ==
    ASSUME NEW c \in Clients, IInv, BeginAdjustment(c)
    PROVE  IInv'
<1>1. PICK d \in Devices, next \in {"DAMAGED", "LOST"} :
          Begin(c, [Idle EXCEPT !.step = "adjust", !.items = {d}, !.seen = status[d], !.next = next])
  BY DEF BeginAdjustment
<1> DEFINE t == [Idle EXCEPT !.step = "adjust", !.items = {d}, !.seen = status[d], !.next = next]
<1>2. status[d] \in DeviceStatus /\ next \in DeviceStatus
  BY DEF IInv, TypeOK, DeviceStatus
<1>3. t \in TxnRecords
  BY IdleType, <1>2 DEF TxnRecords
<1>4. RequestOK(t) /\ t.step = "adjust"
  BY <1>2 DEF RequestOK, Idle
<1> HIDE DEF t
<1>5. QED
  BY <1>1, <1>3, <1>4, TxnStep DEF Begin, t

LEMMA AbortStep ==
    ASSUME NEW c \in Clients, IInv, Abort(c)
    PROVE  IInv'
<1>1. RequestOK(Idle) /\ Idle.step = "idle"
  BY DEF RequestOK, Idle
<1>2. QED
  BY <1>1, IdleType, TxnStep DEF Abort, End

-----------------------------------------------------------------------------
(* The steps of a transfer. *)

\* loadForChange has left a request alone with its transfer, in the status it read.
LEMMA Held ==
    ASSUME NEW c \in Clients, NEW next, IInv, Changing(c, next)
    PROVE  LET i == txn[c].transfer IN
           /\ i \in TransferIds
           /\ HoldsTransfer(c, i)
           /\ transfer[i].status = txn[c].seen
           /\ next \in LegalSteps(transfer[i].status)
           /\ \A o \in Clients \ {c} : ~HoldsTransfer(o, i)
<1>1. RequestOK(txn[c])
  BY DEF IInv, TxnOK
<1>2. txn[c].transfer \in TransferIds /\ HoldsTransfer(c, txn[c].transfer)
  BY <1>1 DEF Changing, RequestOK, HoldsTransfer
<1>3. QED
  BY <1>1, <1>2 DEF Changing, RequestOK, IInv, Exclusive

\* A request that writes the row of a transfer nobody else holds, and ends.
LEMMA RowStep ==
    ASSUME NEW c \in Clients, NEW i \in TransferIds, NEW r \in TransferRows,
           IInv, End(c),
           transfer' \in [TransferIds -> TransferRows],
           \A j \in TransferIds : transfer'[j] = IF j = i THEN r ELSE transfer[j],
           \A o \in Clients \ {c} : ~HoldsTransfer(o, i),
           r.from \in Branches, r.to \in Branches, r.from # r.to,
           r.status # "RECEIVED" => r.received = 0
    PROVE  txn' \in [Clients -> TxnRecords] /\ TxnOK' /\ Exclusive' /\ RowsOK'
<1>1. \A j \in TransferIds, o \in Clients \ {c} :
          HoldsTransfer(o, j) => transfer'[j].status = transfer[j].status
  OBVIOUS
<1>2. txn' \in [Clients -> TxnRecords] /\ TxnOK' /\ Exclusive'
  BY <1>1, Ends
<1>3. RowsOK'
  BY DEF IInv, RowsOK
<1>4. QED
  BY <1>2, <1>3

\* The ledger is right if it is right for the transfer that was written.
LEMMA LedgerStep ==
    ASSUME NEW i \in TransferIds, IInv,
           \A j \in TransferIds \ {i} : transfer'[j] = transfer[j] /\ ledger'[j] = ledger[j],
           \A b \in Branches : ledger'[i][b] = Told(transfer'[i], b)
    PROVE  Ledger'
<1>1. ASSUME NEW j \in TransferIds, NEW b \in Branches
      PROVE  ledger'[j][b] = Told(transfer'[j], b)
  <2>1. CASE j = i
    BY <2>1
  <2>2. CASE j # i
    BY <2>2 DEF IInv, Ledger
  <2>3. QED
    BY <2>1, <2>2
<1>2. QED
  BY <1>1 DEF Ledger, Told, Sent

\* Nothing has been sent with a transfer that is not in transit, or received.
LEMMA NothingSent ==
    ASSUME IInv, NEW i \in TransferIds, transfer[i].status \notin {"IN_TRANSIT", "RECEIVED"}
    PROVE  \A b \in Branches : ledger[i][b] = 0
<1>1. Sent(transfer[i]) = 0 /\ transfer[i].received = 0
  BY DEF Sent, IInv, RowsOK
<1>2. QED
  BY <1>1, ToldNothing DEF IInv, Ledger

LEMMA InsertTransferStep ==
    ASSUME NEW c \in Clients, IInv, InsertTransfer(c)
    PROVE  IInv'
<1> DEFINE t == txn[c]
           r == [status |-> "REQUESTED", from |-> t.from, to |-> t.to, items |-> t.items,
                 quantity |-> t.quantity, received |-> 0]
<1>1. PICK i \in FreeTransfers : transfer' = [transfer EXCEPT ![i] = r]
  BY DEF InsertTransfer
<1>2. i \in TransferIds /\ transfer[i].status = "NONE"
  BY DEF FreeTransfers
<1>3. End(c) /\ UNCHANGED <<status, branch, quantity, ledger, sale>>
  BY DEF InsertTransfer
<1>4. t \in TxnRecords /\ t.from \in Branches /\ t.to \in Branches /\ t.from # t.to
  BY DEF InsertTransfer, IInv, TypeOK, TxnOK, RequestOK
<1>5. r \in TransferRows
  BY <1>4 DEF TxnRecords, TransferRows, Open
<1>6. \A j \in TransferIds : transfer'[j] = IF j = i THEN r ELSE transfer[j]
  BY <1>1, <1>2 DEF IInv, TypeOK
<1>7. transfer' \in [TransferIds -> TransferRows]
  BY <1>1, <1>5 DEF IInv, TypeOK
<1>8. \A o \in Clients : ~HoldsTransfer(o, i)
  BY <1>2 DEF IInv, TxnOK, RequestOK, HoldsTransfer, LegalSteps
<1>9. /\ r.from \in Branches /\ r.to \in Branches /\ r.from # r.to
      /\ r.status = "REQUESTED" /\ r.received = 0
  BY <1>4
<1> HIDE DEF r
<1>10. txn' \in [Clients -> TxnRecords] /\ TxnOK' /\ Exclusive' /\ RowsOK'
  BY <1>2, <1>3, <1>5, <1>6, <1>7, <1>8, <1>9, RowStep
<1>11. TypeOK'
  BY <1>3, <1>7, <1>10 DEF IInv, TypeOK
<1>12. Goods'
  BY <1>2, <1>3, <1>6, <1>9 DEF IInv, Goods, OnItsWay, OneCarrier, SomeCarrier, Carries
<1>13. Ledger'
  <2>1. \A b \in Branches : ledger[i][b] = 0
    BY <1>2, NothingSent
  <2>2. Sent(r) = 0
    BY <1>9 DEF Sent
  <2>3. \A b \in Branches : Told(r, b) = 0
    BY <1>9, <2>2, ToldNothing
  <2>4. \A b \in Branches : ledger'[i][b] = Told(transfer'[i], b)
    BY <1>2, <1>3, <1>6, <2>1, <2>3
  <2>5. QED
    BY <1>2, <1>3, <1>6, <2>4, LedgerStep
<1>14. Bills'
  BY <1>3, BillsStay
<1>15. QED
  BY <1>10, <1>11, <1>12, <1>13, <1>14 DEF IInv

Restatus(i, s) == transfer' = [transfer EXCEPT ![i].status = s]

\* A step that leaves everything in the row as it was but the status.
LEMMA StatusStep ==
    ASSUME NEW c \in Clients, NEW s \in {"APPROVED", "IN_TRANSIT", "CANCELLED"}, NEW i,
           i = txn[c].transfer, IInv, Changing(c, s), End(c),
           Restatus(i, s)
    PROVE  /\ i \in TransferIds
           /\ s \in LegalSteps(transfer[i].status)
           /\ transfer[i].from \in Branches /\ transfer[i].to \in Branches
           /\ transfer[i].from # transfer[i].to
           /\ transfer[i].quantity \in Nat /\ transfer[i].received = 0
           /\ transfer'[i].status = s /\ transfer'[i].items = transfer[i].items
           /\ transfer'[i].from = transfer[i].from /\ transfer'[i].to = transfer[i].to
           /\ transfer'[i].quantity = transfer[i].quantity /\ transfer'[i].received = 0
           /\ \A j \in TransferIds \ {i} : transfer'[j] = transfer[j]
           /\ transfer' \in [TransferIds -> TransferRows]
           /\ txn' \in [Clients -> TxnRecords]
           /\ TxnOK' /\ Exclusive' /\ RowsOK'
<1> DEFINE r == [transfer[i] EXCEPT !.status = s]
<1>1. /\ i \in TransferIds /\ s \in LegalSteps(transfer[i].status)
      /\ \A o \in Clients \ {c} : ~HoldsTransfer(o, i)
  BY Held
<1>2. transfer[i] \in TransferRows
  BY <1>1 DEF IInv, TypeOK
<1>3. r \in TransferRows
  BY <1>2 DEF TransferRows, Open
<1>4. \A j \in TransferIds : transfer'[j] = IF j = i THEN r ELSE transfer[j]
  BY <1>1 DEF IInv, TypeOK, Restatus
<1>5. transfer' \in [TransferIds -> TransferRows]
  BY <1>3 DEF IInv, TypeOK, Restatus
<1>6. /\ r.status = s /\ r.items = transfer[i].items
      /\ r.from = transfer[i].from /\ r.to = transfer[i].to
      /\ r.quantity = transfer[i].quantity /\ r.received = transfer[i].received
  BY <1>2 DEF TransferRows
<1> HIDE DEF r
<1>7. transfer[i].status \notin {"NONE", "RECEIVED"}
  BY <1>1 DEF LegalSteps
<1>8. /\ transfer[i].from \in Branches /\ transfer[i].to \in Branches
      /\ transfer[i].from # transfer[i].to /\ transfer[i].received = 0
  BY <1>1, <1>7 DEF IInv, RowsOK
<1>9. txn' \in [Clients -> TxnRecords] /\ TxnOK' /\ Exclusive' /\ RowsOK'
  BY <1>1, <1>3, <1>4, <1>5, <1>6, <1>8, RowStep
<1>10. transfer[i].quantity \in Nat
  BY <1>2 DEF TransferRows
<1>11. QED
  BY <1>1, <1>4, <1>5, <1>6, <1>8, <1>9, <1>10

\* A step of a transfer that has not left yet, and does not leave now.
LEMMA PaperStep ==
    ASSUME NEW c \in Clients, NEW s \in {"APPROVED", "IN_TRANSIT", "CANCELLED"}, NEW i,
           i = txn[c].transfer, IInv, Changing(c, s), End(c),
           Restatus(i, s),
           transfer[i].status # "IN_TRANSIT", s # "IN_TRANSIT",
           UNCHANGED <<status, branch, quantity, ledger, sale>>
    PROVE  IInv'
<1>1. /\ i \in TransferIds /\ s \in LegalSteps(transfer[i].status)
      /\ transfer'[i].status = s /\ transfer'[i].received = 0
      /\ \A j \in TransferIds \ {i} : transfer'[j] = transfer[j]
      /\ transfer' \in [TransferIds -> TransferRows]
      /\ txn' \in [Clients -> TxnRecords] /\ TxnOK' /\ Exclusive' /\ RowsOK'
  BY StatusStep
<1>2. TypeOK'
  BY <1>1 DEF IInv, TypeOK
<1>3. Goods'
  BY <1>1 DEF IInv, Goods, OnItsWay, OneCarrier, SomeCarrier, Carries
<1>4. Ledger'
  <2>1. \A b \in Branches : ledger[i][b] = 0
    BY <1>1, NothingSent DEF LegalSteps
  <2>2. Sent(transfer'[i]) = 0
    BY <1>1 DEF Sent
  <2>3. \A b \in Branches : Told(transfer'[i], b) = 0
    BY <1>1, <2>2, ToldNothing, Zenon
  <2>4. QED
    BY <1>1, <2>1, <2>3, LedgerStep
<1>5. Bills'
  BY BillsStay
<1>6. QED
  BY <1>1, <1>2, <1>3, <1>4, <1>5 DEF IInv

LEMMA ApproveTransferStep ==
    ASSUME NEW c \in Clients, IInv, ApproveTransfer(c)
    PROVE  IInv'
<1> DEFINE i == txn[c].transfer
<1>1. /\ Changing(c, "APPROVED") /\ End(c) /\ Restatus(i, "APPROVED")
      /\ UNCHANGED <<status, branch, quantity, ledger, sale>>
  BY DEF ApproveTransfer, Restatus
<1>2. transfer[i].status # "IN_TRANSIT"
  BY <1>1, StatusStep DEF LegalSteps
<1> HIDE DEF i
<1>3. QED
  BY <1>1, <1>2, PaperStep DEF i

\* What is left and what is taken back balance.
LEMMA MinusIs == \A n \in Int : -n = 0 - n
OBVIOUS

LEMMA DispatchTransferStep ==
    ASSUME NEW c \in Clients, IInv, DispatchTransfer(c)
    PROVE  IInv'
<1>1. PICK i : i = txn[c].transfer
  OBVIOUS
<1>2. /\ Changing(c, "IN_TRANSIT") /\ End(c) /\ Restatus(i, "IN_TRANSIT") /\ sale' = sale
      /\ Expect(transfer[i].items, "IN_STOCK")
      /\ Enough(transfer[i].from, transfer[i].quantity)
      /\ SetStatus(transfer[i].items, "IN_TRANSIT")
      /\ branch' = [d \in Devices |-> IF d \in transfer[i].items THEN transfer[i].from ELSE branch[d]]
      /\ quantity' = [quantity EXCEPT ![transfer[i].from] = @ - transfer[i].quantity]
      /\ ledger' = [ledger EXCEPT ![i][transfer[i].from] = @ - transfer[i].quantity]
  BY <1>1 DEF DispatchTransfer, Restatus
<1>3. /\ i \in TransferIds /\ "IN_TRANSIT" \in LegalSteps(transfer[i].status)
      /\ transfer[i].from \in Branches /\ transfer[i].to \in Branches
      /\ transfer[i].from # transfer[i].to
      /\ transfer[i].quantity \in Nat /\ transfer[i].received = 0
      /\ transfer'[i].status = "IN_TRANSIT" /\ transfer'[i].items = transfer[i].items
      /\ transfer'[i].from = transfer[i].from /\ transfer'[i].to = transfer[i].to
      /\ transfer'[i].quantity = transfer[i].quantity /\ transfer'[i].received = 0
      /\ \A j \in TransferIds \ {i} : transfer'[j] = transfer[j]
      /\ transfer' \in [TransferIds -> TransferRows]
      /\ txn' \in [Clients -> TxnRecords] /\ TxnOK' /\ Exclusive' /\ RowsOK'
  BY <1>1, <1>2, StatusStep
<1>4. transfer[i].status = "APPROVED"
  BY <1>3 DEF LegalSteps
<1>5. \A d \in Devices :
          /\ d \in transfer[i].items => /\ status[d] = "IN_STOCK" /\ status'[d] = "IN_TRANSIT"
                                        /\ branch'[d] = transfer[i].from
          /\ d \notin transfer[i].items => status'[d] = status[d] /\ branch'[d] = branch[d]
  BY <1>2 DEF Expect, SetStatus
<1>6. TypeOK'
  <2>1. status' \in [Devices -> DeviceStatus]
    BY <1>2 DEF SetStatus, IInv, TypeOK, DeviceStatus
  <2>2. branch' \in [Devices -> Branches]
    BY <1>2, <1>3 DEF IInv, TypeOK
  <2>3. quantity' \in [Branches -> Nat]
    <3>1. quantity[transfer[i].from] - transfer[i].quantity \in Nat
      BY <1>2, <1>3 DEF Enough, IInv, TypeOK
    <3>2. QED
      BY <1>2, <1>3, <3>1 DEF IInv, TypeOK
  <2>4. ledger' \in [TransferIds -> [Branches -> Int]]
    BY <1>2, <1>3 DEF IInv, TypeOK
  <2>5. QED
    BY <1>2, <1>3, <2>1, <2>2, <2>3, <2>4 DEF IInv, TypeOK
<1>7. Goods'
  <2>1. \A j \in TransferIds, d \in Devices : Carries(j, d) => d \notin transfer[i].items
    BY <1>5 DEF IInv, Goods, OnItsWay
  <2>2. \A j \in TransferIds, d \in Devices :
            Carries(j, d)' <=> IF j = i THEN d \in transfer[i].items ELSE Carries(j, d)
    BY <1>3 DEF Carries
  <2>3. \A d \in Devices : ~Carries(i, d)
    BY <1>4 DEF Carries
  <2>4. OnItsWay'
    BY <1>3, <1>5, <2>1, <2>2 DEF IInv, Goods, OnItsWay
  <2>5. OneCarrier'
    BY <2>1, <2>2 DEF IInv, Goods, OneCarrier
  <2>6. SomeCarrier'
    BY <1>3, <1>5, <2>2, <2>3 DEF IInv, Goods, SomeCarrier
  <2>7. QED
    BY <2>4, <2>5, <2>6 DEF Goods
<1>8. Ledger'
  <2>1. \A b \in Branches : ledger[i][b] = 0
    BY <1>3, <1>4, NothingSent
  <2>2. /\ ledger'[i][transfer[i].from] = 0 - transfer[i].quantity
        /\ \A b \in Branches \ {transfer[i].from} : ledger'[i][b] = 0
        /\ \A j \in TransferIds \ {i} : ledger'[j] = ledger[j]
    BY <1>2, <1>3, <2>1 DEF IInv, TypeOK
  <2>3. Sent(transfer'[i]) = transfer[i].quantity
    BY <1>3 DEF Sent
  <2>4. -Sent(transfer'[i]) = 0 - transfer[i].quantity
    BY <1>3, <2>3, MinusIs
  <2>5. \A b \in Branches : ledger'[i][b] = Told(transfer'[i], b)
    BY <1>3, <2>2, <2>4 DEF Told
  <2>6. QED
    BY <1>3, <2>2, <2>5, LedgerStep
<1>9. Bills'
  BY <1>2, <1>5, BillsStay
<1>10. QED
  BY <1>3, <1>6, <1>7, <1>8, <1>9 DEF IInv

\* The goods of a transfer that was in transit are where they belong.
LEMMA GoodsOff ==
    ASSUME NEW i \in TransferIds, IInv,
           transfer[i].status = "IN_TRANSIT", transfer'[i].status # "IN_TRANSIT",
           \A j \in TransferIds \ {i} : transfer'[j] = transfer[j],
           \A d \in Devices :
               /\ d \in transfer[i].items => status'[d] # "IN_TRANSIT"
               /\ d \notin transfer[i].items => status'[d] = status[d] /\ branch'[d] = branch[d]
    PROVE  Goods'
<1>1. \A j \in TransferIds, d \in Devices : Carries(j, d)' <=> j # i /\ Carries(j, d)
  BY DEF Carries
<1>2. \A j \in TransferIds, d \in Devices : Carries(j, d)' => d \notin transfer[i].items
  BY <1>1 DEF Carries, IInv, Goods, OneCarrier
<1>3. OnItsWay'
  BY <1>1, <1>2 DEF IInv, Goods, OnItsWay
<1>4. OneCarrier'
  BY <1>1 DEF IInv, Goods, OneCarrier
<1>5. SomeCarrier'
  <2>1. \A d \in Devices : Carries(i, d) <=> d \in transfer[i].items
    BY DEF Carries
  <2>2. QED
    BY <1>1, <2>1 DEF IInv, Goods, SomeCarrier
<1>6. QED
  BY <1>3, <1>4, <1>5 DEF Goods

LEMMA ReceiveTransferStep ==
    ASSUME NEW c \in Clients, IInv, ReceiveTransfer(c)
    PROVE  IInv'
<1> DEFINE i == txn[c].transfer
<1>1. i = txn[c].transfer
  OBVIOUS
<1>2. /\ Changing(c, "RECEIVED") /\ End(c) /\ sale' = sale
      /\ Expect(transfer[i].items, "IN_TRANSIT")
  BY <1>1 DEF ReceiveTransfer
<1>3. PICK arrived \in SUBSET transfer[i].items, n \in 0 .. transfer[i].quantity :
          /\ status' = [d \in Devices |-> IF d \in arrived THEN "IN_STOCK"
                                          ELSE IF d \in transfer[i].items THEN Missing
                                          ELSE status[d]]
          /\ branch' = [d \in Devices |-> IF d \in arrived THEN transfer[i].to ELSE branch[d]]
          /\ quantity' = [quantity EXCEPT ![transfer[i].to] = @ + n]
          /\ ledger' = [ledger EXCEPT ![i][transfer[i].to] = @ + n]
          /\ transfer' = [transfer EXCEPT ![i].status = "RECEIVED", ![i].received = n]
  BY Zenon DEF ReceiveTransfer
<1> HIDE DEF i
<1>4. /\ i \in TransferIds /\ transfer[i].status = "IN_TRANSIT"
      /\ \A o \in Clients \ {c} : ~HoldsTransfer(o, i)
  BY <1>1, <1>2, Held DEF LegalSteps
<1>5. transfer[i] \in TransferRows
  BY <1>4 DEF IInv, TypeOK
<1>6. /\ transfer[i].from \in Branches /\ transfer[i].to \in Branches
      /\ transfer[i].from # transfer[i].to /\ transfer[i].received = 0
  BY <1>4 DEF IInv, RowsOK
<1>7. transfer[i].quantity \in Nat /\ n \in Nat
  BY <1>5 DEF TransferRows
<1> DEFINE r == [transfer[i] EXCEPT !.status = "RECEIVED", !.received = n]
<1>8. r \in TransferRows
  BY <1>5, <1>7 DEF TransferRows, Open
<1>9. \A j \in TransferIds : transfer'[j] = IF j = i THEN r ELSE transfer[j]
  BY <1>3, <1>4 DEF IInv, TypeOK
<1>10. transfer' \in [TransferIds -> TransferRows]
  BY <1>3, <1>8 DEF IInv, TypeOK
<1>11. /\ r.status = "RECEIVED" /\ r.received = n
       /\ r.from = transfer[i].from /\ r.to = transfer[i].to
       /\ r.quantity = transfer[i].quantity
  BY <1>5 DEF TransferRows
<1> HIDE DEF r
<1>12. txn' \in [Clients -> TxnRecords] /\ TxnOK' /\ Exclusive' /\ RowsOK'
  BY <1>2, <1>4, <1>6, <1>8, <1>9, <1>10, <1>11, RowStep
<1>13. \A d \in Devices :
          /\ d \in transfer[i].items => status[d] = "IN_TRANSIT" /\ status'[d] \in {"IN_STOCK", "LOST"}
          /\ d \notin transfer[i].items => status'[d] = status[d] /\ branch'[d] = branch[d]
  BY <1>2, <1>3 DEF Expect, Missing
<1>14. TypeOK'
  <2>1. status' \in [Devices -> DeviceStatus]
    BY <1>3 DEF Missing, IInv, TypeOK, DeviceStatus
  <2>2. branch' \in [Devices -> Branches]
    BY <1>3, <1>6 DEF IInv, TypeOK
  <2>3. quantity' \in [Branches -> Nat]
    BY <1>3, <1>6, <1>7 DEF IInv, TypeOK
  <2>4. ledger' \in [TransferIds -> [Branches -> Int]]
    BY <1>3, <1>4, <1>6, <1>7 DEF IInv, TypeOK
  <2>5. QED
    BY <1>2, <1>10, <1>12, <2>1, <2>2, <2>3, <2>4 DEF IInv, TypeOK
<1>15. Goods'
  <2>1. \A d \in Devices : d \in transfer[i].items => status'[d] # "IN_TRANSIT"
    BY <1>13
  <2>2. transfer'[i].status # "IN_TRANSIT" /\ \A j \in TransferIds \ {i} : transfer'[j] = transfer[j]
    BY <1>4, <1>9, <1>11
  <2>3. QED
    BY <1>4, <1>13, <2>1, <2>2, GoodsOff
<1>16. Ledger'
  <2>1. /\ ledger[i][transfer[i].to] = 0
        /\ \A b \in Branches \ {transfer[i].to} : ledger[i][b] = Told(r, b)
    <3>1. Sent(transfer[i]) = Sent(r)
      BY <1>4, <1>11 DEF Sent
    <3>2. QED
      BY <1>4, <1>6, <1>11, <3>1 DEF IInv, Ledger, Told
  <2>2. /\ ledger'[i][transfer[i].to] = n
        /\ \A b \in Branches \ {transfer[i].to} : ledger'[i][b] = ledger[i][b]
        /\ \A j \in TransferIds \ {i} : ledger'[j] = ledger[j]
    BY <1>3, <1>4, <1>6, <1>7, <2>1 DEF IInv, TypeOK
  <2>3. Told(r, transfer[i].to) = n
    BY <1>6, <1>11 DEF Told
  <2>4. \A b \in Branches : ledger'[i][b] = Told(transfer'[i], b)
    BY <1>4, <1>9, <2>1, <2>2, <2>3
  <2>5. QED
    BY <1>4, <1>9, <2>2, <2>4, LedgerStep
<1>17. Bills'
  BY <1>2, <1>13, BillsStay
<1>18. QED
  BY <1>12, <1>14, <1>15, <1>16, <1>17 DEF IInv

LEMMA CancelTransferStep ==
    ASSUME NEW c \in Clients, IInv, CancelTransfer(c)
    PROVE  IInv'
<1>1. PICK i : i = txn[c].transfer
  OBVIOUS
<1>2. /\ Changing(c, "CANCELLED") /\ End(c) /\ Restatus(i, "CANCELLED") /\ sale' = sale
      /\ txn[c].seen = transfer[i].status
  <2>1. Changing(c, "CANCELLED") /\ End(c) /\ Restatus(i, "CANCELLED") /\ sale' = sale
    BY <1>1 DEF CancelTransfer, Restatus
  <2>2. QED
    BY <1>1, <2>1, Held
<1>3. CASE transfer[i].status # "IN_TRANSIT"
  <2>1. UNCHANGED <<status, branch, quantity, ledger, sale>>
    BY <1>2, <1>3 DEF CancelTransfer
  <2>2. QED
    BY <1>1, <1>2, <1>3, <2>1, PaperStep
<1>4. CASE transfer[i].status = "IN_TRANSIT"
  <2>1. /\ Expect(transfer[i].items, "IN_TRANSIT")
        /\ SetStatus(transfer[i].items, "IN_STOCK")
        /\ branch' = [d \in Devices |-> IF d \in transfer[i].items THEN transfer[i].from ELSE branch[d]]
        /\ quantity' = [quantity EXCEPT ![transfer[i].from] = @ + transfer[i].quantity]
        /\ ledger' = [ledger EXCEPT ![i][transfer[i].from] = @ + transfer[i].quantity]
    BY <1>1, <1>2, <1>4 DEF CancelTransfer, PutBackAt
  <2>2. /\ i \in TransferIds
        /\ transfer[i].from \in Branches /\ transfer[i].to \in Branches
        /\ transfer[i].from # transfer[i].to
        /\ transfer[i].quantity \in Nat /\ transfer[i].received = 0
        /\ transfer'[i].status = "CANCELLED" /\ transfer'[i].received = 0
        /\ \A j \in TransferIds \ {i} : transfer'[j] = transfer[j]
        /\ transfer' \in [TransferIds -> TransferRows]
        /\ txn' \in [Clients -> TxnRecords] /\ TxnOK' /\ Exclusive' /\ RowsOK'
    BY <1>1, <1>2, StatusStep
  <2>3. \A d \in Devices :
            /\ d \in transfer[i].items => status[d] = "IN_TRANSIT" /\ status'[d] = "IN_STOCK"
            /\ d \notin transfer[i].items => status'[d] = status[d] /\ branch'[d] = branch[d]
    BY <2>1 DEF Expect, SetStatus
  <2>4. TypeOK'
    <3>1. status' \in [Devices -> DeviceStatus]
      BY <2>1 DEF SetStatus, IInv, TypeOK, DeviceStatus
    <3>2. branch' \in [Devices -> Branches]
      BY <2>1, <2>2 DEF IInv, TypeOK
    <3>3. quantity' \in [Branches -> Nat]
      BY <2>1, <2>2 DEF IInv, TypeOK
    <3>4. ledger' \in [TransferIds -> [Branches -> Int]]
      BY <2>1, <2>2 DEF IInv, TypeOK
    <3>5. QED
      BY <1>2, <2>2, <3>1, <3>2, <3>3, <3>4 DEF IInv, TypeOK
  <2>5. Goods'
    BY <1>4, <2>2, <2>3, GoodsOff
  <2>6. Ledger'
    <3>1. /\ ledger[i][transfer[i].from] = 0 - transfer[i].quantity
          /\ \A b \in Branches \ {transfer[i].from} : ledger[i][b] = 0
      <4>1. -Sent(transfer[i]) = 0 - transfer[i].quantity
        BY <1>4, <2>2, MinusIs DEF Sent
      <4>2. QED
        BY <2>2, <4>1 DEF IInv, Ledger, Told
    <3>2. /\ \A b \in Branches : ledger'[i][b] = 0
          /\ \A j \in TransferIds \ {i} : ledger'[j] = ledger[j]
      BY <2>1, <2>2, <3>1 DEF IInv, TypeOK
    <3>3. Sent(transfer'[i]) = 0
      BY <2>2 DEF Sent
    <3>4. \A b \in Branches : Told(transfer'[i], b) = 0
      BY <2>2, <3>3, ToldNothing, Zenon
    <3>5. QED
      BY <2>2, <3>2, <3>4, LedgerStep
  <2>7. Bills'
    BY <1>2, <2>3, BillsStay
  <2>8. QED
    BY <2>2, <2>4, <2>5, <2>6, <2>7 DEF IInv
<1>5. QED
  BY <1>3, <1>4

-----------------------------------------------------------------------------
(* The counter, and the shelves. *)

\* A step that no request is in the middle of leaves every request what it relies on.
LEMMA OthersStay ==
    ASSUME IInv, txn' = txn, transfer' = transfer
    PROVE  txn' \in [Clients -> TxnRecords] /\ TxnOK' /\ Exclusive'
BY DEF IInv, TypeOK, TxnOK, RequestOK, Exclusive, HoldsTransfer

LEMMA CommitSaleStep ==
    ASSUME NEW c \in Clients, IInv, CommitSale(c)
    PROVE  IInv'
<1>1. /\ txn[c].step = "sell" /\ End(c) /\ UNCHANGED <<branch, quantity, transfer, ledger>>
      /\ StillInStock(txn[c].items) /\ SetStatus(txn[c].items, "SOLD")
  BY DEF CommitSale
<1>2. PICK d \in Devices : txn[c].items = {d}
  BY <1>1 DEF IInv, TxnOK, RequestOK
<1>3. PICK s \in FreeSales :
          sale' = [sale EXCEPT ![s] = [state |-> "LIVE", device |-> d, branch |-> txn[c].from]]
  BY <1>2 DEF CommitSale
<1>4. s \in SaleIds /\ sale[s].state = "NONE"
  BY DEF FreeSales
<1>5. txn[c].from \in Branches
  BY <1>1 DEF IInv, TxnOK, RequestOK
<1>6. status[d] = "IN_STOCK"
  BY <1>1, <1>2 DEF StillInStock, Expect
<1>7. \A e \in Devices : status'[e] = IF e = d THEN "SOLD" ELSE status[e]
  BY <1>1, <1>2 DEF SetStatus
<1>8. txn' \in [Clients -> TxnRecords] /\ TxnOK' /\ Exclusive'
  BY <1>1, Ends
<1>9. TypeOK'
  <2>1. status' \in [Devices -> DeviceStatus]
    BY <1>1 DEF SetStatus, IInv, TypeOK, DeviceStatus
  <2>2. sale' \in [SaleIds -> SaleRows]
    BY <1>3, <1>5 DEF IInv, TypeOK, SaleRows
  <2>3. QED
    BY <1>1, <1>8, <2>1, <2>2 DEF IInv, TypeOK
<1>10. RowsOK' /\ Goods'
  BY <1>1, <1>6, <1>7, GoodsStay
<1>11. Ledger'
  BY <1>1, LedgerStays
<1>12. Bills'
  <2>1. \A r \in SaleIds, e \in Devices :
            OnBill(r, e)' <=> IF r = s THEN e = d ELSE OnBill(r, e)
    BY <1>3, <1>4 DEF OnBill, IInv, TypeOK
  <2>2. \A r \in SaleIds : ~OnBill(r, d)
    BY <1>6 DEF IInv, Bills
  <2>3. \A e \in Devices : ~OnBill(s, e)
    BY <1>4 DEF OnBill
  <2>4. ASSUME NEW e \in Devices
        PROVE  /\ status'[e] = "SOLD" <=> \E r \in SaleIds : OnBill(r, e)'
               /\ \A r, q \in SaleIds : OnBill(r, e)' /\ OnBill(q, e)' => r = q
    <3>1. CASE e = d
      BY <1>4, <1>7, <2>1, <2>2, <3>1
    <3>2. CASE e # d
      <4>1. \A r \in SaleIds : OnBill(r, e)' <=> OnBill(r, e)
        BY <2>1, <2>3, <3>2
      <4>2. status'[e] = status[e]
        BY <1>7, <3>2
      <4>3. QED
        BY <4>1, <4>2 DEF IInv, Bills
    <3>3. QED
      BY <3>1, <3>2
  <2>5. QED
    BY <2>4 DEF Bills
<1>13. QED
  BY <1>8, <1>9, <1>10, <1>11, <1>12 DEF IInv

LEMMA CreateReturnStep ==
    ASSUME NEW s \in SaleIds, IInv, CreateReturn(s)
    PROVE  IInv'
<1>1. /\ sale[s].state = "LIVE" /\ Expect({sale[s].device}, "SOLD")
      /\ SetStatus({sale[s].device}, "RETURNED")
      /\ sale' = [sale EXCEPT ![s].state = "RETURNED"]
      /\ UNCHANGED <<branch, quantity, transfer, ledger, txn>>
  BY DEF CreateReturn
<1>2. \A e \in Devices : status'[e] = IF e = sale[s].device THEN "RETURNED" ELSE status[e]
  BY <1>1 DEF SetStatus
<1>3. status[sale[s].device] = "SOLD"
  BY <1>1 DEF Expect
<1>4. txn' \in [Clients -> TxnRecords] /\ TxnOK' /\ Exclusive'
  BY <1>1, OthersStay
<1>5. TypeOK'
  <2>1. status' \in [Devices -> DeviceStatus]
    BY <1>1 DEF SetStatus, IInv, TypeOK, DeviceStatus
  <2>2. sale' \in [SaleIds -> SaleRows]
    BY <1>1 DEF IInv, TypeOK, SaleRows
  <2>3. QED
    BY <1>1, <1>4, <2>1, <2>2 DEF IInv, TypeOK
<1>6. RowsOK' /\ Goods'
  BY <1>1, <1>2, <1>3, GoodsStay
<1>7. Ledger'
  BY <1>1, LedgerStays
<1>8. Bills'
  <2>1. \A r \in SaleIds, e \in Devices : OnBill(r, e)' <=> r # s /\ OnBill(r, e)
    BY <1>1 DEF OnBill, IInv, TypeOK, SaleRows
  <2>2. ASSUME NEW e \in Devices
        PROVE  /\ status'[e] = "SOLD" <=> \E r \in SaleIds : OnBill(r, e)'
               /\ \A r, q \in SaleIds : OnBill(r, e)' /\ OnBill(q, e)' => r = q
    <3>1. CASE e = sale[s].device
      <4>1. OnBill(s, e)
        BY <1>1, <3>1 DEF OnBill
      <4>2. \A r \in SaleIds : ~OnBill(r, e)'
        BY <2>1, <4>1 DEF IInv, Bills
      <4>3. QED
        BY <1>2, <3>1, <4>2
    <3>2. CASE e # sale[s].device
      <4>1. ~OnBill(s, e)
        BY <3>2 DEF OnBill
      <4>2. \A r \in SaleIds : OnBill(r, e)' <=> OnBill(r, e)
        BY <2>1, <4>1
      <4>3. status'[e] = status[e]
        BY <1>2, <3>2
      <4>4. QED
        BY <4>2, <4>3 DEF IInv, Bills
    <3>3. QED
      BY <3>1, <3>2
  <2>3. QED
    BY <2>2 DEF Bills
<1>9. QED
  BY <1>4, <1>5, <1>6, <1>7, <1>8 DEF IInv

\* No move that the table allows takes a handset out of a sale, or out of the loss of one
\* that was on its way.
LEMMA CommitAdjustmentStep ==
    ASSUME NEW c \in Clients, IInv, CommitAdjustment(c)
    PROVE  IInv'
<1> DEFINE t == txn[c]
<1>1. /\ CanTransition(t.seen, t.next) /\ Expect(t.items, t.seen) /\ SetStatus(t.items, t.next)
      /\ End(c) /\ UNCHANGED <<branch, quantity, transfer, ledger, sale>>
      /\ t.step = "adjust"
  BY DEF CommitAdjustment
<1>2. t.seen \in DeviceStatus /\ t.next \in {"DAMAGED", "LOST"}
  BY <1>1 DEF IInv, TxnOK, RequestOK
<1>3. /\ t.seen \notin {"SOLD", "LOST"}
      /\ t.seen = "IN_TRANSIT" => t.next = "LOST"
  BY <1>1, <1>2 DEF CanTransition, DeviceStatus
<1>4. \A d \in Devices : \/ status'[d] = status[d]
                         \/ status[d] = t.seen /\ status'[d] = t.next
  BY <1>1 DEF Expect, SetStatus
<1> HIDE DEF t
<1>5. txn' \in [Clients -> TxnRecords] /\ TxnOK' /\ Exclusive'
  BY <1>1, Ends
<1>6. TypeOK'
  <2>1. status' \in [Devices -> DeviceStatus]
    BY <1>1, <1>2 DEF SetStatus, IInv, TypeOK, DeviceStatus
  <2>2. QED
    BY <1>1, <1>5, <2>1 DEF IInv, TypeOK
<1>7. RowsOK' /\ Goods'
  BY <1>1, <1>2, <1>3, <1>4, GoodsStay
<1>8. Ledger'
  BY <1>1, LedgerStays
<1>9. Bills'
  <2>1. \A d \in Devices : status'[d] = "SOLD" <=> status[d] = "SOLD"
    BY <1>2, <1>3, <1>4
  <2>2. QED
    BY <1>1, <2>1, BillsStay
<1>10. QED
  BY <1>5, <1>6, <1>7, <1>8, <1>9 DEF IInv

LEMMA ChangeStatusStep ==
    ASSUME NEW d \in Devices, NEW expected \in {"IN_STOCK", "RETURNED"},
           NEW next \in DeviceStatus \ {"SOLD", "IN_TRANSIT"}, IInv, ChangeStatus(d, expected, next)
    PROVE  IInv'
<1>1. /\ status[d] = expected /\ SetStatus({d}, next)
      /\ UNCHANGED <<branch, quantity, transfer, ledger, sale, txn>>
  BY DEF ChangeStatus, Expect
<1>2. \A e \in Devices : \/ status'[e] = status[e]
                         \/ status[e] = expected /\ status'[e] = next
  BY <1>1 DEF SetStatus
<1>3. txn' \in [Clients -> TxnRecords] /\ TxnOK' /\ Exclusive'
  BY <1>1, OthersStay
<1>4. TypeOK'
  <2>1. status' \in [Devices -> DeviceStatus]
    BY <1>1 DEF SetStatus, IInv, TypeOK
  <2>2. QED
    BY <1>1, <1>3, <2>1 DEF IInv, TypeOK
<1>5. RowsOK' /\ Goods'
  BY <1>1, <1>2, GoodsStay
<1>6. Ledger' /\ Bills'
  <2>1. \A e \in Devices : status'[e] = "SOLD" <=> status[e] = "SOLD"
    BY <1>2
  <2>2. QED
    BY <1>1, <2>1, LedgerStays, BillsStay
<1>7. QED
  BY <1>3, <1>4, <1>5, <1>6 DEF IInv

\* A step that moves nothing but accessories on one shelf.
LEMMA ShelfStep ==
    ASSUME IInv, quantity' \in [Branches -> Nat],
           UNCHANGED <<status, branch, transfer, ledger, sale, txn>>
    PROVE  IInv'
<1>1. txn' \in [Clients -> TxnRecords] /\ TxnOK' /\ Exclusive'
  BY OthersStay
<1>2. TypeOK'
  BY <1>1 DEF IInv, TypeOK
<1>3. RowsOK' /\ Goods' /\ Ledger' /\ Bills'
  BY GoodsStay, LedgerStays, BillsStay
<1>4. QED
  BY <1>1, <1>2, <1>3 DEF IInv

LEMMA DeviceStepStep ==
    ASSUME NEW d \in Devices, IInv, DeviceStep(d)
    PROVE  IInv'
<1>1. CASE InspectDevice(d)
  BY <1>1, ChangeStatusStep DEF InspectDevice, DeviceStatus
<1>2. CASE MarkSoldExternally(d)
  BY <1>2, ChangeStatusStep DEF MarkSoldExternally, DeviceStatus
<1>3. CASE ReversePurchase(d)
  BY <1>3, ChangeStatusStep DEF ReversePurchase, DeviceStatus
<1>4. QED
  BY <1>1, <1>2, <1>3 DEF DeviceStep

LEMMA ShelvesStep ==
    ASSUME NEW b \in Branches, IInv, SellAccessory(b) \/ AdjustCount(b)
    PROVE  IInv'
<1>1. UNCHANGED <<status, branch, transfer, ledger, sale, txn>>
  BY DEF SellAccessory, AdjustCount
<1>2. quantity' \in [Branches -> Nat]
  <2>1. quantity \in [Branches -> Nat]
    BY DEF IInv, TypeOK
  <2>2. CASE quantity' = [quantity EXCEPT ![b] = @ + 1]
    BY <2>1, <2>2
  <2>3. CASE Enough(b, 1) /\ quantity' = [quantity EXCEPT ![b] = @ - 1]
    BY <2>1, <2>3 DEF Enough
  <2>4. QED
    BY <2>2, <2>3 DEF SellAccessory, AdjustCount
<1>3. QED
  BY <1>1, <1>2, ShelfStep

LEMMA NextIInv == IInv /\ [Next]_vars => IInv'
<1> SUFFICES ASSUME IInv, [Next]_vars PROVE IInv'
  OBVIOUS
<1>1. ASSUME NEW c \in Clients, TransferStep(c) PROVE IInv'
  BY <1>1, RequestTransferStep, InsertTransferStep, LoadForChangeStep, ApproveTransferStep,
     DispatchTransferStep, ReceiveTransferStep, CancelTransferStep DEF TransferStep
<1>2. ASSUME NEW c \in Clients, CounterStep(c) \/ Abort(c) PROVE IInv'
  BY <1>2, BeginSaleStep, CommitSaleStep, BeginAdjustmentStep, CommitAdjustmentStep, AbortStep
     DEF CounterStep
<1>3. ASSUME NEW d \in Devices, DeviceStep(d) PROVE IInv'
  BY <1>3, DeviceStepStep
<1>4. ASSUME NEW s \in SaleIds, CreateReturn(s) PROVE IInv'
  BY <1>4, CreateReturnStep
<1>5. ASSUME NEW b \in Branches, SellAccessory(b) \/ AdjustCount(b) PROVE IInv'
  BY <1>5, ShelvesStep
<1>6. CASE UNCHANGED vars
  <2>1. UNCHANGED <<status, branch, transfer, ledger, sale, txn>> /\ quantity' \in [Branches -> Nat]
    BY <1>6 DEF vars, IInv, TypeOK
  <2>2. QED
    BY <2>1, ShelfStep
<1>7. QED
  BY <1>1, <1>2, <1>3, <1>4, <1>5, <1>6 DEF Next

LEMMA Inductive == Spec => []IInv
BY InitIInv, NextIInv, PTL DEF Spec

-----------------------------------------------------------------------------
(* What follows. *)

\* Every table holds rows of its type, whatever is in flight: no shelf is ever below zero.
THEOREM StockTypesHold == Spec => []TypeOK
<1>1. IInv => TypeOK
  BY DEF IInv
<1>2. QED
  BY <1>1, Inductive, PTL

\* A handset that is in transit is on exactly one dispatched transfer, and still belongs to
\* the branch that sent it (dispatchTransfer, receiveTransfer, cancelTransfer, createAdjustment).
THEOREM NothingStranded == Spec => []InTransitOnOneTransfer
<1>1. IInv => InTransitOnOneTransfer
  BY DEF IInv, Goods, OnItsWay, OneCarrier, SomeCarrier, Carries, InTransitOnOneTransfer
<1>2. QED
  BY <1>1, Inductive, PTL

\* The stock ledger of a transfer says what its status, its quantity and what was received
\* say: on their way, accessories are neither made nor mislaid.
THEOREM LedgerIsRight == Spec => []LedgerTellsTheTransfer
<1>1. IInv => LedgerTellsTheTransfer
  BY DEF IInv, Ledger, Told, Sent, LedgerTellsTheTransfer
<1>2. QED
  BY <1>1, Inductive, PTL

\* A sold handset is on exactly one bill that it has not come back from, however many tills
\* and returns work at once (createSale, createReturn).
THEOREM SoldOnce == Spec => []SoldOnOneBill
<1>1. ASSUME IInv PROVE SoldOnOneBill
  BY <1>1 DEF IInv, Bills, OnBill, SoldOnOneBill
<1>2. QED
  BY <1>1, Inductive, PTL

\* A step of transfer i is one the table of steps has.
Follows(i) ==
    LET was == transfer[i].status
        is == transfer'[i].status
    IN was # is => (was = "NONE" /\ is = "REQUESTED") \/ is \in LegalSteps(was)

LEMMA StepFollows ==
    ASSUME IInv, [Next]_vars, NEW i \in TransferIds
    PROVE  Follows(i)
<1>1. ASSUME NEW c \in Clients, InsertTransfer(c) PROVE Follows(i)
  <2>1. PICK j \in FreeTransfers :
            transfer' = [transfer EXCEPT ![j] =
                [status |-> "REQUESTED", from |-> txn[c].from, to |-> txn[c].to,
                 items |-> txn[c].items, quantity |-> txn[c].quantity, received |-> 0]]
    BY <1>1 DEF InsertTransfer
  <2>2. CASE i = j
    BY <2>1, <2>2 DEF FreeTransfers, Follows, IInv, TypeOK
  <2>3. CASE i # j
    BY <2>1, <2>3 DEF Follows, IInv, TypeOK
  <2>4. QED
    BY <2>2, <2>3
<1>2. ASSUME NEW c \in Clients, NEW s \in {"APPROVED", "IN_TRANSIT", "CANCELLED"},
             Changing(c, s), End(c), Restatus(txn[c].transfer, s)
      PROVE  Follows(i)
  <2>1. PICK j : j = txn[c].transfer
    OBVIOUS
  <2>2. /\ s \in LegalSteps(transfer[j].status) /\ transfer'[j].status = s
        /\ \A k \in TransferIds \ {j} : transfer'[k] = transfer[k]
    BY <1>2, <2>1, StatusStep
  <2>3. QED
    BY <2>2 DEF Follows
<1>3. ASSUME NEW c \in Clients, ReceiveTransfer(c) PROVE Follows(i)
  <2> DEFINE j == txn[c].transfer
  <2>1. j \in TransferIds /\ "RECEIVED" \in LegalSteps(transfer[j].status)
    BY <1>3, Held DEF ReceiveTransfer
  <2>2. PICK n : transfer' = [transfer EXCEPT ![j].status = "RECEIVED", ![j].received = n]
    BY <1>3, Zenon DEF ReceiveTransfer
  <2> HIDE DEF j
  <2>3. CASE i = j
    <3>1. transfer[j] \in TransferRows
      BY <2>1 DEF IInv, TypeOK
    <3>2. transfer'[j].status = "RECEIVED"
      BY <2>1, <2>2, <3>1 DEF IInv, TypeOK, TransferRows
    <3>3. QED
      BY <2>1, <2>3, <3>2 DEF Follows
  <2>4. CASE i # j
    BY <2>2, <2>4 DEF Follows, IInv, TypeOK
  <2>5. QED
    BY <2>3, <2>4
<1>4. CASE transfer' = transfer
  BY <1>4 DEF Follows
<1>5. ASSUME NEW c \in Clients, ApproveTransfer(c) \/ DispatchTransfer(c) \/ CancelTransfer(c)
      PROVE  Follows(i)
  <2>1. End(c) /\ \E s \in {"APPROVED", "IN_TRANSIT", "CANCELLED"} :
                      Changing(c, s) /\ Restatus(txn[c].transfer, s)
    BY <1>5, Zenon DEF ApproveTransfer, DispatchTransfer, CancelTransfer, Restatus
  <2>2. QED
    BY <1>2, <2>1
<1>6. ASSUME NEW c \in Clients, TransferStep(c) \/ CounterStep(c) \/ Abort(c)
      PROVE  Follows(i)
  BY <1>1, <1>3, <1>4, <1>5, <1>6
     DEF TransferStep, CounterStep, Abort, Begin, Tables, RequestTransfer, LoadForChange,
         BeginSale, CommitSale, BeginAdjustment, CommitAdjustment
<1>7. QED
  BY <1>4, <1>6 DEF Next, vars, DeviceStep, InspectDevice, MarkSoldExternally, ReversePurchase,
                    ChangeStatus, CreateReturn, SellAccessory, AdjustCount

\* The steps of one transfer come one after the other, whichever requests race for it: no
\* two of them both move its goods (loadForChange).
THEOREM StepsInOrder == Spec => TransferLifecycle
<1>1. IInv /\ [Next]_vars => [StepsOneByOne]_vars
  BY StepFollows DEF Follows, LegalSteps, Open, StepsOneByOne
<1>2. QED
  BY <1>1, Inductive, PTL DEF Spec, TransferLifecycle
=============================================================================
