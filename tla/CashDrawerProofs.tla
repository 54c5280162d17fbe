-------------------------- MODULE CashDrawerProofs --------------------------
(***************************************************************************)
(* The till and its closings, for any number of branches, days, requests   *)
(* in flight and rows: types, one live closing per day, seal and signature *)
(* in step, and the money of an expense moved once each way.               *)
(***************************************************************************)
EXTENDS CashDrawer, TLAPS

(* What a transaction in flight may rely on, by the step it has reached. *)

Posting(t) == t.step \in {"open", "create", "insert"}

\* The keys and rows a request works on exist.
RequestOK(t) ==
    /\ Posting(t) => t.op \in PostOps /\ t.key \in DrawerKeys
    /\ t.step = "lock" => t.op = "voidExpense"
    /\ t.step = "close" => t.op = "close" /\ t.key \in DrawerKeys
    /\ t.step = "reopen" => t.op = "reopen"
    /\ t.op = "voidExpense" => t.row \in ExpenseIds
    /\ t.op \in {"close", "reopen"} => t.row \in ClosingIds
    /\ t.op = "reopen" => t.key = closing[t.row].key /\ t.key \in DrawerKeys
                          /\ closing[t.row].state # "none"

\* An uncommitted drawer row is not there yet for anybody else.
ClaimOK(t) == t.claim => /\ t.step = "insert" /\ t.seen = "OPEN"
                         /\ drawer[t.key].status = "NONE"

\* The row a request is going to write is still free, and the expense it is voiding live.
RowOK(t) ==
    /\ t.op = "expense" => t.row \in ExpenseIds /\ expense[t.row].state = "none"
    /\ t.op = "close" => closing[t.row].state = "none"
    /\ t.op = "voidExpense" /\ t.step = "lock" => expense[t.row].state # "none"
    /\ t.op = "voidExpense" /\ Posting(t) => /\ expense[t.row].state = "live"
                                             /\ t.amount = -expense[t.row].amount

TxnOK == \A c \in Clients : RequestOK(txn[c]) /\ ClaimOK(txn[c]) /\ RowOK(txn[c])

\* No two transactions hold the same thing.
Exclusive ==
    \A c, o \in Clients :
        \/ c = o
        \/ /\ txn[c].claim /\ txn[o].claim => txn[c].key # txn[o].key
           /\ txn[c].op = txn[o].op /\ txn[c].op \in {"expense", "close"} => txn[c].row # txn[o].row
           /\ \A e \in ExpenseIds : ~(HoldsExpense(c, e) /\ HoldsExpense(o, e))

\* Rows that are written are well formed.
RowsOK ==
    /\ today \in Days
    /\ \A e \in ExpenseIds : expense[e].state # "none" => expense[e].branch \in Branches
    /\ \A i \in ClosingIds : closing[i].state # "none" => closing[i].key \in DrawerKeys

IInv == /\ TypeOK /\ TxnOK /\ Exclusive /\ RowsOK
        /\ OneLiveClosing /\ SealedIffSigned /\ VoidedExpenseNetsToZero

-----------------------------------------------------------------------------
LEMMA InitIInv == Init => IInv
BY BoundsAssumption
   DEF Init, IInv, TypeOK, TxnOK, Exclusive, RowsOK, OneLiveClosing, SealedIffSigned,
       VoidedExpenseNetsToZero, RequestOK, ClaimOK, RowOK, Posting, HoldsExpense, Live,
       Idle, NoExpense, NoClosing, DrawerRows, MovementKinds, ExpenseRows, ClosingRows,
       TxnRecords, Steps, PostOps, Days, DrawerKeys

\* A step that only moves one transaction on, to a record the invariant allows.
LEMMA TxnStep ==
    ASSUME NEW c \in Clients, NEW t \in TxnRecords, IInv,
           txn' = [txn EXCEPT ![c] = t],
           UNCHANGED Tables, posts' \in Nat,
           RequestOK(t), ClaimOK(t), RowOK(t),
           \A o \in Clients \ {c} :
               /\ t.claim /\ txn[o].claim => t.key # txn[o].key
               /\ t.op = txn[o].op /\ t.op \in {"expense", "close"} => t.row # txn[o].row
               /\ \A e \in ExpenseIds :
                      ~(t.op = "voidExpense" /\ t.row = e /\ Posting(t) /\ HoldsExpense(o, e))
    PROVE  IInv'
<1>1. \A o \in Clients : txn'[o] = IF o = c THEN t ELSE txn[o]
  BY DEF IInv, TypeOK
<1>2. /\ today' = today /\ drawer' = drawer /\ posted' = posted /\ late' = late
      /\ openings' = openings /\ expense' = expense /\ closing' = closing
  BY DEF Tables
<1>3. TypeOK'
  BY <1>2 DEF IInv, TypeOK
<1>4. TxnOK'
  BY <1>1, <1>2 DEF IInv, TxnOK, RequestOK, ClaimOK, RowOK, Posting
<1>5. Exclusive'
  BY <1>1 DEF IInv, Exclusive, HoldsExpense, Posting
<1>6. RowsOK' /\ OneLiveClosing' /\ SealedIffSigned' /\ VoidedExpenseNetsToZero'
  BY <1>2 DEF IInv, RowsOK, OneLiveClosing, SealedIffSigned, VoidedExpenseNetsToZero, Live, Days
<1>7. QED
  BY <1>3, <1>4, <1>5, <1>6 DEF IInv

LEMMA IdsAreNat == ExpenseIds \subseteq Nat /\ ClosingIds \subseteq Nat
BY BoundsAssumption DEF ExpenseIds, ClosingIds

LEMMA IdleType == Idle \in TxnRecords
BY DEF Idle, TxnRecords, Steps, PostOps

\* Going idle - refused, or rolled back - lets go of everything.
LEMMA GoIdle ==
    ASSUME NEW c \in Clients, IInv, txn' = [txn EXCEPT ![c] = Idle],
           UNCHANGED <<Tables, posts>>
    PROVE  IInv'
<1>2. RequestOK(Idle) /\ ClaimOK(Idle) /\ RowOK(Idle)
  BY DEF Idle, RequestOK, ClaimOK, RowOK, Posting
<1>3. posts' \in Nat
  BY DEF IInv, TypeOK
<1>4. QED
  BY IdleType, <1>2, <1>3, TxnStep DEF Idle

-----------------------------------------------------------------------------
(* A request arrives. *)

LEMMA PostRequestStep ==
    ASSUME NEW c \in Clients, IInv, PostRequest(c)
    PROVE  IInv'
<1>1. PICK k \in DrawerKeys, a \in Amounts :
          Start(c, [Idle EXCEPT !.step = "open", !.key = k, !.amount = a])
  BY DEF PostRequest
<1> DEFINE t == [Idle EXCEPT !.step = "open", !.key = k, !.amount = a]
<1>2. t \in TxnRecords
  BY IdleType, MoneyAssumption DEF TxnRecords, Steps, PostOps
<1>3. RequestOK(t) /\ ClaimOK(t) /\ RowOK(t)
  BY DEF Idle, RequestOK, ClaimOK, RowOK, Posting, PostOps
<1>4. posts' \in Nat /\ UNCHANGED Tables
  BY DEF PostRequest, IInv, TypeOK
<1>5. t.claim = FALSE /\ t.op = "post"
  BY DEF Idle
<1> HIDE DEF t
<1>6. QED
  BY <1>1, <1>2, <1>3, <1>4, <1>5, TxnStep DEF Start, t

LEMMA ExpenseRequestStep ==
    ASSUME NEW c \in Clients, IInv, ExpenseRequest(c)
    PROVE  IInv'
<1>1. PICK k \in DrawerKeys, a \in Amounts, auth \in BOOLEAN, e \in ExpenseIds :
          /\ NextRow(expense, ExpenseIds, "expense", e)
          /\ Start(c, [Idle EXCEPT !.step = "open", !.op = "expense", !.key = k,
                                   !.amount = a, !.auth = auth, !.row = e])
  BY DEF ExpenseRequest
<1> DEFINE t == [Idle EXCEPT !.step = "open", !.op = "expense", !.key = k,
                             !.amount = a, !.auth = auth, !.row = e]
<1>2. t \in TxnRecords
  BY IdleType, IdsAreNat, MoneyAssumption DEF TxnRecords, Steps, PostOps
<1>3. expense[e].state = "none" /\ \A o \in Clients : txn[o].op # "expense" \/ txn[o].row # e
  BY <1>1 DEF NextRow
<1>4. RequestOK(t) /\ ClaimOK(t) /\ RowOK(t)
  BY <1>3 DEF Idle, RequestOK, ClaimOK, RowOK, Posting, PostOps
<1>5. posts' \in Nat /\ UNCHANGED Tables
  BY DEF ExpenseRequest, IInv, TypeOK
<1>6. t.claim = FALSE /\ t.op = "expense" /\ t.row = e
  BY DEF Idle
<1> HIDE DEF t
<1>7. QED
  BY <1>1, <1>2, <1>3, <1>4, <1>5, <1>6, TxnStep DEF Start, t

LEMMA VoidExpenseRequestStep ==
    ASSUME NEW c \in Clients, IInv, VoidExpenseRequest(c)
    PROVE  IInv'
<1>1. PICK e \in ExpenseIds, auth \in BOOLEAN :
          /\ expense[e].state = "live"
          /\ Start(c, [Idle EXCEPT !.step = "lock", !.op = "voidExpense", !.row = e, !.auth = auth])
  BY DEF VoidExpenseRequest
<1> DEFINE t == [Idle EXCEPT !.step = "lock", !.op = "voidExpense", !.row = e, !.auth = auth]
<1>2. t \in TxnRecords
  BY IdleType, IdsAreNat DEF TxnRecords, Steps, PostOps
<1>3. RequestOK(t) /\ ClaimOK(t) /\ RowOK(t)
  BY <1>1 DEF Idle, RequestOK, ClaimOK, RowOK, Posting, PostOps
<1>4. posts' \in Nat /\ UNCHANGED Tables
  BY DEF VoidExpenseRequest, IInv, TypeOK
<1>5. t.claim = FALSE /\ t.op = "voidExpense" /\ ~Posting(t)
  BY DEF Idle, Posting
<1> HIDE DEF t
<1>6. QED
  BY <1>1, <1>2, <1>3, <1>4, <1>5, TxnStep DEF Start, t

LEMMA OpeningRequestStep ==
    ASSUME NEW c \in Clients, IInv, OpeningRequest(c)
    PROVE  IInv'
<1>1. PICK k \in DrawerKeys, a \in Amounts :
          Start(c, [Idle EXCEPT !.step = "open", !.op = "opening", !.key = k, !.amount = a])
  BY DEF OpeningRequest
<1> DEFINE t == [Idle EXCEPT !.step = "open", !.op = "opening", !.key = k, !.amount = a]
<1>2. t \in TxnRecords
  BY IdleType, MoneyAssumption DEF TxnRecords, Steps, PostOps
<1>3. RequestOK(t) /\ ClaimOK(t) /\ RowOK(t)
  BY DEF Idle, RequestOK, ClaimOK, RowOK, Posting, PostOps
<1>4. posts' \in Nat /\ UNCHANGED Tables
  BY DEF OpeningRequest, IInv, TypeOK
<1>5. t.claim = FALSE /\ t.op = "opening"
  BY DEF Idle
<1> HIDE DEF t
<1>6. QED
  BY <1>1, <1>2, <1>3, <1>4, <1>5, TxnStep DEF Start, t

LEMMA CloseRequestStep ==
    ASSUME NEW c \in Clients, IInv, CloseRequest(c)
    PROVE  IInv'
<1>1. PICK k \in DrawerKeys, counted \in Counts, i \in ClosingIds :
          /\ NextRow(closing, ClosingIds, "close", i)
          /\ Start(c, [Idle EXCEPT !.step = "close", !.op = "close", !.key = k, !.row = i,
                                   !.amount = counted, !.carry = Expected(k)])
  BY DEF CloseRequest
<1> DEFINE t == [Idle EXCEPT !.step = "close", !.op = "close", !.key = k, !.row = i,
                             !.amount = counted, !.carry = Expected(k)]
<1>2. Expected(k) \in Int /\ counted \in Int
  BY MoneyAssumption DEF Expected, IInv, TypeOK, DrawerRows
<1>3. t \in TxnRecords
  BY IdleType, IdsAreNat, <1>2 DEF TxnRecords, Steps, PostOps
<1>4. closing[i].state = "none" /\ \A o \in Clients : txn[o].op # "close" \/ txn[o].row # i
  BY <1>1 DEF NextRow
<1>5. RequestOK(t) /\ ClaimOK(t) /\ RowOK(t)
  BY <1>4 DEF Idle, RequestOK, ClaimOK, RowOK, Posting, PostOps
<1>6. posts' \in Nat /\ UNCHANGED Tables
  BY DEF CloseRequest, IInv, TypeOK
<1>7. t.claim = FALSE /\ t.op = "close" /\ t.row = i
  BY DEF Idle
<1> HIDE DEF t
<1>8. QED
  BY <1>1, <1>3, <1>4, <1>5, <1>6, <1>7, TxnStep DEF Start, t

LEMMA ReopenRequestStep ==
    ASSUME NEW c \in Clients, IInv, ReopenRequest(c)
    PROVE  IInv'
<1>1. PICK i \in ClosingIds :
          /\ Live(i)
          /\ Start(c, [Idle EXCEPT !.step = "reopen", !.op = "reopen", !.row = i,
                                   !.key = closing[i].key])
  BY DEF ReopenRequest
<1> DEFINE t == [Idle EXCEPT !.step = "reopen", !.op = "reopen", !.row = i, !.key = closing[i].key]
<1>2. closing[i].key \in DrawerKeys
  BY <1>1 DEF IInv, RowsOK, Live
<1>3. t \in TxnRecords
  BY IdleType, IdsAreNat, <1>2 DEF TxnRecords, Steps, PostOps
<1>4. RequestOK(t) /\ ClaimOK(t) /\ RowOK(t)
  BY <1>1, <1>2 DEF Idle, RequestOK, ClaimOK, RowOK, Posting, PostOps, Live
<1>5. posts' \in Nat /\ UNCHANGED Tables
  BY DEF ReopenRequest, IInv, TypeOK
<1>6. t.claim = FALSE /\ t.op = "reopen"
  BY DEF Idle
<1> HIDE DEF t
<1>7. QED
  BY <1>1, <1>3, <1>4, <1>5, <1>6, TxnStep DEF Start, t

-----------------------------------------------------------------------------
(* A statement of a request in flight that writes no table yet. *)

\* openDrawerDay only adds to what a posting remembers; it may claim the drawer row.
LEMMA PosterStep ==
    ASSUME NEW c \in Clients, NEW t \in TxnRecords, IInv,
           txn' = [txn EXCEPT ![c] = t],
           UNCHANGED <<Tables, posts>>,
           Posting(txn[c]), Posting(t),
           t.op = txn[c].op, t.row = txn[c].row, t.key = txn[c].key, t.amount = txn[c].amount,
           ClaimOK(t),
           t.claim => \A o \in Clients : ~(txn[o].claim /\ txn[o].key = t.key)
    PROVE  IInv'
<1>1. RequestOK(txn[c]) /\ RowOK(txn[c]) /\ posts' \in Nat
  BY DEF IInv, TypeOK, TxnOK
<1>2. RequestOK(t)
  BY <1>1 DEF RequestOK, Posting
<1>3. RowOK(t)
  BY <1>1 DEF RowOK, Posting
<1>4. ASSUME NEW o \in Clients \ {c}
      PROVE  /\ t.op = txn[o].op /\ t.op \in {"expense", "close"} => t.row # txn[o].row
             /\ \A e \in ExpenseIds : ~(HoldsExpense(c, e) /\ HoldsExpense(o, e))
  BY DEF IInv, Exclusive
<1>5. ASSUME NEW o \in Clients \ {c}, NEW e \in ExpenseIds,
             t.op = "voidExpense", t.row = e, HoldsExpense(o, e)
      PROVE  FALSE
  <2>1. HoldsExpense(c, e)
    BY <1>5 DEF HoldsExpense, Posting
  <2>2. QED
    BY <1>4, <1>5, <2>1
<1>6. QED
  BY <1>1, <1>2, <1>3, <1>4, <1>5, TxnStep

LEMMA OpenDrawerStep ==
    ASSUME NEW c \in Clients, IInv, OpenDrawer(c)
    PROVE  IInv'
<1> DEFINE k == txn[c].key
<1>1. /\ txn[c] \in TxnRecords /\ txn[c].step = "open" /\ k \in DrawerKeys
      /\ Posting(txn[c]) /\ txn[c].claim = FALSE
      /\ UNCHANGED <<Tables, posts>>
  BY DEF OpenDrawer, IInv, TypeOK, TxnOK, RequestOK, ClaimOK, Posting, TxnRecords
<1>2. CASE drawer[k].status # "NONE"
          /\ txn' = [txn EXCEPT ![c].step = "insert", ![c].seen = drawer[k].status]
  <2> DEFINE t == [txn[c] EXCEPT !.step = "insert", !.seen = drawer[k].status]
  <2>1. drawer[k].status \in {"OPEN", "CLOSED"}
    BY <1>1, <1>2 DEF IInv, TypeOK, DrawerRows
  <2>2. t \in TxnRecords /\ t.claim = FALSE /\ t.op = txn[c].op /\ t.row = txn[c].row
        /\ t.key = txn[c].key /\ t.amount = txn[c].amount /\ t.step = "insert"
    BY <1>1, <2>1 DEF TxnRecords, Steps
  <2>3. txn' = [txn EXCEPT ![c] = t]
    BY <1>2 DEF IInv, TypeOK
  <2> HIDE DEF t
  <2>4. ClaimOK(t) /\ Posting(t)
    BY <2>2 DEF ClaimOK, Posting
  <2>5. QED
    BY <1>1, <2>2, <2>3, <2>4, PosterStep
<1>3. ASSUME NEW counted \in Carried(k),
             txn' = [txn EXCEPT ![c].step = "create", ![c].carry = counted]
      PROVE  IInv'
  <2> DEFINE t == [txn[c] EXCEPT !.step = "create", !.carry = counted]
  <2>1. counted \in Int
    BY DEF Carried, IInv, TypeOK, ClosingRows, Earlier
  <2>2. t \in TxnRecords /\ t.claim = FALSE /\ t.op = txn[c].op /\ t.row = txn[c].row
        /\ t.key = txn[c].key /\ t.amount = txn[c].amount /\ t.step = "create"
    BY <1>1, <2>1 DEF TxnRecords, Steps
  <2>3. txn' = [txn EXCEPT ![c] = t]
    BY <1>3 DEF IInv, TypeOK
  <2> HIDE DEF t
  <2>4. ClaimOK(t) /\ Posting(t)
    BY <2>2 DEF ClaimOK, Posting
  <2>5. QED
    BY <1>1, <2>2, <2>3, <2>4, PosterStep
<1>4. QED
  BY <1>2, <1>3 DEF OpenDrawer

LEMMA CreateDrawerStep ==
    ASSUME NEW c \in Clients, IInv, CreateDrawer(c)
    PROVE  IInv'
<1> DEFINE k == txn[c].key
           absent == (drawer[k].status = "NONE")
           read == IF absent THEN "OPEN" ELSE drawer[k].status
           t == [txn[c] EXCEPT !.step = "insert", !.claim = absent, !.seen = read]
<1>1. /\ txn[c] \in TxnRecords /\ txn[c].step = "create" /\ k \in DrawerKeys
      /\ Posting(txn[c]) /\ UNCHANGED <<Tables, posts>>
  BY DEF CreateDrawer, IInv, TypeOK, TxnOK, RequestOK, Posting
<1>2. absent \in BOOLEAN /\ read \in {"OPEN", "CLOSED"} /\ (absent => read = "OPEN")
  BY <1>1 DEF IInv, TypeOK, DrawerRows
<1>3. txn' = [txn EXCEPT ![c] = t]
  BY DEF CreateDrawer, IInv, TypeOK
<1>4. /\ t \in TxnRecords /\ t.op = txn[c].op /\ t.row = txn[c].row
      /\ t.key = txn[c].key /\ t.amount = txn[c].amount /\ t.step = "insert"
      /\ t.claim = absent /\ t.seen = read
  <2> HIDE DEF absent, read
  <2>1. QED
    BY <1>1, <1>2 DEF TxnRecords, Steps
<1>5. \A o \in Clients : ~(txn[o].claim /\ txn[o].key = k)
  BY DEF CreateDrawer
<1>6. (t.claim => drawer[t.key].status = "NONE" /\ t.seen = "OPEN") /\ t.key = k
  BY <1>2, <1>4
<1> HIDE DEF t, absent, read
<1>7. ClaimOK(t) /\ Posting(t)
  BY <1>4, <1>6 DEF ClaimOK, Posting
<1>8. QED
  BY <1>1, <1>3, <1>4, <1>5, <1>6, <1>7, PosterStep

LEMMA VoidExpenseLockStep ==
    ASSUME NEW c \in Clients, IInv, VoidExpenseLock(c)
    PROVE  IInv'
<1> DEFINE e == txn[c].row
           k == <<expense[e].branch, today>>
           t == [txn[c] EXCEPT !.step = "open", !.key = k, !.amount = -expense[e].amount]
<1>1. /\ txn[c] \in TxnRecords /\ txn[c].step = "lock" /\ txn[c].op = "voidExpense"
      /\ e \in ExpenseIds /\ expense[e].state = "live"
      /\ posts' \in Nat /\ UNCHANGED Tables
  BY DEF VoidExpenseLock, IInv, TypeOK, TxnOK, RequestOK
<1>2. k \in DrawerKeys /\ expense[e].amount \in Int /\ -expense[e].amount \in Int
  BY <1>1 DEF IInv, RowsOK, TypeOK, ExpenseRows, DrawerKeys
<1>3. txn[c].claim = FALSE
  BY <1>1 DEF IInv, TxnOK, ClaimOK, TxnRecords
<1>4. /\ t \in TxnRecords /\ t.op = "voidExpense" /\ t.row = e /\ t.claim = FALSE
      /\ t.key = k /\ t.amount = -expense[e].amount /\ t.step = "open"
  <2> HIDE DEF k
  <2>1. QED
    BY <1>1, <1>2, <1>3 DEF TxnRecords, Steps
<1>5. txn' = [txn EXCEPT ![c] = t]
  BY DEF VoidExpenseLock, IInv, TypeOK
<1>6. \A o \in Clients : ~HoldsExpense(o, e)
  BY DEF VoidExpenseLock
<1> HIDE DEF t, k
<1>7. RequestOK(t) /\ ClaimOK(t) /\ RowOK(t)
  BY <1>1, <1>2, <1>4 DEF RequestOK, ClaimOK, RowOK, Posting, PostOps
<1>8. QED
  BY <1>1, <1>4, <1>5, <1>6, <1>7, TxnStep

-----------------------------------------------------------------------------
(* The commits. *)

\* A transaction that ends holds nothing any more.
LEMMA Ends ==
    ASSUME NEW c \in Clients, IInv, txn' = [txn EXCEPT ![c] = Idle]
    PROVE  /\ \A o \in Clients : txn'[o] = IF o = c THEN Idle ELSE txn[o]
           /\ txn' \in [Clients -> TxnRecords]
           /\ Exclusive'
<1>1. \A o \in Clients : txn'[o] = IF o = c THEN Idle ELSE txn[o]
  BY DEF IInv, TypeOK
<1>2. txn' \in [Clients -> TxnRecords]
  BY IdleType DEF IInv, TypeOK
<1>3. Idle.claim = FALSE /\ Idle.op = "post"
  BY DEF Idle
<1>4. ASSUME NEW a \in Clients, NEW o \in Clients, a # o
      PROVE  /\ txn'[a].claim /\ txn'[o].claim => txn'[a].key # txn'[o].key
             /\ txn'[a].op = txn'[o].op /\ txn'[a].op \in {"expense", "close"}
                   => txn'[a].row # txn'[o].row
             /\ \A e \in ExpenseIds : ~(HoldsExpense(a, e)' /\ HoldsExpense(o, e)')
  BY <1>1, <1>3, <1>4 DEF IInv, Exclusive, HoldsExpense
<1>5. Exclusive'
  BY <1>4 DEF Exclusive
<1>6. QED
  BY <1>1, <1>2, <1>5

\* What an idle client is allowed, whatever the tables hold.
LEMMA IdleOK ==
    ASSUME NEW c \in Clients, txn'[c] = Idle
    PROVE  (RequestOK(txn[c]) /\ ClaimOK(txn[c]) /\ RowOK(txn[c]))'
BY DEF Idle, RequestOK, ClaimOK, RowOK, Posting

\* The expense table after a posting: at most the row of the posting changes.
LEMMA ExpenseTable ==
    ASSUME NEW t \in TxnRecords, IInv, RequestOK(t), RowOK(t), Posting(t),
           expense' = ExpenseAfter(t)
    PROVE  /\ expense' \in [ExpenseIds -> ExpenseRows]
           /\ VoidedExpenseNetsToZero'
           /\ \A e \in ExpenseIds :
                 /\ expense'[e].state # "none" => expense'[e].branch \in Branches
                 /\ expense[e].state # "none" => expense'[e].state # "none"
                 /\ \/ expense'[e] = expense[e]
                    \/ t.op \in {"expense", "voidExpense"} /\ e = t.row
<1>1. /\ expense \in [ExpenseIds -> ExpenseRows] /\ t.amount \in Int
      /\ t.op \in PostOps /\ t.key \in DrawerKeys
      /\ \A e \in ExpenseIds : expense[e].state # "none" => expense[e].branch \in Branches
      /\ \A e \in ExpenseIds :
            expense[e].net = IF expense[e].state = "live" THEN expense[e].amount ELSE 0
  BY DEF IInv, TypeOK, RowsOK, VoidedExpenseNetsToZero, RequestOK, TxnRecords
<1>2. CASE t.op = "expense"
  <2> DEFINE r == [state |-> "live", branch |-> t.key[1], amount |-> t.amount, net |-> t.amount]
  <2>1. t.row \in ExpenseIds /\ expense' = [expense EXCEPT ![t.row] = r]
    BY <1>2 DEF ExpenseAfter, RowOK
  <2>2. t.key[1] \in Branches
    BY <1>1 DEF DrawerKeys
  <2>3. r \in ExpenseRows
    BY <1>1, <2>2 DEF ExpenseRows
  <2>4. r.state = "live" /\ r.branch \in Branches /\ r.amount = r.net
    BY <2>2
  <2> HIDE DEF r
  <2>5. \A e \in ExpenseIds : expense'[e] = IF e = t.row THEN r ELSE expense[e]
    BY <1>1, <2>1
  <2>6. QED
    BY <1>1, <1>2, <2>1, <2>3, <2>4, <2>5 DEF VoidedExpenseNetsToZero
<1>3. CASE t.op = "voidExpense"
  <2> DEFINE r == [expense[t.row] EXCEPT !.state = "voided", !.net = @ + t.amount]
  <2>1. /\ t.row \in ExpenseIds /\ expense' = [expense EXCEPT ![t.row] = r]
        /\ expense[t.row].state = "live" /\ t.amount = -expense[t.row].amount
    BY <1>1, <1>3 DEF ExpenseAfter, RowOK, RequestOK
  <2>2. expense[t.row] \in ExpenseRows /\ expense[t.row].net = expense[t.row].amount
        /\ expense[t.row].branch \in Branches
    BY <1>1, <2>1
  <2>3. expense[t.row].net + t.amount = 0
    BY <2>1, <2>2 DEF ExpenseRows
  <2>4. r \in ExpenseRows /\ r.state = "voided" /\ r.net = 0 /\ r.branch = expense[t.row].branch
    <3> DEFINE x == expense[t.row]
               y == [x EXCEPT !.state = "voided"]
    <3>1. x \in ExpenseRows
      BY <2>2
    <3>2. y \in ExpenseRows /\ y.state = "voided" /\ y.net = x.net /\ y.branch = x.branch
      BY <3>1 DEF ExpenseRows
    <3>3. r = [y EXCEPT !.net = 0]
      BY <2>3
    <3> HIDE DEF r, y
    <3>4. QED
      BY <3>2, <3>3 DEF ExpenseRows
  <2> HIDE DEF r
  <2>5. \A e \in ExpenseIds : expense'[e] = IF e = t.row THEN r ELSE expense[e]
    BY <1>1, <2>1
  <2>6. QED
    BY <1>1, <1>3, <2>1, <2>2, <2>4, <2>5 DEF VoidedExpenseNetsToZero
<1>4. CASE t.op \notin {"expense", "voidExpense"}
  BY <1>1, <1>4 DEF ExpenseAfter, VoidedExpenseNetsToZero
<1>5. QED
  BY <1>2, <1>3, <1>4

LEMMA InsertMovementStep ==
    ASSUME NEW c \in Clients, IInv, InsertMovement(c)
    PROVE  IInv'
<1> DEFINE t == txn[c]
           k == t.key
<1>1. /\ t \in TxnRecords /\ t.step = "insert" /\ Posting(t) /\ t.op \in PostOps
      /\ k \in DrawerKeys /\ k[1] \in Branches /\ t.amount \in Int /\ t.carry \in Int
      /\ t.auth \in BOOLEAN
      /\ RequestOK(t) /\ ClaimOK(t) /\ RowOK(t)
  BY DEF InsertMovement, IInv, TypeOK, TxnOK, RequestOK, Posting, TxnRecords, DrawerKeys
<1>2. /\ txn' = [txn EXCEPT ![c] = Idle] /\ expense' = ExpenseAfter(t)
      /\ today' = today /\ closing' = closing /\ posts' = posts
  BY DEF InsertMovement
<1>3. /\ \A o \in Clients : txn'[o] = IF o = c THEN Idle ELSE txn[o]
      /\ txn' \in [Clients -> TxnRecords]
      /\ Exclusive'
  BY <1>2, Ends
<1>4. /\ expense' \in [ExpenseIds -> ExpenseRows]
      /\ VoidedExpenseNetsToZero'
      /\ \A e \in ExpenseIds :
            /\ expense'[e].state # "none" => expense'[e].branch \in Branches
            /\ expense[e].state # "none" => expense'[e].state # "none"
            /\ \/ expense'[e] = expense[e]
               \/ t.op \in {"expense", "voidExpense"} /\ e = t.row
  BY <1>1, <1>2, ExpenseTable
<1>5. /\ drawer' \in [DrawerKeys -> DrawerRows]
      /\ \A d \in DrawerKeys : /\ drawer'[d].status = "CLOSED" <=> drawer[d].status = "CLOSED"
                               /\ drawer'[d].status = drawer[d].status \/ (t.claim /\ d = k)
  <2>1. CASE t.claim
    <3>1. drawer' = [drawer EXCEPT ![k] = [status |-> "OPEN", opening |-> t.carry]]
      BY <2>1 DEF InsertMovement
    <3>2. drawer[k].status = "NONE"
      BY <1>1, <2>1 DEF ClaimOK
    <3>3. [status |-> "OPEN", opening |-> t.carry] \in DrawerRows
      BY <1>1 DEF DrawerRows
    <3>4. QED
      BY <1>1, <2>1, <3>1, <3>2, <3>3 DEF IInv, TypeOK
  <2>2. CASE ~t.claim
    BY <2>2 DEF InsertMovement, IInv, TypeOK
  <2>3. QED
    BY <2>1, <2>2
<1>6. TypeOK'
  <2>1. posted' \in [DrawerKeys -> Int]
    BY <1>1 DEF InsertMovement, IInv, TypeOK
  <2>2. openings' \in [Branches -> Nat]
    BY <1>1 DEF InsertMovement, IInv, TypeOK
  <2>3. late' \subseteq MovementKinds
    <3>1. [op |-> t.op, auth |-> t.auth, flagged |-> PostedAfterClose(t)] \in MovementKinds
      BY <1>1 DEF MovementKinds, PostedAfterClose
    <3>2. QED
      BY <3>1 DEF InsertMovement, IInv, TypeOK
  <2>4. QED
    BY <1>2, <1>3, <1>4, <1>5, <2>1, <2>2, <2>3 DEF IInv, TypeOK
<1>7. TxnOK'
  <2>1. SUFFICES ASSUME NEW o \in Clients
                 PROVE  (RequestOK(txn[o]) /\ ClaimOK(txn[o]) /\ RowOK(txn[o]))'
    BY DEF TxnOK
  <2>2. CASE o = c
    BY <1>3, <2>2, IdleOK
  <2>3. CASE o # c
    <3>1. txn'[o] = txn[o] /\ RequestOK(txn[o]) /\ ClaimOK(txn[o]) /\ RowOK(txn[o])
      BY <1>3, <2>3 DEF IInv, TxnOK
    <3>2. RequestOK(txn[o])'
      BY <1>2, <3>1 DEF RequestOK, Posting
    <3>3. ClaimOK(txn[o])'
      <4>1. txn[o].claim => txn[o].key \in DrawerKeys /\ drawer[txn[o].key].status = "NONE"
        BY <3>1 DEF RequestOK, ClaimOK, Posting
      <4>2. t.claim /\ txn[o].claim => txn[o].key # k
        BY <2>3 DEF IInv, Exclusive
      <4>3. txn[o].claim => drawer'[txn[o].key].status = "NONE"
        BY <1>5, <4>1, <4>2
      <4>4. QED
        BY <3>1, <4>3 DEF ClaimOK
    <3>4. RowOK(txn[o])'
      <4>1. ASSUME txn[o].op = "expense"
            PROVE  txn[o].row \in ExpenseIds /\ expense'[txn[o].row].state = "none"
        <5>1. txn[o].row \in ExpenseIds /\ expense[txn[o].row].state = "none"
          BY <3>1, <4>1 DEF RowOK
        <5>2. t.op = "expense" => t.row # txn[o].row
          BY <2>3, <4>1 DEF IInv, Exclusive
        <5>3. t.op = "voidExpense" => expense[t.row].state = "live"
          BY <1>1 DEF RowOK
        <5>4. QED
          BY <1>4, <5>1, <5>2, <5>3
      <4>2. ASSUME txn[o].op = "voidExpense", txn[o].step = "lock"
            PROVE  expense'[txn[o].row].state # "none"
        BY <1>4, <3>1, <4>2 DEF RowOK, RequestOK
      <4>3. ASSUME txn[o].op = "voidExpense", Posting(txn[o])
            PROVE  expense'[txn[o].row] = expense[txn[o].row]
        <5>1. txn[o].row \in ExpenseIds /\ expense[txn[o].row].state = "live"
          BY <3>1, <4>3 DEF RowOK, RequestOK
        <5>2. t.op = "expense" => expense[t.row].state = "none"
          BY <1>1 DEF RowOK
        <5>3. t.op = "voidExpense" => t.row # txn[o].row
          <6>1. HoldsExpense(o, txn[o].row)
            BY <4>3 DEF HoldsExpense, Posting
          <6>2. t.op = "voidExpense" /\ t.row = txn[o].row => HoldsExpense(c, txn[o].row)
            BY <1>1 DEF HoldsExpense
          <6>3. QED
            BY <2>3, <5>1, <6>1, <6>2 DEF IInv, Exclusive
        <5>4. QED
          BY <1>4, <5>1, <5>2, <5>3
      <4>4. QED
        BY <1>2, <3>1, <4>1, <4>2, <4>3 DEF RowOK, Posting
    <3>5. QED
      BY <3>2, <3>3, <3>4
  <2>4. QED
    BY <2>2, <2>3
<1>8. RowsOK' /\ OneLiveClosing'
  BY <1>2, <1>4 DEF IInv, RowsOK, OneLiveClosing, Live, Days
<1>9. SealedIffSigned'
  BY <1>2, <1>5 DEF IInv, SealedIffSigned, Live
<1>10. QED
  BY <1>3, <1>4, <1>6, <1>7, <1>8, <1>9 DEF IInv

LEMMA CloseCommitStep ==
    ASSUME NEW c \in Clients, IInv, CloseCommit(c)
    PROVE  IInv'
<1> DEFINE t == txn[c]
           k == t.key
           found == (drawer[k].status # "NONE")
           r == [state |-> "live", key |-> k, expected |-> t.carry, counted |-> t.amount,
                 sealed |-> found]
<1>1. /\ t \in TxnRecords /\ t.op = "close" /\ k \in DrawerKeys /\ t.row \in ClosingIds
      /\ t.amount \in Int /\ t.carry \in Int
      /\ closing[t.row].state = "none"
      /\ ~Signed(k)
  BY DEF CloseCommit, IInv, TypeOK, TxnOK, RequestOK, RowOK, TxnRecords, MayClose
<1>2. /\ txn' = [txn EXCEPT ![c] = Idle] /\ closing' = [closing EXCEPT ![t.row] = r]
      /\ drawer' = FrozenDrawer(k)
      /\ UNCHANGED <<today, posted, late, openings, expense, posts>>
  BY DEF CloseCommit
<1>3. /\ \A o \in Clients : txn'[o] = IF o = c THEN Idle ELSE txn[o]
      /\ txn' \in [Clients -> TxnRecords]
      /\ Exclusive'
  BY <1>2, Ends
<1>4. r \in ClosingRows /\ r.state = "live" /\ r.key = k /\ r.sealed = found
  <2>1. found \in BOOLEAN
    OBVIOUS
  <2> HIDE DEF found
  <2>2. QED
    BY <1>1, <2>1 DEF ClosingRows
<1> HIDE DEF r
<1>5. \A i \in ClosingIds : closing'[i] = IF i = t.row THEN r ELSE closing[i]
  BY <1>1, <1>2 DEF IInv, TypeOK
<1>6. /\ drawer' \in [DrawerKeys -> DrawerRows]
      /\ \A d \in DrawerKeys :
            /\ drawer'[d].status = "NONE" <=> drawer[d].status = "NONE"
            /\ d # k => drawer'[d] = drawer[d]
            /\ drawer'[k].status = IF found THEN "CLOSED" ELSE "NONE"
  <2>1. CASE found
    <3>1. drawer' = [drawer EXCEPT ![k].status = "CLOSED"]
      BY <1>2, <2>1 DEF FrozenDrawer
    <3>2. [drawer[k] EXCEPT !.status = "CLOSED"] \in DrawerRows
      BY <1>1 DEF IInv, TypeOK, DrawerRows
    <3>3. QED
      BY <1>1, <2>1, <3>1, <3>2 DEF IInv, TypeOK, DrawerRows
  <2>2. CASE ~found
    BY <1>1, <1>2, <2>2 DEF FrozenDrawer, IInv, TypeOK
  <2>3. QED
    BY <2>1, <2>2
<1> HIDE DEF found
<1>7. TypeOK'
  BY <1>1, <1>2, <1>3, <1>4, <1>6 DEF IInv, TypeOK
<1>8. TxnOK'
  <2>1. SUFFICES ASSUME NEW o \in Clients
                 PROVE  (RequestOK(txn[o]) /\ ClaimOK(txn[o]) /\ RowOK(txn[o]))'
    BY DEF TxnOK
  <2>2. CASE o = c
    BY <1>3, <2>2, IdleOK
  <2>3. CASE o # c
    <3>1. txn'[o] = txn[o] /\ RequestOK(txn[o]) /\ ClaimOK(txn[o]) /\ RowOK(txn[o])
      BY <1>3, <2>3 DEF IInv, TxnOK
    <3>2. txn[o].op = "close" => txn[o].row # t.row
      BY <1>1, <2>3 DEF IInv, Exclusive
    <3>3. RequestOK(txn[o])'
      BY <1>1, <1>5, <3>1 DEF RequestOK, Posting
    <3>4. ClaimOK(txn[o])'
      BY <1>6, <3>1 DEF ClaimOK, RequestOK, Posting
    <3>5. RowOK(txn[o])'
      <4>1. txn[o].op = "close" => closing'[txn[o].row].state = "none"
        BY <1>5, <3>1, <3>2 DEF RowOK, RequestOK
      <4>2. QED
        BY <1>2, <3>1, <4>1 DEF RowOK, Posting
    <3>6. QED
      BY <3>3, <3>4, <3>5
  <2>4. QED
    BY <2>2, <2>3
<1>9. RowsOK' /\ VoidedExpenseNetsToZero'
  BY <1>1, <1>2, <1>4, <1>5 DEF IInv, RowsOK, VoidedExpenseNetsToZero, Days
<1>10. OneLiveClosing'
  BY <1>1, <1>4, <1>5 DEF IInv, OneLiveClosing, Live, Signed
<1>11. SealedIffSigned'
  <2>1. SUFFICES ASSUME NEW d \in DrawerKeys
                 PROVE  drawer'[d].status = "CLOSED"
                          <=> \E i \in ClosingIds : /\ closing'[i].state = "live"
                                                    /\ closing'[i].key = d /\ closing'[i].sealed
    BY DEF SealedIffSigned, Live
  <2>2. CASE d = k
    BY <1>1, <1>4, <1>5, <1>6, <2>2 DEF Signed, Live
  <2>3. CASE d # k
    <3>1. drawer[d].status = "CLOSED"
            <=> \E i \in ClosingIds : closing[i].state = "live" /\ closing[i].key = d
                                     /\ closing[i].sealed
      BY DEF IInv, SealedIffSigned, Live
    <3>2. QED
      BY <1>1, <1>4, <1>5, <1>6, <2>3, <3>1
  <2>4. QED
    BY <2>2, <2>3
<1>12. QED
  BY <1>3, <1>7, <1>8, <1>9, <1>10, <1>11 DEF IInv

LEMMA ReopenCommitStep ==
    ASSUME NEW c \in Clients, IInv, ReopenCommit(c)
    PROVE  IInv'
<1> DEFINE t == txn[c]
           k == t.key
           r == [closing[t.row] EXCEPT !.state = "voided"]
<1>1. /\ t \in TxnRecords /\ k \in DrawerKeys /\ t.row \in ClosingIds
      /\ k = closing[t.row].key /\ closing[t.row].state = "live"
  <2>1. t.op = "reopen"
    BY DEF ReopenCommit, IInv, TxnOK, RequestOK
  <2>2. QED
    BY <2>1 DEF ReopenCommit, IInv, TypeOK, TxnOK, RequestOK, Live
<1>2. /\ txn' = [txn EXCEPT ![c] = Idle] /\ closing' = [closing EXCEPT ![t.row] = r]
      /\ drawer' = ReopenedDrawer(k)
      /\ UNCHANGED <<today, posted, late, openings, expense, posts>>
  BY DEF ReopenCommit, VoidedRow
<1>3. /\ \A o \in Clients : txn'[o] = IF o = c THEN Idle ELSE txn[o]
      /\ txn' \in [Clients -> TxnRecords]
      /\ Exclusive'
  BY <1>2, Ends
<1>4. r \in ClosingRows /\ r.state = "voided" /\ r.key = k
  BY <1>1 DEF IInv, TypeOK, ClosingRows
<1> HIDE DEF r
<1>5. \A i \in ClosingIds : closing'[i] = IF i = t.row THEN r ELSE closing[i]
  BY <1>1, <1>2 DEF IInv, TypeOK
<1>6. /\ drawer' \in [DrawerKeys -> DrawerRows]
      /\ \A d \in DrawerKeys :
            /\ drawer'[d].status = "NONE" <=> drawer[d].status = "NONE"
            /\ d # k => drawer'[d] = drawer[d]
            /\ drawer'[k].status # "CLOSED"
  <2>1. CASE drawer[k].status # "NONE"
    <3>1. drawer' = [drawer EXCEPT ![k].status = "OPEN"]
      BY <1>2, <2>1 DEF ReopenedDrawer
    <3>2. [drawer[k] EXCEPT !.status = "OPEN"] \in DrawerRows
      BY <1>1 DEF IInv, TypeOK, DrawerRows
    <3>3. QED
      BY <1>1, <2>1, <3>1, <3>2 DEF IInv, TypeOK, DrawerRows
  <2>2. CASE drawer[k].status = "NONE"
    BY <1>1, <1>2, <2>2 DEF ReopenedDrawer, IInv, TypeOK
  <2>3. QED
    BY <2>1, <2>2
<1>7. TypeOK'
  BY <1>1, <1>2, <1>3, <1>4, <1>6 DEF IInv, TypeOK
<1>8. TxnOK'
  <2>1. SUFFICES ASSUME NEW o \in Clients
                 PROVE  (RequestOK(txn[o]) /\ ClaimOK(txn[o]) /\ RowOK(txn[o]))'
    BY DEF TxnOK
  <2>2. CASE o = c
    BY <1>3, <2>2, IdleOK
  <2>3. CASE o # c
    <3>1. txn'[o] = txn[o] /\ RequestOK(txn[o]) /\ ClaimOK(txn[o]) /\ RowOK(txn[o])
      BY <1>3, <2>3 DEF IInv, TxnOK
    <3>2. RequestOK(txn[o])'
      BY <1>1, <1>4, <1>5, <3>1 DEF RequestOK, Posting
    <3>3. ClaimOK(txn[o])'
      BY <1>6, <3>1 DEF ClaimOK, RequestOK, Posting
    <3>4. RowOK(txn[o])'
      <4>1. txn[o].op = "close" => closing'[txn[o].row].state = "none"
        BY <1>1, <1>5, <3>1 DEF RowOK, RequestOK
      <4>2. QED
        BY <1>2, <3>1, <4>1 DEF RowOK, Posting
    <3>5. QED
      BY <3>2, <3>3, <3>4
  <2>4. QED
    BY <2>2, <2>3
<1>9. RowsOK' /\ VoidedExpenseNetsToZero'
  BY <1>1, <1>2, <1>4, <1>5 DEF IInv, RowsOK, VoidedExpenseNetsToZero, Days
<1>10. OneLiveClosing'
  BY <1>4, <1>5 DEF IInv, OneLiveClosing, Live
<1>11. SealedIffSigned'
  <2>1. SUFFICES ASSUME NEW d \in DrawerKeys
                 PROVE  drawer'[d].status = "CLOSED"
                          <=> \E i \in ClosingIds : /\ closing'[i].state = "live"
                                                    /\ closing'[i].key = d /\ closing'[i].sealed
    BY DEF SealedIffSigned, Live
  <2>2. CASE d = k
    \* The voided closing was the only live one of its day.
    BY <1>1, <1>4, <1>5, <1>6, <2>2 DEF IInv, OneLiveClosing, Live
  <2>3. CASE d # k
    <3>1. drawer[d].status = "CLOSED"
            <=> \E i \in ClosingIds : closing[i].state = "live" /\ closing[i].key = d
                                     /\ closing[i].sealed
      BY DEF IInv, SealedIffSigned, Live
    <3>2. QED
      BY <1>1, <1>4, <1>5, <1>6, <2>3, <3>1
  <2>4. QED
    BY <2>2, <2>3
<1>12. QED
  BY <1>3, <1>7, <1>8, <1>9, <1>10, <1>11 DEF IInv

-----------------------------------------------------------------------------
(* The inductive step, and what follows from it. *)

LEMMA NextIInv == IInv /\ [Next]_vars => IInv'
<1> SUFFICES ASSUME IInv, [Next]_vars PROVE IInv'
  OBVIOUS
<1>1. CASE Tick
  <2>1. today' \in Days /\ today' \in Nat
    BY <1>1, BoundsAssumption DEF Tick, IInv, RowsOK, Days
  <2>2. UNCHANGED <<drawer, posted, late, openings, expense, closing, posts, txn>>
    BY <1>1 DEF Tick
  <2>3. TypeOK' /\ RowsOK' /\ OneLiveClosing' /\ SealedIffSigned' /\ VoidedExpenseNetsToZero'
    BY <2>1, <2>2 DEF IInv, TypeOK, RowsOK, OneLiveClosing, SealedIffSigned, Live,
                      VoidedExpenseNetsToZero
  <2>4. TxnOK' /\ Exclusive'
    BY <2>2 DEF IInv, TxnOK, Exclusive, RequestOK, ClaimOK, RowOK, Posting, HoldsExpense
  <2>5. QED
    BY <2>3, <2>4 DEF IInv
<1>2. ASSUME NEW c \in Clients, Request(c)
      PROVE  IInv'
  BY <1>2, PostRequestStep, ExpenseRequestStep, VoidExpenseRequestStep, OpeningRequestStep,
     CloseRequestStep, ReopenRequestStep DEF Request
<1>3. ASSUME NEW c \in Clients, Advance(c)
      PROVE  IInv'
  <2>1. CASE ClosedDayRefused(c) \/ VoidExpenseRefused(c) \/ CloseRefused(c) \/ ReopenRefused(c)
    BY <2>1, GoIdle DEF ClosedDayRefused, VoidExpenseRefused, CloseRefused, ReopenRefused
  <2>2. CASE OpenDrawer(c) \/ InsertMovement(c) \/ CloseCommit(c) \/ ReopenCommit(c)
    BY <2>2, OpenDrawerStep, InsertMovementStep, CloseCommitStep, ReopenCommitStep
  <2>3. QED
    BY <1>3, <2>1, <2>2 DEF Advance
<1>4. ASSUME NEW c \in Clients, Wait(c)
      PROVE  IInv'
  BY <1>4, CreateDrawerStep, VoidExpenseLockStep DEF Wait
<1>5. ASSUME NEW c \in Clients, Abort(c)
      PROVE  IInv'
  BY <1>5, GoIdle DEF Abort
<1>6. CASE UNCHANGED vars
  BY <1>6 DEF vars, IInv, TypeOK, TxnOK, Exclusive, RowsOK, OneLiveClosing, SealedIffSigned,
              VoidedExpenseNetsToZero, RequestOK, ClaimOK, RowOK, Posting, HoldsExpense, Live
<1>7. QED
  BY <1>1, <1>2, <1>3, <1>4, <1>5, <1>6 DEF Next

LEMMA Inductive == Spec => []IInv
BY InitIInv, NextIInv, PTL DEF Spec

\* Every table holds rows of its type, whatever the requests in flight have read.
THEOREM TypeCorrect == Spec => []TypeOK
<1>1. IInv => TypeOK
  BY DEF IInv
<1>2. QED
  BY Inductive, <1>1, PTL

\* However many requests close, reopen and close a day of a branch, it never carries
\* two closings that have not been voided.
THEOREM OneLiveClosingPerDay == Spec => []OneLiveClosing
<1>1. IInv => OneLiveClosing
  BY DEF IInv
<1>2. QED
  BY Inductive, <1>1, PTL

\* closeDay and voidClosing keep the drawer's status and the signature in step, even
\* when postings create the drawer of the day meanwhile.
THEOREM SealAndSignatureAgree == Spec => []SealedIffSigned
<1>1. IInv => SealedIffSigned
  BY DEF IInv
<1>2. QED
  BY Inductive, <1>1, PTL

\* An expense moves its money out once, and back once if it is voided.
THEOREM ExpenseMovesItsMoneyOnce == Spec => []VoidedExpenseNetsToZero
<1>1. IInv => VoidedExpenseNetsToZero
  BY DEF IInv
<1>2. QED
  BY Inductive, <1>1, PTL

-----------------------------------------------------------------------------
(* Closings are never rewritten, and so a count that was carried over stays. *)

LEMMA KeepsClosingsStep == IInv /\ [Next]_vars => KeepsClosings
<1> SUFFICES ASSUME IInv, [Next]_vars PROVE KeepsClosings
  OBVIOUS
<1>1. CASE closing' = closing
  BY <1>1 DEF KeepsClosings
<1>2. ASSUME NEW c \in Clients, CloseCommit(c)
      PROVE  KeepsClosings
  <2>1. txn[c].row \in ClosingIds /\ closing[txn[c].row].state = "none"
    BY <1>2 DEF CloseCommit, IInv, TxnOK, RequestOK, RowOK
  <2>2. \A i \in ClosingIds : i # txn[c].row => closing'[i] = closing[i]
    BY <1>2 DEF CloseCommit, IInv, TypeOK
  <2>3. QED
    BY <2>1, <2>2 DEF KeepsClosings
<1>3. ASSUME NEW c \in Clients, ReopenCommit(c)
      PROVE  KeepsClosings
  <2> DEFINE j == txn[c].row
             r == [closing[j] EXCEPT !.state = "voided"]
  <2>1. j \in ClosingIds
    BY <1>3 DEF ReopenCommit, IInv, TxnOK, RequestOK
  <2>2. r.state = "voided" /\ r.key = closing[j].key /\ r.counted = closing[j].counted
        /\ r.expected = closing[j].expected
    BY <2>1 DEF IInv, TypeOK, ClosingRows
  <2> HIDE DEF r
  <2>3. \A i \in ClosingIds : closing'[i] = IF i = j THEN r ELSE closing[i]
    BY <1>3, <2>1 DEF ReopenCommit, VoidedRow, IInv, TypeOK, r
  <2>4. QED
    BY <2>2, <2>3 DEF KeepsClosings
<1>4. QED
  BY <1>1, <1>2, <1>3
     DEF Next, Request, Advance, Wait, Abort, Tick, Tables, vars, PostRequest, ExpenseRequest,
         VoidExpenseRequest, OpeningRequest, CloseRequest, ReopenRequest, OpenDrawer,
         ClosedDayRefused, InsertMovement, VoidExpenseRefused, CloseRefused, ReopenRefused,
         CreateDrawer, VoidExpenseLock

\* A closing is stamped, never rewritten: its figures stay and a voided one stays voided.
THEOREM ClosingsAreStamped == Spec => ClosingNeverRewritten
<1>1. IInv /\ [Next]_vars => [KeepsClosings]_vars
  BY KeepsClosingsStep
<1>2. QED
  BY Inductive, <1>1, PTL DEF Spec, ClosingNeverRewritten

\* What a posting is going to open the drawer with: nothing, or a count.
CarryOK(t) ==
    /\ t.step \in {"idle", "lock", "open"} => t.carry = 0
    /\ Posting(t) => t.carry = 0 \/ CountedBefore(t.key, t.carry)

CInv == OpeningIsACount /\ \A c \in Clients : CarryOK(txn[c])

\* A count that was written stays written.
LEMMA CountsStay ==
    ASSUME KeepsClosings, NEW k, NEW cash, CountedBefore(k, cash)
    PROVE  CountedBefore(k, cash)'
BY DEF KeepsClosings, CountedBefore

\* A step opens no drawer with anything but a count, and carries nothing but counts.
LEMMA CarryStep ==
    ASSUME NEW c \in Clients, NEW t, IInv, KeepsClosings, CInv,
           txn' = [txn EXCEPT ![c] = t], CarryOK(t),
           \A k \in DrawerKeys : \/ drawer'[k].opening \in {drawer[k].opening, 0}
                                 \/ CountedBefore(k, drawer'[k].opening)
    PROVE  CInv'
<1>1. OpeningIsACount'
  <2>1. SUFFICES ASSUME NEW k \in DrawerKeys
                 PROVE  drawer'[k].opening = 0 \/ CountedBefore(k, drawer[k].opening)'
    BY DEF OpeningIsACount
  <2>2. drawer'[k].opening = 0 \/ CountedBefore(k, drawer'[k].opening)
    BY DEF CInv, OpeningIsACount
  <2>3. QED
    BY <2>2 DEF CountedBefore, KeepsClosings
<1>2. \A o \in Clients : txn'[o] = IF o = c THEN t ELSE txn[o]
  BY DEF IInv, TypeOK
<1>3. ASSUME NEW o \in Clients
      PROVE  CarryOK(txn[o])'
  <2>1. CarryOK(txn'[o])
    BY <1>2 DEF CInv
  <2>2. QED
    BY <2>1 DEF CarryOK, Posting, CountedBefore, KeepsClosings
<1>4. QED
  BY <1>1, <1>3 DEF CInv

\* A request arrives with nothing to carry, or not to post.
LEMMA ArrivalCarry ==
    ASSUME NEW c \in Clients, NEW t, IInv, KeepsClosings, CInv, Start(c, t), drawer' = drawer,
           t.step = "close" \/ t.step = "reopen" \/ (t.step \in {"open", "lock"} /\ t.carry = 0)
    PROVE  CInv'
<1>1. CarryOK(t)
  BY DEF CarryOK, Posting
<1>2. QED
  BY <1>1, CarryStep DEF Start

\* "The last day this branch closed" counted its cash.
LEMMA CarriedIsCounted ==
    ASSUME IInv, NEW k \in DrawerKeys, NEW cash \in Carried(k)
    PROVE  cash = 0 \/ CountedBefore(k, cash)
BY DEF Carried, Earlier, CountedBefore, Live

LEMMA NextCInv == IInv /\ KeepsClosings /\ CInv /\ [Next]_vars => CInv'
<1> SUFFICES ASSUME IInv, KeepsClosings, CInv, [Next]_vars PROVE CInv'
  OBVIOUS
<1>1. CarryOK(Idle)
  BY DEF CarryOK, Idle, Posting
<1>2. \A c \in Clients : /\ CarryOK(txn[c]) /\ RequestOK(txn[c]) /\ ClaimOK(txn[c])
                         /\ txn[c] \in TxnRecords
  BY DEF CInv, IInv, TxnOK, TypeOK
<1>3. CASE UNCHANGED <<drawer, txn>>
  BY <1>3, CountsStay DEF CInv, OpeningIsACount, CarryOK, Posting, CountedBefore, KeepsClosings
<1>4. ASSUME NEW c \in Clients, Request(c)
      PROVE  CInv'
  <2>1. drawer' = drawer
    BY <1>4 DEF Request, Tables, PostRequest, ExpenseRequest, VoidExpenseRequest, OpeningRequest,
                CloseRequest, ReopenRequest
  <2>2. CASE PostRequest(c)
    <3>1. PICK k, a :
              Start(c, [Idle EXCEPT !.step = "open", !.key = k, !.amount = a])
      BY <2>2 DEF PostRequest
    <3>2. QED
      BY <2>1, <3>1, ArrivalCarry DEF Idle
  <2>3. CASE ExpenseRequest(c)
    <3>1. PICK k, a, auth, e :
              Start(c, [Idle EXCEPT !.step = "open", !.op = "expense", !.key = k,
                                !.amount = a, !.auth = auth, !.row = e])
      BY <2>3 DEF ExpenseRequest
    <3>2. QED
      BY <2>1, <3>1, ArrivalCarry DEF Idle
  <2>4. CASE VoidExpenseRequest(c)
    <3>1. PICK e, auth :
              Start(c, [Idle EXCEPT !.step = "lock", !.op = "voidExpense", !.row = e, !.auth = auth])
      BY <2>4 DEF VoidExpenseRequest
    <3>2. QED
      BY <2>1, <3>1, ArrivalCarry DEF Idle
  <2>5. CASE OpeningRequest(c)
    <3>1. PICK k, a :
              Start(c, [Idle EXCEPT !.step = "open", !.op = "opening", !.key = k, !.amount = a])
      BY <2>5 DEF OpeningRequest
    <3>2. QED
      BY <2>1, <3>1, ArrivalCarry DEF Idle
  <2>6. CASE CloseRequest(c)
    <3>1. PICK k, counted, i :
              Start(c, [Idle EXCEPT !.step = "close", !.op = "close", !.key = k, !.row = i,
                                !.amount = counted, !.carry = Expected(k)])
      BY <2>6 DEF CloseRequest
    <3>2. QED
      BY <2>1, <3>1, ArrivalCarry DEF Idle
  <2>7. CASE ReopenRequest(c)
    <3>1. PICK i :
              Start(c, [Idle EXCEPT !.step = "reopen", !.op = "reopen", !.row = i,
                                !.key = closing[i].key])
      BY <2>7 DEF ReopenRequest
    <3>2. QED
      BY <2>1, <3>1, ArrivalCarry DEF Idle
  <2>8. QED
    BY <1>4, <2>2, <2>3, <2>4, <2>5, <2>6, <2>7 DEF Request
<1>5. ASSUME NEW c \in Clients, txn' = [txn EXCEPT ![c] = Idle], drawer' = drawer
      PROVE  CInv'
  BY <1>1, <1>5, CarryStep
<1>6. ASSUME NEW c \in Clients, OpenDrawer(c)
      PROVE  CInv'
  <2> DEFINE k == txn[c].key
  <2>1. k \in DrawerKeys /\ txn[c].carry = 0 /\ drawer' = drawer
    BY <1>2, <1>6 DEF OpenDrawer, RequestOK, Posting, CarryOK, Tables
  <2>2. CASE txn' = [txn EXCEPT ![c].step = "insert", ![c].seen = drawer[k].status]
    <3> DEFINE t == [txn[c] EXCEPT !.step = "insert", !.seen = drawer[k].status]
    <3>1. txn' = [txn EXCEPT ![c] = t]
      BY <2>2 DEF IInv, TypeOK
    <3>2. t.step = "insert" /\ t.carry = 0
      BY <1>2, <2>1 DEF TxnRecords
    <3> HIDE DEF t
    <3>3. CarryOK(t)
      BY <3>2 DEF CarryOK
    <3>4. QED
      BY <2>1, <3>1, <3>3, CarryStep
  <2>3. ASSUME NEW cash \in Carried(k),
               txn' = [txn EXCEPT ![c].step = "create", ![c].carry = cash]
        PROVE  CInv'
    <3> DEFINE t == [txn[c] EXCEPT !.step = "create", !.carry = cash]
    <3>1. txn' = [txn EXCEPT ![c] = t]
      BY <2>3 DEF IInv, TypeOK
    <3>2. t.step = "create" /\ t.carry = cash /\ t.key = k
      BY <1>2 DEF TxnRecords
    <3> HIDE DEF t
    <3>3. CarryOK(t)
      BY <2>1, <3>2, CarriedIsCounted DEF CarryOK
    <3>4. QED
      BY <2>1, <3>1, <3>3, CarryStep
  <2>4. QED
    BY <1>6, <2>2, <2>3 DEF OpenDrawer
<1>7. ASSUME NEW c \in Clients, CreateDrawer(c)
      PROVE  CInv'
  <2> DEFINE k == txn[c].key
             absent == (drawer[k].status = "NONE")
             read == IF absent THEN "OPEN" ELSE drawer[k].status
             t == [txn[c] EXCEPT !.step = "insert", !.claim = absent, !.seen = read]
  <2>1. txn' = [txn EXCEPT ![c] = t] /\ drawer' = drawer
    BY <1>7 DEF CreateDrawer, IInv, TypeOK, Tables
  <2>2. t.step = "insert" /\ t.carry = txn[c].carry /\ t.key = k
    BY <1>2 DEF TxnRecords
  <2> HIDE DEF t
  <2>3. txn[c].carry = 0 \/ CountedBefore(k, txn[c].carry)
    BY <1>2, <1>7 DEF CreateDrawer, CarryOK, Posting
  <2>4. CarryOK(t)
    BY <2>2, <2>3 DEF CarryOK
  <2>5. QED
    BY <2>1, <2>4, CarryStep
<1>8. ASSUME NEW c \in Clients, VoidExpenseLock(c)
      PROVE  CInv'
  <2> DEFINE k == <<expense[txn[c].row].branch, today>>
             amount == -expense[txn[c].row].amount
             t == [txn[c] EXCEPT !.step = "open", !.key = k, !.amount = amount]
  <2>1. txn' = [txn EXCEPT ![c] = t] /\ drawer' = drawer
    BY <1>8 DEF VoidExpenseLock, IInv, TypeOK, Tables
  <2>2. t.step = "open" /\ t.carry = 0
    BY <1>2, <1>8 DEF TxnRecords, VoidExpenseLock, CarryOK
  <2> HIDE DEF t
  <2>3. CarryOK(t)
    BY <2>2 DEF CarryOK
  <2>4. QED
    BY <2>1, <2>3, CarryStep
<1>9. ASSUME NEW c \in Clients, InsertMovement(c)
      PROVE  CInv'
  <2> DEFINE k == txn[c].key
  <2>1. k \in DrawerKeys /\ (txn[c].carry = 0 \/ CountedBefore(k, txn[c].carry))
    BY <1>2, <1>9 DEF InsertMovement, RequestOK, Posting, CarryOK
  <2>2. \A d \in DrawerKeys : \/ drawer'[d].opening = drawer[d].opening
                              \/ d = k /\ drawer'[d].opening = txn[c].carry
    BY <1>9, <2>1 DEF InsertMovement, IInv, TypeOK
  <2>3. txn' = [txn EXCEPT ![c] = Idle]
    BY <1>9 DEF InsertMovement
  <2>4. QED
    BY <1>1, <2>1, <2>2, <2>3, CarryStep
<1>10. ASSUME NEW c \in Clients, CloseCommit(c) \/ ReopenCommit(c)
       PROVE  CInv'
  <2>1. \A d \in DrawerKeys : drawer'[d].opening = drawer[d].opening
    BY <1>10 DEF CloseCommit, ReopenCommit, FrozenDrawer, ReopenedDrawer, IInv, TypeOK, DrawerRows
  <2>2. txn' = [txn EXCEPT ![c] = Idle]
    BY <1>10 DEF CloseCommit, ReopenCommit
  <2>3. QED
    BY <1>1, <2>1, <2>2, CarryStep
<1>11. ASSUME NEW c \in Clients,
              \/ ClosedDayRefused(c) \/ VoidExpenseRefused(c) \/ CloseRefused(c)
              \/ ReopenRefused(c) \/ Abort(c)
       PROVE  CInv'
  BY <1>5, <1>11 DEF ClosedDayRefused, VoidExpenseRefused, CloseRefused, ReopenRefused, Abort, Tables
<1>12. QED
  BY <1>3, <1>4, <1>6, <1>7, <1>8, <1>9, <1>10, <1>11 DEF Next, Tick, Advance, Wait, vars

\* A drawer never opens with a figure nobody counted, though the handler that opens it
\* read the count before others closed and reopened days.
THEOREM DrawersOpenWithCounts == Spec => []OpeningIsACount
<1>1. Init => CInv
  BY DEF Init, CInv, OpeningIsACount, CarryOK, Idle, Posting
<1>2. IInv /\ [Next]_vars /\ CInv => CInv'
  BY NextCInv, KeepsClosingsStep
<1>3. CInv => OpeningIsACount
  BY DEF CInv
<1>4. QED
  BY <1>1, <1>2, <1>3, Inductive, PTL DEF Spec
=============================================================================
