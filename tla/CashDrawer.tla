----------------------------- MODULE CashDrawer -----------------------------
(***************************************************************************)
(* The till of a branch and the signature at the end of its day:           *)
(* cash.service.ts (openDrawerDay, postCashMovement, expectedCashPaise),   *)
(* closing.service.ts (closeDay, voidClosing), expense.service.ts          *)
(* (createExpense, voidExpense) and openingCash of                         *)
(* opening-balance.service.ts.                                             *)
(*                                                                         *)
(* A request runs one database transaction at READ COMMITTED.  Each action *)
(* below is one statement that reads what other transactions committed, or *)
(* the last statement together with the commit, which is when the writes   *)
(* of the transaction become visible.  `txn' holds what a handler has read *)
(* so far, and the rows it has locked or inserted and not yet committed.   *)
(***************************************************************************)
EXTENDS Integers

CONSTANTS
    Branches,      \* the branches of the business
    LastDay,       \* bound: the calendar is 1 .. LastDay
    Clients,       \* requests that can be in flight at the same time
    Amounts,       \* signed cash amounts a posting may carry
    Counts,        \* what a person may count in the till
    MaxClosings,   \* bound: rows of daily_closing
    MaxExpenses,   \* bound: rows of expense
    MaxPosts,      \* bound: ordinary postings started
    Ops,           \* bound: the kinds of request that arrive
    None           \* not a branch, not a drawer

ASSUME BoundsAssumption ==
    /\ LastDay \in Nat \ {0} /\ MaxClosings \in Nat
    /\ MaxExpenses \in Nat /\ MaxPosts \in Nat
ASSUME MoneyAssumption ==
    /\ Amounts \subseteq Int
    /\ Counts \subseteq Nat

Days == 1 .. LastDay
DrawerKeys == Branches \X Days      \* unique index cash_drawer_day_uq
ClosingIds == 1 .. MaxClosings
ExpenseIds == 1 .. MaxExpenses

VARIABLES
    today,      \* businessDateFor(now)
    drawer,     \* cash_drawer_day: status ("NONE" when there is no row) and opening_paise
    posted,     \* the SUM of the amounts of the day's cash_movement rows
    late,       \* the kinds of cash_movement rows that reached a day while it was signed
    openings,   \* per branch, how many OPENING rows cash_movement holds
    expense,    \* expense, with the sum of the movements that refer to it
    closing,    \* daily_closing
    posts,      \* how many ordinary postings were started (MaxPosts)
    txn         \* the transaction each client is in

vars == <<today, drawer, posted, late, openings, expense, closing, posts, txn>>

-----------------------------------------------------------------------------
(* Rows.                                                                   *)

PostOps == {"post", "expense", "voidExpense", "opening"}
Steps == {"idle", "lock", "open", "create", "insert", "close", "reopen"}

\* What a handler remembers between two statements.  `auth' is the permission
\* closing.correct; `seen' the drawer status it read, `carry' the previous
\* count it read; `claim' says that it has inserted the drawer row, uncommitted.
Idle == [step |-> "idle", op |-> "post", key |-> None, amount |-> 0, auth |-> FALSE,
         seen |-> "OPEN", carry |-> 0, claim |-> FALSE, row |-> 0]

NoExpense == [state |-> "none", branch |-> None, amount |-> 0, net |-> 0]
NoClosing == [state |-> "none", key |-> None, expected |-> 0, counted |-> 0, sealed |-> FALSE]

\* The next row of a bounded table: not written, and not wanted by a request in flight.
NextRow(table, ids, op, i) ==
    LET Free == {j \in ids : /\ table[j].state = "none"
                             /\ \A c \in Clients : txn[c].op # op \/ txn[c].row # j}
    IN i \in Free /\ \A j \in Free : i <= j

Live(i) == closing[i].state = "live"
Signed(k) == \E i \in ClosingIds : Live(i) /\ closing[i].key = k

\* Live closings of the same branch with an earlier, or a later, date.
Earlier(k) == {i \in ClosingIds : Live(i) /\ closing[i].key[1] = k[1] /\ closing[i].key[2] < k[2]}
Later(k) == {i \in ClosingIds : Live(i) /\ closing[i].key[1] = k[1] /\ closing[i].key[2] > k[2]}

\* Mutant of Carried: carries the expected cash over, not the counted.
CarriedExpected(k) ==
    IF Earlier(k) = {} THEN {0}
    ELSE {closing[i].expected : i \in {l \in Earlier(k) :
                                  \A j \in Earlier(k) : closing[j].key[2] <= closing[l].key[2]}}

\* "The last day this branch closed, whenever that was": its counted cash, or nothing.
Carried(k) ==
    IF Earlier(k) = {} THEN {0}
    ELSE {closing[i].counted : i \in {l \in Earlier(k) :
                                 \A j \in Earlier(k) : closing[j].key[2] <= closing[l].key[2]}}

\* expectedCashPaise: derived from the movements; nothing when there is no row.
Expected(k) == IF drawer[k].status = "NONE" THEN 0 ELSE drawer[k].opening + posted[k]

-----------------------------------------------------------------------------
Init ==
    /\ today = 1
    /\ drawer = [k \in DrawerKeys |-> [status |-> "NONE", opening |-> 0]]
    /\ posted = [k \in DrawerKeys |-> 0]
    /\ late = {}
    /\ openings = [b \in Branches |-> 0]
    /\ expense = [e \in ExpenseIds |-> NoExpense]
    /\ closing = [i \in ClosingIds |-> NoClosing]
    /\ posts = 0
    /\ txn = [c \in Clients |-> Idle]

Tables == <<today, drawer, posted, late, openings, expense, closing>>

\* A request arrives at an idle client.
Start(c, t) == t.op \in Ops /\ txn[c].step = "idle" /\ txn' = [txn EXCEPT ![c] = t]

\* Roll back, on an AppError or any other failure: nothing was written.
Abort(c) ==
    /\ txn[c].step # "idle"
    /\ txn' = [txn EXCEPT ![c] = Idle]
    /\ UNCHANGED <<Tables, posts>>

\* Midnight in the shop's time zone.
Tick ==
    /\ today < LastDay
    /\ today' = today + 1
    /\ UNCHANGED <<drawer, posted, late, openings, expense, closing, posts, txn>>

-----------------------------------------------------------------------------
(* Posting cash.                                                           *)

\* A sale, a collection, a refund or a payment to a supplier moves cash on the
\* day the document is dated; none of them may post into a closed day.
PostRequest(c) ==
    /\ posts < MaxPosts
    /\ \E k \in DrawerKeys, a \in Amounts :
           Start(c, [Idle EXCEPT !.step = "open", !.key = k, !.amount = a])
    /\ posts' = posts + 1
    /\ UNCHANGED Tables

\* createExpense up to the posting: it has its own look at the status first.
ExpenseRequest(c) ==
    /\ \E k \in DrawerKeys, a \in Amounts, auth \in BOOLEAN, e \in ExpenseIds :
           /\ a < 0
           /\ NextRow(expense, ExpenseIds, "expense", e)
           /\ drawer[k].status = "CLOSED" => auth
           /\ Start(c, [Idle EXCEPT !.step = "open", !.op = "expense", !.key = k,
                                    !.amount = a, !.auth = auth, !.row = e])
    /\ UNCHANGED <<Tables, posts>>

\* voidExpense reads a row that is not voided ...
VoidExpenseRequest(c) ==
    /\ \E e \in ExpenseIds, auth \in BOOLEAN :
           /\ expense[e].state = "live"
           /\ Start(c, [Idle EXCEPT !.step = "lock", !.op = "voidExpense", !.row = e, !.auth = auth])
    /\ UNCHANGED <<Tables, posts>>

\* Mutant of HoldsExpense: the UPDATE has lost its condition, and waits for nobody.
HoldsNothing(c, e) == FALSE

\* The handlers past the conditional UPDATE of expense e hold its row lock.
HoldsExpense(c, e) ==
    /\ txn[c].op = "voidExpense" /\ txn[c].row = e
    /\ txn[c].step \in {"open", "create", "insert"}

\* ... and voids it with an UPDATE ... WHERE voided_at IS NULL, which waits for
\* another void of the same row to end.  The money goes back into today's till.
VoidExpenseLock(c) ==
    LET e == txn[c].row IN
    /\ txn[c].step = "lock"
    /\ \A o \in Clients : ~HoldsExpense(o, e)
    /\ expense[e].state = "live"
    /\ txn' = [txn EXCEPT ![c].step = "open", ![c].key = <<expense[e].branch, today>>,
                          ![c].amount = -expense[e].amount]
    /\ UNCHANGED <<Tables, posts>>

\* The row was voided meanwhile: no row updated, 409.
VoidExpenseRefused(c) ==
    /\ txn[c].step = "lock"
    /\ expense[txn[c].row].state = "voided"
    /\ txn' = [txn EXCEPT ![c] = Idle]
    /\ UNCHANGED <<Tables, posts>>

\* openingCash: the branch must not have an OPENING row yet.
OpeningRequest(c) ==
    /\ \E k \in DrawerKeys, a \in Amounts :
           /\ a > 0
           /\ openings[k[1]] = 0
           /\ Start(c, [Idle EXCEPT !.step = "open", !.op = "opening", !.key = k, !.amount = a])
    /\ UNCHANGED <<Tables, posts>>

\* openDrawerDay, first look: the day's row, or else the count to carry over.
OpenDrawer(c) ==
    LET k == txn[c].key IN
    /\ txn[c].step = "open"
    /\ \/ /\ drawer[k].status # "NONE"
          /\ txn' = [txn EXCEPT ![c].step = "insert", ![c].seen = drawer[k].status]
       \/ /\ drawer[k].status = "NONE"
          /\ \E counted \in Carried(k) :
                 txn' = [txn EXCEPT ![c].step = "create", ![c].carry = counted]
    /\ UNCHANGED <<Tables, posts>>

\* openDrawerDay, INSERT ... ON CONFLICT DO NOTHING: it waits while another
\* transaction holds the same row uncommitted; if the row is there by then, the
\* handler settles for it and reads its status.
CreateDrawer(c) ==
    LET k == txn[c].key IN
    /\ txn[c].step = "create"
    /\ \A o \in Clients : ~(txn[o].claim /\ txn[o].key = k)
    /\ txn' = [txn EXCEPT ![c].step = "insert",
                          ![c].claim = (drawer[k].status = "NONE"),
                          ![c].seen = IF drawer[k].status = "NONE" THEN "OPEN" ELSE drawer[k].status]
    /\ UNCHANGED <<Tables, posts>>

\* postCashMovement refuses a day it read as closed unless the caller may correct
\* it; openingCash does not look at the status.
MayPost(t) == t.seen = "CLOSED" => t.auth \/ t.op = "opening"

ClosedDayRefused(c) ==
    /\ txn[c].step = "insert"
    /\ ~MayPost(txn[c])
    /\ txn' = [txn EXCEPT ![c] = Idle]
    /\ UNCHANGED <<Tables, posts>>

\* The flag says what the handler read, and openingCash leaves it at its default.
PostedAfterClose(t) == t.op # "opening" /\ t.seen = "CLOSED"

\* What the commit does to the expense the movement refers to.
ExpenseAfter(t) ==
    CASE t.op = "expense" ->
            [expense EXCEPT ![t.row] = [state |-> "live", branch |-> t.key[1],
                                        amount |-> t.amount, net |-> t.amount]]
      [] t.op = "voidExpense" ->
            [expense EXCEPT ![t.row].state = "voided", ![t.row].net = @ + t.amount]
      [] OTHER -> expense

\* The movement is inserted and the transaction commits.
InsertMovement(c) ==
    LET t == txn[c]
        k == t.key
    IN
    /\ t.step = "insert"
    /\ MayPost(t)
    /\ drawer' = IF t.claim THEN [drawer EXCEPT ![k] = [status |-> "OPEN", opening |-> t.carry]]
                 ELSE drawer
    /\ posted' = [posted EXCEPT ![k] = @ + t.amount]
    /\ late' = IF Signed(k)
               THEN late \union {[op |-> t.op, auth |-> t.auth, flagged |-> PostedAfterClose(t)]}
               ELSE late
    /\ openings' = IF t.op = "opening" THEN [openings EXCEPT ![k[1]] = @ + 1] ELSE openings
    /\ expense' = ExpenseAfter(t)
    /\ txn' = [txn EXCEPT ![c] = Idle]
    /\ UNCHANGED <<today, closing, posts>>

-----------------------------------------------------------------------------
(* Signing the day.                                                        *)

\* closeDay refuses a day that has not happened yet, and computes daySummary
\* before its transaction begins.  `carry' is the expected cash it computed.
CloseRequest(c) ==
    /\ \E k \in DrawerKeys, counted \in Counts, i \in ClosingIds :
           /\ k[2] <= today
           /\ NextRow(closing, ClosingIds, "close", i)
           /\ Start(c, [Idle EXCEPT !.step = "close", !.op = "close", !.key = k, !.row = i,
                                    !.amount = counted, !.carry = Expected(k)])
    /\ UNCHANGED <<Tables, posts>>

\* Mutant of MayClose: neither the check nor the unique index.
MayAlwaysClose(k) == TRUE

\* The check for a live closing and the partial unique index
\* daily_closing_live_uq refuse alike.
MayClose(k) == ~Signed(k)

CloseRefused(c) ==
    /\ txn[c].step = "close"
    /\ ~MayClose(txn[c].key)
    /\ txn' = [txn EXCEPT ![c] = Idle]
    /\ UNCHANGED <<Tables, posts>>

\* Mutant of FrozenDrawer: writes a row of its own over the drawer.
ReplacedDrawer(k) == [drawer EXCEPT ![k] = [status |-> "CLOSED"]]

\* Freezing the drawer updates the row of the day: no row, or a row another
\* transaction has not committed, is not updated.
FrozenDrawer(k) ==
    IF drawer[k].status = "NONE" THEN drawer ELSE [drawer EXCEPT ![k].status = "CLOSED"]

CloseCommit(c) ==
    LET t == txn[c] IN
    /\ t.step = "close"
    /\ MayClose(t.key)
    /\ closing' = [closing EXCEPT ![t.row] = [state |-> "live", key |-> t.key, expected |-> t.carry,
                                              counted |-> t.amount,
                                              sealed |-> drawer[t.key].status # "NONE"]]
    /\ drawer' = FrozenDrawer(t.key)
    /\ txn' = [txn EXCEPT ![c] = Idle]
    /\ UNCHANGED <<today, posted, late, openings, expense, posts>>

\* voidClosing reads a live closing, and that no later day is closed ...
ReopenRequest(c) ==
    /\ \E i \in ClosingIds :
           /\ Live(i)
           /\ Later(closing[i].key) = {}
           /\ Start(c, [Idle EXCEPT !.step = "reopen", !.op = "reopen", !.row = i,
                                    !.key = closing[i].key])
    /\ UNCHANGED <<Tables, posts>>

ReopenRefused(c) ==
    /\ txn[c].step = "reopen"
    /\ ~Live(txn[c].row)
    /\ txn' = [txn EXCEPT ![c] = Idle]
    /\ UNCHANGED <<Tables, posts>>

\* Mutant of ReopenedDrawer: voids the closing and leaves the drawer frozen.
StillFrozenDrawer(k) == drawer

ReopenedDrawer(k) ==
    IF drawer[k].status = "NONE" THEN drawer ELSE [drawer EXCEPT ![k].status = "OPEN"]

\* Mutant of VoidedRow: clears the figures.
ClearedRow(i) == [NoClosing EXCEPT !.state = "voided"]

\* The row is kept, and marked.
VoidedRow(i) == [closing[i] EXCEPT !.state = "voided"]

\* ... and voids it with a conditional UPDATE, reopening the drawer.
ReopenCommit(c) ==
    LET t == txn[c] IN
    /\ t.step = "reopen"
    /\ Live(t.row)
    /\ closing' = [closing EXCEPT ![t.row] = VoidedRow(t.row)]
    /\ drawer' = ReopenedDrawer(t.key)
    /\ txn' = [txn EXCEPT ![c] = Idle]
    /\ UNCHANGED <<today, posted, late, openings, expense, posts>>

-----------------------------------------------------------------------------
\* The next statement of a request in flight.
Advance(c) ==
    \/ OpenDrawer(c) \/ ClosedDayRefused(c) \/ InsertMovement(c)
    \/ VoidExpenseRefused(c)
    \/ CloseRefused(c) \/ CloseCommit(c)
    \/ ReopenRefused(c) \/ ReopenCommit(c)

\* The statements that may have to wait for another transaction.
Wait(c) == CreateDrawer(c) \/ VoidExpenseLock(c)

Request(c) ==
    \/ PostRequest(c) \/ ExpenseRequest(c) \/ VoidExpenseRequest(c)
    \/ OpeningRequest(c) \/ CloseRequest(c) \/ ReopenRequest(c)

Next == Tick \/ \E c \in Clients : Request(c) \/ Advance(c) \/ Wait(c) \/ Abort(c)

Spec == Init /\ [][Next]_vars

-----------------------------------------------------------------------------
(* Types.                                                                  *)

TxnRecords == [step : Steps, op : PostOps \union {"close", "reopen"},
               key : DrawerKeys \union {None}, amount : Int, auth : BOOLEAN,
               seen : {"OPEN", "CLOSED"}, carry : Int, claim : BOOLEAN, row : Nat]

DrawerRows == [status : {"NONE", "OPEN", "CLOSED"}, opening : Int]
MovementKinds == [op : PostOps, auth : BOOLEAN, flagged : BOOLEAN]
ExpenseRows == [state : {"none", "live", "voided"}, branch : Branches \union {None},
                amount : Int, net : Int]
ClosingRows == [state : {"none", "live", "voided"}, key : DrawerKeys \union {None},
                expected : Int, counted : Int, sealed : BOOLEAN]

\* Every table holds rows of its type.
TypeOK ==
    /\ today \in Nat
    /\ drawer \in [DrawerKeys -> DrawerRows]
    /\ posted \in [DrawerKeys -> Int]
    /\ late \subseteq MovementKinds
    /\ openings \in [Branches -> Nat]
    /\ expense \in [ExpenseIds -> ExpenseRows]
    /\ closing \in [ClosingIds -> ClosingRows]
    /\ posts \in Nat
    /\ txn \in [Clients -> TxnRecords]

-----------------------------------------------------------------------------
(* Safety.                                                                 *)

\* However many people press Close, or reopen and close again, a day of a branch
\* carries at most one closing that has not been voided (closeDay's check and
\* daily_closing_live_uq).
OneLiveClosing ==
    \A i, j \in ClosingIds : Live(i) /\ Live(j) /\ closing[i].key = closing[j].key => i = j

\* The drawer and the signature agree: a drawer is CLOSED exactly while a closing
\* that found the drawer's row is live.  closeDay and voidClosing write the two
\* tables, and the day can be closed, reopened and created by others meanwhile.
SealedIffSigned ==
    \A k \in DrawerKeys :
        drawer[k].status = "CLOSED"
            <=> \E i \in ClosingIds : Live(i) /\ closing[i].key = k /\ closing[i].sealed

\* A drawer never opens with a figure nobody counted: its opening is zero, or the
\* counted (not the expected) cash of a closing of an EARLIER day of the same branch
\* (openDrawerDay).
CountedBefore(k, cash) ==
    \E i \in ClosingIds : /\ closing[i].state # "none"
                          /\ closing[i].key[1] = k[1] /\ closing[i].key[2] < k[2]
                          /\ closing[i].counted = cash
OpeningIsACount ==
    \A k \in DrawerKeys : drawer[k].opening = 0 \/ CountedBefore(k, drawer[k].opening)

\* The money of an expense goes out once and comes back at most once, and the
\* expense says so: two voids of the same row cannot both refund it (voidExpense).
VoidedExpenseNetsToZero ==
    \A e \in ExpenseIds :
        expense[e].net = IF expense[e].state = "live" THEN expense[e].amount ELSE 0

\* "A closing is stamped, never rewritten": once written, the figures of a closing stay,
\* and a voided closing is never revived (closeDay, voidClosing; PRD OQ-5).
KeepsClosings ==
    \A i \in ClosingIds : closing[i].state # "none" =>
        /\ closing'[i].state \in {closing[i].state, "voided"}
        /\ closing'[i].key = closing[i].key /\ closing'[i].counted = closing[i].counted
        /\ closing'[i].expected = closing[i].expected
ClosingNeverRewritten == [][KeepsClosings]_vars

-----------------------------------------------------------------------------
(* What the documents say and the code does not do.                        *)

\* "Anything landing here now is a correction and says so" (closing.service.ts:383):
\* an entry that reaches a signed day was authorised, and is flagged.
LateEntriesAreFlagged == \A m \in late : m.flagged /\ m.auth

\* "Tomorrow's drawer opens with the cash you counted" (docs/07, 5.3): the opening of a
\* drawer is the count of the latest live closing before it.
OpensWithTheCount ==
    \A k \in DrawerKeys :
        drawer[k].status # "NONE" /\ Earlier(k) # {} => drawer[k].opening \in Carried(k)

\* A branch is given its opening cash once: a second figure is refused (docs/07, 3.3).
OneOpeningFigure == \A b \in Branches : openings[b] <= 1

\* A day can be reopened, "but not once a later day has been closed" (docs/07, 5.2).
ReopenedWhileLast ==
    [][\A i \in ClosingIds : Live(i) /\ ~Live(i)' => Later(closing[i].key) = {}]_vars
=============================================================================
