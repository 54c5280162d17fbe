------------------------------ MODULE Billing ------------------------------
(***************************************************************************)
(* How a document gets its number, and how a request that is sent again    *)
(* does not get a second one: createSale (sale.service.ts) with            *)
(* nextDocumentNumber (sequence.service.ts), which purchases, receipts,    *)
(* returns and transfers use too, without a key.                           *)
(*                                                                         *)
(* The look for the key is outside the transaction.  The counter row of    *)
(* the series is locked from its read to the end of the transaction, and   *)
(* the insert of the document runs into a unique index on the key.  An     *)
(* answer may be lost on its way; the till then sends the request again.   *)
(***************************************************************************)
EXTENDS Naturals

CONSTANTS
    Requests,       \* what the tills want billed, each with its own payload
    Keyed,          \* those that carry an idempotency key
    Series,         \* counter rows: one per business, kind and branch prefix
    SeriesOf,       \* the series a request is numbered in
    Clients,        \* transactions that can be in flight at the same time
    None,           \* no client, no request
    MaxSends        \* bound: how often one request is sent

ASSUME BillingAssumption ==
    /\ Keyed \subseteq Requests
    /\ SeriesOf \in [Requests -> Series]
    /\ None \notin Clients /\ None \notin Requests
    /\ MaxSends \in Nat

VARIABLES
    nextNumber,     \* document_sequence.next_number, as committed
    lock,           \* the transaction that holds the counter row
    documents,      \* rows of sale: the request (its key), the series and the number
    txn,            \* what each transaction is at, for which request, with which number
    sent,           \* how often each request was sent
    told            \* history: the numbers the till was told for each request

vars == <<nextNumber, lock, documents, txn, sent, told>>

Document == [request : Requests, series : Series, number : Nat]
Idle == [pc |-> "idle", request |-> None, number |-> 0]
Numbers(r) == {d.number : d \in {e \in documents : e.request = r}}

Init ==
    /\ nextNumber = [s \in Series |-> 1]
    /\ lock = [s \in Series |-> None]
    /\ documents = {}
    /\ txn = [c \in Clients |-> Idle]
    /\ sent = [r \in Requests |-> 0]
    /\ told = [r \in Requests |-> {}]

Goto(c, pc) == txn' = [txn EXCEPT ![c].pc = pc]
AnswerWith(c, n) == txn' = [txn EXCEPT ![c].pc = "answer", ![c].number = n]

\* The end of a transaction gives its row locks back.
Released(c) == [s \in Series |-> IF lock[s] = c THEN None ELSE lock[s]]

-----------------------------------------------------------------------------
\* The till sends a request, or sends it again because no answer came.
Send(c, r) ==
    /\ txn[c] = Idle
    /\ sent[r] < MaxSends
    /\ told[r] = {}
    /\ sent' = [sent EXCEPT ![r] = @ + 1]
    /\ txn' = [txn EXCEPT ![c] = [pc |-> IF r \in Keyed THEN "check" ELSE "number",
                                  request |-> r, number |-> 0]]
    /\ UNCHANGED <<nextNumber, lock, documents, told>>

\* findByIdempotencyKey before the transaction: a bill that exists is the answer.
FindByKey(c) ==
    /\ txn[c].pc = "check"
    /\ IF Numbers(txn[c].request) = {}
       THEN Goto(c, "number")
       ELSE \E n \in Numbers(txn[c].request) : AnswerWith(c, n)
    /\ UNCHANGED <<nextNumber, lock, documents, sent, told>>

\* Mutant of Free: the counter is read without FOR UPDATE.
NotLocked(s) == TRUE
Free(s) == lock[s] = None

\* nextDocumentNumber: wait for the counter row, keep it, and count on.
TakeNumber(c) ==
    LET s == SeriesOf[txn[c].request] IN
    /\ txn[c].pc = "number"
    /\ Free(s)
    /\ lock' = [lock EXCEPT ![s] = c]
    /\ txn' = [txn EXCEPT ![c].pc = "insert", ![c].number = nextNumber[s]]
    /\ UNCHANGED <<nextNumber, documents, sent, told>>

\* Mutant of KeyTaken: no unique index on the key.
NeverTaken(r) == FALSE

\* sale_idempotency_uq holds a committed bill with this key.
KeyTaken(r) == r \in Keyed /\ Numbers(r) # {}

\* The insert of the bill; a unique violation rolls the transaction back.
InsertDocument(c) ==
    /\ txn[c].pc = "insert"
    /\ IF KeyTaken(txn[c].request)
       THEN Goto(c, "lookup") /\ lock' = Released(c)
       ELSE Goto(c, "write") /\ UNCHANGED lock
    /\ UNCHANGED <<nextNumber, documents, sent, told>>

\* Mutant of CountedOn: the counter is moved on by two, which leaves a gap.
CountedTwice(c, s) == nextNumber[s] + 2

\* What the counter stands at once the transaction commits.
CountedOn(c, s) == txn[c].number + 1

\* The lines, stock, payments and ledger of the bill are written and all of it commits.
Commit(c) ==
    LET r == txn[c].request
        s == SeriesOf[r]
    IN
    /\ txn[c].pc = "write"
    /\ documents' = documents \union {[request |-> r, series |-> s, number |-> txn[c].number]}
    /\ nextNumber' = [nextNumber EXCEPT ![s] = CountedOn(c, s)]
    /\ lock' = Released(c)
    /\ Goto(c, "answer")
    /\ UNCHANGED <<sent, told>>

\* Mutant of BillOfKey: the catch answers with the number it took itself.
OwnNumber(c) == {txn[c].number}

\* The bill that the second look finds.
BillOfKey(c) == Numbers(txn[c].request)

\* The catch of createSale: the bill it lost to is the answer it wanted.
LookupByKey(c) ==
    /\ txn[c].pc = "lookup"
    /\ \E n \in BillOfKey(c) : AnswerWith(c, n)
    /\ UNCHANGED <<nextNumber, lock, documents, sent, told>>

Answer(c) ==
    /\ txn[c].pc = "answer"
    /\ told' = [told EXCEPT ![txn[c].request] = @ \union {txn[c].number}]
    /\ txn' = [txn EXCEPT ![c] = Idle]
    /\ UNCHANGED <<nextNumber, lock, documents, sent>>

\* The connection drops, or the server stops, before the answer is read.
LoseAnswer(c) ==
    /\ txn[c].pc = "answer"
    /\ txn' = [txn EXCEPT ![c] = Idle]
    /\ UNCHANGED <<nextNumber, lock, documents, sent, told>>

\* Mutant of LocksAfterFailure: a transaction that fails keeps its row locks.
LocksKept(c) == lock

LocksAfterFailure(c) == Released(c)

\* A statement fails, a line is refused or the server stops: everything rolls back.
Fail(c) ==
    /\ txn[c].pc \in {"check", "number", "insert", "write", "lookup"}
    /\ lock' = LocksAfterFailure(c)
    /\ txn' = [txn EXCEPT ![c] = Idle]
    /\ UNCHANGED <<nextNumber, documents, sent, told>>

\* What the server goes on to do by itself with a request it has.
Proceed(c) ==
    \/ FindByKey(c) \/ TakeNumber(c) \/ InsertDocument(c) \/ Commit(c) \/ LookupByKey(c)
    \/ Answer(c)

Next ==
    \E c \in Clients :
        (\E r \in Requests : Send(c, r)) \/ Proceed(c) \/ LoseAnswer(c) \/ Fail(c)

Spec == Init /\ [][Next]_vars

\* Statements are answered, and the queue of a row lock is first come, first served.
FairSpec == Spec /\ \A c \in Clients : WF_vars(Proceed(c)) /\ SF_vars(TakeNumber(c))

-----------------------------------------------------------------------------
TypeOK ==
    /\ nextNumber \in [Series -> Nat \ {0}]
    /\ lock \in [Series -> Clients \union {None}]
    /\ documents \subseteq Document
    /\ txn \in [Clients -> [pc : {"idle", "check", "number", "insert", "write", "lookup", "answer"},
                            request : Requests \union {None}, number : Nat]]
    /\ sent \in [Requests -> 0..MaxSends]
    /\ told \in [Requests -> SUBSET Nat]
    /\ \A c \in Clients : txn[c] = Idle \/ txn[c].request \in Requests
    /\ \A s \in Series : lock[s] # None => txn[lock[s]].pc \in {"insert", "write"}

\* The books of a series hold each number up to the counter once and no other, whatever
\* failed on the way (nextDocumentNumber; "gapless").
Gapless ==
    \A s \in Series :
        LET D == {d \in documents : d.series = s} IN
        /\ {d.number : d \in D} = 1..(nextNumber[s] - 1)
        /\ \A d, e \in D : d.number = e.number => d = e

\* Whatever came between the attempts, the till hears of one bill for its key, and that bill
\* is in the books (the two looks for the key in createSale).
OneAnswerPerKey ==
    \A r \in Keyed : told[r] \subseteq Numbers(r) /\ \A m, n \in told[r] : m = n

\* The counter and the index keep the promise of the register.
Register == INSTANCE BillRegister
                WITH book <- [s \in Series |-> {d.number : d \in {e \in documents : e.series = s}}],
                     billed <- [r \in Requests |-> Numbers(r)]
RegisterSpec == Register!Spec

\* Every request ends: nobody waits for a counter for ever, not even behind one that failed.
EveryRequestEnds == \A c \in Clients : txn[c] # Idle ~> txn[c] = Idle
=============================================================================
