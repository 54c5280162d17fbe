--------------------------- MODULE BillingProofs ---------------------------
(***************************************************************************)
(* The proofs about Billing.  What carries them is that a transaction      *)
(* between the read of its counter and its end holds the counter's row     *)
(* alone and has the number the counter shows, and that a bill with a key  *)
(* is written only while no other bill has that key.                       *)
(***************************************************************************)
EXTENDS Billing, TLAPS

\* The holder of a counter row is the one transaction that has its next number.
HoldersAreAlone ==
    /\ \A s \in Series :
           lock[s] # None =>
               /\ txn[lock[s]].pc \in {"insert", "write"}
               /\ txn[lock[s]].request \in Requests
               /\ SeriesOf[txn[lock[s]].request] = s
               /\ txn[lock[s]].number = nextNumber[s]
    /\ \A c \in Clients :
           txn[c].pc \in {"insert", "write"} =>
               txn[c].request \in Requests /\ lock[SeriesOf[txn[c].request]] = c

\* A bill is in the series of its request, and a key is on one bill.
KeysAreOnce ==
    /\ \A d \in documents : d.series = SeriesOf[d.request]
    /\ \A d, e \in documents : d.request = e.request /\ d.request \in Keyed => d = e
    /\ \A c \in Clients :
           txn[c].pc = "write" /\ txn[c].request \in Keyed =>
               \A d \in documents : d.request # txn[c].request

\* What is answered, or was, is in the books.
AnswersAreBills ==
    /\ \A c \in Clients :
           txn[c].pc = "answer" =>
               \E d \in documents : d.request = txn[c].request /\ d.number = txn[c].number
    /\ \A r \in Requests : \A n \in told[r] :
           \E d \in documents : d.request = r /\ d.number = n

\* A number below the counter is on one bill, and only such numbers are.
Numbered ==
    \A s \in Series :
        /\ \A d \in documents : d.series = s => d.number \in 1..(nextNumber[s] - 1)
        /\ \A n \in 1..(nextNumber[s] - 1) : \E d \in documents : d.series = s /\ d.number = n
        /\ \A d, e \in documents : d.series = s /\ e.series = s /\ d.number = e.number => d = e

IInv == TypeOK /\ HoldersAreAlone /\ KeysAreOnce /\ AnswersAreBills /\ Numbered

Step(c) ==
    \/ \E r \in Requests : Send(c, r)
    \/ FindByKey(c) \/ TakeNumber(c) \/ InsertDocument(c) \/ Commit(c) \/ LookupByKey(c)
    \/ Answer(c) \/ LoseAnswer(c) \/ Fail(c)

-----------------------------------------------------------------------------
LEMMA InitIInv == Init => IInv
<1> SUFFICES ASSUME Init PROVE IInv
  OBVIOUS
<1>1. TypeOK
  BY BillingAssumption DEF Init, TypeOK, Idle, Document
<1>2. HoldersAreAlone
  BY DEF Init, HoldersAreAlone, Idle
<1>3. KeysAreOnce /\ AnswersAreBills
  BY DEF Init, KeysAreOnce, AnswersAreBills, Idle
<1>4. Numbered
  BY DEF Init, Numbered
<1> QED BY <1>1, <1>2, <1>3, <1>4 DEF IInv

LEMMA NextSteps == Next <=> \E c \in Clients : Step(c)
BY Zenon DEF Next, Proceed, Step

\* Only a transaction in front of its answer can be told anything.
LEMMA TypeStep ==
    ASSUME IInv, NEW c \in Clients, Step(c)
    PROVE  TypeOK'
<1> USE BillingAssumption DEF IInv, TypeOK, Idle
<1>1. ASSUME NEW r \in Requests, Send(c, r) PROVE TypeOK'
  BY <1>1 DEF Send
<1>2. CASE FindByKey(c)
  <2>1. \A n \in Numbers(txn[c].request) : n \in Nat
    BY DEF Numbers, Document
  <2> QED BY <1>2, <2>1 DEF FindByKey, Goto, AnswerWith
<1>3. CASE TakeNumber(c)
  <2>1. txn[c].request \in Requests /\ SeriesOf[txn[c].request] \in Series
    BY <1>3 DEF TakeNumber
  <2> QED BY <1>3, <2>1 DEF TakeNumber
<1>4. CASE InsertDocument(c)
  BY <1>4 DEF InsertDocument, Goto, Released
<1>5. CASE Commit(c)
  <2>1. txn[c].request \in Requests /\ SeriesOf[txn[c].request] \in Series
    BY <1>5 DEF Commit
  <2>2. txn[c].number \in Nat /\ txn[c].number + 1 \in Nat \ {0}
    OBVIOUS
  <2>3. documents' \subseteq Document
    BY <1>5, <2>1, <2>2 DEF Commit, Document
  <2>4. nextNumber' \in [Series -> Nat \ {0}]
    BY <1>5, <2>1, <2>2 DEF Commit, CountedOn
  <2> QED BY <1>5, <2>3, <2>4 DEF Commit, Goto, Released
<1>6. CASE LookupByKey(c)
  <2>1. \A n \in BillOfKey(c) : n \in Nat
    BY DEF BillOfKey, Numbers, Document
  <2>2. PICK n \in BillOfKey(c) : AnswerWith(c, n)
    BY <1>6 DEF LookupByKey
  <2>3. n \in Nat /\ txn[c].pc = "lookup"
    BY <1>6, <2>1 DEF LookupByKey
  <2> DEFINE t == [txn[c] EXCEPT !.pc = "answer", !.number = n]
  <2>4. txn' = [txn EXCEPT ![c] = t]
    BY <2>2 DEF AnswerWith
  <2>5. /\ t \in [pc : {"idle", "check", "number", "insert", "write", "lookup", "answer"},
                  request : Requests \union {None}, number : Nat]
        /\ t.request \in Requests
    <3>1. txn[c] # Idle
      BY <2>3
    <3>2. txn[c] \in [pc : {"idle", "check", "number", "insert", "write", "lookup", "answer"},
                      request : Requests \union {None}, number : Nat]
      OBVIOUS
    <3>3. txn[c].request \in Requests
      BY <3>1
    <3> QED BY <2>3, <3>2, <3>3
  <2> HIDE DEF t
  <2>6. \A s \in Series : lock[s] # c
    BY <2>3
  <2> QED BY <1>6, <2>4, <2>5, <2>6 DEF LookupByKey
<1>7. CASE Answer(c)
  BY <1>7 DEF Answer
<1>8. CASE LoseAnswer(c)
  BY <1>8 DEF LoseAnswer
<1>9. CASE Fail(c)
  BY <1>9 DEF Fail, LocksAfterFailure, Released
<1> QED BY <1>1, <1>2, <1>3, <1>4, <1>5, <1>6, <1>7, <1>8, <1>9 DEF Step

\* The counter row passes from one transaction to the next at the end of the first.
LEMMA HoldersStep ==
    ASSUME IInv, NEW c \in Clients, Step(c)
    PROVE  HoldersAreAlone'
<1> USE BillingAssumption DEF IInv, TypeOK, HoldersAreAlone, Idle
<1>1. ASSUME NEW r \in Requests, Send(c, r) PROVE HoldersAreAlone'
  BY <1>1 DEF Send
<1>2. CASE FindByKey(c)
  BY <1>2 DEF FindByKey, Goto, AnswerWith
<1>3. CASE TakeNumber(c)
  <2>1. txn[c].request \in Requests /\ SeriesOf[txn[c].request] \in Series
    BY <1>3 DEF TakeNumber
  <2> QED BY <1>3, <2>1 DEF TakeNumber, Free
<1>4. CASE InsertDocument(c)
  BY <1>4 DEF InsertDocument, Goto, Released
<1>5. CASE Commit(c)
  BY <1>5 DEF Commit, Goto, Released
<1>6. CASE LookupByKey(c)
  BY <1>6 DEF LookupByKey, AnswerWith
<1>7. CASE Answer(c)
  BY <1>7 DEF Answer
<1>8. CASE LoseAnswer(c)
  BY <1>8 DEF LoseAnswer
<1>9. CASE Fail(c)
  BY <1>9 DEF Fail, LocksAfterFailure, Released
<1> QED BY <1>1, <1>2, <1>3, <1>4, <1>5, <1>6, <1>7, <1>8, <1>9 DEF Step

\* What a commit adds: one bill, with the number the counter showed.
LEMMA CommitAdds ==
    ASSUME IInv, NEW c \in Clients, Commit(c)
    PROVE  LET r == txn[c].request
               s == SeriesOf[r]
               d == [request |-> r, series |-> s, number |-> nextNumber[s]]
           IN  /\ r \in Requests /\ s \in Series /\ nextNumber[s] \in Nat \ {0}
               /\ txn[c].number = nextNumber[s]
               /\ documents' = documents \union {d}
               /\ nextNumber' = [nextNumber EXCEPT ![s] = nextNumber[s] + 1]
<1>1. /\ txn[c].request \in Requests
      /\ lock[SeriesOf[txn[c].request]] = c
  BY DEF IInv, HoldersAreAlone, Commit
<1>2. /\ SeriesOf[txn[c].request] \in Series
      /\ nextNumber[SeriesOf[txn[c].request]] \in Nat \ {0}
  BY <1>1, BillingAssumption DEF IInv, TypeOK
<1>3. txn[c].number = nextNumber[SeriesOf[txn[c].request]]
  BY <1>1, <1>2, BillingAssumption DEF IInv, HoldersAreAlone
<1> QED BY <1>1, <1>2, <1>3 DEF Commit, CountedOn

\* Bills are never removed, and only a commit adds one.
LEMMA DocumentsKept ==
    ASSUME IInv, NEW c \in Clients, Step(c)
    PROVE  \/ Commit(c)
           \/ documents' = documents /\ nextNumber' = nextNumber
BY DEF Step, Send, FindByKey, TakeNumber, InsertDocument, LookupByKey, Answer, LoseAnswer, Fail

LEMMA NumberedStep ==
    ASSUME IInv, NEW c \in Clients, Step(c)
    PROVE  Numbered'
<1>1. CASE documents' = documents /\ nextNumber' = nextNumber
  BY <1>1 DEF IInv, Numbered
<1>2. CASE Commit(c)
  <2> DEFINE r == txn[c].request
             k == SeriesOf[r]
             x == [request |-> r, series |-> k, number |-> nextNumber[k]]
  <2>1. /\ k \in Series /\ nextNumber[k] \in Nat \ {0}
        /\ documents' = documents \union {x}
        /\ nextNumber' = [nextNumber EXCEPT ![k] = nextNumber[k] + 1]
    BY <1>2, CommitAdds
  <2>2. nextNumber \in [Series -> Nat \ {0}]
    BY DEF IInv, TypeOK
  <2>3. x.series = k /\ x.number = nextNumber[k]
    OBVIOUS
  <2>4. \A d \in documents : d.series \in Series /\ d.number \in Nat
    BY DEF IInv, TypeOK, Document
  <2> HIDE DEF x, k, r
  <2> SUFFICES ASSUME NEW s \in Series
               PROVE  /\ \A d \in documents' : d.series = s => d.number \in 1..(nextNumber'[s] - 1)
                      /\ \A n \in 1..(nextNumber'[s] - 1) :
                             \E d \in documents' : d.series = s /\ d.number = n
                      /\ \A d, e \in documents' :
                             d.series = s /\ e.series = s /\ d.number = e.number => d = e
    BY DEF Numbered
  <2>5. CASE s # k
    BY <2>1, <2>2, <2>3, <2>5 DEF IInv, Numbered
  <2>6. CASE s = k
    <3>1. nextNumber'[s] = nextNumber[s] + 1
      BY <2>1, <2>2, <2>6
    <3>2. \A d \in documents : d.series = s => d.number \in 1..(nextNumber[s] - 1)
      BY DEF IInv, Numbered
    <3>3. \A d \in documents' : d.series = s => d.number \in 1..(nextNumber'[s] - 1)
      BY <2>1, <2>2, <2>3, <2>6, <3>1, <3>2
    <3>4. ASSUME NEW n \in 1..(nextNumber'[s] - 1)
          PROVE  \E d \in documents' : d.series = s /\ d.number = n
      <4>1. CASE n = nextNumber[s]
        BY <2>1, <2>3, <2>6, <4>1
      <4>2. CASE n # nextNumber[s]
        <5>1. n \in 1..(nextNumber[s] - 1)
          BY <2>2, <3>1, <4>2
        <5> QED BY <2>1, <5>1 DEF IInv, Numbered
      <4> QED BY <4>1, <4>2
    <3>5. \A d \in documents : d.series = s => d.number # nextNumber[s]
      BY <2>2, <3>2
    <3>6. \A d, e \in documents' : d.series = s /\ e.series = s /\ d.number = e.number => d = e
      BY <2>1, <2>3, <2>6, <3>5 DEF IInv, Numbered
    <3> QED BY <3>3, <3>4, <3>6
  <2> QED BY <2>5, <2>6
<1> QED BY <1>1, <1>2, DocumentsKept

LEMMA KeysStep ==
    ASSUME IInv, NEW c \in Clients, Step(c)
    PROVE  KeysAreOnce'
<1> USE BillingAssumption
<1>1. CASE Commit(c)
  <2> DEFINE r == txn[c].request
             x == [request |-> r, series |-> SeriesOf[r], number |-> nextNumber[SeriesOf[r]]]
  <2>1. r \in Requests /\ documents' = documents \union {x}
    BY <1>1, CommitAdds
  <2>2. x.request = r /\ x.series = SeriesOf[r]
    OBVIOUS
  <2>3. r \in Keyed => \A d \in documents : d.request # r
    BY <1>1 DEF IInv, KeysAreOnce, Commit
  <2>4. \A o \in Clients \ {c} : txn'[o] = txn[o]
    BY <1>1 DEF Commit, Goto, IInv, TypeOK
  <2>5. txn'[c].pc = "answer"
    BY <1>1 DEF Commit, Goto, IInv, TypeOK
  <2>6. ASSUME NEW o \in Clients, txn'[o].pc = "write"
        PROVE  txn'[o].request # r
    <3>1. o # c /\ txn[o].pc = "write"
      BY <2>4, <2>5, <2>6
    <3>2. /\ lock[SeriesOf[txn[o].request]] = o /\ lock[SeriesOf[r]] = c
      BY <1>1, <3>1 DEF Commit, IInv, HoldersAreAlone
    <3> QED BY <2>4, <3>1, <3>2
  <2> HIDE DEF x, r
  <2>7. \A d \in documents' : d.series = SeriesOf[d.request]
    BY <2>1, <2>2 DEF IInv, KeysAreOnce
  <2>8. \A d, e \in documents' : d.request = e.request /\ d.request \in Keyed => d = e
    BY <2>1, <2>2, <2>3 DEF IInv, KeysAreOnce
  <2>9. ASSUME NEW o \in Clients, txn'[o].pc = "write", txn'[o].request \in Keyed,
               NEW d \in documents'
        PROVE  d.request # txn'[o].request
    <3>1. o # c /\ txn'[o] = txn[o]
      BY <2>4, <2>5, <2>9
    <3>2. d \in documents => d.request # txn[o].request
      BY <2>9, <3>1 DEF IInv, KeysAreOnce
    <3> QED BY <2>1, <2>2, <2>6, <2>9, <3>1, <3>2
  <2> QED BY <2>7, <2>8, <2>9 DEF KeysAreOnce
<1>2. CASE documents' = documents /\ ~ Commit(c)
  <2>1. ASSUME NEW o \in Clients, txn'[o].pc = "write", txn'[o].request \in Keyed
        PROVE  \A d \in documents : d.request # txn'[o].request
    <3>1. CASE txn[o].pc = "write" /\ txn'[o].request = txn[o].request
      BY <2>1, <3>1 DEF IInv, KeysAreOnce
    <3>2. CASE o = c /\ InsertDocument(c)
      BY <2>1, <3>2 DEF InsertDocument, Goto, IInv, TypeOK, KeyTaken, Numbers
    <3>3. \/ txn[o].pc = "write" /\ txn'[o].request = txn[o].request
          \/ o = c /\ InsertDocument(c)
      BY <1>2, <2>1 DEF Step, Send, FindByKey, TakeNumber, LookupByKey, Answer, LoseAnswer, Fail,
         InsertDocument, Goto, AnswerWith, Idle, IInv, TypeOK
    <3> QED BY <3>1, <3>2, <3>3
  <2> QED BY <1>2, <2>1 DEF IInv, KeysAreOnce
<1> QED BY <1>1, <1>2, DocumentsKept

LEMMA AnswersStep ==
    ASSUME IInv, NEW c \in Clients, Step(c)
    PROVE  AnswersAreBills'
<1> USE BillingAssumption
<1>1. documents \subseteq documents'
  BY CommitAdds, DocumentsKept
<1>2. ASSUME NEW r \in Requests, NEW n \in told'[r]
      PROVE  \E d \in documents' : d.request = r /\ d.number = n
  <2>1. CASE Answer(c)
    BY <1>1, <1>2, <2>1 DEF Answer, IInv, TypeOK, AnswersAreBills, Idle
  <2>2. CASE told' = told
    BY <1>1, <1>2, <2>2 DEF IInv, AnswersAreBills
  <2> QED BY <2>1, <2>2 DEF Step, Send, FindByKey, TakeNumber, InsertDocument, Commit,
       LookupByKey, LoseAnswer, Fail
<1>3. ASSUME NEW o \in Clients, txn'[o].pc = "answer"
      PROVE  \E d \in documents' : d.request = txn'[o].request /\ d.number = txn'[o].number
  <2>1. CASE Commit(c) /\ o = c
    <3>1. /\ txn'[c].request = txn[c].request /\ txn'[c].number = txn[c].number
      BY <2>1 DEF Commit, Goto, IInv, TypeOK
    <3>2. [request |-> txn[c].request, series |-> SeriesOf[txn[c].request],
           number |-> txn[c].number] \in documents'
      BY <2>1 DEF Commit
    <3> QED BY <2>1, <3>1, <3>2
  <2>2. CASE FindByKey(c) /\ o = c
    <3>1. PICK n \in Numbers(txn[c].request) : AnswerWith(c, n)
      BY <1>3, <2>2 DEF FindByKey, Goto, IInv, TypeOK
    <3>2. txn'[c].request = txn[c].request /\ txn'[c].number = n
      BY <3>1 DEF AnswerWith, IInv, TypeOK
    <3> QED BY <1>1, <2>2, <3>1, <3>2 DEF Numbers
  <2>3. CASE LookupByKey(c) /\ o = c
    BY <1>3, <2>3 DEF LookupByKey, AnswerWith, BillOfKey, IInv, TypeOK, Numbers
  <2>4. CASE txn'[o] = txn[o]
    BY <1>1, <1>3, <2>4 DEF IInv, AnswersAreBills
  <2>5. CASE o # c
    <3>1. txn'[o] = txn[o]
      BY <2>5 DEF Step, Send, FindByKey, TakeNumber, InsertDocument, Commit, LookupByKey, Answer,
         LoseAnswer, Fail, Goto, AnswerWith, IInv, TypeOK
    <3> QED BY <2>4, <3>1
  <2>6. CASE o = c
    <3>1. Commit(c) \/ FindByKey(c) \/ LookupByKey(c)
      <4>1. txn \in [Clients -> [pc : {"idle", "check", "number", "insert", "write", "lookup",
                                      "answer"},
                                request : Requests \union {None}, number : Nat]]
        BY DEF IInv, TypeOK
      <4>2. ~ \E r \in Requests : Send(c, r)
        BY <1>3, <2>6, <4>1 DEF Send
      <4>3. ~ TakeNumber(c) /\ ~ InsertDocument(c)
        BY <1>3, <2>6, <4>1 DEF TakeNumber, InsertDocument, Goto
      <4>4. ~ Answer(c) /\ ~ LoseAnswer(c) /\ ~ Fail(c)
        BY <1>3, <2>6, <4>1 DEF Answer, LoseAnswer, Fail, Idle
      <4> QED BY <4>2, <4>3, <4>4 DEF Step
    <3> QED BY <2>1, <2>2, <2>3, <2>6, <3>1
  <2> QED BY <2>5, <2>6
<1> QED BY <1>2, <1>3 DEF AnswersAreBills

LEMMA IInvStep == IInv /\ [Next]_vars => IInv'
<1>1. ASSUME IInv, NEW c \in Clients, Step(c) PROVE IInv'
  BY <1>1, TypeStep, HoldersStep, NumberedStep, KeysStep, AnswersStep DEF IInv
<1>2. ASSUME IInv, UNCHANGED vars PROVE IInv'
  BY <1>2 DEF IInv, vars, TypeOK, HoldersAreAlone, KeysAreOnce, AnswersAreBills, Numbered
<1> QED BY <1>1, <1>2, NextSteps

LEMMA IInvHolds == Spec => []IInv
BY InitIInv, IInvStep, PTL DEF Spec

-----------------------------------------------------------------------------
\* Rows and requests are of their types, and a counter row is locked only by a transaction
\* between its read of the counter and its end (nextDocumentNumber).
THEOREM BillingTypes == Spec => []TypeOK
BY IInvHolds, PTL DEF IInv

\* However many transactions run and fail, a series is numbered without a gap and without a
\* repetition (nextDocumentNumber's row lock).
THEOREM SeriesAreGapless == Spec => []Gapless
<1>1. IInv => Gapless
  <2> SUFFICES ASSUME IInv, NEW s \in Series
               PROVE  LET D == {d \in documents : d.series = s} IN
                      /\ {d.number : d \in D} = 1..(nextNumber[s] - 1)
                      /\ \A d, e \in D : d.number = e.number => d = e
    BY DEF Gapless
  <2> QED BY DEF IInv, Numbered
<1> QED BY <1>1, IInvHolds, PTL

\* However often a request with a key is sent, its till hears of one bill (createSale's two
\* looks for the key and the unique index between them).
THEOREM RetriesAgree == Spec => []OneAnswerPerKey
<1>1. IInv => OneAnswerPerKey
  <2> SUFFICES ASSUME IInv, NEW r \in Keyed
               PROVE  told[r] \subseteq Numbers(r) /\ \A m, n \in told[r] : m = n
    BY DEF OneAnswerPerKey
  <2>1. told[r] \subseteq Numbers(r)
    BY BillingAssumption DEF IInv, AnswersAreBills, Numbers
  <2>2. \A m, n \in Numbers(r) : m = n
    BY DEF IInv, KeysAreOnce, Numbers
  <2> QED BY <2>1, <2>2
<1> QED BY <1>1, IInvHolds, PTL

-----------------------------------------------------------------------------
\* The variables of the register, as the rows show them.
Book == [s \in Series |-> {d.number : d \in {e \in documents : e.series = s}}]
Billed == [r \in Requests |-> Numbers(r)]

LEMMA BookIsRange ==
    ASSUME IInv, NEW s \in Series
    PROVE  Book[s] = 1..(nextNumber[s] - 1)
BY DEF IInv, Numbered, Book

\* A commit is one entry in the register; every other step leaves it alone.
LEMMA CommitIssues ==
    ASSUME IInv, NEW c \in Clients, Commit(c)
    PROVE  Register!Next
<1> DEFINE r == txn[c].request
           s == SeriesOf[r]
           n == nextNumber[s] - 1
           x == [request |-> r, series |-> s, number |-> nextNumber[s]]
<1>1. /\ r \in Requests /\ s \in Series /\ nextNumber[s] \in Nat \ {0}
      /\ documents' = documents \union {x}
  BY CommitAdds
<1>2. x.request = r /\ x.series = s /\ x.number = nextNumber[s] /\ nextNumber[s] = n + 1
  BY <1>1
<1>3. n \in Nat /\ Book[s] = 1..n
  BY <1>1, BookIsRange
<1>4. n \in Book[s] \union {0}
  <2> HIDE DEF n, s
  <2>1. n = 0 \/ n \in 1..n
    BY <1>3
  <2> QED BY <1>3, <2>1
<1>5. r \in Keyed => Billed[r] = {}
  BY <1>1 DEF IInv, KeysAreOnce, Commit, Billed, Numbers
<1> HIDE DEF x, n, r, s
<1>6. \A t \in Series : Book'[t] = IF t = s THEN Book[t] \union {n + 1} ELSE Book[t]
  <2> SUFFICES ASSUME NEW t \in Series
               PROVE  Book'[t] = IF t = s THEN Book[t] \union {n + 1} ELSE Book[t]
    OBVIOUS
  <2>1. \A u \in Series : Book[u] = {d.number : d \in {e \in documents : e.series = u}}
    BY DEF Book
  <2>2. Book'[t] = {d.number : d \in {e \in documents \union {x} : e.series = t}}
    BY <1>1 DEF Book
  <2>3. CASE t = s
    <3>1. {e \in documents \union {x} : e.series = t} = {e \in documents : e.series = t} \union {x}
      BY <1>2, <2>3
    <3> QED BY <1>2, <2>1, <2>2, <2>3, <3>1
  <2>4. CASE t # s
    <3>1. {e \in documents \union {x} : e.series = t} = {e \in documents : e.series = t}
      BY <1>2, <2>4
    <3> QED BY <2>1, <2>2, <2>4, <3>1
  <2> QED BY <2>3, <2>4
<1>7. Book' = [Book EXCEPT ![s] = 1..(n + 1)]
  <2>1. 1..(n + 1) = 1..n \union {n + 1}
    BY <1>3
  <2>2. \A t \in Series : Book'[t] = IF t = s THEN 1..(n + 1) ELSE Book[t]
    BY <1>3, <1>6, <2>1
  <2>3. DOMAIN Book' = Series /\ Book' = [t \in Series |-> Book'[t]]
    BY DEF Book
  <2>4. Book = [t \in Series |-> Book[t]]
    BY DEF Book
  <2> HIDE DEF Book
  <2> QED BY <1>1, <2>2, <2>3, <2>4
<1>8. \A q \in Requests : Billed'[q] = IF q = r THEN Billed[q] \union {n + 1} ELSE Billed[q]
  <2> SUFFICES ASSUME NEW q \in Requests
               PROVE  Billed'[q] = IF q = r THEN Billed[q] \union {n + 1} ELSE Billed[q]
    OBVIOUS
  <2>1. Billed[q] = {d.number : d \in {e \in documents : e.request = q}}
    BY DEF Billed, Numbers
  <2>2. Billed'[q] = {d.number : d \in {e \in documents \union {x} : e.request = q}}
    BY <1>1 DEF Billed, Numbers
  <2>3. CASE q = r
    <3>1. {e \in documents \union {x} : e.request = q} = {e \in documents : e.request = q} \union {x}
      BY <1>2, <2>3
    <3> QED BY <1>2, <2>1, <2>2, <2>3, <3>1
  <2>4. CASE q # r
    <3>1. {e \in documents \union {x} : e.request = q} = {e \in documents : e.request = q}
      BY <1>2, <2>4
    <3> QED BY <2>1, <2>2, <2>4, <3>1
  <2> QED BY <2>3, <2>4
<1>9. Billed' = [Billed EXCEPT ![r] = Billed[r] \union {n + 1}]
  <2>1. Billed' = [q \in Requests |-> Billed'[q]] /\ Billed = [q \in Requests |-> Billed[q]]
    BY DEF Billed
  <2> HIDE DEF Billed
  <2> QED BY <1>1, <1>8, <2>1
<1>10. /\ r \in Keyed => Billed[r] = {}
       /\ SeriesOf[r] = s
  BY <1>5 DEF s
<1>11. \E q \in Requests : \E m \in Book[SeriesOf[q]] \union {0} :
           /\ q \in Keyed => Billed[q] = {}
           /\ Book[SeriesOf[q]] = 1..m
           /\ Book' = [Book EXCEPT ![SeriesOf[q]] = 1..(m + 1)]
           /\ Billed' = [Billed EXCEPT ![q] = Billed[q] \union {m + 1}]
  BY <1>1, <1>3, <1>4, <1>7, <1>9, <1>10, Zenon
<1> QED BY <1>11, Zenon DEF Register!Next, Register!Issue, Book, Billed

\* The rows of document_sequence and sale, with the row lock and the unique index, implement
\* the register: every step of every transaction is one entry or none.
THEOREM ImplementsRegister == Spec => RegisterSpec
<1>1. Init => Register!Init
  BY DEF Init, Register!Init, Numbers
<1>2. ASSUME IInv, [Next]_vars PROVE [Register!Next]_<<Book, Billed>>
  <2>1. CASE UNCHANGED vars
    BY <2>1 DEF vars, Book, Billed, Numbers
  <2>2. ASSUME NEW c \in Clients, Step(c) PROVE [Register!Next]_<<Book, Billed>>
    <3>1. CASE Commit(c)
      BY <1>2, <3>1, CommitIssues
    <3>2. CASE documents' = documents
      BY <3>2 DEF Book, Billed, Numbers
    <3> QED BY <1>2, <2>2, <3>1, <3>2, DocumentsKept
  <2> QED BY <1>2, <2>1, <2>2, NextSteps
<1>3. ASSUME [Register!Next]_<<Book, Billed>>
      PROVE  [Register!Next]_<<[s \in Series |-> {d.number : d \in {e \in documents : e.series = s}}],
                              [r \in Requests |-> Numbers(r)]>>
  BY <1>3 DEF Book, Billed
<1> QED BY <1>1, <1>2, <1>3, IInvHolds, PTL DEF Spec, RegisterSpec, Register!Spec
=============================================================================
