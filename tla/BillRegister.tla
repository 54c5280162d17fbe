---------------------------- MODULE BillRegister ----------------------------
(***************************************************************************)
(* What the shop is promised of its documents: a series is numbered        *)
(* 1, 2, 3, ... without a gap, and a request that carries an idempotency   *)
(* key is put on one document however often it is sent (docs/03, the       *)
(* sections on numbering and idempotency).                                 *)
(***************************************************************************)
EXTENDS Naturals

CONSTANTS Requests, Keyed, Series, SeriesOf

VARIABLES
    book,       \* for each series, the numbers it has issued
    billed      \* for each request, the numbers it was given

Init ==
    /\ book = [s \in Series |-> {}]
    /\ billed = [r \in Requests |-> {}]

Issue(r) ==
    \E n \in book[SeriesOf[r]] \union {0} :
        /\ r \in Keyed => billed[r] = {}
        /\ book[SeriesOf[r]] = 1..n
        /\ book' = [book EXCEPT ![SeriesOf[r]] = 1..(n + 1)]
        /\ billed' = [billed EXCEPT ![r] = @ \union {n + 1}]

Next == \E r \in Requests : Issue(r)

Spec == Init /\ [][Next]_<<book, billed>>
=============================================================================
