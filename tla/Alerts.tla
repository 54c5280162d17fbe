------------------------------- MODULE Alerts -------------------------------
(***************************************************************************)
(* The alert rules (notification.service.ts), evaluated by the background  *)
(* worker every hour (jobs/worker.ts) and by anybody who presses "Check    *)
(* now" (api/notifications/route.ts), at the same time if it so happens.   *)
(*                                                                         *)
(* Nothing here runs in a transaction: every statement is a step of its    *)
(* own, and an evaluation that fails leaves what it has done.  Two of the  *)
(* seven kinds are modelled with the data they watch, a stock level and a  *)
(* bill on credit; the others go through the same steps.                   *)
(***************************************************************************)
EXTENDS Integers, FiniteSets, Sequences

CONSTANTS
    Shelves,        \* branch_stock rows of accessories that have a minimum
    Minimum,        \* branch_stock.min_quantity
    MaxQuantity,    \* bound: what a shelf holds
    Bills,          \* bills of customers, with a due date
    Total,          \* sale.total_paise
    AtCounter,      \* the sum of the bill's sale_payment rows
    Evaluators,     \* evaluations that can run at the same time
    Worker,         \* the one the background worker repeats
    Switched,       \* bound: the kinds somebody turns off and on again
    MaxFailures,    \* bound: evaluations of the worker that fail
    MaxRows,        \* bound: notification rows that are open, or about to be closed
    None

ASSUME AlertAssumption ==
    /\ Minimum \in Nat /\ MaxQuantity \in Nat /\ MaxFailures \in Nat /\ MaxRows \in Nat
    /\ Total \in [Bills -> Nat] /\ AtCounter \in [Bills -> Nat]
    /\ Switched \subseteq {"LOW_STOCK", "CUSTOMER_OVERDUE"}
    /\ Worker \in Evaluators /\ None \notin Evaluators

VARIABLES
    quantity,       \* branch_stock.quantity
    due,            \* the bills whose due date is further back than the threshold
    collected,      \* what customer payments allocated to the bill
    enabled,        \* notification_rule.is_enabled of the shop
    alert,          \* the open rows of notification, with the evaluation that raised them
    job,            \* where each evaluation is
    failures

shop == <<quantity, due, collected, enabled>>
vars == <<shop, alert, job, failures>>

-----------------------------------------------------------------------------
\* ALL_KINDS and the dedupe keys of a kind.
Kinds == <<"LOW_STOCK", "CUSTOMER_OVERDUE">>
KindNames == {"LOW_STOCK", "CUSTOMER_OVERDUE"}
Keys == ({"LOW_STOCK"} \X Shelves) \union ({"CUSTOMER_OVERDUE"} \X Bills)

ASSUME KeysAssumption == None \notin Keys

Rows == 1 .. MaxRows
Closed == [key |-> None, by |-> None]

\* Between two evaluations, and before the first statement of the next one.
Idle == [pc |-> "rule", kind |-> 1, keys |-> {}, todo |-> {}, key |-> None, gone |-> {}]

Init ==
    /\ quantity = [x \in Shelves |-> MaxQuantity]
    /\ due = {}
    /\ collected = [s \in Bills |-> 0]
    /\ enabled = KindNames
    /\ alert = [r \in Rows |-> Closed]
    /\ job = [e \in Evaluators |-> Idle]
    /\ failures = 0

-----------------------------------------------------------------------------
(* The shop.                                                               *)

Sell(x) ==
    /\ quantity[x] > 0
    /\ quantity' = [quantity EXCEPT ![x] = @ - 1]
    /\ UNCHANGED <<due, collected, enabled, alert, job, failures>>

Restock(x) ==
    /\ quantity[x] < MaxQuantity
    /\ quantity' = [quantity EXCEPT ![x] = @ + 1]
    /\ UNCHANGED <<due, collected, enabled, alert, job, failures>>

FallDue(s) ==
    /\ due' = due \union {s}
    /\ UNCHANGED <<quantity, collected, enabled, alert, job, failures>>

\* What the bill owes by the sum the dues screen shows (saleReceivedSql).
Owing(s) == Total[s] - AtCounter[s] - collected[s]

Collect(s) ==
    /\ Owing(s) > 0
    /\ collected' = [collected EXCEPT ![s] = @ + 1]
    /\ UNCHANGED <<quantity, due, enabled, alert, job, failures>>

\* setRule: somebody turns a kind off, or on again.
SetRule(kind) ==
    /\ enabled' = IF kind \in enabled THEN enabled \ {kind} ELSE enabled \union {kind}
    /\ UNCHANGED <<quantity, due, collected, alert, job, failures>>

ShopMoves ==
    \/ \E x \in Shelves : Sell(x) \/ Restock(x)
    \/ \E s \in Bills : FallDue(s) \/ Collect(s)
    \/ \E kind \in Switched : SetRule(kind)

-----------------------------------------------------------------------------
(* evaluateRules, raise and resolveMissing.                                *)

Kind(e) == Kinds[job[e].kind]

\* What the queries of the two kinds select.
Holds(k) ==
    \/ k[1] = "LOW_STOCK" /\ quantity[k[2]] <= Minimum
    \/ k[1] = "CUSTOMER_OVERDUE" /\ k[2] \in due /\ Total[k[2]] - AtCounter[k[2]] > 0

Step(e, next) == job' = [job EXCEPT ![e] = next]

\* ruleFor: a kind that is turned off goes straight to resolveMissing, with no keys.
ReadRule(e) ==
    /\ job[e].pc = "rule"
    /\ Step(e, [job[e] EXCEPT !.pc = IF Kind(e) \in enabled THEN "query" ELSE "raise"])
    /\ UNCHANGED <<shop, alert, failures>>

Query(e) ==
    LET true == {k \in Keys : k[1] = Kind(e) /\ Holds(k)} IN
    /\ job[e].pc = "query"
    /\ Step(e, [job[e] EXCEPT !.pc = "raise", !.keys = true, !.todo = true])
    /\ UNCHANGED <<shop, alert, failures>>

\* Mutant of AlreadyOpen: raise inserts without a look.
NeverOpen(k) == FALSE

\* The first statement of raise: is a row with this key open?
AlreadyOpen(k) == \E r \in Rows : alert[r].key = k

LookFor(e, k) ==
    /\ job[e].pc = "raise"
    /\ k \in job[e].todo
    /\ Step(e, IF AlreadyOpen(k) THEN [job[e] EXCEPT !.todo = @ \ {k}]
               ELSE [job[e] EXCEPT !.pc = "insert", !.todo = @ \ {k}, !.key = k])
    /\ UNCHANGED <<shop, alert, failures>>

\* The row numbers of rows closed long ago stand for new ones.
Unused == {r \in Rows : alert[r] = Closed /\ \A o \in Evaluators : r \notin job[o].gone}

Insert(e) ==
    /\ job[e].pc = "insert"
    /\ \E r \in Unused :
           /\ \A q \in Unused : r <= q
           /\ alert' = [alert EXCEPT ![r] = [key |-> job[e].key, by |-> e]]
    /\ Step(e, [job[e] EXCEPT !.pc = "raise", !.key = None])
    /\ UNCHANGED <<shop, failures>>

\* Mutants of Missing: closes what is still true; what other kinds raised; nothing when the
\* query had no results.
AllOfTheKind(e) == {r \in Rows : alert[r].key \in Keys /\ alert[r].key[1] = Kind(e)}
OfAnyKind(e) == {r \in Rows : alert[r].key \in Keys \ job[e].keys}
UnlessEmpty(e) == {r \in AllOfTheKind(e) : job[e].keys # {} /\ alert[r].key \notin job[e].keys}

\* The open rows of the kind whose key the query did not return.
Missing(e) == {r \in Rows : /\ alert[r].key \in Keys \ job[e].keys
                            /\ alert[r].key[1] = Kind(e)}

\* resolveMissing reads the open rows of the kind ...
FindMissing(e) ==
    /\ job[e].pc = "raise" /\ job[e].todo = {}
    /\ Step(e, [job[e] EXCEPT !.pc = "resolve", !.gone = Missing(e)])
    /\ UNCHANGED <<shop, alert, failures>>

\* ... and closes them by their ids, whatever has happened to them since; the next kind.
Resolve(e) ==
    /\ job[e].pc = "resolve"
    /\ alert' = [r \in Rows |-> IF r \in job[e].gone THEN Closed ELSE alert[r]]
    /\ Step(e, IF job[e].kind = Len(Kinds) THEN Idle ELSE [Idle EXCEPT !.kind = job[e].kind + 1])
    /\ UNCHANGED <<shop, failures>>

\* A statement fails, or the process stops: what was written stays, the rest is left to the
\* next evaluation.
Fail(e) ==
    /\ job[e] # Idle
    /\ IF e = Worker THEN failures < MaxFailures /\ failures' = failures + 1
                     ELSE UNCHANGED failures
    /\ Step(e, Idle)
    /\ UNCHANGED <<shop, alert>>

-----------------------------------------------------------------------------
Advance(e) ==
    \/ ReadRule(e) \/ Query(e) \/ \E k \in Keys : LookFor(e, k)
    \/ Insert(e) \/ FindMissing(e) \/ Resolve(e)

Next == ShopMoves \/ \E e \in Evaluators : Advance(e) \/ Fail(e)

Spec == Init /\ [][Next]_vars

\* The worker's timer goes on ticking and the database answers it.  Nobody need press the
\* button, and an evaluation that somebody started by it may never finish.
FairSpec == Spec /\ WF_vars(Advance(Worker))

-----------------------------------------------------------------------------
Jobs == [pc : {"rule", "query", "raise", "insert", "resolve"}, kind : 1 .. Len(Kinds),
         keys : SUBSET Keys, todo : SUBSET Keys, key : Keys \union {None}, gone : SUBSET Rows]

\* Rows and evaluations have their types; an evaluation raises and closes alerts of the kind
\* it is looking at, and no other.
TypeOK ==
    /\ quantity \in [Shelves -> Nat] /\ due \subseteq Bills /\ collected \in [Bills -> Nat]
    /\ enabled \subseteq KindNames
    /\ alert \in [Rows -> [key : Keys, by : Evaluators] \union {Closed}]
    /\ job \in [Evaluators -> Jobs]
    /\ \A e \in Evaluators :
           /\ \A k \in job[e].keys \union job[e].todo : k[1] = Kind(e)
           /\ job[e].pc = "insert" => job[e].key \in Keys /\ job[e].key[1] = Kind(e)
           /\ \A r \in job[e].gone : alert[r] # Closed => alert[r].key[1] = Kind(e)
    /\ failures \in Nat

\* The most the dedupe key promises while evaluations overlap: raise looks and then inserts,
\* and no unique index backs it, so a condition can be open once for each of them, but the
\* same evaluation, however often it is repeated, never shouts twice.
OncePerEvaluation ==
    \A r, q \in Rows :
        /\ alert[r] # Closed /\ alert[r].key = alert[q].key /\ alert[r].by = alert[q].by
        => r = q

Shown(k) == \E r \in Rows : alert[r].key = k
Wanted(k) == k[1] \in enabled /\ Holds(k)

\* "A key stays open until the condition clears": a condition that lasts is on the bell for
\* good in the end, though evaluations that looked too early may close it meanwhile, and
\* though the worker failed half-way before (evaluateRules, worker.ts).
LastingIsShown == \A k \in Keys : <>[]Wanted(k) => <>[]Shown(k)

\* "Turning a rule off clears what it had already raised": once the condition is gone, or the
\* rule is off, for good, so are its alerts, those raised late by an overlapping evaluation
\* included, and the next occurrence is not blocked (resolveMissing).
ClearedIsClosed ==
    \A k \in Keys : <>[]~Holds(k) \/ <>[](k[1] \notin enabled) => <>[]~Shown(k)

-----------------------------------------------------------------------------
\* "Every query here is the same one the matching screen uses" (notification.service.ts:207):
\* a bill that owes nothing by the dues screen's own sum does not stay on the bell.
PaidIsNotOverdue ==
    \A s \in Bills : Owing(s) = 0 ~> ~Shown(<<"CUSTOMER_OVERDUE", s>>)
=============================================================================
