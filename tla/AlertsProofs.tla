---------------------------- MODULE AlertsProofs ----------------------------
(***************************************************************************)
(* However many evaluations overlap, each of them has a condition on the   *)
(* bell once at most, and closes nothing outside the kind it looks at.     *)
(* An evaluation that has looked, and is about to insert, has no row with  *)
(* the key: that is the strengthening.                                     *)
(***************************************************************************)
EXTENDS Alerts, TLAPS

\* An evaluation between the two statements of raise has no row with its key.
AboutToRaise ==
    \A e \in Evaluators, r \in Rows :
        job[e].pc = "insert" /\ alert[r].key = job[e].key => alert[r].by # e

IInv == TypeOK /\ OncePerEvaluation /\ AboutToRaise

LEMMA TwoKinds == Len(Kinds) = 2 /\ 1 \in 1 .. Len(Kinds)
BY DEF Kinds

LEMMA IdleJob ==
    /\ Idle \in Jobs /\ [Idle EXCEPT !.kind = 2] \in Jobs
    /\ \A n \in {1, 2} : /\ [Idle EXCEPT !.kind = n].pc = "rule" /\ [Idle EXCEPT !.kind = n].keys = {}
                         /\ [Idle EXCEPT !.kind = n].todo = {} /\ [Idle EXCEPT !.kind = n].gone = {}
    /\ Idle.pc = "rule" /\ Idle.keys = {} /\ Idle.todo = {} /\ Idle.gone = {}
BY TwoKinds DEF Idle, Jobs

\* What a step that leaves the rows alone must say of the evaluation it moves.
Sound(next) ==
    /\ next \in Jobs
    /\ \A k \in next.keys \union next.todo : k[1] = Kinds[next.kind]
    /\ next.pc = "insert" => next.key \in Keys /\ next.key[1] = Kinds[next.kind]
    /\ \A r \in next.gone : alert[r] # Closed => alert[r].key[1] = Kinds[next.kind]

LEMMA JobMoves ==
    ASSUME IInv, NEW e \in Evaluators, NEW next, Step(e, next), Sound(next),
           UNCHANGED <<shop, alert>>, failures' \in Nat,
           \A r \in Rows : next.pc = "insert" /\ alert[r].key = next.key => alert[r].by # e
    PROVE  IInv'
<1>1. job'[e] = next /\ \A o \in Evaluators \ {e} : job'[o] = job[o]
  BY DEF Step, IInv, TypeOK
<1>2. job' \in [Evaluators -> Jobs]
  BY DEF Step, IInv, TypeOK, Sound
<1>3. TypeOK'
  <2>1. \A o \in Evaluators :
           /\ \A k \in job'[o].keys \union job'[o].todo : k[1] = Kinds[job'[o].kind]
           /\ job'[o].pc = "insert" => job'[o].key \in Keys /\ job'[o].key[1] = Kinds[job'[o].kind]
           /\ \A r \in job'[o].gone : alert[r] # Closed => alert[r].key[1] = Kinds[job'[o].kind]
    BY <1>1 DEF IInv, TypeOK, Sound, Kind
  <2> QED BY <1>2, <2>1 DEF IInv, TypeOK, Kind, shop
<1>4. OncePerEvaluation'
  BY DEF IInv, OncePerEvaluation
<1>5. AboutToRaise'
  BY <1>1 DEF IInv, AboutToRaise
<1> QED BY <1>3, <1>4, <1>5 DEF IInv

LEMMA ReadRuleStep ==
    ASSUME IInv, NEW e \in Evaluators, ReadRule(e)
    PROVE  IInv'
<1> DEFINE next == [job[e] EXCEPT !.pc = IF Kind(e) \in enabled THEN "query" ELSE "raise"]
<1>1. job[e] \in Jobs
  BY DEF IInv, TypeOK
<1>2. /\ next \in Jobs /\ next.pc # "insert" /\ next.keys = job[e].keys
      /\ next.todo = job[e].todo /\ next.kind = job[e].kind /\ next.gone = job[e].gone
  BY <1>1 DEF Jobs
<1>3. Step(e, next) /\ UNCHANGED <<shop, alert, failures>>
  BY DEF ReadRule
<1> HIDE DEF next
<1>4. Sound(next)
  BY <1>2 DEF Sound, IInv, TypeOK, Kind
<1> QED BY <1>2, <1>3, <1>4, JobMoves DEF IInv, TypeOK

LEMMA QueryStep ==
    ASSUME IInv, NEW e \in Evaluators, Query(e)
    PROVE  IInv'
<1> DEFINE true == {k \in Keys : k[1] = Kind(e) /\ Holds(k)}
           next == [job[e] EXCEPT !.pc = "raise", !.keys = true, !.todo = true]
<1>1. job[e] \in Jobs
  BY DEF IInv, TypeOK
<1>2. true \subseteq Keys /\ \A k \in true : k[1] = Kinds[job[e].kind]
  BY DEF Kind
<1>3. Step(e, next) /\ UNCHANGED <<shop, alert, failures>>
  BY DEF Query
<1> HIDE DEF true
<1>4. /\ next \in Jobs /\ next.pc # "insert" /\ next.keys = true
      /\ next.todo = true /\ next.kind = job[e].kind /\ next.gone = job[e].gone
  BY <1>1, <1>2 DEF Jobs
<1> HIDE DEF next
<1>5. Sound(next)
  BY <1>2, <1>4 DEF Sound, IInv, TypeOK, Kind
<1> QED BY <1>3, <1>4, <1>5, JobMoves DEF IInv, TypeOK

LEMMA LookForStep ==
    ASSUME IInv, NEW e \in Evaluators, NEW k \in Keys, LookFor(e, k)
    PROVE  IInv'
<1>1. job[e] \in Jobs /\ k \in job[e].todo /\ job[e].pc = "raise" /\ k[1] = Kinds[job[e].kind]
  BY DEF LookFor, IInv, TypeOK, Kind
<1>2. CASE AlreadyOpen(k)
  <2> DEFINE next == [job[e] EXCEPT !.todo = @ \ {k}]
  <2>1. Step(e, next) /\ UNCHANGED <<shop, alert, failures>>
    BY <1>2 DEF LookFor
  <2>2. /\ next \in Jobs /\ next.pc # "insert" /\ next.keys = job[e].keys
        /\ next.todo \subseteq job[e].todo /\ next.kind = job[e].kind /\ next.gone = job[e].gone
    BY <1>1 DEF Jobs
  <2> HIDE DEF next
  <2>3. Sound(next)
    BY <2>2 DEF Sound, IInv, TypeOK, Kind
  <2> QED BY <2>1, <2>2, <2>3, JobMoves DEF IInv, TypeOK
<1>3. CASE ~AlreadyOpen(k)
  <2> DEFINE next == [job[e] EXCEPT !.pc = "insert", !.todo = @ \ {k}, !.key = k]
  <2>1. Step(e, next) /\ UNCHANGED <<shop, alert, failures>>
    BY <1>3 DEF LookFor
  <2>2. /\ next \in Jobs /\ next.key = k /\ next.keys = job[e].keys
        /\ next.todo \subseteq job[e].todo /\ next.kind = job[e].kind /\ next.gone = job[e].gone
    BY <1>1 DEF Jobs
  <2> HIDE DEF next
  <2>3. Sound(next)
    BY <1>1, <2>2 DEF Sound, IInv, TypeOK, Kind
  <2>4. \A r \in Rows : alert[r].key # next.key
    BY <1>3, <2>2 DEF AlreadyOpen
  <2> QED BY <2>1, <2>3, <2>4, JobMoves DEF IInv, TypeOK
<1> QED BY <1>2, <1>3

LEMMA InsertStep ==
    ASSUME IInv, NEW e \in Evaluators, Insert(e)
    PROVE  IInv'
<1> DEFINE next == [job[e] EXCEPT !.pc = "raise", !.key = None]
           new == [key |-> job[e].key, by |-> e]
<1>1. /\ job[e] \in Jobs /\ job[e].pc = "insert" /\ job[e].key \in Keys
      /\ job[e].key[1] = Kinds[job[e].kind]
  BY DEF Insert, IInv, TypeOK, Kind
<1>2. PICK r \in Rows : /\ alert[r] = Closed /\ \A o \in Evaluators : r \notin job[o].gone
                        /\ alert' = [alert EXCEPT ![r] = new]
  BY DEF Insert, Unused
<1>3. Step(e, next) /\ UNCHANGED <<shop, failures>>
  BY DEF Insert
<1>4. /\ next \in Jobs /\ next.pc # "insert" /\ next.keys = job[e].keys
      /\ next.todo = job[e].todo /\ next.kind = job[e].kind /\ next.gone = job[e].gone
  BY <1>1 DEF Jobs
<1>5. /\ new \in [key : Keys, by : Evaluators] /\ new.key = job[e].key /\ new.by = e
  BY <1>1
<1> HIDE DEF next, new
<1>6. job'[e] = next /\ \A o \in Evaluators \ {e} : job'[o] = job[o]
  BY <1>3 DEF Step, IInv, TypeOK
<1>7. alert'[r] = new /\ \A q \in Rows \ {r} : alert'[q] = alert[q]
  BY <1>2 DEF IInv, TypeOK
<1>8. TypeOK'
  <2>1. job' \in [Evaluators -> Jobs]
    BY <1>3, <1>4 DEF Step, IInv, TypeOK
  <2>2. alert' \in [Rows -> [key : Keys, by : Evaluators] \union {Closed}]
    BY <1>2, <1>5 DEF IInv, TypeOK
  <2>3. ASSUME NEW o \in Evaluators
        PROVE  /\ \A k \in job'[o].keys \union job'[o].todo : k[1] = Kinds[job'[o].kind]
               /\ job'[o].pc = "insert" => job'[o].key \in Keys /\ job'[o].key[1] = Kinds[job'[o].kind]
               /\ \A q \in job'[o].gone : alert'[q] # Closed => alert'[q].key[1] = Kinds[job'[o].kind]
    <3>1. /\ job'[o].keys = job[o].keys /\ job'[o].todo = job[o].todo /\ job'[o].kind = job[o].kind
          /\ job'[o].gone = job[o].gone /\ (job'[o].pc = "insert" => job'[o] = job[o])
      BY <1>4, <1>6
    <3>2. r \notin job[o].gone /\ job[o].gone \subseteq Rows
      BY <1>2 DEF IInv, TypeOK, Jobs
    <3> QED BY <1>7, <3>1, <3>2 DEF IInv, TypeOK, Kind
  <2> QED BY <1>3, <2>1, <2>2, <2>3 DEF IInv, TypeOK, Kind, shop
<1>9. OncePerEvaluation'
  <2>1. \A q \in Rows : alert[q].key = new.key => alert[q].by # new.by
    BY <1>1, <1>5 DEF IInv, AboutToRaise
  <2> QED BY <1>7, <2>1 DEF IInv, OncePerEvaluation
<1>10. AboutToRaise'
  BY <1>4, <1>5, <1>6, <1>7 DEF IInv, AboutToRaise
<1> QED BY <1>8, <1>9, <1>10 DEF IInv

LEMMA FindMissingStep ==
    ASSUME IInv, NEW e \in Evaluators, FindMissing(e)
    PROVE  IInv'
<1> DEFINE next == [job[e] EXCEPT !.pc = "resolve", !.gone = Missing(e)]
<1>1. job[e] \in Jobs
  BY DEF IInv, TypeOK
<1>2. Missing(e) \subseteq Rows /\ \A r \in Missing(e) : alert[r].key[1] = Kinds[job[e].kind]
  BY DEF Missing, Kind
<1>3. Step(e, next) /\ UNCHANGED <<shop, alert, failures>>
  BY DEF FindMissing
<1>4. /\ next \in Jobs /\ next.pc # "insert" /\ next.keys = job[e].keys
      /\ next.todo = job[e].todo /\ next.kind = job[e].kind /\ next.gone = Missing(e)
  BY <1>1, <1>2 DEF Jobs
<1> HIDE DEF next
<1>5. Sound(next)
  BY <1>2, <1>4 DEF Sound, IInv, TypeOK, Kind
<1> QED BY <1>3, <1>4, <1>5, JobMoves DEF IInv, TypeOK

LEMMA ResolveStep ==
    ASSUME IInv, NEW e \in Evaluators, Resolve(e)
    PROVE  IInv'
<1>1. PICK next \in {Idle, [Idle EXCEPT !.kind = 2]} : Step(e, next)
  <2>1. job[e].kind \in 1 .. 2
    BY TwoKinds DEF IInv, TypeOK, Jobs
  <2> QED BY <2>1, TwoKinds DEF Resolve
<1>2. /\ next \in Jobs /\ next.pc = "rule" /\ next.keys = {} /\ next.todo = {} /\ next.gone = {}
  BY <1>1, IdleJob
<1>3. job'[e] = next /\ \A o \in Evaluators \ {e} : job'[o] = job[o]
  BY <1>1 DEF Step, IInv, TypeOK
<1>4. \A r \in Rows : alert'[r] = alert[r] \/ alert'[r] = Closed
  BY DEF Resolve
<1>5. Closed.key = None /\ Closed.by = None
  BY DEF Closed
<1>6. TypeOK'
  <2>1. job' \in [Evaluators -> Jobs]
    BY <1>1, <1>2 DEF Step, IInv, TypeOK
  <2>2. alert' \in [Rows -> [key : Keys, by : Evaluators] \union {Closed}]
    BY DEF Resolve, IInv, TypeOK
  <2>3. ASSUME NEW o \in Evaluators
        PROVE  /\ \A k \in job'[o].keys \union job'[o].todo : k[1] = Kinds[job'[o].kind]
               /\ job'[o].pc = "insert" => job'[o].key \in Keys /\ job'[o].key[1] = Kinds[job'[o].kind]
               /\ \A q \in job'[o].gone : alert'[q] # Closed => alert'[q].key[1] = Kinds[job'[o].kind]
    <3>1. job[o].gone \subseteq Rows
      BY DEF IInv, TypeOK, Jobs
    <3>2. CASE o = e
      BY <1>2, <1>3, <3>2
    <3>3. CASE o # e
      BY <1>3, <1>4, <3>1, <3>3 DEF IInv, TypeOK, Kind
    <3> QED BY <3>2, <3>3
  <2> QED BY <2>1, <2>2, <2>3 DEF Resolve, IInv, TypeOK, Kind, shop
<1>7. OncePerEvaluation'
  <2> SUFFICES ASSUME NEW r \in Rows, NEW q \in Rows, alert'[r] # Closed,
                      alert'[r].key = alert'[q].key, alert'[r].by = alert'[q].by
               PROVE  r = q
    BY DEF OncePerEvaluation
  <2>1. alert'[r] = alert[r] /\ alert[r].key \in Keys
    BY <1>4 DEF IInv, TypeOK
  <2>2. alert'[q] = alert[q]
    BY <1>4, <1>5, <2>1, KeysAssumption
  <2> QED BY <2>1, <2>2 DEF IInv, OncePerEvaluation
<1>8. AboutToRaise'
  <2> SUFFICES ASSUME NEW o \in Evaluators, NEW r \in Rows, job'[o].pc = "insert",
                      alert'[r].key = job'[o].key
               PROVE  alert'[r].by # o
    BY DEF AboutToRaise
  <2>1. o # e /\ job'[o] = job[o] /\ job[o].key \in Keys
    BY <1>2, <1>3 DEF IInv, TypeOK
  <2>2. alert'[r] = alert[r]
    BY <1>4, <1>5, <2>1, KeysAssumption
  <2> QED BY <2>1, <2>2 DEF IInv, AboutToRaise
<1> QED BY <1>6, <1>7, <1>8 DEF IInv

LEMMA FailStep ==
    ASSUME IInv, NEW e \in Evaluators, Fail(e)
    PROVE  IInv'
<1>1. Step(e, Idle) /\ UNCHANGED <<shop, alert>> /\ failures' \in Nat
  BY DEF Fail, IInv, TypeOK
<1>2. Sound(Idle) /\ Idle.pc # "insert"
  BY IdleJob DEF Sound
<1> QED BY <1>1, <1>2, JobMoves

LEMMA ShopStep ==
    ASSUME IInv, ShopMoves
    PROVE  IInv'
<1>1. /\ quantity' \in [Shelves -> Nat] /\ due' \subseteq Bills /\ collected' \in [Bills -> Nat]
      /\ enabled' \subseteq KindNames
  <2>1. ASSUME NEW x \in Shelves, Sell(x) \/ Restock(x) PROVE quantity' \in [Shelves -> Nat]
    <3>1. quantity \in [Shelves -> Nat] /\ quantity[x] \in Nat
      BY DEF IInv, TypeOK
    <3>2. CASE Sell(x)
      <4>1. quantity[x] - 1 \in Nat
        BY <3>1, <3>2 DEF Sell
      <4> QED BY <3>1, <3>2, <4>1 DEF Sell
    <3>3. CASE Restock(x)
      BY <3>1, <3>3 DEF Restock
    <3> QED BY <2>1, <3>2, <3>3
  <2>2. ASSUME NEW s \in Bills, FallDue(s) \/ Collect(s)
        PROVE  due' \subseteq Bills /\ collected' \in [Bills -> Nat]
    BY <2>2 DEF IInv, TypeOK, FallDue, Collect
  <2>3. ASSUME NEW kind \in Switched, SetRule(kind) PROVE enabled' \subseteq KindNames
    BY <2>3, AlertAssumption DEF IInv, TypeOK, SetRule, KindNames
  <2> QED
    BY <2>1, <2>2, <2>3 DEF IInv, TypeOK, ShopMoves, Sell, Restock, FallDue, Collect, SetRule
<1>2. UNCHANGED <<alert, job, failures>>
  BY DEF ShopMoves, Sell, Restock, FallDue, Collect, SetRule
<1> QED BY <1>1, <1>2 DEF IInv, TypeOK, OncePerEvaluation, AboutToRaise, Kind

LEMMA InitInv == Init => IInv
<1> SUFFICES ASSUME Init PROVE IInv
  OBVIOUS
<1>1. TypeOK
  BY IdleJob, AlertAssumption DEF Init, TypeOK, Kind, KindNames
<1>2. OncePerEvaluation /\ AboutToRaise
  BY IdleJob DEF Init, OncePerEvaluation, AboutToRaise
<1> QED BY <1>1, <1>2 DEF IInv

LEMMA StepInv == IInv /\ [Next]_vars => IInv'
<1> SUFFICES ASSUME IInv, [Next]_vars PROVE IInv'
  OBVIOUS
<1>1. CASE ShopMoves
  BY <1>1, ShopStep
<1>2. ASSUME NEW e \in Evaluators, Advance(e) \/ Fail(e) PROVE IInv'
  BY <1>2, ReadRuleStep, QueryStep, LookForStep, InsertStep, FindMissingStep, ResolveStep, FailStep
     DEF Advance
<1>3. CASE UNCHANGED vars
  BY <1>3 DEF vars, shop, IInv, TypeOK, OncePerEvaluation, AboutToRaise, Kind
<1> QED BY <1>1, <1>2, <1>3 DEF Next

LEMMA InvHolds == Spec => []IInv
BY InitInv, StepInv, PTL DEF Spec

\* For any number of evaluations at once, rows and evaluations keep their types, and no
\* evaluation closes an alert of a kind it is not looking at.
THEOREM AlertTypes == Spec => []TypeOK
<1>1. IInv => TypeOK
  BY DEF IInv
<1> QED BY <1>1, InvHolds, PTL

\* For any number of evaluations at once, a condition is on the bell once for each of them
\* at most (raise, which looks first and inserts afterwards).
THEOREM NobodyShoutsTwice == Spec => []OncePerEvaluation
<1>1. IInv => OncePerEvaluation
  BY DEF IInv
<1> QED BY <1>1, InvHolds, PTL
=============================================================================
