--------------------------- MODULE ImportsProofs ----------------------------
(***************************************************************************)
(* What is proved about Imports for any number of uploads, rows, mappings  *)
(* and requests.  The argument: a batch that is not COMMITTED has been     *)
(* reopened as often as it was claimed; the commits in flight on a batch   *)
(* hold different claims; and a commit has not applied the rows it has     *)
(* still to do.  A batch that nobody disturbed is staged, validated and    *)
(* committed in this order, by one request at a time, and at each step the *)
(* counts are those of the rows it is through with.                        *)
(***************************************************************************)
EXTENDS Imports, FiniteSetTheorems, TLAPS

\* The steps of a commit that has claimed its batch.
Claimed == {"read", "apply", "ref", "error"}

OnAJob ==
    \A c \in Calls : call[c].step \notin {"idle", "insert"} => call[c].job \in Jobs

ReopenedAsOften ==
    \A j \in Jobs : job[j].status # "COMMITTED" => claims[j] <= late[j]

AppliedByAClaim ==
    \A j \in Jobs, r \in RowNumbers : made[j][r] \subseteq 1 .. claims[j]

OwnClaim ==
    /\ \A c \in Calls : call[c].step \in Claimed => call[c].claim \in 1 .. claims[call[c].job]
    /\ \A c, d \in Calls :
          /\ c # d
          /\ call[c].step \in Claimed /\ call[d].step \in Claimed
          /\ call[c].job = call[d].job
          => call[c].claim # call[d].claim

\* The row a commit is at has been applied when its reference is to be recorded.
Fresh ==
    \A c \in Calls, r \in RowNumbers :
        /\ call[c].step \in Claimed
        /\ call[c].step = "read" \/ r \in call[c].todo
        /\ call[c].step \in {"ref", "error"} => ~IsNext(r, call[c].todo)
        => call[c].claim \notin made[call[c].job][r]

IInv == TypeOK /\ OnAJob /\ ReopenedAsOften /\ AppliedByAClaim /\ OwnClaim /\ Fresh

-----------------------------------------------------------------------------
\* The invariant holds of an empty importer.
LEMMA InitIInv == Init => IInv
<1> SUFFICES ASSUME Init PROVE IInv
    OBVIOUS
<1>1. TypeOK
  BY ImportAssumption DEF Init, TypeOK, RowRecords, JobRecords, CallRecords, NoJob, NewRow, Idle
<1>2. OnAJob /\ ReopenedAsOften /\ AppliedByAClaim /\ OwnClaim /\ Fresh
  BY DEF Init, OnAJob, ReopenedAsOften, AppliedByAClaim, OwnClaim, Fresh, Claimed, NoJob, Idle
<1> QED BY <1>1, <1>2 DEF IInv

\* A request may become idle, or one that has not claimed anything may take a step short
\* of its claim, without disturbing what the invariant says of the claims.
LEMMA StepBeforeClaim ==
    ASSUME IInv, NEW c \in Calls, NEW next \in CallRecords,
           next.step \in {"idle", "insert", "stage", "validate", "claim"},
           next.step \notin {"idle", "insert"} => next.job \in Jobs,
           Goto(c, next), UNCHANGED <<made, claims>>
    PROVE  /\ call' \in [Calls -> CallRecords]
           /\ OnAJob' /\ AppliedByAClaim' /\ OwnClaim' /\ Fresh'
<1>1. /\ call' = [call EXCEPT ![c] = next] /\ call \in [Calls -> CallRecords]
      /\ call' \in [Calls -> CallRecords] /\ call'[c] = next
      /\ \A d \in Calls : d # c => call'[d] = call[d]
  BY DEF Goto, IInv, TypeOK
<1>2. OnAJob'
  BY <1>1 DEF OnAJob, IInv
<1>3. AppliedByAClaim'
  BY DEF AppliedByAClaim, IInv
<1>4. OwnClaim'
  BY <1>1 DEF OwnClaim, IInv, Claimed
<1>5. Fresh'
  BY <1>1 DEF Fresh, IInv, Claimed
<1> QED BY <1>1, <1>2, <1>3, <1>4, <1>5

\* A commit that goes on with the claim it has keeps the claims apart.
LEMMA StepOfCommit ==
    ASSUME IInv, NEW c \in Calls, NEW next \in CallRecords,
           call[c].step \in Claimed, next.step \in Claimed,
           next.job = call[c].job, next.claim = call[c].claim,
           Goto(c, next), UNCHANGED claims
    PROVE  /\ call' \in [Calls -> CallRecords]
           /\ call'[c] = next /\ \A d \in Calls : d # c => call'[d] = call[d]
           /\ call[c].job \in Jobs
           /\ OnAJob' /\ OwnClaim'
<1>1. /\ call' = [call EXCEPT ![c] = next] /\ call \in [Calls -> CallRecords]
      /\ call' \in [Calls -> CallRecords] /\ call'[c] = next
      /\ \A d \in Calls : d # c => call'[d] = call[d]
  BY DEF Goto, IInv, TypeOK
<1>2. call[c].job \in Jobs
  BY DEF OnAJob, IInv, Claimed
<1>3. OnAJob'
  BY <1>1, <1>2 DEF OnAJob, IInv
<1>4. OwnClaim'
  BY <1>1 DEF OwnClaim, IInv
<1> QED BY <1>1, <1>2, <1>3, <1>4

-----------------------------------------------------------------------------
\* The statements of an upload keep the invariant.
LEMMA UploadIInv == ASSUME IInv, NEW c \in Calls, Upload(c) PROVE IInv'
<1>0. TypeOK /\ ReopenedAsOften /\ call[c] \in CallRecords
  BY DEF IInv, TypeOK
<1>1. CASE CheckFile(c)
  <2> DEFINE next == [Idle EXCEPT !.step = "insert"]
  <2>1. /\ next \in CallRecords /\ next.step = "insert" /\ Goto(c, next)
        /\ UNCHANGED <<job, staged, row, made, history>>
    BY <1>1 DEF CheckFile, Idle, CallRecords
  <2>2. call' \in [Calls -> CallRecords] /\ OnAJob' /\ AppliedByAClaim' /\ OwnClaim' /\ Fresh'
    BY <2>1, StepBeforeClaim DEF history
  <2> QED BY <1>0, <2>1, <2>2 DEF IInv, TypeOK, ReopenedAsOften, history
<1>2. CASE InsertJob(c)
  <2>1. PICK j \in Jobs :
          /\ job[j].status = "NONE"
          /\ job' = [job EXCEPT ![j] = [NoJob EXCEPT !.status = "UPLOADED"]]
          /\ Goto(c, [call[c] EXCEPT !.step = "stage", !.job = j])
    BY <1>2 DEF InsertJob
  <2> DEFINE next == [call[c] EXCEPT !.step = "stage", !.job = j]
  <2>2. next \in CallRecords /\ next.step = "stage" /\ next.job \in Jobs
    BY <1>0 DEF CallRecords
  <2>3. UNCHANGED <<staged, row, made, history>>
    BY <1>2 DEF InsertJob
  <2>4. call' \in [Calls -> CallRecords] /\ OnAJob' /\ AppliedByAClaim' /\ OwnClaim' /\ Fresh'
    BY <2>1, <2>2, <2>3, StepBeforeClaim DEF history
  <2>5. job' \in [Jobs -> JobRecords] /\ ReopenedAsOften'
    BY <1>0, <2>1, <2>3 DEF TypeOK, JobRecords, NoJob, ReopenedAsOften, history
  <2> QED BY <1>0, <2>3, <2>4, <2>5 DEF IInv, TypeOK, history
<1>3. CASE InsertRows(c)
  <2>1. Idle \in CallRecords /\ Idle.step = "idle"
    BY DEF Idle, CallRecords
  <2>2. call' \in [Calls -> CallRecords] /\ OnAJob' /\ AppliedByAClaim' /\ OwnClaim' /\ Fresh'
    BY <1>3, <2>1, StepBeforeClaim DEF InsertRows, history
  <2>3. call[c].job \in Jobs
    BY <1>3 DEF InsertRows, At, IInv, OnAJob
  <2> QED BY <1>0, <1>3, <2>2, <2>3 DEF InsertRows, IInv, TypeOK, ReopenedAsOften, history
<1> QED BY <1>1, <1>2, <1>3 DEF Upload

\* An UPDATE of one row of a batch leaves the table well typed.
LEMMA RowWritten ==
    ASSUME row \in [Jobs -> [RowNumbers -> RowRecords]], NEW j \in Jobs, NEW r \in RowNumbers,
           NEW x \in RowRecords, row' = [row EXCEPT ![j][r] = x]
    PROVE  row' \in [Jobs -> [RowNumbers -> RowRecords]]
OBVIOUS

\* The statements of a validation keep the invariant: one that ends on a claimed batch
\* allows one claim more.
LEMMA ValidateIInv == ASSUME IInv, NEW c \in Calls, Validate(c) PROVE IInv'
<1>0. TypeOK /\ ReopenedAsOften /\ call[c] \in CallRecords
  BY DEF IInv, TypeOK
<1>1. CASE BeginValidate(c)
  <2>1. PICK j \in Jobs, m \in Mappings :
          /\ checks[j] < MaxChecks
          /\ Goto(c, [Idle EXCEPT !.step = "validate", !.job = j, !.todo = RowsOf(j),
                                  !.readable = Readable[m]])
          /\ checks' = [checks EXCEPT ![j] = @ + 1]
          /\ disturbed' = IF InFlightOn(j) = {} THEN disturbed ELSE disturbed \union {j}
          /\ UNCHANGED <<job, staged, row, made, claims, late>>
    BY <1>1 DEF BeginValidate
  <2> DEFINE next == [Idle EXCEPT !.step = "validate", !.job = j, !.todo = RowsOf(j),
                                  !.readable = Readable[m]]
  <2>2. next \in CallRecords /\ next.step = "validate" /\ next.job \in Jobs
    BY ImportAssumption DEF Idle, CallRecords, RowsOf
  <2>3. call' \in [Calls -> CallRecords] /\ OnAJob' /\ AppliedByAClaim' /\ OwnClaim' /\ Fresh'
    BY <2>1, <2>2, StepBeforeClaim
  <2>4. checks' \in [Jobs -> 0 .. MaxChecks] /\ disturbed' \subseteq Jobs
    BY <1>0, <2>1, ImportAssumption DEF TypeOK
  <2> QED BY <1>0, <2>1, <2>3, <2>4 DEF IInv, TypeOK, ReopenedAsOften
<1>2. CASE ValidateRow(c)
  <2>1. PICK r \in call[c].todo :
          /\ row' = [row EXCEPT ![call[c].job][r] =
                 [parsed |-> (r \in call[c].readable), error |-> ~(r \in call[c].readable),
                  ref |-> @.ref]]
          /\ Goto(c, [call[c] EXCEPT !.todo = @ \ {r},
                                     !.bad = IF r \in call[c].readable THEN @ ELSE @ + 1])
    BY <1>2 DEF ValidateRow
  <2> DEFINE next == [call[c] EXCEPT !.todo = @ \ {r},
                                     !.bad = IF r \in call[c].readable THEN @ ELSE @ + 1]
  <2>2. /\ call[c].step = "validate" /\ call[c].job \in Jobs /\ r \in RowNumbers
        /\ UNCHANGED <<job, staged, made, history>>
    BY <1>0, <1>2, <2>1 DEF ValidateRow, At, IInv, OnAJob, CallRecords
  <2> DEFINE bad == IF r \in call[c].readable THEN call[c].bad ELSE call[c].bad + 1
  <2>a. bad \in Nat /\ next = [call[c] EXCEPT !.todo = @ \ {r}, !.bad = bad]
    <3>1. call[c].bad \in Nat
      BY <1>0 DEF CallRecords
    <3> QED BY <3>1
  <2>3. next \in CallRecords /\ next.step = "validate" /\ next.job \in Jobs
    <3> HIDE DEF bad
    <3> QED BY <1>0, <2>2, <2>a DEF CallRecords
  <2>4. call' \in [Calls -> CallRecords] /\ OnAJob' /\ AppliedByAClaim' /\ OwnClaim' /\ Fresh'
    BY <2>1, <2>2, <2>3, StepBeforeClaim DEF history
  <2>5. row' \in [Jobs -> [RowNumbers -> RowRecords]]
    <3> DEFINE ok == r \in call[c].readable
               new == [parsed |-> ok, error |-> ~ok, ref |-> row[call[c].job][r].ref]
    <3>1. row \in [Jobs -> [RowNumbers -> RowRecords]] /\ row[call[c].job][r] \in RowRecords
      BY <1>0, <2>2 DEF TypeOK
    <3>2. new \in RowRecords
      BY <3>1 DEF RowRecords
    <3>3. row' = [row EXCEPT ![call[c].job][r] = new]
      BY <2>1
    <3> HIDE DEF new
    <3> QED BY <2>2, <3>1, <3>2, <3>3, RowWritten
  <2> QED BY <1>0, <2>2, <2>4, <2>5 DEF IInv, TypeOK, ReopenedAsOften, history
<1>3. CASE FinishValidate(c)
  <2> DEFINE j == call[c].job
  <2>1. /\ j \in Jobs /\ call[c].bad \in Nat
        /\ job' = [job EXCEPT ![j] = [@ EXCEPT !.status = "VALIDATED", !.errors = call[c].bad]]
        /\ late' = IF job[j].status = "COMMITTED" THEN [late EXCEPT ![j] = @ + 1] ELSE late
        /\ Goto(c, Idle)
        /\ UNCHANGED <<staged, row, made, checks, claims, disturbed>>
    BY <1>0, <1>3 DEF FinishValidate, At, IInv, OnAJob, CallRecords
  <2>2. Idle \in CallRecords /\ Idle.step = "idle"
    BY DEF Idle, CallRecords
  <2>3. call' \in [Calls -> CallRecords] /\ OnAJob' /\ AppliedByAClaim' /\ OwnClaim' /\ Fresh'
    BY <2>1, <2>2, StepBeforeClaim
  <2>4. job' \in [Jobs -> JobRecords]
    BY <1>0, <2>1 DEF TypeOK, JobRecords
  <2>5. late' \in [Jobs -> Nat] /\ \A i \in Jobs : claims[i] <= late'[i] + 1
    BY <1>0, <2>1 DEF TypeOK
  <2>6. ReopenedAsOften'
    <3> SUFFICES ASSUME NEW i \in Jobs, job'[i].status # "COMMITTED" PROVE claims[i] <= late'[i]
      BY <2>1 DEF ReopenedAsOften
    <3>1. CASE i = j
      BY <1>0, <2>1, <3>1 DEF TypeOK, ReopenedAsOften
    <3>2. CASE i # j
      BY <1>0, <2>1, <3>2 DEF TypeOK, ReopenedAsOften
    <3> QED BY <3>1, <3>2
  <2> QED BY <1>0, <2>1, <2>3, <2>4, <2>5, <2>6 DEF IInv, TypeOK
<1> QED BY <1>1, <1>2, <1>3 DEF Validate

-----------------------------------------------------------------------------
\* A commit keeps the invariant up to its claim, and when its request ends.
LEMMA OutsideClaimIInv ==
    ASSUME IInv, NEW c \in Calls,
           BeginCommit(c) \/ RefuseClaim(c) \/ FinishCommit(c) \/ Fail(c)
    PROVE  IInv'
<1>0. TypeOK /\ ReopenedAsOften /\ call[c] \in CallRecords
  BY DEF IInv, TypeOK
<1>1. Idle \in CallRecords /\ Idle.step = "idle"
  BY DEF Idle, CallRecords
<1>2. CASE BeginCommit(c)
  <2>1. PICK j \in Jobs :
          /\ Goto(c, [Idle EXCEPT !.step = "claim", !.job = j, !.seen = job[j].errors])
          /\ disturbed' = IF \E o \in InFlightOn(j) : At(o, "validate")
                          THEN disturbed \union {j} ELSE disturbed
          /\ UNCHANGED <<job, staged, row, made, checks, claims, late>>
    BY <1>2 DEF BeginCommit
  <2> DEFINE next == [Idle EXCEPT !.step = "claim", !.job = j, !.seen = job[j].errors]
  <2>2. next \in CallRecords /\ next.step = "claim" /\ next.job \in Jobs
    BY <1>0 DEF TypeOK, Idle, CallRecords, JobRecords
  <2>3. call' \in [Calls -> CallRecords] /\ OnAJob' /\ AppliedByAClaim' /\ OwnClaim' /\ Fresh'
    BY <2>1, <2>2, StepBeforeClaim
  <2> QED BY <1>0, <2>1, <2>3 DEF IInv, TypeOK, ReopenedAsOften
<1>3. CASE RefuseClaim(c)
  <2>1. call' \in [Calls -> CallRecords] /\ OnAJob' /\ AppliedByAClaim' /\ OwnClaim' /\ Fresh'
    BY <1>1, <1>3, StepBeforeClaim DEF RefuseClaim, history
  <2> QED BY <1>0, <1>3, <2>1 DEF RefuseClaim, IInv, TypeOK, ReopenedAsOften, history
<1>4. CASE FinishCommit(c)
  <2>1. call' \in [Calls -> CallRecords] /\ OnAJob' /\ AppliedByAClaim' /\ OwnClaim' /\ Fresh'
    BY <1>1, <1>4, StepBeforeClaim DEF FinishCommit, history
  <2>2. call[c].good \in Nat /\ call[c].seen + call[c].bad \in Nat /\ call[c].job \in Jobs
    BY <1>0, <1>4 DEF FinishCommit, At, CallRecords, IInv, OnAJob
  <2>3. job' \in [Jobs -> JobRecords] /\ \A j \in Jobs : job'[j].status = job[j].status
    BY <1>0, <1>4, <2>2 DEF FinishCommit, TypeOK, JobRecords
  <2> QED BY <1>0, <1>4, <2>1, <2>3 DEF FinishCommit, IInv, TypeOK, ReopenedAsOften, history
<1>5. CASE Fail(c)
  <2>1. call' \in [Calls -> CallRecords] /\ OnAJob' /\ AppliedByAClaim' /\ OwnClaim' /\ Fresh'
    BY <1>1, <1>5, StepBeforeClaim DEF Fail
  <2>2. disturbed' \subseteq Jobs
    BY <1>0, <1>5 DEF Fail, At, TypeOK, IInv, OnAJob
  <2> QED BY <1>0, <1>5, <2>1, <2>2 DEF Fail, IInv, TypeOK, ReopenedAsOften
<1> QED BY <1>2, <1>3, <1>4, <1>5

\* The claim is conditional: it takes a number no commit has had.
LEMMA ClaimIInv == ASSUME IInv, NEW c \in Calls, Claim(c) PROVE IInv'
<1> DEFINE j == call[c].job
           n == claims[j] + 1
           next == [call[c] EXCEPT !.step = "read", !.claim = claims[j] + 1]
<1>0. TypeOK /\ ReopenedAsOften /\ call[c] \in CallRecords
  BY DEF IInv, TypeOK
<1>1. /\ j \in Jobs /\ call[c].step = "claim" /\ job[j].status = "VALIDATED"
      /\ job' = [job EXCEPT ![j].status = "COMMITTED"]
      /\ claims' = [claims EXCEPT ![j] = @ + 1]
      /\ Goto(c, next)
      /\ UNCHANGED <<staged, row, made, checks, late, disturbed>>
  BY DEF Claim, At, Unclaimed, IInv, OnAJob
<1>2. /\ claims[j] \in Nat /\ late[j] \in Nat /\ claims[j] <= late[j]
      /\ claims' \in [Jobs -> Nat] /\ claims'[j] = n
      /\ \A i \in Jobs : i # j => claims'[i] = claims[i]
  BY <1>0, <1>1 DEF TypeOK, ReopenedAsOften
<1>3. next \in CallRecords /\ next.step = "read" /\ next.job = j /\ next.claim = n
  <2>1. n \in Nat /\ next = [call[c] EXCEPT !.step = "read", !.claim = n]
    BY <1>2
  <2> HIDE DEF n, next
  <2> QED BY <1>0, <2>1 DEF CallRecords
<1>4. /\ call' \in [Calls -> CallRecords] /\ call'[c] = next
      /\ \A d \in Calls : d # c => call'[d] = call[d]
  BY <1>0, <1>1, <1>3 DEF TypeOK, Goto
<1> HIDE DEF next
<1>5. TypeOK'
  <2>1. job' \in [Jobs -> JobRecords]
    BY <1>0, <1>1 DEF TypeOK, JobRecords
  <2>2. \A i \in Jobs : claims'[i] <= late[i] + 1
    BY <1>0, <1>1, <1>2 DEF TypeOK
  <2> QED BY <1>0, <1>1, <1>2, <1>4, <2>1, <2>2 DEF TypeOK
<1>6. OnAJob'
  BY <1>1, <1>3, <1>4 DEF OnAJob, IInv
<1>7. ReopenedAsOften'
  <2>1. \A i \in Jobs : i # j => job'[i] = job[i]
    BY <1>0, <1>1 DEF TypeOK
  <2>2. job'[j].status = "COMMITTED"
    BY <1>0, <1>1 DEF TypeOK, JobRecords
  <2> QED BY <1>0, <1>1, <1>2, <2>1, <2>2 DEF ReopenedAsOften
<1>8. AppliedByAClaim'
  <2> SUFFICES ASSUME NEW i \in Jobs, NEW r \in RowNumbers PROVE made[i][r] \subseteq 1 .. claims'[i]
    BY <1>1 DEF AppliedByAClaim
  <2>1. made[i][r] \subseteq 1 .. claims[i] /\ claims[i] \in Nat
    BY <1>0 DEF AppliedByAClaim, IInv, TypeOK
  <2>2. claims'[i] = claims[i] \/ claims'[i] = claims[i] + 1
    BY <1>2
  <2> QED BY <2>1, <2>2
<1>9. \A d \in Calls : d # c /\ call[d].step \in Claimed =>
          /\ call[d].claim \in 1 .. claims[call[d].job] /\ call[d].job \in Jobs
  BY DEF OwnClaim, OnAJob, IInv, Claimed
<1>10. OwnClaim'
  <2>1. \A d \in Calls : call'[d].step \in Claimed => call'[d].claim \in 1 .. claims'[call'[d].job]
    <3> SUFFICES ASSUME NEW d \in Calls, call'[d].step \in Claimed
                 PROVE  call'[d].claim \in 1 .. claims'[call'[d].job]
      OBVIOUS
    <3>1. CASE d = c
      BY <1>2, <1>3, <1>4, <3>1
    <3>2. CASE d # c
      <4>1. call[d].claim \in 1 .. claims[call[d].job] /\ call[d].job \in Jobs
        BY <1>4, <1>9, <3>2
      <4>2. \/ claims'[call[d].job] = claims[call[d].job]
            \/ claims'[call[d].job] = claims[call[d].job] + 1
        BY <1>2, <4>1
      <4>3. claims[call[d].job] \in Nat
        BY <1>0, <4>1 DEF TypeOK
      <4> QED BY <1>4, <3>2, <4>1, <4>2, <4>3
    <3> QED BY <3>1, <3>2
  <2>2. \A d \in Calls : d # c /\ call[d].step \in Claimed /\ call[d].job = j => call[d].claim # n
    BY <1>2, <1>9
  <2>3. \A d, e \in Calls :
           d # e /\ call'[d].step \in Claimed /\ call'[e].step \in Claimed
           /\ call'[d].job = call'[e].job => call'[d].claim # call'[e].claim
    BY <1>3, <1>4, <2>2 DEF OwnClaim, IInv
  <2> QED BY <2>1, <2>3 DEF OwnClaim
<1>11. Fresh'
  <2>1. \A r \in RowNumbers : n \notin made[j][r]
    BY <1>1, <1>2 DEF AppliedByAClaim, IInv
  <2> QED BY <1>1, <1>3, <1>4, <2>1 DEF Fresh, IInv
<1> QED BY <1>5, <1>6, <1>7, <1>8, <1>10, <1>11 DEF IInv

-----------------------------------------------------------------------------
\* The rows that are still to be done are read once the batch is claimed.
LEMMA ReadRowsIInv == ASSUME IInv, NEW c \in Calls, ReadRows(c) PROVE IInv'
<1> DEFINE j == call[c].job
           found == {r \in RowsOf(j) : ~row[j][r].error}
           next == [call[c] EXCEPT !.step = "apply", !.todo = found,
                                   !.readable = {r \in found : row[j][r].parsed}]
<1>1. TypeOK /\ call[c] \in CallRecords /\ call[c].step = "read" /\ Goto(c, next)
      /\ UNCHANGED <<job, staged, row, made, history>>
  BY DEF ReadRows, At, IInv, TypeOK
<1>2. /\ next \in CallRecords /\ next.step = "apply" /\ next.job = j
      /\ next.claim = call[c].claim
  BY <1>1 DEF CallRecords, RowsOf
<1> HIDE DEF next
<1>3. /\ call' \in [Calls -> CallRecords] /\ call'[c] = next
      /\ \A d \in Calls : d # c => call'[d] = call[d]
      /\ OnAJob' /\ OwnClaim'
  BY <1>1, <1>2, StepOfCommit DEF Claimed, history
<1>4. TypeOK' /\ ReopenedAsOften' /\ AppliedByAClaim'
  BY <1>1, <1>3 DEF TypeOK, ReopenedAsOften, AppliedByAClaim, IInv, history
<1>5. Fresh'
  BY <1>1, <1>2, <1>3 DEF Fresh, IInv, Claimed
<1> QED BY <1>3, <1>4, <1>5 DEF IInv

\* A row is applied by a claim that has not applied it.
LEMMA ApplyIInv == ASSUME IInv, NEW c \in Calls, Apply(c) PROVE IInv'
<1> DEFINE j == call[c].job
           n == call[c].claim
<1>1. /\ TypeOK /\ call[c] \in CallRecords /\ call[c].step = "apply" /\ j \in Jobs
      /\ n \in 1 .. claims[j] /\ claims[j] \in Nat
      /\ UNCHANGED <<job, staged, row, history>>
  BY DEF Apply, At, IInv, TypeOK, OnAJob, OwnClaim, Claimed
<1>2. PICK r \in call[c].todo :
        /\ IsNext(r, call[c].todo)
        /\ IF Accepts(call[c], r)
           THEN /\ made' = [made EXCEPT ![j][r] = @ \union {n}]
                /\ Goto(c, [call[c] EXCEPT !.step = "ref"])
           ELSE Goto(c, [call[c] EXCEPT !.step = "error"]) /\ UNCHANGED made
  BY DEF Apply
<1>3. r \in RowNumbers
  BY <1>1, <1>2 DEF CallRecords
<1>4. PICK next \in CallRecords :
        /\ next.step \in {"ref", "error"} /\ next.job = j /\ next.claim = n
        /\ next.todo = call[c].todo /\ Goto(c, next)
  BY <1>1, <1>2 DEF CallRecords
<1>5. /\ call' \in [Calls -> CallRecords] /\ call'[c] = next
      /\ \A d \in Calls : d # c => call'[d] = call[d]
      /\ OnAJob' /\ OwnClaim'
  BY <1>1, <1>4, StepOfCommit DEF Claimed, history
<1>6. /\ made' \in [Jobs -> [RowNumbers -> SUBSET (Nat \ {0})]]
      /\ \A i \in Jobs, q \in RowNumbers :
            \/ made'[i][q] = made[i][q]
            \/ i = j /\ q = r /\ made'[i][q] = made[i][q] \union {n}
  <2>1. made \in [Jobs -> [RowNumbers -> SUBSET (Nat \ {0})]] /\ n \in Nat \ {0}
    <3>1. \A k \in Nat : \A m \in 1 .. k : m \in Nat \ {0}
      OBVIOUS
    <3>2. n \in Nat \ {0}
      BY <1>1, <3>1
    <3>3. made \in [Jobs -> [RowNumbers -> SUBSET (Nat \ {0})]]
      BY <1>1, Zenon DEF TypeOK
    <3> QED BY <3>2, <3>3
  <2>2. CASE UNCHANGED made
    BY <2>1, <2>2
  <2>3. CASE made' = [made EXCEPT ![j][r] = @ \union {n}]
    <3> DEFINE x == made[j][r] \union {n}
    <3>1. x \in SUBSET (Nat \ {0}) /\ made' = [made EXCEPT ![j][r] = x]
      BY <1>1, <1>3, <2>1, <2>3
    <3>2. \A i \in Jobs, q \in RowNumbers : made'[i][q] = IF i = j /\ q = r THEN x ELSE made[i][q]
      <4> HIDE DEF x
      <4> QED BY <1>1, <1>3, <2>1, <3>1
    <3>3. made' \in [Jobs -> [RowNumbers -> SUBSET (Nat \ {0})]]
      <4> DEFINE S == SUBSET (Nat \ {0})
      <4> HIDE DEF x, S
      <4>1. made \in [Jobs -> [RowNumbers -> S]] /\ x \in S
        BY <2>1, <3>1, Zenon DEF S
      <4>2. made' \in [Jobs -> [RowNumbers -> S]]
        BY <1>1, <1>3, <3>1, <4>1
      <4> QED BY <4>2, Zenon DEF S
    <3> QED BY <3>2, <3>3
  <2> QED BY <1>2, <2>2, <2>3
<1>7. TypeOK' /\ ReopenedAsOften'
  BY <1>1, <1>5, <1>6 DEF TypeOK, ReopenedAsOften, IInv, history
<1>8. AppliedByAClaim'
  BY <1>1, <1>6 DEF AppliedByAClaim, IInv, history
<1>9. Fresh'
  <2> SUFFICES ASSUME NEW d \in Calls, NEW q \in RowNumbers, call'[d].step \in Claimed,
                      call'[d].step = "read" \/ q \in call'[d].todo,
                      call'[d].step \in {"ref", "error"} => ~IsNext(q, call'[d].todo)
               PROVE  call'[d].claim \notin made'[call'[d].job][q]
    BY DEF Fresh
  <2>1. CASE d = c
    <3>1. q # r
      BY <1>2, <1>4, <1>5, <2>1
    <3>2. n \notin made[j][q]
      BY <1>1, <1>4, <1>5, <2>1 DEF Fresh, IInv, Claimed
    <3> QED BY <1>1, <1>4, <1>5, <1>6, <2>1, <3>1, <3>2
  <2>2. CASE d # c
    <3>1. call[d].claim \notin made[call[d].job][q] /\ call[d].job \in Jobs
      BY <1>5, <2>2 DEF Fresh, OnAJob, IInv, Claimed
    <3>2. call[d].job = j => call[d].claim # n
      BY <1>1, <1>5, <2>2 DEF OwnClaim, IInv, Claimed
    <3> QED BY <1>5, <1>6, <2>2, <3>1, <3>2
  <2> QED BY <2>1, <2>2
<1> QED BY <1>5, <1>7, <1>8, <1>9 DEF IInv

\* What has been done leaves the rows that are still to do untouched.
LEMMA RecordIInv ==
    ASSUME IInv, NEW c \in Calls, RecordRef(c) \/ LoseRef(c) \/ RecordError(c)
    PROVE  IInv'
<1> DEFINE j == call[c].job
<1>1. /\ TypeOK /\ call[c] \in CallRecords /\ call[c].step \in {"ref", "error"} /\ j \in Jobs
      /\ call[c].good \in Nat /\ call[c].bad \in Nat
  BY DEF RecordRef, LoseRef, RecordError, At, IInv, TypeOK, OnAJob, CallRecords
<1>2. UNCHANGED <<job, staged, made, checks, claims, late>> /\ disturbed' \subseteq Jobs
  BY <1>1 DEF RecordRef, LoseRef, RecordError, TypeOK, history
<1>3. /\ row' \in [Jobs -> [RowNumbers -> RowRecords]]
      /\ \E next \in CallRecords :
            /\ next.job = j /\ next.claim = call[c].claim /\ Goto(c, next)
            /\ \/ next.step = "error" /\ next.todo = call[c].todo
               \/ /\ next.step = "apply"
                  /\ \E r \in call[c].todo : IsNext(r, call[c].todo) /\ next.todo = call[c].todo \ {r}
  <2>1. CASE LoseRef(c)
    <3> DEFINE next == [call[c] EXCEPT !.step = "error"]
    <3>1. /\ next \in CallRecords /\ next.step = "error" /\ next.todo = call[c].todo
          /\ next.job = j /\ next.claim = call[c].claim
      BY <1>1 DEF CallRecords
    <3>2. Goto(c, next) /\ row' = row
      BY <2>1 DEF LoseRef
    <3> HIDE DEF next
    <3> QED BY <1>1, <3>1, <3>2 DEF TypeOK
  <2>2. CASE RecordRef(c)
    <3>1. PICK r \in call[c].todo :
            /\ IsNext(r, call[c].todo)
            /\ row' = [row EXCEPT ![j][r].ref = TRUE]
            /\ Goto(c, [call[c] EXCEPT !.step = "apply", !.todo = @ \ {r}, !.good = @ + 1])
      BY <2>2 DEF RecordRef
    <3> DEFINE x == [row[j][r] EXCEPT !.ref = TRUE]
    <3>2. r \in RowNumbers /\ row[j][r] \in RowRecords
      BY <1>1, <3>1 DEF TypeOK, CallRecords
    <3>3. x \in RowRecords /\ row' = [row EXCEPT ![j][r] = x]
      BY <3>1, <3>2 DEF RowRecords
    <3>4. row' \in [Jobs -> [RowNumbers -> RowRecords]]
      <4> HIDE DEF x
      <4> QED BY <1>1, <3>2, <3>3, RowWritten DEF TypeOK
    <3> DEFINE sum == call[c].good + 1
               next == [call[c] EXCEPT !.step = "apply", !.todo = @ \ {r}, !.good = sum]
    <3>5. sum \in Nat /\ Goto(c, next)
      BY <1>1, <3>1
    <3>6. /\ next \in CallRecords /\ next.step = "apply" /\ next.todo = call[c].todo \ {r}
          /\ next.job = j /\ next.claim = call[c].claim
      <4> HIDE DEF sum
      <4> QED BY <1>1, <3>5 DEF CallRecords
    <3> HIDE DEF next
    <3> QED BY <3>1, <3>4, <3>5, <3>6
  <2>3. CASE RecordError(c)
    <3>1. PICK r \in call[c].todo :
            /\ IsNext(r, call[c].todo)
            /\ row' = [row EXCEPT ![j][r] = FailedRow(@)]
            /\ Goto(c, [call[c] EXCEPT !.step = "apply", !.todo = @ \ {r}, !.bad = @ + 1])
      BY <2>3 DEF RecordError
    <3> DEFINE x == FailedRow(row[j][r])
    <3>2. r \in RowNumbers /\ row[j][r] \in RowRecords
      BY <1>1, <3>1 DEF TypeOK, CallRecords
    <3>3. x \in RowRecords /\ row' = [row EXCEPT ![j][r] = x]
      BY <3>1, <3>2 DEF RowRecords, FailedRow
    <3>4. row' \in [Jobs -> [RowNumbers -> RowRecords]]
      <4> HIDE DEF x
      <4> QED BY <1>1, <3>2, <3>3, RowWritten DEF TypeOK
    <3> DEFINE sum == call[c].bad + 1
               next == [call[c] EXCEPT !.step = "apply", !.todo = @ \ {r}, !.bad = sum]
    <3>5. sum \in Nat /\ Goto(c, next)
      BY <1>1, <3>1
    <3>6. /\ next \in CallRecords /\ next.step = "apply" /\ next.todo = call[c].todo \ {r}
          /\ next.job = j /\ next.claim = call[c].claim
      <4> HIDE DEF sum
      <4> QED BY <1>1, <3>5 DEF CallRecords
    <3> HIDE DEF next
    <3> QED BY <3>1, <3>4, <3>5, <3>6
  <2> QED BY <2>1, <2>2, <2>3
<1>4. PICK next \in CallRecords :
        /\ next.job = j /\ next.claim = call[c].claim /\ Goto(c, next)
        /\ \/ next.step = "error" /\ next.todo = call[c].todo
           \/ /\ next.step = "apply"
              /\ \E r \in call[c].todo : IsNext(r, call[c].todo) /\ next.todo = call[c].todo \ {r}
  BY <1>3
<1>5. /\ call' \in [Calls -> CallRecords] /\ call'[c] = next
      /\ \A d \in Calls : d # c => call'[d] = call[d]
      /\ OnAJob' /\ OwnClaim'
  BY <1>1, <1>2, <1>4, StepOfCommit DEF Claimed
<1>6. TypeOK' /\ ReopenedAsOften' /\ AppliedByAClaim'
  BY <1>1, <1>2, <1>3, <1>5 DEF TypeOK, ReopenedAsOften, AppliedByAClaim, IInv
<1>7. Fresh'
  <2> SUFFICES ASSUME NEW d \in Calls, NEW q \in RowNumbers, call'[d].step \in Claimed,
                      call'[d].step = "read" \/ q \in call'[d].todo,
                      call'[d].step \in {"ref", "error"} => ~IsNext(q, call'[d].todo)
               PROVE  call'[d].claim \notin made'[call'[d].job][q]
    BY DEF Fresh
  <2>1. CASE d # c
    BY <1>2, <1>5, <2>1 DEF Fresh, IInv
  <2>2. CASE d = c
    <3>1. q \in call[c].todo /\ ~IsNext(q, call[c].todo)
      <4>1. CASE next.step = "error"
        BY <1>4, <1>5, <2>2, <4>1
      <4>2. CASE next.step = "apply"
        <5>1. PICK r \in call[c].todo : IsNext(r, call[c].todo) /\ next.todo = call[c].todo \ {r}
          BY <1>4, <4>2
        <5>2. q \in call[c].todo /\ q # r /\ r \in RowNumbers
          BY <1>1, <1>5, <2>2, <4>2, <5>1 DEF CallRecords
        <5> QED BY <5>1, <5>2 DEF IsNext, RowNumbers
      <4> QED BY <1>4, <4>1, <4>2
    <3> QED BY <1>1, <1>2, <1>4, <1>5, <2>2, <3>1 DEF Fresh, IInv, Claimed
  <2> QED BY <2>1, <2>2
<1> QED BY <1>5, <1>6, <1>7 DEF IInv

-----------------------------------------------------------------------------
\* Every step keeps the invariant.
LEMMA NextIInv == IInv /\ [Next]_vars => IInv'
<1> SUFFICES ASSUME IInv, [Next]_vars PROVE IInv'
    OBVIOUS
<1>1. CASE UNCHANGED vars
  BY <1>1 DEF vars, history, IInv, TypeOK, OnAJob, ReopenedAsOften, AppliedByAClaim, OwnClaim, Fresh
<1>2. ASSUME NEW c \in Calls, Upload(c) \/ Validate(c) \/ Commit(c) \/ Fail(c) PROVE IInv'
  <2>1. CASE Upload(c)
    BY <2>1, UploadIInv
  <2>2. CASE Validate(c)
    BY <2>2, ValidateIInv
  <2>3. CASE Commit(c) \/ Fail(c)
    <3> USE <2>3 DEF Commit
    <3>1. CASE BeginCommit(c) \/ RefuseClaim(c) \/ FinishCommit(c) \/ Fail(c)
      BY <3>1, OutsideClaimIInv
    <3>2. CASE Claim(c)
      BY <3>2, ClaimIInv
    <3>3. CASE ReadRows(c)
      BY <3>3, ReadRowsIInv
    <3>4. CASE Apply(c)
      BY <3>4, ApplyIInv
    <3>5. CASE RecordRef(c) \/ LoseRef(c) \/ RecordError(c)
      BY <3>5, RecordIInv
    <3> QED BY <3>1, <3>2, <3>3, <3>4, <3>5
  <2> QED BY <1>2, <2>1, <2>2, <2>3
<1> QED BY <1>1, <1>2 DEF Next

\* The inductive invariant holds in every state.
THEOREM ImportInvariant == Spec => []IInv
<1> QED BY InitIInv, NextIInv, PTL DEF Spec

\* Types, and the bound on how often a batch is claimed.
THEOREM ImportTypes == Spec => []TypeOK
<1>1. IInv => TypeOK
  BY DEF IInv
<1> QED BY <1>1, ImportInvariant, PTL

\* Nobody imports a row twice unless a validation reopened the batch, however many people
\* press Import and however many rows the file has.
THEOREM ImportedOnce == Spec => []OnlyALateCheckReopens
<1>1. ASSUME IInv PROVE OnlyALateCheckReopens
  <2>1. ASSUME NEW j \in Jobs, NEW r \in RowNumbers PROVE made[j][r] \subseteq 1 .. late[j] + 1
    <3>1. /\ made[j][r] \subseteq 1 .. claims[j] /\ claims[j] \in Nat /\ late[j] \in Nat
          /\ claims[j] <= late[j] + 1
      BY <1>1 DEF IInv, TypeOK, AppliedByAClaim
    <3> QED BY <3>1
  <2>2. \A c \in Calls, r \in RowNumbers :
           At(c, "apply") /\ r \in call[c].todo => call[c].claim \notin made[call[c].job][r]
    BY <1>1 DEF IInv, Fresh, Claimed, At
  <2> QED BY <2>1, <2>2 DEF OnlyALateCheckReopens
<1> QED BY <1>1, ImportInvariant, PTL
-----------------------------------------------------------------------------
(* Every row is accounted for.  A batch that no two requests disturbed goes *)
(* through its life in one order: it is staged, validated by one request at *)
(* a time, claimed once and applied by the request that claimed it.         *)

Wrong(j) == {r \in RowsOf(j) : row[j][r].error}
Right(j) == {r \in RowsOf(j) : row[j][r].ref}
CheckedWrong(j, todo) == {r \in RowsOf(j) \ todo : row[j][r].error}

\* Where a request is on a batch that is not disturbed tells the batch's status.
StatusFits(j) ==
    /\ claims[j] = (IF job[j].status = "COMMITTED" THEN 1 ELSE 0)
    /\ job[j].ended => job[j].status = "COMMITTED"
    /\ \A c \in Calls : call[c].job = j =>
           /\ At(c, "stage") => job[j].status = "UPLOADED"
           /\ At(c, "validate") => job[j].status \in {"UPLOADED", "VALIDATED"}
           /\ At(c, "claim") => job[j].status \in {"VALIDATED", "COMMITTED"}
           /\ call[c].step \in Claimed => job[j].status = "COMMITTED" /\ ~job[j].ended

\* Nobody else is at a batch that is being staged or validated.
WorkedAlone(j) ==
    \A c, d \in Calls :
        call[c].job = j /\ call[c].step \in {"stage", "validate"} /\ call[d].job = j => d = c

\* Before the claim nothing was created, and the count of errors is right between validations.
CheckCounts(j) ==
    /\ job[j].status # "COMMITTED" => \A r \in RowNumbers : ~row[j][r].ref
    /\ \A c \in Calls : call[c].job = j /\ At(c, "validate") =>
           /\ call[c].todo \subseteq RowsOf(j)
           /\ call[c].bad = Cardinality(CheckedWrong(j, call[c].todo))
    /\ job[j].status = "VALIDATED" /\ (\A c \in Calls : call[c].job = j => ~At(c, "validate"))
           => job[j].errors = Cardinality(Wrong(j))

\* What the row r of the batch says of itself.
Accounted(j, r) == row[j][r].ref # row[j][r].error /\ (row[j][r].ref <=> made[j][r] # {})
Pending(c, j, r) ==
    /\ ~row[j][r].ref /\ ~row[j][r].error
    /\ made[j][r] # {} <=> At(c, "ref") /\ IsNext(r, call[c].todo)

\* A commit counts what it did: the rows it is through with are accounted for, the others are
\* as the validation left them.
CommitCounts(j) ==
    \A c \in Calls : call[c].job = j =>
        /\ call[c].step \in {"claim", "read"} => call[c].good = 0 /\ call[c].bad = 0
        /\ At(c, "claim") /\ job[j].status = "VALIDATED" => call[c].seen = job[j].errors
        /\ At(c, "read") =>
               /\ call[c].seen = Cardinality(Wrong(j))
               /\ \A r \in RowNumbers : ~row[j][r].ref /\ made[j][r] = {}
        /\ call[c].step \in {"apply", "ref", "error"} =>
               /\ call[c].todo \subseteq RowsOf(j)
               /\ call[c].good = Cardinality(Right(j))
               /\ call[c].seen + call[c].bad = Cardinality(Wrong(j))
               /\ \A r \in RowsOf(j) : IF r \in call[c].todo THEN Pending(c, j, r) ELSE Accounted(j, r)

\* What is left when it has ended.
EndedAccounted(j) ==
    job[j].ended =>
        /\ \A r \in RowsOf(j) : Accounted(j, r)
        /\ job[j].committed = Cardinality(Right(j)) /\ job[j].errors = Cardinality(Wrong(j))

Orderly(j) ==
    StatusFits(j) /\ WorkedAlone(j) /\ CheckCounts(j) /\ CommitCounts(j) /\ EndedAccounted(j)

\* A request without a batch is at none.
AtNoJob == \A c \in Calls : call[c].step \in {"idle", "insert"} => call[c].job = None

AInv == IInv /\ AtNoJob /\ \A j \in Jobs : j \notin disturbed => Orderly(j)

\* A set of rows can be counted.
LEMMA RowsAreFinite ==
    ASSUME NEW S \in SUBSET RowNumbers
    PROVE  IsFiniteSet(S) /\ Cardinality(S) \in Nat
<1>1. IsFiniteSet(RowNumbers)
  BY ImportAssumption, FS_Interval DEF RowNumbers
<1>2. IsFiniteSet(S)
  BY <1>1, FS_Subset
<1> QED BY <1>2, FS_CardinalityType

\* One row more.
LEMMA OneRowMore ==
    ASSUME NEW S \in SUBSET RowNumbers, NEW r \in RowNumbers, r \notin S
    PROVE  Cardinality(S \union {r}) = Cardinality(S) + 1
BY RowsAreFinite, FS_AddElement

\* A step of one request changes its own entry.
LEMMA OwnEntry ==
    ASSUME TypeOK, NEW c \in Calls, NEW next, Goto(c, next)
    PROVE  call'[c] = next /\ \A d \in Calls : d # c => call'[d] = call[d]
<1>1. call \in [Calls -> CallRecords]
  BY DEF TypeOK
<1> HIDE DEF CallRecords
<1> QED BY <1>1 DEF Goto

\* A batch stays orderly while nothing of it changes; requests may leave it, but no validation.
LEMMA StaysOrderly ==
    ASSUME NEW j \in Jobs, Orderly(j),
           job'[j] = job[j], claims'[j] = claims[j], row'[j] = row[j], made'[j] = made[j],
           j \in staged' <=> j \in staged,
           \A d \in Calls : call'[d].job = j => call'[d] = call[d],
           \A d \in Calls : call[d].job = j /\ At(d, "validate") => call'[d] = call[d]
    PROVE  Orderly(j)'
<1>1. /\ RowsOf(j)' = RowsOf(j) /\ Wrong(j)' = Wrong(j) /\ Right(j)' = Right(j)
      /\ \A todo : CheckedWrong(j, todo)' = CheckedWrong(j, todo)
  BY DEF RowsOf, Wrong, Right, CheckedWrong
<1>2. StatusFits(j)'
  BY DEF Orderly, StatusFits, At
<1>3. WorkedAlone(j)'
  BY DEF Orderly, WorkedAlone
<1>4. CheckCounts(j)'
  <2>1. job'[j].status # "COMMITTED" => \A r \in RowNumbers : ~row'[j][r].ref
    BY DEF Orderly, CheckCounts
  <2>2. ASSUME NEW d \in Calls, call'[d].job = j, At(d, "validate")'
        PROVE  /\ call'[d].todo \subseteq RowsOf(j)'
               /\ call'[d].bad = Cardinality(CheckedWrong(j, call[d].todo)')
    BY <1>1, <2>2 DEF Orderly, CheckCounts, At
  <2>3. job'[j].status = "VALIDATED" /\ (\A d \in Calls : call'[d].job = j => ~At(d, "validate")')
            => job'[j].errors = Cardinality(Wrong(j)')
    BY <1>1 DEF Orderly, CheckCounts, At
  <2> QED BY <2>1, <2>2, <2>3 DEF CheckCounts, CheckedWrong
<1>5. CommitCounts(j)'
  <2> SUFFICES ASSUME NEW d \in Calls, call'[d].job = j
               PROVE  /\ call'[d].step \in {"claim", "read"} => call'[d].good = 0 /\ call'[d].bad = 0
                      /\ At(d, "claim")' /\ job'[j].status = "VALIDATED" => call'[d].seen = job'[j].errors
                      /\ At(d, "read")' =>
                             /\ call'[d].seen = Cardinality(Wrong(j)')
                             /\ \A r \in RowNumbers : ~row'[j][r].ref /\ made'[j][r] = {}
                      /\ call'[d].step \in {"apply", "ref", "error"} =>
                             /\ call'[d].todo \subseteq RowsOf(j)'
                             /\ call'[d].good = Cardinality(Right(j)')
                             /\ call'[d].seen + call'[d].bad = Cardinality(Wrong(j)')
                             /\ \A r \in RowsOf(j)' :
                                    IF r \in call'[d].todo THEN Pending(d, j, r)' ELSE Accounted(j, r)'
    BY DEF CommitCounts
  <2>1. \A r \in RowsOf(j) : Pending(d, j, r)' = Pending(d, j, r) /\ Accounted(j, r)' = Accounted(j, r)
    BY DEF Pending, Accounted, At
  <2> QED BY <1>1, <2>1 DEF Orderly, CommitCounts, At
<1>6. EndedAccounted(j)'
  BY <1>1 DEF Orderly, EndedAccounted, Accounted
<1> QED BY <1>2, <1>3, <1>4, <1>5, <1>6 DEF Orderly

\* A step of a request at batch j, or at none, leaves the other batches as they are.
LEMMA BatchByBatch ==
    ASSUME AInv, IInv', NEW c \in Calls, NEW next, NEW j, Goto(c, next),
           call[c].job \in {j, None}, next.job \in {j, None},
           next.step \in {"idle", "insert"} => next.job = None,
           disturbed \subseteq disturbed',
           \A i \in Jobs : i # j =>
               /\ job'[i] = job[i] /\ claims'[i] = claims[i] /\ row'[i] = row[i]
               /\ made'[i] = made[i] /\ (i \in staged' <=> i \in staged),
           j \in Jobs /\ j \notin disturbed' => Orderly(j)'
    PROVE  AInv'
<1>1. call'[c] = next /\ \A d \in Calls : d # c => call'[d] = call[d]
  BY OwnEntry DEF AInv, IInv
<1>2. AtNoJob'
  BY <1>1 DEF AInv, AtNoJob
<1>3. ASSUME NEW i \in Jobs, i # j, i \notin disturbed' PROVE Orderly(i)'
  <2>1. Orderly(i) /\ i # None
    BY <1>3, ImportAssumption DEF AInv
  <2>2. \A d \in Calls : call'[d].job = i \/ call[d].job = i => call'[d] = call[d]
    BY <1>1, <1>3, <2>1
  <2> QED BY <1>3, <2>1, <2>2, StaysOrderly
<1> QED BY <1>2, <1>3 DEF AInv

-----------------------------------------------------------------------------
\* After a step that leaves a batch to one request at most, which stages or validates it, the batch
\* is orderly when its status fits that request and nothing was created on it yet.
LEMMA NextAlone ==
    ASSUME NEW j \in Jobs,
           NEW c \in Calls, \A d \in Calls : call'[d].job = j => d = c,
           job'[j].status \in {"UPLOADED", "VALIDATED"}, ~job'[j].ended, claims'[j] = 0,
           \A r \in RowNumbers : ~row'[j][r].ref,
           call'[c].job = j =>
               \/ At(c, "stage")' /\ job'[j].status = "UPLOADED"
               \/ /\ At(c, "validate")'
                  /\ call'[c].todo \subseteq RowsOf(j)'
                  /\ call'[c].bad = Cardinality(CheckedWrong(j, call[c].todo)'),
           call'[c].job # j /\ job'[j].status = "VALIDATED" => job'[j].errors = Cardinality(Wrong(j)')
    PROVE  Orderly(j)'
<1>1. StatusFits(j)'
  BY DEF StatusFits, At, Claimed
<1>2. WorkedAlone(j)'
  BY DEF WorkedAlone
<1>3. CheckCounts(j)'
  BY DEF CheckCounts, At
<1>4. CommitCounts(j)'
  BY DEF CommitCounts, At
<1>5. EndedAccounted(j)'
  BY DEF EndedAccounted
<1> QED BY <1>1, <1>2, <1>3, <1>4, <1>5 DEF Orderly

\* The steps of an upload.
LEMMA UploadAInv == ASSUME AInv, NEW c \in Calls, Upload(c) PROVE AInv'
<1>0. IInv' /\ TypeOK /\ TypeOK' /\ AtNoJob
  BY UploadIInv DEF AInv, IInv
<1>1. CASE CheckFile(c)
  <2> DEFINE next == [Idle EXCEPT !.step = "insert"]
  <2>1. /\ next.step = "insert" /\ next.job = None /\ call[c].job = None /\ Goto(c, next)
        /\ UNCHANGED <<job, staged, row, made, history>>
    BY <1>0, <1>1 DEF CheckFile, Idle, AtNoJob, At
  <2> HIDE DEF next
  <2>2. None \notin Jobs /\ UNCHANGED <<claims, disturbed>>
    BY <2>1, ImportAssumption DEF history
  <2> QED BY <1>0, <2>1, <2>2, BatchByBatch
<1>2. CASE InsertJob(c)
  <2>1. PICK j \in Jobs :
          /\ job[j].status = "NONE"
          /\ job' = [job EXCEPT ![j] = [NoJob EXCEPT !.status = "UPLOADED"]]
          /\ Goto(c, [call[c] EXCEPT !.step = "stage", !.job = j])
    BY <1>2 DEF InsertJob
  <2> DEFINE next == [call[c] EXCEPT !.step = "stage", !.job = j]
  <2>2. /\ next.step = "stage" /\ next.job = j /\ Goto(c, next)
        /\ call[c].job = None /\ call[c].step = "insert"
        /\ UNCHANGED <<staged, row, made, claims, disturbed>>
    BY <1>0, <1>2, <2>1 DEF InsertJob, At, AtNoJob, history, TypeOK, CallRecords
  <2> HIDE DEF next
  <2>3. /\ call'[c] = next /\ \A d \in Calls : d # c => call'[d] = call[d]
    BY <1>0, <2>2, OwnEntry
  <2>4. /\ job'[j].status = "UPLOADED" /\ ~job'[j].ended
        /\ \A i \in Jobs : i # j => job'[i] = job[i]
    BY <1>0, <2>1 DEF TypeOK, NoJob
  <2>5. ASSUME j \notin disturbed' PROVE Orderly(j)'
    <3>1. Orderly(j)
      BY <2>2, <2>5 DEF AInv
    <3>2. claims[j] = 0 /\ \A r \in RowNumbers : ~row[j][r].ref
      BY <2>1, <3>1 DEF Orderly, StatusFits, CheckCounts
    <3>3. \A d \in Calls : call[d].job # j
      <4> SUFFICES ASSUME NEW d \in Calls, call[d].job = j PROVE FALSE
        OBVIOUS
      <4>1. call[d].step \notin {"idle", "insert"} /\ call[d].step \in
               {"idle", "insert", "stage", "validate", "claim", "read", "apply", "ref", "error"}
        BY <1>0, ImportAssumption DEF AtNoJob, TypeOK, CallRecords
      <4> QED BY <2>1, <3>1, <4>1 DEF Orderly, StatusFits, At, Claimed
    <3>4. \A d \in Calls : call'[d].job = j => d = c
      BY <2>3, <3>3
    <3>5. At(c, "stage")'
      BY <2>2, <2>3 DEF At
    <3>6. claims'[j] = 0 /\ \A r \in RowNumbers : ~row'[j][r].ref
      BY <2>2, <3>2
    <3>7. call'[c].job = j
      BY <2>2, <2>3
    <3> QED BY <1>0, <2>4, <2>5, <3>4, <3>5, <3>6, <3>7, NextAlone
  <2> QED BY <1>0, <2>2, <2>4, <2>5, BatchByBatch
<1>3. CASE InsertRows(c)
  <2> DEFINE j == call[c].job
  <2>1. /\ Goto(c, Idle) /\ staged' = staged \union {j} /\ At(c, "stage")
        /\ UNCHANGED <<job, row, made, claims, disturbed>>
    BY <1>3 DEF InsertRows, history
  <2>2. j \in Jobs
    BY <2>1 DEF AInv, IInv, OnAJob, At
  <2>3. /\ call'[c] = Idle /\ \A d \in Calls : d # c => call'[d] = call[d]
    BY <1>0, <2>1, OwnEntry
  <2>4. Idle.job = None /\ j # None
    BY <2>2, ImportAssumption DEF Idle
  <2>5. PICK k \in Jobs : k = j
    BY <2>2
  <2> HIDE DEF j
  <2>6. ASSUME k \notin disturbed' PROVE Orderly(k)'
    <3>1. Orderly(k)
      BY <2>1, <2>5, <2>6 DEF AInv
    <3>2. \A d \in Calls : call[d].job = k => d = c
      BY <2>1, <2>5, <3>1 DEF Orderly, WorkedAlone, At, j
    <3>3. \A d \in Calls : call'[d].job # k
      BY <2>3, <2>4, <2>5, <3>2
    <3>4. job[k].status = "UPLOADED"
      BY <2>1, <2>5, <3>1 DEF Orderly, StatusFits, j
    <3>5. claims[k] = 0 /\ (\A r \in RowNumbers : ~row[k][r].ref) /\ ~job[k].ended
      BY <3>1, <3>4 DEF Orderly, StatusFits, CheckCounts
    <3>6. claims'[k] = 0 /\ (\A r \in RowNumbers : ~row'[k][r].ref) /\ job'[k].status = "UPLOADED"
          /\ ~job'[k].ended
      BY <2>1, <3>4, <3>5
    <3>7. \A d \in Calls : call'[d].job = k => d = c
      BY <3>3
    <3> QED BY <1>0, <2>6, <3>3, <3>6, <3>7, NextAlone
  <2>7. call[c].job \in {k, None} /\ \A i \in Jobs : i # k => (i \in staged' <=> i \in staged)
    BY <2>1, <2>5 DEF j
  <2> QED BY <1>0, <2>1, <2>4, <2>6, <2>7, BatchByBatch
<1> QED BY <1>1, <1>2, <1>3 DEF Upload

\* Before its claim nothing has been created on a batch, and its validation is the only request.
LEMMA BeforeTheClaim ==
    ASSUME NEW j \in Jobs, Orderly(j), job[j].status \in {"UPLOADED", "VALIDATED"}
    PROVE  claims[j] = 0 /\ ~job[j].ended /\ \A r \in RowNumbers : ~row[j][r].ref
BY DEF Orderly, StatusFits, CheckCounts

LEMMA ValidatesAlone ==
    ASSUME NEW j \in Jobs, Orderly(j), NEW c \in Calls, call[c].job = j, At(c, "validate")
    PROVE  /\ \A d \in Calls : call[d].job = j => d = c
           /\ job[j].status \in {"UPLOADED", "VALIDATED"}
           /\ call[c].todo \subseteq RowsOf(j)
           /\ call[c].bad = Cardinality(CheckedWrong(j, call[c].todo))
BY DEF Orderly, WorkedAlone, StatusFits, CheckCounts, At

LEMMA BeginValidateAInv == ASSUME AInv, NEW c \in Calls, BeginValidate(c) PROVE AInv'
<1>0. IInv' /\ TypeOK /\ AtNoJob
  BY ValidateIInv DEF AInv, IInv, Validate
<1>1. PICK j \in Jobs, m \in Mappings :
        /\ At(c, "idle") /\ job[j].status \in {"UPLOADED", "VALIDATED"}
        /\ Goto(c, [Idle EXCEPT !.step = "validate", !.job = j, !.todo = RowsOf(j),
                                !.readable = Readable[m]])
        /\ disturbed' = IF InFlightOn(j) = {} THEN disturbed ELSE disturbed \union {j}
        /\ UNCHANGED <<job, staged, row, made, claims, late>>
  BY DEF BeginValidate
<1> DEFINE next == [Idle EXCEPT !.step = "validate", !.job = j, !.todo = RowsOf(j),
                                !.readable = Readable[m]]
<1>2. /\ next.step = "validate" /\ next.job = j /\ next.todo = RowsOf(j) /\ next.bad = 0
      /\ Goto(c, next) /\ call[c].job = None /\ disturbed \subseteq disturbed'
  BY <1>0, <1>1 DEF Idle, AtNoJob, At
<1> HIDE DEF next
<1>3. call'[c] = next /\ \A d \in Calls : d # c => call'[d] = call[d]
  BY <1>0, <1>2, OwnEntry
<1>4. ASSUME j \notin disturbed' PROVE Orderly(j)'
  <2>1. Orderly(j) /\ InFlightOn(j) = {}
    BY <1>1, <1>2, <1>4 DEF AInv
  <2>2. claims[j] = 0 /\ ~job[j].ended /\ \A r \in RowNumbers : ~row[j][r].ref
    BY <1>1, <2>1, BeforeTheClaim
  <2>3. \A d \in Calls : call'[d].job = j => d = c
    BY <1>3, <2>1 DEF InFlightOn
  <2>4. RowsOf(j)' = RowsOf(j) /\ CheckedWrong(j, call[c].todo)' = {}
    BY <1>1, <1>2, <1>3 DEF RowsOf, CheckedWrong
  <2>5. Cardinality(CheckedWrong(j, call[c].todo)') = 0
    BY <2>4, FS_EmptySet
  <2>6. At(c, "validate")' /\ call'[c].job = j
    BY <1>2, <1>3 DEF At
  <2> QED BY <1>1, <1>2, <1>3, <2>2, <2>3, <2>4, <2>5, <2>6, NextAlone
<1> QED BY <1>0, <1>1, <1>2, <1>4, BatchByBatch

\* One row is checked, and counted if it is wrong.
LEMMA ValidateRowAInv == ASSUME AInv, NEW c \in Calls, ValidateRow(c) PROVE AInv'
<1>0. IInv' /\ TypeOK /\ AtNoJob /\ call[c] \in CallRecords
  BY ValidateIInv DEF AInv, IInv, Validate, TypeOK
<1>1. PICK j \in Jobs, r \in call[c].todo :
        /\ j = call[c].job
        /\ row' = [row EXCEPT ![j][r] = [parsed |-> (r \in call[c].readable),
                                         error |-> ~(r \in call[c].readable), ref |-> @.ref]]
        /\ Goto(c, [call[c] EXCEPT !.todo = @ \ {r},
                                   !.bad = IF r \in call[c].readable THEN @ ELSE @ + 1])
        /\ At(c, "validate") /\ UNCHANGED <<job, staged, made, history>>
  BY DEF ValidateRow, AInv, IInv, OnAJob, At
<1> DEFINE todo == call[c].todo \ {r}
           bad == IF r \in call[c].readable THEN call[c].bad ELSE call[c].bad + 1
           next == [call[c] EXCEPT !.todo = @ \ {r},
                                   !.bad = IF r \in call[c].readable THEN @ ELSE @ + 1]
<1>2. /\ next.step = "validate" /\ next.job = j /\ next.todo = todo /\ next.bad = bad
      /\ Goto(c, next) /\ r \in RowNumbers /\ UNCHANGED <<claims, disturbed>>
  BY <1>0, <1>1 DEF At, CallRecords, history
<1> HIDE DEF next
<1>3. call'[c] = next /\ \A d \in Calls : d # c => call'[d] = call[d]
  BY <1>0, <1>2, OwnEntry
<1>4. /\ row'[j][r].error = (r \notin call[c].readable) /\ row'[j][r].ref = row[j][r].ref
      /\ \A q \in RowNumbers : q # r => row'[j][q] = row[j][q]
      /\ \A i \in Jobs : i # j => row'[i] = row[i]
  BY <1>0, <1>1, <1>2 DEF TypeOK
<1>5. ASSUME j \notin disturbed' PROVE Orderly(j)'
  <2>1. Orderly(j)
    BY <1>2, <1>5 DEF AInv
  <2>2. /\ \A d \in Calls : call[d].job = j => d = c
        /\ job[j].status \in {"UPLOADED", "VALIDATED"}
        /\ call[c].todo \subseteq RowsOf(j)
        /\ call[c].bad = Cardinality(CheckedWrong(j, call[c].todo))
    BY <1>1, <2>1, ValidatesAlone
  <2>3. claims[j] = 0 /\ ~job[j].ended /\ \A q \in RowNumbers : ~row[j][q].ref
    BY <2>1, <2>2, BeforeTheClaim
  <2>4. RowsOf(j)' = RowsOf(j) /\ RowsOf(j) \subseteq RowNumbers
    BY <1>1 DEF RowsOf
  <2> DEFINE S == CheckedWrong(j, call[c].todo)
  <2>5. S \in SUBSET RowNumbers /\ r \notin S
    BY <1>1, <2>4 DEF CheckedWrong
  <2>6. CheckedWrong(j, call[c].todo)' = IF r \in call[c].readable THEN S ELSE S \union {r}
    <3>1. ASSUME NEW q \in RowNumbers
          PROVE  q \in CheckedWrong(j, call[c].todo)' <=>
                     q \in S \/ (q = r /\ r \notin call[c].readable)
      <4>1. q \in CheckedWrong(j, call[c].todo)' <=>
                q \in RowsOf(j) /\ q \notin todo /\ row'[j][q].error
        BY <1>2, <1>3, <2>4 DEF CheckedWrong
      <4>2. q \in S <=> q \in RowsOf(j) /\ q \notin call[c].todo /\ row[j][q].error
        BY DEF CheckedWrong
      <4> QED BY <1>1, <1>4, <2>2, <4>1, <4>2
    <3>2. CheckedWrong(j, call[c].todo)' \subseteq RowNumbers
      BY <2>4 DEF CheckedWrong
    <3> HIDE DEF S
    <3> QED BY <1>2, <2>5, <3>1, <3>2
  <2>7. bad = Cardinality(CheckedWrong(j, call[c].todo)')
    <3> HIDE DEF S
    <3>1. Cardinality(S \union {r}) = Cardinality(S) + 1
      BY <1>2, <2>5, OneRowMore
    <3> QED BY <2>2, <2>6, <3>1 DEF S
  <2>8. \A q \in RowNumbers : ~row'[j][q].ref
    BY <1>4, <2>3
  <2>9. \A d \in Calls : call'[d].job = j => d = c
    BY <1>3, <2>2
  <2>10. At(c, "validate")' /\ call'[c].job = j /\ call'[c].todo \subseteq RowsOf(j)'
         /\ call'[c].bad = Cardinality(CheckedWrong(j, call[c].todo)')
    BY <1>2, <1>3, <2>2, <2>4, <2>7 DEF At
  <2>11. /\ job'[j].status \in {"UPLOADED", "VALIDATED"} /\ ~job'[j].ended /\ claims'[j] = 0
    BY <1>1, <1>2, <2>2, <2>3
  <2> QED BY <2>8, <2>9, <2>10, <2>11, NextAlone
<1> QED BY <1>0, <1>1, <1>2, <1>4, <1>5, BatchByBatch

\* The count a validation ends with is the number of the wrong rows.
LEMMA FinishValidateAInv == ASSUME AInv, NEW c \in Calls, FinishValidate(c) PROVE AInv'
<1>0. IInv' /\ TypeOK /\ AtNoJob
  BY ValidateIInv DEF AInv, IInv, Validate
<1>1. PICK j \in Jobs :
        /\ j = call[c].job /\ At(c, "validate") /\ call[c].todo = {}
        /\ job' = [job EXCEPT ![j] = [@ EXCEPT !.status = "VALIDATED", !.errors = call[c].bad]]
        /\ Goto(c, Idle)
        /\ UNCHANGED <<staged, row, made, claims, disturbed>>
  BY DEF FinishValidate, AInv, IInv, OnAJob, At
<1>2. Idle.step = "idle" /\ Idle.job = None /\ None \notin Jobs
  BY ImportAssumption DEF Idle
<1>3. call'[c] = Idle /\ \A d \in Calls : d # c => call'[d] = call[d]
  BY <1>0, <1>1, OwnEntry
<1>4. /\ job'[j].status = "VALIDATED" /\ job'[j].errors = call[c].bad
      /\ job'[j].ended = job[j].ended /\ \A i \in Jobs : i # j => job'[i] = job[i]
  BY <1>0, <1>1 DEF TypeOK, JobRecords
<1>5. ASSUME j \notin disturbed' PROVE Orderly(j)'
  <2>1. Orderly(j)
    BY <1>1, <1>5 DEF AInv
  <2>2. /\ \A d \in Calls : call[d].job = j => d = c
        /\ job[j].status \in {"UPLOADED", "VALIDATED"}
        /\ call[c].bad = Cardinality(CheckedWrong(j, call[c].todo))
    BY <1>1, <2>1, ValidatesAlone
  <2>3. claims[j] = 0 /\ ~job[j].ended /\ \A r \in RowNumbers : ~row[j][r].ref
    BY <2>1, <2>2, BeforeTheClaim
  <2>4. CheckedWrong(j, call[c].todo) = Wrong(j)'
    BY <1>1 DEF CheckedWrong, Wrong, RowsOf
  <2>5. job'[j].errors = Cardinality(Wrong(j)')
    BY <1>4, <2>2, <2>4
  <2>6. (\A d \in Calls : call'[d].job = j => d = c) /\ call'[c].job # j
    BY <1>2, <1>3, <2>2
  <2> QED BY <1>1, <1>4, <2>3, <2>5, <2>6, NextAlone
<1> QED BY <1>0, <1>1, <1>2, <1>4, <1>5, BatchByBatch

-----------------------------------------------------------------------------
\* A commit that begins has read the count of a validation that is over.
LEMMA BeginCommitAInv == ASSUME AInv, NEW c \in Calls, BeginCommit(c) PROVE AInv'
<1>0. IInv' /\ TypeOK /\ AtNoJob
  BY OutsideClaimIInv DEF AInv, IInv
<1>1. PICK j \in Jobs :
        /\ At(c, "idle") /\ job[j].status = "VALIDATED"
        /\ Goto(c, [Idle EXCEPT !.step = "claim", !.job = j, !.seen = job[j].errors])
        /\ disturbed' = IF \E o \in InFlightOn(j) : At(o, "validate")
                        THEN disturbed \union {j} ELSE disturbed
        /\ UNCHANGED <<job, staged, row, made, checks, claims, late>>
  BY DEF BeginCommit
<1> DEFINE next == [Idle EXCEPT !.step = "claim", !.job = j, !.seen = job[j].errors]
<1>2. /\ next.step = "claim" /\ next.job = j /\ next.seen = job[j].errors
      /\ next.good = 0 /\ next.bad = 0
      /\ Goto(c, next) /\ call[c].job = None /\ disturbed \subseteq disturbed'
  BY <1>0, <1>1 DEF Idle, AtNoJob, At
<1> HIDE DEF next
<1>3. call'[c] = next /\ \A d \in Calls : d # c => call'[d] = call[d]
  BY <1>0, <1>2, OwnEntry
<1>4. ASSUME j \notin disturbed' PROVE Orderly(j)'
  <2>1. Orderly(j) /\ \A d \in Calls : call[d].job = j => ~At(d, "validate")
    BY <1>1, <1>2, <1>4 DEF AInv, InFlightOn
  <2>2. \A d \in Calls : call[d].job = j =>
            ~At(d, "stage") /\ ~At(d, "validate") /\ call[d].step \notin Claimed
    BY <1>1, <2>1 DEF Orderly, StatusFits
  <2>3. \A d \in Calls : call'[d].job = j =>
            d = c \/ (call'[d] = call[d] /\ call[d].job = j)
    BY <1>3
  <2>4. /\ RowsOf(j)' = RowsOf(j) /\ Wrong(j)' = Wrong(j)
    BY <1>1 DEF RowsOf, Wrong
  <2>5. StatusFits(j)'
    BY <1>1, <1>2, <1>3, <2>1, <2>3 DEF Orderly, StatusFits, At, Claimed
  <2>6. WorkedAlone(j)'
    BY <1>2, <1>3, <2>2, <2>3 DEF WorkedAlone, At
  <2>7. CheckCounts(j)'
    <3>1. job[j].errors = Cardinality(Wrong(j))
      BY <1>1, <2>1 DEF Orderly, CheckCounts
    <3>2. \A d \in Calls : call'[d].job = j => ~At(d, "validate")'
      BY <1>2, <1>3, <2>2, <2>3 DEF At
    <3>3. \A r \in RowNumbers : ~row'[j][r].ref
      BY <1>1, <2>1 DEF Orderly, CheckCounts
    <3> QED BY <1>1, <2>4, <3>1, <3>2, <3>3 DEF CheckCounts
  <2>8. CommitCounts(j)'
    <3>1. \A d \in Calls : call'[d].job = j =>
              /\ call'[d].step \notin Claimed
              /\ At(d, "claim")' => /\ call'[d].good = 0 /\ call'[d].bad = 0
                                    /\ call'[d].seen = job'[j].errors
      BY <1>1, <1>2, <1>3, <2>1, <2>2, <2>3 DEF Orderly, CommitCounts, At, Claimed
    <3> QED BY <3>1 DEF CommitCounts, Claimed, At
  <2>9. EndedAccounted(j)'
    BY <1>1, <2>1 DEF Orderly, StatusFits, EndedAccounted
  <2> QED BY <2>5, <2>6, <2>7, <2>8, <2>9 DEF Orderly
<1> QED BY <1>0, <1>1, <1>2, <1>4, BatchByBatch

\* The claim finds nothing created yet, and the count of errors to be the number of wrong rows.
LEMMA ClaimAInv == ASSUME AInv, NEW c \in Calls, Claim(c) PROVE AInv'
<1>0. IInv' /\ TypeOK /\ AtNoJob /\ call[c] \in CallRecords
  BY ClaimIInv DEF AInv, IInv, TypeOK
<1>1. PICK j \in Jobs :
        /\ j = call[c].job /\ At(c, "claim") /\ job[j].status = "VALIDATED"
        /\ job' = [job EXCEPT ![j].status = "COMMITTED"]
        /\ claims' = [claims EXCEPT ![j] = @ + 1]
        /\ Goto(c, [call[c] EXCEPT !.step = "read", !.claim = claims[j] + 1])
        /\ UNCHANGED <<staged, row, made, checks, late, disturbed>>
  BY DEF Claim, Unclaimed, AInv, IInv, OnAJob, At
<1> DEFINE next == [call[c] EXCEPT !.step = "read", !.claim = claims[j] + 1]
<1>2. /\ next.step = "read" /\ next.job = j /\ next.seen = call[c].seen
      /\ next.good = call[c].good /\ next.bad = call[c].bad /\ Goto(c, next)
  BY <1>0, <1>1 DEF CallRecords
<1> HIDE DEF next
<1>3. call'[c] = next /\ \A d \in Calls : d # c => call'[d] = call[d]
  BY <1>0, <1>2, OwnEntry
<1>4. /\ job'[j].status = "COMMITTED" /\ job'[j].errors = job[j].errors /\ job'[j].ended = job[j].ended
      /\ claims'[j] = claims[j] + 1
      /\ \A i \in Jobs : i # j => job'[i] = job[i] /\ claims'[i] = claims[i]
  BY <1>0, <1>1 DEF TypeOK, JobRecords
<1>5. ASSUME j \notin disturbed' PROVE Orderly(j)'
  <2>1. Orderly(j)
    BY <1>1, <1>5 DEF AInv
  <2>2. claims[j] = 0 /\ ~job[j].ended /\ \A r \in RowNumbers : ~row[j][r].ref
    BY <1>1, <2>1, BeforeTheClaim
  <2>3. \A d \in Calls : call[d].job = j =>
            ~At(d, "stage") /\ ~At(d, "validate") /\ call[d].step \notin Claimed
    <3>1. \A d \in Calls : call[d].job = j => ~At(d, "stage") /\ call[d].step \notin Claimed
      BY <1>1, <2>1 DEF Orderly, StatusFits
    <3>2. \A d \in Calls : call[d].job = j /\ At(d, "validate") => d = c
      BY <1>1, <2>1 DEF Orderly, WorkedAlone, At
    <3> QED BY <1>1, <3>1, <3>2 DEF At
  <2>4. \A d \in Calls : call'[d].job = j =>
            d = c \/ (call'[d] = call[d] /\ call[d].job = j)
    BY <1>3
  <2>5. RowsOf(j)' = RowsOf(j) /\ Wrong(j)' = Wrong(j)
    BY <1>1 DEF RowsOf, Wrong
  <2>6. StatusFits(j)'
    BY <1>2, <1>3, <1>4, <2>2, <2>3, <2>4 DEF StatusFits, At, Claimed
  <2>7. WorkedAlone(j)'
    BY <1>2, <1>3, <2>3, <2>4 DEF WorkedAlone, At
  <2>8. CheckCounts(j)'
    <3>1. \A d \in Calls : call'[d].job = j => ~At(d, "validate")'
      BY <1>2, <1>3, <2>3, <2>4 DEF At
    <3> QED BY <1>4, <3>1 DEF CheckCounts
  <2>9. call[c].seen = Cardinality(Wrong(j)) /\ call[c].good = 0 /\ call[c].bad = 0
    <3>1. job[j].errors = Cardinality(Wrong(j))
      BY <1>1, <2>1, <2>3 DEF Orderly, CheckCounts
    <3>2. call[c].seen = job[j].errors /\ call[c].good = 0 /\ call[c].bad = 0
      BY <1>1, <2>1 DEF Orderly, CommitCounts, At
    <3> QED BY <3>1, <3>2
  <2>10. \A r \in RowNumbers : made[j][r] = {}
    <3>1. \A r \in RowNumbers : made[j][r] \subseteq 1 .. 0
      BY <2>2 DEF AInv, IInv, AppliedByAClaim
    <3> QED BY <3>1
  <2>11. CommitCounts(j)'
    <3>1. /\ call'[c].step = "read" /\ call'[c].seen = Cardinality(Wrong(j)')
          /\ call'[c].good = 0 /\ call'[c].bad = 0
          /\ \A r \in RowNumbers : ~row'[j][r].ref /\ made'[j][r] = {}
      BY <1>1, <1>2, <1>3, <2>2, <2>5, <2>9, <2>10
    <3>2. \A d \in Calls : call'[d].job = j /\ d # c =>
              /\ call'[d].step \notin Claimed
              /\ call'[d].step = "claim" => call'[d].good = 0 /\ call'[d].bad = 0
      BY <2>1, <2>3, <2>4 DEF Orderly, CommitCounts
    <3> QED BY <1>4, <3>1, <3>2 DEF CommitCounts, Claimed, At
  <2>12. EndedAccounted(j)'
    BY <1>4, <2>2 DEF EndedAccounted
  <2> QED BY <2>6, <2>7, <2>8, <2>11, <2>12 DEF Orderly
<1> QED BY <1>0, <1>1, <1>2, <1>4, <1>5, BatchByBatch

\* A request that is refused or dies leaves the batch, disturbed if it was at work there.
LEMMA LeaveAInv == ASSUME AInv, NEW c \in Calls, RefuseClaim(c) \/ Fail(c) PROVE AInv'
<1>0. IInv' /\ TypeOK /\ AtNoJob
  BY OutsideClaimIInv DEF AInv, IInv
<1> DEFINE j == call[c].job
<1>1. /\ Goto(c, Idle) /\ disturbed \subseteq disturbed'
      /\ UNCHANGED <<job, staged, row, made, claims>>
  BY DEF RefuseClaim, Fail, history
<1>2. Idle.step = "idle" /\ Idle.job = None /\ None \notin Jobs
  BY ImportAssumption DEF Idle
<1>3. call'[c] = Idle /\ \A d \in Calls : d # c => call'[d] = call[d]
  BY <1>0, <1>1, OwnEntry
<1>4. PICK k : k = j
  OBVIOUS
<1>5. ASSUME k \in Jobs, k \notin disturbed' PROVE Orderly(k)'
  <2>1. Orderly(k)
    BY <1>1, <1>5 DEF AInv
  <2>2. CASE RefuseClaim(c)
    <3>1. At(c, "claim")
      BY <2>2 DEF RefuseClaim
    <3>2. \A d \in Calls : call'[d].job = k => call'[d] = call[d]
      BY <1>2, <1>3, <1>5
    <3>3. \A d \in Calls : call[d].job = k /\ At(d, "validate") => call'[d] = call[d]
      BY <1>3, <3>1 DEF At
    <3> QED BY <1>1, <1>5, <2>1, <3>2, <3>3, StaysOrderly
  <2>3. CASE Fail(c)
    <3>1. At(c, "insert")
      BY <1>4, <1>5, <2>3 DEF Fail
    <3> QED BY <1>0, <1>2, <1>4, <1>5, <3>1 DEF AtNoJob, At
  <2> QED BY <2>2, <2>3
<1>6. call[c].job \in {k, None} /\ Idle.job \in {k, None}
  BY <1>2, <1>4
<1> HIDE DEF j
<1> QED BY <1>0, <1>1, <1>2, <1>5, <1>6, BatchByBatch

\* Beside a commit that has claimed an undisturbed batch there are only requests too late to.
LEMMA BesideACommit ==
    ASSUME AInv, NEW c \in Calls, NEW j \in Jobs, j = call[c].job, j \notin disturbed,
           call[c].step \in Claimed
    PROVE  /\ Orderly(j) /\ job[j].status = "COMMITTED" /\ ~job[j].ended /\ claims[j] = 1
           /\ \A d \in Calls : call[d].job = j /\ d # c =>
                  call[d].step = "claim" /\ call[d].good = 0 /\ call[d].bad = 0
<1>1. Orderly(j) /\ job[j].status = "COMMITTED" /\ ~job[j].ended /\ claims[j] = 1
  BY DEF AInv, Orderly, StatusFits
<1>2. ASSUME NEW d \in Calls, call[d].job = j, d # c PROVE call[d].step = "claim"
  <2>1. call[d].step \in {"idle", "insert", "stage", "validate", "claim", "read", "apply", "ref", "error"}
    BY DEF AInv, IInv, TypeOK, CallRecords
  <2>2. call[d].step \notin {"idle", "insert"}
    BY <1>2, ImportAssumption DEF AInv, AtNoJob
  <2>3. call[d].step \notin {"stage", "validate"}
    BY <1>1, <1>2 DEF Orderly, WorkedAlone
  <2>4. call[d].step \notin Claimed
    <3> SUFFICES ASSUME call[d].step \in Claimed PROVE FALSE
      OBVIOUS
    <3>1. call[c].claim \in 1 .. 1 /\ call[d].claim \in 1 .. 1
      BY <1>1, <1>2 DEF AInv, IInv, OwnClaim
    <3>2. call[c].claim # call[d].claim
      BY <1>2 DEF AInv, IInv, OwnClaim
    <3> QED BY <3>1, <3>2
  <2> QED BY <2>1, <2>2, <2>3, <2>4 DEF Claimed
<1> QED BY <1>1, <1>2 DEF Orderly, CommitCounts

\* A commit that goes on keeps its batch orderly when its counts fit the rows.
LEMMA CommitGoesOn ==
    ASSUME AInv, NEW c \in Calls, NEW j \in Jobs, j = call[c].job, j \notin disturbed,
           call[c].step \in Claimed, NEW next, Goto(c, next), UNCHANGED <<job, claims, staged>>,
           next.step \in {"apply", "ref", "error"}, next.job = j,
           next.todo \subseteq RowsOf(j), next.good = Cardinality(Right(j)'),
           next.seen + next.bad = Cardinality(Wrong(j)'),
           \A r \in RowsOf(j) : IF r \in next.todo THEN Pending(c, j, r)' ELSE Accounted(j, r)'
    PROVE  Orderly(j)'
<1>1. /\ Orderly(j) /\ job[j].status = "COMMITTED" /\ ~job[j].ended /\ claims[j] = 1
      /\ \A d \in Calls : call[d].job = j /\ d # c =>
             call[d].step = "claim" /\ call[d].good = 0 /\ call[d].bad = 0
  BY BesideACommit
<1>2. call'[c] = next /\ \A d \in Calls : d # c => call'[d] = call[d]
  BY OwnEntry DEF AInv, IInv
<1>3. \A d \in Calls : call'[d].job = j /\ d # c =>
          call'[d].step = "claim" /\ call'[d].good = 0 /\ call'[d].bad = 0
  BY <1>1, <1>2
<1>4. job'[j].status = "COMMITTED" /\ ~job'[j].ended /\ claims'[j] = 1 /\ RowsOf(j)' = RowsOf(j)
  BY <1>1 DEF RowsOf
<1>5. StatusFits(j)'
  BY <1>2, <1>3, <1>4 DEF StatusFits, At, Claimed
<1>6. WorkedAlone(j)'
  BY <1>2, <1>3 DEF WorkedAlone
<1>7. CheckCounts(j)'
  BY <1>2, <1>3, <1>4 DEF CheckCounts, At
<1>8. CommitCounts(j)'
  <2>1. ASSUME NEW d \in Calls, call'[d].job = j
        PROVE  /\ call'[d].step \in {"claim", "read"} => call'[d].good = 0 /\ call'[d].bad = 0
               /\ call'[d].step # "read"
               /\ call'[d].step \in {"apply", "ref", "error"} =>
                      /\ call'[d].todo \subseteq RowsOf(j)'
                      /\ call'[d].good = Cardinality(Right(j)')
                      /\ call'[d].seen + call'[d].bad = Cardinality(Wrong(j)')
                      /\ \A r \in RowsOf(j)' :
                             IF r \in call'[d].todo THEN Pending(d, j, r)' ELSE Accounted(j, r)'
    <3>1. CASE d = c
      BY <1>2, <1>4, <3>1 DEF Pending, At
    <3>2. CASE d # c
      BY <1>3, <2>1, <3>2
    <3> QED BY <3>1, <3>2
  <2> QED BY <1>4, <2>1 DEF CommitCounts, At
<1>9. EndedAccounted(j)'
  BY <1>4 DEF EndedAccounted
<1> QED BY <1>5, <1>6, <1>7, <1>8, <1>9 DEF Orderly

\* Where a commit is that applies rows.
LEMMA ApplyingCounts ==
    ASSUME NEW j \in Jobs, Orderly(j), NEW c \in Calls, call[c].job = j,
           call[c].step \in {"apply", "ref", "error"}
    PROVE  /\ call[c].todo \subseteq RowsOf(j) /\ RowsOf(j) \in SUBSET RowNumbers
           /\ call[c].good = Cardinality(Right(j))
           /\ call[c].seen + call[c].bad = Cardinality(Wrong(j))
           /\ \A r \in RowsOf(j) : IF r \in call[c].todo THEN Pending(c, j, r) ELSE Accounted(j, r)
BY DEF Orderly, CommitCounts, RowsOf

\* The rows that are read are those without an error, and nothing was created for any.
LEMMA ReadRowsAInv == ASSUME AInv, NEW c \in Calls, ReadRows(c) PROVE AInv'
<1>0. IInv' /\ TypeOK /\ call[c] \in CallRecords
  BY ReadRowsIInv DEF AInv, IInv, TypeOK
<1>1. PICK j \in Jobs :
        /\ j = call[c].job /\ call[c].step = "read"
        /\ LET found == {r \in RowsOf(j) : ~row[j][r].error}
           IN  Goto(c, [call[c] EXCEPT !.step = "apply", !.todo = found,
                                       !.readable = {r \in found : row[j][r].parsed}])
        /\ UNCHANGED <<job, staged, row, made, claims, disturbed>>
  BY DEF ReadRows, AInv, IInv, OnAJob, At, history
<1> DEFINE todo == {r \in RowsOf(j) : ~row[j][r].error}
           next == [call[c] EXCEPT !.step = "apply", !.todo = todo,
                                   !.readable = {r \in todo : row[j][r].parsed}]
<1>2. /\ next.step = "apply" /\ next.job = j /\ next.todo = todo /\ next.good = call[c].good
      /\ next.seen = call[c].seen /\ next.bad = call[c].bad /\ Goto(c, next)
  BY <1>0, <1>1 DEF CallRecords
<1> HIDE DEF next
<1>3. ASSUME j \notin disturbed' PROVE Orderly(j)'
  <2>1. Orderly(j) /\ j \notin disturbed
    BY <1>1, <1>3 DEF AInv
  <2>2. /\ call[c].good = 0 /\ call[c].bad = 0 /\ call[c].seen = Cardinality(Wrong(j))
        /\ \A r \in RowNumbers : ~row[j][r].ref /\ made[j][r] = {}
    BY <1>1, <2>1 DEF Orderly, CommitCounts, At
  <2>3. RowsOf(j) \in SUBSET RowNumbers /\ Wrong(j)' = Wrong(j) /\ Wrong(j) \in SUBSET RowNumbers
    BY <1>1 DEF RowsOf, Wrong
  <2>4. Right(j)' = {}
    BY <1>1, <2>2, <2>3 DEF Right, RowsOf
  <2>5. next.good = Cardinality(Right(j)') /\ next.seen + next.bad = Cardinality(Wrong(j)')
    <3>1. Cardinality(Wrong(j)) \in Nat
      BY <2>3, RowsAreFinite
    <3> QED BY <1>2, <2>2, <2>3, <2>4, <3>1, FS_EmptySet
  <2>6. call'[c] = next
    BY <1>0, <1>2, OwnEntry
  <2>7. ASSUME NEW r \in RowsOf(j)
        PROVE  IF r \in next.todo THEN Pending(c, j, r)' ELSE Accounted(j, r)'
    <3>1. ~row'[j][r].ref /\ made'[j][r] = {} /\ row'[j][r].error = row[j][r].error
      BY <1>1, <2>2, <2>3
    <3>2. ~At(c, "ref")'
      BY <1>2, <2>6 DEF At
    <3>3. row[j][r].error \in BOOLEAN /\ row'[j][r].ref = FALSE
      BY <1>0, <1>1, <2>2, <2>3 DEF TypeOK, RowRecords
    <3> QED BY <1>2, <3>1, <3>2, <3>3 DEF Pending, Accounted
  <2>8. next.todo \subseteq RowsOf(j)
    BY <1>2
  <2>9. call[c].step \in Claimed /\ UNCHANGED <<job, claims, staged>> /\ next.step = "apply"
    BY <1>1, <1>2 DEF Claimed
  <2> HIDE DEF todo
  <2> QED BY <1>1, <1>2, <2>1, <2>5, <2>7, <2>8, <2>9, CommitGoesOn
<1>4. next.step \notin {"idle", "insert"} /\ call[c].job \in {j, None} /\ next.job \in {j, None}
      /\ disturbed \subseteq disturbed'
  BY <1>1, <1>2
<1> HIDE DEF todo
<1> QED BY <1>0, <1>1, <1>2, <1>3, <1>4, BatchByBatch

\* The row a commit is at is applied, or it is not.
LEMMA ApplyAInv == ASSUME AInv, NEW c \in Calls, Apply(c) PROVE AInv'
<1>0. IInv' /\ TypeOK /\ call[c] \in CallRecords
  BY ApplyIInv DEF AInv, IInv, TypeOK
<1>1. PICK j \in Jobs, r \in call[c].todo :
        /\ j = call[c].job /\ call[c].step = "apply" /\ IsNext(r, call[c].todo)
        /\ IF Accepts(call[c], r)
           THEN /\ made' = [made EXCEPT ![j][r] = @ \union {call[c].claim}]
                /\ Goto(c, [call[c] EXCEPT !.step = "ref"])
           ELSE Goto(c, [call[c] EXCEPT !.step = "error"]) /\ UNCHANGED made
        /\ UNCHANGED <<job, staged, row, claims, disturbed>>
  BY DEF Apply, AInv, IInv, OnAJob, At, history
<1>2. PICK next \in CallRecords :
        /\ next.step \in {"ref", "error"} /\ next.job = j /\ next.todo = call[c].todo
        /\ next.good = call[c].good /\ next.seen = call[c].seen /\ next.bad = call[c].bad
        /\ Goto(c, next)
        /\ next.step = "error" => UNCHANGED made
        /\ next.step = "ref" => made' = [made EXCEPT ![j][r] = @ \union {call[c].claim}]
  BY <1>0, <1>1 DEF CallRecords
<1>3. /\ \A i \in Jobs : i # j => made'[i] = made[i]
      /\ \A q \in RowNumbers : q # r => made'[j][q] = made[j][q]
      /\ next.step = "ref" => made'[j][r] # {}
      /\ next.step = "error" => made'[j][r] = made[j][r]
      /\ r \in RowNumbers
  <2>1. made \in [Jobs -> [RowNumbers -> SUBSET (Nat \ {0})]] /\ r \in RowNumbers
    BY <1>0, <1>1, Zenon DEF TypeOK, CallRecords
  <2> DEFINE x == made[j][r] \union {call[c].claim}
             S == SUBSET (Nat \ {0})
  <2>2. x # {} /\ (next.step = "ref" => made' = [made EXCEPT ![j][r] = x])
    BY <1>2
  <2> HIDE DEF x, S
  <2>3. made \in [Jobs -> [RowNumbers -> S]]
    BY <2>1, Zenon DEF S
  <2> QED BY <1>2, <2>1, <2>2, <2>3
<1>4. ASSUME j \notin disturbed' PROVE Orderly(j)'
  <2>1. Orderly(j) /\ j \notin disturbed
    BY <1>1, <1>4 DEF AInv
  <2>2. /\ call[c].todo \subseteq RowsOf(j) /\ RowsOf(j) \in SUBSET RowNumbers
        /\ call[c].good = Cardinality(Right(j))
        /\ call[c].seen + call[c].bad = Cardinality(Wrong(j))
        /\ \A q \in RowsOf(j) : IF q \in call[c].todo THEN Pending(c, j, q) ELSE Accounted(j, q)
    BY <1>1, <2>1, ApplyingCounts
  <2>3. Wrong(j)' = Wrong(j) /\ Right(j)' = Right(j)
    BY <1>1 DEF Wrong, Right, RowsOf
  <2>4. call'[c] = next
    BY <1>0, <1>2, OwnEntry
  <2>5. ASSUME NEW q \in RowsOf(j)
        PROVE  IF q \in next.todo THEN Pending(c, j, q)' ELSE Accounted(j, q)'
    <3>1. CASE q \in next.todo
      <4>1. ~row'[j][q].ref /\ ~row'[j][q].error /\ made[j][q] = {}
        BY <1>1, <1>2, <2>2, <3>1 DEF Pending, At
      <4>2. IsNext(q, next.todo) <=> q = r
        BY <1>1, <1>2, <1>3, <2>2, <3>1 DEF IsNext, RowNumbers
      <4>3. made'[j][q] # {} <=> next.step = "ref" /\ q = r
        BY <1>2, <1>3, <2>2, <4>1
      <4> QED BY <2>4, <3>1, <4>1, <4>2, <4>3 DEF Pending, At
    <3>2. CASE q \notin next.todo
      <4>1. q # r /\ Accounted(j, q) /\ q \in RowNumbers
        BY <1>1, <1>2, <2>2, <3>2
      <4> QED BY <1>1, <1>3, <3>2, <4>1 DEF Accounted
    <3> QED BY <3>1, <3>2
  <2>6. call[c].step \in Claimed /\ next.step \in {"apply", "ref", "error"}
        /\ UNCHANGED <<job, claims, staged>> /\ next.todo \subseteq RowsOf(j)
        /\ next.good = Cardinality(Right(j)') /\ next.seen + next.bad = Cardinality(Wrong(j)')
    BY <1>1, <1>2, <2>2, <2>3 DEF Claimed
  <2> QED BY <1>1, <1>2, <2>1, <2>5, <2>6, CommitGoesOn
<1>5. next.step \notin {"idle", "insert"} /\ call[c].job \in {j, None} /\ next.job \in {j, None}
      /\ disturbed \subseteq disturbed'
  BY <1>1, <1>2
<1> QED BY <1>0, <1>1, <1>2, <1>3, <1>4, <1>5, BatchByBatch

\* One row is next.
LEMMA OneIsNext ==
    ASSUME NEW S \in SUBSET RowNumbers, NEW r \in S, NEW q \in S, IsNext(r, S), IsNext(q, S)
    PROVE  q = r
BY DEF IsNext, RowNumbers

\* A row that was applied and recorded is one of the right ones; one that was refused and recorded
\* is one of the wrong ones.
LEMMA RecordAInv ==
    ASSUME AInv, NEW c \in Calls, RecordRef(c) \/ RecordError(c)
    PROVE  AInv'
<1>0. IInv' /\ TypeOK /\ call[c] \in CallRecords
  BY RecordIInv DEF AInv, IInv, TypeOK
<1>1. PICK j \in Jobs, r \in call[c].todo :
        /\ j = call[c].job /\ IsNext(r, call[c].todo)
        /\ \/ /\ call[c].step = "ref"
              /\ row' = [row EXCEPT ![j][r].ref = TRUE]
              /\ Goto(c, [call[c] EXCEPT !.step = "apply", !.todo = @ \ {r}, !.good = @ + 1])
           \/ /\ call[c].step = "error"
              /\ row' = [row EXCEPT ![j][r] = FailedRow(@)]
              /\ Goto(c, [call[c] EXCEPT !.step = "apply", !.todo = @ \ {r}, !.bad = @ + 1])
        /\ UNCHANGED <<job, staged, made, claims, disturbed>>
  BY DEF RecordRef, RecordError, AInv, IInv, OnAJob, At, history
<1>2. r \in RowNumbers /\ row[j][r] \in RowRecords /\ row \in [Jobs -> [RowNumbers -> RowRecords]]
  BY <1>0, <1>1 DEF TypeOK, CallRecords
<1>3. PICK next :
        /\ next.step = "apply" /\ next.job = j /\ next.todo = call[c].todo \ {r}
        /\ next.seen = call[c].seen /\ Goto(c, next)
        /\ next.good = (IF call[c].step = "ref" THEN call[c].good + 1 ELSE call[c].good)
        /\ next.bad = (IF call[c].step = "ref" THEN call[c].bad ELSE call[c].bad + 1)
  <2>1. CASE call[c].step = "ref"
    <3> DEFINE next == [call[c] EXCEPT !.step = "apply", !.todo = @ \ {r}, !.good = @ + 1]
    <3>1. /\ next.step = "apply" /\ next.job = j /\ next.todo = call[c].todo \ {r}
          /\ next.seen = call[c].seen /\ Goto(c, next)
          /\ next.good = call[c].good + 1 /\ next.bad = call[c].bad
      BY <1>0, <1>1, <2>1 DEF CallRecords
    <3> HIDE DEF next
    <3> QED BY <2>1, <3>1
  <2>2. CASE call[c].step = "error"
    <3> DEFINE next == [call[c] EXCEPT !.step = "apply", !.todo = @ \ {r}, !.bad = @ + 1]
    <3>1. /\ next.step = "apply" /\ next.job = j /\ next.todo = call[c].todo \ {r}
          /\ next.seen = call[c].seen /\ Goto(c, next)
          /\ next.good = call[c].good /\ next.bad = call[c].bad + 1
      BY <1>0, <1>1, <2>2 DEF CallRecords
    <3> HIDE DEF next
    <3> QED BY <2>2, <3>1
  <2> QED BY <1>1, <2>1, <2>2
<1>4. /\ \A i \in Jobs : i # j => row'[i] = row[i]
      /\ \A q \in RowNumbers : q # r => row'[j][q] = row[j][q]
      /\ row'[j][r].ref = (call[c].step = "ref" \/ row[j][r].ref)
      /\ row'[j][r].error = (call[c].step = "error" \/ row[j][r].error)
  <2>1. PICK x \in RowRecords :
          /\ row' = [row EXCEPT ![j][r] = x]
          /\ x.ref = (call[c].step = "ref" \/ row[j][r].ref)
          /\ x.error = (call[c].step = "error" \/ row[j][r].error)
    <3>1. CASE call[c].step = "ref"
      <4> DEFINE x == [row[j][r] EXCEPT !.ref = TRUE]
      <4>1. x \in RowRecords /\ x.ref = TRUE /\ x.error = row[j][r].error /\ row' = [row EXCEPT ![j][r] = x]
        BY <1>1, <1>2, <3>1 DEF RowRecords
      <4>2. row[j][r].error \in BOOLEAN
        BY <1>2 DEF RowRecords
      <4> HIDE DEF x
      <4> QED BY <3>1, <4>1, <4>2
    <3>2. CASE call[c].step = "error"
      <4> DEFINE x == FailedRow(row[j][r])
      <4>1. x \in RowRecords /\ x.error = TRUE /\ x.ref = row[j][r].ref /\ row' = [row EXCEPT ![j][r] = x]
        BY <1>1, <1>2, <3>2 DEF RowRecords, FailedRow
      <4>2. row[j][r].ref \in BOOLEAN
        BY <1>2 DEF RowRecords
      <4> HIDE DEF x
      <4> QED BY <3>2, <4>1, <4>2
    <3> QED BY <1>1, <3>1, <3>2
  <2> QED BY <1>2, <2>1
<1>5. ASSUME j \notin disturbed' PROVE Orderly(j)'
  <2>1. Orderly(j) /\ j \notin disturbed
    BY <1>1, <1>5 DEF AInv
  <2>2. /\ call[c].todo \subseteq RowsOf(j) /\ RowsOf(j) \in SUBSET RowNumbers
        /\ call[c].good = Cardinality(Right(j))
        /\ call[c].seen + call[c].bad = Cardinality(Wrong(j))
        /\ \A q \in RowsOf(j) : IF q \in call[c].todo THEN Pending(c, j, q) ELSE Accounted(j, q)
    BY <1>1, <2>1, ApplyingCounts
  <2>3. /\ ~row[j][r].ref /\ ~row[j][r].error /\ r \in RowsOf(j)
        /\ (made[j][r] # {} <=> call[c].step = "ref")
    BY <1>1, <2>2 DEF Pending, At
  <2>4. RowsOf(j)' = RowsOf(j) /\ call'[c] = next
    BY <1>0, <1>1, <1>3, OwnEntry DEF RowsOf
  <2>5. /\ Right(j) \in SUBSET RowNumbers /\ Wrong(j) \in SUBSET RowNumbers
        /\ r \notin Right(j) /\ r \notin Wrong(j)
    BY <2>2, <2>3 DEF Right, Wrong
  <2>6. /\ Cardinality(Right(j) \union {r}) = Cardinality(Right(j)) + 1
        /\ Cardinality(Wrong(j) \union {r}) = Cardinality(Wrong(j)) + 1
        /\ Cardinality(Right(j)) \in Nat /\ Cardinality(Wrong(j)) \in Nat
    BY <1>2, <2>5, OneRowMore, RowsAreFinite
  <2>7. /\ Right(j)' = (IF call[c].step = "ref" THEN Right(j) \union {r} ELSE Right(j))
        /\ Wrong(j)' = (IF call[c].step = "ref" THEN Wrong(j) ELSE Wrong(j) \union {r})
    <3>1. ASSUME NEW q \in RowsOf(j)
          PROVE  /\ row'[j][q].ref <=> row[j][q].ref \/ (q = r /\ call[c].step = "ref")
                 /\ row'[j][q].error <=> row[j][q].error \/ (q = r /\ call[c].step # "ref")
      <4>1. call[c].step \in {"ref", "error"}
        BY <1>1
      <4> QED BY <1>4, <2>2, <2>3, <4>1
    <3> QED BY <2>3, <2>4, <3>1 DEF Right, Wrong
  <2>8. next.good = Cardinality(Right(j)') /\ next.seen + next.bad = Cardinality(Wrong(j)')
    <3>1. call[c].seen \in Nat /\ call[c].bad \in Nat
      BY <1>0 DEF CallRecords
    <3>2. CASE call[c].step = "ref"
      BY <1>3, <2>2, <2>6, <2>7, <3>2
    <3>3. CASE call[c].step # "ref"
      BY <1>3, <2>2, <2>6, <2>7, <3>1, <3>3
    <3> QED BY <3>2, <3>3
  <2>9. ASSUME NEW q \in RowsOf(j)
        PROVE  IF q \in next.todo THEN Pending(c, j, q)' ELSE Accounted(j, q)'
    <3>1. CASE q = r
      <4>1. /\ row'[j][r].ref = (call[c].step = "ref") /\ row'[j][r].error = (call[c].step = "error")
            /\ (made'[j][r] # {} <=> call[c].step = "ref") /\ call[c].step \in {"ref", "error"}
        BY <1>1, <1>4, <2>3
      <4>2. Accounted(j, r)'
        BY <4>1 DEF Accounted
      <4> QED BY <1>3, <3>1, <4>2
    <3>2. CASE q # r
      <4>1. row'[j][q] = row[j][q] /\ made'[j][q] = made[j][q]
        BY <1>1, <1>4, <2>2, <3>2
      <4>2. CASE q \in call[c].todo
        <5>1. call[c].todo \in SUBSET RowNumbers /\ q \in call[c].todo /\ r \in call[c].todo
          BY <1>1, <2>2, <4>2
        <5>2. ~IsNext(q, call[c].todo)
          BY <1>1, <3>2, <5>1, OneIsNext
        <5>3. ~At(c, "ref")'
          BY <1>3, <2>4 DEF At
        <5> QED BY <1>3, <2>2, <3>2, <4>1, <4>2, <5>2, <5>3 DEF Pending
      <4>3. CASE q \notin call[c].todo
        BY <1>3, <2>2, <4>1, <4>3 DEF Accounted
      <4> QED BY <4>2, <4>3
    <3> QED BY <3>1, <3>2
  <2>10. call[c].step \in Claimed /\ next.step \in {"apply", "ref", "error"}
         /\ UNCHANGED <<job, claims, staged>> /\ next.todo \subseteq RowsOf(j)
    BY <1>1, <1>3, <2>2 DEF Claimed
  <2> QED BY <1>1, <1>3, <2>1, <2>8, <2>9, <2>10, CommitGoesOn
<1>6. next.step \notin {"idle", "insert"} /\ call[c].job \in {j, None} /\ next.job \in {j, None}
      /\ disturbed \subseteq disturbed'
  BY <1>1, <1>3
<1> QED BY <1>0, <1>1, <1>3, <1>4, <1>5, <1>6, BatchByBatch

\* A reference that is lost disturbs its batch.
LEMMA LoseRefAInv == ASSUME AInv, NEW c \in Calls, LoseRef(c) PROVE AInv'
<1>0. IInv' /\ call[c] \in CallRecords
  BY RecordIInv DEF AInv, IInv, TypeOK
<1>1. PICK j \in Jobs :
        /\ j = call[c].job /\ Goto(c, [call[c] EXCEPT !.step = "error"])
        /\ disturbed' = disturbed \union {j}
        /\ UNCHANGED <<job, staged, row, made, checks, claims, late>>
  BY DEF LoseRef, AInv, IInv, OnAJob, At
<1> DEFINE next == [call[c] EXCEPT !.step = "error"]
<1>2. next.step \notin {"idle", "insert"} /\ next.job = j /\ Goto(c, next)
  BY <1>0, <1>1 DEF CallRecords
<1> HIDE DEF next
<1> QED BY <1>0, <1>1, <1>2, BatchByBatch

\* When a commit has no row left to do, what it counted is what the rows say.
LEMMA FinishCommitAInv == ASSUME AInv, NEW c \in Calls, FinishCommit(c) PROVE AInv'
<1>0. IInv' /\ TypeOK
  BY OutsideClaimIInv DEF AInv, IInv
<1>1. PICK j \in Jobs :
        /\ j = call[c].job /\ call[c].step = "apply" /\ call[c].todo = {}
        /\ job' = [job EXCEPT ![j] = [@ EXCEPT !.committed = call[c].good,
                                               !.errors = call[c].seen + call[c].bad, !.ended = TRUE]]
        /\ Goto(c, Idle)
        /\ UNCHANGED <<staged, row, made, claims, disturbed>>
  BY DEF FinishCommit, AInv, IInv, OnAJob, At, history
<1>2. Idle.step = "idle" /\ Idle.job = None /\ None \notin Jobs
  BY ImportAssumption DEF Idle
<1>3. call'[c] = Idle /\ \A d \in Calls : d # c => call'[d] = call[d]
  BY <1>0, <1>1, OwnEntry
<1>4. /\ job'[j].status = job[j].status /\ job'[j].committed = call[c].good
      /\ job'[j].errors = call[c].seen + call[c].bad /\ \A i \in Jobs : i # j => job'[i] = job[i]
  BY <1>0, <1>1 DEF TypeOK, JobRecords
<1>5. ASSUME j \notin disturbed' PROVE Orderly(j)'
  <2>1. j \notin disturbed /\ call[c].step \in Claimed
    BY <1>1, <1>5 DEF Claimed
  <2>2. /\ Orderly(j) /\ job[j].status = "COMMITTED" /\ claims[j] = 1
        /\ \A d \in Calls : call[d].job = j /\ d # c =>
               call[d].step = "claim" /\ call[d].good = 0 /\ call[d].bad = 0
    BY <1>1, <2>1, BesideACommit
  <2>3. \A d \in Calls : call'[d].job = j =>
            call'[d].step = "claim" /\ call'[d].good = 0 /\ call'[d].bad = 0
    BY <1>2, <1>3, <2>2
  <2>4. StatusFits(j)'
    BY <1>1, <1>4, <2>2, <2>3 DEF StatusFits, At, Claimed
  <2>5. WorkedAlone(j)' /\ CheckCounts(j)'
    BY <1>4, <2>2, <2>3 DEF WorkedAlone, CheckCounts, At
  <2>6. CommitCounts(j)'
    BY <1>4, <2>2, <2>3 DEF CommitCounts, At
  <2>7. EndedAccounted(j)'
    <3>1. /\ call[c].good = Cardinality(Right(j))
          /\ call[c].seen + call[c].bad = Cardinality(Wrong(j))
          /\ \A r \in RowsOf(j) : IF r \in call[c].todo THEN Pending(c, j, r) ELSE Accounted(j, r)
      BY <1>1, <2>2, ApplyingCounts
    <3>2. \A r \in RowsOf(j) : Accounted(j, r)
      BY <1>1, <3>1
    <3>3. RowsOf(j)' = RowsOf(j) /\ Right(j)' = Right(j) /\ Wrong(j)' = Wrong(j)
      BY <1>1 DEF RowsOf, Right, Wrong
    <3>4. \A r \in RowsOf(j) : Accounted(j, r)'
      BY <1>1, <3>2 DEF Accounted
    <3> QED BY <1>4, <3>1, <3>3, <3>4 DEF EndedAccounted
  <2> QED BY <2>4, <2>5, <2>6, <2>7 DEF Orderly
<1> QED BY <1>0, <1>1, <1>2, <1>4, <1>5, BatchByBatch

-----------------------------------------------------------------------------
LEMMA InitAInv == Init => AInv
<1> SUFFICES ASSUME Init PROVE AInv
  OBVIOUS
<1>1. IInv
  BY InitIInv
<1>2. AtNoJob /\ \A c \in Calls : call[c].job = None
  BY DEF Init, AtNoJob, Idle
<1>3. ASSUME NEW j \in Jobs PROVE Orderly(j)
  <2>1. /\ claims[j] = 0 /\ job[j].status = "NONE" /\ ~job[j].ended
        /\ \A r \in RowNumbers : ~row[j][r].ref
    BY DEF Init, NoJob, NewRow
  <2>2. \A c \in Calls : call[c].job # j
    BY <1>2, ImportAssumption
  <2> QED BY <2>1, <2>2 DEF Orderly, StatusFits, WorkedAlone, CheckCounts, CommitCounts, EndedAccounted
<1> QED BY <1>1, <1>2, <1>3 DEF AInv

LEMMA NextAInv == AInv /\ [Next]_vars => AInv'
<1> SUFFICES ASSUME AInv, [Next]_vars PROVE AInv'
  OBVIOUS
<1>1. CASE UNCHANGED vars
  <2>1. IInv'
    BY <1>1, NextIInv DEF AInv
  <2>2. AtNoJob' /\ disturbed' = disturbed
    BY <1>1 DEF AInv, AtNoJob, vars, history
  <2>3. ASSUME NEW j \in Jobs, j \notin disturbed PROVE Orderly(j)'
    BY <1>1, <2>3, StaysOrderly DEF AInv, vars, history
  <2> QED BY <2>1, <2>2, <2>3 DEF AInv
<1>2. ASSUME NEW c \in Calls, Upload(c) \/ Validate(c) PROVE AInv'
  BY <1>2, UploadAInv, BeginValidateAInv, ValidateRowAInv, FinishValidateAInv DEF Validate
<1>3. ASSUME NEW c \in Calls, Commit(c) \/ Fail(c) PROVE AInv'
  BY <1>3, BeginCommitAInv, ClaimAInv, LeaveAInv, ReadRowsAInv, ApplyAInv, RecordAInv, LoseRefAInv,
     FinishCommitAInv DEF Commit
<1> QED BY <1>1, <1>2, <1>3 DEF Next

\* Nothing of a file is lost without a word, however many rows it has and whoever else works on
\* it: when the commit of a batch that nobody disturbed has ended, every row names what it created
\* or what is wrong with it, and the counts shown are the numbers of each (validateImport,
\* commitImport).
THEOREM RowsAccountedFor == Spec => []EveryRowAccounted
<1>1. AInv => EveryRowAccounted
  BY DEF AInv, Orderly, EndedAccounted, Accounted, Right, Wrong, EveryRowAccounted
<1> QED BY <1>1, InitAInv, NextAInv, PTL DEF Spec
=============================================================================
