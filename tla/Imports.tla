------------------------------ MODULE Imports -------------------------------
(***************************************************************************)
(* The importer (import.service.ts): a file is uploaded and staged, checked *)
(* against a column mapping as often as it takes, and committed row by row  *)
(* through the services of manual entry.                                    *)
(*                                                                          *)
(* Nothing here runs in one transaction: every statement is a step of its   *)
(* own, and several people may work on the same batch.  All the batches of  *)
(* the model are uploads of one file, since batches of different files      *)
(* never meet.                                                              *)
(***************************************************************************)
EXTENDS Integers, FiniteSets

CONSTANTS
    Jobs,           \* import_job rows, the uploads of the file
    NumRows,        \* rows of the file below its heading
    Mappings,       \* column mappings somebody may choose
    Readable,       \* the rows each mapping makes sense of
    Refused,        \* rows a service refuses: an unknown product, a second match
    Unique,         \* rows the shop takes once: an IMEI, a phone number, a SKU
    Calls,          \* requests that can be in flight at the same time
    MaxChecks,      \* bound: validations of a batch
    None

RowNumbers == 1 .. NumRows

ASSUME ImportAssumption ==
    /\ NumRows \in Nat /\ MaxChecks \in Nat
    /\ Readable \in [Mappings -> SUBSET RowNumbers]
    /\ Refused \subseteq RowNumbers /\ Unique \subseteq RowNumbers
    /\ None \notin Jobs

VARIABLES
    job,            \* import_job: its status and its counts
    staged,         \* the batches whose import_row rows exist
    row,            \* import_row: parsed, error and applied_ref_id
    made,           \* the claims of a batch that have applied a row
    call,           \* where each request is
    checks,         \* validations begun, per batch
    claims,         \* commits that claimed the batch
    late,           \* history: validations that ended on a batch already claimed
    disturbed       \* history: the batches on which a validation met another request,
                    \* or a request died

history == <<checks, claims, late, disturbed>>
vars == <<job, staged, row, made, call, history>>

-----------------------------------------------------------------------------
NoJob == [status |-> "NONE", errors |-> 0, committed |-> 0, ended |-> FALSE]
RowRecords == [parsed : BOOLEAN, error : BOOLEAN, ref : BOOLEAN]
NewRow == [parsed |-> FALSE, error |-> FALSE, ref |-> FALSE]

\* What a request remembers between two statements: the rows it has still to do, those its
\* mapping makes sense of or it read as parsed, the count of errors it read, what it has counted itself and which claim of the batch it is.
Idle == [step |-> "idle", job |-> None, todo |-> {}, readable |-> {}, seen |-> 0,
         good |-> 0, bad |-> 0, claim |-> 0]

Init ==
    /\ job = [j \in Jobs |-> NoJob]
    /\ staged = {}
    /\ row = [j \in Jobs |-> [r \in RowNumbers |-> NewRow]]
    /\ made = [j \in Jobs |-> [r \in RowNumbers |-> {}]]
    /\ call = [c \in Calls |-> Idle]
    /\ checks = [j \in Jobs |-> 0]
    /\ claims = [j \in Jobs |-> 0]
    /\ late = [j \in Jobs |-> 0]
    /\ disturbed = {}

Goto(c, next) == call' = [call EXCEPT ![c] = next]

At(c, step) == call[c].step = step

InFlightOn(j) == {c \in Calls : call[c].job = j}

\* The rows are worked through in the order of their numbers.
IsNext(r, todo) == r \in todo /\ \A q \in todo : r <= q

-----------------------------------------------------------------------------
(* createImportJob.                                                        *)

\* "The same file uploaded twice": only a batch that is COMMITTED counts.
CheckFile(c) ==
    /\ At(c, "idle")
    /\ \A j \in Jobs : job[j].status # "COMMITTED"
    /\ Goto(c, [Idle EXCEPT !.step = "insert"])
    /\ UNCHANGED <<job, staged, row, made, history>>

InsertJob(c) ==
    /\ At(c, "insert")
    /\ \E j \in Jobs :
           /\ job[j].status = "NONE"
           /\ job' = [job EXCEPT ![j] = [NoJob EXCEPT !.status = "UPLOADED"]]
           /\ Goto(c, [call[c] EXCEPT !.step = "stage", !.job = j])
    /\ UNCHANGED <<staged, row, made, history>>

InsertRows(c) ==
    /\ At(c, "stage")
    /\ staged' = staged \union {call[c].job}
    /\ Goto(c, Idle)
    /\ UNCHANGED <<job, row, made, history>>

RowsOf(j) == IF j \in staged THEN RowNumbers ELSE {}

-----------------------------------------------------------------------------
(* validateImport.                                                         *)

\* The status is read once, and never looked at again.
BeginValidate(c) ==
    \E j \in Jobs, m \in Mappings :
        /\ At(c, "idle")
        /\ job[j].status \in {"UPLOADED", "VALIDATED"}
        /\ checks[j] < MaxChecks
        /\ Goto(c, [Idle EXCEPT !.step = "validate", !.job = j, !.todo = RowsOf(j),
                                !.readable = Readable[m]])
        /\ checks' = [checks EXCEPT ![j] = @ + 1]
        /\ disturbed' = IF InFlightOn(j) = {} THEN disturbed ELSE disturbed \union {j}
        /\ UNCHANGED <<job, staged, row, made, claims, late>>

\* One UPDATE a row.  It leaves what the row has created alone.
ValidateRow(c) ==
    LET t == call[c] IN
    /\ At(c, "validate")
    /\ \E r \in t.todo :
           LET ok == r \in t.readable IN
           /\ IsNext(r, t.todo)
           /\ row' = [row EXCEPT ![t.job][r] = [parsed |-> ok, error |-> ~ok, ref |-> @.ref]]
           /\ Goto(c, [t EXCEPT !.todo = @ \ {r}, !.bad = IF ok THEN @ ELSE @ + 1])
    /\ UNCHANGED <<job, staged, made, history>>

\* The last UPDATE sets the status whatever has become of the batch in the meantime.
FinishValidate(c) ==
    LET t == call[c] IN
    /\ At(c, "validate")
    /\ t.todo = {}
    /\ job' = [job EXCEPT ![t.job] = [@ EXCEPT !.status = "VALIDATED", !.errors = t.bad]]
    /\ late' = IF job[t.job].status = "COMMITTED" THEN [late EXCEPT ![t.job] = @ + 1] ELSE late
    /\ Goto(c, Idle)
    /\ UNCHANGED <<staged, row, made, checks, claims, disturbed>>

-----------------------------------------------------------------------------
(* commitImport.                                                           *)

BeginCommit(c) ==
    \E j \in Jobs :
        /\ At(c, "idle")
        /\ job[j].status = "VALIDATED"
        /\ Goto(c, [Idle EXCEPT !.step = "claim", !.job = j, !.seen = job[j].errors])
        /\ disturbed' = IF \E o \in InFlightOn(j) : At(o, "validate")
                        THEN disturbed \union {j} ELSE disturbed
        /\ UNCHANGED <<job, staged, row, made, checks, claims, late>>

\* Mutant of Unclaimed: the UPDATE is not conditional.
AlwaysUnclaimed(j) == TRUE

\* "The UPDATE is conditional on the job still being VALIDATED."
Unclaimed(j) == job[j].status = "VALIDATED"

Claim(c) ==
    LET t == call[c] IN
    /\ At(c, "claim")
    /\ Unclaimed(t.job)
    /\ job' = [job EXCEPT ![t.job].status = "COMMITTED"]
    /\ claims' = [claims EXCEPT ![t.job] = @ + 1]
    /\ Goto(c, [t EXCEPT !.step = "read", !.claim = claims[t.job] + 1])
    /\ UNCHANGED <<staged, row, made, checks, late, disturbed>>

\* "That batch is already being imported."
RefuseClaim(c) ==
    /\ At(c, "claim")
    /\ ~Unclaimed(call[c].job)
    /\ Goto(c, Idle)
    /\ UNCHANGED <<job, staged, row, made, history>>

\* The rows without an error, with what was made of them; whether a row has been applied
\* before is not asked, and no row is read again.
ReadRows(c) ==
    LET t == call[c]
        found == {r \in RowsOf(t.job) : ~row[t.job][r].error}
    IN
    /\ At(c, "read")
    /\ Goto(c, [t EXCEPT !.step = "apply", !.todo = found,
                         !.readable = {r \in found : row[t.job][r].parsed}])
    /\ UNCHANGED <<job, staged, row, made, history>>

\* The service behind applyRow takes the row as it was read, in a transaction of its own.
Accepts(t, r) ==
    /\ r \in t.readable
    /\ r \notin Refused
    /\ r \in Unique => \A i \in Jobs : made[i][r] = {}

Apply(c) ==
    LET t == call[c] IN
    /\ At(c, "apply")
    /\ \E r \in t.todo :
           /\ IsNext(r, t.todo)
           /\ IF Accepts(t, r)
              THEN /\ made' = [made EXCEPT ![t.job][r] = @ \union {t.claim}]
                   /\ Goto(c, [t EXCEPT !.step = "ref"])
              ELSE Goto(c, [t EXCEPT !.step = "error"]) /\ UNCHANGED made
    /\ UNCHANGED <<job, staged, row, history>>

RecordRef(c) ==
    LET t == call[c] IN
    /\ At(c, "ref")
    /\ \E r \in t.todo :
           /\ IsNext(r, t.todo)
           /\ row' = [row EXCEPT ![t.job][r].ref = TRUE]
           /\ Goto(c, [t EXCEPT !.step = "apply", !.todo = @ \ {r}, !.good = @ + 1])
    /\ UNCHANGED <<job, staged, made, history>>

\* That UPDATE is inside the same try: when it fails the row counts as refused.
LoseRef(c) ==
    /\ At(c, "ref")
    /\ Goto(c, [call[c] EXCEPT !.step = "error"])
    /\ disturbed' = disturbed \union {call[c].job}
    /\ UNCHANGED <<job, staged, row, made, checks, claims, late>>

\* Mutant of FailedRow: the refusal is counted and not written down.
UnmarkedRow(x) == x

\* "It is recorded against its line and the rest of the file continues."
FailedRow(x) == [x EXCEPT !.error = TRUE]

RecordError(c) ==
    LET t == call[c] IN
    /\ At(c, "error")
    /\ \E r \in t.todo :
           /\ IsNext(r, t.todo)
           /\ row' = [row EXCEPT ![t.job][r] = FailedRow(@)]
           /\ Goto(c, [t EXCEPT !.step = "apply", !.todo = @ \ {r}, !.bad = @ + 1])
    /\ UNCHANGED <<job, staged, made, history>>

FinishCommit(c) ==
    LET t == call[c] IN
    /\ At(c, "apply")
    /\ t.todo = {}
    /\ job' = [job EXCEPT ![t.job] = [@ EXCEPT !.committed = t.good, !.errors = t.seen + t.bad,
                                               !.ended = TRUE]]
    /\ Goto(c, Idle)
    /\ UNCHANGED <<staged, row, made, history>>

\* A statement fails outside the try, or the server dies: what is written stays.
Fail(c) ==
    /\ call[c].step # "idle"
    /\ Goto(c, Idle)
    /\ disturbed' = IF At(c, "insert") THEN disturbed ELSE disturbed \union {call[c].job}
    /\ UNCHANGED <<job, staged, row, made, checks, claims, late>>

-----------------------------------------------------------------------------
Upload(c) == CheckFile(c) \/ InsertJob(c) \/ InsertRows(c)
Validate(c) == BeginValidate(c) \/ ValidateRow(c) \/ FinishValidate(c)
Commit(c) ==
    \/ BeginCommit(c) \/ Claim(c) \/ RefuseClaim(c) \/ ReadRows(c) \/ Apply(c)
    \/ RecordRef(c) \/ LoseRef(c) \/ RecordError(c) \/ FinishCommit(c)

Next == \E c \in Calls : Upload(c) \/ Validate(c) \/ Commit(c) \/ Fail(c)

Spec == Init /\ [][Next]_vars

-----------------------------------------------------------------------------
JobRecords == [status : {"NONE", "UPLOADED", "VALIDATED", "COMMITTED"}, errors : Nat,
               committed : Nat, ended : BOOLEAN]
CallRecords == [step : {"idle", "insert", "stage", "validate", "claim", "read", "apply",
                        "ref", "error"},
                job : Jobs \union {None}, todo : SUBSET RowNumbers,
                readable : SUBSET RowNumbers, seen : Nat, good : Nat, bad : Nat, claim : Nat]

\* Every table holds rows of its type, and a batch is claimed once, and once more only
\* for each validation that reopened it.
TypeOK ==
    /\ job \in [Jobs -> JobRecords]
    /\ staged \subseteq Jobs
    /\ row \in [Jobs -> [RowNumbers -> RowRecords]]
    /\ made \in [Jobs -> [RowNumbers -> SUBSET (Nat \ {0})]]
    /\ call \in [Calls -> CallRecords]
    /\ checks \in [Jobs -> 0 .. MaxChecks]
    /\ late \in [Jobs -> Nat]
    /\ claims \in [Jobs -> Nat] /\ \A j \in Jobs : claims[j] <= late[j] + 1
    /\ disturbed \subseteq Jobs

\* However often and by however many people a batch is committed, a row of it is applied
\* once, and once more only for each validation that ended after the batch was claimed
\* and so put it back to VALIDATED; no commit goes over a row it has applied already
\* (commitImport, validateImport).
OnlyALateCheckReopens ==
    /\ \A j \in Jobs, r \in RowNumbers : made[j][r] \subseteq 1 .. late[j] + 1
    /\ \A c \in Calls, r \in RowNumbers :
          At(c, "apply") /\ r \in call[c].todo => call[c].claim \notin made[call[c].job][r]

\* Nothing is lost without a word: when the commit of an undisturbed batch has ended,
\* every row names either what it created or what is wrong with it, the first if and
\* only if it was applied, and the two counts on the batch are the numbers of each.
EveryRowAccounted ==
    \A j \in Jobs : job[j].ended /\ j \notin disturbed =>
        /\ \A r \in RowsOf(j) : /\ row[j][r].ref # row[j][r].error
                                /\ row[j][r].ref <=> made[j][r] # {}
        /\ job[j].committed = Cardinality({r \in RowsOf(j) : row[j][r].ref})
        /\ job[j].errors = Cardinality({r \in RowsOf(j) : row[j][r].error})

-----------------------------------------------------------------------------
(* What the documents say and the code does not do.                        *)

\* "The same file twice is refused, by content hash" (docs/02, M11): a row of the file is
\* applied by one commit of one of its uploads.
FileImportedOnce ==
    \A r \in RowNumbers, i, j \in Jobs :
        made[i][r] # {} /\ made[j][r] # {} => i = j
=============================================================================
