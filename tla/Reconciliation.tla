--------------------------- MODULE Reconciliation ---------------------------
(***************************************************************************)
(* Bank statement reconciliation end to end: ParseAndProcessStatement puts *)
(* an upload and its rows in the database and enqueues a job; the worker   *)
(* runs RunReconciliationJob for it, statement by statement and outside    *)
(* any transaction; meanwhile users enter and delete transactions and      *)
(* delete uploads, and workers die and are invoked again.                  *)
(*                                                                         *)
(* JobQueue.tla gives the job its row, its deliveries and its worker; the  *)
(* steps of this module take the place of its Run.  ReconMatch.tla gives   *)
(* the pairing.  One account; a job carries the name of its upload.        *)
(***************************************************************************)
EXTENDS JobQueue, ReconMatch

CONSTANTS
    File,       \* per upload, the rows of its workbook in date order
    UserItems   \* the transactions the user may enter, each at most once

Items == (UNION {Range(File[j]) : j \in Jobs}) \cup Range(UserItems)

ASSUME FileAssumption ==
    \A j \in Jobs :
        /\ File[j] \in Seq(Items)
        /\ \A i, k \in DOMAIN File[j] : i < k => File[j][i].at <= File[j][k].at

ASSUME ItemsAssumption == \A s \in Items : s.at \in Nat /\ s.amount \in Int

\* A transaction of no statement is told from those of every upload.
ASSUME JobsAssumption == "none" \notin Jobs

VARIABLES
    status,     \* bank_statement_uploads.processing_status, or none, deleted
    stmt,       \* per upload, its statement_transactions
    txns,       \* the account's transactions, in order of creation
    results,    \* per upload, one list of results for every insertion
    stage,      \* per invocation, the next step of its run
    local,      \* per invocation, the variables of the run
    entered,    \* the user's items that were entered
    \* Kept for the properties, read by no guard:
    muted,      \* uploads one of whose status writes failed
    unmetered,  \* auto-created transactions whose metrics were never posted
    unposted    \* auto-created transactions whose balance was never posted

reconVars == <<status, stmt, txns, results, stage, local, entered,
               muted, unmetered, unposted>>

NoStmt  == "none"
Fresh   == [rows |-> <<>>, latest |-> NoDate, results |-> <<>>,
            made |-> {}, todo |-> <<>>]
Live    == {t \in DOMAIN txns : txns[t].live}
Exists(j) == status[j] \notin {"none", "deleted"}
Job(w)  == ev[w].job
At(w, label) == pc[w] = "run" /\ stage[w] = label

ReconInit ==
    /\ JobInit
    /\ status = [j \in Jobs |-> "none"]
    /\ stmt = [j \in Jobs |-> <<>>]
    /\ txns = <<>>
    /\ results = [j \in Jobs |-> <<>>]
    /\ stage = [w \in Workers |-> "start"]
    /\ local = [w \in Workers |-> Fresh]
    /\ entered = {}
    /\ muted = {}
    /\ unmetered = {}
    /\ unposted = {}

-----------------------------------------------------------------------------
(***************************************************************************)
(* Uploading.  The upload and its rows are inserted in one transaction; a  *)
(* row whose hash the account already holds is skipped (ON CONFLICT DO     *)
(* NOTHING).  The reference number is not part of the hash.                *)
(***************************************************************************)
RowHash(s) == <<s.at, s.amount, s.type, s.desc>>

\* The rows that meet no hash of taken, nor of an earlier row of the file.
FirstOfTheirHash(j, taken) ==
    {i \in DOMAIN File[j] :
        RowHash(File[j][i]) \notin
            taken \cup {RowHash(File[j][k]) : k \in 1 .. i - 1}}

\* Mutant of NewRows: the unique index is per upload, as it was at first.
NewRowsPerUpload(j) == RowsAt(File[j], FirstOfTheirHash(j, {}))

NewRows(j) ==
    RowsAt(File[j], FirstOfTheirHash(j,
        {RowHash(r) : r \in UNION {Range(stmt[k]) : k \in Jobs}}))

Upload(j) ==
    /\ status[j] = "none"
    /\ status' = [status EXCEPT ![j] = "UPLOADED"]
    /\ stmt' = [stmt EXCEPT ![j] = NewRows(j)]
    /\ UNCHANGED <<jobVars, txns, results, stage, local, entered,
                   muted, unmetered, unposted>>

\* The rest of the request: the job is recorded and dispatched, or neither.
EnqueueBankReconciliation(j) ==
    /\ status[j] # "none"
    /\ RecordJob(j) \/ Dispatch(j)
    /\ UNCHANGED reconVars

(***************************************************************************)
(* DeleteUpload: one transaction, results, rows and upload; transactions   *)
(* that point at a deleted row are unlinked by the foreign key, and keep   *)
(* their reconciliation status.                                            *)
(***************************************************************************)
DeleteUpload(j) ==
    /\ Exists(j)
    /\ status' = [status EXCEPT ![j] = "deleted"]
    /\ stmt' = [stmt EXCEPT ![j] = <<>>]
    /\ results' = [results EXCEPT ![j] = <<>>]
    /\ txns' = [t \in DOMAIN txns |->
                    IF txns[t].stmt = j THEN [txns[t] EXCEPT !.stmt = NoStmt]
                                        ELSE txns[t]]
    /\ UNCHANGED <<jobVars, stage, local, entered, muted, unmetered, unposted>>

-----------------------------------------------------------------------------
(***************************************************************************)
(* The user's own transactions; their postings are Ledger.tla's subject    *)
(* and happen at once here.                                                *)
(***************************************************************************)
Txn(s, auto, owner) ==
    [at |-> s.at, amount |-> s.amount, type |-> s.type, desc |-> s.desc,
     ref |-> s.ref, auto |-> auto, live |-> TRUE, verified |-> FALSE,
     stmt |-> owner, met |-> IF auto THEN 0 ELSE 1, bal |-> IF auto THEN 0 ELSE 1]

UserCreates(u) ==
    /\ u \notin entered
    /\ entered' = entered \cup {u}
    /\ txns' = Append(txns, Txn(UserItems[u], FALSE, NoStmt))
    /\ UNCHANGED <<jobVars, status, stmt, results, stage, local,
                   muted, unmetered, unposted>>

UserDeletes(t) ==
    /\ t \in Live
    /\ txns' = [txns EXCEPT ![t].live = FALSE, ![t].met = @ - 1, ![t].bal = @ - 1]
    /\ UNCHANGED <<jobVars, status, stmt, results, stage, local, entered,
                   muted, unmetered, unposted>>

-----------------------------------------------------------------------------
(***************************************************************************)
(* RunReconciliationJob.                                                   *)
(***************************************************************************)
Goes(w, label) == stage' = [stage EXCEPT ![w] = label]

\* Mutant of Finish: the run returns to Lambda past markCompleted and markFailed.
FinishUnmarked(w, b) ==
    /\ pc[w] = "run"
    /\ Goto(w, "return")
    /\ ok' = [ok EXCEPT ![w] = b]
    /\ UNCHANGED <<sent, row, events, ev, seen, history>>
    /\ Goes(w, "start")
    /\ local' = [local EXCEPT ![w] = Fresh]

\* The run returns nil (b) or an error; its variables are gone.
Finish(w, b) ==
    /\ Run(w, b)
    /\ Goes(w, "start")
    /\ local' = [local EXCEPT ![w] = Fresh]

\* UpdateUploadProcessingStatus: no row is no error; the write may fail.
WriteStatus(j, s) ==
    \/ /\ status' = IF Exists(j) THEN [status EXCEPT ![j] = s] ELSE status
       /\ UNCHANGED muted
    \/ /\ muted' = muted \cup {j}
       /\ UNCHANGED status

\* PROCESSING; a failure is only logged.
MarkUpload(w) ==
    /\ At(w, "start")
    /\ WriteStatus(Job(w), "PROCESSING")
    /\ Goes(w, "rows")
    /\ UNCHANGED <<jobVars, stmt, txns, results, local, entered,
                   unmetered, unposted>>

\* GetStatementTransactionsForProcessing.
FetchRows(w) ==
    /\ At(w, "rows")
    /\ stmt[Job(w)] # <<>>
    /\ local' = [local EXCEPT ![w].rows = stmt[Job(w)]]
    /\ Goes(w, "latest")
    /\ UNCHANGED <<jobVars, status, stmt, txns, results, entered,
                   muted, unmetered, unposted>>

\* Nothing to process; here a failed status write fails the run.
NothingToDo(w) ==
    /\ At(w, "rows")
    /\ stmt[Job(w)] = <<>>
    /\ \/ /\ status' = IF Exists(Job(w))
                       THEN [status EXCEPT ![Job(w)] = "COMPLETED"] ELSE status
          /\ Finish(w, TRUE)
       \/ /\ Finish(w, FALSE)
          /\ UNCHANGED status
    /\ UNCHANGED <<stmt, txns, results, entered, muted, unmetered, unposted>>

\* GetMaxAppTransactionDate: deleted transactions do not count, verified do.
LatestTxn(w) ==
    /\ At(w, "latest")
    /\ local' = [local EXCEPT ![w].latest =
                    IF Live = {} THEN NoDate
                    ELSE CHOOSE d \in {txns[t].at : t \in Live} :
                             \A t \in Live : txns[t].at <= d]
    /\ Goes(w, "apps")
    /\ UNCHANGED <<jobVars, status, stmt, txns, results, entered,
                   muted, unmetered, unposted>>

\* Mutant of Unreconciled: what a statement created is not looked at again.
UnreconciledManual == {t \in Live : ~txns[t].verified /\ ~txns[t].auto}

Unreconciled == {t \in Live : ~txns[t].verified}

\* What a run holds once its rows are paired with the transactions ids.
AfterPairing(w, ids) ==
    LET plan == Plan(local[w].rows, [k \in DOMAIN ids |-> txns[ids[k]]], local[w].latest)
        Id(r) == IF r.txn = NoTxn THEN NoTxn ELSE ids[r.txn]
    IN  [local[w] EXCEPT
            !.rows = plan.rows,
            !.results = [i \in DOMAIN plan.rows |->
                [txn |-> Id(plan.results[i]), kind |-> plan.results[i].kind]],
            !.todo = InOrder({i \in DOMAIN plan.rows : plan.results[i].kind = "HIGH"})]

(***************************************************************************)
(* The fetch of the app transactions, skipped when no row overlaps and     *)
(* when the upload has lost its rows meanwhile (ErrNoDateRange); it has no *)
(* ORDER BY.  The pairing that follows only reads what was fetched.        *)
(***************************************************************************)
FetchApps(w) ==
    /\ At(w, "apps")
    /\ LET rows == local[w].rows
           inRange == IF OverlapRows(rows, local[w].latest) = <<>> \/ stmt[Job(w)] = <<>>
                      THEN {} ELSE {t \in Unreconciled : InRange(txns[t], rows)}
       IN  \E ids \in SetToSeqs(inRange) : local' = [local EXCEPT ![w] = AfterPairing(w, ids)]
    /\ Goes(w, "create")
    /\ UNCHANGED <<jobVars, status, stmt, txns, results, entered,
                   muted, unmetered, unposted>>

\* The rows to create, in the order of the batch: the tail comes first.
Missing(w) ==
    LET Wanted(tail) == InOrder({i \in DOMAIN local[w].rows :
            /\ local[w].results[i].kind = "MISSING"
            /\ InTail(local[w].rows[i], local[w].latest) = tail})
    IN  Wanted(TRUE) \o Wanted(FALSE)

(***************************************************************************)
(* CreateAutoTransactionsBatch: every row or none; the foreign key refuses *)
(* the rows of a deleted upload.  The results get the new ids.             *)
(***************************************************************************)
CreateMissing(w) ==
    /\ At(w, "create")
    /\ Missing(w) # <<>>
    /\ Exists(Job(w))
    /\ LET batch == Missing(w)
           Made(k) == Len(txns) + k
       IN  /\ txns' = txns \o [k \in DOMAIN batch |->
                        Txn(local[w].rows[batch[k]], TRUE, Job(w))]
           /\ local' = [local EXCEPT
                 ![w].made = {Made(k) : k \in DOMAIN batch},
                 ![w].results = [i \in DOMAIN @ |->
                     IF \E k \in DOMAIN batch : batch[k] = i
                     THEN [@[i] EXCEPT !.txn =
                              Made(CHOOSE k \in DOMAIN batch : batch[k] = i)]
                     ELSE @[i]]]
    /\ Goes(w, "metrics")
    /\ UNCHANGED <<jobVars, status, stmt, results, entered,
                   muted, unmetered, unposted>>

NothingMissing(w) ==
    /\ At(w, "create")
    /\ Missing(w) = <<>>
    /\ Goes(w, "verify")
    /\ UNCHANGED <<jobVars, status, stmt, txns, results, local, entered,
                   muted, unmetered, unposted>>

(***************************************************************************)
(* ApplyBatch of the batch's totals, one statement for the user's metrics  *)
(* and one for the account; an error of either is logged and the run goes  *)
(* on with what follows ApplyBatch.                                        *)
(***************************************************************************)
PostMetrics(w) ==
    /\ At(w, "metrics")
    /\ \/ /\ txns' = [t \in DOMAIN txns |->
                        IF t \in local[w].made
                        THEN [txns[t] EXCEPT !.met = @ + 1] ELSE txns[t]]
          /\ Goes(w, "balance")
          /\ UNCHANGED <<unmetered, unposted>>
       \/ /\ unmetered' = unmetered \cup local[w].made
          /\ unposted' = unposted \cup local[w].made
          /\ Goes(w, "verify")
          /\ UNCHANGED txns
    /\ UNCHANGED <<jobVars, status, stmt, results, local, entered, muted>>

\* Mutant of PostBalance: ApplyBatch is tried again from its start.
PostBalanceRetries(w) ==
    /\ At(w, "balance")
    /\ \/ /\ txns' = [t \in DOMAIN txns |->
                        IF t \in local[w].made
                        THEN [txns[t] EXCEPT !.bal = @ + 1] ELSE txns[t]]
          /\ Goes(w, "verify")
       \/ /\ Goes(w, "metrics")
          /\ UNCHANGED txns
    /\ UNCHANGED <<jobVars, status, stmt, results, local, entered,
                   muted, unmetered, unposted>>

PostBalance(w) ==
    /\ At(w, "balance")
    /\ \/ /\ txns' = [t \in DOMAIN txns |->
                        IF t \in local[w].made
                        THEN [txns[t] EXCEPT !.bal = @ + 1] ELSE txns[t]]
          /\ UNCHANGED unposted
       \/ /\ unposted' = unposted \cup local[w].made
          /\ UNCHANGED txns
    /\ Goes(w, "verify")
    /\ UNCHANGED <<jobVars, status, stmt, results, local, entered, muted, unmetered>>

(***************************************************************************)
(* MarkTransactionAutoVerified for the next high-confidence match, deleted *)
(* transactions included.  An error, of the database or of the foreign key *)
(* when the upload is gone, is logged.                                     *)
(***************************************************************************)
MarkVerified(w) ==
    /\ At(w, "verify")
    /\ local[w].todo # <<>>
    /\ LET t == local[w].results[Head(local[w].todo)].txn
       IN  \/ /\ Exists(Job(w))
              /\ txns' = [txns EXCEPT ![t].verified = TRUE, ![t].stmt = Job(w)]
           \/ UNCHANGED txns
    /\ local' = [local EXCEPT ![w].todo = Tail(@)]
    /\ UNCHANGED <<jobVars, status, stmt, results, stage, entered,
                   muted, unmetered, unposted>>

\* Mutant of InsertResults: nothing ties a result to its upload.
InsertUnchecked(w) ==
    /\ At(w, "verify")
    /\ local[w].todo = <<>>
    /\ results' = [results EXCEPT ![Job(w)] = Append(@, local[w].results)]
    /\ Goes(w, "done")
    /\ UNCHANGED <<jobVars, status, stmt, txns, local, entered,
                   muted, unmetered, unposted>>

\* Mutant of InsertResults: its error is logged like the ones before it.
InsertMayBeLost(w) ==
    /\ At(w, "verify")
    /\ local[w].todo = <<>>
    /\ \/ /\ Exists(Job(w))
          /\ results' = [results EXCEPT ![Job(w)] = Append(@, local[w].results)]
       \/ UNCHANGED results
    /\ Goes(w, "done")
    /\ UNCHANGED <<jobVars, status, stmt, txns, local, entered,
                   muted, unmetered, unposted>>

\* InsertReconciliationResults: one batch; the upload must still exist.
InsertResults(w) ==
    /\ At(w, "verify")
    /\ local[w].todo = <<>>
    /\ Exists(Job(w))
    /\ results' = [results EXCEPT ![Job(w)] = Append(@, local[w].results)]
    /\ Goes(w, "done")
    /\ UNCHANGED <<jobVars, status, stmt, txns, local, entered,
                   muted, unmetered, unposted>>

\* Mutant of MarkDone: the status is left to whoever reads the job.
MarkDoneNever(w) ==
    /\ At(w, "done")
    /\ Finish(w, TRUE)
    /\ UNCHANGED <<status, muted, stmt, txns, results, entered, unmetered, unposted>>

\* COMPLETED; a failure is only logged, and the run has succeeded.
MarkDone(w) ==
    /\ At(w, "done")
    /\ WriteStatus(Job(w), "COMPLETED")
    /\ Finish(w, TRUE)
    /\ UNCHANGED <<stmt, txns, results, entered, unmetered, unposted>>

\* Mutant of Fails: the results are written again until they are in.
FailsBeforeResults(w) ==
    /\ \E label \in {"rows", "latest", "apps", "create"} : At(w, label)
    /\ stage[w] = "create" => Missing(w) # <<>>
    /\ Finish(w, FALSE)
    /\ UNCHANGED <<status, stmt, txns, results, entered, muted, unmetered, unposted>>

\* A read, the batch of creations or the batch of results fails.
Fails(w) ==
    /\ \E label \in {"rows", "latest", "apps", "create", "verify"} : At(w, label)
    /\ stage[w] = "create" => Missing(w) # <<>>
    /\ stage[w] = "verify" => local[w].todo = <<>>
    /\ Finish(w, FALSE)
    /\ UNCHANGED <<status, stmt, txns, results, entered, muted, unmetered, unposted>>

\* Mutant of Dies: a restart takes the interrupted run up where it was.
DiesAndResumes(w) ==
    /\ Crash(w)
    /\ UNCHANGED reconVars

(***************************************************************************)
(* The invocation times out or dies: what was written stays, what was to   *)
(* be posted is not.                                                       *)
(***************************************************************************)
Dies(w) ==
    /\ Crash(w)
    /\ Goes(w, "start")
    /\ local' = [local EXCEPT ![w] = Fresh]
    /\ unmetered' = IF stage[w] = "metrics" THEN unmetered \cup local[w].made
                                            ELSE unmetered
    /\ unposted' = IF stage[w] \in {"metrics", "balance"}
                   THEN unposted \cup local[w].made ELSE unposted
    /\ UNCHANGED <<status, stmt, txns, results, entered, muted>>

-----------------------------------------------------------------------------
RunStep(w) ==
    \/ MarkUpload(w) \/ FetchRows(w) \/ NothingToDo(w) \/ LatestTxn(w)
    \/ FetchApps(w) \/ CreateMissing(w) \/ NothingMissing(w) \/ PostMetrics(w)
    \/ PostBalance(w) \/ MarkVerified(w) \/ InsertResults(w) \/ MarkDone(w)
    \/ Fails(w)

Works(w) == RunStep(w) \/ (Frame(w) /\ UNCHANGED reconVars)

UserSteps ==
    \/ \E j \in Jobs : Upload(j) \/ EnqueueBankReconciliation(j) \/ DeleteUpload(j)
    \/ \E u \in DOMAIN UserItems : UserCreates(u)
    \/ \E t \in DOMAIN txns : UserDeletes(t)

ReconNext == UserSteps \/ \E w \in Workers : Works(w) \/ Dies(w)

ReconSpec == ReconInit /\ [][ReconNext]_<<jobVars, reconVars>>

(***************************************************************************)
(* Lambda keeps invoking while it holds events and an invocation that is   *)
(* not killed goes on; nothing is assumed of users and enqueuers, and a    *)
(* death may happen at every try.                                          *)
(***************************************************************************)
ReconFairSpec == ReconSpec /\ \A w \in Workers : WF_<<jobVars, reconVars>>(Works(w))
-----------------------------------------------------------------------------
ReconTypeOK ==
    /\ status \in [Jobs -> {"none", "UPLOADED", "PROCESSING", "COMPLETED", "deleted"}]
    /\ \A j \in Jobs : Range(stmt[j]) \subseteq Items
    /\ \A t \in DOMAIN txns :
          /\ txns[t].auto \in BOOLEAN /\ txns[t].live \in BOOLEAN
          /\ txns[t].verified \in BOOLEAN /\ txns[t].stmt \in Jobs \cup {NoStmt}
          /\ txns[t].met \in -1 .. 1 /\ txns[t].bal \in -1 .. 1
    /\ stage \in [Workers -> {"start", "rows", "latest", "apps", "create", "metrics",
                              "balance", "verify", "done"}]
    /\ \A w \in Workers : pc[w] # "run" => stage[w] = "start" /\ local[w] = Fresh
    /\ \A w \in Workers :
          /\ local[w].made \subseteq DOMAIN txns
          /\ \A i \in DOMAIN local[w].results :
                /\ local[w].results[i].txn \in DOMAIN txns \cup {NoTxn}
                /\ local[w].results[i].kind \in {"HIGH", "LOW", "MISSING"}
    /\ entered \subseteq DOMAIN UserItems

(***************************************************************************)
(* A reconciliation is a run of a background job like any other: whatever  *)
(* it does, the job's row, event and worker behave as JobQueue says.       *)
(***************************************************************************)
ImplementsJobQueue == Spec

(***************************************************************************)
(* The balance and the metrics count every transaction a statement created *)
(* once while it lives and not after its deletion, but for what a running  *)
(* worker still owes and what was lost with a failed statement or a dead   *)
(* worker; no retry, duplicate delivery or deletion posts anything twice.  *)
(***************************************************************************)
Owed(t, stages) ==
    Cardinality({w \in Workers : t \in local[w].made /\ stage[w] \in stages})

AutoPostedOnce ==
    \A t \in DOMAIN txns : txns[t].auto =>
        LET due == IF txns[t].live THEN 1 ELSE 0
        IN  /\ txns[t].met + Owed(t, {"metrics"})
                 + (IF t \in unmetered THEN 1 ELSE 0) = due
            /\ txns[t].bal + Owed(t, {"metrics", "balance"})
                 + (IF t \in unposted THEN 1 ELSE 0) = due

(***************************************************************************)
(* A COMPLETED upload has a result for every one of its rows, in every     *)
(* list a run or its retry inserted: an error or a death on the way leaves *)
(* the upload unfinished rather than half reported.                        *)
(***************************************************************************)
CompletedIsReported ==
    \A j \in Jobs : status[j] = "COMPLETED" /\ stmt[j] # <<>> =>
        /\ results[j] # <<>>
        /\ \A n \in DOMAIN results[j] : Len(results[j][n]) = Len(stmt[j])

(***************************************************************************)
(* Deleting an upload is final: a worker that was in the middle of it adds *)
(* no result, no row and no link to it afterwards.                         *)
(***************************************************************************)
DeletedLeavesNothing ==
    \A j \in Jobs : status[j] = "deleted" =>
        /\ results[j] = <<>>
        /\ stmt[j] = <<>>
        /\ \A t \in DOMAIN txns : txns[t].stmt # j

(***************************************************************************)
(* With one delivery at a time and no death or lost write, the upload      *)
(* tells how its job ended: COMPLETED exactly when a run succeeded.        *)
(***************************************************************************)
UploadTellsOutcome ==
    \A j \in Jobs :
        Undisturbed(j) /\ j \notin muted /\ Quiet(j) /\ Exists(j) =>
            (status[j] = "COMPLETED" <=> wins[j] > 0)

(***************************************************************************)
(* When the event of a job has one copy, a row is turned into a second     *)
(* transaction only if the first is deleted or was verified in between:    *)
(* a retry, or the file uploaded again, finds what an earlier run created. *)
(***************************************************************************)
SameRow(s, t) == RowHash(s) = RowHash(t)

RecreatedOnlyVerified ==
    [][MaxCopies = 1 =>
         \A n \in DOMAIN txns' \ DOMAIN txns : txns'[n].auto =>
             \A o \in DOMAIN txns :
                 txns[o].auto /\ txns[o].live /\ SameRow(txns[o], txns'[n])
                     => txns[o].verified]_<<jobVars, reconVars>>

(***************************************************************************)
(* Every job that was accepted comes to rest, also when its upload is      *)
(* deleted under it: no step of a run waits for something that is gone.    *)
(* Its row then carries an answer, unless an invocation died or a row      *)
(* access failed on the way, and its upload is not left in PROCESSING by a *)
(* run that succeeded.                                                     *)
(***************************************************************************)
EveryUploadSettles ==
    \A j \in Jobs : sent[j] = "sent" ~>
        /\ Quiet(j)
        /\ j \in crashed \cup lost \/ row[j].status \in {"completed", "failed"}
        /\ wins[j] > 0 /\ j \notin crashed \cup muted => status[j] # "PROCESSING"

-----------------------------------------------------------------------------
(***************************************************************************)
(* "Auto-create missing transactions from statement": a row for which a    *)
(* transaction was found and verified is not missing and is not created.   *)
(***************************************************************************)
OnlyMissingCreated ==
    \A t, o \in Live :
        ~(/\ txns[t].auto /\ txns[t].stmt # NoStmt
          /\ ~txns[o].auto /\ txns[o].verified /\ txns[o].stmt = txns[t].stmt
          /\ SameRow(txns[t], txns[o]))
=============================================================================
