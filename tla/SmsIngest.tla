----------------------------- MODULE SmsIngest -----------------------------
(***************************************************************************)
(* POST /sms (domain/sms): the log row, the transaction made of a message  *)
(* the phone could parse, and the LLM job that tries the others.           *)
(*                                                                         *)
(* The job is inserted into a table whose type column is an enum, and the  *)
(* migrations give that enum no value for this job: with their schema its  *)
(* row is refused, and the job is never queued.  JobTypes is the enum of   *)
(* the database the server runs on, so that the job can also be checked as *)
(* it would run once the value is there.                                   *)
(***************************************************************************)
EXTENDS Naturals, FiniteSets

CONSTANTS
    Logs,           \* sms_logs ids, one per request that is accepted
    Sms,            \* messages; several requests may carry one
    Parsed,         \* messages sent with parse_status "success"
    Failed,         \* messages sent with parse_status "failed"
    KnownAccount,   \* messages whose account number is one of the user's
    JobTypes,       \* the values of the job_type enum
    LlmTries        \* invocations Lambda makes of a failing job

\* What migrations 001 and 018 make of the enum.
MigratedJobTypes == {"WELCOME_EMAIL", "WEBHOOK", "BANK_RECONCILIATION", "REPORTS",
                     "INVESTMENT_AUTO_LINK"}

ASSUME SmsAssumption ==
    /\ Parsed \subseteq Sms /\ Failed \subseteq Sms /\ Parsed \cap Failed = {}
    /\ KnownAccount \subseteq Sms /\ "none" \notin Sms /\ LlmTries \in Nat
    /\ MigratedJobTypes \subseteq JobTypes

VARIABLES
    sms,        \* the message of a log, "none" before its request
    pc,         \* what is left of the request: "work" | "made", its transaction
                \* is there | "told", its failure is noted | "done"
    status,     \* parsing_status; "deleted" when the row is gone
    txns,       \* transactions made of this log
    linked,     \* those whose sms_id is this log
    useLlm,     \* the user's use_llm_parsing flag
    job,        \* "none" | "queued" | "asked" | "created"
    tries,      \* invocations of the job so far
    lost        \* history: logs a status write of which did not happen

smsVars == <<sms, pc, status, txns, linked, useLlm, job, tries, lost>>

SmsInit ==
    /\ sms = [l \in Logs |-> "none"] /\ pc = [l \in Logs |-> "done"]
    /\ status = [l \in Logs |-> "none"]
    /\ txns = [l \in Logs |-> 0] /\ linked = [l \in Logs |-> 0]
    /\ useLlm = FALSE
    /\ job = [l \in Logs |-> "none"] /\ tries = [l \in Logs |-> 0]
    /\ lost = {}
-----------------------------------------------------------------------------
(* The request *)

\* The row comes first, in a statement of its own that names no status: the
\* column's default is "failed". Nothing looks for an earlier log of the message.
CreateSms(l, s) ==
    /\ sms[l] = "none"
    /\ sms' = [sms EXCEPT ![l] = s]
    /\ status' = [status EXCEPT ![l] = "failed"]
    /\ pc' = [pc EXCEPT ![l] = "work"]
    /\ UNCHANGED <<txns, linked, useLlm, job, tries, lost>>

\* A status write: its error is dropped, and a deleted row is not there to write.
Mark(l, s) ==
    \/ /\ status[l] # "deleted"
       /\ status' = [status EXCEPT ![l] = s] /\ UNCHANGED lost
    \/ lost' = lost \cup {l} /\ UNCHANGED status

\* CreateTxn with this sms_id, a foreign key: it needs the row.
CreateTxn(l) ==
    /\ status[l] # "deleted"
    /\ txns' = [txns EXCEPT ![l] = @ + 1]
    /\ linked' = [linked EXCEPT ![l] = @ + 1]

\* Mutant: the request goes on as if the transaction had been made.
MakeTxnOrNot(l) ==
    /\ pc[l] = "work" /\ sms[l] \in Parsed \cap KnownAccount
    /\ pc' = [pc EXCEPT ![l] = "made"]
    /\ CreateTxn(l) \/ UNCHANGED <<txns, linked>>
    /\ UNCHANGED <<sms, status, useLlm, job, tries, lost>>

MakeTxn(l) ==
    /\ pc[l] = "work" /\ sms[l] \in Parsed \cap KnownAccount
    /\ pc' = [pc EXCEPT ![l] = "made"]
    /\ CreateTxn(l)
    /\ UNCHANGED <<sms, status, useLlm, job, tries, lost>>

MarkSuccess(l) ==
    /\ pc[l] = "made"
    /\ pc' = [pc EXCEPT ![l] = "done"]
    /\ Mark(l, "success")
    /\ UNCHANGED <<sms, txns, linked, useLlm, job, tries>>

MarkFailed(l) ==
    /\ pc[l] = "work" /\ sms[l] \in Failed
    /\ pc' = [pc EXCEPT ![l] = "told"]
    /\ Mark(l, "failed")
    /\ UNCHANGED <<sms, txns, linked, useLlm, job, tries>>

\* EnqueueLlmSmsParse inserts the job's row, then dispatches it. Its error, here
\* that of the enum, is logged.
AskLlm(l) ==
    /\ pc[l] = "told" /\ useLlm
    /\ pc' = [pc EXCEPT ![l] = "done"]
    /\ job' = IF "LLM_SMS_PARSE" \in JobTypes THEN [job EXCEPT ![l] = "queued"] ELSE job
    /\ UNCHANGED <<sms, status, txns, linked, useLlm, tries, lost>>

\* The rest is left undone: there is no account, no flag, an error is logged, or
\* the server dies. The answer, if there is one, is 201.
EndRequest(l) ==
    /\ pc[l] # "done"
    /\ pc' = [pc EXCEPT ![l] = "done"]
    /\ lost' = IF pc[l] = "made" THEN lost \cup {l} ELSE lost
    /\ UNCHANGED <<sms, status, txns, linked, useLlm, job, tries>>

\* DELETE /sms/:id, at any moment: migration 019 sets the link of every
\* transaction made of the log to NULL.
DeleteSms(l) ==
    /\ status[l] \notin {"none", "deleted"}
    /\ status' = [status EXCEPT ![l] = "deleted"]
    /\ linked' = [linked EXCEPT ![l] = 0]
    /\ UNCHANGED <<sms, pc, txns, useLlm, job, tries, lost>>

\* The switch on the profile page.
SetUseLlm ==
    /\ useLlm' = ~useLlm
    /\ UNCHANGED <<sms, pc, status, txns, linked, job, tries, lost>>
-----------------------------------------------------------------------------
(* RunLlmParse *)

\* Without the row the job fails, and is repeated to no more avail.
LlmStart(l) ==
    /\ job[l] = "queued" /\ tries[l] < LlmTries
    /\ tries' = [tries EXCEPT ![l] = @ + 1]
    /\ IF status[l] = "deleted" THEN UNCHANGED <<status, job, lost>>
       ELSE Mark(l, "llm_processing") /\ job' = [job EXCEPT ![l] = "asked"]
    /\ UNCHANGED <<sms, pc, txns, linked, useLlm>>

\* Gemini fails (the job is repeated) or gives too little (it is not).
LlmFail(l) ==
    /\ job[l] = "asked"
    /\ Mark(l, "llm_failed")
    /\ \E next \in {"queued", "none"} : job' = [job EXCEPT ![l] = next]
    /\ UNCHANGED <<sms, pc, txns, linked, useLlm, tries>>

\* An unknown account: "llm_success_no_account" has 22 characters, its column 20,
\* so the log stays as it was.
LlmNoAccount(l) ==
    /\ job[l] = "asked" /\ sms[l] \notin KnownAccount
    /\ job' = [job EXCEPT ![l] = "none"]
    /\ lost' = lost \cup {l}
    /\ UNCHANGED <<sms, pc, status, txns, linked, useLlm, tries>>

\* The transaction; its error is only logged.
LlmCreate(l) ==
    /\ job[l] = "asked" /\ sms[l] \in KnownAccount
    /\ CreateTxn(l) \/ UNCHANGED <<txns, linked>>
    /\ job' = [job EXCEPT ![l] = "created"]
    /\ UNCHANGED <<sms, pc, status, useLlm, tries, lost>>

\* The log is marked llm_success whether or not the transaction was made.
LlmFinish(l) ==
    /\ job[l] = "created"
    /\ Mark(l, "llm_success")
    /\ job' = [job EXCEPT ![l] = "none"]
    /\ UNCHANGED <<sms, pc, txns, linked, useLlm, tries>>

\* The worker is killed; Lambda repeats the event while tries are left.
LlmDie(l) ==
    /\ job[l] \in {"asked", "created"}
    /\ job' = [job EXCEPT ![l] = "queued"]
    /\ UNCHANGED <<sms, pc, status, txns, linked, useLlm, tries, lost>>
-----------------------------------------------------------------------------
LlmStep(l) == LlmStart(l) \/ LlmFail(l) \/ LlmNoAccount(l) \/ LlmCreate(l) \/ LlmFinish(l)

SmsNext ==
    \/ SetUseLlm
    \/ \E l \in Logs :
          \/ \E s \in Sms : CreateSms(l, s)
          \/ MakeTxn(l) \/ MarkSuccess(l) \/ MarkFailed(l) \/ AskLlm(l) \/ EndRequest(l)
          \/ DeleteSms(l) \/ LlmStep(l) \/ LlmDie(l)

SmsSpec == SmsInit /\ [][SmsNext]_smsVars

\* Lambda goes on invoking a queued job and a running one goes on.
LlmFairness == \A l \in Logs : WF_smsVars(LlmStep(l))
-----------------------------------------------------------------------------
(* Properties *)

Statuses == {"none", "success", "failed", "deleted",
             "llm_processing", "llm_failed", "llm_success"}

SmsTypeOK ==
    /\ sms \in [Logs -> Sms \cup {"none"}]
    /\ pc \in [Logs -> {"work", "made", "told", "done"}]
    /\ status \in [Logs -> Statuses]
    /\ txns \in [Logs -> Nat] /\ linked \in [Logs -> Nat]
    /\ useLlm \in BOOLEAN
    /\ job \in [Logs -> {"none", "queued", "asked", "created"}]
    /\ tries \in [Logs -> 0..LlmTries]
    /\ lost \subseteq Logs

\* What a log says of its transaction: "success" has exactly one, and "failed",
\* which every new row says, none, unless the request is about to say better or
\* a status write was lost.
StatusTellsTransaction ==
    \A l \in Logs :
        /\ status[l] = "success" => txns[l] = 1
        /\ status[l] = "failed" /\ txns[l] > 0 => pc[l] = "made" \/ l \in lost

\* A log makes at most one transaction for each run of its job, one for the
\* request of a parsed message: RunLlmParse, repeated after a worker died,
\* looks for none that an earlier run made (sms.llm.service.go:116).
OneTransactionPerRun ==
    \A l \in Logs :
        txns[l] <= (IF sms[l] \in Parsed THEN 1 ELSE tries[l])

\* Every transaction made of a message names its log for as long as the log is
\* there, and none names a log that is gone: neither the ones made before a
\* deletion, nor one a request or a job was about to make (migration 019).
LinksFollowTheLog ==
    \A l \in Logs : linked[l] = IF status[l] = "deleted" THEN 0 ELSE txns[l]

\* The LLM job of a log ends, or has had its last try: a job that died on it
\* stays for ever, and so does a log whose last status write failed.
LlmEnds ==
    \A l \in Logs :
        (job[l] # "none") ~> (job[l] = "none" \/ tries[l] = LlmTries)

\* A log, its transaction and its job agree, through deaths of the server and the
\* job, lost status writes and deletions at any moment.
SmsSafe ==
    /\ SmsTypeOK /\ StatusTellsTransaction /\ OneTransactionPerRun
    /\ LinksFollowTheLog
=============================================================================
