# Finance tracker: TLA+ verification

A verification project for the finance tracker in `src/`: a Go backend (an HTTP Lambda and a worker
Lambda over one Postgres database), a React Native client that forwards bank SMS, and a Next.js web
front end. The models follow the state of all three: what the backend writes and in which order, what
the phone tells its user, what the web pages show and send. Backend paths below are relative to
`src/backend/internal/`, phone paths to `src/finance-tracker-mobile/src/`, web paths to
`src/finance-tracker-web/src/`.

## 1. The system

| part | state | operations | talks to |
|---|---|---|---|
| Ledger (`domain/transaction`, `domain/account`) | `transactions`, `accounts.current_balance`, `users.lifetime_income/expense` | create, soft delete, update; manual overwrite of a balance or a lifetime figure | `TxManager`, `BalanceUpdater` (pool, not transaction), enqueues auto-link |
| Jobs (`tasks`, `dispatcher`, `domain/jobs`, `worker`) | `jobs` rows, Lambda's event queue | enqueue, deliver, mark processing / completed / failed | every background run |
| Reconciliation (`domain/reconciliation`) | uploads, `statement_transactions`, `transaction_reconciliation` | upload, run, delete upload, decide on results | writes the ledger in bulk, runs as a job |
| Statement matching (`recon.service.go`, `utils/fuzzy.go`) | none (pure) | partition, index, score, pair, plan | reconciliation |
| Connection pool (`database/tx.manager.go`) | free connections | query, begin, post, commit, roll back | every request |
| Investments (`domain/investment`) | goals, rules, links, derived `current_value` | link, unlink, auto-link, delete | jobs, ledger |
| SMS (`domain/sms`) | `sms_logs.parsing_status`, their transactions | submit, parse, LLM parse, delete | jobs, ledger |
| Users (`domain/user`, `ParseTxnImage`) | API key and QR code, counts of parsed receipts | issue key, count | phone, profile page |
| Phone (`hooks/`, `screens/`, native SMS store) | permission, key, inbox, displayed list, status of each message | read, hear, submit, pair | `POST /sms` |
| Web requests and cache (`generated/api`, `components/shared/hooks`) | one cache entry per query key, Clerk's session | fetch, mutate, invalidate, poll | backend |
| Web pages (`app/(protected)`, `components/`) | forms, filters, ticks, dialogs, ranges | what the user does, what answers do | cache |
| Signing in (`app/(auth)`, `proxy.ts`) | the step, the navigation under way | attempt, verify, walk, log out | Clerk |
| Frame (routers, validation, errors, logging, config, generated code, static data, landing page) | none of its own | | |

Hard behaviour, and where it lives (`hazards` in PROJECT.json has the lines):

- **Statements that look atomic and are not.** `BalanceUpdater` commits its two updates on connections
  of its own while the row's transaction is still open, and waits for such a connection while holding
  one. `RunReconciliationJob` is some ten statements, none in a transaction. Read and write of a job's
  `attempts`, a rule's `current_value`, the user's key and counts are separate.
- **At-least-once work.** Lambda repeats an event after an error, a timeout or a crash, and may deliver
  it twice at once. The worker neither locks a job nor looks at its status. The phone resubmits what it
  was not told about.
- **Errors that are only logged.** Row marks, upload statuses, balance postings, auto-verify marks and
  the LLM's final status drop their errors; the caller goes on.
- **Stale views.** Matches are computed from a snapshot while users delete; forms are filled from a
  record others change; a screen keeps data for five minutes unless a mutation invalidates it.
- **Answers that come late**, out of order, or not at all, to a page that was left, rebuilt or signed out.
- **Boundaries.** Score thresholds, date windows and percentages, the pool's size, the last page.

What makes each part correct: the balance equals what the live rows say, up to named causes of drift;
a job's row tells what happened to the job; a statement's row becomes at most one transaction and is
posted once; a deleted upload stays deleted; the matching finds the best match; a message shown as sent
is stored; a log, its transaction and its job agree; a scanned key stays valid; a page at rest shows
what the server holds; what the user typed is not lost but by what the user does or a named answer.

## 2. Modules

    AtomicLedger <--implements-- Ledger <-- MCLedger
    JobQueue <-- MCJobQueue      ReconMatch <-- MCReconMatch
        ^                            ^
        +------- Reconciliation -----+          (which also implements JobQueue)
                     ^-- MCReconciliation
    MobileSms, SmsIngest, Investment, UserKey, ConnPool <-- MCServices
    WebApi <-- WebData <-- MCWebData      ReconReview, ReconUploads <-- MCReconPages
    Forms, Tables, Session, Dashboard, EntityPages      <-- MCWebPages

Each module of proofs extends what it is about:

| module | is about | and uses |
|---|---|---|
| SumLemmas | Sums | |
| LedgerProofs | Ledger | SumLemmas |
| JobQueueProofs | JobQueue | |
| MatchProofs | MCReconMatch | SumLemmas |
| ReconciliationProofs | Reconciliation | JobQueueProofs, MatchProofs |
| ServicesProofs | MobileSms, SmsIngest, Investment, UserKey, ConnPool | SumLemmas |
| WebDataProofs | MCWebData, ReconReview, ReconUploads | |
| WebPagesProofs | MCWebPages | SumLemmas |

MCServices, MCReconPages and MCWebPages hold parts that meet only through the server's rows. A behaviour
of such a module is a behaviour of one of its parts (`serving`, `reviewing`, `visiting`, chosen at the
start), the others at rest; their product would say nothing that the parts do not, and the interactions that
matter (a cache entry and the mutation that changes it, a log and its LLM job) are inside one part.

### Ledger (`domain/transaction/txn.service.go`, `account.balance.go`, `tx.manager.go`)

One user. A request handler is `begin + write rows -> {metrics UPDATE -> balance UPDATE}* -> commit`,
with one action per statement, because each of these commits or takes effect on its own. `got` is the
set of rows the open transaction has written and therefore locks; `todo` and `cur` are the loop over
accounts in `SoftDeleteTxns`. `Abort` can strike at every point of a transaction: it rolls the rows
back and leaves what `BalanceUpdater` has committed. `UpdateTxn` changes amount or type without
touching a total, and `SoftDeleteTxns` matches rows that are already deleted: both as in the code.
`opening`, `netBase`, `posted`, `drift` and `torn` are an auditor's notes and guard nothing. Totals are
`SumOf(g, S)` of module Sums, a sum of a function's values over a finite set, here and wherever the
models add up.

`drift[t]` names the only ways in which a row may fall out of step (a create or a delete rolled back
after its posting, a repeated delete, an edit of a row that counts). All properties say what holds of
the rows *outside* it, and the invariant's point is that nothing else belongs on the list: no
interleaving, no order of accounts, no failure at another place.

### AtomicLedger

What the ledger promises: a row and its share of the balance change in one step. `Ledger!LooksAtomic`
is the refinement; the mapping hides a posting made ahead of its commit (`Ahead`).

### JobQueue (`tasks/base.task.go`, `dispatcher/lambda.go`, `worker/worker.go`)

A job is a row and an event. `RecordJob` and `Dispatch` are `EnqueueTask`; `Receive`, `Retry` and `Crash`
are Lambda; `Lookup` and `MarkProcessing` are the two halves of `markProcessing`, kept apart because
`attempts` is read in one and written in the other; `Run` is the handler's work; `Settle` is
`markCompleted`/`markFailed`; `Return` is what Lambda sees. Every row access may fail silently
(`WriteRow`). `begun`, `wins`, `crashed` and `lost` are history. The frame is the same for the welcome
mail, auto-link and reconciliation; the LLM job marks no row and is in SmsIngest.

### ReconMatch (`recon.service.go:230-408`, `scoreMatch`, `TokenJaccard`)

Operators only. A row is `[at, amount, type, desc, ref]`, `at` in ticks (`DayTicks` of them a day), so
that the difference between *calendar days* (the window) and *24-hour periods* (the score) is kept.
Descriptions are token sets; percentages are multiplied out, with the code's behaviour at zero and
negative amounts. `Plan` is the list of results and, through `Creates`, the rows to create. Lists that the code
builds by walking another from its start are `RowsAt(rows, S)`: the rows at the positions `S`, `InOrder`.

### Reconciliation (`recon.service.go`, `recon.repository.go`)

Extends both. The stages of a run replace `JobQueue!Run`: status, rows, latest date, candidates,
creation, metrics, balance, one step per verified match, results, status. `local` holds the variables
of the Go function: the snapshot a run works from while the database changes (`AfterPairing` is what
it holds once rows and transactions are paired). `Fails` is an
error that is returned, `Dies` a killed invocation; errors that are only logged are the second
disjunct of `WriteStatus`, `PostMetrics`, `PostBalance` and `MarkVerified`. `DeleteUpload`, `UserCreates`
and `UserDeletes` happen at any time; the foreign keys show as `Exists(Job(w))`. The batch inserts
are all-or-nothing because pgx sends a batch as one implicit transaction. Users' own postings are
atomic here: their failures are Ledger's subject.

### ConnPool (`database/tx.manager.go`, `account.balance.go`)

Handlers and the connections of one process. A statement outside a transaction takes a connection and
gives it back; a transaction keeps one and asks for a second for each posting (`ask`). A request may
fail wherever it holds one and give up wherever it waits. `Stuck` is a reachable state: as many
transactions as there are connections, each asking for one more.

### SmsIngest (`domain/sms`)

A log's row is written first, with the column's default status, *failed*; then the transaction of a
parsed message and its status, or the failure and the LLM job. The request may end, or the server die,
between any two (`pc`, `EndRequest`). Logs are deleted at any moment: the foreign key refuses a
transaction of a log that is gone, and migration 019 sets the link of those made before to NULL
(`linked`). `JobTypes` is the database's enum of job types. With the one the migrations make
(`MigratedJobTypes`) the LLM job's row is refused and the job never queued: `AskLlm` then does what
`EndRequest` does. The steps of the job are there for a database that has the value, which is what is
checked: its behaviours include the others. The proofs hold for either. `LlmStep` takes the job apart where it waits for Gemini, for the transaction and for its
status; `LlmDie` kills it between any two; Lambda repeats it `LlmTries` times. The job looks for no
transaction an earlier run made: each run may make one. `LlmNoAccount` is a status write that cannot
succeed (22 characters for a VARCHAR(20)).

### MobileSms (`hooks/`, `screens/`, `NotificationSmsModule`)

Permission, pairing by QR code, reading the inbox (native calls in flight are `fetches`), live and
stored broadcasts, the displayed list, and one status per message with its 15-second timer. `posts` are
the requests with what the server did and what the phone was told: an answer may come after the timer,
after the app was killed, or under a replaced key. A scanned key is saved before the callback of that
render is run (`SavedSeeing`): a permission granted meanwhile is one it does not see, and it empties a
list it does not read again (`unread`). Ids follow the code: a live message's id is its date.

### Investment (`domain/investment`)

Goals, rules and links. A link is two steps, insert and sum under one READ COMMITTED snapshot, then the
write of `current_value` and the commit (`writer`); the auto-link job does the same for each transaction
it is asked about, and repeats. Deleting a goal or a rule cascades. `drifted` names the three ways a
sum goes stale; `Uncommitted` are the links the writer has inserted and not committed, which a sum
taken meanwhile does not see. Which rule scores best for a transaction is a constant (`Best`).

### UserKey (`UserService.UpdateUserInternal`, `ApiKeySection`, `TxnService.ParseTxnImage`)

The user's row, which handlers read and write back in separate statements, and two tabs that show it as
they last read it. `raced`, `overlapped`, `noted` and `readable` are history: keys replaced by a request
that had read the row before there was one, whether receipts were at the server at the same time, and how
many went on to Gemini and could be read. A receipt whose user cannot be read, or whose attempt cannot
be written, ends uncounted (`FailUncounted`).

### WebApi and WebData (`generated/api`, `components/shared/hooks`, `app/Providers.tsx`)

WebApi is tables: each call with its verb, where its parameters go and which of the user's data its
handler reads or writes; each hook with its key, its condition, what it invalidates or removes. They are
written file by file, as in the code, and put `Together`. WebData runs one view beside one mutation: the
cache entry with its owner, requests in flight, the session Clerk reports, changes by others, lost
calls, sign-outs, the three-second poll of an upload being processed. A request's number is one that
none under way has. TanStack Query is external: modelled by what the options make it do.

### ReconReview and ReconUploads (`reconciliation/`, `reconciliationComponents/`)

The results table: pages in the cache, filter, ticked rows, the row dialog, decisions in flight from
both. The list of uploads: its form in a dialog with "Discard changes?", uploads and deletes in flight,
the detail page, and the delete dialog of both. In both modules a fetch is asked for, read at the server
(`GetResults`, `GetUploads`) and answered or failed (`Load`, `LoadUploads`, `...Fails`) in steps of
their own, as TanStack Query has it: an answer makes its entry fresh whatever invalidated it meanwhile;
an invalidation asks again, and so stops an answer on its way, only for what is on screen and has been
answered before; a failed fetch puts the error in place of the page. `overtaken` and `untold` are
history: the rows and uploads such an answer hides.

### Forms, Tables, EntityPages

Forms is one machine and a table of the eleven forms: fields, what each requires and defaults to, what
the server refuses, where the form lives and what rebuilds it. A value is empty (0) or one of a few. A
refetch of the list or record beside the form may fail (`RefetchFails`): the page becomes the error, and
`onRetry` brings it back, with the form anew where a dialog was open. `Defaults` fills the form from the
record; west of UTC (`west`) the goal's date is the day before (`DayBefore`).
Tables is the three lists that delete (transactions, SMS, linked transactions) with filter, pages,
ticks, dialogs and deletes in flight. EntityPages is the pages of accounts, goals, rules and one
upload: which of skeleton, error, empty, ready is on screen is a function of the query's state (`View`),
and a form and a dialog's "already confirmed" live only as long as their place on that screen.

### Session and Dashboard

Session is the sign-in and sign-up steps, calls to Clerk in flight (`here` while the page that made them
is up), the proxy in front of each navigation, and Logout. Dashboard is the endpoint's parallel queries,
each of which may see another state of the ledger, and the page: range, preset, `localStorage`,
cards, animated counts.

## 3. Runs

| run | question | bounds | result |
|---|---|---|---|
| `ledger_requests` | do totals follow rows under concurrent, failing requests? | 2 accounts, 2 rows, 2 handlers, 4 requests, amounts 0 and 2 | holds |
| `ledger_rollback` | does a rollback undo its posting? (documented) | 1 of each, 2 requests | violated |
| `jobs_duplicates` | what survives duplicate delivery? | 1 job, 2 workers, 3 tries, 2 copies | holds |
| `match_rows` | do the loops find the best match, and does what is decided without the user rest on the amounts? | <= 2 rows, <= 2 candidates, half-day ticks around the window's edges; 1 x 1 with amounts at 0, equal, 1, 3, 10 percent | holds |
| `recon_retries` | a run, its failure, its retry: do the job's row and the upload tell how it ended? | 2-row file, 2 tries | holds |
| `recon_users` | the user deletes the upload or a transaction during the run; is every job answered, does every upload come to rest? | 1-row file and the user's own copy, 2 tries, fairness | holds |
| `recon_uploads` | two uploads of one file, two workers at once | 1-row file; symmetric in uploads and workers, whose names no definition tells apart | holds |
| `recon_missing` | documented: only what is missing is created | as `recon_users` | violated |
| `services` | phone, SMS, investments, key, receipts, pool: do rows that belong together agree, does every wait end? | below | holds |
| `web_data` | does a view at rest follow the server, over every related pair of view and mutation? | below | holds |
| `recon_pages` | do the pages of reconciliation show the server's decisions and uploads, is an upload made once and its form kept? | below | holds |
| `web_pages` | forms, lists, entity pages, signing in, dashboard: is what the user did kept, and done once? | below | holds |

Why the bounds are enough to meet the interesting cases:

- *Two rows and two accounts* let a batch delete span accounts and overlap another request on one
  of its rows; with *four requests* a row can be created, deleted, deleted again and edited. Amount 0
  reaches the early return of `ApplyBatch`; a credit and a debit cancel each other in a batch only when equal.
- *Three tries* is Lambda's actual number, used where the job is all there is. The reconciliation uses
  two: the second try meets everything the first left behind, and a third meets the same kinds of state.
  `MaxCopies` is 1 where a property is about retries and 2 where duplicates are the question.
- *One account* in the reconciliation: no statement of the run reads another account.
- *Times* are chosen on both sides of every edge: same calendar day but different tick, adjacent
  days less than 24 hours apart, exactly two days, more than two days.
- `services`: two messages, one in the inbox before the app and both with one date, so that two live
  ones would share an id (the code makes ids of dates); 2 posts, so that a message is submitted again;
  one inbox read at a time, one upset (a kill or a replaced key). Two logs and three kinds of message
  (parsed, failed, failed with an unknown account), over the enum with LLM_SMS_PARSE, and two tries of its
  job. One goal, one rule, two transactions and two writers, which is
  what a lost update takes. Two tabs, 2 keys; 3 receipts, so that two may overlap and a third follow;
  one loss. Three handlers on two connections: two can block each other, the third finds none.
- `web_data`: every pair of a query and a mutation that changes it or invalidates its key, with one
  mutation and one fault; three pairs (a list, the dashboard, a deleted upload) also with another
  client's change and a sign-out.
- `recon_pages`: two rows on two pages, 2 decisions, one of which may be lost, and no row
  ticked or opened after the last; fetches of results and their failures are not bounded. 2 forms of 2 fields and 2 uploads, one lost call or failed fetch, one
  delete under way at a time (`MaxDeleting`; the theorems hold for any number).
- `web_pages`: all eleven forms, each with one or two of its fields, picked for what its table says of
  them (`MCWatched`: a required one, a date, a number, a checkbox): fields do not influence each other
  but through touching, sending and rebuilding. The user of the goal's edit form is west of UTC. Two openings and two submissions (a double press, or a
  retry after a loss), one upset. Two rows with pages of 1 and of 2, two deletes and one change made
  elsewhere; 4 calls to Clerk and 3 walks. Months of 2 days, 3 transactions and 2 moves put a
  transaction on each side of a range's end. An animated count has 2 ticks for the code's 60, a last
  one and one that is not.
- Counters are bounded by guards (`Max...`); no state constraint is used. Deadlock checking is off:
  requests, jobs and uploads are finite in number, the system comes to rest.

Every property has a mutant, a small change of the kind a maintainer could make (a lock that is not
taken, a status written too early, one page invalidated instead of all), under which its run fails.

### Properties worth knowing

The invariants of the three large runs are conjunctions, one per part; the parts:

- `BalanceExact`, `BalanceIsLedger`, `MetricsFollowBalance`, `NeverCountedTwice`: see Ledger.
- `RowNeverOverclaims`: a row says completed only after a run of its job succeeded, and the lost
  updates of `attempts` only lose.
- `RowTellsOutcome`: for a job whose row was always reachable and whose worker never died, the row
  at rest is the truth, `failed` only after all tries. `CompletedIsFinal`: nothing but a death or a
  duplicate brings a completed job back (a death in the auto-link after the mark does: the exclusion
  of `crashed` is that case).
- `AgreesWithReference` compares the indexes and nested loops with a declarative best match;
  `ExactIsSpent`: a second row of an exact key may be paired with the transaction the first one got,
  since the code takes it out of one of its two maps only, but at the confidence its score gives it.
  `DecidedOnAmounts` says that the weights can auto-accept nothing beyond three percent, which nobody
  can read off four score tables, and that a row is created only with no unverified transaction of its
  type within 48 hours, or a fetched one within two calendar days. The query cuts at 48 hours around the
  first and last row, with the time of day, so that two calendar days is not promised of the rest;
  `outside` holds what it leaves out. The percentage is about positive amounts; a zero or negative one
  scores 25 against anything.
- `RecreatedOnlyVerified`: a retry or a second upload creates a row again only if the first was
  deleted or verified in between. The exclusion is the defect `OnlyMissingCreated` exhibits.
- `AutoPostedOnce`: whatever fails, dies or is retried, a created transaction is in the balance once
  while it lives, or named in `unposted`/`unmetered`. `DeletedLeavesNothing`: a worker in the middle of
  a deleted upload adds nothing to it.
- `MobileSafe`: shown as sent means stored; stored twice only if the phone could not know
  (`excused`); the list holds all of the last read, unless the permission came while a scanned key
  was being saved. `SmsSafe`: *success* has exactly one transaction, *failed* none but where a status write
  was lost, each run of a job makes at most one, and a transaction names its log just as long as the log is
  there (`LinksFollowTheLog`). `LlmEnds`: every LLM job ends or has had its last try.
- `InvestmentSafe`: `current_value` is the sum of the links up to the three named causes, links never
  outlive rule or goal, the job links once per time it was asked (so a redelivery links twice).
- `UserSafe`: a key a phone has scanned is replaced only by one asked for before there was a key; a
  tab's code is of its key; no receipt is counted twice, and unless two overlapped the attempts are the
  receipts that went on to Gemini and the successes those it read.
- `PoolSafe`: connections are never lost, and requests block each other only when as many
  transactions as connections ask for a second.
- `SettledViewIsTrue`: a page at rest shows every own change. `LeftStale` lists the pairs of view and
  mutation for which the code forgets to invalidate; the property says there are no others.
  `DataMovesForward`: no late answer puts older data over newer.
- `LastWordStands`: the server ends with the user's last word on each row. `TableIsTrue`: a page at rest
  shows it, but for rows whose decision was answered while an older read of their page was on its way
  (`overtaken`: the user had paged away, or it was the page's first read); such a row is shown wrong
  until its page is fetched again. `OneUploadPerForm`; `ListIsTrue`, likewise up to `untold`.
  `FormIsKept`: what is filled in goes by Reset, Discard, an upload's answer, a list that turns from
  empty to full, or a refetch that fails.
- `OneRecordPerForm`, `RefusedForDatesOnly` (what a form lets through is refused only for a calendar day
  where the server reads an instant). `OnlyTouchedChanges`: a save changes what the user set, or others
  meanwhile, and west of UTC the goal's date. `TypedIsKept` and `TypedIsLostOnlyThen` name what takes typed
  input away, a failed refetch among it; a refusal, a lost call and a write by others take nothing.
- `EveryRowOnOnePage`, `NeverPastTheEnd`, `AskedAreGone` (what was confirmed is deleted, nothing else),
  `DialogNamesRows`; `ScreenIsTrue`, `MadeIsListed`, `DeletedOnce`.
- `PageFitsSession`, `OneTryAtATime`, `CodeWasMailed`; `FiguresOfThePeriod`, `CardsAgree` (when the
  ledger was left alone between the queries), `SharesMakeTheWhole`, `OverspentIsSaid`,
  `CountEndsAtTheTotal`, `PickIsKept`.

### Fairness

- `ReconFairSpec`: weak fairness of each worker's step. Lambda keeps invoking while it holds events, and
  Go code that is not killed goes on. Nothing is assumed of users or enqueuers, so a row may stay
  pending. A crash is always possible and never forced; tries are finite, so `EveryUploadSettles`
  (the job's row is answered, the upload leaves PROCESSING) holds along every behaviour, crashes included.
- `PhoneFairness`: a request's timer and callbacks run (the event loop). Nothing of the network or the
  server: `SendingEnds`, half of `EveryWaitEnds`, rests on the 15-second timer alone.
- `LlmFairness`: Lambda repeats a failed job and a running one goes on. A job that dies
  on its last try stays, which `LlmEnds`, the other half, says.
- `WebFairness`: a fetch is sent and settles (browsers time out), the poll's timer fires while its page
  is mounted. Nothing is assumed of the server's work, which may never end (no error path writes the
  upload's status): `PollSeesTheEnd` speaks of the time once it is over. It excludes an upload that was deleted: the page
  polls its 404 for ever.

No strong fairness: a step once enabled stays enabled, except receiving an event another worker takes,
which is progress too.

### Disagreements with the documents

Two runs exhibit a disagreement between the code and a plan or comment (`findings` quotes the lines):
postings survive a rollback (`ledger_rollback`); a retry after verification creates a transaction that was
found (`recon_missing`). Others follow from the models and have no run:

- A bank posting later than the account's latest transaction is created without being matched, where
  `txn_reconcilation_plan.md:2020-2021` promises a tolerance (`ReconMatch!Plan` sends every row outside
  the overlap to creation).
- Duplicate deliveries run a job twice, where line 2104 of that plan says "Job locking prevents duplicate
  processing" (`JobQueue!Receive`).
- No upload ever becomes FAILED, where its line 1536 says "PROCESSING --> FAILED: Error occurred": the
  errors of a run return without writing the upload (`Reconciliation!Fails`).
- The LLM fallback is never queued with the schema of the migrations: `EnqueueTask` inserts a row of type
  LLM_SMS_PARSE (`tasks/base.task.go:50`), which the `job_type` enum lacks, and the error is logged.
  `mobile_sms_backend_integration_plan.md:115` says "If true → enqueue LLmSmsParse task with sms_log.id"
  (`SmsIngest!AskLlm`).
- West of UTC each save of the goal form moves an untouched date a day back: `InvestmentGoalForm.tsx:151-160`
  formats a UTC midnight as a local day (`Forms!DayBefore`).

## 4. Proofs

All theorems hold for every value of the constants under the `ASSUME`s of the modules: types and amounts
are sets of types and integers, bounds are naturals, `Txns`, `Procs`, `Workers`, `Handlers` and `RowIds`
finite (an id is a uuid, a process has finitely many threads), the pool not empty, statement files sorted
by time (the query orders them), times natural and amounts integers, presets of at least a month over a
finite ledger, an upload with results for the review page, a largest page size, and
names that stand for *nothing* (`NoNav`, `NoUpload`, `"none"`, `Unread`) not names of something.
Three of the properties of the passing runs are liveness; every other one is stated by a theorem.

**SumLemmas.** What a total over a finite set is. The library's `MapThenSumSet` chooses a recursive
function over the subsets; the module shows that it exists, that there is only one, and that the total
does not depend on the order in which the elements are taken. Induction over finite sets is the search
for a smallest counterexample, strict inclusion being well-founded. What later proofs cite is short:
`SumSame`, `SumRest`, `SumPosting` (some values change), `SumWithout`, `SumDifference`, `SumUnion`,
`SumByClass`.

**LedgerProofs.** `LedgerInv` is inductive: `TypeOK`, `OneWriter`, `HeldStatus`, `RowsHaveBodies`, `CursorOK`
and two of the properties. `BalanceExact` alone is not inductive: to know that a posting moves the row from
*as before* to *as after*, the proof needs that nobody else holds the row, that its status fits the
request, and that the cursor covers exactly the accounts not yet done. One lemma per action; theorems
`TypeCorrect`, `BalanceIsExact`, `LinkJobsAreCommitted`, and `LedgerRefinesAtomicLedger`: the mapped
count of a row is a function of the row alone (`CountIsSettled`), so every statement but the commit, an
edit and an abort maps to a stutter, and those to `Create`, `Delete`, `Edit` and `Drift`. Its second half is
about totals:
- `NoRowIsCountedTwice`, from `CountInv`: a row has been counted `k` times with `-reqs <= k <= 1`, where a
  create that has yet to post finds `k <= 0` and a delete that has yet to post has a request of its own to
  use up (`Owes`). The bound in the property is `MaxReqs`; the invariant must count with `reqs`, or a
  delete could not be paid for.
- `BalanceShowsLedger`: the balance is the opening one plus the sum over all rows of what was posted for
  each (`BalanceInv`), which `BalanceExact` turns into the sum over the live rows.
- `MetricsFollow`: a posting reaches the lifetime figures one statement before it reaches the balance, so
  the two differ by what the handlers between the statements have in hand, a sum over `Busy`.

**JobQueueProofs.** `JobInv` is inductive. Its interesting part is `AttemptsBounded`: a lost update of
`attempts` can only lose, because the invocations between reading and writing (`Counting`) are themselves
part of `begun`; the proof counts them with `Cardinality`. Theorems `TypeCorrect`, `EventsAlwaysHaveRows`,
`RowsNeverOverclaim`. `FinalInv` adds where the single copy of an event can be, and gives
`CompletedStaysCompleted`. `OutcomeInv` tells the story of a job in four chapters (not yet sent, queued, in
hand, told): at each, the tries left and the deliveries begun make `MaxTries`, so a row that says
*failed* has used all of them; hence `RowsTellOutcomes`.

**MatchProofs.** What the loops of the matching compute, for statements and lists of any length. The
library's fold chooses a recursive function; that it exists is again the search for a smallest
counterexample, and from then on a fold is a trace `acc[0 .. n]` each of whose members follows from the one
before (`BetterFold`, `DayFold`, `RowFold`). Following them:
- `LoopsFindTheBest`: after some days and some candidates of the next, the best so far beats all others seen,
  or nothing scored (`Leads`, kept by `BetterLeads`); and after `m` rows `exactMap` holds the keys no
  earlier row has asked for (`AfterRows`). With `PlanIs` (the overlap rows come first, each with what the
  loop gave it) the plan is the reference's.
- `ExactMatchesAreSpent` follows from the same trace.
- `DecisionsRestOnAmounts` assumes `Threshold > 65`: date, description and reference score 40, 15 and 10 at
  most, so at a lower threshold, which a user may set, they can accept a match of any amount.

**ReconciliationProofs.** `ReconciliationIsAJob`: each step of the reconciliation is a step of JobQueue or
leaves its variables alone, so the job theorems hold of it. On top of `Sound` (the job invariants, the
types, every upload in work was asked for):
- `DeletionIsFinal`: no row, result or link survives its upload, whatever a worker does in the middle.
- `UploadsTellOutcomes`: `COMPLETED` and a won job imply each other up to a status write that failed.
- `CompletedUploadsAreReported`: from the moment a run holds its rows, the list of its results is as long,
  through pairing and creation (`ReportInv`).
- `CreatedIsPostedOnce`: a created row that lives has, in metrics and in balance, what was posted, what one
  worker still owes and what is named as given up, together one; and the sets `made` of workers are
  disjoint, so that one owes at most (`MadeInv`).
- `ReconTypeCorrect`: the results a run holds name transactions that are there, through the renaming of the
  pairing and the ids of the batch (`NamesInv`); with `MadeInv`, a transaction is in a total -1 to 1 times.
- `RecreatedWereVerified`: a hash is in one upload and, with one copy of its event, an upload in the hands
  of one worker. So while a run is between reading and creating nobody else creates its rows
  (`OthersDiffer`); and what was created before is no later than the date it read (`LatestCovers`), so its
  row is in the overlap, so it is fetched unless verified, and by `PairedIs` a row with a transaction of
  its type and day among those fetched is not missing (`MissingAreNew`). The user's deletions,
  of a transaction or of the upload, only take premises away.

**ServicesProofs.** One invariant per part of `services`:
- `MobileIsSafe`: of two posts of a message one is spent (refused or lost, and the phone knows), unless the
  phone could not know; so a new one is made only when nothing was stored (`SubmitInv`). The list on
  screen has all of the last read, while reads and broadcasts cross (`ScreenInv`).
- `SmsIsSafe`, log by log, for any enum: nothing was made of a log before its request, which makes the first
  transaction of its log; only a message the phone could not parse has a job, and a job waiting
  for its answer has its own try still to spend.
- `UserIsSafe`: whatever a tab shows or a phone has scanned is the row's key or one replaced by a
  request that had found none (`KeyInv`); and either receipts overlapped, or the row's counts are those
  of the receipts noted and read, or one receipt alone is between reading and writing them. That no
  count exceeds what was sent is the receipts not yet counted leaving room for it, a `Cardinality`
  (`ReceiptInv`).
- `InvestmentIsSafe`: what a writer has in hand is the sum it will write, up to the named drifts; the job's
  links are counted with those not yet committed.
- `PoolIsSafe`: free connections and those held (one or two a request) add up to `MaxConns`.
  `FewRequestsGoOn`: fewer handlers than connections never block each other, which is what a Lambda, with
  one request at a time, relies on without saying so.

**WebDataProofs.** `WebIsSafe` (with `SettledViewIsTrue`) needs two things. The first is a fact about
the tables, for every mutation and query: if the mutation changes what the query shows, one of its
invalidated keys reaches the query's, or the pair is in `LeftStale` (`TablesCover`). The second,
`ViewInv`, is about time: every own change that an entry or an answer under way does not show is still
in its mutation's hands, which will invalidate it, or is `LeftStale`; an answer read too early is one
the invalidation will ask again. A free number for a new request exists by the pigeonhole principle.
`DataMovesOn` follows from it. For `ReviewIsSafe` a decision is followed to the cache: the server holds
the word on a row or a decision under way will bring it (`WordIsUnderWay`), and whatever was read of a
page - an answer on its way, an entry neither invalidated nor being fetched - holds what the server
does, but for rows whose decision is applied and about to be answered, which invalidates them, and those
named `overtaken` or `doubtful` (`CacheIsTrue`). `UploadsAreSafe` says the same of uploads made and
deleted (`Explained`, up to `untold`), and that a form has one upload under way at most (`FormOnce`).
`FilledFormIsKept` needs of it that a form behind a failed list is empty.

**WebPagesProofs.** `SessionIsSafe`, `TablesAreSafe`, `FormsAreSafe`, `EntityIsSafe`, `DashIsSafe`, and
`PagesKeepInput` for the action properties of lists, forms and entity pages. The invariants say what a
call under way knows: who asked for it and whether that page is still up (`SessionInv`), that rows asked
to be deleted are not in anyone's list of rows to come (`ListInv`), that a form has one chance to send
what it holds, and sends of an untouched field what was read, a day less for a goal's date west of UTC
(`FormInv`), that whatever of the page's own doing is missing on screen is in a request sent since
(`EntityInv`). Of the dashboard's answers the invariant (`DashInv`) keeps only that each is one the
server gives to its own range; that the cards of such an answer agree is a fact about sums
(`ByCategory`, `ByAccount`, `TrendEnds`), and that the shares make the whole is a bound on rounding
errors, one share at a time (`SharesOf`).

Writing these proofs corrected the models in one respect: `CASE` arms that overlap stand for any of the
arms in TLA+, while TLC takes the first. The screens of EntityPages (`AccountsPage` and the others) and the
phone's `Screen` said it by order; they are `IF` chains now, as in the code.

Only model-checked: liveness (`EveryUploadSettles`, `EveryWaitEnds`, `PollSeesTheEnd`), which needs
fairness and ENABLED, out of the prover's reach. The two violated properties are shown by their
counterexamples. No theorem is about a `RECURSIVE` operator; none is used in a module with proofs.

## 5. Not modelled, and why

- Reading workbooks, formatting, listing queries; hard deletion of accounts and users (blocked by
  foreign keys or cascading everything away).
- The auto-link inside a reconciliation (logged and ignored there; as a job it is in Investment).
- How an auto-link scores a rule: amounts, dates and tolerances enter as the best rule of each
  transaction.
- Progress rings and summary figures of goals, portfolio and results, the page size of the results,
  the geometry of charts: functions of rows modelled elsewhere.
- "Run Auto-Link" of dashboard design B, a button that is never enabled, and `DataGrid` with its
  `cellEditors.tsx`, which no page uses.
- Next's prefetch cache; TanStack Query, Clerk, Lambda and the network are external, modelled by what
  this code makes of them.
- Landing page, theme previews and the wrappers of Radix components: markup without program state.
- Read-only endpoints, static data, token checks, the authentication webhook (one user row and a
  welcome job, which JobQueue covers), the HTTP frame, generated code.
- Gemini, e-mail, storage: their success or failure is a choice of the caller.
- One hazard has no property: messages stored while the app was closed are dropped when the store is
  drained before permission is known (`usePendingSms.ts:25`). `MobileSms!Drain` models the loss.

## 6. Plan

Done: all modules above, their runs, the theorems of section 4. What would add most next:

1. **Late reads on the other pages:** EntityPages, Tables and Forms take reading and answering as one step,
   so they say nothing of an answer that was read before a change and arrives after it; WebData, ReconReview
   and ReconUploads take the two apart. A list read late would need the same there.
