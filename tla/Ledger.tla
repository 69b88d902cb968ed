------------------------------- MODULE Ledger -------------------------------
(***************************************************************************)
(* The transactions table and the three stored totals that must follow it: *)
(* accounts.current_balance, users.lifetime_income and                     *)
(* users.lifetime_expense, for one user.                                   *)
(*                                                                         *)
(* A request (POST /transaction, DELETE /transaction) runs inside          *)
(* TxManager.WithTx, but BalanceUpdater is built from the pool's queries   *)
(* and never looks for the transaction in its context: each of its two     *)
(* UPDATEs commits on its own, before the transaction that holds the row   *)
(* commits or rolls back.  So a request is the sequence                    *)
(*                                                                         *)
(*   begin + write rows -> { metrics UPDATE -> balance UPDATE }* -> commit *)
(*                                                                         *)
(* and every arrow is a point where other requests run and where this one  *)
(* may die (statement error, cancelled context, lost connection, crash).   *)
(***************************************************************************)
EXTENDS Integers, FiniteSets, Sums

CONSTANTS
    Accounts,   \* the user's accounts
    Txns,       \* ids of transaction rows (gen_random_uuid)
    Procs,      \* request handlers: goroutines, or Lambda environments
    Types,      \* the transaction types in play
    Amounts,    \* the amounts in play; the API accepts any sign
    MaxReqs,    \* bound: how many requests are ever accepted
    NoAccount   \* "no account": no statement between its two UPDATEs

CreditTypes == {"CREDIT", "INCOME", "REFUND", "INVESTMENT"}
DebitTypes  == {"DEBIT", "SUBSCRIPTION"}
TxnType     == CreditTypes \cup DebitTypes

ASSUME TypesAssumption   == Types \subseteq TxnType
ASSUME AmountsAssumption == Amounts \subseteq Int
ASSUME MaxReqsAssumption == MaxReqs \in Nat
ASSUME NoAccountAssumption == NoAccount \notin Accounts

\* An id is a uuid, and a process runs finitely many handlers.
ASSUME FiniteAssumption == IsFiniteSet(Txns) /\ IsFiniteSet(Procs)

Bodies == [acc : Accounts, type : Types, amount : Amounts]
NoBody == [acc |-> NoAccount, type |-> "NONE", amount |-> 0]

VARIABLES
    (***********************************************************************)
    (* The database                                                        *)
    (***********************************************************************)
    status,     \* per row: none, pending (uncommitted INSERT), live,
                \* deleted (deleted_at set) or void (INSERT rolled back)
    body,       \* per row: account, type and amount
    balance,    \* per account: current_balance
    income,     \* lifetime_income
    expense,    \* lifetime_expense
    linkJobs,   \* rows handed to the auto-link queue
    (***********************************************************************)
    (* The request handlers                                                *)
    (***********************************************************************)
    pc, op,     \* per handler: where it is, and in which request
    got,        \* rows its open transaction has written (and locked)
    todo,       \* accounts it still has to adjust
    cur,        \* the account between its metrics and its balance UPDATE
    reqs,       \* requests accepted so far
    (***********************************************************************)
    (* What an auditor would want to know (read by no action's guard)      *)
    (***********************************************************************)
    opening,    \* per account: the balance the user typed, less the postings
    netBase,    \* the same for income - expense
    posted,     \* per row: the net amount its requests added to the balance
    drift,      \* per row: why its posting may no longer match it
    torn        \* accounts for which a request died between its two UPDATEs

dbVars   == <<status, body, balance, income, expense, linkJobs>>
procVars == <<pc, op, got, todo, cur, reqs>>
audit    == <<opening, netBase, posted, drift, torn>>
vars     == <<dbVars, procVars, audit>>

Ops        == {"create", "delete"}
InTx       == {"metrics", "balance", "commit"}
PcValues   == InTx \cup {"idle", "enqueue"}
DriftKinds == {"lost_create", "lost_delete", "redelete", "edit"}

-----------------------------------------------------------------------------
(***************************************************************************)
(* computeDeltas: what one transaction does to the three totals.           *)
(***************************************************************************)
IncomeDelta(b)  == IF b.type \in CreditTypes THEN b.amount ELSE 0
ExpenseDelta(b) == IF b.type \in DebitTypes THEN b.amount ELSE 0
Effect(b)       == IncomeDelta(b) - ExpenseDelta(b)

Visible(t)  == status[t] \in {"live", "deleted"}
Owner(p, t) == pc[p] \in InTx /\ t \in got[p]   \* p's transaction wrote t
Locked(t)   == \E p \in Procs : Owner(p, t)
Rows(p, a)  == {t \in got[p] : body[t].acc = a}
RowsOf(a)   == {t \in Txns : body[t].acc = a}

\* Mutant of Sign: SoftDeleteTxns forgets to negate.
SignForgotten(p) == 1

\* SoftDeleteTxns reverses, CreateTxn applies.
Sign(p) == IF op[p] = "create" THEN 1 ELSE -1

IncomeStep(p, a)  == Sign(p) * SumOf([t \in Txns |-> IncomeDelta(body[t])], Rows(p, a))

\* Mutant of ExpenseStep: ApplyBatch is handed expenseDelta, not -expenseDelta.
ExpenseStepUnsigned(p, a) == SumOf([t \in Txns |-> ExpenseDelta(body[t])], Rows(p, a))

ExpenseStep(p, a) == Sign(p) * SumOf([t \in Txns |-> ExpenseDelta(body[t])], Rows(p, a))
BalanceStep(p, a) == Sign(p) * SumOf([t \in Txns |-> Effect(body[t])], Rows(p, a))

\* Request p has already adjusted the account of its row t.
Applied(p, t) == body[t].acc \notin todo[p] \cup {cur[p]}

-----------------------------------------------------------------------------
Init ==
    /\ status = [t \in Txns |-> "none"]
    /\ body = [t \in Txns |-> NoBody]
    /\ balance = [a \in Accounts |-> 0]
    /\ income = 0
    /\ expense = 0
    /\ linkJobs = {}
    /\ pc = [p \in Procs |-> "idle"]
    /\ op = [p \in Procs |-> "create"]
    /\ got = [p \in Procs |-> {}]
    /\ todo = [p \in Procs |-> {}]
    /\ cur = [p \in Procs |-> NoAccount]
    /\ reqs = 0
    /\ opening = [a \in Accounts |-> 0]
    /\ netBase = 0
    /\ posted = [t \in Txns |-> 0]
    /\ drift = [t \in Txns |-> {}]
    /\ torn = {}

Accept ==
    /\ reqs < MaxReqs
    /\ reqs' = reqs + 1

(***************************************************************************)
(* CreateTxn / CreateTxnCtx up to the end of TxnRepository.CreateTxns:     *)
(* BEGIN and the INSERT.  The row exists for this transaction only.        *)
(***************************************************************************)
CreateTxn(p, t, b) ==
    /\ pc[p] = "idle"
    /\ status[t] = "none"
    /\ Accept
    /\ status' = [status EXCEPT ![t] = "pending"]
    /\ body' = [body EXCEPT ![t] = b]
    /\ op' = [op EXCEPT ![p] = "create"]
    /\ got' = [got EXCEPT ![p] = {t}]
    /\ todo' = [todo EXCEPT ![p] = {b.acc}]
    /\ pc' = [pc EXCEPT ![p] = "metrics"]
    /\ UNCHANGED <<balance, income, expense, linkJobs, cur, audit>>

\* Mutant of SoftDeleteTxns: the rows are read without waiting for their locks.
SoftDeleteUnlocked(p, T) ==
    LET rows == {t \in T : Visible(t)}
        accs == {body[t].acc : t \in rows}
    IN  /\ pc[p] = "idle"
        /\ Accept
        /\ op' = [op EXCEPT ![p] = "delete"]
        /\ got' = [got EXCEPT ![p] = rows]
        /\ todo' = [todo EXCEPT ![p] = accs]
        /\ pc' = [pc EXCEPT ![p] = IF accs = {} THEN "commit" ELSE "metrics"]
        /\ UNCHANGED <<dbVars, cur, audit>>

\* Mutant of SoftDeleteTxns: the UPDATE runs on the pool, not in the transaction.
SoftDeleteAutocommit(p, T) ==
    LET rows == {t \in T : Visible(t)}
        accs == {body[t].acc : t \in rows}
    IN  /\ pc[p] = "idle"
        /\ \A t \in rows : ~Locked(t)
        /\ Accept
        /\ status' = [t \in Txns |-> IF t \in rows THEN "deleted" ELSE status[t]]
        /\ op' = [op EXCEPT ![p] = "delete"]
        /\ got' = [got EXCEPT ![p] = rows]
        /\ todo' = [todo EXCEPT ![p] = accs]
        /\ pc' = [pc EXCEPT ![p] = IF accs = {} THEN "commit" ELSE "metrics"]
        /\ UNCHANGED <<body, balance, income, expense, linkJobs, cur, audit>>

(***************************************************************************)
(* SoftDeleteTxns up to the RETURNING * of its UPDATE.  The WHERE clause   *)
(* has no deleted_at guard, so rows that are already deleted come back     *)
(* too; the statement waits for the row locks of other requests; ids of no *)
(* visible row are ignored.                                                *)
(***************************************************************************)
SoftDeleteTxns(p, T) ==
    LET rows == {t \in T : Visible(t)}
        accs == {body[t].acc : t \in rows}
    IN  /\ pc[p] = "idle"
        /\ \A t \in rows : ~Locked(t)
        /\ Accept
        /\ op' = [op EXCEPT ![p] = "delete"]
        /\ got' = [got EXCEPT ![p] = rows]
        /\ todo' = [todo EXCEPT ![p] = accs]
        /\ pc' = [pc EXCEPT ![p] = IF accs = {} THEN "commit" ELSE "metrics"]
        /\ UNCHANGED <<dbVars, cur, audit>>

\* Mutant of PostMetrics: the loop visits the account again.
PostMetricsAgain(p, a) ==
    /\ pc[p] = "metrics"
    /\ a \in todo[p]
    /\ reqs < MaxReqs
    /\ reqs' = reqs + 1
    /\ income' = income + IncomeStep(p, a)
    /\ expense' = expense + ExpenseStep(p, a)
    /\ cur' = [cur EXCEPT ![p] = a]
    /\ pc' = [pc EXCEPT ![p] = "balance"]
    /\ UNCHANGED <<status, body, balance, linkJobs, op, got, todo, audit>>

(***************************************************************************)
(* BalanceUpdater, first statement: AdjustUserLifetimeMetrics, committed   *)
(* at once.  The accounts of a batch come in map order: any order.         *)
(***************************************************************************)
PostMetrics(p, a) ==
    /\ pc[p] = "metrics"
    /\ a \in todo[p]
    /\ income' = income + IncomeStep(p, a)
    /\ expense' = expense + ExpenseStep(p, a)
    /\ todo' = [todo EXCEPT ![p] = @ \ {a}]
    /\ cur' = [cur EXCEPT ![p] = a]
    /\ pc' = [pc EXCEPT ![p] = "balance"]
    /\ UNCHANGED <<status, body, balance, linkJobs, op, got, reqs, audit>>

\* Account a of request p is done: the audit of its rows, and the next pc.
Posted(p, a) ==
    /\ posted' = [t \in Txns |-> IF t \in Rows(p, a)
                                 THEN posted[t] + Sign(p) * Effect(body[t])
                                 ELSE posted[t]]
    /\ drift' = [t \in Txns |-> IF t \in Rows(p, a) /\ status[t] = "deleted"
                                THEN drift[t] \cup {"redelete"}
                                ELSE drift[t]]
    /\ pc' = [pc EXCEPT ![p] = IF todo'[p] = {} THEN "commit" ELSE "metrics"]

(***************************************************************************)
(* BalanceUpdater, second statement: AdjustAccountBalance, committed at    *)
(* once.                                                                   *)
(***************************************************************************)
PostBalance(p) ==
    /\ pc[p] = "balance"
    /\ balance' = [balance EXCEPT ![cur[p]] = @ + BalanceStep(p, cur[p])]
    /\ cur' = [cur EXCEPT ![p] = NoAccount]
    /\ todo' = todo
    /\ Posted(p, cur[p])
    /\ UNCHANGED <<status, body, income, expense, linkJobs, op, got, reqs,
                   opening, netBase, torn>>

(***************************************************************************)
(* ApplyBatch returns early when its three deltas are zero; Apply, which   *)
(* CreateTxn uses, does not.                                               *)
(***************************************************************************)
SkipAccount(p, a) ==
    /\ pc[p] = "metrics"
    /\ op[p] = "delete"
    /\ a \in todo[p]
    /\ IncomeStep(p, a) = 0
    /\ ExpenseStep(p, a) = 0
    /\ BalanceStep(p, a) = 0
    /\ todo' = [todo EXCEPT ![p] = @ \ {a}]
    /\ Posted(p, a)
    /\ UNCHANGED <<dbVars, op, got, cur, reqs, opening, netBase, torn>>

(***************************************************************************)
(* tx.Commit: the rows become visible (create) or deleted.  CreateTxn goes *)
(* on to enqueue the auto-link task, outside the transaction.              *)
(***************************************************************************)
Commit(p) ==
    /\ pc[p] = "commit"
    /\ status' = [t \in Txns |-> IF t \in got[p]
                                 THEN IF op[p] = "create" THEN "live" ELSE "deleted"
                                 ELSE status[t]]
    /\ IF op[p] = "create"
       THEN /\ pc' = [pc EXCEPT ![p] = "enqueue"]
            /\ UNCHANGED got
       ELSE /\ pc' = [pc EXCEPT ![p] = "idle"]
            /\ got' = [got EXCEPT ![p] = {}]
    /\ UNCHANGED <<body, balance, income, expense, linkJobs, op, todo, cur, reqs,
                   audit>>

(***************************************************************************)
(* A statement fails, the context is cancelled, or the process dies: the   *)
(* open transaction rolls back.  What BalanceUpdater committed stays.      *)
(***************************************************************************)
Abort(p) ==
    /\ pc[p] \in InTx
    /\ status' = [t \in Txns |-> IF t \in got[p] /\ op[p] = "create"
                                 THEN "void" ELSE status[t]]
    /\ drift' = [t \in Txns |->
                   IF t \in got[p] /\ Applied(p, t)
                   THEN drift[t] \cup
                        {IF op[p] = "create" THEN "lost_create" ELSE "lost_delete"}
                   ELSE drift[t]]
    /\ torn' = torn \cup ({cur[p]} \ {NoAccount})
    /\ pc' = [pc EXCEPT ![p] = "idle"]
    /\ got' = [got EXCEPT ![p] = {}]
    /\ todo' = [todo EXCEPT ![p] = {}]
    /\ cur' = [cur EXCEPT ![p] = NoAccount]
    /\ UNCHANGED <<body, balance, income, expense, linkJobs, op, reqs, opening,
                   netBase, posted>>

\* Mutant of EnqueueAutoLink: called inside the WithTx closure.
EnqueueInsideTx(p) ==
    /\ pc[p] \in {"commit", "enqueue"}
    /\ op[p] = "create"
    /\ linkJobs' = linkJobs \cup got[p]
    /\ pc' = [pc EXCEPT ![p] = "idle"]
    /\ got' = [got EXCEPT ![p] = {}]
    /\ UNCHANGED <<status, body, balance, income, expense, op, todo, cur, reqs,
                   audit>>

(***************************************************************************)
(* EnqueueAutoLinkCtx after the commit; its failure is only logged, and    *)
(* the process may die before the call.                                    *)
(***************************************************************************)
EnqueueAutoLink(p) ==
    /\ pc[p] = "enqueue"
    /\ \/ linkJobs' = linkJobs \cup got[p]
       \/ UNCHANGED linkJobs
    /\ pc' = [pc EXCEPT ![p] = "idle"]
    /\ got' = [got EXCEPT ![p] = {}]
    /\ UNCHANGED <<status, body, balance, income, expense, op, todo, cur, reqs,
                   audit>>

(***************************************************************************)
(* UpdateTxn: one autocommitted UPDATE of any visible row, deleted ones    *)
(* included, that nobody has locked.  It can change the type and the       *)
(* amount, never the account, and no total is adjusted.                    *)
(***************************************************************************)
UpdateTxn(t, b) ==
    /\ Visible(t)
    /\ ~Locked(t)
    /\ b.acc = body[t].acc
    /\ Accept
    /\ body' = [body EXCEPT ![t] = b]
    /\ drift' = [drift EXCEPT ![t] =
                   IF /\ status[t] = "live" \/ posted[t] # 0
                      /\ Effect(b) # Effect(body[t])
                   THEN @ \cup {"edit"} ELSE @]
    /\ UNCHANGED <<status, balance, income, expense, linkJobs, pc, op, got, todo,
                   cur, opening, netBase, posted, torn>>

(***************************************************************************)
(* UpdateAccount: the user types the balance, an absolute overwrite.  The  *)
(* opening balance is what makes the postings so far add up to it.         *)
(***************************************************************************)
UpdateAccount(a, v) ==
    /\ Accept
    /\ balance' = [balance EXCEPT ![a] = v]
    /\ opening' = [opening EXCEPT ![a] = v - SumOf(posted, RowsOf(a))]
    /\ UNCHANGED <<status, body, income, expense, linkJobs, pc, op, got, todo, cur,
                   netBase, posted, drift, torn>>

(***************************************************************************)
(* UpdateUser: the user types either lifetime figure, or both.             *)
(***************************************************************************)
UpdateUser(v, w) ==
    /\ Accept
    /\ income' = v
    /\ expense' = w
    /\ netBase' = netBase + (v - w) - (income - expense)
    /\ UNCHANGED <<status, body, balance, linkJobs, pc, op, got, todo, cur,
                   opening, posted, drift, torn>>

-----------------------------------------------------------------------------
Handler(p) ==
    \/ \E t \in Txns, b \in Bodies : CreateTxn(p, t, b)
    \/ \E T \in SUBSET Txns : SoftDeleteTxns(p, T)
    \/ \E a \in Accounts : PostMetrics(p, a)
    \/ \E a \in Accounts : SkipAccount(p, a)
    \/ PostBalance(p)
    \/ Commit(p)
    \/ Abort(p)
    \/ EnqueueAutoLink(p)

Next ==
    \/ \E p \in Procs : Handler(p)
    \/ \E t \in Txns, b \in Bodies : UpdateTxn(t, b)
    \/ \E a \in Accounts, v \in Amounts : UpdateAccount(a, v)
    \/ \E v \in Amounts \cup {income}, w \in Amounts \cup {expense} : UpdateUser(v, w)

Spec == Init /\ [][Next]_vars
-----------------------------------------------------------------------------
TypeOK ==
    /\ status \in [Txns -> {"none", "pending", "live", "deleted", "void"}]
    /\ body \in [Txns -> Bodies \cup {NoBody}]
    /\ DOMAIN balance = Accounts
    /\ linkJobs \subseteq Txns
    /\ pc \in [Procs -> PcValues]
    /\ op \in [Procs -> Ops]
    /\ got \in [Procs -> SUBSET Txns]
    /\ todo \in [Procs -> SUBSET Accounts]
    /\ cur \in [Procs -> Accounts \cup {NoAccount}]
    /\ reqs \in 0 .. MaxReqs
    /\ DOMAIN opening = Accounts
    /\ posted \in [Txns -> Int]
    /\ drift \in [Txns -> SUBSET DriftKinds]
    /\ torn \subseteq Accounts
    /\ \A p \in Procs : pc[p] = "balance" <=> cur[p] # NoAccount

\* What the balance should count for a row at rest ...
Settled(t) == IF status[t] = "live" THEN Effect(body[t]) ELSE 0

\* ... and what it should count once the request that holds it commits.
Outcome(p, t) == IF op[p] = "create" THEN Effect(body[t]) ELSE 0

(***************************************************************************)
(* The four ways to fall out of step are the only ones.  A row whose       *)
(* requests were never rolled back after a posting, that was not deleted   *)
(* twice and not edited while it counted is in its account's balance       *)
(* exactly as its state says; while a request holds it, as its state says  *)
(* before that request's posting and as its commit will say after it.      *)
(***************************************************************************)
BalanceExact ==
    \A t \in Txns : drift[t] = {} =>
        /\ ~Locked(t) => posted[t] = Settled(t)
        /\ \A p \in Procs : Owner(p, t) =>
              posted[t] = IF Applied(p, t) THEN Outcome(p, t) ELSE Settled(t)

(***************************************************************************)
(* The auto-link worker reads the row in another process: an id is handed  *)
(* over only when the row is committed, so the job always finds it.        *)
(***************************************************************************)
LinkJobsCommitted == \A t \in linkJobs : Visible(t)

(***************************************************************************)
(* What makes BalanceExact and LinkJobsCommitted inductive: a row has one  *)
(* writer at a time, its status fits the request that holds it, and a      *)
(* request's cursor covers exactly the accounts it has not finished.       *)
(***************************************************************************)
OneWriter ==
    \A p, q \in Procs, t \in Txns : Owner(p, t) /\ Owner(q, t) => p = q

HeldStatus ==
    \A p \in Procs, t \in Txns : Owner(p, t) =>
        IF op[p] = "create" THEN status[t] = "pending" ELSE Visible(t)

RowsHaveBodies == \A t \in Txns : status[t] # "none" => body[t] \in Bodies

CursorOK ==
    \A p \in Procs :
        /\ cur[p] \notin todo[p]
        /\ pc[p] \notin {"metrics", "balance"} => todo[p] = {}
        /\ pc[p] = "enqueue" => \A t \in got[p] : Visible(t)
        /\ pc[p] # "idle" /\ op[p] = "create" => \E t \in Txns : got[p] = {t}

LedgerInv ==
    TypeOK /\ OneWriter /\ HeldStatus /\ RowsHaveBodies /\ CursorOK
           /\ BalanceExact /\ LinkJobsCommitted

(***************************************************************************)
(* The same seen from the column: an account that no open request touches  *)
(* and whose rows are all in step shows its opening balance plus its live  *)
(* transactions.                                                           *)
(***************************************************************************)
BalanceIsLedger ==
    \A a \in Accounts :
        (\A t \in RowsOf(a) : drift[t] = {} /\ ~Locked(t)) =>
            balance[a] = opening[a] + SumOf([t \in Txns |-> Settled(t)], RowsOf(a))

(***************************************************************************)
(* The user's lifetime figures and the account balances are written by     *)
(* different statements: unless a request died between the two, they       *)
(* differ only by the requests that stand between them now.                *)
(***************************************************************************)
MetricsFollowBalance ==
    torn = {} => income - expense
             = netBase + SumOf(posted, Txns)
               + SumOf([p \in Procs |-> BalanceStep(p, cur[p])],
                       {p \in Procs : pc[p] = "balance"})

(***************************************************************************)
(* No interleaving of creates, deletes, repeated deletes and failures ever *)
(* counts a row more than once in the direction of its type; repeated      *)
(* deletes can push it any number of times the other way.                  *)
(***************************************************************************)
NeverCountedTwice ==
    \A t \in Txns : "edit" \notin drift[t] =>
        \E k \in -MaxReqs .. 1 : posted[t] = k * Effect(body[t])

(***************************************************************************)
(* What the design promises (and the code does not keep): the posting and  *)
(* the row commit together, so a rolled-back create leaves no trace in the *)
(* balance.                                                                *)
(***************************************************************************)
RollbackLeavesNoPosting == \A t \in Txns : status[t] = "void" => posted[t] = 0

-----------------------------------------------------------------------------
(***************************************************************************)
(* Refinement.  A row exists, for everybody else, from the commit of its   *)
(* create; what its holder has posted ahead of the commit is not counted   *)
(* yet.                                                                    *)
(***************************************************************************)
Ahead(t) ==
    IF \E p \in Procs : Owner(p, t) /\ Applied(p, t)
    THEN IF status[t] = "pending" THEN Effect(body[t]) ELSE -Settled(t)
    ELSE 0

Abstract == INSTANCE AtomicLedger WITH
    Effects <- {Effect(b) : b \in Bodies},
    cell    <- [t \in Txns |-> IF Visible(t) THEN status[t] ELSE "absent"],
    amt     <- [t \in Txns |-> IF Visible(t) THEN Effect(body[t]) ELSE 0],
    counted <- [t \in Txns |-> IF drift[t] = {} THEN posted[t] - Ahead(t) ELSE 0],
    exact   <- {t \in Txns : drift[t] = {}}

(***************************************************************************)
(* Seen from outside, a request and its postings happen in the one step in *)
(* which it commits, for every row that none of the four causes of drift   *)
(* has touched.                                                            *)
(***************************************************************************)
LooksAtomic == Abstract!Spec
=============================================================================
