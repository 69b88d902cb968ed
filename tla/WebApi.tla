------------------------------- MODULE WebApi -------------------------------
(***************************************************************************)
(* What the web front end knows of the server: the generated client's      *)
(* calls (generated/api/services), what each reads or changes there, and   *)
(* the hooks' query keys and invalidations (components/shared/hooks).      *)
(***************************************************************************)
EXTENDS Naturals, Sequences, SequencesExt

\* The tables of several files together.
Together(tables) ==
    [x \in UNION {DOMAIN t : t \in tables} |->
        (CHOOSE t \in tables : x \in DOMAIN t)[x]]

\* A call: its verb, the parameters in its path, how it carries its payload,
\* and the parts of the user's data its handler reads or changes:
\*   txn, txnSms    transactions; the SMS they came from
\*   acc, accName   accounts and balances; the names other answers show
\*   usr            the user and its metrics; nobody writes the monthly budget
\*   goal, rule, link, sms, upl, stm, res   one table each
Call(verb, path, carries, reads, writes) ==
    [verb |-> verb, path |-> path, carries |-> carries,
     reads |-> reads, writes |-> writes]

Get(path, reads) == Call("GET", path, "none", reads, {})
Send(verb, path, writes) == Call(verb, path, "json", {}, writes)
Delete(path, writes) == Call("DELETE", path, "none", {}, writes)

TransactionService == [
    getTransaction            |-> Get({}, {"txn", "txnSms", "accName"}),
    postTransaction           |-> Send("POST", {}, {"txn", "acc", "usr"}),
    deleteTransaction         |-> Send("DELETE", {}, {"txn", "acc", "usr"}),
    postTransactionImageParse |-> Call("POST", {}, "form", {}, {"usr"}),
    putTransaction            |-> Send("PUT", {"id"}, {"txn"})]

AccountService == [
    getAccount    |-> Get({}, {"acc", "accName"}),
    putAccount    |-> Send("PUT", {}, {"acc", "accName"}),
    postAccount   |-> Send("POST", {}, {"acc"}),
    getAccount1   |-> Get({"account_id"}, {"acc", "accName"}),
    deleteAccount |-> Delete({"account_id"}, {"acc"})]

SmsService == [
    getSms    |-> Get({}, {"sms"}),
    postSms   |-> Send("POST", {}, {"sms"}),
    getSms1   |-> Get({"id"}, {"sms"}),
    deleteSms |-> Delete({"id"}, {"sms", "txnSms"})]

\* The key is made by a GET.
UserService == [
    putUser               |-> Send("PUT", {}, {"usr"}),
    getUserGenerateApiKey |-> Call("GET", {}, "none", {}, {"usr"})]

AuthService == [getAuthUser |-> Get({}, {"usr"})]

StaticService == [
    getStaticBank       |-> Get({}, {}),
    getStaticCategories |-> Get({}, {}),
    getStaticMerchants  |-> Get({}, {})]

DashboardService == [
    getDashboardStream |->
        Get({}, {"txn", "acc", "accName", "goal", "rule", "link"})]

\* The auto-link job is only queued: what it changes, it changes later.
GoalService == [
    postInvestmentAutolink        |-> Send("POST", {}, {}),
    getInvestmentGoal             |-> Get({}, {"goal"}),
    postInvestmentGoal            |-> Send("POST", {}, {"goal"}),
    getInvestmentGoalTransactions |-> Get({"id"}, {"link"}),
    getInvestmentGoal1            |-> Get({"id"}, {"goal"}),
    putInvestmentGoal             |-> Send("PUT", {"id"}, {"goal"}),
    deleteInvestmentGoal          |-> Delete({"id"}, {"goal", "rule", "link"})]

RuleService == [
    postInvestmentLink            |-> Send("POST", {}, {"link", "rule"}),
    deleteInvestmentLink          |-> Delete({"id"}, {"link"}),
    getInvestmentRule             |-> Get({}, {"rule"}),
    postInvestmentRule            |-> Send("POST", {}, {"rule"}),
    getInvestmentRule1            |-> Get({"id"}, {"rule"}),
    putInvestmentRule             |-> Send("PUT", {"id"}, {"rule"}),
    deleteInvestmentRule          |-> Delete({"id"}, {"rule"}),
    getInvestmentRuleTransactions |-> Get({"id"}, {"link"})]

ReconciliationService == [
    patchReconciliationResultsStatus |-> Send("PATCH", {}, {"res"}),
    postReconciliationUpload         |->
        Call("POST", {}, "form", {}, {"upl", "stm"}),
    getReconciliationUploads         |-> Get({}, {"upl"}),
    getReconciliationUploads1        |-> Get({"upload_id"}, {"upl"}),
    deleteReconciliationUploads      |->
        Delete({"upload_id"}, {"upl", "stm", "res"}),
    getReconciliationUploadsDetail   |-> Get({"upload_id"}, {"upl", "stm"}),
    getReconciliationUploadsResults  |-> Get({"upload_id"}, {"res", "stm"})]

Service == Together({TransactionService, AccountService, SmsService, UserService,
                     AuthService, StaticService, DashboardService, GoalService,
                     RuleService, ReconciliationService})
-----------------------------------------------------------------------------
(* The hooks. A query: its key and the call that fills it.                 *)
(* A mutation: its call and the keys its success invalidates and removes.  *)
(* "id" and "page" stand for the one entity and page a screen shows.       *)

Query(key, call) == [key |-> key, call |-> call]
Mutation(call, keys) == [call |-> call, invalidates |-> keys, removes |-> {}]

TransactionQueries == [
    useTransactions |-> Query(<<"transactions", "filters">>, "getTransaction")]
\* Mutant: a new transaction leaves the cached accounts alone.
TransactionMutationsOnly ==
    LET own == {<<"transactions">>, <<"auth", "user">>}
    IN  [useCreateTransaction     |-> Mutation("postTransaction", own),
         useDeleteTransactions    |-> Mutation("deleteTransaction", own),
         useUpdateTransaction     |-> Mutation("putTransaction", own),
         useParseTransactionImage |->
             Mutation("postTransactionImageParse", {})]

TransactionMutations ==
    LET all == {<<"transactions">>, <<"auth", "user">>, <<"accounts">>}
    IN  [useCreateTransaction     |-> Mutation("postTransaction", all),
         useDeleteTransactions    |-> Mutation("deleteTransaction", all),
         useUpdateTransaction     |-> Mutation("putTransaction", all),
         useParseTransactionImage |->
             Mutation("postTransactionImageParse", {})]

AccountQueries == [
    useAccounts |-> Query(<<"accounts">>, "getAccount"),
    useAccount  |-> Query(<<"accounts", "id">>, "getAccount1")]

AccountMutations == [
    useCreateAccount |-> Mutation("postAccount", {<<"accounts">>}),
    useUpdateAccount |->
        Mutation("putAccount", {<<"accounts">>, <<"accounts", "id">>}),
    useDeleteAccount |-> Mutation("deleteAccount", {<<"accounts">>})]

SmsQueries == [useSmses |-> Query(<<"sms">>, "getSms"),
               useSms   |-> Query(<<"sms", "id">>, "getSms1")]

SmsMutations == [
    useDeleteSms |-> Mutation("deleteSms", {<<"sms">>}),
    useCreateSms |-> Mutation("postSms", {<<"sms">>, <<"sms", "id">>})]

\* A profile change invalidates nothing.
UserHooks == [
    queries   |-> [useAuthUser |-> Query(<<"auth", "user">>, "getAuthUser")],
    mutations |-> [
        useUpdateUser     |-> Mutation("putUser", {}),
        useGenerateApiKey |->
            Mutation("getUserGenerateApiKey", {<<"auth", "user">>})]]

StaticQueries == [
    useBanks      |-> Query(<<"static", "banks">>, "getStaticBank"),
    useCategories |-> Query(<<"static", "categories">>, "getStaticCategories"),
    useMerchants  |-> Query(<<"static", "merchants">>, "getStaticMerchants")]

DashboardQuery == [
    useDashboard |-> Query(<<"dashboard", "from", "to">>, "getDashboardStream")]

\* The rules and links that go with a goal stay in the cache.
GoalHooks == [
    queries   |-> [
        useInvestmentGoals    |->
            Query(<<"investment-goals", "filters">>, "getInvestmentGoal"),
        useInvestmentGoalById |->
            Query(<<"investment-goals", "id">>, "getInvestmentGoal1")],
    mutations |-> [
        useCreateInvestmentGoal |->
            Mutation("postInvestmentGoal", {<<"investment-goals">>}),
        useDeleteInvestmentGoal |->
            Mutation("deleteInvestmentGoal", {<<"investment-goals">>}),
        useUpdateInvestmentGoal |->
            Mutation("putInvestmentGoal",
                {<<"investment-goals">>, <<"investment-goals", "id">>})]]

RuleHooks == [
    queries   |-> [
        useInvestmentRules    |->
            Query(<<"investment-rules", "filters">>, "getInvestmentRule"),
        useInvestmentRuleById |->
            Query(<<"investment-rules", "id">>, "getInvestmentRule1")],
    mutations |-> [
        useCreateInvestmentRule |->
            Mutation("postInvestmentRule", {<<"investment-rules">>}),
        useUpdateInvestmentRule |->
            Mutation("putInvestmentRule",
                {<<"investment-rules">>, <<"investment-rules", "id">>}),
        useDeleteInvestmentRule |->
            Mutation("deleteInvestmentRule", {<<"investment-rules">>})]]

LinkHooks == [
    queries   |-> [
        useRuleTransactions |-> Query(<<"investment-rule-transactions", "id">>,
                                      "getInvestmentRuleTransactions"),
        useGoalTransactions |-> Query(<<"investment-goal-transactions", "id">>,
                                      "getInvestmentGoalTransactions")],
    mutations |-> [
        useLinkTransaction   |-> Mutation("postInvestmentLink",
                                     {<<"investment-rule-transactions">>}),
        useUnlinkTransaction |-> Mutation("deleteInvestmentLink",
                                     {<<"investment-rule-transactions">>}),
        useEnqueueAutoLink   |-> Mutation("postInvestmentAutolink", {})]]

Uploads == <<"reconciliation", "uploads">>

ReconciliationQueries == [
    useReconciliationUploads      |->
        Query(Uploads, "getReconciliationUploads"),
    useReconciliationUpload       |->
        Query(Uploads \o <<"id">>, "getReconciliationUploads1"),
    useReconciliationUploadDetail |->
        Query(Uploads \o <<"id", "detail", "page">>,
              "getReconciliationUploadsDetail"),
    useReconciliationResults      |->
        Query(Uploads \o <<"id", "results", "page">>,
              "getReconciliationUploadsResults")]

\* A deleted upload's entries are dropped, all others of the prefix refetched.
ReconciliationMutations == [
    useUploadReconciliationStatement    |->
        Mutation("postReconciliationUpload", {Uploads}),
    useDeleteReconciliationUpload       |->
        [call |-> "deleteReconciliationUploads", invalidates |-> {Uploads},
         removes |-> {Uploads \o <<"id">>}],
    useUpdateReconciliationResultStatus |->
        Mutation("patchReconciliationResultsStatus",
                 {Uploads \o <<"id", "results">>})]
-----------------------------------------------------------------------------
Queries ==
    Together({TransactionQueries, AccountQueries, SmsQueries, UserHooks.queries,
              StaticQueries, DashboardQuery, GoalHooks.queries,
              RuleHooks.queries, LinkHooks.queries, ReconciliationQueries})
Mutations ==
    Together({TransactionMutations, AccountMutations, SmsMutations,
              UserHooks.mutations, GoalHooks.mutations, RuleHooks.mutations,
              LinkHooks.mutations, ReconciliationMutations})

\* A key matches every key it is a prefix of.
Matches(prefixes, key) == \E p \in prefixes : IsPrefix(p, key)

\* Does the mutation change what the query would answer?
Disturbs(mutation, query) ==
    Service[Mutations[mutation].call].writes
      \cap Service[Queries[query].call].reads # {}
=============================================================================
