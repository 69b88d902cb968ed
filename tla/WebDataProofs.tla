---------------------------- MODULE WebDataProofs ----------------------------
(***************************************************************************)
(* Proofs about the data the web application shows: a view beside any      *)
(* mutation, with whatever others change meanwhile; the review table of    *)
(* reconciliation; and the uploads with their form and dialogs, for all    *)
(* values of the constants.                                                *)
(***************************************************************************)
EXTENDS MCWebData, ReconReview, ReconUploads, FiniteSetTheorems, SequenceTheorems, TLAPS

(***************************************************************************)
(* What the hooks invalidate, against what the server's handlers write     *)
(***************************************************************************)
LEMMA TableOf ==
    ASSUME NEW tables, NEW t \in tables, NEW x \in DOMAIN t,
           \A s \in tables : x \in DOMAIN s => s = t
    PROVE  x \in DOMAIN Together(tables) /\ Together(tables)[x] = t[x]
  BY DEF Together

\* No two files name the same.
QueryTables == {TransactionQueries, AccountQueries, SmsQueries, UserHooks.queries,
                StaticQueries, DashboardQuery, GoalHooks.queries, RuleHooks.queries,
                LinkHooks.queries, ReconciliationQueries}
MutationTables == {TransactionMutations, AccountMutations, SmsMutations,
                   UserHooks.mutations, GoalHooks.mutations, RuleHooks.mutations,
                   LinkHooks.mutations, ReconciliationMutations}
Services == {TransactionService, AccountService, SmsService, UserService, AuthService,
             StaticService, DashboardService, GoalService, RuleService,
             ReconciliationService}

LEMMA QueryNames ==
    /\ DOMAIN TransactionQueries = {"useTransactions"}
    /\ DOMAIN AccountQueries = {"useAccounts", "useAccount"}
    /\ DOMAIN SmsQueries = {"useSmses", "useSms"}
    /\ DOMAIN UserHooks.queries = {"useAuthUser"}
    /\ DOMAIN StaticQueries = {"useBanks", "useCategories", "useMerchants"}
    /\ DOMAIN DashboardQuery = {"useDashboard"}
    /\ DOMAIN GoalHooks.queries = {"useInvestmentGoals", "useInvestmentGoalById"}
    /\ DOMAIN RuleHooks.queries = {"useInvestmentRules", "useInvestmentRuleById"}
    /\ DOMAIN LinkHooks.queries = {"useRuleTransactions", "useGoalTransactions"}
    /\ DOMAIN ReconciliationQueries =
         {"useReconciliationUploads", "useReconciliationUpload",
          "useReconciliationUploadDetail", "useReconciliationResults"}
  BY DEF TransactionQueries, AccountQueries, SmsQueries, UserHooks, StaticQueries,
         DashboardQuery, GoalHooks, RuleHooks, LinkHooks, ReconciliationQueries

LEMMA MutationNames ==
    /\ DOMAIN TransactionMutations =
         {"useCreateTransaction", "useDeleteTransactions", "useUpdateTransaction",
          "useParseTransactionImage"}
    /\ DOMAIN AccountMutations =
         {"useCreateAccount", "useUpdateAccount", "useDeleteAccount"}
    /\ DOMAIN SmsMutations = {"useDeleteSms", "useCreateSms"}
    /\ DOMAIN UserHooks.mutations = {"useUpdateUser", "useGenerateApiKey"}
    /\ DOMAIN GoalHooks.mutations =
         {"useCreateInvestmentGoal", "useDeleteInvestmentGoal",
          "useUpdateInvestmentGoal"}
    /\ DOMAIN RuleHooks.mutations =
         {"useCreateInvestmentRule", "useUpdateInvestmentRule",
          "useDeleteInvestmentRule"}
    /\ DOMAIN LinkHooks.mutations =
         {"useLinkTransaction", "useUnlinkTransaction", "useEnqueueAutoLink"}
    /\ DOMAIN ReconciliationMutations =
         {"useUploadReconciliationStatement", "useDeleteReconciliationUpload",
          "useUpdateReconciliationResultStatus"}
  BY DEF TransactionMutations, AccountMutations, SmsMutations, UserHooks, GoalHooks,
         RuleHooks, LinkHooks, ReconciliationMutations

LEMMA QueryIn ==
    ASSUME NEW t \in QueryTables, NEW q \in DOMAIN t
    PROVE  q \in DOMAIN Queries /\ Queries[q] = t[q]
<1>1. \A s \in QueryTables : q \in DOMAIN s => s = t
  BY QueryNames DEF QueryTables
<1>2. Queries = Together(QueryTables)
  BY DEF Queries, QueryTables
<1>. QED
  BY <1>1, <1>2, TableOf

LEMMA MutationIn ==
    ASSUME NEW t \in MutationTables, NEW m \in DOMAIN t
    PROVE  m \in DOMAIN Mutations /\ Mutations[m] = t[m]
<1>1. \A s \in MutationTables : m \in DOMAIN s => s = t
  BY MutationNames DEF MutationTables
<1>2. Mutations = Together(MutationTables)
  BY DEF Mutations, MutationTables
<1>. QED
  BY <1>1, <1>2, TableOf

LEMMA CallIn ==
    ASSUME NEW t \in Services, NEW call \in DOMAIN t
    PROVE  call \in DOMAIN Service /\ Service[call] = t[call]
<1>1. \A s \in Services : call \in DOMAIN s => s = t
  BY SMTT(30) DEF Services, TransactionService, AccountService, SmsService, UserService,
         AuthService, StaticService, DashboardService, GoalService, RuleService,
         ReconciliationService
<1>2. Service = Together(Services)
  BY DEF Service, Services
<1>. QED
  BY <1>1, <1>2, TableOf

LEMMA AllQueries == \A q \in DOMAIN Queries : \E t \in QueryTables : q \in DOMAIN t
  BY DEF Queries, QueryTables, Together
LEMMA AllMutations == \A m \in DOMAIN Mutations : \E t \in MutationTables : m \in DOMAIN t
  BY DEF Mutations, MutationTables, Together

Reads(q) == Service[Queries[q].call].reads
Shows(q, key, reads) == Queries[q].key = key /\ Reads(q) = reads
Writes(m) == Service[Mutations[m].call].writes
Does(m, keys, writes) == Mutations[m].invalidates = keys /\ Writes(m) = writes

LEMMA CallsByFile ==
    /\ \A call \in DOMAIN TransactionService : Service[call] = TransactionService[call]
    /\ \A call \in DOMAIN AccountService : Service[call] = AccountService[call]
    /\ \A call \in DOMAIN SmsService : Service[call] = SmsService[call]
    /\ \A call \in DOMAIN UserService : Service[call] = UserService[call]
    /\ \A call \in DOMAIN AuthService : Service[call] = AuthService[call]
    /\ \A call \in DOMAIN StaticService : Service[call] = StaticService[call]
    /\ \A call \in DOMAIN DashboardService : Service[call] = DashboardService[call]
    /\ \A call \in DOMAIN GoalService : Service[call] = GoalService[call]
    /\ \A call \in DOMAIN RuleService : Service[call] = RuleService[call]
    /\ \A call \in DOMAIN ReconciliationService : Service[call] = ReconciliationService[call]
  BY CallIn DEF Services

LEMMA QueriesByFile ==
    /\ \A q \in DOMAIN TransactionQueries : Queries[q] = TransactionQueries[q]
    /\ \A q \in DOMAIN AccountQueries : Queries[q] = AccountQueries[q]
    /\ \A q \in DOMAIN SmsQueries : Queries[q] = SmsQueries[q]
    /\ \A q \in DOMAIN UserHooks.queries : Queries[q] = UserHooks.queries[q]
    /\ \A q \in DOMAIN StaticQueries : Queries[q] = StaticQueries[q]
    /\ \A q \in DOMAIN DashboardQuery : Queries[q] = DashboardQuery[q]
    /\ \A q \in DOMAIN GoalHooks.queries : Queries[q] = GoalHooks.queries[q]
    /\ \A q \in DOMAIN RuleHooks.queries : Queries[q] = RuleHooks.queries[q]
    /\ \A q \in DOMAIN LinkHooks.queries : Queries[q] = LinkHooks.queries[q]
    /\ \A q \in DOMAIN ReconciliationQueries : Queries[q] = ReconciliationQueries[q]
  BY QueryIn DEF QueryTables

LEMMA MutationsByFile ==
    /\ \A m \in DOMAIN TransactionMutations : Mutations[m] = TransactionMutations[m]
    /\ \A m \in DOMAIN AccountMutations : Mutations[m] = AccountMutations[m]
    /\ \A m \in DOMAIN SmsMutations : Mutations[m] = SmsMutations[m]
    /\ \A m \in DOMAIN UserHooks.mutations : Mutations[m] = UserHooks.mutations[m]
    /\ \A m \in DOMAIN GoalHooks.mutations : Mutations[m] = GoalHooks.mutations[m]
    /\ \A m \in DOMAIN RuleHooks.mutations : Mutations[m] = RuleHooks.mutations[m]
    /\ \A m \in DOMAIN LinkHooks.mutations : Mutations[m] = LinkHooks.mutations[m]
    /\ \A m \in DOMAIN ReconciliationMutations : Mutations[m] = ReconciliationMutations[m]
  BY MutationIn DEF MutationTables

LEMMA TransactionShown ==
    Shows("useTransactions", <<"transactions", "filters">>,
          {"txn", "txnSms", "accName"})
  BY QueriesByFile, CallsByFile DEF Shows, Reads, TransactionQueries, Query,
     TransactionService, Get, Call, Send, Delete

LEMMA AccountsShown ==
    /\ Shows("useAccounts", <<"accounts">>, {"acc", "accName"})
    /\ Shows("useAccount", <<"accounts", "id">>, {"acc", "accName"})
  BY QueriesByFile, CallsByFile DEF Shows, Reads, AccountQueries, Query,
     AccountService, Get, Call, Send, Delete

LEMMA SmsShown ==
    /\ Shows("useSmses", <<"sms">>, {"sms"})
    /\ Shows("useSms", <<"sms", "id">>, {"sms"})
  BY QueriesByFile, CallsByFile DEF Shows, Reads, SmsQueries, Query, SmsService, Get,
     Call, Send, Delete

LEMMA UserShown ==
    Shows("useAuthUser", <<"auth", "user">>, {"usr"})
  BY QueriesByFile, CallsByFile DEF Shows, Reads, UserHooks, Query, AuthService, Get,
     Call, Send, Delete

LEMMA StaticShown ==
    /\ Shows("useBanks", <<"static", "banks">>, {})
    /\ Shows("useCategories", <<"static", "categories">>, {})
    /\ Shows("useMerchants", <<"static", "merchants">>, {})
  BY QueriesByFile, CallsByFile DEF Shows, Reads, StaticQueries, Query,
     StaticService, Get, Call, Send, Delete

LEMMA DashboardShown ==
    Shows("useDashboard", <<"dashboard", "from", "to">>,
          {"txn", "acc", "accName", "goal", "rule", "link"})
  BY QueriesByFile, CallsByFile DEF Shows, Reads, DashboardQuery, Query,
     DashboardService, Get, Call, Send, Delete

LEMMA GoalsShown ==
    /\ Shows("useInvestmentGoals", <<"investment-goals", "filters">>, {"goal"})
    /\ Shows("useInvestmentGoalById", <<"investment-goals", "id">>, {"goal"})
  BY QueriesByFile, CallsByFile DEF Shows, Reads, GoalHooks, Query, GoalService, Get,
     Call, Send, Delete

LEMMA RulesShown ==
    /\ Shows("useInvestmentRules", <<"investment-rules", "filters">>, {"rule"})
    /\ Shows("useInvestmentRuleById", <<"investment-rules", "id">>, {"rule"})
  BY QueriesByFile, CallsByFile DEF Shows, Reads, RuleHooks, Query, RuleService, Get,
     Call, Send, Delete

LEMMA LinksShown ==
    /\ Shows("useRuleTransactions", <<"investment-rule-transactions", "id">>,
             {"link"})
    /\ Shows("useGoalTransactions", <<"investment-goal-transactions", "id">>,
             {"link"})
  BY QueriesByFile, CallsByFile DEF Shows, Reads, LinkHooks, Query, RuleService,
     GoalService, Get, Call, Send, Delete

LEMMA ReconciliationShown ==
    /\ Shows("useReconciliationUploads", Uploads, {"upl"})
    /\ Shows("useReconciliationUpload", Uploads \o <<"id">>, {"upl"})
    /\ Shows("useReconciliationUploadDetail", Uploads \o <<"id", "detail", "page">>,
             {"upl", "stm"})
    /\ Shows("useReconciliationResults", Uploads \o <<"id", "results", "page">>,
             {"res", "stm"})
  BY QueriesByFile, CallsByFile DEF Shows, Reads, ReconciliationQueries, Query,
     ReconciliationService, Get, Call, Send, Delete

LEMMA TransactionDone ==
    /\ Does("useCreateTransaction", {<<"transactions">>, <<"auth", "user">>, <<"accounts">>},
            {"txn", "acc", "usr"})
    /\ Does("useDeleteTransactions", {<<"transactions">>, <<"auth", "user">>, <<"accounts">>},
            {"txn", "acc", "usr"})
    /\ Does("useUpdateTransaction", {<<"transactions">>, <<"auth", "user">>, <<"accounts">>},
            {"txn"})
    /\ Does("useParseTransactionImage", {}, {"usr"})
  BY MutationsByFile, CallsByFile DEF Does, Writes, TransactionMutations, Mutation,
     TransactionService, Get, Call, Send, Delete

LEMMA AccountsDone ==
    /\ Does("useCreateAccount", {<<"accounts">>}, {"acc"})
    /\ Does("useUpdateAccount", {<<"accounts">>, <<"accounts", "id">>},
            {"acc", "accName"})
    /\ Does("useDeleteAccount", {<<"accounts">>}, {"acc"})
  BY MutationsByFile, CallsByFile DEF Does, Writes, AccountMutations, Mutation,
     AccountService, Get, Call, Send, Delete

LEMMA SmsDone ==
    /\ Does("useDeleteSms", {<<"sms">>}, {"sms", "txnSms"})
    /\ Does("useCreateSms", {<<"sms">>, <<"sms", "id">>}, {"sms"})
  BY MutationsByFile, CallsByFile DEF Does, Writes, SmsMutations, Mutation,
     SmsService, Get, Call, Send, Delete

LEMMA UserDone ==
    /\ Does("useUpdateUser", {}, {"usr"})
    /\ Does("useGenerateApiKey", {<<"auth", "user">>}, {"usr"})
  BY MutationsByFile, CallsByFile DEF Does, Writes, UserHooks, Mutation, UserService,
     Get, Call, Send, Delete

LEMMA GoalsDone ==
    /\ Does("useCreateInvestmentGoal", {<<"investment-goals">>}, {"goal"})
    /\ Does("useDeleteInvestmentGoal", {<<"investment-goals">>},
            {"goal", "rule", "link"})
    /\ Does("useUpdateInvestmentGoal", {<<"investment-goals">>, <<"investment-goals", "id">>},
            {"goal"})
  BY MutationsByFile, CallsByFile DEF Does, Writes, GoalHooks, Mutation, GoalService,
     Get, Call, Send, Delete

LEMMA RulesDone ==
    /\ Does("useCreateInvestmentRule", {<<"investment-rules">>}, {"rule"})
    /\ Does("useUpdateInvestmentRule", {<<"investment-rules">>, <<"investment-rules", "id">>},
            {"rule"})
    /\ Does("useDeleteInvestmentRule", {<<"investment-rules">>}, {"rule"})
  BY MutationsByFile, CallsByFile DEF Does, Writes, RuleHooks, Mutation, RuleService,
     Get, Call, Send, Delete

LEMMA LinksDone ==
    /\ Does("useLinkTransaction", {<<"investment-rule-transactions">>},
            {"link", "rule"})
    /\ Does("useUnlinkTransaction", {<<"investment-rule-transactions">>}, {"link"})
    /\ Does("useEnqueueAutoLink", {}, {})
  BY MutationsByFile, CallsByFile DEF Does, Writes, LinkHooks, Mutation, RuleService,
     GoalService, Get, Call, Send, Delete

LEMMA ReconciliationDone ==
    /\ Does("useUploadReconciliationStatement", {Uploads}, {"upl", "stm"})
    /\ Does("useDeleteReconciliationUpload", {Uploads}, {"upl", "stm", "res"})
    /\ Does("useUpdateReconciliationResultStatus", {Uploads \o <<"id", "results">>},
            {"res"})
<1>1. \A call \in DOMAIN ReconciliationService :
        Service[call] = ReconciliationService[call]
  BY CallsByFile
<1>2. \A m \in DOMAIN ReconciliationMutations :
        Mutations[m] = ReconciliationMutations[m]
  BY MutationsByFile
<1>. DEFINE results == {Uploads \o <<"id", "results">>}
            all == {Uploads}
            removed == {Uploads \o <<"id">>}
<1>3. /\ Mutations["useUploadReconciliationStatement"].invalidates = all
      /\ Mutations["useUploadReconciliationStatement"].call = "postReconciliationUpload"
      /\ Mutations["useDeleteReconciliationUpload"].invalidates = all
      /\ Mutations["useDeleteReconciliationUpload"].call = "deleteReconciliationUploads"
      /\ Mutations["useUpdateReconciliationResultStatus"].invalidates = results
      /\ Mutations["useUpdateReconciliationResultStatus"].call
           = "patchReconciliationResultsStatus"
  BY <1>2 DEF ReconciliationMutations, Mutation
<1>4. /\ Service["postReconciliationUpload"].writes = {"upl", "stm"}
      /\ Service["deleteReconciliationUploads"].writes = {"upl", "stm", "res"}
      /\ Service["patchReconciliationResultsStatus"].writes = {"res"}
  BY <1>1 DEF ReconciliationService, Call, Send, Delete
<1>. QED
  BY <1>3, <1>4 DEF Does, Writes


\* Who reads each part of the user's data.
LEMMA Readers ==
    ASSUME NEW q \in DOMAIN Queries
    PROVE  /\ "txn" \in Reads(q) => q \in {"useTransactions", "useDashboard"}
           /\ "txnSms" \in Reads(q) => q = "useTransactions"
           /\ "acc" \in Reads(q) => q \in {"useAccounts", "useAccount", "useDashboard"}
           /\ "accName" \in Reads(q) => q \in {"useAccounts", "useAccount", "useDashboard",
                                               "useTransactions"}
           /\ "usr" \in Reads(q) => q = "useAuthUser"
           /\ "goal" \in Reads(q) => q \in {"useInvestmentGoals", "useInvestmentGoalById",
                                            "useDashboard"}
           /\ "rule" \in Reads(q) => q \in {"useInvestmentRules", "useInvestmentRuleById",
                                            "useDashboard"}
           /\ "link" \in Reads(q) => q \in {"useRuleTransactions", "useGoalTransactions",
                                            "useDashboard"}
           /\ "sms" \in Reads(q) => q \in {"useSmses", "useSms"}
           /\ "upl" \in Reads(q) => q \in {"useReconciliationUploads",
                                  "useReconciliationUpload", "useReconciliationUploadDetail"}
           /\ "stm" \in Reads(q) => q \in {"useReconciliationUploadDetail",
                                           "useReconciliationResults"}
           /\ "res" \in Reads(q) => q = "useReconciliationResults"
<1>1. q \in {"useTransactions", "useAccounts", "useAccount", "useSmses", "useSms",
             "useAuthUser", "useBanks", "useCategories", "useMerchants", "useDashboard",
             "useInvestmentGoals", "useInvestmentGoalById", "useInvestmentRules",
             "useInvestmentRuleById", "useRuleTransactions", "useGoalTransactions",
             "useReconciliationUploads", "useReconciliationUpload",
             "useReconciliationUploadDetail", "useReconciliationResults"}
  BY AllQueries, QueryNames DEF QueryTables
<1>2. /\ Reads("useTransactions") = {"txn", "txnSms", "accName"}
      /\ Reads("useAccounts") = {"acc", "accName"}
      /\ Reads("useAccount") = {"acc", "accName"}
      /\ Reads("useSmses") = {"sms"}
      /\ Reads("useSms") = {"sms"}
      /\ Reads("useAuthUser") = {"usr"}
      /\ Reads("useBanks") = {}
      /\ Reads("useCategories") = {}
      /\ Reads("useMerchants") = {}
      /\ Reads("useDashboard") = {"txn", "acc", "accName", "goal", "rule", "link"}
      /\ Reads("useInvestmentGoals") = {"goal"}
      /\ Reads("useInvestmentGoalById") = {"goal"}
      /\ Reads("useInvestmentRules") = {"rule"}
      /\ Reads("useInvestmentRuleById") = {"rule"}
      /\ Reads("useRuleTransactions") = {"link"}
      /\ Reads("useGoalTransactions") = {"link"}
      /\ Reads("useReconciliationUploads") = {"upl"}
      /\ Reads("useReconciliationUpload") = {"upl"}
      /\ Reads("useReconciliationUploadDetail") = {"upl", "stm"}
      /\ Reads("useReconciliationResults") = {"res", "stm"}
  BY TransactionShown, AccountsShown, SmsShown, UserShown, StaticShown,
     DashboardShown, GoalsShown, RulesShown, LinksShown, ReconciliationShown DEF Shows
<1>. QED
  BY <1>1, <1>2

LEMMA PrefixOf ==
    ASSUME NEW s, NEW t, Len(s) \in Nat, Len(t) \in Nat, Len(s) <= Len(t),
           \A i \in 1..Len(s) : s[i] = t[i]
    PROVE  IsPrefix(s, t)
<1>. DEFINE S == {t[i] : i \in 1..Len(t)}
            n == Len(s)
            p == SubSeq(s, 1, n)
            q == SubSeq(t, 1, n)
<1>1. (\A i \in 1..n : s[i] \in S) /\ (\A i \in 1..n : t[i] \in S)
  OBVIOUS
<1>2. n \in Int /\ 1 \in Int
  OBVIOUS
<1>. HIDE DEF S, n
<1>3. p \in Seq(S) /\ Len(p) = (IF 1 <= n THEN n - 1 + 1 ELSE 0)
      /\ \A i \in 1..(n - 1 + 1) : p[i] = s[1 + i - 1]
  BY <1>1, <1>2, SubSeqProperties
<1>4. q \in Seq(S) /\ Len(q) = (IF 1 <= n THEN n - 1 + 1 ELSE 0)
      /\ \A i \in 1..(n - 1 + 1) : q[i] = t[1 + i - 1]
  BY <1>1, <1>2, SubSeqProperties
<1>. HIDE DEF p, q
<1>5. p = q
  BY <1>2, <1>3, <1>4, SeqEqual DEF n
<1>. QED
  BY <1>5 DEF IsPrefix, p, q, n

\* The first word of a key; and the keys of the uploads.
LEMMA FirstWord ==
    ASSUME NEW w, NEW t, Len(t) \in Nat \ {0}, t[1] = w PROVE IsPrefix(<<w>>, t)
<1>. DEFINE s == <<w>>
<1>1. Len(s) = 1 /\ s[1] = w
  OBVIOUS
<1>. HIDE DEF s
<1>2. \A i \in 1..Len(s) : s[i] = t[i]
  BY <1>1
<1>3. Len(s) \in Nat /\ Len(s) <= Len(t)
  BY <1>1
<1>4. IsPrefix(s, t)
  BY <1>2, <1>3, PrefixOf
<1>. QED
  BY <1>4 DEF s

LEMMA TwoWords ==
    ASSUME NEW v, NEW w, NEW t, Len(t) \in Nat, Len(t) >= 2, t[1] = v, t[2] = w
    PROVE  IsPrefix(<<v, w>>, t)
<1>. DEFINE s == <<v, w>>
<1>1. Len(s) = 2 /\ s[1] = v /\ s[2] = w
  OBVIOUS
<1>. HIDE DEF s
<1>2. \A i \in 1..Len(s) : s[i] = t[i]
  BY <1>1
<1>3. Len(s) \in Nat /\ Len(s) <= Len(t)
  BY <1>1
<1>4. IsPrefix(s, t)
  BY <1>2, <1>3, PrefixOf
<1>. QED
  BY <1>4 DEF s

LEMMA KeysMatch ==
    /\ IsPrefix(<<"transactions">>, Queries["useTransactions"].key)
    /\ IsPrefix(<<"accounts">>, Queries["useAccounts"].key)
    /\ IsPrefix(<<"accounts">>, Queries["useAccount"].key)
    /\ IsPrefix(<<"sms">>, Queries["useSmses"].key)
    /\ IsPrefix(<<"sms">>, Queries["useSms"].key)
    /\ IsPrefix(<<"auth", "user">>, Queries["useAuthUser"].key)
    /\ IsPrefix(<<"investment-goals">>, Queries["useInvestmentGoals"].key)
    /\ IsPrefix(<<"investment-goals">>, Queries["useInvestmentGoalById"].key)
    /\ IsPrefix(<<"investment-rules">>, Queries["useInvestmentRules"].key)
    /\ IsPrefix(<<"investment-rules">>, Queries["useInvestmentRuleById"].key)
    /\ IsPrefix(<<"investment-rule-transactions">>, Queries["useRuleTransactions"].key)
    /\ IsPrefix(Uploads, Queries["useReconciliationUploads"].key)
    /\ IsPrefix(Uploads, Queries["useReconciliationUpload"].key)
    /\ IsPrefix(Uploads, Queries["useReconciliationUploadDetail"].key)
    /\ IsPrefix(Uploads, Queries["useReconciliationResults"].key)
    /\ IsPrefix(Uploads \o <<"id", "results">>, Queries["useReconciliationResults"].key)
<1>1. /\ Queries["useTransactions"].key = <<"transactions", "filters">>
      /\ Queries["useAccounts"].key = <<"accounts">>
      /\ Queries["useAccount"].key = <<"accounts", "id">>
      /\ Queries["useSmses"].key = <<"sms">>
      /\ Queries["useSms"].key = <<"sms", "id">>
      /\ Queries["useAuthUser"].key = <<"auth", "user">>
      /\ Queries["useInvestmentGoals"].key = <<"investment-goals", "filters">>
      /\ Queries["useInvestmentGoalById"].key = <<"investment-goals", "id">>
      /\ Queries["useInvestmentRules"].key = <<"investment-rules", "filters">>
      /\ Queries["useInvestmentRuleById"].key = <<"investment-rules", "id">>
      /\ Queries["useRuleTransactions"].key = <<"investment-rule-transactions", "id">>
  BY TransactionShown, AccountsShown, SmsShown, UserShown, StaticShown,
     DashboardShown, GoalsShown, RulesShown, LinksShown, ReconciliationShown DEF Shows
<1>2. /\ Queries["useReconciliationUploads"].key = Uploads
      /\ Queries["useReconciliationUpload"].key = Uploads \o <<"id">>
      /\ Queries["useReconciliationUploadDetail"].key
           = Uploads \o <<"id", "detail", "page">>
      /\ Queries["useReconciliationResults"].key = Uploads \o <<"id", "results", "page">>
  BY TransactionShown, AccountsShown, SmsShown, UserShown, StaticShown,
     DashboardShown, GoalsShown, RulesShown, LinksShown, ReconciliationShown DEF Shows
<1>4. ASSUME NEW v, NEW w
      PROVE  /\ IsPrefix(<<v>>, <<v>>) /\ IsPrefix(<<v>>, <<v, w>>)
             /\ IsPrefix(<<v, w>>, <<v, w>>)
  <2>. DEFINE one == <<v>>
              two == <<v, w>>
  <2>1. /\ Len(one) = 1 /\ Len(one) \in Nat \ {0} /\ one[1] = v
        /\ Len(two) = 2 /\ Len(two) \in Nat \ {0} /\ two[1] = v /\ two[2] = w
    OBVIOUS
  <2>. HIDE DEF one, two
  <2>2. IsPrefix(<<v>>, one)
    BY <2>1, FirstWord
  <2>3. IsPrefix(<<v>>, two)
    BY <2>1, FirstWord
  <2>4. IsPrefix(<<v, w>>, two)
    BY <2>1, TwoWords
  <2>. QED
    BY <2>2, <2>3, <2>4 DEF one, two
<1>6. /\ IsPrefix(Uploads, Uploads) /\ IsPrefix(Uploads, Uploads \o <<"id">>)
      /\ IsPrefix(Uploads, Uploads \o <<"id", "detail", "page">>)
      /\ IsPrefix(Uploads, Uploads \o <<"id", "results", "page">>)
  <2>1. ASSUME NEW t, Len(t) \in Nat, Len(t) >= 2,
               t[1] = "reconciliation", t[2] = "uploads"
        PROVE  IsPrefix(Uploads, t)
    BY <2>1, TwoWords DEF Uploads
  <2>2. /\ Len(Uploads) = 2 /\ Uploads[1] = "reconciliation" /\ Uploads[2] = "uploads"
    BY DEF Uploads
  <2>. DEFINE one == Uploads \o <<"id">>
              detail == Uploads \o <<"id", "detail", "page">>
              results == Uploads \o <<"id", "results", "page">>
  <2>3. Len(one) = 3 /\ one[1] = "reconciliation" /\ one[2] = "uploads"
    BY DEF Uploads
  <2>4. Len(detail) = 5 /\ detail[1] = "reconciliation" /\ detail[2] = "uploads"
    BY DEF Uploads
  <2>5. Len(results) = 5 /\ results[1] = "reconciliation" /\ results[2] = "uploads"
    BY DEF Uploads
  <2>. HIDE DEF one, detail, results
  <2>6. IsPrefix(Uploads, Uploads) /\ IsPrefix(Uploads, one)
    BY <2>1, <2>2, <2>3
  <2>7. IsPrefix(Uploads, detail) /\ IsPrefix(Uploads, results)
    BY <2>1, <2>4, <2>5
  <2>. QED
    BY <2>6, <2>7 DEF one, detail, results
<1>7. IsPrefix(Uploads \o <<"id", "results">>, Uploads \o <<"id", "results", "page">>)
  <2>. DEFINE s == Uploads \o <<"id", "results">>
              t == Uploads \o <<"id", "results", "page">>
  <2>1. Len(s) = 4 /\ Len(t) = 5 /\ s[1] = t[1] /\ s[2] = t[2] /\ s[3] = t[3] /\ s[4] = t[4]
    BY DEF Uploads
  <2>. HIDE DEF s, t
  <2>2. \A i \in 1..Len(s) : s[i] = t[i]
    BY <2>1
  <2>3. Len(s) \in Nat /\ Len(t) \in Nat /\ Len(s) <= Len(t)
    BY <2>1
  <2>4. IsPrefix(s, t)
    BY <2>2, <2>3, PrefixOf
  <2>. QED
    BY <2>4 DEF s, t
<1>8. /\ IsPrefix(<<"transactions">>, Queries["useTransactions"].key)
      /\ IsPrefix(<<"accounts">>, Queries["useAccounts"].key)
      /\ IsPrefix(<<"accounts">>, Queries["useAccount"].key)
      /\ IsPrefix(<<"sms">>, Queries["useSmses"].key)
      /\ IsPrefix(<<"sms">>, Queries["useSms"].key)
      /\ IsPrefix(<<"auth", "user">>, Queries["useAuthUser"].key)
      /\ IsPrefix(<<"investment-goals">>, Queries["useInvestmentGoals"].key)
      /\ IsPrefix(<<"investment-goals">>, Queries["useInvestmentGoalById"].key)
      /\ IsPrefix(<<"investment-rules">>, Queries["useInvestmentRules"].key)
      /\ IsPrefix(<<"investment-rules">>, Queries["useInvestmentRuleById"].key)
      /\ IsPrefix(<<"investment-rule-transactions">>, Queries["useRuleTransactions"].key)
  BY <1>1, <1>4
<1>. QED
  BY <1>2, <1>6, <1>7, <1>8

\* Does the answer to m reach the query's cache?
Reaches(m, q) == Matches(Mutations[m].invalidates, Queries[q].key)

LEMMA TablesCover ==
    ASSUME NEW q \in DOMAIN Queries, NEW m \in DOMAIN Mutations, Disturbs(m, q)
    PROVE  LeftStale(q, m) \/ Reaches(m, q)
<1>. USE DEF LeftStale, Reaches, Matches
<1>1. PICK part \in Writes(m) : part \in Reads(q)
  BY DEF Disturbs, Writes, Reads
<1>2. CASE m = "useCreateTransaction"
  <2>1. /\ Mutations[m].invalidates = {<<"transactions">>, <<"auth", "user">>, <<"accounts">>}
        /\ Writes(m) = {"txn", "acc", "usr"}
    BY <1>2, TransactionDone DEF Does
  <2>. QED
    BY <1>1, <1>2, <2>1, Readers, KeysMatch
<1>3. CASE m = "useDeleteTransactions"
  <2>1. /\ Mutations[m].invalidates = {<<"transactions">>, <<"auth", "user">>, <<"accounts">>}
        /\ Writes(m) = {"txn", "acc", "usr"}
    BY <1>3, TransactionDone DEF Does
  <2>. QED
    BY <1>1, <1>3, <2>1, Readers, KeysMatch
<1>4. CASE m = "useUpdateTransaction"
  <2>1. /\ Mutations[m].invalidates = {<<"transactions">>, <<"auth", "user">>, <<"accounts">>}
        /\ Writes(m) = {"txn"}
    BY <1>4, TransactionDone DEF Does
  <2>. QED
    BY <1>1, <1>4, <2>1, Readers, KeysMatch
<1>5. CASE m = "useParseTransactionImage"
  <2>1. Mutations[m].invalidates = {} /\ Writes(m) = {"usr"}
    BY <1>5, TransactionDone DEF Does
  <2>. QED
    BY <1>1, <1>5, <2>1, Readers, KeysMatch
<1>6. CASE m = "useCreateAccount"
  <2>1. Mutations[m].invalidates = {<<"accounts">>} /\ Writes(m) = {"acc"}
    BY <1>6, AccountsDone DEF Does
  <2>. QED
    BY <1>1, <1>6, <2>1, Readers, KeysMatch
<1>7. CASE m = "useUpdateAccount"
  <2>1. /\ Mutations[m].invalidates = {<<"accounts">>, <<"accounts", "id">>}
        /\ Writes(m) = {"acc", "accName"}
    BY <1>7, AccountsDone DEF Does
  <2>. QED
    BY <1>1, <1>7, <2>1, Readers, KeysMatch
<1>8. CASE m = "useDeleteAccount"
  <2>1. Mutations[m].invalidates = {<<"accounts">>} /\ Writes(m) = {"acc"}
    BY <1>8, AccountsDone DEF Does
  <2>. QED
    BY <1>1, <1>8, <2>1, Readers, KeysMatch
<1>9. CASE m = "useDeleteSms"
  <2>1. Mutations[m].invalidates = {<<"sms">>} /\ Writes(m) = {"sms", "txnSms"}
    BY <1>9, SmsDone DEF Does
  <2>. QED
    BY <1>1, <1>9, <2>1, Readers, KeysMatch
<1>10. CASE m = "useCreateSms"
  <2>1. /\ Mutations[m].invalidates = {<<"sms">>, <<"sms", "id">>}
        /\ Writes(m) = {"sms"}
    BY <1>10, SmsDone DEF Does
  <2>. QED
    BY <1>1, <1>10, <2>1, Readers, KeysMatch
<1>11. CASE m = "useUpdateUser"
  <2>1. Mutations[m].invalidates = {} /\ Writes(m) = {"usr"}
    BY <1>11, UserDone DEF Does
  <2>. QED
    BY <1>1, <1>11, <2>1, Readers, KeysMatch
<1>12. CASE m = "useGenerateApiKey"
  <2>1. Mutations[m].invalidates = {<<"auth", "user">>} /\ Writes(m) = {"usr"}
    BY <1>12, UserDone DEF Does
  <2>. QED
    BY <1>1, <1>12, <2>1, Readers, KeysMatch
<1>13. CASE m = "useCreateInvestmentGoal"
  <2>1. Mutations[m].invalidates = {<<"investment-goals">>} /\ Writes(m) = {"goal"}
    BY <1>13, GoalsDone DEF Does
  <2>. QED
    BY <1>1, <1>13, <2>1, Readers, KeysMatch
<1>14. CASE m = "useDeleteInvestmentGoal"
  <2>1. /\ Mutations[m].invalidates = {<<"investment-goals">>}
        /\ Writes(m) = {"goal", "rule", "link"}
    BY <1>14, GoalsDone DEF Does
  <2>. QED
    BY <1>1, <1>14, <2>1, Readers, KeysMatch
<1>15. CASE m = "useUpdateInvestmentGoal"
  <2>1. /\ Mutations[m].invalidates = {<<"investment-goals">>, <<"investment-goals", "id">>}
        /\ Writes(m) = {"goal"}
    BY <1>15, GoalsDone DEF Does
  <2>. QED
    BY <1>1, <1>15, <2>1, Readers, KeysMatch
<1>16. CASE m = "useCreateInvestmentRule"
  <2>1. Mutations[m].invalidates = {<<"investment-rules">>} /\ Writes(m) = {"rule"}
    BY <1>16, RulesDone DEF Does
  <2>. QED
    BY <1>1, <1>16, <2>1, Readers, KeysMatch
<1>17. CASE m = "useUpdateInvestmentRule"
  <2>1. /\ Mutations[m].invalidates = {<<"investment-rules">>, <<"investment-rules", "id">>}
        /\ Writes(m) = {"rule"}
    BY <1>17, RulesDone DEF Does
  <2>. QED
    BY <1>1, <1>17, <2>1, Readers, KeysMatch
<1>18. CASE m = "useDeleteInvestmentRule"
  <2>1. Mutations[m].invalidates = {<<"investment-rules">>} /\ Writes(m) = {"rule"}
    BY <1>18, RulesDone DEF Does
  <2>. QED
    BY <1>1, <1>18, <2>1, Readers, KeysMatch
<1>19. CASE m = "useLinkTransaction"
  <2>1. /\ Mutations[m].invalidates = {<<"investment-rule-transactions">>}
        /\ Writes(m) = {"link", "rule"}
    BY <1>19, LinksDone DEF Does
  <2>. QED
    BY <1>1, <1>19, <2>1, Readers, KeysMatch
<1>20. CASE m = "useUnlinkTransaction"
  <2>1. /\ Mutations[m].invalidates = {<<"investment-rule-transactions">>}
        /\ Writes(m) = {"link"}
    BY <1>20, LinksDone DEF Does
  <2>. QED
    BY <1>1, <1>20, <2>1, Readers, KeysMatch
<1>21. CASE m = "useEnqueueAutoLink"
  <2>1. Mutations[m].invalidates = {} /\ Writes(m) = {}
    BY <1>21, LinksDone DEF Does
  <2>. QED
    BY <1>1, <1>21, <2>1, Readers, KeysMatch
<1>22. CASE m = "useUploadReconciliationStatement"
  <2>1. Mutations[m].invalidates = {Uploads} /\ Writes(m) = {"upl", "stm"}
    BY <1>22, ReconciliationDone DEF Does
  <2>. QED
    BY <1>1, <1>22, <2>1, Readers, KeysMatch
<1>23. CASE m = "useDeleteReconciliationUpload"
  <2>1. Mutations[m].invalidates = {Uploads} /\ Writes(m) = {"upl", "stm", "res"}
    BY <1>23, ReconciliationDone DEF Does
  <2>. QED
    BY <1>1, <1>23, <2>1, Readers, KeysMatch
<1>24. CASE m = "useUpdateReconciliationResultStatus"
  <2>1. /\ Mutations[m].invalidates = {Uploads \o <<"id", "results">>}
        /\ Writes(m) = {"res"}
    BY <1>24, ReconciliationDone DEF Does
  <2>. QED
    BY <1>1, <1>24, <2>1, Readers, KeysMatch
<1>. QED
  BY <1>2, <1>3, <1>4, <1>5, <1>6, <1>7, <1>8, <1>9, <1>10, <1>11, <1>12, <1>13,
     <1>14, <1>15, <1>16, <1>17, <1>18, <1>19, <1>20, <1>21, <1>22, <1>23, <1>24,
     AllMutations, MutationNames DEF MutationTables
(***************************************************************************)
(* The views                                                               *)
(***************************************************************************)
Works == {"UPLOADED", "PROCESSING", "COMPLETED"}
Causes == {"own", "foreign", "lost", "overtaken"}
EntryType == [data : Nat \cup {NoData}, owner : Users \cup {NoUser}, invalid : BOOLEAN,
              aged : BOOLEAN, saw : Works \cup {"none"}, request : Nat]
RequestType == [id : Nat \ {0}, phase : {"headers", "sent", "answered"},
                as : Users \cup {NoUser}, ok : BOOLEAN, data : Nat \cup {NoData},
                saw : Works \cup {"none"}]

ViewTypes ==
    /\ view \in DOMAIN Queries /\ deed \in DOMAIN Mutations
    /\ left \in [{"deeds", "foreign", "faults", "signOuts"} -> Nat]
    /\ session \in Users \cup {"loading", NoUser} /\ work \in Works
    /\ history \in [Users -> Seq(Causes)]
    /\ entry \in EntryType
    /\ entry.data # NoData => entry.owner \in Users /\ entry.data <= Len(history[entry.owner])
    /\ entry.data = NoData => entry.owner = NoUser

RequestTypes ==
    /\ IsFiniteSet(requests) /\ requests \subseteq RequestType
    /\ \A q, r \in requests : q.id = r.id => q = r
    /\ entry.request # 0 => \E r \in requests : r.id = entry.request
    /\ \A r \in requests : r.ok =>
          /\ r.phase = "answered" /\ r.as \in Users
          /\ r.data \in Nat /\ r.data <= Len(history[r.as])

MutationTypes ==
    /\ mutation \in [phase : {"none", "sent", "applied"}, as : Users \cup {NoUser}, at : Nat]
    /\ mutation.phase = "none" => mutation = NoMutation
    /\ mutation.phase # "none" => mutation.as \in Users
    /\ mutation.at # 0 => /\ mutation.phase = "applied" /\ Disturbs(deed, view)
                          /\ mutation.at <= Len(history[mutation.as])

\* A change of u's own beyond the first n is one whose mutation is still to be
\* answered, or one of the pairs that nothing announces.
Announced(u, n) ==
    \A i \in (n + 1)..Len(history[u]) : history[u][i] = "own" =>
        LeftStale(view, deed) \/ (mutation.at = i /\ mutation.as = u)

EntryIsTold ==
    entry.data # NoData /\ ~entry.invalid => Announced(entry.owner, entry.data)

\* The answer an entry waits for is no older than what it has, and tells of what
\* was announced.
AnswerIsTold ==
    \A r \in requests : r.id = entry.request /\ r.ok =>
        /\ Announced(r.as, r.data)
        /\ r.as = entry.owner /\ entry.data # NoData => entry.data <= r.data

ViewInv == ViewTypes /\ RequestTypes /\ MutationTypes /\ EntryIsTold /\ AnswerIsTold

USE WebDataAssumption DEF WebDataAssumption

\* Two different reasons for the same: among the first n + 1 numbers one is free.
LEMMA FreeNumber ==
    ASSUME IsFiniteSet(requests)
    PROVE  \E i \in RequestIds : \A r \in requests : r.id # i
<1>. DEFINE number == [r \in requests |-> r.id]
            ids == {number[r] : r \in requests}
            n == Cardinality(requests)
<1>1. n \in Nat
  BY FS_CardinalityType
<1>2. number \in Surjection(requests, ids)
  BY DEF Surjection
<1>3. IsFiniteSet(ids) /\ Cardinality(ids) <= n
  BY <1>2, FS_Surjection
<1>4. IsFiniteSet(1..(n + 1)) /\ Cardinality(1..(n + 1)) = n + 1
  BY <1>1, FS_Interval
<1>5. ~(1..(n + 1) \subseteq ids)
  <2>. SUFFICES ASSUME 1..(n + 1) \subseteq ids PROVE FALSE
    OBVIOUS
  <2>1. Cardinality(1..(n + 1)) <= Cardinality(ids)
    BY <1>3, FS_Subset
  <2>2. Cardinality(ids) \in Nat
    BY <1>3, FS_CardinalityType
  <2>. HIDE DEF ids, n
  <2>. QED
    BY <1>1, <1>3, <1>4, <2>1, <2>2
<1>. QED
  BY <1>5 DEF RequestIds

LEMMA Fetched ==
    ASSUME ViewInv, NEW e \in EntryType, Fetch(e)
    PROVE  /\ \E id \in Nat \ {0} : entry' = [e EXCEPT !.request = id]
           /\ IsFiniteSet(requests') /\ requests' \subseteq RequestType
           /\ \A q, r \in requests' : q.id = r.id => q = r
           /\ \E r \in requests' : r.id = entry'.request
           /\ \A r \in requests' : r \in requests \/ ~r.ok
           /\ \A r \in requests' : r.id = entry'.request => ~r.ok
<1>. DEFINE id == CHOOSE i \in RequestIds : \A r \in requests : r.id # i
            new == [id |-> id, phase |-> "headers", as |-> NoUser, ok |-> FALSE,
                    data |-> NoData, saw |-> "none"]
<1>1. IsFiniteSet(requests) /\ requests \subseteq RequestType
      /\ \A q, r \in requests : q.id = r.id => q = r
  BY DEF ViewInv, RequestTypes
<1>2. id \in RequestIds /\ \A r \in requests : r.id # id
  BY <1>1, FreeNumber
<1>3. id \in Nat \ {0}
  BY <1>1, <1>2, FS_CardinalityType DEF RequestIds
<1>4. entry' = [e EXCEPT !.request = id] /\ requests' = requests \cup {new}
  BY DEF Fetch
<1>. HIDE DEF id
<1>5. new.id = id /\ ~new.ok
  OBVIOUS
<1>8. new \in RequestType
  BY <1>3 DEF RequestType
<1>6. entry'.request = id
  BY <1>4 DEF EntryType
<1>. HIDE DEF new
<1>7. IsFiniteSet(requests')
  BY <1>1, <1>4, FS_AddElement
<1>. QED
  BY <1>1, <1>2, <1>3, <1>4, <1>5, <1>6, <1>7, <1>8

(***************************************************************************)
(* What the histories and the mutation leave as they are is told as before.*)
(***************************************************************************)
OwnKept(u) ==
    \A i \in 1..Len(history'[u]) : history'[u][i] = "own" =>
        \/ /\ i <= Len(history[u]) /\ history[u][i] = "own"
           /\ mutation.at = i /\ mutation.as = u
                => \/ mutation'.at = i /\ mutation'.as = u
                   \/ LeftStale(view, deed)
        \/ mutation'.at = i /\ mutation'.as = u

LEMMA ToldAsBefore ==
    ASSUME UNCHANGED <<view, deed>>, NEW u \in Users, NEW n \in Nat, OwnKept(u),
           Len(history[u]) \in Nat, Len(history'[u]) \in Nat, Announced(u, n)
    PROVE  Announced(u, n)'
<1>. SUFFICES ASSUME NEW i \in (n + 1)..Len(history'[u]), history'[u][i] = "own"
              PROVE  LeftStale(view, deed)' \/ (mutation'.at = i /\ mutation'.as = u)
  BY DEF Announced
<1>1. LeftStale(view, deed)' <=> LeftStale(view, deed)
  BY DEF LeftStale
<1>2. i \in 1..Len(history'[u])
  OBVIOUS
<1>. QED
  BY <1>1, <1>2 DEF OwnKept, Announced

LEMMA SameHistory ==
    ASSUME UNCHANGED <<history, mutation>>, NEW u PROVE OwnKept(u)
  BY DEF OwnKept

\* A fetch of an entry that is marked, or told already.
LEMMA AfterFetch ==
    ASSUME ViewInv, NEW e \in EntryType, Fetch(e), UNCHANGED <<view, deed, work>>,
           left' \in [{"deeds", "foreign", "faults", "signOuts"} -> Nat],
           session' \in Users \cup {"loading", NoUser},
           history' \in [Users -> Seq(Causes)],
           \A u \in Users : Len(history'[u]) >= Len(history[u]),
           MutationTypes',
           e.data # NoData => e.owner \in Users /\ e.data <= Len(history[e.owner]),
           e.data = NoData => e.owner = NoUser,
           e.data # NoData /\ ~e.invalid => Announced(e.owner, e.data)'
    PROVE  ViewInv'
<1>. USE DEF ViewInv
<1>1. PICK id \in Nat \ {0} : entry' = [e EXCEPT !.request = id]
  BY Fetched
<1>2. /\ entry' \in EntryType /\ entry'.data = e.data /\ entry'.owner = e.owner
      /\ entry'.invalid = e.invalid
  BY <1>1 DEF EntryType
<1>3. \A u \in Users : Len(history[u]) \in Nat /\ Len(history'[u]) \in Nat
  BY LenProperties DEF ViewTypes
<1>4. ViewTypes'
  BY <1>2, <1>3 DEF ViewTypes, EntryType
<1>5. RequestTypes'
  <2>1. \A r \in requests' : r.ok => r \in requests
    BY Fetched
  <2>2. ASSUME NEW r \in requests', r.ok
        PROVE  /\ r.phase = "answered" /\ r.as \in Users
               /\ r.data \in Nat /\ r.data <= Len(history'[r.as])
    <3>1. /\ r.phase = "answered" /\ r.as \in Users
          /\ r.data \in Nat /\ r.data <= Len(history[r.as])
      BY <2>1, <2>2 DEF RequestTypes
    <3>. QED
      BY <1>3, <3>1
  <2>. QED
    BY <2>2, Fetched DEF RequestTypes
<1>6. EntryIsTold'
  BY <1>2 DEF EntryIsTold
<1>7. AnswerIsTold'
  BY Fetched DEF AnswerIsTold
<1>. QED
  BY <1>4, <1>5, <1>6, <1>7

\* Steps that change neither the entry nor the requests.
LEMMA NothingTold ==
    ASSUME ViewInv, UNCHANGED <<view, deed, entry, requests>>, work' \in Works,
           left' \in [{"deeds", "foreign", "faults", "signOuts"} -> Nat],
           session' \in Users \cup {"loading", NoUser},
           history' \in [Users -> Seq(Causes)],
           \A u \in Users : Len(history'[u]) >= Len(history[u]),
           MutationTypes', \A u \in Users : OwnKept(u)
    PROVE  ViewInv'
<1>. USE DEF ViewInv
<1>1. \A u \in Users : Len(history[u]) \in Nat /\ Len(history'[u]) \in Nat
  BY LenProperties DEF ViewTypes
<1>2. EntryIsTold'
  <2>. SUFFICES ASSUME entry.data # NoData, ~entry.invalid
                PROVE  Announced(entry.owner, entry.data)'
    BY DEF EntryIsTold
  <2>. QED
    BY <1>1, ToldAsBefore DEF ViewTypes, EntryType, EntryIsTold
<1>3. AnswerIsTold'
  <2>. SUFFICES ASSUME NEW r \in requests, r.id = entry.request, r.ok
                PROVE  Announced(r.as, r.data)'
    BY DEF AnswerIsTold
  <2>1. r.as \in Users /\ r.data \in Nat /\ Announced(r.as, r.data)
    BY DEF RequestTypes, AnswerIsTold
  <2>. QED
    BY <1>1, <2>1, ToldAsBefore
<1>4. ViewTypes'
  <2>1. entry.data # NoData =>
          entry.owner \in Users /\ entry.data <= Len(history'[entry.owner])
    BY <1>1 DEF ViewTypes, EntryType
  <2>. QED
    BY <2>1 DEF ViewTypes
<1>5. RequestTypes'
  <2>1. ASSUME NEW r \in requests, r.ok PROVE r.data <= Len(history'[r.as])
    <3>1. r.as \in Users /\ r.data \in Nat /\ r.data <= Len(history[r.as])
      BY <2>1 DEF RequestTypes
    <3>. QED
      BY <1>1, <3>1
  <2>. QED
    BY <2>1 DEF RequestTypes
<1>. QED
  BY <1>2, <1>3, <1>4, <1>5

LEMMA FetchIfStaleStep ==
    ASSUME ViewInv, NEW open, NEW s, FetchIfStale(open, s),
           UNCHANGED <<view, deed, work, history, mutation>>,
           left' \in [{"deeds", "foreign", "faults", "signOuts"} -> Nat],
           session' \in Users \cup {"loading", NoUser}
    PROVE  ViewInv'
<1>. USE DEF ViewInv
<1>0. MutationTypes' /\ \A u : OwnKept(u)
  BY SameHistory DEF MutationTypes, Disturbs, NoMutation
<1>1. CASE UNCHANGED <<entry, requests>>
  <2>1. \A u \in Users : Len(history'[u]) >= Len(history[u])
    BY LenProperties DEF ViewTypes
  <2>. QED
    BY <1>0, <1>1, <2>1, NothingTold DEF ViewTypes
<1>2. CASE Fetch(entry)
  <2>1. \A u \in Users : Len(history[u]) \in Nat
    BY LenProperties DEF ViewTypes
  <2>2. PICK e \in EntryType : e = entry
    BY DEF ViewTypes
  <2>3. ASSUME e.data # NoData, ~e.invalid PROVE Announced(e.owner, e.data)'
    <3>1. e.owner \in Users /\ e.data \in Nat /\ Announced(e.owner, e.data)
      BY <2>2, <2>3 DEF ViewTypes, EntryType, EntryIsTold
    <3>. QED
      BY <1>0, <2>1, <3>1, ToldAsBefore
  <2>4. \A u \in Users : Len(history'[u]) >= Len(history[u])
    BY <2>1
  <2>5. /\ history' \in [Users -> Seq(Causes)]
        /\ e.data # NoData => e.owner \in Users /\ e.data <= Len(history[e.owner])
        /\ e.data = NoData => e.owner = NoUser
    BY <2>2 DEF ViewTypes
  <2>6. Fetch(e)
    BY <1>2, <2>2
  <2>. QED
    BY <1>0, <2>3, <2>4, <2>5, <2>6, AfterFetch
<1>. QED
  BY <1>1, <1>2 DEF FetchIfStale

(***************************************************************************)
(* Requests                                                                *)
(***************************************************************************)
LEMMA Advances ==
    ASSUME ViewInv, NEW r \in requests, NEW next \in RequestType, next.id = r.id,
           requests' = (requests \ {r}) \cup {next},
           UNCHANGED <<view, deed, session, entry, mutation, history, work>>,
           left' \in [{"deeds", "foreign", "faults", "signOuts"} -> Nat],
           next.ok => next.phase = "answered" /\ next.as \in Users
                      /\ next.data = Len(history[next.as])
    PROVE  ViewInv'
<1>. USE DEF ViewInv
<1>1. \A u \in Users : Len(history[u]) \in Nat
  BY LenProperties DEF ViewTypes
<1>2. ViewTypes' /\ MutationTypes'
  BY DEF ViewTypes, MutationTypes, Disturbs, NoMutation
<1>3. \A u : OwnKept(u)
  BY SameHistory
<1>4. RequestTypes'
  <2>1. IsFiniteSet(requests')
    BY FS_AddElement, FS_RemoveElement DEF RequestTypes
  <2>2. \A p, q \in requests' : p.id = q.id => p = q
    BY DEF RequestTypes
  <2>3. entry'.request # 0 => \E q \in requests' : q.id = entry'.request
    BY DEF RequestTypes
  <2>4. \A q \in requests' : q.ok =>
          /\ q.phase = "answered" /\ q.as \in Users
          /\ q.data \in Nat /\ q.data <= Len(history'[q.as])
    BY <1>1 DEF RequestTypes
  <2>. QED
    BY <2>1, <2>2, <2>3, <2>4 DEF RequestTypes
<1>5. EntryIsTold'
  <2>. SUFFICES ASSUME entry.data # NoData, ~entry.invalid
                PROVE  Announced(entry.owner, entry.data)'
    BY DEF EntryIsTold
  <2>. QED
    BY <1>1, <1>3, ToldAsBefore DEF ViewTypes, EntryType, EntryIsTold
<1>6. AnswerIsTold'
  <2>. SUFFICES ASSUME NEW q \in requests', q.id = entry.request, q.ok
                PROVE  /\ Announced(q.as, q.data)'
                       /\ q.as = entry.owner /\ entry.data # NoData => entry.data <= q.data
    BY DEF AnswerIsTold
  <2>1. CASE q \in requests
    <3>1. /\ q.as \in Users /\ q.data \in Nat /\ Announced(q.as, q.data)
          /\ q.as = entry.owner /\ entry.data # NoData => entry.data <= q.data
      BY <2>1 DEF RequestTypes, AnswerIsTold
    <3>. QED
      BY <1>1, <1>3, <3>1, ToldAsBefore
  <2>2. CASE q = next
    BY <1>1, <2>2 DEF Announced, ViewTypes
  <2>. QED
    BY <2>1, <2>2
<1>. QED
  BY <1>2, <1>4, <1>5, <1>6

LEMMA RequestSteps ==
    ASSUME ViewInv, NEW r \in requests, getHeaders(r) \/ Answer(r) \/ sendRequestFails(r)
    PROVE  ViewInv'
<1>. USE DEF ViewInv
<1>0. r \in RequestType /\ (r.phase = "sent" => ~r.ok) /\ (r.phase = "headers" => ~r.ok)
  BY DEF RequestTypes
<1>1. CASE getHeaders(r)
  <2>. DEFINE next == [r EXCEPT !.phase = "sent",
                                !.as = IF session \in Users THEN session ELSE NoUser]
  <2>1. next \in RequestType /\ next.id = r.id /\ ~next.ok
    BY <1>0, <1>1 DEF RequestType, getHeaders
  <2>2. requests' = (requests \ {r}) \cup {next}
    BY <1>1 DEF getHeaders, Step
  <2>3. UNCHANGED <<view, deed, session, entry, mutation, history, work, left>>
    BY <1>1 DEF getHeaders
  <2>. HIDE DEF next
  <2>. QED
    BY <2>1, <2>2, <2>3, Advances DEF ViewTypes
<1>2. CASE Answer(r)
  <2>. DEFINE ok == r.as \in Users /\ ~Gone(r.as)
              next == [r EXCEPT !.phase = "answered", !.ok = ok, !.saw = work,
                          !.data = IF ok THEN Len(history[r.as]) ELSE NoData]
  <2>0. r.as \in Users => Len(history[r.as]) \in Nat
    BY LenProperties DEF ViewTypes
  <2>1. next \in RequestType
    BY <1>0, <2>0 DEF RequestType, ViewTypes
  <2>2. next.id = r.id /\ (next.ok => next.phase = "answered" /\ next.as \in Users
                                      /\ next.data = Len(history[next.as]))
    BY <1>0 DEF RequestType
  <2>3. requests' = (requests \ {r}) \cup {next}
    BY <1>2 DEF Answer, Step
  <2>4. UNCHANGED <<view, deed, session, entry, mutation, history, work, left>>
    BY <1>2 DEF Answer
  <2>. HIDE DEF next
  <2>. QED
    BY <2>1, <2>2, <2>3, <2>4, Advances DEF ViewTypes
<1>3. CASE sendRequestFails(r)
  <2>. DEFINE next == [r EXCEPT !.phase = "answered"]
  <2>1. next \in RequestType /\ next.id = r.id /\ ~next.ok
    BY <1>0, <1>3 DEF RequestType, sendRequestFails
  <2>2. requests' = (requests \ {r}) \cup {next}
    BY <1>3 DEF sendRequestFails, Step
  <2>3. /\ UNCHANGED <<view, deed, session, entry, mutation, history, work>>
        /\ left' \in [{"deeds", "foreign", "faults", "signOuts"} -> Nat]
    BY <1>3 DEF sendRequestFails, Spend, ViewTypes
  <2>. HIDE DEF next
  <2>. QED
    BY <2>1, <2>2, <2>3, Advances
<1>. QED
  BY <1>1, <1>2, <1>3

LEMMA SettleStep == ASSUME ViewInv, NEW r \in requests, Settle(r) PROVE ViewInv'
<1>. USE DEF ViewInv
<1>0. /\ UNCHANGED <<view, deed, session, mounted, mutation, history, work, left>>
      /\ requests' = requests \ {r} /\ r.phase = "answered"
      /\ entry' = IF r.id = entry.request THEN Settled(entry, r) ELSE entry
  BY DEF Settle
<1>1. \A u \in Users : Len(history[u]) \in Nat
  BY LenProperties DEF ViewTypes
<1>2. \A u : OwnKept(u)
  BY <1>0, SameHistory
<1>3. r \in RequestType /\ entry \in EntryType
  BY DEF RequestTypes, ViewTypes
<1>4. MutationTypes'
  BY <1>0 DEF MutationTypes, Disturbs, NoMutation
<1>5. IsFiniteSet(requests')
  BY <1>0, FS_RemoveElement DEF RequestTypes
<1>6. \A u \in Users, n \in Nat : Announced(u, n) => Announced(u, n)'
  BY <1>0, <1>1, <1>2, ToldAsBefore
<1>7. CASE r.id # entry.request
  <2>1. entry' = entry
    BY <1>0, <1>7
  <2>2. ViewTypes' /\ RequestTypes'
    BY <1>0, <1>5, <1>7, <2>1 DEF ViewTypes, RequestTypes
  <2>3. EntryIsTold'
    <3>. SUFFICES ASSUME entry.data # NoData, ~entry.invalid
                  PROVE  Announced(entry.owner, entry.data)'
      BY <2>1 DEF EntryIsTold
    <3>. QED
      BY <1>0, <1>1, <1>2, <2>1, ToldAsBefore DEF ViewTypes, EntryType, EntryIsTold
  <2>4. AnswerIsTold'
    <3>. SUFFICES ASSUME NEW q \in requests, q.id = entry.request, q.ok
                  PROVE  Announced(q.as, q.data)'
      BY <1>0, <2>1 DEF AnswerIsTold
    <3>. QED
      BY <1>6 DEF RequestTypes, AnswerIsTold
  <2>. QED
    BY <1>4, <2>2, <2>3, <2>4
<1>8. CASE r.id = entry.request
  <2>1. /\ entry' \in EntryType /\ entry'.request = 0
        /\ IF r.ok THEN entry'.data = r.data /\ entry'.owner = r.as
           ELSE entry'.data = entry.data /\ entry'.owner = entry.owner /\ entry'.invalid
    BY <1>0, <1>3, <1>8 DEF Settled, EntryType, RequestType
  <2>2. r.ok => /\ r.as \in Users /\ r.data \in Nat /\ r.data <= Len(history[r.as])
                /\ Announced(r.as, r.data)
    BY <1>8 DEF RequestTypes, AnswerIsTold
  <2>3. ViewTypes'
    BY <1>0, <2>1, <2>2 DEF ViewTypes
  <2>4. RequestTypes'
    BY <1>0, <1>5, <2>1 DEF RequestTypes
  <2>5. EntryIsTold'
    <3>. SUFFICES ASSUME entry'.data # NoData, ~entry'.invalid
                  PROVE  Announced(entry.owner, entry.data)'
      BY DEF EntryIsTold
    <3>1. r.ok /\ entry'.data = r.data /\ entry'.owner = r.as
      BY <2>1
    <3>2. Announced(r.as, r.data)'
      BY <1>6, <2>2, <3>1
    <3>. QED
      BY <3>1, <3>2, <1>0 DEF Announced
  <2>6. AnswerIsTold'
    <3>1. \A q \in requests' : q.id # 0
      BY <1>0 DEF RequestTypes, RequestType
    <3>. QED
      BY <2>1, <3>1 DEF AnswerIsTold
  <2>. QED
    BY <1>4, <2>3, <2>4, <2>5, <2>6
<1>. QED
  BY <1>7, <1>8

(***************************************************************************)
(* The page and the session                                                *)
(***************************************************************************)
LEMMA OnScreenSteps ==
    ASSUME ViewInv, Enter \/ Leave \/ Focus \/ Poll \/ SignOut \/ \E u \in Users : SignIn(u)
    PROVE  ViewInv'
<1>. USE DEF ViewInv
<1>1. CASE Enter \/ Focus
  BY <1>1, FetchIfStaleStep DEF Enter, Focus, ViewTypes
<1>2. CASE Leave
  <2>1. UNCHANGED <<view, deed, session, entry, requests, mutation, history, work, left>>
    BY <1>2 DEF Leave
  <2>2. MutationTypes' /\ \A u \in Users : OwnKept(u)
    BY <2>1, SameHistory DEF MutationTypes, Disturbs, NoMutation
  <2>3. \A u \in Users : Len(history'[u]) >= Len(history[u])
    BY <2>1, LenProperties DEF ViewTypes
  <2>. QED
    BY <2>1, <2>2, <2>3, NothingTold DEF ViewTypes
<1>3. CASE Poll
  <2>1. Fetch(entry) /\ UNCHANGED <<view, deed, session, mutation, history, work, left>>
    BY <1>3 DEF Poll
  <2>2. MutationTypes' /\ \A u \in Users : OwnKept(u) /\ Len(history[u]) \in Nat
    BY <2>1, SameHistory, LenProperties DEF MutationTypes, Disturbs, NoMutation, ViewTypes
  <2>3. PICK e \in EntryType : e = entry
    BY DEF ViewTypes
  <2>4. ASSUME e.data # NoData, ~e.invalid PROVE Announced(e.owner, e.data)'
    <3>1. e.owner \in Users /\ e.data \in Nat /\ Announced(e.owner, e.data)
      BY <2>3, <2>4 DEF ViewTypes, EntryType, EntryIsTold
    <3>. QED
      BY <2>1, <2>2, <3>1, ToldAsBefore
  <2>5. /\ history' \in [Users -> Seq(Causes)] /\ Fetch(e)
        /\ e.data # NoData => e.owner \in Users /\ e.data <= Len(history[e.owner])
        /\ e.data = NoData => e.owner = NoUser
    BY <2>1, <2>3 DEF ViewTypes
  <2>6. /\ \A u \in Users : Len(history'[u]) >= Len(history[u])
        /\ left' \in [{"deeds", "foreign", "faults", "signOuts"} -> Nat]
        /\ session' \in Users \cup {"loading", NoUser}
    BY <2>1, <2>2 DEF ViewTypes
  <2>. QED
    BY <2>1, <2>2, <2>4, <2>5, <2>6, AfterFetch
<1>4. CASE SignOut
  <2>1. /\ FetchIfStale(mounted, NoUser) /\ session' = NoUser
        /\ UNCHANGED <<view, deed, mutation, history, work>>
        /\ left' \in [{"deeds", "foreign", "faults", "signOuts"} -> Nat]
    BY <1>4 DEF SignOut, Spend, ViewTypes
  <2>. QED
    BY <2>1, FetchIfStaleStep
<1>5. ASSUME NEW u \in Users, SignIn(u) PROVE ViewInv'
  BY <1>5, FetchIfStaleStep DEF SignIn, ViewTypes
<1>. QED
  BY <1>1, <1>2, <1>3, <1>4, <1>5

LEMMA OldSteps == ASSUME ViewInv, Age \/ Collect PROVE ViewInv'
<1>. USE DEF ViewInv
<1>1. /\ UNCHANGED <<view, deed, session, requests, mutation, history, work, left>>
  BY DEF Age, Collect
<1>2. MutationTypes' /\ \A u : OwnKept(u)
  BY <1>1, SameHistory DEF MutationTypes, Disturbs, NoMutation
<1>3. \A u \in Users : Len(history[u]) \in Nat
  BY LenProperties DEF ViewTypes
<1>4. \A u \in Users, n \in Nat : Announced(u, n) => Announced(u, n)'
  BY <1>1, <1>2, <1>3, ToldAsBefore
<1>5. CASE Age
  <2>1. /\ entry' \in EntryType /\ entry'.request = entry.request /\ entry'.data = entry.data
        /\ entry'.owner = entry.owner /\ entry'.invalid = entry.invalid
    BY <1>5 DEF Age, ViewTypes, EntryType
  <2>2. ViewTypes' /\ RequestTypes'
    BY <1>1, <2>1 DEF ViewTypes, RequestTypes
  <2>3. EntryIsTold'
    <3>. SUFFICES ASSUME entry'.data # NoData, ~entry'.invalid
                  PROVE  Announced(entry.owner, entry.data)'
      BY DEF EntryIsTold
    <3>1. PICK u \in Users, n \in Nat : u = entry.owner /\ n = entry.data /\ Announced(u, n)
      BY <2>1 DEF ViewTypes, EntryType, EntryIsTold
    <3>2. Announced(u, n)'
      BY <1>4, <3>1
    <3>. QED
      BY <1>1, <2>1, <3>1, <3>2 DEF Announced
  <2>4. AnswerIsTold'
    BY <1>1, <1>4, <2>1 DEF AnswerIsTold, RequestTypes
  <2>. QED
    BY <1>2, <2>2, <2>3, <2>4
<1>6. CASE Collect
  <2>1. entry' = NoEntry /\ NoEntry \in EntryType
    BY <1>6 DEF Collect, NoEntry, EntryType
  <2>2. NoEntry.data = NoData /\ NoEntry.owner = NoUser /\ NoEntry.request = 0
    BY DEF NoEntry
  <2>3. ViewTypes' /\ RequestTypes' /\ EntryIsTold'
    BY <1>1, <2>1, <2>2 DEF ViewTypes, RequestTypes, EntryIsTold
  <2>4. AnswerIsTold'
    <3>1. \A q \in requests' : q.id # 0
      BY <1>1 DEF RequestTypes, RequestType
    <3>. QED
      BY <2>1, <2>2, <3>1 DEF AnswerIsTold
  <2>. QED
    BY <1>2, <2>3, <2>4
<1>. QED
  BY <1>5, <1>6

(***************************************************************************)
(* Mutations, and what others change                                       *)
(***************************************************************************)
\* A row more in u's history.
LEMMA OneMore ==
    ASSUME ViewInv, NEW u \in Users, NEW cause \in Causes, history' = Changed(u, cause)
    PROVE  /\ history' \in [Users -> Seq(Causes)]
           /\ Len(history[u]) \in Nat /\ Len(history'[u]) = Len(history[u]) + 1
           /\ \A v \in Users : Len(history'[v]) >= Len(history[v])
           /\ \A v \in Users : \A i \in 1..Len(history'[v]) :
                \/ i <= Len(history[v]) /\ history'[v][i] = history[v][i]
                \/ v = u /\ i = Len(history'[u]) /\ history'[v][i] = cause
<1>. DEFINE h == history[u]
<1>1. h \in Seq(Causes) /\ history \in [Users -> Seq(Causes)]
  BY DEF ViewInv, ViewTypes
<1>2. /\ Append(h, cause) \in Seq(Causes) /\ Len(Append(h, cause)) = Len(h) + 1
      /\ \A i \in 1..Len(h) : Append(h, cause)[i] = h[i]
      /\ Append(h, cause)[Len(h) + 1] = cause
  BY <1>1, AppendProperties
<1>3. history' = [history EXCEPT ![u] = Append(h, cause)]
  BY DEF Changed
<1>4. \A v \in Users : Len(history[v]) \in Nat
  BY <1>1, LenProperties
<1>5. \A v \in Users : history'[v] = IF v = u THEN Append(h, cause) ELSE history[v]
  BY <1>1, <1>3
<1>6. history' \in [Users -> Seq(Causes)]
  BY <1>1, <1>2, <1>3
<1>9. Len(h) \in Nat
  BY <1>4
<1>. DEFINE g == Append(h, cause)
<1>10. /\ Len(g) = Len(h) + 1 /\ g[Len(h) + 1] = cause
       /\ \A i \in 1..Len(h) : g[i] = h[i]
       /\ \A v \in Users : history'[v] = IF v = u THEN g ELSE history[v]
  BY <1>2, <1>5
<1>. HIDE DEF g
<1>7. \A v \in Users : Len(history'[v]) >= Len(history[v])
  <2>1. ASSUME NEW v \in Users, v # u PROVE history'[v] = history[v]
    BY <1>10, <2>1
  <2>. QED
    BY <1>4, <1>9, <1>10, <2>1
<1>8. ASSUME NEW v \in Users, NEW i \in 1..Len(history'[v])
      PROVE  \/ i <= Len(history[v]) /\ history'[v][i] = history[v][i]
             \/ v = u /\ i = Len(history'[u]) /\ history'[v][i] = cause
  <2>1. CASE v = u
    <3>1. history'[v] = g /\ history'[u] = g /\ history[v] = h
      BY <1>10, <2>1
    <3>. QED
      BY <1>9, <1>10, <2>1, <3>1
  <2>2. CASE v # u
    BY <1>4, <1>10, <2>2
  <2>. QED
    BY <2>1, <2>2
<1>. QED
  BY <1>2, <1>4, <1>5, <1>6, <1>7, <1>8

\* The change the mutation made is the user's own no more.
LEMMA OneLess ==
    ASSUME ViewInv, NEW cause \in {"lost", "overtaken"}, history' = Recast(cause)
    PROVE  /\ history' \in [Users -> Seq(Causes)]
           /\ \A v \in Users : Len(history'[v]) = Len(history[v])
           /\ \A v \in Users : \A i \in 1..Len(history[v]) : history'[v][i] = "own" =>
                history[v][i] = "own" /\ ~(mutation.at = i /\ mutation.as = v)
<1>. USE DEF ViewInv
<1>0. history \in [Users -> Seq(Causes)] /\ \A v \in Users : Len(history[v]) \in Nat
  BY LenProperties DEF ViewTypes
<1>1. CASE mutation.at = 0
  BY <1>0, <1>1 DEF Recast
<1>2. CASE mutation.at # 0
  <2>. DEFINE u == mutation.as
              h == history[u]
  <2>1. u \in Users /\ h \in Seq(Causes) /\ mutation.at \in 1..Len(h)
    BY <1>0, <1>2 DEF MutationTypes
  <2>2. /\ [h EXCEPT ![mutation.at] = cause] \in Seq(Causes)
        /\ Len([h EXCEPT ![mutation.at] = cause]) = Len(h)
        /\ \A i \in 1..Len(h) : [h EXCEPT ![mutation.at] = cause][i]
                                  = IF i = mutation.at THEN cause ELSE h[i]
    <3>1. cause \in Causes
      BY DEF Causes
    <3>. QED
      BY <2>1, <3>1, ExceptSeq
  <2>. DEFINE g == [h EXCEPT ![mutation.at] = cause]
  <2>3. history' = [history EXCEPT ![u] = g]
    BY <1>2 DEF Recast
  <2>. HIDE DEF g
  <2>4. \A v \in Users : history'[v] = IF v = u THEN g ELSE history[v]
    BY <1>0, <2>3
  <2>5. g \in Seq(Causes) /\ Len(g) = Len(h)
        /\ \A i \in 1..Len(h) : g[i] = IF i = mutation.at THEN cause ELSE h[i]
    BY <2>2 DEF g
  <2>6. history' \in [Users -> Seq(Causes)]
    BY <1>0, <2>3, <2>5
  <2>. QED
    BY <2>1, <2>4, <2>5, <2>6
<1>. QED
  BY <1>1, <1>2

LEMMA NoMutationTypes == mutation' = NoMutation => MutationTypes'
  BY DEF MutationTypes, NoMutation

LEMMA SendSteps == ASSUME ViewInv, mutate \/ Apply \/ mutationFails PROVE ViewInv'
<1>. USE DEF ViewInv
<1>0. history \in [Users -> Seq(Causes)] /\ \A u \in Users : Len(history[u]) \in Nat
  BY LenProperties DEF ViewTypes
<1>1. CASE mutate
  <2>1. /\ UNCHANGED <<view, deed, session, entry, requests, history, work>>
        /\ mutation = NoMutation /\ session \in Users
        /\ mutation' = [NoMutation EXCEPT !.phase = "sent", !.as = session]
        /\ left' \in [{"deeds", "foreign", "faults", "signOuts"} -> Nat]
    BY <1>1 DEF mutate, Spend, ViewTypes
  <2>2. MutationTypes' /\ mutation.at = 0
    BY <2>1 DEF MutationTypes, NoMutation
  <2>3. \A u \in Users : OwnKept(u)
    BY <1>0, <2>1, <2>2 DEF OwnKept
  <2>. QED
    BY <1>0, <2>1, <2>2, <2>3, NothingTold DEF ViewTypes
<1>2. CASE Apply
  <2>1. /\ UNCHANGED <<view, deed, session, entry, requests, work, left>>
        /\ mutation.phase = "sent" /\ mutation.as \in Users /\ mutation.at = 0
        /\ mutation' = [mutation EXCEPT !.phase = "applied",
                           !.at = IF Disturbs(deed, view)
                                  THEN Len(history'[mutation.as]) ELSE 0]
    BY <1>2 DEF Apply, MutationTypes
  <2>2. CASE Disturbs(deed, view)
    <3>1. history' = Changed(mutation.as, "own")
      BY <1>2, <2>2 DEF Apply
    <3>2. PICK u \in Users : u = mutation.as
      BY <2>1
    <3>3. /\ history' \in [Users -> Seq(Causes)]
          /\ Len(history[u]) \in Nat /\ Len(history'[u]) = Len(history[u]) + 1
          /\ \A v \in Users : Len(history'[v]) >= Len(history[v])
          /\ \A v \in Users : \A i \in 1..Len(history'[v]) :
                \/ i <= Len(history[v]) /\ history'[v][i] = history[v][i]
                \/ v = u /\ i = Len(history'[u]) /\ history'[v][i] = "own"
      BY <3>1, <3>2, OneMore DEF Causes
    <3>4. /\ mutation'.at = Len(history'[u]) /\ mutation'.as = u
          /\ mutation'.phase = "applied" /\ mutation'.at \in Nat
          /\ mutation' \in [phase : {"none", "sent", "applied"},
                            as : Users \cup {NoUser}, at : Nat]
      <4>1. mutation \in [phase : {"none", "sent", "applied"},
                          as : Users \cup {NoUser}, at : Nat]
        BY DEF MutationTypes
      <4>2. mutation' = [mutation EXCEPT !.phase = "applied", !.at = Len(history'[u])]
        BY <2>1, <2>2, <3>2
      <4>3. Len(history'[u]) \in Nat
        BY <3>3
      <4>. QED
        BY <3>2, <4>1, <4>2, <4>3
    <3>5. MutationTypes'
      <4>1. Disturbs(deed, view)'
        BY <2>1, <2>2 DEF Disturbs
      <4>2. mutation'.at <= Len(history'[mutation'.as]) /\ mutation'.as \in Users
        BY <3>3, <3>4
      <4>. QED
        BY <3>4, <4>1, <4>2 DEF MutationTypes
    <3>6. \A v \in Users : OwnKept(v)
      BY <2>1, <3>3, <3>4 DEF OwnKept
    <3>. QED
      BY <2>1, <3>3, <3>5, <3>6, NothingTold DEF ViewTypes
  <2>3. CASE ~Disturbs(deed, view)
    <3>1. history' = history /\ mutation'.at = 0
      BY <1>2, <2>1, <2>3 DEF Apply, MutationTypes
    <3>2. MutationTypes'
      <4>1. /\ mutation'.phase = "applied" /\ mutation'.as = mutation.as
            /\ mutation' \in [phase : {"none", "sent", "applied"},
                              as : Users \cup {NoUser}, at : Nat]
        BY <2>1, <2>3 DEF MutationTypes
      <4>. QED
        BY <2>1, <3>1, <4>1 DEF MutationTypes
    <3>3. \A u \in Users : OwnKept(u)
      BY <1>0, <2>1, <3>1 DEF OwnKept
    <3>. QED
      BY <1>0, <2>1, <3>1, <3>2, <3>3, NothingTold DEF ViewTypes
  <2>. QED
    BY <2>2, <2>3
<1>3. CASE mutationFails
  <2>1. /\ UNCHANGED <<view, deed, session, entry, requests, work>>
        /\ mutation' = NoMutation
        /\ left' \in [{"deeds", "foreign", "faults", "signOuts"} -> Nat]
        /\ history' = IF mutation.phase = "applied" THEN Recast("lost") ELSE history
    BY <1>3 DEF mutationFails, Spend, ViewTypes
  <2>2. MutationTypes'
    BY <2>1, NoMutationTypes
  <2>3. CASE mutation.phase = "applied"
    <3>1. /\ history' \in [Users -> Seq(Causes)]
          /\ \A v \in Users : Len(history'[v]) = Len(history[v])
          /\ \A v \in Users : \A i \in 1..Len(history[v]) : history'[v][i] = "own" =>
                history[v][i] = "own" /\ ~(mutation.at = i /\ mutation.as = v)
      BY <2>1, <2>3, OneLess
    <3>2. \A u \in Users : OwnKept(u)
      BY <1>0, <3>1 DEF OwnKept
    <3>3. \A u \in Users : Len(history'[u]) >= Len(history[u])
      BY <1>0, <3>1
    <3>. QED
      BY <2>1, <2>2, <3>1, <3>2, <3>3, NothingTold DEF ViewTypes
  <2>4. CASE mutation.phase # "applied"
    <3>1. mutation.at = 0 /\ history' = history
      BY <2>1, <2>4 DEF MutationTypes
    <3>2. \A u \in Users : OwnKept(u)
      BY <1>0, <3>1 DEF OwnKept
    <3>. QED
      BY <1>0, <2>1, <2>2, <3>1, <3>2, NothingTold DEF ViewTypes
  <2>. QED
    BY <2>3, <2>4
<1>. QED
  BY <1>1, <1>2, <1>3

LEMMA OthersSteps ==
    ASSUME ViewInv, ServerWork \/ \E u \in Users : Foreign(u) PROVE ViewInv'
<1>. USE DEF ViewInv
<1>1. ASSUME NEW u \in Users, Foreign(u) PROVE ViewInv'
  <2>1. /\ UNCHANGED <<view, deed, session, entry, requests, mutation, work>>
        /\ history' = Changed(u, "foreign")
        /\ left' \in [{"deeds", "foreign", "faults", "signOuts"} -> Nat]
    BY <1>1 DEF Foreign, Spend, ViewTypes
  <2>2. /\ history' \in [Users -> Seq(Causes)]
        /\ Len(history[u]) \in Nat /\ Len(history'[u]) = Len(history[u]) + 1
        /\ \A v \in Users : Len(history'[v]) >= Len(history[v])
        /\ \A v \in Users : \A i \in 1..Len(history'[v]) :
              \/ i <= Len(history[v]) /\ history'[v][i] = history[v][i]
              \/ v = u /\ i = Len(history'[u]) /\ history'[v][i] = "foreign"
    <3>1. "foreign" \in Causes
      BY DEF Causes
    <3>. QED
      BY <2>1, <3>1, OneMore
  <2>3. MutationTypes'
    <3>1. \A v \in Users : Len(history[v]) \in Nat /\ Len(history'[v]) \in Nat
      BY <2>2, LenProperties DEF ViewTypes
    <3>2. mutation.at # 0 => /\ mutation.phase = "applied" /\ Disturbs(deed, view)
                             /\ mutation.at <= Len(history'[mutation.as])
      BY <2>2, <3>1 DEF MutationTypes
    <3>. QED
      BY <2>1, <3>2 DEF MutationTypes, Disturbs, NoMutation
  <2>4. \A v \in Users : OwnKept(v)
    BY <2>1, <2>2 DEF OwnKept
  <2>. QED
    BY <2>1, <2>2, <2>3, <2>4, NothingTold DEF ViewTypes
<1>2. CASE ServerWork
  <2>1. /\ UNCHANGED <<view, deed, session, entry, requests, mutation, left>>
        /\ history' = [u \in Users |-> Append(history[u], "foreign")] /\ work' \in Works
    BY <1>2 DEF ServerWork, Works
  <2>2. ASSUME NEW u \in Users
        PROVE  /\ history'[u] \in Seq(Causes) /\ Len(history[u]) \in Nat
               /\ Len(history'[u]) = Len(history[u]) + 1
               /\ \A i \in 1..Len(history'[u]) :
                    \/ i <= Len(history[u]) /\ history'[u][i] = history[u][i]
                    \/ history'[u][i] = "foreign"
    <3>1. history[u] \in Seq(Causes) /\ "foreign" \in Causes
          /\ history'[u] = Append(history[u], "foreign")
      BY <2>1 DEF ViewTypes, Causes
    <3>2. /\ Append(history[u], "foreign") \in Seq(Causes)
          /\ Len(Append(history[u], "foreign")) = Len(history[u]) + 1
          /\ \A i \in 1..Len(history[u]) : Append(history[u], "foreign")[i] = history[u][i]
          /\ Append(history[u], "foreign")[Len(history[u]) + 1] = "foreign"
      BY <3>1, AppendProperties
    <3>3. Len(history[u]) \in Nat
      BY <3>1, LenProperties
    <3>. QED
      BY <3>1, <3>2, <3>3
  <2>3. history' \in [Users -> Seq(Causes)]
    BY <2>1, <2>2
  <2>4. MutationTypes'
    <3>1. mutation.at # 0 => /\ mutation.phase = "applied" /\ Disturbs(deed, view)
                             /\ mutation.at <= Len(history'[mutation.as])
      BY <2>2 DEF MutationTypes
    <3>. QED
      BY <2>1, <3>1 DEF MutationTypes, Disturbs, NoMutation
  <2>5. \A v \in Users : OwnKept(v)
    BY <2>1, <2>2 DEF OwnKept
  <2>6. \A u \in Users : Len(history'[u]) >= Len(history[u])
    BY <2>2
  <2>. QED
    BY <2>1, <2>3, <2>4, <2>5, <2>6, NothingTold DEF ViewTypes
<1>. QED
  BY <1>1, <1>2

(***************************************************************************)
(* The answer to a mutation                                                *)
(***************************************************************************)
LEMMA Emptied ==
    ASSUME ViewInv, UNCHANGED <<view, deed, session, requests, history, work, left>>,
           entry' = NoEntry, MutationTypes'
    PROVE  ViewInv'
<1>. USE DEF ViewInv
<1>1. /\ NoEntry \in EntryType /\ NoEntry.data = NoData /\ NoEntry.owner = NoUser
      /\ NoEntry.request = 0
  BY DEF NoEntry, EntryType
<1>2. \A q \in requests : q.id # 0
  BY DEF RequestTypes, RequestType
<1>3. ViewTypes' /\ RequestTypes' /\ EntryIsTold' /\ AnswerIsTold'
  BY <1>1, <1>2 DEF ViewTypes, RequestTypes, EntryIsTold, AnswerIsTold
<1>. QED
  BY <1>3

LEMMA OnSuccessStep ==
    ASSUME ViewInv, onSuccess,
           Disturbs(deed, view) => \/ LeftStale(view, deed)
                                   \/ Matches(Mutations[deed].invalidates, Key)
                                   \/ Matches(Mutations[deed].removes, Key)
    PROVE  ViewInv'
<1>. USE DEF ViewInv
<1>0. history \in [Users -> Seq(Causes)] /\ \A u \in Users : Len(history[u]) \in Nat
  BY LenProperties DEF ViewTypes
<1>1. /\ UNCHANGED <<view, deed, session, work, left>> /\ mutation' = NoMutation
      /\ MutationTypes' /\ mutation.phase = "applied"
  BY NoMutationTypes DEF onSuccess
<1>2. CASE Matches(Mutations[deed].removes, Key)
  <2>1. Rebuild
    BY <1>2 DEF onSuccess
  <2>2. CASE entry' = NoEntry /\ UNCHANGED requests
    BY <1>1, <2>1, <2>2, Emptied DEF Rebuild
  <2>3. CASE Fetch(NoEntry)
    <3>1. NoEntry \in EntryType /\ NoEntry.data = NoData /\ NoEntry.owner = NoUser
      BY DEF NoEntry, EntryType
    <3>2. \A u \in Users : Len(history'[u]) >= Len(history[u])
      BY <1>0, <2>1 DEF Rebuild
    <3>. QED
      BY <1>0, <1>1, <2>1, <2>3, <3>1, <3>2, AfterFetch DEF Rebuild, ViewTypes
  <2>. QED
    BY <2>1, <2>2, <2>3 DEF Rebuild
<1>3. CASE ~Matches(Mutations[deed].removes, Key) /\ entry # NoEntry
           /\ Matches(Mutations[deed].invalidates, Key)
  <2>. DEFINE marked == [entry EXCEPT !.invalid = TRUE]
              active == mounted /\ Enabled(session)
              again == active /\ (entry.request = 0 \/ entry.data # NoData)
  <2>1. /\ IF again THEN Fetch(marked) ELSE entry' = marked /\ UNCHANGED requests
        /\ history' = IF Overtaken(again) THEN Recast("overtaken") ELSE history
    BY <1>3 DEF onSuccess, Invalidate
  <2>2. PICK e \in EntryType : /\ e = marked /\ e.invalid /\ e.data = entry.data
                               /\ e.owner = entry.owner /\ e.request = entry.request
    <3>1. entry \in EntryType
      BY DEF ViewTypes
    <3>2. /\ marked \in EntryType /\ marked.invalid /\ marked.data = entry.data
          /\ marked.owner = entry.owner /\ marked.request = entry.request
      BY <3>1 DEF EntryType
    <3>. QED
      BY <3>2
  <2>. HIDE DEF marked, active, again
  <2>3. /\ history' \in [Users -> Seq(Causes)]
        /\ \A v \in Users : Len(history'[v]) = Len(history[v])
        /\ Overtaken(again) =>
             \A v \in Users : \A i \in 1..Len(history[v]) : history'[v][i] = "own" =>
                history[v][i] = "own" /\ ~(mutation.at = i /\ mutation.as = v)
    BY <1>0, <2>1, OneLess
  <2>4. \A u \in Users : Len(history'[u]) >= Len(history[u])
    BY <1>0, <2>3
  <2>5. CASE again
    <3>1. Fetch(e)
      BY <2>1, <2>2, <2>5
    <3>2. /\ e.data # NoData => e.owner \in Users /\ e.data <= Len(history[e.owner])
          /\ e.data = NoData => e.owner = NoUser
      BY <2>2 DEF ViewTypes
    <3>. QED
      BY <1>1, <2>2, <2>3, <2>4, <3>1, <3>2, AfterFetch DEF ViewTypes
  <2>6. CASE ~again
    <3>1. entry' = e /\ UNCHANGED requests
      BY <2>1, <2>2, <2>6
    <3>2. ViewTypes' /\ EntryIsTold'
      BY <1>1, <2>2, <2>3, <3>1 DEF ViewTypes, EntryIsTold
    <3>3. RequestTypes'
      <4>1. ASSUME NEW r \in requests, r.ok PROVE r.data <= Len(history'[r.as])
        BY <2>3, <4>1 DEF RequestTypes
      <4>. QED
        BY <2>2, <3>1, <4>1 DEF RequestTypes
    <3>4. ASSUME NEW r \in requests, r.id = entry.request, r.ok
          PROVE  Announced(r.as, r.data)'
      <4>1. Overtaken(again)
        BY <2>6, <3>4 DEF Overtaken, RequestTypes
      <4>2. r.as \in Users /\ r.data \in Nat /\ Announced(r.as, r.data)
        BY <3>4 DEF RequestTypes, AnswerIsTold
      <4>3. OwnKept(r.as)
        BY <1>0, <2>3, <4>1, <4>2 DEF OwnKept
      <4>4. Len(history[r.as]) \in Nat /\ Len(history'[r.as]) \in Nat
        BY <1>0, <2>3, <4>2
      <4>. QED
        BY <1>1, <4>2, <4>3, <4>4, ToldAsBefore
    <3>5. AnswerIsTold'
      <4>. SUFFICES ASSUME NEW r \in requests, r.id = entry.request, r.ok
                    PROVE  /\ Announced(r.as, r.data)'
                           /\ r.as = entry.owner /\ entry.data # NoData
                                => entry.data <= r.data
        BY <2>2, <3>1 DEF AnswerIsTold
      <4>. QED
        BY <3>4 DEF AnswerIsTold
    <3>. QED
      BY <1>1, <3>2, <3>3, <3>5
  <2>. QED
    BY <2>5, <2>6
<1>4. CASE /\ ~Matches(Mutations[deed].removes, Key)
           /\ ~Matches(Mutations[deed].invalidates, Key) \/ entry = NoEntry
  <2>1. UNCHANGED <<entry, requests, history>>
    BY <1>4 DEF onSuccess
  <2>2. CASE entry = NoEntry
    BY <1>1, <2>1, <2>2, Emptied
  <2>3. CASE ~Matches(Mutations[deed].invalidates, Key)
    <3>1. mutation.at # 0 => LeftStale(view, deed)
      BY <1>4, <2>3 DEF MutationTypes
    <3>2. \A u \in Users : OwnKept(u)
      BY <1>0, <2>1, <3>1 DEF OwnKept
    <3>. QED
      BY <1>0, <1>1, <2>1, <3>2, NothingTold DEF ViewTypes
  <2>. QED
    BY <1>4, <2>2, <2>3
<1>. QED
  BY <1>2, <1>3, <1>4

(***************************************************************************)
(* Every state                                                             *)
(***************************************************************************)
LEMMA ViewStart == ASSUME WebInit PROVE ViewInv
<1>1. PICK c \in Cases : view = c[1] /\ deed = c[2] /\ left = c[3]
  BY DEF WebInit
<1>2. /\ view \in DOMAIN Queries /\ deed \in DOMAIN Mutations
      /\ left \in [{"deeds", "foreign", "faults", "signOuts"} -> Nat]
  BY <1>1
<1>3. /\ session = "loading" /\ entry = NoEntry /\ requests = {} /\ mutation = NoMutation
      /\ history = [u \in Users |-> <<>>] /\ work \in Works
  BY DEF WebInit, Works
<1>4. /\ NoEntry \in EntryType /\ NoEntry.data = NoData /\ NoEntry.owner = NoUser
      /\ NoEntry.request = 0
  BY DEF NoEntry, EntryType
<1>5. history \in [Users -> Seq(Causes)]
  BY <1>3, EmptySeq
<1>6. ViewTypes
  BY <1>2, <1>3, <1>4, <1>5 DEF ViewTypes
<1>7. RequestTypes
  BY <1>3, <1>4, FS_EmptySet DEF RequestTypes
<1>8. MutationTypes /\ EntryIsTold /\ AnswerIsTold
  BY <1>3, <1>4 DEF MutationTypes, NoMutation, EntryIsTold, AnswerIsTold
<1>. QED
  BY <1>6, <1>7, <1>8 DEF ViewInv

LEMMA ViewStep == ASSUME ViewInv, [WebNext]_webVars PROVE ViewInv'
<1>1. CASE Fetching \/ \E r \in requests : sendRequestFails(r)
  BY <1>1, RequestSteps, SettleStep DEF Fetching
<1>2. CASE Enter \/ Leave \/ Focus \/ Poll \/ SignOut \/ \E u \in Users : SignIn(u)
  BY <1>2, OnScreenSteps
<1>3. CASE Age \/ Collect
  BY <1>3, OldSteps
<1>4. CASE mutate \/ Apply \/ mutationFails
  BY <1>4, SendSteps
<1>5. CASE onSuccess
  <2>1. view \in DOMAIN Queries /\ deed \in DOMAIN Mutations
    BY DEF ViewInv, ViewTypes
  <2>2. Disturbs(deed, view) =>
          LeftStale(view, deed) \/ Matches(Mutations[deed].invalidates, Key)
    BY <2>1, TablesCover DEF Reaches, Key
  <2>. QED
    BY <1>5, <2>2, OnSuccessStep
<1>6. CASE ServerWork \/ \E u \in Users : Foreign(u)
  BY <1>6, OthersSteps
<1>7. CASE UNCHANGED webVars
  <2>1. MutationTypes' /\ \A u \in Users : OwnKept(u)
    BY <1>7, SameHistory DEF webVars, ViewInv, MutationTypes, Disturbs, NoMutation
  <2>2. \A u \in Users : Len(history'[u]) >= Len(history[u])
    BY <1>7, LenProperties DEF webVars, ViewInv, ViewTypes
  <2>. QED
    BY <1>7, <2>1, <2>2, NothingTold DEF webVars, ViewInv, ViewTypes
<1>. QED
  BY <1>1, <1>2, <1>3, <1>4, <1>5, <1>6, <1>7 DEF WebNext

LEMMA ViewIsSafe == ASSUME ViewInv PROVE WebSafe
<1>. USE DEF ViewInv
<1>1. WebTypeOK
  BY DEF WebTypeOK, ViewTypes, EntryType, RequestTypes, MutationTypes
<1>2. SettledViewIsTrue
  <2>. SUFFICES ASSUME session \in Users, entry.owner = session, ~entry.invalid,
                       mutation.phase = "none",
                       NEW i \in (entry.data + 1)..Len(history[session]),
                       history[session][i] = "own"
                PROVE  LeftStale(view, deed)
    BY DEF SettledViewIsTrue
  <2>1. entry.data # NoData /\ mutation.at = 0
    BY DEF ViewTypes, MutationTypes, NoMutation
  <2>2. Announced(session, entry.data) /\ entry.data \in Nat
    BY <2>1 DEF EntryIsTold, ViewTypes, EntryType
  <2>3. i # 0 /\ Len(history[session]) \in Nat
    BY <2>2, LenProperties DEF ViewTypes
  <2>. QED
    BY <2>1, <2>2, <2>3 DEF Announced
<1>. QED
  BY <1>1, <1>2 DEF WebSafe

\* No step takes an entry back to an older state of its owner's data.
LEMMA DataStep ==
    ASSUME ViewInv, [WebNext]_webVars, entry'.owner = entry.owner, entry.data # NoData,
           entry'.data # NoData
    PROVE  entry'.data >= entry.data
<1>. USE DEF ViewInv
<1>0. entry \in EntryType /\ entry.data \in Nat
  BY DEF ViewTypes, EntryType
<1>1. CASE entry'.data = entry.data
  BY <1>0, <1>1
<1>2. ASSUME NEW r \in requests, Settle(r) PROVE entry'.data >= entry.data
  <2>1. CASE r.id = entry.request /\ r.ok
    <3>1. entry'.data = r.data /\ entry'.owner = r.as /\ r.data \in Nat
      BY <1>0, <1>2, <2>1 DEF Settle, Settled, EntryType, RequestTypes
    <3>. QED
      BY <1>0, <2>1, <3>1 DEF AnswerIsTold
  <2>2. CASE ~(r.id = entry.request /\ r.ok)
    <3>1. entry'.data = entry.data
      BY <1>0, <1>2, <2>2 DEF Settle, Settled, EntryType
    <3>. QED
      BY <1>1, <3>1
  <2>. QED
    BY <2>1, <2>2
<1>3. ASSUME NEW e \in EntryType, Fetch(e) PROVE entry'.data = e.data
  <2>1. PICK id \in Nat \ {0} : entry' = [e EXCEPT !.request = id]
    BY <1>3, Fetched
  <2>. QED
    BY <2>1 DEF EntryType
<1>4. Fetch(entry) => entry'.data = entry.data
  BY <1>0, <1>3
<1>5. CASE Enter \/ Focus \/ Poll \/ SignOut \/ \E u \in Users : SignIn(u)
  BY <1>1, <1>4, <1>5 DEF Enter, Focus, Poll, SignOut, SignIn, FetchIfStale
<1>6. CASE Age
  BY <1>0, <1>1, <1>6 DEF Age, EntryType
<1>7. CASE Collect
  BY <1>7 DEF Collect, NoEntry
<1>8. CASE onSuccess
  <2>1. CASE Rebuild
    <3>1. NoEntry \in EntryType /\ NoEntry.data = NoData
      BY DEF NoEntry, EntryType
    <3>. QED
      BY <1>3, <2>1, <3>1 DEF Rebuild
  <2>2. CASE Invalidate
    <3>. DEFINE marked == [entry EXCEPT !.invalid = TRUE]
    <3>1. marked \in EntryType /\ marked.data = entry.data
      BY <1>0 DEF EntryType
    <3>2. Fetch(marked) \/ entry' = marked
      BY <2>2 DEF Invalidate
    <3>. HIDE DEF marked
    <3>3. entry'.data = entry.data
      BY <1>3, <3>1, <3>2
    <3>. QED
      BY <1>1, <3>3
  <2>3. CASE UNCHANGED entry
    BY <1>1, <2>3
  <2>. QED
    BY <1>8, <2>1, <2>2, <2>3 DEF onSuccess
<1>9. CASE UNCHANGED entry
  BY <1>1, <1>9
<1>. QED
  BY <1>2, <1>5, <1>6, <1>7, <1>8, <1>9
     DEF WebNext, Fetching, webVars, getHeaders, Answer, sendRequestFails, Leave, mutate,
         Apply, mutationFails, Foreign, ServerWork

LEMMA ViewsAlone == WebInit /\ [][WebNext]_webVars => []ViewInv
<1>1. WebInit => ViewInv
  BY ViewStart
<1>2. ViewInv /\ [WebNext]_webVars => ViewInv'
  BY ViewStep
<1>. QED
  BY <1>1, <1>2, PTL

\* A page at rest shows its user every change of the user's own, but for a lost
\* answer, a read that overtook the change, and the pairs that no hook announces -
\* for any view with any mutation (useApiQuery, useApiMutation, and every hook's
\* key and invalidations).
THEOREM WebIsSafe == WebSpec => []WebSafe
<1>1. ViewInv => WebSafe
  BY ViewIsSafe
<1>. QED
  BY <1>1, ViewsAlone, PTL DEF WebSpec

\* No late answer puts an older state of its owner's data over a newer one.
THEOREM DataMovesOn == WebSpec => DataMovesForward
<1>. DEFINE Forward == entry'.owner = entry.owner /\ entry.data # NoData
                         /\ entry'.data # NoData => entry'.data >= entry.data
<1>1. ViewInv /\ [WebNext]_webVars => [Forward]_webVars
  BY DataStep
<1>. QED
  BY <1>1, ViewsAlone, PTL DEF WebSpec, DataMovesForward

HIDE WebDataAssumption DEF WebDataAssumption

(***************************************************************************)
(* The review table                                                        *)
(***************************************************************************)
RowValues == Actions \cup {"none"}

\* The decisions on their way: which rows they are of, and what they say.
SentTypes ==
    /\ word \in [Rows -> RowValues] /\ selected \subseteq Rows
    /\ modalRow # NoModal => modalRow.row \in Rows
    /\ decided \in Nat
    /\ {cached, answers} \subseteq [Pages -> {NoPage} \cup [Rows -> RowValues]]
    /\ sent \subseteq [id : 1..decided, rows : SUBSET Rows, to : Actions,
                       applied : BOOLEAN]
    /\ \A m, n \in sent : m.id = n.id => m = n

\* A row nothing doubtful happened to is in one decision that is still to be
\* applied, and that is the user's last word on it; or in none, and then the
\* server holds that word.
WordIsUnderWay ==
    \A r \in Rows \ doubtful :
        /\ \A m \in sent : ~m.applied /\ r \in m.rows => m.to = word[r]
        /\ \A m, n \in sent :
              ~m.applied /\ ~n.applied /\ r \in m.rows /\ r \in n.rows => m = n
        /\ (\A m \in sent : ~m.applied => r \notin m.rows) => action[r] = word[r]

\* What was read of page p holds what the server holds, but for rows whose
\* decision is applied and about to be answered.
Agrees(read, p) ==
    \A r \in On(p) \ (doubtful \cup overtaken) :
        \/ read[r] = action[r]
        \/ \E m \in sent : m.applied /\ r \in m.rows

\* So does every answer on its way, and every cached page that is neither
\* invalidated nor being fetched.
CacheIsTrue ==
    \A p \in Pages :
        /\ answers[p] # NoPage => Agrees(answers[p], p)
        /\ p \notin old /\ cached[p] # NoPage /\ ~PageInFlight(p)
             => Agrees(cached[p], p)

ReviewInv == ReviewTypeOK /\ SentTypes /\ WordIsUnderWay /\ CacheIsTrue

USE ReviewAssumption DEF ReviewAssumption, reviewVars, tableVars, sentVars, RowValues

LEMMA ReviewStarts == ReviewInit => ReviewInv
<1>. SUFFICES ASSUME ReviewInit PROVE ReviewInv
  OBVIOUS
<1>. USE DEF ReviewInit
<1>1. ReviewTypeOK
  BY DEF ReviewTypeOK, Shown, Pages
<1>2. SentTypes
  BY DEF SentTypes, Pages
<1>3. WordIsUnderWay /\ CacheIsTrue
  BY DEF WordIsUnderWay, CacheIsTrue
<1>. QED
  BY <1>1, <1>2, <1>3 DEF ReviewInv

\* Filtering, ticking and opening rows touch no decision and no page.
LEMMA TableSteps ==
    ASSUME ReviewInv,
           \/ CloseModal \/ Close
           \/ \E s \in Statuses : handleFilterChange(s)
           \/ \E r \in Rows : toggleRow(r) \/ onOpenModal(r)
    PROVE  ReviewInv'
<1>. USE DEF ReviewInv, cacheVars
<1>1. UNCHANGED <<action, cacheVars, sentVars>>
  BY DEF CloseModal, Close, handleFilterChange, toggleRow, onOpenModal
<1>2. page' \in Pages \cup {NoPage}
      /\ (~Shown' => selected' = {} /\ modalRow' = NoModal)
  BY <1>1 DEF ReviewTypeOK, CloseModal, Close, handleFilterChange, toggleRow,
              onOpenModal, Shown, Ready, UnmountTable
<1>3. selected' \subseteq Rows /\ (modalRow' # NoModal => modalRow'.row \in Rows)
  BY DEF SentTypes, CloseModal, Close, handleFilterChange, toggleRow, onOpenModal,
         UnmountTable, NoModal
<1>4. ReviewTypeOK'
  BY <1>1, <1>2 DEF ReviewTypeOK
<1>5. SentTypes'
  BY <1>1, <1>3 DEF SentTypes
<1>6. WordIsUnderWay'
  BY <1>1 DEF WordIsUnderWay
<1>7. CacheIsTrue'
  BY <1>1 DEF CacheIsTrue, Agrees, PageInFlight
<1>. QED
  BY <1>4, <1>5, <1>6, <1>7

\* Pages fetched anew are under way, and nothing is claimed of them.
LEMMA FetchKeepsCache ==
    ASSUME ReviewInv, NEW ps \in SUBSET Pages, FetchPages(ps),
           overtaken' = NotOn(ps),
           UNCHANGED <<action, cached, old, sent, doubtful>>
    PROVE  CacheIsTrue'
<1>. USE DEF ReviewInv
<1>1. /\ reading' = reading \cup ps
      /\ \A p \in Pages : answers'[p] = IF p \in ps THEN NoPage ELSE answers[p]
  BY DEF FetchPages
<1>. SUFFICES ASSUME NEW p \in Pages, p \notin ps
              PROVE  /\ answers[p] # NoPage => Agrees(answers[p], p)'
                     /\ p \notin old /\ cached[p] # NoPage /\ ~PageInFlight(p)
                          => Agrees(cached[p], p)'
  BY <1>1 DEF CacheIsTrue, PageInFlight, Agrees
<1>2. \A r \in On(p) : r \in overtaken' <=> r \in overtaken
  BY DEF NotOn, On
<1>. QED
  BY <1>1, <1>2 DEF CacheIsTrue, Agrees, PageInFlight

LEMMA FetchStep ==
    ASSUME ReviewInv, NEW ps \in SUBSET Pages, FetchPages(ps),
           overtaken' = NotOn(ps), UNCHANGED <<action, cached, old, sentVars>>,
           page' \in Pages,
           UNCHANGED tableVars \/ UnmountTable,
           ~Shown' => selected' = {} /\ modalRow' = NoModal
    PROVE  ReviewInv'
<1>. USE DEF ReviewInv
<1>1. /\ reading' = reading \cup ps /\ failed' \subseteq failed
      /\ \A p \in Pages : answers'[p] = IF p \in ps THEN NoPage ELSE answers[p]
      /\ answers' \in [Pages -> {NoPage} \cup [Rows -> RowValues]]
  BY DEF FetchPages, SentTypes
<1>2. ReviewTypeOK'
  <2>1. overtaken' \subseteq Rows
    BY DEF NotOn, ReviewTypeOK
  <2>2. \A p \in reading' : answers'[p] = NoPage
    BY <1>1 DEF ReviewTypeOK
  <2>. QED
    BY <1>1, <2>1, <2>2 DEF ReviewTypeOK
<1>3. SentTypes'
  <2>1. selected' \subseteq Rows /\ (modalRow' # NoModal => modalRow'.row \in Rows)
    BY DEF SentTypes, UnmountTable
  <2>. QED
    BY <1>1, <2>1 DEF SentTypes
<1>4. WordIsUnderWay'
  BY DEF WordIsUnderWay
<1>5. CacheIsTrue'
  BY FetchKeepsCache
<1>. QED
  BY <1>2, <1>3, <1>4, <1>5

\* Coming to a page, or looking at it again.
LEMMA PagingSteps ==
    ASSUME ReviewInv, Open \/ RefetchPage \/ \E p \in Pages : setPage(p)
    PROVE  ReviewInv'
<1>. USE DEF ReviewInv
<1>1. CASE Open \/ \E p \in Pages : setPage(p)
  <2>1. PICK p \in Pages :
            /\ ObservePage(p)
            /\ IF page = NoPage \/ Ready(p) THEN UNCHANGED tableVars
               ELSE UnmountTable
    BY <1>1 DEF Open, setPage, Shown, FirstPage, Pages
  <2>2. PICK ps \in SUBSET Pages : FetchPages(ps) /\ overtaken' = NotOn(ps)
    BY <2>1 DEF ObservePage
  <2>3. page' = p /\ UNCHANGED <<action, cached, old, sentVars>>
    BY <2>1 DEF ObservePage
  <2>4. ~Shown' => selected' = {} /\ modalRow' = NoModal
    <3>1. CASE page = NoPage
      BY <2>1, <3>1 DEF ReviewTypeOK, Shown
    <3>2. CASE page # NoPage /\ Ready(p)
      BY <2>2, <2>3, <3>2 DEF Shown, Ready, FetchPages
    <3>3. CASE page # NoPage /\ ~Ready(p)
      BY <2>1, <3>3 DEF UnmountTable
    <3>. QED
      BY <3>1, <3>2, <3>3
  <2>. QED
    BY <2>1, <2>2, <2>3, <2>4, FetchStep
<1>2. CASE RefetchPage
  <2>1. page \in Pages
    BY <1>2 DEF RefetchPage, ReviewTypeOK
  <2>2. ~Shown' => selected' = {} /\ modalRow' = NoModal
    BY <1>2 DEF RefetchPage, FetchPages, ReviewTypeOK, Shown, Ready
  <2>. QED
    BY <1>2, <2>1, <2>2, FetchStep DEF RefetchPage
<1>. QED
  BY <1>1, <1>2

\* What is read of a page is what the server holds.
LEMMA ReadStep == ASSUME ReviewInv, NEW p \in Pages, GetResults(p) PROVE ReviewInv'
<1>. USE DEF ReviewInv
<1>. DEFINE read == [r \in Rows |-> IF r \in On(p) THEN action[r] ELSE "none"]
<1>1. read \in [Rows -> RowValues] /\ read # NoPage
  BY DEF ReviewTypeOK
<1>2. answers' \in [Pages -> {NoPage} \cup [Rows -> RowValues]]
      /\ answers'[p] = read
      /\ \A q \in Pages : q # p => answers'[q] = answers[q]
  BY <1>1 DEF GetResults, SentTypes
<1>3. /\ p \in reading /\ reading' = reading \ {p}
      /\ UNCHANGED <<action, page, cached, old, failed, overtaken, tableVars, sentVars>>
  BY DEF GetResults
<1>4. ReviewTypeOK'
  BY <1>2, <1>3 DEF ReviewTypeOK, Shown, Ready
<1>5. SentTypes'
  BY <1>2, <1>3 DEF SentTypes
<1>6. WordIsUnderWay'
  BY <1>3 DEF WordIsUnderWay
<1>7. CacheIsTrue'
  <2>. SUFFICES ASSUME NEW q \in Pages
                PROVE  /\ answers'[q] # NoPage => Agrees(answers[q], q)'
                       /\ q \notin old /\ cached[q] # NoPage /\ ~PageInFlight(q)'
                            => Agrees(cached[q], q)'
    BY <1>3 DEF CacheIsTrue
  <2>1. CASE q = p
    <3>1. Agrees(answers[q], q)'
      BY <1>2, <1>3, <2>1 DEF Agrees, On
    <3>2. PageInFlight(q)'
      BY <1>1, <1>2, <2>1 DEF PageInFlight
    <3>. QED
      BY <3>1, <3>2
  <2>2. CASE q # p
    BY <1>2, <1>3, <2>2 DEF CacheIsTrue, Agrees, PageInFlight
  <2>. QED
    BY <2>1, <2>2
<1>. QED
  BY <1>4, <1>5, <1>6, <1>7

\* An answer that arrives was true of all rows it was not overtaken on.
LEMMA LoadStep == ASSUME ReviewInv, NEW p \in Pages, Load(p) PROVE ReviewInv'
<1>. USE DEF ReviewInv
<1>1. /\ answers[p] # NoPage /\ old' = old \ {p} /\ failed' = failed \ {p}
      /\ UNCHANGED <<action, page, reading, overtaken, tableVars, sentVars>>
  BY DEF Load
<1>2. /\ {cached', answers'} \subseteq [Pages -> {NoPage} \cup [Rows -> RowValues]]
      /\ cached'[p] = answers[p] /\ answers'[p] = NoPage
      /\ \A q \in Pages : q # p => cached'[q] = cached[q] /\ answers'[q] = answers[q]
  BY DEF Load, SentTypes
<1>3. ReviewTypeOK'
  <2>1. old' \subseteq {q \in Pages : cached'[q] # NoPage}
    BY <1>1, <1>2 DEF ReviewTypeOK
  <2>2. Shown => Shown'
    BY <1>1, <1>2 DEF Shown, Ready, ReviewTypeOK
  <2>3. \A q \in Pages : cached'[q] = NoPage
                            \/ cached'[q] \in [Rows -> Actions \cup {"none"}]
    BY <1>2
  <2>4. \A q \in reading : answers'[q] = NoPage
    BY <1>2 DEF ReviewTypeOK
  <2>. QED
    BY <1>1, <2>1, <2>2, <2>3, <2>4 DEF ReviewTypeOK
<1>4. SentTypes'
  BY <1>1, <1>2 DEF SentTypes
<1>5. WordIsUnderWay'
  BY <1>1 DEF WordIsUnderWay
<1>6. CacheIsTrue'
  <2>. SUFFICES ASSUME NEW q \in Pages
                PROVE  /\ answers'[q] # NoPage => Agrees(answers[q], q)'
                       /\ q \notin old' /\ cached'[q] # NoPage /\ ~PageInFlight(q)'
                            => Agrees(cached[q], q)'
    BY DEF CacheIsTrue
  <2>1. CASE q = p
    BY <1>1, <1>2, <2>1 DEF CacheIsTrue, Agrees
  <2>2. CASE q # p
    BY <1>1, <1>2, <2>2 DEF CacheIsTrue, Agrees, PageInFlight
  <2>. QED
    BY <2>1, <2>2
<1>. QED
  BY <1>3, <1>4, <1>5, <1>6

\* A fetch that fails leaves its page without an answer, or invalidated.
LEMMA FailStep == ASSUME ReviewInv, NEW p \in Pages, LoadFails(p) PROVE ReviewInv'
<1>. USE DEF ReviewInv
<1>1. /\ reading' = reading \ {p} /\ failed' = failed \cup {p}
      /\ old' = old \cup {q \in {p} : cached[q] # NoPage}
      /\ UNCHANGED <<action, page, cached, overtaken, sentVars>>
  BY DEF LoadFails
<1>2. answers' \in [Pages -> {NoPage} \cup [Rows -> RowValues]]
      /\ answers'[p] = NoPage
      /\ \A q \in Pages : q # p => answers'[q] = answers[q]
  BY DEF LoadFails, SentTypes
<1>3. ReviewTypeOK'
  <2>1. ~Shown' => selected' = {} /\ modalRow' = NoModal
    BY <1>1 DEF LoadFails, ReviewTypeOK, Shown, Ready, UnmountTable
  <2>2. \A q \in reading' : answers'[q] = NoPage
    BY <1>1, <1>2 DEF ReviewTypeOK
  <2>. QED
    BY <1>1, <2>1, <2>2 DEF ReviewTypeOK
<1>4. SentTypes'
  <2>1. selected' \subseteq Rows /\ (modalRow' # NoModal => modalRow'.row \in Rows)
    BY DEF LoadFails, SentTypes, UnmountTable
  <2>. QED
    BY <1>1, <1>2, <2>1 DEF SentTypes
<1>5. WordIsUnderWay'
  BY <1>1 DEF WordIsUnderWay
<1>6. CacheIsTrue'
  <2>. SUFFICES ASSUME NEW q \in Pages
                PROVE  /\ answers'[q] # NoPage => Agrees(answers[q], q)'
                       /\ q \notin old' /\ cached[q] # NoPage /\ ~PageInFlight(q)'
                            => Agrees(cached[q], q)'
    BY <1>1 DEF CacheIsTrue
  <2>1. CASE q = p
    BY <1>1, <1>2, <2>1
  <2>2. CASE q # p
    BY <1>1, <1>2, <2>2 DEF CacheIsTrue, Agrees, PageInFlight
  <2>. QED
    BY <2>1, <2>2
<1>. QED
  BY <1>3, <1>4, <1>5, <1>6

\* A decision sent becomes the last word on its rows; those that another one
\* still under way is of become doubtful.
LEMMA MutateStep ==
    ASSUME ReviewInv, NEW rows \in SUBSET Rows, NEW to \in Actions,
           mutateStatus(rows, to), UNCHANGED <<action, page, cacheVars>>
    PROVE  /\ WordIsUnderWay' /\ CacheIsTrue'
           /\ decided' \in Nat /\ word' \in [Rows -> RowValues]
           /\ sent' \subseteq [id : 1..decided', rows : SUBSET Rows, to : Actions,
                               applied : BOOLEAN]
           /\ \A m, n \in sent' : m.id = n.id => m = n
<1>. USE DEF ReviewInv
<1>. DEFINE new == [id |-> decided + 1, rows |-> rows, to |-> to, applied |-> FALSE]
            open == UNION {m.rows : m \in {n \in sent : ~n.applied}}
<1>1. /\ decided' = decided + 1 /\ sent' = sent \cup {new}
      /\ word' = [r \in Rows |-> IF r \in rows THEN to ELSE word[r]]
      /\ doubtful' = doubtful \cup (rows \cap open)
  BY DEF mutateStatus
<1>2. decided' \in Nat /\ word' \in [Rows -> RowValues]
  BY <1>1 DEF SentTypes
<1>3. sent' \subseteq [id : 1..decided', rows : SUBSET Rows, to : Actions,
                      applied : BOOLEAN]
  <2>1. new \in [id : 1..(decided + 1), rows : SUBSET Rows, to : Actions,
                 applied : BOOLEAN]
    BY DEF SentTypes
  <2>2. \A m \in sent : m \in [id : 1..(decided + 1), rows : SUBSET Rows,
                               to : Actions, applied : BOOLEAN]
    BY DEF SentTypes
  <2>. QED
    BY <1>1, <2>1, <2>2
<1>4. \A m, n \in sent' : m.id = n.id => m = n
  <2>1. \A m \in sent : m.id # new.id
    BY DEF SentTypes
  <2>. QED
    BY <1>1, <2>1 DEF SentTypes
<1>5. WordIsUnderWay'
  <2>. SUFFICES ASSUME NEW r \in Rows \ doubtful'
                PROVE  /\ \A m \in sent' : ~m.applied /\ r \in m.rows => m.to = word'[r]
                       /\ \A m, n \in sent' :
                            ~m.applied /\ ~n.applied /\ r \in m.rows /\ r \in n.rows => m = n
                       /\ (\A m \in sent' : ~m.applied => r \notin m.rows)
                            => action[r] = word'[r]
    BY DEF WordIsUnderWay
  <2>1. r \in Rows \ doubtful
    BY <1>1
  <2>2. CASE r \in rows
    <3>1. \A m \in sent : ~m.applied => r \notin m.rows
      BY <1>1, <2>2
    <3>2. \A m \in sent' : ~m.applied /\ r \in m.rows => m = new
      BY <1>1, <3>1
    <3>3. word'[r] = to
      BY <1>1, <2>2
    <3>4. new \in sent' /\ ~new.applied /\ r \in new.rows /\ new.to = to
      BY <1>1, <2>2
    <3>. QED
      BY <3>2, <3>3, <3>4
  <2>3. CASE r \notin rows
    <3>1. word'[r] = word[r]
      BY <1>1, <2>3
    <3>2. \A m \in sent' : r \in m.rows => m \in sent
      BY <1>1, <2>3
    <3>3. sent \subseteq sent'
      BY <1>1
    <3>. QED
      BY <2>1, <3>1, <3>2, <3>3 DEF WordIsUnderWay
  <2>. QED
    BY <2>2, <2>3
<1>6. CacheIsTrue'
  BY <1>1 DEF CacheIsTrue, Agrees, PageInFlight, On, cacheVars
<1>. QED
  BY <1>2, <1>3, <1>4, <1>5, <1>6

LEMMA DecideSteps ==
    ASSUME ReviewInv, NEW to \in Actions, handleAction(to) \/ handleBulk(to)
    PROVE  ReviewInv'
<1>1. PICK rows \in SUBSET Rows : mutateStatus(rows, to)
  <2>1. CASE handleAction(to)
    BY <2>1 DEF handleAction, ReviewInv, SentTypes
  <2>2. CASE handleBulk(to)
    BY <2>2 DEF handleBulk, ReviewInv, SentTypes
  <2>. QED
    BY <2>1, <2>2
<1>2. UNCHANGED <<action, page, cacheVars, status>>
  BY DEF handleAction, handleBulk
<1>3. /\ WordIsUnderWay' /\ CacheIsTrue'
      /\ decided' \in Nat /\ word' \in [Rows -> RowValues]
      /\ sent' \subseteq [id : 1..decided', rows : SUBSET Rows, to : Actions,
                          applied : BOOLEAN]
      /\ \A m, n \in sent' : m.id = n.id => m = n
  BY <1>1, <1>2, MutateStep
<1>4. SentTypes'
  BY <1>2, <1>3 DEF handleAction, handleBulk, ReviewInv, SentTypes, NoModal,
                    cacheVars
<1>5. ReviewTypeOK'
  BY <1>2 DEF handleAction, handleBulk, ReviewInv, ReviewTypeOK, Shown, Ready,
              cacheVars
<1>. QED
  BY <1>3, <1>4, <1>5 DEF ReviewInv

\* The server applies a decision: its rows now are what it says.
LEMMA ApplyStep ==
    ASSUME ReviewInv, NEW m \in sent, BulkUpdateResultStatus(m) PROVE ReviewInv'
<1>. USE DEF ReviewInv
<1>. DEFINE done == [m EXCEPT !.applied = TRUE]
<1>1. /\ ~m.applied /\ sent' = (sent \ {m}) \cup {done}
      /\ action' = [r \in Rows |-> IF r \in m.rows THEN m.to ELSE action[r]]
      /\ UNCHANGED <<page, cacheVars, tableVars, decided, word, doubtful>>
  BY DEF BulkUpdateResultStatus
<1>2. /\ m \in [id : 1..decided, rows : SUBSET Rows, to : Actions, applied : BOOLEAN]
      /\ done \in [id : 1..decided, rows : SUBSET Rows, to : Actions, applied : BOOLEAN]
      /\ done.id = m.id /\ done.rows = m.rows /\ done.applied
  <2>1. m \in [id : 1..decided, rows : SUBSET Rows, to : Actions, applied : BOOLEAN]
    BY DEF SentTypes
  <2>. QED
    BY <2>1
<1>3. ReviewTypeOK'
  BY <1>1, <1>2 DEF ReviewTypeOK, Shown, Ready, cacheVars
<1>4. SentTypes'
  <2>0. \A n, k \in sent : n.id = k.id => n = k
    BY DEF SentTypes
  <2>1. \A n, k \in sent' : n.id = k.id => n = k
    <3>1. \A n \in sent' : n = done \/ (n \in sent /\ n # m)
      BY <1>1
    <3>2. \A n \in sent : n # m => n.id # done.id
      BY <1>2, <2>0
    <3>. HIDE DEF done
    <3>. QED
      BY <2>0, <3>1, <3>2
  <2>2. sent' \subseteq [id : 1..decided, rows : SUBSET Rows, to : Actions,
                        applied : BOOLEAN]
    BY <1>1, <1>2 DEF SentTypes
  <2>3. UNCHANGED <<word, selected, modalRow, decided, cached, answers>>
    BY <1>1 DEF cacheVars
  <2>. QED
    BY <2>1, <2>2, <2>3 DEF SentTypes
<1>5. WordIsUnderWay'
  <2>. SUFFICES ASSUME NEW r \in Rows \ doubtful
                PROVE  /\ \A n \in sent' : ~n.applied /\ r \in n.rows => n.to = word[r]
                       /\ \A n, k \in sent' :
                            ~n.applied /\ ~k.applied /\ r \in n.rows /\ r \in k.rows => n = k
                       /\ (\A n \in sent' : ~n.applied => r \notin n.rows)
                            => action'[r] = word[r]
    BY <1>1 DEF WordIsUnderWay
  <2>1. \A n \in sent' : ~n.applied => n \in sent /\ n # m
    BY <1>1, <1>2
  <2>2. \A n \in sent : n # m => n \in sent'
    BY <1>1
  <2>3. CASE r \in m.rows
    BY <1>1, <2>1, <2>3 DEF WordIsUnderWay
  <2>4. CASE r \notin m.rows
    <3>1. action'[r] = action[r]
      BY <1>1, <2>4
    <3>. QED
      BY <2>1, <2>2, <2>4, <3>1 DEF WordIsUnderWay
  <2>. QED
    BY <2>3, <2>4
<1>6. \A read, p : Agrees(read, p) => Agrees(read, p)'
  <2>. SUFFICES ASSUME NEW read, NEW p, Agrees(read, p),
                       NEW r \in On(p) \ (doubtful \cup overtaken)
                PROVE  \/ read[r] = action'[r]
                       \/ \E n \in sent' : n.applied /\ r \in n.rows
    BY <1>1 DEF Agrees, On, cacheVars
  <2>1. CASE r \in m.rows
    BY <1>1, <1>2, <2>1
  <2>2. CASE r \notin m.rows
    <3>1. action'[r] = action[r]
      BY <1>1, <2>2 DEF On
    <3>2. \A n \in sent : n.applied => n \in sent'
      BY <1>1
    <3>. QED
      BY <3>1, <3>2 DEF Agrees
  <2>. QED
    BY <2>1, <2>2
<1>7. CacheIsTrue'
  <2>1. UNCHANGED <<cached, old, reading, answers>>
    BY <1>1 DEF cacheVars
  <2>. SUFFICES ASSUME NEW p \in Pages
                PROVE  /\ answers[p] # NoPage => Agrees(answers[p], p)'
                       /\ p \notin old /\ cached[p] # NoPage /\ ~PageInFlight(p)
                            => Agrees(cached[p], p)'
    BY <2>1 DEF CacheIsTrue, PageInFlight
  <2>2. /\ answers[p] # NoPage => Agrees(answers[p], p)
        /\ p \notin old /\ cached[p] # NoPage /\ ~PageInFlight(p)
             => Agrees(cached[p], p)
    BY DEF CacheIsTrue
  <2>3. /\ Agrees(answers[p], p) => Agrees(answers[p], p)'
        /\ Agrees(cached[p], p) => Agrees(cached[p], p)'
    BY <1>6, <2>1 DEF Agrees
  <2>. QED
    BY <2>2, <2>3
<1>. QED
  BY <1>3, <1>4, <1>5, <1>7

\* A decision is off the way once it is answered or lost; a lost one makes its
\* rows doubtful.
LEMMA AnswerTypes ==
    ASSUME ReviewInv, NEW m \in sent, DecisionAnswered(m) \/ DecisionLost(m)
    PROVE  SentTypes' /\ WordIsUnderWay' /\ ReviewTypeOK'
<1>. USE DEF ReviewInv
<1>1. /\ sent' = sent \ {m} /\ failed' \subseteq failed
      /\ UNCHANGED <<action, page, cached, tableVars, decided, word>>
  BY DEF DecisionAnswered, DecisionLost, InvalidatePages, FetchPages, cacheVars
<1>2. \/ m.applied /\ doubtful' = doubtful
      \/ doubtful' = doubtful \cup m.rows
  BY DEF DecisionAnswered, DecisionLost
<1>3. /\ answers' \in [Pages -> {NoPage} \cup [Rows -> RowValues]]
      /\ reading' \subseteq Pages /\ overtaken' \subseteq Rows
      /\ old' \subseteq {p \in Pages : cached[p] # NoPage}
      /\ \A p \in reading' : answers'[p] = NoPage
  <2>1. CASE DecisionLost(m)
    BY <2>1 DEF DecisionLost, cacheVars, SentTypes, ReviewTypeOK
  <2>2. CASE DecisionAnswered(m)
    <3>1. PICK ps \in SUBSET Pages : FetchPages(ps)
      BY <2>2 DEF DecisionAnswered, InvalidatePages
    <3>2. m.rows \subseteq Rows
      BY DEF SentTypes
    <3>3. old' \subseteq {p \in Pages : cached[p] # NoPage} /\ overtaken' \subseteq Rows
      BY <2>2, <3>2 DEF DecisionAnswered, InvalidatePages, NotOn, ReviewTypeOK
    <3>4. reading' \subseteq Pages /\ (\A p \in reading' : answers'[p] = NoPage)
      BY <3>1 DEF FetchPages, ReviewTypeOK
    <3>5. answers' \in [Pages -> {NoPage} \cup [Rows -> RowValues]]
      BY <3>1 DEF FetchPages, SentTypes
    <3>. QED
      BY <3>3, <3>4, <3>5
  <2>. QED
    BY <2>1, <2>2
<1>4. ReviewTypeOK'
  BY <1>1, <1>3 DEF ReviewTypeOK, Shown, Ready
<1>5. SentTypes'
  BY <1>1, <1>3 DEF SentTypes
<1>6. WordIsUnderWay'
  <2>. SUFFICES ASSUME NEW r \in Rows \ doubtful'
                PROVE  /\ \A n \in sent' : ~n.applied /\ r \in n.rows => n.to = word[r]
                       /\ \A n, k \in sent' :
                            ~n.applied /\ ~k.applied /\ r \in n.rows /\ r \in k.rows => n = k
                       /\ (\A n \in sent' : ~n.applied => r \notin n.rows)
                            => action[r] = word[r]
    BY <1>1 DEF WordIsUnderWay
  <2>1. r \in Rows \ doubtful /\ (m.applied \/ r \notin m.rows)
    BY <1>2
  <2>. QED
    BY <1>1, <2>1 DEF WordIsUnderWay
<1>. QED
  BY <1>4, <1>5, <1>6

LEMMA LostStep == ASSUME ReviewInv, NEW m \in sent, DecisionLost(m) PROVE ReviewInv'
<1>1. sent' = sent \ {m} /\ doubtful' = doubtful \cup m.rows
      /\ UNCHANGED <<action, cacheVars>>
  BY DEF DecisionLost
<1>2. CacheIsTrue'
  <2>1. \A n \in sent, r \in Rows \ doubtful' : r \in n.rows => n \in sent'
    BY <1>1
  <2>. QED
    BY <1>1, <2>1 DEF ReviewInv, CacheIsTrue, Agrees, PageInFlight, On, cacheVars
<1>. QED
  BY <1>2, AnswerTypes DEF ReviewInv

\* An answer invalidates every cached page; an answer of the server's that goes
\* on all the same is overtaken on the decision's rows.
LEMMA AnswerStep ==
    ASSUME ReviewInv, NEW m \in sent, DecisionAnswered(m) PROVE ReviewInv'
<1>. USE DEF ReviewInv
<1>. DEFINE again == {p \in {page} \cap Pages :
                        cached[p] # NoPage \/ ~PageInFlight(p)}
<1>1. /\ sent' = sent \ {m} /\ m.applied /\ FetchPages(again)
      /\ old' = old \cup {p \in Pages : cached[p] # NoPage}
      /\ overtaken' = NotOn(again) \cup {r \in m.rows : answers'[PageOf[r]] # NoPage}
      /\ UNCHANGED <<action, cached, doubtful>>
  BY DEF DecisionAnswered, InvalidatePages
<1>2. \A p \in Pages : answers'[p] = IF p \in again THEN NoPage ELSE answers[p]
  BY <1>1 DEF FetchPages
<1>3. CacheIsTrue'
  <2>. SUFFICES ASSUME NEW p \in Pages, answers'[p] # NoPage
                PROVE  Agrees(answers[p], p)'
    BY <1>1 DEF CacheIsTrue
  <2>1. p \notin again /\ answers'[p] = answers[p] /\ Agrees(answers[p], p)
    BY <1>2 DEF CacheIsTrue
  <2>. HIDE DEF again
  <2>. SUFFICES ASSUME NEW r \in On(p) \ (doubtful \cup overtaken')
                PROVE  \/ answers[p][r] = action[r]
                       \/ \E n \in sent' : n.applied /\ r \in n.rows
    BY <1>1, <2>1 DEF Agrees, On
  <2>2. r \notin m.rows /\ r \notin overtaken
    BY <1>1, <2>1 DEF On, NotOn
  <2>. QED
    BY <1>1, <2>1, <2>2 DEF Agrees
<1>. QED
  BY <1>3, AnswerTypes

LEMMA ReviewStep == ReviewInv /\ [ReviewNext]_reviewVars => ReviewInv'
<1>. SUFFICES ASSUME ReviewInv, [ReviewNext]_reviewVars PROVE ReviewInv'
  OBVIOUS
<1>1. CASE \/ CloseModal \/ Close
           \/ \E s \in Statuses : handleFilterChange(s)
           \/ \E r \in Rows : toggleRow(r) \/ onOpenModal(r)
  BY <1>1, TableSteps
<1>2. CASE Open \/ RefetchPage \/ \E p \in Pages : setPage(p)
  BY <1>2, PagingSteps
<1>3. CASE \E p \in Pages : GetResults(p) \/ Load(p) \/ LoadFails(p)
  BY <1>3, ReadStep, LoadStep, FailStep
<1>4. CASE \E to \in Actions : handleAction(to) \/ handleBulk(to)
  BY <1>4, DecideSteps
<1>5. CASE \E m \in sent : BulkUpdateResultStatus(m)
  BY <1>5, ApplyStep
<1>6. CASE \E m \in sent : DecisionAnswered(m) \/ DecisionLost(m)
  BY <1>6, AnswerStep, LostStep
<1>7. CASE UNCHANGED reviewVars
  BY <1>7 DEF ReviewInv, ReviewTypeOK, SentTypes, WordIsUnderWay, CacheIsTrue,
              Agrees, PageInFlight, Shown, Ready
<1>. QED
  BY <1>1, <1>2, <1>3, <1>4, <1>5, <1>6, <1>7 DEF ReviewNext

LEMMA ReviewIsWhatItSays == ReviewInv => ReviewSafe
<1>. SUFFICES ASSUME ReviewInv PROVE LastWordStands /\ TableIsTrue
  BY DEF ReviewInv, ReviewSafe
<1>1. LastWordStands
  BY DEF ReviewInv, WordIsUnderWay, LastWordStands
<1>2. TableIsTrue
  BY DEF ReviewInv, ReviewTypeOK, CacheIsTrue, Agrees, TableIsTrue, Shown, Ready
<1>. QED
  BY <1>1, <1>2

\* The server ends with the user's last word on every row and the table shows
\* what the server holds, however rows are ticked, paged, filtered and decided
\* (ReconciliationReviewTable, BulkUpdateResultStatus).
THEOREM ReviewIsSafe == ReviewSpec => []ReviewSafe
<1>1. ReviewSpec => []ReviewInv
  BY ReviewStarts, ReviewStep, PTL DEF ReviewSpec
<1>. QED
  BY <1>1, ReviewIsWhatItSays, PTL

HIDE ReviewAssumption DEF ReviewAssumption, reviewVars, tableVars, sentVars, RowValues

(***************************************************************************)
(* Uploads                                                                 *)
(***************************************************************************)
Upload == [id : 1..uploadsSent, form : 1..formsOpened]
UploadCall == [id : 1..uploadsSent, form : 1..formsOpened,
               done : BOOLEAN, here : BOOLEAN]
DeleteCall == [id : 1..MaxUploads, from : 0..MaxUploads,
               done : BOOLEAN, here : BOOLEAN]

UploadTypes ==
    /\ formsOpened \in Nat /\ uploadsSent \in 0..MaxUploads /\ missedCalls \in Nat
    /\ stored \subseteq Upload
    /\ uploading \subseteq UploadCall /\ deleting \subseteq DeleteCall
    /\ uploadForm \in [no : 0..formsOpened, filled : SUBSET UploadFields]
    /\ uploadForm # NoForm => uploadForm.no # 0
    /\ broken => uploadForm.filled = {}

\* A form has one upload under way at a time, and that is of this page while
\* the form is open.  A form with an upload on the server either waits for its
\* answer or is closed for good, unless the answer was lost.
FormOnce ==
    /\ \A c, d \in uploading : c.form = d.form => c = d
    /\ uploadForm # NoForm => \A c \in uploading : c.form = uploadForm.no => c.here
    /\ \A u \in stored : u.form \notin retried =>
        /\ \A v \in stored : v.form = u.form => v = u
        /\ \A c \in uploading : c.form = u.form => c.done
        /\ u.form = uploadForm.no => \E c \in uploading : c.form = u.form

\* What a list lacks, or shows too much, is done and about to be answered, or it
\* was not told of.
Explained(list) ==
    /\ \A i \in Ids(stored) \ list :
          i \in untold \/ \E c \in uploading : c.done /\ c.id = i
    /\ \A i \in list \ Ids(stored) :
          i \in untold \/ \E d \in deleting : d.done /\ d.id = i

ListIsUnderWay ==
    /\ asking => answer = NoList
    /\ answer # NoList => Explained(answer)
    /\ listed # NoList /\ ~outdated /\ ~ListInFlight => Explained(listed)

UploadsInv == UploadsTypeOK /\ UploadTypes /\ FormOnce /\ ListIsUnderWay

USE UploadsAssumption
    DEF UploadsAssumption, uploadVars, seenVars, fetchVars, dialogVars,
        sentUploads, deleteVars, lossVars, NoForm, ListPage

LEMMA UploadsStart == UploadsInit => UploadsInv
<1>. SUFFICES ASSUME UploadsInit PROVE UploadsInv
  OBVIOUS
<1>. USE DEF UploadsInit
<1>1. UploadsTypeOK /\ UploadTypes
  BY DEF UploadsTypeOK, UploadTypes
<1>2. FormOnce /\ ListIsUnderWay
  BY DEF FormOnce, ListIsUnderWay, Explained, ListInFlight
<1>. QED
  BY <1>1, <1>2 DEF UploadsInv

\* A call whose page is left stays what it is.
LEMMA LeftIsThere ==
    ASSUME UploadTypes, FormOnce
    PROVE  /\ Left(uploading) \subseteq UploadCall /\ Left(deleting) \subseteq DeleteCall
           /\ \A c \in uploading : \E b \in Left(uploading) :
                 b.id = c.id /\ b.form = c.form /\ b.done = c.done
           /\ \A b \in Left(uploading) : \E c \in uploading :
                 b.id = c.id /\ b.form = c.form /\ b.done = c.done
           /\ \A c \in deleting : \E b \in Left(deleting) :
                 b.id = c.id /\ b.done = c.done
           /\ \A b, c \in Left(uploading) : b.form = c.form => b = c
<1>. DEFINE gone(c) == [c EXCEPT !.here = FALSE]
<1>1. ASSUME NEW c \in uploading
      PROVE  /\ gone(c) \in UploadCall
             /\ gone(c).id = c.id
             /\ gone(c).form = c.form
             /\ gone(c).done = c.done
  BY DEF UploadTypes, UploadCall
<1>2. ASSUME NEW c \in deleting
      PROVE  /\ gone(c) \in DeleteCall
             /\ gone(c).id = c.id
             /\ gone(c).done = c.done
  BY DEF UploadTypes, DeleteCall
<1>3. \A b \in Left(uploading) : \E c \in uploading : b = gone(c)
  BY DEF Left
<1>4. \A c \in uploading : gone(c) \in Left(uploading)
  BY DEF Left
<1>5. \A c \in deleting : gone(c) \in Left(deleting)
  BY DEF Left
<1>6. \A b \in Left(deleting) : \E c \in deleting : b = gone(c)
  BY DEF Left
<1>. HIDE DEF gone
<1>7. ASSUME NEW b \in Left(uploading), NEW c \in Left(uploading), b.form = c.form
      PROVE  b = c
  <2>1. PICK x \in uploading : b = gone(x)
    BY <1>3
  <2>2. PICK y \in uploading : c = gone(y)
    BY <1>3
  <2>3. x.form = y.form
    BY <1>1, <1>7, <2>1, <2>2
  <2>. QED
    BY <2>1, <2>2, <2>3 DEF FormOnce
<1>. QED
  BY <1>1, <1>2, <1>3, <1>4, <1>5, <1>6, <1>7

\* As long as what is done and not answered stays so, a list is as it was.
LEMMA NothingAnswered ==
    ASSUME ListIsUnderWay, UNCHANGED <<stored, seenVars>>,
           \A c \in uploading : c.done =>
               \E b \in uploading' : b.done /\ b.id = c.id,
           \A d \in deleting : d.done =>
               \E b \in deleting' : b.done /\ b.id = d.id
    PROVE  ListIsUnderWay'
  BY DEF ListIsUnderWay, ListInFlight, Explained, Ids

\* Of an answer the list is told, or its fetch that went on remembers it was not.
LEMMA ToldOfAnswer ==
    ASSUME ListIsUnderWay, NEW id, NEW at, InvalidateList(id, at),
           UNCHANGED <<stored, listed>>,
           \A c \in uploading : c.done /\ c.id # id =>
               \E b \in uploading' : b.done /\ b.id = c.id,
           \A d \in deleting : d.done /\ d.id # id =>
               \E b \in deleting' : b.done /\ b.id = d.id
    PROVE  ListIsUnderWay'
<1>1. CASE AskForList
  BY <1>1 DEF AskForList, InvalidateList, ListIsUnderWay, ListInFlight
<1>2. CASE /\ UNCHANGED <<asking, answer>>
           /\ untold' = IF answer # NoList THEN untold \cup {id} ELSE untold
  <2>1. outdated' = (listed' # NoList)
    BY DEF InvalidateList
  <2>2. answer # NoList => Explained(answer)'
    BY <1>2 DEF ListIsUnderWay, Explained, Ids
  <2>. QED
    BY <1>2, <2>1, <2>2 DEF ListIsUnderWay
<1>. QED
  BY <1>1, <1>2 DEF InvalidateList

\* Of a lost answer it is not told.
LEMMA ToldNothing ==
    ASSUME ListIsUnderWay, NEW id, NotTold(id),
           UNCHANGED <<stored, listed, outdated, asking, answer>>,
           \A c \in uploading : c.done /\ c.id # id =>
               \E b \in uploading' : b.done /\ b.id = c.id,
           \A d \in deleting : d.done /\ d.id # id =>
               \E b \in deleting' : b.done /\ b.id = d.id
    PROVE  ListIsUnderWay'
<1>1. CASE asking
  BY <1>1 DEF ListIsUnderWay, ListInFlight
<1>2. CASE ~asking
  <2>1. untold' = untold \cup {id}
    BY <1>2 DEF NotTold
  <2>2. \A list : Explained(list) => Explained(list)'
    BY <2>1 DEF Explained, Ids
  <2>3. /\ Explained(answer) => Explained(answer)'
        /\ Explained(listed) => Explained(listed)'
    BY <2>2 DEF Explained
  <2>. QED
    BY <1>2, <2>3 DEF ListIsUnderWay, ListInFlight
<1>. QED
  BY <1>1, <1>2

\* A list that is fetched is the server's when it is read there.
LEMMA FetchListSteps ==
    ASSUME ListIsUnderWay, UploadTypes, UNCHANGED <<stored, uploading, deleting>>,
           \/ RefetchUploads \/ GetUploads \/ LoadUploads \/ ListFails
    PROVE  ListIsUnderWay'
<1>1. CASE RefetchUploads
  BY <1>1 DEF RefetchUploads, AskForList, ListIsUnderWay, ListInFlight
<1>2. CASE GetUploads
  <2>1. Explained(answer)'
    BY <1>2 DEF GetUploads, Explained, Ids
  <2>2. Ids(stored) \in SUBSET (1..MaxUploads)
    BY DEF Ids, UploadTypes, Upload
  <2>3. ~asking' /\ answer' # NoList
    BY <1>2, <2>2 DEF GetUploads
  <2>. QED
    BY <2>1, <2>3 DEF ListIsUnderWay, ListInFlight
<1>3. CASE LoadUploads
  BY <1>3 DEF LoadUploads, ListIsUnderWay, ListInFlight, Explained, Ids
<1>4. CASE ListFails
  BY <1>4 DEF ListFails, ListIsUnderWay, ListInFlight
<1>. QED
  BY <1>1, <1>2, <1>3, <1>4

\* What is done in the dialog - and a fetch, which may put a new form in it -
\* touches no call: the form is the one it was, a fresh one, or none.
LEMMA DialogSteps ==
    ASSUME UploadsInv,
           \/ RefetchUploads \/ GetUploads \/ LoadUploads \/ ListFails
           \/ OpenUploadDialog \/ handleUploadDialogOpenChange
           \/ Discard \/ KeepEditing \/ ResetForm
           \/ \E f \in UploadFields : FillUpload(f)
    PROVE  UploadsInv'
<1>. USE DEF UploadsInv
<1>1. /\ UNCHANGED <<route, stored, sentUploads, deleteVars, retried>>
      /\ missedCalls' \in Nat
  BY DEF RefetchUploads, GetUploads, LoadUploads, ListFails, OpenUploadDialog,
         handleUploadDialogOpenChange, Discard, KeepEditing, ResetForm, FillUpload,
         MissCall, UploadTypes
<1>2. \/ formsOpened' = formsOpened /\ uploadForm' = NoForm
      \/ formsOpened' = formsOpened /\ uploadForm' = uploadForm
      \/ /\ formsOpened' = formsOpened /\ uploadForm # NoForm
         /\ uploadForm'.no = uploadForm.no
         /\ uploadForm' \in [no : 0..formsOpened, filled : SUBSET UploadFields]
      \/ /\ formsOpened' = formsOpened + 1 /\ route = ListPage /\ listed # NoList
         /\ uploadForm' = [no |-> formsOpened + 1, filled |-> {}]
  <2>1. CASE LoadUploads \/ ListFails
    BY <2>1 DEF LoadUploads, ListFails, Remount, UploadsTypeOK
  <2>2. CASE \E f \in UploadFields : FillUpload(f)
    BY <2>2 DEF FillUpload, FormShown, UploadTypes
  <2>3. CASE ResetForm
    BY <2>3 DEF ResetForm, FormShown, UploadTypes
  <2>4. CASE OpenUploadDialog
    BY <2>4 DEF OpenUploadDialog, Listing
  <2>5. CASE Discard \/ KeepEditing
    BY <2>5 DEF Discard, KeepEditing
  <2>6. CASE RefetchUploads \/ GetUploads \/ handleUploadDialogOpenChange
    BY <2>6 DEF RefetchUploads, GetUploads, handleUploadDialogOpenChange
  <2>. QED
    BY <2>1, <2>2, <2>3, <2>4, <2>5, <2>6
<1>3. formsOpened \in Nat /\ formsOpened' \in Nat /\ formsOpened <= formsOpened'
  BY <1>2 DEF UploadTypes
<1>4. uploadForm' \in [no : 0..formsOpened', filled : SUBSET UploadFields]
      /\ (uploadForm' # NoForm => uploadForm'.no # 0)
  BY <1>2, <1>3 DEF UploadTypes
<1>5. UploadsTypeOK'
  <2>1. (listed # NoList => listed' # NoList) /\ (broken' => listed' # NoList)
    <3>1. CASE LoadUploads
      BY <3>1 DEF LoadUploads
    <3>2. CASE ListFails
      BY <3>2 DEF ListFails
    <3>3. CASE UNCHANGED seenVars
      BY <3>3 DEF UploadsTypeOK
    <3>4. CASE RefetchUploads \/ GetUploads
      BY <3>4 DEF RefetchUploads, GetUploads, UploadsTypeOK
    <3>. QED
      BY <3>1, <3>2, <3>3, <3>4
         DEF OpenUploadDialog, handleUploadDialogOpenChange, Discard, KeepEditing,
             ResetForm, FillUpload
  <2>. QED
    BY <1>1, <1>2, <1>4, <2>1 DEF UploadsTypeOK
<1>6. UploadTypes'
  <2>1. stored \subseteq Upload'
    BY <1>1, <1>3 DEF UploadTypes, Upload
  <2>2. uploading \subseteq UploadCall' /\ deleting \subseteq DeleteCall'
    BY <1>1, <1>3 DEF UploadTypes, UploadCall, DeleteCall
  <2>3. broken' => uploadForm'.filled = {}
    <3>1. CASE LoadUploads
      BY <3>1 DEF LoadUploads
    <3>2. CASE ListFails
      BY <3>2 DEF ListFails, Remount
    <3>3. CASE OpenUploadDialog \/ ResetForm \/ \E f \in UploadFields : FillUpload(f)
      BY <3>3 DEF OpenUploadDialog, ResetForm, FillUpload, FormShown, Listing
    <3>4. CASE Discard
      BY <3>4 DEF Discard, Listing
    <3>5. CASE RefetchUploads \/ GetUploads \/ handleUploadDialogOpenChange \/ KeepEditing
      BY <3>5 DEF RefetchUploads, GetUploads, handleUploadDialogOpenChange,
                  KeepEditing, UploadTypes
    <3>. QED
      BY <3>1, <3>2, <3>3, <3>4, <3>5
  <2>. QED
    BY <1>1, <1>3, <1>4, <2>1, <2>2, <2>3 DEF UploadTypes
<1>7. FormOnce'
  <2>1. CASE uploadForm' # NoForm /\ uploadForm'.no = uploadForm.no
    <3>1. uploadForm # NoForm
      BY <1>4, <2>1
    <3>. QED
      BY <1>1, <2>1, <3>1 DEF FormOnce
  <2>2. CASE \A u \in stored \cup uploading : u.form # uploadForm'.no
    BY <1>1, <2>2 DEF FormOnce
  <2>3. \A u \in stored \cup uploading : u.form \in 1..formsOpened
    BY DEF UploadTypes, Upload, UploadCall
  <2>4. CASE uploadForm'.no = 0
    BY <2>2, <2>3, <2>4
  <2>5. CASE uploadForm'.no = formsOpened + 1
    BY <1>3, <2>2, <2>3, <2>5
  <2>. QED
    BY <1>2, <1>4, <2>1, <2>4, <2>5
<1>8. ListIsUnderWay'
  <2>1. CASE RefetchUploads \/ GetUploads \/ LoadUploads \/ ListFails
    BY <1>1, <2>1, FetchListSteps
  <2>2. CASE UNCHANGED seenVars
    BY <1>1, <2>2, NothingAnswered
  <2>. QED
    BY <2>1, <2>2 DEF OpenUploadDialog, handleUploadDialogOpenChange, Discard,
                      KeepEditing, ResetForm, FillUpload
<1>. QED
  BY <1>5, <1>6, <1>7, <1>8

\* Another page is only gone to with no form open.
LEMMA PageSteps ==
    ASSUME UploadsInv, NEW target \in 0..MaxUploads, GoTo(target), uploadForm = NoForm
    PROVE  UploadsInv'
<1>. USE DEF UploadsInv
<1>1. /\ route' = target /\ uploading' = Left(uploading) /\ deleting' = Left(deleting)
      /\ UNCHANGED <<stored, listed, outdated, broken, dialogVars, uploadsSent,
                     toDelete, lossVars>>
      /\ AskForList \/ UNCHANGED fetchVars
  BY DEF GoTo, ObserveList
<1>2. UploadsTypeOK'
  BY <1>1 DEF UploadsTypeOK
<1>3. UploadTypes'
  BY <1>1, LeftIsThere DEF UploadTypes, Upload, UploadCall, DeleteCall
<1>4. FormOnce'
  <2>1. \A u \in stored : u.form # uploadForm.no
    BY DEF UploadTypes, Upload
  <2>2. \A b, c \in uploading' : b.form = c.form => b = c
    BY <1>1, LeftIsThere
  <2>3. \A u \in stored : u.form \notin retried =>
           \A c \in uploading' : c.form = u.form => c.done
    BY <1>1, LeftIsThere DEF FormOnce
  <2>. QED
    BY <1>1, <2>1, <2>2, <2>3 DEF FormOnce
<1>5. ListIsUnderWay'
  <2>1. CASE AskForList
    BY <1>1, <2>1 DEF AskForList, ListIsUnderWay, ListInFlight
  <2>2. CASE UNCHANGED fetchVars
    BY <1>1, <2>2, LeftIsThere, NothingAnswered
  <2>. QED
    BY <1>1, <2>1, <2>2
<1>. QED
  BY <1>2, <1>3, <1>4, <1>5

\* A form that can be sent has nothing under way, and nothing on the server
\* but what a lost answer left there.
LEMMA SubmitStep == ASSUME UploadsInv, SubmitUpload PROVE UploadsInv'
<1>. USE DEF UploadsInv
<1>. DEFINE new == [id |-> uploadsSent + 1, form |-> uploadForm.no,
                    done |-> FALSE, here |-> TRUE]
<1>1. /\ uploadForm # NoForm /\ \A c \in uploading : c.form # uploadForm.no
      /\ uploadsSent' = uploadsSent + 1 /\ uploading' = uploading \cup {new}
      /\ UNCHANGED <<route, stored, seenVars, dialogVars, deleteVars, lossVars>>
  BY DEF SubmitUpload, FormShown, canSubmit, uploadPending
<1>2. uploadForm.no \in 1..formsOpened
  BY <1>1 DEF UploadTypes
<1>3. UploadsTypeOK'
  BY <1>1 DEF UploadsTypeOK
<1>4. UploadTypes'
  <2>1. uploadsSent' \in 0..MaxUploads /\ uploadsSent <= uploadsSent'
    BY <1>1 DEF UploadTypes, SubmitUpload
  <2>2. stored \subseteq Upload'
    BY <1>1, <2>1 DEF UploadTypes, Upload
  <2>3. uploading \subseteq UploadCall' /\ deleting \subseteq DeleteCall'
    BY <1>1, <2>1 DEF UploadTypes, UploadCall, DeleteCall
  <2>4. new \in UploadCall'
    BY <1>1, <1>2, <2>1 DEF UploadTypes, UploadCall
  <2>. QED
    BY <1>1, <2>1, <2>2, <2>3, <2>4 DEF UploadTypes
<1>5. FormOnce'
  <2>0. new.form = uploadForm.no /\ new.here
    OBVIOUS
  <2>. HIDE DEF new
  <2>1. \A c, d \in uploading' : c.form = d.form => c = d
    BY <1>1, <2>0 DEF FormOnce
  <2>2. \A c \in uploading' : c.form = uploadForm.no => c.here
    BY <1>1, <2>0 DEF FormOnce
  <2>3. \A u \in stored : u.form \notin retried => u.form # uploadForm.no
    BY <1>1 DEF FormOnce
  <2>4. \A u \in stored : u.form \notin retried =>
          \A c \in uploading' : c.form = u.form => c.done
    BY <1>1, <2>3 DEF FormOnce, new
  <2>. QED
    BY <1>1, <2>1, <2>2, <2>3, <2>4 DEF FormOnce
<1>6. ListIsUnderWay'
  BY <1>1, NothingAnswered
<1>. QED
  BY <1>3, <1>4, <1>5, <1>6

\* The server stores an upload: the one of its form.
LEMMA StoreStep ==
    ASSUME UploadsInv, NEW c \in uploading, StoreUpload(c) PROVE UploadsInv'
<1>. USE DEF UploadsInv
<1>. DEFINE done == [c EXCEPT !.done = TRUE]
            new == [id |-> c.id, form |-> c.form]
<1>1. /\ ~c.done /\ stored' = stored \cup {new}
      /\ uploading' = (uploading \ {c}) \cup {done}
      /\ UNCHANGED <<route, seenVars, dialogVars, uploadsSent, deleteVars, lossVars>>
  BY DEF StoreUpload
<1>2. /\ c \in UploadCall /\ done \in UploadCall /\ new \in Upload
      /\ done.id = c.id /\ done.form = c.form /\ done.done /\ done.here = c.here
      /\ new.id = c.id /\ new.form = c.form
  BY DEF UploadTypes, UploadCall, Upload
<1>. HIDE DEF done, new
<1>3. UploadsTypeOK'
  BY <1>1 DEF UploadsTypeOK
<1>4. UploadTypes'
  BY <1>1, <1>2 DEF UploadTypes, Upload, UploadCall, DeleteCall
<1>5. FormOnce'
  <2>1. \A b, d \in uploading' : b.form = d.form => b = d
    BY <1>1, <1>2 DEF FormOnce
  <2>2. uploadForm # NoForm => \A b \in uploading' : b.form = uploadForm.no => b.here
    BY <1>1, <1>2 DEF FormOnce
  <2>3. ASSUME NEW u \in stored', u.form \notin retried
        PROVE  /\ \A v \in stored' : v.form = u.form => v = u
               /\ \A b \in uploading' : b.form = u.form => b.done
               /\ u.form = uploadForm.no => \E b \in uploading' : b.form = u.form
    <3>1. CASE u.form = c.form
      <4>1. \A v \in stored : v.form # c.form
        BY <1>1, <2>3, <3>1 DEF FormOnce
      <4>2. \A b \in uploading' : b.form = c.form => b = done
        BY <1>1, <1>2 DEF FormOnce
      <4>. QED
        BY <1>1, <1>2, <3>1, <4>1, <4>2
    <3>2. CASE u.form # c.form
      <4>1. u \in stored /\ \A v \in stored' : v.form = u.form => v \in stored
        BY <1>1, <1>2, <3>2
      <4>2. \A b \in uploading' : b.form = u.form => b \in uploading
        BY <1>1, <1>2, <3>2
      <4>3. \A b \in uploading : b.form = u.form => b \in uploading'
        BY <1>1, <1>2, <3>2
      <4>. QED
        BY <2>3, <4>1, <4>2, <4>3 DEF FormOnce
    <3>. QED
      BY <3>1, <3>2
  <2>. QED
    BY <1>1, <2>1, <2>2, <2>3 DEF FormOnce
<1>6. ListIsUnderWay'
  <2>1. Ids(stored') = Ids(stored) \cup {c.id}
    BY <1>1, <1>2 DEF Ids
  <2>2. done \in uploading' /\ \A b \in uploading : b.done => b \in uploading'
    BY <1>1
  <2>3. \A list : Explained(list) => Explained(list)'
    BY <1>1, <1>2, <2>1, <2>2 DEF Explained, Ids
  <2>4. /\ Explained(answer) => Explained(answer)'
        /\ Explained(listed) => Explained(listed)'
    BY <1>1, <2>3 DEF Explained
  <2>. QED
    BY <1>1, <2>4 DEF ListIsUnderWay, ListInFlight
<1>. QED
  BY <1>3, <1>4, <1>5, <1>6

\* An answer closes the form it finds; a refusal leaves it, and of a lost answer
\* the form is remembered as retried.
LEMMA AnswerUploadSteps ==
    ASSUME UploadsInv, NEW c \in uploading, UploadAnswered(c) \/ UploadMissed(c)
    PROVE  UploadsInv'
<1>. USE DEF UploadsInv
<1>1. /\ uploading' = uploading \ {c}
      /\ UNCHANGED <<route, stored, listed, broken, formsOpened, discarding,
                     uploadsSent, deleteVars>>
      /\ retried \subseteq retried'
  BY DEF UploadAnswered, UploadMissed
<1>2. /\ uploadForm' = uploadForm \/ uploadForm' = NoForm
      /\ uploadForm' = uploadForm /\ uploadForm # NoForm /\ c.form = uploadForm.no
           => ~c.done \/ c.form \in retried'
  <2>1. CASE UploadAnswered(c)
    <3>1. uploadForm # NoForm /\ c.form = uploadForm.no => c.here
      BY DEF FormOnce
    <3>. QED
      BY <2>1, <3>1 DEF UploadAnswered
  <2>2. CASE UploadMissed(c)
    BY <2>2 DEF UploadMissed
  <2>. QED
    BY <2>1, <2>2
<1>3. missedCalls' \in Nat
  BY DEF UploadAnswered, UploadMissed, MissCall, UploadTypes
<1>4. UploadsTypeOK'
  BY <1>1, <1>2 DEF UploadsTypeOK, UploadTypes
<1>5. UploadTypes'
  <2>1. formsOpened \in Nat /\ NoForm \in [no : 0..formsOpened, filled : SUBSET UploadFields]
    BY DEF UploadTypes
  <2>. QED
    BY <1>1, <1>2, <1>3, <2>1 DEF UploadTypes, Upload, UploadCall, DeleteCall
<1>6. FormOnce'
  <2>1. \A u \in stored : u.form # 0
    BY DEF UploadTypes, Upload
  <2>2. ASSUME NEW u \in stored, u.form \notin retried', u.form = uploadForm'.no
        PROVE  \E b \in uploading' : b.form = u.form
    <3>1. uploadForm' = uploadForm /\ uploadForm # NoForm
      BY <1>2, <2>1, <2>2
    <3>2. PICK b \in uploading : b.form = u.form /\ b.done
      BY <1>1, <2>2, <3>1 DEF FormOnce
    <3>3. b # c
      BY <1>2, <2>2, <3>1, <3>2
    <3>. QED
      BY <1>1, <3>2, <3>3
  <2>3. uploadForm' # NoForm => uploadForm' = uploadForm
    BY <1>2
  <2>. QED
    BY <1>1, <2>2, <2>3 DEF FormOnce
<1>7. ListIsUnderWay'
  <2>1. \A b \in uploading : b.id # c.id => b \in uploading'
    BY <1>1
  <2>2. CASE UploadAnswered(c)
    BY <1>1, <2>1, <2>2, ToldOfAnswer DEF UploadAnswered
  <2>3. CASE UploadMissed(c) /\ c.done
    BY <1>1, <2>1, <2>3, ToldNothing DEF UploadMissed
  <2>4. CASE UploadMissed(c) /\ ~c.done
    BY <1>1, <2>4, NothingAnswered DEF UploadMissed
  <2>. QED
    BY <2>2, <2>3, <2>4
<1>. QED
  BY <1>4, <1>5, <1>6, <1>7

LEMMA AskDeleteSteps ==
    ASSUME UploadsInv,
           CancelDelete \/ handleConfirm \/ \E u \in 1..MaxUploads : AskDelete(u)
    PROVE  UploadsInv'
<1>. USE DEF UploadsInv
<1>1. UNCHANGED <<route, stored, seenVars, dialogVars, sentUploads, lossVars>>
  BY DEF CancelDelete, handleConfirm, AskDelete
<1>2. /\ toDelete' # NoUpload => toDelete' \in 1..MaxUploads
      /\ deleting \subseteq deleting' /\ deleting' \subseteq DeleteCall
  <2>1. CASE handleConfirm
    <3>1. toDelete \in 1..MaxUploads /\ route \in 0..MaxUploads
      BY <2>1 DEF handleConfirm, DeleteShown, UploadsTypeOK
    <3>2. [id |-> toDelete, from |-> route, done |-> FALSE, here |-> TRUE] \in DeleteCall
      BY <3>1 DEF DeleteCall
    <3>. QED
      BY <2>1, <3>1, <3>2 DEF handleConfirm, UploadTypes
  <2>2. CASE CancelDelete \/ \E u \in 1..MaxUploads : AskDelete(u)
    BY <2>2 DEF CancelDelete, AskDelete, UploadsTypeOK, UploadTypes
  <2>. QED
    BY <2>1, <2>2
<1>3. UploadsTypeOK'
  BY <1>1, <1>2 DEF UploadsTypeOK
<1>4. UploadTypes'
  BY <1>1, <1>2 DEF UploadTypes, Upload, UploadCall, DeleteCall
<1>5. FormOnce'
  BY <1>1 DEF FormOnce
<1>6. ListIsUnderWay'
  BY <1>1, <1>2, NothingAnswered
<1>. QED
  BY <1>3, <1>4, <1>5, <1>6

LEMMA DeleteStep ==
    ASSUME UploadsInv, NEW d \in deleting, DeleteUpload(d) PROVE UploadsInv'
<1>. USE DEF UploadsInv
<1>. DEFINE done == [d EXCEPT !.done = TRUE]
<1>1. /\ ~d.done /\ stored' = {u \in stored : u.id # d.id}
      /\ deleting' = (deleting \ {d}) \cup {done}
      /\ UNCHANGED <<route, seenVars, dialogVars, sentUploads, toDelete, lossVars>>
  BY DEF DeleteUpload
<1>2. done \in DeleteCall /\ done.id = d.id /\ done.done
  BY DEF UploadTypes, DeleteCall
<1>. HIDE DEF done
<1>3. UploadsTypeOK'
  BY <1>1 DEF UploadsTypeOK
<1>4. UploadTypes'
  BY <1>1, <1>2 DEF UploadTypes, Upload, UploadCall, DeleteCall
<1>5. FormOnce'
  BY <1>1 DEF FormOnce
<1>6. ListIsUnderWay'
  <2>1. Ids(stored') = Ids(stored) \ {d.id}
    BY <1>1 DEF Ids
  <2>2. done \in deleting' /\ \A b \in deleting : b.done => b \in deleting'
    BY <1>1
  <2>3. \A list : Explained(list) => Explained(list)'
    BY <1>1, <1>2, <2>1, <2>2 DEF Explained, Ids
  <2>4. /\ Explained(answer) => Explained(answer)'
        /\ Explained(listed) => Explained(listed)'
    BY <1>1, <2>3 DEF Explained
  <2>. QED
    BY <1>1, <2>4 DEF ListIsUnderWay, ListInFlight
<1>. QED
  BY <1>3, <1>4, <1>5, <1>6

\* The answer may take the browser to the list: from a page without a form.
LEMMA DeletedStep ==
    ASSUME UploadsInv, NEW d \in deleting, DeleteAnswered(d) PROVE UploadsInv'
<1>. USE DEF UploadsInv
<1>1. /\ UNCHANGED <<stored, listed, broken, dialogVars, uploadsSent, lossVars>>
      /\ InvalidateList(d.id, route')
      /\ toDelete' = toDelete \/ toDelete' = NoUpload
  BY DEF DeleteAnswered
<1>2. \/ /\ route' = route /\ uploading' = uploading /\ deleting' = deleting \ {d}
      \/ /\ route' = ListPage /\ uploadForm = NoForm
         /\ uploading' = Left(uploading) /\ deleting' = Left(deleting \ {d})
  BY DEF DeleteAnswered, UploadsTypeOK
<1>3. UploadsTypeOK'
  BY <1>1, <1>2 DEF UploadsTypeOK
<1>4. Left(deleting \ {d}) \subseteq Left(deleting)
  BY DEF Left
<1>5. UploadTypes'
  BY <1>1, <1>2, <1>4, LeftIsThere DEF UploadTypes, Upload, UploadCall, DeleteCall
<1>6. FormOnce'
  <2>1. CASE uploading' = uploading
    BY <1>1, <2>1 DEF FormOnce
  <2>2. CASE uploadForm = NoForm /\ uploading' = Left(uploading)
    <3>1. \A u \in stored : u.form # uploadForm.no
      BY <2>2 DEF UploadTypes, Upload
    <3>2. \A b, c \in uploading' : b.form = c.form => b = c
      BY <2>2, LeftIsThere
    <3>3. \A u \in stored : u.form \notin retried =>
            \A c \in uploading' : c.form = u.form => c.done
      BY <2>2, LeftIsThere DEF FormOnce
    <3>. QED
      BY <1>1, <2>2, <3>1, <3>2, <3>3 DEF FormOnce
  <2>. QED
    BY <1>2, <2>1, <2>2
<1>7. ListIsUnderWay'
  <2>1. \A c \in uploading : \E b \in uploading' : b.id = c.id /\ b.done = c.done
    BY <1>2, LeftIsThere
  <2>2. \A c \in deleting : c.id # d.id =>
            \E b \in deleting' : b.id = c.id /\ b.done = c.done
    <3>1. \A c \in deleting : [c EXCEPT !.here = FALSE].id = c.id
                              /\ [c EXCEPT !.here = FALSE].done = c.done
      BY DEF UploadTypes, DeleteCall
    <3>. QED
      BY <1>2, <3>1 DEF Left
  <2>. QED
    BY <1>1, <2>1, <2>2, ToldOfAnswer
<1>. QED
  BY <1>3, <1>5, <1>6, <1>7

LEMMA DeleteMissedStep ==
    ASSUME UploadsInv, NEW d \in deleting, DeleteMissed(d) PROVE UploadsInv'
<1>. USE DEF UploadsInv
<1>1. /\ deleting' = deleting \ {d}
      /\ UNCHANGED <<route, stored, listed, outdated, broken, asking, answer,
                     dialogVars, sentUploads, toDelete, retried>>
      /\ IF d.done THEN NotTold(d.id) ELSE UNCHANGED untold
  BY DEF DeleteMissed
<1>2. missedCalls' \in Nat
  BY DEF DeleteMissed, MissCall, UploadTypes
<1>3. UploadsTypeOK'
  BY <1>1 DEF UploadsTypeOK
<1>4. UploadTypes'
  BY <1>1, <1>2 DEF UploadTypes, Upload, UploadCall, DeleteCall
<1>5. FormOnce'
  BY <1>1 DEF FormOnce
<1>6. ListIsUnderWay'
  <2>1. CASE d.done
    BY <1>1, <2>1, ToldNothing
  <2>2. CASE ~d.done
    BY <1>1, <2>2, NothingAnswered
  <2>. QED
    BY <2>1, <2>2
<1>. QED
  BY <1>3, <1>4, <1>5, <1>6

LEMMA UploadsStep == UploadsInv /\ [UploadsNext]_uploadVars => UploadsInv'
<1>. SUFFICES ASSUME UploadsInv, [UploadsNext]_uploadVars PROVE UploadsInv'
  OBVIOUS
<1>1. CASE \/ RefetchUploads \/ GetUploads \/ LoadUploads \/ ListFails
           \/ OpenUploadDialog \/ handleUploadDialogOpenChange
           \/ Discard \/ KeepEditing \/ ResetForm
           \/ \E f \in UploadFields : FillUpload(f)
  BY <1>1, DialogSteps
<1>2. CASE Back \/ \E u \in 1..MaxUploads : Visit(u)
  <2>1. uploadForm = NoForm /\ \E p \in 0..MaxUploads : GoTo(p)
    BY <1>2 DEF Back, Visit, UploadsInv, UploadsTypeOK
  <2>. QED
    BY <2>1, PageSteps
<1>3. CASE SubmitUpload
  BY <1>3, SubmitStep
<1>4. CASE \E c \in uploading : StoreUpload(c)
  BY <1>4, StoreStep
<1>5. CASE \E c \in uploading : UploadAnswered(c) \/ UploadMissed(c)
  BY <1>5, AnswerUploadSteps
<1>6. CASE CancelDelete \/ handleConfirm \/ \E u \in 1..MaxUploads : AskDelete(u)
  BY <1>6, AskDeleteSteps
<1>7. CASE \E d \in deleting : DeleteUpload(d)
  BY <1>7, DeleteStep
<1>8. CASE \E d \in deleting : DeleteAnswered(d)
  BY <1>8, DeletedStep
<1>9. CASE \E d \in deleting : DeleteMissed(d)
  BY <1>9, DeleteMissedStep
<1>10. CASE UNCHANGED uploadVars
  BY <1>10 DEF UploadsInv, UploadsTypeOK, UploadTypes, FormOnce, ListIsUnderWay,
               Upload, UploadCall, DeleteCall, Ids, Explained, ListInFlight
<1>. QED
  BY <1>1, <1>2, <1>3, <1>4, <1>5, <1>6, <1>7, <1>8, <1>9, <1>10 DEF UploadsNext

LEMMA UploadsAreWhatTheySay == UploadsInv => UploadsSafe
<1>. SUFFICES ASSUME UploadsInv PROVE OneUploadPerForm /\ ListIsTrue
  BY DEF UploadsInv, UploadsSafe
<1>1. OneUploadPerForm
  BY DEF UploadsInv, FormOnce, OneUploadPerForm
<1>2. ListIsTrue
  BY DEF UploadsInv, ListIsUnderWay, Explained, Listing, ListIsTrue
<1>. QED
  BY <1>1, <1>2

\* One form makes one upload unless an answer was lost, and a list at rest is
\* the server's but for what it was not told of, whatever is answered late, lost
\* or deleted meanwhile
\* (ReconciliationUploadForm, the upload list and its delete dialogs).
THEOREM UploadsAreSafe == UploadsSpec => []UploadsSafe
<1>1. UploadsSpec => []UploadsInv
  BY UploadsStart, UploadsStep, PTL DEF UploadsSpec
<1>. QED
  BY <1>1, UploadsAreWhatTheySay, PTL

\* What the user fills in goes only by Reset, Discard, the answer to an upload,
\* when the list turns from empty to full under the dialog, or when a refetch of
\* the list fails: no refusal, no lost answer, no late list and no delete takes it
\* away.
THEOREM FilledFormIsKept == UploadsSpec => FormIsKept
<1>. DEFINE Kept == uploadForm.filled \ uploadForm'.filled # {}
                      => \/ discarding' # discarding
                         \/ \E c \in uploading : c.done /\ c \notin uploading'
                         \/ listed' # listed /\ {} \in {listed, listed'}
                         \/ broken' /\ ~broken
<1>1. ASSUME UploadsInv, [UploadsNext]_uploadVars PROVE [Kept]_uploadVars
  <2>1. CASE uploadForm' = uploadForm
    BY <2>1
  <2>2. CASE LoadUploads
    BY <2>2 DEF LoadUploads
  <2>3. CASE ListFails
    BY <1>1, <2>3 DEF ListFails, Remount, UploadsInv, UploadsTypeOK, UploadTypes
  <2>4. CASE OpenUploadDialog
    BY <2>4 DEF OpenUploadDialog
  <2>5. CASE Discard \/ ResetForm
    BY <2>5 DEF Discard, ResetForm, FormShown
  <2>6. CASE \E f \in UploadFields : FillUpload(f)
    BY <1>1, <2>6 DEF FillUpload, UploadsInv, UploadTypes
  <2>7. CASE \E c \in uploading : UploadAnswered(c)
    BY <2>7 DEF UploadAnswered
  <2>. QED
    BY <1>1, <2>1, <2>2, <2>3, <2>4, <2>5, <2>6, <2>7
       DEF UploadsNext, RefetchUploads, GetUploads, handleUploadDialogOpenChange,
           KeepEditing, Back, GoTo, Visit, SubmitUpload, StoreUpload, UploadMissed,
           CancelDelete, handleConfirm, AskDelete, DeleteUpload, DeleteAnswered,
           DeleteMissed
<1>2. UploadsSpec => []UploadsInv
  BY UploadsStart, UploadsStep, PTL DEF UploadsSpec
<1>. QED
  BY <1>1, <1>2, PTL DEF UploadsSpec, FormIsKept

HIDE UploadsAssumption
    DEF UploadsAssumption, uploadVars, seenVars, fetchVars, dialogVars,
        sentUploads, deleteVars, lossVars, NoForm, ListPage
=============================================================================
