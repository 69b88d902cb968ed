------------------------------- MODULE WebData ------------------------------
(***************************************************************************)
(* The web front end's server state: one view (a query hook on a mounted   *)
(* page) with its cache entry, the requests under way for it, one kind of  *)
(* mutation (the deed), the Clerk session, and the server, which other     *)
(* actors change too.  TanStack Query is external: it is modelled by what  *)
(* the options in app/Providers.tsx and the hooks make it do.              *)
(***************************************************************************)
EXTENDS WebApi, FiniteSets

CONSTANTS
    Users, NoUser, NoData,
    Cases           \* <<query, mutation, bounds>>: a view, a mutation made
                    \* beside it, and how many mutations (deeds), changes by
                    \* others (foreign), lost calls or answers (faults) and
                    \* sign-outs (signOuts) there may be

ASSUME WebDataAssumption ==
    /\ NoUser \notin Users /\ NoData \notin Nat
    /\ Cases \subseteq (DOMAIN Queries) \X (DOMAIN Mutations)
                   \X [{"deeds", "foreign", "faults", "signOuts"} -> Nat]

VARIABLES
    view, deed,     \* the query on screen and the mutation made beside it
    session,        \* whom Clerk has signed in; "loading" or NoUser else
    mounted,        \* is the page of the view open?
    entry,          \* the view's cache entry
    requests,       \* requests for the view that have not settled
    mutation,       \* the mutation under way
    history,        \* the changes to what the view shows, each with its cause
    work,           \* processing_status of the upload on screen
    left            \* what is left of each of the case's bounds

webVars == <<view, deed, session, mounted, entry, requests, mutation, history,
             work, left>>

Key == Queries[view].key
Detail == view = "useReconciliationUploadDetail"

\* data counts the changes the answer included; saw is the status in it.
NoEntry == [data |-> NoData, owner |-> NoUser, invalid |-> FALSE,
            aged |-> FALSE, saw |-> "none", request |-> 0]
NoMutation == [phase |-> "none", as |-> NoUser, at |-> 0]
RequestIds == 1..(Cardinality(requests) + 1)

WebInit ==
    /\ \E c \in Cases : view = c[1] /\ deed = c[2] /\ left = c[3]
    /\ session = "loading" /\ mounted = TRUE
    /\ entry = NoEntry /\ requests = {} /\ mutation = NoMutation
    /\ history = [u \in Users |-> <<>>]
    /\ work = IF Detail THEN "UPLOADED" ELSE "COMPLETED"

Spend(what) == left[what] > 0 /\ left' = [left EXCEPT ![what] = @ - 1]
-----------------------------------------------------------------------------
(* Fetching *)

\* Every hook waits for a signed-in user; the dashboard only for Clerk.
Enabled(s) == IF view = "useDashboard" THEN s # "loading" ELSE s \in Users

\* staleTime is five minutes; nothing fetched, a failure and an invalidation
\* make an entry stale at once.
Stale(e) == e.data = NoData \/ e.invalid \/ e.aged

\* A fetch of entry e: a request that first asks for its headers.
Fetch(e) ==
    LET id == CHOOSE i \in RequestIds : \A r \in requests : r.id # i
    IN  /\ entry' = [e EXCEPT !.request = id]
        /\ requests' = requests \cup
             {[id |-> id, phase |-> "headers", as |-> NoUser, ok |-> FALSE,
               data |-> NoData, saw |-> "none"]}

\* What an observer does when it is mounted, enabled, or looked at again.
FetchIfStale(open, s) ==
    IF open /\ Enabled(s) /\ Stale(entry) /\ entry.request = 0
    THEN Fetch(entry)
    ELSE UNCHANGED <<entry, requests>>

Step(r, next) == requests' = (requests \ {r}) \cup {next}

\* getHeaders: the token is whoever is signed in when Clerk is asked.
getHeaders(r) ==
    /\ r.phase = "headers"
    /\ Step(r, [r EXCEPT !.phase = "sent",
                         !.as = IF session \in Users THEN session ELSE NoUser])
    /\ UNCHANGED <<view, deed, session, mounted, entry, mutation, history,
                   work, left>>

\* Is the entity on screen one the deed has removed?
Gone(u) == /\ Matches(Mutations[deed].removes, Key)
           /\ \E i \in DOMAIN history[u] : history[u][i] # "foreign"

\* The server reads: 401 without a token, 404 for what is gone.
Answer(r) ==
    /\ r.phase = "sent"
    /\ LET ok == r.as \in Users /\ ~Gone(r.as)
       IN  Step(r, [r EXCEPT !.phase = "answered", !.ok = ok, !.saw = work,
                       !.data = IF ok THEN Len(history[r.as]) ELSE NoData])
    /\ UNCHANGED <<view, deed, session, mounted, entry, mutation, history,
                   work, left>>

\* No answer arrives, or a refusal: sendRequest throws or catchErrorCodes does.
sendRequestFails(r) ==
    /\ r.phase = "sent" /\ Spend("faults")
    /\ Step(r, [r EXCEPT !.phase = "answered"])
    /\ UNCHANGED <<view, deed, session, mounted, entry, mutation, history,
                   work>>

\* The promise settles once; an answer nobody waits for changes nothing.
\* An error keeps the data there was and marks it stale; nothing is retried.
Settled(e, r) ==
    IF r.ok THEN [e EXCEPT !.data = r.data, !.owner = r.as, !.saw = r.saw,
                    !.invalid = FALSE, !.aged = FALSE, !.request = 0]
    ELSE [e EXCEPT !.invalid = TRUE, !.request = 0]

\* Mutant: whichever answer arrives is taken.
SettleAny(r) ==
    /\ r.phase = "answered" /\ requests' = requests \ {r}
    /\ entry' = IF r.ok THEN Settled(entry, r) ELSE entry
    /\ UNCHANGED <<view, deed, session, mounted, mutation, history, work, left>>

Settle(r) ==
    /\ r.phase = "answered" /\ requests' = requests \ {r}
    /\ entry' = IF r.id = entry.request THEN Settled(entry, r) ELSE entry
    /\ UNCHANGED <<view, deed, session, mounted, mutation, history, work, left>>
-----------------------------------------------------------------------------
(* The page and the session *)

Enter ==
    /\ ~mounted /\ mounted' = TRUE
    /\ FetchIfStale(TRUE, session)
    /\ UNCHANGED <<view, deed, session, mutation, history, work, left>>

\* What is under way goes on.
Leave ==
    /\ mounted /\ mounted' = FALSE
    /\ UNCHANGED <<view, deed, session, entry, requests, mutation, history,
                   work, left>>

Focus ==
    /\ mounted /\ FetchIfStale(TRUE, session)
    /\ UNCHANGED <<view, deed, session, mounted, mutation, history, work, left>>

\* Five minutes pass; unused entries go after five more.
Age ==
    /\ entry.data # NoData /\ ~entry.aged
    /\ entry' = [entry EXCEPT !.aged = TRUE]
    /\ UNCHANGED <<view, deed, session, mounted, requests, mutation, history,
                   work, left>>

Collect ==
    /\ ~mounted /\ entry.aged /\ entry.request = 0
    /\ entry' = NoEntry
    /\ UNCHANGED <<view, deed, session, mounted, requests, mutation, history,
                   work, left>>

\* Mutant: the page polls until the work is done.
PollsOnStart == entry.saw = "UPLOADED"

\* refetchInterval of the detail: every three seconds while PROCESSING.
refetchInterval == entry.saw = "PROCESSING"

Poll ==
    /\ Detail /\ mounted /\ Enabled(session) /\ refetchInterval
    /\ entry.request = 0 /\ Fetch(entry)
    /\ UNCHANGED <<view, deed, session, mounted, mutation, history, work, left>>

\* ApiClientConfig and the queries see the new session in one commit; the
\* client configures the token first.  The cache keeps what it has.
SignIn(u) ==
    /\ session \in {"loading", NoUser} /\ session' = u
    /\ FetchIfStale(mounted, u)
    /\ UNCHANGED <<view, deed, mounted, mutation, history, work, left>>

SignOut ==
    /\ session # NoUser /\ Spend("signOuts") /\ session' = NoUser
    /\ FetchIfStale(mounted, NoUser)
    /\ UNCHANGED <<view, deed, mounted, mutation, history, work>>
-----------------------------------------------------------------------------
(* Mutations *)

mutate ==
    /\ session \in Users /\ mutation = NoMutation /\ Spend("deeds")
    /\ mutation' = [NoMutation EXCEPT !.phase = "sent", !.as = session]
    /\ UNCHANGED <<view, deed, session, mounted, entry, requests, history, work>>

Changed(u, cause) == [history EXCEPT ![u] = Append(@, cause)]

Apply ==
    /\ mutation.phase = "sent"
    /\ history' = IF Disturbs(deed, view) THEN Changed(mutation.as, "own")
                  ELSE history
    /\ mutation' = [mutation EXCEPT !.phase = "applied",
                       !.at = IF Disturbs(deed, view)
                              THEN Len(history'[mutation.as]) ELSE 0]
    /\ UNCHANGED <<view, deed, session, mounted, entry, requests, work, left>>

\* A change of one's own becomes one that nothing announced.
Recast(cause) ==
    IF mutation.at = 0 THEN history
    ELSE [history EXCEPT ![mutation.as][mutation.at] = cause]

\* Refused before, or the answer lost after it was applied: an error either
\* way, and onSuccess never runs.
mutationFails ==
    /\ mutation # NoMutation /\ Spend("faults") /\ mutation' = NoMutation
    /\ history' = IF mutation.phase = "applied" THEN Recast("lost") ELSE history
    /\ UNCHANGED <<view, deed, session, mounted, entry, requests, work>>

\* The request whose answer an invalidation cannot stop any more.
Overtaken(stopped) ==
    ~stopped /\ \E r \in requests : r.id = entry.request /\ r.phase = "answered"
\* invalidateQueries: the entry is marked; on screen it is fetched again, in
\* place of a fetch under way unless that is the first one.
Invalidate ==
    LET marked == [entry EXCEPT !.invalid = TRUE]
        active == mounted /\ Enabled(session)
        again == active /\ (entry.request = 0 \/ entry.data # NoData)
    IN  /\ IF again THEN Fetch(marked)
           ELSE entry' = marked /\ UNCHANGED requests
        /\ history' = IF Overtaken(again) THEN Recast("overtaken") ELSE history

\* removeQueries: a page that still shows the entry builds a new one.
Rebuild ==
    /\ IF mounted /\ Enabled(session) THEN Fetch(NoEntry)
       ELSE entry' = NoEntry /\ UNCHANGED requests
    /\ UNCHANGED history

\* The answer arrives: the hook's onSuccess.
onSuccess ==
    /\ mutation.phase = "applied" /\ mutation' = NoMutation
    /\ IF Matches(Mutations[deed].removes, Key) THEN Rebuild
       ELSE IF Matches(Mutations[deed].invalidates, Key) /\ entry # NoEntry
       THEN Invalidate
       ELSE UNCHANGED <<entry, requests, history>>
    /\ UNCHANGED <<view, deed, session, mounted, work, left>>
-----------------------------------------------------------------------------
(* Other actors *)

Foreign(u) ==
    /\ Service[Queries[view].call].reads # {} /\ Spend("foreign")
    /\ history' = Changed(u, "foreign")
    /\ UNCHANGED <<view, deed, session, mounted, entry, requests, mutation,
                   work>>

\* The worker on the upload: UPLOADED, PROCESSING, and the end of the work, here
\* COMPLETED (FAILED looks the same to the page).
ServerWork ==
    /\ work # "COMPLETED"
    /\ work' = IF work = "UPLOADED" THEN "PROCESSING" ELSE "COMPLETED"
    /\ history' = [u \in Users |-> Append(history[u], "foreign")]
    /\ UNCHANGED <<view, deed, session, mounted, entry, requests, mutation,
                   left>>

Fetching == \E r \in requests : getHeaders(r) \/ Answer(r) \/ Settle(r)

WebNext ==
    \/ Fetching \/ \E r \in requests : sendRequestFails(r)
    \/ Enter \/ Leave \/ Focus \/ Age \/ Collect \/ Poll
    \/ SignOut \/ \E u \in Users : SignIn(u) \/ Foreign(u)
    \/ mutate \/ Apply \/ mutationFails \/ onSuccess \/ ServerWork

\* The network answers or gives up, and the timer of a poll fires.  Nothing says
\* what a person does, nor that the worker ever ends its work.
WebFairness == WF_webVars(Fetching) /\ WF_webVars(Poll)

WebSpec == WebInit /\ [][WebNext]_webVars /\ WebFairness
-----------------------------------------------------------------------------
(* Properties *)

\* Types, and that the request an entry waits for is one under way.
WebTypeOK ==
    /\ view \in DOMAIN Queries /\ deed \in DOMAIN Mutations
    /\ \A b \in DOMAIN left : left[b] \in Nat
    /\ session \in Users \cup {"loading", NoUser}
    /\ entry.data \in Nat \cup {NoData} /\ entry.request \in Nat
    /\ entry.request # 0 => \E r \in requests : r.id = entry.request
    /\ \A r, q \in requests : r.id = q.id => r = q
    /\ mutation.phase \in {"none", "sent", "applied"}

\* What each mutation changes on screens it does not refetch.  Every pair is a
\* view that stays as it was, up to five minutes, after the user's own change.
LeftStale(q, m) ==
    \/ q = "useDashboard" /\ m \notin {"useParseTransactionImage",
            "useCreateSms", "useDeleteSms", "useGenerateApiKey",
            "useUpdateUser", "useEnqueueAutoLink"}
    \/ q = "useTransactions" /\ m \in {"useUpdateAccount", "useDeleteSms"}
    \/ q = "useAuthUser" /\ m \in {"useUpdateUser", "useParseTransactionImage"}
    \/ q \in {"useInvestmentRules", "useInvestmentRuleById"}
         /\ m \in {"useDeleteInvestmentGoal", "useLinkTransaction"}
    \/ q = "useRuleTransactions" /\ m = "useDeleteInvestmentGoal"
    \/ q = "useGoalTransactions" /\ m \in {"useDeleteInvestmentGoal",
            "useLinkTransaction", "useUnlinkTransaction"}

\* A page at rest that shows its user's data shows every change but those of
\* others, those whose answer was lost, those an earlier read overtook, and
\* those of the pairs above: useApiMutation's onSuccess reaches all the rest.
SettledViewIsTrue ==
    LET told == /\ mounted /\ session \in Users /\ entry.owner = session
                /\ entry.request = 0 /\ ~entry.invalid
                /\ mutation.phase = "none"
    IN  told => \A i \in (entry.data + 1)..Len(history[session]) :
                    history[session][i] = "own" => LeftStale(view, deed)

\* An answer never puts an older state of the data over a newer one.
DataMovesForward ==
    [][entry'.owner = entry.owner /\ entry.data # NoData
         /\ entry'.data # NoData => entry'.data >= entry.data]_webVars

\* Once the work is over, a detail page that has seen PROCESSING comes to show
\* it, unless it is left, or the user signs out, or the upload is deleted (then
\* it polls on, a 404 every three seconds).  Of work the server never ends it
\* promises nothing.
PollSeesTheEnd ==
    (mounted /\ entry.saw = "PROCESSING" /\ work = "COMPLETED")
      ~> (entry.saw # "PROCESSING" \/ ~mounted \/ session \notin Users
            \/ \E u \in Users : Gone(u))

\* Requests and the cache agree, and what is at rest on screen is the user's own.
WebSafe == WebTypeOK /\ SettledViewIsTrue
=============================================================================
