----------------------------- MODULE ReconReview ----------------------------
(***************************************************************************)
(* The results page of an upload and its review table: pages of rows from  *)
(* the cache, filters, ticked rows, the row dialog, and the decisions sent *)
(* from both (ReconciliationReviewTable.tsx, results/page.tsx).            *)
(***************************************************************************)
EXTENDS Naturals, FiniteSets

CONSTANTS
    Rows, PageOf,   \* result rows, and the page each is on
    AutoAccepted,   \* rows whose match_status is auto_accepted
    Statuses,       \* the status filters tried
    NoRow, NoPage,
    MaxDecisions,   \* bound: decisions sent; no row is picked after the last
    MaxLost         \* bound: requests that fail

Pages == {PageOf[r] : r \in Rows}
Actions == {"accepted", "rejected"}

ASSUME ReviewAssumption ==
    /\ Rows # {} /\ DOMAIN PageOf = Rows /\ AutoAccepted \subseteq Rows
    /\ Statuses \subseteq {"all", "needs_review", "auto_accepted"} \cup Actions
    /\ NoRow \notin Rows /\ NoPage \notin Pages
    /\ NoPage \notin [Rows -> Actions \cup {"none"}]
    /\ MaxDecisions \in Nat /\ MaxLost \in Nat

VARIABLES
    action,     \* user_action of each row on the server
    page,       \* the page of results on screen; NoPage on other screens
    cached,     \* per page: the actions its last answer held, or NoPage
    old,        \* pages whose cached answer is invalidated
    failed,     \* pages whose last fetch failed
    reading,    \* pages asked for, and not read at the server yet
    answers,    \* per page: what the server has read, on its way, or NoPage
    status,     \* the status filter
    selected,   \* the ticked rows
    modalRow,   \* the row in the dialog, as it was when the dialog opened
    sent,       \* decisions under way: [id, rows, to, applied]
    decided,    \* decisions sent so far
    word,       \* history: the user's last word on each row
    doubtful,   \* history: rows with two decisions under way at once, or a
                \* decision whose answer never came
    overtaken   \* history: rows whose decision was answered while an older read
                \* of their page was on its way, and went on

reviewVars == <<action, page, cached, old, failed, reading, answers, status,
                selected, modalRow, sent, decided, word, doubtful, overtaken>>
cacheVars == <<cached, old, failed, reading, answers, overtaken>>
tableVars == <<status, selected, modalRow>>
sentVars == <<sent, decided, word, doubtful>>

NoModal == [row |-> NoRow, was |-> "none"]

ReviewInit ==
    /\ action = [r \in Rows |-> "none"] /\ word = action
    /\ page = NoPage /\ cached = [p \in Pages |-> NoPage] /\ old = {}
    /\ failed = {} /\ reading = {} /\ answers = cached /\ overtaken = {}
    /\ status = "all" /\ selected = {} /\ modalRow = NoModal
    /\ sent = {} /\ decided = 0 /\ doubtful = {}

On(p) == {r \in Rows : PageOf[r] = p}
FirstPage == PageOf[CHOOSE r \in Rows : TRUE]

isSettledRow(r, was) == was \in Actions \/ r \in AutoAccepted

\* The page shows its table only with an answer and without an error.
Ready(p) == cached[p] # NoPage /\ p \notin failed
Shown == page # NoPage /\ Ready(page)

Passes(s, r, was) ==
    CASE s = "all"           -> TRUE
      [] s = "needs_review"  -> ~isSettledRow(r, was)
      [] s = "auto_accepted" -> r \in AutoAccepted
      [] OTHER               -> was = s

applyFilters == {r \in On(page) : Passes(status, r, cached[page][r])}

\* The filters offered, each with its count over the page unfiltered.
FilterPanel ==
    [s \in Statuses |->
        Cardinality({r \in On(page) : Passes(s, r, cached[page][r])})]

\* Skeleton or error in its place: the table is unmounted with what it held.
UnmountTable == status' = "all" /\ selected' = {} /\ modalRow' = NoModal
-----------------------------------------------------------------------------
(* The results page *)

PageInFlight(p) == p \in reading \/ answers[p] # NoPage

\* New fetches of ps, in place of those under way.  The first of a page, and
\* another after it failed, shows a skeleton; later ones leave what is there.
FetchPages(ps) ==
    /\ reading' = reading \cup ps
    /\ answers' = [p \in Pages |-> IF p \in ps THEN NoPage ELSE answers[p]]
    /\ failed' = failed \ {p \in ps : cached[p] = NoPage}

NotOn(ps) == {r \in overtaken : PageOf[r] \notin ps}

\* A page that comes on screen is fetched when it is not there or invalidated.
ObservePage(p) ==
    LET due == {q \in {p} : /\ cached[q] = NoPage \/ q \in old
                            /\ ~PageInFlight(q)}
    IN  /\ page' = p /\ FetchPages(due) /\ overtaken' = NotOn(due)
        /\ UNCHANGED <<action, cached, old, sentVars>>

\* A cached page keeps the table and what is ticked in it.
setPage(p) ==
    /\ Shown /\ modalRow = NoModal /\ p # page /\ ObservePage(p)
    /\ IF Ready(p) THEN UNCHANGED tableVars ELSE UnmountTable

Open == page = NoPage /\ ObservePage(FirstPage) /\ UNCHANGED tableVars

\* The link back, or the browser's: the fetches under way go on.
Close ==
    /\ page # NoPage /\ page' = NoPage /\ UnmountTable
    /\ UNCHANGED <<action, cacheVars, sentVars>>

\* Retry; or the window is looked at when the answer is five minutes old.
RefetchPage ==
    /\ page # NoPage /\ ~PageInFlight(page) /\ FetchPages({page})
    /\ overtaken' = NotOn({page})
    /\ UNCHANGED <<action, page, cached, old, tableVars, sentVars>>

GetResults(p) ==
    /\ p \in reading /\ reading' = reading \ {p}
    /\ answers' = [answers EXCEPT ![p] =
                    [r \in Rows |-> IF r \in On(p) THEN action[r] ELSE "none"]]
    /\ UNCHANGED <<action, page, cached, old, failed, overtaken, tableVars,
                   sentVars>>

\* Whatever invalidated the page meanwhile, the answer counts as fresh.
Load(p) ==
    /\ answers[p] # NoPage /\ answers' = [answers EXCEPT ![p] = NoPage]
    /\ cached' = [cached EXCEPT ![p] = answers[p]]
    /\ old' = old \ {p} /\ failed' = failed \ {p}
    /\ UNCHANGED <<action, page, reading, overtaken, tableVars, sentVars>>

LoadFails(p) ==
    /\ PageInFlight(p) /\ reading' = reading \ {p}
    /\ answers' = [answers EXCEPT ![p] = NoPage]
    /\ failed' = failed \cup {p}
    /\ old' = old \cup {q \in {p} : cached[q] # NoPage}
    /\ IF p = page THEN UnmountTable ELSE UNCHANGED tableVars
    /\ UNCHANGED <<action, page, cached, overtaken, sentVars>>
-----------------------------------------------------------------------------
(* The table *)

handleFilterChange(s) ==
    /\ Shown /\ s \in DOMAIN FilterPanel \ {status}
    /\ status' = s /\ selected' = {}
    /\ UNCHANGED <<action, page, cacheVars, modalRow, sentVars>>

\* Another decision may follow.
Decides == decided < MaxDecisions

\* Any row listed can be ticked, a settled one too.
toggleRow(r) ==
    /\ Decides /\ Shown /\ r \in applyFilters
    /\ selected' = IF r \in selected THEN selected \ {r} ELSE selected \cup {r}
    /\ UNCHANGED <<action, page, cacheVars, status, modalRow, sentVars>>

onOpenModal(r) ==
    /\ Decides /\ Shown /\ r \in applyFilters /\ modalRow = NoModal
    /\ modalRow' = [row |-> r, was |-> cached[page][r]]
    /\ UNCHANGED <<action, page, cacheVars, status, selected, sentVars>>

CloseModal ==
    /\ modalRow # NoModal /\ modalRow' = NoModal
    /\ UNCHANGED <<action, page, cacheVars, status, selected, sentVars>>

\* mutate: the answer is not waited for.
mutateStatus(rows, to) ==
    LET busy == UNION {m.rows : m \in {n \in sent : ~n.applied}}
    IN  /\ Decides /\ decided' = decided + 1
        /\ sent' = sent \cup {[id |-> decided', rows |-> rows, to |-> to,
                               applied |-> FALSE]}
        /\ word' = [r \in Rows |-> IF r \in rows THEN to ELSE word[r]]
        /\ doubtful' = doubtful \cup (rows \cap busy)

\* RowModal: only a row that was not settled when the dialog opened.  The
\* dialog goes with its isPending, so another may follow at once.
handleAction(to) ==
    /\ modalRow # NoModal /\ ~isSettledRow(modalRow.row, modalRow.was)
    /\ mutateStatus({modalRow.row}, to)
    /\ modalRow' = NoModal
    /\ UNCHANGED <<action, page, cacheVars, status, selected>>

\* BulkBar: every ticked row, those of other pages too.
handleBulk(to) ==
    /\ Shown /\ selected # {} /\ modalRow = NoModal
    /\ mutateStatus(selected, to)
    /\ selected' = {}
    /\ UNCHANGED <<action, page, cacheVars, status, modalRow>>
-----------------------------------------------------------------------------
(* The decisions on their way *)

\* The update asks for nothing but the rows' ids.
BulkUpdateResultStatus(m) ==
    /\ ~m.applied
    /\ action' = [r \in Rows |-> IF r \in m.rows THEN m.to ELSE action[r]]
    /\ sent' = (sent \ {m}) \cup {[m EXCEPT !.applied = TRUE]}
    /\ UNCHANGED <<page, cacheVars, tableVars, decided, word, doubtful>>

\* The pages ps are invalidated; the one on screen is fetched again, unless its
\* first fetch is still under way.  An answer the server has given is stopped
\* by that new fetch only.
InvalidatePages(ps, m) ==
    LET again == {p \in {page} \cap ps : cached[p] # NoPage \/ ~PageInFlight(p)}
    IN  /\ old' = old \cup {p \in ps : cached[p] # NoPage}
        /\ FetchPages(again)
        /\ overtaken' = NotOn(again)
                          \cup {r \in m.rows : answers'[PageOf[r]] # NoPage}

\* Mutant: only the page on screen is invalidated.
InvalidateOnePage(m) ==
    /\ m.applied /\ sent' = sent \ {m} /\ InvalidatePages(Pages \cap {page}, m)
    /\ UNCHANGED <<action, page, cached, tableVars, decided, word, doubtful>>

\* onSuccess: every page of the upload's results is invalidated.
DecisionAnswered(m) ==
    /\ m.applied /\ sent' = sent \ {m} /\ InvalidatePages(Pages, m)
    /\ UNCHANGED <<action, page, cached, tableVars, decided, word, doubtful>>

\* A toast, and nothing else: the screen stays as it was.
DecisionLost(m) ==
    /\ Cardinality(doubtful) < MaxLost
    /\ sent' = sent \ {m} /\ doubtful' = doubtful \cup m.rows
    /\ UNCHANGED <<action, page, cacheVars, tableVars, decided, word>>

ReviewNext ==
    \/ Open \/ Close \/ RefetchPage
    \/ \E p \in Pages : setPage(p) \/ GetResults(p) \/ Load(p) \/ LoadFails(p)
    \/ \E s \in Statuses : handleFilterChange(s)
    \/ \E r \in Rows : toggleRow(r) \/ onOpenModal(r)
    \/ CloseModal
    \/ \E to \in Actions : handleAction(to) \/ handleBulk(to)
    \/ \E m \in sent : \/ BulkUpdateResultStatus(m) \/ DecisionAnswered(m)
                       \/ DecisionLost(m)

ReviewSpec == ReviewInit /\ [][ReviewNext]_reviewVars
-----------------------------------------------------------------------------
(* Properties *)

\* The user's last word on a row is what the server holds once everything is
\* answered, however the rows were ticked, opened, filtered and paged - unless
\* two decisions on the row were under way at once or one was lost.
LastWordStands ==
    sent = {} => \A r \in Rows \ doubtful : action[r] = word[r]

\* With nothing under way the table shows what the server holds, on whatever
\* page of the cache the user turned to, however late its answer came: unless a
\* decision was answered while an older read of its row was on its way, which
\* the invalidation did not stop - the user had paged away, or it was the first
\* of its page.  Such a row is shown wrong until the page is fetched again.
TableIsTrue ==
    sent = {} /\ Shown /\ ~PageInFlight(page) /\ page \notin old
      => \A r \in On(page) \ (doubtful \cup overtaken) :
            cached[page][r] = action[r]

\* What is ticked or open was listed, and a lone dialog or table shows it.
ReviewTypeOK ==
    /\ action \in [Rows -> Actions \cup {"none"}] /\ page \in Pages \cup {NoPage}
    /\ \A p \in Pages : cached[p] = NoPage
                          \/ cached[p] \in [Rows -> Actions \cup {"none"}]
    /\ old \subseteq {p \in Pages : cached[p] # NoPage}
    /\ reading \cup failed \subseteq Pages /\ overtaken \subseteq Rows
    /\ \A p \in reading : answers[p] = NoPage
    /\ ~Shown => selected = {} /\ modalRow = NoModal

\* The server holds the user's decisions and the table shows what it holds,
\* over lists read late, pages left in the cache and decisions under way.
ReviewSafe == ReviewTypeOK /\ LastWordStands /\ TableIsTrue
=============================================================================
