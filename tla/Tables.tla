------------------------------- MODULE Tables -------------------------------
(***************************************************************************)
(* The lists of transactions, of SMS logs and of a rule's linked           *)
(* transactions: filter, pages, ticked rows, the delete dialogs and the    *)
(* deletes on their way (transactions/page.tsx, sms/page.tsx,              *)
(* LinkedTransactionsTable.tsx, TanStackTable.tsx, ConfirmDialog.tsx).     *)
(***************************************************************************)
EXTENDS Naturals, FiniteSets

CONSTANTS
    RowIds,         \* rows, numbered in the order listed: the newest first
    Alike,          \* the rows that pass the filter tried
    PageSizes,      \* rows per page: the first size, and the others offered
    NoRows,
    MaxDeletes,     \* bound: delete requests sent
    MaxPage,        \* bound: the page the user pages to
    MaxElsewhere    \* bound: rows added or deleted elsewhere, and calls lost

ASSUME TablesAssumption ==
    /\ RowIds \subseteq Nat \ {0} /\ IsFiniteSet(RowIds) /\ Alike \subseteq RowIds
    /\ PageSizes \subseteq Nat \ {0}
    /\ \E s \in PageSizes : \A t \in PageSizes : t <= s
    /\ {MaxDeletes, MaxElsewhere} \subseteq Nat /\ MaxPage \in Nat \ {0}

VARIABLES
    listing,    \* which list this is
    live,       \* its rows on the server
    rows,       \* the rows the page has, or NoRows
    due,        \* is the query invalidated?
    faulty,     \* was its last fetch an error?
    filter,     \* "none" or "alike"
    pageNo, pageSize,
    ticked,     \* selectedIds
    victim,     \* the row of the delete dialog, 0 if none
    dialog,     \* the dialog open: "none", "single" or "bulk"
    deletes,    \* deletes under way: [no, ids, clears, done]
    sends,      \* deletes sent so far: the latest mutate call
    elsewhere,  \* rows touched elsewhere and calls lost so far
    asked,      \* history: rows whose deletion the user confirmed
    undone,     \* history: rows a lost request was to delete
    others      \* history: rows not made yet, or deleted elsewhere

listVars == <<listing, live, rows, due, faulty, filter, pageNo, pageSize,
                ticked, victim, dialog, deletes, sends, elsewhere, asked,
                undone, others>>
fetched == <<live, rows, due, faulty>>
paged == <<filter, pageNo, pageSize>>
chosen == <<ticked, victim, dialog>>
flying == <<deletes, sends>>
past == <<asked, undone, others>>

Listings == {"transactions", "sms", "links"}
Newest == CHOOSE r \in RowIds : \A q \in RowIds : r <= q
DefaultSize == CHOOSE s \in PageSizes : \A t \in PageSizes : t <= s

TablesInit ==
    /\ listing \in Listings /\ live = RowIds \ {Newest}
    /\ rows = NoRows /\ due = FALSE /\ faulty = FALSE
    /\ filter = "none" /\ pageNo = 1 /\ pageSize = DefaultSize
    /\ ticked = {} /\ victim = 0 /\ dialog = "none"
    /\ deletes = {} /\ sends = 0 /\ elsewhere = 0
    /\ asked = {} /\ undone = {} /\ others = {Newest}
-----------------------------------------------------------------------------
(* What is listed *)

\* Error and spinner stand in the table's place, and leave the page's state.
Visible == rows # NoRows /\ ~faulty

filtered(f) == IF f = "alike" THEN rows \cap Alike ELSE rows
totalPages(f, size) ==
    IF filtered(f) = {} THEN 1
    ELSE (Cardinality(filtered(f)) + size - 1) \div size

\* The slice of page p, its bounds as Array.slice takes them.
filteredRows(f, p, size) ==
    LET before(r) == Cardinality({q \in filtered(f) : q < r})
    IN  {r \in filtered(f) : before(r) \in (p - 1) * size .. p * size - 1}

\* The linked transactions are neither filtered nor paged.
Listed == IF listing = "links" THEN rows
          ELSE filteredRows(filter, pageNo, pageSize)

Pageable == Visible /\ dialog = "none" /\ listing # "links"

\* Pressing a header moves its arrow; the body renders the rows as they come.
TanStackTable(r) == Visible /\ dialog = "none" /\ r \in Listed
-----------------------------------------------------------------------------
(* Filter and pages *)

\* Search box, selects and Clear.
onFilterChange(f) ==
    /\ Pageable /\ f # filter /\ filter' = f /\ pageNo' = 1
    /\ UNCHANGED <<listing, fetched, pageSize, chosen, flying, elsewhere,
                   past>>

onPageSizeChange(size) ==
    /\ Pageable /\ size # pageSize /\ pageSize' = size /\ pageNo' = 1
    /\ UNCHANGED <<listing, fetched, filter, chosen, flying, elsewhere, past>>

\* Next is disabled on the last page alone, not past it.
onPageChange(p) ==
    /\ Pageable
    /\ \/ p = pageNo - 1 /\ pageNo # 1
       \/ p = pageNo + 1 /\ pageNo # totalPages(filter, pageSize)
    /\ p <= MaxPage /\ pageNo' = p
    /\ UNCHANGED <<listing, fetched, filter, pageSize, chosen, flying,
                   elsewhere, past>>
-----------------------------------------------------------------------------
(* Ticking.  Ticks outlive filter, page and row. *)

toggleSelect(r) ==
    /\ Pageable /\ TanStackTable(r)
    /\ ticked' = IF r \in ticked THEN ticked \ {r} ELSE ticked \cup {r}
    /\ UNCHANGED <<listing, fetched, paged, victim, dialog, flying, elsewhere,
                   past>>

\* As many ticked as listed counts as all of them, whichever they are.
toggleSelectAll ==
    /\ Pageable
    /\ ticked' = IF Cardinality(ticked) = Cardinality(Listed) THEN {}
                 ELSE Listed
    /\ UNCHANGED <<listing, fetched, paged, victim, dialog, flying, elsewhere,
                   past>>
-----------------------------------------------------------------------------
(* Deleting *)

\* The SMS logs' button alone is disabled, while the latest delete is under
\* way and its row was the last one asked about.
RowActions(r) ==
    /\ TanStackTable(r)
    /\ ~(listing = "sms" /\ victim = r /\ \E d \in deletes : d.no = sends)

handleDeleteClick(r) ==
    /\ listing # "links" /\ RowActions(r)
    /\ victim' = r /\ dialog' = "single"
    /\ UNCHANGED <<listing, fetched, paged, ticked, flying, elsewhere, past>>

openBulkDialog ==
    /\ Pageable /\ ticked # {} /\ dialog' = "bulk"
    /\ UNCHANGED <<listing, fetched, paged, ticked, victim, flying, elsewhere,
                   past>>

\* Cancel forgets the row, Escape does not.
handleDeleteCancel ==
    /\ Visible /\ dialog # "none" /\ dialog' = "none"
    /\ victim' \in IF dialog = "single" THEN {0, victim} ELSE {victim}
    /\ UNCHANGED <<listing, fetched, paged, ticked, flying, elsewhere, past>>

\* mutate: the answer is not waited for, and the dialog closes.
mutateDelete(batches, clears) ==
    /\ sends + Cardinality(batches) <= MaxDeletes
    /\ sends' = sends + Cardinality(batches)
    /\ \E no \in [batches -> sends + 1 .. sends'] :
          /\ \A a, b \in batches : no[a] = no[b] => a = b
          /\ deletes' = deletes \cup
                {[no |-> no[b], ids |-> b, clears |-> clears, done |-> FALSE] :
                    b \in batches}
    /\ asked' = asked \cup UNION batches

handleDeleteConfirm ==
    /\ Visible /\ dialog = "single" /\ dialog' = "none"
    /\ mutateDelete({{victim}}, "victim")
    /\ UNCHANGED <<listing, fetched, paged, ticked, victim, elsewhere, undone,
                   others>>
\* Mutant: the first row alone is sent.
BulkDeleteFirst ==
    /\ Visible /\ dialog = "bulk" /\ dialog' = "none" /\ ticked # {}
    /\ sends < MaxDeletes /\ sends' = sends + 1
    /\ deletes' = deletes \cup {[no |-> sends', ids |-> {CHOOSE r \in ticked : TRUE},
                                 clears |-> "ticked", done |-> FALSE]}
    /\ asked' = asked \cup ticked
    /\ ticked' = {}
    /\ UNCHANGED <<listing, fetched, paged, victim, elsewhere, undone, others>>

\* Transactions: one request, and the ticks stay until it is answered.  SMS
\* logs: the ticks go, and each row has a request of its own.
handleBulkDelete ==
    /\ Visible /\ dialog = "bulk" /\ dialog' = "none"
    /\ IF listing = "transactions"
       THEN mutateDelete({ticked}, "ticked") /\ UNCHANGED ticked
       ELSE mutateDelete({{r} : r \in ticked}, "nothing") /\ ticked' = {}
    /\ UNCHANGED <<listing, fetched, paged, victim, elsewhere, undone, others>>

\* The links' button asks nothing.
LinkedTransactionsTable(r) ==
    /\ listing = "links" /\ TanStackTable(r) /\ mutateDelete({{r}}, "nothing")
    /\ UNCHANGED <<listing, fetched, paged, chosen, elsewhere, undone, others>>
-----------------------------------------------------------------------------
(* The server, and its answers *)

ServerDeletes(d) ==
    /\ ~d.done /\ live' = live \ d.ids
    /\ deletes' = (deletes \ {d}) \cup {[d EXCEPT !.done = TRUE]}
    /\ UNCHANGED <<listing, rows, due, faulty, paged, chosen, sends,
                   elsewhere, past>>

\* The hook invalidates the list.  The callback given to mutate runs for the
\* latest call only, and closes the dialog that is open by then.
deleteOnSuccess(d) ==
    /\ d.done /\ deletes' = deletes \ {d} /\ due' = (rows # NoRows)
    /\ LET runs == d.no = sends
           single == runs /\ d.clears = "victim"
           bulk == runs /\ d.clears = "ticked"
       IN  /\ victim' = IF single THEN 0 ELSE victim
           /\ ticked' = IF bulk THEN {} ELSE ticked
           /\ dialog' = IF (single /\ dialog = "single")
                           \/ (bulk /\ dialog = "bulk") THEN "none" ELSE dialog
    /\ UNCHANGED <<listing, live, rows, faulty, paged, sends, elsewhere, past>>

DeleteLost(d) ==
    /\ elsewhere < MaxElsewhere /\ elsewhere' = elsewhere + 1
    /\ deletes' = deletes \ {d}
    /\ undone' = IF d.done THEN undone ELSE undone \cup d.ids
    /\ UNCHANGED <<listing, fetched, paged, chosen, sends, asked, others>>

ChangedElsewhere(r) ==
    /\ elsewhere < MaxElsewhere /\ elsewhere' = elsewhere + 1
    /\ \/ /\ r \in live \ {Newest}
          /\ live' = live \ {r} /\ others' = others \cup {r}
       \/ /\ r = Newest /\ r \in others
          /\ live' = live \cup {r} /\ others' = others \ {r}
    /\ UNCHANGED <<listing, rows, due, faulty, paged, chosen, flying, asked,
                   undone>>

\* The first fetch, one after an invalidation, Retry, or a return to the tab.
FetchRows ==
    /\ rows # live \/ due \/ faulty
    /\ rows' = live /\ due' = FALSE /\ faulty' = FALSE
    /\ UNCHANGED <<listing, live, paged, chosen, flying, elsewhere, past>>

FetchRowsFails ==
    /\ ~faulty /\ (rows = NoRows \/ due) /\ faulty' = TRUE
    /\ UNCHANGED <<listing, live, rows, due, paged, chosen, flying, elsewhere,
                   past>>

TablesNext ==
    \/ \E f \in {"none", "alike"} : onFilterChange(f)
    \/ \E s \in PageSizes : onPageSizeChange(s)
    \/ \E p \in 1..MaxPage : onPageChange(p)
    \/ \E r \in RowIds : \/ toggleSelect(r) \/ handleDeleteClick(r)
                         \/ LinkedTransactionsTable(r) \/ ChangedElsewhere(r)
    \/ toggleSelectAll \/ openBulkDialog \/ handleDeleteCancel
    \/ handleDeleteConfirm \/ handleBulkDelete
    \/ \E d \in deletes : \/ ServerDeletes(d) \/ deleteOnSuccess(d)
                          \/ DeleteLost(d)
    \/ FetchRows \/ FetchRowsFails

TablesSpec == TablesInit /\ [][TablesNext]_listVars
-----------------------------------------------------------------------------
(* Properties *)

\* A dialog is over a list, a tick or a victim is a row; the links have none.
TablesTypeOK ==
    /\ live \subseteq RowIds /\ (rows = NoRows \/ rows \subseteq RowIds)
    /\ ticked \subseteq RowIds /\ victim \in {0} \cup RowIds
    /\ pageNo \in 1..MaxPage /\ pageSize \in PageSizes
    /\ \A d \in deletes : d.no \in 1..sends
    /\ listing = "links" => ticked = {} /\ dialog = "none" /\ pageNo = 1

\* Whatever the filter and the page size, every row that passes is on one of
\* the pages the footer counts, and on one only.
EveryRowOnOnePage ==
    Visible => \A f \in {"none", "alike"}, s \in PageSizes :
        \A r \in filtered(f) :
            Cardinality({p \in 1..totalPages(f, s) :
                            r \in filteredRows(f, p, s)}) = 1

\* The user is taken past the last page only by a list that shrank: no filter
\* and no page size leaves them on a page that is not there.
NeverPastTheEnd ==
    [][Visible /\ Visible' /\ pageNo' > totalPages(filter, pageSize)'
         => pageNo > totalPages(filter, pageSize) \/ rows' # rows]_listVars

\* When nothing is under way the rows whose deletion was confirmed are gone,
\* but for those of a lost request, and no other row is: through one request
\* or many, with dialogs closed by late answers and lists that change meanwhile.
AskedAreGone ==
    deletes = {} => /\ (asked \ undone) \cap live = {}
                    /\ RowIds \ live \subseteq asked \cup others

\* A delete dialog never stands over nothing: the answer of an earlier delete
\* that takes its rows away closes it too.
DialogNamesRows ==
    /\ dialog = "single" => victim # 0
    /\ dialog = "bulk" => ticked # {}

\* A list shows every row once, and deletes those it asked about and no others.
TablesSafe == TablesTypeOK /\ EveryRowOnOnePage /\ AskedAreGone /\ DialogNamesRows
=============================================================================
