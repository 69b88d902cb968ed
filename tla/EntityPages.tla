---------------------------- MODULE EntityPages ----------------------------
(* The pages of accounts, goals, investments and one upload: a list with a    *)
(* dialog that makes one more, or one entity with a form that changes it (the *)
(* upload has none) and a button that deletes it.  What is on screen is a     *)
(* function of the query's state; a form, and what was typed in it, lives as  *)
(* long as its place on screen does, and so does a dialog's knowledge that it *)
(* has been confirmed.  Reading and answering are one step here: WebData      *)
(* takes them apart.                                                          *)
EXTENDS Naturals, FiniteSets

CONSTANTS
    Entities,       \* what there may be of the page's kind
    Sip,            \* those the rules' page lists under its filter
    Mine,           \* the entity of a detail page
    Unread,         \* the data of a query that never succeeded
    MaxShown,       \* bound: forms put up
    MaxStrangers,   \* bound: entities made or deleted elsewhere
    MaxSlips,       \* bound: calls that fail, or whose answer is lost
    MaxDone         \* bound: submissions and deletes

ASSUME EntityAssumption ==
    /\ Sip \subseteq Entities /\ Mine \in Entities
    /\ \A some \in SUBSET Entities : some # Unread
    /\ {MaxShown, MaxStrangers, MaxSlips, MaxDone} \subseteq Nat

VARIABLES
    kind,       \* which of the pages
    place,      \* "here", "list" or "elsewhere"
    known,      \* is the session known?
    entities,     \* the entities there are
    chip,       \* the filter: "all" or "sip"
    cache,      \* by query key: [rows, error, stale]
    fetching,   \* the keys being fetched
    wanted,     \* isCreateDialogOpen, isEditing, isEditDialogOpen
    shownForm,  \* the form on screen by number, 0 if none
    formsShown, \* forms put up so far
    typed,      \* has the user typed into it?
    saving,     \* submissions on their way: [makes, saved]
    confirm,    \* isDeleteDialogOpen
    waitsFor,   \* the delete the button on screen waits for, 0 if none
    removals,   \* deletes on their way: [no, removed]
    strangers, slips, did,
    ours,       \* history: the entities made here
    redrawn     \* history: was a page rebuilt under its delete?

entityScreen == <<kind, place, known, chip, wanted, confirm>>
formState == <<shownForm, formsShown, typed>>
dataVars == <<entities, cache, fetching>>
history == <<ours, redrawn>>
entityVars == <<entityScreen, formState, dataVars, saving, waitsFor, removals,
                strangers, slips, did, history>>

Lists == {"accounts", "goals", "rules"}
Details == {"account", "goal", "rule", "upload"}
Asks == {"account", "goal", "upload"} \* the pages whose Delete opens a ConfirmDialog

\* The rules' key has the filter in it, the upload's the page of its rows, here
\* "all" the first and "sip" another; the other pages have one key.
EntityKey(c) == IF kind \in {"rules", "upload"} THEN c ELSE "all"
Read == cache[EntityKey(chip)]
isFetching == EntityKey(chip) \in fetching
isLoading == isFetching /\ Read.rows = Unread
Passing(c) == IF c = "sip" THEN Sip ELSE Entities

EntityInit ==
    /\ kind \in Lists \cup Details /\ place = "here" /\ known = FALSE
    /\ entities \in SUBSET (IF kind \in Lists THEN Entities ELSE {Mine}) /\ chip = "all"
    /\ cache = [k \in {"all", "sip"} |-> [rows |-> Unread, error |-> FALSE, stale |-> TRUE]]
    /\ fetching = {} /\ wanted = FALSE
    /\ shownForm = 0 /\ formsShown = 0 /\ typed = FALSE
    /\ saving = {} /\ confirm = FALSE /\ waitsFor = 0 /\ removals = {}
    /\ strangers = 0 /\ slips = 0 /\ did = 0 /\ ours = {} /\ redrawn = FALSE
-----------------------------------------------------------------------------
(* What is on screen *)

AccountsPage ==
    IF Read.rows = Unread THEN "skeleton"
    ELSE IF Read.error THEN "error"
    ELSE IF Read.rows = {} THEN "empty" ELSE "ready"

InvestmentsPage ==
    IF isLoading THEN "skeleton"
    ELSE IF Read.error THEN "error"
    ELSE IF Read.rows \in {Unread, {}} THEN "empty" ELSE "ready"

DesignBCardsGrid == InvestmentsPage

InvestmentGoalDetailPage ==
    IF isFetching THEN "skeleton"
    ELSE IF Read.error \/ Read.rows = Unread THEN "error" ELSE "ready"

RuleDetailPage ==
    IF isLoading THEN "skeleton"
    ELSE IF Read.error \/ Read.rows = Unread THEN "error" ELSE "ready"

AccountDetailPage == RuleDetailPage
ReconciliationUploadDetailPage == RuleDetailPage

View ==
    IF place # "here" THEN "gone"
    ELSE
    CASE kind = "accounts" -> AccountsPage
      [] kind = "goals" -> InvestmentsPage
      [] kind = "rules" -> DesignBCardsGrid
      [] kind = "goal" -> InvestmentGoalDetailPage
      [] kind = "account" -> AccountDetailPage
      [] kind = "rule" -> RuleDetailPage
      [] kind = "upload" -> ReconciliationUploadDetailPage

\* Of the accounts' two dialogs, one stands in the empty page and the other in
\* the full one.
FormPlace ==
    IF ~wanted \/ View \notin {"empty", "ready"} THEN "none"
    ELSE IF kind = "accounts" THEN View ELSE "dialog"

\* React keeps a form in its place, and puts up a new one in another.  A
\* ConfirmDialog goes with what is on screen, and knows of no delete when it
\* comes back; the rule's button waits as long as the page's mutation does.
Redraw ==
    /\ IF FormPlace' = FormPlace THEN UNCHANGED formState
       ELSE /\ typed' = FALSE
            /\ formsShown' = IF FormPlace' = "none" THEN formsShown ELSE formsShown + 1
            /\ shownForm' = IF FormPlace' = "none" THEN 0 ELSE formsShown'
    /\ waitsFor' = IF place' = "here" /\ (kind \in Asks => View' = "ready")
                   THEN waitsFor ELSE 0
    /\ redrawn' = (redrawn \/ (waitsFor # 0 /\ View' \in {"skeleton", "error"}))
-----------------------------------------------------------------------------
(* Fetching *)

FetchIf(stale) ==
    fetching' = IF known' /\ place' = "here" /\ stale
                THEN fetching \cup {EntityKey(chip')} ELSE fetching

SessionKnown ==
    /\ ~known /\ known' = TRUE
    /\ UNCHANGED <<kind, place, chip, wanted, confirm, entities, cache, saving,
                   removals, strangers, slips, did, ours>>
    /\ FetchIf(Read.stale) /\ Redraw

\* Looked at again, or the error's button pressed.
LookAgain ==
    /\ place = "here" /\ known /\ ~isFetching /\ (wanted => formsShown < MaxShown)
    /\ UNCHANGED <<entityScreen, entities, cache, saving, removals, strangers, slips,
                   did, ours>>
    /\ FetchIf(TRUE) /\ Redraw

\* A detail page's entity that is gone is an error, and the last data stay.
Arrived(k) ==
    /\ fetching' = fetching \ {k}
    /\ cache' = [cache EXCEPT ![k] =
           IF kind \in Lists
           THEN [rows |-> entities \cap Passing(k), error |-> FALSE, stale |-> FALSE]
           ELSE IF Mine \in entities
           THEN [rows |-> {Mine}, error |-> FALSE, stale |-> FALSE]
           ELSE [@ EXCEPT !.error = TRUE, !.stale = TRUE]]
    /\ UNCHANGED <<entityScreen, entities, saving, removals, strangers, slips, did, ours>>
    /\ Redraw

FetchFails(k) ==
    /\ slips < MaxSlips /\ slips' = slips + 1
    /\ fetching' = fetching \ {k}
    /\ cache' = [cache EXCEPT ![k].error = TRUE, ![k].stale = TRUE]
    /\ UNCHANGED <<entityScreen, entities, saving, removals, strangers, did, ours>>
    /\ Redraw

setContributionFilter(c) ==
    /\ kind = "rules" /\ View \in {"empty", "ready"} /\ ~wanted /\ c # chip
    /\ chip' = c
    /\ UNCHANGED <<kind, place, known, wanted, confirm, entities, cache, saving,
                   removals, strangers, slips, did, ours>>
    /\ FetchIf(cache[EntityKey(c)].stale) /\ Redraw
\* Rows of another page of an upload are another query: the first look at one
\* puts the skeleton up, and takes the page's dialog down with it.
setTxnPage(c) ==
    /\ kind = "upload" /\ View = "ready" /\ ~confirm /\ c # chip
    /\ chip' = c
    /\ UNCHANGED <<kind, place, known, wanted, confirm, entities, cache, saving,
                   removals, strangers, slips, did, ours>>
    /\ FetchIf(cache[EntityKey(c)].stale) /\ Redraw
-----------------------------------------------------------------------------
(* The form *)

setIsCreateDialogOpen(open) ==
    /\ View \in {"empty", "ready"} /\ wanted # open /\ wanted' = open
    /\ kind # "upload"
    /\ open => formsShown < MaxShown /\ ~confirm
    /\ UNCHANGED <<kind, place, known, chip, confirm, dataVars, saving, removals,
                   strangers, slips, did, ours>>
    /\ Redraw

Type ==
    /\ shownForm # 0 /\ ~typed /\ typed' = TRUE
    /\ UNCHANGED <<entityScreen, shownForm, formsShown, dataVars, saving, waitsFor,
                   removals, strangers, slips, did, history>>

\* A list's form makes an entity, a detail's changes the one there is.
SubmitForm ==
    /\ shownForm # 0 /\ typed /\ saving = {} /\ did < MaxDone /\ did' = did + 1
    /\ \E e \in IF kind \in Lists THEN Entities \ entities ELSE {Mine} :
        saving' = {[makes |-> e, saved |-> FALSE]}
    /\ UNCHANGED <<entityScreen, formState, dataVars, waitsFor, removals, strangers,
                   slips, history>>

\* An entity made meanwhile under the same number is not made again, a bound
\* of the model; one deleted meanwhile cannot be changed, and SaveMissed is next.
ServerSaves(s) ==
    /\ ~s.saved /\ (s.makes \in entities <=> kind \in Details)
    /\ entities' = entities \cup {s.makes} /\ saving' = {[s EXCEPT !.saved = TRUE]}
    /\ ours' = IF kind \in Lists THEN ours \cup {s.makes} ELSE ours
    /\ UNCHANGED <<entityScreen, formState, cache, fetching, waitsFor, removals,
                   strangers, slips, did, redrawn>>

\* Mutant: only the list on screen is marked.
InvalidateShown ==
    cache' = [cache EXCEPT ![EntityKey(chip)].stale = TRUE]
\* Every key of the kind is marked; what is on screen is fetched again.
invalidateQueries == cache' = [k \in DOMAIN cache |-> [cache[k] EXCEPT !.stale = TRUE]]

\* onSuccess closes what is open by then.
Saved(s) ==
    /\ s.saved /\ saving' = {} /\ wanted' = FALSE
    /\ UNCHANGED <<kind, place, known, chip, confirm, entities, removals, strangers,
                   slips, did, ours>>
    /\ invalidateQueries /\ FetchIf(TRUE) /\ Redraw

SaveMissed(s) ==
    /\ slips < MaxSlips /\ slips' = slips + 1 /\ saving' = {}
    /\ ours' = ours \ {s.makes}
    /\ UNCHANGED <<entityScreen, formState, dataVars, waitsFor, removals, strangers,
                   did, redrawn>>
-----------------------------------------------------------------------------
(* Deleting, and leaving *)

\* The rule's button asks nothing first; the account's and the upload's are off
\* while their delete is on its way.
setIsDeleteDialogOpen(open) ==
    /\ kind \in Asks /\ View = "ready" /\ ~wanted
    /\ kind \in {"account", "upload"} /\ open => removals = {}
    /\ confirm # open /\ confirm' = open
    /\ UNCHANGED <<kind, place, known, chip, wanted, formState, dataVars, saving,
                   waitsFor, removals, strangers, slips, did, history>>

handleDelete ==
    /\ kind \in Details /\ View = "ready" /\ (kind \in Asks <=> confirm)
    /\ ~wanted /\ waitsFor = 0 /\ did < MaxDone /\ did' = did + 1
    /\ waitsFor' = did' /\ removals' = removals \cup {[no |-> did', removed |-> FALSE]}
    /\ UNCHANGED <<entityScreen, formState, dataVars, saving, strangers, slips, history>>

\* DELETE: one that finds nothing succeeds as well.
ServerRemoves(r) ==
    /\ ~r.removed /\ removals' = (removals \ {r}) \cup {[r EXCEPT !.removed = TRUE]}
    /\ entities' = entities \ {Mine}
    /\ UNCHANGED <<entityScreen, formState, cache, fetching, saving, waitsFor,
                   strangers, slips, did, history>>

\* mutateAsync is over: the router goes to the list, from wherever the user is.
pushList == place' = "list"

Deleted(r) ==
    /\ r.removed /\ removals' = removals \ {r} /\ confirm' = FALSE
    /\ UNCHANGED <<kind, known, chip, wanted, entities, saving, strangers, slips, did, ours>>
    /\ pushList /\ invalidateQueries /\ FetchIf(TRUE) /\ Redraw

RemovalMissed(r) ==
    /\ slips < MaxSlips /\ slips' = slips + 1 /\ removals' = removals \ {r}
    /\ waitsFor' = IF waitsFor = r.no THEN 0 ELSE waitsFor
    /\ UNCHANGED <<entityScreen, formState, dataVars, saving, strangers, did, history>>

FollowLink ==
    /\ place = "here" /\ ~wanted /\ ~confirm /\ View # "skeleton"
    /\ place' = "elsewhere"
    /\ UNCHANGED <<kind, known, chip, wanted, confirm, dataVars, saving, removals,
                   strangers, slips, did, ours>>
    /\ Redraw

Elsewhere(e) ==
    /\ place = "here" /\ (kind \in Details => e = Mine)
    /\ strangers < MaxStrangers /\ strangers' = strangers + 1
    /\ entities' = IF e \in entities THEN entities \ {e} ELSE entities \cup {e}
    /\ ours' = ours \ {e}
    /\ UNCHANGED <<entityScreen, formState, cache, fetching, saving, waitsFor,
                   removals, slips, did, redrawn>>

EntityNext ==
    \/ SessionKnown \/ LookAgain \/ Type \/ SubmitForm \/ handleDelete \/ FollowLink
    \/ \E k \in fetching : Arrived(k) \/ FetchFails(k)
    \/ \E c \in {"all", "sip"} : setContributionFilter(c) \/ setTxnPage(c)
    \/ \E open \in BOOLEAN : setIsCreateDialogOpen(open) \/ setIsDeleteDialogOpen(open)
    \/ \E s \in saving : ServerSaves(s) \/ Saved(s) \/ SaveMissed(s)
    \/ \E r \in removals : ServerRemoves(r) \/ Deleted(r) \/ RemovalMissed(r)
    \/ \E e \in Entities : Elsewhere(e)

EntitySpec == EntityInit /\ [][EntityNext]_entityVars
-----------------------------------------------------------------------------
(* Properties *)

\* Types; a form is on screen exactly where there is a place for one.
EntityTypeOK ==
    /\ kind \in Lists \cup Details /\ entities \subseteq Entities
    /\ \A k \in DOMAIN cache : cache[k].rows = Unread \/ cache[k].rows \subseteq Entities
    /\ shownForm # 0 <=> FormPlace # "none"
    /\ typed => shownForm # 0
    /\ waitsFor # 0 => \E r \in removals : r.no = waitsFor

\* What is on screen is true of the load: a skeleton has a fetch behind it,
\* "none found" is what a fetch has found, and what is listed passes the filter
\* chosen.  Not of the accounts, whose first load may have failed and leaves
\* the skeleton until something asks again, nor before the session is known,
\* when goals and rules say there are none.
ScreenIsTrue ==
    /\ View = "skeleton" /\ known => isFetching \/ (kind = "accounts" /\ Read.error)
    /\ View = "empty" /\ known => Read.rows = {}
    /\ View = "ready" /\ kind \in Lists => Read.rows \subseteq Passing(chip)

\* A list at rest has everything made on it, under whichever filter, but what
\* was deleted since or whose answer was lost.
MadeIsListed ==
    View \in {"empty", "ready"} /\ known /\ ~isFetching /\ saving = {} /\ kind \in Lists
        => ours \cap Passing(chip) \subseteq Read.rows

\* What the user has typed goes when the form is closed, by the user or by a
\* save, also one sent from the form before it; otherwise only where a fetch
\* fails, where the session becomes known after the form was opened and the
\* first load begins, where the accounts' page goes from empty to full or back,
\* where the goal's page fetches anew, and where a delete answered late leaves
\* the page.
TypedIsLostOnlyThen ==
    [][typed /\ ~typed' =>
          \/ ~wanted'
          \/ View' \in {"error", "gone"} \/ ~known
          \/ kind = "accounts" /\ {View, View'} = {"empty", "ready"}
          \/ kind = "goal" /\ View' = "skeleton"]_entityVars

\* One delete is on its way at a time, unless a fetch rebuilt the page and its
\* dialog meanwhile; and the page of what was deleted here is left.
DeletedOnce ==
    /\ Cardinality(removals) > 1 => kind \in Asks /\ redrawn
    /\ kind \in Details /\ place = "here" /\ removals = {} /\ Mine \notin entities
         => strangers > 0 \/ slips > 0 \/ did = 0

\* An entity's pages show what their load found, list what was made on them and
\* delete once.
EntitySafe == EntityTypeOK /\ ScreenIsTrue /\ MadeIsListed /\ DeletedOnce
=============================================================================
