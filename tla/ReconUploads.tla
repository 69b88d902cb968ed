---------------------------- MODULE ReconUploads ----------------------------
(***************************************************************************)
(* The upload list, the upload form in its dialog, the detail page of an   *)
(* upload, and the confirmation dialogs of both pages (reconciliation/     *)
(* page.tsx, uploads/[uploadId]/page.tsx, ReconciliationUploadForm.tsx,    *)
(* ConfirmDialog.tsx).                                                     *)
(***************************************************************************)
EXTENDS Naturals, FiniteSets

CONSTANTS
    UploadFields,   \* "account", "file" and the two dates, or some of them
    NoList, NoUpload,
    MaxForms,       \* bound: times the form is opened
    MaxUploads,     \* bound: uploads sent
    MaxDeleting,    \* bound: deletes under way at a time
    MaxMissedCalls  \* bound: calls that fail, and answers that are lost

ASSUME UploadsAssumption ==
    /\ NoUpload \notin Nat /\ \A us \in SUBSET (1..MaxUploads) : us # NoList
    /\ {MaxForms, MaxUploads, MaxDeleting, MaxMissedCalls} \subseteq Nat

VARIABLES
    route,      \* the page: ListPage, or the upload whose detail it is
    stored,     \* uploads on the server: [id, form]
    listed,     \* the uploads the list's cache holds, or NoList
    outdated,   \* is that invalidated?
    broken,     \* did the last fetch of a list that is there fail?
    asking,     \* is a fetch of the list under way, and not read yet?
    answer,     \* the uploads the server has read, on their way, or NoList
    uploadForm, \* the form: its number, 0 when closed, and the fields filled
    formsOpened,\* forms opened so far
    discarding, \* is "Discard changes?" open?
    uploading,  \* uploads under way: [id, form, done, here], here while the
                \* page that sent the call is on screen
    uploadsSent,\* uploads sent so far
    toDelete,   \* the upload the delete dialog asks about
    deleting,   \* deletes under way: [id, from, done, here]
    missedCalls,\* calls failed or lost so far
    retried,    \* history: forms one of whose answers was lost
    untold      \* history: uploads made or deleted of which the list was not
                \* told: the answer was lost, or overtook an older read that
                \* went on

uploadVars == <<route, stored, listed, outdated, broken, asking, answer,
                uploadForm, formsOpened, discarding, uploading, uploadsSent,
                toDelete, deleting, missedCalls, retried, untold>>

fetchVars == <<asking, answer, untold>>
seenVars == <<listed, outdated, broken, fetchVars>>
dialogVars == <<uploadForm, formsOpened, discarding>>
sentUploads == <<uploading, uploadsSent>>
deleteVars == <<toDelete, deleting>>
lossVars == <<missedCalls, retried>>

ListPage == 0
NoForm == [no |-> 0, filled |-> {}]

UploadsInit ==
    /\ route = ListPage /\ stored = {} /\ listed = NoList /\ outdated = FALSE
    /\ broken = FALSE /\ asking = TRUE /\ answer = NoList /\ untold = {}
    /\ uploadForm = NoForm /\ formsOpened = 0 /\ discarding = FALSE
    /\ uploading = {} /\ uploadsSent = 0 /\ toDelete = NoUpload /\ deleting = {}
    /\ missedCalls = 0 /\ retried = {}

Ids(us) == {u.id : u \in us}

MissCall == missedCalls < MaxMissedCalls /\ missedCalls' = missedCalls + 1
-----------------------------------------------------------------------------
(* The list's fetches *)

ListInFlight == asking \/ answer # NoList

\* A new fetch, in place of one under way.
AskForList == asking' = TRUE /\ answer' = NoList /\ untold' = {}

\* What an observer does when the list page comes on screen.
ObserveList ==
    IF (listed = NoList \/ outdated) /\ ~ListInFlight THEN AskForList
    ELSE UNCHANGED fetchVars

\* The list is invalidated after upload id was made or deleted.  On screen it is
\* fetched again, unless its first fetch is under way; an answer on its way is
\* stopped by that new fetch only.
InvalidateList(id, page) ==
    /\ outdated' = (listed # NoList)
    /\ IF \/ route = ListPage /\ (listed # NoList \/ ~ListInFlight)
          \/ route # page /\ page = ListPage /\ ~ListInFlight
       THEN AskForList
       ELSE /\ UNCHANGED <<asking, answer>>
            /\ untold' = IF answer # NoList THEN untold \cup {id} ELSE untold

\* A deed whose answer was lost: a list read since has it, or one still to come.
NotTold(id) == untold' = IF asking THEN untold ELSE untold \cup {id}

\* Retry; or the window is looked at when the list is five minutes old.
RefetchUploads ==
    /\ route = ListPage /\ ~ListInFlight /\ AskForList
    /\ UNCHANGED <<route, stored, listed, outdated, broken, dialogVars,
                   sentUploads, deleteVars, lossVars>>

GetUploads ==
    /\ asking /\ asking' = FALSE /\ answer' = Ids(stored)
    /\ UNCHANGED <<route, stored, listed, outdated, broken, untold, dialogVars,
                   sentUploads, deleteVars, lossVars>>

\* A form that is not there any more, in a dialog that still is: one anew.
Remount ==
    IF uploadForm = NoForm THEN UNCHANGED <<uploadForm, formsOpened>>
    ELSE /\ formsOpened' = formsOpened + 1
         /\ uploadForm' = [no |-> formsOpened', filled |-> {}]

\* Mutant: every list read draws the form anew.
LoadRedraws ==
    /\ answer # NoList /\ answer' = NoList /\ listed' = answer
    /\ outdated' = FALSE /\ broken' = FALSE /\ Remount
    /\ UNCHANGED <<route, stored, asking, untold, discarding, sentUploads,
                   deleteVars, lossVars>>

\* Whatever invalidated the list meanwhile, the answer counts as fresh.  The
\* empty page and the full one hold the dialog in different places: when one
\* gives way to the other the form starts anew inside the open dialog.
LoadUploads ==
    /\ answer # NoList /\ answer' = NoList /\ listed' = answer
    /\ outdated' = FALSE /\ broken' = FALSE
    /\ IF broken \/ listed = NoList \/ (listed = {}) = (answer = {})
       THEN UNCHANGED <<uploadForm, formsOpened>> ELSE Remount
    /\ UNCHANGED <<route, stored, asking, untold, discarding, sentUploads,
                   deleteVars, lossVars>>

\* A list that is there gives way to the error, and with it the form in the
\* dialog, which comes back empty with the list.
ListFails ==
    /\ ListInFlight /\ MissCall /\ asking' = FALSE /\ answer' = NoList
    /\ broken' = (listed # NoList) /\ outdated' = (listed # NoList)
    /\ Remount
    /\ UNCHANGED <<route, stored, listed, untold, discarding, sentUploads,
                   deleteVars, retried>>
-----------------------------------------------------------------------------
(* The list page *)

\* The skeleton stands until there is a list, after a failed first load too.
Listing == route = ListPage /\ listed # NoList /\ ~broken

\* Another page: the state of the old one goes, and no answer finds it.
Left(calls) == {[c EXCEPT !.here = FALSE] : c \in calls}
GoTo(page) ==
    /\ route' = page
    /\ uploading' = Left(uploading) /\ deleting' = Left(deleting)
    /\ IF page = ListPage THEN ObserveList ELSE UNCHANGED fetchVars
    /\ UNCHANGED <<stored, listed, outdated, broken, dialogVars, uploadsSent,
                   toDelete, lossVars>>

OpenUploadDialog ==
    /\ Listing /\ uploadForm = NoForm /\ formsOpened < MaxForms
    /\ formsOpened' = formsOpened + 1
    /\ uploadForm' = [no |-> formsOpened', filled |-> {}]
    /\ UNCHANGED <<route, stored, seenVars, discarding, sentUploads,
                   deleteVars, lossVars>>

FormShown == Listing /\ uploadForm # NoForm /\ ~discarding

\* Closing the dialog asks first, whether or not anything was filled in.
handleUploadDialogOpenChange ==
    /\ FormShown /\ discarding' = TRUE
    /\ UNCHANGED <<route, stored, seenVars, uploadForm, formsOpened,
                   sentUploads, deleteVars, lossVars>>

\* "Discard" does not wait for an upload under way, nor stop it.
Discard ==
    /\ Listing /\ discarding /\ discarding' = FALSE /\ uploadForm' = NoForm
    /\ UNCHANGED <<route, stored, seenVars, formsOpened, sentUploads,
                   deleteVars, lossVars>>

KeepEditing ==
    /\ Listing /\ discarding /\ discarding' = FALSE
    /\ UNCHANGED <<route, stored, seenVars, uploadForm, formsOpened,
                   sentUploads, deleteVars, lossVars>>

\* A link, with no dialog in the way; the page's state goes with it.
Visit(u) ==
    /\ Listing /\ u \in listed /\ uploadForm = NoForm /\ ~discarding
    /\ toDelete = NoUpload /\ GoTo(u)

Back == route # ListPage /\ toDelete = NoUpload /\ GoTo(ListPage)
-----------------------------------------------------------------------------
(* The upload form *)

uploadPending == \E c \in uploading : c.form = uploadForm.no

FillUpload(field) ==
    /\ FormShown /\ field \notin uploadForm.filled
    /\ field # "account" => ~uploadPending
    /\ uploadForm' = [uploadForm EXCEPT !.filled = @ \cup {field}]
    /\ UNCHANGED <<route, stored, seenVars, formsOpened, discarding,
                   sentUploads, deleteVars, lossVars>>

\* Mutant: the button stays enabled while the upload is under way.
CanAlwaysSubmit == uploadForm.filled = UploadFields

canSubmit == uploadForm.filled = UploadFields /\ ~uploadPending

SubmitUpload ==
    /\ FormShown /\ canSubmit /\ uploadsSent < MaxUploads
    /\ uploadsSent' = uploadsSent + 1
    /\ uploading' = uploading \cup {[id |-> uploadsSent', form |-> uploadForm.no,
                                     done |-> FALSE, here |-> TRUE]}
    /\ UNCHANGED <<route, stored, seenVars, dialogVars, deleteVars, lossVars>>

\* Reset empties the form first and asks "Discard changes?" afterwards.
ResetForm ==
    /\ FormShown /\ ~uploadPending
    /\ uploadForm' = [uploadForm EXCEPT !.filled = {}] /\ discarding' = TRUE
    /\ UNCHANGED <<route, stored, seenVars, formsOpened, sentUploads,
                   deleteVars, lossVars>>

StoreUpload(c) ==
    /\ ~c.done
    /\ stored' = stored \cup {[id |-> c.id, form |-> c.form]}
    /\ uploading' = (uploading \ {c}) \cup {[c EXCEPT !.done = TRUE]}
    /\ UNCHANGED <<route, seenVars, dialogVars, uploadsSent, deleteVars,
                   lossVars>>

\* The hook invalidates the list; the form's onSuccess closes the dialog that
\* is open by then, be it another form of the page.
UploadAnswered(c) ==
    /\ c.done /\ uploading' = uploading \ {c} /\ InvalidateList(c.id, route)
    /\ uploadForm' = IF c.here THEN NoForm ELSE uploadForm
    /\ UNCHANGED <<route, stored, listed, broken, formsOpened, discarding,
                   uploadsSent, deleteVars, lossVars>>

\* A refusal, or an answer that never comes: a toast, and the form as it was.
UploadMissed(c) ==
    /\ MissCall /\ uploading' = uploading \ {c}
    /\ IF c.done THEN retried' = retried \cup {c.form} /\ NotTold(c.id)
       ELSE UNCHANGED <<retried, untold>>
    /\ UNCHANGED <<route, stored, listed, outdated, broken, asking, answer,
                   dialogVars, uploadsSent, deleteVars>>
-----------------------------------------------------------------------------
(* Deleting, from the list and from the detail page *)

\* The button is disabled while a delete of this page is under way.
AskDelete(u) ==
    /\ toDelete = NoUpload /\ \A d \in deleting : ~d.here
    /\ IF route = ListPage THEN Listing /\ u \in listed /\ uploadForm = NoForm
       ELSE u = route
    /\ toDelete' = u
    /\ UNCHANGED <<route, stored, seenVars, dialogVars, sentUploads, deleting,
                   lossVars>>

\* The empty page and the error leave the dialog out, and what it asks as it is.
DeleteShown ==
    toDelete # NoUpload /\ (route = ListPage => Listing /\ listed # {})

\* Cancel, or Escape, also while the delete is under way.
CancelDelete ==
    /\ DeleteShown /\ toDelete' = NoUpload
    /\ UNCHANGED <<route, stored, seenVars, dialogVars, sentUploads, deleting,
                   lossVars>>

handleConfirm ==
    /\ DeleteShown /\ \A d \in deleting : ~d.here
    /\ Cardinality(deleting) < MaxDeleting
    /\ deleting' = deleting \cup {[id |-> toDelete, from |-> route, done |-> FALSE,
                               here |-> TRUE]}
    /\ UNCHANGED <<route, stored, seenVars, dialogVars, sentUploads, toDelete,
                   lossVars>>

DeleteUpload(d) ==
    /\ ~d.done /\ d.id \in Ids(stored)
    /\ stored' = {u \in stored : u.id # d.id}
    /\ deleting' = (deleting \ {d}) \cup {[d EXCEPT !.done = TRUE]}
    /\ UNCHANGED <<route, seenVars, dialogVars, sentUploads, toDelete,
                   lossVars>>

\* The list is invalidated.  From the detail page the router goes to the list,
\* wherever the user has gone meanwhile; from the list, its dialog closes.
DeleteAnswered(d) ==
    LET moves == d.from # ListPage /\ route # ListPage IN
    /\ d.done /\ route' = IF moves THEN ListPage ELSE route
    /\ deleting' = IF moves THEN Left(deleting \ {d}) ELSE deleting \ {d}
    /\ uploading' = IF moves THEN Left(uploading) ELSE uploading
    /\ InvalidateList(d.id, route')
    /\ toDelete' = IF moves \/ d.here THEN NoUpload ELSE toDelete
    /\ UNCHANGED <<stored, listed, broken, dialogVars, uploadsSent, lossVars>>

\* The dialog stays open for another try.  What is gone answers 404.
DeleteMissed(d) ==
    /\ IF d.id \in Ids(stored) \/ d.done THEN MissCall ELSE UNCHANGED missedCalls
    /\ deleting' = deleting \ {d}
    /\ IF d.done THEN NotTold(d.id) ELSE UNCHANGED untold
    /\ UNCHANGED <<route, stored, listed, outdated, broken, asking, answer,
                   dialogVars, sentUploads, toDelete, retried>>

UploadsNext ==
    \/ RefetchUploads \/ GetUploads \/ LoadUploads \/ ListFails
    \/ OpenUploadDialog \/ handleUploadDialogOpenChange \/ Discard
    \/ KeepEditing \/ Back \/ SubmitUpload \/ ResetForm
    \/ \E f \in UploadFields : FillUpload(f)
    \/ \E c \in uploading : \/ StoreUpload(c) \/ UploadAnswered(c)
                            \/ UploadMissed(c)
    \/ \E u \in 1..MaxUploads : Visit(u) \/ AskDelete(u)
    \/ CancelDelete \/ handleConfirm
    \/ \E d \in deleting : \/ DeleteUpload(d) \/ DeleteAnswered(d)
                           \/ DeleteMissed(d)

UploadsSpec == UploadsInit /\ [][UploadsNext]_uploadVars
-----------------------------------------------------------------------------
(* Properties *)

UploadsTypeOK ==
    /\ route \in 0..MaxUploads
    /\ uploadForm.no \in 0..formsOpened /\ uploadForm.filled \subseteq UploadFields
    /\ uploadForm # NoForm => route = ListPage /\ listed # NoList
    /\ broken => listed # NoList
    /\ toDelete # NoUpload => toDelete \in 1..MaxUploads

\* One form makes one upload, however often its button is pressed, unless an
\* answer was lost and the user tried again.
OneUploadPerForm ==
    \A u, v \in stored : u.form = v.form /\ u.form \notin retried => u = v

\* With nothing under way the list is the server's: a deleted upload is off it,
\* one that a failed form left behind is on it.  It differs by uploads it was
\* not told of and no others, until it is fetched again.
ListIsTrue ==
    uploading = {} /\ deleting = {} /\ Listing /\ ~outdated /\ ~ListInFlight
      => (listed \ Ids(stored)) \cup (Ids(stored) \ listed) \subseteq untold

\* What the user fills in goes only by Reset, by Discard, by the answer to an
\* upload, when the list turns from empty to full under the dialog, or when a
\* refetch of the list fails beside it: a list read late takes nothing away.
FormIsKept ==
    [][uploadForm.filled \ uploadForm'.filled # {}
         => \/ discarding' # discarding
            \/ \E c \in uploading : c.done /\ c \notin uploading'
            \/ listed' # listed /\ {} \in {listed, listed'}
            \/ broken' /\ ~broken]_uploadVars

\* One upload per form, and a list that is the server's, whatever is answered
\* late, lost or deleted meanwhile.
UploadsSafe == UploadsTypeOK /\ OneUploadPerForm /\ ListIsTrue
=============================================================================
