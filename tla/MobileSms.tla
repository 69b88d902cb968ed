----------------------------- MODULE MobileSms -----------------------------
(***************************************************************************)
(* The phone (finance-tracker-mobile): reading and hearing bank SMS, the   *)
(* list on the screen, the per-message submit status, and pairing by QR    *)
(* code. The server is what POST /sms looks like from the phone.           *)
(***************************************************************************)
EXTENDS Naturals, FiniteSets, Sequences

CONSTANTS
    Messages,       \* bank SMS (isTransaction); others are dropped at once
    Old,            \* those in the inbox before the app came
    Date,           \* Date[m]: the `date` of a message, its id when heard live
    MaxPosts,       \* bound: requests the phone sends
    MaxFetches,     \* bound: inbox reads under way at once
    MaxUpsets       \* bound: kills of the app and replaced keys

ASSUME OldAssumption == Old \subseteq Messages

ASSUME BoundsAssumption ==
    {MaxPosts, MaxFetches, MaxUpsets} \subseteq Nat

VARIABLES
    air,         \* sent by the bank, not yet broadcast to the phone
    inbox,       \* the phone's inbox
    store,       \* SmsStoreModule: broadcasts that found no running app
    alive, kills,
    permission,  \* useSmsPermission
    keyReady,    \* apiKeyReady: "unknown" | "no" | "yes"
    stored,      \* the key in SecureStore, 0 for none
    qr,          \* QrScanScreen
    smsList, loading, error, fetches,   \* useSms and its native calls
    display,     \* displayList: pairs <<id, message>>
    unread,      \* history: a pairing emptied the list, and nothing has read the
                 \* inbox since
    statusMap,   \* useSubmitSms
    key,         \* the user's current key on the server
    posts,       \* requests, with what the server made of each
    excused      \* history: ids whose status the phone lost or got wrong

phone  == <<air, inbox, store, alive, kills>>
screen == <<permission, keyReady, stored, qr, smsList, loading, error,
            fetches, display, unread>>
vars   == <<phone, screen, statusMap, key, posts, excused>>

LiveId(m)  == <<"live", Date[m]>>     \* _id: String(event.date)
InboxId(m) == <<"inbox", m>>          \* _id of the inbox row
Ids == {LiveId(m) : m \in Messages} \cup {InboxId(m) : m \in Messages}

Blank == [id \in Ids |-> "none"]

Init ==
    /\ air = Messages \ Old /\ inbox = Old /\ store = {}
    /\ alive = FALSE /\ kills = 0
    /\ permission = "pending" /\ keyReady = "unknown"
    /\ stored = 0 /\ qr = "camera"
    /\ smsList = {} /\ loading = FALSE /\ error = FALSE /\ fetches = <<>>
    /\ display = {} /\ unread = FALSE /\ statusMap = Blank
    /\ key = 1 /\ posts = <<>> /\ excused = {}

\* The branch of SmsScreen that is rendered.
Screen ==
    IF ~alive THEN "none"
    ELSE IF keyReady = "unknown" THEN "spinner"
    ELSE IF keyReady = "no" THEN "qr"
    ELSE IF permission = "pending" THEN "asking"
    ELSE IF permission = "denied" THEN "permission"
    ELSE IF error THEN "error" ELSE "list"

-----------------------------------------------------------------------------
(* Submitting *)

\* submit: one request per id unless it is under way or done. The API key is
\* read after the status is set (the interceptor awaits it).
Submit(id, m) ==
    IF statusMap[id] \in {"sending", "sent"}
    THEN UNCHANGED <<statusMap, posts>>
    ELSE /\ Len(posts) < MaxPosts
         /\ statusMap' = [statusMap EXCEPT ![id] = "sending"]
         /\ posts' = Append(posts, [id |-> id, sms |-> m, key |-> 0,
                                    pc |-> "key", waiting |-> TRUE,
                                    logged |-> FALSE])

\* The card's button: hidden when sent, disabled while sending. A tap sets the
\* status at once, so the card's own manualStatus never decides.
Tap ==
    /\ Screen = "list"
    /\ \E e \in display :
          /\ statusMap[e[1]] \in {"none", "error"}
          /\ Submit(e[1], e[2])
    /\ UNCHANGED <<phone, screen, key, excused>>

At(n, where) == posts[n].pc = where

\* The request interceptor.
ReadKey(n) ==
    /\ At(n, "key")
    /\ posts' = [posts EXCEPT ![n].key = stored, ![n].pc = "sent"]
    /\ UNCHANGED <<phone, screen, statusMap, key, excused>>

\* An answer reaches the phone, or the 15 seconds pass without one; an
\* answer that comes later finds nobody.
Hear(n, answer) ==
    /\ posts[n].waiting
    /\ statusMap' = [statusMap EXCEPT ![posts[n].id] = answer]
    /\ UNCHANGED <<phone, screen, key>>

Answered(n) ==
    /\ posts[n].pc \in {"ok", "refused"}
    /\ Hear(n, IF At(n, "ok") THEN "sent" ELSE "error")
    /\ posts' = [posts EXCEPT ![n].pc = "done", ![n].waiting = FALSE]
    /\ UNCHANGED excused
\* Mutant: "sent" is set in a finally, whatever came of the request.
TimeOutAsSent(n) ==
    /\ ~At(n, "key")
    /\ Hear(n, "sent")
    /\ posts' = [posts EXCEPT ![n].waiting = FALSE]
    /\ excused' = excused \cup {posts[n].id}

\* Mutant: the client is made without a timeout.
TimeOutNever(n) == posts[n].id \notin Ids /\ Hear(n, "error")
                     /\ UNCHANGED <<posts, excused>>

TimeOut(n) ==
    /\ ~At(n, "key")
    /\ Hear(n, "error")
    /\ posts' = [posts EXCEPT ![n].waiting = FALSE]
    /\ excused' = excused \cup {posts[n].id}

-----------------------------------------------------------------------------
(* Reading, hearing and showing *)

StartFetch ==
    /\ Len(fetches) < MaxFetches
    /\ fetches' = Append(fetches, inbox)
    /\ loading' = TRUE /\ error' = FALSE

\* Pull, Refresh, Retry, or the app coming to the foreground.
Refresh ==
    /\ \/ Screen = "list" /\ ~loading
       \/ Screen = "error"
       \/ alive /\ permission = "granted"     \* useAppForeground
    /\ StartFetch
    /\ UNCHANGED <<phone, permission, keyReady, stored, qr, smsList, display,
                   unread, statusMap, key, posts, excused>>

\* The native call answers, in order, with what it read of the inbox.
\* The list replaces what was shown, what was heard live included.
Listed ==
    /\ fetches # <<>>
    /\ fetches' = Tail(fetches)
    /\ loading' = FALSE
    /\ \/ /\ smsList' = Head(fetches)
          /\ display' = {<<InboxId(m), m>> : m \in Head(fetches)}
          /\ unread' = FALSE /\ UNCHANGED error
       \/ /\ error' = TRUE
          /\ UNCHANGED <<smsList, display, unread>>
    /\ UNCHANGED <<phone, permission, keyReady, stored, qr, statusMap, key,
                   posts, excused>>

\* The broadcast: to the running app, or to the native store.
Broadcast(m) ==
    /\ m \in air
    /\ air' = air \ {m}
    /\ IF alive /\ permission = "granted"
       THEN /\ display' = IF \E e \in display : e[1] = LiveId(m)
                          THEN display
                          ELSE display \cup {<<LiveId(m), m>>}
            /\ Submit(LiveId(m), m)
            /\ UNCHANGED store
       ELSE /\ store' = IF alive THEN store ELSE store \cup {m}
            /\ UNCHANGED <<display, statusMap, posts>>
    /\ UNCHANGED <<inbox, alive, kills, permission, keyReady, stored, qr,
                   smsList, loading, error, fetches, unread, key, excused>>

\* The phone's own messaging app files the message, before or after.
Filed(m) ==
    /\ m \notin inbox
    /\ inbox' = inbox \cup {m}
    /\ UNCHANGED <<air, store, alive, kills, screen, statusMap, key, posts,
                   excused>>

\* usePendingSms drains once, at mount, and holds the callback of the first
\* render, when permission is still pending: the no-op.
Drain ==
    /\ alive /\ store # {}
    /\ store' = {}
    /\ UNCHANGED <<air, inbox, alive, kills, screen, statusMap, key, posts,
                   excused>>

-----------------------------------------------------------------------------
(* The app's life, permission and pairing *)

Launch ==
    /\ ~alive
    /\ alive' = TRUE
    /\ UNCHANGED <<air, inbox, store, kills, screen, statusMap, key, posts,
                   excused>>

\* Only SecureStore and the native store outlive the process. A request
\* already sent goes on without anyone to hear its answer.
Kill ==
    /\ alive /\ kills + key - 1 < MaxUpsets
    /\ alive' = FALSE /\ kills' = kills + 1
    /\ permission' = "pending" /\ keyReady' = "unknown" /\ qr' = "camera"
    /\ smsList' = {} /\ loading' = FALSE /\ error' = FALSE /\ fetches' = <<>>
    /\ display' = {} /\ unread' = FALSE /\ statusMap' = Blank
    /\ posts' = [n \in DOMAIN posts |->
                   [posts[n] EXCEPT !.waiting = FALSE,
                                    !.pc = IF @ = "key" THEN "done" ELSE @]]
    /\ excused' = Ids
    /\ UNCHANGED <<air, inbox, store, stored, key>>

\* request(): on mount, and from the button once denied. Becoming granted
\* reads the inbox.
AskPermission ==
    /\ alive
    /\ permission = "pending" \/ Screen = "permission"
    /\ \/ permission' = "granted" /\ StartFetch
       \/ /\ permission' = "denied"        \* or never_ask_again: by Settings
          /\ UNCHANGED <<loading, error, fetches>>
    /\ UNCHANGED <<phone, keyReady, stored, qr, smsList, display, unread,
                   statusMap, key, posts, excused>>

CheckKey ==
    /\ alive /\ keyReady = "unknown"
    /\ keyReady' = IF stored = 0 THEN "no" ELSE "yes"
    /\ UNCHANGED <<phone, permission, stored, qr, smsList, loading, error,
                   fetches, display, unread, statusMap, key, posts, excused>>

\* handleQrSuccess is the one of the scan's render: what it will do after the
\* await goes by the permission there was before it.
SavedSeeing == IF permission = "granted" THEN "saved" ELSE "savedUngranted"

\* QrScanScreen: the camera's permission, a code that is not ours, another try;
\* saveApiKey writes the key, and handleQrSuccess comes after.
QrStep ==
    /\ Screen = "qr"
    /\ \/ qr = "camera" /\ qr' = "scanning" /\ UNCHANGED stored
       \/ qr = "scanning" /\ qr' = "error" /\ UNCHANGED stored
       \/ qr = "error" /\ qr' = "scanning" /\ UNCHANGED stored
       \/ qr = "scanning" /\ qr' = SavedSeeing /\ stored' = key
    /\ UNCHANGED <<phone, permission, keyReady, smsList, loading, error,
                   fetches, display, unread, statusMap, key, posts, excused>>

\* handleQrSuccess forgets the list and every status.
Paired ==
    /\ Screen = "qr" /\ qr \in {"saved", "savedUngranted"}
    /\ qr' = "camera" /\ keyReady' = "yes"
    /\ display' = {} /\ statusMap' = Blank
    /\ excused' = excused \cup {id \in Ids : statusMap[id] # "none"}
    /\ IF qr = "saved" THEN StartFetch ELSE UNCHANGED <<loading, error, fetches>>
    /\ unread' = (qr = "savedUngranted" /\ permission = "granted")
    /\ UNCHANGED <<phone, permission, stored, smsList, key, posts>>

\* Two overlapping requests for a key: the later write replaces the key that the
\* earlier one showed as QR code, and the older is refused from now on.
NewKey ==
    /\ kills + key - 1 < MaxUpsets
    /\ key' = key + 1
    /\ UNCHANGED <<phone, screen, statusMap, posts, excused>>
-----------------------------------------------------------------------------
(* The server, as the phone sees it (SmsIngest models it in full) *)

ServerOnly == UNCHANGED <<phone, screen, statusMap, key, excused>>

\* POST /sms: device authentication, then the log. What fails before the row is
\* written refuses the message; what fails after it is only logged.
Receive(n) ==
    /\ At(n, "sent")
    /\ \/ posts' = [posts EXCEPT ![n].pc = "refused"]
       \/ /\ posts[n].key = key
          /\ posts' = [posts EXCEPT ![n].logged = TRUE, ![n].pc = "ok"]
    /\ ServerOnly

\* The request or the answer is lost.
Lose(n) ==
    /\ posts[n].pc \in {"sent", "ok", "refused"}
    /\ posts' = [posts EXCEPT ![n].pc = "done"]
    /\ ServerOnly
-----------------------------------------------------------------------------
Client(n) == ReadKey(n) \/ Answered(n) \/ TimeOut(n)

Next ==
    \/ Tap \/ Refresh \/ Listed \/ Drain \/ Launch \/ Kill \/ AskPermission
    \/ CheckKey \/ QrStep \/ Paired \/ NewKey
    \/ \E m \in Messages : Broadcast(m) \/ Filed(m)
    \/ \E n \in DOMAIN posts :
          Client(n) \/ Receive(n) \/ Lose(n)

Spec == Init /\ [][Next]_vars

\* The phone's timer and its event loop run while the app lives. Nothing is
\* assumed of the network, the server, the user or the bank.
PhoneFairness ==
    \A n \in 1..MaxPosts : WF_vars(n \in DOMAIN posts /\ Client(n))

FairSpec == Spec /\ PhoneFairness
-----------------------------------------------------------------------------
(* Properties *)

MobileTypeOK ==
    /\ air \subseteq Messages /\ inbox \subseteq Messages
    /\ store \subseteq Messages /\ smsList \subseteq Messages
    /\ alive \in BOOLEAN /\ loading \in BOOLEAN /\ error \in BOOLEAN
    /\ permission \in {"pending", "granted", "denied"}
    /\ keyReady \in {"unknown", "no", "yes"}
    /\ qr \in {"camera", "scanning", "error", "saved", "savedUngranted"}
    /\ unread \in BOOLEAN
    /\ display \subseteq Ids \X Messages
    /\ statusMap \in [Ids -> {"none", "sending", "sent", "error"}]
    /\ kills \in 0..MaxUpsets /\ key \in 1..(MaxUpsets + 1)
    /\ stored \in 0..key
    /\ Len(posts) <= MaxPosts /\ excused \subseteq Ids

\* A message shown as sent has a log on the server, whatever timers, restarts
\* and pairings came between (useSubmitSms, Submit and its callbacks).
SentMeansStored ==
    \A id \in Ids : statusMap[id] = "sent" =>
        \E n \in DOMAIN posts : posts[n].id = id /\ posts[n].logged

\* One shown message becomes two logs only when the phone never learned that
\* the first was stored: the answer came late, was lost, was an error after the
\* row was written, or the statuses were forgotten with the process or at a
\* new pairing. The server itself does not look for copies.
AcceptedOnce ==
    \A i, j \in DOMAIN posts :
        (i # j /\ posts[i].id = posts[j].id /\ posts[i].logged /\ posts[j].logged)
            => posts[i].id \in excused

\* The list on the screen, with no read under way, holds every message the
\* last read returned, whatever was heard or paired in between.  The exception
\* is a permission given while the scanned key was being saved: that pairing
\* empties what the grant had read and reads nothing, until the next read.
ListIsComplete ==
    (Screen = "list" /\ fetches = <<>> /\ ~unread) =>
        smsList \subseteq {e[2] : e \in display}

\* No message stays "sending" for ever: an answer or the timer ends it.
SendingEnds ==
    \A id \in Ids : (statusMap[id] = "sending") ~> (statusMap[id] # "sending")

\* What the phone tells its user is true of the server: a message shown as sent
\* is stored, once unless the phone could not know, and none the inbox holds is
\* missing from the screen.
MobileSafe == MobileTypeOK /\ SentMeansStored /\ AcceptedOnce /\ ListIsComplete
=============================================================================
