------------------------------ MODULE UserKey ------------------------------
(* The user's row between the requests that write it back: the device's API   *)
(* key, issued once (UserService.UpdateUserInternal, ApiKeySection), and the  *)
(* counts of receipts parsed (TxnService.ParseTxnImage).  Each handler reads  *)
(* the row and writes it in statements of their own; the pages of two tabs    *)
(* show the row as they last read it.  Keys are numbered as they are made.    *)
EXTENDS Naturals, FiniteSets

CONSTANTS
    Tabs,           \* the profile page, open in each
    MaxKeys,        \* bound: keys asked for
    MaxParses,      \* bound: receipts sent
    MaxDrops        \* bound: requests or answers lost, handlers that fail

ASSUME UserKeyAssumption == {MaxKeys, MaxParses, MaxDrops} \subseteq Nat

VARIABLES
    row,        \* [key, qr, attempts, successes], a key of 0 is none
    seen,       \* by tab: the key and the QR code of the row as it has it
    showQr,     \* by tab: is the QR code on screen?
    refetching, \* the tabs whose copy is being read anew
    pending,    \* by tab: the key request its Generate button waits for, or 0
    asks,       \* key requests at the server: [no, tab, heard, at, read], read
                \* the key it found, heard while its tab waits
    parses,     \* receipts at the server: [no, at, attempts, successes], the
                \* counts it will write
    keysAsked, sent, drops,
    scanned,    \* keys phones have taken from a QR code
    raced,      \* history: keys replaced by a request that had read the row
                \* before there was one
    noted,      \* history: receipts whose attempt was written
    readable,   \* history: receipts Gemini could read, and that were counted
    overlapped  \* history: did two receipts overlap?

userVars == <<row, seen, showQr, refetching, pending, asks, parses, keysAsked, sent,
              drops, scanned, raced, noted, readable, overlapped>>
tabVars == <<seen, showQr, refetching, pending, keysAsked, scanned>>
receiptVars == <<parses, sent, noted, readable, overlapped>>

UserInit ==
    /\ row = [key |-> 0, qr |-> 0, attempts |-> 0, successes |-> 0]
    /\ seen = [t \in Tabs |-> [key |-> 0, qr |-> 0]]
    /\ showQr = [t \in Tabs |-> FALSE] /\ refetching = {}
    /\ pending = [t \in Tabs |-> 0]
    /\ asks = {} /\ parses = {} /\ keysAsked = 0 /\ sent = 0 /\ drops = 0
    /\ scanned = {} /\ raced = {} /\ noted = 0 /\ readable = 0 /\ overlapped = FALSE
-----------------------------------------------------------------------------
(* The key's card *)

\* The button is there as long as the tab knows of no key.
handleGenerate(t) ==
    /\ seen[t].key = 0 /\ pending[t] = 0
    /\ keysAsked < MaxKeys /\ keysAsked' = keysAsked + 1
    /\ pending' = [pending EXCEPT ![t] = keysAsked']
    /\ asks' = asks \cup {[no |-> keysAsked', tab |-> t, heard |-> TRUE, at |-> "read",
                           read |-> 0]}
    /\ UNCHANGED <<row, seen, showQr, refetching, receiptVars, drops, scanned,
                   raced>>

\* Only the button that sent the request waits for it.
Unwait(a) == [pending EXCEPT ![a.tab] = IF @ = a.no THEN 0 ELSE @]

\* The answer, or the lack of one, gives the button back; only a key that was
\* written makes the tab read the row again.
AnswerAsk(a) ==
    /\ a.at \in {"written", "refused"}
    /\ asks' = asks \ {a}
    /\ pending' = Unwait(a)
    /\ refetching' = IF a.heard /\ a.at = "written" THEN refetching \cup {a.tab}
                     ELSE refetching
    /\ UNCHANGED <<row, seen, showQr, receiptVars, keysAsked, drops, scanned, raced>>

\* The tab is loaded anew: its request goes on, its answer goes nowhere.
Reload(t) ==
    /\ drops < MaxDrops /\ drops' = drops + 1
    /\ pending' = [pending EXCEPT ![t] = 0]
    /\ showQr' = [showQr EXCEPT ![t] = FALSE]
    /\ asks' = {IF a.tab = t THEN [a EXCEPT !.heard = FALSE] ELSE a : a \in asks}
    /\ seen' = [seen EXCEPT ![t] = [key |-> row.key, qr |-> row.qr]]
    /\ refetching' = refetching \ {t}
    /\ UNCHANGED <<row, receiptVars, keysAsked, scanned, raced>>

\* A tab reads the row: after its own key, or when it is looked at again.
getAuthUser(t) ==
    /\ seen' = [seen EXCEPT ![t] = [key |-> row.key, qr |-> row.qr]]
    /\ refetching' = refetching \ {t}
    /\ UNCHANGED <<row, showQr, pending, asks, receiptVars, keysAsked, drops,
                   scanned, raced>>

ApiKeySection(t) ==
    /\ seen[t].key # 0 /\ seen[t].qr # 0
    /\ showQr' = [showQr EXCEPT ![t] = ~@]
    /\ UNCHANGED <<row, seen, refetching, pending, asks, receiptVars, keysAsked,
                   drops, scanned, raced>>

\* Editing the profile takes the card away, with what it had unfolded and what
\* it was waiting for: the request goes on, and its answer is still heard.
setIsEditing(t) ==
    /\ showQr[t] \/ pending[t] # 0
    /\ showQr' = [showQr EXCEPT ![t] = FALSE]
    /\ pending' = [pending EXCEPT ![t] = 0]
    /\ UNCHANGED <<row, seen, refetching, asks, receiptVars, keysAsked,
                   drops, scanned, raced>>

handleBarCodeScanned(t) ==
    /\ showQr[t] /\ scanned' = scanned \cup {seen[t].qr}
    /\ UNCHANGED <<row, seen, showQr, refetching, pending, asks, receiptVars,
                   keysAsked, drops, raced>>
-----------------------------------------------------------------------------
(* Issuing the key *)

MoveAsk(a, to) == asks' = (asks \ {a}) \cup {to}

\* Mutant: a key there is does not stop the request.
ReadKeyRowAnyway(a) ==
    /\ a.at = "read"
    /\ MoveAsk(a, [a EXCEPT !.at = "write", !.read = row.key])
    /\ UNCHANGED <<row, tabVars, receiptVars, drops, raced>>

\* currUser.ApiKey != "": a key there is is not replaced.
ReadKeyRow(a) ==
    /\ a.at = "read"
    /\ MoveAsk(a, [a EXCEPT !.at = IF row.key # 0 THEN "refused" ELSE "write",
                            !.read = row.key])
    /\ UNCHANGED <<row, tabVars, receiptVars, drops, raced>>

\* One UPDATE writes the key and its QR code.
UpdateUserInternal(a) == [row EXCEPT !.key = a.no, !.qr = a.no]

WriteKey(a) ==
    /\ a.at = "write" /\ row' = UpdateUserInternal(a)
    /\ MoveAsk(a, [a EXCEPT !.at = "written"])
    /\ raced' = IF row.key # 0 /\ a.read = 0 THEN raced \cup {row.key} ELSE raced
    /\ UNCHANGED <<tabVars, receiptVars, drops>>

\* The request or its answer is lost, or a statement fails: the tab sees an
\* error, and what was written stays.
DropAsk(a) ==
    /\ drops < MaxDrops /\ drops' = drops + 1
    /\ asks' = asks \ {a}
    /\ pending' = Unwait(a)
    /\ UNCHANGED <<row, seen, showQr, refetching, receiptVars, keysAsked, scanned,
                   raced>>
-----------------------------------------------------------------------------
(* Parsing a receipt *)

MoveParse(p, to) == parses' = (parses \ {p}) \cup {to}

\* Both counts are read here, and written plus one: the attempts before the
\* receipt is looked at, the successes after.
ParseTxnImage ==
    /\ sent < MaxParses /\ sent' = sent + 1
    /\ parses' = parses \cup {[no |-> sent', at |-> "read",
                               attempts |-> 0, successes |-> 0]}
    /\ overlapped' = (overlapped \/ parses # {})
    /\ UNCHANGED <<row, tabVars, asks, drops, raced, noted, readable>>

ReadCounts(p) ==
    /\ p.at = "read"
    /\ MoveParse(p, [p EXCEPT !.at = "attempt", !.attempts = row.attempts + 1,
                              !.successes = row.successes + 1])
    /\ UNCHANGED <<row, tabVars, asks, sent, drops, raced, noted, readable, overlapped>>

CountAttempt(p) ==
    /\ p.at = "attempt" /\ row' = [row EXCEPT !.attempts = p.attempts]
    /\ MoveParse(p, [p EXCEPT !.at = "gemini"])
    /\ noted' = noted + 1
    /\ UNCHANGED <<tabVars, asks, sent, drops, raced, readable, overlapped>>

\* The user cannot be read, or the attempt not written: the handler ends there,
\* nothing is counted, and Gemini does not see the receipt.
FailUncounted(p) ==
    /\ p.at \in {"read", "attempt"} /\ parses' = parses \ {p}
    /\ UNCHANGED <<row, tabVars, asks, sent, drops, raced, noted, readable, overlapped>>

\* Gemini reads the receipt and the success is written, or something before that
\* fails and the handler ends: the attempt stays counted.
CountSuccess(p) ==
    /\ p.at = "gemini" /\ parses' = parses \ {p}
    /\ \/ /\ row' = [row EXCEPT !.successes = p.successes] /\ readable' = readable + 1
       \/ UNCHANGED <<row, readable>>
    /\ UNCHANGED <<tabVars, asks, sent, drops, raced, noted, overlapped>>

KeyNext ==
    \/ \E t \in Tabs : \/ handleGenerate(t) \/ getAuthUser(t) \/ ApiKeySection(t)
                       \/ setIsEditing(t) \/ handleBarCodeScanned(t) \/ Reload(t)
    \/ \E a \in asks : AnswerAsk(a) \/ ReadKeyRow(a) \/ WriteKey(a) \/ DropAsk(a)

ReceiptNext ==
    \/ ParseTxnImage
    \/ \E p \in parses : ReadCounts(p) \/ CountAttempt(p) \/ FailUncounted(p)
                         \/ CountSuccess(p)

UserSpec == UserInit /\ [][KeyNext \/ ReceiptNext]_userVars
-----------------------------------------------------------------------------
(* Properties *)

\* Types; the rows, tabs and requests agree on which numbers there are.
UserTypeOK ==
    /\ {row.key, row.qr} \subseteq 0..keysAsked
    /\ {row.attempts, row.successes} \subseteq 0..sent
    /\ refetching \subseteq Tabs
    /\ \A t \in Tabs : pending[t] # 0 =>
          \E a \in asks : a.heard /\ a.tab = t /\ a.no = pending[t]

\* The phone that scanned a code keeps access for good, unless the key was one
\* of two made at once: ApiKeySection's "Once generated, you cannot regenerate
\* it" holds of every later request, also after answers that were lost and in
\* a tab that does not know of the key yet.
ScannedKeyStays ==
    \A k \in scanned : k # row.key => k \in raced

\* The code a tab shows is of the key it shows, whichever request wrote last.
CodeIsOfTheKey == \A t \in Tabs : seen[t].qr = seen[t].key

\* No receipt is counted twice, in whatever order the handlers write and wherever
\* they fail.  As long as receipts come one after the other, the attempts are
\* those that went on to Gemini (one that failed before that is not counted) and
\* the successes those it could read.  Of two at once one may be lost, and a late
\* write takes the count back.
CountsAreOfReceipts ==
    /\ row.attempts <= noted /\ noted <= sent /\ row.successes <= readable
    /\ ~overlapped /\ parses = {} => row.attempts = noted /\ row.successes = readable

\* What overlapping requests may do to the user's row: replace a key made at
\* the same time and lose a count, nothing else.
UserSafe == UserTypeOK /\ ScannedKeyStays /\ CodeIsOfTheKey /\ CountsAreOfReceipts
=============================================================================
