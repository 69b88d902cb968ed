-------------------------------- MODULE Forms -------------------------------
(***************************************************************************)
(* The forms that create or change one record (components/shared/form and  *)
(* the *Form.tsx components), each on its page or in its dialog, and the   *)
(* record on the server.  What a form says of its fields is a table; what  *)
(* any form does is the same for all.  A value is 0 when the field is      *)
(* empty; which text or option it is otherwise is left out.                *)
(***************************************************************************)
EXTENDS Naturals, FiniteSets

CONSTANTS
    FormNames,      \* the forms a behaviour may be about
    Watched,        \* of each, the fields followed: the others are like one of
                    \* them
    MaxOpens,       \* bound: times the form is mounted anew
    MaxUpsets,      \* bound: others' writes, receipts parsed, midnights
    MaxSubmits,     \* bound: submissions
    MaxMissed       \* bound: calls and fetches that fail, answers lost

ASSUME FormsAssumption == {MaxOpens, MaxUpsets, MaxSubmits, MaxMissed} \subseteq Nat

\* The user types and chooses 1 and 2; 3 is the day before 1.
Values == 0..3
Choosable == 0..2
-----------------------------------------------------------------------------
(* What each form asks, demands and sends.  Of an empty field nothing is    *)
(* sent.  needs: what the server refuses to be without.  instants: dates    *)
(* the server reads as instants, where the calendar gives a day.            *)

createTransactionSchema == {"account_id", "type", "amount", "transaction_date"}

TransactionCreateForm ==
    [edits |-> FALSE, onPage |-> "newPage", fields |-> createTransactionSchema \cup
        {"description", "category_id", "merchant_id", "notes", "tags",
         "payment_method", "reference_number", "is_recurring"},
     required |-> createTransactionSchema, fixed |-> {},
     needs |-> {"account_id"}, instants |-> {"transaction_date"}]

TransactionEditForm ==
    [edits |-> TRUE, onPage |-> "snapshot",
     fields |-> {"type", "amount", "transaction_date", "description",
                 "category_id", "merchant_id"},
     required |-> {"type", "amount", "transaction_date"}, fixed |-> {},
     needs |-> {}, instants |-> {"transaction_date"}]

AccountCreateForm ==
    LET all == {"account_name", "account_number", "account_type", "bank_id",
                "is_primary"}
    IN  [edits |-> FALSE, onPage |-> "dialog", fields |-> all,
         required |-> all, fixed |-> {}, needs |-> all, instants |-> {}]

AccountUpdateForm ==
    [edits |-> TRUE, onPage |-> "differences",
     fields |-> {"account_name", "account_number", "account_type",
                 "current_balence", "bank_id", "is_primary"},
     required |-> {"account_name"}, fixed |-> {}, needs |-> {},
     instants |-> {}]

\* The database, if emptied, is not sent, nor are numbers that are not finite.
transformToUpdateRequest == {"database_url", "lifetime_income",
                             "lifetime_expense", "use_llm_parsing"}

\* Its key holds the totals and the switch; Save and Cancel are the page's.
ProfileUpdateForm ==
    [edits |-> TRUE, onPage |-> "keyed", fields |-> transformToUpdateRequest,
     required |-> {}, fixed |-> {}, needs |-> {}, instants |-> {}]

SmsCreateForm ==
    [edits |-> FALSE, onPage |-> "dialog",
     fields |-> {"sender", "raw_message", "received_at"}, required |-> {},
     fixed |-> {}, needs |-> {}, instants |-> {"received_at"}]

ruleSchema == {"investment_type", "contribution_type", "contribution_value",
               "account_id"}

SipFields == {"auto_invest", "investment_day", "merchant_name_pattern",
              "description_pattern"}

RuleCreateForm ==
    [edits |-> FALSE, onPage |-> "dialog",
     fields |-> ruleSchema \cup SipFields \cup {"goal_id"},
     required |-> ruleSchema, fixed |-> {}, needs |-> ruleSchema,
     instants |-> {}]

\* The account and the goal can be chosen, and are not sent.
RuleEditForm ==
    [RuleCreateForm EXCEPT !.edits = TRUE, !.onPage = "keyed",
                           !.fixed = {"account_id", "goal_id"}, !.needs = {}]

createGoalSchema == {"name", "target_amount", "target_date"}

GoalCreateForm ==
    [edits |-> FALSE, onPage |-> "dialog",
     fields |-> createGoalSchema \cup {"current_amount", "status", "priority"},
     required |-> createGoalSchema, fixed |-> {}, needs |-> createGoalSchema,
     instants |-> {}]

\* An emptied name is refused by the schema; the rest may be left out.
updateGoalSchema == {"name", "target_date"}

GoalEditForm ==
    [GoalCreateForm EXCEPT !.edits = TRUE, !.onPage = "skeleton",
                           !.required = updateGoalSchema, !.needs = {}]

linkSchema == {"transaction_id", "amount", "transaction_date"}

LinkTransactionForm ==
    [edits |-> FALSE, onPage |-> "dialog",
     fields |-> linkSchema \cup {"expected_amount"}, required |-> linkSchema,
     fixed |-> {}, needs |-> linkSchema, instants |-> {}]

Forms ==
    [TransactionCreate |-> TransactionCreateForm,
     TransactionEdit   |-> TransactionEditForm,
     AccountCreate     |-> AccountCreateForm,
     AccountUpdate     |-> AccountUpdateForm,
     ProfileUpdate     |-> ProfileUpdateForm,
     SmsCreate         |-> SmsCreateForm,
     RuleCreate        |-> RuleCreateForm,
     RuleEdit          |-> RuleEditForm,
     GoalCreate        |-> GoalCreateForm,
     GoalEdit          |-> GoalEditForm,
     LinkTransaction   |-> LinkTransactionForm]

ASSUME NamesAssumption == FormNames \subseteq DOMAIN Forms

Days == {"transaction_date", "received_at", "target_date"}
-----------------------------------------------------------------------------
VARIABLES
    form,       \* which form this is about
    west,       \* is the user west of UTC?  Asked for the goal's form only
    record,     \* the record on the server, for a form that edits one
    shown,      \* the page's copy of it
    made,       \* records created: [id, no]
    no,         \* number of the form on screen, 0 if none
    opened,     \* forms mounted so far
    values,     \* its fields
    base,       \* the values it started from
    touched,    \* the fields the user set
    picked,     \* the dates that came from the calendar
    calls,      \* submissions under way
    submits,    \* submissions so far
    leaving,    \* is the router on its way to another page?
    error,      \* what ErrorState stands in place of: "none", the "page", or
                \* the page and its "form"
    upsets, missed,
    moved,      \* history: fields written while a form or a call was open
    excused     \* history: forms with a lost answer, or pressed again while
                \* the router was on its way

formVars == <<form, west, record, shown, made, no, opened, values, base,
              touched, picked, calls, submits, leaving, error, upsets, missed,
              moved, excused>>
screenVars == <<no, opened, values, base, touched, picked>>

F == Forms[form]
Fields == F.fields \cap Watched[form]

DayBefore(v) == CASE v = 0 -> 0 [] v = 1 -> 3 [] OTHER -> v - 1

\* An edit starts from the record; a creation from nothing, but for today's
\* date and the switches.  The goal's date, midnight in UTC, is formatted in
\* the user's time: west of UTC that is the day before.
Defaults(r) ==
    IF F.edits
    THEN [f \in Fields |-> IF west /\ f = "target_date" THEN DayBefore(r[f])
                           ELSE r[f]]
    ELSE [f \in Fields |->
            IF f = "is_primary" \/ f \in Days \cap F.instants THEN 1 ELSE 0]

FormsInit ==
    /\ form \in FormNames
    /\ west \in BOOLEAN /\ (west => form = "GoalEdit")
    /\ record = [f \in Fields |-> 1] /\ shown = record /\ made = {}
    /\ no = 0 /\ opened = 0 /\ values = record /\ base = record
    /\ touched = {} /\ picked = {} /\ calls = {} /\ submits = 0
    /\ leaving = FALSE /\ error = "none" /\ upsets = 0 /\ missed = 0
    /\ moved = {} /\ excused = {}

Upset == upsets < MaxUpsets /\ upsets' = upsets + 1

Mount(vs) ==
    /\ opened < MaxOpens /\ opened' = opened + 1 /\ no' = opened'
    /\ values' = vs /\ base' = vs /\ touched' = {} /\ picked' = {}

\* The same component, its fields started anew (key={JSON.stringify(...)}).
Restart(vs) ==
    /\ values' = vs /\ base' = vs /\ touched' = {} /\ picked' = {}
    /\ UNCHANGED <<no, opened>>

Unmount ==
    /\ no' = 0 /\ touched' = {} /\ picked' = {}
    /\ UNCHANGED <<opened, values, base>>
-----------------------------------------------------------------------------
(* The page around the form *)

Open ==
    /\ no = 0 /\ error = "none" /\ Mount(Defaults(shown))
    /\ moved' = IF calls = {} THEN {f \in Fields : shown[f] # record[f]}
                ELSE moved
    /\ UNCHANGED <<form, west, error, submits, record, shown, made, calls,
                   leaving, upsets, missed, excused>>

\* In both the hook's and the form's own count a submission is pending.  The
\* profile's buttons are outside its form and ask neither.
isPending == form # "ProfileUpdate" /\ \E c \in calls : c.no = no

\* Cancel, which a pending submission disables.
onCancel ==
    /\ no # 0 /\ form # "TransactionCreate" /\ form # "SmsCreate" /\ ~isPending
    /\ Unmount
    /\ UNCHANGED <<form, west, error, submits, record, shown, made, calls,
                   leaving, upsets, missed, moved, excused>>

\* Escape or the cross of a dialog, pending or not.
onOpenChange ==
    /\ no # 0 /\ F.onPage \in {"dialog", "snapshot", "keyed"}
    /\ form # "ProfileUpdate" /\ Unmount
    /\ UNCHANGED <<form, west, error, submits, record, shown, made, calls,
                   leaving, upsets, missed, moved, excused>>

\* The page's query is fetched again.  The row under edit is a copy; the
\* account's form keeps its fields; a rule's starts anew if the rule changed;
\* the goal's page shows its skeleton meanwhile.
Refetch ==
    /\ F.edits /\ error = "none" /\ shown' = record
    /\ shown # record \/ (F.onPage = "skeleton" /\ no # 0)
    /\ CASE no = 0                                   -> UNCHANGED screenVars
         [] no # 0 /\ F.onPage = "skeleton"          -> Mount(Defaults(record))
         [] no # 0 /\ F.onPage = "keyed"             -> Restart(Defaults(record))
         [] OTHER                                    -> UNCHANGED screenVars
    /\ UNCHANGED <<form, west, error, submits, record, made, calls, leaving,
                   upsets, missed, moved, excused>>

\* It fails: ErrorState replaces the page, and what was typed goes with the
\* form.  The page of a new transaction fetches nothing that it waits for.
RefetchFails ==
    /\ form # "TransactionCreate" /\ error = "none"
    /\ missed < MaxMissed /\ missed' = missed + 1
    /\ error' = IF no = 0 THEN "page" ELSE "form"
    /\ Unmount
    /\ UNCHANGED <<form, west, submits, record, shown, made, calls, leaving,
                   upsets, moved, excused>>

\* Retry brings the page back, which has kept that its form was open: the form
\* is mounted anew, of the row kept for it or of the record as it is now.
onRetry ==
    /\ error # "none" /\ error' = "none" /\ shown' = record
    /\ IF error = "page" THEN UNCHANGED screenVars
       ELSE Mount(IF F.onPage = "snapshot" THEN base ELSE Defaults(record))
    /\ UNCHANGED <<form, west, submits, record, made, calls, leaving, upsets,
                   missed, moved, excused>>

\* The dialog of a new account stands in two places: when a first account made
\* elsewhere is fetched, the other one takes over, with an empty form.
FirstAccount ==
    /\ form = "AccountCreate" /\ no # 0 /\ Upset /\ Mount(Defaults(shown))
    /\ UNCHANGED <<form, west, error, submits, record, shown, made, calls,
                   leaving, missed, moved, excused>>

\* A receipt's answer fills what it found; the rest starts anew as well.
onParsed(found) ==
    /\ form = "TransactionCreate" /\ no # 0 /\ Upset
    /\ Restart([f \in Fields |-> IF f \in found \cup {"type"} THEN 2
                                 ELSE Defaults(shown)[f]])
    /\ UNCHANGED <<form, west, error, submits, record, shown, made, calls,
                   leaving, missed, moved, excused>>

\* The default date is part of the key: rendered after midnight, the form
\* starts anew.
getTodayDateString ==
    /\ form = "TransactionCreate" /\ no # 0 /\ Upset /\ Restart(base)
    /\ UNCHANGED <<form, west, error, submits, record, shown, made, calls,
                   leaving, missed, moved, excused>>

\* The router arrives.
Leave ==
    /\ leaving /\ leaving' = FALSE /\ Unmount
    /\ UNCHANGED <<form, west, error, submits, record, shown, made, calls,
                   upsets, missed, moved, excused>>
-----------------------------------------------------------------------------
(* The form *)

\* A date is of the calendar; pressing the chosen day again empties it.
FormDatePicker(f, v) ==
    /\ f \in Days
    /\ picked' = IF v = 0 THEN picked \ {f} ELSE picked \cup {f}

FormInput(f) == f \notin Days /\ UNCHANGED picked

Fill(f, v) ==
    /\ no # 0 /\ v # values[f] /\ (v = 2 => F.edits)
    /\ FormDatePicker(f, v) \/ FormInput(f)
    /\ values' = [values EXCEPT ![f] = v] /\ touched' = touched \cup {f}
    /\ UNCHANGED <<form, west, error, submits, record, shown, made, no,
                   opened, base, calls, leaving, upsets, missed, moved,
                   excused>>

\* Choosing the transaction fills in its amount and its date.
handleSelect(t) ==
    /\ form = "LinkTransaction" /\ no # 0
    /\ values' = [f \in Fields |-> IF f \in linkSchema THEN t ELSE values[f]]
    /\ touched' = touched \cup (linkSchema \cap Fields)
    /\ picked' = picked \ {"transaction_date"}
    /\ UNCHANGED <<form, west, error, submits, record, shown, made, no,
                   opened, base, calls, leaving, upsets, missed, moved,
                   excused>>
\* The account's form sends what differs from the record as the page has it
\* now, the other forms all that is filled in.
Payload ==
    [f \in {g \in Fields \ F.fixed :
                /\ values[g] # 0
                /\ F.onPage = "differences" => values[g] # shown[g]}
        |-> values[f]]
\* Mutant: the button is not disabled.
SubmitAgain ==
    /\ no # 0
    /\ \A f \in F.required \cap Fields : values[f] # 0
    /\ submits < MaxSubmits /\ submits' = submits + 1
    /\ calls' = calls \cup {[id |-> submits, no |-> no, sends |-> Payload,
                             touched |-> touched, picked |-> picked,
                             at |-> "sent"]}
    /\ UNCHANGED <<form, west, error, record, shown, made, screenVars,
                   leaving, upsets, missed, moved, excused>>

Submit ==
    /\ no # 0 /\ ~isPending
    /\ \A f \in F.required \cap Fields : values[f] # 0
    /\ IF F.onPage = "differences" /\ DOMAIN Payload = {}
       THEN Unmount /\ UNCHANGED <<calls, submits, excused>>
       ELSE /\ submits < MaxSubmits /\ submits' = submits + 1
            /\ calls' = calls \cup {[id |-> submits, no |-> no,
                          sends |-> Payload, touched |-> touched,
                          picked |-> picked, at |-> "sent"]}
            /\ excused' = IF leaving THEN excused \cup {no} ELSE excused
            /\ UNCHANGED screenVars
    /\ UNCHANGED <<form, west, error, record, shown, made, leaving, upsets,
                   missed, moved>>
-----------------------------------------------------------------------------
(* The server, and its answers *)

Move(c, at) == calls' = (calls \ {c}) \cup {[c EXCEPT !.at = at]}

BindFails(c) ==
    \/ \E f \in F.needs \cap Fields : f \notin DOMAIN c.sends
    \/ F.instants \cap c.picked \cap DOMAIN c.sends # {}

Refuse(c) ==
    /\ c.at = "sent" /\ BindFails(c) /\ Move(c, "refused")
    /\ UNCHANGED <<form, west, error, submits, record, shown, made,
                   screenVars, leaving, upsets, missed, moved, excused>>

\* An update keeps what it is not given.
Store(c) ==
    /\ c.at = "sent" /\ ~BindFails(c) /\ Move(c, "stored")
    /\ IF F.edits
       THEN /\ record' = [f \in Fields |-> IF f \in DOMAIN c.sends
                                           THEN c.sends[f] ELSE record[f]]
            /\ moved' = moved \cup {f \in Fields : record'[f] # record[f]}
            /\ UNCHANGED made
       ELSE /\ made' = made \cup {[id |-> Cardinality(made) + 1, no |-> c.no]}
            /\ UNCHANGED <<record, moved>>
    /\ UNCHANGED <<form, west, error, submits, shown, screenVars, leaving,
                   upsets, missed, excused>>

OtherWrites(f) ==
    /\ F.edits /\ Upset /\ record[f] # 2 /\ record' = [record EXCEPT ![f] = 2]
    /\ moved' = moved \cup {f}
    /\ UNCHANGED <<form, west, error, submits, shown, made, screenVars, calls,
                   leaving, missed, excused>>

\* onSuccess closes what is open by then, or would be again, or sends the router
\* on its way.
onSuccess(c) ==
    /\ c.at = "stored" /\ calls' = calls \ {c}
    /\ IF F.onPage = "newPage"
       THEN leaving' = (no # 0) /\ UNCHANGED screenVars
       ELSE Unmount /\ UNCHANGED leaving
    /\ error' = IF error = "form" THEN "page" ELSE error
    /\ UNCHANGED <<form, west, submits, record, shown, made, upsets, missed,
                   moved, excused>>
\* Mutant: a refusal empties the form.
RefusedRestarts(c) ==
    /\ c.at = "refused" /\ calls' = calls \ {c}
    /\ IF c.no = no THEN Restart(base) ELSE UNCHANGED screenVars
    /\ UNCHANGED <<form, west, error, submits, record, shown, made, leaving,
                   upsets, missed, moved, excused>>

\* A toast, and the form as it was.
Refused(c) ==
    /\ c.at = "refused" /\ calls' = calls \ {c}
    /\ UNCHANGED <<form, west, error, submits, record, shown, made,
                   screenVars, leaving, upsets, missed, moved, excused>>

Missed(c) ==
    /\ missed < MaxMissed /\ missed' = missed + 1 /\ calls' = calls \ {c}
    /\ excused' = IF c.at = "stored" THEN excused \cup {c.no} ELSE excused
    /\ UNCHANGED <<form, west, error, submits, record, shown, made,
                   screenVars, leaving, upsets, moved>>

FormsNext ==
    \/ Open \/ onCancel \/ onOpenChange \/ Refetch \/ RefetchFails \/ onRetry
    \/ FirstAccount \/ getTodayDateString \/ Leave \/ Submit
    \/ \E found \in SUBSET {"amount", "transaction_date"} : onParsed(found)
    \/ \E f \in Fields : OtherWrites(f) \/ \E v \in Choosable : Fill(f, v)
    \/ \E t \in Choosable \ {0} : handleSelect(t)
    \/ \E c \in calls : \/ Refuse(c) \/ Store(c) \/ onSuccess(c)
                        \/ Refused(c) \/ Missed(c)

FormsSpec == FormsInit /\ [][FormsNext]_formVars
-----------------------------------------------------------------------------
(* Properties *)

\* The form on screen has the fields of its table, each with one value.
FormsTypeOK ==
    /\ form \in FormNames /\ west \in BOOLEAN /\ no \in 0..opened
    /\ error \in {"none", "page", "form"} /\ (error # "none" => no = 0)
    /\ {record, shown, values, base} \subseteq [Fields -> Values]
    /\ touched \cup moved \subseteq Fields /\ picked \subseteq Days
    /\ no = 0 => touched = {}

\* A form creates one record, however its button is pressed, unless an answer
\* was lost or it was pressed again while the router was on its way.
OneRecordPerForm ==
    \A a, b \in made : a.no = b.no /\ a.no \notin excused => a = b

\* What the form lets through the server refuses for one reason only: a date
\* of the calendar where it reads an instant (txn.dto.go, sms.dto.go).
RefusedForDatesOnly ==
    \A c \in calls : c.at = "refused" => c.picked \cap F.instants # {}

\* What a save writes differently from what was read: west of UTC, the goal's
\* date, a day earlier each time (InvestmentGoalForm.tsx:150-160).
Drifts == IF west THEN {"target_date"} ELSE {}

\* A save changes what the user set and, of the rest, only what was written
\* while the form was open, by others or from a second form - it may put a stale
\* value back, never a new one in - and, west of UTC, the goal's date.
OnlyTouchedChanges ==
    [][\A c \in calls : Store(c) => \A f \in Fields :
            record'[f] # record[f] => f \in c.touched \cup moved \cup Drifts
      ]_formVars

\* What the user has filled in goes when the user closes or saves the form or
\* leaves for another page; when an answer closes it, its own or one to a form
\* before it; by a parsed receipt, midnight or the first account; by a refetch
\* that starts the form anew; and by a refetch that fails, which takes the page.
\* A refusal, a lost call and a write by others take nothing.
TypedIsKept ==
    [][~(touched \subseteq touched')
         => \/ onCancel \/ onOpenChange \/ Submit \/ Leave
            \/ \E c \in calls : onSuccess(c)
            \/ ~F.edits /\ upsets' # upsets
            \/ Refetch /\ F.onPage \in {"keyed", "skeleton"}
            \/ error' = "form"]_formVars

\* A form sends what its table lets through and makes one record of it.
FormsSafe == FormsTypeOK /\ OneRecordPerForm /\ RefusedForDatesOnly
=============================================================================
