----------------------------- MODULE MCWebPages -----------------------------
(* The pages of the web application that keep state of their own: a form, a   *)
(* list with deletes, an entity's page, signing in, the dashboard.  A         *)
(* behaviour is one of them, the others at rest: they meet in the server and  *)
(* in the query cache, which MCWebData checks.  Of a form up to two fields    *)
(* are followed, chosen for what its table says of them; of the goal's form,  *)
(* the user west of UTC, since elsewhere its date is a field as any other.    *)
EXTENDS Forms, Tables, Session, Dashboard, EntityPages, TLC

VARIABLE visiting

MCFormNames == DOMAIN Forms
MCWatched ==
    [TransactionCreate |-> {"account_id", "transaction_date"},
     TransactionEdit   |-> {"transaction_date"},
     AccountCreate     |-> {"bank_id", "is_primary"},
     AccountUpdate     |-> {"account_name", "current_balence"},
     ProfileUpdate     |-> {"lifetime_income"},
     SmsCreate         |-> {"sender", "received_at"},
     RuleCreate        |-> {"contribution_value", "goal_id"},
     RuleEdit          |-> {"contribution_value", "goal_id"},
     GoalCreate        |-> {"target_amount", "target_date"},
     GoalEdit          |-> {"name", "target_date"},
     LinkTransaction   |-> {"transaction_id", "transaction_date"}]

MCPosting(moment, type, category, closed, amount) ==
    [at |-> moment, type |-> type, category |-> category, closed |-> closed,
     amount |-> amount]
MCBooks == {MCPosting(2, "DEBIT", "food", FALSE, 1),
            MCPosting(4, "SUBSCRIPTION", "fun", FALSE, 3),
            MCPosting(5, "DEBIT", NoCategory, TRUE, 2),
            MCPosting(6, "REFUND", "fun", FALSE, 2)}
MCPresets == [oneMonth |-> 1, twoMonths |-> 2]

pageVars == <<formVars, listVars, sessionVars, dashVars, entityVars, visiting>>

PagesInit ==
    /\ TablesInit /\ FormsInit /\ SessionInit /\ DashInit /\ EntityInit
    /\ visiting \in {"form", "table", "session", "dashboard", "entity"}
    /\ visiting # "form" => form = "SmsCreate"
    /\ form = "GoalEdit" => west
    /\ visiting # "table" => listing = "links"
    /\ visiting # "session" => ~session
    /\ visiting # "entity" => kind = "accounts" /\ entities = {}
    /\ visiting # "dashboard" => booked = {} /\ storage

PagesNext ==
    /\ UNCHANGED visiting
    /\ \/ /\ visiting = "form" /\ FormsNext
          /\ UNCHANGED <<listVars, sessionVars, dashVars, entityVars>>
       \/ /\ visiting = "table" /\ TablesNext
          /\ UNCHANGED <<formVars, sessionVars, dashVars, entityVars>>
       \/ /\ visiting = "session" /\ SessionNext
          /\ UNCHANGED <<formVars, listVars, dashVars, entityVars>>
       \/ /\ visiting = "dashboard" /\ DashNext
          /\ UNCHANGED <<formVars, listVars, sessionVars, entityVars>>
       \/ /\ visiting = "entity" /\ EntityNext
          /\ UNCHANGED <<formVars, listVars, sessionVars, dashVars>>

PagesSpec == PagesInit /\ [][PagesNext]_pageVars

\* What the user has put in - the fields of a form, the page of a list - changes
\* by what the user does and by the few answers that are named, a failed fetch
\* that takes the page among them: no refusal and no lost call takes it away,
\* and a save writes no more than that, but for the goal's date west of UTC.
InputIsKept ==
    OnlyTouchedChanges /\ TypedIsKept /\ NeverPastTheEnd /\ TypedIsLostOnlyThen
=============================================================================
