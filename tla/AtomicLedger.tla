---------------------------- MODULE AtomicLedger ----------------------------
(***************************************************************************)
(* What a ledger promises, and what BalanceUpdater keeps for the rows that *)
(* are still in `exact': a row and its share of the account's balance      *)
(* change together, in one step.  A create counts the row, a delete of any *)
(* number of rows takes all of them back at once, and nothing else moves   *)
(* the share of a row.  A row may leave `exact' for good: from then on     *)
(* nothing is promised of it, and its share is no longer followed.         *)
(***************************************************************************)
EXTENDS Integers

CONSTANTS Txns, Effects

VARIABLES
    cell,       \* per row: absent, live or deleted
    amt,        \* per row: what it should count for while it is live
    counted,    \* per row: what it counts for (0 once it has left exact)
    exact       \* the rows the promise still covers

vars == <<cell, amt, counted, exact>>

Init ==
    /\ cell = [t \in Txns |-> "absent"]
    /\ amt = [t \in Txns |-> 0]
    /\ counted = [t \in Txns |-> 0]
    /\ exact = Txns

Create(t, e) ==
    /\ cell[t] = "absent"
    /\ cell' = [cell EXCEPT ![t] = "live"]
    /\ amt' = [amt EXCEPT ![t] = e]
    /\ counted' = [counted EXCEPT ![t] = IF t \in exact THEN e ELSE 0]
    /\ UNCHANGED exact

Delete(T) ==
    /\ \A t \in T : cell[t] # "absent"
    /\ cell' = [t \in Txns |-> IF t \in T THEN "deleted" ELSE cell[t]]
    /\ counted' = [t \in Txns |-> IF t \in T THEN 0 ELSE counted[t]]
    /\ UNCHANGED <<amt, exact>>

\* Rows leave the promise.
Drift(S) ==
    /\ exact' = exact \ S
    /\ counted' = [t \in Txns |-> IF t \in S THEN 0 ELSE counted[t]]
    /\ UNCHANGED <<cell, amt>>

\* A row's amount changes: harmless while it does not count, otherwise the
\* row leaves the promise.
Edit(t, e) ==
    /\ cell[t] # "absent"
    /\ amt' = [amt EXCEPT ![t] = e]
    /\ \/ /\ cell[t] = "deleted" \/ e = amt[t] \/ t \notin exact
          /\ UNCHANGED <<counted, exact>>
       \/ /\ exact' = exact \ {t}
          /\ counted' = [counted EXCEPT ![t] = 0]
    /\ UNCHANGED cell

Next ==
    \/ \E t \in Txns, e \in Effects : Create(t, e) \/ Edit(t, e)
    \/ \E T \in SUBSET Txns : Delete(T) \/ Drift(T)

Spec == Init /\ [][Next]_vars
=============================================================================
