---------------------------- MODULE MCReconMatch ----------------------------
(***************************************************************************)
(* ReconMatch over every short statement and every short list of app       *)
(* transactions drawn from a few items, compared with what the matching is *)
(* meant to find.                                                          *)
(***************************************************************************)
EXTENDS ReconMatch

CONSTANT Grids  \* sets of items, a bound on the two lists drawn from each, and
                \* the few items an app transaction outside the query may be

ASSUME GridsAssumption ==
    \A g \in Grids :
        /\ g.len \in Nat /\ g.far \subseteq g.items
        /\ \A x \in g.items : x.at \in Nat /\ x.amount \in Int

ItemsOf(times, amounts, types, descs, refs) ==
    [at : times, amount : amounts, type : types, desc : descs, ref : refs]

\* Two rows and two transactions: half days on both sides of every edge of the
\* window, so that they compete for each other.
Pairs == [items |-> ItemsOf({1, 2, 5, 6}, {100, 103}, {"DEBIT"}, {{}, {"shop"}}, {NoRef}),
          len   |-> 2,
          far   |-> ItemsOf({1, 5, 6}, {100}, {"DEBIT"}, {{}}, {NoRef})]

\* One of each, over every class of every score.
Scores == [items |-> ItemsOf({0, 3, 5}, {0, 100, 101, 103, 110}, {"DEBIT", "CREDIT"},
                           {{}, {"shop"}, {"shop", "one"}}, {NoRef, "UTR1"}),
           len   |-> 1,
           far   |-> ItemsOf({0, 5}, {100}, {"DEBIT"}, {{}}, {NoRef})]

PairsAndScores == {Pairs, Scores}

VARIABLES
    statement,  \* the rows of the upload
    fetched,    \* the unverified app transactions the query returns
    outside,    \* the account's other unverified ones
    newest,     \* the account's latest transaction
    pairing     \* what the run makes of them
matchVars == <<statement, fetched, outside, newest, pairing>>

NoPairing == [rows |-> <<>>, results |-> <<>>]

(***************************************************************************)
(* Rows come ORDER BY transaction_date, app transactions in any order; the *)
(* account's latest transaction may be one that was not fetched (verified  *)
(* already, or cash).                                                      *)
(***************************************************************************)
MatchInit ==
    \E g \in Grids :
        /\ statement \in SeqOf(g.items, g.len) \ {<<>>}
        /\ \A i, j \in DOMAIN statement : i < j => statement[i].at <= statement[j].at
        /\ fetched \in SeqOf(g.items, g.len)
        /\ \A i \in DOMAIN fetched : InRange(fetched[i], statement)
        /\ outside \in SeqOf(g.far, 1)
        /\ \A i \in DOMAIN outside : ~InRange(outside[i], statement)
        /\ newest \in {i.at : i \in g.items} \cup {NoDate}
        /\ \A i \in DOMAIN fetched : fetched[i].at <= newest
        /\ \A i \in DOMAIN outside : outside[i].at <= newest
        /\ pairing = NoPairing

Match ==
    /\ pairing = NoPairing
    /\ pairing' = Plan(statement, fetched, newest)
    /\ UNCHANGED <<statement, fetched, outside, newest>>

MatchSpec == MatchInit /\ [][Match]_matchVars
-----------------------------------------------------------------------------
Rows      == DOMAIN pairing.rows
Row(i)    == pairing.rows[i]
Res(i)    == pairing.results[i]
Match4(i) == fetched[Res(i).txn]
OverlapAt == {i \in Rows : ~InTail(Row(i), newest)}

Candidates(s) == {i \in DOMAIN fetched : /\ fetched[i].type = s.type
                                         /\ Dist(Day(fetched[i]), Day(s)) <= 2}

\* A transaction of the row's type, at most 48 hours away from it.
Around(s, t) == t.type = s.type /\ Dist(t.at, s.at) <= 2 * DayTicks

\* Day by day, then in list order.
Before(i, j) == \/ Day(fetched[i]) < Day(fetched[j])
                \/ Day(fetched[i]) = Day(fetched[j]) /\ i < j

\* The transactions with the amount, type and day of a row; the first row of
\* the statement to ask for them gets one, without regard to anything else.
SameKey(s)     == {k \in DOMAIN fetched : Key(fetched[k]) = Key(s)}
FirstOfKey(i)  == ~\E j \in OverlapAt : j < i /\ Key(Row(j)) = Key(Row(i))

\* What the row should get: the reference the loops are compared with.
Reference(i) ==
    LET s    == Row(i)
        best == {k \in Candidates(s) : \A j \in Candidates(s) \ {k} :
                     \/ Score(s, fetched[k]) > Score(s, fetched[j])
                     \/ Score(s, fetched[k]) = Score(s, fetched[j]) /\ Before(k, j)}
    IN  CASE SameKey(s) # {} /\ FirstOfKey(i) ->
                [txn |-> CHOOSE k \in SameKey(s) : \A j \in SameKey(s) : j <= k,
                 kind |-> "HIGH", score |-> 95]
          [] ~(SameKey(s) # {} /\ FirstOfKey(i)) /\ best = {} ->
                [txn |-> NoTxn, kind |-> "MISSING", score |-> 0]
          [] OTHER -> LET k == CHOOSE k \in best : TRUE
                      IN  [txn |-> k, score |-> Score(s, fetched[k]),
                           kind |-> IF Score(s, fetched[k]) >= Threshold
                                    THEN "HIGH" ELSE "LOW"]

(***************************************************************************)
(* The indexes and the nested loops find, for every overlap row, what the  *)
(* definition of a best match says: the last transaction of its key, once  *)
(* per key, or the first of the highest score in the five days around it.  *)
(***************************************************************************)
AgreesWithReference == \A i \in OverlapAt : Res(i) = Reference(i)

(***************************************************************************)
(* An exact match is spent on the first row of its key: a second identical *)
(* row may be paired with the same transaction, but only at the confidence *)
(* its score gives it.                                                     *)
(***************************************************************************)
ExactIsSpent ==
    \A i, j \in OverlapAt : i < j /\ Key(Row(i)) = Key(Row(j)) =>
        Res(j).score = IF Res(j).txn = NoTxn THEN 0 ELSE Score(Row(j), Match4(j))

(***************************************************************************)
(* At the default threshold the weights leave no way to auto-accept a row  *)
(* of a positive amount with a transaction more than 3 percent away: date, *)
(* description and reference alone stay below it.                          *)
(***************************************************************************)
AutoAcceptNeedsAmount ==
    \A i \in OverlapAt : Res(i).kind = "HIGH" /\ Row(i).amount > 0 =>
        100 * Dist(Row(i).amount, Match4(i).amount) <= 3 * Row(i).amount

(***************************************************************************)
(* A row of the overlap becomes a new transaction only if none of the      *)
(* account's unverified transactions of its type, fetched or not, is       *)
(* within 48 hours of it, and none of those fetched within two calendar    *)
(* days.  Two calendar days is not promised of the others: the query cuts  *)
(* at 48 hours around the first and the last row, with the time of day, so *)
(* a purchase on the morning two days before the first row's afternoon is  *)
(* not seen.                                                               *)
(***************************************************************************)
CreatedOnlyIfAlone ==
    \A i \in Creates(pairing) \cap OverlapAt :
        /\ Candidates(Row(i)) = {}
        /\ \A j \in DOMAIN fetched : ~Around(Row(i), fetched[j])
        /\ \A j \in DOMAIN outside : ~Around(Row(i), outside[j])

(***************************************************************************)
(* What is decided without the user rests on the transactions near a row   *)
(* and on its amount: it is created only when none of its type is within   *)
(* 48 hours (or fetched and within two calendar days), and a match is      *)
(* accepted only when the amount fits.                                     *)
(***************************************************************************)
DecidedOnAmounts == CreatedOnlyIfAlone /\ AutoAcceptNeedsAmount
=============================================================================
