----------------------------- MODULE ReconMatch -----------------------------
(***************************************************************************)
(* The matching inside RunReconciliationJob, without its database calls:   *)
(* which rows of a statement are paired with which app transactions, with  *)
(* what confidence, and which rows become new transactions.                *)
(*                                                                         *)
(* A row or an app transaction is a record [at, amount, type, desc, ref]:  *)
(* `at' counts ticks of a day, `desc' is the token set of the description. *)
(* Lists keep the order in which the code walks them.                      *)
(***************************************************************************)
EXTENDS Integers, Sequences, FiniteSets, SequencesExt

CONSTANTS
    DayTicks,   \* ticks in a day: how finely times of day are told apart
    Threshold,  \* users.reconciliation_threshold (70 unless changed)
    NoRef       \* an empty reference number

ASSUME DayTicksAssumption  == DayTicks \in Nat \ {0}
ASSUME ThresholdAssumption == Threshold \in 0 .. 100

NoDate == -1    \* MAX(transaction_date) of an account without transactions
NoTxn  == 0     \* bestMatch == nil

Dist(x, y) == IF x < y THEN y - x ELSE x - y
Day(x)     == x.at \div DayTicks
Key(x)     == <<x.amount, x.type, Day(x)>>

\* A finite set of positions in ascending order, and the rows at them: the
\* lists the code builds by walking another one from its start.
InOrder(S) == [k \in 1 .. Cardinality(S) |->
                  CHOOSE i \in S : Cardinality({x \in S : x <= i}) = k]
RowsAt(rows, S) == [k \in 1 .. Cardinality(S) |-> rows[InOrder(S)[k]]]

-----------------------------------------------------------------------------
(***************************************************************************)
(* scoreMatch.  Whole days between the two times; the difference of the    *)
(* amounts in percent of the statement's (0 percent when that is 0, and    *)
(* negative when that is negative); token overlap; equal references.       *)
(***************************************************************************)
DateScore(s, t) ==
    LET days == Dist(s.at, t.at) \div DayTicks
    IN  CASE days = 0 -> 40 [] days = 1 -> 30 [] days = 2 -> 20 [] OTHER -> 0

\* amountDiffPct <= pct, multiplied out by the statement's amount.
WithinPct(s, t, pct) ==
    LET diff == 100 * Dist(s.amount, t.amount)
    IN  \/ s.amount = 0
        \/ s.amount > 0 /\ diff <= pct * s.amount
        \/ s.amount < 0 /\ diff >= pct * s.amount

AmountScore(s, t) ==
    CASE s.amount = t.amount -> 35
      [] s.amount # t.amount /\ WithinPct(s, t, 1) -> 25
      [] s.amount # t.amount /\ ~WithinPct(s, t, 1) /\ WithinPct(s, t, 3) -> 15
      [] OTHER -> 0

DescriptionScore(s, t) ==
    LET both == Cardinality(s.desc \cap t.desc)
        any  == Cardinality(s.desc \cup t.desc)
    IN  CASE any = 0 -> 0
          [] any > 0 /\ 10 * both >= 7 * any -> 15
          [] any > 0 /\ 10 * both < 7 * any /\ 10 * both >= 5 * any -> 10
          [] any > 0 /\ 10 * both < 5 * any /\ 10 * both >= 3 * any -> 5
          [] OTHER -> 0

ReferenceScore(s, t) == IF s.ref # NoRef /\ s.ref = t.ref THEN 10 ELSE 0

\* Mutant of Score: the description alone weighs as much as an amount.
ScoreGenerous(s, t) ==
    DateScore(s, t) + AmountScore(s, t) + 3 * DescriptionScore(s, t)
                    + ReferenceScore(s, t)

Score(s, t) ==
    DateScore(s, t) + AmountScore(s, t) + DescriptionScore(s, t)
                    + ReferenceScore(s, t)

-----------------------------------------------------------------------------
(***************************************************************************)
(* The two indexes over the fetched app transactions.  dateMap keeps every *)
(* transaction of a day and type in order; exactMap keeps the last one of  *)
(* each amount, type and day.                                              *)
(***************************************************************************)
DateMap(apps, day, type) ==
    InOrder({i \in DOMAIN apps : Day(apps[i]) = day /\ apps[i].type = type})

ExactMap(apps) ==
    [k \in {Key(apps[i]) : i \in DOMAIN apps} |->
        SelectLastInSeq(apps, LAMBDA t : Key(t) = k)]

(***************************************************************************)
(* The loop over five days and their transactions; a tie keeps the first.  *)
(***************************************************************************)
NoneYet == [txn |-> NoTxn, score |-> 0]

\* Mutant of Better: an equal score replaces the earlier candidate.
BetterLast(s, apps, best, i) ==
    IF Score(s, apps[i]) >= best.score
    THEN [txn |-> i, score |-> Score(s, apps[i])]
    ELSE best

Better(s, apps, best, i) ==
    IF Score(s, apps[i]) > best.score
    THEN [txn |-> i, score |-> Score(s, apps[i])]
    ELSE best

OfDay(s, apps, best, d) ==
    FoldLeft(LAMBDA b, i : Better(s, apps, b, i), best, DateMap(apps, Day(s) + d, s.type))

\* Mutant of BestMatch: the window stops a day early.
BestMatchNarrow(s, apps) ==
    FoldLeft(LAMBDA b, d : OfDay(s, apps, b, d), NoneYet, <<-2, -1, 0, 1>>)

BestMatch(s, apps) ==
    FoldLeft(LAMBDA b, d : OfDay(s, apps, b, d), NoneYet, <<-2, -1, 0, 1, 2>>)

Found(txn, kind, score) == [txn |-> txn, kind |-> kind, score |-> score]

Scored(s, apps) ==
    LET best == BestMatch(s, apps)
    IN  CASE best.txn = NoTxn -> Found(NoTxn, "MISSING", 0)
          [] best.txn # NoTxn /\ best.score >= Threshold ->
                Found(best.txn, "HIGH", best.score)
          [] OTHER -> Found(best.txn, "LOW", best.score)

\* Mutant of MatchRow: delete(exactMap, exactKey) is missing.
MatchRowKeepsKey(apps, acc, s) ==
    IF Key(s) \in DOMAIN acc.exact
    THEN [acc EXCEPT !.results = Append(@, Found(acc.exact[Key(s)], "HIGH", 95))]
    ELSE [acc EXCEPT !.results = Append(@, Scored(s, apps))]

(***************************************************************************)
(* One turn of the loop over the overlap rows: an exact key takes its app  *)
(* transaction out of exactMap (not out of dateMap), any other row goes by *)
(* score.                                                                  *)
(***************************************************************************)
MatchRow(apps, acc, s) ==
    IF Key(s) \in DOMAIN acc.exact
    THEN [results |-> Append(acc.results, Found(acc.exact[Key(s)], "HIGH", 95)),
          exact   |-> [k \in DOMAIN acc.exact \ {Key(s)} |-> acc.exact[k]]]
    ELSE [acc EXCEPT !.results = Append(@, Scored(s, apps))]

-----------------------------------------------------------------------------
(***************************************************************************)
(* Rows later than every transaction of the account are the tail: they are *)
(* never matched, only created.                                            *)
(***************************************************************************)
InTail(s, latest)      == latest = NoDate \/ s.at > latest
OverlapRows(rows, latest) == RowsAt(rows, {i \in DOMAIN rows : ~InTail(rows[i], latest)})
TailRows(rows, latest)    == RowsAt(rows, {i \in DOMAIN rows : InTail(rows[i], latest)})

\* GetAppTransactionsInDateRange, two days around the whole statement.
InRange(t, rows) ==
    /\ \E i \in DOMAIN rows : t.at >= rows[i].at - 2 * DayTicks
    /\ \E i \in DOMAIN rows : t.at <= rows[i].at + 2 * DayTicks

MatchAll(overlap, apps) ==
    FoldLeft(LAMBDA acc, s : MatchRow(apps, acc, s),
             [results |-> <<>>, exact |-> ExactMap(apps)], overlap).results

(***************************************************************************)
(* The results of a statement, overlap rows first, and the rows it turns   *)
(* into transactions: the tail and the overlap rows nothing was found for. *)
(***************************************************************************)
Plan(rows, apps, latest) ==
    LET overlap == OverlapRows(rows, latest)
        tail    == TailRows(rows, latest)
        matched == MatchAll(overlap, apps)
    IN  [rows    |-> overlap \o tail,
         results |-> matched \o [i \in DOMAIN tail |-> Found(NoTxn, "MISSING", 100)]]

Creates(plan) == {i \in DOMAIN plan.rows : plan.results[i].kind = "MISSING"}
=============================================================================
