----------------------------- MODULE Dashboard -----------------------------
(* The dashboard page and the endpoint behind it.  The server runs the        *)
(* queries of the cards in parallel, each on a connection of its own, so a    *)
(* request may read the ledger at as many moments as it has queries; the page *)
(* keeps a range of days, saves it, and shows the figures of that range.      *)
(* Days are numbered, a moment is twice its day, and one more after midnight. *)
EXTENDS Integers, FiniteSetsExt, Sums

CONSTANTS
    Books,          \* transactions that may be in the ledger: [at, type,
                    \* category, closed, amount]
    Today, DaysPerMonth,
    MonthlyBudget,
    Presets,        \* [preset -> months], without "custom"
    FirstPreset,    \* the preset of a page just opened
    NoCategory, NoPeriod, NoAnswer,
    Ticks,          \* ticks of an animated count: 60 in the code
    MaxMoves        \* bound: ranges picked, times the page is opened anew,
                    \* transactions posted or deleted meanwhile

ASSUME DashboardAssumption ==
    /\ Today \in Nat \ {0} /\ DaysPerMonth \in Nat \ {0} /\ Ticks \in Nat \ {0}
    /\ FirstPreset \in DOMAIN Presets /\ "custom" \notin DOMAIN Presets
    /\ \A id \in DOMAIN Presets : Presets[id] \in Nat \ {0}
    /\ IsFiniteSet(Books) /\ \A t \in Books : {t.at, t.amount} \subseteq Int
    /\ MonthlyBudget \in Int /\ MaxMoves \in Nat

VARIABLES
    booked,     \* transactions in the ledger
    moves,      \* what happened to ledger and filter
    period,     \* the days from and to
    preset,     \* the preset lit, or "custom"
    savedPeriod,\* the range in localStorage, or NoPeriod
    storage,    \* does localStorage take what is saved?
    chosenHere, \* was a range picked since the page was opened?
    clerk,      \* is the session known yet?
    requests,   \* in flight: [for, seen], seen the ledgers since it was sent
    answers,    \* the query cache: [key -> answer]
    expense     \* the animated total: [target, value, timers]

filterVars == <<period, preset, savedPeriod, storage, chosenHere>>
cardVars == <<clerk, requests, answers, expense>>
dashVars == <<booked, moves, filterVars, cardVars>>

Month(day) == (day - 1) \div DaysPerMonth
Round(a, b) == (200 * a + b) \div (2 * b)      \* Math.round of a percentage
Amount == [t \in Books |-> t.amount]
-----------------------------------------------------------------------------
(* The queries: what one of them reads in ledger L for period p.              *)
InPeriod(L, p) == {t \in L : 2 * p[1] <= t.at /\ t.at <= 2 * p[2]}
Spending(L, p) == {t \in InPeriod(L, p) : t.type \in {"DEBIT", "SUBSCRIPTION"}}
Income(L, p) ==
    {t \in InPeriod(L, p) : t.type \in {"CREDIT", "INCOME", "REFUND"}}
MonthsOf(S) == {Month(t.at \div 2) : t \in S}

(* Running sums by month, over the transactions of the period alone.          *)
Flow == [t \in Books |->
            IF t.type \in {"DEBIT", "SUBSCRIPTION"} THEN -t.amount ELSE t.amount]
GetNetWorthTrend(L, p) ==
    [m \in MonthsOf(InPeriod(L, p)) |->
        SumOf(Flow, {t \in InPeriod(L, p) : Month(t.at \div 2) <= m})]

GetSpendByCategory(L, p) ==
    [c \in {t.category : t \in Spending(L, p)} \ {NoCategory} |->
        SumOf(Amount, {t \in Spending(L, p) : t.category = c})]

GetBudgetHealth(L, p) ==
    [spent |-> SumOf(Amount, Spending(L, p)),
     scaled |-> MonthlyBudget * Max({1, Cardinality(MonthsOf(Spending(L, p)))})]

GetAccountBalances(L, p) ==
    [income |-> SumOf(Amount, {t \in Income(L, p) : ~t.closed}),
     expense |-> SumOf(Amount, {t \in Spending(L, p) : ~t.closed})]

(* Four queries, four readings: the ledgers seen are those there were between *)
(* the request and its answer.  calm records that there was one only.         *)
GetDashboard(p, seen) ==
    {[for |-> p, calm |-> Cardinality(seen) = 1, booked |-> L1,
      trend |-> GetNetWorthTrend(L1, p), categories |-> GetSpendByCategory(L2, p),
      budget |-> GetBudgetHealth(L3, p), flow |-> GetAccountBalances(L4, p)] :
        L1 \in seen, L2 \in seen, L3 \in seen, L4 \in seen}
-----------------------------------------------------------------------------
(* The page.  The last day a preset covers may be yet to come.                *)
presetDates(months) ==
    LET last == DaysPerMonth * (Month(Today) + 1) IN
    <<Max({1, last - DaysPerMonth * months + 1}), last>>

AnyKey(p) == <<0, 0>>
queryKey(p) == p
Figures ==
    IF queryKey(period) \in DOMAIN answers THEN answers[queryKey(period)]
    ELSE NoAnswer
totalExpense == IF Figures = NoAnswer THEN 0 ELSE Figures.flow.expense

(* What the categories and the budget card make of an answer.                 *)
categories(x) ==
    LET total == SumOf(x.categories, DOMAIN x.categories) IN
    [c \in DOMAIN x.categories |->
        IF total > 0 THEN Round(x.categories[c], total) ELSE 0]

BudgetHealthCard(b) ==
    LET pct == IF b.scaled > 0 THEN Min({Round(b.spent, b.scaled), 100}) ELSE 0
    IN [isOver |-> b.spent > b.scaled, exceeded |-> pct > 85 /\ pct >= 100]

(* The count starts anew from zero whenever its target changes: the timer of  *)
(* the old target is cleared, one for the new is set.                         *)
useAnimatedCount(to) ==
    expense' = IF to = expense.target THEN expense
               ELSE [target |-> to, value |-> 0,
                     timers |-> {[target |-> to, ticks |-> 0]}]
JustMounted == [target |-> 0, value |-> 0, timers |-> {[target |-> 0, ticks |-> 0]}]

Tick ==
    \E t \in expense.timers :
        LET k == t.ticks + 1
            done == t.target * k >= t.target * Ticks IN
        /\ expense' =
            [expense EXCEPT
                !.value = IF done THEN t.target ELSE (t.target * k) \div Ticks,
                !.timers = (@ \ {t}) \cup (IF done THEN {}
                                           ELSE {[t EXCEPT !.ticks = k]})]
        /\ UNCHANGED <<booked, moves, filterVars, clerk, requests, answers>>

(* An observer of a key asks for what the cache does not hold.                *)
Ask(p, sent, held) ==
    IF clerk' /\ queryKey(p) \notin DOMAIN held
             /\ ~\E r \in sent : queryKey(r.for) = queryKey(p)
    THEN sent \cup {[for |-> p, seen |-> {booked}]}
    ELSE sent

DashInit ==
    /\ booked \in SUBSET Books /\ moves = 0
    /\ period = presetDates(Presets[FirstPreset]) /\ preset = FirstPreset
    /\ savedPeriod = NoPeriod /\ storage \in BOOLEAN
    /\ chosenHere = FALSE
    /\ clerk = FALSE /\ requests = {} /\ answers = <<>>
    /\ expense = JustMounted

Moved == moves < MaxMoves /\ moves' = moves + 1

ClerkLoads ==
    /\ ~clerk /\ clerk' = TRUE
    /\ requests' = Ask(period, requests, answers)
    /\ UNCHANGED <<booked, moves, filterVars, answers, expense>>

applyRange(p, id) ==
    /\ period' = p /\ preset' = id
    /\ savedPeriod' = IF storage THEN p ELSE savedPeriod

(* What follows from a change of range: the other figures, or none, at once.  *)
Picked ==
    /\ Moved /\ chosenHere' = TRUE
    /\ UNCHANGED <<booked, storage, clerk, answers>>
    /\ requests' = IF queryKey(period') = queryKey(period) THEN requests
                   ELSE Ask(period', requests, answers)
    /\ useAnimatedCount(totalExpense')

handlePickerChange(p) == applyRange(p, "custom")
applyPreset(id) == applyRange(presetDates(Presets[id]), id)

(* One click of the calendar always yields a from and a to, or, on a range of *)
(* that one day, nothing: the handler's case of a from alone is never met.    *)
Clicked(d) ==
    CASE d \in {period[1], period[2]} -> <<d, d>>
      [] d < period[1] -> <<d, period[2]>>
      [] OTHER -> <<period[1], d>>

PickPreset == \E id \in DOMAIN Presets : applyPreset(id) /\ Picked
PickDay ==
    \E d \in 1..Today :
        /\ period # <<d, d>>
        /\ handlePickerChange(Clicked(d)) /\ Picked

(* Left and entered again, or, with the cache lost, reloaded: the range is    *)
(* read back from localStorage, the preset is the first whatever the range.   *)
Reopen(reload) ==
    /\ Moved
    /\ period' = IF savedPeriod = NoPeriod THEN presetDates(Presets[FirstPreset])
                 ELSE savedPeriod
    /\ preset' = FirstPreset /\ chosenHere' = FALSE
    /\ answers' = IF reload THEN <<>> ELSE answers
    /\ clerk' = (clerk /\ ~reload)
    /\ requests' = Ask(period', IF reload THEN {} ELSE requests, answers')
    /\ expense' = [target |-> totalExpense', value |-> 0,
                   timers |-> {[target |-> totalExpense', ticks |-> 0]}]
    /\ UNCHANGED <<booked, savedPeriod, storage>>

Answered ==
    \E r \in requests : \E x \in GetDashboard(r.for, r.seen) :
        LET k == queryKey(r.for) IN
        /\ requests' = requests \ {r}
        /\ answers' = [j \in DOMAIN answers \cup {k} |->
                          IF j = k THEN x ELSE answers[j]]
        /\ UNCHANGED <<booked, moves, filterVars, clerk>>
        /\ useAnimatedCount(totalExpense')

(* One query that fails fails them all, and nothing asks again by itself.     *)
AskFails ==
    \E r \in requests :
        /\ requests' = requests \ {r}
        /\ UNCHANGED <<booked, moves, filterVars, clerk, answers, expense>>

(* The rest of the program posts and deletes transactions meanwhile.          *)
Posting ==
    /\ Moved
    /\ \E t \in Books :
        booked' = IF t \in booked THEN booked \ {t} ELSE booked \cup {t}
    /\ requests' = {[r EXCEPT !.seen = @ \cup {booked'}] : r \in requests}
    /\ UNCHANGED <<filterVars, clerk, answers, expense>>

DashNext ==
    \/ ClerkLoads \/ PickPreset \/ PickDay \/ \E reload \in BOOLEAN : Reopen(reload)
    \/ Answered \/ AskFails \/ Posting \/ Tick

DashSpec == DashInit /\ [][DashNext]_dashVars
-----------------------------------------------------------------------------
(* The state has its type.                                                    *)
DashTypeOK ==
    /\ booked \subseteq Books /\ moves \in 0..MaxMoves
    /\ period[1] \in Nat /\ period[2] \in Nat /\ period[1] <= period[2]
    /\ preset \in DOMAIN Presets \cup {"custom"}
    /\ \A r \in requests : r.seen # {} /\ r.seen \subseteq SUBSET Books
    /\ expense.value \in Int /\ Cardinality(expense.timers) <= 1

(* The figures shown are of the range shown, whatever answers come late and   *)
(* in whatever order: none is shown under another range.                      *)
FiguresOfThePeriod == Figures # NoAnswer => Figures.for = period

(* The cards of one answer agree when the ledger was left alone meanwhile:    *)
(* what is spent is the sum of the categories and of what has none, the       *)
(* expense of open and of closed accounts; the trend ends where the flows of  *)
(* the period bring it.                                                       *)
CardsAgree ==
    \A k \in DOMAIN answers :
        LET x == answers[k]
            S == Spending(x.booked, x.for) IN
        x.calm =>
            /\ x.budget.spent
                 = SumOf(x.categories, DOMAIN x.categories)
                   + SumOf(Amount, {t \in S : t.category = NoCategory})
            /\ x.budget.spent = x.flow.expense + SumOf(Amount, {t \in S : t.closed})
            /\ x.trend # <<>> =>
                 x.trend[Max(DOMAIN x.trend)]
                   = SumOf(Flow, InPeriod(x.booked, x.for))

(* The shares of the categories make up the whole, to the half percent each   *)
(* is rounded by, also when some spending has no category; of nothing there   *)
(* are no shares.                                                             *)
SharesMakeTheWhole ==
    \A k \in DOMAIN answers :
        LET x == answers[k]
            pct == categories(x)
            sum == SumOf(pct, DOMAIN pct)
            n == Cardinality(DOMAIN pct) IN
        IF SumOf(x.categories, DOMAIN x.categories) > 0
        THEN 2 * sum \in (200 - n)..(200 + n) ELSE sum = 0

(* A budget that is overspent is said to be exceeded.                         *)
OverspentIsSaid ==
    \A k \in DOMAIN answers :
        LET card == BudgetHealthCard(answers[k].budget) IN
        answers[k].budget.scaled > 0 /\ card.isOver => card.exceeded

(* Once a count has stopped it stands at the total of the figures shown: a    *)
(* range picked while it still ran does not leave the other's total behind.   *)
CountEndsAtTheTotal == expense.timers = {} => expense.value = totalExpense

(* After a pick, the preset lit names the range, and a reload would find it.  *)
PickIsKept ==
    chosenHere =>
        /\ preset # "custom" => period = presetDates(Presets[preset])
        /\ storage => savedPeriod = period

(* The figures on the dashboard are one period's, add up, and stand where     *)
(* they are once nothing moves.                                               *)
DashSafe ==
    /\ DashTypeOK /\ FiguresOfThePeriod /\ CardsAgree /\ SharesMakeTheWhole
    /\ OverspentIsSaid /\ CountEndsAtTheTotal /\ PickIsKept
=============================================================================
