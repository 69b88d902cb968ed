----------------------------- MODULE Investment -----------------------------
(***************************************************************************)
(* Investment goals, rules (goal_investments) and links of transactions to *)
(* them (goal_transactions): the user's requests and the auto-link job,    *)
(* each in a READ COMMITTED transaction of its own (domain/investment).    *)
(***************************************************************************)
EXTENDS Integers, FiniteSets, Sums

CONSTANTS
    Goals, Rules,   \* ids of goals and of goal_investments
    Txns,           \* the user's transactions
    Amount,         \* Amount[t]: what a link of transaction t is worth
    Best,           \* Best[t]: the SIP rule that scores best for t, or NoRule
    NoRule, NoGoal,
    Writers,        \* link requests and job items under way at once
    Opening,        \* current_value a user may type in
    MaxLinks,       \* bound: links ever made
    MaxAsks         \* bound: times a transaction is put in an auto-link job

ASSUME InvestmentAssumption ==
    /\ Amount \in [Txns -> Nat] /\ Best \in [Txns -> Rules \cup {NoRule}]
    /\ NoRule \notin Rules /\ NoGoal \notin Goals
    /\ Opening \subseteq Nat /\ MaxLinks \in Nat /\ MaxAsks \in Nat

VARIABLES
    goals,      \* goals there are
    rules,      \* rules there are
    goalOf,     \* the goal of a rule, NoGoal when it stands alone
    current,    \* current_value of a rule
    links,      \* committed links: [id, rule, goal, txn, source]
    made,       \* links made so far
    writer,     \* the transaction of a writer: its rule, txn, source and sum
    asked,      \* how often a transaction was put in a job
    waiting,    \* how many of those the worker has not come to
    drifted     \* history: rules whose value was left behind or typed in

invVars == <<goals, rules, goalOf, current, links, made, writer, asked,
             waiting, drifted>>

Idle == [rule |-> NoRule]

InvInit ==
    /\ goals = {} /\ rules = {} /\ links = {} /\ made = 0
    /\ goalOf = [r \in Rules |-> NoGoal]
    /\ current = [r \in Rules |-> 0]
    /\ writer = [w \in Writers |-> Idle]
    /\ asked = [t \in Txns |-> 0] /\ waiting = [t \in Txns |-> 0]
    /\ drifted = {}

\* SumGoalTransactionsByInvestment.
LinksOf(r, ls) == {l \in ls : l.rule = r}

Total(r, ls) == SumOf([l \in LinksOf(r, ls) |-> Amount[l.txn]], LinksOf(r, ls))

\* A row an open transaction refers to cannot be deleted before it ends.
Held(r) == \E w \in Writers : writer[w].rule = r

\* The rows that are in, and not committed yet.
Uncommitted == {writer[w].link : w \in {v \in Writers : writer[v] # Idle}}
-----------------------------------------------------------------------------
CreateGoal(g) ==
    /\ g \notin goals /\ goals' = goals \cup {g}
    /\ UNCHANGED <<rules, goalOf, current, links, made, writer, asked, waiting,
                   drifted>>

\* The foreign keys cascade: the goal's rules and their links go with it.
DeleteGoal(g) ==
    LET gone == {r \in rules : goalOf[r] = g}
    IN  /\ g \in goals /\ \A r \in gone : ~Held(r)
        /\ goals' = goals \ {g}
        /\ rules' = rules \ gone
        /\ links' = {l \in links : l.goal # g}
        /\ UNCHANGED <<goalOf, current, made, writer, asked, waiting, drifted>>

\* current_value may be typed in, and no link stands for it.
CreateGoalInvestment(r, g, v) ==
    /\ r \notin rules /\ g \in goals \cup {NoGoal}
    /\ rules' = rules \cup {r}
    /\ goalOf' = [goalOf EXCEPT ![r] = g]
    /\ current' = [current EXCEPT ![r] = v]
    /\ drifted' = IF v = 0 THEN drifted \ {r} ELSE drifted \cup {r}
    /\ UNCHANGED <<goals, links, made, writer, asked, waiting>>

UpdateGoalInvestment(r, v) ==
    /\ r \in rules
    /\ current' = [current EXCEPT ![r] = v]
    /\ drifted' = IF v = Total(r, links) THEN drifted \ {r}
                  ELSE drifted \cup {r}
    /\ UNCHANGED <<goals, rules, goalOf, links, made, writer, asked, waiting>>

\* goal_transactions.investment_id does not cascade.
DeleteGoalInvestment(r) ==
    /\ r \in rules /\ ~Held(r) /\ \A l \in links : l.rule # r
    /\ rules' = rules \ {r}
    /\ UNCHANGED <<goals, goalOf, current, links, made, writer, asked, waiting,
                   drifted>>
\* Mutant: the sum is taken before the row is there.
InsertSumsBefore(w, r, t, source) ==
    /\ writer[w] = Idle /\ r \in rules /\ goalOf[r] # NoGoal
    /\ made < MaxLinks /\ made' = made + 1
    /\ writer' = [writer EXCEPT ![w] =
                    [rule |-> r, sum |-> Total(r, links), stale |-> FALSE,
                     link |-> [id |-> made', rule |-> r, goal |-> goalOf[r],
                               txn |-> t, source |-> source]]]

\* The first half of a link: the row (goal_id is NOT NULL, so a rule that stands
\* alone has its links refused) and the sum of what is committed by now.
Insert(w, r, t, source) ==
    /\ writer[w] = Idle /\ r \in rules /\ goalOf[r] # NoGoal
    /\ made < MaxLinks /\ made' = made + 1
    /\ LET link == [id |-> made', rule |-> r, goal |-> goalOf[r], txn |-> t,
                    source |-> source]
       IN  writer' = [writer EXCEPT ![w] =
                        [rule |-> r, link |-> link,
                         sum |-> Total(r, links \cup {link}), stale |-> FALSE]]

\* A commit or an unlink makes the sums that others hold for the rule old.
Overtake(r) ==
    [w \in Writers |-> IF writer[w].rule = r
                       THEN [writer[w] EXCEPT !.stale = TRUE] ELSE writer[w]]

LinkTransaction(w, r, t) ==
    /\ Insert(w, r, t, "manual")
    /\ UNCHANGED <<goals, rules, goalOf, current, links, asked, waiting,
                   drifted>>

\* The second half: the value is set to that sum, and the row commits.
Commit(w) ==
    LET r == writer[w].rule
    IN  /\ writer[w] # Idle
        /\ links' = links \cup {writer[w].link}
        /\ current' = [current EXCEPT ![r] = writer[w].sum]
        /\ drifted' = IF writer[w].stale THEN drifted \cup {r}
                      ELSE drifted \ {r}
        /\ writer' = [Overtake(r) EXCEPT ![w] = Idle]
        /\ UNCHANGED <<goals, rules, goalOf, made, asked, waiting>>

Rollback(w) ==
    /\ writer[w] # Idle
    /\ writer' = [writer EXCEPT ![w] = Idle]
    /\ UNCHANGED <<goals, rules, goalOf, current, links, made, asked, waiting,
                   drifted>>

\* The links are looked up by investment with the id of a link: there are none,
\* so the value is never set again.
UnlinkTransaction(l) ==
    /\ links' = links \ {l}
    /\ drifted' = drifted \cup {l.rule}
    /\ writer' = Overtake(l.rule)
    /\ UNCHANGED <<goals, rules, goalOf, current, made, asked, waiting>>
-----------------------------------------------------------------------------
(* The auto-link job *)

\* By CreateTxn, by the button, or by Lambda that delivers the job again.
EnqueueAutoLink(t) ==
    /\ asked[t] < MaxAsks
    /\ asked' = [asked EXCEPT ![t] = @ + 1]
    /\ waiting' = [waiting EXCEPT ![t] = @ + 1]
    /\ UNCHANGED <<goals, rules, goalOf, current, links, made, writer, drifted>>

\* matchAndLink on one transaction: unmatched, refused, or linked.
MatchAndLink(w, t) ==
    /\ waiting[t] > 0
    /\ waiting' = [waiting EXCEPT ![t] = @ - 1]
    /\ \/ Insert(w, Best[t], t, "auto_sip")
       \/ UNCHANGED <<made, writer>>
    /\ UNCHANGED <<goals, rules, goalOf, current, links, asked, drifted>>
-----------------------------------------------------------------------------
InvNext ==
    \/ \E g \in Goals : CreateGoal(g) \/ DeleteGoal(g)
    \/ \E r \in Rules :
          \/ \E g \in Goals \cup {NoGoal}, v \in Opening :
                CreateGoalInvestment(r, g, v)
          \/ \E v \in Opening : UpdateGoalInvestment(r, v)
          \/ DeleteGoalInvestment(r)
    \/ \E w \in Writers :
          \/ \E r \in Rules, t \in Txns : LinkTransaction(w, r, t)
          \/ \E t \in Txns : MatchAndLink(w, t)
          \/ Commit(w) \/ Rollback(w)
    \/ \E l \in links : UnlinkTransaction(l)
    \/ \E t \in Txns : EnqueueAutoLink(t)

InvSpec == InvInit /\ [][InvNext]_invVars
-----------------------------------------------------------------------------
(* Properties *)

Link == [id : 1..MaxLinks, rule : Rules, goal : Goals, txn : Txns,
         source : {"manual", "auto_sip"}]

InvTypeOK ==
    /\ goals \subseteq Goals /\ rules \subseteq Rules
    /\ goalOf \in [Rules -> Goals \cup {NoGoal}]
    /\ current \in [Rules -> Nat]
    /\ links \subseteq Link /\ made \in 0..MaxLinks
    /\ writer \in [Writers -> {Idle} \cup
                     [rule : Rules, link : Link, sum : Nat, stale : BOOLEAN]]
    /\ asked \in [Txns -> 0..MaxAsks] /\ waiting \in [Txns -> 0..MaxAsks]
    /\ drifted \subseteq Rules

\* A rule's current_value is the sum of its links, except after one of the
\* three things the code lets through: a value typed in, a transaction
\* unlinked, or two writers that summed before either committed. The next link
\* that nobody overtakes puts it right (LinkTransaction, UnlinkTransaction).
CurrentIsLinks ==
    \A r \in rules \ drifted : current[r] = Total(r, links)

\* No link outlives its rule or its goal, and a link's goal is its rule's, with
\* deletions that cascade between the two halves of a link.
NoOrphans ==
    \A l \in links \cup Uncommitted :
        l.rule \in rules /\ l.goal \in goals /\ goalOf[l.rule] = l.goal

\* The job links a transaction once for each time it was asked to, never more:
\* what it was asked twice, by a retry or a redelivery, it links twice.
AutoLinkedPerAsk ==
    \A t \in Txns :
        Cardinality({l \in links : l.txn = t /\ l.source = "auto_sip"})
            <= asked[t] - waiting[t]

\* Goals, rules, links and the sums kept of them agree, through overlapping
\* writers, repeated jobs and deletes that cascade.
InvestmentSafe == InvTypeOK /\ CurrentIsLinks /\ NoOrphans /\ AutoLinkedPerAsk
=============================================================================
