------------------------------ MODULE ConnPool ------------------------------
(* The connections of one process and the requests that share them           *)
(* (TxManager.WithTx over a pgxpool.Pool).  A statement outside a transaction *)
(* takes a connection and gives it back; a transaction keeps one from BEGIN   *)
(* to its end, and asks the same pool for a second one each time              *)
(* BalanceUpdater, whose queries are the pool's, posts to a total.            *)
EXTENDS Integers, FiniteSets

CONSTANTS
    Handlers,   \* goroutines that serve a request
    MaxConns    \* connections of the pool

ASSUME PoolAssumption == IsFiniteSet(Handlers) /\ MaxConns \in Nat \ {0}

VARIABLES
    at,         \* by handler: where its request is, "away" without one
    free        \* connections nobody has

poolVars == <<at, free>>

PoolInit == at = [h \in Handlers |-> "away"] /\ free = MaxConns

Go(h, from, to) == at[h] = from /\ at' = [at EXCEPT ![h] = to]
Take == free > 0 /\ free' = free - 1
Give == free' = free + 1

Request(h) == Go(h, "away", "want") /\ UNCHANGED free

\* A statement of the middleware or of a handler that needs no transaction.
Query(h) == Go(h, "want", "plain") /\ Take
QueryDone(h) == (Go(h, "plain", "want") \/ Go(h, "plain", "away")) /\ Give

BeginTx(h) == Go(h, "want", "open") /\ Take

\* BalanceUpdater: each of its statements acquires a connection of its own and
\* gives it back, failed or not, while the transaction's stays where it is.
Apply(h) == Go(h, "open", "ask") /\ UNCHANGED free
Posting(h) == Go(h, "ask", "post") /\ Take
Posted(h) == Go(h, "post", "open") /\ Give

\* Mutant: an error of the handler's function returns before the rollback.
EndTxWithoutRollback(h) == Go(h, "open", "away") /\ (Give \/ UNCHANGED free)

\* Commit or Rollback: the transaction gives its connection back.
EndTx(h) == Go(h, "open", "away") /\ Give

\* The request's context ends while it waits: Acquire returns an error, with
\* which a transaction is rolled back.
GiveUp(h) ==
    /\ Go(h, "want", "away") \/ Go(h, "ask", "open")
    /\ UNCHANGED free

PoolNext ==
    \E h \in Handlers :
        \/ Request(h) \/ Query(h) \/ QueryDone(h) \/ BeginTx(h)
        \/ Apply(h) \/ Posting(h) \/ Posted(h) \/ EndTx(h) \/ GiveUp(h)

PoolSpec == PoolInit /\ [][PoolNext]_poolVars
-----------------------------------------------------------------------------
(* Properties *)

Holding == {"plain", "open", "ask"}     \* one connection; in "post" two
Singles == {h \in Handlers : at[h] \in Holding}
Doubles == {h \in Handlers : at[h] = "post"}
Lent == Cardinality(Singles) + 2 * Cardinality(Doubles)

PoolTypeOK ==
    /\ at \in [Handlers -> Holding \cup {"away", "want", "post"}]
    /\ free \in 0..MaxConns

\* Every connection is free or some request's, whatever fails or gives up.
NoneIsLost == free + Lent = MaxConns

Waiting(h) == at[h] \in {"want", "ask"}
Stuck == free = 0 /\ \A h \in Handlers : at[h] = "away" \/ Waiting(h)

\* Requests wait for each other only when as many transactions as there are
\* connections want to post at once: all of the pool is theirs.  Fewer
\* requests than connections, as in a Lambda, which serves one at a time, can
\* not do that.
StuckByPostingsOnly ==
    Stuck => Cardinality({h \in Handlers : at[h] = "ask"}) = MaxConns

\* No connection is lost, and no other crowd of requests fills the pool for good.
PoolSafe == PoolTypeOK /\ NoneIsLost /\ StuckByPostingsOnly
=============================================================================
