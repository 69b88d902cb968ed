---------------------------- MODULE LedgerProofs ----------------------------
(***************************************************************************)
(* Proofs about Ledger, for every set of accounts, rows, handlers, types   *)
(* and amounts and for every bound on the number of requests.              *)
(***************************************************************************)
EXTENDS Ledger, SumLemmas

USE TypesAssumption, AmountsAssumption, MaxReqsAssumption, NoAccountAssumption
    DEF TypesAssumption, AmountsAssumption, MaxReqsAssumption, NoAccountAssumption

(***************************************************************************)
(* A transaction changes each of the three totals by an integer.           *)
(***************************************************************************)
LEMMA EffectInt ==
    ASSUME NEW b \in Bodies \cup {NoBody}
    PROVE  IncomeDelta(b) \in Int /\ ExpenseDelta(b) \in Int /\ Effect(b) \in Int
<1>1. b.amount \in Int
  <2>1. CASE b \in Bodies
    BY <2>1 DEF Bodies
  <2>2. CASE b = NoBody
    BY <2>2 DEF NoBody
  <2>. QED
    BY <2>1, <2>2
<1>. QED
  BY <1>1 DEF Effect, IncomeDelta, ExpenseDelta

(***************************************************************************)
(* The initial state satisfies the inductive invariant.                    *)
(***************************************************************************)
LEMMA InitInv == Init => LedgerInv
<1>. SUFFICES ASSUME Init PROVE LedgerInv
  OBVIOUS
<1>1. TypeOK
  <2>1. /\ status \in [Txns -> {"none", "pending", "live", "deleted", "void"}]
        /\ body \in [Txns -> Bodies \cup {NoBody}]
        /\ posted \in [Txns -> Int]
        /\ drift \in [Txns -> SUBSET DriftKinds]
    BY DEF Init
  <2>2. /\ pc \in [Procs -> PcValues]
        /\ op \in [Procs -> Ops]
    BY DEF Init, PcValues, Ops
  <2>3. /\ got \in [Procs -> SUBSET Txns]
        /\ todo \in [Procs -> SUBSET Accounts]
        /\ cur \in [Procs -> Accounts \cup {NoAccount}]
    BY DEF Init
  <2>4. \A p \in Procs : pc[p] = "balance" <=> cur[p] # NoAccount
    BY DEF Init
  <2>. QED
    BY <2>1, <2>2, <2>3, <2>4 DEF Init, TypeOK
<1>2. \A p \in Procs, t \in Txns : ~Owner(p, t)
  BY DEF Init, Owner
<1>3. OneWriter /\ HeldStatus
  BY <1>2 DEF OneWriter, HeldStatus
<1>4. RowsHaveBodies /\ CursorOK /\ LinkJobsCommitted
  BY DEF Init, RowsHaveBodies, CursorOK, LinkJobsCommitted
<1>5. BalanceExact
  BY <1>2 DEF Init, BalanceExact, Settled
<1>. QED
  BY <1>1, <1>3, <1>4, <1>5 DEF LedgerInv

(***************************************************************************)
(* Facts about owners and cursors that the step lemmas share.              *)
(***************************************************************************)
LEMMA HeldFacts ==
    ASSUME LedgerInv, NEW p \in Procs, NEW t \in Txns, Owner(p, t)
    PROVE  /\ status[t] # "none"
           /\ status[t] # "void"
           /\ op[p] = "create" => status[t] = "pending"
           /\ op[p] = "delete" => status[t] \in {"live", "deleted"}
           /\ body[t] \in Bodies
           /\ body[t].acc \in Accounts
           /\ Effect(body[t]) \in Int
           /\ \A q \in Procs : Owner(q, t) => q = p
<1>1. /\ op[p] = "create" => status[t] = "pending"
      /\ op[p] = "delete" => status[t] \in {"live", "deleted"}
      /\ op[p] \in {"create", "delete"}
  BY DEF LedgerInv, HeldStatus, Visible, TypeOK, Ops
<1>2. body[t] \in Bodies
  BY <1>1 DEF LedgerInv, RowsHaveBodies
<1>3. \A q \in Procs : Owner(q, t) => q = p
  BY DEF LedgerInv, OneWriter
<1>. QED
  BY <1>1, <1>2, <1>3, EffectInt DEF Bodies

(***************************************************************************)
(* One lemma per action: a step of it preserves the invariant.             *)
(***************************************************************************)
LEMMA CreateTxnStep ==
    ASSUME LedgerInv, NEW p \in Procs, NEW t \in Txns, NEW b \in Bodies,
           CreateTxn(p, t, b)
    PROVE  LedgerInv'
<1>. USE DEF LedgerInv, CreateTxn, audit
<1>0. b.acc \in Accounts
  BY DEF Bodies
<1>1. TypeOK'
  <2>1. reqs' \in 0 .. MaxReqs
    BY DEF TypeOK, Accept
  <2>2. \A q \in Procs : pc'[q] = "balance" <=> cur'[q] # NoAccount
    BY DEF TypeOK
  <2>3. /\ pc' \in [Procs -> PcValues]
        /\ op' \in [Procs -> Ops]
        /\ got' \in [Procs -> SUBSET Txns]
        /\ todo' \in [Procs -> SUBSET Accounts]
    BY <1>0 DEF TypeOK, PcValues, InTx, Ops
  <2>4. /\ status' \in [Txns -> {"none", "pending", "live", "deleted", "void"}]
        /\ body' \in [Txns -> Bodies \cup {NoBody}]
    BY DEF TypeOK
  <2>. QED
    BY <2>1, <2>2, <2>3, <2>4 DEF TypeOK
<1>2. \A q \in Procs, u \in Txns :
         Owner(q, u)' <=> IF q = p THEN u = t ELSE Owner(q, u)
  BY DEF Owner, InTx, TypeOK
<1>3. \A q \in Procs, u \in Txns : Owner(q, u) => u # t /\ q # p
  BY HeldFacts DEF Owner, InTx
<1>4. OneWriter'
  BY <1>2, <1>3 DEF OneWriter
<1>5. HeldStatus'
  BY <1>2, <1>3 DEF HeldStatus, Visible, TypeOK
<1>6. RowsHaveBodies'
  BY DEF RowsHaveBodies, TypeOK
<1>7. CursorOK'
  <2>1. cur'[p] = NoAccount /\ todo'[p] = {b.acc} /\ pc'[p] = "metrics"
    BY DEF TypeOK
  <2>2. \A q \in Procs \ {p} : /\ cur'[q] = cur[q]
                               /\ todo'[q] = todo[q]
                               /\ pc'[q] = pc[q]
                               /\ got'[q] = got[q]
    BY DEF TypeOK
  <2>3. \A u \in Txns : Visible(u) => Visible(u)'
    BY DEF Visible, TypeOK
  <2>. QED
    BY <1>0, <2>1, <2>2, <2>3 DEF CursorOK, TypeOK
<1>8. LinkJobsCommitted'
  BY DEF LinkJobsCommitted, Visible, TypeOK
<1>9. BalanceExact'
  <2>. SUFFICES ASSUME NEW u \in Txns, drift'[u] = {}
                PROVE  /\ ~Locked(u)' => posted'[u] = Settled(u)'
                       /\ \A q \in Procs : Owner(q, u)' =>
                             posted'[u] = IF Applied(q, u)' THEN Outcome(q, u)'
                                                             ELSE Settled(u)'
    BY DEF BalanceExact
  <2>1. CASE u = t
    <3>1. ~Locked(t) /\ posted[t] = 0
      BY <1>3, <2>1 DEF BalanceExact, Locked, Settled
    <3>2. Settled(t)' = 0 /\ Locked(t)'
      BY <1>2 DEF Settled, Locked, TypeOK
    <3>3. \A q \in Procs : Owner(q, t)' => ~Applied(q, t)'
      BY <1>2, <1>3 DEF Applied, TypeOK
    <3>. QED
      BY <2>1, <3>1, <3>2, <3>3
  <2>2. CASE u # t
    <3>1. Settled(u)' = Settled(u)
      BY <2>2 DEF Settled, TypeOK
    <3>2. \A q \in Procs : Owner(q, u)' <=> Owner(q, u)
      BY <1>2, <1>3, <2>2
    <3>3. \A q \in Procs : Owner(q, u) =>
             /\ Applied(q, u)' <=> Applied(q, u)
             /\ Outcome(q, u)' = Outcome(q, u)
      BY <1>3, <2>2 DEF Applied, Outcome, TypeOK
    <3>. QED
      BY <3>1, <3>2, <3>3 DEF BalanceExact, Locked
  <2>. QED
    BY <2>1, <2>2
<1>. QED
  BY <1>1, <1>4, <1>5, <1>6, <1>7, <1>8, <1>9

LEMMA SoftDeleteTxnsStep ==
    ASSUME LedgerInv, NEW p \in Procs, NEW T \in SUBSET Txns,
           SoftDeleteTxns(p, T)
    PROVE  LedgerInv'
<1>. USE DEF LedgerInv, audit, dbVars
<1>. DEFINE rows == {t \in T : Visible(t)}
            accs == {body[t].acc : t \in rows}
<1>0. /\ pc[p] = "idle"
      /\ \A t \in rows : ~Locked(t)
      /\ Accept
      /\ op' = [op EXCEPT ![p] = "delete"]
      /\ got' = [got EXCEPT ![p] = rows]
      /\ todo' = [todo EXCEPT ![p] = accs]
      /\ pc' = [pc EXCEPT ![p] = IF accs = {} THEN "commit" ELSE "metrics"]
      /\ UNCHANGED <<status, body, balance, linkJobs, cur, opening, posted, drift,
                     torn>>
  BY DEF SoftDeleteTxns
<1>a. rows \subseteq Txns /\ accs \subseteq Accounts
  BY DEF RowsHaveBodies, Visible, Bodies
<1>b. \A t \in rows : body[t].acc \in accs
  OBVIOUS
<1>. HIDE DEF accs
<1>1. TypeOK'
  <2>1. reqs' \in 0 .. MaxReqs
    BY <1>0 DEF TypeOK, Accept
  <2>2. \A q \in Procs : pc'[q] = "balance" <=> cur'[q] # NoAccount
    BY <1>0 DEF TypeOK
  <2>3. /\ pc' \in [Procs -> PcValues]
        /\ op' \in [Procs -> Ops]
    BY <1>0 DEF TypeOK, PcValues, InTx, Ops
  <2>4. /\ got' \in [Procs -> SUBSET Txns]
        /\ todo' \in [Procs -> SUBSET Accounts]
    BY <1>0, <1>a DEF TypeOK
  <2>. QED
    BY <1>0, <2>1, <2>2, <2>3, <2>4 DEF TypeOK
<1>2. \A q \in Procs, u \in Txns :
         Owner(q, u)' <=> IF q = p THEN u \in rows ELSE Owner(q, u)
  BY <1>0 DEF Owner, InTx, TypeOK
<1>3. \A q \in Procs, u \in Txns : Owner(q, u) => u \notin rows /\ q # p
  BY <1>0 DEF Owner, InTx, Locked
<1>4. OneWriter'
  BY <1>2, <1>3 DEF OneWriter
<1>5. HeldStatus'
  BY <1>0, <1>2, <1>3 DEF HeldStatus, Visible, TypeOK
<1>6. RowsHaveBodies' /\ LinkJobsCommitted'
  BY <1>0 DEF RowsHaveBodies, LinkJobsCommitted, Visible
<1>7. CursorOK'
  <2>1. cur'[p] = NoAccount /\ todo'[p] = accs /\ pc'[p] \in {"metrics", "commit"}
        /\ (pc'[p] = "commit" => accs = {}) /\ op'[p] = "delete"
    BY <1>0 DEF TypeOK
  <2>2. \A q \in Procs \ {p} : /\ cur'[q] = cur[q]
                               /\ todo'[q] = todo[q]
                               /\ pc'[q] = pc[q]
                               /\ got'[q] = got[q]
                               /\ op'[q] = op[q]
    BY <1>0 DEF TypeOK
  <2>3. \A u \in Txns : Visible(u)' <=> Visible(u)
    BY <1>0 DEF Visible
  <2>. QED
    BY <1>a, <2>1, <2>2, <2>3 DEF CursorOK, TypeOK
<1>8. BalanceExact'
  <2>. SUFFICES ASSUME NEW u \in Txns, drift'[u] = {}
                PROVE  /\ ~Locked(u)' => posted'[u] = Settled(u)'
                       /\ \A q \in Procs : Owner(q, u)' =>
                             posted'[u] = IF Applied(q, u)' THEN Outcome(q, u)'
                                                             ELSE Settled(u)'
    BY DEF BalanceExact
  <2>1. Settled(u)' = Settled(u) /\ posted'[u] = posted[u] /\ drift[u] = {}
    BY <1>0 DEF Settled
  <2>2. CASE u \in rows
    <3>1. posted[u] = Settled(u)
      BY <1>0, <2>1, <2>2 DEF BalanceExact
    <3>2. \A q \in Procs : Owner(q, u)' => ~Applied(q, u)'
      BY <1>0, <1>2, <1>3, <1>b, <2>2 DEF Applied, TypeOK
    <3>. QED
      BY <2>1, <3>1, <3>2
  <2>3. CASE u \notin rows
    <3>1. \A q \in Procs : Owner(q, u)' <=> Owner(q, u)
      BY <1>2, <1>3, <2>3
    <3>2. \A q \in Procs : Owner(q, u) =>
             /\ Applied(q, u)' <=> Applied(q, u)
             /\ Outcome(q, u)' = Outcome(q, u)
      BY <1>0, <1>3 DEF Applied, Outcome, TypeOK
    <3>. QED
      BY <2>1, <3>1, <3>2 DEF BalanceExact, Locked
  <2>. QED
    BY <2>2, <2>3
<1>. QED
  BY <1>1, <1>4, <1>5, <1>6, <1>7, <1>8

LEMMA PostMetricsStep ==
    ASSUME LedgerInv, NEW p \in Procs, NEW a \in Accounts, PostMetrics(p, a)
    PROVE  LedgerInv'
<1>. USE DEF LedgerInv, PostMetrics, audit
<1>1. TypeOK'
  <2>1. \A q \in Procs : pc'[q] = "balance" <=> cur'[q] # NoAccount
    BY DEF TypeOK
  <2>2. /\ pc' \in [Procs -> PcValues]
        /\ todo' \in [Procs -> SUBSET Accounts]
        /\ cur' \in [Procs -> Accounts \cup {NoAccount}]
    BY DEF TypeOK, PcValues, InTx
  <2>. QED
    BY <2>1, <2>2 DEF TypeOK
<1>2. \A q \in Procs, u \in Txns : Owner(q, u)' <=> Owner(q, u)
  BY DEF Owner, InTx, TypeOK
<1>3. OneWriter' /\ HeldStatus'
  BY <1>2 DEF OneWriter, HeldStatus, Visible
<1>4. RowsHaveBodies' /\ LinkJobsCommitted'
  BY DEF RowsHaveBodies, LinkJobsCommitted, Visible
<1>5. CursorOK'
  BY DEF CursorOK, TypeOK, Visible
<1>6. BalanceExact'
  <2>1. \A q \in Procs, u \in Txns : Owner(q, u) =>
           /\ Applied(q, u)' <=> Applied(q, u)
           /\ Outcome(q, u)' = Outcome(q, u)
    <3>. SUFFICES ASSUME NEW q \in Procs, NEW u \in Txns, Owner(q, u)
                  PROVE  Applied(q, u)' <=> Applied(q, u)
      BY DEF Outcome
    <3>1. body[u].acc \in Accounts
      BY HeldFacts
    <3>2. CASE q = p
      BY <3>1, <3>2 DEF Applied, TypeOK
    <3>3. CASE q # p
      BY <3>3 DEF Applied, TypeOK
    <3>. QED
      BY <3>2, <3>3
  <2>2. \A u \in Txns : Settled(u)' = Settled(u) /\ (Locked(u)' <=> Locked(u))
    BY <1>2 DEF Settled, Locked
  <2>. QED
    BY <1>2, <2>1, <2>2 DEF BalanceExact
<1>. QED
  BY <1>1, <1>3, <1>4, <1>5, <1>6

(***************************************************************************)
(* What PostBalance and SkipAccount share: request p is done with account  *)
(* a, and the postings of its rows there now follow its outcome.           *)
(***************************************************************************)
LEMMA AccountDone ==
    ASSUME LedgerInv, NEW p \in Procs, NEW a \in Accounts,
           pc[p] \in {"metrics", "balance"},
           a \in todo[p] \cup {cur[p]}, cur[p] \in {a, NoAccount},
           todo' = [todo EXCEPT ![p] = @ \ {a}],
           cur' = [cur EXCEPT ![p] = NoAccount],
           Posted(p, a),
           UNCHANGED <<status, body, linkJobs, op, got, reqs, opening, torn>>,
           DOMAIN balance' = Accounts
    PROVE  LedgerInv'
<1>. USE DEF LedgerInv
<1>. DEFINE next == IF todo'[p] = {} THEN "commit" ELSE "metrics"
<1>0. /\ pc' = [pc EXCEPT ![p] = next]
      /\ posted' = [t \in Txns |-> IF t \in Rows(p, a)
                                   THEN posted[t] + Sign(p) * Effect(body[t])
                                   ELSE posted[t]]
      /\ drift' = [t \in Txns |-> IF t \in Rows(p, a) /\ status[t] = "deleted"
                                  THEN drift[t] \cup {"redelete"}
                                  ELSE drift[t]]
  BY DEF Posted
<1>a. next \in {"commit", "metrics"} /\ (next = "commit" => todo'[p] = {})
  OBVIOUS
<1>. HIDE DEF next
<1>1. TypeOK'
  <2>1. \A t \in Txns : Effect(body[t]) \in Int /\ Sign(p) \in Int
    BY EffectInt DEF TypeOK, Sign
  <2>2. posted' \in [Txns -> Int]
    BY <1>0, <2>1 DEF TypeOK
  <2>3. drift' \in [Txns -> SUBSET DriftKinds]
    BY <1>0 DEF TypeOK, DriftKinds
  <2>4. /\ pc' \in [Procs -> PcValues]
        /\ todo' \in [Procs -> SUBSET Accounts]
        /\ cur' \in [Procs -> Accounts \cup {NoAccount}]
    BY <1>0, <1>a DEF TypeOK, PcValues, InTx
  <2>5. \A q \in Procs : pc'[q] = "balance" <=> cur'[q] # NoAccount
    BY <1>0, <1>a DEF TypeOK
  <2>. QED
    BY <2>2, <2>3, <2>4, <2>5 DEF TypeOK
<1>2. \A q \in Procs, u \in Txns : Owner(q, u)' <=> Owner(q, u)
  BY <1>0, <1>a DEF Owner, InTx, TypeOK
<1>3. OneWriter' /\ HeldStatus'
  BY <1>2 DEF OneWriter, HeldStatus, Visible
<1>4. RowsHaveBodies' /\ LinkJobsCommitted'
  BY DEF RowsHaveBodies, LinkJobsCommitted, Visible
<1>5. CursorOK'
  BY <1>0, <1>a DEF CursorOK, TypeOK, Visible
<1>6. BalanceExact'
  <2>1. \A u \in Txns : u \in Rows(p, a) <=> Owner(p, u) /\ body[u].acc = a
    BY DEF Rows, Owner, InTx, TypeOK
  <2>. SUFFICES ASSUME NEW u \in Txns, drift'[u] = {}
                PROVE  /\ ~Locked(u)' => posted'[u] = Settled(u)'
                       /\ \A q \in Procs : Owner(q, u)' =>
                             posted'[u] = IF Applied(q, u)' THEN Outcome(q, u)'
                                                             ELSE Settled(u)'
    BY DEF BalanceExact
  <2>2. /\ Settled(u)' = Settled(u)
        /\ Locked(u)' <=> Locked(u)
        /\ \A q \in Procs : Outcome(q, u)' = Outcome(q, u)
    BY <1>2 DEF Settled, Locked, Outcome
  <2>3. drift[u] = {}
    BY <1>0
  <2>4. CASE u \in Rows(p, a)
    <3>1. Owner(p, u) /\ body[u].acc = a
      BY <2>1, <2>4
    <3>2. ~Applied(p, u) /\ Applied(p, u)'
      BY <3>1 DEF Applied, TypeOK
    <3>3. posted[u] = Settled(u)
      BY <2>3, <3>1, <3>2 DEF BalanceExact
    <3>4. posted'[u] = Settled(u) + Sign(p) * Effect(body[u])
      BY <1>0, <2>4, <3>3
    <3>5. status[u] # "deleted"
      BY <1>0, <2>4 DEF TypeOK
    <3>6. Settled(u) + Sign(p) * Effect(body[u]) = Outcome(p, u)
      <4>1. CASE op[p] = "create"
        BY <3>1, <4>1, HeldFacts DEF Settled, Sign, Outcome
      <4>2. CASE op[p] = "delete"
        BY <3>1, <3>5, <4>2, HeldFacts DEF Settled, Sign, Outcome
      <4>. QED
        BY <4>1, <4>2 DEF TypeOK, Ops
    <3>7. \A q \in Procs : Owner(q, u)' => q = p
      BY <1>2, <3>1, HeldFacts
    <3>8. Locked(u)'
      BY <2>2, <3>1 DEF Locked
    <3>. QED
      BY <2>2, <3>2, <3>4, <3>6, <3>7, <3>8
  <2>5. CASE u \notin Rows(p, a)
    <3>1. posted'[u] = posted[u]
      BY <1>0, <2>5
    <3>2. \A q \in Procs : Owner(q, u) => (Applied(q, u)' <=> Applied(q, u))
      <4>. SUFFICES ASSUME NEW q \in Procs, Owner(q, u)
                    PROVE  Applied(q, u)' <=> Applied(q, u)
        OBVIOUS
      <4>1. body[u].acc \in Accounts
        BY HeldFacts
      <4>2. CASE q = p
        BY <2>1, <2>5, <4>1, <4>2 DEF Applied, TypeOK
      <4>3. CASE q # p
        BY <4>3 DEF Applied, TypeOK
      <4>. QED
        BY <4>2, <4>3
    <3>. QED
      BY <1>2, <2>2, <2>3, <3>1, <3>2 DEF BalanceExact
  <2>. QED
    BY <2>4, <2>5
<1>. QED
  BY <1>1, <1>3, <1>4, <1>5, <1>6

LEMMA PostBalanceStep ==
    ASSUME LedgerInv, NEW p \in Procs, PostBalance(p)
    PROVE  LedgerInv'
<1>. DEFINE a == cur[p]
<1>1. pc[p] = "balance" /\ a \in Accounts /\ a \notin todo[p]
  BY DEF PostBalance, LedgerInv, TypeOK, CursorOK
<1>2. todo' = [todo EXCEPT ![p] = @ \ {a}]
  BY <1>1 DEF PostBalance, LedgerInv, TypeOK
<1>3. DOMAIN balance' = Accounts
  BY DEF PostBalance, LedgerInv, TypeOK
<1>. QED
  BY <1>1, <1>2, <1>3, AccountDone DEF PostBalance

LEMMA SkipAccountStep ==
    ASSUME LedgerInv, NEW p \in Procs, NEW a \in Accounts, SkipAccount(p, a)
    PROVE  LedgerInv'
<1>1. pc[p] = "metrics" /\ a \in todo[p] /\ cur[p] = NoAccount
  BY DEF SkipAccount, LedgerInv, TypeOK
<1>2. cur' = [cur EXCEPT ![p] = NoAccount]
  BY <1>1 DEF SkipAccount, LedgerInv, TypeOK
<1>3. DOMAIN balance' = Accounts
  BY DEF SkipAccount, LedgerInv, TypeOK, dbVars
<1>. QED
  BY <1>1, <1>2, <1>3, AccountDone DEF SkipAccount, dbVars

LEMMA CommitStep ==
    ASSUME LedgerInv, NEW p \in Procs, Commit(p)
    PROVE  LedgerInv'
<1>. USE DEF LedgerInv, Commit, audit
<1>1. TypeOK'
  <2>1. status' \in [Txns -> {"none", "pending", "live", "deleted", "void"}]
    BY DEF TypeOK
  <2>2. /\ pc' \in [Procs -> PcValues]
        /\ got' \in [Procs -> SUBSET Txns]
    BY DEF TypeOK, PcValues
  <2>3. \A q \in Procs : pc'[q] = "balance" <=> cur'[q] # NoAccount
    BY DEF TypeOK
  <2>. QED
    BY <2>1, <2>2, <2>3 DEF TypeOK
<1>2. \A q \in Procs, u \in Txns :
         Owner(q, u)' <=> q # p /\ Owner(q, u)
  BY DEF Owner, InTx, TypeOK
<1>3. \A u \in Txns : u \in got[p] <=> Owner(p, u)
  BY DEF Owner, InTx
<1>4. \A q \in Procs, u \in Txns : q # p /\ Owner(q, u) => u \notin got[p]
  BY <1>3, HeldFacts
<1>5. OneWriter'
  BY <1>2 DEF OneWriter
<1>6. HeldStatus'
  BY <1>2, <1>4 DEF HeldStatus, Visible, TypeOK
<1>7. RowsHaveBodies'
  BY <1>3, HeldFacts DEF RowsHaveBodies, TypeOK
<1>8. \A u \in Txns : (Visible(u) \/ u \in got[p]) => Visible(u)'
  BY DEF Visible, TypeOK
<1>9. LinkJobsCommitted'
  BY <1>8 DEF LinkJobsCommitted, TypeOK
<1>10. CursorOK'
  <2>. SUFFICES ASSUME NEW q \in Procs
                PROVE  /\ cur'[q] \notin todo'[q]
                       /\ pc'[q] \notin {"metrics", "balance"} => todo'[q] = {}
                       /\ pc'[q] = "enqueue" => \A u \in got'[q] : Visible(u)'
                       /\ pc'[q] # "idle" /\ op'[q] = "create" =>
                             \E t \in Txns : got'[q] = {t}
    BY DEF CursorOK
  <2>1. CASE q = p
    BY <1>8, <2>1 DEF CursorOK, TypeOK
  <2>2. CASE q # p
    BY <1>8, <2>2 DEF CursorOK, TypeOK
  <2>. QED
    BY <2>1, <2>2
<1>11. BalanceExact'
  <2>. SUFFICES ASSUME NEW u \in Txns, drift[u] = {}
                PROVE  /\ ~Locked(u)' => posted[u] = Settled(u)'
                       /\ \A q \in Procs : Owner(q, u)' =>
                             posted[u] = IF Applied(q, u)' THEN Outcome(q, u)'
                                                            ELSE Settled(u)'
    BY DEF BalanceExact
  <2>1. CASE u \in got[p]
    <3>1. Owner(p, u) /\ body[u].acc \in Accounts
      BY <1>3, <2>1, HeldFacts
    <3>2. Applied(p, u)
      BY <3>1 DEF Applied, CursorOK, TypeOK
    <3>3. posted[u] = Outcome(p, u)
      BY <3>1, <3>2 DEF BalanceExact
    <3>4. Settled(u)' = Outcome(p, u)
      BY <2>1 DEF Settled, Outcome, TypeOK, Ops
    <3>5. \A q \in Procs : ~Owner(q, u)'
      BY <1>2, <1>4, <2>1
    <3>. QED
      BY <3>3, <3>4, <3>5
  <2>2. CASE u \notin got[p]
    <3>1. Settled(u)' = Settled(u)
      BY <2>2 DEF Settled, TypeOK
    <3>2. \A q \in Procs : Owner(q, u)' <=> Owner(q, u)
      BY <1>2, <1>3, <2>2
    <3>3. \A q \in Procs : /\ Applied(q, u)' <=> Applied(q, u)
                           /\ Outcome(q, u)' = Outcome(q, u)
      BY DEF Applied, Outcome
    <3>. QED
      BY <3>1, <3>2, <3>3 DEF BalanceExact, Locked
  <2>. QED
    BY <2>1, <2>2
<1>. QED
  BY <1>1, <1>5, <1>6, <1>7, <1>9, <1>10, <1>11

LEMMA AbortStep ==
    ASSUME LedgerInv, NEW p \in Procs, Abort(p)
    PROVE  LedgerInv'
<1>. USE DEF LedgerInv, Abort
<1>1. TypeOK'
  <2>1. status' \in [Txns -> {"none", "pending", "live", "deleted", "void"}]
    BY DEF TypeOK
  <2>2. drift' \in [Txns -> SUBSET DriftKinds]
    BY DEF TypeOK, DriftKinds
  <2>3. /\ pc' \in [Procs -> PcValues]
        /\ got' \in [Procs -> SUBSET Txns]
        /\ todo' \in [Procs -> SUBSET Accounts]
        /\ cur' \in [Procs -> Accounts \cup {NoAccount}]
        /\ torn' \subseteq Accounts
    BY DEF TypeOK, PcValues
  <2>4. \A q \in Procs : pc'[q] = "balance" <=> cur'[q] # NoAccount
    BY DEF TypeOK
  <2>. QED
    BY <2>1, <2>2, <2>3, <2>4 DEF TypeOK
<1>2. \A q \in Procs, u \in Txns :
         Owner(q, u)' <=> q # p /\ Owner(q, u)
  BY DEF Owner, InTx, TypeOK
<1>3. \A u \in Txns : u \in got[p] <=> Owner(p, u)
  BY DEF Owner
<1>4. \A q \in Procs, u \in Txns : q # p /\ Owner(q, u) => u \notin got[p]
  BY <1>3, HeldFacts
<1>5. OneWriter'
  BY <1>2 DEF OneWriter
<1>6. HeldStatus'
  BY <1>2, <1>4 DEF HeldStatus, Visible, TypeOK
<1>7. RowsHaveBodies'
  BY <1>3, HeldFacts DEF RowsHaveBodies, TypeOK
<1>8. \A u \in Txns : Visible(u) => Visible(u)'
  BY <1>3, HeldFacts DEF Visible, TypeOK
<1>9. LinkJobsCommitted'
  BY <1>8 DEF LinkJobsCommitted, TypeOK
<1>10. CursorOK'
  BY <1>8 DEF CursorOK, TypeOK
<1>11. BalanceExact'
  <2>. SUFFICES ASSUME NEW u \in Txns, drift'[u] = {}
                PROVE  /\ ~Locked(u)' => posted[u] = Settled(u)'
                       /\ \A q \in Procs : Owner(q, u)' =>
                             posted[u] = IF Applied(q, u)' THEN Outcome(q, u)'
                                                            ELSE Settled(u)'
    BY DEF BalanceExact
  <2>0. drift[u] = {}
    OBVIOUS
  <2>1. CASE u \in got[p]
    <3>1. Owner(p, u) /\ ~Applied(p, u)
      BY <1>3, <2>1
    <3>2. posted[u] = Settled(u)
      BY <2>0, <3>1 DEF BalanceExact
    <3>3. Settled(u)' = Settled(u)
      BY <2>1, <3>1, HeldFacts DEF Settled, TypeOK
    <3>4. \A q \in Procs : ~Owner(q, u)'
      BY <1>2, <1>4, <2>1
    <3>. QED
      BY <3>2, <3>3, <3>4
  <2>2. CASE u \notin got[p]
    <3>1. Settled(u)' = Settled(u)
      BY <2>2 DEF Settled, TypeOK
    <3>2. \A q \in Procs : Owner(q, u)' <=> Owner(q, u)
      BY <1>2, <1>3, <2>2
    <3>3. \A q \in Procs : Owner(q, u)' => /\ Applied(q, u)' <=> Applied(q, u)
                                           /\ Outcome(q, u)' = Outcome(q, u)
      BY <1>2 DEF Applied, Outcome, TypeOK
    <3>. QED
      BY <2>0, <3>1, <3>2, <3>3 DEF BalanceExact, Locked
  <2>. QED
    BY <2>1, <2>2
<1>. QED
  BY <1>1, <1>5, <1>6, <1>7, <1>9, <1>10, <1>11

LEMMA EnqueueAutoLinkStep ==
    ASSUME LedgerInv, NEW p \in Procs, EnqueueAutoLink(p)
    PROVE  LedgerInv'
<1>. USE DEF LedgerInv, EnqueueAutoLink, audit
<1>1. TypeOK'
  <2>1. /\ pc' \in [Procs -> PcValues]
        /\ got' \in [Procs -> SUBSET Txns]
        /\ linkJobs' \subseteq Txns
    BY DEF TypeOK, PcValues
  <2>2. \A q \in Procs : pc'[q] = "balance" <=> cur'[q] # NoAccount
    BY DEF TypeOK
  <2>. QED
    BY <2>1, <2>2 DEF TypeOK
<1>2. \A q \in Procs, u \in Txns : Owner(q, u)' <=> Owner(q, u)
  BY DEF Owner, InTx, TypeOK
<1>3. OneWriter' /\ HeldStatus' /\ RowsHaveBodies'
  BY <1>2 DEF OneWriter, HeldStatus, RowsHaveBodies, Visible
<1>4. LinkJobsCommitted'
  BY DEF LinkJobsCommitted, CursorOK, Visible
<1>5. CursorOK'
  BY DEF CursorOK, TypeOK, Visible
<1>6. BalanceExact'
  BY <1>2 DEF BalanceExact, Locked, Settled, Outcome, Applied
<1>. QED
  BY <1>1, <1>3, <1>4, <1>5, <1>6

LEMMA UpdateTxnStep ==
    ASSUME LedgerInv, NEW t \in Txns, NEW b \in Bodies, UpdateTxn(t, b)
    PROVE  LedgerInv'
<1>. USE DEF LedgerInv, UpdateTxn
<1>1. TypeOK'
  <2>1. reqs' \in 0 .. MaxReqs
    BY DEF TypeOK, Accept
  <2>2. body' \in [Txns -> Bodies \cup {NoBody}]
    BY DEF TypeOK
  <2>3. drift' \in [Txns -> SUBSET DriftKinds]
    BY DEF TypeOK, DriftKinds
  <2>. QED
    BY <2>1, <2>2, <2>3 DEF TypeOK
<1>2. \A q \in Procs, u \in Txns : Owner(q, u)' <=> Owner(q, u)
  BY DEF Owner
<1>3. \A q \in Procs : ~Owner(q, t)
  BY DEF Locked
<1>4. OneWriter' /\ HeldStatus'
  BY <1>2 DEF OneWriter, HeldStatus, Visible
<1>5. RowsHaveBodies'
  BY DEF RowsHaveBodies, TypeOK
<1>6. CursorOK' /\ LinkJobsCommitted'
  BY DEF CursorOK, LinkJobsCommitted, Visible
<1>7. BalanceExact'
  <2>. SUFFICES ASSUME NEW u \in Txns, drift'[u] = {}
                PROVE  /\ ~Locked(u)' => posted[u] = Settled(u)'
                       /\ \A q \in Procs : Owner(q, u)' =>
                             posted[u] = IF Applied(q, u)' THEN Outcome(q, u)'
                                                            ELSE Settled(u)'
    BY DEF BalanceExact
  <2>1. drift[u] = {}
    BY DEF TypeOK
  <2>2. CASE u = t
    <3>1. posted[t] = Settled(t)
      BY <1>3, <2>1, <2>2 DEF BalanceExact, Locked
    <3>2. ~((status[t] = "live" \/ posted[t] # 0) /\ Effect(b) # Effect(body[t]))
      BY <2>2 DEF TypeOK
    <3>3. Settled(t)' = IF status[t] = "live" THEN Effect(b) ELSE 0
      BY DEF Settled, TypeOK
    <3>4. posted[t] = Settled(t)'
      BY <3>1, <3>2, <3>3 DEF Settled
    <3>. QED
      BY <1>2, <1>3, <2>2, <3>4
  <2>3. CASE u # t
    <3>1. body'[u] = body[u]
      BY <2>3 DEF TypeOK
    <3>2. /\ Settled(u)' = Settled(u)
          /\ \A q \in Procs : /\ Applied(q, u)' <=> Applied(q, u)
                              /\ Outcome(q, u)' = Outcome(q, u)
      BY <3>1 DEF Settled, Applied, Outcome
    <3>. QED
      BY <1>2, <2>1, <3>2 DEF BalanceExact, Locked
  <2>. QED
    BY <2>2, <2>3
<1>. QED
  BY <1>1, <1>4, <1>5, <1>6, <1>7

(***************************************************************************)
(* The steps that leave every variable of the invariant but reqs alone:    *)
(* the user retyping a balance or the lifetime figures, and stuttering.    *)
(***************************************************************************)
LEMMA OverwriteStep ==
    ASSUME LedgerInv, reqs' \in 0 .. MaxReqs,
           DOMAIN balance' = Accounts, DOMAIN opening' = Accounts,
           UNCHANGED <<status, body, linkJobs, pc, op, got, todo, cur, posted,
                       drift, torn>>
    PROVE  LedgerInv'
<1>. USE DEF LedgerInv
<1>1. \A q \in Procs, u \in Txns : Owner(q, u)' <=> Owner(q, u)
  BY DEF Owner
<1>2. TypeOK'
  BY DEF TypeOK
<1>3. OneWriter' /\ HeldStatus' /\ RowsHaveBodies'
  BY <1>1 DEF OneWriter, HeldStatus, RowsHaveBodies, Visible
<1>4. CursorOK' /\ LinkJobsCommitted'
  BY DEF CursorOK, LinkJobsCommitted, Visible
<1>5. BalanceExact'
  BY <1>1 DEF BalanceExact, Locked, Settled, Outcome, Applied
<1>. QED
  BY <1>2, <1>3, <1>4, <1>5

LEMMA NextInv == LedgerInv /\ [Next]_vars => LedgerInv'
<1>. SUFFICES ASSUME LedgerInv, [Next]_vars PROVE LedgerInv'
  OBVIOUS
<1>0. DOMAIN balance = Accounts /\ DOMAIN opening = Accounts /\ reqs \in 0 .. MaxReqs
  BY DEF LedgerInv, TypeOK
<1>1. ASSUME NEW p \in Procs, Handler(p)
      PROVE  LedgerInv'
  BY <1>1, CreateTxnStep, SoftDeleteTxnsStep, PostMetricsStep, SkipAccountStep,
     PostBalanceStep, CommitStep, AbortStep, EnqueueAutoLinkStep DEF Handler
<1>2. ASSUME NEW t \in Txns, NEW b \in Bodies, UpdateTxn(t, b)
      PROVE  LedgerInv'
  BY <1>2, UpdateTxnStep
<1>3. ASSUME NEW a \in Accounts, NEW v \in Amounts, UpdateAccount(a, v)
      PROVE  LedgerInv'
  <2>1. reqs' \in 0 .. MaxReqs
    BY <1>0, <1>3 DEF UpdateAccount, Accept
  <2>2. DOMAIN balance' = Accounts /\ DOMAIN opening' = Accounts
    BY <1>0, <1>3 DEF UpdateAccount
  <2>. QED
    BY <1>3, <2>1, <2>2, OverwriteStep DEF UpdateAccount
<1>4. ASSUME NEW v, NEW w, UpdateUser(v, w)
      PROVE  LedgerInv'
  <2>1. reqs' \in 0 .. MaxReqs
    BY <1>0, <1>4 DEF UpdateUser, Accept
  <2>. QED
    BY <1>0, <1>4, <2>1, OverwriteStep DEF UpdateUser
<1>5. CASE UNCHANGED vars
  BY <1>0, <1>5, OverwriteStep DEF vars, dbVars, procVars, audit
<1>. QED
  BY <1>1, <1>2, <1>3, <1>4, <1>5 DEF Next

(***************************************************************************)
(* The inductive invariant holds in every reachable state.                 *)
(***************************************************************************)
THEOREM LedgerInvariant == Spec => []LedgerInv
  BY InitInv, NextInv, PTL DEF Spec

(***************************************************************************)
(* Every variable keeps its type, and a handler stands between its two     *)
(* UPDATEs exactly while it has an account at hand.                        *)
(***************************************************************************)
THEOREM TypeCorrect == Spec => []TypeOK
<1>1. LedgerInv => TypeOK
  BY DEF LedgerInv
<1>. QED
  BY <1>1, LedgerInvariant, PTL

(***************************************************************************)
(* A row none of the four drift causes has touched is in its account's     *)
(* balance exactly as its state, and the request that holds it, say.       *)
(***************************************************************************)
THEOREM BalanceIsExact == Spec => []BalanceExact
<1>1. LedgerInv => BalanceExact
  BY DEF LedgerInv
<1>. QED
  BY <1>1, LedgerInvariant, PTL

(***************************************************************************)
(* The auto-link queue holds ids of committed rows only.                   *)
(***************************************************************************)
THEOREM LinkJobsAreCommitted == Spec => []LinkJobsCommitted
<1>1. LedgerInv => LinkJobsCommitted
  BY DEF LedgerInv
<1>. QED
  BY <1>1, LedgerInvariant, PTL
-----------------------------------------------------------------------------

(***************************************************************************)
(* Ledger implements AtomicLedger, for every value of the constants.       *)
(***************************************************************************)

\* The refinement mapping of Ledger!Abstract, row by row.
Cell(t)  == IF Visible(t) THEN status[t] ELSE "absent"
Amt(t)   == IF Visible(t) THEN Effect(body[t]) ELSE 0
Count(t) == IF drift[t] = {} THEN posted[t] - Ahead(t) ELSE 0
Exact    == {t \in Txns : drift[t] = {}}

\* A row that is in step counts for what it settles to, whoever holds it.
CountIsSettled ==
    \A t \in Txns : Count(t) = IF drift[t] = {} THEN Settled(t) ELSE 0

(***************************************************************************)
(* The invariant makes the mapped count a function of the row alone.       *)
(***************************************************************************)
LEMMA InvCount == LedgerInv => CountIsSettled
<1>. SUFFICES ASSUME LedgerInv, NEW t \in Txns, drift[t] = {}
              PROVE  posted[t] - Ahead(t) = Settled(t)
  BY DEF CountIsSettled, Count
<1>0. Effect(body[t]) \in Int /\ Settled(t) \in Int
  BY EffectInt DEF LedgerInv, TypeOK, Settled
<1>1. CASE ~Locked(t)
  <2>1. posted[t] = Settled(t)
    BY <1>1 DEF LedgerInv, BalanceExact
  <2>2. Ahead(t) = 0
    BY <1>1 DEF Ahead, Locked
  <2>. QED
    BY <1>0, <2>1, <2>2
<1>2. CASE Locked(t)
  <2>1. PICK p \in Procs : Owner(p, t)
    BY <1>2 DEF Locked
  <2>2. \A q \in Procs : Owner(q, t) => q = p
    BY <2>1, HeldFacts
  <2>3. posted[t] = IF Applied(p, t) THEN Outcome(p, t) ELSE Settled(t)
    BY <2>1 DEF LedgerInv, BalanceExact
  <2>4. CASE ~Applied(p, t)
    <3>1. Ahead(t) = 0
      BY <2>2, <2>4 DEF Ahead
    <3>. QED
      BY <1>0, <2>3, <2>4, <3>1
  <2>5. CASE Applied(p, t)
    <3>1. Ahead(t) = IF status[t] = "pending" THEN Effect(body[t]) ELSE -Settled(t)
      BY <2>1, <2>5 DEF Ahead
    <3>2. CASE op[p] = "create"
      BY <1>0, <2>1, <2>3, <2>5, <3>1, <3>2, HeldFacts DEF Outcome, Settled
    <3>3. CASE op[p] = "delete"
      BY <1>0, <2>1, <2>3, <2>5, <3>1, <3>3, HeldFacts DEF Outcome, Settled
    <3>. QED
      BY <3>2, <3>3 DEF LedgerInv, TypeOK, Ops
  <2>. QED
    BY <2>4, <2>5
<1>. QED
  BY <1>1, <1>2

(***************************************************************************)
(* The initial states map to an initial state.                             *)
(***************************************************************************)
LEMMA InitRefines == Init => Abstract!Init
<1>. SUFFICES ASSUME Init PROVE Abstract!Init
  OBVIOUS
<1>1. \A t \in Txns : ~Visible(t) /\ drift[t] = {} /\ posted[t] = 0
  BY DEF Init, Visible
<1>2. \A t \in Txns : Ahead(t) = 0
  BY DEF Init, Ahead, Owner, InTx
<1>. QED
  BY <1>1, <1>2 DEF Abstract!Init

(***************************************************************************)
(* A step that leaves what a row shows and its drift alone is a stutter.   *)
(***************************************************************************)
LEMMA Stutter ==
    ASSUME CountIsSettled, CountIsSettled', drift' = drift,
           \A t \in Txns : Cell(t)' = Cell(t) /\ Amt(t)' = Amt(t)
    PROVE  UNCHANGED Abstract!vars
<1>1. \A t \in Txns : Settled(t) = IF Cell(t) = "live" THEN Amt(t) ELSE 0
  BY DEF Settled, Cell, Amt, Visible
<1>2. \A t \in Txns : Settled(t)' = IF Cell(t)' = "live" THEN Amt(t)' ELSE 0
  BY DEF Settled, Cell, Amt, Visible
<1>3. \A t \in Txns : Count(t)' = Count(t)
  BY <1>1, <1>2 DEF CountIsSettled
<1>. QED
  BY <1>3 DEF Abstract!vars, Cell, Amt, Count

(***************************************************************************)
(* A step that only adds causes of drift maps to a Drift step.             *)
(***************************************************************************)
LEMMA OnlyDrift ==
    ASSUME CountIsSettled, CountIsSettled',
           \A t \in Txns : drift'[t] = {} => drift[t] = {},
           \A t \in Txns : Cell(t)' = Cell(t) /\ Amt(t)' = Amt(t)
    PROVE  Abstract!Next
<1>0. PICK S \in SUBSET Txns : S = {t \in Txns : drift'[t] # {}}
  OBVIOUS
<1>1. \A t \in Txns : Settled(t) = IF Cell(t) = "live" THEN Amt(t) ELSE 0
  BY DEF Settled, Cell, Amt, Visible
<1>2. \A t \in Txns : Settled(t)' = IF Cell(t)' = "live" THEN Amt(t)' ELSE 0
  BY DEF Settled, Cell, Amt, Visible
<1>3. \A t \in Txns : Count(t)' = IF t \in S THEN 0 ELSE Count(t)
  BY <1>0, <1>1, <1>2 DEF CountIsSettled
<1>4. Exact' = Exact \ S
  BY <1>0 DEF Exact
<1>5. Abstract!Drift(S)
  BY <1>3, <1>4 DEF Abstract!Drift, Cell, Amt, Count, Exact
<1>. QED
  BY <1>5 DEF Abstract!Next

(***************************************************************************)
(* The commit of a create maps to Create, that of a delete to Delete.      *)
(***************************************************************************)
LEMMA CommitRefines ==
    ASSUME LedgerInv, CountIsSettled, CountIsSettled',
           NEW p \in Procs, Commit(p)
    PROVE  Abstract!Next
<1>. USE DEF Commit, audit
<1>1. \A t \in Txns : t \in got[p] => Owner(p, t)
  BY DEF Owner, InTx
<1>2. got[p] \subseteq Txns
  BY DEF LedgerInv, TypeOK
<1>3. \A t \in Txns : t \notin got[p] =>
         /\ Cell(t)' = Cell(t)
         /\ Amt(t)' = Amt(t)
         /\ Settled(t)' = Settled(t)
  BY DEF Cell, Amt, Settled, Visible
<1>4. Exact' = Exact
  BY DEF Exact
<1>5. CASE op[p] = "create"
  <2>1. PICK t \in Txns : got[p] = {t}
    BY <1>5 DEF LedgerInv, CursorOK
  <2>2. status[t] = "pending" /\ body[t] \in Bodies
    BY <1>1, <1>5, <2>1, HeldFacts
  <2>3. PICK e \in {Effect(b) : b \in Bodies} : e = Effect(body[t])
    BY <2>2
  <2>4. /\ Cell(t) = "absent" /\ Cell(t)' = "live"
        /\ Amt(t)' = e
        /\ Settled(t)' = e
    BY <1>5, <2>1, <2>2, <2>3 DEF Cell, Amt, Settled, Visible
  <2>5. \A u \in Txns : Count(u)' = IF u = t THEN IF t \in Exact THEN e ELSE 0
                                             ELSE Count(u)
    BY <1>3, <2>1, <2>4 DEF CountIsSettled, Exact
  <2>6. Abstract!Create(t, e)
    BY <1>3, <1>4, <2>1, <2>4, <2>5 DEF Abstract!Create, Cell, Amt, Count, Exact
  <2>. QED
    BY <2>6 DEF Abstract!Next
<1>6. CASE op[p] = "delete"
  <2>0. PICK T \in SUBSET Txns : T = got[p]
    BY <1>2
  <2>1. \A t \in Txns : t \in T =>
           /\ Cell(t) # "absent" /\ Cell(t)' = "deleted"
           /\ Amt(t)' = Amt(t)
           /\ Settled(t)' = 0
    BY <1>1, <1>6, <2>0, HeldFacts DEF Cell, Amt, Settled, Visible
  <2>2. \A t \in Txns : Count(t)' = IF t \in T THEN 0 ELSE Count(t)
    BY <1>3, <2>0, <2>1 DEF CountIsSettled
  <2>3. Abstract!Delete(T)
    BY <1>3, <1>4, <2>0, <2>1, <2>2 DEF Abstract!Delete, Cell, Amt, Count, Exact
  <2>. QED
    BY <2>3 DEF Abstract!Next
<1>. QED
  BY <1>5, <1>6 DEF LedgerInv, TypeOK, Ops

(***************************************************************************)
(* UpdateTxn maps to Edit.                                                 *)
(***************************************************************************)
LEMMA UpdateTxnRefines ==
    ASSUME LedgerInv, CountIsSettled, CountIsSettled',
           NEW t \in Txns, NEW b \in Bodies, UpdateTxn(t, b)
    PROVE  Abstract!Next
<1>. USE DEF UpdateTxn
<1>. DEFINE e == Effect(b)
<1>1. e \in {Effect(c) : c \in Bodies}
  OBVIOUS
<1>2. /\ body' = [body EXCEPT ![t] = b]
      /\ body'[t] = b
      /\ DOMAIN body = Txns
  BY DEF LedgerInv, TypeOK
<1>3. \A u \in Txns : /\ Cell(u)' = Cell(u)
                      /\ Amt(u)' = IF u = t THEN e ELSE Amt(u)
                      /\ u # t => Settled(u)' = Settled(u)
  BY <1>2 DEF Cell, Amt, Settled, Visible
<1>4. /\ Cell(t) \in {"live", "deleted"} /\ Cell(t) = status[t]
      /\ Amt(t) = Effect(body[t])
      /\ Settled(t) = IF Cell(t) = "live" THEN Amt(t) ELSE 0
      /\ Settled(t)' = IF Cell(t) = "live" THEN e ELSE 0
  BY <1>2 DEF Cell, Amt, Settled, Visible
<1>5. \A u \in Txns : u # t => drift'[u] = drift[u]
  OBVIOUS
<1>6. \A u \in Txns : u # t => Count(u)' = Count(u)
  BY <1>3, <1>5 DEF CountIsSettled
<1>7. drift[t] \subseteq drift'[t]
  BY DEF LedgerInv, TypeOK
<1>. HIDE DEF e
<1>8. Abstract!Edit(t, e)
  <2>1. CASE drift'[t] # {} /\ drift[t] = {}
    <3>1. Exact' = Exact \ {t}
      BY <1>5, <2>1 DEF Exact
    <3>2. Count(t)' = 0
      BY <2>1 DEF CountIsSettled
    <3>. QED
      BY <1>3, <1>4, <1>6, <3>1, <3>2 DEF Abstract!Edit, Cell, Amt, Count, Exact
  <2>2. CASE drift'[t] # {} /\ drift[t] # {}
    <3>1. Exact' = Exact /\ t \notin Exact
      BY <1>5, <2>2 DEF Exact
    <3>2. Count(t)' = Count(t)
      BY <2>2 DEF CountIsSettled
    <3>. QED
      BY <1>3, <1>4, <1>6, <3>1, <3>2 DEF Abstract!Edit, Cell, Amt, Count, Exact
  <2>3. CASE drift'[t] = {}
    <3>1. Exact' = Exact /\ drift[t] = {}
      BY <1>5, <1>7, <2>3 DEF Exact
    <3>2. Cell(t) = "deleted" \/ e = Amt(t)
      BY <1>4, <2>3 DEF e, LedgerInv, TypeOK
    <3>3. Count(t)' = Count(t)
      BY <1>4, <2>3, <3>1, <3>2 DEF CountIsSettled
    <3>. QED
      BY <1>3, <1>4, <1>6, <3>1, <3>2, <3>3
         DEF Abstract!Edit, Cell, Amt, Count, Exact
  <2>. QED
    BY <2>1, <2>2, <2>3
<1>. QED
  BY <1>1, <1>8 DEF Abstract!Next

(***************************************************************************)
(* Every step of Ledger is a step of AtomicLedger or a stutter.            *)
(***************************************************************************)
LEMMA NextRefines ==
    ASSUME LedgerInv, CountIsSettled, CountIsSettled', [Next]_vars
    PROVE  [Abstract!Next]_Abstract!vars
<1>1. ASSUME NEW p \in Procs, NEW t \in Txns, NEW b \in Bodies, CreateTxn(p, t, b)
      PROVE  UNCHANGED Abstract!vars
  BY <1>1, Stutter DEF CreateTxn, audit, Cell, Amt, Visible, LedgerInv, TypeOK
<1>2. ASSUME NEW p \in Procs, NEW T \in SUBSET Txns, SoftDeleteTxns(p, T)
      PROVE  UNCHANGED Abstract!vars
  BY <1>2, Stutter DEF SoftDeleteTxns, dbVars, audit, Cell, Amt, Visible
<1>3. ASSUME NEW p \in Procs, NEW a \in Accounts, PostMetrics(p, a)
      PROVE  UNCHANGED Abstract!vars
  BY <1>3, Stutter DEF PostMetrics, audit, Cell, Amt, Visible
<1>4. ASSUME NEW p \in Procs, NEW a, Posted(p, a), UNCHANGED <<status, body>>
      PROVE  Abstract!Next
  BY <1>4, OnlyDrift DEF Posted, Cell, Amt, Visible
<1>5. ASSUME NEW p \in Procs, Abort(p)
      PROVE  Abstract!Next
  <2>1. \A t \in Txns : t \in got[p] /\ op[p] = "create" => status[t] = "pending"
    BY <1>5, HeldFacts DEF Abort, Owner
  <2>2. \A t \in Txns : Cell(t)' = Cell(t) /\ Amt(t)' = Amt(t)
    BY <1>5, <2>1 DEF Abort, Cell, Amt, Visible
  <2>3. \A t \in Txns : drift'[t] = {} => drift[t] = {}
    BY <1>5 DEF Abort
  <2>. QED
    BY <2>2, <2>3, OnlyDrift
<1>6. ASSUME UNCHANGED <<status, body, drift>>
      PROVE  UNCHANGED Abstract!vars
  BY <1>6, Stutter DEF Cell, Amt, Visible
<1>7. ASSUME NEW p \in Procs, Handler(p)
      PROVE  [Abstract!Next]_Abstract!vars
  BY <1>1, <1>2, <1>3, <1>4, <1>5, <1>6, <1>7, CommitRefines
     DEF Handler, PostBalance, SkipAccount, dbVars, EnqueueAutoLink, audit
<1>8. ASSUME UNCHANGED vars
      PROVE  UNCHANGED Abstract!vars
  BY <1>6, <1>8 DEF vars, dbVars, audit
<1>9. ASSUME NEW a, NEW v, UpdateAccount(a, v)
      PROVE  UNCHANGED Abstract!vars
  BY <1>6, <1>9 DEF UpdateAccount
<1>10. ASSUME NEW v, NEW w, UpdateUser(v, w)
      PROVE  UNCHANGED Abstract!vars
  BY <1>6, <1>10 DEF UpdateUser
<1>. QED
  BY <1>7, <1>8, <1>9, <1>10, UpdateTxnRefines DEF Next

(***************************************************************************)
(* The ledger looks atomic from outside, for the rows still in step.       *)
(***************************************************************************)
THEOREM LedgerRefinesAtomicLedger == Spec => LooksAtomic
  BY InitRefines, NextRefines, InvCount, LedgerInvariant, PTL
     DEF Spec, LooksAtomic, Abstract!Spec

-----------------------------------------------------------------------------
(***************************************************************************)
(* What the postings add up to: how often a row can be counted             *)
(* (NeverCountedTwice), and what the balance and the two lifetime columns  *)
(* show (BalanceIsLedger, MetricsFollowBalance).                           *)
(***************************************************************************)
\* A request of this kind holds the row and has yet to post its account.
Owes(t, kind) == \E p \in Procs : Owner(p, t) /\ ~Applied(p, t) /\ op[p] = kind

(***************************************************************************)
(* Row t has been counted k times.  A request yet to post must fit under   *)
(* the bound: a create finds the row uncounted, a delete has a request of  *)
(* its own to use up.                                                      *)
(***************************************************************************)
CountedTimes(t, k) ==
    /\ posted[t] = k * Effect(body[t])
    /\ k <= 1 /\ -reqs <= k
    /\ Owes(t, "create") => k <= 0
    /\ Owes(t, "delete") => -reqs < k

CountInv ==
    \A t \in Txns :
        /\ status[t] = "none" => posted[t] = 0
        /\ "edit" \notin drift[t] => \E k \in Int : CountedTimes(t, k)

(***************************************************************************)
(* Arithmetic that the step lemmas share.                                  *)
(***************************************************************************)
LEMMA OneMore ==
    ASSUME NEW k \in Int, NEW e \in Int
    PROVE  /\ k * e + 1 * e = (k + 1) * e /\ k * e + (-1) * e = (k - 1) * e
           /\ 0 * e = 0
OBVIOUS

LEMMA LowerFloor ==
    ASSUME NEW x \in Int, NEW y \in Int, NEW k \in Int, x <= y, -x <= k
    PROVE  -y <= k /\ (x < y => -y < k) /\ (-x < k => -y < k)
OBVIOUS

LEMMA LedgerInts ==
    ASSUME LedgerInv
    PROVE  /\ reqs \in Nat /\ reqs <= MaxReqs
           /\ \A t \in Txns : posted[t] \in Int /\ Effect(body[t]) \in Int
BY EffectInt DEF LedgerInv, TypeOK

(***************************************************************************)
(* A row whose figures a step leaves alone keeps its count, if nobody new  *)
(* owes it a posting but a delete that the step accepts.                   *)
(***************************************************************************)
LEMMA RowKeeps ==
    ASSUME LedgerInv, LedgerInv', CountInv, NEW t \in Txns,
           posted'[t] = posted[t], drift[t] \subseteq drift'[t],
           "edit" \notin drift'[t] => Effect(body'[t]) = Effect(body[t]),
           reqs <= reqs',
           status'[t] = "none" => status[t] = "none",
           Owes(t, "create")' => Owes(t, "create"),
           Owes(t, "delete")' => Owes(t, "delete") \/ reqs < reqs'
    PROVE  /\ status'[t] = "none" => posted'[t] = 0
           /\ "edit" \notin drift'[t] => \E k \in Int : CountedTimes(t, k)'
<1>1. status'[t] = "none" => posted'[t] = 0
  BY DEF CountInv
<1>2. ASSUME "edit" \notin drift'[t] PROVE \E k \in Int : CountedTimes(t, k)'
  <2>1. PICK k \in Int : CountedTimes(t, k)
    BY <1>2 DEF CountInv
  <2>2. reqs \in Int /\ reqs' \in Int
    BY LedgerInts DEF LedgerInv, TypeOK
  <2>3. posted'[t] = k * Effect(body'[t])
    BY <1>2, <2>1 DEF CountedTimes
  <2>4. k <= 1 /\ -reqs' <= k
    <3>1. k <= 1 /\ -reqs <= k
      BY <2>1 DEF CountedTimes
    <3>. QED
      BY <2>2, <3>1, LowerFloor
  <2>5. Owes(t, "create")' => k <= 0
    BY <2>1 DEF CountedTimes
  <2>6. Owes(t, "delete")' => -reqs' < k
    <3>1. -reqs <= k /\ (Owes(t, "delete") => -reqs < k)
      BY <2>1 DEF CountedTimes
    <3>2. Owes(t, "delete")' => (-reqs < k \/ reqs < reqs')
      BY <3>1
    <3>. QED
      BY <2>2, <3>1, <3>2, LowerFloor
  <2>. QED
    BY <2>3, <2>4, <2>5, <2>6 DEF CountedTimes
<1>. QED
  BY <1>1, <1>2

LEMMA CountInit == Init => CountInv
<1>. SUFFICES ASSUME Init, NEW t \in Txns PROVE CountedTimes(t, 0) /\ posted[t] = 0
  BY DEF CountInv
<1>1. ~Owes(t, "create") /\ ~Owes(t, "delete") /\ posted[t] = 0
  BY DEF Init, Owes, Owner
<1>2. Effect(body[t]) \in Int
  BY EffectInt DEF Init
<1>. QED
  BY <1>1, <1>2, OneMore DEF Init, CountedTimes

(***************************************************************************)
(* Accepting a create: the row is new, and nothing has posted it.          *)
(***************************************************************************)
LEMMA CreateCounts ==
    ASSUME LedgerInv, LedgerInv', CountInv, NEW p \in Procs, NEW t \in Txns,
           NEW b \in Bodies, CreateTxn(p, t, b)
    PROVE  CountInv'
<1>. SUFFICES ASSUME NEW s \in Txns
              PROVE  /\ status'[s] = "none" => posted'[s] = 0
                     /\ "edit" \notin drift'[s] => \E k \in Int : CountedTimes(s, k)'
  BY DEF CountInv
<1>1. /\ posted' = posted /\ drift' = drift /\ reqs' = reqs + 1
      /\ \A q \in Procs : q # p =>
            op'[q] = op[q] /\ pc'[q] = pc[q] /\ got'[q] = got[q]
            /\ todo'[q] = todo[q] /\ cur'[q] = cur[q]
      /\ pc[p] = "idle" /\ got'[p] = {t} /\ op'[p] = "create"
  BY DEF CreateTxn, Accept, audit, LedgerInv, TypeOK
<1>2. CASE s = t
  <2>1. status[s] = "none" /\ \A q \in Procs : ~Owner(q, s)
    BY <1>2, HeldFacts DEF CreateTxn
  <2>2. ~Owes(s, "delete")'
    BY <1>1, <2>1 DEF Owes, Owner
  <2>3. posted'[s] = 0 /\ Effect(body'[s]) \in Int /\ reqs' \in Nat
    BY <1>1, <2>1, LedgerInts, EffectInt DEF CountInv, LedgerInv, TypeOK
  <2>4. posted'[s] = 0 * Effect(body'[s]) /\ -reqs' <= 0
    BY <2>3, OneMore
  <2>5. CountedTimes(s, 0)'
    BY <2>2, <2>4 DEF CountedTimes
  <2>. QED
    BY <2>3, <2>5
<1>3. CASE s # t
  <2>1. body'[s] = body[s] /\ status'[s] = status[s]
    BY <1>3 DEF CreateTxn, LedgerInv, TypeOK
  <2>2. \A kind : Owes(s, kind)' => Owes(s, kind)
    BY <1>1, <1>3, <2>1 DEF Owes, Owner, Applied
  <2>. QED
    BY <1>1, <2>1, <2>2, RowKeeps, LedgerInts
<1>. QED
  BY <1>2, <1>3

(***************************************************************************)
(* Accepting a delete leaves it a request to post with.                    *)
(***************************************************************************)
LEMMA DeleteCounts ==
    ASSUME LedgerInv, LedgerInv', CountInv, NEW p \in Procs, NEW T \in SUBSET Txns,
           SoftDeleteTxns(p, T)
    PROVE  CountInv'
<1>. SUFFICES ASSUME NEW s \in Txns
              PROVE  /\ status'[s] = "none" => posted'[s] = 0
                     /\ "edit" \notin drift'[s] => \E k \in Int : CountedTimes(s, k)'
  BY DEF CountInv
<1>1. /\ posted' = posted /\ drift' = drift /\ reqs' = reqs + 1
      /\ body' = body /\ status' = status
      /\ \A q \in Procs : q # p =>
            op'[q] = op[q] /\ pc'[q] = pc[q] /\ got'[q] = got[q]
            /\ todo'[q] = todo[q] /\ cur'[q] = cur[q]
      /\ op'[p] = "delete"
  BY DEF SoftDeleteTxns, Accept, audit, dbVars, LedgerInv, TypeOK
<1>2. Owes(s, "create")' => Owes(s, "create")
  BY <1>1 DEF Owes, Owner, Applied
<1>. QED
  BY <1>1, <1>2, RowKeeps, LedgerInts

(***************************************************************************)
(* The first statement moves the account from the list to the hand.        *)
(***************************************************************************)
LEMMA MetricsCounts ==
    ASSUME LedgerInv, LedgerInv', CountInv, NEW p \in Procs, NEW a \in Accounts,
           PostMetrics(p, a)
    PROVE  CountInv'
<1>. SUFFICES ASSUME NEW s \in Txns
              PROVE  /\ status'[s] = "none" => posted'[s] = 0
                     /\ "edit" \notin drift'[s] => \E k \in Int : CountedTimes(s, k)'
  BY DEF CountInv
<1>1. /\ posted' = posted /\ drift' = drift /\ reqs' = reqs
      /\ body' = body /\ status' = status /\ op' = op /\ got' = got
      /\ \A q \in Procs : q # p =>
            pc'[q] = pc[q] /\ todo'[q] = todo[q] /\ cur'[q] = cur[q]
      /\ pc[p] = "metrics" /\ a \in todo[p]
      /\ todo'[p] = todo[p] \ {a} /\ cur'[p] = a
  BY DEF PostMetrics, audit, LedgerInv, TypeOK
<1>2. \A kind : Owes(s, kind)' => Owes(s, kind)
  <2>1. Owner(p, s)' => Owner(p, s)
    BY <1>1 DEF Owner, InTx
  <2>2. ~Applied(p, s)' => ~Applied(p, s)
    BY <1>1 DEF Applied
  <2>3. \A q \in Procs : q # p => (Owner(q, s)' <=> Owner(q, s))
                                  /\ (Applied(q, s)' <=> Applied(q, s))
    BY <1>1 DEF Owner, Applied
  <2>. QED
    BY <1>1, <2>1, <2>2, <2>3 DEF Owes
<1>. QED
  BY <1>1, <1>2, RowKeeps, LedgerInts

(***************************************************************************)
(* An account is done: its rows are counted once more or once less, by the *)
(* only request that owed them that.                                       *)
(***************************************************************************)
LEMMA AccountCounts ==
    ASSUME LedgerInv, LedgerInv', CountInv, NEW p \in Procs, NEW a \in Accounts,
           pc[p] \in {"metrics", "balance"},
           a \in todo[p] \cup {cur[p]}, cur[p] \in {a, NoAccount},
           todo' = [todo EXCEPT ![p] = @ \ {a}],
           cur' = [cur EXCEPT ![p] = NoAccount],
           Posted(p, a),
           UNCHANGED <<status, body, op, got, reqs>>
    PROVE  CountInv'
<1>. SUFFICES ASSUME NEW s \in Txns
              PROVE  /\ status'[s] = "none" => posted'[s] = 0
                     /\ "edit" \notin drift'[s] => \E k \in Int : CountedTimes(s, k)'
  BY DEF CountInv
<1>1. /\ drift[s] \subseteq drift'[s]
      /\ todo'[p] = todo[p] \ {a} /\ cur'[p] = NoAccount /\ a # NoAccount
      /\ \A q \in Procs : q # p =>
            pc'[q] = pc[q] /\ todo'[q] = todo[q] /\ cur'[q] = cur[q]
      /\ pc[p] \in InTx
  <2>1. drift[s] \subseteq drift'[s]
    BY DEF Posted
  <2>2. todo'[p] = todo[p] \ {a} /\ cur'[p] = NoAccount /\ a # NoAccount
        /\ pc[p] \in InTx
    BY DEF LedgerInv, TypeOK, InTx
  <2>3. \A q \in Procs : q # p =>
            pc'[q] = pc[q] /\ todo'[q] = todo[q] /\ cur'[q] = cur[q]
    BY DEF Posted, LedgerInv, TypeOK
  <2>. QED
    BY <2>1, <2>2, <2>3
<1>2. \A q \in Procs : q # p => (Owner(q, s)' <=> Owner(q, s))
                                /\ (Applied(q, s)' <=> Applied(q, s))
  BY <1>1 DEF Owner, Applied
<1>3. CASE s \in Rows(p, a)
  <2>1. Owner(p, s) /\ ~Applied(p, s) /\ body[s].acc = a
    BY <1>1, <1>3 DEF Rows, Owner, Applied
  <2>2. /\ status[s] # "none" /\ Effect(body[s]) \in Int
        /\ \A q \in Procs : Owner(q, s) => q = p
    BY <2>1, HeldFacts
  <2>3. Applied(p, s)'
    <3>1. a \notin todo'[p] /\ a # cur'[p]
      BY <1>1
    <3>. QED
      BY <2>1, <3>1 DEF Applied
  <2>4. \A kind : ~Owes(s, kind)'
    BY <1>2, <2>2, <2>3 DEF Owes
  <2>5. posted'[s] = posted[s] + Sign(p) * Effect(body[s])
    BY <1>3 DEF Posted
  <2>6. ASSUME "edit" \notin drift'[s] PROVE \E k \in Int : CountedTimes(s, k)'
    <3>1. PICK k \in Int : CountedTimes(s, k)
      BY <1>1, <2>6 DEF CountInv
    <3>2. op[p] \in {"create", "delete"} /\ reqs \in Nat
      BY LedgerInts DEF LedgerInv, TypeOK, Ops
    <3>3. CASE op[p] = "create"
      <4>1. k <= 0
        BY <2>1, <3>1, <3>3 DEF Owes, CountedTimes
      <4>2. posted'[s] = (k + 1) * Effect(body[s])
        BY <2>2, <2>5, <3>1, <3>3, OneMore DEF Sign, CountedTimes
      <4>3. CountedTimes(s, k + 1)'
        BY <2>4, <3>1, <3>2, <4>1, <4>2 DEF CountedTimes
      <4>. QED
        BY <4>3
    <3>4. CASE op[p] = "delete"
      <4>1. -reqs < k
        BY <2>1, <3>1, <3>4 DEF Owes, CountedTimes
      <4>2. posted'[s] = (k - 1) * Effect(body[s])
        BY <2>2, <2>5, <3>1, <3>4, OneMore DEF Sign, CountedTimes
      <4>3. CountedTimes(s, k - 1)'
        BY <2>4, <3>1, <3>2, <4>1, <4>2 DEF CountedTimes
      <4>. QED
        BY <4>3
    <3>. QED
      BY <3>2, <3>3, <3>4
  <2>. QED
    BY <2>2, <2>6
<1>4. CASE s \notin Rows(p, a)
  <2>1. posted'[s] = posted[s]
    BY <1>4 DEF Posted
  <2>2. Owner(p, s)' /\ ~Applied(p, s)' => Owner(p, s) /\ ~Applied(p, s)
    <3>. SUFFICES ASSUME Owner(p, s)', ~Applied(p, s)' PROVE Owner(p, s) /\ ~Applied(p, s)
      OBVIOUS
    <3>1. Owner(p, s)
      BY <1>1 DEF Owner
    <3>2. body[s].acc \in Accounts /\ body[s].acc # a
      BY <1>4, <3>1, HeldFacts DEF Rows, Owner
    <3>3. body[s].acc \in todo'[p] \cup {cur'[p]}
      BY DEF Applied
    <3>. QED
      BY <1>1, <3>1, <3>2, <3>3 DEF Applied
  <2>3. \A kind : Owes(s, kind)' => Owes(s, kind)
    BY <1>2, <2>2 DEF Owes
  <2>. QED
    BY <1>1, <2>1, <2>3, RowKeeps, LedgerInts
<1>. QED
  BY <1>3, <1>4

(***************************************************************************)
(* The end of a request, either way, and what follows it owe nothing.      *)
(***************************************************************************)
LEMMA EndCounts ==
    ASSUME LedgerInv, LedgerInv', CountInv, NEW p \in Procs,
           Commit(p) \/ Abort(p) \/ EnqueueAutoLink(p)
    PROVE  CountInv'
<1>. SUFFICES ASSUME NEW s \in Txns
              PROVE  /\ status'[s] = "none" => posted'[s] = 0
                     /\ "edit" \notin drift'[s] => \E k \in Int : CountedTimes(s, k)'
  BY DEF CountInv
<1>1. /\ posted' = posted /\ reqs' = reqs /\ body' = body /\ op' = op
      /\ drift[s] \subseteq drift'[s]
      /\ status'[s] = "none" => status[s] = "none"
      /\ pc'[p] \in {"idle", "enqueue"}
      /\ \A q \in Procs : q # p =>
            pc'[q] = pc[q] /\ got'[q] = got[q] /\ todo'[q] = todo[q] /\ cur'[q] = cur[q]
  BY DEF Commit, Abort, EnqueueAutoLink, audit, LedgerInv, TypeOK
<1>2. \A kind : Owes(s, kind)' => Owes(s, kind)
  <2>1. ~Owner(p, s)'
    BY <1>1 DEF Owner, InTx
  <2>2. \A q \in Procs : q # p => (Owner(q, s)' <=> Owner(q, s))
                                  /\ (Applied(q, s)' <=> Applied(q, s))
    BY <1>1 DEF Owner, Applied
  <2>. QED
    BY <1>1, <2>1, <2>2 DEF Owes
<1>. QED
  BY <1>1, <1>2, RowKeeps, LedgerInts

(***************************************************************************)
(* An edit that changes the effect of a row that counts is noted; of one   *)
(* that does not, it changes nothing that was counted.                     *)
(***************************************************************************)
LEMMA EditCounts ==
    ASSUME LedgerInv, LedgerInv', CountInv, NEW t \in Txns, NEW b \in Bodies,
           UpdateTxn(t, b)
    PROVE  CountInv'
<1>. SUFFICES ASSUME NEW s \in Txns
              PROVE  /\ status'[s] = "none" => posted'[s] = 0
                     /\ "edit" \notin drift'[s] => \E k \in Int : CountedTimes(s, k)'
  BY DEF CountInv
<1>1. /\ posted' = posted /\ reqs' = reqs + 1 /\ status' = status /\ op' = op
      /\ pc' = pc /\ got' = got /\ todo' = todo /\ cur' = cur
      /\ b.acc = body[t].acc /\ Visible(t)
      /\ body'[s] = IF s = t THEN b ELSE body[s]
      /\ drift[s] \subseteq drift'[s]
  BY DEF UpdateTxn, Accept, LedgerInv, TypeOK
<1>2. \A kind : Owes(s, kind)' <=> Owes(s, kind)
  BY <1>1 DEF Owes, Owner, Applied
<1>3. CASE s = t /\ posted[t] = 0
  <2>1. ~Owes(s, "create") /\ ~Owes(s, "delete")
    BY <1>3 DEF Owes, Locked, UpdateTxn
  <2>2. Effect(body'[s]) \in Int /\ reqs' \in Nat /\ posted'[s] = 0
    BY <1>1, <1>3, LedgerInts, EffectInt
  <2>3. posted'[s] = 0 * Effect(body'[s]) /\ -reqs' <= 0
    BY <2>2, OneMore
  <2>4. ~Owes(s, "create")' /\ ~Owes(s, "delete")'
    BY <1>2, <2>1
  <2>5. CountedTimes(s, 0)'
    BY <2>3, <2>4 DEF CountedTimes
  <2>. QED
    BY <2>2, <2>5
<1>4. CASE s # t \/ posted[t] # 0
  <2>1. "edit" \notin drift'[s] => Effect(body'[s]) = Effect(body[s])
    BY <1>1, <1>4 DEF UpdateTxn, LedgerInv, TypeOK
  <2>. QED
    BY <1>1, <1>2, <2>1, RowKeeps, LedgerInts
<1>. QED
  BY <1>3, <1>4

(***************************************************************************)
(* What does not touch rows or requests, but may be one, counts nothing.   *)
(***************************************************************************)
LEMMA OverwriteCounts ==
    ASSUME LedgerInv, LedgerInv', CountInv, reqs <= reqs',
           UNCHANGED <<status, body, pc, op, got, todo, cur, posted, drift>>
    PROVE  CountInv'
<1>. SUFFICES ASSUME NEW s \in Txns
              PROVE  /\ status'[s] = "none" => posted'[s] = 0
                     /\ "edit" \notin drift'[s] => \E k \in Int : CountedTimes(s, k)'
  BY DEF CountInv
<1>1. \A kind : Owes(s, kind)' <=> Owes(s, kind)
  BY DEF Owes, Owner, Applied
<1>. QED
  BY <1>1, RowKeeps

LEMMA CountNext ==
    ASSUME LedgerInv, LedgerInv', CountInv, [Next]_vars
    PROVE  CountInv'
<1>0. reqs \in Nat
  BY LedgerInts
<1>1. ASSUME NEW p \in Procs, NEW a \in Accounts, SkipAccount(p, a) PROVE CountInv'
  <2>1. pc[p] = "metrics" /\ cur[p] = NoAccount /\ cur' = [cur EXCEPT ![p] = NoAccount]
    BY <1>1 DEF SkipAccount, LedgerInv, TypeOK
  <2>. QED
    BY <1>1, <2>1, AccountCounts DEF SkipAccount, dbVars
<1>2. ASSUME NEW p \in Procs, PostBalance(p) PROVE CountInv'
  <2>1. pc[p] = "balance" /\ cur[p] \in Accounts /\ cur[p] \notin todo[p]
    BY <1>2 DEF PostBalance, LedgerInv, TypeOK, CursorOK
  <2>2. todo' = [todo EXCEPT ![p] = @ \ {cur[p]}]
    BY <1>2, <2>1 DEF PostBalance, LedgerInv, TypeOK
  <2>. QED
    BY <1>2, <2>1, <2>2, AccountCounts DEF PostBalance
<1>3. ASSUME NEW p \in Procs, Handler(p) PROVE CountInv'
  BY <1>1, <1>2, <1>3, CreateCounts, DeleteCounts, MetricsCounts, EndCounts DEF Handler
<1>4. ASSUME NEW t \in Txns, NEW b \in Bodies, UpdateTxn(t, b) PROVE CountInv'
  BY <1>4, EditCounts
<1>5. ASSUME NEW a \in Accounts, NEW v \in Amounts, UpdateAccount(a, v) PROVE CountInv'
  BY <1>0, <1>5, OverwriteCounts DEF UpdateAccount, Accept
<1>6. ASSUME NEW v, NEW w, UpdateUser(v, w) PROVE CountInv'
  BY <1>0, <1>6, OverwriteCounts DEF UpdateUser, Accept
<1>7. CASE UNCHANGED vars
  BY <1>0, <1>7, OverwriteCounts DEF vars, dbVars, procVars, audit
<1>. QED
  BY <1>3, <1>4, <1>5, <1>6, <1>7 DEF Next

(***************************************************************************)
(* No interleaving of creates, deletes, repeated deletes and failures ever *)
(* counts a row more than once in the direction of its type, nor more      *)
(* often the other way than there were requests.                           *)
(***************************************************************************)
THEOREM NoRowIsCountedTwice == Spec => []NeverCountedTwice
<1>1. LedgerInv /\ CountInv => NeverCountedTwice
  <2>. SUFFICES ASSUME LedgerInv, CountInv, NEW t \in Txns, "edit" \notin drift[t]
                PROVE  \E k \in -MaxReqs .. 1 : posted[t] = k * Effect(body[t])
    BY DEF NeverCountedTwice
  <2>1. PICK k \in Int : CountedTimes(t, k)
    BY DEF CountInv
  <2>2. k <= 1 /\ -reqs <= k /\ reqs \in Nat /\ reqs <= MaxReqs
    BY <2>1, LedgerInts DEF CountedTimes
  <2>3. k \in -MaxReqs .. 1
    BY <2>2
  <2>. QED
    BY <2>1, <2>3 DEF CountedTimes
<1>2. LedgerInv /\ LedgerInv' /\ CountInv /\ [Next]_vars => CountInv'
  BY CountNext
<1>. QED
  BY <1>1, <1>2, CountInit, LedgerInvariant, PTL DEF Spec

-----------------------------------------------------------------------------
(***************************************************************************)
(* The columns.  The balance is what the user typed plus every posting to  *)
(* a row of the account; a posting is in the lifetime figures one          *)
(* statement earlier than in the balance.                                  *)
(***************************************************************************)
BalanceInv ==
    \A a \in Accounts :
        /\ balance[a] \in Int /\ opening[a] \in Int
        /\ balance[a] = opening[a] + SumOf(posted, RowsOf(a))

Busy == {p \in Procs : pc[p] = "balance"}
Due  == [p \in Procs |-> BalanceStep(p, cur[p])]

MetricsInv ==
    /\ income \in Int /\ expense \in Int /\ netBase \in Int
    /\ torn = {} =>
          income - expense = netBase + SumOf(posted, Txns) + SumOf(Due, Busy)

\* The rows of a ledger, and what was posted of them, can be added up.
LEMMA PostedSums ==
    ASSUME LedgerInv, NEW S \in SUBSET Txns
    PROVE  IsFiniteSet(S) /\ SumOf(posted, S) \in Int
<1>1. IsFiniteSet(S)
  BY FiniteAssumption, FS_Subset DEF FiniteAssumption
<1>2. \A t \in S : posted[t] \in Int
  BY DEF LedgerInv, TypeOK
<1>. QED
  BY <1>1, <1>2, SumType

(***************************************************************************)
(* The three columns of a statement are integers, and its balance column   *)
(* is the difference of the other two.                                     *)
(***************************************************************************)
LEMMA StepColumns ==
    ASSUME LedgerInv, NEW p \in Procs, NEW a
    PROVE  /\ IncomeStep(p, a) \in Int /\ ExpenseStep(p, a) \in Int
           /\ BalanceStep(p, a) \in Int
           /\ BalanceStep(p, a) = IncomeStep(p, a) - ExpenseStep(p, a)
<1>. DEFINE R == Rows(p, a)
            inc == [t \in Txns |-> IncomeDelta(body[t])]
            exp == [t \in Txns |-> ExpenseDelta(body[t])]
            eff == [t \in Txns |-> Effect(body[t])]
<1>1. R \in SUBSET Txns
  BY DEF LedgerInv, TypeOK, Rows
<1>2. IsFiniteSet(R)
  BY <1>1, PostedSums
<1>3. \A t \in R : /\ inc[t] \in Int /\ exp[t] \in Int
                  /\ eff[t] = inc[t] - exp[t]
  <2>. SUFFICES ASSUME NEW t \in R
                PROVE  /\ IncomeDelta(body[t]) \in Int /\ ExpenseDelta(body[t]) \in Int
                       /\ Effect(body[t]) = IncomeDelta(body[t]) - ExpenseDelta(body[t])
    BY <1>1
  <2>1. body[t] \in Bodies \cup {NoBody}
    BY <1>1 DEF LedgerInv, TypeOK
  <2>. QED
    BY <2>1, EffectInt DEF Effect
<1>. HIDE DEF R, inc, exp, eff
<1>4. SumOf(inc, R) \in Int /\ SumOf(exp, R) \in Int
  BY <1>2, <1>3, SumType
<1>5. SumOf(eff, R) = SumOf(inc, R) - SumOf(exp, R)
  BY <1>2, <1>3, SumDifference
<1>6. Sign(p) = 1 \/ Sign(p) = -1
  BY DEF Sign
<1>7. /\ IncomeStep(p, a) = Sign(p) * SumOf(inc, R)
      /\ ExpenseStep(p, a) = Sign(p) * SumOf(exp, R)
      /\ BalanceStep(p, a) = Sign(p) * SumOf(eff, R)
  BY DEF IncomeStep, ExpenseStep, BalanceStep, R, inc, exp, eff
<1>. QED
  BY <1>4, <1>5, <1>6, <1>7

(***************************************************************************)
(* Posting account a for request p adds its balance column to the postings *)
(* of the rows of a, and to nobody else's.                                 *)
(***************************************************************************)
LEMMA PostingAdds ==
    ASSUME LedgerInv, NEW p \in Procs, NEW a \in Accounts, Posted(p, a)
    PROVE  /\ SumOf(posted', Txns) = SumOf(posted, Txns) + BalanceStep(p, a)
           /\ \A b \in Accounts :
                 SumOf(posted', RowsOf(b)) =
                   IF b = a THEN SumOf(posted, RowsOf(b)) + BalanceStep(p, a)
                            ELSE SumOf(posted, RowsOf(b))
<1>. DEFINE R == Rows(p, a)
            eff == [t \in Txns |-> Effect(body[t])]
<1>1. R \in SUBSET Txns /\ R \subseteq RowsOf(a)
  BY DEF LedgerInv, TypeOK, Rows, RowsOf
<1>2. \A t \in Txns : posted[t] \in Int /\ eff[t] \in Int
  BY LedgerInts
<1>3. \A t \in Txns : posted'[t] = IF t \in R THEN posted[t] + Sign(p) * eff[t]
                                            ELSE posted[t]
  BY DEF Posted
<1>4. Sign(p) \in Int /\ (Sign(p) = 1 \/ Sign(p) = -1)
  BY DEF Sign
<1>5. BalanceStep(p, a) = Sign(p) * SumOf(eff, R)
  BY DEF BalanceStep
<1>. HIDE DEF R, eff
<1>6. ASSUME NEW S \in SUBSET Txns, R \subseteq S
      PROVE  SumOf(posted', S) = SumOf(posted, S) + Sign(p) * SumOf(eff, R)
  <2>1. IsFiniteSet(S)
    BY PostedSums
  <2>2. \A t \in S : posted[t] \in Int /\ eff[t] \in Int
    BY <1>2
  <2>3. \A t \in S : posted'[t] = IF t \in R THEN posted[t] + Sign(p) * eff[t]
                                          ELSE posted[t]
    BY <1>3
  <2>. QED
    BY <1>4, <1>6, <2>1, <2>2, <2>3, SumPosting
<1>7. ASSUME NEW b \in Accounts, b # a
      PROVE  SumOf(posted', RowsOf(b)) = SumOf(posted, RowsOf(b))
  <2>1. RowsOf(b) \in SUBSET Txns /\ \A t \in RowsOf(b) : t \notin R
    BY <1>1, <1>7 DEF RowsOf
  <2>2. IsFiniteSet(RowsOf(b)) /\ \A t \in RowsOf(b) : posted'[t] = posted[t]
    BY <1>3, <2>1, PostedSums
  <2>. QED
    BY <2>2, SumSame
<1>8. SumOf(posted', RowsOf(a)) = SumOf(posted, RowsOf(a)) + BalanceStep(p, a)
  <2>1. RowsOf(a) \in SUBSET Txns
    BY DEF RowsOf
  <2>. QED
    BY <1>1, <1>5, <1>6, <2>1
<1>9. SumOf(posted', Txns) = SumOf(posted, Txns) + BalanceStep(p, a)
  BY <1>1, <1>5, <1>6
<1>. QED
  BY <1>7, <1>8, <1>9

(***************************************************************************)
(* The balance column.  A step that leaves the balances, what was posted   *)
(* and the accounts of the rows that count alone keeps it.                 *)
(***************************************************************************)
LEMMA BalanceKeeps ==
    ASSUME LedgerInv, BalanceInv, UNCHANGED <<balance, opening, posted>>,
           \A t \in Txns : body'[t].acc = body[t].acc
    PROVE  BalanceInv'
<1>1. \A a \in Accounts : RowsOf(a)' = RowsOf(a)
  BY DEF RowsOf
<1>. QED
  BY <1>1 DEF BalanceInv

\* A new row counts for nothing yet.
LEMMA CreateBalance ==
    ASSUME LedgerInv, CountInv, BalanceInv, NEW p \in Procs, NEW t \in Txns,
           NEW b \in Bodies, CreateTxn(p, t, b)
    PROVE  BalanceInv'
<1>1. /\ posted' = posted /\ balance' = balance /\ opening' = opening
      /\ \A s \in Txns : s # t => body'[s] = body[s]
      /\ posted[t] = 0
  BY DEF CreateTxn, audit, LedgerInv, TypeOK, CountInv
<1>2. ASSUME NEW a \in Accounts
      PROVE  SumOf(posted, RowsOf(a)') = SumOf(posted, RowsOf(a))
  <2>. DEFINE old == RowsOf(a)
              new == RowsOf(a)'
  <2>1. old \in SUBSET Txns /\ new \in SUBSET Txns /\ old \ {t} = new \ {t}
    BY <1>1 DEF RowsOf
  <2>2. \A s \in Txns : posted[s] \in Int
    BY LedgerInts
  <2>. HIDE DEF old, new
  <2>3. ASSUME NEW S \in SUBSET Txns PROVE SumOf(posted, S) = SumOf(posted, S \ {t})
    <3>1. IsFiniteSet(S) /\ \A s \in S : posted[s] \in Int
      BY <2>2, PostedSums
    <3>. QED
      BY <1>1, <3>1, SumWithout
  <2>4. SumOf(posted, old) = SumOf(posted, new)
    BY <2>1, <2>3
  <2>. QED
    BY <2>4 DEF old, new
<1>. QED
  BY <1>1, <1>2 DEF BalanceInv

(***************************************************************************)
(* The second statement of an account, or its being skipped: the balance   *)
(* and the postings of its rows move by the same amount.                   *)
(***************************************************************************)
LEMMA PostingBalance ==
    ASSUME LedgerInv, BalanceInv, NEW p \in Procs, NEW a \in Accounts, Posted(p, a),
           \A b \in Accounts : balance'[b] = IF b = a THEN balance[b] + BalanceStep(p, a)
                                             ELSE balance[b],
           UNCHANGED <<body, opening>>
    PROVE  BalanceInv'
<1>1. \A b \in Accounts : RowsOf(b)' = RowsOf(b)
  BY DEF RowsOf
<1>2. BalanceStep(p, a) \in Int
  BY StepColumns
<1>. SUFFICES ASSUME NEW b \in Accounts
              PROVE  /\ balance'[b] \in Int /\ opening'[b] \in Int
                     /\ balance'[b] = opening'[b] + SumOf(posted', RowsOf(b))
  BY <1>1 DEF BalanceInv
<1>3. /\ balance[b] \in Int /\ opening[b] \in Int
      /\ balance[b] = opening[b] + SumOf(posted, RowsOf(b))
  BY DEF BalanceInv
<1>4. SumOf(posted, RowsOf(b)) \in Int
  BY PostedSums DEF RowsOf
<1>5. SumOf(posted', RowsOf(b)) = IF b = a THEN SumOf(posted, RowsOf(b)) + BalanceStep(p, a)
                                  ELSE SumOf(posted, RowsOf(b))
  BY PostingAdds
<1>. QED
  BY <1>2, <1>3, <1>4, <1>5

LEMMA BalanceInit == Init => BalanceInv
<1>. SUFFICES ASSUME Init, NEW a \in Accounts
              PROVE  SumOf(posted, RowsOf(a)) = 0
  BY DEF Init, BalanceInv
<1>1. RowsOf(a) = {}
  <2>1. \A t \in Txns : body[t].acc = NoAccount
    BY DEF Init, NoBody
  <2>. QED
    BY <2>1 DEF RowsOf
<1>. QED
  BY <1>1, SumEmpty

LEMMA BalanceNext ==
    ASSUME LedgerInv, CountInv, BalanceInv, [Next]_vars
    PROVE  BalanceInv'
<1>1. ASSUME NEW p \in Procs, PostBalance(p) PROVE BalanceInv'
  <2>1. cur[p] \in Accounts /\ Posted(p, cur[p]) /\ UNCHANGED <<body, opening>>
    BY <1>1 DEF PostBalance, LedgerInv, TypeOK
  <2>2. \A b \in Accounts : balance'[b] = IF b = cur[p] THEN balance[b] + BalanceStep(p, cur[p])
                                           ELSE balance[b]
    BY <1>1 DEF PostBalance, LedgerInv, TypeOK
  <2>. QED
    BY <2>1, <2>2, PostingBalance
<1>2. ASSUME NEW p \in Procs, NEW a \in Accounts, SkipAccount(p, a) PROVE BalanceInv'
  <2>1. Posted(p, a) /\ UNCHANGED <<body, balance, opening>> /\ BalanceStep(p, a) = 0
    BY <1>2 DEF SkipAccount, dbVars
  <2>2. \A b \in Accounts : balance'[b] = IF b = a THEN balance[b] + BalanceStep(p, a)
                                           ELSE balance[b]
    BY <2>1 DEF BalanceInv
  <2>. QED
    BY <2>1, <2>2, PostingBalance
<1>3. ASSUME NEW p \in Procs, Handler(p) PROVE BalanceInv'
  <2>1. ASSUME NEW t \in Txns, NEW b \in Bodies, CreateTxn(p, t, b) PROVE BalanceInv'
    BY <2>1, CreateBalance
  <2>2. ASSUME NEW T \in SUBSET Txns, SoftDeleteTxns(p, T) PROVE BalanceInv'
    BY <2>2, BalanceKeeps DEF SoftDeleteTxns, dbVars, audit
  <2>3. ASSUME NEW a \in Accounts, PostMetrics(p, a) PROVE BalanceInv'
    BY <2>3, BalanceKeeps DEF PostMetrics, audit
  <2>4. CASE Commit(p) \/ EnqueueAutoLink(p)
    BY <2>4, BalanceKeeps DEF Commit, EnqueueAutoLink, audit
  <2>5. CASE Abort(p)
    BY <2>5, BalanceKeeps DEF Abort
  <2>. QED
    BY <1>1, <1>2, <1>3, <2>1, <2>2, <2>3, <2>4, <2>5 DEF Handler
<1>4. ASSUME NEW t \in Txns, NEW b \in Bodies, UpdateTxn(t, b) PROVE BalanceInv'
  <2>1. \A s \in Txns : body'[s].acc = body[s].acc
    BY <1>4 DEF UpdateTxn, LedgerInv, TypeOK
  <2>. QED
    BY <1>4, <2>1, BalanceKeeps DEF UpdateTxn
<1>5. ASSUME NEW a \in Accounts, NEW v \in Amounts, UpdateAccount(a, v) PROVE BalanceInv'
  <2>1. /\ body' = body /\ posted' = posted /\ v \in Int
        /\ \A b \in Accounts :
              /\ balance'[b] = IF b = a THEN v ELSE balance[b]
              /\ opening'[b] = IF b = a THEN v - SumOf(posted, RowsOf(a)) ELSE opening[b]
    BY <1>5 DEF UpdateAccount, LedgerInv, TypeOK
  <2>2. SumOf(posted, RowsOf(a)) \in Int
    BY PostedSums DEF RowsOf
  <2>3. \A b \in Accounts : RowsOf(b)' = RowsOf(b)
    BY <2>1 DEF RowsOf
  <2>. QED
    BY <2>1, <2>2, <2>3 DEF BalanceInv
<1>6. ASSUME NEW v, NEW w, UpdateUser(v, w) PROVE BalanceInv'
  BY <1>6, BalanceKeeps DEF UpdateUser
<1>7. CASE UNCHANGED vars
  BY <1>7, BalanceKeeps DEF vars, dbVars, audit
<1>. QED
  BY <1>3, <1>4, <1>5, <1>6, <1>7 DEF Next

(***************************************************************************)
(* An account that no open request touches and whose rows are all in step  *)
(* shows its opening balance plus its live transactions, whatever creates, *)
(* deletes, edits and failures there were before.                          *)
(***************************************************************************)
THEOREM BalanceShowsLedger == Spec => []BalanceIsLedger
<1>1. LedgerInv /\ BalanceInv => BalanceIsLedger
  <2>. SUFFICES ASSUME LedgerInv, BalanceInv, NEW a \in Accounts,
                       \A t \in RowsOf(a) : drift[t] = {} /\ ~Locked(t)
                PROVE  balance[a] = opening[a]
                                      + SumOf([t \in Txns |-> Settled(t)], RowsOf(a))
    BY DEF BalanceIsLedger
  <2>. DEFINE settled == [t \in Txns |-> Settled(t)]
  <2>1. RowsOf(a) \in SUBSET Txns
    BY DEF RowsOf
  <2>2. \A t \in RowsOf(a) : posted[t] = settled[t]
    BY <2>1 DEF LedgerInv, BalanceExact
  <2>. HIDE DEF settled
  <2>3. SumOf(posted, RowsOf(a)) = SumOf(settled, RowsOf(a))
    BY <2>1, <2>2, PostedSums, SumSame
  <2>4. balance[a] = opening[a] + SumOf(settled, RowsOf(a))
    BY <2>3 DEF BalanceInv
  <2>. QED
    BY <2>4 DEF settled
<1>2. LedgerInv /\ LedgerInv' /\ CountInv /\ [Next]_vars => CountInv'
  BY CountNext
<1>3. LedgerInv /\ CountInv /\ BalanceInv /\ [Next]_vars => BalanceInv'
  BY BalanceNext
<1>. QED
  BY <1>1, <1>2, <1>3, CountInit, BalanceInit, LedgerInvariant, PTL DEF Spec

-----------------------------------------------------------------------------
(***************************************************************************)
(* The lifetime figures.  What a request still owes the balance does not   *)
(* change while others run: its rows are locked, or not yet visible.       *)
(***************************************************************************)
LEMMA DueStays ==
    ASSUME LedgerInv, NEW p \in Procs,
           op'[p] = op[p], cur'[p] = cur[p], got'[p] = got[p],
           \A t \in got[p] : body'[t] = body[t]
    PROVE  Due'[p] = Due[p]
<1>. DEFINE R == Rows(p, cur[p])
            eff == [t \in Txns |-> Effect(body[t])]
            new == [t \in Txns |-> Effect(body'[t])]
<1>1. R \in SUBSET Txns /\ R \subseteq got[p] /\ R = Rows(p, cur[p])'
  BY DEF LedgerInv, TypeOK, Rows
<1>2. IsFiniteSet(R)
  BY <1>1, PostedSums
<1>3. \A t \in R : new[t] = eff[t]
  BY <1>1
<1>4. Sign(p)' = Sign(p)
  BY DEF Sign
<1>. HIDE DEF R, eff, new
<1>5. SumOf(new, R) = SumOf(eff, R)
  BY <1>2, <1>3, SumSame
<1>6. BalanceStep(p, cur[p]) = Sign(p) * SumOf(eff, R)
  BY DEF BalanceStep, R, eff
<1>7. BalanceStep(p, cur[p])' = Sign(p) * SumOf(new, R)
  BY <1>1, <1>4 DEF BalanceStep, new
<1>. QED
  BY <1>5, <1>6, <1>7 DEF Due

LEMMA DueSums ==
    ASSUME LedgerInv
    PROVE  /\ IsFiniteSet(Busy) /\ \A p \in Busy : Due[p] \in Int
           /\ SumOf(Due, Busy) \in Int
<1>1. IsFiniteSet(Busy)
  BY FiniteAssumption, FS_Subset DEF FiniteAssumption, Busy
<1>2. \A p \in Busy : Due[p] \in Int
  BY StepColumns DEF Due, Busy
<1>. QED
  BY <1>1, <1>2, SumType

(***************************************************************************)
(* The same handlers stand between their statements, with the same debts:  *)
(* the two sides move together if income, expense, what the user typed and *)
(* the postings do.                                                        *)
(***************************************************************************)
LEMMA MetricsKeep ==
    ASSUME LedgerInv, MetricsInv, Busy' = Busy, \A p \in Busy : Due'[p] = Due[p],
           torn \subseteq torn', posted' = posted,
           income' \in Int, expense' \in Int,
           netBase' = netBase + (income' - expense') - (income - expense)
    PROVE  MetricsInv'
<1>1. SumOf(Due', Busy) = SumOf(Due, Busy)
  BY DueSums, SumSame
<1>2. /\ SumOf(Due, Busy) \in Int /\ SumOf(posted, Txns) \in Int
      /\ income \in Int /\ expense \in Int /\ netBase \in Int
  BY DueSums, PostedSums DEF MetricsInv
<1>3. torn' = {} => income - expense = netBase + SumOf(posted, Txns) + SumOf(Due, Busy)
  BY DEF MetricsInv
<1>. QED
  BY <1>1, <1>2, <1>3 DEF MetricsInv

\* The two statements of an account: a handler goes into debt, and out again.
LEMMA FirstStatement ==
    ASSUME LedgerInv, LedgerInv', MetricsInv, NEW p \in Procs, NEW a \in Accounts,
           PostMetrics(p, a)
    PROVE  MetricsInv'
<1>1. /\ p \notin Busy /\ Busy' = Busy \cup {p} /\ p \in Busy'
      /\ torn' = torn /\ posted' = posted /\ netBase' = netBase
      /\ income' = income + IncomeStep(p, a) /\ expense' = expense + ExpenseStep(p, a)
  BY DEF PostMetrics, audit, Busy, LedgerInv, TypeOK
<1>2. \A q \in Busy : Due'[q] = Due[q]
  <2>. SUFFICES ASSUME NEW q \in Busy PROVE Due'[q] = Due[q]
    OBVIOUS
  <2>1. q \in Procs /\ q # p
    BY <1>1 DEF Busy
  <2>2. op'[q] = op[q] /\ cur'[q] = cur[q] /\ got'[q] = got[q] /\ body' = body
    BY <2>1 DEF PostMetrics, LedgerInv, TypeOK
  <2>. QED
    BY <2>1, <2>2, DueStays
<1>3. Due'[p] = BalanceStep(p, a)
  <2>1. body' = body /\ op' = op /\ got' = got /\ cur'[p] = a
    BY DEF PostMetrics, LedgerInv, TypeOK
  <2>2. Rows(p, cur[p])' = Rows(p, a) /\ Sign(p)' = Sign(p)
    BY <2>1 DEF Rows, Sign
  <2>3. BalanceStep(p, cur[p])' = BalanceStep(p, a)
    BY <2>1, <2>2 DEF BalanceStep
  <2>. QED
    BY <2>3 DEF Due
<1>4. SumOf(Due', Busy') = Due'[p] + SumOf(Due', Busy)
  <2>1. IsFiniteSet(Busy') /\ \A q \in Busy' : Due'[q] \in Int
    BY <1>1, <1>2, <1>3, DueSums, StepColumns, FS_AddElement
  <2>2. Busy' \ {p} = Busy
    BY <1>1
  <2>3. SumOf(Due', Busy') = Due'[p] + SumOf(Due', Busy' \ {p})
    BY <1>1, <2>1, SumRest
  <2>. QED
    BY <2>2, <2>3
<1>5. SumOf(Due', Busy) = SumOf(Due, Busy)
  BY <1>2, DueSums, SumSame
<1>6. /\ SumOf(Due, Busy) \in Int /\ SumOf(posted, Txns) \in Int
      /\ income \in Int /\ expense \in Int /\ netBase \in Int
  BY DueSums, PostedSums DEF MetricsInv
<1>7. /\ IncomeStep(p, a) \in Int /\ ExpenseStep(p, a) \in Int
      /\ BalanceStep(p, a) = IncomeStep(p, a) - ExpenseStep(p, a)
  BY StepColumns
<1>8. torn = {} => income - expense = netBase + SumOf(posted, Txns) + SumOf(Due, Busy)
  BY DEF MetricsInv
<1>. QED
  BY <1>1, <1>3, <1>4, <1>5, <1>6, <1>7, <1>8 DEF MetricsInv

LEMMA SecondStatement ==
    ASSUME LedgerInv, LedgerInv', MetricsInv, NEW p \in Procs, PostBalance(p)
    PROVE  MetricsInv'
<1>1. /\ p \in Busy /\ Busy' = Busy \ {p}
      /\ torn' = torn /\ netBase' = netBase /\ income' = income /\ expense' = expense
      /\ cur[p] \in Accounts /\ Posted(p, cur[p])
  BY DEF PostBalance, Posted, Busy, LedgerInv, TypeOK
<1>2. \A q \in Busy' : Due'[q] = Due[q]
  <2>. SUFFICES ASSUME NEW q \in Busy' PROVE Due'[q] = Due[q]
    OBVIOUS
  <2>1. q \in Procs /\ q # p
    BY <1>1 DEF Busy
  <2>2. op'[q] = op[q] /\ cur'[q] = cur[q] /\ got'[q] = got[q] /\ body' = body
    BY <2>1 DEF PostBalance, LedgerInv, TypeOK
  <2>. QED
    BY <2>1, <2>2, DueStays
<1>a. IsFiniteSet(Busy') /\ \A q \in Busy' : Due[q] \in Int
  BY <1>1, DueSums, FS_Subset
<1>3. SumOf(Due', Busy') = SumOf(Due, Busy')
  BY <1>2, <1>a, SumSame
<1>4. SumOf(Due, Busy) = Due[p] + SumOf(Due, Busy')
  BY <1>1, DueSums, SumRest
<1>5. SumOf(posted', Txns) = SumOf(posted, Txns) + Due[p]
  BY <1>1, PostingAdds DEF Due
<1>6. /\ SumOf(Due, Busy') \in Int /\ SumOf(posted, Txns) \in Int /\ Due[p] \in Int
      /\ income \in Int /\ expense \in Int /\ netBase \in Int
  BY <1>1, <1>a, DueSums, SumType, PostedSums DEF MetricsInv
<1>7. torn = {} => income - expense = netBase + SumOf(posted, Txns) + SumOf(Due, Busy)
  BY DEF MetricsInv
<1>. QED
  BY <1>1, <1>3, <1>4, <1>5, <1>6, <1>7 DEF MetricsInv

LEMMA MetricsInit == Init => MetricsInv
<1>. SUFFICES ASSUME Init PROVE SumOf(posted, Txns) = 0 /\ SumOf(Due, Busy) = 0
  BY DEF Init, MetricsInv
<1>1. Busy = {}
  BY DEF Init, Busy
<1>2. SumOf(posted, Txns) = 0
  <2>. DEFINE none == [t \in Txns |-> 0]
  <2>1. IsFiniteSet(Txns)
    BY FiniteAssumption DEF FiniteAssumption
  <2>3. posted = none /\ \A t \in Txns : none[t] = 0
    BY DEF Init
  <2>4. \A t \in Txns : posted[t] \in Int /\ posted[t] = posted[t] - posted[t]
    BY <2>3
  <2>. HIDE DEF none
  <2>5. SumOf(posted, Txns) = SumOf(posted, Txns) - SumOf(posted, Txns)
    BY <2>1, <2>4, SumDifference
  <2>6. SumOf(posted, Txns) \in Int
    BY <2>1, <2>4, SumType
  <2>. QED
    BY <2>5, <2>6
<1>3. SumOf(Due, {}) = 0
  BY SumEmpty
<1>. QED
  BY <1>1, <1>2, <1>3

LEMMA MetricsNext ==
    ASSUME LedgerInv, LedgerInv', MetricsInv, [Next]_vars
    PROVE  MetricsInv'
<1>0. income \in Int /\ expense \in Int /\ netBase \in Int
  BY DEF MetricsInv
<1>1. ASSUME NEW p \in Procs, Handler(p) PROVE MetricsInv'
  <2>1. ASSUME NEW t \in Txns, NEW b \in Bodies, CreateTxn(p, t, b) PROVE MetricsInv'
    <3>1. Busy' = Busy /\ p \notin Busy
      BY <2>1 DEF CreateTxn, Busy, LedgerInv, TypeOK
    <3>2. ASSUME NEW q \in Busy PROVE Due'[q] = Due[q]
      <4>1. q \in Procs /\ q # p /\ \A s \in got[q] : s \in Txns /\ Owner(q, s)
        BY <3>1, <3>2 DEF Busy, Owner, InTx, LedgerInv, TypeOK
      <4>2. \A s \in got[q] : s # t
        BY <2>1, <4>1, HeldFacts DEF CreateTxn
      <4>3. op'[q] = op[q] /\ cur'[q] = cur[q] /\ got'[q] = got[q]
            /\ \A s \in got[q] : body'[s] = body[s]
        BY <2>1, <4>1, <4>2 DEF CreateTxn, LedgerInv, TypeOK
      <4>. QED
        BY <4>1, <4>3, DueStays
    <3>. QED
      BY <1>0, <2>1, <3>1, <3>2, MetricsKeep DEF CreateTxn, audit
  <2>2. ASSUME NEW T \in SUBSET Txns, SoftDeleteTxns(p, T) PROVE MetricsInv'
    <3>1. Busy' = Busy /\ p \notin Busy
      BY <2>2 DEF SoftDeleteTxns, Busy, LedgerInv, TypeOK
    <3>2. ASSUME NEW q \in Busy PROVE Due'[q] = Due[q]
      <4>1. q \in Procs /\ q # p
        BY <3>1, <3>2 DEF Busy
      <4>2. op'[q] = op[q] /\ cur'[q] = cur[q] /\ got'[q] = got[q] /\ body' = body
        BY <2>2, <4>1 DEF SoftDeleteTxns, dbVars, LedgerInv, TypeOK
      <4>. QED
        BY <4>1, <4>2, DueStays
    <3>. QED
      BY <1>0, <2>2, <3>1, <3>2, MetricsKeep DEF SoftDeleteTxns, dbVars, audit
  <2>3. ASSUME NEW a \in Accounts, PostMetrics(p, a) PROVE MetricsInv'
    BY <2>3, FirstStatement
  <2>4. CASE PostBalance(p)
    BY <2>4, SecondStatement
  <2>5. ASSUME NEW a \in Accounts, SkipAccount(p, a) PROVE MetricsInv'
    <3>1. /\ Busy' = Busy /\ torn' = torn /\ netBase' = netBase
          /\ income' = income /\ expense' = expense /\ Posted(p, a)
          /\ BalanceStep(p, a) = 0
      BY <2>5 DEF SkipAccount, Posted, dbVars, Busy, LedgerInv, TypeOK
    <3>2. ASSUME NEW q \in Busy PROVE Due'[q] = Due[q]
      <4>1. q \in Procs
        BY <3>2 DEF Busy
      <4>2. op' = op /\ cur' = cur /\ got' = got /\ body' = body
        BY <2>5 DEF SkipAccount, dbVars
      <4>. QED
        BY <4>1, <4>2, DueStays
    <3>3. SumOf(posted', Txns) = SumOf(posted, Txns) /\ SumOf(posted, Txns) \in Int
      BY <3>1, PostingAdds, PostedSums
    <3>4. SumOf(Due', Busy) = SumOf(Due, Busy)
      BY <3>2, DueSums, SumSame
    <3>. QED
      BY <3>1, <3>3, <3>4 DEF MetricsInv
  <2>6. CASE Commit(p) \/ EnqueueAutoLink(p)
    <3>1. /\ Busy' = Busy /\ p \notin Busy
          /\ UNCHANGED <<body, income, expense, op, cur, audit>>
          /\ \A q \in Procs : q # p => got'[q] = got[q]
      BY <2>6 DEF Commit, EnqueueAutoLink, Busy, LedgerInv, TypeOK
    <3>2. ASSUME NEW q \in Busy PROVE Due'[q] = Due[q]
      <4>1. q \in Procs /\ q # p
        BY <3>1, <3>2 DEF Busy
      <4>. QED
        BY <3>1, <4>1, DueStays
    <3>. QED
      BY <1>0, <3>1, <3>2, MetricsKeep DEF audit
  <2>7. CASE Abort(p)
    <3>1. /\ UNCHANGED <<body, income, expense, op, netBase, posted>>
          /\ torn' = torn \cup ({cur[p]} \ {NoAccount})
          /\ \A q \in Procs : q # p =>
                pc'[q] = pc[q] /\ got'[q] = got[q] /\ cur'[q] = cur[q]
          /\ pc'[p] = "idle"
      BY <2>7 DEF Abort, LedgerInv, TypeOK
    <3>2. CASE p \in Busy
      <4>1. cur[p] \in torn'
        BY <3>1, <3>2 DEF Busy, LedgerInv, TypeOK
      <4>. QED
        BY <1>0, <3>1, <4>1 DEF MetricsInv
    <3>3. CASE p \notin Busy
      <4>1. Busy' = Busy
        BY <3>1, <3>3 DEF Busy
      <4>2. ASSUME NEW q \in Busy PROVE Due'[q] = Due[q]
        <5>1. q \in Procs /\ q # p
          BY <3>3, <4>2 DEF Busy
        <5>. QED
          BY <3>1, <5>1, DueStays
      <4>. QED
        BY <1>0, <3>1, <4>1, <4>2, MetricsKeep
    <3>. QED
      BY <3>2, <3>3
  <2>. QED
    BY <1>1, <2>1, <2>2, <2>3, <2>4, <2>5, <2>6, <2>7 DEF Handler
<1>2. ASSUME NEW t \in Txns, NEW b \in Bodies, UpdateTxn(t, b) PROVE MetricsInv'
  <2>1. /\ Busy' = Busy /\ UNCHANGED <<income, expense, op, cur, got, netBase, posted, torn>>
        /\ ~Locked(t) /\ \A s \in Txns : s # t => body'[s] = body[s]
    BY <1>2 DEF UpdateTxn, Busy, LedgerInv, TypeOK
  <2>2. ASSUME NEW q \in Busy PROVE Due'[q] = Due[q]
    <3>1. q \in Procs /\ got[q] \subseteq Txns /\ t \notin got[q]
      BY <2>1, <2>2 DEF Busy, Locked, Owner, InTx, LedgerInv, TypeOK
    <3>2. \A s \in got[q] : body'[s] = body[s]
      BY <2>1, <3>1
    <3>. QED
      BY <2>1, <3>1, <3>2, DueStays
  <2>. QED
    BY <1>0, <2>1, <2>2, MetricsKeep
<1>3. ASSUME UNCHANGED <<body, pc, op, cur, got, posted, torn>>,
             income' \in Int, expense' \in Int,
             netBase' = netBase + (income' - expense') - (income - expense)
      PROVE  MetricsInv'
  <2>1. Busy' = Busy
    BY <1>3 DEF Busy
  <2>2. \A q \in Busy : Due'[q] = Due[q]
    BY <1>3, DueStays DEF Busy
  <2>. QED
    BY <1>3, <2>1, <2>2, MetricsKeep
<1>4. ASSUME NEW a \in Accounts, NEW v \in Amounts, UpdateAccount(a, v) PROVE MetricsInv'
  BY <1>0, <1>3, <1>4 DEF UpdateAccount
<1>5. ASSUME NEW v \in Amounts \cup {income}, NEW w \in Amounts \cup {expense},
             UpdateUser(v, w)
      PROVE  MetricsInv'
  <2>1. v \in Int /\ w \in Int
    BY <1>0
  <2>. QED
    BY <1>3, <1>5, <2>1 DEF UpdateUser
<1>6. CASE UNCHANGED vars
  BY <1>0, <1>3, <1>6 DEF vars, dbVars, procVars, audit
<1>. QED
  BY <1>1, <1>2, <1>4, <1>5, <1>6 DEF Next

(***************************************************************************)
(* The lifetime figures and the balances are written by different          *)
(* statements of different transactions.  As long as no request died       *)
(* between its two, they differ by what the user typed and by the requests *)
(* that stand between the two statements now, and by nothing else.         *)
(***************************************************************************)
THEOREM MetricsFollow == Spec => []MetricsFollowBalance
<1>1. MetricsInv => MetricsFollowBalance
  BY DEF MetricsInv, MetricsFollowBalance, Due, Busy
<1>2. LedgerInv /\ LedgerInv' /\ MetricsInv /\ [Next]_vars => MetricsInv'
  BY MetricsNext
<1>. QED
  BY <1>1, <1>2, MetricsInit, LedgerInvariant, PTL DEF Spec
=============================================================================
