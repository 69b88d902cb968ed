------------------------ MODULE ReconciliationProofs ------------------------
(***************************************************************************)
(* Proofs about Reconciliation, for every set of uploads, workbooks and    *)
(* user transactions, every finite set of invocations and every bound on   *)
(* tries and copies.                                                       *)
(***************************************************************************)
EXTENDS Reconciliation, JobQueueProofs, MatchProofs

-----------------------------------------------------------------------------
(***************************************************************************)
(* The steps inside a run do nothing to the job; the last one is its Run.  *)
(***************************************************************************)
LEMMA RunStepsStutter ==
    ASSUME NEW w \in Workers, RunStep(w)
    PROVE  UNCHANGED jobVars \/ \E b \in BOOLEAN : Run(w, b)
<1>1. CASE MarkUpload(w) \/ FetchRows(w) \/ LatestTxn(w) \/ FetchApps(w)
  BY <1>1 DEF MarkUpload, FetchRows, LatestTxn, FetchApps
<1>2. CASE CreateMissing(w) \/ NothingMissing(w) \/ PostMetrics(w) \/ PostBalance(w)
  BY <1>2 DEF CreateMissing, NothingMissing, PostMetrics, PostBalance
<1>3. CASE MarkVerified(w) \/ InsertResults(w)
  BY <1>3 DEF MarkVerified, InsertResults
<1>4. CASE NothingToDo(w) \/ MarkDone(w) \/ Fails(w)
  BY <1>4 DEF NothingToDo, MarkDone, Fails, Finish
<1>. QED
  BY <1>1, <1>2, <1>3, <1>4 DEF RunStep

(***************************************************************************)
(* A reconciliation is a run of a background job like any other.           *)
(***************************************************************************)
LEMMA StepIsAJobStep == [ReconNext]_<<jobVars, reconVars>> => [Next]_jobVars
<1>. SUFFICES ASSUME ReconNext PROVE [Next]_jobVars
  OBVIOUS
<1>1. ASSUME NEW j \in Jobs, EnqueueBankReconciliation(j) PROVE Next
  BY <1>1 DEF EnqueueBankReconciliation, Next, Enqueue
<1>2. ASSUME NEW j \in Jobs, Upload(j) \/ DeleteUpload(j) PROVE UNCHANGED jobVars
  BY <1>2 DEF Upload, DeleteUpload
<1>3. ASSUME NEW u \in DOMAIN UserItems, UserCreates(u) PROVE UNCHANGED jobVars
  BY <1>3 DEF UserCreates
<1>4. ASSUME NEW t \in DOMAIN txns, UserDeletes(t) PROVE UNCHANGED jobVars
  BY <1>4 DEF UserDeletes
<1>5. ASSUME NEW w \in Workers, Works(w) PROVE [Next]_jobVars
  BY <1>5, RunStepsStutter DEF Works, Next, Step
<1>6. ASSUME NEW w \in Workers, Dies(w) PROVE Next
  BY <1>6 DEF Dies, Next
<1>. QED
  BY <1>1, <1>2, <1>3, <1>4, <1>5, <1>6 DEF ReconNext, UserSteps

(***************************************************************************)
(* A reconciliation is a run of a background job like any other.           *)
(***************************************************************************)
THEOREM ReconciliationIsAJob == ReconSpec => ImplementsJobQueue
<1>1. ReconInit => JobInit
  BY DEF ReconInit
<1>. QED
  BY <1>1, StepIsAJobStep, PTL DEF ReconSpec, ImplementsJobQueue, Spec

-----------------------------------------------------------------------------
(***************************************************************************)
(* The tables and the runs are well formed.                                *)
(***************************************************************************)
TxnSet == [at : {s.at : s \in Items}, amount : {s.amount : s \in Items},
           type : {s.type : s \in Items}, desc : {s.desc : s \in Items},
           ref : {s.ref : s \in Items}, auto : BOOLEAN, live : BOOLEAN,
           verified : BOOLEAN, stmt : Jobs \cup {NoStmt}, met : Int, bal : Int]

Stages == {"start", "rows", "latest", "apps", "create", "metrics", "balance",
           "verify", "done"}

LocalFields == {"rows", "latest", "results", "made", "todo"}

WellFormed ==
    /\ status \in [Jobs -> {"none", "UPLOADED", "PROCESSING", "COMPLETED", "deleted"}]
    /\ stmt \in [Jobs -> Seq(Items)]
    /\ txns \in Seq(TxnSet)
    /\ DOMAIN results = Jobs
    /\ stage \in [Workers -> Stages]
    /\ DOMAIN local = Workers
    /\ \A w \in Workers : DOMAIN local[w] = LocalFields /\ local[w].rows \in Seq(Items)
    /\ \A w \in Workers : pc[w] # "run" => stage[w] = "start" /\ local[w] = Fresh

LEMMA TxnInSet ==
    ASSUME NEW s \in Items, NEW auto \in BOOLEAN, NEW owner \in Jobs \cup {NoStmt}
    PROVE  Txn(s, auto, owner) \in TxnSet
BY DEF Txn, TxnSet

(***************************************************************************)
(* What the writes do to the fields the properties speak of.               *)
(***************************************************************************)
Like(q, r) == /\ q \in TxnSet /\ q.auto = r.auto
              /\ SameRow(q, r) /\ (r.verified => q.verified)

LEMMA LikeItself == \A r \in TxnSet : Like(r, r)
BY DEF Like, SameRow

LEMMA PostsMetrics ==
    ASSUME NEW r \in TxnSet, NEW q, q = [r EXCEPT !.met = @ + 1]
    PROVE  Like(q, r) /\ q.live = r.live /\ q.met = r.met + 1 /\ q.bal = r.bal
                      /\ q.stmt = r.stmt
BY DEF TxnSet, Like, SameRow, RowHash

LEMMA PostsBalance ==
    ASSUME NEW r \in TxnSet, NEW q, q = [r EXCEPT !.bal = @ + 1]
    PROVE  Like(q, r) /\ q.live = r.live /\ q.met = r.met /\ q.bal = r.bal + 1
                      /\ q.stmt = r.stmt
BY DEF TxnSet, Like, SameRow, RowHash

LEMMA Deletes ==
    ASSUME NEW r \in TxnSet, NEW q,
           q = [r EXCEPT !.live = FALSE, !.met = r.met - 1, !.bal = r.bal - 1]
    PROVE  Like(q, r) /\ q.live = FALSE /\ q.met = r.met - 1 /\ q.bal = r.bal - 1
                      /\ q.stmt = r.stmt
<1>1. r.met - 1 \in Int /\ r.bal - 1 \in Int
  BY DEF TxnSet
<1>. QED
  BY <1>1 DEF TxnSet, Like, SameRow, RowHash

(***************************************************************************)
(* A write that changes fields of transactions leaves the list a list.     *)
(***************************************************************************)
LEMMA SameList ==
    ASSUME txns \in Seq(TxnSet), DOMAIN txns' = DOMAIN txns,
           txns' = [t \in DOMAIN txns' |-> txns'[t]],
           \A t \in DOMAIN txns : txns'[t] \in TxnSet
    PROVE  txns' \in Seq(TxnSet) /\ Len(txns') = Len(txns)
<1>1. DOMAIN txns = 1 .. Len(txns) /\ Len(txns) \in Nat
  BY LenProperties
<1>2. txns' \in [1 .. Len(txns) -> TxnSet]
  BY <1>1
<1>. QED
  BY <1>1, <1>2, AsSeq

LEMMA MissingRows ==
    ASSUME WellFormed, NEW w \in Workers
    PROVE  /\ \A k \in DOMAIN Missing(w) :
                 /\ Missing(w)[k] \in DOMAIN local[w].rows
                 /\ local[w].results[Missing(w)[k]].kind = "MISSING"
           /\ Len(Missing(w)) \in Nat /\ DOMAIN Missing(w) = 1 .. Len(Missing(w))
           /\ \A k \in DOMAIN Missing(w) : local[w].rows[Missing(w)[k]] \in Items
<1>. DEFINE D == DOMAIN local[w].rows
            M == {i \in D : local[w].results[i].kind = "MISSING"}
            S(tail) == {i \in D : /\ local[w].results[i].kind = "MISSING"
                                  /\ InTail(local[w].rows[i], local[w].latest) = tail}
<1>1. local[w].rows \in Seq(Items)
  BY DEF WellFormed
<1>2. D \in SUBSET Int /\ IsFiniteSet(D)
  <2>1. D = 1 .. Len(local[w].rows) /\ Len(local[w].rows) \in Nat
    BY <1>1, LenProperties
  <2>. QED
    BY <2>1, FS_Interval
<1>3. ASSUME NEW tail \in BOOLEAN PROVE InOrder(S(tail)) \in Seq(M)
  <2>1. S(tail) \in SUBSET Int /\ IsFiniteSet(S(tail))
    BY <1>2, FS_Subset
  <2>2. Cardinality(S(tail)) \in Nat /\ InOrder(S(tail)) \in [1 .. Cardinality(S(tail)) -> M]
    BY <2>1, InOrderMembers
  <2>. QED
    BY <2>2, AsSeq
<1>4. Missing(w) = InOrder(S(TRUE)) \o InOrder(S(FALSE))
  BY DEF Missing
<1>5. Missing(w) \in Seq(M)
  <2>. HIDE DEF S, M
  <2>1. InOrder(S(TRUE)) \in Seq(M) /\ InOrder(S(FALSE)) \in Seq(M)
    BY <1>3
  <2>. QED
    BY <1>4, <2>1, ConcatProperties
<1>. HIDE DEF D, M
<1>6. Len(Missing(w)) \in Nat /\ Missing(w) \in [1 .. Len(Missing(w)) -> M]
  BY <1>5, LenProperties
<1>7. \A i \in D : local[w].rows[i] \in Items
  BY <1>1, LenProperties DEF D
<1>. QED
  BY <1>5, <1>6, <1>7 DEF D, M

(***************************************************************************)
(* A run is of a job, and the steps of other invocations leave it alone.   *)
(***************************************************************************)
LEMMA RunsAJob ==
    ASSUME JobInv, NEW w \in Workers, pc[w] = "run"
    PROVE  Job(w) \in Jobs /\ Busy(w)
BY DEF JobInv, TypeOK, Busy, Events, Job

LEMMA WellFormedInit == ReconInit => WellFormed
<1>1. Fresh.rows \in Seq(Items)
  BY EmptySeq DEF Fresh
<1>2. DOMAIN Fresh = LocalFields
  BY DEF Fresh, LocalFields
<1>3. << >> \in Seq(Items) /\ << >> \in Seq(TxnSet)
  BY EmptySeq
<1>. QED
  BY <1>1, <1>2, <1>3 DEF ReconInit, WellFormed, Stages

(***************************************************************************)
(* What a step of a run, but its last, does to the variables of the runs.  *)
(***************************************************************************)
LEMMA RunShape ==
    ASSUME WellFormed, JobInv, NEW w \in Workers, pc[w] = "run", pc' = pc,
           NEW label \in Stages, stage' = [stage EXCEPT ![w] = label],
           DOMAIN local' = Workers,
           \A v \in Workers : v # w => local'[v] = local[v],
           DOMAIN local'[w] = LocalFields, local'[w].rows \in Seq(Items)
    PROVE  /\ stage' \in [Workers -> Stages]
           /\ DOMAIN local' = Workers
           /\ \A v \in Workers : DOMAIN local'[v] = LocalFields /\ local'[v].rows \in Seq(Items)
           /\ \A v \in Workers : pc'[v] # "run" => stage'[v] = "start" /\ local'[v] = Fresh
BY DEF WellFormed

LEMMA WellFormedWrites ==
    ASSUME WellFormed, JobInv, NEW w \in Workers, RunStep(w)
    PROVE  /\ status' \in [Jobs -> {"none", "UPLOADED", "PROCESSING", "COMPLETED", "deleted"}]
           /\ stmt' = stmt /\ DOMAIN results' = Jobs
<1>1. pc[w] = "run" /\ Job(w) \in Jobs
  BY RunsAJob DEF RunStep, MarkUpload, FetchRows, LatestTxn, FetchApps, CreateMissing,
     NothingMissing, PostMetrics, PostBalance, MarkVerified, InsertResults, NothingToDo,
     MarkDone, Fails, At
<1>2. CASE MarkUpload(w) \/ MarkDone(w) \/ NothingToDo(w)
  BY <1>1, <1>2 DEF WellFormed, MarkUpload, MarkDone, NothingToDo, WriteStatus
<1>3. CASE InsertResults(w)
  BY <1>1, <1>3 DEF WellFormed, InsertResults
<1>. QED
  BY <1>2, <1>3 DEF WellFormed, RunStep, FetchRows, LatestTxn, FetchApps, CreateMissing,
     NothingMissing, PostMetrics, PostBalance, MarkVerified, Fails

(***************************************************************************)
(* What a run writes of the transactions there are.                        *)
(***************************************************************************)
LEMMA PostMetricsWrites ==
    ASSUME WellFormed, NEW w \in Workers, PostMetrics(w)
    PROVE  /\ txns' \in Seq(TxnSet) /\ Len(txns') = Len(txns)
           /\ \A t \in DOMAIN txns :
                 /\ Like(txns'[t], txns[t]) /\ txns'[t].live = txns[t].live
                 /\ txns'[t].bal = txns[t].bal /\ txns'[t].stmt = txns[t].stmt
           /\ \/ /\ stage' = [stage EXCEPT ![w] = "balance"]
                 /\ UNCHANGED <<unmetered, unposted>>
                 /\ \A t \in DOMAIN txns : txns'[t].met =
                        IF t \in local[w].made THEN txns[t].met + 1 ELSE txns[t].met
              \/ /\ stage' = [stage EXCEPT ![w] = "verify"] /\ txns' = txns
                 /\ unmetered' = unmetered \cup local[w].made
                 /\ unposted' = unposted \cup local[w].made
<1>1. txns \in Seq(TxnSet) /\ \A t \in DOMAIN txns : txns[t] \in TxnSet
  BY LenProperties DEF WellFormed
<1>2. CASE txns' = [t \in DOMAIN txns |-> IF t \in local[w].made
                       THEN [txns[t] EXCEPT !.met = @ + 1] ELSE txns[t]]
           /\ Goes(w, "balance") /\ UNCHANGED <<unmetered, unposted>>
  <2>1. \A t \in DOMAIN txns :
           /\ t \in local[w].made => txns'[t] = [txns[t] EXCEPT !.met = @ + 1]
           /\ t \notin local[w].made => txns'[t] = txns[t]
    BY <1>2
  <2>2. \A t \in DOMAIN txns :
           /\ Like(txns'[t], txns[t]) /\ txns'[t].live = txns[t].live
           /\ txns'[t].bal = txns[t].bal /\ txns'[t].stmt = txns[t].stmt
           /\ txns'[t].met = IF t \in local[w].made THEN txns[t].met + 1 ELSE txns[t].met
    BY <1>1, <2>1, PostsMetrics, LikeItself
  <2>3. DOMAIN txns' = DOMAIN txns /\ txns' = [t \in DOMAIN txns' |-> txns'[t]]
    BY <1>2
  <2>4. txns' \in Seq(TxnSet) /\ Len(txns') = Len(txns)
    BY <1>1, <2>2, <2>3, SameList DEF Like
  <2>. QED
    BY <1>2, <2>2, <2>4 DEF Goes
<1>3. CASE txns' = txns /\ Goes(w, "verify")
           /\ unmetered' = unmetered \cup local[w].made
           /\ unposted' = unposted \cup local[w].made
  BY <1>1, <1>3, LikeItself DEF Goes
<1>. QED
  BY <1>2, <1>3 DEF PostMetrics

LEMMA PostBalanceWrites ==
    ASSUME WellFormed, NEW w \in Workers, PostBalance(w)
    PROVE  /\ txns' \in Seq(TxnSet) /\ Len(txns') = Len(txns)
           /\ \A t \in DOMAIN txns :
                 /\ Like(txns'[t], txns[t]) /\ txns'[t].live = txns[t].live
                 /\ txns'[t].met = txns[t].met /\ txns'[t].stmt = txns[t].stmt
           /\ stage' = [stage EXCEPT ![w] = "verify"] /\ unmetered' = unmetered
           /\ \/ /\ unposted' = unposted
                 /\ \A t \in DOMAIN txns : txns'[t].bal =
                        IF t \in local[w].made THEN txns[t].bal + 1 ELSE txns[t].bal
              \/ /\ unposted' = unposted \cup local[w].made /\ txns' = txns
<1>1. txns \in Seq(TxnSet) /\ \A t \in DOMAIN txns : txns[t] \in TxnSet
  BY LenProperties DEF WellFormed
<1>2. CASE txns' = [t \in DOMAIN txns |-> IF t \in local[w].made
                       THEN [txns[t] EXCEPT !.bal = @ + 1] ELSE txns[t]]
           /\ UNCHANGED unposted
  <2>1. \A t \in DOMAIN txns :
           /\ t \in local[w].made => txns'[t] = [txns[t] EXCEPT !.bal = @ + 1]
           /\ t \notin local[w].made => txns'[t] = txns[t]
    BY <1>2
  <2>2. \A t \in DOMAIN txns :
           /\ Like(txns'[t], txns[t]) /\ txns'[t].live = txns[t].live
           /\ txns'[t].met = txns[t].met /\ txns'[t].stmt = txns[t].stmt
           /\ txns'[t].bal = IF t \in local[w].made THEN txns[t].bal + 1 ELSE txns[t].bal
    BY <1>1, <2>1, PostsBalance, LikeItself
  <2>3. DOMAIN txns' = DOMAIN txns /\ txns' = [t \in DOMAIN txns' |-> txns'[t]]
    BY <1>2
  <2>4. txns' \in Seq(TxnSet) /\ Len(txns') = Len(txns)
    BY <1>1, <2>2, <2>3, SameList DEF Like
  <2>. QED
    BY <1>2, <2>2, <2>4 DEF PostBalance, Goes
<1>3. CASE txns' = txns /\ unposted' = unposted \cup local[w].made
  BY <1>1, <1>3, LikeItself DEF PostBalance, Goes
<1>. QED
  BY <1>2, <1>3 DEF PostBalance

LEMMA MarkVerifiedWrites ==
    ASSUME WellFormed, NEW w \in Workers, Job(w) \in Jobs, MarkVerified(w)
    PROVE  /\ txns' \in Seq(TxnSet) /\ Len(txns') = Len(txns)
           /\ \A t \in DOMAIN txns :
                 /\ Like(txns'[t], txns[t]) /\ txns'[t].live = txns[t].live
                 /\ txns'[t].met = txns[t].met /\ txns'[t].bal = txns[t].bal
                 /\ \/ txns'[t].stmt = txns[t].stmt
                    \/ Exists(Job(w)) /\ txns'[t].stmt = Job(w)
<1>1. txns \in Seq(TxnSet) /\ \A t \in DOMAIN txns : txns[t] \in TxnSet
  BY LenProperties DEF WellFormed
<1>2. ASSUME NEW v, Exists(Job(w)),
             txns' = [txns EXCEPT ![v].verified = TRUE, ![v].stmt = Job(w)]
      PROVE  /\ txns' \in Seq(TxnSet) /\ Len(txns') = Len(txns)
             /\ \A t \in DOMAIN txns :
                   /\ Like(txns'[t], txns[t]) /\ txns'[t].live = txns[t].live
                   /\ txns'[t].met = txns[t].met /\ txns'[t].bal = txns[t].bal
                   /\ txns'[t].stmt \in {txns[t].stmt, Job(w)}
  <2>1. \A t \in DOMAIN txns :
           \/ txns'[t] = [[txns[t] EXCEPT !.verified = TRUE] EXCEPT !.stmt = Job(w)]
           \/ txns'[t] = txns[t]
    BY <1>2
  <2>2. ASSUME NEW t \in DOMAIN txns
        PROVE  /\ Like(txns'[t], txns[t]) /\ txns'[t].live = txns[t].live
               /\ txns'[t].met = txns[t].met /\ txns'[t].bal = txns[t].bal
               /\ txns'[t].stmt \in {txns[t].stmt, Job(w)}
    <3>1. CASE txns'[t] = [[txns[t] EXCEPT !.verified = TRUE] EXCEPT !.stmt = Job(w)]
      <4>1. txns[t] \in TxnSet
        BY <1>1
      <4>. QED
        BY <3>1, <4>1 DEF TxnSet, Like, SameRow, RowHash
    <3>2. CASE txns'[t] = txns[t]
      BY <1>1, <3>2, LikeItself
    <3>. QED
      BY <2>1, <3>1, <3>2
  <2>3. DOMAIN txns' = DOMAIN txns /\ txns' = [t \in DOMAIN txns' |-> txns'[t]]
    BY <1>2
  <2>4. txns' \in Seq(TxnSet) /\ Len(txns') = Len(txns)
    BY <1>1, <2>2, <2>3, SameList DEF Like
  <2>. QED
    BY <2>2, <2>4
<1>3. CASE txns' = txns
  BY <1>1, <1>3, LikeItself
<1>. QED
  BY <1>2, <1>3 DEF MarkVerified

LEMMA CreateMissingWrites ==
    ASSUME WellFormed, NEW w \in Workers, Job(w) \in Jobs, CreateMissing(w)
    PROVE  /\ txns' \in Seq(TxnSet) /\ Exists(Job(w))
           /\ Len(txns) \in Nat /\ Len(txns') \in Nat /\ Len(txns) <= Len(txns')
           /\ \A t \in 1 .. Len(txns) : txns'[t] = txns[t]
           /\ \A t \in Len(txns) + 1 .. Len(txns') :
                 /\ txns'[t].auto /\ txns'[t].live /\ txns'[t].stmt = Job(w)
                 /\ txns'[t].met = 0 /\ txns'[t].bal = 0
                 /\ \E i \in DOMAIN local[w].rows :
                       /\ local[w].results[i].kind = "MISSING"
                       /\ SameRow(txns'[t], local[w].rows[i])
           /\ local'[w].made = Len(txns) + 1 .. Len(txns')
<1>. DEFINE batch == Missing(w)
            new == [k \in DOMAIN batch |-> Txn(local[w].rows[batch[k]], TRUE, Job(w))]
<1>1. /\ txns' = txns \o new /\ Exists(Job(w))
      /\ local'[w].made = {Len(txns) + k : k \in DOMAIN batch}
  BY DEF CreateMissing, WellFormed, LocalFields
<1>2. new \in [1 .. Len(batch) -> TxnSet] /\ Len(batch) \in Nat
      /\ DOMAIN batch = 1 .. Len(batch)
  BY MissingRows, TxnInSet
<1>3. new \in Seq(TxnSet) /\ Len(new) = Len(batch) /\ txns \in Seq(TxnSet)
  BY <1>2, AsSeq DEF WellFormed
<1>4. Len(txns) \in Nat
  BY <1>3, LenProperties
<1>5. \A k \in DOMAIN batch : /\ new[k].auto /\ new[k].live /\ new[k].stmt = Job(w)
                              /\ new[k].met = 0 /\ new[k].bal = 0
                              /\ batch[k] \in DOMAIN local[w].rows
                              /\ local[w].results[batch[k]].kind = "MISSING"
                              /\ SameRow(new[k], local[w].rows[batch[k]])
  BY MissingRows DEF Txn, SameRow, RowHash
<1>. HIDE DEF batch, new
<1>c. /\ txns \o new \in Seq(TxnSet) /\ Len(txns \o new) = Len(txns) + Len(new)
      /\ \A t \in 1 .. Len(txns) + Len(new) :
            (txns \o new)[t] = IF t <= Len(txns) THEN txns[t] ELSE new[t - Len(txns)]
  BY <1>3, ConcatProperties
<1>6. /\ txns' \in Seq(TxnSet) /\ Len(txns') = Len(txns) + Len(batch)
      /\ \A t \in 1 .. Len(txns) + Len(batch) :
            txns'[t] = IF t <= Len(txns) THEN txns[t] ELSE new[t - Len(txns)]
  BY <1>1, <1>3, <1>c
<1>7. ASSUME NEW t \in Len(txns) + 1 .. Len(txns')
      PROVE  /\ txns'[t].auto /\ txns'[t].live /\ txns'[t].stmt = Job(w)
             /\ txns'[t].met = 0 /\ txns'[t].bal = 0
             /\ \E i \in DOMAIN local[w].rows :
                   /\ local[w].results[i].kind = "MISSING"
                   /\ SameRow(txns'[t], local[w].rows[i])
  <2>1. t - Len(txns) \in DOMAIN batch /\ txns'[t] = new[t - Len(txns)]
    BY <1>2, <1>4, <1>6
  <2>. QED
    BY <2>1, <1>5
<1>8. local'[w].made = Len(txns) + 1 .. Len(txns')
  <2>1. \A t \in Len(txns) + 1 .. Len(txns') : t - Len(txns) \in 1 .. Len(batch)
                                           /\ t = Len(txns) + (t - Len(txns))
    BY <1>2, <1>4, <1>6
  <2>2. local'[w].made = {Len(txns) + k : k \in 1 .. Len(batch)}
    BY <1>1, <1>2
  <2>3. \A k \in 1 .. Len(batch) : Len(txns) + k \in Len(txns) + 1 .. Len(txns')
    BY <1>2, <1>4, <1>6
  <2>. QED
    BY <2>1, <2>2, <2>3
<1>9. /\ Len(txns') \in Nat /\ Len(txns) <= Len(txns')
      /\ \A t \in 1 .. Len(txns) : txns'[t] = txns[t]
  BY <1>2, <1>4, <1>6
<1>. QED
  BY <1>1, <1>4, <1>6, <1>7, <1>8, <1>9

LEMMA WellFormedTxns ==
    ASSUME WellFormed, JobInv, NEW w \in Workers, RunStep(w)
    PROVE  txns' \in Seq(TxnSet)
<1>1. pc[w] = "run" /\ Job(w) \in Jobs
  BY RunsAJob DEF RunStep, MarkUpload, FetchRows, LatestTxn, FetchApps, CreateMissing,
     NothingMissing, PostMetrics, PostBalance, MarkVerified, InsertResults, NothingToDo,
     MarkDone, Fails, At
<1>. QED
  BY <1>1, PostMetricsWrites, PostBalanceWrites, MarkVerifiedWrites, CreateMissingWrites
     DEF WellFormed, RunStep, MarkUpload, FetchRows, LatestTxn, FetchApps,
     NothingMissing, InsertResults, NothingToDo, MarkDone, Fails

(***************************************************************************)
(* What users write of the transactions there are.                         *)
(***************************************************************************)
LEMMA UserWrites ==
    ASSUME WellFormed,
           \/ \E u \in DOMAIN UserItems : UserCreates(u)
           \/ \E t \in DOMAIN txns : UserDeletes(t)
           \/ \E j \in Jobs : DeleteUpload(j)
    PROVE  /\ txns' \in Seq(TxnSet) /\ Len(txns) \in Nat
           /\ Len(txns') \in {Len(txns), Len(txns) + 1}
           /\ \A t \in DOMAIN txns : Like(txns'[t], txns[t])
           /\ \A t \in DOMAIN txns' \ DOMAIN txns :
                 /\ ~txns'[t].auto /\ txns'[t].stmt = NoStmt /\ txns'[t].live
                 /\ txns'[t].met = 1 /\ txns'[t].bal = 1
           /\ \A t \in DOMAIN txns :
                 \/ /\ txns'[t].live = txns[t].live
                    /\ txns'[t].met = txns[t].met /\ txns'[t].bal = txns[t].bal
                 \/ /\ txns[t].live /\ ~txns'[t].live
                    /\ txns'[t].met = txns[t].met - 1 /\ txns'[t].bal = txns[t].bal - 1
           /\ \A t \in DOMAIN txns : txns'[t].stmt \in {txns[t].stmt, NoStmt}
<1>1. /\ txns \in Seq(TxnSet) /\ \A t \in DOMAIN txns : txns[t] \in TxnSet
      /\ Len(txns) \in Nat /\ DOMAIN txns = 1 .. Len(txns)
  BY LenProperties DEF WellFormed
<1>2. ASSUME NEW u \in DOMAIN UserItems, UserCreates(u)
      PROVE  /\ txns' \in Seq(TxnSet) /\ Len(txns') = Len(txns) + 1
             /\ \A t \in DOMAIN txns : txns'[t] = txns[t]
             /\ ~txns'[Len(txns) + 1].auto /\ txns'[Len(txns) + 1].stmt = NoStmt
             /\ txns'[Len(txns) + 1].live
             /\ txns'[Len(txns) + 1].met = 1 /\ txns'[Len(txns) + 1].bal = 1
  <2>. DEFINE new == Txn(UserItems[u], FALSE, NoStmt)
  <2>1. UserItems[u] \in Items
    <3>1. UserItems[u] \in Range(UserItems)
      BY DEF Range
    <3>. QED
      BY <3>1 DEF Items
  <2>2. /\ new \in TxnSet /\ ~new.auto /\ new.stmt = NoStmt
        /\ new.live /\ new.met = 1 /\ new.bal = 1
    BY <2>1, TxnInSet DEF Txn
  <2>3. txns' = Append(txns, new)
    BY <1>2 DEF UserCreates
  <2>. HIDE DEF new
  <2>4. /\ Append(txns, new) \in Seq(TxnSet) /\ Len(Append(txns, new)) = Len(txns) + 1
        /\ \A t \in 1 .. Len(txns) : Append(txns, new)[t] = txns[t]
        /\ Append(txns, new)[Len(txns) + 1] = new
    BY <1>1, <2>2, AppendProperties
  <2>. QED
    BY <1>1, <2>2, <2>3, <2>4
<1>3. ASSUME NEW d \in DOMAIN txns, UserDeletes(d)
      PROVE  /\ txns' \in Seq(TxnSet) /\ Len(txns') = Len(txns)
             /\ \A t \in DOMAIN txns \ {d} : txns'[t] = txns[t]
             /\ Like(txns'[d], txns[d]) /\ txns'[d].stmt = txns[d].stmt
             /\ txns[d].live /\ ~txns'[d].live
             /\ txns'[d].met = txns[d].met - 1 /\ txns'[d].bal = txns[d].bal - 1
  <2>1. txns[d].live
    BY <1>3 DEF UserDeletes, Live
  <2>2. txns'[d] = [txns[d] EXCEPT !.live = FALSE, !.met = txns[d].met - 1,
                                   !.bal = txns[d].bal - 1]
    BY <1>1, <1>3 DEF UserDeletes, TxnSet
  <2>3. \A t \in DOMAIN txns \ {d} : txns'[t] = txns[t]
    BY <1>3 DEF UserDeletes
  <2>4. /\ Like(txns'[d], txns[d])
        /\ txns'[d].live = FALSE /\ txns'[d].met = txns[d].met - 1
        /\ txns'[d].bal = txns[d].bal - 1 /\ txns'[d].stmt = txns[d].stmt
    <3>1. txns[d] \in TxnSet
      BY <1>1
    <3>. QED
      BY <2>2, <3>1, Deletes
  <2>5. DOMAIN txns' = DOMAIN txns /\ txns' = [t \in DOMAIN txns' |-> txns'[t]]
    BY <1>3 DEF UserDeletes
  <2>6. txns' \in Seq(TxnSet) /\ Len(txns') = Len(txns)
    BY <1>1, <2>3, <2>4, <2>5, SameList DEF Like
  <2>. QED
    BY <2>1, <2>3, <2>4, <2>6
<1>4. ASSUME NEW j \in Jobs, DeleteUpload(j)
      PROVE  /\ txns' \in Seq(TxnSet) /\ Len(txns') = Len(txns)
             /\ \A t \in DOMAIN txns :
                   /\ Like(txns'[t], txns[t]) /\ txns'[t].live = txns[t].live
                   /\ txns'[t].met = txns[t].met /\ txns'[t].bal = txns[t].bal
                   /\ txns'[t].stmt \in {txns[t].stmt, NoStmt}
  <2>1. \A t \in DOMAIN txns : \/ txns'[t] = [txns[t] EXCEPT !.stmt = NoStmt]
                               \/ txns'[t] = txns[t]
    BY <1>4 DEF DeleteUpload
  <2>2. ASSUME NEW t \in DOMAIN txns
        PROVE  /\ Like(txns'[t], txns[t]) /\ txns'[t].live = txns[t].live
               /\ txns'[t].met = txns[t].met /\ txns'[t].bal = txns[t].bal
               /\ txns'[t].stmt \in {txns[t].stmt, NoStmt}
    BY <1>1, <2>1 DEF TxnSet, Like, SameRow, RowHash
  <2>3. DOMAIN txns' = DOMAIN txns /\ txns' = [t \in DOMAIN txns' |-> txns'[t]]
    BY <1>4 DEF DeleteUpload
  <2>4. txns' \in Seq(TxnSet) /\ Len(txns') = Len(txns)
    BY <1>1, <2>2, <2>3, SameList DEF Like
  <2>. QED
    BY <2>2, <2>4
<1>5. txns' \in Seq(TxnSet) => DOMAIN txns' = 1 .. Len(txns')
  BY LenProperties
<1>6. CASE \E u \in DOMAIN UserItems : UserCreates(u)
  <2>1. /\ txns' \in Seq(TxnSet) /\ Len(txns') = Len(txns) + 1
        /\ \A t \in DOMAIN txns : txns'[t] = txns[t]
        /\ ~txns'[Len(txns) + 1].auto /\ txns'[Len(txns) + 1].stmt = NoStmt
        /\ txns'[Len(txns) + 1].live
        /\ txns'[Len(txns) + 1].met = 1 /\ txns'[Len(txns) + 1].bal = 1
    BY <1>2, <1>6
  <2>2. \A t \in DOMAIN txns' \ DOMAIN txns : t = Len(txns) + 1
    BY <1>1, <1>5, <2>1
  <2>. QED
    BY <1>1, <2>1, <2>2, LikeItself
<1>7. CASE \E t \in DOMAIN txns : UserDeletes(t)
  <2>1. PICK d \in DOMAIN txns : UserDeletes(d)
    BY <1>7
  <2>2. DOMAIN txns' = DOMAIN txns
    BY <1>1, <1>3, <1>5, <2>1
  <2>. QED
    BY <1>1, <1>3, <2>1, <2>2, LikeItself
<1>8. CASE \E j \in Jobs : DeleteUpload(j)
  <2>1. DOMAIN txns' = DOMAIN txns
    BY <1>1, <1>4, <1>5, <1>8
  <2>. QED
    BY <1>1, <1>4, <1>8, <2>1
<1>. QED
  BY <1>6, <1>7, <1>8

(***************************************************************************)
(* The rows of an upload are rows of its file; a run permutes them.        *)
(***************************************************************************)
LEMMA NewRowsType ==
    ASSUME NEW j \in Jobs
    PROVE  NewRows(j) \in Seq(Items)
<1>1. File[j] \in Seq(Items)
  BY FileAssumption
<1>2. ASSUME NEW taken PROVE FirstOfTheirHash(j, taken) \in SUBSET DOMAIN File[j]
  BY DEF FirstOfTheirHash
<1>. QED
  BY <1>1, <1>2, RowsAtType DEF NewRows

LEMMA PlanRows ==
    ASSUME NEW rows \in Seq(Items), NEW apps, NEW latest
    PROVE  /\ Plan(rows, apps, latest).rows \in Seq(Items)
           /\ Len(Plan(rows, apps, latest).rows) = Len(rows)
<1>. DEFINE O == {i \in DOMAIN rows : ~InTail(rows[i], latest)}
            T == {i \in DOMAIN rows : InTail(rows[i], latest)}
<1>1. Plan(rows, apps, latest).rows = RowsAt(rows, O) \o RowsAt(rows, T)
  BY DEF Plan, OverlapRows, TailRows
<1>2. /\ RowsAt(rows, O) \in Seq(Items) /\ Len(RowsAt(rows, O)) = Cardinality(O)
      /\ RowsAt(rows, T) \in Seq(Items) /\ Len(RowsAt(rows, T)) = Cardinality(T)
  <2>1. O \in SUBSET DOMAIN rows /\ T \in SUBSET DOMAIN rows
    OBVIOUS
  <2>. HIDE DEF O, T
  <2>. QED
    BY <2>1, RowsAtType
<1>3. Len(rows) \in Nat /\ DOMAIN rows = 1 .. Len(rows)
  BY LenProperties
<1>4. IsFiniteSet(DOMAIN rows) /\ Cardinality(DOMAIN rows) = Len(rows)
  BY <1>3, FS_Interval
<1>5. Cardinality(T) = Cardinality(DOMAIN rows) - Cardinality(O)
  <2>1. T = DOMAIN rows \ O /\ DOMAIN rows \cap O = O
    OBVIOUS
  <2>. HIDE DEF O, T
  <2>2. Cardinality(DOMAIN rows \ O) = Cardinality(DOMAIN rows) - Cardinality(DOMAIN rows \cap O)
    BY <1>4, FS_Difference
  <2>. QED
    BY <2>1, <2>2
<1>6. Cardinality(O) \in Nat /\ Cardinality(T) \in Nat
  <2>1. O \subseteq DOMAIN rows /\ T \subseteq DOMAIN rows
    OBVIOUS
  <2>. QED
    BY <1>4, <2>1, FS_Subset, FS_CardinalityType
<1>. HIDE DEF O, T
<1>7. /\ RowsAt(rows, O) \o RowsAt(rows, T) \in Seq(Items)
      /\ Len(RowsAt(rows, O) \o RowsAt(rows, T)) = Cardinality(O) + Cardinality(T)
  BY <1>2, ConcatProperties
<1>. QED
  BY <1>1, <1>3, <1>4, <1>5, <1>6, <1>7

LEMMA AfterPairingShape ==
    ASSUME WellFormed, NEW w \in Workers, NEW ids
    PROVE  LET after == AfterPairing(w, ids)
           IN  /\ DOMAIN after = LocalFields
               /\ after.rows \in Seq(Items) /\ Len(after.rows) = Len(local[w].rows)
               /\ after.results \in [1 .. Len(after.rows) -> Range(after.results)]
<1>. DEFINE after == AfterPairing(w, ids)
            apps == [k \in DOMAIN ids |-> txns[ids[k]]]
            plan == Plan(local[w].rows, apps, local[w].latest)
            paired == [i \in DOMAIN plan.rows |->
                         [txn |-> IF plan.results[i].txn = NoTxn THEN NoTxn
                                  ELSE ids[plan.results[i].txn],
                          kind |-> plan.results[i].kind]]
            todo == InOrder({i \in DOMAIN plan.rows : plan.results[i].kind = "HIGH"})
<1>1. DOMAIN local[w] = LocalFields /\ local[w].rows \in Seq(Items)
  BY DEF WellFormed
<1>2. plan.rows \in Seq(Items) /\ Len(plan.rows) = Len(local[w].rows)
  BY <1>1, PlanRows
<1>3. DOMAIN plan.rows = 1 .. Len(plan.rows)
  BY <1>2, LenProperties
<1>4. after = [local[w] EXCEPT !.rows = plan.rows, !.results = paired, !.todo = todo]
  BY DEF AfterPairing
<1>5. paired \in [1 .. Len(plan.rows) -> Range(paired)]
  <2>1. DOMAIN paired = DOMAIN plan.rows /\ paired = [i \in DOMAIN paired |-> paired[i]]
    OBVIOUS
  <2>. HIDE DEF paired
  <2>. QED
    BY <1>3, <2>1 DEF Range
<1>. HIDE DEF plan, paired, todo, after
<1>6. DOMAIN after = LocalFields /\ after.rows = plan.rows /\ after.results = paired
  BY <1>1, <1>4 DEF LocalFields
<1>. QED
  BY <1>2, <1>5, <1>6 DEF after

LEMMA RunKeepsShape ==
    ASSUME WellFormed, JobInv, NEW w \in Workers, RunStep(w)
    PROVE  /\ stage' \in [Workers -> Stages] /\ DOMAIN local' = Workers
           /\ \A v \in Workers : DOMAIN local'[v] = LocalFields /\ local'[v].rows \in Seq(Items)
           /\ \A v \in Workers : pc'[v] # "run" => stage'[v] = "start" /\ local'[v] = Fresh
<1>1. pc[w] = "run" /\ Job(w) \in Jobs
  BY RunsAJob DEF RunStep, MarkUpload, FetchRows, LatestTxn, FetchApps, CreateMissing,
     NothingMissing, PostMetrics, PostBalance, MarkVerified, InsertResults, NothingToDo,
     MarkDone, Fails, At
<1>2. DOMAIN local = Workers /\ DOMAIN local[w] = LocalFields /\ local[w].rows \in Seq(Items)
  BY DEF WellFormed
<1>3. CASE MarkUpload(w) \/ NothingMissing(w) \/ PostMetrics(w) \/ PostBalance(w)
           \/ InsertResults(w)
  <2>1. pc' = pc /\ local' = local /\ \E l \in Stages : stage' = [stage EXCEPT ![w] = l]
    BY <1>3 DEF MarkUpload, NothingMissing, PostMetrics, PostBalance, InsertResults, Goes,
       jobVars, worker, Stages
  <2>. QED
    BY <1>1, <1>2, <2>1, RunShape DEF WellFormed
<1>4. CASE LatestTxn(w) \/ CreateMissing(w)
  <2>1. pc' = pc /\ \E l \in Stages : stage' = [stage EXCEPT ![w] = l]
    BY <1>4 DEF LatestTxn, CreateMissing, Goes, jobVars, worker, Stages
  <2>2. /\ DOMAIN local' = Workers /\ \A v \in Workers : v # w => local'[v] = local[v]
        /\ DOMAIN local'[w] = LocalFields /\ local'[w].rows = local[w].rows
    BY <1>2, <1>4 DEF LatestTxn, CreateMissing, LocalFields
  <2>. QED
    BY <1>1, <1>2, <2>1, <2>2, RunShape
<1>5. CASE MarkVerified(w)
  <2>1. pc' = pc /\ stage' = stage
    BY <1>5 DEF MarkVerified, jobVars, worker
  <2>2. /\ DOMAIN local' = Workers /\ \A v \in Workers : v # w => local'[v] = local[v]
        /\ DOMAIN local'[w] = LocalFields /\ local'[w].rows = local[w].rows
    BY <1>2, <1>5 DEF MarkVerified, LocalFields
  <2>. QED
    BY <1>1, <1>2, <2>1, <2>2 DEF WellFormed
<1>6. CASE FetchRows(w)
  <2>1. pc' = pc /\ stage' = [stage EXCEPT ![w] = "latest"] /\ "latest" \in Stages
    BY <1>6 DEF FetchRows, Goes, jobVars, worker, Stages
  <2>2. /\ DOMAIN local' = Workers /\ \A v \in Workers : v # w => local'[v] = local[v]
        /\ DOMAIN local'[w] = LocalFields /\ local'[w].rows = stmt[Job(w)]
    BY <1>2, <1>6 DEF FetchRows, LocalFields
  <2>3. stmt[Job(w)] \in Seq(Items)
    BY <1>1 DEF WellFormed
  <2>. QED
    BY <1>1, <2>1, <2>2, <2>3, RunShape
<1>7. CASE FetchApps(w)
  <2>1. pc' = pc /\ stage' = [stage EXCEPT ![w] = "create"] /\ "create" \in Stages
    BY <1>7 DEF FetchApps, Goes, jobVars, worker, Stages
  <2>2. PICK ids : local' = [local EXCEPT ![w] = AfterPairing(w, ids)]
    BY <1>7 DEF FetchApps
  <2>3. /\ DOMAIN AfterPairing(w, ids) = LocalFields
        /\ AfterPairing(w, ids).rows \in Seq(Items)
    BY AfterPairingShape
  <2>4. /\ DOMAIN local' = Workers /\ \A v \in Workers : v # w => local'[v] = local[v]
        /\ local'[w] = AfterPairing(w, ids)
    BY <1>2, <2>2
  <2>. QED
    BY <1>1, <2>1, <2>3, <2>4, RunShape
<1>8. CASE NothingToDo(w) \/ MarkDone(w) \/ Fails(w)
  <2>1. /\ stage' = [stage EXCEPT ![w] = "start"] /\ local' = [local EXCEPT ![w] = Fresh]
        /\ \A v \in Workers : v # w => pc'[v] = pc[v]
    BY <1>8 DEF NothingToDo, MarkDone, Fails, Finish, Run, Goes, Goto, JobInv, TypeOK
  <2>2. DOMAIN Fresh = LocalFields /\ Fresh.rows \in Seq(Items)
    BY EmptySeq DEF Fresh, LocalFields
  <2>. QED
    BY <2>1, <2>2 DEF WellFormed, Stages
<1>. QED
  BY <1>3, <1>4, <1>5, <1>6, <1>7, <1>8 DEF RunStep

(***************************************************************************)
(* What the steps around a run do to the variables of the runs.            *)
(***************************************************************************)
LEMMA FrameShape ==
    ASSUME WellFormed, JobInv, NEW w \in Workers, Frame(w), UNCHANGED reconVars
    PROVE  /\ pc[w] # "run" /\ \A v \in Workers : v # w => pc'[v] = pc[v]
           /\ stage[w] = "start" /\ local[w] = Fresh
<1>. PICK e : \/ e \in events /\ Receive(w, e)
              \/ Lookup(w) \/ MarkProcessing(w) \/ Settle(w) \/ Return(w)
  BY DEF Frame
<1>. QED
  BY DEF Receive, Lookup, MarkProcessing, Settle, Return, Leave, Goto, WellFormed,
     JobInv, TypeOK

LEMMA DiesShape ==
    ASSUME WellFormed, JobInv, NEW w \in Workers, Dies(w)
    PROVE  /\ pc' = [pc EXCEPT ![w] = "idle"]
           /\ stage' = [stage EXCEPT ![w] = "start"]
           /\ local' = [local EXCEPT ![w] = Fresh]
           /\ UNCHANGED <<status, stmt, txns, results, entered, muted>>
BY DEF Dies, Crash, Leave, Goto, Goes

LEMMA WellFormedStep ==
    ASSUME WellFormed, JobInv, [ReconNext]_<<jobVars, reconVars>>
    PROVE  WellFormed'
<1>f. DOMAIN Fresh = LocalFields /\ Fresh.rows \in Seq(Items)
  BY EmptySeq DEF Fresh, LocalFields
<1>1. ASSUME NEW j \in Jobs, Upload(j) PROVE WellFormed'
  BY <1>1, NewRowsType DEF WellFormed, Upload, jobVars, worker
<1>2. ASSUME NEW j \in Jobs, EnqueueBankReconciliation(j) PROVE WellFormed'
  <2>1. UNCHANGED reconVars /\ pc' = pc
    BY <1>2 DEF EnqueueBankReconciliation, RecordJob, Dispatch, worker
  <2>. QED
    BY <2>1 DEF WellFormed, reconVars
<1>3. ASSUME NEW j \in Jobs, DeleteUpload(j) PROVE WellFormed'
  <2>1. txns' \in Seq(TxnSet)
    BY <1>3, UserWrites
  <2>2. << >> \in Seq(Items)
    BY EmptySeq
  <2>. QED
    BY <1>3, <2>1, <2>2 DEF WellFormed, DeleteUpload, jobVars, worker
<1>4. ASSUME NEW u \in DOMAIN UserItems, UserCreates(u) PROVE WellFormed'
  <2>1. txns' \in Seq(TxnSet)
    BY <1>4, UserWrites
  <2>. QED
    BY <1>4, <2>1 DEF WellFormed, UserCreates, jobVars, worker
<1>5. ASSUME NEW t \in DOMAIN txns, UserDeletes(t) PROVE WellFormed'
  <2>1. txns' \in Seq(TxnSet)
    BY <1>5, UserWrites
  <2>. QED
    BY <1>5, <2>1 DEF WellFormed, UserDeletes, jobVars, worker
<1>6. ASSUME NEW w \in Workers, RunStep(w) PROVE WellFormed'
  BY <1>6, WellFormedWrites, WellFormedTxns, RunKeepsShape DEF WellFormed
<1>7. ASSUME NEW w \in Workers, Frame(w), UNCHANGED reconVars PROVE WellFormed'
  BY <1>7, FrameShape DEF WellFormed, reconVars
<1>8. ASSUME NEW w \in Workers, Dies(w) PROVE WellFormed'
  <2>1. /\ DOMAIN stage = Workers /\ DOMAIN local = Workers /\ DOMAIN pc = Workers
        /\ stage \in [Workers -> Stages] /\ "start" \in Stages
    BY DEF WellFormed, Stages, JobInv, TypeOK
  <2>2. /\ stage' \in [Workers -> Stages] /\ stage'[w] = "start"
        /\ DOMAIN local' = Workers /\ local'[w] = Fresh
        /\ \A v \in Workers : v # w => /\ pc'[v] = pc[v] /\ stage'[v] = stage[v]
                                       /\ local'[v] = local[v]
        /\ status' = status /\ stmt' = stmt /\ txns' = txns /\ results' = results
    BY <1>8, <2>1, DiesShape
  <2>. QED
    BY <1>f, <2>2 DEF WellFormed
<1>9. CASE UNCHANGED <<jobVars, reconVars>>
  BY <1>9 DEF WellFormed, jobVars, worker, reconVars
<1>. QED
  BY <1>1, <1>2, <1>3, <1>4, <1>5, <1>6, <1>7, <1>8, <1>9
     DEF ReconNext, UserSteps, Works

-----------------------------------------------------------------------------
(***************************************************************************)
(* Whatever is queued or handled was asked for, so its upload was made;    *)
(* with the job's own invariant this is what every step below starts from. *)
(***************************************************************************)
AskedFor == \A j \in Jobs : sent[j] # "new" => status[j] # "none"

Sound == OutcomeInv /\ WellFormed /\ AskedFor

LEMMA RunStepFacts ==
    ASSUME Sound, NEW w \in Workers, RunStep(w)
    PROVE  /\ pc[w] = "run" /\ Busy(w) /\ Job(w) \in Jobs /\ JobInv
           /\ sent' = sent /\ crashed' = crashed /\ Job(w)' = Job(w)
<1>1. JobInv
  BY DEF Sound, OutcomeInv, FinalInv
<1>2. pc[w] = "run"
  BY DEF RunStep, MarkUpload, FetchRows, LatestTxn, FetchApps, CreateMissing,
     NothingMissing, PostMetrics, PostBalance, MarkVerified, InsertResults, NothingToDo,
     MarkDone, Fails, Finish, Run, At
<1>3. UNCHANGED jobVars \/ \E b \in BOOLEAN : Run(w, b)
  BY RunStepsStutter
<1>4. sent' = sent /\ crashed' = crashed /\ ev' = ev
  BY <1>3 DEF jobVars, worker, history, Run
<1>. QED
  BY <1>1, <1>2, <1>4, RunsAJob DEF Job

(***************************************************************************)
(* A run writes the status of an upload that exists, and no other.         *)
(***************************************************************************)
LEMMA StatusMoves ==
    ASSUME Sound, NEW w \in Workers, RunStep(w), NEW j \in Jobs
    PROVE  \/ status'[j] = status[j]
           \/ Exists(j) /\ j = Job(w) /\ status'[j] \in {"PROCESSING", "COMPLETED"}
<1>1. Job(w) \in Jobs /\ DOMAIN status = Jobs
  BY RunStepFacts DEF Sound, WellFormed
<1>. QED
  BY <1>1 DEF RunStep, MarkUpload, FetchRows, LatestTxn, FetchApps, CreateMissing,
     NothingMissing, PostMetrics, PostBalance, MarkVerified, InsertResults, NothingToDo,
     MarkDone, Fails, WriteStatus

LEMMA AskedForStep ==
    ASSUME Sound, [ReconNext]_<<jobVars, reconVars>>
    PROVE  AskedFor'
<1>1. DOMAIN status = Jobs /\ DOMAIN sent = Jobs
  BY DEF Sound, WellFormed, OutcomeInv, FinalInv, JobInv, TypeOK
<1>2. ASSUME NEW k \in Jobs, Upload(k) PROVE AskedFor'
  BY <1>1, <1>2 DEF Sound, AskedFor, Upload, jobVars
<1>3. ASSUME NEW k \in Jobs, EnqueueBankReconciliation(k) PROVE AskedFor'
  <2>1. status' = status /\ status[k] # "none"
        /\ \A j \in Jobs : j # k => sent'[j] = sent[j]
    BY <1>1, <1>3 DEF EnqueueBankReconciliation, RecordJob, Dispatch, reconVars
  <2>. QED
    BY <2>1 DEF Sound, AskedFor
<1>4. ASSUME NEW k \in Jobs, DeleteUpload(k) PROVE AskedFor'
  BY <1>1, <1>4 DEF Sound, AskedFor, DeleteUpload, jobVars
<1>5. CASE \/ \E u \in DOMAIN UserItems : UserCreates(u)
           \/ \E t \in DOMAIN txns : UserDeletes(t)
           \/ UNCHANGED <<jobVars, reconVars>>
  BY <1>5 DEF Sound, AskedFor, UserCreates, UserDeletes, jobVars, reconVars
<1>6. ASSUME NEW w \in Workers, RunStep(w) PROVE AskedFor'
  <2>1. sent' = sent /\ \A j \in Jobs : status[j] # "none" => status'[j] # "none"
    BY <1>6, RunStepFacts, StatusMoves
  <2>. QED
    BY <2>1 DEF Sound, AskedFor
<1>7. ASSUME NEW w \in Workers, (Frame(w) /\ UNCHANGED reconVars) \/ Dies(w) PROVE AskedFor'
  <2>1. status' = status
    BY <1>7 DEF reconVars, Dies
  <2>2. sent' = sent
    BY <1>7 DEF Dies, Crash, Frame, Receive, Lookup, MarkProcessing, Settle, Return
  <2>. QED
    BY <2>1, <2>2 DEF Sound, AskedFor
<1>. QED
  BY <1>2, <1>3, <1>4, <1>5, <1>6, <1>7 DEF ReconNext, UserSteps, Works

LEMMA SoundInit == ReconInit => Sound
<1>. SUFFICES ASSUME ReconInit PROVE Sound
  OBVIOUS
<1>1. OutcomeInv
  BY OutcomeInit DEF ReconInit
<1>2. AskedFor
  BY DEF ReconInit, JobInit, AskedFor
<1>. QED
  BY <1>1, <1>2, WellFormedInit DEF Sound

LEMMA SoundStep ==
    ASSUME Sound, [ReconNext]_<<jobVars, reconVars>>
    PROVE  Sound'
<1>1. OutcomeInv'
  BY StepIsAJobStep, OutcomeStep DEF Sound
<1>2. WellFormed'
  BY WellFormedStep DEF Sound, OutcomeInv, FinalInv
<1>. QED
  BY <1>1, <1>2, AskedForStep DEF Sound

LEMMA BusyUploads ==
    ASSUME Sound, NEW w \in Workers, Busy(w)
    PROVE  Job(w) \in Jobs /\ status[Job(w)] # "none"
<1>1. Job(w) \in Jobs /\ row[Job(w)] # NoRow
  BY DEF Sound, OutcomeInv, FinalInv, JobInv, TypeOK, EventsHaveRows, Events, Job
<1>2. sent[Job(w)] # "new"
  BY <1>1 DEF Sound, OutcomeInv, FinalInv, CompletedIsOver
<1>. QED
  BY <1>1, <1>2 DEF Sound, AskedFor

-----------------------------------------------------------------------------
(***************************************************************************)
(* What the steps of a run write of the transactions' statements.          *)
(***************************************************************************)
LEMMA RunLinks ==
    ASSUME Sound, NEW w \in Workers, RunStep(w), NEW t \in DOMAIN txns'
    PROVE  \/ t \in DOMAIN txns /\ txns'[t].stmt = txns[t].stmt
           \/ Exists(Job(w)) /\ txns'[t].stmt = Job(w)
<1>1. WellFormed /\ Job(w) \in Jobs
  BY RunStepFacts DEF Sound
<1>2. DOMAIN txns = 1 .. Len(txns) /\ Len(txns) \in Nat
  BY <1>1, LenProperties DEF WellFormed
<1>3. txns' \in Seq(TxnSet)
  BY <1>1, RunStepFacts, WellFormedTxns
<1>4. DOMAIN txns' = 1 .. Len(txns') /\ Len(txns') \in Nat
  BY <1>3, LenProperties
<1>5. CASE PostMetrics(w)
  BY <1>1, <1>2, <1>4, <1>5, PostMetricsWrites
<1>6. CASE PostBalance(w)
  BY <1>1, <1>2, <1>4, <1>6, PostBalanceWrites
<1>7. CASE MarkVerified(w)
  BY <1>1, <1>2, <1>4, <1>7, MarkVerifiedWrites
<1>8. CASE CreateMissing(w)
  <2>1. t \in 1 .. Len(txns) \/ t \in Len(txns) + 1 .. Len(txns')
    BY <1>2, <1>4
  <2>. QED
    BY <1>1, <1>2, <1>8, <2>1, CreateMissingWrites
<1>9. CASE txns' = txns
  BY <1>9
<1>. QED
  BY <1>5, <1>6, <1>7, <1>8, <1>9 DEF RunStep, MarkUpload, FetchRows, LatestTxn,
     FetchApps, NothingMissing, InsertResults, NothingToDo, MarkDone, Fails

(***************************************************************************)
(* What a run writes of the results: a list more for an upload that exists.*)
(***************************************************************************)
LEMMA RunResults ==
    ASSUME Sound, NEW w \in Workers, RunStep(w)
    PROVE  \/ results' = results
           \/ /\ InsertResults(w) /\ Exists(Job(w))
              /\ results' = [results EXCEPT ![Job(w)] = Append(@, local[w].results)]
BY DEF RunStep, MarkUpload, FetchRows, LatestTxn, FetchApps, CreateMissing,
   NothingMissing, PostMetrics, PostBalance, MarkVerified, InsertResults, NothingToDo,
   MarkDone, Fails

LEMMA DeletedStep ==
    ASSUME Sound, DeletedLeavesNothing, [ReconNext]_<<jobVars, reconVars>>
    PROVE  DeletedLeavesNothing'
<1>t. WellFormed /\ DOMAIN txns = 1 .. Len(txns) /\ Len(txns) \in Nat
  BY LenProperties DEF Sound, WellFormed
<1>u. DOMAIN txns' = 1 .. Len(txns')
  <2>1. txns' \in Seq(TxnSet)
    BY SoundStep DEF Sound, WellFormed
  <2>. QED
    BY <2>1, LenProperties
<1>d. DOMAIN status = Jobs /\ DOMAIN stmt = Jobs /\ DOMAIN results = Jobs
  BY DEF Sound, WellFormed
<1>1. ASSUME NEW k \in Jobs, Upload(k) PROVE DeletedLeavesNothing'
  BY <1>d, <1>1 DEF DeletedLeavesNothing, Upload
<1>2. ASSUME NEW k \in Jobs, DeleteUpload(k) PROVE DeletedLeavesNothing'
  <2>1. /\ \A j \in Jobs \ {k} : /\ status'[j] = status[j] /\ stmt'[j] = stmt[j]
                                 /\ results'[j] = results[j]
        /\ stmt'[k] = <<>> /\ results'[k] = <<>>
    BY <1>d, <1>2 DEF DeleteUpload
  <2>2. /\ DOMAIN txns' = DOMAIN txns
        /\ \A t \in DOMAIN txns :
              txns'[t].stmt = IF txns[t].stmt = k THEN NoStmt ELSE txns[t].stmt
    <3>1. DOMAIN txns' = DOMAIN txns
      BY <1>2 DEF DeleteUpload
    <3>2. ASSUME NEW t \in DOMAIN txns
          PROVE  txns'[t].stmt = IF txns[t].stmt = k THEN NoStmt ELSE txns[t].stmt
      <4>1. txns[t] \in TxnSet
        BY <1>t, LenProperties DEF WellFormed
      <4>2. txns'[t] = IF txns[t].stmt = k THEN [txns[t] EXCEPT !.stmt = NoStmt] ELSE txns[t]
        BY <1>2 DEF DeleteUpload
      <4>. QED
        BY <4>1, <4>2 DEF TxnSet
    <3>. QED
      BY <3>1, <3>2
  <2>3. NoStmt \notin Jobs
    BY JobsAssumption DEF NoStmt
  <2>. QED
    BY <2>1, <2>2, <2>3 DEF DeletedLeavesNothing
<1>3. CASE \/ \E u \in DOMAIN UserItems : UserCreates(u)
           \/ \E t \in DOMAIN txns : UserDeletes(t)
  <2>1. \A t \in DOMAIN txns' :
           txns'[t].stmt = NoStmt \/ (t \in DOMAIN txns /\ txns'[t].stmt = txns[t].stmt)
    <3>1. /\ \A t \in DOMAIN txns' \ DOMAIN txns : txns'[t].stmt = NoStmt
          /\ \A t \in DOMAIN txns : txns'[t].stmt \in {txns[t].stmt, NoStmt}
      BY <1>t, <1>3, UserWrites
    <3>. QED
      BY <3>1
  <2>2. status' = status /\ stmt' = stmt /\ results' = results
    BY <1>3 DEF UserCreates, UserDeletes
  <2>3. NoStmt \notin Jobs
    BY JobsAssumption DEF NoStmt
  <2>. QED
    BY <2>1, <2>2, <2>3 DEF DeletedLeavesNothing
<1>4. ASSUME NEW w \in Workers, RunStep(w) PROVE DeletedLeavesNothing'
  <2>. SUFFICES ASSUME NEW j \in Jobs, status'[j] = "deleted"
                PROVE  /\ results'[j] = <<>> /\ stmt'[j] = <<>>
                       /\ \A t \in DOMAIN txns' : txns'[t].stmt # j
    BY DEF DeletedLeavesNothing
  <2>1. status[j] = "deleted" /\ ~Exists(j)
    BY <1>4, StatusMoves DEF Exists
  <2>2. results'[j] = results[j]
    BY <1>4, <1>d, <2>1, RunResults
  <2>3. stmt' = stmt
    BY <1>4, RunStepFacts, WellFormedWrites DEF Sound
  <2>4. ASSUME NEW t \in DOMAIN txns' PROVE txns'[t].stmt # j
    BY <1>4, <2>1, RunLinks DEF DeletedLeavesNothing
  <2>. QED
    BY <2>1, <2>2, <2>3, <2>4 DEF DeletedLeavesNothing
<1>5. CASE status' = status /\ stmt' = stmt /\ txns' = txns /\ results' = results
  BY <1>5 DEF DeletedLeavesNothing
<1>. QED
  BY <1>1, <1>2, <1>3, <1>4, <1>5 DEF ReconNext, UserSteps, Works, Dies, reconVars,
     EnqueueBankReconciliation

(***************************************************************************)
(* Deleting an upload is final, whatever worker is in the middle of it.    *)
(***************************************************************************)
THEOREM DeletionIsFinal == ReconSpec => []DeletedLeavesNothing
<1>1. ReconInit => DeletedLeavesNothing
  BY DEF ReconInit, DeletedLeavesNothing
<1>. QED
  BY <1>1, SoundInit, SoundStep, DeletedStep, PTL DEF ReconSpec

-----------------------------------------------------------------------------
(***************************************************************************)
(* An upload is COMPLETED only after a run of its job succeeded; with one  *)
(* copy of the event, no death and no lost status write it stays so, since *)
(* no run follows one that succeeded.                                      *)
(***************************************************************************)
CompletedIsWon == \A j \in Jobs : status[j] = "COMPLETED" => wins[j] > 0

WonIsCompleted ==
    MaxCopies = 1 =>
        \A j \in Jobs : j \notin crashed \cup muted /\ Exists(j) /\ wins[j] > 0
                            => status[j] = "COMPLETED"

UploadInv == CompletedIsWon /\ WonIsCompleted

LEMMA RunOutcome ==
    ASSUME Sound, NEW w \in Workers, RunStep(w)
    PROVE  /\ muted \subseteq muted'
           /\ \/ wins' = wins /\ \A j \in Jobs : status'[j] = "COMPLETED" => status[j] = "COMPLETED"
              \/ /\ \A j \in Jobs : j # Job(w) => wins'[j] = wins[j] /\ status'[j] = status[j]
                 /\ wins'[Job(w)] = wins[Job(w)] + 1
                 /\ Exists(Job(w)) /\ Job(w) \notin muted' => status'[Job(w)] = "COMPLETED"
                 /\ ~Exists(Job(w)) => status'[Job(w)] = status[Job(w)]
<1>1. Job(w) \in Jobs /\ DOMAIN status = Jobs /\ DOMAIN wins = Jobs
  BY RunStepFacts DEF Sound, WellFormed, JobInv, TypeOK
<1>2. CASE MarkUpload(w) \/ FetchRows(w) \/ LatestTxn(w) \/ FetchApps(w)
  BY <1>1, <1>2 DEF MarkUpload, FetchRows, LatestTxn, FetchApps, WriteStatus, jobVars, history
<1>3. CASE CreateMissing(w) \/ NothingMissing(w) \/ PostMetrics(w) \/ PostBalance(w)
           \/ MarkVerified(w) \/ InsertResults(w)
  BY <1>3 DEF CreateMissing, NothingMissing, PostMetrics, PostBalance,
     MarkVerified, InsertResults, jobVars, history
<1>4. CASE Fails(w)
  BY <1>4 DEF Fails, Finish, Run
<1>5. CASE NothingToDo(w)
  BY <1>1, <1>5 DEF NothingToDo, Finish, Run, Job
<1>6. CASE MarkDone(w)
  BY <1>1, <1>6 DEF MarkDone, Finish, Run, WriteStatus, Job
<1>. QED
  BY <1>2, <1>3, <1>4, <1>5, <1>6 DEF RunStep

LEMMA CompletedIsWonStep ==
    ASSUME Sound, CompletedIsWon, [ReconNext]_<<jobVars, reconVars>>
    PROVE  CompletedIsWon'
<1>d. DOMAIN status = Jobs /\ \A j \in Jobs : wins[j] \in Nat
  BY DEF Sound, WellFormed, OutcomeInv, FinalInv, JobInv, TypeOK
<1>1. ASSUME NEW k \in Jobs, Upload(k) \/ DeleteUpload(k) PROVE CompletedIsWon'
  BY <1>d, <1>1 DEF CompletedIsWon, Upload, DeleteUpload, jobVars, history
<1>2. CASE \E w \in Workers : RunStep(w)
  BY <1>d, <1>2, RunOutcome, RunStepFacts DEF CompletedIsWon
<1>3. CASE status' = status /\ wins' = wins
  BY <1>3 DEF CompletedIsWon
<1>4. ASSUME NEW k \in Jobs, EnqueueBankReconciliation(k) PROVE status' = status /\ wins' = wins
  BY <1>4 DEF EnqueueBankReconciliation, RecordJob, Dispatch, history, reconVars
<1>5. ASSUME NEW w \in Workers, (Frame(w) /\ UNCHANGED reconVars) \/ Dies(w)
      PROVE  status' = status /\ wins' = wins
  BY <1>5 DEF Dies, Crash, Frame, Receive, Lookup, MarkProcessing, Settle, Return, reconVars
<1>. QED
  BY <1>1, <1>2, <1>3, <1>4, <1>5 DEF ReconNext, UserSteps, Works, UserCreates,
     UserDeletes, jobVars, history, reconVars

LEMMA WonIsCompletedStep ==
    ASSUME Sound, WonIsCompleted, [ReconNext]_<<jobVars, reconVars>>
    PROVE  WonIsCompleted'
<1>d. /\ DOMAIN status = Jobs /\ \A j \in Jobs : wins[j] \in Nat
      /\ WinsAreOver
  BY DEF Sound, WellFormed, OutcomeInv, FinalInv, JobInv, TypeOK
<1>. DEFINE Kept(j) == j \notin crashed' \cup muted' /\ Exists(j)' /\ wins'[j] > 0
                           => status'[j] = "COMPLETED"
<1>. SUFFICES ASSUME MaxCopies = 1, NEW j \in Jobs PROVE Kept(j)
  BY DEF WonIsCompleted
<1>b. j \notin crashed \cup muted /\ Exists(j) /\ wins[j] > 0 => status[j] = "COMPLETED"
  BY DEF WonIsCompleted
<1>1. ASSUME NEW k \in Jobs, Upload(k) PROVE Kept(j)
  <2>1. /\ status[k] = "none" /\ wins' = wins /\ crashed' = crashed /\ muted' = muted
        /\ j # k => status'[j] = status[j]
    BY <1>d, <1>1 DEF Upload, jobVars, history
  <2>2. wins[k] = 0
    BY <1>d, <2>1 DEF Sound, AskedFor, WinsAreOver, WinIsOver
  <2>. QED
    BY <1>b, <2>1, <2>2 DEF Exists
<1>2. ASSUME NEW k \in Jobs, DeleteUpload(k) PROVE Kept(j)
  BY <1>d, <1>b, <1>2 DEF DeleteUpload, jobVars, history, Exists
<1>3. ASSUME NEW w \in Workers, RunStep(w) PROVE Kept(j)
  <2>1. Job(w) \in Jobs /\ crashed' = crashed /\ pc[w] = "run" /\ Busy(w) /\ muted \subseteq muted'
    BY <1>3, RunStepFacts, RunOutcome
  <2>2. CASE j # Job(w)
    <3>1. status'[j] = status[j]
      BY <1>3, <2>2, StatusMoves
    <3>2. wins'[j] = wins[j]
      BY <1>3, <2>2, RunOutcome
    <3>. QED
      BY <1>b, <2>1, <3>1, <3>2 DEF Exists
  <2>3. CASE j = Job(w)
    <3>1. j \notin crashed => wins[j] = 0
      BY <1>d, <2>1, <2>3 DEF WinsAreOver, WinIsOver, Held, Job
    <3>2. Exists(j)' => Exists(j)
      BY <1>3, StatusMoves DEF Exists
    <3>3. \/ wins' = wins
          \/ Exists(j) /\ j \notin muted' => status'[j] = "COMPLETED"
      BY <1>3, <2>3, RunOutcome
    <3>. QED
      BY <2>1, <3>1, <3>2, <3>3
  <2>. QED
    BY <2>2, <2>3
<1>4. CASE status' = status /\ wins' = wins /\ crashed \subseteq crashed' /\ muted' = muted
  BY <1>4, <1>b DEF Exists
<1>5. ASSUME NEW k \in Jobs, EnqueueBankReconciliation(k)
      PROVE  status' = status /\ wins' = wins /\ crashed \subseteq crashed' /\ muted' = muted
  BY <1>5 DEF EnqueueBankReconciliation, RecordJob, Dispatch, history, reconVars
<1>6. ASSUME NEW w \in Workers, (Frame(w) /\ UNCHANGED reconVars) \/ Dies(w)
      PROVE  status' = status /\ wins' = wins /\ crashed \subseteq crashed' /\ muted' = muted
  BY <1>6 DEF Dies, Crash, Frame, Receive, Lookup, MarkProcessing, Settle, Return, reconVars
<1>7. CASE \/ \E u \in DOMAIN UserItems : UserCreates(u)
           \/ \E t \in DOMAIN txns : UserDeletes(t)
           \/ UNCHANGED <<jobVars, reconVars>>
  BY <1>4, <1>7 DEF UserCreates, UserDeletes, jobVars, history, reconVars
<1>. QED
  BY <1>1, <1>2, <1>3, <1>4, <1>5, <1>6, <1>7 DEF ReconNext, UserSteps, Works

(***************************************************************************)
(* With one delivery at a time and no death or lost write, the upload      *)
(* tells how its job ended.                                                *)
(***************************************************************************)
THEOREM UploadsTellOutcomes == ReconSpec => []UploadTellsOutcome
<1>1. ReconInit => UploadInv
  BY DEF ReconInit, UploadInv, CompletedIsWon, WonIsCompleted, Exists
<1>2. Sound /\ UploadInv /\ [ReconNext]_<<jobVars, reconVars>> => UploadInv'
  BY CompletedIsWonStep, WonIsCompletedStep DEF UploadInv
<1>3. Sound /\ UploadInv => UploadTellsOutcome
  BY DEF UploadInv, CompletedIsWon, WonIsCompleted, UploadTellsOutcome, Undisturbed
<1>. QED
  BY <1>1, <1>2, <1>3, SoundInit, SoundStep, PTL DEF ReconSpec

-----------------------------------------------------------------------------
(***************************************************************************)
(* A run pairs every row it read, so the list of its results is as long as *)
(* the upload's rows, if the upload still exists.                          *)
(***************************************************************************)
Paired == {"create", "metrics", "balance", "verify", "done"}
HasRead == {"latest", "apps"} \cup Paired

RunIsWhole(w) ==
    /\ stage[w] \in HasRead /\ Exists(Job(w)) =>
          stmt[Job(w)] # <<>> /\ Len(local[w].rows) = Len(stmt[Job(w)])
    /\ stage[w] \in Paired =>
          local[w].results \in [1 .. Len(local[w].rows) -> Range(local[w].results)]
    /\ stage[w] = "done" /\ Exists(Job(w)) => results[Job(w)] # <<>>

ReportIsWhole(j) ==
    /\ status[j] = "none" => results[j] = <<>>
    /\ results[j] \in Seq(Range(results[j]))
    /\ Exists(j) => \A n \in DOMAIN results[j] : Len(results[j][n]) = Len(stmt[j])
    /\ status[j] = "COMPLETED" /\ stmt[j] # <<>> => results[j] # <<>>

ReportInv == /\ \A w \in Workers : RunIsWhole(w)
             /\ \A j \in Jobs : ReportIsWhole(j)

LEMMA EmptyReport == <<>> \in Seq(Range(<<>>)) /\ DOMAIN <<>> = {}
BY EmptySeq

LEMMA AppendReport ==
    ASSUME NEW s, s \in Seq(Range(s)), NEW l
    PROVE  /\ Append(s, l) # <<>>
           /\ Append(s, l) \in Seq(Range(Append(s, l)))
           /\ \A n \in DOMAIN Append(s, l) : Append(s, l)[n] = l
                  \/ (n \in DOMAIN s /\ Append(s, l)[n] = s[n])
<1>. DEFINE S == Range(s) \cup {l}
            a == Append(s, l)
<1>1. s \in Seq(S) /\ l \in S
  OBVIOUS
<1>2. Len(s) \in Nat /\ DOMAIN s = 1 .. Len(s)
  BY LenProperties
<1>. HIDE DEF S
<1>3. /\ a \in Seq(S) /\ Len(a) = Len(s) + 1 /\ a[Len(s) + 1] = l
      /\ \A n \in 1 .. Len(s) : a[n] = s[n]
  BY <1>1, AppendProperties
<1>4. Len(a) \in Nat /\ DOMAIN a = 1 .. Len(a) /\ a = [n \in 1 .. Len(a) |-> a[n]]
  BY <1>3, LenProperties
<1>. HIDE DEF a
<1>5. a # <<>>
  BY <1>2, <1>3, EmptySeq
<1>6. a \in [1 .. Len(a) -> Range(a)]
  BY <1>4 DEF Range
<1>7. a \in Seq(Range(a))
  BY <1>4, <1>6, AsSeq
<1>8. \A n \in DOMAIN a : n = Len(s) + 1 \/ n \in DOMAIN s
  BY <1>2, <1>3, <1>4
<1>. QED
  BY <1>2, <1>3, <1>5, <1>7, <1>8 DEF a

LEMMA RunStaysWhole ==
    ASSUME Sound, ReportInv, NEW w \in Workers, RunStep(w)
    PROVE  RunIsWhole(w)'
<1>a. /\ WellFormed /\ JobInv /\ pc[w] = "run" /\ Job(w) \in Jobs /\ Job(w)' = Job(w)
      /\ stmt' = stmt
  BY RunStepFacts, WellFormedWrites DEF Sound
<1>b. Exists(Job(w))' <=> Exists(Job(w))
  BY <1>a, StatusMoves DEF Exists
<1>c. /\ DOMAIN stage = Workers /\ DOMAIN local = Workers /\ DOMAIN local[w] = LocalFields
      /\ DOMAIN results = Jobs /\ local[w].rows \in Seq(Items)
  BY <1>a DEF WellFormed
<1>i. RunIsWhole(w)
  BY DEF ReportInv
<1>1. CASE stage'[w] \in {"start", "rows"}
  BY <1>1 DEF RunIsWhole, HasRead, Paired
<1>2. CASE FetchRows(w)
  <2>1. stage'[w] = "latest" /\ local'[w].rows = stmt[Job(w)] /\ stmt[Job(w)] # <<>>
    BY <1>2, <1>c DEF FetchRows, Goes, LocalFields
  <2>. QED
    BY <1>a, <1>b, <2>1 DEF RunIsWhole, HasRead, Paired
<1>3. CASE LatestTxn(w)
  <2>1. stage'[w] = "apps" /\ stage[w] = "latest" /\ local'[w].rows = local[w].rows
    BY <1>3, <1>c DEF LatestTxn, Goes, At, LocalFields
  <2>. QED
    BY <1>a, <1>b, <1>i, <2>1 DEF RunIsWhole, HasRead, Paired
<1>4. CASE FetchApps(w)
  <2>1. stage'[w] = "create" /\ stage[w] = "apps"
    BY <1>4, <1>c DEF FetchApps, Goes, At
  <2>2. PICK ids : local' = [local EXCEPT ![w] = AfterPairing(w, ids)]
    BY <1>4 DEF FetchApps
  <2>3. local'[w] = AfterPairing(w, ids)
    BY <1>c, <2>2
  <2>4. /\ Len(local'[w].rows) = Len(local[w].rows)
        /\ local'[w].results \in [1 .. Len(local'[w].rows) -> Range(local'[w].results)]
    BY <1>a, <2>3, AfterPairingShape
  <2>. QED
    BY <1>a, <1>b, <1>i, <2>1, <2>4 DEF RunIsWhole, HasRead, Paired
<1>5. CASE CreateMissing(w)
  <2>1. stage'[w] = "metrics" /\ stage[w] = "create" /\ local'[w].rows = local[w].rows
    BY <1>5, <1>c DEF CreateMissing, Goes, At, LocalFields
  <2>2. /\ DOMAIN local'[w].results = DOMAIN local[w].results
        /\ local'[w].results = [i \in DOMAIN local'[w].results |-> local'[w].results[i]]
    BY <1>5, <1>c DEF CreateMissing, LocalFields
  <2>3. DOMAIN local[w].results = 1 .. Len(local[w].rows)
    BY <1>i, <2>1 DEF RunIsWhole, Paired
  <2>4. local'[w].results \in [1 .. Len(local'[w].rows) -> Range(local'[w].results)]
    BY <2>1, <2>2, <2>3 DEF Range
  <2>. QED
    BY <1>a, <1>b, <1>i, <2>1, <2>4 DEF RunIsWhole, HasRead, Paired
<1>6. CASE NothingMissing(w) \/ PostMetrics(w) \/ PostBalance(w)
  <2>1. stage'[w] \in {"balance", "verify"} /\ stage[w] \in {"create", "metrics", "balance"}
        /\ local' = local
    BY <1>6, <1>c DEF NothingMissing, PostMetrics, PostBalance, Goes, At
  <2>. QED
    BY <1>a, <1>b, <1>i, <2>1 DEF RunIsWhole, HasRead, Paired
<1>7. CASE MarkVerified(w)
  <2>1. stage'[w] = "verify" /\ stage[w] = "verify" /\ local'[w].rows = local[w].rows
        /\ local'[w].results = local[w].results
    BY <1>7, <1>c DEF MarkVerified, At, LocalFields
  <2>. QED
    BY <1>a, <1>b, <1>i, <2>1 DEF RunIsWhole, HasRead, Paired
<1>8. CASE InsertResults(w)
  <2>1. stage'[w] = "done" /\ stage[w] = "verify" /\ local' = local
        /\ results'[Job(w)] = Append(results[Job(w)], local[w].results)
    BY <1>8, <1>a, <1>c DEF InsertResults, Goes, At
  <2>2. results[Job(w)] \in Seq(Range(results[Job(w)]))
    BY <1>a DEF ReportInv, ReportIsWhole
  <2>3. results'[Job(w)] # <<>>
    BY <2>1, <2>2, AppendReport
  <2>. QED
    BY <1>a, <1>b, <1>i, <2>1, <2>3 DEF RunIsWhole, HasRead, Paired
<1>9. CASE MarkUpload(w) \/ NothingToDo(w) \/ MarkDone(w) \/ Fails(w)
  <2>1. stage'[w] \in {"start", "rows"}
    BY <1>9, <1>c DEF MarkUpload, NothingToDo, MarkDone, Fails, Finish, Goes
  <2>. QED
    BY <1>1, <2>1
<1>. QED
  BY <1>2, <1>3, <1>4, <1>5, <1>6, <1>7, <1>8, <1>9 DEF RunStep

LEMMA OtherRunsStayWhole ==
    ASSUME Sound, ReportInv, NEW w \in Workers, RunStep(w), NEW v \in Workers, v # w
    PROVE  RunIsWhole(v)'
<1>a. /\ WellFormed /\ JobInv /\ Job(w) \in Jobs /\ stmt' = stmt
      /\ DOMAIN stage = Workers /\ DOMAIN local = Workers /\ DOMAIN results = Jobs
  BY RunStepFacts, WellFormedWrites DEF Sound, WellFormed
<1>1. stage'[v] = stage[v] /\ local'[v] = local[v]
  BY <1>a DEF RunStep, MarkUpload, FetchRows, LatestTxn, FetchApps, CreateMissing,
     NothingMissing, PostMetrics, PostBalance, MarkVerified, InsertResults, NothingToDo,
     MarkDone, Fails, Finish, Goes
<1>2. Job(v)' = Job(v)
  <2>1. UNCHANGED jobVars \/ \E b \in BOOLEAN : Run(w, b)
    BY RunStepsStutter
  <2>. QED
    BY <2>1 DEF jobVars, worker, Run, Job
<1>. SUFFICES ASSUME stage[v] \in HasRead PROVE RunIsWhole(v)'
  BY <1>1 DEF RunIsWhole, HasRead, Paired
<1>3. Job(v) \in Jobs
  BY <1>a, BusyUploads DEF WellFormed, HasRead, Paired, Busy
<1>4. Exists(Job(v))' <=> Exists(Job(v))
  BY <1>2, <1>3, StatusMoves DEF Exists
<1>5. results[Job(v)] # <<>> => results'[Job(v)] # <<>>
  BY <1>a, <1>3, RunResults, AppendReport DEF ReportInv, ReportIsWhole
<1>6. RunIsWhole(v)
  BY DEF ReportInv
<1>. QED
  BY <1>a, <1>1, <1>2, <1>4, <1>5, <1>6 DEF RunIsWhole

LEMMA RunReports ==
    ASSUME Sound, ReportInv, NEW w \in Workers, RunStep(w), NEW j \in Jobs
    PROVE  ReportIsWhole(j)'
<1>a. /\ WellFormed /\ JobInv /\ Job(w) \in Jobs /\ stmt' = stmt
      /\ DOMAIN results = Jobs /\ DOMAIN status = Jobs
  BY RunStepFacts, WellFormedWrites DEF Sound, WellFormed
<1>b. ReportIsWhole(j) /\ RunIsWhole(w)
  BY DEF ReportInv
<1>1. \/ results'[j] = results[j]
      \/ /\ InsertResults(w) /\ j = Job(w) /\ Exists(j)
         /\ results'[j] = Append(results[j], local[w].results)
  BY <1>a, RunResults
<1>2. \/ status'[j] = status[j]
      \/ Exists(j) /\ status'[j] \in {"PROCESSING", "COMPLETED"}
  BY StatusMoves
<1>3. status'[j] = "COMPLETED" /\ status[j] # "COMPLETED" =>
          stmt[j] = <<>> \/ (Exists(j) /\ stage[w] = "done" /\ j = Job(w))
  BY <1>a DEF RunStep, MarkUpload, FetchRows, LatestTxn, FetchApps, CreateMissing,
     NothingMissing, PostMetrics, PostBalance, MarkVerified, InsertResults, NothingToDo,
     MarkDone, Fails, WriteStatus, At
<1>4. CASE results'[j] = results[j]
  BY <1>a, <1>b, <1>2, <1>3, <1>4 DEF ReportIsWhole, RunIsWhole, Exists
<1>5. CASE /\ InsertResults(w) /\ j = Job(w) /\ Exists(j)
           /\ results'[j] = Append(results[j], local[w].results)
  <2>1. stage[w] = "verify" /\ status' = status
    BY <1>5 DEF InsertResults, At
  <2>2. /\ local[w].results \in [1 .. Len(local[w].rows) -> Range(local[w].results)]
        /\ Len(local[w].rows) = Len(stmt[j]) /\ Len(local[w].rows) \in Nat
    <3>1. local[w].rows \in Seq(Items)
      BY <1>a DEF WellFormed
    <3>2. Len(local[w].rows) \in Nat
      BY <3>1, LenProperties
    <3>. QED
      BY <1>b, <1>5, <2>1, <3>2 DEF RunIsWhole, HasRead, Paired
  <2>3. Len(local[w].results) = Len(stmt[j])
    BY <2>2, AsSeq
  <2>4. results[j] \in Seq(Range(results[j]))
    BY <1>b DEF ReportIsWhole
  <2>5. /\ results'[j] # <<>> /\ results'[j] \in Seq(Range(results'[j]))
        /\ \A n \in DOMAIN results'[j] : results'[j][n] = local[w].results
               \/ (n \in DOMAIN results[j] /\ results'[j][n] = results[j][n])
    BY <1>5, <2>4, AppendReport
  <2>6. \A n \in DOMAIN results'[j] : Len(results'[j][n]) = Len(stmt[j])
    BY <1>b, <1>5, <2>3, <2>5 DEF ReportIsWhole
  <2>7. status'[j] # "none"
    BY <1>5, <2>1 DEF Exists
  <2>. QED
    BY <1>a, <2>5, <2>6, <2>7 DEF ReportIsWhole
<1>. QED
  BY <1>1, <1>4, <1>5

LEMMA ReportStep ==
    ASSUME Sound, ReportInv, [ReconNext]_<<jobVars, reconVars>>
    PROVE  ReportInv'
<1>d. /\ WellFormed /\ JobInv
      /\ DOMAIN status = Jobs /\ DOMAIN stmt = Jobs /\ DOMAIN results = Jobs
      /\ DOMAIN stage = Workers /\ DOMAIN local = Workers
  BY DEF Sound, WellFormed, OutcomeInv, FinalInv
\* A run that read its rows is of an upload that was made.
<1>r. ASSUME NEW w \in Workers, stage[w] \in HasRead
      PROVE  Job(w) \in Jobs /\ status[Job(w)] # "none"
  BY <1>d, <1>r, BusyUploads DEF WellFormed, HasRead, Paired, Busy
<1>p. Paired \subseteq HasRead /\ "done" \in HasRead /\ "start" \notin HasRead
  BY DEF HasRead, Paired
<1>1. ASSUME NEW k \in Jobs, Upload(k) PROVE ReportInv'
  <2>1. /\ status[k] = "none" /\ status'[k] = "UPLOADED" /\ results' = results
        /\ stage' = stage /\ local' = local /\ ev' = ev
        /\ \A j \in Jobs : j # k => status'[j] = status[j] /\ stmt'[j] = stmt[j]
    BY <1>d, <1>1 DEF Upload, jobVars, worker
  <2>2. ASSUME NEW w \in Workers PROVE RunIsWhole(w)'
    <3>1. RunIsWhole(w) /\ Job(w)' = Job(w)
      BY <2>1 DEF ReportInv, Job
    <3>2. stage[w] \in HasRead => Job(w) \in Jobs /\ Job(w) # k
      BY <1>r, <2>1
    <3>. QED
      BY <1>p, <2>1, <3>1, <3>2 DEF RunIsWhole, Exists
  <2>3. ASSUME NEW j \in Jobs PROVE ReportIsWhole(j)'
    <3>1. ReportIsWhole(j)
      BY DEF ReportInv
    <3>. QED
      BY <2>1, <3>1, EmptyReport DEF ReportIsWhole, Exists
  <2>. QED
    BY <2>2, <2>3 DEF ReportInv
<1>2. ASSUME NEW k \in Jobs, DeleteUpload(k) PROVE ReportInv'
  <2>1. /\ status'[k] = "deleted" /\ results'[k] = <<>>
        /\ stage' = stage /\ local' = local /\ ev' = ev
        /\ \A j \in Jobs : j # k => /\ status'[j] = status[j] /\ stmt'[j] = stmt[j]
                                    /\ results'[j] = results[j]
    BY <1>d, <1>2 DEF DeleteUpload, jobVars, worker
  <2>2. ASSUME NEW w \in Workers PROVE RunIsWhole(w)'
    <3>1. RunIsWhole(w) /\ Job(w)' = Job(w)
      BY <2>1 DEF ReportInv, Job
    <3>2. stage[w] \in HasRead => Job(w) \in Jobs
      BY <1>r
    <3>. QED
      BY <1>p, <2>1, <3>1, <3>2 DEF RunIsWhole, Exists
  <2>3. ASSUME NEW j \in Jobs PROVE ReportIsWhole(j)'
    <3>1. ReportIsWhole(j)
      BY DEF ReportInv
    <3>. QED
      BY <2>1, <3>1, EmptyReport DEF ReportIsWhole, Exists
  <2>. QED
    BY <2>2, <2>3 DEF ReportInv
<1>3. ASSUME NEW w \in Workers, RunStep(w) PROVE ReportInv'
  BY <1>3, RunStaysWhole, OtherRunsStayWhole, RunReports DEF ReportInv
<1>4. ASSUME NEW w \in Workers, (Frame(w) /\ UNCHANGED reconVars) \/ Dies(w) PROVE ReportInv'
  <2>1. /\ status' = status /\ stmt' = stmt /\ results' = results /\ stage'[w] = "start"
        /\ \A v \in Workers : v # w => /\ stage'[v] = stage[v] /\ local'[v] = local[v]
    BY <1>d, <1>4, FrameShape DEF reconVars, Dies, Goes
  <2>2. \A v \in Workers : v # w => Job(v)' = Job(v)
    BY <1>d, <1>4 DEF JobInv, TypeOK, Frame, Receive, Lookup, MarkProcessing, Settle, Return,
       Dies, Crash, Leave, Job
  <2>3. ASSUME NEW v \in Workers PROVE RunIsWhole(v)'
    BY <1>p, <2>1, <2>2 DEF RunIsWhole, ReportInv, Exists
  <2>4. ASSUME NEW j \in Jobs PROVE ReportIsWhole(j)'
    BY <2>1 DEF ReportIsWhole, ReportInv, Exists
  <2>. QED
    BY <2>3, <2>4 DEF ReportInv
<1>5. CASE UNCHANGED <<status, stmt, results, stage, local, ev>>
  BY <1>5 DEF ReportInv, RunIsWhole, ReportIsWhole, Exists, Job
<1>6. ASSUME NEW k \in Jobs, EnqueueBankReconciliation(k)
      PROVE  UNCHANGED <<status, stmt, results, stage, local, ev>>
  BY <1>6 DEF EnqueueBankReconciliation, RecordJob, Dispatch, worker, reconVars
<1>. QED
  BY <1>1, <1>2, <1>3, <1>4, <1>5, <1>6 DEF ReconNext, UserSteps, Works, UserCreates,
     UserDeletes, jobVars, worker, reconVars

LEMMA ReportInit == ReconInit => ReportInv
<1>. SUFFICES ASSUME ReconInit PROVE ReportInv
  OBVIOUS
<1>1. \A w \in Workers : RunIsWhole(w)
  BY DEF ReconInit, RunIsWhole, HasRead, Paired
<1>2. \A j \in Jobs : ReportIsWhole(j)
  BY EmptyReport DEF ReconInit, ReportIsWhole
<1>. QED
  BY <1>1, <1>2 DEF ReportInv

(***************************************************************************)
(* A COMPLETED upload has a result for every one of its rows, in every     *)
(* list a run or its retry inserted.                                       *)
(***************************************************************************)
THEOREM CompletedUploadsAreReported == ReconSpec => []CompletedIsReported
<1>1. ReportInv => CompletedIsReported
  BY DEF ReportInv, ReportIsWhole, CompletedIsReported, Exists
<1>. QED
  BY <1>1, ReportInit, SoundInit, SoundStep, ReportStep, PTL DEF ReconSpec

-----------------------------------------------------------------------------
(***************************************************************************)
(* What was posted of the transactions the runs created.  Between their    *)
(* insertion and the two postings a transaction is owed by the one run     *)
(* that made it; a posting that fails or that death prevents is given up.  *)
(***************************************************************************)
OwesMetrics(w) == IF stage[w] = "metrics" THEN local[w].made ELSE {}
OwesBalance(w) == IF stage[w] \in {"metrics", "balance"} THEN local[w].made ELSE {}

MetricsOwed(t) == \E w \in Workers : t \in OwesMetrics(w)
BalanceOwed(t) == \E w \in Workers : t \in OwesBalance(w)

Count(b) == IF b THEN 1 ELSE 0

OwedOnce ==
    /\ unmetered \subseteq DOMAIN txns /\ unposted \subseteq DOMAIN txns
    /\ \A w \in Workers : /\ OwesBalance(w) \subseteq DOMAIN txns
                          /\ OwesBalance(w) \cap unposted = {}
                          /\ OwesMetrics(w) \cap unmetered = {}
    /\ \A w, v \in Workers : w # v => OwesBalance(w) \cap OwesBalance(v) = {}

Accounted(t) ==
    /\ txns[t].met + Count(MetricsOwed(t)) + Count(t \in unmetered) = Count(txns[t].live)
    /\ txns[t].bal + Count(BalanceOwed(t)) + Count(t \in unposted) = Count(txns[t].live)

MadeInv == OwedOnce /\ \A t \in DOMAIN txns : txns[t].auto => Accounted(t)

LEMMA MetricsThenBalance ==
    ASSUME NEW w \in Workers
    PROVE  /\ OwesMetrics(w) \subseteq OwesBalance(w)
           /\ OwesMetrics(w)' \subseteq OwesBalance(w)'
BY DEF OwesMetrics, OwesBalance

(***************************************************************************)
(* When only w may owe something else, what w does not owe is owed as      *)
(* before, and what it owed nobody else did.                               *)
(***************************************************************************)
LEMMA OwedElsewhere ==
    ASSUME OwedOnce, NEW w \in Workers, NEW t,
           \A v \in Workers : v # w => /\ OwesMetrics(v)' = OwesMetrics(v)
                                       /\ OwesBalance(v)' = OwesBalance(v)
    PROVE  \E m, b \in BOOLEAN :
              /\ MetricsOwed(t)  <=> t \in OwesMetrics(w) \/ m
              /\ MetricsOwed(t)' <=> t \in OwesMetrics(w)' \/ m
              /\ BalanceOwed(t)  <=> t \in OwesBalance(w) \/ b
              /\ BalanceOwed(t)' <=> t \in OwesBalance(w)' \/ b
              /\ t \in OwesBalance(w) => ~m /\ ~b
              /\ t \notin DOMAIN txns => ~m /\ ~b
<1>. DEFINE m == \E v \in Workers : v # w /\ t \in OwesMetrics(v)
            b == \E v \in Workers : v # w /\ t \in OwesBalance(v)
<1>1. /\ MetricsOwed(t)  <=> t \in OwesMetrics(w) \/ m
      /\ MetricsOwed(t)' <=> t \in OwesMetrics(w)' \/ m
  BY DEF MetricsOwed
<1>2. /\ BalanceOwed(t)  <=> t \in OwesBalance(w) \/ b
      /\ BalanceOwed(t)' <=> t \in OwesBalance(w)' \/ b
  BY DEF BalanceOwed
<1>3. /\ t \in OwesBalance(w) => ~m /\ ~b
      /\ t \notin DOMAIN txns => ~m /\ ~b
  BY MetricsThenBalance DEF OwedOnce
<1>. QED
  BY <1>1, <1>2, <1>3

(***************************************************************************)
(* A step that leaves the runs, the postings and what was given up alone.  *)
(***************************************************************************)
LEMMA MadeKept ==
    ASSUME WellFormed, MadeInv, DOMAIN txns \subseteq DOMAIN txns',
           unmetered' = unmetered, unposted' = unposted,
           \A w \in Workers : /\ OwesMetrics(w)' = OwesMetrics(w)
                              /\ OwesBalance(w)' = OwesBalance(w),
           \A t \in DOMAIN txns' \ DOMAIN txns : ~txns'[t].auto,
           \A t \in DOMAIN txns :
              /\ txns'[t].auto = txns[t].auto
              /\ \/ /\ txns'[t].live = txns[t].live
                    /\ txns'[t].met = txns[t].met /\ txns'[t].bal = txns[t].bal
                 \/ /\ txns[t].live /\ ~txns'[t].live
                    /\ txns'[t].met = txns[t].met - 1 /\ txns'[t].bal = txns[t].bal - 1
    PROVE  MadeInv'
<1>1. OwedOnce'
  BY DEF MadeInv, OwedOnce
<1>2. ASSUME NEW t \in DOMAIN txns', txns'[t].auto PROVE Accounted(t)'
  <2>1. t \in DOMAIN txns /\ txns[t].auto
    BY <1>2
  <2>2. Accounted(t) /\ txns[t].met \in Int /\ txns[t].bal \in Int
    <3>1. txns[t] \in TxnSet
      BY <2>1, LenProperties DEF WellFormed
    <3>. QED
      BY <2>1, <3>1 DEF MadeInv, TxnSet
  <2>3. (MetricsOwed(t)' <=> MetricsOwed(t)) /\ (BalanceOwed(t)' <=> BalanceOwed(t))
    BY DEF MetricsOwed, BalanceOwed
  <2>4. /\ Count(MetricsOwed(t))' = Count(MetricsOwed(t))
        /\ Count(BalanceOwed(t))' = Count(BalanceOwed(t))
        /\ Count(t \in unmetered)' = Count(t \in unmetered)
        /\ Count(t \in unposted)' = Count(t \in unposted)
    BY <2>3 DEF Count
  <2>5. \/ /\ Count(txns[t].live)' = Count(txns[t].live)
           /\ txns'[t].met = txns[t].met /\ txns'[t].bal = txns[t].bal
        \/ /\ Count(txns[t].live)' = Count(txns[t].live) - 1
           /\ txns'[t].met = txns[t].met - 1 /\ txns'[t].bal = txns[t].bal - 1
    BY <2>1 DEF Count
  <2>6. /\ Count(MetricsOwed(t)) \in Int /\ Count(BalanceOwed(t)) \in Int
        /\ Count(t \in unmetered) \in Int /\ Count(t \in unposted) \in Int
        /\ Count(txns[t].live) \in Int
    BY DEF Count
  <2>. QED
    BY <2>2, <2>4, <2>5, <2>6 DEF Accounted
<1>. QED
  BY <1>1, <1>2 DEF MadeInv

LEMMA CreateIsMade ==
    ASSUME Sound, MadeInv, NEW w \in Workers, CreateMissing(w)
    PROVE  MadeInv'
<1>a. /\ WellFormed /\ JobInv /\ Job(w) \in Jobs /\ txns \in Seq(TxnSet)
      /\ DOMAIN stage = Workers /\ DOMAIN local = Workers
  BY RunStepFacts DEF Sound, WellFormed, RunStep
<1>b. /\ txns' \in Seq(TxnSet) /\ Len(txns) \in Nat /\ Len(txns') \in Nat
      /\ Len(txns) <= Len(txns')
      /\ \A t \in 1 .. Len(txns) : txns'[t] = txns[t]
      /\ \A t \in Len(txns) + 1 .. Len(txns') :
            txns'[t].live /\ txns'[t].met = 0 /\ txns'[t].bal = 0
      /\ local'[w].made = Len(txns) + 1 .. Len(txns')
  BY <1>a, CreateMissingWrites
<1>c. DOMAIN txns = 1 .. Len(txns) /\ DOMAIN txns' = 1 .. Len(txns')
  BY <1>a, <1>b, LenProperties
<1>d. /\ OwesMetrics(w) = {} /\ OwesBalance(w) = {}
      /\ OwesMetrics(w)' = Len(txns) + 1 .. Len(txns')
      /\ OwesBalance(w)' = Len(txns) + 1 .. Len(txns')
      /\ unmetered' = unmetered /\ unposted' = unposted
  <2>1. stage[w] = "create" /\ stage'[w] = "metrics"
    BY <1>a DEF CreateMissing, At, Goes
  <2>2. unmetered' = unmetered /\ unposted' = unposted
    BY DEF CreateMissing
  <2>. QED
    BY <1>b, <2>1, <2>2 DEF OwesMetrics, OwesBalance
<1>e. \A v \in Workers : v # w => /\ OwesMetrics(v)' = OwesMetrics(v)
                                  /\ OwesBalance(v)' = OwesBalance(v)
  BY <1>a DEF CreateMissing, Goes, OwesMetrics, OwesBalance
<1>o. OwedOnce
  BY DEF MadeInv
<1>f. \A t \in Len(txns) + 1 .. Len(txns') : t \notin DOMAIN txns /\ t \in DOMAIN txns'
  BY <1>b, <1>c
<1>g. \A t \in DOMAIN txns : t \in DOMAIN txns' /\ t \notin Len(txns) + 1 .. Len(txns')
  BY <1>b, <1>c
<1>1. OwedOnce'
  <2>1. \A v \in Workers : /\ OwesBalance(v)' \subseteq DOMAIN txns'
                           /\ OwesBalance(v)' \cap unposted' = {}
                           /\ OwesMetrics(v)' \cap unmetered' = {}
    BY <1>d, <1>e, <1>f, <1>g, <1>o DEF OwedOnce
  <2>2. \A u, v \in Workers : u # v => OwesBalance(u)' \cap OwesBalance(v)' = {}
    BY <1>d, <1>e, <1>f, <1>o DEF OwedOnce
  <2>3. unmetered' \subseteq DOMAIN txns' /\ unposted' \subseteq DOMAIN txns'
    BY <1>d, <1>g, <1>o DEF OwedOnce
  <2>. QED
    BY <2>1, <2>2, <2>3 DEF OwedOnce
<1>2. ASSUME NEW t \in DOMAIN txns', txns'[t].auto PROVE Accounted(t)'
  <2>1. PICK m, b \in BOOLEAN :
              /\ MetricsOwed(t)  <=> t \in OwesMetrics(w) \/ m
              /\ MetricsOwed(t)' <=> t \in OwesMetrics(w)' \/ m
              /\ BalanceOwed(t)  <=> t \in OwesBalance(w) \/ b
              /\ BalanceOwed(t)' <=> t \in OwesBalance(w)' \/ b
              /\ t \notin DOMAIN txns => ~m /\ ~b
    BY <1>e, <1>o, OwedElsewhere
  <2>2. CASE t \in DOMAIN txns
    <3>1. txns'[t] = txns[t] /\ Accounted(t)
      BY <1>2, <1>b, <1>c, <2>2 DEF MadeInv
    <3>2. (MetricsOwed(t)' <=> MetricsOwed(t)) /\ (BalanceOwed(t)' <=> BalanceOwed(t))
      BY <1>d, <1>g, <2>1, <2>2
    <3>3. /\ Count(MetricsOwed(t))' = Count(MetricsOwed(t))
          /\ Count(BalanceOwed(t))' = Count(BalanceOwed(t))
          /\ Count(t \in unmetered)' = Count(t \in unmetered)
          /\ Count(t \in unposted)' = Count(t \in unposted)
          /\ Count(txns[t].live)' = Count(txns[t].live)
      BY <1>d, <3>1, <3>2 DEF Count
    <3>. QED
      BY <3>1, <3>3 DEF Accounted
  <2>3. CASE t \notin DOMAIN txns
    <3>1. t \in Len(txns) + 1 .. Len(txns')
      BY <1>b, <1>c, <2>3
    <3>2. MetricsOwed(t)' /\ BalanceOwed(t)' /\ t \notin unmetered' /\ t \notin unposted'
      BY <1>d, <1>o, <2>1, <2>3, <3>1 DEF OwedOnce
    <3>3. txns'[t].live /\ txns'[t].met = 0 /\ txns'[t].bal = 0
      BY <1>b, <3>1
    <3>. QED
      BY <3>2, <3>3 DEF Accounted, Count
  <2>. QED
    BY <2>2, <2>3
<1>. QED
  BY <1>1, <1>2 DEF MadeInv

(***************************************************************************)
(* A step in which w posts, or gives up, what it owes of the metrics, and  *)
(* keeps, posts or gives up what it owes of the balance.                   *)
(***************************************************************************)
LEMMA Released ==
    ASSUME WellFormed, MadeInv, NEW w \in Workers, DOMAIN txns' = DOMAIN txns,
           \A v \in Workers : v # w => /\ OwesMetrics(v)' = OwesMetrics(v)
                                       /\ OwesBalance(v)' = OwesBalance(v),
           \A t \in DOMAIN txns :
              txns'[t].auto = txns[t].auto /\ txns'[t].live = txns[t].live,
           OwesMetrics(w)' = {},
           \/ /\ unmetered' = unmetered
              /\ \A t \in DOMAIN txns : txns'[t].met =
                    IF t \in OwesMetrics(w) THEN txns[t].met + 1 ELSE txns[t].met
           \/ /\ unmetered' = unmetered \cup OwesMetrics(w)
              /\ \A t \in DOMAIN txns : txns'[t].met = txns[t].met,
           \/ /\ OwesBalance(w)' = OwesBalance(w) /\ unposted' = unposted
              /\ \A t \in DOMAIN txns : txns'[t].bal = txns[t].bal
           \/ /\ OwesBalance(w)' = {} /\ unposted' = unposted
              /\ \A t \in DOMAIN txns : txns'[t].bal =
                    IF t \in OwesBalance(w) THEN txns[t].bal + 1 ELSE txns[t].bal
           \/ /\ OwesBalance(w)' = {} /\ unposted' = unposted \cup OwesBalance(w)
              /\ \A t \in DOMAIN txns : txns'[t].bal = txns[t].bal
    PROVE  MadeInv'
<1>o. OwedOnce
  BY DEF MadeInv
<1>m. \A v \in Workers : OwesMetrics(v) \subseteq OwesBalance(v)
  BY MetricsThenBalance
<1>1. OwedOnce'
  <2>1. unmetered' \subseteq unmetered \cup OwesMetrics(w)
        /\ unposted' \subseteq unposted \cup OwesBalance(w)
    OBVIOUS
  <2>2. \A v \in Workers : v # w => OwesBalance(v) \cap OwesBalance(w) = {}
    BY <1>o DEF OwedOnce
  <2>3. unmetered' \subseteq DOMAIN txns' /\ unposted' \subseteq DOMAIN txns'
    BY <1>o, <1>m, <2>1 DEF OwedOnce
  <2>4. \A v \in Workers : v # w =>
           /\ OwesBalance(v)' \subseteq DOMAIN txns'
           /\ OwesBalance(v)' \cap unposted' = {}
           /\ OwesMetrics(v)' \cap unmetered' = {}
    BY <1>o, <1>m, <2>1, <2>2 DEF OwedOnce
  <2>5. /\ OwesBalance(w)' \subseteq DOMAIN txns'
        /\ OwesBalance(w)' \cap unposted' = {}
        /\ OwesMetrics(w)' \cap unmetered' = {}
    BY <1>o DEF OwedOnce
  <2>6. \A u, v \in Workers : u # v => OwesBalance(u)' \cap OwesBalance(v)' = {}
    <3>1. \A v \in Workers : OwesBalance(v)' \subseteq OwesBalance(v)
      OBVIOUS
    <3>. QED
      BY <1>o, <3>1 DEF OwedOnce
  <2>. QED
    BY <2>3, <2>4, <2>5, <2>6 DEF OwedOnce
<1>2. ASSUME NEW t \in DOMAIN txns', txns'[t].auto PROVE Accounted(t)'
  <2>1. t \in DOMAIN txns /\ txns[t].auto /\ txns'[t].live = txns[t].live
    BY <1>2
  <2>2. txns[t].met \in Int /\ txns[t].bal \in Int
    <3>1. txns[t] \in TxnSet
      BY <2>1, LenProperties DEF WellFormed
    <3>. QED
      BY <3>1 DEF TxnSet
  <2>3. Accounted(t)
    BY <2>1 DEF MadeInv
  <2>4. PICK m, b \in BOOLEAN :
              /\ MetricsOwed(t)  <=> t \in OwesMetrics(w) \/ m
              /\ MetricsOwed(t)' <=> t \in OwesMetrics(w)' \/ m
              /\ BalanceOwed(t)  <=> t \in OwesBalance(w) \/ b
              /\ BalanceOwed(t)' <=> t \in OwesBalance(w)' \/ b
              /\ t \in OwesBalance(w) => ~m /\ ~b
    BY <1>o, OwedElsewhere
  <2>5. /\ t \in OwesMetrics(w) => t \in OwesBalance(w) /\ t \notin unmetered
        /\ t \in OwesBalance(w) => t \notin unposted
    BY <1>o, <1>m DEF OwedOnce
  <2>6. txns'[t].met + Count(MetricsOwed(t))' + Count(t \in unmetered)'
            = txns[t].met + Count(MetricsOwed(t)) + Count(t \in unmetered)
    <3>1. CASE t \in OwesMetrics(w)
      <4>1. /\ Count(MetricsOwed(t)) = 1 /\ Count(MetricsOwed(t))' = 0
            /\ Count(t \in unmetered) = 0
        BY <2>4, <2>5, <3>1 DEF Count
      <4>2. \/ txns'[t].met = txns[t].met + 1 /\ Count(t \in unmetered)' = 0
            \/ txns'[t].met = txns[t].met /\ Count(t \in unmetered)' = 1
        BY <2>1, <2>5, <3>1 DEF Count
      <4>. QED
        BY <2>2, <4>1, <4>2
    <3>2. CASE t \notin OwesMetrics(w)
      <4>1. /\ Count(MetricsOwed(t))' = Count(MetricsOwed(t))
            /\ Count(t \in unmetered)' = Count(t \in unmetered)
        BY <2>4, <3>2 DEF Count
      <4>2. txns'[t].met = txns[t].met
        BY <2>1, <3>2
      <4>. QED
        BY <4>1, <4>2
    <3>. QED
      BY <3>1, <3>2
  <2>7. txns'[t].bal + Count(BalanceOwed(t))' + Count(t \in unposted)'
            = txns[t].bal + Count(BalanceOwed(t)) + Count(t \in unposted)
    <3>1. CASE /\ OwesBalance(w)' = OwesBalance(w) /\ unposted' = unposted
               /\ txns'[t].bal = txns[t].bal
      <4>1. /\ Count(BalanceOwed(t))' = Count(BalanceOwed(t))
            /\ Count(t \in unposted)' = Count(t \in unposted)
        BY <2>4, <3>1 DEF Count
      <4>. QED
        BY <3>1, <4>1
    <3>2. CASE /\ OwesBalance(w)' = {} /\ t \in OwesBalance(w)
               /\ \/ unposted' = unposted /\ txns'[t].bal = txns[t].bal + 1
                  \/ t \in unposted' /\ txns'[t].bal = txns[t].bal
      <4>1. /\ Count(BalanceOwed(t)) = 1 /\ Count(BalanceOwed(t))' = 0
            /\ Count(t \in unposted) = 0
        BY <2>4, <2>5, <3>2 DEF Count
      <4>2. \/ txns'[t].bal = txns[t].bal + 1 /\ Count(t \in unposted)' = 0
            \/ txns'[t].bal = txns[t].bal /\ Count(t \in unposted)' = 1
        BY <2>5, <3>2 DEF Count
      <4>. QED
        BY <2>2, <4>1, <4>2
    <3>3. CASE /\ OwesBalance(w)' = {} /\ t \notin OwesBalance(w)
               /\ txns'[t].bal = txns[t].bal /\ (t \in unposted' <=> t \in unposted)
      <4>1. /\ Count(BalanceOwed(t))' = Count(BalanceOwed(t))
            /\ Count(t \in unposted)' = Count(t \in unposted)
        BY <2>4, <3>3 DEF Count
      <4>. QED
        BY <3>3, <4>1
    <3>. QED
      BY <2>1, <3>1, <3>2, <3>3
  <2>8. Count(txns[t].live)' = Count(txns[t].live)
    BY <2>1 DEF Count
  <2>. QED
    BY <2>3, <2>6, <2>7, <2>8 DEF Accounted
<1>. QED
  BY <1>1, <1>2 DEF MadeInv

LEMMA PostingsAreMade ==
    ASSUME WellFormed, MadeInv, NEW w \in Workers, PostMetrics(w) \/ PostBalance(w)
    PROVE  MadeInv'
<1>a. /\ DOMAIN stage = Workers /\ txns \in Seq(TxnSet) /\ DOMAIN txns = 1 .. Len(txns)
      /\ local' = local
  BY LenProperties DEF WellFormed, PostMetrics, PostBalance
<1>b. \A v \in Workers : v # w => /\ OwesMetrics(v)' = OwesMetrics(v)
                                  /\ OwesBalance(v)' = OwesBalance(v)
  BY <1>a DEF PostMetrics, PostBalance, Goes, OwesMetrics, OwesBalance
<1>1. CASE PostMetrics(w)
  <2>1. stage[w] = "metrics" /\ stage'[w] \in {"balance", "verify"}
    BY <1>1, <1>a DEF PostMetrics, At, Goes
  <2>2. /\ OwesMetrics(w) = local[w].made /\ OwesBalance(w) = local[w].made
        /\ OwesMetrics(w)' = {}
    BY <2>1 DEF OwesMetrics, OwesBalance
  <2>3. /\ txns' \in Seq(TxnSet) /\ Len(txns') = Len(txns)
        /\ \A t \in DOMAIN txns :
              /\ txns'[t].auto = txns[t].auto /\ txns'[t].live = txns[t].live
              /\ txns'[t].bal = txns[t].bal
        /\ \/ /\ stage'[w] = "balance" /\ UNCHANGED <<unmetered, unposted>>
              /\ \A t \in DOMAIN txns : txns'[t].met =
                     IF t \in local[w].made THEN txns[t].met + 1 ELSE txns[t].met
           \/ /\ stage'[w] = "verify" /\ txns' = txns
              /\ unmetered' = unmetered \cup local[w].made
              /\ unposted' = unposted \cup local[w].made
    BY <1>1, <1>a, PostMetricsWrites DEF Like
  <2>4. DOMAIN txns' = DOMAIN txns
    BY <1>a, <2>3, LenProperties
  <2>5. CASE stage'[w] = "balance"
    <3>1. OwesBalance(w)' = OwesBalance(w)
      BY <1>a, <2>2, <2>5 DEF OwesBalance
    <3>. QED
      BY <1>b, <2>2, <2>3, <2>4, <2>5, <3>1, Released
  <2>6. CASE stage'[w] = "verify"
    <3>1. OwesBalance(w)' = {}
      BY <2>6 DEF OwesBalance
    <3>. QED
      BY <1>b, <2>2, <2>3, <2>4, <2>6, <3>1, Released
  <2>. QED
    BY <2>1, <2>5, <2>6
<1>2. CASE PostBalance(w)
  <2>1. stage[w] = "balance" /\ stage'[w] = "verify"
    BY <1>2, <1>a DEF PostBalance, At, Goes
  <2>2. /\ OwesMetrics(w) = {} /\ OwesBalance(w) = local[w].made
        /\ OwesMetrics(w)' = {} /\ OwesBalance(w)' = {}
    BY <2>1 DEF OwesMetrics, OwesBalance
  <2>3. /\ txns' \in Seq(TxnSet) /\ Len(txns') = Len(txns) /\ unmetered' = unmetered
        /\ \A t \in DOMAIN txns :
              /\ txns'[t].auto = txns[t].auto /\ txns'[t].live = txns[t].live
              /\ txns'[t].met = txns[t].met
        /\ \/ /\ unposted' = unposted
              /\ \A t \in DOMAIN txns : txns'[t].bal =
                     IF t \in local[w].made THEN txns[t].bal + 1 ELSE txns[t].bal
           \/ unposted' = unposted \cup local[w].made /\ txns' = txns
    BY <1>2, <1>a, PostBalanceWrites DEF Like
  <2>4. DOMAIN txns' = DOMAIN txns
    BY <1>a, <2>3, LenProperties
  <2>. QED
    BY <1>b, <2>2, <2>3, <2>4, Released
<1>. QED
  BY <1>1, <1>2

LEMMA DeathIsMade ==
    ASSUME WellFormed, JobInv, MadeInv, NEW w \in Workers, Dies(w)
    PROVE  MadeInv'
<1>a. /\ DOMAIN stage = Workers /\ DOMAIN local = Workers /\ txns' = txns
      /\ stage' = [stage EXCEPT ![w] = "start"] /\ local' = [local EXCEPT ![w] = Fresh]
  BY DiesShape DEF WellFormed
<1>1. \A v \in Workers : v # w => /\ OwesMetrics(v)' = OwesMetrics(v)
                                  /\ OwesBalance(v)' = OwesBalance(v)
  BY <1>a DEF OwesMetrics, OwesBalance
<1>2. /\ OwesMetrics(w)' = {} /\ OwesBalance(w)' = {}
      /\ unmetered' = unmetered \cup OwesMetrics(w)
      /\ unposted' = unposted \cup OwesBalance(w)
  BY <1>a DEF Dies, OwesMetrics, OwesBalance
<1>. QED
  BY <1>a, <1>1, <1>2, Released

LEMMA RunStepsAreMade ==
    ASSUME Sound, MadeInv, NEW w \in Workers, RunStep(w)
    PROVE  MadeInv'
<1>a. /\ WellFormed /\ JobInv /\ Job(w) \in Jobs /\ DOMAIN stage = Workers
      /\ DOMAIN local = Workers /\ txns \in Seq(TxnSet) /\ DOMAIN txns = 1 .. Len(txns)
  BY RunStepFacts, LenProperties DEF Sound, WellFormed
<1>1. CASE CreateMissing(w)
  BY <1>1, CreateIsMade
<1>2. CASE PostMetrics(w) \/ PostBalance(w)
  BY <1>a, <1>2, PostingsAreMade
<1>3. CASE MarkVerified(w)
  <2>1. /\ txns' \in Seq(TxnSet) /\ Len(txns') = Len(txns)
        /\ \A t \in DOMAIN txns :
              /\ txns'[t].auto = txns[t].auto /\ txns'[t].live = txns[t].live
              /\ txns'[t].met = txns[t].met /\ txns'[t].bal = txns[t].bal
    BY <1>a, <1>3, MarkVerifiedWrites DEF Like
  <2>2. DOMAIN txns' = DOMAIN txns
    BY <1>a, <2>1, LenProperties
  <2>3. /\ stage' = stage /\ stage[w] = "verify" /\ unmetered' = unmetered
        /\ unposted' = unposted /\ \A v \in Workers : v # w => local'[v] = local[v]
    BY <1>a, <1>3 DEF MarkVerified, At
  <2>4. \A v \in Workers : /\ OwesMetrics(v)' = OwesMetrics(v)
                           /\ OwesBalance(v)' = OwesBalance(v)
    BY <2>3 DEF OwesMetrics, OwesBalance
  <2>. QED
    BY <1>a, <2>1, <2>2, <2>3, <2>4, MadeKept
<1>4. CASE \/ MarkUpload(w) \/ FetchRows(w) \/ NothingToDo(w) \/ LatestTxn(w)
           \/ FetchApps(w) \/ NothingMissing(w) \/ InsertResults(w) \/ MarkDone(w)
           \/ Fails(w)
  <2>1. txns' = txns /\ unmetered' = unmetered /\ unposted' = unposted
    BY <1>4 DEF MarkUpload, FetchRows, NothingToDo, LatestTxn, FetchApps, NothingMissing,
       InsertResults, MarkDone, Fails
  <2>2. /\ stage[w] \notin {"metrics", "balance"} /\ stage'[w] \notin {"metrics", "balance"}
        /\ \A v \in Workers : v # w => stage'[v] = stage[v] /\ local'[v] = local[v]
    BY <1>4, <1>a DEF MarkUpload, FetchRows, NothingToDo, LatestTxn, FetchApps,
       NothingMissing, InsertResults, MarkDone, Fails, Finish, Goes, At
  <2>3. \A v \in Workers : /\ OwesMetrics(v)' = OwesMetrics(v)
                           /\ OwesBalance(v)' = OwesBalance(v)
    BY <2>2 DEF OwesMetrics, OwesBalance
  <2>. QED
    BY <1>a, <2>1, <2>3, MadeKept
<1>. QED
  BY <1>1, <1>2, <1>3, <1>4 DEF RunStep

LEMMA MadeInit == ReconInit => MadeInv
<1>. SUFFICES ASSUME ReconInit PROVE MadeInv
  OBVIOUS
<1>1. \A w \in Workers : OwesMetrics(w) = {} /\ OwesBalance(w) = {}
  BY DEF ReconInit, OwesMetrics, OwesBalance
<1>2. DOMAIN txns = {}
  BY DEF ReconInit
<1>. QED
  BY <1>1, <1>2 DEF ReconInit, MadeInv, OwedOnce

LEMMA MadeStep ==
    ASSUME Sound, MadeInv, [ReconNext]_<<jobVars, reconVars>>
    PROVE  MadeInv'
<1>a. WellFormed /\ JobInv
  BY DEF Sound, OutcomeInv, FinalInv
<1>1. ASSUME UNCHANGED <<stage, local, txns, unmetered, unposted>> PROVE MadeInv'
  <2>1. \A v \in Workers : /\ OwesMetrics(v)' = OwesMetrics(v)
                           /\ OwesBalance(v)' = OwesBalance(v)
    BY <1>1 DEF OwesMetrics, OwesBalance
  <2>. QED
    BY <1>a, <1>1, <2>1, MadeKept
<1>2. CASE \/ \E u \in DOMAIN UserItems : UserCreates(u)
           \/ \E t \in DOMAIN txns : UserDeletes(t)
           \/ \E j \in Jobs : DeleteUpload(j)
  <2>1. /\ txns' \in Seq(TxnSet) /\ Len(txns) \in Nat
        /\ Len(txns') \in {Len(txns), Len(txns) + 1}
        /\ \A t \in DOMAIN txns : txns'[t].auto = txns[t].auto
        /\ \A t \in DOMAIN txns' \ DOMAIN txns : ~txns'[t].auto
        /\ \A t \in DOMAIN txns :
              \/ /\ txns'[t].live = txns[t].live
                 /\ txns'[t].met = txns[t].met /\ txns'[t].bal = txns[t].bal
              \/ /\ txns[t].live /\ ~txns'[t].live
                 /\ txns'[t].met = txns[t].met - 1 /\ txns'[t].bal = txns[t].bal - 1
    BY <1>a, <1>2, UserWrites DEF Like
  <2>2. DOMAIN txns \subseteq DOMAIN txns'
    <3>1. txns \in Seq(TxnSet)
      BY <1>a DEF WellFormed
    <3>2. DOMAIN txns = 1 .. Len(txns) /\ DOMAIN txns' = 1 .. Len(txns')
      BY <2>1, <3>1, LenProperties
    <3>3. /\ Len(txns) \in Nat
          /\ Len(txns') = Len(txns) \/ Len(txns') = Len(txns) + 1
      BY <2>1
    <3>4. \A t \in 1 .. Len(txns) : t \in 1 .. Len(txns')
      BY <3>3
    <3>. QED
      BY <3>2, <3>4
  <2>3. UNCHANGED <<stage, local, unmetered, unposted>>
    BY <1>2 DEF UserCreates, UserDeletes, DeleteUpload
  <2>4. \A v \in Workers : /\ OwesMetrics(v)' = OwesMetrics(v)
                           /\ OwesBalance(v)' = OwesBalance(v)
    BY <2>3 DEF OwesMetrics, OwesBalance
  <2>. QED
    BY <1>a, <2>1, <2>2, <2>3, <2>4, MadeKept
<1>3. ASSUME NEW w \in Workers, Works(w) \/ Dies(w) PROVE MadeInv'
  <2>1. CASE Frame(w) /\ UNCHANGED reconVars
    BY <1>1, <2>1 DEF reconVars
  <2>. QED
    BY <1>3, <1>a, <2>1, RunStepsAreMade, DeathIsMade DEF Works
<1>4. ASSUME NEW j \in Jobs, Upload(j) \/ EnqueueBankReconciliation(j) PROVE MadeInv'
  BY <1>1, <1>4 DEF Upload, EnqueueBankReconciliation, reconVars
<1>5. CASE UNCHANGED <<jobVars, reconVars>>
  BY <1>1, <1>5 DEF reconVars
<1>. QED
  BY <1>2, <1>3, <1>4, <1>5 DEF ReconNext, UserSteps

(***************************************************************************)
(* The balance and the metrics count every transaction a statement created *)
(* once while it lives, but for what is owed and what was given up.        *)
(***************************************************************************)
THEOREM CreatedIsPostedOnce == ReconSpec => []AutoPostedOnce
<1>1. MadeInv => AutoPostedOnce
  <2>. SUFFICES ASSUME MadeInv, NEW t \in DOMAIN txns, txns[t].auto
                PROVE  /\ Owed(t, {"metrics"}) = Count(MetricsOwed(t))
                       /\ Owed(t, {"metrics", "balance"}) = Count(BalanceOwed(t))
                       /\ Accounted(t)
    BY DEF AutoPostedOnce, Accounted, Count
  <2>1. \A w, v \in Workers : w # v => OwesBalance(w) \cap OwesBalance(v) = {}
    BY DEF MadeInv, OwedOnce
  <2>2. \A S : S = {} => Cardinality(S) = 0
    BY FS_EmptySet
  <2>3. Owed(t, {"metrics"}) = Count(MetricsOwed(t))
    <3>. DEFINE S == {w \in Workers : t \in local[w].made /\ stage[w] \in {"metrics"}}
    <3>1. S = {w \in Workers : t \in OwesMetrics(w)}
      BY DEF OwesMetrics
    <3>2. CASE MetricsOwed(t)
      <4>1. PICK w \in Workers : t \in OwesMetrics(w)
        BY <3>2 DEF MetricsOwed
      <4>2. S = {w}
        BY <2>1, <3>1, <4>1, MetricsThenBalance
      <4>3. Cardinality({w}) = 1
        BY FS_Singleton
      <4>. QED
        BY <3>2, <4>2, <4>3 DEF Owed, Count
    <3>3. CASE ~MetricsOwed(t)
      <4>1. S = {}
        BY <3>1, <3>3 DEF MetricsOwed
      <4>. QED
        BY <2>2, <3>3, <4>1 DEF Owed, Count
    <3>. QED
      BY <3>2, <3>3
  <2>4. Owed(t, {"metrics", "balance"}) = Count(BalanceOwed(t))
    <3>. DEFINE S == {w \in Workers : t \in local[w].made /\ stage[w] \in {"metrics", "balance"}}
    <3>1. S = {w \in Workers : t \in OwesBalance(w)}
      BY DEF OwesBalance
    <3>2. CASE BalanceOwed(t)
      <4>1. PICK w \in Workers : t \in OwesBalance(w)
        BY <3>2 DEF BalanceOwed
      <4>2. S = {w}
        BY <2>1, <3>1, <4>1
      <4>3. Cardinality({w}) = 1
        BY FS_Singleton
      <4>. QED
        BY <3>2, <4>2, <4>3 DEF Owed, Count
    <3>3. CASE ~BalanceOwed(t)
      <4>1. S = {}
        BY <3>1, <3>3 DEF BalanceOwed
      <4>. QED
        BY <2>2, <3>3, <4>1 DEF Owed, Count
    <3>. QED
      BY <3>2, <3>3
  <2>. QED
    BY <2>3, <2>4 DEF MadeInv
<1>. QED
  BY <1>1, MadeInit, SoundInit, SoundStep, MadeStep, PTL DEF ReconSpec

-----------------------------------------------------------------------------
(***************************************************************************)
(* What a run writes of the transactions: those there were stay like they  *)
(* were, but for the postings of what the run made, and what is new was a  *)
(* row that the run had found missing.                                     *)
(***************************************************************************)
WasMissing(w, q) ==
    \E i \in DOMAIN local[w].rows :
        local[w].results[i].kind = "MISSING" /\ SameRow(q, local[w].rows[i])

LEMMA RunWrites ==
    ASSUME Sound, NEW w \in Workers, RunStep(w)
    PROVE  /\ DOMAIN txns \subseteq DOMAIN txns'
           /\ \A t \in DOMAIN txns :
                 /\ Like(txns'[t], txns[t]) /\ txns'[t].live = txns[t].live
                 /\ t \notin local[w].made =>
                       txns'[t].met = txns[t].met /\ txns'[t].bal = txns[t].bal
           /\ \A t \in DOMAIN txns' \ DOMAIN txns :
                 CreateMissing(w) /\ txns'[t].auto /\ WasMissing(w, txns'[t])
<1>a. /\ WellFormed /\ JobInv /\ Job(w) \in Jobs /\ txns \in Seq(TxnSet)
      /\ Len(txns) \in Nat /\ DOMAIN txns = 1 .. Len(txns)
      /\ \A t \in DOMAIN txns : txns[t] \in TxnSet
  BY RunStepFacts, LenProperties DEF Sound, WellFormed
<1>b. DOMAIN txns' = 1 .. Len(txns') /\ Len(txns') \in Nat
  <2>1. txns' \in Seq(TxnSet)
    BY <1>a, WellFormedTxns
  <2>. QED
    BY <2>1, LenProperties
<1>1. CASE CreateMissing(w)
  <2>1. /\ Len(txns) <= Len(txns')
        /\ \A t \in 1 .. Len(txns) : txns'[t] = txns[t]
        /\ \A t \in Len(txns) + 1 .. Len(txns') : txns'[t].auto /\ WasMissing(w, txns'[t])
    BY <1>a, <1>1, CreateMissingWrites DEF WasMissing
  <2>2. \A t \in DOMAIN txns : t \in DOMAIN txns'
    BY <1>a, <1>b, <2>1
  <2>3. \A t \in DOMAIN txns' \ DOMAIN txns : t \in Len(txns) + 1 .. Len(txns')
    BY <1>a, <1>b, <2>1
  <2>. QED
    BY <1>1, <1>a, <2>1, <2>2, <2>3, LikeItself
<1>2. CASE PostMetrics(w)
  BY <1>a, <1>b, <1>2, PostMetricsWrites
<1>3. CASE PostBalance(w)
  BY <1>a, <1>b, <1>3, PostBalanceWrites
<1>4. CASE MarkVerified(w)
  BY <1>a, <1>b, <1>4, MarkVerifiedWrites
<1>5. CASE txns' = txns
  BY <1>a, <1>5, LikeItself
<1>. QED
  BY <1>1, <1>2, <1>3, <1>4, <1>5 DEF RunStep, MarkUpload, FetchRows, LatestTxn,
     FetchApps, NothingMissing, InsertResults, NothingToDo, MarkDone, Fails

(***************************************************************************)
(* The same of any step: nobody but a run makes automatic transactions.    *)
(***************************************************************************)
LEMMA TxnsKept ==
    ASSUME Sound, [ReconNext]_<<jobVars, reconVars>>
    PROVE  /\ DOMAIN txns \subseteq DOMAIN txns'
           /\ \A t \in DOMAIN txns :
                 Like(txns'[t], txns[t]) /\ (txns'[t].live => txns[t].live)
           /\ \A t \in DOMAIN txns' \ DOMAIN txns : txns'[t].auto =>
                 \E w \in Workers : CreateMissing(w) /\ WasMissing(w, txns'[t])
<1>a. /\ WellFormed /\ txns \in Seq(TxnSet)
      /\ Len(txns) \in Nat /\ DOMAIN txns = 1 .. Len(txns)
      /\ \A t \in DOMAIN txns : txns[t] \in TxnSet
  BY LenProperties DEF Sound, WellFormed
<1>1. CASE \/ \E u \in DOMAIN UserItems : UserCreates(u)
           \/ \E t \in DOMAIN txns : UserDeletes(t)
           \/ \E j \in Jobs : DeleteUpload(j)
  <2>1. /\ txns' \in Seq(TxnSet) /\ Len(txns') \in {Len(txns), Len(txns) + 1}
        /\ \A t \in DOMAIN txns : Like(txns'[t], txns[t])
        /\ \A t \in DOMAIN txns' \ DOMAIN txns : ~txns'[t].auto
        /\ \A t \in DOMAIN txns : \/ txns'[t].live = txns[t].live
                                  \/ txns[t].live /\ ~txns'[t].live
    BY <1>a, <1>1, UserWrites
  <2>2. DOMAIN txns' = 1 .. Len(txns')
    BY <2>1, LenProperties
  <2>3. \A t \in DOMAIN txns : t \in DOMAIN txns'
    <3>1. /\ Len(txns) \in Nat
          /\ Len(txns') = Len(txns) \/ Len(txns') = Len(txns) + 1
      BY <1>a, <2>1
    <3>2. \A t \in 1 .. Len(txns) : t \in 1 .. Len(txns')
      BY <3>1
    <3>. QED
      BY <1>a, <2>2, <3>2
  <2>. QED
    BY <2>1, <2>3
<1>2. ASSUME NEW w \in Workers, RunStep(w)
      PROVE  /\ DOMAIN txns \subseteq DOMAIN txns'
             /\ \A t \in DOMAIN txns :
                   Like(txns'[t], txns[t]) /\ (txns'[t].live => txns[t].live)
             /\ \A t \in DOMAIN txns' \ DOMAIN txns :
                   CreateMissing(w) /\ WasMissing(w, txns'[t])
  BY <1>2, RunWrites
<1>3. CASE txns' = txns
  BY <1>a, <1>3, LikeItself
<1>. QED
  BY <1>1, <1>2, <1>3 DEF ReconNext, UserSteps, Works, Dies, Upload,
     EnqueueBankReconciliation, reconVars

(***************************************************************************)
(* What any step does to a run: nothing, its own next step, or its end.    *)
(***************************************************************************)
LEMMA RunMoves ==
    ASSUME Sound, [ReconNext]_<<jobVars, reconVars>>, NEW v \in Workers
    PROVE  \/ stage'[v] = stage[v] /\ local'[v] = local[v]
           \/ RunStep(v)
           \/ stage'[v] = "start" /\ local'[v] = Fresh
<1>d. /\ WellFormed /\ JobInv
      /\ DOMAIN stage = Workers /\ DOMAIN local = Workers
  BY DEF Sound, WellFormed, OutcomeInv, FinalInv
<1>1. ASSUME NEW w \in Workers, RunStep(w), v # w
      PROVE  stage'[v] = stage[v] /\ local'[v] = local[v]
  BY <1>d, <1>1 DEF RunStep, MarkUpload, FetchRows, LatestTxn, FetchApps, CreateMissing,
     NothingMissing, PostMetrics, PostBalance, MarkVerified, InsertResults, NothingToDo,
     MarkDone, Fails, Finish, Goes
<1>2. ASSUME NEW w \in Workers, Dies(w)
      PROVE  \/ stage'[v] = stage[v] /\ local'[v] = local[v]
             \/ stage'[v] = "start" /\ local'[v] = Fresh
  BY <1>d, <1>2, DiesShape
<1>3. CASE UNCHANGED <<stage, local>>
  BY <1>3
<1>. QED
  BY <1>1, <1>2, <1>3 DEF ReconNext, UserSteps, Works, Upload, DeleteUpload, UserCreates,
     UserDeletes, EnqueueBankReconciliation, reconVars

-----------------------------------------------------------------------------
(***************************************************************************)
(* What a pairing makes of the rows: every result names a transaction that *)
(* is there or none, and a row that is missing is later than the account's *)
(* transactions or like none of those fetched.                             *)
(***************************************************************************)
LEMMA ListsAll ==
    ASSUME NEW S, IsFiniteSet(S), NEW ids \in SetToSeqs(S)
    PROVE  /\ Cardinality(S) \in Nat /\ ids \in [1 .. Cardinality(S) -> S]
           /\ \A t \in S : \E k \in 1 .. Cardinality(S) : ids[k] = t
<1>. DEFINE n == Cardinality(S)
<1>1. n \in Nat
  BY FS_CardinalityType
<1>2. ids \in Injection(1 .. n, S)
  BY DEF SetToSeqs, Injection, IsInjective
<1>3. Cardinality(1 .. n) = n
  BY <1>1, FS_Interval
<1>4. ids \in Surjection(1 .. n, S)
  BY <1>2, <1>3, FS_Injection
<1>. QED
  BY <1>1, <1>4 DEF Surjection

Kinds == {"HIGH", "LOW", "MISSING"}

LEMMA RowsAreItems ==
    ASSUME WellFormed
    PROVE  /\ \A s \in Items : IsItem(s)
           /\ \A q \in TxnSet : IsItem(q)
BY ItemsAssumption DEF IsItem, TxnSet

LEMMA RowIsPaired ==
    ASSUME NEW T, NEW rows \in Seq(T), NEW apps \in Seq(T), \A x \in T : IsItem(x),
           NEW i \in DOMAIN rows
    PROVE  LET r == RowResult(rows, apps, i)
           IN  /\ r.txn \in DOMAIN apps \cup {NoTxn} /\ r.kind \in Kinds
               /\ r.kind = "MISSING" => Near(rows[i], apps) = {}
<1>1. IsItem(rows[i]) /\ \A k \in DOMAIN apps : IsItem(apps[k])
  BY LenProperties
<1>2. CASE IsExact(rows, apps, i)
  <2>1. RowResult(rows, apps, i) = Found(ExactMap(apps)[Key(rows[i])], "HIGH", 95)
    BY <1>2 DEF RowResult
  <2>2. ExactMap(apps)[Key(rows[i])] \in DOMAIN apps
    BY <1>2, ExactMapIs DEF IsExact, OfKey
  <2>. QED
    BY <2>1, <2>2 DEF Found, Kinds
<1>3. CASE ~IsExact(rows, apps, i)
  <2>1. RowResult(rows, apps, i) = Scored(rows[i], apps)
    BY <1>3 DEF RowResult
  <2>2. \/ Near(rows[i], apps) = {} /\ Scored(rows[i], apps) = Found(NoTxn, "MISSING", 0)
        \/ \E k \in Near(rows[i], apps) :
              Scored(rows[i], apps) = Found(k, IF Score(rows[i], apps[k]) >= Threshold
                                               THEN "HIGH" ELSE "LOW", Score(rows[i], apps[k]))
    BY <1>1, ScoredIs
  <2>. QED
    BY <2>1, <2>2 DEF Found, Kinds, Near
<1>. QED
  BY <1>2, <1>3

LEMMA PlanNamed ==
    ASSUME NEW T, NEW rows \in Seq(T), NEW apps \in Seq(T), NEW last,
           NEW plan, plan = Plan(rows, apps, last),
           NEW m, m = Len(OverlapRows(rows, last))
    PROVE  /\ plan.rows \in Seq(T)
           /\ \A i \in DOMAIN plan.rows : \E k \in DOMAIN rows : plan.rows[i] = rows[k]
           /\ DOMAIN plan.results = DOMAIN plan.rows
           /\ 1 .. m \subseteq DOMAIN plan.rows
           /\ \A i \in 1 .. m : plan.results[i] = RowResult(plan.rows, apps, i)
           /\ \A i \in DOMAIN plan.rows \ (1 .. m) :
                 InTail(plan.rows[i], last) /\ plan.results[i] = Found(NoTxn, "MISSING", 100)
BY PlanIs

LEMMA ResultIs ==
    ASSUME NEW n \in Nat, NEW D, NEW ids \in [1 .. n -> D], NEW f \in 1 .. n \cup {NoTxn},
           NEW k \in Kinds
    PROVE  [txn |-> IF f = NoTxn THEN NoTxn ELSE ids[f], kind |-> k]
               \in [txn : D \cup {NoTxn}, kind : Kinds]
<1>1. (IF f = NoTxn THEN NoTxn ELSE ids[f]) \in D \cup {NoTxn}
  OBVIOUS
<1>. QED
  BY <1>1

LEMMA PairedIs ==
    ASSUME WellFormed, NEW w \in Workers, NEW n \in Nat, NEW ids \in [1 .. n -> DOMAIN txns]
    PROVE  LET after == AfterPairing(w, ids)
           IN  /\ \A i \in DOMAIN after.rows :
                     \E k \in DOMAIN local[w].rows : after.rows[i] = local[w].rows[k]
               /\ after.made = local[w].made
               /\ DOMAIN after.results = DOMAIN after.rows
               /\ \A i \in DOMAIN after.results :
                     /\ after.results[i] \in [txn : DOMAIN txns \cup {NoTxn}, kind : Kinds]
                     /\ after.results[i].kind = "MISSING" =>
                           \/ InTail(after.rows[i], local[w].latest)
                           \/ \A k \in 1 .. n :
                                 ~(/\ txns[ids[k]].type = after.rows[i].type
                                   /\ Day(txns[ids[k]]) = Day(after.rows[i]))
<1>. DEFINE T == Items \cup TxnSet
            rows == local[w].rows
            last == local[w].latest
            apps == [k \in DOMAIN ids |-> txns[ids[k]]]
            plan == Plan(rows, apps, last)
            m == Len(OverlapRows(rows, last))
            paired == [i \in DOMAIN plan.rows |->
                         [txn |-> IF plan.results[i].txn = NoTxn THEN NoTxn
                                  ELSE ids[plan.results[i].txn],
                          kind |-> plan.results[i].kind]]
            todo == InOrder({i \in DOMAIN plan.rows : plan.results[i].kind = "HIGH"})
            after == AfterPairing(w, ids)
<1>1. DOMAIN local[w] = LocalFields /\ rows \in Seq(Items) /\ txns \in Seq(TxnSet)
  BY DEF WellFormed
<1>2. rows \in Seq(T)
  <2>1. Items \subseteq T
    OBVIOUS
  <2>. QED
    BY <1>1, <2>1
<1>3. apps \in Seq(T)
  <2>1. \A t \in DOMAIN txns : txns[t] \in TxnSet
    BY <1>1, LenProperties
  <2>2. apps \in [1 .. n -> T]
    BY <2>1
  <2>. QED
    BY <2>2, AsSeq
<1>4. \A x \in T : IsItem(x)
  BY RowsAreItems
<1>5. after = [local[w] EXCEPT !.rows = plan.rows, !.results = paired, !.todo = todo]
  BY DEF AfterPairing
<1>6. \A i \in DOMAIN paired :
          /\ paired[i] = [txn |-> IF plan.results[i].txn = NoTxn THEN NoTxn
                                  ELSE ids[plan.results[i].txn],
                          kind |-> plan.results[i].kind]
          /\ paired[i].kind = plan.results[i].kind
  OBVIOUS
<1>7. DOMAIN paired = DOMAIN plan.rows
  OBVIOUS
<1>8. DOMAIN apps = 1 .. n /\ \A k \in 1 .. n : apps[k] = txns[ids[k]]
  OBVIOUS
<1>. HIDE DEF T, apps, paired, todo, after
<1>p. plan = Plan(rows, apps, last) /\ m = Len(OverlapRows(rows, last))
  OBVIOUS
<1>. HIDE DEF plan, m, rows, last
<1>9. /\ plan.rows \in Seq(T)
      /\ \A i \in DOMAIN plan.rows : \E k \in DOMAIN rows : plan.rows[i] = rows[k]
      /\ 1 .. m \subseteq DOMAIN plan.rows
      /\ \A i \in 1 .. m : plan.results[i] = RowResult(plan.rows, apps, i)
      /\ \A i \in DOMAIN plan.rows \ (1 .. m) :
            InTail(plan.rows[i], last) /\ plan.results[i] = Found(NoTxn, "MISSING", 100)
  BY <1>p, <1>2, <1>3, PlanNamed
<1>. USE DEF rows, last
<1>10. after.rows = plan.rows /\ after.results = paired /\ after.made = local[w].made
  BY <1>1, <1>5 DEF LocalFields
<1>11. ASSUME NEW i \in DOMAIN plan.rows
       PROVE  /\ paired[i] \in [txn : DOMAIN txns \cup {NoTxn}, kind : Kinds]
              /\ paired[i].kind = "MISSING" =>
                    \/ InTail(plan.rows[i], last)
                    \/ \A k \in 1 .. n : ~(/\ txns[ids[k]].type = plan.rows[i].type
                                           /\ Day(txns[ids[k]]) = Day(plan.rows[i]))
  <2>1. CASE i \in 1 .. m
    <3>1. /\ plan.results[i].txn \in 1 .. n \cup {NoTxn} /\ plan.results[i].kind \in Kinds
          /\ plan.results[i].kind = "MISSING" => Near(plan.rows[i], apps) = {}
      BY <1>3, <1>4, <1>8, <1>9, <2>1, RowIsPaired
    <3>2. ASSUME NEW k \in 1 .. n, txns[ids[k]].type = plan.rows[i].type,
                 Day(txns[ids[k]]) = Day(plan.rows[i])
          PROVE  k \in Near(plan.rows[i], apps)
      <4>1. Day(plan.rows[i]) \in Nat
        BY <1>4, <1>9, LenProperties, DayIsNat
      <4>. QED
        BY <1>8, <3>2, <4>1 DEF Near, Dist
    <3>3. paired[i] \in [txn : DOMAIN txns \cup {NoTxn}, kind : Kinds]
      <4>1. paired[i] = [txn |-> IF plan.results[i].txn = NoTxn THEN NoTxn
                                  ELSE ids[plan.results[i].txn],
                         kind |-> plan.results[i].kind]
        BY <1>6, <1>7
      <4>2. [txn |-> IF plan.results[i].txn = NoTxn THEN NoTxn
                     ELSE ids[plan.results[i].txn],
             kind |-> plan.results[i].kind] \in [txn : DOMAIN txns \cup {NoTxn}, kind : Kinds]
        BY <3>1, ResultIs
      <4>. QED
        BY <4>1, <4>2
    <3>4. paired[i].kind = plan.results[i].kind
      BY <1>6, <1>7
    <3>. QED
      BY <3>1, <3>2, <3>3, <3>4
  <2>2. CASE i \notin 1 .. m
    <3>1. /\ InTail(plan.rows[i], last) /\ plan.results[i].txn = NoTxn
          /\ plan.results[i].kind = "MISSING"
      BY <1>9, <2>2 DEF Found
    <3>2. paired[i] = [txn |-> NoTxn, kind |-> "MISSING"]
      BY <1>6, <1>7, <3>1
    <3>. QED
      BY <3>1, <3>2 DEF Kinds
  <2>. QED
    BY <2>1, <2>2
<1>. QED
  BY <1>7, <1>9, <1>10, <1>11 DEF after

-----------------------------------------------------------------------------
(***************************************************************************)
(* Types.  What a run holds names transactions that are there, and made    *)
(* those it lists; what the user entered is posted exactly as it lives.    *)
(***************************************************************************)
MadeIsAuto(w) == \A t \in local[w].made : t \in DOMAIN txns /\ txns[t].auto

NamesTxns(w) ==
    \A i \in DOMAIN local[w].results :
        local[w].results[i] \in [txn : DOMAIN txns \cup {NoTxn}, kind : Kinds]

OwnIsPosted ==
    \A t \in DOMAIN txns : ~txns[t].auto =>
        txns[t].met = Count(txns[t].live) /\ txns[t].bal = Count(txns[t].live)

NamesInv ==
    /\ \A w \in Workers : MadeIsAuto(w) /\ NamesTxns(w)
    /\ OwnIsPosted
    /\ entered \subseteq DOMAIN UserItems

LEMMA FetchNames ==
    ASSUME Sound, NamesInv, NEW w \in Workers, FetchApps(w)
    PROVE  MadeIsAuto(w)' /\ NamesTxns(w)'
<1>a. /\ WellFormed /\ DOMAIN local = Workers /\ txns' = txns /\ MadeIsAuto(w)
      /\ txns \in Seq(TxnSet)
  BY DEF Sound, WellFormed, FetchApps, NamesInv
<1>1. PICK S \in SUBSET DOMAIN txns : \E ids \in SetToSeqs(S) :
         local' = [local EXCEPT ![w] = AfterPairing(w, ids)]
  BY DEF FetchApps, Unreconciled, Live
<1>2. PICK ids \in SetToSeqs(S) : local' = [local EXCEPT ![w] = AfterPairing(w, ids)]
  BY <1>1
<1>3. IsFiniteSet(S)
  BY <1>a, Positions, FS_Subset
<1>4. Cardinality(S) \in Nat /\ ids \in [1 .. Cardinality(S) -> DOMAIN txns]
  BY <1>3, ListsAll
<1>5. local'[w] = AfterPairing(w, ids)
  BY <1>a, <1>2
<1>6. /\ AfterPairing(w, ids).made = local[w].made
      /\ \A i \in DOMAIN AfterPairing(w, ids).results :
            AfterPairing(w, ids).results[i] \in [txn : DOMAIN txns \cup {NoTxn}, kind : Kinds]
  BY <1>a, <1>4, PairedIs
<1>. QED
  BY <1>a, <1>5, <1>6 DEF MadeIsAuto, NamesTxns

LEMMA CreateNames ==
    ASSUME Sound, NamesInv, NEW w \in Workers, CreateMissing(w)
    PROVE  MadeIsAuto(w)' /\ NamesTxns(w)'
<1>a. /\ WellFormed /\ Job(w) \in Jobs /\ DOMAIN local = Workers /\ NamesTxns(w)
      /\ DOMAIN local[w] = LocalFields /\ RunStep(w)
  BY RunStepFacts DEF Sound, WellFormed, NamesInv, RunStep
<1>1. /\ local'[w].made = {Len(txns) + k : k \in DOMAIN Missing(w)}
      /\ DOMAIN local'[w].results = DOMAIN local[w].results
      /\ \A i \in DOMAIN local[w].results :
            \/ /\ \E k \in DOMAIN Missing(w) : Missing(w)[k] = i
               /\ local'[w].results[i] = [local[w].results[i] EXCEPT !.txn =
                     Len(txns) + (CHOOSE k \in DOMAIN Missing(w) : Missing(w)[k] = i)]
            \/ local'[w].results[i] = local[w].results[i]
  BY <1>a DEF CreateMissing, LocalFields
<1>2. \A t \in local'[w].made : t \in DOMAIN txns' /\ txns'[t].auto
  <2>1. /\ txns' \in Seq(TxnSet) /\ Len(txns) \in Nat /\ Len(txns') \in Nat
        /\ local'[w].made = Len(txns) + 1 .. Len(txns')
        /\ \A t \in Len(txns) + 1 .. Len(txns') : txns'[t].auto
    BY <1>a, CreateMissingWrites
  <2>2. DOMAIN txns' = 1 .. Len(txns')
    BY <2>1, LenProperties
  <2>3. \A t \in Len(txns) + 1 .. Len(txns') : t \in 1 .. Len(txns')
    BY <2>1
  <2>. QED
    BY <2>1, <2>2, <2>3
<1>3. DOMAIN txns \subseteq DOMAIN txns'
  BY <1>a, RunWrites
<1>4. ASSUME NEW i \in DOMAIN local[w].results
      PROVE  local'[w].results[i] \in [txn : DOMAIN txns' \cup {NoTxn}, kind : Kinds]
  <2>1. local[w].results[i] \in [txn : DOMAIN txns' \cup {NoTxn}, kind : Kinds]
    BY <1>a, <1>3 DEF NamesTxns
  <2>2. CASE \E k \in DOMAIN Missing(w) : Missing(w)[k] = i
    <3>. DEFINE k == CHOOSE k \in DOMAIN Missing(w) : Missing(w)[k] = i
    <3>1. k \in DOMAIN Missing(w)
      BY <2>2
    <3>2. Len(txns) + k \in DOMAIN txns'
      BY <1>1, <1>2, <3>1
    <3>. QED
      BY <1>1, <2>1, <3>2
  <2>3. CASE ~\E k \in DOMAIN Missing(w) : Missing(w)[k] = i
    BY <1>1, <2>1, <2>3
  <2>. QED
    BY <2>2, <2>3
<1>. QED
  BY <1>1, <1>2, <1>4 DEF MadeIsAuto, NamesTxns

LEMMA RunsName ==
    ASSUME Sound, NamesInv, [ReconNext]_<<jobVars, reconVars>>, NEW w \in Workers
    PROVE  MadeIsAuto(w)' /\ NamesTxns(w)'
<1>a. /\ DOMAIN local = Workers /\ DOMAIN local[w] = LocalFields
      /\ MadeIsAuto(w) /\ NamesTxns(w)
  BY DEF Sound, WellFormed, NamesInv
<1>b. /\ DOMAIN txns \subseteq DOMAIN txns'
      /\ \A t \in DOMAIN txns : txns'[t].auto = txns[t].auto
  BY TxnsKept DEF Like
<1>1. CASE local'[w].made = local[w].made /\ local'[w].results = local[w].results
  BY <1>a, <1>b, <1>1 DEF MadeIsAuto, NamesTxns
<1>2. CASE local'[w] = Fresh
  BY <1>2 DEF Fresh, MadeIsAuto, NamesTxns
<1>3. CASE RunStep(w)
  <2>1. CASE MarkUpload(w) \/ FetchRows(w) \/ LatestTxn(w) \/ NothingMissing(w) \/ PostMetrics(w)
             \/ PostBalance(w) \/ MarkVerified(w) \/ InsertResults(w)
    BY <1>a, <1>1, <2>1 DEF MarkUpload, FetchRows, LatestTxn, NothingMissing, PostMetrics,
       PostBalance, MarkVerified, InsertResults, LocalFields
  <2>2. CASE NothingToDo(w) \/ MarkDone(w) \/ Fails(w)
    BY <1>a, <1>2, <2>2 DEF NothingToDo, MarkDone, Fails, Finish
  <2>. QED
    BY <1>3, <2>1, <2>2, FetchNames, CreateNames DEF RunStep
<1>. QED
  BY <1>1, <1>2, <1>3, RunMoves

LEMMA NamesStep ==
    ASSUME Sound, NamesInv, [ReconNext]_<<jobVars, reconVars>>
    PROVE  NamesInv'
<1>a. /\ WellFormed /\ OwnIsPosted /\ entered \subseteq DOMAIN UserItems
      /\ \A t \in DOMAIN txns : txns[t].met \in Int /\ txns[t].bal \in Int
  <2>1. \A t \in DOMAIN txns : txns[t] \in TxnSet
    BY LenProperties DEF Sound, WellFormed
  <2>. QED
    BY <2>1 DEF Sound, NamesInv, TxnSet
<1>1. entered' \subseteq DOMAIN UserItems
  BY <1>a DEF ReconNext, UserSteps, Works, Dies, Upload, EnqueueBankReconciliation,
     DeleteUpload, UserCreates, UserDeletes, RunStep, MarkUpload, FetchRows, NothingToDo,
     LatestTxn, FetchApps, CreateMissing, NothingMissing, PostMetrics, PostBalance,
     MarkVerified, InsertResults, MarkDone, Fails, reconVars
<1>2. OwnIsPosted'
  <2>1. CASE \/ \E u \in DOMAIN UserItems : UserCreates(u)
             \/ \E t \in DOMAIN txns : UserDeletes(t)
             \/ \E j \in Jobs : DeleteUpload(j)
    <3>1. /\ \A t \in DOMAIN txns : txns'[t].auto = txns[t].auto
          /\ \A t \in DOMAIN txns' \ DOMAIN txns :
                txns'[t].live /\ txns'[t].met = 1 /\ txns'[t].bal = 1
          /\ \A t \in DOMAIN txns :
                \/ /\ txns'[t].live = txns[t].live
                   /\ txns'[t].met = txns[t].met /\ txns'[t].bal = txns[t].bal
                \/ /\ txns[t].live /\ ~txns'[t].live
                   /\ txns'[t].met = txns[t].met - 1 /\ txns'[t].bal = txns[t].bal - 1
      BY <1>a, <2>1, UserWrites DEF Like
    <3>. QED
      BY <1>a, <3>1 DEF OwnIsPosted, Count
  <2>2. ASSUME NEW w \in Workers, RunStep(w) PROVE OwnIsPosted'
    <3>1. /\ \A t \in DOMAIN txns :
                /\ txns'[t].auto = txns[t].auto /\ txns'[t].live = txns[t].live
                /\ t \notin local[w].made =>
                      txns'[t].met = txns[t].met /\ txns'[t].bal = txns[t].bal
          /\ \A t \in DOMAIN txns' \ DOMAIN txns : txns'[t].auto
      BY <2>2, RunWrites DEF Like
    <3>2. \A t \in DOMAIN txns : ~txns[t].auto => t \notin local[w].made
      BY DEF NamesInv, MadeIsAuto
    <3>. QED
      BY <1>a, <3>1, <3>2 DEF OwnIsPosted
  <2>3. CASE txns' = txns
    BY <1>a, <2>3 DEF OwnIsPosted
  <2>. QED
    BY <2>1, <2>2, <2>3 DEF ReconNext, UserSteps, Works, Dies, Upload,
       EnqueueBankReconciliation, reconVars
<1>. QED
  BY <1>1, <1>2, RunsName DEF NamesInv

(***************************************************************************)
(* Every reachable state of the reconciliation is well typed.              *)
(***************************************************************************)
THEOREM ReconTypeCorrect == ReconSpec => []ReconTypeOK
<1>1. ReconInit => NamesInv /\ MadeInv
  <2>1. ReconInit => NamesInv
    BY DEF ReconInit, NamesInv, MadeIsAuto, NamesTxns, OwnIsPosted, Fresh
  <2>. QED
    BY <2>1, MadeInit
<1>2. Sound /\ NamesInv /\ MadeInv => ReconTypeOK
  <2>. SUFFICES ASSUME Sound, NamesInv, MadeInv PROVE ReconTypeOK
    OBVIOUS
  <2>a. WellFormed /\ txns \in Seq(TxnSet) /\ \A t \in DOMAIN txns : txns[t] \in TxnSet
    BY LenProperties DEF Sound, WellFormed
  <2>1. \A j \in Jobs : Range(stmt[j]) \subseteq Items
    BY <2>a, LenProperties DEF WellFormed, Range
  <2>2. ASSUME NEW t \in DOMAIN txns
        PROVE  /\ txns[t].auto \in BOOLEAN /\ txns[t].live \in BOOLEAN
               /\ txns[t].verified \in BOOLEAN /\ txns[t].stmt \in Jobs \cup {NoStmt}
               /\ txns[t].met \in -1 .. 1 /\ txns[t].bal \in -1 .. 1
    <3>1. /\ txns[t].auto \in BOOLEAN /\ txns[t].live \in BOOLEAN
          /\ txns[t].verified \in BOOLEAN /\ txns[t].stmt \in Jobs \cup {NoStmt}
          /\ txns[t].met \in Int /\ txns[t].bal \in Int
      BY <2>a DEF TxnSet
    <3>2. txns[t].auto => Accounted(t)
      BY DEF MadeInv
    <3>3. ~txns[t].auto =>
             txns[t].met = Count(txns[t].live) /\ txns[t].bal = Count(txns[t].live)
      BY DEF NamesInv, OwnIsPosted
    <3>4. \A b : Count(b) \in {0, 1}
      BY DEF Count
    <3>5. /\ Count(txns[t].live) \in {0, 1}
          /\ Count(MetricsOwed(t)) \in {0, 1} /\ Count(t \in unmetered) \in {0, 1}
          /\ Count(BalanceOwed(t)) \in {0, 1} /\ Count(t \in unposted) \in {0, 1}
      BY DEF Count
    <3>6. /\ MetricsOwed(t) => t \notin unmetered
          /\ BalanceOwed(t) => t \notin unposted
      BY MetricsThenBalance DEF MadeInv, OwedOnce, MetricsOwed, BalanceOwed
    <3>7. /\ Count(MetricsOwed(t)) + Count(t \in unmetered) \in {0, 1}
          /\ Count(BalanceOwed(t)) + Count(t \in unposted) \in {0, 1}
      BY <3>6 DEF Count
    <3>8. \A n \in Int : \A a, b, c \in {0, 1} :
             a + b \in {0, 1} /\ (n + a + b = c \/ n = c) => n \in -1 .. 1
      OBVIOUS
    <3>9. txns[t].met \in -1 .. 1 /\ txns[t].bal \in -1 .. 1
      <4>1. CASE txns[t].auto
        BY <3>1, <3>2, <3>5, <3>7, <3>8, <4>1 DEF Accounted
      <4>2. CASE ~txns[t].auto
        BY <3>1, <3>3, <3>5, <4>2
      <4>. QED
        BY <3>1, <4>1, <4>2
    <3>. QED
      BY <3>1, <3>9
  <2>3. ASSUME NEW w \in Workers
        PROVE  /\ local[w].made \subseteq DOMAIN txns
               /\ \A i \in DOMAIN local[w].results :
                     /\ local[w].results[i].txn \in DOMAIN txns \cup {NoTxn}
                     /\ local[w].results[i].kind \in {"HIGH", "LOW", "MISSING"}
    BY DEF NamesInv, MadeIsAuto, NamesTxns, Kinds
  <2>4. entered \subseteq DOMAIN UserItems
    BY DEF NamesInv
  <2>. QED
    BY <2>a, <2>1, <2>2, <2>3, <2>4 DEF ReconTypeOK, WellFormed, Stages
<1>. QED
  BY <1>1, <1>2, SoundInit, SoundStep, MadeStep, NamesStep, PTL DEF ReconSpec

-----------------------------------------------------------------------------
(***************************************************************************)
(* With one copy of every event, a row is turned into a transaction again  *)
(* only past a verified one.  A hash is in one upload, and one invocation  *)
(* has the upload; so while a run goes on nobody else creates its rows,    *)
(* and what was created before is no later than the date the run read,     *)
(* among the transactions it fetched, and paired with the row.             *)
(***************************************************************************)
HashesOnce ==
    \A j, k \in Jobs : j # k =>
        \A a \in DOMAIN stmt[j], b \in DOMAIN stmt[k] : ~SameRow(stmt[j][a], stmt[k][b])

RowsAreRead(w) ==
    stage[w] \in HasRead /\ Exists(Job(w)) =>
        \A i \in DOMAIN local[w].rows :
            \E k \in DOMAIN stmt[Job(w)] : local[w].rows[i] = stmt[Job(w)][k]

LatestCovers(w) ==
    stage[w] = "apps" /\ Exists(Job(w)) =>
        \A t \in Live, i \in DOMAIN local[w].rows :
            txns[t].auto /\ SameRow(txns[t], local[w].rows[i]) =>
                local[w].latest \in Nat /\ txns[t].at <= local[w].latest

MissingAreNew(w) ==
    stage[w] = "create" /\ Exists(Job(w)) =>
        \A t \in Live, i \in DOMAIN local[w].rows :
            /\ txns[t].auto /\ SameRow(txns[t], local[w].rows[i])
            /\ local[w].results[i].kind = "MISSING"
            => txns[t].verified

RowsAreNew(w) == RowsAreRead(w) /\ LatestCovers(w) /\ MissingAreNew(w)

RecreateInv == MaxCopies = 1 => HashesOnce /\ \A w \in Workers : RowsAreNew(w)

\* The rows an upload gets meet no hash that is held already.
LEMMA NewRowsDiffer ==
    ASSUME NEW j \in Jobs, NEW k \in Jobs, NEW a \in DOMAIN NewRows(j), NEW b \in DOMAIN stmt[k]
    PROVE  RowHash(NewRows(j)[a]) # RowHash(stmt[k][b])
<1>. DEFINE taken == {RowHash(r) : r \in UNION {Range(stmt[h]) : h \in Jobs}}
            S == FirstOfTheirHash(j, taken)
            rows == RowsAt(File[j], S)
<1>1. NewRows(j) = rows
  BY DEF NewRows
<1>2. S \in SUBSET DOMAIN File[j] /\ \A i \in S : RowHash(File[j][i]) \notin taken
  BY DEF FirstOfTheirHash
<1>3. RowHash(stmt[k][b]) \in taken
  <2>1. stmt[k][b] \in Range(stmt[k])
    BY DEF Range
  <2>. QED
    BY <2>1
<1>4. File[j] \in Seq(Items)
  BY FileAssumption
<1>. HIDE DEF taken, S
<1>5. /\ rows \in Seq(Items) /\ Len(rows) \in Nat
      /\ \A i \in 1 .. Len(rows) : \E n \in S : rows[i] = File[j][n]
  BY <1>2, <1>4, PartOf
<1>. HIDE DEF rows
<1>6. DOMAIN rows = 1 .. Len(rows)
  BY <1>5, LenProperties
<1>. QED
  BY <1>1, <1>2, <1>3, <1>5, <1>6

LEMMA HashesStay ==
    ASSUME Sound, HashesOnce, [ReconNext]_<<jobVars, reconVars>>
    PROVE  HashesOnce'
<1>d. WellFormed /\ DOMAIN stmt = Jobs /\ DOMAIN (<<>>) = {}
  BY DEF Sound, WellFormed
<1>1. ASSUME NEW j \in Jobs, Upload(j) PROVE HashesOnce'
  <2>1. stmt'[j] = NewRows(j) /\ \A k \in Jobs : k # j => stmt'[k] = stmt[k]
    BY <1>d, <1>1 DEF Upload
  <2>2. \A k \in Jobs : \A a \in DOMAIN NewRows(j), b \in DOMAIN stmt[k] :
           RowHash(NewRows(j)[a]) # RowHash(stmt[k][b])
    BY NewRowsDiffer
  <2>. HIDE DEF NewRows
  <2>. QED
    BY <2>1, <2>2 DEF HashesOnce, SameRow
<1>2. ASSUME NEW j \in Jobs, DeleteUpload(j) PROVE HashesOnce'
  <2>1. stmt'[j] = <<>> /\ \A k \in Jobs : k # j => stmt'[k] = stmt[k]
    BY <1>d, <1>2 DEF DeleteUpload
  <2>. QED
    BY <1>d, <2>1 DEF HashesOnce
<1>3. CASE stmt' = stmt
  BY <1>3 DEF HashesOnce
<1>4. ASSUME NEW w \in Workers, RunStep(w) PROVE stmt' = stmt
  BY <1>4, RunStepFacts, WellFormedWrites DEF Sound
<1>. QED
  BY <1>1, <1>2, <1>3, <1>4 DEF ReconNext, UserSteps, Works, Dies, UserCreates, UserDeletes,
     EnqueueBankReconciliation, reconVars

(***************************************************************************)
(* As long as a run goes on it is of the same job, whose upload is not     *)
(* made meanwhile; if the upload is still there, so are its rows.          *)
(***************************************************************************)
LEMMA RunsKeepJob ==
    ASSUME Sound, [ReconNext]_<<jobVars, reconVars>>, NEW v \in Workers,
           stage[v] # "start", stage'[v] # "start"
    PROVE  /\ Job(v) \in Jobs /\ Job(v)' = Job(v)
           /\ Exists(Job(v))' => Exists(Job(v)) /\ stmt'[Job(v)] = stmt[Job(v)]
<1>. DEFINE Keeps ==
          /\ Job(v)' = Job(v)
          /\ Exists(Job(v))' => Exists(Job(v)) /\ stmt'[Job(v)] = stmt[Job(v)]
<1>d. /\ WellFormed /\ JobInv
      /\ DOMAIN status = Jobs /\ DOMAIN stmt = Jobs /\ DOMAIN stage = Workers
  BY DEF Sound, WellFormed, OutcomeInv, FinalInv
<1>j. Busy(v) /\ Job(v) \in Jobs /\ status[Job(v)] # "none"
  BY <1>d, BusyUploads DEF WellFormed, Busy
<1>1. ASSUME NEW k \in Jobs, Upload(k) \/ DeleteUpload(k)
      PROVE  Keeps
  <2>1. /\ ev' = ev
        /\ \A j \in Jobs : j # k => status'[j] = status[j] /\ stmt'[j] = stmt[j]
        /\ status[k] = "none" \/ status'[k] = "deleted"
    BY <1>d, <1>1 DEF Upload, DeleteUpload, jobVars, worker
  <2>. QED
    BY <1>j, <2>1 DEF Exists, Job
<1>2. ASSUME NEW w \in Workers, RunStep(w)
      PROVE  Keeps
  <2>1. stmt' = stmt
    BY <1>2, RunStepFacts, WellFormedWrites DEF Sound
  <2>2. Job(v)' = Job(v)
    <3>1. UNCHANGED jobVars \/ \E b \in BOOLEAN : Run(w, b)
      BY <1>2, RunStepsStutter
    <3>. QED
      BY <3>1 DEF jobVars, worker, Run, Job
  <2>3. Exists(Job(v))' <=> Exists(Job(v))
    BY <1>2, <1>j, <2>2, StatusMoves DEF Exists
  <2>. QED
    BY <2>1, <2>2, <2>3
<1>3. ASSUME NEW w \in Workers, (Frame(w) /\ UNCHANGED reconVars) \/ Dies(w)
      PROVE  Keeps
  <2>1. status' = status /\ stmt' = stmt
    BY <1>3 DEF reconVars, Dies
  <2>2. v # w
    BY <1>d, <1>3, FrameShape DEF Dies, Goes
  <2>3. Job(v)' = Job(v)
    BY <1>d, <1>3, <2>2 DEF JobInv, TypeOK, Frame, Receive, Lookup, MarkProcessing, Settle,
       Return, Dies, Crash, Leave, Job
  <2>. QED
    BY <2>1, <2>3 DEF Exists
<1>4. UNCHANGED <<status, stmt, ev>> => Keeps
  BY DEF Exists, Job
<1>5. ASSUME NEW k \in Jobs, EnqueueBankReconciliation(k)
      PROVE  UNCHANGED <<status, stmt, ev>>
  BY <1>5 DEF EnqueueBankReconciliation, RecordJob, Dispatch, worker, reconVars
<1>. HIDE DEF Keeps
<1>6. Keeps
  BY <1>1, <1>2, <1>3, <1>4, <1>5 DEF ReconNext, UserSteps, Works, UserCreates,
     UserDeletes, jobVars, worker, reconVars
<1>. QED
  BY <1>j, <1>6 DEF Keeps

(***************************************************************************)
(* What is created while a run goes on is none of its rows, unless the run *)
(* creates it: the creator's rows are of another upload.                   *)
(***************************************************************************)
LEMMA OthersDiffer ==
    ASSUME Sound, RecreateInv, MaxCopies = 1, [ReconNext]_<<jobVars, reconVars>>,
           NEW v \in Workers, stage[v] \in HasRead, Exists(Job(v)), ~CreateMissing(v),
           NEW t \in DOMAIN txns' \ DOMAIN txns, txns'[t].auto,
           NEW i \in DOMAIN local[v].rows
    PROVE  ~SameRow(txns'[t], local[v].rows[i])
<1>1. PICK w \in Workers : CreateMissing(w) /\ WasMissing(w, txns'[t])
  BY TxnsKept
<1>2. PICK n \in DOMAIN local[w].rows : SameRow(txns'[t], local[w].rows[n])
  BY <1>1 DEF WasMissing
<1>3. w # v /\ stage[w] \in HasRead /\ Exists(Job(w))
  BY <1>1 DEF CreateMissing, At, HasRead, Paired
<1>4. Busy(v) /\ Busy(w) /\ stage[v] # "start" /\ stage[w] # "start"
  BY <1>3 DEF Sound, WellFormed, Busy, HasRead, Paired
<1>5. Job(v) \in Jobs /\ Job(w) \in Jobs
  BY <1>4, BusyUploads
<1>6. Job(v) # Job(w)
  BY <1>3, <1>4 DEF Sound, OutcomeInv, FinalInv, OneDelivery, Job
<1>7. /\ \E a \in DOMAIN stmt[Job(v)] : local[v].rows[i] = stmt[Job(v)][a]
      /\ \E b \in DOMAIN stmt[Job(w)] : local[w].rows[n] = stmt[Job(w)][b]
  BY <1>3 DEF RecreateInv, RowsAreNew, RowsAreRead
<1>. QED
  BY <1>2, <1>5, <1>6, <1>7 DEF RecreateInv, HashesOnce, SameRow

\* Whatever a step does, a run that it leaves alone keeps its invariant.
LEMMA RowsStayNew ==
    ASSUME Sound, RecreateInv, MaxCopies = 1, [ReconNext]_<<jobVars, reconVars>>,
           NEW v \in Workers, stage'[v] = stage[v], local'[v] = local[v]
    PROVE  RowsAreNew(v)'
<1>. SUFFICES ASSUME stage[v] \in HasRead, Exists(Job(v))' PROVE RowsAreNew(v)'
  BY DEF RowsAreNew, RowsAreRead, LatestCovers, MissingAreNew, HasRead, Paired
<1>1. /\ Job(v)' = Job(v) /\ Exists(Job(v)) /\ stmt'[Job(v)] = stmt[Job(v)]
  <2>1. stage[v] # "start" /\ stage'[v] # "start"
    BY DEF HasRead, Paired
  <2>. QED
    BY <2>1, RunsKeepJob
<1>2. RowsAreRead(v) /\ LatestCovers(v) /\ MissingAreNew(v)
  BY DEF RecreateInv, RowsAreNew
<1>3. RowsAreRead(v)'
  BY <1>1, <1>2 DEF RowsAreRead
<1>4. ~CreateMissing(v)
  BY DEF CreateMissing, At, Goes, Sound, WellFormed
<1>5. ASSUME NEW t \in Live', NEW i \in DOMAIN local[v].rows,
             txns'[t].auto, SameRow(txns'[t], local[v].rows[i])
      PROVE  /\ t \in Live /\ txns[t].auto /\ SameRow(txns[t], local[v].rows[i])
             /\ txns'[t].at = txns[t].at /\ (txns[t].verified => txns'[t].verified)
  <2>1. t \in DOMAIN txns' /\ txns'[t].live
    BY DEF Live
  <2>2. t \in DOMAIN txns
    BY <1>1, <1>4, <1>5, <2>1, OthersDiffer
  <2>3. Like(txns'[t], txns[t]) /\ txns[t].live
    BY <2>1, <2>2, TxnsKept
  <2>. QED
    BY <1>5, <2>2, <2>3 DEF Like, SameRow, RowHash, Live
<1>6. LatestCovers(v)'
  <2>. SUFFICES ASSUME stage[v] = "apps", NEW t \in Live', NEW i \in DOMAIN local[v].rows,
                       txns'[t].auto, SameRow(txns'[t], local[v].rows[i])
                PROVE  local[v].latest \in Nat /\ txns'[t].at <= local[v].latest
    BY <1>1 DEF LatestCovers, SameRow
  <2>. QED
    BY <1>1, <1>2, <1>5 DEF LatestCovers
<1>7. MissingAreNew(v)'
  <2>. SUFFICES ASSUME stage[v] = "create", NEW t \in Live', NEW i \in DOMAIN local[v].rows,
                       txns'[t].auto, SameRow(txns'[t], local[v].rows[i]),
                       local[v].results[i].kind = "MISSING"
                PROVE  txns'[t].verified
    BY <1>1 DEF MissingAreNew, SameRow
  <2>. QED
    BY <1>1, <1>2, <1>5 DEF MissingAreNew
<1>. QED
  BY <1>3, <1>6, <1>7 DEF RowsAreNew

-----------------------------------------------------------------------------
\* The date LatestTxn reads is that of a live transaction, and the latest.
LEMMA LatestIs ==
    ASSUME WellFormed, NEW T, T = {txns[t].at : t \in Live}, T # {},
           NEW d, d = CHOOSE e \in T : \A t \in Live : txns[t].at <= e
    PROVE  d \in Nat /\ \A t \in Live : txns[t].at <= d
<1>1. IsFiniteSet(Live) /\ \A t \in Live : txns[t].at \in Nat
  <2>1. txns \in Seq(TxnSet)
    BY DEF WellFormed
  <2>2. DOMAIN txns = 1 .. Len(txns) /\ Len(txns) \in Nat
        /\ \A t \in DOMAIN txns : txns[t] \in TxnSet
    BY <2>1, LenProperties
  <2>3. IsFiniteSet(DOMAIN txns) /\ Live \subseteq DOMAIN txns
    BY <2>2, FS_Interval DEF Live
  <2>4. \A q \in TxnSet : q.at \in Nat
    BY ItemsAssumption DEF TxnSet
  <2>. QED
    BY <2>2, <2>3, <2>4, FS_Subset
<1>2. IsFiniteSet(T)
  <2>. DEFINE date == [t \in Live |-> txns[t].at]
  <2>1. date \in Surjection(Live, T)
    BY DEF Surjection
  <2>. QED
    BY <1>1, <2>1, FS_Surjection
<1>3. T \in SUBSET Nat
  BY <1>1
<1>4. PICK m \in T : \A x \in T : x <= m
  <2>1. T \in SUBSET Int
    BY <1>3
  <2>. QED
    BY <1>2, <2>1, MaxIn
<1>5. \A t \in Live : txns[t].at <= m
  BY <1>4
<1>6. d \in T /\ \A t \in Live : txns[t].at <= d
  BY <1>4, <1>5
<1>. QED
  BY <1>3, <1>6

LEMMA LatestReads ==
    ASSUME Sound, NEW w \in Workers, LatestTxn(w)
    PROVE  LatestCovers(w)'
<1>a. /\ WellFormed /\ txns' = txns
      /\ DOMAIN local = Workers /\ DOMAIN local[w] = LocalFields
  BY DEF Sound, WellFormed, LatestTxn
<1>. DEFINE T == {txns[t].at : t \in Live}
            d == CHOOSE d \in T : \A t \in Live : txns[t].at <= d
<1>1. local'[w].latest = IF Live = {} THEN NoDate ELSE d
  BY <1>a DEF LatestTxn, LocalFields
<1>2. Live' = Live
  BY <1>a DEF Live
<1>3. ASSUME NEW t \in Live
      PROVE  local'[w].latest \in Nat /\ txns[t].at <= local'[w].latest
  <2>1. T # {}
    OBVIOUS
  <2>. HIDE DEF T
  <2>2. T = {txns[u].at : u \in Live} /\ d = CHOOSE e \in T : \A u \in Live : txns[u].at <= e
    BY DEF T
  <2>3. d \in Nat /\ \A u \in Live : txns[u].at <= d
    BY <1>a, <2>1, <2>2, LatestIs
  <2>. QED
    BY <1>1, <2>3
<1>. QED
  BY <1>a, <1>2, <1>3 DEF LatestCovers

LEMMA TxnsAreFinite == ASSUME WellFormed PROVE IsFiniteSet(DOMAIN txns)
<1>1. txns \in Seq(TxnSet)
  BY DEF WellFormed
<1>2. DOMAIN txns = 1 .. Len(txns) /\ Len(txns) \in Nat
  BY <1>1, LenProperties
<1>. QED
  BY <1>2, FS_Interval

(***************************************************************************)
(* The pairing: the live automatic transaction of a row is no later than   *)
(* the date the run read, so its row is not in the tail, and if it is not  *)
(* verified it is fetched; a row of its type and day is then not missing.  *)
(***************************************************************************)
LEMMA FetchIsNew ==
    ASSUME Sound, ReportInv, RecreateInv, MaxCopies = 1, NEW w \in Workers, FetchApps(w)
    PROVE  RowsAreNew(w)'
<1>a. /\ WellFormed /\ UNCHANGED <<status, stmt, txns, ev>> /\ stage[w] = "apps"
      /\ DOMAIN local = Workers /\ local[w].rows \in Seq(Items) /\ stage'[w] = "create"
  BY DEF Sound, WellFormed, FetchApps, jobVars, worker, At, Goes
<1>b. Job(w)' = Job(w) /\ (Exists(Job(w))' <=> Exists(Job(w))) /\ Live' = Live
  BY <1>a DEF Job, Exists, Live
<1>. SUFFICES ASSUME Exists(Job(w)) PROVE RowsAreNew(w)'
  BY <1>b DEF RowsAreNew, RowsAreRead, LatestCovers, MissingAreNew
<1>. DEFINE Overlap == OverlapRows(local[w].rows, local[w].latest)
            Ins     == {t \in Unreconciled : InRange(txns[t], local[w].rows)}
            In      == IF Overlap = <<>> \/ stmt[Job(w)] = <<>> THEN {} ELSE Ins
            n       == Cardinality(In)
<1>1. PICK ids \in SetToSeqs(In) : local' = [local EXCEPT ![w] = AfterPairing(w, ids)]
  BY DEF FetchApps
<1>2. /\ Cardinality(In) \in Nat /\ ids \in [1 .. Cardinality(In) -> DOMAIN txns]
      /\ \A t \in In : \E k \in 1 .. Cardinality(In) : ids[k] = t
  <2>1. IsFiniteSet(DOMAIN txns)
    BY <1>a, TxnsAreFinite
  <2>2. In \subseteq DOMAIN txns
    BY DEF Unreconciled, Live
  <2>. HIDE DEF In
  <2>3. IsFiniteSet(In)
    BY <2>1, <2>2, FS_Subset
  <2>. QED
    BY <1>1, <2>2, <2>3, ListsAll
<1>3. /\ \A i \in DOMAIN local'[w].rows :
            \E k \in DOMAIN local[w].rows : local'[w].rows[i] = local[w].rows[k]
      /\ DOMAIN local'[w].results = DOMAIN local'[w].rows
      /\ \A i \in DOMAIN local'[w].rows : local'[w].results[i].kind = "MISSING" =>
            \/ InTail(local'[w].rows[i], local[w].latest)
            \/ \A k \in 1 .. n : ~(/\ txns[ids[k]].type = local'[w].rows[i].type
                                   /\ Day(txns[ids[k]]) = Day(local'[w].rows[i]))
  <2>1. local'[w] = AfterPairing(w, ids)
    BY <1>a, <1>1
  <2>. HIDE DEF In
  <2>. QED
    BY <1>a, <1>2, <2>1, PairedIs DEF n
<1>4. RowsAreRead(w)'
  <2>1. RowsAreRead(w)
    BY DEF RecreateInv, RowsAreNew
  <2>2. \A i \in DOMAIN local[w].rows :
           \E k \in DOMAIN stmt[Job(w)] : local[w].rows[i] = stmt[Job(w)][k]
    BY <1>a, <2>1 DEF RowsAreRead, HasRead
  <2>3. stmt'[Job(w)'] = stmt[Job(w)]
    BY <1>a, <1>b
  <2>. QED
    BY <1>3, <2>2, <2>3 DEF RowsAreRead
<1>5. MissingAreNew(w)'
  <2>. HIDE DEF In, Ins, Overlap
  <2>. SUFFICES ASSUME NEW t \in Live, NEW i \in DOMAIN local'[w].rows,
                       txns[t].auto, SameRow(txns[t], local'[w].rows[i]),
                       local'[w].results[i].kind = "MISSING", ~txns[t].verified
                PROVE  FALSE
    BY <1>a, <1>b DEF MissingAreNew, SameRow
  <2>1. PICK m \in DOMAIN local[w].rows : local'[w].rows[i] = local[w].rows[m]
    BY <1>3
  <2>. DEFINE r == local[w].rows[m]
  <2>2. SameRow(txns[t], r) /\ txns[t].at = r.at /\ txns[t].type = r.type
    BY <2>1 DEF SameRow, RowHash
  <2>3. /\ local[w].latest \in Nat /\ txns[t].at <= local[w].latest
    <3>1. LatestCovers(w)
      BY DEF RecreateInv, RowsAreNew
    <3>. QED
      BY <1>a, <2>2, <3>1 DEF LatestCovers
  <2>4. r \in Items /\ r.at \in Nat
    BY <1>a, LenProperties, ItemsAssumption
  <2>5. ~InTail(r, local[w].latest)
    BY <2>2, <2>3, <2>4 DEF InTail, NoDate
  <2>6. Overlap # <<>>
    <3>. DEFINE S == {k \in DOMAIN local[w].rows : ~InTail(local[w].rows[k], local[w].latest)}
    <3>1. Overlap = RowsAt(local[w].rows, S) /\ S \in SUBSET DOMAIN local[w].rows /\ m \in S
      BY <2>5 DEF Overlap, OverlapRows
    <3>. HIDE DEF S
    <3>2. \E k \in 1 .. Len(Overlap) : Overlap[k] = local[w].rows[m]
      BY <1>a, <3>1, PartOf
    <3>. QED
      BY <3>2
  <2>7. stmt[Job(w)] # <<>>
    BY <1>a DEF ReportInv, RunIsWhole, HasRead
  <2>8. t \in Ins
    <3>1. t \in Unreconciled
      BY DEF Unreconciled
    <3>2. InRange(txns[t], local[w].rows)
      BY <2>2, <2>4, DayTicksAssumption DEF InRange
    <3>. QED
      BY <3>1, <3>2 DEF Ins
  <2>9. t \in In
    BY <2>6, <2>7, <2>8 DEF In
  <2>10. PICK k \in 1 .. n : ids[k] = t
    BY <1>2, <2>9
  <2>11. Day(txns[t]) = Day(r)
    BY <2>2 DEF Day
  <2>. QED
    BY <1>3, <2>1, <2>2, <2>5, <2>10, <2>11
<1>6. LatestCovers(w)'
  BY <1>a DEF LatestCovers
<1>. QED
  BY <1>4, <1>5, <1>6 DEF RowsAreNew

LEMMA RunsStayNew ==
    ASSUME Sound, ReportInv, RecreateInv, MaxCopies = 1, [ReconNext]_<<jobVars, reconVars>>,
           NEW w \in Workers, RunStep(w)
    PROVE  RowsAreNew(w)'
<1>a. /\ WellFormed /\ DOMAIN stage = Workers /\ DOMAIN local = Workers
      /\ DOMAIN local[w] = LocalFields /\ Job(w)' = Job(w) /\ stmt' = stmt
  BY RunStepFacts, WellFormedWrites DEF Sound, WellFormed
<1>b. RowsAreRead(w) /\ (stage[w] # "start" /\ Exists(Job(w))' => Exists(Job(w)))
  <2>1. Job(w) \in Jobs
    BY RunStepFacts
  <2>. QED
    BY <1>a, <2>1, StatusMoves DEF RecreateInv, RowsAreNew, Exists
<1>1. CASE stage'[w] \in {"start", "rows"}
  BY <1>1 DEF RowsAreNew, RowsAreRead, LatestCovers, MissingAreNew, HasRead, Paired
<1>2. CASE FetchRows(w)
  <2>1. stage'[w] = "latest" /\ local'[w].rows = stmt[Job(w)]
    BY <1>2, <1>a DEF FetchRows, Goes, LocalFields
  <2>. QED
    BY <1>a, <2>1 DEF RowsAreNew, RowsAreRead, LatestCovers, MissingAreNew
<1>3. CASE LatestTxn(w)
  <2>1. stage'[w] = "apps" /\ stage[w] = "latest" /\ local'[w].rows = local[w].rows
    BY <1>3, <1>a DEF LatestTxn, Goes, At, LocalFields
  <2>2. RowsAreRead(w)'
    BY <1>a, <1>b, <2>1 DEF RowsAreRead, HasRead
  <2>3. MissingAreNew(w)'
    BY <2>1 DEF MissingAreNew
  <2>. QED
    BY <1>3, <2>2, <2>3, LatestReads DEF RowsAreNew
<1>4. CASE FetchApps(w)
  BY <1>4, FetchIsNew
<1>5. CASE \/ CreateMissing(w) \/ NothingMissing(w) \/ PostMetrics(w) \/ PostBalance(w)
           \/ MarkVerified(w) \/ InsertResults(w)
  <2>1. /\ stage'[w] \notin {"apps", "create"} /\ stage[w] \in HasRead
        /\ local'[w].rows = local[w].rows
    BY <1>5, <1>a DEF CreateMissing, NothingMissing, PostMetrics, PostBalance, MarkVerified,
       InsertResults, Goes, At, LocalFields, HasRead, Paired
  <2>2. stage[w] # "start"
    BY <2>1 DEF HasRead, Paired
  <2>3. RowsAreRead(w)'
    BY <1>a, <1>b, <2>1, <2>2 DEF RowsAreRead
  <2>. QED
    BY <2>1, <2>3 DEF RowsAreNew, LatestCovers, MissingAreNew
<1>6. CASE MarkUpload(w) \/ NothingToDo(w) \/ MarkDone(w) \/ Fails(w)
  <2>1. stage'[w] \in {"start", "rows"}
    BY <1>6, <1>a DEF MarkUpload, NothingToDo, MarkDone, Fails, Finish, Goes
  <2>. QED
    BY <1>1, <2>1
<1>. QED
  BY <1>2, <1>3, <1>4, <1>5, <1>6 DEF RunStep

LEMMA RecreateStep ==
    ASSUME Sound, ReportInv, RecreateInv, [ReconNext]_<<jobVars, reconVars>>
    PROVE  RecreateInv'
<1>. SUFFICES ASSUME MaxCopies = 1 PROVE HashesOnce' /\ \A v \in Workers : RowsAreNew(v)'
  BY DEF RecreateInv
<1>1. HashesOnce'
  BY HashesStay DEF RecreateInv
<1>2. ASSUME NEW v \in Workers PROVE RowsAreNew(v)'
  <2>1. CASE stage'[v] = "start"
    BY <2>1 DEF RowsAreNew, RowsAreRead, LatestCovers, MissingAreNew, HasRead, Paired
  <2>. QED
    BY <2>1, RunMoves, RunsStayNew, RowsStayNew
<1>. QED
  BY <1>1, <1>2

(***************************************************************************)
(* While the event of a job has one copy, a row becomes a transaction a    *)
(* second time only when the first is deleted or was verified.             *)
(***************************************************************************)
THEOREM RecreatedWereVerified == ReconSpec => RecreatedOnlyVerified
<1>1. ReconInit => ReportInv /\ RecreateInv
  <2>. SUFFICES ASSUME ReconInit PROVE ReportInv /\ RecreateInv
    OBVIOUS
  <2>1. HashesOnce
    BY DEF ReconInit, HashesOnce
  <2>2. \A w \in Workers : RowsAreNew(w)
    BY DEF ReconInit, RowsAreNew, RowsAreRead, LatestCovers, MissingAreNew, HasRead, Paired
  <2>. QED
    BY <2>1, <2>2, ReportInit DEF RecreateInv
<1>2. Sound /\ RecreateInv /\ [ReconNext]_<<jobVars, reconVars>>
        => [MaxCopies = 1 =>
              \A n \in DOMAIN txns' \ DOMAIN txns : txns'[n].auto =>
                  \A o \in DOMAIN txns :
                      txns[o].auto /\ txns[o].live /\ SameRow(txns[o], txns'[n])
                          => txns[o].verified]_<<jobVars, reconVars>>
  <2>. SUFFICES ASSUME Sound, RecreateInv, [ReconNext]_<<jobVars, reconVars>>, MaxCopies = 1,
                       NEW n \in DOMAIN txns' \ DOMAIN txns, txns'[n].auto,
                       NEW o \in DOMAIN txns, txns[o].auto, txns[o].live,
                       SameRow(txns[o], txns'[n])
                PROVE  txns[o].verified
    BY DEF SameRow
  <2>1. PICK w \in Workers : CreateMissing(w) /\ WasMissing(w, txns'[n])
    BY TxnsKept
  <2>2. PICK i \in DOMAIN local[w].rows :
           local[w].results[i].kind = "MISSING" /\ SameRow(txns'[n], local[w].rows[i])
    BY <2>1 DEF WasMissing
  <2>3. stage[w] = "create" /\ Exists(Job(w)) /\ MissingAreNew(w)
    BY <2>1 DEF CreateMissing, At, RecreateInv, RowsAreNew
  <2>4. SameRow(txns[o], local[w].rows[i]) /\ o \in Live
    BY <2>2 DEF SameRow, Live
  <2>. QED
    BY <2>2, <2>3, <2>4 DEF MissingAreNew
<1>. QED
  BY <1>1, <1>2, SoundInit, SoundStep, ReportStep, RecreateStep, PTL
     DEF ReconSpec, RecreatedOnlyVerified
=============================================================================
