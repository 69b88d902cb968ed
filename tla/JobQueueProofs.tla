--------------------------- MODULE JobQueueProofs ---------------------------
(***************************************************************************)
(* Proofs about JobQueue, for every set of jobs, every finite set of       *)
(* invocations and any number of tries and of copies of an event.          *)
(***************************************************************************)
EXTENDS JobQueue, FiniteSetTheorems, TLAPS

USE WorkersAssumption, MaxTriesAssumption, MaxCopiesAssumption
    DEF WorkersAssumption, MaxTriesAssumption, MaxCopiesAssumption

PcValues == {"idle", "lookup", "mark", "run", "settle", "return"}

(***************************************************************************)
(* An event that is retried is an event, of the same job.                  *)
(***************************************************************************)
LEMMA RetriesAreEvents ==
    ASSUME NEW e \in Events
    PROVE  Retry(e) \subseteq Events /\ \A r \in Retry(e) : r.job = e.job
BY DEF Retry, Events

(***************************************************************************)
(* The number of invocations still to count an attempt is a number, and    *)
(* shrinks with their set.                                                 *)
(***************************************************************************)
LEMMA CountingIsNat ==
    ASSUME NEW j
    PROVE  /\ IsFiniteSet(Counting(j))
           /\ Cardinality(Counting(j)) \in Nat
BY FS_Subset, FS_CardinalityType DEF Counting

LEMMA CountingShrinks ==
    ASSUME NEW j, Counting(j)' \subseteq Counting(j)
    PROVE  /\ Cardinality(Counting(j)') \in Nat
           /\ Cardinality(Counting(j)') <= Cardinality(Counting(j))
BY CountingIsNat, FS_Subset, FS_CardinalityType

LEMMA CountingDrops ==
    ASSUME NEW j, NEW w \in Counting(j), Counting(j)' = Counting(j) \ {w}
    PROVE  Cardinality(Counting(j)') = Cardinality(Counting(j)) - 1
BY CountingIsNat, FS_RemoveElement

LEMMA CountingGrows ==
    ASSUME NEW j, NEW w, w \notin Counting(j), Counting(j)' = Counting(j) \cup {w}
    PROVE  Cardinality(Counting(j)') = Cardinality(Counting(j)) + 1
BY CountingIsNat, FS_AddElement

(***************************************************************************)
(* The initial state.                                                      *)
(***************************************************************************)
LEMMA InitInv == JobInit => JobInv
<1>. SUFFICES ASSUME JobInit PROVE JobInv
  OBVIOUS
<1>1. TypeOK
  BY DEF JobInit, TypeOK, Busy
<1>2. RowRecorded /\ EventsHaveRows /\ OkMeansWon
  BY DEF JobInit, RowRecorded, EventsHaveRows, OkMeansWon, Busy
<1>3. CompletedMeansRan
  BY DEF JobInit, CompletedMeansRan, NoRow
<1>4. AttemptsBounded
  <2>1. \A j \in Jobs : Counting(j) = {}
    BY DEF JobInit, Counting
  <2>2. \A j \in Jobs : Cardinality(Counting(j)) = 0
    BY <2>1, FS_EmptySet
  <2>. QED
    BY <2>1, <2>2 DEF JobInit, AttemptsBounded, NoRow
<1>. QED
  BY <1>1, <1>2, <1>3, <1>4 DEF JobInv

(***************************************************************************)
(* The steps of an enqueuer leave the attempts of every job as they are,   *)
(* or set them to zero before any delivery.                                *)
(***************************************************************************)
LEMMA EnqueueInv ==
    ASSUME JobInv, NEW j \in Jobs, RecordJob(j) \/ Dispatch(j)
    PROVE  JobInv'
<1>1. TypeOK'
  <2>1. CASE RecordJob(j)
    BY <2>1 DEF JobInv, TypeOK, RecordJob, worker, history, Busy, Statuses
  <2>2. CASE Dispatch(j)
    BY <2>2 DEF JobInv, TypeOK, Dispatch, worker, history, Busy, Events
  <2>. QED
    BY <2>1, <2>2
<1>2. RowRecorded' /\ EventsHaveRows'
  <2>1. CASE RecordJob(j)
    <3>1. \A k \in Jobs : row[k] # NoRow => row'[k] # NoRow
      BY <2>1 DEF JobInv, TypeOK, RecordJob, NoRow
    <3>2. sent'[j] = "recorded" => row'[j] # NoRow
      BY <2>1 DEF JobInv, TypeOK, RecordJob, NoRow
    <3>3. \A k \in Jobs \ {j} : sent'[k] = sent[k]
      BY <2>1 DEF JobInv, TypeOK, RecordJob
    <3>4. events' = events /\ pc' = pc /\ ev' = ev
      BY <2>1 DEF RecordJob, worker
    <3>. QED
      BY <3>1, <3>2, <3>3, <3>4
         DEF JobInv, TypeOK, RowRecorded, EventsHaveRows, Busy, Events
  <2>2. CASE Dispatch(j)
    <3>1. row' = row /\ pc' = pc /\ ev' = ev /\ sent[j] = "recorded"
      BY <2>2 DEF Dispatch, worker
    <3>2. \A k \in Jobs : sent'[k] = "recorded" => sent[k] = "recorded"
      BY <2>2 DEF JobInv, TypeOK, Dispatch
    <3>3. \A e \in events' : e \in events \/ e.job = j
      BY <2>2 DEF Dispatch
    <3>. QED
      BY <3>1, <3>2, <3>3 DEF JobInv, RowRecorded, EventsHaveRows, Busy
  <2>. QED
    BY <2>1, <2>2
<1>3. pc' = pc /\ ev' = ev /\ seen' = seen /\ ok' = ok /\ begun' = begun /\ wins' = wins
  BY DEF RecordJob, Dispatch, worker, history
<1>4. OkMeansWon'
  BY <1>3 DEF JobInv, OkMeansWon, Busy
<1>5. CompletedMeansRan'
  BY <1>3 DEF JobInv, TypeOK, CompletedMeansRan, RecordJob, Dispatch
<1>6. AttemptsBounded'
  <2>1. \A k : Counting(k)' = Counting(k)
    BY <1>3 DEF Counting
  <2>2. \A k \in Jobs : row'[k].attempts = row[k].attempts \/ row'[k].attempts = 0
    BY DEF JobInv, TypeOK, RecordJob, Dispatch
  <2>3. \A k \in Jobs : row[k].attempts \in Nat
    BY DEF JobInv, TypeOK, NoRow
  <2>. QED
    BY <1>3, <2>1, <2>2, <2>3, CountingIsNat DEF JobInv, TypeOK, AttemptsBounded
<1>. QED
  BY <1>1, <1>2, <1>4, <1>5, <1>6 DEF JobInv

(***************************************************************************)
(* A delivery begins: one more attempt to count.                           *)
(***************************************************************************)
LEMMA ReceiveInv ==
    ASSUME JobInv, NEW w \in Workers, NEW e \in events, Receive(w, e)
    PROVE  JobInv'
<1>0. /\ e \in Events /\ e.job \in Jobs /\ pc[w] = "idle"
      /\ pc' = [pc EXCEPT ![w] = "lookup"] /\ ev' = [ev EXCEPT ![w] = e]
      /\ events' = events \ {e} /\ begun' = [begun EXCEPT ![e.job] = @ + 1]
      /\ UNCHANGED <<sent, row, seen, ok, wins, crashed, lost>>
  BY DEF JobInv, TypeOK, Events, Receive, Goto
<1>1. TypeOK'
  BY <1>0 DEF JobInv, TypeOK, Busy
<1>2. RowRecorded' /\ EventsHaveRows'
  BY <1>0 DEF JobInv, TypeOK, RowRecorded, EventsHaveRows, Busy
<1>3. OkMeansWon'
  BY <1>0 DEF JobInv, TypeOK, OkMeansWon, Busy
<1>4. CompletedMeansRan'
  BY <1>0 DEF JobInv, CompletedMeansRan
<1>5. AttemptsBounded'
  <2>1. w \notin Counting(e.job) /\ Counting(e.job)' = Counting(e.job) \cup {w}
    BY <1>0 DEF JobInv, TypeOK, Counting
  <2>2. Cardinality(Counting(e.job)') = Cardinality(Counting(e.job)) + 1
    BY <2>1, CountingGrows
  <2>3. \A k \in Jobs \ {e.job} : Counting(k)' = Counting(k)
    BY <1>0 DEF JobInv, TypeOK, Counting
  <2>4. \A k \in Jobs : /\ Cardinality(Counting(k)) \in Nat
                        /\ row[k].attempts \in Nat /\ begun[k] \in Nat
    BY CountingIsNat DEF JobInv, TypeOK, NoRow
  <2>5. ASSUME NEW k \in Jobs
        PROVE  /\ row'[k].attempts + Cardinality(Counting(k)') <= begun'[k]
               /\ \A v \in Counting(k)' : pc'[v] = "mark" =>
                    seen'[v] \in Nat /\ seen'[v] + Cardinality(Counting(k)') <= begun'[k]
    <3>1. \A v \in Counting(k)' : pc'[v] = "mark" =>
              v \in Counting(k) /\ pc[v] = "mark" /\ seen'[v] = seen[v]
      BY <1>0 DEF JobInv, TypeOK, Counting
    <3>2. /\ row[k].attempts + Cardinality(Counting(k)) <= begun[k]
          /\ \A v \in Counting(k) : pc[v] = "mark" =>
                seen[v] \in Nat /\ seen[v] + Cardinality(Counting(k)) <= begun[k]
      BY DEF JobInv, AttemptsBounded
    <3>3. begun'[k] - Cardinality(Counting(k)') = begun[k] - Cardinality(Counting(k))
      <4>1. CASE k = e.job
        <5>1. begun'[k] = begun[k] + 1
          BY <4>1, <1>0 DEF JobInv, TypeOK
        <5>2. Cardinality(Counting(k)') = Cardinality(Counting(k)) + 1
          BY <4>1, <2>2
        <5>. QED
          BY <5>1, <5>2, <2>4
      <4>2. CASE k # e.job
        BY <4>2, <1>0, <2>3, <2>4 DEF JobInv, TypeOK
      <4>. QED
        BY <4>1, <4>2
    <3>4. Cardinality(Counting(k)') \in Nat /\ begun'[k] \in Nat
      BY <1>0, <2>2, <2>3, <2>4 DEF JobInv, TypeOK
    <3>. QED
      BY <1>0, <2>4, <3>1, <3>2, <3>3, <3>4
  <2>. QED
    BY <2>5 DEF AttemptsBounded
<1>. QED
  BY <1>1, <1>2, <1>3, <1>4, <1>5 DEF JobInv

(***************************************************************************)
(* A step that takes nobody into the counting sets, and leaves the rows    *)
(* and what was read as they are, keeps the bound.                         *)
(***************************************************************************)
LEMMA BoundKept ==
    ASSUME JobInv, begun' = begun,
           \A k \in Jobs : Counting(k)' \subseteq Counting(k),
           \A k \in Jobs : row'[k].attempts = row[k].attempts,
           \A v \in Workers : pc'[v] = "mark" => pc[v] = "mark" /\ seen'[v] = seen[v]
    PROVE  AttemptsBounded'
<1>1. \A k \in Jobs : /\ Cardinality(Counting(k)) \in Nat
                      /\ Cardinality(Counting(k)') \in Nat
                      /\ Cardinality(Counting(k)') <= Cardinality(Counting(k))
                      /\ row[k].attempts \in Nat /\ begun[k] \in Nat
  BY CountingIsNat, CountingShrinks DEF JobInv, TypeOK, NoRow
<1>2. \A k \in Jobs : row'[k].attempts + Cardinality(Counting(k)') <= begun'[k]
  BY <1>1 DEF JobInv, AttemptsBounded
<1>3. ASSUME NEW k \in Jobs, NEW v \in Counting(k)', pc'[v] = "mark"
      PROVE  seen'[v] \in Nat /\ seen'[v] + Cardinality(Counting(k)') <= begun'[k]
  <2>1. v \in Workers /\ v \in Counting(k) /\ pc[v] = "mark" /\ seen'[v] = seen[v]
    BY <1>3 DEF Counting
  <2>2. seen[v] \in Nat /\ seen[v] + Cardinality(Counting(k)) <= begun[k]
    BY <2>1 DEF JobInv, AttemptsBounded
  <2>. QED
    BY <2>1, <2>2, <1>1
<1>. QED
  BY <1>2, <1>3 DEF AttemptsBounded

(***************************************************************************)
(* The read of the row: what it finds is within the bound.                 *)
(***************************************************************************)
LEMMA LookupInv ==
    ASSUME JobInv, NEW w \in Workers, Lookup(w)
    PROVE  JobInv'
<1>0. /\ pc[w] = "lookup" /\ Busy(w) /\ ev[w] \in Events /\ ev[w].job \in Jobs
      /\ pc' \in {[pc EXCEPT ![w] = "mark"], [pc EXCEPT ![w] = "run"]}
      /\ UNCHANGED <<sent, row, events, ev, ok, begun, wins, crashed>>
  BY DEF JobInv, TypeOK, Busy, Events, Lookup, Goto
<1>1. TypeOK'
  <2>1. row[ev[w].job].attempts \in Nat
    BY <1>0 DEF JobInv, TypeOK, NoRow
  <2>2. seen' \in [Workers -> Nat \cup {NilJob}] /\ lost' \subseteq Jobs
    BY <1>0, <2>1 DEF JobInv, TypeOK, Lookup
  <2>. QED
    BY <1>0, <2>2 DEF JobInv, TypeOK, Busy
<1>2. RowRecorded' /\ EventsHaveRows'
  BY <1>0 DEF JobInv, TypeOK, RowRecorded, EventsHaveRows, Busy
<1>3. OkMeansWon' /\ CompletedMeansRan'
  BY <1>0 DEF JobInv, TypeOK, OkMeansWon, CompletedMeansRan, Busy
<1>4. AttemptsBounded'
  <2>1. CASE pc' = [pc EXCEPT ![w] = "run"]
    <3>1. \A k \in Jobs : Counting(k)' \subseteq Counting(k)
      BY <2>1, <1>0 DEF JobInv, TypeOK, Counting
    <3>2. \A v \in Workers : pc'[v] = "mark" => v # w /\ pc[v] = "mark" /\ seen'[v] = seen[v]
      BY <2>1, <1>0 DEF JobInv, TypeOK, Lookup
    <3>. QED
      BY <1>0, <3>1, <3>2, BoundKept
  <2>2. CASE pc' = [pc EXCEPT ![w] = "mark"]
    <3>1. seen' = [seen EXCEPT ![w] = row[ev[w].job].attempts]
      BY <2>2, <1>0 DEF JobInv, TypeOK, Lookup, Goto
    <3>2. \A k \in Jobs : Counting(k)' = Counting(k)
      BY <2>2, <1>0 DEF JobInv, TypeOK, Counting
    <3>3. row[ev[w].job].attempts \in Nat
      BY <1>0 DEF JobInv, TypeOK, NoRow
    <3>4. ASSUME NEW k \in Jobs
          PROVE  /\ row'[k].attempts + Cardinality(Counting(k)') <= begun'[k]
                 /\ \A v \in Counting(k)' : pc'[v] = "mark" =>
                      seen'[v] \in Nat /\ seen'[v] + Cardinality(Counting(k)') <= begun'[k]
      <4>1. /\ row[k].attempts + Cardinality(Counting(k)) <= begun[k]
            /\ \A v \in Counting(k) : pc[v] = "mark" =>
                  seen[v] \in Nat /\ seen[v] + Cardinality(Counting(k)) <= begun[k]
        BY DEF JobInv, AttemptsBounded
      <4>2. ASSUME NEW v \in Counting(k), pc'[v] = "mark"
            PROVE  \/ v = w /\ k = ev[w].job /\ seen'[v] = row[k].attempts
                   \/ pc[v] = "mark" /\ seen'[v] = seen[v]
        BY <4>2, <1>0, <2>2, <3>1 DEF JobInv, TypeOK, Counting
      <4>3. row[k].attempts \in Nat
        BY DEF JobInv, TypeOK, NoRow
      <4>. QED
        BY <1>0, <3>2, <4>1, <4>2, <4>3
    <3>. QED
      BY <3>4 DEF AttemptsBounded
  <2>. QED
    BY <1>0, <2>1, <2>2
<1>. QED
  BY <1>1, <1>2, <1>3, <1>4 DEF JobInv

(***************************************************************************)
(* The write of the row: the count it adds was begun, and is no longer     *)
(* still to be counted.                                                    *)
(***************************************************************************)
LEMMA MarkInv ==
    ASSUME JobInv, NEW w \in Workers, MarkProcessing(w)
    PROVE  JobInv'
<1>. DEFINE new == [status |-> "processing", attempts |-> seen[w] + 1]
<1>j. PICK j \in Jobs : j = ev[w].job
  BY DEF JobInv, TypeOK, Busy, Events, MarkProcessing
<1>0. /\ pc[w] = "mark" /\ Busy(w) /\ ev[w] \in Events /\ j = ev[w].job
      /\ seen[w] \in Nat /\ pc' = [pc EXCEPT ![w] = "run"]
      /\ row' = [row EXCEPT ![j] = new] \/ row' = row
      /\ lost' \subseteq Jobs
      /\ UNCHANGED <<sent, events, ev, seen, ok, begun, wins, crashed>>
  <2>1. pc[w] = "mark" /\ Busy(w) /\ ev[w] \in Events
    BY DEF JobInv, TypeOK, Busy, MarkProcessing
  <2>2. seen[w] \in Nat
    BY <1>j, <2>1 DEF JobInv, AttemptsBounded, Counting
  <2>3. /\ pc' = [pc EXCEPT ![w] = "run"]
        /\ row' = [row EXCEPT ![j] = new] \/ row' = row
        /\ lost' \subseteq Jobs
        /\ UNCHANGED <<sent, events, ev, seen, ok, begun, wins, crashed>>
    BY <1>j, <2>1 DEF JobInv, TypeOK, MarkProcessing, WriteRow, Goto
  <2>. QED
    BY <1>j, <2>1, <2>2, <2>3
<1>1. TypeOK'
  <2>1. new \in [status : Statuses, attempts : Nat]
    BY <1>0 DEF Statuses
  <2>2. row' \in [Jobs -> [status : Statuses, attempts : Nat] \cup {NoRow}]
    BY <1>0, <2>1 DEF JobInv, TypeOK
  <2>. QED
    BY <1>0, <2>2 DEF JobInv, TypeOK, Busy
<1>2. RowRecorded' /\ EventsHaveRows'
  <2>1. \A k \in Jobs : row[k] # NoRow => row'[k] # NoRow
    BY <1>0 DEF JobInv, TypeOK, NoRow
  <2>. QED
    BY <1>0, <2>1 DEF JobInv, TypeOK, RowRecorded, EventsHaveRows, Busy, Events
<1>3. OkMeansWon' /\ CompletedMeansRan'
  BY <1>0 DEF JobInv, TypeOK, OkMeansWon, CompletedMeansRan, Busy
<1>4. AttemptsBounded'
  <2>1. w \in Counting(j) /\ Counting(j)' = Counting(j) \ {w}
    BY <1>0 DEF JobInv, TypeOK, Counting
  <2>2. Cardinality(Counting(j)') = Cardinality(Counting(j)) - 1
    BY <2>1, CountingDrops
  <2>3. \A k \in Jobs \ {j} : Counting(k)' = Counting(k)
    BY <1>0 DEF JobInv, TypeOK, Counting
  <2>4. \A k \in Jobs : /\ Cardinality(Counting(k)) \in Nat
                        /\ row[k].attempts \in Nat /\ begun[k] \in Nat
    BY CountingIsNat DEF JobInv, TypeOK, NoRow
  <2>5. seen[w] + Cardinality(Counting(j)) <= begun[j]
    BY <1>0, <2>1 DEF JobInv, AttemptsBounded
  <2>6. ASSUME NEW k \in Jobs
        PROVE  /\ row'[k].attempts + Cardinality(Counting(k)') <= begun'[k]
               /\ \A v \in Counting(k)' : pc'[v] = "mark" =>
                    seen'[v] \in Nat /\ seen'[v] + Cardinality(Counting(k)') <= begun'[k]
    <3>1. /\ row[k].attempts + Cardinality(Counting(k)) <= begun[k]
          /\ \A v \in Counting(k) : pc[v] = "mark" =>
                seen[v] \in Nat /\ seen[v] + Cardinality(Counting(k)) <= begun[k]
      BY DEF JobInv, AttemptsBounded
    <3>2. \A v \in Counting(k)' : pc'[v] = "mark" =>
              v \in Counting(k) /\ pc[v] = "mark" /\ seen'[v] = seen[v]
      BY <1>0 DEF JobInv, TypeOK, Counting
    <3>3. CASE k = j
      <4>1. row'[j].attempts \in {row[j].attempts, seen[w] + 1}
        BY <1>0 DEF JobInv, TypeOK
      <4>. QED
        BY <3>1, <3>2, <3>3, <4>1, <1>0, <2>2, <2>4, <2>5
    <3>4. CASE k # j
      <4>1. row'[k] = row[k] /\ Counting(k)' = Counting(k)
        BY <3>4, <1>0, <2>3 DEF JobInv, TypeOK
      <4>. QED
        BY <3>1, <3>2, <4>1, <1>0
    <3>. QED
      BY <3>3, <3>4
  <2>. QED
    BY <2>6 DEF AttemptsBounded
<1>. QED
  BY <1>1, <1>2, <1>3, <1>4 DEF JobInv

(***************************************************************************)
(* The run ends: a success is counted before the row can say so.           *)
(***************************************************************************)
LEMMA RunInv ==
    ASSUME JobInv, NEW w \in Workers, NEW b \in BOOLEAN, Run(w, b)
    PROVE  JobInv'
<1>0. /\ pc[w] = "run" /\ Busy(w) /\ ev[w] \in Events /\ ev[w].job \in Jobs
      /\ pc' = [pc EXCEPT ![w] = "settle"] /\ ok' = [ok EXCEPT ![w] = b]
      /\ UNCHANGED <<sent, row, events, ev, seen, begun, crashed, lost>>
  BY DEF JobInv, TypeOK, Busy, Events, Run, Goto
<1>w. /\ wins' \in [Jobs -> Nat]
      /\ \A k \in Jobs : wins[k] > 0 => wins'[k] > 0
      /\ b => wins'[ev[w].job] > 0
  <2>1. CASE b
    BY <2>1, <1>0 DEF JobInv, TypeOK, Run
  <2>2. CASE ~b
    BY <2>2 DEF JobInv, TypeOK, Run
  <2>. QED
    BY <2>1, <2>2
<1>1. TypeOK'
  BY <1>0, <1>w DEF JobInv, TypeOK, Busy
<1>2. RowRecorded' /\ EventsHaveRows'
  BY <1>0 DEF JobInv, TypeOK, RowRecorded, EventsHaveRows, Busy
<1>3. OkMeansWon'
  <2>. SUFFICES ASSUME NEW v \in Workers, ok'[v]
                PROVE  Busy(v)' /\ wins'[ev'[v].job] > 0
    BY DEF OkMeansWon
  <2>1. CASE v = w
    BY <2>1, <1>0, <1>w DEF JobInv, TypeOK, Busy
  <2>2. CASE v # w
    <3>1. ok[v] /\ Busy(v) /\ wins[ev[v].job] > 0 /\ ev[v].job \in Jobs
      BY <2>2, <1>0 DEF JobInv, TypeOK, OkMeansWon, Events
    <3>. QED
      BY <2>2, <3>1, <1>0, <1>w DEF JobInv, TypeOK, Busy
  <2>. QED
    BY <2>1, <2>2
<1>4. CompletedMeansRan'
  BY <1>0, <1>w DEF JobInv, CompletedMeansRan
<1>5. AttemptsBounded'
  <2>1. \A k \in Jobs : Counting(k)' \subseteq Counting(k)
    BY <1>0 DEF JobInv, TypeOK, Counting
  <2>2. \A v \in Workers : pc'[v] = "mark" => pc[v] = "mark" /\ seen'[v] = seen[v]
    BY <1>0 DEF JobInv, TypeOK
  <2>. QED
    BY <1>0, <2>1, <2>2, BoundKept
<1>. QED
  BY <1>1, <1>2, <1>3, <1>4, <1>5 DEF JobInv

(***************************************************************************)
(* The row is settled: completed after a success, failed otherwise, with   *)
(* the attempts it had.                                                    *)
(***************************************************************************)
LEMMA SettleInv ==
    ASSUME JobInv, NEW w \in Workers, Settle(w)
    PROVE  JobInv'
<1>. DEFINE new(j) == [row[j] EXCEPT !.status = IF ok[w] THEN "completed" ELSE "failed"]
<1>j. PICK j \in Jobs : j = ev[w].job
  BY DEF JobInv, TypeOK, Busy, Events, Settle
<1>0. /\ pc[w] = "settle" /\ Busy(w) /\ ev[w] \in Events /\ j = ev[w].job
      /\ pc' = [pc EXCEPT ![w] = "return"]
      /\ row' = [row EXCEPT ![j] = new(j)] \/ row' = row
      /\ lost' \subseteq Jobs
      /\ UNCHANGED <<sent, events, ev, seen, ok, begun, wins, crashed>>
  BY <1>j DEF JobInv, TypeOK, Busy, Settle, WriteRow, Goto
<1>n. /\ row[j] \in [status : Statuses, attempts : Nat]
      /\ new(j) \in [status : Statuses, attempts : Nat]
      /\ new(j).attempts = row[j].attempts
      /\ new(j).status = "completed" => ok[w]
  <2>1. row[j] \in [status : Statuses, attempts : Nat]
    BY <1>0 DEF JobInv, TypeOK, EventsHaveRows
  <2>. QED
    BY <2>1 DEF Statuses
<1>. HIDE DEF new
<1>1. TypeOK'
  <2>1. row' \in [Jobs -> [status : Statuses, attempts : Nat] \cup {NoRow}]
    BY <1>0, <1>n DEF JobInv, TypeOK
  <2>. QED
    BY <1>0, <2>1 DEF JobInv, TypeOK, Busy
<1>2. RowRecorded' /\ EventsHaveRows'
  <2>1. new(j) # NoRow
    BY <1>n DEF NoRow, Statuses
  <2>2. \A k \in Jobs : row[k] # NoRow => row'[k] # NoRow
    BY <1>0, <2>1 DEF JobInv, TypeOK
  <2>. QED
    BY <1>0, <2>2 DEF JobInv, TypeOK, RowRecorded, EventsHaveRows, Busy, Events
<1>3. OkMeansWon'
  BY <1>0 DEF JobInv, TypeOK, OkMeansWon, Busy
<1>4. CompletedMeansRan'
  <2>1. ok[w] => wins[j] > 0
    BY <1>0 DEF JobInv, OkMeansWon
  <2>2. \A k \in Jobs : row'[k] = row[k] \/ (k = j /\ row'[k] = new(j))
    BY <1>0 DEF JobInv, TypeOK
  <2>. QED
    BY <1>0, <1>n, <2>1, <2>2 DEF JobInv, CompletedMeansRan
<1>5. AttemptsBounded'
  <2>1. \A k \in Jobs : Counting(k)' \subseteq Counting(k)
    BY <1>0 DEF JobInv, TypeOK, Counting
  <2>2. \A v \in Workers : pc'[v] = "mark" => pc[v] = "mark" /\ seen'[v] = seen[v]
    BY <1>0 DEF JobInv, TypeOK
  <2>3. \A k \in Jobs : row'[k].attempts = row[k].attempts
    BY <1>0, <1>n DEF JobInv, TypeOK
  <2>. QED
    BY <1>0, <2>1, <2>2, <2>3, BoundKept
<1>. QED
  BY <1>1, <1>2, <1>3, <1>4, <1>5 DEF JobInv

(***************************************************************************)
(* An invocation ends, by its return or by its death.                      *)
(***************************************************************************)
LEMMA LeaveInv ==
    ASSUME JobInv, NEW w \in Workers, Return(w) \/ Crash(w)
    PROVE  JobInv'
<1>0. /\ Busy(w) /\ ev[w] \in Events /\ ev[w].job \in Jobs
      /\ pc' = [pc EXCEPT ![w] = "idle"] /\ ev' = [ev EXCEPT ![w] = NoEvent]
      /\ seen' = [seen EXCEPT ![w] = NilJob] /\ ok' = [ok EXCEPT ![w] = FALSE]
      /\ events' = events \/ events' = events \cup Retry(ev[w])
      /\ crashed' \subseteq Jobs
      /\ UNCHANGED <<sent, row, begun, wins, lost>>
  <2>1. Busy(w) /\ ev[w] \in Events /\ ev[w].job \in Jobs
    BY DEF JobInv, TypeOK, Busy, Events, Return, Crash
  <2>. QED
    BY <2>1 DEF JobInv, TypeOK, Return, Crash, Leave, Goto
<1>1. TypeOK'
  <2>1. events' \subseteq Events
    BY <1>0, RetriesAreEvents DEF JobInv, TypeOK
  <2>. QED
    BY <1>0, <2>1 DEF JobInv, TypeOK, Busy
<1>2. RowRecorded' /\ EventsHaveRows'
  <2>1. \A e \in events' : e \in events \/ e.job = ev[w].job
    BY <1>0, RetriesAreEvents
  <2>2. \A v \in Workers : Busy(v)' => Busy(v) /\ ev'[v] = ev[v]
    BY <1>0 DEF JobInv, TypeOK, Busy
  <2>. QED
    BY <1>0, <2>1, <2>2 DEF JobInv, RowRecorded, EventsHaveRows
<1>3. OkMeansWon'
  BY <1>0 DEF JobInv, TypeOK, OkMeansWon, Busy
<1>4. CompletedMeansRan'
  BY <1>0 DEF JobInv, CompletedMeansRan
<1>5. AttemptsBounded'
  <2>1. \A k \in Jobs : Counting(k)' \subseteq Counting(k)
    BY <1>0 DEF JobInv, TypeOK, Counting
  <2>2. \A v \in Workers : pc'[v] = "mark" => pc[v] = "mark" /\ seen'[v] = seen[v]
    BY <1>0 DEF JobInv, TypeOK
  <2>. QED
    BY <1>0, <2>1, <2>2, BoundKept
<1>. QED
  BY <1>1, <1>2, <1>3, <1>4, <1>5 DEF JobInv

(***************************************************************************)
(* Every step keeps the invariant.                                         *)
(***************************************************************************)
LEMMA StepInv == JobInv /\ [Next]_jobVars => JobInv'
<1>. SUFFICES ASSUME JobInv, [Next]_jobVars PROVE JobInv'
  OBVIOUS
<1>1. ASSUME NEW j \in Jobs, RecordJob(j) \/ Dispatch(j) PROVE JobInv'
  BY <1>1, EnqueueInv
<1>2. ASSUME NEW w \in Workers, NEW e \in events, Receive(w, e) PROVE JobInv'
  BY <1>2, ReceiveInv
<1>3. ASSUME NEW w \in Workers, Lookup(w) PROVE JobInv'
  BY <1>3, LookupInv
<1>4. ASSUME NEW w \in Workers, MarkProcessing(w) PROVE JobInv'
  BY <1>4, MarkInv
<1>5. ASSUME NEW w \in Workers, NEW b \in BOOLEAN, Run(w, b) PROVE JobInv'
  BY <1>5, RunInv
<1>6. ASSUME NEW w \in Workers, Settle(w) PROVE JobInv'
  BY <1>6, SettleInv
<1>7. ASSUME NEW w \in Workers, Return(w) \/ Crash(w) PROVE JobInv'
  BY <1>7, LeaveInv
<1>8. CASE UNCHANGED jobVars
  BY <1>8 DEF jobVars, worker, history, JobInv, TypeOK, RowRecorded, EventsHaveRows,
     OkMeansWon, CompletedMeansRan, AttemptsBounded, Busy, Counting
<1>. QED
  BY <1>1, <1>2, <1>3, <1>4, <1>5, <1>6, <1>7, <1>8 DEF Next, Enqueue, Step, Frame

(***************************************************************************)
(* The jobs and their workers are well typed at all times.                 *)
(***************************************************************************)
THEOREM TypeCorrect == Spec => []TypeOK
<1>1. JobInv => TypeOK
  BY DEF JobInv
<1>. QED
  BY InitInv, StepInv, <1>1, PTL DEF Spec

(***************************************************************************)
(* A delivered or queued event has its row (Dispatch comes after           *)
(* CreateNewJob in EnqueueTask).                                           *)
(***************************************************************************)
THEOREM EventsAlwaysHaveRows == Spec => []EventsHaveRows
<1>1. JobInv => EventsHaveRows
  BY DEF JobInv
<1>. QED
  BY InitInv, StepInv, <1>1, PTL DEF Spec

(***************************************************************************)
(* A job whose row says completed was run with success, whatever died, was *)
(* lost or was delivered more than once (Worker.Handle, markCompleted).    *)
(***************************************************************************)
THEOREM CompletedJobsRan == Spec => []CompletedMeansRan
<1>1. JobInv => CompletedMeansRan
  BY DEF JobInv
<1>. QED
  BY InitInv, StepInv, <1>1, PTL DEF Spec

(***************************************************************************)
(* The attempts of a job are at most its deliveries, for any number of     *)
(* concurrent deliveries (markProcessing reads the count and writes it     *)
(* back in two statements).                                                *)
(***************************************************************************)
THEOREM AttemptsAreBounded == Spec => []AttemptsNeverOverstate
<1>1. JobInv => AttemptsNeverOverstate
  <2>. SUFFICES ASSUME JobInv, NEW j \in Jobs PROVE row[j].attempts <= begun[j]
    BY DEF AttemptsNeverOverstate
  <2>1. row[j].attempts \in Nat /\ begun[j] \in Nat
    BY DEF JobInv, TypeOK, NoRow
  <2>2. row[j].attempts + Cardinality(Counting(j)) <= begun[j]
    BY DEF JobInv, AttemptsBounded
  <2>. QED
    BY <2>1, <2>2, CountingIsNat
<1>. QED
  BY InitInv, StepInv, <1>1, PTL DEF Spec

-----------------------------------------------------------------------------
(***************************************************************************)
(* Why completed is final with one copy of each event.                     *)
(***************************************************************************)
LEMMA OneDeliveryInv ==
    ASSUME FinalInv, Next, MaxCopies = 1
    PROVE  OneDelivery'
<1>. USE DEF FinalInv
<1>t. /\ events \subseteq Events /\ \A w \in Workers : Busy(w) => ev[w] \in Events
      /\ \A e \in Events : e.job \in Jobs
  BY DEF JobInv, TypeOK, Events
<1>1. ASSUME NEW j \in Jobs, RecordJob(j) PROVE OneDelivery'
  BY <1>1, <1>t DEF JobInv, TypeOK, OneDelivery, RecordJob, worker, history, Busy
<1>2. ASSUME NEW j \in Jobs, Dispatch(j) PROVE OneDelivery'
  <2>1. /\ \A e \in events : e.job # j
        /\ \A w \in Workers : Busy(w) => ev[w].job # j
    BY <1>2 DEF OneDelivery, Dispatch
  <2>2. /\ \A e \in events' : e \in events \/ (e.job = j /\ sent'[j] = "sent")
        /\ \A e, f \in events' : e.job = j /\ f.job = j => e = f
    <3>1. CASE UNCHANGED events
      BY <3>1, <2>1
    <3>2. CASE ~UNCHANGED events
      <4>1. PICK n \in 1 .. MaxCopies :
                events' = events \cup [job : {j}, copy : 1 .. n, left : {MaxTries}]
        BY <1>2, <3>2 DEF Dispatch
      <4>2. n = 1 /\ sent'[j] = "sent"
        BY <1>2, <3>2, <4>1 DEF Dispatch, JobInv, TypeOK
      <4>3. \A e \in [job : {j}, copy : 1 .. 1, left : {MaxTries}] :
                e = [job |-> j, copy |-> 1, left |-> MaxTries]
        OBVIOUS
      <4>. QED
        BY <2>1, <4>1, <4>2, <4>3
    <3>. QED
      BY <3>1, <3>2
  <2>3. /\ pc' = pc /\ ev' = ev
        /\ \A k \in Jobs : sent[k] = "sent" => sent'[k] = "sent"
    BY <1>2 DEF Dispatch, worker, JobInv, TypeOK
  <2>. QED
    BY <2>1, <2>2, <2>3, <1>t DEF OneDelivery, Busy
<1>3. ASSUME NEW w \in Workers, NEW e \in events, Receive(w, e) PROVE OneDelivery'
  <2>1. /\ \A v \in Workers : Busy(v)' <=> v = w \/ Busy(v)
        /\ \A v \in Workers : v # w => ev'[v] = ev[v]
        /\ ev'[w] = e /\ events' = events \ {e} /\ sent' = sent /\ ~Busy(w)
    BY <1>3 DEF JobInv, TypeOK, Receive, Goto, Busy
  <2>. QED
    BY <2>1 DEF OneDelivery
<1>4. ASSUME NEW w \in Workers,
             Lookup(w) \/ MarkProcessing(w) \/ Settle(w) \/ \E b \in BOOLEAN : Run(w, b)
      PROVE  OneDelivery'
  <2>1. /\ \A v \in Workers : Busy(v)' <=> Busy(v)
        /\ ev' = ev /\ events' = events /\ sent' = sent
    BY <1>4 DEF JobInv, TypeOK, Lookup, MarkProcessing, Settle, Run, Goto, Busy
  <2>. QED
    BY <2>1 DEF OneDelivery
<1>5. ASSUME NEW w \in Workers, Return(w) \/ Crash(w) PROVE OneDelivery'
  <2>1. /\ \A v \in Workers : Busy(v)' <=> Busy(v) /\ v # w
        /\ \A v \in Workers : v # w => ev'[v] = ev[v]
        /\ events' = events \/ events' = events \cup Retry(ev[w])
        /\ sent' = sent /\ Busy(w) /\ ev[w] \in Events
    BY <1>5, <1>t DEF JobInv, TypeOK, Return, Crash, Leave, Goto, Busy
  <2>2. /\ \A r \in Retry(ev[w]) : r.job = ev[w].job
        /\ \A r, q \in Retry(ev[w]) : r = q
    BY <2>1, RetriesAreEvents DEF Retry
  <2>. QED
    BY <2>1, <2>2 DEF OneDelivery
<1>. QED
  BY <1>1, <1>2, <1>3, <1>4, <1>5 DEF Next, Enqueue, Step, Frame

LEMMA OverInv ==
    ASSUME FinalInv, Next
    PROVE  CompletedIsOver'
<1>. USE DEF FinalInv
<1>. DEFINE Claim(j) == MaxCopies = 1 /\ row[j].status = "completed" =>
                          sent[j] = "sent" /\ (j \notin crashed => Over(j))
<1>. SUFFICES ASSUME NEW j \in Jobs
              PROVE  (sent'[j] = "new" => row'[j] = NoRow) /\ Claim(j)'
  BY DEF CompletedIsOver
<1>t. /\ events \subseteq Events /\ \A w \in Workers : Busy(w) => ev[w] \in Events
      /\ \A e \in Events : e.job \in Jobs
  BY DEF JobInv, TypeOK, Events
<1>o. (sent[j] = "new" => row[j] = NoRow) /\ Claim(j)
  BY DEF CompletedIsOver
<1>1. ASSUME NEW k \in Jobs, RecordJob(k) \/ Dispatch(k)
      PROVE  (sent'[j] = "new" => row'[j] = NoRow) /\ Claim(j)'
  <2>1. sent'[j] = "new" => sent[j] = "new" /\ row'[j] = row[j]
    BY <1>1 DEF JobInv, TypeOK, RecordJob, Dispatch
  <2>2. /\ crashed' = crashed /\ pc' = pc /\ ev' = ev /\ ok' = ok
        /\ \A e \in events' : e \in events \/ e.job = k
    BY <1>1 DEF RecordJob, Dispatch, worker, history
  <2>3. CASE k = j
    <3>1. sent[j] \in {"new", "recorded"}
      BY <2>3, <1>1 DEF RecordJob, Dispatch
    <3>2. MaxCopies = 1 => row[j].status # "completed"
      BY <3>1, <1>o
    <3>3. row'[j] = row[j] \/ row'[j].status = "pending"
      BY <2>3, <1>1 DEF JobInv, TypeOK, RecordJob, Dispatch
    <3>. QED
      BY <1>o, <2>1, <3>2, <3>3
  <2>4. CASE k # j
    <3>1. row'[j] = row[j] /\ sent'[j] = sent[j]
      BY <2>4, <1>1 DEF JobInv, TypeOK, RecordJob, Dispatch
    <3>2. Over(j) => Over(j)'
      BY <2>2, <2>4 DEF Over, Held, Busy
    <3>. QED
      BY <1>o, <2>2, <3>1, <3>2
  <2>. QED
    BY <2>3, <2>4
<1>2. ASSUME NEW w \in Workers, NEW e \in events, Receive(w, e)
      PROVE  (sent'[j] = "new" => row'[j] = NoRow) /\ Claim(j)'
  <2>1. /\ row' = row /\ sent' = sent /\ crashed' = crashed /\ ok' = ok
        /\ events' \subseteq events /\ e \in events
        /\ \A v \in Workers : v # w => pc'[v] = pc[v] /\ ev'[v] = ev[v]
        /\ ev'[w] = e
    BY <1>2 DEF JobInv, TypeOK, Receive, Goto
  <2>2. Over(j) => Over(j)'
    BY <2>1 DEF Over, Held, Busy
  <2>. QED
    BY <1>o, <2>1, <2>2
<1>3. ASSUME NEW w \in Workers, Lookup(w) \/ \E b \in BOOLEAN : Run(w, b)
      PROVE  (sent'[j] = "new" => row'[j] = NoRow) /\ Claim(j)'
  <2>1. /\ row' = row /\ sent' = sent /\ crashed' = crashed /\ events' = events
        /\ ev' = ev /\ pc[w] \in {"lookup", "run"}
        /\ \A v \in Workers : v # w => pc'[v] = pc[v] /\ ok'[v] = ok[v]
    BY <1>3 DEF JobInv, TypeOK, Lookup, Run, Goto
  <2>2. Over(j) => ~(Busy(w) /\ ev[w].job = j)
    BY <2>1 DEF Over, Held
  <2>3. Over(j) => Over(j)'
    BY <2>1, <2>2 DEF Over, Held, Busy
  <2>. QED
    BY <1>o, <2>1, <2>3
<1>4. ASSUME NEW w \in Workers, MarkProcessing(w) \/ Settle(w)
      PROVE  (sent'[j] = "new" => row'[j] = NoRow) /\ Claim(j)'
  <2>1. /\ sent' = sent /\ crashed' = crashed /\ events' = events /\ ev' = ev /\ ok' = ok
        /\ pc[w] \in {"mark", "settle"} /\ Busy(w)
        /\ \A v \in Workers : v # w => pc'[v] = pc[v]
        /\ \A k \in Jobs : k # ev[w].job => row'[k] = row[k]
    BY <1>4 DEF JobInv, TypeOK, MarkProcessing, Settle, WriteRow, Goto, Busy
  <2>2. MaxCopies = 1 => sent[ev[w].job] = "sent"
    BY <2>1 DEF OneDelivery
  <2>3. Over(j) => ev[w].job # j
    BY <2>1 DEF Over, Held
  <2>4. CASE ev[w].job # j
    <3>1. Over(j) => Over(j)'
      BY <2>1, <2>4 DEF Over, Held, Busy
    <3>. QED
      BY <1>o, <2>1, <2>4, <3>1
  <2>5. CASE ev[w].job = j
    <3>1. MaxCopies = 1 => sent[j] # "new"
      BY <2>2, <2>5
    <3>2. sent[j] = "new" => row[j] = NoRow /\ row[j] # NoRow
      BY <1>o, <2>1, <2>5 DEF JobInv, EventsHaveRows
    <3>3. row'[j].status = "completed" =>
              \/ row[j].status = "completed"
              \/ pc[w] = "settle" /\ ok[w] /\ pc'[w] = "return"
      <4>1. CASE MarkProcessing(w)
        BY <4>1, <2>5 DEF JobInv, TypeOK, MarkProcessing, WriteRow
      <4>2. CASE Settle(w)
        <5>1. row[j] \in [status : Statuses, attempts : Nat]
          BY <2>1, <2>5 DEF JobInv, TypeOK, EventsHaveRows
        <5>2. pc'[w] = "return" /\ pc[w] = "settle"
          BY <4>2 DEF JobInv, TypeOK, Settle, Goto
        <5>3. \/ row' = row
              \/ row'[j] = [row[j] EXCEPT !.status = IF ok[w] THEN "completed" ELSE "failed"]
          BY <4>2, <2>5 DEF JobInv, TypeOK, Settle, WriteRow
        <5>. QED
          BY <5>1, <5>2, <5>3
      <4>. QED
        BY <1>4, <4>1, <4>2
    <3>4. MaxCopies = 1 => /\ \A e \in events : e.job # j
                           /\ \A v \in Held(j) : v = w
      BY <2>1, <2>5 DEF OneDelivery, Held
    <3>5. MaxCopies = 1 /\ ok[w] /\ pc'[w] = "return" => Over(j)'
      <4>1. \A v \in Workers : v # w /\ Busy(v)' => Busy(v)
        BY <2>1 DEF Busy
      <4>. QED
        BY <2>1, <3>4, <4>1 DEF Over, Held
    <3>6. MaxCopies = 1 /\ row[j].status = "completed" => j \in crashed
      BY <1>o, <2>3, <2>5
    <3>. QED
      BY <2>1, <2>2, <2>5, <3>2, <3>3, <3>5, <3>6
  <2>. QED
    BY <2>4, <2>5
<1>5. ASSUME NEW w \in Workers, Return(w) \/ Crash(w)
      PROVE  (sent'[j] = "new" => row'[j] = NoRow) /\ Claim(j)'
  <2>1. /\ row' = row /\ sent' = sent /\ Busy(w) /\ ev[w] \in Events
        /\ events' = events \/ (events' = events \cup Retry(ev[w])
                                  /\ (ok[w] => ev[w].job \in crashed'))
        /\ crashed \subseteq crashed'
        /\ \A v \in Workers : v # w => pc'[v] = pc[v] /\ ev'[v] = ev[v] /\ ok'[v] = ok[v]
        /\ pc'[w] = "idle"
    BY <1>5, <1>t DEF JobInv, TypeOK, Return, Crash, Leave, Goto, Busy
  <2>2. Over(j) /\ j \notin crashed' => \A e \in events' : e.job # j
    BY <2>1, RetriesAreEvents DEF Over, Held
  <2>3. Over(j) /\ j \notin crashed' => Over(j)'
    BY <2>1, <2>2 DEF Over, Held, Busy
  <2>. QED
    BY <1>o, <2>1, <2>3
<1>. QED
  BY <1>1, <1>2, <1>3, <1>4, <1>5 DEF Next, Enqueue, Step, Frame

LEMMA FinalInit == JobInit => FinalInv
<1>. SUFFICES ASSUME JobInit PROVE OneDelivery /\ CompletedIsOver
  BY InitInv DEF FinalInv
<1>. QED
  BY DEF JobInit, OneDelivery, CompletedIsOver, Busy, NoRow

LEMMA FinalStep == FinalInv /\ [Next]_jobVars => FinalInv'
<1>. SUFFICES ASSUME FinalInv, [Next]_jobVars PROVE FinalInv'
  OBVIOUS
<1>1. CASE Next
  <2>1. OneDelivery'
    BY <1>1, OneDeliveryInv DEF OneDelivery
  <2>. QED
    BY <1>1, <2>1, StepInv, OverInv DEF FinalInv
<1>2. CASE UNCHANGED jobVars
  BY <1>2, StepInv DEF jobVars, worker, history, FinalInv, OneDelivery,
     CompletedIsOver, Over, Held, Busy
<1>. QED
  BY <1>1, <1>2

(***************************************************************************)
(* Deaths, lost writes and any number of deliveries at once leave a row    *)
(* behind what happened to its job at worst, never ahead of it.            *)
(***************************************************************************)
THEOREM RowsNeverOverclaim == Spec => []RowNeverOverclaims
BY CompletedJobsRan, AttemptsAreBounded, PTL DEF RowNeverOverclaims

(***************************************************************************)
(* With one copy of its event, a completed job whose invocations do not    *)
(* die stays completed (Worker.Handle returns nil after markCompleted).    *)
(***************************************************************************)
THEOREM CompletedStaysCompleted == Spec => CompletedIsFinal
<1>1. ASSUME FinalInv, FinalInv', [Next]_jobVars, NEW j \in Jobs, MaxCopies = 1,
             row[j].status = "completed", j \notin crashed
      PROVE  row'[j].status = "completed"
  <2>1. sent[j] = "sent" /\ Over(j)
    BY <1>1 DEF FinalInv, CompletedIsOver
  <2>2. CASE row'[j] = row[j]
    BY <2>2, <1>1
  <2>3. CASE row'[j] # row[j]
    <3>1. CASE \E w \in Workers : MarkProcessing(w) \/ Settle(w)
      <4>1. PICK w \in Workers : MarkProcessing(w) \/ Settle(w)
        BY <3>1
      <4>2. Busy(w) /\ pc[w] # "return"
        BY <4>1 DEF MarkProcessing, Settle, Busy
      <4>3. ev[w].job # j
        BY <4>2, <2>1 DEF Over, Held
      <4>4. row'[j] = row[j]
        BY <4>1, <4>3, <1>1 DEF FinalInv, JobInv, TypeOK, MarkProcessing, Settle, WriteRow
      <4>. QED
        BY <4>4, <2>3
    <3>2. CASE \E k \in Jobs : RecordJob(k)
      BY <3>2, <2>1, <2>3, <1>1 DEF FinalInv, JobInv, TypeOK, RecordJob
    <3>. QED
      BY <3>1, <3>2, <2>3, <1>1 DEF Next, Enqueue, Step, Frame, jobVars, Dispatch,
         Receive, Lookup, Run, Return, Crash
  <2>. QED
    BY <2>2, <2>3
<1>2. FinalInv /\ FinalInv' /\ [Next]_jobVars =>
        [\A j \in Jobs : row[j].status = "completed" /\ MaxCopies = 1 /\ j \notin crashed
                            => row'[j].status = "completed"]_jobVars
  BY <1>1
<1>. QED
  BY FinalInit, FinalStep, <1>2, PTL DEF Spec, CompletedIsFinal

-----------------------------------------------------------------------------
(***************************************************************************)
(* The row tells the outcome.  A run that succeeds settles and returns,    *)
(* and with one copy of the event and no death nothing runs after it; the  *)
(* tries an event has left and the deliveries begun are MaxTries together, *)
(* and the row says what its job's one event, wherever it is, has been     *)
(* through.                                                                *)
(***************************************************************************)
WinIsOver(j) ==
    wins[j] > 0 => /\ sent[j] = "sent"
                   /\ j \notin crashed => /\ \A e \in events : e.job # j
                                          /\ \A w \in Held(j) : ok[w]

WinsAreOver ==
    /\ \A w \in Workers : ok[w] => pc[w] \in {"settle", "return"}
    /\ MaxCopies = 1 => \A j \in Jobs : WinIsOver(j)

NotYet(j) ==
    sent[j] # "sent" => row[j].attempts = 0 /\ begun[j] = 0 /\ wins[j] = 0

Queued(j) ==
    \A e \in events : e.job = j => /\ row[j].attempts = begun[j] /\ wins[j] = 0
                                   /\ begun[j] + e.left = MaxTries

InHand(j) ==
    \A w \in Held(j) :
        /\ begun[j] + ev[w].left = MaxTries + 1
        /\ wins[j] = IF ok[w] THEN 1 ELSE 0
        /\ row[j].attempts + (IF pc[w] \in {"lookup", "mark"} THEN 1 ELSE 0) = begun[j]
        /\ pc[w] = "mark" => seen[w] = row[j].attempts
        /\ pc[w] # "lookup" => seen[w] # NilJob
        /\ pc[w] = "return" => row[j].status = IF ok[w] THEN "completed" ELSE "failed"

Told(j) ==
    Quiet(j) /\ sent[j] = "sent" =>
        /\ row[j].attempts = begun[j]
        /\ row[j].status = IF wins[j] > 0 THEN "completed" ELSE "failed"
        /\ wins[j] <= 1
        /\ wins[j] = 0 => begun[j] = MaxTries

Story(j) == NotYet(j) /\ Queued(j) /\ InHand(j) /\ Told(j)

OutcomeInv == FinalInv /\ WinsAreOver /\ \A j \in Jobs : Undisturbed(j) => Story(j)

LEMMA OutcomeInit == JobInit => OutcomeInv
<1>. SUFFICES ASSUME JobInit PROVE OutcomeInv
  OBVIOUS
<1>1. WinsAreOver
  BY DEF JobInit, WinsAreOver, WinIsOver
<1>2. \A j \in Jobs : Story(j)
  BY DEF JobInit, Story, NotYet, Queued, InHand, Told, Held, Busy, NoRow
<1>. QED
  BY <1>1, <1>2, FinalInit DEF OutcomeInv

LEMMA WinsAreOverStep ==
    ASSUME OutcomeInv, Next
    PROVE  WinsAreOver'
<1>. USE DEF OutcomeInv, FinalInv
<1>t. /\ events \subseteq Events /\ \A w \in Workers : Busy(w) => ev[w] \in Events
      /\ \A e \in Events : e.job \in Jobs
  BY DEF JobInv, TypeOK, Events
<1>o. \A w \in Workers : ok[w] => pc[w] \in {"settle", "return"}
  BY DEF WinsAreOver
<1>. DEFINE Kept == /\ \A w \in Workers : ok'[w] => pc'[w] \in {"settle", "return"}
                    /\ MaxCopies = 1 => \A j \in Jobs : WinIsOver(j)'
<1>1. ASSUME NEW k \in Jobs, RecordJob(k) \/ Dispatch(k) PROVE Kept
  <2>1. /\ pc' = pc /\ ok' = ok /\ ev' = ev /\ wins' = wins /\ crashed' = crashed
        /\ \A e \in events' : e \in events \/ e.job = k
        /\ sent[k] # "sent"
        /\ \A j \in Jobs : j # k => sent'[j] = sent[j]
    BY <1>1 DEF JobInv, TypeOK, RecordJob, Dispatch, worker, history
  <2>2. MaxCopies = 1 => wins[k] = 0
    BY <2>1 DEF JobInv, TypeOK, WinsAreOver, WinIsOver
  <2>. QED
    BY <1>o, <2>1, <2>2 DEF WinsAreOver, WinIsOver, Held, Busy
<1>2. ASSUME NEW w \in Workers, NEW e \in events, Receive(w, e) PROVE Kept
  <2>1. /\ sent' = sent /\ ok' = ok /\ wins' = wins /\ crashed' = crashed
        /\ events' \subseteq events /\ pc[w] = "idle"
        /\ \A v \in Workers : v # w => pc'[v] = pc[v] /\ ev'[v] = ev[v]
        /\ ev'[w] = e
    BY <1>2 DEF JobInv, TypeOK, Receive, Goto
  <2>. QED
    BY <1>o, <1>t, <2>1 DEF WinsAreOver, WinIsOver, Held, Busy
<1>3. ASSUME NEW w \in Workers, Lookup(w) \/ MarkProcessing(w) \/ Settle(w) PROVE Kept
  <2>1. /\ sent' = sent /\ ok' = ok /\ wins' = wins /\ crashed' = crashed
        /\ events' = events /\ ev' = ev /\ Busy(w)
        /\ \A v \in Workers : v # w => pc'[v] = pc[v]
        /\ pc[w] = "settle" => pc'[w] = "return"
        /\ pc[w] \in {"lookup", "mark", "settle"}
    BY <1>3 DEF JobInv, TypeOK, Lookup, MarkProcessing, Settle, Goto, Busy
  <2>. QED
    BY <1>o, <2>1 DEF WinsAreOver, WinIsOver, Held, Busy
<1>4. ASSUME NEW w \in Workers, NEW b \in BOOLEAN, Run(w, b) PROVE Kept
  <2>1. /\ sent' = sent /\ crashed' = crashed /\ events' = events /\ ev' = ev
        /\ Busy(w) /\ pc[w] = "run" /\ pc'[w] = "settle" /\ ok'[w] = b
        /\ \A v \in Workers : v # w => pc'[v] = pc[v] /\ ok'[v] = ok[v]
        /\ ev[w].job \in Jobs
        /\ \A j \in Jobs : wins'[j] = wins[j] \/ (b /\ j = ev[w].job)
    BY <1>4, <1>t DEF JobInv, TypeOK, Run, Goto, Busy
  <2>2. ~ok[w]
    BY <2>1, <1>o
  <2>3. MaxCopies = 1 => /\ sent[ev[w].job] = "sent"
                         /\ \A e \in events : e.job # ev[w].job
                         /\ \A v \in Held(ev[w].job) : v = w
    BY <2>1 DEF OneDelivery, Held
  <2>4. ASSUME MaxCopies = 1, NEW j \in Jobs PROVE WinIsOver(j)'
    <3>1. CASE j = ev[w].job
      <4>1. CASE b
        BY <2>1, <2>3, <2>4, <3>1, <4>1 DEF WinIsOver, Held, Busy
      <4>2. CASE ~b
        <5>1. wins'[j] = wins[j]
          BY <2>1, <4>2
        <5>2. w \in Held(j)
          BY <2>1, <3>1 DEF Held
        <5>3. wins[j] > 0 => j \in crashed /\ sent[j] = "sent"
          BY <2>2, <2>4, <5>2 DEF WinsAreOver, WinIsOver
        <5>. QED
          BY <2>1, <5>1, <5>3 DEF WinIsOver
      <4>. QED
        BY <4>1, <4>2
    <3>2. CASE j # ev[w].job
      BY <2>1, <2>4, <3>2 DEF WinsAreOver, WinIsOver, Held, Busy
    <3>. QED
      BY <3>1, <3>2
  <2>. QED
    BY <1>o, <2>1, <2>4
<1>5. ASSUME NEW w \in Workers, Return(w) \/ Crash(w) PROVE Kept
  <2>1. /\ sent' = sent /\ wins' = wins /\ Busy(w) /\ ev[w] \in Events
        /\ events' = events \/ (events' = events \cup Retry(ev[w])
                                  /\ (ok[w] => ev[w].job \in crashed'))
        /\ crashed \subseteq crashed'
        /\ \A v \in Workers : v # w => pc'[v] = pc[v] /\ ev'[v] = ev[v] /\ ok'[v] = ok[v]
        /\ pc'[w] = "idle" /\ ~ok'[w]
    BY <1>5, <1>t DEF JobInv, TypeOK, Return, Crash, Leave, Goto, Busy
  <2>2. \A r \in Retry(ev[w]) : r.job = ev[w].job
    BY <2>1, RetriesAreEvents
  <2>. QED
    BY <1>o, <2>1, <2>2 DEF WinsAreOver, WinIsOver, Held, Busy
<1>6. Next => Kept
  BY <1>1, <1>2, <1>3, <1>4, <1>5 DEF Next, Enqueue, Step, Frame
<1>. QED
  BY <1>6 DEF WinsAreOver

(***************************************************************************)
(* A step about another job does not touch the story of this one.          *)
(***************************************************************************)
LEMMA StoryKept ==
    ASSUME NEW j \in Jobs, Story(j),
           row'[j] = row[j], sent'[j] = sent[j], begun'[j] = begun[j], wins'[j] = wins[j],
           \A e : e.job = j => (e \in events' <=> e \in events),
           \A w \in Workers : (Busy(w) /\ ev[w].job = j) \/ (Busy(w)' /\ ev'[w].job = j)
               => pc'[w] = pc[w] /\ ev'[w] = ev[w] /\ seen'[w] = seen[w] /\ ok'[w] = ok[w]
    PROVE  Story(j)'
<1>1. Held(j)' = Held(j)
  BY DEF Held, Busy
<1>2. \A w \in Held(j) : pc'[w] = pc[w] /\ ev'[w] = ev[w] /\ seen'[w] = seen[w]
                         /\ ok'[w] = ok[w]
  BY DEF Held
<1>3. Quiet(j)' => Quiet(j)
  BY <1>1 DEF Quiet
<1>4. NotYet(j)' /\ Queued(j)' /\ Told(j)'
  BY <1>3 DEF Story, NotYet, Queued, Told
<1>5. InHand(j)'
  BY <1>1, <1>2 DEF Story, InHand
<1>. QED
  BY <1>4, <1>5 DEF Story

(***************************************************************************)
(* With one copy, the event of a job is in one place.                      *)
(***************************************************************************)
LEMMA OnePlace ==
    ASSUME OutcomeInv, MaxCopies = 1, NEW w \in Workers, Busy(w)
    PROVE  /\ ev[w] \in Events /\ ev[w].job \in Jobs /\ sent[ev[w].job] = "sent"
           /\ \A e \in events : e.job # ev[w].job
           /\ Held(ev[w].job) = {w}
<1>1. ev[w] \in Events /\ ev[w].job \in Jobs
  BY DEF OutcomeInv, FinalInv, JobInv, TypeOK, Events
<1>2. /\ sent[ev[w].job] = "sent"
      /\ \A e \in events : e.job # ev[w].job
      /\ Held(ev[w].job) = {w}
  BY DEF OutcomeInv, FinalInv, OneDelivery, Held
<1>. QED
  BY <1>1, <1>2

LEMMA EnqueueTells ==
    ASSUME OutcomeInv, NEW k \in Jobs, RecordJob(k) \/ Dispatch(k),
           NEW j \in Jobs, Undisturbed(j)
    PROVE  Story(j)'
<1>. USE DEF OutcomeInv, FinalInv
<1>0. /\ Story(j) /\ MaxCopies = 1
      /\ UNCHANGED <<pc, ev, seen, ok, begun, wins>>
  BY DEF Undisturbed, RecordJob, Dispatch, worker, history
<1>1. CASE k # j
  BY <1>0, <1>1, StoryKept DEF JobInv, TypeOK, RecordJob, Dispatch, Busy
<1>2. CASE k = j
  <2>1. /\ sent[j] \in {"new", "recorded"}
        /\ row[j].attempts = 0 /\ begun[j] = 0 /\ wins[j] = 0
    BY <1>0, <1>2 DEF RecordJob, Dispatch, Story, NotYet
  <2>2. /\ \A e \in events : e.job # j
        /\ \A w \in Workers : Busy(w) => ev[w].job # j
    BY <1>0, <2>1 DEF OneDelivery
  <2>3. InHand(j)'
    BY <1>0, <2>2 DEF InHand, Held, Busy
  <2>4. CASE RecordJob(j)
    <3>1. sent'[j] # "sent" /\ events' = events /\ row'[j].attempts = 0
      BY <2>4, <2>1 DEF JobInv, TypeOK, RecordJob
    <3>. QED
      BY <1>0, <2>1, <2>2, <2>3, <3>1 DEF Story, NotYet, Queued, Told
  <2>5. CASE Dispatch(j)
    <3>1. row' = row /\ sent'[j] \in {"sent", "unsent"}
      BY <2>5 DEF JobInv, TypeOK, Dispatch
    <3>2. \A e \in events' : e.job = j => e.left = MaxTries
      BY <2>5, <2>2 DEF Dispatch
    <3>3. sent'[j] = "sent" => \E e \in events' : e.job = j
      <4>1. SUFFICES ASSUME sent'[j] = "sent" PROVE \E e \in events' : e.job = j
        OBVIOUS
      <4>2. PICK n \in 1 .. MaxCopies :
                events' = events \cup [job : {j}, copy : 1 .. n, left : {MaxTries}]
        BY <2>5, <4>1 DEF JobInv, TypeOK, Dispatch
      <4>3. [job |-> j, copy |-> 1, left |-> MaxTries] \in events'
        BY <4>2
      <4>. QED
        BY <4>3
    <3>4. ~(Quiet(j)' /\ sent'[j] = "sent")
      BY <3>3 DEF Quiet
    <3>. QED
      BY <1>0, <2>1, <2>3, <3>1, <3>2, <3>4 DEF Story, NotYet, Queued, Told
  <2>. QED
    BY <1>2, <2>4, <2>5
<1>. QED
  BY <1>1, <1>2

LEMMA ReceiveTells ==
    ASSUME OutcomeInv, NEW w \in Workers, NEW e \in events, Receive(w, e),
           NEW j \in Jobs, Undisturbed(j)
    PROVE  Story(j)'
<1>. USE DEF OutcomeInv, FinalInv
<1>0. /\ Story(j) /\ MaxCopies = 1 /\ e \in Events /\ e.job \in Jobs /\ ~Busy(w)
      /\ pc' = [pc EXCEPT ![w] = "lookup"] /\ ev' = [ev EXCEPT ![w] = e]
      /\ events' = events \ {e} /\ begun' = [begun EXCEPT ![e.job] = @ + 1]
      /\ UNCHANGED <<sent, row, seen, ok, wins>>
  BY DEF Undisturbed, JobInv, TypeOK, Events, Receive, Goto, Busy
<1>1. CASE e.job # j
  <2>1. begun'[j] = begun[j]
    BY <1>0, <1>1 DEF JobInv, TypeOK
  <2>2. \A f : f.job = j => (f \in events' <=> f \in events)
    BY <1>0, <1>1
  <2>3. \A v \in Workers : (Busy(v) /\ ev[v].job = j) \/ (Busy(v)' /\ ev'[v].job = j)
            => pc'[v] = pc[v] /\ ev'[v] = ev[v]
    BY <1>0, <1>1 DEF JobInv, TypeOK, Busy
  <2>. QED
    BY <1>0, <2>1, <2>2, <2>3, StoryKept
<1>2. CASE e.job = j
  <2>1. /\ row[j].attempts = begun[j] /\ wins[j] = 0 /\ begun[j] + e.left = MaxTries
        /\ begun[j] \in Nat /\ begun'[j] = begun[j] + 1 /\ e.left \in Nat
    BY <1>0, <1>2 DEF JobInv, TypeOK, Story, Queued, Events
  <2>2. \A v \in Workers : Busy(v) => ev[v].job # j
    BY <1>0, <1>2 DEF OneDelivery
  <2>3. Held(j)' = {w}
    BY <1>0, <1>2, <2>2 DEF JobInv, TypeOK, Held, Busy
  <2>4. pc'[w] = "lookup" /\ ev'[w] = e /\ ~ok'[w]
    BY <1>0 DEF JobInv, TypeOK, WinsAreOver, Busy
  <2>5. InHand(j)'
    BY <1>0, <2>1, <2>3, <2>4 DEF InHand
  <2>6. \A f \in events' : f.job # j
    BY <1>0, <1>2 DEF OneDelivery
  <2>7. sent'[j] = "sent" /\ ~Quiet(j)'
    BY <1>0, <1>2, <2>3 DEF OneDelivery, Quiet
  <2>. QED
    BY <2>5, <2>6, <2>7 DEF Story, NotYet, Queued, Told
<1>. QED
  BY <1>1, <1>2

(***************************************************************************)
(* The steps of an invocation before it leaves: each is about the job it   *)
(* holds, and a lost access takes the job out of what is claimed.          *)
(***************************************************************************)
LEMMA WorkTells ==
    ASSUME OutcomeInv, NEW w \in Workers,
           Lookup(w) \/ MarkProcessing(w) \/ (\E b \in BOOLEAN : Run(w, b)) \/ Settle(w),
           NEW j \in Jobs, Undisturbed(j)'
    PROVE  Story(j)'
<1>. USE DEF OutcomeInv, FinalInv
<1>0. /\ MaxCopies = 1 /\ Busy(w)
      /\ sent' = sent /\ events' = events /\ ev' = ev /\ begun' = begun /\ crashed' = crashed
      /\ lost \subseteq lost'
      /\ \A v \in Workers : v # w => pc'[v] = pc[v] /\ seen'[v] = seen[v] /\ ok'[v] = ok[v]
      /\ pc'[w] # "idle"
      /\ \A k \in Jobs : k # ev[w].job => row'[k] = row[k] /\ wins'[k] = wins[k]
  BY DEF Undisturbed, JobInv, TypeOK, Lookup, MarkProcessing, Run, Settle, WriteRow,
     Goto, Busy
<1>1. Story(j)
  BY <1>0 DEF Undisturbed
<1>2. CASE ev[w].job # j
  BY <1>0, <1>1, <1>2, StoryKept DEF Busy
<1>3. CASE ev[w].job = j
  <2>1. /\ Held(j) = {w} /\ sent[j] = "sent" /\ ev[w] \in Events
        /\ \A e \in events : e.job # j
    BY <1>0, <1>3, OnePlace
  <2>2. Held(j)' = {w}
    BY <1>0, <2>1 DEF Held, Busy
  <2>3. /\ begun[j] + ev[w].left = MaxTries + 1
        /\ wins[j] = IF ok[w] THEN 1 ELSE 0
        /\ row[j].attempts + (IF pc[w] \in {"lookup", "mark"} THEN 1 ELSE 0) = begun[j]
        /\ pc[w] = "mark" => seen[w] = row[j].attempts
        /\ pc[w] # "lookup" => seen[w] # NilJob
    BY <1>1, <2>1 DEF Story, InHand
  <2>4. /\ begun[j] \in Nat /\ row[j] \in [status : Statuses, attempts : Nat]
        /\ ok[w] \in BOOLEAN /\ wins[j] \in Nat /\ pc[w] \in PcValues
    BY <1>0, <1>3 DEF JobInv, TypeOK, EventsHaveRows, PcValues
  <2>5. InHand(j)'
    <3>1. CASE Lookup(w)
      <4>1. /\ pc'[w] = "mark" /\ seen'[w] = row[j].attempts
            /\ row' = row /\ ok' = ok /\ wins' = wins /\ pc[w] = "lookup"
        BY <3>1, <1>3 DEF Undisturbed, JobInv, TypeOK, Lookup, Goto
      <4>2. seen'[w] # NilJob
        BY <4>1, <2>4 DEF NilJob
      <4>. QED
        BY <1>0, <2>2, <2>3, <4>1, <4>2 DEF InHand
    <3>2. CASE MarkProcessing(w)
      <4>1. /\ pc'[w] = "run" /\ pc[w] = "mark" /\ seen' = seen /\ ok' = ok /\ wins' = wins
            /\ row'[j].attempts = seen[w] + 1
        BY <3>2, <1>3 DEF Undisturbed, JobInv, TypeOK, MarkProcessing, WriteRow, Goto
      <4>. QED
        BY <1>0, <2>2, <2>3, <2>4, <4>1 DEF InHand
    <3>3. ASSUME NEW b \in BOOLEAN, Run(w, b) PROVE InHand(j)'
      <4>1. /\ pc'[w] = "settle" /\ pc[w] = "run" /\ seen' = seen /\ row' = row
            /\ ok'[w] = b /\ wins'[j] = IF b THEN wins[j] + 1 ELSE wins[j]
        BY <3>3, <1>3 DEF JobInv, TypeOK, Run, Goto
      <4>2. ~ok[w]
        BY <4>1 DEF WinsAreOver
      <4>. QED
        BY <1>0, <2>2, <2>3, <2>4, <4>1, <4>2 DEF InHand
    <3>4. CASE Settle(w)
      <4>1. /\ pc'[w] = "return" /\ pc[w] = "settle" /\ seen' = seen /\ ok' = ok
            /\ wins' = wins
        BY <3>4 DEF JobInv, TypeOK, Settle, Goto
      <4>2. row'[j] = [row[j] EXCEPT !.status = IF ok[w] THEN "completed" ELSE "failed"]
        BY <3>4, <1>3, <2>3, <4>1 DEF Undisturbed, JobInv, TypeOK, Settle, WriteRow
      <4>3. /\ row'[j].attempts = row[j].attempts
            /\ row'[j].status = IF ok[w] THEN "completed" ELSE "failed"
        BY <4>2, <2>4
      <4>. QED
        BY <1>0, <2>2, <2>3, <4>1, <4>3 DEF InHand
    <3>. QED
      BY <3>1, <3>2, <3>3, <3>4
  <2>. QED
    BY <1>0, <2>1, <2>2, <2>5 DEF Story, NotYet, Queued, Told, Quiet
<1>. QED
  BY <1>2, <1>3

(***************************************************************************)
(* The invocation returns: the event is used up, or goes back with one try *)
(* less.                                                                   *)
(***************************************************************************)
LEMMA ReturnTells ==
    ASSUME OutcomeInv, NEW w \in Workers, Return(w), NEW j \in Jobs, Undisturbed(j)
    PROVE  Story(j)'
<1>. USE DEF OutcomeInv, FinalInv
<1>0. /\ Story(j) /\ MaxCopies = 1 /\ Busy(w) /\ pc[w] = "return" /\ pc'[w] = "idle"
      /\ UNCHANGED <<sent, row, begun, wins>>
      /\ events' = IF ok[w] THEN events ELSE events \cup Retry(ev[w])
      /\ \A v \in Workers : v # w => pc'[v] = pc[v] /\ ev'[v] = ev[v] /\ seen'[v] = seen[v]
                                     /\ ok'[v] = ok[v]
  BY DEF Undisturbed, JobInv, TypeOK, Return, Leave, Goto, Busy
<1>1. /\ ev[w] \in Events /\ Held(ev[w].job) = {w} /\ sent[ev[w].job] = "sent"
      /\ \A e \in events : e.job # ev[w].job
  BY <1>0, OnePlace
<1>2. CASE ev[w].job # j
  <2>1. \A e : e.job = j => (e \in events' <=> e \in events)
    BY <1>0, <1>1, <1>2, RetriesAreEvents
  <2>. QED
    BY <1>0, <1>2, <2>1, StoryKept DEF Busy
<1>3. CASE ev[w].job = j
  <2>1. Held(j)' = {}
    BY <1>0, <1>1, <1>3 DEF Held, Busy
  <2>2. /\ begun[j] + ev[w].left = MaxTries + 1
        /\ wins[j] = IF ok[w] THEN 1 ELSE 0
        /\ row[j].attempts = begun[j]
        /\ row[j].status = IF ok[w] THEN "completed" ELSE "failed"
        /\ begun[j] \in Nat /\ ev[w].left \in 1 .. MaxTries
    <3>1. w \in Held(j) /\ row[j].attempts \in Nat /\ begun[j] \in Nat
      BY <1>1, <1>3 DEF JobInv, TypeOK, NoRow
    <3>2. ev[w].left \in 1 .. MaxTries
      BY <1>1 DEF Events
    <3>3. /\ begun[j] + ev[w].left = MaxTries + 1
          /\ wins[j] = IF ok[w] THEN 1 ELSE 0
          /\ row[j].attempts + 0 = begun[j]
          /\ row[j].status = IF ok[w] THEN "completed" ELSE "failed"
      BY <1>0, <3>1 DEF Story, InHand
    <3>. QED
      BY <3>1, <3>2, <3>3
  <2>3. InHand(j)' /\ NotYet(j)'
    BY <1>0, <1>1, <1>3, <2>1 DEF InHand, NotYet
  <2>4. CASE ok[w]
    BY <1>0, <1>1, <1>3, <2>2, <2>3, <2>4 DEF Story, Queued, Told
  <2>5. CASE ~ok[w] /\ ev[w].left = 1
    <3>1. events' = events
      BY <1>0, <2>5 DEF Retry
    <3>. QED
      BY <1>0, <1>1, <1>3, <2>2, <2>3, <2>5, <3>1 DEF Story, Queued, Told
  <2>6. CASE ~ok[w] /\ ev[w].left # 1
    <3>1. events' = events \cup {[ev[w] EXCEPT !.left = @ - 1]}
      BY <1>0, <2>2, <2>6 DEF Retry
    <3>2. [ev[w] EXCEPT !.left = @ - 1].job = j /\
          [ev[w] EXCEPT !.left = @ - 1].left = ev[w].left - 1
      BY <1>1, <1>3 DEF Events
    <3>3. Queued(j)'
      <4>1. \A e \in events' : e.job = j => e.left = ev[w].left - 1
        BY <1>1, <1>3, <3>1, <3>2
      <4>. QED
        BY <1>0, <2>2, <2>6, <4>1 DEF Queued
    <3>4. ~Quiet(j)'
      BY <3>1, <3>2 DEF Quiet
    <3>. QED
      BY <2>3, <3>3, <3>4 DEF Story, Told
  <2>. QED
    BY <2>4, <2>5, <2>6
<1>. QED
  BY <1>2, <1>3

LEMMA OutcomeStep == OutcomeInv /\ [Next]_jobVars => OutcomeInv'
<1>. SUFFICES ASSUME OutcomeInv, [Next]_jobVars PROVE OutcomeInv'
  OBVIOUS
<1>1. CASE Next
  <2>1. FinalInv'
    BY FinalStep DEF OutcomeInv
  <2>2. WinsAreOver'
    BY <1>1, WinsAreOverStep
  <2>3. ASSUME NEW j \in Jobs, Undisturbed(j)' PROVE Story(j)'
    <3>1. crashed \subseteq crashed' /\ lost \subseteq lost'
      BY <1>1 DEF Next, Enqueue, Step, Frame, RecordJob, Dispatch, Receive, Lookup,
         MarkProcessing, Settle, Run, Return, Crash, WriteRow, history
    <3>2. Undisturbed(j)
      BY <2>3, <3>1 DEF Undisturbed
    <3>3. ASSUME NEW w \in Workers, Crash(w) PROVE Story(j)'
      <4>1. ev[w].job # j /\ MaxCopies = 1 /\ Busy(w) /\ Story(j)
        BY <2>3, <3>2, <3>3 DEF Undisturbed, Crash, OutcomeInv
      <4>2. ev[w] \in Events
        BY <4>1, OnePlace
      <4>3. /\ UNCHANGED <<sent, row, begun, wins>> /\ pc'[w] = "idle"
            /\ events' = events \cup Retry(ev[w])
            /\ \A v \in Workers : v # w => pc'[v] = pc[v] /\ ev'[v] = ev[v]
                                           /\ seen'[v] = seen[v] /\ ok'[v] = ok[v]
        BY <3>3 DEF Crash, Leave, Goto, OutcomeInv, FinalInv, JobInv, TypeOK
      <4>4. \A e : e.job = j => (e \in events' <=> e \in events)
        BY <4>1, <4>2, <4>3, RetriesAreEvents
      <4>. QED
        BY <4>1, <4>3, <4>4, StoryKept DEF Busy
    <3>. QED
      BY <1>1, <2>3, <3>2, <3>3, EnqueueTells, ReceiveTells, WorkTells, ReturnTells
         DEF Next, Enqueue, Step, Frame
  <2>. QED
    BY <2>1, <2>2, <2>3 DEF OutcomeInv
<1>2. CASE UNCHANGED jobVars
  BY <1>2, FinalStep DEF jobVars, worker, history, OutcomeInv, WinsAreOver, WinIsOver,
     Undisturbed, Story, NotYet, Queued, InHand, Told, Quiet, Held, Busy
<1>. QED
  BY <1>1, <1>2

(***************************************************************************)
(* Every job with one copy of its event, no death and no lost row access:  *)
(* once it is over its row has counted every delivery, says completed      *)
(* exactly when the one successful run happened, and otherwise every try   *)
(* was used (Worker.Handle around its run, and Lambda's retries).          *)
(***************************************************************************)
THEOREM RowsTellOutcomes == Spec => []RowTellsOutcome
<1>1. OutcomeInv => RowTellsOutcome
  BY DEF OutcomeInv, Story, Told, RowTellsOutcome
<1>. QED
  BY OutcomeInit, OutcomeStep, <1>1, PTL DEF Spec
=============================================================================
