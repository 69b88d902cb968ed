------------------------------ MODULE JobQueue ------------------------------
(***************************************************************************)
(* Background jobs: TaskService.EnqueueTask, the Lambda event queue behind *)
(* LambdaDispatcher, and Worker.Handle.                                    *)
(*                                                                         *)
(* A job is two things that nothing ties together: a row of the jobs table *)
(* and an asynchronous invocation of the worker function.  The row is      *)
(* written first, the invocation is sent next, and the worker writes the   *)
(* row again around each run; every one of those writes is best effort     *)
(* (its error is dropped), the worker can die between any two of them, and *)
(* the event queue delivers at least once, again after every failed or     *)
(* dead invocation.                                                        *)
(*                                                                         *)
(* The run itself (e-mail, reconciliation, auto-link) is one step here;    *)
(* Reconciliation.tla puts its own steps in that place.                    *)
(***************************************************************************)
EXTENDS Integers, FiniteSets

CONSTANTS
    Jobs,       \* job ids (uuid.NewString)
    Workers,    \* worker invocations that can run at the same time
    MaxTries,   \* deliveries of one event: the first and Lambda's retries
    MaxCopies   \* copies of one event the queue may deliver (1: exactly one)

ASSUME WorkersAssumption   == IsFiniteSet(Workers)
ASSUME MaxTriesAssumption  == MaxTries \in Nat \ {0}
ASSUME MaxCopiesAssumption == MaxCopies \in Nat \ {0}

Statuses == {"pending", "processing", "completed", "failed"}
NoRow    == [status |-> "NONE", attempts |-> 0]
Events   == [job : Jobs, copy : 1 .. MaxCopies, left : 1 .. MaxTries]
NoEvent  == [copy |-> 0]
NilJob   == -1      \* markProcessing returned nil: the row was not found

VARIABLES
    sent,       \* per job: new, recorded (row inserted), sent or unsent
    row,        \* the jobs table
    events,     \* undelivered events; `left' counts the tries they have left
    pc,         \* per invocation: idle, lookup, mark, run, settle or return
    ev,         \* the event it is handling
    seen,       \* the attempts it read, or NilJob
    ok,         \* whether its run succeeded
    \* Kept for the properties, read by no guard:
    begun,      \* per job: invocations started
    wins,       \* per job: runs that succeeded
    crashed,    \* jobs one of whose invocations died
    lost        \* jobs one of whose row reads or writes failed

worker  == <<pc, ev, seen, ok>>
history == <<begun, wins, crashed, lost>>
jobVars == <<sent, row, events, worker, history>>

Busy(w)  == pc[w] # "idle"
Held(j)  == {w \in Workers : Busy(w) /\ ev[w].job = j}
Quiet(j) == /\ sent[j] \in {"sent", "unsent"}
            /\ Held(j) = {}
            /\ \A e \in events : e.job # j

-----------------------------------------------------------------------------
JobInit ==
    /\ sent = [j \in Jobs |-> "new"]
    /\ row = [j \in Jobs |-> NoRow]
    /\ events = {}
    /\ pc = [w \in Workers |-> "idle"]
    /\ ev = [w \in Workers |-> NoEvent]
    /\ seen = [w \in Workers |-> NilJob]
    /\ ok = [w \in Workers |-> FALSE]
    /\ begun = [j \in Jobs |-> 0]
    /\ wins = [j \in Jobs |-> 0]
    /\ crashed = {}
    /\ lost = {}

Goto(w, label) == pc' = [pc EXCEPT ![w] = label]

(***************************************************************************)
(* CreateNewJob: the pending row.  When it fails nothing is dispatched and *)
(* the caller only logs the error.                                         *)
(***************************************************************************)
RecordJob(j) ==
    /\ sent[j] = "new"
    /\ \/ /\ row' = [row EXCEPT ![j] = [status |-> "pending", attempts |-> 0]]
          /\ sent' = [sent EXCEPT ![j] = "recorded"]
       \/ /\ sent' = [sent EXCEPT ![j] = "unsent"]
          /\ UNCHANGED row
    /\ UNCHANGED <<events, worker, history>>

\* Mutant of Dispatch: the event is sent before the row is inserted.
DispatchFirst(j) ==
    /\ sent[j] \in {"new", "recorded"}
    /\ \E n \in 1 .. MaxCopies :
          events' = events \cup [job : {j}, copy : 1 .. n, left : {MaxTries}]
    /\ sent' = [sent EXCEPT ![j] = "sent"]
    /\ UNCHANGED <<row, worker, history>>

(***************************************************************************)
(* Dispatch: Invoke with InvocationType Event.  An invocation that was     *)
(* accepted although the caller saw an error is the first case; a refused  *)
(* one, and a process that dies before the call, are the second: the row   *)
(* stays pending and nobody sends it again.                                *)
(***************************************************************************)
Dispatch(j) ==
    /\ sent[j] = "recorded"
    /\ \/ /\ \E n \in 1 .. MaxCopies :
                events' = events \cup [job : {j}, copy : 1 .. n, left : {MaxTries}]
          /\ sent' = [sent EXCEPT ![j] = "sent"]
       \/ /\ sent' = [sent EXCEPT ![j] = "unsent"]
          /\ UNCHANGED events
    /\ UNCHANGED <<row, worker, history>>

-----------------------------------------------------------------------------
\* The queue invokes the worker with event e.
Receive(w, e) ==
    /\ pc[w] = "idle"
    /\ e \in events
    /\ events' = events \ {e}
    /\ ev' = [ev EXCEPT ![w] = e]
    /\ Goto(w, "lookup")
    /\ begun' = [begun EXCEPT ![e.job] = @ + 1]
    /\ UNCHANGED <<sent, row, seen, ok, wins, crashed, lost>>

(***************************************************************************)
(* markProcessing, first half: GetJobById.  When it fails the handler runs *)
(* the job all the same, with a nil row that the later marks ignore.       *)
(***************************************************************************)
Lookup(w) ==
    /\ pc[w] = "lookup"
    /\ \/ /\ row[ev[w].job] # NoRow
          /\ seen' = [seen EXCEPT ![w] = row[ev[w].job].attempts]
          /\ Goto(w, "mark")
          /\ UNCHANGED lost
       \/ /\ seen' = [seen EXCEPT ![w] = NilJob]
          /\ Goto(w, "run")
          /\ lost' = lost \cup {ev[w].job}
    /\ UNCHANGED <<sent, row, events, ev, ok, begun, wins, crashed>>

\* A write of the job's row, or its silent failure.
WriteRow(w, r) ==
    \/ /\ row' = [row EXCEPT ![ev[w].job] = r]
       /\ UNCHANGED lost
    \/ /\ lost' = lost \cup {ev[w].job}
       /\ UNCHANGED row

\* Mutant of MarkProcessing: the attempt is counted on the fresh row, twice.
MarkCountsTwice(w) ==
    /\ pc[w] = "mark"
    /\ WriteRow(w, [status |-> "processing", attempts |-> row[ev[w].job].attempts + 2])
    /\ Goto(w, "run")
    /\ UNCHANGED <<sent, events, ev, seen, ok, begun, wins, crashed>>

\* markProcessing, second half: processing and the attempts read plus one.
MarkProcessing(w) ==
    /\ pc[w] = "mark"
    /\ WriteRow(w, [status |-> "processing", attempts |-> seen[w] + 1])
    /\ Goto(w, "run")
    /\ UNCHANGED <<sent, events, ev, seen, ok, begun, wins, crashed>>

\* The run returns: nil (b) or an error.
Run(w, b) ==
    /\ pc[w] = "run"
    /\ ok' = [ok EXCEPT ![w] = b]
    /\ wins' = IF b THEN [wins EXCEPT ![ev[w].job] = @ + 1] ELSE wins
    /\ Goto(w, "settle")
    /\ UNCHANGED <<sent, row, events, ev, seen, begun, crashed, lost>>

\* Mutant of Settle: only successes are written back.
SettleSuccessOnly(w) ==
    /\ pc[w] = "settle"
    /\ IF ~ok[w]
       THEN UNCHANGED <<row, lost>>
       ELSE WriteRow(w, [row[ev[w].job] EXCEPT !.status = "completed"])
    /\ Goto(w, "return")
    /\ UNCHANGED <<sent, events, ev, seen, ok, begun, wins, crashed>>

\* markCompleted or markFailed: the status only; a nil row is left alone.
Settle(w) ==
    /\ pc[w] = "settle"
    /\ IF seen[w] = NilJob
       THEN UNCHANGED <<row, lost>>
       ELSE WriteRow(w, [row[ev[w].job] EXCEPT
                            !.status = IF ok[w] THEN "completed" ELSE "failed"])
    /\ Goto(w, "return")
    /\ UNCHANGED <<sent, events, ev, seen, ok, begun, wins, crashed>>

\* What the queue does with an event whose invocation did not succeed.
Retry(e) == IF e.left > 1 THEN {[e EXCEPT !.left = @ - 1]} ELSE {}

Leave(w) ==
    /\ Goto(w, "idle")
    /\ ev' = [ev EXCEPT ![w] = NoEvent]
    /\ seen' = [seen EXCEPT ![w] = NilJob]
    /\ ok' = [ok EXCEPT ![w] = FALSE]

\* Mutant of Return: the handler returns the error of what follows the mark
\* (the auto-link after a reconciliation), so a finished job comes back.
ReturnRedelivers(w) ==
    /\ pc[w] = "return"
    /\ events' = events \cup Retry(ev[w])
    /\ Leave(w)
    /\ UNCHANGED <<sent, row, begun, wins, crashed, lost>>

\* The handler returns: nil uses the event up, an error sends it back.
Return(w) ==
    /\ pc[w] = "return"
    /\ events' = IF ok[w] THEN events ELSE events \cup Retry(ev[w])
    /\ Leave(w)
    /\ UNCHANGED <<sent, row, begun, wins, crashed, lost>>

\* The invocation times out or dies, wherever it is.
Crash(w) ==
    /\ Busy(w)
    /\ events' = events \cup Retry(ev[w])
    /\ crashed' = crashed \cup {ev[w].job}
    /\ Leave(w)
    /\ UNCHANGED <<sent, row, begun, wins, lost>>

-----------------------------------------------------------------------------
Enqueue == \E j \in Jobs : RecordJob(j) \/ Dispatch(j)

\* What an invocation does around its run.
Frame(w) ==
    \/ \E e \in events : Receive(w, e)
    \/ Lookup(w)
    \/ MarkProcessing(w)
    \/ Settle(w)
    \/ Return(w)

Step(w) == Frame(w) \/ \E b \in BOOLEAN : Run(w, b)

Next == Enqueue \/ \E w \in Workers : Step(w) \/ Crash(w)

Spec == JobInit /\ [][Next]_jobVars
-----------------------------------------------------------------------------
TypeOK ==
    /\ sent \in [Jobs -> {"new", "recorded", "sent", "unsent"}]
    /\ row \in [Jobs -> [status : Statuses, attempts : Nat] \cup {NoRow}]
    /\ events \subseteq Events
    /\ pc \in [Workers -> {"idle", "lookup", "mark", "run", "settle", "return"}]
    /\ ev \in [Workers -> Events \cup {NoEvent}]
    /\ \A w \in Workers : Busy(w) => ev[w] \in Events
    /\ seen \in [Workers -> Nat \cup {NilJob}]
    /\ ok \in [Workers -> BOOLEAN]
    /\ begun \in [Jobs -> Nat]
    /\ wins \in [Jobs -> Nat]
    /\ crashed \subseteq Jobs
    /\ lost \subseteq Jobs

(***************************************************************************)
(* An event never outruns its row: whatever is queued or being handled has *)
(* a row to look up, so "job not found in DB" can only be a failed read.   *)
(***************************************************************************)
EventsHaveRows ==
    /\ \A e \in events : row[e.job] # NoRow
    /\ \A w \in Workers : Busy(w) => row[ev[w].job] # NoRow

(***************************************************************************)
(* A row says completed only if a run of that job really succeeded,        *)
(* whatever crashed, was lost or was delivered twice.                      *)
(***************************************************************************)
CompletedMeansRan ==
    \A j \in Jobs : row[j].status = "completed" => wins[j] > 0

(***************************************************************************)
(* attempts is read in one statement and written back in another: two      *)
(* deliveries at once can lose a count, but it never claims an attempt     *)
(* that was not made.                                                      *)
(***************************************************************************)
AttemptsNeverOverstate == \A j \in Jobs : row[j].attempts <= begun[j]

(***************************************************************************)
(* A row can be behind what happened to its job, never ahead of it.        *)
(***************************************************************************)
RowNeverOverclaims == CompletedMeansRan /\ AttemptsNeverOverstate

-----------------------------------------------------------------------------
(***************************************************************************)
(* The inductive invariant of the four invariants above.                   *)
(***************************************************************************)
RowRecorded == \A j \in Jobs : sent[j] = "recorded" => row[j] # NoRow

OkMeansWon == \A w \in Workers : ok[w] => Busy(w) /\ wins[ev[w].job] > 0

\* The invocations that have begun and not yet counted their attempt.
Counting(j) == {w \in Workers : pc[w] \in {"lookup", "mark"} /\ ev[w].job = j}

\* An attempt that is still to be counted was begun, whatever was read when.
AttemptsBounded ==
    \A j \in Jobs :
       /\ row[j].attempts + Cardinality(Counting(j)) <= begun[j]
       /\ \A w \in Counting(j) : pc[w] = "mark" =>
             seen[w] \in Nat /\ seen[w] + Cardinality(Counting(j)) <= begun[j]

JobInv == /\ TypeOK
          /\ RowRecorded
          /\ EventsHaveRows
          /\ OkMeansWon
          /\ CompletedMeansRan
          /\ AttemptsBounded

(***************************************************************************)
(* What makes completed final: one event is in one place, and the event of *)
(* a completed job is nowhere but in the invocation about to return.       *)
(***************************************************************************)
OneDelivery ==
    MaxCopies = 1 =>
        /\ \A e, f \in events : e.job = f.job => e = f
        /\ \A e \in events, w \in Workers : Busy(w) => ev[w].job # e.job
        /\ \A w, v \in Workers : Busy(w) /\ Busy(v) /\ ev[w].job = ev[v].job => w = v
        /\ \A e \in events : sent[e.job] = "sent"
        /\ \A w \in Workers : Busy(w) => sent[ev[w].job] = "sent"

Over(j) == /\ \A e \in events : e.job # j
           /\ \A w \in Held(j) : pc[w] = "return" /\ ok[w]

CompletedIsOver ==
    \A j \in Jobs :
        /\ sent[j] = "new" => row[j] = NoRow
        /\ MaxCopies = 1 /\ row[j].status = "completed" =>
              sent[j] = "sent" /\ (j \notin crashed => Over(j))

FinalInv == JobInv /\ OneDelivery /\ CompletedIsOver

-----------------------------------------------------------------------------
Undisturbed(j) == MaxCopies = 1 /\ j \notin crashed \cup lost

(***************************************************************************)
(* With one copy of the event and nothing lost, the row of a job that is   *)
(* over is the true story: as many attempts as deliveries, completed if a  *)
(* run succeeded, and failed only once every try was used.                 *)
(***************************************************************************)
RowTellsOutcome ==
    \A j \in Jobs : Undisturbed(j) /\ Quiet(j) /\ sent[j] = "sent" =>
        /\ row[j].attempts = begun[j]
        /\ row[j].status = IF wins[j] > 0 THEN "completed" ELSE "failed"
        /\ wins[j] <= 1
        /\ wins[j] = 0 => begun[j] = MaxTries

(***************************************************************************)
(* completed is final as long as the event has one copy and no invocation  *)
(* of the job dies: without an end of the handler other than its return,   *)
(* nothing delivers the event of a finished job again.                     *)
(***************************************************************************)
CompletedIsFinal ==
    [][\A j \in Jobs :
          row[j].status = "completed" /\ MaxCopies = 1 /\ j \notin crashed
             => row'[j].status = "completed"]_jobVars
=============================================================================
