--------------------------- MODULE SagaOrchestrator ---------------------------
(***************************************************************************)
(* services/ai-pipeline/saga_orchestrator.py: the multi-step SME task      *)
(* runner of one call.  A saga is a list of numbered steps; consecutive    *)
(* steps flagged parallel form one batch.  run_saga executes the batches   *)
(* in order, persists each result and a mark per completed step in Redis,  *)
(* applies the compensation strategy of a step that failed, and after a    *)
(* crash takes the marked steps as done.                                   *)
(*                                                                         *)
(* Each element of Runs is one call of run_saga for the same CID: the      *)
(* first one, and those of the POST /session/{cid}/autonomous requests     *)
(* that follow (main.py spawns a Master Worker for each, without looking   *)
(* for one already there).  Memory belongs to a run, Redis to them all.    *)
(* A step of the model is the code between two awaits.                     *)
(***************************************************************************)
EXTENDS Integers

CONSTANTS
  NSteps,       \* number of SME steps of the saga
  Parallel,     \* the steps flagged parallel=True
  Domains,      \* SME domains
  Domain,       \* sme_domain of each step
  Strategy,     \* compensation_strategy of each step
  RetryCount,   \* retry_count of each step
  Runs,         \* the calls of run_saga for this CID
  OneAtATime,   \* TRUE: a run starts only when no other is in progress
  OutlivesTTL   \* TRUE: the saga may outlive SAGA_STATE_TTL

Steps == 1..NSteps
Strategies == {"rollback", "skip", "halt", "retry"}

ASSUME SagaAssumption ==
  /\ NSteps \in Nat \ {0}
  /\ Parallel \subseteq Steps
  /\ Domain \in [Steps -> Domains]
  /\ Strategy \in [Steps -> Strategies]
  /\ RetryCount \in [Steps -> Nat]
  /\ OneAtATime \in BOOLEAN
  /\ OutlivesTTL \in BOOLEAN

(* Two SME steps of one saga never write the same sme_results key. *)
DistinctDomains == \A s, t \in Steps : Domain[s] = Domain[t] => s = t

-----------------------------------------------------------------------------
(* A persisted StepResult.  NoResult is an absent Redis key. *)
NoResult == [step |-> 0, status |-> "absent"]
StepResult == [step : Steps, status : {"completed", "failed", "rolled_back"}]

VARIABLES
  \* Redis
  marks,        \* saga_completed_steps
  results,      \* sme_results, by domain
  \* memory of a run
  pc,           \* where the run awaits
  loaded,       \* completed_indices, read when the run starts
  cursor,       \* first step of the batch in progress
  todo,         \* steps of the batch the current loop has still to visit
  task,         \* state of the step's _execute_step coroutine
  tries,        \* failed attempts of the step
  snapshot,     \* value _mark_step_completed read and has not written back
  completed,    \* result.completed_steps
  failed,       \* result.failed_steps
  skipped,      \* result.skipped_steps
  status,       \* result.status
  \* history
  succeeded     \* the runs in which the step's execute_fn returned

redis == <<marks, results>>
lists == <<completed, failed, skipped>>
tasks == <<task, tries>>
vars == <<marks, results, pc, loaded, cursor, todo, task, tries, snapshot,
          completed, failed, skipped, status, succeeded>>

-----------------------------------------------------------------------------
(* _group_steps: the batch of a step is the step alone, or the maximal     *)
(* stretch of consecutive parallel steps around it.                        *)
Between(s, t) == {u \in Steps : (s <= u /\ u <= t) \/ (t <= u /\ u <= s)}
Batch(s) == {t \in Steps : t = s \/ Between(s, t) \subseteq Parallel}

(* The loops over a batch visit its steps in order. *)
IsNext(s, set) == s \in set /\ \A t \in set : s <= t

(* Where the loop over the batches goes after the batch in progress: the   *)
(* first step behind it, or NSteps + 1 when there is none.                 *)
Follows(n, r) ==
  /\ n > cursor[r]
  /\ \A t \in Steps : (cursor[r] <= t /\ t < n) <=> t \in Batch(cursor[r])

InProgress(r) == pc[r] \notin {"idle", "done", "dead"}

TypeOK ==
  /\ marks \subseteq Steps
  /\ results \in [Domains -> StepResult \cup {NoResult}]
  /\ pc \in [Runs -> {"idle", "visit", "gather", "save", "mark_get",
                      "mark_set", "report", "done", "dead"}]
  /\ loaded \in [Runs -> SUBSET Steps]
  /\ cursor \in [Runs -> 1..(NSteps + 1)]
  /\ todo \in [Runs -> SUBSET Steps]
  /\ task \in [Runs -> [Steps -> {"none", "queued", "completed", "failed"}]]
  /\ tries \in [Runs -> [Steps -> Nat]]
  /\ snapshot \in [Runs -> SUBSET Steps]
  /\ completed \in [Runs -> SUBSET StepResult]
  /\ failed \in [Runs -> SUBSET Steps]
  /\ skipped \in [Runs -> SUBSET Steps]
  /\ status \in [Runs -> {"none", "completed", "partially_completed", "halted"}]
  /\ succeeded \in [Steps -> SUBSET Runs]

Init ==
  /\ marks = {}
  /\ results = [d \in Domains |-> NoResult]
  /\ pc = [r \in Runs |-> "idle"]
  /\ loaded = [r \in Runs |-> {}]
  /\ cursor = [r \in Runs |-> 1]
  /\ todo = [r \in Runs |-> {}]
  /\ task = [r \in Runs |-> [s \in Steps |-> "none"]]
  /\ tries = [r \in Runs |-> [s \in Steps |-> 0]]
  /\ snapshot = [r \in Runs |-> {}]
  /\ completed = [r \in Runs |-> {}]
  /\ failed = [r \in Runs |-> {}]
  /\ skipped = [r \in Runs |-> {}]
  /\ status = [r \in Runs |-> "none"]
  /\ succeeded = [s \in Steps |-> {}]

-----------------------------------------------------------------------------
(* Mutant of Start: nothing is loaded at all. *)
StartAnew(r) ==
  /\ pc[r] = "idle"
  /\ OneAtATime => \A q \in Runs : ~InProgress(q)
  /\ todo' = [todo EXCEPT ![r] = Batch(1)]
  /\ pc' = [pc EXCEPT ![r] = "visit"]
  /\ UNCHANGED <<redis, loaded, cursor, tasks, snapshot, lists, status, succeeded>>

(* run_saga begins: _load_completed_indices, then the first batch. *)
Start(r) ==
  /\ pc[r] = "idle"
  /\ OneAtATime => \A q \in Runs : ~InProgress(q)
  /\ loaded' = [loaded EXCEPT ![r] = marks]
  /\ todo' = [todo EXCEPT ![r] = Batch(1)]
  /\ pc' = [pc EXCEPT ![r] = "visit"]
  /\ UNCHANGED <<marks, results, cursor, task, tries, snapshot, lists, status,
                 succeeded>>

(* The first loop over a batch meets a step this run found marked: the     *)
(* persisted result, when the key is still there, joins completed_steps.   *)
Resume(r, s) ==
  /\ pc[r] = "visit"
  /\ IsNext(s, todo[r])
  /\ s \in loaded[r]
  /\ todo' = [todo EXCEPT ![r] = @ \ {s}]
  /\ completed' = [completed EXCEPT ![r] = @ \cup ({results[Domain[s]]} \ {NoResult})]
  /\ UNCHANGED <<redis, pc, loaded, cursor, tasks, snapshot, failed, skipped,
                 status, succeeded>>

(* ... or a step that is not: its coroutine will run.  With retry_count 0  *)
(* the loop over the attempts is empty and the step fails at once.         *)
Queue(r, s) ==
  /\ pc[r] = "visit"
  /\ IsNext(s, todo[r])
  /\ s \notin loaded[r]
  /\ todo' = [todo EXCEPT ![r] = @ \ {s}]
  /\ task' = [task EXCEPT ![r][s] = IF RetryCount[s] = 0 THEN "failed" ELSE "queued"]
  /\ UNCHANGED <<redis, pc, loaded, cursor, tries, snapshot, lists, status,
                 succeeded>>

(* The batch was visited: run what was queued, or go to the next batch. *)
Launched(r) == {s \in Batch(cursor[r]) : task[r][s] # "none"}

Gather(r) ==
  /\ pc[r] = "visit"
  /\ todo[r] = {}
  /\ Launched(r) # {}
  /\ pc' = [pc EXCEPT ![r] = "gather"]
  /\ UNCHANGED <<redis, loaded, cursor, todo, tasks, snapshot, lists, status,
                 succeeded>>

(* The loop over the batches goes on, or ends and the saga is reported. *)
Advance(r) ==
  \E n \in 2..(NSteps + 1) :
    /\ Follows(n, r)
    /\ cursor' = [cursor EXCEPT ![r] = n]
    /\ todo' = [todo EXCEPT ![r] = IF n \in Steps THEN Batch(n) ELSE {}]
    /\ pc' = [pc EXCEPT ![r] = IF n \in Steps THEN "visit" ELSE "report"]

NextBatch(r) ==
  /\ pc[r] = "visit"
  /\ todo[r] = {}
  /\ Launched(r) = {}
  /\ Advance(r)
  /\ UNCHANGED <<redis, loaded, tasks, snapshot, lists, status, succeeded>>

-----------------------------------------------------------------------------
(* _execute_step: an attempt returns ... *)
AttemptReturns(r, s) ==
  /\ pc[r] = "gather"
  /\ task[r][s] = "queued"
  /\ task' = [task EXCEPT ![r][s] = "completed"]
  /\ succeeded' = [succeeded EXCEPT ![s] = @ \cup {r}]
  /\ UNCHANGED <<redis, pc, loaded, cursor, todo, tries, snapshot, lists, status>>

(* ... or raises: the next one follows until retry_count are used up. *)
AttemptRaises(r, s) ==
  /\ pc[r] = "gather"
  /\ task[r][s] = "queued"
  /\ tries' = [tries EXCEPT ![r][s] = @ + 1]
  /\ task' = [task EXCEPT ![r][s] =
                IF tries[r][s] + 1 = RetryCount[s] THEN "failed" ELSE "queued"]
  /\ UNCHANGED <<redis, pc, loaded, cursor, todo, snapshot, lists, status, succeeded>>

(* Mutant of Gathered: it waits for the resumed steps as well. *)
GatheredAll(r) ==
  /\ pc[r] = "gather"
  /\ \A s \in Batch(cursor[r]) : task[r][s] \in {"completed", "failed"}
  /\ todo' = [todo EXCEPT ![r] = Launched(r)]
  /\ pc' = [pc EXCEPT ![r] = "save"]
  /\ UNCHANGED <<redis, loaded, cursor, tasks, snapshot, lists, status, succeeded>>

(* asyncio.gather: every coroutine of the batch has returned. *)
Gathered(r) ==
  /\ pc[r] = "gather"
  /\ \A s \in Launched(r) : task[r][s] # "queued"
  /\ todo' = [todo EXCEPT ![r] = Launched(r)]
  /\ pc' = [pc EXCEPT ![r] = "save"]
  /\ UNCHANGED <<redis, loaded, cursor, tasks, snapshot, lists, status, succeeded>>

-----------------------------------------------------------------------------
(* The second loop over the batch persists the result of its next step. *)
Persist(r, s) ==
  /\ pc[r] = "save"
  /\ IsNext(s, todo[r])
  /\ results' = [results EXCEPT ![Domain[s]] = [step |-> s, status |-> task[r][s]]]

(* The loop is through with s: the next result, or the next batch. *)
Handled(r, s) ==
  \/ /\ todo[r] # {s}
     /\ todo' = [todo EXCEPT ![r] = @ \ {s}]
     /\ pc' = [pc EXCEPT ![r] = "save"]
     /\ cursor' = cursor
  \/ /\ todo[r] = {s}
     /\ Advance(r)

SaveCompleted(r, s) ==
  /\ task[r][s] = "completed"
  /\ Persist(r, s)
  /\ completed' = [completed EXCEPT ![r] = @ \cup {[step |-> s, status |-> "completed"]}]
  /\ pc' = [pc EXCEPT ![r] = "mark_get"]
  /\ UNCHANGED <<marks, loaded, cursor, todo, tasks, snapshot, failed, skipped,
                 status, succeeded>>

(* _mark_step_completed reads the set and writes it back with the step. *)
MarkGet(r, s) ==
  /\ pc[r] = "mark_get"
  /\ IsNext(s, todo[r])
  /\ snapshot' = [snapshot EXCEPT ![r] = marks]
  /\ pc' = [pc EXCEPT ![r] = "mark_set"]
  /\ UNCHANGED <<redis, loaded, cursor, todo, tasks, lists, status, succeeded>>

\* Mutant of MarkSet: the step is written without the ones read before.
MarkSetAlone(r, s) ==
  /\ pc[r] = "mark_set"
  /\ IsNext(s, todo[r])
  /\ marks' = {s}
  /\ Handled(r, s)
  /\ UNCHANGED <<results, loaded, tasks, snapshot, lists, status, succeeded>>

MarkSet(r, s) ==
  /\ pc[r] = "mark_set"
  /\ IsNext(s, todo[r])
  /\ marks' = snapshot[r] \cup {s}
  /\ Handled(r, s)
  /\ UNCHANGED <<results, loaded, tasks, snapshot, lists, status, succeeded>>

(* _compensate, strategy skip: the saga goes on without the step. *)
SaveSkipped(r, s) ==
  /\ task[r][s] = "failed"
  /\ Strategy[s] = "skip"
  /\ Persist(r, s)
  /\ skipped' = [skipped EXCEPT ![r] = @ \cup {s}]
  /\ Handled(r, s)
  /\ UNCHANGED <<marks, loaded, tasks, snapshot, completed, failed, status, succeeded>>

(* _compensate, every other strategy: the saga halts, and the results of   *)
(* the batch not yet visited are dropped.  For rollback _rollback_completed *)
(* relabels the in-memory results; it calls no rollback_fn and leaves      *)
(* Redis alone.                                                            *)
RollbackCompleted(r) == {[step |-> e.step, status |-> "rolled_back"] : e \in completed[r]}

\* Mutant of SaveHalting: only the loop over the batch is left, not the one
\* over the batches.
SaveFailed(r, s) ==
  /\ task[r][s] = "failed"
  /\ Strategy[s] # "skip"
  /\ Persist(r, s)
  /\ failed' = [failed EXCEPT ![r] = @ \cup {s}]
  /\ completed' = [completed EXCEPT ![r] =
                     IF Strategy[s] = "rollback" THEN RollbackCompleted(r) ELSE @]
  /\ Advance(r)
  /\ UNCHANGED <<marks, loaded, tasks, snapshot, skipped, status, succeeded>>

SaveHalting(r, s) ==
  /\ task[r][s] = "failed"
  /\ Strategy[s] # "skip"
  /\ Persist(r, s)
  /\ failed' = [failed EXCEPT ![r] = @ \cup {s}]
  /\ completed' = [completed EXCEPT ![r] =
                     IF Strategy[s] = "rollback" THEN RollbackCompleted(r) ELSE @]
  /\ status' = [status EXCEPT ![r] = "halted"]
  /\ todo' = [todo EXCEPT ![r] = {}]
  /\ pc' = [pc EXCEPT ![r] = "report"]
  /\ UNCHANGED <<marks, loaded, cursor, tasks, snapshot, skipped, succeeded>>

-----------------------------------------------------------------------------
(* Mutant of ReportCompleted: a skipped step does not count against it.    *)
ReportUnlessFailed(r) ==
  /\ pc[r] = "report"
  /\ status[r] # "halted"
  /\ failed[r] = {}
  /\ status' = [status EXCEPT ![r] = "completed"]
  /\ marks' = {}
  /\ pc' = [pc EXCEPT ![r] = "done"]
  /\ UNCHANGED <<results, loaded, cursor, todo, tasks, snapshot, lists, succeeded>>

(* The end of run_saga: a completed saga deletes its marks ... *)
ReportCompleted(r) ==
  /\ pc[r] = "report"
  /\ status[r] # "halted"
  /\ failed[r] \cup skipped[r] = {}
  /\ status' = [status EXCEPT ![r] = "completed"]
  /\ marks' = {}
  /\ pc' = [pc EXCEPT ![r] = "done"]
  /\ UNCHANGED <<results, loaded, cursor, todo, tasks, snapshot, lists, succeeded>>

(* Mutant of ReportIncomplete: the marks are cleared whatever the status.  *)
ReportAndClear(r) ==
  /\ pc[r] = "report"
  /\ status[r] = "halted" \/ failed[r] \cup skipped[r] # {}
  /\ status' = [status EXCEPT ![r] = IF @ = "halted" THEN @ ELSE "partially_completed"]
  /\ marks' = {}
  /\ pc' = [pc EXCEPT ![r] = "done"]
  /\ UNCHANGED <<results, loaded, cursor, todo, tasks, snapshot, lists, succeeded>>

(* ... any other leaves them for the next run. *)
ReportIncomplete(r) ==
  /\ pc[r] = "report"
  /\ status[r] = "halted" \/ failed[r] \cup skipped[r] # {}
  /\ status' = [status EXCEPT ![r] = IF @ = "halted" THEN @ ELSE "partially_completed"]
  /\ pc' = [pc EXCEPT ![r] = "done"]
  /\ UNCHANGED <<redis, loaded, cursor, todo, tasks, snapshot, lists, succeeded>>

(* The process dies, the session task is cancelled or a Redis call raises: *)
(* what the run holds in memory is gone.                                   *)
Die(r) ==
  /\ InProgress(r)
  /\ pc' = [pc EXCEPT ![r] = "dead"]
  /\ UNCHANGED <<redis, loaded, cursor, todo, tasks, snapshot, lists, status,
                 succeeded>>

(* SAGA_STATE_TTL passes since a key was last written. *)
ExpireResult(d) ==
  /\ OutlivesTTL
  /\ results[d] # NoResult
  /\ results' = [results EXCEPT ![d] = NoResult]
  /\ UNCHANGED <<marks, pc, loaded, cursor, todo, tasks, snapshot, lists, status,
                 succeeded>>

ExpireMarks ==
  /\ OutlivesTTL
  /\ marks # {}
  /\ marks' = {}
  /\ UNCHANGED <<results, pc, loaded, cursor, todo, tasks, snapshot, lists, status,
                 succeeded>>

-----------------------------------------------------------------------------
RunStep(r) ==
  \/ Gather(r)
  \/ NextBatch(r)
  \/ Gathered(r)
  \/ ReportCompleted(r)
  \/ ReportIncomplete(r)
  \/ \E s \in Steps :
       \/ Resume(r, s)
       \/ Queue(r, s)
       \/ AttemptReturns(r, s)
       \/ AttemptRaises(r, s)
       \/ SaveCompleted(r, s)
       \/ MarkGet(r, s)
       \/ MarkSet(r, s)
       \/ SaveSkipped(r, s)
       \/ SaveHalting(r, s)

Next ==
  \/ \E r \in Runs : Start(r) \/ RunStep(r) \/ Die(r)
  \/ \E d \in Domains : ExpireResult(d)
  \/ ExpireMarks

Spec == Init /\ [][Next]_vars

(* The event loop resumes a run whose await is over, and every await of a  *)
(* run is bounded: Redis calls, and attempts that end by result, exception *)
(* or timeout.  Nothing obliges anybody to start a run, or a run to die.   *)
FairSpec == Spec /\ \A r \in Runs : WF_vars(RunStep(r))

-----------------------------------------------------------------------------
(* What a mark in Redis stands for: the step did succeed in some run, and  *)
(* the result a resumed run will read for it is that success or is gone    *)
(* with its TTL, never the failure of a later attempt.                     *)
MarkedIsBacked ==
  \A s \in marks :
    /\ succeeded[s] # {}
    /\ results[Domain[s]] \in {NoResult, [step |-> s, status |-> "completed"]}

(* completed_steps, from this run or taken over from Redis, lists only     *)
(* steps whose execute_fn did return.                                      *)
ReportsOnlySuccesses ==
  \A r \in Runs : \A e \in completed[r] :
    e.status # "failed" /\ succeeded[e.step] # {}

(* A step runs only after every step of the batches before it has          *)
(* succeeded, in this run or in one it resumes, or was skipped in this run. *)
BatchesInOrder ==
  \A r \in Runs : InProgress(r) =>
    \A s \in Launched(r) : \A t \in Steps :
      t < s /\ t \notin Batch(s) => succeeded[t] # {} \/ t \in skipped[r]

(* A run that halted on a step has run nothing behind that step's batch.   *)
HaltStopsTheSaga ==
  \A r \in Runs : \A s \in failed[r] : \A t \in Steps :
    t > s /\ t \notin Batch(s) => r \notin succeeded[t]

(* A saga is reported completed only when every step has succeeded.        *)
CompletedMeansAll ==
  \A r \in Runs : status[r] = "completed" => \A s \in Steps : succeeded[s] # {}

(* A crash costs at most the batch in progress: what a run has done before *)
(* is marked, and the next run does not repeat it.                         *)
OneBatchAtRisk ==
  \A r \in Runs : InProgress(r) =>
    \A s \in Steps : r \in succeeded[s] => s \in marks \cup Batch(cursor[r])

(* No run executes a step that is marked completed in Redis.               *)
NeverRunsMarked ==
  [][\A r \in Runs, s \in Steps :
       task'[r][s] # task[r][s] => s \notin marks]_vars

(* A run that was started ends, if nothing kills it. *)
RunEnds == \A r \in Runs : InProgress(r) ~> ~InProgress(r)

(* The run implements the abstract workflow: marks are the durable steps,  *)
(* skips the waived ones.  Holds of runs that do not overlap and do not    *)
(* outlive the TTL of the marks.                                           *)
EarlierBatch(t, s) == t < s /\ t \notin Batch(s)
Workflow == INSTANCE ResumableWorkflow WITH
  Items <- Steps, Runs <- Runs, Earlier <- EarlierBatch,
  durable <- marks, waived <- skipped, outcome <- status
ImplementsWorkflow == Workflow!WSpec

(* saga_orchestrator.py l.8: each step result is persisted.  A run that    *)
(* ended with the saga unfinished has marked every step it completed.      *)
(* Does not hold of a parallel batch whose earlier step halts the saga.    *)
NoResultLost ==
  \A r \in Runs : pc[r] = "done" /\ status[r] # "completed" =>
    \A s \in Steps : r \in succeeded[s] => s \in marks
=============================================================================
