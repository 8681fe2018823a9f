----------------------------- MODULE MasterWorker -----------------------------
(***************************************************************************)
(* services/ai-pipeline/master_worker.py with auth_policy.py: the runs of  *)
(* run_autonomous_session for one CID.  A run captures the intent, or      *)
(* finds it saved by a run that crashed, authenticates the caller, checks  *)
(* eligibility and dues, has dues paid, puts the caller on hold while the  *)
(* SME tasks run as a saga, and answers.                                   *)
(*                                                                         *)
(* The saga is run_saga of saga_orchestrator.py as far as the master sees  *)
(* it: the steps are one parallel batch, or each a batch of its own, their *)
(* marks are read at once, and a result is saved with its mark.  See       *)
(* SagaOrchestrator for the rest.  A step is _execute_sme_with_hitl, whose *)
(* gates are the subject of HitlApproval and PaymentGateway.  The hold is  *)
(* the progress tracker's.  An intent is the list of its domains.          *)
(***************************************************************************)
EXTENDS ProgressTracker

CONSTANTS
  Intents,      \* what the LLM may make of the caller's words
  NoIntent,     \* no intent captured or saved
  Parallel,     \* TRUE: every step is parallel; FALSE: none is
  RetryCount,   \* attempts of a step
  OneAtATime    \* TRUE: a run starts only when no other is in progress

ASSUME MasterAssumption ==
  /\ Intents \subseteq Seq(Domains)
  /\ NoIntent \notin Intents
  /\ RetryCount \in Nat
  /\ Parallel \in BOOLEAN
  /\ OneAtATime \in BOOLEAN

VARIABLES
  \* Redis
  saved,        \* caller_intent and required_domains of saga_state
  marks,        \* saga_completed_steps
  \* the tenant's billing system
  owed,         \* the caller has an outstanding balance
  \* memory of a run
  pc,           \* where the run awaits
  plan,         \* required_domains
  step,         \* where the coroutine of a step awaits
  tries,        \* failed attempts of a step
  snapshot,     \* completed_tasks update_progress read and has not written
  status,       \* saga_result.status
  waiting,      \* the task stop_hold awaits
  raised,       \* run_saga raised
  \* history
  succeeded,    \* domains an SME task of which passed its gates
  intentLost    \* an intent could not be saved, or it expired

redis == <<saved, marks>>
coroutines == <<step, tries, snapshot>>
saga == <<coroutines, status>>
history == <<succeeded, intentLost>>
locals == <<plan, saga, waiting, raised>>
vars == <<trackerVars, redis, owed, pc, locals, history>>

-----------------------------------------------------------------------------
InProgress(m) == pc[m] \notin {"idle", "ended"}

Stages == {"idle", "load", "intent", "save", "auth", "hangup", "eligibility", "dues",
           "pay", "delegate", "moh", "opening", "load_marks", "saga", "await",
           "unmoh", "unhold", "consolidate", "error", "handoff", "ended"}

StepStates == {"idle", "sme", "progress", "gate", "ok", "failed", "done", "skipped"}
Active == {"sme", "progress", "gate"}
Over == {"done", "skipped"}

StepsOf(m) == IF plan[m] = NoIntent THEN {} ELSE DOMAIN plan[m]
NoSteps == [i \in {} |-> {}]

StepsTypeOK(m) ==
  /\ plan[m] # NoIntent
  /\ step[m] \in [StepsOf(m) -> StepStates]
  /\ tries[m] \in [StepsOf(m) -> 0..RetryCount]
  /\ snapshot[m] \in [StepsOf(m) -> SUBSET Domains]

TypeOK ==
  /\ TrackerTypeOK
  /\ saved \in Intents \cup {NoIntent}
  /\ marks \subseteq Nat
  /\ owed \in BOOLEAN
  /\ pc \in [Masters -> Stages]
  /\ plan \in [Masters -> Intents \cup {NoIntent}]
  /\ \A m \in Masters : pc[m] = "saga" => StepsTypeOK(m)
  /\ status \in [Masters -> {"none", "completed", "partially_completed", "halted"}]
  /\ waiting \in [Masters -> Masters \cup {NoTask}]
  /\ raised \in [Masters -> BOOLEAN]
  /\ succeeded \subseteq Domains
  /\ intentLost \in BOOLEAN

Init ==
  /\ TrackerInit
  /\ saved = NoIntent /\ marks = {}
  /\ owed \in BOOLEAN
  /\ pc = [m \in Masters |-> "idle"]
  /\ plan = [m \in Masters |-> NoIntent]
  /\ step = [m \in Masters |-> NoSteps]
  /\ tries = [m \in Masters |-> NoSteps]
  /\ snapshot = [m \in Masters |-> NoSteps]
  /\ status = [m \in Masters |-> "none"]
  /\ waiting = [m \in Masters |-> NoTask]
  /\ raised = [m \in Masters |-> FALSE]
  /\ succeeded = {}
  /\ intentLost = FALSE

Goto(m, stage) == pc' = [pc EXCEPT ![m] = stage]

(* The runs of a set end, and what they had in memory is gone. *)
End(runs) ==
  /\ pc' = [m \in Masters |-> IF m \in runs THEN "ended" ELSE pc[m]]
  /\ plan' = [m \in Masters |-> IF m \in runs THEN NoIntent ELSE plan[m]]
  /\ step' = [m \in Masters |-> IF m \in runs THEN NoSteps ELSE step[m]]
  /\ tries' = [m \in Masters |-> IF m \in runs THEN NoSteps ELSE tries[m]]
  /\ snapshot' = [m \in Masters |-> IF m \in runs THEN NoSteps ELSE snapshot[m]]
  /\ status' = [m \in Masters |-> IF m \in runs THEN "none" ELSE status[m]]
  /\ waiting' = [m \in Masters |-> IF m \in runs THEN NoTask ELSE waiting[m]]
  /\ raised' = [m \in Masters |-> IF m \in runs THEN FALSE ELSE raised[m]]

-----------------------------------------------------------------------------
(* POST /session/{cid}/autonomous: a task of its own for each request. *)
Start(m) ==
  /\ pc[m] = "idle"
  /\ OneAtATime => \A n \in Masters : ~InProgress(n)
  /\ Goto(m, "load")
  /\ UNCHANGED <<trackerVars, redis, owed, locals, history>>

(* get_saga_state: a saved intent is taken and not captured again. *)
LoadState(m) ==
  /\ pc[m] = "load"
  /\ plan' = [plan EXCEPT ![m] = saved]
  /\ Goto(m, IF saved = NoIntent THEN "intent" ELSE "auth")
  /\ UNCHANGED <<trackerVars, redis, owed, saga, waiting, raised, history>>

(* get_saga_state raises before the try: the task ends, nobody is told. *)
LoadFails(m) ==
  /\ pc[m] = "load"
  /\ End({m})
  /\ UNCHANGED <<trackerVars, redis, owed, succeeded, intentLost>>

(* Step 1, _step_intent_capture. *)
CaptureIntent(m) ==
  /\ pc[m] = "intent"
  /\ \E intent \in Intents : plan' = [plan EXCEPT ![m] = intent]
  /\ Goto(m, "save")
  /\ UNCHANGED <<trackerVars, redis, owed, saga, waiting, raised, history>>

IntentFails(m) ==
  /\ pc[m] = "intent"
  /\ Goto(m, "handoff")
  /\ UNCHANGED <<trackerVars, redis, owed, locals, history>>

SaveIntent(m) ==
  /\ pc[m] = "save"
  /\ saved' = plan[m]
  /\ Goto(m, "auth")
  /\ UNCHANGED <<trackerVars, marks, owed, locals, history>>

(* save_saga_state raises: the exception is swallowed with the LLM's. *)
SaveFails(m) ==
  /\ pc[m] = "save"
  /\ intentLost' = TRUE
  /\ Goto(m, "auth")
  /\ UNCHANGED <<trackerVars, redis, owed, locals, succeeded>>

-----------------------------------------------------------------------------
(* Step 2, authenticate_caller.  The caller passes without a policy,       *)
(* because there is none, it is off, or it could not be loaded; and when   *)
(* one of the enabled methods verifies the caller there and then.  Those   *)
(* that need the caller's words only record that they await them, which    *)
(* counts as failed.                                                       *)
Verified(m) ==
  /\ pc[m] = "auth"
  /\ Goto(m, "eligibility")
  /\ UNCHANGED <<trackerVars, redis, owed, locals, history>>

NotVerified(m) ==
  /\ pc[m] = "auth"
  /\ Goto(m, "hangup")
  /\ UNCHANGED <<trackerVars, redis, owed, locals, history>>

(* _end_call, after the caller is told. *)
HangUp(m) ==
  /\ pc[m] = "hangup"
  /\ End({m})
  /\ UNCHANGED <<trackerVars, redis, owed, succeeded, intentLost>>

(* Step 3: eligible unless the webhook says otherwise. *)
Eligible(m) ==
  /\ pc[m] = "eligibility"
  /\ Goto(m, "dues")
  /\ UNCHANGED <<trackerVars, redis, owed, locals, history>>

NotEligible(m) ==
  /\ pc[m] = "eligibility"
  /\ Goto(m, "handoff")
  /\ UNCHANGED <<trackerVars, redis, owed, locals, history>>

-----------------------------------------------------------------------------
(* Step 4, _step_dues_check: what the webhook answers. *)
DuesAnswered(m) ==
  /\ pc[m] = "dues"
  /\ Goto(m, IF owed THEN "pay" ELSE "delegate")
  /\ UNCHANGED <<trackerVars, redis, owed, locals, history>>

(* No dues check, no webhook or no answer: no dues. *)
DuesUnknown(m) ==
  /\ pc[m] = "dues"
  /\ Goto(m, "delegate")
  /\ UNCHANGED <<trackerVars, redis, owed, locals, history>>

(* Step 5, _step_payment_gating.  The report that completes a request may  *)
(* be about another link (OwnPayment of PaymentGateway).                   *)
Paid(m) ==
  /\ pc[m] = "pay"
  /\ owed' \in {owed, FALSE}
  /\ Goto(m, "delegate")
  /\ UNCHANGED <<trackerVars, redis, locals, history>>

NotPaid(m) ==
  /\ pc[m] = "pay"
  /\ Goto(m, "handoff")
  /\ UNCHANGED <<trackerVars, redis, owed, locals, history>>

(* Authentication, the payment request, start_hold or stop_hold raises     *)
(* (Redis): the caller is told and handed off.                             *)
Raises(m) ==
  /\ \/ pc[m] \in {"auth", "pay", "unhold"} /\ UNCHANGED onHold
     \/ pc[m] = "delegate" /\ plan[m] # <<>> /\ onHold' \in {onHold, TRUE}
  /\ Goto(m, "error")
  /\ UNCHANGED <<progress, registry, loop, cancelled, moh, redis, owed,
                 locals, history>>

-----------------------------------------------------------------------------
(* No domains: the conversation goes on with the turn loop. *)
DirectResponse(m) ==
  /\ pc[m] = "delegate" /\ plan[m] = <<>>
  /\ End({m})
  /\ UNCHANGED <<trackerVars, redis, owed, succeeded, intentLost>>

(* Steps 6 and 7, _step_task_delegation.  start_hold: *)
BeginHold(m) ==
  /\ pc[m] = "delegate" /\ plan[m] # <<>>
  /\ RecordHold
  /\ Goto(m, "moh")
  /\ UNCHANGED <<redis, owed, locals, history>>

MusicStarts(m) ==
  /\ pc[m] = "moh"
  /\ Requested("start")
  /\ Goto(m, "opening")
  /\ UNCHANGED <<tracker, redis, owed, locals, history>>

(* The opening message was played over the music. *)
HoldBegun(m) ==
  /\ pc[m] = "opening"
  /\ Launch(m)
  /\ Goto(m, "load_marks")
  /\ UNCHANGED <<redis, owed, locals, history>>

(* run_saga begins: marked steps are done. *)
LoadMarks(m) ==
  /\ pc[m] = "load_marks"
  /\ step' = [step EXCEPT ![m] =
                [i \in StepsOf(m) |-> IF i \in marks THEN "done" ELSE "idle"]]
  /\ tries' = [tries EXCEPT ![m] = [i \in StepsOf(m) |-> 0]]
  /\ snapshot' = [snapshot EXCEPT ![m] = [i \in StepsOf(m) |-> {}]]
  /\ Goto(m, "saga")
  /\ UNCHANGED <<trackerVars, redis, owed, plan, status, waiting, raised,
                 history>>

At(m, i, state) == pc[m] = "saga" /\ i \in StepsOf(m) /\ step[m][i] = state
StepGoes(m, i, state) == step' = [step EXCEPT ![m][i] = state]
Before(m, i) == {j \in StepsOf(m) : j < i}

BeginStep(m, i) ==
  /\ At(m, i, "idle")
  /\ Parallel \/ \A j \in Before(m, i) : step[m][j] \in Over
  /\ StepGoes(m, i, IF RetryCount = 0 THEN "failed" ELSE "sme")
  /\ UNCHANGED <<trackerVars, redis, owed, pc, plan, tries, snapshot,
                 status, waiting, raised, history>>

(* run_sme_task returned, whatever its status; update_progress reads. *)
SmeReturns(m, i) ==
  /\ At(m, i, "sme")
  /\ StepGoes(m, i, "progress")
  /\ snapshot' = [snapshot EXCEPT ![m][i] = progress]
  /\ UNCHANGED <<trackerVars, redis, owed, pc, plan, tries, status,
                 waiting, raised, history>>

WriteProgress(m, i) ==
  /\ At(m, i, "progress")
  /\ AddProgress(snapshot[m][i], plan[m][i])
  /\ StepGoes(m, i, "gate")
  /\ snapshot' = [snapshot EXCEPT ![m][i] = {}]
  /\ UNCHANGED <<redis, owed, pc, plan, tries, status, waiting, raised, history>>

(* Approved and paid where that is required, and not failed. *)
GatesPassed(m, i) ==
  /\ At(m, i, "gate")
  /\ StepGoes(m, i, "ok")
  /\ succeeded' = succeeded \cup {plan[m][i]}
  /\ UNCHANGED <<trackerVars, redis, owed, pc, plan, tries, snapshot,
                 status, waiting, raised, intentLost>>

(* The task raises, is rejected, not paid for, or has failed. *)
AttemptRaises(m, i) ==
  /\ \E state \in Active : At(m, i, state)
  /\ tries' = [tries EXCEPT ![m][i] = @ + 1]
  /\ StepGoes(m, i, IF tries[m][i] + 1 < RetryCount THEN "sme" ELSE "failed")
  /\ UNCHANGED <<trackerVars, redis, owed, pc, plan, snapshot, status,
                 waiting, raised, history>>

(* The loop over a batch's results is at step i: the batch has returned,   *)
(* and what precedes i is recorded.                                        *)
Recording(m, i) ==
  /\ \A j \in Before(m, i) : step[m][j] \in Over
  /\ Parallel => \A j \in StepsOf(m) : step[m][j] \notin Active \cup {"idle"}

RecordCompleted(m, i) ==
  /\ At(m, i, "ok") /\ Recording(m, i)
  /\ marks' = marks \cup {i}
  /\ StepGoes(m, i, "done")
  /\ UNCHANGED <<trackerVars, saved, owed, pc, plan,
                 tries, snapshot, status, waiting, raised, history>>

RecordSkipped(m, i) ==
  /\ At(m, i, "failed") /\ Recording(m, i)
  /\ StepGoes(m, i, "skipped")
  /\ UNCHANGED <<trackerVars, redis, owed, pc, plan, tries, snapshot,
                 status, waiting, raised, history>>

-----------------------------------------------------------------------------
(* What run_saga had in its local variables is gone. *)
Forget(m) ==
  /\ step' = [step EXCEPT ![m] = NoSteps]
  /\ tries' = [tries EXCEPT ![m] = NoSteps]
  /\ snapshot' = [snapshot EXCEPT ![m] = NoSteps]

(* run_saga returns or raises, and the finally clause calls stop_hold. *)
StopHold(m) ==
  /\ Forget(m)
  /\ IF HasTask
     THEN /\ CancelTask
          /\ waiting' = [waiting EXCEPT ![m] = registry]
          /\ Goto(m, "await")
     ELSE /\ Goto(m, "unmoh")
          /\ UNCHANGED <<trackerVars, waiting>>

(* Mutant of SagaReturns: the marks are not cleared. *)
SagaReturnsMarked(m) ==
  /\ pc[m] = "saga"
  /\ \A i \in StepsOf(m) : step[m][i] \in Over
  /\ IF \A i \in StepsOf(m) : step[m][i] = "done"
     THEN status' = [status EXCEPT ![m] = "completed"] /\ saved' = NoIntent
     ELSE status' = [status EXCEPT ![m] = "partially_completed"] /\ UNCHANGED saved
  /\ StopHold(m)
  /\ UNCHANGED <<marks, owed, plan, raised, history>>

(* Every step is recorded: a saga without skipped steps clears its state. *)
SagaReturns(m) ==
  /\ pc[m] = "saga"
  /\ \A i \in StepsOf(m) : step[m][i] \in Over
  /\ IF \A i \in StepsOf(m) : step[m][i] = "done"
     THEN /\ status' = [status EXCEPT ![m] = "completed"]
          /\ saved' = NoIntent /\ marks' = {}
     ELSE /\ status' = [status EXCEPT ![m] = "partially_completed"]
          /\ UNCHANGED <<saved, marks>>
  /\ StopHold(m)
  /\ UNCHANGED <<owed, plan, raised, history>>

(* A failed step whose strategy is not skip. *)
SagaHalts(m) ==
  /\ \E i \in StepsOf(m) : At(m, i, "failed") /\ Recording(m, i)
  /\ status' = [status EXCEPT ![m] = "halted"]
  /\ StopHold(m)
  /\ UNCHANGED <<redis, owed, plan, raised, history>>

(* A Redis call of run_saga itself raises; no step is being executed. *)
SagaRaises(m) ==
  /\ \/ pc[m] = "load_marks"
     \/ pc[m] = "saga" /\ \A i \in StepsOf(m) : step[m][i] \notin Active
  /\ raised' = [raised EXCEPT ![m] = TRUE]
  /\ StopHold(m)
  /\ UNCHANGED <<redis, owed, plan, status, history>>

(* The awaited task is over.  If another run has removed the registration  *)
(* meanwhile, del raises KeyError; if another has replaced it, the new one *)
(* is removed.                                                             *)
TaskGone(m) ==
  /\ pc[m] = "await" /\ ~Alive(waiting[m])
  /\ IF registry = NoTask
     THEN Goto(m, "error") /\ UNCHANGED trackerVars
     ELSE Goto(m, "unmoh") /\ Unregister
  /\ waiting' = [waiting EXCEPT ![m] = NoTask]
  /\ UNCHANGED <<redis, owed, plan, saga, raised, history>>

(* Mutant of MusicStops: no request is made. *)
MusicGoesOn(m) ==
  /\ pc[m] = "unmoh"
  /\ Goto(m, "unhold")
  /\ UNCHANGED <<trackerVars, redis, owed, locals, history>>

MusicStops(m) ==
  /\ pc[m] = "unmoh"
  /\ Requested("stop")
  /\ Goto(m, "unhold")
  /\ UNCHANGED <<tracker, redis, owed, locals, history>>

HoldEnds(m) ==
  /\ pc[m] = "unhold"
  /\ RecordOffHold
  /\ Goto(m, IF raised[m] THEN "error" ELSE "consolidate")
  /\ UNCHANGED <<redis, owed, locals, history>>

(* Steps 8 and 9: the answer is composed and played; a halted saga is      *)
(* handed off after it.                                                    *)
Answer(m) ==
  /\ pc[m] = "consolidate" /\ status[m] # "halted"
  /\ End({m})
  /\ UNCHANGED <<trackerVars, redis, owed, succeeded, intentLost>>

AnswerHalted(m) ==
  /\ pc[m] = "consolidate" /\ status[m] = "halted"
  /\ Goto(m, "handoff")
  /\ UNCHANGED <<trackerVars, redis, owed, locals, history>>

(* The caller is told that something unexpected has happened. *)
Apologise(m) ==
  /\ pc[m] = "error"
  /\ Goto(m, "handoff")
  /\ UNCHANGED <<trackerVars, redis, owed, locals, history>>

(* _trigger_handoff: execute_handoff returns or raises; see HandoffDesk. *)
HandOff(m) ==
  /\ pc[m] = "handoff"
  /\ End({m})
  /\ UNCHANGED <<trackerVars, redis, owed, succeeded, intentLost>>

-----------------------------------------------------------------------------
(* The process dies.  The requests it had made go astray. *)
Outstanding ==
  {q \in Requests :
     \/ q = "start" /\ \E m \in Masters : pc[m] = "moh" \/ loop[m] = "unmute"
     \/ q = "stop" /\ \E m \in Masters : pc[m] = "unmoh" \/ loop[m] = "mute"}

Crash ==
  /\ \E m \in Masters : InProgress(m) \/ Alive(m)
  /\ TasksDie
  /\ End({m \in Masters : InProgress(m)})
  /\ UNCHANGED moh \/ \E q \in Outstanding : Requested(q)
  /\ UNCHANGED <<redis, owed, succeeded, intentLost>>

(* SAGA_STATE_TTL elapses.  The marks are set again with each step, so the *)
(* saved intent expires before them, and they are left to another.         *)
Expire ==
  /\ \/ /\ saved # NoIntent
        /\ saved' = NoIntent /\ intentLost' = TRUE
        /\ UNCHANGED marks
     \/ /\ marks # {}
        /\ marks' = {}
        /\ UNCHANGED <<saved, intentLost>>
  /\ UNCHANGED <<trackerVars, owed, pc, locals, succeeded>>

-----------------------------------------------------------------------------
BeforeHold(m) ==
  \/ LoadState(m) \/ LoadFails(m) \/ CaptureIntent(m) \/ IntentFails(m)
  \/ SaveIntent(m) \/ SaveFails(m) \/ Verified(m) \/ NotVerified(m)
  \/ HangUp(m) \/ Eligible(m)
  \/ NotEligible(m) \/ DuesAnswered(m) \/ DuesUnknown(m) \/ Paid(m)
  \/ NotPaid(m) \/ Raises(m)

StepMoves(m, i) ==
  \/ BeginStep(m, i) \/ SmeReturns(m, i) \/ WriteProgress(m, i)
  \/ GatesPassed(m, i) \/ AttemptRaises(m, i)
  \/ RecordCompleted(m, i) \/ RecordSkipped(m, i)

OnHold(m) ==
  \/ DirectResponse(m) \/ BeginHold(m) \/ MusicStarts(m) \/ HoldBegun(m) \/ LoadMarks(m)
  \/ \E i \in StepsOf(m) : StepMoves(m, i)
  \/ SagaReturns(m) \/ SagaHalts(m) \/ SagaRaises(m)
  \/ TaskGone(m) \/ MusicStops(m) \/ HoldEnds(m)

AfterHold(m) == Answer(m) \/ AnswerHalted(m) \/ Apologise(m) \/ HandOff(m)

RunStep(m) == BeforeHold(m) \/ OnHold(m) \/ AfterHold(m)
TaskStep(t) == LoopStep(t) /\ UNCHANGED <<redis, owed, pc, locals, history>>

Next ==
  \/ \E m \in Masters : Start(m) \/ RunStep(m) \/ TaskStep(m)
  \/ LateRequest /\ UNCHANGED <<redis, owed, pc, locals, history>>
  \/ Crash \/ Expire

Spec == Init /\ [][Next]_vars

-----------------------------------------------------------------------------
(* Where a run has a hold, from the task's creation to stop_hold. *)
Holding(m) == pc[m] \in {"load_marks", "saga"}

(* A progress task that nobody has cancelled belongs to a hold that lasts, *)
(* and is the one stop_hold will find.  A task that is not, plays updates  *)
(* and music to the caller for the rest of the call.                       *)
TaskHasHold ==
  \A t \in Masters : Alive(t) /\ t \notin cancelled => Holding(t) /\ registry = t

(* An update is played over silence (stop MOH, then TTS), unless a request *)
(* for music has gone astray.                                              *)
UpdateOverSilence ==
  \A t \in Masters : loop[t] = "say" /\ music => astray > 0

(* The answer is played to a caller who is off hold and hears no music,    *)
(* unless a request for music has gone astray: the music of the update     *)
(* that was in progress does not start again.                              *)
AnsweredOffHold ==
  \A m \in Masters : pc[m] = "consolidate" => ~onHold /\ (music => astray > 0)

(* A saga reported completed has had a task succeed for each domain of the *)
(* intent, in this run or one it resumes: steps are marked by number, so   *)
(* the marks must belong to this list of domains.  Only an intent that was *)
(* never saved, or expired before its marks, leaves them to another.       *)
CompletedMeansServed ==
  \A m \in Masters : status[m] = "completed" /\ ~intentLost =>
    \A i \in StepsOf(m) : plan[m][i] \in succeeded

(* master_worker.py l.11: if dues exist, their clearance is awaited, and   *)
(* SME tasks run for a caller who owes nothing.  Does not hold: a check    *)
(* that fails counts as no dues, and a request is completed by a report    *)
(* about any link of the call.                                             *)
ServedOwesNothing == \A m \in Masters : Holding(m) => ~owed

(* The progress an update tells of is this hold's: it names domains whose  *)
(* step has begun, not those of an earlier intent.                         *)
ProgressIsCurrent ==
  \A m \in Masters : pc[m] = "saga" =>
    \A d \in progress : \E i \in StepsOf(m) : plan[m][i] = d /\ step[m][i] # "idle"

(* stop_hold awaits a task that is over, or about to be: nobody waits for  *)
(* a task that plays updates until the call ends.                          *)
AwaitedIsCancelled ==
  \A m \in Masters : pc[m] = "await" =>
    waiting[m] \in Masters /\ (Alive(waiting[m]) => waiting[m] \in cancelled)

(* progress_tracker.py l.174: the progress state names what has actually    *)
(* been completed, for the next update to tell the caller.  Does not hold: *)
(* it is written before the gates of the step.                             *)
ToldWhatCompleted ==
  \A t \in Masters : loop[t] = "compose" => progress \subseteq succeeded
=============================================================================
