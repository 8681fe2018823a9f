----------------------------- MODULE MasterProofs -----------------------------
(* Theorems about MasterWorker and ProgressTracker, for any intents and    *)
(* runs of a call.                                                         *)
EXTENDS MasterWorker, TLAPS

-----------------------------------------------------------------------------
(* Where a run has an intent to serve. *)
Planned == {"save", "auth", "hangup", "eligibility", "dues", "pay", "delegate",
            "moh", "opening", "load_marks", "saga"}

(* The functions of the runs are functions; what is known of those of the  *)
(* saga is in TypeOK.                                                      *)
AreFunctions ==
  /\ step = [m \in Masters |-> step[m]]
  /\ tries = [m \in Masters |-> tries[m]]
  /\ snapshot = [m \in Masters |-> snapshot[m]]

SharedTypeOK ==
  /\ TrackerTypeOK
  /\ saved \in Intents \cup {NoIntent} /\ marks \subseteq Nat
  /\ owed \in BOOLEAN
  /\ succeeded \subseteq Domains /\ intentLost \in BOOLEAN

LocalTypeOK ==
  /\ pc \in [Masters -> Stages]
  /\ plan \in [Masters -> Intents \cup {NoIntent}]
  /\ status \in [Masters -> {"none", "completed", "partially_completed", "halted"}]
  /\ waiting \in [Masters -> Masters \cup {NoTask}]
  /\ raised \in [Masters -> BOOLEAN]
  /\ AreFunctions

(* An attempt in progress is one of retry_count.                           *)
TriesLeft(m) ==
  \A i \in StepsOf(m) :
    /\ step[m][i] = "idle" => tries[m][i] = 0
    /\ step[m][i] \in Active => tries[m][i] < RetryCount

RunTypeOK(m) ==
  /\ pc[m] = "saga" => StepsTypeOK(m) /\ TriesLeft(m)
  /\ pc[m] \in Planned => plan[m] # NoIntent

TypeInv == SharedTypeOK /\ LocalTypeOK /\ \A m \in Masters : RunTypeOK(m)

(* Where a run has no progress task yet. *)
BeforeLaunch == {"idle", "load", "intent", "save", "auth", "hangup", "eligibility", "dues",
                 "pay", "delegate", "moh", "opening"}

(* The progress tasks, for runs that overlap in any way. *)
TaskInv ==
  /\ \A t \in cancelled : Alive(t)
  /\ registry # NoTask => loop[registry] # "none"
  /\ \A m \in Masters : pc[m] \in BeforeLaunch => loop[m] = "none"
  /\ \A m \in Masters : pc[m] = "await" => loop[waiting[m]] # "none"
  /\ AwaitedIsCancelled

(* One run is in progress at most. *)
Alone == \A m, n \in Masters : InProgress(m) /\ InProgress(n) => m = n

(* A task is alive while its own run has a hold, and then until that run   *)
(* has awaited its end.                                                    *)
TaskOfHold ==
  \A t \in Masters : Alive(t) =>
    /\ registry = t
    /\ \/ t \notin cancelled /\ Holding(t)
       \/ t \in cancelled /\ pc[t] = "await" /\ waiting[t] = t

(* Once the music was told to stop nothing starts it. *)
QuietAfterHold ==
  /\ late => astray > 0
  /\ \A m \in Masters : pc[m] = "unhold" /\ music => astray > 0
  /\ UpdateOverSilence
  /\ AnsweredOffHold

(* A mark stands for a step of the saved intent that was served. *)
MarksOfIntent ==
  ~intentLost =>
    /\ saved = NoIntent => marks = {}
    /\ \A i \in marks : saved # NoIntent /\ i \in DOMAIN saved /\ saved[i] \in succeeded

(* The saved intent is the one a run serves, so that the marks are of its  *)
(* steps. *)
Serving == Planned \ {"save"}
NotYetReported == BeforeLaunch \cup {"load_marks", "saga"}

RunServes(m) ==
  /\ pc[m] \in NotYetReported => status[m] = "none"
  /\ ~intentLost =>
       /\ pc[m] \in {"intent", "save"} => saved = NoIntent
       /\ pc[m] \in Serving => plan[m] = saved
       /\ pc[m] = "saga" =>
            \A i \in StepsOf(m) : step[m][i] \in {"ok", "done"} => plan[m][i] \in succeeded
       /\ status[m] = "completed" => \A i \in StepsOf(m) : plan[m][i] \in succeeded

ServedInv == MarksOfIntent /\ \A m \in Masters : RunServes(m)

(* What update_progress has read is of this hold too.                      *)
Begun(m) == {plan[m][i] : i \in {j \in StepsOf(m) : step[m][j] # "idle"}}

ProgressOfHold ==
  \A m \in Masters :
    /\ pc[m] \in {"moh", "opening", "load_marks"} => progress = {}
    /\ pc[m] = "saga" => progress \subseteq Begun(m)
                         /\ \A i \in StepsOf(m) : snapshot[m][i] \subseteq Begun(m)

-----------------------------------------------------------------------------
(* A request to FreeSWITCH leaves the types right.                         *)
LEMMA RequestTyped ==
  ASSUME TrackerTypeOK, NEW q \in Requests, Requested(q)
  PROVE  /\ music' \in BOOLEAN /\ late' \in BOOLEAN /\ astray' \in 0..MaxAstray
<1>1. CASE Carried(q)
  BY <1>1 DEF TrackerTypeOK, Carried
<1>2. CASE GoesAstray(q)
  <2>1. late' \in BOOLEAN
    BY <1>2, Zenon DEF TrackerTypeOK, GoesAstray
  <2>2. astray' \in 0..MaxAstray
    BY <1>2, TrackerAssumption DEF TrackerTypeOK, GoesAstray
  <2>. QED
    BY <1>2, <2>1, <2>2 DEF TrackerTypeOK, GoesAstray
<1>. QED
  BY <1>1, <1>2 DEF Requested

LEMMA PlanTyped ==
  ASSUME NEW intent \in Intents, NEW i \in DOMAIN intent
  PROVE  i \in Nat /\ intent[i] \in Domains
BY MasterAssumption

(* A step of a progress task.                                              *)
LEMMA TaskTyped ==
  ASSUME TypeInv, NEW t \in Masters, TaskStep(t)
  PROVE  TypeInv'
<1>1. loop' \in [Masters -> {"none", "sleep", "compose", "mute", "say", "unmute", "done"}]
      /\ cancelled' \subseteq Masters /\ UNCHANGED <<onHold, progress, registry>>
  BY DEF TaskStep, LoopStep, Tick, LoopFails, Composed, Muted, Said, Unmuted, Cancelled,
         TypeInv, SharedTypeOK, TrackerTypeOK
<1>2. (\E q \in Requests : Requested(q)) \/ UNCHANGED moh
  BY DEF TaskStep, LoopStep, Tick, LoopFails, Composed, Muted, Said, Unmuted, Cancelled,
         Requests
<1>3. music' \in BOOLEAN /\ late' \in BOOLEAN /\ astray' \in 0..MaxAstray
  BY <1>2, RequestTyped DEF moh, TypeInv, SharedTypeOK, TrackerTypeOK
<1>4. TrackerTypeOK'
  BY <1>1, <1>3 DEF TrackerTypeOK, TypeInv, SharedTypeOK
<1>5. UNCHANGED <<redis, owed, pc, locals, history>>
  BY DEF TaskStep
<1>. QED
  BY <1>4, <1>5 DEF TypeInv, SharedTypeOK, LocalTypeOK, AreFunctions, RunTypeOK, TriesLeft, StepsTypeOK,
     StepsOf, redis, locals, saga, coroutines, history

-----------------------------------------------------------------------------
(* What a run has in memory stays as it is.                                *)
Remembers(n) ==
  /\ pc'[n] = pc[n] /\ plan'[n] = plan[n]
  /\ step'[n] = step[n] /\ tries'[n] = tries[n] /\ snapshot'[n] = snapshot[n]
  /\ status'[n] = status[n] /\ waiting'[n] = waiting[n] /\ raised'[n] = raised[n]

LEMMA EndRemembers ==
  ASSUME NEW runs, End(runs), NEW n \in Masters \ runs
  PROVE  Remembers(n)
BY DEF End, Remembers

LEMMA OthersRemember ==
  ASSUME TypeInv, NEW m \in Masters, Start(m) \/ RunStep(m), NEW n \in Masters \ {m}
  PROVE  Remembers(n)
<1>. USE DEF TypeInv, LocalTypeOK, AreFunctions, Remembers, Goto, coroutines, saga, locals
<1>1. CASE Start(m) \/ BeforeHold(m)
  <2>1. CASE LoadFails(m) \/ HangUp(m)
    BY <2>1, EndRemembers DEF LoadFails, HangUp
  <2>2. CASE Start(m) \/ LoadState(m) \/ CaptureIntent(m) \/ IntentFails(m) \/ SaveIntent(m)
    BY <2>2 DEF Start, LoadState, CaptureIntent, IntentFails, SaveIntent
  <2>3. CASE SaveFails(m) \/ Verified(m) \/ NotVerified(m) \/ Eligible(m) \/ NotEligible(m)
    BY <2>3 DEF SaveFails, Verified, NotVerified, Eligible, NotEligible
  <2>4. CASE DuesAnswered(m) \/ DuesUnknown(m) \/ Paid(m) \/ NotPaid(m) \/ Raises(m)
    BY <2>4 DEF DuesAnswered, DuesUnknown, Paid, NotPaid, Raises
  <2>. QED
    BY <1>1, <2>1, <2>2, <2>3, <2>4 DEF BeforeHold
<1>2. CASE DirectResponse(m) \/ BeginHold(m) \/ MusicStarts(m) \/ HoldBegun(m) \/ LoadMarks(m)
  BY <1>2, EndRemembers DEF DirectResponse, BeginHold, MusicStarts, HoldBegun, LoadMarks
<1>3. ASSUME NEW i \in StepsOf(m), StepMoves(m, i) PROVE Remembers(n)
  <2>1. CASE BeginStep(m, i) \/ SmeReturns(m, i) \/ WriteProgress(m, i)
    BY <2>1 DEF BeginStep, SmeReturns, WriteProgress, StepGoes
  <2>2. CASE GatesPassed(m, i) \/ AttemptRaises(m, i)
    BY <2>2 DEF GatesPassed, AttemptRaises, StepGoes
  <2>3. CASE RecordCompleted(m, i) \/ RecordSkipped(m, i)
    BY <2>3 DEF RecordCompleted, RecordSkipped, StepGoes
  <2>. QED
    BY <1>3, <2>1, <2>2, <2>3 DEF StepMoves
<1>4. CASE SagaReturns(m) \/ SagaHalts(m) \/ SagaRaises(m)
  BY <1>4 DEF SagaReturns, SagaHalts, SagaRaises, StopHold, Forget
<1>5. CASE TaskGone(m) \/ MusicStops(m) \/ HoldEnds(m)
  BY <1>5 DEF TaskGone, MusicStops, HoldEnds
<1>6. CASE AfterHold(m)
  BY <1>6, EndRemembers DEF AfterHold, Answer, AnswerHalted, Apologise, HandOff
<1>. QED
  BY <1>1, <1>2, <1>3, <1>4, <1>5, <1>6 DEF RunStep, OnHold

(* What is to be shown of a step of a run.                                 *)
LEMMA RunTyped ==
  ASSUME TypeInv, NEW m \in Masters, Start(m) \/ RunStep(m),
         SharedTypeOK', LocalTypeOK', RunTypeOK(m)'
  PROVE  TypeInv'
<1>1. ASSUME NEW n \in Masters \ {m} PROVE RunTypeOK(n)'
  BY OthersRemember DEF TypeInv, Remembers, RunTypeOK, TriesLeft, StepsTypeOK, StepsOf
<1>. QED
  BY <1>1 DEF TypeInv

(* A run that ends.                                                        *)
LEMMA EndTyped ==
  ASSUME TypeInv, NEW runs, End(runs)
  PROVE  /\ LocalTypeOK'
         /\ \A n \in runs \cap Masters : RunTypeOK(n)'
BY DEF TypeInv, SharedTypeOK, LocalTypeOK, AreFunctions, RunTypeOK, Planned, Stages, End, NoSteps

LEMMA BeforeHoldTyped ==
  ASSUME TypeInv, NEW m \in Masters, Start(m) \/ BeforeHold(m)
  PROVE  TypeInv'
<1>. USE DEF SharedTypeOK, LocalTypeOK, AreFunctions, RunTypeOK, TrackerTypeOK, Stages, Planned,
         trackerVars, tracker, moh, coroutines, saga, redis, locals, history, Goto
<1>. SUFFICES SharedTypeOK' /\ LocalTypeOK' /\ RunTypeOK(m)'
  BY RunTyped DEF RunStep
<1>1. CASE LoadFails(m) \/ HangUp(m)
  BY <1>1, EndTyped DEF TypeInv, LoadFails, HangUp
<1>2. CASE Start(m) \/ IntentFails(m) \/ SaveFails(m)
  BY <1>2 DEF TypeInv, Start, IntentFails, SaveFails
<1>3. CASE LoadState(m) \/ CaptureIntent(m)
  <2>1. CASE LoadState(m)
    BY <2>1, MasterAssumption DEF TypeInv, LoadState
  <2>2. CASE CaptureIntent(m)
    BY <2>2, MasterAssumption DEF TypeInv, CaptureIntent
  <2>. QED
    BY <1>3, <2>1, <2>2
<1>4. CASE SaveIntent(m)
  BY <1>4 DEF TypeInv, SaveIntent
<1>5. CASE Verified(m) \/ NotVerified(m) \/ Eligible(m) \/ NotEligible(m)
  BY <1>5 DEF TypeInv, Verified, NotVerified, Eligible, NotEligible
<1>6. CASE DuesAnswered(m) \/ DuesUnknown(m)
  BY <1>6 DEF TypeInv, DuesAnswered, DuesUnknown
<1>7. CASE Paid(m) \/ NotPaid(m)
  BY <1>7 DEF TypeInv, Paid, NotPaid
<1>8. CASE Raises(m)
  BY <1>8 DEF TypeInv, Raises
<1>. QED
  BY <1>1, <1>2, <1>3, <1>4, <1>5, <1>6, <1>7, <1>8 DEF BeforeHold

LEMMA StepMovesTyped ==
  ASSUME TypeInv, NEW m \in Masters, NEW i \in StepsOf(m), StepMoves(m, i)
  PROVE  TypeInv'
<1>. USE DEF SharedTypeOK, LocalTypeOK, AreFunctions, RunTypeOK, TriesLeft, StepsTypeOK,
         TrackerTypeOK, trackerVars, tracker, moh, redis, history, At, StepGoes, StepStates,
         Active
<1>1. /\ i \in Nat /\ plan[m][i] \in Domains
      /\ pc[m] = "saga" /\ StepsTypeOK(m) /\ UNCHANGED <<pc, plan>>
  BY MasterAssumption, PlanTyped DEF TypeInv, StepsOf, StepMoves, BeginStep, SmeReturns,
     WriteProgress, GatesPassed, AttemptRaises, RecordCompleted, RecordSkipped
<1>2. StepsOf(m)' = StepsOf(m)
  BY <1>1 DEF StepsOf
<1>. SUFFICES SharedTypeOK' /\ LocalTypeOK' /\ RunTypeOK(m)'
  BY RunTyped DEF RunStep, OnHold
<1>3. CASE BeginStep(m, i)
  <2>1. /\ step'[m] = [step[m] EXCEPT ![i] = IF RetryCount = 0 THEN "failed" ELSE "sme"]
        /\ step[m][i] = "idle" /\ tries[m][i] = 0
        /\ tries' = tries /\ snapshot' = snapshot
    BY <1>3, <1>1 DEF TypeInv, BeginStep
  <2>2. StepsTypeOK(m)' /\ TriesLeft(m)'
    BY <2>1, <1>1, <1>2, MasterAssumption DEF TypeInv
  <2>. QED
    BY <1>3, <2>2 DEF TypeInv, BeginStep
<1>4. CASE SmeReturns(m, i)
  BY <1>4, <1>1, <1>2 DEF TypeInv, SmeReturns
<1>5. CASE WriteProgress(m, i)
  BY <1>5, <1>1, <1>2 DEF TypeInv, WriteProgress, AddProgress
<1>6. CASE GatesPassed(m, i)
  BY <1>6, <1>1, <1>2 DEF TypeInv, GatesPassed
<1>7. CASE AttemptRaises(m, i)
  <2>1. /\ step'[m] = [step[m] EXCEPT
                         ![i] = IF tries[m][i] + 1 < RetryCount THEN "sme" ELSE "failed"]
        /\ tries'[m] = [tries[m] EXCEPT ![i] = tries[m][i] + 1]
        /\ tries[m][i] \in Nat /\ tries[m][i] < RetryCount /\ snapshot' = snapshot
    BY <1>7, <1>1 DEF TypeInv, AttemptRaises
  <2>2. StepsTypeOK(m)' /\ TriesLeft(m)'
    BY <2>1, <1>1, <1>2, MasterAssumption DEF TypeInv
  <2>. QED
    BY <1>7, <2>2 DEF TypeInv, AttemptRaises
<1>8. CASE RecordCompleted(m, i)
  BY <1>8, <1>1, <1>2 DEF TypeInv, RecordCompleted
<1>9. CASE RecordSkipped(m, i)
  BY <1>9, <1>1, <1>2 DEF TypeInv, RecordSkipped
<1>. QED
  BY <1>3, <1>4, <1>5, <1>6, <1>7, <1>8, <1>9 DEF StepMoves

LEMMA StopHoldTyped ==
  ASSUME TypeInv, NEW m \in Masters, StopHold(m)
  PROVE  /\ TrackerTypeOK' /\ pc' \in [Masters -> Stages] /\ AreFunctions'
         /\ waiting' \in [Masters -> Masters \cup {NoTask}]
         /\ pc'[m] \notin Planned
<1>. USE DEF TypeInv, SharedTypeOK, LocalTypeOK, AreFunctions, TrackerTypeOK, Forget, Goto
<1>1. AreFunctions'
  BY DEF StopHold
<1>2. CASE HasTask
  <2>1. CancelTask /\ waiting' = [waiting EXCEPT ![m] = registry] /\ Goto(m, "await")
    BY <1>2 DEF StopHold
  <2>2. registry \in Masters
    BY <1>2 DEF HasTask
  <2>3. TrackerTypeOK'
    BY <2>1, <2>2 DEF CancelTask, moh
  <2>4. /\ pc' \in [Masters -> Stages] /\ pc'[m] \notin Planned
        /\ waiting' \in [Masters -> Masters \cup {NoTask}]
    BY <2>1, <2>2 DEF Stages, Planned
  <2>. QED
    BY <1>1, <2>3, <2>4
<1>3. CASE ~HasTask
  <2>1. Goto(m, "unmoh") /\ UNCHANGED <<trackerVars, waiting>>
    BY <1>3 DEF StopHold
  <2>2. TrackerTypeOK'
    BY <2>1 DEF trackerVars, tracker, moh
  <2>3. /\ pc' \in [Masters -> Stages] /\ pc'[m] \notin Planned
        /\ waiting' \in [Masters -> Masters \cup {NoTask}]
    BY <2>1 DEF Stages, Planned
  <2>. QED
    BY <1>1, <2>2, <2>3
<1>. QED
  BY <1>2, <1>3

LEMMA OnHoldTyped ==
  ASSUME TypeInv, NEW m \in Masters, OnHold(m) \/ AfterHold(m)
  PROVE  TypeInv'
<1>. USE DEF SharedTypeOK, LocalTypeOK, AreFunctions, RunTypeOK, TriesLeft, StepsTypeOK, TrackerTypeOK,
         trackerVars, tracker, moh, redis, saga, coroutines, locals, history, Goto, Planned,
         Stages
<1>. SUFFICES ASSUME ~\E i \in StepsOf(m) : StepMoves(m, i)
              PROVE  SharedTypeOK' /\ LocalTypeOK' /\ RunTypeOK(m)'
  BY StepMovesTyped, RunTyped DEF RunStep
<1>1. CASE DirectResponse(m) \/ Answer(m) \/ HandOff(m)
  BY <1>1, EndTyped DEF TypeInv, DirectResponse, Answer, HandOff
<1>2. CASE BeginHold(m)
  BY <1>2 DEF TypeInv, BeginHold, RecordHold
<1>3. CASE MusicStarts(m) \/ MusicStops(m)
  BY <1>3, RequestTyped DEF TypeInv, MusicStarts, MusicStops, Requests
<1>4. CASE HoldBegun(m)
  BY <1>4 DEF TypeInv, HoldBegun, Launch
<1>5. CASE LoadMarks(m)
  <2>1. /\ plan' = plan /\ plan[m] # NoIntent
        /\ step'[m] = [i \in StepsOf(m) |-> IF i \in marks THEN "done" ELSE "idle"]
        /\ tries'[m] = [i \in StepsOf(m) |-> 0]
        /\ snapshot'[m] = [i \in StepsOf(m) |-> {}]
    BY <1>5 DEF TypeInv, LoadMarks
  <2>2. StepsOf(m)' = StepsOf(m)
    BY <2>1 DEF StepsOf
  <2>3. StepsTypeOK(m)' /\ TriesLeft(m)'
    BY <2>1, <2>2, MasterAssumption DEF StepStates, Active
  <2>. QED
    BY <1>5, <2>3 DEF TypeInv, LoadMarks
<1>6. CASE SagaReturns(m) \/ SagaHalts(m) \/ SagaRaises(m)
  <2>1. StopHold(m) /\ UNCHANGED <<owed, plan, history>>
    BY <1>6 DEF SagaReturns, SagaHalts, SagaRaises
  <2>2. /\ saved' \in Intents \cup {NoIntent} /\ marks' \subseteq Nat
        /\ status' \in [Masters -> {"none", "completed", "partially_completed", "halted"}]
        /\ raised' \in [Masters -> BOOLEAN]
    BY <1>6 DEF TypeInv, SagaReturns, SagaHalts, SagaRaises
  <2>. QED
    BY <2>1, <2>2, StopHoldTyped DEF TypeInv
<1>7. CASE TaskGone(m)
  BY <1>7 DEF TypeInv, TaskGone, Unregister
<1>8. CASE HoldEnds(m)
  BY <1>8 DEF TypeInv, HoldEnds, RecordOffHold
<1>9. CASE AnswerHalted(m) \/ Apologise(m)
  BY <1>9 DEF TypeInv, AnswerHalted, Apologise
<1>. QED
  BY <1>1, <1>2, <1>3, <1>4, <1>5, <1>6, <1>7, <1>8, <1>9 DEF OnHold, AfterHold

LEMMA CrashTyped ==
  ASSUME TypeInv, Crash
  PROVE  TypeInv'
<1>. DEFINE runs == {m \in Masters : InProgress(m)}
<1>1. End(runs) /\ TasksDie /\ UNCHANGED <<redis, owed, succeeded, intentLost>>
  BY DEF Crash
<1>2. (\E q \in Requests : Requested(q)) \/ UNCHANGED moh
  BY DEF Crash, Outstanding
<1>3. TrackerTypeOK'
  BY <1>1, <1>2, RequestTyped DEF TypeInv, SharedTypeOK, TrackerTypeOK, TasksDie, moh
<1>4. SharedTypeOK' /\ LocalTypeOK'
  BY <1>1, <1>3, EndTyped DEF TypeInv, SharedTypeOK, redis
<1>5. ASSUME NEW n \in Masters \ runs PROVE RunTypeOK(n)'
  BY <1>1, <1>5, EndRemembers DEF TypeInv, Remembers, RunTypeOK, TriesLeft, StepsTypeOK, StepsOf
<1>. QED
  BY <1>1, <1>4, <1>5, EndTyped DEF TypeInv

LEMMA TypePreserved ==
  ASSUME TypeInv, [Next]_vars
  PROVE  TypeInv'
<1>. USE DEF TypeInv, SharedTypeOK, LocalTypeOK, AreFunctions, RunTypeOK, TriesLeft, StepsTypeOK, StepsOf,
         TrackerTypeOK, trackerVars, tracker, moh, redis, saga, coroutines, locals, history
<1>1. CASE LateRequest /\ UNCHANGED <<redis, owed, pc, locals, history>>
  BY <1>1 DEF LateRequest
<1>3. CASE Expire
  <2>1. /\ saved' \in {saved, NoIntent} /\ marks' \subseteq marks /\ intentLost' \in BOOLEAN
        /\ UNCHANGED <<trackerVars, owed, pc, locals, succeeded>>
    BY <1>3 DEF Expire
  <2>. QED
    BY <2>1
<1>2. CASE UNCHANGED vars
  BY <1>2 DEF vars
<1>. QED
  BY <1>1, <1>2, <1>3, TaskTyped, BeforeHoldTyped, OnHoldTyped, CrashTyped DEF Next, RunStep

LEMMA TypeInit ==
  ASSUME Init
  PROVE  TypeInv
<1>1. SharedTypeOK
  <2>1. astray \in 0..MaxAstray
    BY TrackerAssumption DEF Init, TrackerInit
  <2>2. loop \in [Masters -> {"none", "sleep", "compose", "mute", "say", "unmute", "done"}]
    BY DEF Init, TrackerInit
  <2>3. TrackerTypeOK
    BY <2>1, <2>2 DEF Init, TrackerInit, TrackerTypeOK
  <2>. QED
    BY <2>3 DEF Init, SharedTypeOK
<1>2. LocalTypeOK
  BY DEF Init, LocalTypeOK, AreFunctions, Stages
<1>. QED
  BY <1>1, <1>2 DEF Init, TypeInv, RunTypeOK, Planned

LEMMA TypeHolds == Spec => []TypeInv
BY TypeInit, TypePreserved, PTL DEF Spec

(* The type invariant, for runs that overlap in any way.                   *)
THEOREM TypeCorrect == Spec => []TypeOK
<1>1. TypeInv => TypeOK
  BY DEF TypeInv, SharedTypeOK, LocalTypeOK, RunTypeOK, TypeOK
<1>. QED
  BY <1>1, TypeHolds, PTL

-----------------------------------------------------------------------------
(* The progress tasks change where a hold begins and where it ends.        *)
tasks == <<registry, loop, cancelled>>

LEMMA RunAndTasks ==
  ASSUME TypeInv, NEW m \in Masters, Start(m) \/ RunStep(m)
  PROVE  \/ /\ UNCHANGED tasks
            /\ pc'[m] # "await"
            /\ pc'[m] \in BeforeLaunch => pc[m] \in BeforeLaunch
            /\ Holding(m) => Holding(m)'
            /\ pc[m] # "await"
         \/ HoldBegun(m)
         \/ /\ StopHold(m) /\ pc[m] \in {"load_marks", "saga"}
         \/ TaskGone(m)
<1>. USE DEF TypeInv, LocalTypeOK, BeforeLaunch, Holding, tasks, trackerVars, tracker, Goto
<1>1. CASE LoadFails(m) \/ HangUp(m) \/ DirectResponse(m) \/ Answer(m) \/ HandOff(m)
  BY <1>1 DEF LoadFails, HangUp, DirectResponse, Answer, HandOff, End
<1>2. CASE Start(m) \/ LoadState(m) \/ CaptureIntent(m) \/ IntentFails(m) \/ SaveIntent(m)
  BY <1>2 DEF Start, LoadState, CaptureIntent, IntentFails, SaveIntent
<1>3. CASE SaveFails(m) \/ Verified(m) \/ NotVerified(m) \/ Eligible(m) \/ NotEligible(m)
  BY <1>3 DEF SaveFails, Verified, NotVerified, Eligible, NotEligible
<1>4. CASE DuesAnswered(m) \/ DuesUnknown(m) \/ Paid(m) \/ NotPaid(m) \/ Raises(m)
  BY <1>4 DEF DuesAnswered, DuesUnknown, Paid, NotPaid, Raises
<1>5. CASE BeginHold(m) \/ MusicStarts(m) \/ LoadMarks(m)
  BY <1>5 DEF BeginHold, RecordHold, MusicStarts, LoadMarks
<1>6. ASSUME NEW i \in StepsOf(m), StepMoves(m, i) PROVE UNCHANGED <<tasks, pc>> /\ pc[m] = "saga"
  <2>1. CASE BeginStep(m, i) \/ SmeReturns(m, i) \/ WriteProgress(m, i) \/ GatesPassed(m, i)
    BY <2>1 DEF BeginStep, SmeReturns, WriteProgress, AddProgress, GatesPassed, At
  <2>2. CASE AttemptRaises(m, i) \/ RecordCompleted(m, i) \/ RecordSkipped(m, i)
    BY <2>2 DEF AttemptRaises, RecordCompleted, RecordSkipped, At
  <2>. QED
    BY <1>6, <2>1, <2>2 DEF StepMoves
<1>7. CASE SagaReturns(m) \/ SagaHalts(m) \/ SagaRaises(m)
  BY <1>7 DEF SagaReturns, SagaHalts, SagaRaises, At
<1>8. CASE MusicStops(m) \/ HoldEnds(m) \/ AnswerHalted(m) \/ Apologise(m)
  BY <1>8 DEF MusicStops, HoldEnds, RecordOffHold, AnswerHalted, Apologise
<1>. QED
  BY <1>1, <1>2, <1>3, <1>4, <1>5, <1>6, <1>7, <1>8
  DEF RunStep, BeforeHold, OnHold, AfterHold

(* A task goes on, or ends; only one that was cancelled leaves cancelled.  *)
LEMMA TaskMoves ==
  ASSUME TypeInv, NEW t \in Masters, LoopStep(t)
  PROVE  /\ UNCHANGED <<registry, onHold, progress>>
         /\ loop' = [loop EXCEPT ![t] = loop'[t]] /\ loop'[t] # "none"
         /\ \/ UNCHANGED cancelled /\ t \notin cancelled /\ Alive(t)
            \/ t \in cancelled /\ cancelled' = cancelled \ {t} /\ loop'[t] = "done"
BY DEF TypeInv, SharedTypeOK, TrackerTypeOK, LoopStep, Tick, LoopFails, Composed, Muted, Said, Unmuted,
   Cancelled, Resumes, Alive

LEMMA TasksPreserved ==
  ASSUME TypeInv, TaskInv, [Next]_vars
  PROVE  TaskInv'
<1>. USE DEF TypeInv, SharedTypeOK, LocalTypeOK, TrackerTypeOK, TaskInv, Alive, AwaitedIsCancelled
<1>1. ASSUME NEW m \in Masters, Start(m) \/ RunStep(m) PROVE TaskInv'
  <2>. USE <1>1, OthersRemember DEF Remembers
  <2>1. CASE /\ UNCHANGED tasks
             /\ pc'[m] # "await"
             /\ pc'[m] \in BeforeLaunch => pc[m] \in BeforeLaunch
    BY <2>1 DEF tasks
  <2>2. CASE HoldBegun(m)
    BY <2>2, TrackerAssumption DEF HoldBegun, Launch, BeforeLaunch, Goto
  <2>3. CASE StopHold(m) /\ pc[m] \in {"load_marks", "saga"}
    <3>1. CASE HasTask
      BY <2>3, <3>1 DEF StopHold, HasTask, CancelTask, Goto, BeforeLaunch
    <3>2. CASE ~HasTask
      BY <2>3, <3>2 DEF StopHold, Goto, BeforeLaunch, trackerVars, tracker
    <3>. QED
      BY <3>1, <3>2
  <2>4. CASE TaskGone(m)
    BY <2>4 DEF TaskGone, Goto, Unregister, BeforeLaunch, trackerVars, tracker
  <2>. QED
    BY <2>1, <2>2, <2>3, <2>4, RunAndTasks
<1>2. ASSUME NEW t \in Masters, TaskStep(t) PROVE TaskInv'
  BY <1>2, TaskMoves DEF TaskStep, locals
<1>3. CASE Crash
  BY <1>3 DEF Crash, TasksDie, End, BeforeLaunch, InProgress
<1>4. CASE UNCHANGED <<tasks, pc, waiting>>
  BY <1>4 DEF tasks
<1>. QED
  BY <1>1, <1>2, <1>3, <1>4 DEF Next, LateRequest, Expire, vars, tasks, trackerVars, tracker, locals

(* Whatever runs overlap, stop_hold never waits for a task that nobody has *)
(* cancelled. *)
THEOREM NobodyWaitsForATask == Spec => []AwaitedIsCancelled
<1>1. Init => TaskInv
  BY DEF Init, TrackerInit, TaskInv, Alive, AwaitedIsCancelled, BeforeLaunch
<1>2. TaskInv => AwaitedIsCancelled
  BY DEF TaskInv
<1>. QED
  BY <1>1, <1>2, TypeHolds, TasksPreserved, PTL DEF Spec

-----------------------------------------------------------------------------
(* One run at a time.                                                      *)
LEMMA RunsInProgress ==
  ASSUME NEW m \in Masters, RunStep(m)
  PROVE  InProgress(m)
BY DEF InProgress, RunStep, BeforeHold, OnHold, AfterHold, LoadState, LoadFails, CaptureIntent,
   IntentFails, SaveIntent, SaveFails, Verified, NotVerified, HangUp, Eligible, NotEligible,
   DuesAnswered, DuesUnknown, Paid, NotPaid, Raises, DirectResponse, BeginHold, MusicStarts,
   HoldBegun, LoadMarks, StepMoves, BeginStep, SmeReturns, WriteProgress, GatesPassed,
   AttemptRaises, RecordCompleted, RecordSkipped, At, SagaReturns, SagaHalts, SagaRaises,
   TaskGone, MusicStops, HoldEnds, Answer, AnswerHalted, Apologise, HandOff

LEMMA AlonePreserved ==
  ASSUME OneAtATime, TypeInv, Alone, [Next]_vars
  PROVE  Alone'
<1>. USE DEF TypeInv, LocalTypeOK, Alone, InProgress
<1>1. ASSUME NEW m \in Masters, Start(m) PROVE Alone'
  BY <1>1 DEF Start, Goto
<1>2. ASSUME NEW m \in Masters, RunStep(m) PROVE Alone'
  BY <1>2, RunsInProgress, OthersRemember DEF Remembers
<1>3. CASE Crash
  BY <1>3 DEF Crash, End
<1>4. CASE UNCHANGED pc
  BY <1>4
<1>. QED
  BY <1>1, <1>2, <1>3, <1>4 DEF Next, TaskStep, Expire, vars

(* A task that is alive keeps its run in progress, so that a run meets no  *)
(* task but its own.                                                       *)
LEMMA TaskIsOwn ==
  ASSUME Alone, TaskOfHold, NEW m \in Masters, InProgress(m), NEW t \in Masters, Alive(t)
  PROVE  t = m
BY DEF Alone, TaskOfHold, InProgress, Holding

LEMMA TaskOfHoldPreserved ==
  ASSUME OneAtATime, TypeInv, TaskInv, Alone, TaskOfHold, [Next]_vars
  PROVE  TaskOfHold'
<1>. USE DEF TypeInv, SharedTypeOK, LocalTypeOK, TrackerTypeOK
<1>1. ASSUME NEW m \in Masters, Start(m) PROVE TaskOfHold'
  <2>1. \A t \in Masters : ~Alive(t)
    BY <1>1 DEF Start, TaskOfHold, InProgress, Holding
  <2>. QED
    BY <1>1, <2>1 DEF Start, TaskOfHold, Alive, trackerVars, tracker
<1>2. ASSUME NEW m \in Masters, RunStep(m) PROVE TaskOfHold'
  <2>1. \A t \in Masters : Alive(t) => t = m
    BY <1>2, TaskIsOwn, RunsInProgress
  <2>2. CASE UNCHANGED tasks /\ (Holding(m) => Holding(m)') /\ pc[m] # "await"
    BY <2>1, <2>2 DEF TaskOfHold, Alive, tasks
  <2>3. CASE HoldBegun(m)
    BY <2>1, <2>3 DEF HoldBegun, Launch, Goto, TaskInv, BeforeLaunch, TaskOfHold, Alive, Holding
  <2>4. CASE StopHold(m) /\ pc[m] \in {"load_marks", "saga"}
    <3>1. CASE HasTask
      BY <2>1, <2>4, <3>1 DEF StopHold, HasTask, CancelTask, Goto, TaskOfHold, Alive
    <3>2. CASE ~HasTask
      BY <2>1, <2>4, <3>2, TrackerAssumption
      DEF StopHold, HasTask, TaskOfHold, Alive, trackerVars, tracker
    <3>. QED
      BY <3>1, <3>2
  <2>5. CASE TaskGone(m)
    BY <2>1, <2>5 DEF TaskGone, Unregister, TaskOfHold, Alive, Holding, trackerVars, tracker
  <2>. QED
    BY <1>2, <2>2, <2>3, <2>4, <2>5, RunAndTasks
<1>3. ASSUME NEW t \in Masters, TaskStep(t) PROVE TaskOfHold'
  BY <1>3, TaskMoves DEF TaskStep, locals, TaskOfHold, Alive, Holding
<1>4. CASE Crash
  BY <1>4 DEF Crash, TasksDie, TaskOfHold, Alive
<1>5. CASE UNCHANGED <<tasks, pc, waiting>>
  BY <1>5 DEF tasks, TaskOfHold, Alive, Holding
<1>. QED
  BY <1>1, <1>2, <1>3, <1>4, <1>5
  DEF Next, LateRequest, Expire, vars, tasks, trackerVars, tracker, locals

HoldInv == TypeInv /\ TaskInv /\ Alone /\ TaskOfHold

LEMMA HoldHolds ==
  ASSUME OneAtATime
  PROVE  Spec => []HoldInv
<1>1. ASSUME Init PROVE HoldInv
  <2>1. TaskInv
    BY <1>1 DEF Init, TrackerInit, TaskInv, Alive, AwaitedIsCancelled, BeforeLaunch
  <2>2. Alone /\ TaskOfHold
    BY <1>1 DEF Init, TrackerInit, Alone, InProgress, TaskOfHold, Alive
  <2>. QED
    BY <1>1, <2>1, <2>2, TypeInit DEF HoldInv
<1>2. HoldInv /\ [Next]_vars => HoldInv'
  BY TypePreserved, TasksPreserved, AlonePreserved, TaskOfHoldPreserved DEF HoldInv
<1>. QED
  BY <1>1, <1>2, PTL DEF Spec

(* While one run is served at a time, no progress task outlives the hold   *)
(* it was created for. *)
THEOREM NoStrayTask ==
  ASSUME OneAtATime
  PROVE  Spec => []TaskHasHold
<1>1. HoldInv => TaskHasHold
  BY DEF HoldInv, TaskOfHold, TaskHasHold
<1>. QED
  BY <1>1, HoldHolds, PTL

-----------------------------------------------------------------------------
(* What a run asks of FreeSWITCH, and what precedes its answer.            *)
LEMMA RunAndMusic ==
  ASSUME TypeInv, NEW m \in Masters, Start(m) \/ RunStep(m)
  PROVE  /\ UNCHANGED moh \/ MusicStarts(m) \/ MusicStops(m)
         /\ pc'[m] = "unhold" => MusicStops(m)
         /\ pc'[m] = "consolidate" => HoldEnds(m)
<1>. USE DEF TypeInv, LocalTypeOK, trackerVars, moh, Goto
<1>1. CASE LoadFails(m) \/ HangUp(m) \/ DirectResponse(m) \/ Answer(m) \/ HandOff(m)
  BY <1>1 DEF LoadFails, HangUp, DirectResponse, Answer, HandOff, End
<1>2. CASE Start(m) \/ LoadState(m) \/ CaptureIntent(m) \/ IntentFails(m) \/ SaveIntent(m)
  BY <1>2 DEF Start, LoadState, CaptureIntent, IntentFails, SaveIntent
<1>3. CASE SaveFails(m) \/ Verified(m) \/ NotVerified(m) \/ Eligible(m) \/ NotEligible(m)
  BY <1>3 DEF SaveFails, Verified, NotVerified, Eligible, NotEligible
<1>4. CASE DuesAnswered(m) \/ DuesUnknown(m) \/ Paid(m) \/ NotPaid(m) \/ Raises(m)
  BY <1>4 DEF DuesAnswered, DuesUnknown, Paid, NotPaid, Raises
<1>5. CASE BeginHold(m) \/ MusicStarts(m) \/ HoldBegun(m) \/ LoadMarks(m)
  BY <1>5 DEF BeginHold, RecordHold, MusicStarts, HoldBegun, Launch, LoadMarks
<1>6. ASSUME NEW i \in StepsOf(m), StepMoves(m, i) PROVE UNCHANGED <<moh, pc>> /\ pc[m] = "saga"
  <2>1. CASE BeginStep(m, i) \/ SmeReturns(m, i) \/ WriteProgress(m, i) \/ GatesPassed(m, i)
    BY <2>1 DEF BeginStep, SmeReturns, WriteProgress, AddProgress, GatesPassed, At
  <2>2. CASE AttemptRaises(m, i) \/ RecordCompleted(m, i) \/ RecordSkipped(m, i)
    BY <2>2 DEF AttemptRaises, RecordCompleted, RecordSkipped, At
  <2>. QED
    BY <1>6, <2>1, <2>2 DEF StepMoves
<1>7. CASE SagaReturns(m) \/ SagaHalts(m) \/ SagaRaises(m)
  BY <1>7 DEF SagaReturns, SagaHalts, SagaRaises, StopHold, CancelTask
<1>8. CASE TaskGone(m) \/ MusicStops(m) \/ HoldEnds(m) \/ AnswerHalted(m) \/ Apologise(m)
  BY <1>8 DEF TaskGone, Unregister, MusicStops, HoldEnds, RecordOffHold, AnswerHalted, Apologise
<1>. QED
  BY <1>1, <1>2, <1>3, <1>4, <1>5, <1>6, <1>7, <1>8
  DEF RunStep, BeforeHold, OnHold, AfterHold

LEMMA AstrayGrows ==
  ASSUME TypeInv, NEW q, Requested(q)
  PROVE  \/ music' = (q = "start") /\ UNCHANGED <<late, astray>>
         \/ astray' > 0
<1>1. CASE Carried(q)
  BY <1>1 DEF Carried
<1>2. CASE GoesAstray(q)
  BY <1>2, TrackerAssumption DEF GoesAstray, TypeInv, SharedTypeOK, TrackerTypeOK
<1>. QED
  BY <1>1, <1>2 DEF Requested

LEMMA QuietPreserved ==
  ASSUME OneAtATime, HoldInv, QuietAfterHold, [Next]_vars
  PROVE  QuietAfterHold'
<1>. USE DEF QuietAfterHold, UpdateOverSilence, AnsweredOffHold
<1>1. ASSUME NEW m \in Masters, Start(m) \/ RunStep(m) PROVE QuietAfterHold'
  <2>1. ASSUME NEW n \in Masters \ {m} PROVE pc'[n] \notin {"unhold", "consolidate"}
    BY <1>1, RunsInProgress, OthersRemember
    DEF HoldInv, Alone, InProgress, Remembers, Start
  <2>2. ASSUME NEW t \in Masters, loop'[t] = "say"
        PROVE  loop[t] = "say" /\ ~MusicStarts(m) /\ ~MusicStops(m)
    <3>1. loop[t] = "say"
      BY <1>1, <2>2, RunAndTasks
      DEF HoldInv, TypeInv, SharedTypeOK, TrackerTypeOK, tasks, HoldBegun, Launch, StopHold, CancelTask,
          TaskGone, Unregister, trackerVars, tracker
    <3>2. Alive(t) /\ InProgress(t)
      BY <3>1 DEF HoldInv, TaskOfHold, Holding, InProgress, Alive
    <3>. QED
      BY <1>1, <3>1, <3>2 DEF HoldInv, Alone, InProgress, TaskOfHold, Holding, MusicStarts, MusicStops
  <2>3. \/ UNCHANGED moh /\ pc'[m] # "unhold"
        \/ MusicStarts(m) /\ Requested("start") /\ pc'[m] = "opening"
        \/ MusicStops(m) /\ Requested("stop") /\ pc'[m] = "unhold"
    BY <1>1, RunAndMusic
    DEF MusicStarts, MusicStops, Goto, HoldInv, TypeInv, LocalTypeOK
  <2>4. pc'[m] = "consolidate" => pc[m] = "unhold" /\ ~onHold' /\ UNCHANGED moh
    BY <1>1, RunAndMusic DEF HoldInv, HoldEnds, RecordOffHold
  <2>5. CASE astray' > 0
    BY <2>1, <2>4, <2>5
  <2>6. CASE UNCHANGED moh /\ pc'[m] # "unhold"
    BY <2>1, <2>2, <2>4, <2>6 DEF moh
  <2>7. CASE MusicStarts(m) /\ Requested("start") /\ pc'[m] = "opening"
    BY <2>1, <2>2, <2>5, <2>7, AstrayGrows DEF HoldInv
  <2>8. CASE MusicStops(m) /\ Requested("stop") /\ pc'[m] = "unhold"
    BY <2>1, <2>2, <2>5, <2>8, AstrayGrows DEF HoldInv
  <2>. QED
    BY <2>3, <2>6, <2>7, <2>8
<1>2. ASSUME NEW t \in Masters, TaskStep(t) PROVE QuietAfterHold'
  <2>1. InProgress(t) /\ pc[t] \notin {"unhold", "consolidate"}
    <3>1. Alive(t)
      BY <1>2, TaskMoves DEF TaskStep, HoldInv, TaskInv
    <3>. QED
      BY <3>1 DEF HoldInv, TaskOfHold, Holding, InProgress
  <2>2. \A m \in Masters : pc'[m] \notin {"unhold", "consolidate"}
    BY <1>2, <2>1 DEF TaskStep, HoldInv, Alone, InProgress
  <2>3. \A s \in Masters \ {t} : loop'[s] # "say"
    BY <1>2, <2>1, TaskMoves, TaskIsOwn
    DEF TaskStep, HoldInv, Alive, TypeInv, SharedTypeOK, TrackerTypeOK
  <2>4. \/ UNCHANGED moh /\ loop'[t] # "say"
        \/ Requested("start") /\ loop'[t] # "say"
        \/ Requested("stop")
    BY <1>2 DEF TaskStep, LoopStep, Tick, LoopFails, Composed, Muted, Said, Unmuted, Cancelled,
       HoldInv, TypeInv, SharedTypeOK, TrackerTypeOK
  <2>. QED
    BY <2>2, <2>3, <2>4, AstrayGrows DEF HoldInv, moh
<1>3. CASE LateRequest /\ UNCHANGED <<redis, owed, pc, locals, history>>
  BY <1>3 DEF LateRequest, tracker
<1>4. CASE Crash
  <2>1. /\ \A m \in Masters : pc'[m] \notin {"unhold", "consolidate"} /\ loop'[m] # "say"
        /\ UNCHANGED moh \/ \E q \in Requests : Requested(q)
    BY <1>4 DEF Crash, End, InProgress, TasksDie, Outstanding
  <2>. QED
    BY <2>1, AstrayGrows DEF HoldInv, moh
<1>5. CASE UNCHANGED <<trackerVars, pc>>
  BY <1>5 DEF trackerVars, tracker, moh
<1>. QED
  BY <1>1, <1>2, <1>3, <1>4, <1>5 DEF Next, Expire, vars

LEMMA QuietHolds ==
  ASSUME OneAtATime
  PROVE  Spec => []QuietAfterHold
<1>1. Init => QuietAfterHold
  BY DEF Init, TrackerInit, QuietAfterHold, UpdateOverSilence, AnsweredOffHold
<1>. QED
  BY <1>1, QuietPreserved, HoldHolds, PTL DEF Spec

(* One run at a time plays an update only after it has stopped the music,  *)
(* unless a request for music went astray: deliver_update against          *)
(* start_hold, stop_hold and the loop's own restart of the music. *)
THEOREM UpdatesHeardClearly ==
  ASSUME OneAtATime
  PROVE  Spec => []UpdateOverSilence
BY QuietHolds, PTL DEF QuietAfterHold

(* The answer of a run is not played over the music of its own hold. *)
THEOREM AnswerHeardClearly ==
  ASSUME OneAtATime
  PROVE  Spec => []AnsweredOffHold
BY QuietHolds, PTL DEF QuietAfterHold

-----------------------------------------------------------------------------
(* What was served stays served.                                           *)
LEMMA ServedGrows ==
  ASSUME NEW m \in Masters, Start(m) \/ RunStep(m)
  PROVE  succeeded \subseteq succeeded' /\ (intentLost => intentLost')
<1>. USE DEF history
<1>1. CASE Start(m) \/ BeforeHold(m)
  <2>1. CASE SaveFails(m)
    BY <2>1 DEF SaveFails
  <2>2. UNCHANGED <<succeeded, intentLost>> \/ SaveFails(m)
    BY <1>1 DEF Start, BeforeHold, LoadState, LoadFails, CaptureIntent, IntentFails, SaveIntent,
       Verified, NotVerified, HangUp, Eligible, NotEligible, DuesAnswered, DuesUnknown, Paid,
       NotPaid, Raises
  <2>. QED
    BY <2>1, <2>2
<1>2. ASSUME NEW i \in StepsOf(m), StepMoves(m, i)
      PROVE  succeeded \subseteq succeeded' /\ (intentLost => intentLost')
  BY <1>2 DEF StepMoves, BeginStep, SmeReturns, WriteProgress, GatesPassed, AttemptRaises,
     RecordCompleted, RecordSkipped
<1>3. CASE (OnHold(m) /\ ~\E i \in StepsOf(m) : StepMoves(m, i)) \/ AfterHold(m)
  BY <1>3 DEF OnHold, AfterHold, DirectResponse, BeginHold, MusicStarts, HoldBegun, LoadMarks,
     SagaReturns, SagaHalts, SagaRaises, TaskGone, MusicStops, HoldEnds, Answer, AnswerHalted,
     Apologise, HandOff
<1>. QED
  BY <1>1, <1>2, <1>3 DEF RunStep, OnHold

LEMMA ServedBeforeHold ==
  ASSUME OneAtATime, TypeInv, Alone, ServedInv,
         NEW m \in Masters, Start(m) \/ BeforeHold(m)
  PROVE  MarksOfIntent' /\ RunServes(m)'
<1>. USE DEF TypeInv, SharedTypeOK, LocalTypeOK, ServedInv, MarksOfIntent, RunServes, NotYetReported,
         BeforeLaunch, Serving, Planned, StepsOf, redis, locals, saga, history, Goto
<1>1. CASE LoadFails(m) \/ HangUp(m)
  BY <1>1 DEF LoadFails, HangUp, End
<1>2. CASE Start(m) \/ IntentFails(m) \/ SaveFails(m)
  BY <1>2 DEF Start, IntentFails, SaveFails
<1>3. CASE LoadState(m) \/ CaptureIntent(m)
  BY <1>3 DEF LoadState, CaptureIntent
<1>4. CASE SaveIntent(m)
  BY <1>4 DEF SaveIntent
<1>5. CASE Verified(m) \/ NotVerified(m) \/ Eligible(m) \/ NotEligible(m)
  BY <1>5 DEF Verified, NotVerified, Eligible, NotEligible
<1>6. CASE DuesAnswered(m) \/ DuesUnknown(m)
  BY <1>6 DEF DuesAnswered, DuesUnknown
<1>7. CASE Paid(m) \/ NotPaid(m) \/ Raises(m)
  BY <1>7 DEF Paid, NotPaid, Raises
<1>. QED
  BY <1>1, <1>2, <1>3, <1>4, <1>5, <1>6, <1>7 DEF BeforeHold

LEMMA ServedByStep ==
  ASSUME TypeInv, ServedInv, NEW m \in Masters, NEW i \in StepsOf(m), StepMoves(m, i)
  PROVE  MarksOfIntent' /\ RunServes(m)'
<1>. USE DEF TypeInv, LocalTypeOK, RunTypeOK, StepsTypeOK, ServedInv, MarksOfIntent, RunServes,
         NotYetReported, BeforeLaunch, Serving, Planned, redis, history, At, StepGoes
<1>1. /\ pc[m] = "saga" /\ StepsTypeOK(m) /\ UNCHANGED <<pc, plan, status, saved>>
      /\ StepsOf(m)' = StepsOf(m) /\ StepsOf(m) = DOMAIN plan[m]
  BY DEF StepsOf, StepMoves, BeginStep, SmeReturns, WriteProgress, GatesPassed, AttemptRaises,
     RecordCompleted, RecordSkipped
<1>2. ASSUME UNCHANGED <<marks, succeeded, intentLost>>,
             step' = [step EXCEPT ![m][i] = step'[m][i]], step'[m][i] \notin {"ok", "done"}
      PROVE  MarksOfIntent' /\ RunServes(m)'
  <2>1. \A j \in StepsOf(m) : step'[m][j] \in {"ok", "done"} => step[m][j] = step'[m][j]
    BY <1>1, <1>2 DEF AreFunctions
  <2>. QED
    BY <1>1, <1>2, <2>1
<1>3. CASE GatesPassed(m, i)
  BY <1>1, <1>3 DEF GatesPassed
<1>4. CASE RecordCompleted(m, i)
  BY <1>1, <1>4 DEF RecordCompleted
<1>5. CASE ~GatesPassed(m, i) /\ ~RecordCompleted(m, i)
  <2>1. /\ UNCHANGED <<marks, succeeded, intentLost>>
        /\ \E state \in StepStates \ {"ok", "done"} : StepGoes(m, i, state)
    BY <1>5 DEF StepMoves, BeginStep, SmeReturns, WriteProgress, AttemptRaises, RecordSkipped,
       StepStates
  <2>. QED
    BY <1>1, <1>2, <2>1
<1>. QED
  BY <1>3, <1>4, <1>5

LEMMA ServedOnHold ==
  ASSUME TypeInv, ServedInv, NEW m \in Masters, OnHold(m) \/ AfterHold(m)
  PROVE  MarksOfIntent' /\ RunServes(m)'
<1>. USE DEF TypeInv, SharedTypeOK, LocalTypeOK, ServedInv, MarksOfIntent, RunServes, NotYetReported,
         BeforeLaunch, Serving, Planned, StepsOf, redis, locals, saga, history, Goto
<1>1. ASSUME NEW i \in StepsOf(m), StepMoves(m, i) PROVE MarksOfIntent' /\ RunServes(m)'
  BY <1>1, ServedByStep
<1>2. CASE DirectResponse(m) \/ Answer(m) \/ HandOff(m)
  BY <1>2 DEF DirectResponse, Answer, HandOff, End
<1>3. CASE BeginHold(m) \/ MusicStarts(m) \/ HoldBegun(m)
  BY <1>3 DEF BeginHold, MusicStarts, HoldBegun
<1>4. CASE LoadMarks(m)
  <2>1. step'[m] = [i \in StepsOf(m) |-> IF i \in marks THEN "done" ELSE "idle"]
    BY <1>4 DEF LoadMarks, AreFunctions
  <2>2. \A i \in StepsOf(m) : step'[m][i] \in {"ok", "done"} => i \in marks
    BY <2>1
  <2>3. UNCHANGED <<plan, saved, marks, status, succeeded, intentLost>> /\ pc[m] = "load_marks"
        /\ pc'[m] = "saga"
    BY <1>4 DEF LoadMarks
  <2>4. ~intentLost => \A i \in StepsOf(m) : i \in marks => plan[m][i] \in succeeded
    BY <2>3
  <2>. QED
    BY <2>2, <2>3, <2>4
<1>5. CASE SagaReturns(m) \/ SagaHalts(m) \/ SagaRaises(m)
  <2>1. pc'[m] \in {"await", "unmoh"}
    BY <1>5 DEF SagaReturns, SagaHalts, SagaRaises, StopHold
  <2>2. /\ UNCHANGED <<plan, succeeded, intentLost>>
        /\ UNCHANGED <<saved, marks>> \/ (saved' = NoIntent /\ marks' = {})
    <3>1. CASE SagaReturns(m)
      BY <3>1 DEF SagaReturns
    <3>. QED
      BY <1>5, <3>1 DEF SagaHalts, SagaRaises
  <2>3. status'[m] = "completed" =>
          \/ status[m] = "completed"
          \/ pc[m] = "saga" /\ \A i \in StepsOf(m) : step[m][i] = "done"
    BY <1>5 DEF SagaReturns, SagaHalts, SagaRaises
  <2>. QED
    BY <2>1, <2>2, <2>3
<1>6. CASE TaskGone(m) \/ MusicStops(m) \/ HoldEnds(m)
  BY <1>6 DEF TaskGone, MusicStops, HoldEnds
<1>7. CASE AnswerHalted(m) \/ Apologise(m)
  BY <1>7 DEF AnswerHalted, Apologise
<1>. QED
  BY <1>1, <1>2, <1>3, <1>4, <1>5, <1>6, <1>7 DEF OnHold, AfterHold

LEMMA ServedPreserved ==
  ASSUME OneAtATime, TypeInv, Alone, ServedInv, [Next]_vars
  PROVE  ServedInv'
<1>1. ASSUME NEW m \in Masters, Start(m) \/ RunStep(m) PROVE ServedInv'
  <2>1. MarksOfIntent' /\ RunServes(m)'
    BY <1>1, ServedBeforeHold, ServedOnHold DEF RunStep
  <2>2. ASSUME NEW n \in Masters \ {m} PROVE RunServes(n)'
    <3>1. Remembers(n) /\ pc[n] \in {"idle", "ended"}
      BY <1>1, OthersRemember, RunsInProgress DEF Alone, InProgress, Start
    <3>2. succeeded \subseteq succeeded' /\ (intentLost => intentLost')
      BY <1>1, ServedGrows
    <3>. QED
      BY <3>1, <3>2 DEF ServedInv, RunServes, Remembers, Serving, Planned, StepsOf
  <2>. QED
    BY <2>1, <2>2 DEF ServedInv
<1>2. CASE Crash
  <2>. DEFINE runs == {m \in Masters : InProgress(m)}
  <2>1. End(runs) /\ UNCHANGED <<redis, succeeded, intentLost>>
    BY <1>2 DEF Crash
  <2>2. ASSUME NEW n \in Masters PROVE RunServes(n)'
    <3>1. CASE n \in runs
      BY <2>1, <3>1 DEF End, RunServes, NotYetReported, BeforeLaunch, Serving, Planned
    <3>2. CASE n \notin runs
      BY <2>1, <3>2, EndRemembers
      DEF ServedInv, RunServes, Remembers, InProgress, Serving, Planned, StepsOf
    <3>. QED
      BY <3>1, <3>2
  <2>. QED
    BY <2>1, <2>2 DEF ServedInv, MarksOfIntent, redis
<1>3. CASE UNCHANGED <<redis, pc, locals, history>>
  BY <1>3 DEF ServedInv, MarksOfIntent, RunServes, StepsOf, redis, locals, saga, coroutines, history
<1>4. CASE Expire
  <2>1. intentLost' \/ (marks' = {} /\ UNCHANGED <<saved, intentLost>>)
    BY <1>4 DEF Expire
  <2>2. UNCHANGED <<pc, locals, succeeded>>
    BY <1>4 DEF Expire
  <2>. QED
    BY <2>1, <2>2 DEF ServedInv, MarksOfIntent, RunServes, StepsOf, locals, saga, coroutines
<1>. QED
  BY <1>1, <1>2, <1>3, <1>4 DEF Next, TaskStep, vars

(* A saga that is reported completed has served every domain of the        *)
(* intent, though its steps are marked by number and the process crashes,  *)
(* unless an intent was not saved or expired before its marks. *)
THEOREM CompletedServes ==
  ASSUME OneAtATime
  PROVE  Spec => []CompletedMeansServed
<1>1. Init => ServedInv
  BY DEF Init, ServedInv, MarksOfIntent, RunServes, Serving, Planned
<1>2. HoldInv => TypeInv /\ Alone
  BY DEF HoldInv
<1>3. ServedInv => CompletedMeansServed
  BY DEF ServedInv, RunServes, CompletedMeansServed
<1>. QED
  BY <1>1, <1>2, <1>3, ServedPreserved, HoldHolds, PTL DEF Spec

-----------------------------------------------------------------------------
LEMMA ProgressByStep ==
  ASSUME TypeInv, ProgressOfHold, NEW m \in Masters, NEW i \in StepsOf(m), StepMoves(m, i)
  PROVE  /\ UNCHANGED pc /\ pc[m] = "saga"
         /\ progress' \subseteq Begun(m)'
         /\ \A j \in StepsOf(m)' : snapshot'[m][j] \subseteq Begun(m)'
<1>. USE DEF TypeInv, LocalTypeOK, AreFunctions, RunTypeOK, StepsTypeOK, ProgressOfHold, At, StepGoes,
         trackerVars, tracker
<1>1. /\ pc[m] = "saga" /\ StepsTypeOK(m) /\ UNCHANGED <<pc, plan>>
  BY DEF StepMoves, BeginStep, SmeReturns, WriteProgress, GatesPassed, AttemptRaises,
     RecordCompleted, RecordSkipped
<1>2. StepsOf(m)' = StepsOf(m)
  BY <1>1 DEF StepsOf
<1>3. \E state \in StepStates \ {"idle"} : StepGoes(m, i, state)
  BY DEF StepMoves, BeginStep, SmeReturns, WriteProgress, GatesPassed, AttemptRaises,
     RecordCompleted, RecordSkipped, StepStates
<1>4. Begun(m) \subseteq Begun(m)' /\ plan[m][i] \in Begun(m)'
  BY <1>1, <1>2, <1>3 DEF Begun
<1>5. progress' \subseteq progress \cup snapshot[m][i] \cup {plan[m][i]}
  BY DEF StepMoves, BeginStep, SmeReturns, WriteProgress, AddProgress, GatesPassed,
     AttemptRaises, RecordCompleted, RecordSkipped
<1>6. \A j \in StepsOf(m) : snapshot'[m][j] \subseteq snapshot[m][j] \cup progress
  BY <1>1 DEF StepMoves, BeginStep, SmeReturns, WriteProgress, GatesPassed, AttemptRaises,
     RecordCompleted, RecordSkipped
<1>. QED
  BY <1>1, <1>2, <1>4, <1>5, <1>6

(* Where the progress state is reset, and what leads to a hold.            *)
LEMMA RunAndProgress ==
  ASSUME TypeInv, NEW m \in Masters, Start(m) \/ RunStep(m)
  PROVE  \/ BeginHold(m) \/ LoadMarks(m) \/ \E i \in StepsOf(m) : StepMoves(m, i)
         \/ /\ UNCHANGED progress
            /\ pc'[m] \in {"moh", "opening", "load_marks"} => pc[m] \in {"moh", "opening"}
            /\ pc'[m] # "saga"
<1>. USE DEF TypeInv, LocalTypeOK, trackerVars, tracker, Goto
<1>1. CASE LoadFails(m) \/ HangUp(m) \/ DirectResponse(m) \/ Answer(m) \/ HandOff(m)
  BY <1>1 DEF LoadFails, HangUp, DirectResponse, Answer, HandOff, End
<1>2. CASE Start(m) \/ LoadState(m) \/ CaptureIntent(m) \/ IntentFails(m) \/ SaveIntent(m)
  BY <1>2 DEF Start, LoadState, CaptureIntent, IntentFails, SaveIntent
<1>3. CASE SaveFails(m) \/ Verified(m) \/ NotVerified(m) \/ Eligible(m) \/ NotEligible(m)
  BY <1>3 DEF SaveFails, Verified, NotVerified, Eligible, NotEligible
<1>4. CASE DuesAnswered(m) \/ DuesUnknown(m) \/ Paid(m) \/ NotPaid(m) \/ Raises(m)
  BY <1>4 DEF DuesAnswered, DuesUnknown, Paid, NotPaid, Raises
<1>5. CASE MusicStarts(m) \/ HoldBegun(m)
  BY <1>5 DEF MusicStarts, HoldBegun, Launch
<1>6. CASE SagaReturns(m) \/ SagaHalts(m) \/ SagaRaises(m)
  BY <1>6 DEF SagaReturns, SagaHalts, SagaRaises, StopHold, CancelTask
<1>7. CASE TaskGone(m) \/ MusicStops(m) \/ HoldEnds(m) \/ AnswerHalted(m) \/ Apologise(m)
  BY <1>7 DEF TaskGone, Unregister, MusicStops, HoldEnds, RecordOffHold, AnswerHalted, Apologise
<1>. QED
  BY <1>1, <1>2, <1>3, <1>4, <1>5, <1>6, <1>7 DEF RunStep, BeforeHold, OnHold, AfterHold

(* While one run is served at a time, an update names only domains whose   *)
(* step this hold has begun. *)
THEOREM ProgressStaysCurrent ==
  ASSUME OneAtATime
  PROVE  Spec => []ProgressIsCurrent
<1>1. Init => ProgressOfHold
  BY DEF Init, ProgressOfHold
<1>2. HoldInv /\ ProgressOfHold /\ [Next]_vars => ProgressOfHold'
  <2>. SUFFICES ASSUME HoldInv, ProgressOfHold, [Next]_vars PROVE ProgressOfHold'
    OBVIOUS
  <2>1. ASSUME NEW m \in Masters, Start(m) \/ RunStep(m) PROVE ProgressOfHold'
    <3>1. ASSUME NEW n \in Masters \ {m} PROVE pc'[n] \in {"idle", "ended"}
      BY <2>1, OthersRemember, RunsInProgress
      DEF HoldInv, Alone, InProgress, Start, Remembers
    <3>2. CASE \E i \in StepsOf(m) : StepMoves(m, i)
      BY <3>1, <3>2, ProgressByStep DEF HoldInv, ProgressOfHold
    <3>3. CASE BeginHold(m)
      BY <3>1, <3>3 DEF BeginHold, RecordHold, Goto, HoldInv, TypeInv, LocalTypeOK, ProgressOfHold
    <3>4. CASE LoadMarks(m)
      <4>1. pc[m] = "load_marks" /\ pc'[m] = "saga" /\ UNCHANGED <<plan, progress>>
            /\ snapshot'[m] = [i \in StepsOf(m) |-> {}]
        BY <3>4 DEF LoadMarks, Goto, HoldInv, TypeInv, LocalTypeOK, AreFunctions, trackerVars, tracker
      <4>. QED
        BY <3>1, <4>1 DEF ProgressOfHold, StepsOf
    <3>5. CASE /\ UNCHANGED progress
               /\ pc'[m] \in {"moh", "opening", "load_marks"} => pc[m] \in {"moh", "opening"}
               /\ pc'[m] # "saga"
      BY <3>1, <3>5 DEF ProgressOfHold
    <3>. QED
      BY <2>1, <3>2, <3>3, <3>4, <3>5, RunAndProgress DEF HoldInv
  <2>2. CASE Crash
    BY <2>2 DEF Crash, End, ProgressOfHold, InProgress
  <2>3. ASSUME NEW t \in Masters, LoopStep(t), UNCHANGED <<pc, locals>> PROVE ProgressOfHold'
    BY <2>3, TaskMoves DEF HoldInv, ProgressOfHold, Begun, StepsOf, locals, saga, coroutines
  <2>4. CASE UNCHANGED <<progress, pc, locals>>
    BY <2>4 DEF ProgressOfHold, Begun, StepsOf, locals, saga, coroutines
  <2>. QED
    BY <2>1, <2>2, <2>3, <2>4 DEF Next, TaskStep, LateRequest, Expire, vars, trackerVars, tracker
<1>3. ProgressOfHold => ProgressIsCurrent
  BY DEF ProgressOfHold, ProgressIsCurrent, Begun
<1>. QED
  BY <1>1, <1>2, <1>3, HoldHolds, PTL DEF Spec
=============================================================================
