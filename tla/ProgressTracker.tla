--------------------------- MODULE ProgressTracker ---------------------------
(***************************************************************************)
(* services/ai-pipeline/progress_tracker.py: what the caller hears while a *)
(* Master Worker has SME tasks run.  start_hold turns the hold music on    *)
(* and starts an asyncio task that interrupts it with updates every 20 s;  *)
(* stop_hold cancels the task and turns the music off.  The tasks of a     *)
(* call are registered under its CID, one at a time.                       *)
(*                                                                         *)
(* A progress task is named by the master whose start_hold created it.     *)
(* The operators that take what the master does next as no part of theirs  *)
(* are conjuncts of the master's actions in MasterWorker.  The music is    *)
(* played by FreeSWITCH on request of the platform API.  A request whose   *)
(* sender no longer waits for it, because it timed out or was cancelled,   *)
(* is carried out or not; one to start the music possibly later (late).    *)
(***************************************************************************)
EXTENDS Integers, Sequences

CONSTANTS
  Masters,      \* runs of run_autonomous_session for this CID
  Domains,      \* SME domains
  NoTask,       \* _active_tasks has no entry
  MaxAstray     \* bound on the requests that go astray

ASSUME TrackerAssumption == NoTask \notin Masters /\ MaxAstray \in Nat

VARIABLES
  \* Redis
  onHold,       \* session hash: on_hold
  progress,     \* completed_tasks of session:{cid}.progress
  \* memory of the process
  registry,     \* _active_tasks[cid]
  loop,         \* where a progress task awaits
  cancelled,    \* tasks whose cancellation was requested, not yet done
  \* FreeSWITCH
  music,        \* hold music is playing
  late,         \* a request to start it that nobody waits for is on its way
  \* history
  astray        \* requests that failed or whose sender did not wait for them

tracker == <<onHold, progress, registry, loop, cancelled>>
moh == <<music, late, astray>>
trackerVars == <<tracker, moh>>

Requests == {"start", "stop"}

TrackerTypeOK ==
  /\ onHold \in BOOLEAN
  /\ progress \subseteq Domains
  /\ registry \in Masters \cup {NoTask}
  /\ loop \in [Masters -> {"none", "sleep", "compose", "mute", "say", "unmute", "done"}]
  /\ cancelled \subseteq Masters
  /\ music \in BOOLEAN
  /\ late \in BOOLEAN
  /\ astray \in 0..MaxAstray

TrackerInit ==
  /\ onHold = FALSE
  /\ progress = {}
  /\ registry = NoTask
  /\ loop = [t \in Masters |-> "none"]
  /\ cancelled = {}
  /\ music = FALSE
  /\ late = FALSE
  /\ astray = 0

(* not task.done() *)
Alive(t) == loop[t] \notin {"none", "done"}

-----------------------------------------------------------------------------
(* _start_moh and _stop_moh: the request is carried out, or an exception   *)
(* is swallowed whether or not it is, now or later.                        *)
Carried(q) ==
  /\ music' = (q = "start")
  /\ UNCHANGED <<late, astray>>

GoesAstray(q) ==
  /\ astray < MaxAstray
  /\ astray' = astray + 1
  /\ late' \in IF q = "start" THEN {late, TRUE} ELSE {late}
  /\ UNCHANGED music

Requested(q) == Carried(q) \/ GoesAstray(q)

LateRequest ==
  /\ late /\ late' = FALSE
  /\ music' = TRUE
  /\ UNCHANGED <<tracker, astray>>

-----------------------------------------------------------------------------
(* start_hold, up to the request that starts the music. *)
RecordHold ==
  /\ onHold' = TRUE
  /\ progress' = {}
  /\ UNCHANGED <<registry, loop, cancelled, moh>>

(* start_hold, after the opening message: a task of an earlier hold that   *)
(* is still there is cancelled, not awaited, and replaced in the registry. *)
Launch(m) ==
  /\ cancelled' = IF registry # NoTask /\ Alive(registry)
                  THEN cancelled \cup {registry} ELSE cancelled
  /\ registry' = m
  /\ loop' = [loop EXCEPT ![m] = "sleep"]
  /\ UNCHANGED <<onHold, progress, moh>>

(* update_progress: the read, and the write of what was read. *)
AddProgress(read, d) ==
  /\ progress' = read \cup {d}
  /\ UNCHANGED <<onHold, registry, loop, cancelled, moh>>

(* stop_hold has a task to cancel. *)
HasTask == registry # NoTask /\ Alive(registry)

CancelTask ==
  /\ cancelled' = cancelled \cup {registry}
  /\ UNCHANGED <<onHold, progress, registry, loop, moh>>

Unregister ==
  /\ registry' = NoTask
  /\ UNCHANGED <<onHold, progress, loop, cancelled, moh>>

RecordOffHold ==
  /\ onHold' = FALSE
  /\ UNCHANGED <<progress, registry, loop, cancelled, moh>>

-----------------------------------------------------------------------------
(* _progress_loop and _deliver_update.  A task whose cancellation was      *)
(* requested goes nowhere but to its end.                                  *)
Resumes(t, at) == loop[t] = at /\ t \notin cancelled

(* 20 s have passed: the progress state is read for the next update. *)
Tick(t) ==
  /\ Resumes(t, "sleep")
  /\ loop' = [loop EXCEPT ![t] = "compose"]
  /\ UNCHANGED <<onHold, progress, registry, cancelled, moh>>

(* Reading the progress state raises: the task ends for good. *)
LoopFails(t) ==
  /\ Resumes(t, "sleep")
  /\ loop' = [loop EXCEPT ![t] = "done"]
  /\ UNCHANGED <<onHold, progress, registry, cancelled, moh>>

(* _get_update_message has its text, from the LLM or the fallback. *)
Composed(t) ==
  /\ Resumes(t, "compose")
  /\ loop' = [loop EXCEPT ![t] = "mute"]
  /\ UNCHANGED <<onHold, progress, registry, cancelled, moh>>

(* Mutant of Muted: the update is played over the music. *)
MutedNot(t) ==
  /\ Resumes(t, "mute")
  /\ loop' = [loop EXCEPT ![t] = "say"]
  /\ UNCHANGED <<onHold, progress, registry, cancelled, moh>>

Muted(t) ==
  /\ Resumes(t, "mute")
  /\ loop' = [loop EXCEPT ![t] = "say"]
  /\ Requested("stop")
  /\ UNCHANGED <<onHold, progress, registry, cancelled>>

(* The update was played, or failed to be. *)
Said(t) ==
  /\ Resumes(t, "say")
  /\ loop' = [loop EXCEPT ![t] = "unmute"]
  /\ UNCHANGED <<onHold, progress, registry, cancelled, moh>>

Unmuted(t) ==
  /\ Resumes(t, "unmute")
  /\ loop' = [loop EXCEPT ![t] = "sleep"]
  /\ Requested("start")
  /\ UNCHANGED <<onHold, progress, registry, cancelled>>

(* CancelledError reaches the task at its await; a request it waits for    *)
(* was carried out, or is not, or will be.                                 *)
Cancelled(t) ==
  /\ t \in cancelled
  /\ loop' = [loop EXCEPT ![t] = "done"]
  /\ cancelled' = cancelled \ {t}
  /\ \/ loop[t] = "mute" /\ Requested("stop")
     \/ loop[t] = "unmute" /\ Requested("start")
     \/ loop[t] \notin {"mute", "unmute"} /\ UNCHANGED moh
  /\ UNCHANGED <<onHold, progress, registry>>

LoopStep(t) ==
  \/ Tick(t) \/ LoopFails(t) \/ Composed(t) \/ Muted(t) \/ Said(t)
  \/ Unmuted(t) \/ Cancelled(t)

(* The process dies and with it the registry and every task. *)
TasksDie ==
  /\ registry' = NoTask
  /\ loop' = [t \in Masters |-> IF loop[t] = "none" THEN "none" ELSE "done"]
  /\ cancelled' = {}
  /\ UNCHANGED <<onHold, progress>>
=============================================================================
