--------------------------- MODULE SilenceWatchdog ---------------------------
(***************************************************************************)
(* services/ai-pipeline/silence_watchdog.py and the tasks that drive it:   *)
(* start_session (session_manager.py), handle_user_turn and                *)
(* execute_platform_handoff (turn_loop.py), the end_call tool              *)
(* (tool_executor.py) and POST /session/{cid}/end (main.py).               *)
(*                                                                         *)
(* All of them are asyncio tasks of one event loop, so that a step of the  *)
(* model is the code between two awaits.  task.cancel() only requests the  *)
(* cancellation: the task dies at the await it stands at when the loop     *)
(* comes to it, and others may run before.                                 *)
(***************************************************************************)
EXTENDS Integers, FiniteSets

CONSTANTS
  Turns,          \* calls of handle_user_turn: utterances of the caller
  Enders,         \* platform_end_call tasks of the end_call tool
  Opening,        \* the start_session task
  MaxDogs,        \* bound on the watchdog tasks of the call
  FirstMessage,   \* TRUE: the agent has a first_message
  AdaptersWork    \* FALSE: every call of the STT and TTS adapters raises

FinalTier == 3                   \* SILENCE_TIERS has three, the last is_final
Dogs == 1..MaxDogs
NoDog == 0
Callers == {Opening} \cup Turns \cup Enders
Tasks == Callers \cup Dogs

ASSUME WatchdogAssumption ==
  /\ MaxDogs \in Nat \ {0}
  /\ FirstMessage \in BOOLEAN
  /\ AdaptersWork \in BOOLEAN
  /\ Opening \notin Turns \cup Enders
  /\ Turns \cap Enders = {}
  /\ Callers \cap Dogs = {}

VARIABLES
  \* Redis, session:{cid}
  hash,        \* the key: absent, written by start_session, deleted, or
               \* back with nothing but what a late hset wrote
  tier,        \* silence_tier
  \* memory of the process
  registry,    \* _watchdog_tasks[cid]
  spawned,     \* number of watchdog tasks created
  cancelled,   \* watchdogs whose cancellation was requested
  pc,          \* where each task awaits
  call,        \* the watchdog function a task is in, and where it returns to
  target,      \* the watchdog a canceller awaits
  overlaps,    \* history: how many calls of a watchdog function began
               \* while another was in progress
  start,       \* starting_tier of a watchdog
  config,      \* number of the silence_config a watchdog is at
  \* the world
  line,        \* the call: up or down
  failed       \* history: a hangup was refused, or a watchdog raised

redis == <<hash, tier>>
dogs == <<start, config>>
calls == <<call, target, overlaps>>
world == <<line, failed>>
vars == <<hash, tier, registry, spawned, cancelled, pc, call, target, overlaps, start,
          config, line, failed>>

NoCall == [op |-> "none", next |-> "done"]

TypeOK ==
  /\ hash \in {"absent", "whole", "deleted", "remnant"}
  /\ tier \in 0..FinalTier
  /\ registry \in Dogs \cup {NoDog}
  /\ spawned \in 0..MaxDogs
  /\ cancelled \subseteq 1..spawned
  /\ pc \in [Tasks -> {"idle", "first", "stt", "llm", "handoff", "play", "tier",
                       "cancel", "await", "spawn", "load", "sleep", "prompt",
                       "mark", "hangup", "flush", "done"}]
  /\ call \in [Tasks -> [op : {"none", "start", "reset", "end"},
                         next : {"tier", "done"}]]
  /\ target \in [Tasks -> Dogs \cup {NoDog}]
  /\ overlaps \in Nat
  /\ start \in [Dogs -> 0..FinalTier]
  /\ config \in [Dogs -> 0..(FinalTier + 1)]
  /\ line \in {"up", "down"}
  /\ failed \in BOOLEAN

Init ==
  /\ hash = "absent" /\ tier = 0
  /\ registry = NoDog /\ spawned = 0 /\ cancelled = {}
  /\ pc = [a \in Tasks |-> "idle"]
  /\ call = [a \in Tasks |-> NoCall]
  /\ target = [a \in Tasks |-> NoDog]
  /\ overlaps = 0
  /\ start = [d \in Dogs |-> 0]
  /\ config = [d \in Dogs |-> 0]
  /\ line = "up" /\ failed = FALSE

Goto(a, l) == pc' = [pc EXCEPT ![a] = l]

(* What the loop of a watchdog holds, and what a function of the watchdog  *)
(* does, is gone with them. *)
LoopEnds(d) ==
  /\ start' = [start EXCEPT ![d] = 0]
  /\ config' = [config EXCEPT ![d] = 0]

Over(d) ==
  /\ Goto(d, "done")
  /\ cancelled' = cancelled \ {d}
  /\ LoopEnds(d)

(* An hset creates the key it does not find. *)
Hset == hash' = IF hash = "deleted" THEN "remnant" ELSE hash

(* The task is in a function of the watchdog.  It enters one, to go on at  *)
(* next, whether or not others are in one.  (Others may run here even when *)
(* nothing is registered, where the code does not yield: a coarser model.) *)
Inside == {a \in Tasks : pc[a] \in {"cancel", "await", "spawn"}}

Enter(a, op, next) ==
  /\ Goto(a, "cancel")
  /\ call' = [call EXCEPT ![a] = [op |-> op, next |-> next]]
  /\ overlaps' = IF Inside = {} THEN overlaps ELSE overlaps + 1

Returns(a) ==
  /\ call' = [call EXCEPT ![a] = NoCall]
  /\ target' = [target EXCEPT ![a] = NoDog]
  /\ UNCHANGED overlaps

Alive(d) == d # NoDog /\ pc[d] # "done"

-----------------------------------------------------------------------------
(* Mutant: the cancelled task is not awaited. *)
CancelAtOnce(a) ==
  /\ pc[a] = "cancel"
  /\ Alive(registry)
  /\ registry # a
  /\ cancelled' = cancelled \cup {registry}
  /\ Goto(a, "await")
  /\ UNCHANGED <<redis, registry, spawned, calls, dogs, world>>

(* _cancel_watchdog: the registered task, if it is not done, is cancelled  *)
(* and awaited ... *)
Cancel(a) ==
  /\ pc[a] = "cancel"
  /\ Alive(registry)
  /\ registry # a
  /\ cancelled' = cancelled \cup {registry}
  /\ target' = [target EXCEPT ![a] = registry]
  /\ Goto(a, "await")
  /\ UNCHANGED <<redis, registry, spawned, call, overlaps, dogs, world>>

(* ... and with nothing to cancel, or once the task is done, the caller    *)
(* goes on.  A watchdog that cancels itself swallows the CancelledError.   *)
Cleared(a) ==
  \/ pc[a] = "cancel" /\ (~Alive(registry) \/ registry = a)
  \/ pc[a] = "await" /\ ~Alive(target[a])

(* start_silence_watchdog, and reset_silence_watchdog after its hset: the  *)
(* task is created and registered over whatever is registered by now. *)
Spawn(a) ==
  /\ \/ call[a].op = "start" /\ Cleared(a)
     \/ call[a].op = "reset" /\ pc[a] = "spawn"
  /\ spawned < MaxDogs
  /\ spawned' = spawned + 1
  /\ registry' = spawned + 1
  /\ pc' = [pc EXCEPT ![a] = call[a].next, ![spawned + 1] = "load"]
  /\ Returns(a)
  /\ UNCHANGED <<redis, cancelled, dogs, world>>

ZeroTier(a) ==
  /\ call[a].op = "reset"
  /\ Cleared(a)
  /\ tier' = 0
  /\ Hset
  /\ target' = [target EXCEPT ![a] = NoDog]
  /\ Goto(a, "spawn")
  /\ UNCHANGED <<registry, spawned, cancelled, call, overlaps, dogs, world>>

(* cancel_silence_watchdog, at the end of platform_end_call. *)
Unregister(a) ==
  /\ call[a].op = "end"
  /\ Cleared(a)
  /\ registry' = NoDog
  /\ Goto(a, "done")
  /\ Returns(a)
  /\ UNCHANGED <<redis, spawned, cancelled, dogs, world>>

-----------------------------------------------------------------------------
(* silence_watchdog: the task reads the tier to start from; from the last  *)
(* one on there is nothing to do ... *)
Load(d) ==
  /\ pc[d] = "load"
  /\ d \notin cancelled
  /\ \/ /\ tier < FinalTier
        /\ start' = [start EXCEPT ![d] = tier]
        /\ config' = [config EXCEPT ![d] = tier + 1]
        /\ Goto(d, "sleep")
        /\ UNCHANGED <<registry, cancelled>>
     \/ tier = FinalTier /\ Over(d) /\ registry' = NoDog
  /\ UNCHANGED <<redis, spawned, calls, world>>

(* ... sleeps, and goes on with a prompt if the tier is the one l.164      *)
(* expects and the session is still there ... *)
Expected(d) == start[d] + config[d] - 1

Wake(d) ==
  /\ pc[d] = "sleep"
  /\ d \notin cancelled
  /\ tier = Expected(d)
  /\ hash # "deleted"
  /\ Goto(d, "prompt")
  /\ UNCHANGED <<redis, registry, spawned, cancelled, calls, dogs, world>>

(* ... and ends otherwise, with the registry entry popped, whoever's it is. *)
Leave(d) ==
  /\ pc[d] = "sleep"
  /\ d \notin cancelled
  /\ tier # Expected(d) \/ hash = "deleted"
  /\ Over(d)
  /\ registry' = NoDog
  /\ UNCHANGED <<redis, spawned, calls, world>>

(* Mutant: no configuration is_final: the loop ends, and the call goes on. *)
PromptedNoneFinal(d) ==
  /\ pc[d] = "prompt"
  /\ d \notin cancelled
  /\ tier' = config[d]
  /\ Hset
  /\ \/ config[d] = FinalTier /\ Goto(d, "done") /\ LoopEnds(d)
     \/ /\ config[d] # FinalTier
        /\ Goto(d, "sleep")
        /\ config' = [config EXCEPT ![d] = @ + 1]
        /\ UNCHANGED start
  /\ UNCHANGED <<registry, spawned, cancelled, calls, world>>

(* The prompt is generated and played, interrupted or not, and the tier    *)
(* advances; after the last one the call is ended. *)
Prompted(d) ==
  /\ pc[d] = "prompt"
  /\ d \notin cancelled
  /\ tier' = config[d]
  /\ Hset
  /\ \/ config[d] = FinalTier /\ Goto(d, "mark") /\ LoopEnds(d)
     \/ /\ config[d] # FinalTier
        /\ Goto(d, "sleep")
        /\ config' = [config EXCEPT ![d] = @ + 1]
        /\ UNCHANGED start
  /\ UNCHANGED <<registry, spawned, cancelled, calls, world>>

(* The CancelledError reaches the watchdog.  Its finally pops the registry *)
(* entry, unless it had not begun to run. *)
Die(d) ==
  /\ d \in cancelled
  /\ pc[d] \notin {"idle", "done"}
  /\ Over(d)
  /\ Returns(d)
  /\ registry' = IF pc[d] = "load" THEN registry ELSE NoDog
  /\ UNCHANGED <<redis, spawned, world>>

-----------------------------------------------------------------------------
(* platform_end_call, of a watchdog or of the end_call tool: the reason is *)
(* set in the hash, the hangup requested, the session flushed, and the     *)
(* watchdog cancelled.  What is flushed is left out. *)
Running(a) == a \notin cancelled

Mark(a) ==
  /\ pc[a] = "mark"
  /\ Running(a)
  /\ Hset
  /\ Goto(a, "hangup")
  /\ UNCHANGED <<tier, registry, spawned, cancelled, calls, dogs, world>>

(* The hangup is carried out, or it fails and that is swallowed. *)
RequestHangup(a) ==
  /\ pc[a] = "hangup"
  /\ Running(a)
  /\ \/ line' = "down" /\ UNCHANGED failed
     \/ failed' = TRUE /\ UNCHANGED line
  /\ Goto(a, "flush")
  /\ UNCHANGED <<redis, registry, spawned, cancelled, calls, dogs>>

(* flush_session swallows its errors as well. *)
Flush(a) ==
  /\ pc[a] = "flush"
  /\ Running(a)
  /\ Enter(a, "end", "done")
  /\ UNCHANGED <<redis, registry, spawned, cancelled, target, dogs, line, failed>>

(* Redis, the LLM or the adapters raise inside a watchdog: it is over, its *)
(* finally pops the registry entry ... *)
WatchdogRaises(d) ==
  /\ pc[d] \in {"load", "sleep", "prompt", "mark", "hangup", "flush"}
  /\ d \notin cancelled
  /\ Over(d)
  /\ registry' = NoDog
  /\ failed' = TRUE
  /\ UNCHANGED <<redis, spawned, calls, line>>

(* ... or inside a turn or an ender, which goes no further: if that is in  *)
(* a reset, with no watchdog in place of the one cancelled. *)
Raises(a) ==
  /\ pc[a] \notin {"idle", "done"}
  /\ pc[a] \in {"cancel", "await"} => Cleared(a) /\ call[a].op = "reset"
  /\ Goto(a, "done")
  /\ Returns(a)
  /\ UNCHANGED <<redis, registry, spawned, cancelled, dogs, world>>

-----------------------------------------------------------------------------
(* start_session: the hash is written; without a first_message, or when    *)
(* the TTS raises, that is all. *)
Answer ==
  /\ pc[Opening] = "idle"
  /\ hash' = "whole"
  /\ tier' = 0
  /\ Goto(Opening, IF FirstMessage THEN "first" ELSE "done")
  /\ UNCHANGED <<registry, spawned, cancelled, calls, dogs, world>>

FirstPlayed ==
  /\ pc[Opening] = "first"
  /\ AdaptersWork
  /\ Enter(Opening, "start", "done")
  /\ UNCHANGED <<redis, registry, spawned, cancelled, target, dogs, world>>

FirstFailed ==
  /\ pc[Opening] = "first"
  /\ Goto(Opening, "done")
  /\ UNCHANGED <<redis, registry, spawned, cancelled, calls, dogs, world>>

(* handle_user_turn: the caller has spoken, over the first message or the  *)
(* answer to an earlier turn as may be. *)
InTurn(t) == pc[t] \notin {"idle", "done"}

Speak(t) ==
  /\ pc[t] = "idle"
  /\ pc[Opening] # "idle"
  /\ line = "up"
  /\ Goto(t, "stt")
  /\ UNCHANGED <<redis, registry, spawned, cancelled, calls, dogs, world>>

(* No text, or an error of the STT: the watchdog is reset and that is all. *)
NotUnderstood(t) ==
  /\ pc[t] = "stt"
  /\ Enter(t, "reset", "done")
  /\ UNCHANGED <<redis, registry, spawned, cancelled, target, dogs, world>>

Understood(t) ==
  /\ pc[t] = "stt"
  /\ AdaptersWork
  /\ Enter(t, "reset", "tier")
  /\ UNCHANGED <<redis, registry, spawned, cancelled, target, dogs, world>>

ZeroAgain(t) ==
  /\ pc[t] = "tier"
  /\ tier' = 0
  /\ Hset
  /\ Goto(t, "llm")
  /\ UNCHANGED <<registry, spawned, cancelled, calls, dogs, world>>

(* The LLM fails; or calls the tool end_call, which leaves platform_end_call *)
(* to a task of its own; or has an answer, or a trigger for a handoff.       *)
LlmFails(t) ==
  /\ pc[t] = "llm"
  /\ Enter(t, "reset", "done")
  /\ UNCHANGED <<redis, registry, spawned, cancelled, target, dogs, world>>

EndCallTool(t, e) ==
  /\ pc[t] = "llm"
  /\ pc[e] = "idle"
  /\ Goto(e, "mark")
  /\ UNCHANGED <<redis, registry, spawned, cancelled, calls, dogs, world>>

Answered(t) ==
  /\ pc[t] = "llm"
  /\ \E l \in {"play", "handoff"} : Goto(t, l)
  /\ UNCHANGED <<redis, registry, spawned, cancelled, calls, dogs, world>>

HandOff(t) ==
  /\ pc[t] = "handoff"
  /\ Hset
  /\ Goto(t, "done")
  /\ UNCHANGED <<tier, registry, spawned, cancelled, calls, dogs, world>>

(* The answer was played to its end, or not. *)
Played(t) ==
  /\ pc[t] = "play"
  /\ AdaptersWork
  /\ Enter(t, "start", "done")
  /\ UNCHANGED <<redis, registry, spawned, cancelled, target, dogs, world>>

Interrupted(t) ==
  /\ pc[t] = "play"
  /\ Goto(t, "done")
  /\ UNCHANGED <<redis, registry, spawned, cancelled, calls, dogs, world>>

-----------------------------------------------------------------------------
(* The caller hangs up; once the line is down, POST /session/{cid}/end     *)
(* deletes the session, and with it its fields. *)
HangUp ==
  /\ line = "up"
  /\ hash = "whole"
  /\ line' = "down"
  /\ UNCHANGED <<redis, registry, spawned, cancelled, pc, calls, dogs, failed>>

SessionEnd ==
  /\ line = "down"
  /\ hash = "whole"
  /\ hash' = "deleted"
  /\ tier' = 0
  /\ UNCHANGED <<registry, spawned, cancelled, pc, calls, dogs, world>>

-----------------------------------------------------------------------------
WatchdogCall(a) == Cancel(a) \/ Spawn(a) \/ ZeroTier(a) \/ Unregister(a)
EndCall(a) == Mark(a) \/ RequestHangup(a) \/ Flush(a)

DogStep(d) ==
  Load(d) \/ Wake(d) \/ Leave(d) \/ Prompted(d) \/ Die(d) \/ EndCall(d)
  \/ (d \notin cancelled /\ WatchdogCall(d))

EnderStep(e) == EndCall(e) \/ WatchdogCall(e)

OpeningStep == FirstPlayed \/ FirstFailed \/ WatchdogCall(Opening)

TurnStep(t) ==
  \/ NotUnderstood(t) \/ Understood(t) \/ ZeroAgain(t) \/ LlmFails(t) \/ Answered(t)
  \/ HandOff(t) \/ Played(t) \/ Interrupted(t) \/ WatchdogCall(t)

Next ==
  \/ Answer \/ OpeningStep \/ HangUp \/ SessionEnd
  \/ \E t \in Turns : Speak(t) \/ TurnStep(t) \/ \E e \in Enders : EndCallTool(t, e)
  \/ \E e \in Enders : EnderStep(e)
  \/ \E d \in Dogs : DogStep(d) \/ WatchdogRaises(d)
  \/ \E a \in Turns \cup Enders : Raises(a)

Spec == Init /\ [][Next]_vars

(* The event loop runs every task whose await is over, and every await is  *)
(* bounded: sleeps, Redis calls, HTTP calls with a timeout.  The caller    *)
(* owes nothing, neither speech nor a hangup, and nothing need raise. *)
FairSpec ==
  /\ Spec
  /\ WF_vars(OpeningStep)
  /\ \A t \in Turns : WF_vars(TurnStep(t))
  /\ \A e \in Enders : WF_vars(EnderStep(e))
  /\ \A d \in Dogs : WF_vars(DogStep(d))

-----------------------------------------------------------------------------
(* silence_watchdog.py l.100: an existing watchdog of the call is cancelled *)
(* first.  So while the call lasts no two of them are at work.  Does not   *)
(* hold: two callers that find none, or await the same one, start two. *)
AtWork(d) == pc[d] \notin {"idle", "done"} /\ d \notin cancelled
OneWatchdog ==
  line = "up" => \A d, e \in Dogs : AtWork(d) /\ AtWork(e) => d = e

(* What a reset or an end cannot find, since the registry does not name    *)
(* it, goes on prompting over the turns and may hang up on them.  It takes *)
(* two calls of the watchdog functions at once to make one such watchdog:  *)
(* they are never more than the calls that overlapped another, whoever     *)
(* dies, raises or pops whose entry in between. *)
Lost == {d \in Dogs : AtWork(d) /\ registry # d}
LostByOverlap == Cardinality(Lost) <= overlaps

(* silence_watchdog.py l.6-9: after the last tier the call is ended.  So a *)
(* caller who stays silent is hung up on, once a watchdog is at work.      *)
(* Does not hold: one that starts behind tier 0 expects the wrong tier.    *)
Quiet == pc[Opening] = "done" /\ \A t \in Turns : ~InTurn(t)
Watched == \E d \in Dogs : AtWork(d)

SilenceEndsTheCall == Quiet /\ Watched ~> line = "down" \/ ~Quiet

(* A watchdog that started at tier 0, is in step with the tier in Redis    *)
(* and is alone does end the silent call, in the face of an ender too:     *)
(* nothing but a turn, a hangup that fails or an exception keeps it from   *)
(* that.  One that is not alone may be taken out of step by the other. *)
InStep(d) == AtWork(d) /\ pc[d] = "sleep" /\ start[d] = 0 /\ tier = Expected(d)
Alone(d) == \A e \in Dogs \ {d} : pc[e] \in {"idle", "done"}

InStepEndsTheCall ==
  Quiet /\ (\E d \in Dogs : InStep(d) /\ Alone(d)) ~> line = "down" \/ failed \/ ~Quiet

=============================================================================
