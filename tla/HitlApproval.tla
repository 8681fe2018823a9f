----------------------------- MODULE HitlApproval -----------------------------
(***************************************************************************)
(* services/ai-pipeline/hitl_service.py and platform-api/src/autonomous/   *)
(* hitl.controller.ts: the supervisor approval of the high-risk steps of   *)
(* one call.  The step of the saga asks by the key hitl_pending and polls  *)
(* the key hitl_decision, both named by the CID alone; the supervisor's    *)
(* desktop lists what is pending, and the controller turns a click into a  *)
(* decision.  A step whose request was not approved raises, and            *)
(* _execute_step of the saga asks again until its attempts are used up.    *)
(***************************************************************************)
EXTENDS Integers, FiniteSets

CONSTANTS
  Gated,       \* the steps of the saga that need approval
  Attempts,    \* retry_count of these steps
  Overlap,     \* TRUE: the steps are one parallel batch
  Desks,       \* supervisors' desktops
  MaxPosts,    \* bound on the decisions posted by one desktop
  Direct       \* TRUE: the internal resolve endpoints are used too

ASSUME HitlAssumption ==
  /\ Attempts \in Nat
  /\ MaxPosts \in Nat
  /\ Overlap \in BOOLEAN
  /\ Direct \in BOOLEAN

Requests == Gated \X (1..Attempts)

(* The absent key.  What a desktop shows, and what a decision was meant    *)
(* for, is None when nobody looked. *)
None == <<>>

(* A decision with its history: the desktop and the how-manieth of its     *)
(* posts, the request that was on its screen, and the requests that were   *)
(* open when the decision was written. *)
Decision ==
  [says : {"approve", "reject", "timeout"}, by : Desks \cup {None}, nth : Nat,
   meant : Requests \cup {None}, during : SUBSET Requests]

VARIABLES
  \* Redis
  pending,     \* hitl_pending: the request last stored
  decision,    \* hitl_decision
  \* the steps of the saga
  pc,          \* where the step awaits
  attempt,     \* its current attempt
  taken,       \* the decision its current request returned
  orphans,     \* history: the requests in progress when the pipeline died
  \* the desktops and the handlers of their posts
  shown,       \* the request on the screen
  handler,     \* where the handler of the last post awaits
  choice,      \* what it will write
  posts        \* number of posts

steps == <<pc, attempt, taken, orphans>>
desks == <<shown, handler, choice, posts>>
vars == <<pending, decision, pc, attempt, taken, orphans, shown, handler, choice,
          posts>>

Request(g) == <<g, attempt[g]>>

(* The request has cleared the key and not yet had an answer. *)
Open == {Request(g) : g \in {h \in Gated : pc[h] \in {"store", "poll"}}}

Waiting(g) == pc[g] \in {"store", "poll", "consume", "clean"}

InProgress(g) == Waiting(g) \/ pc[g] = "acted"

TypeOK ==
  /\ pending \in Requests \cup {None}
  /\ decision \in Decision \cup {None}
  /\ pc \in [Gated -> {"idle", "store", "poll", "consume", "clean", "acted", "done"}]
  /\ attempt \in [Gated -> 0..Attempts]
  /\ taken \in [Gated -> Decision \cup {None}]
  /\ orphans \subseteq Requests
  /\ shown \in [Desks -> Requests \cup {None}]
  /\ handler \in [Desks -> {"idle", "posted", "validated"}]
  /\ choice \in [Desks -> {"approve", "reject"}]
  /\ posts \in [Desks -> Nat]

Init ==
  /\ pending = None
  /\ decision = None
  /\ pc = [g \in Gated |-> "idle"]
  /\ attempt = [g \in Gated |-> 0]
  /\ taken = [g \in Gated |-> None]
  /\ orphans = {}
  /\ shown = [v \in Desks |-> None]
  /\ handler = [v \in Desks |-> "idle"]
  /\ choice = [v \in Desks |-> "reject"]
  /\ posts = [v \in Desks |-> 0]

-----------------------------------------------------------------------------
(* Mutant of Ask: the decision left over is not deleted. *)
AskOver(g) ==
  /\ pc[g] = "idle"
  /\ attempt[g] < Attempts
  /\ ~Overlap => \A h \in Gated : ~InProgress(h)
  /\ attempt' = [attempt EXCEPT ![g] = @ + 1]
  /\ taken' = [taken EXCEPT ![g] = None]
  /\ pc' = [pc EXCEPT ![g] = "store"]
  /\ UNCHANGED <<pending, decision, orphans, desks>>

(* request_hitl_approval begins: a decision left over is deleted ... *)
Ask(g) ==
  /\ pc[g] = "idle"
  /\ attempt[g] < Attempts
  /\ ~Overlap => \A h \in Gated : ~InProgress(h)
  /\ attempt' = [attempt EXCEPT ![g] = @ + 1]
  /\ decision' = None
  /\ taken' = [taken EXCEPT ![g] = None]
  /\ pc' = [pc EXCEPT ![g] = "store"]
  /\ UNCHANGED <<pending, orphans, desks>>

(* ... and the request is stored for the supervisors.  The Kafka event of  *)
(* l.171 is never published: main.py sets no producer. *)
StorePending(g) ==
  /\ pc[g] = "store"
  /\ pending' = Request(g)
  /\ pc' = [pc EXCEPT ![g] = "poll"]
  /\ UNCHANGED <<decision, attempt, taken, orphans, desks>>

(* _await_hitl_decision: a poll finds the key and keeps its value ... *)
Take(g) ==
  /\ pc[g] = "poll"
  /\ decision # None
  /\ taken' = [taken EXCEPT ![g] = decision]
  /\ pc' = [pc EXCEPT ![g] = "consume"]
  /\ UNCHANGED <<pending, decision, attempt, orphans, desks>>

(* ... and deletes the key, whatever it holds by now. *)
Consume(g) ==
  /\ pc[g] = "consume"
  /\ decision' = None
  /\ pc' = [pc EXCEPT ![g] = "clean"]
  /\ UNCHANGED <<pending, attempt, taken, orphans, desks>>

(* Mutant of Timeout: the deadline is looked at only once there is a       *)
(* decision. *)
TimeoutIfDecided(g) ==
  /\ pc[g] = "poll"
  /\ decision # None
  /\ pc' = [pc EXCEPT ![g] = "clean"]
  /\ UNCHANGED <<pending, decision, attempt, taken, orphans, desks>>

(* The deadline passes between two polls. *)
Timeout(g) ==
  /\ pc[g] = "poll"
  /\ pc' = [pc EXCEPT ![g] = "clean"]
  /\ UNCHANGED <<pending, decision, attempt, taken, orphans, desks>>

(* The pending key is deleted and the answer returned: approved, the step  *)
(* proceeds; otherwise it raises and is attempted again if it may be.      *)
Approved(g) == taken[g] # None /\ taken[g].says = "approve"

Rejected(g) == taken[g] # None /\ taken[g].says = "reject"

Return(g) ==
  /\ pc[g] = "clean"
  /\ pending' = None
  /\ pc' = [pc EXCEPT ![g] = IF Approved(g) THEN "acted" ELSE "idle"]
  /\ UNCHANGED <<decision, attempt, taken, orphans, desks>>

(* What was approved is done ... *)
Finish(g) ==
  /\ pc[g] = "acted"
  /\ pc' = [pc EXCEPT ![g] = "done"]
  /\ UNCHANGED <<pending, decision, attempt, taken, orphans, desks>>

(* ... unless the payment behind the approval, or a result of status       *)
(* failed, makes the step raise: its next attempt asks again.              *)
RaiseAfterApproval(g) ==
  /\ pc[g] = "acted"
  /\ pc' = [pc EXCEPT ![g] = "idle"]
  /\ UNCHANGED <<pending, decision, attempt, taken, orphans, desks>>

(* The pipeline dies: the requests in progress are orphans, their keys     *)
(* stay, and a resumed saga asks anew. *)
Die ==
  /\ \E g \in Gated : InProgress(g)
  /\ orphans' = orphans \cup {Request(g) : g \in {h \in Gated : Waiting(h)}}
  /\ pc' = [g \in Gated |-> IF InProgress(g) THEN "idle" ELSE pc[g]]
  /\ UNCHANGED <<pending, decision, attempt, taken, desks>>

-----------------------------------------------------------------------------
(* GET /hitl/pending: the desktop shows the request as a card. *)
Show(v) ==
  /\ handler[v] = "idle"
  /\ pending # None
  /\ shown' = [shown EXCEPT ![v] = pending]
  /\ UNCHANGED <<pending, decision, steps, handler, choice, posts>>

(* The supervisor clicks: the post names the CID, not the request. *)
Click(v, c) ==
  /\ handler[v] = "idle"
  /\ shown[v] # None
  /\ posts[v] < MaxPosts
  /\ posts' = [posts EXCEPT ![v] = @ + 1]
  /\ choice' = [choice EXCEPT ![v] = c]
  /\ handler' = [handler EXCEPT ![v] = "posted"]
  /\ UNCHANGED <<pending, decision, steps, shown>>

(* _writeDecision finds a pending request of the tenant, or none and       *)
(* answers success: false; the card is taken off the screen either way.    *)
Validate(v) ==
  /\ handler[v] = "posted"
  /\ handler' = [handler EXCEPT ![v] = IF pending # None THEN "validated" ELSE "idle"]
  /\ shown' = [shown EXCEPT ![v] = IF pending # None THEN @ ELSE None]
  /\ UNCHANGED <<pending, decision, steps, choice, posts>>

WriteDecision(v) ==
  /\ handler[v] = "validated"
  /\ decision' = [says |-> choice[v], by |-> v, nth |-> posts[v],
                  meant |-> shown[v], during |-> Open]
  /\ shown' = [shown EXCEPT ![v] = None]
  /\ handler' = [handler EXCEPT ![v] = "idle"]
  /\ UNCHANGED <<pending, steps, choice, posts>>

(* POST /session/{cid}/hitl-resolve and /_internal/hitl/{cid}/resolve: the *)
(* key is written whether or not anything is pending. *)
ResolveDirectly(d) ==
  /\ Direct
  /\ decision' = [says |-> d, by |-> None, nth |-> 0, meant |-> None, during |-> Open]
  /\ UNCHANGED <<pending, steps, desks>>

(* The keys expire: the decision after 300 s, and a pending request that   *)
(* nobody deletes a minute after its deadline. *)
ExpireDecision ==
  /\ decision # None
  /\ decision' = None
  /\ UNCHANGED <<pending, steps, desks>>

ExpirePending ==
  /\ pending # None
  /\ pending \in orphans
  /\ pending' = None
  /\ UNCHANGED <<decision, steps, desks>>

-----------------------------------------------------------------------------
StepOf(g) ==
  \/ Ask(g) \/ StorePending(g) \/ Take(g) \/ Consume(g) \/ Timeout(g) \/ Return(g)
  \/ Finish(g) \/ RaiseAfterApproval(g)

DeskOf(v) ==
  \/ Show(v)
  \/ \E c \in {"approve", "reject"} : Click(v, c)
  \/ Validate(v)
  \/ WriteDecision(v)

Next ==
  \/ \E g \in Gated : StepOf(g)
  \/ Die
  \/ \E v \in Desks : DeskOf(v)
  \/ \E d \in {"approve", "reject", "timeout"} : ResolveDirectly(d)
  \/ ExpireDecision
  \/ ExpirePending

Spec == Init /\ [][Next]_vars

(* The event loop runs the steps, whose poll loop ends at its deadline.    *)
(* Nothing obliges a supervisor to look or to decide. *)
FairSpec == Spec /\ \A g \in Gated : WF_vars(StepOf(g))

-----------------------------------------------------------------------------
(* An answer is never older than the question: the decision a request      *)
(* returns was written after the request had cleared the key, for          *)
(* overlapping requests, late clicks and retries too. *)
DecidedAfterAsked ==
  \A g \in Gated : taken[g] # None => Request(g) \in taken[g].during

(* What the supervisors see as pending is a request that waits, or one     *)
(* that a crash left; nothing answered stays on the list. *)
ListedIsWaiting ==
  pending # None /\ pending \notin orphans =>
    /\ pending = Request(pending[1])
    /\ pc[pending[1]] \in {"poll", "consume", "clean"}

(* hitl.controller.ts l.36: the supervisor sees all pending requests.      *)
(* Holds while the requests of a call do not overlap. *)
WaitingIsVisible ==
  \A g \in Gated : pc[g] = "poll" => pending = Request(g)

(* One click of a supervisor answers one request.  Holds while requests do *)
(* not overlap. *)
OneClickOneAnswer ==
  \A g, h \in Gated :
    taken[g] # None /\ taken[h] # None /\ taken[g].by # None /\ g # h =>
      <<taken[g].by, taken[g].nth>> # <<taken[h].by, taken[h].nth>>

(* Every request is answered or times out. *)
RequestReturns == \A g \in Gated : pc[g] = "poll" ~> pc[g] \in {"idle", "acted"}

(* hitl_service.py l.18: on reject the caller is told that the action      *)
(* cannot be completed.  Does not hold: a rejected step asks again. *)
RejectedStaysRejected ==
  [][\A g \in Gated : Rejected(g) => attempt'[g] = attempt[g]]_vars
=============================================================================
