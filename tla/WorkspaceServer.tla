---------------------------- MODULE WorkspaceServer ----------------------------
(***************************************************************************)
(* How platform-api serves the workspace: a few requests at a time, each a *)
(* sequence of awaited statements.  Between two statements of one request  *)
(* those of the others run.  The modules that extend this one say what the *)
(* statements are; MCWorkspace runs them side by side.                     *)
(***************************************************************************)
EXTENDS Integers, FiniteSets

CONSTANTS
  Handlers,   \* requests served at the same time
  MaxCalls    \* bound on the requests

ASSUME ServerAssumption == MaxCalls \in Nat

VARIABLES
  kind,    \* what the requests are about
  asked,   \* requests so far
  calls    \* what each handler is in the middle of

None == <<>>

ServerInit(Kinds) ==
  /\ kind \in Kinds
  /\ asked = 0
  /\ calls = [h \in Handlers |-> None]

(* A free handler takes the next request about things of kind k. *)
Takes(h, k) ==
  /\ kind = k
  /\ calls[h] = None
  /\ asked < MaxCalls
  /\ asked' = asked + 1

Becomes(h, call) == calls' = [calls EXCEPT ![h] = call]
Goes(h, call) == Becomes(h, call) /\ UNCHANGED asked
Answers(h) == Goes(h, None)

Doing(h, op) == calls[h] # None /\ calls[h].op = op
=============================================================================
