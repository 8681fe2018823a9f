-------------------------- MODULE ResumableWorkflow --------------------------
(***************************************************************************)
(* What crash-resume of a multi-step task promises, without retries,       *)
(* memory or Redis: a set of items that are durably done and, for each     *)
(* run, the items it waived and the outcome it reported.  Items become     *)
(* durable one at a time, never before what comes earlier, and are         *)
(* forgotten only all together, by a run that reports the whole completed. *)
(***************************************************************************)
CONSTANTS
  Items,
  Runs,
  Earlier(_, _)   \* Earlier(t, s): t has to be settled before s

VARIABLES durable, waived, outcome

wvars == <<durable, waived, outcome>>

Outcomes == {"none", "completed", "partially_completed", "halted"}

WInit ==
  /\ durable = {}
  /\ waived = [r \in Runs |-> {}]
  /\ outcome = [r \in Runs |-> "none"]

Settled(r, t) == t \in durable \/ t \in waived[r]
Due(r, s) ==
  /\ outcome[r] = "none"
  /\ \A t \in Items : Earlier(t, s) => Settled(r, t)

Commit(r, s) ==
  /\ Due(r, s)
  /\ s \notin durable
  /\ durable' = durable \cup {s}
  /\ UNCHANGED <<waived, outcome>>

Waive(r, s) ==
  /\ Due(r, s)
  /\ s \notin durable
  /\ waived' = [waived EXCEPT ![r] = @ \cup {s}]
  /\ UNCHANGED <<durable, outcome>>

Halt(r) ==
  /\ outcome[r] = "none"
  /\ outcome' = [outcome EXCEPT ![r] = "halted"]
  /\ UNCHANGED <<durable, waived>>

Complete(r) ==
  /\ outcome[r] = "none"
  /\ durable = Items
  /\ waived[r] = {}
  /\ outcome' = [outcome EXCEPT ![r] = "completed"]
  /\ durable' = {}
  /\ waived' = waived

CompleteInPart(r) ==
  /\ outcome[r] = "none"
  /\ waived[r] # {}
  /\ \A t \in Items : Settled(r, t)
  /\ outcome' = [outcome EXCEPT ![r] = "partially_completed"]
  /\ UNCHANGED <<durable, waived>>

WNext ==
  \E r \in Runs :
    \/ Halt(r) \/ Complete(r) \/ CompleteInPart(r)
    \/ \E s \in Items : Commit(r, s) \/ Waive(r, s)

WSpec == WInit /\ [][WNext]_wvars
=============================================================================
