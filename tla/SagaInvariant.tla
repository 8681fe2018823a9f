---------------------------- MODULE SagaInvariant ----------------------------
(***************************************************************************)
(* The inductive invariants behind the properties of SagaOrchestrator, in  *)
(* the three layers the proofs use: OrderInv holds of any number of        *)
(* overlapping runs, ResumeInv of runs that exclude each other and write   *)
(* distinct domains, RefinementInv if in addition no key expires.          *)
(***************************************************************************)
EXTENDS SagaOrchestrator

InBatch(r) == pc[r] \in {"visit", "gather", "save", "mark_get", "mark_set"}
Processing(r) == pc[r] \in {"save", "mark_get", "mark_set"}
Marking(r) == pc[r] \in {"mark_get", "mark_set"}

(* The cursor stands at the first step of its batch; the loops visit only  *)
(* steps of that batch, and no step behind it has been launched.           *)
CursorInv ==
  \A r \in Runs :
    /\ InBatch(r) =>
         /\ cursor[r] \in Steps
         /\ \A t \in Batch(cursor[r]) : t >= cursor[r]
         /\ todo[r] \subseteq Batch(cursor[r])
    /\ pc[r] = "gather" => todo[r] = {}
    /\ pc[r] = "idle" => cursor[r] = 1 /\ \A s \in Steps : task[r][s] = "none"
    /\ pc[r] = "report" /\ status[r] # "halted" => cursor[r] = NSteps + 1

(* What is marked, loaded or about to be written back did succeed. *)
EvidenceInv ==
  /\ \A s \in marks : succeeded[s] # {}
  /\ \A r \in Runs :
       /\ \A s \in loaded[r] \cup snapshot[r] : succeeded[s] # {}
       /\ \A s \in Steps : task[r][s] = "completed" => r \in succeeded[s]

(* Progress of a run through its batches. *)
Done(r, t) == succeeded[t] # {} \/ t \in skipped[r]

RunProgress(r) ==
  /\ InProgress(r) => \A t \in Steps : t < cursor[r] => Done(r, t)
  /\ pc[r] \in {"visit", "gather"} =>
       \A t \in Batch(cursor[r]) \ todo[r] : t \in loaded[r] \/ task[r][t] # "none"
  /\ Processing(r) =>
       /\ \A t \in Batch(cursor[r]) \ todo[r] : Done(r, t)
       /\ \A t \in todo[r] : task[r][t] \in {"completed", "failed"}
  /\ Marking(r) => \A s \in Steps : IsNext(s, todo[r]) => task[r][s] = "completed"
  /\ status[r] = "completed" => \A t \in Steps : succeeded[t] # {}

ProgressInv == \A r \in Runs : RunProgress(r)

OrderInv == TypeOK /\ CursorInv /\ EvidenceInv /\ ProgressInv

-----------------------------------------------------------------------------
(* Runs that do not overlap. *)
SoleRun == \A r, q \in Runs : InProgress(r) /\ InProgress(q) => r = q

(* A run launches the steps of its batch as it visits them. *)
RunLaunch(r) ==
  InProgress(r) =>
    \A t \in Steps : task[r][t] # "none" =>
      \/ t < cursor[r]
      \/ t \in Batch(cursor[r]) /\ (pc[r] = "visit" => t \notin todo[r])

LaunchInv == \A r \in Runs : RunLaunch(r)

(* A mark on the step is right. *)
Backed(s) ==
  /\ succeeded[s] # {}
  /\ results[Domain[s]] \in {NoResult, [step |-> s, status |-> "completed"]}

(* What a run takes a mark for: it found it, or it is its own. *)
Knows(r, s) == s \in loaded[r] \/ task[r][s] = "completed"

RunMarks(r) ==
  InProgress(r) =>
    /\ \A s \in marks : Knows(r, s)
    /\ \A s \in loaded[r] : Backed(s) /\ task[r][s] = "none"
    /\ pc[r] = "mark_set" => \A s \in snapshot[r] : Backed(s) /\ Knows(r, s)
    /\ Marking(r) => \A s \in Steps : IsNext(s, todo[r]) => Backed(s)

MarkInv == (\A s \in marks : Backed(s)) /\ (\A r \in Runs : RunMarks(r))

ResumeInv == OrderInv /\ SoleRun /\ LaunchInv /\ MarkInv /\ ReportsOnlySuccesses

-----------------------------------------------------------------------------
(* Marks that do not expire: what a run has behind it is settled, marked   *)
(* if it succeeded. *)
Kept(r, t) ==
  /\ t \in marks \/ t \in skipped[r]
  /\ task[r][t] # "queued"
  /\ task[r][t] = "completed" => t \in marks

RunKept(r) ==
  /\ InProgress(r) => loaded[r] \subseteq marks
  /\ InProgress(r) => \A t \in Steps : t < cursor[r] => Kept(r, t)
  /\ Processing(r) => \A t \in Batch(cursor[r]) \ todo[r] : Kept(r, t)
  /\ pc[r] = "mark_set" => snapshot[r] = marks

MarksKept == \A r \in Runs : RunKept(r)

(* A halted run is at its end, and launched nothing behind the batch of    *)
(* the step it failed on. *)
RunOutcome(r) ==
  /\ pc[r] = "idle" => status[r] = "none" /\ skipped[r] = {}
  /\ InProgress(r) => status[r] \in {"none", "halted"}
  /\ status[r] = "halted" \/ failed[r] # {} => pc[r] \in {"report", "done", "dead"}
  /\ InProgress(r) /\ status[r] = "none" => failed[r] = {}
  /\ failed[r] # {} =>
       /\ cursor[r] \in Steps /\ failed[r] \subseteq Batch(cursor[r])
       /\ \A t \in Batch(cursor[r]) : t >= cursor[r]
       /\ \A t \in Steps : task[r][t] # "none" => t < cursor[r] \/ t \in Batch(cursor[r])
  /\ \A s \in Steps : r \in succeeded[s] => task[r][s] = "completed"

OutcomeInv == \A r \in Runs : RunOutcome(r)

RefinementInv == ResumeInv /\ MarksKept /\ OutcomeInv
=============================================================================
