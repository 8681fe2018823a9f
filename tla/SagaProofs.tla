------------------------------ MODULE SagaProofs ------------------------------
(* Theorems about SagaOrchestrator.  First, for every saga and any set of  *)
(* runs: the batches run in order and a saga reported as completed has     *)
(* done all its steps.  Then about the resume of a saga by runs that do    *)
(* not overlap and whose steps write distinct domains, while the keys may  *)
(* expire at any time: what is marked is backed and never runs again.      *)
(* Last, how a run ends, and that runs that do not overlap and do not      *)
(* outlive the keys implement ResumableWorkflow. *)
EXTENDS SagaInvariant, TLAPS

-----------------------------------------------------------------------------
(* The batch of a step holds the step, and the batches do not overlap: a   *)
(* loop that stands at the first step of one finds the first step of the   *)
(* next where the batch ends.                                              *)
LEMMA BatchHasStep == ASSUME NEW s \in Steps PROVE s \in Batch(s) /\ Batch(s) \subseteq Steps
  BY DEF Batch

LEMMA BehindTheBatch ==
  ASSUME NEW c \in 1..(NSteps + 1), NEW s \in Batch(c), NEW t \in Steps,
         t < s, t \notin Batch(s)
  PROVE  t < c
<1>. SUFFICES ASSUME c <= t PROVE FALSE
  BY SagaAssumption DEF Steps
<1>1. s \in Steps /\ s # c
  BY SagaAssumption DEF Batch, Steps
<1>2. Between(c, s) \subseteq Parallel
  BY <1>1 DEF Batch
<1>3. Between(s, t) \subseteq Between(c, s)
  BY <1>1, SagaAssumption DEF Between, Steps
<1>. QED
  BY <1>2, <1>3 DEF Batch

LEMMA NextBatchStarts ==
  ASSUME NEW r \in Runs, cursor[r] \in Steps, NEW n \in Steps, Follows(n, r)
  PROVE  \A t \in Batch(n) : t >= n
<1>. DEFINE c == cursor[r]
<1>. SUFFICES ASSUME NEW t \in Batch(n), t < n PROVE FALSE
  BY SagaAssumption DEF Batch, Steps
<1>1. /\ n - 1 \in Steps
      /\ t \in Steps
      /\ c <= n - 1
  BY SagaAssumption DEF Follows, Steps, Batch
<1>2. n \in Parallel /\ n - 1 \in Parallel
  <2>1. Between(n, t) \subseteq Parallel
    BY <1>1, SagaAssumption DEF Batch, Steps
  <2>2. n \in Between(n, t) /\ n - 1 \in Between(n, t)
    BY <1>1, SagaAssumption DEF Between, Steps
  <2>. QED
    BY <2>1, <2>2
<1>3. n - 1 \in Batch(c) /\ n \notin Batch(c)
  BY <1>1, SagaAssumption DEF Follows, Steps
<1>4. Between(c, n) \subseteq Parallel
  <2>1. \A u \in Between(c, n) : u = n \/ u \in Between(c, n - 1)
    BY <1>1, SagaAssumption DEF Between, Steps
  <2>2. CASE c = n - 1
    BY <2>1, <2>2, <1>1, <1>2, SagaAssumption DEF Between, Steps
  <2>3. CASE c # n - 1
    BY <2>1, <2>3, <1>2, <1>3 DEF Batch
  <2>. QED
    BY <2>2, <2>3
<1>. QED
  BY <1>3, <1>4 DEF Batch

-----------------------------------------------------------------------------
(* Facts about single steps: the cursor stays within the saga, and what a  *)
(* save writes is a StepResult.                                            *)
PlaceOK ==
  /\ cursor \in [Runs -> 1..(NSteps + 1)]
  /\ todo \in [Runs -> SUBSET Steps]
  /\ pc \in [Runs -> {"idle", "visit", "gather", "save", "mark_get",
                      "mark_set", "report", "done", "dead"}]

LEMMA AdvanceType ==
  ASSUME TypeOK, NEW r \in Runs, Advance(r)
  PROVE  PlaceOK'
<1>1. PICK n \in 2..(NSteps + 1) :
        /\ cursor' = [cursor EXCEPT ![r] = n]
        /\ todo' = [todo EXCEPT ![r] = IF n \in Steps THEN Batch(n) ELSE {}]
        /\ pc' = [pc EXCEPT ![r] = IF n \in Steps THEN "visit" ELSE "report"]
  BY DEF Advance
<1>2. n \in 1..(NSteps + 1) /\ Batch(n) \subseteq Steps
  BY SagaAssumption DEF Batch
<1>. QED
  BY <1>1, <1>2 DEF PlaceOK, TypeOK

LEMMA HandledType ==
  ASSUME TypeOK, NEW r \in Runs, NEW s \in Steps, Handled(r, s)
  PROVE  PlaceOK'
<1>1. CASE Advance(r)
  BY <1>1, AdvanceType
<1>2. CASE ~Advance(r)
  <2>1. /\ todo' = [todo EXCEPT ![r] = @ \ {s}]
        /\ pc' = [pc EXCEPT ![r] = "save"]
        /\ cursor' = cursor
    BY <1>2 DEF Handled
  <2>. QED
    BY <2>1 DEF PlaceOK, TypeOK
<1>. QED
  BY <1>1, <1>2

LEMMA SavedResult ==
  ASSUME NEW s \in Steps, NEW x \in {"completed", "failed", "rolled_back"}
  PROVE  [step |-> s, status |-> x] \in StepResult
  BY DEF StepResult

LEMMA RolledBack ==
  ASSUME TypeOK, NEW r \in Runs
  PROVE  RollbackCompleted(r) \subseteq StepResult
<1>. SUFFICES ASSUME NEW e \in completed[r]
              PROVE  [step |-> e.step, status |-> "rolled_back"] \in StepResult
  BY DEF RollbackCompleted
<1>. QED
  BY DEF TypeOK, StepResult

LEMMA TypeCorrectInit == Init => TypeOK
  BY SagaAssumption DEF Init, TypeOK, Steps

LEMMA TypeKept == TypeOK /\ [Next]_vars => TypeOK'
<1>. SUFFICES ASSUME TypeOK, [Next]_vars PROVE TypeOK'
  OBVIOUS
<1>. USE SagaAssumption DEF TypeOK
<1>1. ASSUME NEW r \in Runs, Start(r) PROVE TypeOK'
  BY <1>1 DEF Start, Batch, lists
<1>2. ASSUME NEW r \in Runs, NEW s \in Steps, Resume(r, s) PROVE TypeOK'
  <2>1. {results[Domain[s]]} \ {NoResult} \subseteq StepResult
    OBVIOUS
  <2>. QED
    BY <1>2, <2>1 DEF Resume, redis, tasks
<1>3. ASSUME NEW r \in Runs, NEW s \in Steps, Queue(r, s) PROVE TypeOK'
  BY <1>3 DEF Queue, redis, lists
<1>4. ASSUME NEW r \in Runs, Gather(r) PROVE TypeOK'
  BY <1>4 DEF Gather, redis, lists, tasks
<1>5. ASSUME NEW r \in Runs, NextBatch(r) PROVE TypeOK'
  BY <1>5, AdvanceType DEF PlaceOK, NextBatch, redis, lists, tasks
<1>6. ASSUME NEW r \in Runs, NEW s \in Steps, AttemptReturns(r, s) PROVE TypeOK'
  BY <1>6 DEF AttemptReturns, redis, lists
<1>7. ASSUME NEW r \in Runs, NEW s \in Steps, AttemptRaises(r, s) PROVE TypeOK'
  <2>1. tries' \in [Runs -> [Steps -> Nat]]
    BY <1>7 DEF AttemptRaises
  <2>. QED
    BY <1>7, <2>1 DEF AttemptRaises, redis, lists
<1>8. ASSUME NEW r \in Runs, Gathered(r) PROVE TypeOK'
  BY <1>8 DEF Gathered, Launched, Batch, redis, lists, tasks
<1>9. ASSUME NEW r \in Runs, NEW s \in Steps, SaveCompleted(r, s) PROVE TypeOK'
  <2>1. [step |-> s, status |-> "completed"] \in StepResult
    BY SavedResult
  <2>. QED
    BY <1>9, <2>1 DEF SaveCompleted, Persist, tasks
<1>10. ASSUME NEW r \in Runs, NEW s \in Steps, MarkGet(r, s) PROVE TypeOK'
  BY <1>10 DEF MarkGet, redis, lists, tasks
<1>11. ASSUME NEW r \in Runs, NEW s \in Steps, MarkSet(r, s) PROVE TypeOK'
  BY <1>11, HandledType DEF PlaceOK, MarkSet, lists, tasks
<1>12. ASSUME NEW r \in Runs, NEW s \in Steps, SaveSkipped(r, s) PROVE TypeOK'
  <2>1. [step |-> s, status |-> "failed"] \in StepResult
    BY SavedResult
  <2>. QED
    BY <1>12, <2>1, HandledType DEF PlaceOK, SaveSkipped, Persist, tasks
<1>13. ASSUME NEW r \in Runs, NEW s \in Steps, SaveHalting(r, s) PROVE TypeOK'
  <2>1. [step |-> s, status |-> "failed"] \in StepResult
    BY SavedResult
  <2>2. RollbackCompleted(r) \subseteq StepResult
    BY RolledBack
  <2>. QED
    BY <1>13, <2>1, <2>2 DEF SaveHalting, Persist, tasks
<1>14. ASSUME NEW r \in Runs, ReportCompleted(r) PROVE TypeOK'
  BY <1>14 DEF ReportCompleted, lists, tasks
<1>15. ASSUME NEW r \in Runs, ReportIncomplete(r) PROVE TypeOK'
  BY <1>15 DEF ReportIncomplete, redis, lists, tasks
<1>16. ASSUME NEW r \in Runs, Die(r) PROVE TypeOK'
  BY <1>16 DEF Die, redis, lists, tasks
<1>17. ASSUME NEW d \in Domains, ExpireResult(d) PROVE TypeOK'
  BY <1>17 DEF ExpireResult, lists, tasks
<1>18. CASE ExpireMarks
  BY <1>18 DEF ExpireMarks, lists, tasks
<1>19. CASE UNCHANGED vars
  BY <1>19 DEF vars
<1>. QED
  BY <1>1, <1>2, <1>3, <1>4, <1>5, <1>6, <1>7, <1>8, <1>9, <1>10, <1>11, <1>12,
     <1>13, <1>14, <1>15, <1>16, <1>17, <1>18, <1>19 DEF Next, RunStep

(* run_saga keeps its state, in memory and in Redis, within its types. *)
THEOREM TypeCorrect == Spec => []TypeOK
BY TypeCorrectInit, TypeKept, PTL DEF Spec

-----------------------------------------------------------------------------
(* Advance moves the cursor to the first step of the next batch, which the *)
(* loop has yet to visit, or past the last step. *)
LEMMA AdvancePlace ==
  ASSUME TypeOK, NEW r \in Runs, cursor[r] \in Steps, Advance(r)
  PROVE  \E n \in 2..(NSteps + 1) :
           /\ Follows(n, r)
           /\ cursor' = [cursor EXCEPT ![r] = n]
           /\ n \in Steps => /\ pc' = [pc EXCEPT ![r] = "visit"]
                             /\ todo' = [todo EXCEPT ![r] = Batch(n)]
                             /\ \A t \in Batch(n) : t >= n
           /\ n \notin Steps => /\ n = NSteps + 1
                                /\ pc' = [pc EXCEPT ![r] = "report"]
                                /\ todo' = [todo EXCEPT ![r] = {}]
<1>1. PICK n \in 2..(NSteps + 1) :
        /\ Follows(n, r)
        /\ cursor' = [cursor EXCEPT ![r] = n]
        /\ todo' = [todo EXCEPT ![r] = IF n \in Steps THEN Batch(n) ELSE {}]
        /\ pc' = [pc EXCEPT ![r] = IF n \in Steps THEN "visit" ELSE "report"]
  BY DEF Advance
<1>2. n \in Steps => \A t \in Batch(n) : t >= n
  BY <1>1, NextBatchStarts
<1>3. n \notin Steps => n = NSteps + 1
  BY SagaAssumption DEF Steps
<1>. QED
  BY <1>1, <1>2, <1>3

(* A step that leaves the other runs where they are keeps CursorInv if it  *)
(* keeps it for the run that takes it. *)
LEMMA CursorKept == CursorInv /\ TypeOK /\ [Next]_vars => CursorInv'
<1>. SUFFICES ASSUME CursorInv, TypeOK, [Next]_vars PROVE CursorInv'
  OBVIOUS
<1>. USE DEF TypeOK, CursorInv, InBatch
<1>1. ASSUME NEW r \in Runs, Start(r) PROVE CursorInv'
  <2>1. \A t \in Batch(1) : t >= 1
    BY SagaAssumption DEF Batch, Steps
  <2>2. 1 \in Steps
    BY SagaAssumption DEF Steps
  <2>. QED
    BY <1>1, <2>1, <2>2 DEF Start, lists
<1>2. ASSUME NEW r \in Runs, NEW s \in Steps, Resume(r, s) PROVE CursorInv'
  BY <1>2 DEF Resume, redis, tasks
<1>3. ASSUME NEW r \in Runs, NEW s \in Steps, Queue(r, s) PROVE CursorInv'
  BY <1>3 DEF Queue, redis, lists
<1>4. ASSUME NEW r \in Runs, Gather(r) PROVE CursorInv'
  BY <1>4 DEF Gather, redis, lists, tasks
<1>5. ASSUME NEW r \in Runs, cursor[r] \in Steps, Advance(r), UNCHANGED <<task, status>>,
             pc[r] # "idle"
      PROVE  CursorInv'
  <2>1. PICK n \in 2..(NSteps + 1) :
           /\ Follows(n, r)
           /\ cursor' = [cursor EXCEPT ![r] = n]
           /\ n \in Steps => /\ pc' = [pc EXCEPT ![r] = "visit"]
                             /\ todo' = [todo EXCEPT ![r] = Batch(n)]
                             /\ \A t \in Batch(n) : t >= n
           /\ n \notin Steps => /\ n = NSteps + 1
                                /\ pc' = [pc EXCEPT ![r] = "report"]
                                /\ todo' = [todo EXCEPT ![r] = {}]
    BY <1>5, AdvancePlace
  <2>2. CASE n \in Steps
    BY <2>1, <2>2, <1>5
  <2>3. CASE n \notin Steps
    BY <2>1, <2>3, <1>5
  <2>. QED
    BY <2>2, <2>3
<1>6. ASSUME NEW r \in Runs, NextBatch(r) PROVE CursorInv'
  BY <1>6, <1>5 DEF NextBatch, redis, lists, tasks
<1>7. ASSUME NEW r \in Runs, NEW s \in Steps, AttemptReturns(r, s) \/ AttemptRaises(r, s)
      PROVE  CursorInv'
  <2>1. CASE AttemptReturns(r, s)
    BY <2>1 DEF AttemptReturns, redis, lists
  <2>2. CASE AttemptRaises(r, s)
    BY <2>2 DEF AttemptRaises, redis, lists
  <2>. QED
    BY <1>7, <2>1, <2>2
<1>8. ASSUME NEW r \in Runs, Gathered(r) PROVE CursorInv'
  BY <1>8 DEF Gathered, Launched, redis, lists, tasks
<1>9. ASSUME NEW r \in Runs, NEW s \in Steps, SaveCompleted(r, s) PROVE CursorInv'
  BY <1>9 DEF SaveCompleted, Persist, tasks
<1>10. ASSUME NEW r \in Runs, NEW s \in Steps, MarkGet(r, s) PROVE CursorInv'
  BY <1>10 DEF MarkGet, redis, lists, tasks
<1>11. ASSUME NEW r \in Runs, NEW s \in Steps, Handled(r, s), UNCHANGED <<task, status>>,
              pc[r] \in {"save", "mark_set"}
       PROVE  CursorInv'
  <2>1. CASE Advance(r)
    BY <2>1, <1>11, <1>5
  <2>2. CASE /\ todo' = [todo EXCEPT ![r] = @ \ {s}]
             /\ pc' = [pc EXCEPT ![r] = "save"]
             /\ cursor' = cursor
    BY <2>2, <1>11
  <2>. QED
    BY <2>1, <2>2, <1>11 DEF Handled
<1>12. ASSUME NEW r \in Runs, NEW s \in Steps, MarkSet(r, s) PROVE CursorInv'
  BY <1>12, <1>11 DEF MarkSet, lists, tasks
<1>13. ASSUME NEW r \in Runs, NEW s \in Steps, SaveSkipped(r, s) PROVE CursorInv'
  BY <1>13, <1>11 DEF SaveSkipped, Persist, tasks
<1>14. ASSUME NEW r \in Runs, NEW s \in Steps, SaveHalting(r, s) PROVE CursorInv'
  BY <1>14 DEF SaveHalting, Persist, tasks
<1>15. ASSUME NEW r \in Runs, ReportCompleted(r) \/ ReportIncomplete(r) PROVE CursorInv'
  <2>1. CASE ReportCompleted(r)
    BY <2>1 DEF ReportCompleted, redis, lists, tasks
  <2>2. CASE ReportIncomplete(r)
    BY <2>2 DEF ReportIncomplete, redis, lists, tasks
  <2>. QED
    BY <1>15, <2>1, <2>2
<1>16. ASSUME NEW r \in Runs, Die(r) PROVE CursorInv'
  BY <1>16 DEF Die, redis, lists, tasks
<1>17. CASE ExpireMarks \/ \E d \in Domains : ExpireResult(d)
  BY <1>17 DEF ExpireMarks, ExpireResult, lists, tasks
<1>18. CASE UNCHANGED vars
  BY <1>18 DEF vars
<1>. QED
  BY <1>1, <1>2, <1>3, <1>4, <1>6, <1>7, <1>8, <1>9, <1>10, <1>12, <1>13, <1>14,
     <1>15, <1>16, <1>17, <1>18 DEF Next, RunStep

LEMMA EvidenceKept == EvidenceInv /\ CursorInv /\ ProgressInv /\ TypeOK /\ [Next]_vars => EvidenceInv'
<1>. SUFFICES ASSUME EvidenceInv, CursorInv, ProgressInv, TypeOK, [Next]_vars PROVE EvidenceInv'
  OBVIOUS
<1>. USE DEF TypeOK, EvidenceInv
<1>1. ASSUME NEW r \in Runs, Start(r) PROVE EvidenceInv'
  BY <1>1 DEF Start, lists
<1>2. ASSUME NEW r \in Runs, NEW s \in Steps, Resume(r, s) PROVE EvidenceInv'
  BY <1>2 DEF Resume, redis, tasks
<1>3. ASSUME NEW r \in Runs, NEW s \in Steps, Queue(r, s) PROVE EvidenceInv'
  BY <1>3 DEF Queue, redis, lists
<1>4. ASSUME NEW r \in Runs, Gather(r) PROVE EvidenceInv'
  BY <1>4 DEF Gather, redis, lists, tasks
<1>5. ASSUME NEW r \in Runs, NextBatch(r) PROVE EvidenceInv'
  BY <1>5 DEF NextBatch, redis, lists, tasks
<1>6. ASSUME NEW r \in Runs, NEW s \in Steps, AttemptReturns(r, s) PROVE EvidenceInv'
  BY <1>6 DEF AttemptReturns, redis, lists
<1>7. ASSUME NEW r \in Runs, NEW s \in Steps, AttemptRaises(r, s) PROVE EvidenceInv'
  BY <1>7 DEF AttemptRaises, redis, lists
<1>8. ASSUME NEW r \in Runs, Gathered(r) PROVE EvidenceInv'
  BY <1>8 DEF Gathered, redis, lists, tasks
<1>9. ASSUME NEW r \in Runs, NEW s \in Steps, SaveCompleted(r, s) PROVE EvidenceInv'
  BY <1>9 DEF SaveCompleted, Persist, tasks
<1>10. ASSUME NEW r \in Runs, NEW s \in Steps, MarkGet(r, s) PROVE EvidenceInv'
  BY <1>10 DEF MarkGet, redis, lists, tasks
<1>11. ASSUME NEW r \in Runs, NEW s \in Steps, MarkSet(r, s) PROVE EvidenceInv'
  <2>1. task[r][s] = "completed"
    BY <1>11 DEF MarkSet, ProgressInv, RunProgress, Marking
  <2>. QED
    BY <2>1, <1>11 DEF MarkSet, lists, tasks
<1>12. ASSUME NEW r \in Runs, NEW s \in Steps, SaveSkipped(r, s) PROVE EvidenceInv'
  BY <1>12 DEF SaveSkipped, tasks
<1>13. ASSUME NEW r \in Runs, NEW s \in Steps, SaveHalting(r, s) PROVE EvidenceInv'
  BY <1>13 DEF SaveHalting, tasks
<1>14. ASSUME NEW r \in Runs, ReportCompleted(r) PROVE EvidenceInv'
  BY <1>14 DEF ReportCompleted, lists, tasks
<1>15. ASSUME NEW r \in Runs, ReportIncomplete(r) PROVE EvidenceInv'
  BY <1>15 DEF ReportIncomplete, redis, lists, tasks
<1>16. ASSUME NEW r \in Runs, Die(r) PROVE EvidenceInv'
  BY <1>16 DEF Die, redis, lists, tasks
<1>17. ASSUME NEW d \in Domains, ExpireResult(d) PROVE EvidenceInv'
  BY <1>17 DEF ExpireResult, lists, tasks
<1>18. CASE ExpireMarks
  BY <1>18 DEF ExpireMarks, lists, tasks
<1>19. CASE UNCHANGED vars
  BY <1>19 DEF vars
<1>. QED
  BY <1>1, <1>2, <1>3, <1>4, <1>5, <1>6, <1>7, <1>8, <1>9, <1>10, <1>11, <1>12,
     <1>13, <1>14, <1>15, <1>16, <1>17, <1>18, <1>19 DEF Next, RunStep

(* A step of one run leaves the memory of the others alone, and nothing    *)
(* takes a success back. *)
Others(r) ==
  \A q \in Runs : q # r =>
    /\ pc'[q] = pc[q] /\ loaded'[q] = loaded[q]
    /\ cursor'[q] = cursor[q] /\ todo'[q] = todo[q]
    /\ task'[q] = task[q] /\ snapshot'[q] = snapshot[q]
    /\ completed'[q] = completed[q] /\ failed'[q] = failed[q]
    /\ skipped'[q] = skipped[q] /\ status'[q] = status[q]

Grows == \A t \in Steps : succeeded[t] \subseteq succeeded'[t]

LEMMA OthersAlone ==
  ASSUME TypeOK, NEW r \in Runs, Start(r) \/ RunStep(r) \/ Die(r)
  PROVE  Others(r) /\ Grows
<1>. USE DEF TypeOK, Others, Grows, redis, lists, tasks
<1>1. CASE Start(r)
  BY <1>1 DEF Start
<1>2. ASSUME NEW s \in Steps, Resume(r, s) PROVE Others(r) /\ Grows
  BY <1>2 DEF Resume
<1>3. ASSUME NEW s \in Steps, Queue(r, s) PROVE Others(r) /\ Grows
  BY <1>3 DEF Queue
<1>4. CASE Gather(r)
  BY <1>4 DEF Gather
<1>5. CASE NextBatch(r)
  BY <1>5 DEF NextBatch, Advance
<1>6. ASSUME NEW s \in Steps, AttemptReturns(r, s) PROVE Others(r) /\ Grows
  BY <1>6 DEF AttemptReturns
<1>7. ASSUME NEW s \in Steps, AttemptRaises(r, s) PROVE Others(r) /\ Grows
  BY <1>7 DEF AttemptRaises
<1>8. CASE Gathered(r)
  BY <1>8 DEF Gathered
<1>9. ASSUME NEW s \in Steps, SaveCompleted(r, s) PROVE Others(r) /\ Grows
  BY <1>9 DEF SaveCompleted
<1>10. ASSUME NEW s \in Steps, MarkGet(r, s) PROVE Others(r) /\ Grows
  BY <1>10 DEF MarkGet
<1>11. ASSUME NEW s \in Steps, MarkSet(r, s) PROVE Others(r) /\ Grows
  BY <1>11 DEF MarkSet, Handled, Advance
<1>12. ASSUME NEW s \in Steps, SaveSkipped(r, s) PROVE Others(r) /\ Grows
  BY <1>12 DEF SaveSkipped, Handled, Advance
<1>13. ASSUME NEW s \in Steps, SaveHalting(r, s) PROVE Others(r) /\ Grows
  BY <1>13 DEF SaveHalting
<1>14. CASE ReportCompleted(r)
  BY <1>14 DEF ReportCompleted
<1>15. CASE ReportIncomplete(r)
  BY <1>15 DEF ReportIncomplete
<1>16. CASE Die(r)
  BY <1>16 DEF Die
<1>. QED
  BY <1>1, <1>2, <1>3, <1>4, <1>5, <1>6, <1>7, <1>8, <1>9, <1>10, <1>11, <1>12,
     <1>13, <1>14, <1>15, <1>16 DEF RunStep

(* So a step keeps ProgressInv if it keeps it for the run that takes it.   *)
LEMMA ProgressOfOthers ==
  ASSUME TypeOK, ProgressInv, NEW r \in Runs, Others(r), Grows, RunProgress(r)'
  PROVE  ProgressInv'
<1>. SUFFICES ASSUME NEW q \in Runs, q # r PROVE RunProgress(q)'
  BY DEF ProgressInv
<1>1. /\ pc'[q] = pc[q] /\ loaded'[q] = loaded[q]
      /\ cursor'[q] = cursor[q] /\ todo'[q] = todo[q]
      /\ task'[q] = task[q] /\ skipped'[q] = skipped[q] /\ status'[q] = status[q]
  BY DEF Others
<1>2. \A t \in Steps : Done(q, t) => Done(q, t)'
  BY <1>1 DEF Done, Grows
<1>3. \A t \in Steps : succeeded[t] # {} => succeeded'[t] # {}
  BY DEF Grows
<1>4. \A t \in Batch(cursor[q]) : t \in Steps
  BY DEF Batch
<1>. QED
  BY <1>1, <1>2, <1>3, <1>4
  DEF ProgressInv, RunProgress, InProgress, Processing, Marking

(* The cursor moves on once the steps of the batch are done. *)
LEMMA AdvanceProgress ==
  ASSUME TypeOK, CursorInv, ProgressInv,
         NEW r \in Runs, InBatch(r), Advance(r),
         UNCHANGED <<task, loaded, status, succeeded>>,
         skipped[r] \subseteq skipped'[r],
         \A t \in Batch(cursor[r]) : Done(r, t)'
  PROVE  RunProgress(r)'
<1>. USE DEF InBatch, Processing, Marking, InProgress
<1>1. cursor[r] \in Steps
  BY DEF CursorInv
<1>2. PICK n \in 2..(NSteps + 1) :
           /\ Follows(n, r)
           /\ cursor' = [cursor EXCEPT ![r] = n]
           /\ n \in Steps => /\ pc' = [pc EXCEPT ![r] = "visit"]
                             /\ todo' = [todo EXCEPT ![r] = Batch(n)]
           /\ n \notin Steps => pc' = [pc EXCEPT ![r] = "report"]
                                /\ todo' = [todo EXCEPT ![r] = {}]
  BY <1>1, AdvancePlace
<1>3. ASSUME NEW t \in Steps, t < n PROVE Done(r, t)'
  <2>1. CASE t \in Batch(cursor[r])
    BY <2>1
  <2>2. CASE t < cursor[r]
    BY <2>2 DEF ProgressInv, RunProgress, Done
  <2>. QED
    BY <1>1, <1>2, <1>3, <2>1, <2>2, SagaAssumption DEF Follows, Steps
<1>4. /\ cursor'[r] = n
      /\ pc'[r] \in {"visit", "report"}
      /\ pc'[r] = "visit" => todo'[r] = Batch(n)
  BY <1>2 DEF TypeOK
<1>. QED
  BY <1>3, <1>4 DEF ProgressInv, RunProgress

LEMMA HandledProgress ==
  ASSUME TypeOK, CursorInv, ProgressInv,
         NEW r \in Runs, NEW s \in Steps, Handled(r, s),
         pc[r] \in {"save", "mark_set"},
         UNCHANGED <<task, loaded, status, succeeded>>,
         skipped[r] \subseteq skipped'[r],
         Done(r, s)'
  PROVE  RunProgress(r)'
<1>. USE DEF InBatch, Processing, Marking, InProgress
<1>1. \A t \in Steps : Done(r, t) => Done(r, t)'
  BY DEF Done
<1>2. \A t \in Batch(cursor[r]) : t \in Steps
  BY DEF Batch
<1>3. \A t \in Batch(cursor[r]) \ (todo[r] \ {s}) : Done(r, t)'
  BY <1>1, <1>2 DEF ProgressInv, RunProgress
<1>4. CASE todo[r] = {s} /\ Advance(r)
  BY <1>3, <1>4, AdvanceProgress
<1>5. CASE /\ todo' = [todo EXCEPT ![r] = @ \ {s}]
           /\ pc' = [pc EXCEPT ![r] = "save"]
           /\ cursor' = cursor
  <2>1. todo'[r] = todo[r] \ {s} /\ pc'[r] = "save" /\ cursor'[r] = cursor[r]
    BY <1>5 DEF TypeOK
  <2>. QED
    BY <1>1, <1>3, <2>1 DEF ProgressInv, RunProgress
<1>. QED
  BY <1>4, <1>5 DEF Handled

LEMMA ProgressKept ==
  ASSUME ProgressInv, CursorInv, EvidenceInv, TypeOK,
         NEW r \in Runs, Start(r) \/ RunStep(r) \/ Die(r)
  PROVE  RunProgress(r)'
<1>. USE DEF TypeOK, InProgress, Processing, Marking, redis, lists, tasks
<1>1. RunProgress(r)
  BY DEF ProgressInv
<1>2. \A t \in Batch(cursor[r]) : t \in Steps
  BY DEF Batch
<1>3. CASE Start(r)
  <2>1. cursor'[r] = 1 /\ pc'[r] = "visit" /\ todo'[r] = Batch(1) /\ status'[r] = status[r]
    BY <1>3 DEF Start, CursorInv
  <2>2. succeeded' = succeeded
    BY <1>3 DEF Start
  <2>3. \A t \in Steps : ~(t < 1)
    BY SagaAssumption DEF Steps
  <2>. QED
    BY <1>1, <2>1, <2>2, <2>3 DEF RunProgress
<1>4. ASSUME NEW s \in Steps, Resume(r, s) PROVE RunProgress(r)'
  BY <1>1, <1>4 DEF Resume, Done, RunProgress
<1>5. ASSUME NEW s \in Steps, Queue(r, s) PROVE RunProgress(r)'
  <2>1. task'[r][s] # "none" /\ \A t \in Steps \ {s} : task'[r][t] = task[r][t]
    BY <1>5 DEF Queue
  <2>. QED
    BY <1>1, <1>2, <1>5, <2>1 DEF Queue, Done, RunProgress
<1>6. CASE Gather(r)
  BY <1>1, <1>6 DEF Gather, Done, RunProgress
<1>7. CASE NextBatch(r)
  <2>1. \A t \in Batch(cursor[r]) : Done(r, t)'
    BY <1>1, <1>2, <1>7 DEF NextBatch, Launched, EvidenceInv, Done, RunProgress
  <2>. QED
    BY <1>7, <2>1, AdvanceProgress DEF NextBatch, InBatch
<1>8. ASSUME NEW s \in Steps, AttemptReturns(r, s) PROVE RunProgress(r)'
  <2>1. task'[r][s] # "none" /\ \A t \in Steps \ {s} : task'[r][t] = task[r][t]
    BY <1>8 DEF AttemptReturns
  <2>2. \A t \in Steps : succeeded[t] # {} => succeeded'[t] # {}
    BY <1>8 DEF AttemptReturns
  <2>3. /\ pc'[r] = pc[r] /\ pc[r] = "gather" /\ todo'[r] = todo[r]
        /\ cursor'[r] = cursor[r] /\ loaded'[r] = loaded[r] /\ skipped'[r] = skipped[r]
        /\ status'[r] = status[r]
    BY <1>8 DEF AttemptReturns
  <2>. QED
    BY <1>1, <1>2, <2>1, <2>2, <2>3 DEF Done, RunProgress
<1>9. ASSUME NEW s \in Steps, AttemptRaises(r, s) PROVE RunProgress(r)'
  <2>1. task'[r][s] # "none" /\ \A t \in Steps \ {s} : task'[r][t] = task[r][t]
    BY <1>9 DEF AttemptRaises
  <2>. QED
    BY <1>1, <1>2, <1>9, <2>1 DEF AttemptRaises, Done, RunProgress
<1>10. CASE Gathered(r)
  <2>1. \A t \in Launched(r) : task[r][t] \in {"completed", "failed"}
    BY <1>2, <1>10 DEF Gathered, Launched
  <2>2. todo[r] = {}
    BY <1>10 DEF Gathered, CursorInv
  <2>3. \A t \in Batch(cursor[r]) \ Launched(r) : t \in loaded[r]
    BY <1>1, <2>2, <1>10 DEF Gathered, Launched, RunProgress
  <2>4. \A t \in Batch(cursor[r]) \ Launched(r) : Done(r, t)
    BY <1>2, <2>3 DEF EvidenceInv, Done
  <2>5. pc'[r] = "save" /\ todo'[r] = Launched(r) /\ cursor'[r] = cursor[r] /\ task' = task
    BY <1>10 DEF Gathered
  <2>6. \A t \in Steps : Done(r, t) => Done(r, t)'
    BY <1>10 DEF Gathered, Done
  <2>. QED
    BY <1>1, <1>2, <1>10, <2>1, <2>4, <2>5, <2>6 DEF Gathered, RunProgress
<1>11. ASSUME NEW s \in Steps, SaveCompleted(r, s) PROVE RunProgress(r)'
  <2>1. \A t \in Steps : IsNext(t, todo[r]) => t = s
    BY <1>11, SagaAssumption DEF SaveCompleted, Persist, IsNext, Steps
  <2>. QED
    BY <1>1, <1>11, <2>1 DEF SaveCompleted, Persist, Done, RunProgress
<1>12. ASSUME NEW s \in Steps, MarkGet(r, s) PROVE RunProgress(r)'
  BY <1>1, <1>12 DEF MarkGet, Done, RunProgress
<1>13. ASSUME NEW s \in Steps, MarkSet(r, s) PROVE RunProgress(r)'
  <2>1. Done(r, s)'
    BY <1>1, <1>13 DEF MarkSet, EvidenceInv, Done, RunProgress
  <2>. QED
    BY <1>13, <2>1, HandledProgress DEF MarkSet
<1>14. ASSUME NEW s \in Steps, SaveSkipped(r, s) PROVE RunProgress(r)'
  <2>1. Done(r, s)' /\ skipped[r] \subseteq skipped'[r]
    BY <1>14 DEF SaveSkipped, Done
  <2>. QED
    BY <1>14, <2>1, HandledProgress DEF SaveSkipped, Persist
<1>15. ASSUME NEW s \in Steps, SaveHalting(r, s) PROVE RunProgress(r)'
  <2>1. /\ pc'[r] = "report" /\ status'[r] = "halted"
        /\ cursor' = cursor /\ skipped' = skipped /\ succeeded' = succeeded
        /\ pc[r] = "save"
    BY <1>15 DEF SaveHalting, Persist
  <2>2. \A t \in Steps : t < cursor[r] => Done(r, t)
    BY <1>1, <2>1 DEF RunProgress
  <2>. QED
    BY <2>1, <2>2 DEF Done, RunProgress
<1>16. CASE ReportCompleted(r)
  <2>1. cursor[r] = NSteps + 1 /\ skipped[r] = {}
    BY <1>16 DEF ReportCompleted, CursorInv
  <2>2. \A t \in Steps : t < cursor[r] => Done(r, t)
    BY <1>1, <1>16 DEF ReportCompleted, RunProgress
  <2>3. \A t \in Steps : t < NSteps + 1
    BY SagaAssumption DEF Steps
  <2>4. \A t \in Steps : succeeded[t] # {}
    BY <2>1, <2>2, <2>3 DEF Done
  <2>5. pc'[r] = "done" /\ succeeded' = succeeded
    BY <1>16 DEF ReportCompleted
  <2>. QED
    BY <2>4, <2>5 DEF RunProgress
<1>17. CASE ReportIncomplete(r)
  BY <1>1, <1>17 DEF ReportIncomplete, RunProgress
<1>18. CASE Die(r)
  BY <1>1, <1>18 DEF Die, RunProgress
<1>. QED
  BY <1>3, <1>4, <1>5, <1>6, <1>7, <1>8, <1>9, <1>10, <1>11, <1>12, <1>13,
     <1>14, <1>15, <1>16, <1>17, <1>18 DEF RunStep

-----------------------------------------------------------------------------
(* The saga's order, for any number of overlapping runs, with or without   *)
(* expiry of the keys: what a run counts as done did succeed.              *)
LEMMA Expiry ==
  ASSUME ExpireMarks \/ (\E d \in Domains : ExpireResult(d)) \/ UNCHANGED vars
  PROVE  UNCHANGED <<pc, loaded, cursor, todo, task, tries, snapshot, completed, failed,
                     skipped, status, succeeded>>
<1>1. CASE ExpireMarks
  BY <1>1 DEF ExpireMarks, lists, tasks
<1>2. CASE \E d \in Domains : ExpireResult(d)
  BY <1>2 DEF ExpireResult, lists, tasks
<1>3. CASE UNCHANGED vars
  BY <1>3 DEF vars
<1>. QED
  BY <1>1, <1>2, <1>3

(* OrderInv is inductive. *)
THEOREM OrderCorrect == Spec => []OrderInv
<1>1. Init => OrderInv
  <2>. SUFFICES ASSUME Init PROVE CursorInv /\ EvidenceInv /\ ProgressInv
    BY TypeCorrectInit DEF OrderInv
  <2>1. CursorInv
    BY DEF Init, CursorInv, InBatch
  <2>2. EvidenceInv
    BY DEF Init, EvidenceInv
  <2>3. ProgressInv
    BY DEF Init, ProgressInv, RunProgress, InProgress, Processing, Marking
  <2>. QED
    BY <2>1, <2>2, <2>3
<1>2. OrderInv /\ TypeOK' /\ [Next]_vars => OrderInv'
  <2>. SUFFICES ASSUME OrderInv, TypeOK', [Next]_vars PROVE ProgressInv'
    BY CursorKept, EvidenceKept DEF OrderInv
  <2>1. ASSUME NEW r \in Runs, Start(r) \/ RunStep(r) \/ Die(r) PROVE ProgressInv'
    BY <2>1, OthersAlone, ProgressKept, ProgressOfOthers DEF OrderInv
  <2>2. CASE ExpireMarks \/ (\E d \in Domains : ExpireResult(d)) \/ UNCHANGED vars
    BY <2>2, Expiry
    DEF OrderInv, ProgressInv, RunProgress, InProgress, Processing, Marking, Done
  <2>. QED
    BY <2>1, <2>2 DEF Next
<1>. QED
  BY <1>1, <1>2, TypeCorrect, PTL DEF Spec

(* No run launches a step before what comes earlier has succeeded or was   *)
(* skipped: run_saga goes on to a batch only after the one before it. *)
THEOREM InOrder == Spec => []BatchesInOrder
<1>1. OrderInv => BatchesInOrder
  <2>. SUFFICES ASSUME OrderInv, NEW r \in Runs, InProgress(r), NEW s \in Launched(r),
                       NEW t \in Steps, t < s, t \notin Batch(s)
                PROVE  Done(r, t)
    BY DEF BatchesInOrder, Done
  <2>1. s \in Batch(cursor[r]) /\ cursor[r] \in 1..(NSteps + 1)
    BY DEF Launched, OrderInv, TypeOK
  <2>2. t < cursor[r]
    BY <2>1, BehindTheBatch
  <2>. QED
    BY <2>2 DEF OrderInv, ProgressInv, RunProgress
<1>. QED
  BY <1>1, OrderCorrect, PTL

(* Every step of a saga that run_saga reports as completed has succeeded,  *)
(* in this run or in one it resumes. *)
THEOREM CompletedIsWhole == Spec => []CompletedMeansAll
<1>1. OrderInv => CompletedMeansAll
  BY DEF OrderInv, ProgressInv, RunProgress, CompletedMeansAll
<1>. QED
  BY <1>1, OrderCorrect, PTL

-----------------------------------------------------------------------------
(* The resume of a saga by runs that do not overlap. *)
LEMMA OnlyInProgress == ASSUME NEW r \in Runs, RunStep(r) PROVE InProgress(r)
BY DEF RunStep, InProgress, Resume, Queue, Gather, NextBatch, AttemptReturns,
       AttemptRaises, Gathered, SaveCompleted, Persist, MarkGet, MarkSet,
       SaveSkipped, SaveHalting, ReportCompleted, ReportIncomplete

(* While a run takes a step every other one is idle or over, and stays so. *)
LEMMA OthersQuiet ==
  ASSUME OneAtATime, TypeOK, SoleRun, NEW r \in Runs, Start(r) \/ RunStep(r) \/ Die(r)
  PROVE  \A q \in Runs \ {r} : ~InProgress(q) /\ pc'[q] = pc[q]
<1>1. \A q \in Runs \ {r} : pc'[q] = pc[q]
  BY OthersAlone DEF Others
<1>2. CASE Start(r)
  BY <1>1, <1>2 DEF Start
<1>3. CASE RunStep(r) \/ Die(r)
  <2>1. InProgress(r)
    BY <1>3, OnlyInProgress DEF Die
  <2>. QED
    BY <1>1, <2>1 DEF SoleRun
<1>. QED
  BY <1>2, <1>3

LEMMA SoleKept ==
  ASSUME OneAtATime, TypeOK, SoleRun, [Next]_vars
  PROVE  SoleRun'
<1>1. ASSUME NEW r \in Runs, Start(r) \/ RunStep(r) \/ Die(r) PROVE SoleRun'
  <2>1. \A q \in Runs \ {r} : ~InProgress(q)'
    BY <1>1, OthersQuiet DEF InProgress
  <2>. QED
    BY <2>1 DEF SoleRun
<1>2. CASE ExpireMarks \/ (\E d \in Domains : ExpireResult(d)) \/ UNCHANGED vars
  BY <1>2, Expiry DEF SoleRun, InProgress
<1>. QED
  BY <1>1, <1>2 DEF Next
-----------------------------------------------------------------------------
(* A run that moves on leaves every step it launched behind it.            *)
LEMMA AdvanceLaunch ==
  ASSUME TypeOK, CursorInv, NEW r \in Runs, InBatch(r), Advance(r), RunLaunch(r),
         task' = task
  PROVE  RunLaunch(r)'
<1>1. cursor[r] \in Steps /\ InProgress(r)
  BY DEF CursorInv, InBatch, InProgress
<1>2. PICK n \in 2..(NSteps + 1) :
           /\ Follows(n, r)
           /\ cursor' = [cursor EXCEPT ![r] = n]
  BY <1>1, AdvancePlace
<1>3. ASSUME NEW t \in Steps, task[r][t] # "none" PROVE t < n
  <2>1. CASE t < cursor[r]
    BY <2>1, <1>1, <1>2, SagaAssumption DEF Follows, Steps
  <2>2. CASE t \in Batch(cursor[r])
    BY <2>2, <1>1, <1>2, SagaAssumption DEF Follows, Steps
  <2>. QED
    BY <1>1, <1>3, <2>1, <2>2 DEF RunLaunch
<1>4. cursor'[r] = n
  BY <1>2 DEF TypeOK
<1>. QED
  BY <1>3, <1>4 DEF RunLaunch

LEMMA HandledLaunch ==
  ASSUME TypeOK, CursorInv, NEW r \in Runs, NEW s \in Steps, Handled(r, s),
         pc[r] \in {"save", "mark_set"}, RunLaunch(r), task' = task
  PROVE  RunLaunch(r)'
<1>1. CASE Advance(r)
  BY <1>1, AdvanceLaunch DEF InBatch
<1>2. CASE ~Advance(r)
  <2>1. pc'[r] = "save" /\ cursor' = cursor
    BY <1>2 DEF Handled, TypeOK
  <2>. QED
    BY <2>1 DEF RunLaunch, InProgress
<1>. QED
  BY <1>1, <1>2

LEMMA LaunchKept ==
  ASSUME TypeOK, CursorInv, LaunchInv, [Next]_vars
  PROVE  LaunchInv'
<1>. USE DEF TypeOK, InProgress, redis, lists, tasks
<1>1. ASSUME NEW r \in Runs, Start(r) \/ RunStep(r) \/ Die(r) PROVE RunLaunch(r)'
  <2>0. RunLaunch(r)
    BY DEF LaunchInv
  <2>1. CASE Start(r)
    BY <2>1 DEF Start, CursorInv, RunLaunch
  <2>2. ASSUME NEW s \in Steps, Resume(r, s) PROVE RunLaunch(r)'
    BY <2>0, <2>2 DEF Resume, RunLaunch
  <2>3. ASSUME NEW s \in Steps, Queue(r, s) PROVE RunLaunch(r)'
    <3>1. /\ s \in Batch(cursor[r]) /\ pc[r] = "visit"
          /\ pc' = pc /\ cursor' = cursor /\ todo'[r] = todo[r] \ {s}
          /\ \A t \in Steps \ {s} : task'[r][t] = task[r][t]
      BY <2>3 DEF Queue, IsNext, CursorInv, InBatch
    <3>. QED
      BY <2>0, <3>1 DEF RunLaunch
  <2>4. CASE Gather(r)
    BY <2>0, <2>4 DEF Gather, RunLaunch
  <2>5. CASE NextBatch(r)
    BY <2>0, <2>5, AdvanceLaunch DEF NextBatch, InBatch
  <2>6. ASSUME NEW s \in Steps, AttemptReturns(r, s) PROVE RunLaunch(r)'
    <3>1. /\ task[r][s] # "none"
          /\ pc' = pc /\ cursor' = cursor /\ todo' = todo
          /\ \A t \in Steps \ {s} : task'[r][t] = task[r][t]
      BY <2>6 DEF AttemptReturns
    <3>. QED
      BY <2>0, <3>1 DEF RunLaunch
  <2>7. ASSUME NEW s \in Steps, AttemptRaises(r, s) PROVE RunLaunch(r)'
    <3>1. /\ task[r][s] # "none"
          /\ pc' = pc /\ cursor' = cursor /\ todo' = todo
          /\ \A t \in Steps \ {s} : task'[r][t] = task[r][t]
      BY <2>7 DEF AttemptRaises
    <3>. QED
      BY <2>0, <3>1 DEF RunLaunch
  <2>8. CASE Gathered(r)
    <3>1. pc[r] = "gather" /\ pc'[r] = "save" /\ cursor' = cursor /\ task' = task
      BY <2>8 DEF Gathered
    <3>. QED
      BY <2>0, <3>1 DEF RunLaunch
  <2>9. ASSUME NEW s \in Steps, SaveCompleted(r, s) PROVE RunLaunch(r)'
    BY <2>0, <2>9 DEF SaveCompleted, Persist, RunLaunch
  <2>10. ASSUME NEW s \in Steps, MarkGet(r, s) PROVE RunLaunch(r)'
    BY <2>0, <2>10 DEF MarkGet, RunLaunch
  <2>11. ASSUME NEW s \in Steps, MarkSet(r, s) PROVE RunLaunch(r)'
    BY <2>0, <2>11, HandledLaunch DEF MarkSet
  <2>12. ASSUME NEW s \in Steps, SaveSkipped(r, s) PROVE RunLaunch(r)'
    BY <2>0, <2>12, HandledLaunch DEF SaveSkipped, Persist
  <2>13. ASSUME NEW s \in Steps, SaveHalting(r, s) PROVE RunLaunch(r)'
    <3>1. pc[r] = "save" /\ pc'[r] = "report" /\ cursor' = cursor /\ task' = task
      BY <2>13 DEF SaveHalting, Persist
    <3>. QED
      BY <2>0, <3>1 DEF RunLaunch
  <2>14. CASE ReportCompleted(r) \/ ReportIncomplete(r) \/ Die(r)
    <3>1. pc'[r] \in {"done", "dead"}
      BY <2>14 DEF ReportCompleted, ReportIncomplete, Die
    <3>. QED
      BY <3>1 DEF RunLaunch
  <2>. QED
    BY <1>1, <2>1, <2>2, <2>3, <2>4, <2>5, <2>6, <2>7, <2>8, <2>9, <2>10, <2>11,
       <2>12, <2>13, <2>14 DEF RunStep
<1>2. ASSUME NEW r \in Runs, Start(r) \/ RunStep(r) \/ Die(r) PROVE LaunchInv'
  <2>. SUFFICES ASSUME NEW q \in Runs, q # r PROVE RunLaunch(q)'
    BY <1>1, <1>2 DEF LaunchInv
  <2>1. pc'[q] = pc[q] /\ cursor'[q] = cursor[q] /\ todo'[q] = todo[q] /\ task'[q] = task[q]
    BY <1>2, OthersAlone DEF Others
  <2>. QED
    BY <2>1 DEF LaunchInv, RunLaunch
<1>3. CASE ExpireMarks \/ (\E d \in Domains : ExpireResult(d)) \/ UNCHANGED vars
  BY <1>3, Expiry DEF LaunchInv, RunLaunch
<1>. QED
  BY <1>2, <1>3 DEF Next
-----------------------------------------------------------------------------
(* What a step writes under its domain touches no other step's result.     *)
LEMMA OwnKey ==
  ASSUME DistinctDomains, TypeOK, NEW r \in Runs, NEW s \in Steps, Persist(r, s)
  PROVE  /\ results'[Domain[s]] = [step |-> s, status |-> task[r][s]]
         /\ \A t \in Steps \ {s} : results'[Domain[t]] = results[Domain[t]]
BY SagaAssumption DEF DistinctDomains, TypeOK, Persist

LEMMA NextOne ==
  ASSUME NEW set \in SUBSET Steps, NEW s \in Steps, NEW t \in Steps, IsNext(s, set), IsNext(t, set)
  PROVE  s = t
BY SagaAssumption DEF IsNext, Steps

(* The marks stay right through every step of the one run in progress.     *)
LEMMA MarksRight ==
  ASSUME DistinctDomains, OrderInv, LaunchInv, MarkInv,
         NEW r \in Runs, Start(r) \/ RunStep(r) \/ Die(r)
  PROVE  (\A s \in marks' : Backed(s)') /\ RunMarks(r)'
<1>. DEFINE Goal == (\A s \in marks' : Backed(s)') /\ RunMarks(r)'
<1>. USE DEF TypeOK, OrderInv, InProgress, Marking, redis, lists, tasks
<1>0. (\A s \in marks : Backed(s)) /\ RunMarks(r) /\ marks \subseteq Steps
  BY DEF MarkInv
<1>1. CASE Start(r)
  <2>1. /\ marks' = marks /\ results' = results /\ succeeded' = succeeded /\ task' = task
        /\ pc'[r] = "visit" /\ loaded'[r] = marks
        /\ \A s \in Steps : task[r][s] = "none"
    BY <1>1 DEF Start, CursorInv
  <2>. QED
    BY <1>0, <2>1 DEF RunMarks, Backed, Knows
<1>2. ASSUME NEW s \in Steps, Resume(r, s) PROVE Goal
  BY <1>0, <1>2 DEF Resume, RunMarks, Backed, Knows
<1>3. ASSUME NEW s \in Steps, Queue(r, s) PROVE Goal
  <2>1. /\ marks' = marks /\ results' = results /\ succeeded' = succeeded
        /\ pc[r] = "visit" /\ pc' = pc /\ loaded' = loaded /\ s \notin loaded[r]
        /\ \A t \in Steps \ {s} : task'[r][t] = task[r][t]
    BY <1>3 DEF Queue
  <2>2. task[r][s] # "completed"
    <3>1. s \in todo[r] /\ s >= cursor[r]
      BY <1>3 DEF Queue, IsNext, CursorInv, InBatch
    <3>2. ~(s < cursor[r])
      BY <3>1, SagaAssumption DEF Steps
    <3>3. RunLaunch(r) /\ InProgress(r)
      BY <2>1 DEF LaunchInv
    <3>. QED
      BY <2>1, <3>1, <3>2, <3>3 DEF RunLaunch
  <2>. QED
    BY <1>0, <2>1, <2>2 DEF RunMarks, Backed, Knows
<1>4. CASE Gather(r)
  BY <1>0, <1>4 DEF Gather, RunMarks, Backed, Knows
<1>5. ASSUME pc'[r] \in {"visit", "report", "save"}, InProgress(r),
             UNCHANGED <<marks, results, succeeded, loaded, task>>
      PROVE  Goal
  BY <1>0, <1>5 DEF RunMarks, Backed, Knows
<1>6. CASE NextBatch(r)
  <2>1. pc'[r] \in {"visit", "report"}
    BY <1>6 DEF NextBatch, Advance
  <2>. QED
    BY <1>6, <2>1, <1>5 DEF NextBatch
<1>7. ASSUME NEW s \in Steps, AttemptReturns(r, s) PROVE Goal
  <2>1. /\ marks' = marks /\ results' = results
        /\ \A t \in Steps : succeeded[t] # {} => succeeded'[t] # {}
        /\ pc[r] = "gather" /\ pc' = pc /\ loaded' = loaded
        /\ task[r][s] = "queued" /\ task'[r][s] = "completed"
        /\ \A t \in Steps \ {s} : task'[r][t] = task[r][t]
    BY <1>7 DEF AttemptReturns
  <2>2. \A t \in Steps : Backed(t) => Backed(t)'
    BY <2>1 DEF Backed
  <2>. QED
    BY <1>0, <2>1, <2>2 DEF RunMarks, Knows
<1>8. ASSUME NEW s \in Steps, AttemptRaises(r, s) PROVE Goal
  <2>1. /\ marks' = marks /\ results' = results /\ succeeded' = succeeded
        /\ pc[r] = "gather" /\ pc' = pc /\ loaded' = loaded
        /\ task[r][s] = "queued" /\ task'[r][s] # "none"
        /\ \A t \in Steps \ {s} : task'[r][t] = task[r][t]
    BY <1>8 DEF AttemptRaises
  <2>. QED
    BY <1>0, <2>1 DEF RunMarks, Backed, Knows
<1>9. CASE Gathered(r)
  BY <1>9, <1>5 DEF Gathered
<1>10. ASSUME NEW s \in Steps, SaveCompleted(r, s) PROVE Goal
  <2>1. /\ marks' = marks /\ succeeded' = succeeded /\ loaded' = loaded /\ task' = task
        /\ todo' = todo /\ pc[r] = "save" /\ pc'[r] = "mark_get"
        /\ task[r][s] = "completed" /\ IsNext(s, todo[r])
    BY <1>10 DEF SaveCompleted, Persist
  <2>2. Backed(s)'
    BY <2>1, <1>10, OwnKey DEF SaveCompleted, Backed, EvidenceInv
  <2>3. \A t \in Steps : Backed(t) => Backed(t)'
    BY <2>1, <2>2, <1>10, OwnKey DEF SaveCompleted, Backed
  <2>4. \A t \in Steps : IsNext(t, todo'[r]) => t = s
    BY <2>1, NextOne
  <2>. QED
    BY <1>0, <2>1, <2>2, <2>3, <2>4 DEF RunMarks, Knows
<1>11. ASSUME NEW s \in Steps, MarkGet(r, s) PROVE Goal
  <2>1. /\ marks' = marks /\ results' = results /\ succeeded' = succeeded
        /\ loaded' = loaded /\ task' = task /\ todo' = todo
        /\ pc[r] = "mark_get" /\ pc'[r] = "mark_set" /\ snapshot'[r] = marks
    BY <1>11 DEF MarkGet
  <2>. QED
    BY <1>0, <2>1 DEF RunMarks, Backed, Knows
<1>12. ASSUME NEW s \in Steps, MarkSet(r, s) PROVE Goal
  <2>1. /\ marks' = snapshot[r] \cup {s} /\ results' = results /\ succeeded' = succeeded
        /\ loaded' = loaded /\ task' = task
        /\ pc[r] = "mark_set" /\ IsNext(s, todo[r])
    BY <1>12 DEF MarkSet
  <2>2. pc'[r] \in {"visit", "report", "save"}
    BY <1>12 DEF MarkSet, Handled, Advance
  <2>3. task[r][s] = "completed" /\ Backed(s)
    BY <1>0, <2>1 DEF RunMarks, ProgressInv, RunProgress
  <2>. QED
    BY <1>0, <2>1, <2>2, <2>3 DEF RunMarks, Backed, Knows
<1>13. ASSUME NEW s \in Steps, task[r][s] = "failed", Persist(r, s),
              pc'[r] \in {"visit", "report", "save"},
              UNCHANGED <<marks, succeeded, loaded, task>>
       PROVE  Goal
  <2>1. pc[r] = "save" /\ ~Knows(r, s)
    BY <1>0, <1>13 DEF Persist, RunMarks, Knows
  <2>2. \A t \in Steps \ {s} : Backed(t) => Backed(t)'
    BY <1>13, OwnKey DEF Backed
  <2>. QED
    BY <1>0, <1>13, <2>1, <2>2 DEF RunMarks, Knows
<1>14. ASSUME NEW s \in Steps, SaveSkipped(r, s) PROVE Goal
  <2>1. pc'[r] \in {"visit", "report", "save"}
    BY <1>14 DEF SaveSkipped, Handled, Advance
  <2>. QED
    BY <1>14, <2>1, <1>13 DEF SaveSkipped
<1>15. ASSUME NEW s \in Steps, SaveHalting(r, s) PROVE Goal
  BY <1>15, <1>13 DEF SaveHalting
<1>16. ASSUME pc'[r] \in {"done", "dead"}, marks' \subseteq marks, UNCHANGED <<results, succeeded>>
       PROVE  Goal
  BY <1>0, <1>16 DEF RunMarks, Backed
<1>17. CASE ReportCompleted(r) \/ ReportIncomplete(r) \/ Die(r)
  BY <1>17, <1>16 DEF ReportCompleted, ReportIncomplete, Die
<1>. QED
  BY <1>1, <1>2, <1>3, <1>4, <1>6, <1>7, <1>8, <1>9, <1>10, <1>11, <1>12, <1>14,
     <1>15, <1>17 DEF RunStep

-----------------------------------------------------------------------------
LEMMA MarkKept ==
  ASSUME OneAtATime, DistinctDomains, OrderInv, SoleRun, LaunchInv, MarkInv, [Next]_vars
  PROVE  MarkInv'
<1>1. ASSUME NEW r \in Runs, Start(r) \/ RunStep(r) \/ Die(r) PROVE MarkInv'
  <2>1. \A q \in Runs \ {r} : ~InProgress(q)'
    BY <1>1, OthersQuiet DEF InProgress, OrderInv
  <2>. QED
    BY <1>1, <2>1, MarksRight DEF MarkInv, RunMarks
<1>2. CASE ExpireMarks \/ (\E d \in Domains : ExpireResult(d)) \/ UNCHANGED vars
  <2>1. marks' \subseteq marks /\ \A d \in Domains : results'[d] \in {results[d], NoResult}
    BY <1>2 DEF ExpireMarks, ExpireResult, vars, OrderInv, TypeOK
  <2>2. \A s \in Steps : Backed(s) => Backed(s)'
    BY <1>2, <2>1, Expiry, SagaAssumption DEF Backed
  <2>3. /\ marks \subseteq Steps
        /\ \A r \in Runs : loaded[r] \subseteq Steps /\ snapshot[r] \subseteq Steps
    BY DEF OrderInv, TypeOK
  <2>4. \A s \in marks' : Backed(s)'
    BY <2>1, <2>2, <2>3 DEF MarkInv
  <2>5. ASSUME NEW r \in Runs PROVE RunMarks(r)'
    <3>1. RunMarks(r)
      BY DEF MarkInv
    <3>2. UNCHANGED <<pc, loaded, task, snapshot, todo>>
      BY <1>2, Expiry
    <3>. QED
      BY <2>1, <2>2, <2>3, <3>1, <3>2 DEF RunMarks, InProgress, Marking, Knows
  <2>. QED
    BY <2>4, <2>5 DEF MarkInv
<1>. QED
  BY <1>1, <1>2 DEF Next

(* completed_steps grows by what is read for a mark or has just succeeded. *)
LEMMA ReportsKept ==
  ASSUME OrderInv, MarkInv, ReportsOnlySuccesses, [Next]_vars
  PROVE  ReportsOnlySuccesses'
<1>. DEFINE Good(e) == e.status # "failed" /\ succeeded[e.step] # {}
<1>. USE DEF OrderInv, TypeOK
<1>1. ASSUME NEW r \in Runs, Start(r) \/ RunStep(r) \/ Die(r),
             \A e \in completed'[r] : Good(e)
      PROVE  ReportsOnlySuccesses'
  <2>1. /\ \A q \in Runs \ {r} : completed'[q] = completed[q]
        /\ \A t \in Steps : succeeded[t] # {} => succeeded'[t] # {}
    BY <1>1, OthersAlone DEF Others, Grows
  <2>2. TypeOK'
    BY <1>1, TypeKept DEF Next
  <2>3. ASSUME NEW q \in Runs, NEW e \in completed'[q]
        PROVE  e.step \in Steps /\ e.status # "failed" /\ succeeded[e.step] # {}
    <3>1. e.step \in Steps
      BY <2>2 DEF StepResult
    <3>2. CASE q = r
      BY <1>1, <3>1, <3>2
    <3>3. CASE q # r
      BY <2>1, <3>1, <3>3 DEF ReportsOnlySuccesses
    <3>. QED
      BY <3>2, <3>3
  <2>. QED
    BY <2>1, <2>3 DEF ReportsOnlySuccesses
<1>2. ASSUME NEW r \in Runs, NEW s \in Steps, Resume(r, s) PROVE ReportsOnlySuccesses'
  <2>1. results[Domain[s]] \in {NoResult, [step |-> s, status |-> "completed"]} /\ succeeded[s] # {}
    BY <1>2 DEF Resume, MarkInv, RunMarks, Backed, InProgress
  <2>2. completed'[r] \subseteq completed[r] \cup {[step |-> s, status |-> "completed"]}
    BY <1>2, <2>1 DEF Resume
  <2>3. \A e \in completed'[r] : Good(e)
    <3>1. \A e \in completed[r] : Good(e)
      BY DEF ReportsOnlySuccesses
    <3>2. Good([step |-> s, status |-> "completed"])
      BY <2>1
    <3>. QED
      BY <2>2, <3>1, <3>2
  <2>. QED
    BY <1>1, <1>2, <2>3 DEF RunStep
<1>3. ASSUME NEW r \in Runs, NEW s \in Steps, SaveCompleted(r, s) PROVE ReportsOnlySuccesses'
  <2>1. completed'[r] = completed[r] \cup {[step |-> s, status |-> "completed"]}
    BY <1>3 DEF SaveCompleted
  <2>2. succeeded[s] # {}
    BY <1>3 DEF SaveCompleted, EvidenceInv
  <2>3. \A e \in completed'[r] : Good(e)
    <3>1. \A e \in completed[r] : Good(e)
      BY DEF ReportsOnlySuccesses
    <3>2. Good([step |-> s, status |-> "completed"])
      BY <2>2
    <3>. QED
      BY <2>1, <3>1, <3>2
  <2>. QED
    BY <1>1, <1>3, <2>3 DEF RunStep
<1>4. ASSUME NEW r \in Runs, NEW s \in Steps, SaveHalting(r, s) PROVE ReportsOnlySuccesses'
  <2>1. \A e \in RollbackCompleted(r) : Good(e)
    <3>. SUFFICES ASSUME NEW f \in completed[r]
                  PROVE  Good([step |-> f.step, status |-> "rolled_back"])
      BY DEF RollbackCompleted
    <3>. QED
      BY DEF ReportsOnlySuccesses
  <2>2. \A e \in completed'[r] : Good(e)
    BY <1>4, <2>1 DEF SaveHalting, ReportsOnlySuccesses
  <2>. QED
    BY <1>1, <1>4, <2>2 DEF RunStep
<1>5. ASSUME NEW r \in Runs, Start(r) \/ RunStep(r) \/ Die(r), completed' = completed
      PROVE  ReportsOnlySuccesses'
  BY <1>1, <1>5 DEF ReportsOnlySuccesses
<1>6. CASE ExpireMarks \/ (\E d \in Domains : ExpireResult(d)) \/ UNCHANGED vars
  BY <1>6, Expiry DEF ReportsOnlySuccesses
<1>7. ASSUME NEW r \in Runs, RunStep(r), ~\E s \in Steps : Resume(r, s) \/ SaveCompleted(r, s)
                                                        \/ SaveHalting(r, s)
      PROVE  completed' = completed
  BY <1>7 DEF RunStep, Queue, Gather, NextBatch, AttemptReturns, AttemptRaises, Gathered,
              MarkGet, MarkSet, SaveSkipped, ReportCompleted, ReportIncomplete, lists
<1>8. ASSUME NEW r \in Runs, Start(r) \/ Die(r) PROVE completed' = completed
  BY <1>8 DEF Start, Die, lists
<1>. QED
  BY <1>2, <1>3, <1>4, <1>5, <1>6, <1>7, <1>8 DEF Next

-----------------------------------------------------------------------------
(* ResumeInv is inductive: main.py starting one Master Worker at a time,   *)
(* and a task that needs each domain once, are all that resume rests on.   *)
THEOREM ResumeCorrect ==
  ASSUME OneAtATime, DistinctDomains
  PROVE  Spec => []ResumeInv
<1>1. Init => SoleRun /\ LaunchInv /\ MarkInv /\ ReportsOnlySuccesses
  <2>. SUFFICES ASSUME Init
                PROVE  SoleRun /\ LaunchInv /\ MarkInv /\ ReportsOnlySuccesses
    OBVIOUS
  <2>1. marks = {} /\ \A r \in Runs : ~InProgress(r) /\ completed[r] = {}
    BY DEF Init, InProgress
  <2>. QED
    BY <2>1 DEF SoleRun, LaunchInv, RunLaunch, MarkInv, RunMarks, ReportsOnlySuccesses
<1>2. /\ OrderInv /\ SoleRun /\ LaunchInv /\ MarkInv /\ ReportsOnlySuccesses
      /\ [Next]_vars
      => (SoleRun /\ LaunchInv /\ MarkInv /\ ReportsOnlySuccesses)'
  BY SoleKept, LaunchKept, MarkKept, ReportsKept DEF OrderInv
<1>. QED
  BY <1>1, <1>2, OrderCorrect, PTL DEF Spec, ResumeInv

(* A mark stands for a success of its step, and the result read for it on  *)
(* resume is that success or has expired; completed_steps holds successes. *)
THEOREM MarksAreBacked ==
  ASSUME OneAtATime, DistinctDomains
  PROVE  Spec => [](MarkedIsBacked /\ ReportsOnlySuccesses)
<1>1. ResumeInv => MarkedIsBacked /\ ReportsOnlySuccesses
  BY DEF ResumeInv, MarkInv, MarkedIsBacked, Backed
<1>. QED
  BY <1>1, ResumeCorrect, PTL

(* No run executes a step that is marked completed.                        *)
THEOREM MarkedNeverRuns ==
  ASSUME OneAtATime, DistinctDomains
  PROVE  Spec => NeverRunsMarked
<1>. DEFINE A == \A r \in Runs, s \in Steps : task'[r][s] # task[r][s] => s \notin marks
<1>1. ResumeInv /\ Next => A
  <2>. SUFFICES ASSUME ResumeInv, Next, NEW r \in Runs, NEW s \in Steps,
                       task'[r][s] # task[r][s]
                PROVE  s \notin marks
    OBVIOUS
  <2>. USE DEF ResumeInv, OrderInv, TypeOK, InProgress
  <2>1. Queue(r, s) \/ AttemptReturns(r, s) \/ AttemptRaises(r, s)
    <3>1. CASE ExpireMarks \/ \E d \in Domains : ExpireResult(d)
      BY <3>1, Expiry
    <3>2. ASSUME NEW q \in Runs, Start(q) \/ RunStep(q) \/ Die(q) PROVE q = r
      BY <3>2, OthersAlone DEF Others
    <3>3. ASSUME Start(r) \/ Die(r) PROVE FALSE
      BY <3>3 DEF Start, Die, tasks
    <3>4. CASE RunStep(r)
      <4>1. PICK t \in Steps : Queue(r, t) \/ AttemptReturns(r, t) \/ AttemptRaises(r, t)
        BY <3>4 DEF RunStep, Resume, Gather, NextBatch, Gathered, SaveCompleted, MarkGet,
                    MarkSet, SaveSkipped, SaveHalting, ReportCompleted, ReportIncomplete,
                    tasks
      <4>2. t = s
        BY <4>1 DEF Queue, AttemptReturns, AttemptRaises
      <4>. QED
        BY <4>1, <4>2
    <3>. QED
      BY <3>1, <3>2, <3>3, <3>4 DEF Next
  <2>2. RunMarks(r) /\ RunLaunch(r) /\ InProgress(r)
    BY <2>1 DEF MarkInv, LaunchInv, Queue, AttemptReturns, AttemptRaises
  <2>3. ~Knows(r, s)
    <3>1. CASE Queue(r, s)
      <4>1. /\ s \in todo[r] /\ pc[r] = "visit" /\ s \notin loaded[r] /\ s >= cursor[r]
        BY <3>1 DEF Queue, IsNext, CursorInv, InBatch
      <4>2. ~(s < cursor[r])
        BY <4>1, SagaAssumption DEF Steps
      <4>. QED
        BY <2>2, <4>1, <4>2 DEF Knows, RunLaunch
    <3>2. CASE AttemptReturns(r, s) \/ AttemptRaises(r, s)
      <4>1. task[r][s] = "queued"
        BY <3>2 DEF AttemptReturns, AttemptRaises
      <4>. QED
        BY <2>2, <4>1 DEF Knows, RunMarks
    <3>. QED
      BY <2>1, <3>1, <3>2
  <2>. QED
    BY <2>2, <2>3 DEF RunMarks
<1>2. ResumeInv /\ [Next]_vars => [A]_vars
  BY <1>1
<1>. QED
  BY <1>2, ResumeCorrect, PTL DEF Spec, NeverRunsMarked

-----------------------------------------------------------------------------
(* How a run ends, and what the runs implement. *)
(* Two steps of the batch of one step belong to each other's batch.        *)
LEMMA SameBatch ==
  ASSUME NEW c \in Steps, NEW s \in Batch(c), NEW t \in Batch(c)
  PROVE  t \in Batch(s)
<1>1. s \in Steps /\ t \in Steps
  BY DEF Batch
<1>2. \A u \in Between(s, t) : u \in Between(c, s) \/ u \in Between(c, t)
  BY <1>1, SagaAssumption DEF Between, Steps
<1>3. Between(c, s) = Between(s, c)
  BY DEF Between
<1>4. CASE s = c
  BY <1>4
<1>5. CASE t = c
  BY <1>1, <1>3, <1>5 DEF Batch
<1>6. CASE s # c /\ t # c
  BY <1>1, <1>2, <1>6 DEF Batch
<1>. QED
  BY <1>4, <1>5, <1>6

-----------------------------------------------------------------------------
(* The outcome of a run depends on nothing another run does.               *)
LEMMA OutcomeAdvance ==
  ASSUME TypeOK, NEW r \in Runs, InBatch(r), pc'[r] \in {"visit", "save", "report"},
         RunOutcome(r), UNCHANGED <<status, failed, succeeded, task>>
  PROVE  RunOutcome(r)'
BY DEF RunOutcome, InBatch, InProgress

LEMMA OutcomeKept ==
  ASSUME TypeOK, CursorInv, LaunchInv, ProgressInv, OutcomeInv,
         NEW r \in Runs, Start(r) \/ RunStep(r) \/ Die(r)
  PROVE  RunOutcome(r)'
<1>. USE DEF TypeOK, InProgress, redis, lists, tasks
<1>0. RunOutcome(r)
  BY DEF OutcomeInv
<1>1. CASE Start(r)
  <2>1. /\ pc[r] = "idle" /\ pc'[r] = "visit"
        /\ UNCHANGED <<status, failed, skipped, succeeded, task, cursor>>
    BY <1>1 DEF Start
  <2>. QED
    BY <1>0, <2>1 DEF RunOutcome
<1>2. ASSUME NEW s \in Steps, Resume(r, s) PROVE RunOutcome(r)'
  BY <1>0, <1>2 DEF Resume, RunOutcome
<1>3. ASSUME NEW s \in Steps, Queue(r, s) PROVE RunOutcome(r)'
  <2>1. /\ pc[r] = "visit" /\ pc' = pc /\ task[r][s] # "completed"
        /\ UNCHANGED <<status, failed, skipped, succeeded, cursor>>
        /\ \A t \in Steps \ {s} : task'[r][t] = task[r][t]
    <3>1. /\ s \in todo[r] /\ pc[r] = "visit" /\ s >= cursor[r]
      BY <1>3 DEF Queue, IsNext, CursorInv, InBatch
    <3>2. ~(s < cursor[r])
      BY <3>1, SagaAssumption DEF Steps
    <3>3. RunLaunch(r)
      BY DEF LaunchInv
    <3>4. task[r][s] = "none"
      BY <3>1, <3>2, <3>3 DEF RunLaunch
    <3>. QED
      BY <1>3, <3>4 DEF Queue
  <2>. QED
    BY <1>0, <2>1 DEF RunOutcome
<1>4. CASE Gather(r)
  BY <1>0, <1>4 DEF Gather, RunOutcome
<1>5. CASE NextBatch(r)
  <2>1. pc'[r] \in {"visit", "report"} /\ InBatch(r)
    BY <1>5 DEF NextBatch, Advance, InBatch
  <2>. QED
    BY <1>0, <1>5, <2>1, OutcomeAdvance DEF NextBatch
<1>6. ASSUME NEW s \in Steps, AttemptReturns(r, s) PROVE RunOutcome(r)'
  <2>1. /\ pc[r] = "gather" /\ pc' = pc /\ task'[r][s] = "completed"
        /\ UNCHANGED <<status, failed, skipped, cursor>>
        /\ \A t \in Steps \ {s} : task'[r][t] = task[r][t] /\ succeeded'[t] = succeeded[t]
    BY <1>6 DEF AttemptReturns
  <2>. QED
    BY <1>0, <2>1 DEF RunOutcome
<1>7. ASSUME NEW s \in Steps, AttemptRaises(r, s) PROVE RunOutcome(r)'
  <2>1. /\ pc[r] = "gather" /\ pc' = pc /\ task[r][s] = "queued"
        /\ UNCHANGED <<status, failed, skipped, cursor, succeeded>>
        /\ \A t \in Steps \ {s} : task'[r][t] = task[r][t]
    BY <1>7 DEF AttemptRaises
  <2>. QED
    BY <1>0, <2>1 DEF RunOutcome
<1>8. CASE Gathered(r)
  BY <1>0, <1>8, OutcomeAdvance DEF Gathered, InBatch
<1>9. ASSUME NEW s \in Steps, SaveCompleted(r, s) PROVE RunOutcome(r)'
  BY <1>0, <1>9 DEF SaveCompleted, Persist, RunOutcome
<1>10. ASSUME NEW s \in Steps, MarkGet(r, s) PROVE RunOutcome(r)'
  BY <1>0, <1>10 DEF MarkGet, RunOutcome
<1>11. ASSUME NEW s \in Steps, MarkSet(r, s) PROVE RunOutcome(r)'
  <2>1. pc'[r] \in {"visit", "report", "save"} /\ InBatch(r)
    BY <1>11 DEF MarkSet, Handled, Advance, InBatch
  <2>. QED
    BY <1>0, <1>11, <2>1, OutcomeAdvance DEF MarkSet
<1>12. ASSUME NEW s \in Steps, SaveSkipped(r, s) PROVE RunOutcome(r)'
  <2>1. pc'[r] \in {"visit", "report", "save"} /\ InBatch(r)
    BY <1>12 DEF SaveSkipped, Persist, Handled, Advance, InBatch
  <2>. QED
    BY <1>0, <1>12, <2>1, OutcomeAdvance DEF SaveSkipped
<1>13. ASSUME NEW s \in Steps, SaveHalting(r, s) PROVE RunOutcome(r)'
  <2>1. /\ pc[r] = "save" /\ pc'[r] = "report" /\ status'[r] = "halted"
        /\ failed'[r] = failed[r] \cup {s} /\ s \in Batch(cursor[r])
        /\ UNCHANGED <<cursor, task, succeeded>>
    BY <1>13 DEF SaveHalting, Persist, IsNext, CursorInv, InBatch
  <2>2. failed[r] = {} /\ RunLaunch(r)
    BY <1>0, <2>1 DEF RunOutcome, LaunchInv
  <2>3. cursor[r] \in Steps /\ \A t \in Batch(cursor[r]) : t >= cursor[r]
    BY <2>1 DEF CursorInv, InBatch
  <2>. QED
    BY <1>0, <2>1, <2>2, <2>3 DEF RunOutcome, RunLaunch
<1>14. ASSUME ReportCompleted(r) \/ ReportIncomplete(r) \/ Die(r) PROVE RunOutcome(r)'
  <2>1. /\ pc'[r] \in {"done", "dead"}
        /\ UNCHANGED <<cursor, task, succeeded, failed>>
    BY <1>14 DEF ReportCompleted, ReportIncomplete, Die
  <2>. QED
    BY <1>0, <2>1 DEF RunOutcome
<1>. QED
  BY <1>1, <1>2, <1>3, <1>4, <1>5, <1>6, <1>7, <1>8, <1>9, <1>10, <1>11, <1>12,
     <1>13, <1>14 DEF RunStep

(* A success of a step is its run's own.                                   *)
LEMMA OwnSuccess ==
  ASSUME TypeOK, NEW r \in Runs, Start(r) \/ RunStep(r) \/ Die(r)
  PROVE  \A q \in Runs \ {r} : \A t \in Steps : q \in succeeded'[t] => q \in succeeded[t]
<1>1. ASSUME NEW s \in Steps, AttemptReturns(r, s)
      PROVE  \A q \in Runs \ {r} : \A t \in Steps : q \in succeeded'[t] => q \in succeeded[t]
  BY <1>1 DEF AttemptReturns, TypeOK
<1>2. ASSUME ~\E s \in Steps : AttemptReturns(r, s) PROVE succeeded' = succeeded
  BY <1>2 DEF Start, Die, RunStep, Resume, Queue, Gather, NextBatch, AttemptRaises,
              Gathered, SaveCompleted, MarkGet, MarkSet, SaveSkipped, SaveHalting,
              ReportCompleted, ReportIncomplete
<1>. QED
  BY <1>1, <1>2

LEMMA OutcomesKept ==
  ASSUME TypeOK, CursorInv, LaunchInv, ProgressInv, OutcomeInv, [Next]_vars
  PROVE  OutcomeInv'
<1>1. ASSUME NEW r \in Runs, Start(r) \/ RunStep(r) \/ Die(r) PROVE OutcomeInv'
  <2>. SUFFICES ASSUME NEW q \in Runs, q # r PROVE RunOutcome(q)'
    BY <1>1, OutcomeKept DEF OutcomeInv
  <2>1. /\ pc'[q] = pc[q] /\ status'[q] = status[q] /\ failed'[q] = failed[q]
        /\ skipped'[q] = skipped[q] /\ cursor'[q] = cursor[q] /\ task'[q] = task[q]
    BY <1>1, OthersAlone DEF Others
  <2>2. \A t \in Steps : q \in succeeded'[t] => q \in succeeded[t]
    BY <1>1, OwnSuccess
  <2>. QED
    BY <2>1, <2>2 DEF OutcomeInv, RunOutcome, InProgress
<1>2. CASE ExpireMarks \/ (\E d \in Domains : ExpireResult(d)) \/ UNCHANGED vars
  BY <1>2, Expiry DEF OutcomeInv, RunOutcome, InProgress
<1>. QED
  BY <1>1, <1>2 DEF Next

-----------------------------------------------------------------------------
(* A run that moves on from a settled batch has all of it marked.          *)
LEMMA KeptStays ==
  ASSUME TypeOK, NEW r \in Runs, marks \subseteq marks', skipped[r] \subseteq skipped'[r],
         task' = task, NEW t \in Steps, Kept(r, t)
  PROVE  Kept(r, t)'
BY DEF Kept

LEMMA AdvanceKept ==
  ASSUME TypeOK, CursorInv, NEW r \in Runs, InBatch(r), RunKept(r),
         marks \subseteq marks', skipped[r] \subseteq skipped'[r],
         UNCHANGED <<task, loaded>>,
         \A t \in Batch(cursor[r]) : Kept(r, t)', Advance(r)
  PROVE  RunKept(r)'
<1>1. cursor[r] \in Steps /\ InProgress(r)
  BY DEF CursorInv, InBatch, InProgress
<1>2. PICK n \in 2..(NSteps + 1) :
        /\ Follows(n, r)
        /\ cursor' = [cursor EXCEPT ![r] = n]
        /\ pc' = [pc EXCEPT ![r] = IF n \in Steps THEN "visit" ELSE "report"]
  BY DEF Advance
<1>3. ASSUME NEW t \in Steps, t < n PROVE Kept(r, t)'
  <2>1. CASE t < cursor[r]
    BY <1>1, <2>1, KeptStays DEF RunKept
  <2>2. CASE t \in Batch(cursor[r])
    BY <2>2
  <2>. QED
    BY <1>1, <1>2, <1>3, <2>1, <2>2, SagaAssumption DEF Follows, Steps
<1>4. cursor'[r] = n /\ pc'[r] \in {"visit", "report"}
  BY <1>2 DEF TypeOK
<1>. QED
  BY <1>1, <1>3, <1>4 DEF RunKept, Processing

LEMMA HandledKept ==
  ASSUME TypeOK, CursorInv, NEW r \in Runs, NEW s \in Steps, Handled(r, s),
         pc[r] \in {"save", "mark_set"}, RunKept(r),
         marks \subseteq marks', skipped[r] \subseteq skipped'[r],
         UNCHANGED <<task, loaded>>, Kept(r, s)'
  PROVE  RunKept(r)'
<1>0. \A t \in Batch(cursor[r]) : t \in Steps
  BY DEF Batch
<1>1. \A t \in Batch(cursor[r]) \ (todo[r] \ {s}) : Kept(r, t)'
  BY <1>0, KeptStays DEF RunKept, Processing
<1>2. CASE todo[r] = {s} /\ Advance(r)
  BY <1>1, <1>2, AdvanceKept DEF InBatch
<1>3. CASE ~(todo[r] = {s} /\ Advance(r))
  <2>1. pc'[r] = "save" /\ cursor' = cursor /\ todo'[r] = todo[r] \ {s}
    BY <1>3 DEF Handled, TypeOK
  <2>2. loaded[r] \subseteq marks /\ \A t \in Steps : t < cursor[r] => Kept(r, t)'
    BY KeptStays DEF RunKept, InProgress
  <2>. QED
    BY <1>1, <2>1, <2>2 DEF RunKept, Processing
<1>. QED
  BY <1>2, <1>3

LEMMA KeptByRun ==
  ASSUME DistinctDomains, ResumeInv, OutcomeInv, MarksKept,
         NEW r \in Runs, Start(r) \/ RunStep(r) \/ Die(r)
  PROVE  RunKept(r)'
<1>. USE DEF TypeOK, InProgress, redis, lists, tasks, OrderInv, ResumeInv
<1>0. RunKept(r) /\ \A t \in Batch(cursor[r]) : t \in Steps
  BY DEF MarksKept, Batch
<1>1. CASE Start(r)
  <2>1. pc'[r] = "visit" /\ cursor'[r] = 1 /\ loaded'[r] = marks /\ marks' = marks
    BY <1>1 DEF Start, CursorInv
  <2>2. \A t \in Steps : ~(t < 1)
    BY SagaAssumption DEF Steps
  <2>. QED
    BY <2>1, <2>2 DEF RunKept, Processing
<1>2. ASSUME NEW s \in Steps, Resume(r, s) PROVE RunKept(r)'
  BY <1>0, <1>2 DEF Resume, RunKept, Kept, Processing
<1>3. ASSUME NEW s \in Steps, s >= cursor[r], pc[r] \in {"visit", "gather"},
             UNCHANGED <<marks, pc, loaded, cursor, skipped>>,
             \A t \in Steps \ {s} : task'[r][t] = task[r][t]
      PROVE  RunKept(r)'
  <2>1. ~(s < cursor[r])
    BY <1>3, SagaAssumption DEF Steps
  <2>2. \A t \in Steps : t < cursor[r] => Kept(r, t)'
    BY <1>0, <1>3, <2>1 DEF RunKept, Kept
  <2>. QED
    BY <1>0, <1>3, <2>2 DEF RunKept, Processing
<1>4. ASSUME NEW s \in Steps, Queue(r, s) PROVE RunKept(r)'
  <2>1. s >= cursor[r]
    BY <1>4 DEF Queue, IsNext, CursorInv, InBatch
  <2>. QED
    BY <1>3, <1>4, <2>1 DEF Queue
<1>5. CASE Gather(r)
  BY <1>0, <1>5 DEF Gather, RunKept, Kept, Processing
<1>6. CASE NextBatch(r)
  <2>1. ASSUME NEW t \in Batch(cursor[r]) PROVE Kept(r, t)'
    <3>1. task[r][t] = "none" /\ t \in loaded[r]
      BY <1>0, <1>6 DEF NextBatch, Launched, ProgressInv, RunProgress
    <3>. QED
      BY <1>0, <1>6, <3>1 DEF NextBatch, RunKept, Kept
  <2>. QED
    BY <1>0, <1>6, <2>1, AdvanceKept DEF NextBatch, InBatch
<1>7. ASSUME NEW s \in Steps, AttemptReturns(r, s) \/ AttemptRaises(r, s) PROVE RunKept(r)'
  <2>1. /\ pc[r] = "gather" /\ task[r][s] = "queued"
        /\ UNCHANGED <<marks, pc, loaded, cursor, skipped>>
        /\ \A t \in Steps \ {s} : task'[r][t] = task[r][t]
    <3>1. CASE AttemptReturns(r, s)
      BY <3>1 DEF AttemptReturns
    <3>2. CASE AttemptRaises(r, s)
      BY <3>2 DEF AttemptRaises
    <3>. QED
      BY <1>7, <3>1, <3>2
  <2>2. ~(s < cursor[r])
    BY <1>0, <2>1 DEF RunKept, Kept
  <2>3. s >= cursor[r]
    BY <2>2, SagaAssumption DEF Steps
  <2>. QED
    BY <2>1, <2>3, <1>3
<1>8. CASE Gathered(r)
  <2>1. /\ pc[r] = "gather" /\ pc'[r] = "save" /\ todo'[r] = Launched(r) /\ todo[r] = {}
        /\ UNCHANGED <<marks, loaded, cursor, skipped, task>>
    BY <1>8 DEF Gathered, CursorInv
  <2>2. ASSUME NEW t \in Batch(cursor[r]) \ Launched(r) PROVE Kept(r, t)
    <3>1. task[r][t] = "none" /\ t \in loaded[r]
      BY <1>0, <2>1 DEF Launched, ProgressInv, RunProgress
    <3>. QED
      BY <1>0, <2>1, <3>1 DEF RunKept, Kept
  <2>. QED
    BY <1>0, <2>1, <2>2 DEF RunKept, Processing, Kept
<1>9. ASSUME NEW s \in Steps, SaveCompleted(r, s) PROVE RunKept(r)'
  BY <1>0, <1>9 DEF SaveCompleted, Persist, RunKept, Kept, Processing
<1>10. ASSUME NEW s \in Steps, MarkGet(r, s) PROVE RunKept(r)'
  BY <1>0, <1>10 DEF MarkGet, RunKept, Kept, Processing
<1>11. ASSUME NEW s \in Steps, MarkSet(r, s) PROVE RunKept(r)'
  <2>1. /\ marks' = marks \cup {s} /\ pc[r] = "mark_set"
        /\ UNCHANGED <<task, loaded, skipped>> /\ Handled(r, s)
    BY <1>0, <1>11 DEF MarkSet, RunKept
  <2>2. task[r][s] = "completed"
    BY <1>11 DEF MarkSet, ProgressInv, RunProgress, Marking
  <2>3. Kept(r, s)'
    BY <2>1, <2>2 DEF Kept
  <2>. QED
    BY <1>0, <2>1, <2>3, HandledKept
<1>12. ASSUME NEW s \in Steps, SaveSkipped(r, s) PROVE RunKept(r)'
  <2>1. /\ skipped'[r] = skipped[r] \cup {s} /\ task[r][s] = "failed" /\ pc[r] = "save"
        /\ UNCHANGED <<task, loaded, marks>> /\ Handled(r, s)
    BY <1>12 DEF SaveSkipped, Persist
  <2>2. Kept(r, s)'
    BY <2>1 DEF Kept
  <2>. QED
    BY <1>0, <2>1, <2>2, HandledKept
<1>13. ASSUME NEW s \in Steps, SaveHalting(r, s) PROVE RunKept(r)'
  <2>1. /\ pc[r] = "save" /\ pc'[r] = "report"
        /\ UNCHANGED <<marks, loaded, cursor, skipped, task>>
    BY <1>13 DEF SaveHalting, Persist
  <2>. QED
    BY <1>0, <2>1 DEF RunKept, Processing, Kept
<1>14. ASSUME ReportCompleted(r) \/ ReportIncomplete(r) \/ Die(r) PROVE RunKept(r)'
  <2>1. pc'[r] \in {"done", "dead"}
    BY <1>14 DEF ReportCompleted, ReportIncomplete, Die
  <2>. QED
    BY <2>1 DEF RunKept, Processing
<1>. QED
  BY <1>1, <1>2, <1>4, <1>5, <1>6, <1>7, <1>8, <1>9, <1>10, <1>11, <1>12,
     <1>13, <1>14 DEF RunStep

LEMMA MarksAreKept ==
  ASSUME OneAtATime, DistinctDomains, ~OutlivesTTL, ResumeInv, OutcomeInv, MarksKept,
         [Next]_vars
  PROVE  MarksKept'
<1>1. ASSUME NEW r \in Runs, Start(r) \/ RunStep(r) \/ Die(r) PROVE MarksKept'
  <2>. SUFFICES ASSUME NEW q \in Runs \ {r} PROVE RunKept(q)'
    BY <1>1, KeptByRun DEF MarksKept
  <2>1. pc'[q] \in {"idle", "done", "dead"}
    BY <1>1, OthersQuiet DEF ResumeInv, OrderInv, TypeOK, InProgress
  <2>. QED
    BY <2>1 DEF RunKept, InProgress, Processing
<1>2. CASE UNCHANGED vars
  BY <1>2 DEF vars, MarksKept, RunKept, Kept, InProgress, Processing
<1>. QED
  BY <1>1, <1>2 DEF Next, ExpireMarks, ExpireResult

-----------------------------------------------------------------------------
(* The outcome of a run: for overlapping runs too, a saga that halted on a *)
(* step has run nothing behind that step's batch.                          *)
THEOREM HaltIsFinal == Spec => []HaltStopsTheSaga
<1>1. Init => LaunchInv /\ OutcomeInv
  <2>. SUFFICES ASSUME Init PROVE LaunchInv /\ OutcomeInv
    OBVIOUS
  <2>. QED
    BY DEF Init, LaunchInv, RunLaunch, OutcomeInv, RunOutcome, InProgress
<1>2. OrderInv /\ LaunchInv /\ OutcomeInv /\ [Next]_vars => LaunchInv' /\ OutcomeInv'
  BY LaunchKept, OutcomesKept DEF OrderInv
<1>3. OrderInv /\ OutcomeInv => HaltStopsTheSaga
  <2>. SUFFICES ASSUME OrderInv, OutcomeInv, NEW r \in Runs, NEW s \in failed[r],
                       NEW t \in Steps, t > s, t \notin Batch(s), r \in succeeded[t]
                PROVE  FALSE
    BY DEF HaltStopsTheSaga
  <2>1. /\ cursor[r] \in Steps /\ s \in Batch(cursor[r]) /\ s >= cursor[r]
        /\ t < cursor[r] \/ t \in Batch(cursor[r])
    BY DEF OutcomeInv, RunOutcome
  <2>2. s \in Steps
    BY <2>1 DEF Batch
  <2>3. t \in Batch(cursor[r])
    BY <2>1, <2>2, SagaAssumption DEF Steps
  <2>. QED
    BY <2>1, <2>3, SameBatch
<1>. QED
  BY <1>1, <1>2, <1>3, OrderCorrect, PTL DEF Spec

(* RefinementInv is inductive: with keys that outlive the saga, all that a *)
(* run has behind it is marked.                                            *)
THEOREM RefinementCorrect ==
  ASSUME OneAtATime, DistinctDomains, ~OutlivesTTL
  PROVE  Spec => []RefinementInv
<1>1. Init => MarksKept /\ OutcomeInv
  <2>. SUFFICES ASSUME Init PROVE MarksKept /\ OutcomeInv
    OBVIOUS
  <2>. QED
    BY DEF Init, MarksKept, RunKept, OutcomeInv, RunOutcome, InProgress, Processing
<1>2. ResumeInv /\ MarksKept /\ OutcomeInv /\ [Next]_vars => MarksKept' /\ OutcomeInv'
  BY MarksAreKept, OutcomesKept DEF ResumeInv, OrderInv
<1>. QED
  BY <1>1, <1>2, ResumeCorrect, PTL DEF Spec, RefinementInv

(* A crash costs at most the batch in progress.                            *)
THEOREM CrashCostsOneBatch ==
  ASSUME OneAtATime, DistinctDomains, ~OutlivesTTL
  PROVE  Spec => []OneBatchAtRisk
<1>1. RefinementInv => OneBatchAtRisk
  <2>. SUFFICES ASSUME RefinementInv, NEW r \in Runs, InProgress(r), NEW s \in Steps,
                       r \in succeeded[s], s \notin Batch(cursor[r])
                PROVE  s \in marks
    BY DEF OneBatchAtRisk
  <2>1. task[r][s] = "completed"
    BY DEF RefinementInv, OutcomeInv, RunOutcome
  <2>2. s < cursor[r]
    BY <2>1 DEF RefinementInv, ResumeInv, LaunchInv, RunLaunch
  <2>. QED
    BY <2>1, <2>2 DEF RefinementInv, MarksKept, RunKept, Kept
<1>. QED
  BY <1>1, RefinementCorrect, PTL

-----------------------------------------------------------------------------
(* A step of an earlier batch than one in progress lies behind the cursor. *)
LEMMA EarlierIsSettled ==
  ASSUME RefinementInv, NEW r \in Runs, pc[r] \in {"save", "mark_set"},
         NEW s \in Steps, IsNext(s, todo[r]), NEW t \in Steps, EarlierBatch(t, s)
  PROVE  t \in marks \/ t \in skipped[r]
<1>1. s \in Batch(cursor[r]) /\ cursor[r] \in 1..(NSteps + 1)
  BY DEF RefinementInv, ResumeInv, OrderInv, CursorInv, InBatch, IsNext, TypeOK
<1>2. t < cursor[r]
  BY <1>1, BehindTheBatch DEF EarlierBatch
<1>. QED
  BY <1>2 DEF RefinementInv, MarksKept, RunKept, Kept, InProgress

(* A run in progress that has not halted has not reported either.          *)
LEMMA StillOpen ==
  ASSUME RefinementInv, NEW r \in Runs, InProgress(r), status[r] # "halted"
  PROVE  status[r] = "none" /\ failed[r] = {}
BY DEF RefinementInv, OutcomeInv, RunOutcome

LEMMA AllSettled ==
  ASSUME RefinementInv, NEW r \in Runs, pc[r] = "report", status[r] # "halted"
  PROVE  \A t \in Steps : t \in marks \/ t \in skipped[r]
<1>1. cursor[r] = NSteps + 1
  BY DEF RefinementInv, ResumeInv, OrderInv, CursorInv
<1>2. \A t \in Steps : t < cursor[r]
  BY <1>1, SagaAssumption DEF Steps
<1>. QED
  BY <1>2 DEF RefinementInv, MarksKept, RunKept, Kept, InProgress

(* Every step of a run is a step of the abstract workflow or leaves it.    *)
LEMMA StepImplements ==
  ASSUME RefinementInv, NEW r \in Runs, RunStep(r)
  PROVE  Workflow!WNext \/ UNCHANGED <<marks, skipped, status>>
<1>. USE DEF redis, lists, tasks
<1>0. TypeOK
  BY DEF RefinementInv, ResumeInv, OrderInv
<1>1. ASSUME NEW s \in Steps, MarkSet(r, s)
      PROVE  Workflow!WNext \/ UNCHANGED <<marks, skipped, status>>
  <2>1. /\ pc[r] = "mark_set" /\ IsNext(s, todo[r])
        /\ marks' = marks \cup {s} /\ UNCHANGED <<skipped, status>>
    BY <1>1 DEF MarkSet, RefinementInv, MarksKept, RunKept
  <2>2. status[r] = "none"
    BY <2>1 DEF RefinementInv, OutcomeInv, RunOutcome, InProgress
  <2>3. \A t \in Steps : EarlierBatch(t, s) => t \in marks \/ t \in skipped[r]
    BY <2>1, EarlierIsSettled
  <2>4. CASE s \in marks
    BY <2>1, <2>4
  <2>5. CASE s \notin marks
    <3>1. Workflow!Commit(r, s)
      BY <2>1, <2>2, <2>3, <2>5 DEF Workflow!Commit, Workflow!Due, Workflow!Settled
    <3>. QED
      BY <3>1 DEF Workflow!WNext
  <2>. QED
    BY <2>4, <2>5
<1>2. ASSUME NEW s \in Steps, SaveSkipped(r, s) PROVE Workflow!WNext
  <2>1. /\ pc[r] = "save" /\ IsNext(s, todo[r]) /\ task[r][s] = "failed"
        /\ skipped' = [skipped EXCEPT ![r] = @ \cup {s}] /\ UNCHANGED <<marks, status>>
    BY <1>2 DEF SaveSkipped, Persist
  <2>2. status[r] = "none"
    BY <2>1 DEF RefinementInv, OutcomeInv, RunOutcome, InProgress
  <2>3. \A t \in Steps : EarlierBatch(t, s) => t \in marks \/ t \in skipped[r]
    BY <2>1, EarlierIsSettled
  <2>4. s \notin marks
    BY <2>1 DEF RefinementInv, ResumeInv, MarkInv, RunMarks, Knows, InProgress
  <2>5. Workflow!Waive(r, s)
    BY <2>1, <2>2, <2>3, <2>4 DEF Workflow!Waive, Workflow!Due, Workflow!Settled
  <2>. QED
    BY <2>5 DEF Workflow!WNext
<1>3. ASSUME NEW s \in Steps, SaveHalting(r, s) PROVE Workflow!WNext
  <2>1. status[r] = "none"
    BY <1>3 DEF SaveHalting, Persist, RefinementInv, OutcomeInv, RunOutcome, InProgress
  <2>2. Workflow!Halt(r)
    BY <1>3, <2>1 DEF SaveHalting, Workflow!Halt
  <2>. QED
    BY <2>2 DEF Workflow!WNext
<1>4. CASE ReportCompleted(r)
  <2>1. pc[r] = "report" /\ status[r] # "halted" /\ skipped[r] = {}
    BY <1>4 DEF ReportCompleted
  <2>2. status[r] = "none"
    BY <2>1, StillOpen DEF InProgress
  <2>3. marks = Steps
    BY <1>0, <2>1, AllSettled DEF TypeOK
  <2>4. Workflow!Complete(r)
    BY <1>4, <2>1, <2>2, <2>3 DEF ReportCompleted, Workflow!Complete
  <2>. QED
    BY <2>4 DEF Workflow!WNext
<1>5. CASE ReportIncomplete(r)
  <2>1. CASE status[r] = "halted"
    BY <1>0, <1>5, <2>1 DEF ReportIncomplete, TypeOK
  <2>2. CASE status[r] # "halted"
    <3>1. pc[r] = "report" /\ failed[r] \cup skipped[r] # {}
      BY <1>5, <2>2 DEF ReportIncomplete
    <3>2. status[r] = "none" /\ failed[r] = {}
      BY <2>2, <3>1, StillOpen DEF InProgress
    <3>3. \A t \in Steps : t \in marks \/ t \in skipped[r]
      BY <2>2, <3>1, AllSettled
    <3>4. Workflow!CompleteInPart(r)
      BY <1>5, <2>2, <3>1, <3>2, <3>3
      DEF ReportIncomplete, Workflow!CompleteInPart, Workflow!Settled
    <3>. QED
      BY <3>4 DEF Workflow!WNext
  <2>. QED
    BY <2>1, <2>2
<1>6. ASSUME ~ReportCompleted(r), ~ReportIncomplete(r),
             ~\E s \in Steps : MarkSet(r, s) \/ SaveSkipped(r, s) \/ SaveHalting(r, s)
      PROVE  UNCHANGED <<marks, skipped, status>>
  BY <1>6 DEF RunStep, Resume, Queue, Gather, NextBatch, AttemptReturns, AttemptRaises,
              Gathered, SaveCompleted, MarkGet
<1>. QED
  BY <1>1, <1>2, <1>3, <1>4, <1>5, <1>6

(* run_saga implements the resumable workflow.                             *)
THEOREM SagaImplementsWorkflow ==
  ASSUME OneAtATime, DistinctDomains, ~OutlivesTTL
  PROVE  Spec => ImplementsWorkflow
<1>1. Init => Workflow!WInit
  BY DEF Init, Workflow!WInit
<1>2. RefinementInv /\ [Next]_vars => [Workflow!WNext]_Workflow!wvars
  <2>. SUFFICES ASSUME RefinementInv, [Next]_vars
                PROVE  Workflow!WNext \/ UNCHANGED <<marks, skipped, status>>
    BY DEF Workflow!wvars
  <2>1. ASSUME NEW r \in Runs, Start(r) \/ Die(r) PROVE UNCHANGED <<marks, skipped, status>>
    BY <2>1 DEF Start, Die, redis, lists
  <2>2. CASE UNCHANGED vars
    BY <2>2 DEF vars
  <2>. QED
    BY <2>1, <2>2, StepImplements DEF Next, ExpireMarks, ExpireResult
<1>. QED
  BY <1>1, <1>2, RefinementCorrect, PTL
  DEF Spec, ImplementsWorkflow, Workflow!WSpec
===============================================================================
