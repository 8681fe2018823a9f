-------------------------------- MODULE MCSaga --------------------------------
(* Small instances of SagaOrchestrator: a skippable sequential step, then  *)
(* a parallel batch whose first step rolls back, then a step that halts.   *)
EXTENDS SagaInvariant

OwnDomain == [s \in Steps |-> s]

SkipRollbackHalt ==
  [s \in Steps |-> IF s = 1 THEN "skip" ELSE IF s = 2 THEN "rollback" ELSE "halt"]

\* _execute_step tries twice (the default of master_worker.py)
TwoAttempts == [s \in Steps |-> 2]
OneAttempt == [s \in Steps |-> 1]
=============================================================================
