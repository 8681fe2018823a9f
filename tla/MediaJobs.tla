------------------------------- MODULE MediaJobs -------------------------------
(***************************************************************************)
(* platform-api: what is stored twice and worked on later.  A transcript   *)
(* (stt/stt.service.ts), a synthesised speech (tts/tts.service.ts), an     *)
(* uploaded file (knowledge-base) and a recorded call have a row in        *)
(* PostgreSQL and an object in MinIO, written and deleted one after the    *)
(* other.  A transcript, the run of a test (tests/tests.service.ts) and    *)
(* what is made of a call (analysis/analysis.service.ts) are Bull jobs:    *)
(* stt/stt.processor.ts, tests/test-execution.processor.ts and             *)
(* analysis/post-call.processor.ts work them off and report in the row.    *)
(* scheduler/retention-purge.job.ts deletes old calls.  Any handler may    *)
(* stop between two steps, any query fail, any worker die.                 *)
(***************************************************************************)
EXTENDS Integers, FiniteSets

CONSTANTS
  Items,      \* what is stored
  Jobs,       \* bound on the jobs
  Workers,    \* processes that run a processor
  Deleters,   \* delete requests and runs of the purge
  MaxEdits    \* bound on the edits of what calls are analysed by

ASSUME MediaAssumption == MaxEdits \in Nat

None == <<>>

Transcripts == {"upload", "link"}    \* source_type; youtube is a link

(* A recorded call, of which one result column is looked at: the one of    *)
(* the evaluation criteria or the one of the data points.  Each has its    *)
(* own job, which reads and writes nothing of the other's. *)
Calls == {"evaluation", "extraction"}

Kinds == Transcripts \cup {"speech", "file", "run"} \cup Calls
HasObject(k) == k \in {"upload", "speech", "file"} \cup Calls
HasStatus(k) == k \in Transcripts \cup {"run"}

(* The options of queue.add. *)
Attempts(k) == IF k \in Calls THEN 3 ELSE 2

(* Bull puts a job whose worker lost its lock back once, then fails it. *)
MaxStalls == 1

(* done is completed, passed or failed (of a test); failed is failed (of a *)
(* transcription) or error; stored is a row that has no status. *)
Unsettled == {"pending", "processing"}
RowStates == {"none", "stored", "done", "failed"} \cup Unsettled

Job ==
  [item : Items, st : {"waiting", "active", "ended"}, made : 0..3,
   stalls : 0..(MaxStalls + 1), owner : Workers \cup {None},
   blind : BOOLEAN,     \* its last attempt ended without a word in the row
   zombie : BOOLEAN]    \* it lost its lock while its worker was running

Worker ==
  [at : {"idle", "begin", "work", "store", "fail"}, job : Jobs \cup {None},
   criteria : 0..MaxEdits, seen : 0..MaxEdits]

VARIABLES
  kind,       \* what each item is
  object,     \* its object is in MinIO
  row,        \* its row, by status
  evaluated,  \* of a call: the criteria, or data points, its results are from
  criteria,   \* the agent's criteria, and data points, by number of edits
  request,    \* next step of the request that creates the item
  job,        \* Bull
  worker,     \* what each worker is doing
  deleter,    \* what each delete is doing
  kept        \* history: the object was not deleted

store == <<object, row, kept>>
evaluation == <<evaluated, criteria>>
vars == <<kind, store, evaluation, request, job, worker, deleter>>

Idle == [at |-> "idle", job |-> None, criteria |-> 0, seen |-> 0]

TypeOK ==
  /\ kind \in [Items -> Kinds]
  /\ object \in [Items -> BOOLEAN]
  /\ row \in [Items -> RowStates]
  /\ evaluated \in [Items -> 0..MaxEdits]
  /\ criteria \in [Calls -> 0..MaxEdits]
  /\ request \in [Items -> {"put", "insert", "enqueue", "answered"}]
  /\ job \in [Jobs -> Job \cup {None}]
  /\ worker \in [Workers -> Worker]
  /\ deleter \in [Deleters -> [at : {"object", "row"}, item : Items] \cup {None}]
  /\ kept \in [Items -> BOOLEAN]

(* A call is there, with its recording; the rest is about to be created. *)
Init ==
  /\ kind \in [Items -> Kinds]
  /\ object = [i \in Items |-> kind[i] \in Calls]
  /\ row = [i \in Items |-> IF kind[i] \in Calls THEN "stored" ELSE "none"]
  /\ evaluated = [i \in Items |-> 0]
  /\ criteria = [k \in Calls |-> 0]
  /\ request = [i \in Items |->
       IF kind[i] \in Calls THEN "enqueue"
       ELSE IF HasObject(kind[i]) THEN "put" ELSE "insert"]
  /\ job = [j \in Jobs |-> None]
  /\ worker = [w \in Workers |-> Idle]
  /\ deleter = [d \in Deleters |-> None]
  /\ kept = [i \in Items |-> FALSE]

-----------------------------------------------------------------------------
(* The steps of a request that creates an item.  One that fails or dies    *)
(* takes no further step: nothing undoes those it took. *)
PutObject(i) ==
  /\ request[i] = "put"
  /\ object' = [object EXCEPT ![i] = TRUE]
  /\ request' = [request EXCEPT ![i] = "insert"]
  /\ UNCHANGED <<kind, row, kept, evaluation, job, worker, deleter>>

InsertRow(i, state, next) ==
  /\ request[i] = "insert"
  /\ row' = [row EXCEPT ![i] = state]
  /\ request' = [request EXCEPT ![i] = next]
  /\ UNCHANGED <<kind, object, kept, evaluation, job, worker, deleter>>

Added(i) ==
  [item |-> i, st |-> "waiting", made |-> 0, stalls |-> 0, owner |-> None,
   blind |-> FALSE, zombie |-> FALSE]

AddJob(i, next) ==
  /\ request[i] = "enqueue"
  /\ \E j \in Jobs : job[j] = None /\ job' = [job EXCEPT ![j] = Added(i)]
  /\ request' = [request EXCEPT ![i] = next]
  /\ UNCHANGED <<kind, store, evaluation, worker, deleter>>

(* Mutant of CreateTranscription: the row is there before the upload. *)
CreateRowFirst(i) ==
  /\ kind[i] \in Transcripts
  /\ \/ /\ request[i] = "put" /\ row[i] = "none"
        /\ row' = [row EXCEPT ![i] = "pending"]
        /\ UNCHANGED <<kind, object, kept, evaluation, request, job, worker, deleter>>
     \/ row[i] # "none" /\ PutObject(i)
     \/ InsertRow(i, "pending", "enqueue")
     \/ AddJob(i, "answered")

CreateTranscription(i) ==
  /\ kind[i] \in Transcripts
  /\ PutObject(i) \/ InsertRow(i, "pending", "enqueue") \/ AddJob(i, "answered")

RunTest(i) ==
  /\ kind[i] = "run"
  /\ InsertRow(i, "pending", "enqueue") \/ AddJob(i, "answered")

(* The speech is synthesised before its object is put. *)
Generate(i) ==
  /\ kind[i] = "speech"
  /\ PutObject(i) \/ InsertRow(i, "stored", "answered")

UploadFile(i) ==
  /\ kind[i] = "file"
  /\ PutObject(i) \/ InsertRow(i, "stored", "answered")

(* A call may be analysed any number of times, at once if one likes. *)
BatchReEvaluate(i) ==
  /\ kind[i] \in Calls
  /\ row[i] # "none"
  /\ AddJob(i, "enqueue")

(* The criteria of the agent, or its data points, are created, changed or  *)
(* deleted. *)
Edit(k) ==
  /\ \E i \in Items : kind[i] = k
  /\ criteria[k] < MaxEdits
  /\ criteria' = [criteria EXCEPT ![k] = @ + 1]
  /\ UNCHANGED <<kind, store, evaluated, request, job, worker, deleter>>

CreateCriterion == Edit("evaluation")
UpdateCriterion == Edit("evaluation")
DeleteCriterion == Edit("evaluation")
CreateDataSpec == Edit("extraction")
UpdateDataSpec == Edit("extraction")
DeleteDataSpec == Edit("extraction")

AnalysisStep ==
  \/ \E i \in Items : BatchReEvaluate(i)
  \/ CreateCriterion \/ UpdateCriterion \/ DeleteCriterion
  \/ CreateDataSpec \/ UpdateDataSpec \/ DeleteDataSpec

-----------------------------------------------------------------------------
(* Bull gives a waiting job to an idle worker. *)
Take(w, j) ==
  /\ worker[w].at = "idle"
  /\ job[j] # None /\ job[j].st = "waiting"
  /\ job' = [job EXCEPT ![j].st = "active", ![j].owner = w]
  /\ worker' = [worker EXCEPT
       ![w].job = j,
       ![w].at = IF HasStatus(kind[job[j].item]) THEN "begin" ELSE "work"]
  /\ UNCHANGED <<kind, store, evaluation, request, deleter>>

ItemOf(w) == job[worker[w].job].item
WorksOnCall(w, at) == worker[w].at = at /\ kind[ItemOf(w)] \in Calls

Report(i, state) ==
  row' = [row EXCEPT ![i] = IF @ = "none" THEN @ ELSE state]

Rests(w) == worker' = [worker EXCEPT ![w] = Idle]
GoesTo(w, at) == worker' = [worker EXCEPT ![w].at = at]

(* The handler returns or throws: Bull listens only to the worker that     *)
(* holds the job's lock. *)
Owns(w) == job[worker[w].job].st = "active" /\ job[worker[w].job].owner = w

Returns(w) ==
  /\ job' = IF Owns(w) THEN [job EXCEPT ![worker[w].job].st = "ended",
                                        ![worker[w].job].owner = None]
                       ELSE job
  /\ Rests(w)

Throws(w, written) ==
  /\ LET j == worker[w].job
         last == job[j].made + 1 = Attempts(kind[job[j].item]) IN
       job' = IF Owns(w)
                THEN [job EXCEPT ![j].st = IF last THEN "ended" ELSE "waiting",
                                 ![j].made = @ + 1,
                                 ![j].owner = None,
                                 ![j].blind = ~written]
                ELSE job
  /\ Rests(w)

(* The UPDATE before the try block: the row says that work has begun. *)
Begin(w) ==
  /\ worker[w].at = "begin"
  /\ \/ Report(ItemOf(w), "processing") /\ GoesTo(w, "work") /\ UNCHANGED job
     \/ Throws(w, FALSE) /\ UNCHANGED row
  /\ UNCHANGED <<kind, object, kept, evaluation, request, deleter>>

(* What the job needs is read and the provider is called: both must be     *)
(* there, and the call may fail or time out. *)
Ready(i) == row[i] # "none" /\ (kind[i] = "upload" => object[i])

(* Mutant of Work: it waits for the row and the upload. *)
WorkWhenReady(w) ==
  /\ worker[w].at = "work"
  /\ Ready(ItemOf(w)) /\ GoesTo(w, "store")
  /\ UNCHANGED <<kind, store, evaluation, request, job, deleter>>

Work(w) ==
  /\ worker[w].at = "work"
  /\ \/ Ready(ItemOf(w)) /\ GoesTo(w, "store")
     \/ GoesTo(w, "fail")
  /\ UNCHANGED <<kind, store, evaluation, request, job, deleter>>

Store(w) ==
  /\ worker[w].at = "store"
  /\ \/ Report(ItemOf(w), "done") /\ Returns(w)
     \/ GoesTo(w, "fail") /\ UNCHANGED <<row, job>>
  /\ UNCHANGED <<kind, object, kept, evaluation, request, deleter>>

(* Mutant of Catch: the error is only thrown on. *)
CatchSilently(w) ==
  /\ worker[w].at = "fail"
  /\ Throws(w, TRUE) /\ UNCHANGED row
  /\ UNCHANGED <<kind, object, kept, evaluation, request, deleter>>

Catch(w) ==
  /\ worker[w].at = "fail"
  /\ \/ Report(ItemOf(w), "failed") /\ Throws(w, TRUE)
     \/ Throws(w, FALSE) /\ UNCHANGED row
  /\ UNCHANGED <<kind, object, kept, evaluation, request, deleter>>

Attempt(w) == Begin(w) \/ Work(w) \/ Store(w) \/ Catch(w)

SttTranscribe(w) ==
  worker[w].at # "idle" /\ kind[ItemOf(w)] \in Transcripts /\ Attempt(w)
TestExecution(w) ==
  worker[w].at # "idle" /\ kind[ItemOf(w)] = "run" /\ Attempt(w)

-----------------------------------------------------------------------------
(* The criteria, or the data points, and the transcript are read, and the  *)
(* LLM asked. *)
ReadCriteria(w) ==
  /\ worker' = [worker EXCEPT
       ![w].at = "store",
       ![w].criteria = criteria[kind[ItemOf(w)]],
       ![w].seen = evaluated[ItemOf(w)]]
  /\ UNCHANGED job

(* The job of a call that is gone, or without criteria, does nothing; any  *)
(* other error is Bull's to retry. *)
PostCallRead(w) ==
  /\ WorksOnCall(w, "work")
  /\ \/ row[ItemOf(w)] # "none" /\ ReadCriteria(w)
     \/ Returns(w)
     \/ Throws(w, FALSE)
  /\ UNCHANGED <<kind, store, evaluation, request, deleter>>

(* Mutant of PostCallStore: an evaluation that fails stores no results. *)
PostCallStoreAnyway(w) ==
  /\ WorksOnCall(w, "store")
  /\ \/ /\ evaluated' = [evaluated EXCEPT ![ItemOf(w)] = worker[w].criteria]
        /\ Returns(w)
     \/ evaluated' = [evaluated EXCEPT ![ItemOf(w)] = 0] /\ Throws(w, FALSE)
  /\ UNCHANGED <<kind, store, criteria, request, deleter>>

PostCallStore(w) ==
  /\ WorksOnCall(w, "store")
  /\ \/ /\ evaluated' = [evaluated EXCEPT ![ItemOf(w)] = worker[w].criteria]
        /\ Returns(w)
     \/ Throws(w, FALSE) /\ UNCHANGED evaluated
  /\ UNCHANGED <<kind, store, criteria, request, deleter>>

PostCall(w) == PostCallRead(w) \/ PostCallStore(w)

PostCallCriteria(w) ==
  worker[w].at # "idle" /\ kind[ItemOf(w)] = "evaluation" /\ PostCall(w)
PostCallDataExtract(w) ==
  worker[w].at # "idle" /\ kind[ItemOf(w)] = "extraction" /\ PostCall(w)

-----------------------------------------------------------------------------
(* A worker dies, perhaps with its last write made and Bull not told of    *)
(* it, ... *)
WritesLast(w) ==
  \/ /\ HasStatus(kind[ItemOf(w)])
     /\ \/ worker[w].at = "store" /\ Report(ItemOf(w), "done")
        \/ worker[w].at = "fail" /\ Report(ItemOf(w), "failed")
     /\ UNCHANGED evaluated
  \/ /\ WorksOnCall(w, "store")
     /\ evaluated' = [evaluated EXCEPT ![ItemOf(w)] = worker[w].criteria]
     /\ UNCHANGED row

Die(w) ==
  /\ worker[w].at # "idle"
  /\ UNCHANGED <<row, evaluated>> \/ WritesLast(w)
  /\ Rests(w)
  /\ UNCHANGED <<kind, object, kept, criteria, request, job, deleter>>

(* ... or is busy for so long that its lock expires: the job is given to   *)
(* the next worker, while a worker that is alive goes on with it. *)
Stall(j) ==
  /\ job[j] # None /\ job[j].st = "active"
  /\ job' = [job EXCEPT
       ![j].stalls = @ + 1,
       ![j].st = IF job[j].stalls = MaxStalls THEN "ended" ELSE "waiting",
       ![j].blind = job[j].stalls = MaxStalls,
       ![j].zombie = @ \/ worker[job[j].owner].job = j,
       ![j].owner = None]
  /\ UNCHANGED <<kind, store, evaluation, request, worker, deleter>>

-----------------------------------------------------------------------------
(* A delete reads the row, deletes the object, and then the row, whatever  *)
(* became of the object; it may stop in between.  The object stays if      *)
(* MinIO fails, or if it is asked for another key: the purge takes the     *)
(* whole path of a URL for the key, and MinIO deletes what is not there    *)
(* without an error. *)
StartDelete(d, i) ==
  /\ deleter[d] = None
  /\ row[i] # "none"
  /\ deleter' = [deleter EXCEPT ![d] =
       [at |-> IF HasObject(kind[i]) THEN "object" ELSE "row", item |-> i]]
  /\ UNCHANGED <<kind, store, evaluation, request, job, worker>>

DeleteObject(d) ==
  /\ deleter[d].at = "object"
  /\ LET i == deleter[d].item IN
       \/ object' = [object EXCEPT ![i] = FALSE] /\ UNCHANGED kept
       \/ kept' = [kept EXCEPT ![i] = TRUE] /\ UNCHANGED object
  /\ deleter' = [deleter EXCEPT ![d].at = "row"]
  /\ UNCHANGED <<kind, row, evaluation, request, job, worker>>

DeleteRow(d) ==
  /\ deleter[d].at = "row"
  /\ row' = [row EXCEPT ![deleter[d].item] = "none"]
  /\ deleter' = [deleter EXCEPT ![d] = None]
  /\ UNCHANGED <<kind, object, kept, evaluation, request, job, worker>>

Delete(d, i) ==
  \/ StartDelete(d, i)
  \/ /\ deleter[d] # None /\ deleter[d].item = i
     /\ DeleteObject(d) \/ DeleteRow(d)

DeleteTranscript(d, i) == kind[i] \in Transcripts /\ Delete(d, i)
DeleteGeneration(d, i) == kind[i] = "speech" /\ Delete(d, i)
PurgeExpiredConversations(d, i) == kind[i] \in Calls /\ Delete(d, i)

(* Deleting a test deletes its runs, by the foreign key. *)
DeleteTest(d, i) == kind[i] = "run" /\ Delete(d, i)

StopDelete(d) ==
  /\ deleter[d] # None
  /\ deleter' = [deleter EXCEPT ![d] = None]
  /\ UNCHANGED <<kind, store, evaluation, request, job, worker>>

-----------------------------------------------------------------------------
Processor(w) ==
  \/ SttTranscribe(w) \/ TestExecution(w)
  \/ PostCallCriteria(w) \/ PostCallDataExtract(w)

Next ==
  \/ \E i \in Items :
       CreateTranscription(i) \/ RunTest(i) \/ Generate(i) \/ UploadFile(i)
  \/ AnalysisStep
  \/ \E w \in Workers :
       Processor(w) \/ Die(w) \/ \E j \in Jobs : Take(w, j)
  \/ \E j \in Jobs : Stall(j)
  \/ \E d \in Deleters :
       \/ StopDelete(d)
       \/ \E i \in Items :
            \/ DeleteTranscript(d, i) \/ DeleteGeneration(d, i)
            \/ PurgeExpiredConversations(d, i) \/ DeleteTest(d, i)

Spec == Init /\ [][Next]_vars

(* Workers are restarted when they die and take what waits; the lock of    *)
(* one that died expires.  A request or a delete owes nothing. *)
StallOfDead(j) ==
  /\ \A w \in Workers : worker[w].job # j
  /\ Stall(j)

FairSpec ==
  /\ Spec
  /\ \A w \in Workers : WF_vars(Processor(w))
  /\ \A j \in Jobs :
       WF_vars(\E w \in Workers : Take(w, j)) /\ WF_vars(StallOfDead(j))

-----------------------------------------------------------------------------
(* A row is never there before its object, which only a delete can take    *)
(* from it, and an object outlives its row only when MinIO did not delete  *)
(* it when it was asked to, or when the request stopped after putting it:  *)
(* whatever deletes, purges and jobs overlap. *)
RowsAndObjectsAgree ==
  \A i \in Items : HasObject(kind[i]) =>
    /\ row[i] # "none" => request[i] # "put"
    /\ object[i] /\ row[i] = "none" => request[i] = "insert" \/ kept[i]

(* A row stays pending or processing only while a job is on it, except     *)
(* when the request stopped before it had added one, when the job's last   *)
(* attempt could not write, was given up by Bull, or ran beside a worker   *)
(* that had lost it. *)
UnsettledIsWorkedOn ==
  \A i \in Items : row[i] \in Unsettled =>
    \/ request[i] = "enqueue"
    \/ \E j \in Jobs : /\ job[j] # None /\ job[j].item = i
                       /\ (job[j].st # "ended" \/ job[j].blind \/ job[j].zombie)

(* The results of a call are replaced by results from older criteria only  *)
(* by a job that another one overtook. *)
EvaluationsGoForward ==
  [][\A i \in Items : evaluated'[i] < evaluated[i] =>
       \E w \in Workers : /\ WorksOnCall(w, "store") /\ ItemOf(w) = i
                          /\ worker[w].seen # evaluated[i]]_vars

(* Every job ends. *)
JobsEnd ==
  \A j \in Jobs : (job[j] # None) ~> (job[j] # None /\ job[j].st = "ended")
=============================================================================
