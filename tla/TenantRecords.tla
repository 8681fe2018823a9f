----------------------------- MODULE TenantRecords -----------------------------
(***************************************************************************)
(* platform-api: records kept with their parts in a second table, written  *)
(* by separate statements.  An environment variable (env-vars/             *)
(* env-vars.service.ts) has a value per environment; a test (tests/        *)
(* tests.service.ts) is attached to agents and filed in a folder; a batch  *)
(* call (batch-calls/batch-calls.service.ts) has recipients.               *)
(***************************************************************************)
EXTENDS WorkspaceServer

CONSTANTS
  Records,   \* ids the database gives out
  Parties,     \* agents a test is attached to, recipients of a batch
  Folders    \* test folders

Environments == {"production", "staging"}
RecordKinds == {"variable", "test", "batch"}

(* What a request still has to do, and what it has read. *)
RecordCall ==
  [op : {"insert"}, left : SUBSET Environments]
  \cup [op : {"fill"}, item : Records, left : SUBSET Environments, fresh : BOOLEAN]
  \cup [op : {"rename"}, item : Records, to : {"it", "other", "same"},
        left : SUBSET Environments]
  \cup [op : {"own"}, item : Records, env : Environments, had : BOOLEAN]
  \cup [op : {"fallback"}, item : Records, had : BOOLEAN]
  \cup [op : {"forget", "strip", "erase", "recall"}, item : Records]
  \cup [op : {"attach"}, item : Records, user : Parties]
  \cup [op : {"file"}, item : Records, to : Folders \cup {None}]
  \cup [op : {"close"}, folder : Folders]

VARIABLES
  record,    \* the row: of a variable, its name: the one looked up, or another
  parts,     \* its environments with a value, agents, or pending recipients
  folders,   \* rows of test_folders
  filed,     \* folder_id of a test
  \* history
  owed,      \* attachments made and not taken back
  placed,    \* the folder a test was last put in, or taken out of
  cut        \* records with a deletion or a cancellation that broke off

records == <<record, parts, folders, filed, owed, placed, cut>>

RecordsTypeOK ==
  /\ record \in [Records -> {"none", "it", "other", "live", "cancelled", "gone"}]
  /\ parts \in [Records -> SUBSET (Environments \cup Parties)]
  /\ folders \in [Folders -> {"none", "live", "gone"}]
  /\ filed \in [Records -> Folders \cup {None}]
  /\ owed \in [Records -> SUBSET Parties]
  /\ placed \in [Records -> Folders \cup {None}]
  /\ cut \subseteq Records
  /\ kind \in RecordKinds => calls \in [Handlers -> RecordCall \cup {None}]

RecordsInit ==
  /\ record = [i \in Records |-> "none"]
  /\ parts = [i \in Records |-> {}]
  /\ folders = [f \in Folders |-> "none"]
  /\ filed = [i \in Records |-> None]
  /\ owed = [i \in Records |-> {}]
  /\ placed = [i \in Records |-> None]
  /\ cut = {}

-----------------------------------------------------------------------------
Exists(i) == record[i] \in {"it", "other", "live"}
Places == {None} \cup {f \in Folders : folders[f] = "live"}
NameTaken == \E i \in Records : record[i] = "it"

Becoming(i, state) == record' = [record EXCEPT ![i] = state]
Gaining(i, new) == parts' = [parts EXCEPT ![i] = @ \cup new]
Filing(i, f) == filed' = [filed EXCEPT ![i] = f] /\ placed' = [placed EXCEPT ![i] = f]

(* create: the name is not in use when it is looked up ... *)
CreateVariable(h) ==
  /\ Takes(h, "variable")
  /\ ~NameTaken
  /\ \E left \in SUBSET Environments \ {{}} : Becomes(h, [op |-> "insert", left |-> left])
  /\ UNCHANGED records

(* ... and the INSERT is refused if it is by now (UNIQUE tenant_id, name). *)
InsertVariable(h, i) ==
  /\ Doing(h, "insert")
  /\ record[i] = "none"
  /\ IF NameTaken
       THEN Answers(h) /\ UNCHANGED record
       ELSE /\ Becoming(i, "it")
            /\ Goes(h, [op |-> "fill", item |-> i, left |-> calls[h].left, fresh |-> TRUE])
  /\ UNCHANGED <<parts, folders, filed, owed, placed, cut>>

(* findOne of update and of delete. *)
FindVariable(h, i) ==
  /\ Takes(h, "variable")
  /\ Exists(i)
  /\ \/ \E to \in {"it", "other", "same"}, left \in SUBSET Environments :
          Becomes(h, [op |-> "rename", item |-> i, to |-> to, left |-> left])
     \/ Becomes(h, [op |-> "forget", item |-> i])
  /\ UNCHANGED records

ToFill(i, left) ==
  IF left = {} THEN None ELSE [op |-> "fill", item |-> i, left |-> left, fresh |-> FALSE]

(* Mutant of RenameVariable: the values are replaced, the old ones first. *)
RenameVariableAfresh(h) ==
  /\ Doing(h, "rename")
  /\ LET i == calls[h].item  to == calls[h].to IN
       /\ Goes(h, ToFill(i, calls[h].left))
       /\ IF to = "same" \/ ~Exists(i) \/ (to = "it" /\ NameTaken)
            THEN UNCHANGED record ELSE Becoming(i, to)
       /\ parts' = [parts EXCEPT ![i] = @ \ calls[h].left]
  /\ UNCHANGED <<folders, filed, owed, placed, cut>>

(* A name in use is an error; a row that is gone is not. *)
RenameVariable(h) ==
  /\ Doing(h, "rename")
  /\ LET i == calls[h].item  to == calls[h].to IN
       IF to = "it" /\ record[i] = "other" /\ NameTaken
         THEN Answers(h) /\ UNCHANGED record
         ELSE /\ Goes(h, ToFill(i, calls[h].left))
              /\ IF to = "same" \/ ~Exists(i) THEN UNCHANGED record ELSE Becoming(i, to)
  /\ UNCHANGED <<parts, folders, filed, owed, placed, cut>>

(* One value at a time.  It is an error without the row (foreign key), and *)
(* in create, which only inserts, when the environment has a value. *)
FillValue(h) ==
  /\ Doing(h, "fill")
  /\ LET i == calls[h].item IN
       \E env \in calls[h].left :
         IF ~Exists(i) \/ (calls[h].fresh /\ env \in parts[i])
           THEN Answers(h) /\ UNCHANGED parts
           ELSE /\ Gaining(i, {env})
                /\ Goes(h, IF calls[h].left = {env} THEN None
                           ELSE [calls[h] EXCEPT !.left = @ \ {env}])
  /\ UNCHANGED <<record, folders, filed, owed, placed, cut>>

ForgetVariable(h) ==
  /\ Doing(h, "forget")
  /\ Becoming(calls[h].item, "gone")
  /\ parts' = [parts EXCEPT ![calls[h].item] = {}]
  /\ Answers(h)
  /\ UNCHANGED <<folders, filed, owed, placed, cut>>

(* resolveEnvVars finds the variable by its name ... *)
LookUp(h, i) ==
  /\ Takes(h, "variable")
  /\ record[i] = "it"
  /\ \E env \in Environments :
       Becomes(h, [op |-> "own", item |-> i, env |-> env, had |-> env \in parts[i]])
  /\ UNCHANGED records

(* ... then its value for the environment asked for ... *)
ReadOwn(h) ==
  /\ Doing(h, "own")
  /\ LET c == calls[h] IN
       Goes(h, IF c.env \in parts[c.item] \/ c.env = "production" THEN None
               ELSE [op |-> "fallback", item |-> c.item, had |-> c.had])
  /\ UNCHANGED records

(* ... and without one, production's, or an error. *)
ReadProduction(h) ==
  /\ Doing(h, "fallback")
  /\ Answers(h)
  /\ UNCHANGED records

-----------------------------------------------------------------------------
(* createWorkspace: folder_id must be of a folder (foreign key); the test  *)
(* is attached to its agent by a second statement. *)
CreateTest(h, i) ==
  /\ Takes(h, "test")
  /\ record[i] = "none"
  /\ Becoming(i, "live")
  /\ \E f \in Places : Filing(i, f)
  /\ \/ Becomes(h, None)
     \/ \E u \in Parties : Becomes(h, [op |-> "attach", item |-> i, user |-> u])
  /\ UNCHANGED <<parts, folders, owed, cut>>

CloneTemplate(h, i) ==
  /\ Takes(h, "test")
  /\ record[i] = "none"
  /\ Becoming(i, "live")
  /\ Filing(i, None)
  /\ UNCHANGED <<calls, parts, folders, owed, cut>>

(* findOne of attachToAgent, of update (any folder_id) and of delete. *)
FindTest(h, i) ==
  /\ Takes(h, "test")
  /\ Exists(i)
  /\ \/ \E u \in Parties : Becomes(h, [op |-> "attach", item |-> i, user |-> u])
     \/ \E f \in Folders \cup {None} : Becomes(h, [op |-> "file", item |-> i, to |-> f])
     \/ Becomes(h, [op |-> "strip", item |-> i])
  /\ UNCHANGED records

(* An error if the test is gone. *)
AttachTest(h) ==
  /\ Doing(h, "attach")
  /\ LET i == calls[h].item IN
       IF Exists(i)
         THEN /\ Gaining(i, {calls[h].user})
              /\ owed' = [owed EXCEPT ![i] = @ \cup {calls[h].user}]
         ELSE UNCHANGED <<parts, owed>>
  /\ Answers(h)
  /\ UNCHANGED <<record, folders, filed, placed, cut>>

DetachTest(h, i, u) ==
  /\ Takes(h, "test")
  /\ parts' = [parts EXCEPT ![i] = @ \ {u}]
  /\ owed' = [owed EXCEPT ![i] = @ \ {u}]
  /\ UNCHANGED <<calls, record, folders, filed, placed, cut>>

(* update: an error if there is no such folder. *)
FileTest(h) ==
  /\ Doing(h, "file")
  /\ LET i == calls[h].item  f == calls[h].to IN
       IF Exists(i) /\ f \in Places
         THEN Filing(i, f) ELSE UNCHANGED <<filed, placed>>
  /\ Answers(h)
  /\ UNCHANGED <<record, parts, folders, owed, cut>>

(* delete takes the attachments first ... *)
StripTest(h) ==
  /\ Doing(h, "strip")
  /\ parts' = [parts EXCEPT ![calls[h].item] = {}]
  /\ Goes(h, [op |-> "erase", item |-> calls[h].item])
  /\ UNCHANGED <<record, folders, filed, owed, placed, cut>>

(* ... and then the test, with any made since (ON DELETE CASCADE). *)
EraseTest(h) ==
  /\ Doing(h, "erase")
  /\ Becoming(calls[h].item, "gone")
  /\ parts' = [parts EXCEPT ![calls[h].item] = {}]
  /\ Filing(calls[h].item, None)
  /\ Answers(h)
  /\ UNCHANGED <<folders, owed, cut>>

CreateFolder(h, f) ==
  /\ Takes(h, "test")
  /\ folders[f] = "none"
  /\ folders' = [folders EXCEPT ![f] = "live"]
  /\ UNCHANGED <<calls, record, parts, filed, owed, placed, cut>>

(* deleteFolder moves the folder's tests out ... *)
EmptyFolder(h, f) ==
  /\ Takes(h, "test")
  /\ folders[f] # "none"
  /\ LET out(in) == [i \in Records |-> IF filed[i] = f THEN None ELSE in[i]] IN
       filed' = out(filed) /\ placed' = out(placed)
  /\ Becomes(h, [op |-> "close", folder |-> f])
  /\ UNCHANGED <<record, parts, folders, owed, cut>>

(* Mutant of CloseFolder: the foreign key is ON DELETE SET NULL. *)
CloseFolderAnyway(h) ==
  /\ Doing(h, "close")
  /\ folders' = [folders EXCEPT ![calls[h].folder] = "gone"]
  /\ filed' = [i \in Records |-> IF filed[i] = calls[h].folder THEN None ELSE filed[i]]
  /\ Answers(h)
  /\ UNCHANGED <<record, parts, owed, placed, cut>>

(* ... and the DELETE is refused if one has been filed in it since. *)
CloseFolder(h) ==
  /\ Doing(h, "close")
  /\ folders' = IF \E i \in Records : filed[i] = calls[h].folder
                  THEN folders ELSE [folders EXCEPT ![calls[h].folder] = "gone"]
  /\ Answers(h)
  /\ UNCHANGED <<record, parts, filed, owed, placed, cut>>

-----------------------------------------------------------------------------
(* create: both INSERTs in one transaction. *)
CreateBatch(h, i) ==
  /\ Takes(h, "batch")
  /\ record[i] = "none"
  /\ Becoming(i, "live")
  /\ \E called \in SUBSET Parties : Gaining(i, called)
  /\ UNCHANGED <<calls, folders, filed, owed, placed, cut>>

(* cancel marks the batch ... *)
CancelBatch(h, i) ==
  /\ Takes(h, "batch")
  /\ record[i] = "live"
  /\ Becoming(i, "cancelled")
  /\ Becomes(h, [op |-> "recall", item |-> i])
  /\ UNCHANGED <<parts, folders, filed, owed, placed, cut>>

(* ... and then its recipients that are pending. *)
CancelRecipients(h) ==
  /\ Doing(h, "recall")
  /\ parts' = [parts EXCEPT ![calls[h].item] = {}]
  /\ Answers(h)
  /\ UNCHANGED <<record, folders, filed, owed, placed, cut>>

-----------------------------------------------------------------------------
(* A statement fails or the process dies: what was done stays done. *)
RecordsFail(h) ==
  /\ kind \in RecordKinds
  /\ calls[h] # None
  /\ cut' = IF calls[h].op \in {"erase", "recall"} THEN cut \cup {calls[h].item} ELSE cut
  /\ Answers(h)
  /\ UNCHANGED <<record, parts, folders, filed, owed, placed>>

VariableStep(h) ==
  \/ CreateVariable(h)
  \/ \E i \in Records : InsertVariable(h, i) \/ FindVariable(h, i) \/ LookUp(h, i)
  \/ RenameVariable(h)
  \/ FillValue(h)
  \/ ForgetVariable(h)
  \/ ReadOwn(h)
  \/ ReadProduction(h)

TestStep(h) ==
  \/ \E i \in Records :
       \/ CreateTest(h, i)
       \/ CloneTemplate(h, i)
       \/ FindTest(h, i)
       \/ \E u \in Parties : DetachTest(h, i, u)
  \/ AttachTest(h)
  \/ FileTest(h)
  \/ StripTest(h)
  \/ EraseTest(h)
  \/ \E f \in Folders : CreateFolder(h, f) \/ EmptyFolder(h, f)
  \/ CloseFolder(h)

BatchStep(h) ==
  \/ \E i \in Records : CreateBatch(h, i) \/ CancelBatch(h, i)
  \/ CancelRecipients(h)

RecordsNext ==
  /\ UNCHANGED kind
  /\ \E h \in Handlers : VariableStep(h) \/ TestStep(h) \/ BatchStep(h) \/ RecordsFail(h)

-----------------------------------------------------------------------------
(* env-vars.service.ts resolveEnvVars: a resolution for an environment     *)
(* that had a value when the variable was found never takes production's   *)
(* instead, whatever updates run between its lookups; it goes on looking   *)
(* only if the variable was deleted, and then finds nothing. *)
ResolvedIsOwn ==
  kind = "variable" =>
    \A h \in Handlers :
      Doing(h, "fallback") /\ calls[h].had =>
        record[calls[h].item] = "gone" /\ parts[calls[h].item] = {}

(* A request has taken the parts of i and not yet i itself, or i and not   *)
(* yet its parts. *)
HalfDone(i) ==
  \E h \in Handlers : calls[h] # None /\ calls[h].op \in {"erase", "recall"}
                        /\ calls[h].item = i

(* tests.service.ts, batch-calls.service.ts: a test stays attached where   *)
(* it was attached and filed where it was filed until someone detaches it, *)
(* moves it, or deletes it or its folder, also when a folder's deletion is *)
(* refused half way; a cancelled batch has no recipient left to call;      *)
(* except while a deletion or cancellation is half done or after it broke  *)
(* off there. *)
PartsFollow ==
  \A i \in Records :
    /\ kind = "test" /\ record[i] = "live" =>
         /\ filed[i] = placed[i]
         /\ HalfDone(i) \/ i \in cut \/ parts[i] = owed[i]
    /\ kind = "batch" /\ record[i] = "cancelled" =>
         HalfDone(i) \/ i \in cut \/ parts[i] = {}
=============================================================================
