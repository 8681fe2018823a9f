----------------------------- MODULE AgentBuilder -----------------------------
(***************************************************************************)
(* platform-api/src/agents/agents.service.ts with the other writers of an  *)
(* agent's configuration (knowledge-base, security, phone-numbers) and     *)
(* workflow/workflow.service.ts: one agent that several requests configure *)
(* at once.  The configuration is one row saved column by column; publish  *)
(* and createBranch freeze it in a numbered version row; branches are      *)
(* edited, made live and deleted; the first message is translated; the     *)
(* workflow graph of a branch is replaced.  A handler runs its statements  *)
(* one by one and may fail before any of them; a transaction takes effect  *)
(* at its COMMIT.                                                          *)
(***************************************************************************)
EXTENDS Integers, FiniteSets

CONSTANTS
  Handlers,     \* requests served at the same time
  Columns,      \* columns of agent_configs
  MaxCalls,     \* bound on the requests after the agent's creation
  MaxVersions   \* bound on the version numbers

ASSUME BuilderAssumption ==
  /\ "first_message" \in Columns
  /\ MaxCalls \in Nat
  /\ MaxVersions \in Nat \ {0}

None == <<>>

Numbers == 1..MaxVersions
Calls == 1..MaxCalls

(* A column holds the number of the request that saved it last: 0 is what   *)
(* the agent was created with. *)
Snapshot == [Columns -> 0..MaxCalls]
Created == [c \in Columns |-> 0]

(* A row of agent_versions: version_id is the request that inserted it. *)
Row == [id : 0..MaxCalls, snap : Snapshot, live : BOOLEAN]

(* A request between two of its statements: what it has read. *)
Call ==
  [op : {"publish", "branch"}, no : Calls, snap : Snapshot, num : Numbers \cup {0}]
  \cup [op : {"save"}, no : Calls, id : 0..MaxCalls, col : Columns, snap : Snapshot]
  \cup [op : {"delete"}, no : Calls, id : 0..MaxCalls]
  \cup [op : {"translate"}, no : Calls, message : 0..MaxCalls]
  \cup [op : {"workflow"}, no : Calls, found : SUBSET Calls]

VARIABLES
  \* the database
  status,      \* agents.status; none before the agent's creation
  current,     \* agents.current_version_id, as the version's number, or 0
  config,      \* the row of agent_configs
  localized,   \* first_message_localized: the message it translates
  rows,        \* agent_versions of the agent, by number
  graph,       \* the workflow of a branch: the saves its nodes are from
  \* the API
  asked,       \* requests so far
  calls,       \* what each handler is in the middle of
  \* history
  published,   \* numbers publish gave to a version
  freed,       \* numbers a deleted branch had
  translator,  \* the request that wrote localized
  beside       \* pairs of workflow saves that overlapped

agent == <<status, current>>
workflow == <<graph, beside>>
translation == <<localized, translator>>
versions == <<rows, published, freed>>
vars == <<agent, config, translation, versions, workflow, asked, calls>>

TypeOK ==
  /\ status \in {"none", "draft", "published", "archived"}
  /\ current \in Numbers \cup {0}
  /\ config \in Snapshot
  /\ localized \in 0..MaxCalls
  /\ rows \in [Numbers -> Row \cup {None}]
  /\ graph \subseteq Calls
  /\ asked \in 0..MaxCalls
  /\ calls \in [Handlers -> Call \cup {None}]
  /\ published \subseteq Numbers
  /\ freed \subseteq Numbers
  /\ translator \in 0..MaxCalls
  /\ beside \subseteq SUBSET Calls

Init ==
  /\ status = "none"
  /\ current = 0
  /\ config = Created
  /\ localized = 0
  /\ rows = [n \in Numbers |-> None]
  /\ graph = {}
  /\ asked = 0
  /\ calls = [h \in Handlers |-> None]
  /\ published = {}
  /\ freed = {}
  /\ translator = 0
  /\ beside = {}

-----------------------------------------------------------------------------
(* A free handler takes the next request for the agent. *)
Takes(h) ==
  /\ status # "none"
  /\ calls[h] = None
  /\ asked < MaxCalls
  /\ asked' = asked + 1

Becomes(h, call) == calls' = [calls EXCEPT ![h] = call]
Doing(h, op) == calls[h] # None /\ calls[h].op = op
Answers(h) == Becomes(h, None) /\ UNCHANGED asked

(* A request of one statement, or of one transaction. *)
AtOnce(h) == Takes(h) /\ UNCHANGED calls

(* The agent, its configuration and version 1, offline, in one transaction. *)
InsertAgent ==
  /\ status = "none"
  /\ status' = "draft"
  /\ rows' = [rows EXCEPT ![1] = [id |-> 0, snap |-> Created, live |-> FALSE]]
  /\ UNCHANGED <<current, config, translation, published, freed, workflow,
                 asked, calls>>

Create == InsertAgent
CreateBlank == InsertAgent
CreateViaWizard == InsertAgent

(* archive stops no later request: publish sets the status back. *)
Archive(h) ==
  /\ AtOnce(h)
  /\ status' = "archived"
  /\ UNCHANGED <<current, config, translation, versions, workflow>>

-----------------------------------------------------------------------------
(* An UPDATE of some columns of the one row. *)
SaveColumn(h, c) ==
  /\ AtOnce(h)
  /\ config' = [config EXCEPT ![c] = asked']
  /\ UNCHANGED <<agent, translation, versions, workflow>>

UpdateConfig(h) == \E c \in Columns : SaveColumn(h, c)
UpdateRagConfig(h) == "rag" \in Columns /\ SaveColumn(h, "rag")
UpdateAgentSecurity(h) == "guardrails" \in Columns /\ SaveColumn(h, "guardrails")
AssignAgent(h) ==
  "user_input_audio_format" \in Columns /\ SaveColumn(h, "user_input_audio_format")

(* translateFirstMessage reads the message, has it translated, which takes *)
(* a while, ... *)
ReadMessage(h) ==
  /\ Takes(h)
  /\ Becomes(h, [op |-> "translate", no |-> asked',
                 message |-> config["first_message"]])
  /\ UNCHANGED <<agent, config, translation, versions, workflow>>

(* Mutant of StoreTranslation: a message that has a translation is not     *)
(* translated again. *)
StoreFirstTranslation(h) ==
  /\ Doing(h, "translate")
  /\ localized' = IF localized = 0 THEN calls[h].message ELSE localized
  /\ translator' = calls[h].no
  /\ Answers(h)
  /\ UNCHANGED <<agent, config, versions, workflow>>

(* ... and stores the translations of what it read, of the additional      *)
(* languages.  Those are the same throughout; a language that was taken    *)
(* off the list keeps the translation it had, which is left out. *)
StoreTranslation(h) ==
  /\ Doing(h, "translate")
  /\ localized' = calls[h].message
  /\ translator' = calls[h].no
  /\ Answers(h)
  /\ UNCHANGED <<agent, config, versions, workflow>>

-----------------------------------------------------------------------------
(* publish and createBranch: BEGIN, and the configuration is read ... *)
ReadConfig(h, op) ==
  /\ Takes(h)
  /\ Becomes(h, [op |-> op, no |-> asked', snap |-> config, num |-> 0])
  /\ UNCHANGED <<agent, config, translation, versions, workflow>>

(* ... then the next number, MAX(version) + 1 of the committed rows ... *)
Freezing(h, op) == Doing(h, op) /\ calls[h].num # 0

NextVersion(h) ==
  /\ \E op \in {"publish", "branch"} : Doing(h, op) /\ calls[h].num = 0
  /\ \E n \in Numbers :
       /\ \A m \in Numbers : m >= n => rows[m] = None
       /\ n > 1 => rows[n - 1] # None
       /\ Becomes(h, [calls[h] EXCEPT !.num = n])
  /\ UNCHANGED <<agent, config, translation, versions, workflow, asked>>

NewRow(h, live) ==
  [id |-> calls[h].no, snap |-> calls[h].snap, live |-> live]

(* Mutant of Publish: ON CONFLICT (agent_id, version) DO UPDATE. *)
PublishOver(h) ==
  /\ Freezing(h, "publish")
  /\ LET n == calls[h].num IN
       /\ rows' = [rows EXCEPT ![n] = NewRow(h, TRUE)]
       /\ current' = n
       /\ published' = published \cup {n}
  /\ status' = "published"
  /\ Answers(h)
  /\ UNCHANGED <<config, translation, freed, workflow>>

(* ... and the row is inserted, live, and made current, unless the number  *)
(* was taken meanwhile: (agent_id, version) is UNIQUE. *)
Publish(h) ==
  /\ Freezing(h, "publish")
  /\ LET n == calls[h].num IN
       /\ rows[n] = None
       /\ rows' = [rows EXCEPT ![n] = NewRow(h, TRUE)]
       /\ current' = n
       /\ published' = published \cup {n}
  /\ status' = "published"
  /\ Answers(h)
  /\ UNCHANGED <<config, translation, freed, workflow>>

CreateBranch(h) ==
  /\ Freezing(h, "branch")
  /\ rows[calls[h].num] = None
  /\ rows' = [rows EXCEPT ![calls[h].num] = NewRow(h, FALSE)]
  /\ Answers(h)
  /\ UNCHANGED <<agent, config, translation, published, freed, workflow>>

-----------------------------------------------------------------------------
(* updateBranchConfig reads a version ... *)
ReadBranch(h, n, c) ==
  /\ rows[n] # None
  /\ Takes(h)
  /\ Becomes(h, [op |-> "save", no |-> asked', id |-> rows[n].id, col |-> c,
                 snap |-> rows[n].snap])
  /\ UNCHANGED <<agent, config, translation, versions, workflow>>

Merged(call) == [call.snap EXCEPT ![call.col] = call.no]

(* Mutant of UpdateBranchConfig: the dto replaces the snapshot. *)
ReplaceBranchConfig(h) ==
  /\ Doing(h, "save")
  /\ rows' = [n \in Numbers |->
       IF rows[n] # None /\ rows[n].id = calls[h].id
         THEN [rows[n] EXCEPT !.snap = [Created EXCEPT ![calls[h].col] = calls[h].no]]
         ELSE rows[n]]
  /\ Answers(h)
  /\ UNCHANGED <<agent, config, translation, published, freed, workflow>>

(* ... and writes back the whole snapshot with the dto merged in, if the   *)
(* version is still there. *)
UpdateBranchConfig(h) ==
  /\ Doing(h, "save")
  /\ rows' = [n \in Numbers |->
       IF rows[n] # None /\ rows[n].id = calls[h].id
         THEN [rows[n] EXCEPT !.snap = Merged(calls[h])]
         ELSE rows[n]]
  /\ Answers(h)
  /\ UNCHANGED <<agent, config, translation, published, freed, workflow>>

PublishBranch(h, n) ==
  /\ rows[n] # None
  /\ AtOnce(h)
  /\ rows' = [rows EXCEPT ![n].live = TRUE]
  /\ UNCHANGED <<agent, config, translation, published, freed, workflow>>

(* Mutant of CheckOffline: what must not go is the current version. *)
CheckNotCurrent(h, n) ==
  /\ rows[n] # None /\ n # current
  /\ Takes(h)
  /\ Becomes(h, [op |-> "delete", no |-> asked', id |-> rows[n].id])
  /\ UNCHANGED <<agent, config, translation, versions, workflow>>

(* deleteBranch refuses a live branch ... *)
CheckOffline(h, n) ==
  /\ rows[n] # None /\ ~rows[n].live
  /\ Takes(h)
  /\ Becomes(h, [op |-> "delete", no |-> asked', id |-> rows[n].id])
  /\ UNCHANGED <<agent, config, translation, versions, workflow>>

(* ... and deletes the version it checked, live or not by now; the foreign *)
(* key of agents keeps the current one. *)
DeleteBranch(h) ==
  /\ Doing(h, "delete")
  /\ LET gone == {n \in Numbers : rows[n] # None /\ rows[n].id = calls[h].id} IN
       /\ current \notin gone
       /\ rows' = [n \in Numbers |-> IF n \in gone THEN None ELSE rows[n]]
       /\ freed' = freed \cup gone
  /\ Answers(h)
  /\ UNCHANGED <<agent, config, translation, published, workflow>>

-----------------------------------------------------------------------------
(* saveWorkflow: the DELETE marks the nodes it finds committed ... *)
DeleteNodes(h) ==
  /\ Takes(h)
  /\ Becomes(h, [op |-> "workflow", no |-> asked', found |-> graph])
  /\ beside' = beside \cup {{calls[g].no, asked'} :
                              g \in {k \in Handlers : Doing(k, "workflow")}}
  /\ UNCHANGED <<agent, config, translation, versions, graph>>

(* Mutant of SaveWorkflow: the nodes are added to those that are there. *)
AddNodes(h) ==
  /\ Doing(h, "workflow")
  /\ graph' = graph \cup {calls[h].no}
  /\ Answers(h)
  /\ UNCHANGED <<agent, config, translation, versions, beside>>

(* ... and the COMMIT replaces them: the nodes of a save that committed in *)
(* between are not among them and stay. *)
SaveWorkflow(h) ==
  /\ Doing(h, "workflow")
  /\ graph' = (graph \ calls[h].found) \cup {calls[h].no}
  /\ Answers(h)
  /\ UNCHANGED <<agent, config, translation, versions, beside>>

(* A statement fails, a transaction is rolled back, the API goes down: the *)
(* request ends where it is. *)
Fail(h) ==
  /\ calls[h] # None
  /\ Answers(h)
  /\ UNCHANGED <<agent, config, translation, versions, workflow>>

-----------------------------------------------------------------------------
Next ==
  \/ Create \/ CreateBlank \/ CreateViaWizard
  \/ \E h \in Handlers :
       \/ Archive(h)
       \/ UpdateConfig(h) \/ UpdateRagConfig(h)
       \/ UpdateAgentSecurity(h) \/ AssignAgent(h)
       \/ ReadMessage(h) \/ StoreTranslation(h)
       \/ \E op \in {"publish", "branch"} : ReadConfig(h, op)
       \/ NextVersion(h) \/ Publish(h) \/ CreateBranch(h)
       \/ \E n \in Numbers :
            \/ \E c \in Columns : ReadBranch(h, n, c)
            \/ PublishBranch(h, n)
            \/ CheckOffline(h, n)
       \/ UpdateBranchConfig(h) \/ DeleteBranch(h)
       \/ DeleteNodes(h) \/ SaveWorkflow(h)
       \/ Fail(h)

Spec == Init /\ [][Next]_vars

-----------------------------------------------------------------------------
(* What publish made is never taken away: its row stays, and stays live,   *)
(* whatever deletions of branches, some checked long before, are under     *)
(* way. *)
PublishedKept ==
  \A n \in published : rows[n] # None /\ rows[n].live

(* The agent runs on the newest version publish made, however requests     *)
(* overlap, with one exception: a publish that took its number before a    *)
(* branch did, and ends after that branch is deleted, puts an older number *)
(* back. *)
CurrentIsNewest ==
  current # 0 => \/ \A n \in published : n <= current
                 \/ current \in freed

(* A save of one column of a branch undoes no save of another column,      *)
(* except one made while it was running. *)
SavesSurvive ==
  [][\A n \in Numbers, c \in Columns :
       (rows[n] # None /\ rows'[n] # None) =>
         \/ rows'[n].snap[c] = rows[n].snap[c]
         \/ \E h \in Handlers :
              /\ Doing(h, "save") /\ calls'[h] = None
              /\ calls[h].id = rows[n].id
              /\ \/ calls[h].col = c
                 \/ calls[h].snap[c] # rows[n].snap[c]]_vars

(* The localised first message is that of the message in use, unless the   *)
(* message was saved after the translation stored last had read it. *)
LocalizedIsCurrent ==
  localized # config["first_message"] => config["first_message"] > translator

(* A workflow mixes the nodes of two saves only when they overlapped. *)
GraphOfOneSave ==
  \A s, t \in graph : s = t \/ {s, t} \in beside

(* What one admin's request writes in several statements is not mixed with *)
(* what another's writes between them: translations with the message they  *)
(* are of (translateFirstMessage), and a workflow's nodes with each other  *)
(* (workflow.service.ts save), but for the overlaps named in the two.      *)
SavedIsWhole == LocalizedIsCurrent /\ GraphOfOneSave
=============================================================================
