--------------------------- MODULE WorkspaceRegistry ---------------------------
(***************************************************************************)
(* platform-api: what the workspace shares between agents and keeps in two *)
(* places.  A tool (tools/tools.service.ts) has a row, and its id is in    *)
(* the list of the agent that owns it; an auth connection (settings/       *)
(* settings.service.ts) and a knowledge-base document (knowledge-base/     *)
(* knowledge-base.service.ts) may be deleted only while nothing refers to  *)
(* them; a phone number (phone-numbers/phone-numbers.service.ts) has a row *)
(* and a gateway file that FreeSWITCH reads.  No handler uses a            *)
(* transaction: its statements run one by one, those of other requests     *)
(* between them, and it may fail before any of them.                       *)
(***************************************************************************)
EXTENDS WorkspaceServer

CONSTANTS
  Items,      \* ids the database gives out
  Users,      \* tools or agents that may refer to an item
  Addresses   \* outbound addresses of a number

Checked == {"connection", "document"}
RegistryKinds == Checked \cup {"tool", "number"}

(* What a request still has to do, and what it has read. *)
Call ==
  [op : {"append", "remove", "unlink", "delete"}, item : Items]
  \cup [op : {"drop"}, item : Items, owned : BOOLEAN]
  \cup [op : {"patch"}, ids : SUBSET Items]
  \cup [op : {"store"}, item : Items, change : BOOLEAN, to : Addresses \cup {None}]
  \cup [op : {"write"}, item : Items, to : Addresses]

VARIABLES
  \* the database and the disk
  row,       \* the item's row, by status
  shape,     \* of a tool: owned by the agent, an MCP server
  object,    \* the agent's tools_config_json is an object, not the default []
  attached,  \* its attached_tool_ids
  refs,      \* who refers to what
  address,   \* outbound_address of a number's row
  file,      \* the address in its gateway file
  \* history
  astray,    \* items whose second copy a known event left behind
  wanted,    \* references made and not taken back
  raced      \* references made past the check of a delete

list == <<object, attached>>
uses == <<refs, wanted, raced>>
gateway == <<address, file>>
registry == <<row, shape, list, uses, gateway, astray>>

RegistryTypeOK ==
  /\ row \in [Items -> {"none", "active", "archived", "deleted"}]
  /\ shape \in [Items -> SUBSET {"owned", "mcp"}]
  /\ object \in BOOLEAN
  /\ attached \subseteq Items
  /\ refs \subseteq Items \X Users
  /\ address \in [Items -> Addresses \cup {None}]
  /\ file \in [Items -> Addresses \cup {None}]
  /\ kind \in RegistryKinds => calls \in [Handlers -> Call \cup {None}]
  /\ astray \subseteq Items
  /\ wanted \subseteq Items \X Users
  /\ raced \subseteq Items \X Users

RegistryInit ==
  /\ row = [i \in Items |-> "none"]
  /\ shape = [i \in Items |-> {}]
  /\ object \in IF kind = "tool" THEN BOOLEAN ELSE {FALSE}
  /\ attached = {}
  /\ refs = {}
  /\ address = [i \in Items |-> None]
  /\ file = [i \in Items |-> None]
  /\ astray = {}
  /\ wanted = {}
  /\ raced = {}

-----------------------------------------------------------------------------
(* An id exists from the INSERT that gives it out; others list it then. *)
Known(i) == row[i] # "none"
Lives(i) == row[i] = "active"

-----------------------------------------------------------------------------
(* INSERT INTO tools; createMcpServer is create with type mcp. *)
CreateTool(h, i) ==
  /\ Takes(h, "tool")
  /\ ~Known(i)
  /\ row' = [row EXCEPT ![i] = "active"]
  /\ \E s \in SUBSET {"owned", "mcp"} :
       /\ shape' = [shape EXCEPT ![i] = s]
       /\ Becomes(h, IF "owned" \in s THEN [op |-> "append", item |-> i] ELSE None)
  /\ UNCHANGED <<kind, list, uses, gateway, astray>>

(* jsonb_set on the default [] is an error: the row stays and is not listed. *)
AppendTool(h) ==
  /\ Doing(h, "append")
  /\ LET i == calls[h].item IN
       /\ attached' = IF object THEN attached \cup {i} ELSE attached
       /\ astray' = IF object /\ Lives(i) THEN astray ELSE astray \cup {i}
  /\ Answers(h)
  /\ UNCHANGED <<kind, row, shape, object, uses, gateway>>

(* The owner is fetched before the row is gone. *)
ReadOwner(h, i) ==
  /\ Takes(h, "tool")
  /\ Known(i)
  /\ Becomes(h, [op |-> "drop", item |-> i,
                 owned |-> Lives(i) /\ "owned" \in shape[i]])
  /\ UNCHANGED <<kind, row, shape, list, uses, gateway, astray>>

(* Mutant of DropTool: the owner is looked up in the row once it is deleted. *)
DropToolFirst(h) ==
  /\ Doing(h, "drop")
  /\ row' = [row EXCEPT ![calls[h].item] = "deleted"]
  /\ Answers(h)
  /\ UNCHANGED <<kind, shape, list, uses, gateway, astray>>

DropTool(h) ==
  /\ Doing(h, "drop")
  /\ row' = [row EXCEPT ![calls[h].item] = "deleted"]
  /\ Goes(h, IF calls[h].owned THEN [op |-> "remove", item |-> calls[h].item] ELSE None)
  /\ UNCHANGED <<kind, shape, list, uses, gateway, astray>>

RemoveTool(h) ==
  /\ Doing(h, "remove")
  /\ attached' = attached \ {calls[h].item}
  /\ Answers(h)
  /\ UNCHANGED <<kind, row, shape, object, uses, gateway, astray>>

(* Only the row: the id stays in the owner's list. *)
DeleteMcpServer(h, i) ==
  /\ Takes(h, "tool")
  /\ "mcp" \in shape[i]
  /\ row' = [row EXCEPT ![i] = "deleted"]
  /\ astray' = astray \cup {i}
  /\ UNCHANGED <<kind, shape, list, uses, gateway, calls>>

(* patchAgentSystemTools reads the whole column ... *)
ReadToolsConfig(h) ==
  /\ Takes(h, "tool")
  /\ Becomes(h, [op |-> "patch", ids |-> attached])
  /\ UNCHANGED <<kind, row, shape, list, uses, gateway, astray>>

(* ... and writes it back whole, as an object, over what came between. *)
PatchSystemTools(h) ==
  /\ Doing(h, "patch")
  /\ object' = TRUE
  /\ attached' = calls[h].ids
  /\ astray' = astray \cup (attached \ calls[h].ids) \cup (calls[h].ids \ attached)
  /\ Answers(h)
  /\ UNCHANGED <<kind, row, shape, uses, gateway>>

(* agents.service.ts updateConfig takes any tools_config_json. *)
ReplaceToolsConfig(h) ==
  /\ Takes(h, "tool")
  /\ object' \in BOOLEAN
  /\ attached' = {}
  /\ astray' = astray \cup attached
  /\ UNCHANGED <<kind, row, shape, uses, gateway, calls>>

-----------------------------------------------------------------------------
(* createAuthConnection, and the document's create. *)
Create(h, k, i) ==
  /\ Takes(h, k)
  /\ ~Known(i)
  /\ row' = [row EXCEPT ![i] = "active"]
  /\ UNCHANGED <<kind, shape, list, uses, gateway, calls, astray>>

CreateAuthConnection(h, i) == Create(h, "connection", i)
CreateDocument(h, i) == Create(h, "document", i)

(* A delete of i found no reference and has not deleted yet. *)
Condemned(i) == \E h \in Handlers : Doing(h, "delete") /\ calls[h].item = i

Refer(i, u) ==
  /\ refs' = refs \cup {<<i, u>>}
  /\ wanted' = wanted \cup {<<i, u>>}
  /\ raced' = IF Condemned(i) \/ ~Lives(i) THEN raced \cup {<<i, u>>} ELSE raced

TakeBack(i, u) ==
  /\ refs' = refs \ {<<i, u>>}
  /\ wanted' = wanted \ {<<i, u>>}
  /\ raced' = raced \ {<<i, u>>}

(* A tool names a connection in its config_json: nothing checks that the   *)
(* connection exists.  An update replaces config_json. *)
NameConnection(h, i, u) ==
  /\ Takes(h, "connection")
  /\ Known(i)
  /\ Refer(i, u) \/ TakeBack(i, u)
  /\ UNCHANGED <<kind, row, shape, list, gateway, calls, astray>>

(* agent_knowledge_base has a foreign key: without the row it is an error. *)
AttachToAgent(h, i, u) ==
  /\ Takes(h, "document")
  /\ Lives(i)
  /\ Refer(i, u)
  /\ UNCHANGED <<kind, row, shape, list, gateway, calls, astray>>

DetachFromAgent(h, i, u) ==
  /\ Takes(h, "document")
  /\ TakeBack(i, u)
  /\ UNCHANGED <<kind, row, shape, list, gateway, calls, astray>>

(* Mutant of CheckRefs: only the references of one user are counted. *)
CheckRefsOfOne(h, k, i) ==
  /\ Takes(h, k)
  /\ Known(i)
  /\ \E u \in Users : <<i, u>> \notin refs
  /\ Becomes(h, [op |-> "delete", item |-> i])
  /\ UNCHANGED <<kind, row, shape, list, uses, gateway, astray>>

(* The references are counted; with one, the answer is 409. *)
CheckRefs(h, k, i) ==
  /\ Takes(h, k)
  /\ Known(i)
  /\ \A u \in Users : <<i, u>> \notin refs
  /\ Becomes(h, [op |-> "delete", item |-> i])
  /\ UNCHANGED <<kind, row, shape, list, uses, gateway, astray>>

(* The row goes; ON DELETE CASCADE takes the document's references along. *)
DeleteRow(h) ==
  /\ Doing(h, "delete")
  /\ LET i == calls[h].item IN
       /\ row' = [row EXCEPT ![i] = "deleted"]
       /\ refs' = IF kind = "document" THEN {r \in refs : r[1] # i} ELSE refs
  /\ Answers(h)
  /\ UNCHANGED <<kind, shape, list, wanted, raced, gateway, astray>>

DeleteAuthConnection(h, i) == CheckRefs(h, "connection", i)
DeleteDocument(h, i) == CheckRefs(h, "document", i)

-----------------------------------------------------------------------------
(* upsertFreeSwitchGateway returns early for a row without an address. *)
Upserts(h, i, to) ==
  Becomes(h, IF to = None THEN None ELSE [op |-> "write", item |-> i, to |-> to])

CreateNumber(h, i) ==
  /\ Takes(h, "number")
  /\ ~Known(i)
  /\ row' = [row EXCEPT ![i] = "active"]
  /\ \E to \in Addresses \cup {None} :
       /\ address' = [address EXCEPT ![i] = to]
       /\ Upserts(h, i, to)
  /\ UNCHANGED <<kind, shape, list, uses, file, astray>>

(* update asks whether the number exists, archived or not ... *)
FindNumber(h, i) ==
  /\ Takes(h, "number")
  /\ Known(i)
  /\ \E change \in BOOLEAN, to \in Addresses \cup {None} :
       /\ change \/ to = None
       /\ Becomes(h, [op |-> "store", item |-> i, change |-> change, to |-> to])
  /\ UNCHANGED <<kind, row, shape, list, uses, gateway, astray>>

(* ... saves the columns it was sent, and goes on with the row returned.   *)
(* A cleared address leaves the file of the old one. *)
StoreNumber(h) ==
  /\ Doing(h, "store")
  /\ LET i == calls[h].item
         to == IF calls[h].change THEN calls[h].to ELSE address[i] IN
       /\ address' = [address EXCEPT ![i] = to]
       /\ astray' = IF to = None THEN astray \cup {i} ELSE astray
       /\ Upserts(h, i, to)
  /\ UNCHANGED <<kind, row, shape, list, uses, file, asked>>

(* Mutant of WriteGateway: a gateway that has a file keeps it. *)
WriteGatewayOnce(h) ==
  /\ Doing(h, "write")
  /\ LET i == calls[h].item
         fresh == Lives(i) /\ calls[h].to = address[i] IN
       /\ file' = IF file[i] = None THEN [file EXCEPT ![i] = calls[h].to] ELSE file
       /\ astray' = IF fresh THEN astray \ {i} ELSE astray \cup {i}
  /\ Answers(h)
  /\ UNCHANGED <<kind, row, shape, list, uses, address>>

(* The write is fresh unless the row changed since the UPDATE returned it. *)
WriteGateway(h) ==
  /\ Doing(h, "write")
  /\ LET i == calls[h].item
         fresh == Lives(i) /\ calls[h].to = address[i] IN
       /\ file' = [file EXCEPT ![i] = calls[h].to]
       /\ astray' = IF fresh THEN astray \ {i} ELSE astray \cup {i}
  /\ Answers(h)
  /\ UNCHANGED <<kind, row, shape, list, uses, address>>

ArchiveNumber(h, i) ==
  /\ Takes(h, "number")
  /\ Known(i)
  /\ row' = [row EXCEPT ![i] = "archived"]
  /\ Becomes(h, [op |-> "unlink", item |-> i])
  /\ UNCHANGED <<kind, shape, list, uses, gateway, astray>>

RemoveGateway(h) ==
  /\ Doing(h, "unlink")
  /\ file' = [file EXCEPT ![calls[h].item] = None]
  /\ astray' = astray \ {calls[h].item}
  /\ Answers(h)
  /\ UNCHANGED <<kind, row, shape, list, uses, address>>

-----------------------------------------------------------------------------
(* A statement fails or the process dies: what was done stays done. *)
Fail(h) ==
  /\ kind \in RegistryKinds
  /\ calls[h] # None
  /\ astray' = IF calls[h].op \in {"append", "remove", "write", "unlink"}
                 THEN astray \cup {calls[h].item} ELSE astray
  /\ Answers(h)
  /\ UNCHANGED <<kind, row, shape, list, uses, gateway>>

ToolStep(h) ==
  \/ \E i \in Items : CreateTool(h, i) \/ ReadOwner(h, i) \/ DeleteMcpServer(h, i)
  \/ AppendTool(h)
  \/ DropTool(h)
  \/ RemoveTool(h)
  \/ ReadToolsConfig(h)
  \/ PatchSystemTools(h)
  \/ ReplaceToolsConfig(h)

CheckedStep(h) ==
  \/ \E i \in Items :
       \/ CreateAuthConnection(h, i)
       \/ CreateDocument(h, i)
       \/ DeleteAuthConnection(h, i)
       \/ DeleteDocument(h, i)
       \/ \E u \in Users :
            NameConnection(h, i, u) \/ AttachToAgent(h, i, u) \/ DetachFromAgent(h, i, u)
  \/ DeleteRow(h)

NumberStep(h) ==
  \/ \E i \in Items : CreateNumber(h, i) \/ FindNumber(h, i) \/ ArchiveNumber(h, i)
  \/ StoreNumber(h)
  \/ WriteGateway(h)
  \/ RemoveGateway(h)

RegistryNext ==
  \E h \in Handlers : ToolStep(h) \/ CheckedStep(h) \/ NumberStep(h) \/ Fail(h)

-----------------------------------------------------------------------------
(* A request about i has statements left that touch its second copy. *)
Unsettled(i) ==
  \E h \in Handlers :
    calls[h] # None /\ calls[h].op \in {"append", "remove", "write", "unlink"}
    /\ calls[h].item = i

(* tools.service.ts: the agent's list and the rows it owns agree on every  *)
(* tool once create and delete are through, whatever ran between their     *)
(* statements, but for the tools left astray: by the default [], by the    *)
(* deletion of an MCP server or of a tool still being listed, by a column  *)
(* written whole over a change, or by a failure half way. *)
ListIsTools ==
  kind = "tool" =>
    \A i \in Items :
      Unsettled(i) \/ i \in astray
        \/ (i \in attached <=> Lives(i) /\ "owned" \in shape[i])

(* deleteAuthConnection and the document's delete: what was referred to    *)
(* when the delete counted, and still is, exists and is still referred to; *)
(* only a reference made after the count can lose its item. *)
ReferencedIsKept ==
  kind \in Checked => \A r \in wanted \ raced : Lives(r[1]) /\ r \in refs

(* phone-numbers.service.ts: between requests FreeSWITCH's gateway of an   *)
(* active number has the row's address and an archived number has none,    *)
(* whatever order updates and archives overlapped in, unless the last      *)
(* write was of an older row, of an archived number, or of a cleared       *)
(* address, or was interrupted. *)
GatewayIsCurrent ==
  kind = "number" =>
    \A i \in Items :
      Unsettled(i) \/ i \in astray
        \/ file[i] = (IF Lives(i) THEN address[i] ELSE None)

(* What has a second copy outside its row agrees with it between requests: *)
(* the agent's list of tools, and the gateway files. *)
SecondCopyAgrees == ListIsTools /\ GatewayIsCurrent
=============================================================================
