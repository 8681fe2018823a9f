---------------------------- MODULE WorkspaceProofs ----------------------------
(* Theorems about Workspace, for any number of requests served side by     *)
(* side, of items and of pages. *)
EXTENDS Workspace, TLAPS

(* A request is in the middle of an operation on the kind of thing it      *)
(* began with. *)
OpsFit ==
  \A h \in Handlers : calls[h] # None =>
    \/ kind = "tool" /\ calls[h].op \in {"append", "remove", "drop", "patch"}
    \/ kind \in Checked /\ calls[h].op = "delete"
    \/ kind = "number" /\ calls[h].op \in {"unlink", "store", "write"}
    \/ kind = "variable" /\ calls[h].op \in {"insert", "fill", "rename", "own", "fallback", "forget"}
    \/ kind = "test" /\ calls[h].op \in {"attach", "file", "strip", "erase", "close"}
    \/ kind = "batch" /\ calls[h].op = "recall"
    \/ kind = "widget" /\ calls[h].op \in {"update", "avatar", "default"}
    \/ kind = "account" /\ calls[h].op \in {"subscribe", "unsubscribe", "disconnect", "send"}

ServerTypeOK ==
  /\ kind \in Kinds
  /\ asked \in Nat
  /\ calls = [h \in Handlers |-> calls[h]]

TypeInv ==
  /\ ServerTypeOK
  /\ RegistryTypeOK
  /\ RecordsTypeOK
  /\ ChannelsTypeOK
  /\ PageTypeOK
  /\ OpsFit

LEMMA InitTyped == Init => TypeInv
<1>. SUFFICES ASSUME Init PROVE TypeInv
  OBVIOUS
<1>. USE DEF Init, ServerInit, None
<1>1. ServerTypeOK /\ OpsFit
  BY DEF ServerTypeOK, OpsFit
<1>2. RegistryTypeOK
  BY DEF RegistryInit, RegistryTypeOK
<1>3. RecordsTypeOK
  BY DEF RecordsInit, RecordsTypeOK
<1>4. ChannelsTypeOK
  <2>1. Default \in Settings
    BY ServerAssumption DEF ServerAssumption, Settings, Default
  <2>2. kind \in ChannelKinds => calls \in [Handlers -> ChannelCall \cup {None}]
    OBVIOUS
  <2>. QED
    BY <2>1, <2>2 DEF ChannelsInit, ChannelsTypeOK
<1>5. PageTypeOK
  <2>1. used \subseteq Columns
    BY ConsoleAssumption DEF ConsoleAssumption, ConsoleInit
  <2>2. Blank \in Configs
    BY DEF Blank, Configs
  <2>3. stored \in Configs
    <3>1. PICK lists \in [used \cap Lists -> SUBSET Members] : stored = Over(lists, Blank)
      BY DEF ConsoleInit
    <3>. QED
      BY <2>1, <3>1 DEF Over, Blank, Configs
  <2>4. <<>> \in Patches
    <3>1. <<>> \in [{} -> SUBSET Members]
      OBVIOUS
    <3>. QED
      BY <3>1 DEF Patches
  <2>. QED
    BY <2>1, <2>2, <2>3, <2>4 DEF ConsoleInit, PageTypeOK
<1>. QED
  BY <1>1, <1>2, <1>3, <1>4, <1>5 DEF TypeInv

-----------------------------------------------------------------------------
(* What a request does belongs to the kind of thing it is about. *)
LEMMA RegistryKind ==
  ASSUME OpsFit, NEW h \in Handlers
  PROVE  /\ ToolStep(h) => kind = "tool"
         /\ CheckedStep(h) => kind \in Checked
         /\ NumberStep(h) => kind = "number"
<1>. USE DEF OpsFit, Takes, Doing, Checked
<1>1. ToolStep(h) => kind = "tool"
  BY DEF ToolStep, CreateTool, ReadOwner, DeleteMcpServer, AppendTool, DropTool, RemoveTool,
         ReadToolsConfig, PatchSystemTools, ReplaceToolsConfig
<1>2. CheckedStep(h) => kind \in Checked
  BY DEF CheckedStep, CreateAuthConnection, CreateDocument, Create, DeleteAuthConnection,
         DeleteDocument, CheckRefs, NameConnection, AttachToAgent, DetachFromAgent, DeleteRow
<1>3. NumberStep(h) => kind = "number"
  BY DEF NumberStep, CreateNumber, FindNumber, ArchiveNumber, StoreNumber, WriteGateway,
         RemoveGateway
<1>. QED
  BY <1>1, <1>2, <1>3

LEMMA RecordsKind ==
  ASSUME OpsFit, NEW h \in Handlers
  PROVE  /\ VariableStep(h) => kind = "variable"
         /\ TestStep(h) => kind = "test"
         /\ BatchStep(h) => kind = "batch"
<1>. USE DEF OpsFit, Takes, Doing, Checked
<1>1. VariableStep(h) => kind = "variable"
  BY DEF VariableStep, CreateVariable, InsertVariable, FindVariable, LookUp, RenameVariable,
         FillValue, ForgetVariable, ReadOwn, ReadProduction
<1>2. TestStep(h) => kind = "test"
  BY DEF TestStep, CreateTest, CloneTemplate, FindTest, DetachTest, AttachTest, FileTest,
         StripTest, EraseTest, CreateFolder, EmptyFolder, CloseFolder
<1>3. BatchStep(h) => kind = "batch"
  BY DEF BatchStep, CreateBatch, CancelBatch, CancelRecipients
<1>. QED
  BY <1>1, <1>2, <1>3

LEMMA ChannelsKind ==
  ASSUME OpsFit, NEW h \in Handlers
  PROVE  /\ WidgetStep(h) => kind = "widget"
         /\ AccountStep(h) => kind = "account"
<1>. USE DEF OpsFit, Takes, Doing, Checked
<1>1. WidgetStep(h) => kind = "widget"
  BY DEF WidgetStep, GetWidget, UpdateWidget, ApplyUpdate, CreateDefault, UploadAvatar, ApplyAvatar
<1>2. AccountStep(h) => kind = "account"
  BY DEF AccountStep, Connect, UpdateAccount, FindAccount, SendTemplate, Subscribe, Unsubscribe,
         Disconnect, TemplateSent
<1>. QED
  BY <1>1, <1>2

-----------------------------------------------------------------------------
(* The types. *)
LEMMA ToolTyped ==
  ASSUME TypeInv, NEW h \in Handlers, ToolStep(h)
  PROVE  ServerTypeOK' /\ RegistryTypeOK' /\ OpsFit'
<1>1. kind = "tool"
  BY RegistryKind DEF TypeInv
<1>2. calls \in [Handlers -> Call \cup {None}]
  BY <1>1 DEF TypeInv, RegistryTypeOK, RegistryKinds
<1>. USE <1>1, <1>2 DEF TypeInv, ServerTypeOK, RegistryTypeOK, OpsFit, RegistryKinds, list, uses,
         gateway, Takes, Becomes, Goes, Answers, Doing, Call
<1>3. ASSUME NEW i \in Items, CreateTool(h, i)
      PROVE  ServerTypeOK' /\ RegistryTypeOK' /\ OpsFit'
  BY <1>3 DEF CreateTool
<1>4. ASSUME NEW i \in Items, ReadOwner(h, i)
      PROVE  ServerTypeOK' /\ RegistryTypeOK' /\ OpsFit'
  BY <1>4 DEF ReadOwner, Lives
<1>5. ASSUME NEW i \in Items, DeleteMcpServer(h, i)
      PROVE  ServerTypeOK' /\ RegistryTypeOK' /\ OpsFit'
  BY <1>5 DEF DeleteMcpServer
<1>6. CASE AppendTool(h)
  BY <1>6 DEF AppendTool
<1>7. CASE DropTool(h)
  BY <1>7 DEF DropTool
<1>8. CASE RemoveTool(h)
  BY <1>8 DEF RemoveTool
<1>9. CASE ReadToolsConfig(h)
  BY <1>9 DEF ReadToolsConfig
<1>10. CASE PatchSystemTools(h)
  BY <1>10 DEF PatchSystemTools
<1>11. CASE ReplaceToolsConfig(h)
  BY <1>11 DEF ReplaceToolsConfig
<1>. QED
  BY <1>3, <1>4, <1>5, <1>6, <1>7, <1>8, <1>9, <1>10, <1>11 DEF ToolStep

LEMMA CheckedTyped ==
  ASSUME TypeInv, NEW h \in Handlers, CheckedStep(h)
  PROVE  ServerTypeOK' /\ RegistryTypeOK' /\ OpsFit'
<1>1. kind \in Checked
  BY RegistryKind DEF TypeInv
<1>2. calls \in [Handlers -> Call \cup {None}]
  BY <1>1 DEF TypeInv, RegistryTypeOK, RegistryKinds
<1>. USE <1>1, <1>2 DEF TypeInv, ServerTypeOK, RegistryTypeOK, OpsFit, RegistryKinds, list, uses,
         gateway, Takes, Becomes, Goes, Answers, Doing, Call
<1>3. ASSUME NEW i \in Items, CreateAuthConnection(h, i) \/ CreateDocument(h, i)
      PROVE  ServerTypeOK' /\ RegistryTypeOK' /\ OpsFit'
  BY <1>3 DEF CreateAuthConnection, CreateDocument, Create
<1>4. ASSUME NEW i \in Items, DeleteAuthConnection(h, i) \/ DeleteDocument(h, i)
      PROVE  ServerTypeOK' /\ RegistryTypeOK' /\ OpsFit'
  BY <1>4 DEF DeleteAuthConnection, DeleteDocument, CheckRefs
<1>5. ASSUME NEW i \in Items, NEW u \in Users,
             NameConnection(h, i, u) \/ AttachToAgent(h, i, u) \/ DetachFromAgent(h, i, u)
      PROVE  ServerTypeOK' /\ RegistryTypeOK' /\ OpsFit'
  BY <1>5 DEF NameConnection, AttachToAgent, DetachFromAgent, Refer, TakeBack
<1>6. CASE DeleteRow(h)
  BY <1>6 DEF DeleteRow
<1>. QED
  BY <1>3, <1>4, <1>5, <1>6 DEF CheckedStep

LEMMA NumberTyped ==
  ASSUME TypeInv, NEW h \in Handlers, NumberStep(h)
  PROVE  ServerTypeOK' /\ RegistryTypeOK' /\ OpsFit'
<1>1. kind = "number"
  BY RegistryKind DEF TypeInv
<1>2. calls \in [Handlers -> Call \cup {None}]
  BY <1>1 DEF TypeInv, RegistryTypeOK, RegistryKinds
<1>. USE <1>1, <1>2 DEF TypeInv, ServerTypeOK, RegistryTypeOK, OpsFit, RegistryKinds, list, uses,
         gateway, Takes, Becomes, Goes, Answers, Doing, Call, Upserts
<1>3. ASSUME NEW i \in Items, CreateNumber(h, i)
      PROVE  ServerTypeOK' /\ RegistryTypeOK' /\ OpsFit'
  BY <1>3 DEF CreateNumber
<1>4. ASSUME NEW i \in Items, FindNumber(h, i)
      PROVE  ServerTypeOK' /\ RegistryTypeOK' /\ OpsFit'
  BY <1>4 DEF FindNumber
<1>5. ASSUME NEW i \in Items, ArchiveNumber(h, i)
      PROVE  ServerTypeOK' /\ RegistryTypeOK' /\ OpsFit'
  BY <1>5 DEF ArchiveNumber
<1>6. CASE StoreNumber(h)
  BY <1>6 DEF StoreNumber
<1>7. CASE WriteGateway(h)
  BY <1>7 DEF WriteGateway
<1>8. CASE RemoveGateway(h)
  BY <1>8 DEF RemoveGateway
<1>. QED
  BY <1>3, <1>4, <1>5, <1>6, <1>7, <1>8 DEF NumberStep

LEMMA FailTyped ==
  ASSUME TypeInv, NEW h \in Handlers, Fail(h)
  PROVE  ServerTypeOK' /\ RegistryTypeOK' /\ OpsFit'
<1>. USE DEF Fail, TypeInv, ServerTypeOK, RegistryTypeOK, OpsFit, list, uses, gateway, Becomes, Goes, Answers
<1>1. calls \in [Handlers -> Call \cup {None}]
  OBVIOUS
<1>2. calls[h].op \in {"append", "remove", "write", "unlink"} => calls[h].item \in Items
  BY <1>1 DEF Call
<1>. QED
  BY <1>1, <1>2

LEMMA VariableTyped ==
  ASSUME TypeInv, NEW h \in Handlers, VariableStep(h), UNCHANGED kind
  PROVE  ServerTypeOK' /\ RecordsTypeOK' /\ OpsFit'
<1>1. kind = "variable"
  BY RecordsKind DEF TypeInv
<1>2. calls \in [Handlers -> RecordCall \cup {None}]
  BY <1>1 DEF TypeInv, RecordsTypeOK, RecordKinds
<1>. USE <1>1, <1>2 DEF TypeInv, ServerTypeOK, RecordsTypeOK, OpsFit, records,
         Takes, Becomes, Goes, Answers, Doing, RecordCall
<1>3. CASE CreateVariable(h)
  BY <1>3 DEF CreateVariable
<1>4. ASSUME NEW i \in Records, InsertVariable(h, i)
      PROVE  ServerTypeOK' /\ RecordsTypeOK' /\ OpsFit'
  <2>1. calls[h] \in [op : {"insert"}, left : SUBSET Environments]
    BY <1>4 DEF InsertVariable
  <2>2. PICK c \in RecordCall \cup {None} : Becomes(h, c) /\ (c # None => c.op = "fill")
    <3>1. [op |-> "fill", item |-> i, left |-> calls[h].left, fresh |-> TRUE]
            \in [op : {"fill"}, item : Records, left : SUBSET Environments, fresh : BOOLEAN]
      BY <2>1
    <3>. QED
      BY <1>4, <3>1 DEF InsertVariable
  <2>. HIDE DEF RecordCall
  <2>. QED
    BY <1>4, <2>2 DEF InsertVariable, Becoming
<1>5. ASSUME NEW i \in Records, FindVariable(h, i)
      PROVE  ServerTypeOK' /\ RecordsTypeOK' /\ OpsFit'
  <2>. DEFINE rename == [op : {"rename"}, item : Records, to : {"it", "other", "same"},
                         left : SUBSET Environments]
              forget == [op : {"forget"}, item : Records]
  <2>1. PICK c \in rename \cup forget : Becomes(h, c)
    BY <1>5 DEF FindVariable
  <2>2. c \in RecordCall /\ c.op \in {"rename", "forget"}
    OBVIOUS
  <2>3. UNCHANGED <<kind, records>> /\ asked' = asked + 1
    BY <1>5 DEF FindVariable
  <2>. HIDE DEF rename, forget, RecordCall
  <2>. QED
    BY <2>1, <2>2, <2>3
<1>6. ASSUME NEW i \in Records, LookUp(h, i)
      PROVE  ServerTypeOK' /\ RecordsTypeOK' /\ OpsFit'
  <2>1. PICK c \in [op : {"own"}, item : Records, env : Environments, had : BOOLEAN] :
                 Becomes(h, c)
    <3>1. PICK env \in Environments :
                 Becomes(h, [op |-> "own", item |-> i, env |-> env, had |-> env \in parts[i]])
      BY <1>6 DEF LookUp
    <3>2. ASSUME NEW b \in BOOLEAN
          PROVE  [op |-> "own", item |-> i, env |-> env, had |-> b]
                   \in [op : {"own"}, item : Records, env : Environments, had : BOOLEAN]
      OBVIOUS
    <3>3. (env \in parts[i]) \in BOOLEAN
      OBVIOUS
    <3>. QED
      BY <3>1, <3>2, <3>3, Zenon
  <2>2. c \in RecordCall /\ c.op = "own"
    OBVIOUS
  <2>. HIDE DEF RecordCall
  <2>. QED
    BY <1>6, <2>1, <2>2 DEF LookUp
<1>7. CASE RenameVariable(h)
  <2>1. calls[h] \in [op : {"rename"}, item : Records, to : {"it", "other", "same"},
                      left : SUBSET Environments]
    BY <1>7 DEF RenameVariable
  <2>2. ToFill(calls[h].item, calls[h].left) \in RecordCall \cup {None}
    BY <2>1 DEF ToFill
  <2>3. ToFill(calls[h].item, calls[h].left) # None
          => ToFill(calls[h].item, calls[h].left).op = "fill"
    BY DEF ToFill
  <2>4. PICK c \in RecordCall \cup {None} : Becomes(h, c) /\ (c # None => c.op = "fill")
    BY <1>7, <2>2, <2>3 DEF RenameVariable
  <2>5. record' \in [Records -> {"none", "it", "other", "live", "cancelled", "gone"}]
    BY <1>7, <2>1 DEF RenameVariable, Becoming
  <2>. HIDE DEF RecordCall
  <2>. QED
    BY <1>7, <2>4, <2>5 DEF RenameVariable
<1>8. CASE FillValue(h)
  BY <1>8 DEF FillValue, Gaining
<1>9. CASE ForgetVariable(h)
  BY <1>9 DEF ForgetVariable, Becoming
<1>10. CASE ReadOwn(h)
  BY <1>10 DEF ReadOwn
<1>11. CASE ReadProduction(h)
  BY <1>11 DEF ReadProduction
<1>. QED
  BY <1>3, <1>4, <1>5, <1>6, <1>7, <1>8, <1>9, <1>10, <1>11 DEF VariableStep

LEMMA TestTyped ==
  ASSUME TypeInv, NEW h \in Handlers, TestStep(h), UNCHANGED kind
  PROVE  ServerTypeOK' /\ RecordsTypeOK' /\ OpsFit'
<1>1. kind = "test"
  BY RecordsKind DEF TypeInv
<1>2. calls \in [Handlers -> RecordCall \cup {None}]
  BY <1>1 DEF TypeInv, RecordsTypeOK, RecordKinds
<1>. USE <1>1, <1>2 DEF TypeInv, ServerTypeOK, RecordsTypeOK, OpsFit, records,
         Takes, Becomes, Goes, Answers, Doing, RecordCall
<1>3. ASSUME NEW i \in Records, CreateTest(h, i)
      PROVE  ServerTypeOK' /\ RecordsTypeOK' /\ OpsFit'
  BY <1>3 DEF CreateTest, Becoming, Filing, Places
<1>4. ASSUME NEW i \in Records, CloneTemplate(h, i)
      PROVE  ServerTypeOK' /\ RecordsTypeOK' /\ OpsFit'
  BY <1>4 DEF CloneTemplate, Becoming, Filing
<1>5. ASSUME NEW i \in Records, FindTest(h, i)
      PROVE  ServerTypeOK' /\ RecordsTypeOK' /\ OpsFit'
  BY <1>5 DEF FindTest
<1>6. ASSUME NEW i \in Records, NEW u \in Parties, DetachTest(h, i, u)
      PROVE  ServerTypeOK' /\ RecordsTypeOK' /\ OpsFit'
  BY <1>6 DEF DetachTest
<1>7. CASE AttachTest(h)
  BY <1>7 DEF AttachTest, Gaining
<1>8. CASE FileTest(h)
  BY <1>8 DEF FileTest, Filing
<1>9. CASE StripTest(h)
  BY <1>9 DEF StripTest
<1>10. CASE EraseTest(h)
  BY <1>10 DEF EraseTest, Becoming, Filing
<1>11. ASSUME NEW f \in Folders, CreateFolder(h, f)
       PROVE  ServerTypeOK' /\ RecordsTypeOK' /\ OpsFit'
  BY <1>11 DEF CreateFolder
<1>12. ASSUME NEW f \in Folders, EmptyFolder(h, f)
       PROVE  ServerTypeOK' /\ RecordsTypeOK' /\ OpsFit'
  BY <1>12 DEF EmptyFolder
<1>13. CASE CloseFolder(h)
  BY <1>13 DEF CloseFolder
<1>. QED
  BY <1>3, <1>4, <1>5, <1>6, <1>7, <1>8, <1>9, <1>10, <1>11, <1>12, <1>13 DEF TestStep

LEMMA BatchTyped ==
  ASSUME TypeInv, NEW h \in Handlers, BatchStep(h) \/ RecordsFail(h), UNCHANGED kind
  PROVE  ServerTypeOK' /\ RecordsTypeOK' /\ OpsFit'
<1>1. kind \in RecordKinds
  BY RecordsKind DEF TypeInv, RecordKinds, RecordsFail
<1>2. calls \in [Handlers -> RecordCall \cup {None}]
  BY <1>1 DEF TypeInv, RecordsTypeOK
<1>. USE <1>2 DEF TypeInv, ServerTypeOK, RecordsTypeOK, OpsFit, records,
         Takes, Becomes, Goes, Answers, Doing
<1>3. ASSUME NEW i \in Records, CreateBatch(h, i)
      PROVE  ServerTypeOK' /\ RecordsTypeOK' /\ OpsFit'
  BY <1>3 DEF CreateBatch, Becoming, Gaining
<1>4. ASSUME NEW i \in Records, CancelBatch(h, i)
      PROVE  ServerTypeOK' /\ RecordsTypeOK' /\ OpsFit'
  BY <1>4 DEF CancelBatch, Becoming, RecordCall
<1>5. CASE CancelRecipients(h)
  BY <1>5 DEF CancelRecipients
<1>6. CASE RecordsFail(h)
  <2>1. calls[h].op \in {"erase", "recall"} => calls[h].item \in Records
    BY <1>6 DEF RecordsFail, RecordCall
  <2>. QED
    BY <1>6, <2>1 DEF RecordsFail
<1>. QED
  BY <1>3, <1>4, <1>5, <1>6 DEF BatchStep

LEMMA NotNone == ASSUME NEW s \in Settings PROVE s # None
<1>1. DOMAIN s = {"style", "avatar"} /\ DOMAIN None = {}
  BY DEF Settings, None
<1>. QED
  BY <1>1

LEMMA SetAllTyped ==
  ASSUME ChannelsTypeOK, NEW version \in 0..MaxCalls, NEW column \in {"style", "avatar"},
         SetAll(column, version)
  PROVE  widget' \in [Rows -> Settings \cup {None}]
<1>1. ASSUME NEW s \in Settings PROVE [s EXCEPT ![column] = version] \in Settings
  BY DEF Settings
<1>2. \A i \in Rows : i \in Widgets => widget[i] \in Settings
  BY DEF ChannelsTypeOK, Widgets
<1>. QED
  BY <1>1, <1>2 DEF SetAll

LEMMA WidgetTyped ==
  ASSUME TypeInv, NEW h \in Handlers, WidgetStep(h), UNCHANGED kind
  PROVE  ServerTypeOK' /\ ChannelsTypeOK' /\ OpsFit'
<1>1. kind = "widget"
  BY ChannelsKind DEF TypeInv
<1>2. calls \in [Handlers -> ChannelCall \cup {None}]
  BY <1>1 DEF TypeInv, ChannelsTypeOK, ChannelKinds
<1>3. Default \in Settings
  BY ServerAssumption DEF ServerAssumption, Default, Settings
<1>4. \A op \in {"update", "avatar", "default"} : Doing(h, op) => calls[h].version \in 0..MaxCalls
  BY <1>2 DEF Doing, ChannelCall
<1>5. \A op \in {"update", "avatar", "default"}, version \in 0..MaxCalls :
        [op |-> op, version |-> version] \in ChannelCall
  BY DEF ChannelCall
<1>. USE <1>1, <1>2, <1>4, <1>5 DEF TypeInv, ServerTypeOK, OpsFit, channels, ChannelsTypeOK,
         Takes, Becomes, Goes, Answers, Queues
<1>6. CASE GetWidget(h)
  BY <1>6, ServerAssumption DEF GetWidget, ServerAssumption
<1>7. CASE UpdateWidget(h) \/ UploadAvatar(h)
  BY <1>7, ServerAssumption DEF UpdateWidget, UploadAvatar, ServerAssumption
<1>8. CASE ApplyUpdate(h)
  <2>1. widget' \in [Rows -> Settings \cup {None}] /\ saved' \in Settings
    BY <1>8, SetAllTyped DEF ApplyUpdate, Settings
  <2>. QED
    BY <1>8, <2>1 DEF ApplyUpdate
<1>9. ASSUME NEW i \in Rows, CreateDefault(h, i)
      PROVE  ServerTypeOK' /\ ChannelsTypeOK' /\ OpsFit'
  BY <1>3, <1>9 DEF CreateDefault
<1>10. CASE ApplyAvatar(h)
  <2>1. widget' \in [Rows -> Settings \cup {None}] /\ saved' \in Settings
    BY <1>10, SetAllTyped DEF ApplyAvatar, Settings
  <2>. QED
    BY <1>10, <2>1 DEF ApplyAvatar
<1>. QED
  BY <1>6, <1>7, <1>8, <1>9, <1>10 DEF WidgetStep

LEMMA AccountTyped ==
  ASSUME TypeInv, NEW h \in Handlers, AccountStep(h) \/ ChannelsFail(h), UNCHANGED kind
  PROVE  ServerTypeOK' /\ ChannelsTypeOK' /\ OpsFit'
<1>1. kind \in ChannelKinds /\ (AccountStep(h) => kind = "account")
  BY ChannelsKind DEF TypeInv, ChannelKinds, ChannelsFail
<1>2. calls \in [Handlers -> ChannelCall \cup {None}]
  BY <1>1 DEF TypeInv, ChannelsTypeOK
<1>3. \A op \in {"subscribe", "unsubscribe", "disconnect", "send"} :
         /\ Doing(h, op) => calls[h].item \in Rows
         /\ \A i \in Rows : [op |-> op, item |-> i] \in ChannelCall
  BY <1>2 DEF Doing, ChannelCall
<1>. USE <1>1, <1>2, <1>3 DEF TypeInv, ServerTypeOK, OpsFit, channels, ChannelsTypeOK,
         Takes, Becomes, Goes, Answers, Proceeds, Setting
<1>4. ASSUME NEW i \in Rows, Connect(h, i) \/ UpdateAccount(h, i)
      PROVE  ServerTypeOK' /\ ChannelsTypeOK' /\ OpsFit'
  BY <1>4 DEF Connect, UpdateAccount, AccountStep
<1>5. ASSUME NEW i \in Rows, FindAccount(h, i) \/ SendTemplate(h, i)
      PROVE  ServerTypeOK' /\ ChannelsTypeOK' /\ OpsFit'
  BY <1>5 DEF FindAccount, SendTemplate, AccountStep
<1>6. CASE Subscribe(h)
  BY <1>6 DEF Subscribe, AccountStep
<1>7. CASE Unsubscribe(h)
  BY <1>7 DEF Unsubscribe, AccountStep
<1>8. CASE Disconnect(h)
  BY <1>8 DEF Disconnect, AccountStep
<1>9. CASE TemplateSent(h) \/ ChannelsFail(h)
  BY <1>9 DEF TemplateSent, ChannelsFail, AccountStep
<1>. QED
  BY <1>4, <1>5, <1>6, <1>7, <1>8, <1>9 DEF AccountStep

-----------------------------------------------------------------------------
(* Patches and what they are laid over. *)
LEMMA PatchDomain ==
  ASSUME NEW p
  PROVE  p \in Patches <=> /\ DOMAIN p \subseteq Columns
                           /\ p \in [DOMAIN p -> SUBSET Members]
BY DEF Patches

LEMMA OverValues ==
  ASSUME NEW p, NEW q
  PROVE  /\ DOMAIN Over(p, q) = DOMAIN p \cup DOMAIN q
         /\ \A c \in DOMAIN p : Over(p, q)[c] = p[c]
         /\ \A c \in DOMAIN q \ DOMAIN p : Over(p, q)[c] = q[c]
BY DEF Over

LEMMA OverTyped ==
  ASSUME NEW p \in Patches
  PROVE  /\ \A q \in Patches : Over(p, q) \in Patches
         /\ \A q \in Configs : Over(p, q) \in Configs
<1>1. ASSUME NEW q \in Patches PROVE Over(p, q) \in Patches
  <2>1. /\ DOMAIN p \subseteq Columns /\ p \in [DOMAIN p -> SUBSET Members]
        /\ DOMAIN q \subseteq Columns /\ q \in [DOMAIN q -> SUBSET Members]
    BY PatchDomain
  <2>2. Over(p, q) \in [DOMAIN p \cup DOMAIN q -> SUBSET Members]
    BY <2>1 DEF Over
  <2>. QED
    BY <2>1, <2>2 DEF Patches
<1>2. ASSUME NEW q \in Configs PROVE Over(p, q) \in Configs
  <2>1. DOMAIN p \subseteq Columns /\ p \in [DOMAIN p -> SUBSET Members]
    BY PatchDomain
  <2>. QED
    BY <2>1 DEF Over, Configs
<1>. QED
  BY <1>1, <1>2

LEMMA OnePatch ==
  ASSUME NEW c \in Columns, NEW value \in SUBSET Members
  PROVE  [k \in {c} |-> value] \in Patches
<1>1. [k \in {c} |-> value] \in [{c} -> SUBSET Members]
  OBVIOUS
<1>. QED
  BY <1>1 DEF Patches

(* What a change leaves in the draft. *)
LEMMA Changed ==
  ASSUME PageTypeOK, NEW h \in Pages, NEW c \in Columns, NEW value \in SUBSET Members,
         Change(h, c, value)
  PROVE  /\ PageTypeOK' <=> mine' \in [Pages -> SUBSET (Columns \X Members)]
                              /\ taken' \in [Pages -> SUBSET (Columns \X Members)]
         /\ \A g \in Pages \ {h} : draft'[g] = draft[g]
         /\ DOMAIN draft'[h] = DOMAIN draft[h] \cup {c}
         /\ draft'[h][c] = value
         /\ \A d \in DOMAIN draft[h] \ {c} : draft'[h][d] = draft[h][d]
<1>. DEFINE entry == [k \in {c} |-> value]
<1>1. entry \in Patches /\ DOMAIN entry = {c} /\ entry[c] = value
  BY OnePatch
<1>2. draft' = [draft EXCEPT ![h] = Over(entry, draft[h])]
  BY DEF Change
<1>. HIDE DEF entry
<1>3. draft[h] \in Patches
  BY DEF PageTypeOK
<1>4. Over(entry, draft[h]) \in Patches
  BY <1>1, <1>3, OverTyped
<1>5. draft'[h] = Over(entry, draft[h]) /\ draft' \in [Pages -> Patches]
  BY <1>2, <1>4 DEF PageTypeOK
<1>6. base' \in [Pages -> Configs]
  <2>1. \A v \in SUBSET Members : [base[h] EXCEPT ![c] = v] \in Configs
    BY DEF PageTypeOK, Configs
  <2>2. shown[h][c] \in SUBSET Members
    BY DEF PageTypeOK, Configs
  <2>. QED
    BY <2>1, <2>2 DEF Change, PageTypeOK
<1>7. dirty' \in [Pages -> BOOLEAN] /\ UNCHANGED <<used, stored, shown, sending>>
  BY DEF PageTypeOK, Change
<1>8. PageTypeOK' <=> /\ mine' \in [Pages -> SUBSET (Columns \X Members)]
                      /\ taken' \in [Pages -> SUBSET (Columns \X Members)]
  BY <1>5, <1>6, <1>7, Zenon DEF PageTypeOK
<1>9. \A g \in Pages \ {h} : draft'[g] = draft[g]
  BY <1>2 DEF PageTypeOK
<1>10. /\ DOMAIN Over(entry, draft[h]) = DOMAIN entry \cup DOMAIN draft[h]
       /\ \A d \in DOMAIN entry : Over(entry, draft[h])[d] = entry[d]
       /\ \A d \in DOMAIN draft[h] \ DOMAIN entry : Over(entry, draft[h])[d] = draft[h][d]
  BY OverValues, Zenon
<1>11. /\ DOMAIN draft'[h] = DOMAIN draft[h] \cup {c} /\ draft'[h][c] = value
       /\ \A d \in DOMAIN draft[h] \ {c} : draft'[h][d] = draft[h][d]
  BY <1>1, <1>5, <1>10
<1>. QED
  BY <1>8, <1>9, <1>11, Zenon

LEMMA ShownTyped ==
  ASSUME PageTypeOK, NEW h \in Pages, NEW c \in Columns
  PROVE  Effective(h)[c] \in SUBSET Members
<1>1. draft[h] \in Patches /\ shown[h] \in Configs
  BY DEF PageTypeOK
<1>2. Over(draft[h], shown[h]) \in Configs
  BY <1>1, OverTyped
<1>. QED
  BY <1>2 DEF Effective, Configs

(* Every edit is an entry in a plain column or a member more or less in a  *)
(* list. *)
LEMMA EditForms ==
  ASSUME NEW h, NEW m,
         \/ AgentTab(h, m) \/ KnowledgeBaseTab(h, m) \/ AdvancedTab(h, m)
         \/ WidgetTab(h, m) \/ SecurityTab(h, m)
  PROVE  \/ \E c \in Texts : Enter(h, c, m)
         \/ \E c \in Lists : Add(h, c, m) \/ Remove(h, c, m)
BY DEF AgentTab, PromptSection, VoiceSection, LlmSection, KnowledgeBaseTab, AdvancedTab,
       WidgetTab, SecurityTab, Allowlist, Texts, Lists

LEMMA ConsoleTyped ==
  ASSUME TypeInv, ConsoleNext
  PROVE  ServerTypeOK' /\ PageTypeOK' /\ OpsFit'
<1>1. PICK h \in Pages :
        \/ \E m \in Members :
             \/ AgentTab(h, m) \/ KnowledgeBaseTab(h, m) \/ AdvancedTab(h, m)
             \/ WidgetTab(h, m) \/ SecurityTab(h, m)
        \/ Save(h) \/ Store(h) \/ Saved(h) \/ SaveFails(h) \/ Fetch(h)
  BY DEF ConsoleNext
<1>2. PageTypeOK
  BY DEF TypeInv
<1>3. asked' \in Nat /\ PageTypeOK'
  <2>1. ASSUME NEW c \in Texts, NEW m \in Members, Enter(h, c, m)
        PROVE  asked' \in Nat /\ PageTypeOK'
    <3>1. c \in Columns /\ {m} \in SUBSET Members /\ Change(h, c, {m})
      BY <2>1 DEF Columns, Enter
    <3>2. mine' \in [Pages -> SUBSET (Columns \X Members)] /\ taken' = taken
      BY <1>2, <2>1, <3>1 DEF Enter, PageTypeOK
    <3>3. PageTypeOK'
      BY <1>2, <3>1, <3>2, Changed DEF PageTypeOK
    <3>. QED
      BY <3>1, <3>3 DEF Change, Counted, TypeInv, ServerTypeOK
  <2>2. ASSUME NEW c \in Lists, NEW m \in Members, Add(h, c, m) \/ Remove(h, c, m)
        PROVE  asked' \in Nat /\ PageTypeOK'
    <3>1. PICK value \in SUBSET Members : Change(h, c, value)
      BY <1>2, <2>2, ShownTyped DEF Columns, Add, Added, Remove
    <3>2. c \in Columns
      BY DEF Columns
    <3>3. /\ mine' \in [Pages -> SUBSET (Columns \X Members)]
          /\ taken' \in [Pages -> SUBSET (Columns \X Members)]
      BY <1>2, <2>2, <3>2 DEF Add, Remove, PageTypeOK
    <3>4. PageTypeOK'
      BY <1>2, <3>1, <3>2, <3>3, Changed
    <3>. QED
      BY <3>1, <3>4 DEF Change, Counted, TypeInv, ServerTypeOK
  <2>3. CASE Save(h)
    <3>1. [patch |-> draft[h], stored |-> FALSE] \in [patch : Patches, stored : BOOLEAN]
      BY <1>2 DEF PageTypeOK
    <3>. QED
      BY <1>2, <2>3, <3>1 DEF Save, Counted, PageTypeOK, TypeInv, ServerTypeOK
  <2>4. CASE Store(h)
    <3>1. sending[h] \in [patch : Patches, stored : BOOLEAN]
      BY <1>2, <2>4 DEF Store, InFlight, PageTypeOK
    <3>2. /\ [sending[h] EXCEPT !.stored = TRUE] \in [patch : Patches, stored : BOOLEAN]
          /\ sending[h].patch \in Patches
      BY <3>1
    <3>3. Over(sending[h].patch, stored) \in Configs
      BY <1>2, <3>2, OverTyped DEF PageTypeOK
    <3>. QED
      BY <1>2, <2>4, <3>2, <3>3 DEF Store, PageTypeOK, TypeInv, ServerTypeOK
  <2>5. CASE Saved(h)
    <3>1. <<>> \in Patches /\ Blank \in Configs
      <4>1. <<>> \in [{} -> SUBSET Members]
        OBVIOUS
      <4>. QED
        BY <4>1 DEF Patches, Blank, Configs
    <3>. QED
      BY <1>2, <2>5, <3>1 DEF Saved, Ends, PageTypeOK, TypeInv, ServerTypeOK
  <2>6. CASE SaveFails(h) \/ Fetch(h)
    BY <1>2, <2>6 DEF SaveFails, Fetch, Ends, PageTypeOK, TypeInv, ServerTypeOK
  <2>. QED
    BY <1>1, <2>1, <2>2, <2>3, <2>4, <2>5, <2>6, EditForms
<1>4. UNCHANGED <<kind, calls>>
  BY DEF ConsoleNext
<1>. QED
  BY <1>3, <1>4 DEF TypeInv, ServerTypeOK, OpsFit

(* The four services and the page do not touch each other's state. *)
LEMMA TypeKept == TypeInv /\ [Next]_vars => TypeInv'
<1>. SUFFICES ASSUME TypeInv, [Next]_vars PROVE TypeInv'
  OBVIOUS
<1>. USE DEF TypeInv
<1>1. CASE RegistryNext /\ UNCHANGED <<records, channels, console>>
  <2>1. PICK h \in Handlers : ToolStep(h) \/ CheckedStep(h) \/ NumberStep(h) \/ Fail(h)
    BY <1>1 DEF RegistryNext
  <2>2. ServerTypeOK' /\ RegistryTypeOK' /\ OpsFit'
    BY <2>1, ToolTyped, CheckedTyped, NumberTyped, FailTyped
  <2>3. kind \in RegistryKinds /\ kind' = kind
    <3>1. kind \in RegistryKinds
      BY <2>1, RegistryKind DEF RegistryKinds, Fail
    <3>. QED
      BY <2>1, <3>1 DEF ToolStep, CreateTool, ReadOwner, DeleteMcpServer, AppendTool, DropTool,
         RemoveTool, ReadToolsConfig, PatchSystemTools, ReplaceToolsConfig, CheckedStep,
         CreateAuthConnection, CreateDocument, Create, DeleteAuthConnection, DeleteDocument,
         CheckRefs, NameConnection, AttachToAgent, DetachFromAgent, DeleteRow, NumberStep,
         CreateNumber, FindNumber, ArchiveNumber, StoreNumber, WriteGateway, RemoveGateway, Fail
  <2>. QED
    BY <1>1, <2>2, <2>3 DEF records, channels, console, RegistryKinds, Checked, RecordKinds,
       ChannelKinds, RecordsTypeOK, ChannelsTypeOK, PageTypeOK
<1>2. CASE RecordsNext /\ UNCHANGED <<registry, channels, console>>
  <2>1. PICK h \in Handlers : VariableStep(h) \/ TestStep(h) \/ BatchStep(h) \/ RecordsFail(h)
    BY <1>2 DEF RecordsNext
  <2>2. kind' = kind
    BY <1>2 DEF RecordsNext
  <2>3. ServerTypeOK' /\ RecordsTypeOK' /\ OpsFit'
    BY <2>1, <2>2, VariableTyped, TestTyped, BatchTyped
  <2>4. kind \in RecordKinds
    BY <2>1, RecordsKind DEF RecordKinds, RecordsFail
  <2>. QED
    BY <1>2, <2>2, <2>3, <2>4 DEF registry, list, uses, gateway, channels, console,
       RegistryKinds, Checked, RecordKinds, ChannelKinds, RegistryTypeOK, ChannelsTypeOK, PageTypeOK
<1>3. CASE ChannelsNext /\ UNCHANGED <<registry, records, console>>
  <2>1. PICK h \in Handlers : WidgetStep(h) \/ AccountStep(h) \/ ChannelsFail(h)
    BY <1>3 DEF ChannelsNext
  <2>2. kind' = kind
    BY <1>3 DEF ChannelsNext
  <2>3. ServerTypeOK' /\ ChannelsTypeOK' /\ OpsFit'
    BY <2>1, <2>2, WidgetTyped, AccountTyped
  <2>4. kind \in ChannelKinds
    BY <2>1, ChannelsKind DEF ChannelKinds, ChannelsFail
  <2>. QED
    BY <1>3, <2>2, <2>3, <2>4 DEF registry, list, uses, gateway, records, console,
       RegistryKinds, Checked, RecordKinds, ChannelKinds, RegistryTypeOK, RecordsTypeOK, PageTypeOK
<1>4. CASE ConsoleNext /\ UNCHANGED <<registry, records, channels>>
  <2>1. ServerTypeOK' /\ PageTypeOK' /\ OpsFit'
    BY <1>4, ConsoleTyped
  <2>2. UNCHANGED <<kind, calls>>
    BY <1>4 DEF ConsoleNext
  <2>. QED
    BY <1>4, <2>1, <2>2 DEF registry, list, uses, gateway, records, channels,
       RegistryTypeOK, RecordsTypeOK, ChannelsTypeOK
<1>5. CASE UNCHANGED vars
  BY <1>5 DEF vars, registry, list, uses, gateway, records, channels, console, ServerTypeOK,
     RegistryTypeOK, RecordsTypeOK, ChannelsTypeOK, PageTypeOK, OpsFit
<1>. QED
  BY <1>1, <1>2, <1>3, <1>4, <1>5 DEF Next

(* Every variable of the server and of the pages keeps its type, and what  *)
(* a service has still to do fits what it does. *)
THEOREM TypeCorrect == Spec => []TypeInv
<1>. QED
  BY InitTyped, TypeKept, PTL DEF Spec

-----------------------------------------------------------------------------
(* What the statements still to come rely on, one invariant per kind of    *)
(* thing. *)

(* A list has no statement to come for a tool that is not known, and a     *)
(* deletion that leaves the list alone is of a tool that is not in it. *)
ToolsInv ==
  /\ ListIsTools
  /\ kind = "tool" =>
       \A h \in Handlers :
         /\ Doing(h, "append") => Known(calls[h].item) /\ "owned" \in shape[calls[h].item]
         /\ Doing(h, "remove") => row[calls[h].item] = "deleted"
         /\ Doing(h, "drop") /\ ~calls[h].owned =>
              /\ Known(calls[h].item)
              /\ ~(Lives(calls[h].item) /\ "owned" \in shape[calls[h].item])

(* Nothing that is wanted, but for what was asked for too late, is about   *)
(* to be deleted. *)
CheckedInv ==
  /\ ReferencedIsKept
  /\ kind \in Checked =>
       \A h \in Handlers : Doing(h, "delete") =>
         \A r \in wanted \ raced : r[1] # calls[h].item

(* A gateway is written for a row that exists and removed for one that is  *)
(* archived for good. *)
NumbersInv ==
  /\ GatewayIsCurrent
  /\ kind = "number" =>
       \A h \in Handlers :
         /\ Doing(h, "store") \/ Doing(h, "write") => Known(calls[h].item)
         /\ Doing(h, "unlink") => row[calls[h].item] = "archived"

(* A value that was there when the variable was found goes only with it. *)
VariablesInv ==
  /\ ResolvedIsOwn
  /\ kind = "variable" =>
       /\ \A i \in Records : record[i] = "gone" => parts[i] = {}
       /\ \A h \in Handlers : Doing(h, "own") /\ calls[h].had =>
            record[calls[h].item] = "gone" \/ calls[h].env \in parts[calls[h].item]

(* A test is where it was put also when it is gone, and starts empty. *)
PartsInv ==
  /\ PartsFollow
  /\ kind = "test" =>
       \A i \in Records :
         /\ filed[i] = placed[i]
         /\ record[i] = "none" => parts[i] = {} /\ owed[i] = {}

(* One of the connected accounts is not about to be disconnected. *)
AccountsInv ==
  subscribed =>
    /\ kind = "account"
    /\ misheard \/ \E i \in Rows : Connected(i)
                     /\ \A g \in Handlers : ~(Doing(g, "disconnect") /\ calls[g].item = i)

(* What a page has edited of a list is what it showed of the list, less    *)
(* what its admin took out; so is what it sends. *)
PagesInv ==
  /\ EditsSurvive
  /\ kind = "page" =>
       \A h \in Pages :
         /\ \A c \in Lists \cap DOMAIN draft[h] : \A m \in base[h][c] :
              m \in draft[h][c] \/ <<c, m>> \in taken[h]
         /\ sending[h] # None =>
              /\ DOMAIN sending[h].patch \subseteq DOMAIN draft[h]
              /\ \A c \in Lists \cap DOMAIN sending[h].patch : \A m \in base[h][c] :
                   m \in sending[h].patch[c] \/ <<c, m>> \in taken[h]

-----------------------------------------------------------------------------
(* What can happen while one kind of thing is worked on. *)
LEMMA StepOfKind ==
  ASSUME TypeInv, [Next]_vars
  PROVE  /\ kind' = kind
         /\ kind = "tool" => UNCHANGED vars \/ \E h \in Handlers : ToolStep(h) \/ Fail(h)
         /\ kind \in Checked => UNCHANGED vars \/ \E h \in Handlers : CheckedStep(h) \/ Fail(h)
         /\ kind = "number" => UNCHANGED vars \/ \E h \in Handlers : NumberStep(h) \/ Fail(h)
         /\ kind = "variable" =>
              UNCHANGED vars \/ \E h \in Handlers : VariableStep(h) \/ RecordsFail(h)
         /\ kind = "test" => UNCHANGED vars \/ \E h \in Handlers : TestStep(h) \/ RecordsFail(h)
         /\ kind = "batch" => UNCHANGED vars \/ \E h \in Handlers : BatchStep(h) \/ RecordsFail(h)
         /\ kind = "widget" =>
              UNCHANGED vars \/ \E h \in Handlers : WidgetStep(h) \/ ChannelsFail(h)
         /\ kind = "account" =>
              UNCHANGED vars \/ \E h \in Handlers : AccountStep(h) \/ ChannelsFail(h)
         /\ kind = "page" => UNCHANGED vars \/ ConsoleNext
         /\ kind \notin ChannelKinds => UNCHANGED channels
         /\ kind # "page" => UNCHANGED console
<1>. USE DEF TypeInv
<1>1. CASE RegistryNext /\ UNCHANGED <<records, channels, console>>
  <2>1. PICK h \in Handlers : ToolStep(h) \/ CheckedStep(h) \/ NumberStep(h) \/ Fail(h)
    BY <1>1 DEF RegistryNext
  <2>2. /\ ToolStep(h) => kind = "tool"
        /\ CheckedStep(h) => kind \in Checked
        /\ NumberStep(h) => kind = "number"
        /\ Fail(h) => kind \in RegistryKinds
    BY RegistryKind DEF Fail
  <2>3. kind \in RegistryKinds
    BY <2>1, <2>2 DEF RegistryKinds
  <2>4. kind' = kind
    BY <2>1 DEF ToolStep, CreateTool, ReadOwner, DeleteMcpServer, AppendTool, DropTool,
       RemoveTool, ReadToolsConfig, PatchSystemTools, ReplaceToolsConfig, CheckedStep,
       CreateAuthConnection, CreateDocument, Create, DeleteAuthConnection, DeleteDocument,
       CheckRefs, NameConnection, AttachToAgent, DetachFromAgent, DeleteRow, NumberStep,
       CreateNumber, FindNumber, ArchiveNumber, StoreNumber, WriteGateway, RemoveGateway, Fail
  <2>. QED
    BY <1>1, <2>1, <2>2, <2>3, <2>4 DEF RegistryKinds, Checked, ChannelKinds
<1>2. CASE RecordsNext /\ UNCHANGED <<registry, channels, console>>
  <2>1. PICK h \in Handlers : VariableStep(h) \/ TestStep(h) \/ BatchStep(h) \/ RecordsFail(h)
    BY <1>2 DEF RecordsNext
  <2>2. /\ VariableStep(h) => kind = "variable"
        /\ TestStep(h) => kind = "test"
        /\ BatchStep(h) => kind = "batch"
        /\ RecordsFail(h) => kind \in RecordKinds
    BY RecordsKind DEF RecordsFail
  <2>3. kind \in RecordKinds /\ kind' = kind
    BY <1>2, <2>1, <2>2 DEF RecordKinds, RecordsNext
  <2>. QED
    BY <1>2, <2>1, <2>2, <2>3 DEF RecordKinds, Checked, ChannelKinds
<1>3. CASE ChannelsNext /\ UNCHANGED <<registry, records, console>>
  <2>1. PICK h \in Handlers : WidgetStep(h) \/ AccountStep(h) \/ ChannelsFail(h)
    BY <1>3 DEF ChannelsNext
  <2>2. /\ WidgetStep(h) => kind = "widget"
        /\ AccountStep(h) => kind = "account"
        /\ ChannelsFail(h) => kind \in ChannelKinds
    BY ChannelsKind DEF ChannelsFail
  <2>3. kind \in ChannelKinds /\ kind' = kind
    BY <1>3, <2>1, <2>2 DEF ChannelKinds, ChannelsNext
  <2>. QED
    BY <1>3, <2>1, <2>2, <2>3 DEF ChannelKinds, Checked
<1>4. CASE ConsoleNext /\ UNCHANGED <<registry, records, channels>>
  <2>1. kind = "page" /\ kind' = kind
    BY <1>4 DEF ConsoleNext
  <2>. QED
    BY <1>4, <2>1 DEF ChannelKinds, Checked
<1>5. CASE UNCHANGED vars
  BY <1>5 DEF vars
<1>. QED
  BY <1>1, <1>2, <1>3, <1>4, <1>5 DEF Next

LEMMA CallsAreNotNone ==
  ASSUME NEW op, NEW i, NEW to
  PROVE  [op |-> op, item |-> i] # None /\ [op |-> op, item |-> i, to |-> to] # None
<1>1. /\ DOMAIN [op |-> op, item |-> i] = {"op", "item"}
      /\ DOMAIN [op |-> op, item |-> i, to |-> to] = {"op", "item", "to"}
      /\ DOMAIN None = {}
  BY DEF None
<1>. QED
  BY <1>1

-----------------------------------------------------------------------------
(* The agent's list of tools. *)
LEMMA ToolsKept == TypeInv /\ ToolsInv /\ [Next]_vars => ToolsInv'
<1>. SUFFICES ASSUME TypeInv, ToolsInv, [Next]_vars, kind = "tool" PROVE ToolsInv'
  BY StepOfKind DEF ToolsInv, ListIsTools
<1>1. kind' = "tool" /\ calls \in [Handlers -> Call \cup {None}]
  BY StepOfKind DEF TypeInv, RegistryTypeOK, RegistryKinds
<1>2. \A g \in Handlers : calls[g] # None => calls[g].op \in {"append", "remove", "drop", "patch"}
  BY DEF TypeInv, OpsFit, Checked
<1>. USE <1>1, <1>2 DEF ToolsInv, ListIsTools, Unsettled, Known, Lives, TypeInv, RegistryTypeOK,
         list, uses, gateway, Takes, Becomes, Goes, Answers, Doing, Call
<1>3. ASSUME NEW h \in Handlers, NEW i \in Items, CreateTool(h, i) PROVE ToolsInv'
  <2>1. PICK s \in SUBSET {"owned", "mcp"} :
          /\ shape' = [shape EXCEPT ![i] = s]
          /\ Becomes(h, IF "owned" \in s THEN [op |-> "append", item |-> i] ELSE None)
    BY <1>3 DEF CreateTool
  <2>2. calls[h] = None /\ ~Known(i) /\ row' = [row EXCEPT ![i] = "active"]
        /\ UNCHANGED <<attached, astray>>
    BY <1>3 DEF CreateTool
  <2>3. \A g \in Handlers \ {h} : calls'[g] = calls[g]
    BY <2>1
  <2>4. calls'[h] = IF "owned" \in s THEN [op |-> "append", item |-> i] ELSE None
    BY <2>1
  <2>5. ASSUME NEW j \in Items
        PROVE  Unsettled(j)' \/ j \in astray'
                 \/ (j \in attached' <=> Lives(j)' /\ "owned" \in shape'[j])
    <3>1. Unsettled(j) => Unsettled(j)'
      BY <2>2, <2>3
    <3>2. CASE j = i
      <4>1. ~Unsettled(i)
        BY <2>2
      <4>2. CASE "owned" \in s
        BY <2>4, <3>2, <4>2, CallsAreNotNone
      <4>3. CASE "owned" \notin s
        BY <2>1, <2>2, <3>2, <4>1, <4>3
      <4>. QED
        BY <4>2, <4>3
    <3>3. CASE j # i
      BY <2>1, <2>2, <3>1, <3>3
    <3>. QED
      BY <3>2, <3>3
  <2>6. \A g \in Handlers :
          /\ Doing(g, "append")' => Known(calls[g].item)' /\ "owned" \in shape'[calls'[g].item]
          /\ Doing(g, "remove")' => row'[calls'[g].item] = "deleted"
          /\ Doing(g, "drop")' /\ ~calls'[g].owned =>
               /\ Known(calls[g].item)'
               /\ ~(Lives(calls[g].item)' /\ "owned" \in shape'[calls'[g].item])
    BY <2>1, <2>2, <2>3, <2>4
  <2>. QED
    BY <2>5, <2>6
<1>4. ASSUME NEW h \in Handlers, NEW i \in Items, ReadOwner(h, i) PROVE ToolsInv'
  BY <1>4 DEF ReadOwner
<1>5. ASSUME NEW h \in Handlers, NEW i \in Items, DeleteMcpServer(h, i) PROVE ToolsInv'
  BY <1>5 DEF DeleteMcpServer
<1>6. ASSUME NEW h \in Handlers, AppendTool(h) PROVE ToolsInv'
  BY <1>6 DEF AppendTool
<1>7. ASSUME NEW h \in Handlers, DropTool(h) PROVE ToolsInv'
  <2>1. PICK i \in Items : i = calls[h].item
    BY <1>7 DEF DropTool
  <2>2. /\ calls[h] # None /\ calls[h].op = "drop" /\ UNCHANGED <<attached, shape, astray>>
        /\ row' = [row EXCEPT ![i] = "deleted"]
        /\ calls[h].owned \in BOOLEAN
    BY <1>7, <2>1 DEF DropTool
  <2>3. \A g \in Handlers \ {h} : calls'[g] = calls[g]
    BY <1>7 DEF DropTool
  <2>4. calls'[h] = IF calls[h].owned THEN [op |-> "remove", item |-> i] ELSE None
    BY <1>7, <2>1 DEF DropTool
  <2>5. \A j \in Items : Unsettled(j) => Unsettled(j)'
    BY <2>2, <2>3
  <2>6. ListIsTools'
    <3>1. calls[h].owned => Unsettled(i)'
      BY <2>4, CallsAreNotNone
    <3>2. ~calls[h].owned => ~(Lives(i) /\ "owned" \in shape[i])
      BY <2>1, <2>2
    <3>. QED
      BY <2>2, <2>5, <3>1, <3>2
  <2>7. \A g \in Handlers :
          /\ Doing(g, "append")' => Known(calls[g].item)' /\ "owned" \in shape'[calls'[g].item]
          /\ Doing(g, "remove")' => row'[calls'[g].item] = "deleted"
          /\ Doing(g, "drop")' /\ ~calls'[g].owned =>
               /\ Known(calls[g].item)'
               /\ ~(Lives(calls[g].item)' /\ "owned" \in shape'[calls'[g].item])
    BY <2>1, <2>2, <2>3, <2>4
  <2>. QED
    BY <2>6, <2>7
<1>8. ASSUME NEW h \in Handlers, RemoveTool(h) PROVE ToolsInv'
  BY <1>8 DEF RemoveTool
<1>9. ASSUME NEW h \in Handlers, ReadToolsConfig(h) PROVE ToolsInv'
  BY <1>9 DEF ReadToolsConfig
<1>10. ASSUME NEW h \in Handlers, PatchSystemTools(h) PROVE ToolsInv'
  BY <1>10 DEF PatchSystemTools
<1>11. ASSUME NEW h \in Handlers, ReplaceToolsConfig(h) PROVE ToolsInv'
  BY <1>11 DEF ReplaceToolsConfig
<1>12. ASSUME NEW h \in Handlers, Fail(h) PROVE ToolsInv'
  BY <1>12 DEF Fail
<1>13. CASE UNCHANGED vars
  BY <1>13 DEF vars, registry
<1>. QED
  BY <1>3, <1>4, <1>5, <1>6, <1>7, <1>8, <1>9, <1>10, <1>11, <1>12, <1>13, StepOfKind
     DEF ToolStep

-----------------------------------------------------------------------------
(* Connections and documents. *)
LEMMA CheckedKept == TypeInv /\ CheckedInv /\ [Next]_vars => CheckedInv'
<1>. SUFFICES ASSUME TypeInv, CheckedInv, [Next]_vars, kind \in Checked PROVE CheckedInv'
  BY StepOfKind DEF CheckedInv, ReferencedIsKept
<1>1. kind' = kind /\ calls \in [Handlers -> Call \cup {None}]
  BY StepOfKind DEF TypeInv, RegistryTypeOK, RegistryKinds
<1>2. \A g \in Handlers : calls[g] # None => calls[g].op = "delete" /\ calls[g].item \in Items
  <2>1. \A g \in Handlers : calls[g] # None => calls[g].op = "delete"
    BY DEF TypeInv, OpsFit, Checked
  <2>. QED
    BY <1>1, <2>1 DEF Call
<1>. USE <1>1, <1>2 DEF CheckedInv, ReferencedIsKept, Known, Lives, TypeInv, RegistryTypeOK,
         list, uses, gateway, Takes, Becomes, Goes, Answers, Doing
<1>3. ASSUME NEW h \in Handlers, NEW i \in Items, CreateAuthConnection(h, i) \/ CreateDocument(h, i)
      PROVE  CheckedInv'
  BY <1>3 DEF CreateAuthConnection, CreateDocument, Create
<1>4. ASSUME NEW h \in Handlers, NEW i \in Items,
             DeleteAuthConnection(h, i) \/ DeleteDocument(h, i)
      PROVE  CheckedInv'
  BY <1>4 DEF DeleteAuthConnection, DeleteDocument, CheckRefs
<1>5. ASSUME NEW h \in Handlers, NEW i \in Items, NEW u \in Users,
             NameConnection(h, i, u) \/ AttachToAgent(h, i, u) \/ DetachFromAgent(h, i, u)
      PROVE  CheckedInv'
  BY <1>5 DEF NameConnection, AttachToAgent, DetachFromAgent, Refer, TakeBack, Condemned
<1>6. ASSUME NEW h \in Handlers, DeleteRow(h) PROVE CheckedInv'
  BY <1>6 DEF DeleteRow
<1>7. ASSUME NEW h \in Handlers, Fail(h) PROVE CheckedInv'
  BY <1>7 DEF Fail
<1>8. CASE UNCHANGED vars
  BY <1>8 DEF vars, registry
<1>. QED
  BY <1>3, <1>4, <1>5, <1>6, <1>7, <1>8, StepOfKind DEF CheckedStep

-----------------------------------------------------------------------------
(* The gateways. *)
LEMMA NumbersKept == TypeInv /\ NumbersInv /\ [Next]_vars => NumbersInv'
<1>. SUFFICES ASSUME TypeInv, NumbersInv, [Next]_vars, kind = "number" PROVE NumbersInv'
  BY StepOfKind DEF NumbersInv, GatewayIsCurrent
<1>1. kind' = "number" /\ calls \in [Handlers -> Call \cup {None}]
  BY StepOfKind DEF TypeInv, RegistryTypeOK, RegistryKinds
<1>2. \A g \in Handlers : calls[g] # None =>
        calls[g].op \in {"unlink", "store", "write"} /\ calls[g].item \in Items
  <2>1. \A g \in Handlers : calls[g] # None => calls[g].op \in {"unlink", "store", "write"}
    BY DEF TypeInv, OpsFit, Checked
  <2>. QED
    BY <1>1, <2>1 DEF Call
<1>. USE <1>1, <1>2 DEF NumbersInv, GatewayIsCurrent, Unsettled, Known, Lives, TypeInv,
         RegistryTypeOK, list, uses, gateway, Takes, Becomes, Goes, Answers, Doing, Upserts
<1>3. ASSUME NEW h \in Handlers, NEW i \in Items, CreateNumber(h, i) PROVE NumbersInv'
  <2>1. PICK to \in Addresses \cup {None} :
          address' = [address EXCEPT ![i] = to] /\ Upserts(h, i, to)
    BY <1>3 DEF CreateNumber
  <2>2. calls[h] = None /\ ~Known(i) /\ row' = [row EXCEPT ![i] = "active"]
        /\ UNCHANGED <<file, astray>>
    BY <1>3 DEF CreateNumber
  <2>3. \A g \in Handlers \ {h} : calls'[g] = calls[g]
    BY <2>1
  <2>4. calls'[h] = IF to = None THEN None ELSE [op |-> "write", item |-> i, to |-> to]
    BY <2>1
  <2>5. \A j \in Items : Unsettled(j) => Unsettled(j)'
    BY <2>2, <2>3
  <2>6. ~Unsettled(i) /\ (to # None => Unsettled(i)')
    BY <2>2, <2>4, CallsAreNotNone
  <2>7. GatewayIsCurrent'
    BY <2>1, <2>2, <2>5, <2>6
  <2>8. \A g \in Handlers :
          /\ Doing(g, "store")' \/ Doing(g, "write")' => Known(calls[g].item)'
          /\ Doing(g, "unlink")' => row'[calls'[g].item] = "archived"
    BY <2>2, <2>3, <2>4
  <2>. QED
    BY <2>7, <2>8
<1>4. ASSUME NEW h \in Handlers, NEW i \in Items, FindNumber(h, i) PROVE NumbersInv'
  BY <1>4 DEF FindNumber
<1>5. ASSUME NEW h \in Handlers, NEW i \in Items, ArchiveNumber(h, i) PROVE NumbersInv'
  <2>1. calls[h] = None /\ row' = [row EXCEPT ![i] = "archived"]
        /\ UNCHANGED <<address, file, astray>>
    BY <1>5 DEF ArchiveNumber
  <2>2. (\A g \in Handlers \ {h} : calls'[g] = calls[g])
        /\ calls'[h] = [op |-> "unlink", item |-> i]
    BY <1>5 DEF ArchiveNumber
  <2>3. \A j \in Items : Unsettled(j) => Unsettled(j)'
    BY <2>1, <2>2
  <2>4. Unsettled(i)'
    BY <2>2, CallsAreNotNone
  <2>5. GatewayIsCurrent'
    BY <2>1, <2>3, <2>4
  <2>6. \A g \in Handlers :
          /\ Doing(g, "store")' \/ Doing(g, "write")' => Known(calls[g].item)'
          /\ Doing(g, "unlink")' => row'[calls'[g].item] = "archived"
    BY <2>1, <2>2
  <2>. QED
    BY <2>5, <2>6
<1>6. ASSUME NEW h \in Handlers, StoreNumber(h) PROVE NumbersInv'
  <2>. PICK i \in Items : i = calls[h].item
    BY <1>6 DEF StoreNumber
  <2>. DEFINE to == IF calls[h].change THEN calls[h].to ELSE address[i]
  <2>1. /\ calls[h] # None /\ calls[h].op = "store"
        /\ address' = [address EXCEPT ![i] = to]
        /\ astray' = IF to = None THEN astray \cup {i} ELSE astray
        /\ Upserts(h, i, to)
        /\ UNCHANGED <<row, file>>
    BY <1>6 DEF StoreNumber
  <2>. HIDE DEF to
  <2>2. (\A g \in Handlers \ {h} : calls'[g] = calls[g])
        /\ calls'[h] = IF to = None THEN None ELSE [op |-> "write", item |-> i, to |-> to]
    BY <2>1
  <2>3. \A j \in Items : Unsettled(j) => Unsettled(j)'
    BY <2>1, <2>2
  <2>4. to # None => Unsettled(i)'
    BY <2>2, CallsAreNotNone
  <2>5. GatewayIsCurrent'
    BY <2>1, <2>3, <2>4
  <2>6. \A g \in Handlers :
          /\ Doing(g, "store")' \/ Doing(g, "write")' => Known(calls[g].item)'
          /\ Doing(g, "unlink")' => row'[calls'[g].item] = "archived"
    BY <2>1, <2>2
  <2>. QED
    BY <2>5, <2>6
<1>7. ASSUME NEW h \in Handlers, WriteGateway(h) PROVE NumbersInv'
  BY <1>7 DEF WriteGateway
<1>8. ASSUME NEW h \in Handlers, RemoveGateway(h) PROVE NumbersInv'
  BY <1>8 DEF RemoveGateway
<1>9. ASSUME NEW h \in Handlers, Fail(h) PROVE NumbersInv'
  BY <1>9 DEF Fail
<1>10. CASE UNCHANGED vars
  BY <1>10 DEF vars, registry
<1>. QED
  BY <1>3, <1>4, <1>5, <1>6, <1>7, <1>8, <1>9, <1>10, StepOfKind DEF NumberStep

-----------------------------------------------------------------------------
(* Environment variables. *)
LEMMA VariablesKept == TypeInv /\ VariablesInv /\ [Next]_vars => VariablesInv'
<1>. SUFFICES ASSUME TypeInv, VariablesInv, [Next]_vars, kind = "variable" PROVE VariablesInv'
  BY StepOfKind DEF VariablesInv, ResolvedIsOwn
<1>1. kind' = "variable" /\ calls \in [Handlers -> RecordCall \cup {None}]
  BY StepOfKind DEF TypeInv, RecordsTypeOK, RecordKinds
<1>2. \A g \in Handlers : Doing(g, "own") =>
        /\ calls[g] \in [op : {"own"}, item : Records, env : Environments, had : BOOLEAN]
        /\ calls[g].item \in Records
  BY <1>1 DEF Doing, RecordCall
<1>3. \A g \in Handlers : Doing(g, "fallback") => calls[g].item \in Records
  BY <1>1 DEF Doing, RecordCall
<1>. USE <1>1, <1>2, <1>3 DEF VariablesInv, ResolvedIsOwn, TypeInv, RecordsTypeOK, records,
         Takes, Becomes, Goes, Answers, Doing, Exists
<1>4. ASSUME NEW h \in Handlers, CreateVariable(h) PROVE VariablesInv'
  BY <1>4 DEF CreateVariable
<1>5. ASSUME NEW h \in Handlers, NEW i \in Records, InsertVariable(h, i) PROVE VariablesInv'
  BY <1>5 DEF InsertVariable, Becoming
<1>6. ASSUME NEW h \in Handlers, NEW i \in Records, FindVariable(h, i) PROVE VariablesInv'
  BY <1>6 DEF FindVariable
<1>7. ASSUME NEW h \in Handlers, RenameVariable(h) PROVE VariablesInv'
  BY <1>7 DEF RenameVariable, ToFill, Becoming, RecordCall
<1>8. ASSUME NEW h \in Handlers, FillValue(h) PROVE VariablesInv'
  BY <1>8 DEF FillValue, Gaining, RecordCall
<1>9. ASSUME NEW h \in Handlers, ForgetVariable(h) PROVE VariablesInv'
  BY <1>9 DEF ForgetVariable, Becoming, RecordCall
<1>10. ASSUME NEW h \in Handlers, NEW i \in Records, LookUp(h, i) PROVE VariablesInv'
  <2>1. PICK env \in Environments :
          Becomes(h, [op |-> "own", item |-> i, env |-> env, had |-> env \in parts[i]])
    BY <1>10 DEF LookUp
  <2>2. PICK c : /\ Becomes(h, c) /\ c.op = "own" /\ c.item = i /\ c.env = env
                 /\ c.had => env \in parts[i]
    <3>1. ASSUME NEW b \in BOOLEAN
          PROVE  LET c == [op |-> "own", item |-> i, env |-> env, had |-> b] IN
                 c.op = "own" /\ c.item = i /\ c.env = env /\ c.had = b
      OBVIOUS
    <3>2. (env \in parts[i]) \in BOOLEAN
      OBVIOUS
    <3>. QED
      BY <2>1, <3>1, <3>2, Zenon
  <2>. QED
    BY <1>10, <2>2 DEF LookUp
<1>11. ASSUME NEW h \in Handlers, ReadOwn(h) PROVE VariablesInv'
  BY <1>11 DEF ReadOwn
<1>12. ASSUME NEW h \in Handlers, ReadProduction(h) PROVE VariablesInv'
  BY <1>12 DEF ReadProduction
<1>13. ASSUME NEW h \in Handlers, RecordsFail(h) PROVE VariablesInv'
  BY <1>13 DEF RecordsFail
<1>14. CASE UNCHANGED vars
  BY <1>14 DEF vars
<1>. QED
  BY <1>4, <1>5, <1>6, <1>7, <1>8, <1>9, <1>10, <1>11, <1>12, <1>13, <1>14, StepOfKind
     DEF VariableStep

-----------------------------------------------------------------------------
(* Tests and batch calls. *)
LEMMA TestPartsKept == TypeInv /\ PartsInv /\ kind = "test" /\ [Next]_vars => PartsInv'
<1>. SUFFICES ASSUME TypeInv, PartsInv, [Next]_vars, kind = "test" PROVE PartsInv'
  OBVIOUS
<1>1. kind' = "test" /\ calls \in [Handlers -> RecordCall \cup {None}]
  BY StepOfKind DEF TypeInv, RecordsTypeOK, RecordKinds
<1>2. \A g \in Handlers, op \in {"attach", "file", "strip", "erase"} :
        Doing(g, op) => calls[g].item \in Records
  BY <1>1 DEF Doing, RecordCall
<1>. USE <1>1, <1>2 DEF PartsInv, PartsFollow, HalfDone, TypeInv, RecordsTypeOK, records,
         Takes, Becomes, Goes, Answers, Doing, Exists
<1>3. ASSUME NEW h \in Handlers, NEW i \in Records, CreateTest(h, i) PROVE PartsInv'
  <2>1. PICK f \in Places : Filing(i, f)
    BY <1>3 DEF CreateTest
  <2>2. PICK c : Becomes(h, c) /\ (c # None => c.op = "attach")
    BY <1>3 DEF CreateTest
  <2>3. /\ calls[h] = None /\ record[i] = "none" /\ Becoming(i, "live")
        /\ UNCHANGED <<parts, owed, cut>>
    BY <1>3 DEF CreateTest
  <2>4. \A j \in Records : HalfDone(j) => HalfDone(j)'
    BY <2>2, <2>3
  <2>5. \A j \in Records : filed'[j] = placed'[j]
    BY <2>1 DEF Filing
  <2>6. parts[i] = {} /\ owed[i] = {} /\ UNCHANGED <<parts, owed, cut>>
    BY <2>3
  <2>7. \A j \in Records : j # i => record'[j] = record[j]
    BY <2>3 DEF Becoming
  <2>. HIDE DEF HalfDone
  <2>. QED
    BY <2>4, <2>5, <2>6, <2>7
<1>4. ASSUME NEW h \in Handlers, NEW i \in Records, CloneTemplate(h, i) PROVE PartsInv'
  BY <1>4 DEF CloneTemplate, Becoming, Filing
<1>5. ASSUME NEW h \in Handlers, NEW i \in Records, FindTest(h, i) PROVE PartsInv'
  BY <1>5 DEF FindTest
<1>6. ASSUME NEW h \in Handlers, NEW i \in Records, NEW u \in Parties, DetachTest(h, i, u)
      PROVE  PartsInv'
  BY <1>6 DEF DetachTest
<1>7. ASSUME NEW h \in Handlers, AttachTest(h) PROVE PartsInv'
  <2>1. PICK i \in Records : i = calls[h].item /\ calls[h] # None /\ calls[h].op = "attach"
    BY <1>7 DEF AttachTest
  <2>2. \A j \in Records : HalfDone(j) => HalfDone(j)'
    BY <1>7, <2>1 DEF AttachTest
  <2>3. \A j \in Records : parts[j] = owed[j] => parts'[j] = owed'[j]
    <3>1. CASE Exists(i)
      <4>1. /\ parts' = [parts EXCEPT ![i] = @ \cup {calls[h].user}]
            /\ owed' = [owed EXCEPT ![i] = @ \cup {calls[h].user}]
        BY <1>7, <2>1, <3>1 DEF AttachTest, Gaining
      <4>2. \A j \in Records : IF j = i THEN /\ parts'[j] = parts[j] \cup {calls[h].user}
                                             /\ owed'[j] = owed[j] \cup {calls[h].user}
                               ELSE parts'[j] = parts[j] /\ owed'[j] = owed[j]
        BY <4>1
      <4>. QED
        BY <4>2, Zenon
    <3>2. CASE ~Exists(i)
      BY <1>7, <2>1, <3>2 DEF AttachTest
    <3>. QED
      BY <3>1, <3>2
  <2>4. \A j \in Records : record[j] = "none" => parts'[j] = parts[j] /\ owed'[j] = owed[j]
    BY <1>7, <2>1 DEF AttachTest, Gaining
  <2>5. UNCHANGED <<record, filed, placed, cut>>
    BY <1>7 DEF AttachTest
  <2>. QED
    BY <2>2, <2>3, <2>4, <2>5
<1>8. ASSUME NEW h \in Handlers, FileTest(h) PROVE PartsInv'
  BY <1>8 DEF FileTest, Filing
<1>9. ASSUME NEW h \in Handlers, StripTest(h) PROVE PartsInv'
  BY <1>9, CallsAreNotNone DEF StripTest
<1>10. ASSUME NEW h \in Handlers, EraseTest(h) PROVE PartsInv'
  BY <1>10 DEF EraseTest, Becoming, Filing
<1>11. ASSUME NEW h \in Handlers, NEW f \in Folders, CreateFolder(h, f) PROVE PartsInv'
  BY <1>11 DEF CreateFolder
<1>12. ASSUME NEW h \in Handlers, NEW f \in Folders, EmptyFolder(h, f) PROVE PartsInv'
  BY <1>12 DEF EmptyFolder
<1>13. ASSUME NEW h \in Handlers, CloseFolder(h) PROVE PartsInv'
  BY <1>13 DEF CloseFolder
<1>14. ASSUME NEW h \in Handlers, RecordsFail(h) PROVE PartsInv'
  BY <1>14 DEF RecordsFail
<1>15. CASE UNCHANGED vars
  BY <1>15 DEF vars
<1>. QED
  BY <1>3, <1>4, <1>5, <1>6, <1>7, <1>8, <1>9, <1>10, <1>11, <1>12, <1>13, <1>14, <1>15,
     StepOfKind DEF TestStep

LEMMA BatchPartsKept == TypeInv /\ PartsInv /\ kind = "batch" /\ [Next]_vars => PartsInv'
<1>. SUFFICES ASSUME TypeInv, PartsInv, [Next]_vars, kind = "batch" PROVE PartsInv'
  OBVIOUS
<1>1. kind' = "batch" /\ calls \in [Handlers -> RecordCall \cup {None}]
  BY StepOfKind DEF TypeInv, RecordsTypeOK, RecordKinds
<1>2. \A g \in Handlers : calls[g] # None => calls[g].op = "recall" /\ calls[g].item \in Records
  <2>1. \A g \in Handlers : calls[g] # None => calls[g].op = "recall"
    BY DEF TypeInv, OpsFit, Checked
  <2>. QED
    BY <1>1, <2>1 DEF RecordCall
<1>. USE <1>1, <1>2 DEF PartsInv, PartsFollow, HalfDone, TypeInv, RecordsTypeOK, records,
         Takes, Becomes, Goes, Answers, Doing
<1>3. ASSUME NEW h \in Handlers, NEW i \in Records, CreateBatch(h, i) PROVE PartsInv'
  BY <1>3 DEF CreateBatch, Becoming, Gaining
<1>4. ASSUME NEW h \in Handlers, NEW i \in Records, CancelBatch(h, i) PROVE PartsInv'
  BY <1>4, CallsAreNotNone DEF CancelBatch, Becoming
<1>5. ASSUME NEW h \in Handlers, CancelRecipients(h) PROVE PartsInv'
  BY <1>5 DEF CancelRecipients
<1>6. ASSUME NEW h \in Handlers, RecordsFail(h) PROVE PartsInv'
  BY <1>6 DEF RecordsFail
<1>7. CASE UNCHANGED vars
  BY <1>7 DEF vars
<1>. QED
  BY <1>3, <1>4, <1>5, <1>6, <1>7, StepOfKind DEF BatchStep

LEMMA PartsKept == TypeInv /\ PartsInv /\ [Next]_vars => PartsInv'
<1>. SUFFICES ASSUME TypeInv, PartsInv, [Next]_vars, kind \notin {"test", "batch"}
              PROVE  PartsInv'
  BY TestPartsKept, BatchPartsKept
<1>. QED
  BY StepOfKind DEF PartsInv, PartsFollow

-----------------------------------------------------------------------------
(* The accounts and the subscription. *)
LEMMA AccountsKept == TypeInv /\ AccountsInv /\ [Next]_vars => AccountsInv'
<1>. SUFFICES ASSUME TypeInv, AccountsInv, [Next]_vars PROVE AccountsInv'
  OBVIOUS
<1>1. CASE kind # "account"
  <2>1. ~subscribed' \/ kind = "account"
    <3>1. CASE kind \notin ChannelKinds
      BY <3>1, <1>1, StepOfKind DEF channels, AccountsInv
    <3>2. CASE kind = "widget"
      <4>1. UNCHANGED vars \/ \E h \in Handlers : WidgetStep(h) \/ ChannelsFail(h)
        BY <3>2, StepOfKind
      <4>2. UNCHANGED subscribed
        BY <4>1 DEF vars, channels, ChannelsFail, WidgetStep, GetWidget, UpdateWidget,
           ApplyUpdate, CreateDefault, UploadAvatar, ApplyAvatar
      <4>. QED
        BY <1>1, <4>2 DEF AccountsInv
    <3>. QED
      BY <1>1, <3>1, <3>2 DEF ChannelKinds
  <2>. QED
    BY <1>1, <2>1 DEF AccountsInv
<1>2. CASE kind = "account"
  <2>1. kind' = "account" /\ calls \in [Handlers -> ChannelCall \cup {None}]
    BY <1>2, StepOfKind DEF TypeInv, ChannelsTypeOK, ChannelKinds
  <2>2. \A g \in Handlers : calls[g] # None => calls[g].item \in Rows
    <3>1. \A g \in Handlers : calls[g] # None =>
            calls[g].op \in {"subscribe", "unsubscribe", "disconnect", "send"}
      BY <1>2 DEF TypeInv, OpsFit, Checked
    <3>. QED
      BY <2>1, <3>1 DEF ChannelCall
  <2>. USE <1>2, <2>1, <2>2 DEF AccountsInv, Connected, TypeInv, ChannelsTypeOK, channels, Takes,
           Becomes, Goes, Answers, Proceeds, Setting, Doing
  <2>3. ASSUME NEW h \in Handlers, NEW i \in Rows, Connect(h, i) PROVE AccountsInv'
    BY <2>3 DEF Connect
  <2>4. ASSUME NEW h \in Handlers, NEW i \in Rows, UpdateAccount(h, i) PROVE AccountsInv'
    BY <2>4 DEF UpdateAccount
  <2>5. ASSUME NEW h \in Handlers, NEW i \in Rows, FindAccount(h, i) \/ SendTemplate(h, i)
        PROVE  AccountsInv'
    <3>1. PICK c : Becomes(h, c) /\ c.op # "disconnect"
      BY <2>5 DEF FindAccount, SendTemplate
    <3>2. UNCHANGED <<account, subscribed, misheard>>
      BY <2>5 DEF FindAccount, SendTemplate
    <3>. QED
      BY <3>1, <3>2
  <2>6. ASSUME NEW h \in Handlers, Subscribe(h) PROVE AccountsInv'
    <3>1. calls' = [calls EXCEPT ![h] = None] /\ UNCHANGED account
      BY <2>6 DEF Subscribe
    <3>2. \A g \in Handlers : Doing(g, "disconnect")' => Doing(g, "disconnect") /\ calls'[g] = calls[g]
      BY <3>1
    <3>3. CASE UNCHANGED <<subscribed, misheard>>
      BY <3>1, <3>2, <3>3
    <3>4. CASE subscribed' /\ misheard'
      BY <3>4
    <3>5. CASE /\ subscribed' /\ ~misheard' /\ Connected(calls[h].item)
               /\ \A g \in Handlers : ~(Doing(g, "disconnect") /\ calls[g].item = calls[h].item)
      <4>1. PICK i \in Rows : i = calls[h].item
        BY <2>6 DEF Subscribe
      <4>. QED
        BY <3>1, <3>2, <3>5, <4>1
    <3>. QED
      BY <2>6, <3>3, <3>4, <3>5 DEF Subscribe
  <2>7. ASSUME NEW h \in Handlers, Unsubscribe(h) PROVE AccountsInv'
    BY <2>7 DEF Unsubscribe
  <2>8. ASSUME NEW h \in Handlers, Disconnect(h) PROVE AccountsInv'
    BY <2>8 DEF Disconnect
  <2>9. ASSUME NEW h \in Handlers, TemplateSent(h) \/ ChannelsFail(h) PROVE AccountsInv'
    BY <2>9 DEF TemplateSent, ChannelsFail
  <2>10. CASE UNCHANGED vars
    BY <2>10 DEF vars
  <2>. QED
    BY <2>3, <2>4, <2>5, <2>6, <2>7, <2>8, <2>9, <2>10, StepOfKind DEF AccountStep
<1>. QED
  BY <1>1, <1>2

-----------------------------------------------------------------------------
(* The widget. *)
LEMMA SetAllSets ==
  ASSUME ChannelsTypeOK, NEW version \in 0..MaxCalls, NEW column \in {"style", "avatar"},
         SetAll(column, version)
  PROVE  /\ Widgets' = Widgets
         /\ \A i \in Widgets : /\ widget'[i][column] = version
                               /\ \A other \in {"style", "avatar"} \ {column} :
                                    widget'[i][other] = widget[i][other]
<1>1. \A i \in Widgets : widget[i] \in Settings
  BY DEF ChannelsTypeOK, Widgets
<1>2. ASSUME NEW s \in Settings
      PROVE  /\ [s EXCEPT ![column] = version] \in Settings
             /\ [s EXCEPT ![column] = version][column] = version
             /\ \A other \in {"style", "avatar"} \ {column} :
                  [s EXCEPT ![column] = version][other] = s[other]
  BY DEF Settings
<1>3. \A i \in Rows : widget'[i] = IF i \in Widgets THEN [widget[i] EXCEPT ![column] = version]
                                   ELSE None
  BY DEF SetAll
<1>4. Widgets' = Widgets
  <2>1. \A i \in Widgets : i \in Rows /\ widget'[i] \in Settings
    BY <1>1, <1>2, <1>3 DEF Widgets
  <2>2. \A i \in Rows \ Widgets : widget'[i] = None
    BY <1>3
  <2>. QED
    BY <2>1, <2>2, NotNone DEF Widgets
<1>5. ASSUME NEW i \in Widgets
      PROVE  \E s \in Settings : widget[i] = s /\ widget'[i] = [s EXCEPT ![column] = version]
  BY <1>1, <1>3 DEF Widgets
<1>6. ASSUME NEW i \in Widgets
      PROVE  /\ widget'[i][column] = version
             /\ \A other \in {"style", "avatar"} \ {column} : widget'[i][other] = widget[i][other]
  <2>1. PICK s \in Settings : widget[i] = s /\ widget'[i] = [s EXCEPT ![column] = version]
    BY <1>5
  <2>. QED
    BY <1>2, <2>1
<1>. QED
  BY <1>4, <1>6

LEMMA WidgetKept == TypeInv /\ WidgetHoldsSaved /\ [Next]_vars => WidgetHoldsSaved'
<1>. SUFFICES ASSUME TypeInv, WidgetHoldsSaved, [Next]_vars PROVE WidgetHoldsSaved'
  OBVIOUS
<1>1. DOMAIN saved = {"style", "avatar"} /\ DOMAIN saved' = {"style", "avatar"}
  BY TypeKept DEF TypeInv, ChannelsTypeOK, Settings
<1>2. CASE UNCHANGED <<widget, saved, unplaced>>
  BY <1>2 DEF WidgetHoldsSaved, Widgets
<1>3. CASE kind = "widget" /\ ~UNCHANGED vars
  <2>1. PICK h \in Handlers : WidgetStep(h) \/ ChannelsFail(h)
    BY <1>3, StepOfKind
  <2>2. calls \in [Handlers -> ChannelCall \cup {None}]
    BY <1>3 DEF TypeInv, ChannelsTypeOK, ChannelKinds
  <2>3. \A op \in {"update", "avatar", "default"} :
           Doing(h, op) => calls[h].version \in 0..MaxCalls
    BY <2>2 DEF Doing, ChannelCall
  <2>4. CASE GetWidget(h) \/ UpdateWidget(h) \/ UploadAvatar(h) \/ ChannelsFail(h)
    BY <1>2, <2>4 DEF GetWidget, UpdateWidget, UploadAvatar, ChannelsFail, channels
  <2>. DEFINE Sets(column) == /\ SetAll(column, calls[h].version)
                              /\ calls[h].version \in 0..MaxCalls
                              /\ saved' = [saved EXCEPT ![column] = calls[h].version]
                              /\ Widgets # {}
                              /\ unplaced' = IF column = "avatar" THEN FALSE ELSE unplaced
  <2>5. ASSUME NEW column \in {"style", "avatar"}, Sets(column) PROVE WidgetHoldsSaved'
    <3>1. /\ Widgets' = Widgets
          /\ \A i \in Widgets : /\ widget'[i][column] = calls[h].version
                                /\ \A other \in {"style", "avatar"} \ {column} :
                                     widget'[i][other] = widget[i][other]
      BY <2>5, SetAllSets DEF TypeInv
    <3>2. /\ saved'[column] = calls[h].version
          /\ \A other \in {"style", "avatar"} \ {column} : saved'[other] = saved[other]
      BY <1>1, <2>5
    <3>. QED
      BY <1>1, <2>5, <3>1, <3>2 DEF WidgetHoldsSaved
  <2>6. CASE ApplyUpdate(h)
    <3>1. CASE Widgets = {}
      BY <1>2, <2>6, <3>1 DEF ApplyUpdate
    <3>2. CASE Widgets # {}
      <4>1. Sets("style")
        BY <2>3, <2>6, <3>2 DEF ApplyUpdate
      <4>. QED
        BY <2>5, <4>1
    <3>. QED
      BY <3>1, <3>2
  <2>7. CASE ApplyAvatar(h)
    <3>1. CASE Widgets = {}
      <4>1. widget' = widget /\ Widgets' = {}
        BY <2>7, <3>1 DEF ApplyAvatar, SetAll, Widgets, TypeInv, ChannelsTypeOK
      <4>2. unplaced' /\ saved' = [saved EXCEPT !.avatar = calls[h].version]
        BY <2>7, <3>1 DEF ApplyAvatar
      <4>3. saved'["style"] = saved["style"]
        BY <1>1, <4>2
      <4>. QED
        BY <1>1, <3>1, <4>1, <4>2, <4>3 DEF WidgetHoldsSaved
    <3>2. CASE Widgets # {}
      <4>1. Sets("avatar")
        BY <2>3, <2>7, <3>2 DEF ApplyAvatar
      <4>. QED
        BY <2>5, <4>1
    <3>. QED
      BY <3>1, <3>2
  <2>8. ASSUME NEW i \in Rows, CreateDefault(h, i) PROVE WidgetHoldsSaved'
    <3>1. /\ widget[i] = None /\ widget' = [widget EXCEPT ![i] = Default]
          /\ UNCHANGED <<saved, unplaced>>
      BY <2>8 DEF CreateDefault
    <3>2. Default \in Settings
      BY ServerAssumption DEF ServerAssumption, Default, Settings
    <3>3. \A j \in Widgets : j \in Widgets' /\ widget'[j] = widget[j]
      BY <3>1 DEF Widgets, TypeInv, ChannelsTypeOK
    <3>4. \A j \in Widgets' : j \in Widgets \/ widget'[j] = Default
      BY <3>1 DEF Widgets, TypeInv, ChannelsTypeOK
    <3>. QED
      BY <1>1, <3>1, <3>3, <3>4 DEF WidgetHoldsSaved, Default
  <2>. QED
    BY <2>1, <2>4, <2>6, <2>7, <2>8 DEF WidgetStep
<1>4. kind # "widget" => UNCHANGED <<widget, saved, unplaced>>
  <2>1. CASE kind \notin ChannelKinds
    BY <2>1, StepOfKind DEF channels
  <2>2. CASE kind = "account"
    <3>1. UNCHANGED vars \/ \E h \in Handlers : AccountStep(h) \/ ChannelsFail(h)
      BY <2>2, StepOfKind
    <3>. QED
      BY <3>1 DEF vars, channels, ChannelsFail, AccountStep, Connect, UpdateAccount, FindAccount,
         SendTemplate, Subscribe, Unsubscribe, Disconnect, TemplateSent
  <2>. QED
    BY <2>1, <2>2 DEF ChannelKinds
<1>. QED
  BY <1>2, <1>3, <1>4 DEF vars, channels

-----------------------------------------------------------------------------
(* The agent page. *)
LEMMA EffectiveOf ==
  ASSUME PageTypeOK, NEW h \in Pages, NEW c \in Columns
  PROVE  Effective(h)[c] = IF c \in DOMAIN draft[h] THEN draft[h][c] ELSE shown[h][c]
<1>1. draft[h] \in Patches /\ shown[h] \in Configs
  BY DEF PageTypeOK
<1>2. c \in DOMAIN draft[h] \cup DOMAIN shown[h]
  BY <1>1 DEF Configs
<1>. QED
  BY <1>2 DEF Effective, Over

(* An edit of a list takes out of what was shown only what is then noted   *)
(* as taken. *)
LEMMA EditKept ==
  ASSUME PageTypeOK, PagesInv, kind = "page", kind' = "page", NEW h \in Pages, NEW c \in Columns,
         NEW value \in SUBSET Members, Change(h, c, value),
         mine' \in [Pages -> SUBSET (Columns \X Members)],
         \A g \in Pages : taken[g] \subseteq taken'[g],
         \A g \in Pages \ {h} : mine'[g] = mine[g],
         \A e \in mine'[h] : IF e[1] = c THEN e[2] \in value ELSE e \in mine[h],
         c \in Lists =>
           \A m \in Effective(h)[c] : m \in value \/ <<c, m>> \in taken'[h]
  PROVE  PagesInv'
<1>1. /\ \A g \in Pages \ {h} : draft'[g] = draft[g]
      /\ DOMAIN draft'[h] = DOMAIN draft[h] \cup {c}
      /\ draft'[h][c] = value
      /\ \A d \in DOMAIN draft[h] \ {c} : draft'[h][d] = draft[h][d]
  BY Changed
<1>2. UNCHANGED sending
  BY DEF Change
<1>3. /\ \A g \in Pages \ {h} : base'[g] = base[g]
      /\ \A d \in DOMAIN draft[h] : base'[h][d] = base[h][d]
      /\ c \notin DOMAIN draft[h] => base'[h][c] = shown[h][c]
  BY DEF Change, PageTypeOK, Configs
<1>4. EditsSurvive'
  <2>. SUFFICES ASSUME NEW g \in Pages, NEW e \in mine'[g]
                PROVE  e[1] \in DOMAIN draft'[g] /\ e[2] \in draft'[g][e[1]]
    BY DEF EditsSurvive
  <2>1. CASE g # h
    BY <1>1, <2>1 DEF PagesInv, EditsSurvive
  <2>2. CASE g = h /\ e[1] = c
    BY <1>1, <2>2
  <2>3. CASE g = h /\ e[1] # c
    BY <1>1, <2>3 DEF PagesInv, EditsSurvive
  <2>. QED
    BY <2>1, <2>2, <2>3
<1>5. ASSUME NEW g \in Pages, NEW d \in Lists \cap DOMAIN draft'[g], NEW m \in base'[g][d]
      PROVE  m \in draft'[g][d] \/ <<d, m>> \in taken'[g]
  <2>1. CASE g # h
    BY <1>1, <1>3, <1>5, <2>1 DEF PagesInv
  <2>2. CASE g = h /\ d # c
    BY <1>1, <1>3, <1>5, <2>2 DEF PagesInv
  <2>3. CASE g = h /\ d = c
    <3>1. m \in Effective(h)[c] \/ <<c, m>> \in taken[h]
      BY <1>3, <1>5, <2>3, EffectiveOf DEF PagesInv
    <3>. QED
      BY <1>1, <2>3, <3>1
  <2>. QED
    BY <2>1, <2>2, <2>3
<1>6. ASSUME NEW g \in Pages, sending'[g] # None
      PROVE  /\ DOMAIN sending'[g].patch \subseteq DOMAIN draft'[g]
             /\ \A d \in Lists \cap DOMAIN sending'[g].patch : \A m \in base'[g][d] :
                  m \in sending'[g].patch[d] \/ <<d, m>> \in taken'[g]
  BY <1>1, <1>2, <1>3, <1>6 DEF PagesInv
<1>. QED
  BY <1>4, <1>5, <1>6 DEF PagesInv

LEMMA PagesKept == TypeInv /\ PagesInv /\ [Next]_vars => PagesInv'
<1>. SUFFICES ASSUME TypeInv, PagesInv, [Next]_vars, kind = "page" PROVE PagesInv'
  BY StepOfKind DEF PagesInv, EditsSurvive
<1>1. kind' = "page" /\ PageTypeOK /\ PageTypeOK'
  BY StepOfKind, TypeKept DEF TypeInv
<1>. USE <1>1
<1>2. ASSUME NEW h \in Pages, NEW m \in Members, NEW c \in Texts, Enter(h, c, m)
      PROVE  PagesInv'
  <2>1. c \in Columns /\ c \notin Lists /\ {m} \in SUBSET Members
    BY DEF Columns, Texts, Lists
  <2>2. mine' = [mine EXCEPT ![h] = {e \in @ : e[1] # c} \cup {<<c, m>>}] /\ taken' = taken
    BY <1>2 DEF Enter
  <2>3. /\ \A e \in mine'[h] : IF e[1] = c THEN e[2] \in {m} ELSE e \in mine[h]
        /\ \A g \in Pages \ {h} : mine'[g] = mine[g]
    BY <2>2 DEF PageTypeOK
  <2>. QED
    BY <1>2, <2>1, <2>2, <2>3, EditKept DEF Enter, PageTypeOK
<1>3. ASSUME NEW h \in Pages, NEW m \in Members, NEW c \in Lists, Add(h, c, m)
      PROVE  PagesInv'
  <2>. DEFINE value == Effective(h)[c] \cup {m}
  <2>1. c \in Columns /\ value \in SUBSET Members /\ Change(h, c, value)
    BY <1>3, ShownTyped DEF Columns, Add, Added
  <2>2. mine' = [mine EXCEPT ![h] = @ \cup {<<c, m>>}] /\ taken' = taken
    BY <1>3 DEF Add
  <2>3. \A e \in mine[h] : e[1] = c => e[2] \in value
    BY <2>1, EffectiveOf DEF PagesInv, EditsSurvive
  <2>4. /\ \A e \in mine'[h] : IF e[1] = c THEN e[2] \in value ELSE e \in mine[h]
        /\ \A g \in Pages \ {h} : mine'[g] = mine[g]
    BY <2>2, <2>3 DEF PageTypeOK
  <2>5. \A x \in Effective(h)[c] : x \in value
    OBVIOUS
  <2>. HIDE DEF value
  <2>. QED
    BY <2>1, <2>2, <2>4, <2>5, EditKept DEF PageTypeOK
<1>4. ASSUME NEW h \in Pages, NEW m \in Members, NEW c \in Lists, Remove(h, c, m)
      PROVE  PagesInv'
  <2>. DEFINE value == Effective(h)[c] \ {m}
  <2>1. c \in Columns /\ value \in SUBSET Members /\ Change(h, c, value)
    BY <1>4, ShownTyped DEF Columns, Remove
  <2>2. /\ mine' = [mine EXCEPT ![h] = @ \ {<<c, m>>}]
        /\ taken' = [taken EXCEPT ![h] = @ \cup {<<c, m>>}]
    BY <1>4 DEF Remove
  <2>3. \A e \in mine[h] : e[1] = c => e[2] \in Effective(h)[c] /\ e = <<c, e[2]>>
    BY <2>1, EffectiveOf DEF PagesInv, EditsSurvive, PageTypeOK
  <2>4. /\ \A e \in mine'[h] : IF e[1] = c THEN e[2] \in value ELSE e \in mine[h]
        /\ \A g \in Pages \ {h} : mine'[g] = mine[g]
    BY <2>2, <2>3 DEF PageTypeOK
  <2>5. /\ \A x \in Effective(h)[c] : x \in value \/ <<c, x>> \in taken'[h]
        /\ \A g \in Pages : taken[g] \subseteq taken'[g]
    BY <2>2 DEF PageTypeOK
  <2>. HIDE DEF value
  <2>. QED
    BY <2>1, <2>2, <2>4, <2>5, EditKept DEF PageTypeOK
<1>5. ASSUME NEW h \in Pages, Save(h) PROVE PagesInv'
  <2>1. /\ sending' = [sending EXCEPT ![h] = [patch |-> draft[h], stored |-> FALSE]]
        /\ UNCHANGED <<draft, mine, base, taken>>
    BY <1>5 DEF Save
  <2>2. \A g \in Pages : IF g = h THEN sending'[g].patch = draft[g] ELSE sending'[g] = sending[g]
    BY <2>1 DEF PageTypeOK
  <2>. QED
    BY <2>1, <2>2 DEF PagesInv, EditsSurvive
<1>6. ASSUME NEW h \in Pages, Store(h) PROVE PagesInv'
  <2>1. /\ sending[h] # None /\ sending' = [sending EXCEPT ![h].stored = TRUE]
        /\ UNCHANGED <<draft, mine, base, taken>>
    BY <1>6 DEF Store, InFlight
  <2>2. sending[h] \in [patch : Patches, stored : BOOLEAN]
    BY <2>1 DEF PageTypeOK
  <2>3. \A g \in Pages : sending[g] # None => sending'[g].patch = sending[g].patch
    BY <2>1, <2>2 DEF PageTypeOK
  <2>4. \A g \in Pages : sending'[g] # None => sending[g] # None
    BY <2>1, <2>2 DEF PageTypeOK
  <2>. QED
    BY <2>1, <2>3, <2>4 DEF PagesInv, EditsSurvive
<1>7. ASSUME NEW h \in Pages, Saved(h) PROVE PagesInv'
  <2>1. /\ draft' = [draft EXCEPT ![h] = <<>>] /\ mine' = [mine EXCEPT ![h] = {}]
        /\ base' = [base EXCEPT ![h] = Blank] /\ taken' = [taken EXCEPT ![h] = {}]
        /\ sending' = [sending EXCEPT ![h] = None]
    BY <1>7 DEF Saved, Ends
  <2>2. DOMAIN <<>> = {}
    OBVIOUS
  <2>. QED
    BY <2>1, <2>2 DEF PagesInv, EditsSurvive, PageTypeOK
<1>8. ASSUME NEW h \in Pages, SaveFails(h) \/ Fetch(h) PROVE PagesInv'
  BY <1>8 DEF SaveFails, Fetch, Ends, PagesInv, EditsSurvive, PageTypeOK
<1>9. CASE UNCHANGED vars
  BY <1>9 DEF vars, console, PagesInv, EditsSurvive
<1>10. CASE ConsoleNext
  BY <1>2, <1>3, <1>4, <1>5, <1>6, <1>7, <1>8, <1>10, EditForms DEF ConsoleNext
<1>. QED
  BY <1>9, <1>10, StepOfKind

-----------------------------------------------------------------------------
(* The inductive invariant, and what follows. *)
IInv ==
  /\ TypeInv
  /\ ToolsInv
  /\ CheckedInv
  /\ NumbersInv
  /\ VariablesInv
  /\ PartsInv
  /\ WidgetHoldsSaved
  /\ AccountsInv
  /\ PagesInv

LEMMA InvInit == Init => IInv
<1>. SUFFICES ASSUME Init PROVE IInv
  OBVIOUS
<1>. USE DEF Init, ServerInit, Doing
<1>1. TypeInv
  BY InitTyped
<1>2. ToolsInv /\ CheckedInv /\ NumbersInv
  BY DEF RegistryInit, ToolsInv, ListIsTools, CheckedInv, ReferencedIsKept, NumbersInv,
     GatewayIsCurrent, Lives
<1>3. VariablesInv /\ PartsInv
  BY DEF RecordsInit, VariablesInv, ResolvedIsOwn, PartsInv, PartsFollow
<1>4. WidgetHoldsSaved /\ AccountsInv
  BY DEF ChannelsInit, WidgetHoldsSaved, Widgets, Default, AccountsInv
<1>5. PagesInv
  <2>1. DOMAIN <<>> = {}
    OBVIOUS
  <2>. QED
    BY <2>1 DEF ConsoleInit, PagesInv, EditsSurvive
<1>. QED
  BY <1>1, <1>2, <1>3, <1>4, <1>5 DEF IInv

LEMMA InvKept == IInv /\ [Next]_vars => IInv'
BY TypeKept, ToolsKept, CheckedKept, NumbersKept, VariablesKept, PartsKept, WidgetKept,
   AccountsKept, PagesKept DEF IInv

LEMMA InvHolds == Spec => []IInv
<1>. QED
  BY InvInit, InvKept, PTL DEF Spec

(* tools.service.ts and phone-numbers.service.ts: an agent's list of tools *)
(* and a number's gateway file agree with the rows between requests,       *)
(* however many requests run between each other's statements, but for what *)
(* is known to have gone astray. *)
THEOREM SecondCopyAgreed == Spec => []SecondCopyAgrees
<1>. IInv => SecondCopyAgrees
  BY DEF IInv, ToolsInv, NumbersInv, SecondCopyAgrees
<1>. QED
  BY InvHolds, PTL

(* settings.service.ts and knowledge-base.service.ts: what is referred to  *)
(* is not deleted, except through a reference made after the count. *)
THEOREM ReferencedKept == Spec => []ReferencedIsKept
<1>. IInv => ReferencedIsKept
  BY DEF IInv, CheckedInv
<1>. QED
  BY InvHolds, PTL

(* env-vars.service.ts: production's value is not taken for an environment *)
(* that has one. *)
THEOREM ResolvedOwn == Spec => []ResolvedIsOwn
<1>. IInv => ResolvedIsOwn
  BY DEF IInv, VariablesInv
<1>. QED
  BY InvHolds, PTL

(* tests.service.ts and batch-calls.service.ts: the parts of a record      *)
(* follow it. *)
THEOREM PartsFollowed == Spec => []PartsFollow
<1>. IInv => PartsFollow
  BY DEF IInv, PartsInv
<1>. QED
  BY InvHolds, PTL

(* widget.service.ts and whatsapp.service.ts: what was saved is shown, and *)
(* Meta forwards what a connected account receives. *)
THEOREM ChannelsAgreed == Spec => []ChannelsAgree
<1>. IInv => ChannelsAgree
  BY DEF IInv, AccountsInv, SubscribedIsListed, ChannelsAgree
<1>. QED
  BY InvHolds, PTL

(* page.tsx: what was entered on any tab stays in the draft until a save   *)
(* is answered. *)
THEOREM EditsSurvived == Spec => []EditsSurvive
<1>. IInv => EditsSurvive
  BY DEF IInv, PagesInv
<1>. QED
  BY InvHolds, PTL

(* page.tsx: a save takes nothing out that its admin saw and left in. *)
THEOREM OthersKept == Spec => OthersAreKept
<1>. DEFINE Kept ==
       kind = "page" /\ stored' # stored =>
         \E h \in Pages :
           /\ InFlight(h, FALSE)
           /\ \A c \in Columns :
                /\ stored'[c] # stored[c] => c \in DOMAIN draft[h]
                /\ c \in Lists =>
                     \A m \in stored[c] \cap base[h][c] :
                       m \in stored'[c] \/ <<c, m>> \in taken[h]
<1>1. IInv /\ [Next]_vars => [Kept]_stored
  <2>. SUFFICES ASSUME IInv, [Next]_vars, kind = "page", stored' # stored PROVE Kept
    OBVIOUS
  <2>1. PICK h \in Pages : Store(h)
    <3>1. ~UNCHANGED vars
      BY DEF vars, console
    <3>2. ConsoleNext
      BY <3>1, StepOfKind DEF IInv
    <3>. QED
      BY <3>2, EditForms DEF ConsoleNext, Enter, Add, Remove, Change, Save, Saved, SaveFails, Fetch
  <2>2. PageTypeOK /\ PagesInv
    BY DEF IInv, TypeInv
  <2>3. sending[h] \in [patch : Patches, stored : BOOLEAN] /\ InFlight(h, FALSE)
    BY <2>1, <2>2 DEF Store, InFlight, PageTypeOK
  <2>. DEFINE patch == sending[h].patch
  <2>4. \A c \in Columns : stored'[c] = IF c \in DOMAIN patch THEN patch[c] ELSE stored[c]
    <3>1. stored' = Over(patch, stored) /\ DOMAIN stored = Columns
      BY <2>1, <2>2 DEF Store, PageTypeOK, Configs
    <3>. QED
      BY <3>1 DEF Over
  <2>5. /\ DOMAIN patch \subseteq DOMAIN draft[h]
        /\ \A c \in Lists \cap DOMAIN patch : \A m \in base[h][c] :
             m \in patch[c] \/ <<c, m>> \in taken[h]
    BY <2>2, <2>3 DEF PagesInv, InFlight
  <2>. QED
    BY <2>3, <2>4, <2>5
<1>. QED
  BY <1>1, InvHolds, PTL DEF Spec, OthersAreKept
===============================================================================
