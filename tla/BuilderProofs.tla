----------------------------- MODULE BuilderProofs -----------------------------
(* Theorems about AgentBuilder, for any number of handlers, requests,      *)
(* versions and columns. *)
EXTENDS AgentBuilder, TLAPS

Freezes(h) == Doing(h, "publish") \/ Doing(h, "branch")
Targets(h) == Doing(h, "save") \/ Doing(h, "delete")

(* Before the agent is created there is nothing. *)
NotYet ==
  status = "none" =>
    /\ rows = [n \in Numbers |-> None]
    /\ calls = [h \in Handlers |-> None]
    /\ published = {}

(* A request has a number of its own, and what was saved is from a request *)
(* that has been asked. *)
Numbered ==
  /\ \A h \in Handlers : calls[h] # None => calls[h].no <= asked
  /\ \A g, h \in Handlers :
       calls[g] # None /\ calls[h] # None /\ calls[g].no = calls[h].no => g = h
  /\ \A c \in Columns : config[c] <= asked
  /\ \A n \in Numbers : rows[n] # None => rows[n].id <= asked
  /\ \A h \in Handlers : Targets(h) => calls[h].id <= asked
  /\ translator <= asked

(* A version_id is of one version, and is nobody's target before it is     *)
(* inserted. *)
OneId ==
  /\ \A m, n \in Numbers :
       rows[m] # None /\ rows[n] # None /\ rows[m].id = rows[n].id => m = n
  /\ \A h \in Handlers : Freezes(h) =>
       /\ \A n \in Numbers : rows[n] # None => rows[n].id # calls[h].no
       /\ \A g \in Handlers : Targets(g) => calls[g].id # calls[h].no

(* A deletion that passed its check is not of what publish made. *)
DeletesSpare ==
  \A h \in Handlers, n \in published : Doing(h, "delete") => rows[n].id # calls[h].id

KeptInv == PublishedKept /\ DeletesSpare

(* Whoever took or holds a number found every smaller one taken. *)
Taken(n) == rows[n] # None \/ n \in freed
Reached(n) ==
  \/ Taken(n)
  \/ \E h \in Handlers : Freezes(h) /\ calls[h].num = n

Gapless == \A m, n \in Numbers : n < m /\ Reached(m) => Taken(n)

(* A translation under way is of the message in use, or of one that was    *)
(* saved over after it was read. *)
TranslationInv ==
  /\ LocalizedIsCurrent
  /\ \A h \in Handlers : Doing(h, "translate") =>
       \/ calls[h].message = config["first_message"]
       \/ config["first_message"] > calls[h].no

(* The nodes a save has not found are of saves beside it. *)
GraphInv ==
  /\ GraphOfOneSave
  /\ \A h \in Handlers : Doing(h, "workflow") =>
       \A s \in graph \ calls[h].found : {s, calls[h].no} \in beside
  /\ \A g, h \in Handlers :
       Doing(g, "workflow") /\ Doing(h, "workflow") /\ g # h =>
         {calls[g].no, calls[h].no} \in beside

NumberInv == TypeOK /\ NotYet /\ Numbered /\ OneId
CurrentInv == Gapless /\ CurrentIsNewest
-----------------------------------------------------------------------------
(* What a request and a version are. *)
LEMMA CallIs ==
  ASSUME NEW r \in Call
  PROVE  /\ r # None /\ r.no \in Calls
         /\ r.op \in {"publish", "branch", "save", "delete", "translate", "workflow"}
         /\ r.op \in {"publish", "branch"} => r.snap \in Snapshot /\ r.num \in Numbers \cup {0}
         /\ r.op = "save" => r.id \in 0..MaxCalls /\ r.col \in Columns /\ r.snap \in Snapshot
         /\ r.op = "delete" => r.id \in 0..MaxCalls
         /\ r.op = "translate" => r.message \in 0..MaxCalls
         /\ r.op = "workflow" => r.found \in SUBSET Calls
<1>1. DOMAIN r # {}
  BY DEF Call
<1>2. r # None
  BY <1>1 DEF None
<1>. QED
  BY <1>2 DEF Call

LEMMA RowIs ==
  ASSUME NEW r \in Row
  PROVE  r # None /\ r.id \in 0..MaxCalls /\ r.snap \in Snapshot /\ r.live \in BOOLEAN
<1>1. DOMAIN r # {}
  BY DEF Row
<1>. QED
  BY <1>1 DEF Row, None

(* The steps of a request: its first, which gives it the next number, ...  *)
LEMMA Begins ==
  ASSUME TypeOK, NEW h \in Handlers, NEW call \in Call, Takes(h), Becomes(h, call)
  PROVE  /\ calls' \in [Handlers -> Call \cup {None}] /\ asked' \in 0..MaxCalls
         /\ asked' = asked + 1 /\ asked + 1 \in Calls
         /\ calls[h] = None /\ calls'[h] = call /\ status # "none"
         /\ \A g \in Handlers \ {h} : calls'[g] = calls[g]
BY BuilderAssumption DEF TypeOK, Takes, Becomes, Calls, BuilderAssumption

(* ... and its last. *)
LEMMA Ends ==
  ASSUME TypeOK, NEW h \in Handlers, Answers(h)
  PROVE  /\ calls' \in [Handlers -> Call \cup {None}] /\ asked' \in 0..MaxCalls
         /\ asked' = asked /\ calls'[h] = None
         /\ \A g \in Handlers \ {h} : calls'[g] = calls[g]
BY DEF TypeOK, Answers, Becomes

LEMMA AsksAtOnce ==
  ASSUME TypeOK, NEW h \in Handlers, AtOnce(h)
  PROVE  /\ calls' \in [Handlers -> Call \cup {None}] /\ asked' \in 0..MaxCalls
         /\ asked' = asked + 1 /\ asked + 1 \in Calls /\ calls' = calls /\ status # "none"
BY BuilderAssumption DEF TypeOK, AtOnce, Takes, Calls, BuilderAssumption

LEMMA NextIs ==
  ASSUME [Next]_vars
  PROVE  \/ UNCHANGED vars
         \/ InsertAgent
         \/ \E h \in Handlers :
              \/ Archive(h)
              \/ \E c \in Columns : SaveColumn(h, c)
              \/ ReadMessage(h) \/ StoreTranslation(h)
              \/ \E op \in {"publish", "branch"} : ReadConfig(h, op)
              \/ NextVersion(h) \/ Publish(h) \/ CreateBranch(h)
              \/ \E n \in Numbers, c \in Columns : ReadBranch(h, n, c)
              \/ \E n \in Numbers : PublishBranch(h, n) \/ CheckOffline(h, n)
              \/ UpdateBranchConfig(h) \/ DeleteBranch(h)
              \/ DeleteNodes(h) \/ SaveWorkflow(h)
              \/ Fail(h)
BY Zenon DEF Next, Create, CreateBlank, CreateViaWizard, UpdateConfig, UpdateRagConfig,
   UpdateAgentSecurity, AssignAgent

-----------------------------------------------------------------------------
(* The calls of each step are records again. *)
LEMMA Started ==
  ASSUME TypeOK, NEW h \in Handlers, Takes(h)
  PROVE  /\ \A op \in {"publish", "branch"} :
              [op |-> op, no |-> asked', snap |-> config, num |-> 0] \in Call
         /\ [op |-> "translate", no |-> asked', message |-> config["first_message"]] \in Call
         /\ \A n \in Numbers, c \in Columns : rows[n] # None =>
              [op |-> "save", no |-> asked', id |-> rows[n].id, col |-> c,
               snap |-> rows[n].snap] \in Call
         /\ \A n \in Numbers : rows[n] # None =>
              [op |-> "delete", no |-> asked', id |-> rows[n].id] \in Call
         /\ [op |-> "workflow", no |-> asked', found |-> graph] \in Call
<1>1. asked' \in Calls
  BY BuilderAssumption DEF BuilderAssumption, Takes, TypeOK, Calls
<1>2. \A n \in Numbers : rows[n] # None => rows[n].id \in 0..MaxCalls /\ rows[n].snap \in Snapshot
  BY RowIs DEF TypeOK
<1>3. config["first_message"] \in 0..MaxCalls /\ config \in Snapshot /\ graph \in SUBSET Calls
  BY BuilderAssumption DEF BuilderAssumption, TypeOK, Snapshot
<1>. QED
  BY <1>1, <1>2, <1>3 DEF Call

LEMMA NumberChosen ==
  ASSUME TypeOK, NEW h \in Handlers, NextVersion(h)
  PROVE  \E n \in Numbers :
           /\ \A m \in Numbers : m >= n => rows[m] = None
           /\ n > 1 => rows[n - 1] # None
           /\ calls[h] # None /\ calls[h].op \in {"publish", "branch"} /\ calls[h].num = 0
           /\ calls'[h] \in Call
           /\ calls'[h].op = calls[h].op /\ calls'[h].no = calls[h].no /\ calls'[h].num = n
           /\ \A g \in Handlers \ {h} : calls'[g] = calls[g]
           /\ calls' \in [Handlers -> Call \cup {None}]
           /\ UNCHANGED <<agent, config, translation, versions, workflow, asked>>
<1>1. /\ calls[h] \in Call /\ calls[h].op \in {"publish", "branch"} /\ calls[h].num = 0
      /\ calls[h] # None
  BY DEF NextVersion, Doing, TypeOK
<1>2. PICK n \in Numbers :
        /\ \A m \in Numbers : m >= n => rows[m] = None
        /\ n > 1 => rows[n - 1] # None
        /\ calls' = [calls EXCEPT ![h] = [calls[h] EXCEPT !.num = n]]
  BY DEF NextVersion, Becomes
<1>3. calls[h] \in [op : {"publish", "branch"}, no : Calls, snap : Snapshot, num : Numbers \cup {0}]
  BY <1>1 DEF Call
<1>. DEFINE r == [calls[h] EXCEPT !.num = n]
<1>4. /\ r \in [op : {"publish", "branch"}, no : Calls, snap : Snapshot, num : Numbers \cup {0}]
      /\ r.op = calls[h].op /\ r.no = calls[h].no /\ r.num = n
  BY <1>3
<1>. HIDE DEF r
<1>5. r \in Call
  BY <1>4 DEF Call
<1>6. /\ calls'[h] = r /\ \A g \in Handlers \ {h} : calls'[g] = calls[g]
      /\ calls' \in [Handlers -> Call \cup {None}]
  BY <1>2, <1>5 DEF TypeOK, r
<1>7. UNCHANGED <<agent, config, translation, versions, workflow, asked>>
  BY DEF NextVersion
<1>. QED
  BY <1>1, <1>2, <1>4, <1>5, <1>6, <1>7

(* A version that a publish or a branch inserts. *)
LEMMA Inserted ==
  ASSUME TypeOK, NEW h \in Handlers, NEW live \in BOOLEAN, Freezes(h), calls[h].num # 0,
         rows' = [rows EXCEPT ![calls[h].num] = NewRow(h, live)]
  PROVE  /\ calls[h].num \in Numbers /\ rows' \in [Numbers -> Row \cup {None}]
         /\ rows'[calls[h].num] # None
         /\ rows'[calls[h].num].id = calls[h].no /\ rows'[calls[h].num].live = live
         /\ \A n \in Numbers \ {calls[h].num} : rows'[n] = rows[n]
<1>1. /\ calls[h] \in Call /\ calls[h].no \in Calls /\ calls[h].num \in Numbers
      /\ calls[h].snap \in Snapshot
  BY CallIs DEF TypeOK, Freezes, Doing
<1>2. NewRow(h, live) \in Row
  BY <1>1 DEF NewRow, Row, Calls
<1>3. NewRow(h, live) # None /\ NewRow(h, live).id = calls[h].no /\ NewRow(h, live).live = live
  BY <1>2, RowIs DEF NewRow
<1>. QED
  BY <1>1, <1>2, <1>3 DEF TypeOK

(* What a save of a branch writes. *)
LEMMA Saved ==
  ASSUME TypeOK, NEW h \in Handlers, UpdateBranchConfig(h)
  PROVE  /\ rows' \in [Numbers -> Row \cup {None}]
         /\ \A n \in Numbers :
              /\ rows'[n] = None <=> rows[n] = None
              /\ rows[n] # None => rows'[n].id = rows[n].id /\ rows'[n].live = rows[n].live
              /\ rows'[n] # rows[n] =>
                   /\ rows[n].id = calls[h].id
                   /\ \A c \in Columns \ {calls[h].col} : rows'[n].snap[c] = calls[h].snap[c]
<1>. DEFINE s == Merged(calls[h])
<1>1. calls[h] \in Call /\ calls[h].op = "save"
  BY DEF UpdateBranchConfig, Doing, TypeOK
<1>2. calls[h].no \in 0..MaxCalls /\ calls[h].snap \in Snapshot /\ calls[h].col \in Columns
  BY <1>1, CallIs DEF Calls
<1>3. s \in Snapshot /\ \A c \in Columns \ {calls[h].col} : s[c] = calls[h].snap[c]
  BY <1>2 DEF Merged, Snapshot
<1>. HIDE DEF s
<1>4. ASSUME NEW n \in Numbers, rows[n] # None
      PROVE  LET r == [rows[n] EXCEPT !.snap = s] IN
             r \in Row /\ r # None /\ r.id = rows[n].id /\ r.live = rows[n].live /\ r.snap = s
  <2>1. rows[n] \in Row
    BY <1>4 DEF TypeOK
  <2>. DEFINE r == [rows[n] EXCEPT !.snap = s]
  <2>2. r \in Row /\ r.id = rows[n].id /\ r.live = rows[n].live /\ r.snap = s
    BY <1>3, <2>1 DEF Row
  <2>. HIDE DEF r
  <2>3. r # None
    BY <2>2, RowIs
  <2>. QED
    BY <2>2, <2>3 DEF r
<1>5. rows' = [n \in Numbers |->
         IF rows[n] # None /\ rows[n].id = calls[h].id THEN [rows[n] EXCEPT !.snap = s] ELSE rows[n]]
  BY DEF UpdateBranchConfig, s
<1>6. ASSUME NEW n \in Numbers
      PROVE  \/ /\ rows[n] # None /\ rows[n].id = calls[h].id
                /\ rows'[n] = [rows[n] EXCEPT !.snap = s]
             \/ rows'[n] = rows[n]
  BY <1>5
<1>7. DOMAIN rows' = Numbers /\ \A n \in Numbers : rows'[n] \in Row \cup {None}
  BY <1>4, <1>5, <1>6 DEF TypeOK
<1>. QED
  BY <1>3, <1>4, <1>5, <1>6, <1>7

LEMMA MadeLive ==
  ASSUME TypeOK, NEW h \in Handlers, NEW m \in Numbers, PublishBranch(h, m)
  PROVE  /\ rows' \in [Numbers -> Row \cup {None}]
         /\ \A n \in Numbers :
              /\ rows'[n] = None <=> rows[n] = None
              /\ rows[n] # None => /\ rows'[n].id = rows[n].id /\ rows'[n].snap = rows[n].snap
                                   /\ rows[n].live => rows'[n].live
<1>. DEFINE r == [rows[m] EXCEPT !.live = TRUE]
<1>1. rows[m] \in Row /\ rows[m] # None
  BY DEF PublishBranch, TypeOK
<1>2. r \in Row /\ r.id = rows[m].id /\ r.snap = rows[m].snap /\ r.live
  BY <1>1 DEF Row
<1>3. rows' = [rows EXCEPT ![m] = r]
  BY DEF PublishBranch, TypeOK
<1>. HIDE DEF r
<1>4. r # None
  BY <1>2, RowIs
<1>. QED
  BY <1>1, <1>2, <1>3, <1>4 DEF TypeOK

LEMMA Deleted ==
  ASSUME TypeOK, NEW h \in Handlers, DeleteBranch(h)
  PROVE  /\ rows' \in [Numbers -> Row \cup {None}]
         /\ \A n \in Numbers :
              \/ /\ rows[n] # None /\ rows[n].id = calls[h].id
                 /\ rows'[n] = None /\ n \in freed' /\ n # current
              \/ rows'[n] = rows[n]
         /\ freed \subseteq freed' /\ freed' \subseteq Numbers
<1>1. PICK gone \in SUBSET Numbers :
        /\ gone = {n \in Numbers : rows[n] # None /\ rows[n].id = calls[h].id}
        /\ current \notin gone
        /\ rows' = [n \in Numbers |-> IF n \in gone THEN None ELSE rows[n]]
        /\ freed' = freed \cup gone
  BY DEF DeleteBranch
<1>. QED
  BY <1>1 DEF TypeOK
-----------------------------------------------------------------------------
(* Types. *)
LEMMA InitTyped == Init => TypeOK
<1>. SUFFICES ASSUME Init PROVE TypeOK
  OBVIOUS
<1>1. Created \in Snapshot
  BY BuilderAssumption DEF BuilderAssumption, Created, Snapshot
<1>. QED
  BY <1>1, BuilderAssumption DEF BuilderAssumption, Init, TypeOK

LEMMA TypeKept == TypeOK /\ [Next]_vars => TypeOK'
<1>. SUFFICES ASSUME TypeOK, [Next]_vars PROVE TypeOK'
  OBVIOUS
<1>. USE DEF agent, workflow, translation, versions
<1>1. CASE UNCHANGED vars
  BY <1>1 DEF vars, TypeOK
<1>2. CASE InsertAgent
  <2>1. [id |-> 0, snap |-> Created, live |-> FALSE] \in Row
    BY BuilderAssumption DEF BuilderAssumption, Created, Snapshot, Row
  <2>2. rows' \in [Numbers -> Row \cup {None}]
    BY <1>2, <2>1 DEF InsertAgent, TypeOK
  <2>. QED
    BY <1>2, <2>2 DEF InsertAgent, TypeOK
<1>3. ASSUME NEW h \in Handlers, Archive(h) PROVE TypeOK'
  BY <1>3, AsksAtOnce DEF Archive, TypeOK
<1>4. ASSUME NEW h \in Handlers, NEW c \in Columns, SaveColumn(h, c) PROVE TypeOK'
  BY <1>4, AsksAtOnce DEF SaveColumn, TypeOK, Snapshot
<1>5. ASSUME NEW h \in Handlers, NEW call \in Call, Takes(h), Becomes(h, call),
             UNCHANGED <<agent, config, translation, versions, graph>>,
             beside' \subseteq SUBSET Calls
      PROVE  TypeOK'
  BY <1>5, Begins DEF TypeOK
<1>6. ASSUME NEW h \in Handlers, \/ ReadMessage(h)
                                 \/ \E op \in {"publish", "branch"} : ReadConfig(h, op)
                                 \/ \E n \in Numbers, c \in Columns : ReadBranch(h, n, c)
                                 \/ \E n \in Numbers : CheckOffline(h, n)
      PROVE  TypeOK'
  <2>1. Takes(h) /\ UNCHANGED <<agent, config, translation, versions, graph, beside>>
    BY <1>6 DEF ReadMessage, ReadConfig, ReadBranch, CheckOffline
  <2>2. beside' \subseteq SUBSET Calls
    BY <2>1 DEF TypeOK
  <2>3. CASE ReadMessage(h)
    BY <1>5, <2>1, <2>2, <2>3, Started DEF ReadMessage
  <2>4. CASE \E op \in {"publish", "branch"} : ReadConfig(h, op)
    BY <1>5, <2>1, <2>2, <2>4, Started DEF ReadConfig
  <2>5. CASE \E n \in Numbers, c \in Columns : ReadBranch(h, n, c)
    BY <1>5, <2>1, <2>2, <2>5, Started DEF ReadBranch
  <2>6. CASE \E n \in Numbers : CheckOffline(h, n)
    BY <1>5, <2>1, <2>2, <2>6, Started DEF CheckOffline
  <2>. QED
    BY <1>6, <2>3, <2>4, <2>5, <2>6
<1>7. ASSUME NEW h \in Handlers, DeleteNodes(h) PROVE TypeOK'
  <2>1. asked' \in Calls
    BY <1>7, BuilderAssumption DEF BuilderAssumption, DeleteNodes, Takes, TypeOK, Calls
  <2>2. \A g \in Handlers : Doing(g, "workflow") => calls[g].no \in Calls
    BY CallIs DEF Doing, TypeOK
  <2>3. beside' \subseteq SUBSET Calls
    BY <1>7, <2>1, <2>2 DEF DeleteNodes, TypeOK
  <2>. QED
    BY <1>5, <1>7, <2>3, Started DEF DeleteNodes
<1>8. ASSUME NEW h \in Handlers, NextVersion(h) PROVE TypeOK'
  BY <1>8, NumberChosen DEF TypeOK
<1>9. ASSUME NEW h \in Handlers, Publish(h) PROVE TypeOK'
  <2>1. Answers(h) /\ Freezes(h) /\ calls[h].num # 0
        /\ rows' = [rows EXCEPT ![calls[h].num] = NewRow(h, TRUE)]
    BY <1>9 DEF Publish, Freezing, Freezes
  <2>2. calls[h].num \in Numbers /\ rows' \in [Numbers -> Row \cup {None}]
    BY <2>1, Inserted
  <2>3. published' \subseteq Numbers /\ current' \in Numbers
    BY <1>9, <2>2 DEF Publish, TypeOK
  <2>. QED
    BY <1>9, <2>1, <2>2, <2>3, Ends DEF Publish, TypeOK
<1>10. ASSUME NEW h \in Handlers, CreateBranch(h) PROVE TypeOK'
  <2>1. Answers(h) /\ Freezes(h) /\ calls[h].num # 0
        /\ rows' = [rows EXCEPT ![calls[h].num] = NewRow(h, FALSE)]
    BY <1>10 DEF CreateBranch, Freezing, Freezes
  <2>. QED
    BY <1>10, <2>1, Ends, Inserted DEF CreateBranch, TypeOK
<1>11. ASSUME NEW h \in Handlers, UpdateBranchConfig(h) PROVE TypeOK'
  BY <1>11, Saved, Ends DEF UpdateBranchConfig, TypeOK
<1>12. ASSUME NEW h \in Handlers, NEW n \in Numbers, PublishBranch(h, n) PROVE TypeOK'
  BY <1>12, MadeLive, AsksAtOnce DEF PublishBranch, TypeOK
<1>13. ASSUME NEW h \in Handlers, DeleteBranch(h) PROVE TypeOK'
  BY <1>13, Deleted, Ends DEF DeleteBranch, TypeOK
<1>14. ASSUME NEW h \in Handlers, StoreTranslation(h) PROVE TypeOK'
  <2>1. calls[h].message \in 0..MaxCalls /\ calls[h].no \in 0..MaxCalls
    BY <1>14, CallIs DEF StoreTranslation, Doing, TypeOK, Calls
  <2>. QED
    BY <1>14, <2>1, Ends DEF StoreTranslation, TypeOK
<1>15. ASSUME NEW h \in Handlers, SaveWorkflow(h) PROVE TypeOK'
  <2>1. calls[h].no \in Calls
    BY <1>15, CallIs DEF SaveWorkflow, Doing, TypeOK
  <2>. QED
    BY <1>15, <2>1, Ends DEF SaveWorkflow, TypeOK
<1>16. ASSUME NEW h \in Handlers, Fail(h) PROVE TypeOK'
  BY <1>16, Ends DEF Fail, TypeOK
<1>. QED
  BY <1>1, <1>2, <1>3, <1>4, <1>6, <1>7, <1>8, <1>9, <1>10, <1>11, <1>12, <1>13, <1>14, <1>15,
     <1>16, NextIs

(* Every variable keeps its type: no version number, request number or     *)
(* snapshot that is not one. *)
THEOREM TypeCorrect == Spec => []TypeOK
BY InitTyped, TypeKept, PTL DEF Spec
-----------------------------------------------------------------------------
(* Numbers and ids. *)

(* A step that starts nothing and inserts nothing. *)
LEMMA NumbersStay ==
  ASSUME NumberInv, TypeOK', asked' \in {asked, asked + 1},
         \A h \in Handlers : calls'[h] # None =>
           /\ calls[h] # None /\ calls'[h].op = calls[h].op /\ calls'[h].no = calls[h].no
           /\ Targets(h) => calls'[h].id = calls[h].id,
         \A n \in Numbers : rows'[n] # None => rows[n] # None /\ rows'[n].id = rows[n].id,
         \A c \in Columns : config'[c] = config[c] \/ config'[c] = asked',
         translator' <= asked'
  PROVE  Numbered' /\ OneId'
<1>1. asked \in Nat /\ asked <= asked'
  BY DEF NumberInv, TypeOK
<1>2. \A h \in Handlers :
        /\ Targets(h)' => Targets(h) /\ calls'[h].id = calls[h].id
        /\ Freezes(h)' => Freezes(h) /\ calls'[h].no = calls[h].no
  BY DEF Targets, Freezes, Doing
<1>3. \A h \in Handlers : calls[h] # None => calls[h].no \in Nat
  BY CallIs DEF NumberInv, TypeOK, Calls
<1>4. \A n \in Numbers : rows[n] # None => rows[n].id \in Nat
  BY RowIs DEF NumberInv, TypeOK
<1>5. \A h \in Handlers : Targets(h) => calls[h].id \in Nat
  BY CallIs DEF NumberInv, TypeOK, Targets, Doing
<1>6. \A c \in Columns : config[c] \in Nat
  BY DEF NumberInv, TypeOK, Snapshot
<1>7. Numbered'
  BY <1>1, <1>2, <1>3, <1>4, <1>5, <1>6 DEF NumberInv, Numbered
<1>8. OneId'
  BY <1>2 DEF NumberInv, OneId
<1>. QED
  BY <1>7, <1>8

LEMMA NumberTaken ==
  ASSUME NumberInv, TypeOK', NEW h \in Handlers, NEW call \in Call, Takes(h), Becomes(h, call),
         call.no = asked', UNCHANGED <<rows, config, translator>>,
         call.op \in {"save", "delete"} =>
           \E n \in Numbers : rows[n] # None /\ rows[n].id = call.id
  PROVE  Numbered' /\ OneId'
<1>1. /\ asked \in Nat /\ asked' = asked + 1
      /\ calls[h] = None /\ calls'[h] = call /\ call # None
      /\ \A g \in Handlers \ {h} : calls'[g] = calls[g]
  BY Begins, CallIs DEF NumberInv, TypeOK
<1>2. \A g \in Handlers : calls[g] # None => calls[g].no \in Nat /\ calls[g].no <= asked
  BY CallIs DEF NumberInv, Numbered, TypeOK, Calls
<1>3. \A n \in Numbers : rows[n] # None => rows[n].id \in Nat /\ rows[n].id <= asked
  BY RowIs DEF NumberInv, Numbered, TypeOK
<1>4. \A g \in Handlers : Targets(g) => calls[g].id \in Nat /\ calls[g].id <= asked
  BY CallIs DEF NumberInv, Numbered, TypeOK, Targets, Doing
<1>5. \A c \in Columns : config[c] \in Nat /\ config[c] <= asked
  BY DEF NumberInv, Numbered, TypeOK, Snapshot
<1>6. translator \in Nat /\ translator <= asked
  BY DEF NumberInv, Numbered, TypeOK
<1>7. \A g \in Handlers \ {h} : (Targets(g)' <=> Targets(g)) /\ (Freezes(g)' <=> Freezes(g))
  BY <1>1 DEF Targets, Freezes, Doing
<1>8. Targets(h)' => \E n \in Numbers : rows[n] # None /\ rows[n].id = call.id
  BY <1>1 DEF Targets, Doing
<1>9. ~(Targets(h)' /\ Freezes(h)')
  BY <1>1 DEF Targets, Freezes, Doing
<1>10. Numbered'
  <2>1. \A g \in Handlers : calls'[g] # None => calls'[g].no <= asked'
    BY <1>1, <1>2
  <2>2. \A f, g \in Handlers :
          calls'[f] # None /\ calls'[g] # None /\ calls'[f].no = calls'[g].no => f = g
    BY <1>1, <1>2 DEF NumberInv, Numbered
  <2>3. \A g \in Handlers : Targets(g)' => calls'[g].id <= asked'
    BY <1>1, <1>3, <1>4, <1>7, <1>8
  <2>4. /\ \A c \in Columns : config'[c] <= asked'
        /\ \A n \in Numbers : rows'[n] # None => rows'[n].id <= asked'
        /\ translator' <= asked'
    BY <1>1, <1>3, <1>5, <1>6
  <2>. QED
    BY <2>1, <2>2, <2>3, <2>4 DEF Numbered
<1>11. OneId'
  <2>1. ASSUME NEW f \in Handlers, Freezes(f)', NEW n \in Numbers, rows'[n] # None
        PROVE  rows'[n].id # calls'[f].no
    BY <1>1, <1>3, <1>7, <2>1 DEF NumberInv, OneId
  <2>2. ASSUME NEW f \in Handlers, Freezes(f)', NEW g \in Handlers, Targets(g)'
        PROVE  calls'[g].id # calls'[f].no
    <3>1. CASE f = h
      BY <1>1, <1>4, <1>7, <1>9, <2>2, <3>1
    <3>2. CASE f # h /\ g = h
      BY <1>1, <1>7, <1>8, <2>1, <2>2, <3>2
    <3>3. CASE f # h /\ g # h
      BY <1>1, <1>7, <2>2, <3>3 DEF NumberInv, OneId
    <3>. QED
      BY <3>1, <3>2, <3>3
  <2>. QED
    BY <2>1, <2>2 DEF NumberInv, OneId
<1>. QED
  BY <1>10, <1>11

LEMMA NumberInserted ==
  ASSUME NumberInv, TypeOK', NEW h \in Handlers, NEW live \in BOOLEAN, Freezes(h),
         calls[h].num # 0, Answers(h), UNCHANGED <<config, translator>>,
         rows' = [rows EXCEPT ![calls[h].num] = NewRow(h, live)]
  PROVE  Numbered' /\ OneId'
<1>. DEFINE n == calls[h].num
<1>1. /\ n \in Numbers /\ rows'[n] # None /\ rows'[n].id = calls[h].no
      /\ \A m \in Numbers \ {n} : rows'[m] = rows[m]
  BY Inserted DEF NumberInv
<1>2. /\ asked' = asked /\ calls'[h] = None
      /\ \A g \in Handlers \ {h} : calls'[g] = calls[g]
  BY Ends DEF NumberInv
<1>3. calls[h] # None
  BY DEF Freezes, Doing
<1>4. \A g \in Handlers : Targets(g)' => Targets(g) /\ g # h /\ calls'[g] = calls[g]
  BY <1>2 DEF Targets, Doing
<1>5. \A g \in Handlers : Freezes(g)' => Freezes(g) /\ g # h /\ calls'[g] = calls[g]
                                         /\ calls[g] # None
  BY <1>2 DEF Freezes, Doing
<1>. HIDE DEF n
<1>6. Numbered'
  BY <1>1, <1>2, <1>3, <1>4 DEF NumberInv, Numbered
<1>7. \A g \in Handlers : Freezes(g)' => calls[g].no # calls[h].no
  BY <1>3, <1>5 DEF NumberInv, Numbered
<1>8. \A g \in Handlers : Freezes(g)' =>
        /\ \A m \in Numbers : rows'[m] # None => rows'[m].id # calls'[g].no
        /\ \A k \in Handlers : Targets(k)' => calls'[k].id # calls'[g].no
  BY <1>1, <1>4, <1>5, <1>7 DEF NumberInv, OneId
<1>9. \A l, m \in Numbers :
        rows'[l] # None /\ rows'[m] # None /\ rows'[l].id = rows'[m].id => l = m
  BY <1>1 DEF NumberInv, OneId
<1>. QED
  BY <1>6, <1>8, <1>9 DEF OneId

LEMMA NotYetKept == NumberInv /\ [Next]_vars => NotYet'
<1>. SUFFICES ASSUME NumberInv, [Next]_vars PROVE NotYet'
  OBVIOUS
<1>1. CASE UNCHANGED vars
  BY <1>1 DEF vars, agent, versions, NumberInv, NotYet
<1>2. CASE InsertAgent
  BY <1>2 DEF InsertAgent, NotYet
<1>3. ASSUME ~UNCHANGED vars, ~InsertAgent PROVE status # "none"
  <2>1. ASSUME status = "none" PROVE FALSE
    <3>1. \A h \in Handlers : calls[h] = None
      BY <2>1 DEF NumberInv, NotYet
    <3>2. \A h \in Handlers : ~Takes(h)
      BY <2>1 DEF Takes
    <3>. QED
      BY <1>3, <3>1, <3>2, NextIs DEF Archive, SaveColumn, AtOnce, ReadMessage, StoreTranslation,
         ReadConfig, NextVersion, Publish, CreateBranch, Freezing, ReadBranch, PublishBranch,
         CheckOffline, UpdateBranchConfig, DeleteBranch, DeleteNodes, SaveWorkflow, Fail, Doing
  <2>. QED
    BY <2>1
<1>4. ASSUME ~UNCHANGED vars, ~InsertAgent PROVE status' # "none"
  <2>1. status' \in {status, "published", "archived"}
    BY <1>4, NextIs DEF Archive, SaveColumn, ReadMessage, StoreTranslation, ReadConfig, NextVersion,
       Publish, CreateBranch, ReadBranch, PublishBranch, CheckOffline, UpdateBranchConfig,
       DeleteBranch, DeleteNodes, SaveWorkflow, Fail, agent
  <2>. QED
    BY <1>3, <1>4, <2>1
<1>. QED
  BY <1>1, <1>2, <1>4 DEF NotYet

LEMMA NumberKept == NumberInv /\ [Next]_vars => NumberInv'
<1>. SUFFICES ASSUME NumberInv, [Next]_vars PROVE NumberInv'
  OBVIOUS
<1>1. TypeOK' /\ NotYet' /\ TypeOK
  BY TypeKept, NotYetKept DEF NumberInv
<1>. SUFFICES Numbered' /\ OneId'
  BY <1>1 DEF NumberInv
<1>. USE DEF agent, workflow, translation, versions
<1>2. asked \in Nat /\ translator \in Nat /\ translator <= asked
  BY DEF NumberInv, TypeOK, Numbered
<1>3. CASE UNCHANGED vars
  BY <1>1, <1>2, <1>3, NumbersStay DEF vars
<1>4. CASE InsertAgent
  <2>1. /\ \A n \in Numbers : rows[n] = None
        /\ \A h \in Handlers : calls'[h] = None
        /\ UNCHANGED <<config, translator, asked>>
    BY <1>4 DEF InsertAgent, NumberInv, NotYet
  <2>2. /\ \A n \in Numbers \ {1} : rows'[n] = rows[n]
        /\ 1 \in Numbers => rows'[1].id = 0
    BY <1>4 DEF InsertAgent, NumberInv, TypeOK
  <2>3. \A h \in Handlers : ~Targets(h)' /\ ~Freezes(h)'
    BY <2>1 DEF Targets, Freezes, Doing
  <2>. QED
    BY <1>2, <2>1, <2>2, <2>3 DEF NumberInv, Numbered, OneId
<1>5. ASSUME NEW h \in Handlers, \/ Archive(h) \/ \E c \in Columns : SaveColumn(h, c)
                                 \/ \E n \in Numbers : PublishBranch(h, n)
      PROVE  Numbered' /\ OneId'
  <2>1. AtOnce(h) /\ UNCHANGED translator
    BY <1>5 DEF Archive, SaveColumn, PublishBranch
  <2>2. calls' = calls /\ asked' = asked + 1
    BY <1>1, <2>1, AsksAtOnce
  <2>3. \A n \in Numbers : rows'[n] # None => rows[n] # None /\ rows'[n].id = rows[n].id
    BY <1>1, <1>5, MadeLive DEF Archive, SaveColumn
  <2>4. \A c \in Columns : config'[c] = config[c] \/ config'[c] = asked'
    BY <1>1, <1>5 DEF Archive, SaveColumn, PublishBranch, TypeOK, Snapshot
  <2>. QED
    BY <1>1, <1>2, <2>1, <2>2, <2>3, <2>4, NumbersStay
<1>6. ASSUME NEW h \in Handlers, ReadMessage(h) PROVE Numbered' /\ OneId'
  <2>. DEFINE call == [op |-> "translate", no |-> asked', message |-> config["first_message"]]
  <2>1. /\ call \in Call /\ Takes(h) /\ Becomes(h, call) /\ UNCHANGED <<rows, config, translator>>
        /\ call.no = asked' /\ call.op = "translate"
    BY <1>1, <1>6, Started DEF ReadMessage
  <2>. HIDE DEF call
  <2>. QED
    BY <1>1, <2>1, NumberTaken
<1>7. ASSUME NEW h \in Handlers, NEW op \in {"publish", "branch"}, ReadConfig(h, op)
      PROVE  Numbered' /\ OneId'
  <2>. DEFINE call == [op |-> op, no |-> asked', snap |-> config, num |-> 0]
  <2>1. /\ call \in Call /\ Takes(h) /\ Becomes(h, call) /\ UNCHANGED <<rows, config, translator>>
        /\ call.no = asked' /\ call.op = op
    BY <1>1, <1>7, Started DEF ReadConfig
  <2>. HIDE DEF call
  <2>. QED
    BY <1>1, <2>1, NumberTaken
<1>8. ASSUME NEW h \in Handlers, NEW n \in Numbers, NEW c \in Columns, ReadBranch(h, n, c)
      PROVE  Numbered' /\ OneId'
  <2>. DEFINE call == [op |-> "save", no |-> asked', id |-> rows[n].id, col |-> c,
                       snap |-> rows[n].snap]
  <2>1. /\ call \in Call /\ Takes(h) /\ Becomes(h, call) /\ UNCHANGED <<rows, config, translator>>
        /\ call.no = asked' /\ rows[n] # None /\ call.id = rows[n].id
    BY <1>1, <1>8, Started DEF ReadBranch
  <2>. HIDE DEF call
  <2>. QED
    BY <1>1, <2>1, NumberTaken
<1>9. ASSUME NEW h \in Handlers, NEW n \in Numbers, CheckOffline(h, n)
      PROVE  Numbered' /\ OneId'
  <2>. DEFINE call == [op |-> "delete", no |-> asked', id |-> rows[n].id]
  <2>1. /\ call \in Call /\ Takes(h) /\ Becomes(h, call) /\ UNCHANGED <<rows, config, translator>>
        /\ call.no = asked' /\ rows[n] # None /\ call.id = rows[n].id
    BY <1>1, <1>9, Started DEF CheckOffline
  <2>. HIDE DEF call
  <2>. QED
    BY <1>1, <2>1, NumberTaken
<1>10. ASSUME NEW h \in Handlers, DeleteNodes(h) PROVE Numbered' /\ OneId'
  <2>. DEFINE call == [op |-> "workflow", no |-> asked', found |-> graph]
  <2>1. /\ call \in Call /\ Takes(h) /\ Becomes(h, call) /\ UNCHANGED <<rows, config, translator>>
        /\ call.no = asked' /\ call.op = "workflow"
    BY <1>1, <1>10, Started DEF DeleteNodes
  <2>. HIDE DEF call
  <2>. QED
    BY <1>1, <2>1, NumberTaken
<1>11. ASSUME NEW h \in Handlers, NextVersion(h) PROVE Numbered' /\ OneId'
  <2>1. /\ calls[h] # None /\ calls'[h].op = calls[h].op /\ calls'[h].no = calls[h].no
        /\ ~Targets(h) /\ \A g \in Handlers \ {h} : calls'[g] = calls[g]
        /\ UNCHANGED <<rows, config, translator, asked>>
    BY <1>1, <1>11, NumberChosen DEF Targets, Doing
  <2>. QED
    BY <1>1, <1>2, <2>1, NumbersStay
<1>12. ASSUME NEW h \in Handlers, Publish(h) \/ CreateBranch(h) PROVE Numbered' /\ OneId'
  <2>1. PICK live \in BOOLEAN : rows' = [rows EXCEPT ![calls[h].num] = NewRow(h, live)]
    BY <1>12 DEF Publish, CreateBranch
  <2>2. Answers(h) /\ Freezes(h) /\ calls[h].num # 0 /\ UNCHANGED <<config, translator>>
    BY <1>12 DEF Publish, CreateBranch, Freezing, Freezes
  <2>. QED
    BY <1>1, <2>1, <2>2, NumberInserted
<1>13. ASSUME NEW h \in Handlers, Answers(h), UNCHANGED config, translator' <= asked,
              \A n \in Numbers : rows'[n] # None => rows[n] # None /\ rows'[n].id = rows[n].id
       PROVE  Numbered' /\ OneId'
  <2>1. calls'[h] = None /\ \A g \in Handlers \ {h} : calls'[g] = calls[g]
    BY <1>1, <1>13, Ends
  <2>2. asked' = asked
    BY <1>13 DEF Answers
  <2>. QED
    BY <1>1, <1>13, <2>1, <2>2, NumbersStay
<1>14. ASSUME NEW h \in Handlers, UpdateBranchConfig(h) PROVE Numbered' /\ OneId'
  BY <1>1, <1>2, <1>13, <1>14, Saved DEF UpdateBranchConfig
<1>15. ASSUME NEW h \in Handlers, DeleteBranch(h) PROVE Numbered' /\ OneId'
  BY <1>1, <1>2, <1>13, <1>15, Deleted DEF DeleteBranch
<1>16. ASSUME NEW h \in Handlers, StoreTranslation(h) PROVE Numbered' /\ OneId'
  <2>1. translator' <= asked
    BY <1>16 DEF StoreTranslation, Doing, NumberInv, Numbered
  <2>. QED
    BY <1>13, <1>16, <2>1 DEF StoreTranslation
<1>17. ASSUME NEW h \in Handlers, SaveWorkflow(h) \/ Fail(h) PROVE Numbered' /\ OneId'
  BY <1>2, <1>13, <1>17 DEF SaveWorkflow, Fail
<1>. QED
  BY <1>3, <1>4, <1>5, <1>6, <1>7, <1>8, <1>9, <1>10, <1>11, <1>12, <1>14, <1>15, <1>16, <1>17,
     NextIs
-----------------------------------------------------------------------------
(* What each step leaves of the requests: none but the one that takes it   *)
(* changes what it is doing. *)
Others(h) == \A g \in Handlers \ {h} : calls'[g] = calls[g]

LEMMA OpenedOrClosed ==
  ASSUME NumberInv, NEW h \in Handlers
  PROVE  /\ ReadMessage(h) =>
              Others(h) /\ calls'[h].op = "translate" /\ calls'[h].no = asked + 1
              /\ calls'[h].message = config["first_message"]
         /\ \A op \in {"publish", "branch"} : ReadConfig(h, op) =>
              Others(h) /\ calls'[h].op = op /\ calls'[h].num = 0
         /\ \A n \in Numbers, c \in Columns : ReadBranch(h, n, c) =>
              Others(h) /\ calls'[h].op = "save"
         /\ \A n \in Numbers : CheckOffline(h, n) =>
              Others(h) /\ calls'[h].op = "delete" /\ calls'[h].id = rows[n].id
         /\ DeleteNodes(h) =>
              Others(h) /\ calls'[h].op = "workflow" /\ calls'[h].no = asked + 1
              /\ calls'[h].found = graph
         /\ Answers(h) => Others(h) /\ calls'[h] = None
<1>1. TypeOK
  BY DEF NumberInv
<1>2. ASSUME NEW call, Takes(h), Becomes(h, call)
      PROVE  Others(h) /\ calls'[h] = call /\ asked' = asked + 1
  BY <1>1, <1>2 DEF Takes, Becomes, TypeOK, Others
<1>3. Answers(h) => Others(h) /\ calls'[h] = None
  BY <1>1, Ends DEF Others
<1>4. ReadMessage(h) =>
              Others(h) /\ calls'[h].op = "translate" /\ calls'[h].no = asked + 1
              /\ calls'[h].message = config["first_message"]
  BY <1>2 DEF ReadMessage
<1>5. \A op \in {"publish", "branch"} : ReadConfig(h, op) =>
              Others(h) /\ calls'[h].op = op /\ calls'[h].num = 0
  BY <1>2 DEF ReadConfig
<1>6. \A n \in Numbers, c \in Columns : ReadBranch(h, n, c) =>
              Others(h) /\ calls'[h].op = "save"
  BY <1>2 DEF ReadBranch
<1>7. \A n \in Numbers : CheckOffline(h, n) =>
              Others(h) /\ calls'[h].op = "delete" /\ calls'[h].id = rows[n].id
  BY <1>2 DEF CheckOffline
<1>8. DeleteNodes(h) =>
              Others(h) /\ calls'[h].op = "workflow" /\ calls'[h].no = asked + 1
              /\ calls'[h].found = graph
  BY <1>2 DEF DeleteNodes
<1>. QED
  BY <1>3, <1>4, <1>5, <1>6, <1>7, <1>8

(* What publish made is kept. *)
LEMMA KeptBy ==
  ASSUME KeptInv, UNCHANGED published,
         \A n \in published : rows[n] # None => /\ rows'[n] # None /\ rows'[n].id = rows[n].id
                                                /\ rows[n].live => rows'[n].live,
         \A h \in Handlers : Doing(h, "delete")' =>
           Doing(h, "delete") /\ calls'[h].id = calls[h].id
  PROVE  KeptInv'
BY DEF KeptInv, PublishedKept, DeletesSpare

LEMMA KeptKept == NumberInv /\ KeptInv /\ [Next]_vars => KeptInv'
<1>. SUFFICES ASSUME NumberInv, KeptInv, [Next]_vars PROVE KeptInv'
  OBVIOUS
<1>1. TypeOK
  BY DEF NumberInv
<1>. USE DEF agent, workflow, translation, versions
<1>2. ASSUME UNCHANGED <<rows, published>>, NEW h \in Handlers, Others(h),
             calls'[h] = None \/ calls'[h].op # "delete"
      PROVE  KeptInv'
  BY <1>2, KeptBy DEF Others, Doing
<1>3. CASE UNCHANGED vars
  BY <1>3, KeptBy DEF vars, Doing
<1>4. CASE InsertAgent
  <2>1. published' = {} /\ \A h \in Handlers : calls'[h] = None
    BY <1>4 DEF InsertAgent, NumberInv, NotYet
  <2>. QED
    BY <2>1 DEF KeptInv, PublishedKept, DeletesSpare, Doing
<1>5. ASSUME NEW h \in Handlers, Archive(h) \/ \E c \in Columns : SaveColumn(h, c)
      PROVE  KeptInv'
  BY <1>5, KeptBy DEF Archive, SaveColumn, AtOnce, Doing
<1>6. ASSUME NEW h \in Handlers, ReadMessage(h) \/ StoreTranslation(h) \/ DeleteNodes(h)
                                 \/ SaveWorkflow(h) \/ Fail(h)
      PROVE  KeptInv'
  <2>1. UNCHANGED <<rows, published>>
    BY <1>6 DEF ReadMessage, StoreTranslation, DeleteNodes, SaveWorkflow, Fail
  <2>2. Answers(h) \/ ReadMessage(h) \/ DeleteNodes(h)
    BY <1>6 DEF StoreTranslation, SaveWorkflow, Fail
  <2>3. Others(h) /\ (calls'[h] = None \/ calls'[h].op # "delete")
    BY <2>2, OpenedOrClosed
  <2>. QED
    BY <1>2, <2>1, <2>3
<1>7. ASSUME NEW h \in Handlers, NEW op \in {"publish", "branch"}, ReadConfig(h, op) PROVE KeptInv'
  BY <1>2, <1>7, OpenedOrClosed DEF ReadConfig
<1>8. ASSUME NEW h \in Handlers, NEW n \in Numbers, NEW c \in Columns, ReadBranch(h, n, c)
      PROVE  KeptInv'
  BY <1>2, <1>8, OpenedOrClosed DEF ReadBranch
<1>9. ASSUME NEW h \in Handlers, NextVersion(h) PROVE KeptInv'
  <2>1. Others(h) /\ calls'[h].op # "delete" /\ UNCHANGED <<rows, published>>
    BY <1>1, <1>9, NumberChosen DEF Others
  <2>. QED
    BY <1>2, <2>1
<1>10. ASSUME NEW h \in Handlers, NEW m \in Numbers, CheckOffline(h, m) PROVE KeptInv'
  <2>1. /\ Others(h) /\ calls'[h].op = "delete" /\ calls'[h].id = rows[m].id
        /\ rows[m] # None /\ ~rows[m].live /\ UNCHANGED <<rows, published>>
    BY <1>10, OpenedOrClosed DEF CheckOffline
  <2>2. \A n \in published : n \in Numbers /\ rows[n] # None /\ rows[n].live /\ n # m
    BY <1>1, <2>1 DEF KeptInv, PublishedKept, TypeOK
  <2>3. \A n \in published : rows[n].id # rows[m].id
    BY <2>1, <2>2 DEF NumberInv, OneId
  <2>4. ASSUME NEW g \in Handlers, NEW n \in published, Doing(g, "delete")'
        PROVE  rows'[n].id # calls'[g].id
    BY <2>1, <2>3, <2>4 DEF KeptInv, DeletesSpare, Doing, Others
  <2>. QED
    BY <2>1, <2>4 DEF KeptInv, PublishedKept, DeletesSpare
<1>11. ASSUME NEW h \in Handlers, Publish(h) PROVE KeptInv'
  <2>. DEFINE n == calls[h].num
  <2>1. /\ Answers(h) /\ Freezes(h) /\ calls[h].num # 0 /\ rows[n] = None
        /\ rows' = [rows EXCEPT ![calls[h].num] = NewRow(h, TRUE)]
        /\ published' = published \cup {n}
    BY <1>11 DEF Publish, Freezing, Freezes
  <2>2. /\ n \in Numbers /\ rows'[n] # None /\ rows'[n].id = calls[h].no /\ rows'[n].live
        /\ \A m \in Numbers \ {n} : rows'[m] = rows[m]
    BY <1>1, <2>1, Inserted
  <2>3. Others(h) /\ calls'[h] = None
    BY <2>1, OpenedOrClosed
  <2>4. \A g \in Handlers : Doing(g, "delete")' => Doing(g, "delete") /\ calls'[g].id = calls[g].id
    BY <2>3 DEF Others, Doing
  <2>5. \A g \in Handlers : Doing(g, "delete") => calls[g].id # calls[h].no
    BY <2>1 DEF NumberInv, OneId, Targets
  <2>6. \A m \in published : m \in Numbers \ {n}
    BY <1>1, <2>1 DEF KeptInv, PublishedKept, TypeOK
  <2>. HIDE DEF n
  <2>7. PublishedKept'
    BY <2>1, <2>2, <2>6 DEF KeptInv, PublishedKept
  <2>8. DeletesSpare'
    <3>. SUFFICES ASSUME NEW g \in Handlers, NEW m \in published', Doing(g, "delete")'
                  PROVE  rows'[m].id # calls'[g].id
      BY DEF DeletesSpare
    <3>1. Doing(g, "delete") /\ calls'[g].id = calls[g].id
      BY <2>4
    <3>2. CASE m = n
      BY <2>2, <2>5, <3>1, <3>2
    <3>3. CASE m \in published
      <4>1. rows'[m] = rows[m]
        BY <2>2, <2>6, <3>3
      <4>. QED
        BY <3>1, <3>3, <4>1 DEF KeptInv, DeletesSpare
    <3>. QED
      BY <2>1, <3>2, <3>3
  <2>. QED
    BY <2>7, <2>8 DEF KeptInv
<1>12. ASSUME NEW h \in Handlers, CreateBranch(h) PROVE KeptInv'
  <2>1. /\ Answers(h) /\ Freezes(h) /\ calls[h].num # 0 /\ rows[calls[h].num] = None
        /\ rows' = [rows EXCEPT ![calls[h].num] = NewRow(h, FALSE)]
        /\ UNCHANGED published
    BY <1>12 DEF CreateBranch, Freezing, Freezes
  <2>2. \A m \in published : rows'[m] = rows[m]
    BY <1>1, <2>1, Inserted DEF KeptInv, PublishedKept, TypeOK
  <2>3. Others(h) /\ calls'[h] = None
    BY <2>1, OpenedOrClosed
  <2>. QED
    BY <2>1, <2>2, <2>3, KeptBy DEF Others, Doing
<1>13. ASSUME NEW h \in Handlers, UpdateBranchConfig(h) PROVE KeptInv'
  <2>1. Others(h) /\ calls'[h] = None /\ UNCHANGED published
    BY <1>13, OpenedOrClosed DEF UpdateBranchConfig
  <2>2. \A n \in Numbers : rows[n] # None =>
          rows'[n] # None /\ rows'[n].id = rows[n].id /\ rows'[n].live = rows[n].live
    BY <1>1, <1>13, Saved
  <2>3. \A n \in published : n \in Numbers
    BY <1>1 DEF TypeOK
  <2>. QED
    BY <2>1, <2>2, <2>3, KeptBy DEF Others, Doing
<1>14. ASSUME NEW h \in Handlers, NEW m \in Numbers, PublishBranch(h, m) PROVE KeptInv'
  <2>1. calls' = calls /\ UNCHANGED published
    BY <1>14 DEF PublishBranch, AtOnce
  <2>2. \A n \in Numbers : rows[n] # None =>
          /\ rows'[n] # None /\ rows'[n].id = rows[n].id
          /\ rows[n].live => rows'[n].live
    BY <1>1, <1>14, MadeLive
  <2>3. \A n \in published : n \in Numbers
    BY <1>1 DEF TypeOK
  <2>. QED
    BY <2>1, <2>2, <2>3, KeptBy DEF Doing
<1>15. ASSUME NEW h \in Handlers, DeleteBranch(h) PROVE KeptInv'
  <2>1. Others(h) /\ calls'[h] = None /\ UNCHANGED published /\ Doing(h, "delete")
    BY <1>15, OpenedOrClosed DEF DeleteBranch
  <2>2. \A n \in published : n \in Numbers /\ rows[n].id # calls[h].id
    BY <1>1, <2>1 DEF KeptInv, DeletesSpare, TypeOK
  <2>3. \A n \in published : rows'[n] = rows[n]
    BY <1>1, <1>15, <2>2, Deleted
  <2>. QED
    BY <2>1, <2>3, KeptBy DEF Others, Doing
<1>. QED
  BY <1>3, <1>4, <1>5, <1>6, <1>7, <1>8, <1>9, <1>10, <1>11, <1>12, <1>13, <1>14, <1>15, NextIs
-----------------------------------------------------------------------------
(* The current version. *)
LEMMA TakenKept ==
  ASSUME NumberInv, [Next]_vars, NEW n \in Numbers, Taken(n)
  PROVE  Taken(n)'
<1>1. TypeOK /\ freed \in SUBSET Numbers
  BY DEF NumberInv, TypeOK
<1>. USE DEF agent, workflow, translation, versions
<1>2. ASSUME freed \subseteq freed', rows'[n] = None => rows[n] = None \/ n \in freed'
      PROVE  Taken(n)'
  BY <1>2 DEF Taken
<1>3. CASE UNCHANGED vars
  BY <1>2, <1>3 DEF vars
<1>4. CASE InsertAgent
  <2>1. rows[n] = None /\ UNCHANGED freed
    BY <1>4 DEF InsertAgent, NumberInv, NotYet
  <2>. QED
    BY <1>2, <2>1
<1>5. ASSUME NEW h \in Handlers, Publish(h) \/ CreateBranch(h) PROVE Taken(n)'
  <2>1. PICK live \in BOOLEAN : rows' = [rows EXCEPT ![calls[h].num] = NewRow(h, live)]
    BY <1>5 DEF Publish, CreateBranch
  <2>2. Freezes(h) /\ calls[h].num # 0 /\ UNCHANGED freed
    BY <1>5 DEF Publish, CreateBranch, Freezing, Freezes
  <2>3. rows'[n] = None => rows[n] = None
    BY <1>1, <2>1, <2>2, Inserted
  <2>. QED
    BY <1>2, <2>2, <2>3
<1>6. ASSUME NEW h \in Handlers, UpdateBranchConfig(h) PROVE Taken(n)'
  BY <1>1, <1>2, <1>6, Saved DEF UpdateBranchConfig
<1>7. ASSUME NEW h \in Handlers, NEW m \in Numbers, PublishBranch(h, m) PROVE Taken(n)'
  BY <1>1, <1>2, <1>7, MadeLive DEF PublishBranch
<1>8. ASSUME NEW h \in Handlers, DeleteBranch(h) PROVE Taken(n)'
  BY <1>1, <1>2, <1>8, Deleted
<1>9. ASSUME UNCHANGED versions PROVE Taken(n)'
  BY <1>2, <1>9
<1>. QED
  BY <1>3, <1>4, <1>5, <1>6, <1>7, <1>8, <1>9, NextIs DEF Archive, SaveColumn, ReadMessage,
     StoreTranslation, ReadConfig, NextVersion, ReadBranch, CheckOffline, DeleteNodes,
     SaveWorkflow, Fail

(* A number is reached by the request that reads the newest version, only. *)
LEMMA ReachedOnce ==
  ASSUME NumberInv, [Next]_vars, NEW m \in Numbers, Reached(m)'
  PROVE  Reached(m) \/ m = 1 \/ rows[m - 1] # None
<1>1. TypeOK
  BY DEF NumberInv
<1>. USE DEF agent, workflow, translation, versions
<1>2. ASSUME NEW h \in Handlers, Others(h), calls'[h] = None \/ ~Freezes(h)' \/ calls'[h].num = 0,
             Taken(m)' => Taken(m) \/ Reached(m)
      PROVE  Reached(m)
  <2>1. CASE Taken(m)'
    BY <1>2, <2>1 DEF Reached
  <2>2. CASE ~Taken(m)'
    <3>1. PICK g \in Handlers : Freezes(g)' /\ calls'[g].num = m
      BY <2>2 DEF Reached
    <3>2. g # h
      BY <1>2, <3>1 DEF Freezes, Doing, Numbers
    <3>3. Freezes(g) /\ calls[g].num = m
      BY <1>2, <3>1, <3>2 DEF Others, Freezes, Doing
    <3>. QED
      BY <3>3 DEF Reached
  <2>. QED
    BY <2>1, <2>2
<1>3. ASSUME UNCHANGED <<rows, freed>> PROVE Taken(m)' => Taken(m)
  BY <1>3 DEF Taken
<1>4. ASSUME UNCHANGED calls, Taken(m)' => Taken(m) PROVE Reached(m)
  BY <1>4 DEF Reached, Freezes, Doing
<1>5. CASE UNCHANGED vars
  BY <1>3, <1>4, <1>5 DEF vars
<1>6. CASE InsertAgent
  <2>1. m = 1 \/ (Taken(m)' => Taken(m))
    BY <1>1, <1>6 DEF InsertAgent, Taken, TypeOK
  <2>. QED
    BY <1>4, <1>6, <2>1 DEF InsertAgent
<1>7. ASSUME NEW h \in Handlers, Archive(h) \/ \E c \in Columns : SaveColumn(h, c)
      PROVE  Reached(m)
  BY <1>3, <1>4, <1>7 DEF Archive, SaveColumn, AtOnce
<1>8. ASSUME NEW h \in Handlers, \/ ReadMessage(h) \/ StoreTranslation(h) \/ DeleteNodes(h)
                                 \/ SaveWorkflow(h) \/ Fail(h)
                                 \/ \E op \in {"publish", "branch"} : ReadConfig(h, op)
                                 \/ \E n \in Numbers, c \in Columns : ReadBranch(h, n, c)
                                 \/ \E n \in Numbers : CheckOffline(h, n)
      PROVE  Reached(m)
  <2>1. UNCHANGED <<rows, freed>>
    BY <1>8 DEF ReadMessage, StoreTranslation, DeleteNodes, SaveWorkflow, Fail, ReadConfig,
       ReadBranch, CheckOffline
  <2>2. \/ Answers(h) \/ ReadMessage(h) \/ DeleteNodes(h)
        \/ \E op \in {"publish", "branch"} : ReadConfig(h, op)
        \/ \E n \in Numbers, c \in Columns : ReadBranch(h, n, c)
        \/ \E n \in Numbers : CheckOffline(h, n)
    BY <1>8 DEF StoreTranslation, SaveWorkflow, Fail
  <2>3. Others(h) /\ (calls'[h] = None \/ ~Freezes(h)' \/ calls'[h].num = 0)
    BY <2>2, OpenedOrClosed DEF Freezes, Doing
  <2>. QED
    BY <1>2, <1>3, <2>1, <2>3
<1>9. ASSUME NEW h \in Handlers, NextVersion(h) PROVE Reached(m) \/ m = 1 \/ rows[m - 1] # None
  <2>1. PICK n \in Numbers :
          /\ n > 1 => rows[n - 1] # None
          /\ calls'[h].num = n
          /\ Others(h) /\ UNCHANGED <<rows, freed>>
    BY <1>1, <1>9, NumberChosen DEF Others
  <2>2. CASE n = m
    BY <2>1, <2>2 DEF Numbers
  <2>3. CASE n # m
    <3>1. Reached(m)' => Taken(m)' \/ \E g \in Handlers \ {h} : Freezes(g)' /\ calls'[g].num = m
      BY <2>1, <2>3 DEF Reached
    <3>2. \A g \in Handlers \ {h} : Freezes(g)' /\ calls'[g].num = m => Freezes(g) /\ calls[g].num = m
      BY <2>1 DEF Others, Freezes, Doing
    <3>. QED
      BY <1>3, <2>1, <3>1, <3>2 DEF Reached
  <2>. QED
    BY <2>2, <2>3
<1>10. ASSUME NEW h \in Handlers, Publish(h) \/ CreateBranch(h) PROVE Reached(m)
  <2>1. PICK live \in BOOLEAN : rows' = [rows EXCEPT ![calls[h].num] = NewRow(h, live)]
    BY <1>10 DEF Publish, CreateBranch
  <2>2. Answers(h) /\ Freezes(h) /\ calls[h].num # 0 /\ UNCHANGED freed
    BY <1>10 DEF Publish, CreateBranch, Freezing, Freezes
  <2>3. Taken(m)' => Taken(m) \/ Reached(m)
    BY <1>1, <2>1, <2>2, Inserted DEF Taken, Reached
  <2>. QED
    BY <1>2, <2>2, <2>3, OpenedOrClosed
<1>11. ASSUME NEW h \in Handlers, UpdateBranchConfig(h) PROVE Reached(m)
  <2>1. Answers(h) /\ UNCHANGED freed
    BY <1>11 DEF UpdateBranchConfig
  <2>2. Taken(m)' => Taken(m)
    BY <1>1, <1>11, <2>1, Saved DEF Taken
  <2>. QED
    BY <1>2, <2>1, <2>2, OpenedOrClosed
<1>12. ASSUME NEW h \in Handlers, NEW n \in Numbers, PublishBranch(h, n) PROVE Reached(m)
  <2>1. Taken(m)' => Taken(m)
    BY <1>1, <1>12, MadeLive DEF PublishBranch, Taken
  <2>. QED
    BY <1>4, <1>12, <2>1 DEF PublishBranch, AtOnce
<1>13. ASSUME NEW h \in Handlers, DeleteBranch(h) PROVE Reached(m)
  <2>1. Answers(h)
    BY <1>13 DEF DeleteBranch
  <2>2. \A n \in Numbers : n \in freed' => n \in freed \/ rows[n] # None
    BY <1>13 DEF DeleteBranch
  <2>3. Taken(m)' => Taken(m)
    BY <1>1, <1>13, <2>2, Deleted DEF Taken
  <2>. QED
    BY <1>2, <2>1, <2>3, OpenedOrClosed
<1>. QED
  BY <1>5, <1>6, <1>7, <1>8, <1>9, <1>10, <1>11, <1>12, <1>13, NextIs

LEMMA GaplessKept == NumberInv /\ Gapless /\ [Next]_vars => Gapless'
<1>. SUFFICES ASSUME NumberInv, Gapless, [Next]_vars, NEW m \in Numbers, NEW n \in Numbers,
                     n < m, Reached(m)'
              PROVE  Taken(n)'
  BY DEF Gapless
<1>1. CASE Reached(m)
  BY <1>1, TakenKept DEF Gapless
<1>2. CASE m # 1 /\ rows[m - 1] # None
  <2>1. m - 1 \in Numbers /\ n <= m - 1
    BY <1>2, BuilderAssumption DEF BuilderAssumption, Numbers
  <2>2. Reached(m - 1) /\ Taken(m - 1)
    BY <1>2 DEF Reached, Taken
  <2>3. n = m - 1 \/ n < m - 1
    BY <2>1 DEF Numbers
  <2>4. Taken(n)
    BY <2>1, <2>2, <2>3 DEF Gapless
  <2>. QED
    BY <2>4, TakenKept
<1>3. m # 1
  BY DEF Numbers
<1>. QED
  BY <1>1, <1>2, <1>3, ReachedOnce

LEMMA CurrentKept == NumberInv /\ PublishedKept /\ CurrentInv /\ [Next]_vars => CurrentInv'
<1>. SUFFICES ASSUME NumberInv, PublishedKept, CurrentInv, [Next]_vars PROVE CurrentInv'
  OBVIOUS
<1>1. TypeOK /\ published \in SUBSET Numbers
  BY DEF NumberInv, TypeOK
<1>2. Gapless'
  BY GaplessKept DEF CurrentInv
<1>3. ASSUME NEW h \in Handlers, Publish(h) PROVE CurrentIsNewest'
  <2>1. PICK n \in Numbers : n = calls[h].num
    BY <1>1, <1>3, CallIs DEF Publish, Freezing, Doing, TypeOK
  <2>2. /\ rows[n] = None /\ current' = n /\ published' = published \cup {n} /\ freed' = freed
        /\ Freezes(h)
    BY <1>3, <2>1 DEF Publish, Freezing, Freezes
  <2>3. ASSUME NEW m \in published, n < m PROVE n \in freed
    <3>1. Reached(m) /\ m \in Numbers
      BY <1>1 DEF PublishedKept, Reached, Taken
    <3>2. Taken(n)
      BY <2>3, <3>1 DEF CurrentInv, Gapless
    <3>. QED
      BY <2>2, <3>2 DEF Taken
  <2>4. \A m \in published : m <= n \/ n < m
    BY <1>1 DEF Numbers
  <2>5. n <= n
    BY DEF Numbers
  <2>. QED
    BY <2>2, <2>3, <2>4, <2>5 DEF CurrentIsNewest
<1>4. ASSUME UNCHANGED <<current, published>>, freed \subseteq freed' PROVE CurrentIsNewest'
  BY <1>4 DEF CurrentInv, CurrentIsNewest
<1>5. ASSUME NEW h \in Handlers, DeleteBranch(h) PROVE CurrentIsNewest'
  BY <1>1, <1>4, <1>5, Deleted DEF DeleteBranch, agent
<1>6. ASSUME UNCHANGED vars \/ UNCHANGED <<current, published, freed>> PROVE CurrentIsNewest'
  BY <1>4, <1>6 DEF vars, agent, versions
<1>7. CurrentIsNewest'
  BY <1>3, <1>5, <1>6, NextIs DEF InsertAgent, Archive, SaveColumn, ReadMessage,
     StoreTranslation, ReadConfig, NextVersion, CreateBranch, ReadBranch, UpdateBranchConfig,
     PublishBranch, CheckOffline, DeleteNodes, SaveWorkflow, Fail, agent, versions
<1>. QED
  BY <1>2, <1>7 DEF CurrentInv
-----------------------------------------------------------------------------
(* Translations and workflows. *)
Elsewhere ==
  /\ UNCHANGED <<config, translation, workflow>>
  /\ \A g \in Handlers, op \in {"translate", "workflow"} :
       Doing(g, op)' => Doing(g, op) /\ calls'[g] = calls[g]

LEMMA MostlyElsewhere ==
  ASSUME NumberInv, [Next]_vars
  PROVE  \/ Elsewhere
         \/ \E h \in Handlers :
              \/ \E c \in Columns : SaveColumn(h, c)
              \/ ReadMessage(h) \/ StoreTranslation(h)
              \/ DeleteNodes(h) \/ SaveWorkflow(h)
<1>1. TypeOK
  BY DEF NumberInv
<1>. USE DEF agent, versions
<1>2. ASSUME UNCHANGED <<config, translation, workflow, calls>> PROVE Elsewhere
  BY <1>2 DEF Elsewhere, Doing
<1>3. ASSUME NEW h \in Handlers, Others(h),
             calls'[h] = None \/ calls'[h].op \notin {"translate", "workflow"},
             UNCHANGED <<config, translation, workflow>>
      PROVE  Elsewhere
  BY <1>3 DEF Elsewhere, Doing, Others
<1>4. UNCHANGED vars \/ InsertAgent => Elsewhere
  BY <1>2 DEF vars, InsertAgent
<1>5. ASSUME NEW h \in Handlers, Archive(h) \/ \E n \in Numbers : PublishBranch(h, n)
      PROVE  Elsewhere
  BY <1>2, <1>5 DEF Archive, PublishBranch, AtOnce
<1>6. ASSUME NEW h \in Handlers, NEW op \in {"publish", "branch"}, ReadConfig(h, op)
      PROVE  Elsewhere
  BY <1>3, <1>6, OpenedOrClosed DEF ReadConfig
<1>7. ASSUME NEW h \in Handlers, NextVersion(h) PROVE Elsewhere
  <2>1. Others(h) /\ calls'[h].op \in {"publish", "branch"}
    BY <1>1, <1>7, NumberChosen DEF Others
  <2>. QED
    BY <1>3, <1>7, <2>1 DEF NextVersion
<1>8. ASSUME NEW h \in Handlers, NEW n \in Numbers, NEW c \in Columns, ReadBranch(h, n, c)
      PROVE  Elsewhere
  BY <1>3, <1>8, OpenedOrClosed DEF ReadBranch
<1>9. ASSUME NEW h \in Handlers, NEW n \in Numbers, CheckOffline(h, n) PROVE Elsewhere
  BY <1>3, <1>9, OpenedOrClosed DEF CheckOffline
<1>10. ASSUME NEW h \in Handlers, \/ Publish(h) \/ CreateBranch(h) \/ UpdateBranchConfig(h)
                                  \/ DeleteBranch(h) \/ Fail(h)
       PROVE  Elsewhere
  <2>1. Answers(h) /\ UNCHANGED <<config, translation, workflow>>
    BY <1>10 DEF Publish, CreateBranch, UpdateBranchConfig, DeleteBranch, Fail
  <2>. QED
    BY <1>3, <2>1, OpenedOrClosed
<1>. QED
  BY <1>4, <1>5, <1>6, <1>7, <1>8, <1>9, <1>10, NextIs

LEMMA TranslationKept == NumberInv /\ TranslationInv /\ [Next]_vars => TranslationInv'
<1>. SUFFICES ASSUME NumberInv, TranslationInv, [Next]_vars PROVE TranslationInv'
  OBVIOUS
<1>1. TypeOK /\ "first_message" \in Columns /\ asked \in Nat
  BY BuilderAssumption DEF BuilderAssumption, NumberInv, TypeOK
<1>2. ASSUME UNCHANGED <<config, translation>>,
             \A g \in Handlers : Doing(g, "translate")' =>
               \/ Doing(g, "translate") /\ calls'[g] = calls[g]
               \/ calls'[g].message = config["first_message"]
      PROVE  TranslationInv'
  BY <1>2 DEF TranslationInv, LocalizedIsCurrent, translation
<1>3. CASE Elsewhere
  BY <1>2, <1>3 DEF Elsewhere
<1>4. ASSUME NEW h \in Handlers, NEW c \in Columns, SaveColumn(h, c) PROVE TranslationInv'
  <2>1. /\ config' = [config EXCEPT ![c] = asked + 1] /\ calls' = calls
        /\ UNCHANGED translation
    BY <1>1, <1>4, AsksAtOnce DEF SaveColumn
  <2>2. CASE c = "first_message"
    <3>1. config'["first_message"] = asked + 1
      BY <1>1, <2>1, <2>2 DEF TypeOK, Snapshot
    <3>2. asked + 1 > translator
      BY <1>1 DEF NumberInv, Numbered, TypeOK
    <3>3. \A g \in Handlers : Doing(g, "translate") => asked + 1 > calls[g].no
      <4>1. \A g \in Handlers : calls[g] # None => calls[g].no \in Nat /\ calls[g].no <= asked
        BY CallIs DEF NumberInv, Numbered, TypeOK, Calls
      <4>. QED
        BY <1>1, <4>1 DEF Doing
    <3>. QED
      BY <2>1, <3>1, <3>2, <3>3 DEF TranslationInv, LocalizedIsCurrent, Doing, translation
  <2>3. CASE c # "first_message"
    <3>1. config'["first_message"] = config["first_message"]
      BY <1>1, <2>1, <2>3 DEF TypeOK, Snapshot
    <3>. QED
      BY <2>1, <3>1 DEF TranslationInv, LocalizedIsCurrent, Doing, translation
  <2>. QED
    BY <2>2, <2>3
<1>5. ASSUME NEW h \in Handlers, ReadMessage(h) PROVE TranslationInv'
  <2>1. Others(h) /\ calls'[h].message = config["first_message"]
    BY <1>5, OpenedOrClosed
  <2>. QED
    BY <1>2, <1>5, <2>1 DEF ReadMessage, Others, Doing
<1>6. ASSUME NEW h \in Handlers, StoreTranslation(h) PROVE TranslationInv'
  <2>1. /\ Doing(h, "translate") /\ localized' = calls[h].message /\ translator' = calls[h].no
        /\ UNCHANGED config
    BY <1>6 DEF StoreTranslation
  <2>2. Others(h) /\ calls'[h] = None
    BY <1>6, OpenedOrClosed DEF StoreTranslation
  <2>. QED
    BY <2>1, <2>2 DEF TranslationInv, LocalizedIsCurrent, Others, Doing
<1>7. ASSUME NEW h \in Handlers, DeleteNodes(h) \/ SaveWorkflow(h) PROVE TranslationInv'
  <2>1. Others(h) /\ (calls'[h] = None \/ calls'[h].op = "workflow")
        /\ UNCHANGED <<config, translation>>
    BY <1>7, OpenedOrClosed DEF DeleteNodes, SaveWorkflow
  <2>. QED
    BY <1>2, <2>1 DEF Others, Doing
<1>. QED
  BY <1>3, <1>4, <1>5, <1>6, <1>7, MostlyElsewhere

LEMMA GraphKept == NumberInv /\ GraphInv /\ [Next]_vars => GraphInv'
<1>. SUFFICES ASSUME NumberInv, GraphInv, [Next]_vars PROVE GraphInv'
  OBVIOUS
<1>1. TypeOK
  BY DEF NumberInv
<1>2. ASSUME UNCHANGED workflow,
             \A g \in Handlers : Doing(g, "workflow")' =>
               Doing(g, "workflow") /\ calls'[g] = calls[g]
      PROVE  GraphInv'
  BY <1>2 DEF GraphInv, GraphOfOneSave, workflow
<1>3. CASE Elsewhere
  BY <1>2, <1>3 DEF Elsewhere
<1>4. ASSUME NEW h \in Handlers, NEW c \in Columns, SaveColumn(h, c) PROVE GraphInv'
  BY <1>2, <1>4 DEF SaveColumn, AtOnce, Doing
<1>5. ASSUME NEW h \in Handlers, ReadMessage(h) \/ StoreTranslation(h) PROVE GraphInv'
  <2>1. Others(h) /\ (calls'[h] = None \/ calls'[h].op = "translate") /\ UNCHANGED workflow
    BY <1>5, OpenedOrClosed DEF ReadMessage, StoreTranslation
  <2>. QED
    BY <1>2, <2>1 DEF Others, Doing
<1>6. ASSUME NEW h \in Handlers, DeleteNodes(h) PROVE GraphInv'
  <2>1. /\ Others(h) /\ calls'[h].no = asked + 1 /\ calls'[h].found = graph
        /\ calls[h] = None /\ UNCHANGED graph /\ asked' = asked + 1
        /\ beside' = beside \cup {{calls[g].no, asked'} :
                                    g \in {k \in Handlers : Doing(k, "workflow")}}
    BY <1>6, OpenedOrClosed DEF DeleteNodes, Takes
  <2>2. \A g \in Handlers \ {h} : Doing(g, "workflow")' <=> Doing(g, "workflow")
    BY <2>1 DEF Others, Doing
  <2>3. GraphOfOneSave'
    BY <2>1 DEF GraphInv, GraphOfOneSave
  <2>4. ASSUME NEW g \in Handlers, Doing(g, "workflow")'
        PROVE  \A s \in graph' \ calls'[g].found : {s, calls'[g].no} \in beside'
    <3>1. CASE g = h
      BY <2>1, <3>1
    <3>2. CASE g # h
      BY <2>1, <2>2, <2>4, <3>2 DEF GraphInv, Others
    <3>. QED
      BY <3>1, <3>2
  <2>5. ASSUME NEW g \in Handlers \ {h}, Doing(g, "workflow")'
        PROVE  {calls'[g].no, calls'[h].no} \in beside'
    <3>1. Doing(g, "workflow") /\ calls'[g] = calls[g]
      BY <2>1, <2>2, <2>5 DEF Others
    <3>2. {calls[g].no, asked'} \in beside'
      BY <2>1, <3>1
    <3>. QED
      BY <2>1, <3>1, <3>2
  <2>6. ASSUME NEW f \in Handlers, NEW g \in Handlers, Doing(f, "workflow")',
               Doing(g, "workflow")', f # g
        PROVE  {calls'[f].no, calls'[g].no} \in beside'
    <3>1. CASE g = h
      BY <2>5, <2>6, <3>1
    <3>2. CASE f = h
      <4>1. {calls'[g].no, calls'[h].no} \in beside'
        BY <2>5, <2>6, <3>2
      <4>2. {calls'[f].no, calls'[g].no} = {calls'[g].no, calls'[h].no}
        BY <3>2
      <4>. QED
        BY <4>1, <4>2
    <3>3. CASE f # h /\ g # h
      BY <2>1, <2>2, <2>6, <3>3 DEF GraphInv, Others
    <3>. QED
      BY <3>1, <3>2, <3>3
  <2>. QED
    BY <2>3, <2>4, <2>6 DEF GraphInv
<1>7. ASSUME NEW h \in Handlers, SaveWorkflow(h) PROVE GraphInv'
  <2>. DEFINE no == calls[h].no
  <2>1. /\ Doing(h, "workflow") /\ graph' = (graph \ calls[h].found) \cup {no}
        /\ UNCHANGED beside
    BY <1>7 DEF SaveWorkflow
  <2>2. Others(h) /\ calls'[h] = None
    BY <1>7, OpenedOrClosed DEF SaveWorkflow
  <2>3. \A g \in Handlers : Doing(g, "workflow")' =>
          g # h /\ Doing(g, "workflow") /\ calls'[g] = calls[g]
    BY <2>2 DEF Others, Doing
  <2>4. \A s \in graph' : s # no => s \in graph /\ {s, no} \in beside
    BY <2>1 DEF GraphInv
  <2>5. GraphOfOneSave'
    <3>. SUFFICES ASSUME NEW s \in graph', NEW t \in graph', s # t
                  PROVE  {s, t} \in beside
      BY <2>1 DEF GraphOfOneSave
    <3>1. CASE s = no
      <4>1. {t, no} \in beside /\ {s, t} = {t, no}
        BY <2>4, <3>1
      <4>. QED
        BY <4>1
    <3>2. CASE t = no
      BY <2>4, <3>2
    <3>3. CASE s # no /\ t # no
      BY <2>4, <3>3 DEF GraphInv, GraphOfOneSave
    <3>. QED
      BY <3>1, <3>2, <3>3
  <2>6. ASSUME NEW g \in Handlers, Doing(g, "workflow")', NEW s \in graph' \ calls'[g].found
        PROVE  {s, calls'[g].no} \in beside
    <3>1. g # h /\ Doing(g, "workflow") /\ calls'[g] = calls[g]
      BY <2>3, <2>6
    <3>2. CASE s = no
      BY <2>1, <3>1, <3>2 DEF GraphInv
    <3>3. CASE s # no
      BY <2>4, <2>6, <3>1, <3>3 DEF GraphInv
    <3>. QED
      BY <3>2, <3>3
  <2>. QED
    BY <2>1, <2>3, <2>5, <2>6 DEF GraphInv
<1>. QED
  BY <1>3, <1>4, <1>5, <1>6, <1>7, MostlyElsewhere
-----------------------------------------------------------------------------
(* Saves of a branch. *)
LEMMA SnapshotsStay ==
  ASSUME NumberInv, [Next]_vars, NEW n \in Numbers, rows[n] # None, rows'[n] # None,
         rows'[n].snap # rows[n].snap
  PROVE  \E h \in Handlers : UpdateBranchConfig(h)
<1>1. TypeOK
  BY DEF NumberInv
<1>2. rows'[n] # rows[n]
  OBVIOUS
<1>3. ~InsertAgent
  BY DEF InsertAgent, NumberInv, NotYet
<1>4. ASSUME NEW h \in Handlers, Publish(h) \/ CreateBranch(h) PROVE FALSE
  <2>1. PICK live \in BOOLEAN : rows' = [rows EXCEPT ![calls[h].num] = NewRow(h, live)]
    BY <1>4 DEF Publish, CreateBranch
  <2>2. Freezes(h) /\ calls[h].num # 0 /\ rows[calls[h].num] = None
    BY <1>4 DEF Publish, CreateBranch, Freezing, Freezes
  <2>3. \A m \in Numbers \ {calls[h].num} : rows'[m] = rows[m]
    BY <1>1, <2>1, <2>2, Inserted
  <2>. QED
    BY <1>2, <2>2, <2>3
<1>5. ASSUME NEW h \in Handlers, NEW m \in Numbers, PublishBranch(h, m) PROVE FALSE
  BY <1>1, <1>5, MadeLive
<1>6. ASSUME NEW h \in Handlers, DeleteBranch(h) PROVE FALSE
  BY <1>1, <1>2, <1>6, Deleted
<1>. QED
  BY <1>2, <1>3, <1>4, <1>5, <1>6, NextIs DEF vars, versions, Archive, SaveColumn, ReadMessage,
     StoreTranslation, ReadConfig, NextVersion, ReadBranch, CheckOffline, DeleteNodes,
     SaveWorkflow, Fail

LEMMA SaveStep ==
  ASSUME NumberInv, [Next]_vars, NEW n \in Numbers, NEW c \in Columns,
         rows[n] # None, rows'[n] # None
  PROVE  \/ rows'[n].snap[c] = rows[n].snap[c]
         \/ \E h \in Handlers :
              /\ Doing(h, "save") /\ calls'[h] = None
              /\ calls[h].id = rows[n].id
              /\ \/ calls[h].col = c
                 \/ calls[h].snap[c] # rows[n].snap[c]
<1>1. CASE rows'[n].snap = rows[n].snap
  BY <1>1
<1>2. CASE rows'[n].snap # rows[n].snap
  <2>1. PICK h \in Handlers : UpdateBranchConfig(h)
    BY <1>2, SnapshotsStay
  <2>2. Doing(h, "save") /\ calls'[h] = None
    BY <2>1, OpenedOrClosed DEF UpdateBranchConfig
  <2>3. /\ calls[h].id = rows[n].id
        /\ c # calls[h].col => rows'[n].snap[c] = calls[h].snap[c]
    BY <1>2, <2>1, Saved DEF NumberInv
  <2>. QED
    BY <2>2, <2>3
<1>. QED
  BY <1>1, <1>2

-----------------------------------------------------------------------------
IInv == NumberInv /\ KeptInv /\ CurrentInv /\ TranslationInv /\ GraphInv

LEMMA InvInit == Init => IInv
<1>. SUFFICES ASSUME Init PROVE IInv
  OBVIOUS
<1>1. TypeOK
  BY InitTyped
<1>2. /\ \A h \in Handlers, op \in {"publish", "branch", "save", "delete", "translate", "workflow"} :
           ~Doing(h, op)
      /\ \A n \in Numbers : rows[n] = None
  BY DEF Init, Doing
<1>3. /\ asked = 0 /\ translator = 0 /\ localized = 0 /\ published = {} /\ freed = {}
      /\ graph = {} /\ current = 0 /\ config = [c \in Columns |-> 0]
  BY DEF Init, Created
<1>4. NumberInv
  BY <1>1, <1>2, <1>3 DEF Init, NumberInv, NotYet, Numbered, OneId, Targets, Freezes
<1>5. KeptInv
  BY <1>3 DEF KeptInv, PublishedKept, DeletesSpare
<1>6. CurrentInv
  BY <1>2, <1>3 DEF CurrentInv, Gapless, Reached, Taken, Freezes, CurrentIsNewest
<1>7. TranslationInv
  BY <1>2, <1>3, BuilderAssumption DEF BuilderAssumption, TranslationInv, LocalizedIsCurrent
<1>8. GraphInv
  BY <1>2, <1>3 DEF GraphInv, GraphOfOneSave
<1>. QED
  BY <1>4, <1>5, <1>6, <1>7, <1>8 DEF IInv

LEMMA InvKept == IInv /\ [Next]_vars => IInv'
BY NumberKept, KeptKept, CurrentKept, TranslationKept, GraphKept DEF IInv, KeptInv

LEMMA InvHolds == Spec => []IInv
BY InvInit, InvKept, PTL DEF Spec

(* What publish made stays, and stays live, whatever deletions are under   *)
(* way: for any number of requests at once. *)
THEOREM PublishedStays == Spec => []PublishedKept
<1>. IInv => PublishedKept
  BY DEF IInv, KeptInv
<1>. QED
  BY InvHolds, PTL

(* The agent runs on the newest version publish made, but for a publish    *)
(* that was overtaken by a branch which was deleted since. *)
THEOREM CurrentNewest == Spec => []CurrentIsNewest
<1>. IInv => CurrentIsNewest
  BY DEF IInv, CurrentInv
<1>. QED
  BY InvHolds, PTL

(* A translation belongs to the message in use, and a workflow to one      *)
(* save, but for requests that overlapped. *)
THEOREM SavedWhole == Spec => []SavedIsWhole
<1>. IInv => SavedIsWhole
  BY DEF IInv, TranslationInv, GraphInv, SavedIsWhole
<1>. QED
  BY InvHolds, PTL

(* No save of a branch undoes another one's, but for one that ran beside   *)
(* it or saved the same column. *)
THEOREM SavesSurvived == Spec => SavesSurvive
<1>1. ASSUME IInv, [Next]_vars
      PROVE  [\A n \in Numbers, c \in Columns :
               (rows[n] # None /\ rows'[n] # None) =>
                 \/ rows'[n].snap[c] = rows[n].snap[c]
                 \/ \E h \in Handlers :
                      /\ Doing(h, "save") /\ calls'[h] = None
                      /\ calls[h].id = rows[n].id
                      /\ \/ calls[h].col = c
                         \/ calls[h].snap[c] # rows[n].snap[c]]_vars
  BY <1>1, SaveStep DEF IInv
<1>. QED
  BY <1>1, InvHolds, PTL DEF Spec, SavesSurvive
===============================================================================
