------------------------------ MODULE AgentConsole ------------------------------
(***************************************************************************)
(* The admin frontend's agent page (app/agents/[id]/page.tsx and its tabs  *)
(* components/tabs/*.tsx), open at several admins at once.  The page       *)
(* collects the edits of all tabs in a draft laid over the configuration   *)
(* it last fetched, and one Save sends the draft.  The server behind the   *)
(* agent's config route is external: it merges the columns it is sent, or  *)
(* fails. *)
(***************************************************************************)
EXTENDS WorkspaceServer

CONSTANTS
  Pages,     \* admins with the page open
  Members,   \* values of a plain column, members of a list
  InUse,     \* sets of columns to work on together
  MaxClicks  \* bound on edits and saves

Texts == {"prompt", "voice", "llm", "rag", "timing", "mode", "guardrail"}
Lists == {"domains", "allowlist"}
Columns == Texts \cup Lists

Configs == [Columns -> SUBSET Members]

ASSUME ConsoleAssumption == InUse \subseteq SUBSET Columns /\ MaxClicks \in Nat

Blank == [c \in Columns |-> {}]
Patches == UNION {[C -> SUBSET Members] : C \in SUBSET Columns}

(* The patch laid over what it does not name. *)
Over(patch, config) ==
  [c \in DOMAIN config \cup DOMAIN patch |->
     IF c \in DOMAIN patch THEN patch[c] ELSE config[c]]

VARIABLES
  used,     \* the columns the admins work on
  stored,   \* the server's configuration
  shown,    \* the query cache of a page, a blank placeholder at first
  draft,    \* edits of a page, by column
  dirty,    \* Save is offered
  sending,  \* the save in flight: what it sends, and whether it is stored
  \* history
  mine,     \* what the page's admin entered since the last save answered
  base,     \* what the page showed of a column when it was first edited
  taken     \* list members its admin removed since then

console == <<used, stored, shown, draft, dirty, sending, mine, base, taken>>

PageTypeOK ==
  /\ used \subseteq Columns
  /\ stored \in Configs
  /\ shown \in [Pages -> Configs]
  /\ draft \in [Pages -> Patches]
  /\ dirty \in [Pages -> BOOLEAN]
  /\ sending \in [Pages -> [patch : Patches, stored : BOOLEAN] \cup {None}]
  /\ mine \in [Pages -> SUBSET (Columns \X Members)]
  /\ base \in [Pages -> Configs]
  /\ taken \in [Pages -> SUBSET (Columns \X Members)]

ConsoleInit ==
  /\ used \in IF kind = "page" THEN InUse ELSE {{}}
  /\ stored \in {Over(lists, Blank) : lists \in [used \cap Lists -> SUBSET Members]}
  /\ shown = [h \in Pages |-> Blank]
  /\ draft = [h \in Pages |-> <<>>]
  /\ dirty = [h \in Pages |-> FALSE]
  /\ sending = [h \in Pages |-> None]
  /\ mine = [h \in Pages |-> {}]
  /\ base = [h \in Pages |-> Blank]
  /\ taken = [h \in Pages |-> {}]

-----------------------------------------------------------------------------
(* Mutant of Effective: the tabs get the configuration without the draft. *)
Fetched(h) == shown[h]

(* effectiveConfig, what the tabs show and build on. *)
Effective(h) == Over(draft[h], shown[h])

Counted == asked < MaxClicks /\ asked' = asked + 1

(* handleChange of a patch of one column. *)
Change(h, c, value) ==
  /\ Counted
  /\ c \in used
  /\ draft' = [draft EXCEPT ![h] = Over([k \in {c} |-> value], @)]
  /\ dirty' = [dirty EXCEPT ![h] = TRUE]
  /\ base' = IF c \in DOMAIN draft[h] THEN base ELSE [base EXCEPT ![h][c] = shown[h][c]]
  /\ UNCHANGED <<used, stored, shown, sending>>

(* A plain column is set to what was entered. *)
Enter(h, c, m) ==
  /\ c \in Texts
  /\ Change(h, c, {m})
  /\ mine' = [mine EXCEPT ![h] = {e \in @ : e[1] # c} \cup {<<c, m>>}]
  /\ UNCHANGED taken

PromptSection(h, m) == Enter(h, "prompt", m)
VoiceSection(h, m) == Enter(h, "voice", m)
LlmSection(h, m) == Enter(h, "llm", m)
AgentTab(h, m) == PromptSection(h, m) \/ VoiceSection(h, m) \/ LlmSection(h, m)
KnowledgeBaseTab(h, m) == Enter(h, "rag", m)
AdvancedTab(h, m) == Enter(h, "timing", m)

(* Mutant of Added: only what the draft has of the list is built on. *)
AddedToDraft(h, c, m) ==
  (IF c \in DOMAIN draft[h] THEN draft[h][c] ELSE {}) \cup {m}

Added(h, c, m) == Effective(h)[c] \cup {m}

(* A list column is set to the list shown with one member more or less. *)
Add(h, c, m) ==
  /\ Change(h, c, Added(h, c, m))
  /\ mine' = [mine EXCEPT ![h] = @ \cup {<<c, m>>}]
  /\ UNCHANGED taken

Remove(h, c, m) ==
  /\ m \in Effective(h)[c]
  /\ Change(h, c, Effective(h)[c] \ {m})
  /\ mine' = [mine EXCEPT ![h] = @ \ {<<c, m>>}]
  /\ taken' = [taken EXCEPT ![h] = @ \cup {<<c, m>>}]

WidgetTab(h, m) ==
  Enter(h, "mode", m) \/ Add(h, "domains", m) \/ Remove(h, "domains", m)

Allowlist(h, m) == Add(h, "allowlist", m) \/ Remove(h, "allowlist", m)
SecurityTab(h, m) == Enter(h, "guardrail", m) \/ Allowlist(h, m)

-----------------------------------------------------------------------------
(* The button is offered for a dirty page without a save in flight. *)
Save(h) ==
  /\ Counted
  /\ dirty[h] /\ sending[h] = None
  /\ sending' = [sending EXCEPT ![h] = [patch |-> draft[h], stored |-> FALSE]]
  /\ UNCHANGED <<used, stored, shown, draft, dirty, mine, base, taken>>

InFlight(h, done) == sending[h] # None /\ sending[h].stored = done
Ends(h) == sending' = [sending EXCEPT ![h] = None] /\ UNCHANGED asked

(* The server merges the columns it is sent ... *)
Store(h) ==
  /\ InFlight(h, FALSE)
  /\ stored' = Over(sending[h].patch, stored)
  /\ sending' = [sending EXCEPT ![h].stored = TRUE]
  /\ UNCHANGED <<used, asked, shown, draft, dirty, mine, base, taken>>

(* ... and on its answer the page drops the draft and every edit in it,    *)
(* those made since the button was pressed too; the fetch this starts      *)
(* arrives later. *)
Saved(h) ==
  /\ InFlight(h, TRUE)
  /\ draft' = [draft EXCEPT ![h] = <<>>]
  /\ dirty' = [dirty EXCEPT ![h] = FALSE]
  /\ mine' = [mine EXCEPT ![h] = {}]
  /\ base' = [base EXCEPT ![h] = Blank]
  /\ taken' = [taken EXCEPT ![h] = {}]
  /\ Ends(h)
  /\ UNCHANGED <<used, stored, shown>>

(* An error, or no answer, from the server; the page keeps its draft. *)
SaveFails(h) ==
  /\ sending[h] # None
  /\ Ends(h)
  /\ UNCHANGED <<used, stored, shown, draft, dirty, mine, base, taken>>

(* The query arrives: on mount, on focus, or after a save. *)
Fetch(h) ==
  /\ shown' = [shown EXCEPT ![h] = stored]
  /\ UNCHANGED <<used, asked, stored, draft, dirty, sending, mine, base, taken>>

ConsoleNext ==
  /\ kind = "page"
  /\ UNCHANGED <<kind, calls>>
  /\ \E h \in Pages :
       \/ \E m \in Members :
            \/ AgentTab(h, m)
            \/ KnowledgeBaseTab(h, m)
            \/ AdvancedTab(h, m)
            \/ WidgetTab(h, m)
            \/ SecurityTab(h, m)
       \/ Save(h)
       \/ Store(h)
       \/ Saved(h)
       \/ SaveFails(h)
       \/ Fetch(h)

-----------------------------------------------------------------------------
(* page.tsx: what an admin entered on any tab is in the page's draft until *)
(* a save is answered, whatever failed, was fetched or was edited on other *)
(* tabs in between.  (The answer also drops what was entered while the     *)
(* save was in flight.) *)
EditsSurvive ==
  kind = "page" =>
    \A h \in Pages : \A e \in mine[h] :
      e[1] \in DOMAIN draft[h] /\ e[2] \in draft[h][e[1]]

(* page.tsx and the tabs' lists: a save changes only columns its admin     *)
(* edited, and of a list it takes out no member the page showed when the   *)
(* list was first edited unless its admin removed that member.  (Members   *)
(* the page did not show, as before the first fetch or after another's     *)
(* save, are taken out.) *)
OthersAreKept ==
  [][ kind = "page" /\ stored' # stored =>
        \E h \in Pages :
          /\ InFlight(h, FALSE)
          /\ \A c \in Columns :
               /\ stored'[c] # stored[c] => c \in DOMAIN draft[h]
               /\ c \in Lists =>
                    \A m \in stored[c] \cap base[h][c] :
                      m \in stored'[c] \/ <<c, m>> \in taken[h] ]_stored
=============================================================================
