------------------------------- MODULE DeskCall -------------------------------
(***************************************************************************)
(* The call an agent works on, and the team a supervisor watches: the      *)
(* workspace, context panel, top bar and supervisor monitor of one page of *)
(* frontend/ (store/desktopStore.ts, hooks/useDesktopWebSocket.ts), with   *)
(* the handlers of desktop.controller.ts and the rooms of                  *)
(* desktop.gateway.ts behind them.  Requests take any time, in any order,  *)
(* and their answers are applied to whatever the page shows by then.  How  *)
(* a call comes on the queue, and who gets it, is HandoffDesk.  The turns  *)
(* that are sent to a room are left out.                                   *)
(***************************************************************************)
EXTENDS Integers, Sequences, FiniteSets
Seqs == INSTANCE SequencesExt

CONSTANTS
  Cids,      \* calls the agent may accept
  Statuses,  \* the agent's availability
  Fetches,   \* requests for the team under way at once
  MaxActs,   \* bound on the clicks that send a request
  MaxDrops   \* bound on the losses of the socket

None == <<>>

ASSUME DeskAssumption ==
  /\ None \notin Cids
  /\ "offline" \in Statuses
  /\ MaxActs \in Nat
  /\ MaxDrops \in Nat

(* Buttons that switch something of the call on and off. *)
Switches == {"hold", "mute"}

(* The parts share no state but the active call. *)
Duties == {"switches", "dialogs", "panel", "socket", "status"}

Request ==
  [op : Switches, cid : Cids, val : BOOLEAN, no : 1..MaxActs,
   at : {"sent", "done", "lost"}]
  \cup [op : {"accept", "end", "transfer", "disposition"}, cid : Cids,
        val : Cids \cup {None}, no : 1..MaxActs, at : {"sent", "done", "lost"}]
  \cup [op : {"status"}, cid : {None}, val : Statuses, no : 1..MaxActs,
        at : {"sent", "stored", "done", "lost"}]

VARIABLES
  duty,       \* bound: the part of the pages that a behaviour uses, besides
              \* opening and closing calls
  \* the agent's page
  activeCall,
  flag,       \* its on_hold and muted
  wrapUp,     \* showWrapUpDialog
  transfer,   \* showTransferDialog
  form,       \* the call whose code is in the wrap-up dialog
  tab,        \* the history tab is open
  items,      \* the call whose caller's history it has
  lookups,    \* its requests under way, the oldest first
  thrown,     \* the page has thrown and is unmounted
  requests,   \* requests under way
  acts,       \* requests sent so far
  \* the socket and the gateway
  ref,        \* activeCidRef
  connected,  \* the socket is connected
  up,         \* joins and leaves on their way, or buffered
  rooms,      \* rooms the socket is in
  drops,      \* losses of the socket
  \* the API
  issued,     \* the last command published for each call and switch
  saved,      \* conversations.disposition_code: the call it was chosen for
  stored,     \* agent:status in Redis
  \* the supervisor's page
  notices,    \* status changes on their way to it
  team,       \* the status it shows
  fetch,      \* GET /desktop/team: nothing, asked, or the answer
  \* history
  unsure,     \* calls and switches whose flag something got in the way of
  carried,    \* calls opened under an open wrap-up dialog
  overtaken,  \* calls opened while a disposition was under way
  completed,  \* calls taken off the page by Complete
  crossed     \* a history was answered before an older request

page == <<activeCall, flag, wrapUp, transfer, form>>
panel == <<tab, items, lookups, crossed>>
socket == <<ref, connected, up, rooms, drops>>
api == <<issued, saved>>
supervisor == <<stored, notices, team, fetch>>
traces == <<unsure, carried, overtaken, completed>>
pageVars == <<duty, page, panel, socket, api, supervisor, traces, thrown, requests, acts>>

PageTypeOK ==
  /\ duty \in Duties
  /\ activeCall \in Cids \cup {None}
  /\ flag \in [Switches -> BOOLEAN]
  /\ {wrapUp, transfer, tab, thrown, connected, crossed} \subseteq BOOLEAN
  /\ form \in Cids \cup {None}
  /\ items \in Cids \cup {None}
  /\ lookups \in Seq(Cids)
  /\ requests \subseteq Request
  /\ acts \in 0..MaxActs
  /\ ref \in Cids \cup {None}
  /\ up \in Seq([says : {"join", "leave"}, cid : Cids])
  /\ rooms \subseteq Cids
  /\ drops \in 0..MaxDrops
  /\ issued \in [Cids -> [Switches -> BOOLEAN]]
  /\ saved \in [Cids -> Cids \cup {None}]
  /\ stored \in Statuses
  /\ notices \in Seq(Statuses)
  /\ team \in Statuses
  /\ fetch \in [Fetches -> Statuses \cup {"none", "asked"}]
  /\ unsure \subseteq Cids \X Switches
  /\ carried \subseteq Cids
  /\ overtaken \subseteq Cids
  /\ completed \subseteq Cids

PageInit ==
  /\ duty \in Duties
  /\ activeCall = None
  /\ flag = [s \in Switches |-> FALSE]
  /\ wrapUp = FALSE /\ transfer = FALSE /\ form = None
  /\ tab = FALSE /\ items = None /\ lookups = <<>> /\ crossed = FALSE
  /\ thrown = FALSE /\ requests = {} /\ acts = 0
  /\ ref = None /\ connected = TRUE /\ up = <<>> /\ rooms = {} /\ drops = 0
  /\ issued = [c \in Cids |-> [s \in Switches |-> FALSE]]
  /\ saved = [c \in Cids |-> None]
  /\ stored = "offline" /\ team = "offline"
  /\ notices = <<>>
  /\ fetch = [f \in Fetches |-> "none"]
  /\ unsure = {} /\ carried = {} /\ overtaken = {} /\ completed = {}

-----------------------------------------------------------------------------
(* A click sends a request; nothing disables the button until the answer. *)
Sends(op, c, val) ==
  /\ ~thrown
  /\ acts < MaxActs
  /\ acts' = acts + 1
  /\ requests' = requests \cup
       {[op |-> op, cid |-> c, val |-> val, no |-> acts', at |-> "sent"]}

Pending(op, c) == {r \in requests : r.op = op /\ r.cid = c}

(* handleAccept of the queue panel. *)
ClickAccept(c) ==
  /\ duty # "status"
  /\ Sends("accept", c, None)
  /\ UNCHANGED <<duty, page, panel, socket, api, supervisor, traces, thrown>>

(* Hold or unhold, as the page shows it. *)
ClickSwitch(s) ==
  /\ duty = "switches" /\ activeCall # None
  /\ Sends(s, activeCall, ~flag[s])
  /\ unsure' = IF Pending(s, activeCall) = {} THEN unsure ELSE unsure \cup {<<activeCall, s>>}
  /\ UNCHANGED <<duty, page, panel, socket, api, supervisor, carried, overtaken,
                 completed, thrown>>

HandleHold == ClickSwitch("hold")
HandleMute == ClickSwitch("mute")

ClickEndCall ==
  /\ duty = "dialogs" /\ activeCall # None
  /\ Sends("end", activeCall, None)
  /\ UNCHANGED <<duty, page, panel, socket, api, supervisor, traces, thrown>>

HandleTransfer ==
  /\ activeCall # None /\ transfer
  /\ Sends("transfer", activeCall, None)
  /\ UNCHANGED <<duty, page, panel, socket, api, supervisor, traces, thrown>>

(* Complete, of the wrap-up dialog, once a code is chosen. *)
HandleSubmit ==
  /\ activeCall # None /\ wrapUp /\ form # None
  /\ Sends("disposition", activeCall, form)
  /\ UNCHANGED <<duty, page, panel, socket, api, supervisor, traces, thrown>>

-----------------------------------------------------------------------------
(* What the agent does on the page alone. *)
Clicks ==
  /\ activeCall # None /\ ~thrown
  /\ UNCHANGED <<duty, flag, panel, socket, api, supervisor, traces, thrown,
                 requests, acts>>

ShowTransfer ==
  duty = "dialogs" /\ Clicks /\ transfer' = TRUE /\ UNCHANGED <<activeCall, wrapUp, form>>
CloseTransfer ==
  transfer /\ Clicks /\ transfer' = FALSE /\ UNCHANGED <<activeCall, wrapUp, form>>
ShowWrapUp == Clicks /\ wrapUp' = TRUE /\ UNCHANGED <<activeCall, transfer, form>>
ChooseCode ==
  /\ duty = "dialogs" /\ wrapUp /\ Clicks
  /\ form' = activeCall
  /\ UNCHANGED <<activeCall, wrapUp, transfer>>

(* Mutant of OnClose: the dialog is hidden and keeps its form. *)
OnCloseKeepsForm == activeCall' = None /\ wrapUp' = FALSE /\ UNCHANGED <<form, transfer>>

(* The wrap-up dialog's onClose takes the call off the page, whichever it  *)
(* is; the dialog is unmounted with its form. *)
OnClose == activeCall' = None /\ wrapUp' = FALSE /\ form' = None /\ UNCHANGED transfer

CancelWrapUp == wrapUp /\ Clicks /\ OnClose

(* The history tab is mounted and asks for the caller's history, or is     *)
(* unmounted and forgets what it asked. *)
OpenHistory ==
  /\ duty = "panel" /\ ~tab /\ ~thrown
  /\ tab' = TRUE
  /\ items' = None
  /\ lookups' = IF ref = None THEN <<>> ELSE <<ref>>
  /\ UNCHANGED <<duty, page, crossed, socket, api, supervisor, traces, thrown,
                 requests, acts>>

CloseHistory ==
  /\ tab /\ ~thrown
  /\ tab' = FALSE
  /\ items' = None
  /\ lookups' = <<>>
  /\ UNCHANGED <<duty, page, crossed, socket, api, supervisor, traces, thrown,
                 requests, acts>>

(* The i-th request for a history is answered or fails. *)
HistoryAnswered(i) ==
  /\ i \in 1..Len(lookups)
  /\ items' \in {lookups[i], None}
  /\ lookups' = Seqs!RemoveAt(lookups, i)
  /\ crossed' = (crossed \/ i > 1)
  /\ UNCHANGED <<duty, page, tab, socket, api, supervisor, traces, thrown,
                 requests, acts>>

(* Mutant of ActiveChanged: the history is fetched when the tab is opened. *)
ActiveChangedNoLookup ==
  /\ ref # activeCall /\ ~thrown
  /\ up' = up \o (IF ref = None THEN <<>> ELSE <<[says |-> "leave", cid |-> ref]>>)
              \o (IF activeCall = None THEN <<>> ELSE <<[says |-> "join", cid |-> activeCall]>>)
  /\ ref' = activeCall
  /\ UNCHANGED <<duty, page, panel, connected, rooms, drops, api, supervisor, traces,
                 thrown, requests, acts>>

(* The effects that follow a change of the active call: the room of one is *)
(* left and that of the other joined, and an open history tab asks for the *)
(* other's caller. *)
ActiveChanged ==
  /\ ref # activeCall /\ ~thrown
  /\ up' = up \o (IF ref = None THEN <<>> ELSE <<[says |-> "leave", cid |-> ref]>>)
              \o (IF activeCall = None THEN <<>> ELSE <<[says |-> "join", cid |-> activeCall]>>)
  /\ ref' = activeCall
  /\ lookups' = IF tab /\ activeCall # None THEN Append(lookups, activeCall) ELSE lookups
  /\ UNCHANGED <<duty, page, tab, items, crossed, connected, rooms, drops, api,
                 supervisor, traces, thrown, requests, acts>>

-----------------------------------------------------------------------------
(* The handlers of the API. *)
Moves(r, at) == requests' = (requests \ {r}) \cup {[r EXCEPT !.at = at]}

ServesSwitch(r) ==
  /\ r.op \in Switches
  /\ issued' = [issued EXCEPT ![r.cid][r.op] = r.val]
  /\ UNCHANGED saved

(* The UPDATE finds the conversation: Cids are calls that have a row.      *)
(* Without one the API would answer that it had saved all the same. *)
SaveDisposition(r) ==
  /\ r.op = "disposition"
  /\ saved' = [saved EXCEPT ![r.cid] = r.val]
  /\ UNCHANGED issued

(* acceptCall, and the commands that change nothing that is modelled. *)
ServesOther(r) == r.op \in {"accept", "end", "transfer"} /\ UNCHANGED api

Serve(r) ==
  /\ r \in requests /\ r.at = "sent"
  /\ ServesSwitch(r) \/ SaveDisposition(r) \/ ServesOther(r)
  /\ Moves(r, "done")
  /\ UNCHANGED <<duty, page, panel, socket, supervisor, traces, thrown, acts>>

(* A request fails in the API or on its way, or its answer is lost. *)
Lose(r) ==
  /\ r \in requests /\ r.at \in {"sent", "stored", "done"}
  /\ unsure' = IF r.op \in Switches /\ r.at = "done" THEN unsure \cup {<<r.cid, r.op>>}
                                                   ELSE unsure
  /\ Moves(r, "lost")
  /\ UNCHANGED <<duty, page, panel, socket, api, supervisor, carried, overtaken,
                 completed, thrown, acts>>

(* Mutant of Fail: the flag is set in a finally. *)
FailSetsFlag(r) ==
  /\ r \in requests /\ r.at = "lost"
  /\ requests' = requests \ {r}
  /\ flag' = IF r.op \in Switches /\ activeCall = r.cid THEN [flag EXCEPT ![r.op] = r.val]
                                                   ELSE flag
  /\ UNCHANGED <<duty, activeCall, wrapUp, transfer, form, panel, socket, api, supervisor,
                 traces, thrown, acts>>

(* The page logs a request that failed, and stays as it is. *)
Fail(r) ==
  /\ r \in requests /\ r.at = "lost"
  /\ requests' = requests \ {r}
  /\ UNCHANGED <<duty, page, panel, socket, api, supervisor, traces, thrown, acts>>

-----------------------------------------------------------------------------
(* The answers on the page. *)
Answered(r) == r \in requests /\ r.at = "done" /\ ~thrown /\ requests' = requests \ {r}
KeepsRest == UNCHANGED <<duty, panel, socket, api, supervisor, thrown, acts>>

(* The call becomes the active one, with its flags off, under whatever     *)
(* dialog is open. *)
SetActiveCall(r) ==
  /\ Answered(r) /\ r.op = "accept"
  /\ activeCall' = r.cid
  /\ flag' = [s \in Switches |-> FALSE]
  /\ carried' = IF activeCall # None /\ wrapUp /\ activeCall # r.cid THEN carried \cup {r.cid}
                                                            ELSE carried
  /\ overtaken' = IF \E q \in requests : q.op = "disposition" THEN overtaken \cup {r.cid}
                                                             ELSE overtaken
  /\ unsure' = unsure \cup {<<r.cid, s>> : s \in {t \in Switches :
                 issued[r.cid][t] \/ Pending(t, r.cid) # {}}}
  /\ UNCHANGED <<wrapUp, transfer, form, completed>>
  /\ KeepsRest

(* The flag is that of the active call, whichever the command was for. *)
SwitchAnswered(r) ==
  /\ Answered(r) /\ r.op \in Switches
  /\ flag' = IF activeCall = None THEN flag ELSE [flag EXCEPT ![r.op] = r.val]
  /\ unsure' = IF activeCall \in {None, r.cid} THEN unsure ELSE unsure \cup {<<activeCall, r.op>>}
  /\ UNCHANGED <<activeCall, wrapUp, transfer, form, carried, overtaken, completed>>
  /\ KeepsRest

EndAnswered(r) ==
  /\ Answered(r) /\ r.op = "end"
  /\ wrapUp' = TRUE
  /\ UNCHANGED <<activeCall, flag, transfer, form, traces>>
  /\ KeepsRest

TransferAnswered(r) ==
  /\ Answered(r) /\ r.op = "transfer"
  /\ transfer' = FALSE
  /\ UNCHANGED <<activeCall, flag, wrapUp, form, traces>>
  /\ KeepsRest

(* Mutant of DispositionAnswered: the dialog closes whatever the answer. *)
DispositionClosesAnyway(r) ==
  /\ r \in requests /\ r.at \in {"done", "lost"} /\ ~thrown /\ requests' = requests \ {r}
  /\ r.op = "disposition"
  /\ completed' = IF activeCall = None THEN completed ELSE completed \cup {activeCall}
  /\ OnClose
  /\ UNCHANGED <<flag, unsure, carried, overtaken>>
  /\ KeepsRest

DispositionAnswered(r) ==
  /\ Answered(r) /\ r.op = "disposition"
  /\ completed' = IF activeCall = None THEN completed ELSE completed \cup {activeCall}
  /\ OnClose
  /\ UNCHANGED <<flag, unsure, carried, overtaken>>
  /\ KeepsRest

(* GET /desktop/queue is answered, or a search of the knowledge base: an   *)
(* object is stored for a list, the panel throws, the page is unmounted    *)
(* and its socket closed. *)
PageThrows ==
  /\ duty = "panel" /\ ~thrown
  /\ thrown' = TRUE
  /\ connected' = FALSE /\ rooms' = {} /\ up' = <<>>
  /\ UNCHANGED <<duty, page, panel, ref, drops, api, supervisor, traces, requests, acts>>

-----------------------------------------------------------------------------
(* The gateway handles the next join or leave. *)
HandleCallJoin ==
  /\ connected /\ up # <<>> /\ Head(up).says = "join"
  /\ rooms' = rooms \cup {Head(up).cid}
  /\ up' = Tail(up)
  /\ UNCHANGED <<duty, page, panel, ref, connected, drops, api, supervisor, traces,
                 thrown, requests, acts>>

HandleCallLeave ==
  /\ connected /\ up # <<>> /\ Head(up).says = "leave"
  /\ rooms' = rooms \ {Head(up).cid}
  /\ up' = Tail(up)
  /\ UNCHANGED <<duty, page, panel, ref, connected, drops, api, supervisor, traces,
                 thrown, requests, acts>>

(* The socket is lost with what was on its way, and its rooms with it; in  *)
(* the supervisor's page, the changes on their way. *)
LoseSocket ==
  /\ duty \in {"socket", "status"}
  /\ connected /\ drops < MaxDrops
  /\ connected' = FALSE
  /\ drops' = drops + 1
  /\ up' = <<>> /\ rooms' = {}
  /\ notices' = <<>>
  /\ UNCHANGED <<duty, page, panel, ref, api, stored, team, fetch, traces, thrown,
                 requests, acts>>

(* Mutant of Connect: the room is joined only when the call changes. *)
ConnectNoJoin ==
  /\ ~connected /\ ~thrown
  /\ connected' = TRUE
  /\ UNCHANGED <<duty, page, panel, ref, up, rooms, drops, api, supervisor, traces,
                 thrown, requests, acts>>

(* The socket is back: what was emitted meanwhile is sent, then the room   *)
(* of the active call is joined. *)
Connect ==
  /\ ~connected /\ ~thrown
  /\ connected' = TRUE
  /\ up' = IF ref = None THEN up ELSE Append(up, [says |-> "join", cid |-> ref])
  /\ UNCHANGED <<duty, page, panel, ref, rooms, drops, api, supervisor, traces,
                 thrown, requests, acts>>

-----------------------------------------------------------------------------
(* The agent's availability: the top bar shows the new one at once and     *)
(* sends it; the API stores it ... *)
HandleSetStatus(s) ==
  /\ duty = "status"
  /\ Sends("status", None, s)
  /\ UNCHANGED <<duty, page, panel, socket, api, supervisor, traces, thrown>>

StoreStatus(r) ==
  /\ r \in requests /\ r.op = "status" /\ r.at = "sent"
  /\ stored' = r.val
  /\ Moves(r, "stored")
  /\ UNCHANGED <<duty, page, panel, socket, api, notices, team, fetch, traces, thrown, acts>>

(* ... and publishes it to the pages that are connected. *)
PublishStatus(r) ==
  /\ r \in requests /\ r.op = "status" /\ r.at = "stored"
  /\ notices' = IF connected THEN Append(notices, r.val) ELSE notices
  /\ requests' = requests \ {r}
  /\ UNCHANGED <<duty, page, panel, socket, api, stored, team, fetch, traces, thrown, acts>>

UpdateTeamMemberStatus ==
  /\ notices # <<>>
  /\ team' = Head(notices)
  /\ notices' = Tail(notices)
  /\ UNCHANGED <<duty, page, panel, socket, api, stored, fetch, traces, thrown,
                 requests, acts>>

(* The supervisor's page fetches the team when it is opened and every 30   *)
(* seconds, whether or not an answer is outstanding. *)
AskTeam(f) ==
  /\ duty = "status"
  /\ fetch[f] = "none"
  /\ fetch' = [fetch EXCEPT ![f] = "asked"]
  /\ UNCHANGED <<duty, page, panel, socket, api, stored, notices, team, traces,
                 thrown, requests, acts>>

GetTeam(f) ==
  /\ fetch[f] = "asked"
  /\ fetch' = [fetch EXCEPT ![f] = stored]
  /\ UNCHANGED <<duty, page, panel, socket, api, stored, notices, team, traces,
                 thrown, requests, acts>>

(* Mutant of SetTeam: an agent whose status is known keeps it. *)
SetTeamUnknown(f) ==
  /\ fetch[f] \in Statuses
  /\ team' = IF team = "offline" THEN fetch[f] ELSE team
  /\ fetch' = [fetch EXCEPT ![f] = "none"]
  /\ UNCHANGED <<duty, page, panel, socket, api, stored, notices, traces, thrown,
                 requests, acts>>

SetTeam(f) ==
  /\ fetch[f] \in Statuses
  /\ team' = fetch[f]
  /\ fetch' = [fetch EXCEPT ![f] = "none"]
  /\ UNCHANGED <<duty, page, panel, socket, api, stored, notices, traces, thrown,
                 requests, acts>>

FetchFails(f) ==
  /\ fetch[f] # "none"
  /\ fetch' = [fetch EXCEPT ![f] = "none"]
  /\ UNCHANGED <<duty, page, panel, socket, api, stored, notices, team, traces,
                 thrown, requests, acts>>

-----------------------------------------------------------------------------
PageNext ==
  \/ \E c \in Cids : ClickAccept(c)
  \/ HandleHold \/ HandleMute \/ ClickEndCall \/ HandleTransfer \/ HandleSubmit
  \/ ShowTransfer \/ CloseTransfer \/ ShowWrapUp \/ ChooseCode \/ CancelWrapUp
  \/ OpenHistory \/ CloseHistory \/ \E i \in 1..Len(lookups) : HistoryAnswered(i)
  \/ ActiveChanged \/ PageThrows
  \/ \E r \in requests :
       \/ Serve(r) \/ Lose(r) \/ Fail(r)
       \/ SetActiveCall(r) \/ SwitchAnswered(r) \/ EndAnswered(r)
       \/ TransferAnswered(r) \/ DispositionAnswered(r)
       \/ StoreStatus(r) \/ PublishStatus(r)
  \/ HandleCallJoin \/ HandleCallLeave \/ LoseSocket \/ Connect
  \/ \E s \in Statuses : HandleSetStatus(s)
  \/ UpdateTeamMemberStatus
  \/ \E f \in Fetches : AskTeam(f) \/ GetTeam(f) \/ SetTeam(f) \/ FetchFails(f)

PageSpec == PageInit /\ [][PageNext]_pageVars

(* The handlers run, messages arrive, the interval goes on, and a fetch    *)
(* that is repeated succeeds at some time. *)
PageFairSpec ==
  /\ PageSpec
  /\ WF_pageVars(\E r \in requests : StoreStatus(r) \/ PublishStatus(r))
  /\ WF_pageVars(UpdateTeamMemberStatus)
  /\ \A f \in Fetches :
       WF_pageVars(AskTeam(f)) /\ SF_pageVars(GetTeam(f)) /\ SF_pageVars(SetTeam(f))

-----------------------------------------------------------------------------
(* When the page is connected and what it sent has been handled, it is in  *)
(* the room of the call it shows and in no other, whatever calls were      *)
(* opened while the socket was lost. *)
RoomIsCall ==
  connected /\ up = <<>> /\ ref = activeCall => rooms = {activeCall} \ {None}

(* The page shows a call on hold, or muted, as it was commanded last, once *)
(* the answers are there.  What can get in the way: a second command while *)
(* one is under way, a lost answer, an answer that comes when another call *)
(* is shown, a call that is opened again. *)
SwitchIsShown ==
  \A s \in Switches :
    activeCall # None /\ Pending(s, activeCall) = {} /\ <<activeCall, s>> \notin unsure =>
      flag[s] = issued[activeCall][s]

(* The disposition saved for a call was chosen for it, unless the call was *)
(* opened under the open wrap-up dialog of another. *)
DispositionIsOfTheCall ==
  \A c \in Cids \ carried : saved[c] \in {None, c}

(* A call that Complete took off the page has its disposition, unless it   *)
(* was opened while that of another was being saved. *)
CompletedIsSaved ==
  \A c \in completed \ overtaken : saved[c] # None

(* When all its answers are there, the history tab shows the caller of the *)
(* active call or nothing, unless a newer answer came before an older one. *)
HistoryIsOfTheCaller ==
  tab /\ lookups = <<>> /\ ref = activeCall /\ activeCall # None /\ ~crossed =>
    items \in {activeCall, None}

(* However updates, notices and fetches overlap and get lost, the          *)
(* supervisor comes to see the status that is stored, for good. *)
SupervisorCatchesUp == <>[](team = stored)

(* What the page shows and saves is of the call it shows: the disposition  *)
(* of a wrap-up, its being saved before the call is taken off, and the     *)
(* history of the caller, while the agent moves between calls and answers  *)
(* come late, but for the cases named in the three.                        *)
PageIsOfTheCall ==
  DispositionIsOfTheCall /\ CompletedIsSaved /\ HistoryIsOfTheCaller
=============================================================================
