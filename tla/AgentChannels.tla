----------------------------- MODULE AgentChannels -----------------------------
(***************************************************************************)
(* platform-api: the channels an agent is reached by besides the phone.    *)
(* The web widget (widget/widget.service.ts) has its settings in rows of   *)
(* widget_configs, made on first use by whoever finds none: no constraint  *)
(* keeps two requests from making two.  A WhatsApp account (whatsapp/      *)
(* whatsapp.service.ts) has a row, and its phone a subscription at Meta.   *)
(***************************************************************************)
EXTENDS WorkspaceServer

CONSTANT Rows   \* ids the database gives out

ChannelKinds == {"widget", "account"}

(* What a request still has to do.  The default row is made for a reader   *)
(* (version 0) or for an update. *)
ChannelCall ==
  [op : {"update", "avatar", "default"}, version : 0..MaxCalls]
  \cup [op : {"subscribe", "unsubscribe", "disconnect", "send"}, item : Rows]

VARIABLES
  widget,      \* the agent's rows of widget_configs: who last set what
  account,     \* rows of whatsapp_accounts of one phone, by status
  subscribed,  \* Meta forwards the phone's messages
  \* history
  saved,       \* the settings last answered as saved
  unplaced,    \* the avatar last answered as saved found no row to be put in
  misheard     \* Meta refused to unsubscribe, or subscribed a closed account

channels == <<widget, account, subscribed, saved, unplaced, misheard>>

Settings == [style : 0..MaxCalls, avatar : 0..MaxCalls]
Default == [style |-> 0, avatar |-> 0]

ChannelsTypeOK ==
  /\ widget \in [Rows -> Settings \cup {None}]
  /\ account \in [Rows -> {"none", "active", "paused", "disconnected"}]
  /\ subscribed \in BOOLEAN
  /\ saved \in Settings
  /\ unplaced \in BOOLEAN
  /\ misheard \in BOOLEAN
  /\ kind \in ChannelKinds => calls \in [Handlers -> ChannelCall \cup {None}]

ChannelsInit ==
  /\ widget = [i \in Rows |-> None]
  /\ account = [i \in Rows |-> "none"]
  /\ subscribed = FALSE
  /\ saved = Default
  /\ unplaced = FALSE /\ misheard = FALSE

-----------------------------------------------------------------------------
Widgets == {i \in Rows : widget[i] # None}

(* UPDATE widget_configs ... WHERE agent_id: every row there is. *)
SetAll(column, version) ==
  widget' = [i \in Rows |-> IF i \in Widgets THEN [widget[i] EXCEPT ![column] = version]
                            ELSE None]

Queues(h, op, version) == Becomes(h, [op |-> op, version |-> version])

(* getWidget of an agent without a row. *)
GetWidget(h) ==
  /\ Takes(h, "widget")
  /\ Widgets = {}
  /\ Queues(h, "default", 0)
  /\ UNCHANGED channels

UpdateWidget(h) ==
  /\ Takes(h, "widget")
  /\ Queues(h, "update", asked + 1)
  /\ UNCHANGED channels

(* The UPDATE; when it finds no row, one is made first. *)
ApplyUpdate(h) ==
  /\ Doing(h, "update")
  /\ LET version == calls[h].version IN
       IF Widgets = {}
         THEN /\ Queues(h, "default", version)
              /\ UNCHANGED <<asked, widget, saved>>
         ELSE /\ SetAll("style", version)
              /\ saved' = [saved EXCEPT !.style = version]
              /\ Answers(h)
  /\ UNCHANGED <<account, subscribed, unplaced, misheard>>

(* Mutant of CreateDefault: the update ends with the row made for it. *)
CreateDefaultOnly(h, i) ==
  /\ Doing(h, "default")
  /\ widget[i] = None
  /\ widget' = [widget EXCEPT ![i] = Default]
  /\ saved' = IF calls[h].version = 0 THEN saved ELSE [saved EXCEPT !.style = calls[h].version]
  /\ Answers(h)
  /\ UNCHANGED <<account, subscribed, unplaced, misheard>>

(* ON CONFLICT DO NOTHING: only widget_id is unique, so it always inserts. *)
(* updateWidget starts over with the row. *)
CreateDefault(h, i) ==
  /\ Doing(h, "default")
  /\ widget[i] = None
  /\ widget' = [widget EXCEPT ![i] = Default]
  /\ IF calls[h].version = 0 THEN Answers(h)
     ELSE Queues(h, "update", calls[h].version) /\ UNCHANGED asked
  /\ UNCHANGED <<account, subscribed, saved, unplaced, misheard>>

(* The image is stored ... *)
UploadAvatar(h) ==
  /\ Takes(h, "widget")
  /\ Queues(h, "avatar", asked + 1)
  /\ UNCHANGED channels

(* ... and its address set in the rows there are: the answer, with the     *)
(* address, is the same when there are none. *)
ApplyAvatar(h) ==
  /\ Doing(h, "avatar")
  /\ SetAll("avatar", calls[h].version)
  /\ saved' = [saved EXCEPT !.avatar = calls[h].version]
  /\ unplaced' = (Widgets = {})
  /\ Answers(h)
  /\ UNCHANGED <<account, subscribed, misheard>>

-----------------------------------------------------------------------------
Connected(i) == account[i] \in {"active", "paused"}
Proceeds(h, op, i) == Becomes(h, [op |-> op, item |-> i])
Setting(i, status) == account' = [account EXCEPT ![i] = status]

(* Mutant of Connect: the phone is subscribed before the row is inserted. *)
ConnectLate(h, i) ==
  /\ Takes(h, "account")
  /\ account[i] = "none"
  /\ subscribed' = TRUE
  /\ Proceeds(h, "subscribe", i)
  /\ UNCHANGED <<widget, account, saved, unplaced, misheard>>

(* connectAccount: the token and the phone come from Meta, the row is      *)
(* inserted (nothing keeps a phone from having two) ... *)
Connect(h, i) ==
  /\ Takes(h, "account")
  /\ account[i] = "none"
  /\ Setting(i, "active")
  /\ Proceeds(h, "subscribe", i)
  /\ UNCHANGED <<widget, subscribed, saved, unplaced, misheard>>

(* ... and Meta asked to subscribe the phone, which may fail unnoticed. *)
Subscribe(h) ==
  /\ Doing(h, "subscribe")
  /\ LET i == calls[h].item
         closing == ~Connected(i) \/ \E g \in Handlers : Doing(g, "disconnect") /\ calls[g].item = i IN
       \/ /\ subscribed' = TRUE
          /\ misheard' = (misheard \/ closing)
       \/ UNCHANGED <<subscribed, misheard>>
  /\ Answers(h)
  /\ UNCHANGED <<widget, account, saved, unplaced>>

(* updateAccount: any row of the tenant, a disconnected one too. *)
UpdateAccount(h, i) ==
  /\ Takes(h, "account")
  /\ account[i] # "none"
  /\ \E status \in {"active", "paused"} : Setting(i, status)
  /\ UNCHANGED <<calls, widget, subscribed, saved, unplaced, misheard>>

(* disconnectAccount reads the row ... *)
FindAccount(h, i) ==
  /\ Takes(h, "account")
  /\ account[i] # "none"
  /\ Proceeds(h, "unsubscribe", i)
  /\ UNCHANGED channels

(* ... unsubscribes the phone, whoever else has it, and ignores a failure ... *)
Unsubscribe(h) ==
  /\ Doing(h, "unsubscribe")
  /\ \/ subscribed' = FALSE /\ misheard' = FALSE
     \/ UNCHANGED subscribed /\ misheard' = (misheard \/ subscribed)
  /\ Proceeds(h, "disconnect", calls[h].item)
  /\ UNCHANGED <<asked, widget, account, saved, unplaced>>

(* ... and then the row is marked. *)
Disconnect(h) ==
  /\ Doing(h, "disconnect")
  /\ Setting(calls[h].item, "disconnected")
  /\ Answers(h)
  /\ UNCHANGED <<widget, subscribed, saved, unplaced, misheard>>

(* sendOutboundMessage needs an active account; Meta answers later. *)
SendTemplate(h, i) ==
  /\ Takes(h, "account")
  /\ account[i] = "active"
  /\ Proceeds(h, "send", i)
  /\ UNCHANGED channels

TemplateSent(h) ==
  /\ Doing(h, "send")
  /\ Answers(h)
  /\ UNCHANGED channels

-----------------------------------------------------------------------------
(* A statement or a call of Meta or of the object store throws. *)
ChannelsFail(h) ==
  /\ kind \in ChannelKinds
  /\ calls[h] # None
  /\ Answers(h)
  /\ UNCHANGED channels

WidgetStep(h) ==
  \/ GetWidget(h)
  \/ UpdateWidget(h)
  \/ ApplyUpdate(h)
  \/ \E i \in Rows : CreateDefault(h, i)
  \/ UploadAvatar(h)
  \/ ApplyAvatar(h)

AccountStep(h) ==
  \/ \E i \in Rows :
       Connect(h, i) \/ UpdateAccount(h, i) \/ FindAccount(h, i) \/ SendTemplate(h, i)
  \/ Subscribe(h)
  \/ Unsubscribe(h)
  \/ Disconnect(h)
  \/ TemplateSent(h)

ChannelsNext ==
  /\ UNCHANGED kind
  /\ \E h \in Handlers : WidgetStep(h) \/ AccountStep(h) \/ ChannelsFail(h)

-----------------------------------------------------------------------------
(* widget.service.ts: settings answered as saved are in some row of the    *)
(* agent until others are saved over them, also when the row had to be     *)
(* made first and several requests made one each; a row that does not show *)
(* them is a default made later by a request that saw none.  Which row is  *)
(* shown is left open.  An avatar is lost that was uploaded before there   *)
(* was a row. *)
WidgetHoldsSaved ==
  \A column \in DOMAIN saved :
    /\ saved[column] # 0 /\ ~(column = "avatar" /\ unplaced) =>
         \E i \in Widgets : widget[i][column] = saved[column]
    /\ \A i \in Widgets : widget[i][column] \in {0, saved[column]}

(* whatsapp.service.ts: Meta forwards the messages of a phone only while   *)
(* some account of it is connected, unless Meta refused to stop, or an     *)
(* account was disconnected before it was subscribed.  That a connected    *)
(* account gets its messages is not said: Meta may not have subscribed it, *)
(* or another account of the phone have ended the subscription they share. *)
SubscribedIsListed == subscribed => misheard \/ \E i \in Rows : Connected(i)

(* The rows of a widget hold what its callers were told was saved, and an  *)
(* account outlives the subscription it asked for, but for these causes.   *)
ChannelsAgree == WidgetHoldsSaved /\ SubscribedIsListed
=============================================================================
