----------------------------- MODULE HandoffDesk -----------------------------
(***************************************************************************)
(* A call is handed to a human (option B): platform-api/src/telephony/     *)
(* handoff.service.ts stores the context of the call, pushes its CID on    *)
(* the queue in Redis and publishes a notice, which desktop.gateway.ts     *)
(* sends to the socket of every desk.  An agent accepts a card; the        *)
(* handler of desktop.controller.ts takes the CID off the queue, assigns   *)
(* the call and publishes that it is taken.  The desks are browsers: the   *)
(* store, the socket and the queue panel of frontend/.                     *)
(*                                                                         *)
(* No property depends on the order of the queue or of the cards: the      *)
(* queue is the number of entries of each call, and the cards are a set    *)
(* (the store removes every card of a CID at once).  A page that is        *)
(* reloaded is another desk.  Publishing and emitting are one step: the    *)
(* gateway emits in the order of its one channel.  The call's music on     *)
(* hold is left out.                                                       *)
(***************************************************************************)
EXTENDS Integers, Sequences, FiniteSets

CONSTANTS
  Calls,       \* the calls (CIDs) of one tenant
  Desks,       \* the pages of the agents
  Accepts,     \* the clicks on Accept, by name
  MaxHandoffs  \* how often a call is handed off: by the turn loop, by the
               \* transfer_to_agent tool, by the master worker


Handoffs == Calls \X (1..MaxHandoffs)

NoCall == <<>>
NoDesk == <<>>

ASSUME HandoffAssumption ==
  /\ MaxHandoffs \in Nat
  /\ NoDesk \notin Desks

(* handoff:incoming with and without type call_accepted. *)
Notice == [says : {"incoming", "taken"}, cid : Calls]

VARIABLES
  \* Redis
  queued,      \* trustnow:handoff:queue, entries per call
  context,     \* the calls whose trustnow:handoff:context is stored
  holder,      \* session.human_agent_id
  \* handlers of the platform API
  hpc,         \* where a request to hand off awaits
  apc,         \* where a click on Accept awaits: in the API, then in the browser
  clicked,     \* the desk and the call of the click
  \* the desks
  inbox,       \* what the gateway has emitted to the socket
  online,      \* desks whose socket is connected
  broken,      \* desks whose page has thrown
  cards,       \* the store's queue
  active,      \* the store's activeCall
  \* history
  expired,     \* calls whose context has expired once
  reach,       \* the desks a notice of the call was sent to, online ever since
  bare         \* calls that were opened without a context

redis == <<queued, context, holder>>
desks == <<inbox, online, broken, cards, active>>
history == <<expired, reach, bare>>
vars == <<queued, context, holder, hpc, apc, clicked, inbox, online, broken, cards, active,
          expired, reach, bare>>

DeskOf(a) == clicked[a][1]
CallOf(a) == clicked[a][2]

(* An entry has been pushed for c by this many requests. *)
Pushed(c) == {i \in 1..MaxHandoffs : hpc[<<c, i>>] \in {"publish", "done", "silent"}}

InHandler == {"remove", "assign", "announce"}

TypeOK ==
  /\ queued \in [Calls -> 0..MaxHandoffs]
  /\ context \subseteq Calls
  /\ holder \in [Calls -> Desks \cup {NoDesk}]
  /\ hpc \in [Handoffs -> {"idle", "store", "push", "publish", "done", "failed", "silent"}]
  /\ apc \in [Accepts -> InHandler \cup {"idle", "reply", "open", "done", "failed"}]
  /\ clicked \in [Accepts -> (Desks \X Calls) \cup {NoCall}]
  /\ inbox \in [Desks -> Seq(Notice)]
  /\ online \subseteq Desks
  /\ broken \subseteq Desks
  /\ cards \in [Desks -> SUBSET Calls]
  /\ active \in [Desks -> Calls \cup {NoCall}]
  /\ expired \subseteq Calls
  /\ reach \in [Calls -> SUBSET Desks]
  /\ bare \subseteq Calls

Init ==
  /\ queued = [c \in Calls |-> 0]
  /\ context = {}
  /\ holder = [c \in Calls |-> NoDesk]
  /\ hpc = [h \in Handoffs |-> "idle"]
  /\ apc = [a \in Accepts |-> "idle"]
  /\ clicked = [a \in Accepts |-> NoCall]
  /\ inbox = [d \in Desks |-> <<>>]
  /\ online = Desks
  /\ broken = {}
  /\ cards = [d \in Desks |-> {}]
  /\ active = [d \in Desks |-> NoCall]
  /\ expired = {}
  /\ reach = [c \in Calls |-> {}]
  /\ bare = {}

(* The gateway emits to the sockets that are connected; there is no replay. *)
Emitted(says, c) ==
  [d \in Desks |-> IF d \in online THEN Append(inbox[d], [says |-> says, cid |-> c])
                                   ELSE inbox[d]]

-----------------------------------------------------------------------------
(* POST /handoff/execute.  The context of the call is stored first ... *)
Execute(h) ==
  /\ hpc[h] = "idle"
  /\ hpc' = [hpc EXCEPT ![h] = "store"]
  /\ UNCHANGED <<redis, apc, clicked, desks, history>>

StoreContext(h) ==
  /\ hpc[h] = "store"
  /\ context' = context \cup {h[1]}
  /\ hpc' = [hpc EXCEPT ![h] = "push"]
  /\ UNCHANGED <<queued, holder, apc, clicked, desks, history>>

(* ... then the CID is pushed, whether or not it is queued already ... *)
Push(h) ==
  /\ hpc[h] = "push"
  /\ queued' = [queued EXCEPT ![h[1]] = @ + 1]
  /\ hpc' = [hpc EXCEPT ![h] = "publish"]
  /\ UNCHANGED <<context, holder, apc, clicked, desks, history>>

(* ... and the desks are told.  What is then set in the session is read by *)
(* nobody. *)
Publish(h) ==
  /\ hpc[h] = "publish"
  /\ inbox' = Emitted("incoming", h[1])
  /\ reach' = [reach EXCEPT ![h[1]] = @ \cup online]
  /\ hpc' = [hpc EXCEPT ![h] = "done"]
  /\ UNCHANGED <<redis, apc, clicked, online, broken, cards, active, expired, bare>>

(* A command of Redis fails, or the API dies: what was done stays. *)
ExecuteFails(h) ==
  /\ hpc[h] \in {"store", "push", "publish"}
  /\ hpc' = [hpc EXCEPT ![h] = IF @ = "publish" THEN "silent" ELSE "failed"]
  /\ UNCHANGED <<redis, apc, clicked, desks, history>>

ExpireContext(c) ==
  /\ c \in context
  /\ context' = context \ {c}
  /\ expired' = expired \cup {c}
  /\ UNCHANGED <<queued, holder, hpc, apc, clicked, desks, reach, bare>>

-----------------------------------------------------------------------------
(* Mutants: the card is taken off before the API has answered; the desks    *)
(* are told before the call is assigned. *)
ClickOptimistic(a, d, c) ==
  /\ apc[a] = "idle"
  /\ d \notin broken
  /\ c \in cards[d]
  /\ cards' = [cards EXCEPT ![d] = @ \ {c}]
  /\ clicked' = [clicked EXCEPT ![a] = <<d, c>>]
  /\ apc' = [apc EXCEPT ![a] = "remove"]
  /\ UNCHANGED <<redis, hpc, inbox, online, broken, active, history>>

RemoveAndAnnounce(a) ==
  /\ apc[a] = "remove"
  /\ queued' = [queued EXCEPT ![CallOf(a)] = IF @ > 0 THEN @ - 1 ELSE 0]
  /\ inbox' = Emitted("taken", CallOf(a))
  /\ apc' = [apc EXCEPT ![a] = "assign"]
  /\ UNCHANGED <<context, holder, hpc, clicked, online, broken, cards, active, history>>

(* An agent clicks on the card of a call.  Nothing disables the button, nor *)
(* does a call that is active. *)
Click(a, d, c) ==
  /\ apc[a] = "idle"
  /\ d \notin broken
  /\ c \in cards[d]
  /\ clicked' = [clicked EXCEPT ![a] = <<d, c>>]
  /\ apc' = [apc EXCEPT ![a] = "remove"]
  /\ UNCHANGED <<redis, hpc, desks, history>>

(* acceptCall: one entry is removed, and nobody asks whether there was one; *)
Remove(a) ==
  /\ apc[a] = "remove"
  /\ queued' = [queued EXCEPT ![CallOf(a)] = IF @ > 0 THEN @ - 1 ELSE 0]
  /\ apc' = [apc EXCEPT ![a] = "assign"]
  /\ UNCHANGED <<context, holder, hpc, clicked, desks, history>>

(* the session is assigned to the agent, ... *)
Assign(a) ==
  /\ apc[a] = "assign"
  /\ holder' = [holder EXCEPT ![CallOf(a)] = DeskOf(a)]
  /\ apc' = [apc EXCEPT ![a] = "announce"]
  /\ UNCHANGED <<queued, context, hpc, clicked, desks, history>>

(* ... and the desks are told that the call is taken. *)
Announce(a) ==
  /\ apc[a] = "announce"
  /\ inbox' = Emitted("taken", CallOf(a))
  /\ apc' = [apc EXCEPT ![a] = "reply"]
  /\ UNCHANGED <<redis, hpc, clicked, online, broken, cards, active, history>>

(* The request fails in the API, or its reply is lost: the browser logs it, *)
(* and the card stays. *)
AcceptFails(a) ==
  /\ apc[a] \in InHandler \cup {"reply"}
  /\ apc' = [apc EXCEPT ![a] = "failed"]
  /\ UNCHANGED <<redis, hpc, clicked, desks, history>>

(* The browser has the reply and takes the card off.  On a broken page the  *)
(* store's queue has no filter, and the handler ends in its catch. *)
Reply(a) ==
  /\ apc[a] = "reply"
  /\ IF DeskOf(a) \in broken
     THEN /\ apc' = [apc EXCEPT ![a] = "failed"]
          /\ UNCHANGED cards
     ELSE /\ apc' = [apc EXCEPT ![a] = "open"]
          /\ cards' = [cards EXCEPT ![DeskOf(a)] = @ \ {CallOf(a)}]
  /\ UNCHANGED <<redis, hpc, clicked, inbox, online, broken, active, history>>

(* GET /desktop/context/:cid: the call becomes the active one, in the place *)
(* of any other, and without its data if the context is gone. *)
Open(a) ==
  /\ apc[a] = "open"
  /\ active' = [active EXCEPT ![DeskOf(a)] = CallOf(a)]
  /\ bare' = IF CallOf(a) \in context THEN bare ELSE bare \cup {CallOf(a)}
  /\ apc' = [apc EXCEPT ![a] = "done"]
  /\ UNCHANGED <<redis, hpc, clicked, inbox, online, broken, cards, expired, reach>>

OpenFails(a) ==
  /\ apc[a] = "open"
  /\ apc' = [apc EXCEPT ![a] = "failed"]
  /\ UNCHANGED <<redis, hpc, clicked, desks, history>>

(* The agent ends the call and completes the wrap-up. *)
WrapUp(d) ==
  /\ active[d] # NoCall
  /\ d \notin broken
  /\ active' = [active EXCEPT ![d] = NoCall]
  /\ UNCHANGED <<redis, hpc, apc, clicked, inbox, online, broken, cards, history>>

-----------------------------------------------------------------------------
(* handoff:incoming arrives at the desk. *)
Deliver(d) ==
  /\ inbox[d] # <<>>
  /\ inbox' = [inbox EXCEPT ![d] = Tail(@)]
  /\ LET m == Head(inbox[d])
     IN cards' = [cards EXCEPT ![d] = IF m.says = "taken" THEN @ \ {m.cid}
                                                          ELSE @ \cup {m.cid}]
  /\ UNCHANGED <<redis, hpc, apc, clicked, online, broken, active, history>>

(* The socket is lost with what was on its way, and the desk goes on with  *)
(* the cards it has: a new socket rejoins the room of the active call, but *)
(* the queue is not fetched again. *)
Disconnect(d) ==
  /\ d \in online
  /\ online' = online \ {d}
  /\ inbox' = [inbox EXCEPT ![d] = <<>>]
  /\ reach' = [c \in Calls |-> reach[c] \ {d}]
  /\ UNCHANGED <<redis, hpc, apc, clicked, broken, cards, active, expired, bare>>

Reconnect(d) ==
  /\ d \notin online \cup broken
  /\ online' = online \cup {d}
  /\ UNCHANGED <<redis, hpc, apc, clicked, inbox, broken, cards, active, history>>

(* GET /desktop/queue of the page is answered, at any time after it was    *)
(* opened: setQueue gets the object {queue, count} for a list, the panel   *)
(* throws when it maps it, and the page is unmounted.  A request that      *)
(* fails leaves the page as it is. *)
QueueFetched(d) ==
  /\ d \notin broken
  /\ broken' = broken \cup {d}
  /\ online' = online \ {d}
  /\ inbox' = [inbox EXCEPT ![d] = <<>>]
  /\ cards' = [cards EXCEPT ![d] = {}]
  /\ reach' = [c \in Calls |-> reach[c] \ {d}]
  /\ UNCHANGED <<redis, hpc, apc, clicked, active, expired, bare>>

-----------------------------------------------------------------------------
HandoffStep(h) ==
  Execute(h) \/ StoreContext(h) \/ Push(h) \/ Publish(h) \/ ExecuteFails(h)

AcceptStep(a) ==
  \/ \E d \in Desks, c \in Calls : Click(a, d, c)
  \/ Remove(a) \/ Assign(a) \/ Announce(a) \/ AcceptFails(a)
  \/ Reply(a) \/ Open(a) \/ OpenFails(a)

DeskStep(d) ==
  WrapUp(d) \/ Deliver(d) \/ Disconnect(d) \/ Reconnect(d) \/ QueueFetched(d)

Next ==
  \/ \E h \in Handoffs : HandoffStep(h)
  \/ \E c \in Calls : ExpireContext(c)
  \/ \E a \in Accepts : AcceptStep(a)
  \/ \E d \in Desks : DeskStep(d)

Spec == Init /\ [][Next]_vars

-----------------------------------------------------------------------------
OnItsWay(says, c, d) ==
  \E i \in 1..Len(inbox[d]) : inbox[d][i] = [says |-> says, cid |-> c]

(* While a call that was queued has no agent, it is in the queue, or being *)
(* accepted, or an accept of it failed: then the entry is gone, and its    *)
(* card is still on the desk that failed, if that page has not thrown. *)
UnclaimedIsOnOffer ==
  \A c \in Calls : Pushed(c) # {} /\ holder[c] = NoDesk =>
    \/ queued[c] > 0
    \/ \E a \in Accepts :
         /\ apc[a] \in {"assign", "failed"}
         /\ CallOf(a) = c
         /\ apc[a] = "failed" => c \in cards[DeskOf(a)] \/ DeskOf(a) \in broken

(* Every desk that was online when a call was announced, and has been so   *)
(* since, shows the call or is about to, as long as nobody has taken it.   *)
WaitingIsShown ==
  \A c \in Calls : holder[c] = NoDesk =>
    \A d \in reach[c] :
      c \in cards[d] \/ OnItsWay("incoming", c, d)

(* desktop.controller.ts l.99: accepting removes the call from the queue.  *)
(* Holds of a call that was pushed once. *)
TakenLeavesQueue ==
  \A c \in Calls : holder[c] # NoDesk /\ queued[c] > 0 => Cardinality(Pushed(c)) > 1

(* An agent opens a call with its transcript and context, unless they have *)
(* expired: they are stored before anybody can hear of the call. *)
OpenedWithContext == bare \subseteq expired

(* desktop.controller.ts l.113: the others are told that a call is taken;  *)
(* one agent talks to the caller.  Does not hold: nobody looks at what lrem *)
(* answered. *)
OneAgentPerCall ==
  \A d, e \in Desks : active[d] # NoCall /\ active[d] = active[e] => d = e

-----------------------------------------------------------------------------
(* The inductive invariant.  Whoever hears of a call, hears of one whose   *)
(* context was stored and which was pushed; ... *)
Heard(c) == \E i \in 1..MaxHandoffs : hpc[<<c, i>>] = "done"

StoredInv ==
  \A c \in Calls, i \in 1..MaxHandoffs :
    hpc[<<c, i>>] \in {"push", "publish", "done", "silent"} => c \in context \cup expired

HeardInv ==
  /\ \A c \in Calls, d \in Desks : c \in cards[d] \/ OnItsWay("incoming", c, d) => Heard(c)
  /\ \A a \in Accepts : apc[a] # "idle" => Heard(CallOf(a))

(* ... a click has a desk and a call, ... *)
ClickInv == \A a \in Accepts : apc[a] # "idle" => clicked[a] \in Desks \X Calls

(* ... an accept that has got so far has assigned the call, and only then  *)
(* are the others told; ... *)
TakenInv ==
  /\ \A a \in Accepts : apc[a] \in {"announce", "reply", "open", "done"} =>
                          holder[CallOf(a)] # NoDesk
  /\ \A c \in Calls, d \in Desks : OnItsWay("taken", c, d) => holder[c] # NoDesk

(* ... until then the card stays where it was clicked; ... *)
CardInv ==
  \A a \in Accepts : apc[a] \in {"remove", "assign", "failed"} /\ holder[CallOf(a)] = NoDesk =>
    CallOf(a) \in cards[DeskOf(a)] \/ DeskOf(a) \in broken

(* ... and a call that is taken, or about to be, has one entry less than   *)
(* were pushed. *)
Claimed(c) == holder[c] # NoDesk \/ \E a \in Accepts : apc[a] = "assign" /\ CallOf(a) = c

QueueInv ==
  \A c \in Calls :
    queued[c] + (IF Claimed(c) THEN 1 ELSE 0) <= Cardinality(Pushed(c))

ReachInv == online \cap broken = {} /\ \A c \in Calls : reach[c] \subseteq online

HandoffInv ==
  /\ TypeOK /\ StoredInv /\ HeardInv /\ ClickInv /\ TakenInv /\ CardInv /\ QueueInv
  /\ ReachInv /\ UnclaimedIsOnOffer /\ WaitingIsShown /\ OpenedWithContext
=============================================================================
