-------------------------------- MODULE EslLink --------------------------------
(***************************************************************************)
(* platform-api telephony/esl.service.ts: the link to FreeSWITCH's event   *)
(* socket, with the handoff of Option A (telephony/handoff.service.ts) and *)
(* the command endpoints (telephony/telephony.controller.ts) that write to *)
(* it.  A lost socket, and an attempt that is refused, starts a timer      *)
(* behind which connect() replaces this.client by a new socket.  It does   *)
(* so for 'error' and for 'close', which both follow a failure: attempts   *)
(* multiply, and several sockets are at work at once.  Their handlers      *)
(* share `connected', and whichever socket receives FreeSWITCH's           *)
(* auth/request, it is this.client that is written to.                     *)
(***************************************************************************)
EXTENDS Integers, Sequences

CONSTANTS
  Calls,       \* channels a request names
  MaxFaults,   \* bound on refused attempts and lost sockets
  MaxRequests  \* bound on the requests

ASSUME LinkAssumption == MaxFaults \in Nat /\ MaxRequests \in Nat

\* The sockets connect() creates, in this order: a failure costs two at most.
Sockets == 1..(2 * MaxFaults + 1)

Command == {<<"auth">>, <<"events">>} \cup ({"app", "set", "transfer"} \X Calls)

VARIABLES
  \* EslService
  client,     \* this.client
  connected,
  timers,     \* reconnects to come
  serving,    \* onModuleInit has returned: the API listens
  \* the sockets
  sock,
  greeted,    \* auth/request has arrived and is not handled yet
  written,    \* commands that FreeSWITCH has not read
  \* FreeSWITCH
  authed,
  header,     \* channels whose User-to-User header carries the CID
  moved,      \* channels transferred: with the header, or without
  faults,
  \* the requests
  requests,
  handoff     \* of a call, by Option A

link == <<client, connected, timers, serving>>
wire == <<sock, greeted, written>>
switch == <<authed, header, moved>>
requested == <<requests, handoff>>
linkVars == <<link, wire, switch, faults, requested>>

LinkTypeOK ==
  /\ client \in Sockets
  /\ connected \in BOOLEAN
  /\ timers \in 0..(2 * MaxFaults)
  /\ serving \in BOOLEAN
  /\ sock \in [Sockets -> {"none", "connecting", "open", "failed", "closing", "closed"}]
  /\ greeted \in [Sockets -> BOOLEAN]
  /\ written \in [Sockets -> Seq(Command)]
  /\ authed \in [Sockets -> BOOLEAN]
  /\ header \subseteq Calls
  /\ moved \in [Calls -> {"no", "with", "without"}]
  /\ faults \in 0..MaxFaults
  /\ requests \in 0..MaxRequests
  /\ handoff \in [Calls -> {"none", "sent", "transfer_issued", "failed"}]

(* The API starts: onModuleInit awaits its first connect().                *)
LinkInit ==
  /\ client = 1 /\ connected = FALSE /\ timers = 0 /\ serving = FALSE
  /\ sock = [s \in Sockets |-> IF s = 1 THEN "connecting" ELSE "none"]
  /\ greeted = [s \in Sockets |-> FALSE]
  /\ written = [s \in Sockets |-> <<>>]
  /\ authed = [s \in Sockets |-> FALSE]
  /\ header = {} /\ moved = [c \in Calls |-> "no"]
  /\ faults = 0
  /\ requests = 0 /\ handoff = [c \in Calls |-> "none"]

-----------------------------------------------------------------------------
(* The sockets.                                                            *)

\* Mutant of Connect: the timer leaves a client that is connecting alone,
\* as if one attempt at a time sufficed, and does not try again.
ConnectUnlessConnected ==
  /\ timers > 0 /\ timers' = timers - 1
  /\ IF connected
       THEN UNCHANGED <<client, wire>>
       ELSE /\ client' = client + 1
            /\ sock' = [sock EXCEPT ![client'] = "connecting"]
            /\ UNCHANGED <<greeted, written>>
  /\ UNCHANGED <<connected, serving, switch, faults, requested>>

Connect ==
  /\ timers > 0 /\ timers' = timers - 1
  /\ client' = client + 1
  /\ sock' = [sock EXCEPT ![client'] = "connecting"]
  /\ UNCHANGED <<connected, serving, greeted, written, switch, faults, requested>>

(* The callback of connect(); FreeSWITCH asks for the password.  Only the  *)
(* promise of the first socket has somebody waiting.                       *)
Connected(s) ==
  /\ sock[s] = "connecting" /\ sock' = [sock EXCEPT ![s] = "open"]
  /\ greeted' = [greeted EXCEPT ![s] = TRUE]
  /\ connected' = TRUE
  /\ serving' = (serving \/ s = 1)
  /\ UNCHANGED <<client, timers, written, switch, faults, requested>>

(* FreeSWITCH refuses the attempt, is stopped, or closes the socket, with  *)
(* an error or without one; what it has not read is lost.                  *)
Lose(s) ==
  /\ faults < MaxFaults /\ faults' = faults + 1
  /\ \/ sock[s] = "connecting" /\ sock' = [sock EXCEPT ![s] = "failed"]
     \/ sock[s] = "open" /\ \E f \in {"failed", "closing"} : sock' = [sock EXCEPT ![s] = f]
  /\ greeted' = [greeted EXCEPT ![s] = FALSE]
  /\ written' = [written EXCEPT ![s] = <<>>]
  /\ UNCHANGED <<link, switch, requested>>

Reconnects ==
  /\ connected' = FALSE /\ timers' = timers + 1
  /\ UNCHANGED <<client, serving, greeted, written, switch, faults, requested>>

OnError(s) ==
  /\ sock[s] = "failed" /\ sock' = [sock EXCEPT ![s] = "closing"]
  /\ Reconnects

\* Mutant of OnClose: only an error is followed by a reconnect.
OnCloseForGood(s) ==
  /\ sock[s] = "closing" /\ sock' = [sock EXCEPT ![s] = "closed"]
  /\ connected' = FALSE
  /\ UNCHANGED <<client, timers, serving, greeted, written, switch, faults, requested>>

OnClose(s) ==
  /\ sock[s] = "closing" /\ sock' = [sock EXCEPT ![s] = "closed"]
  /\ Reconnects

(* write() on this.client: kept by a socket that is still connecting, lost *)
(* on one that is not open any more.                                       *)
Send(cmds) ==
  written' = IF connected /\ sock[client] \in {"connecting", "open"}
               THEN [written EXCEPT ![client] = @ \o cmds]
               ELSE written

(* handleMessage, auth/request: on whichever socket, answered on the       *)
(* client.                                                                 *)
Authenticate(s) ==
  /\ sock[s] = "open" /\ greeted[s] /\ greeted' = [greeted EXCEPT ![s] = FALSE]
  /\ Send(<<<<"auth">>, <<"events">>>>)
  /\ UNCHANGED <<link, sock, switch, faults, requested>>

-----------------------------------------------------------------------------
(* The requests.                                                           *)

Requested ==
  /\ serving /\ requests < MaxRequests /\ requests' = requests + 1
  /\ UNCHANGED <<link, sock, greeted, switch, faults>>

(* hangup, play_audio, stop_audio, play_dtmf, and the hold music of        *)
(* playMoh: one application each.                                          *)
SendApp(c) == Requested /\ Send(<<<<"app", c>>>>) /\ UNCHANGED handoff

\* Mutant of TransferCall: the header is set behind the transfer.
TransferThenSet(c) == <<<<"transfer", c>>, <<"set", c>>>>

TransferCall(c) == <<<<"set", c>>, <<"transfer", c>>>>

(* executeOptionA up to its await: hold music, then the transfer.          *)
ExecuteOptionA(c) ==
  /\ Requested
  /\ handoff[c] \in {"none", "failed"} /\ handoff' = [handoff EXCEPT ![c] = "sent"]
  /\ Send(<<<<"app", c>>>> \o TransferCall(c))

(* The session is written, or that fails and the caller may try again.     *)
RecordHandoff(c) ==
  /\ handoff[c] = "sent"
  /\ \E a \in {"transfer_issued", "failed"} : handoff' = [handoff EXCEPT ![c] = a]
  /\ UNCHANGED <<link, wire, switch, faults, requests>>

-----------------------------------------------------------------------------
(* FreeSWITCH reads a command: it refuses all but auth before auth.        *)
Serve(s) ==
  /\ sock[s] = "open" /\ written[s] # <<>>
  /\ written' = [written EXCEPT ![s] = Tail(@)]
  /\ LET cmd == Head(written[s])
         runs == authed[s]
     IN /\ authed' = [authed EXCEPT ![s] = @ \/ cmd = <<"auth">>]
        /\ header' = header \cup {c \in Calls : runs /\ cmd = <<"set", c>>}
        /\ moved' = [c \in Calls |->
                       IF runs /\ cmd = <<"transfer", c>> /\ moved[c] = "no"
                         THEN IF c \in header THEN "with" ELSE "without"
                         ELSE moved[c]]
  /\ UNCHANGED <<link, sock, greeted, faults, requested>>

LinkNext ==
  \/ Connect
  \/ \E s \in Sockets :
       Connected(s) \/ Lose(s) \/ OnError(s) \/ OnClose(s) \/ Authenticate(s) \/ Serve(s)
  \/ \E c \in Calls : SendApp(c) \/ ExecuteOptionA(c) \/ RecordHandoff(c)

LinkSpec == LinkInit /\ [][LinkNext]_linkVars

(* Timers fire, the event loop delivers what the sockets report, and a     *)
(* FreeSWITCH that does not fail accepts connections and reads commands.   *)
LinkFairSpec ==
  /\ LinkSpec
  /\ WF_linkVars(Connect)
  /\ \A s \in Sockets :
       /\ WF_linkVars(Connected(s)) /\ WF_linkVars(OnError(s)) /\ WF_linkVars(OnClose(s))
       /\ WF_linkVars(Authenticate(s)) /\ WF_linkVars(Serve(s))

-----------------------------------------------------------------------------
(* Properties.                                                             *)

\* The service may send, and what it sends is carried out.
Usable == connected /\ sock[client] = "open" /\ authed[client]

\* Nothing is under way that could still change the link.
Settled ==
  /\ timers = 0
  /\ \A s \in Sockets :
       sock[s] \in {"none", "open", "closed"} /\ ~greeted[s] /\ written[s] = <<>>

(* When no timer runs and no socket has anything to report, the link is    *)
(* usable: the `connected' that the sockets share is not left false by an  *)
(* old socket, nor true for a client that is closed, and the client is the *)
(* one that gave the password (connect, handleMessage).                    *)
SettledIsUsable == Settled => Usable

(* However often sockets are refused, lost and replaced, and whichever of  *)
(* several attempts comes up first, the link is usable for good once the   *)
(* failures end (connect, its timers, handleMessage).                      *)
LinkComesBack == <>[]Usable

(* A call that is transferred carries its CID in the User-to-User header,  *)
(* with a link that may break between the two commands and replace its     *)
(* socket: the header is never written to one socket and the transfer to   *)
(* another before it (transferCall, BRD-CC-008).                           *)
TransferCarriesCid == \A c \in Calls : moved[c] # "without"
=============================================================================
