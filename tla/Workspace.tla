------------------------------- MODULE Workspace -------------------------------
(***************************************************************************)
(* What the workspace's admins work on: the registry, the records and the  *)
(* channels of platform-api and the agent page of the admin frontend.      *)
(* Their tables, files and pages have nothing in common, so that one kind  *)
(* of thing, chosen at the start, is worked on at a time.                  *)
(***************************************************************************)
EXTENDS WorkspaceRegistry, TenantRecords, AgentChannels, AgentConsole

Kinds == RegistryKinds \cup RecordKinds \cup ChannelKinds \cup {"page"}

vars == <<kind, asked, calls, registry, records, channels, console>>

Init ==
  /\ ServerInit(Kinds)
  /\ RegistryInit
  /\ RecordsInit
  /\ ChannelsInit
  /\ ConsoleInit

Next ==
  \/ RegistryNext /\ UNCHANGED <<records, channels, console>>
  \/ RecordsNext /\ UNCHANGED <<registry, channels, console>>
  \/ ChannelsNext /\ UNCHANGED <<registry, records, console>>
  \/ ConsoleNext /\ UNCHANGED <<registry, records, channels>>

Spec == Init /\ [][Next]_vars
=============================================================================
