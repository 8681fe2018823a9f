------------------------------ MODULE MCWorkspace ------------------------------
(* Small instances of Workspace. *)
EXTENDS Workspace, TLC

(* Two columns of different tabs, every column in some pair. *)
TwoTabs ==
  {{"prompt", "domains"}, {"rag", "allowlist"}, {"timing", "voice"},
   {"mode", "domains"}, {"guardrail", "llm"}, {"domains", "allowlist"}}

(* Items, Records and Rows are the same ids, Users, Parties and Pages the  *)
(* same names, Addresses, Folders and Members the same values. *)
Symmetric ==
  Permutations(Items) \cup Permutations(Users) \cup Permutations(Addresses)
=============================================================================
