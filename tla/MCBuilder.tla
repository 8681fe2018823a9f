------------------------------- MODULE MCBuilder -------------------------------
(* Small instances of AgentBuilder: one agent, a few requests at a time. *)
EXTENDS AgentBuilder, TLC

Symmetric == Permutations(Handlers)
=============================================================================
