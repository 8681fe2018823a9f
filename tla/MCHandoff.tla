------------------------------ MODULE MCHandoff ------------------------------
(* Small instances of HandoffDesk. *)
EXTENDS HandoffDesk, TLC

Symmetric == Permutations(Calls) \cup Permutations(Desks) \cup Permutations(Accepts)
=============================================================================
