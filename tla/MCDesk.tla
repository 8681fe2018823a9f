-------------------------------- MODULE MCDesk --------------------------------
(* A small instance of DeskCall: two calls, one agent, one supervisor. *)
EXTENDS DeskCall, TLC

Symmetric == Permutations(Cids)
=============================================================================
