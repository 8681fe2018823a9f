-------------------------------- MODULE MCHitl --------------------------------
(* Small instances of HitlApproval: two gated steps of one call. *)
EXTENDS HitlApproval, TLC

Symmetric == Permutations(Gated) \cup Permutations(Desks)
=============================================================================
