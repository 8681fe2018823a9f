-------------------------------- MODULE MCJobs --------------------------------
(* Small instances of MediaJobs: one item, of every kind in turn. *)
EXTENDS MediaJobs, TLC

Symmetric == Permutations(Workers) \cup Permutations(Deleters)
=============================================================================
