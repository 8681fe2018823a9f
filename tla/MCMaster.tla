------------------------------- MODULE MCMaster -------------------------------
(* Small instances of MasterWorker: an intent without domains, and two     *)
(* intents whose first steps are of different domains.                     *)
EXTENDS MasterWorker, TLC

CONSTANTS a, b

Symmetric == Permutations(Masters)
AllIntents == {<<>>, <<b>>, <<a, b>>}
=============================================================================
