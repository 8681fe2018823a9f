--------------------------------- MODULE MCEsl ---------------------------------
(* Small instances of EslLink. *)
EXTENDS EslLink
=============================================================================
