------------------------------ MODULE MCWatchdog ------------------------------
(* Small instances of SilenceWatchdog: one call. *)
EXTENDS SilenceWatchdog
=============================================================================
