---------------------------- MODULE MCLogWatcher ----------------------------
(* A configuration of LogWatcher for TLC needs no definitions of its own.  *)
EXTENDS LogWatcher
=============================================================================
