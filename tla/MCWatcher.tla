----------------------------- MODULE MCWatcher ------------------------------
(***************************************************************************)
(* Values for model checking the watcher.                                  *)
(***************************************************************************)
EXTENDS WatcherProperties

CONSTANTS a1, a2
=============================================================================
