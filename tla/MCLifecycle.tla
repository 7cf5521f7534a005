---------------------------- MODULE MCLifecycle ----------------------------
(***************************************************************************)
(* Lifecycle for TLC: the log file and the console.                        *)
(***************************************************************************)
EXTENDS Lifecycle
FileAndConsole == <<"file", "console">>
=============================================================================
