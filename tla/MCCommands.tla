----------------------------- MODULE MCCommands -----------------------------
(***************************************************************************)
(* Commands for TLC: five days of two ticks, a disk of three megabytes of  *)
(* two units and one channel.                                              *)
(***************************************************************************)
EXTENDS Commands
=============================================================================
