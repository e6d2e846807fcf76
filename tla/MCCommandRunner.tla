---------------------------- MODULE MCCommandRunner ----------------------------
(***************************************************************************)
(* CommandRunner on a small instance.  124 is among the exit codes because  *)
(* a process may end with the very code run() makes up for itself.          *)
(***************************************************************************)
EXTENDS CommandRunner

MCExitCodes == {0, 1, 124}
================================================================================
