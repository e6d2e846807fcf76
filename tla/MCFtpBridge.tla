------------------------------- MODULE MCFtpBridge -----------------------------
(***************************************************************************)
(* FtpBridge with three transfers, any mix of get and put, of files with    *)
(* the same or different names.                                             *)
(***************************************************************************)
EXTENDS FtpBridge, TLC

Interchangeable == Permutations(Transfers) \cup Permutations(FileNames)
================================================================================
