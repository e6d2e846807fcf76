------------------------------ MODULE MCJobManager -----------------------------
(***************************************************************************)
(* JobManager on a small instance.  Jobs share nothing but the event loop,  *)
(* so one job, with three attempts and a repeated cancellation, meets every *)
(* interleaving of its task, callback, processes and client.                *)
(***************************************************************************)
EXTENDS JobManager

MCExitCodes == {0, 1}
================================================================================
