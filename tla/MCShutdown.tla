----------------------------- MODULE MCShutdown -----------------------------
(* Shutdown with two packets of two tasks, one executor thread, and two     *)
(* callers of Stop beside the destructor.                                   *)
EXTENDS Shutdown
=============================================================================
