---------------------------- MODULE MCScheduler -----------------------------
(***************************************************************************)
(* The kernel as it is, with one thread, on two CPUs that compete for it.  *)
(***************************************************************************)
EXTENDS Scheduler

=============================================================================
