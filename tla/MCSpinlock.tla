----------------------------- MODULE MCSpinlock -----------------------------
(***************************************************************************)
(* The spinlock with three CPUs: two can overlap between load and store    *)
(* while a third comes and goes.                                           *)
(***************************************************************************)
EXTENDS Spinlock, TLC

MCCpus == {"cpu0", "cpu1", "cpu2"}

=============================================================================
