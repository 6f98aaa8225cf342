------------------------------ MODULE MCGroups ------------------------------
(***************************************************************************)
(* Two CPUs, two threads, one group with one handle.  CPUs are             *)
(* interchangeable, and so are threads.                                    *)
(***************************************************************************)
EXTENDS Groups, TLC

CONSTANTS cpu0, cpu1, t1, t2

MCCpus == {cpu0, cpu1}
MCThreads == {t1, t2}
Symmetry == Permutations(MCCpus) \cup Permutations(MCThreads)

=============================================================================
