---------------------------- MODULE MCCopyWindow ----------------------------
(***************************************************************************)
(* Two CPUs, which are interchangeable, a mapping of one page and one of   *)
(* two.                                                                    *)
(***************************************************************************)
EXTENDS CopyWindow, TLC

CONSTANTS cpu0, cpu1

MCCpus == {cpu0, cpu1}
Symmetry == Permutations(MCCpus)
MCMappings == {<<1>>, <<2, 3>>}

=============================================================================
