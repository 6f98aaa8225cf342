----------------------------- MODULE MCHeapSmp ------------------------------
(***************************************************************************)
(* Two CPUs, two frames, pages of 32 bytes, and sizes whose headers        *)
(* overlap when two blocks are put on the same page.  CPUs and frames are  *)
(* interchangeable.                                                        *)
(***************************************************************************)
EXTENDS HeapSmp, TLC

CONSTANTS cpu0, cpu1, frame1, frame2

MCCpus == {cpu0, cpu1}
MCFrames == {frame1, frame2}
MCSizes == {5, 16, 33}
Symmetry == Permutations(MCCpus) \cup Permutations(MCFrames)

=============================================================================
