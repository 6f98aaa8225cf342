------------------------------- MODULE MCHeap -------------------------------
(***************************************************************************)
(* Pages of 32 bytes.  The sizes are zero, one rounded up, and the ones at *)
(* which the header or the contents begin to need another page.            *)
(***************************************************************************)
EXTENDS Heap

MCSizes == {0, 5, 16, 24, 33}
MCFrames == 1 .. 4

=============================================================================
