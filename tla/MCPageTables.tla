---------------------------- MODULE MCPageTables ----------------------------
(***************************************************************************)
(* Two user address spaces.  Slots 0 and 1 of the top level are the lower  *)
(* half, each with two page tables of two pages; slot 2 holds the window   *)
(* on physical memory, slot 3 the kernel image.                            *)
(***************************************************************************)
EXTENDS PageTables

MCFan == <<4, 1, 2, 2>>
MCFrames == 1 .. 14
MCSegments == << [vaddr |-> 0, paddr |-> 0, pages |-> 1],
                 [vaddr |-> 12, paddr |-> 0, pages |-> 2] >>

=============================================================================
