-------------------------------- MODULE MCPmm -------------------------------
(***************************************************************************)
(* Pages of 2 bytes, so that a bitmap of a few bytes ends inside a page.   *)
(* The memory maps: one region with a bitmap of whole pages; one whose     *)
(* bitmap ends inside a page; two regions with a hole, low memory and a    *)
(* reserved region; a small region that begins below the base, with bits   *)
(* behind the last whole byte; one that ends inside a page, below another; *)
(* an unaligned one; a region at the base that is too small for the        *)
(* bitmap.                                                                 *)
(***************************************************************************)
EXTENDS Pmm

Avail(a, l) == [addr |-> a, len |-> l, avail |-> TRUE]
Reserved(a, l) == [addr |-> a, len |-> l, avail |-> FALSE]

MCMemoryMaps ==
  { {Avail(0, 2), Avail(4, 28)},
    {Avail(4, 44)},
    {Avail(0, 2), Avail(4, 16), Reserved(20, 8), Avail(28, 20)},
    {Avail(2, 16)},
    {Avail(4, 9), Avail(40, 24)},
    {Avail(5, 27)},
    {Avail(2, 4), Avail(8, 40)} }

=============================================================================
