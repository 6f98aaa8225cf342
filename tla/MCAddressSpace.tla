--------------------------- MODULE MCAddressSpace ---------------------------
(***************************************************************************)
(* A user range of four pages of two bytes and two frames: room for three  *)
(* neighbours and a hole, for copies that straddle a page boundary, and    *)
(* for running out of frames.                                              *)
(*                                                                         *)
(* The archives have up to two members.  Their sizes are no block, one, a  *)
(* part of two and a size whose first digit is not 0; the programs have no *)
(* segment, one, two apart, two that touch, in both orders, two that       *)
(* overlap, one outside of the range, one that begins inside a page, alone *)
(* and before another, an empty one and one without file contents.         *)
(***************************************************************************)
EXTENDS Loader

MCFrames == {1, 2}
MCBases == {2, 4, 5, 6, 8}

Phdr(load, vaddr, memsz, filesz) ==
  [load |-> load, vaddr |-> vaddr, memsz |-> memsz, filesz |-> filesz]
Elf(phdrs) == [wrong |-> {}, entry |-> 2, phdrs |-> phdrs]

Low  == Phdr(TRUE, 2, 2, 1)
High == Phdr(TRUE, 6, 1, 1)
Odd  == Phdr(TRUE, 3, 2, 2)
Note == Phdr(FALSE, 2, 1, 1)

Programs == {
  Elf(<<>>), Elf(<<Low>>), Elf(<<Note, Low, High>>),
  Elf(<<Low, Phdr(TRUE, 4, 2, 2)>>), Elf(<<Phdr(TRUE, 4, 3, 2), Low>>),
  Elf(<<Phdr(TRUE, 2, 3, 3), Phdr(TRUE, 4, 2, 2)>>),
  Elf(<<Phdr(TRUE, 4, 4, 3)>>), Elf(<<Phdr(TRUE, 12, 2, 2)>>),
  Elf(<<Odd>>), Elf(<<Odd, High>>),
  Elf(<<Phdr(TRUE, 0, 2, 2)>>), Elf(<<Phdr(TRUE, 2, 0, 0)>>),
  Elf(<<Low, Phdr(TRUE, 4, 2, 0)>>),
  [Elf(<<Low>>) EXCEPT !.wrong = {"class"}]}

Member(name, size, program) ==
  [name |-> name, size |-> size, program |-> program]
Sizes == {<<0, 0>>, <<0, 2>>, <<0, 3>>, <<1, 0>>}

MCArchives ==
  {<<>>} \cup
  {<<Member("startup", <<0, 3>>, p)>> : p \in Programs} \cup
  {<<Member(n, s, Elf(<<High>>)), Member("startup", t, Elf(<<Low>>))>> :
     n \in {"other", "startup"}, s \in Sizes, t \in Sizes}

=============================================================================
