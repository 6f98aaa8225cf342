------------------------------- MODULE Loader -------------------------------
(***************************************************************************)
(* How kernel_main starts the first program: initrd_read_file finds its    *)
(* file in the ustar archive (kernel/util/initrd.cpp), a stack is          *)
(* allocated in a new address space, and elf64_load binds and fills one    *)
(* mapping per LOAD segment (kernel/loader/elf64.cpp).  The address space  *)
(* is the one of AddressSpace; then the program runs and faults its pages  *)
(* in.  A behaviour in which loader is "idle" is one of AddressSpace, with *)
(* its operations in any order.                                            *)
(*                                                                         *)
(* A member of the archive is a record [name, size, program], size being   *)
(* the digits of its size field; a program is [wrong, entry, phdrs], wrong *)
(* being the header fields that are not as they should be.                 *)
(***************************************************************************)
EXTENDS AddressSpace

CONSTANTS
  Archives,       \* archives the kernel may be given: sequences of members
  BlockSize,      \* USTAR_BLOCK_SIZE
  StackPages      \* stack_pages

Phdrs == [load : BOOLEAN, vaddr : Nat, memsz : Nat, filesz : Nat]
Files == [name : STRING, size : Seq(0 .. 7) \ {<<>>},
          program : [wrong : SUBSET STRING, entry : Nat, phdrs : Seq(Phdrs)]]

ASSUME ArchivesAssumption ==
  /\ \A ms \in Archives : ms \in Seq(Files)
  /\ BlockSize \in Nat \ {0} /\ StackPages \in Nat \ {0}

VARIABLES
  archive,        \* the members of the archive
  loader,         \* how far kernel_main is
  file,           \* startup_file: a member, or NoFile
  seg,            \* i of elf64_load, from 1
  ip, sp          \* ip() and sp() of the task

loaderVars == <<archive, loader, file, seg, ip, sp>>

NoFile == [name |-> "", size |-> <<>>, program |-> [wrong |-> {}]]

-----------------------------------------------------------------------------
\* The archive

Ceil(n, d) == (n + d - 1) \div d

\* The number that the digits of s from position p on are, added up from the
\* last one.
Octal(s, p) ==
  LET sum[n \in 0 .. Len(s)] ==
        IF n = 0 THEN [integer |-> 0, multiplier |-> 1]
        ELSE LET last == sum[n - 1]
             IN  [integer |-> last.integer + s[Len(s) + 1 - n] * last.multiplier,
                  multiplier |-> last.multiplier * 8]
  IN  sum[Len(s) + 1 - p].integer

\* oct_to_dec: from the end, while there are octal digits; the first
\* character is not looked at.
oct_to_dec(s) ==
  Octal(s, Min({p \in 2 .. Len(s) + 1 : \A i \in p .. Len(s) : s[i] \in 0 .. 7}))

\* The blocks of an archive: per member a header and its contents, and a
\* block of zeroes at the end, as tar writes them.
Zero == [ustar |-> FALSE, of |-> NoFile]
Blocks(ms) ==
  LET upTo[n \in 0 .. Len(ms)] ==
        IF n = 0 THEN <<>>
        ELSE upTo[n - 1] \o <<[ustar |-> TRUE, of |-> ms[n]]>> \o
             [i \in 1 .. Ceil(Octal(ms[n].size, 1), BlockSize) |->
                [ustar |-> FALSE, of |-> ms[n]]]
  IN  upTo[Len(ms)] \o <<Zero>>

BlockAt(bs, b) == IF b < Len(bs) THEN bs[b + 1] ELSE Zero

\* initrd_read_file: headers are followed from the first block on, until the
\* name is met, a block is no header, or the archive ends.  What is read is
\* what the block after the header belongs to; an empty file counts as none.
initrd_read_file(path, bs) ==
  LET found[b \in Nat] ==
        LET m == BlockAt(bs, b).of
        IN  IF b > Len(bs) \/ ~BlockAt(bs, b).ustar THEN NoFile
            ELSE IF m.name = path
              THEN IF oct_to_dec(m.size) = 0 THEN NoFile ELSE BlockAt(bs, b + 1).of
            ELSE found[b + Ceil(oct_to_dec(m.size), BlockSize) + 1]
  IN  found[0]

-----------------------------------------------------------------------------
\* The steps of kernel_main

LoaderInit ==
  /\ Init
  /\ \/ loader = "idle" /\ archive = <<>>
     \/ loader = "read" /\ archive \in Archives
  /\ file = NoFile /\ seg = 1 /\ ip = 0 /\ sp = 0

\* A panic or a failed assertion of kernel_main.
Fail == Halt("panic") /\ UNCHANGED loaderVars

ReadStartup ==
  /\ loader = "read" /\ Ready
  /\ LET f == initrd_read_file("startup", Blocks(archive))
     IN  IF f = NoFile THEN Fail
         ELSE /\ file' = f /\ loader' = "stack"
              /\ UNCHANGED <<vars, archive, seg, ip, sp>>

AllocateStack ==
  /\ loader = "stack"
  /\ Allocate(StackPages)
  /\ sp' = End(holes[Min(FreeHole(StackPages))])
  /\ loader' = "check"
  /\ UNCHANGED <<archive, file, seg, ip>>

Program == file.program
elf64_check(p) == p.wrong = {}

CheckHeader ==
  /\ loader = "check" /\ Ready
  /\ IF elf64_check(Program)
       THEN loader' = "bind" /\ UNCHANGED <<vars, archive, file, seg, ip, sp>>
       ELSE Fail

\* Rounding the size of a segment down.
BugSegmentPages(s) == s.memsz \div PageSize

\* n_pages.
SegmentPages(s) == Ceil(s.memsz, PageSize)

\* A LOAD segment: allocate_at, whose result is not looked at.  bind_exact
\* asserts that neither base nor size is 0.
BindSegment ==
  /\ loader = "bind" /\ seg <= Len(Program.phdrs) /\ Ready
  /\ LET s == Program.phdrs[seg]
     IN  IF ~s.load
           THEN seg' = seg + 1 /\ UNCHANGED <<vars, archive, loader, file, ip, sp>>
         ELSE IF s.vaddr = 0 \/ SegmentPages(s) = 0 THEN Fail
         ELSE /\ AllocateAt(s.vaddr, SegmentPages(s))
              /\ loader' = "load"
              /\ UNCHANGED <<archive, file, seg, ip, sp>>

\* ... and load() to whatever mapping is found at its address.
LoadSegment ==
  /\ loader = "load" /\ Ready
  /\ LET s == Program.phdrs[seg]
     IN  IF Regions(s.vaddr) = {} THEN UNCHANGED vars ELSE Copy(s.vaddr, s.filesz)
  /\ loader' = "bind" /\ seg' = seg + 1
  /\ UNCHANGED <<archive, file, ip, sp>>

\* The entry point is set, and the thread is added and run.
Enter ==
  /\ loader = "bind" /\ seg > Len(Program.phdrs) /\ Ready
  /\ ip' = Program.entry /\ loader' = "run"
  /\ UNCHANGED <<vars, archive, file, seg, sp>>

\* The program, or any other user of an address space.
Run ==
  /\ \/ loader = "run" /\ \E a \in Addresses : FaultHit(a)
     \/ loader = "idle" /\ Next
  /\ UNCHANGED loaderVars

LoaderNext ==
  \/ ReadStartup \/ AllocateStack \/ CheckHeader
  \/ BindSegment \/ LoadSegment \/ Enter \/ Run

LoaderSpec == LoaderInit /\ [][LoaderNext]_<<vars, loaderVars>>

-----------------------------------------------------------------------------

\* The first member called startup, from the list and not from the blocks.
Startup ==
  LET named == {i \in DOMAIN archive : archive[i].name = "startup"}
  IN  IF named = {} THEN NoFile ELSE archive[Min(named)]

\* Size fields that begin with 0: files below 8^10 bytes.
SmallFiles == \A i \in DOMAIN archive : archive[i].size[1] = 0

Loads(p) == {i \in DOMAIN p.phdrs : p.phdrs[i].load}
SegmentRange(s) == [base |-> s.vaddr, size |-> Ceil(s.memsz, PageSize)]

\* Segments that begin at page boundaries and lie apart below the stack.  One
\* that begins where an earlier one ends does not count: load() would find the
\* earlier one.
Apart(p) ==
  /\ \A i \in Loads(p) :
       /\ p.phdrs[i].vaddr % PageSize = 0
       /\ PagesOf(SegmentRange(p.phdrs[i])) \subseteq 1 .. LastPage - StackPages
       /\ p.phdrs[i].memsz > 0 /\ p.phdrs[i].filesz <= p.phdrs[i].memsz
  /\ \A i, j \in Loads(p) : i < j =>
       LET r == SegmentRange(p.phdrs[i])
           s == SegmentRange(p.phdrs[j])
       IN  PagesOf(r) \cap PagesOf(s) = {} /\ End(r) # s.base

\* Where the copy puts the byte for address x of mapping r, and where the
\* program finds the byte at x: a physical page and an offset in it.
Put(r, x)  == <<r.back[Index(r, x)].ptr, (x - r.base) % PageSize>>
Found(x)   == <<pt[x \div PageSize], x % PageSize>>

\* Segment s has a mapping of its own; its pages are entered in the page
\* tables, and the program finds the file's bytes where it expects them, as
\* far as there were frames for them.
Loaded(s) ==
  \E k \in DOMAIN maps :
    /\ maps[k].base = s.vaddr
    /\ maps[k].size = SegmentRange(s).size
    /\ "no frame" \notin zeroHits =>
         \A x \in s.vaddr .. s.vaddr + s.filesz - 1 :
           maps[k].back[Index(maps[k], x)].exists /\ Put(maps[k], x) = Found(x)

\* What kernel_main enters is the program the archive calls startup, with a
\* stack and with every segment in a mapping of its own; and an archive that
\* has such a program, with its segments apart, never makes kernel_main panic,
\* whatever precedes the program in the archive.
StartupLoaded ==
  (loader # "idle" /\ SmallFiles) =>
    /\ loader # "read" => file = Startup
    /\ (Startup # NoFile /\ Octal(Startup.size, 1) > 0
          /\ elf64_check(Startup.program) /\ Apart(Startup.program)) =>
         /\ loader # "run" => halted = "no"
         /\ loader = "run" =>
              /\ ip = Startup.program.entry
              /\ \E k \in DOMAIN maps : maps[k].size = StackPages /\ End(maps[k]) = sp
              /\ \A i \in Loads(Startup.program) : Loaded(Startup.program.phdrs[i])

=============================================================================
