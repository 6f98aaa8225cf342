----------------------------- MODULE PageTables -----------------------------
(***************************************************************************)
(* The four level page tables of kernel/arch/x86_64/mm/vmm.cpp: tables in  *)
(* frames of the physical allocator, the kernel's address space and user   *)
(* address spaces that share its upper half.                               *)
(*                                                                         *)
(* A page is its number; Fan gives the entries of a table at each level,   *)
(* 512 in the code.  Slot Fan[1] \div 2 of the top level holds the window  *)
(* on physical memory, the last one the kernel image.  Permissions and     *)
(* cache modes are left out.  Calls are whole: callers on other CPUs that  *)
(* the lock over the heap or the copy window does not order are not in     *)
(* this module.  The kernel maps only pages of the lower half after boot:  *)
(* heap, local APIC, frame buffer, trampoline and copy window.             *)
(*                                                                         *)
(* Definitions whose name starts with Bug are faulty variants of the       *)
(* definition that follows them; no specification uses them.               *)
(***************************************************************************)
EXTENDS Integers, Sequences, FiniteSets, FiniteSetsExt, SequencesExt

CONSTANTS
  Fan,            \* entries of a table, from the top level down
  Frames,         \* frames of the physical allocator, positive numbers
  Segments,       \* ELF LOAD segments of the kernel: [vaddr, paddr, pages]
  HugeCount,      \* large pages of the window on physical memory
  Phys,           \* physical pages that callers map
  KernelPages, UserPages,  \* pages that callers map
  MaxRun,         \* bound on the pages of a call
  MaxSpaces       \* bound on the live user address spaces

ASSUME FanAssumption == Len(Fan) = 4 /\ \A i \in 1 .. 4 : Fan[i] \in Nat \ {0}
ASSUME FramesAssumption == Frames \subseteq Nat \ {0}

VARIABLES
  mem,            \* the tables: frame -> entries
  free,           \* free frames
  kernel_pml4,    \* frame of the kernel's top level
  spaces,         \* top levels of the live user address spaces
  lost,           \* page tables of dead address spaces
  halted          \* a table could not be allocated: the kernel faults

vars == <<mem, free, kernel_pml4, spaces, lost, halted>>

-----------------------------------------------------------------------------
\* Addresses

\* Pages under one entry of a table, by level.
Span == << Fan[2] * Fan[3] * Fan[4], Fan[3] * Fan[4], Fan[4], 1 >>
Pages == 0 .. Fan[1] * Span[1] - 1
LowerHalf == 0 .. (Fan[1] \div 2) * Span[1] - 1
PhysBase == (Fan[1] \div 2) * Span[1]
ImageBase == (Fan[1] - 1) * Span[1]

\* vmm_virt_to_offs.
Offs == [v \in Pages |-> [i \in 1 .. 4 |-> (v \div Span[i]) % Fan[i]]]

-----------------------------------------------------------------------------
\* Tables.  s is a record of the memory, the free frames and the table that a
\* walk has reached; table 0 is NULL.

Absent == [present |-> FALSE, large |-> FALSE, addr |-> 0]
Entry(a) == [present |-> TRUE, large |-> FALSE, addr |-> a]
Large(a) == [present |-> TRUE, large |-> TRUE, addr |-> a]
Slots == 0 .. Max(ToSet(Fan)) - 1
Zeroed == [o \in Slots |-> Absent]

\* A frame that no address space reaches may hold anything: entries that look
\* present stand for it.
Anything == [o \in Slots |-> Entry(0)]

vmm_get_or_alloc_ent(s, off) ==
  LET e == s.mem[s.at][off] f == Min(s.free)
  IN
  IF s.at = 0 THEN s
  ELSE IF e.present THEN [s EXCEPT !.at = e.addr]
  ELSE IF s.free = {} THEN [s EXCEPT !.mem[s.at][off] = Absent, !.at = 0]
  ELSE [mem |-> [s.mem EXCEPT ![s.at][off] = Entry(f), ![f] = Zeroed],
        free |-> s.free \ {f}, at |-> f]

vmm_get_or_null_ent(m, tab, off) ==
  IF tab # 0 /\ m[tab][off].present THEN m[tab][off].addr ELSE 0

\* The page directory and the page table of page v, or 0.
PdOf(m, top, v) ==
  vmm_get_or_null_ent(m, vmm_get_or_null_ent(m, top, Offs[v][1]), Offs[v][2])
PtOf(m, top, v) == vmm_get_or_null_ent(m, PdOf(m, top, v), Offs[v][3])

\* One turn of the loop of vmm_map_pages, and of vmm_map_huge_pages.  s.at is
\* 0 afterwards when the code has gone through a NULL table.
PdFor(s, top, v) ==
  IF s.at = 0 THEN s
  ELSE vmm_get_or_alloc_ent(
         vmm_get_or_alloc_ent([s EXCEPT !.at = top], Offs[v][1]), Offs[v][2])
MapOne(s, top, v, p) ==
  LET r == vmm_get_or_alloc_ent(PdFor(s, top, v), Offs[v][3])
  IN  IF r.at = 0 THEN r ELSE [r EXCEPT !.mem[r.at][Offs[v][4]] = Entry(p)]
MapOneHuge(s, top, v, p) ==
  LET r == PdFor(s, top, v)
  IN  IF r.at = 0 THEN r ELSE [r EXCEPT !.mem[r.at][Offs[v][3]] = Large(p)]

vmm_map_pages(s, top, virt, phys, count) ==
  FoldLeft(LAMBDA t, i : MapOne(t, top, virt + i - 1, phys + i - 1),
           [s EXCEPT !.at = top], [i \in 1 .. count |-> i])

vmm_map_huge_pages(s, top, virt, phys, count) ==
  FoldLeft(LAMBDA t, i : MapOneHuge(t, top, virt + (i - 1) * Span[3],
                                    phys + (i - 1) * Span[3]),
           [s EXCEPT !.at = top], [i \in 1 .. count |-> i])

\* The pages of a run before the first one that has no page table.
Walked(m, top, virt, count) ==
  {v \in virt .. virt + count - 1 : \A u \in virt .. v : PtOf(m, top, u) # 0}

vmm_unmap_pages(m, top, virt, count) ==
  FoldSet(LAMBDA v, n : [n EXCEPT ![PtOf(m, top, v)][Offs[v][4]] = Absent],
          m, Walked(m, top, virt, count))

\* The kernel image looked up as if it were in the window.
BugGetEntry(m, top, v) ==
  IF v >= PhysBase THEN v - PhysBase
  ELSE LET pt == PtOf(m, top, v)
       IN  IF pt = 0 THEN 0 ELSE m[pt][Offs[v][4]].addr

\* vmm_get_entry: the physical page, 0 where nothing is mapped.
vmm_get_entry(m, top, v) ==
  IF v >= ImageBase THEN v - ImageBase
  ELSE IF v >= PhysBase THEN v - PhysBase
  ELSE LET pt == PtOf(m, top, v)
       IN  IF pt = 0 THEN 0 ELSE m[pt][Offs[v][4]].addr

-----------------------------------------------------------------------------
\* Address spaces

Image == SelectSeq(Segments, LAMBDA g : g.vaddr >= ImageBase)

\* vmm_new_address_space at boot, when there is no kernel_pml4: the window on
\* physical memory and the segments of the kernel's own ELF file.
KernelSpace(s) ==
  LET top == Min(s.free)
      new == [mem |-> [s.mem EXCEPT ![top] = Zeroed],
              free |-> s.free \ {top}, at |-> top]
  IN  FoldLeft(LAMBDA t, g : vmm_map_pages(t, top, g.vaddr, g.paddr, g.pages),
               vmm_map_huge_pages(new, top, PhysBase, 0, HugeCount), Image)

\* vmm_init.
Init ==
  /\ \E s \in {KernelSpace([mem |-> [f \in Frames |-> Anything],
                            free |-> Frames, at |-> 0])} :
       mem = s.mem /\ free = s.free
  /\ kernel_pml4 = Min(Frames)
  /\ spaces = {} /\ lost = {}
  /\ halted = FALSE

\* Half of the upper half is copied.
BugCopiedTop ==
  [o \in Slots |-> IF o = Fan[1] \div 2 THEN mem[kernel_pml4][o] ELSE Absent]

\* The upper half of the kernel's top level, copied when the address space is
\* made.
CopiedTop ==
  [o \in Slots |-> IF o \in Fan[1] \div 2 .. Fan[1] - 1
                     THEN mem[kernel_pml4][o] ELSE Absent]

\* arch_mm_create_context; a NULL top level is cleared through the window on
\* physical memory, so that the model ends when there is no frame.
arch_mm_create_context ==
  /\ ~halted /\ Cardinality(spaces) < MaxSpaces
  /\ IF free = {} THEN halted' = TRUE /\ UNCHANGED <<mem, free, spaces>>
     ELSE /\ mem' = [mem EXCEPT ![Min(free)] = CopiedTop]
          /\ free' = free \ {Min(free)}
          /\ spaces' = spaces \cup {Min(free)}
          /\ UNCHANGED halted
  /\ UNCHANGED <<kernel_pml4, lost>>

Mappable(top) == IF top = kernel_pml4 THEN KernelPages ELSE UserPages
Run(v, n) == v .. v + n - 1

\* arch_mm_map and arch_mm_map_kernel.
arch_mm_map(top, v, p, n) ==
  /\ ~halted /\ Run(v, n) \subseteq Mappable(top)
  /\ \E s \in {vmm_map_pages([mem |-> mem, free |-> free, at |-> 0],
                             top, v, p, n)} :
       mem' = s.mem /\ free' = s.free /\ halted' = (s.at = 0)
  /\ UNCHANGED <<kernel_pml4, spaces, lost>>

\* arch_mm_unmap and arch_mm_unmap_kernel.
arch_mm_unmap(top, v, n) ==
  /\ ~halted /\ Run(v, n) \subseteq Mappable(top)
  /\ mem' = vmm_unmap_pages(mem, top, v, n)
  /\ UNCHANGED <<free, kernel_pml4, spaces, lost, halted>>

\* Tables that the lower half of a top level reaches, by level.
Under(m, tabs, slots) ==
  {a \in Frames : \E t \in tabs, o \in slots :
                    m[t][o].present /\ ~m[t][o].large /\ m[t][o].addr = a}
Lower == 0 .. Fan[1] \div 2 - 1
Pdps(m, top) == Under(m, {top}, Lower)
Pds(m, top) == Under(m, Pdps(m, top), Slots)
Pts(m, top) == Under(m, Pds(m, top), Slots)
OwnTables(c) == {c} \cup Pdps(mem, c) \cup Pds(mem, c) \cup Pts(mem, c)

\* Freeing what the whole top level reaches.
BugDestroyed(m, top) ==
  LET pdps == Under(m, {top}, Slots)
  IN  {top} \cup pdps \cup Under(m, pdps, Slots)

\* What arch_mm_destroy_context frees.  The test of PRESENT in the innermost
\* loop skips the page tables and frees page 0, which is not a frame of the
\* allocator, for each entry that is not present.
Destroyed(m, top) == {top} \cup Pdps(m, top) \cup Pds(m, top)

arch_mm_destroy_context(top) ==
  /\ ~halted
  /\ spaces' = spaces \ {top}
  /\ free' = free \cup Destroyed(mem, top)
  /\ lost' = lost \cup Pts(mem, top)
  /\ mem' = [f \in Frames |-> IF f \in OwnTables(top) THEN Anything
                                                     ELSE mem[f]]
  /\ UNCHANGED <<kernel_pml4, halted>>

Next ==
  \/ arch_mm_create_context
  \/ \E top \in spaces \cup {kernel_pml4}, n \in 1 .. MaxRun :
       \E v \in Mappable(top) :
         \/ \E p \in Phys : arch_mm_map(top, v, p, n)
         \/ arch_mm_unmap(top, v, n)
  \/ \E top \in spaces : arch_mm_destroy_context(top)

Spec == Init /\ [][Next]_vars

-----------------------------------------------------------------------------

\* What the processor finds for page v, a large page included; -1 is none.
Walk(top, v) ==
  LET o  == Offs[v]
      pd == PdOf(mem, top, v)
      pt == PtOf(mem, top, v)
  IN  IF pd # 0 /\ mem[pd][o[3]].large THEN mem[pd][o[3]].addr + o[4]
      ELSE IF pt = 0 \/ ~mem[pt][o[4]].present THEN -1
      ELSE mem[pt][o[4]].addr

Seen(top) == [v \in Pages |-> Walk(top, v)]

\* The tables implement one function per address space: mapping, unmapping,
\* creating and destroying change no translation but their own, although
\* tables are shared in the upper half and frames are used again.
Flat == INSTANCE Translations WITH Unmapped <- -1,
          kernel <- Seen(kernel_pml4),
          user <- [c \in spaces |-> Seen(c)]
ImplementsTranslations == Flat!Spec

\* Frames of the tables below kernel_pml4, with its own.
KernelTables ==
  LET pdps == Under(mem, {kernel_pml4}, Slots)
      pds  == Under(mem, pdps, Slots)
  IN  {kernel_pml4} \cup pdps \cup pds
        \cup (Under(mem, pds, Slots) \cap Frames)

\* Every table of the lower half belongs to one address space, no table in use
\* is free, and the frames that are neither are the page tables of address
\* spaces that arch_mm_destroy_context has taken down.
TablesAccounted ==
  /\ \A c, d \in spaces : c # d => OwnTables(c) \cap OwnTables(d) = {}
  /\ \A c \in spaces : OwnTables(c) \cap (KernelTables \cup free) = {}
  /\ KernelTables \cap free = {}
  /\ Frames = free \cup KernelTables \cup lost
                \cup UNION {OwnTables(c) : c \in spaces}

\* vmm_get_entry, which takes two ranges as given and does not know large
\* pages, agrees with the processor on every page that is mapped, in every
\* address space.
GetEntryMatches ==
  \A c \in spaces \cup {kernel_pml4} : \A v \in Pages :
    /\ Walk(c, v) # -1 => vmm_get_entry(mem, c, v) = Walk(c, v)
    /\ Walk(c, v) = -1 /\ v \in LowerHalf => vmm_get_entry(mem, c, v) = 0

=============================================================================
