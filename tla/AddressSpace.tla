---------------------------- MODULE AddressSpace ----------------------------
(***************************************************************************)
(* A user address space, kernel/mm/vm.cpp: the list of holes, the list of  *)
(* mappings with their backing pages, and the page tables that map_region  *)
(* and unmap_region fill.  Calls on one address space are sequential: they *)
(* come from the thread that runs in it or from kernel_main before that.   *)
(*                                                                         *)
(* Bases and addresses are in bytes, sizes in pages.  allocate_at() takes  *)
(* any base, as elf64_load gives it one; nothing in the code rounds it or  *)
(* refuses it.  What bind_exact makes of a base inside a page is modelled, *)
(* and most properties say nothing of what follows it.  Addresses do not   *)
(* wrap at 2^64.  Frames are handed out lowest first, as pmm_alloc does.   *)
(* Permissions and cache modes are left out.  A panic, or a call whose     *)
(* result makes the caller panic, ends the behaviour.                      *)
(*                                                                         *)
(* Definitions whose name starts with Bug are faulty variants of the       *)
(* definition that follows them; no specification uses them.               *)
(***************************************************************************)
EXTENDS Integers, Sequences, FiniteSets, FiniteSetsExt

CONSTANTS
  PageSize,       \* vm_page_size
  LastPage,       \* the user range is the pages 1 .. LastPage
  Frames,         \* frames of the physical allocator, positive numbers
  Device,         \* physical page at which map() and map_at() begin
  Bases,          \* what allocate_at() and map_at() are called with
  MaxSize         \* bound on the size of a mapping, in pages

ASSUME SizesAssumption ==
  /\ PageSize \in Nat \ {0} /\ LastPage \in Nat \ {0} /\ MaxSize \in Nat
  /\ Bases \subseteq Nat \ {0}
ASSUME FramesAssumption ==
  /\ Frames \subseteq Nat \ {0} /\ IsFiniteSet(Frames)
  /\ Device \in Nat /\ \A f \in Frames : f < Device

UserPages == 1 .. LastPage
Addresses == PageSize .. (LastPage + 1) * PageSize

VARIABLES
  holes,          \* _memory_holes, in list order: [base, size]
  maps,           \* _mapped_regions, in list order: [base, size, back]
  pt,             \* page tables of the address space: page -> physical page
  free,           \* free frames
  zeroHits,       \* why a copy reached a page without backing
  unaligned,      \* bind_exact has bound a range that begins inside a page
  alive,          \* the address space has not been destroyed
  halted          \* what ended the behaviour, or "no"

vars == <<holes, maps, pt, free, zeroHits, unaligned, alive, halted>>

Init ==
  /\ holes = <<[base |-> PageSize, size |-> LastPage]>>
  /\ maps = <<>>
  /\ pt = [v \in {} |-> 0]
  /\ free = Frames
  /\ zeroHits = {} /\ unaligned = FALSE
  /\ alive = TRUE /\ halted = "no"

\* Where a hole or mapping ends.
End(r) == r.base + r.size * PageSize

\* The pages that base, base + PageSize, ... lie in: the entries of the page
\* tables that arch_mm_map and arch_mm_unmap work on.
First(r) == r.base \div PageSize
PagesOf(r) == First(r) .. First(r) + r.size - 1

-----------------------------------------------------------------------------
\* The two lists

\* insert() before position i, and erase().
InsertAt(list, i, r) ==
  [j \in 1 .. Len(list) + 1 |->
     IF j < i THEN list[j] ELSE IF j = i THEN r ELSE list[j - 1]]
RemoveAt(list, i) ==
  [j \in 1 .. Len(list) - 1 |-> IF j < i THEN list[j] ELSE list[j + 1]]

\* find_succ_hole, find_succ_mapping: the entry from r.base on that ends
\* first, as a position; none if there is no such entry.
Succ(list, r) ==
  {i \in DOMAIN list :
     /\ list[i].base >= r.base
     /\ \A j \in DOMAIN list : list[j].base >= r.base =>
          End(list[i]) <= End(list[j])}

\* put(memory_mapping *) that always appends.
BugPutMapping(list, r) == Append(list, r)

PutMapping(list, r) ==
  IF Succ(list, r) # {} THEN InsertAt(list, Min(Succ(list, r)), r)
                        ELSE Append(list, r)

\* put(memory_hole *): at the front when no hole follows.
PutHole(list, r) ==
  IF Succ(list, r) # {} THEN InsertAt(list, Min(Succ(list, r)), r)
                        ELSE InsertAt(list, 1, r)

\* merge_holes: neighbours in the list that meet become one.
JoinHole(acc, h) ==
  IF acc # <<>> /\ End(acc[Len(acc)]) = h.base
    THEN [acc EXCEPT ![Len(acc)].size = @ + h.size]
    ELSE Append(acc, h)
MergeHoles(list) ==
  LET merged[n \in 0 .. Len(list)] ==
        IF n = 0 THEN <<>> ELSE JoinHole(merged[n - 1], list[n])
  IN  merged[Len(list)]

\* find_free_hole: of the holes that are large enough the highest, the last
\* one in the list if there are several.
FreeHole(size) ==
  {i \in DOMAIN holes :
     /\ holes[i].size >= size
     /\ \A j \in DOMAIN holes : holes[j].size >= size =>
          \/ holes[j].base < holes[i].base
          \/ holes[j].base = holes[i].base /\ j <= i}

\* bind_hole that leaves the hole as it was.
BugTakeTop(i, size) ==
  IF holes[i].size = size THEN RemoveAt(holes, i) ELSE holes

\* bind_hole: the top of hole i is taken.
TakeTop(i, size) ==
  IF holes[i].size = size THEN RemoveAt(holes, i)
                          ELSE [holes EXCEPT ![i].size = @ - size]

\* bind_exact: hole i is taken, or cut at its front, at its end, or in two.
\* The sizes of the two parts are rounded: with a base inside a page they do
\* not add up to what is left of the hole.
Cut(list, i, r) ==
  LET h    == list[i]
      low  == (r.base - h.base) \div PageSize
      high == [base |-> End(r), size |-> h.size - r.size - low]
  IN  IF r.base = h.base /\ r.size = h.size THEN RemoveAt(list, i)
      ELSE IF r.base = h.base
        THEN [list EXCEPT ![i] = [base |-> End(r), size |-> h.size - r.size]]
      ELSE IF End(r) = End(h) THEN [list EXCEPT ![i].size = @ - r.size]
      ELSE InsertAt([list EXCEPT ![i] = high], i, [base |-> h.base, size |-> low])

-----------------------------------------------------------------------------
\* Mappings

\* The backing pages of a new mapping after allocate() or map_to().
Overcommitted(size) ==
  [i \in 1 .. size |-> [ptr |-> 0, exists |-> FALSE, allocated |-> TRUE]]
MappedTo(size) ==
  [i \in 1 .. size |->
     [ptr |-> Device + i - 1, exists |-> TRUE, allocated |-> FALSE]]

\* map_region(r).
Mapped(r) ==
  LET new == {v \in PagesOf(r) : r.back[v - First(r) + 1].exists}
  IN  [v \in DOMAIN pt \cup new |->
         IF v \in new THEN r.back[v - First(r) + 1].ptr ELSE pt[v]]

\* unmap_region(r) that forgets the last page.
BugUnmapped(r) ==
  LET old == {v \in PagesOf(r) : v # First(r) + r.size - 1
                                 /\ r.back[v - First(r) + 1].exists}
  IN  [v \in DOMAIN pt \ old |-> pt[v]]

\* unmap_region(r).
Unmapped(r) ==
  LET old == {v \in PagesOf(r) : r.back[v - First(r) + 1].exists}
  IN  [v \in DOMAIN pt \ old |-> pt[v]]

\* Returning none of a mapping's frames.
BugReturnedNone(r) == {}

\* Frames that ~memory_mapping returns.
Returned(r) == {r.back[i].ptr : i \in {j \in 1 .. r.size :
                                         /\ r.back[j].exists
                                         /\ r.back[j].allocated
                                         /\ r.back[j].ptr # 0}}

\* touch(i) for the positions in idx, in order: each page that does not exist
\* gets the lowest free frame, until there is none left.
Touched(r, idx) ==
  LET want == {i \in idx : ~r.back[i].exists}
      rank(i, S) == Cardinality({j \in S : j < i})
      got == {i \in want : rank(i, want) < Cardinality(free)}
      frame(i) == CHOOSE f \in free : rank(f, free) = rank(i, want)
  IN  [r EXCEPT !.back = [i \in 1 .. r.size |->
         IF i \in got THEN [r.back[i] EXCEPT !.exists = TRUE, !.ptr = frame(i)]
                      ELSE r.back[i]]]

\* region_for_address: the first mapping in the list, its end included.
Regions(a) == {i \in DOMAIN maps : maps[i].base <= a /\ a <= End(maps[i])}
Region(a) == Min(Regions(a))

\* The position of address a among the backing pages of r.
Index(r, a) == (a - r.base) \div PageSize + 1

Halt(why) ==
  /\ halted' = why
  /\ UNCHANGED <<holes, maps, pt, free, zeroHits, unaligned, alive>>

\* Mapping i becomes r, whose new pages are entered in the page tables.
Commit(i, r) ==
  /\ maps' = [maps EXCEPT ![i] = r]
  /\ free' = free \ Returned(r)
  /\ pt' = IF r # maps[i] THEN Mapped(r) ELSE pt

Ready == alive /\ halted = "no"

-----------------------------------------------------------------------------
\* Operations

\* find_free_hole and bind_hole, then map_region of the new mapping; no change
\* when no hole is large enough.
BindHole(size, back) ==
  /\ Ready
  /\ \E i \in FreeHole(size) :
       LET r == [base |-> End(holes[i]) - size * PageSize, size |-> size,
                 back |-> back]
       IN  /\ holes' = TakeTop(i, size)
           /\ maps' = PutMapping(maps, r)
           /\ pt' = Mapped(r)
  /\ UNCHANGED <<free, zeroHits, unaligned, alive, halted>>

\* bind_exact, then map_region of the new mapping; the holes stay merged when
\* there is no room.
BindExact(base, size, back) ==
  LET list == MergeHoles(holes)
      r    == [base |-> base, size |-> size, back |-> back]
      fit  == {i \in DOMAIN list : list[i].base <= base /\ End(r) <= End(list[i])}
  IN
  /\ Ready
  /\ IF fit = {}
       THEN holes' = list /\ UNCHANGED <<maps, pt, unaligned>>
       ELSE /\ holes' = Cut(list, Min(fit), r)
            /\ maps' = PutMapping(maps, r)
            /\ pt' = Mapped(r)
            /\ unaligned' = (unaligned \/ base % PageSize # 0)
  /\ UNCHANGED <<free, zeroHits, alive, halted>>

Allocate(size) == BindHole(size, Overcommitted(size))
Map(size) == BindHole(size, MappedTo(size))
AllocateAt(base, size) == BindExact(base, size, Overcommitted(size))
MapAt(base, size) == BindExact(base, size, MappedTo(size))

\* unbind_region: the range of r becomes a hole.
Unbound(r) == MergeHoles(PutHole(holes, [base |-> r.base, size |-> r.size]))

\* destroy(); the caller names an address of a mapping.
Destroy(a) ==
  /\ Ready /\ Regions(a) # {}
  /\ LET r == maps[Region(a)]
     IN  /\ pt' = Unmapped(r)
         /\ holes' = Unbound(r)
         /\ free' = free \cup Returned(r)
  /\ maps' = RemoveAt(maps, Region(a))
  /\ UNCHANGED <<zeroHits, unaligned, alive, halted>>

Within(r, a) == r.base <= a /\ a < End(r)
InSomeMapping(a) == \E i \in DOMAIN maps : Within(maps[i], a)

\* memory_mapping::fault_hit: what a fault at address a is to mapping r.
FaultIn(r, a) ==
  IF Index(r, a) > r.size
    THEN IF InSomeMapping(a) THEN "wrong mapping" ELSE "outside"
  ELSE IF r.back[Index(r, a)].exists THEN "killed" ELSE "overcommitted"

\* fault_hit(), called by sched_page_fault, which panics on false.
FaultHit(a) ==
  /\ Ready
  /\ IF Regions(a) = {} THEN Halt("killed")
     ELSE LET r == maps[Region(a)]
          IN  IF FaultIn(r, a) # "overcommitted" THEN Halt(FaultIn(r, a))
              ELSE /\ Commit(Region(a), Touched(r, {Index(r, a)}))
                   /\ UNCHANGED <<holes, zeroHits, unaligned, alive, halted>>

\* touch() and touch_all().
Touch(a) ==
  /\ Ready /\ Regions(a) # {}
  /\ LET r == maps[Region(a)]
         i == Index(r, a)
     IN  IF i > r.size THEN Halt("index")
         ELSE /\ Commit(Region(a), Touched(r, {i}))
              /\ UNCHANGED <<holes, zeroHits, unaligned, alive, halted>>

TouchAll(a) ==
  /\ Ready /\ Regions(a) # {}
  /\ LET r == maps[Region(a)]
     IN  Commit(Region(a), Touched(r, 1 .. r.size))
  /\ UNCHANGED <<holes, zeroHits, unaligned, alive, halted>>

\* Rounding the number of pages to touch down.
BugEnsured(r, a, size) ==
  Index(r, a) .. Index(r, a) + size \div PageSize - 1

\* ensure_load_store: the pages it touches.
Ensured(r, a, size) ==
  Index(r, a) .. Index(r, a) + (size + PageSize - 1) \div PageSize - 1

\* Why a copy of size bytes at a, in mapping r with its pages touched and
\* left being the frames that are still free, reaches pages without backing.
\* A page that was to be touched has none because no frame was left.  A page
\* that was not is the one more that a copy from inside a page ends in.
Missed(r, a, size, left) ==
  LET hit == {i \in {Index(r, x) : x \in a .. a + size - 1} : ~r.back[i].exists}
      touched == hit \cap Ensured(r, a, size)
  IN  {CASE i \in touched /\ left = {} -> "no frame"
         [] i \notin touched /\ (a - r.base) % PageSize # 0 -> "straddle"
         [] OTHER -> "other" : i \in hit}

\* load() and store(): pages are touched, then all of the mapping is mapped
\* in the kernel, a page without backing as physical page 0, and copied.  A
\* copy that leaves the mapping faults there.
Copy(a, size) ==
  /\ Ready /\ Regions(a) # {}
  /\ LET r == maps[Region(a)]
         t == Touched(r, Ensured(r, a, size))
     IN  IF a + size > End(r) THEN Halt("copy")
         ELSE /\ Commit(Region(a), t)
              /\ zeroHits' = zeroHits \cup Missed(t, a, size, free \ Returned(t))
              /\ UNCHANGED <<holes, unaligned, alive, halted>>

\* ~address_space: the page tables go, and every mapping returns its frames.
DestroySpace ==
  /\ Ready
  /\ alive' = FALSE
  /\ holes' = <<>> /\ maps' = <<>> /\ pt' = [v \in {} |-> 0]
  /\ free' = free \cup UNION {Returned(maps[i]) : i \in DOMAIN maps}
  /\ UNCHANGED <<zeroHits, unaligned, halted>>

Next ==
  \/ \E size \in 1 .. MaxSize : Allocate(size) \/ Map(size)
  \/ \E base \in Bases, size \in 1 .. MaxSize :
       AllocateAt(base, size) \/ MapAt(base, size)
  \/ \E a \in Addresses : Destroy(a) \/ FaultHit(a) \/ Touch(a) \/ TouchAll(a)
  \/ \E a \in Addresses, size \in 1 .. MaxSize * PageSize : Copy(a, size)
  \/ DestroySpace

Spec == Init /\ [][Next]_vars

-----------------------------------------------------------------------------

Entries == [i \in 1 .. Len(holes) + Len(maps) |->
              IF i <= Len(holes) THEN holes[i] ELSE maps[i - Len(holes)]]

\* As long as no range was bound at a base inside a page, holes and mappings
\* never overlap and together are the whole user range, whatever was bound,
\* split, destroyed and merged before.
RangeTiled == (alive /\ ~unaligned) =>
  \A v \in UserPages :
    Cardinality({i \in DOMAIN Entries : v \in PagesOf(Entries[i])}) = 1

\* The pages of mapping r that frame f backs.
Backs(r, f) == {k \in 1 .. r.size : r.back[k].exists /\ r.back[k].ptr = f}

\* Every frame of the allocator is free or backs one page of one mapping,
\* also after mappings, or the whole address space, have been destroyed, and
\* whatever the bases of the mappings are.
FramesOnce ==
  \A f \in Frames :
    Cardinality(UNION {{i} \X Backs(maps[i], f) : i \in DOMAIN maps}) =
      IF f \in free THEN 0 ELSE 1

\* As long as no range was bound at a base inside a page, the page tables hold
\* exactly the existing pages of the mappings: none is missing after it was
\* touched, none is left of a destroyed mapping.
PageTablesMatch == ~unaligned =>
  /\ \A i \in DOMAIN maps : \A v \in PagesOf(maps[i]) :
       LET b == maps[i].back[v - First(maps[i]) + 1]
       IN  IF b.exists THEN v \in DOMAIN pt /\ pt[v] = b.ptr
                       ELSE v \notin DOMAIN pt
  /\ DOMAIN pt \subseteq UNION {PagesOf(maps[i]) : i \in DOMAIN maps}

\* As long as no range was bound at a base inside a page, region_for_address
\* finds the mapping that an address belongs to, for faults, touches, copies
\* and destroy, except at the first address of a mapping that directly follows
\* another one: there it finds the lower one.
RegionFound == ~unaligned =>
  \A i \in DOMAIN maps : \A a \in Addresses : Within(maps[i], a) =>
    Region(a) = IF i > 1 /\ End(maps[i - 1]) = a THEN i - 1 ELSE i

\* A copy to or from a mapping reaches a page without backing only if no frame
\* is left for it, or if the copy begins inside a page of the mapping and ends
\* in a page more than its size has.
CopyHitsBacking == "other" \notin zeroHits

=============================================================================
