-------------------------------- MODULE Pmm ---------------------------------
(***************************************************************************)
(* The physical page allocator, kernel/arch/x86_64/mm/pmm.cpp: pmm_init    *)
(* builds a bitmap at PMM_MEMORY_BASE from the multiboot memory map,       *)
(* pmm_alloc takes the first run of clear bits, pmm_free clears bits.      *)
(*                                                                         *)
(* The bitmap is the set of pages whose bit is clear.  Only whole bytes of *)
(* it are initialised: the bits behind them, up to and past the last page, *)
(* are what the memory held before.  Callers free what they were given, or *)
(* page 0: kfree of a page that is not mapped and arch_mm_destroy_context  *)
(* do.  pmm_alloc_ex is used with alignment 1 and no upper limit.          *)
(*                                                                         *)
(* Definitions whose name starts with Bug are faulty variants of the       *)
(* definition that follows them; no specification uses them.               *)
(***************************************************************************)
EXTENDS Integers, FiniteSets, FiniteSetsExt

CONSTANTS
  PageSize,       \* PAGE_SIZE, in bytes
  BasePage,       \* PMM_MEMORY_BASE / PAGE_SIZE
  MemoryMaps,     \* sets of regions [addr, len, avail], addresses in bytes
  MaxCount,       \* largest number of pages a caller asks for
  MaxOwned,       \* bound on the allocations outstanding
  MaxDrift        \* bound on the count of free pages in frees of page 0

ASSUME PageSizeAssumption == PageSize \in Nat \ {0}
ASSUME BasePageAssumption == BasePage \in Nat \ {0}
ASSUME MaxCountAssumption == MaxCount \in Nat \ {0}
ASSUME MemoryMapsAssumption ==
  \A m \in MemoryMaps : /\ IsFiniteSet(m)
                        /\ m \subseteq [addr : Nat, len : Nat, avail : BOOLEAN]

VARIABLES
  mmap,           \* the memory map
  clear,          \* pages whose bit in the bitmap is clear
  freePages, totalPages,   \* pmm_free_pages, pmm_total_pages
  owned,          \* allocations outstanding: sets of pages
  ready           \* pmm_init has returned

vars == <<mmap, clear, freePages, totalPages, owned, ready>>

RoundUp(x, s) == ((x + s - 1) \div s) * s
RoundDown(x, s) == (x \div s) * s
Base == BasePage * PageSize

Available == {r \in mmap : r.avail}

\* pmm_find_avail_memory_top, the length of the bitmap in bits, and in bytes.
MemTop == Max({r.addr + r.len : r \in Available} \cup {0})
BitmapLen == (MemTop + PageSize - 1) \div PageSize
BitmapBytes == BitmapLen \div 8
BitmapCount == (BitmapBytes + PageSize - 1) \div PageSize
BitmapPages == BasePage .. BasePage + BitmapCount - 1

\* Bits that pmm_init does not initialise and a call may read.
Garbage(m) == 8 * BitmapBytes .. BitmapLen + m - 2

Init ==
  /\ mmap \in MemoryMaps
  /\ clear \in SUBSET Garbage(MaxCount)
  /\ freePages = 0 /\ totalPages = 0
  /\ owned = {}
  /\ ready = FALSE

\* Rounding a region's length up.
BugUsableLonger(r) ==
  LET start == RoundUp(r.addr, PageSize)
      len   == RoundUp(r.len, PageSize)
  IN  IF start < Base THEN [start |-> Base, len |-> len - (Base - start)]
                      ELSE [start |-> start, len |-> len]

\* What is left of a region after rounding and clipping at the base.
Usable(r) ==
  LET start == RoundUp(r.addr, PageSize)
      len   == RoundDown(r.len, PageSize)
  IN  IF start < Base THEN [start |-> Base, len |-> len - (Base - start)]
                      ELSE [start |-> start, len |-> len]

\* Regions that pmm_init does not skip.
Used == {r \in Available :
           /\ RoundDown(r.len, PageSize) # 0
           /\ RoundUp(r.addr, PageSize) + RoundDown(r.len, PageSize) >= Base}

\* The bitmap lies in the region: it is cut off the front, in bytes.
Behind(u) ==
  IF Base >= u.start /\ Base + BitmapBytes <= u.start + u.len
    THEN [start |-> Base + BitmapBytes, len |-> u.len - BitmapBytes]
    ELSE u

FirstFreed(r) == Behind(Usable(r)).start \div PageSize
CountFreed(r) == Behind(Usable(r)).len \div PageSize

\* The pages that pmm_init frees for region r.
Freed(r) == FirstFreed(r) .. FirstFreed(r) + CountFreed(r) - 1

\* Testing the first page of a run only.
BugRuns(bits, count) == {i \in BasePage .. BitmapLen - 1 : i \in bits}

\* Starts of runs of clear bits; the run may reach past the last bit.
Runs(bits, count) ==
  {i \in BasePage .. BitmapLen - 1 : i .. i + count - 1 \subseteq bits}

\* The bitmap's own pages marked as used.
Marked(bits) == bits \ BitmapPages

\* pmm_init.  At the end it allocates as many pages as the bitmap has.
pmm_init ==
  LET bits == Marked((clear \cap Garbage(MaxCount)) \cup
                     UNION {Freed(r) : r \in Used})
      total == MapThenSumSet(CountFreed, Used)
      runs == Runs(bits, BitmapCount)
  IN
  /\ ~ready
  /\ ready' = TRUE
  /\ totalPages' = total
  /\ IF runs = {}
       THEN clear' = bits /\ freePages' = total
       ELSE /\ clear' = bits \ (Min(runs) .. Min(runs) + BitmapCount - 1)
            /\ freePages' = IF total # 0 THEN total - BitmapCount ELSE total
  /\ UNCHANGED <<mmap, owned>>

\* pmm_alloc: NULL, and no change, when there is no run.
pmm_alloc(count) ==
  /\ ready /\ Cardinality(owned) < MaxOwned
  /\ Runs(clear, count) # {}
  /\ LET i == Min(Runs(clear, count))
         run == i .. i + count - 1
     IN  /\ clear' = clear \ run
         /\ owned' = owned \cup {run}
  /\ freePages' = IF totalPages # 0 THEN freePages - count ELSE freePages
  /\ UNCHANGED <<mmap, totalPages, ready>>

\* pmm_free that does not count.
BugFreeNoCount(run) ==
  /\ ready
  /\ clear' = clear \cup run
  /\ owned' = owned \ {run}
  /\ UNCHANGED <<mmap, freePages, totalPages, ready>>

\* pmm_free: the bits are not looked at.
pmm_free(run) ==
  /\ ready
  /\ clear' = clear \cup run
  /\ owned' = owned \ {run}
  /\ freePages' = freePages + Cardinality(run)
  /\ UNCHANGED <<mmap, totalPages, ready>>

Next ==
  \/ pmm_init
  \/ \E count \in 1 .. MaxCount : pmm_alloc(count)
  \/ \E run \in owned : pmm_free(run)
  \/ freePages < totalPages + MaxDrift /\ pmm_free({0})

Spec == Init /\ [][Next]_vars

-----------------------------------------------------------------------------

\* No page belongs to two callers, and none that belongs to a caller is clear
\* in the bitmap, over any order of calls with runs of different lengths.
OwnedOnce ==
  /\ \A a, b \in owned : a # b => a \cap b = {}
  /\ \A a \in owned : a \cap clear = {}

AvailablePages ==
  {p \in BasePage .. BitmapLen - 1 :
     \E r \in Available : r.addr <= p * PageSize
                          /\ (p + 1) * PageSize <= r.addr + r.len}

\* The pages of the bitmap itself are never handed out, although pmm_init
\* frees the one the bitmap ends in; and a page that is handed out is whole
\* and inside one available region of the memory map, as far as the bitmap was
\* initialised and when the map gives page aligned addresses.
HandsOutMemory ==
  /\ \A a \in owned : a \cap BitmapPages = {}
  /\ (\A r \in mmap : r.addr % PageSize = 0) =>
       \A a \in owned : \A p \in a : p < 8 * BitmapBytes => p \in AvailablePages

\* Calls change the count of free pages by as much as the number of clear
\* bits, whatever the two were when pmm_init returned, with one exception: a
\* free of page 0 when its bit is clear already counts a page more.
CountFollowsBitmap ==
  [][ready /\ totalPages # 0 =>
       \/ freePages' - freePages = Cardinality(clear') - Cardinality(clear)
       \/ /\ 0 \in clear /\ UNCHANGED <<clear, owned>>
          /\ freePages' = freePages + 1]_vars

=============================================================================
