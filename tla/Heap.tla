-------------------------------- MODULE Heap --------------------------------
(***************************************************************************)
(* The kernel heap, kernel/mm/heap.cpp: kmalloc, krealloc and kfree, each  *)
(* under mm_lock.  Every block has pages of its own that end where the     *)
(* block ends, a page that is never mapped follows it, and two words of    *)
(* header (size, number of pages) precede the pointer handed out.          *)
(*                                                                         *)
(* Addresses are bytes from vm_heap_base, pages are numbered from there.   *)
(* The physical allocator hands out any free frame (Pmm).  The page tables *)
(* that map the heap are taken to exist.  A sequence of calls that is      *)
(* serialised by mm_lock is one step each; HeapSmp has the lock.           *)
(*                                                                         *)
(* Definitions whose name starts with Bug are faulty variants of the       *)
(* definition that follows them; no specification uses them.               *)
(***************************************************************************)
EXTENDS Integers, Functions

CONSTANTS
  PageSize,       \* vm_page_size
  Frames,         \* physical pages the allocator may hand out
  Sizes,          \* arguments of kmalloc and krealloc
  MaxTop          \* bound on top, in pages

ASSUME PageSizeAssumption ==
  PageSize \in Nat /\ PageSize > 0 /\ PageSize % 16 = 0
ASSUME SizesAssumption == Sizes \subseteq Nat
ASSUME MaxTopAssumption == MaxTop \in Nat

NoPtr == -1       \* NULL
Idle  == [old |-> NoPtr, new |-> NoPtr]    \* no krealloc under way

VARIABLES
  top,            \* top, in pages
  pt,             \* kernel page tables over the heap: page -> frame
  mem,            \* header words: address -> value
  free,           \* free frames of the physical allocator
  blocks,         \* pointers handed out: ptr -> [page, pages, size]
  failed,         \* pages mapped by a kmalloc that then ran out of frames
  misplaced,      \* first pages of blocks that kfree looked for elsewhere
  moving,         \* krealloc between its kmalloc and its kfree
  halted          \* the call that panicked

vars == <<top, pt, mem, free, blocks, failed, misplaced, moving, halted>>

\* The size in whole words.
Round8(b) == ((b + 7) \div 8) * 8

\* Forgetting that the header needs room.
BugPagesFor(n) == (n + PageSize - 1) \div PageSize

\* The pages for n bytes and the header.
PagesFor(n) == (n + 16 + PageSize - 1) \div PageSize

\* What kmalloc returns for a rounded size n when top is t.
PtrAt(t, n) == (t + PagesFor(n)) * PageSize - n

\* kfree's start: the page that holds ptr, taken for the block's first page.
StartPage(p) == p \div PageSize

BlockPages(b) == b.page .. b.page + b.pages - 1
LivePages == UNION {BlockPages(blocks[p]) : p \in DOMAIN blocks}

Init ==
  /\ top = 0
  /\ pt = [v \in {} |-> 0] /\ mem = [a \in {} |-> 0]
  /\ free = Frames
  /\ blocks = [p \in {} |-> 0]
  /\ failed = {} /\ misplaced = {}
  /\ moving = Idle /\ halted = "no"

\* The function f, with y at x.
Put(f, x, y) == [z \in DOMAIN f \cup {x} |-> IF z = x THEN y ELSE f[z]]

\* Mapping frames that stay marked free.
BugMapAtTopFree(f, m) ==
  /\ pt' = [v \in DOMAIN pt \cup (top .. top + m - 1) |->
              IF v \in top .. top + m - 1 THEN f[v - top] ELSE pt[v]]
  /\ UNCHANGED free

\* kmalloc's loop: m pages from top on are mapped to the frames f.
MapAtTop(f, m) ==
  /\ pt' = [v \in DOMAIN pt \cup (top .. top + m - 1) |->
              IF v \in top .. top + m - 1 THEN f[v - top] ELSE pt[v]]
  /\ free' = free \ {f[i] : i \in 0 .. m - 1}

\* Leaving no page between a block and the next one.
BugTopAfter(k) == top + k

\* top after a block of k pages: one more page is skipped.
TopAfter(k) == top + k + 1

\* The two words below ptr.
Header(p, n, k) == Put(Put(mem, p - 16, n), p - 8, k)

\* kmalloc of b bytes.  m is the number of pages it got before the physical
\* allocator failed, or all of them; r is what it returns.
Malloc(b, r) ==
  LET n == Round8(b)
      k == PagesFor(n)
      p == PtrAt(top, n)
  IN
  /\ top + k + 1 <= MaxTop
  /\ \E m \in 0 .. k : \E f \in [0 .. m - 1 -> free] :
       /\ \A i, j \in 0 .. m - 1 : f[i] = f[j] => i = j
       /\ MapAtTop(f, m)
       /\ \/ /\ m < k /\ free = {f[i] : i \in 0 .. m - 1}
             /\ r = NoPtr
             /\ top' = top + m
             /\ failed' = failed \cup (top .. top + m - 1)
             /\ UNCHANGED <<mem, blocks>>
          \/ /\ m = k
             /\ r = p
             /\ top' = TopAfter(k)
             /\ mem' = Header(p, n, k)
             /\ blocks' = Put(blocks, p,
                              [page |-> top, pages |-> k, size |-> n])
             /\ UNCHANGED failed

Kmalloc(b) ==
  /\ halted = "no"
  /\ \E r \in {NoPtr, PtrAt(top, Round8(b))} : Malloc(b, r)
  /\ UNCHANGED <<misplaced, moving, halted>>

\* kfree that stops one page early.
BugUnmapShort(start, k) ==
  /\ pt' = Restrict(pt, DOMAIN pt \ (start .. start + k - 2))
  /\ free' = free \cup {pt[v] : v \in DOMAIN pt \cap (start .. start + k - 2)}
\* kfree's loop.  A page that is not mapped reads as physical page 0, which
\* the allocator takes back and never hands out.
Unmap(start, k) ==
  /\ pt' = Restrict(pt, DOMAIN pt \ (start .. start + k - 1))
  /\ free' = free \cup {pt[v] : v \in DOMAIN pt \cap (start .. start + k - 1)}

\* kfree of p.
Release(p) ==
  LET k == PagesFor(mem[p - 16])
  IN
  \/ /\ mem[p - 8] # k
     /\ halted' = "kfree"
     /\ UNCHANGED <<pt, free, blocks, misplaced>>
  \/ /\ mem[p - 8] = k
     /\ Unmap(StartPage(p), k)
     /\ blocks' = Restrict(blocks, DOMAIN blocks \ {p})
     /\ misplaced' = misplaced \cup ({blocks[p].page} \ {StartPage(p)})
     /\ UNCHANGED halted

Kfree(p) ==
  /\ halted = "no"
  /\ p \notin {moving.old, moving.new}
  /\ Release(p)
  /\ UNCHANGED <<top, mem, failed, moving>>

\* krealloc: kmalloc first; then, with mm_lock released and taken again, the
\* old contents are copied and the old block is freed.
Krealloc(old, b) ==
  /\ halted = "no" /\ moving = Idle
  /\ \E r \in {NoPtr, PtrAt(top, Round8(b))} :
       /\ Malloc(b, r)
       /\ moving' = [old |-> old, new |-> r]
  /\ UNCHANGED <<misplaced, halted>>

\* The copy has the old size.  It faults, and panics, when kmalloc failed, or
\* when the new block is smaller, since no page is mapped behind it.
CopyFits ==
  moving.new # NoPtr /\ mem[moving.old - 16] <= blocks[moving.new].size

KreallocMove ==
  /\ halted = "no" /\ moving # Idle
  /\ moving' = Idle
  /\ \/ /\ ~CopyFits
        /\ halted' = "memcpy"
        /\ UNCHANGED <<pt, free, blocks, misplaced>>
     \/ /\ CopyFits
        /\ Release(moving.old)
  /\ UNCHANGED <<top, mem, failed>>

Next ==
  \/ \E b \in Sizes : Kmalloc(b)
  \/ \E p \in DOMAIN blocks : Kfree(p)
  \/ \E p \in DOMAIN blocks, b \in Sizes : Krealloc(p, b)
  \/ KreallocMove

Spec == Init /\ [][Next]_vars

-----------------------------------------------------------------------------

\* Header and contents of every block handed out lie in its own pages, which
\* are mapped, which end where the block ends, and which no other block has;
\* and assert(req_pages == pages) in kfree holds, with calls serialised.
BlocksOwnPages ==
  /\ halted # "kfree"
  /\ \A p \in DOMAIN blocks :
       /\ BlockPages(blocks[p]) \subseteq DOMAIN pt
       /\ blocks[p].page * PageSize <= p - 16
       /\ p + blocks[p].size = (blocks[p].page + blocks[p].pages) * PageSize
  /\ \A p, q \in DOMAIN blocks : p # q =>
       BlockPages(blocks[p]) \cap BlockPages(blocks[q]) = {}

\* The page after a block handed out is never mapped, so writing past the end
\* of a block faults instead of reaching another one, for ever after other
\* blocks come and go and also when a kmalloc fails half way.
GuardAbove ==
  \A p \in DOMAIN blocks : blocks[p].page + blocks[p].pages \notin DOMAIN pt

\* No frame is mapped twice, none is both mapped and free, none is lost.
FramesOnce ==
  /\ \A v, w \in DOMAIN pt : pt[v] = pt[w] => v = w
  /\ {pt[v] : v \in DOMAIN pt} \cap free = {}
  /\ {pt[v] : v \in DOMAIN pt} \cup free = Frames

\* A page that stays mapped without a block was left by a kmalloc that ran
\* out of frames, or is the first page of a block that kfree misplaced.
StrayPagesExplained ==
  DOMAIN pt \ LivePages \subseteq failed \cup misplaced

=============================================================================
