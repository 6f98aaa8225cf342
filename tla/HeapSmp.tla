------------------------------ MODULE HeapSmp -------------------------------
(***************************************************************************)
(* kmalloc and kfree on several CPUs, one step per access to what they     *)
(* share: mm_lock, top, the page tables, the physical allocator and the    *)
(* header words.  mm_lock is the spinlock of kernel/util/spinlock.cpp: a   *)
(* load that sees the flag clear, then a store.                            *)
(*                                                                         *)
(* done is the state after the last call that unlocked.  As long as no two *)
(* CPUs overlapped between the load and the store, done changes as the     *)
(* calls of module Heap do (ImplementsHeap).                               *)
(*                                                                         *)
(* Definitions whose name starts with Bug are faulty variants of the       *)
(* definition that follows them; no specification uses them.               *)
(***************************************************************************)
EXTENDS Integers, Functions

CONSTANTS
  Cpus,
  PageSize, Frames, Sizes, MaxTop   \* as in Heap

ASSUME PageSizeAssumption ==
  PageSize \in Nat /\ PageSize > 0 /\ PageSize % 16 = 0
ASSUME SizesAssumption == Sizes \subseteq Nat
ASSUME MaxTopAssumption == MaxTop \in Nat

VARIABLES
  pc,             \* where each CPU is
  n, out, k,      \* locals: rounded size, top at the start, pages done
  ptr,            \* kfree's argument
  locked, raced,  \* mm_lock, and whether two CPUs overlapped in it
  top, pt, mem, free, blocks, failed, misplaced,   \* as in Heap
  panicked,       \* CPUs that panicked
  done            \* what Heap sees

heapVars == <<top, pt, mem, free, blocks, failed, misplaced>>
vars == <<pc, n, out, k, ptr, locked, raced, heapVars, panicked, done>>

NoPtr == -1

H == INSTANCE Heap WITH
  top <- done.top, pt <- done.pt, mem <- done.mem, free <- done.free,
  blocks <- done.blocks, failed <- done.failed,
  misplaced <- done.misplaced,
  moving <- [old |-> NoPtr, new |-> NoPtr],
  halted <- IF panicked = {} THEN "no" ELSE "kfree"

Current == [top |-> top, pt |-> pt, mem |-> mem, free |-> free,
            blocks |-> blocks, failed |-> failed, misplaced |-> misplaced]

Init ==
  /\ pc = [c \in Cpus |-> "out"]
  /\ n = [c \in Cpus |-> 0] /\ out = [c \in Cpus |-> 0]
  /\ k = [c \in Cpus |-> 0] /\ ptr = [c \in Cpus |-> NoPtr]
  /\ locked = FALSE /\ raced = FALSE
  /\ top = 0 /\ pt = [v \in {} |-> 0] /\ mem = [a \in {} |-> 0]
  /\ free = Frames /\ blocks = [p \in {} |-> 0]
  /\ failed = {} /\ misplaced = {} /\ panicked = {}
  /\ done = Current

Step(c, p, q) == pc[c] = p /\ pc' = [pc EXCEPT ![c] = q]
Locals == <<n, out, k, ptr>>
Window == {"mallocStore", "freeStore"}

CallKmalloc(c, b) ==
  /\ Step(c, "out", "mallocLoad")
  /\ n' = [n EXCEPT ![c] = H!Round8(b)]
  /\ UNCHANGED <<out, k, ptr, locked, raced, heapVars, panicked, done>>

\* A caller frees only a block it was handed and nobody else is freeing.
CallKfree(c, p) ==
  /\ Step(c, "out", "freeLoad")
  /\ \A d \in Cpus : ptr[d] # p
  /\ ptr' = [ptr EXCEPT ![c] = p]
  /\ UNCHANGED <<n, out, k, locked, raced, heapVars, panicked, done>>

\* lock() that does not wait.
BugLoadNoSpin(c, p, q) ==
  /\ Step(c, p, q)
  /\ raced' = (raced \/ \E d \in Cpus \ {c} : pc[d] \in Window)
  /\ UNCHANGED <<Locals, locked, heapVars, panicked, done>>

Load(c, p, q) ==
  /\ Step(c, p, q)
  /\ ~locked
  /\ raced' = (raced \/ \E d \in Cpus \ {c} : pc[d] \in Window)
  /\ UNCHANGED <<Locals, locked, heapVars, panicked, done>>

Store(c, p, q) ==
  /\ Step(c, p, q)
  /\ locked' = TRUE
  /\ UNCHANGED <<Locals, raced, heapVars, panicked, done>>

\* The guard's unlock; what the call did is there for the next one, and its
\* locals are gone.
Unlock(c) ==
  /\ Step(c, "unlock", "out")
  /\ locked' = FALSE
  /\ n' = [n EXCEPT ![c] = 0] /\ out' = [out EXCEPT ![c] = 0]
  /\ k' = [k EXCEPT ![c] = 0] /\ ptr' = [ptr EXCEPT ![c] = NoPtr]
  /\ done' = Current
  /\ UNCHANGED <<raced, heapVars, panicked>>

\* kmalloc: out = top.
ReadTop(c) ==
  /\ Step(c, "readTop", "frame")
  /\ out' = [out EXCEPT ![c] = top]
  /\ k' = [k EXCEPT ![c] = 0]
  /\ top + H!PagesFor(n[c]) + 1 <= MaxTop
  /\ UNCHANGED <<n, ptr, locked, raced, heapVars, panicked, done>>

\* One round of the loop: a frame is taken and mapped at top ...
MapPage(c) ==
  /\ Step(c, "frame", "bump")
  /\ k[c] < H!PagesFor(n[c])
  /\ \E f \in free :
       /\ free' = free \ {f}
       /\ pt' = H!Put(pt, top, f)
  /\ UNCHANGED <<Locals, locked, raced, top, mem, blocks, failed, misplaced,
                 panicked, done>>

\* ... and top moves on.
BumpTop(c) ==
  /\ Step(c, "bump", "frame")
  /\ top' = top + 1
  /\ k' = [k EXCEPT ![c] = @ + 1]
  /\ UNCHANGED <<n, out, ptr, locked, raced, pt, mem, free, blocks, failed,
                 misplaced, panicked, done>>

OutOfFrames(c) ==
  /\ Step(c, "frame", "unlock")
  /\ k[c] < H!PagesFor(n[c]) /\ free = {}
  /\ failed' = failed \cup (out[c] .. out[c] + k[c] - 1)
  /\ UNCHANGED <<Locals, locked, raced, top, pt, mem, free, blocks, misplaced,
                 panicked, done>>

SkipGuard(c) ==
  /\ Step(c, "frame", "size")
  /\ k[c] = H!PagesFor(n[c])
  /\ top' = top + 1
  /\ UNCHANGED <<Locals, locked, raced, pt, mem, free, blocks, failed,
                 misplaced, panicked, done>>

Mapped(a) == a \div PageSize \in DOMAIN pt

WriteSize(c) ==
  /\ Step(c, "size", "pages")
  /\ Mapped(H!PtrAt(out[c], n[c]) - 16)
  /\ mem' = H!Put(mem, H!PtrAt(out[c], n[c]) - 16, n[c])
  /\ UNCHANGED <<Locals, locked, raced, top, pt, free, blocks, failed,
                 misplaced, panicked, done>>

WritePages(c) ==
  /\ Step(c, "pages", "unlock")
  /\ Mapped(H!PtrAt(out[c], n[c]) - 8)
  /\ mem' = H!Put(mem, H!PtrAt(out[c], n[c]) - 8, k[c])
  /\ blocks' = H!Put(blocks, H!PtrAt(out[c], n[c]),
                     [page |-> out[c], pages |-> k[c], size |-> n[c]])
  /\ UNCHANGED <<Locals, locked, raced, top, pt, free, failed, misplaced,
                 panicked, done>>

\* kfree: both header words are read and compared.  A panic keeps mm_lock.
CheckHeader(c) ==
  LET size == mem[ptr[c] - 16]
      req  == mem[ptr[c] - 8]
  IN
  /\ pc[c] = "check" /\ Mapped(ptr[c] - 16)
  /\ \/ /\ req # H!PagesFor(size)
        /\ Step(c, "check", "halted")
        /\ panicked' = panicked \cup {c}
        /\ UNCHANGED <<k, out>>
     \/ /\ req = H!PagesFor(size)
        /\ Step(c, "check", "unmap")
        /\ out' = [out EXCEPT ![c] = H!StartPage(ptr[c])]
        /\ k' = [k EXCEPT ![c] = req]
        /\ UNCHANGED panicked
  /\ UNCHANGED <<n, ptr, locked, raced, heapVars, done>>

\* A header whose page another CPU has unmapped: the page fault panics.
HeaderFault(c) ==
  /\ \/ Step(c, "size", "halted") /\ ~Mapped(H!PtrAt(out[c], n[c]) - 16)
     \/ Step(c, "pages", "halted") /\ ~Mapped(H!PtrAt(out[c], n[c]) - 8)
     \/ Step(c, "check", "halted") /\ ~Mapped(ptr[c] - 16)
  /\ UNCHANGED <<Locals, locked, raced, heapVars, panicked, done>>

\* One round of kfree's loop.
UnmapPage(c) ==
  /\ pc[c] = "unmap" /\ k[c] > 0
  /\ free' = free \cup (IF out[c] \in DOMAIN pt THEN {pt[out[c]]} ELSE {})
  /\ pt' = Restrict(pt, DOMAIN pt \ {out[c]})
  /\ out' = [out EXCEPT ![c] = @ + 1]
  /\ k' = [k EXCEPT ![c] = @ - 1]
  /\ UNCHANGED <<pc, n, ptr, locked, raced, top, mem, blocks, failed,
                 misplaced, panicked, done>>

FreeDone(c) ==
  /\ Step(c, "unmap", "unlock")
  /\ k[c] = 0
  /\ misplaced' = misplaced \cup
       ({blocks[ptr[c]].page} \ {H!StartPage(ptr[c])})
  /\ blocks' = Restrict(blocks, DOMAIN blocks \ {ptr[c]})
  /\ UNCHANGED <<Locals, locked, raced, top, pt, mem, free, failed, panicked,
                 done>>

CpuStep(c) ==
  \/ \E b \in Sizes : CallKmalloc(c, b)
  \/ \E p \in DOMAIN blocks : CallKfree(c, p)
  \/ Load(c, "mallocLoad", "mallocStore") \/ Load(c, "freeLoad", "freeStore")
  \/ Store(c, "mallocStore", "readTop") \/ Store(c, "freeStore", "check")
  \/ ReadTop(c) \/ MapPage(c) \/ BumpTop(c) \/ OutOfFrames(c) \/ SkipGuard(c)
  \/ WriteSize(c) \/ WritePages(c)
  \/ CheckHeader(c) \/ HeaderFault(c) \/ UnmapPage(c) \/ FreeDone(c)
  \/ Unlock(c)

Next == \E c \in Cpus : CpuStep(c)

Spec == Init /\ [][Next]_vars

-----------------------------------------------------------------------------

\* As long as the lock has not let two CPUs in at once, what a CPU finds when
\* it has taken mm_lock changes from call to call by one kmalloc or one kfree
\* of module Heap, or not at all: mm_lock covers all that the calls share.
ImplementsHeap == [][raced' \/ H!Next]_<<done, panicked>>

=============================================================================
