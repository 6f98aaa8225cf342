----------------------------- MODULE CopyWindow -----------------------------
(***************************************************************************)
(* Copies through the window at 0x700000000000 (and, for vmm_ctx_memcpy,   *)
(* 0x780000000000) of the kernel's address space, on several CPUs:         *)
(* arch_mm_mapping_load, arch_mm_mapping_store and vmm_ctx_memcpy of       *)
(* kernel/arch/x86_64/mm/vmm.cpp.  copy_lock is the lock of Spinlock: a    *)
(* CPU copies while pc is "held".  Every CPU caches translations; invlpg   *)
(* and a write to CR3 drop them on the CPU that executes them, on no       *)
(* other.                                                                  *)
(*                                                                         *)
(* By Translations the window is a function from pages to physical pages.  *)
(* A window page is <<window, number>>.                                    *)
(*                                                                         *)
(* Definitions whose name starts with Bug are faulty variants of the       *)
(* definition that follows them; no specification uses them.               *)
(***************************************************************************)
EXTENDS Spinlock, Integers, Sequences

CONSTANT Mappings \* backing pages of memory mappings: sequences of pages

ASSUME MappingsAssumption == Mappings \subseteq Seq(Nat \ {0})

VARIABLES
  stage,          \* the loop in which each CPU is while it holds copy_lock
  turn,           \* its loop variable
  job, size,      \* its copy: window page -> physical page, and page count
  early,          \* the copy drops cached translations before it uses them
  win,            \* translations of the window; 0 is none
  tlb,            \* translations each CPU has cached; 0 is none
  guessed,        \* a CPU has cached a page of a window it is not using
  strayed         \* a copy reached a page that is not its own

copyVars == <<vars, stage, turn, job, size, early, win, tlb, guessed, strayed>>

\* Window pages that the mappings can need.
MappedPages == {"dst", "src"} \X UNION {1 .. Len(m) : m \in Mappings}
Nothing == [w \in MappedPages |-> 0]

CopyInit ==
  /\ Init
  /\ stage = [c \in Cpus |-> "map"]
  /\ turn = [c \in Cpus |-> 1]
  /\ job = [c \in Cpus |-> Nothing]
  /\ size = [c \in Cpus |-> 0]
  /\ early = [c \in Cpus |-> FALSE]
  /\ win = Nothing
  /\ tlb = [c \in Cpus |-> Nothing]
  /\ guessed = FALSE /\ strayed = FALSE

Page(m, n) == IF n \in DOMAIN m THEN m[n] ELSE 0

Call(c, copy, n, flushes) ==
  /\ CallLock(c)
  /\ job' = [job EXCEPT ![c] = copy]
  /\ size' = [size EXCEPT ![c] = n]
  /\ early' = [early EXCEPT ![c] = flushes]
  /\ UNCHANGED <<stage, turn, win, tlb, guessed, strayed>>

\* arch_mm_mapping_load and arch_mm_mapping_store use one window.
MappingCopy(c, m) ==
  Call(c, [w \in MappedPages |-> IF w[1] = "dst" THEN Page(m, w[2]) ELSE 0],
       Len(m), FALSE)

\* vmm_ctx_memcpy uses both.
vmm_ctx_memcpy(c, m, n) ==
  /\ Len(m) = Len(n)
  /\ Call(c, [w \in MappedPages |-> Page(IF w[1] = "dst" THEN m ELSE n, w[2])],
          Len(m), TRUE)

\* copy_lock.lock().
Lock(c) ==
  /\ LockLoad(c) \/ Store(c)
  /\ UNCHANGED <<stage, turn, job, size, early, win, tlb, guessed, strayed>>

\* CPU c is in a loop and has turns left; Now: the pages of this turn.
Turn(c, loop) ==
  /\ pc[c] = "held" /\ stage[c] = loop /\ turn[c] <= size[c]
  /\ turn' = [turn EXCEPT ![c] = @ + 1]
  /\ UNCHANGED <<vars, stage, job, size, early, guessed>>
Now(c) == {w \in MappedPages : job[c][w] # 0 /\ w[2] = turn[c]}

\* t without the translations of the pages of this turn: invlpg.
Dropped(c, t) == [w \in MappedPages |-> IF w \in Now(c) THEN 0 ELSE t[w]]

MapPage(c) ==
  /\ Turn(c, "map")
  /\ win' = [w \in MappedPages |-> IF w \in Now(c) THEN job[c][w] ELSE win[w]]
  /\ tlb' = IF early[c] THEN [tlb EXCEPT ![c] = Dropped(c, @)] ELSE tlb
  /\ UNCHANGED strayed

\* What CPU c reaches at window page w.
Reached(c, w) == IF tlb[c][w] # 0 THEN tlb[c][w] ELSE win[w]

\* memcpy, page by page.
CopyPage(c) ==
  /\ Turn(c, "copy")
  /\ tlb' = [tlb EXCEPT ![c] = [w \in MappedPages |->
               IF w \in Now(c) THEN Reached(c, w) ELSE tlb[c][w]]]
  /\ strayed' = (strayed \/ \E w \in Now(c) : Reached(c, w) # job[c][w])
  /\ UNCHANGED win

\* The last loop without vmm_update_mapping.
BugUnmapPage(c) ==
  /\ Turn(c, "unmap")
  /\ win' = Dropped(c, win)
  /\ UNCHANGED <<tlb, strayed>>

UnmapPage(c) ==
  /\ Turn(c, "unmap")
  /\ win' = Dropped(c, win)
  /\ tlb' = [tlb EXCEPT ![c] = Dropped(c, @)]
  /\ UNCHANGED strayed

NextLoop(c, loop, next) ==
  /\ stage[c] = loop /\ turn[c] > size[c]
  /\ stage' = [stage EXCEPT ![c] = next]
  /\ turn' = [turn EXCEPT ![c] = 1]
  /\ UNCHANGED <<win, tlb, guessed, strayed>>

Loops(c) ==
  /\ pc[c] = "held"
  /\ NextLoop(c, "map", "copy") \/ NextLoop(c, "copy", "unmap")
  /\ UNCHANGED <<vars, job, size, early>>

\* copy_lock.unlock(); the copy is over.
Return(c) ==
  /\ Unlock(c)
  /\ NextLoop(c, "unmap", "map")
  /\ job' = [job EXCEPT ![c] = Nothing]
  /\ size' = [size EXCEPT ![c] = 0]
  /\ early' = [early EXCEPT ![c] = FALSE]

\* The processor caches a translation on its own account.
Guess(c, w) ==
  /\ win[w] # 0 /\ tlb[c][w] = 0
  /\ tlb' = [tlb EXCEPT ![c] = [@ EXCEPT ![w] = win[w]]]
  /\ guessed' = (guessed \/ job[c][w] # win[w])
  /\ UNCHANGED <<vars, stage, turn, job, size, early, win, strayed>>

\* vmm_set_context: dispatch_interrupt, a switch of threads, or
\* arch_mm_update_context_all.
vmm_set_context(c) ==
  /\ pc[c] = "out"
  /\ tlb' = [tlb EXCEPT ![c] = Nothing]
  /\ UNCHANGED <<vars, stage, turn, job, size, early, win, guessed, strayed>>

Copier(c) ==
  \/ \E m \in Mappings : MappingCopy(c, m)
  \/ \E m, n \in Mappings : vmm_ctx_memcpy(c, m, n)
  \/ Lock(c) \/ MapPage(c) \/ CopyPage(c) \/ UnmapPage(c) \/ Loops(c)
  \/ Return(c) \/ vmm_set_context(c)
  \/ \E w \in MappedPages : Guess(c, w)

CopyNext == \E c \in Cpus : Copier(c)

CopySpec == CopyInit /\ [][CopyNext]_copyVars

-----------------------------------------------------------------------------

\* A copy reaches the backing pages of its own mappings and no others, though
\* the window is used again by every CPU and no CPU tells the others to drop
\* cached translations: a copy goes astray only after two CPUs overlapped
\* inside lock(), or after a CPU cached a window page it was not using.
CopyReachesOwnPages == strayed => raced \/ guessed

=============================================================================
