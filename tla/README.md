# TLA+ models of the quack kernel

quack is a small multiprocessor kernel for x86_64, written in C++.  This
directory holds TLA+ models of the parts of it where states, orders of steps
and boundaries matter, TLC configurations that check them on small instances,
and TLAPS proofs for instances of any size.  `PROJECT.json` lists the runs,
the source lines behind every definition, the hazards and the theorems.

Run a check with `tlc -workers 2 -config sched.cfg MCScheduler` and a proof
with `tlapm SchedulerProofs.tla`.

## The system

| Part | Source (`src/kernel/...`) | Module |
|---|---|---|
| spinlock | `util/spinlock.{h,cpp}` | `Spinlock`; proofs in `CopyWindowProofs` |
| scheduler, timer interrupt, interrupt dispatch, switch to a task, start of the scheduler in `kernel_main` | `proc/scheduler.cpp`, `generic_irq.cpp`, `kernel.cpp`, `arch/x86_64/irq/isr.cpp`, `irq_handler.asm`, `cpu/ctx_switch.asm`, `task/` | `Scheduler`, `SchedulerProofs` |
| system calls: entry, lock, return | `syscall.cpp` | `Scheduler`; the copies in `AddressSpace` |
| kernel heap | `mm/heap.cpp` | `Heap` (calls one at a time), `HeapProofs`, `HeapSmp` (several CPUs), `HeapSmpProofs` |
| physical page allocator | `arch/x86_64/mm/pmm.cpp` | `Pmm`, `BootProofs` |
| page tables | `arch/x86_64/mm/vmm.cpp` | `Translations` (what they promise), `PageTables` |
| copies between address spaces | `arch/x86_64/mm/vmm.cpp` | `CopyWindow`, `CopyWindowProofs` |
| user address spaces | `mm/vm.{h,cpp}` | `AddressSpace`, `SpaceLemmas`, `SpaceProofs` |
| initrd, ELF loader, startup program | `util/initrd.cpp`, `loader/elf64.cpp`, `kernel.cpp` | `Loader`, on top of `AddressSpace`; proofs in the same two |
| object groups and their table | `object/group.cpp`, `object/object.h`, `proc/groups.h` | `Groups`, `GroupsProofs` |
| message queue | `object/ipc_queue.cpp` | `IpcQueue`; proof in `CopyWindowProofs` |
| command line | `util/cmdline.cpp` | `Cmdline` |
| ACPI tables, MADT, I/O APIC | `arch/x86_64/acpi/acpi.cpp`, `madt.cpp`, `cpu/ioapic.cpp` | `IrqRouting` |
| PCI | `arch/x86_64/io/pci.cpp` | `Pci` |
| start of the other processors, local APIC timer | `arch/x86_64/cpu/smp.cpp`, `smp_trampoline.asm`, `lapic.cpp`, `cpu_data.cpp` | `SmpBoot`, `BootProofs` |
| boot | `arch/x86_64/arch_entry.cpp` | `Boot`, composed of the last four |

How they interact: `arch_entry` reads the command line and the firmware's
tables, programs the interrupt controllers, enumerates PCI, starts the other
processors and calls `kernel_main`, which loads the startup program from the
initrd into a new address space and starts the scheduler.  From then on the
local APIC interrupts every CPU periodically;
`dispatch_interrupt` saves the page table root and calls `timer_irq_sink`,
which calls `sched_resched` under `threads_lock`.  That either returns the same
way, or leaves `dispatch_interrupt` for good, into a task or an idle loop.  Page
faults of a task go through `sched_page_fault` to its address space, which takes
frames from the physical allocator and enters them in page tables.  System
calls copy to and from an address space through a window in the kernel's page
tables, under `copy_lock`.  The heap takes frames from the same allocator, under
`mm_lock`.  All these locks, `_access_lock` of a thread and the locks of object
groups are the same spinlock, whose load and store are separate.

## The modules

**Spinlock.**  `lock` and `try_lock` are a load (`LockLoad`, `TryLoad`) and a
`Store`; a load of a set flag in `lock` changes nothing.  `raced` is a history
variable: a load saw the flag clear while another CPU was between its load and
its store.  `Scheduler` and `HeapSmp` have this pair of steps wherever the code
locks, `CopyWindow` extends `Spinlock`, and all say what holds *unless* `raced`.
This is the way the project deals with a lock that does not always exclude: the
theorem `SpecExclusionUnlessRaced` says that the overlap is the only cause.

**Scheduler.**  `pc[c]` is where CPU `c` is; the positions are the points at
which another CPU can see a difference.  All IDT entries are interrupt gates,
so interrupts arrive only in user mode, in the idle loop, and in the last
loops of `kernel_main` and `smp_c_entry` (`Interruptible`).  An action is a
handler or the part of one between two such points:

| Action | Code |
|---|---|
| `PushProc`, `SetReady` | `sched_init` |
| `SchedAdd`, `SchedRun` | `sched_add`, `sched_run`, called by `kernel_main` |
| `LockLoad`, `LockStore`, `Release` | `threads_lock` |
| `TimerIrq`, `Exception`, `Syscall` with `Dispatch` | the head of `dispatch_interrupt` |
| `TimerSink` | `timer_irq_sink` |
| `Requeue`, `Pick`, `Stay`, `Switch`, `GoIdle` | `sched_resched` and `get_next_thread_to_run` |
| `CtxStore`, `CtxLoad` | `arch_task::enter`, `ctx_switch` around `task_cr3` |
| `Exit` | `exit_interrupt` |
| `FaultSink`, `AccessLoad`, `AccessStore`, `SyscallReturn`, `KernelFault` | `sched_page_fault`, `sched_this`, `syscall.cpp` |

Accesses to the `threads` map outside `threads_lock` are single steps.
`NThreads` is the number of threads that `kernel_main` makes, one in the code.

**Heap** and **HeapSmp.**  In `Heap` every call of `kmalloc` and `kfree` is one
step and `krealloc` two, since it releases `mm_lock` in the middle.  Sizes,
rounding and header addresses are computed as in the code, so that the place of
a block in its pages is exact.  `HeapSmp` has the same calls as steps of
several CPUs and is shown to implement `Heap` with the refinement mapping
`done`, the state at the last unlock.

**Pmm.**  The bitmap is the set of pages whose bit is clear.  `pmm_init`
rounds, clips and cuts the regions as the code does, in bytes; bits it does not
write have any value.  Callers free what they were given, and page 0 at any time:
`kfree` of a page that is not mapped and `arch_mm_destroy_context` do
(`mm/heap.cpp:73`, `vmm.cpp:480`).

**Translations**, **PageTables** and **CopyWindow.**  `Translations` is the
promise: each address space is a function from pages to physical pages, all of
them agree on the kernel's half, and mapping or unmapping changes just the pages
asked for.  `PageTables` has the four levels in frames of the physical allocator,
with the number of entries of each level a constant; `ImplementsTranslations`
shows that it implements the promise when the function is what a processor's
walk finds.  `lost` collects page tables that `arch_mm_destroy_context` does not
give back.  `CopyWindow` uses the promise: its window is such a function.  It adds
a TLB per CPU.  `invlpg` and a write to CR3 reach only the own one; a processor may
cache a translation on its own account (`Guess`), which `guessed` records if it
was not copying through that page.

**AddressSpace** and **Loader.**  The two lists of an address space keep their
order, since the code searches them by position.  Bases and addresses are in
bytes, sizes of holes and mappings in pages.  `allocate_at` and `map_at` take any
base: the parts of the hole that `bind_exact` cuts are rounded as in the code, the
page tables get the pages that the bases lie in, and `unaligned` records that such
a range was bound.  Addresses are assumed not to wrap at 2^64.  `Missed` classifies the
pages without backing that a copy reaches, from the pages that were to be touched
and the frames that are left.  `Loader` walks a tar archive block by block, with
octal sizes, checks the ELF header and loads segments with `AllocateAt` and `Copy` of
`AddressSpace`; then the program faults its pages in.
Behaviours in which `loader` is `"idle"` have the operations of `AddressSpace` in any
order instead, so that one run checks both.

**Groups.**  `run[c]` is the call that CPU `c` executes.  `TakeTable`, `TakeEntry`,
`TakeGroup` and `TakeLock` take the three kinds of locks, `Check` and `Clear` are
`check_membership_and` around the operation it calls, `ReadFlag` is the test of
`_dont_lock` and the `Do...` actions are the operations.  The flag is arbitrary at
the start, as the constructor does not set it.  `bypassed` records that an operation
acted on a flag that is not its own.  Here `lock()` is one step.

**IpcQueue.**  The circular buffer slot by slot; `sent` and `popped` are
histories.

**Boot** and its parts.  A machine is a record of what the firmware says:
memory where the RSDP may be, tables, PCI functions and ACPI nodes; and of what
uninitialised or freed memory holds.  `phase` is the step of `arch_entry` that
comes next, or the reason why it stopped.  `Cmdline` splits the command line, a
sequence of words and separators.
`IrqRouting` computes vectors in the width of the code (`VecWidth`).  `Pci` has
the scan, with recursion into bridges as a stack of `calls`, the search for a
routing table, and base address registers that answer a write as hardware does.
In `SmpBoot` the BSP and each processor are steps that interleave: the words at
0x500, `has_started`, the polls.  A processor may take any time for any step, so it
also may come up after the BSP has given up (`late`).  `SmpSpec` is this part on its
own, with any number of processors and any `max_cpus` (`SetMaxCpus`).

Definitions named `Bug...` are faulty variants of the definition that follows;
each shows that a property does depend on that definition.

## What the runs check

| Run | Instance | Distinct states | Shows |
|---|---|---|---|
| `spinlock` | 3 CPUs | 266 | exclusion unless two CPUs overlapped; some waiting CPU gets in |
| `sched` | 2 CPUs, 1 thread | 3,544 | each way out of an interrupt leaves nothing saved and nothing unacknowledged, `sched_procs` complete, own page tables in user mode, assertions of the sinks, one CPU per thread unless raced; timer interrupts end; a scheduled thread runs |
| `ipc_queue` | 2 payloads, 4 sends | 269 | messages leave in order, none lost or doubled |
| `ipc_queue_assert` | the same | violation | the assertion in `send` fails |
| `heap` | 4 frames, 5 sizes, 8 pages | 125,327 | blocks own their pages, guard pages stay unmapped, no frame lost or used twice, and what explains a page that stays mapped |
| `heap_smp` | 2 CPUs, 2 frames, 3 sizes, 5 pages | 474,000 | the stepwise calls implement `Heap` unless raced |
| `pmm` | 7 memory maps, runs of 1 and 2 pages, frees of page 0 | 15,748 | no page has two owners, only available memory outside the bitmap is handed out, the count follows the bitmap except when page 0 is freed again |
| `vm` | 4 pages of 2 bytes, 2 frames, bases at and inside pages, archives of up to 2 members, 14 programs | 382,428 | frames used once and copies reach backing, whatever the bases; holes and mappings tile the range, page tables match and the right mapping is found, until a base is inside a page; what is started is the program of the archive, whole |
| `vmm` | 14 frames, tables of 4, 1, 2 and 2 entries, 2 user spaces | 22,638 | the tables implement `Translations`; every frame of a table has one use; `vmm_get_entry` agrees with the processor |
| `copy` | 2 CPUs, mappings of 1 and 2 pages | 1,410,826 | copies reach their own pages unless `raced` or `guessed` |
| `groups` | 2 CPUs, 2 threads, 1 group, 1 handle | 616,608 | an operation is applied for a member, a group is deleted alone, no object is lost, unless bypassed |
| `boot` | 22 machines, every command line of up to 5 words on one of them | 66,285 | arguments survive parsing, programmed and looked-up vectors agree, devices get the interrupt of their pin, BARs are measured and restored, processors have their own core and stack and are counted, timer rates are bounded, a sound machine boots |

`ipc_queue_assert` is a statement of the source that its code does not keep: the
assertion in `send` that the next slot is free fails at the second `send` in a
row, since `_enqueue` wrapped before the buffer grew (`object/ipc_queue.cpp:17`).

Some properties state what the code does where one would expect more.  These
are the places:

* `StrayPagesExplained`: the page that holds `ptr` is not always the first page
  of the block, also with a page size that is a multiple of 16, as the comment in
  `kfree` asks (`mm/heap.cpp:64`); the first page then stays mapped.
* `ImplementsHeap`: two CPUs that pass `mm_lock` together get overlapping blocks,
  after which the assertion in `kfree` can fail (`mm/heap.cpp:69`).
* `RegionFound`, `StartupLoaded`: `region_for_address` includes the end of a
  mapping (`mm/vm.cpp:393`).  A fault at the start of a mapping that follows
  another one panics, and a segment that begins where an earlier one ends is
  loaded into the earlier mapping.  `elf64_load` ignores a failed `allocate_at`
  (`elf64.cpp:52`), `oct_to_dec` skips the first digit (`initrd.cpp:21`), and the walk
  may read one header behind the archive (`initrd.cpp:39`).
* `CountFollowsBitmap`: `pmm_free` does not look at the bits (`pmm.cpp:146`).  Page 0 is
  freed again and again, and each time the count of free pages grows by one.
* `RangeTiled`, `PageTablesMatch`, `RegionFound` say nothing once a range is bound at
  a base inside a page, and `StartupLoaded` asks of a program that its segments
  begin at page boundaries.  `elf64_load` passes `p_vaddr` as it is (`elf64.cpp:52`), and
  nothing rounds or refuses it.  The two parts of the hole are rounded
  (`mm/vm.cpp:281`): they leave a part of it out and reach over its end.
  Mappings whose bases lie in one page share its entry in the page tables, and
  the copy puts a segment's bytes at their distance from the mapping's base, while
  the program looks for them at their offset in the page.  Without the
  restriction TLC finds each of the three violated, and a program of one such
  segment not loaded.  `FramesOnce` and `CopyHitsBacking` hold for any base.
* `CopyHitsBacking` lets a copy that begins inside a page of its mapping and ends
  in a page more than its size has reach a page without backing:
  `ensure_load_store` rounds the size alone (`mm/vm.cpp:138`).
* `RangeTiled` holds although `put(memory_hole *)` puts a hole with no successor
  at the front (`mm/vm.cpp:241`), so that `merge_holes` may leave neighbours apart.
* `HandsOutMemory`: when the bitmap of the physical allocator ends inside a page,
  the last page of that region is never freed (`pmm.cpp:98`).
* `TablesAccounted`: `arch_mm_destroy_context` tests PRESENT the wrong way round
  (`vmm.cpp:477`): page tables are lost, and page 0 is freed once per empty entry.
* `CheckedThenActed`, `NoObjectLost`: `_dont_lock` is not initialised, and other
  CPUs read it while it is set (`object.h:97`); both make operations skip the lock.
* `OwnCoreAndStack`, `CountMatches`: a processor that comes up after
  `smp_init_single` has given up on it takes the words of the next one
  (`smp.cpp:111`).
* `RateAtMostDoubles`: every CPU increments `lapic_bsp_ticks` (`lapic.cpp:145`), so
  the n-th processor's timer may run at up to 2^(n-1) times `INITIAL_FREQ`.
* `IrqsAgree`: a pin gets the flags of the override whose GSI is the pin's
  position among all pins, not its GSI (`ioapic.cpp:114`); `vec` has 8 bits and may
  pass the assertion by wrapping.
* `BarsMeasured`: the length of a BAR is its size less one, and the upper half of
  a 64-bit BAR is taken for a BAR of its own (`pci.cpp:130`).
* `RoutedAsSwizzled`: the pin is turned by the slot of the bridge and not of the
  device behind it (`pci.cpp:176`); three fields of a bus are never initialised.
* `SoundMachineBoots` says which machines do boot.  An override of IRQ 0 must
  exist, or `ioapic_mask_gsi` panics, and it is read through a copy that is already
  freed (`ioapic.cpp:98`), so no machine boots without reading freed memory.  A
  root bus without a PRT, a loop of bridges, `acpi=disable`, or fewer `cpu=` than
  processors stop the boot.

**Bounds.**  The heap instance has sizes on both sides of each boundary where
the header or the contents need another page, and enough frames for two blocks
and one failing call.  Two CPUs are enough for each race, since a step concerns
one CPU and the lock; the properties of the scheduler, the copy window and the
groups are proved for any number.  The page sizes (32 and 2 bytes) keep the
arithmetic of the code and make all remainders occur.  The memory maps cover
each case of `pmm_init`.  Four user pages allow three neighbours and a hole; `Bases` are
their four addresses and one inside the second page, where `bind_exact` rounds.  The
tables' fan-outs are the smallest that have two user slots, a slot for the
physical window, one for the image and two entries on the lower levels; 14 frames
run out in some behaviours and not in others.  The machines of `boot` differ from
a plain one in one respect each: I/O APICs in and out of order, overlapping, or
with too many pins for the vectors or for their width, overrides missing or
elsewhere, broken tables, PRTs on each level, a bridge that loops, two roots,
each uninitialised field.  One has two more processors, for stragglers, with
`cpu=` enough and not enough.  `FirstVec`, `EndVec`, `VecWidth`, `Word` and `IoSpace` are
scaled down from 0x40, 0xE0, 2^8, 2^32 and 2^16.  `MaxTop`, `MaxSends`, `MaxOwned`,
`MaxDrift`, `MaxCount`, `MaxSize`, `MaxRun`, `MaxSpaces`, `MaxGroups`, `MaxHandles`, `MaxPolls` are the
named bounds.  `heap_smp`, `copy` and `groups` use symmetry; they check safety only.

**Deadlock** is not checked where the system really stops: a panic halts a CPU
for good, the boot ends in `kernel_main`, and calls end at the bounds.  The
spinlock run checks it.

**Fairness.**  `Spinlock`: a CPU inside the lock's code or holding the lock
goes on (weak fairness).  `Scheduler`: every CPU goes on with what it does and
the LAPIC timer is periodic (weak fairness of `KernelMain`, `TimerIrq`,
`Handle`); a CPU that spins on `threads_lock` reads it again and again and
does not miss every clear phase (strong fairness of `LockLoad`).  That last one
is an assumption on timing, not a guarantee of the code: critical sections are
short against the timer's period.  User code is under no obligation, so
`Exception` and `Syscall` have no fairness.  `Boot`: the BSP goes on (weak fairness
of `arch_entry`), as its own timer ends each of its sleeps; the other processors
are under no obligation, so the boot must end without them.

## What is proved

The proofs hold for every value of the constants, from the assumptions named in
the modules: `NCpus` and `NThreads` positive; mappings are sequences of positive
page numbers; `MaxGroups`, `MaxHandles`, `MaxPolls`, `MaxTop` natural numbers; `PageSize`
positive, in the heap a multiple of 16, as the comment in `kfree` asks; sizes of
blocks natural numbers; memory maps finite, with regions of natural numbers; the
frames of an address space finite in number, none of them page 0 or a device,
`Bases` positive numbers, as `bind_exact` asserts, and `LastPage` positive (`SizesAssumption`, `FramesAssumption`); archives are sequences of
files with a size field of octal digits and, if they are programs, headers of
natural numbers (`ArchivesAssumption`); `None` is no message (`QueueAssumption`).

* Spinlock (in `CopyWindowProofs`), any set of CPUs: `SpecLockedHasHolder`,
  `SpecExclusionUnlessRaced`.  The invariant `IInv` adds that, as long as nobody
  raced, at most one CPU is past the load and the flag is set while a CPU holds
  the lock.
* `CopyWindowProofs`, any set of CPUs and mappings of any length:
  `SpecCopyReachesOwnPages`.  `CopyInv` takes the spinlock's `IInv` and adds, while
  nobody raced or guessed, how far each loop of the holder is: pages before
  `turn` are mapped to the copy's own pages, or unmapped again *and* dropped from
  the TLB.  The point is that a TLB has a page of the window only for the copy that
  its own CPU is making, so that outside the lock it has none; this is what makes
  a shootdown unnecessary.
* `SchedulerProofs`, any number of CPUs and of threads: `SpecTypeOK`,
  `SpecLeavesClean`, `SpecProcsFilled`, `SpecUserRunsOwnContext`,
  `SpecSinksFindThread`.  Only `TypeOK` is near to inductive.
  `IInv` adds `StartInv` (`sched_procs` is complete before `ready`), `MakeInv`
  (where `kernel_main` is determines how many threads are in the map) and
  `CpuInv` (a CPU inside an interrupt has a context saved, and if it came from
  user mode it is running and saved its task's page tables).  The argument for
  `task_cr3`, which all CPUs share, is that every `_id` is 0: `MakeInv` shows that
  all CPUs only ever run the thread at id 0.  This would not survive a kernel
  that sets `_id`; then `task_cr3` needs a word per CPU.
* `SpecOneCpuPerThread`, any number of CPUs, under `NThreads = 1`: `LInv` adds
  that `threads_lock` has one holder and that `_running_on` agrees with the
  holder's `sched_cpu_data`, unless raced.  With two threads the property
  fails, as both have `_id` 0; so the assumption is needed.
* `GroupsProofs`, any number of CPUs, threads, groups and handles:
  `SpecDeleteAlone`, `SpecCheckedThenActed`, `SpecNoObjectLost`.  `GroupInv` says who
  holds the table's lock (`TableInv`) and an entry's (`EntryInv`), with no
  assumption; and, until the group's lock is bypassed, that it has one holder, that
  `_dont_lock` is set exactly inside `check_membership_and`, and that the caller is
  still a member (`LockInv`).  `DeleteAlone` rests on the first two: `new_group` uses a
  group without its entry's lock, but under the table's, which `remove_group`
  takes as well.  `ObjectInv` adds that handles from `_next_id` on are unused and
  that a handle read by `add_object` is still the next when it is stored.
* `QueueIsFifo` (in `CopyWindowProofs`), any messages and number of calls.  `QueueInv`
  says why it holds although the indices are never used as those of a ring: the
  queue has at most one message, in slot 0.
* `SpaceProofs`, any page size, user range, frames, bases, archive, block and stack size:
  `LoaderTiled`, `LoaderFrames`, `LoaderPageTables`, `LoaderRegions`, `LoaderCopies`, of
  `LoaderSpec`, which has the steps of `kernel_main` and the operations of an address
  space in any order; `SpaceSafe` says the same of `AddressSpace`'s own `Spec`.
  `SpaceInv` has two parts.  `FramesInv` holds always and needs nothing of where the
  mappings lie: a frame of the allocator is free or backs one page of one mapping,
  and no copy missed its backing for another reason than the two that are
  allowed; `FramesOnce` and `CopyHitsBacking` follow.  `LayoutInv` holds until a range
  is bound at a base inside a page: both lists have nonempty ranges with no page
  in common, together they cover the user range, mappings are in the order of
  their addresses, and page tables and backings agree page by page.
  Holes need not be in order, as `put` may add one at the wrong end, and the proof
  does without: `merge_holes` joins neighbours in the list that meet, wherever they
  are.  The order of the mappings matters to `RegionFound` alone: of the mappings
  before the one that is sought, only the last can end where it begins.
* `SpaceLemmas` has what the operators return: `InsertAt`, `RemoveAt`, `PutHole`,
  `MergeHoles`, `PutMapping`, `TakeTop` and `Cut` on lists, `Touched` on frames,
  `Index` and `Ensured` on addresses, `oct_to_dec` on size fields.  `ReadsFirst` is about
  `initrd_read_file`: for size fields that begin with 0, following the sizes from
  header to header finds the first member of that name.  Recursive functions are
  handled by their existence: a set of numbers that has 0 and, with each number, the
  next one has all of them (`NatsReached`).
* `HeapProofs`, any page size, frames and sizes: `SpecBlocksOwnPages`,
  `SpecGuardAbove`, `SpecFramesOnce`, `SpecStrayPagesExplained`.  `HeapInv` says of each
  block where its pointer and its header are and that its pages are mapped and the
  one behind them is not, and that blocks lie apart by at least that page.  `kfree`
  finds the pages from the pointer alone; the lemmas on rounding show that it
  starts at the block's first page or at its second.  In the second case it leaves
  the first page and also unmaps the one behind the block, which was not mapped.
* `HeapSmpProofs`, any set of CPUs as well: `SpecImplementsHeap`, that the steps of
  several CPUs implement `Heap`'s calls until `mm_lock` is raced.  `SmpHeapInv` says that
  one CPU at most is inside, that `done` is what it found, and, for each position in
  `kmalloc` and `kfree`, how the present state differs from `done`: the pages mapped so
  far and their frames, the pages unmapped so far, the header words written.  At
  the unlock the difference is that of a whole call.  From the refinement and
  `HeapProofs` follow `SpecSmpHeapSound`, that `Heap`'s invariants hold on several CPUs,
  and `SpecCallsEndSoundly`, that no CPU panics or faults inside a call, both until
  `mm_lock` is raced.
* `BootProofs`, any page size, memory map and length of runs: `SpecOwnedOnce`,
  `SpecHandsOutMemory`, `SpecCountFollowsBitmap`.  `PmmInv` says that pages which are
  clear or owned are not of the bitmap and, if the bitmap was initialised there,
  available memory; page 0 may be clear, but is never handed out, as the search
  begins behind it.  The work is in `pmm_init`: rounding a region, cutting the bitmap
  off its front in bytes, and the page the bitmap ends in, which is freed and then
  marked as used.
* `BootProofs` too, any number of processors, `cpu=` and polls, for a MADT that lists
  each local APIC once (`LapicsSound`): `SpecOwnCoreAndStack`, `SpecCountMatches`,
  `SpecRateAtMostDoubles`, of `SmpSpec`.  `SmpInv` says that, as long as no processor
  comes up late, only the one the BSP polls for is on its way up (`WakeInv`), that
  what it has read is what was written for it (`ReadInv`), and that cores which are
  done keep their entries although a core id is used again after a timeout
  (`DoneInv`).  The rate needs a sum: all running processors tick, core `n` at up to
  2^(n-1), so together with the BSP at up to 2^n.  `Boot` takes steps of `SmpNext` only,
  and its MADTs are sound; TLC confirmed both on the instance of `boot`.
* `BootProofs` begins with what these two need on sums over finite sets.  The
  induction is over sets, from the library's `WFMin`: the set of subsets that have the
  property contains all subsets.  That 2^(n+1) is twice 2^n comes from the library's
  theorem on the number of subsets, `FS_SUBSET`, which the library states and does
  not prove to the last step.

TLC checked the inductive invariants first: `IInv` and `LInv` of the scheduler for
three CPUs and one thread, and `IInv` for two CPUs and two threads; `HeapInv`, `PmmInv` and
`SmpHeapInv` on the instances of `heap`, `pmm` and `heap_smp`; `SpaceInv` on that of `vm` and
`QueueInv` on that of `ipc_queue`; `SmpInv` on one with four local APICs (433,802 states).

Only model-checked: liveness (`SomeCpuEnters`, `TimerEnds`, `ScheduledRuns`,
`SoundMachineBoots`), which the prover does not handle under fairness; the
refinement `ImplementsTranslations` and the other properties of `PageTables`;
`StartupLoaded`, for which there is no proof yet; and those of the
command line, interrupt routing and PCI (`ArgsRoundTrip`, `IrqsAgree`, `RoutedAsSwizzled`,
`BarsMeasured`), which are stated in `Boot`, and `Boot` parses numbers with a recursive
operator, which the prover cannot work with.

## Not modelled

* Output: console, framebuffers, log messages, formatter, symbol table, stack
  traces, UBSan callbacks.  Nothing reads back what they write; `panic` is a halt.
* Descriptor tables, PIC, assembly before `arch_entry`, register constants: one
  fixed sequence of writes.
* The ACPI interpreter (LAI) is a library; `Pci` takes from it which bus has a
  node and a routing table.  The host callbacks pass accesses through.
* Two CPUs inside one walk of the page tables: "TODO: add locking"
  (`vmm.cpp:380`).  `PageTables` takes each call as one step; `CopyWindow` and
  `HeapSmp` cover the two callers that hold a lock.
* Permissions and cache modes of pages, contents of pages, message texts.
* Functions without a caller: `sched_remove`, `sched_stop`, `sched_block`,
  `resched_signal_sink`, `memory_mapping::deallocate`, `vmm_update_perms`,
  `vmm_update_huge_perms`, `vmm_unmap_huge_pages`; `pmm_alloc` with an alignment or a
  limit, for which there is no call.
* `proc/proc.cpp` and the i386 port, which this kernel is not built with; the user
  side, which is system call stubs and a startup program.
