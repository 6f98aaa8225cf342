----------------------------- MODULE Scheduler ------------------------------
(***************************************************************************)
(* The scheduler and the interrupt path that drives it on every CPU:       *)
(* kernel/proc/scheduler.cpp, generic_irq.cpp, the dispatcher in           *)
(* arch/x86_64/irq/isr.cpp, the saved page table root in mm/vmm.cpp, the   *)
(* switch to a task in cpu/ctx_switch.asm and task/task.cpp, and the part  *)
(* of kernel_main that starts the scheduler.                               *)
(*                                                                         *)
(* All IDT entries are interrupt gates, so a CPU takes an interrupt only   *)
(* in user mode, in the idle loop or in the final loop of kernel_main and  *)
(* of smp_c_entry.  threads_lock and _access_lock are taken as the source  *)
(* takes them: a load that sees the flag clear, then a store (Spinlock).   *)
(* kernel_main creates one thread; here it creates NThreads of them, one   *)
(* after the other, as its TODO about a configuration file intends.        *)
(* sched_remove, sched_stop, sched_block and resched_signal_sink have no   *)
(* caller in the kernel and are left out.                                  *)
(*                                                                         *)
(* Definitions whose name starts with Bug are faulty variants of the       *)
(* definition that follows them; no specification uses them.               *)
(***************************************************************************)
EXTENDS Integers, Sequences, FiniteSetsExt

CONSTANTS
  NCpus,          \* CPUs that arch_cpu_get_count() reports; 0 is the BSP
  NThreads        \* threads that kernel_main adds and runs

ASSUME NCpusAssumption == NCpus \in Nat \ {0}
ASSUME NThreadsAssumption == NThreads \in Nat \ {0}

Cpus    == 0 .. NCpus - 1
Threads == 1 .. NThreads     \* thread objects; the page tables of t are t
Ids     == 0 .. NThreads - 1 \* what allocate_id() hands out
Null    == 0                 \* a null thread pointer in the threads map
Kernel  == 0                 \* the kernel's page tables
NoCtx   == -1                \* a null saved_vmm_ctx
NoId    == -1                \* frg::null_opt
NoCpu   == -1                \* _running_on of a thread that is not running

VARIABLES
  pc,             \* where each CPU is
  from,           \* where the interrupt that a CPU handles came from
  cr3,            \* page tables in use on each CPU
  saved,          \* cpu_data_t::saved_vmm_ctx
  inService,      \* the LAPIC waits for an EOI of the timer vector
  task,           \* the thread whose registers a CPU last loaded
  taskCr3,        \* task_cr3, one word for all CPUs
  nprocs, ready,  \* length of sched_procs, and the flag set after filling it
  running, current, nextThread,   \* sched_cpu_data, and a local of sched_resched
  locked, raced,  \* threads_lock, and whether two CPUs overlapped in it
  access,         \* _access_lock of each thread
  threads, schedule, idx,         \* the map, the run list and its position
  tid, runningOn, \* _id and _running_on of each thread
  nextId, newId, made             \* next_id; kernel_main's id and threads made

regVars   == <<from, cr3, saved, inService, task, taskCr3>>
procVars  == <<running, current, nextThread>>
lockVars  == <<locked, raced, access>>
listVars  == <<threads, schedule, idx, tid, runningOn>>
mainVars  == <<nprocs, ready, nextId, newId, made>>
vars == <<pc, regVars, procVars, lockVars, listVars, mainVars>>

\* Code that runs with interrupts enabled.
Interruptible == {"loop", "user", "idle"}
\* CPUs that have seen threads_lock clear and have not set it yet.
Window  == {"addStore", "runStore", "rsStore"}
\* Inside sched_resched, from its first line to the unlock.
Resched == {"rsLoad", "rsStore", "requeue", "pick", "decide"}
\* Inside sched_page_fault, or inside a system call after sched_this().
Sinks   == {"fault", "sysLoad", "sysStore", "sys"}
Positions == Interruptible \cup Window \cup Resched \cup Sinks \cup
  {"procs", "ready", "addLoad", "add", "runLoad", "run", "timer", "enter",
   "ctxLoad", "exit", "halted"}

TypeOK ==
  /\ pc \in [Cpus -> Positions] /\ from \in [Cpus -> Interruptible]
  /\ cr3 \in [Cpus -> Threads \cup {Kernel}]
  /\ saved \in [Cpus -> Threads \cup {Kernel, NoCtx}]
  /\ inService \in [Cpus -> BOOLEAN]
  /\ task \in [Cpus -> Threads \cup {Null}]
  /\ taskCr3 \in Threads \cup {Kernel}
  /\ nprocs \in 0 .. NCpus /\ ready \in BOOLEAN
  /\ running \in [Cpus -> BOOLEAN] /\ current \in [Cpus -> Ids]
  /\ nextThread \in [Cpus -> Ids \cup {NoId}]
  /\ locked \in BOOLEAN /\ raced \in BOOLEAN
  /\ access \in [Threads -> BOOLEAN]
  /\ threads \in [Ids -> Threads \cup {Null}]
  /\ schedule \in Seq(Threads) /\ idx \in Nat
  /\ tid \in [Threads -> Ids]
  /\ runningOn \in [Threads -> Cpus \cup {NoCpu}]
  /\ made \in 0 .. NThreads /\ nextId \in 0 .. NThreads /\ newId \in Ids

\* kernel_main is about to call sched_init on the BSP with interrupts
\* disabled; the other CPUs spin in smp_c_entry and take timer interrupts.
Init ==
  /\ pc = [c \in Cpus |-> IF c = 0 THEN "procs" ELSE "loop"]
  /\ from = [c \in Cpus |-> "loop"]
  /\ cr3 = [c \in Cpus |-> Kernel]
  /\ saved = [c \in Cpus |-> NoCtx]
  /\ inService = [c \in Cpus |-> FALSE]
  /\ task = [c \in Cpus |-> Null]
  /\ taskCr3 = Kernel
  /\ nprocs = 0 /\ ready = FALSE
  /\ running = [c \in Cpus |-> FALSE]
  /\ current = [c \in Cpus |-> 0]
  /\ nextThread = [c \in Cpus |-> NoId]
  /\ locked = FALSE /\ raced = FALSE
  /\ access = [t \in Threads |-> FALSE]
  /\ threads = [i \in Ids |-> Null]
  /\ schedule = <<>> /\ idx = 0
  /\ tid = [t \in Threads |-> 0]
  /\ runningOn = [t \in Threads |-> NoCpu]
  /\ made = 0 /\ nextId = 0 /\ newId = 0

Goto(c, p) == pc' = [pc EXCEPT ![c] = p]
Step(c, p, q) == pc[c] = p /\ Goto(c, q)

\* A path that forgets to unlock.
BugRelease == UNCHANGED locked

\* threads_lock.unlock().
Release == locked' = FALSE

-----------------------------------------------------------------------------
\* kernel_main on the BSP

\* sched_init that lets the other CPUs in before sched_procs is filled.
BugPushProcEarlyReady ==
  /\ pc[0] = "procs"
  /\ nprocs' = nprocs + 1
  /\ ready' = TRUE
  /\ Goto(0, IF nprocs + 1 = NCpus THEN "ready" ELSE "procs")
  /\ UNCHANGED <<regVars, procVars, lockVars, listVars, nextId, newId, made>>

\* sched_init: one sched_procs.push_back per CPU.
PushProc ==
  /\ pc[0] = "procs"
  /\ nprocs' = nprocs + 1
  /\ Goto(0, IF nprocs + 1 = NCpus THEN "ready" ELSE "procs")
  /\ UNCHANGED <<regVars, procVars, lockVars, listVars, ready, nextId,
                 newId, made>>

\* sched_init: ready = true.
SetReady ==
  /\ Step(0, "ready", "addLoad")
  /\ ready' = TRUE
  /\ UNCHANGED <<regVars, procVars, lockVars, listVars, nprocs, nextId,
                 newId, made>>

\* threads_lock.lock(): the load that leaves the loop.
LockLoad(c, p, q) ==
  /\ Step(c, p, q)
  /\ ~locked
  /\ raced' = (raced \/ \E d \in Cpus \ {c} : pc[d] \in Window)
  /\ UNCHANGED <<regVars, procVars, locked, access, listVars, mainVars>>

\* threads_lock.lock(): the store.
LockStore(c, p, q) ==
  /\ Step(c, p, q)
  /\ locked' = TRUE
  /\ UNCHANGED <<regVars, procVars, raced, access, listVars, mainVars>>

\* sched_add: a new thread is entered in the map under a new id; its _id
\* stays what the constructor made it.
SchedAdd ==
  /\ Step(0, "add", "runLoad")
  /\ threads' = [threads EXCEPT ![nextId] = made + 1]
  /\ newId' = nextId
  /\ nextId' = nextId + 1
  /\ Release
  /\ UNCHANGED <<regVars, procVars, raced, access, schedule, idx, tid,
                 runningOn, nprocs, ready, made>>

\* sched_run: push_back(threads[id]).  After the last thread kernel_main
\* enables interrupts and loops.
SchedRun ==
  /\ pc[0] = "run"
  /\ schedule' = Append(schedule, threads[newId])
  /\ made' = made + 1
  /\ Release
  /\ Goto(0, IF made + 1 < NThreads THEN "addLoad" ELSE "loop")
  /\ UNCHANGED <<regVars, procVars, raced, access, threads, idx, tid,
                 runningOn, nprocs, ready, nextId, newId>>

KernelMain ==
  \/ PushProc \/ SetReady
  \/ LockLoad(0, "addLoad", "addStore") \/ LockStore(0, "addStore", "add")
  \/ SchedAdd
  \/ LockLoad(0, "runLoad", "runStore") \/ LockStore(0, "runStore", "run")
  \/ SchedRun

-----------------------------------------------------------------------------
\* Interrupts

\* The context of a CPU, cr3, and the one saved in its cpu_data.
vmm_save_context(c) == saved' = [saved EXCEPT ![c] = cr3[c]]
vmm_set_context(c, ctx) == cr3' = [cr3 EXCEPT ![c] = ctx]
vmm_drop_context(c) == saved' = [saved EXCEPT ![c] = NoCtx]
vmm_restore_context(c) == vmm_set_context(c, saved[c]) /\ vmm_drop_context(c)

irq_eoi(c) == inService' = [inService EXCEPT ![c] = FALSE]

\* The head of dispatch_interrupt.
Dispatch(c, q) ==
  /\ from' = [from EXCEPT ![c] = pc[c]]
  /\ vmm_save_context(c)
  /\ vmm_set_context(c, Kernel)
  /\ Goto(c, q)
  /\ UNCHANGED <<task, taskCr3, procVars, lockVars, listVars, mainVars>>

TimerIrq(c) ==
  /\ pc[c] \in Interruptible
  /\ ~inService[c]
  /\ inService' = [inService EXCEPT ![c] = TRUE]
  /\ Dispatch(c, "timer")

\* An exception in user mode: a page fault, or any other, which panics.
Exception(c) ==
  /\ pc[c] = "user"
  /\ \E q \in {"fault", "halted"} : Dispatch(c, q)
  /\ UNCHANGED inService

\* int 0x30: a call that starts with sched_this(), or an invalid call.
Syscall(c) ==
  /\ pc[c] = "user"
  /\ \E q \in {"sysLoad", "exit"} : Dispatch(c, q)
  /\ UNCHANGED inService

\* timer_irq_sink.
TimerSink(c) ==
  /\ Step(c, "timer", IF ready THEN "rsLoad" ELSE "exit")
  /\ UNCHANGED <<regVars, procVars, lockVars, listVars, mainVars>>

\* sched_resched with resched = 0, under threads_lock: the interrupted
\* thread gives its CPU back.
Requeue(c) ==
  /\ Step(c, "requeue", "pick")
  /\ runningOn' = IF running[c]
                    THEN [runningOn EXCEPT ![threads[current[c]]] = NoCpu]
                    ELSE runningOn
  /\ UNCHANGED <<regVars, procVars, lockVars, threads, schedule, idx, tid,
                 mainVars>>

\* A traversal that starts one position too late, and one that does not look
\* at _running_on.
BugFreeFromSkips(i) ==
  {j \in i + 1 .. Len(schedule) - 1 : runningOn[schedule[j + 1]] = NoCpu}
BugFreeFromAny(i) == i .. Len(schedule) - 1

\* Positions of the run list from i on that hold a thread no CPU runs.
FreeFrom(i) ==
  {j \in i .. Len(schedule) - 1 : runningOn[schedule[j + 1]] = NoCpu}

\* get_next_thread_to_run: from idx to the end, else from the start; the
\* position found is kept, and the _id of the thread there is returned.
Pick(c) ==
  /\ Step(c, "pick", "decide")
  /\ idx' = IF FreeFrom(idx) # {} THEN Min(FreeFrom(idx))
            ELSE IF FreeFrom(0) # {} THEN Min(FreeFrom(0)) ELSE 0
  /\ nextThread' = [nextThread EXCEPT ![c] =
       IF FreeFrom(0) # {} THEN tid[schedule[idx' + 1]] ELSE NoId]
  /\ UNCHANGED <<regVars, running, current, lockVars, threads, schedule,
                 tid, runningOn, mainVars>>

\* sched_resched: the interrupted thread goes on, by the ordinary return.
Stay(c) ==
  /\ Step(c, "decide", "exit")
  /\ nextThread[c] # NoId /\ running[c] /\ nextThread[c] = current[c]
  /\ runningOn' = [runningOn EXCEPT ![threads[nextThread[c]]] = c]
  /\ Release
  /\ UNCHANGED <<regVars, procVars, raced, access, threads, schedule, idx,
                 tid, mainVars>>

\* Forgetting to drop the saved context.
BugAbandonKeeps(c) ==
  /\ UNCHANGED saved
  /\ irq_eoi(c)

\* The saved context is dropped and the interrupt acknowledged, since
\* dispatch_interrupt will not be returned to.
Abandon(c) ==
  /\ vmm_drop_context(c)
  /\ irq_eoi(c)

\* sched_resched that leaves data.running alone.
BugClaimNotRunning(c) ==
  /\ UNCHANGED running
  /\ current' = [current EXCEPT ![c] = nextThread[c]]
  /\ runningOn' = [runningOn EXCEPT ![threads[nextThread[c]]] = c]

\* This CPU's sched_cpu_data and the thread point at each other.
Claim(c) ==
  /\ running' = [running EXCEPT ![c] = TRUE]
  /\ current' = [current EXCEPT ![c] = nextThread[c]]
  /\ runningOn' = [runningOn EXCEPT ![threads[nextThread[c]]] = c]

Switch(c) ==
  /\ Step(c, "decide", "enter")
  /\ nextThread[c] # NoId
  /\ ~(running[c] /\ nextThread[c] = current[c])
  /\ Abandon(c)
  /\ Claim(c)
  /\ Release
  /\ UNCHANGED <<from, cr3, task, taskCr3, nextThread, raced, access,
                 threads, schedule, idx, tid, mainVars>>

GoIdle(c) ==
  /\ Step(c, "decide", "idle")
  /\ nextThread[c] = NoId
  /\ Abandon(c)
  /\ running' = [running EXCEPT ![c] = FALSE]
  /\ Release
  /\ UNCHANGED <<from, cr3, task, taskCr3, current, nextThread, raced,
                 access, threads, schedule, idx, tid, runningOn, mainVars>>

\* ctx_switch that loads cr3 without having stored the task's page tables.
BugCtxStoreSkips(c) ==
  /\ Step(c, "enter", "ctxLoad")
  /\ task' = [task EXCEPT ![c] = threads[current[c]]]
  /\ UNCHANGED <<taskCr3, from, cr3, saved, inService, procVars, lockVars,
                 listVars, mainVars>>

\* arch_task::enter and ctx_switch, after the unlock: the page tables of the
\* task go to task_cr3, the registers are loaded ...
CtxStore(c) ==
  /\ Step(c, "enter", "ctxLoad")
  /\ task' = [task EXCEPT ![c] = threads[current[c]]]
  /\ taskCr3' = threads[current[c]]
  /\ UNCHANGED <<from, cr3, saved, inService, procVars, lockVars, listVars,
                 mainVars>>

\* ... and cr3 is loaded from task_cr3 just before iretq.
CtxLoad(c) ==
  /\ Step(c, "ctxLoad", "user")
  /\ vmm_set_context(c, taskCr3)
  /\ UNCHANGED <<from, saved, inService, task, taskCr3, procVars, lockVars,
                 listVars, mainVars>>

\* exit_interrupt(irq, 1) and the return to the interrupted code.
Exit(c) ==
  /\ pc[c] = "exit"
  /\ irq_eoi(c)
  /\ vmm_restore_context(c)
  /\ Goto(c, from[c])
  /\ UNCHANGED <<from, task, taskCr3, procVars, lockVars, listVars,
                 mainVars>>

\* sched_page_fault: the address space resolves the fault, or panic halts
\* the CPU.
FaultSink(c) ==
  /\ \E q \in {"exit", "halted"} : Step(c, "fault", q)
  /\ UNCHANGED <<regVars, procVars, lockVars, listVars, mainVars>>

\* sched_this in a system call: lock() on _access_lock of this CPU's thread.
AccessLoad(c) ==
  /\ Step(c, "sysLoad", "sysStore")
  /\ ~access[threads[current[c]]]
  /\ UNCHANGED <<regVars, procVars, lockVars, listVars, mainVars>>

AccessStore(c) ==
  /\ Step(c, "sysStore", "sys")
  /\ access' = [access EXCEPT ![threads[current[c]]] = TRUE]
  /\ UNCHANGED <<regVars, procVars, locked, raced, listVars, mainVars>>

\* The body of the call; the guard unlocks on every return.
SyscallReturn(c) ==
  /\ Step(c, "sys", "exit")
  /\ access' = [access EXCEPT ![threads[current[c]]] = FALSE]
  /\ UNCHANGED <<regVars, procVars, locked, raced, listVars, mainVars>>

\* A copy from outside the thread's mappings fails an assertion, or faults in
\* the kernel, where dispatch_interrupt is entered again over the saved
\* context; both panic with _access_lock held.
KernelFault(c) ==
  /\ Step(c, "sys", "halted")
  /\ \E s \in {saved[c], cr3[c]} : saved' = [saved EXCEPT ![c] = s]
  /\ UNCHANGED <<from, cr3, inService, task, taskCr3, procVars, lockVars,
                 listVars, mainVars>>

\* The kernel's own steps on a CPU once an interrupt has arrived.
Handle(c) ==
  \/ TimerSink(c)
  \/ LockLoad(c, "rsLoad", "rsStore") \/ LockStore(c, "rsStore", "requeue")
  \/ Requeue(c) \/ Pick(c) \/ Stay(c) \/ Switch(c) \/ GoIdle(c)
  \/ CtxStore(c) \/ CtxLoad(c) \/ Exit(c)
  \/ FaultSink(c) \/ AccessLoad(c) \/ AccessStore(c) \/ SyscallReturn(c)
  \/ KernelFault(c)

Next ==
  \/ KernelMain
  \/ \E c \in Cpus : TimerIrq(c) \/ Exception(c) \/ Syscall(c) \/ Handle(c)

Spec == Init /\ [][Next]_vars

\* Every CPU keeps executing and the LAPIC timer is periodic.  A CPU that
\* spins reads the flag again and again, and the critical sections are short
\* against the timer's period: it does not miss every clear phase.
Fairness ==
  /\ WF_vars(KernelMain)
  /\ SF_vars(LockLoad(0, "addLoad", "addStore"))
  /\ SF_vars(LockLoad(0, "runLoad", "runStore"))
  /\ \A c \in Cpus : /\ WF_vars(TimerIrq(c))
                     /\ WF_vars(Handle(c))
                     /\ SF_vars(LockLoad(c, "rsLoad", "rsStore"))

FairSpec == Spec /\ Fairness

-----------------------------------------------------------------------------

\* Every path out of dispatch_interrupt, by return, by a switch or to idle,
\* has cleared the saved context, which vmm_save_context would otherwise
\* overwrite at the next interrupt, and has sent the EOI, without which the
\* LAPIC would deliver no other timer interrupt.
LeavesClean ==
  \A c \in Cpus : pc[c] \in Interruptible => saved[c] = NoCtx /\ ~inService[c]

\* A CPU in user mode runs with the page tables of the thread whose registers
\* it loaded, and that thread is the one its sched_cpu_data names, although
\* task_cr3 is shared by all CPUs and read after threads_lock is released.
UserRunsOwnContext ==
  \A c \in Cpus : pc[c] = "user" =>
    /\ task[c] # Null /\ cr3[c] = task[c]
    /\ running[c] /\ threads[current[c]] = task[c]

\* The assertions in sched_page_fault, sched_this and sched_get hold: a CPU
\* that comes there from user mode is marked running and its thread is in
\* the map.
SinksFindThread ==
  \A c \in Cpus : pc[c] \in Sinks => running[c] /\ threads[current[c]] # Null

\* No CPU indexes sched_procs beyond what sched_init has pushed.
ProcsFilled ==
  \A c \in Cpus : pc[c] \in Resched => c < nprocs

\* Unless two CPUs overlapped between the load and the store of
\* threads_lock, no two CPUs have the same thread as their running thread.
OneCpuPerThread ==
  \A c, d \in Cpus :
    running[c] /\ running[d] /\ current[c] = current[d] /\ c # d => raced

\* Every timer interrupt ends: threads_lock is released on each path through
\* sched_resched, so no CPU spins for ever.
TimerEnds ==
  \A c \in Cpus : pc[c] = "timer" ~> pc[c] \in Interruptible

\* Once kernel_main has put a thread on the run list, user code runs again and
\* again, unless a CPU panics on its behalf.
ScheduledRuns ==
  schedule # <<>> ~> \E c \in Cpus : pc[c] \in {"user", "halted"}

=============================================================================
