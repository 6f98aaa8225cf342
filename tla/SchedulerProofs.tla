-------------------------- MODULE SchedulerProofs ---------------------------
(***************************************************************************)
(* Proofs about the scheduler and the interrupt path for every number of   *)
(* CPUs and of threads.                                                    *)
(*                                                                         *)
(* Every _id is 0 (no code sets it after the constructor), so the thread   *)
(* that runs is always threads[0], the first one that kernel_main made.    *)
(* The inductive invariant says so, and follows one CPU through an         *)
(* interrupt: which context it has saved, where it came from, and that it  *)
(* is marked running if it came from user mode.                            *)
(***************************************************************************)
EXTENDS Scheduler, WellFoundedInduction, TLAPS

\* kernel_main, before it enables interrupts.
MainAt == {"procs", "ready", "addLoad", "addStore", "add", "runLoad",
           "runStore", "run"}
\* Between dispatch_interrupt's save of the context and its restore.
Inside == Resched \cup Sinks \cup {"timer", "exit"}
\* Where nothing is saved and the LAPIC waits for nothing.
Outside == Interruptible \cup MainAt \cup {"enter", "ctxLoad"}

\* sched_procs is complete before any CPU may reschedule.
StartInv ==
  /\ \A c \in Cpus : pc[c] \in MainAt => c = 0
  /\ \/ pc[0] = "procs" /\ nprocs < NCpus
     \/ pc[0] # "procs" /\ nprocs = NCpus
  /\ ready => pc[0] \notin {"procs", "ready"}
  /\ \A c \in Cpus : pc[c] \in Resched => ready

\* Threads enter the map and then the list; the first one stays at id 0.
MakeInv ==
  /\ pc[0] \in {"procs", "ready"} => made = 0 /\ nextId = 0
  /\ pc[0] \in {"addLoad", "addStore", "add"} =>
       made < NThreads /\ nextId = made
  /\ pc[0] \in {"runLoad", "runStore", "run"} =>
       /\ made < NThreads /\ newId = made /\ nextId = made + 1
       /\ threads[newId] = made + 1
  /\ threads[0] = IF nextId = 0 THEN Null ELSE 1
  /\ schedule # <<>> => nextId > 0
  /\ \A t \in Threads : tid[t] = 0

\* One CPU on its way through an interrupt.
CpuInv(c) ==
  /\ current[c] = 0
  /\ nextThread[c] # NoId => nextThread[c] = 0
  /\ running[c] => nextId > 0
  /\ pc[c] = "decide" /\ nextThread[c] # NoId => nextId > 0
  /\ pc[c] \in Outside => saved[c] = NoCtx /\ ~inService[c]
  /\ pc[c] \in Inside => saved[c] # NoCtx
  /\ pc[c] = "user" => running[c] /\ task[c] = 1 /\ cr3[c] = 1
  /\ pc[c] \in Inside /\ from[c] = "user" =>
       running[c] /\ task[c] = 1 /\ saved[c] = 1
  /\ pc[c] \in Sinks => from[c] = "user"
  /\ pc[c] \in {"enter", "ctxLoad"} => running[c]
  /\ pc[c] = "ctxLoad" => task[c] = 1 /\ taskCr3 = 1

\* The inductive invariant.
IInv == TypeOK /\ StartInv /\ MakeInv /\ \A c \in Cpus : CpuInv(c)

-----------------------------------------------------------------------------

\* What Min gives for a non-empty set of natural numbers.
LEMMA MinOfNats ==
  ASSUME NEW S \in SUBSET Nat, S # {}
  PROVE  Min(S) \in S /\ \A y \in S : Min(S) <= y
<1> DEFINE R == {ss \in Nat \X Nat : ss[1] < ss[2]}
<1>1. IsWellFoundedOn(R, Nat)
  BY NatLessThanWellFounded, Zenon DEF OpToRel
<1> HIDE DEF R
<1>2. \E x \in S : \A y \in S : ~(<<y, x>> \in R)
  BY <1>1, WFMin, Zenon
<1>3. \A x, y \in Nat : <<y, x>> \in R <=> y < x
  BY DEF R
<1>4. PICK x \in S : \A y \in S : ~(<<y, x>> \in R)
  BY <1>2
<1>5. ASSUME NEW y \in S
      PROVE  x <= y
  <2>1. ~(y < x)
    BY <1>3, <1>4, Zenon
  <2>2. QED
    BY <2>1
<1>6. QED
  BY <1>5, Zenon DEF Min

LEMMA Bounds == 0 \in Cpus /\ 0 \in Ids /\ 1 \in Threads
  BY NCpusAssumption, NThreadsAssumption DEF Cpus, Ids, Threads

\* Before sched_init.
LEMMA InitIInv == Init => IInv
<1> SUFFICES ASSUME Init PROVE IInv
  OBVIOUS
<1> USE NCpusAssumption, NThreadsAssumption, Bounds DEF Init
<1>1. TypeOK
  <2> USE DEF NoCtx, NoId, NoCpu, Kernel, Null
  <2>1. pc \in [Cpus -> Positions] /\ from \in [Cpus -> Interruptible]
    BY DEF Positions, Interruptible
  <2>2. /\ cr3 \in [Cpus -> Threads \cup {Kernel}]
        /\ saved \in [Cpus -> Threads \cup {Kernel, NoCtx}]
        /\ inService \in [Cpus -> BOOLEAN]
    OBVIOUS
  <2>3. /\ task \in [Cpus -> Threads \cup {Null}]
        /\ taskCr3 \in Threads \cup {Kernel}
    OBVIOUS
  <2>4. nprocs \in 0 .. NCpus
    OBVIOUS
  <2>5. /\ running \in [Cpus -> BOOLEAN] /\ current \in [Cpus -> Ids]
        /\ nextThread \in [Cpus -> Ids \cup {NoId}]
    OBVIOUS
  <2>6. /\ ready \in BOOLEAN /\ locked \in BOOLEAN /\ raced \in BOOLEAN
        /\ access \in [Threads -> BOOLEAN]
        /\ threads \in [Ids -> Threads \cup {Null}]
    OBVIOUS
  <2>7. schedule \in Seq(Threads) /\ idx \in Nat
    OBVIOUS
  <2>8. /\ tid \in [Threads -> Ids]
        /\ runningOn \in [Threads -> Cpus \cup {NoCpu}]
    OBVIOUS
  <2>9. made \in 0 .. NThreads /\ nextId \in 0 .. NThreads /\ newId \in Ids
    OBVIOUS
  <2>10. QED
    BY <2>1, <2>2, <2>3, <2>4, <2>5, <2>6, <2>7, <2>8, <2>9 DEF TypeOK
<1>2. StartInv
  BY DEF StartInv, MainAt, Resched, Cpus
<1>3. MakeInv
  BY DEF MakeInv, Null
<1>4. ASSUME NEW c \in Cpus PROVE CpuInv(c)
  BY <1>4 DEF CpuInv, Inside, Outside, Resched, Sinks, Interruptible, MainAt,
         NoId, NoCtx, Cpus
<1>5. QED
  BY <1>1, <1>2, <1>3, <1>4 DEF IInv

\* Every step of kernel_main and of a CPU preserves the invariant.
LEMMA NextIInv == IInv /\ [Next]_vars => IInv'
<1> SUFFICES ASSUME IInv, [Next]_vars
             PROVE  IInv'
  OBVIOUS
<1> USE NCpusAssumption, NThreadsAssumption
        DEF IInv, regVars, procVars, lockVars, listVars, mainVars, MainAt,
            Inside, Outside, Positions, Interruptible, Window, Resched, Sinks,
            NoCtx, NoId, NoCpu, Kernel, Null
<1>1. ASSUME PushProc
      PROVE  IInv'
  <2> USE <1>1 DEF PushProc, Goto
  <2>1. TypeOK'
    BY Bounds DEF TypeOK, StartInv
  <2>2. StartInv' /\ MakeInv'
    BY Bounds DEF TypeOK, StartInv, MakeInv
  <2>3. ASSUME NEW d \in Cpus PROVE CpuInv(d)'
    BY <2>3, Bounds DEF TypeOK, StartInv, MakeInv, CpuInv
  <2>4. QED
    BY <2>1, <2>2, <2>3 DEF IInv
<1>2. ASSUME SetReady
      PROVE  IInv'
  <2> USE <1>2 DEF SetReady, Step, Goto
  <2>1. TypeOK'
    BY Bounds DEF TypeOK
  <2>2. StartInv' /\ MakeInv'
    BY Bounds DEF TypeOK, StartInv, MakeInv
  <2>3. ASSUME NEW d \in Cpus PROVE CpuInv(d)'
    BY <2>3, Bounds DEF TypeOK, StartInv, MakeInv, CpuInv
  <2>4. QED
    BY <2>1, <2>2, <2>3 DEF IInv
<1>3. ASSUME NEW c \in Cpus, NEW p, NEW q,
             /\ <<p, q>> \in {<<"addLoad", "addStore">>,
                               <<"runLoad", "runStore">>,
                               <<"rsLoad", "rsStore">>}
             /\ p # "rsLoad" => c = 0,
             LockLoad(c, p, q)
      PROVE  IInv'
  <2> USE <1>3 DEF LockLoad, Step, Goto
  <2>1. TypeOK'
    BY Bounds DEF TypeOK
  <2>2. StartInv' /\ MakeInv'
    BY Bounds DEF TypeOK, StartInv, MakeInv
  <2>3. ASSUME NEW d \in Cpus PROVE CpuInv(d)'
    BY <2>3, Bounds DEF TypeOK, StartInv, MakeInv, CpuInv
  <2>4. QED
    BY <2>1, <2>2, <2>3 DEF IInv
<1>4. ASSUME NEW c \in Cpus, NEW p, NEW q,
             /\ <<p, q>> \in {<<"addStore", "add">>, <<"runStore", "run">>,
                               <<"rsStore", "requeue">>}
             /\ p # "rsStore" => c = 0,
             LockStore(c, p, q)
      PROVE  IInv'
  <2> USE <1>4 DEF LockStore, Step, Goto
  <2>1. TypeOK'
    BY Bounds DEF TypeOK
  <2>2. StartInv' /\ MakeInv'
    BY Bounds DEF TypeOK, StartInv, MakeInv
  <2>3. ASSUME NEW d \in Cpus PROVE CpuInv(d)'
    BY <2>3, Bounds DEF TypeOK, StartInv, MakeInv, CpuInv
  <2>4. QED
    BY <2>1, <2>2, <2>3 DEF IInv
<1>5. ASSUME SchedAdd
      PROVE  IInv'
  <2> USE <1>5 DEF SchedAdd, Release, Step, Goto
  <2>0. nextId \in Ids /\ made + 1 \in Threads /\ nextId + 1 \in 0 .. NThreads
    BY Bounds DEF TypeOK, MakeInv, Ids, Threads
  <2>1. TypeOK'
    BY <2>0, Bounds, Zenon DEF TypeOK
  <2>2. StartInv' /\ MakeInv'
    BY <2>0, Bounds DEF TypeOK, StartInv, MakeInv
  <2>3. ASSUME NEW d \in Cpus PROVE CpuInv(d)'
    BY <2>3, Bounds DEF TypeOK, StartInv, MakeInv, CpuInv
  <2>4. QED
    BY <2>1, <2>2, <2>3 DEF IInv
<1>6. ASSUME SchedRun
      PROVE  IInv'
  <2> USE <1>6 DEF SchedRun, Release, Goto
  <2>0. threads[newId] \in Threads /\ made + 1 \in 0 .. NThreads
    BY Bounds DEF TypeOK, MakeInv, Threads
  <2>a. schedule' \in Seq(Threads)
    BY <2>0 DEF TypeOK
  <2>1. TypeOK'
    BY <2>0, <2>a, Bounds, Zenon DEF TypeOK
  <2>2. StartInv' /\ MakeInv'
    BY Bounds DEF TypeOK, StartInv, MakeInv
  <2>3. ASSUME NEW d \in Cpus PROVE CpuInv(d)'
    BY <2>3, Bounds DEF TypeOK, StartInv, MakeInv, CpuInv
  <2>4. QED
    BY <2>1, <2>2, <2>3 DEF IInv
<1>7. ASSUME NEW c \in Cpus, TimerIrq(c)
      PROVE  IInv'
  <2> USE <1>7 DEF TimerIrq, Dispatch, vmm_save_context, vmm_set_context, Goto
  <2>1. TypeOK'
    BY Bounds DEF TypeOK
  <2>2. StartInv' /\ MakeInv'
    BY Bounds DEF TypeOK, StartInv, MakeInv
  <2>3. ASSUME NEW d \in Cpus PROVE CpuInv(d)'
    BY <2>3, Bounds DEF TypeOK, MakeInv, CpuInv, Threads
  <2>4. QED
    BY <2>1, <2>2, <2>3 DEF IInv
<1>8. ASSUME NEW c \in Cpus, Exception(c)
      PROVE  IInv'
  <2> USE <1>8 DEF Exception, Dispatch, vmm_save_context, vmm_set_context, Goto
  <2>1. TypeOK'
    BY Bounds DEF TypeOK
  <2>2. StartInv' /\ MakeInv'
    BY Bounds DEF TypeOK, StartInv, MakeInv
  <2>3. ASSUME NEW d \in Cpus PROVE CpuInv(d)'
    BY <2>3, Bounds DEF TypeOK, StartInv, MakeInv, CpuInv
  <2>4. QED
    BY <2>1, <2>2, <2>3 DEF IInv
<1>9. ASSUME NEW c \in Cpus, Syscall(c)
      PROVE  IInv'
  <2> USE <1>9 DEF Syscall, Dispatch, vmm_save_context, vmm_set_context, Goto
  <2>1. TypeOK'
    BY Bounds DEF TypeOK
  <2>2. StartInv' /\ MakeInv'
    BY Bounds DEF TypeOK, StartInv, MakeInv
  <2>3. ASSUME NEW d \in Cpus PROVE CpuInv(d)'
    BY <2>3, Bounds DEF TypeOK, StartInv, MakeInv, CpuInv
  <2>4. QED
    BY <2>1, <2>2, <2>3 DEF IInv
<1>10. ASSUME NEW c \in Cpus, TimerSink(c)
      PROVE  IInv'
  <2> USE <1>10 DEF TimerSink, Step, Goto
  <2>1. TypeOK'
    BY Bounds DEF TypeOK
  <2>2. StartInv' /\ MakeInv'
    BY Bounds DEF TypeOK, StartInv, MakeInv
  <2>3. ASSUME NEW d \in Cpus PROVE CpuInv(d)'
    BY <2>3, Bounds, Zenon DEF TypeOK, StartInv, MakeInv, CpuInv
  <2>4. QED
    BY <2>1, <2>2, <2>3 DEF IInv
<1>11. ASSUME NEW c \in Cpus, Requeue(c)
      PROVE  IInv'
  <2> USE <1>11 DEF Requeue, Step, Goto
  <2>1. TypeOK'
    BY Bounds, Zenon DEF TypeOK
  <2>2. StartInv' /\ MakeInv'
    BY Bounds DEF TypeOK, StartInv, MakeInv
  <2>3. ASSUME NEW d \in Cpus PROVE CpuInv(d)'
    BY <2>3, Bounds DEF TypeOK, StartInv, MakeInv, CpuInv
  <2>4. QED
    BY <2>1, <2>2, <2>3 DEF IInv
<1>12. ASSUME NEW c \in Cpus, Pick(c)
      PROVE  IInv'
  <2> USE <1>12 DEF Pick, Step, Goto
  <2>a. FreeFrom(idx) \subseteq FreeFrom(0)
    BY DEF TypeOK, FreeFrom
  <2>b. /\ FreeFrom(idx) \in SUBSET Nat /\ FreeFrom(0) \in SUBSET Nat
        /\ FreeFrom(0) \subseteq 0 .. Len(schedule) - 1
    BY DEF TypeOK, FreeFrom
  <2>c. idx' \in Nat /\ (FreeFrom(0) # {} => idx' \in FreeFrom(0))
    BY <2>a, <2>b, MinOfNats
  <2>d. FreeFrom(0) # {} => schedule[idx' + 1] \in Threads /\ schedule # <<>>
    BY <2>b, <2>c DEF TypeOK
  <2>e. IF FreeFrom(0) # {}
          THEN nextThread' = [nextThread EXCEPT ![c] = 0] /\ schedule # <<>>
          ELSE nextThread' = [nextThread EXCEPT ![c] = NoId]
    BY <2>d, Zenon DEF MakeInv
  <2>1. TypeOK'
    BY <2>c, <2>e, Bounds DEF TypeOK
  <2>2. StartInv' /\ MakeInv'
    BY Bounds DEF TypeOK, StartInv, MakeInv
  <2>3. ASSUME NEW d \in Cpus PROVE CpuInv(d)'
    BY <2>3, <2>e, Bounds, ZenonT(40) DEF TypeOK, StartInv, MakeInv, CpuInv
  <2>4. QED
    BY <2>1, <2>2, <2>3 DEF IInv
<1>13. ASSUME NEW c \in Cpus, Stay(c)
      PROVE  IInv'
  <2> USE <1>13 DEF Stay, Release, Step, Goto
  <2>1. TypeOK'
    BY Bounds, Zenon DEF TypeOK
  <2>2. StartInv' /\ MakeInv'
    BY Bounds DEF TypeOK, StartInv, MakeInv
  <2>3. ASSUME NEW d \in Cpus PROVE CpuInv(d)'
    BY <2>3, Bounds DEF TypeOK, StartInv, MakeInv, CpuInv
  <2>4. QED
    BY <2>1, <2>2, <2>3 DEF IInv
<1>14. ASSUME NEW c \in Cpus, Switch(c)
      PROVE  IInv'
  <2> USE <1>14 DEF Switch, Abandon, vmm_drop_context, irq_eoi, Claim, Release,
                    Step, Goto
  <2>1. TypeOK'
    BY Bounds, Zenon DEF TypeOK
  <2>2. StartInv' /\ MakeInv'
    BY Bounds DEF TypeOK, StartInv, MakeInv
  <2>3. ASSUME NEW d \in Cpus PROVE CpuInv(d)'
    BY <2>3, Bounds DEF TypeOK, StartInv, MakeInv, CpuInv
  <2>4. QED
    BY <2>1, <2>2, <2>3 DEF IInv
<1>15. ASSUME NEW c \in Cpus, GoIdle(c)
      PROVE  IInv'
  <2> USE <1>15 DEF GoIdle, Abandon, vmm_drop_context, irq_eoi, Release, Step, Goto
  <2>1. TypeOK'
    BY Bounds, Zenon DEF TypeOK
  <2>2. StartInv' /\ MakeInv'
    BY Bounds DEF TypeOK, StartInv, MakeInv
  <2>3. ASSUME NEW d \in Cpus PROVE CpuInv(d)'
    BY <2>3, Bounds DEF TypeOK, StartInv, MakeInv, CpuInv
  <2>4. QED
    BY <2>1, <2>2, <2>3 DEF IInv
<1>16. ASSUME NEW c \in Cpus, CtxStore(c)
      PROVE  IInv'
  <2> USE <1>16 DEF CtxStore, Step, Goto
  <2>1. TypeOK'
    BY Bounds DEF TypeOK
  <2>2. StartInv' /\ MakeInv'
    BY Bounds, Zenon DEF TypeOK, StartInv, MakeInv
  <2>3. ASSUME NEW d \in Cpus PROVE CpuInv(d)'
    BY <2>3, Bounds DEF TypeOK, StartInv, MakeInv, CpuInv
  <2>4. QED
    BY <2>1, <2>2, <2>3 DEF IInv
<1>17. ASSUME NEW c \in Cpus, CtxLoad(c)
      PROVE  IInv'
  <2> USE <1>17 DEF CtxLoad, vmm_set_context, Step, Goto
  <2>1. TypeOK'
    BY Bounds DEF TypeOK
  <2>2. StartInv' /\ MakeInv'
    BY Bounds DEF TypeOK, StartInv, MakeInv
  <2>3. ASSUME NEW d \in Cpus PROVE CpuInv(d)'
    BY <2>3, Bounds DEF TypeOK, StartInv, MakeInv, CpuInv
  <2>4. QED
    BY <2>1, <2>2, <2>3 DEF IInv
<1>18. ASSUME NEW c \in Cpus, Exit(c)
      PROVE  IInv'
  <2> USE <1>18 DEF Exit, irq_eoi, vmm_restore_context, vmm_set_context,
                    vmm_drop_context, Goto
  <2>1. TypeOK'
    BY Bounds DEF TypeOK, CpuInv
  <2>2. StartInv' /\ MakeInv'
    BY Bounds DEF TypeOK, StartInv, MakeInv
  <2>3. ASSUME NEW d \in Cpus PROVE CpuInv(d)'
    BY <2>3, Bounds DEF TypeOK, StartInv, MakeInv, CpuInv
  <2>4. QED
    BY <2>1, <2>2, <2>3 DEF IInv
<1>19. ASSUME NEW c \in Cpus, FaultSink(c)
      PROVE  IInv'
  <2> USE <1>19 DEF FaultSink, Step, Goto
  <2>1. TypeOK'
    BY Bounds DEF TypeOK
  <2>2. StartInv' /\ MakeInv'
    BY Bounds, Zenon DEF TypeOK, StartInv, MakeInv
  <2>3. ASSUME NEW d \in Cpus PROVE CpuInv(d)'
    <3>1. CASE d = c
      BY <2>3, <3>1 DEF TypeOK, CpuInv
    <3>2. CASE d # c
      BY <2>3, <3>2, Zenon DEF TypeOK, CpuInv
    <3>3. QED
      BY <3>1, <3>2, Zenon
  <2>4. QED
    BY <2>1, <2>2, <2>3 DEF IInv
<1>20. ASSUME NEW c \in Cpus, AccessLoad(c)
      PROVE  IInv'
  <2> USE <1>20 DEF AccessLoad, Step, Goto
  <2>1. TypeOK'
    BY Bounds DEF TypeOK
  <2>2. StartInv' /\ MakeInv'
    BY Bounds DEF TypeOK, StartInv, MakeInv
  <2>3. ASSUME NEW d \in Cpus PROVE CpuInv(d)'
    BY <2>3, Bounds, Zenon DEF TypeOK, StartInv, MakeInv, CpuInv
  <2>4. QED
    BY <2>1, <2>2, <2>3, Zenon DEF IInv
<1>21. ASSUME NEW c \in Cpus, AccessStore(c)
      PROVE  IInv'
  <2> USE <1>21 DEF AccessStore, Step, Goto
  <2>1. TypeOK'
    BY Bounds, Zenon DEF TypeOK
  <2>2. StartInv' /\ MakeInv'
    BY Bounds DEF TypeOK, StartInv, MakeInv
  <2>3. ASSUME NEW d \in Cpus PROVE CpuInv(d)'
    BY <2>3, Bounds DEF TypeOK, StartInv, MakeInv, CpuInv
  <2>4. QED
    BY <2>1, <2>2, <2>3, Zenon DEF IInv
<1>22. ASSUME NEW c \in Cpus, SyscallReturn(c)
      PROVE  IInv'
  <2> USE <1>22 DEF SyscallReturn, Step, Goto
  <2>1. TypeOK'
    BY Bounds, Zenon DEF TypeOK
  <2>2. StartInv' /\ MakeInv'
    BY Bounds DEF TypeOK, StartInv, MakeInv
  <2>3. ASSUME NEW d \in Cpus PROVE CpuInv(d)'
    BY <2>3, Bounds DEF TypeOK, StartInv, MakeInv, CpuInv
  <2>4. QED
    BY <2>1, <2>2, <2>3, Zenon DEF IInv
<1>23. ASSUME NEW c \in Cpus, KernelFault(c)
      PROVE  IInv'
  <2> USE <1>23 DEF KernelFault, Step, Goto
  <2>1. TypeOK'
    BY Bounds DEF TypeOK
  <2>2. StartInv' /\ MakeInv'
    BY Bounds, Zenon DEF TypeOK, StartInv, MakeInv
  <2>3. ASSUME NEW d \in Cpus PROVE CpuInv(d)'
    BY <2>3, Bounds, ZenonT(40) DEF TypeOK, StartInv, MakeInv, CpuInv
  <2>4. QED
    BY <2>1, <2>2, <2>3 DEF IInv
<1>24. CASE UNCHANGED vars
  BY <1>24 DEF vars, TypeOK, StartInv, MakeInv, CpuInv
<1>25. QED
  BY <1>1, <1>2, <1>3, <1>4, <1>5, <1>6, <1>7, <1>8, <1>9, <1>10, <1>11,
     <1>12, <1>13, <1>14, <1>15, <1>16, <1>17, <1>18, <1>19, <1>20, <1>21,
     <1>22, <1>23, <1>24, Bounds
     DEF Next, KernelMain, Handle

\* What kernel_main and the CPUs reach satisfies the invariant.
LEMMA SpecIInv == Spec => []IInv
  BY InitIInv, NextIInv, PTL DEF Spec

\* Every variable of the scheduler and of the interrupt path keeps its type.
\* In particular exit_interrupt never loads cr3 from a null saved context, and
\* the id that get_next_thread_to_run returns is one that was handed out.
THEOREM SpecTypeOK == Spec => []TypeOK
  BY SpecIInv, PTL DEF IInv

\* Whichever way a CPU leaves a timer interrupt, its saved context has been
\* dropped and the interrupt acknowledged when interrupts are enabled again.
THEOREM SpecLeavesClean == Spec => []LeavesClean
<1>1. IInv => LeavesClean
  BY Zenon DEF IInv, CpuInv, LeavesClean, Outside
<1>2. QED
  BY <1>1, SpecIInv, PTL

\* sched_procs has an entry for every CPU that is inside sched_resched, since
\* timer_irq_sink returns early until sched_init has set ready.
THEOREM SpecProcsFilled == Spec => []ProcsFilled
<1>1. IInv => ProcsFilled
  <2> SUFFICES ASSUME IInv, NEW c \in Cpus, pc[c] \in Resched
               PROVE  c < nprocs
    BY DEF ProcsFilled
  <2>1. nprocs = NCpus
    BY Bounds DEF IInv, StartInv
  <2>2. QED
    BY <2>1, NCpusAssumption DEF Cpus
<1>2. QED
  BY <1>1, SpecIInv, PTL

\* A CPU in user mode runs the thread that its sched_cpu_data names, in that
\* thread's page tables, although task_cr3 is one word for all CPUs and is
\* read after threads_lock is released.
THEOREM SpecUserRunsOwnContext == Spec => []UserRunsOwnContext
<1>1. IInv => UserRunsOwnContext
  BY Bounds DEF IInv, CpuInv, MakeInv, UserRunsOwnContext, Null
<1>2. QED
  BY <1>1, SpecIInv, PTL

\* sched_page_fault, sched_this and sched_get find a running thread in the
\* map: their assertions cannot fail.
THEOREM SpecSinksFindThread == Spec => []SinksFindThread
<1>1. IInv => SinksFindThread
  <2> SUFFICES ASSUME IInv, NEW c \in Cpus, pc[c] \in Sinks
               PROVE  running[c] /\ threads[current[c]] # Null
    BY Zenon DEF SinksFindThread
  <2>1. running[c] /\ current[c] = 0 /\ nextId > 0
    BY Zenon DEF IInv, CpuInv, Inside
  <2>2. threads[0] = 1
    BY <2>1 DEF IInv, MakeInv
  <2>3. QED
    BY <2>1, <2>2 DEF Null
<1>2. QED
  BY <1>1, SpecIInv, PTL

-----------------------------------------------------------------------------
\* One thread, as kernel_main makes today: the thread has one CPU at a time

\* CPUs between the store of threads_lock.lock() and the unlock.
Past == {"add", "run", "requeue", "pick", "decide"}

\* As long as no two CPUs have overlapped in it, threads_lock has one holder.
LockInv ==
  /\ \A c, d \in Cpus :
       pc[c] \in Window \cup Past /\ pc[d] \in Window \cup Past => c = d
  /\ \A c \in Cpus : pc[c] \in Past => locked

\* _running_on and data.running agree, except where sched_resched has taken
\* the thread off its CPU and not yet decided.
OwnInv(c) ==
  /\ running[c] /\ pc[c] \notin {"pick", "decide"} => runningOn[1] = c
  /\ running[c] /\ pc[c] \in {"pick", "decide"} => runningOn[1] = NoCpu
  /\ pc[c] = "decide" /\ nextThread[c] # NoId => runningOn[1] = NoCpu

LInv == raced \/ (LockInv /\ \A c \in Cpus : OwnInv(c))

\* The invariant of threads_lock and of _running_on is kept by every step.
LEMMA NextLInv ==
  ASSUME NThreads = 1, IInv, LInv, [Next]_vars
  PROVE  LInv'
<1> SUFFICES ASSUME ~raced'
             PROVE  LockInv' /\ \A d \in Cpus : OwnInv(d)'
  BY DEF LInv
<1> USE NCpusAssumption
        DEF regVars, procVars, lockVars, listVars, mainVars, Past,
            Interruptible, Window, NoId, NoCpu, Null
<1> DEFINE Quiet ==
      /\ UNCHANGED <<running, runningOn, nextThread, locked, raced>>
      /\ \E c \in Cpus : \E q \in Positions \ (Window \cup Past) :
           pc[c] \notin Window \cup Past /\ pc' = [pc EXCEPT ![c] = q]
<1>a. TypeOK /\ StartInv /\ MakeInv /\ \A d \in Cpus : CpuInv(d)
  BY DEF IInv
<1>b. Threads = {1} /\ NoCpu \notin Cpus
  BY DEF Threads, Cpus
<1>c. ~raced => LockInv /\ \A d \in Cpus : OwnInv(d)
  BY DEF LInv
\* Steps that have nothing to do with the lock or with _running_on.
<1>d. Quiet => LockInv' /\ \A d \in Cpus : OwnInv(d)'
  BY <1>a, <1>c DEF TypeOK, LockInv, OwnInv
<1>1. PushProc => Quiet
  BY <1>a, Bounds, Zenon DEF PushProc, Goto, TypeOK, Positions
<1>2. SetReady => Quiet
  BY <1>a, Bounds, Zenon DEF SetReady, Step, Goto, TypeOK, Positions
<1>3. ASSUME NEW c \in Cpus, NEW p, NEW q,
             /\ <<p, q>> \in {<<"addLoad", "addStore">>,
                               <<"runLoad", "runStore">>,
                               <<"rsLoad", "rsStore">>}
             /\ p # "rsLoad" => c = 0,
             LockLoad(c, p, q)
      PROVE  LockInv' /\ \A d \in Cpus : OwnInv(d)'
  <2> USE <1>3 DEF LockLoad, Step, Goto
  <2>1. LockInv'
    BY <1>a, <1>c, Bounds, Zenon DEF TypeOK, LockInv
  <2>2. ASSUME NEW d \in Cpus PROVE OwnInv(d)'
    BY <1>a, <1>b, <1>c, <2>2, Bounds DEF TypeOK, LockInv, OwnInv
  <2>3. QED
    BY <2>1, <2>2
<1>4. ASSUME NEW c \in Cpus, NEW p, NEW q,
             /\ <<p, q>> \in {<<"addStore", "add">>, <<"runStore", "run">>,
                               <<"rsStore", "requeue">>}
             /\ p # "rsStore" => c = 0,
             LockStore(c, p, q)
      PROVE  LockInv' /\ \A d \in Cpus : OwnInv(d)'
  <2> USE <1>4 DEF LockStore, Step, Goto
  <2>1. LockInv'
    BY <1>a, <1>c, Bounds DEF TypeOK, LockInv
  <2>2. ASSUME NEW d \in Cpus PROVE OwnInv(d)'
    BY <1>a, <1>b, <1>c, <2>2, Bounds DEF TypeOK, LockInv, OwnInv
  <2>3. QED
    BY <2>1, <2>2
<1>5. ASSUME SchedAdd
      PROVE  LockInv' /\ \A d \in Cpus : OwnInv(d)'
  <2> USE <1>5 DEF SchedAdd, Release, Step, Goto
  <2>1. LockInv'
    BY <1>a, <1>c, Bounds DEF TypeOK, LockInv
  <2>2. ASSUME NEW d \in Cpus PROVE OwnInv(d)'
    BY <1>a, <1>b, <1>c, <2>2, Bounds DEF TypeOK, LockInv, OwnInv
  <2>3. QED
    BY <2>1, <2>2
<1>6. ASSUME SchedRun
      PROVE  LockInv' /\ \A d \in Cpus : OwnInv(d)'
  <2> USE <1>6 DEF SchedRun, Release, Goto
  <2>1. LockInv'
    BY <1>a, <1>c, Bounds, Zenon DEF TypeOK, LockInv
  <2>2. ASSUME NEW d \in Cpus PROVE OwnInv(d)'
    BY <1>a, <1>b, <1>c, <2>2, Bounds, Zenon DEF TypeOK, LockInv, OwnInv
  <2>3. QED
    BY <2>1, <2>2
<1>7. ASSUME NEW c \in Cpus, TimerIrq(c) PROVE Quiet
  BY <1>7, <1>a, Zenon DEF TimerIrq, Dispatch, vmm_save_context, vmm_set_context,
    Goto, TypeOK, Positions, Sinks
<1>8. ASSUME NEW c \in Cpus, Exception(c) PROVE Quiet
  BY <1>8, <1>a, Zenon DEF Exception, Dispatch, vmm_save_context, vmm_set_context,
    Goto, TypeOK, Positions, Sinks
<1>9. ASSUME NEW c \in Cpus, Syscall(c) PROVE Quiet
  BY <1>9, <1>a, Zenon DEF Syscall, Dispatch, vmm_save_context, vmm_set_context,
    Goto, TypeOK, Positions, Sinks
<1>10. ASSUME NEW c \in Cpus, TimerSink(c) PROVE Quiet
  BY <1>10, <1>a, Zenon DEF TimerSink, Step, Goto, TypeOK, Resched, Positions, Sinks
<1>11. ASSUME NEW c \in Cpus, Requeue(c)
      PROVE  LockInv' /\ \A d \in Cpus : OwnInv(d)'
  <2> USE <1>11 DEF Requeue, Step, Goto
  <2>0. running[c] => threads[current[c]] = 1
    BY <1>a, Bounds DEF MakeInv, CpuInv
  <2>1. LockInv'
    BY <1>a, <1>c, Bounds, Zenon DEF TypeOK, LockInv
  <2>2. ASSUME NEW d \in Cpus PROVE OwnInv(d)'
    BY <1>a, <1>b, <1>c, <2>2, <2>0, Bounds, Zenon DEF TypeOK, LockInv, OwnInv
  <2>3. QED
    BY <2>1, <2>2
<1>12. ASSUME NEW c \in Cpus, Pick(c)
      PROVE  LockInv' /\ \A d \in Cpus : OwnInv(d)'
  <2> USE <1>12 DEF Pick, Step, Goto
  <2>0. nextThread'[c] # NoId => runningOn[1] = NoCpu
    <3>1. FreeFrom(0) # {} => runningOn[1] = NoCpu
      BY <1>a, <1>b DEF TypeOK, FreeFrom
    <3>2. QED
      BY <1>a, <3>1, Zenon DEF TypeOK
  <2>1. LockInv'
    BY <1>a, <1>c, Bounds, Zenon DEF TypeOK, LockInv
  <2>2. ASSUME NEW d \in Cpus PROVE OwnInv(d)'
    BY <1>a, <1>b, <1>c, <2>2, <2>0, Bounds DEF TypeOK, LockInv, OwnInv
  <2>3. QED
    BY <2>1, <2>2, Zenon
<1>13. ASSUME NEW c \in Cpus, Stay(c)
      PROVE  LockInv' /\ \A d \in Cpus : OwnInv(d)'
  <2> USE <1>13 DEF Stay, Release, Step, Goto
  <2>0. threads[nextThread[c]] = 1
    BY <1>a, Bounds DEF MakeInv, CpuInv
  <2>1. LockInv'
    BY <1>a, <1>c, Bounds, Zenon DEF TypeOK, LockInv
  <2>2. ASSUME NEW d \in Cpus PROVE OwnInv(d)'
    BY <1>a, <1>b, <1>c, <2>2, <2>0, Bounds DEF TypeOK, LockInv, OwnInv
  <2>3. QED
    BY <2>1, <2>2
<1>14. ASSUME NEW c \in Cpus, Switch(c)
      PROVE  LockInv' /\ \A d \in Cpus : OwnInv(d)'
  <2> USE <1>14 DEF Switch, Abandon, vmm_drop_context, irq_eoi, Claim, Release,
                    Step, Goto
  <2>0. threads[nextThread[c]] = 1
    BY <1>a, Bounds DEF MakeInv, CpuInv
  <2>1. LockInv'
    BY <1>a, <1>c, Bounds, Zenon DEF TypeOK, LockInv
  <2>2. ASSUME NEW d \in Cpus PROVE OwnInv(d)'
    BY <1>a, <1>b, <1>c, <2>2, <2>0, Bounds, Zenon DEF TypeOK, LockInv, OwnInv
  <2>3. QED
    BY <2>1, <2>2, Zenon
<1>15. ASSUME NEW c \in Cpus, GoIdle(c)
      PROVE  LockInv' /\ \A d \in Cpus : OwnInv(d)'
  <2> USE <1>15 DEF GoIdle, Abandon, vmm_drop_context, irq_eoi, Release, Step, Goto
  <2>1. LockInv'
    BY <1>a, <1>c, Bounds, Zenon DEF TypeOK, LockInv
  <2>2. ASSUME NEW d \in Cpus PROVE OwnInv(d)'
    BY <1>a, <1>b, <1>c, <2>2, Bounds, Zenon DEF TypeOK, LockInv, OwnInv
  <2>3. QED
    BY <2>1, <2>2, Zenon
<1>16. ASSUME NEW c \in Cpus, CtxStore(c) PROVE Quiet
  BY <1>16, <1>a, Zenon DEF CtxStore, Step, Goto, TypeOK, Positions, Sinks
<1>17. ASSUME NEW c \in Cpus, CtxLoad(c) PROVE Quiet
  BY <1>17, <1>a, Zenon DEF CtxLoad, vmm_set_context, Step, Goto, TypeOK, Positions, Sinks
<1>18. ASSUME NEW c \in Cpus, Exit(c) PROVE Quiet
  BY <1>18, <1>a, Zenon DEF Exit, irq_eoi, vmm_restore_context, vmm_set_context,
    vmm_drop_context, Goto, TypeOK, Positions, Sinks
<1>19. ASSUME NEW c \in Cpus, FaultSink(c) PROVE Quiet
  BY <1>19, <1>a, Zenon DEF FaultSink, Step, Goto, TypeOK, Positions, Sinks
<1>20. ASSUME NEW c \in Cpus, AccessLoad(c) PROVE Quiet
  BY <1>20, <1>a, Zenon DEF AccessLoad, Step, Goto, TypeOK, Positions, Sinks
<1>21. ASSUME NEW c \in Cpus, AccessStore(c) PROVE Quiet
  BY <1>21, <1>a, Zenon DEF AccessStore, Step, Goto, TypeOK, Positions, Sinks
<1>22. ASSUME NEW c \in Cpus, SyscallReturn(c) PROVE Quiet
  BY <1>22, <1>a, Zenon DEF SyscallReturn, Step, Goto, TypeOK, Positions, Sinks
<1>23. ASSUME NEW c \in Cpus, KernelFault(c) PROVE Quiet
  BY <1>23, <1>a, Zenon DEF KernelFault, Step, Goto, TypeOK, Positions, Sinks
<1>24. CASE UNCHANGED vars
  BY <1>24, <1>c DEF vars, LockInv, OwnInv
<1>25. QED
  BY Zenon, <1>d, <1>1, <1>2, <1>3, <1>4, <1>5, <1>6, <1>7, <1>8, <1>9, <1>10, <1>11,
     <1>12, <1>13, <1>14, <1>15, <1>16, <1>17, <1>18, <1>19, <1>20, <1>21,
     <1>22, <1>23, <1>24, Bounds
     DEF Next, KernelMain, Handle

\* With the one thread that kernel_main makes, no two CPUs have the same
\* thread as their running thread, unless two CPUs overlapped between the
\* load and the store of threads_lock.
THEOREM SpecOneCpuPerThread ==
  ASSUME NThreads = 1
  PROVE  Spec => []OneCpuPerThread
<1>1. Init => LInv
  BY DEF Init, LInv, LockInv, OwnInv, Window, Past, Cpus
<1>2. IInv /\ LInv /\ [Next]_vars => LInv'
  BY NextLInv
<1>3. LInv => OneCpuPerThread
  BY DEF LInv, LockInv, OwnInv, OneCpuPerThread, Past, NoCpu, Cpus
<1>4. QED
  BY <1>1, <1>2, <1>3, SpecIInv, PTL DEF Spec

=============================================================================
