-------------------------- MODULE CopyWindowProofs --------------------------
(***************************************************************************)
(* Proofs about the spinlock and the copy window for every set of CPUs and *)
(* every set of mappings.  Every step of a copy is a step of Spinlock or   *)
(* leaves the lock alone, so that the lock's inductive invariant, which    *)
(* comes first, holds here too; on it rests the invariant of the window.   *)
(*                                                                         *)
(* The last part is about the message queue, for any messages and any      *)
(* number of calls.                                                        *)
(***************************************************************************)
EXTENDS CopyWindow, IpcQueue, TLAPS

-----------------------------------------------------------------------------
\* The lock

\* Until an overlap, the CPUs past the load are at most one, and a CPU that
\* holds the lock has the flag set.
AtMostOneIn ==
  ~raced =>
    /\ \A c, d \in Cpus :
         pc[c] \in {"store", "held"} /\ pc[d] \in {"store", "held"} => c = d
    /\ \A c \in Cpus : pc[c] = "held" => locked

\* The inductive invariant of the lock.
IInv == TypeOK /\ LockedHasHolder /\ AtMostOneIn

\* The initial state, with the flag clear and no CPU inside.
LEMMA InitIInv == Init => IInv
  BY Zenon DEF Init, IInv, TypeOK, LockedHasHolder, AtMostOneIn, Positions

\* Every access of lock(), try_lock() and unlock() preserves the invariant.
LEMMA NextIInv == IInv /\ [Next]_vars => IInv'
<1> SUFFICES ASSUME IInv, [Next]_vars
             PROVE  IInv'
  OBVIOUS
<1> USE DEF IInv, TypeOK, Positions, Goto
<1>1. CASE UNCHANGED vars
  BY <1>1 DEF vars, LockedHasHolder, AtMostOneIn
<1>2. ASSUME NEW c \in Cpus, CallLock(c) \/ CallTryLock(c)
      PROVE  IInv'
  BY <1>2 DEF CallLock, CallTryLock, LockedHasHolder, AtMostOneIn
<1>3. ASSUME NEW c \in Cpus, LockLoad(c)
      PROVE  IInv'
  BY <1>3, Zenon DEF LockLoad, OtherInWindow, LockedHasHolder, AtMostOneIn
<1>4. ASSUME NEW c \in Cpus, TryLoad(c)
      PROVE  IInv'
  <2>1. CASE locked
    BY <1>4, <2>1 DEF TryLoad, LockedHasHolder, AtMostOneIn
  <2>2. CASE ~locked
    BY <1>4, <2>2, Zenon DEF TryLoad, OtherInWindow, LockedHasHolder, AtMostOneIn
  <2>3. QED
    BY <2>1, <2>2
<1>5. ASSUME NEW c \in Cpus, Store(c)
      PROVE  IInv'
  BY <1>5 DEF Store, LockedHasHolder, AtMostOneIn
<1>6. ASSUME NEW c \in Cpus, Unlock(c)
      PROVE  IInv'
  BY <1>6, Zenon DEF Unlock, LockedHasHolder, AtMostOneIn
<1>7. QED
  BY <1>1, <1>2, <1>3, <1>4, <1>5, <1>6 DEF Next, Step

LEMMA SpecIInv == Spec => []IInv
  BY InitIInv, NextIInv, PTL DEF Spec

\* spinlock::_locked is never left set by a CPU that has gone.
THEOREM SpecLockedHasHolder == Spec => []LockedHasHolder
<1>1. IInv => LockedHasHolder
  BY DEF IInv
<1>2. QED
  BY <1>1, SpecIInv, PTL

\* Only overlapping load/store pairs of lock() and try_lock() break mutual
\* exclusion, for any number of CPUs.
THEOREM SpecExclusionUnlessRaced == Spec => []ExclusionUnlessRaced
<1>1. IInv => ExclusionUnlessRaced
  BY DEF IInv, AtMostOneIn, ExclusionUnlessRaced
<1>2. QED
  BY <1>1, SpecIInv, PTL

-----------------------------------------------------------------------------
\* The window

CopyTypes ==
  /\ stage \in [Cpus -> {"map", "copy", "unmap"}]
  /\ turn \in [Cpus -> Int]
  /\ job \in [Cpus -> [MappedPages -> Nat]]
  /\ size \in [Cpus -> Int]
  /\ win \in [MappedPages -> Nat]
  /\ tlb \in [Cpus -> [MappedPages -> Nat]]

\* The pages of a copy are in its size, and a CPU that does not hold the lock
\* starts with the first turn of the first loop, one that is out of the lock
\* with no copy at all.
CallShape(c) ==
  /\ \A w \in MappedPages : job[c][w] # 0 => w[2] >= 1 /\ w[2] <= size[c]
  /\ pc[c] # "held" => stage[c] = "map" /\ turn[c] = 1
  /\ pc[c] = "out" => \A w \in MappedPages : job[c][w] = 0

\* What the loops have done for CPU c: pages mapped so far, all pages mapped,
\* pages unmapped and dropped so far.  Cached translations are always right.
LoopDone(c) ==
  /\ \A w \in MappedPages : tlb[c][w] = 0 \/ tlb[c][w] = job[c][w]
  /\ pc[c] = "held" => \A w \in MappedPages : job[c][w] # 0 =>
       /\ stage[c] = "map" /\ w[2] < turn[c] => win[w] = job[c][w]
       /\ stage[c] = "copy" => win[w] = job[c][w]
       /\ stage[c] = "unmap" /\ w[2] < turn[c] => win[w] = 0 /\ tlb[c][w] = 0

Clean == ~strayed /\ \A c \in Cpus : LoopDone(c)

\* The inductive invariant of the window.
CopyInv ==
  /\ IInv /\ CopyTypes
  /\ \A c \in Cpus : CallShape(c)
  /\ ~raced /\ ~guessed => Clean

\* Window pages are numbered by natural numbers.
LEMMA PageNumbers == \A w \in MappedPages : w[2] \in Int /\ w[2] >= 1
  BY MappingsAssumption DEF MappedPages

\* At the start no window page is mapped or cached.
LEMMA CopyInitInv == CopyInit => CopyInv
<1> SUFFICES ASSUME CopyInit PROVE CopyInv
  OBVIOUS
<1>1. IInv
  BY InitIInv DEF CopyInit
<1>2. CopyTypes
  BY DEF CopyInit, CopyTypes, Nothing
<1>3. \A c \in Cpus : CallShape(c)
  BY DEF CopyInit, Init, CallShape, Nothing
<1>4. Clean
  BY DEF CopyInit, Init, Clean, LoopDone, Nothing
<1>5. QED
  BY <1>1, <1>2, <1>3, <1>4 DEF CopyInv

\* Seen by the lock, every step of a copy is a step of Spinlock.
LEMMA CopyIsLockStep == [CopyNext]_copyVars => [Next]_vars
<1> SUFFICES ASSUME [CopyNext]_copyVars PROVE [Next]_vars
  OBVIOUS
<1>1. CASE UNCHANGED copyVars
  BY <1>1 DEF copyVars
<1>2. ASSUME NEW c \in Cpus, Copier(c)
      PROVE  [Next]_vars
  BY <1>2 DEF Copier, MappingCopy, vmm_ctx_memcpy, Call, Lock, MapPage,
       CopyPage, UnmapPage, Turn, Loops, Return, vmm_set_context, Guess,
       Next, Step
<1>3. QED
  BY <1>1, <1>2 DEF CopyNext

\* What a call of a copy function sets up.
LEMMA CallPreserves ==
  ASSUME CopyInv, NEW c \in Cpus, NEW m \in Mappings, NEW n \in Mappings,
         MappingCopy(c, m) \/ vmm_ctx_memcpy(c, m, n), IInv'
  PROVE  CopyInv'
<1>1. PICK copy \in [MappedPages -> Nat] :
        /\ CallLock(c)
        /\ job' = [job EXCEPT ![c] = copy]
        /\ size' = [size EXCEPT ![c] = Len(m)]
        /\ UNCHANGED <<stage, turn, win, tlb, guessed, strayed>>
        /\ \A w \in MappedPages : copy[w] # 0 => w[2] <= Len(m)
  <2>1. /\ Len(m) \in Int /\ DOMAIN m = 1 .. Len(m) /\ m \in Seq(Nat)
        /\ Len(n) \in Int /\ DOMAIN n = 1 .. Len(n) /\ n \in Seq(Nat)
    BY MappingsAssumption
  <2>2. \A w \in MappedPages : /\ Page(m, w[2]) \in Nat
                               /\ Page(n, w[2]) \in Nat
                               /\ Page(m, w[2]) # 0 => w[2] <= Len(m)
                               /\ Page(n, w[2]) # 0 => w[2] <= Len(n)
    BY <2>1, PageNumbers DEF Page
  <2>3. CASE MappingCopy(c, m)
    <3> DEFINE copy == [w \in MappedPages |->
                          IF w[1] = "dst" THEN Page(m, w[2]) ELSE 0]
    <3>1. /\ copy \in [MappedPages -> Nat]
          /\ \A w \in MappedPages : copy[w] # 0 => w[2] <= Len(m)
      BY <2>2
    <3>2. Call(c, copy, Len(m), FALSE)
      BY <2>3, Zenon DEF MappingCopy
    <3> HIDE DEF copy
    <3>3. QED
      BY <3>1, <3>2, Zenon DEF Call
  <2>4. CASE vmm_ctx_memcpy(c, m, n)
    <3> DEFINE copy == [w \in MappedPages |->
                          Page(IF w[1] = "dst" THEN m ELSE n, w[2])]
    <3>1. /\ copy \in [MappedPages -> Nat]
          /\ \A w \in MappedPages : copy[w] # 0 => w[2] <= Len(m)
      <4>1. \A w \in MappedPages :
              copy[w] = Page(m, w[2]) \/ copy[w] = Page(n, w[2])
        BY Zenon
      <4>2. Len(m) = Len(n)
        BY <2>4 DEF vmm_ctx_memcpy
      <4>3. DOMAIN copy = MappedPages /\ copy = [w \in MappedPages |-> copy[w]]
        BY Zenon
      <4> HIDE DEF copy
      <4>4. QED
        BY <2>2, <4>1, <4>2, <4>3
    <3>2. Call(c, copy, Len(m), TRUE)
      BY <2>4, Zenon DEF vmm_ctx_memcpy
    <3> HIDE DEF copy
    <3>3. QED
      BY <3>1, <3>2, Zenon DEF Call
  <2>5. QED
    BY <2>3, <2>4
<1>2. Len(m) \in Int
  BY MappingsAssumption
<1>3. CopyTypes'
  BY <1>1, <1>2 DEF CopyInv, CopyTypes
<1>4. \A d \in Cpus : CallShape(d)'
  BY <1>1, <1>2, PageNumbers
     DEF CopyInv, CopyTypes, IInv, TypeOK, CallShape, CallLock, Goto
<1>5. ~raced' /\ ~guessed' => Clean'
  BY <1>1 DEF CopyInv, CopyTypes, IInv, TypeOK, CallShape, Clean, LoopDone,
       CallLock, Goto
<1>6. QED
  BY <1>3, <1>4, <1>5 DEF CopyInv

\* A CPU that holds the lock is the only one, until an overlap.
LEMMA HolderAlone ==
  ASSUME IInv, ~raced, NEW c \in Cpus, pc[c] = "held"
  PROVE  \A d \in Cpus : pc[d] = "held" => d = c
  BY DEF IInv, AtMostOneIn

\* Turns of the three loops.
LEMMA TurnPreserves ==
  ASSUME CopyInv, NEW c \in Cpus,
         MapPage(c) \/ CopyPage(c) \/ UnmapPage(c), IInv'
  PROVE  CopyInv'
<1> USE DEF CopyInv, CopyTypes, IInv, TypeOK
<1>1. CopyTypes'
  <2>1. /\ turn' \in [Cpus -> Int] /\ UNCHANGED <<stage, job, size>>
    BY DEF MapPage, CopyPage, UnmapPage, Turn
  <2>2. CASE MapPage(c)
    <3>1. win' \in [MappedPages -> Nat]
      BY <2>2 DEF MapPage
    <3>2. Dropped(c, tlb[c]) \in [MappedPages -> Nat]
      BY DEF Dropped
    <3>3. tlb' = tlb \/ tlb' = [tlb EXCEPT ![c] = Dropped(c, tlb[c])]
      BY <2>2 DEF MapPage
    <3>4. QED
      BY <2>1, <3>1, <3>2, <3>3, Zenon
  <2>3. CASE CopyPage(c)
    BY <2>1, <2>3 DEF CopyPage, Reached
  <2>4. CASE UnmapPage(c)
    <3>1. /\ Dropped(c, tlb[c]) \in [MappedPages -> Nat]
          /\ Dropped(c, win) \in [MappedPages -> Nat]
      BY DEF Dropped
    <3>2. QED
      BY <2>1, <2>4, <3>1 DEF UnmapPage
  <2>5. QED
    BY <2>2, <2>3, <2>4
<1>2. \A d \in Cpus : CallShape(d)'
  BY DEF MapPage, CopyPage, UnmapPage, Turn, CallShape, vars
<1>3. ~raced' /\ ~guessed' => Clean'
  <2> SUFFICES ASSUME ~raced, ~guessed PROVE Clean'
    BY DEF MapPage, CopyPage, UnmapPage, Turn, vars
  <2>1. /\ Clean
        /\ pc[c] = "held" /\ pc' = pc /\ job' = job /\ stage' = stage
        /\ turn' = [turn EXCEPT ![c] = turn[c] + 1]
    BY DEF MapPage, CopyPage, UnmapPage, Turn, vars
  <2>2. \A d \in Cpus : pc[d] = "held" => d = c
    BY <2>1, HolderAlone
  <2>3. CASE MapPage(c)
    <3>1. /\ stage[c] = "map" /\ strayed' = strayed
          /\ \A w \in MappedPages :
               win'[w] = IF w \in Now(c) THEN job[c][w] ELSE win[w]
      BY <2>3 DEF MapPage, Turn
    <3>2. \A d \in Cpus, w \in MappedPages :
            tlb'[d][w] = 0 \/ tlb'[d][w] = tlb[d][w]
      <4>1. CASE early[c]
        BY <2>3, <4>1 DEF MapPage, Dropped
      <4>2. CASE ~early[c]
        BY <2>3, <4>2 DEF MapPage
      <4>3. QED
        BY <4>1, <4>2
    <3>3. QED
      <4> SUFFICES ASSUME NEW d \in Cpus PROVE LoopDone(d)'
        BY <2>1, <3>1 DEF Clean
      <4>1. \A w \in MappedPages : tlb'[d][w] = 0 \/ tlb'[d][w] = job'[d][w]
        BY <2>1, <3>2 DEF Clean, LoopDone
      <4>2. ASSUME NEW w \in MappedPages, pc[d] = "held", job[d][w] # 0,
                   w[2] < turn'[d]
            PROVE  win'[w] = job[d][w]
        <5>1. d = c /\ w[2] < turn[c] + 1
          BY <2>1, <2>2, <4>2
        <5>2. turn[c] \in Int /\ w[2] \in Int
          BY PageNumbers
        <5> HIDE DEF CopyInv, CopyTypes, IInv, TypeOK
        <5>3. w[2] = turn[c] \/ w[2] < turn[c]
          BY <5>1, <5>2
        <5>4. w \in Now(c) \/ w[2] < turn[c]
          BY <4>2, <5>1, <5>3 DEF Now
        <5>5. QED
          BY <2>1, <3>1, <4>2, <5>1, <5>4 DEF Clean, LoopDone
      <4>3. QED
        BY <2>1, <2>2, <3>1, <4>1, <4>2 DEF LoopDone
  <2>4. CASE CopyPage(c)
    BY <2>1, <2>2, <2>4, PageNumbers
       DEF CopyPage, Turn, Now, Reached, Clean, LoopDone
  <2>5. CASE UnmapPage(c)
    <3>1. /\ stage[c] = "unmap" /\ strayed' = strayed
          /\ \A w \in MappedPages :
               /\ win'[w] = IF w \in Now(c) THEN 0 ELSE win[w]
               /\ tlb'[c][w] = IF w \in Now(c) THEN 0 ELSE tlb[c][w]
          /\ \A d \in Cpus \ {c} : tlb'[d] = tlb[d]
      BY <2>5 DEF UnmapPage, Turn, Dropped
    <3>2. QED
      <4> SUFFICES ASSUME NEW d \in Cpus PROVE LoopDone(d)'
        BY <2>1, <3>1 DEF Clean
      <4>1. \A w \in MappedPages : tlb'[d][w] = 0 \/ tlb'[d][w] = job'[d][w]
        <5>1. \A w \in MappedPages :
                tlb'[d][w] = 0 \/ tlb'[d][w] = tlb[d][w]
          BY <3>1, Zenon
        <5>2. QED
          BY <2>1, <5>1 DEF Clean, LoopDone
      <4>2. ASSUME NEW w \in MappedPages, pc[d] = "held", job[d][w] # 0,
                   w[2] < turn'[d]
            PROVE  win'[w] = 0 /\ tlb'[d][w] = 0
        <5>1. d = c /\ w[2] < turn[c] + 1
          BY <2>1, <2>2, <4>2
        <5>2. turn[c] \in Int /\ w[2] \in Int
          BY PageNumbers
        <5> HIDE DEF CopyInv, CopyTypes, IInv, TypeOK
        <5>3. w[2] = turn[c] \/ w[2] < turn[c]
          BY <5>1, <5>2
        <5>4. w \in Now(c) \/ w[2] < turn[c]
          BY <4>2, <5>1, <5>3 DEF Now
        <5>5. QED
          BY <2>1, <3>1, <4>2, <5>1, <5>4 DEF Clean, LoopDone
      <4>3. QED
        BY <2>1, <2>2, <3>1, <4>1, <4>2 DEF LoopDone
  <2>6. QED
    BY <2>3, <2>4, <2>5
<1>4. QED
  BY <1>1, <1>2, <1>3

\* The other steps: the lock, the ends of the loops, and the processor.
LEMMA OtherPreserves ==
  ASSUME CopyInv, NEW c \in Cpus, IInv',
         \/ Lock(c) \/ Loops(c) \/ Return(c) \/ vmm_set_context(c)
         \/ \E w \in MappedPages : Guess(c, w)
  PROVE  CopyInv'
<1> USE DEF CopyInv, CopyTypes, IInv, TypeOK
<1>1. CASE Lock(c)
  <2>1. CopyTypes'
    BY <1>1 DEF Lock
  <2>2. /\ UNCHANGED <<stage, turn, job, size, win, tlb, guessed, strayed>>
        /\ pc[c] # "held" /\ pc[c] # "out"
        /\ ~raced' => ~raced
        /\ \E p \in {"store", "held"} : pc' = [pc EXCEPT ![c] = p]
    BY <1>1 DEF Lock, LockLoad, Store, Goto
  <2>3. \A d \in Cpus : CallShape(d)'
    BY <2>2 DEF CallShape
  <2>4. ~raced' /\ ~guessed' => Clean'
    BY <2>2, PageNumbers DEF CallShape, Clean, LoopDone
  <2>5. QED
    BY <2>1, <2>3, <2>4
<1>2. CASE Loops(c)
  <2>1. CopyTypes'
    <3>1. UNCHANGED <<job, size, win, tlb>>
      BY <1>2 DEF Loops, NextLoop
    <3>2. turn' = [turn EXCEPT ![c] = 1]
      BY <1>2 DEF Loops, NextLoop
    <3>3. \E next \in {"copy", "unmap"} : stage' = [stage EXCEPT ![c] = next]
      BY <1>2 DEF Loops, NextLoop
    <3>4. QED
      BY <3>1, <3>2, <3>3
  <2>2. \A d \in Cpus : CallShape(d)'
    BY <1>2 DEF Loops, NextLoop, CallShape, vars
  <2>3. ~raced' /\ ~guessed' => Clean'
    BY <1>2, PageNumbers
       DEF Loops, NextLoop, CallShape, Clean, LoopDone, vars
  <2>4. QED
    BY <2>1, <2>2, <2>3
<1>3. CASE Return(c)
  <2>1. CopyTypes'
    BY <1>3 DEF Return, NextLoop, Nothing
  <2>2. \A d \in Cpus : CallShape(d)'
    BY <1>3 DEF Return, NextLoop, Unlock, Goto, CallShape, Nothing
  <2>3. ~raced' /\ ~guessed' => Clean'
    BY <1>3, PageNumbers
       DEF Return, NextLoop, Unlock, Goto, CallShape, Clean, LoopDone, Nothing
  <2>4. QED
    BY <2>1, <2>2, <2>3
<1>4. CASE vmm_set_context(c)
  BY <1>4 DEF vmm_set_context, CallShape, Clean, LoopDone, Nothing, vars
<1>5. ASSUME NEW w \in MappedPages, Guess(c, w)
      PROVE  CopyInv'
  <2>1. CopyTypes'
    BY <1>5 DEF Guess
  <2>2. \A d \in Cpus : CallShape(d)'
    BY <1>5 DEF Guess, CallShape, vars
  <2>3. ~raced' /\ ~guessed' => Clean'
    <3> SUFFICES ASSUME ~raced', ~guessed' PROVE Clean'
      OBVIOUS
    <3>1. Clean
      BY <1>5, Zenon DEF Guess, vars
    <3>2. /\ job[c][w] = win[w] /\ win[w] # 0
          /\ UNCHANGED <<pc, stage, turn, job, win, strayed>>
      BY <1>5, Zenon DEF Guess, vars
    <3>3. \A d \in Cpus, v \in MappedPages :
            tlb'[d][v] = IF d = c /\ v = w THEN win[w] ELSE tlb[d][v]
      BY <1>5 DEF Guess
    <3>4. QED
      BY <3>1, <3>2, <3>3 DEF Clean, LoopDone
  <2>4. QED
    BY <2>1, <2>2, <2>3
<1>6. QED
  BY <1>1, <1>2, <1>3, <1>4, <1>5

\* Every step preserves the invariant.
LEMMA CopyNextInv == CopyInv /\ [CopyNext]_copyVars => CopyInv'
<1> SUFFICES ASSUME CopyInv, [CopyNext]_copyVars PROVE CopyInv'
  OBVIOUS
<1>1. IInv'
  BY CopyIsLockStep, NextIInv DEF CopyInv
<1>2. CASE UNCHANGED copyVars
  BY <1>1, <1>2
     DEF copyVars, vars, CopyInv, CopyTypes, CallShape, Clean, LoopDone
<1>3. ASSUME NEW c \in Cpus, Copier(c)
      PROVE  CopyInv'
  BY <1>1, <1>3, CallPreserves, TurnPreserves, OtherPreserves DEF Copier
<1>4. QED
  BY <1>2, <1>3 DEF CopyNext

\* arch_mm_mapping_load, arch_mm_mapping_store and vmm_ctx_memcpy reach their
\* own pages, for any number of CPUs and any mappings, until two CPUs overlap
\* in lock() or a processor caches a page of a window it is not using.
THEOREM SpecCopyReachesOwnPages == CopySpec => []CopyReachesOwnPages
<1>1. CopyInv => CopyReachesOwnPages
  BY DEF CopyInv, Clean, CopyReachesOwnPages
<1>2. QED
  BY <1>1, CopyInitInv, CopyNextInv, PTL DEF CopySpec

-----------------------------------------------------------------------------
\* The message queue

\* The queue never holds more than one message: _dequeue stays 0 and _enqueue
\* wraps to 0 at once, so that a second send finds the slot taken.
QueueInv ==
  /\ sent \in Seq(Messages) /\ popped \in Seq(Messages)
  /\ nMessages \in {0, 1} /\ Fifo
  /\ halted = None =>
       /\ enqueue = 0 /\ dequeue = 0
       /\ \/ buffer = <<>> /\ nMessages = 0
          \/ buffer = <<None>> /\ nMessages = 0
          \/ buffer = <<sent[Len(sent)]>> /\ nMessages = 1

LEMMA SendKeepsQueue ==
  ASSUME QueueInv, NEW m \in Messages, send(m)
  PROVE  QueueInv'
<1>1. CASE halted' # None
  <2>1. UNCHANGED <<nMessages, sent, popped>>
    BY <1>1 DEF send, Fail
  <2>2. QED
    BY <1>1, <2>1 DEF QueueInv, Fifo
<1>2. CASE halted' = None
  <2>1. /\ halted = None /\ Grown[enqueue + 1] = None
        /\ buffer' = [Grown EXCEPT ![enqueue + 1] = m]
        /\ enqueue' = Advance(enqueue, Grown)
        /\ nMessages' = nMessages + 1 /\ sent' = Append(sent, m)
        /\ UNCHANGED <<dequeue, popped>>
    BY <1>2 DEF send, Fail, None
  <2>2. enqueue = 0 /\ dequeue = 0 /\ sent \in Seq(Messages) /\ popped \in Seq(Messages)
    BY <2>1 DEF QueueInv
  <2>3. nMessages = 0 /\ Grown = <<None>>
    <3>1. CASE nMessages = 1
      <4>1. buffer = <<sent[Len(sent)]>>
        BY <2>1, <3>1 DEF QueueInv
      <4>2. Grown = Append(buffer, None) /\ Grown[1] = sent[Len(sent)]
        BY <3>1, <4>1 DEF Grown
      <4>3. Len(sent) = Len(popped) + 1
        BY <3>1 DEF QueueInv, Fifo
      <4>4. sent[Len(sent)] \in Messages
        BY <2>2, <4>3
      <4>5. QED
        BY <2>1, <2>2, <4>2, <4>4, QueueAssumption
    <3>2. CASE nMessages = 0
      <4>1. CASE buffer = <<>>
        BY <3>2, <4>1 DEF Grown
      <4>2. CASE buffer = <<None>>
        BY <3>2, <4>2 DEF Grown
      <4>3. QED
        BY <2>1, <3>2, <4>1, <4>2 DEF QueueInv
    <3>3. QED
      BY <3>1, <3>2 DEF QueueInv
  <2>4. buffer' = <<m>> /\ enqueue' = 0 /\ nMessages' = 1
    BY <2>1, <2>2, <2>3 DEF Advance
  <2>5. /\ sent' \in Seq(Messages) /\ Len(sent') = Len(sent) + 1
        /\ sent'[Len(sent')] = m /\ \A i \in 1 .. Len(sent) : sent'[i] = sent[i]
    BY <2>1, <2>2
  <2>6. Fifo'
    <3>1. Len(sent) = Len(popped) /\ \A i \in DOMAIN popped : popped[i] = sent[i]
      BY <2>2, <2>3 DEF QueueInv, Fifo
    <3>2. QED
      BY <2>1, <2>2, <2>4, <2>5, <3>1 DEF Fifo
  <2>7. QED
    BY <2>1, <2>2, <2>4, <2>5, <2>6 DEF QueueInv
<1>3. QED
  BY <1>1, <1>2

LEMMA PopKeepsQueue ==
  ASSUME QueueInv, pop
  PROVE  QueueInv'
<1>1. CASE halted' # None
  <2>1. UNCHANGED <<nMessages, sent, popped>>
    BY <1>1 DEF pop, Fail
  <2>2. QED
    BY <1>1, <2>1 DEF QueueInv, Fifo
<1>2. CASE halted' = None
  <2>1. /\ halted = None /\ buffer # <<>> /\ buffer[dequeue + 1] # None
        /\ buffer' = [buffer EXCEPT ![dequeue + 1] = None]
        /\ nMessages' = nMessages - 1 /\ popped' = Append(popped, buffer[dequeue + 1])
        /\ UNCHANGED <<enqueue, dequeue, sent>>
    BY <1>2 DEF pop, Fail, None
  <2>2. /\ enqueue = 0 /\ dequeue = 0 /\ sent \in Seq(Messages) /\ popped \in Seq(Messages)
        /\ buffer = <<sent[Len(sent)]>> /\ nMessages = 1
    BY <2>1 DEF QueueInv
  <2>3. Len(sent) = Len(popped) + 1 /\ \A i \in DOMAIN popped : popped[i] = sent[i]
    BY <2>2 DEF QueueInv, Fifo
  <2>4. sent[Len(sent)] \in Messages
    BY <2>2, <2>3
  <2>5. buffer' = <<None>> /\ nMessages' = 0 /\ popped' = Append(popped, sent[Len(sent)])
    BY <2>1, <2>2
  <2>6. Fifo' /\ popped' \in Seq(Messages)
    BY <2>1, <2>2, <2>3, <2>4, <2>5 DEF Fifo
  <2>7. QED
    BY <2>1, <2>2, <2>5, <2>6 DEF QueueInv
<1>3. QED
  BY <1>1, <1>2

\* send and pop of ipc_queue hand on every message once and in order, for any
\* messages and any number of calls.
THEOREM QueueIsFifo == QueueSpec => []Fifo
<1>1. QueueInit => QueueInv
  BY DEF QueueInit, QueueInv, Fifo
<1>2. QueueInv /\ [QueueNext]_queueVars => QueueInv'
  <2>1. ASSUME QueueInv, QueueNext PROVE QueueInv'
    <3>1. CASE peek \/ has_new
      BY <2>1, <3>1 DEF peek, has_new, Fail, QueueInv, Fifo
    <3>2. QED
      BY <2>1, <3>1, SendKeepsQueue, PopKeepsQueue DEF QueueNext
  <2>2. ASSUME QueueInv, UNCHANGED queueVars PROVE QueueInv'
    BY <2>2 DEF queueVars, QueueInv, Fifo
  <2>3. QED
    BY <2>1, <2>2
<1>3. QueueInv => Fifo
  BY DEF QueueInv
<1>4. QED
  BY <1>1, <1>2, <1>3, PTL DEF QueueSpec

=============================================================================
