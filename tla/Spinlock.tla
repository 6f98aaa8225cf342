------------------------------ MODULE Spinlock ------------------------------
(***************************************************************************)
(* The kernel's spinlock (kernel/util/spinlock.cpp).  lock() and           *)
(* try_lock() read the flag with one atomic load and set it with a         *)
(* separate atomic store, so another CPU can run between the two.  Each of *)
(* the two accesses is a step of its own here.                             *)
(*                                                                         *)
(* A CPU that called lock() or try_lock() successfully later calls         *)
(* unlock(); nobody else does (every user holds the lock through           *)
(* frg::unique_lock or a matching unlock()).                               *)
(*                                                                         *)
(* Definitions whose name starts with Bug are faulty variants of the       *)
(* definition that follows them; no specification uses them.               *)
(***************************************************************************)

CONSTANT Cpus            \* the CPUs that use the lock

VARIABLES
  locked,                \* spinlock::_locked
  pc,                    \* where each CPU is: see Positions
  raced                  \* history: two CPUs were between load and store at once

vars == <<locked, pc, raced>>

\* out: not using the lock; load: in the loop of lock(); try: about to load
\* in try_lock(); store: has seen FALSE and not stored yet; held: the call
\* has returned and unlock() has not been called.
Positions == {"out", "load", "try", "store", "held"}

TypeOK ==
  /\ locked \in BOOLEAN
  /\ pc \in [Cpus -> Positions]
  /\ raced \in BOOLEAN

Init ==
  /\ locked = FALSE
  /\ pc = [c \in Cpus |-> "out"]
  /\ raced = FALSE

Goto(c, p) == pc' = [pc EXCEPT ![c] = p]

\* Another CPU has seen the flag clear and is about to set it.
OtherInWindow(c) == \E d \in Cpus \ {c} : pc[d] = "store"

CallLock(c) ==
  /\ pc[c] = "out"
  /\ Goto(c, "load")
  /\ UNCHANGED <<locked, raced>>

CallTryLock(c) ==
  /\ pc[c] = "out"
  /\ Goto(c, "try")
  /\ UNCHANGED <<locked, raced>>

\* lock() that does not wait for a clear flag.
BugLockLoadNoSpin(c) ==
  /\ pc[c] = "load"
  /\ Goto(c, "store")
  /\ raced' = (raced \/ OtherInWindow(c))
  /\ UNCHANGED locked

\* The load that ends the loop of lock().  A load that reads TRUE goes round
\* the loop and changes nothing.
LockLoad(c) ==
  /\ pc[c] = "load"
  /\ ~locked
  /\ Goto(c, "store")
  /\ raced' = (raced \/ OtherInWindow(c))
  /\ UNCHANGED locked

TryLoad(c) ==
  /\ pc[c] = "try"
  /\ IF locked
       THEN Goto(c, "out") /\ UNCHANGED raced
       ELSE Goto(c, "store") /\ raced' = (raced \/ OtherInWindow(c))
  /\ UNCHANGED locked

Store(c) ==
  /\ pc[c] = "store"
  /\ locked' = TRUE
  /\ Goto(c, "held")
  /\ UNCHANGED raced

\* unlock() that leaves the flag alone.
BugUnlockNoStore(c) ==
  /\ pc[c] = "held"
  /\ Goto(c, "out")
  /\ UNCHANGED <<locked, raced>>

Unlock(c) ==
  /\ pc[c] = "held"
  /\ locked' = FALSE
  /\ Goto(c, "out")
  /\ UNCHANGED raced

\* The steps of the lock's own code; calling it is up to the caller.
Step(c) == LockLoad(c) \/ TryLoad(c) \/ Store(c) \/ Unlock(c)

Next == \E c \in Cpus : CallLock(c) \/ CallTryLock(c) \/ Step(c)

Spec == Init /\ [][Next]_vars

\* A CPU that is inside the lock's code, or that holds the lock, keeps
\* executing: critical sections run with interrupts disabled and end.
Fairness == \A c \in Cpus : WF_vars(Step(c))

FairSpec == Spec /\ Fairness

-----------------------------------------------------------------------------

\* The flag is never left set with nobody inside: even after two CPUs have
\* entered together and one of them has called unlock(), a set flag is the
\* store of a CPU that still holds the lock and will clear it.
LockedHasHolder == locked => \E c \in Cpus : pc[c] = "held"

\* lock() and try_lock() exclude, except after two CPUs were between the load
\* and the store at the same time: that overlap is the only way in which two
\* CPUs come to hold the lock.
ExclusionUnlessRaced ==
  \A c, d \in Cpus : pc[c] = "held" /\ pc[d] = "held" /\ c # d => raced

\* The lock does not deadlock: while some CPU waits in lock(), some CPU gets
\* in, whatever overlaps happened before.
SomeCpuEnters ==
  (\E c \in Cpus : pc[c] = "load") ~> (\E c \in Cpus : pc[c] = "held")

=============================================================================
