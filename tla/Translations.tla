---------------------------- MODULE Translations ----------------------------
(***************************************************************************)
(* What the page tables of kernel/arch/x86_64/mm/vmm.cpp promise: every    *)
(* address space is a function from pages to physical pages.  A call maps  *)
(* or unmaps a run of pages in the address space it names and changes no   *)
(* other translation; a new address space has the kernel's upper half and  *)
(* nothing below; destroying one leaves the others as they are.            *)
(***************************************************************************)
EXTENDS Naturals

CONSTANTS
  Pages,          \* virtual pages, a set of natural numbers
  LowerHalf,      \* pages of the user range
  Phys,           \* physical pages that callers map
  Unmapped        \* translation of a page that is not mapped

VARIABLES
  kernel,         \* the kernel's translations
  user            \* translations of the live address spaces, by name

Init == user = [c \in {} |-> kernel]

\* u is t after a call for a run of pages of the lower half: the run is mapped
\* to physical pages that follow each other, or unmapped.
Changed(t, u) ==
  \E first \in LowerHalf, last \in LowerHalf :
    /\ \A v \in Pages \ (first .. last) : u[v] = t[v]
    /\ \/ \E p \in Phys : \A v \in first .. last : u[v] = p + (v - first)
       \/ \A v \in first .. last : u[v] = Unmapped

ChangeKernel ==
  /\ \E t \in {kernel}, u \in {kernel'} : Changed(t, u)
  /\ UNCHANGED user

ChangeUser(c) ==
  /\ \E t \in {user}, u \in {user'} :
       /\ DOMAIN u = DOMAIN t
       /\ \A d \in DOMAIN t \ {c} : u[d] = t[d]
       /\ Changed(t[c], u[c])
  /\ UNCHANGED kernel

Create ==
  /\ \E t \in {user}, u \in {user'} : \E c \in DOMAIN u \ DOMAIN t :
       /\ DOMAIN u = DOMAIN t \cup {c}
       /\ \A d \in DOMAIN t : u[d] = t[d]
       /\ u[c] = [v \in Pages |-> IF v \in LowerHalf THEN Unmapped
                                                     ELSE kernel[v]]
  /\ UNCHANGED kernel

Destroy(c) ==
  /\ user' = [d \in DOMAIN user \ {c} |-> user[d]]
  /\ UNCHANGED kernel

Next ==
  \/ ChangeKernel
  \/ Create
  \/ \E c \in DOMAIN user : ChangeUser(c) \/ Destroy(c)

Spec == Init /\ [][Next]_<<kernel, user>>

=============================================================================
