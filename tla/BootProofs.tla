----------------------------- MODULE BootProofs -----------------------------
(***************************************************************************)
(* Proofs about two parts that boot the kernel: the physical page          *)
(* allocator, for every page size, every finite memory map and every run   *)
(* length; and starting the other processors, for any number of them and   *)
(* any number of polls.  Facts about numbers, finite sets and sums, which  *)
(* both use, come first.                                                   *)
(*                                                                         *)
(* What the allocator hands out was clear, and what is clear once pmm_init *)
(* has returned is memory.  So the work is in pmm_init: the arithmetic of  *)
(* rounding a region, of cutting the bitmap off its front in bytes, and of *)
(* the page in which the bitmap ends.                                      *)
(*                                                                         *)
(* The words at 0x500 are the same for all processors.  What keeps them    *)
(* apart is that a processor is between its first read and its report only *)
(* while the BSP polls for it, as long as none comes up after the BSP has  *)
(* given up on it.                                                         *)
(***************************************************************************)
EXTENDS Pmm, SmpBoot, FiniteSetTheorems, WellFoundedInduction, TLAPS

-----------------------------------------------------------------------------
\* Induction over numbers and over finite sets, as facts about sets

LEMMA LeastOfNats ==
  ASSUME NEW S \in SUBSET Nat, S # {}
  PROVE  \E x \in S : \A y \in S : x <= y
<1> DEFINE R == {ss \in Nat \X Nat : ss[1] < ss[2]}
<1>1. IsWellFoundedOn(R, Nat)
  BY NatLessThanWellFounded, Zenon DEF OpToRel
<1> HIDE DEF R
<1>2. PICK x \in S : \A y \in S : ~(<<y, x>> \in R)
  BY <1>1, WFMin, Zenon
<1>3. \A y \in Nat : <<y, x>> \in R <=> y < x
  BY DEF R
<1>4. ASSUME NEW y \in S PROVE x <= y
  <2>1. ~(y < x)
    BY <1>2, <1>3, Zenon
  <2>2. QED
    BY <2>1
<1>5. QED
  BY <1>4, Zenon

LEMMA NatsReached ==
  ASSUME NEW S, 0 \in S, \A n \in Nat : n \in S => n + 1 \in S
  PROVE  Nat \subseteq S
<1>1. SUFFICES ASSUME Nat \ S # {} PROVE FALSE
  OBVIOUS
<1>2. PICK x \in Nat \ S : \A y \in Nat \ S : x <= y
  BY <1>1, LeastOfNats, Zenon
<1>3. x # 0
  BY <1>2
<1>4. x - 1 \in Nat /\ x - 1 \in S
  BY <1>2, <1>3
<1>5. (x - 1) + 1 \in S
  BY <1>4
<1>6. QED
  BY <1>2, <1>5

LEMMA MinOfNats ==
  ASSUME NEW S \in SUBSET Nat, S # {}
  PROVE  Min(S) \in S /\ \A y \in S : Min(S) <= y
<1>1. \E x \in S : \A y \in S : x <= y
  BY LeastOfNats, Zenon
<1>2. QED
  BY <1>1, Zenon DEF Min

LEMMA SubsetsReached ==
  ASSUME NEW S, IsFiniteSet(S), NEW T,
         \A s \in SUBSET S : (\A x \in s : s \ {x} \in T) => s \in T
  PROVE  SUBSET S \subseteq T
<1> DEFINE N == {n \in Nat : \A s \in SUBSET S : Cardinality(s) = n => s \in T}
<1>1. \A s \in SUBSET S : IsFiniteSet(s) /\ Cardinality(s) \in Nat
  BY FS_Subset, FS_CardinalityType
<1>2. 0 \in N
  <2>1. ASSUME NEW s \in SUBSET S, Cardinality(s) = 0 PROVE s \in T
    <3>1. s = {}
      BY <1>1, <2>1, FS_EmptySet
    <3>2. QED
      BY <3>1
  <2>2. QED
    BY <2>1
<1>3. ASSUME NEW n \in Nat, n \in N PROVE n + 1 \in N
  <2>1. ASSUME NEW s \in SUBSET S, Cardinality(s) = n + 1 PROVE s \in T
    <3>1. ASSUME NEW x \in s PROVE s \ {x} \in T
      <4>1. Cardinality(s \ {x}) = Cardinality(s) - 1
        BY <1>1, FS_RemoveElement
      <4>2. Cardinality(s \ {x}) = n /\ s \ {x} \in SUBSET S
        BY <2>1, <4>1
      <4>3. QED
        BY <1>3, <4>2
    <3>2. QED
      BY <3>1
  <2>2. QED
    BY <2>1
<1> HIDE DEF N
<1>4. Nat \subseteq N
  BY <1>2, <1>3, NatsReached
<1>5. \A s \in SUBSET S : Cardinality(s) \in N
  BY <1>1, <1>4
<1>6. QED
  BY <1>5 DEF N

\* A sum over a finite set is a number.  F gives the summands; g the sums over
\* the subsets, in the form that MapThenSumSet has them.
Summed(g, S, F) ==
  g = [s \in SUBSET S |->
         IF s = {} THEN 0
         ELSE F[CHOOSE x \in s : TRUE] + g[s \ {CHOOSE x \in s : TRUE}]]

LEMMA SumExists ==
  ASSUME NEW S, IsFiniteSet(S), NEW F
  PROVE  \E g : Summed(g, S, F)
<1> DEFINE c(s) == CHOOSE x \in s : TRUE
           Sub(n) == {s \in SUBSET S : Cardinality(s) <= n}
           Rec(h, n) == h = [s \in Sub(n) |->
             IF s = {} THEN 0 ELSE F[c(s)] + h[s \ {c(s)}]]
           N == {n \in Nat : \E h : Rec(h, n)}
<1>1. \A s \in SUBSET S : IsFiniteSet(s) /\ Cardinality(s) \in Nat
  BY FS_Subset, FS_CardinalityType
<1>2. 0 \in N
  <2> DEFINE h == [s \in Sub(0) |-> 0]
  <2>1. \A s \in Sub(0) : s = {}
    BY <1>1, FS_EmptySet
  <2>2. Rec(h, 0)
    BY <2>1
  <2>3. QED
    BY <2>2, Zenon
<1>3. ASSUME NEW n \in Nat, n \in N PROVE n + 1 \in N
  <2>1. PICK h : Rec(h, n)
    BY <1>3, Zenon
  <2> DEFINE j == [s \in Sub(n + 1) |-> IF s = {} THEN 0 ELSE F[c(s)] + h[s \ {c(s)}]]
  <2>2. ASSUME NEW s \in Sub(n + 1), s # {}
        PROVE  s \ {c(s)} \in Sub(n) /\ s \ {c(s)} \in Sub(n + 1)
    <3>1. c(s) \in s
      BY <2>2
    <3> HIDE DEF c
    <3>2. Cardinality(s \ {c(s)}) = Cardinality(s) - 1
      BY <1>1, <3>1, FS_RemoveElement
    <3>3. QED
      BY <1>1, <3>2
  <2>3. \A s \in Sub(n) : s \in Sub(n + 1)
    BY <1>1
  <2>4. \A s \in Sub(n) : j[s] = h[s]
    <3> HIDE DEF c, Sub
    <3>1. \A s \in Sub(n) : h[s] = IF s = {} THEN 0 ELSE F[c(s)] + h[s \ {c(s)}]
      BY <2>1, Zenon DEF c
    <3>2. QED
      BY <2>3, <3>1, Zenon
  <2>5. \A s \in Sub(n + 1) : s # {} => j[s \ {c(s)}] = h[s \ {c(s)}]
    BY <2>2, <2>4, Zenon
  <2>6. Rec(j, n + 1)
    <3> HIDE DEF Sub, c
    <3>1. \A s \in Sub(n + 1) : j[s] = IF s = {} THEN 0 ELSE F[c(s)] + j[s \ {c(s)}]
      <4>1. \A s \in Sub(n + 1) : j[s] = IF s = {} THEN 0 ELSE F[c(s)] + h[s \ {c(s)}]
        BY Zenon
      <4> HIDE DEF j
      <4>2. QED
        BY <2>5, <4>1, Zenon
    <3>2. j = [s \in Sub(n + 1) |-> j[s]]
      BY Zenon
    <3> HIDE DEF j
    <3>3. QED
      BY <3>1, <3>2, Zenon
  <2>7. n + 1 \in Nat
    OBVIOUS
  <2> HIDE DEF Rec, j
  <2>8. QED
    BY <2>6, <2>7, Zenon
<1> HIDE DEF N
<1>4. Nat \subseteq N
  BY <1>2, <1>3, NatsReached
<1>5. Cardinality(S) \in N
  BY <1>1, <1>4
<1>6. PICK h : Rec(h, Cardinality(S))
  BY <1>5, Zenon DEF N
<1>7. Sub(Cardinality(S)) = SUBSET S
  BY <1>1, FS_Subset
<1>8. QED
  BY <1>6, <1>7, Zenon DEF Summed

LEMMA SumType ==
  ASSUME NEW S, IsFiniteSet(S), NEW F, \A x \in S : F[x] \in Int,
         NEW g, Summed(g, S, F)
  PROVE  \A s \in SUBSET S : g[s] \in Int
<1> DEFINE T == {s \in SUBSET S : g[s] \in Int}
<1>1. ASSUME NEW s \in SUBSET S, \A x \in s : s \ {x} \in T PROVE s \in T
  <2>1. CASE s = {}
    BY <2>1 DEF Summed
  <2>2. CASE s # {}
    <3> DEFINE c == CHOOSE x \in s : TRUE
    <3>1. c \in s
      BY <2>2
    <3>2. g[s] = F[c] + g[s \ {c}]
      BY <2>2, Zenon DEF Summed
    <3> HIDE DEF c
    <3>3. g[s \ {c}] \in Int /\ F[c] \in Int
      BY <1>1, <3>1
    <3>4. QED
      BY <3>2, <3>3
  <2>3. QED
    BY <2>1, <2>2
<1> HIDE DEF T
<1>2. SUBSET S \subseteq T
  BY <1>1, SubsetsReached, Zenon
<1>3. QED
  BY <1>2 DEF T

LEMMA ImageFinite ==
  ASSUME NEW S, IsFiniteSet(S), NEW f
  PROVE  IsFiniteSet({f[x] : x \in S})
<1> DEFINE T == {f[x] : x \in S}
           g == [x \in S |-> f[x]]
<1>1. g \in Surjection(S, T)
  BY DEF Surjection
<1> HIDE DEF T, g
<1>2. IsFiniteSet(T)
  BY <1>1, FS_Surjection, Zenon
<1>3. QED
  BY <1>2 DEF T

\* Any element may be taken out first.
SplitsOff(g, S, F) ==
  \A s \in SUBSET S : \A x \in s : g[s] = F[x] + g[s \ {x}]

LEMMA SumSplit ==
  ASSUME NEW S, IsFiniteSet(S), NEW F, \A x \in S : F[x] \in Int,
         NEW g, Summed(g, S, F)
  PROVE  SplitsOff(g, S, F)
<1> DEFINE T == {s \in SUBSET S : \A x \in s : g[s] = F[x] + g[s \ {x}]}
<1>1. \A s \in SUBSET S : g[s] \in Int
  BY SumType, Zenon
<1>2. ASSUME NEW s \in SUBSET S, \A x \in s : s \ {x} \in T PROVE s \in T
  <2>1. ASSUME NEW x \in s PROVE g[s] = F[x] + g[s \ {x}]
    <3> DEFINE c == CHOOSE y \in s : TRUE
    <3>1. c \in s
      BY <2>1
    <3>2. g[s] = F[c] + g[s \ {c}]
      BY <2>1, Zenon DEF Summed
    <3> HIDE DEF c
    <3>3. CASE x = c
      BY <3>2, <3>3
    <3>4. CASE x # c
      <4> DEFINE r == (s \ {c}) \ {x}
      <4>1. g[s \ {c}] = F[x] + g[(s \ {c}) \ {x}]
        BY <1>2, <3>1, <3>4, <2>1, Zenon
      <4>2. g[s \ {x}] = F[c] + g[(s \ {x}) \ {c}]
        BY <1>2, <3>1, <3>4, <2>1, Zenon
      <4>3. (s \ {x}) \ {c} = r
        OBVIOUS
      <4>4. F[x] \in Int /\ F[c] \in Int /\ g[r] \in Int
        BY <1>1, <3>1
      <4>5. g[s \ {c}] = F[x] + g[r] /\ g[s \ {x}] = F[c] + g[r]
        BY <4>1, <4>2, <4>3, Zenon
      <4> HIDE DEF r
      <4>6. QED
        BY <3>2, <4>4, <4>5
    <3>5. QED
      BY <3>3, <3>4
  <2>2. QED
    BY <2>1
<1> HIDE DEF T
<1>3. SUBSET S \subseteq T
  BY <1>2, SubsetsReached, Zenon
<1>4. QED
  BY <1>3, Zenon DEF T, SplitsOff

-----------------------------------------------------------------------------
\* Powers of two, as numbers of subsets

LEMMA PowerType ==
  ASSUME NEW n \in Nat
  PROVE  2 ^ n \in Nat
<1>1. IsFiniteSet(1 .. n) /\ Cardinality(1 .. n) = n
  BY FS_Interval
<1>2. IsFiniteSet(SUBSET (1 .. n)) /\ Cardinality(SUBSET (1 .. n)) = 2 ^ n
  BY <1>1, FS_SUBSET, Zenon
<1>3. QED
  BY <1>2, FS_CardinalityType

LEMMA PowerDoubles ==
  ASSUME NEW n \in Nat
  PROVE  2 ^ (n + 1) = 2 ^ n + 2 ^ n
<1> DEFINE A == SUBSET (1 .. n)
           B == {s \cup {n + 1} : s \in A}
           f == [s \in A |-> s \cup {n + 1}]
<1>1. IsFiniteSet(1 .. n) /\ Cardinality(1 .. n) = n
      /\ IsFiniteSet(1 .. (n + 1)) /\ Cardinality(1 .. (n + 1)) = n + 1
  BY FS_Interval
<1>2. IsFiniteSet(A) /\ Cardinality(A) = 2 ^ n
  BY <1>1, FS_SUBSET, Zenon
<1>3. Cardinality(SUBSET (1 .. (n + 1))) = 2 ^ (n + 1)
  BY <1>1, FS_SUBSET, Zenon
<1>4. n + 1 \notin 1 .. n /\ 1 .. (n + 1) = (1 .. n) \cup {n + 1}
  OBVIOUS
<1>5. f \in Bijection(A, B)
  <2>1. \A s, t \in A : s \cup {n + 1} = t \cup {n + 1} => s = t
    BY <1>4
  <2>2. f \in [A -> B] /\ \A s \in A : f[s] = s \cup {n + 1}
    BY Zenon
  <2>3. \A t \in B : \E s \in A : f[s] = t
    BY Zenon
  <2> HIDE DEF A, B, f
  <2>4. \A s, t \in A : f[s] = f[t] => s = t
    BY <2>1, <2>2, Zenon
  <2>5. QED
    BY <2>2, <2>3, <2>4, Zenon DEF Bijection, Injection, Surjection, IsInjective
<1>6. A \cap B = {}
  BY <1>4
<1>7. A \cup B = SUBSET (1 .. (n + 1))
  <2>1. ASSUME NEW s \in SUBSET (1 .. (n + 1)), n + 1 \in s PROVE s \in B
    <3>1. s \ {n + 1} \in A /\ s = (s \ {n + 1}) \cup {n + 1}
      BY <1>4, <2>1
    <3>2. QED
      BY <3>1, Zenon
  <2>2. ASSUME NEW s \in SUBSET (1 .. (n + 1)), n + 1 \notin s PROVE s \in A
    BY <1>4, <2>2
  <2>3. A \cup B \subseteq SUBSET (1 .. (n + 1))
    BY <1>4, Zenon
  <2>4. QED
    BY <2>1, <2>2, <2>3, Zenon
<1> HIDE DEF A, B, f
<1>8. IsFiniteSet(B) /\ Cardinality(B) = Cardinality(A)
  BY <1>2, <1>5, FS_Bijection, Zenon DEF ExistsBijection
<1>9. Cardinality(A \cup B) = Cardinality(A) + Cardinality(B) - Cardinality({})
  BY <1>2, <1>6, <1>8, FS_Union
<1>10. 2 ^ n \in Nat
  BY PowerType
<1>11. 2 ^ (n + 1) = 2 ^ n + 2 ^ n - 0
  BY <1>2, <1>3, <1>7, <1>8, <1>9, FS_EmptySet, Zenon
<1>12. QED
  BY <1>10, <1>11

\* Summands that are bounded by different powers of two.
LEMMA SumOfPowers ==
  ASSUME NEW S, IsFiniteSet(S), NEW F, \A x \in S : F[x] \in Nat,
         NEW g, Summed(g, S, F), NEW r \in SUBSET S, NEW k, NEW m \in Nat,
         \A x \in r : k[x] \in 1 .. m /\ F[x] <= 2 ^ (k[x] - 1),
         \A x, y \in r : k[x] = k[y] => x = y
  PROVE  g[r] < 2 ^ m
<1> DEFINE Low(s, n) == \A x \in s : k[x] \in 1 .. n
           N == {n \in Nat : \A s \in SUBSET r : Low(s, n) => g[s] < 2 ^ n}
<1>1. \A x \in S : F[x] \in Int
  OBVIOUS
<1>2. \A s \in SUBSET S : g[s] \in Int
  BY <1>1, SumType, Zenon
<1>3. SplitsOff(g, S, F)
  BY <1>1, SumSplit, Zenon
<1>4. 0 \in N
  <2>1. ASSUME NEW s \in SUBSET r, Low(s, 0) PROVE g[s] < 2 ^ 0
    <3>1. s = {}
      BY <2>1
    <3>2. g[s] = 0
      BY <3>1 DEF Summed
    <3>3. QED
      BY <3>2
  <2>2. QED
    BY <2>1
<1>5. ASSUME NEW n \in Nat, n \in N PROVE n + 1 \in N
  <2>1. ASSUME NEW s \in SUBSET r, Low(s, n + 1) PROVE g[s] < 2 ^ (n + 1)
    <3>1. 2 ^ n \in Nat /\ 2 ^ (n + 1) = 2 ^ n + 2 ^ n
      BY PowerType, PowerDoubles
    <3>2. CASE Low(s, n)
      <4>1. g[s] < 2 ^ n
        BY <1>5, <3>2, Zenon
      <4>2. QED
        BY <1>2, <3>1, <4>1
    <3>3. CASE ~Low(s, n)
      <4>1. PICK x \in s : k[x] = n + 1
        BY <2>1, <3>3
      <4>2. Low(s \ {x}, n)
        BY <2>1, <4>1
      <4>3. g[s \ {x}] < 2 ^ n
        <5> HIDE DEF Low
        <5>1. QED
          BY <1>5, <4>2, Zenon
      <4>4. g[s] = F[x] + g[s \ {x}]
        BY <1>3, <4>1, Zenon DEF SplitsOff
      <4>5. F[x] \in Nat /\ F[x] <= 2 ^ n
        <5>1. k[x] - 1 = n /\ x \in r /\ x \in S
          BY <4>1
        <5>2. QED
          BY <5>1
      <4>6. g[s \ {x}] \in Int
        BY <1>2
      <4>7. QED
        BY <3>1, <4>3, <4>4, <4>5, <4>6
    <3>4. QED
      BY <3>2, <3>3
  <2>2. QED
    BY <2>1
<1> HIDE DEF N
<1>6. Nat \subseteq N
  BY <1>4, <1>5, NatsReached
<1>7. m \in N /\ Low(r, m)
  BY <1>6
<1>8. QED
  BY <1>7, Zenon DEF N

-----------------------------------------------------------------------------
\* Quotients

LEMMA Divided ==
  ASSUME NEW a \in Nat, NEW d \in Nat \ {0}
  PROVE  /\ a \div d \in Nat
         /\ (a \div d) * d <= a
         /\ a < (a \div d) * d + d
  OBVIOUS

LEMMA Scaled ==
  ASSUME NEW a \in Int, NEW b \in Int, NEW d \in Nat, a <= b
  PROVE  a * d <= b * d
  OBVIOUS

\* A quotient is at least what fits.
LEMMA QuotientAtLeast ==
  ASSUME NEW a \in Nat, NEW d \in Nat \ {0}, NEW q \in Nat, q * d <= a
  PROVE  q <= a \div d
<1>1. a \div d \in Nat /\ a < (a \div d) * d + d
  BY Divided
<1>2. SUFFICES ASSUME a \div d + 1 <= q PROVE FALSE
  BY <1>1
<1>3. (a \div d + 1) * d <= q * d
  BY <1>1, <1>2, Scaled
<1>4. (a \div d + 1) * d = (a \div d) * d + d
  BY <1>1
<1>5. (a \div d) * d \in Nat /\ q * d \in Nat
  BY <1>1
<1>6. QED
  BY <1>1, <1>3, <1>4, <1>5

-----------------------------------------------------------------------------
\* The page allocator

\* Pages that a call may hand out or has handed out.  Page 0 is freed but
\* never handed out.
Given == (clear \ {0}) \cup UNION owned

Aligned == \A r \in mmap : r.addr % PageSize = 0

PagesTypeInv ==
  /\ mmap \in MemoryMaps
  /\ IsFiniteSet(clear) /\ \A a \in owned : IsFiniteSet(a)
  /\ freePages \in Int
  /\ ready \in BOOLEAN

\* The inductive invariant.
PmmInv ==
  /\ PagesTypeInv
  /\ ~ready => owned = {}
  /\ OwnedOnce
  /\ \A a \in owned : 0 \notin a
  /\ ready => Given \cap BitmapPages = {}
  /\ ready /\ Aligned => \A p \in Given : p < 8 * BitmapBytes => p \in AvailablePages

-----------------------------------------------------------------------------
LEMMA MaxOfNats ==
  ASSUME NEW S \in SUBSET Nat, IsFiniteSet(S), S # {}
  PROVE  Max(S) \in S /\ \A y \in S : y <= Max(S)
<1> DEFINE T == {s \in SUBSET S : s = {} \/ \E m \in s : \A y \in s : m >= y}
<1>1. ASSUME NEW s \in SUBSET S, \A x \in s : s \ {x} \in T PROVE s \in T
  <2>1. CASE s = {}
    BY <2>1
  <2>2. CASE s # {}
    <3>1. PICK x \in s : TRUE
      BY <2>2, Zenon
    <3>2. s \ {x} = {} \/ \E m \in s \ {x} : \A y \in s \ {x} : m >= y
      BY <1>1
    <3>3. CASE s \ {x} = {}
      <4>1. \A y \in s : x >= y
        BY <3>3
      <4>2. QED
        BY <4>1
    <3>4. CASE \E m \in s \ {x} : \A y \in s \ {x} : m >= y
      <4>1. PICK m \in s \ {x} : \A y \in s \ {x} : m >= y
        BY <3>4
      <4>2. CASE m >= x
        <5>1. \A y \in s : m >= y
          BY <4>1, <4>2
        <5>2. QED
          BY <5>1
      <4>3. CASE ~(m >= x)
        <5>1. \A y \in s : x >= y
          BY <4>1, <4>3
        <5>2. QED
          BY <5>1
      <4>4. QED
        BY <4>2, <4>3
    <3>5. QED
      BY <3>2, <3>3, <3>4
  <2>3. QED
    BY <2>1, <2>2
<1> HIDE DEF T
<1>2. SUBSET S \subseteq T
  BY <1>1, SubsetsReached, Zenon
<1>3. \E m \in S : \A y \in S : m >= y
  BY <1>2, Zenon DEF T
<1>4. Max(S) \in S /\ \A y \in S : Max(S) >= y
  BY <1>3, Zenon DEF Max
<1>5. QED
  BY <1>4

-----------------------------------------------------------------------------
\* Sizes of the bitmap

LEMMA Regions ==
  ASSUME mmap \in MemoryMaps
  PROVE  /\ IsFiniteSet(mmap) /\ IsFiniteSet(Available) /\ IsFiniteSet(Used)
         /\ \A r \in mmap : r.addr \in Nat /\ r.len \in Nat
<1>1. IsFiniteSet(mmap) /\ mmap \subseteq [addr : Nat, len : Nat, avail : BOOLEAN]
  BY MemoryMapsAssumption, Zenon
<1>2. Available \in SUBSET mmap /\ Used \in SUBSET mmap
  BY Zenon DEF Available, Used
<1>3. IsFiniteSet(Available) /\ IsFiniteSet(Used)
  BY <1>1, <1>2, FS_Subset, Zenon
<1>4. \A r \in mmap : r.addr \in Nat /\ r.len \in Nat
  BY <1>1
<1>5. QED
  BY <1>1, <1>3, <1>4

LEMMA BitmapSizes ==
  ASSUME mmap \in MemoryMaps
  PROVE  /\ MemTop \in Nat /\ BitmapLen \in Nat /\ BitmapBytes \in Nat
         /\ BitmapCount \in Nat /\ 8 * BitmapBytes <= BitmapLen
<1> DEFINE f == [r \in Available |-> r.addr + r.len]
           S == {r.addr + r.len : r \in Available}
<1>1. S = {f[r] : r \in Available}
  BY Zenon
<1>2. IsFiniteSet(S)
  <2> HIDE DEF f, S
  <2>1. IsFiniteSet({f[r] : r \in Available})
    BY Regions, ImageFinite, Zenon
  <2>2. QED
    BY <1>1, <2>1
<1>3. S \cup {0} \in SUBSET Nat
  <2>1. \A r \in Available : r.addr + r.len \in Nat
    BY Regions DEF Available
  <2>2. QED
    BY <2>1
<1> HIDE DEF S
<1>4. IsFiniteSet(S \cup {0})
  BY <1>2, FS_AddElement, Zenon
<1>5. MemTop \in Nat
  <2>1. Max(S \cup {0}) \in S \cup {0}
    BY <1>3, <1>4, MaxOfNats, Zenon
  <2>2. MemTop = Max(S \cup {0})
    BY Zenon DEF MemTop, S
  <2>3. QED
    BY <1>3, <2>1, <2>2, Zenon
<1>6. BitmapLen \in Nat
  BY <1>5, PageSizeAssumption, Divided DEF BitmapLen
<1>7. BitmapBytes \in Nat /\ 8 * BitmapBytes <= BitmapLen
  BY <1>6 DEF BitmapBytes
<1>8. BitmapCount \in Nat
  BY <1>7, PageSizeAssumption, Divided DEF BitmapCount
<1>9. QED
  BY <1>5, <1>6, <1>7, <1>8

-----------------------------------------------------------------------------
\* What pmm_init frees

LEMMA RoundedDown ==
  ASSUME NEW x \in Nat
  PROVE  RoundDown(x, PageSize) \in Nat /\ RoundDown(x, PageSize) <= x
  BY Divided, PageSizeAssumption DEF RoundDown

LEMMA RoundedUp ==
  ASSUME NEW x \in Nat
  PROVE  /\ RoundUp(x, PageSize) \in Nat
         /\ x % PageSize = 0 => RoundUp(x, PageSize) = x
<1> DEFINE q == (x + PageSize - 1) \div PageSize
<1>1. PageSize \in Nat \ {0} /\ x + PageSize - 1 \in Nat
  BY PageSizeAssumption
<1>2. q \in Nat /\ q * PageSize \in Nat
  BY <1>1, Divided
<1>3. ASSUME x % PageSize = 0 PROVE q * PageSize = x
  <2>1. x = (x \div PageSize) * PageSize /\ x \div PageSize \in Nat
    BY <1>1, <1>3
  <2> DEFINE p == x \div PageSize
  <2> HIDE DEF p
  <2>2. x = p * PageSize /\ p \in Nat
    BY <2>1 DEF p
  <2>3. q * PageSize <= x + PageSize - 1 /\ x + PageSize - 1 < q * PageSize + PageSize
    BY <1>1, Divided
  <2>4. p <= q
    BY <1>1, <2>2, QuotientAtLeast
  <2>5. q <= p
    <3>1. SUFFICES ASSUME p + 1 <= q PROVE FALSE
      BY <1>2, <2>2
    <3>2. (p + 1) * PageSize <= q * PageSize
      BY <1>1, <1>2, <2>2, <3>1, Scaled
    <3>3. (p + 1) * PageSize = p * PageSize + PageSize
      BY <1>1, <2>2
    <3> HIDE DEF q
    <3>4. QED
      BY <1>1, <1>2, <2>2, <2>3, <3>2, <3>3
  <2>6. q = p
    BY <1>2, <2>2, <2>4, <2>5
  <2>7. QED
    BY <2>2, <2>6
<1>4. QED
  BY <1>2, <1>3 DEF RoundUp

\* What is left of a region that is not skipped.
LEMMA UsablePart ==
  ASSUME mmap \in MemoryMaps, NEW r \in Used
  PROVE  /\ Usable(r).start \in Nat /\ Usable(r).len \in Nat
         /\ Usable(r).start >= Base
         /\ r.addr % PageSize = 0 =>
              /\ Usable(r).start \in {r.addr, Base} /\ r.addr <= Usable(r).start
              /\ Usable(r).start + Usable(r).len <= r.addr + r.len
<1> DEFINE a == RoundUp(r.addr, PageSize)
           l == RoundDown(r.len, PageSize)
<1>1. r.addr \in Nat /\ r.len \in Nat /\ a + l >= Base
  BY Regions DEF Used, Available
<1>2. a \in Nat /\ l \in Nat /\ l <= r.len /\ (r.addr % PageSize = 0 => a = r.addr)
  BY <1>1, RoundedUp, RoundedDown
<1>3. Base \in Nat
  BY PageSizeAssumption, BasePageAssumption DEF Base
<1>4. Usable(r) = IF a < Base THEN [start |-> Base, len |-> l - (Base - a)]
                              ELSE [start |-> a, len |-> l]
  BY Zenon DEF Usable
<1> HIDE DEF a, l
<1>5. CASE a < Base
  BY <1>1, <1>2, <1>3, <1>4, <1>5
<1>6. CASE ~(a < Base)
  BY <1>1, <1>2, <1>3, <1>4, <1>6
<1>7. QED
  BY <1>5, <1>6

\* Cutting the bitmap off the front.
LEMMA BehindPart ==
  ASSUME mmap \in MemoryMaps, NEW u, u.start \in Nat, u.len \in Nat, u.start >= Base
  PROVE  /\ Behind(u).start \in Nat /\ Behind(u).len \in Nat
         /\ u.start <= Behind(u).start
         /\ Behind(u).start + Behind(u).len = u.start + u.len
<1>1. Base \in Nat /\ BitmapBytes \in Nat
  BY BitmapSizes, PageSizeAssumption, BasePageAssumption DEF Base
<1>2. CASE Base >= u.start /\ Base + BitmapBytes <= u.start + u.len
  <2>1. Behind(u) = [start |-> Base + BitmapBytes, len |-> u.len - BitmapBytes]
    BY <1>2, Zenon DEF Behind
  <2>2. QED
    BY <1>1, <1>2, <2>1
<1>3. CASE ~(Base >= u.start /\ Base + BitmapBytes <= u.start + u.len)
  <2>1. Behind(u) = u
    BY <1>3, Zenon DEF Behind
  <2>2. QED
    BY <2>1
<1>4. QED
  BY <1>2, <1>3

LEMMA FreedNumbers ==
  ASSUME mmap \in MemoryMaps, NEW r \in Used
  PROVE  FirstFreed(r) \in Nat /\ CountFreed(r) \in Nat
<1>1. /\ Usable(r).start \in Nat /\ Usable(r).len \in Nat
      /\ Usable(r).start >= Base
  BY UsablePart
<1>2. Behind(Usable(r)).start \in Nat /\ Behind(Usable(r)).len \in Nat
  BY <1>1, BehindPart
<1>3. QED
  BY <1>2, Divided, PageSizeAssumption DEF FirstFreed, CountFreed

\* pmm_init frees whole pages of the region, from the base on, although the
\* first of them may be the one in which the bitmap ends.
LEMMA FreedInside ==
  ASSUME mmap \in MemoryMaps, NEW r \in Used, r.addr % PageSize = 0,
         NEW p \in Freed(r)
  PROVE  /\ p \in Nat /\ BasePage <= p
         /\ r.addr <= p * PageSize
         /\ (p + 1) * PageSize <= r.addr + r.len
<1> DEFINE u == Usable(r)
           w == Behind(u)
           i == FirstFreed(r)
           n == CountFreed(r)
<1>1. /\ u.start \in Nat /\ u.len \in Nat /\ u.start >= Base
      /\ u.start \in {r.addr, Base} /\ r.addr <= u.start
      /\ u.start + u.len <= r.addr + r.len
  BY UsablePart
<1>2. /\ w.start \in Nat /\ w.len \in Nat /\ u.start <= w.start
      /\ w.start + w.len = u.start + u.len
  BY <1>1, BehindPart
<1>3. PageSize \in Nat \ {0} /\ BasePage \in Nat
  BY PageSizeAssumption, BasePageAssumption
<1>4. r.addr \in Nat /\ r.len \in Nat
  BY Regions DEF Used, Available
<1>5. /\ i \in Nat /\ i * PageSize <= w.start
      /\ n \in Nat /\ n * PageSize <= w.len
  BY <1>2, <1>3, Divided DEF FirstFreed, CountFreed
<1>6. \E q \in Nat : u.start = q * PageSize
  <2>1. r.addr = (r.addr \div PageSize) * PageSize /\ r.addr \div PageSize \in Nat
    BY <1>3, <1>4
  <2>2. CASE u.start = r.addr
    BY <2>1, <2>2, Zenon
  <2>3. CASE u.start = Base
    BY <1>3, <2>3, Zenon DEF Base
  <2>4. QED
    BY <1>1, <2>2, <2>3
<1>7. PICK q \in Nat : u.start = q * PageSize
  BY <1>6
<1>8. p \in i .. i + n - 1
  BY DEF Freed
<1> HIDE DEF u, w
<1>9. q <= i
  BY <1>2, <1>3, <1>7, QuotientAtLeast DEF FirstFreed, u, w
<1>10. BasePage <= i
  <2>1. BasePage * PageSize <= w.start
    BY <1>1, <1>2, <1>3 DEF Base
  <2>2. QED
    BY <1>2, <1>3, <2>1, QuotientAtLeast DEF FirstFreed, u, w
<1> HIDE DEF i, n
<1>11. p \in Nat /\ i <= p /\ q <= p /\ p + 1 <= i + n
  BY <1>5, <1>8, <1>9
<1>12. q * PageSize <= p * PageSize /\ (p + 1) * PageSize <= (i + n) * PageSize
  BY <1>3, <1>5, <1>11, Scaled
<1>13. (i + n) * PageSize = i * PageSize + n * PageSize
  BY <1>3, <1>5
<1>14. /\ i * PageSize \in Nat /\ n * PageSize \in Nat
       /\ p * PageSize \in Nat /\ (p + 1) * PageSize \in Nat
  BY <1>3, <1>5, <1>11
<1>15. r.addr <= p * PageSize
  BY <1>1, <1>4, <1>7, <1>12, <1>14
<1>16. (p + 1) * PageSize <= r.addr + r.len
  BY <1>1, <1>2, <1>4, <1>5, <1>12, <1>13, <1>14
<1>17. BasePage <= p
  BY <1>3, <1>5, <1>10, <1>11
<1>18. QED
  BY <1>11, <1>15, <1>16, <1>17

-----------------------------------------------------------------------------
\* The steps

\* A run that pmm_alloc or pmm_init finds is made of clear pages.
LEMMA RunFound ==
  ASSUME mmap \in MemoryMaps, NEW bits, NEW count \in Nat, Runs(bits, count) # {}
  PROVE  /\ Min(Runs(bits, count)) \in Nat
         /\ Min(Runs(bits, count)) .. Min(Runs(bits, count)) + count - 1 \subseteq bits
         /\ 0 \notin Min(Runs(bits, count)) .. Min(Runs(bits, count)) + count - 1
<1>1. Runs(bits, count) \in SUBSET Nat
  BY BitmapSizes, BasePageAssumption DEF Runs
<1>2. Min(Runs(bits, count)) \in Runs(bits, count)
  BY <1>1, MinOfNats, Zenon
<1>3. Min(Runs(bits, count)) .. Min(Runs(bits, count)) + count - 1 \subseteq bits
  BY <1>2, Zenon DEF Runs
<1>4. Min(Runs(bits, count)) \in BasePage .. BitmapLen - 1
  BY <1>2, Zenon DEF Runs
<1> DEFINE i == Min(Runs(bits, count))
<1> HIDE DEF i
<1>5. i \in Nat \ {0}
  BY <1>4, BitmapSizes, BasePageAssumption DEF i
<1>6. 0 \notin i .. i + count - 1
  BY <1>5
<1>7. QED
  BY <1>3, <1>5, <1>6 DEF i

\* Terms over mmap keep their values.
LEMMA SameMap ==
  ASSUME mmap' = mmap
  PROVE  /\ BitmapPages' = BitmapPages /\ BitmapBytes' = BitmapBytes
         /\ AvailablePages' = AvailablePages /\ (Aligned' <=> Aligned)
<1>1. Available' = Available
  BY DEF Available
<1>2. MemTop' = MemTop
  BY <1>1 DEF MemTop
<1>3. BitmapLen' = BitmapLen
  BY <1>2 DEF BitmapLen
<1>4. BitmapBytes' = BitmapBytes
  BY <1>3 DEF BitmapBytes
<1>5. BitmapPages' = BitmapPages
  BY <1>4 DEF BitmapPages, BitmapCount
<1>6. AvailablePages' = AvailablePages
  BY <1>1, <1>3 DEF AvailablePages
<1>7. Aligned' <=> Aligned
  BY DEF Aligned
<1>8. QED
  BY <1>4, <1>5, <1>6, <1>7

LEMMA InitPmmInv == Init => PmmInv
<1> SUFFICES ASSUME Init PROVE PmmInv
  OBVIOUS
<1>1. mmap \in MemoryMaps
  BY DEF Init
<1>2. IsFiniteSet(Garbage(MaxCount))
  <2>1. 8 * BitmapBytes \in Int /\ BitmapLen + MaxCount - 2 \in Int
    BY <1>1, BitmapSizes, MaxCountAssumption
  <2>2. QED
    BY <2>1, FS_Interval, Zenon DEF Garbage
<1>3. IsFiniteSet(clear)
  BY <1>2, FS_Subset, Zenon DEF Init
<1>4. PagesTypeInv
  <2>1. freePages \in Int
    BY DEF Init
  <2>2. QED
    BY <1>1, <1>3, <2>1, Zenon DEF Init, PagesTypeInv
<1>5. QED
  BY <1>4 DEF PmmInv, Init, OwnedOnce

\* What is clear when pmm_init returns.
LEMMA InitStep == PmmInv /\ pmm_init => PmmInv'
<1> SUFFICES ASSUME PmmInv, pmm_init PROVE PmmInv'
  OBVIOUS
<1> DEFINE freed == UNION {Freed(r) : r \in Used}
           bits == Marked((clear \cap Garbage(MaxCount)) \cup freed)
           total == MapThenSumSet(CountFreed, Used)
<1>1. mmap \in MemoryMaps /\ owned = {} /\ IsFiniteSet(clear)
  BY DEF PmmInv, PagesTypeInv, pmm_init
<1>2. mmap' = mmap /\ owned' = owned /\ ready' = TRUE /\ clear' \subseteq bits
  BY Zenon DEF pmm_init
<1>3. IsFiniteSet(freed)
  <2> DEFINE f == [r \in Used |-> Freed(r)]
  <2>1. {Freed(r) : r \in Used} = {f[r] : r \in Used}
    BY Zenon
  <2>2. IsFiniteSet({f[r] : r \in Used})
    <3> HIDE DEF f
    <3>1. QED
      BY <1>1, Regions, ImageFinite, Zenon
  <2>3. ASSUME NEW r \in Used PROVE IsFiniteSet(Freed(r))
    <3>1. FirstFreed(r) \in Int /\ FirstFreed(r) + CountFreed(r) - 1 \in Int
      BY <1>1, FreedNumbers
    <3>2. QED
      BY <3>1, FS_Interval, Zenon DEF Freed
  <2> DEFINE G == {Freed(r) : r \in Used}
  <2>4. \A g \in G : IsFiniteSet(g)
    BY <2>3, Zenon
  <2>5. IsFiniteSet(G)
    BY <2>1, <2>2, Zenon
  <2> HIDE DEF G
  <2>6. IsFiniteSet(UNION G)
    BY <2>4, <2>5, FS_UNION, Zenon
  <2>7. QED
    BY <2>6, Zenon DEF G
<1>4. IsFiniteSet(clear')
  <2> DEFINE old == clear \cap Garbage(MaxCount)
  <2> HIDE DEF freed
  <2>1. IsFiniteSet(old)
    BY <1>1, FS_Intersection, Zenon
  <2> HIDE DEF old
  <2>2. IsFiniteSet(old \cup freed)
    BY <1>3, <2>1, FS_Union, Zenon
  <2>3. clear' \in SUBSET (old \cup freed)
    BY <1>2, Zenon DEF Marked, old
  <2>4. QED
    BY <2>2, <2>3, FS_Subset, Zenon
<1>5. total \in Int
  <2> DEFINE F == [r \in Used |-> CountFreed(r)]
  <2>1. \A r \in Used : F[r] = CountFreed(r) /\ F[r] \in Int
    BY <1>1, FreedNumbers
  <2>2. IsFiniteSet(Used)
    BY <1>1, Regions, Zenon
  <2> HIDE DEF F
  <2>3. PICK g : Summed(g, Used, F)
    BY <2>2, SumExists, Zenon
  <2> DEFINE c(s) == CHOOSE x \in s : TRUE
             Rec(h) == h = [s \in SUBSET Used |->
               IF s = {} THEN 0 ELSE CountFreed(c(s)) + h[s \ {c(s)}]]
  <2>4. \A h : Rec(h) <=> Summed(h, Used, F)
    <3>1. \A s \in SUBSET Used : s # {} => c(s) \in Used
      BY Zenon
    <3> HIDE DEF c
    <3>2. \A s \in SUBSET Used : s # {} => F[c(s)] = CountFreed(c(s))
      BY <2>1, <3>1, Zenon
    <3>3. ASSUME NEW h
          PROVE  [s \in SUBSET Used |-> IF s = {} THEN 0 ELSE F[c(s)] + h[s \ {c(s)}]]
                 = [s \in SUBSET Used |->
                      IF s = {} THEN 0 ELSE CountFreed(c(s)) + h[s \ {c(s)}]]
      BY <3>2
    <3>4. ASSUME NEW h
          PROVE  Summed(h, Used, F) <=>
                 h = [s \in SUBSET Used |-> IF s = {} THEN 0 ELSE F[c(s)] + h[s \ {c(s)}]]
      BY Zenon DEF Summed, c
    <3>5. QED
      BY <3>3, <3>4, Zenon
  <2>5. \E h : Rec(h) /\ total = h[Used]
    <3>1. Rec(g)
      BY <2>3, <2>4, Zenon
    <3>2. QED
      BY <3>1, Zenon DEF MapThenSumSet, MapThenFoldSet
  <2> HIDE DEF Rec, total
  <2>6. QED
    BY <2>1, <2>2, <2>4, <2>5, SumType, Zenon
<1>6. freePages' \in Int
  BY <1>1, <1>5, BitmapSizes DEF pmm_init
<1>7. PagesTypeInv'
  BY <1>1, <1>2, <1>4, <1>6, Zenon DEF PagesTypeInv
<1>8. clear' \cap BitmapPages = {}
  BY <1>2, Zenon DEF Marked
<1>9. ASSUME Aligned, NEW p \in clear', p < 8 * BitmapBytes
      PROVE  p \in AvailablePages
  <2>1. p \in Garbage(MaxCount) \/ \E r \in Used : p \in Freed(r)
    BY <1>2, Zenon DEF Marked
  <2>2. CASE p \in Garbage(MaxCount)
    BY <1>1, <1>9, <2>2, BitmapSizes, MaxCountAssumption DEF Garbage
  <2>3. CASE \E r \in Used : p \in Freed(r)
    <3>1. PICK r \in Used : p \in Freed(r)
      BY <2>3
    <3>2. r \in Available /\ r \in mmap
      BY DEF Used, Available
    <3>3. /\ p \in Nat /\ BasePage <= p
          /\ r.addr <= p * PageSize
          /\ (p + 1) * PageSize <= r.addr + r.len
      BY <1>1, <1>9, <3>1, <3>2, FreedInside DEF Aligned
    <3>4. p \in BasePage .. BitmapLen - 1
      BY <1>1, <1>9, <3>3, BitmapSizes, BasePageAssumption
    <3>5. QED
      BY <3>2, <3>3, <3>4, Zenon DEF AvailablePages
  <2>4. QED
    BY <2>1, <2>2, <2>3
<1>10. Given' \subseteq clear'
  BY <1>1, <1>2 DEF Given
<1>11. OwnedOnce'
  BY <1>1, <1>2 DEF OwnedOnce
<1> HIDE DEF freed, bits, total
<1>12. QED
  BY <1>1, <1>2, <1>7, <1>8, <1>9, <1>10, <1>11, SameMap DEF PmmInv

LEMMA AllocStep ==
  ASSUME PmmInv, NEW count \in 1 .. MaxCount, pmm_alloc(count)
  PROVE  PmmInv' /\ Cardinality(clear') = Cardinality(clear) - count
<1> DEFINE i == Min(Runs(clear, count))
           run == i .. i + count - 1
<1>1. /\ mmap \in MemoryMaps /\ ready /\ mmap' = mmap /\ ready' = ready
      /\ Runs(clear, count) # {}
      /\ clear' = clear \ run /\ owned' = owned \cup {run}
  BY DEF PmmInv, PagesTypeInv, pmm_alloc
<1>2. count \in Nat
  BY MaxCountAssumption
<1>3. i \in Nat /\ run \subseteq clear /\ 0 \notin run
  BY <1>1, <1>2, RunFound, Zenon
<1>4. IsFiniteSet(run) /\ Cardinality(run) = count
  <2> HIDE DEF i
  <2>1. i \in Int /\ i + count - 1 \in Int /\ ~(i > i + count - 1)
    BY <1>2, <1>3, MaxCountAssumption
  <2>2. (i + count - 1) - i + 1 = count
    BY <1>2, <1>3
  <2>3. QED
    BY <2>1, <2>2, FS_Interval
<1>5. freePages' \in Int
  BY <1>2 DEF PmmInv, PagesTypeInv, pmm_alloc
<1> HIDE DEF run
<1>6. /\ IsFiniteSet(clear) /\ (\A a \in owned : IsFiniteSet(a))
      /\ OwnedOnce /\ (\A a \in owned : 0 \notin a) /\ Given \cap BitmapPages = {}
      /\ Aligned => \A p \in Given : p < 8 * BitmapBytes => p \in AvailablePages
  BY <1>1, Zenon DEF PmmInv, PagesTypeInv
<1>7. IsFiniteSet(clear') /\ Cardinality(clear') = Cardinality(clear) - count
  <2>1. clear \cap run = run
    BY <1>3, Zenon
  <2>2. QED
    BY <1>1, <1>4, <1>6, <2>1, FS_Difference, Zenon
<1>8. PagesTypeInv'
  BY <1>1, <1>4, <1>5, <1>6, <1>7, Zenon DEF PagesTypeInv, PmmInv
<1>9. Given' \subseteq Given
  BY <1>1, <1>3, Zenon DEF Given
<1>10. OwnedOnce'
  <2>1. \A a \in owned : a \cap run = {} /\ a \cap clear = {}
    BY <1>3, <1>6, Zenon DEF OwnedOnce
  <2>2. \A a \in owned' : a \cap clear' = {}
    BY <1>1, <2>1, Zenon
  <2>3. \A a, b \in owned' : a # b => a \cap b = {}
    <3>1. \A a, b \in owned : a # b => a \cap b = {}
      BY <1>6, Zenon DEF OwnedOnce
    <3>2. QED
      BY <1>1, <2>1, <3>1
  <2>4. QED
    BY <2>2, <2>3, Zenon DEF OwnedOnce
<1>11. \A a \in owned' : 0 \notin a
  BY <1>1, <1>3, <1>6, Zenon
<1>12. PmmInv'
  BY <1>1, <1>6, <1>8, <1>9, <1>10, <1>11, SameMap, Zenon DEF PmmInv
<1>13. QED
  BY <1>7, <1>12

LEMMA FreeStep ==
  ASSUME PmmInv, NEW run \in owned, pmm_free(run)
  PROVE  PmmInv' /\ Cardinality(clear') = Cardinality(clear) + Cardinality(run)
<1>1. /\ mmap \in MemoryMaps /\ ready /\ mmap' = mmap /\ ready' = ready
      /\ clear' = clear \cup run /\ owned' = owned \ {run}
  BY DEF PmmInv, PagesTypeInv, pmm_free
<1>2. /\ IsFiniteSet(clear) /\ (\A a \in owned : IsFiniteSet(a))
      /\ OwnedOnce /\ (\A a \in owned : 0 \notin a) /\ Given \cap BitmapPages = {}
      /\ Aligned => \A p \in Given : p < 8 * BitmapBytes => p \in AvailablePages
  BY <1>1, Zenon DEF PmmInv, PagesTypeInv
<1>3. Cardinality(run) \in Nat /\ Cardinality(clear) \in Nat
  BY <1>2, FS_CardinalityType
<1>4. IsFiniteSet(clear') /\ Cardinality(clear') = Cardinality(clear) + Cardinality(run)
  <2>1. clear \cap run = {}
    BY <1>2, Zenon DEF OwnedOnce
  <2>2. Cardinality(clear \cap run) = 0
    BY <2>1, FS_EmptySet, Zenon
  <2>3. /\ IsFiniteSet(clear \cup run)
        /\ Cardinality(clear \cup run) =
             Cardinality(clear) + Cardinality(run) - Cardinality(clear \cap run)
    BY <1>2, FS_Union, Zenon
  <2>4. QED
    BY <1>1, <1>3, <2>2, <2>3
<1>5. freePages' \in Int
  BY <1>3 DEF PmmInv, PagesTypeInv, pmm_free
<1>6. PagesTypeInv'
  BY <1>1, <1>2, <1>4, <1>5, Zenon DEF PagesTypeInv, PmmInv
<1>7. Given' \subseteq Given
  BY <1>1, Zenon DEF Given
<1>8. OwnedOnce'
  BY <1>1, <1>2, Zenon DEF OwnedOnce
<1>9. PmmInv'
  BY <1>1, <1>2, <1>6, <1>7, <1>8, SameMap, Zenon DEF PmmInv
<1>10. QED
  BY <1>4, <1>9

\* A free of page 0, which nobody was given.
LEMMA FreeNullStep ==
  ASSUME PmmInv, pmm_free({0})
  PROVE  /\ PmmInv'
         /\ clear' = clear \cup {0} /\ owned' = owned /\ freePages' = freePages + 1
<1>1. /\ mmap \in MemoryMaps /\ ready /\ mmap' = mmap /\ ready' = ready
      /\ clear' = clear \cup {0} /\ owned' = owned \ {{0}}
      /\ freePages' = freePages + Cardinality({0})
  BY DEF PmmInv, PagesTypeInv, pmm_free
<1>2. /\ IsFiniteSet(clear) /\ (\A a \in owned : IsFiniteSet(a))
      /\ OwnedOnce /\ (\A a \in owned : 0 \notin a) /\ Given \cap BitmapPages = {}
      /\ Aligned => \A p \in Given : p < 8 * BitmapBytes => p \in AvailablePages
      /\ freePages \in Int
  BY <1>1, Zenon DEF PmmInv, PagesTypeInv
<1>3. owned' = owned
  <2>1. {0} \notin owned
    BY <1>2
  <2>2. QED
    BY <1>1, <2>1, Zenon
<1>4. freePages' = freePages + 1
  <2>1. Cardinality({0}) = 1
    BY FS_Singleton, Zenon
  <2>2. QED
    BY <1>1, <2>1
<1>5. IsFiniteSet(clear')
  BY <1>1, <1>2, FS_AddElement, Zenon
<1>6. PagesTypeInv'
  <2>1. freePages' \in Int
    BY <1>2, <1>4
  <2>2. QED
    BY <1>1, <1>2, <1>3, <1>5, <2>1, Zenon DEF PagesTypeInv, PmmInv
<1>7. Given' = Given
  BY <1>1, <1>3 DEF Given
<1>8. OwnedOnce'
  <2>1. \A a \in owned : a \cap clear' = {}
    BY <1>1, <1>2 DEF OwnedOnce
  <2>2. QED
    BY <1>2, <1>3, <2>1, Zenon DEF OwnedOnce
<1>9. PmmInv'
  BY <1>1, <1>2, <1>3, <1>6, <1>7, <1>8, SameMap, Zenon DEF PmmInv
<1>10. QED
  BY <1>1, <1>3, <1>4, <1>9

LEMMA StutterStep == PmmInv /\ UNCHANGED vars => PmmInv'
<1> SUFFICES ASSUME PmmInv, UNCHANGED vars PROVE PmmInv'
  OBVIOUS
<1>1. UNCHANGED <<mmap, clear, freePages, totalPages, owned, ready>>
  BY DEF vars
<1>2. PagesTypeInv' /\ OwnedOnce' /\ Given' = Given /\ owned' = owned
  BY <1>1 DEF PmmInv, PagesTypeInv, OwnedOnce, Given
<1>3. QED
  BY <1>1, <1>2, SameMap, Zenon DEF PmmInv

-----------------------------------------------------------------------------

\* PmmInv holds in every state of the allocator.
THEOREM SpecPmmInv == Spec => []PmmInv
<1>1. PmmInv /\ [Next]_vars => PmmInv'
  BY InitStep, AllocStep, FreeStep, FreeNullStep, StutterStep, Zenon DEF Next
<1>2. QED
  BY <1>1, InitPmmInv, PTL DEF Spec

\* No page has two owners, and no owned page is clear in the bitmap.
THEOREM SpecOwnedOnce == Spec => []OwnedOnce
<1>1. PmmInv => OwnedOnce
  BY DEF PmmInv
<1>2. QED
  BY <1>1, SpecPmmInv, PTL

\* The bitmap's pages are never handed out; other pages that are, as far as
\* the bitmap was initialised, lie in an available region.
THEOREM SpecHandsOutMemory == Spec => []HandsOutMemory
<1>1. ASSUME PmmInv PROVE HandsOutMemory
  <2>1. \A a \in owned : a \subseteq Given /\ ready
    BY <1>1, Zenon DEF PmmInv, Given, PagesTypeInv
  <2>2. QED
    BY <1>1, <2>1, Zenon DEF PmmInv, HandsOutMemory, Aligned
<1>2. QED
  BY <1>1, SpecPmmInv, PTL

\* pmm_alloc and pmm_free change pmm_free_pages by as much as the number of
\* clear bits; only a free of page 0 when its bit is clear already, which
\* pmm_free does not look at, adds a page to the count and none to the bitmap.
THEOREM SpecCountFollowsBitmap == Spec => CountFollowsBitmap
<1> DEFINE Equal == freePages' - freePages = Cardinality(clear') - Cardinality(clear)
           Drift == /\ 0 \in clear /\ UNCHANGED <<clear, owned>>
                    /\ freePages' = freePages + 1
           Follows == ready /\ totalPages # 0 => Equal \/ Drift
<1>1. ASSUME PmmInv, [Next]_vars PROVE [Follows]_vars
  <2>1. freePages \in Int /\ IsFiniteSet(clear) /\ Cardinality(clear) \in Nat
    BY <1>1, FS_CardinalityType DEF PmmInv, PagesTypeInv
  <2>2. CASE pmm_init
    BY <2>2 DEF pmm_init
  <2>3. ASSUME NEW count \in 1 .. MaxCount, pmm_alloc(count) PROVE Follows
    <3>1. Cardinality(clear') = Cardinality(clear) - count /\ count \in Nat
      BY <1>1, <2>3, AllocStep, MaxCountAssumption
    <3>2. totalPages # 0 => freePages' = freePages - count
      BY <2>3 DEF pmm_alloc
    <3>3. QED
      BY <2>1, <3>1, <3>2
  <2>4. ASSUME NEW run \in owned, pmm_free(run) PROVE Follows
    <3>1. Cardinality(clear') = Cardinality(clear) + Cardinality(run)
      BY <1>1, <2>4, FreeStep
    <3>2. Cardinality(run) \in Nat
      BY <1>1, FS_CardinalityType DEF PmmInv, PagesTypeInv
    <3>3. freePages' = freePages + Cardinality(run)
      BY <2>4 DEF pmm_free
    <3>4. QED
      BY <2>1, <3>1, <3>2, <3>3
  <2>5. CASE pmm_free({0})
    <3>1. clear' = clear \cup {0} /\ owned' = owned /\ freePages' = freePages + 1
      BY <1>1, <2>5, FreeNullStep
    <3>2. CASE 0 \in clear
      BY <3>1, <3>2
    <3>3. CASE 0 \notin clear
      <4>1. Cardinality(clear') = Cardinality(clear) + 1
        BY <2>1, <3>1, <3>3, FS_AddElement
      <4>2. QED
        BY <2>1, <3>1, <4>1
    <3>4. QED
      BY <3>2, <3>3
  <2>6. QED
    BY <1>1, <2>2, <2>3, <2>4, <2>5, Zenon DEF Next
<1>2. QED
  BY <1>1, SpecPmmInv, PTL DEF Spec, CountFollowsBitmap

-----------------------------------------------------------------------------
\* The other processors

\* The MADT lists each local APIC once.
LapicsSound ==
  /\ Len(lapics) \in Nat /\ DOMAIN lapics = 1 .. Len(lapics)
  /\ \A i \in DOMAIN lapics : lapics[i].id \in Nat
  /\ \A i, j \in DOMAIN lapics : lapics[i].id = lapics[j].id => i = j

\* Where the BSP is in smp_init_single, before and after prepare_data.
Prepared == {"data", "core", "apic", "clear", "wake", "poll"}
Unwoken == {"prepare", "data", "core", "apic", "clear", "wake"}
\* Where a processor is: before C code, not yet reported, and after.
Words == [stack : Nat, core : Nat, apic : Nat]
Starting == {"core", "apic", "entry", "report"}
Up == {"sti", "run"}

SmpTypeInv ==
  /\ LapicsSound
  /\ bsp \in {"setup", "next", "done", "fault"} \cup {"prepare"} \cup Prepared
  /\ entry \in 0 .. Len(lapics)
  /\ bsp \in Unwoken \cup {"poll"} => entry # 0 /\ Apic \in Aps
  /\ smp_core_count \in Nat /\ stacks \in Nat /\ has_started \in {0, 1}
  /\ data \in Words
  /\ pc \in [Aps -> {"off", "stack"} \cup Starting \cup Up]
  /\ got \in [Aps -> Words]
  /\ rate \in [Aps \cup {0} -> Nat]
  /\ late \in SUBSET Aps

\* Processors whose entry has not come up are off, and none is late.
FreshInv ==
  /\ \A i \in DOMAIN lapics :
       /\ lapics[i].id \in Aps
       /\ i > entry \/ (i = entry /\ bsp \in Unwoken)
       => pc[lapics[i].id] = "off" /\ lapics[i].id \notin late
  /\ bsp = "poll" => Apic \notin late

\* The words at 0x500, as far as they are written.
DataInv ==
  /\ bsp \in Prepared \ {"data"} => data.stack = stacks
  /\ bsp \in Prepared \ {"data", "core"} => data.core = Core
  /\ bsp \in Prepared \ {"data", "core", "apic"} => data.apic = Apic

\* cpu_data of the BSP and of the processor that is being started.
CpuInv ==
  /\ cpu_data = <<>> => bsp \in {"setup", "fault"}
  /\ bsp = "setup" => cpu_data = <<>> /\ stacks = 0
  /\ cpu_data # <<>> =>
       0 \in DOMAIN cpu_data /\ cpu_data[0] = [lapic |-> 0, stack |-> 1] /\ stacks > 0
  /\ bsp \in Prepared => /\ Core \in DOMAIN cpu_data
                         /\ cpu_data[Core] = [lapic |-> Apic, stack |-> stacks]

\* The processor that the BSP waits for, and those that have come up before.
Current(a) == bsp = "poll" /\ a = Apic
Done == {a \in Aps : pc[a] \in Up /\ ~Current(a)}

\* Only the current processor is on its way up, and has_started is about it.
WakeInv ==
  /\ \A a \in Aps : pc[a] \in Starting => Current(a)
  /\ \A a \in Aps : pc[a] = "stack" => a \in late \/ Current(a)
  /\ bsp = "wake" => has_started = 0
  /\ bsp = "poll" => /\ pc[Apic] # "off"
                     /\ has_started = 1 <=> pc[Apic] \in Up

\* What it has read is what was written for it.
ReadInv(a) ==
  /\ pc[a] \in (Starting \cup Up) => got[a].stack = data.stack
  /\ pc[a] \in (Starting \cup Up) \ {"core"} => got[a].core = data.core
  /\ pc[a] \in (Starting \cup Up) \ {"core", "apic"} => got[a].apic = data.apic

\* What the others have read is still about them.
DoneInv(a) ==
  /\ got[a].core \in 1 .. smp_core_count /\ got[a].apic = a
  /\ got[a].core \in DOMAIN cpu_data
  /\ cpu_data[got[a].core] = [lapic |-> a, stack |-> got[a].stack]
  /\ got[a].stack <= stacks /\ (bsp \in Prepared => got[a].stack # stacks)

GotInv ==
  /\ \A a \in Aps : Current(a) => ReadInv(a)
  /\ \A a \in Done : DoneInv(a)
  /\ \A a, b \in Done : a # b => got[a].stack # got[b].stack

CountInv == Cardinality(Done) = smp_core_count

RateInv ==
  /\ rate[0] = 1
  /\ \A a \in Aps : IF pc[a] \in Up \cup {"report"}
                      THEN rate[a] \in 1 .. 2 ^ (got[a].core - 1) ELSE rate[a] = 0

\* The inductive invariant.
SmpInv ==
  /\ SmpTypeInv /\ FreshInv /\ DataInv /\ CpuInv
  /\ ~Straggler => WakeInv /\ GotInv /\ CountInv /\ RateInv

-----------------------------------------------------------------------------
\* The processors

LEMMA ApsSame ==
  ASSUME lapics' = lapics
  PROVE  Aps' = Aps
BY Zenon DEF Aps

LEMMA ApsInNat ==
  ASSUME LapicsSound
  PROVE  /\ IsFiniteSet(Aps) /\ Aps \in SUBSET Nat /\ 0 \notin Aps
         /\ \A a \in Aps : \E i \in DOMAIN lapics : a = lapics[i].id
<1> DEFINE D == {j \in DOMAIN lapics : lapics[j].enabled /\ lapics[j].id # 0}
           f == [i \in D |-> lapics[i].id]
<1>1. IsFiniteSet(1 .. Len(lapics))
  BY FS_Interval DEF LapicsSound
<1>2. IsFiniteSet(D)
  <2>1. D \in SUBSET (1 .. Len(lapics))
    BY DEF LapicsSound
  <2> HIDE DEF D
  <2>2. QED
    BY <1>1, <2>1, FS_Subset, Zenon
<1>3. \A i \in D : f[i] = lapics[i].id
  BY Zenon
<1>4. {f[i] : i \in D} = Aps
  BY <1>3, Zenon DEF Aps
<1>5. IsFiniteSet(Aps)
  <2> HIDE DEF D, f
  <2>1. QED
    BY <1>2, <1>4, ImageFinite
<1>6. QED
  BY <1>5, Zenon DEF Aps, LapicsSound

\* The processor that the BSP is about to wake.
LEMMA CurrentEntry ==
  ASSUME SmpTypeInv, FreshInv, bsp \in Unwoken
  PROVE  /\ entry \in DOMAIN lapics /\ Apic \in Aps
         /\ pc[Apic] = "off" /\ Apic \notin late
<1>1. entry \in DOMAIN lapics /\ Apic \in Aps
  BY DEF SmpTypeInv, LapicsSound
<1>2. QED
  BY <1>1, Zenon DEF FreshInv, Apic

\* Once a processor has come up too late, that stays so.
LEMMA StragglerStays ==
  ASSUME SmpTypeInv, FreshInv, [SmpNext]_smpVars, Straggler
  PROVE  Straggler'
<1>1. PICK a \in late : pc[a] \notin {"off", "stack"}
  BY Zenon DEF Straggler
<1>2. a \in Aps
  BY Zenon DEF SmpTypeInv
<1>3. SUFFICES a \in late' /\ pc'[a] \notin {"off", "stack"}
  BY <1>3, Zenon DEF Straggler
<1>4. CASE SetMaxCpus \/ UNCHANGED smpVars
  BY <1>1, <1>4 DEF SetMaxCpus, smpVars
<1>5. CASE Bsp
  <2>1. CASE Wake
    <3>1. Apic \notin late
      BY <2>1, CurrentEntry, Zenon DEF Wake, Unwoken
    <3>2. QED
      BY <1>1, <2>1, <3>1 DEF Wake
  <2>2. CASE ~Wake
    <3>1. late \subseteq late' /\ pc' = pc
      BY <1>5, <2>2, Zenon
      DEF Bsp, setup_bsp, prepare_data, NextEntry, InitDone, Prepare,
          WriteData, ClearStarted, Poll, Started, GiveUp
    <3>2. QED
      BY <1>1, <3>1
  <2>3. QED
    BY <2>1, <2>2
<1>6. CASE \E b \in Aps : Ap(b)
  BY <1>1, <1>2, <1>6, Zenon
  DEF Ap, ReadWord, Calibrate, Report, Enable, SmpTypeInv
<1>7. QED
  BY <1>4, <1>5, <1>6, Zenon DEF SmpNext

-----------------------------------------------------------------------------
\* What holds whether processors come up too late or not

SmpBase == SmpTypeInv /\ FreshInv /\ DataInv /\ CpuInv

LEMMA InitBase ==
  ASSUME SmpInit, LapicsSound
  PROVE  SmpBase
<1>1. Aps \in SUBSET Nat /\ 0 \notin Aps
  BY ApsInNat
<1>2. NoData \in Words
  BY DEF NoData, Words
<1>3. SmpTypeInv
  BY <1>1, <1>2 DEF SmpInit, SmpTypeInv, LapicsSound, Unwoken, Prepared
<1>4. FreshInv /\ DataInv /\ CpuInv
  BY <1>1 DEF SmpInit, FreshInv, DataInv, CpuInv, LapicsSound, Unwoken, Prepared
<1>5. QED
  BY <1>3, <1>4 DEF SmpBase

LEMMA SetupBase ==
  ASSUME SmpBase, setup_bsp, UNCHANGED smpConf
  PROVE  SmpBase'
<1> USE DEF setup_bsp, prepare_data, smpConf
<1>1. Aps' = Aps /\ LapicsSound'
  BY ApsSame DEF SmpBase, SmpTypeInv, LapicsSound
<1>2. SmpTypeInv'
  BY <1>1 DEF SmpBase, SmpTypeInv, Unwoken, Prepared
<1>3. FreshInv' /\ DataInv'
  BY <1>1 DEF SmpBase, FreshInv, DataInv, Unwoken, Prepared
<1>4. CpuInv'
  <2>1. CASE bsp' = "fault"
    BY <2>1, Zenon DEF SmpBase, CpuInv, Prepared
  <2>2. CASE bsp' # "fault"
    <3>1. stacks = 0 /\ stacks' = stacks + 1 /\ bsp' = "next"
          /\ cpu_data' = [k \in DOMAIN cpu_data \cup {0} |->
               IF k = 0 THEN [lapic |-> 0, stack |-> stacks + 1] ELSE cpu_data[k]]
      BY <2>2, Zenon DEF SmpBase, CpuInv
    <3>2. 0 \in DOMAIN cpu_data' /\ cpu_data'[0] = [lapic |-> 0, stack |-> 1]
      BY <3>1
    <3>3. cpu_data' # <<>> /\ stacks' > 0
      BY <3>1, <3>2
    <3>4. QED
      BY <3>1, <3>2, <3>3 DEF CpuInv, Prepared
  <2>3. QED
    BY <2>1, <2>2
<1>5. QED
  BY <1>2, <1>3, <1>4 DEF SmpBase

LEMMA PrepareBase ==
  ASSUME SmpBase, Prepare, UNCHANGED smpConf
  PROVE  SmpBase'
<1> USE DEF Prepare, prepare_data, smpConf
<1>1. Aps' = Aps /\ LapicsSound' /\ Apic' = Apic /\ Core' = Core
  BY ApsSame DEF SmpBase, SmpTypeInv, LapicsSound, Apic, Core
<1>2. SmpTypeInv'
  BY <1>1 DEF SmpBase, SmpTypeInv, Unwoken, Prepared
<1>3. FreshInv' /\ DataInv'
  BY <1>1 DEF SmpBase, FreshInv, DataInv, Unwoken, Prepared
<1>4. CpuInv'
  BY <1>1 DEF SmpBase, CpuInv, Unwoken, Prepared, SmpTypeInv, Core
<1>5. QED
  BY <1>2, <1>3, <1>4 DEF SmpBase

LEMMA NextEntryBase ==
  ASSUME SmpBase, NextEntry, UNCHANGED smpConf
  PROVE  SmpBase'
<1> USE DEF NextEntry, smpConf
<1>1. /\ Aps' = Aps /\ LapicsSound' /\ LapicsSound /\ Apic' = lapics[entry + 1].id
      /\ SmpTypeInv /\ FreshInv /\ DataInv /\ CpuInv
  BY ApsSame, Zenon DEF SmpBase, SmpTypeInv, LapicsSound, Apic
<1>2. entry' = entry + 1 /\ entry' \in 0 .. Len(lapics') /\ entry' # 0
  BY <1>1 DEF SmpTypeInv, LapicsSound
<1>3. SmpTypeInv'
  BY <1>1, <1>2, Zenon DEF SmpTypeInv, Unwoken, Prepared
<1>4. FreshInv'
  <2>1. ASSUME NEW i \in DOMAIN lapics, lapics[i].id \in Aps,
               i > entry' \/ (i = entry' /\ bsp' \in Unwoken)
        PROVE  pc[lapics[i].id] = "off" /\ lapics[i].id \notin late
    <3>1. i > entry
      BY <1>1, <1>2, <2>1 DEF SmpTypeInv, LapicsSound
    <3>2. QED
      BY <1>1, <2>1, <3>1, Zenon DEF FreshInv
  <2>2. QED
    BY <1>1, <2>1, Zenon DEF FreshInv
<1>5. CpuInv' /\ DataInv'
  BY <1>1, Zenon DEF CpuInv, DataInv, Prepared
<1>6. QED
  BY <1>3, <1>4, <1>5, Zenon DEF SmpBase

LEMMA InitDoneBase ==
  ASSUME SmpBase, InitDone, UNCHANGED smpConf
  PROVE  SmpBase'
<1> USE DEF InitDone, smpConf
<1>1. /\ Aps' = Aps /\ LapicsSound'
      /\ SmpTypeInv /\ FreshInv /\ DataInv /\ CpuInv
  BY ApsSame, Zenon DEF SmpBase, SmpTypeInv, LapicsSound
<1>2. SmpTypeInv'
  BY <1>1, Zenon DEF SmpTypeInv, Unwoken, Prepared
<1>3. FreshInv' /\ DataInv' /\ CpuInv'
  BY <1>1, Zenon DEF FreshInv, DataInv, CpuInv, Unwoken, Prepared
<1>4. QED
  BY <1>2, <1>3, Zenon DEF SmpBase

LEMMA WriteBase ==
  ASSUME SmpBase, UNCHANGED smpConf,
         \/ WriteData("data", "core", "stack", stacks)
         \/ WriteData("core", "apic", "core", Core)
         \/ WriteData("apic", "clear", "apic", Apic)
         \/ ClearStarted
  PROVE  SmpBase'
<1> USE DEF WriteData, ClearStarted, smpConf
<1>1. /\ Aps' = Aps /\ LapicsSound' /\ Apic' = Apic /\ Core' = Core
      /\ Core \in Nat /\ (bsp \in Unwoken => Apic \in Nat)
  BY ApsSame, ApsInNat DEF SmpBase, SmpTypeInv, LapicsSound, Apic, Core
<1>2. SmpTypeInv'
  BY <1>1, Zenon DEF SmpBase, SmpTypeInv, Unwoken, Prepared, Words
<1>3. FreshInv' /\ CpuInv'
  BY <1>1 DEF SmpBase, FreshInv, CpuInv, Unwoken, Prepared
<1>4. DataInv'
  BY <1>1, Zenon DEF SmpBase, DataInv, SmpTypeInv, Unwoken, Prepared, Words
<1>5. QED
  BY <1>2, <1>3, <1>4 DEF SmpBase

LEMMA PollBase ==
  ASSUME SmpBase, UNCHANGED smpConf, Wake \/ Poll \/ Started \/ GiveUp
  PROVE  SmpBase'
<1> USE DEF Wake, Poll, Started, GiveUp, smpConf
<1>1. Aps' = Aps /\ LapicsSound' /\ Apic' = Apic
  BY ApsSame DEF SmpBase, SmpTypeInv, LapicsSound, Apic
<1>2. SmpTypeInv'
  BY <1>1 DEF SmpBase, SmpTypeInv, Unwoken, Prepared
<1>3. FreshInv'
  BY <1>1 DEF SmpBase, FreshInv, SmpTypeInv, LapicsSound, Unwoken, Apic
<1>4. CpuInv' /\ DataInv'
  BY <1>1 DEF SmpBase, CpuInv, DataInv, Unwoken, Prepared, Core
<1>5. QED
  BY <1>2, <1>3, <1>4 DEF SmpBase

\* The ticks of all processors are a sum of their rates.
Ticks == MapThenSumSet(LAMBDA b : rate[b], Ticking)

LEMMA TickSum ==
  ASSUME SmpTypeInv
  PROVE  /\ IsFiniteSet(Ticking) /\ Ticks \in Int
         /\ \E g : Summed(g, Ticking, rate) /\ Ticks = g[Ticking]
<1>1. IsFiniteSet(Ticking)
  <2>1. IsFiniteSet(Aps \cup {0})
    BY ApsInNat, FS_AddElement DEF SmpTypeInv
  <2>2. Ticking \in SUBSET (Aps \cup {0})
    BY Zenon DEF Ticking
  <2>3. QED
    BY <2>1, <2>2, FS_Subset, Zenon
<1>2. \E g : Summed(g, Ticking, rate)
  BY <1>1, SumExists, Zenon
<1>3. \E g : Summed(g, Ticking, rate) /\ Ticks = g[Ticking]
  BY <1>2, Zenon DEF Ticks, MapThenSumSet, MapThenFoldSet, Summed
<1>4. \A x \in Ticking : rate[x] \in Int
  BY DEF SmpTypeInv, Ticking
<1>5. QED
  BY <1>1, <1>3, <1>4, SumType, Zenon

LEMMA ApBase ==
  ASSUME SmpBase, UNCHANGED smpConf, NEW a \in Aps, Ap(a)
  PROVE  SmpBase'
<1> USE DEF smpConf
<1>1. /\ Aps' = Aps /\ LapicsSound' /\ Apic' = Apic /\ Core' = Core
      /\ UNCHANGED <<bsp, entry, polls, smp_core_count, data, cpu_data, stacks, late>>
  BY ApsSame, Zenon DEF SmpBase, SmpTypeInv, LapicsSound, Apic, Core, Ap, ReadWord,
     Calibrate, Report, Enable
<1>2. pc' \in [Aps -> {"off", "stack"} \cup Starting \cup Up] /\ has_started' \in {0, 1}
  BY Zenon DEF SmpBase, SmpTypeInv, Starting, Up, Ap, ReadWord, Calibrate, Report, Enable
<1>3. got' \in [Aps -> Words]
  <2>1. ASSUME NEW w \in {"stack", "core", "apic"},
               got' = [got EXCEPT ![a][w] = data[w]]
        PROVE  got' \in [Aps -> Words]
    BY <2>1, Zenon DEF SmpBase, SmpTypeInv, Words
  <2>2. CASE got' = got
    BY <2>2, Zenon DEF SmpBase, SmpTypeInv
  <2>3. \/ got' = got
        \/ \E w \in {"stack", "core", "apic"} : got' = [got EXCEPT ![a][w] = data[w]]
    BY Zenon DEF Ap, ReadWord, Calibrate, Report, Enable
  <2>4. QED
    BY <2>1, <2>2, <2>3, Zenon
<1>4. rate' \in [Aps \cup {0} -> Nat]
  <2>1. CASE Calibrate(a)
    <3>1. Ticks \in Int
      BY TickSum DEF SmpBase
    <3>2. PICK r \in 1 .. Ticks : rate' = [rate EXCEPT ![a] = r]
      BY <2>1, Zenon DEF Calibrate, Ticks
    <3>3. r \in Nat
      BY <3>1, <3>2
    <3>4. QED
      BY <3>2, <3>3, Zenon DEF SmpBase, SmpTypeInv
  <2>2. CASE ~Calibrate(a)
    BY <2>2, Zenon DEF SmpBase, SmpTypeInv, Ap, ReadWord, Report, Enable
  <2>3. QED
    BY <2>1, <2>2
<1>5. SmpTypeInv'
  BY <1>1, <1>2, <1>3, <1>4, Zenon DEF SmpBase, SmpTypeInv
<1>6. FreshInv'
  BY <1>1, Zenon DEF SmpBase, FreshInv, SmpTypeInv, Ap, ReadWord, Calibrate, Report, Enable
<1>7. CpuInv' /\ DataInv'
  BY <1>1, Zenon DEF SmpBase, CpuInv, DataInv
<1>8. QED
  BY <1>5, <1>6, <1>7, Zenon DEF SmpBase

-----------------------------------------------------------------------------
\* What holds as long as none comes up too late

Tidy == WakeInv /\ GotInv /\ CountInv /\ RateInv

LEMMA InitTidy ==
  ASSUME SmpInit, LapicsSound
  PROVE  Tidy
<1>1. Aps \in SUBSET Nat /\ 0 \notin Aps
  BY ApsInNat
<1>2. Done = {} /\ \A a \in Aps : ~Current(a) /\ pc[a] = "off"
  BY Zenon DEF SmpInit, Done, Current, Up
<1>3. WakeInv /\ GotInv
  BY <1>2, Zenon DEF SmpInit, WakeInv, GotInv, Starting
<1>4. CountInv
  BY <1>2, FS_EmptySet, Zenon DEF SmpInit, CountInv
<1>5. RateInv
  BY <1>1, <1>2 DEF SmpInit, RateInv, Up
<1>6. QED
  BY <1>3, <1>4, <1>5 DEF Tidy

\* Steps of the BSP between two processors.
LEMMA QuietTidy ==
  ASSUME SmpBase, Tidy, lapics' = lapics, bsp # "poll", bsp' # "poll",
         UNCHANGED <<pc, got, rate, late, smp_core_count>>,
         bsp' = "wake" => has_started' = 0,
         \A a \in Done : DoneInv(a)'
  PROVE  Tidy'
<1>1. Aps' = Aps
  BY ApsSame
<1>2. \A a : ~Current(a) /\ ~Current(a)'
  BY DEF Current
<1>3. Done' = Done
  BY <1>1, <1>2, Zenon DEF Done
<1>4. WakeInv'
  BY <1>1, <1>2, Zenon DEF Tidy, WakeInv
<1>5. GotInv'
  BY <1>1, <1>2, <1>3, Zenon DEF Tidy, GotInv
<1>6. CountInv' /\ RateInv'
  BY <1>1, <1>3, Zenon DEF Tidy, CountInv, RateInv
<1>7. QED
  BY <1>4, <1>5, <1>6 DEF Tidy

LEMMA SetupTidy ==
  ASSUME SmpBase, Tidy, setup_bsp, UNCHANGED smpConf
  PROVE  Tidy'
<1>1. Done = {}
  <2>1. cpu_data = <<>>
    BY Zenon DEF SmpBase, CpuInv, setup_bsp
  <2>2. DOMAIN cpu_data = {}
    BY <2>1
  <2>3. QED
    BY <2>2, Zenon DEF Tidy, GotInv, DoneInv
<1>2. /\ bsp # "poll" /\ bsp' # "poll" /\ bsp' # "wake" /\ lapics' = lapics
      /\ UNCHANGED <<pc, got, rate, late, smp_core_count>>
  BY Zenon DEF setup_bsp, prepare_data, smpConf
<1>3. QED
  BY <1>1, <1>2, QuietTidy, Zenon

LEMMA PrepareTidy ==
  ASSUME SmpBase, Tidy, Prepare, UNCHANGED smpConf
  PROVE  Tidy'
<1>1. /\ bsp = "prepare" /\ bsp' \in {"data", "fault"} /\ lapics' = lapics
      /\ UNCHANGED <<pc, got, rate, late, smp_core_count>>
  BY Zenon DEF Prepare, prepare_data, smpConf
<1>2. ASSUME NEW a \in Done PROVE DoneInv(a)'
  <2>1. /\ DoneInv(a) /\ smp_core_count \in Nat /\ stacks \in Nat
        /\ got[a].stack \in Nat /\ Core # got[a].core
    <3>1. DoneInv(a) /\ a \in Aps
      BY Zenon DEF Tidy, GotInv, Done
    <3>2. smp_core_count \in Nat /\ stacks \in Nat /\ got[a].stack \in Nat
      BY <3>1 DEF SmpBase, SmpTypeInv, Words
    <3>3. QED
      BY <3>1, <3>2 DEF DoneInv, Core
  <2>2. CASE bsp' = "fault"
    BY <1>1, <2>1, <2>2, Zenon DEF Prepare, prepare_data, DoneInv, Prepared
  <2>3. CASE bsp' # "fault"
    <3>1. /\ stacks' = stacks + 1
          /\ cpu_data' = [k \in DOMAIN cpu_data \cup {Core} |->
               IF k = Core THEN [lapic |-> Apic, stack |-> stacks + 1] ELSE cpu_data[k]]
      BY <2>3, Zenon DEF Prepare, prepare_data
    <3>2. got[a].core \in DOMAIN cpu_data' /\ cpu_data'[got[a].core] = cpu_data[got[a].core]
      BY <2>1, <3>1, Zenon DEF DoneInv
    <3>3. got[a].stack <= stacks' /\ got[a].stack # stacks'
      BY <2>1, <3>1 DEF DoneInv
    <3>4. QED
      BY <1>1, <2>1, <3>2, <3>3, Zenon DEF DoneInv
  <2>4. QED
    BY <2>2, <2>3
<1>3. bsp # "poll" /\ bsp' # "poll" /\ bsp' # "wake"
  BY <1>1
<1>4. QED
  BY <1>1, <1>2, <1>3, QuietTidy, Zenon

LEMMA WriteTidy ==
  ASSUME SmpBase, Tidy, UNCHANGED smpConf,
         \/ NextEntry \/ InitDone
         \/ WriteData("data", "core", "stack", stacks)
         \/ WriteData("core", "apic", "core", Core)
         \/ WriteData("apic", "clear", "apic", Apic)
         \/ ClearStarted
  PROVE  Tidy'
<1>1. /\ bsp # "poll" /\ bsp' # "poll" /\ lapics' = lapics
      /\ UNCHANGED <<pc, got, rate, late, smp_core_count, cpu_data, stacks>>
      /\ bsp' = "wake" => has_started' = 0
      /\ bsp' \in Prepared => bsp \in Prepared
  BY Zenon DEF NextEntry, InitDone, WriteData, ClearStarted, smpConf, Prepared
<1>2. ASSUME NEW a \in Done PROVE DoneInv(a)'
  BY <1>1, Zenon DEF Tidy, GotInv, DoneInv
<1>3. QED
  BY <1>1, <1>2, QuietTidy, Zenon

LEMMA PollTidy ==
  ASSUME SmpBase, Tidy, Poll, UNCHANGED smpConf
  PROVE  Tidy'
<1>1. /\ lapics' = lapics
      /\ UNCHANGED <<bsp, entry, smp_core_count, has_started, data, cpu_data,
                     stacks, pc, got, rate, late>>
  BY Zenon DEF Poll, smpConf
<1>2. Aps' = Aps /\ Apic' = Apic
  BY <1>1, ApsSame, Zenon DEF Apic
<1>3. Done' = Done
  BY <1>1, <1>2, Zenon DEF Done, Current
<1>4. WakeInv' /\ CountInv' /\ RateInv'
  BY <1>1, <1>2, <1>3, Zenon DEF Tidy, WakeInv, CountInv, RateInv, Current
<1>5. GotInv'
  BY <1>1, <1>2, <1>3, Zenon DEF Tidy, GotInv, ReadInv, DoneInv, Current
<1>6. QED
  BY <1>4, <1>5 DEF Tidy

LEMMA WakeTidy ==
  ASSUME SmpBase, Tidy, Wake, UNCHANGED smpConf
  PROVE  Tidy'
<1>1. /\ bsp = "wake" /\ bsp' = "poll" /\ pc' = [pc EXCEPT ![Apic] = "stack"]
      /\ UNCHANGED <<entry, smp_core_count, has_started, data, cpu_data, stacks,
                     got, rate, late>>
  BY Zenon DEF Wake
<1>2. Aps' = Aps /\ Apic' = Apic
  BY <1>1, ApsSame, Zenon DEF Apic, smpConf
<1>3. Apic \in Aps /\ pc[Apic] = "off"
  BY <1>1, CurrentEntry, Zenon DEF SmpBase, Unwoken
<1>4. \A a \in Aps : pc'[a] = IF a = Apic THEN "stack" ELSE pc[a]
  BY <1>1, <1>3, Zenon DEF SmpBase, SmpTypeInv
<1>5. Done' = Done
  BY <1>1, <1>2, <1>3, <1>4, Zenon DEF Done, Current, Up
<1>6. WakeInv'
  <2>1. \A a \in Aps : pc'[a] \notin Starting
    <3>1. "stack" \notin Starting /\ \A a : ~Current(a)
      BY <1>1 DEF Starting, Current
    <3>2. QED
      BY <1>4, <3>1, Zenon DEF Tidy, WakeInv
  <2>2. \A a \in Aps : pc'[a] = "stack" => a \in late' \/ Current(a)'
    BY <1>1, <1>2, <1>4, Zenon DEF Tidy, WakeInv, Current
  <2>3. pc'[Apic] = "stack" /\ has_started' = 0
    BY <1>1, <1>3, <1>4, Zenon DEF Tidy, WakeInv
  <2>4. QED
    BY <1>1, <1>2, <2>1, <2>2, <2>3 DEF WakeInv, Up
<1>7. CountInv'
  BY <1>1, <1>5, Zenon DEF Tidy, CountInv
<1>8. RateInv'
  <2>1. \A a \in Aps : pc'[a] \in Up \cup {"report"} <=> pc[a] \in Up \cup {"report"}
    BY <1>3, <1>4, Zenon DEF Up
  <2>2. QED
    BY <1>1, <1>2, <2>1, Zenon DEF Tidy, RateInv
<1>9. GotInv'
  <2>1. \A a \in Aps : Current(a)' => ReadInv(a)'
    BY <1>2, <1>3, <1>4, Zenon DEF ReadInv, Current, Starting, Up
  <2>2. \A a \in Done : DoneInv(a)'
    BY <1>1, Zenon DEF Tidy, GotInv, DoneInv, Prepared
  <2>3. QED
    BY <1>1, <1>2, <1>5, <2>1, <2>2, Zenon DEF Tidy, GotInv
<1>10. QED
  BY <1>6, <1>7, <1>8, <1>9 DEF Tidy

LEMMA StartedTidy ==
  ASSUME SmpBase, Tidy, Started, UNCHANGED smpConf
  PROVE  Tidy'
<1>1. /\ bsp = "poll" /\ has_started = 1 /\ bsp' = "next"
      /\ smp_core_count' = smp_core_count + 1
      /\ UNCHANGED <<entry, data, cpu_data, stacks, pc, got, rate, late>>
  BY Zenon DEF Started
<1>2. Aps' = Aps /\ Apic' = Apic
  BY <1>1, ApsSame, Zenon DEF smpConf, Apic
<1>3. Apic \in Aps /\ pc[Apic] \in Up
  BY <1>1, Zenon DEF SmpBase, SmpTypeInv, Tidy, WakeInv
<1>4. Done' = Done \cup {Apic} /\ Apic \notin Done
  BY <1>1, <1>2, <1>3, Zenon DEF Done, Current
<1>5. WakeInv'
  <2>1. \A a \in Aps : pc[a] \notin Starting /\ (pc[a] = "stack" => a \in late)
    BY <1>3, Zenon DEF Tidy, WakeInv, Current, Up, Starting
  <2>2. QED
    BY <1>1, <1>2, <2>1, Zenon DEF WakeInv
<1>6. CountInv'
  <2>1. IsFiniteSet(Done)
    <3>1. IsFiniteSet(Aps) /\ Done \in SUBSET Aps
      BY ApsInNat, Zenon DEF Done, SmpBase, SmpTypeInv
    <3>2. QED
      BY <3>1, FS_Subset, Zenon
  <2>2. Cardinality(Done') = Cardinality(Done) + 1
    BY <1>4, <2>1, FS_AddElement
  <2>3. QED
    BY <1>1, <2>2, Zenon DEF Tidy, CountInv
<1>7. RateInv'
  BY <1>1, <1>2, Zenon DEF Tidy, RateInv
<1>8. GotInv'
  <2>1. smp_core_count \in Nat /\ stacks \in Nat
    BY DEF SmpBase, SmpTypeInv
  <2>2. DoneInv(Apic)' /\ got[Apic].stack = stacks
    <3>1. got[Apic].stack = stacks /\ got[Apic].core = Core /\ got[Apic].apic = Apic
      BY <1>1, <1>3, Zenon
      DEF Tidy, GotInv, ReadInv, Current, SmpBase, DataInv, Prepared, Up
    <3>2. Core \in DOMAIN cpu_data /\ cpu_data[Core] = [lapic |-> Apic, stack |-> stacks]
      BY <1>1, Zenon DEF SmpBase, CpuInv, Prepared
    <3>3. Core \in 1 .. smp_core_count' /\ stacks <= stacks
      BY <1>1, <2>1 DEF Core
    <3>4. bsp' \notin Prepared
      BY <1>1 DEF Prepared
    <3>5. QED
      BY <1>1, <1>2, <3>1, <3>2, <3>3, <3>4, Zenon DEF DoneInv
  <2>3. ASSUME NEW a \in Done PROVE DoneInv(a)' /\ got[a].stack # stacks
    <3>1. DoneInv(a)
      BY Zenon DEF Tidy, GotInv
    <3>2. got[a].core \in 1 .. smp_core_count'
      BY <1>1, <2>1, <3>1 DEF DoneInv
    <3>3. bsp \in Prepared /\ bsp' \notin Prepared
      BY <1>1 DEF Prepared
    <3>4. QED
      BY <1>1, <3>1, <3>2, <3>3, Zenon DEF DoneInv
  <2>4. \A a, b \in Done' : a # b => got[a].stack # got[b].stack
    <3>1. \A a, b \in Done : a # b => got[a].stack # got[b].stack
      BY Zenon DEF Tidy, GotInv
    <3>2. QED
      BY <1>4, <2>2, <2>3, <3>1, Zenon
  <2>5. \A a : ~Current(a)'
    BY <1>1 DEF Current
  <2>6. QED
    BY <1>1, <1>2, <1>4, <2>2, <2>3, <2>4, <2>5, Zenon DEF GotInv
<1>9. QED
  BY <1>5, <1>6, <1>7, <1>8 DEF Tidy

LEMMA GiveUpTidy ==
  ASSUME SmpBase, Tidy, GiveUp, ~Straggler', UNCHANGED smpConf
  PROVE  Tidy'
<1>1. /\ bsp = "poll" /\ bsp' = "next" /\ late' = late \cup {Apic}
      /\ UNCHANGED <<smp_core_count, data, cpu_data, stacks, pc, got, rate>>
  BY Zenon DEF GiveUp
<1>2. Aps' = Aps
  BY ApsSame, Zenon DEF smpConf
<1>3. Apic \in Aps /\ pc[Apic] = "stack"
  BY <1>1, Zenon DEF SmpBase, SmpTypeInv, Tidy, WakeInv, Straggler
<1>4. \A a : ~Current(a)'
  BY <1>1 DEF Current
<1>5. Done' = Done
  BY <1>1, <1>2, <1>3, <1>4, Zenon DEF Done, Current, Up
<1>6. WakeInv'
  <2>1. \A a \in Aps : pc[a] \notin Starting /\ (pc[a] = "stack" => a \in late')
    BY <1>1, <1>3, Zenon DEF Tidy, WakeInv, Current, Up, Starting
  <2>2. QED
    BY <1>1, <1>2, <2>1, Zenon DEF WakeInv
<1>7. CountInv' /\ RateInv'
  BY <1>1, <1>2, <1>5, Zenon DEF Tidy, CountInv, RateInv
<1>8. GotInv'
  <2>1. \A a \in Done : DoneInv(a)'
    BY <1>1, Zenon DEF Tidy, GotInv, DoneInv, Prepared
  <2>2. QED
    BY <1>1, <1>2, <1>4, <1>5, <2>1, Zenon DEF Tidy, GotInv
<1>9. QED
  BY <1>6, <1>7, <1>8 DEF Tidy

\* The processor that is being measured is the only one with its core id or a
\* later one, so that the rates of those that run add up to less than a power
\* of two.
LEMMA TickBound ==
  ASSUME SmpBase, Tidy, bsp = "poll", pc[Apic] = "entry"
  PROVE  Ticks <= 2 ^ smp_core_count
<1> DEFINE R == {a \in Aps : pc[a] = "run"}
           k == [a \in Aps |-> got[a].core]
<1>1. PICK g : Summed(g, Ticking, rate) /\ Ticks = g[Ticking]
  BY TickSum, Zenon DEF SmpBase
<1>2. /\ IsFiniteSet(Ticking) /\ smp_core_count \in Nat
      /\ \A x \in Ticking : rate[x] \in Nat
  BY TickSum, Zenon DEF SmpBase, SmpTypeInv, Ticking
<1>3. R \in SUBSET Ticking /\ 0 \in Ticking /\ Ticking \ {0} = R
  BY ApsInNat, Zenon DEF Ticking, SmpBase, SmpTypeInv
<1>4. ASSUME NEW a \in R
      PROVE  /\ k[a] = got[a].core /\ DoneInv(a)
             /\ k[a] \in 1 .. smp_core_count /\ rate[a] <= 2 ^ (k[a] - 1)
  <2>1. a \in Done
    BY <1>4, Zenon DEF Done, Current, Up
  <2>2. DoneInv(a) /\ k[a] = got[a].core
    BY <2>1, Zenon DEF Tidy, GotInv
  <2>3. rate[a] \in 1 .. 2 ^ (got[a].core - 1)
    BY <1>4, Zenon DEF Tidy, RateInv, Up
  <2>4. got[a].core - 1 \in Nat
    BY <1>2, <2>2 DEF DoneInv
  <2>5. rate[a] <= 2 ^ (got[a].core - 1)
    BY <2>3, <2>4, PowerType
  <2>6. QED
    BY <2>2, <2>5 DEF DoneInv
<1> HIDE DEF R, k
<1>5. \A a, b \in R : k[a] = k[b] => a = b
  <2>1. ASSUME NEW a \in R PROVE cpu_data[k[a]].lapic = a
    <3>1. cpu_data[k[a]] = [lapic |-> a, stack |-> got[a].stack]
      BY <1>4, Zenon DEF DoneInv
    <3>2. QED
      BY <3>1
  <2>2. QED
    BY <2>1, Zenon
<1>6. g[R] < 2 ^ smp_core_count
  <2>1. \A a \in R : k[a] \in 1 .. smp_core_count /\ rate[a] <= 2 ^ (k[a] - 1)
    BY <1>4, Zenon
  <2>2. QED
    BY <1>1, <1>2, <1>3, <1>5, <2>1, SumOfPowers
<1>7. g[Ticking] = rate[0] + g[R]
  <2>1. \A x \in Ticking : rate[x] \in Int
    BY <1>2
  <2>2. SplitsOff(g, Ticking, rate)
    BY <1>1, <1>2, <2>1, SumSplit, Zenon
  <2>3. QED
    BY <1>3, <2>2, Zenon DEF SplitsOff
<1>8. rate[0] = 1
  BY Zenon DEF Tidy, RateInv
<1>9. g[R] \in Int /\ 2 ^ smp_core_count \in Nat
  <2>1. \A x \in Ticking : rate[x] \in Int
    BY <1>2
  <2>2. \A s \in SUBSET Ticking : g[s] \in Int
    BY <1>1, <1>2, <2>1, SumType, Zenon
  <2>3. QED
    BY <1>2, <1>3, <2>2, PowerType
<1>10. QED
  BY <1>1, <1>6, <1>7, <1>8, <1>9

\* The timer is switched on.
LEMMA EnableTidy ==
  ASSUME SmpBase, Tidy, NEW a \in Aps, Enable(a), UNCHANGED smpConf
  PROVE  Tidy'
<1>1. /\ pc[a] = "sti" /\ pc' = [pc EXCEPT ![a] = "run"]
      /\ UNCHANGED <<bsp, entry, smp_core_count, has_started, data, cpu_data,
                     stacks, got, rate, late>>
  BY Zenon DEF Enable
<1>2. Aps' = Aps /\ Apic' = Apic
  BY <1>1, ApsSame, Zenon DEF Apic, smpConf
<1>3. \A b \in Aps : pc'[b] = IF b = a THEN "run" ELSE pc[b]
  BY <1>1, Zenon DEF SmpBase, SmpTypeInv
<1>4. \A b \in Aps : pc'[b] = pc[b] \/ (pc[b] = "sti" /\ pc'[b] = "run")
  BY <1>1, <1>3, Zenon
<1>5. /\ \A b \in Aps : pc'[b] \in Up <=> pc[b] \in Up
      /\ \A b \in Aps : pc'[b] \in Starting <=> pc[b] \in Starting
      /\ \A b \in Aps : pc'[b] = "stack" <=> pc[b] = "stack"
      /\ \A b \in Aps : pc'[b] = "off" <=> pc[b] = "off"
  BY <1>4 DEF Up, Starting
<1>6. Done' = Done /\ \A b : Current(b)' <=> Current(b)
  BY <1>1, <1>2, <1>5, Zenon DEF Done, Current
<1>7. WakeInv'
  <2>1. bsp = "poll" => Apic \in Aps
    BY Zenon DEF SmpBase, SmpTypeInv
  <2>2. QED
    BY <1>1, <1>2, <1>5, <1>6, <2>1, Zenon DEF Tidy, WakeInv
<1>8. CountInv'
  BY <1>1, <1>6, Zenon DEF Tidy, CountInv
<1>9. RateInv'
  <2>1. \A b \in Aps : pc'[b] \in Up \cup {"report"} <=> pc[b] \in Up \cup {"report"}
    BY <1>4 DEF Up
  <2>2. QED
    BY <1>1, <1>2, <2>1, Zenon DEF Tidy, RateInv
<1>10. GotInv'
  <2>1. ASSUME NEW b \in Aps, Current(b)' PROVE ReadInv(b)'
    <3>1. ReadInv(b)
      BY <1>6, <2>1, Zenon DEF Tidy, GotInv
    <3>2. QED
      BY <1>1, <1>4, <3>1 DEF ReadInv, Starting, Up
  <2>2. \A b \in Done : DoneInv(b)'
    BY <1>1, Zenon DEF Tidy, GotInv, DoneInv
  <2>3. QED
    BY <1>1, <1>2, <1>6, <2>1, <2>2, Zenon DEF Tidy, GotInv
<1>11. QED
  BY <1>7, <1>8, <1>9, <1>10 DEF Tidy

\* A step of the processor that the BSP waits for, to p.
LEMMA CurrentTidy ==
  ASSUME SmpBase, Tidy, lapics' = lapics, NEW a \in Aps, Current(a),
         UNCHANGED <<bsp, entry, smp_core_count, data, cpu_data, stacks, late>>,
         NEW p \in Starting \cup Up, pc' = [pc EXCEPT ![a] = p],
         has_started' = 1 <=> p \in Up,
         \A b \in Aps \ {a} : got'[b] = got[b] /\ rate'[b] = rate[b],
         rate'[0] = rate[0],
         ReadInv(a)',
         IF p \in Up \cup {"report"} THEN rate'[a] \in 1 .. 2 ^ (got'[a].core - 1)
                                  ELSE rate'[a] = 0
  PROVE  Tidy'
<1>1. Aps' = Aps /\ Apic' = Apic /\ a = Apic /\ bsp = "poll"
  BY ApsSame, Zenon DEF Apic, Current
<1>2. \A b \in Aps : pc'[b] = IF b = a THEN p ELSE pc[b]
  BY Zenon DEF SmpBase, SmpTypeInv
<1>3. p # "off" /\ p # "stack"
  BY DEF Starting, Up
<1>4. (\A b : Current(b)' <=> Current(b)) /\ \A b : Current(b) <=> b = a
  BY <1>1, Zenon DEF Current
<1>5. Done' = Done /\ a \notin Done
  BY <1>1, <1>2, <1>4, ZenonT(30) DEF Done
<1>6. WakeInv'
  <2>1. \A b \in Aps : pc'[b] \in Starting => Current(b)'
    BY <1>2, <1>4, Zenon DEF Tidy, WakeInv
  <2>2. \A b \in Aps : pc'[b] = "stack" => b \in late' \/ Current(b)'
    BY <1>2, <1>4, Zenon DEF Tidy, WakeInv
  <2>3. pc'[Apic] = p
    BY <1>1, <1>2, Zenon
  <2>4. bsp' # "wake"
    BY <1>1
  <2>5. QED
    BY <1>1, <1>3, <2>1, <2>2, <2>3, <2>4, Zenon DEF WakeInv
<1>7. CountInv'
  BY <1>5, Zenon DEF Tidy, CountInv
<1>8. RateInv'
  <2>1. ASSUME NEW b \in Aps
        PROVE  IF pc'[b] \in Up \cup {"report"}
                 THEN rate'[b] \in 1 .. 2 ^ (got'[b].core - 1) ELSE rate'[b] = 0
    <3>1. CASE b = a
      BY <1>2, <3>1, Zenon
    <3>2. CASE b # a
      <4>1. pc'[b] = pc[b] /\ got'[b] = got[b] /\ rate'[b] = rate[b]
        BY <1>2, <3>2, Zenon
      <4>2. QED
        BY <4>1, Zenon DEF Tidy, RateInv
    <3>3. QED
      BY <3>1, <3>2
  <2>2. QED
    BY <1>1, <2>1, Zenon DEF Tidy, RateInv
<1>9. GotInv'
  <2>1. \A b \in Done : got'[b] = got[b]
    <3>1. Done \subseteq Aps \ {a}
      BY <1>5, Zenon DEF Done
    <3>2. QED
      BY <3>1, Zenon
  <2>2. \A b \in Done : DoneInv(b)'
    BY <2>1, Zenon DEF Tidy, GotInv, DoneInv
  <2>3. \A b, c \in Done' : b # c => got'[b].stack # got'[c].stack
    <3>1. \A b, c \in Done : b # c => got[b].stack # got[c].stack
      BY Zenon DEF Tidy, GotInv
    <3>2. QED
      BY <1>5, <2>1, <3>1, SMT
  <2>4. ASSUME NEW b \in Aps, Current(b)' PROVE ReadInv(b)'
    <3>1. b = a
      BY <1>4, <2>4, Zenon
    <3>2. QED
      BY <3>1, Zenon DEF ReadInv
  <2>5. QED
    BY <1>1, <1>5, <2>2, <2>3, <2>4, Zenon DEF GotInv
<1>10. QED
  BY <1>6, <1>7, <1>8, <1>9 DEF Tidy

\* A processor that is late and goes on is a straggler.
LEMMA OnlyCurrent ==
  ASSUME SmpBase, Tidy, NEW a \in Aps, ~Straggler', late' = late,
         pc[a] = "stack" \/ pc[a] \in Starting,
         NEW p \in Starting \cup Up, pc' = [pc EXCEPT ![a] = p]
  PROVE  Current(a)
<1>1. pc'[a] = p
  BY Zenon DEF SmpBase, SmpTypeInv
<1>2. pc'[a] \notin {"off", "stack"}
  BY <1>1 DEF Starting, Up
<1>3. QED
  BY <1>2, Zenon DEF Straggler, Tidy, WakeInv

LEMMA ReadTidy ==
  ASSUME SmpBase, Tidy, ~Straggler', NEW a \in Aps, UNCHANGED smpConf,
         \/ ReadWord(a, "stack", "core")
         \/ ReadWord(a, "core", "apic")
         \/ ReadWord(a, "apic", "entry")
  PROVE  Tidy'
<1>1. ASSUME NEW w, NEW p, ReadWord(a, w, p), lapics' = lapics,
             \/ w = "stack" /\ p = "core"
             \/ w = "core" /\ p = "apic"
             \/ w = "apic" /\ p = "entry"
      PROVE  Tidy'
  <2>1. /\ pc[a] = w /\ pc' = [pc EXCEPT ![a] = p]
        /\ got' = [got EXCEPT ![a][w] = data[w]]
        /\ UNCHANGED <<bsp, entry, smp_core_count, has_started, data,
                       cpu_data, stacks, rate, late>>
    BY <1>1, Zenon DEF ReadWord
  <2>2. p \in Starting \cup Up /\ p \notin Up \cup {"report"} /\ pc[a] \notin Up \cup {"report"}
    BY <1>1, <2>1 DEF Starting, Up
  <2>3. Current(a)
    <3>1. pc[a] = "stack" \/ pc[a] \in Starting
      BY <1>1, <2>1 DEF Starting
    <3>2. QED
      BY <2>1, <2>2, <3>1, OnlyCurrent, Zenon
  <2>4. \A b \in Aps \ {a} : got'[b] = got[b] /\ rate'[b] = rate[b]
    BY <2>1 DEF SmpBase, SmpTypeInv
  <2>5. got'[a] = [got[a] EXCEPT ![w] = data[w]] /\ got[a] \in Words
    BY <2>1, Zenon DEF SmpBase, SmpTypeInv
  <2>6. ReadInv(a)'
    <3>1. ReadInv(a) /\ pc'[a] = p
      BY <2>1, <2>3, Zenon DEF Tidy, GotInv, SmpBase, SmpTypeInv
    <3>2. QED
      BY <1>1, <2>1, <2>5, <3>1 DEF ReadInv, Starting, Up, Words
  <2>7. rate'[a] = 0
    BY <2>1, <2>2, Zenon DEF Tidy, RateInv
  <2>8. has_started' = 1 <=> p \in Up
    <3>1. has_started # 1
      BY <2>2, <2>3, Zenon DEF Tidy, WakeInv, Current
    <3>2. QED
      BY <2>1, <2>2, <3>1, Zenon
  <2>9. QED
    BY <1>1, <2>1, <2>2, <2>3, <2>4, <2>6, <2>7, <2>8, CurrentTidy, Zenon
<1>2. QED
  BY <1>1, Zenon DEF smpConf

LEMMA ReportTidy ==
  ASSUME SmpBase, Tidy, ~Straggler', NEW a \in Aps, UNCHANGED smpConf, Report(a)
  PROVE  Tidy'
<1>1. /\ pc[a] = "report" /\ pc' = [pc EXCEPT ![a] = "sti"] /\ has_started' = 1
      /\ lapics' = lapics
      /\ UNCHANGED <<bsp, entry, smp_core_count, data, cpu_data, stacks, got,
                     rate, late>>
  BY Zenon DEF Report, smpConf
<1>2. "sti" \in Starting \cup Up /\ "sti" \in Up /\ "report" \in Starting
  BY DEF Starting, Up
<1>3. Current(a)
  BY <1>1, <1>2, OnlyCurrent, Zenon
<1>4. ReadInv(a)'
  <2>1. ReadInv(a) /\ pc'[a] = "sti"
    BY <1>1, <1>3, Zenon DEF Tidy, GotInv, SmpBase, SmpTypeInv
  <2>2. QED
    BY <1>1, <2>1 DEF ReadInv, Starting, Up
<1>5. rate'[a] \in 1 .. 2 ^ (got'[a].core - 1)
  BY <1>1, Zenon DEF Tidy, RateInv
<1>6. QED
  BY <1>1, <1>2, <1>3, <1>4, <1>5, CurrentTidy, Zenon

LEMMA CalibrateTidy ==
  ASSUME SmpBase, Tidy, ~Straggler', NEW a \in Aps, UNCHANGED smpConf, Calibrate(a)
  PROVE  Tidy'
<1>1. /\ pc[a] = "entry" /\ pc' = [pc EXCEPT ![a] = "report"]
      /\ lapics' = lapics
      /\ UNCHANGED <<bsp, entry, smp_core_count, has_started, data, cpu_data,
                     stacks, got, late>>
  BY Zenon DEF Calibrate, smpConf
<1>2. PICK r \in 1 .. Ticks : rate' = [rate EXCEPT ![a] = r]
  BY Zenon DEF Calibrate, Ticks
<1>3. "report" \in Starting \cup Up /\ "report" \notin Up /\ "entry" \in Starting /\ "entry" \notin Up
  BY DEF Starting, Up
<1>4. Current(a)
  BY <1>1, <1>3, OnlyCurrent, Zenon
<1>5. ReadInv(a)' /\ got[a].core = Core
  <2>1. ReadInv(a) /\ pc'[a] = "report"
    BY <1>1, <1>4, Zenon DEF Tidy, GotInv, SmpBase, SmpTypeInv
  <2>2. data.core = Core
    BY <1>4, Zenon DEF SmpBase, DataInv, Prepared, Current
  <2>3. QED
    BY <1>1, <2>1, <2>2 DEF ReadInv, Starting, Up
<1>6. rate'[a] = r /\ rate'[0] = rate[0] /\ \A b \in Aps \ {a} : rate'[b] = rate[b]
  <2>1. 0 # a
    BY ApsInNat, Zenon DEF SmpBase, SmpTypeInv
  <2>2. QED
    BY <1>2, <2>1, Zenon DEF SmpBase, SmpTypeInv
<1>7. r \in 1 .. 2 ^ (got[a].core - 1)
  <2>1. Ticks <= 2 ^ smp_core_count /\ Ticks \in Int
    BY <1>1, <1>4, TickBound, TickSum, Zenon DEF Current, SmpBase
  <2>2. smp_core_count \in Nat
    BY Zenon DEF SmpBase, SmpTypeInv
  <2>3. got[a].core - 1 = smp_core_count
    BY <1>5, <2>2 DEF Core
  <2>4. 2 ^ smp_core_count \in Nat
    BY <2>2, PowerType
  <2>5. QED
    BY <2>1, <2>3, <2>4
<1>8. has_started' = 1 <=> "report" \in Up
  BY <1>1, <1>3, <1>4, Zenon DEF Tidy, WakeInv, Current
<1>9. QED
  BY <1>1, <1>3, <1>4, <1>5, <1>6, <1>7, <1>8, CurrentTidy, Zenon

-----------------------------------------------------------------------------

LEMMA InitSmpInv ==
  ASSUME SmpInit, LapicsSound
  PROVE  SmpInv
BY InitBase, InitTidy, Zenon DEF SmpInv, SmpBase, Tidy

LEMMA NextSmpInv ==
  ASSUME SmpInv, [SmpNext]_smpVars
  PROVE  SmpInv'
<1>1. SmpBase /\ (~Straggler => Tidy)
  BY Zenon DEF SmpInv, SmpBase, Tidy
<1>2. ~Straggler' => Tidy
  BY <1>1, StragglerStays, Zenon DEF SmpBase
<1>3. SUFFICES SmpBase' /\ (~Straggler' => Tidy')
  BY <1>3, Zenon DEF SmpInv, SmpBase, Tidy
<1>4. CASE SetMaxCpus \/ UNCHANGED smpVars
  <2>1. UNCHANGED <<lapics, bsp, entry, smp_core_count, has_started, data,
                    cpu_data, stacks, pc, got, rate, late>>
    BY <1>4, Zenon DEF SetMaxCpus, smpVars, smpConf
  <2>2. Aps' = Aps /\ Apic' = Apic /\ Core' = Core
    BY <2>1, ApsSame, Zenon DEF Apic, Core
  <2>3. SmpBase'
    BY <1>1, <2>1, <2>2, Zenon
    DEF SmpBase, SmpTypeInv, LapicsSound, FreshInv, DataInv, CpuInv
  <2>4. Done' = Done /\ Straggler' = Straggler
    BY <2>1, <2>2, Zenon DEF Done, Current, Straggler
  <2>5. ASSUME Tidy PROVE Tidy'
    <3>1. WakeInv' /\ CountInv' /\ RateInv'
      BY <2>1, <2>2, <2>4, <2>5, Zenon DEF Tidy, WakeInv, Current, CountInv, RateInv
    <3>2. GotInv'
      BY <2>1, <2>2, <2>4, <2>5, Zenon DEF Tidy, GotInv, Current, ReadInv, DoneInv
    <3>3. QED
      BY <3>1, <3>2, Zenon DEF Tidy
  <2>6. QED
    BY <1>1, <2>3, <2>4, <2>5, Zenon
<1>5. CASE Bsp /\ UNCHANGED smpConf
  <2>1. SmpBase'
    BY <1>1, <1>5, SetupBase, PrepareBase, NextEntryBase, InitDoneBase,
       WriteBase, PollBase, Zenon DEF Bsp
  <2>2. ASSUME ~Straggler' PROVE Tidy'
    BY <1>1, <1>2, <1>5, <2>2, SetupTidy, PrepareTidy, WriteTidy, WakeTidy,
       PollTidy, StartedTidy, GiveUpTidy, Zenon DEF Bsp
  <2>3. QED
    BY <2>1, <2>2
<1>6. ASSUME NEW a \in Aps, Ap(a), UNCHANGED smpConf
      PROVE  SmpBase' /\ (~Straggler' => Tidy')
  <2>1. SmpBase'
    BY <1>1, <1>6, ApBase, Zenon
  <2>2. ASSUME ~Straggler' PROVE Tidy'
    BY <1>1, <1>2, <1>6, <2>2, ReadTidy, CalibrateTidy, ReportTidy, EnableTidy,
       Zenon DEF Ap
  <2>3. QED
    BY <2>1, <2>2
<1>7. QED
  BY <1>4, <1>5, <1>6, Zenon DEF SmpNext

\* SmpInv holds at every step of smp_init and of the processors it wakes, for
\* every MADT that lists each local APIC once and every number of polls.
THEOREM SpecSmpInv == SmpSpec /\ LapicsSound => []SmpInv
<1>1. SmpInit /\ LapicsSound => SmpInv
  BY InitSmpInv
<1>2. SmpInv /\ [SmpNext]_smpVars => SmpInv'
  BY NextSmpInv
<1>3. QED
  BY <1>1, <1>2, PTL DEF SmpSpec

\* A processor in C code has its own core id, entry of cpu_data and stack,
\* however the BSP's stores to 0x500 and the processors' reads interleave, as
\* long as none comes up after smp_init_single has given up on it.
THEOREM SpecOwnCoreAndStack == SmpSpec /\ LapicsSound => []OwnCoreAndStack
<1>1. ASSUME SmpInv PROVE OwnCoreAndStack
  <2>1. SUFFICES ASSUME ~Straggler, cpu_data # <<>>
                 PROVE  /\ cpu_data[0] = [lapic |-> 0, stack |-> 1]
                        /\ \A a \in Aps : InC(a) =>
                          /\ cpu_data[got[a].core] = [lapic |-> a, stack |-> got[a].stack]
                          /\ got[a].apic = a
                          /\ \A b \in Aps \ {a} : InC(b) => /\ got[b].core # got[a].core
                                                            /\ got[b].stack # got[a].stack
    BY Zenon DEF OwnCoreAndStack
  <2>2. cpu_data[0] = [lapic |-> 0, stack |-> 1]
    BY <1>1, <2>1, Zenon DEF SmpInv, CpuInv
  <2>3. ASSUME NEW a \in Aps, InC(a), ~Current(a) PROVE a \in Done /\ DoneInv(a)
    <3>1. a \in Done
      BY <1>1, <2>1, <2>3, Zenon DEF SmpInv, WakeInv, Done, InC, Up, Starting
    <3>2. QED
      BY <1>1, <2>1, <3>1, Zenon DEF SmpInv, GotInv
  <2>4. ASSUME NEW a \in Aps, InC(a), Current(a)
        PROVE  /\ got[a].stack = stacks /\ got[a].apic = a /\ bsp \in Prepared
               /\ cpu_data[got[a].core] = [lapic |-> a, stack |-> got[a].stack]
    <3>1. ReadInv(a) /\ bsp = "poll" /\ a = Apic
      BY <1>1, <2>1, <2>4, Zenon DEF SmpInv, GotInv, Current
    <3>2. bsp \in Prepared /\ data.stack = stacks /\ data.core = Core /\ data.apic = Apic
      BY <1>1, <3>1, Zenon DEF SmpInv, DataInv, Prepared
    <3>3. got[a].stack = stacks /\ got[a].core = Core /\ got[a].apic = a
      BY <2>4, <3>1, <3>2, Zenon DEF ReadInv, InC, Starting, Up
    <3>4. QED
      BY <1>1, <3>1, <3>2, <3>3, Zenon DEF SmpInv, CpuInv
  <2>5. ASSUME NEW a \in Aps, InC(a)
        PROVE  /\ cpu_data[got[a].core] = [lapic |-> a, stack |-> got[a].stack]
               /\ got[a].apic = a /\ cpu_data[got[a].core].lapic = a
    <3>1. cpu_data[got[a].core] = [lapic |-> a, stack |-> got[a].stack] /\ got[a].apic = a
      BY <2>3, <2>4, <2>5, Zenon DEF DoneInv
    <3>2. QED
      BY <3>1
  <2>6. ASSUME NEW a \in Aps, InC(a), NEW b \in Aps \ {a}, InC(b)
        PROVE  got[b].core # got[a].core /\ got[b].stack # got[a].stack
    <3>1. got[b].core # got[a].core
      BY <2>5, <2>6, Zenon
    <3>2. got[b].stack # got[a].stack
      <4>1. CASE ~Current(a) /\ ~Current(b)
        BY <1>1, <2>1, <2>3, <2>6, <4>1, Zenon DEF SmpInv, GotInv
      <4>2. CASE Current(a)
        BY <2>3, <2>4, <2>6, <4>2, Zenon DEF Current, DoneInv
      <4>3. CASE Current(b)
        BY <2>3, <2>4, <2>6, <4>3, Zenon DEF Current, DoneInv
      <4>4. QED
        BY <4>1, <4>2, <4>3
    <3>3. QED
      BY <3>1, <3>2
  <2>7. QED
    BY <2>2, <2>5, <2>6, Zenon
<1>2. QED
  BY <1>1, SpecSmpInv, PTL

\* Between two calls of smp_init_single, smp_core_count is the number of
\* processors that have set has_started.
THEOREM SpecCountMatches == SmpSpec /\ LapicsSound => []CountMatches
<1>1. ASSUME SmpInv PROVE CountMatches
  <2>1. ASSUME bsp \in {"next", "prepare", "done"}
        PROVE  Done = {a \in Aps : pc[a] \in {"sti", "run"}}
    BY <2>1, Zenon DEF Done, Current, Up
  <2>2. QED
    BY <1>1, <2>1, Zenon DEF SmpInv, CountInv, CountMatches
<1>2. QED
  BY <1>1, SpecSmpInv, PTL

\* No processor sets its timer faster than twice the fastest rate the one with
\* the core id before it could have set.
THEOREM SpecRateAtMostDoubles == SmpSpec /\ LapicsSound => []RateAtMostDoubles
<1>1. ASSUME SmpInv PROVE RateAtMostDoubles
  BY <1>1, Zenon DEF SmpInv, RateInv, RateAtMostDoubles
<1>2. QED
  BY <1>1, SpecSmpInv, PTL

=============================================================================
