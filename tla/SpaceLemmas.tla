---------------------------- MODULE SpaceLemmas -----------------------------
(***************************************************************************)
(* Lemmas about the operators that address spaces and the loader are built *)
(* from, for every number of pages, page size, set of frames, bound on     *)
(* sizes, block size and archive.                                          *)
(*                                                                         *)
(* Both lists of an address space are to be sorted, with ranges that are   *)
(* nonempty and have no page in common. The lemmas say what the operators  *)
(* on lists (InsertAt, RemoveAt, PutHole, MergeHoles, PutMapping, TakeTop, *)
(* Cut) return, and which frames Touched takes. Of the archive they say    *)
(* which header initrd_read_file comes to when it follows the sizes in the *)
(* headers before.                                                         *)
(***************************************************************************)
EXTENDS Loader, FiniteSetTheorems, TLAPS

-----------------------------------------------------------------------------
\* Numbers and sequences

\* A nonempty set of numbers has a least element; induction over numbers, as
\* a fact about a set, follows.
LEMMA LeastOfNats ==
  ASSUME NEW S \in SUBSET Nat, S # {}
  PROVE  \E x \in S : \A y \in S : x <= y
<1> DEFINE R == {ss \in Nat \X Nat : ss[1] < ss[2]}
<1>1. IsWellFoundedOn(R, Nat)
  BY NatLessThanWellFounded, Zenon DEF OpToRel
<1> HIDE DEF R
<1>2. PICK x \in S : \A y \in S : ~(<<y, x>> \in R)
  BY <1>1, WFMin, Zenon
<1>3. \A y \in Nat : <<y, x>> \in R <=> y < x
  BY DEF R
<1>4. ASSUME NEW y \in S PROVE x <= y
  <2>1. ~(y < x)
    BY <1>2, <1>3, Zenon
  <2>2. QED
    BY <2>1
<1>5. QED
  BY <1>4, Zenon

LEMMA NatsReached ==
  ASSUME NEW S, 0 \in S, \A n \in Nat : n \in S => n + 1 \in S
  PROVE  Nat \subseteq S
<1>1. SUFFICES ASSUME Nat \ S # {} PROVE FALSE
  OBVIOUS
<1>2. PICK x \in Nat \ S : \A y \in Nat \ S : x <= y
  BY <1>1, LeastOfNats, Zenon
<1>3. x # 0
  BY <1>2
<1>4. x - 1 \in Nat /\ x - 1 \in S
  BY <1>2, <1>3
<1>5. (x - 1) + 1 \in S
  BY <1>4
<1>6. QED
  BY <1>2, <1>5

LEMMA MinOfNats ==
  ASSUME NEW S \in SUBSET Nat, S # {}
  PROVE  Min(S) \in S /\ \A y \in S : Min(S) <= y
<1>1. \E x \in S : \A y \in S : x <= y
  BY LeastOfNats, Zenon
<1>2. QED
  BY <1>1, Zenon DEF Min

LEMMA Divided ==
  ASSUME NEW a \in Nat, NEW d \in Nat \ {0}
  PROVE  /\ a \div d \in Nat
         /\ (a \div d) * d <= a
         /\ a < (a \div d) * d + d
  OBVIOUS

LEMMA Scaled ==
  ASSUME NEW a \in Int, NEW b \in Int, NEW d \in Nat, a <= b
  PROVE  a * d <= b * d
  OBVIOUS

\* A quotient is at least what fits.
LEMMA QuotientAtLeast ==
  ASSUME NEW a \in Nat, NEW d \in Nat \ {0}, NEW q \in Nat, q * d <= a
  PROVE  q <= a \div d
<1>1. a \div d \in Nat /\ a < (a \div d) * d + d
  BY Divided
<1>2. SUFFICES ASSUME a \div d + 1 <= q PROVE FALSE
  BY <1>1
<1>3. (a \div d + 1) * d <= q * d
  BY <1>1, <1>2, Scaled
<1>4. (a \div d + 1) * d = (a \div d) * d + d
  BY <1>1
<1>5. (a \div d) * d \in Nat /\ q * d \in Nat
  BY <1>1
<1>6. QED
  BY <1>1, <1>3, <1>4, <1>5

LEMMA SeqLen ==
  ASSUME NEW S, NEW list \in Seq(S)
  PROVE  Len(list) \in Nat /\ list \in [1 .. Len(list) -> S] /\ DOMAIN list = 1 .. Len(list)
  OBVIOUS

LEMMA SeqElement ==
  ASSUME NEW S, NEW list \in Seq(S), NEW i \in 1 .. Len(list)
  PROVE  list[i] \in S
  OBVIOUS

LEMMA SeqEmpty ==
  ASSUME NEW S
  PROVE  /\ <<>> \in Seq(S) /\ Len(<<>>) = 0
         /\ \A list \in Seq(S) : list # <<>> => Len(list) \in Nat \ {0}
  OBVIOUS

LEMMA SeqExcept ==
  ASSUME NEW S, NEW list \in Seq(S), NEW i \in 1 .. Len(list), NEW e \in S
  PROVE  /\ [list EXCEPT ![i] = e] \in Seq(S)
         /\ Len([list EXCEPT ![i] = e]) = Len(list)
         /\ \A j \in 1 .. Len(list) : [list EXCEPT ![i] = e][j] = IF j = i THEN e ELSE list[j]
  OBVIOUS

LEMMA SeqAppend ==
  ASSUME NEW S, NEW list \in Seq(S), NEW e \in S
  PROVE  /\ Append(list, e) \in Seq(S) /\ Append(list, e) # <<>>
         /\ Len(Append(list, e)) = Len(list) + 1
         /\ \A i \in 1 .. Len(list) : Append(list, e)[i] = list[i]
         /\ Append(list, e)[Len(list) + 1] = e
  OBVIOUS

LEMMA SeqSame ==
  ASSUME NEW S, NEW s \in Seq(S), NEW t \in Seq(S),
         Len(s) = Len(t), \A i \in 1 .. Len(s) : s[i] = t[i]
  PROVE  s = t
  OBVIOUS

LEMMA SeqWider ==
  ASSUME NEW S, NEW T, S \subseteq T, NEW list \in Seq(S)
  PROVE  list \in Seq(T)
  OBVIOUS

LEMMA SeqFunction ==
  ASSUME NEW S, NEW n \in Nat, NEW f \in [1 .. n -> S]
  PROVE  f \in Seq(S)
  OBVIOUS

-----------------------------------------------------------------------------
IsList(list) == Len(list) \in Nat /\ DOMAIN list = 1 .. Len(list)

\* A range that begins at the boundary of page First(r), before page Past(r).
IsRange(r) ==
  /\ First(r) \in Nat \ {0} /\ r.base = First(r) * PageSize
  /\ r.size \in Nat \ {0}
Past(r) == First(r) + r.size

Cover(list) == UNION {PagesOf(list[i]) : i \in DOMAIN list}

\* The entries of a list are ranges that have no page in common.
Spread(list) ==
  /\ IsList(list)
  /\ \A i \in DOMAIN list : IsRange(list[i])
  /\ \A i, j \in DOMAIN list : i # j => PagesOf(list[i]) \cap PagesOf(list[j]) = {}

Elems(list) == {list[i] : i \in DOMAIN list}

LEMMA InElems ==
  ASSUME NEW list, NEW r
  PROVE  r \in Elems(list) <=> \E i \in DOMAIN list : r = list[i]
BY Zenon DEF Elems

LEMMA SeqConcat ==
  ASSUME NEW S, NEW s \in Seq(S), NEW t \in Seq(S)
  PROVE  /\ s \o t \in Seq(S)
         /\ Len(s \o t) = Len(s) + Len(t)
         /\ \A i \in 1 .. Len(s) + Len(t) :
              (s \o t)[i] = IF i <= Len(s) THEN s[i] ELSE t[i - Len(s)]
  OBVIOUS

-----------------------------------------------------------------------------
\* Addresses

LEMMA Quotient ==
  ASSUME NEW n \in Int, NEW d \in Nat \ {0}
  PROVE  /\ n \div d \in Int
         /\ (n \div d) * d <= n
         /\ n < (n \div d) * d + d
  OBVIOUS

LEMMA Multiple ==
  ASSUME NEW n \in Nat, NEW d \in Nat \ {0}, n % d = 0
  PROVE  n = (n \div d) * d
  OBVIOUS

\* A quotient is below what is more than the dividend.
LEMMA QuotientBelow ==
  ASSUME NEW n \in Int, NEW d \in Nat \ {0}, NEW q \in Int, n < q * d
  PROVE  n \div d < q
<1>1. n \div d \in Int /\ (n \div d) * d <= n
  BY Quotient
<1>2. SUFFICES ASSUME q <= n \div d PROVE FALSE
  BY <1>1
<1>3. q * d <= (n \div d) * d
  BY <1>1, <1>2, Scaled
<1>4. (n \div d) * d \in Int /\ q * d \in Int
  BY <1>1
<1>5. QED
  BY <1>1, <1>3, <1>4

LEMMA ScaledLess ==
  ASSUME NEW a \in Int, NEW b \in Int, NEW d \in Nat \ {0}, a < b
  PROVE  a * d < b * d
<1>1. (a + 1) * d <= b * d
  BY Scaled
<1>2. (a + 1) * d = a * d + d
  OBVIOUS
<1>3. QED
  BY <1>1, <1>2

LEMMA ScaledOrder ==
  ASSUME NEW a \in Int, NEW b \in Int, NEW d \in Nat \ {0}
  PROVE  /\ a * d \in Int /\ b * d \in Int
         /\ a * d < b * d <=> a < b
         /\ a * d <= b * d <=> a <= b
         /\ a * d = b * d <=> a = b
<1>1. a * d \in Int /\ b * d \in Int
  OBVIOUS
<1>2. (a < b => a * d < b * d) /\ (b < a => b * d < a * d)
  BY ScaledLess
<1>3. QED
  BY <1>1, <1>2

LEMMA MultipleDivided ==
  ASSUME NEW n \in Nat, NEW d \in Nat \ {0}
  PROVE  (n * d) \div d = n
<1> DEFINE m == n * d
<1>1. m \in Nat
  OBVIOUS
<1> HIDE DEF m
<1>2. m \div d \in Nat /\ (m \div d) * d <= m /\ m < (m \div d) * d + d
  BY <1>1, Divided
<1>3. (m \div d + 1) * d = (m \div d) * d + d
  BY <1>2
<1>4. (m \div d) * d <= n * d /\ n * d < (m \div d + 1) * d
  BY <1>2, <1>3 DEF m
<1>5. m \div d <= n /\ n < m \div d + 1
  BY <1>2, <1>4, ScaledOrder
<1>6. QED
  BY <1>2, <1>5 DEF m

\* A range that begins at the boundary of page p.
LEMMA RangeAt ==
  ASSUME NEW r, NEW p \in Nat \ {0}, r.base = p * PageSize, r.size \in Nat \ {0}
  PROVE  IsRange(r) /\ First(r) = p
<1>1. (p * PageSize) \div PageSize = p
  BY MultipleDivided, SizesAssumption
<1>2. First(r) = p
  BY <1>1, Zenon DEF First
<1>3. QED
  BY <1>2 DEF IsRange

LEMMA AlignedRange ==
  ASSUME NEW r, r.base \in Nat \ {0}, r.size \in Nat \ {0}, r.base % PageSize = 0
  PROVE  IsRange(r)
<1>1. r.base = First(r) * PageSize
  BY Multiple, SizesAssumption, Zenon DEF First
<1>2. First(r) \in Nat
  BY Divided, SizesAssumption DEF First
<1>3. First(r) # 0
  BY <1>1, <1>2, SizesAssumption
<1>4. QED
  BY <1>1, <1>2, <1>3 DEF IsRange

LEMMA RangeEnd ==
  ASSUME NEW r, IsRange(r)
  PROVE  /\ First(r) \in Nat \ {0} /\ Past(r) \in Nat \ {0} /\ r.size \in Nat \ {0}
         /\ r.base \in Nat \ {0} /\ End(r) \in Nat \ {0}
         /\ r.base = First(r) * PageSize /\ End(r) = Past(r) * PageSize
<1> DEFINE p == First(r)
           d == PageSize
<1>1. /\ p \in Nat \ {0} /\ r.base = p * d /\ r.size \in Nat \ {0}
      /\ d \in Nat \ {0}
  BY SizesAssumption DEF IsRange
<1>2. End(r) = r.base + r.size * d /\ Past(r) = p + r.size
  BY DEF End, Past
<1> HIDE DEF p, d
<1>3. (p + r.size) * d = p * d + r.size * d
  BY <1>1
<1>4. p * d \in Nat \ {0} /\ r.size * d \in Nat
  BY <1>1
<1>5. QED
  BY <1>1, <1>2, <1>3, <1>4 DEF p, d

\* Ranges lie in the order of their pages.
LEMMA RangeOrder ==
  ASSUME NEW r, IsRange(r), NEW s, IsRange(s)
  PROVE  /\ r.base < s.base <=> First(r) < First(s)
         /\ r.base <= s.base <=> First(r) <= First(s)
         /\ r.base = s.base <=> First(r) = First(s)
         /\ End(r) <= s.base <=> Past(r) <= First(s)
         /\ End(r) = s.base <=> Past(r) = First(s)
         /\ End(r) <= End(s) <=> Past(r) <= Past(s)
         /\ End(r) = End(s) <=> Past(r) = Past(s)
<1>1. /\ First(r) \in Int /\ Past(r) \in Int /\ First(s) \in Int /\ Past(s) \in Int
      /\ r.base = First(r) * PageSize /\ End(r) = Past(r) * PageSize
      /\ s.base = First(s) * PageSize /\ End(s) = Past(s) * PageSize
  BY RangeEnd
<1>2. \A a, b \in Int : /\ a * PageSize < b * PageSize <=> a < b
                        /\ a * PageSize <= b * PageSize <=> a <= b
                        /\ a * PageSize = b * PageSize <=> a = b
  BY ScaledOrder, SizesAssumption
<1> DEFINE a == First(r)
           b == Past(r)
           c == First(s)
           e == Past(s)
<1> HIDE DEF a, b, c, e
<1>3. /\ a * PageSize < c * PageSize <=> a < c
      /\ a * PageSize <= c * PageSize <=> a <= c
      /\ a * PageSize = c * PageSize <=> a = c
      /\ b * PageSize <= c * PageSize <=> b <= c
      /\ b * PageSize = c * PageSize <=> b = c
      /\ b * PageSize <= e * PageSize <=> b <= e
      /\ b * PageSize = e * PageSize <=> b = e
  BY <1>1, <1>2 DEF a, b, c, e
<1>4. QED
  BY <1>1, <1>3 DEF a, b, c, e

\* The numbers from a to before c, cut at b.
LEMMA IntervalCut ==
  ASSUME NEW a \in Int, NEW b \in Int, NEW c \in Int, a <= b, b <= c
  PROVE  /\ a .. c - 1 = (a .. b - 1) \cup (b .. c - 1)
         /\ (a .. b - 1) \cap (b .. c - 1) = {}
OBVIOUS

LEMMA RangePages ==
  ASSUME NEW r, IsRange(r)
  PROVE  PagesOf(r) = First(r) .. Past(r) - 1
<1>1. First(r) \in Int /\ r.size \in Int
  BY DEF IsRange
<1>2. First(r) + r.size - 1 = Past(r) - 1
  BY <1>1 DEF Past
<1>3. QED
  BY <1>2 DEF PagesOf

LEMMA IndexType ==
  ASSUME NEW r, r.base \in Int, NEW a \in Nat, r.base <= a
  PROVE  Index(r, a) \in Nat \ {0}
<1>1. a - r.base \in Nat /\ PageSize \in Nat \ {0}
  BY SizesAssumption
<1>2. (a - r.base) \div PageSize \in Nat
  BY <1>1, Divided
<1>3. QED
  BY <1>2 DEF Index

\* ensure_load_store stays in the mapping when the copy does.
LEMMA EnsuredInside ==
  ASSUME NEW r, r.base \in Int, r.size \in Nat, NEW a \in Nat, NEW size \in Nat,
         r.base <= a, a + size <= End(r)
  PROVE  Ensured(r, a, size) \subseteq 1 .. r.size
<1> DEFINE d == PageSize
           off == a - r.base
           q == off \div d
           c == (size + d - 1) \div d
<1>1. d \in Nat \ {0} /\ r.size * d \in Nat
  BY SizesAssumption
<1>2. off \in Nat /\ off + size <= r.size * d
  BY <1>1 DEF End
<1>3. q \in Nat /\ q * d <= off
  BY <1>1, <1>2, Divided, Zenon
<1>4. size + d - 1 \in Nat
  BY <1>1
<1>5. c \in Nat /\ c * d <= size + d - 1
  BY <1>1, <1>4, Divided
<1> HIDE DEF off, q, c, d
<1>6. (q + c) * d = q * d + c * d /\ (r.size + 1) * d = r.size * d + d
  BY <1>1, <1>3, <1>5
<1>7. q * d \in Nat /\ c * d \in Nat
  BY <1>1, <1>3, <1>5
<1>8. (q + c) * d < (r.size + 1) * d
  BY <1>1, <1>2, <1>3, <1>5, <1>6, <1>7
<1>9. q + c < r.size + 1
  BY <1>1, <1>3, <1>5, <1>8, ScaledOrder
<1>10. Ensured(r, a, size) = q + 1 .. q + c
  <2>1. Ensured(r, a, size) = q + 1 .. (q + 1) + c - 1
    BY DEF Ensured, Index, q, c, off, d
  <2>2. (q + 1) + c - 1 = q + c
    BY <1>3, <1>5
  <2>3. QED
    BY <2>1, <2>2
<1>11. QED
  BY <1>1, <1>3, <1>5, <1>9, <1>10

\* A copy that begins at a page of the mapping reaches no page that
\* ensure_load_store has not touched.
LEMMA AlignedEnsured ==
  ASSUME NEW r, r.base \in Int, NEW a \in Nat, NEW size \in Nat, r.base <= a,
         (a - r.base) % PageSize = 0, NEW x \in a .. a + size - 1
  PROVE  Index(r, x) \in Ensured(r, a, size)
<1> DEFINE d == PageSize
           q == (a - r.base) \div d
           p == (x - r.base) \div d
           c == (size + d - 1) \div d
<1>1. d \in Nat \ {0} /\ a - r.base \in Nat /\ x - r.base \in Nat
  BY SizesAssumption
<1>2. q \in Nat /\ a - r.base = q * d
  BY <1>1, Multiple, Divided, Zenon
<1>3. p \in Nat /\ p * d <= x - r.base /\ x - r.base < p * d + d
  BY <1>1, Divided, Zenon
<1>4. size + d - 1 \in Nat
  BY <1>1
<1>5. c \in Nat /\ size + d - 1 < c * d + d
  BY <1>1, <1>4, Divided
<1> HIDE DEF d, q, p, c
<1>6. /\ (p + 1) * d = p * d + d /\ (q + c) * d = q * d + c * d
      /\ q * d \in Nat /\ p * d \in Nat /\ c * d \in Nat
  BY <1>1, <1>2, <1>3, <1>5
<1>7. q * d < (p + 1) * d
  BY <1>1, <1>2, <1>3, <1>6
<1>8. p * d < (q + c) * d
  BY <1>1, <1>2, <1>3, <1>5, <1>6
<1>9. q < p + 1 /\ p < q + c
  BY <1>1, <1>2, <1>3, <1>5, <1>7, <1>8, ScaledOrder
<1>10. Index(r, a) = q + 1 /\ Index(r, x) = p + 1
  BY DEF Index, q, p, d
<1>11. Ensured(r, a, size) = q + 1 .. q + 1 + c - 1
  BY <1>10 DEF Ensured, c, d
<1>12. QED
  BY <1>2, <1>3, <1>5, <1>9, <1>10, <1>11

-----------------------------------------------------------------------------
\* Numbers in octal digits

\* What Octal adds up, over the last m digits of s.
SummedBy(g, s, m) ==
  g = [n \in 0 .. m |->
         IF n = 0 THEN [integer |-> 0, multiplier |-> 1]
         ELSE LET last == g[n - 1]
              IN  [integer |-> last.integer + s[Len(s) + 1 - n] * last.multiplier,
                   multiplier |-> last.multiplier * 8]]

\* The sum with one more digit d.
DigitAdded(last, d) ==
  [integer |-> last.integer + d * last.multiplier, multiplier |-> last.multiplier * 8]

LEMMA SummedExists ==
  ASSUME NEW s
  PROVE  \A m \in Nat : \E g : SummedBy(g, s, m)
<1> DEFINE none == [integer |-> 0, multiplier |-> 1]
           N == {m \in Nat : \E g : SummedBy(g, s, m)}
<1>1. 0 \in N
  <2>1. SummedBy([n \in 0 .. 0 |-> none], s, 0)
    BY DEF SummedBy
  <2>2. QED
    BY <2>1
<1>2. ASSUME NEW m \in Nat, m \in N PROVE m + 1 \in N
  <2>1. PICK g : SummedBy(g, s, m)
    BY <1>2
  <2> DEFINE h == [n \in 0 .. m + 1 |->
                     IF n = 0 THEN none ELSE DigitAdded(g[n - 1], s[Len(s) + 1 - n])]
  <2>2. \A n \in 0 .. m : g[n] = IF n = 0 THEN none ELSE DigitAdded(g[n - 1], s[Len(s) + 1 - n])
    BY <2>1, Zenon DEF SummedBy, DigitAdded
  <2>3. \A n \in 0 .. m + 1 :
          h[n] = IF n = 0 THEN none ELSE DigitAdded(g[n - 1], s[Len(s) + 1 - n])
    BY Zenon
  <2>4. DOMAIN h = 0 .. m + 1 /\ h = [n \in 0 .. m + 1 |-> h[n]]
    BY Zenon
  <2> HIDE DEF h
  <2>5. \A n \in 0 .. m : h[n] = g[n] /\ n \in 0 .. m + 1
    BY <2>2, <2>3
  <2>6. \A n \in 0 .. m + 1 : n # 0 => h[n - 1] = g[n - 1]
    BY <2>5
  <2>7. \A n \in 0 .. m + 1 :
          h[n] = IF n = 0 THEN none ELSE DigitAdded(h[n - 1], s[Len(s) + 1 - n])
    BY <2>3, <2>6
  <2>8. SummedBy(h, s, m + 1)
    BY <2>4, <2>7, Zenon DEF SummedBy, DigitAdded
  <2>9. QED
    BY <2>8
<1> HIDE DEF N
<1>3. Nat \subseteq N
  BY <1>1, <1>2, NatsReached
<1>4. QED
  BY <1>3 DEF N

\* The numbers that the sum of the digits goes through stay natural.
LEMMA DigitAddedType ==
  ASSUME NEW last \in [integer : Nat, multiplier : Nat], NEW d \in Nat
  PROVE  DigitAdded(last, d) \in [integer : Nat, multiplier : Nat]
<1>1. ASSUME NEW a \in Nat, NEW b \in Nat, NEW c \in Nat PROVE a + b * c \in Nat
  OBVIOUS
<1>2. last.integer + d * last.multiplier \in Nat
  BY <1>1
<1>3. QED
  BY <1>2 DEF DigitAdded

\* A size field is a number, and its first digit counts only if it is not 0.
LEMMA OctalDigits ==
  ASSUME NEW s \in Seq(0 .. 7)
  PROVE  /\ \A p \in 1 .. Len(s) + 1 : Octal(s, p) \in Nat
         /\ s # <<>> /\ s[1] = 0 => Octal(s, 1) = Octal(s, 2)
<1> DEFINE g == CHOOSE g : SummedBy(g, s, Len(s))
           none == [integer |-> 0, multiplier |-> 1]
           N == {n \in Nat : n <= Len(s) => g[n] \in [integer : Nat, multiplier : Nat]}
<1>1. Len(s) \in Nat /\ \A i \in 1 .. Len(s) : s[i] \in 0 .. 7
  BY SeqLen, SeqElement
<1>2. SummedBy(g, s, Len(s))
  BY <1>1, SummedExists, Zenon
<1>3. \A p : Octal(s, p) = g[Len(s) + 1 - p].integer
  BY Zenon DEF Octal, SummedBy
<1> HIDE DEF g
<1>4. \A n \in 0 .. Len(s) :
        g[n] = IF n = 0 THEN none ELSE DigitAdded(g[n - 1], s[Len(s) + 1 - n])
  BY <1>2, Zenon DEF SummedBy, DigitAdded
<1>5. 0 \in N
  BY <1>1, <1>4
<1>6. ASSUME NEW n \in Nat, n \in N PROVE n + 1 \in N
  <2> SUFFICES ASSUME n + 1 <= Len(s)
               PROVE  g[n + 1] \in [integer : Nat, multiplier : Nat]
    OBVIOUS
  <2>1. g[n + 1] = DigitAdded(g[n], s[Len(s) - n])
    BY <1>1, <1>4
  <2>2. g[n] \in [integer : Nat, multiplier : Nat] /\ s[Len(s) - n] \in Nat
    BY <1>1, <1>6
  <2>3. QED
    BY <2>1, <2>2, DigitAddedType, Zenon
<1> HIDE DEF N
<1>7. Nat \subseteq N
  BY <1>5, <1>6, NatsReached
<1>8. \A n \in 0 .. Len(s) : g[n].integer \in Nat /\ g[n].multiplier \in Nat
  BY <1>1, <1>7 DEF N
<1>9. \A p \in 1 .. Len(s) + 1 : Octal(s, p) \in Nat
  BY <1>1, <1>3, <1>8
<1>10. ASSUME s # <<>>, s[1] = 0 PROVE Octal(s, 1) = Octal(s, 2)
  <2>1. Len(s) \in Nat \ {0}
    BY <1>10, SeqEmpty
  <2>2. g[Len(s)] = DigitAdded(g[Len(s) - 1], 0)
    BY <1>4, <1>10, <2>1
  <2>3. g[Len(s)].integer = g[Len(s) - 1].integer + 0 * g[Len(s) - 1].multiplier
    BY <2>2 DEF DigitAdded
  <2>4. g[Len(s)].integer = g[Len(s) - 1].integer
    BY <1>8, <2>1, <2>3
  <2>5. Len(s) + 1 - 1 = Len(s) /\ Len(s) + 1 - 2 = Len(s) - 1
    BY <2>1
  <2>6. QED
    BY <1>3, <2>4, <2>5
<1>11. QED
  BY <1>9, <1>10

\* oct_to_dec reads all of a size field but its first character.
LEMMA DecType ==
  ASSUME NEW s \in Seq(0 .. 7) \ {<<>>}
  PROVE  /\ oct_to_dec(s) = Octal(s, 2) /\ oct_to_dec(s) \in Nat
         /\ s[1] = 0 => oct_to_dec(s) = Octal(s, 1)
<1> DEFINE P == {p \in 2 .. Len(s) + 1 : \A i \in p .. Len(s) : s[i] \in 0 .. 7}
<1>1. Len(s) \in Nat \ {0} /\ \A i \in 1 .. Len(s) : s[i] \in 0 .. 7
  BY SeqLen, SeqElement, SeqEmpty
<1>2. 2 \in P /\ P \in SUBSET Nat /\ \A p \in P : 2 <= p
  BY <1>1
<1> HIDE DEF P
<1>3. Min(P) = 2
  <2>1. Min(P) \in P /\ Min(P) <= 2
    BY <1>2, MinOfNats
  <2>2. Min(P) \in Nat /\ 2 <= Min(P)
    BY <1>2, <2>1, Zenon
  <2>3. QED
    BY <2>1, <2>2, 2 \in Nat
<1>4. oct_to_dec(s) = Octal(s, 2)
  BY <1>3 DEF oct_to_dec, P
<1>5. 2 \in 1 .. Len(s) + 1
  BY <1>1
<1>6. QED
  BY <1>4, <1>5, OctalDigits

-----------------------------------------------------------------------------
\* The blocks of an archive

LEMMA CeilType ==
  ASSUME NEW n \in Nat, NEW d \in Nat \ {0}
  PROVE  /\ Ceil(n, d) \in Nat
         /\ n <= Ceil(n, d) * d
         /\ n > 0 => Ceil(n, d) > 0
<1> DEFINE a == n + d - 1
<1>1. a \in Nat /\ a = n + d - 1
  OBVIOUS
<1>2. Ceil(n, d) = a \div d
  BY DEF Ceil
<1> HIDE DEF a
<1>3. a \div d \in Nat /\ a < (a \div d) * d + d
  BY <1>1, Divided
<1>4. (a \div d) * d \in Nat
  BY <1>3
<1>5. n <= (a \div d) * d
  BY <1>1, <1>3, <1>4
<1>6. ASSUME n > 0, a \div d = 0 PROVE FALSE
  BY <1>5, <1>6
<1>7. QED
  BY <1>2, <1>3, <1>5, <1>6

\* The blocks that member m takes after its header.
Contents(m) == Ceil(Octal(m.size, 1), BlockSize)

Header(m) == [ustar |-> TRUE, of |-> m]
Content(m) == [ustar |-> FALSE, of |-> m]

BlocksBy(g, ms, k) ==
  g = [n \in 0 .. k |->
         IF n = 0 THEN <<>>
         ELSE g[n - 1] \o <<Header(ms[n])>> \o [i \in 1 .. Contents(ms[n]) |-> Content(ms[n])]]

LEMMA BlocksExist ==
  ASSUME NEW ms
  PROVE  \A m \in Nat : \E g : BlocksBy(g, ms, m)
<1> DEFINE more(f, n) ==
             f \o <<Header(ms[n])>> \o [i \in 1 .. Contents(ms[n]) |-> Content(ms[n])]
           N == {m \in Nat : \E g : BlocksBy(g, ms, m)}
<1>1. 0 \in N
  <2>1. BlocksBy([n \in 0 .. 0 |-> <<>>], ms, 0)
    BY DEF BlocksBy
  <2>2. QED
    BY <2>1
<1>2. ASSUME NEW m \in Nat, m \in N PROVE m + 1 \in N
  <2>1. PICK g : BlocksBy(g, ms, m)
    BY <1>2
  <2> DEFINE h == [n \in 0 .. m + 1 |-> IF n = 0 THEN <<>> ELSE more(g[n - 1], n)]
  <2>2. \A n \in 0 .. m : g[n] = IF n = 0 THEN <<>> ELSE more(g[n - 1], n)
    BY <2>1, Zenon DEF BlocksBy
  <2>3. \A n \in 0 .. m + 1 : h[n] = IF n = 0 THEN <<>> ELSE more(g[n - 1], n)
    BY Zenon
  <2>4. DOMAIN h = 0 .. m + 1 /\ h = [n \in 0 .. m + 1 |-> h[n]]
    BY Zenon
  <2> HIDE DEF h, more
  <2>5. \A n \in 0 .. m : h[n] = g[n] /\ n \in 0 .. m + 1
    BY <2>2, <2>3
  <2>6. \A n \in 0 .. m + 1 : n # 0 => h[n - 1] = g[n - 1]
    BY <2>5
  <2>7. \A n \in 0 .. m + 1 : h[n] = IF n = 0 THEN <<>> ELSE more(h[n - 1], n)
    BY <2>3, <2>6
  <2>8. BlocksBy(h, ms, m + 1)
    BY <2>4, <2>7, Zenon DEF BlocksBy, more
  <2>9. QED
    BY <2>8
<1> HIDE DEF N
<1>3. Nat \subseteq N
  BY <1>1, <1>2, NatsReached
<1>4. QED
  BY <1>3 DEF N

\* r is f, followed by h and k times c.
More(r, f, h, c, k) ==
  /\ Len(r) = Len(f) + 1 + k
  /\ \A i \in 1 .. Len(f) : r[i] = f[i]
  /\ r[Len(f) + 1] = h
  /\ k > 0 => r[Len(f) + 2] = c

LEMMA MoreBlocks ==
  ASSUME NEW S, NEW f \in Seq(S), NEW h \in S, NEW c \in S, NEW k \in Nat,
         NEW r, r = f \o <<h>> \o [i \in 1 .. k |-> c]
  PROVE  r \in Seq(S) /\ More(r, f, h, c, k)
<1> DEFINE e == f \o <<h>>
           t == [i \in 1 .. k |-> c]
<1>0. r = e \o t
  OBVIOUS
<1>1. <<h>> \in Seq(S) /\ Len(<<h>>) = 1 /\ <<h>>[1] = h
  OBVIOUS
<1>2. Len(f) \in Nat
  BY SeqLen
<1>3. /\ e \in Seq(S) /\ Len(e) = Len(f) + 1
      /\ \A i \in 1 .. Len(f) + 1 : e[i] = IF i <= Len(f) THEN f[i] ELSE <<h>>[i - Len(f)]
  BY <1>1, SeqConcat
<1>4. /\ \A i \in 1 .. Len(f) : e[i] = f[i]
      /\ e[Len(f) + 1] = h
  BY <1>1, <1>2, <1>3
<1>5. t \in Seq(S) /\ Len(t) = k /\ \A i \in 1 .. k : t[i] = c
  OBVIOUS
<1> HIDE DEF e, t
<1>6. /\ r \in Seq(S) /\ Len(r) = Len(e) + k
      /\ \A i \in 1 .. Len(e) + k : r[i] = IF i <= Len(e) THEN e[i] ELSE t[i - Len(e)]
  <2>1. /\ e \o t \in Seq(S) /\ Len(e \o t) = Len(e) + Len(t)
        /\ \A i \in 1 .. Len(e) + Len(t) :
             (e \o t)[i] = IF i <= Len(e) THEN e[i] ELSE t[i - Len(e)]
    <3>1. e \in Seq(S) /\ t \in Seq(S)
      BY <1>3, <1>5
    <3>2. QED
      BY <3>1, SeqConcat
  <2>2. QED
    BY <1>0, <1>5, <2>1, Zenon
<1>7. \A i \in 1 .. Len(f) + 1 : r[i] = e[i]
  BY <1>2, <1>3, <1>6
<1>8. ASSUME k > 0 PROVE r[Len(f) + 2] = c
  BY <1>2, <1>3, <1>5, <1>6, <1>8
<1>9. (\A i \in 1 .. Len(f) : r[i] = f[i]) /\ r[Len(f) + 1] = h
  BY <1>2, <1>4, <1>7
<1>10. r \in Seq(S) /\ Len(r) = Len(f) + 1 + k
  BY <1>2, <1>3, <1>6
<1>11. QED
  BY <1>8, <1>9, <1>10 DEF More

\* bs are the blocks of the members ms, the header of member n being block
\* start[n], counted from 0.
Archived(ms, bs, start) ==
  /\ bs \in Seq([ustar : BOOLEAN, of : Elems(ms) \cup {NoFile}])
  /\ \A b \in DOMAIN bs : bs[b].ustar => bs[b].of \in Elems(ms)
  /\ \A n \in 1 .. Len(ms) + 1 : start[n] \in Nat /\ start[n] < Len(bs)
  /\ start[1] = 0
  /\ \A n \in 1 .. Len(ms) :
       /\ start[n + 1] = start[n] + 1 + Contents(ms[n])
       /\ bs[start[n] + 1] = Header(ms[n])
       /\ Contents(ms[n]) > 0 =>
            start[n] + 1 < Len(bs) /\ bs[start[n] + 2] = Content(ms[n])
  /\ bs[start[Len(ms) + 1] + 1] = Zero

LEMMA ContentsType ==
  ASSUME NEW m \in Files
  PROVE  Octal(m.size, 1) \in Nat /\ Contents(m) \in Nat
<1>1. m.size \in Seq(0 .. 7) /\ m.size # <<>>
  BY DEF Files
<1>2. 1 \in 1 .. Len(m.size) + 1
  BY <1>1, SeqLen
<1>3. Octal(m.size, 1) \in Nat
  BY <1>1, <1>2, OctalDigits
<1>4. QED
  BY <1>3, CeilType, ArchivesAssumption, Zenon DEF Contents

LEMMA BlocksArchived ==
  ASSUME NEW ms \in Seq(Files)
  PROVE  \E start : Archived(ms, Blocks(ms), start)
<1> DEFINE g == CHOOSE g : BlocksBy(g, ms, Len(ms))
           S == [ustar : BOOLEAN, of : Elems(ms)]
           bs == Blocks(ms)
           start == [n \in 1 .. Len(ms) + 1 |-> Len(g[n - 1])]
<1>1. Len(ms) \in Nat /\ DOMAIN ms = 1 .. Len(ms) /\ \A i \in 1 .. Len(ms) : ms[i] \in Files
  BY SeqLen, SeqElement
<1>2. BlocksBy(g, ms, Len(ms))
  BY <1>1, BlocksExist, Zenon
<1>3. bs = g[Len(ms)] \o <<Zero>>
  BY Zenon DEF Blocks, BlocksBy, Header, Content, Contents
<1> HIDE DEF g, bs
<1>4. /\ g[0] = <<>>
      /\ \A n \in 1 .. Len(ms) :
           g[n] = g[n - 1] \o <<Header(ms[n])>> \o
                  [i \in 1 .. Contents(ms[n]) |-> Content(ms[n])]
  <2>1. \A n \in 0 .. Len(ms) : g[n] = IF n = 0 THEN <<>> ELSE
           g[n - 1] \o <<Header(ms[n])>> \o
                  [i \in 1 .. Contents(ms[n]) |-> Content(ms[n])]
    BY <1>2, Zenon DEF BlocksBy
  <2>2. 0 \in 0 .. Len(ms) /\ \A n \in 1 .. Len(ms) : n \in 0 .. Len(ms) /\ n # 0
    BY <1>1
  <2>3. QED
    BY <2>1, <2>2, Zenon
<1>5. ASSUME NEW n \in 1 .. Len(ms)
      PROVE  /\ Header(ms[n]) \in S /\ Content(ms[n]) \in S
             /\ Contents(ms[n]) \in Nat /\ n \in Nat \ {0} /\ n - 1 \in Nat
  <2>1. ms[n] \in Elems(ms)
    BY <1>1, InElems
  <2>2. QED
    BY <1>1, <2>1, ContentsType DEF Header, Content
<1> DEFINE grown(n) ==
      g[n] \in Seq(S) /\ More(g[n], g[n - 1], Header(ms[n]), Content(ms[n]), Contents(ms[n]))
<1>6. ASSUME NEW n \in 1 .. Len(ms), g[n - 1] \in Seq(S) PROVE grown(n)
  <2> HIDE DEF S
  <2>1. /\ Header(ms[n]) \in S /\ Content(ms[n]) \in S /\ Contents(ms[n]) \in Nat
        /\ g[n] = g[n - 1] \o <<Header(ms[n])>> \o
                  [i \in 1 .. Contents(ms[n]) |-> Content(ms[n])]
    BY <1>4, <1>5, Zenon
  <2>2. QED
    BY <1>6, <2>1, MoreBlocks, Zenon
<1> DEFINE N == {n \in Nat : n <= Len(ms) => g[n] \in Seq(S)}
<1>7. Nat \subseteq N
  <2>1. 0 \in N
    BY <1>4, SeqEmpty, Zenon
  <2>2. ASSUME NEW n \in Nat, n \in N PROVE n + 1 \in N
    <3>1. SUFFICES ASSUME n + 1 <= Len(ms) PROVE g[n + 1] \in Seq(S)
      OBVIOUS
    <3>2. n + 1 \in 1 .. Len(ms) /\ (n + 1) - 1 = n /\ n <= Len(ms)
      BY <1>1, <3>1
    <3>3. g[(n + 1) - 1] \in Seq(S)
      BY <2>2, <3>2
    <3>4. QED
      BY <1>6, <3>2, <3>3, Zenon
  <2> HIDE DEF N
  <2>3. QED
    BY <2>1, <2>2, NatsReached
<1>8. \A n \in 0 .. Len(ms) : g[n] \in Seq(S) /\ Len(g[n]) \in Nat
  <2> HIDE DEF S, N
  <2>1. \A n \in 0 .. Len(ms) : n \in N /\ n <= Len(ms)
    BY <1>1, <1>7
  <2>2. \A n \in 0 .. Len(ms) : g[n] \in Seq(S)
    BY <2>1, Zenon DEF N
  <2>3. QED
    BY <2>2, SeqLen, Zenon
<1>9. \A n \in 1 .. Len(ms) : grown(n)
  <2>1. \A n \in 1 .. Len(ms) : g[n - 1] \in Seq(S)
    <3>1. \A n \in 1 .. Len(ms) : n - 1 \in 0 .. Len(ms)
      BY <1>1
    <3>2. QED
      BY <1>8, <3>1, Zenon
  <2> HIDE DEF grown
  <2>2. QED
    BY <1>6, <2>1, Zenon
<1> DEFINE kept(n, k) ==
      Len(g[n]) <= Len(g[k]) /\ \A i \in 1 .. Len(g[n]) : g[k][i] = g[n][i]
<1>10. \A n \in 0 .. Len(ms) : kept(n, Len(ms))
  <2> DEFINE K == {k \in Nat : k <= Len(ms) => \A n \in 0 .. k : kept(n, k)}
  <2>1. 0 \in K
    BY <1>4, SeqEmpty
  <2>2. ASSUME NEW k \in Nat, k \in K PROVE k + 1 \in K
    <3>1. SUFFICES ASSUME k + 1 <= Len(ms), NEW n \in 0 .. k + 1 PROVE kept(n, k + 1)
      OBVIOUS
    <3>2. k + 1 \in 1 .. Len(ms) /\ (k + 1) - 1 = k /\ k \in 0 .. Len(ms)
      BY <1>1, <3>1
    <3>3. /\ Len(g[k + 1]) = Len(g[k]) + 1 + Contents(ms[k + 1])
          /\ \A i \in 1 .. Len(g[k]) : g[k + 1][i] = g[k][i]
      <4>1. grown(k + 1)
        BY <1>9, <3>2, Zenon
      <4>2. More(g[k + 1], g[k], Header(ms[k + 1]), Content(ms[k + 1]), Contents(ms[k + 1]))
        BY <3>2, <4>1, Zenon
      <4>3. QED
        BY <4>2, Zenon DEF More
    <3>4. Contents(ms[k + 1]) \in Nat /\ Len(g[k]) \in Nat /\ Len(g[k + 1]) \in Nat
      BY <1>5, <1>8, <3>2
    <3>5. CASE n = k + 1
      BY <3>4, <3>5
    <3>6. CASE n \in 0 .. k
      <4>1. kept(n, k) /\ Len(g[n]) \in Nat
        BY <1>8, <2>2, <3>2, <3>6
      <4>2. \A i \in 1 .. Len(g[n]) : i \in 1 .. Len(g[k])
        BY <3>4, <4>1
      <4>3. Len(g[n]) <= Len(g[k + 1])
        BY <3>3, <3>4, <4>1
      <4>4. \A i \in 1 .. Len(g[n]) : g[k + 1][i] = g[n][i]
        BY <3>3, <4>1, <4>2, Zenon
      <4>5. QED
        BY <4>3, <4>4
    <3>7. QED
      BY <3>5, <3>6
  <2> HIDE DEF K
  <2>3. Nat \subseteq K
    BY <2>1, <2>2, NatsReached
  <2>4. QED
    BY <1>1, <2>3 DEF K
<1> DEFINE T == [ustar : BOOLEAN, of : Elems(ms) \cup {NoFile}]
           L == Len(g[Len(ms)])
<1>11. Zero \in T /\ ~Zero.ustar /\ S \subseteq T /\ \A x \in S : x.of \in Elems(ms)
  BY DEF Zero
<1>12. g[Len(ms)] \in Seq(S) /\ L \in Nat
  <2>1. Len(ms) \in 0 .. Len(ms)
    BY <1>1
  <2>2. QED
    BY <1>8, <2>1, Zenon
<1>13. g[Len(ms)] \in Seq(T)
  <2> HIDE DEF S, T
  <2>1. QED
    BY <1>11, <1>12, SeqWider
<1>14. /\ bs \in Seq(T) /\ Len(bs) = L + 1
       /\ \A i \in 1 .. L : bs[i] = g[Len(ms)][i]
       /\ bs[L + 1] = Zero
  <2>1. <<Zero>> \in Seq(T) /\ Len(<<Zero>>) = 1 /\ <<Zero>>[1] = Zero
    BY <1>11
  <2> HIDE DEF T
  <2>2. /\ bs \in Seq(T) /\ Len(bs) = L + Len(<<Zero>>)
        /\ \A i \in 1 .. L + Len(<<Zero>>) :
             bs[i] = IF i <= L THEN g[Len(ms)][i] ELSE <<Zero>>[i - L]
    BY <1>3, <1>13, <2>1, SeqConcat
  <2> HIDE DEF L
  <2>3. QED
    BY <1>12, <2>1, <2>2
<1>15. \A b \in DOMAIN bs : bs[b].ustar => bs[b].of \in Elems(ms)
  <2>1. SUFFICES ASSUME NEW b \in DOMAIN bs, bs[b].ustar PROVE bs[b].of \in Elems(ms)
    OBVIOUS
  <2>2. b \in 1 .. L + 1
    BY <1>14, SeqLen
  <2>3. b # L + 1
    BY <1>11, <1>14, <2>1
  <2>4. b \in 1 .. L
    BY <1>12, <2>2, <2>3
  <2>5. g[Len(ms)][b] \in S
    BY <1>12, <2>4, SeqElement, Zenon
  <2>6. QED
    BY <1>11, <1>14, <2>4, <2>5
<1> HIDE DEF L, T, S
<1>16. \A n \in 1 .. Len(ms) + 1 : start[n] = Len(g[n - 1])
  OBVIOUS
<1> HIDE DEF start
<1>17. ASSUME NEW n \in 1 .. Len(ms) + 1 PROVE start[n] \in Nat /\ start[n] < Len(bs)
  <2>1. n - 1 \in 0 .. Len(ms)
    BY <1>1
  <2>2. Len(g[n - 1]) \in Nat /\ Len(g[n - 1]) <= L
    BY <1>8, <1>10, <2>1 DEF L
  <2>3. QED
    BY <1>12, <1>14, <1>16, <2>2
<1>18. start[1] = 0 /\ start[Len(ms) + 1] = L
  <2>1. 1 \in 1 .. Len(ms) + 1 /\ Len(ms) + 1 \in 1 .. Len(ms) + 1
        /\ 1 - 1 = 0 /\ (Len(ms) + 1) - 1 = Len(ms)
    BY <1>1
  <2>2. start[1] = Len(g[0]) /\ start[Len(ms) + 1] = Len(g[Len(ms)])
    BY <1>16, <2>1
  <2>3. QED
    BY <1>4, <2>2, SeqEmpty DEF L
<1>19. ASSUME NEW n \in 1 .. Len(ms)
       PROVE  /\ start[n + 1] = start[n] + 1 + Contents(ms[n])
              /\ bs[start[n] + 1] = Header(ms[n])
              /\ Contents(ms[n]) > 0 =>
                   start[n] + 1 < Len(bs) /\ bs[start[n] + 2] = Content(ms[n])
  <2>1. /\ n + 1 \in 1 .. Len(ms) + 1 /\ n \in 1 .. Len(ms) + 1 /\ (n + 1) - 1 = n
        /\ n \in 0 .. Len(ms)
    BY <1>1
  <2>2. start[n] = Len(g[n - 1]) /\ start[n + 1] = Len(g[n])
    BY <1>16, <2>1
  <2>3. start[n] \in Nat /\ start[n + 1] \in Nat /\ Contents(ms[n]) \in Nat
    BY <1>5, <1>17, <2>1
  <2>4. /\ start[n + 1] = start[n] + 1 + Contents(ms[n])
        /\ g[n][start[n] + 1] = Header(ms[n])
        /\ Contents(ms[n]) > 0 => g[n][start[n] + 2] = Content(ms[n])
    BY <1>9, <2>2 DEF More
  <2>5. start[n + 1] <= L /\ \A i \in 1 .. start[n + 1] : bs[i] = g[n][i]
    <3>1. kept(n, Len(ms))
      BY <1>10, <2>1
    <3>2. start[n + 1] <= L /\ \A i \in 1 .. start[n + 1] : g[Len(ms)][i] = g[n][i]
      BY <2>2, <3>1 DEF L
    <3>3. \A i \in 1 .. start[n + 1] : i \in 1 .. L
      BY <1>12, <2>3, <3>2
    <3>4. QED
      BY <1>14, <3>2, <3>3
  <2>6. start[n] + 1 \in 1 .. start[n + 1]
        /\ (Contents(ms[n]) > 0 => start[n] + 2 \in 1 .. start[n + 1])
    BY <2>3, <2>4
  <2>7. Contents(ms[n]) > 0 => start[n] + 1 < Len(bs)
    BY <1>12, <1>14, <2>3, <2>4, <2>5
  <2>8. QED
    BY <2>4, <2>5, <2>6, <2>7
<1>20. Archived(ms, bs, start)
  BY <1>14, <1>15, <1>17, <1>18, <1>19, Zenon DEF Archived, T
<1>21. QED
  BY <1>20 DEF bs

-----------------------------------------------------------------------------
\* Reading a file of the archive

\* Where initrd_read_file looks after the header in block b.
NextHeader(bs, b) == b + Ceil(oct_to_dec(BlockAt(bs, b).of.size), BlockSize) + 1

\* What it finds from block b on, f being what it finds from later ones on.
ReadAt(f, path, bs, b) ==
  LET m == BlockAt(bs, b).of
  IN  IF b > Len(bs) \/ ~BlockAt(bs, b).ustar THEN NoFile
      ELSE IF m.name = path
        THEN IF oct_to_dec(m.size) = 0 THEN NoFile ELSE BlockAt(bs, b + 1).of
      ELSE f[b + Ceil(oct_to_dec(m.size), BlockSize) + 1]

FoundBy(f, path, bs, D) == f = [b \in D |-> ReadAt(f, path, bs, b)]

Follows(bs, b) == b <= Len(bs) /\ BlockAt(bs, b).ustar

LEMMA ReadAtCases ==
  ASSUME NEW f, NEW path, NEW bs, NEW b \in Nat, Len(bs) \in Nat
  PROVE  /\ ~Follows(bs, b) => ReadAt(f, path, bs, b) = NoFile
         /\ Follows(bs, b) /\ BlockAt(bs, b).of.name = path =>
              ReadAt(f, path, bs, b) =
                IF oct_to_dec(BlockAt(bs, b).of.size) = 0 THEN NoFile
                                                          ELSE BlockAt(bs, b + 1).of
         /\ Follows(bs, b) /\ BlockAt(bs, b).of.name # path =>
              ReadAt(f, path, bs, b) = f[NextHeader(bs, b)]
<1>1. b > Len(bs) <=> ~(b <= Len(bs))
  OBVIOUS
<1>2. QED
  BY <1>1 DEF ReadAt, Follows, NextHeader

LEMMA ReadAtSame ==
  ASSUME NEW f, NEW g, NEW path, NEW bs, NEW b \in Nat, Len(bs) \in Nat,
         Follows(bs, b) => f[NextHeader(bs, b)] = g[NextHeader(bs, b)]
  PROVE  ReadAt(f, path, bs, b) = ReadAt(g, path, bs, b)
BY ReadAtCases

\* Headers lead upwards.
Upwards(bs) ==
  /\ Len(bs) \in Nat
  /\ \A b \in Nat : Follows(bs, b) => NextHeader(bs, b) \in Nat /\ NextHeader(bs, b) > b

LEMMA FoundExists ==
  ASSUME NEW path, NEW bs, Upwards(bs)
  PROVE  \E f : FoundBy(f, path, bs, Nat)
<1> DEFINE D(k) == {b \in Nat : b + k > Len(bs)}
           N == {k \in Nat : \E f : FoundBy(f, path, bs, D(k))}
<1>1. Len(bs) \in Nat
  BY DEF Upwards
<1>2. 0 \in N
  <2> DEFINE f == [b \in D(0) |-> NoFile]
  <2>1. \A b \in D(0) : b \in Nat /\ ~Follows(bs, b)
    BY <1>1 DEF Follows
  <2>2. \A b \in D(0) : ReadAt(f, path, bs, b) = NoFile
    <3> HIDE DEF f, D
    <3>1. QED
      BY <1>1, <2>1, ReadAtCases, Zenon
  <2>3. FoundBy(f, path, bs, D(0))
    <3> HIDE DEF D
    <3>1. QED
      BY <2>2, Zenon DEF FoundBy
  <2>4. QED
    BY <2>3, Zenon
<1>3. ASSUME NEW k \in Nat, k \in N PROVE k + 1 \in N
  <2>1. PICK g : FoundBy(g, path, bs, D(k))
    BY <1>3, Zenon
  <2> DEFINE h == [b \in D(k + 1) |-> ReadAt(g, path, bs, b)]
  <2>2. \A b \in D(k) : g[b] = ReadAt(g, path, bs, b)
    <3> HIDE DEF D
    <3>1. QED
      BY <2>1, Zenon DEF FoundBy
  <2>3. \A b \in D(k) : b \in D(k + 1)
    BY <1>1
  <2>4. \A b \in D(k) : h[b] = g[b]
    <3> HIDE DEF D
    <3>1. QED
      BY <2>2, <2>3, Zenon
  <2>5. ASSUME NEW b \in D(k + 1) PROVE ReadAt(g, path, bs, b) = ReadAt(h, path, bs, b)
    <3>1. Follows(bs, b) => NextHeader(bs, b) \in D(k)
      BY <1>1 DEF Upwards
    <3>2. b \in Nat
      OBVIOUS
    <3> HIDE DEF D, h
    <3>3. Follows(bs, b) => g[NextHeader(bs, b)] = h[NextHeader(bs, b)]
      BY <2>4, <3>1
    <3>4. QED
      BY <1>1, <3>2, <3>3, ReadAtSame
  <2>6. FoundBy(h, path, bs, D(k + 1))
    <3> HIDE DEF D
    <3>1. \A b \in D(k + 1) : h[b] = ReadAt(h, path, bs, b)
      BY <2>5, Zenon
    <3>2. h = [b \in D(k + 1) |-> h[b]]
      BY Zenon
    <3> HIDE DEF h
    <3>3. QED
      BY <3>1, <3>2, Zenon DEF FoundBy
  <2>7. QED
    <3>1. k + 1 \in Nat
      OBVIOUS
    <3>2. QED
      BY <2>6, <3>1, Zenon
<1> HIDE DEF N
<1>4. Len(bs) + 1 \in N
  BY <1>1, <1>2, <1>3, NatsReached
<1>5. D(Len(bs) + 1) = Nat
  BY <1>1
<1>6. QED
  BY <1>4, <1>5, Zenon DEF N

LEMMA BlockOfArchive ==
  ASSUME NEW ms \in Seq(Files), NEW bs, NEW start, Archived(ms, bs, start)
  PROVE  /\ \A b \in Nat : /\ BlockAt(bs, b).of \in Elems(ms) \cup {NoFile}
                           /\ BlockAt(bs, b).ustar => BlockAt(bs, b).of \in Elems(ms)
         /\ Upwards(bs)
<1>1. bs \in Seq([ustar : BOOLEAN, of : Elems(ms) \cup {NoFile}])
  BY DEF Archived
<1>2. /\ Len(bs) \in Nat /\ DOMAIN bs = 1 .. Len(bs)
      /\ \A b \in 1 .. Len(bs) : bs[b].of \in Elems(ms) \cup {NoFile}
      /\ \A b \in 1 .. Len(bs) : bs[b].ustar => bs[b].of \in Elems(ms)
  <2>1. Len(bs) \in Nat /\ DOMAIN bs = 1 .. Len(bs)
    BY <1>1, SeqLen
  <2>2. \A b \in 1 .. Len(bs) : bs[b] \in [ustar : BOOLEAN, of : Elems(ms) \cup {NoFile}]
    BY <1>1, SeqElement, Zenon
  <2>3. \A b \in 1 .. Len(bs) : bs[b].of \in Elems(ms) \cup {NoFile}
    BY <2>2
  <2>4. QED
    BY <2>1, <2>3, Zenon DEF Archived
<1>3. Zero.of = NoFile /\ Zero.ustar = FALSE
  BY DEF Zero
<1>4. ASSUME NEW b \in Nat
      PROVE  /\ BlockAt(bs, b).of \in Elems(ms) \cup {NoFile}
             /\ BlockAt(bs, b).ustar => BlockAt(bs, b).of \in Elems(ms)
  <2>1. CASE b < Len(bs)
    <3>1. b + 1 \in 1 .. Len(bs) /\ BlockAt(bs, b) = bs[b + 1]
      BY <1>2, <2>1 DEF BlockAt
    <3>2. QED
      BY <1>2, <3>1
  <2>2. CASE ~(b < Len(bs))
    BY <1>3, <2>2 DEF BlockAt
  <2>3. QED
    BY <2>1, <2>2
<1>5. ASSUME NEW b \in Nat, Follows(bs, b)
      PROVE  NextHeader(bs, b) \in Nat /\ NextHeader(bs, b) > b
  <2> DEFINE m == BlockAt(bs, b).of
  <2>1. m \in Elems(ms)
    BY <1>4, <1>5 DEF Follows
  <2>2. m \in Files
    BY <2>1, InElems, SeqElement, SeqLen
  <2>3. m.size \in Seq(0 .. 7) \ {<<>>}
    BY <2>2 DEF Files
  <2> HIDE DEF m
  <2>4. oct_to_dec(m.size) \in Nat
    BY <2>3, DecType
  <2>5. Ceil(oct_to_dec(m.size), BlockSize) \in Nat
    BY <2>4, CeilType, ArchivesAssumption, Zenon
  <2>6. QED
    BY <2>5 DEF NextHeader, m
<1>6. QED
  BY <1>2, <1>4, <1>5 DEF Upwards

\* Reading a file is what ReadAt says, from the first block on.
LEMMA ReadsBlocks ==
  ASSUME NEW path, NEW bs, Upwards(bs)
  PROVE  \E f : /\ initrd_read_file(path, bs) = f[0]
                /\ \A b \in Nat : f[b] = ReadAt(f, path, bs, b)
<1> DEFINE f == CHOOSE f : FoundBy(f, path, bs, Nat)
<1>1. FoundBy(f, path, bs, Nat)
  BY FoundExists, Zenon
<1>2. initrd_read_file(path, bs) = f[0]
  BY Zenon DEF initrd_read_file, FoundBy, ReadAt
<1> HIDE DEF f
<1>3. \A b \in Nat : f[b] = ReadAt(f, path, bs, b)
  BY <1>1, Zenon DEF FoundBy
<1>4. QED
  BY <1>2, <1>3, Zenon

\* What is read is a member of the archive, if anything is.
LEMMA ReadsMember ==
  ASSUME NEW path, NEW ms \in Seq(Files)
  PROVE  initrd_read_file(path, Blocks(ms)) \in Elems(ms) \cup {NoFile}
<1> DEFINE bs == Blocks(ms)
           T  == Elems(ms) \cup {NoFile}
<1>1. PICK start : Archived(ms, bs, start)
  BY BlocksArchived
<1> HIDE DEF bs
<1>2. Upwards(bs) /\ \A b \in Nat : BlockAt(bs, b).of \in T
  BY <1>1, BlockOfArchive, Zenon
<1>3. PICK f : /\ initrd_read_file(path, bs) = f[0]
               /\ \A b \in Nat : f[b] = ReadAt(f, path, bs, b)
  BY <1>2, ReadsBlocks, Zenon
<1>4. Len(bs) \in Nat /\ NoFile \in T
  BY <1>2 DEF Upwards
<1> HIDE DEF T
<1> DEFINE B == {d \in Nat : \E b \in Nat : d + b = Len(bs) /\ f[b] \notin T}
<1>5. ASSUME NEW b \in Nat, f[b] \notin T
      PROVE  /\ b <= Len(bs) /\ NextHeader(bs, b) \in Nat /\ NextHeader(bs, b) > b
             /\ f[NextHeader(bs, b)] \notin T
  <2>1. f[b] = ReadAt(f, path, bs, b) /\ BlockAt(bs, b + 1).of \in T
    BY <1>2, <1>3
  <2>2. Follows(bs, b)
    BY <1>4, <1>5, <2>1, ReadAtCases
  <2>3. BlockAt(bs, b).of.name # path
    BY <1>4, <1>5, <2>1, <2>2, ReadAtCases
  <2>4. f[b] = f[NextHeader(bs, b)]
    BY <1>4, <2>1, <2>2, <2>3, ReadAtCases
  <2>5. QED
    BY <1>2, <1>5, <2>2, <2>4 DEF Upwards, Follows
<1>6. \A b \in Nat : f[b] \in T
  <2>1. SUFFICES ASSUME NEW b \in Nat, f[b] \notin T PROVE FALSE
    OBVIOUS
  <2>2. Len(bs) - b \in B
    <3>1. Len(bs) - b \in Nat /\ (Len(bs) - b) + b = Len(bs)
      BY <1>4, <1>5, <2>1
    <3>2. QED
      BY <2>1, <3>1
  <2>3. B \in SUBSET Nat
    OBVIOUS
  <2>4. PICK x \in B : \A y \in B : x <= y
    <3> HIDE DEF B
    <3>1. QED
      BY <2>2, <2>3, LeastOfNats
  <2>5. PICK c \in Nat : x + c = Len(bs) /\ f[c] \notin T
    BY <2>4
  <2> DEFINE n == NextHeader(bs, c)
  <2>6. n \in Nat /\ n > c /\ f[n] \notin T
    BY <1>5, <2>5
  <2> HIDE DEF n
  <2>7. n <= Len(bs)
    BY <1>5, <2>6
  <2>8. Len(bs) - n \in Nat /\ (Len(bs) - n) + n = Len(bs) /\ Len(bs) - n < x
    BY <1>4, <2>4, <2>5, <2>6, <2>7
  <2>9. Len(bs) - n \in B
    BY <2>6, <2>8, Zenon
  <2>10. QED
    BY <2>4, <2>8, <2>9
<1>7. QED
  BY <1>3, <1>6 DEF bs, T

\* The members of ms called path.
Named(ms, path) == {i \in DOMAIN ms : ms[i].name = path}

\* When size fields begin with 0, what is read is the first member of that
\* name, unless it is empty.
LEMMA ReadsFirst ==
  ASSUME NEW path, NEW ms \in Seq(Files), \A i \in DOMAIN ms : ms[i].size[1] = 0
  PROVE  initrd_read_file(path, Blocks(ms)) =
           IF Named(ms, path) = {} THEN NoFile
           ELSE IF Octal(ms[Min(Named(ms, path))].size, 1) = 0 THEN NoFile
           ELSE ms[Min(Named(ms, path))]
<1> DEFINE bs == Blocks(ms)
           L  == Len(ms)
<1>1. PICK start : Archived(ms, bs, start)
  BY BlocksArchived
<1> HIDE DEF bs
<1>0. Upwards(bs)
  BY <1>1, BlockOfArchive, Zenon
<1>2. Len(bs) \in Nat
  BY <1>0 DEF Upwards
<1>3. PICK f : /\ initrd_read_file(path, bs) = f[0]
               /\ \A b \in Nat : f[b] = ReadAt(f, path, bs, b)
  BY <1>0, ReadsBlocks
<1>4. L \in Nat /\ DOMAIN ms = 1 .. L /\ \A i \in 1 .. L : ms[i] \in Files
  BY SeqLen, SeqElement
<1>5. /\ \A n \in 1 .. L + 1 : start[n] \in Nat /\ start[n] < Len(bs)
      /\ start[1] = 0 /\ bs[start[L + 1] + 1] = Zero
  BY <1>1, Zenon DEF Archived
<1>6. ASSUME NEW n \in 1 .. L
      PROVE  /\ oct_to_dec(ms[n].size) = Octal(ms[n].size, 1)
             /\ Octal(ms[n].size, 1) \in Nat
             /\ Octal(ms[n].size, 1) > 0 => Contents(ms[n]) > 0
             /\ start[n] \in Nat /\ Follows(bs, start[n])
             /\ BlockAt(bs, start[n]).of = ms[n]
             /\ NextHeader(bs, start[n]) = start[n + 1]
             /\ Octal(ms[n].size, 1) > 0 => BlockAt(bs, start[n] + 1).of = ms[n]
  <2>1. n \in 1 .. L + 1
    BY <1>4
  <2>2. start[n] \in Nat /\ start[n] < Len(bs) /\ start[n] <= Len(bs)
    BY <1>2, <1>5, <2>1
  <2>3. /\ start[n + 1] = start[n] + 1 + Contents(ms[n])
        /\ bs[start[n] + 1] = Header(ms[n])
        /\ Contents(ms[n]) > 0 =>
             start[n] + 1 < Len(bs) /\ bs[start[n] + 2] = Content(ms[n])
    BY <1>1, Zenon DEF Archived
  <2>4. BlockAt(bs, start[n]) = Header(ms[n])
    BY <2>2, <2>3 DEF BlockAt
  <2>5. /\ Header(ms[n]).ustar /\ Header(ms[n]).of = ms[n]
        /\ Content(ms[n]).of = ms[n]
    BY DEF Header, Content
  <2>6. ms[n].size \in Seq(0 .. 7) \ {<<>>} /\ ms[n].size[1] = 0
    BY <1>4 DEF Files
  <2>7. /\ oct_to_dec(ms[n].size) = Octal(ms[n].size, 1)
        /\ oct_to_dec(ms[n].size) \in Nat
    BY <2>6, DecType
  <2>8. Contents(ms[n]) \in Nat /\ (Octal(ms[n].size, 1) > 0 => Contents(ms[n]) > 0)
    BY <2>7, CeilType, ArchivesAssumption, Zenon DEF Contents
  <2>9. NextHeader(bs, start[n]) = start[n] + Contents(ms[n]) + 1
    BY <2>4, <2>5, <2>7 DEF NextHeader, Contents
  <2>10. ASSUME Octal(ms[n].size, 1) > 0 PROVE BlockAt(bs, start[n] + 1).of = ms[n]
    <3>1. start[n] + 1 < Len(bs) /\ bs[start[n] + 2] = Content(ms[n])
      BY <2>3, <2>8, <2>10
    <3>2. (start[n] + 1) + 1 = start[n] + 2
      BY <2>2
    <3>3. BlockAt(bs, start[n] + 1) = bs[start[n] + 2]
      BY <3>1, <3>2 DEF BlockAt
    <3>4. QED
      BY <2>5, <3>1, <3>3
  <2>11. NextHeader(bs, start[n]) = start[n + 1]
    BY <2>2, <2>3, <2>8, <2>9
  <2>12. Follows(bs, start[n]) /\ BlockAt(bs, start[n]).of = ms[n]
    BY <2>2, <2>4, <2>5 DEF Follows
  <2>13. QED
    BY <2>2, <2>7, <2>8, <2>10, <2>11, <2>12
\* The headers before the first member of that name lead from one to the next.
<1> DEFINE N == {n \in Nat : n + 1 <= L + 1 /\ (\A j \in 1 .. n : ms[j].name # path) =>
                               f[start[n + 1]] = f[0]}
<1>7. Nat \subseteq N
  <2>1. 0 \in N
    BY <1>5
  <2>2. ASSUME NEW n \in Nat, n \in N PROVE n + 1 \in N
    <3>1. SUFFICES ASSUME (n + 1) + 1 <= L + 1, \A j \in 1 .. n + 1 : ms[j].name # path
                   PROVE  f[start[(n + 1) + 1]] = f[0]
      OBVIOUS
    <3>2. n + 1 \in 1 .. L /\ n + 1 <= L + 1 /\ n + 1 \in 1 .. n + 1
          /\ \A j \in 1 .. n : j \in 1 .. n + 1
      BY <1>4, <3>1
    <3>3. f[start[n + 1]] = f[0]
      BY <2>2, <3>1, <3>2
    <3>4. /\ start[n + 1] \in Nat /\ Follows(bs, start[n + 1])
          /\ BlockAt(bs, start[n + 1]).of = ms[n + 1]
          /\ NextHeader(bs, start[n + 1]) = start[(n + 1) + 1]
      BY <1>6, <3>2
    <3>5. f[start[n + 1]] = f[NextHeader(bs, start[n + 1])]
      BY <1>2, <1>3, <3>1, <3>2, <3>4, ReadAtCases
    <3>6. QED
      BY <3>3, <3>4, <3>5
  <2> HIDE DEF N
  <2>3. QED
    BY <2>1, <2>2, NatsReached
<1>8. ASSUME NEW n \in 1 .. L + 1, \A j \in 1 .. n - 1 : ms[j].name # path
      PROVE  f[start[n]] = f[0]
  <2>1. n - 1 \in Nat /\ (n - 1) + 1 = n /\ n <= L + 1
    BY <1>4
  <2>2. n - 1 \in N
    BY <1>7, <2>1, Zenon
  <2>3. QED
    BY <1>8, <2>1, <2>2
<1> HIDE DEF N
<1>9. CASE Named(ms, path) = {}
  <2>1. \A j \in 1 .. L : ms[j].name # path
    BY <1>4, <1>9 DEF Named
  <2>2. L + 1 \in 1 .. L + 1 /\ (L + 1) - 1 = L
    BY <1>4
  <2>3. f[0] = f[start[L + 1]] /\ start[L + 1] \in Nat /\ start[L + 1] < Len(bs)
    BY <1>5, <1>8, <2>1, <2>2
  <2>4. BlockAt(bs, start[L + 1]) = Zero
    BY <1>5, <2>3 DEF BlockAt
  <2>5. ~Follows(bs, start[L + 1])
    BY <2>4 DEF Follows, Zero
  <2>6. f[0] = NoFile
    BY <1>2, <1>3, <2>3, <2>5, ReadAtCases
  <2>7. QED
    BY <1>3, <1>9, <2>6 DEF bs
<1>10. CASE Named(ms, path) # {}
  <2> DEFINE k == Min(Named(ms, path))
  <2>1. Named(ms, path) \in SUBSET Nat
    BY <1>4 DEF Named
  <2>2. k \in Named(ms, path) /\ \A j \in Named(ms, path) : k <= j
    BY <1>10, <2>1, MinOfNats
  <2> HIDE DEF k
  <2>3. k \in 1 .. L /\ k \in 1 .. L + 1 /\ ms[k].name = path
    BY <1>4, <2>2 DEF Named
  <2>4. \A j \in 1 .. k - 1 : j \in DOMAIN ms /\ ~(k <= j)
    BY <1>4, <2>3
  <2>5. \A j \in 1 .. k - 1 : ms[j].name # path
    BY <2>2, <2>4 DEF Named
  <2>6. f[0] = f[start[k]]
    BY <1>8, <2>3, <2>5
  <2>7. /\ oct_to_dec(ms[k].size) = Octal(ms[k].size, 1) /\ Octal(ms[k].size, 1) \in Nat
        /\ start[k] \in Nat /\ Follows(bs, start[k]) /\ BlockAt(bs, start[k]).of = ms[k]
        /\ Octal(ms[k].size, 1) > 0 => BlockAt(bs, start[k] + 1).of = ms[k]
    BY <1>6, <2>3
  <2>8. f[start[k]] = IF Octal(ms[k].size, 1) = 0 THEN NoFile
                                                  ELSE BlockAt(bs, start[k] + 1).of
    BY <1>2, <1>3, <2>3, <2>7, ReadAtCases
  <2>9. f[0] = IF Octal(ms[k].size, 1) = 0 THEN NoFile ELSE ms[k]
    BY <2>6, <2>7, <2>8
  <2>10. QED
    BY <1>3, <1>10, <2>9 DEF bs, k
<1>11. QED
  BY <1>9, <1>10

-----------------------------------------------------------------------------
\* Lists of ranges

\* new is list with r before position i, without position i, with r at i.
IsInsert(new, list, i, r) ==
  /\ IsList(new) /\ Len(new) = Len(list) + 1
  /\ \A j \in 1 .. i - 1 : new[j] = list[j]
  /\ new[i] = r
  /\ \A j \in i + 1 .. Len(list) + 1 : new[j] = list[j - 1]
IsRemoval(new, list, i) ==
  /\ IsList(new) /\ Len(new) = Len(list) - 1
  /\ \A j \in 1 .. i - 1 : new[j] = list[j]
  /\ \A j \in i .. Len(list) - 1 : new[j] = list[j + 1]
IsReplacement(new, list, i, r) ==
  /\ IsList(new) /\ Len(new) = Len(list) /\ DOMAIN new = DOMAIN list
  /\ new[i] = r
  /\ \A j \in DOMAIN list \ {i} : new[j] = list[j]

LEMMA InsertedList ==
  ASSUME NEW list, IsList(list), NEW i \in 1 .. Len(list) + 1, NEW r
  PROVE  IsInsert(InsertAt(list, i, r), list, i, r)
BY DEF IsList, InsertAt, IsInsert

LEMMA RemovedList ==
  ASSUME NEW list, IsList(list), NEW i \in DOMAIN list
  PROVE  IsRemoval(RemoveAt(list, i), list, i)
BY DEF IsList, RemoveAt, IsRemoval

LEMMA ReplacedList ==
  ASSUME NEW list, IsList(list), NEW i \in DOMAIN list, NEW r
  PROVE  IsReplacement([list EXCEPT ![i] = r], list, i, r)
BY DEF IsList, IsReplacement

LEMMA InCover ==
  ASSUME NEW list, NEW v
  PROVE  v \in Cover(list) <=> \E i \in DOMAIN list : v \in PagesOf(list[i])
BY Zenon DEF Cover

LEMMA InsertedSpread ==
  ASSUME NEW list, Spread(list), NEW i \in 1 .. Len(list) + 1,
         NEW r, IsRange(r), PagesOf(r) \cap Cover(list) = {},
         NEW new, IsInsert(new, list, i, r)
  PROVE  /\ Spread(new)
         /\ Cover(new) = Cover(list) \cup PagesOf(r)
<1> DEFINE from(j) == IF j < i THEN j ELSE j - 1
<1>1. /\ IsList(list) /\ IsList(new) /\ Len(new) = Len(list) + 1
      /\ \A j \in 1 .. i - 1 : new[j] = list[j]
      /\ new[i] = r
      /\ \A j \in i + 1 .. Len(list) + 1 : new[j] = list[j - 1]
  BY Zenon DEF Spread, IsInsert
<1>2. \A j \in DOMAIN new : j # i => from(j) \in DOMAIN list /\ new[j] = list[from(j)]
  BY <1>1 DEF IsList
<1>3. i \in DOMAIN new /\ new[i] = r
  BY <1>1 DEF IsList
<1>4. \A j, k \in DOMAIN new : j # i /\ k # i /\ j # k => from(j) # from(k)
  BY <1>1 DEF IsList
<1>5. \A j \in DOMAIN list : \E k \in DOMAIN new : new[k] = list[j]
  <2>1. TAKE j \in DOMAIN list
  <2>2. CASE j < i
    <3>1. j \in DOMAIN new /\ new[j] = list[j]
      BY <1>1, <2>2 DEF IsList
    <3>2. QED
      BY <3>1
  <2>3. CASE ~(j < i)
    <3>1. j + 1 \in DOMAIN new /\ new[j + 1] = list[j]
      BY <1>1, <2>3 DEF IsList
    <3>2. QED
      BY <3>1
  <2>4. QED
    BY <2>2, <2>3
<1> HIDE DEF from
<1>6. \A j \in DOMAIN list : PagesOf(list[j]) \subseteq Cover(list)
  BY Zenon DEF Cover
<1>7. ASSUME NEW j \in DOMAIN new, NEW k \in DOMAIN new, j # k
      PROVE  PagesOf(new[j]) \cap PagesOf(new[k]) = {}
  <2>1. CASE j # i /\ k # i
    BY <1>2, <1>4, <1>7, <2>1, Zenon DEF Spread
  <2>2. CASE j = i
    <3>1. from(k) \in DOMAIN list /\ new[k] = list[from(k)]
      BY <1>2, <1>7, <2>2
    <3>2. PagesOf(new[k]) \subseteq Cover(list)
      BY <1>6, <3>1
    <3>3. QED
      BY <1>3, <2>2, <3>2
  <2>3. CASE k = i
    <3>1. from(j) \in DOMAIN list /\ new[j] = list[from(j)]
      BY <1>2, <1>7, <2>3
    <3>2. PagesOf(new[j]) \subseteq Cover(list)
      BY <1>6, <3>1
    <3>3. QED
      BY <1>3, <2>3, <3>2
  <2>4. QED
    BY <2>1, <2>2, <2>3
<1>8. \A j \in DOMAIN new : IsRange(new[j])
  BY <1>2, <1>3, Zenon DEF Spread
<1>9. Cover(new) = Cover(list) \cup PagesOf(r)
  <2>1. ASSUME NEW v \in Cover(new), v \notin PagesOf(r)
        PROVE  v \in Cover(list)
    <3>1. PICK j \in DOMAIN new : v \in PagesOf(new[j])
      BY InCover, Zenon
    <3>2. j # i
      BY <1>3, <2>1, <3>1
    <3>3. QED
      BY <1>2, <3>1, <3>2, InCover, Zenon
  <2>2. ASSUME NEW v \in Cover(list)
        PROVE  v \in Cover(new)
    BY <1>5, InCover, Zenon
  <2>3. PagesOf(r) \subseteq Cover(new)
    BY <1>3, InCover, Zenon
  <2>4. QED
    BY <2>1, <2>2, <2>3, Zenon
<1>10. IsList(new)
  BY <1>1
<1>11. QED
  BY <1>7, <1>8, <1>9, <1>10, Zenon DEF Spread

LEMMA RemovedSpread ==
  ASSUME NEW list, Spread(list), NEW i \in DOMAIN list,
         NEW new, IsRemoval(new, list, i)
  PROVE  /\ Spread(new)
         /\ Cover(new) = Cover(list) \ PagesOf(list[i])
<1> DEFINE from(j) == IF j < i THEN j ELSE j + 1
<1>1. /\ IsList(list) /\ IsList(new) /\ Len(new) = Len(list) - 1
      /\ \A j \in 1 .. i - 1 : new[j] = list[j]
      /\ \A j \in i .. Len(list) - 1 : new[j] = list[j + 1]
  BY Zenon DEF Spread, IsRemoval
<1>2. \A j \in DOMAIN new : from(j) \in DOMAIN list \ {i} /\ new[j] = list[from(j)]
  BY <1>1 DEF IsList
<1>3. \A j, k \in DOMAIN new : j # k => from(j) # from(k)
  BY <1>1 DEF IsList
<1>4. \A j \in DOMAIN list \ {i} : \E k \in DOMAIN new : new[k] = list[j]
  <2>1. TAKE j \in DOMAIN list \ {i}
  <2>2. CASE j < i
    <3>1. j \in DOMAIN new /\ new[j] = list[j]
      BY <1>1, <2>2 DEF IsList
    <3>2. QED
      BY <3>1
  <2>3. CASE ~(j < i)
    <3>1. j - 1 \in DOMAIN new /\ new[j - 1] = list[j]
      BY <1>1, <2>3 DEF IsList
    <3>2. QED
      BY <3>1
  <2>4. QED
    BY <2>2, <2>3
<1> HIDE DEF from
<1>5. Cover(new) = UNION {PagesOf(list[j]) : j \in DOMAIN list \ {i}}
  BY <1>2, <1>4, Zenon DEF Cover
<1>6. \A j \in DOMAIN list \ {i} : PagesOf(list[j]) \cap PagesOf(list[i]) = {}
  BY Zenon DEF Spread
<1>7. Cover(new) = Cover(list) \ PagesOf(list[i])
  BY <1>5, <1>6, Zenon DEF Cover
<1>8. /\ \A j \in DOMAIN new : IsRange(new[j])
      /\ \A j, k \in DOMAIN new : j # k => PagesOf(new[j]) \cap PagesOf(new[k]) = {}
  BY <1>2, <1>3, Zenon DEF Spread
<1>9. QED
  BY <1>1, <1>7, <1>8, Zenon DEF Spread

LEMMA ReplacedSpread ==
  ASSUME NEW list, Spread(list), NEW i \in DOMAIN list,
         NEW r, IsRange(r), PagesOf(r) \cap (Cover(list) \ PagesOf(list[i])) = {},
         NEW new, IsReplacement(new, list, i, r)
  PROVE  /\ Spread(new)
         /\ Cover(new) = (Cover(list) \ PagesOf(list[i])) \cup PagesOf(r)
<1>1. /\ IsList(new) /\ DOMAIN new = DOMAIN list
      /\ new[i] = r
      /\ \A j \in DOMAIN list \ {i} : new[j] = list[j]
  BY Zenon DEF IsReplacement
<1>2. \A j \in DOMAIN list \ {i} : PagesOf(list[j]) \cap PagesOf(list[i]) = {}
  BY Zenon DEF Spread
<1>3. \A j \in DOMAIN list \ {i} : PagesOf(list[j]) \subseteq Cover(list) \ PagesOf(list[i])
  BY <1>2, Zenon DEF Cover
<1>4. ASSUME NEW v
      PROVE  v \in Cover(new) <=> v \in (Cover(list) \ PagesOf(list[i])) \cup PagesOf(r)
  <2>1. ASSUME v \in Cover(new), v \notin PagesOf(r)
        PROVE  v \in Cover(list) \ PagesOf(list[i])
    <3>1. PICK j \in DOMAIN new : v \in PagesOf(new[j])
      BY <2>1, InCover, Zenon
    <3>2. j \in DOMAIN list \ {i} /\ new[j] = list[j]
      BY <1>1, <2>1, <3>1, Zenon
    <3>3. QED
      BY <1>3, <3>1, <3>2, Zenon
  <2>2. ASSUME v \in Cover(list) \ PagesOf(list[i])
        PROVE  v \in Cover(new)
    <3>1. PICK j \in DOMAIN list : v \in PagesOf(list[j])
      BY <2>2, InCover, Zenon
    <3>2. j \in DOMAIN new /\ new[j] = list[j]
      BY <1>1, <2>2, <3>1, Zenon
    <3>3. QED
      BY <3>1, <3>2, InCover, Zenon
  <2>3. v \in PagesOf(r) => v \in Cover(new)
    BY <1>1, InCover, Zenon
  <2>4. QED
    BY <2>1, <2>2, <2>3, Zenon
<1>5. \A j \in DOMAIN list \ {i} : PagesOf(list[j]) \cap PagesOf(r) = {}
  BY <1>3, Zenon
<1>6. ASSUME NEW j \in DOMAIN new, NEW k \in DOMAIN new, j # k
      PROVE  PagesOf(new[j]) \cap PagesOf(new[k]) = {}
  <2>1. CASE j = i
    <3>1. k \in DOMAIN list \ {i} /\ new[k] = list[k] /\ new[j] = r
      BY <1>1, <1>6, <2>1, Zenon
    <3>2. QED
      BY <1>5, <3>1
  <2>2. CASE k = i
    <3>1. j \in DOMAIN list \ {i} /\ new[j] = list[j] /\ new[k] = r
      BY <1>1, <1>6, <2>2, Zenon
    <3>2. QED
      BY <1>5, <3>1
  <2>3. CASE j # i /\ k # i
    <3>1. new[j] = list[j] /\ new[k] = list[k] /\ j \in DOMAIN list /\ k \in DOMAIN list
      BY <1>1, <2>3, Zenon
    <3>2. QED
      BY <1>6, <3>1, Zenon DEF Spread
  <2>4. QED
    BY <2>1, <2>2, <2>3
<1>7. \A j \in DOMAIN new : IsRange(new[j])
  BY <1>1, Zenon DEF Spread
<1>8. IsList(new)
  BY <1>1
<1>9. Cover(new) = (Cover(list) \ PagesOf(list[i])) \cup PagesOf(r)
  BY <1>4, Zenon
<1>10. QED
  BY <1>6, <1>7, <1>8, <1>9, Zenon DEF Spread

-----------------------------------------------------------------------------
\* merge_holes

AnyHole == [base : Int, size : Int]
Hole == {h \in AnyHole : IsRange(h)}

\* Lists of holes that have no page in common.
HoleList(list) == list \in Seq(Hole) /\ Spread(list)

LEMMA SeqIsList ==
  ASSUME NEW S, NEW list \in Seq(S)
  PROVE  IsList(list)
BY SeqLen DEF IsList

LEMMA HoleIsRange ==
  ASSUME NEW r \in Hole
  PROVE  /\ IsRange(r) /\ r \in AnyHole
         /\ First(r) \in Nat \ {0} /\ r.size \in Nat \ {0} /\ Past(r) \in Nat \ {0}
BY RangeEnd DEF Hole

LEMMA HoleMade ==
  ASSUME NEW p \in Nat \ {0}, NEW size \in Nat \ {0},
         NEW h, h = [base |-> p * PageSize, size |-> size]
  PROVE  h \in Hole /\ First(h) = p /\ h.size = size
<1>1. h.base = p * PageSize /\ h.size = size
  OBVIOUS
<1>2. IsRange(h) /\ First(h) = p
  BY <1>1, RangeAt
<1>3. p * PageSize \in Int
  BY SizesAssumption
<1>4. h \in AnyHole
  BY <1>3 DEF AnyHole
<1>5. QED
  BY <1>1, <1>2, <1>4 DEF Hole

\* A hole whose size is changed.
LEMMA HoleResized ==
  ASSUME NEW h \in Hole, NEW size \in Nat \ {0}, NEW r, r = [h EXCEPT !.size = size]
  PROVE  r \in Hole /\ First(r) = First(h) /\ r.size = size
<1>1. r \in AnyHole /\ r.base = h.base /\ r.size = size
  BY DEF Hole, AnyHole
<1>2. First(r) = First(h)
  BY <1>1 DEF First
<1>3. IsRange(h)
  BY HoleIsRange
<1>4. IsRange(r)
  BY <1>1, <1>2, <1>3 DEF IsRange
<1>5. QED
  BY <1>1, <1>2, <1>4 DEF Hole

\* One step of merge_holes: the pages of h are added to those of acc.
LEMMA JoinedHoles ==
  ASSUME NEW acc, HoleList(acc), NEW h \in Hole, PagesOf(h) \cap Cover(acc) = {}
  PROVE  /\ HoleList(JoinHole(acc, h))
         /\ Cover(JoinHole(acc, h)) = Cover(acc) \cup PagesOf(h)
<1> DEFINE n == Len(acc)
<1>1. acc \in Seq(Hole) /\ Spread(acc)
  BY DEF HoleList
<1>2. n \in Nat /\ DOMAIN acc = 1 .. n /\ IsList(acc)
  BY <1>1, SeqLen DEF IsList
<1>3. IsRange(h)
  BY HoleIsRange
<1>4. CASE acc # <<>> /\ End(acc[n]) = h.base
  <2>1. n \in DOMAIN acc /\ acc[n] \in Hole
    BY <1>1, <1>2, <1>4, SeqEmpty, SeqElement
  <2> DEFINE r == [acc[n] EXCEPT !.size = acc[n].size + h.size]
  <2>14. acc[n].size + h.size \in Nat \ {0}
    BY <2>1, HoleIsRange
  <2>2. First(r) = First(acc[n]) /\ r.size = acc[n].size + h.size /\ r \in Hole
    BY <2>1, <2>14, HoleResized
  <2> DEFINE new == [acc EXCEPT ![n] = r]
  <2>3. JoinHole(acc, h) = new
    BY <1>4 DEF JoinHole
  <2>4. new \in Seq(Hole)
    <3> HIDE DEF r
    <3>1. QED
      BY <1>1, <1>2, <2>1, <2>2, SeqExcept
  <2>5. PagesOf(r) = PagesOf(acc[n]) \cup PagesOf(h)
    <3> HIDE DEF r
    <3>1. Past(acc[n]) = First(h)
      BY <1>3, <1>4, <2>1, HoleIsRange, RangeOrder
    <3>2. /\ First(acc[n]) \in Nat /\ acc[n].size \in Nat \ {0}
          /\ First(h) \in Nat /\ h.size \in Nat \ {0}
      BY <2>1, HoleIsRange
    <3>3. /\ First(r) = First(acc[n]) /\ Past(r) = Past(h)
          /\ First(acc[n]) <= Past(acc[n]) /\ Past(acc[n]) <= Past(h)
          /\ First(r) \in Int /\ Past(acc[n]) \in Int /\ Past(h) \in Int
      BY <2>2, <3>1, <3>2 DEF Past
    <3>4. QED
      BY <2>1, <2>2, <3>1, <3>3, IntervalCut, RangePages, HoleIsRange
  <2>6. IsReplacement(new, acc, n, r)
    BY <1>2, <2>1, ReplacedList, Zenon
  <2> HIDE DEF new, r, n
  <2>7. PagesOf(acc[n]) \cap (Cover(acc) \ PagesOf(acc[n])) = {}
    BY Zenon
  <2>8. PagesOf(r) \cap (Cover(acc) \ PagesOf(acc[n])) = {}
    BY <2>5, Zenon
  <2>9. IsRange(r)
    BY <2>2, HoleIsRange
  <2>10. /\ Spread(new)
         /\ Cover(new) = (Cover(acc) \ PagesOf(acc[n])) \cup PagesOf(r)
    BY <1>1, <2>1, <2>6, <2>8, <2>9, ReplacedSpread
  <2>11. PagesOf(acc[n]) \subseteq Cover(acc)
    BY <2>1, InCover, Zenon
  <2>12. (Cover(acc) \ PagesOf(acc[n])) \cup PagesOf(r) = Cover(acc) \cup PagesOf(h)
    BY <2>5, <2>11, Zenon
  <2>13. QED
    BY <2>3, <2>4, <2>10, <2>12, Zenon DEF HoleList
<1>5. CASE ~(acc # <<>> /\ End(acc[n]) = h.base)
  <2> DEFINE new == Append(acc, h)
  <2>1. JoinHole(acc, h) = new
    BY <1>5 DEF JoinHole
  <2>2. new \in Seq(Hole)
    BY <1>1, SeqAppend, Zenon
  <2>3. IsInsert(new, acc, n + 1, h)
    <3>1. /\ Len(new) = n + 1 /\ new[n + 1] = h
          /\ \A i \in 1 .. n : new[i] = acc[i]
      BY <1>1, SeqAppend
    <3>2. IsList(new)
      BY <2>2, SeqIsList, Zenon
    <3> HIDE DEF new, n
    <3>3. Len(acc) = n /\ n \in Nat
      BY <1>2 DEF n
    <3>4. QED
      BY <3>1, <3>2, <3>3 DEF IsInsert
  <2>4. n + 1 \in 1 .. Len(acc) + 1
    BY <1>2
  <2> HIDE DEF new, n
  <2>5. Spread(new) /\ Cover(new) = Cover(acc) \cup PagesOf(h)
    BY <1>1, <1>3, <2>3, <2>4, InsertedSpread, Zenon
  <2>6. QED
    BY <2>1, <2>2, <2>5, Zenon DEF HoleList
<1>6. QED
  BY <1>4, <1>5

MergedBy(g, list, m) ==
  g = [n \in 0 .. m |-> IF n = 0 THEN <<>> ELSE JoinHole(g[n - 1], list[n])]

LEMMA MergedExists ==
  ASSUME NEW list
  PROVE  \A m \in Nat : \E g : MergedBy(g, list, m)
<1> DEFINE N == {m \in Nat : \E g : MergedBy(g, list, m)}
<1>1. 0 \in N
  <2>1. MergedBy([n \in 0 .. 0 |-> <<>>], list, 0)
    BY DEF MergedBy
  <2>2. QED
    BY <2>1
<1>2. ASSUME NEW m \in Nat, m \in N PROVE m + 1 \in N
  <2>1. PICK g : MergedBy(g, list, m)
    BY <1>2
  <2> DEFINE h == [n \in 0 .. m + 1 |-> IF n = 0 THEN <<>> ELSE JoinHole(g[n - 1], list[n])]
  <2>2. \A n \in 0 .. m : g[n] = IF n = 0 THEN <<>> ELSE JoinHole(g[n - 1], list[n])
    BY <2>1, Zenon DEF MergedBy
  <2>3. \A n \in 0 .. m + 1 : h[n] = IF n = 0 THEN <<>> ELSE JoinHole(g[n - 1], list[n])
    BY Zenon
  <2>4. DOMAIN h = 0 .. m + 1 /\ h = [n \in 0 .. m + 1 |-> h[n]]
    BY Zenon
  <2> HIDE DEF h
  <2>5. \A n \in 0 .. m : h[n] = g[n] /\ n \in 0 .. m + 1
    BY <2>2, <2>3
  <2>6. \A n \in 0 .. m + 1 : n # 0 => h[n - 1] = g[n - 1]
    BY <2>5
  <2>7. \A n \in 0 .. m + 1 : h[n] = IF n = 0 THEN <<>> ELSE JoinHole(h[n - 1], list[n])
    BY <2>3, <2>6
  <2>8. MergedBy(h, list, m + 1)
    BY <2>4, <2>7, Zenon DEF MergedBy
  <2>9. QED
    BY <2>8
<1> HIDE DEF N
<1>3. Nat \subseteq N
  BY <1>1, <1>2, NatsReached
<1>4. QED
  BY <1>3 DEF N

\* What is covered by the first n entries of a list.
CoverTo(list, n) == UNION {PagesOf(list[i]) : i \in 1 .. n}

\* Merging keeps the pages that the holes cover, and the holes apart.
LEMMA MergedHoles ==
  ASSUME NEW list, HoleList(list)
  PROVE  HoleList(MergeHoles(list)) /\ Cover(MergeHoles(list)) = Cover(list)
<1> DEFINE g == CHOOSE g : MergedBy(g, list, Len(list))
           N == {n \in Nat : n <= Len(list) =>
                   HoleList(g[n]) /\ Cover(g[n]) = CoverTo(list, n)}
<1>1. list \in Seq(Hole) /\ Spread(list) /\ Len(list) \in Nat /\ DOMAIN list = 1 .. Len(list)
  BY SeqLen DEF HoleList
<1>2. MergedBy(g, list, Len(list))
  BY <1>1, MergedExists, Zenon
<1>3. MergeHoles(list) = g[Len(list)]
  BY Zenon DEF MergeHoles, MergedBy
<1> HIDE DEF g
<1>4. \A n \in 0 .. Len(list) : g[n] = IF n = 0 THEN <<>> ELSE JoinHole(g[n - 1], list[n])
  BY <1>2, Zenon DEF MergedBy
<1>5. 0 \in N
  <2>1. g[0] = <<>>
    BY <1>1, <1>4
  <2>2. <<>> \in Seq(Hole) /\ Len(<<>>) = 0 /\ DOMAIN <<>> = {}
    BY SeqEmpty
  <2>3. HoleList(<<>>)
    BY <2>2 DEF HoleList, Spread, IsList
  <2>4. Cover(<<>>) = {}
    BY <2>2, Zenon DEF Cover
  <2>5. 1 .. 0 = {}
    OBVIOUS
  <2>6. CoverTo(list, 0) = {}
    BY <2>5, Zenon DEF CoverTo
  <2>7. QED
    BY <2>1, <2>3, <2>4, <2>6, Zenon
<1>6. ASSUME NEW n \in Nat, n \in N PROVE n + 1 \in N
  <2>1. SUFFICES ASSUME n + 1 <= Len(list)
                 PROVE  /\ HoleList(g[n + 1])
                        /\ Cover(g[n + 1]) = CoverTo(list, n + 1)
    OBVIOUS
  <2>2. HoleList(g[n]) /\ Cover(g[n]) = CoverTo(list, n)
    BY <1>1, <1>6, <2>1
  <2>3. g[n + 1] = JoinHole(g[n], list[n + 1])
    BY <1>1, <1>4, <2>1
  <2>4. n + 1 \in DOMAIN list /\ list[n + 1] \in Hole
    BY <1>1, <2>1, SeqElement
  <2>5. \A i \in 1 .. n : i \in DOMAIN list /\ i # n + 1
    BY <1>1, <2>1
  <2>6. PagesOf(list[n + 1]) \cap CoverTo(list, n) = {}
    <3>1. \A i \in 1 .. n : PagesOf(list[n + 1]) \cap PagesOf(list[i]) = {}
      BY <1>1, <2>4, <2>5, Zenon DEF Spread
    <3>2. QED
      BY <3>1, Zenon DEF CoverTo
  <2>7. CoverTo(list, n + 1) = CoverTo(list, n) \cup PagesOf(list[n + 1])
    <3>1. 1 .. n + 1 = (1 .. n) \cup {n + 1}
      OBVIOUS
    <3>2. QED
      BY <3>1, Zenon DEF CoverTo
  <2> HIDE DEF N
  <2>8. QED
    BY <2>2, <2>3, <2>4, <2>6, <2>7, JoinedHoles, Zenon
<1> HIDE DEF N
<1>7. Nat \subseteq N
  BY <1>5, <1>6, NatsReached
<1>8. HoleList(g[Len(list)]) /\ Cover(g[Len(list)]) = CoverTo(list, Len(list))
  BY <1>1, <1>7 DEF N
<1>9. CoverTo(list, Len(list)) = Cover(list)
  BY <1>1, Zenon DEF Cover, CoverTo
<1>10. QED
  BY <1>3, <1>8, <1>9, Zenon

-----------------------------------------------------------------------------
\* The list of holes

LEMMA SeqInsert ==
  ASSUME NEW S, NEW list \in Seq(S), NEW i \in 1 .. Len(list) + 1, NEW e \in S
  PROVE  InsertAt(list, i, e) \in Seq(S)
<1>1. Len(list) + 1 \in Nat /\ InsertAt(list, i, e) \in [1 .. Len(list) + 1 -> S]
  BY SeqLen DEF InsertAt
<1>2. QED
  BY <1>1, SeqFunction, Zenon

LEMMA SeqRemove ==
  ASSUME NEW S, NEW list \in Seq(S), NEW i \in DOMAIN list
  PROVE  RemoveAt(list, i) \in Seq(S)
<1>1. Len(list) - 1 \in Nat /\ RemoveAt(list, i) \in [1 .. Len(list) - 1 -> S]
  BY SeqLen DEF RemoveAt
<1>2. QED
  BY <1>1, SeqFunction, Zenon

LEMMA InsertedHoles ==
  ASSUME NEW list, HoleList(list), NEW i \in 1 .. Len(list) + 1,
         NEW r \in Hole, PagesOf(r) \cap Cover(list) = {}
  PROVE  /\ HoleList(InsertAt(list, i, r))
         /\ Cover(InsertAt(list, i, r)) = Cover(list) \cup PagesOf(r)
<1>1. list \in Seq(Hole) /\ Spread(list)
  BY DEF HoleList
<1>2. IsList(list) /\ IsRange(r)
  BY <1>1, SeqIsList, HoleIsRange, Zenon
<1>3. IsInsert(InsertAt(list, i, r), list, i, r)
  BY <1>2, InsertedList
<1>4. InsertAt(list, i, r) \in Seq(Hole)
  BY <1>1, SeqInsert, Zenon
<1> DEFINE new == InsertAt(list, i, r)
<1> HIDE DEF new
<1>5. Spread(new) /\ Cover(new) = Cover(list) \cup PagesOf(r)
  BY <1>1, <1>2, <1>3, InsertedSpread DEF new
<1>6. QED
  BY <1>4, <1>5, Zenon DEF HoleList, new

LEMMA RemovedHoles ==
  ASSUME NEW list, HoleList(list), NEW i \in DOMAIN list
  PROVE  /\ HoleList(RemoveAt(list, i))
         /\ Cover(RemoveAt(list, i)) = Cover(list) \ PagesOf(list[i])
<1>1. list \in Seq(Hole) /\ Spread(list)
  BY DEF HoleList
<1>2. IsList(list)
  BY <1>1, SeqIsList, Zenon
<1>3. IsRemoval(RemoveAt(list, i), list, i)
  BY <1>2, RemovedList
<1>4. RemoveAt(list, i) \in Seq(Hole)
  BY <1>1, SeqRemove, Zenon
<1> DEFINE new == RemoveAt(list, i)
<1> HIDE DEF new
<1>5. Spread(new) /\ Cover(new) = Cover(list) \ PagesOf(list[i])
  BY <1>1, <1>2, <1>3, RemovedSpread DEF new
<1>6. QED
  BY <1>4, <1>5, Zenon DEF HoleList, new

With(list, i, r) == [list EXCEPT ![i] = r]

LEMMA ReplacedHoles ==
  ASSUME NEW list, HoleList(list), NEW i \in DOMAIN list,
         NEW r \in Hole, PagesOf(r) \subseteq PagesOf(list[i])
  PROVE  /\ HoleList(With(list, i, r))
         /\ Cover(With(list, i, r)) = Cover(list) \ (PagesOf(list[i]) \ PagesOf(r))
<1> DEFINE new == With(list, i, r)
<1>1. list \in Seq(Hole) /\ Spread(list)
  BY DEF HoleList
<1>2. IsList(list) /\ IsRange(r) /\ DOMAIN list = 1 .. Len(list)
  BY <1>1, SeqIsList, HoleIsRange, Zenon DEF IsList
<1>3. IsReplacement(new, list, i, r)
  BY <1>2, ReplacedList, Zenon DEF With
<1>4. new \in Seq(Hole)
  BY <1>1, <1>2, SeqExcept DEF With
<1> HIDE DEF new
<1>5. PagesOf(r) \cap (Cover(list) \ PagesOf(list[i])) = {}
  BY Zenon
<1>6. Spread(new) /\ Cover(new) = (Cover(list) \ PagesOf(list[i])) \cup PagesOf(r)
  BY <1>1, <1>2, <1>3, <1>5, ReplacedSpread
<1>7. PagesOf(list[i]) \subseteq Cover(list)
  BY InCover, Zenon
<1>8. Cover(new) = Cover(list) \ (PagesOf(list[i]) \ PagesOf(r))
  BY <1>6, <1>7, Zenon
<1>9. QED
  BY <1>4, <1>6, <1>8, Zenon DEF HoleList, new

\* put(memory_hole *) adds the pages of the new hole.
LEMMA PutHoleCovers ==
  ASSUME NEW list, HoleList(list), NEW r \in Hole, PagesOf(r) \cap Cover(list) = {}
  PROVE  HoleList(PutHole(list, r)) /\ Cover(PutHole(list, r)) = Cover(list) \cup PagesOf(r)
<1>1. Len(list) \in Nat /\ DOMAIN list = 1 .. Len(list)
  BY SeqLen DEF HoleList
<1>2. CASE Succ(list, r) # {}
  <2>1. Min(Succ(list, r)) \in Succ(list, r)
    <3>1. Succ(list, r) \subseteq Nat
      BY <1>1 DEF Succ
    <3>2. QED
      BY <1>2, <3>1, MinOfNats
  <2>2. Min(Succ(list, r)) \in 1 .. Len(list) + 1
    BY <1>1, <2>1 DEF Succ
  <2>3. PutHole(list, r) = InsertAt(list, Min(Succ(list, r)), r)
    BY <1>2, Zenon DEF PutHole
  <2>4. QED
    BY <2>2, <2>3, InsertedHoles
<1>3. CASE Succ(list, r) = {}
  <2>1. 1 \in 1 .. Len(list) + 1
    BY <1>1
  <2>2. PutHole(list, r) = InsertAt(list, 1, r)
    BY <1>3, Zenon DEF PutHole
  <2>3. QED
    BY <2>1, <2>2, InsertedHoles
<1>4. QED
  BY <1>2, <1>3

\* bind_hole takes the pages at the top of the hole.
LEMMA TakeTopCovers ==
  ASSUME HoleList(holes), NEW i \in DOMAIN holes, NEW size \in Nat \ {0},
         size <= holes[i].size
  PROVE  /\ HoleList(TakeTop(i, size))
         /\ Cover(TakeTop(i, size)) =
              Cover(holes) \ (Past(holes[i]) - size .. Past(holes[i]) - 1)
<1>1. holes[i] \in Hole
  BY SeqLen DEF HoleList
<1>2. First(holes[i]) \in Nat \ {0} /\ holes[i].size \in Nat \ {0}
  BY <1>1, HoleIsRange
<1>3. CASE holes[i].size = size
  <2>1. Past(holes[i]) - size .. Past(holes[i]) - 1 = PagesOf(holes[i])
    BY <1>2, <1>3 DEF PagesOf, Past
  <2>2. TakeTop(i, size) = RemoveAt(holes, i)
    BY <1>3, Zenon DEF TakeTop
  <2>3. QED
    BY <2>1, <2>2, RemovedHoles, Zenon
<1>4. CASE holes[i].size # size
  <2> DEFINE r == [holes[i] EXCEPT !.size = holes[i].size - size]
  <2>1. holes[i].size - size \in Nat \ {0}
    BY <1>2, <1>4
  <2>2. r \in Hole /\ First(r) = First(holes[i]) /\ r.size = holes[i].size - size
    BY <1>1, <2>1, HoleResized
  <2>3. TakeTop(i, size) = With(holes, i, r)
    BY <1>4 DEF TakeTop, With
  <2> HIDE DEF r
  <2>4. /\ PagesOf(r) \subseteq PagesOf(holes[i])
        /\ PagesOf(holes[i]) \ PagesOf(r) = Past(holes[i]) - size .. Past(holes[i]) - 1
    <3>1. /\ First(r) = First(holes[i]) /\ Past(r) = Past(holes[i]) - size
          /\ First(r) <= Past(r) /\ Past(r) <= Past(holes[i])
          /\ First(r) \in Int /\ Past(r) \in Int /\ Past(holes[i]) \in Int
      BY <1>2, <2>1, <2>2 DEF Past
    <3>2. QED
      BY <1>1, <2>2, <3>1, IntervalCut, RangePages, HoleIsRange
  <2> DEFINE new == With(holes, i, r)
  <2>5. HoleList(new) /\ Cover(new) = Cover(holes) \ (PagesOf(holes[i]) \ PagesOf(r))
    <3>1. r \in Hole /\ PagesOf(r) \subseteq PagesOf(holes[i])
      BY <2>2, <2>4
    <3>2. QED
      BY <3>1, ReplacedHoles, Zenon
  <2> HIDE DEF new
  <2>6. QED
    BY <2>3, <2>4, <2>5, Zenon DEF new
<1>5. QED
  BY <1>3, <1>4

\* The pages between two page boundaries.
LEMMA PagesBetween ==
  ASSUME NEW r, IsRange(r), NEW s, IsRange(s), First(r) <= First(s)
  PROVE  (s.base - r.base) \div PageSize = First(s) - First(r)
<1> DEFINE p == First(r)
           q == First(s)
           d == PageSize
<1>1. /\ p \in Nat /\ q \in Nat /\ d \in Nat \ {0} /\ p <= q
      /\ r.base = p * d /\ s.base = q * d
  BY SizesAssumption DEF IsRange
<1> HIDE DEF p, q, d
<1>2. q - p \in Nat /\ (q - p) * d = q * d - p * d
  BY <1>1
<1>3. ((q - p) * d) \div d = q - p
  BY <1>1, <1>2, MultipleDivided
<1>4. (s.base - r.base) \div d = q - p
  BY <1>1, <1>2, <1>3, Zenon
<1>5. QED
  BY <1>4 DEF p, q, d

\* bind_exact takes the pages of r out of the hole.
LEMMA CutCovers ==
  ASSUME NEW list, HoleList(list), NEW i \in DOMAIN list, NEW r, IsRange(r),
         list[i].base <= r.base, End(r) <= End(list[i])
  PROVE  /\ HoleList(Cut(list, i, r))
         /\ Cover(Cut(list, i, r)) = Cover(list) \ PagesOf(r)
<1> DEFINE h     == list[i]
           n     == (r.base - h.base) \div PageSize
           front == [base |-> End(r), size |-> h.size - r.size]
           back  == [h EXCEPT !.size = h.size - r.size]
           low   == [base |-> h.base, size |-> n]
           high  == [base |-> End(r), size |-> h.size - r.size - n]
<1>1. h \in Hole /\ IsRange(h)
  BY SeqLen, HoleIsRange DEF HoleList
<1>2. /\ First(h) \in Nat \ {0} /\ h.size \in Nat \ {0}
      /\ First(r) \in Nat \ {0} /\ r.size \in Nat \ {0}
      /\ Past(r) = First(r) + r.size /\ Past(h) = First(h) + h.size
      /\ h.base = First(h) * PageSize /\ End(r) = Past(r) * PageSize
  BY <1>1, RangeEnd DEF Past
<1>3. /\ First(h) <= First(r) /\ Past(r) <= Past(h)
      /\ r.base = h.base <=> First(r) = First(h)
      /\ End(r) = End(h) <=> Past(r) = Past(h)
  BY <1>1, RangeOrder
<1>4. n = First(r) - First(h)
  BY <1>1, <1>3, PagesBetween
<1>5. PagesOf(h) = First(h) .. Past(h) - 1 /\ PagesOf(r) = First(r) .. Past(r) - 1
  BY <1>1, RangePages
<1>6. Cut(list, i, r) =
        IF r.base = h.base /\ r.size = h.size THEN RemoveAt(list, i)
        ELSE IF r.base = h.base THEN With(list, i, front)
        ELSE IF End(r) = End(h) THEN With(list, i, back)
        ELSE InsertAt(With(list, i, high), i, low)
  BY Zenon DEF Cut, With
<1> HIDE DEF n, h
<1>7. CASE r.base = h.base /\ r.size = h.size
  <2>1. PagesOf(h) = PagesOf(r)
    BY <1>2, <1>3, <1>5, <1>7
  <2>2. Cut(list, i, r) = RemoveAt(list, i)
    BY <1>6, <1>7, Zenon
  <2>3. QED
    BY <2>1, <2>2, RemovedHoles, Zenon DEF h
<1>8. CASE r.base = h.base /\ r.size # h.size
  <2>1. Past(r) \in Nat \ {0} /\ h.size - r.size \in Nat \ {0}
    BY <1>2, <1>3, <1>8
  <2>2. front \in Hole /\ First(front) = Past(r) /\ front.size = h.size - r.size
    BY <1>2, <2>1, HoleMade
  <2>3. Cut(list, i, r) = With(list, i, front)
    BY <1>6, <1>8, Zenon
  <2> HIDE DEF front
  <2>4. PagesOf(front) \subseteq PagesOf(h) /\ PagesOf(h) \ PagesOf(front) = PagesOf(r)
    <3>1. /\ First(h) = First(r) /\ First(front) = Past(r) /\ Past(front) = Past(h)
          /\ First(h) <= Past(r) /\ Past(r) <= Past(h)
          /\ First(h) \in Int /\ Past(r) \in Int /\ Past(h) \in Int
      BY <1>2, <1>3, <1>8, <2>1, <2>2 DEF Past
    <3>2. QED
      BY <1>5, <2>2, <3>1, IntervalCut, RangePages, HoleIsRange
  <2> DEFINE new == With(list, i, front)
  <2>5. HoleList(new) /\ Cover(new) = Cover(list) \ (PagesOf(h) \ PagesOf(front))
    <3>1. front \in Hole /\ PagesOf(front) \subseteq PagesOf(list[i])
      BY <2>2, <2>4 DEF h
    <3>2. QED
      BY <3>1, ReplacedHoles, Zenon DEF h
  <2> HIDE DEF new
  <2>6. QED
    BY <2>3, <2>4, <2>5, Zenon DEF new
<1>9. CASE r.base # h.base /\ End(r) = End(h)
  <2>1. h.size - r.size \in Nat \ {0}
    BY <1>2, <1>3, <1>9
  <2>2. back \in Hole /\ First(back) = First(h) /\ back.size = h.size - r.size
    BY <1>1, <2>1, HoleResized
  <2>3. Cut(list, i, r) = With(list, i, back)
    BY <1>6, <1>9, Zenon
  <2> HIDE DEF back
  <2>4. PagesOf(back) \subseteq PagesOf(h) /\ PagesOf(h) \ PagesOf(back) = PagesOf(r)
    <3>1. /\ First(h) = First(back) /\ Past(back) = First(r) /\ Past(r) = Past(h)
          /\ First(h) <= First(r) /\ First(r) <= Past(h)
          /\ First(h) \in Int /\ First(r) \in Int /\ Past(h) \in Int
      BY <1>2, <1>3, <1>9, <2>1, <2>2 DEF Past
    <3>2. QED
      BY <1>5, <2>2, <3>1, IntervalCut, RangePages, HoleIsRange
  <2> DEFINE new == With(list, i, back)
  <2>5. HoleList(new) /\ Cover(new) = Cover(list) \ (PagesOf(h) \ PagesOf(back))
    <3>1. back \in Hole /\ PagesOf(back) \subseteq PagesOf(list[i])
      BY <2>2, <2>4, Zenon DEF h
    <3>2. QED
      BY <3>1, ReplacedHoles, Zenon DEF h
  <2> HIDE DEF new
  <2>6. QED
    BY <2>3, <2>4, <2>5, Zenon DEF new
<1>10. CASE r.base # h.base /\ End(r) # End(h)
  <2>1. /\ Past(r) \in Nat \ {0} /\ n \in Nat \ {0}
        /\ h.size - r.size - n \in Nat \ {0}
    BY <1>2, <1>3, <1>4, <1>10
  <2>2. high \in Hole /\ First(high) = Past(r) /\ high.size = h.size - r.size - n
    BY <1>2, <2>1, HoleMade
  <2>3. low \in Hole /\ First(low) = First(h) /\ low.size = n
    BY <1>2, <2>1, HoleMade
  <2>4. Cut(list, i, r) = InsertAt(With(list, i, high), i, low)
    BY <1>6, <1>10, Zenon
  <2> HIDE DEF high, low
  <2>5. PagesOf(low) = First(h) .. First(r) - 1 /\ PagesOf(high) = Past(r) .. Past(h) - 1
    <3>1. /\ First(low) = First(h) /\ Past(low) = First(r)
          /\ First(high) = Past(r) /\ Past(high) = Past(h)
      BY <1>2, <1>4, <2>2, <2>3 DEF Past
    <3>2. QED
      BY <2>2, <2>3, <3>1, RangePages, HoleIsRange
  <2>6. /\ PagesOf(high) \subseteq PagesOf(h) /\ PagesOf(low) \subseteq PagesOf(h)
        /\ PagesOf(low) \cap PagesOf(high) = {} /\ PagesOf(r) \cap PagesOf(low) = {}
        /\ PagesOf(h) \ (PagesOf(high) \cup PagesOf(low)) = PagesOf(r)
    <3>1. /\ First(h) <= First(r) /\ First(r) <= Past(r) /\ Past(r) <= Past(h)
          /\ First(r) <= Past(h)
          /\ First(h) \in Int /\ First(r) \in Int /\ Past(r) \in Int /\ Past(h) \in Int
      BY <1>2, <1>3
    <3>2. /\ PagesOf(h) = PagesOf(low) \cup (First(r) .. Past(h) - 1)
          /\ PagesOf(low) \cap (First(r) .. Past(h) - 1) = {}
      BY <1>5, <2>5, <3>1, IntervalCut
    <3>3. /\ First(r) .. Past(h) - 1 = PagesOf(r) \cup PagesOf(high)
          /\ PagesOf(r) \cap PagesOf(high) = {}
      BY <1>5, <2>5, <3>1, IntervalCut
    <3>4. QED
      BY <3>2, <3>3, Zenon
  <2> DEFINE mid == With(list, i, high)
  <2>7. HoleList(mid) /\ Cover(mid) = Cover(list) \ (PagesOf(h) \ PagesOf(high))
    <3>1. high \in Hole /\ PagesOf(high) \subseteq PagesOf(list[i])
      BY <2>2, <2>6, Zenon DEF h
    <3>2. QED
      BY <3>1, ReplacedHoles, Zenon DEF h
  <2>8. Len(mid) = Len(list) /\ i \in 1 .. Len(mid) + 1
    BY SeqLen DEF HoleList, With
  <2> HIDE DEF mid
  <2>9. PagesOf(low) \cap Cover(mid) = {}
    BY <2>6, <2>7, Zenon
  <2>10. PagesOf(h) \subseteq Cover(list)
    BY InCover, Zenon DEF h
  <2>11. /\ HoleList(InsertAt(mid, i, low))
         /\ Cover(InsertAt(mid, i, low)) = Cover(mid) \cup PagesOf(low)
    BY <2>3, <2>7, <2>8, <2>9, InsertedHoles, Zenon
  <2>12. Cover(mid) \cup PagesOf(low) = Cover(list) \ PagesOf(r)
    BY <2>6, <2>7, <2>10
  <2>13. QED
    BY <2>4, <2>11, <2>12, Zenon DEF mid
<1>11. QED
  BY <1>7, <1>8, <1>9, <1>10

-----------------------------------------------------------------------------
\* Holes with any base

LEMMA AnyEnd ==
  ASSUME NEW h, h.base \in Int, h.size \in Int
  PROVE  h.size * PageSize \in Int /\ End(h) \in Int
<1>1. h.size * PageSize \in Int
  BY SizesAssumption
<1>2. QED
  BY <1>1 DEF End

LEMMA JoinedAny ==
  ASSUME NEW acc \in Seq(AnyHole), NEW h \in AnyHole
  PROVE  JoinHole(acc, h) \in Seq(AnyHole)
<1> DEFINE n == Len(acc)
<1>1. n \in Nat /\ DOMAIN acc = 1 .. n
  BY SeqLen
<1>2. CASE acc # <<>> /\ End(acc[n]) = h.base
  <2>1. n \in 1 .. Len(acc) /\ acc[n] \in AnyHole
    BY <1>1, <1>2, SeqEmpty, SeqElement
  <2> DEFINE r == [acc[n] EXCEPT !.size = acc[n].size + h.size]
  <2>2. r \in AnyHole
    BY <2>1 DEF AnyHole
  <2>3. JoinHole(acc, h) = [acc EXCEPT ![n] = r]
    BY <1>2 DEF JoinHole
  <2> HIDE DEF r
  <2>4. QED
    BY <2>1, <2>2, <2>3, SeqExcept
<1>3. CASE ~(acc # <<>> /\ End(acc[n]) = h.base)
  <2>1. JoinHole(acc, h) = Append(acc, h)
    BY <1>3 DEF JoinHole
  <2>2. Append(acc, h) \in Seq(AnyHole)
    BY SeqAppend
  <2>3. QED
    BY <2>1, <2>2
<1>4. QED
  BY <1>2, <1>3

LEMMA MergedAny ==
  ASSUME NEW list \in Seq(AnyHole)
  PROVE  MergeHoles(list) \in Seq(AnyHole)
<1> DEFINE g == CHOOSE g : MergedBy(g, list, Len(list))
           N == {n \in Nat : n <= Len(list) => g[n] \in Seq(AnyHole)}
<1>1. Len(list) \in Nat
  BY SeqLen
<1>2. MergedBy(g, list, Len(list))
  BY <1>1, MergedExists, Zenon
<1>3. MergeHoles(list) = g[Len(list)]
  BY Zenon DEF MergeHoles, MergedBy
<1> HIDE DEF g
<1>4. \A n \in 0 .. Len(list) : g[n] = IF n = 0 THEN <<>> ELSE JoinHole(g[n - 1], list[n])
  BY <1>2, Zenon DEF MergedBy
<1>5. 0 \in N
  <2>1. g[0] = <<>>
    BY <1>1, <1>4
  <2>2. QED
    BY <2>1, SeqEmpty, Zenon
<1>6. ASSUME NEW n \in Nat, n \in N PROVE n + 1 \in N
  <2>1. SUFFICES ASSUME n + 1 <= Len(list) PROVE g[n + 1] \in Seq(AnyHole)
    OBVIOUS
  <2>2. g[n] \in Seq(AnyHole)
    BY <1>1, <1>6, <2>1
  <2>3. g[n + 1] = JoinHole(g[n], list[n + 1])
    BY <1>1, <1>4, <2>1
  <2>4. list[n + 1] \in AnyHole
    BY <1>1, <2>1, SeqElement
  <2> HIDE DEF N
  <2>5. QED
    BY <2>2, <2>3, <2>4, JoinedAny, Zenon
<1> HIDE DEF N
<1>7. Nat \subseteq N
  BY <1>5, <1>6, NatsReached
<1>8. QED
  BY <1>1, <1>3, <1>7 DEF N

LEMMA PutHoleAny ==
  ASSUME NEW list \in Seq(AnyHole), NEW h \in AnyHole
  PROVE  PutHole(list, h) \in Seq(AnyHole)
<1>1. Len(list) \in Nat /\ DOMAIN list = 1 .. Len(list)
  BY SeqLen
<1>2. CASE Succ(list, h) # {}
  <2>1. Succ(list, h) \subseteq 1 .. Len(list) /\ Succ(list, h) \subseteq Nat
    BY <1>1 DEF Succ
  <2>2. Min(Succ(list, h)) \in Succ(list, h)
    BY <1>2, <2>1, MinOfNats
  <2>3. Min(Succ(list, h)) \in 1 .. Len(list) + 1
    BY <1>1, <2>1, <2>2
  <2>4. PutHole(list, h) = InsertAt(list, Min(Succ(list, h)), h)
    BY <1>2, Zenon DEF PutHole
  <2>5. QED
    BY <2>3, <2>4, SeqInsert, Zenon
<1>3. CASE Succ(list, h) = {}
  <2>1. 1 \in 1 .. Len(list) + 1
    BY <1>1
  <2>2. PutHole(list, h) = InsertAt(list, 1, h)
    BY <1>3, Zenon DEF PutHole
  <2>3. QED
    BY <2>1, <2>2, SeqInsert, Zenon
<1>4. QED
  BY <1>2, <1>3

LEMMA TakeTopAny ==
  ASSUME holes \in Seq(AnyHole), NEW i \in DOMAIN holes, NEW size \in Int
  PROVE  TakeTop(i, size) \in Seq(AnyHole)
<1>1. i \in 1 .. Len(holes) /\ holes[i] \in AnyHole
  BY SeqLen
<1> DEFINE r == [holes[i] EXCEPT !.size = holes[i].size - size]
<1>2. r \in AnyHole
  BY <1>1 DEF AnyHole
<1>3. TakeTop(i, size) = RemoveAt(holes, i) \/ TakeTop(i, size) = [holes EXCEPT ![i] = r]
  BY DEF TakeTop
<1> HIDE DEF r
<1>4. RemoveAt(holes, i) \in Seq(AnyHole)
  BY SeqRemove, Zenon
<1>5. [holes EXCEPT ![i] = r] \in Seq(AnyHole)
  BY <1>1, <1>2, SeqExcept
<1>6. QED
  BY <1>3, <1>4, <1>5, Zenon

LEMMA CutAny ==
  ASSUME NEW list \in Seq(AnyHole), NEW i \in DOMAIN list,
         NEW r, r.base \in Int, r.size \in Int
  PROVE  Cut(list, i, r) \in Seq(AnyHole)
<1> DEFINE h     == list[i]
           n     == (r.base - h.base) \div PageSize
           front == [base |-> End(r), size |-> h.size - r.size]
           back  == [h EXCEPT !.size = h.size - r.size]
           low   == [base |-> h.base, size |-> n]
           high  == [base |-> End(r), size |-> h.size - r.size - n]
<1>1. Len(list) \in Nat /\ i \in 1 .. Len(list) /\ h \in AnyHole
  BY SeqLen
<1>2. h.base \in Int /\ h.size \in Int /\ End(r) \in Int
  BY <1>1, AnyEnd DEF AnyHole
<1>3. n \in Int
  BY <1>2, SizesAssumption
<1>4. front \in AnyHole /\ back \in AnyHole /\ low \in AnyHole /\ high \in AnyHole
  <2>1. h.size - r.size \in Int /\ h.size - r.size - n \in Int
    BY <1>2, <1>3
  <2> HIDE DEF n, h
  <2>2. front \in AnyHole /\ low \in AnyHole /\ high \in AnyHole
    BY <1>2, <1>3, <2>1, Zenon DEF AnyHole
  <2>3. back \in AnyHole
    BY <1>1, <2>1, Zenon DEF AnyHole
  <2>4. QED
    BY <2>2, <2>3
<1>5. \/ Cut(list, i, r) = RemoveAt(list, i)
      \/ Cut(list, i, r) = [list EXCEPT ![i] = front]
      \/ Cut(list, i, r) = [list EXCEPT ![i] = back]
      \/ Cut(list, i, r) = InsertAt([list EXCEPT ![i] = high], i, low)
  BY Zenon DEF Cut
<1> HIDE DEF front, back, low, high
<1>6. RemoveAt(list, i) \in Seq(AnyHole)
  BY SeqRemove, Zenon
<1>7. [list EXCEPT ![i] = front] \in Seq(AnyHole) /\ [list EXCEPT ![i] = back] \in Seq(AnyHole)
  BY <1>1, <1>4, SeqExcept
<1> DEFINE mid == [list EXCEPT ![i] = high]
<1>8. mid \in Seq(AnyHole) /\ i \in 1 .. Len(mid) + 1
  BY <1>1, <1>4, SeqExcept
<1> HIDE DEF mid
<1>9. InsertAt(mid, i, low) \in Seq(AnyHole)
  BY <1>4, <1>8, SeqInsert, Zenon
<1>10. QED
  BY <1>5, <1>6, <1>7, <1>9, Zenon DEF mid

-----------------------------------------------------------------------------
\* The list of mappings

Backing == [ptr : Nat, exists : BOOLEAN, allocated : BOOLEAN]
Mapping ==
  {r \in [base : Int, size : Nat \ {0}, back : Seq(Backing)] : Len(r.back) = r.size}

Sorted(list) == \A i, j \in DOMAIN list : i < j => End(list[i]) <= list[j].base

\* The backing of page v in mapping r.
At(r, v) == r.back[v - First(r) + 1]

\* The page tables hold the existing pages of r, and no other page of r.
Entered(r, table) ==
  \A v \in PagesOf(r) :
    IF At(r, v).exists THEN v \in DOMAIN table /\ table[v] = At(r, v).ptr
                       ELSE v \notin DOMAIN table

MapList(list) ==
  list \in Seq(Mapping) /\ Spread(list) /\ Sorted(list)

LEMMA MappingType ==
  ASSUME NEW r \in Mapping
  PROVE  /\ r.base \in Int /\ r.size \in Nat \ {0}
         /\ r.back \in [1 .. r.size -> Backing]
BY SeqLen DEF Mapping

LEMMA MappingMade ==
  ASSUME NEW base \in Int, NEW size \in Nat \ {0},
         NEW back \in [1 .. size -> Backing]
  PROVE  [base |-> base, size |-> size, back |-> back] \in Mapping
<1>1. back \in Seq(Backing)
  BY SeqFunction, Zenon
<1>2. Len(back) = size
  BY <1>1, SeqLen
<1>3. QED
  BY <1>1, <1>2 DEF Mapping

\* A page of a range is one of the numbers from First on.
LEMMA PageInRange ==
  ASSUME NEW r, IsRange(r), NEW v
  PROVE  /\ v \in PagesOf(r) <=> v \in Nat /\ First(r) <= v /\ v < Past(r)
         /\ v \in PagesOf(r) => v - First(r) + 1 \in 1 .. r.size
         /\ First(r) \in PagesOf(r)
<1>1. First(r) \in Nat /\ r.size \in Nat \ {0}
  BY DEF IsRange
<1>2. QED
  BY <1>1 DEF PagesOf, Past

\* Ranges with the same base and size.
LEMMA SameRange ==
  ASSUME NEW r, NEW t, t.base = r.base, t.size = r.size
  PROVE  /\ First(t) = First(r) /\ PagesOf(t) = PagesOf(r) /\ End(t) = End(r)
         /\ IsRange(r) => IsRange(t)
<1>1. First(t) = First(r) /\ End(t) = End(r)
  BY Zenon DEF First, End
<1>2. PagesOf(t) = PagesOf(r)
  BY <1>1, Zenon DEF PagesOf
<1>3. IsRange(r) => IsRange(t)
  BY <1>1, Zenon DEF IsRange
<1>4. QED
  BY <1>1, <1>2, <1>3

LEMMA CoverOfElems ==
  ASSUME NEW list
  PROVE  /\ Cover(list) = UNION {PagesOf(r) : r \in Elems(list)}
         /\ \A r \in Elems(list) : PagesOf(r) \subseteq Cover(list)
BY Zenon DEF Cover, Elems

LEMMA InsertedElems ==
  ASSUME NEW list, IsList(list), NEW i \in 1 .. Len(list) + 1, NEW r,
         NEW new, IsInsert(new, list, i, r)
  PROVE  Elems(new) = Elems(list) \cup {r}
<1>1. DOMAIN list = 1 .. Len(list) /\ Len(list) \in Nat /\ DOMAIN new = 1 .. Len(list) + 1
  BY DEF IsList, IsInsert
<1>2. ASSUME NEW j \in DOMAIN new PROVE new[j] = r \/ \E k \in DOMAIN list : new[j] = list[k]
  <2>1. CASE j < i
    <3>1. j \in DOMAIN list /\ new[j] = list[j]
      BY <1>1, <2>1 DEF IsInsert
    <3>2. QED
      BY <3>1
  <2>2. CASE j > i
    <3>1. j - 1 \in DOMAIN list /\ new[j] = list[j - 1]
      BY <1>1, <2>2 DEF IsInsert
    <3>2. QED
      BY <3>1
  <2>3. CASE j = i
    BY <2>3 DEF IsInsert
  <2>4. QED
    BY <1>1, <2>1, <2>2, <2>3
<1>3. ASSUME NEW k \in DOMAIN list PROVE \E j \in DOMAIN new : new[j] = list[k]
  <2>1. CASE k < i
    <3>1. k \in DOMAIN new /\ new[k] = list[k]
      BY <1>1, <2>1 DEF IsInsert
    <3>2. QED
      BY <3>1
  <2>2. CASE ~(k < i)
    <3>1. k + 1 \in DOMAIN new /\ new[k + 1] = list[k]
      BY <1>1, <2>2 DEF IsInsert
    <3>2. QED
      BY <3>1
  <2>3. QED
    BY <2>1, <2>2
<1>4. i \in DOMAIN new /\ new[i] = r
  BY <1>1 DEF IsInsert
<1>5. ASSUME NEW x \in Elems(new), x # r PROVE x \in Elems(list)
  <2>1. PICK j \in DOMAIN new : x = new[j]
    BY InElems, Zenon
  <2>2. PICK k \in DOMAIN list : x = list[k]
    BY <1>2, <1>5, <2>1
  <2>3. QED
    BY <2>2, InElems, Zenon
<1>6. ASSUME NEW x \in Elems(list) \cup {r} PROVE x \in Elems(new)
  <2>1. CASE x = r
    BY <1>4, <2>1, InElems
  <2>2. CASE x \in Elems(list)
    <3>1. PICK k \in DOMAIN list : x = list[k]
      BY <2>2, InElems, Zenon
    <3>2. PICK j \in DOMAIN new : new[j] = list[k]
      BY <1>3
    <3>3. QED
      BY <3>1, <3>2, InElems
  <2>3. QED
    BY <2>1, <2>2
<1>7. QED
  BY <1>5, <1>6, Zenon

\* Entries without a page in common are different.
LEMMA SpreadDiffers ==
  ASSUME NEW list, Spread(list), NEW i \in DOMAIN list, NEW j \in DOMAIN list, i # j
  PROVE  list[i] # list[j]
<1>1. IsRange(list[i]) /\ PagesOf(list[i]) \cap PagesOf(list[j]) = {}
  BY Zenon DEF Spread
<1>2. First(list[i]) \in PagesOf(list[i])
  BY <1>1, PageInRange, Zenon
<1>3. QED
  BY <1>1, <1>2

LEMMA SpreadElems ==
  ASSUME NEW list, Spread(list), NEW r \in Elems(list), NEW s \in Elems(list), r # s
  PROVE  PagesOf(r) \cap PagesOf(s) = {}
BY Zenon DEF Spread, Elems

LEMMA RemovedElems ==
  ASSUME NEW list, Spread(list), NEW i \in DOMAIN list,
         NEW new, IsRemoval(new, list, i)
  PROVE  Elems(new) = Elems(list) \ {list[i]}
<1>1. /\ DOMAIN list = 1 .. Len(list) /\ Len(list) \in Nat
      /\ DOMAIN new = 1 .. Len(list) - 1
  BY DEF IsList, IsRemoval, Spread
<1>2. ASSUME NEW j \in DOMAIN new
      PROVE  \E k \in DOMAIN list \ {i} : new[j] = list[k]
  <2>1. CASE j < i
    <3>1. j \in DOMAIN list \ {i} /\ new[j] = list[j]
      BY <1>1, <2>1 DEF IsRemoval
    <3>2. QED
      BY <3>1
  <2>2. CASE ~(j < i)
    <3>1. j + 1 \in DOMAIN list \ {i} /\ new[j] = list[j + 1]
      BY <1>1, <2>2 DEF IsRemoval
    <3>2. QED
      BY <3>1
  <2>3. QED
    BY <2>1, <2>2
<1>3. ASSUME NEW k \in DOMAIN list \ {i} PROVE \E j \in DOMAIN new : new[j] = list[k]
  <2>1. CASE k < i
    <3>1. k \in DOMAIN new /\ new[k] = list[k]
      BY <1>1, <2>1 DEF IsRemoval
    <3>2. QED
      BY <3>1
  <2>2. CASE ~(k < i)
    <3>1. k - 1 \in DOMAIN new /\ new[k - 1] = list[k]
      BY <1>1, <2>2 DEF IsRemoval
    <3>2. QED
      BY <3>1
  <2>3. QED
    BY <2>1, <2>2
<1>4. \A k \in DOMAIN list \ {i} : list[k] # list[i]
  BY SpreadDiffers, Zenon
<1>5. ASSUME NEW x \in Elems(new) PROVE x \in Elems(list) /\ x # list[i]
  <2>1. PICK j \in DOMAIN new : x = new[j]
    BY InElems, Zenon
  <2>2. PICK k \in DOMAIN list \ {i} : x = list[k]
    BY <1>2, <2>1, Zenon
  <2>3. QED
    BY <1>4, <2>2, InElems, Zenon
<1>6. ASSUME NEW x \in Elems(list), x # list[i] PROVE x \in Elems(new)
  <2>1. PICK k \in DOMAIN list \ {i} : x = list[k]
    BY <1>6, InElems, Zenon
  <2>2. QED
    BY <1>3, <2>1, InElems, Zenon
<1>7. QED
  BY <1>5, <1>6, Zenon

LEMMA ReplacedElems ==
  ASSUME NEW list, Spread(list), NEW i \in DOMAIN list, NEW r,
         NEW new, IsReplacement(new, list, i, r)
  PROVE  Elems(new) = (Elems(list) \ {list[i]}) \cup {r}
<1>1. /\ DOMAIN new = DOMAIN list /\ new[i] = r
      /\ \A j \in DOMAIN list \ {i} : new[j] = list[j]
  BY Zenon DEF IsReplacement
<1>2. \A k \in DOMAIN list \ {i} : list[k] # list[i]
  BY SpreadDiffers, Zenon
<1>3. ASSUME NEW x \in Elems(new) PROVE x \in (Elems(list) \ {list[i]}) \cup {r}
  <2>1. PICK j \in DOMAIN list : x = new[j]
    BY <1>1, InElems
  <2>2. CASE j = i
    <3>1. x = r
      BY <1>1, <2>1, <2>2
    <3>2. QED
      BY <3>1
  <2>3. CASE j # i
    <3>1. x = list[j] /\ x # list[i]
      BY <1>1, <1>2, <2>1, <2>3, Zenon
    <3>2. QED
      BY <3>1, InElems, Zenon
  <2>4. QED
    BY <2>2, <2>3
<1>4. ASSUME NEW x \in Elems(list), x # list[i] PROVE x \in Elems(new)
  <2>1. PICK j \in DOMAIN list : x = list[j]
    BY InElems, Zenon
  <2>2. j \in DOMAIN new /\ x = new[j]
    BY <1>1, <1>4, <2>1, Zenon
  <2>3. QED
    BY <2>2, InElems, Zenon
<1>5. r \in Elems(new)
  BY <1>1, InElems, Zenon
<1>6. QED
  BY <1>3, <1>4, <1>5, Zenon

\* Ranges without a common page lie one before the other.
LEMMA ApartOrdered ==
  ASSUME NEW r, IsRange(r), NEW s, IsRange(s), PagesOf(r) \cap PagesOf(s) = {}
  PROVE  /\ r.base < s.base => End(r) <= s.base
         /\ s.base <= r.base => End(s) <= r.base
<1>1. /\ First(r) \in Nat /\ First(s) \in Nat
      /\ First(r) < Past(r) /\ First(s) < Past(s)
  BY RangeEnd DEF Past
<1>2. First(r) \in PagesOf(r) /\ First(s) \in PagesOf(s)
  BY PageInRange, Zenon
<1>3. First(r) \notin PagesOf(s) /\ First(s) \notin PagesOf(r)
  BY <1>2
<1>4. ~(First(s) <= First(r) /\ First(r) < Past(s)) /\ ~(First(r) <= First(s) /\ First(s) < Past(r))
  BY <1>1, <1>3, PageInRange
<1>5. Past(r) \in Nat /\ Past(s) \in Nat
  BY RangeEnd
<1>6. /\ First(r) < First(s) => Past(r) <= First(s)
      /\ First(s) <= First(r) => Past(s) <= First(r)
  BY <1>1, <1>4, <1>5
<1>7. QED
  BY <1>6, RangeOrder, Zenon

LEMMA RangeNotEmpty ==
  ASSUME NEW r, IsRange(r)
  PROVE  r.base \in Nat \ {0} /\ End(r) \in Nat \ {0} /\ r.base < End(r)
<1>1. /\ First(r) \in Nat /\ Past(r) \in Nat /\ First(r) < Past(r)
      /\ r.base = First(r) * PageSize /\ End(r) = Past(r) * PageSize
  BY RangeEnd DEF Past
<1>2. First(r) * PageSize < Past(r) * PageSize
  BY <1>1, ScaledLess, SizesAssumption
<1>3. QED
  BY <1>1, <1>2, RangeEnd

LEMMA SortedEnds ==
  ASSUME NEW list, MapList(list), NEW i \in DOMAIN list, NEW j \in DOMAIN list, i < j
  PROVE  End(list[i]) <= list[j].base /\ list[j].base < End(list[j])
                      /\ list[i].base < End(list[i]) /\ IsRange(list[i]) /\ IsRange(list[j])
<1>1. IsRange(list[i]) /\ IsRange(list[j])
  BY Zenon DEF MapList, Spread
<1>2. End(list[i]) <= list[j].base
  BY Zenon DEF MapList, Sorted
<1>3. QED
  BY <1>1, <1>2, RangeNotEmpty, Zenon

LEMMA MapListType ==
  ASSUME NEW list, MapList(list)
  PROVE  /\ Len(list) \in Nat /\ DOMAIN list = 1 .. Len(list) /\ IsList(list)
         /\ \A i \in DOMAIN list : list[i] \in Mapping /\ IsRange(list[i])
<1>1. list \in Seq(Mapping) /\ Spread(list)
  BY DEF MapList
<1>2. QED
  BY <1>1, SeqLen DEF IsList, Spread

\* Where a new range goes: behind the entries before it.
Goes(list, r, i) ==
  /\ \A j \in DOMAIN list : j < i => End(list[j]) <= r.base
  /\ \A j \in DOMAIN list : i <= j => End(r) <= list[j].base

\* find_succ_mapping finds that place.
LEMMA SuccFound ==
  ASSUME NEW list, MapList(list), NEW r, IsRange(r), PagesOf(r) \cap Cover(list) = {}
  PROVE  /\ Succ(list, r) # {} => /\ Min(Succ(list, r)) \in DOMAIN list
                                  /\ Goes(list, r, Min(Succ(list, r)))
         /\ Succ(list, r) = {} => Goes(list, r, Len(list) + 1)
<1>1. /\ Len(list) \in Nat /\ DOMAIN list = 1 .. Len(list)
      /\ \A i \in DOMAIN list : IsRange(list[i])
  BY MapListType
<1>2. \A j \in DOMAIN list : PagesOf(list[j]) \cap PagesOf(r) = {}
  <2>1. \A j \in DOMAIN list : PagesOf(list[j]) \subseteq Cover(list)
    BY InCover, Zenon
  <2>2. QED
    BY <2>1
<1>3. ASSUME NEW j \in DOMAIN list
      PROVE  /\ list[j].base < r.base => End(list[j]) <= r.base
             /\ r.base <= list[j].base => End(r) <= list[j].base
  BY <1>1, <1>2, ApartOrdered, Zenon
<1>4. \A j \in DOMAIN list :
        list[j].base \in Nat /\ r.base \in Nat /\ End(list[j]) \in Nat
  BY <1>1, RangeNotEmpty
<1>5. ASSUME Succ(list, r) # {}
      PROVE  Min(Succ(list, r)) \in DOMAIN list /\ Goes(list, r, Min(Succ(list, r)))
  <2> DEFINE i == Min(Succ(list, r))
  <2>1. i \in Succ(list, r)
    <3>1. Succ(list, r) \subseteq Nat
      BY <1>1 DEF Succ
    <3>2. QED
      BY <1>5, <3>1, MinOfNats, Zenon
  <2> HIDE DEF i
  <2>2. /\ i \in DOMAIN list /\ list[i].base >= r.base
        /\ \A j \in DOMAIN list : list[j].base >= r.base => End(list[i]) <= End(list[j])
    BY <2>1 DEF Succ
  <2>3. ASSUME NEW j \in DOMAIN list, j < i PROVE End(list[j]) <= r.base
    <3>1. End(list[j]) <= list[i].base /\ list[i].base < End(list[i])
      BY <2>2, <2>3, SortedEnds, Zenon
    <3>2. ~(list[j].base >= r.base)
      BY <1>4, <2>2, <3>1
    <3>3. QED
      BY <1>3, <1>4, <3>2
  <2>4. ASSUME NEW j \in DOMAIN list, i <= j PROVE End(r) <= list[j].base
    <3>1. CASE i = j
      BY <1>3, <1>4, <2>2, <3>1, Zenon
    <3>2. CASE i < j
      <4>1. End(list[i]) <= list[j].base /\ list[i].base < End(list[i])
        BY <2>2, <3>2, SortedEnds, Zenon
      <4>2. r.base <= list[j].base
        BY <1>4, <2>2, <4>1
      <4>3. QED
        BY <1>3, <4>2, Zenon
    <3>3. QED
      BY <1>1, <2>2, <2>4, <3>1, <3>2
  <2>5. QED
    BY <2>2, <2>3, <2>4, Zenon DEF Goes, i
<1>6. ASSUME Succ(list, r) = {}
      PROVE  Goes(list, r, Len(list) + 1)
  <2> DEFINE T == {j \in DOMAIN list : list[j].base >= r.base}
  <2>1. T = {}
    <3>1. SUFFICES ASSUME T # {} PROVE FALSE
      OBVIOUS
    <3>2. T \subseteq Nat
      BY <1>1
    <3>3. PICK i \in T : \A j \in T : i <= j
      BY <3>1, <3>2, LeastOfNats, Zenon
    <3>4. ASSUME NEW j \in T PROVE End(list[i]) <= End(list[j])
      <4>1. CASE i = j
        BY <1>4, <4>1
      <4>2. CASE i < j
        <5>1. End(list[i]) <= list[j].base /\ list[j].base < End(list[j])
          BY <4>2, SortedEnds, Zenon
        <5>2. QED
          BY <1>4, <5>1
      <4>3. QED
        BY <1>1, <3>3, <4>1, <4>2
    <3>5. i \in Succ(list, r)
      BY <3>3, <3>4, Zenon DEF Succ
    <3>6. QED
      BY <1>6, <3>5
  <2>2. \A j \in DOMAIN list : End(list[j]) <= r.base
    BY <1>3, <1>4, <2>1
  <2>3. \A j \in DOMAIN list : ~(Len(list) + 1 <= j)
    BY <1>1
  <2>4. QED
    BY <2>2, <2>3, Zenon DEF Goes
<1>7. QED
  BY <1>5, <1>6

LEMMA InsertedSorted ==
  ASSUME NEW list, MapList(list), NEW i \in 1 .. Len(list) + 1,
         NEW r, Goes(list, r, i), NEW new, IsInsert(new, list, i, r)
  PROVE  Sorted(new)
<1>1. Len(list) \in Nat /\ DOMAIN list = 1 .. Len(list) /\ DOMAIN new = 1 .. Len(list) + 1
  BY MapListType DEF IsInsert, IsList
<1>2. SUFFICES ASSUME NEW j \in DOMAIN new, NEW k \in DOMAIN new, j < k
               PROVE  End(new[j]) <= new[k].base
  BY DEF Sorted
<1>3. \A m, n \in DOMAIN list : m < n => End(list[m]) <= list[n].base
  BY Zenon DEF MapList, Sorted
<1>4. CASE k < i
  <2>1. new[j] = list[j] /\ new[k] = list[k] /\ j \in DOMAIN list /\ k \in DOMAIN list
    BY <1>1, <1>2, <1>4 DEF IsInsert
  <2>2. QED
    BY <1>2, <1>3, <2>1
<1>5. CASE k = i
  <2>1. new[j] = list[j] /\ new[k] = r /\ j \in DOMAIN list /\ j < i
    BY <1>1, <1>2, <1>5 DEF IsInsert
  <2>2. QED
    BY <2>1 DEF Goes
<1>6. CASE k > i
  <2>1. new[k] = list[k - 1] /\ k - 1 \in DOMAIN list
    BY <1>1, <1>2, <1>6 DEF IsInsert
  <2>2. CASE j < i
    <3>1. new[j] = list[j] /\ j \in DOMAIN list /\ j < k - 1
      BY <1>1, <1>2, <1>6, <2>2 DEF IsInsert
    <3>2. QED
      BY <1>3, <2>1, <3>1
  <2>3. CASE j = i
    <3>1. new[j] = r /\ i <= k - 1
      BY <1>1, <1>2, <1>6, <2>3 DEF IsInsert
    <3>2. QED
      BY <2>1, <3>1, Zenon DEF Goes
  <2>4. CASE j > i
    <3>1. new[j] = list[j - 1] /\ j - 1 \in DOMAIN list /\ j - 1 < k - 1
      BY <1>1, <1>2, <1>6, <2>4 DEF IsInsert
    <3>2. QED
      BY <1>3, <2>1, <3>1, Zenon
  <2>5. QED
    BY <1>1, <2>2, <2>3, <2>4
<1>7. QED
  BY <1>1, <1>4, <1>5, <1>6

\* Where put(memory_mapping *) puts r.
PutAt(list, r) == IF Succ(list, r) # {} THEN Min(Succ(list, r)) ELSE Len(list) + 1

LEMMA PutMappingAt ==
  ASSUME NEW list \in Seq(Mapping), NEW r \in Mapping, NEW new, new = PutMapping(list, r)
  PROVE  /\ new \in Seq(Mapping) /\ PutAt(list, r) \in 1 .. Len(list) + 1
         /\ IsInsert(new, list, PutAt(list, r), r)
<1> DEFINE i == PutAt(list, r)
<1>1. Len(list) \in Nat /\ DOMAIN list = 1 .. Len(list) /\ IsList(list)
  BY SeqLen DEF IsList
<1>2. CASE Succ(list, r) # {}
  <2>1. Succ(list, r) \subseteq 1 .. Len(list) /\ Succ(list, r) \subseteq Nat
    BY <1>1 DEF Succ
  <2>2. Min(Succ(list, r)) \in Succ(list, r)
    BY <1>2, <2>1, MinOfNats
  <2>3. i = Min(Succ(list, r)) /\ new = InsertAt(list, i, r)
    BY <1>2, Zenon DEF PutMapping, PutAt
  <2>4. i \in 1 .. Len(list) + 1
    BY <1>1, <2>1, <2>2, <2>3
  <2> HIDE DEF i
  <2>5. new \in Seq(Mapping)
    BY <2>3, <2>4, SeqInsert, Zenon
  <2>6. IsInsert(new, list, i, r)
    BY <1>1, <2>3, <2>4, InsertedList
  <2>7. QED
    BY <2>4, <2>5, <2>6, Zenon DEF i
<1>3. CASE Succ(list, r) = {}
  <2>1. i = Len(list) + 1 /\ new = Append(list, r)
    BY <1>3, Zenon DEF PutMapping, PutAt
  <2>2. /\ new \in Seq(Mapping) /\ Len(new) = Len(list) + 1 /\ new[Len(list) + 1] = r
        /\ \A j \in 1 .. Len(list) : new[j] = list[j]
    BY <2>1, SeqAppend
  <2>3. IsList(new)
    BY <2>2, SeqIsList, Zenon
  <2>4. IsInsert(new, list, Len(list) + 1, r)
    BY <1>1, <2>2, <2>3 DEF IsInsert
  <2>5. Len(list) + 1 \in 1 .. Len(list) + 1
    BY <1>1
  <2>6. QED
    BY <2>1, <2>2, <2>4, <2>5, Zenon
<1>4. QED
  BY <1>2, <1>3

\* put(memory_mapping *) keeps the mappings in the order of their pages.
LEMMA PutMappingSorted ==
  ASSUME NEW list, MapList(list), NEW r \in Mapping, IsRange(r),
         PagesOf(r) \cap Cover(list) = {}, NEW new, new = PutMapping(list, r)
  PROVE  /\ MapList(new)
         /\ Elems(new) = Elems(list) \cup {r}
         /\ Cover(new) = Cover(list) \cup PagesOf(r)
<1> DEFINE i == PutAt(list, r)
<1>1. IsList(list) /\ list \in Seq(Mapping) /\ Spread(list)
  BY MapListType DEF MapList
<1>2. new \in Seq(Mapping) /\ i \in 1 .. Len(list) + 1 /\ IsInsert(new, list, i, r)
  BY <1>1, PutMappingAt, Zenon
<1>3. Goes(list, r, i)
  BY SuccFound, Zenon DEF PutAt
<1> HIDE DEF i
<1>4. Sorted(new)
  BY <1>2, <1>3, InsertedSorted, Zenon
<1>5. Spread(new) /\ Cover(new) = Cover(list) \cup PagesOf(r)
  BY <1>1, <1>2, InsertedSpread
<1>6. Elems(new) = Elems(list) \cup {r}
  BY <1>1, <1>2, InsertedElems
<1>7. QED
  BY <1>2, <1>4, <1>5, <1>6, Zenon DEF MapList

LEMMA RemovedMapping ==
  ASSUME NEW list, MapList(list), NEW i \in DOMAIN list,
         NEW new, new = RemoveAt(list, i)
  PROVE  /\ MapList(new)
         /\ Elems(new) = Elems(list) \ {list[i]}
         /\ Cover(new) = Cover(list) \ PagesOf(list[i])
<1>1. /\ Len(list) \in Nat /\ DOMAIN list = 1 .. Len(list) /\ IsList(list)
      /\ list \in Seq(Mapping) /\ Spread(list)
  BY MapListType DEF MapList
<1>2. IsRemoval(new, list, i)
  BY <1>1, RemovedList
<1>3. new \in Seq(Mapping)
  BY <1>1, SeqRemove, Zenon
<1>4. Spread(new) /\ Cover(new) = Cover(list) \ PagesOf(list[i])
  BY <1>1, <1>2, RemovedSpread
<1>5. Elems(new) = Elems(list) \ {list[i]}
  BY <1>1, <1>2, RemovedElems
<1>6. Sorted(new)
  <2> DEFINE from(j) == IF j < i THEN j ELSE j + 1
  <2>1. \A j \in DOMAIN new : from(j) \in DOMAIN list /\ new[j] = list[from(j)]
    BY <1>1, <1>2 DEF IsRemoval, IsList
  <2>2. \A j, k \in DOMAIN new : j < k => from(j) < from(k)
    BY <1>1, <1>2 DEF IsRemoval, IsList
  <2> HIDE DEF from
  <2>3. \A j, k \in DOMAIN list : j < k => End(list[j]) <= list[k].base
    BY Zenon DEF MapList, Sorted
  <2>4. ASSUME NEW j \in DOMAIN new, NEW k \in DOMAIN new, j < k
        PROVE  End(new[j]) <= new[k].base
    BY <2>1, <2>2, <2>3, <2>4
  <2>5. QED
    BY <2>4 DEF Sorted
<1>7. QED
  BY <1>3, <1>4, <1>5, <1>6, Zenon DEF MapList

\* A mapping replaced by one of the same range.
LEMMA ReplacedMapping ==
  ASSUME NEW list, MapList(list), NEW i \in DOMAIN list,
         NEW r \in Mapping, r.base = list[i].base, r.size = list[i].size,
         NEW new, new = With(list, i, r)
  PROVE  /\ MapList(new)
         /\ Elems(new) = (Elems(list) \ {list[i]}) \cup {r}
         /\ Cover(new) = Cover(list)
<1>1. /\ Len(list) \in Nat /\ DOMAIN list = 1 .. Len(list) /\ IsList(list)
      /\ list \in Seq(Mapping) /\ Spread(list)
  BY MapListType DEF MapList
<1>2. IsReplacement(new, list, i, r)
  BY <1>1, ReplacedList, Zenon DEF With
<1>3. new \in Seq(Mapping)
  BY <1>1, SeqExcept DEF With
<1>4. PagesOf(r) = PagesOf(list[i]) /\ End(r) = End(list[i])
  BY SameRange, Zenon
<1>5. IsRange(r)
  BY <1>1, SameRange, Zenon DEF Spread
<1>6. PagesOf(r) \cap (Cover(list) \ PagesOf(list[i])) = {}
  BY <1>4
<1>7. Spread(new) /\ Cover(new) = (Cover(list) \ PagesOf(list[i])) \cup PagesOf(r)
  BY <1>1, <1>2, <1>5, <1>6, ReplacedSpread
<1>8. Cover(new) = Cover(list)
  <2>1. PagesOf(list[i]) \subseteq Cover(list)
    BY InCover, Zenon
  <2>2. QED
    BY <1>4, <1>7, <2>1
<1>9. Elems(new) = (Elems(list) \ {list[i]}) \cup {r}
  BY <1>1, <1>2, ReplacedElems
<1>10. Sorted(new)
  <2>1. \A j \in DOMAIN new : j \in DOMAIN list /\ End(new[j]) = End(list[j])
                              /\ new[j].base = list[j].base
    BY <1>2, <1>4, Zenon DEF IsReplacement
  <2>2. \A j, k \in DOMAIN list : j < k => End(list[j]) <= list[k].base
    BY Zenon DEF MapList, Sorted
  <2>3. QED
    BY <2>1, <2>2, Zenon DEF Sorted
<1>11. QED
  BY <1>3, <1>7, <1>8, <1>9, <1>10, Zenon DEF MapList

-----------------------------------------------------------------------------
\* touch(): the frames handed out

Rank(x, S) == Cardinality({j \in S : j < x})

LEMMA RankType ==
  ASSUME NEW S \in SUBSET Nat, IsFiniteSet(S), NEW x
  PROVE  IsFiniteSet({j \in S : j < x}) /\ Rank(x, S) \in Nat
BY FS_Subset, FS_CardinalityType DEF Rank

\* The elements of a set have different ranks ...
LEMMA RankInjective ==
  ASSUME NEW S \in SUBSET Nat, IsFiniteSet(S), NEW x \in S, NEW y \in S,
         Rank(x, S) = Rank(y, S)
  PROVE  x = y
<1>0. \A j \in S : j \in Nat
  OBVIOUS
<1>1. ASSUME NEW a \in S, NEW b \in S, a < b PROVE Rank(a, S) # Rank(b, S)
  <2> DEFINE A == {j \in S : j < a}
             B == {j \in S : j < b}
  <2>1. A \subseteq B /\ a \in B /\ a \notin A
    <3>1. (\A j \in S : j < a => j < b) /\ a < b /\ ~(a < a)
      BY <1>0, <1>1
    <3>2. QED
      BY <3>1, Zenon
  <2>2. IsFiniteSet(B)
    BY FS_Subset
  <2>3. Cardinality(A) # Cardinality(B)
    <3> HIDE DEF A, B
    <3>1. QED
      BY <2>1, <2>2, FS_Subset, FS_CardinalityType, Zenon
  <2>4. QED
    BY <2>3 DEF Rank
<1>2. QED
  BY <1>0, <1>1

\* ... below the size of the set ...
LEMMA RankBelow ==
  ASSUME NEW S \in SUBSET Nat, IsFiniteSet(S), NEW x \in S
  PROVE  Rank(x, S) < Cardinality(S)
<1> DEFINE A == {j \in S : j < x}
<1>1. x \in Nat /\ ~(x < x)
  OBVIOUS
<1>2. A \subseteq S /\ x \notin A
  BY <1>1, Zenon
<1> HIDE DEF A
<1>3. /\ Cardinality(A) \in Nat /\ Cardinality(S) \in Nat
      /\ Cardinality(A) <= Cardinality(S) /\ Cardinality(A) # Cardinality(S)
  BY <1>2, FS_Subset, FS_CardinalityType, Zenon
<1>4. Cardinality(A) < Cardinality(S)
  BY <1>3
<1>5. QED
  BY <1>4 DEF Rank, A

\* ... and every number below the size of the set is one.
LEMMA RankReached ==
  ASSUME NEW S \in SUBSET Nat, IsFiniteSet(S), NEW n \in Nat, n < Cardinality(S)
  PROVE  \E x \in S : Rank(x, S) = n
<1> DEFINE N == {m \in Nat : m < Cardinality(S) => \E x \in S : Rank(x, S) = m}
<1>0. \A j \in S : j \in Nat
  OBVIOUS
<1>1. Cardinality(S) \in Nat
  BY FS_CardinalityType
<1>2. 0 \in N
  <2>1. SUFFICES ASSUME 0 < Cardinality(S) PROVE \E x \in S : Rank(x, S) = 0
    OBVIOUS
  <2>2. S # {}
    BY <2>1, FS_EmptySet
  <2>3. PICK x \in S : \A y \in S : x <= y
    BY <2>2, LeastOfNats, Zenon
  <2>4. {j \in S : j < x} = {}
    <3>1. \A j \in S : ~(j < x)
      BY <1>0, <2>3
    <3>2. QED
      BY <3>1, Zenon
  <2>5. Rank(x, S) = 0
    BY <2>4, FS_EmptySet DEF Rank
  <2>6. QED
    BY <2>5
<1>3. ASSUME NEW m \in Nat, m \in N PROVE m + 1 \in N
  <2>1. SUFFICES ASSUME m + 1 < Cardinality(S) PROVE \E x \in S : Rank(x, S) = m + 1
    OBVIOUS
  <2>2. PICK x \in S : Rank(x, S) = m
    BY <1>1, <1>3, <2>1
  <2> DEFINE A == {j \in S : j < x}
             T == {j \in S : x < j}
  <2>3. IsFiniteSet(A) /\ Cardinality(A) = m /\ x \notin A
    BY <2>2, RankType DEF Rank
  <2>4. IsFiniteSet(A \cup {x}) /\ Cardinality(A \cup {x}) = m + 1
    <3> HIDE DEF A
    <3>1. QED
      BY <2>3, FS_AddElement
  <2>5. T # {}
    <3>1. SUFFICES ASSUME T = {} PROVE FALSE
      OBVIOUS
    <3>2. S = A \cup {x}
      <4>1. \A j \in S : j < x \/ j = x \/ x < j
        BY <1>0
      <4>2. QED
        BY <3>1, <4>1, Zenon
    <3> HIDE DEF A
    <3>3. QED
      BY <1>1, <2>1, <2>4, <3>2
  <2>6. PICK y \in T : \A z \in T : y <= z
    <3>1. T \in SUBSET Nat
      BY Zenon
    <3> HIDE DEF T
    <3>2. QED
      BY <2>5, <3>1, LeastOfNats, Zenon
  <2>7. {j \in S : j < y} = A \cup {x}
    <3>1. y \in S /\ x < y /\ \A j \in S : x < j => y <= j
      BY <2>6, Zenon
    <3>2. \A j \in S : j < y <=> j < x \/ j = x
      BY <1>0, <3>1
    <3>3. QED
      BY <3>2, Zenon
  <2>8. Rank(y, S) = m + 1
    BY <2>4, <2>7 DEF Rank
  <2>9. QED
    BY <2>6, <2>8
<1> HIDE DEF N
<1>4. n \in N
  BY <1>2, <1>3, NatsReached
<1>5. QED
  BY <1>4 DEF N

\* The pages that touch() finds missing, those it finds a frame for, and it.
Wanted(r, idx) == {i \in idx : ~r.back[i].exists}
Got(r, idx) == {i \in Wanted(r, idx) : Rank(i, Wanted(r, idx)) < Cardinality(free)}
FrameFor(r, idx, i) == CHOOSE f \in free : Rank(f, free) = Rank(i, Wanted(r, idx))

LEMMA WantedFinite ==
  ASSUME free \subseteq Frames, NEW r \in Mapping, NEW idx \in SUBSET (1 .. r.size)
  PROVE  /\ free \in SUBSET Nat /\ IsFiniteSet(free) /\ Cardinality(free) \in Nat
         /\ Wanted(r, idx) \in SUBSET Nat /\ IsFiniteSet(Wanted(r, idx))
         /\ Cardinality(Wanted(r, idx)) \in Nat /\ Wanted(r, idx) \subseteq 1 .. r.size
<1>1. free \in SUBSET Nat /\ IsFiniteSet(free)
  BY FramesAssumption, FS_Subset, Zenon
<1>2. r.size \in Nat
  BY MappingType
<1>3. Wanted(r, idx) \subseteq 1 .. r.size
  BY Zenon DEF Wanted
<1>4. 1 .. r.size \subseteq Nat
  BY <1>2
<1>5. IsFiniteSet(1 .. r.size)
  BY <1>2, FS_Interval
<1>6. Wanted(r, idx) \in SUBSET Nat /\ IsFiniteSet(Wanted(r, idx))
  BY <1>3, <1>4, <1>5, FS_Subset, Zenon
<1>7. QED
  BY <1>1, <1>3, <1>6, FS_CardinalityType, Zenon

LEMMA GotFrame ==
  ASSUME free \subseteq Frames, NEW r \in Mapping, NEW idx \in SUBSET (1 .. r.size),
         NEW i \in Got(r, idx)
  PROVE  /\ FrameFor(r, idx, i) \in free
         /\ Rank(FrameFor(r, idx, i), free) = Rank(i, Wanted(r, idx))
<1> DEFINE want == Wanted(r, idx)
<1>1. free \in SUBSET Nat /\ IsFiniteSet(free) /\ want \in SUBSET Nat /\ IsFiniteSet(want)
  BY WantedFinite, Zenon
<1>2. i \in want /\ Rank(i, want) < Cardinality(free)
  BY Zenon DEF Got
<1> HIDE DEF want
<1>3. Rank(i, want) \in Nat
  BY <1>1, RankType, Zenon
<1>4. \E f \in free : Rank(f, free) = Rank(i, want)
  BY <1>1, <1>2, <1>3, RankReached
<1>5. QED
  BY <1>4, Zenon DEF FrameFor, want

\* What touch() makes of mapping r.
BackTouched(t, r, idx) ==
  /\ t \in Mapping /\ t.base = r.base /\ t.size = r.size
  /\ \A k \in 1 .. r.size : k \notin Got(r, idx) => t.back[k] = r.back[k]
  /\ \A k \in Got(r, idx) :
       /\ k \in 1 .. r.size /\ ~r.back[k].exists
       /\ t.back[k].exists /\ t.back[k].ptr = FrameFor(r, idx, k)
       /\ t.back[k].allocated = r.back[k].allocated

LEMMA TouchedBack ==
  ASSUME free \subseteq Frames, NEW r \in Mapping, NEW idx \in SUBSET (1 .. r.size),
         NEW t, t = Touched(r, idx)
  PROVE  BackTouched(t, r, idx)
<1> DEFINE got == Got(r, idx)
           frame(i) == FrameFor(r, idx, i)
           back == [i \in 1 .. r.size |->
             IF i \in got THEN [r.back[i] EXCEPT !.exists = TRUE, !.ptr = frame(i)]
                          ELSE r.back[i]]
<1>1. t = [r EXCEPT !.back = back]
  BY Zenon DEF Touched, Rank, Got, Wanted, FrameFor
<1>2. r.base \in Int /\ r.size \in Nat \ {0} /\ r.back \in [1 .. r.size -> Backing]
  BY MappingType
<1>3. \A i \in got : frame(i) \in Nat
  BY GotFrame, WantedFinite, Zenon
<1>4. \A i \in got : i \in 1 .. r.size /\ ~r.back[i].exists
  BY Zenon DEF Got, Wanted
<1> HIDE DEF frame, got
<1>5. back \in [1 .. r.size -> Backing]
  BY <1>2, <1>3, Zenon DEF Backing
<1>6. ASSUME NEW k \in 1 .. r.size
      PROVE  /\ k \notin got => back[k] = r.back[k]
             /\ k \in got => /\ back[k].exists /\ back[k].ptr = frame(k)
                             /\ back[k].allocated = r.back[k].allocated
  BY <1>2, Zenon DEF Backing
<1> HIDE DEF back
<1>7. t = [base |-> r.base, size |-> r.size, back |-> back]
  BY <1>1 DEF Mapping
<1>8. t \in Mapping
  BY <1>2, <1>5, <1>7, MappingMade, Zenon
<1>9. t.base = r.base /\ t.size = r.size /\ t.back = back
  BY <1>7
<1>10. QED
  BY <1>4, <1>6, <1>8, <1>9, Zenon DEF BackTouched, got, frame

\* t is mapping r after a touch: pages that did not exist may exist now, each
\* in a frame of its own that was free.
IsTouched(t, r) ==
  /\ t \in Mapping /\ t.base = r.base /\ t.size = r.size
  /\ \A k \in 1 .. r.size :
       \/ t.back[k] = r.back[k]
       \/ /\ ~r.back[k].exists /\ t.back[k].exists
          /\ t.back[k].allocated = r.back[k].allocated
          /\ t.back[k].ptr \in free
  /\ \A k, m \in 1 .. r.size :
       ~r.back[k].exists /\ ~r.back[m].exists /\ t.back[k].exists /\ t.back[m].exists
         /\ t.back[k].ptr = t.back[m].ptr => k = m

LEMMA TouchedIsTouched ==
  ASSUME free \subseteq Frames, NEW r \in Mapping, NEW idx \in SUBSET (1 .. r.size)
  PROVE  IsTouched(Touched(r, idx), r)
<1> DEFINE t == Touched(r, idx)
           got == Got(r, idx)
           want == Wanted(r, idx)
<1>1. /\ t \in Mapping /\ t.base = r.base /\ t.size = r.size
      /\ \A k \in 1 .. r.size : k \notin got => t.back[k] = r.back[k]
      /\ \A k \in got : /\ k \in 1 .. r.size /\ ~r.back[k].exists
                        /\ t.back[k].exists /\ t.back[k].ptr = FrameFor(r, idx, k)
                        /\ t.back[k].allocated = r.back[k].allocated
  <2>1. BackTouched(t, r, idx)
    BY TouchedBack, Zenon
  <2> HIDE DEF t
  <2>2. QED
    BY <2>1, Zenon DEF BackTouched
<1>2. \A k \in got : /\ FrameFor(r, idx, k) \in free
                     /\ Rank(FrameFor(r, idx, k), free) = Rank(k, want)
  BY GotFrame, Zenon
<1>3. want \in SUBSET Nat /\ IsFiniteSet(want) /\ \A k \in got : k \in want
  BY WantedFinite, Zenon DEF Got
<1> HIDE DEF t, got, want
<1>4. \A k \in 1 .. r.size :
        \/ t.back[k] = r.back[k]
        \/ /\ ~r.back[k].exists /\ t.back[k].exists
           /\ t.back[k].allocated = r.back[k].allocated
           /\ t.back[k].ptr \in free
  BY <1>1, <1>2, Zenon
<1>5. ASSUME NEW k \in 1 .. r.size, NEW m \in 1 .. r.size,
             ~r.back[k].exists, ~r.back[m].exists, t.back[k].exists, t.back[m].exists,
             t.back[k].ptr = t.back[m].ptr
      PROVE  k = m
  <2>1. k \in got /\ m \in got
    BY <1>1, <1>5, Zenon
  <2>2. Rank(k, want) = Rank(m, want)
    BY <1>1, <1>2, <1>5, <2>1, Zenon
  <2>3. QED
    BY <1>3, <2>1, <2>2, RankInjective, Zenon
<1>6. QED
  BY <1>1, <1>4, <1>5, Zenon DEF IsTouched, t

\* If touch() leaves a page without a frame, it has handed out every frame.
LEMMA TouchedTakesAll ==
  ASSUME free \subseteq Frames, NEW r \in Mapping, NEW idx \in SUBSET (1 .. r.size),
         NEW t, t = Touched(r, idx), NEW k \in idx, ~t.back[k].exists, NEW f \in free
  PROVE  Backs(t, f) # {}
<1> DEFINE got == Got(r, idx)
           want == Wanted(r, idx)
           n == Rank(f, free)
<1>1. /\ t.size = r.size
      /\ \A j \in 1 .. r.size : j \notin got => t.back[j] = r.back[j]
      /\ \A j \in got : /\ j \in 1 .. r.size
                        /\ t.back[j].exists /\ t.back[j].ptr = FrameFor(r, idx, j)
  <2>1. BackTouched(t, r, idx)
    BY TouchedBack, Zenon
  <2>2. QED
    BY <2>1, Zenon DEF BackTouched
<1>2. /\ free \in SUBSET Nat /\ IsFiniteSet(free) /\ Cardinality(free) \in Nat
      /\ want \in SUBSET Nat /\ IsFiniteSet(want) /\ Cardinality(want) \in Nat
  BY WantedFinite, Zenon
<1>3. k \in want /\ k \notin got
  <2>1. k \notin got
    BY <1>1, Zenon
  <2>2. t.back[k] = r.back[k]
    BY <1>1, <2>1, Zenon
  <2>3. ~r.back[k].exists
    BY <2>2
  <2>4. QED
    BY <2>1, <2>3, Zenon DEF Wanted
<1>4. ~(Rank(k, want) < Cardinality(free))
  BY <1>3, Zenon DEF Got
<1> HIDE DEF got, want, n
<1>5. Rank(k, want) \in Nat /\ Rank(k, want) < Cardinality(want)
  BY <1>2, <1>3, RankType, RankBelow, Zenon
<1>6. n \in Nat /\ n < Cardinality(free)
  BY <1>2, RankType, RankBelow, Zenon DEF n
<1>7. n < Cardinality(want)
  BY <1>2, <1>4, <1>5, <1>6
<1>8. PICK x \in want : Rank(x, want) = n
  BY <1>2, <1>6, <1>7, RankReached, Zenon
<1>9. x \in got
  BY <1>6, <1>8, Zenon DEF got, Got, want
<1>10. FrameFor(r, idx, x) \in free /\ Rank(FrameFor(r, idx, x), free) = n
  BY <1>8, <1>9, GotFrame, Zenon DEF got, want
<1>11. FrameFor(r, idx, x) = f
  BY <1>2, <1>10, RankInjective, Zenon DEF n
<1>12. x \in Backs(t, f)
  BY <1>1, <1>9, <1>11, Zenon DEF Backs
<1>13. QED
  BY <1>12, Zenon

=============================================================================
