----------------------------- MODULE HeapProofs -----------------------------
(***************************************************************************)
(* Proofs about the kernel heap for every page size, every set of frames   *)
(* and every size of block.                                                *)
(*                                                                         *)
(* kfree finds a block's pages from the pointer alone.  The argument is    *)
(* that the page it begins at is the block's first or its second, so that  *)
(* what it unmaps are the block's own pages, less the first one and with   *)
(* the page behind the block in the second case; and that page is never    *)
(* mapped.                                                                 *)
(***************************************************************************)
EXTENDS Heap, TLAPS

TypeInv ==
  /\ top \in Nat
  /\ pt \in [DOMAIN pt -> Frames] /\ DOMAIN pt \subseteq 0 .. top - 1
  /\ mem = [a \in DOMAIN mem |-> mem[a]]
  /\ free \subseteq Frames
  /\ blocks \in [DOMAIN blocks -> [page : Nat, pages : Nat, size : Nat]]
  /\ DOMAIN blocks \subseteq Nat
  /\ moving \in [old : Int, new : Int]

\* What kmalloc has left for block p: its place, its header and its pages.
BlockInv(p) ==
  LET b == blocks[p] IN
  /\ b.pages = PagesFor(b.size) /\ p = PtrAt(b.page, b.size)
  /\ b.page + b.pages < top
  /\ {p - 16, p - 8} \subseteq DOMAIN mem
  /\ mem[p - 16] = b.size /\ mem[p - 8] = b.pages
  /\ BlockPages(b) \subseteq DOMAIN pt
  /\ b.page + b.pages \notin DOMAIN pt

\* Block b with the page behind it lies below block c.
Below(b, c) == b.page + b.pages < c.page

\* All that the calls rely on, except for a krealloc under way.
CallInv ==
  /\ TypeInv
  /\ \A p \in DOMAIN blocks : BlockInv(p)
  /\ \A p, q \in DOMAIN blocks :
       p # q => Below(blocks[p], blocks[q]) \/ Below(blocks[q], blocks[p])
  /\ FramesOnce
  /\ StrayPagesExplained
  /\ halted # "kfree"

\* The inductive invariant.
HeapInv == CallInv /\ (moving # Idle => moving.old \in DOMAIN blocks)

-----------------------------------------------------------------------------
\* Arithmetic of pages

LEMMA Divided ==
  ASSUME NEW a \in Nat, NEW d \in Nat \ {0}
  PROVE  /\ a \div d \in Nat
         /\ (a \div d) * d <= a
         /\ a < (a \div d) * d + d
  OBVIOUS

LEMMA Scaled ==
  ASSUME NEW a \in Int, NEW b \in Int, NEW d \in Nat, a <= b
  PROVE  a * d <= b * d
  OBVIOUS

LEMMA Distributes ==
  ASSUME NEW a \in Int, NEW b \in Int, NEW d \in Int
  PROVE  (a + b) * d = a * d + b * d /\ a * d \in Int
  OBVIOUS

\* The quotient is the only number between these bounds.
LEMMA Quotient ==
  ASSUME NEW a \in Nat, NEW d \in Nat \ {0}, NEW q \in Nat,
         q * d <= a, a < (q + 2) * d
  PROVE  a \div d \in {q, q + 1}
<1>1. a \div d \in Nat /\ (a \div d) * d <= a /\ a < (a \div d) * d + d
  BY Divided
<1>2. a \div d >= q
  <2>1. SUFFICES ASSUME a \div d <= q - 1 PROVE FALSE
    BY <1>1
  <2>2. (a \div d + 1) * d <= q * d
    BY <1>1, <2>1, Scaled
  <2>3. (a \div d + 1) * d = (a \div d) * d + d
    BY <1>1
  <2>4. QED
    BY <1>1, <2>2, <2>3
<1>3. a \div d <= q + 1
  <2>1. SUFFICES ASSUME q + 2 <= a \div d PROVE FALSE
    BY <1>1
  <2>2. (q + 2) * d <= (a \div d) * d
    BY <1>1, <2>1, Scaled
  <2>3. QED
    BY <1>1, <2>2
<1>4. QED
  BY <1>1, <1>2, <1>3

LEMMA PageSizeBounds == PageSize \in Nat \ {0} /\ PageSize >= 16
  BY PageSizeAssumption

\* The pages that kmalloc takes have room for the block and its header, and
\* less than a page more.
LEMMA PagesForBounds ==
  ASSUME NEW n \in Nat
  PROVE  /\ PagesFor(n) \in Nat \ {0}
         /\ n + 16 <= PagesFor(n) * PageSize
         /\ PagesFor(n) * PageSize < n + 16 + PageSize
<1>1. n + 16 + PageSize - 1 \in Nat
  BY PageSizeBounds
<1>2. /\ PagesFor(n) \in Nat
      /\ PagesFor(n) * PageSize <= n + 16 + PageSize - 1
      /\ n + 16 + PageSize - 1 < PagesFor(n) * PageSize + PageSize
  BY <1>1, Divided, PageSizeBounds DEF PagesFor
<1>3. PagesFor(n) # 0
  BY <1>2, PageSizeBounds
<1>4. QED
  BY <1>2, <1>3, PageSizeBounds

\* Where kmalloc places a block: the header is inside the first page, the
\* contents end with the last one, and kfree's start is the first or the
\* second page.
LEMMA Placement ==
  ASSUME NEW t \in Nat, NEW n \in Nat
  PROVE  /\ PtrAt(t, n) \in Nat
         /\ t * PageSize <= PtrAt(t, n) - 16
         /\ PtrAt(t, n) + n = (t + PagesFor(n)) * PageSize
         /\ StartPage(PtrAt(t, n)) \in {t, t + 1}
<1> DEFINE k == PagesFor(n)
           p == PtrAt(t, n)
<1>1. k \in Nat /\ n + 16 <= k * PageSize /\ k * PageSize < n + 16 + PageSize
  BY PagesForBounds
<1>2. p = t * PageSize + k * PageSize - n /\ t * PageSize \in Nat
      /\ (t + k) * PageSize = t * PageSize + k * PageSize
  BY <1>1, Distributes, PageSizeBounds DEF PtrAt
<1>3. (t + 2) * PageSize = t * PageSize + PageSize + PageSize
  BY PageSizeBounds
<1> HIDE DEF k, p
<1>4. p \in Nat /\ t * PageSize <= p - 16
  BY <1>1, <1>2, PageSizeBounds
<1>5. p < (t + 2) * PageSize /\ t * PageSize <= p
  BY <1>1, <1>2, <1>3, PageSizeBounds
<1>6. p \div PageSize \in {t, t + 1}
  BY <1>4, <1>5, Quotient, PageSizeBounds
<1>7. p + n = (t + k) * PageSize
  BY <1>1, <1>2, PageSizeBounds
<1>8. QED
  BY <1>4, <1>6, <1>7 DEF k, p, StartPage

LEMMA Rounded == ASSUME NEW b \in Nat PROVE Round8(b) \in Nat
  BY DEF Round8

\* A block that lies below another page ends below it in bytes.
LEMMA EndsBelow ==
  ASSUME NEW t \in Nat, NEW n \in Nat, NEW u \in Nat, t + PagesFor(n) <= u
  PROVE  PtrAt(t, n) <= u * PageSize
<1>1. (t + PagesFor(n)) * PageSize <= u * PageSize
  BY Scaled, PagesForBounds, PageSizeBounds
<1>2. PtrAt(t, n) \in Nat /\ PtrAt(t, n) + n = (t + PagesFor(n)) * PageSize
  BY Placement
<1>3. u * PageSize \in Nat
  BY PageSizeBounds
<1>4. QED
  BY <1>1, <1>2, <1>3

-----------------------------------------------------------------------------
\* The steps of the calls

\* kmalloc's loop maps m frames once each.
LEMMA MapFrames ==
  ASSUME TypeInv, FramesOnce, NEW m \in Nat, NEW f \in [0 .. m - 1 -> free],
         \A i, j \in 0 .. m - 1 : f[i] = f[j] => i = j,
         MapAtTop(f, m)
  PROVE  /\ DOMAIN pt' = DOMAIN pt \cup (top .. top + m - 1)
         /\ pt' \in [DOMAIN pt' -> Frames]
         /\ free' \subseteq Frames
         /\ FramesOnce'
<1> DEFINE new == top .. top + m - 1
<1>1. DOMAIN pt' = DOMAIN pt \cup new
  BY Zenon DEF MapAtTop
<1>2. \A v \in new : v \notin DOMAIN pt /\ v - top \in 0 .. m - 1
  BY DEF TypeInv
<1>3. \A v \in new : pt'[v] = f[v - top] /\ pt'[v] \in free
  BY <1>2 DEF MapAtTop
<1>4. \A v \in DOMAIN pt : pt'[v] = pt[v] /\ pt'[v] \in Frames /\ pt'[v] \notin free
  <2>1. \A v \in DOMAIN pt : v \notin new
    BY <1>2, Zenon
  <2>2. QED
    BY <2>1 DEF MapAtTop, TypeInv, FramesOnce
<1>5. \A i \in 0 .. m - 1 : i + top \in new /\ pt'[i + top] = f[i]
  <2>1. \A i \in 0 .. m - 1 : i + top \in new /\ (i + top) - top = i
    BY DEF TypeInv
  <2>2. QED
    BY <2>1, <1>3
<1>6. free' = {x \in free : \A v \in new : pt'[v] # x}
  <2>1. free' = free \ {f[i] : i \in 0 .. m - 1}
    BY DEF MapAtTop
  <2>2. QED
    BY <2>1, <1>2, <1>3, <1>5
<1>7. pt' \in [DOMAIN pt' -> Frames]
  <2>1. \A v \in DOMAIN pt' : pt'[v] \in Frames
    BY <1>1, <1>3, <1>4 DEF TypeInv
  <2>2. pt' = [v \in DOMAIN pt' |-> pt'[v]]
    BY Zenon DEF MapAtTop
  <2>3. QED
    BY <2>1, <2>2, Zenon
<1>8. ASSUME NEW v \in DOMAIN pt', NEW w \in DOMAIN pt', pt'[v] = pt'[w]
      PROVE  v = w
  <2>1. CASE v \in new /\ w \in new
    <3>1. f[v - top] = f[w - top] /\ v - top \in 0 .. m - 1 /\ w - top \in 0 .. m - 1
      BY <1>2, <1>3, <1>8, <2>1
    <3>2. v - top = w - top
      BY <3>1
    <3>3. QED
      BY <2>1, <3>2 DEF TypeInv
  <2>2. CASE v \notin new /\ w \notin new
    BY <1>1, <1>4, <1>8, <2>2 DEF FramesOnce
  <2>3. CASE (v \in new /\ w \notin new) \/ (v \notin new /\ w \in new)
    BY <1>1, <1>3, <1>4, <1>8, <2>3, Zenon
  <2>4. QED
    BY <2>1, <2>2, <2>3
<1> DEFINE used == {pt[v] : v \in DOMAIN pt}
           used2 == {pt'[v] : v \in DOMAIN pt'}
<1>9. used2 \cap free' = {}
  BY <1>1, <1>4, <1>6
<1>10. used2 \cup free' = Frames
  <2>1. ASSUME NEW x \in Frames PROVE x \in used2 \cup free'
    <3>1. CASE x \in free
      BY <1>1, <1>6, <3>1, Zenon
    <3>2. CASE x \notin free
      <4>1. PICK v \in DOMAIN pt : pt[v] = x
        BY <3>2 DEF FramesOnce
      <4>2. QED
        BY <1>1, <1>4, <4>1, Zenon
    <3>3. QED
      BY <3>1, <3>2
  <2>2. used2 \subseteq Frames
    BY <1>7, Zenon
  <2>3. free' \subseteq Frames
    BY <1>6 DEF TypeInv
  <2>4. QED
    BY <2>1, <2>2, <2>3, Zenon
<1>11. free' \subseteq Frames
  BY <1>6 DEF TypeInv
<1>12. FramesOnce'
  BY <1>8, <1>9, <1>10, Zenon DEF FramesOnce
<1>13. QED
  BY <1>1, <1>7, <1>11, <1>12, Zenon

\* A block below top keeps what CallInv says of it when pages from top on are
\* mapped and the header words of a block at top are written.
LEMMA BlockKept ==
  ASSUME TypeInv, NEW p \in DOMAIN blocks, BlockInv(p),
         NEW m \in Nat, DOMAIN pt' = DOMAIN pt \cup (top .. top + m - 1),
         top' \in Nat, top <= top', blocks'[p] = blocks[p],
         DOMAIN mem \subseteq DOMAIN mem',
         \A a \in DOMAIN mem : a < top * PageSize => mem'[a] = mem[a]
  PROVE  BlockInv(p)'
<1> DEFINE b == blocks[p]
<1>1. b.page \in Nat /\ b.pages \in Nat /\ b.size \in Nat /\ p \in Nat
  BY DEF TypeInv
<1>2. /\ b.pages = PagesFor(b.size) /\ p = PtrAt(b.page, b.size)
      /\ b.page + b.pages < top
      /\ p - 16 \in DOMAIN mem /\ p - 8 \in DOMAIN mem
      /\ mem[p - 16] = b.size /\ mem[p - 8] = b.pages
      /\ BlockPages(b) \subseteq DOMAIN pt
      /\ b.page + b.pages \notin DOMAIN pt
  BY DEF BlockInv
<1>3. p <= top * PageSize /\ top * PageSize \in Nat
  BY <1>1, <1>2, EndsBelow, PageSizeBounds DEF TypeInv
<1>4. p - 16 < top * PageSize /\ p - 8 < top * PageSize
  BY <1>1, <1>3
<1>5. mem'[p - 16] = b.size /\ mem'[p - 8] = b.pages
  BY <1>2, <1>4, Zenon
<1>6. b.page + b.pages \notin DOMAIN pt'
  BY <1>1, <1>2 DEF TypeInv
<1>7. BlockPages(b) \subseteq DOMAIN pt'
  BY <1>2
<1>8. b.page + b.pages < top'
  BY <1>1, <1>2 DEF TypeInv
<1>9. blocks'[p] = b /\ {p - 16, p - 8} \subseteq DOMAIN mem'
  BY <1>2
<1> HIDE DEF b
<1>10. QED
  BY <1>2, <1>5, <1>6, <1>7, <1>8, <1>9, Zenon DEF BlockInv, BlockPages, PagesFor, PtrAt

\* kmalloc that runs out of frames half way.
LEMMA MallocFails ==
  ASSUME CallInv, NEW m \in Nat,
         DOMAIN pt' = DOMAIN pt \cup (top .. top + m - 1),
         pt' \in [DOMAIN pt' -> Frames], free' \subseteq Frames, FramesOnce',
         top' = top + m, failed' = failed \cup (top .. top + m - 1),
         UNCHANGED <<mem, blocks, misplaced, halted>>,
         moving' \in [old : Int, new : Int]
  PROVE  CallInv'
<1>1. TypeInv /\ top \in Nat /\ top' \in Nat /\ top <= top'
  BY DEF CallInv, TypeInv
<1>2. TypeInv'
  <2>1. DOMAIN pt' \subseteq 0 .. top' - 1
    BY <1>1 DEF TypeInv
  <2>2. QED
    BY <1>1, <2>1 DEF TypeInv
<1>3. ASSUME NEW p \in DOMAIN blocks PROVE BlockInv(p)'
  <2>1. BlockInv(p)
    BY DEF CallInv
  <2>2. QED
    BY <1>1, <2>1, BlockKept
<1>4. StrayPagesExplained'
  <2>1. LivePages' = LivePages
    BY DEF LivePages, BlockPages
  <2>2. DOMAIN pt \ LivePages \subseteq failed \cup misplaced
    BY DEF CallInv, StrayPagesExplained
  <2>3. QED
    BY <2>1, <2>2 DEF StrayPagesExplained
<1>5. QED
  BY <1>2, <1>3, <1>4 DEF CallInv

\* kmalloc that succeeds: the new block lies above all others.
LEMMA MallocSucceeds ==
  ASSUME CallInv, NEW n \in Nat, NEW k \in Nat, NEW p \in Nat,
         k = PagesFor(n), p = PtrAt(top, n),
         DOMAIN pt' = DOMAIN pt \cup (top .. top + k - 1),
         pt' \in [DOMAIN pt' -> Frames], free' \subseteq Frames, FramesOnce',
         top' = TopAfter(k), mem' = Header(p, n, k),
         blocks' = Put(blocks, p, [page |-> top, pages |-> k, size |-> n]),
         UNCHANGED <<failed, misplaced, halted>>,
         moving' \in [old : Int, new : Int]
  PROVE  CallInv' /\ DOMAIN blocks' = DOMAIN blocks \cup {p}
<1> DEFINE new == [page |-> top, pages |-> k, size |-> n]
<1>1. TypeInv /\ top \in Nat /\ top' = top + k + 1 /\ top' \in Nat /\ top <= top'
  BY DEF CallInv, TypeInv, TopAfter
<1>2. top * PageSize \in Nat /\ top * PageSize <= p - 16
  BY <1>1, Placement, PageSizeBounds
<1>3. ASSUME NEW q \in DOMAIN blocks
      PROVE  /\ BlockInv(q) /\ q # p
             /\ blocks[q].page \in Nat /\ blocks[q].pages \in Nat
             /\ blocks[q].page + blocks[q].pages < top
  <2>1. BlockInv(q) /\ blocks[q].page \in Nat /\ blocks[q].pages \in Nat
        /\ blocks[q].size \in Nat /\ q \in Nat
    BY <1>1 DEF CallInv, TypeInv
  <2>2. /\ blocks[q].pages = PagesFor(blocks[q].size)
        /\ q = PtrAt(blocks[q].page, blocks[q].size)
        /\ blocks[q].page + blocks[q].pages < top
    BY <2>1, Zenon DEF BlockInv
  <2>3. q <= top * PageSize
    BY <1>1, <2>1, <2>2, EndsBelow
  <2>4. QED
    BY <1>2, <2>1, <2>2, <2>3
<1>4. /\ DOMAIN blocks' = DOMAIN blocks \cup {p}
      /\ blocks'[p] = new
      /\ \A q \in DOMAIN blocks : blocks'[q] = blocks[q]
      /\ blocks' = [q \in DOMAIN blocks' |-> blocks'[q]]
  BY <1>3 DEF Put
<1>5. /\ DOMAIN mem' = DOMAIN mem \cup {p - 16, p - 8}
      /\ mem'[p - 16] = n /\ mem'[p - 8] = k
      /\ \A a \in DOMAIN mem : a \notin {p - 16, p - 8} => mem'[a] = mem[a]
      /\ mem' = [a \in DOMAIN mem' |-> mem'[a]]
  BY DEF Header, Put
<1>6. TypeInv'
  <2>1. DOMAIN pt' \subseteq 0 .. top' - 1
    BY <1>1 DEF TypeInv
  <2>2. new \in [page : Nat, pages : Nat, size : Nat]
    BY <1>1
  <2>3. \A q \in DOMAIN blocks' : blocks'[q] \in [page : Nat, pages : Nat, size : Nat]
    <3>1. \A q \in DOMAIN blocks : blocks[q] \in [page : Nat, pages : Nat, size : Nat]
      BY <1>1, Zenon DEF TypeInv
    <3> HIDE DEF new
    <3>2. QED
      BY <1>4, <2>2, <3>1, Zenon
  <2>4. blocks' \in [DOMAIN blocks' -> [page : Nat, pages : Nat, size : Nat]]
    BY <1>4, <2>3, Zenon
  <2>5. DOMAIN blocks' \subseteq Nat
    BY <1>1, <1>4 DEF TypeInv
  <2>6. QED
    BY <1>1, <1>5, <2>1, <2>4, <2>5, Zenon DEF TypeInv
<1>7. BlockInv(p)'
  <2>1. top .. top + k - 1 \subseteq DOMAIN pt'
    BY Zenon
  <2>2. top + k \notin DOMAIN pt'
    BY <1>1 DEF TypeInv
  <2>3. top + k < top'
    BY <1>1
  <2>4. new.page = top /\ new.pages = k /\ new.size = n
    BY Zenon
  <2> HIDE DEF new
  <2>5. BlockPages(new) \subseteq DOMAIN pt'
    BY <2>1, <2>4, Zenon DEF BlockPages
  <2>6. /\ blocks'[p].page = top /\ blocks'[p].pages = k /\ blocks'[p].size = n
        /\ BlockPages(blocks'[p]) \subseteq DOMAIN pt'
    BY <1>4, <2>4, <2>5, Zenon
  <2>7. QED
    BY <1>5, <2>2, <2>3, <2>6, Zenon DEF BlockInv, BlockPages, PagesFor, PtrAt
<1>8. ASSUME NEW q \in DOMAIN blocks PROVE BlockInv(q)'
  <2>1. ASSUME NEW a \in DOMAIN mem, a < top * PageSize PROVE mem'[a] = mem[a]
    <3>1. a # p - 16 /\ a # p - 8
      BY <1>2, <2>1
    <3>2. QED
      BY <1>5, <3>1, Zenon
  <2>2. BlockInv(q) /\ blocks'[q] = blocks[q] /\ DOMAIN mem \subseteq DOMAIN mem'
    BY <1>3, <1>4, <1>5, Zenon
  <2>3. QED
    BY <1>1, <2>1, <2>2, BlockKept
<1>9. ASSUME NEW q \in DOMAIN blocks', NEW s \in DOMAIN blocks', q # s
      PROVE  Below(blocks'[q], blocks'[s]) \/ Below(blocks'[s], blocks'[q])
  <2>1. ASSUME NEW x \in DOMAIN blocks PROVE Below(blocks'[x], blocks'[p])
    BY <1>3, <1>4, <2>1 DEF Below
  <2>2. CASE q \in DOMAIN blocks /\ s \in DOMAIN blocks
    BY <1>4, <1>9, <2>2, Zenon DEF CallInv
  <2>3. CASE q = p \/ s = p
    BY <1>4, <1>9, <2>1, <2>3, Zenon
  <2>4. QED
    BY <1>4, <2>2, <2>3, Zenon
<1>10. StrayPagesExplained'
  <2>1. DOMAIN pt \ LivePages \subseteq failed \cup misplaced
    BY DEF CallInv, StrayPagesExplained
  <2>2. ASSUME NEW v \in LivePages PROVE v \in LivePages'
    <3>1. PICK q \in DOMAIN blocks : v \in BlockPages(blocks[q])
      BY Zenon DEF LivePages
    <3>2. q \in DOMAIN blocks' /\ v \in BlockPages(blocks'[q])
      BY <1>4, <3>1, Zenon
    <3>3. QED
      BY <3>2, Zenon DEF LivePages, BlockPages
  <2>3. new.page = top /\ new.pages = k
    BY Zenon
  <2> HIDE DEF new
  <2>4. BlockPages(blocks'[p]) = top .. top + k - 1
    BY <1>4, <2>3, Zenon DEF BlockPages
  <2>5. ASSUME NEW v \in top .. top + k - 1 PROVE v \in LivePages'
    <3>1. p \in DOMAIN blocks' /\ v \in BlockPages(blocks'[p])
      BY <1>4, <2>4, Zenon
    <3>2. QED
      BY <3>1, Zenon DEF LivePages, BlockPages
  <2>6. QED
    BY <2>1, <2>2, <2>5, Zenon DEF StrayPagesExplained
<1>11. \A q \in DOMAIN blocks' : BlockInv(q)'
  BY <1>4, <1>7, <1>8, Zenon
<1>12. (halted # "kfree")'
  BY DEF CallInv
<1>13. QED
  BY <1>4, <1>6, <1>9, <1>10, <1>11, <1>12, Zenon DEF CallInv

LEMMA MallocStep ==
  ASSUME CallInv, NEW b \in Sizes, NEW r, Malloc(b, r),
         UNCHANGED <<misplaced, halted>>, moving' \in [old : Int, new : Int]
  PROVE  CallInv' /\ DOMAIN blocks \subseteq DOMAIN blocks'
<1> DEFINE n == Round8(b)
           k == PagesFor(n)
           p == PtrAt(top, n)
<1>1. n \in Nat
  BY Rounded, SizesAssumption
<1>2. TypeInv /\ FramesOnce /\ top \in Nat
  BY DEF CallInv, TypeInv
<1>3. k \in Nat /\ p \in Nat
  BY <1>1, <1>2, PagesForBounds, Placement, Zenon
<1>a. PICK m \in 0 .. k : \E f \in [0 .. m - 1 -> free] :
       /\ \A i, j \in 0 .. m - 1 : f[i] = f[j] => i = j
       /\ MapAtTop(f, m)
       /\ \/ /\ m < k /\ free = {f[i] : i \in 0 .. m - 1}
             /\ r = NoPtr
             /\ top' = top + m
             /\ failed' = failed \cup (top .. top + m - 1)
             /\ UNCHANGED <<mem, blocks>>
          \/ /\ m = k
             /\ r = p
             /\ top' = TopAfter(k)
             /\ mem' = Header(p, n, k)
             /\ blocks' = Put(blocks, p,
                              [page |-> top, pages |-> k, size |-> n])
             /\ UNCHANGED failed
  BY Zenon DEF Malloc
<1>4. PICK f \in [0 .. m - 1 -> free] :
       /\ \A i, j \in 0 .. m - 1 : f[i] = f[j] => i = j
       /\ MapAtTop(f, m)
       /\ \/ /\ m < k /\ free = {f[i] : i \in 0 .. m - 1}
             /\ r = NoPtr
             /\ top' = top + m
             /\ failed' = failed \cup (top .. top + m - 1)
             /\ UNCHANGED <<mem, blocks>>
          \/ /\ m = k
             /\ r = p
             /\ top' = TopAfter(k)
             /\ mem' = Header(p, n, k)
             /\ blocks' = Put(blocks, p,
                              [page |-> top, pages |-> k, size |-> n])
             /\ UNCHANGED failed
  BY <1>a, Zenon
<1> HIDE DEF n, k, p
<1>5. m \in Nat
  BY <1>3
<1>6. /\ DOMAIN pt' = DOMAIN pt \cup (top .. top + m - 1)
      /\ pt' \in [DOMAIN pt' -> Frames]
      /\ free' \subseteq Frames
      /\ FramesOnce'
  BY <1>2, <1>4, <1>5, MapFrames, Zenon
<1>7. CASE /\ top' = top + m
           /\ failed' = failed \cup (top .. top + m - 1)
           /\ UNCHANGED <<mem, blocks>>
  <2>1. CallInv'
    BY <1>5, <1>6, <1>7, MallocFails
  <2>2. QED
    BY <1>7, <2>1
<1>8. CASE /\ m = k
           /\ top' = TopAfter(k)
           /\ mem' = Header(p, n, k)
           /\ blocks' = Put(blocks, p,
                            [page |-> top, pages |-> k, size |-> n])
           /\ UNCHANGED failed
  <2>1. k = PagesFor(n) /\ p = PtrAt(top, n)
    BY DEF k, p
  <2>2. DOMAIN pt' = DOMAIN pt \cup (top .. top + k - 1)
    BY <1>6, <1>8
  <2>3. CallInv' /\ DOMAIN blocks' = DOMAIN blocks \cup {p}
    BY <1>1, <1>3, <1>6, <1>8, <2>1, <2>2, MallocSucceeds,
       Zenon
  <2>4. QED
    BY <2>3, Zenon
<1>9. QED
  BY <1>4, <1>7, <1>8, Zenon

\* kfree's loop over the block's own pages, or over all but the first and the
\* page behind the block.
LEMMA UnmapFrames ==
  ASSUME TypeInv, FramesOnce, NEW start \in Nat, NEW k \in Nat, Unmap(start, k)
  PROVE  /\ DOMAIN pt' = DOMAIN pt \ (start .. start + k - 1)
         /\ pt' \in [DOMAIN pt' -> Frames]
         /\ free' \subseteq Frames
         /\ FramesOnce'
<1> DEFINE gone == start .. start + k - 1
<1>1. /\ DOMAIN pt' = DOMAIN pt \ gone
      /\ \A v \in DOMAIN pt \ gone : pt'[v] = pt[v]
      /\ pt' = [v \in DOMAIN pt' |-> pt'[v]]
  BY Zenon DEF Unmap, Restrict
<1>2. free' = free \cup {pt[v] : v \in DOMAIN pt \cap gone}
  BY Zenon DEF Unmap
<1> HIDE DEF gone
<1>3. \A v \in DOMAIN pt : pt[v] \in Frames
  BY Zenon DEF TypeInv
<1>4. pt' \in [DOMAIN pt' -> Frames]
  <2>1. \A v \in DOMAIN pt' : pt'[v] \in Frames
    BY <1>1, <1>3, Zenon
  <2>2. QED
    BY <1>1, <2>1, Zenon
<1>5. free' \subseteq Frames
  BY <1>2, <1>3, Zenon DEF TypeInv
<1>6. \A v, w \in DOMAIN pt : pt[v] = pt[w] => v = w
  BY Zenon DEF FramesOnce
<1>7. \A v, w \in DOMAIN pt' : pt'[v] = pt'[w] => v = w
  BY <1>1, <1>6, Zenon
<1>8. ASSUME NEW v \in DOMAIN pt' PROVE pt'[v] \notin free'
  <2>1. v \in DOMAIN pt /\ v \notin gone /\ pt'[v] = pt[v] /\ pt[v] \notin free
    BY <1>1, Zenon DEF FramesOnce
  <2>2. \A w \in DOMAIN pt \cap gone : pt[w] # pt[v]
    BY <1>6, <2>1, Zenon
  <2>3. QED
    BY <1>2, <2>1, <2>2, Zenon
<1>9. ASSUME NEW x \in Frames, x \notin free' PROVE \E v \in DOMAIN pt' : pt'[v] = x
  <2>1. PICK v \in DOMAIN pt : pt[v] = x
    BY <1>2, <1>9, Zenon DEF FramesOnce
  <2>2. v \notin gone
    BY <1>2, <1>9, <2>1, Zenon
  <2>3. QED
    BY <1>1, <2>1, <2>2, Zenon
<1>10. FramesOnce'
  <2>1. {pt'[v] : v \in DOMAIN pt'} \cap free' = {}
    BY <1>8, Zenon
  <2>2. {pt'[v] : v \in DOMAIN pt'} \subseteq Frames
    BY <1>4, Zenon
  <2>3. {pt'[v] : v \in DOMAIN pt'} \cup free' = Frames
    BY <1>5, <1>9, <2>2, Zenon
  <2>4. QED
    BY <1>7, <2>1, <2>3, Zenon DEF FramesOnce
<1>11. QED
  BY <1>1, <1>4, <1>5, <1>10, Zenon DEF gone

\* A page of block p or behind it is no page of another block.
LEMMA Apart ==
  ASSUME CallInv, NEW p \in DOMAIN blocks, NEW q \in DOMAIN blocks, p # q,
         NEW v \in blocks[p].page .. blocks[p].page + blocks[p].pages
  PROVE  v \notin BlockPages(blocks[q])
<1>1. Below(blocks[p], blocks[q]) \/ Below(blocks[q], blocks[p])
  BY Zenon DEF CallInv
<1>2. /\ blocks[p].page \in Nat /\ blocks[p].pages \in Nat
      /\ blocks[q].page \in Nat /\ blocks[q].pages \in Nat
  BY DEF CallInv, TypeInv
<1>3. QED
  BY <1>1, <1>2 DEF Below, BlockPages

\* kfree of a block that was handed out: the header is as kmalloc wrote it.
LEMMA ReleaseStep ==
  ASSUME CallInv, NEW p \in DOMAIN blocks, Release(p),
         UNCHANGED <<top, mem, failed>>, moving' \in [old : Int, new : Int]
  PROVE  CallInv' /\ DOMAIN blocks' = DOMAIN blocks \ {p} /\ halted' = halted
<1> DEFINE b == blocks[p]
           k == b.pages
           s == StartPage(p)
<1>1. /\ TypeInv /\ FramesOnce /\ BlockInv(p) /\ p \in Nat
      /\ b.page \in Nat /\ k \in Nat /\ b.size \in Nat
  BY DEF CallInv, TypeInv
<1>2. /\ k = PagesFor(b.size) /\ p = PtrAt(b.page, b.size)
      /\ mem[p - 16] = b.size /\ mem[p - 8] = k
      /\ BlockPages(b) \subseteq DOMAIN pt /\ b.page + k \notin DOMAIN pt
  BY <1>1, Zenon DEF BlockInv
<1>3. s \in {b.page, b.page + 1}
  BY <1>1, <1>2, Placement
<1>4. /\ Unmap(s, k)
      /\ blocks' = Restrict(blocks, DOMAIN blocks \ {p})
      /\ misplaced' = misplaced \cup ({b.page} \ {s})
      /\ UNCHANGED halted
  BY <1>2, Zenon DEF Release
<1>5. s \in Nat
  BY <1>1, <1>3
<1> HIDE DEF s
<1>6. /\ DOMAIN pt' = DOMAIN pt \ (s .. s + k - 1)
      /\ pt' \in [DOMAIN pt' -> Frames]
      /\ free' \subseteq Frames
      /\ FramesOnce'
  BY <1>1, <1>4, <1>5, UnmapFrames, Zenon
<1>7. /\ DOMAIN blocks' = DOMAIN blocks \ {p}
      /\ \A q \in DOMAIN blocks' : blocks'[q] = blocks[q]
      /\ blocks' = [q \in DOMAIN blocks' |-> blocks'[q]]
  BY <1>4, Zenon DEF Restrict
<1>8. TypeInv'
  <2>1. \A q \in DOMAIN blocks' : blocks'[q] \in [page : Nat, pages : Nat, size : Nat]
    BY <1>1, <1>7, Zenon DEF TypeInv
  <2>2. blocks' \in [DOMAIN blocks' -> [page : Nat, pages : Nat, size : Nat]]
    BY <1>7, <2>1, Zenon
  <2>3. QED
    BY <1>1, <1>6, <1>7, <2>2, Zenon DEF TypeInv
<1>9. s .. s + k - 1 \subseteq b.page .. b.page + k
  BY <1>1, <1>3
<1>10. ASSUME NEW q \in DOMAIN blocks' PROVE BlockInv(q)'
  <2>1. q \in DOMAIN blocks /\ q # p /\ blocks'[q] = blocks[q] /\ BlockInv(q)
    BY <1>7, Zenon DEF CallInv
  <2>2. ASSUME NEW v \in BlockPages(blocks[q]) PROVE v \in DOMAIN pt'
    <3>1. v \notin b.page .. b.page + k
      BY <2>1, Apart, Zenon
    <3>2. v \in DOMAIN pt
      BY <2>1, Zenon DEF BlockInv
    <3>3. QED
      BY <1>6, <1>9, <3>1, <3>2, Zenon
  <2>3. blocks[q].page + blocks[q].pages \notin DOMAIN pt'
    BY <1>6, <2>1, Zenon DEF BlockInv
  <2>4. QED
    BY <2>1, <2>2, <2>3, Zenon DEF BlockInv, BlockPages, PagesFor, PtrAt
<1>11. \A q, r \in DOMAIN blocks' :
         q # r => Below(blocks'[q], blocks'[r]) \/ Below(blocks'[r], blocks'[q])
  BY <1>7, Zenon DEF CallInv
<1>12. ASSUME NEW v \in DOMAIN pt', v \notin LivePages'
       PROVE  v \in failed' \cup misplaced'
  <2>1. v \in DOMAIN pt /\ v \notin s .. s + k - 1
    BY <1>6, Zenon
  <2>2. CASE v \notin LivePages
    BY <1>4, <2>1, <2>2, Zenon DEF CallInv, StrayPagesExplained
  <2>3. CASE v \in LivePages
    <3>1. PICK q \in DOMAIN blocks : v \in BlockPages(blocks[q])
      BY <2>3, Zenon DEF LivePages
    <3>2. q = p
      <4>1. SUFFICES ASSUME q # p PROVE FALSE
        OBVIOUS
      <4>2. q \in DOMAIN blocks' /\ v \in BlockPages(blocks'[q])
        BY <1>7, <3>1, <4>1, Zenon
      <4>3. QED
        BY <1>12, <4>2, Zenon DEF LivePages, BlockPages
    <3>3. v \in b.page .. b.page + k - 1
      BY <3>1, <3>2, Zenon DEF BlockPages
    <3>4. v = b.page /\ b.page # s
      BY <1>1, <1>3, <2>1, <3>3
    <3>5. QED
      BY <1>4, <3>4, Zenon
  <2>4. QED
    BY <2>2, <2>3
<1>13. StrayPagesExplained'
  BY <1>12, Zenon DEF StrayPagesExplained
<1>14. (halted # "kfree")'
  BY <1>4, Zenon DEF CallInv
<1>15. QED
  BY <1>4, <1>6, <1>7, <1>8, <1>10, <1>11, <1>13, <1>14, Zenon DEF CallInv

-----------------------------------------------------------------------------

LEMMA InitHeapInv == Init => HeapInv
<1> SUFFICES ASSUME Init PROVE HeapInv
  OBVIOUS
<1>1. DOMAIN pt = {} /\ DOMAIN mem = {} /\ DOMAIN blocks = {}
  BY DEF Init
<1>2. TypeInv
  BY <1>1 DEF Init, TypeInv, Idle, NoPtr
<1>3. FramesOnce /\ StrayPagesExplained
  BY <1>1 DEF FramesOnce, StrayPagesExplained, Init
<1>4. QED
  BY <1>1, <1>2, <1>3, Zenon DEF HeapInv, CallInv, Init, Idle

LEMMA NextHeapInv == HeapInv /\ [Next]_vars => HeapInv'
<1> SUFFICES ASSUME HeapInv, [Next]_vars PROVE HeapInv'
  OBVIOUS
<1>1. CallInv /\ TypeInv /\ (moving # Idle => moving.old \in DOMAIN blocks)
  BY DEF HeapInv, CallInv
<1>2. moving \in [old : Int, new : Int] /\ Idle \in [old : Int, new : Int]
  BY <1>1 DEF TypeInv, Idle, NoPtr
<1>3. ASSUME NEW b \in Sizes, Kmalloc(b) PROVE HeapInv'
  <2>1. PICK r : Malloc(b, r)
    BY <1>3, Zenon DEF Kmalloc
  <2>2. UNCHANGED <<misplaced, moving, halted>>
    BY <1>3, Zenon DEF Kmalloc
  <2>3. CallInv' /\ DOMAIN blocks \subseteq DOMAIN blocks'
    BY <1>1, <1>2, <2>1, <2>2, MallocStep, Zenon
  <2>4. QED
    BY <1>1, <2>2, <2>3, Zenon DEF HeapInv, Idle
<1>4. ASSUME NEW p \in DOMAIN blocks, Kfree(p) PROVE HeapInv'
  <2>1. /\ Release(p) /\ p # moving.old
        /\ UNCHANGED <<top, mem, failed, moving>>
    BY <1>4, Zenon DEF Kfree
  <2>2. CallInv' /\ DOMAIN blocks' = DOMAIN blocks \ {p}
    BY <1>1, <1>2, <2>1, ReleaseStep, Zenon
  <2>3. QED
    BY <1>1, <2>1, <2>2, Zenon DEF HeapInv, Idle
<1>5. ASSUME NEW p \in DOMAIN blocks, NEW b \in Sizes, Krealloc(p, b)
      PROVE  HeapInv'
  <2>1. PICK r \in {NoPtr, PtrAt(top, Round8(b))} :
          Malloc(b, r) /\ moving' = [old |-> p, new |-> r]
    BY <1>5, Zenon DEF Krealloc
  <2>2. UNCHANGED <<misplaced, halted>>
    BY <1>5, Zenon DEF Krealloc
  <2>3. top \in Nat /\ Round8(b) \in Nat /\ p \in Int
    BY <1>1, Rounded, SizesAssumption DEF TypeInv
  <2>4. r \in Int
    <3>1. PtrAt(top, Round8(b)) \in Nat
      BY <2>3, Placement, Zenon
    <3>2. QED
      BY <3>1 DEF NoPtr
  <2>5. moving' \in [old : Int, new : Int] /\ moving'.old = p
    BY <2>1, <2>3, <2>4
  <2>6. CallInv' /\ DOMAIN blocks \subseteq DOMAIN blocks'
    BY <1>1, <2>1, <2>2, <2>5, MallocStep, Zenon
  <2>7. QED
    BY <2>5, <2>6, Zenon DEF HeapInv
<1>6. ASSUME KreallocMove PROVE HeapInv'
  <2>1. moving # Idle /\ moving' = Idle /\ UNCHANGED <<top, mem, failed>>
    BY <1>6, Zenon DEF KreallocMove
  <2>2. moving.old \in DOMAIN blocks
    BY <1>1, <2>1, Zenon
  <2>3. CASE Release(moving.old)
    <3>1. CallInv'
      BY <1>1, <1>2, <2>1, <2>2, <2>3, ReleaseStep, Zenon
    <3>2. QED
      BY <2>1, <3>1, Zenon DEF HeapInv, Idle
  <2>4. CASE halted' = "memcpy" /\ UNCHANGED <<pt, free, blocks, misplaced>>
    <3>1. TypeInv' /\ FramesOnce' /\ StrayPagesExplained'
      BY <1>1, <1>2, <2>1, <2>4
         DEF TypeInv, CallInv, FramesOnce, StrayPagesExplained, LivePages, BlockPages
    <3>2. \A p \in DOMAIN blocks' : BlockInv(p)'
      BY <1>1, <2>1, <2>4 DEF CallInv, BlockInv, BlockPages, PagesFor, PtrAt
    <3>3. CallInv'
      BY <1>1, <2>4, <3>1, <3>2 DEF CallInv
    <3>4. QED
      BY <2>1, <3>3, Zenon DEF HeapInv, Idle
  <2>5. QED
    BY <1>6, <2>3, <2>4, Zenon DEF KreallocMove
<1>7. CASE UNCHANGED vars
  <2>1. TypeInv' /\ FramesOnce' /\ StrayPagesExplained'
    BY <1>1, <1>7
       DEF TypeInv, CallInv, FramesOnce, StrayPagesExplained, LivePages, BlockPages, vars
  <2>2. \A p \in DOMAIN blocks' : BlockInv(p)'
    BY <1>1, <1>7 DEF CallInv, BlockInv, BlockPages, PagesFor, PtrAt, vars
  <2>3. QED
    BY <1>1, <1>7, <2>1, <2>2 DEF HeapInv, CallInv, Idle, vars
<1>8. QED
  BY <1>3, <1>4, <1>5, <1>6, <1>7, Zenon DEF Next

\* What the invariant says of blocks, guard pages, frames and stray pages.
LEMMA InvImplies ==
  HeapInv => BlocksOwnPages /\ GuardAbove /\ FramesOnce /\ StrayPagesExplained
<1> SUFFICES ASSUME HeapInv PROVE BlocksOwnPages /\ GuardAbove /\ FramesOnce /\ StrayPagesExplained
  OBVIOUS
<1>1. CallInv
  BY DEF HeapInv
<1>2. ASSUME NEW p \in DOMAIN blocks
      PROVE  /\ BlockPages(blocks[p]) \subseteq DOMAIN pt
             /\ blocks[p].page * PageSize <= p - 16
             /\ p + blocks[p].size = (blocks[p].page + blocks[p].pages) * PageSize
  <2>1. BlockInv(p) /\ blocks[p].page \in Nat /\ blocks[p].size \in Nat
    BY <1>1 DEF CallInv, TypeInv
  <2>2. QED
    BY <2>1, Placement, Zenon DEF BlockInv
<1>3. ASSUME NEW p \in DOMAIN blocks, NEW q \in DOMAIN blocks, p # q
      PROVE  BlockPages(blocks[p]) \cap BlockPages(blocks[q]) = {}
  <2>1. blocks[p].page \in Nat /\ blocks[p].pages \in Nat
    BY <1>1 DEF CallInv, TypeInv
  <2>2. BlockPages(blocks[p]) \subseteq
          blocks[p].page .. blocks[p].page + blocks[p].pages
    BY <2>1 DEF BlockPages
  <2>3. QED
    BY <1>1, <1>3, <2>2, Apart, Zenon
<1>4. halted # "kfree"
  BY <1>1 DEF CallInv
<1>5. BlocksOwnPages
  BY <1>2, <1>3, <1>4, Zenon DEF BlocksOwnPages
<1>6. GuardAbove
  BY <1>1, Zenon DEF CallInv, BlockInv, GuardAbove
<1>7. FramesOnce /\ StrayPagesExplained
  BY <1>1, Zenon DEF CallInv
<1>8. QED
  BY <1>5, <1>6, <1>7

\* HeapInv holds in every state of the heap.
THEOREM SpecHeapInv == Spec => []HeapInv
  BY InitHeapInv, NextHeapInv, PTL DEF Spec

\* The headers and contents of blocks stay in pages of their own, and kfree's
\* assert(req_pages == pages) holds.
THEOREM SpecBlocksOwnPages == Spec => []BlocksOwnPages
  BY InvImplies, SpecHeapInv, PTL

\* The page behind a block is not mapped as long as the block lives.
THEOREM SpecGuardAbove == Spec => []GuardAbove
  BY InvImplies, SpecHeapInv, PTL

\* No frame is mapped twice, mapped and free, or lost.
THEOREM SpecFramesOnce == Spec => []FramesOnce
  BY InvImplies, SpecHeapInv, PTL

\* Pages that stay mapped without a block are left by one of the two causes.
THEOREM SpecStrayPagesExplained == Spec => []StrayPagesExplained
  BY InvImplies, SpecHeapInv, PTL

=============================================================================
