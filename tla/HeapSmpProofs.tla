--------------------------- MODULE HeapSmpProofs ----------------------------
(***************************************************************************)
(* That kmalloc and kfree on several CPUs implement the calls of Heap, for *)
(* every set of CPUs, of frames and of sizes.                              *)
(*                                                                         *)
(* Until an overlap in the lock, one CPU at most is inside a call, and     *)
(* done is the state it found.  The invariant says how far its call has    *)
(* come from there; at the unlock, that is a whole call.                   *)
(***************************************************************************)
EXTENDS HeapSmp, TLAPS

Mallocing == {"mallocLoad", "mallocStore", "readTop", "frame", "bump", "size", "pages"}
Freeing == {"freeLoad", "freeStore", "check", "unmap"}
Inside == {"readTop", "frame", "bump", "size", "pages", "check", "unmap",
           "unlock", "halted"}
Positions == {"out", "unlock", "halted"} \cup Mallocing \cup Freeing

\* What the proofs need of the types of a heap S.
Typed(S) ==
  /\ S.top \in Int
  /\ S.pt = [v \in DOMAIN S.pt |-> S.pt[v]]
  /\ \A q \in DOMAIN S.blocks :
       q \in Int /\ q - 16 \in DOMAIN S.mem /\ S.mem[q - 16] \in Int

TypeInv ==
  /\ pc \in [Cpus -> Positions]
  /\ DOMAIN n = Cpus /\ DOMAIN ptr = Cpus
  /\ out \in [Cpus -> Int] /\ k \in [Cpus -> Int]
  /\ Typed(done) /\ Typed(Current)

\* The lock lets one CPU in; one that halts keeps it.
LockInv ==
  /\ \A c, d \in Cpus :
       pc[c] \in Inside \cup Window /\ pc[d] \in Inside \cup Window => c = d
  /\ \A c \in Cpus : pc[c] \in Inside => locked
  /\ panicked # {} => \E c \in Cpus : pc[c] = "halted"

\* Blocks that are being freed are there, and each has one CPU that frees it.
PtrInv ==
  /\ \A c \in Cpus : pc[c] \in {"out"} \cup Mallocing => ptr[c] = NoPtr
  /\ \A c \in Cpus : pc[c] \in Freeing => ptr[c] # NoPtr /\ ptr[c] \in DOMAIN blocks
  /\ \A c, d \in Cpus : ptr[c] = ptr[d] => c = d \/ ptr[c] = NoPtr

-----------------------------------------------------------------------------
\* How far a call has come that found the heap D and has made it S.  Its
\* locals are sz, o, i (n, out and k) and q (ptr).

\* m pages have been mapped from the old top on, to the frames f.
GrownBy(f, m, D, S) ==
  /\ \A x, y \in 0 .. m - 1 : f[x] = f[y] => x = y
  /\ S.pt = [v \in DOMAIN D.pt \cup (D.top .. D.top + m - 1) |->
               IF v \in D.top .. D.top + m - 1 THEN f[v - D.top] ELSE D.pt[v]]
  /\ S.free = D.free \ {f[x] : x \in 0 .. m - 1}
Grown(m, D, S) == \E f \in [0 .. m - 1 -> D.free] : GrownBy(f, m, D, S)

\* The pages from first on, up to before next, have been unmapped.
Shrunk(first, next, D, S) ==
  /\ S.pt = Restrict(D.pt, DOMAIN D.pt \ (first .. next - 1))
  /\ S.free = D.free \cup {D.pt[v] : v \in DOMAIN D.pt \cap (first .. next - 1)}

Rounded(sz) == \E b \in Sizes : sz = H!Round8(b)

\* A call of kmalloc that has mapped m pages.
Request(sz, o, i, m, D, S) ==
  /\ Rounded(sz) /\ o = D.top /\ D.top + H!PagesFor(sz) + 1 <= MaxTop
  /\ i \in 0 .. H!PagesFor(sz)
  /\ Grown(m, D, S)
  /\ S.misplaced = D.misplaced

MallocInv(p, sz, o, i, D, S) ==
  /\ p \in {"mallocLoad", "mallocStore", "readTop"} => Rounded(sz)
  /\ p = "readTop" => S = D
  /\ p = "frame" =>
       /\ Request(sz, o, i, i, D, S) /\ S.top = D.top + i
       /\ S.mem = D.mem /\ S.blocks = D.blocks /\ S.failed = D.failed
  /\ p = "bump" =>
       /\ Request(sz, o, i, i + 1, D, S) /\ S.top = D.top + i
       /\ i < H!PagesFor(sz)
       /\ S.mem = D.mem /\ S.blocks = D.blocks /\ S.failed = D.failed
  /\ p \in {"size", "pages"} =>
       /\ Request(sz, o, i, i, D, S) /\ S.top = D.top + i + 1
       /\ i = H!PagesFor(sz)
       /\ S.blocks = D.blocks /\ S.failed = D.failed
       /\ S.mem = IF p = "size" THEN D.mem
                                ELSE H!Put(D.mem, H!PtrAt(o, sz) - 16, sz)

FreeInv(p, o, i, q, D, S) ==
  /\ p = "check" => S = D
  /\ p = "unmap" =>
       LET pages == H!PagesFor(D.mem[q - 16]) IN
       /\ D.mem[q - 8] = pages
       /\ o = H!StartPage(q) + pages - i /\ i <= pages
       /\ Shrunk(H!StartPage(q), o, D, S)
       /\ S.top = D.top /\ S.mem = D.mem /\ S.blocks = D.blocks
       /\ S.failed = D.failed /\ S.misplaced = D.misplaced

\* What the call leaves behind for the next one.
MallocFailed(sz, o, i, D, S) ==
  /\ Request(sz, o, i, i, D, S) /\ S.top = D.top + i
  /\ i < H!PagesFor(sz) /\ S.free = {}
  /\ S.mem = D.mem /\ S.blocks = D.blocks
  /\ S.failed = D.failed \cup (D.top .. D.top + i - 1)

MallocDone(sz, o, i, D, S) ==
  /\ Request(sz, o, i, i, D, S) /\ S.top = D.top + i + 1
  /\ i = H!PagesFor(sz)
  /\ S.mem = H!Put(H!Put(D.mem, H!PtrAt(o, sz) - 16, sz), H!PtrAt(o, sz) - 8, i)
  /\ S.blocks = H!Put(D.blocks, H!PtrAt(o, sz),
                      [page |-> o, pages |-> i, size |-> sz])
  /\ S.failed = D.failed

FreeDoneBy(q, D, S) ==
  LET pages == H!PagesFor(D.mem[q - 16]) IN
  /\ q # NoPtr /\ q \in DOMAIN D.blocks /\ D.mem[q - 8] = pages
  /\ Shrunk(H!StartPage(q), H!StartPage(q) + pages, D, S)
  /\ S.blocks = Restrict(D.blocks, DOMAIN D.blocks \ {q})
  /\ S.misplaced = D.misplaced \cup ({D.blocks[q].page} \ {H!StartPage(q)})
  /\ S.top = D.top /\ S.mem = D.mem /\ S.failed = D.failed

CallInv(p, sz, o, i, q, D, S) ==
  /\ MallocInv(p, sz, o, i, D, S)
  /\ FreeInv(p, o, i, q, D, S)
  /\ p = "unlock" => \/ MallocFailed(sz, o, i, D, S)
                     \/ MallocDone(sz, o, i, D, S)
                     \/ FreeDoneBy(q, D, S)

Good ==
  /\ TypeInv /\ LockInv /\ PtrInv
  /\ (\A c \in Cpus : pc[c] \notin Inside) => Current = done
  /\ \A c \in Cpus : CallInv(pc[c], n[c], out[c], k[c], ptr[c], done, Current)

\* The inductive invariant.
SmpHeapInv == ~raced => Good

-----------------------------------------------------------------------------
\* The fields of Current.
LEMMA Fields ==
  /\ Current.top = top /\ Current.pt = pt /\ Current.mem = mem /\ Current.free = free
  /\ Current.blocks = blocks /\ Current.failed = failed /\ Current.misplaced = misplaced
BY DEF Current

LEMMA FieldsNext ==
  /\ Current'.top = top' /\ Current'.pt = pt' /\ Current'.mem = mem'
  /\ Current'.free = free' /\ Current'.blocks = blocks'
  /\ Current'.failed = failed' /\ Current'.misplaced = misplaced'
BY DEF Current

LEMMA Numbers ==
  ASSUME NEW sz \in Int, NEW o \in Int
  PROVE  H!PagesFor(sz) \in Int /\ H!PtrAt(o, sz) \in Int /\ H!StartPage(sz) \in Int
<1>1. PageSize \in Int /\ PageSize > 0
  BY PageSizeAssumption
<1>2. H!PagesFor(sz) \in Int /\ H!StartPage(sz) \in Int
  BY <1>1 DEF H!PagesFor, H!StartPage
<1>3. QED
  BY <1>1, <1>2 DEF H!PtrAt

LEMMA SizeNumber ==
  ASSUME NEW sz, Rounded(sz)
  PROVE  sz \in Int
<1>1. PICK b \in Sizes : sz = H!Round8(b)
  BY Zenon DEF Rounded
<1>2. QED
  BY <1>1, SizesAssumption DEF H!Round8

\* A CPU outside the lock has no part in the heap's state.
LEMMA OutsideInv ==
  ASSUME NEW p \in Positions, p \notin Inside, NEW sz, NEW o, NEW i, NEW q,
         NEW D, NEW S
  PROVE  CallInv(p, sz, o, i, q, D, S) <=>
         (p \in {"mallocLoad", "mallocStore"} => Rounded(sz))
<1>1. p \notin {"readTop", "frame", "bump", "size", "pages", "check", "unmap", "unlock"}
  BY DEF Inside
<1>2. QED
  BY <1>1, Zenon DEF CallInv, MallocInv, FreeInv

\* A step of the CPU that is inside, to p, which stays inside.
LEMMA InsideStep ==
  ASSUME Good, NEW c \in Cpus, pc[c] \in Inside, pc[c] # "halted",
         NEW p \in Inside, pc' = [pc EXCEPT ![c] = p],
         UNCHANGED <<locked, done, ptr, n>>,
         panicked' = panicked \/ p = "halted",
         out' \in [Cpus -> Int], k' \in [Cpus -> Int],
         \A d \in Cpus \ {c} : out'[d] = out[d] /\ k'[d] = k[d],
         Typed(Current'),
         \A q \in DOMAIN blocks : q # ptr[c] => q \in DOMAIN blocks',
         p \in Mallocing => ptr[c] = NoPtr,
         p \in Freeing => ptr[c] # NoPtr /\ ptr[c] \in DOMAIN blocks',
         CallInv(p, n[c], out'[c], k'[c], ptr[c], done, Current')
  PROVE  Good'
<1>1. TypeInv /\ LockInv /\ PtrInv
  BY Zenon DEF Good
<1>2. pc \in [Cpus -> Positions] /\ p \in Positions
  BY <1>1 DEF TypeInv, Inside, Positions, Mallocing, Freeing
<1>3. \A d \in Cpus : pc'[d] = IF d = c THEN p ELSE pc[d]
  BY <1>2, Zenon
<1>4. \A d \in Cpus \ {c} : pc'[d] = pc[d] /\ pc[d] \notin Inside \cup Window
  BY <1>1, <1>3, Zenon DEF LockInv
<1>5. TypeInv'
  BY <1>1, <1>2, Zenon DEF TypeInv
<1>6. LockInv'
  <2>1. panicked = {}
    BY <1>1, <1>4, Zenon DEF LockInv, Inside
  <2>2. panicked' # {} => pc'[c] = "halted"
    BY <1>3, <2>1, Zenon
  <2>3. locked
    BY <1>1, Zenon DEF LockInv
  <2>4. \A d \in Cpus : pc'[d] \in Inside \cup Window => d = c
    BY <1>4, Zenon
  <2>5. QED
    BY <2>2, <2>3, <2>4, Zenon DEF LockInv
<1>7. PtrInv'
  <2>1. \A d \in Cpus : pc'[d] \in {"out"} \cup Mallocing => ptr[d] = NoPtr
    <3>1. p # "out"
      BY DEF Inside
    <3>2. QED
      BY <1>1, <1>3, <3>1, Zenon DEF PtrInv
  <2>2. ASSUME NEW d \in Cpus, pc'[d] \in Freeing
        PROVE  ptr[d] # NoPtr /\ ptr[d] \in DOMAIN blocks'
    <3>1. CASE d = c
      BY <1>3, <2>2, <3>1, Zenon
    <3>2. CASE d # c
      <4>1. ptr[d] # NoPtr /\ ptr[d] \in DOMAIN blocks
        BY <1>1, <1>4, <2>2, <3>2, Zenon DEF PtrInv
      <4>2. ptr[d] # ptr[c]
        BY <1>1, <3>2, <4>1, Zenon DEF PtrInv
      <4>3. QED
        BY <4>1, <4>2, Zenon
    <3>3. QED
      BY <3>1, <3>2
  <2>3. QED
    BY <1>1, <2>1, <2>2, Zenon DEF PtrInv
<1>8. ~\A d \in Cpus : pc'[d] \notin Inside
  BY <1>3, Zenon
<1>9. ASSUME NEW d \in Cpus
      PROVE  CallInv(pc'[d], n'[d], out'[d], k'[d], ptr'[d], done', Current')
  <2>1. CASE d = c
    BY <1>3, <2>1, Zenon
  <2>2. CASE d # c
    <3>1. pc'[d] = pc[d] /\ pc[d] \notin Inside /\ pc[d] \in Positions
      BY <1>2, <1>4, <2>2, Zenon
    <3>2. CallInv(pc[d], n[d], out[d], k[d], ptr[d], done, Current)
      BY Zenon DEF Good
    <3>3. pc[d] \in {"mallocLoad", "mallocStore"} => Rounded(n[d])
      BY <3>1, <3>2, OutsideInv, Zenon
    <3>4. CallInv(pc[d], n[d], out'[d], k'[d], ptr[d], done, Current')
      BY <3>1, <3>3, OutsideInv, Zenon
    <3>5. QED
      BY <3>1, <3>4, Zenon
  <2>3. QED
    BY <2>1, <2>2
<1>10. QED
  BY <1>5, <1>6, <1>7, <1>8, <1>9, Zenon DEF Good

\* A step of a CPU that is not inside, to p; the heap does not change.
LEMMA OutsideStep ==
  ASSUME Good, NEW c \in Cpus, pc[c] \notin Inside,
         NEW p \in Positions, pc' = [pc EXCEPT ![c] = p],
         UNCHANGED <<heapVars, done, panicked, out, k>>,
         LockInv', PtrInv', DOMAIN n' = Cpus, DOMAIN ptr' = Cpus,
         \A d \in Cpus \ {c} : n'[d] = n[d] /\ ptr'[d] = ptr[d],
         p \in Inside => Current = done,
         CallInv(p, n'[c], out[c], k[c], ptr'[c], done, Current)
  PROVE  Good'
<1>1. TypeInv /\ Current' = Current
  BY Zenon DEF Good, Current, heapVars
<1>2. pc' \in [Cpus -> Positions] /\ \A d \in Cpus : pc'[d] = IF d = c THEN p ELSE pc[d]
  BY <1>1, Zenon DEF TypeInv
<1>3. TypeInv'
  BY <1>1, <1>2, Zenon DEF TypeInv
<1>4. (\A d \in Cpus : pc'[d] \notin Inside) => Current' = done'
  BY <1>1, <1>2, Zenon DEF Good
<1>5. ASSUME NEW d \in Cpus
      PROVE  CallInv(pc'[d], n'[d], out'[d], k'[d], ptr'[d], done', Current')
  <2>1. CASE d = c
    BY <1>1, <1>2, <2>1, Zenon
  <2>2. CASE d # c
    <3>1. CallInv(pc[d], n[d], out[d], k[d], ptr[d], done, Current)
      BY Zenon DEF Good
    <3>2. pc'[d] = pc[d] /\ n'[d] = n[d] /\ ptr'[d] = ptr[d]
      BY <1>2, <2>2, Zenon
    <3>3. QED
      BY <1>1, <3>1, <3>2, Zenon
  <2>3. QED
    BY <2>1, <2>2
<1>6. QED
  BY <1>3, <1>4, <1>5, Zenon DEF Good

-----------------------------------------------------------------------------
\* Calls and the lock

LEMMA InitGood ==
  ASSUME Init
  PROVE  Good
<1>1. Current = done
  BY Zenon DEF Init
<1>2. Typed(Current)
  <2>1. pt = [v \in DOMAIN pt |-> pt[v]] /\ DOMAIN blocks = {} /\ top \in Int
    BY DEF Init
  <2>2. QED
    BY <2>1, Fields, Zenon DEF Typed
<1>3. TypeInv
  BY <1>1, <1>2 DEF Init, TypeInv, Positions
<1>4. \A c \in Cpus : pc[c] = "out" /\ ptr[c] = NoPtr /\ pc[c] \notin Inside \cup Window
  BY DEF Init, Inside, Window
<1>5. LockInv
  BY <1>4, Zenon DEF Init, LockInv
<1>6. PtrInv
  <2>1. "out" \notin Freeing
    BY DEF Freeing
  <2>2. QED
    BY <1>4, <2>1, Zenon DEF PtrInv
<1>7. ASSUME NEW c \in Cpus
      PROVE  CallInv(pc[c], n[c], out[c], k[c], ptr[c], done, Current)
  <2>1. pc[c] \in Positions /\ pc[c] \notin Inside /\ pc[c] \notin {"mallocLoad", "mallocStore"}
    BY <1>4, Zenon DEF Positions
  <2>2. QED
    BY <2>1, OutsideInv, Zenon
<1>8. QED
  BY <1>1, <1>3, <1>5, <1>6, <1>7, Zenon DEF Good

LEMMA CallKmallocGood ==
  ASSUME Good, NEW c \in Cpus, NEW b \in Sizes, CallKmalloc(c, b)
  PROVE  Good'
<1>1. /\ pc[c] = "out" /\ pc' = [pc EXCEPT ![c] = "mallocLoad"]
      /\ n' = [n EXCEPT ![c] = H!Round8(b)]
      /\ UNCHANGED <<out, k, ptr, locked, heapVars, panicked, done>>
  BY Zenon DEF CallKmalloc, Step
<1>2. TypeInv /\ LockInv /\ PtrInv
  BY Zenon DEF Good
<1>3. \A d \in Cpus : pc'[d] = IF d = c THEN "mallocLoad" ELSE pc[d]
  BY <1>1, <1>2, Zenon DEF TypeInv
<1>4. /\ "mallocLoad" \notin Inside \cup Window /\ "out" \notin Inside \cup Window
      /\ "mallocLoad" \in Positions /\ "mallocLoad" \notin Freeing
      /\ "mallocLoad" # "halted"
  BY DEF Inside, Window, Positions, Mallocing, Freeing
<1>5. LockInv'
  BY <1>1, <1>2, <1>3, <1>4, Zenon DEF LockInv
<1>6. PtrInv'
  <2>1. DOMAIN blocks' = DOMAIN blocks /\ ptr' = ptr
    BY <1>1, Zenon DEF heapVars
  <2>2. QED
    BY <1>1, <1>2, <1>3, <1>4, <2>1, Zenon DEF PtrInv
<1>7. DOMAIN n' = Cpus /\ n'[c] = H!Round8(b) /\ \A d \in Cpus \ {c} : n'[d] = n[d]
  BY <1>1, <1>2 DEF TypeInv
<1>8. CallInv("mallocLoad", n'[c], out[c], k[c], ptr'[c], done, Current)
  BY <1>4, <1>7, OutsideInv, Zenon DEF Rounded
<1>9. QED
  <2>1. DOMAIN ptr' = Cpus /\ \A d \in Cpus : ptr'[d] = ptr[d]
    BY <1>1, <1>2, Zenon DEF TypeInv
  <2>2. QED
    BY <1>1, <1>4, <1>5, <1>6, <1>7, <1>8, <2>1, OutsideStep, Zenon

LEMMA CallKfreeGood ==
  ASSUME Good, NEW c \in Cpus, NEW q \in DOMAIN blocks, CallKfree(c, q)
  PROVE  Good'
<1>1. /\ pc[c] = "out" /\ pc' = [pc EXCEPT ![c] = "freeLoad"]
      /\ \A d \in Cpus : ptr[d] # q
      /\ ptr' = [ptr EXCEPT ![c] = q]
      /\ UNCHANGED <<n, out, k, locked, heapVars, panicked, done>>
  BY Zenon DEF CallKfree, Step
<1>2. TypeInv /\ LockInv /\ PtrInv
  BY Zenon DEF Good
<1>3. \A d \in Cpus : pc'[d] = IF d = c THEN "freeLoad" ELSE pc[d]
  BY <1>1, <1>2, Zenon DEF TypeInv
<1>4. /\ "freeLoad" \notin Inside \cup Window /\ "out" \notin Inside \cup Window
      /\ "freeLoad" \in Positions /\ "freeLoad" \notin {"out"} \cup Mallocing
      /\ "freeLoad" # "halted"
  BY DEF Inside, Window, Positions, Mallocing, Freeing
<1>5. LockInv'
  BY <1>1, <1>2, <1>3, <1>4, Zenon DEF LockInv
<1>6. DOMAIN ptr' = Cpus /\ \A d \in Cpus : ptr'[d] = IF d = c THEN q ELSE ptr[d]
  BY <1>1, <1>2 DEF TypeInv
<1>7. PtrInv'
  <2>1. DOMAIN blocks' = DOMAIN blocks /\ q # NoPtr
    <3>1. ptr[c] = NoPtr
      BY <1>1, <1>2, Zenon DEF PtrInv
    <3>2. QED
      BY <1>1, <3>1, Zenon DEF heapVars
  <2>2. \A d \in Cpus : pc'[d] \in {"out"} \cup Mallocing => ptr'[d] = NoPtr
    BY <1>2, <1>3, <1>4, <1>6, Zenon DEF PtrInv
  <2>3. \A d \in Cpus : pc'[d] \in Freeing => ptr'[d] # NoPtr /\ ptr'[d] \in DOMAIN blocks'
    BY <1>2, <1>3, <1>6, <2>1, Zenon DEF PtrInv
  <2>4. \A d, e \in Cpus : ptr'[d] = ptr'[e] => d = e \/ ptr'[d] = NoPtr
    <3>1. \A d, e \in Cpus : ptr[d] = ptr[e] => d = e \/ ptr[d] = NoPtr
      BY <1>2, Zenon DEF PtrInv
    <3>2. QED
      BY <1>1, <1>6, <3>1
  <2>5. QED
    BY <2>2, <2>3, <2>4, Zenon DEF PtrInv
<1>8. CallInv("freeLoad", n'[c], out[c], k[c], ptr'[c], done, Current)
  BY <1>4, OutsideInv, Zenon
<1>9. QED
  <2>1. DOMAIN n' = Cpus /\ \A d \in Cpus \ {c} : n'[d] = n[d] /\ ptr'[d] = ptr[d]
    BY <1>1, <1>2, <1>6, Zenon DEF TypeInv
  <2>2. QED
    BY <1>1, <1>4, <1>5, <1>6, <1>7, <1>8, <2>1, OutsideStep, Zenon

\* The load sees the flag clear, so that nobody is inside; and without an
\* overlap nobody is between the load and the store either.
LEMMA LoadGood ==
  ASSUME Good, NEW c \in Cpus, ~raced',
         Load(c, "mallocLoad", "mallocStore") \/ Load(c, "freeLoad", "freeStore")
  PROVE  Good'
<1>1. ASSUME NEW p, NEW r, Load(c, p, r),
             \/ p = "mallocLoad" /\ r = "mallocStore"
             \/ p = "freeLoad" /\ r = "freeStore"
      PROVE  Good'
  <2>1. /\ pc[c] = p /\ pc' = [pc EXCEPT ![c] = r] /\ ~locked
        /\ \A d \in Cpus \ {c} : pc[d] \notin Window
        /\ UNCHANGED <<n, out, k, ptr, locked, heapVars, panicked, done>>
    BY <1>1, Zenon DEF Load, Step, Locals
  <2>2. TypeInv /\ LockInv /\ PtrInv
    BY Zenon DEF Good
  <2>3. \A d \in Cpus : pc'[d] = IF d = c THEN r ELSE pc[d]
    BY <2>1, <2>2, Zenon DEF TypeInv
  <2>4. /\ p \notin Inside /\ r \notin Inside /\ r \in Positions /\ r # "halted"
        /\ r \in Mallocing <=> p \in Mallocing
        /\ r \in Freeing <=> p \in Freeing
        /\ r # "out"
    BY <1>1 DEF Inside, Positions, Mallocing, Freeing
  <2>5. LockInv'
    <3>1. \A d \in Cpus : pc[d] \notin Inside
      BY <2>1, <2>2, Zenon DEF LockInv
    <3>2. \A d \in Cpus : pc'[d] \notin Inside /\ (pc'[d] \in Window => d = c)
      BY <2>1, <2>3, <2>4, <3>1, Zenon
    <3>3. panicked' = {}
      BY <2>1, <2>2, <3>1, Zenon DEF LockInv, Inside
    <3>4. QED
      BY <3>2, <3>3, Zenon DEF LockInv
  <2>6. PtrInv'
    <3>1. DOMAIN blocks' = DOMAIN blocks /\ ptr' = ptr
      BY <2>1, Zenon DEF heapVars
    <3>2. QED
      BY <2>1, <2>2, <2>3, <2>4, <3>1, Zenon DEF PtrInv
  <2>7. CallInv(r, n'[c], out[c], k[c], ptr'[c], done, Current)
    <3>1. CallInv(p, n[c], out[c], k[c], ptr[c], done, Current)
      BY <2>1, Zenon DEF Good
    <3>2. p \in {"mallocLoad", "mallocStore"} <=> r \in {"mallocLoad", "mallocStore"}
      BY <1>1
    <3>3. p \in Positions
      BY <1>1 DEF Positions, Mallocing, Freeing
    <3>4. QED
      BY <2>1, <2>4, <3>1, <3>2, <3>3, OutsideInv, Zenon
  <2>8. DOMAIN n' = Cpus /\ DOMAIN ptr' = Cpus /\ \A d \in Cpus : n'[d] = n[d] /\ ptr'[d] = ptr[d]
    BY <2>1, <2>2, Zenon DEF TypeInv
  <2>9. QED
    BY <2>1, <2>4, <2>5, <2>6, <2>7, <2>8, OutsideStep, Zenon
<1>2. QED
  BY <1>1, Zenon

\* The CPU that stores finds what the last call has left.
LEMMA StoreGood ==
  ASSUME Good, NEW c \in Cpus,
         Store(c, "mallocStore", "readTop") \/ Store(c, "freeStore", "check")
  PROVE  Good'
<1>1. ASSUME NEW p, NEW r, Store(c, p, r),
             \/ p = "mallocStore" /\ r = "readTop"
             \/ p = "freeStore" /\ r = "check"
      PROVE  Good'
  <2>1. /\ pc[c] = p /\ pc' = [pc EXCEPT ![c] = r] /\ locked'
        /\ UNCHANGED <<n, out, k, ptr, heapVars, panicked, done>>
    BY <1>1, Zenon DEF Store, Step, Locals
  <2>2. TypeInv /\ LockInv /\ PtrInv
    BY Zenon DEF Good
  <2>3. \A d \in Cpus : pc'[d] = IF d = c THEN r ELSE pc[d]
    BY <2>1, <2>2, Zenon DEF TypeInv
  <2>4. /\ p \notin Inside /\ p \in Window /\ r \in Inside /\ r \in Positions
        /\ p \in Positions /\ r # "halted"
        /\ r \in Mallocing <=> p \in Mallocing
        /\ r \in Freeing <=> p \in Freeing
        /\ r # "out"
    BY <1>1 DEF Inside, Positions, Mallocing, Freeing, Window
  <2>5. \A d \in Cpus \ {c} : pc[d] \notin Inside \cup Window
    BY <2>1, <2>2, <2>4, Zenon DEF LockInv
  <2>6. Current = done
    BY <2>1, <2>4, <2>5, Zenon DEF Good
  <2>7. LockInv'
    <3>1. \A d \in Cpus : pc'[d] \in Inside \cup Window => d = c
      BY <2>3, <2>5, Zenon
    <3>2. panicked' = {}
      BY <2>1, <2>2, <2>4, <2>5, Zenon DEF LockInv, Inside
    <3>3. QED
      BY <2>1, <3>1, <3>2, Zenon DEF LockInv
  <2>8. PtrInv'
    <3>1. DOMAIN blocks' = DOMAIN blocks /\ ptr' = ptr
      BY <2>1, Zenon DEF heapVars
    <3>2. QED
      BY <2>1, <2>2, <2>3, <2>4, <3>1, Zenon DEF PtrInv
  <2>9. CallInv(r, n'[c], out[c], k[c], ptr'[c], done, Current)
    <3>1. p = "mallocStore" => Rounded(n[c])
      BY <2>1, Zenon DEF Good, CallInv, MallocInv
    <3>2. QED
      BY <1>1, <2>1, <2>6, <3>1, Zenon DEF CallInv, MallocInv, FreeInv
  <2>10. DOMAIN n' = Cpus /\ DOMAIN ptr' = Cpus /\ \A d \in Cpus : n'[d] = n[d] /\ ptr'[d] = ptr[d]
    BY <2>1, <2>2, Zenon DEF TypeInv
  <2>11. QED
    BY <2>1, <2>4, <2>6, <2>7, <2>8, <2>9, <2>10, OutsideStep, Zenon
<1>2. QED
  BY <1>1, Zenon

\* The next call finds what this one leaves.
LEMMA UnlockGood ==
  ASSUME Good, NEW c \in Cpus, Unlock(c)
  PROVE  Good'
<1>1. /\ pc[c] = "unlock" /\ pc' = [pc EXCEPT ![c] = "out"] /\ ~locked'
      /\ n' = [n EXCEPT ![c] = 0] /\ out' = [out EXCEPT ![c] = 0]
      /\ k' = [k EXCEPT ![c] = 0] /\ ptr' = [ptr EXCEPT ![c] = NoPtr]
      /\ done' = Current /\ UNCHANGED <<heapVars, panicked>>
  BY Zenon DEF Unlock, Step
<1>2. TypeInv /\ LockInv /\ PtrInv
  BY Zenon DEF Good
<1>3. \A d \in Cpus : pc'[d] = IF d = c THEN "out" ELSE pc[d]
  BY <1>1, <1>2, Zenon DEF TypeInv
<1>4. "out" \notin Inside \cup Window /\ "unlock" \in Inside /\ "out" \in Positions
  BY DEF Inside, Window, Positions
<1>5. \A d \in Cpus \ {c} : pc[d] \notin Inside \cup Window
  BY <1>1, <1>2, <1>4, Zenon DEF LockInv
<1>6. Current' = Current /\ Current' = done'
  BY <1>1, Zenon DEF Current, heapVars
<1>7. TypeInv'
  <2>1. pc' \in [Cpus -> Positions] /\ DOMAIN n' = Cpus /\ DOMAIN ptr' = Cpus
    BY <1>1, <1>2, <1>4 DEF TypeInv
  <2>2. out' \in [Cpus -> Int] /\ k' \in [Cpus -> Int]
    BY <1>1, <1>2 DEF TypeInv
  <2>3. QED
    BY <1>2, <1>6, <2>1, <2>2, Zenon DEF TypeInv
<1>8. LockInv'
  <2>1. \A d \in Cpus : pc'[d] \notin Inside \cup Window
    BY <1>3, <1>4, <1>5, Zenon
  <2>2. panicked' = {}
    BY <1>1, <1>2, <1>5, Zenon DEF LockInv, Inside
  <2>3. QED
    BY <2>1, <2>2, Zenon DEF LockInv
<1>9. PtrInv'
  <2>1. DOMAIN blocks' = DOMAIN blocks
    BY <1>1, Zenon DEF heapVars
  <2>2. \A d \in Cpus : ptr'[d] = IF d = c THEN NoPtr ELSE ptr[d]
    BY <1>1, <1>2 DEF TypeInv
  <2>3. "out" \notin Freeing
    BY DEF Freeing
  <2>4. QED
    BY <1>2, <1>3, <2>1, <2>2, <2>3, Zenon DEF PtrInv
<1>10. ASSUME NEW d \in Cpus
       PROVE  CallInv(pc'[d], n'[d], out'[d], k'[d], ptr'[d], done', Current')
  <2>1. pc'[d] \in Positions /\ pc'[d] \notin Inside
    BY <1>3, <1>4, <1>5, <1>7, Zenon DEF TypeInv
  <2>2. pc'[d] \in {"mallocLoad", "mallocStore"} => Rounded(n'[d])
    <3>1. CASE d = c
      BY <1>3, <3>1, Zenon
    <3>2. CASE d # c
      <4>1. pc'[d] = pc[d] /\ n'[d] = n[d] /\ pc[d] \notin Inside /\ pc[d] \in Positions
        BY <1>1, <1>2, <1>3, <1>5, <3>2 DEF TypeInv
      <4>2. CallInv(pc[d], n[d], out[d], k[d], ptr[d], done, Current)
        BY Zenon DEF Good
      <4>3. QED
        BY <4>1, <4>2, OutsideInv, Zenon
    <3>3. QED
      BY <3>1, <3>2
  <2>3. QED
    BY <2>1, <2>2, OutsideInv, Zenon
<1>11. QED
  BY <1>6, <1>7, <1>8, <1>9, <1>10, Zenon DEF Good

-----------------------------------------------------------------------------
\* Mapping and unmapping one page after the other

LEMMA GrownNot ==
  ASSUME NEW D, Typed(D)
  PROVE  Grown(0, D, D)
<1>1. D.top \in Int /\ D.pt = [v \in DOMAIN D.pt |-> D.pt[v]]
  BY Zenon DEF Typed
<1>2. 0 .. 0 - 1 = {} /\ D.top .. D.top + 0 - 1 = {}
  BY <1>1
<1>3. PICK f : f = [x \in 0 .. 0 - 1 |-> 0]
  OBVIOUS
<1>4. f \in [0 .. 0 - 1 -> D.free]
  BY <1>2, <1>3
<1>5. D.pt = [v \in DOMAIN D.pt \cup (D.top .. D.top + 0 - 1) |->
                IF v \in D.top .. D.top + 0 - 1 THEN f[v - D.top] ELSE D.pt[v]]
  <2>1. DOMAIN D.pt \cup (D.top .. D.top + 0 - 1) = DOMAIN D.pt
    BY <1>2
  <2>2. \A v \in DOMAIN D.pt : v \notin D.top .. D.top + 0 - 1
    BY <1>2
  <2>3. QED
    BY <1>1, <2>1, <2>2, Zenon
<1>6. D.free = D.free \ {f[x] : x \in 0 .. 0 - 1}
  BY <1>2
<1>7. GrownBy(f, 0, D, D)
  BY <1>2, <1>5, <1>6 DEF GrownBy
<1>8. QED
  BY <1>4, <1>7, Zenon DEF Grown

LEMMA GrownMore ==
  ASSUME NEW m \in Nat, NEW D, NEW S, NEW T, D.top \in Int, Grown(m, D, S),
         NEW g \in S.free,
         T.pt = H!Put(S.pt, D.top + m, g), T.free = S.free \ {g}
  PROVE  Grown(m + 1, D, T)
<1>1. PICK f \in [0 .. m - 1 -> D.free] : GrownBy(f, m, D, S)
  BY Zenon DEF Grown
<1>3. /\ \A x, y \in 0 .. m - 1 : f[x] = f[y] => x = y
      /\ S.pt = [v \in DOMAIN D.pt \cup (D.top .. D.top + m - 1) |->
                   IF v \in D.top .. D.top + m - 1 THEN f[v - D.top] ELSE D.pt[v]]
      /\ S.free = D.free \ {f[x] : x \in 0 .. m - 1}
  BY <1>1, Zenon DEF GrownBy
<1>2. PICK h : h = [x \in 0 .. (m + 1) - 1 |-> IF x = m THEN g ELSE f[x]]
  BY Zenon
<1>4. \A x \in 0 .. (m + 1) - 1 : x = m \/ x \in 0 .. m - 1
  OBVIOUS
<1>5. m \in 0 .. (m + 1) - 1 /\ m \notin 0 .. m - 1 /\ 0 .. m - 1 \subseteq 0 .. (m + 1) - 1
  OBVIOUS
<1>6. h[m] = g /\ \A x \in 0 .. m - 1 : h[x] = f[x]
  BY <1>2, <1>5, Zenon
<1>7. g \in D.free /\ \A x \in 0 .. m - 1 : f[x] # g
  BY <1>1, <1>3, Zenon
<1>8. h \in [0 .. (m + 1) - 1 -> D.free]
  <2>1. \A x \in 0 .. (m + 1) - 1 : h[x] \in D.free
    BY <1>1, <1>3, <1>4, <1>6, <1>7, Zenon
  <2>2. QED
    BY <1>2, <2>1, Zenon
<1>9. ASSUME NEW x \in 0 .. (m + 1) - 1, NEW y \in 0 .. (m + 1) - 1, h[x] = h[y]
      PROVE  x = y
  <2>1. CASE x = m /\ y = m
    BY <2>1
  <2>2. CASE x \in 0 .. m - 1 /\ y \in 0 .. m - 1
    BY <1>3, <1>6, <1>9, <2>2, Zenon
  <2>3. CASE x = m /\ y \in 0 .. m - 1
    BY <1>6, <1>7, <1>9, <2>3, Zenon
  <2>4. CASE x \in 0 .. m - 1 /\ y = m
    BY <1>6, <1>7, <1>9, <2>4, Zenon
  <2>5. QED
    BY <1>4, <2>1, <2>2, <2>3, <2>4, Zenon
<1>10. T.free = D.free \ {h[x] : x \in 0 .. (m + 1) - 1}
  <2>1. {h[x] : x \in 0 .. (m + 1) - 1} = {f[x] : x \in 0 .. m - 1} \cup {g}
    BY <1>4, <1>5, <1>6, Zenon
  <2>2. QED
    BY <1>1, <1>3, <2>1, Zenon
<1>11. T.pt = [v \in DOMAIN D.pt \cup (D.top .. D.top + (m + 1) - 1) |->
                 IF v \in D.top .. D.top + (m + 1) - 1 THEN h[v - D.top] ELSE D.pt[v]]
  <2>1. /\ \A v \in D.top .. D.top + (m + 1) - 1 : v = D.top + m \/ v \in D.top .. D.top + m - 1
        /\ D.top + m \in D.top .. D.top + (m + 1) - 1
        /\ D.top .. D.top + m - 1 \subseteq D.top .. D.top + (m + 1) - 1
        /\ D.top + m - D.top = m /\ D.top + m \notin D.top .. D.top + m - 1
        /\ \A v \in D.top .. D.top + m - 1 : v - D.top \in 0 .. m - 1
    OBVIOUS
  <2>2. DOMAIN S.pt = DOMAIN D.pt \cup (D.top .. D.top + m - 1)
    BY <1>1, <1>3, Zenon
  <2>3. DOMAIN S.pt \cup {D.top + m} = DOMAIN D.pt \cup (D.top .. D.top + (m + 1) - 1)
    BY <2>1, <2>2, Zenon
  <2>4. ASSUME NEW v \in DOMAIN D.pt \cup (D.top .. D.top + (m + 1) - 1)
        PROVE  (IF v = D.top + m THEN g ELSE S.pt[v])
               = IF v \in D.top .. D.top + (m + 1) - 1 THEN h[v - D.top] ELSE D.pt[v]
    <3>1. CASE v = D.top + m
      <4>1. v - D.top = m
        BY <3>1
      <4>2. QED
        BY <1>6, <2>1, <3>1, <4>1, Zenon
    <3>2. CASE v # D.top + m /\ v \in D.top .. D.top + (m + 1) - 1
      <4>1. v \in D.top .. D.top + m - 1 /\ v \in DOMAIN S.pt
        BY <2>1, <2>2, <3>2, Zenon
      <4>2. S.pt[v] = f[v - D.top]
        BY <1>1, <1>3, <2>2, <4>1, Zenon
      <4>3. QED
        BY <1>6, <2>1, <3>2, <4>1, <4>2, Zenon
    <3>3. CASE v \notin D.top .. D.top + (m + 1) - 1
      <4>1. v \notin D.top .. D.top + m - 1 /\ v \in DOMAIN S.pt /\ v # D.top + m
        BY <2>1, <2>2, <3>3, Zenon
      <4>2. S.pt[v] = D.pt[v]
        BY <1>1, <1>3, <2>2, <4>1, Zenon
      <4>3. QED
        BY <3>3, <4>1, <4>2, Zenon
    <3>4. QED
      BY <3>1, <3>2, <3>3, Zenon
  <2>5. QED
    BY <2>3, <2>4, Zenon DEF H!Put
<1>12. GrownBy(h, m + 1, D, T)
  BY <1>9, <1>10, <1>11, Zenon DEF GrownBy
<1>13. QED
  BY <1>8, <1>12, Zenon DEF Grown

LEMMA GrownSame ==
  ASSUME NEW m, NEW D, NEW S, NEW T, Grown(m, D, S), T.pt = S.pt, T.free = S.free
  PROVE  Grown(m, D, T)
BY Zenon DEF Grown, GrownBy

LEMMA ShrunkNot ==
  ASSUME NEW D, Typed(D), NEW first \in Int
  PROVE  Shrunk(first, first, D, D)
<1>1. first .. first - 1 = {}
  OBVIOUS
<1>2. D.pt = [v \in DOMAIN D.pt |-> D.pt[v]]
  BY Zenon DEF Typed
<1>3. DOMAIN D.pt \ {} = DOMAIN D.pt
  BY Zenon
<1>4. D.pt = Restrict(D.pt, DOMAIN D.pt \ (first .. first - 1))
  BY <1>1, <1>2, <1>3, Zenon DEF Restrict
<1>5. {D.pt[v] : v \in DOMAIN D.pt \cap {}} = {}
  BY Zenon
<1>6. D.free = D.free \cup {D.pt[v] : v \in DOMAIN D.pt \cap (first .. first - 1)}
  BY <1>1, <1>5, Zenon
<1>7. QED
  BY <1>4, <1>6, Zenon DEF Shrunk

LEMMA ShrunkMore ==
  ASSUME NEW first \in Int, NEW next \in Int, first <= next, NEW D, NEW S, NEW T,
         Shrunk(first, next, D, S),
         T.pt = Restrict(S.pt, DOMAIN S.pt \ {next}),
         T.free = S.free \cup (IF next \in DOMAIN S.pt THEN {S.pt[next]} ELSE {})
  PROVE  Shrunk(first, next + 1, D, T)
<1>1. /\ S.pt = [v \in DOMAIN D.pt \ (first .. next - 1) |-> D.pt[v]]
      /\ S.free = D.free \cup {D.pt[v] : v \in DOMAIN D.pt \cap (first .. next - 1)}
  BY Zenon DEF Shrunk, Restrict
<1>2. /\ \A v \in first .. (next + 1) - 1 : v = next \/ v \in first .. next - 1
      /\ next \in first .. (next + 1) - 1 /\ next \notin first .. next - 1
      /\ first .. next - 1 \subseteq first .. (next + 1) - 1
  OBVIOUS
<1>3. DOMAIN S.pt = DOMAIN D.pt \ (first .. next - 1)
  BY <1>1, Zenon
<1>4. DOMAIN S.pt \ {next} = DOMAIN D.pt \ (first .. (next + 1) - 1)
  BY <1>2, <1>3, Zenon
<1>5. T.pt = Restrict(D.pt, DOMAIN D.pt \ (first .. (next + 1) - 1))
  <2>1. \A v \in DOMAIN S.pt \ {next} : S.pt[v] = D.pt[v]
    BY <1>1, <1>3, Zenon
  <2>2. QED
    BY <1>4, <2>1, Zenon DEF Restrict
<1>6. T.free = D.free \cup {D.pt[v] : v \in DOMAIN D.pt \cap (first .. (next + 1) - 1)}
  <2>1. next \in DOMAIN S.pt <=> next \in DOMAIN D.pt
    BY <1>2, <1>3, Zenon
  <2>2. next \in DOMAIN S.pt => S.pt[next] = D.pt[next]
    BY <1>1, <1>3, Zenon
  <2>3. {D.pt[v] : v \in DOMAIN D.pt \cap (first .. (next + 1) - 1)}
        = {D.pt[v] : v \in DOMAIN D.pt \cap (first .. next - 1)}
          \cup (IF next \in DOMAIN D.pt THEN {D.pt[next]} ELSE {})
    BY <1>2, Zenon
  <2>4. QED
    BY <1>1, <2>1, <2>2, <2>3, Zenon
<1>7. QED
  BY <1>5, <1>6, Zenon DEF Shrunk

\* The header alone needs a page.
LEMMA PagesPositive ==
  ASSUME NEW sz, Rounded(sz)
  PROVE  H!PagesFor(sz) \in Nat
<1>1. PICK b \in Sizes : sz = H!Round8(b)
  BY Zenon DEF Rounded
<1>2. sz \in Nat
  BY <1>1, SizesAssumption DEF H!Round8
<1>3. QED
  BY <1>2, PageSizeAssumption DEF H!PagesFor

-----------------------------------------------------------------------------
\* The steps of a call

\* What Good says of the CPU inside.
LEMMA GoodAt ==
  ASSUME Good, NEW c \in Cpus
  PROVE  /\ pc \in [Cpus -> Positions] /\ out \in [Cpus -> Int] /\ k \in [Cpus -> Int]
         /\ Typed(done) /\ Typed(Current)
         /\ pc[c] \in Mallocing => ptr[c] = NoPtr
         /\ pc[c] \in Freeing => ptr[c] # NoPtr /\ ptr[c] \in DOMAIN blocks
         /\ CallInv(pc[c], n[c], out[c], k[c], ptr[c], done, Current)
BY Zenon DEF Good, TypeInv, PtrInv

LEMMA ReadTopGood ==
  ASSUME Good, NEW c \in Cpus, ReadTop(c)
  PROVE  Good'
<1>1. /\ pc[c] = "readTop" /\ pc' = [pc EXCEPT ![c] = "frame"]
      /\ out' = [out EXCEPT ![c] = top] /\ k' = [k EXCEPT ![c] = 0]
      /\ top + H!PagesFor(n[c]) + 1 <= MaxTop
      /\ UNCHANGED <<n, ptr, locked, heapVars, panicked, done>>
  BY Zenon DEF ReadTop, Step
<1>2. Current' = Current /\ blocks' = blocks /\ Current.top = top
  BY <1>1, Fields, Zenon DEF Current, heapVars
<1>3. Current = done /\ Rounded(n[c]) /\ Typed(Current) /\ ptr[c] = NoPtr
  <2>1. "readTop" \in Mallocing
    BY DEF Mallocing
  <2>2. QED
    BY <1>1, <2>1, GoodAt, Zenon DEF CallInv, MallocInv
<1>4. top \in Int
  BY <1>2, <1>3, Zenon DEF Typed
<1>5. /\ out' \in [Cpus -> Int] /\ k' \in [Cpus -> Int]
      /\ out'[c] = top /\ k'[c] = 0
      /\ \A d \in Cpus \ {c} : out'[d] = out[d] /\ k'[d] = k[d]
  <2>1. out \in [Cpus -> Int] /\ k \in [Cpus -> Int]
    BY GoodAt, Zenon
  <2>2. QED
    BY <1>1, <1>4, <2>1
<1>6. CallInv("frame", n[c], out'[c], k'[c], ptr[c], done, Current')
  <2>1. Grown(0, done, Current)
    BY <1>3, GrownNot, Zenon
  <2>2. n[c] \in Int /\ H!PagesFor(n[c]) \in Int
    BY <1>3, SizeNumber, Numbers, Zenon
  <2>3. 0 \in 0 .. H!PagesFor(n[c])
    BY <1>3, <2>2, PagesPositive
  <2>4. done.top = top /\ top = top + 0
    BY <1>2, <1>3, <1>4
  <2>5. Request(n[c], top, 0, 0, done, Current)
    BY <1>1, <1>3, <2>1, <2>3, <2>4, Zenon DEF Request
  <2>6. MallocInv("frame", n[c], top, 0, done, Current)
    BY <1>2, <1>3, <2>4, <2>5, Zenon DEF MallocInv
  <2>7. QED
    BY <1>2, <1>5, <2>6, Zenon DEF CallInv, FreeInv
<1>7. QED
  <2>1. "readTop" \in Inside /\ "frame" \in Inside /\ "frame" \notin Freeing
    BY DEF Inside, Freeing
  <2>2. QED
    BY <1>1, <1>2, <1>3, <1>5, <1>6, <2>1, InsideStep, Zenon

\* The state of kmalloc's loop.
LEMMA AtFrame ==
  ASSUME Good, NEW c \in Cpus, pc[c] \in {"frame", "bump", "size", "pages"}
  PROVE  /\ Rounded(n[c]) /\ out[c] = done.top /\ done.top \in Int
         /\ done.top + H!PagesFor(n[c]) + 1 <= MaxTop
         /\ n[c] \in Int /\ H!PagesFor(n[c]) \in Int /\ k[c] \in 0 .. H!PagesFor(n[c])
         /\ misplaced = done.misplaced /\ blocks = done.blocks /\ failed = done.failed
         /\ ptr[c] = NoPtr /\ pc[c] \in Inside /\ pc[c] # "halted"
         /\ Grown(IF pc[c] = "bump" THEN k[c] + 1 ELSE k[c], done, Current)
         /\ top = IF pc[c] \in {"size", "pages"} THEN done.top + k[c] + 1
                                                 ELSE done.top + k[c]
         /\ mem = IF pc[c] = "pages" THEN H!Put(done.mem, H!PtrAt(out[c], n[c]) - 16, n[c])
                                     ELSE done.mem
<1>1. pc[c] \in Mallocing /\ pc[c] \in Inside /\ pc[c] # "halted"
  BY DEF Mallocing, Inside
<1>2. MallocInv(pc[c], n[c], out[c], k[c], done, Current) /\ ptr[c] = NoPtr
      /\ done.top \in Int
  BY <1>1, GoodAt, Zenon DEF CallInv, Typed
<1>3. /\ Request(n[c], out[c], k[c], IF pc[c] = "bump" THEN k[c] + 1 ELSE k[c],
                 done, Current)
      /\ Current.top = IF pc[c] \in {"size", "pages"} THEN done.top + k[c] + 1
                                                      ELSE done.top + k[c]
      /\ Current.blocks = done.blocks /\ Current.failed = done.failed
      /\ Current.mem = IF pc[c] = "pages"
                         THEN H!Put(done.mem, H!PtrAt(out[c], n[c]) - 16, n[c])
                         ELSE done.mem
  <2>1. CASE pc[c] = "frame"
    BY <1>2, <2>1, Zenon DEF MallocInv
  <2>2. CASE pc[c] = "bump"
    BY <1>2, <2>2, Zenon DEF MallocInv
  <2>3. CASE pc[c] \in {"size", "pages"}
    BY <1>2, <2>3, Zenon DEF MallocInv
  <2>4. QED
    BY <2>1, <2>2, <2>3, Zenon
<1>4. Rounded(n[c])
  BY <1>3, Zenon DEF Request
<1>5. n[c] \in Int /\ H!PagesFor(n[c]) \in Int
  BY <1>4, SizeNumber, Numbers, Zenon
<1>6. /\ out[c] = done.top /\ done.top + H!PagesFor(n[c]) + 1 <= MaxTop
      /\ k[c] \in 0 .. H!PagesFor(n[c])
      /\ Grown(IF pc[c] = "bump" THEN k[c] + 1 ELSE k[c], done, Current)
      /\ Current.misplaced = done.misplaced
  BY <1>3, Zenon DEF Request
<1>7. QED
  BY <1>1, <1>2, <1>3, <1>4, <1>5, <1>6, Fields, Zenon

\* Another heap with the same header words and blocks is typed as well.
LEMMA TypedSame ==
  ASSUME Typed(Current), UNCHANGED <<mem, blocks>>, top' \in Int,
         pt' = [v \in DOMAIN pt' |-> pt'[v]]
  PROVE  Typed(Current')
BY Fields, FieldsNext, Zenon DEF Typed

LEMMA MapPageGood ==
  ASSUME Good, NEW c \in Cpus, MapPage(c)
  PROVE  Good'
<1>1. /\ pc[c] = "frame" /\ pc' = [pc EXCEPT ![c] = "bump"]
      /\ k[c] < H!PagesFor(n[c])
      /\ UNCHANGED <<n, out, k, ptr, locked, top, mem, blocks, failed, misplaced,
                     panicked, done>>
  BY Zenon DEF MapPage, Step, Locals
<1>2. PICK f \in free : free' = free \ {f} /\ pt' = H!Put(pt, top, f)
  BY Zenon DEF MapPage
<1>3. /\ Rounded(n[c]) /\ out[c] = done.top /\ done.top \in Int
      /\ done.top + H!PagesFor(n[c]) + 1 <= MaxTop
      /\ n[c] \in Int /\ H!PagesFor(n[c]) \in Int /\ k[c] \in 0 .. H!PagesFor(n[c])
      /\ misplaced = done.misplaced /\ blocks = done.blocks /\ failed = done.failed
      /\ ptr[c] = NoPtr /\ Grown(k[c], done, Current)
      /\ top = done.top + k[c] /\ mem = done.mem
  <2>1. "frame" \notin {"bump", "size", "pages"}
    OBVIOUS
  <2>2. QED
    BY <1>1, <2>1, AtFrame, Zenon
<1>4. Grown(k[c] + 1, done, Current')
  <2>1. k[c] \in Nat
    BY <1>3
  <2>2. QED
    BY <1>2, <1>3, <2>1, Fields, FieldsNext, GrownMore, Zenon
<1>5. Request(n[c], out[c], k[c], k[c] + 1, done, Current')
  BY <1>1, <1>3, <1>4, FieldsNext, Zenon DEF Request
<1>6. CallInv("bump", n[c], out'[c], k'[c], ptr[c], done, Current')
  BY <1>1, <1>3, <1>5, FieldsNext, Zenon DEF CallInv, MallocInv, FreeInv
<1>7. Typed(Current')
  <2>1. Typed(Current) /\ top' \in Int
    <3>1. top' = top /\ top \in Int
      BY <1>1, <1>3
    <3>2. QED
      BY <3>1, GoodAt, Zenon
  <2>2. pt' = [v \in DOMAIN pt' |-> pt'[v]]
    BY <1>2, Zenon DEF H!Put
  <2>3. QED
    BY <1>1, <2>1, <2>2, TypedSame, Zenon
<1>8. QED
  <2>1. "frame" \in Inside /\ "bump" \in Inside /\ "bump" \notin Freeing
    BY DEF Inside, Freeing
  <2>2. out \in [Cpus -> Int] /\ k \in [Cpus -> Int]
    BY GoodAt, Zenon
  <2>3. QED
    BY <1>1, <1>3, <1>6, <1>7, <2>1, <2>2, InsideStep, Zenon

LEMMA BumpTopGood ==
  ASSUME Good, NEW c \in Cpus, BumpTop(c)
  PROVE  Good'
<1>1. /\ pc[c] = "bump" /\ pc' = [pc EXCEPT ![c] = "frame"]
      /\ top' = top + 1 /\ k' = [k EXCEPT ![c] = k[c] + 1]
      /\ UNCHANGED <<n, out, ptr, locked, pt, mem, free, blocks, failed, misplaced,
                     panicked, done>>
  BY Zenon DEF BumpTop, Step
<1>2. /\ Rounded(n[c]) /\ out[c] = done.top /\ done.top \in Int
      /\ done.top + H!PagesFor(n[c]) + 1 <= MaxTop
      /\ n[c] \in Int /\ H!PagesFor(n[c]) \in Int /\ k[c] \in 0 .. H!PagesFor(n[c])
      /\ misplaced = done.misplaced /\ blocks = done.blocks /\ failed = done.failed
      /\ ptr[c] = NoPtr /\ Grown(k[c] + 1, done, Current)
      /\ top = done.top + k[c] /\ mem = done.mem
  <2>1. "bump" \notin {"size", "pages"}
    OBVIOUS
  <2>2. QED
    BY <1>1, <2>1, AtFrame, Zenon
<1>3. k[c] < H!PagesFor(n[c])
  BY <1>1, GoodAt, Zenon DEF CallInv, MallocInv
<1>4. k[c] + 1 \in 0 .. H!PagesFor(n[c]) /\ top' \in Int /\ top' = done.top + (k[c] + 1)
  BY <1>1, <1>2, <1>3
<1>5. out \in [Cpus -> Int] /\ k \in [Cpus -> Int] /\ Typed(Current)
  BY GoodAt, Zenon
<1>6. /\ k' \in [Cpus -> Int] /\ k'[c] = k[c] + 1
      /\ \A d \in Cpus \ {c} : k'[d] = k[d]
  BY <1>1, <1>5
<1>7. Grown(k[c] + 1, done, Current')
  BY <1>1, <1>2, Fields, FieldsNext, GrownSame, Zenon
<1>8. Request(n[c], out[c], k[c] + 1, k[c] + 1, done, Current')
  BY <1>1, <1>2, <1>4, <1>7, FieldsNext, Zenon DEF Request
<1>9. CallInv("frame", n[c], out'[c], k'[c], ptr[c], done, Current')
  BY <1>1, <1>2, <1>4, <1>6, <1>8, FieldsNext, Zenon DEF CallInv, MallocInv, FreeInv
<1>10. Typed(Current')
  <2>1. pt' = [v \in DOMAIN pt' |-> pt'[v]]
    BY <1>1, <1>5, Fields, Zenon DEF Typed
  <2>2. QED
    BY <1>1, <1>4, <1>5, <2>1, TypedSame, Zenon
<1>11. QED
  <2>1. "frame" \in Inside /\ "bump" \in Inside /\ "frame" \notin Freeing
    BY DEF Inside, Freeing
  <2>2. QED
    BY <1>1, <1>2, <1>5, <1>6, <1>9, <1>10, <2>1, InsideStep, Zenon

LEMMA OutOfFramesGood ==
  ASSUME Good, NEW c \in Cpus, OutOfFrames(c)
  PROVE  Good'
<1>1. /\ pc[c] = "frame" /\ pc' = [pc EXCEPT ![c] = "unlock"]
      /\ k[c] < H!PagesFor(n[c]) /\ free = {}
      /\ failed' = failed \cup (out[c] .. out[c] + k[c] - 1)
      /\ UNCHANGED <<n, out, k, ptr, locked, top, pt, mem, free, blocks, misplaced,
                     panicked, done>>
  BY Zenon DEF OutOfFrames, Step, Locals
<1>2. /\ Rounded(n[c]) /\ out[c] = done.top /\ done.top \in Int
      /\ done.top + H!PagesFor(n[c]) + 1 <= MaxTop /\ k[c] \in 0 .. H!PagesFor(n[c])
      /\ misplaced = done.misplaced /\ blocks = done.blocks /\ failed = done.failed
      /\ ptr[c] = NoPtr /\ Grown(k[c], done, Current)
      /\ top = done.top + k[c] /\ mem = done.mem
  <2>1. "frame" \notin {"bump", "size", "pages"}
    OBVIOUS
  <2>2. QED
    BY <1>1, <2>1, AtFrame, Zenon
<1>3. out \in [Cpus -> Int] /\ k \in [Cpus -> Int] /\ Typed(Current)
  BY GoodAt, Zenon
<1>4. Request(n[c], out[c], k[c], k[c], done, Current')
  <2>1. Grown(k[c], done, Current')
    BY <1>1, <1>2, Fields, FieldsNext, GrownSame, Zenon
  <2>2. QED
    BY <1>1, <1>2, <2>1, FieldsNext, Zenon DEF Request
<1>5. MallocFailed(n[c], out[c], k[c], done, Current')
  BY <1>1, <1>2, <1>4, FieldsNext, Zenon DEF MallocFailed
<1>6. CallInv("unlock", n[c], out'[c], k'[c], ptr[c], done, Current')
  BY <1>1, <1>5, Zenon DEF CallInv, MallocInv, FreeInv
<1>7. Typed(Current')
  <2>1. pt' = [v \in DOMAIN pt' |-> pt'[v]] /\ top' \in Int
    BY <1>1, <1>3, Fields, Zenon DEF Typed
  <2>2. QED
    BY <1>1, <1>3, <2>1, TypedSame, Zenon
<1>8. QED
  <2>1. "frame" \in Inside /\ "unlock" \in Inside /\ "unlock" \notin Freeing
    BY DEF Inside, Freeing
  <2>2. QED
    BY <1>1, <1>2, <1>3, <1>6, <1>7, <2>1, InsideStep, Zenon

LEMMA SkipGuardGood ==
  ASSUME Good, NEW c \in Cpus, SkipGuard(c)
  PROVE  Good'
<1>1. /\ pc[c] = "frame" /\ pc' = [pc EXCEPT ![c] = "size"]
      /\ k[c] = H!PagesFor(n[c]) /\ top' = top + 1
      /\ UNCHANGED <<n, out, k, ptr, locked, pt, mem, free, blocks, failed, misplaced,
                     panicked, done>>
  BY Zenon DEF SkipGuard, Step, Locals
<1>2. /\ Rounded(n[c]) /\ out[c] = done.top /\ done.top \in Int
      /\ done.top + H!PagesFor(n[c]) + 1 <= MaxTop /\ k[c] \in 0 .. H!PagesFor(n[c])
      /\ misplaced = done.misplaced /\ blocks = done.blocks /\ failed = done.failed
      /\ ptr[c] = NoPtr /\ Grown(k[c], done, Current)
      /\ top = done.top + k[c] /\ mem = done.mem
  <2>1. "frame" \notin {"bump", "size", "pages"}
    OBVIOUS
  <2>2. QED
    BY <1>1, <2>1, AtFrame, Zenon
<1>3. out \in [Cpus -> Int] /\ k \in [Cpus -> Int] /\ Typed(Current)
  BY GoodAt, Zenon
<1>4. top' \in Int /\ top' = done.top + k[c] + 1
  BY <1>1, <1>2, <1>3
<1>5. Request(n[c], out[c], k[c], k[c], done, Current')
  <2>1. Grown(k[c], done, Current')
    BY <1>1, <1>2, Fields, FieldsNext, GrownSame, Zenon
  <2>2. QED
    BY <1>1, <1>2, <2>1, FieldsNext, Zenon DEF Request
<1>6. CallInv("size", n[c], out'[c], k'[c], ptr[c], done, Current')
  BY <1>1, <1>2, <1>4, <1>5, FieldsNext, Zenon DEF CallInv, MallocInv, FreeInv
<1>7. Typed(Current')
  <2>1. pt' = [v \in DOMAIN pt' |-> pt'[v]]
    BY <1>1, <1>3, Fields, Zenon DEF Typed
  <2>2. QED
    BY <1>1, <1>3, <1>4, <2>1, TypedSame, Zenon
<1>8. QED
  <2>1. "frame" \in Inside /\ "size" \in Inside /\ "size" \notin Freeing
    BY DEF Inside, Freeing
  <2>2. QED
    BY <1>1, <1>2, <1>3, <1>6, <1>7, <2>1, InsideStep, Zenon

LEMMA WriteSizeGood ==
  ASSUME Good, NEW c \in Cpus, WriteSize(c)
  PROVE  Good'
<1>1. /\ pc[c] = "size" /\ pc' = [pc EXCEPT ![c] = "pages"]
      /\ mem' = H!Put(mem, H!PtrAt(out[c], n[c]) - 16, n[c])
      /\ UNCHANGED <<n, out, k, ptr, locked, top, pt, free, blocks, failed, misplaced,
                     panicked, done>>
  BY Zenon DEF WriteSize, Step, Locals
<1>2. /\ Rounded(n[c]) /\ out[c] = done.top /\ n[c] \in Int
      /\ done.top + H!PagesFor(n[c]) + 1 <= MaxTop /\ k[c] \in 0 .. H!PagesFor(n[c])
      /\ misplaced = done.misplaced /\ blocks = done.blocks /\ failed = done.failed
      /\ ptr[c] = NoPtr /\ Grown(k[c], done, Current)
      /\ top = done.top + k[c] + 1 /\ mem = done.mem
  <2>1. "size" \notin {"bump", "pages"}
    OBVIOUS
  <2>2. QED
    BY <1>1, <2>1, AtFrame, Zenon
<1>3. out \in [Cpus -> Int] /\ k \in [Cpus -> Int] /\ Typed(Current)
  BY GoodAt, Zenon
<1>4. k[c] = H!PagesFor(n[c])
  BY <1>1, GoodAt, Zenon DEF CallInv, MallocInv
<1>5. Request(n[c], out[c], k[c], k[c], done, Current')
  <2>1. Grown(k[c], done, Current')
    BY <1>1, <1>2, Fields, FieldsNext, GrownSame, Zenon
  <2>2. QED
    BY <1>1, <1>2, <2>1, FieldsNext, Zenon DEF Request
<1>6. CallInv("pages", n[c], out'[c], k'[c], ptr[c], done, Current')
  BY <1>1, <1>2, <1>4, <1>5, FieldsNext, Zenon DEF CallInv, MallocInv, FreeInv
<1>7. Typed(Current')
  <2>1. \A q \in DOMAIN mem : q \in DOMAIN mem' /\ (mem'[q] = mem[q] \/ mem'[q] = n[c])
    BY <1>1, Zenon DEF H!Put
  <2>2. QED
    BY <1>1, <1>2, <1>3, <2>1, Fields, FieldsNext, Zenon DEF Typed
<1>8. QED
  <2>1. "size" \in Inside /\ "pages" \in Inside /\ "pages" \notin Freeing
    BY DEF Inside, Freeing
  <2>2. QED
    BY <1>1, <1>2, <1>3, <1>6, <1>7, <2>1, InsideStep, Zenon

LEMMA WritePagesGood ==
  ASSUME Good, NEW c \in Cpus, WritePages(c)
  PROVE  Good'
<1> DEFINE p == H!PtrAt(out[c], n[c])
<1>1. /\ pc[c] = "pages" /\ pc' = [pc EXCEPT ![c] = "unlock"]
      /\ mem' = H!Put(mem, p - 8, k[c])
      /\ blocks' = H!Put(blocks, p, [page |-> out[c], pages |-> k[c], size |-> n[c]])
      /\ UNCHANGED <<n, out, k, ptr, locked, top, pt, free, failed, misplaced,
                     panicked, done>>
  BY Zenon DEF WritePages, Step, Locals
<1>2. /\ Rounded(n[c]) /\ out[c] = done.top /\ n[c] \in Int /\ done.top \in Int
      /\ done.top + H!PagesFor(n[c]) + 1 <= MaxTop /\ k[c] \in 0 .. H!PagesFor(n[c])
      /\ misplaced = done.misplaced /\ blocks = done.blocks /\ failed = done.failed
      /\ ptr[c] = NoPtr /\ Grown(k[c], done, Current)
      /\ top = done.top + k[c] + 1 /\ mem = H!Put(done.mem, p - 16, n[c])
  <2>1. "pages" \notin {"bump"} /\ "pages" \in {"size", "pages"}
    OBVIOUS
  <2>2. QED
    BY <1>1, <2>1, AtFrame, Zenon
<1>3. out \in [Cpus -> Int] /\ k \in [Cpus -> Int] /\ Typed(Current)
  BY GoodAt, Zenon
<1>4. k[c] = H!PagesFor(n[c])
  BY <1>1, GoodAt, Zenon DEF CallInv, MallocInv
<1>5. p \in Int /\ p - 16 # p - 8
  <2>1. p \in Int
    BY <1>2, Numbers, Zenon
  <2>2. QED
    BY <2>1
<1> HIDE DEF p
<1>6. Request(n[c], out[c], k[c], k[c], done, Current')
  <2>1. Grown(k[c], done, Current')
    BY <1>1, <1>2, Fields, FieldsNext, GrownSame, Zenon
  <2>2. QED
    BY <1>1, <1>2, <2>1, FieldsNext, Zenon DEF Request
<1>7. MallocDone(n[c], out[c], k[c], done, Current')
  BY <1>1, <1>2, <1>4, <1>6, FieldsNext, Zenon DEF MallocDone, p
<1>8. CallInv("unlock", n[c], out'[c], k'[c], ptr[c], done, Current')
  BY <1>1, <1>7, Zenon DEF CallInv, MallocInv, FreeInv
<1>9. \A q \in DOMAIN blocks : q \in DOMAIN blocks'
  BY <1>1, Zenon DEF H!Put
<1>10. Typed(Current')
  <2>1. \A q \in DOMAIN mem : q \in DOMAIN mem' /\ (mem'[q] = mem[q] \/ mem'[q] = k[c])
    BY <1>1, Zenon DEF H!Put
  <2>2. p - 16 \in DOMAIN mem /\ mem[p - 16] = n[c]
    BY <1>2, Zenon DEF H!Put
  <2>3. \A q \in DOMAIN blocks' : q \in DOMAIN blocks \/ q = p
    BY <1>1, Zenon DEF H!Put
  <2>4. ASSUME NEW q \in DOMAIN blocks'
        PROVE  q \in Int /\ q - 16 \in DOMAIN mem' /\ mem'[q - 16] \in Int
    <3>1. q \in Int /\ q - 16 \in DOMAIN mem /\ mem[q - 16] \in Int
      BY <1>2, <1>3, <1>5, <2>2, <2>3, Fields, Zenon DEF Typed
    <3>2. k[c] \in Int
      BY <1>3, Zenon
    <3>3. QED
      BY <2>1, <3>1, <3>2, Zenon
  <2>5. top' \in Int /\ pt' = [v \in DOMAIN pt' |-> pt'[v]]
    BY <1>1, <1>3, Fields, Zenon DEF Typed
  <2>6. QED
    BY <2>4, <2>5, FieldsNext, Zenon DEF Typed
<1>11. QED
  <2>1. "pages" \in Inside /\ "unlock" \in Inside /\ "unlock" \notin Freeing
    BY DEF Inside, Freeing
  <2>2. QED
    BY <1>1, <1>2, <1>3, <1>8, <1>9, <1>10, <2>1, InsideStep, Zenon

LEMMA AtCheck ==
  ASSUME Good, NEW c \in Cpus, pc[c] = "check"
  PROVE  /\ Current = done /\ Typed(done) /\ ptr[c] # NoPtr /\ ptr[c] \in DOMAIN blocks
         /\ ptr[c] \in Int /\ mem[ptr[c] - 16] \in Int
         /\ H!PagesFor(mem[ptr[c] - 16]) \in Int /\ H!StartPage(ptr[c]) \in Int
         /\ blocks = done.blocks /\ mem = done.mem
<1>1. "check" \in Freeing
  BY DEF Freeing
<1>2. Current = done /\ Typed(done) /\ ptr[c] # NoPtr /\ ptr[c] \in DOMAIN blocks
  BY <1>1, GoodAt, Zenon DEF CallInv, FreeInv
<1>3. blocks = done.blocks /\ mem = done.mem
  BY <1>2, Fields, Zenon
<1>4. ptr[c] \in Int /\ mem[ptr[c] - 16] \in Int
  BY <1>2, <1>3, Zenon DEF Typed
<1>5. QED
  BY <1>2, <1>3, <1>4, Numbers, Zenon

LEMMA CheckHeaderGood ==
  ASSUME Good, NEW c \in Cpus, CheckHeader(c)
  PROVE  Good'
<1> DEFINE pages == H!PagesFor(mem[ptr[c] - 16])
           start == H!StartPage(ptr[c])
<1>1. pc[c] = "check" /\ UNCHANGED <<n, ptr, locked, heapVars, done>>
  BY Zenon DEF CheckHeader
<1>2. \/ /\ pc' = [pc EXCEPT ![c] = "halted"] /\ UNCHANGED <<k, out>>
      \/ /\ mem[ptr[c] - 8] = pages /\ pc' = [pc EXCEPT ![c] = "unmap"]
         /\ out' = [out EXCEPT ![c] = start]
         /\ k' = [k EXCEPT ![c] = mem[ptr[c] - 8]]
         /\ UNCHANGED panicked
  BY Zenon DEF CheckHeader, Step
<1>3. Current' = Current /\ blocks' = blocks
  BY <1>1, Zenon DEF Current, heapVars
<1>4. /\ Current = done /\ Typed(done) /\ ptr[c] # NoPtr /\ ptr[c] \in DOMAIN blocks
      /\ pages \in Int /\ start \in Int /\ mem = done.mem
  BY <1>1, AtCheck, Zenon
<1>5. out \in [Cpus -> Int] /\ k \in [Cpus -> Int]
  BY GoodAt, Zenon
<1>6. /\ "check" \in Inside /\ "halted" \in Inside /\ "unmap" \in Inside
      /\ "halted" \notin Freeing \cup Mallocing /\ "unmap" \notin Mallocing
  BY DEF Inside, Freeing, Mallocing
<1>7. CASE pc' = [pc EXCEPT ![c] = "halted"] /\ UNCHANGED <<k, out>>
  <2>1. CallInv("halted", n[c], out'[c], k'[c], ptr[c], done, Current')
    BY Zenon DEF CallInv, MallocInv, FreeInv
  <2>2. QED
    BY <1>1, <1>3, <1>4, <1>5, <1>6, <1>7, <2>1, InsideStep, Zenon
<1>8. CASE /\ mem[ptr[c] - 8] = pages /\ pc' = [pc EXCEPT ![c] = "unmap"]
           /\ out' = [out EXCEPT ![c] = start]
           /\ k' = [k EXCEPT ![c] = mem[ptr[c] - 8]]
           /\ UNCHANGED panicked
  <2> HIDE DEF pages, start
  <2>1. /\ out' \in [Cpus -> Int] /\ k' \in [Cpus -> Int]
        /\ out'[c] = start /\ k'[c] = pages
        /\ \A d \in Cpus \ {c} : out'[d] = out[d] /\ k'[d] = k[d]
    BY <1>4, <1>5, <1>8
  <2>2. start = start + pages - pages /\ pages <= pages
    BY <1>4
  <2>3. Shrunk(start, start, done, Current)
    BY <1>4, ShrunkNot, Zenon
  <2>4. FreeInv("unmap", start, pages, ptr[c], done, Current)
    BY <1>4, <1>8, <2>2, <2>3, Zenon DEF FreeInv, pages, start
  <2>5. CallInv("unmap", n[c], out'[c], k'[c], ptr[c], done, Current')
    BY <1>3, <2>1, <2>4, Zenon DEF CallInv, MallocInv
  <2>6. QED
    BY <1>1, <1>3, <1>4, <1>6, <1>8, <2>1, <2>5, InsideStep, Zenon
<1>9. QED
  BY <1>2, <1>7, <1>8, Zenon

LEMMA HeaderFaultGood ==
  ASSUME Good, NEW c \in Cpus, HeaderFault(c)
  PROVE  Good'
<1>1. /\ pc[c] \in {"size", "pages", "check"} /\ pc' = [pc EXCEPT ![c] = "halted"]
      /\ UNCHANGED <<n, out, k, ptr, locked, heapVars, panicked, done>>
  BY Zenon DEF HeaderFault, Step, Locals
<1>2. Current' = Current /\ blocks' = blocks
  BY <1>1, Zenon DEF Current, heapVars
<1>3. out \in [Cpus -> Int] /\ k \in [Cpus -> Int] /\ Typed(Current)
  BY GoodAt, Zenon
<1>4. /\ pc[c] \in Inside /\ pc[c] # "halted" /\ "halted" \in Inside
      /\ "halted" \notin Freeing \cup Mallocing
  BY <1>1 DEF Inside, Freeing, Mallocing
<1>5. CallInv("halted", n[c], out'[c], k'[c], ptr[c], done, Current')
  BY Zenon DEF CallInv, MallocInv, FreeInv
<1>6. QED
  BY <1>1, <1>2, <1>3, <1>4, <1>5, InsideStep, Zenon

\* The state of kfree's loop; pages and start are those of the block.
LEMMA AtUnmap ==
  ASSUME Good, NEW c \in Cpus, pc[c] = "unmap",
         NEW pages, pages = H!PagesFor(done.mem[ptr[c] - 16]),
         NEW start, start = H!StartPage(ptr[c])
  PROVE  /\ ptr[c] # NoPtr /\ ptr[c] \in DOMAIN blocks
         /\ pages \in Int /\ start \in Int /\ out[c] \in Int /\ k[c] \in Int
         /\ done.mem[ptr[c] - 8] = pages
         /\ out[c] = start + pages - k[c] /\ k[c] <= pages
         /\ Shrunk(start, out[c], done, Current)
         /\ top = done.top /\ mem = done.mem /\ blocks = done.blocks
         /\ failed = done.failed /\ misplaced = done.misplaced
<1>1. "unmap" \in Freeing
  BY DEF Freeing
<1>2. /\ ptr[c] # NoPtr /\ ptr[c] \in DOMAIN blocks
      /\ out[c] \in Int /\ k[c] \in Int /\ Typed(done)
      /\ FreeInv("unmap", out[c], k[c], ptr[c], done, Current)
  BY <1>1, GoodAt, Zenon DEF CallInv
<1>3. /\ done.mem[ptr[c] - 8] = pages
      /\ out[c] = start + pages - k[c] /\ k[c] <= pages
      /\ Shrunk(start, out[c], done, Current)
      /\ top = done.top /\ mem = done.mem /\ blocks = done.blocks
      /\ failed = done.failed /\ misplaced = done.misplaced
  BY <1>2, Fields, Zenon DEF FreeInv
<1>4. ptr[c] \in Int /\ done.mem[ptr[c] - 16] \in Int
  BY <1>2, <1>3, Zenon DEF Typed
<1>5. pages \in Int /\ start \in Int
  BY <1>4, Numbers, Zenon
<1>6. QED
  BY <1>2, <1>3, <1>5, Zenon

LEMMA UnmapPageGood ==
  ASSUME Good, NEW c \in Cpus, UnmapPage(c)
  PROVE  Good'
<1>1. /\ pc[c] = "unmap" /\ k[c] > 0
      /\ free' = free \cup (IF out[c] \in DOMAIN pt THEN {pt[out[c]]} ELSE {})
      /\ pt' = Restrict(pt, DOMAIN pt \ {out[c]})
      /\ out' = [out EXCEPT ![c] = out[c] + 1] /\ k' = [k EXCEPT ![c] = k[c] - 1]
      /\ UNCHANGED <<pc, n, ptr, locked, top, mem, blocks, failed, misplaced,
                     panicked, done>>
  BY Zenon DEF UnmapPage
<1>2. PICK pages, start : /\ pages = H!PagesFor(done.mem[ptr[c] - 16])
                          /\ start = H!StartPage(ptr[c])
  BY Zenon
<1>3. /\ ptr[c] # NoPtr /\ ptr[c] \in DOMAIN blocks
      /\ pages \in Int /\ start \in Int /\ out[c] \in Int /\ k[c] \in Int
      /\ done.mem[ptr[c] - 8] = pages
      /\ out[c] = start + pages - k[c] /\ k[c] <= pages
      /\ Shrunk(start, out[c], done, Current)
      /\ top = done.top /\ mem = done.mem /\ blocks = done.blocks
      /\ failed = done.failed /\ misplaced = done.misplaced
  BY <1>1, <1>2, AtUnmap, Zenon
<1>4. pc \in [Cpus -> Positions] /\ out \in [Cpus -> Int] /\ k \in [Cpus -> Int] /\ Typed(Current)
  BY GoodAt, Zenon
<1>5. /\ out' \in [Cpus -> Int] /\ k' \in [Cpus -> Int]
      /\ out'[c] = out[c] + 1 /\ k'[c] = k[c] - 1
      /\ \A d \in Cpus \ {c} : out'[d] = out[d] /\ k'[d] = k[d]
  BY <1>1, <1>3, <1>4
<1>6. /\ start <= out[c] /\ out[c] + 1 = start + pages - (k[c] - 1) /\ k[c] - 1 <= pages
  BY <1>3
<1>7. Shrunk(start, out[c] + 1, done, Current')
  BY <1>1, <1>3, <1>6, Fields, FieldsNext, ShrunkMore, Zenon
<1>8. CallInv("unmap", n[c], out'[c], k'[c], ptr[c], done, Current')
  BY <1>1, <1>2, <1>3, <1>5, <1>6, <1>7, FieldsNext, Zenon DEF CallInv, MallocInv, FreeInv
<1>9. Typed(Current')
  <2>1. pt' = [v \in DOMAIN pt' |-> pt'[v]]
    BY <1>1, Zenon DEF Restrict
  <2>2. top' \in Int
    BY <1>1, <1>4, Fields, Zenon DEF Typed
  <2>3. QED
    BY <1>1, <1>4, <2>1, <2>2, TypedSame, Zenon
<1>10. QED
  <2>1. "unmap" \in Inside /\ "unmap" \notin Mallocing
    BY DEF Inside, Mallocing
  <2>2. pc' = [pc EXCEPT ![c] = "unmap"]
    BY <1>1, <1>4
  <2>3. QED
    BY <1>1, <1>3, <1>5, <1>8, <1>9, <2>1, <2>2, InsideStep, Zenon

LEMMA FreeDoneGood ==
  ASSUME Good, NEW c \in Cpus, FreeDone(c)
  PROVE  Good'
<1>1. /\ pc[c] = "unmap" /\ pc' = [pc EXCEPT ![c] = "unlock"] /\ k[c] = 0
      /\ misplaced' = misplaced \cup ({blocks[ptr[c]].page} \ {H!StartPage(ptr[c])})
      /\ blocks' = Restrict(blocks, DOMAIN blocks \ {ptr[c]})
      /\ UNCHANGED <<n, out, k, ptr, locked, top, pt, mem, free, failed, panicked, done>>
  BY Zenon DEF FreeDone, Step, Locals
<1>2. PICK pages, start : /\ pages = H!PagesFor(done.mem[ptr[c] - 16])
                          /\ start = H!StartPage(ptr[c])
  BY Zenon
<1>3. /\ ptr[c] # NoPtr /\ ptr[c] \in DOMAIN blocks
      /\ pages \in Int /\ start \in Int /\ out[c] \in Int /\ k[c] \in Int
      /\ done.mem[ptr[c] - 8] = pages
      /\ out[c] = start + pages - k[c] /\ k[c] <= pages
      /\ Shrunk(start, out[c], done, Current)
      /\ top = done.top /\ mem = done.mem /\ blocks = done.blocks
      /\ failed = done.failed /\ misplaced = done.misplaced
  BY <1>1, <1>2, AtUnmap, Zenon
<1>4. out \in [Cpus -> Int] /\ k \in [Cpus -> Int] /\ Typed(Current)
  BY GoodAt, Zenon
<1>5. out[c] = start + pages
  BY <1>1, <1>3
<1>6. Shrunk(start, start + pages, done, Current')
  <2>1. Current'.pt = Current.pt /\ Current'.free = Current.free
    BY <1>1, Fields, FieldsNext, Zenon
  <2>2. QED
    BY <1>3, <1>5, <2>1, Zenon DEF Shrunk
<1>7. FreeDoneBy(ptr[c], done, Current')
  BY <1>1, <1>2, <1>3, <1>6, FieldsNext, Zenon DEF FreeDoneBy
<1>8. CallInv("unlock", n[c], out'[c], k'[c], ptr[c], done, Current')
  BY <1>1, <1>7, Zenon DEF CallInv, MallocInv, FreeInv
<1>9. DOMAIN blocks' = DOMAIN blocks \ {ptr[c]}
  BY <1>1, Zenon DEF Restrict
<1>10. Typed(Current')
  BY <1>1, <1>4, <1>9, Fields, FieldsNext, Zenon DEF Typed
<1>11. QED
  <2>1. "unmap" \in Inside /\ "unlock" \in Inside /\ "unlock" \notin Freeing \cup Mallocing
    BY DEF Inside, Freeing, Mallocing
  <2>2. QED
    BY <1>1, <1>3, <1>4, <1>8, <1>9, <1>10, <2>1, InsideStep, Zenon

-----------------------------------------------------------------------------
\* The invariant

LEMMA StutterGood ==
  ASSUME Good, UNCHANGED vars
  PROVE  Good'
<1>1. UNCHANGED <<pc, n, out, k, ptr, locked, blocks, panicked, done>>
  BY Zenon DEF vars, heapVars
<1>2. Current' = Current
  BY Zenon DEF vars, heapVars, Current
<1>3. TypeInv' /\ LockInv' /\ PtrInv'
  BY <1>1, <1>2, Zenon DEF Good, TypeInv, LockInv, PtrInv
<1>4. \A c \in Cpus : CallInv(pc'[c], n'[c], out'[c], k'[c], ptr'[c], done', Current')
  BY <1>1, <1>2, Zenon DEF Good
<1>5. (\A c \in Cpus : pc'[c] \notin Inside) => Current' = done'
  BY <1>1, <1>2, Zenon DEF Good
<1>6. QED
  BY <1>3, <1>4, <1>5, Zenon DEF Good

\* An overlap is never forgotten.
LEMMA RacedStays ==
  ASSUME [Next]_vars, raced
  PROVE  raced'
<1>1. CASE UNCHANGED vars
  BY <1>1, Zenon DEF vars
<1>2. ASSUME NEW c \in Cpus, CpuStep(c)
      PROVE  raced'
  <2>1. \/ UNCHANGED raced
        \/ raced' = (raced \/ \E d \in Cpus \ {c} : pc[d] \in Window)
    BY <1>2, Zenon DEF CpuStep, CallKmalloc, CallKfree, Load, Store, Unlock, ReadTop,
       MapPage, BumpTop, OutOfFrames, SkipGuard, WriteSize, WritePages, CheckHeader,
       HeaderFault, UnmapPage, FreeDone
  <2>2. QED
    BY <2>1, Zenon
<1>3. QED
  BY <1>1, <1>2, Zenon DEF Next

LEMMA SmpHeapInvKept ==
  ASSUME SmpHeapInv, [Next]_vars
  PROVE  SmpHeapInv'
<1>1. SUFFICES ASSUME ~raced'
               PROVE  Good'
  BY Zenon DEF SmpHeapInv
<1>2. Good
  BY <1>1, RacedStays, Zenon DEF SmpHeapInv
<1>3. CASE UNCHANGED vars
  BY <1>2, <1>3, StutterGood, Zenon
<1>4. ASSUME NEW c \in Cpus, CpuStep(c)
      PROVE  Good'
  <2>1. ASSUME NEW b \in Sizes, CallKmalloc(c, b)
        PROVE  Good'
    BY <1>2, <2>1, CallKmallocGood, Zenon
  <2>2. ASSUME NEW q \in DOMAIN blocks, CallKfree(c, q)
        PROVE  Good'
    BY <1>2, <2>2, CallKfreeGood, Zenon
  <2>3. CASE Load(c, "mallocLoad", "mallocStore") \/ Load(c, "freeLoad", "freeStore")
    BY <1>1, <1>2, <2>3, LoadGood, Zenon
  <2>4. CASE Store(c, "mallocStore", "readTop") \/ Store(c, "freeStore", "check")
    BY <1>2, <2>4, StoreGood, Zenon
  <2>5. CASE ReadTop(c)
    BY <1>2, <2>5, ReadTopGood, Zenon
  <2>6. CASE MapPage(c)
    BY <1>2, <2>6, MapPageGood, Zenon
  <2>7. CASE BumpTop(c)
    BY <1>2, <2>7, BumpTopGood, Zenon
  <2>8. CASE OutOfFrames(c)
    BY <1>2, <2>8, OutOfFramesGood, Zenon
  <2>9. CASE SkipGuard(c)
    BY <1>2, <2>9, SkipGuardGood, Zenon
  <2>10. CASE WriteSize(c)
    BY <1>2, <2>10, WriteSizeGood, Zenon
  <2>11. CASE WritePages(c)
    BY <1>2, <2>11, WritePagesGood, Zenon
  <2>12. CASE CheckHeader(c)
    BY <1>2, <2>12, CheckHeaderGood, Zenon
  <2>13. CASE HeaderFault(c)
    BY <1>2, <2>13, HeaderFaultGood, Zenon
  <2>14. CASE UnmapPage(c)
    BY <1>2, <2>14, UnmapPageGood, Zenon
  <2>15. CASE FreeDone(c)
    BY <1>2, <2>15, FreeDoneGood, Zenon
  <2>16. CASE Unlock(c)
    BY <1>2, <2>16, UnlockGood, Zenon
  <2>17. QED
    BY <1>4, <2>1, <2>2, <2>3, <2>4, <2>5, <2>6, <2>7, <2>8, <2>9, <2>10, <2>11,
       <2>12, <2>13, <2>14, <2>15, <2>16, Zenon DEF CpuStep
<1>5. QED
  BY <1>3, <1>4, Zenon DEF Next

\* The inductive invariant: as long as no two CPUs overlapped between the load
\* and the store of mm_lock, one CPU at most is inside kmalloc or kfree, and
\* the heap differs from what that CPU found by what its call has done so far.
THEOREM SpecSmpHeapInv == Spec => []SmpHeapInv
<1>1. Init => SmpHeapInv
  BY InitGood, Zenon DEF SmpHeapInv
<1>2. SmpHeapInv /\ [Next]_vars => SmpHeapInv'
  BY SmpHeapInvKept, Zenon
<1>3. QED
  BY <1>1, <1>2, PTL DEF Spec

-----------------------------------------------------------------------------
\* The refinement

\* A kmalloc that ends with the heap S, and then unlocks.
LEMMA UnlockKmalloc ==
  ASSUME NEW sz, NEW o, NEW i, done' = Current, panicked = {}, panicked' = {},
         \/ MallocFailed(sz, o, i, done, Current)
         \/ MallocDone(sz, o, i, done, Current)
  PROVE  \E b \in Sizes : H!Kmalloc(b)
<1>1. Request(sz, o, i, i, done, Current)
  BY Zenon DEF MallocFailed, MallocDone
<1>2. PICK b \in Sizes : sz = H!Round8(b)
  BY <1>1, Zenon DEF Request, Rounded
<1>3. /\ o = done.top /\ done.top + H!PagesFor(sz) + 1 <= MaxTop
      /\ i \in 0 .. H!PagesFor(sz) /\ Current.misplaced = done.misplaced
  BY <1>1, Zenon DEF Request
<1>4. PICK f \in [0 .. i - 1 -> done.free] : GrownBy(f, i, done, Current)
  BY <1>1, Zenon DEF Request, Grown
<1>5. /\ \A x, y \in 0 .. i - 1 : f[x] = f[y] => x = y
      /\ H!MapAtTop(f, i)
  BY <1>4, Zenon DEF GrownBy, H!MapAtTop
<1>6. \E r \in {H!NoPtr, H!PtrAt(done.top, H!Round8(b))} : H!Malloc(b, r)
  <2>1. CASE MallocFailed(sz, o, i, done, Current)
    <3>1. /\ Current.top = done.top + i /\ i < H!PagesFor(sz) /\ Current.free = {}
          /\ Current.mem = done.mem /\ Current.blocks = done.blocks
          /\ Current.failed = done.failed \cup (done.top .. done.top + i - 1)
      BY <2>1, Zenon DEF MallocFailed
    <3>2. done.free = {f[x] : x \in 0 .. i - 1}
      <4>1. Current.free = done.free \ {f[x] : x \in 0 .. i - 1}
        BY <1>4, Zenon DEF GrownBy
      <4>2. QED
        BY <1>4, <3>1, <4>1, Zenon
    <3>3. H!Malloc(b, H!NoPtr)
      BY <1>2, <1>3, <1>4, <1>5, <3>1, <3>2, Zenon DEF H!Malloc
    <3>4. QED
      BY <3>3, Zenon
  <2>2. CASE MallocDone(sz, o, i, done, Current)
    <3>1. /\ Current.top = done.top + i + 1 /\ i = H!PagesFor(sz)
          /\ Current.mem = H!Put(H!Put(done.mem, H!PtrAt(o, sz) - 16, sz),
                                 H!PtrAt(o, sz) - 8, i)
          /\ Current.blocks = H!Put(done.blocks, H!PtrAt(o, sz),
                                    [page |-> o, pages |-> i, size |-> sz])
          /\ Current.failed = done.failed
      BY <2>2, Zenon DEF MallocDone
    <3>2. H!Malloc(b, H!PtrAt(done.top, H!Round8(b)))
      BY <1>2, <1>3, <1>4, <1>5, <3>1, Zenon DEF H!Malloc, H!TopAfter, H!Header
    <3>3. QED
      BY <3>2, Zenon
  <2>3. QED
    BY <2>1, <2>2, Zenon
<1>7. H!Kmalloc(b)
  BY <1>3, <1>6, Zenon DEF H!Kmalloc
<1>8. QED
  BY <1>7, Zenon

\* A kfree that ends with the heap S, and then unlocks.
LEMMA UnlockKfree ==
  ASSUME NEW q, done' = Current, panicked = {}, panicked' = {},
         Typed(done), FreeDoneBy(q, done, Current)
  PROVE  \E p \in DOMAIN done.blocks : H!Kfree(p)
<1>1. PICK pages : pages = H!PagesFor(done.mem[q - 16])
  BY Zenon
<1>2. /\ q # NoPtr /\ q \in DOMAIN done.blocks /\ done.mem[q - 8] = pages
      /\ Shrunk(H!StartPage(q), H!StartPage(q) + pages, done, Current)
      /\ Current.blocks = Restrict(done.blocks, DOMAIN done.blocks \ {q})
      /\ Current.misplaced = done.misplaced \cup ({done.blocks[q].page} \ {H!StartPage(q)})
      /\ Current.top = done.top /\ Current.mem = done.mem /\ Current.failed = done.failed
  BY <1>1, Zenon DEF FreeDoneBy
<1>3. H!Unmap(H!StartPage(q), pages)
  <2>1. q \in Int /\ done.mem[q - 16] \in Int
    BY <1>2, Zenon DEF Typed
  <2>2. pages \in Int /\ H!StartPage(q) \in Int
    BY <1>1, <2>1, Numbers, Zenon
  <2>3. (H!StartPage(q) + pages) - 1 = H!StartPage(q) + pages - 1
    BY <2>2
  <2>4. QED
    BY <1>2, <2>3, Zenon DEF Shrunk, H!Unmap, Restrict, H!Restrict
<1>4. H!Release(q)
  BY <1>1, <1>2, <1>3, Zenon DEF H!Release, Restrict, H!Restrict
<1>5. H!Kfree(q)
  BY <1>2, <1>4, Zenon DEF H!Kfree, NoPtr, H!NoPtr
<1>6. QED
  BY <1>2, <1>5, Zenon

\* A kfree that panics.
LEMMA PanicKfree ==
  ASSUME NEW q \in DOMAIN done.blocks, q # NoPtr, done' = done, panicked = {}, panicked' # {},
         done.mem[q - 8] # H!PagesFor(done.mem[q - 16])
  PROVE  \E p \in DOMAIN done.blocks : H!Kfree(p)
<1>1. H!Release(q)
  BY Zenon DEF H!Release
<1>2. H!Kfree(q)
  BY <1>1, Zenon DEF H!Kfree, NoPtr, H!NoPtr
<1>3. QED
  BY <1>2, Zenon

\* Nobody has panicked when a CPU that has not is inside.
LEMMA NoPanic ==
  ASSUME Good, NEW c \in Cpus, pc[c] \in Inside, pc[c] # "halted"
  PROVE  panicked = {}
<1>1. "halted" \in Inside
  BY DEF Inside
<1>2. QED
  BY <1>1, Zenon DEF Good, LockInv

LEMMA StepImplementsHeap ==
  ASSUME SmpHeapInv, [Next]_vars
  PROVE  [raced' \/ H!Next]_<<done, panicked>>
<1>1. SUFFICES ASSUME ~raced'
               PROVE  H!Next \/ UNCHANGED <<done, panicked>>
  BY Zenon
<1>2. Good
  BY <1>1, RacedStays, Zenon DEF SmpHeapInv
<1>3. CASE UNCHANGED vars
  BY <1>3, Zenon DEF vars
<1>4. ASSUME NEW c \in Cpus, CpuStep(c)
      PROVE  H!Next \/ UNCHANGED <<done, panicked>>
  <2>1. CASE Unlock(c)
    <3>1. pc[c] = "unlock" /\ done' = Current /\ panicked' = panicked /\ pc[c] \in Inside
          /\ pc[c] # "halted"
      BY <2>1 DEF Unlock, Step, Inside
    <3>2. panicked = {} /\ panicked' = {}
      BY <1>2, <3>1, NoPanic, Zenon
    <3>3. \/ MallocFailed(n[c], out[c], k[c], done, Current)
          \/ MallocDone(n[c], out[c], k[c], done, Current)
          \/ FreeDoneBy(ptr[c], done, Current)
      BY <1>2, <3>1, GoodAt, Zenon DEF CallInv
    <3>4. Typed(done)
      BY <1>2, GoodAt, Zenon
    <3>5. QED
      BY <3>1, <3>2, <3>3, <3>4, UnlockKmalloc, UnlockKfree, Zenon DEF H!Next
  <2>2. CASE CheckHeader(c)
    <3>1. pc[c] = "check" /\ pc[c] \in Inside /\ pc[c] # "halted" /\ done' = done
      BY <2>2 DEF CheckHeader, Inside
    <3>2. CASE panicked' = panicked
      BY <3>1, <3>2, Zenon
    <3>3. CASE panicked' # panicked
      <4>1. /\ mem[ptr[c] - 8] # H!PagesFor(mem[ptr[c] - 16])
            /\ panicked' = panicked \cup {c}
        BY <2>2, <3>3, Zenon DEF CheckHeader
      <4>2. panicked = {} /\ panicked' # {}
        BY <1>2, <3>1, <4>1, NoPanic, Zenon
      <4>3. ptr[c] # NoPtr /\ ptr[c] \in DOMAIN done.blocks /\ mem = done.mem
        BY <1>2, <3>1, AtCheck, Zenon
      <4>4. QED
        BY <3>1, <4>1, <4>2, <4>3, PanicKfree, Zenon DEF H!Next
    <3>4. QED
      BY <3>2, <3>3, Zenon
  <2>3. CASE ~Unlock(c) /\ ~CheckHeader(c)
    BY <1>4, <2>3, Zenon DEF CpuStep, CallKmalloc, CallKfree, Load, Store, ReadTop,
       MapPage, BumpTop, OutOfFrames, SkipGuard, WriteSize, WritePages, HeaderFault,
       UnmapPage, FreeDone
  <2>4. QED
    BY <2>1, <2>2, <2>3, Zenon
<1>5. QED
  BY <1>3, <1>4, Zenon DEF Next

\* ImplementsHeap: what a CPU finds when it has taken mm_lock changes by whole
\* calls of kmalloc and kfree as module Heap has them, until the lock lets two
\* CPUs in, for any number of CPUs, frames and sizes.
THEOREM SpecImplementsHeap == Spec => ImplementsHeap
<1>1. SmpHeapInv /\ [Next]_vars => [raced' \/ H!Next]_<<done, panicked>>
  BY StepImplementsHeap, Zenon
<1>2. QED
  BY <1>1, SpecSmpHeapInv, PTL DEF Spec, ImplementsHeap

-----------------------------------------------------------------------------
\* What Heap's invariants say of several CPUs

HP == INSTANCE HeapProofs WITH
  top <- done.top, pt <- done.pt, mem <- done.mem, free <- done.free,
  blocks <- done.blocks, failed <- done.failed,
  misplaced <- done.misplaced,
  moving <- [old |-> NoPtr, new |-> NoPtr],
  halted <- IF panicked = {} THEN "no" ELSE "kfree"

LEMMA SameNext == H!Next <=> HP!Next
BY Zenon DEF H!Next, HP!Next, H!Kmalloc, HP!Kmalloc, H!Kfree, HP!Kfree,
   H!Krealloc, HP!Krealloc, H!KreallocMove, HP!KreallocMove, H!Malloc, HP!Malloc,
   H!Release, HP!Release, H!MapAtTop, HP!MapAtTop, H!Unmap, HP!Unmap,
   H!TopAfter, HP!TopAfter, H!Header, HP!Header, H!CopyFits, HP!CopyFits,
   H!PagesFor, HP!PagesFor, H!PtrAt, HP!PtrAt, H!StartPage, HP!StartPage,
   H!Put, HP!Put, H!Round8, HP!Round8, H!NoPtr, HP!NoPtr, H!Idle, HP!Idle,
   H!Restrict, HP!Restrict

LEMMA SamePlaces ==
  /\ \A sz : HP!PagesFor(sz) = H!PagesFor(sz)
  /\ \A t, sz : HP!PtrAt(t, sz) = H!PtrAt(t, sz)
BY DEF H!PagesFor, HP!PagesFor, H!PtrAt, HP!PtrAt

\* The two words below a block lie in its pages.
LEMMA HeaderInside ==
  ASSUME NEW t \in Nat, NEW sz \in Nat, NEW w \in {8, 16}
  PROVE  (H!PtrAt(t, sz) - w) \div PageSize \in t .. t + H!PagesFor(sz) - 1
<1>1. PICK p, m : p = H!PtrAt(t, sz) /\ m = H!PagesFor(sz)
  BY Zenon
<1>2. /\ p \in Nat /\ t * PageSize <= p - 16 /\ p + sz = (t + m) * PageSize
  BY <1>1, HP!Placement, SamePlaces, PageSizeAssumption, SizesAssumption, MaxTopAssumption
<1>3. m \in Nat
  BY <1>1, HP!PagesForBounds, SamePlaces, PageSizeAssumption, SizesAssumption, MaxTopAssumption
<1>4. PageSize \in Nat \ {0} /\ t * PageSize \in Nat
  BY PageSizeAssumption
<1>5. p - w \in Nat /\ t * PageSize <= p - w /\ p - w < (t + m) * PageSize
  <2>1. (t + m) * PageSize \in Nat
    BY <1>3, <1>4
  <2>2. QED
    BY <1>2, <1>4, <2>1
<1>6. PICK a : a = (p - w) \div PageSize
  BY Zenon
<1>7. a \in Nat /\ a * PageSize <= p - w /\ p - w < (a + 1) * PageSize
  BY <1>4, <1>5, <1>6
<1>8. t <= a
  <2>1. SUFFICES ASSUME a + 1 <= t PROVE FALSE
    BY <1>7
  <2>2. (a + 1) * PageSize <= t * PageSize
    BY <1>4, <1>7, <2>1
  <2>3. (a + 1) * PageSize \in Nat
    BY <1>4, <1>7
  <2>4. QED
    BY <1>4, <1>5, <1>7, <2>2, <2>3
<1>9. a < t + m
  <2>1. SUFFICES ASSUME t + m <= a PROVE FALSE
    BY <1>3, <1>7
  <2>2. (t + m) * PageSize <= a * PageSize
    BY <1>3, <1>4, <1>7, <2>1
  <2>3. (t + m) * PageSize \in Nat /\ a * PageSize \in Nat
    BY <1>3, <1>4, <1>7
  <2>4. QED
    BY <1>5, <1>7, <2>2, <2>3
<1>10. a \in t .. t + m - 1
  BY <1>3, <1>7, <1>8, <1>9
<1>11. QED
  BY <1>1, <1>6, <1>10, Zenon

\* What holds as long as no two CPUs overlapped in the lock: Heap's invariant
\* between calls, and no CPU has stopped inside one.
CallsSound == HP!HeapInv /\ \A c \in Cpus : pc[c] # "halted"

LEMMA InitCallsSound ==
  ASSUME Init
  PROVE  CallsSound
<1>1. HP!Init
  BY Fields DEF Init, HP!Init, HP!Idle, HP!NoPtr, NoPtr
<1>2. HP!HeapInv
  BY <1>1, HP!InitHeapInv, PageSizeAssumption, SizesAssumption, MaxTopAssumption
<1>3. QED
  BY <1>2 DEF Init, CallsSound

LEMMA HeapInvKept ==
  ASSUME HP!HeapInv, [H!Next]_<<done, panicked>>
  PROVE  HP!HeapInv'
<1>1. [HP!Next]_HP!vars
  BY SameNext, Zenon DEF HP!vars
<1>2. QED
  BY <1>1, HP!NextHeapInv, PageSizeAssumption, SizesAssumption, MaxTopAssumption

\* The header that a CPU writes or reads is mapped.
LEMMA HeaderMapped ==
  ASSUME Good, HP!HeapInv, NEW c \in Cpus
  PROVE  /\ pc[c] = "size" => Mapped(H!PtrAt(out[c], n[c]) - 16)
         /\ pc[c] = "pages" => Mapped(H!PtrAt(out[c], n[c]) - 8)
         /\ pc[c] = "check" => Mapped(ptr[c] - 16)
<1>1. HP!TypeInv /\ \A p \in DOMAIN done.blocks : HP!BlockInv(p)
  BY Zenon DEF HP!HeapInv, HP!CallInv
<1>2. ASSUME pc[c] \in {"size", "pages"}, NEW w \in {8, 16}
      PROVE  Mapped(H!PtrAt(out[c], n[c]) - w)
  <2>1. /\ out[c] = done.top /\ Grown(k[c], done, Current) /\ Rounded(n[c])
    <3>1. pc[c] # "bump" /\ pc[c] \in {"frame", "bump", "size", "pages"}
      BY <1>2
    <3>2. QED
      BY <3>1, AtFrame, Zenon
  <2>2. k[c] = H!PagesFor(n[c])
    BY <1>2, GoodAt, Zenon DEF CallInv, MallocInv
  <2>3. out[c] \in Nat
    BY <1>1, <2>1 DEF HP!TypeInv
  <2>4. n[c] \in Nat
    <3>1. PICK b \in Sizes : n[c] = H!Round8(b)
      BY <2>1, Zenon DEF Rounded
    <3>2. QED
      BY <3>1, SizesAssumption DEF H!Round8
  <2>5. (H!PtrAt(out[c], n[c]) - w) \div PageSize \in out[c] .. out[c] + k[c] - 1
    BY <1>2, <2>2, <2>3, <2>4, HeaderInside, Zenon
  <2>6. out[c] .. out[c] + k[c] - 1 \subseteq DOMAIN pt
    BY <2>1, Fields, Zenon DEF Grown, GrownBy
  <2>7. QED
    BY <2>5, <2>6, Zenon DEF Mapped
<1>3. ASSUME pc[c] = "check"
      PROVE  Mapped(ptr[c] - 16)
  <2>1. ptr[c] \in DOMAIN done.blocks /\ pt = done.pt
    BY <1>3, AtCheck, Fields, Zenon
  <2>2. PICK b : b = done.blocks[ptr[c]]
    BY Zenon
  <2>3. b.page \in Nat /\ b.size \in Nat
    BY <1>1, <2>1, <2>2 DEF HP!TypeInv
  <2>4. /\ b.pages = H!PagesFor(b.size) /\ ptr[c] = H!PtrAt(b.page, b.size)
        /\ b.page .. b.page + b.pages - 1 \subseteq DOMAIN pt
    BY <1>1, <2>1, <2>2, SamePlaces, Zenon DEF HP!BlockInv, HP!BlockPages
  <2>5. (ptr[c] - 16) \div PageSize \in b.page .. b.page + b.pages - 1
    <3>1. 16 \in {8, 16}
      BY Zenon
    <3>2. QED
      BY <2>3, <2>4, <3>1, HeaderInside, Zenon
  <2>6. QED
    BY <2>4, <2>5, Zenon DEF Mapped
<1>4. QED
  BY <1>2, <1>3, Zenon

LEMMA CallsSoundKept ==
  ASSUME SmpHeapInv, ~raced => CallsSound, [Next]_vars, ~raced'
  PROVE  CallsSound'
<1>1. Good /\ CallsSound
  BY RacedStays, Zenon DEF SmpHeapInv
<1>2. HP!HeapInv'
  BY <1>1, StepImplementsHeap, HeapInvKept, Zenon DEF CallsSound
<1>3. panicked' = {}
  BY <1>2 DEF HP!HeapInv, HP!CallInv
<1>4. ASSUME NEW d \in Cpus, pc'[d] = "halted"
      PROVE  FALSE
  <2>1. pc[d] # "halted" /\ pc \in [Cpus -> Positions]
    BY <1>1, GoodAt, Zenon DEF CallsSound
  <2>2. PICK c \in Cpus : CpuStep(c)
    BY <1>4, <2>1, Zenon DEF Next, vars
  <2>3. CASE HeaderFault(c)
    BY <1>1, <2>3, HeaderMapped, Zenon DEF HeaderFault, Step, CallsSound
  <2>4. CASE CheckHeader(c)
    <3>1. c \notin panicked'
      BY <1>3, Zenon
    <3>2. pc' = [pc EXCEPT ![c] = "unmap"]
      BY <2>4, <3>1, Zenon DEF CheckHeader, Step
    <3>3. QED
      BY <1>4, <2>1, <3>2
  <2>5. CASE UnmapPage(c)
    BY <1>4, <2>1, <2>5, Zenon DEF UnmapPage
  <2>6. CASE ~HeaderFault(c) /\ ~CheckHeader(c) /\ ~UnmapPage(c)
    <3>1. \E p \in {"out", "unlock"} \cup Mallocing \cup Freeing : pc' = [pc EXCEPT ![c] = p]
      BY <2>2, <2>6, Zenon DEF CpuStep, CallKmalloc, CallKfree, Load, Store, ReadTop,
         MapPage, BumpTop, OutOfFrames, SkipGuard, WriteSize, WritePages, FreeDone,
         Unlock, Step, Mallocing, Freeing
    <3>2. "halted" \notin {"out", "unlock"} \cup Mallocing \cup Freeing
      BY DEF Mallocing, Freeing
    <3>3. QED
      BY <1>4, <2>1, <3>1, <3>2, Zenon
  <2>7. QED
    BY <2>3, <2>4, <2>5, <2>6
<1>5. QED
  BY <1>2, <1>4, Zenon DEF CallsSound

LEMMA SpecCallsSound == Spec => [](~raced => CallsSound)
<1>1. Init => (~raced => CallsSound)
  BY InitCallsSound, Zenon
<1>2. SmpHeapInv /\ (~raced => CallsSound) /\ [Next]_vars => (~raced => CallsSound)'
  BY CallsSoundKept, Zenon
<1>3. QED
  BY <1>1, <1>2, SpecSmpHeapInv, PTL DEF Spec

\* With several CPUs, what a call finds has all that is proved of Heap: blocks
\* own their pages, the page behind a block is not mapped, no frame is mapped
\* twice, mapped and free, or lost, and pages that stay mapped without a block
\* are explained, until the lock lets two CPUs in.
THEOREM SpecSmpHeapSound ==
  Spec => [](~raced => /\ H!BlocksOwnPages /\ H!GuardAbove
                       /\ H!FramesOnce /\ H!StrayPagesExplained)
<1>1. ASSUME HP!HeapInv
      PROVE  HP!BlocksOwnPages /\ HP!GuardAbove /\ HP!FramesOnce /\ HP!StrayPagesExplained
  BY <1>1, HP!InvImplies, PageSizeAssumption, SizesAssumption, MaxTopAssumption
<1>2. /\ HP!BlocksOwnPages => H!BlocksOwnPages
      /\ HP!GuardAbove => H!GuardAbove
      /\ HP!FramesOnce => H!FramesOnce
      /\ HP!StrayPagesExplained => H!StrayPagesExplained
  BY DEF HP!BlocksOwnPages, H!BlocksOwnPages, HP!GuardAbove, H!GuardAbove,
     HP!FramesOnce, H!FramesOnce, HP!StrayPagesExplained, H!StrayPagesExplained,
     HP!BlockPages, H!BlockPages, HP!LivePages, H!LivePages
<1>3. CallsSound => /\ H!BlocksOwnPages /\ H!GuardAbove
                    /\ H!FramesOnce /\ H!StrayPagesExplained
  BY <1>1, <1>2, Zenon DEF CallsSound
<1>4. QED
  BY <1>3, SpecCallsSound, PTL

\* No CPU ever stops inside kmalloc or kfree, neither at kfree's assertion nor
\* with a page fault on a header word, until the lock lets two CPUs in.
THEOREM SpecCallsEndSoundly == Spec => [](~raced => \A c \in Cpus : pc[c] # "halted")
<1>1. CallsSound => \A c \in Cpus : pc[c] # "halted"
  BY Zenon DEF CallsSound
<1>2. QED
  BY <1>1, SpecCallsSound, PTL

=============================================================================
