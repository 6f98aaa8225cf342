---------------------------- MODULE SpaceProofs -----------------------------
(***************************************************************************)
(* Proofs about address spaces, and about the one that kernel_main makes   *)
(* for the first program, for every number of pages, page size, set of     *)
(* frames, set of bases, bound on sizes, archive, program, block size and  *)
(* stack size.                                                             *)
(*                                                                         *)
(* FramesInv is what holds always: a frame is free, or backs one page of   *)
(* one mapping.  LayoutInv is what holds until a range is bound at a base  *)
(* inside a page: holes and mappings have no page in common and together   *)
(* cover the user range, the mappings are sorted, and the page tables hold *)
(* what the mappings hold.  SpaceInv is both, and every operation          *)
(* preserves it.                                                           *)
(***************************************************************************)
EXTENDS SpaceLemmas

-----------------------------------------------------------------------------
\* Mappings and frames

\* A page that exists was allocated exactly if it is a frame of the allocator;
\* one that does not exist yet will be.
Backed(r) ==
  \A k \in 1 .. r.size :
    IF r.back[k].exists THEN r.back[k].allocated <=> r.back[k].ptr \in Frames
                        ELSE r.back[k].allocated

\* A frame of the allocator is in fs, the free ones, or backs one page.
FramesHeld(list, fs) ==
  /\ \A i \in DOMAIN list : list[i] \in Mapping /\ Backed(list[i])
  /\ fs \subseteq Frames
  /\ \A f \in fs : \A i \in DOMAIN list : Backs(list[i], f) = {}
  /\ \A f \in Frames : \A i, j \in DOMAIN list :
       \A k \in Backs(list[i], f), m \in Backs(list[j], f) : i = j /\ k = m
  /\ \A f \in Frames \ fs : \E i \in DOMAIN list : Backs(list[i], f) # {}

\* ~memory_mapping returns the frames of the pages that exist.
LEMMA ReturnedFrames ==
  ASSUME NEW r, Backed(r), NEW f
  PROVE  f \in Returned(r) <=> f \in Frames /\ Backs(r, f) # {}
<1>1. 0 \notin Frames
  BY FramesAssumption
<1>2. ASSUME f \in Returned(r) PROVE f \in Frames /\ Backs(r, f) # {}
  <2>1. PICK k \in 1 .. r.size : /\ r.back[k].exists /\ r.back[k].allocated
                                 /\ f = r.back[k].ptr
    BY <1>2, Zenon DEF Returned
  <2>2. k \in Backs(r, f)
    BY <2>1, Zenon DEF Backs
  <2>3. f \in Frames
    BY <2>1, Zenon DEF Backed
  <2>4. QED
    BY <2>2, <2>3, Zenon
<1>3. ASSUME f \in Frames, Backs(r, f) # {} PROVE f \in Returned(r)
  <2>1. PICK k \in Backs(r, f) : TRUE
    BY <1>3, Zenon
  <2>2. k \in 1 .. r.size /\ r.back[k].exists /\ r.back[k].ptr = f
    BY <2>1, Zenon DEF Backs
  <2>3. r.back[k].allocated /\ r.back[k].ptr # 0
    BY <1>1, <1>3, <2>2, Zenon DEF Backed
  <2>4. QED
    BY <2>2, <2>3, Zenon DEF Returned
<1>4. QED
  BY <1>2, <1>3, Zenon

\* A mapping none of whose pages is in a frame is put in the list.
LEMMA FramesInserted ==
  ASSUME NEW list, IsList(list), NEW fs, FramesHeld(list, fs),
         NEW i \in 1 .. Len(list) + 1, NEW r \in Mapping, Backed(r),
         \A f \in Frames : Backs(r, f) = {}, NEW new, IsInsert(new, list, i, r)
  PROVE  FramesHeld(new, fs)
<1> DEFINE from(j) == IF j < i THEN j ELSE j - 1
           to(k) == IF k < i THEN k ELSE k + 1
<1>1. Len(list) \in Nat /\ DOMAIN list = 1 .. Len(list) /\ DOMAIN new = 1 .. Len(list) + 1
  BY DEF IsList, IsInsert
<1>2. /\ new[i] = r
      /\ \A j \in DOMAIN new \ {i} : from(j) \in DOMAIN list /\ new[j] = list[from(j)]
  BY <1>1 DEF IsInsert
<1>3. \A j, k \in DOMAIN new \ {i} : from(j) = from(k) => j = k
  BY <1>1
<1>4. \A k \in DOMAIN list : to(k) \in DOMAIN new /\ new[to(k)] = list[k]
  BY <1>1 DEF IsInsert
<1> HIDE DEF from, to
<1>5. /\ \A j \in DOMAIN list : list[j] \in Mapping /\ Backed(list[j])
      /\ fs \subseteq Frames
      /\ \A f \in fs : \A j \in DOMAIN list : Backs(list[j], f) = {}
      /\ \A f \in Frames : \A j, k \in DOMAIN list :
           \A x \in Backs(list[j], f), y \in Backs(list[k], f) : j = k /\ x = y
      /\ \A f \in Frames \ fs : \E j \in DOMAIN list : Backs(list[j], f) # {}
  BY Zenon DEF FramesHeld
<1>6. \A j \in DOMAIN new : new[j] \in Mapping /\ Backed(new[j])
  BY <1>2, <1>5, Zenon
<1>7. ASSUME NEW f \in fs, NEW j \in DOMAIN new PROVE Backs(new[j], f) = {}
  <2>1. f \in Frames
    BY <1>5, Zenon
  <2>2. CASE j = i
    BY <1>2, <2>1, <2>2, Zenon
  <2>3. CASE j # i
    BY <1>2, <1>5, <2>3, Zenon
  <2>4. QED
    BY <2>2, <2>3
<1>8. ASSUME NEW f \in Frames, NEW j \in DOMAIN new, NEW k \in DOMAIN new,
             NEW x \in Backs(new[j], f), NEW y \in Backs(new[k], f)
      PROVE  j = k /\ x = y
  <2>1. j # i /\ k # i
    BY <1>2, Zenon
  <2>2. /\ from(j) \in DOMAIN list /\ x \in Backs(list[from(j)], f)
        /\ from(k) \in DOMAIN list /\ y \in Backs(list[from(k)], f)
    BY <1>2, <2>1, Zenon
  <2>3. \A m, n \in DOMAIN list :
          \A u \in Backs(list[m], f), v \in Backs(list[n], f) : m = n /\ u = v
    BY <1>5, Zenon
  <2>4. from(j) = from(k) /\ x = y
    BY <2>2, <2>3, Zenon
  <2>5. QED
    BY <1>3, <2>1, <2>4, Zenon
<1>9. ASSUME NEW f \in Frames \ fs PROVE \E j \in DOMAIN new : Backs(new[j], f) # {}
  <2>1. PICK k \in DOMAIN list : Backs(list[k], f) # {}
    BY <1>5, Zenon
  <2>2. QED
    BY <1>4, <2>1, Zenon
<1>10. QED
  BY <1>5, <1>6, <1>7, <1>8, <1>9, Zenon DEF FramesHeld

\* A mapping is erased from the list, and its frames are returned.
LEMMA FramesRemoved ==
  ASSUME NEW list, IsList(list), NEW fs, FramesHeld(list, fs),
         NEW i \in DOMAIN list, NEW new, IsRemoval(new, list, i)
  PROVE  FramesHeld(new, fs \cup Returned(list[i]))
<1> DEFINE from(j) == IF j < i THEN j ELSE j + 1
           to(k) == IF k < i THEN k ELSE k - 1
           back == Returned(list[i])
<1>1. Len(list) \in Nat /\ DOMAIN list = 1 .. Len(list) /\ DOMAIN new = 1 .. Len(list) - 1
  BY DEF IsList, IsRemoval
<1>2. \A j \in DOMAIN new : from(j) \in DOMAIN list /\ from(j) # i /\ new[j] = list[from(j)]
  BY <1>1 DEF IsRemoval
<1>3. \A j, k \in DOMAIN new : from(j) = from(k) => j = k
  BY <1>1
<1>4. ASSUME NEW k \in DOMAIN list \ {i}
      PROVE  to(k) \in DOMAIN new /\ new[to(k)] = list[k]
  <2>1. CASE k < i
    BY <1>1, <2>1 DEF IsRemoval
  <2>2. CASE k > i
    <3>1. k - 1 \in i .. Len(list) - 1 /\ (k - 1) + 1 = k
      BY <1>1, <2>2
    <3>2. QED
      BY <1>1, <2>2, <3>1 DEF IsRemoval
  <2>3. QED
    BY <1>1, <2>1, <2>2
<1> HIDE DEF from, to
<1>5. /\ \A j \in DOMAIN list : list[j] \in Mapping /\ Backed(list[j])
      /\ fs \subseteq Frames
      /\ \A f \in fs : \A j \in DOMAIN list : Backs(list[j], f) = {}
      /\ \A f \in Frames : \A j, k \in DOMAIN list :
           \A x \in Backs(list[j], f), y \in Backs(list[k], f) : j = k /\ x = y
      /\ \A f \in Frames \ fs : \E j \in DOMAIN list : Backs(list[j], f) # {}
  BY Zenon DEF FramesHeld
<1>6. \A f : f \in back <=> f \in Frames /\ Backs(list[i], f) # {}
  BY <1>5, ReturnedFrames, Zenon
<1> HIDE DEF back
<1>7. \A j \in DOMAIN new : new[j] \in Mapping /\ Backed(new[j])
  BY <1>2, <1>5, Zenon
<1>8. fs \cup back \subseteq Frames
  BY <1>5, <1>6, Zenon
<1>9. ASSUME NEW f \in fs \cup back, NEW j \in DOMAIN new PROVE Backs(new[j], f) = {}
  <2>1. CASE f \in fs
    BY <1>2, <1>5, <2>1, Zenon
  <2>2. CASE f \in back
    <3>1. PICK k \in Backs(list[i], f) : TRUE
      BY <1>6, <2>2, Zenon
    <3>2. f \in Frames
      BY <1>6, <2>2, Zenon
    <3>3. ASSUME NEW x \in Backs(new[j], f) PROVE FALSE
      <4>1. from(j) \in DOMAIN list /\ from(j) # i /\ x \in Backs(list[from(j)], f)
        BY <1>2, Zenon
      <4>2. QED
        BY <1>5, <3>1, <3>2, <4>1, Zenon
    <3>4. QED
      BY <3>3, Zenon
  <2>3. QED
    BY <2>1, <2>2
<1>10. ASSUME NEW f \in Frames, NEW j \in DOMAIN new, NEW k \in DOMAIN new,
              NEW x \in Backs(new[j], f), NEW y \in Backs(new[k], f)
       PROVE  j = k /\ x = y
  <2>1. /\ from(j) \in DOMAIN list /\ x \in Backs(list[from(j)], f)
        /\ from(k) \in DOMAIN list /\ y \in Backs(list[from(k)], f)
    BY <1>2, Zenon
  <2>2. \A m, n \in DOMAIN list :
          \A u \in Backs(list[m], f), v \in Backs(list[n], f) : m = n /\ u = v
    BY <1>5, Zenon
  <2>3. from(j) = from(k) /\ x = y
    BY <2>1, <2>2, Zenon
  <2>4. QED
    BY <1>3, <2>3, Zenon
<1>11. ASSUME NEW f \in Frames \ (fs \cup back)
       PROVE  \E j \in DOMAIN new : Backs(new[j], f) # {}
  <2>1. PICK k \in DOMAIN list : Backs(list[k], f) # {}
    BY <1>5, Zenon
  <2>2. k # i
    BY <1>6, <2>1, Zenon
  <2>3. QED
    BY <1>4, <2>1, <2>2, Zenon
<1>12. QED
  BY <1>7, <1>8, <1>9, <1>10, <1>11, Zenon DEF FramesHeld, back

\* touch(): which pages the frames back afterwards.
LEMMA TouchedFrames ==
  ASSUME NEW r \in Mapping, Backed(r), free \subseteq Frames,
         \A f \in free : Backs(r, f) = {}, NEW t, IsTouched(t, r)
  PROVE  /\ t \in Mapping /\ Backed(t)
         /\ \A f : f \notin free => Backs(t, f) = Backs(r, f)
         /\ \A f \in free : \A k, m \in Backs(t, f) : k = m
<1>1. /\ t \in Mapping /\ t.size = r.size
      /\ \A k \in 1 .. r.size :
           \/ t.back[k] = r.back[k]
           \/ /\ ~r.back[k].exists /\ t.back[k].exists
              /\ t.back[k].allocated = r.back[k].allocated
              /\ t.back[k].ptr \in free
      /\ \A k, m \in 1 .. r.size :
           ~r.back[k].exists /\ ~r.back[m].exists /\ t.back[k].exists /\ t.back[m].exists
             /\ t.back[k].ptr = t.back[m].ptr => k = m
  BY Zenon DEF IsTouched
<1>2. ASSUME NEW k \in 1 .. r.size
      PROVE  IF t.back[k].exists THEN t.back[k].allocated <=> t.back[k].ptr \in Frames
                                 ELSE t.back[k].allocated
  <2>1. IF r.back[k].exists THEN r.back[k].allocated <=> r.back[k].ptr \in Frames
                            ELSE r.back[k].allocated
    BY Zenon DEF Backed
  <2>2. CASE t.back[k] = r.back[k]
    BY <2>1, <2>2
  <2>3. CASE t.back[k] # r.back[k]
    <3>1. /\ ~r.back[k].exists /\ t.back[k].exists
          /\ t.back[k].allocated = r.back[k].allocated /\ t.back[k].ptr \in free
      BY <1>1, <2>3, Zenon
    <3>2. QED
      BY <2>1, <3>1
  <2>4. QED
    BY <2>2, <2>3
<1>3. Backed(t)
  BY <1>1, <1>2, Zenon DEF Backed
<1>4. ASSUME NEW f, NEW k, f \notin free
      PROVE  k \in Backs(t, f) <=> k \in Backs(r, f)
  <2>1. CASE k \notin 1 .. r.size
    BY <1>1, <2>1, Zenon DEF Backs
  <2>2. CASE k \in 1 .. r.size /\ t.back[k] = r.back[k]
    BY <1>1, <2>2, Zenon DEF Backs
  <2>3. CASE k \in 1 .. r.size /\ ~r.back[k].exists /\ t.back[k].ptr \in free
    BY <1>1, <1>4, <2>3, Zenon DEF Backs
  <2>4. QED
    BY <1>1, <2>1, <2>2, <2>3, Zenon
<1>5. ASSUME NEW f \in free, NEW k \in Backs(t, f)
      PROVE  k \in 1 .. r.size /\ ~r.back[k].exists /\ t.back[k].exists /\ t.back[k].ptr = f
  <2>1. k \in 1 .. r.size /\ t.back[k].exists /\ t.back[k].ptr = f
    BY <1>1, Zenon DEF Backs
  <2>2. ASSUME t.back[k] = r.back[k] PROVE FALSE
    <3>1. k \in Backs(r, f)
      BY <2>1, <2>2, Zenon DEF Backs
    <3>2. QED
      BY <3>1, Zenon
  <2>3. QED
    BY <1>1, <2>1, <2>2, Zenon
<1>6. ASSUME NEW f \in free, NEW k \in Backs(t, f), NEW m \in Backs(t, f) PROVE k = m
  <2>1. /\ k \in 1 .. r.size /\ ~r.back[k].exists /\ t.back[k].exists
        /\ m \in 1 .. r.size /\ ~r.back[m].exists /\ t.back[m].exists
        /\ t.back[k].ptr = t.back[m].ptr
    BY <1>5, Zenon
  <2>2. QED
    BY <1>1, <2>1, Zenon
<1>7. ASSUME NEW f, f \notin free PROVE Backs(t, f) = Backs(r, f)
  <2>1. \A k : k \in Backs(t, f) <=> k \in Backs(r, f)
    BY <1>4, <1>7
  <2>2. QED
    BY <2>1, Zenon
<1>8. QED
  BY <1>1, <1>3, <1>6, <1>7, Zenon

\* The frames that touch() hands out are no longer free.
LEMMA FramesTouched ==
  ASSUME NEW list, IsList(list), FramesHeld(list, free),
         NEW i \in DOMAIN list, NEW t, IsTouched(t, list[i]),
         NEW new, IsReplacement(new, list, i, t)
  PROVE  FramesHeld(new, free \ Returned(t))
<1> DEFINE r == list[i]
           took == Returned(t)
<1>1. /\ \A j \in DOMAIN list : list[j] \in Mapping /\ Backed(list[j])
      /\ free \subseteq Frames
      /\ \A f \in free : \A j \in DOMAIN list : Backs(list[j], f) = {}
      /\ \A f \in Frames : \A j, k \in DOMAIN list :
           \A x \in Backs(list[j], f), y \in Backs(list[k], f) : j = k /\ x = y
      /\ \A f \in Frames \ free : \E j \in DOMAIN list : Backs(list[j], f) # {}
  BY Zenon DEF FramesHeld
<1>2. /\ DOMAIN new = DOMAIN list /\ new[i] = t
      /\ \A j \in DOMAIN list \ {i} : new[j] = list[j]
  BY Zenon DEF IsReplacement
<1>3. r \in Mapping /\ Backed(r) /\ \A f \in free : Backs(r, f) = {}
  BY <1>1, Zenon
<1> HIDE DEF r
<1>4. /\ t \in Mapping /\ Backed(t)
      /\ \A f : f \notin free => Backs(t, f) = Backs(r, f)
      /\ \A f \in free : \A k, m \in Backs(t, f) : k = m
  BY <1>1, <1>3, TouchedFrames, Zenon DEF r
<1>5. \A f : f \in took <=> f \in Frames /\ Backs(t, f) # {}
  BY <1>4, ReturnedFrames, Zenon
<1> HIDE DEF took
<1>6. \A j \in DOMAIN new : new[j] \in Mapping /\ Backed(new[j])
  BY <1>1, <1>2, <1>4, Zenon
<1>7. ASSUME NEW f \in free \ took, NEW j \in DOMAIN new PROVE Backs(new[j], f) = {}
  <2>1. CASE j = i
    BY <1>1, <1>2, <1>5, <2>1, Zenon
  <2>2. CASE j # i
    BY <1>1, <1>2, <2>2, Zenon
  <2>3. QED
    BY <2>1, <2>2
<1>8. ASSUME NEW f \in Frames, NEW j \in DOMAIN new, NEW k \in DOMAIN new,
             NEW x \in Backs(new[j], f), NEW y \in Backs(new[k], f)
      PROVE  j = k /\ x = y
  <2>1. CASE f \in free
    <3>1. j = i /\ k = i
      BY <1>1, <1>2, <2>1, Zenon
    <3>2. QED
      BY <1>2, <1>4, <2>1, <3>1, Zenon
  <2>2. CASE f \notin free
    <3>1. \A m \in DOMAIN new : Backs(new[m], f) = Backs(list[m], f)
      BY <1>2, <1>4, <2>2, Zenon DEF r
    <3>2. \A m, n \in DOMAIN list :
            \A u \in Backs(list[m], f), v \in Backs(list[n], f) : m = n /\ u = v
      BY <1>1, Zenon
    <3>3. x \in Backs(list[j], f) /\ y \in Backs(list[k], f)
      BY <3>1, Zenon
    <3>4. j \in DOMAIN list /\ k \in DOMAIN list
      BY <1>2, Zenon
    <3>5. QED
      BY <3>2, <3>3, <3>4, Zenon
  <2>3. QED
    BY <2>1, <2>2
<1>9. ASSUME NEW f \in Frames \ (free \ took)
      PROVE  \E j \in DOMAIN new : Backs(new[j], f) # {}
  <2>1. CASE f \in took
    BY <1>2, <1>5, <2>1, Zenon
  <2>2. CASE f \notin free
    <3>1. PICK j \in DOMAIN list : Backs(list[j], f) # {}
      BY <1>1, <2>2, Zenon
    <3>2. Backs(new[j], f) = Backs(list[j], f)
      BY <1>2, <1>4, <2>2, Zenon DEF r
    <3>3. QED
      BY <1>2, <3>1, <3>2, Zenon
  <2>3. QED
    BY <2>1, <2>2, Zenon
<1>10. free \ took \subseteq Frames
  BY <1>1, Zenon
<1>11. QED
  BY <1>6, <1>7, <1>8, <1>9, <1>10, Zenon DEF FramesHeld, took

-----------------------------------------------------------------------------
\* Mappings and page tables

\* Of a set of mappings and the page tables.
TablesInv(M, table) ==
  /\ \A r \in M : IsRange(r) /\ Entered(r, table)
  /\ \A r, s \in M : r # s => PagesOf(r) \cap PagesOf(s) = {}
  /\ \A v \in DOMAIN table : \E r \in M : v \in PagesOf(r)

Exist(r) == {v \in PagesOf(r) : At(r, v).exists}

LEMMA MappedTable ==
  ASSUME NEW r, NEW new, new = Mapped(r)
  PROVE  /\ DOMAIN new = DOMAIN pt \cup Exist(r)
         /\ \A v \in Exist(r) : new[v] = At(r, v).ptr
         /\ \A v \in DOMAIN pt \ Exist(r) : new[v] = pt[v]
<1>1. new = [v \in DOMAIN pt \cup Exist(r) |->
               IF v \in Exist(r) THEN At(r, v).ptr ELSE pt[v]]
  BY Zenon DEF Mapped, Exist, At
<1>2. QED
  BY <1>1

LEMMA UnmappedTable ==
  ASSUME NEW r, NEW new, new = Unmapped(r)
  PROVE  /\ DOMAIN new = DOMAIN pt \ Exist(r)
         /\ \A v \in DOMAIN pt \ Exist(r) : new[v] = pt[v]
<1>1. new = [v \in DOMAIN pt \ Exist(r) |-> pt[v]]
  BY Zenon DEF Unmapped, Exist, At
<1>2. QED
  BY <1>1

\* map_region of a new mapping.
LEMMA AddMapping ==
  ASSUME NEW M, TablesInv(M, pt), NEW r, IsRange(r),
         \A s \in M : PagesOf(s) \cap PagesOf(r) = {},
         NEW new, new = Mapped(r)
  PROVE  TablesInv(M \cup {r}, new)
<1>1. /\ DOMAIN new = DOMAIN pt \cup Exist(r)
      /\ \A v \in Exist(r) : new[v] = At(r, v).ptr
      /\ \A v \in DOMAIN pt \ Exist(r) : new[v] = pt[v]
  BY MappedTable, Zenon
<1>2. /\ \A s \in M : IsRange(s) /\ Entered(s, pt)
      /\ \A s, u \in M : s # u => PagesOf(s) \cap PagesOf(u) = {}
      /\ \A v \in DOMAIN pt : \E s \in M : v \in PagesOf(s)
  BY DEF TablesInv
<1>3. Exist(r) \subseteq PagesOf(r)
  BY DEF Exist
<1>4. \A v \in DOMAIN pt : v \notin PagesOf(r)
  BY <1>2
<1>5. \A v \in DOMAIN pt : new[v] = pt[v]
  BY <1>1, <1>3, <1>4
<1>6. ASSUME NEW s \in M PROVE Entered(s, new)
  <2>1. Entered(s, pt) /\ PagesOf(s) \cap PagesOf(r) = {}
    BY <1>2
  <2>2. \A v \in PagesOf(s) : v \in DOMAIN new <=> v \in DOMAIN pt
    BY <1>1, <1>3, <2>1
  <2>3. QED
    BY <1>5, <2>1, <2>2 DEF Entered
<1>7. Entered(r, new)
  <2>1. ASSUME NEW v \in PagesOf(r)
        PROVE  v \in DOMAIN new <=> At(r, v).exists
    BY <1>1, <1>4 DEF Exist
  <2>2. QED
    BY <1>1, <2>1 DEF Entered, Exist
<1>8. \A v \in DOMAIN new : \E s \in M \cup {r} : v \in PagesOf(s)
  BY <1>1, <1>2, <1>3
<1>9. \A s, u \in M \cup {r} : s # u => PagesOf(s) \cap PagesOf(u) = {}
  BY <1>2, Zenon
<1>10. QED
  BY <1>2, <1>6, <1>7, <1>8, <1>9 DEF TablesInv

\* unmap_region of a mapping.
LEMMA RemoveMapping ==
  ASSUME NEW M, TablesInv(M, pt), NEW r \in M,
         NEW new, new = Unmapped(r)
  PROVE  TablesInv(M \ {r}, new)
<1>1. /\ DOMAIN new = DOMAIN pt \ Exist(r)
      /\ \A v \in DOMAIN new : new[v] = pt[v]
  BY UnmappedTable, Zenon
<1>2. /\ \A s \in M : IsRange(s) /\ Entered(s, pt)
      /\ \A s, u \in M : s # u => PagesOf(s) \cap PagesOf(u) = {}
      /\ \A v \in DOMAIN pt : \E s \in M : v \in PagesOf(s)
  BY DEF TablesInv
<1>3. Exist(r) \subseteq PagesOf(r)
  BY DEF Exist
<1>4. \A v \in PagesOf(r) : v \in DOMAIN pt => v \in Exist(r)
  BY <1>2 DEF Entered, Exist
<1>5. ASSUME NEW s \in M \ {r} PROVE Entered(s, new)
  <2>1. Entered(s, pt) /\ PagesOf(s) \cap PagesOf(r) = {}
    BY <1>2
  <2>2. \A v \in PagesOf(s) : v \in DOMAIN new <=> v \in DOMAIN pt
    BY <1>1, <1>3, <2>1
  <2>3. QED
    BY <1>1, <2>1, <2>2 DEF Entered
<1>6. \A v \in DOMAIN new : \E s \in M \ {r} : v \in PagesOf(s)
  BY <1>1, <1>2, <1>4
<1>7. QED
  BY <1>2, <1>5, <1>6 DEF TablesInv

\* touch(): its new pages are entered.
LEMMA TouchMapping ==
  ASSUME NEW M, TablesInv(M, pt), NEW r \in M, NEW t, IsTouched(t, r),
         NEW new, new = Mapped(t)
  PROVE  TablesInv((M \ {r}) \cup {t}, new)
<1>1. /\ DOMAIN new = DOMAIN pt \cup Exist(t)
      /\ \A v \in Exist(t) : new[v] = At(t, v).ptr
      /\ \A v \in DOMAIN pt \ Exist(t) : new[v] = pt[v]
  BY MappedTable, Zenon
<1>2. /\ \A s \in M : IsRange(s) /\ Entered(s, pt)
      /\ \A s, u \in M : s # u => PagesOf(s) \cap PagesOf(u) = {}
      /\ \A v \in DOMAIN pt : \E s \in M : v \in PagesOf(s)
  BY DEF TablesInv
<1>3. /\ t.base = r.base /\ t.size = r.size /\ First(t) = First(r)
      /\ PagesOf(t) = PagesOf(r) /\ IsRange(r) /\ IsRange(t)
  <2>1. t.base = r.base /\ t.size = r.size
    BY Zenon DEF IsTouched
  <2>2. QED
    BY <1>2, <2>1, SameRange, Zenon
<1>4. ASSUME NEW v \in PagesOf(r), At(r, v).exists
      PROVE  At(t, v) = At(r, v)
  <2>1. v - First(r) + 1 \in 1 .. r.size
    BY <1>3, PageInRange
  <2>2. QED
    BY <1>3, <1>4, <2>1, Zenon DEF IsTouched, At
\* The pages of r that existed are entered as they were.
<1>5. \A v \in DOMAIN pt : new[v] = pt[v] /\ v \in DOMAIN new
  <2>1. ASSUME NEW v \in DOMAIN pt, v \in Exist(t) PROVE new[v] = pt[v]
    <3>1. v \in PagesOf(r) /\ At(t, v).exists
      BY <1>3, <2>1 DEF Exist
    <3>2. At(r, v).exists /\ pt[v] = At(r, v).ptr
      BY <1>2, <2>1, <3>1 DEF Entered
    <3>3. At(t, v) = At(r, v)
      BY <1>4, <3>1, <3>2
    <3>4. QED
      BY <1>1, <2>1, <3>2, <3>3, Zenon
  <2>2. QED
    BY <1>1, <2>1
<1>6. Entered(t, new)
  <2>1. ASSUME NEW v \in PagesOf(t), ~At(t, v).exists PROVE v \notin DOMAIN new
    <3>1. v \in PagesOf(r) /\ ~At(r, v).exists
      BY <1>3, <1>4, <2>1
    <3>2. v \notin DOMAIN pt
      BY <1>2, <3>1 DEF Entered
    <3>3. QED
      BY <1>1, <2>1, <3>2 DEF Exist
  <2>2. QED
    BY <1>1, <2>1 DEF Entered, Exist
<1>7. ASSUME NEW s \in M \ {r} PROVE Entered(s, new) /\ PagesOf(s) \cap PagesOf(t) = {}
  <2>1. Entered(s, pt) /\ PagesOf(s) \cap PagesOf(t) = {}
    BY <1>2, <1>3
  <2>2. \A v \in PagesOf(s) : v \in DOMAIN new <=> v \in DOMAIN pt
    BY <1>1, <2>1 DEF Exist
  <2>3. QED
    BY <1>5, <2>1, <2>2 DEF Entered
<1>8. \A v \in DOMAIN new : \E s \in (M \ {r}) \cup {t} : v \in PagesOf(s)
  <2>1. \A v \in Exist(t) : v \in PagesOf(t)
    BY DEF Exist
  <2>2. QED
    BY <1>1, <1>2, <1>3, <2>1, Zenon
<1>9. \A s, u \in (M \ {r}) \cup {t} : s # u => PagesOf(s) \cap PagesOf(u) = {}
  BY <1>2, <1>7
<1>10. QED
  BY <1>2, <1>3, <1>6, <1>7, <1>8, <1>9 DEF TablesInv

-----------------------------------------------------------------------------
\* The invariant

FramesInv ==
  /\ holes \in Seq(AnyHole) /\ maps \in Seq(Mapping)
  /\ alive \in BOOLEAN /\ unaligned \in BOOLEAN
  /\ FramesHeld(maps, free)
  /\ CopyHitsBacking

LayoutInv ==
  /\ HoleList(holes) /\ MapList(maps)
  /\ Cover(holes) \cap Cover(maps) = {}
  /\ Cover(holes) \cup Cover(maps) = IF alive THEN UserPages ELSE {}
  /\ TablesInv(Elems(maps), pt)

SpaceInv == FramesInv /\ (~unaligned => LayoutInv)

-----------------------------------------------------------------------------
\* Steps

\* What allocate() and map_to() make of the backing pages of a new mapping.
NewBack(back, size) ==
  /\ back \in [1 .. size -> Backing]
  /\ \A k \in 1 .. size :
       IF back[k].exists THEN ~back[k].allocated /\ back[k].ptr \notin Frames
                         ELSE back[k].allocated

LEMMA NewBacks ==
  ASSUME NEW size \in Nat \ {0}
  PROVE  NewBack(Overcommitted(size), size) /\ NewBack(MappedTo(size), size)
<1>1. NewBack(Overcommitted(size), size)
  BY DEF NewBack, Overcommitted, Backing
<1>2. \A k \in 1 .. size : Device + k - 1 \in Nat /\ Device + k - 1 \notin Frames
  BY FramesAssumption
<1>3. NewBack(MappedTo(size), size)
  BY <1>2 DEF NewBack, MappedTo, Backing
<1>4. QED
  BY <1>1, <1>3

\* A new mapping is put in the list: no frame is handed out.
LEMMA BoundFrames ==
  ASSUME FramesInv, NEW base \in Int, NEW size \in Nat \ {0},
         NEW back, NewBack(back, size),
         NEW r, r = [base |-> base, size |-> size, back |-> back],
         holes' \in Seq(AnyHole), maps' = PutMapping(maps, r),
         unaligned' \in BOOLEAN, UNCHANGED <<free, zeroHits, alive>>
  PROVE  FramesInv'
<1>1. /\ maps \in Seq(Mapping) /\ alive \in BOOLEAN /\ FramesHeld(maps, free)
      /\ CopyHitsBacking
  BY DEF FramesInv
<1>2. /\ back \in [1 .. size -> Backing]
      /\ \A k \in 1 .. size :
           IF back[k].exists THEN ~back[k].allocated /\ back[k].ptr \notin Frames
                             ELSE back[k].allocated
  BY Zenon DEF NewBack
<1>3. r \in Mapping
  BY <1>2, MappingMade, Zenon
<1>4. r.size = size /\ r.back = back
  OBVIOUS
<1>5. Backed(r)
  BY <1>2, <1>4, Zenon DEF Backed
<1>6. \A f \in Frames : Backs(r, f) = {}
  BY <1>2, <1>4, Zenon DEF Backs
<1> DEFINE i == PutAt(maps, r)
<1>7. maps' \in Seq(Mapping) /\ i \in 1 .. Len(maps) + 1 /\ IsInsert(maps', maps, i, r)
  BY <1>1, <1>3, PutMappingAt, Zenon
<1> HIDE DEF i
<1>8. IsList(maps)
  BY <1>1, SeqIsList, Zenon
<1>9. FramesHeld(maps', free)
  BY <1>1, <1>3, <1>5, <1>6, <1>7, <1>8, FramesInserted, Zenon
<1>10. free' = free /\ zeroHits' = zeroHits /\ alive' = alive
  OBVIOUS
<1>11. FramesHeld(maps', free') /\ CopyHitsBacking' /\ alive' \in BOOLEAN
  BY <1>1, <1>9, <1>10 DEF CopyHitsBacking
<1>12. QED
  BY <1>7, <1>11 DEF FramesInv

\* ... on pages that holes had covered, and map_region.
LEMMA BoundLayout ==
  ASSUME LayoutInv, maps \in Seq(Mapping), NEW r \in Mapping, IsRange(r),
         PagesOf(r) \subseteq Cover(holes),
         HoleList(holes'), Cover(holes') = Cover(holes) \ PagesOf(r),
         maps' = PutMapping(maps, r), pt' = Mapped(r), alive' = alive
  PROVE  LayoutInv'
<1>1. /\ MapList(maps) /\ Cover(holes) \cap Cover(maps) = {}
      /\ Cover(holes) \cup Cover(maps) = IF alive THEN UserPages ELSE {}
      /\ TablesInv(Elems(maps), pt)
  BY DEF LayoutInv
<1>2. PagesOf(r) \cap Cover(maps) = {}
  BY <1>1
<1>3. /\ MapList(maps') /\ Elems(maps') = Elems(maps) \cup {r}
      /\ Cover(maps') = Cover(maps) \cup PagesOf(r)
  BY <1>1, <1>2, PutMappingSorted, Zenon
<1>4. \A s \in Elems(maps) : PagesOf(s) \cap PagesOf(r) = {}
  BY <1>2, CoverOfElems, Zenon
<1>5. TablesInv(Elems(maps) \cup {r}, pt')
  BY <1>1, <1>4, AddMapping, Zenon
<1>6. TablesInv(Elems(maps'), pt')
  BY <1>3, <1>5, Zenon
<1>7. Cover(holes') \cap Cover(maps') = {} /\ Cover(holes') \cup Cover(maps') =
        Cover(holes) \cup Cover(maps)
  BY <1>1, <1>3
<1>8. QED
  BY <1>1, <1>3, <1>6, <1>7 DEF LayoutInv, UserPages

LEMMA BindHoleStep ==
  ASSUME SpaceInv, NEW size \in Nat \ {0}, NEW back, NewBack(back, size),
         BindHole(size, back)
  PROVE  SpaceInv'
<1>1. PICK i \in FreeHole(size) :
        LET r == [base |-> End(holes[i]) - size * PageSize, size |-> size, back |-> back]
        IN  /\ holes' = TakeTop(i, size)
            /\ maps' = PutMapping(maps, r)
            /\ pt' = Mapped(r)
  BY DEF BindHole
<1> DEFINE base == End(holes[i]) - size * PageSize
           r == [base |-> base, size |-> size, back |-> back]
<1>2. i \in DOMAIN holes /\ size <= holes[i].size
  BY DEF FreeHole
<1>3. holes' = TakeTop(i, size) /\ maps' = PutMapping(maps, r) /\ pt' = Mapped(r)
  BY <1>1, Zenon
<1>4. UNCHANGED <<free, zeroHits, unaligned, alive>>
  BY DEF BindHole
<1>5. FramesInv /\ unaligned \in BOOLEAN /\ holes \in Seq(AnyHole) /\ maps \in Seq(Mapping)
  BY DEF SpaceInv, FramesInv
<1>6. holes[i] \in AnyHole
  BY <1>2, <1>5, SeqLen, SeqElement
<1>7. holes[i].base \in Int /\ holes[i].size \in Int /\ End(holes[i]) \in Int
  BY <1>6, AnyEnd DEF AnyHole
<1>8. size * PageSize \in Int
  BY SizesAssumption
<1>9. base \in Int
  BY <1>7, <1>8
<1>10. holes' \in Seq(AnyHole)
  BY <1>2, <1>3, <1>5, TakeTopAny
<1>11. FramesInv'
  <2> HIDE DEF base
  <2>1. unaligned' \in BOOLEAN /\ UNCHANGED <<free, zeroHits, alive>>
    BY <1>4, <1>5
  <2>2. QED
    BY <1>3, <1>5, <1>9, <1>10, <2>1, BoundFrames, Zenon
<1>12. ASSUME ~unaligned' PROVE LayoutInv'
  <2>1. LayoutInv /\ HoleList(holes) /\ alive' = alive
    BY <1>4, <1>12 DEF SpaceInv, LayoutInv
  <2>2. holes[i] \in Hole
    BY <1>2, <2>1, SeqLen DEF HoleList
  <2>3. /\ IsRange(holes[i]) /\ First(holes[i]) \in Nat \ {0} /\ Past(holes[i]) \in Nat
        /\ End(holes[i]) = Past(holes[i]) * PageSize
    BY <2>2, HoleIsRange, RangeEnd
  <2> DEFINE p == Past(holes[i]) - size
  <2>4. p \in Nat \ {0} /\ First(holes[i]) <= p /\ p <= Past(holes[i])
    BY <1>2, <1>7, <2>3 DEF Past
  <2>5. base = p * PageSize
    <3> DEFINE q == Past(holes[i])
               d == PageSize
    <3>1. d \in Int /\ q \in Int /\ size \in Int
      BY <2>3, SizesAssumption
    <3> HIDE DEF q, d
    <3>2. q * d - size * d = (q - size) * d
      BY <3>1
    <3>3. QED
      BY <2>3, <3>2 DEF q, d
  <2>6. r.base = p * PageSize /\ r.size = size
    BY <2>5
  <2>7. r \in Mapping
    <3> HIDE DEF base
    <3>1. QED
      BY <1>9, MappingMade, Zenon DEF NewBack
  <2> HIDE DEF r
  <2>8. IsRange(r) /\ First(r) = p
    BY <2>4, <2>6, RangeAt
  <2>9. PagesOf(r) = p .. Past(holes[i]) - 1
    <3>1. Past(r) = Past(holes[i])
      BY <2>3, <2>6, <2>8 DEF Past
    <3>2. QED
      BY <2>8, <3>1, RangePages
  <2>10. /\ HoleList(holes') /\ Cover(holes') = Cover(holes) \ PagesOf(r)
    BY <1>2, <1>3, <2>1, <2>9, TakeTopCovers, Zenon
  <2>11. PagesOf(r) \subseteq PagesOf(holes[i])
    <3> HIDE DEF p
    <3>1. PagesOf(holes[i]) = First(holes[i]) .. Past(holes[i]) - 1
      BY <2>3, RangePages, Zenon
    <3>2. QED
      BY <2>3, <2>4, <2>9, <3>1
  <2>12. PagesOf(r) \subseteq Cover(holes)
    BY <1>2, <2>11, InCover, Zenon
  <2>13. maps' = PutMapping(maps, r) /\ pt' = Mapped(r)
    BY <1>3 DEF r
  <2>14. QED
    BY <1>5, <2>1, <2>7, <2>8, <2>10, <2>12, <2>13, BoundLayout, Zenon
<1>13. QED
  BY <1>11, <1>12, Zenon DEF SpaceInv

LEMMA BindExactStep ==
  ASSUME SpaceInv, NEW base \in Nat \ {0}, NEW size \in Nat \ {0},
         NEW back, NewBack(back, size), BindExact(base, size, back)
  PROVE  SpaceInv'
<1> DEFINE list == MergeHoles(holes)
           r    == [base |-> base, size |-> size, back |-> back]
           fit  == {i \in DOMAIN list : list[i].base <= base /\ End(r) <= End(list[i])}
<1>1. FramesInv /\ unaligned \in BOOLEAN /\ holes \in Seq(AnyHole) /\ maps \in Seq(Mapping)
  BY DEF SpaceInv, FramesInv
<1>2. UNCHANGED <<free, zeroHits, alive>>
  BY DEF BindExact
<1>3. list \in Seq(AnyHole)
  BY <1>1, MergedAny
<1>4. ASSUME ~unaligned PROVE LayoutInv /\ HoleList(list) /\ Cover(list) = Cover(holes)
  BY <1>4, MergedHoles DEF SpaceInv, LayoutInv
<1>5. r \in Mapping /\ r.base = base /\ r.size = size
  BY MappingMade DEF NewBack
<1>6. CASE fit = {}
  <2>1. holes' = list /\ UNCHANGED <<maps, pt, unaligned>>
    BY <1>6 DEF BindExact
  <2> HIDE DEF list
  <2>2. FramesInv'
    BY <1>1, <1>2, <1>3, <2>1 DEF FramesInv, CopyHitsBacking
  <2>3. ASSUME ~unaligned' PROVE LayoutInv'
    BY <1>2, <1>4, <2>1, <2>3 DEF LayoutInv, UserPages
  <2>4. QED
    BY <2>2, <2>3, Zenon DEF SpaceInv
<1>7. CASE fit # {}
  <2>1. /\ holes' = Cut(list, Min(fit), r)
        /\ maps' = PutMapping(maps, r) /\ pt' = Mapped(r)
        /\ unaligned' = (unaligned \/ base % PageSize # 0)
    BY <1>7 DEF BindExact
  <2> HIDE DEF list, r
  <2>2. Min(fit) \in fit
    <3>1. fit \in SUBSET Nat
      BY <1>3, SeqLen
    <3> HIDE DEF fit
    <3>2. QED
      BY <1>7, <3>1, MinOfNats
  <2> DEFINE i == Min(fit)
  <2>3. i \in DOMAIN list /\ list[i].base <= r.base /\ End(r) <= End(list[i])
    BY <1>5, <2>2
  <2> HIDE DEF fit
  <2>4. holes' = Cut(list, i, r)
    BY <2>1
  <2> HIDE DEF i
  <2>5. holes' \in Seq(AnyHole)
    BY <1>3, <1>5, <2>3, <2>4, CutAny
  <2>6. unaligned' \in BOOLEAN
    BY <1>1, <2>1
  <2>7. FramesInv'
    BY <1>1, <1>2, <2>1, <2>5, <2>6, BoundFrames DEF r
  <2>8. ASSUME ~unaligned' PROVE LayoutInv'
    <3>1. ~unaligned /\ base % PageSize = 0
      BY <2>1, <2>8, Zenon
    <3>2. LayoutInv /\ HoleList(list) /\ Cover(list) = Cover(holes)
      BY <1>4, <3>1
    <3>3. IsRange(r)
      BY <1>5, <3>1, AlignedRange
    <3>4. HoleList(holes') /\ Cover(holes') = Cover(list) \ PagesOf(r)
      BY <2>3, <2>4, <3>2, <3>3, CutCovers
    <3>5. PagesOf(r) \subseteq PagesOf(list[i])
      <4>1. IsRange(list[i])
        BY <2>3, <3>2 DEF HoleList, Spread
      <4>2. First(list[i]) <= First(r) /\ Past(r) <= Past(list[i])
        BY <2>3, <3>3, <4>1, RangeOrder
      <4>3. /\ First(list[i]) \in Nat /\ First(r) \in Nat
            /\ Past(list[i]) \in Nat /\ Past(r) \in Nat
        BY <3>3, <4>1, RangeEnd
      <4>4. /\ PagesOf(r) = First(r) .. Past(r) - 1
            /\ PagesOf(list[i]) = First(list[i]) .. Past(list[i]) - 1
        BY <3>3, <4>1, RangePages, Zenon
      <4>5. QED
        BY <4>2, <4>3, <4>4
    <3>6. PagesOf(r) \subseteq Cover(holes)
      BY <2>3, <3>2, <3>5, InCover, Zenon
    <3>7. Cover(holes') = Cover(holes) \ PagesOf(r)
      BY <3>2, <3>4
    <3>8. QED
      BY <1>1, <1>2, <1>5, <2>1, <3>2, <3>3, <3>4, <3>6, <3>7, BoundLayout
  <2>9. QED
    BY <2>7, <2>8, Zenon DEF SpaceInv
<1>8. QED
  BY <1>6, <1>7

\* region_for_address names a mapping around the address.
LEMMA RegionAround ==
  ASSUME maps \in Seq(Mapping), NEW a, Regions(a) # {}
  PROVE  /\ Region(a) \in DOMAIN maps
         /\ maps[Region(a)].base <= a /\ a <= End(maps[Region(a)])
         /\ maps[Region(a)] \in Mapping /\ maps[Region(a)] \in Elems(maps)
<1>1. DOMAIN maps = 1 .. Len(maps) /\ Len(maps) \in Nat
  BY SeqLen
<1>2. Regions(a) \in SUBSET Nat
  BY <1>1 DEF Regions
<1>3. Region(a) \in Regions(a)
  BY <1>2, MinOfNats DEF Region
<1>4. /\ Region(a) \in DOMAIN maps
      /\ maps[Region(a)].base <= a /\ a <= End(maps[Region(a)])
  BY <1>3, Zenon DEF Regions
<1>5. maps[Region(a)] \in Mapping
  BY <1>1, <1>4, SeqElement
<1>6. maps[Region(a)] \in Elems(maps)
  BY <1>4, InElems, Zenon
<1>7. QED
  BY <1>4, <1>5, <1>6

LEMMA DestroyStep ==
  ASSUME SpaceInv, NEW a, Destroy(a)
  PROVE  SpaceInv'
<1> DEFINE i == Region(a)
           r == maps[i]
           h == [base |-> r.base, size |-> r.size]
<1>1. /\ holes \in Seq(AnyHole) /\ maps \in Seq(Mapping) /\ alive \in BOOLEAN
      /\ unaligned \in BOOLEAN /\ FramesHeld(maps, free) /\ CopyHitsBacking
  BY DEF SpaceInv, FramesInv
<1>2. /\ Regions(a) # {} /\ pt' = Unmapped(r) /\ holes' = MergeHoles(PutHole(holes, h))
      /\ free' = free \cup Returned(r) /\ maps' = RemoveAt(maps, i)
      /\ zeroHits' = zeroHits /\ alive' = alive /\ unaligned' = unaligned
  BY DEF Destroy, Unbound
<1>3. i \in DOMAIN maps /\ r \in Mapping /\ r \in Elems(maps)
  BY <1>1, <1>2, RegionAround, Zenon
<1> HIDE DEF i
<1>4. h \in AnyHole /\ h.base = r.base /\ h.size = r.size
  BY <1>3, MappingType DEF AnyHole
<1> HIDE DEF h
<1>5. FramesInv'
  <2>1. holes' \in Seq(AnyHole)
    <3>1. PutHole(holes, h) \in Seq(AnyHole)
      BY <1>1, <1>4, PutHoleAny, Zenon
    <3>2. QED
      BY <1>2, <3>1, MergedAny
  <2>2. IsList(maps)
    BY <1>1, SeqIsList, Zenon
  <2>3. IsRemoval(maps', maps, i)
    BY <1>2, <1>3, <2>2, RemovedList, Zenon
  <2>4. FramesHeld(maps', free')
    BY <1>1, <1>2, <1>3, <2>2, <2>3, FramesRemoved, Zenon
  <2>5. maps' \in Seq(Mapping)
    BY <1>1, <1>2, <1>3, SeqRemove, Zenon
  <2>6. QED
    BY <1>1, <1>2, <2>1, <2>4, <2>5, Zenon DEF FramesInv, CopyHitsBacking
<1>6. ASSUME ~unaligned' PROVE LayoutInv'
  <2>1. /\ HoleList(holes) /\ MapList(maps)
        /\ Cover(holes) \cap Cover(maps) = {}
        /\ Cover(holes) \cup Cover(maps) = IF alive THEN UserPages ELSE {}
        /\ TablesInv(Elems(maps), pt)
    BY <1>2, <1>6 DEF SpaceInv, LayoutInv
  <2>2. IsRange(h) /\ PagesOf(h) = PagesOf(r)
    <3>1. IsRange(r)
      BY <1>3, <2>1, MapListType, Zenon
    <3>2. QED
      BY <1>4, <3>1, SameRange, Zenon
  <2>3. h \in Hole
    BY <1>4, <2>2, Zenon DEF Hole
  <2>4. /\ MapList(maps') /\ Elems(maps') = Elems(maps) \ {r}
        /\ Cover(maps') = Cover(maps) \ PagesOf(r)
    BY <1>2, <1>3, <2>1, RemovedMapping, Zenon
  <2>5. PagesOf(r) \subseteq Cover(maps)
    BY <1>3, InCover, Zenon
  <2> HIDE DEF r
  <2>6. PagesOf(h) \cap Cover(holes) = {}
    BY <2>1, <2>2, <2>5
  <2>7. /\ HoleList(PutHole(holes, h))
        /\ Cover(PutHole(holes, h)) = Cover(holes) \cup PagesOf(r)
    BY <2>1, <2>2, <2>3, <2>6, PutHoleCovers
  <2>8. HoleList(holes') /\ Cover(holes') = Cover(holes) \cup PagesOf(r)
    BY <1>2, <2>7, MergedHoles
  <2>9. TablesInv(Elems(maps) \ {r}, pt')
    BY <1>2, <1>3, <2>1, RemoveMapping
  <2>10. TablesInv(Elems(maps'), pt')
    BY <2>4, <2>9, Zenon
  <2>11. /\ Cover(holes') \cap Cover(maps') = {}
         /\ Cover(holes') \cup Cover(maps') = Cover(holes) \cup Cover(maps)
    BY <2>1, <2>4, <2>5, <2>8
  <2>12. QED
    BY <1>2, <2>1, <2>4, <2>8, <2>10, <2>11, Zenon DEF LayoutInv, UserPages
<1>7. QED
  BY <1>5, <1>6, Zenon DEF SpaceInv

\* Pages of one mapping touched: fault_hit, touch, touch_all, load, store.
LEMMA CommitStep ==
  ASSUME SpaceInv, NEW i \in DOMAIN maps, NEW idx \in SUBSET (1 .. maps[i].size),
         Commit(i, Touched(maps[i], idx)), UNCHANGED <<holes, alive, unaligned>>,
         CopyHitsBacking'
  PROVE  SpaceInv'
<1> DEFINE r == maps[i]
           t == Touched(r, idx)
<1>1. /\ holes \in Seq(AnyHole) /\ maps \in Seq(Mapping) /\ alive \in BOOLEAN
      /\ unaligned \in BOOLEAN /\ FramesHeld(maps, free)
      /\ holes' = holes /\ alive' = alive /\ unaligned' = unaligned
  BY DEF SpaceInv, FramesInv
<1>2. r \in Mapping /\ r \in Elems(maps)
  BY <1>1, InElems, Zenon DEF FramesHeld
<1>3. free \subseteq Frames
  BY <1>1 DEF FramesHeld
<1>4. /\ maps' = With(maps, i, t) /\ free' = free \ Returned(t)
      /\ pt' = IF t # r THEN Mapped(t) ELSE pt
  BY DEF Commit, With
<1>5. IsTouched(t, r)
  BY <1>2, <1>3, TouchedIsTouched, Zenon
<1> HIDE DEF t
<1>6. t \in Mapping /\ t.base = r.base /\ t.size = r.size
  BY <1>5 DEF IsTouched
<1>7. FramesInv'
  <2>1. IsList(maps)
    BY <1>1, SeqIsList, Zenon
  <2>2. IsReplacement(maps', maps, i, t)
    BY <1>4, <2>1, ReplacedList, Zenon DEF With
  <2>3. FramesHeld(maps', free')
    BY <1>1, <1>4, <1>5, <2>1, <2>2, FramesTouched, Zenon
  <2>4. maps' \in Seq(Mapping)
    <3>1. i \in 1 .. Len(maps)
      BY <1>1, SeqLen
    <3>2. QED
      BY <1>1, <1>4, <1>6, <3>1, SeqExcept, Zenon DEF With
  <2>5. QED
    BY <1>1, <2>3, <2>4, Zenon DEF FramesInv
<1>8. ASSUME ~unaligned' PROVE LayoutInv'
  <2>1. /\ HoleList(holes) /\ MapList(maps)
        /\ Cover(holes) \cap Cover(maps) = {}
        /\ Cover(holes) \cup Cover(maps) = IF alive THEN UserPages ELSE {}
        /\ TablesInv(Elems(maps), pt)
    BY <1>1, <1>8 DEF SpaceInv, LayoutInv
  <2>2. /\ MapList(maps') /\ Elems(maps') = (Elems(maps) \ {r}) \cup {t}
        /\ Cover(maps') = Cover(maps)
    BY <1>4, <1>6, <2>1, ReplacedMapping
  <2> HIDE DEF r
  <2>3. TablesInv(Elems(maps'), pt')
    <3>1. CASE t # r
      <4>1. pt' = Mapped(t)
        BY <1>4, <3>1, Zenon
      <4>2. TablesInv((Elems(maps) \ {r}) \cup {t}, pt')
        BY <1>2, <1>5, <2>1, <4>1, TouchMapping, Zenon
      <4>3. QED
        BY <2>2, <4>2, Zenon
    <3>2. CASE t = r
      <4>1. Elems(maps') = Elems(maps) /\ pt' = pt
        BY <1>2, <1>4, <2>2, <3>2
      <4>2. QED
        BY <2>1, <4>1, Zenon
    <3>3. QED
      BY <3>1, <3>2
  <2>4. QED
    BY <1>1, <2>1, <2>2, <2>3 DEF LayoutInv, UserPages
<1>9. QED
  BY <1>7, <1>8, Zenon DEF SpaceInv

\* Empty lists are lists of holes and of mappings.
LEMMA NoEntries ==
  /\ HoleList(<<>>) /\ MapList(<<>>) /\ <<>> \in Seq(AnyHole) /\ <<>> \in Seq(Mapping)
  /\ Cover(<<>>) = {} /\ Elems(<<>>) = {} /\ DOMAIN <<>> = {}
<1>1. \A S : <<>> \in Seq(S) /\ Len(<<>>) = 0 /\ DOMAIN <<>> = {}
  BY SeqEmpty
<1>2. Spread(<<>>) /\ Sorted(<<>>)
  BY <1>1 DEF Spread, IsList, Sorted
<1>3. HoleList(<<>>) /\ MapList(<<>>)
  BY <1>1, <1>2 DEF HoleList, MapList
<1>4. Cover(<<>>) = {} /\ Elems(<<>>) = {}
  BY <1>1, Zenon DEF Cover, Elems
<1>5. QED
  BY <1>1, <1>3, <1>4, Zenon

\* ~address_space: every frame is free again.
LEMMA DestroySpaceStep ==
  ASSUME SpaceInv, DestroySpace
  PROVE  SpaceInv'
<1>1. FramesHeld(maps, free) /\ CopyHitsBacking /\ unaligned \in BOOLEAN
  BY DEF SpaceInv, FramesInv
<1>2. /\ alive' = FALSE /\ holes' = <<>> /\ maps' = <<>> /\ pt' = [v \in {} |-> 0]
      /\ free' = free \cup UNION {Returned(maps[i]) : i \in DOMAIN maps}
      /\ zeroHits' = zeroHits /\ unaligned' = unaligned
  BY DEF DestroySpace
<1>3. /\ \A i \in DOMAIN maps : Backed(maps[i])
      /\ free \subseteq Frames
      /\ \A f \in Frames \ free : \E i \in DOMAIN maps : Backs(maps[i], f) # {}
  BY <1>1, Zenon DEF FramesHeld
<1>4. ASSUME NEW i \in DOMAIN maps, NEW f
      PROVE  f \in Returned(maps[i]) <=> f \in Frames /\ Backs(maps[i], f) # {}
  BY <1>3, ReturnedFrames, Zenon
<1>5. free' = Frames
  <2>1. \A f : f \in free' <=> f \in free \/ \E i \in DOMAIN maps : f \in Returned(maps[i])
    BY <1>2, Zenon
  <2>2. \A f : f \in free' <=> f \in Frames
    BY <1>3, <1>4, <2>1, Zenon
  <2>3. QED
    BY <2>2, Zenon
<1>6. FramesHeld(<<>>, free')
  BY <1>5, NoEntries DEF FramesHeld
<1>7. FramesInv'
  BY <1>1, <1>2, <1>6, NoEntries, Zenon DEF FramesInv, CopyHitsBacking
<1>8. LayoutInv'
  <2>1. DOMAIN pt' = {}
    BY <1>2
  <2>2. TablesInv({}, pt')
    BY <2>1 DEF TablesInv
  <2>3. QED
    BY <1>2, <2>2, NoEntries, Zenon DEF LayoutInv
<1>9. QED
  BY <1>7, <1>8, Zenon DEF SpaceInv

-----------------------------------------------------------------------------
\* The remaining steps

LEMMA HaltStep ==
  ASSUME SpaceInv, UNCHANGED <<holes, maps, pt, free, zeroHits, unaligned, alive>>
  PROVE  SpaceInv'
<1>1. FramesInv'
  BY DEF SpaceInv, FramesInv, CopyHitsBacking
<1>2. ASSUME ~unaligned' PROVE LayoutInv'
  BY <1>2 DEF SpaceInv, LayoutInv, UserPages
<1>3. QED
  BY <1>1, <1>2, Zenon DEF SpaceInv

LEMMA FaultHitStep ==
  ASSUME SpaceInv, NEW a \in Nat, FaultHit(a)
  PROVE  SpaceInv'
<1> DEFINE i == Region(a)
<1>1. CASE UNCHANGED <<holes, maps, pt, free, zeroHits, unaligned, alive>>
  BY <1>1, HaltStep
<1>2. CASE /\ Regions(a) # {} /\ FaultIn(maps[i], a) = "overcommitted"
           /\ Commit(i, Touched(maps[i], {Index(maps[i], a)}))
           /\ UNCHANGED <<holes, zeroHits, unaligned, alive, halted>>
  <2>1. i \in DOMAIN maps /\ maps[i].base <= a /\ maps[i] \in Mapping
    BY <1>2, RegionAround DEF SpaceInv, FramesInv
  <2>2. Index(maps[i], a) \in Nat \ {0} /\ maps[i].size \in Nat
    BY <2>1, IndexType, MappingType
  <2>3. ~(Index(maps[i], a) > maps[i].size)
    BY <1>2, Zenon DEF FaultIn
  <2>4. CopyHitsBacking'
    BY <1>2 DEF SpaceInv, FramesInv, CopyHitsBacking
  <2> HIDE DEF i
  <2>5. {Index(maps[i], a)} \in SUBSET (1 .. maps[i].size)
    BY <2>2, <2>3
  <2>6. UNCHANGED <<holes, alive, unaligned>>
    BY <1>2
  <2>7. QED
    BY <1>2, <2>1, <2>4, <2>5, <2>6, CommitStep, Zenon
<1>3. QED
  BY <1>1, <1>2 DEF FaultHit, Halt

LEMMA TouchStep ==
  ASSUME SpaceInv, NEW a \in Nat, Touch(a)
  PROVE  SpaceInv'
<1> DEFINE i == Region(a)
<1>1. Regions(a) # {}
  BY DEF Touch
<1>2. i \in DOMAIN maps /\ maps[i].base <= a /\ maps[i] \in Mapping
  BY <1>1, RegionAround DEF SpaceInv, FramesInv
<1>3. Index(maps[i], a) \in Nat \ {0} /\ maps[i].size \in Nat
  BY <1>2, IndexType, MappingType
<1>4. CASE Index(maps[i], a) > maps[i].size
  <2>1. UNCHANGED <<holes, maps, pt, free, zeroHits, unaligned, alive>>
    BY <1>4 DEF Touch, Halt
  <2>2. QED
    BY <2>1, HaltStep
<1>5. CASE ~(Index(maps[i], a) > maps[i].size)
  <2>1. /\ Commit(i, Touched(maps[i], {Index(maps[i], a)}))
        /\ zeroHits' = zeroHits /\ UNCHANGED <<holes, alive, unaligned>>
    BY <1>5 DEF Touch
  <2>2. CopyHitsBacking'
    BY <2>1 DEF SpaceInv, FramesInv, CopyHitsBacking
  <2> HIDE DEF i
  <2>3. {Index(maps[i], a)} \in SUBSET (1 .. maps[i].size)
    BY <1>3, <1>5
  <2>4. QED
    BY <1>2, <2>1, <2>2, <2>3, CommitStep, Zenon
<1>6. QED
  BY <1>4, <1>5

LEMMA TouchAllStep ==
  ASSUME SpaceInv, NEW a \in Nat, TouchAll(a)
  PROVE  SpaceInv'
<1> DEFINE i == Region(a)
<1>1. /\ Regions(a) # {} /\ Commit(i, Touched(maps[i], 1 .. maps[i].size))
      /\ zeroHits' = zeroHits /\ UNCHANGED <<holes, alive, unaligned>>
  BY DEF TouchAll
<1>2. i \in DOMAIN maps
  BY <1>1, RegionAround DEF SpaceInv, FramesInv
<1>3. CopyHitsBacking'
  BY <1>1 DEF SpaceInv, FramesInv, CopyHitsBacking
<1> HIDE DEF i
<1>4. QED
  BY <1>1, <1>2, <1>3, CommitStep, Zenon

\* A copy reaches a page that has no frame only when there is no frame left,
\* or when the page is one more than the size of the copy has.
LEMMA CopyMisses ==
  ASSUME FramesInv, NEW i \in DOMAIN maps, NEW a \in Nat, NEW size \in Nat,
         maps[i].base <= a, a + size <= End(maps[i]),
         NEW t, t = Touched(maps[i], Ensured(maps[i], a, size))
  PROVE  "other" \notin Missed(t, a, size, free \ Returned(t))
<1> DEFINE r == maps[i]
           left == free \ Returned(t)
           hit == {k \in {Index(t, x) : x \in a .. a + size - 1} : ~t.back[k].exists}
           touched == hit \cap Ensured(t, a, size)
           why(k) == CASE k \in touched /\ left = {} -> "no frame"
                       [] k \notin touched /\ (a - t.base) % PageSize # 0 -> "straddle"
                       [] OTHER -> "other"
<1>1. r \in Mapping /\ Backed(r) /\ free \subseteq Frames /\ \A f \in free : Backs(r, f) = {}
  BY Zenon DEF FramesInv, FramesHeld
<1>2. r.base \in Int /\ r.size \in Nat
  BY <1>1, MappingType
<1>3. Ensured(r, a, size) \in SUBSET (1 .. r.size)
  BY <1>2, EnsuredInside
<1>4. IsTouched(t, r)
  BY <1>1, <1>3, TouchedIsTouched, Zenon
<1>5. t.base = r.base
  BY <1>4 DEF IsTouched
<1>6. Ensured(t, a, size) = Ensured(r, a, size)
  BY <1>5, Zenon DEF Ensured, Index
<1>7. Backed(t)
  BY <1>1, <1>4, TouchedFrames, Zenon
<1>8. ASSUME NEW k \in hit, k \in Ensured(t, a, size) PROVE left = {}
  <2>1. k \in Ensured(r, a, size) /\ ~t.back[k].exists
    BY <1>6, <1>8, Zenon
  <2>2. ASSUME NEW f \in free PROVE f \in Returned(t)
    <3>1. Backs(t, f) # {}
      <4> DEFINE idx == Ensured(r, a, size)
      <4>1. free \subseteq Frames /\ r \in Mapping /\ idx \in SUBSET (1 .. r.size)
        BY <1>1, <1>3, Zenon
      <4>2. t = Touched(r, idx) /\ k \in idx /\ ~t.back[k].exists
        BY <2>1
      <4> HIDE DEF idx, r, hit
      <4>3. QED
        BY <4>1, <4>2, TouchedTakesAll
    <3>2. QED
      BY <1>1, <1>7, <3>1, ReturnedFrames, Zenon
  <2>3. QED
    BY <2>2, Zenon
<1>9. ASSUME NEW k \in hit, k \notin Ensured(t, a, size) PROVE (a - t.base) % PageSize # 0
  <2>1. PICK x \in a .. a + size - 1 : k = Index(t, x)
    BY Zenon
  <2>2. SUFFICES ASSUME (a - t.base) % PageSize = 0 PROVE FALSE
    BY Zenon
  <2>3. t.base \in Int /\ t.base <= a
    BY <1>2, <1>5
  <2>4. Index(t, x) \in Ensured(t, a, size)
    BY <2>2, <2>3, AlignedEnsured, Zenon
  <2>5. QED
    BY <1>9, <2>1, <2>4, Zenon
<1>10. Missed(t, a, size, left) = {why(k) : k \in hit}
  BY Zenon DEF Missed
<1>11. ASSUME NEW k \in hit PROVE why(k) # "other"
  <2>1. CASE k \in Ensured(t, a, size)
    <3>1. k \in touched /\ left = {}
      BY <1>8, <2>1, Zenon
    <3> HIDE DEF touched, left, hit
    <3>2. why(k) = "no frame"
      BY <3>1
    <3> HIDE DEF why
    <3>3. QED
      BY <3>2, Zenon
  <2>2. CASE k \notin Ensured(t, a, size)
    <3>1. k \notin touched /\ (a - t.base) % PageSize # 0
      BY <1>9, <2>2, Zenon
    <3> HIDE DEF touched, left, hit
    <3>2. why(k) = "straddle"
      BY <3>1
    <3> HIDE DEF why
    <3>3. QED
      BY <3>2, Zenon
  <2>3. QED
    BY <2>1, <2>2
<1> HIDE DEF why, hit, left
<1>12. "other" \notin Missed(t, a, size, left)
  BY <1>10, <1>11, Zenon
<1>13. QED
  BY <1>12 DEF left

LEMMA CopyStep ==
  ASSUME SpaceInv, NEW a \in Nat, NEW size \in Nat, Copy(a, size)
  PROVE  SpaceInv'
<1> DEFINE i == Region(a)
           r == maps[i]
           t == Touched(r, Ensured(r, a, size))
<1>1. Regions(a) # {} /\ FramesInv
  BY DEF Copy, SpaceInv
<1>2. i \in DOMAIN maps /\ r.base <= a /\ r \in Mapping
  BY <1>1, RegionAround DEF FramesInv
<1>3. r.base \in Int /\ r.size \in Nat
  BY <1>2, MappingType
<1>4. CASE a + size > End(r)
  <2>1. UNCHANGED <<holes, maps, pt, free, zeroHits, unaligned, alive>>
    BY <1>4 DEF Copy, Halt
  <2>2. QED
    BY <2>1, HaltStep, Zenon
<1>5. CASE ~(a + size > End(r))
  <2>1. /\ Commit(i, t)
        /\ zeroHits' = zeroHits \cup Missed(t, a, size, free \ Returned(t))
        /\ UNCHANGED <<holes, alive, unaligned>>
    BY <1>5 DEF Copy
  <2> HIDE DEF i
  <2>2. a + size <= End(r)
    BY <1>3, <1>5, AnyEnd
  <2>3. Ensured(r, a, size) \in SUBSET (1 .. r.size)
    BY <1>2, <1>3, <2>2, EnsuredInside
  <2>4. "other" \notin Missed(t, a, size, free \ Returned(t))
    BY <1>1, <1>2, <2>2, CopyMisses, Zenon
  <2>5. CopyHitsBacking'
    BY <1>1, <2>1, <2>4, Zenon DEF FramesInv, CopyHitsBacking
  <2>6. QED
    BY <1>2, <2>1, <2>3, <2>5, CommitStep, Zenon
<1>6. QED
  BY <1>4, <1>5, Zenon

LEMMA InitSpaceInv == Init => SpaceInv
<1>1. SUFFICES ASSUME Init PROVE SpaceInv
  OBVIOUS
<1> DEFINE h == [base |-> PageSize, size |-> LastPage]
<1>2. /\ holes = <<h>> /\ maps = <<>> /\ pt = [v \in {} |-> 0] /\ free = Frames
      /\ zeroHits = {} /\ unaligned = FALSE /\ alive = TRUE
  BY <1>1 DEF Init
<1>3. h \in Hole /\ First(h) = 1 /\ h.size = LastPage
  <2>1. 1 * PageSize = PageSize
    BY SizesAssumption
  <2>2. QED
    BY <2>1, HoleMade, SizesAssumption
<1> HIDE DEF h
<1>4. PagesOf(h) = UserPages
  BY <1>3, SizesAssumption DEF PagesOf, UserPages
<1>5. holes \in Seq(Hole) /\ Len(holes) = 1 /\ DOMAIN holes = {1} /\ holes[1] = h
  BY <1>2, <1>3
<1>6. HoleList(holes)
  <2>1. IsList(holes)
    BY <1>5, SeqIsList
  <2>2. QED
    BY <1>3, <1>5, <2>1, HoleIsRange DEF HoleList, Spread
<1>7. holes \in Seq(AnyHole)
  BY <1>2, <1>3, HoleIsRange
<1>8. Cover(holes) = UserPages
  <2>1. \A v : v \in Cover(holes) <=> v \in PagesOf(h)
    BY <1>5, InCover
  <2>2. QED
    BY <1>4, <2>1
<1>9. FramesHeld(maps, free)
  BY <1>2, NoEntries, Zenon DEF FramesHeld
<1>10. CopyHitsBacking
  BY <1>2 DEF CopyHitsBacking
<1>11. FramesInv
  BY <1>2, <1>7, <1>9, <1>10, NoEntries, Zenon DEF FramesInv
<1>12. TablesInv({}, pt)
  <2>1. DOMAIN pt = {}
    BY <1>2
  <2>2. QED
    BY <2>1, Zenon DEF TablesInv
<1>13. LayoutInv
  BY <1>2, <1>6, <1>8, <1>12, NoEntries, Zenon DEF LayoutInv
<1>14. QED
  BY <1>11, <1>13, Zenon DEF SpaceInv

LEMMA NextSpaceInv == SpaceInv /\ [Next]_vars => SpaceInv'
<1> SUFFICES ASSUME SpaceInv, [Next]_vars PROVE SpaceInv'
  OBVIOUS
<1>1. ASSUME NEW size \in 1 .. MaxSize, Allocate(size) \/ Map(size) PROVE SpaceInv'
  <2>1. size \in Nat \ {0}
    BY SizesAssumption
  <2>2. QED
    BY <1>1, <2>1, NewBacks, BindHoleStep DEF Allocate, Map
<1>2. ASSUME NEW size \in 1 .. MaxSize, NEW base \in Bases,
             AllocateAt(base, size) \/ MapAt(base, size)
      PROVE  SpaceInv'
  <2>1. size \in Nat \ {0} /\ base \in Nat \ {0}
    BY SizesAssumption
  <2>2. QED
    BY <1>2, <2>1, NewBacks, BindExactStep DEF AllocateAt, MapAt
<1>3. Addresses \subseteq Nat
  BY SizesAssumption DEF Addresses
<1>4. ASSUME NEW a \in Addresses, Destroy(a) \/ FaultHit(a) \/ Touch(a) \/ TouchAll(a)
      PROVE  SpaceInv'
  BY <1>3, <1>4, DestroyStep, FaultHitStep, TouchStep, TouchAllStep
<1>5. ASSUME NEW a \in Addresses, NEW size \in 1 .. MaxSize * PageSize, Copy(a, size)
      PROVE  SpaceInv'
  <2>1. a \in Nat /\ size \in Nat
    BY <1>3, SizesAssumption
  <2>2. QED
    BY <1>5, <2>1, CopyStep, Zenon
<1>6. CASE DestroySpace
  BY <1>6, DestroySpaceStep
<1>7. CASE UNCHANGED vars
  BY <1>7, HaltStep DEF vars
<1>8. QED
  BY <1>1, <1>2, <1>4, <1>5, <1>6, <1>7 DEF Next

-----------------------------------------------------------------------------
\* What the invariant says

LEMMA InvTiled == SpaceInv => RangeTiled
<1> SUFFICES ASSUME SpaceInv, alive, ~unaligned, NEW v \in UserPages
             PROVE  Cardinality({i \in DOMAIN Entries : v \in PagesOf(Entries[i])}) = 1
  BY DEF RangeTiled
<1> DEFINE L == Len(holes)
           S == {i \in DOMAIN Entries : v \in PagesOf(Entries[i])}
<1>1. /\ Spread(holes) /\ Spread(maps) /\ Cover(holes) \cap Cover(maps) = {}
      /\ Cover(holes) \cup Cover(maps) = UserPages
  BY DEF SpaceInv, LayoutInv, HoleList, MapList
<1>2. /\ L \in Nat /\ DOMAIN holes = 1 .. L
      /\ Len(maps) \in Nat /\ DOMAIN maps = 1 .. Len(maps)
  BY <1>1 DEF Spread, IsList
<1>3. /\ DOMAIN Entries = 1 .. L + Len(maps)
      /\ \A i \in 1 .. L : i \in DOMAIN Entries /\ Entries[i] = holes[i]
      /\ \A i \in 1 .. Len(maps) : L + i \in DOMAIN Entries /\ Entries[L + i] = maps[i]
  BY <1>2 DEF Entries
<1>4. ASSUME NEW i \in DOMAIN Entries
      PROVE  \/ i \in 1 .. L
             \/ i - L \in 1 .. Len(maps) /\ i = L + (i - L)
  BY <1>2, <1>3
<1> HIDE DEF L
<1>5. ASSUME NEW i \in S PROVE \/ i \in 1 .. L /\ v \in PagesOf(holes[i])
                               \/ i - L \in 1 .. Len(maps) /\ v \in PagesOf(maps[i - L])
  BY <1>3, <1>4
<1>6. \E i \in S : \A j \in S : j = i
  <2>1. CASE v \in Cover(holes)
    <3>1. PICK i \in 1 .. L : v \in PagesOf(holes[i])
      BY <1>2, <2>1, InCover
    <3>2. i \in S
      BY <1>3, <3>1
    <3>3. ASSUME NEW j \in S PROVE j = i
      <4>1. CASE j \in 1 .. L /\ v \in PagesOf(holes[j])
        BY <1>1, <1>2, <3>1, <4>1 DEF Spread
      <4>2. CASE j - L \in 1 .. Len(maps) /\ v \in PagesOf(maps[j - L])
        <5>1. v \in Cover(maps)
          BY <1>2, <4>2, InCover, Zenon
        <5>2. QED
          BY <1>1, <2>1, <5>1, Zenon
      <4>3. QED
        BY <1>5, <4>1, <4>2, Zenon
    <3>4. QED
      BY <3>2, <3>3
  <2>2. CASE v \in Cover(maps)
    <3>1. PICK k \in 1 .. Len(maps) : v \in PagesOf(maps[k])
      BY <1>2, <2>2, InCover
    <3>2. L + k \in S
      BY <1>3, <3>1
    <3>3. ASSUME NEW j \in S PROVE j = L + k
      <4>1. CASE j \in 1 .. L /\ v \in PagesOf(holes[j])
        <5>1. v \in Cover(holes)
          BY <1>2, <4>1, InCover
        <5>2. QED
          BY <1>1, <2>2, <5>1
      <4>2. CASE j - L \in 1 .. Len(maps) /\ v \in PagesOf(maps[j - L])
        <5>1. j - L = k
          BY <1>1, <1>2, <3>1, <4>2 DEF Spread
        <5>2. j \in Int
          BY <1>2, <1>3
        <5>3. QED
          BY <1>2, <5>1, <5>2
      <4>3. QED
        BY <1>5, <4>1, <4>2, Zenon
    <3>4. QED
      BY <3>2, <3>3
  <2>3. QED
    BY <1>1, <2>1, <2>2
<1> HIDE DEF S
<1>7. PICK i : S = {i}
  BY <1>6
<1>8. QED
  BY <1>7, FS_Singleton, Zenon DEF S

LEMMA InvPageTables == SpaceInv => PageTablesMatch
<1> SUFFICES ASSUME SpaceInv, ~unaligned PROVE PageTablesMatch
  BY DEF PageTablesMatch
<1>1. /\ \A r \in Elems(maps) : Entered(r, pt)
      /\ \A v \in DOMAIN pt : \E r \in Elems(maps) : v \in PagesOf(r)
  BY DEF SpaceInv, LayoutInv, TablesInv
<1>2. \A i \in DOMAIN maps : Entered(maps[i], pt)
  BY <1>1, InElems
<1>3. \A v \in DOMAIN pt : \E i \in DOMAIN maps : v \in PagesOf(maps[i])
  BY <1>1, InElems, Zenon
<1>4. QED
  BY <1>2, <1>3, Zenon DEF PageTablesMatch, Entered, At

LEMMA InvFrames == SpaceInv => FramesOnce
<1> SUFFICES ASSUME SpaceInv, NEW f \in Frames
             PROVE  Cardinality(UNION {{i} \X Backs(maps[i], f) : i \in DOMAIN maps}) =
                      IF f \in free THEN 0 ELSE 1
  BY Zenon DEF FramesOnce
<1> DEFINE S == UNION {{i} \X Backs(maps[i], f) : i \in DOMAIN maps}
<1>1. FramesHeld(maps, free)
  BY DEF SpaceInv, FramesInv
<1>2. \A p : p \in S <=> \E i \in DOMAIN maps : \E k \in Backs(maps[i], f) : p = <<i, k>>
  OBVIOUS
<1> HIDE DEF S
<1>3. CASE f \in free
  <2>1. \A i \in DOMAIN maps : Backs(maps[i], f) = {}
    BY <1>1, <1>3, Zenon DEF FramesHeld
  <2>2. S = {}
    BY <1>2, <2>1, Zenon
  <2>3. Cardinality(S) = 0
    BY <2>2, FS_EmptySet
  <2>4. QED
    BY <1>3, <2>3, Zenon DEF S
<1>4. CASE f \notin free
  <2>1. /\ \A i, j \in DOMAIN maps :
             \A k \in Backs(maps[i], f), m \in Backs(maps[j], f) : i = j /\ k = m
        /\ \E i \in DOMAIN maps : Backs(maps[i], f) # {}
    BY <1>1, <1>4, Zenon DEF FramesHeld
  <2>2. PICK i \in DOMAIN maps : Backs(maps[i], f) # {}
    BY <2>1
  <2>3. PICK k \in Backs(maps[i], f) : TRUE
    BY <2>2
  <2>4. <<i, k>> \in S
    BY <1>2, <2>3, Zenon
  <2>5. ASSUME NEW p \in S PROVE p = <<i, k>>
    <3>1. PICK j \in DOMAIN maps : \E m \in Backs(maps[j], f) : p = <<j, m>>
      BY <1>2, Zenon
    <3>2. PICK m \in Backs(maps[j], f) : p = <<j, m>>
      BY <3>1, Zenon
    <3>3. j = i /\ m = k
      BY <2>1, <2>3, <3>2, Zenon
    <3>4. QED
      BY <3>2, <3>3, Zenon
  <2>6. Cardinality(S) = 1
    <3>1. S = {<<i, k>>}
      BY <2>4, <2>5, Zenon
    <3>2. QED
      BY <3>1, FS_Singleton, Zenon
  <2>7. QED
    BY <1>4, <2>6, Zenon DEF S
<1>5. QED
  BY <1>3, <1>4

\* An address of mapping i is found in mapping i, and of the earlier mappings
\* only the one right before it can end there.
LEMMA InvRegions == SpaceInv => RegionFound
<1> SUFFICES ASSUME SpaceInv, ~unaligned, NEW i \in DOMAIN maps, NEW a \in Addresses,
                    Within(maps[i], a)
             PROVE  Region(a) = IF i > 1 /\ End(maps[i - 1]) = a THEN i - 1 ELSE i
  BY Zenon DEF RegionFound
<1>1. MapList(maps)
  BY DEF SpaceInv, LayoutInv
<1>2. Len(maps) \in Nat /\ DOMAIN maps = 1 .. Len(maps)
  BY <1>1, MapListType, Zenon
<1>3. ASSUME NEW j \in DOMAIN maps
      PROVE  maps[j].base \in Int /\ End(maps[j]) \in Int /\ maps[j].base < End(maps[j])
  BY <1>1, MapListType, RangeNotEmpty
<1>4. a \in Int
  BY SizesAssumption DEF Addresses
<1>5. maps[i].base <= a /\ a < End(maps[i])
  BY DEF Within
<1>6. i \in Regions(a)
  BY <1>3, <1>4, <1>5 DEF Regions
\* A region below i ends where i begins.
<1>7. ASSUME NEW j \in Regions(a), j < i
      PROVE  j = i - 1 /\ End(maps[j]) = a
  <2>1. j \in DOMAIN maps /\ a <= End(maps[j])
    BY DEF Regions
  <2>2. End(maps[j]) <= maps[i].base
    BY <1>1, <1>7, <2>1, SortedEnds, Zenon
  <2>3. End(maps[j]) = a /\ maps[i].base = a
    BY <1>3, <1>4, <1>5, <2>1, <2>2
  <2>4. ASSUME j < i - 1 PROVE FALSE
    <3>1. i - 1 \in DOMAIN maps /\ j < i - 1 /\ i - 1 < i
      BY <1>2, <2>1, <2>4
    <3>2. /\ End(maps[j]) <= maps[i - 1].base /\ End(maps[i - 1]) <= maps[i].base
      BY <1>1, <2>1, <3>1, SortedEnds, Zenon
    <3>3. QED
      BY <1>3, <2>1, <2>3, <3>1, <3>2
  <2>5. QED
    BY <1>2, <1>7, <2>1, <2>3, <2>4
<1>8. Regions(a) \in SUBSET Nat /\ Regions(a) # {}
  BY <1>2, <1>6 DEF Regions
<1>9. Region(a) \in Regions(a) /\ \A j \in Regions(a) : Region(a) <= j
  BY <1>8, MinOfNats DEF Region
<1>10. Region(a) \in Nat /\ i \in Nat \ {0} /\ Region(a) <= i
  BY <1>2, <1>6, <1>8, <1>9
<1>11. CASE i > 1 /\ End(maps[i - 1]) = a
  <2>1. i - 1 \in DOMAIN maps
    BY <1>2, <1>11
  <2>2. maps[i - 1].base <= a /\ a <= End(maps[i - 1])
    BY <1>3, <1>4, <1>11, <2>1
  <2>3. i - 1 \in Regions(a)
    BY <2>1, <2>2, Zenon DEF Regions
  <2>4. Region(a) < i
    BY <1>9, <1>10, <2>3
  <2>5. QED
    BY <1>7, <1>9, <1>11, <2>4
<1>12. CASE ~(i > 1 /\ End(maps[i - 1]) = a)
  <2>1. ASSUME Region(a) < i PROVE FALSE
    <3>1. Region(a) = i - 1 /\ End(maps[Region(a)]) = a
      BY <1>7, <1>9, <2>1, Zenon
    <3>2. i - 1 \in DOMAIN maps
      BY <1>9, <3>1 DEF Regions
    <3>3. i > 1
      BY <1>2, <3>2
    <3>4. QED
      BY <1>12, <3>1, <3>3
  <2>2. Region(a) = i
    BY <1>10, <2>1
  <2>3. QED
    BY <1>12, <2>2
<1>13. QED
  BY <1>11, <1>12

-----------------------------------------------------------------------------
\* kernel_main

LoaderType ==
  /\ loader \in {"idle", "read", "stack", "check", "bind", "load", "run"}
  /\ archive \in Seq(Files) /\ seg \in Nat \ {0}
  /\ loader \in {"stack", "check", "bind", "load", "run"} => file \in Elems(archive)
  /\ loader = "load" => seg \in Loads(Program)

LEMMA FileType ==
  ASSUME NEW f \in Files
  PROVE  /\ f.program.phdrs \in Seq(Phdrs) /\ Len(f.program.phdrs) \in Nat
         /\ DOMAIN f.program.phdrs = 1 .. Len(f.program.phdrs)
         /\ \A i \in 1 .. Len(f.program.phdrs) : f.program.phdrs[i] \in Phdrs
<1>1. f.program.phdrs \in Seq(Phdrs)
  BY DEF Files
<1>2. QED
  BY <1>1, SeqLen, SeqElement, Zenon

LEMMA MemberType ==
  ASSUME NEW ms \in Seq(Files), NEW f \in Elems(ms)
  PROVE  f \in Files
<1>1. DOMAIN ms = 1 .. Len(ms)
  BY SeqLen
<1>2. PICK i \in 1 .. Len(ms) : f = ms[i]
  BY <1>1, InElems, Zenon
<1>3. QED
  BY <1>2, SeqElement

LEMMA ProgramType ==
  ASSUME LoaderType, loader \in {"stack", "check", "bind", "load", "run"}
  PROVE  /\ file \in Files /\ Len(Program.phdrs) \in Nat
         /\ DOMAIN Program.phdrs = 1 .. Len(Program.phdrs)
         /\ \A i \in 1 .. Len(Program.phdrs) : Program.phdrs[i] \in Phdrs
<1>1. file \in Files
  BY MemberType DEF LoaderType
<1>2. QED
  BY <1>1, FileType DEF Program

LEMMA SegmentType ==
  ASSUME NEW s \in Phdrs
  PROVE  /\ s.vaddr \in Nat /\ s.memsz \in Nat /\ s.filesz \in Nat
         /\ SegmentPages(s) \in Nat
<1>1. s.vaddr \in Nat /\ s.memsz \in Nat /\ s.filesz \in Nat
  BY DEF Phdrs
<1>2. QED
  BY <1>1, CeilType, SizesAssumption, Zenon DEF SegmentPages

\* Every step of kernel_main keeps the invariant of the address space, with
\* segments at any address.
LEMMA LoaderSpaceNext ==
  ASSUME SpaceInv, LoaderType, [LoaderNext]_<<vars, loaderVars>>
  PROVE  SpaceInv'
<1>1. ASSUME UNCHANGED vars \/ Fail PROVE SpaceInv'
  BY <1>1, HaltStep, Zenon DEF vars, Fail, Halt
<1>2. CASE ReadStartup
  BY <1>1, <1>2, Zenon DEF ReadStartup, vars
<1>3. CASE AllocateStack
  <2>1. BindHole(StackPages, Overcommitted(StackPages)) /\ StackPages \in Nat \ {0}
    BY <1>3, ArchivesAssumption DEF AllocateStack, Allocate
  <2>2. QED
    BY <2>1, NewBacks, BindHoleStep, Zenon
<1>4. CASE CheckHeader
  BY <1>1, <1>4, Zenon DEF CheckHeader, vars
<1>5. CASE BindSegment
  <2> DEFINE s == Program.phdrs[seg]
  <2>1. CASE UNCHANGED vars \/ Fail
    BY <1>1, <2>1
  <2>2. CASE AllocateAt(s.vaddr, SegmentPages(s)) /\ ~(s.vaddr = 0 \/ SegmentPages(s) = 0)
    <3>1. loader = "bind" /\ seg <= Len(Program.phdrs) /\ seg \in Nat \ {0}
      BY <1>5 DEF BindSegment, LoaderType
    <3>2. s \in Phdrs
      BY <3>1, ProgramType
    <3>3. s.vaddr \in Nat \ {0} /\ SegmentPages(s) \in Nat \ {0}
      BY <2>2, <3>2, SegmentType
    <3>4. QED
      BY <2>2, <3>3, NewBacks, BindExactStep, Zenon DEF AllocateAt
  <2>3. QED
    BY <1>5, <2>1, <2>2 DEF BindSegment, vars
<1>6. CASE LoadSegment
  <2> DEFINE s == Program.phdrs[seg]
  <2>1. CASE UNCHANGED vars
    BY <1>1, <2>1
  <2>2. CASE Copy(s.vaddr, s.filesz)
    <3>1. loader = "load" /\ seg \in DOMAIN Program.phdrs
      BY <1>6 DEF LoadSegment, LoaderType, Loads
    <3>2. s \in Phdrs
      BY <3>1, ProgramType
    <3>3. s.vaddr \in Nat /\ s.filesz \in Nat
      BY <3>2, SegmentType
    <3> HIDE DEF s
    <3>4. QED
      BY <2>2, <3>3, CopyStep, Zenon
  <2>3. QED
    BY <1>6, <2>1, <2>2 DEF LoadSegment
<1>7. CASE Enter
  BY <1>1, <1>7 DEF Enter, vars
<1>8. CASE Run
  <2>1. ASSUME NEW a \in Addresses, FaultHit(a) PROVE SpaceInv'
    <3>1. a \in Nat
      BY SizesAssumption DEF Addresses
    <3>2. QED
      BY <2>1, <3>1, FaultHitStep
  <2>2. CASE Next
    BY <2>2, NextSpaceInv
  <2>3. QED
    BY <1>8, <2>1, <2>2 DEF Run
<1>9. CASE UNCHANGED <<vars, loaderVars>>
  BY <1>1, <1>9
<1>10. QED
  BY <1>2, <1>3, <1>4, <1>5, <1>6, <1>7, <1>8, <1>9, Zenon DEF LoaderNext

LEMMA LoaderTypeInit == LoaderInit => LoaderType
<1>1. SUFFICES ASSUME LoaderInit PROVE LoaderType
  OBVIOUS
<1>2. archive \in Seq(Files) /\ loader \in {"idle", "read"} /\ seg = 1
  BY <1>1, ArchivesAssumption, SeqEmpty, Zenon DEF LoaderInit
<1>3. QED
  BY <1>2 DEF LoaderType

\* The file that was read is a member of the archive.
LEMMA ReadStep ==
  ASSUME LoaderType, ReadStartup, ~UNCHANGED loaderVars
  PROVE  /\ loader = "read" /\ file' \in Elems(archive) /\ loader' = "stack"
         /\ file' = initrd_read_file("startup", Blocks(archive)) /\ file' # NoFile
         /\ UNCHANGED <<vars, archive, seg, ip, sp>>
<1> DEFINE f == initrd_read_file("startup", Blocks(archive))
<1>1. f \in Elems(archive) \cup {NoFile}
  BY ReadsMember DEF LoaderType
<1> HIDE DEF f
<1>2. /\ loader = "read" /\ f # NoFile /\ file' = f /\ loader' = "stack"
      /\ UNCHANGED <<vars, archive, seg, ip, sp>>
  BY DEF ReadStartup, f, Fail
<1>3. QED
  BY <1>1, <1>2 DEF f

LEMMA LoaderTypeNext ==
  ASSUME LoaderType, [LoaderNext]_<<vars, loaderVars>>
  PROVE  LoaderType'
<1> USE DEF LoaderType
<1>1. CASE UNCHANGED loaderVars
  BY <1>1 DEF loaderVars, Program, Loads
<1>2. CASE ReadStartup /\ ~UNCHANGED loaderVars
  BY <1>2, ReadStep, Zenon
<1>3. CASE AllocateStack
  BY <1>3 DEF AllocateStack
<1>4. CASE CheckHeader /\ ~UNCHANGED loaderVars
  BY <1>4, Zenon DEF CheckHeader, Fail
<1>5. CASE BindSegment /\ ~UNCHANGED loaderVars
  <2> DEFINE s == Program.phdrs[seg]
  <2>1. loader = "bind" /\ seg <= Len(Program.phdrs)
    BY <1>5 DEF BindSegment
  <2>2. CASE seg' = seg + 1 /\ UNCHANGED <<vars, archive, loader, file, ip, sp>>
    BY <2>1, <2>2
  <2>3. CASE s.load /\ loader' = "load" /\ UNCHANGED <<archive, file, seg, ip, sp>>
    <3>1. seg \in DOMAIN Program.phdrs
      BY <2>1, ProgramType
    <3>2. seg \in Loads(Program)
      BY <2>3, <3>1, Zenon DEF Loads
    <3>3. QED
      BY <2>1, <2>3, <3>2, Zenon DEF Program, Loads
  <2>4. QED
    BY <1>5, <2>2, <2>3 DEF BindSegment, Fail
<1>6. CASE LoadSegment
  BY <1>6 DEF LoadSegment
<1>7. CASE Enter
  BY <1>7 DEF Enter
<1>8. CASE Run
  BY <1>1, <1>8 DEF Run
<1>9. QED
  BY <1>1, <1>2, <1>3, <1>4, <1>5, <1>6, <1>7, <1>8, Zenon DEF LoaderNext

\* The theorems about an address space

\* In every state that allocate, map, destroy, touch, fault_hit, load, store
\* and ~address_space, in any order, lead to, the frames and the mappings
\* agree; and the lists of holes and mappings and the page tables do, as long
\* as bind_exact has not bound a range that begins inside a page.
THEOREM SpaceAgrees == Spec => []SpaceInv
<1>1. QED
  BY InitSpaceInv, NextSpaceInv, PTL DEF Spec

\* Whatever the operations of an address space are called with and in which
\* order: touch and ~memory_mapping hand out and return every frame once, and
\* load and store reach a page without backing only when no frame is left or
\* they begin inside a page and end in one page more than they touch.  As long
\* as every base that allocate_at and map_at were given is a multiple of the
\* page size: bind_hole, bind_exact, unbind_region and merge_holes keep holes
\* and mappings apart and the user range covered; map_region and unmap_region
\* keep the page tables equal to the mappings; region_for_address finds the
\* mapping of an address, or the one that ends there.
THEOREM SpaceSafe ==
  Spec => [](RangeTiled /\ FramesOnce /\ PageTablesMatch /\ RegionFound /\ CopyHitsBacking)
<1>1. SpaceInv => CopyHitsBacking
  BY DEF SpaceInv, FramesInv
<1>2. QED
  BY SpaceAgrees, InvTiled, InvFrames, InvPageTables, InvRegions, <1>1, PTL

\* The same, and the types of the loader's variables, while kernel_main reads
\* the archive, allocates the stack, binds and fills the segments, wherever
\* their p_vaddr puts them, and the program faults; and under every order of
\* operations of an address space.
THEOREM LoaderAgrees == LoaderSpec => [](SpaceInv /\ LoaderType)
<1>1. LoaderInit => SpaceInv
  BY InitSpaceInv DEF LoaderInit
<1>2. QED
  BY <1>1, LoaderTypeInit, LoaderSpaceNext, LoaderTypeNext, PTL DEF LoaderSpec

\* bind_hole, bind_exact, unbind_region and merge_holes keep holes and
\* mappings apart and the user range covered, as long as no range, a segment
\* of the program included, was bound at a base inside a page.
THEOREM LoaderTiled == LoaderSpec => []RangeTiled
<1>1. QED
  BY LoaderAgrees, InvTiled, PTL

\* touch hands a frame to one page of one mapping, and ~memory_mapping and
\* ~address_space return every frame once, wherever the mappings begin.
THEOREM LoaderFrames == LoaderSpec => []FramesOnce
<1>1. QED
  BY LoaderAgrees, InvFrames, PTL

\* map_region and unmap_region keep the page tables equal to the mappings, as
\* long as no range was bound at a base inside a page.
THEOREM LoaderPageTables == LoaderSpec => []PageTablesMatch
<1>1. QED
  BY LoaderAgrees, InvPageTables, PTL

\* region_for_address finds the mapping of an address, or the one that ends
\* where it begins, as long as no range was bound at a base inside a page.
THEOREM LoaderRegions == LoaderSpec => []RegionFound
<1>1. QED
  BY LoaderAgrees, InvRegions, PTL

\* load and store copy to and from pages that have a frame, except when every
\* frame has been handed out, and when the copy begins inside a page of the
\* mapping and ends in one page more than ensure_load_store touches.
THEOREM LoaderCopies == LoaderSpec => []CopyHitsBacking
<1>1. SpaceInv => CopyHitsBacking
  BY DEF SpaceInv, FramesInv
<1>2. QED
  BY LoaderAgrees, <1>1, PTL

=============================================================================
