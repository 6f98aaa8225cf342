---------------------------- MODULE GroupsProofs ----------------------------
(***************************************************************************)
(* Proofs about object groups for every number of CPUs, threads, groups    *)
(* and handles.  The locks of the table and of its entries exclude without *)
(* condition; the lock of a group does as long as every operation read the *)
(* _dont_lock that belongs to it, and then no object is lost.              *)
(***************************************************************************)
EXTENDS Groups, FiniteSetTheorems, TLAPS

Kinds == {"new", "remove", "and", "direct"}
Places == {"table", "insert", "entry", "delete", "freed", "group", "check",
           "flag", "lock", "do", "store", "unlock", "clear", "release", "halted"}
Calls == [pc : Places, kind : Kinds, t : Threads \cup {0}, id : Ids,
          op : Ops \cup {<<"none", 0>>}, h : Nat]

GroupTypes ==
  /\ run \in [Cpus -> Calls \cup {Idle}]
  /\ tabLock \in BOOLEAN
  /\ entLock \in [Ids -> BOOLEAN] /\ grpLock \in [Ids -> BOOLEAN]
  /\ dontLock \in [Ids -> BOOLEAN]
  /\ nextGroup \in 0 .. MaxGroups /\ alive \subseteq Ids
  /\ members \in [Ids -> SUBSET Threads]
  /\ nextId \in [Ids -> Nat]
  /\ bypassed \in BOOLEAN /\ unchecked \in BOOLEAN

\* Which calls get where.
KindAt(c) ==
  /\ At(c, "table") => run[c].kind \in {"new", "remove"}
  /\ At(c, "insert") => run[c].kind = "new"
  /\ At(c, "entry") \/ At(c, "freed") => run[c].kind \in {"remove", "and"}
  /\ At(c, "delete") => run[c].kind = "remove"
  /\ run[c].pc \in {"group", "check", "clear", "release"} => run[c].kind = "and"
  /\ run[c].pc \in {"flag", "lock", "do", "store", "unlock", "halted"} =>
       run[c].kind # "remove"

HoldsTable(c) ==
  /\ run[c].pc \notin {"idle", "table"}
  /\ run[c].kind \in {"new", "remove"}
HoldsEntry(c) ==
  /\ run[c].pc \notin {"idle", "table", "entry"}
  /\ run[c].kind \in {"and", "remove"}

TableInv ==
  /\ \A c \in Cpus : HoldsTable(c) => tabLock
  /\ \A c, d \in Cpus : HoldsTable(c) /\ HoldsTable(d) => c = d
EntryInv ==
  /\ \A c \in Cpus : HoldsEntry(c) => entLock[Group(c)]
  /\ \A c, d \in Cpus :
       HoldsEntry(c) /\ HoldsEntry(d) /\ Group(c) = Group(d) => c = d

\* A CPU inside a group: check_membership_and from its lock on, and any other
\* operation from its own lock on.
Inside(c) ==
  \/ run[c].pc \in {"check", "clear", "release"}
  \/ run[c].pc \in {"do", "store", "unlock", "halted"}
  \/ At(c, "flag") /\ Within(c)

\* check_membership_and has set _dont_lock and not cleared it.
Flagged(c) ==
  \/ At(c, "clear")
  \/ run[c].pc \in {"flag", "do", "store", "unlock", "halted"} /\ Within(c)

\* Operations that have seen _dont_lock as FALSE.
Unflagged(c) == run[c].pc \in {"lock", "do", "store", "unlock", "halted"} /\ ~Within(c)

Exclusive ==
  /\ \A c \in Cpus : Inside(c) => grpLock[Group(c)]
  /\ \A c, d \in Cpus : Inside(c) /\ Inside(d) /\ Group(c) = Group(d) => c = d

FlagInv ==
  /\ \A c \in Cpus : Flagged(c) => dontLock[Group(c)]
  /\ \A c \in Cpus : Unflagged(c) /\ dontLock[Group(c)] =>
       \E d \in Cpus : Flagged(d) /\ Group(d) = Group(c)

MemberInv ==
  /\ \A c \in Cpus : At(c, "lock") => ~Within(c)
  /\ \A c \in Cpus : run[c].pc \in {"flag", "do"} /\ Within(c) =>
       run[c].t \in members[Group(c)]
  /\ ~unchecked

LockInv == Exclusive /\ FlagInv /\ MemberInv

\* The inductive invariant.
GroupInv ==
  /\ GroupTypes
  /\ \A c \in Cpus : KindAt(c)
  /\ TableInv /\ EntryInv
  /\ ~bypassed => LockInv

-----------------------------------------------------------------------------
(* How run changes.                                                        *)

\* CPU c goes on to p in its call, or returns, and no other CPU moves.
Moves(c, p) ==
  /\ run'[c].pc = p
  /\ run'[c].kind = run[c].kind /\ run'[c].t = run[c].t
  /\ run'[c].id = run[c].id /\ run'[c].op = run[c].op
  /\ \A d \in Cpus \ {c} : run'[d] = run[d]
Ends(c) ==
  /\ run'[c].pc = "idle"
  /\ \A d \in Cpus \ {c} : run'[d] = run[d]

\* Goto moves a CPU that is in a call.
LEMMA GotoMoves ==
  ASSUME GroupTypes, NEW c \in Cpus, NEW p \in Places, run[c].pc # "idle",
         Goto(c, p)
  PROVE  Moves(c, p) /\ run' \in [Cpus -> Calls \cup {Idle}]
<1>1. run[c] \in Calls
  BY DEF GroupTypes, Idle
<1>2. [run[c] EXCEPT !.pc = p] \in Calls
  BY <1>1 DEF Calls
<1>3. run' = [run EXCEPT ![c] = [run[c] EXCEPT !.pc = p]]
  BY DEF Goto
<1>4. QED
  BY <1>1, <1>2, <1>3 DEF GroupTypes, Moves, Calls

\* A CPU in a call names a group.
LEMMA InCall ==
  ASSUME GroupTypes, NEW c \in Cpus, run[c].pc # "idle"
  PROVE  Group(c) \in Ids /\ run[c].t \in Threads \cup {0}
  BY DEF GroupTypes, Idle, Calls, Group

\* What the locks are about does not change for a CPU that does not move.
LEMMA OthersSame ==
  ASSUME NEW c \in Cpus, \A d \in Cpus \ {c} : run'[d] = run[d]
  PROVE  \A d \in Cpus \ {c} :
           /\ Inside(d)' = Inside(d) /\ Flagged(d)' = Flagged(d)
           /\ Unflagged(d)' = Unflagged(d) /\ Group(d)' = Group(d)
           /\ Within(d)' = Within(d) /\ run'[d] = run[d]
  BY DEF Inside, Flagged, Unflagged, At, Within, Group

\* A CPU that stays inside a group, or was not in it, keeps the lock exclusive.
LEMMA ExclusiveKept ==
  ASSUME Exclusive,
         \A d \in Cpus : Inside(d)' =>
           /\ Inside(d) /\ Group(d)' = Group(d)
           /\ grpLock[Group(d)] => grpLock'[Group(d)]
  PROVE  Exclusive'
<1>1. ASSUME NEW d \in Cpus, Inside(d)' PROVE grpLock'[Group(d)']
  BY <1>1, Zenon DEF Exclusive
<1>2. ASSUME NEW d \in Cpus, NEW e \in Cpus, Inside(d)', Inside(e)',
             Group(d)' = Group(e)'
      PROVE  d = e
  BY <1>2, Zenon DEF Exclusive
<1>3. QED
  BY <1>1, <1>2, Zenon DEF Exclusive

\* So does one that takes the lock while it is free.
LEMMA ExclusiveTaken ==
  ASSUME Exclusive, NEW c \in Cpus, ~grpLock[Group(c)],
         Group(c)' = Group(c), grpLock'[Group(c)],
         \A d \in Cpus \ {c} : Inside(d)' =>
           /\ Inside(d) /\ Group(d)' = Group(d)
           /\ grpLock[Group(d)] => grpLock'[Group(d)]
  PROVE  Exclusive'
<1>1. \A d \in Cpus \ {c} : Inside(d)' =>
        /\ Inside(d) /\ Group(d)' = Group(d)
        /\ grpLock'[Group(d)'] /\ Group(d)' # Group(c)'
  BY Zenon DEF Exclusive
<1>2. ASSUME NEW d \in Cpus, Inside(d)' PROVE grpLock'[Group(d)']
  <2>1. CASE d = c
    BY <2>1, Zenon
  <2>2. CASE d # c
    BY <1>1, <1>2, <2>2, Zenon
  <2>3. QED
    BY <2>1, <2>2, Zenon
<1>3. ASSUME NEW d \in Cpus, NEW e \in Cpus, Inside(d)', Inside(e)',
             Group(d)' = Group(e)'
      PROVE  d = e
  <2>1. CASE d = c \/ e = c
    BY <1>1, <1>3, <2>1, Zenon
  <2>2. CASE d # c /\ e # c
    BY <1>1, <1>3, <2>2, Zenon DEF Exclusive
  <2>3. QED
    BY <2>1, <2>2, Zenon
<1>4. QED
  BY <1>2, <1>3, Zenon DEF Exclusive

\* And one that leaves the group and gives the lock back.
LEMMA ExclusiveLeft ==
  ASSUME Exclusive, GroupTypes, NEW c \in Cpus, Inside(c), ~Inside(c)',
         \A i \in Ids \ {Group(c)} : grpLock'[i] = grpLock[i],
         \A d \in Cpus \ {c} : Inside(d)' = Inside(d) /\ Group(d)' = Group(d)
  PROVE  Exclusive'
<1>1. ASSUME NEW d \in Cpus, Inside(d)'
      PROVE  /\ Inside(d) /\ Group(d)' = Group(d)
             /\ grpLock[Group(d)] => grpLock'[Group(d)]
  <2>1. d # c /\ Inside(d) /\ Group(d)' = Group(d)
    BY <1>1, Zenon
  <2>2. run[d].pc # "idle"
    BY <2>1, Zenon DEF Inside, At
  <2>3. Group(d) \in Ids \ {Group(c)}
    BY <2>1, <2>2, InCall, Zenon DEF Exclusive
  <2>4. QED
    BY <2>1, <2>3, Zenon
<1>2. QED
  BY <1>1, ExclusiveKept, Zenon

\* _dont_lock goes on matching the CPUs that have set it.
LEMMA FlagKept ==
  ASSUME FlagInv, dontLock' = dontLock,
         \A d \in Cpus :
           /\ Flagged(d)' <=> Flagged(d)
           /\ Unflagged(d)' => Unflagged(d) \/ ~dontLock[Group(d)]
           /\ Flagged(d)' \/ Unflagged(d)' => Group(d)' = Group(d)
  PROVE  FlagInv'
<1>1. ASSUME NEW d \in Cpus, Flagged(d)' PROVE dontLock'[Group(d)']
  BY <1>1, Zenon DEF FlagInv
<1>2. ASSUME NEW d \in Cpus, Unflagged(d)', dontLock'[Group(d)']
      PROVE  \E e \in Cpus : Flagged(e)' /\ Group(e)' = Group(d)'
  <2>1. Unflagged(d) /\ Group(d)' = Group(d) /\ dontLock[Group(d)]
    BY <1>2, Zenon
  <2>2. PICK e \in Cpus : Flagged(e) /\ Group(e) = Group(d)
    BY <2>1, Zenon DEF FlagInv
  <2>3. QED
    BY <2>1, <2>2, Zenon
<1>3. QED
  BY <1>1, <1>2, Zenon DEF FlagInv

\* A CPU that an operation has let in is still a member.
LEMMA MemberKept ==
  ASSUME MemberInv, members' = members, unchecked' => unchecked,
         \A d \in Cpus : run'[d].pc = "lock" /\ Within(d)' =>
           run[d].pc = "lock" /\ Within(d),
         \A d \in Cpus : run'[d].pc \in {"flag", "do"} /\ Within(d)' =>
           /\ run[d].pc \in {"flag", "do"} /\ Within(d)
           /\ run'[d].t = run[d].t /\ Group(d)' = Group(d)
  PROVE  MemberInv'
<1>1. ASSUME NEW d \in Cpus, run'[d].pc = "lock" PROVE ~Within(d)'
  BY <1>1, Zenon DEF MemberInv, At
<1>2. ASSUME NEW d \in Cpus, run'[d].pc \in {"flag", "do"}, Within(d)'
      PROVE  run'[d].t \in members'[Group(d)']
  BY <1>2, Zenon DEF MemberInv
<1>3. QED
  BY <1>1, <1>2, Zenon DEF MemberInv, At

\* A step of a CPU that is outside of every group, before and after it.
LEMMA OutsideKept ==
  ASSUME LockInv, NEW c \in Cpus, \A d \in Cpus \ {c} : run'[d] = run[d],
         ~Flagged(c), ~Inside(c)', ~Flagged(c)', ~Unflagged(c)',
         run'[c].pc # "lock", UNCHANGED <<grpLock, dontLock, members, unchecked>>
  PROVE  LockInv'
<1>1. Exclusive /\ FlagInv /\ MemberInv
  BY Zenon DEF LockInv
<1>2. UNCHANGED grpLock /\ UNCHANGED dontLock /\ UNCHANGED members /\ UNCHANGED unchecked
  BY Zenon
<1>3. \A d \in Cpus \ {c} :
        /\ Inside(d)' = Inside(d) /\ Flagged(d)' = Flagged(d)
        /\ Unflagged(d)' = Unflagged(d) /\ Group(d)' = Group(d)
        /\ Within(d)' = Within(d) /\ run'[d] = run[d]
  BY OthersSame, Zenon
<1>4. /\ ~(run'[c].pc \in {"flag", "do"} /\ Within(c)')
      /\ unchecked' => unchecked
  <2>1. ~(run'[c].pc \in {"flag", "do"} /\ Within(c)')
    BY DEF Inside, At
  <2>2. QED
    BY <1>2, <2>1
<1>5. Exclusive'
  BY <1>1, <1>2, <1>3, ExclusiveKept, Zenon
<1>6. FlagInv'
  BY <1>1, <1>2, <1>3, FlagKept, Zenon
<1>7. MemberInv'
  BY <1>1, <1>2, <1>3, <1>4, MemberKept, Zenon
<1>8. QED
  BY <1>5, <1>6, <1>7, Zenon DEF LockInv

\* Return ends the call.
LEMMA ReturnEnds ==
  ASSUME GroupTypes, NEW c \in Cpus, Return(c)
  PROVE  Ends(c) /\ run' \in [Cpus -> Calls \cup {Idle}]
  BY DEF GroupTypes, Return, Ends, Idle

-----------------------------------------------------------------------------
(* Steps preserve the invariant.                                           *)

\* At the start every CPU is idle.
LEMMA InitGroupInv == Init => GroupInv
<1> SUFFICES ASSUME Init PROVE GroupInv
  OBVIOUS
<1>1. GroupTypes
  <2>1. nextGroup \in 0 .. MaxGroups /\ nextId \in [Ids -> Nat]
    BY MaxAssumption DEF Init
  <2>2. run \in [Cpus -> Calls \cup {Idle}]
    BY DEF Init
  <2>3. QED
    BY <2>1, <2>2, Zenon DEF Init, GroupTypes
<1>2. \A c \in Cpus : run[c].pc = "idle"
  BY DEF Init, Idle
<1>3. (\A c \in Cpus : KindAt(c)) /\ TableInv /\ EntryInv
  BY <1>2 DEF KindAt, At, TableInv, EntryInv, HoldsTable, HoldsEntry
<1>4. LockInv
  BY <1>2 DEF Init, LockInv, Exclusive, FlagInv, MemberInv, Inside, Flagged,
       Unflagged, At
<1>5. QED
  BY <1>1, <1>3, <1>4 DEF GroupInv

\* A call begins: its CPU is at the first step of the call.
LEMMA CallPreserves ==
  ASSUME GroupInv, NEW c \in Cpus, Call(c)
  PROVE  GroupInv'
<1> DEFINE SomeOps == Ops \cup {<<"none", 0>>}
<1>1. ASSUME NEW place \in {"table", "entry", "flag"}, NEW kind \in Kinds,
             NEW t \in Threads \cup {0}, NEW i \in Ids, NEW op \in SomeOps,
             Start(c, place, kind, t, i, op),
             place = "table" => kind \in {"new", "remove"},
             place = "entry" => kind = "and",
             place = "flag" => kind = "direct"
      PROVE  GroupInv'
  <2>1. /\ run[c].pc = "idle"
        /\ run' \in [Cpus -> Calls \cup {Idle}]
        /\ run'[c].pc = place /\ run'[c].kind = kind
        /\ \A d \in Cpus \ {c} : run'[d] = run[d]
        /\ UNCHANGED <<locks, groups, dontLock, notes>>
    BY <1>1 DEF Start, At, GroupInv, GroupTypes, Calls, Places
  <2>2. GroupTypes'
    BY <2>1 DEF GroupInv, GroupTypes, locks, groups, notes
  <2>3. \A d \in Cpus : KindAt(d)'
    BY <1>1, <2>1 DEF GroupInv, KindAt, At
  <2>4. TableInv' /\ EntryInv'
    BY <1>1, <2>1 DEF GroupInv, TableInv, EntryInv, HoldsTable, HoldsEntry,
         Group, locks
  <2>5. ~bypassed' => LockInv'
    <3>1. /\ ~Flagged(c) /\ ~Inside(c)' /\ ~Flagged(c)' /\ ~Unflagged(c)'
          /\ run'[c].pc # "lock" /\ \A d \in Cpus \ {c} : run'[d] = run[d]
      BY <1>1, <2>1 DEF Inside, Flagged, Unflagged, At, Within
    <3>2. UNCHANGED <<grpLock, dontLock, members, bypassed, unchecked>>
      BY <2>1, Zenon DEF locks, groups, notes
    <3>3. QED
      BY <3>1, <3>2, OutsideKept, Zenon DEF GroupInv
  <2>6. QED
    BY <2>2, <2>3, <2>4, <2>5 DEF GroupInv
<1>2. \A t \in Threads : <<"add_member", t>> \in Ops
  BY DEF Ops
<1>3. /\ nextGroup \in 0 .. MaxGroups /\ alive \subseteq Ids
      /\ \A i \in 0 .. nextGroup - 1 : i \in Ids
      /\ nextGroup < MaxGroups => 0 \in Ids
  BY MaxAssumption DEF GroupInv, GroupTypes, Ids
<1>4. PICK t \in Threads :
        \/ nextGroup < MaxGroups /\ Start(c, "table", "new", t, 0, <<"add_member", t>>)
        \/ \E i \in 0 .. nextGroup - 1 :
             \/ Start(c, "table", "remove", t, i, <<"none", 0>>)
             \/ \E op \in Ops : Start(c, "entry", "and", t, i, op)
        \/ \E i \in alive, op \in Ops : Start(c, "flag", "direct", 0, i, op)
  BY DEF Call
<1>5. CASE nextGroup < MaxGroups /\ Start(c, "table", "new", t, 0, <<"add_member", t>>)
  BY <1>1, <1>2, <1>3, <1>5 DEF Kinds
<1>6. ASSUME NEW i \in 0 .. nextGroup - 1,
             Start(c, "table", "remove", t, i, <<"none", 0>>)
      PROVE  GroupInv'
  BY <1>1, <1>2, <1>3, <1>6 DEF Kinds
<1>7. ASSUME NEW i \in 0 .. nextGroup - 1, NEW op \in Ops,
             Start(c, "entry", "and", t, i, op)
      PROVE  GroupInv'
  BY <1>1, <1>2, <1>3, <1>7 DEF Kinds
<1>8. ASSUME NEW i \in alive, NEW op \in Ops, Start(c, "flag", "direct", 0, i, op)
      PROVE  GroupInv'
  BY <1>1, <1>2, <1>3, <1>8 DEF Kinds
<1>9. QED
  BY <1>4, <1>5, <1>6, <1>7, <1>8

\* Calls through the table, up to the group.
LEMMA TablePreserves ==
  ASSUME GroupInv, NEW c \in Cpus,
         TakeTable(c) \/ Insert(c) \/ TakeEntry(c) \/ Delete(c)
  PROVE  GroupInv'
<1>1. CASE TakeTable(c)
  <2>1. PICK p \in {"insert", "entry"} :
          /\ Goto(c, p)
          /\ run[c].kind = "new" <=> p = "insert"
    BY <1>1 DEF TakeTable
  <2>2. run[c].pc = "table" /\ Moves(c, p) /\ run' \in [Cpus -> Calls \cup {Idle}]
    BY <1>1, <2>1, GotoMoves DEF TakeTable, Places, GroupInv, At
  <2>3. GroupTypes'
    BY <1>1, <2>2 DEF TakeTable, GroupInv, GroupTypes, groups, notes
  <2>4. \A d \in Cpus : KindAt(d)'
    BY <2>1, <2>2 DEF Moves, GroupInv, KindAt, At
  <2>5. TableInv' /\ EntryInv'
    BY <1>1, <2>1, <2>2 DEF TakeTable, Moves, GroupInv, KindAt, At, TableInv,
         EntryInv, HoldsTable, HoldsEntry, Group
  <2>6. ~bypassed' => LockInv'
    <3>1. /\ ~Flagged(c) /\ ~Inside(c)' /\ ~Flagged(c)' /\ ~Unflagged(c)'
          /\ run'[c].pc # "lock" /\ \A d \in Cpus \ {c} : run'[d] = run[d]
      BY <2>1, <2>2 DEF Moves, Inside, Flagged, Unflagged, At, Within
    <3>2. UNCHANGED <<grpLock, dontLock, members, bypassed, unchecked>>
      BY <1>1 DEF TakeTable, locks, groups, notes
    <3>3. QED
      BY <3>1, <3>2, OutsideKept, Zenon DEF GroupInv
  <2>7. QED
    BY <2>3, <2>4, <2>5, <2>6 DEF GroupInv
<1>2. CASE Insert(c)
  <2>1. /\ run[c] \in Calls /\ run[c].pc = "insert"
        /\ nextGroup \in Ids /\ nextGroup' \in 0 .. MaxGroups
        /\ run' = [run EXCEPT ![c] = [run[c] EXCEPT !.pc = "flag", !.id = nextGroup]]
    <3>1. run[c] \in Calls /\ run[c].pc = "insert"
      BY <1>2 DEF Insert, At, GroupInv, GroupTypes, Idle
    <3>2. nextGroup \in Ids /\ nextGroup' \in 0 .. MaxGroups
      BY <1>2, MaxAssumption DEF Insert, GroupInv, GroupTypes, Ids
    <3>3. QED
      BY <1>2, <3>1, <3>2, Zenon DEF Insert
  <2>2. /\ run' \in [Cpus -> Calls \cup {Idle}]
        /\ run'[c].pc = "flag" /\ run'[c].kind = run[c].kind
        /\ \A d \in Cpus \ {c} : run'[d] = run[d]
    BY <2>1, Zenon DEF GroupInv, GroupTypes, Calls, Places
  <2>3. GroupTypes'
    BY <1>2, <2>1, <2>2 DEF Insert, GroupInv, GroupTypes, locks, notes
  <2>4. \A d \in Cpus : KindAt(d)'
    BY <2>1, <2>2 DEF GroupInv, KindAt, At
  <2>5. TableInv' /\ EntryInv'
    BY <1>2, <2>1, <2>2 DEF Insert, GroupInv, KindAt, At, TableInv, EntryInv,
         HoldsTable, HoldsEntry, Group, locks
  <2>6. ~bypassed' => LockInv'
    <3>1. /\ ~Flagged(c) /\ ~Inside(c)' /\ ~Flagged(c)' /\ ~Unflagged(c)'
          /\ run'[c].pc # "lock" /\ \A d \in Cpus \ {c} : run'[d] = run[d]
      BY <2>1, <2>2 DEF GroupInv, KindAt, Inside, Flagged, Unflagged, At, Within
    <3>2. UNCHANGED <<grpLock, dontLock, members, bypassed, unchecked>>
      BY <1>2 DEF Insert, locks, groups, notes
    <3>3. QED
      BY <3>1, <3>2, OutsideKept, Zenon DEF GroupInv
  <2>7. QED
    BY <2>3, <2>4, <2>5, <2>6 DEF GroupInv
<1>3. CASE TakeEntry(c)
  <2>1. PICK p \in {"freed", "group", "delete"} :
          /\ Goto(c, p)
          /\ p = "group" => run[c].kind = "and"
          /\ p = "delete" => run[c].kind # "and"
    BY <1>3 DEF TakeEntry
  <2>2. run[c].pc = "entry" /\ Moves(c, p) /\ run' \in [Cpus -> Calls \cup {Idle}]
    BY <1>3, <2>1, GotoMoves DEF TakeEntry, Places, GroupInv, At
  <2>3. GroupTypes'
    BY <1>3, <2>2, Zenon DEF TakeEntry, GroupInv, GroupTypes, groups, notes
  <2>4. \A d \in Cpus : KindAt(d)'
    BY <2>1, <2>2 DEF Moves, GroupInv, KindAt, At
  <2>5. TableInv'
    BY <1>3, <2>1, <2>2 DEF TakeEntry, Moves, GroupInv, KindAt, At, TableInv,
         HoldsTable
  <2>6. EntryInv'
    BY <1>3, <2>1, <2>2 DEF TakeEntry, Moves, GroupInv, GroupTypes, Calls,
         KindAt, At, EntryInv, HoldsEntry, Group, Idle
  <2>7. ~bypassed' => LockInv'
    <3>1. /\ ~Flagged(c) /\ ~Inside(c)' /\ ~Flagged(c)' /\ ~Unflagged(c)'
          /\ run'[c].pc # "lock" /\ \A d \in Cpus \ {c} : run'[d] = run[d]
      BY <2>1, <2>2 DEF Moves, Inside, Flagged, Unflagged, At, Within
    <3>2. UNCHANGED <<grpLock, dontLock, members, bypassed, unchecked>>
      BY <1>3 DEF TakeEntry, locks, groups, notes
    <3>3. QED
      BY <3>1, <3>2, OutsideKept, Zenon DEF GroupInv
  <2>8. QED
    BY <2>3, <2>4, <2>5, <2>6, <2>7 DEF GroupInv
<1>4. CASE Delete(c)
  <2>1. run[c].pc = "delete" /\ Ends(c) /\ run' \in [Cpus -> Calls \cup {Idle}]
    BY <1>4, ReturnEnds DEF Delete, GroupInv, At
  <2>2. GroupTypes'
    BY <1>4, <2>1, Zenon DEF Delete, GroupInv, GroupTypes, notes
  <2>3. \A d \in Cpus : KindAt(d)'
    BY <2>1 DEF Ends, GroupInv, KindAt, At
  <2>4. TableInv'
    BY <1>4, <2>1 DEF Delete, Ends, GroupInv, KindAt, At, TableInv, HoldsTable
  <2>5. EntryInv'
    BY <1>4, <2>1 DEF Delete, Ends, GroupInv, GroupTypes, Calls, KindAt, At,
         EntryInv, HoldsEntry, Group, Idle
  <2>6. ~bypassed' => LockInv'
    <3>1. /\ ~Flagged(c) /\ ~Inside(c)' /\ ~Flagged(c)' /\ ~Unflagged(c)'
          /\ run'[c].pc # "lock" /\ \A d \in Cpus \ {c} : run'[d] = run[d]
      BY <2>1 DEF Ends, Inside, Flagged, Unflagged, At, Within
    <3>2. UNCHANGED <<grpLock, dontLock, members, bypassed, unchecked>>
      BY <1>4 DEF Delete, locks, groups, notes
    <3>3. QED
      BY <3>1, <3>2, OutsideKept, Zenon DEF GroupInv
  <2>7. QED
    BY <2>2, <2>3, <2>4, <2>5, <2>6 DEF GroupInv
<1>5. QED
  BY <1>1, <1>2, <1>3, <1>4

\* Steps of check_membership_and around the operation it calls.
LEMMA CheckPreserves ==
  ASSUME GroupInv, NEW c \in Cpus,
         TakeGroup(c) \/ Check(c) \/ Clear(c) \/ Release(c)
  PROVE  GroupInv'
<1> DEFINE g == Group(c)
<1>0. /\ run[c].pc \in {"group", "check", "clear", "release"} /\ run[c].kind = "and"
      /\ g \in Ids /\ GroupTypes
      /\ \A d \in Cpus : run[d].pc # "idle" => Group(d) \in Ids
  BY InCall DEF TakeGroup, Check, Clear, Release, At, GroupInv, KindAt
<1>1. CASE TakeGroup(c)
  <2>1. PICK p \in {"check"} :
          /\ run[c].pc = "group" /\ Goto(c, p)
    BY <1>1 DEF TakeGroup, At
  <2>2. Moves(c, p) /\ run' \in [Cpus -> Calls \cup {Idle}]
    BY <1>0, <2>1, GotoMoves DEF Places
  <2>3. GroupTypes'
    BY <1>0, <1>1, <2>2 DEF TakeGroup, GroupTypes, groups, notes, locks
  <2>4. \A d \in Cpus : KindAt(d)'
    BY <1>0, <2>1, <2>2 DEF Moves, GroupInv, KindAt, At
  <2>5. TableInv' /\ EntryInv'
    BY <1>0, <1>1, <2>1, <2>2, SMTT(40) DEF TakeGroup, Moves, GroupInv, TableInv, EntryInv,
         HoldsTable, HoldsEntry, Group, locks
  <2>6. ~bypassed' => LockInv'
    <3>1. \A d \in Cpus \ {c} :
            /\ Inside(d)' = Inside(d) /\ Flagged(d)' = Flagged(d)
            /\ Unflagged(d)' = Unflagged(d) /\ Group(d)' = Group(d)
            /\ Within(d)' = Within(d) /\ run'[d] = run[d]
      BY <2>2, OthersSame DEF Moves
    <3>2. /\ Inside(c)' /\ ~Flagged(c)' /\ ~Unflagged(c)' /\ ~Flagged(c)
          /\ Group(c)' = g /\ run'[c].pc = "check"
      BY <1>0, <2>1, <2>2 DEF Moves, Inside, Flagged, Unflagged, At, Within, Group
    <3>3. \A d \in Cpus : Inside(d) => run[d].pc # "idle"
      BY DEF Inside, At
    <3>4. /\ ~grpLock[g] /\ grpLock' = [grpLock EXCEPT ![g] = TRUE]
          /\ UNCHANGED <<dontLock, members, bypassed, unchecked>>
      BY <1>1 DEF TakeGroup, groups, notes
    <3>5. ASSUME ~bypassed' PROVE LockInv'
      <4>1. Exclusive /\ FlagInv /\ MemberInv
        BY <3>4, <3>5, Zenon DEF GroupInv, LockInv
      <4>2. grpLock'[g] /\ \A i \in Ids : grpLock[i] => grpLock'[i]
        BY <1>0, <3>4, Zenon DEF GroupTypes
      <4>3. Exclusive'
        BY <1>0, <3>1, <3>2, <3>3, <3>4, <4>1, <4>2, ExclusiveTaken, Zenon
      <4>4. FlagInv'
        BY <3>1, <3>2, <3>4, <4>1, FlagKept, Zenon
      <4>5. MemberInv'
        BY <3>1, <3>2, <3>4, <4>1, MemberKept, Zenon
      <4>6. QED
        BY <4>3, <4>4, <4>5, Zenon DEF LockInv
    <3>6. QED
      BY <3>5, Zenon
  <2>7. QED
    BY <2>3, <2>4, <2>5, <2>6, Zenon DEF GroupInv
<1>2. CASE Check(c)
  <2>1. PICK p \in {"flag", "release"} :
          /\ run[c].pc = "check" /\ Goto(c, p)
          /\ p = "flag" => /\ run[c].t \in members[g]
                           /\ dontLock' = [dontLock EXCEPT ![g] = TRUE]
          /\ p = "release" => dontLock' = dontLock
    BY <1>2 DEF Check, At
  <2>2. Moves(c, p) /\ run' \in [Cpus -> Calls \cup {Idle}]
    BY <1>0, <2>1, GotoMoves DEF Places
  <2>3. GroupTypes'
    BY <1>0, <1>2, <2>2, Zenon DEF Check, GroupTypes, groups, notes, locks
  <2>4. \A d \in Cpus : KindAt(d)'
    BY <1>0, <2>1, <2>2, ZenonT(40) DEF Moves, GroupInv, KindAt, At
  <2>5. TableInv' /\ EntryInv'
    BY <1>0, <1>2, <2>1, <2>2 DEF Check, Moves, GroupInv, TableInv, EntryInv,
         HoldsTable, HoldsEntry, Group, locks
  <2>6. ~bypassed' => LockInv'
    <3>1. \A d \in Cpus \ {c} :
            /\ Inside(d)' = Inside(d) /\ Flagged(d)' = Flagged(d)
            /\ Unflagged(d)' = Unflagged(d) /\ Group(d)' = Group(d)
            /\ Within(d)' = Within(d) /\ run'[d] = run[d]
      BY <2>2, OthersSame DEF Moves
    <3>2. /\ Inside(c)' /\ Inside(c) /\ Flagged(c)' = (p = "flag") /\ ~Unflagged(c)'
          /\ ~Flagged(c) /\ Group(c)' = g /\ run'[c].pc = p /\ run'[c].t = run[c].t
      BY <1>0, <2>1, <2>2, Zenon DEF Moves, Inside, Flagged, Unflagged, At, Within, Group
    <3>3. \A d \in Cpus : Flagged(d) \/ Unflagged(d) => run[d].pc # "idle"
      BY Zenon DEF Flagged, Unflagged, At
    <3>4. UNCHANGED <<grpLock, members, bypassed, unchecked>>
      BY <1>2 DEF Check, locks, groups, notes
    <3>5. ASSUME ~bypassed' PROVE LockInv'
      <4>1. Exclusive /\ FlagInv /\ MemberInv
        BY <3>4, <3>5, Zenon DEF GroupInv, LockInv
      <4>2. Exclusive'
        BY <3>1, <3>2, <3>4, <4>1, ExclusiveKept, Zenon
      <4>3. FlagInv'
        <5>1. dontLock'[g] = (p = "flag" \/ dontLock[g])
          BY <1>0, <2>1, Zenon DEF GroupTypes
        <5>2. \A i \in Ids \ {g} : dontLock'[i] = dontLock[i]
          BY <1>0, <2>1, Zenon DEF GroupTypes
        <5>3. ASSUME NEW d \in Cpus, Flagged(d)' PROVE dontLock'[Group(d)']
          BY <1>0, <3>1, <3>2, <3>3, <4>1, <5>1, <5>2, <5>3, Zenon DEF FlagInv
        <5>4. ASSUME NEW d \in Cpus, Unflagged(d)', dontLock'[Group(d)']
              PROVE  \E e \in Cpus : Flagged(e)' /\ Group(e)' = Group(d)'
          <6>1. d # c /\ Unflagged(d) /\ Group(d)' = Group(d) /\ Group(d) \in Ids
            BY <1>0, <3>1, <3>2, <3>3, <5>4, Zenon
          <6>2. CASE Group(d) = g /\ p = "flag"
            BY <3>2, <6>1, <6>2, Zenon
          <6>3. CASE ~(Group(d) = g /\ p = "flag")
            <7>1. dontLock[Group(d)]
              BY <5>1, <5>2, <5>4, <6>1, <6>3, Zenon
            <7>2. PICK e \in Cpus : Flagged(e) /\ Group(e) = Group(d)
              BY <4>1, <6>1, <7>1, Zenon DEF FlagInv
            <7>3. QED
              BY <3>1, <3>2, <6>1, <7>2, Zenon
          <6>4. QED
            BY <6>2, <6>3, Zenon
        <5>5. QED
          BY <5>3, <5>4, Zenon DEF FlagInv
      <4>4. MemberInv'
        <5>1. ASSUME NEW d \in Cpus, At(d, "lock")' PROVE ~Within(d)'
          BY <2>1, <3>1, <3>2, <4>1, <5>1, Zenon DEF MemberInv, At
        <5>2. ASSUME NEW d \in Cpus, run'[d].pc \in {"flag", "do"}, Within(d)'
              PROVE  run'[d].t \in members'[Group(d)']
          BY <2>1, <3>1, <3>2, <3>4, <4>1, <5>2, Zenon DEF MemberInv
        <5>3. QED
          BY <3>4, <4>1, <5>1, <5>2, Zenon DEF MemberInv
      <4>5. QED
        BY <4>2, <4>3, <4>4, Zenon DEF LockInv
    <3>6. QED
      BY <3>5, Zenon
  <2>7. QED
    BY <2>3, <2>4, <2>5, <2>6 DEF GroupInv
<1>3. CASE Clear(c)
  <2>1. PICK p \in {"release"} :
          /\ run[c].pc = "clear" /\ Goto(c, p)
    BY <1>3 DEF Clear, At
  <2>2. Moves(c, p) /\ run' \in [Cpus -> Calls \cup {Idle}]
    BY <1>0, <2>1, GotoMoves DEF Places
  <2>3. GroupTypes'
    BY <1>0, <1>3, <2>2 DEF Clear, GroupTypes, groups, notes, locks
  <2>4. \A d \in Cpus : KindAt(d)'
    BY <1>0, <2>1, <2>2, ZenonT(40) DEF Moves, GroupInv, KindAt, At
  <2>5. TableInv' /\ EntryInv'
    BY <1>0, <1>3, <2>1, <2>2, SMTT(40) DEF Clear, Moves, GroupInv, TableInv, EntryInv,
         HoldsTable, HoldsEntry, Group, locks
  <2>6. ~bypassed' => LockInv'
    <3>1. \A d \in Cpus \ {c} :
            /\ Inside(d)' = Inside(d) /\ Flagged(d)' = Flagged(d)
            /\ Unflagged(d)' = Unflagged(d) /\ Group(d)' = Group(d)
            /\ Within(d)' = Within(d) /\ run'[d] = run[d]
      BY <2>2, OthersSame DEF Moves
    <3>2. /\ Inside(c)' /\ Inside(c) /\ ~Flagged(c)' /\ Flagged(c) /\ ~Unflagged(c)'
          /\ Group(c)' = g /\ run'[c].pc = p
      BY <1>0, <2>1, <2>2 DEF Moves, Inside, Flagged, Unflagged, At, Within, Group
    <3>3. \A d \in Cpus : /\ Flagged(d) => Inside(d)
                          /\ Flagged(d) \/ Unflagged(d) => run[d].pc # "idle"
      BY DEF Flagged, Unflagged, Inside, At
    <3>4. /\ dontLock' = [dontLock EXCEPT ![g] = FALSE]
          /\ UNCHANGED <<grpLock, members, bypassed, unchecked>>
      BY <1>3 DEF Clear, locks, groups, notes
    <3>5. ASSUME ~bypassed' PROVE LockInv'
      <4>1. Exclusive /\ FlagInv /\ MemberInv
        BY <3>4, <3>5, Zenon DEF GroupInv, LockInv
      <4>2. Exclusive'
        BY <3>1, <3>2, <3>4, <4>1, ExclusiveKept, Zenon
      <4>3. FlagInv'
        <5>1. ~dontLock'[g] /\ \A i \in Ids \ {g} : dontLock'[i] = dontLock[i]
          BY <1>0, <3>4, Zenon DEF GroupTypes
        <5>2. ASSUME NEW d \in Cpus, Flagged(d)' PROVE dontLock'[Group(d)']
          <6>1. d # c /\ Flagged(d) /\ Inside(d) /\ Group(d)' = Group(d)
            BY <3>1, <3>2, <3>3, <5>2, Zenon
          <6>2. Group(d) \in Ids \ {g}
            BY <1>0, <3>2, <3>3, <4>1, <6>1, Zenon DEF Exclusive
          <6>3. QED
            BY <4>1, <5>1, <6>1, <6>2, Zenon DEF FlagInv
        <5>3. ASSUME NEW d \in Cpus, Unflagged(d)', dontLock'[Group(d)']
              PROVE  \E e \in Cpus : Flagged(e)' /\ Group(e)' = Group(d)'
          <6>1. d # c /\ Unflagged(d) /\ Group(d)' = Group(d) /\ Group(d) \in Ids \ {g}
            BY <1>0, <3>1, <3>2, <3>3, <5>1, <5>3, Zenon
          <6>2. PICK e \in Cpus : Flagged(e) /\ Group(e) = Group(d)
            BY <4>1, <5>1, <5>3, <6>1, Zenon DEF FlagInv
          <6>3. QED
            BY <3>1, <6>1, <6>2, Zenon
        <5>4. QED
          BY <5>2, <5>3, Zenon DEF FlagInv
      <4>4. MemberInv'
        BY <2>1, <3>1, <3>2, <3>4, <4>1, MemberKept, Zenon
      <4>5. QED
        BY <4>2, <4>3, <4>4, Zenon DEF LockInv
    <3>6. QED
      BY <3>5, Zenon
  <2>7. QED
    BY <2>3, <2>4, <2>5, <2>6 DEF GroupInv
<1>4. CASE Release(c)
  <2>1. run[c].pc = "release" /\ Ends(c) /\ run' \in [Cpus -> Calls \cup {Idle}]
    BY <1>0, <1>4, ReturnEnds DEF Release, At
  <2>2. GroupTypes'
    BY <1>0, <1>4, <2>1 DEF Release, GroupTypes, groups, notes
  <2>3. \A d \in Cpus : KindAt(d)'
    BY <2>1 DEF Ends, GroupInv, KindAt, At
  <2>4. TableInv'
    BY <1>4, <2>1 DEF Release, Ends, GroupInv, TableInv, HoldsTable
  <2>5. EntryInv'
    <3>1. HoldsEntry(c) /\ ~HoldsEntry(c)'
      BY <1>0, <2>1 DEF HoldsEntry, Ends
    <3>2. \A d \in Cpus \ {c} :
            HoldsEntry(d)' = HoldsEntry(d) /\ Group(d)' = Group(d)
      BY <2>1 DEF HoldsEntry, Ends, Group
    <3>3. \A d \in Cpus : HoldsEntry(d) => run[d].pc # "idle"
      BY DEF HoldsEntry
    <3>4. entLock' = [entLock EXCEPT ![g] = FALSE]
      BY <1>4, Zenon DEF Release
    <3>5. QED
      BY <1>0, <3>1, <3>2, <3>3, <3>4 DEF GroupInv, GroupTypes, EntryInv
  <2>6. ~bypassed' => LockInv'
    <3>1. \A d \in Cpus \ {c} :
            /\ Inside(d)' = Inside(d) /\ Flagged(d)' = Flagged(d)
            /\ Unflagged(d)' = Unflagged(d) /\ Group(d)' = Group(d)
            /\ Within(d)' = Within(d) /\ run'[d] = run[d]
      BY <2>1, OthersSame DEF Ends
    <3>2. /\ ~Inside(c)' /\ Inside(c) /\ ~Flagged(c)' /\ ~Flagged(c) /\ ~Unflagged(c)'
          /\ run'[c].pc = "idle"
      BY <1>0, <2>1 DEF Ends, Inside, Flagged, Unflagged, At
    <3>3. \A d \in Cpus : Inside(d) => run[d].pc # "idle"
      BY DEF Inside, At
    <3>4. /\ grpLock' = [grpLock EXCEPT ![g] = FALSE]
          /\ UNCHANGED <<dontLock, members, bypassed, unchecked>>
      BY <1>4 DEF Release, groups, notes
    <3>5. ASSUME ~bypassed' PROVE LockInv'
      <4>1. Exclusive /\ FlagInv /\ MemberInv
        BY <3>4, <3>5, Zenon DEF GroupInv, LockInv
      <4>2. \A i \in Ids \ {g} : grpLock'[i] = grpLock[i]
        BY <1>0, <3>4, Zenon DEF GroupTypes
      <4>3. Exclusive'
        BY <1>0, <3>1, <3>2, <4>1, <4>2, ExclusiveLeft, Zenon
      <4>4. FlagInv'
        BY <3>1, <3>2, <3>4, <4>1, FlagKept, Zenon
      <4>5. MemberInv'
        BY <3>1, <3>2, <3>4, <4>1, MemberKept, Zenon
      <4>6. QED
        BY <4>3, <4>4, <4>5, Zenon DEF LockInv
    <3>6. QED
      BY <3>5, Zenon
  <2>7. QED
    BY <2>2, <2>3, <2>4, <2>5, <2>6 DEF GroupInv
<1>5. QED
  BY <1>1, <1>2, <1>3, <1>4

OpPlaces == {"flag", "lock", "do", "store", "unlock"}

\* The operations of a group leave the locks of the table alone, except
\* that new_group gives the table back when it is done.
LEMMA OpKeepsTable ==
  ASSUME GroupInv, NEW c \in Cpus, run[c].pc \in OpPlaces,
         \/ Ends(c)
         \/ \E p \in OpPlaces \cup {"halted", "clear"} :
              Moves(c, p) /\ (p = "clear" => Within(c)),
         entLock' = entLock,
         Ends(c) => ~Within(c),
         \/ tabLock' = tabLock
         \/ run[c].kind = "new" /\ Ends(c)
  PROVE  (\A d \in Cpus : KindAt(d)') /\ TableInv' /\ EntryInv'
<1> USE DEF OpPlaces
<1>1. \A d \in Cpus \ {c} : run'[d] = run[d]
  BY DEF Moves, Ends
<1>2. run[c].kind # "remove"
  BY SMTT(40) DEF GroupInv, KindAt
<1>3. \A d \in Cpus : KindAt(d)'
  <2>1. KindAt(c)'
    BY <1>2, ZenonT(40) DEF GroupInv, KindAt, At, Moves, Ends, Within
  <2>2. ASSUME NEW d \in Cpus \ {c} PROVE KindAt(d)'
    BY <1>1, <2>2, Zenon DEF GroupInv, KindAt, At
  <2>3. QED
    BY <2>1, <2>2, Zenon
<1>4. /\ HoldsTable(c) <=> run[c].kind = "new"
      /\ HoldsTable(c)' => HoldsTable(c) /\ ~Ends(c)
      /\ HoldsEntry(c)' => HoldsEntry(c) /\ Group(c)' = Group(c)
  <2>1. CASE Ends(c)
    BY <1>2, <2>1 DEF HoldsTable, HoldsEntry, Ends
  <2>2. CASE \E p \in OpPlaces \cup {"halted", "clear"} : Moves(c, p)
    <3>1. run'[c].pc # "idle" /\ run'[c].kind = run[c].kind /\ run'[c].id = run[c].id
      BY <2>2 DEF Moves
    <3>2. QED
      BY <1>2, <3>1, SMTT(40) DEF HoldsTable, HoldsEntry, Ends, Group
  <2>3. QED
    BY <2>1, <2>2, Zenon
<1>5. \A d \in Cpus \ {c} :
        /\ HoldsTable(d)' = HoldsTable(d)
        /\ HoldsEntry(d)' = HoldsEntry(d) /\ Group(d)' = Group(d)
  BY <1>1 DEF HoldsTable, HoldsEntry, Group
<1>6. TableInv'
  BY <1>4, <1>5, SMTT(40) DEF GroupInv, TableInv
<1>7. EntryInv'
  BY <1>4, <1>5 DEF GroupInv, EntryInv
<1>8. QED
  BY <1>3, <1>6, <1>7

\* Facts about the CPUs that hold or want a group's lock.
LEMMA InGroup ==
  ASSUME GroupInv
  PROVE  /\ GroupTypes
         /\ \A d \in Cpus : run[d].pc # "idle" => Group(d) \in Ids
         /\ \A d \in Cpus : Inside(d) \/ Flagged(d) \/ Unflagged(d) => run[d].pc # "idle"
         /\ \A d \in Cpus : Flagged(d) => Inside(d)
<1>1. GroupTypes
  BY Zenon DEF GroupInv
<1>2. QED
  BY <1>1, InCall, SMTT(40) DEF Inside, Flagged, Unflagged, At

\* The lock is held and no lock changes: what matters is _members.
LEMMA OpMoves ==
  ASSUME GroupInv, NEW c \in Cpus,
         NEW p \in {"store", "unlock", "halted", "clear"}, Moves(c, p),
         p = "clear" => Within(c),
         run[c].pc \in {"do", "store"},
         UNCHANGED <<tabLock, entLock, grpLock, dontLock, bypassed>>,
         \A i \in Ids \ {Group(c)} : members'[i] = members[i],
         unchecked' => \/ unchecked
                       \/ /\ run[c].pc = "do" /\ Within(c)
                          /\ run[c].t \notin members[Group(c)],
         GroupTypes'
  PROVE  GroupInv'
<1> DEFINE g == Group(c)
           Rest == ~bypassed' => LockInv'
<1>0. /\ g \in Ids /\ GroupTypes
      /\ \A d \in Cpus : run[d].pc # "idle" => Group(d) \in Ids
      /\ \A d \in Cpus : Inside(d) \/ Flagged(d) \/ Unflagged(d) => run[d].pc # "idle"
      /\ \A d \in Cpus : Flagged(d) => Inside(d)
  BY InGroup, Zenon
<1>1. (\A d \in Cpus : KindAt(d)') /\ TableInv' /\ EntryInv'
  BY <1>0, OpKeepsTable DEF Moves, Ends, OpPlaces
<1>2. Moves(c, p)
  BY Zenon
<1>3. Rest
  <2>1. \A d \in Cpus \ {c} :
          /\ Inside(d)' = Inside(d) /\ Flagged(d)' = Flagged(d)
          /\ Unflagged(d)' = Unflagged(d) /\ Group(d)' = Group(d)
          /\ Within(d)' = Within(d) /\ run'[d] = run[d]
    BY <1>2, OthersSame DEF Moves, Ends
  <2>2. /\ Inside(c)' /\ Inside(c)
        /\ Flagged(c)' = Within(c) /\ Flagged(c) = Within(c)
        /\ Unflagged(c)' = ~Within(c) /\ Unflagged(c) = ~Within(c)
        /\ Within(c)' = Within(c) /\ Group(c)' = g /\ run'[c].pc = p
    BY Zenon DEF Moves, Inside, Flagged, Unflagged, At, Within, Group
  <2>3. \A d \in Cpus : run[d].pc \in {"flag", "do"} /\ Within(d) => Inside(d)
    BY DEF Inside, At
  <2>4. ASSUME ~bypassed' PROVE LockInv'
    <3>0. Exclusive /\ FlagInv /\ MemberInv
      BY <2>4, Zenon DEF GroupInv, LockInv
    <3>1. Exclusive'
      BY <1>0, <3>0, <2>1, <2>2, ExclusiveKept, Zenon
    <3>2. FlagInv'
      BY <1>0, <3>0, <2>1, <2>2, FlagKept, Zenon
    <3>3. MemberInv'
      <4>1. ASSUME NEW d \in Cpus, run'[d].pc = "lock" PROVE ~Within(d)'
        BY <2>1, <2>2, <3>0, <4>1, Zenon DEF MemberInv, At
      <4>2. ASSUME NEW d \in Cpus, run'[d].pc \in {"flag", "do"}, Within(d)'
            PROVE  run'[d].t \in members'[Group(d)']
        <5>1. d # c
          BY <2>2, <4>2, Zenon
        <5>2. /\ run[d].pc \in {"flag", "do"} /\ Within(d) /\ Inside(d)
              /\ Group(d)' = Group(d) /\ run'[d].t = run[d].t
          BY <2>1, <2>3, <4>2, <5>1, Zenon
        <5>3. Group(d) \in Ids \ {g}
          BY <1>0, <2>2, <3>0, <5>1, <5>2, Zenon DEF Exclusive
        <5>4. QED
          BY <3>0, <5>2, <5>3, Zenon DEF MemberInv
      <4>3. ~unchecked'
        BY <3>0, Zenon DEF MemberInv
      <4>4. QED
        BY <4>1, <4>2, <4>3, Zenon DEF MemberInv, At
    <3>4. QED
      BY <3>1, <3>2, <3>3, Zenon DEF LockInv
  <2>5. QED
    BY <2>4
<1>4. QED
  BY <1>1, <1>3, Zenon DEF GroupInv

\* The operation ends outside of check_membership_and.
LEMMA OpEnds ==
  ASSUME GroupInv, NEW c \in Cpus,
         Ends(c), ~Within(c), run[c].pc \in {"do", "unlock"},
         UNCHANGED <<entLock, dontLock, members, bypassed>>,
         \A i \in Ids \ {Group(c)} : grpLock'[i] = grpLock[i],
         tabLock' = tabLock \/ run[c].kind = "new",
         unchecked' => unchecked, GroupTypes'
  PROVE  GroupInv'
<1> DEFINE g == Group(c)
           Rest == ~bypassed' => LockInv'
<1>0. /\ g \in Ids /\ GroupTypes
      /\ \A d \in Cpus : run[d].pc # "idle" => Group(d) \in Ids
      /\ \A d \in Cpus : Inside(d) \/ Flagged(d) \/ Unflagged(d) => run[d].pc # "idle"
      /\ \A d \in Cpus : Flagged(d) => Inside(d)
  BY InGroup, Zenon
<1>1. (\A d \in Cpus : KindAt(d)') /\ TableInv' /\ EntryInv'
  BY <1>0, OpKeepsTable, SMTT(40) DEF OpPlaces
<1>2. Ends(c)
  BY Zenon
<1>3. Rest
  <2>1. \A d \in Cpus \ {c} :
          /\ Inside(d)' = Inside(d) /\ Flagged(d)' = Flagged(d)
          /\ Unflagged(d)' = Unflagged(d) /\ Group(d)' = Group(d)
          /\ Within(d)' = Within(d) /\ run'[d] = run[d]
    BY <1>2, OthersSame, Zenon DEF Moves, Ends
  <2>2. /\ ~Inside(c)' /\ Inside(c) /\ ~Flagged(c)' /\ ~Flagged(c)
        /\ ~Unflagged(c)' /\ run'[c].pc = "idle"
    BY Zenon DEF Ends, Inside, Flagged, Unflagged, At
  <2>4. ASSUME ~bypassed' PROVE LockInv'
    <3>0. Exclusive /\ FlagInv /\ MemberInv
      BY <2>4, Zenon DEF GroupInv, LockInv
    <3>1. Exclusive'
      BY <1>0, <3>0, <2>1, <2>2, ExclusiveLeft, Zenon
    <3>2. FlagInv'
      BY <1>0, <3>0, <2>1, <2>2, FlagKept, Zenon
    <3>3. MemberInv'
      BY <1>0, <2>4, <3>0, <2>1, <2>2 DEF MemberInv, At
    <3>4. QED
      BY <3>1, <3>2, <3>3, Zenon DEF LockInv
  <2>5. QED
    BY <2>4
<1>4. QED
  BY <1>1, <1>3, ZenonT(40) DEF GroupInv

\* An operation reads _dont_lock.
LEMMA ReadFlagPreserves == ASSUME GroupInv, NEW c \in Cpus, ReadFlag(c) PROVE GroupInv'
<1> USE DEF OpPlaces
<1> DEFINE g == Group(c)
           Rest == ~bypassed' => LockInv'
<1>0. /\ g \in Ids /\ GroupTypes
      /\ \A d \in Cpus : run[d].pc # "idle" => Group(d) \in Ids
      /\ \A d \in Cpus : Inside(d) \/ Flagged(d) \/ Unflagged(d) => run[d].pc # "idle"
      /\ \A d \in Cpus : Flagged(d) => Inside(d)
  BY InGroup, Zenon DEF ReadFlag, At
<1>1. PICK p \in {"do", "lock"} :
        /\ run[c].pc = "flag" /\ Goto(c, p)
        /\ p = "do" <=> Op(c) = "get_object" \/ dontLock[g]
  BY Zenon DEF ReadFlag, At
<1>2. Moves(c, p) /\ run' \in [Cpus -> Calls \cup {Idle}]
  BY <1>0, <1>1, GotoMoves DEF Places
<1>3. bypassed' \in BOOLEAN /\ (~bypassed' => ~bypassed /\ (dontLock[g] <=> Within(c)))
  BY <1>0, Zenon DEF ReadFlag, GroupTypes
<1>4. ~bypassed' => (p = "do" <=> Within(c))
  BY <1>1, <1>3, Zenon DEF ReadFlag
<1>5. GroupTypes'
  BY <1>0, <1>2, <1>3 DEF ReadFlag, GroupTypes, groups, locks
<1>6. (\A d \in Cpus : KindAt(d)') /\ TableInv' /\ EntryInv'
  <2>1. ~Ends(c) /\ UNCHANGED <<tabLock, entLock>>
    BY <1>2, Zenon DEF ReadFlag, Moves, Ends, locks
  <2>2. QED
    BY <1>0, <1>1, <1>2, <2>1, OpKeepsTable
<1>7. Rest
  <2>1. \A d \in Cpus \ {c} :
          /\ Inside(d)' = Inside(d) /\ Flagged(d)' = Flagged(d)
          /\ Unflagged(d)' = Unflagged(d) /\ Group(d)' = Group(d)
          /\ Within(d)' = Within(d) /\ run'[d] = run[d]
    BY <1>2, OthersSame, Zenon DEF Moves, Ends
  <2>2. ASSUME ~bypassed'
        PROVE  /\ Inside(c)' = Within(c) /\ Inside(c) = Within(c)
               /\ Flagged(c)' = Within(c) /\ Flagged(c) = Within(c)
               /\ Unflagged(c)' = ~Within(c) /\ Within(c)' = Within(c)
               /\ Group(c)' = g /\ run'[c].pc = p /\ run'[c].t = run[c].t
    BY <1>1, <1>2, <1>4, <2>2, Zenon
       DEF Moves, Inside, Flagged, Unflagged, At, Within, Group
  <2>3. UNCHANGED <<grpLock, dontLock, members, unchecked>>
    BY DEF ReadFlag, locks, groups
  <2>4. ASSUME ~bypassed' PROVE LockInv'
    <3>0. Exclusive /\ FlagInv /\ MemberInv
      BY <2>4, <1>3, Zenon DEF GroupInv, LockInv
    <3>1. Exclusive'
      BY <1>0, <2>4, <3>0, <2>1, <2>2, <2>3, ExclusiveKept, Zenon
    <3>2. FlagInv'
      BY <1>3, <2>4, <3>0, <2>1, <2>2, <2>3, FlagKept, Zenon
    <3>3. MemberInv'
      BY <1>0, <2>4, <3>0, <1>1, <1>4, <2>1, <2>2, <2>3 DEF MemberInv, At
    <3>4. QED
      BY <3>1, <3>2, <3>3, Zenon DEF LockInv
  <2>5. QED
    BY <2>4
<1>8. QED
  BY <1>5, <1>6, <1>7, Zenon DEF GroupInv

\* It takes the lock.
LEMMA TakeLockPreserves == ASSUME GroupInv, NEW c \in Cpus, TakeLock(c) PROVE GroupInv'
<1> USE DEF OpPlaces
<1> DEFINE g == Group(c)
           Rest == ~bypassed' => LockInv'
<1>0. /\ g \in Ids /\ GroupTypes
      /\ \A d \in Cpus : run[d].pc # "idle" => Group(d) \in Ids
      /\ \A d \in Cpus : Inside(d) \/ Flagged(d) \/ Unflagged(d) => run[d].pc # "idle"
      /\ \A d \in Cpus : Flagged(d) => Inside(d)
  BY InGroup, Zenon DEF TakeLock, At
<1>1. run[c].pc = "lock" /\ Goto(c, "do")
  BY Zenon DEF TakeLock, At
<1>2. Moves(c, "do") /\ run' \in [Cpus -> Calls \cup {Idle}]
  BY <1>0, <1>1, GotoMoves DEF Places
<1>3. GroupTypes'
  BY <1>0, <1>2, Zenon DEF TakeLock, GroupTypes, groups, notes
<1>4. (\A d \in Cpus : KindAt(d)') /\ TableInv' /\ EntryInv'
  <2>1. ~Ends(c) /\ UNCHANGED <<tabLock, entLock>>
    BY <1>2, Zenon DEF TakeLock, Moves, Ends
  <2>2. QED
    BY <1>0, <1>1, <1>2, <2>1, OpKeepsTable
<1>5. Rest
  <2>1. \A d \in Cpus \ {c} :
          /\ Inside(d)' = Inside(d) /\ Flagged(d)' = Flagged(d)
          /\ Unflagged(d)' = Unflagged(d) /\ Group(d)' = Group(d)
          /\ Within(d)' = Within(d) /\ run'[d] = run[d]
    BY <1>2, OthersSame, Zenon DEF Moves, Ends
  <2>2. /\ Inside(c)' /\ Flagged(c)' = Within(c) /\ Unflagged(c)' = ~Within(c)
        /\ ~Flagged(c) /\ Unflagged(c) = ~Within(c)
        /\ Within(c)' = Within(c) /\ Group(c)' = g /\ run'[c].pc = "do"
    BY <1>1, <1>2, Zenon DEF Moves, Inside, Flagged, Unflagged, At, Within, Group
  <2>3. /\ ~grpLock[g] /\ grpLock' = [grpLock EXCEPT ![g] = TRUE]
        /\ UNCHANGED <<dontLock, members, bypassed, unchecked>>
    BY DEF TakeLock, groups, notes
  <2>4. ASSUME ~bypassed' PROVE LockInv'
    <3>0. Exclusive /\ FlagInv /\ MemberInv
      BY <2>4, <2>3, Zenon DEF GroupInv, LockInv
    <3>1. Exclusive'
      <4>1. grpLock'[g] /\ \A i \in Ids : grpLock[i] => grpLock'[i]
        BY <1>0, <2>3, Zenon DEF GroupTypes
      <4>2. QED
        BY <1>0, <3>0, <2>1, <2>2, <2>3, <4>1, ExclusiveTaken, Zenon
    <3>2. FlagInv'
      <4>1. ~Within(c)
        BY <1>1, <3>0, Zenon DEF MemberInv, At
      <4>2. QED
        BY <2>1, <2>2, <2>3, <3>0, <4>1, FlagKept, Zenon
    <3>3. MemberInv'
      BY <1>0, <2>4, <3>0, <1>1, <2>1, <2>2, <2>3 DEF MemberInv, At
    <3>4. QED
      BY <3>1, <3>2, <3>3, Zenon DEF LockInv
  <2>5. QED
    BY <2>4
<1>6. QED
  BY <1>3, <1>4, <1>5, Zenon DEF GroupInv

\* add_member and remove_member.
LEMMA DoMemberPreserves == ASSUME GroupInv, NEW c \in Cpus, DoMember(c) PROVE GroupInv'
<1> USE DEF OpPlaces
<1> DEFINE g == Group(c)
           Rest == ~bypassed' => LockInv'
<1>0. /\ g \in Ids /\ GroupTypes
      /\ \A d \in Cpus : run[d].pc # "idle" => Group(d) \in Ids
      /\ \A d \in Cpus : Inside(d) \/ Flagged(d) \/ Unflagged(d) => run[d].pc # "idle"
      /\ \A d \in Cpus : Flagged(d) => Inside(d)
  BY InGroup, Zenon DEF DoMember, Effect, At
<1>1. /\ run[c].pc = "do" /\ Goto(c, "unlock")
      /\ UNCHANGED <<locks, nextGroup, alive, dontLock, bypassed, nextId>>
      /\ unchecked' = (unchecked \/ (Within(c) /\ run[c].t \notin members[g]))
  BY Zenon DEF DoMember, Effect, At
<1>2. Moves(c, "unlock") /\ run' \in [Cpus -> Calls \cup {Idle}]
  BY <1>0, <1>1, GotoMoves, Zenon DEF Places
<1>3. /\ members' \in [Ids -> SUBSET Threads]
      /\ \A i \in Ids \ {g} : members'[i] = members[i]
  <2>1. run[c] \in Calls
    BY <1>0, <1>1, SMTT(40) DEF GroupTypes, Idle
  <2>2. Op(c) = "add_member" => run[c].op[2] \in Threads
    BY <2>1 DEF Calls, Ops, Op
  <2>3. QED
    BY <1>0, <2>2 DEF DoMember, GroupTypes
<1>4. GroupTypes'
  BY <1>0, <1>1, <1>2, <1>3 DEF GroupTypes, locks
<1>5. QED
  BY OpMoves, <1>1, <1>2, <1>3, <1>4, Zenon DEF locks

\* add_object reads _next_id.
LEMMA DoReadPreserves == ASSUME GroupInv, NEW c \in Cpus, DoRead(c) PROVE GroupInv'
<1> USE DEF OpPlaces
<1> DEFINE g == Group(c)
           Rest == ~bypassed' => LockInv'
<1>0. /\ g \in Ids /\ GroupTypes
      /\ \A d \in Cpus : run[d].pc # "idle" => Group(d) \in Ids
      /\ \A d \in Cpus : Inside(d) \/ Flagged(d) \/ Unflagged(d) => run[d].pc # "idle"
      /\ \A d \in Cpus : Flagged(d) => Inside(d)
  BY InGroup, Zenon DEF DoRead, Effect, At
<1>1. /\ run[c].pc = "do"
      /\ run' = [run EXCEPT ![c] = [run[c] EXCEPT !.pc = "store", !.h = nextId[g]]]
      /\ UNCHANGED <<locks, nextGroup, alive, dontLock, bypassed, members, nextId>>
      /\ unchecked' = (unchecked \/ (Within(c) /\ run[c].t \notin members[g]))
  BY Zenon DEF DoRead, Effect, At
<1>2. run[c] \in Calls /\ nextId[g] \in Nat
  BY <1>0, <1>1 DEF GroupTypes, Idle
<1>3. Moves(c, "store") /\ run' \in [Cpus -> Calls \cup {Idle}]
  BY <1>0, <1>1, <1>2, Zenon DEF Moves, Calls, Places, GroupTypes
<1>4. GroupTypes'
  BY <1>0, <1>1, <1>3, Zenon DEF GroupTypes, locks
<1>5. QED
  BY OpMoves, <1>1, <1>3, <1>4, Zenon DEF locks

\* add_object stores the object and counts _next_id.
LEMMA DoStorePreserves == ASSUME GroupInv, NEW c \in Cpus, DoStore(c) PROVE GroupInv'
<1> USE DEF OpPlaces
<1> DEFINE g == Group(c)
           Rest == ~bypassed' => LockInv'
<1>0. /\ g \in Ids /\ GroupTypes
      /\ \A d \in Cpus : run[d].pc # "idle" => Group(d) \in Ids
      /\ \A d \in Cpus : Inside(d) \/ Flagged(d) \/ Unflagged(d) => run[d].pc # "idle"
      /\ \A d \in Cpus : Flagged(d) => Inside(d)
  BY InGroup, Zenon DEF DoStore, At
<1>1. /\ run[c].pc = "store" /\ Goto(c, "unlock")
      /\ UNCHANGED <<locks, nextGroup, alive, dontLock, bypassed, members, unchecked>>
      /\ nextId' = [nextId EXCEPT ![g] = @ + 1]
  BY DEF DoStore, At, notes
<1>2. Moves(c, "unlock") /\ run' \in [Cpus -> Calls \cup {Idle}]
  BY <1>0, <1>1, GotoMoves DEF Places
<1>3. GroupTypes'
  BY <1>0, <1>1, <1>2, SMTT(40) DEF GroupTypes, locks
<1>4. QED
  BY OpMoves, <1>1, <1>2, <1>3 DEF locks

\* remove_object.
LEMMA DoRemovePreserves == ASSUME GroupInv, NEW c \in Cpus, DoRemove(c) PROVE GroupInv'
<1> USE DEF OpPlaces
<1> DEFINE g == Group(c)
           Rest == ~bypassed' => LockInv'
<1>0. /\ g \in Ids /\ GroupTypes
      /\ \A d \in Cpus : run[d].pc # "idle" => Group(d) \in Ids
      /\ \A d \in Cpus : Inside(d) \/ Flagged(d) \/ Unflagged(d) => run[d].pc # "idle"
      /\ \A d \in Cpus : Flagged(d) => Inside(d)
  BY InGroup, Zenon DEF DoRemove, Effect, At
<1>1. /\ run[c].pc = "do" /\ \E p \in {"halted", "unlock"} : Goto(c, p)
      /\ UNCHANGED <<locks, nextGroup, alive, dontLock, bypassed, members, nextId>>
      /\ unchecked' = (unchecked \/ (Within(c) /\ run[c].t \notin members[g]))
  BY ZenonT(40) DEF DoRemove, Effect, At
<1>2. PICK p \in {"halted", "unlock"} :
        Moves(c, p) /\ run' \in [Cpus -> Calls \cup {Idle}]
  BY <1>0, <1>1, GotoMoves DEF Places
<1>3. GroupTypes'
  BY <1>0, <1>1, <1>2, SMTT(40) DEF GroupTypes, locks
<1>4. QED
  BY OpMoves, <1>1, <1>2, <1>3, Zenon DEF locks

\* get_object.
LEMMA DoGetPreserves == ASSUME GroupInv, NEW c \in Cpus, DoGet(c) PROVE GroupInv'
<1> USE DEF OpPlaces
<1> DEFINE g == Group(c)
           Rest == ~bypassed' => LockInv'
<1>0. /\ g \in Ids /\ GroupTypes
      /\ \A d \in Cpus : run[d].pc # "idle" => Group(d) \in Ids
      /\ \A d \in Cpus : Inside(d) \/ Flagged(d) \/ Unflagged(d) => run[d].pc # "idle"
      /\ \A d \in Cpus : Flagged(d) => Inside(d)
  BY InGroup, Zenon DEF DoGet, Effect, At
<1>1. /\ run[c].pc = "do"
      /\ IF Within(c) THEN Goto(c, "clear") ELSE Return(c)
      /\ UNCHANGED <<locks, nextGroup, alive, dontLock, bypassed, members, nextId>>
      /\ unchecked' = (unchecked \/ (Within(c) /\ run[c].t \notin members[g]))
  BY SMTT(40) DEF DoGet, Effect, At
<1>2. CASE Within(c)
  <2>1. Moves(c, "clear") /\ run' \in [Cpus -> Calls \cup {Idle}]
    BY <1>0, <1>1, <1>2, GotoMoves, Zenon DEF Places
  <2>2. GroupTypes'
    BY <1>0, <1>1, <2>1, SMTT(40) DEF GroupTypes, locks
  <2>3. QED
    BY OpMoves, <1>1, <1>2, <2>1, <2>2, ZenonT(40) DEF locks
<1>3. CASE ~Within(c)
  <2>1. Ends(c) /\ run' \in [Cpus -> Calls \cup {Idle}]
    BY <1>0, <1>1, <1>3, ReturnEnds, Zenon
  <2>2. GroupTypes'
    BY <1>0, <1>1, <2>1 DEF GroupTypes, locks
  <2>3. QED
    BY OpEnds, <1>1, <1>3, <2>1, <2>2, ZenonT(40) DEF locks
<1>4. QED
  BY <1>2, <1>3, SMTT(40)

\* The operation ends.
LEMMA UnlockPreserves == ASSUME GroupInv, NEW c \in Cpus, Unlock(c) PROVE GroupInv'
<1> USE DEF OpPlaces
<1> DEFINE g == Group(c)
           Rest == ~bypassed' => LockInv'
<1>0. /\ g \in Ids /\ GroupTypes
      /\ \A d \in Cpus : run[d].pc # "idle" => Group(d) \in Ids
      /\ \A d \in Cpus : Inside(d) \/ Flagged(d) \/ Unflagged(d) => run[d].pc # "idle"
      /\ \A d \in Cpus : Flagged(d) => Inside(d)
  BY InGroup, Zenon DEF Unlock, At
<1>1. /\ run[c].pc = "unlock"
      /\ IF Within(c) THEN Goto(c, "clear") ELSE Return(c)
      /\ grpLock' = [grpLock EXCEPT ![g] = IF dontLock[g] THEN @ ELSE FALSE]
      /\ tabLock' = IF run[c].kind = "new" THEN FALSE ELSE tabLock
      /\ UNCHANGED <<entLock, nextGroup, alive, members, nextId, dontLock,
                     bypassed, unchecked>>
  BY DEF Unlock, At, groups, notes
<1>2. grpLock' \in [Ids -> BOOLEAN] /\ tabLock' \in BOOLEAN
  BY <1>0, <1>1, Zenon DEF GroupTypes
<1>3. CASE Within(c)
  <2>1. Moves(c, "clear") /\ run' \in [Cpus -> Calls \cup {Idle}]
    BY <1>0, <1>1, <1>3, GotoMoves DEF Places
  <2>2. GroupTypes'
    BY <1>0, <1>1, <1>2, <2>1, Zenon DEF GroupTypes
  <2>3. (\A d \in Cpus : KindAt(d)') /\ TableInv' /\ EntryInv'
    <3>1. ~Ends(c) /\ UNCHANGED <<tabLock, entLock>>
      BY <1>1, <1>3, <2>1, SMTT(40) DEF Moves, Ends, Within
    <3>2. QED
      BY <1>0, <1>1, <1>3, <2>1, <3>1, OpKeepsTable, Zenon
  <2>4. Rest
    <3>1. \A d \in Cpus \ {c} :
            /\ Inside(d)' = Inside(d) /\ Flagged(d)' = Flagged(d)
            /\ Unflagged(d)' = Unflagged(d) /\ Group(d)' = Group(d)
            /\ Within(d)' = Within(d) /\ run'[d] = run[d]
      BY <2>1, OthersSame, Zenon DEF Moves
    <3>2. /\ Inside(c)' /\ Inside(c) /\ Flagged(c)' /\ Flagged(c)
          /\ ~Unflagged(c)' /\ Group(c)' = g /\ run'[c].pc = "clear"
      BY <1>1, <1>3, <2>1, SMTT(40) DEF Moves, Inside, Flagged, Unflagged, At, Within, Group
    <3>3. ASSUME ~bypassed' PROVE LockInv'
      <4>1. Exclusive /\ FlagInv /\ MemberInv
        BY <1>1, <3>3, Zenon DEF GroupInv, LockInv
      <4>2. dontLock[g]
        BY <3>2, <4>1, Zenon DEF FlagInv
      <4>3. grpLock' = grpLock
        BY <1>0, <1>1, <4>2, Zenon DEF GroupTypes
      <4>4. Exclusive'
        BY <3>1, <3>2, <4>1, <4>3, ExclusiveKept, Zenon
      <4>5. FlagInv'
        BY <1>1, <3>1, <3>2, <4>1, FlagKept, Zenon
      <4>6. MemberInv'
        BY <1>1, <3>1, <3>2, <4>1, MemberKept, Zenon
      <4>7. QED
        BY <4>4, <4>5, <4>6, Zenon DEF LockInv
    <3>4. QED
      BY <3>3, Zenon
  <2>5. QED
    BY <2>2, <2>3, <2>4 DEF GroupInv
<1>4. CASE ~Within(c)
  <2>1. Ends(c) /\ run' \in [Cpus -> Calls \cup {Idle}]
    BY <1>0, <1>1, <1>4, ReturnEnds
  <2>2. GroupTypes'
    BY <1>0, <1>1, <1>2, <2>1, Zenon DEF GroupTypes
  <2>3. /\ \A i \in Ids \ {g} : grpLock'[i] = grpLock[i]
        /\ tabLock' = tabLock \/ run[c].kind = "new"
    BY <1>0, <1>1, Zenon DEF GroupTypes
  <2>4. QED
    BY OpEnds, <1>1, <1>4, <2>1, <2>2, <2>3, Zenon
<1>5. QED
  BY <1>3, <1>4

\* Every step preserves the invariant.
LEMMA NextGroupInv == GroupInv /\ [Next]_vars => GroupInv'
<1> SUFFICES ASSUME GroupInv, [Next]_vars PROVE GroupInv'
  OBVIOUS
<1>1. CASE UNCHANGED vars
  <2>1. UNCHANGED <<run, tabLock, entLock, grpLock, nextGroup, alive, members,
                    nextId, dontLock, bypassed, unchecked>>
    BY <1>1 DEF vars, locks, groups, notes
  <2>2. GroupTypes'
    BY <2>1 DEF GroupInv, GroupTypes
  <2>3. (\A c \in Cpus : KindAt(c)') /\ TableInv' /\ EntryInv'
    BY <2>1, Zenon DEF GroupInv, KindAt, At, TableInv, EntryInv, HoldsTable,
         HoldsEntry, Group
  <2>4. ~bypassed' => LockInv'
    <3>1. \A c \in Cpus :
            /\ Inside(c)' = Inside(c) /\ Flagged(c)' = Flagged(c)
            /\ Unflagged(c)' = Unflagged(c) /\ Group(c)' = Group(c)
            /\ Within(c)' = Within(c)
      BY <2>1, Zenon DEF Inside, Flagged, Unflagged, At, Within, Group
    <3>2. QED
      BY <2>1, <3>1, ExclusiveKept, FlagKept, MemberKept, Zenon DEF GroupInv, LockInv
  <2>5. QED
    BY <2>2, <2>3, <2>4 DEF GroupInv
<1>2. CASE Next
  BY <1>2, CallPreserves, TablePreserves, CheckPreserves, ReadFlagPreserves,
       TakeLockPreserves, DoMemberPreserves, DoReadPreserves, DoStorePreserves,
       DoRemovePreserves, DoGetPreserves, UnlockPreserves DEF Next
<1>3. QED
  BY <1>1, <1>2

\* The invariant holds throughout.
LEMMA SpecGroupInv == Spec => []GroupInv
  BY InitGroupInv, NextGroupInv, PTL DEF Spec

\* remove_group deletes a group alone, for any number of CPUs and groups: no
\* other call through the table is inside the group, though new_group does not
\* take the lock of its entry and check_membership_and not that of the table.
THEOREM SpecDeleteAlone == Spec => []DeleteAlone
<1>1. GroupInv => DeleteAlone
  <2> SUFFICES ASSUME GroupInv, NEW c \in Cpus, NEW d \in Cpus,
                      At(c, "delete"), c # d, run[d].pc # "idle",
                      run[d].kind # "direct",
                      run[d].pc \notin {"table", "insert", "entry"}
               PROVE  Group(d) # Group(c)
    BY DEF DeleteAlone
  <2>1. HoldsTable(c) /\ HoldsEntry(c)
    BY DEF GroupInv, KindAt, At, HoldsTable, HoldsEntry
  <2>2. HoldsTable(d) \/ HoldsEntry(d)
    BY SMTT(40) DEF GroupInv, GroupTypes, Calls, Kinds, Idle, HoldsTable, HoldsEntry
  <2>3. QED
    BY <2>1, <2>2 DEF GroupInv, TableInv, EntryInv
<1>2. QED
  BY <1>1, SpecGroupInv, PTL

\* What check_membership_and has checked still holds when the operation takes
\* effect, for any number of CPUs, threads and groups, as long as no operation
\* has read a _dont_lock that is not its own.
THEOREM SpecCheckedThenActed == Spec => []CheckedThenActed
<1>1. GroupInv => CheckedThenActed
  BY DEF GroupInv, LockInv, MemberInv, CheckedThenActed
<1>2. QED
  BY <1>1, SpecGroupInv, PTL

-----------------------------------------------------------------------------
(* Objects and their handles.                                              *)

Held(i) == {h \in Handles : objects[i][h] = Object}

KeptTypes ==
  /\ objects \in [Ids -> [Handles -> {Absent, Null, Object}]]
  /\ kept \in [Ids -> Int]

\* Handles from _next_id on are unused, and the one that add_object has read is
\* still the next when it counts it.
KeptInv ==
  /\ \A i \in Ids : kept[i] = Cardinality(Held(i))
  /\ \A i \in Ids, h \in Handles : h >= nextId[i] => objects[i][h] # Object
  /\ \A c \in Cpus : At(c, "store") =>
       run[c].h = nextId[Group(c)] /\ run[c].h \in Handles

ObjectInv == GroupInv /\ KeptTypes /\ (~bypassed => KeptInv)

\* Handles are finitely many numbers.
LEMMA HeldFinite == \A i : IsFiniteSet(Held(i)) /\ Held(i) \subseteq Handles
<1>1. IsFiniteSet(Handles)
  BY FS_Interval, MaxAssumption DEF Handles
<1>2. \A i : Held(i) \subseteq Handles
  BY DEF Held
<1>3. QED
  BY <1>1, <1>2, FS_Subset

\* At the start there are no groups and no objects.
LEMMA InitObjectInv == Init => ObjectInv
<1> SUFFICES ASSUME Init PROVE ObjectInv
  OBVIOUS
<1>1. KeptTypes
  BY DEF Init, KeptTypes
<1>2. \A i \in Ids : Held(i) = {}
  BY DEF Init, Held, Absent, Object
<1>3. \A i \in Ids, h \in Handles : objects[i][h] # Object
  BY DEF Init, Absent, Object
<1>4. \A i \in Ids : kept[i] = Cardinality(Held(i))
  <2>1. \A i \in Ids : kept[i] = 0
    BY DEF Init
  <2>2. QED
    BY <1>2, <2>1, FS_EmptySet, Zenon
<1>5. KeptInv
  BY <1>3, <1>4 DEF KeptInv, Init, Idle, At
<1>6. QED
  BY <1>1, <1>5, InitGroupInv DEF ObjectInv

\* Steps that leave the objects alone.
LEMMA KeptSame ==
  ASSUME ObjectInv, NEW c \in Cpus, UNCHANGED <<objects, nextId, kept>>,
         \A d \in Cpus \ {c} : run'[d] = run[d], run'[c].pc # "store",
         ~bypassed' => ~bypassed
  PROVE  KeptTypes' /\ (~bypassed' => KeptInv')
<1>1. KeptTypes'
  BY DEF ObjectInv, KeptTypes
<1>2. \A i \in Ids : Held(i)' = Held(i)
  BY DEF Held
<1>3. QED
  BY <1>1, <1>2 DEF ObjectInv, KeptInv, At, Group

\* The steps of calls that do not touch the objects of a group.
LEMMA OtherKeeps ==
  ASSUME ObjectInv, NEW c \in Cpus,
         \/ Call(c) \/ TakeTable(c) \/ Insert(c) \/ TakeEntry(c) \/ Delete(c)
         \/ TakeGroup(c) \/ Check(c) \/ Clear(c) \/ Release(c)
         \/ ReadFlag(c) \/ TakeLock(c) \/ DoMember(c) \/ Unlock(c)
  PROVE  KeptTypes' /\ (~bypassed' => KeptInv')
<1>0. GroupTypes
  BY Zenon DEF ObjectInv, GroupInv
<1>1. UNCHANGED <<objects, nextId, kept>> /\ (~bypassed' => ~bypassed)
  <2>1. CASE Call(c)
    <3>1. UNCHANGED <<groups, notes>>
      BY <2>1, Zenon DEF Call, Start
    <3>2. QED
      BY <3>1 DEF groups, notes
  <2>2. CASE TakeTable(c) \/ TakeEntry(c)
    <3>1. UNCHANGED <<groups, notes>>
      BY <2>2, Zenon DEF TakeTable, TakeEntry
    <3>2. QED
      BY <3>1 DEF groups, notes
  <2>3. CASE Insert(c) \/ Delete(c)
    <3>1. UNCHANGED <<objects, nextId, kept, notes>>
      BY <2>3, Zenon DEF Insert, Delete
    <3>2. QED
      BY <3>1 DEF notes
  <2>8. CASE TakeGroup(c) \/ Check(c)
    <3>1. UNCHANGED <<groups, notes>>
      BY <2>8, Zenon DEF TakeGroup, Check
    <3>2. QED
      BY <3>1 DEF groups, notes
  <2>9. CASE Clear(c) \/ Release(c)
    <3>1. UNCHANGED <<groups, notes>>
      BY <2>9, Zenon DEF Clear, Release
    <3>2. QED
      BY <3>1 DEF groups, notes
  <2>4. CASE ReadFlag(c)
    <3>1. UNCHANGED <<objects, nextId, kept>>
      BY <2>4 DEF ReadFlag, groups
    <3>2. ~bypassed' => ~bypassed
      BY <2>4, Zenon DEF ReadFlag
    <3>3. QED
      BY <3>1, <3>2
  <2>5. CASE TakeLock(c) \/ Unlock(c)
    <3>1. UNCHANGED <<groups, notes>>
      BY <2>5, Zenon DEF TakeLock, Unlock
    <3>2. QED
      BY <3>1 DEF groups, notes
  <2>6. CASE DoMember(c)
    BY <2>6, Zenon DEF DoMember, Effect
  <2>7. QED
    BY <2>1, <2>2, <2>3, <2>4, <2>5, <2>6, <2>8, <2>9, Zenon
<1>2. CASE Call(c)
  <2>1. PICK place \in {"table", "entry", "flag"} :
          \E kind, t, i, op : Start(c, place, kind, t, i, op)
    BY <1>2, SMTT(40) DEF Call
  <2>2. PICK x : run' = [run EXCEPT ![c] = x] /\ x.pc = place
    <3>1. PICK kind, t, i, op : Start(c, place, kind, t, i, op)
      BY <2>1
    <3> DEFINE x == [pc |-> place, kind |-> kind, t |-> t, id |-> i,
                     op |-> op, h |-> 0]
    <3>2. run' = [run EXCEPT ![c] = x]
      BY <3>1, Zenon DEF Start
    <3>3. x.pc = place
      OBVIOUS
    <3>4. QED
      BY <3>2, <3>3, Zenon
  <2>3. DOMAIN run = Cpus
    BY <1>0, Zenon DEF GroupTypes
  <2>4. (\A d \in Cpus \ {c} : run'[d] = run[d]) /\ run'[c].pc = place
    BY <2>2, <2>3, Zenon
  <2>5. QED
    BY <1>1, <2>4, KeptSame, Zenon
<1>3. CASE Insert(c)
  <2>1. run[c] \in Calls
    BY <1>0, <1>3 DEF Insert, At, GroupTypes, Idle
  <2>2. run' = [run EXCEPT ![c] = [run[c] EXCEPT !.pc = "flag", !.id = nextGroup]]
    BY <1>3, Zenon DEF Insert
  <2>3. (\A d \in Cpus \ {c} : run'[d] = run[d]) /\ run'[c].pc = "flag"
    BY <1>0, <2>1, <2>2 DEF GroupTypes, Calls
  <2>4. QED
    BY <1>1, <2>3, KeptSame, Zenon
<1>4. ASSUME NEW q \in Places \ {"store"}, run[c].pc # "idle", Goto(c, q)
      PROVE  KeptTypes' /\ (~bypassed' => KeptInv')
  BY <1>0, <1>1, <1>4, GotoMoves, KeptSame, ZenonT(40) DEF Moves
<1>5. CASE Return(c)
  BY <1>0, <1>1, <1>5, ReturnEnds, KeptSame, ZenonT(40) DEF Ends
<1>6. CASE TakeTable(c) \/ TakeEntry(c) \/ TakeGroup(c) \/ Check(c) \/ Clear(c)
  <2>1. run[c].pc # "idle" /\ \E q \in Places \ {"store"} : Goto(c, q)
    BY <1>6, ZenonT(40) DEF TakeTable, TakeEntry, TakeGroup, Check, Clear, At, Places
  <2>2. QED
    BY <1>4, <2>1, ZenonT(40)
<1>7. CASE ReadFlag(c) \/ TakeLock(c) \/ DoMember(c) \/ Unlock(c)
  <2>1. run[c].pc # "idle" /\ (Return(c) \/ \E q \in Places \ {"store"} : Goto(c, q))
    BY <1>7, Zenon DEF ReadFlag, TakeLock, DoMember, Effect, Unlock, At, Places
  <2>2. QED
    BY <1>4, <1>5, <2>1, Zenon
<1>8. CASE Delete(c) \/ Release(c)
  BY <1>5, <1>8, Zenon DEF Delete, Release
<1>9. QED
  BY <1>2, <1>3, <1>6, <1>7, <1>8

\* The facts about a CPU at such a step.
LEMMA AtObject ==
  ASSUME ObjectInv, NEW c \in Cpus, run[c].pc \in {"do", "store"}
  PROVE  /\ run[c] \in Calls /\ Group(c) \in Ids
         /\ GroupInv /\ GroupTypes /\ KeptTypes
<1>1. GroupInv /\ GroupTypes /\ KeptTypes
  BY DEF ObjectInv, GroupInv
<1>2. run[c] \in Calls
  BY <1>1 DEF GroupTypes, Idle
<1>3. QED
  BY <1>1, <1>2 DEF Calls, Group

Values == {Absent, Null, Object}

\* One entry of a group's objects changes.
LEMMA SetObject ==
  ASSUME KeptTypes, NEW g \in Ids, NEW x, NEW v \in Values,
         objects' = [objects EXCEPT ![g] = [objects[g] EXCEPT ![x] = v]]
  PROVE  /\ objects' \in [Ids -> [Handles -> Values]]
         /\ \A i \in Ids \ {g} : objects'[i] = objects[i]
         /\ \A h \in Handles : objects'[g][h] = IF h = x THEN v ELSE objects[g][h]
<1>1. objects[g] \in [Handles -> Values]
  BY DEF KeptTypes, Values
<1>2. [objects[g] EXCEPT ![x] = v] \in [Handles -> Values]
  BY <1>1, Zenon
<1>3. objects'[g] = [objects[g] EXCEPT ![x] = v]
  BY DEF KeptTypes
<1>4. QED
  BY <1>1, <1>2, <1>3 DEF KeptTypes, Values

\* add_object reads the next handle.
LEMMA DoReadKeeps ==
  ASSUME ObjectInv, NEW c \in Cpus, DoRead(c)
  PROVE  KeptTypes' /\ (~bypassed' => KeptInv')
<1> DEFINE g == Group(c)
<1>0. /\ run[c].pc \in {"do", "store"} /\ run[c] \in Calls /\ g \in Ids
      /\ GroupInv /\ GroupTypes /\ KeptTypes /\ bypassed' = bypassed
  <2>1. run[c].pc \in {"do", "store"} /\ bypassed' = bypassed
    BY DEF DoRead, Effect, At
  <2>2. QED
    BY <2>1, AtObject, Zenon
<1>1. /\ nextId[g] \in Handles /\ UNCHANGED <<objects, nextId, kept>>
      /\ run' = [run EXCEPT ![c] = [run[c] EXCEPT !.pc = "store", !.h = nextId[g]]]
  BY Zenon DEF DoRead
<1>2. /\ run'[c].h = nextId[g] /\ Group(c)' = g
      /\ \A d \in Cpus \ {c} : run'[d] = run[d]
  BY <1>0, <1>1 DEF GroupTypes, Calls, Group
<1>3. \A i \in Ids : Held(i)' = Held(i)
  BY <1>1 DEF Held
<1>4. KeptTypes'
  BY <1>0, <1>1, Zenon DEF KeptTypes
<1>5. QED
  BY <1>0, <1>1, <1>2, <1>3, <1>4 DEF ObjectInv, KeptInv, At, Group

\* add_object stores the object under the handle it has read.
LEMMA DoStoreKeeps ==
  ASSUME ObjectInv, NEW c \in Cpus, DoStore(c)
  PROVE  KeptTypes' /\ (~bypassed' => KeptInv')
<1> DEFINE g == Group(c)
<1>0. /\ run[c].pc \in {"do", "store"} /\ run[c] \in Calls /\ g \in Ids
      /\ GroupInv /\ GroupTypes /\ KeptTypes /\ bypassed' = bypassed
  <2>1. run[c].pc \in {"do", "store"} /\ bypassed' = bypassed
    BY DEF DoStore, At, notes
  <2>2. QED
    BY <2>1, AtObject, Zenon
<1> DEFINE x == run[c].h
<1>1. /\ run[c].pc = "store" /\ Goto(c, "unlock")
      /\ nextId' = [nextId EXCEPT ![g] = @ + 1]
      /\ objects' = [objects EXCEPT ![g] = [objects[g] EXCEPT ![x] = Object]]
      /\ kept' = [kept EXCEPT ![g] = @ + 1]
  BY DEF DoStore, At
<1>2. Moves(c, "unlock")
  BY <1>0, <1>1, GotoMoves, SMTT(40) DEF Places
<1>3. /\ objects' \in [Ids -> [Handles -> Values]]
      /\ \A i \in Ids \ {g} : objects'[i] = objects[i] /\ kept'[i] = kept[i]
      /\ \A h \in Handles : objects'[g][h] = IF h = x THEN Object ELSE objects[g][h]
      /\ kept' \in [Ids -> Int] /\ kept'[g] = kept[g] + 1
  <2>1. kept[g] + 1 \in Int /\ kept' = [kept EXCEPT ![g] = kept[g] + 1]
    BY <1>0, <1>1 DEF KeptTypes
  <2>2. /\ kept' \in [Ids -> Int] /\ \A i \in Ids \ {g} : kept'[i] = kept[i]
        /\ kept'[g] = kept[g] + 1
    BY <1>0, <2>1 DEF KeptTypes
  <2>3. Object \in Values
    BY Zenon DEF Values
  <2>4. QED
    BY <1>0, <1>1, SetObject, <2>2, <2>3, ZenonT(40)
<1>4. ASSUME ~bypassed' PROVE KeptInv'
  <2>1. KeptInv /\ LockInv
    BY <1>0, <1>4, Zenon DEF ObjectInv, GroupInv
  <2>2. x = nextId[g] /\ x \in Handles /\ x \notin Held(g)
    <3>1. x = nextId[g] /\ x \in Handles
      BY <1>1, <2>1, ZenonT(40) DEF KeptInv, At
    <3>2. QED
      BY <1>0, <2>1, <3>1, SMTT(40) DEF KeptInv, Held, Handles
  <2>3. \A i \in Ids : Held(i)' = IF i = g THEN Held(i) \cup {x} ELSE Held(i)
    BY <1>0, <1>3, <2>2 DEF Held
  <2>4. Cardinality(Held(g) \cup {x}) = Cardinality(Held(g)) + 1
    BY <2>2, HeldFinite, FS_AddElement, Zenon
  <2>5. \A i \in Ids : kept'[i] = Cardinality(Held(i)')
    <3>1. /\ kept[g] = Cardinality(Held(g))
          /\ \A i \in Ids \ {g} : kept[i] = Cardinality(Held(i))
      BY <1>0, <2>1, Zenon DEF KeptInv
    <3>2. ASSUME NEW i \in Ids, i = g PROVE kept'[i] = Cardinality(Held(i)')
      BY <1>0, <1>3, <2>3, <2>4, <3>1, <3>2, Zenon
    <3>3. ASSUME NEW i \in Ids, i # g PROVE kept'[i] = Cardinality(Held(i)')
      BY <1>3, <2>3, <3>1, <3>3, Zenon
    <3>4. QED
      BY <3>2, <3>3, Zenon
  <2>6. \A i \in Ids, h \in Handles : h >= nextId'[i] => objects'[i][h] # Object
    <3>1. nextId'[g] = x + 1 /\ \A i \in Ids \ {g} : nextId'[i] = nextId[i]
      BY <1>0, <1>1, <2>2 DEF GroupTypes
    <3>2. x \in Int /\ Handles \subseteq Int
      BY <2>2, SMTT(40) DEF Handles
    <3>3. ASSUME NEW h \in Handles, h >= x + 1 PROVE objects'[g][h] # Object
      <4>1. h # x /\ h >= nextId[g]
        BY <1>0, <2>2, <3>2, <3>3 DEF GroupTypes
      <4>2. objects'[g][h] = objects[g][h]
        BY <1>3, <4>1, Zenon
      <4>3. QED
        BY <1>0, <2>1, <4>1, <4>2, Zenon DEF KeptInv
    <3>4. ASSUME NEW i \in Ids \ {g}, NEW h \in Handles, h >= nextId[i]
          PROVE  objects'[i][h] # Object
      <4>1. objects'[i][h] = objects[i][h]
        BY <1>3, <3>4, Zenon
      <4>2. QED
        BY <2>1, <3>4, <4>1, Zenon DEF KeptInv
    <3>5. QED
      BY <3>1, <3>3, <3>4
  <2>7. ASSUME NEW d \in Cpus, At(d, "store")'
        PROVE  run'[d].h = nextId'[Group(d)'] /\ run'[d].h \in Handles
    <3>1. d # c /\ run'[d] = run[d] /\ run[d].pc = "store"
      BY <1>2, <2>7, Zenon DEF Moves, At
    <3>2. Group(d) # g /\ Group(d) \in Ids
      BY <1>0, <1>1, <2>1, <3>1, InCall, Zenon DEF LockInv, Exclusive, Inside
    <3>3. QED
      BY <1>0, <1>1, <2>1, <3>1, <3>2, Zenon DEF KeptInv, GroupTypes, At, Group
  <2>8. QED
    BY <2>5, <2>6, <2>7, Zenon DEF KeptInv
<1>5. QED
  BY <1>3, <1>4 DEF KeptTypes, Values

\* remove_object erases the handle.
LEMMA DoRemoveKeeps ==
  ASSUME ObjectInv, NEW c \in Cpus, DoRemove(c)
  PROVE  KeptTypes' /\ (~bypassed' => KeptInv')
<1> DEFINE g == Group(c)
<1>0. /\ run[c].pc \in {"do", "store"} /\ run[c] \in Calls /\ g \in Ids
      /\ GroupInv /\ GroupTypes /\ KeptTypes /\ bypassed' = bypassed
  <2>1. run[c].pc \in {"do", "store"} /\ bypassed' = bypassed
    BY DEF DoRemove, Effect, At
  <2>2. QED
    BY <2>1, AtObject, Zenon
<1> DEFINE x == run[c].op[2]
<1>1. /\ \E q \in {"halted", "unlock"} : Goto(c, q)
      /\ nextId' = nextId
      /\ objects' = [objects EXCEPT ![g] = [objects[g] EXCEPT ![x] = Absent]]
      /\ kept' = [kept EXCEPT ![g] = IF objects[g][x] = Object THEN @ - 1 ELSE @]
  BY Zenon DEF DoRemove
<1>2. \E q \in {"halted", "unlock"} : Moves(c, q)
  BY <1>0, <1>1, GotoMoves, Zenon DEF Places
<1>3. x \in Handles
  BY <1>0, SMTT(40) DEF DoRemove, Calls, Ops, Op
<1>4. /\ objects' \in [Ids -> [Handles -> Values]]
      /\ \A i \in Ids \ {g} : objects'[i] = objects[i] /\ kept'[i] = kept[i]
      /\ \A h \in Handles : objects'[g][h] = IF h = x THEN Absent ELSE objects[g][h]
      /\ kept' \in [Ids -> Int]
      /\ kept'[g] = IF objects[g][x] = Object THEN kept[g] - 1 ELSE kept[g]
  <2> DEFINE n == IF objects[g][x] = Object THEN kept[g] - 1 ELSE kept[g]
  <2>1. n \in Int /\ kept' = [kept EXCEPT ![g] = n]
    BY <1>0, <1>1 DEF KeptTypes
  <2>2. /\ kept' \in [Ids -> Int] /\ \A i \in Ids \ {g} : kept'[i] = kept[i]
        /\ kept'[g] = n
    BY <1>0, <2>1 DEF KeptTypes
  <2>3. Absent \in Values
    BY Zenon DEF Values
  <2>4. QED
    BY <1>0, <1>1, SetObject, <2>2, <2>3, Zenon
<1>5. ASSUME ~bypassed' PROVE KeptInv'
  <2>1. KeptInv
    BY <1>0, <1>5, Zenon DEF ObjectInv
  <2>2. \A i \in Ids : Held(i)' = IF i = g THEN Held(i) \ {x} ELSE Held(i)
    BY <1>0, <1>4, SMTT(40) DEF Held, Absent, Object
  <2>3. x \in Held(g) <=> objects[g][x] = Object
    BY <1>3 DEF Held
  <2>4. Cardinality(Held(g) \ {x}) =
          IF x \in Held(g) THEN Cardinality(Held(g)) - 1 ELSE Cardinality(Held(g))
    BY HeldFinite, FS_RemoveElement, Zenon
  <2>5. \A i \in Ids : kept'[i] = Cardinality(Held(i)')
    <3>1. /\ kept[g] = Cardinality(Held(g))
          /\ \A i \in Ids \ {g} : kept[i] = Cardinality(Held(i))
      BY <1>0, <2>1, Zenon DEF KeptInv
    <3>2. ASSUME NEW i \in Ids, i = g PROVE kept'[i] = Cardinality(Held(i)')
      <4>1. Held(i)' = Held(g) \ {x}
        BY <2>2, <3>2, Zenon
      <4>2. CASE x \in Held(g)
        BY <1>4, <2>3, <2>4, <3>1, <3>2, <4>1, <4>2, Zenon
      <4>3. CASE x \notin Held(g)
        BY <1>4, <2>3, <2>4, <3>1, <3>2, <4>1, <4>3, Zenon
      <4>4. QED
        BY <4>2, <4>3, Zenon
    <3>3. ASSUME NEW i \in Ids, i # g PROVE kept'[i] = Cardinality(Held(i)')
      <4>1. Held(i)' = Held(i)
        BY <2>2, <3>3, Zenon
      <4>2. kept'[i] = kept[i] /\ kept[i] = Cardinality(Held(i))
        BY <1>4, <3>1, <3>3, Zenon
      <4>3. QED
        BY <4>1, <4>2, Zenon
    <3>4. QED
      BY <3>2, <3>3, Zenon
  <2>6. \A i \in Ids, h \in Handles : h >= nextId'[i] => objects'[i][h] # Object
    BY <1>0, <1>1, <1>4, <2>1, SMTT(40) DEF KeptInv, Absent, Object
  <2>7. \A d \in Cpus : At(d, "store")' =>
          run'[d].h = nextId'[Group(d)'] /\ run'[d].h \in Handles
    BY <1>1, <1>2, <2>1 DEF KeptInv, Moves, At, Group
  <2>8. QED
    BY <2>5, <2>6, <2>7, Zenon DEF KeptInv
<1>6. QED
  BY <1>4, <1>5 DEF KeptTypes, Values

\* get_object may add a handle without an object.
LEMMA DoGetKeeps ==
  ASSUME ObjectInv, NEW c \in Cpus, DoGet(c)
  PROVE  KeptTypes' /\ (~bypassed' => KeptInv')
<1> DEFINE g == Group(c)
<1>0. /\ run[c].pc \in {"do", "store"} /\ run[c] \in Calls /\ g \in Ids
      /\ GroupInv /\ GroupTypes /\ KeptTypes /\ bypassed' = bypassed
  <2>1. run[c].pc \in {"do", "store"} /\ bypassed' = bypassed
    BY DEF DoGet, Effect, At
  <2>2. QED
    BY <2>1, AtObject, Zenon
<1> DEFINE x == run[c].op[2]
           new == IF objects[g][x] = Absent THEN Null ELSE objects[g][x]
<1>1. /\ run[c].pc = "do" /\ (Goto(c, "clear") \/ Return(c))
      /\ nextId' = nextId /\ kept' = kept
      /\ objects' = [objects EXCEPT ![g] = [objects[g] EXCEPT ![x] = new]]
  BY Zenon DEF DoGet, Effect, At
<1>2. Moves(c, "clear") \/ Ends(c)
  BY <1>0, <1>1, GotoMoves, ReturnEnds, Zenon DEF Places
<1>3. x \in Handles
  BY <1>0, SMTT(40) DEF DoGet, Calls, Ops, Op
<1>4. KeptTypes'
  BY <1>0, <1>1, <1>3, Zenon DEF KeptTypes
<1>5. \A i \in Ids, h \in Handles : objects'[i][h] = Object <=> objects[i][h] = Object
  BY <1>0, <1>1, <1>3, SMTT(40) DEF KeptTypes, Absent, Null, Object
<1>6. \A i \in Ids : Held(i)' = Held(i)
  BY <1>5 DEF Held
<1>7. QED
  BY <1>0, <1>1, <1>2, <1>4, <1>5, <1>6, Zenon
     DEF ObjectInv, KeptInv, Moves, Ends, At, Group

\* add_object gives every object a handle of its own, for any number of CPUs,
\* groups and handles, although it reads _next_id and counts it in separate
\* accesses: no object is lost until an operation skips the group's lock.
THEOREM SpecNoObjectLost == Spec => []NoObjectLost
<1>1. ObjectInv /\ [Next]_vars => ObjectInv'
  <2> SUFFICES ASSUME ObjectInv, [Next]_vars PROVE ObjectInv'
    OBVIOUS
  <2>1. GroupInv'
    BY NextGroupInv, SMTT(40) DEF ObjectInv
  <2>2. CASE UNCHANGED vars
    <3>1. UNCHANGED <<run, objects, nextId, kept, bypassed>>
      BY <2>2 DEF vars, groups, notes
    <3>2. KeptTypes' /\ \A i \in Ids : Held(i)' = Held(i)
      BY <3>1, Zenon DEF ObjectInv, KeptTypes, Held
    <3>3. QED
      BY <2>1, <3>1, <3>2 DEF ObjectInv, KeptInv, At, Group
  <2>3. CASE Next
    BY <2>1, <2>3, OtherKeeps, DoReadKeeps, DoStoreKeeps, DoRemoveKeeps,
       DoGetKeeps, Zenon DEF Next, ObjectInv
  <2>4. QED
    BY <2>2, <2>3
<1>2. ObjectInv => NoObjectLost
  BY DEF ObjectInv, KeptInv, NoObjectLost, Held
<1>3. QED
  BY <1>1, <1>2, InitObjectInv, PTL DEF Spec

=============================================================================
