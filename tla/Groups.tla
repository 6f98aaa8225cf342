------------------------------- MODULE Groups -------------------------------
(***************************************************************************)
(* Object groups (kernel/object/group.cpp, kernel/object/object.h) and the *)
(* table of all groups (kernel/proc/groups.h), used by several CPUs.       *)
(* Three kinds of locks are taken: the table's _lock, the lock of a table  *)
(* entry and the _lock of a group.  A group's operations take its _lock    *)
(* only if they read _dont_lock as false; check_membership_and sets it     *)
(* around the operation that it calls with the lock held.  lock() is one   *)
(* step here: Spinlock is about what happens inside it.                    *)
(*                                                                         *)
(* Definitions whose name starts with Bug are faulty variants of the       *)
(* definition that follows them; no specification uses them.               *)
(***************************************************************************)
EXTENDS Integers, FiniteSets

CONSTANTS
  Cpus,
  Threads,        \* ids of members
  MaxGroups,      \* bound on the calls of new_group
  MaxHandles      \* bound on the handles of a group

ASSUME MaxAssumption == MaxGroups \in Nat /\ MaxHandles \in Nat

Ids == 0 .. MaxGroups - 1
Handles == 0 .. MaxHandles - 1

VARIABLES
  run,            \* what each CPU executes: [pc, kind, t, id, op, h]
  tabLock, entLock, grpLock,
  nextGroup,      \* global_object_groups::_next_id
  alive,          \* groups whose object_group has not been deleted
  members,        \* _members of each group
  objects,        \* _objects of each group: handle -> Absent, Null or Object
  nextId,         \* _next_id of each group
  kept,           \* history: objects added to each group less those removed
  dontLock,       \* _dont_lock of each group
  bypassed,       \* history: a CPU acted on a _dont_lock that is not its own
  unchecked       \* history: an operation was applied for a non-member

locks == <<tabLock, entLock, grpLock>>
groups == <<nextGroup, alive, members, objects, nextId, kept>>
notes == <<bypassed, unchecked>>
vars == <<run, locks, groups, dontLock, notes>>

Absent == "absent"
Null == "null"
Object == "object"
Idle == [pc |-> "idle"]

Init ==
  /\ run = [c \in Cpus |-> Idle]
  /\ tabLock = FALSE
  /\ entLock = [i \in Ids |-> FALSE]
  /\ grpLock = [i \in Ids |-> FALSE]
  /\ nextGroup = 0 /\ alive = {}
  /\ members = [i \in Ids |-> {}]
  /\ objects = [i \in Ids |-> [h \in Handles |-> Absent]]
  /\ nextId = [i \in Ids |-> 0]
  /\ kept = [i \in Ids |-> 0]
  /\ dontLock \in [Ids -> BOOLEAN]      \* the constructor does not set it
  /\ bypassed = FALSE /\ unchecked = FALSE

At(c, p) == run[c].pc = p
Goto(c, p) == run' = [run EXCEPT ![c].pc = p]
Return(c) == run' = [run EXCEPT ![c] = Idle]
Group(c) == run[c].id
Op(c) == run[c].op[1]

-----------------------------------------------------------------------------
(* Calls.                                                                  *)

Ops == ({"add_member", "remove_member"} \X Threads)
         \cup ({"remove_object", "get_object"} \X Handles)
         \cup {<<"add_object", 0>>}

Start(c, pc, kind, t, i, op) ==
  /\ At(c, "idle")
  /\ run' = [run EXCEPT ![c] = [pc |-> pc, kind |-> kind, t |-> t, id |-> i,
                                op |-> op, h |-> 0]]
  /\ UNCHANGED <<locks, groups, dontLock, notes>>

\* Calls through the table, and of a group's own operations through a
\* pointer, as kernel_main makes them.
Call(c) == \E t \in Threads :
  \/ nextGroup < MaxGroups /\ Start(c, "table", "new", t, 0, <<"add_member", t>>)
  \/ \E i \in 0 .. nextGroup - 1 :
       \/ Start(c, "table", "remove", t, i, <<"none", 0>>)
       \/ \E op \in Ops : Start(c, "entry", "and", t, i, op)
  \/ \E i \in alive, op \in Ops : Start(c, "flag", "direct", 0, i, op)

TakeTable(c) ==
  /\ At(c, "table") /\ ~tabLock
  /\ tabLock' = TRUE
  /\ Goto(c, IF run[c].kind = "new" THEN "insert" ELSE "entry")
  /\ UNCHANGED <<entLock, grpLock, groups, dontLock, notes>>

\* new_group: the group is in the table before it has a member.
Insert(c) ==
  /\ At(c, "insert")
  /\ nextGroup < MaxGroups
  /\ nextGroup' = nextGroup + 1
  /\ alive' = alive \cup {nextGroup}
  /\ run' = [run EXCEPT ![c].pc = "flag", ![c].id = nextGroup]
  /\ UNCHANGED <<locks, members, objects, nextId, kept, dontLock, notes>>

\* remove_group that does not take the lock of the entry.
BugTakeEntry(c) ==
  /\ At(c, "entry") /\ (run[c].kind = "and" => ~entLock[Group(c)])
  /\ entLock' = [entLock EXCEPT ![Group(c)] = TRUE]
  /\ Goto(c, IF Group(c) \notin alive THEN "freed" ELSE
             IF run[c].kind = "and" THEN "group" ELSE "delete")
  /\ UNCHANGED <<tabLock, grpLock, groups, dontLock, notes>>

\* The pointer in the entry outlives the group: what a CPU does with it then
\* is undefined, and the model follows the CPU no further.
TakeEntry(c) ==
  /\ At(c, "entry") /\ ~entLock[Group(c)]
  /\ entLock' = [entLock EXCEPT ![Group(c)] = TRUE]
  /\ Goto(c, IF Group(c) \notin alive THEN "freed" ELSE
             IF run[c].kind = "and" THEN "group" ELSE "delete")
  /\ UNCHANGED <<tabLock, grpLock, groups, dontLock, notes>>

\* The rest of remove_group.
Delete(c) ==
  /\ At(c, "delete")
  /\ alive' = IF run[c].t \in members[Group(c)] THEN alive \ {Group(c)} ELSE alive
  /\ entLock' = [entLock EXCEPT ![Group(c)] = FALSE]
  /\ tabLock' = FALSE
  /\ Return(c)
  /\ UNCHANGED <<grpLock, nextGroup, members, objects, nextId, kept, dontLock, notes>>

-----------------------------------------------------------------------------
(* check_membership_and.                                                   *)

TakeGroup(c) ==
  /\ At(c, "group") /\ ~grpLock[Group(c)]
  /\ grpLock' = [grpLock EXCEPT ![Group(c)] = TRUE]
  /\ Goto(c, "check")
  /\ UNCHANGED <<tabLock, entLock, groups, dontLock, notes>>

\* The check left out.
BugCheck(c) ==
  /\ At(c, "check")
  /\ dontLock' = [dontLock EXCEPT ![Group(c)] = TRUE]
  /\ Goto(c, "flag")
  /\ UNCHANGED <<locks, groups, notes>>

Check(c) ==
  /\ At(c, "check")
  /\ IF run[c].t \in members[Group(c)]
       THEN dontLock' = [dontLock EXCEPT ![Group(c)] = TRUE] /\ Goto(c, "flag")
       ELSE UNCHANGED dontLock /\ Goto(c, "release")
  /\ UNCHANGED <<locks, groups, notes>>

Clear(c) ==
  /\ At(c, "clear")
  /\ dontLock' = [dontLock EXCEPT ![Group(c)] = FALSE]
  /\ Goto(c, "release")
  /\ UNCHANGED <<locks, groups, notes>>

\* The two unique_locks go out of scope.
Release(c) ==
  /\ At(c, "release")
  /\ grpLock' = [grpLock EXCEPT ![Group(c)] = FALSE]
  /\ entLock' = [entLock EXCEPT ![Group(c)] = FALSE]
  /\ Return(c)
  /\ UNCHANGED <<tabLock, groups, dontLock, notes>>

-----------------------------------------------------------------------------
(* The operations of a group.                                              *)

Within(c) == run[c].kind = "and"

\* The first test of _dont_lock; get_object has none.
ReadFlag(c) ==
  /\ At(c, "flag")
  /\ Goto(c, IF Op(c) = "get_object" \/ dontLock[Group(c)] THEN "do" ELSE "lock")
  /\ bypassed' = (bypassed \/ dontLock[Group(c)] # Within(c)
                           \/ (Op(c) = "get_object" /\ ~Within(c)))
  /\ UNCHANGED <<locks, groups, dontLock, unchecked>>

TakeLock(c) ==
  /\ At(c, "lock") /\ ~grpLock[Group(c)]
  /\ grpLock' = [grpLock EXCEPT ![Group(c)] = TRUE]
  /\ Goto(c, "do")
  /\ UNCHANGED <<tabLock, entLock, groups, dontLock, notes>>

\* The operation takes effect, for a member or not.
Effect(c) ==
  /\ At(c, "do")
  /\ unchecked' = (unchecked \/ (Within(c) /\ run[c].t \notin members[Group(c)]))
  /\ UNCHANGED <<locks, nextGroup, alive, dontLock, bypassed>>

DoMember(c) ==
  /\ Effect(c) /\ Op(c) \in {"add_member", "remove_member"}
  /\ members' = [members EXCEPT ![Group(c)] =
       IF Op(c) = "add_member" THEN @ \cup {run[c].op[2]} ELSE @ \ {run[c].op[2]}]
  /\ Goto(c, "unlock")
  /\ UNCHANGED <<objects, nextId, kept>>

\* add_object reads the next handle in one access ...
DoRead(c) ==
  /\ Effect(c) /\ Op(c) = "add_object"
  /\ nextId[Group(c)] \in Handles
  /\ run' = [run EXCEPT ![c].pc = "store", ![c].h = nextId[Group(c)]]
  /\ UNCHANGED <<members, objects, nextId, kept>>

\* The handle is not counted.
BugDoStore(c) ==
  /\ At(c, "store")
  /\ objects' = [objects EXCEPT ![Group(c)][run[c].h] = Object]
  /\ kept' = [kept EXCEPT ![Group(c)] = @ + 1]
  /\ Goto(c, "unlock")
  /\ UNCHANGED <<locks, nextGroup, alive, members, nextId, dontLock, notes>>

\* ... and counts it in another.
DoStore(c) ==
  /\ At(c, "store")
  /\ nextId' = [nextId EXCEPT ![Group(c)] = @ + 1]
  /\ objects' = [objects EXCEPT ![Group(c)][run[c].h] = Object]
  /\ kept' = [kept EXCEPT ![Group(c)] = @ + 1]
  /\ Goto(c, "unlock")
  /\ UNCHANGED <<locks, nextGroup, alive, members, dontLock, notes>>

\* remove_object: assert(item) fails only where there is no entry at all.
DoRemove(c) ==
  /\ Effect(c) /\ Op(c) = "remove_object"
  /\ LET i == Group(c) h == run[c].op[2] IN
       /\ Goto(c, IF objects[i][h] = Absent THEN "halted" ELSE "unlock")
       /\ objects' = [objects EXCEPT ![i][h] = Absent]
       /\ kept' = [kept EXCEPT ![i] = IF objects[i][h] = Object THEN @ - 1 ELSE @]
  /\ UNCHANGED <<members, nextId>>

\* get_object: the lookup makes an entry where there is none.
DoGet(c) ==
  /\ Effect(c) /\ Op(c) = "get_object"
  /\ objects' = [objects EXCEPT ![Group(c)][run[c].op[2]] =
                   IF @ = Absent THEN Null ELSE @]
  /\ IF Within(c) THEN Goto(c, "clear") ELSE Return(c)
  /\ UNCHANGED <<members, nextId, kept>>

\* The second test of _dont_lock, and the return to the caller.
Unlock(c) ==
  /\ At(c, "unlock")
  /\ grpLock' = [grpLock EXCEPT ![Group(c)] = IF dontLock[Group(c)] THEN @ ELSE FALSE]
  /\ tabLock' = IF run[c].kind = "new" THEN FALSE ELSE tabLock
  /\ IF Within(c) THEN Goto(c, "clear") ELSE Return(c)
  /\ UNCHANGED <<entLock, groups, dontLock, notes>>

Next == \E c \in Cpus :
  \/ Call(c) \/ TakeTable(c) \/ Insert(c) \/ TakeEntry(c) \/ Delete(c)
  \/ TakeGroup(c) \/ Check(c) \/ Clear(c) \/ Release(c)
  \/ ReadFlag(c) \/ TakeLock(c) \/ DoMember(c) \/ DoRead(c) \/ DoStore(c)
  \/ DoRemove(c) \/ DoGet(c) \/ Unlock(c)

Spec == Init /\ [][Next]_vars

-----------------------------------------------------------------------------

\* check_membership_and is atomic: the caller is still a member when the
\* operation takes effect, unless an operation skipped the lock because it
\* read a _dont_lock that another CPU, or nobody, has set.
CheckedThenActed == unchecked => bypassed

\* A group is deleted alone: when remove_group has taken its locks, no other
\* call through the table is inside the group, new_group's add_member, which
\* takes no lock of the entry, included.
DeleteAlone ==
  \A c, d \in Cpus : At(c, "delete") /\ c # d /\ run[d].pc # "idle" =>
    run[d].kind = "direct" \/ run[d].pc \in {"table", "insert", "entry"}
      \/ Group(d) # Group(c)

\* No object is lost: as long as every operation took the lock it needed, each
\* object added and not removed has a handle of its own.
NoObjectLost ==
  ~bypassed => \A i \in Ids :
    kept[i] = Cardinality({h \in Handles : objects[i][h] = Object})

=============================================================================
