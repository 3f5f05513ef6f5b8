----------------------------- MODULE SharedCount -----------------------------
(***************************************************************************)
(* The control block of std::shared_ptr and std::weak_ptr                  *)
(* (src/lib/libc++/src/memory.cpp), which the file system's objects are    *)
(* held by.  The actors are the pointer objects: each is used by one       *)
(* thread at a time, but any of them may be copied from by another, and    *)
(* threads are preempted between any two accesses to the counters.         *)
(***************************************************************************)
EXTENDS Integers, FiniteSets

CONSTANT Pointer    \* the shared_ptr and weak_ptr variables of the program

ASSUME PointersFinite == IsFiniteSet(Pointer)

VARIABLES
    kind,        \* what a pointer holds: "null", "shared", "weak", or
                 \* "group", the weak reference the owners have in common
    pc,          \* where the thread that works on the pointer is
    from,        \* the weak_ptr a lock() reads
    object_owners,           \* the local variable of lock()
    __shared_owners_,        \* owners - 1; -1: the object is destroyed
    __shared_weak_owners_,   \* weak references, the group's included, - 1
    deleted,     \* history: calls of __on_zero_shared
    freed        \* history: calls of __on_zero_shared_weak

vars == <<kind, pc, from, object_owners, __shared_owners_,
          __shared_weak_owners_, deleted, freed>>

\* shared_ptr( new T ) in p: both counts are __refs = 0.
Init == /\ \E p \in Pointer : kind = [q \in Pointer |-> IF q = p THEN "shared" ELSE "null"]
        /\ pc = [q \in Pointer |-> "idle"]
        /\ from = [q \in Pointer |-> q]
        /\ object_owners = [q \in Pointer |-> 0]
        /\ __shared_owners_ = 0
        /\ __shared_weak_owners_ = 0
        /\ deleted = 0 /\ freed = 0

Goto(p, label) == pc' = [pc EXCEPT ![p] = label]
Becomes(p, k) == kind' = [kind EXCEPT ![p] = k]

\* Nobody copies from p: a pointer is not reset while another thread reads it.
Unread(p) == \A q \in Pointer : pc[q] = "exchange" => from[q] # p

\* p = r for a shared_ptr r: __add_shared.
CopyShared(p, r) ==
    /\ kind[p] = "null" /\ pc[p] = "idle"
    /\ kind[r] = "shared" /\ pc[r] = "idle"
    /\ __shared_owners_' = __shared_owners_ + 1
    /\ Becomes(p, "shared")
    /\ UNCHANGED <<pc, from, object_owners, __shared_weak_owners_, deleted, freed>>

\* A weak_ptr p made of r: __add_weak.
CopyWeak(p, r) ==
    /\ kind[p] = "null" /\ pc[p] = "idle"
    /\ kind[r] \in {"shared", "weak"} /\ pc[r] = "idle"
    /\ __shared_weak_owners_' = __shared_weak_owners_ + 1
    /\ Becomes(p, "weak")
    /\ UNCHANGED <<pc, from, object_owners, __shared_owners_, deleted, freed>>

\* lock() of the weak_ptr r into p: the load of the owners.
Lock(p, r) ==
    /\ kind[p] = "null" /\ pc[p] = "idle"
    /\ kind[r] = "weak" /\ pc[r] = "idle"
    /\ object_owners' = [object_owners EXCEPT ![p] = __shared_owners_]
    /\ from' = [from EXCEPT ![p] = r]
    /\ Goto(p, "exchange")
    /\ UNCHANGED <<kind, __shared_owners_, __shared_weak_owners_, deleted, freed>>

\* The loop has seen that the object is gone: nullptr.
LockFails(p) ==
    /\ pc[p] = "exchange" /\ object_owners[p] = -1
    /\ Goto(p, "idle")
    /\ UNCHANGED <<kind, from, object_owners, __shared_owners_,
                   __shared_weak_owners_, deleted, freed>>

Unchanged(p) == __shared_owners_ = object_owners[p]
Alive(p) == object_owners[p] # -1

\* compare_exchange: one `lock cmpxchg`, which loads the count if it fails.
Exchange(p) ==
    /\ pc[p] = "exchange" /\ Alive(p)
    /\ IF Unchanged(p)
       THEN /\ __shared_owners_' = object_owners[p] + 1
            /\ Becomes(p, "shared") /\ Goto(p, "idle")
            /\ UNCHANGED object_owners
       ELSE /\ object_owners' = [object_owners EXCEPT ![p] = __shared_owners_]
            /\ UNCHANGED <<__shared_owners_, kind, pc>>
    /\ UNCHANGED <<from, __shared_weak_owners_, deleted, freed>>

\* A shared_ptr is reset: __release_shared decrements, and the last owner
\* takes over the reference that the owners had in common.
ReleaseShared(p) ==
    /\ kind[p] = "shared" /\ pc[p] = "idle" /\ Unread(p)
    /\ __shared_owners_' = __shared_owners_ - 1
    /\ IF __shared_owners_' = -1
       THEN Becomes(p, "group") /\ Goto(p, "on_zero_shared")
       ELSE Becomes(p, "null") /\ UNCHANGED pc
    /\ UNCHANGED <<from, object_owners, __shared_weak_owners_, deleted, freed>>

\* __on_zero_shared destroys the object.
OnZeroShared(p) ==
    /\ pc[p] = "on_zero_shared"
    /\ deleted' = deleted + 1
    /\ Goto(p, "release_weak")
    /\ UNCHANGED <<kind, from, object_owners, __shared_owners_,
                   __shared_weak_owners_, freed>>

\* Mutant: the load takes two references for the last one.
LastReference_OffByOne == __shared_weak_owners_ <= 1

LastReference == __shared_weak_owners_ = 0

\* __release_weak: the load that spares the decrement of the last reference.
LoadWeak(p) ==
    /\ \/ pc[p] = "release_weak"
       \/ pc[p] = "idle" /\ kind[p] = "weak" /\ Unread(p)
    /\ IF LastReference
       THEN Becomes(p, "null") /\ Goto(p, "on_zero_shared_weak")
       ELSE Goto(p, "decrement") /\ UNCHANGED kind
    /\ UNCHANGED <<from, object_owners, __shared_owners_, __shared_weak_owners_,
                   deleted, freed>>

\* Mutant: the decrement does not look whether it was the last one.
WasLast_Never == FALSE

WasLast == __shared_weak_owners_ - 1 = -1

\* __release_weak: the decrement, of the last reference if others have gone
\* since the load.
DecrementWeak(p) ==
    /\ pc[p] = "decrement"
    /\ __shared_weak_owners_' = __shared_weak_owners_ - 1
    /\ Becomes(p, "null")
    /\ Goto(p, IF WasLast THEN "on_zero_shared_weak" ELSE "idle")
    /\ UNCHANGED <<from, object_owners, __shared_owners_, deleted, freed>>

\* __on_zero_shared_weak frees the control block.
OnZeroSharedWeak(p) ==
    /\ pc[p] = "on_zero_shared_weak"
    /\ freed' = freed + 1
    /\ Goto(p, "idle")
    /\ UNCHANGED <<kind, from, object_owners, __shared_owners_,
                   __shared_weak_owners_, deleted>>

Step(p) == \/ \E r \in Pointer : CopyShared(p, r) \/ CopyWeak(p, r) \/ Lock(p, r)
           \/ LockFails(p) \/ Exchange(p) \/ ReleaseShared(p) \/ OnZeroShared(p)
           \/ LoadWeak(p) \/ DecrementWeak(p) \/ OnZeroSharedWeak(p)

AllReset == \A p \in Pointer : kind[p] = "null" /\ pc[p] = "idle"

Next == \/ \E p \in Pointer : Step(p)
        \/ AllReset /\ UNCHANGED vars

Spec == Init /\ [][Next]_vars

-----------------------------------------------------------------------------
Kinds == {"null", "shared", "weak", "group"}
Labels == {"idle", "exchange", "on_zero_shared", "release_weak", "decrement",
           "on_zero_shared_weak"}

\* The variables range over kinds, labels and numbers.
TypeOK ==
    /\ kind \in [Pointer -> Kinds]
    /\ pc \in [Pointer -> Labels]
    /\ from \in [Pointer -> Pointer]
    /\ object_owners \in [Pointer -> Int]
    /\ __shared_owners_ \in Int
    /\ __shared_weak_owners_ \in Int
    /\ deleted \in Nat /\ freed \in Nat

Shared == {p \in Pointer : kind[p] = "shared"}
Weak == {p \in Pointer : kind[p] \in {"weak", "group"}}

\* The object is destroyed at most once, never while a shared_ptr holds it, one
\* that lock() has just made of a weak_ptr included.  The control block is freed
\* at most once, and from then on nothing refers to it: no pointer holds it and
\* no release or lock() is under way, although the last reference is given up
\* without a store and the one before it by another thread.
OutlivesItsReferences ==
    /\ deleted <= 1 /\ (deleted = 1 => Shared = {})
    /\ freed <= 1
    /\ freed = 1 => Shared = {} /\ Weak = {} /\ \A p \in Pointer : pc[p] = "idle"

\* When every pointer is reset, the object is destroyed and the block is freed:
\* of the threads that give up the last references together, one sees that it
\* is the last.
NothingLeaks == AllReset => deleted = 1 /\ freed = 1
=============================================================================
