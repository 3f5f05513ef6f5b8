--------------------------- MODULE AtomicsProofs ---------------------------
(***************************************************************************)
(* Proofs about Atomics: the counts of shared pointers for any finite      *)
(* number of pointers; the exclusion of the spin lock for any number of    *)
(* tasks, iterations and reports of counting_test; the exactness of the    *)
(* counters for any number of tasks and any width of a word.               *)
(***************************************************************************)
EXTENDS Atomics, FiniteSetTheorems, TLAPS

-----------------------------------------------------------------------------
\* The control block of SharedCount.

Held == IF Shared = {} THEN 0 ELSE 1

\* The last reference has been given up.
Ending == freed = 1 \/ \E p \in Pointer : pc[p] = "on_zero_shared_weak"

\* The counts of the block are those of the pointers, the owners' common
\* reference included, until the last one has gone.
Counted ==
    /\ __shared_owners_ = Cardinality(Shared) - 1
    /\ ~Ending => /\ __shared_weak_owners_ = Cardinality(Weak) + Held - 1
                  /\ Shared \cup Weak # {}

\* Where a thread is tells what its pointer holds.
Stages ==
    \A p \in Pointer :
        /\ pc[p] = "exchange" => kind[p] = "null" /\ kind[from[p]] = "weak"
                                     /\ pc[from[p]] = "idle"
        /\ pc[p] \in {"on_zero_shared", "release_weak"} => kind[p] = "group"
        /\ pc[p] = "decrement" => kind[p] \in {"weak", "group"}
        /\ pc[p] = "on_zero_shared_weak" => kind[p] = "null"

\* The owners' common reference is held by one thread, after the last owner.
OneGroup ==
    \A p \in Pointer : kind[p] = "group" =>
        /\ Shared = {}
        /\ pc[p] \in {"on_zero_shared", "release_weak", "decrement"}
        /\ \A q \in Pointer : kind[q] = "group" => q = p

\* The object is destroyed once, right after the last owner has gone, and the
\* block is freed by one thread, when nothing refers to it.
Once ==
    /\ deleted = IF Shared = {} /\ \A p \in Pointer : pc[p] # "on_zero_shared" THEN 1 ELSE 0
    /\ freed \in {0, 1}
    /\ Ending => Shared = {} /\ Weak = {}
    /\ \A p \in Pointer : pc[p] = "on_zero_shared_weak" =>
          freed = 0 /\ \A q \in Pointer : pc[q] = "on_zero_shared_weak" => q = p

IInv == TypeOK /\ Counted /\ Stages /\ OneGroup /\ Once

-----------------------------------------------------------------------------
\* What one pointer more or less does to the size of a set of pointers.
LEMMA Sizes ==
    ASSUME NEW S \in SUBSET Pointer, NEW p \in Pointer
    PROVE  /\ Cardinality(S) \in Nat
           /\ Cardinality(S) = 0 <=> S = {}
           /\ Cardinality(S \cup {p}) = IF p \in S THEN Cardinality(S) ELSE Cardinality(S) + 1
           /\ Cardinality(S \ {p}) = IF p \in S THEN Cardinality(S) - 1 ELSE Cardinality(S)
  <1>1. IsFiniteSet(S)  BY PointersFinite, FS_Subset
  <1> QED  BY <1>1, FS_CardinalityType, FS_EmptySet, FS_AddElement, FS_RemoveElement

\* A set is {p} if nothing is left of it without p.
LEMMA OnlyOne ==
    ASSUME NEW S \in SUBSET Pointer, NEW p \in S, Cardinality(S \ {p}) = 0
    PROVE  S \ {p} = {} /\ S = {p}
  <1>1. S \ {p} \in SUBSET Pointer /\ p \in Pointer  OBVIOUS
  <1>2. S \ {p} = {}  BY <1>1, Sizes
  <1> QED  BY <1>2

\* Every step keeps the variables in their ranges.
LEMMA StepType ==
    ASSUME TypeOK, NEW p \in Pointer, Step(p)
    PROVE  TypeOK'
  <1> USE DEF TypeOK, Kinds, Labels, Goto, Becomes
  <1>1. CASE \E r \in Pointer : CopyShared(p, r)  BY <1>1 DEF CopyShared
  <1>2. CASE \E r \in Pointer : CopyWeak(p, r)  BY <1>2 DEF CopyWeak
  <1>3. CASE \E r \in Pointer : Lock(p, r)  BY <1>3 DEF Lock
  <1>4. CASE LockFails(p)  BY <1>4 DEF LockFails
  <1>5. CASE Exchange(p)  BY <1>5 DEF Exchange
  <1>6. CASE ReleaseShared(p)  BY <1>6 DEF ReleaseShared
  <1>7. CASE OnZeroShared(p)  BY <1>7 DEF OnZeroShared
  <1>8. CASE LoadWeak(p)  BY <1>8 DEF LoadWeak
  <1>9. CASE DecrementWeak(p)  BY <1>9 DEF DecrementWeak
  <1>10. CASE OnZeroSharedWeak(p)  BY <1>10 DEF OnZeroSharedWeak
  <1> QED
    BY <1>1, <1>2, <1>3, <1>4, <1>5, <1>6, <1>7, <1>8, <1>9, <1>10 DEF Step

\* A program starts with one shared_ptr.
LEMMA InitIInv == Init => IInv
  <1> SUFFICES ASSUME Init PROVE IInv
    OBVIOUS
  <1>1. PICK p \in Pointer : kind = [q \in Pointer |-> IF q = p THEN "shared" ELSE "null"]
    BY DEF Init
  <1>2. Shared = {p} /\ Weak = {}
    BY <1>1 DEF Shared, Weak
  <1>3. Cardinality(Shared) = 1 /\ Cardinality(Weak) = 0
    BY <1>2, FS_Singleton, FS_EmptySet
  <1>4. TypeOK
    BY <1>1 DEF Init, TypeOK, Kinds, Labels
  <1>5. Counted
    BY <1>2, <1>3 DEF Init, Counted, Held
  <1>6. Stages /\ OneGroup
    BY <1>1 DEF Init, Stages, OneGroup
  <1>7. Once
    BY <1>2 DEF Init, Once, Ending
  <1> QED  BY <1>4, <1>5, <1>6, <1>7 DEF IInv

\* A copy of a shared_ptr is one owner more.
LEMMA CopySharedIInv ==
    ASSUME IInv, TypeOK', NEW p \in Pointer, NEW r \in Pointer, CopyShared(p, r)
    PROVE  IInv'
  <1> USE DEF IInv, TypeOK, CopyShared, Becomes
  <1>1. Shared' = Shared \cup {p} /\ Weak' = Weak /\ p \notin Shared /\ r \in Shared
    BY DEF Shared, Weak
  <1>2. Shared \in SUBSET Pointer  BY DEF Shared
  <1>3. Cardinality(Shared') = Cardinality(Shared) + 1
    BY <1>1, <1>2, Sizes
  <1>4. Held' = Held /\ Ending' = Ending
    BY <1>1 DEF Held, Ending
  <1>5. Counted'
    BY <1>1, <1>2, <1>3, <1>4, Sizes DEF Counted
  <1>6. Stages' /\ OneGroup'
    BY <1>1 DEF Stages, OneGroup
  <1>7. Once'
    BY <1>1, <1>4 DEF Once
  <1> QED  BY <1>5, <1>6, <1>7

\* A weak_ptr is one weak reference more.
LEMMA CopyWeakIInv ==
    ASSUME IInv, TypeOK', NEW p \in Pointer, NEW r \in Pointer, CopyWeak(p, r)
    PROVE  IInv'
  <1> USE DEF IInv, TypeOK, CopyWeak, Becomes
  <1>1. Shared' = Shared /\ Weak' = Weak \cup {p} /\ p \notin Weak /\ r \in Shared \cup Weak
    BY DEF Shared, Weak
  <1>2. Weak \in SUBSET Pointer  BY DEF Weak
  <1>3. Cardinality(Weak') = Cardinality(Weak) + 1
    BY <1>1, <1>2, Sizes
  <1>4. Held' = Held /\ Ending' = Ending
    BY <1>1 DEF Held, Ending
  <1>5. ~Ending
    BY <1>1 DEF Once
  <1>6. Counted'
    BY <1>1, <1>2, <1>3, <1>4, <1>5, Sizes DEF Counted, Held
  <1>7. Stages' /\ OneGroup'
    BY <1>1 DEF Stages, OneGroup
  <1>8. Once'
    BY <1>1, <1>4, <1>5 DEF Once, Ending
  <1> QED  BY <1>6, <1>7, <1>8

\* The steps that change no pointer: the beginning of a lock(), its failure, the
\* destructor's call.
LEMMA QuietIInv ==
    ASSUME IInv, TypeOK', NEW p \in Pointer,
           (\E r \in Pointer : Lock(p, r)) \/ LockFails(p) \/ OnZeroShared(p)
    PROVE  IInv'
  <1> USE DEF IInv, TypeOK, Lock, LockFails, OnZeroShared, Goto
  <1>1. Shared' = Shared /\ Weak' = Weak
    BY DEF Shared, Weak
  <1>2. Held' = Held /\ Ending' = Ending
    BY <1>1 DEF Held, Ending
  <1>3. Counted'
    BY <1>1, <1>2 DEF Counted
  <1>4. Stages'
    BY DEF Stages
  <1>5. OneGroup'
    BY <1>1 DEF OneGroup, Stages
  <1>6. Once'
    BY <1>1, <1>2 DEF Once, OneGroup, Stages
  <1> QED  BY <1>3, <1>4, <1>5, <1>6

\* The exchange of a lock(): it makes an owner only of an object that has one.
LEMMA ExchangeIInv ==
    ASSUME IInv, TypeOK', NEW p \in Pointer, Exchange(p)
    PROVE  IInv'
  <1> USE DEF IInv, TypeOK, Exchange, Becomes, Goto, Alive
  <1>1. CASE Unchanged(p)
    <2>1. Shared' = Shared \cup {p} /\ Weak' = Weak /\ p \notin Shared
      BY <1>1 DEF Shared, Weak, Stages
    <2>2. Shared \in SUBSET Pointer  BY DEF Shared
    <2>3. __shared_owners_' = __shared_owners_ + 1 /\ __shared_owners_ # -1
      BY <1>1 DEF Unchanged
    <2>4. Cardinality(Shared') = Cardinality(Shared) + 1 /\ Shared # {}
      BY <2>1, <2>2, <2>3, Sizes DEF Counted
    <2>5. Held' = Held /\ Ending' = Ending
      BY <1>1, <2>1, <2>4 DEF Held, Ending
    <2>6. Counted'
      BY <1>1, <2>1, <2>2, <2>3, <2>4, <2>5, Sizes DEF Counted
    <2>7. Stages' /\ OneGroup'
      BY <1>1, <2>1, <2>4 DEF Stages, OneGroup
    <2>8. Once'
      BY <1>1, <2>1, <2>4, <2>5 DEF Once
    <2> QED  BY <2>6, <2>7, <2>8
  <1>2. CASE ~Unchanged(p)
    <2>1. Shared' = Shared /\ Weak' = Weak /\ Held' = Held /\ Ending' = Ending
      BY <1>2 DEF Shared, Weak, Held, Ending
    <2>2. Counted' /\ Stages' /\ OneGroup' /\ Once'
      BY <1>2, <2>1 DEF Counted, Stages, OneGroup, Once
    <2> QED  BY <2>2
  <1> QED  BY <1>1, <1>2

\* The reset of a shared_ptr: the last owner keeps the common reference.
LEMMA ReleaseSharedIInv ==
    ASSUME IInv, TypeOK', NEW p \in Pointer, ReleaseShared(p)
    PROVE  IInv'
  <1> USE DEF IInv, TypeOK, ReleaseShared, Becomes, Goto
  <1>1. Shared' = Shared \ {p} /\ p \in Shared /\ p \notin Weak
    BY DEF Shared, Weak
  <1>2. Shared \in SUBSET Pointer /\ Weak \in SUBSET Pointer  BY DEF Shared, Weak
  <1>3. Cardinality(Shared') = Cardinality(Shared) - 1
    BY <1>1, <1>2, Sizes
  <1>4. ~Ending /\ ~Ending'
    BY <1>1 DEF Ending, Once
  <1>5. Held = 1
    BY <1>1 DEF Held
  <1>6. CASE __shared_owners_' = -1
    <2>1. Shared' = {} /\ Held' = 0
      BY <1>1, <1>2, <1>3, <1>6, Sizes DEF Counted, Held
    <2>2. Weak' = Weak \cup {p}
      BY <1>6 DEF Weak
    <2>3. Cardinality(Weak') = Cardinality(Weak) + 1 /\ Cardinality(Weak) \in Nat
      BY <1>1, <1>2, <2>2, Sizes
    <2>4. Cardinality(Shared) \in Nat
      BY <1>2, Sizes
    <2>5. Counted'
      BY <1>3, <1>4, <1>5, <2>1, <2>2, <2>3, <2>4 DEF Counted
    <2>6. Stages' /\ OneGroup'
      BY <1>1, <1>6, <2>1 DEF Stages, OneGroup
    <2>7. Once'
      BY <1>1, <1>4, <1>6, <2>1 DEF Once, Ending
    <2> QED  BY <2>5, <2>6, <2>7
  <1>7. CASE __shared_owners_' # -1
    <2>1. Shared' # {} /\ Held' = 1
      BY <1>1, <1>2, <1>3, <1>7, Sizes DEF Counted, Held
    <2>2. Weak' = Weak
      BY <1>7 DEF Weak
    <2>3. Counted'
      BY <1>1, <1>2, <1>3, <1>4, <1>5, <2>1, <2>2, Sizes DEF Counted
    <2>4. Stages' /\ OneGroup'
      BY <1>1, <1>7 DEF Stages, OneGroup
    <2>5. Once'
      BY <1>1, <1>4, <1>7, <2>1 DEF Once, Ending
    <2> QED  BY <2>3, <2>4, <2>5
  <1> QED  BY <1>6, <1>7

\* Nothing refers to the block once its last reference is given up.
LEMMA LastGone ==
    ASSUME IInv, NEW p \in Pointer, Weak = {p}, Shared = {},
           pc[p] \in {"release_weak", "decrement"} \/ (pc[p] = "idle" /\ Unread(p))
    PROVE  \A q \in Pointer \ {p} : pc[q] = "idle" \/ pc[q] = "on_zero_shared_weak"
  <1> SUFFICES ASSUME NEW q \in Pointer \ {p},
                      pc[q] \notin {"idle", "on_zero_shared_weak"}
               PROVE  FALSE
    OBVIOUS
  <1>1. q \notin Weak  OBVIOUS
  <1>2. pc[q] = "exchange"
    BY <1>1 DEF IInv, TypeOK, Labels, Stages, Weak
  <1>3. from[q] \in Pointer /\ kind[from[q]] = "weak" /\ from[q] = p
    BY <1>2 DEF IInv, TypeOK, Stages, Weak
  <1>4. FALSE
    BY <1>2, <1>3 DEF Unread, IInv, Stages
  <1> QED  BY <1>4

\* The load that spares the decrement: it sees 0 only if the thread's reference
\* is the last.
LEMMA LoadWeakIInv ==
    ASSUME IInv, TypeOK', NEW p \in Pointer, LoadWeak(p)
    PROVE  IInv'
  <1> USE DEF IInv, TypeOK, LoadWeak, Becomes, Goto
  <1>1. Shared' = Shared /\ p \in Weak /\ Held' = Held
    BY DEF Shared, Weak, Stages, Held
  <1>2. Weak \in SUBSET Pointer  BY DEF Weak
  <1>3. ~Ending  BY <1>1 DEF Once
  <1>4. CASE LastReference
    <2>1. Weak' = Weak \ {p}
      BY <1>4 DEF Weak
    <2>2. Cardinality(Weak) \in Nat /\ Held \in {0, 1}
      BY <1>2, Sizes DEF Held
    <2>3. Cardinality(Weak \ {p}) = Cardinality(Weak) - 1 /\ Cardinality(Weak \ {p}) \in Nat
      BY <1>1, <1>2, Sizes
    <2>4. Held = 0 /\ Cardinality(Weak \ {p}) = 0
      BY <1>3, <1>4, <2>2, <2>3 DEF Counted, LastReference
    <2>5. Shared = {} /\ Weak' = {} /\ Weak = {p}
      <3>1. Shared = {}  BY <2>4 DEF Held
      <3>2. Weak = {p}
        <4> HIDE DEF IInv, TypeOK, LoadWeak, Becomes, Goto
        <4> QED  BY <1>1, <1>2, <2>4, OnlyOne
      <3>3. Weak' = {}  BY <2>1, <3>2
      <3> QED  BY <3>1, <3>2, <3>3
    <2>6. Ending'
      BY <1>4 DEF Ending
    <2>7. Counted'
      BY <1>1, <2>6 DEF Counted
    <2>8. pc[p] \in {"release_weak", "decrement"} \/ (pc[p] = "idle" /\ Unread(p))
      OBVIOUS
    <2>9. \A q \in Pointer \ {p} : pc[q] = "idle" \/ pc[q] = "on_zero_shared_weak"
      BY <2>5, <2>8, LastGone
    <2>10. Stages' /\ OneGroup'
      BY <1>1, <1>4, <2>5, <2>9 DEF Stages, OneGroup, Weak
    <2>11. Once'
      BY <1>1, <1>3, <1>4, <2>5, <2>9 DEF Once, Ending, Weak, OneGroup
    <2> QED  BY <2>7, <2>10, <2>11
  <1>5. CASE ~LastReference
    <2>1. Weak' = Weak /\ Ending' = Ending
      BY <1>1, <1>5 DEF Weak, Ending, Stages
    <2>2. Counted'
      BY <1>1, <1>5, <2>1 DEF Counted
    <2>3. Stages'
      BY <1>5 DEF Stages, Unread
    <2>4. OneGroup'
      BY <1>1, <1>5 DEF OneGroup
    <2>5. Once'
      BY <1>1, <1>3, <1>5, <2>1 DEF Once, Ending
    <2> QED  BY <2>2, <2>3, <2>4, <2>5
  <1> QED  BY <1>4, <1>5

\* The decrement: of the threads that give up references together, the one that
\* reaches -1 holds the last.
LEMMA DecrementWeakIInv ==
    ASSUME IInv, TypeOK', NEW p \in Pointer, DecrementWeak(p)
    PROVE  IInv'
  <1> USE DEF IInv, TypeOK, DecrementWeak, Becomes, Goto
  <1>1. Shared' = Shared /\ p \in Weak /\ Held' = Held /\ Weak' = Weak \ {p}
    BY DEF Shared, Weak, Stages, Held
  <1>2. Weak \in SUBSET Pointer  BY DEF Weak
  <1>3. ~Ending  BY <1>1 DEF Once
  <1>4. /\ Cardinality(Weak') = Cardinality(Weak) - 1 /\ Cardinality(Weak') \in Nat
        /\ Cardinality(Weak) \in Nat /\ Held \in {0, 1}
    BY <1>1, <1>2, Sizes DEF Held
  <1>5. __shared_weak_owners_ = Cardinality(Weak') + Held
    BY <1>3, <1>4 DEF Counted
  <1>6. CASE WasLast
    <2>1. Cardinality(Weak \ {p}) = 0 /\ Held = 0
      BY <1>1, <1>4, <1>5, <1>6 DEF WasLast
    <2>2. Shared = {} /\ Weak' = {} /\ Weak = {p}
      BY <1>1, <1>2, <2>1, OnlyOne DEF Held
    <2>3. \A q \in Pointer \ {p} : pc[q] = "idle" \/ pc[q] = "on_zero_shared_weak"
      BY <2>2, LastGone
    <2>4. Counted'
      BY <1>1, <1>6 DEF Counted, Ending
    <2>5. Stages' /\ OneGroup'
      BY <1>1, <1>6, <2>2, <2>3 DEF Stages, OneGroup, Weak
    <2>6. Once'
      BY <1>1, <1>3, <1>6, <2>2, <2>3 DEF Once, Ending, OneGroup
    <2> QED  BY <2>4, <2>5, <2>6
  <1>7. CASE ~WasLast
    <2>1. ~Ending'
      BY <1>3, <1>7 DEF Ending
    <2>2. Shared' \cup Weak' # {}
      <3>1. Cardinality(Weak') + Held # 0  BY <1>5, <1>7 DEF WasLast
      <3>2. CASE Held = 1
        <4>1. Shared' # {}  BY <1>1, <3>2 DEF Held
        <4> QED  BY <4>1
      <3>3. CASE Held = 0
        <4>1. Cardinality(Weak') # 0  BY <1>4, <3>1, <3>3
        <4>2. Weak' # {}
          <5> HIDE DEF IInv, TypeOK, DecrementWeak, Becomes, Goto
          <5> QED  BY <4>1, FS_EmptySet
        <4> QED  BY <4>2
      <3> QED  BY <1>4, <3>2, <3>3
    <2>3. Counted'
      BY <1>1, <1>4, <1>5, <2>1, <2>2 DEF Counted
    <2>4. Stages' /\ OneGroup'
      BY <1>1, <1>7 DEF Stages, OneGroup
    <2>5. Once'
      BY <1>1, <1>3, <1>7, <2>1 DEF Once, Ending
    <2> QED  BY <2>3, <2>4, <2>5
  <1> QED  BY <1>6, <1>7

\* The block is freed by the one thread that has seen the last reference go.
LEMMA OnZeroSharedWeakIInv ==
    ASSUME IInv, TypeOK', NEW p \in Pointer, OnZeroSharedWeak(p)
    PROVE  IInv'
  <1> USE DEF IInv, TypeOK, OnZeroSharedWeak, Goto
  <1>1. Shared' = Shared /\ Weak' = Weak
    BY DEF Shared, Weak
  <1>2. Ending /\ Ending' /\ freed = 0
    BY DEF Ending, Once
  <1>3. Counted'
    BY <1>1, <1>2 DEF Counted
  <1>4. Stages' /\ OneGroup'
    BY <1>1 DEF Stages, OneGroup
  <1>5. Once'
    BY <1>1, <1>2 DEF Once
  <1> QED  BY <1>3, <1>4, <1>5

\* Every step of the program keeps the invariant.
LEMMA NextIInv == IInv /\ [Next]_vars => IInv'
  <1> SUFFICES ASSUME IInv, [Next]_vars PROVE IInv'
    OBVIOUS
  <1>1. ASSUME NEW p \in Pointer, Step(p) PROVE IInv'
    <2>1. TypeOK'
      BY <1>1, StepType DEF IInv
    <2> QED
      BY <1>1, <2>1, CopySharedIInv, CopyWeakIInv, QuietIInv, ExchangeIInv, ReleaseSharedIInv,
         LoadWeakIInv, DecrementWeakIInv, OnZeroSharedWeakIInv DEF Step
  <1>2. CASE UNCHANGED vars
    BY <1>2 DEF vars, IInv, TypeOK, Counted, Held, Ending, Shared, Weak, Stages,
                OneGroup, Once
  <1> QED  BY <1>1, <1>2 DEF Next

\* The invariant holds in every reachable state.
THEOREM Invariance == Spec => []IInv
  BY InitIInv, NextIInv, PTL DEF Spec

\* The object and the control block outlive every reference to them, whatever
\* copies, lock() and resets of any number of threads run at once, although the
\* last weak reference goes without a store (__release_weak, memory.cpp:76).
THEOREM ObjectsOutliveReferences == Spec => []OutlivesItsReferences
  <1>1. IInv => OutlivesItsReferences
    <2> SUFFICES ASSUME IInv PROVE OutlivesItsReferences
      OBVIOUS
    <2>1. deleted <= 1 /\ (deleted = 1 => Shared = {}) /\ freed <= 1
      BY DEF IInv, TypeOK, Once
    <2>2. ASSUME freed = 1
          PROVE  Shared = {} /\ Weak = {} /\ \A p \in Pointer : pc[p] = "idle"
      <3>1. Shared = {} /\ Weak = {}
        BY <2>2 DEF IInv, Once, Ending
      <3>2. ASSUME NEW p \in Pointer PROVE pc[p] = "idle"
        BY <2>2, <3>1 DEF IInv, TypeOK, Labels, Stages, Once, Weak
      <3> QED  BY <3>1, <3>2
    <2> QED  BY <2>1, <2>2 DEF OutlivesItsReferences
  <1> QED  BY <1>1, Invariance, PTL

\* When all pointers are reset, the object has been destroyed and the block
\* freed (__release_shared and __release_weak).
THEOREM NothingIsLost == Spec => []NothingLeaks
  <1>1. IInv => NothingLeaks
    <2> SUFFICES ASSUME IInv, AllReset PROVE deleted = 1 /\ freed = 1
      BY DEF NothingLeaks
    <2>1. Shared = {} /\ Weak = {}
      BY DEF AllReset, Shared, Weak
    <2>2. Ending
      BY <2>1 DEF IInv, Counted
    <2> QED
      BY <2>1, <2>2 DEF IInv, Once, Ending, AllReset
  <1> QED  BY <1>1, Invariance, PTL

-----------------------------------------------------------------------------
\* The lock of SpinLock.

\* Exclusion is inductive only together with what the lock word says of the
\* tasks that hold it.
LockInv == Tasks!TypeOK /\ MutualExclusion /\ Tasks!LockMatches

\* Initially no task holds the lock.
LEMMA LockInit == Tasks!Init => LockInv
  BY IterationsAssumption
  DEF Tasks!Init, LockInv, Tasks!TypeOK, Tasks!Label, MutualExclusion,
      Tasks!MutualExclusion, Tasks!LockMatches, Tasks!Holding

\* A step that neither takes nor returns the lock.
LEMMA NoLockStep ==
    ASSUME LockInv, NEW t \in Task, NEW to \in Tasks!Label,
           t_pc' = [t_pc EXCEPT ![t] = to],
           t_printing_cs' = t_printing_cs,
           Tasks!Holding(t) <=> to \in {"print", "leave", "print_done", "leave_done"}
    PROVE  MutualExclusion' /\ Tasks!LockMatches'
  <1>1. \A u \in Task : Tasks!Holding(u)' <=> Tasks!Holding(u)
    BY DEF LockInv, Tasks!TypeOK, Tasks!Holding
  <1> QED  BY <1>1 DEF LockInv, MutualExclusion, Tasks!MutualExclusion, Tasks!LockMatches

\* interlocked::enter gives the lock to a task only if nobody has it.
LEMMA AcquireStep ==
    ASSUME LockInv, NEW t \in Task, NEW here \in {"enter", "enter_done"},
           NEW to \in {"print", "print_done"}, Tasks!Acquire(t, here, to)
    PROVE  /\ MutualExclusion' /\ Tasks!LockMatches'
           /\ t_pc' \in [Task -> Tasks!Label] /\ t_printing_cs' \in {0, 1}
  <1>1. CASE t_printing_cs > 0
    BY <1>1 DEF Tasks!Acquire, Tasks!exchange, LockInv, Tasks!TypeOK, MutualExclusion,
                Tasks!MutualExclusion, Tasks!LockMatches, Tasks!Holding
  <1>2. CASE ~(t_printing_cs > 0)
    <2>1. t_printing_cs = 0 /\ \A u \in Task : ~Tasks!Holding(u)
      BY <1>2 DEF LockInv, Tasks!TypeOK, Tasks!LockMatches
    <2>2. /\ t_pc' = [t_pc EXCEPT ![t] = to] /\ t_printing_cs' = 1
          /\ t_pc' \in [Task -> Tasks!Label]
      BY <1>2 DEF Tasks!Acquire, Tasks!exchange, LockInv, Tasks!TypeOK, Tasks!Label
    <2>3. \A u \in Task : Tasks!Holding(u)' <=> u = t
      BY <2>1, <2>2 DEF Tasks!Holding, LockInv, Tasks!TypeOK
    <2> QED  BY <2>2, <2>3 DEF MutualExclusion, Tasks!MutualExclusion, Tasks!LockMatches
  <1> QED  BY <1>1, <1>2

\* interlocked::leave is called by the task that holds the lock.
LEMMA ReleaseStep ==
    ASSUME LockInv, NEW t \in Task, NEW here \in {"leave", "leave_done"},
           NEW to \in {"count", "enter_done", "done"}, Tasks!Release(t, here, to)
    PROVE  /\ MutualExclusion' /\ Tasks!LockMatches'
           /\ t_pc' \in [Task -> Tasks!Label] /\ t_printing_cs' \in {0, 1}
  <1>1. /\ t_pc[t] = here /\ t_pc' = [t_pc EXCEPT ![t] = to] /\ t_printing_cs' = 0
        /\ t_pc' \in [Task -> Tasks!Label]
    BY DEF Tasks!Release, Tasks!exchange, Tasks!Goto, LockInv, Tasks!TypeOK, Tasks!Label
  <1>2. \A u \in Task : Tasks!Holding(u) => u = t
    BY <1>1 DEF LockInv, MutualExclusion, Tasks!MutualExclusion, Tasks!Holding
  <1>3. \A u \in Task : ~Tasks!Holding(u)'
    BY <1>1, <1>2 DEF Tasks!Holding, LockInv, Tasks!TypeOK
  <1> QED  BY <1>1, <1>3 DEF MutualExclusion, Tasks!MutualExclusion, Tasks!LockMatches

\* Every step of a task preserves the invariant.
LEMMA LockRun ==
    ASSUME LockInv, NEW t \in Task, Tasks!Run(t)
    PROVE  LockInv'
  <1>1. CASE Tasks!Load(t)
    <2>1. MutualExclusion' /\ Tasks!LockMatches'
      BY <1>1, NoLockStep DEF Tasks!Load, Tasks!Goto, Tasks!Label, Tasks!Holding
    <2>2. Tasks!TypeOK'  BY <1>1 DEF Tasks!Load, Tasks!Goto, LockInv, Tasks!TypeOK,
                                     Tasks!Label
    <2> QED  BY <2>1, <2>2 DEF LockInv
  <1>2. CASE Tasks!Store(t)
    <2> DEFINE to == IF Tasks!Report(t) THEN "enter"
                     ELSE IF Tasks!Last(t) THEN "enter_done" ELSE "count"
    <2>1. /\ t_pc[t] = "store" /\ t_pc' = [t_pc EXCEPT ![t] = to]
          /\ to \in {"enter", "enter_done", "count"}
          /\ t_printing_cs' = t_printing_cs
      BY <1>2 DEF Tasks!Store, Tasks!Goto
    <2> HIDE DEF to
    <2>2. MutualExclusion' /\ Tasks!LockMatches'
      BY <2>1, NoLockStep DEF Tasks!Label, Tasks!Holding
    <2>3. Tasks!TypeOK'  BY <1>2, <2>1 DEF Tasks!Store, Tasks!Stored, LockInv,
                                           Tasks!TypeOK, Tasks!Label
    <2> QED  BY <2>2, <2>3 DEF LockInv
  <1>3. CASE Tasks!Enter(t)
    BY <1>3, AcquireStep DEF Tasks!Enter, LockInv, Tasks!TypeOK
  <1>4. CASE Tasks!PrintReport(t)
    <2>1. MutualExclusion' /\ Tasks!LockMatches'
      BY <1>4, NoLockStep DEF Tasks!PrintReport, Tasks!Goto, Tasks!Label, Tasks!Holding
    <2>2. Tasks!TypeOK'  BY <1>4 DEF Tasks!PrintReport, Tasks!Goto, LockInv,
                                     Tasks!TypeOK, Tasks!Label
    <2> QED  BY <2>1, <2>2 DEF LockInv
  <1>5. CASE Tasks!Leave(t)
    <2> DEFINE to == IF Tasks!Last(t) THEN "enter_done" ELSE "count"
    <2>1. to \in {"count", "enter_done", "done"} /\ Tasks!Release(t, "leave", to)
      BY <1>5 DEF Tasks!Leave
    <2> HIDE DEF to
    <2>2. /\ MutualExclusion' /\ Tasks!LockMatches'
          /\ t_pc' \in [Task -> Tasks!Label] /\ t_printing_cs' \in {0, 1}
      BY <2>1, ReleaseStep
    <2> QED  BY <1>5, <2>2 DEF Tasks!Leave, LockInv, Tasks!TypeOK
  <1>6. CASE Tasks!EnterDone(t)
    BY <1>6, AcquireStep DEF Tasks!EnterDone, LockInv, Tasks!TypeOK
  <1>7. CASE Tasks!PrintDone(t)
    <2>1. MutualExclusion' /\ Tasks!LockMatches'
      BY <1>7, NoLockStep DEF Tasks!PrintDone, Tasks!Goto, Tasks!Label, Tasks!Holding
    <2>2. Tasks!TypeOK'  BY <1>7 DEF Tasks!PrintDone, Tasks!Goto, LockInv, Tasks!TypeOK,
                                     Tasks!Label
    <2> QED  BY <2>1, <2>2 DEF LockInv
  <1>8. CASE Tasks!LeaveDone(t)
    BY <1>8, ReleaseStep DEF Tasks!LeaveDone, LockInv, Tasks!TypeOK
  <1> QED  BY <1>1, <1>2, <1>3, <1>4, <1>5, <1>6, <1>7, <1>8 DEF Tasks!Run

\* Every step of the system preserves the invariant.
LEMMA LockNext == LockInv /\ [Tasks!Next]_(Tasks!vars) => LockInv'
  <1> SUFFICES ASSUME LockInv, [Tasks!Next]_(Tasks!vars) PROVE LockInv'  OBVIOUS
  <1>1. ASSUME NEW t \in Task, Tasks!Run(t) PROVE LockInv'
    BY <1>1, LockRun
  <1>2. CASE UNCHANGED Tasks!vars
    BY <1>2 DEF Tasks!vars, LockInv, Tasks!TypeOK, MutualExclusion,
                Tasks!MutualExclusion, Tasks!LockMatches, Tasks!Holding
  <1> QED  BY <1>1, <1>2 DEF Tasks!Next, Tasks!Spin

\* The invariant holds in every reachable state.
THEOREM LockInvariance == Tasks!Spec => []LockInv
  BY LockInit, LockNext, PTL DEF Tasks!Spec

\* The lock word is 0 or 1 and every task is at one of its labels.
THEOREM LockTypeCorrect == Tasks!Spec => []Tasks!TypeOK
  <1>1. LockInv => Tasks!TypeOK  BY DEF LockInv
  <1> QED  BY <1>1, LockInvariance, PTL

\* interlocked::enter (interlocked.h:90) lets one task in at a time.
THEOREM LockExcludes == Tasks!Spec => []MutualExclusion
  <1>1. LockInv => MutualExclusion  BY DEF LockInv
  <1> QED  BY <1>1, LockInvariance, PTL

\* The lock word is 1 exactly while some task is between enter and leave.
THEOREM LockWordExact == Tasks!Spec => []Tasks!LockMatches
  <1>1. LockInv => Tasks!LockMatches  BY DEF LockInv
  <1> QED  BY <1>1, LockInvariance, PTL

-----------------------------------------------------------------------------
\* The counters of Interlocked64.

\* A number is determined modulo d by any number that differs by a multiple of d.
LEMMA Residue ==
    ASSUME NEW d \in Nat \ {0}, NEW k \in Int, NEW r \in 0 .. (d - 1)
    PROVE  (d * k + r) % d = r
  OBVIOUS

\* Reducing before an addition changes nothing.
LEMMA ReduceFirst ==
    ASSUME NEW x \in Int, NEW y \in Int, NEW d \in Nat \ {0}
    PROVE  ((x % d) + y) % d = (x + y) % d
  <1> DEFINE r == x % d
             k == x \div d
             s == (r + y) % d
             j == (r + y) \div d
  <1>1. r \in 0 .. (d - 1) /\ k \in Int /\ x = d * k + r  OBVIOUS
  <1>2. s \in 0 .. (d - 1) /\ j \in Int /\ r + y = d * j + s  BY <1>1
  <1> HIDE DEF r, k, s, j
  <1>3. x + y = d * (k + j) + s  BY <1>1, <1>2
  <1>4. (d * (k + j) + s) % d = s  BY <1>1, <1>2, Residue
  <1> QED  BY <1>3, <1>4 DEF r, s

\* The two halves of a number make up the number.
LEMMA HalvesValue ==
    ASSUME WordSize \in Nat \ {0}, NEW n \in Nat
    PROVE  Counter!value(Counter!halves(n)) = n
  <1>1. n = WordSize * (n \div WordSize) + (n % WordSize)  OBVIOUS
  <1>2. (n \div WordSize) * WordSize = WordSize * (n \div WordSize)  OBVIOUS
  <1> QED  BY <1>1, <1>2 DEF Counter!value, Counter!halves

\* What is inductive: the counters are exact and the sums are numbers.
CounterInv == /\ n_delta \in [Caller -> Int]
              /\ n_done \in Int /\ n_word_done \in Int
              /\ CounterExact

\* The exchange that succeeds adds the task's delta to the value that is in memory.
LEMMA ExchangeExact ==
    ASSUME CounterInv, NEW t \in Caller, Counter!Exchange(t)
    PROVE  CounterInv'
  <1> DEFINE M == Counter!Modulus
  <1>1. M \in Nat \ {0} /\ Start \in Int
    BY CounterAssumption DEF Counter!Modulus
  <1>2. n_delta[t] \in Int  BY DEF CounterInv
  <1>3. UNCHANGED <<n_delta, n_word, n_word_done>>
    BY DEF Counter!Exchange, Counter!xadd
  <1>4. CASE n_p = n_old[t]
    <2> DEFINE w == Counter!wanted(t)
    <2>1. n_p' = Counter!halves(w) /\ n_done' = n_done + n_delta[t]
      BY <1>4 DEF Counter!Exchange, Counter!compare_exchange, Counter!Succeeds
    <2>2. w = (((Start + n_done) % M) + n_delta[t]) % M
      BY <1>4 DEF CounterInv, CounterExact, Counter!CounterExact, Counter!wanted
    <2> HIDE DEF M, w
    <2>3. w = ((Start + n_done) + n_delta[t]) % M
      <3> DEFINE x == Start + n_done
      <3>1. x \in Int  BY <1>1 DEF CounterInv
      <3> HIDE DEF x
      <3>2. ((x % M) + n_delta[t]) % M = (x + n_delta[t]) % M
        BY <1>1, <1>2, <3>1, ReduceFirst
      <3> QED  BY <2>2, <3>2 DEF x
    <2>4. w \in Nat
      BY <1>1, <1>2, <2>3 DEF CounterInv
    <2>5. Counter!value(Counter!halves(w)) = w
      BY <2>4, HalvesValue, CounterAssumption
    <2>6. (Start + n_done) + n_delta[t] = Start + n_done'
      BY <1>1, <1>2, <2>1 DEF CounterInv
    <2>7. Counter!value(n_p)' = (Start + n_done') % M
      BY <2>1, <2>3, <2>5, <2>6 DEF Counter!value
    <2> QED
      BY <1>2, <1>3, <2>1, <2>7 DEF CounterInv, CounterExact, Counter!CounterExact, M
  <1>5. CASE n_p # n_old[t]
    <2>1. n_p' = n_p /\ n_done' = n_done
      BY <1>5 DEF Counter!Exchange, Counter!compare_exchange, Counter!Succeeds
    <2> QED
      BY <1>3, <2>1 DEF CounterInv, CounterExact, Counter!CounterExact, Counter!value
  <1> QED  BY <1>4, <1>5

\* The locked addition adds the task's delta to the word.
LEMMA XaddExact ==
    ASSUME CounterInv, NEW t \in Caller, Counter!Xadd(t)
    PROVE  CounterInv'
  <1>1. /\ n_word' = (n_word + n_delta[t]) % WordSize
        /\ n_word_done' = n_word_done + n_delta[t]
        /\ UNCHANGED <<n_delta, n_p, n_done>>
    BY DEF Counter!Xadd, Counter!xadd_locked, Counter!loop
  <1>2. n_delta[t] \in Int /\ WordSize \in Nat \ {0} /\ Start \in Int
    BY CounterAssumption DEF CounterInv, Counter!Modulus
  <1>3. n_word' = ((Start + n_word_done) + n_delta[t]) % WordSize
    <2> DEFINE x == Start + n_word_done
    <2>1. x \in Int /\ n_word = x % WordSize
      BY <1>2 DEF CounterInv, CounterExact, Counter!CounterExact
    <2> HIDE DEF x
    <2>2. ((x % WordSize) + n_delta[t]) % WordSize = (x + n_delta[t]) % WordSize
      BY <1>2, <2>1, ReduceFirst
    <2> QED  BY <1>1, <2>1, <2>2 DEF x
  <1>4. n_word' = (Start + n_word_done') % WordSize
    <2>1. (Start + n_word_done) + n_delta[t] = Start + n_word_done'
      BY <1>1, <1>2 DEF CounterInv
    <2> QED  BY <1>3, <2>1
  <1> QED
    BY <1>1, <1>2, <1>4 DEF CounterInv, CounterExact, Counter!CounterExact, Counter!value

\* interlocked::increment and decrement (interlocked.h): no call of any number of
\* tasks is lost or applied twice, although each may have read halves of different
\* values.
THEOREM CountersExact == Counter!Spec => []CounterExact
  <1>1. Counter!Init => CounterInv
    <2> SUFFICES ASSUME Counter!Init PROVE CounterInv
      OBVIOUS
    <2>1. n_p = Counter!halves(Start) /\ n_done = 0 /\ n_word_done = 0
          /\ n_word = Start % WordSize /\ n_delta \in [Caller -> Int]
      BY CounterAssumption DEF Counter!Init
    <2>2. Start \in Nat /\ Counter!value(n_p) = Start
      BY <2>1, HalvesValue, CounterAssumption
    <2>3. Start % Counter!Modulus = Start
      <3> DEFINE M == Counter!Modulus
      <3>1. M \in Nat \ {0} /\ Start \in 0 .. (M - 1)
        BY CounterAssumption DEF Counter!Modulus
      <3> HIDE DEF M
      <3>2. Start % M = Start  BY <3>1
      <3> QED  BY <3>2 DEF M
    <2> QED  BY <2>1, <2>2, <2>3 DEF CounterInv, CounterExact, Counter!CounterExact
  <1>2. CounterInv /\ [Counter!Next]_(Counter!vars) => CounterInv'
    <2> SUFFICES ASSUME CounterInv, [Counter!Next]_(Counter!vars) PROVE CounterInv'
      OBVIOUS
    <2> USE DEF CounterInv, CounterExact, Counter!CounterExact, Counter!value
    <2>1. ASSUME NEW t \in Caller, Counter!ReadFirst(t) \/ Counter!ReadSecond(t)
          PROVE  CounterInv'
      BY <2>1 DEF Counter!ReadFirst, Counter!ReadSecond, Counter!xadd
    <2>2. CASE UNCHANGED Counter!vars
      BY <2>2 DEF Counter!vars, Counter!loop, Counter!xadd
    <2> QED
      BY <2>1, <2>2, ExchangeExact, XaddExact DEF Counter!Next, Counter!Step, Counter!Idle
  <1>3. CounterInv => CounterExact
    BY DEF CounterInv
  <1> QED  BY <1>1, <1>2, <1>3, PTL DEF Counter!Spec
=============================================================================
