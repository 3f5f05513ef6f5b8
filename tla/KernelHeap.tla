----------------------------- MODULE KernelHeap -----------------------------
(***************************************************************************)
(* The kernel heap, src/kheap.cpp: chunk groups, each a linked list of     *)
(* chunks (page runs from mm::alloc_pages) cut into objects of one size.   *)
(* The two linked lists of the code, the group's list of chunks and the    *)
(* chunk's list of free objects, are sequences here; HeapPointers models   *)
(* the pointers themselves and is checked to implement this module.        *)
(*                                                                         *)
(* mm::alloc_pages is external: it returns a run that no chunk occupies,   *)
(* or fails (PageAllocator states that promise).                           *)
(***************************************************************************)
EXTENDS Integers, Sequences

CONSTANTS
    Group,         \* the heap_chunk_group objects
    Page,          \* page runs a chunk can be built in
    object_count,  \* objects in a chunk of each group
    None

ASSUME GroupAssumption == None \notin Group
ASSUME CountAssumption == object_count \in [Group -> Nat \ {0}]

VARIABLES
    owner,        \* the group that built a chunk in a page run, or None
    _first_chunk, \* per group: its list of chunks, _first_chunk first
    _first_free,  \* per chunk: its list of free objects, _first_free first
    _free_count,  \* per chunk: _free_count
    live,         \* history: the objects callers hold, as <<chunk, object>>
    panicked      \* the PANIC of heap_chunk_group::free has been reached

vars == <<owner, _first_chunk, _first_free, _free_count, live, panicked>>

Object(g) == 1 .. object_count[g]

\* Elements of a sequence, and a sequence without its k-th element.
Elements(s) == {s[i] : i \in 1 .. Len(s)}
Without(s, k) == [i \in 1 .. (Len(s) - 1) |-> IF i < k THEN s[i] ELSE s[i + 1]]

full(c) == _first_free[c] = <<>>

\* The free list that heap_chunk's constructor builds.
AllFree(g) == [i \in Object(g) |-> i]

Init == /\ owner = [c \in Page |-> None]
        /\ _first_chunk = [g \in Group |-> <<>>]
        /\ _first_free = [c \in Page |-> <<>>]
        /\ _free_count = [c \in Page |-> 0]
        /\ live = {}
        /\ panicked = FALSE

\* Mutant: a chunk that became full stays on the list.
AfterAlloc_Keep(chunks, c, free) == chunks

\* The list of chunks after an allocation from chunk c left it with the free
\* objects `free`: a chunk that is full leaves the list.
AfterAlloc(chunks, c, free) == IF free = <<>> THEN Tail(chunks) ELSE chunks

\* heap_chunk_group::alloc when the group has a chunk with room.
AllocFromFirst(g) ==
    /\ ~panicked
    /\ _first_chunk[g] # <<>>
    /\ LET c == Head(_first_chunk[g])
       IN  /\ _first_free[c] # <<>>
           /\ live' = live \cup {<<c, Head(_first_free[c])>>}
           /\ _first_free' = [_first_free EXCEPT ![c] = Tail(@)]
           /\ _free_count' = [_free_count EXCEPT ![c] = @ - 1]
           /\ _first_chunk' = [_first_chunk EXCEPT ![g] =
                                 AfterAlloc(@, c, Tail(_first_free[c]))]
    /\ UNCHANGED <<owner, panicked>>

\* alloc_from_new: a chunk is built in the run c that mm::alloc_pages returned
\* and its first object is handed out.
AllocFromNew(g, c) ==
    /\ ~panicked
    /\ _first_chunk[g] = <<>>
    /\ owner[c] = None
    /\ owner' = [owner EXCEPT ![c] = g]
    /\ live' = live \cup {<<c, Head(AllFree(g))>>}
    /\ _first_free' = [_first_free EXCEPT ![c] = Tail(AllFree(g))]
    /\ _free_count' = [_free_count EXCEPT ![c] = object_count[g] - 1]
    /\ _first_chunk' = [_first_chunk EXCEPT ![g] =
                          IF object_count[g] = 1 THEN @ ELSE <<c>> \o @]
    /\ UNCHANGED panicked

\* Mutant: free of an object of a full chunk does not put it on the list again.
AfterFree_NoChain(g, c, wasFull) == _first_chunk[g]

\* The list after a free that left chunk c with objects in use.
AfterFree(g, c, wasFull) ==
    IF wasFull THEN <<c>> \o _first_chunk[g] ELSE _first_chunk[g]

\* Mutant: the chunk is thought empty one object too early.
LastObject_Early(c) == _free_count[c] + 2 >= object_count[owner[c]]

\* The free that makes chunk->empty() true.
LastObject(c) == _free_count[c] + 1 = object_count[owner[c]]

\* What heap_object::free and ++_free_count do to the chunk.
PushFree(c, o) ==
    /\ live' = live \ {<<c, o>>}
    /\ _first_free' = [_first_free EXCEPT ![c] = <<o>> \o @]
    /\ _free_count' = [_free_count EXCEPT ![c] = @ + 1]

\* heap_chunk_group::free that leaves objects of the chunk in use.
FreeKeepsChunk(c, o) ==
    /\ ~panicked
    /\ <<c, o>> \in live
    /\ owner[c] # None
    /\ ~LastObject(c)
    /\ PushFree(c, o)
    /\ _first_chunk' = [_first_chunk EXCEPT ![owner[c]] =
                          AfterFree(owner[c], c, full(c))]
    /\ UNCHANGED <<owner, panicked>>

\* The group's list without chunk c.
Unlinked(g, c) ==
    LET k == CHOOSE i \in 1 .. Len(_first_chunk[g]) : _first_chunk[g][i] = c
    IN  Without(_first_chunk[g], k)

\* heap_chunk_group::free of the last object in use: the chunk is unlinked (a
\* full chunk is not on the list) and its pages are given back.  A chunk that
\* is neither full nor on the list is the PANIC "huh?! where has my half-full
\* chunk gone?!", which halts the kernel.
FreeKillsChunk(c, o) ==
    /\ ~panicked
    /\ <<c, o>> \in live
    /\ owner[c] # None
    /\ LastObject(c)
    /\ PushFree(c, o)
    /\ LET g == owner[c]
           listed == c \in Elements(_first_chunk[g])
       IN  /\ panicked' = (~full(c) /\ ~listed)
           /\ _first_chunk' = IF ~full(c) /\ listed
                              THEN [_first_chunk EXCEPT ![g] = Unlinked(g, c)]
                              ELSE _first_chunk
           /\ owner' = IF full(c) \/ listed THEN [owner EXCEPT ![c] = None]
                       ELSE owner

Alloc == \E g \in Group : AllocFromFirst(g) \/ \E c \in Page : AllocFromNew(g, c)

Free == \E p \in live : FreeKeepsChunk(p[1], p[2]) \/ FreeKillsChunk(p[1], p[2])

Next == Alloc \/ Free

Spec == Init /\ [][Next]_vars

-----------------------------------------------------------------------------
NoDuplicates(s) == \A i, j \in 1 .. Len(s) : s[i] = s[j] => i = j

\* The variables range over groups, chunks, object lists and counts.
TypeOK ==
    /\ owner \in [Page -> Group \cup {None}]
    /\ _first_chunk \in [Group -> Seq(Page)]
    /\ _first_free \in [Page -> Seq(Nat)]
    /\ _free_count \in [Page -> Nat]
    /\ live \subseteq Page \X Nat
    /\ panicked \in BOOLEAN

\* A group's list holds exactly its chunks that have a free object, each once,
\* so that alloc never reads the free list of a full or released chunk.
ListExact ==
    ~panicked =>
      \A g \in Group :
        /\ NoDuplicates(_first_chunk[g])
        /\ Elements(_first_chunk[g]) = {c \in Page : owner[c] = g /\ ~full(c)}

\* In a chunk, the objects are split between the callers and the free list:
\* none is in both, none is lost, and none is free twice.
ObjectsExact ==
    \A c \in Page : owner[c] # None =>
       /\ NoDuplicates(_first_free[c])
       /\ Elements(_first_free[c]) =
            {o \in Object(owner[c]) : <<c, o>> \notin live}
       /\ _free_count[c] = Len(_first_free[c])

\* Pages are given back to mm::free_pages only when no caller holds an object
\* in them.
NoLiveInReleased == \A p \in live : owner[p[1]] # None /\ p[2] \in Object(owner[p[1]])

\* The search for a chunk to unlink always finds it.
NeverPanics == ~panicked
=============================================================================
