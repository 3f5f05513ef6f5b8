---------------------------- MODULE HeapPointers ----------------------------
(***************************************************************************)
(* The chunks and objects of src/kheap.cpp with the pointers the code      *)
(* keeps: _first_chunk and _next link the chunks of a group, _first_free   *)
(* and the objects' _next link the free objects of a chunk.  An object's   *)
(* _next shares its word with _size (a union), which mm::heap::free reads  *)
(* to find the group again.                                                *)
(*                                                                         *)
(* The module implements KernelHeap, whose sequences are what a walk along *)
(* the pointers yields.                                                    *)
(***************************************************************************)
EXTENDS Integers, Sequences, FiniteSets

CONSTANTS Group, Page, object_count, None

FREE == "HEAP_OBJECT_FREE"
USED == "HEAP_OBJECT_USED"
NoObject == 0     \* the null pointer to an object

Object(g) == 1 .. object_count[g]
AnyObject == UNION {Object(g) : g \in Group}

VARIABLES
    owner,         \* the group that built a chunk in a page run, or None
    first_chunk,   \* per group: _first_chunk, None when null
    next,          \* per chunk: _next; never cleared when a chunk leaves a list
    first_free,    \* per chunk: _first_free
    free_count,    \* per chunk: _free_count
    status,        \* per object: _status
    word,          \* per object: the union of _next and _size
    live,          \* history: the objects callers hold
    panicked

vars == <<owner, first_chunk, next, first_free, free_count, status, word,
          live, panicked>>

\* A _size of group g, as stored in the union.
SizeOf(g) == g

Init == /\ owner = [c \in Page |-> None]
        /\ first_chunk = [g \in Group |-> None]
        /\ next = [c \in Page |-> None]
        /\ first_free = [c \in Page |-> NoObject]
        /\ free_count = [c \in Page |-> 0]
        /\ status = [c \in Page |-> [o \in AnyObject |-> FREE]]
        /\ word = [c \in Page |-> [o \in AnyObject |-> NoObject]]
        /\ live = {}
        /\ panicked = FALSE

\* The chunks met from chunk c along _next, in at most n steps.
RECURSIVE Chain(_, _)
Chain(c, n) == IF c = None \/ n = 0 THEN <<>> ELSE <<c>> \o Chain(next[c], n - 1)

\* The objects met from object o of chunk c along _next, in at most n steps.
RECURSIVE FreeChain(_, _, _)
FreeChain(c, o, n) ==
    IF o = NoObject \/ n = 0 THEN <<>>
    ELSE <<o>> \o FreeChain(c, word[c][o], n - 1)

ChunksOf(g) == Chain(first_chunk[g], Cardinality(Page) + 1)

\* heap_object::alloc: _next goes to the head of the chain, _size takes its place.
object_alloc(c, o, g) ==
    /\ first_free' = [first_free EXCEPT ![c] = word[c][o]]
    /\ status' = [status EXCEPT ![c][o] = USED]
    /\ word' = [word EXCEPT ![c][o] = SizeOf(g)]

\* heap_chunk::alloc: the first free object.
chunk_alloc(c, g) ==
    /\ first_free[c] # NoObject
    /\ object_alloc(c, first_free[c], g)
    /\ free_count' = [free_count EXCEPT ![c] = @ - 1]
    /\ live' = live \cup {<<c, first_free[c]>>}

\* heap_chunk_group::alloc from the first chunk.
AllocFromFirst(g) ==
    /\ ~panicked
    /\ first_chunk[g] # None
    /\ LET c == first_chunk[g]
       IN  /\ chunk_alloc(c, g)
           /\ first_chunk' = IF first_free'[c] = NoObject
                             THEN [first_chunk EXCEPT ![g] = next[c]]
                             ELSE first_chunk
    /\ UNCHANGED <<owner, next, panicked>>

\* alloc_from_new: the constructor links the objects in order, then the first
\* one is taken; a chunk of one object is full at once and not chained.
AllocFromNew(g, c) ==
    /\ ~panicked
    /\ first_chunk[g] = None
    /\ owner[c] = None
    /\ LET n == object_count[g]
           second == IF n = 1 THEN NoObject ELSE 2
       IN  /\ owner' = [owner EXCEPT ![c] = g]
           /\ word' = [word EXCEPT ![c] = [o \in AnyObject |->
                         IF o = 1 THEN SizeOf(g)
                         ELSE IF o < n THEN o + 1 ELSE NoObject]]
           /\ status' = [status EXCEPT ![c] = [o \in AnyObject |->
                           IF o = 1 THEN USED ELSE FREE]]
           /\ first_free' = [first_free EXCEPT ![c] = second]
           /\ free_count' = [free_count EXCEPT ![c] = n - 1]
           /\ live' = live \cup {<<c, 1>>}
           /\ next' = [next EXCEPT ![c] = IF n = 1 THEN None ELSE first_chunk[g]]
           /\ first_chunk' = IF n = 1 THEN first_chunk
                             ELSE [first_chunk EXCEPT ![g] = c]
    /\ UNCHANGED panicked

\* heap::free goes on only with an object whose header says USED, in a page
\* that holds a chunk; anything else is reported and ignored.
Accepted(c, o) == owner[c] # None /\ o \in Object(owner[c]) /\ status[c][o] = USED

\* Mutant: the status is not reset.
PushFree_StaysUsed(c, o) ==
    /\ word' = [word EXCEPT ![c][o] = first_free[c]]
    /\ first_free' = [first_free EXCEPT ![c] = o]
    /\ status' = status
    /\ free_count' = [free_count EXCEPT ![c] = @ + 1]
    /\ live' = live \ {<<c, o>>}

\* heap_object::free: the object is pushed on the chunk's free list.
PushFree(c, o) ==
    /\ word' = [word EXCEPT ![c][o] = first_free[c]]
    /\ first_free' = [first_free EXCEPT ![c] = o]
    /\ status' = [status EXCEPT ![c][o] = FREE]
    /\ free_count' = [free_count EXCEPT ![c] = @ + 1]
    /\ live' = live \ {<<c, o>>}

\* Mutant: a chunk put back on the list keeps the _next it had when it left.
Rechained_Stale(g, c) == next

\* chunk->chain( _first_chunk )
Rechained(g, c) == [next EXCEPT ![c] = first_chunk[g]]

\* heap_chunk_group::free that leaves objects of the chunk in use.
FreeKeepsChunk(c, o) ==
    /\ ~panicked
    /\ Accepted(c, o)
    /\ LET g == word[c][o]     \* find_chunk_group( obj->size() )
           was_full == first_free[c] = NoObject
       IN  /\ free_count[c] + 1 # object_count[g]
           /\ next' = IF was_full THEN Rechained(g, c) ELSE next
           /\ first_chunk' = IF was_full THEN [first_chunk EXCEPT ![g] = c]
                             ELSE first_chunk
    /\ PushFree(c, o)
    /\ UNCHANGED <<owner, panicked>>

\* heap_chunk_group::free of the last object in use: unlink and free_pages.
FreeKillsChunk(c, o) ==
    /\ ~panicked
    /\ Accepted(c, o)
    /\ LET g == word[c][o]
           was_full == first_free[c] = NoObject
           before == {i \in 1 .. Len(ChunksOf(g)) : next[ChunksOf(g)[i]] = c}
           found == was_full \/ first_chunk[g] = c \/ before # {}
       IN  /\ free_count[c] + 1 = object_count[g]
           /\ first_chunk' = IF ~was_full /\ first_chunk[g] = c
                             THEN [first_chunk EXCEPT ![g] = next[c]]
                             ELSE first_chunk
           /\ next' = IF ~was_full /\ first_chunk[g] # c /\ before # {}
                      THEN LET ch == ChunksOf(g)[CHOOSE i \in before :
                                                   \A j \in before : i <= j]
                           IN  [next EXCEPT ![ch] = next[c]]
                      ELSE next
           /\ panicked' = ~found
           /\ owner' = IF found THEN [owner EXCEPT ![c] = None] ELSE owner
    /\ PushFree(c, o)

Alloc == \E g \in Group : AllocFromFirst(g) \/ \E c \in Page : AllocFromNew(g, c)

Free == \E c \in Page, o \in AnyObject : FreeKeepsChunk(c, o) \/ FreeKillsChunk(c, o)

Next == Alloc \/ Free

Spec == Init /\ [][Next]_vars

-----------------------------------------------------------------------------
\* In a live chunk a header says USED exactly when a caller holds the object,
\* so that mm::heap::free recognises an object that is freed twice; and the
\* union then holds the size that leads back to the chunk's group.
HeaderMatches ==
    \A c \in Page : owner[c] # None =>
       \A o \in Object(owner[c]) :
          /\ status[c][o] = USED <=> <<c, o>> \in live
          /\ <<c, o>> \in live => word[c][o] = SizeOf(owner[c])

Heap == INSTANCE KernelHeap WITH
    _first_chunk <- [g \in Group |-> ChunksOf(g)],
    _first_free <- [c \in Page |->
                      FreeChain(c, first_free[c], Cardinality(AnyObject) + 1)],
    _free_count <- free_count

\* The pointers implement the lists of KernelHeap: every walk ends, meets each
\* chunk or object once, and every alloc and free is one of KernelHeap's.
ImplementsKernelHeap == Heap!Spec
=============================================================================
