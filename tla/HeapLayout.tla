----------------------------- MODULE HeapLayout -----------------------------
(***************************************************************************)
(* The sizes of src/kheap.cpp: the 17 chunk groups, how heap_chunk computes*)
(* the number of objects of a chunk, which group serves a request, and how *)
(* mm::heap::free gets from a pointer to the group and to the chunk.       *)
(* Addresses are byte offsets from the start of the chunk.                 *)
(***************************************************************************)
EXTENDS Integers, Sequences

CONSTANT Sizes   \* the request sizes to follow

PAGE_SIZE == 4096
object_header == 8           \* sizeof(heap_object<0>): _status and the union
chunk_fields  == 12          \* _next, _first_free and _free_count

\* The template arguments of heap_chunk_group_8 .. heap_chunk_group_524288.
obj_size == <<8, 16, 32, 64, 128, 256, 512, 1024 - 16, 2048 - 16,
    4096 - 20, 8192 - 20, 16384 - 20, 32768 - 20, 65536 - 20, 131072 - 20,
    262144 - 20, 524288 - 20>>

page_count == <<1, 1, 1, 1, 1, 1, 1, 1, 1, 1, 2, 4, 8, 16, 32, 64, 128>>

GroupIndex == 1 .. Len(obj_size)
NoGroup == 0

\* The enum of heap_chunk: overhead_size is the constant 8 of the source, not
\* the size of the three fields.
overhead_size == 8
payload_size(g) == page_count[g] * PAGE_SIZE - overhead_size
chunk_object_count(g) == payload_size(g) \div (object_header + obj_size[g])

\* The pointer alloc returns for the k-th object of a chunk (&_data).
data(g, k) == chunk_fields + (k - 1) * (object_header + obj_size[g]) + object_header

\* Mutant: a group serves only requests smaller than its objects.
Serves_Strictly(g, request_size) == obj_size[g] > request_size

Serves(g, request_size) == obj_size[g] >= request_size

\* The first group whose objects are large enough.
find_chunk_group(request_size) ==
    LET fit == {g \in GroupIndex : Serves(g, request_size)}
    IN  IF fit = {} THEN NoGroup
        ELSE CHOOSE g \in fit : \A h \in fit : g <= h

\* uintptr_t(ptr) & ~PAGE_MASK, for a chunk that starts on a page boundary.
chunk_of(ptr) == ptr - (ptr % PAGE_SIZE)

VARIABLES
    size,     \* the size requested from operator new
    group,    \* the group that served it, NoGroup before and on failure
    _size,    \* the size the object's header holds
    freed     \* the group free found from the header

vars == <<size, group, _size, freed>>

Init == /\ size \in Sizes
        /\ group = NoGroup
        /\ _size = 0
        /\ freed = NoGroup

\* mm::heap::alloc: heap_object::alloc stores the object size of the group.
Alloc == /\ group = NoGroup
         /\ group' = find_chunk_group(size)
         /\ group' # NoGroup
         /\ _size' = obj_size[group']
         /\ UNCHANGED <<size, freed>>

\* mm::heap::alloc of a size no group serves returns 0.
AllocTooLarge == /\ group = NoGroup
                 /\ find_chunk_group(size) = NoGroup
                 /\ UNCHANGED vars

\* mm::heap::free: the group is found again from the header.
Free == /\ group # NoGroup
        /\ freed = NoGroup
        /\ freed' = find_chunk_group(_size)
        /\ UNCHANGED <<size, group, _size>>

\* The request is over.
Done == freed # NoGroup /\ UNCHANGED vars

Next == Alloc \/ AllocTooLarge \/ Free \/ Done

Spec == Init /\ [][Next]_vars

-----------------------------------------------------------------------------
\* A chunk with its fields and all its objects fits in its pages, although
\* overhead_size is smaller than the fields it stands for.
ChunkFits ==
    group # NoGroup =>
        /\ chunk_object_count(group) >= 1
        /\ chunk_fields + chunk_object_count(group) * (object_header + obj_size[group])
             <= page_count[group] * PAGE_SIZE

\* free gives an object back to the group and to the chunk that alloc took it from:
\* the size in its header selects the group and, since a "chunk always starts at the
\* start of the page", masking its pointer yields the chunk, also in chunks of
\* several pages, in which all the objects fit.
FreeFindsChunk ==
    /\ ChunkFits
    /\ freed # NoGroup => freed = group
    /\ group # NoGroup =>
           \A k \in {1, chunk_object_count(group)} : chunk_of(data(group, k)) = 0
=============================================================================
