-------------------------------- MODULE Heap --------------------------------
(***************************************************************************)
(* src/kheap.cpp as objects see it: the lists of chunks (KernelHeap), and  *)
(* the sizes by which alloc and free find the group of a request and the   *)
(* chunk of an object (HeapLayout).                                        *)
(***************************************************************************)
EXTENDS KernelHeap

CONSTANT Sizes    \* see HeapLayout

VARIABLES l_size, l_group, l_stored, l_freed

l_vars == <<l_size, l_group, l_stored, l_freed>>

Layout == INSTANCE HeapLayout WITH
    size <- l_size, group <- l_group, _size <- l_stored, freed <- l_freed

\* See HeapLayout: a freed pointer leads back to its group and chunk.
FreeFindsChunk == Layout!FreeFindsChunk
=============================================================================
