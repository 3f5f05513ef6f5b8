------------------------------- MODULE MCHeap -------------------------------
(***************************************************************************)
(* The three models of src/kheap.cpp, checked in one run: the first state  *)
(* chooses whether the run is one of KernelHeap (the lists), HeapPointers  *)
(* (the pointers) or HeapLayout (the sizes); the variables of the other    *)
(* two then keep their initial values.                                     *)
(***************************************************************************)
EXTENDS Heap, TLC

CONSTANTS g1, g2, c1, c2, c3, c4

VARIABLES
    model,       \* the model this run is of
    p_owner, p_first_chunk, p_next, p_first_free, p_free_count, p_status, p_word,
    p_live, p_panicked    \* the variables of HeapPointers

p_vars == <<p_owner, p_first_chunk, p_next, p_first_free, p_free_count, p_status,
            p_word, p_live, p_panicked>>

Groups == {g1, g2}
Chunks == {c1, c2, c3}

\* Chunks of three objects, and of one object as in the large groups.
ListCounts == g1 :> 3 @@ g2 :> 1

\* Chunks of two objects: the middle of a list of three chunks can be unlinked.
PointerCounts == g1 :> 2 @@ g2 :> 1

Pointers == INSTANCE HeapPointers WITH
    Page <- {c1, c2, c3, c4}, object_count <- PointerCounts,
    owner <- p_owner, first_chunk <- p_first_chunk, next <- p_next,
    first_free <- p_first_free, free_count <- p_free_count, status <- p_status,
    word <- p_word, live <- p_live, panicked <- p_panicked

obj_sizes == <<8, 16, 32, 64, 128, 256, 512, 1008, 2032, 4076, 8172, 16364, 32748,
               65516, 131052, 262124, 524268>>

\* The request sizes around every boundary of the groups.
Requests == 0 .. 40 \cup UNION {{obj_sizes[g] - 1, obj_sizes[g], obj_sizes[g] + 1} :
                                   g \in 1 .. Len(obj_sizes)}

HeapInit == /\ Init /\ Pointers!Init /\ Layout!Init
            /\ model \in {"lists", "pointers", "layout"}
            /\ model # "layout" => l_size = 0

HeapNext ==
    /\ \/ model = "lists" /\ Next /\ UNCHANGED <<p_vars, l_vars>>
       \/ model = "pointers" /\ Pointers!Next /\ UNCHANGED <<vars, l_vars>>
       \/ model = "layout" /\ Layout!Next /\ UNCHANGED <<vars, p_vars>>
    /\ UNCHANGED model

HeapSpec == HeapInit /\ [][HeapNext]_<<vars, p_vars, l_vars, model>>

\* See HeapPointers: headers tell which objects are in use and of which size.
HeaderMatches == Pointers!HeaderMatches

\* See HeapPointers: the pointers implement the lists of KernelHeap.
ImplementsKernelHeap == Pointers!ImplementsKernelHeap
=============================================================================
