-------------------------- MODULE MCPhysicalMemory --------------------------
(***************************************************************************)
(* Constant values for model checking PhysicalMemory.                      *)
(***************************************************************************)
EXTENDS PhysicalMemory

\* One page, safe runs of two, and unaligned runs of two as mm::heap asks for,
\* which can run past the end of a pool.
MixedRequests == {<<1, 1>>, <<2, 2>>, <<1, 2>>, <<2, 1>>}

\* Unaligned runs of two pages, as the heap's multi-page groups ask for.
HeapRequests == {<<1, 1>>, <<2, 1>>}

KernelFrames == {0}
KernelAndHole == {0, 3}
=============================================================================
