---------------------------- MODULE PageAllocator ----------------------------
(***************************************************************************)
(* What the physical memory manager promises to its callers: page frames   *)
(* are lent out in contiguous runs, a frame has at most one holder, and a  *)
(* frame that was reserved at boot is never lent.  The module says nothing *)
(* of how frames are chosen, nor of when a request may fail.               *)
(*                                                                         *)
(* PhysicalMemory (src/physical.cpp) implements it for the requests that   *)
(* stay inside one pool.                                                   *)
(***************************************************************************)
EXTENDS Naturals

CONSTANTS Frame,      \* every page frame the pools manage
          Lendable    \* the frames that are not reserved at boot

VARIABLE held         \* the frames that callers hold

TypeOK == held \subseteq Lendable

Init == held = {}

\* A request is granted with a run of frames nobody holds.
Grant(first, last) ==
    /\ first <= last
    /\ first .. last \subseteq Lendable \ held
    /\ held' = held \cup (first .. last)

\* A holder returns a run of frames.
Return(first, last) ==
    /\ first <= last
    /\ first .. last \subseteq held
    /\ held' = held \ (first .. last)

Next == \E first, last \in Frame : Grant(first, last) \/ Return(first, last)

Spec == Init /\ [][Next]_held
==============================================================================
