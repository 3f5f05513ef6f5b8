----------------------------- MODULE MCDiskCache -----------------------------
(* Two buffers of one or two blocks over three pages. *)
EXTENDS DiskCache
CONSTANTS a, b
Buffers == {a, b}
FewBlocks == {10, 11}
==============================================================================
