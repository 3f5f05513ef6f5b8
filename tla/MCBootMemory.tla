---------------------------- MODULE MCBootMemory ----------------------------
(***************************************************************************)
(* Small machines for BootMemory: pages of 4 bytes, 8 entries in a table,  *)
(* 256 addresses, the kernel from byte 4 on, its directory in frame 1,     *)
(* kernel_page_table in frame 2 and test_page_table in frame 3.            *)
(***************************************************************************)
EXTENDS BootMemory

Region(addr, len, type) == [addr |-> addr, len |-> len, type |-> type]
Map == {"MULTIBOOT_INFO_MEM_MAP", "MULTIBOOT_INFO_ELF_SHDR"}
Section(addr, size, alloc) == [addr |-> addr, size |-> size, alloc |-> alloc]

\* Text and data that share a page, an unaligned end, a table that is not kept.
Kernel == {Section(4, 3, TRUE), Section(7, 6, TRUE), Section(0, 200, FALSE)}

\* High memory, and a reserved block that begins and ends inside pages.
Roomy == [flags |-> Map, mmap |-> {Region(0, 46, 1), Region(46, 16, 2), Region(62, 10, 1)},
          info |-> {0}, sections |-> Kernel]

\* More memory than the kernel maps, ACPI memory (type 3), a reserved block
\* above 4 GB, bitmaps behind the loader's mapping.
Large == [flags |-> Map,
          mmap |-> {Region(0, 52, 1), Region(52, 12, 2), Region(64, 4, 1), Region(68, 8, 2),
                    Region(76, 4, 3), Region(80, 4, 1), Region(300, 8, 2)},
          info |-> {0}, sections |-> {Section(4, 20, TRUE)}]

\* All memory is used up by a few faults; the end is not that of a page.
Small == [flags |-> Map, mmap |-> {Region(0, 34, 1)}, info |-> {0}, sections |-> {Section(4, 12, TRUE)}]

\* An available block that ends at 4 GB ends at 0 after truncation.
Top == [flags |-> Map, mmap |-> {Region(0, 32, 1), Region(40, 216, 1)},
        info |-> {0}, sections |-> {Section(4, 12, TRUE)}]

\* No memory map: what lies at its address is none.
NoMap == [flags |-> {"MULTIBOOT_INFO_ELF_SHDR"}, mmap |-> {Region(0, 60, 1)}, info |-> {0},
          sections |-> Kernel]

\* No sections: the kernel's end wraps, and so do the bitmaps.
NoSections == [Small EXCEPT !.flags = {"MULTIBOOT_INFO_MEM_MAP"}]

\* The loader's data behind the first large page, or where the kernel is mapped.
HighInfo == {[Small EXCEPT !.info = {0, 9}], [Small EXCEPT !.info = {41}]}

\* The loader's data right behind the kernel, where the bitmaps go.
Overlap == [Small EXCEPT !.info = {0, 4}]

\* The page that memory ends in is reserved.
Stray == [Small EXCEPT !.mmap = {Region(0, 32, 1), Region(32, 1, 2), Region(33, 1, 1)}]

Machines == {Roomy, Large, Small, Top, NoMap, NoSections, Overlap, Stray} \cup HighInfo
Tables == 0 .. 18
\* Two pages of one directory entry and one of the next.
Pages == {9, 10, 17}
=============================================================================
