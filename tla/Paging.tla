------------------------------- MODULE Paging -------------------------------
(***************************************************************************)
(* The kernel's page directory, src/pagedir.cpp and src/paging.cpp: how it *)
(* maps large pages and page tables, how the tables are reached through the*)
(* directory's last entry, and how both are translated.  Addresses are     *)
(* counted in pages; the walk of the CPU and its cache of translations     *)
(* (tlb) are external.                                                     *)
(***************************************************************************)
EXTENDS Integers

CONSTANTS
    Entries,      \* entries of a directory or table, 1024
    KernelPde,    \* KERNEL_VIRTUAL_BASE >> LARGE_PAGE_SHIFT, 0x300
    DirFrame,     \* the frame of KernelPageDirectory
    KernelTable,  \* the frame of kernel_page_table
    TestTable,    \* the frame of test_page_table
    TableFrames   \* the frames page tables can lie in

\* The kernel and the directory itself have entries of their own above that of
\* low memory; the kernel's tables lie in its first large page.
ASSUME PagingAssumption ==
    /\ Entries \in Nat /\ KernelPde \in 1 .. (Entries - 2)
    /\ TableFrames \subseteq Nat /\ {KernelTable, TestTable} \subseteq TableFrames
    /\ {DirFrame, KernelTable, TestTable} \subseteq 0 .. (Entries - 1)
    /\ DirFrame \notin {KernelTable, TestTable} /\ KernelTable # TestTable

VARIABLES
    dir,      \* KernelPageDirectory
    tables,   \* the contents of the page tables
    tlb,      \* the translations the CPU has cached
    stale     \* the pages map_page has changed while they were cached

paging_vars == <<dir, tables, tlb, stale>>

Index == 0 .. (Entries - 1)
SelfPde == Entries - 1
Page(pd, pt) == pd * Entries + pt
pdindex(v) == v \div Entries
ptindex(v) == v % Entries

\* page_dir_entry_t and page_table_entry_t overlay each other: page_frame_addr
\* of a large page is page_table_addr >> 10.
Entry(present, large, reserved_flag, page) ==
    [present |-> present, enable4m |-> large, reserved_flag |-> reserved_flag,
     page |-> page]
Absent == Entry(FALSE, FALSE, FALSE, 0)
ReservedEntry == Entry(FALSE, FALSE, TRUE, 0)
EmptyTable == [i \in Index |-> Absent]

NoFrame == -1

\* The page table of a directory entry: through the last entry the directory
\* itself is taken for one.
table(d, pd) == IF d[pd].page = DirFrame THEN d ELSE tables[d[pd].page]

\* The CPU's walk: the frame of page v.
walk(v) ==
    LET pde == dir[pdindex(v)]
        pte == table(dir, pdindex(v))[ptindex(v)]
    IN  IF ~pde.present THEN NoFrame
        ELSE IF pde.enable4m THEN pde.page + ptindex(v)
        ELSE IF pte.present THEN pte.page ELSE NoFrame

\* The tables lie where 0xFFC00000 | (pd << 12) says.
pt_pointer(pd) == Page(SelfPde, pd)

\* PageDirectory::virtual_to_physical: reads the table through the last entry.
virtual_to_physical(v) ==
    LET pde == dir[pdindex(v)]
        pte == tables[walk(pt_pointer(pdindex(v)))][ptindex(v)]
        dte == dir[ptindex(v)]
    IN  IF ~pde.present THEN 0
        ELSE IF pde.enable4m THEN pde.page + ptindex(v)
        ELSE IF walk(pt_pointer(pdindex(v))) = DirFrame
             THEN IF dte.present THEN dte.page ELSE 0
        ELSE IF pte.present THEN pte.page ELSE 0

\* The pages PageDirectory::physical_to_virtual can find frame f at.
Finds(f) ==
    {v \in 0 .. (Entries * Entries - 1) :
        LET pde == dir[pdindex(v)] IN
        /\ pde.present
        /\ IF pde.enable4m
           THEN pde.page = f - (f % Entries) /\ ptindex(v) = f % Entries
           ELSE LET pte == table(dir, pdindex(v))[ptindex(v)]
                IN  pte.present /\ pte.page = f}

\* PageDirectory::physical_to_virtual: the first one, 0 if there is none.
physical_to_virtual(f) ==
    LET found == Finds(f)
    IN  IF found = {} THEN 0 ELSE CHOOSE v \in found : \A w \in found : v <= w

\* What invlpg of a page drops: the page, or the large page it was part of.
flushed(v) == {w \in DOMAIN tlb : w = v \/ (tlb[w].large /\ pdindex(w) = pdindex(v))}
Keep(cache, pages) == [w \in DOMAIN cache \ pages |-> cache[w]]

\* loader.s: the first large page of memory at 0 and at KERNEL_VIRTUAL_BASE.
LoaderDirectory ==
    [i \in Index |-> IF i \in {0, KernelPde} THEN Entry(TRUE, TRUE, FALSE, 0) ELSE Absent]

PagingInit == /\ dir = LoaderDirectory
              /\ tables = [f \in TableFrames |-> EmptyTable]
              /\ tlb = <<>>
              /\ stale = {}

\* PageDirectory::init.
self_mapped(d) == [d EXCEPT ![SelfPde] = Entry(TRUE, FALSE, FALSE, DirFrame)]

\* Mutant: the loop stops before the last, partly used, large page.
mapped_pdes_Whole(linear_pages) ==
    {i \in Index : i >= KernelPde /\ (i - KernelPde + 1) * Entries <= linear_pages}

\* The directory entries the loop of paging::init sets.
mapped_pdes(linear_pages) ==
    {i \in Index : i >= KernelPde /\ (i - KernelPde) * Entries < linear_pages}

\* mm::paging::init, with the invlpg of each large page.
paging_init(linear_pages) ==
    /\ dir' = [i \in Index |->
                 IF i \in mapped_pdes(linear_pages)
                 THEN Entry(TRUE, TRUE, FALSE, (i - KernelPde) * Entries)
                 ELSE self_mapped(dir)[i]]
    /\ tlb' = Keep(tlb, {w \in DOMAIN tlb : pdindex(w) \in mapped_pdes(linear_pages)})
    /\ UNCHANGED <<tables, stale>>

\* Mutant: the large page stays cached.
unmapped_0_Cached == {}

\* What the invlpg of init_unmap_0 drops.
unmapped_0 == flushed(0)

\* mm::paging::init_unmap_0.
init_unmap_0 ==
    /\ dir' = [dir EXCEPT ![0].present = FALSE]
    /\ tlb' = Keep(tlb, unmapped_0)
    /\ UNCHANGED <<tables, stale>>

\* The CPU caches a translation.
Cache(v) ==
    /\ walk(v) # NoFrame
    /\ v \notin DOMAIN tlb
    /\ tlb' = [w \in DOMAIN tlb \cup {v} |->
                 IF w = v THEN [frame |-> walk(v), large |-> dir[pdindex(v)].enable4m]
                 ELSE tlb[w]]
    /\ UNCHANGED <<dir, tables, stale>>

\* Where the page-table entry of v is stored.
stored_at(v) == walk(pt_pointer(pdindex(v)))

\* The fault handler can resolve a fault on v.
Resolvable(v) ==
    /\ dir[pdindex(v)].present
    /\ ~dir[pdindex(v)].enable4m
    /\ table(dir, pdindex(v))[ptindex(v)].reserved_flag

\* paging_handle_fault of a reserved page, after alloc_pages_himem returned f.
handle_fault(v, f) ==
    /\ walk(v) = NoFrame
    /\ Resolvable(v)
    /\ tables' = [tables EXCEPT ![stored_at(v)][ptindex(v)] = Entry(TRUE, FALSE, FALSE, f)]
    /\ UNCHANGED <<dir, tlb, stale>>

\* mm::paging::map_page: the entry is written where the last entry of the directory
\* leads, and nothing is flushed.  In a large page that is the frame it begins with,
\* which holds no table here: callers' pages are in none.
map_page(f, v) ==
    /\ stored_at(v) # NoFrame
    /\ tables' = [tables EXCEPT ![stored_at(v)][ptindex(v)] = Entry(TRUE, FALSE, FALSE, f)]
    /\ stale' = IF v \in DOMAIN tlb THEN stale \cup {v} ELSE stale
    /\ UNCHANGED <<dir, tlb>>

\* mm::paging::paging_test: a table with two entries for frame f replaces what the
\* directory has for page v; both pages are then read and written.
paging_test(v, f) ==
    /\ tables' = [tables EXCEPT ![TestTable] =
           [i \in Index |-> IF i \in {ptindex(v), ptindex(v) + 1}
                           THEN Entry(TRUE, FALSE, FALSE, f) ELSE Absent]]
    /\ dir' = [dir EXCEPT ![pdindex(v)] =
                 Entry(TRUE, FALSE, FALSE, virtual_to_physical(Page(KernelPde, TestTable)))]
    /\ tlb' = [w \in (DOMAIN tlb \ flushed(v)) \cup {v, v + 1} |->
                 IF w \in DOMAIN tlb \ flushed(v) THEN tlb[w]
                 ELSE [frame |-> f, large |-> FALSE]]
    /\ UNCHANGED stale

\* mm::paging::paging_build_kernel_table for sections from page `first` to `last`:
\* each page is entered with the frame it has so far, and so are the pages of
\* the screen and of the multiboot header; then the table replaces the large page.
built_table(sections, fixed) ==
    [i \in Index |->
       IF i \in fixed THEN Entry(TRUE, FALSE, FALSE, i)
       ELSE IF \E s \in sections : \E k \in 0 .. (s.last - s.first) :
                   ptindex(s.first) + k = i
       THEN LET s == CHOOSE t \in sections :
                       i - ptindex(t.first) \in 0 .. (t.last - t.first)
            IN  Entry(TRUE, FALSE, FALSE, virtual_to_physical(s.first + (i - ptindex(s.first))))
       ELSE Absent]

paging_build_kernel_table(sections, fixed) ==
    /\ tables' = [tables EXCEPT ![KernelTable] = built_table(sections, fixed)]
    /\ dir' = [dir EXCEPT ![KernelPde] =
                 Entry(TRUE, FALSE, FALSE, virtual_to_physical(Page(KernelPde, KernelTable)))]
    /\ tlb' = Keep(tlb, {w \in DOMAIN tlb : pdindex(w) = KernelPde})
    /\ UNCHANGED stale
=============================================================================
