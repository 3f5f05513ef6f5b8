----------------------------- MODULE BootMemory -----------------------------
(***************************************************************************)
(* mm::init (src/mm.cpp): from the boot loader's memory map and the        *)
(* kernel's section headers to the directory of Paging and the marks of    *)
(* the page-frame pools, and then the page faults that are answered with   *)
(* frames of these pools.  Addresses are bytes, in Paging they are pages.  *)
(***************************************************************************)
EXTENDS Paging, Sequences, FiniteSetsExt

CONSTANTS
    PAGE_SIZE, DMA_MEMORY_LIMIT, KERNEL_VIRTUAL_SIZE_MAX,
    AddressLimit,   \* 2^32: how many addresses a uintptr_t tells apart
    AlignBit,       \* the bit linear_alloc tests, 16
    IntSize,        \* sizeof(int)
    Boots,          \* what the boot loader hands over: flags, memory map, sections,
                    \* and info, the pages these data lie in
    UserPages,      \* the pages callers may reserve and touch
    TestPage,       \* the first page that paging_test maps, 0xB03FA
    TestFrame,      \* the frame it maps there, 0x400
    DevicePage      \* a frame that map_page maps, 0xB8

VARIABLES
    boot,                \* the boot loader's data, chosen once
    pc,                  \* the step of mm::init that comes next, or what follows
    memory_end, kernel_static_end, kernel_dynamic_end,
    marked,              \* the frames whose word in a bitmap is 1
    lent                 \* history: the frames the allocator has lent

vars == <<dir, tables, tlb, stale, boot, pc, memory_end, kernel_static_end,
          kernel_dynamic_end, marked, lent>>

MULTIBOOT_MEMORY_AVAILABLE == 1
page(addr) == addr \div PAGE_SIZE
pages_of(addr, size) == {page(b) : b \in addr .. (addr + size - 1)}

\* 64-bit values are stored in a uintptr_t.
truncated(x) == x % AddressLimit

block_end(m) == truncated(m.addr + m.len)

\* The blocks of the map, if the boot loader says that it hands one over.
iterate_mmap(mbt) == IF "MULTIBOOT_INFO_MEM_MAP" \in mbt.flags THEN mbt.mmap ELSE {}

\* find_memory_end: the largest truncated end of an available block.
find_memory_end(mbt) ==
    Max({0} \cup {block_end(m) : m \in {x \in iterate_mmap(mbt) : x.type = MULTIBOOT_MEMORY_AVAILABLE}})

KERNEL_VIRTUAL_BASE == Page(KernelPde, 0) * PAGE_SIZE

\* The kernel's sections in memory, if the boot loader says that it hands them over.
kernel_sections(mbt) ==
    IF "MULTIBOOT_INFO_ELF_SHDR" \in mbt.flags THEN {x \in mbt.sections : x.alloc} ELSE {}

\* find_kernel_static_end: the end of the sections, less the base (which they are
\* given without here).  With no section 0 is less than the base, and wraps.
find_kernel_static_end(mbt) ==
    IF kernel_sections(mbt) = {} THEN AddressLimit - KERNEL_VIRTUAL_BASE
    ELSE Max({s.addr + s.size : s \in kernel_sections(mbt)})

\* The kernel maps no more than KERNEL_VIRTUAL_SIZE_MAX.
find_kernel_dynamic_end(himem_end) ==
    IF himem_end > KERNEL_VIRTUAL_SIZE_MAX THEN KERNEL_VIRTUAL_SIZE_MAX ELSE himem_end

\* The pools of mm::physical::init, in bytes.
dma_pool_size(dynamic_end) == IF DMA_MEMORY_LIMIT < dynamic_end THEN DMA_MEMORY_LIMIT ELSE dynamic_end
default_pool_size(dynamic_end) == dynamic_end - dma_pool_size(dynamic_end)
himem_pool_size(dynamic_end, himem_end) == himem_end - dynamic_end

\* linear_alloc moves on while one bit of the position is set, not to a multiple.
aligned(pos) == Min({q \in pos .. (pos + 2 * AlignBit) : (q \div AlignBit) % 2 = 0})
linear_alloc(pos, size) == aligned(pos) + size * IntSize

\* Where kernel_static_end stands when the three bitmaps have been placed.
bitmaps_end(static_end, dynamic_end, himem_end) ==
    linear_alloc(linear_alloc(linear_alloc(static_end,
        page(dma_pool_size(dynamic_end))),
        page(default_pool_size(dynamic_end))),
        page(himem_pool_size(dynamic_end, himem_end)))

ASSUME SizesAssumption ==
    /\ {PAGE_SIZE, AddressLimit, AlignBit, IntSize} \subseteq Nat \ {0}
    /\ {DMA_MEMORY_LIMIT, KERNEL_VIRTUAL_SIZE_MAX, TestFrame, DevicePage} \subseteq Nat
    /\ KERNEL_VIRTUAL_SIZE_MAX <= (SelfPde - KernelPde) * Entries * PAGE_SIZE
    /\ AddressLimit = Entries * Entries * PAGE_SIZE

\* Callers use pages between low memory and the kernel, the pages of paging_test
\* are two of one table, which nobody else uses.
ASSUME PagesAssumption ==
    /\ UserPages \cup {TestPage, TestPage + 1} \subseteq Entries .. (Page(KernelPde, 0) - 1)
    /\ {TestPage, TestPage + 1} \cap UserPages = {}
    /\ pdindex(TestPage + 1) = pdindex(TestPage)

\* What the boot loader may say: the kernel lies in one large page, and holds its
\* directory and tables.  Its own data may lie anywhere.
ASSUME BootsAssumption ==
    \A mbt \in Boots :
        /\ \A m \in mbt.mmap : {m.addr, m.len, m.type} \subseteq Nat
        /\ \A s \in mbt.sections : {s.addr, s.size} \subseteq Nat
        /\ \A s \in mbt.sections : s.alloc => s.addr + s.size <= Entries * PAGE_SIZE
        /\ kernel_sections(mbt) # {} =>
               {DirFrame, KernelTable, TestTable} \subseteq pages_of(0, find_kernel_static_end(mbt))
        /\ mbt.info \subseteq 0 .. (Entries * Entries - 1)

Init == /\ PagingInit
        /\ boot \in Boots
        /\ pc = "ends"
        /\ memory_end = 0 /\ kernel_static_end = 0 /\ kernel_dynamic_end = 0
        /\ marked = {} /\ lent = {}

\* The ends are found, the boot loader's data is read at its physical address.
FindEnds ==
    /\ pc = "ends"
    /\ \A v \in boot.info : walk(v) = v
    /\ memory_end' = find_memory_end(boot)
    /\ kernel_static_end' = find_kernel_static_end(boot)
    /\ kernel_dynamic_end' = find_kernel_dynamic_end(memory_end')
    /\ pc' = "paging"
    /\ UNCHANGED <<dir, tables, tlb, stale, boot, marked, lent>>

\* Data that is not mapped: there is no handler yet, the fault resets the machine.
\* Where the kernel is mapped something else is read, and no more is known.
FindEndsFaults ==
    /\ pc = "ends"
    /\ \E v \in boot.info : walk(v) # v
    /\ pc' = IF \E v \in boot.info : walk(v) = NoFrame THEN "reset" ELSE "lost"
    /\ UNCHANGED <<dir, tables, tlb, stale, boot, memory_end, kernel_static_end,
                   kernel_dynamic_end, marked, lent>>

InitPaging ==
    /\ pc = "paging"
    /\ paging_init((kernel_dynamic_end + PAGE_SIZE - 1) \div PAGE_SIZE)
    /\ pc' = IF memory_end = 0 THEN "panic" ELSE "physical"
    /\ UNCHANGED <<boot, memory_end, kernel_static_end, kernel_dynamic_end, marked, lent>>

\* The pools in whole pages: PhysicalPool::init sets the words of the frames from a
\* base on to 0.
pool_pages(base, size) == {page(base) + i : i \in 0 .. (page(size) - 1)}
DMAPool == pool_pages(0, dma_pool_size(kernel_dynamic_end))
DefaultPool == pool_pages(dma_pool_size(kernel_dynamic_end), default_pool_size(kernel_dynamic_end))
HiMemPool == pool_pages(kernel_dynamic_end, himem_pool_size(kernel_dynamic_end, memory_end))
Frame == DMAPool \cup DefaultPool \cup HiMemPool

\* Mutant: only whole pages are reserved.
reserve_range_Whole(addr, size) ==
    {page(addr + i * PAGE_SIZE) : i \in 0 .. ((size \div PAGE_SIZE) - 1)}

\* reserve_range: a frame for every PAGE_SIZE bytes from addr on.
reserve_range(addr, size) ==
    {page(addr + i * PAGE_SIZE) : i \in 0 .. (((size + PAGE_SIZE - 1) \div PAGE_SIZE) - 1)}

\* The regions reserved are those whose type has no AVAILABLE bit.
unavailable(m) == m.type % 2 = 0

\* The frames that are not to be lent: what lies below the end of the bitmaps, and
\* the reserved regions.
withheld(static_end) ==
    reserve_range(0, static_end) \cup
    UNION {reserve_range(truncated(m.addr), truncated(m.len)) :
              m \in {x \in iterate_mmap(boot) : unavailable(x)}}

\* Memory that is mapped and there holds the bitmaps up to an end.
bitmaps_mapped(end) == end <= Entries * PAGE_SIZE \/ end <= kernel_dynamic_end

\* The bitmaps lie on data of the boot loader that is read after they are zeroed.
overwrites(end) == boot.info \cap pages_of(kernel_static_end, end - kernel_static_end) # {}

\* A part of a page between two pools is reserved: find_pool gives the pool behind
\* it, in which the index underflows, and something in memory becomes 1.
strays(end) == kernel_dynamic_end % PAGE_SIZE # 0 /\ page(kernel_dynamic_end) \in withheld(end)

\* mm::physical::init: three zeroed bitmaps behind the kernel, then the marks.
\* What is overwritten may be of no use, or else no more is known.
InitPhysical ==
    /\ pc = "physical"
    /\ kernel_static_end' = bitmaps_end(kernel_static_end, kernel_dynamic_end, memory_end)
    /\ bitmaps_mapped(kernel_static_end')
    /\ marked' = Frame \cap withheld(kernel_static_end')
    /\ pc' \in {"unmap"} \cup
                (IF overwrites(kernel_static_end') \/ strays(kernel_static_end') THEN {"lost"} ELSE {})
    /\ UNCHANGED <<dir, tables, tlb, stale, boot, memory_end, kernel_dynamic_end, lent>>

\* Behind what is mapped a bitmap's page resets the machine, or is no memory of its
\* own: the kernel's end without sections wraps to the mapping at 0.
BitmapsMisplaced ==
    /\ pc = "physical"
    /\ ~bitmaps_mapped(bitmaps_end(kernel_static_end, kernel_dynamic_end, memory_end))
    /\ pc' \in {"reset", "lost"}
    /\ UNCHANGED <<dir, tables, tlb, stale, boot, memory_end, kernel_static_end,
                   kernel_dynamic_end, marked, lent>>

InitUnmap0 ==
    /\ pc = "unmap"
    /\ init_unmap_0
    /\ pc' = "running"
    /\ UNCHANGED <<boot, memory_end, kernel_static_end, kernel_dynamic_end, marked, lent>>

Boot == \/ FindEnds \/ FindEndsFaults
        \/ InitPaging
        \/ InitPhysical \/ BitmapsMisplaced
        \/ InitUnmap0

-----------------------------------------------------------------------------
unmarked(pool) == pool \ marked

\* A request is granted from the first pool of the chain that has a frame.
AllocHimem(f) ==
    \/ f \in unmarked(HiMemPool)
    \/ unmarked(HiMemPool) = {} /\ f \in unmarked(DefaultPool)
    \/ unmarked(HiMemPool) \cup unmarked(DefaultPool) = {} /\ f \in unmarked(DMAPool)
AllocDefault(f) ==
    \/ f \in unmarked(DefaultPool)
    \/ unmarked(DefaultPool) = {} /\ f \in unmarked(DMAPool)
take(f) == marked' = marked \cup {f} /\ lent' = lent \cup {f}

\* A caller installs a page table with reserved pages, in a frame of its own: no
\* code of the kernel does.
Reserve(pd) ==
    /\ pc = "running"
    /\ dir[pd] = Absent
    /\ \E f \in TableFrames :
         /\ AllocDefault(f)
         /\ take(f)
         /\ dir' = [dir EXCEPT ![pd] = Entry(TRUE, FALSE, FALSE, f)]
         /\ tables' = [tables EXCEPT ![f] =
                         [i \in Index |-> IF Page(pd, i) \in UserPages THEN ReservedEntry ELSE Absent]]
    /\ UNCHANGED <<tlb, stale, boot, pc, memory_end, kernel_static_end, kernel_dynamic_end>>

\* An access to a page that is not present: fault_handler, paging_handle_fault.
PageFault(v) ==
    /\ pc = "running"
    /\ \E f \in Frame : AllocHimem(f) /\ take(f) /\ handle_fault(v, f)
    /\ UNCHANGED <<boot, pc, memory_end, kernel_static_end, kernel_dynamic_end>>

\* alloc_pages_himem returns 0, which is mapped.
PageFaultOutOfMemory(v) ==
    /\ pc = "running"
    /\ unmarked(Frame) = {}
    /\ handle_fault(v, 0)
    /\ UNCHANGED <<boot, pc, memory_end, kernel_static_end, kernel_dynamic_end, marked, lent>>

\* A fault that is not resolved halts the system.
PageFaultHalts(v) ==
    /\ pc = "running"
    /\ walk(v) = NoFrame
    /\ ~Resolvable(v)
    /\ pc' = "halted"
    /\ UNCHANGED <<dir, tables, tlb, stale, boot, memory_end, kernel_static_end,
                   kernel_dynamic_end, marked, lent>>

\* map_page of the screen's frame, outside the kernel's own mapping.
MapDevice(v) ==
    /\ pc = "running"
    /\ map_page(DevicePage, v)
    /\ UNCHANGED <<boot, pc, memory_end, kernel_static_end, kernel_dynamic_end, marked, lent>>

\* map_page where the directory has no table: writing the entry faults, and the
\* page of the entry is not a reserved one.
MapDeviceFaults(v) ==
    /\ pc = "running"
    /\ stored_at(v) = NoFrame
    /\ pc' = "halted"
    /\ UNCHANGED <<dir, tables, tlb, stale, boot, memory_end, kernel_static_end,
                   kernel_dynamic_end, marked, lent>>

\* A kernel section as the loop of paging_build_kernel_table meets it.
in_pages(s) == [first |-> Page(KernelPde, page(s.addr)),
                last |-> Page(KernelPde, page(s.addr + s.size - 1))]

\* The loop looks at no flag, but without the sections mm::init gets no further.
in_memory == {s \in boot.sections : s.alloc /\ s.size > 0}

\* The call of paging_build_kernel_table that kmain keeps in a comment; what
\* the large page mapped besides the sections cannot be used afterwards.
BuildKernelTable ==
    /\ pc = "running"
    /\ paging_build_kernel_table({in_pages(s) : s \in in_memory}, {DevicePage})
    /\ pc' = "rebuilt"
    /\ UNCHANGED <<boot, memory_end, kernel_static_end, kernel_dynamic_end, marked, lent>>

\* mm::kernel_physical_to_virtual.
kernel_physical_to_virtual(f) == Page(KernelPde, 0) + f

\* Where the kernel finds its own table.
KernelPage == kernel_physical_to_virtual(KernelTable)

\* The call of paging_test that kmain does not compile, before memory is allocated.
PagingTest ==
    /\ pc = "running"
    /\ lent = {} /\ dir[pdindex(TestPage)] = Absent
    /\ paging_test(TestPage, TestFrame)
    /\ UNCHANGED <<boot, pc, memory_end, kernel_static_end, kernel_dynamic_end, marked, lent>>

\* Memory is as the kernel left it, and the machine runs.
Intact == pc \notin {"reset", "lost"}

\* Nothing follows a panic, a halt or the disabled call, and nothing is known of what
\* follows when memory that is in use was overwritten.
Stopped == pc \in {"panic", "halted", "rebuilt", "reset", "lost"} /\ UNCHANGED vars

CacheTranslation(v) ==
    /\ Intact
    /\ Cache(v)
    /\ UNCHANGED <<boot, pc, memory_end, kernel_static_end, kernel_dynamic_end, marked, lent>>

Next == \/ Boot
        \/ \E pd \in {pdindex(v) : v \in UserPages} : Reserve(pd)
        \/ \E v \in UserPages :
             PageFault(v) \/ PageFaultOutOfMemory(v) \/ PageFaultHalts(v)
             \/ MapDevice(v) \/ MapDeviceFaults(v)
        \/ \E v \in UserPages \cup (boot.info \cap Index) \cup {KernelPage} : CacheTranslation(v)
        \/ BuildKernelTable \/ PagingTest
        \/ Stopped

Spec == Init /\ [][Next]_vars

-----------------------------------------------------------------------------
Initialised == pc \in {"unmap", "running", "halted", "rebuilt"}

\* The frames a region touches, except the last one if its base is unaligned.
promised(m) ==
    LET touched == pages_of(m.addr, m.len)
    IN  IF m.addr % PAGE_SIZE = 0 THEN touched ELSE touched \ {page(m.addr + m.len - 1)}

\* No frame that the kernel's image, a bitmap or a reserved region of the map
\* touches is ever lent, in any order of faults, and the bitmaps lie behind the
\* image.  It holds for the regions below 4 GB (but not for one of all 4 GB, whose
\* length is truncated to 0), and the last, partly reserved,
\* frame of a region that does not begin on a page is not promised.  A region of
\* type 3 or 5 counts as available, as in the code, and may be lent.
ReservedNeverLent ==
    Initialised =>
        /\ \A f \in {0} \cup Frame : kernel_static_end >= find_kernel_static_end(boot) + f
        /\ lent \cap pages_of(0, kernel_static_end) = {}
        /\ \A m \in boot.mmap :
              (unavailable(m) /\ m.len < AddressLimit /\ m.addr + m.len <= AddressLimit)
                  => lent \cap promised(m) = {}

\* What each step of mm::init reads and writes is mapped where it is looked for:
\* once the ends are found, the boot loader's data at its physical address until the
\* mapping at 0 is taken away, and from paging::init on all memory up to
\* kernel_dynamic_end, with the bitmaps, at kernel_physical_to_virtual.  loader.s:79
\* warns that the data may lie above the first 4 MB: FindEnds finds it mapped, or
\* mm::init goes no further.  virtual_to_physical agrees with the CPU, and
\* physical_to_virtual finds a page that leads back to the frame.
KernelMapping ==
    Intact =>
        /\ pc \in {"paging", "physical"} => \A v \in boot.info : walk(v) = v
        /\ pc \in {"physical", "unmap", "running"} =>
              \A f \in pages_of(0, kernel_dynamic_end) : walk(kernel_physical_to_virtual(f)) = f
        /\ pc \in {"unmap", "running"} =>
              \A f \in pages_of(0, kernel_static_end) : walk(kernel_physical_to_virtual(f)) = f
        /\ pc = "rebuilt" =>
              \A s \in in_memory : \A f \in pages_of(s.addr, s.size) :
                  walk(kernel_physical_to_virtual(f)) = f
        /\ pc \notin {"ends", "paging"} =>
              \A v \in UserPages \cup {KernelPage, TestPage, TestPage + 1} :
                  virtual_to_physical(v) = IF walk(v) = NoFrame THEN 0 ELSE walk(v)
        /\ \A f \in lent \cup {DevicePage, KernelTable} :
              physical_to_virtual(f) # 0 => walk(physical_to_virtual(f)) = f

\* The CPU never uses a cached translation the tables no longer hold, except for a
\* page that map_page has changed, which flushes nothing.  Two pages that were
\* reserved never get the same frame, nor one that is not the allocator's, except
\* frame 0, which a failed allocation maps.
PagesApart ==
    Intact =>
        /\ \A v \in DOMAIN tlb \ stale : tlb[v].frame = walk(v)
        /\ \A v \in UserPages :
              walk(v) \in lent \cup {NoFrame, DevicePage, 0}
        /\ \A v, w \in UserPages :
              (v # w /\ walk(v) = walk(w)) => walk(v) \in {NoFrame, DevicePage, 0}
=============================================================================
