-------------------------- MODULE BootMemoryProofs --------------------------
(***************************************************************************)
(* Proofs about BootMemory, for page tables, pools, memory maps and kernel *)
(* images of any size: what is reserved is never lent, all that mm::init   *)
(* and the translations read is mapped, and pages do not share a frame.    *)
(***************************************************************************)
EXTENDS BootMemory, WellFoundedInduction, TLAPS

USE DEF Intact, bitmaps_mapped

-----------------------------------------------------------------------------
\* The inductive invariant.

PageEntry == [present : BOOLEAN, enable4m : BOOLEAN, reserved_flag : BOOLEAN, page : Nat]

\* The entries of callers' pages.
UserPde == 1 .. (KernelPde - 1)

TypeOK ==
    /\ dir \in [Index -> PageEntry]
    /\ tables \in [TableFrames -> [Index -> PageEntry]]
    /\ DOMAIN tlb \subseteq UserPages \cup Index \cup {KernelPage, TestPage, TestPage + 1}
    /\ \A v \in DOMAIN tlb : tlb[v].frame \in Nat
    /\ stale \subseteq UserPages
    /\ boot \in Boots
    /\ pc \in {"ends", "paging", "panic", "physical", "unmap", "running", "halted", "rebuilt",
              "reset", "lost"}
    /\ memory_end \in Nat /\ kernel_static_end \in Nat /\ kernel_dynamic_end \in Nat

\* Which ends are known when, and what mm::init has made sure of.
Ends ==
    LET static_end == find_kernel_static_end(boot) IN
    /\ Intact
    /\ pc # "ends" => /\ memory_end = find_memory_end(boot)
                      /\ kernel_dynamic_end = find_kernel_dynamic_end(memory_end)
                      /\ kernel_static_end = IF Initialised
                                             THEN bitmaps_end(static_end, kernel_dynamic_end, memory_end)
                                             ELSE static_end
    /\ (pc = "physical" \/ Initialised) => memory_end # 0
    /\ pc \in {"paging", "physical"} => boot.info \subseteq Index
    /\ Initialised => bitmaps_mapped(kernel_static_end)

\* What is withheld stays marked, what is lent was not.
Marks ==
    /\ lent \subseteq marked \cap Frame
    /\ IF Initialised THEN /\ Frame \cap withheld(kernel_static_end) \subseteq marked
                           /\ lent \cap withheld(kernel_static_end) = {}
                      ELSE lent = {}

\* The entries the kernel sets for itself.
linear_pages == (kernel_dynamic_end + PAGE_SIZE - 1) \div PAGE_SIZE
KernelEntries ==
    /\ pc \in {"ends", "paging"} => dir = LoaderDirectory
    /\ pc \notin {"ends", "paging"} =>
          /\ dir[SelfPde] = Entry(TRUE, FALSE, FALSE, DirFrame)
          /\ dir[0].enable4m /\ dir[0].page = 0
          /\ dir[0].present <=> pc \in {"panic", "physical", "unmap"}
          /\ \A i \in mapped_pdes(linear_pages) \ {KernelPde} :
                dir[i] = Entry(TRUE, TRUE, FALSE, (i - KernelPde) * Entries)
          /\ dir[KernelPde] = IF pc = "rebuilt" THEN Entry(TRUE, FALSE, FALSE, KernelTable)
                              ELSE Entry(TRUE, TRUE, FALSE, 0)

\* After paging_build_kernel_table the sections are where they were.
SectionsStay ==
    pc = "rebuilt" =>
        \A s \in in_memory : \A f \in pages_of(s.addr, s.size) :
            tables[KernelTable][f] = Entry(TRUE, FALSE, FALSE, f)

\* A caller's table lies in a frame lent to it, paging_test's in its own; no two
\* entries have the same.
UserTables ==
    /\ \A i \in UserPde : dir[i].present =>
          /\ ~dir[i].enable4m
          /\ dir[i].page \in TableFrames \cap (lent \cup {TestTable})
          /\ dir[i].page = TestTable => i = pdindex(TestPage)
    /\ \A i, j \in UserPde :
          (dir[i].present /\ dir[j].present /\ dir[i].page = dir[j].page) => i = j

\* The mapping of low memory is cached as a large page, which one invlpg drops.
LowIsLarge == \A v \in DOMAIN tlb : pdindex(v) = 0 => tlb[v].large

\* The two parts of PagesApart.
CachedIsTrue == \A v \in DOMAIN tlb \ stale : tlb[v].frame = walk(v)
OwnFrames ==
    /\ \A v \in UserPages : walk(v) \in lent \cup {NoFrame, DevicePage, 0}
    /\ \A v, w \in UserPages :
          (v # w /\ walk(v) = walk(w)) => walk(v) \in {NoFrame, DevicePage, 0}

IInv == /\ TypeOK /\ Ends /\ Marks /\ KernelEntries /\ SectionsStay /\ UserTables
        /\ LowIsLarge /\ CachedIsTrue /\ OwnFrames

\* It holds until the machine resets or something in use is overwritten.
WhileIntact == TypeOK /\ (Intact => IInv)

-----------------------------------------------------------------------------
\* Least and largest numbers.

LEMMA Least ==
    ASSUME NEW S \in SUBSET Nat, S # {}
    PROVE  \E x \in S : \A y \in S : x <= y
  <1>1. PICK x \in S : \A y \in S : ~ (<<y, x>> \in OpToRel(<, Nat))
    BY NatLessThanWellFounded, WFMin
  <1>2. ASSUME NEW y \in S  PROVE  x <= y
    <2>1. <<y, x>> \notin {ss \in Nat \X Nat : ss[1] < ss[2]}
      BY <1>1 DEF OpToRel
    <2> QED
      BY <2>1
  <1> QED
    BY <1>1, <1>2

LEMMA MinIsLeast ==
    ASSUME NEW S \in SUBSET Nat, S # {}
    PROVE  Min(S) \in S /\ \A y \in S : Min(S) <= y
  BY Least DEF Min

\* A set of numbers with a bound has a maximum.
LEMMA MaxIsNumber ==
    ASSUME NEW S \in SUBSET Nat, S # {}, NEW b \in Nat, \A y \in S : y <= b
    PROVE  Max(S) \in Nat
  <1> DEFINE T == {b - y : y \in S}
  <1>1. T \in SUBSET Nat /\ T # {}
    <2>1. \A y \in S : y \in Nat /\ y <= b
      OBVIOUS
    <2>2. \A y \in S : b - y \in Nat
      BY <2>1
    <2> QED
      BY <2>2, Zenon
  <1>2. PICK x \in T : \A z \in T : x <= z
    BY <1>1, Least
  <1>3. PICK m \in S : x = b - m
    BY <1>2
  <1>4. \A y \in S : m >= y
    <2> TAKE y \in S
    <2>1. x <= b - y
      BY <1>2
    <2> QED
      BY <2>1, <1>3
  <1> QED
    BY <1>4 DEF Max

-----------------------------------------------------------------------------
\* Division.

LEMMA Division ==
    ASSUME NEW a \in Nat, NEW n \in Nat \ {0}
    PROVE  /\ a \div n \in Nat /\ a % n \in 0 .. (n - 1)
           /\ a = n * (a \div n) + (a % n)
  OBVIOUS

LEMMA Quotient ==
    ASSUME NEW q \in Nat, NEW n \in Nat \ {0}, NEW r \in 0 .. (n - 1)
    PROVE  /\ (n * q + r) \div n = q /\ (n * q + r) % n = r
  OBVIOUS

\* The quotient tells on which side of a multiple a number lies.
LEMMA Sides ==
    ASSUME NEW a \in Nat, NEW n \in Nat \ {0}, NEW q \in Nat
    PROVE  /\ a < n * q => a \div n < q
           /\ n * q <= a => q <= a \div n
  OBVIOUS

LEMMA Monotone ==
    ASSUME NEW a \in Nat, NEW b \in Nat, a <= b, NEW n \in Nat \ {0}
    PROVE  a \div n <= b \div n /\ n * a <= n * b
  <1>1. a = n * (a \div n) + (a % n) /\ a \div n \in Nat /\ a % n \in Nat
    BY Division
  <1>2. n * (a \div n) <= b
    <2> DEFINE q == n * (a \div n)
    <2>1. q \in Nat
      BY <1>1
    <2> HIDE DEF q
    <2> QED
      BY <1>1, <2>1 DEF q
  <1> QED
    BY <1>1, <1>2, Sides

LEMMA Constants ==
    /\ PAGE_SIZE \in Nat \ {0} /\ AddressLimit \in Nat \ {0} /\ AlignBit \in Nat \ {0}
    /\ IntSize \in Nat \ {0} /\ DMA_MEMORY_LIMIT \in Nat /\ KERNEL_VIRTUAL_SIZE_MAX \in Nat
    /\ TestFrame \in Nat /\ DevicePage \in Nat
    /\ Entries \in Nat \ {0} /\ KernelPde \in Nat \ {0} /\ KernelPde < Entries - 1
    /\ SelfPde = Entries - 1
  BY SizesAssumption, PagingAssumption DEF SelfPde

-----------------------------------------------------------------------------
\* The ends of memory and of the kernel.

\* linear_alloc finds a place at or behind the position.
LEMMA AlignedBehind ==
    ASSUME NEW pos \in Nat
    PROVE  aligned(pos) \in Nat /\ aligned(pos) >= pos
  <1> DEFINE S == {q \in pos .. (pos + 2 * AlignBit) : (q \div AlignBit) % 2 = 0}
             k == pos \div AlignBit
  <1>1. k \in Nat /\ pos % AlignBit \in 0 .. (AlignBit - 1) /\ pos = AlignBit * k + (pos % AlignBit)
    BY Constants, Division
  <1>2. S # {}
    <2>1. CASE k % 2 = 0
      <3>1. pos \in pos .. (pos + 2 * AlignBit)
        BY Constants
      <3> QED
        BY <2>1, <3>1
    <2>2. CASE k % 2 # 0
      <3> DEFINE q == AlignBit * (k + 1) + 0
      <3>1. q \div AlignBit = k + 1
        BY <1>1, Constants, Quotient
      <3>2. (k + 1) % 2 = 0
        BY <1>1, <2>2
      <3>3. q = AlignBit * k + AlignBit
        BY <1>1, Constants
      <3>4. q \in pos .. (pos + 2 * AlignBit)
        <4> HIDE DEF k
        <4>1. AlignBit * k \in Nat
          BY <1>1, Constants
        <4> QED
          BY <1>1, <3>3, <4>1, Constants
      <3> QED
        BY <3>1, <3>2, <3>4
    <2> QED
      BY <2>1, <2>2
  <1>3. S \in SUBSET Nat
    BY Constants
  <1>4. Min(S) \in S
    BY <1>2, <1>3, MinIsLeast
  <1> QED
    BY <1>4, Constants DEF aligned

LEMMA AllocBehind ==
    ASSUME NEW pos \in Nat, NEW size \in Nat
    PROVE  linear_alloc(pos, size) \in Nat /\ linear_alloc(pos, size) >= pos + size
  <1>1. size * IntSize \in Nat /\ size * IntSize >= size
    BY Constants
  <1> QED
    BY <1>1, AlignedBehind DEF linear_alloc

\* What the kernel's end wraps to is behind all that is mapped.
LEMMA BaseBelow ==
    /\ AddressLimit - KERNEL_VIRTUAL_BASE \in Nat
    /\ AddressLimit - KERNEL_VIRTUAL_BASE > Entries * PAGE_SIZE
    /\ AddressLimit - KERNEL_VIRTUAL_BASE > (SelfPde - KernelPde) * Entries * PAGE_SIZE
  <1> DEFINE large == Entries * PAGE_SIZE  k == Entries - KernelPde
  <1>1. large \in Nat \ {0} /\ k \in Nat /\ k >= 2
    BY Constants
  <1>2. AddressLimit = Entries * large /\ KERNEL_VIRTUAL_BASE = KernelPde * large
    <2>1. AddressLimit = Entries * Entries * PAGE_SIZE
      BY SizesAssumption
    <2>2. KERNEL_VIRTUAL_BASE = (KernelPde * Entries) * PAGE_SIZE
      BY Constants DEF KERNEL_VIRTUAL_BASE, Page
    <2> QED
      BY <2>1, <2>2, Constants
  <1>3. (SelfPde - KernelPde) * Entries * PAGE_SIZE = (k - 1) * large
    BY Constants
  <1>4. Entries * large - KernelPde * large = k * large
    <2> HIDE DEF large
    <2> QED
      BY <1>1, Constants
  <1>5. k * large = (k - 1) * large + large /\ (k - 1) * large \in Nat
        /\ (k - 1) * large = (k - 2) * large + large /\ (k - 2) * large \in Nat
    <2> HIDE DEF large, k
    <2> QED
      BY <1>1
  <1> HIDE DEF large, k
  <1>6. k * large \in Nat /\ k * large > large /\ k * large > (k - 1) * large
    <2> DEFINE a == (k - 1) * large  b == (k - 2) * large
    <2>1. a \in Nat /\ b \in Nat /\ k * large = a + large /\ a = b + large
      BY <1>5
    <2> HIDE DEF a, b
    <2>2. k * large \in Nat /\ k * large > large /\ k * large > a
      BY <1>1, <2>1
    <2> QED
      BY <2>2 DEF a
  <1>7. AddressLimit - KERNEL_VIRTUAL_BASE = k * large
    BY <1>2, <1>4
  <1> QED
    BY <1>3, <1>6, <1>7 DEF large

LEMMA BootTypes ==
    ASSUME NEW mbt \in Boots
    PROVE  /\ find_memory_end(mbt) \in Nat
           /\ find_kernel_static_end(mbt) \in Nat
           /\ \A m \in mbt.mmap : m.addr \in Nat /\ m.len \in Nat /\ m.type \in Nat
           /\ \A s \in mbt.sections : /\ s.addr \in Nat /\ s.size \in Nat
                                      /\ s.alloc => s.addr + s.size <= Entries * PAGE_SIZE
  <1>1. /\ \A m \in mbt.mmap : m.addr \in Nat /\ m.len \in Nat /\ m.type \in Nat
        /\ \A s \in mbt.sections : /\ s.addr \in Nat /\ s.size \in Nat
                                   /\ s.alloc => s.addr + s.size <= Entries * PAGE_SIZE
    BY BootsAssumption
  <1>2. find_memory_end(mbt) \in Nat
    <2> DEFINE S == {0} \cup {block_end(m) :
                       m \in {x \in iterate_mmap(mbt) : x.type = MULTIBOOT_MEMORY_AVAILABLE}}
    <2>1. \A m \in iterate_mmap(mbt) : block_end(m) \in 0 .. AddressLimit
      <3> TAKE m \in iterate_mmap(mbt)
      <3>1. m.addr + m.len \in Nat
        BY <1>1 DEF iterate_mmap
      <3> QED
        BY <3>1, Constants, Division DEF block_end, truncated
    <2>2. S \in SUBSET Nat /\ S # {} /\ \A y \in S : y <= AddressLimit
      BY <2>1, Constants
    <2> QED
      BY <2>2, MaxIsNumber, Constants DEF find_memory_end
  <1>3. find_kernel_static_end(mbt) \in Nat
    <2>1. CASE kernel_sections(mbt) = {}
      BY <2>1, BaseBelow DEF find_kernel_static_end
    <2>2. CASE kernel_sections(mbt) # {}
      <3> DEFINE S == {s.addr + s.size : s \in kernel_sections(mbt)}
      <3>1. Entries * PAGE_SIZE \in Nat
        BY Constants
      <3>2. \A s \in kernel_sections(mbt) : s \in mbt.sections /\ s.alloc
        BY DEF kernel_sections
      <3>3. S \in SUBSET Nat /\ S # {} /\ \A y \in S : y <= Entries * PAGE_SIZE
        BY <1>1, <2>2, <3>2
      <3> QED
        BY <2>2, <3>1, <3>3, MaxIsNumber DEF find_kernel_static_end
    <2> QED
      BY <2>1, <2>2
  <1> QED
    BY <1>1, <1>2, <1>3

\* The sizes of the pools.
LEMMA PoolSizes ==
    ASSUME NEW himem_end \in Nat, NEW dynamic_end, dynamic_end = find_kernel_dynamic_end(himem_end)
    PROVE  /\ dynamic_end \in Nat /\ dynamic_end <= KERNEL_VIRTUAL_SIZE_MAX /\ dynamic_end <= himem_end
           /\ dma_pool_size(dynamic_end) \in 0 .. dynamic_end
           /\ default_pool_size(dynamic_end) = dynamic_end - dma_pool_size(dynamic_end)
           /\ default_pool_size(dynamic_end) \in Nat
           /\ himem_pool_size(dynamic_end, himem_end) \in Nat
  BY Constants DEF find_kernel_dynamic_end, dma_pool_size, default_pool_size, himem_pool_size

\* Rounding down twice loses at most one page.
LEMMA PageSum ==
    ASSUME NEW a \in Nat, NEW b \in Nat
    PROVE  /\ page(a) \in Nat /\ page(b) \in Nat /\ page(a + b) \in Nat
           /\ page(a + b) <= page(a) + page(b) + 1
  <1> DEFINE p == page(a)  q == page(b)  r == a % PAGE_SIZE  s == b % PAGE_SIZE
  <1>1. /\ p \in Nat /\ r \in 0 .. (PAGE_SIZE - 1) /\ a = PAGE_SIZE * p + r
        /\ q \in Nat /\ s \in 0 .. (PAGE_SIZE - 1) /\ b = PAGE_SIZE * q + s
        /\ page(a + b) \in Nat
    <2>1. a + b \in Nat
      OBVIOUS
    <2> QED
      BY <2>1, Constants, Division DEF page
  <1>2. a + b < PAGE_SIZE * (p + q + 2)
    <2> HIDE DEF p, q, r, s
    <2>1. PAGE_SIZE * (p + q + 2) = PAGE_SIZE * p + PAGE_SIZE * q + PAGE_SIZE + PAGE_SIZE
      BY <1>1, Constants
    <2>2. PAGE_SIZE * p \in Nat /\ PAGE_SIZE * q \in Nat
      BY <1>1, Constants
    <2> QED
      BY <1>1, <2>1, <2>2, Constants
  <1>3. page(a + b) < p + q + 2
    BY <1>1, <1>2, Sides, Constants DEF page
  <1> QED
    BY <1>1, <1>3

\* The bitmaps lie behind the kernel and have a word for each frame.
LEMMA BitmapsBehind ==
    ASSUME NEW static_end \in Nat, NEW himem_end \in Nat, NEW dynamic_end,
           dynamic_end = find_kernel_dynamic_end(himem_end)
    PROVE  /\ bitmaps_end(static_end, dynamic_end, himem_end) \in Nat
           /\ bitmaps_end(static_end, dynamic_end, himem_end) >=
                  static_end + page(dma_pool_size(dynamic_end))
                             + page(default_pool_size(dynamic_end))
                             + page(himem_pool_size(dynamic_end, himem_end))
  <1> DEFINE A == page(dma_pool_size(dynamic_end))
             B == page(default_pool_size(dynamic_end))
             C == page(himem_pool_size(dynamic_end, himem_end))
             x == linear_alloc(static_end, A)
             y == linear_alloc(x, B)
  <1>1. A \in Nat /\ B \in Nat /\ C \in Nat
    BY PoolSizes, PageSum
  <1>2. x \in Nat /\ x >= static_end + A
    BY <1>1, AllocBehind
  <1>3. y \in Nat /\ y >= x + B
    BY <1>1, <1>2, AllocBehind
  <1>4. linear_alloc(y, C) \in Nat /\ linear_alloc(y, C) >= y + C
    BY <1>1, <1>3, AllocBehind
  <1>5. bitmaps_end(static_end, dynamic_end, himem_end) = linear_alloc(y, C)
    BY DEF bitmaps_end
  <1> HIDE DEF A, B, C, x, y
  <1>6. linear_alloc(y, C) >= static_end + A + B + C
    BY <1>1, <1>2, <1>3, <1>4
  <1> QED
    BY <1>4, <1>5, <1>6 DEF A, B, C

\* Which frames a pool has.
LEMMA PoolPages ==
    ASSUME NEW base \in Nat, NEW size \in Nat, NEW f \in pool_pages(base, size)
    PROVE  f \in Nat /\ f < page(base) + page(size)
  <1>1. page(base) \in Nat /\ page(size) \in Nat
    BY PageSum
  <1>2. PICK i \in 0 .. (page(size) - 1) : f = page(base) + i
    BY DEF pool_pages
  <1> QED
    BY <1>1, <1>2

LEMMA FramesBelow ==
    ASSUME memory_end \in Nat, kernel_dynamic_end = find_kernel_dynamic_end(memory_end),
           NEW static_end \in Nat, NEW f \in Frame
    PROVE  f \in Nat /\ bitmaps_end(static_end, kernel_dynamic_end, memory_end) >= static_end + f
  <1> DEFINE a == dma_pool_size(kernel_dynamic_end)
             b == default_pool_size(kernel_dynamic_end)
             c == himem_pool_size(kernel_dynamic_end, memory_end)
  <1>1. /\ a \in Nat /\ b \in Nat /\ c \in Nat /\ kernel_dynamic_end \in Nat
        /\ kernel_dynamic_end = a + b
    BY PoolSizes
  <1>2. /\ page(a) \in Nat /\ page(b) \in Nat /\ page(c) \in Nat /\ page(kernel_dynamic_end) \in Nat
        /\ page(kernel_dynamic_end) <= page(a) + page(b) + 1
    BY <1>1, PageSum
  <1>3. page(0) = 0
    <2>1. 0 = PAGE_SIZE * 0 + 0 /\ 0 \in 0 .. (PAGE_SIZE - 1)
      BY Constants
    <2> QED
      BY <2>1, Constants, Quotient DEF page
  <1>4. f \in Nat /\ f <= page(a) + page(b) + page(c)
    <2>1. CASE f \in DMAPool
      <3>1. f \in Nat /\ f < page(0) + page(a)
        BY <2>1, <1>1, PoolPages DEF DMAPool
      <3> QED
        BY <3>1, <1>2, <1>3
    <2>2. CASE f \in DefaultPool
      <3>1. f \in Nat /\ f < page(a) + page(b)
        BY <2>2, <1>1, PoolPages DEF DefaultPool
      <3> QED
        BY <3>1, <1>2
    <2>3. CASE f \in HiMemPool
      <3>1. f \in Nat /\ f < page(kernel_dynamic_end) + page(c)
        BY <2>3, <1>1, PoolPages DEF HiMemPool
      <3> QED
        BY <3>1, <1>2
    <2> QED
      BY <2>1, <2>2, <2>3 DEF Frame
  <1>5. /\ bitmaps_end(static_end, kernel_dynamic_end, memory_end) \in Nat
        /\ bitmaps_end(static_end, kernel_dynamic_end, memory_end) >=
               static_end + page(a) + page(b) + page(c)
    BY BitmapsBehind
  <1> HIDE DEF a, b, c
  <1> QED
    BY <1>2, <1>4, <1>5

\* reserve_range reserves each frame it promises.
LEMMA RangeCovers ==
    ASSUME NEW m, m.addr \in Nat, m.len \in Nat, NEW f \in promised(m)
    PROVE  f \in reserve_range(m.addr, m.len)
  <1> DEFINE a == m.addr  n == m.len  top == a + n - 1
  <1>1. PICK b \in a .. top : f = page(b)
    BY DEF promised, pages_of
  <1>2. b \in Nat /\ top \in Nat /\ a <= b /\ b <= top /\ n > 0
    BY <1>1
  <1>3. /\ page(a) \in Nat /\ a % PAGE_SIZE \in 0 .. (PAGE_SIZE - 1)
        /\ a = PAGE_SIZE * page(a) + (a % PAGE_SIZE)
        /\ page(b) \in Nat /\ b % PAGE_SIZE \in 0 .. (PAGE_SIZE - 1)
        /\ b = PAGE_SIZE * page(b) + (b % PAGE_SIZE)
        /\ page(top) \in Nat
        /\ top % PAGE_SIZE \in 0 .. (PAGE_SIZE - 1)
        /\ top = PAGE_SIZE * page(top) + (top % PAGE_SIZE)
    BY <1>2, Constants, Division DEF page
  <1> DEFINE i == page(b) - page(a)
             count == (n + PAGE_SIZE - 1) \div PAGE_SIZE
  <1>4. page(a) <= page(b)
    BY <1>2, Monotone, Constants DEF page
  <1>5. page(a + i * PAGE_SIZE) = f
    <2>1. a + i * PAGE_SIZE = PAGE_SIZE * page(b) + (a % PAGE_SIZE)
      BY <1>3, <1>4, Constants
    <2>2. (PAGE_SIZE * page(b) + (a % PAGE_SIZE)) \div PAGE_SIZE = page(b)
      BY <1>3, Constants, Quotient
    <2> QED
      BY <2>1, <2>2, <1>1 DEF page
  <1>6. i \in Nat
    BY <1>3, <1>4
  <1>7. PAGE_SIZE * (i + 1) <= n + PAGE_SIZE - 1
    <2> DEFINE P == PAGE_SIZE * page(b)  Q == PAGE_SIZE * page(a)
    <2>1. PAGE_SIZE * (i + 1) = P - Q + PAGE_SIZE /\ P \in Nat /\ Q \in Nat
      BY <1>3, Constants
    <2>2. CASE a % PAGE_SIZE = 0
      <3>1. P <= b /\ Q = a
        BY <2>2, <1>3, <2>1
      <3> HIDE DEF P, Q
      <3> QED
        BY <2>1, <3>1, <1>2, Constants
    <2>3. CASE a % PAGE_SIZE # 0
      <3>1. f # page(top)
        BY <2>3 DEF promised
      <3>2. page(b) <= page(top)
        BY <1>2, Monotone, Constants DEF page
      <3>3. page(b) + 1 \in Nat /\ page(b) + 1 <= page(top)
        BY <3>1, <3>2, <1>1, <1>3
      <3>4. PAGE_SIZE * (page(b) + 1) <= PAGE_SIZE * page(top)
        BY <3>3, <1>3, Monotone, Constants
      <3>5. PAGE_SIZE * (page(b) + 1) = P + PAGE_SIZE
        BY <1>3, Constants
      <3>6. P + PAGE_SIZE <= top /\ Q >= a - PAGE_SIZE + 1
        BY <3>4, <3>5, <1>3, <2>1, Constants
      <3> HIDE DEF P, Q
      <3> QED
        BY <2>1, <3>6, <1>2, Constants
    <2> QED
      BY <2>2, <2>3
  <1>8. i + 1 <= count /\ count \in Nat
    <2>1. n + PAGE_SIZE - 1 \in Nat
      BY <1>2, Constants
    <2> HIDE DEF i
    <2>2. count \in Nat
      BY <2>1, Division, Constants
    <2>3. i + 1 \in Nat
      BY <1>6
    <2> QED
      BY <1>7, <2>1, <2>2, <2>3, Sides, Constants
  <1>9. i \in 0 .. (count - 1)
    BY <1>6, <1>8
  <1> QED
    BY <1>5, <1>9 DEF reserve_range

\* reserve_range from 0 on reserves each page below its end.
LEMMA LowCovers ==
    ASSUME NEW size \in Nat, NEW f \in pages_of(0, size)
    PROVE  f \in reserve_range(0, size)
  <1> DEFINE m == [addr |-> 0, len |-> size]
  <1>1. 0 % PAGE_SIZE = 0
    BY Constants
  <1>2. f \in promised(m)
    BY <1>1 DEF promised
  <1> QED
    BY <1>2, RangeCovers

-----------------------------------------------------------------------------
\* Where pages have their entries.

LEMMA Places ==
    ASSUME NEW v \in Nat
    PROVE  /\ pdindex(v) \in Nat /\ ptindex(v) \in Index
           /\ v = Entries * pdindex(v) + ptindex(v)
  BY Constants, Division DEF pdindex, ptindex, Index

LEMMA PageAt ==
    ASSUME NEW pd \in Nat, NEW i \in Index
    PROVE  pdindex(Page(pd, i)) = pd /\ ptindex(Page(pd, i)) = i
  <1>1. pd * Entries + i = Entries * pd + i
    BY Constants DEF Index
  <1> QED
    BY <1>1, Constants, Quotient DEF pdindex, ptindex, Page, Index

\* A page is the only one at its place.
LEMMA PlacesDiffer ==
    ASSUME NEW v \in Nat, NEW w \in Nat, pdindex(v) = pdindex(w), ptindex(v) = ptindex(w)
    PROVE  v = w
  <1>1. v = Entries * pdindex(v) + ptindex(v) /\ w = Entries * pdindex(w) + ptindex(w)
    BY Places
  <1> QED
    BY <1>1

LEMMA UserPlaces ==
    ASSUME NEW v \in UserPages \cup {TestPage, TestPage + 1}
    PROVE  /\ v \in Nat /\ pdindex(v) \in UserPde /\ pdindex(v) \in Index \ {0, KernelPde, SelfPde}
           /\ ptindex(v) \in Index /\ v = Entries * pdindex(v) + ptindex(v)
  <1>1. /\ v \in Entries .. (Page(KernelPde, 0) - 1) /\ KernelPde * Entries \in Nat
        /\ Page(KernelPde, 0) = Entries * KernelPde
    BY PagesAssumption, Constants DEF Page
  <1>2. v \in Nat /\ Entries * 1 <= v /\ v < Entries * KernelPde
    BY <1>1, Constants
  <1>3. pdindex(v) \in Nat /\ 1 <= pdindex(v) /\ pdindex(v) < KernelPde
    BY <1>2, Constants, Sides, Places DEF pdindex
  <1>4. ptindex(v) \in Index /\ v = Entries * pdindex(v) + ptindex(v)
    BY <1>2, Places
  <1>5. pdindex(v) \in UserPde /\ pdindex(v) \in Index \ {0, KernelPde, SelfPde}
    BY <1>3, Constants DEF UserPde, Index
  <1> QED
    BY <1>2, <1>4, <1>5

LEMMA TestPlaces ==
    /\ TestPage \in Nat /\ TestPage + 1 \in Nat /\ pdindex(TestPage + 1) = pdindex(TestPage)
    /\ ptindex(TestPage + 1) = ptindex(TestPage) + 1
  <1>1. /\ TestPage \in Nat /\ TestPage = Entries * pdindex(TestPage) + ptindex(TestPage)
        /\ pdindex(TestPage) \in Nat /\ ptindex(TestPage) \in Nat
        /\ TestPage + 1 = Entries * pdindex(TestPage + 1) + ptindex(TestPage + 1)
        /\ ptindex(TestPage + 1) \in Nat
    BY UserPlaces DEF Index
  <1>2. Entries * pdindex(TestPage) \in Nat
    BY <1>1, Constants
  <1>3. pdindex(TestPage + 1) = pdindex(TestPage)
    BY PagesAssumption
  <1> DEFINE q == Entries * pdindex(TestPage)
  <1>4. q \in Nat /\ TestPage = q + ptindex(TestPage) /\ TestPage + 1 = q + ptindex(TestPage + 1)
    BY <1>1, <1>2, <1>3
  <1> HIDE DEF q
  <1> QED
    BY <1>1, <1>3, <1>4

LEMMA LowPlace ==
    ASSUME NEW v \in Index
    PROVE  v \in Nat /\ pdindex(v) = 0 /\ ptindex(v) = v
  <1>1. v = Entries * 0 + v
    BY Constants DEF Index
  <1> QED
    BY <1>1, Constants, Quotient DEF pdindex, ptindex, Index

LEMMA KernelPlaces ==
    ASSUME NEW f \in Nat
    PROVE  LET v == kernel_physical_to_virtual(f)
           IN  /\ v \in Nat /\ pdindex(v) = KernelPde + (f \div Entries) /\ ptindex(v) = f % Entries
               /\ f < Entries => pdindex(v) = KernelPde /\ ptindex(v) = f
  <1> DEFINE v == kernel_physical_to_virtual(f)  q == f \div Entries  r == f % Entries
  <1>1. q \in Nat /\ r \in 0 .. (Entries - 1) /\ f = Entries * q + r
    BY Constants, Division
  <1>2. v = Entries * (KernelPde + q) + r
    BY <1>1, Constants DEF kernel_physical_to_virtual, Page
  <1>3. KernelPde + q \in Nat
    BY <1>1, Constants
  <1>4. pdindex(v) = KernelPde + q /\ ptindex(v) = r
    <2>1. /\ (Entries * (KernelPde + q) + r) \div Entries = KernelPde + q
          /\ (Entries * (KernelPde + q) + r) % Entries = r
      BY <1>1, <1>3, Constants, Quotient
    <2> QED
      BY <1>2, <2>1 DEF pdindex, ptindex
  <1>5. f < Entries => q = 0 /\ r = f
    <2> HAVE f < Entries
    <2>1. f = Entries * 0 + f /\ f \in 0 .. (Entries - 1)
      BY Constants
    <2> QED
      BY <2>1, Constants, Quotient
  <1>6. v \in Nat
    BY <1>1, <1>2, <1>3, Constants
  <1> HIDE DEF v, q, r
  <1>7. KernelPde + 0 = KernelPde
    BY Constants
  <1> QED
    BY <1>4, <1>5, <1>6, <1>7 DEF v, q, r

LEMMA KernelPlace ==
    KernelPage \in Nat /\ pdindex(KernelPage) = KernelPde /\ ptindex(KernelPage) = KernelTable
  <1>1. KernelTable \in Nat /\ KernelTable < Entries
    BY PagingAssumption, Constants
  <1> QED
    BY <1>1, KernelPlaces DEF KernelPage

-----------------------------------------------------------------------------
\* What the invariant says of a state.

\* The end of the bitmaps is behind the kernel, and within what is mapped.
LEMMA EndsInOrder ==
    ASSUME TypeOK, Ends, pc # "ends"
    PROVE  /\ kernel_dynamic_end = find_kernel_dynamic_end(memory_end)
           /\ find_kernel_static_end(boot) \in Nat
           /\ find_kernel_static_end(boot) <= kernel_static_end
           /\ kernel_dynamic_end <= (SelfPde - KernelPde) * Entries * PAGE_SIZE
  <1> DEFINE static_end == find_kernel_static_end(boot)
             bitmaps == bitmaps_end(static_end, kernel_dynamic_end, memory_end)
  <1>1. /\ boot \in Boots /\ memory_end = find_memory_end(boot) /\ memory_end \in Nat
        /\ kernel_dynamic_end = find_kernel_dynamic_end(memory_end)
        /\ kernel_static_end = static_end \/ kernel_static_end = bitmaps
    BY DEF TypeOK, Ends
  <1>2. static_end \in Nat
    BY <1>1, BootTypes
  <1>4. kernel_dynamic_end <= KERNEL_VIRTUAL_SIZE_MAX /\ kernel_dynamic_end \in Nat
    BY <1>1, PoolSizes
  <1>5. bitmaps \in Nat /\ static_end <= bitmaps
    <2> DEFINE A == page(dma_pool_size(kernel_dynamic_end))
               B == page(default_pool_size(kernel_dynamic_end))
               C == page(himem_pool_size(kernel_dynamic_end, memory_end))
    <2>1. A \in Nat /\ B \in Nat /\ C \in Nat
      BY <1>1, PoolSizes, PageSum
    <2>2. bitmaps \in Nat /\ bitmaps >= static_end + A + B + C
      BY <1>1, <1>2, BitmapsBehind
    <2> HIDE DEF A, B, C, bitmaps, static_end
    <2> QED
      BY <1>2, <2>1, <2>2
  <1>6. /\ KERNEL_VIRTUAL_SIZE_MAX <= (SelfPde - KernelPde) * Entries * PAGE_SIZE
        /\ KERNEL_VIRTUAL_SIZE_MAX \in Nat
        /\ Entries * PAGE_SIZE \in Nat /\ (SelfPde - KernelPde) * Entries * PAGE_SIZE \in Nat
    BY SizesAssumption, Constants
  <1> HIDE DEF static_end, bitmaps
  <1> QED
    BY <1>1, <1>2, <1>4, <1>5, <1>6 DEF static_end

\* Where the bitmaps are mapped, the sections were found.
LEMMA SectionsFound ==
    ASSUME TypeOK, Ends, Initialised
    PROVE  kernel_sections(boot) # {}
  <1> SUFFICES ASSUME kernel_sections(boot) = {}  PROVE FALSE
    OBVIOUS
  <1> DEFINE low == Entries * PAGE_SIZE  high == (SelfPde - KernelPde) * Entries * PAGE_SIZE
             static_end == find_kernel_static_end(boot)
  <1>1. static_end \in Nat /\ static_end > low /\ static_end > high
    BY BaseBelow DEF find_kernel_static_end
  <1>2. /\ kernel_dynamic_end <= high /\ static_end <= kernel_static_end
        /\ kernel_static_end <= low \/ kernel_static_end <= kernel_dynamic_end
        /\ kernel_static_end \in Nat /\ kernel_dynamic_end \in Nat
    BY EndsInOrder DEF Initialised, TypeOK, Ends
  <1>3. low \in Nat /\ high \in Nat
    BY Constants
  <1> HIDE DEF low, high, static_end
  <1> QED
    BY <1>1, <1>2, <1>3

\* The kernel's tables are withheld, and so they are not lent.
LEMMA KernelWithheld ==
    ASSUME TypeOK, Ends, Initialised
    PROVE  {DirFrame, KernelTable, TestTable} \subseteq withheld(kernel_static_end)
  <1> DEFINE static_end == find_kernel_static_end(boot)
  <1>1. pc # "ends"
    BY DEF Initialised
  <1>2. static_end \in Nat /\ kernel_static_end \in Nat /\ static_end <= kernel_static_end
    BY <1>1, EndsInOrder DEF TypeOK
  <1>3. {DirFrame, KernelTable, TestTable} \subseteq pages_of(0, static_end)
    BY BootsAssumption, SectionsFound DEF TypeOK
  <1>4. pages_of(0, static_end) \subseteq pages_of(0, kernel_static_end)
    <2> HIDE DEF static_end
    <2>1. 0 .. (0 + static_end - 1) \subseteq 0 .. (0 + kernel_static_end - 1)
      BY <1>2
    <2> QED
      BY <2>1 DEF pages_of
  <1>5. pages_of(0, kernel_static_end) \subseteq withheld(kernel_static_end)
    BY <1>2, LowCovers DEF withheld
  <1> QED
    BY <1>3, <1>4, <1>5

LEMMA KernelNotLent ==
    ASSUME TypeOK, Ends, Marks
    PROVE  lent \cap {DirFrame, KernelTable, TestTable} = {}
  <1>1. CASE ~Initialised
    BY <1>1 DEF Marks
  <1>2. CASE Initialised
    BY <1>2, KernelWithheld DEF Marks
  <1> QED
    BY <1>1, <1>2

\* Memory was found in a map.
LEMMA MapIsThere ==
    ASSUME TypeOK, Ends, Initialised
    PROVE  iterate_mmap(boot) = boot.mmap
  <1>1. find_memory_end(boot) # 0
    BY DEF Ends, Initialised
  <1>2. CASE iterate_mmap(boot) = {}
    <2>1. find_memory_end(boot) = Max({0})
      BY <1>2 DEF find_memory_end
    <2>2. Max({0}) = 0
      BY DEF Max
    <2> QED
      BY <1>1, <2>1, <2>2
  <1> QED
    BY <1>2 DEF iterate_mmap

LEMMA InvReserved == IInv => ReservedNeverLent
  <1> SUFFICES ASSUME IInv, Initialised
               PROVE  ReservedNeverLent
    BY DEF ReservedNeverLent
  <1> USE DEF IInv
  <1> DEFINE static_end == find_kernel_static_end(boot)
  <1>1. /\ pc # "ends" /\ boot \in Boots /\ memory_end \in Nat /\ kernel_static_end \in Nat
        /\ kernel_static_end = bitmaps_end(static_end, kernel_dynamic_end, memory_end)
    BY DEF Initialised, TypeOK, Ends
  <1>2. /\ static_end \in Nat /\ static_end <= kernel_static_end
        /\ kernel_dynamic_end = find_kernel_dynamic_end(memory_end)
    BY <1>1, EndsInOrder
  <1>3. ASSUME NEW f \in {0} \cup Frame
        PROVE  kernel_static_end >= static_end + f
    <2>1. CASE f \in Frame
      BY <2>1, <1>1, <1>2, FramesBelow
    <2>2. CASE f = 0
      BY <2>2, <1>1, <1>2
    <2> QED
      BY <2>1, <2>2
  <1>4. lent \cap withheld(kernel_static_end) = {}
    BY DEF Marks
  <1>5. lent \cap pages_of(0, kernel_static_end) = {}
    BY <1>1, <1>4, LowCovers DEF withheld
  <1>6. ASSUME NEW m \in boot.mmap,
               unavailable(m), m.len < AddressLimit, m.addr + m.len <= AddressLimit
        PROVE  lent \cap promised(m) = {}
    <2>1. m.addr \in Nat /\ m.len \in Nat
      BY <1>1, BootTypes
    <2>2. m \in {x \in iterate_mmap(boot) : unavailable(x)}
      BY <1>6, MapIsThere
    <2>3. CASE m.len = 0
      <3>1. m.addr .. (m.addr + m.len - 1) = {}
        BY <2>1, <2>3
      <3> QED
        BY <3>1 DEF promised, pages_of
    <2>4. CASE m.len # 0
      <3>1. m.addr < AddressLimit
        BY <2>1, <2>4, <1>6, Constants
      <3>2. truncated(m.addr) = m.addr /\ truncated(m.len) = m.len
        <4>1. ASSUME NEW x \in Nat, x < AddressLimit
              PROVE  x % AddressLimit = x
          <5>1. x = AddressLimit * 0 + x /\ x \in 0 .. (AddressLimit - 1)
            BY <4>1, Constants
          <5> QED
            BY <5>1, Quotient, Constants
        <4> QED
          BY <4>1, <3>1, <2>1, <1>6 DEF truncated
      <3>3. promised(m) \subseteq withheld(kernel_static_end)
        BY <2>1, <2>2, <3>2, RangeCovers DEF withheld
      <3> QED
        BY <3>3, <1>4
    <2> QED
      BY <2>3, <2>4
  <1> QED
    BY <1>3, <1>5, <1>6 DEF ReservedNeverLent

\* Entries and tables as they are at the start and when nothing is present.
LEMMA EntryTypes ==
    /\ Absent \in PageEntry /\ ReservedEntry \in PageEntry
    /\ \A p \in BOOLEAN, l \in BOOLEAN, r \in BOOLEAN, f \in Nat : Entry(p, l, r, f) \in PageEntry
    /\ LoaderDirectory \in [Index -> PageEntry]
    /\ EmptyTable \in [Index -> PageEntry]
  <1>1. \A p \in BOOLEAN, l \in BOOLEAN, r \in BOOLEAN, f \in Nat : Entry(p, l, r, f) \in PageEntry
    BY DEF Entry, PageEntry
  <1>2. Absent \in PageEntry /\ ReservedEntry \in PageEntry
    BY <1>1 DEF Absent, ReservedEntry
  <1> QED
    BY <1>1, <1>2 DEF LoaderDirectory, EmptyTable

LEMMA AbsentIsNot == ~Absent.present
  BY DEF Absent, Entry

\* In the loader's directory callers have nothing.
LEMMA LoaderIsEmpty ==
    ASSUME dir = LoaderDirectory
    PROVE  /\ \A i \in UserPde : dir[i] = Absent
           /\ \A v \in UserPages \cup {TestPage, TestPage + 1} : walk(v) = NoFrame
           /\ dir[0] = Entry(TRUE, TRUE, FALSE, 0) /\ dir[KernelPde] = Entry(TRUE, TRUE, FALSE, 0)
  <1>1. \A i \in UserPde : i \in Index /\ i \notin {0, KernelPde}
    BY Constants DEF UserPde, Index
  <1>2. \A i \in UserPde : dir[i] = Absent
    BY <1>1 DEF LoaderDirectory
  <1>3. \A v \in UserPages \cup {TestPage, TestPage + 1} : walk(v) = NoFrame
    BY <1>2, UserPlaces DEF walk, Absent, Entry
  <1>4. 0 \in Index /\ KernelPde \in Index
    BY Constants DEF Index
  <1> QED
    BY <1>2, <1>3, <1>4 DEF LoaderDirectory

\* The CPU's walk, one case for each kind of directory entry.
LEMMA WalkCases ==
    ASSUME NEW v
    PROVE  LET pde == dir[pdindex(v)]
               pte == tables[pde.page][ptindex(v)]
           IN  /\ ~pde.present => walk(v) = NoFrame
               /\ (pde.present /\ pde.enable4m) => walk(v) = pde.page + ptindex(v)
               /\ (pde.present /\ ~pde.enable4m /\ pde.page # DirFrame) =>
                      walk(v) = IF pte.present THEN pte.page ELSE NoFrame
  BY DEF walk, table

\* Through the last entry of the directory its entries look like those of a table.
LEMMA SelfMap ==
    ASSUME IInv, pc \notin {"ends", "paging"}, NEW pd \in Index
    PROVE  walk(pt_pointer(pd)) = IF dir[pd].present THEN dir[pd].page ELSE NoFrame
  <1>1. SelfPde \in Nat
    BY Constants
  <1>2. pdindex(pt_pointer(pd)) = SelfPde /\ ptindex(pt_pointer(pd)) = pd
    BY <1>1, PageAt DEF pt_pointer
  <1>3. dir[SelfPde] = Entry(TRUE, FALSE, FALSE, DirFrame)
    BY DEF IInv, KernelEntries
  <1> QED
    BY <1>2, <1>3 DEF walk, table, Entry

\* virtual_to_physical agrees with the CPU wherever tables are where they should be.
LEMMA TranslationAgrees ==
    ASSUME IInv, pc \notin {"ends", "paging"}, NEW v, pdindex(v) \in Index, ptindex(v) \in Index,
           dir[pdindex(v)].present /\ ~dir[pdindex(v)].enable4m =>
               dir[pdindex(v)].page \in TableFrames
    PROVE  virtual_to_physical(v) = IF walk(v) = NoFrame THEN 0 ELSE walk(v)
  <1> DEFINE pde == dir[pdindex(v)]
             pte == tables[pde.page][ptindex(v)]
  <1>1. /\ pde \in PageEntry /\ dir[ptindex(v)] \in PageEntry
        /\ pde.page \in TableFrames => pte \in PageEntry
    BY DEF IInv, TypeOK
  <1>6. /\ pde.page \in Nat /\ dir[ptindex(v)].page \in Nat /\ ptindex(v) \in Nat
        /\ pde.page \in TableFrames => pte.page \in Nat
    BY <1>1, Constants DEF PageEntry, Index
  <1>2. walk(pt_pointer(pdindex(v))) = IF pde.present THEN pde.page ELSE NoFrame
    BY SelfMap
  <1>3. CASE ~pde.present
    BY <1>3 DEF virtual_to_physical, walk
  <1>4. CASE pde.present /\ pde.enable4m
    <2>1. walk(v) = pde.page + ptindex(v)
      BY <1>4, WalkCases
    <2> QED
      BY <2>1, <1>4, <1>6 DEF virtual_to_physical, NoFrame
  <1>5. CASE pde.present /\ ~pde.enable4m
    <2>1. pde.page \in TableFrames
      BY <1>5
    <2>2. walk(pt_pointer(pdindex(v))) = pde.page
      BY <1>2, <1>5
    <2>3. CASE pde.page = DirFrame
      <3>1. walk(v) = IF dir[ptindex(v)].present THEN dir[ptindex(v)].page ELSE NoFrame
        BY <1>5, <2>3 DEF walk, table
      <3>2. virtual_to_physical(v) = IF dir[ptindex(v)].present THEN dir[ptindex(v)].page ELSE 0
        BY <1>5, <2>2, <2>3 DEF virtual_to_physical
      <3> QED
        BY <3>1, <3>2, <1>6 DEF NoFrame
    <2>4. CASE pde.page # DirFrame
      <3>1. walk(v) = IF pte.present THEN pte.page ELSE NoFrame
        BY <1>5, <2>4, WalkCases
      <3>2. virtual_to_physical(v) = IF pte.present THEN pte.page ELSE 0
        BY <1>5, <2>2, <2>4 DEF virtual_to_physical
      <3> QED
        BY <3>1, <3>2, <2>1, <1>6 DEF NoFrame
    <2> QED
      BY <2>3, <2>4
  <1> QED
    BY <1>3, <1>4, <1>5

\* What physical_to_virtual finds leads back to the frame.
LEMMA BackToFrame ==
    ASSUME NEW f, physical_to_virtual(f) # 0, f \in Nat
    PROVE  walk(physical_to_virtual(f)) = f
  <1> DEFINE found == Finds(f)
  <1>1. found # {}
    BY DEF physical_to_virtual
  <1>2. found \in SUBSET Nat
    BY DEF Finds
  <1>3. \E v \in found : \A w \in found : v <= w
    BY <1>1, <1>2, Least
  <1>4. physical_to_virtual(f) \in found
    BY <1>1, <1>3 DEF physical_to_virtual
  <1>5. ASSUME NEW v \in found
        PROVE  walk(v) = f
    <2>1. dir[pdindex(v)].present
      BY DEF Finds
    <2>2. CASE dir[pdindex(v)].enable4m
      <3>1. dir[pdindex(v)].page = f - (f % Entries) /\ ptindex(v) = f % Entries
        BY <2>2 DEF Finds
      <3>2. f % Entries \in Nat
        BY Constants, Division
      <3> QED
        BY <2>1, <2>2, <3>1, <3>2 DEF walk
    <2>3. CASE ~dir[pdindex(v)].enable4m
      BY <2>1, <2>3 DEF Finds, walk
    <2> QED
      BY <2>2, <2>3
  <1> QED
    BY <1>4, <1>5

\* A frame below kernel_dynamic_end is mapped by one of the large pages.
LEMMA DynamicIsMapped ==
    ASSUME IInv, pc \in {"physical", "unmap", "running", "halted"},
           NEW f \in pages_of(0, kernel_dynamic_end)
    PROVE  walk(kernel_physical_to_virtual(f)) = f
  <1> DEFINE v == kernel_physical_to_virtual(f)
             pd == KernelPde + (f \div Entries)
  <1>1. kernel_dynamic_end \in Nat /\ pc # "ends"
    BY DEF IInv, TypeOK
  <1>2. PICK b \in 0 .. (kernel_dynamic_end - 1) : f = page(b)
    <2>1. 0 + kernel_dynamic_end - 1 = kernel_dynamic_end - 1
      BY <1>1
    <2> QED
      BY <2>1 DEF pages_of
  <1>3. b \in Nat /\ b < kernel_dynamic_end /\ f \in Nat
    BY <1>1, <1>2, PageSum
  <1>4. f = Entries * (f \div Entries) + (f % Entries) /\ f \div Entries \in Nat
        /\ f % Entries \in 0 .. (Entries - 1)
    BY <1>3, Constants, Division
  <1>5. pd \in Index \ {SelfPde} /\ pd >= KernelPde
    <2>1. kernel_dynamic_end <= (SelfPde - KernelPde) * Entries * PAGE_SIZE
      BY <1>1, EndsInOrder DEF IInv
    <2>2. (SelfPde - KernelPde) * Entries * PAGE_SIZE = PAGE_SIZE * (Entries * (SelfPde - KernelPde))
          /\ Entries * (SelfPde - KernelPde) \in Nat /\ SelfPde - KernelPde \in Nat
          /\ PAGE_SIZE * (Entries * (SelfPde - KernelPde)) \in Nat
      BY Constants
    <2>3. b < PAGE_SIZE * (Entries * (SelfPde - KernelPde))
      BY <1>1, <1>3, <2>1, <2>2
    <2>4. f < Entries * (SelfPde - KernelPde)
      BY <1>2, <1>3, <2>2, <2>3, Sides, Constants DEF page
    <2>5. f \div Entries < SelfPde - KernelPde
      BY <1>3, <2>2, <2>4, Sides, Constants
    <2> QED
      BY <1>4, <2>5, Constants DEF Index
  <1>6. (pd - KernelPde) * Entries < linear_pages
    <2>1. (pd - KernelPde) * Entries = Entries * (f \div Entries) /\ Entries * (f \div Entries) \in Nat
      BY <1>4, Constants
    <2>2. Entries * (f \div Entries) <= f
      <3> DEFINE q == Entries * (f \div Entries)
      <3>1. q \in Nat /\ f = q + (f % Entries)
        BY <1>4, <2>1
      <3> HIDE DEF q
      <3> QED
        BY <1>4, <3>1 DEF q
    <2>3. f + 1 <= linear_pages
      <3>1. b + PAGE_SIZE \in Nat /\ kernel_dynamic_end + PAGE_SIZE - 1 \in Nat
            /\ b + PAGE_SIZE <= kernel_dynamic_end + PAGE_SIZE - 1
        BY <1>1, <1>3, Constants
      <3>2. (b + PAGE_SIZE) \div PAGE_SIZE <= linear_pages
        BY <3>1, Monotone, Constants DEF linear_pages
      <3>3. PAGE_SIZE * (f + 1) <= b + PAGE_SIZE
        <4>1. b = PAGE_SIZE * f + (b % PAGE_SIZE) /\ b % PAGE_SIZE \in Nat /\ PAGE_SIZE * f \in Nat
          BY <1>2, <1>3, Constants, Division DEF page
        <4>2. PAGE_SIZE * (f + 1) = PAGE_SIZE * f + PAGE_SIZE
          BY <1>3, Constants
        <4> DEFINE q == PAGE_SIZE * f
        <4>3. b = q + (b % PAGE_SIZE) /\ q \in Nat /\ PAGE_SIZE * (f + 1) = q + PAGE_SIZE
          BY <4>1, <4>2
        <4> HIDE DEF q
        <4> QED
          BY <4>1, <4>3, Constants
      <3>4. f + 1 <= (b + PAGE_SIZE) \div PAGE_SIZE
        <4>1. f + 1 \in Nat
          BY <1>3
        <4> QED
          BY <3>1, <3>3, <4>1, Sides, Constants
      <3>5. linear_pages \in Nat /\ (b + PAGE_SIZE) \div PAGE_SIZE \in Nat
        BY <3>1, Division, Constants DEF linear_pages
      <3> QED
        BY <3>2, <3>4, <3>5, <1>3
    <2>4. linear_pages \in Nat
      <3>1. kernel_dynamic_end + PAGE_SIZE - 1 \in Nat
        BY <1>1, Constants
      <3> QED
        BY <3>1, Division, Constants DEF linear_pages
    <2> DEFINE q == Entries * (f \div Entries)
    <2>5. q \in Nat /\ q <= f /\ (pd - KernelPde) * Entries = q
      BY <2>1, <2>2
    <2> HIDE DEF q, pd
    <2> QED
      BY <2>3, <2>4, <2>5, <1>3
  <1>7. pd \in mapped_pdes(linear_pages)
    BY <1>5, <1>6 DEF mapped_pdes
  <1>8. dir[pd] = Entry(TRUE, TRUE, FALSE, (pd - KernelPde) * Entries)
    <2>1. CASE pd = KernelPde
      <3>1. (pd - KernelPde) * Entries = 0
        BY <2>1, Constants
      <3> QED
        BY <2>1, <3>1 DEF IInv, KernelEntries
    <2>2. CASE pd # KernelPde
      BY <2>2, <1>7 DEF IInv, KernelEntries
    <2> QED
      BY <2>1, <2>2
  <1>9. pdindex(v) = pd /\ ptindex(v) = f % Entries
    BY <1>3, KernelPlaces
  <1>10. walk(v) = (pd - KernelPde) * Entries + (f % Entries)
    BY <1>8, <1>9 DEF walk, Entry
  <1>11. (pd - KernelPde) * Entries = Entries * (f \div Entries)
    BY <1>4, Constants
  <1> QED
    BY <1>4, <1>10, <1>11

\* A page below a number of whole pages.
LEMMA PageBelow ==
    ASSUME NEW a \in Nat, NEW n \in Nat, NEW k \in Nat, a + n <= k * PAGE_SIZE,
           NEW f \in pages_of(a, n)
    PROVE  f \in Nat /\ f < k
  <1>1. PICK b \in a .. (a + n - 1) : f = page(b)
    BY DEF pages_of
  <1>2. k * PAGE_SIZE = PAGE_SIZE * k /\ PAGE_SIZE * k \in Nat
    BY Constants
  <1>3. b \in Nat /\ b < PAGE_SIZE * k
    BY <1>1, <1>2
  <1> QED
    BY <1>1, <1>3, Sides, PageSum, Constants DEF page

\* The kernel's own large page holds what lies in its frames.
LEMMA LowIsMapped ==
    ASSUME IInv, pc \in {"physical", "unmap", "running", "halted"},
           NEW f \in Nat, f < Entries
    PROVE  walk(kernel_physical_to_virtual(f)) = f
  <1>1. dir[KernelPde] = Entry(TRUE, TRUE, FALSE, 0)
    BY DEF IInv, KernelEntries
  <1> QED
    BY <1>1, KernelPlaces DEF walk, Entry

LEMMA SectionPages ==
    ASSUME TypeOK, NEW s \in in_memory, NEW f \in pages_of(s.addr, s.size)
    PROVE  f \in Nat /\ f < Entries
  <1>1. s \in boot.sections /\ s.alloc /\ boot \in Boots
    BY DEF in_memory, TypeOK
  <1>2. s.addr \in Nat /\ s.size \in Nat /\ s.addr + s.size <= Entries * PAGE_SIZE
    BY <1>1, BootTypes
  <1> QED
    BY <1>2, PageBelow, Constants

LEMMA LentAreNumbers ==
    ASSUME TypeOK, Ends, Marks
    PROVE  lent \subseteq Nat
  <1>1. CASE pc = "ends"
    BY <1>1 DEF Marks, Initialised
  <1>2. CASE pc # "ends"
    <2>1. /\ memory_end \in Nat /\ kernel_dynamic_end = find_kernel_dynamic_end(memory_end)
          /\ find_kernel_static_end(boot) \in Nat
      BY <1>2, EndsInOrder DEF TypeOK
    <2>2. Frame \subseteq Nat
      BY <2>1, FramesBelow
    <2> QED
      BY <2>2 DEF Marks
  <1> QED
    BY <1>1, <1>2

LEMMA InvMapping == IInv => KernelMapping
  <1> SUFFICES ASSUME IInv  PROVE KernelMapping
    OBVIOUS
  <1>1. ASSUME pc \in {"paging", "physical"}, NEW v \in boot.info
        PROVE  walk(v) = v
    <2>2. v \in Index
      BY <1>1 DEF IInv, Ends
    <2>1. dir[0].present /\ dir[0].enable4m /\ dir[0].page = 0
      <3>1. CASE pc = "paging"
        <4>1. dir[0] = Entry(TRUE, TRUE, FALSE, 0)
          BY <3>1, LoaderIsEmpty DEF IInv, KernelEntries
        <4> QED
          BY <4>1 DEF Entry
      <3>2. CASE pc = "physical"
        BY <3>2 DEF IInv, KernelEntries
      <3> QED
        BY <1>1, <3>1, <3>2
    <2>3. pdindex(v) = 0 /\ ptindex(v) = v /\ v \in Nat
      BY <2>2, LowPlace
    <2> QED
      BY <2>1, <2>3 DEF walk
  <1>2. ASSUME pc \in {"physical", "unmap", "running"}, NEW f \in pages_of(0, kernel_dynamic_end)
        PROVE  walk(kernel_physical_to_virtual(f)) = f
    BY <1>2, DynamicIsMapped
  <1>3. ASSUME pc \in {"unmap", "running"}, NEW f \in pages_of(0, kernel_static_end)
        PROVE  walk(kernel_physical_to_virtual(f)) = f
    <2>1. /\ kernel_static_end \in Nat /\ kernel_dynamic_end \in Nat
          /\ kernel_static_end <= Entries * PAGE_SIZE \/ kernel_static_end <= kernel_dynamic_end
      BY <1>3 DEF IInv, TypeOK, Ends, Initialised
    <2>2. CASE kernel_static_end <= Entries * PAGE_SIZE
      <3>1. f \in Nat /\ f < Entries
        BY <2>1, <2>2, PageBelow, Constants
      <3> QED
        BY <3>1, <1>3, LowIsMapped
    <2>3. CASE kernel_static_end <= kernel_dynamic_end
      <3>1. 0 .. (0 + kernel_static_end - 1) \subseteq 0 .. (0 + kernel_dynamic_end - 1)
        BY <2>1, <2>3
      <3>2. f \in pages_of(0, kernel_dynamic_end)
        BY <3>1 DEF pages_of
      <3> QED
        BY <3>2, <1>3, DynamicIsMapped
    <2> QED
      BY <2>1, <2>2, <2>3
  <1>4. ASSUME pc = "rebuilt", NEW s \in in_memory, NEW f \in pages_of(s.addr, s.size)
        PROVE  walk(kernel_physical_to_virtual(f)) = f
    <2>1. f \in Nat /\ f < Entries
      BY SectionPages DEF IInv
    <2>2. tables[KernelTable][f] = Entry(TRUE, FALSE, FALSE, f)
      BY <1>4 DEF IInv, SectionsStay
    <2>3. dir[KernelPde] = Entry(TRUE, FALSE, FALSE, KernelTable) /\ KernelTable # DirFrame
      BY <1>4, PagingAssumption DEF IInv, KernelEntries
    <2> QED
      BY <2>1, <2>2, <2>3, KernelPlaces DEF walk, table, Entry
  <1>5. ASSUME pc \notin {"ends", "paging"},
               NEW v \in UserPages \cup {KernelPage, TestPage, TestPage + 1}
        PROVE  virtual_to_physical(v) = IF walk(v) = NoFrame THEN 0 ELSE walk(v)
    <2>1. CASE v \in UserPages \cup {TestPage, TestPage + 1}
      <3>1. pdindex(v) \in UserPde /\ pdindex(v) \in Index /\ ptindex(v) \in Index
        BY <2>1, UserPlaces
      <3>2. dir[pdindex(v)].present => dir[pdindex(v)].page \in TableFrames
        BY <3>1 DEF IInv, UserTables
      <3> QED
        BY <1>5, <3>1, <3>2, TranslationAgrees
    <2>2. CASE v = KernelPage
      <3>1. pdindex(v) = KernelPde /\ KernelPde \in Index /\ ptindex(v) \in Index
        BY <2>2, KernelPlace, Places, Constants DEF Index
      <3>2. dir[KernelPde] \in {Entry(TRUE, FALSE, FALSE, KernelTable), Entry(TRUE, TRUE, FALSE, 0)}
        BY <1>5 DEF IInv, KernelEntries
      <3>3. ~dir[KernelPde].enable4m => dir[KernelPde].page \in TableFrames
        BY <3>2, PagingAssumption DEF Entry
      <3> QED
        BY <1>5, <3>1, <3>3, TranslationAgrees
    <2> QED
      BY <2>1, <2>2
  <1>6. ASSUME NEW f \in lent \cup {DevicePage, KernelTable}, physical_to_virtual(f) # 0
        PROVE  walk(physical_to_virtual(f)) = f
    <2>1. f \in Nat
      BY LentAreNumbers, Constants, PagingAssumption DEF IInv
    <2> QED
      BY <2>1, <1>6, BackToFrame
  <1> QED
    BY <1>1, <1>2, <1>3, <1>4, <1>5, <1>6 DEF KernelMapping

-----------------------------------------------------------------------------
\* The initial states and the steps of mm::init.

LEMMA InitIInv == Init => IInv
  <1> SUFFICES ASSUME Init  PROVE IInv
    OBVIOUS
  <1> USE DEF Init, PagingInit
  <1>1. DOMAIN tlb = {}
    OBVIOUS
  <1>2. TypeOK
    BY <1>1, EntryTypes DEF TypeOK
  <1>3. Ends /\ Marks /\ SectionsStay
    BY DEF Ends, Marks, SectionsStay, Initialised
  <1>4. KernelEntries
    BY DEF KernelEntries
  <1>5. UserTables
    BY LoaderIsEmpty DEF UserTables, Absent, Entry
  <1>6. LowIsLarge
    BY <1>1 DEF LowIsLarge
  <1>7. CachedIsTrue /\ OwnFrames
    BY <1>1, LoaderIsEmpty DEF CachedIsTrue, OwnFrames
  <1> QED
    BY <1>2, <1>3, <1>4, <1>5, <1>6, <1>7 DEF IInv

\* A page whose directory entry and table entry stay leads to the same frame.
LEMMA WalkStays ==
    ASSUME NEW v, dir'[pdindex(v)] = dir[pdindex(v)],
           \/ ~dir[pdindex(v)].present \/ dir[pdindex(v)].enable4m
           \/ /\ dir[pdindex(v)].page # DirFrame
              /\ tables'[dir[pdindex(v)].page][ptindex(v)] = tables[dir[pdindex(v)].page][ptindex(v)]
    PROVE  walk(v)' = walk(v)
  BY DEF walk, table

\* A step that leaves the tables and the cache alone.
LEMMA PagingStays ==
    ASSUME IInv, UNCHANGED <<dir, tables, tlb, stale, lent>>
    PROVE  (UserTables /\ LowIsLarge /\ CachedIsTrue /\ OwnFrames)'
  <1>1. \A v : walk(v)' = walk(v)
    BY DEF walk, table
  <1>2. UserTables'
    BY DEF IInv, UserTables
  <1>3. LowIsLarge'
    BY DEF IInv, LowIsLarge
  <1>4. CachedIsTrue'
    BY <1>1 DEF IInv, CachedIsTrue
  <1>5. OwnFrames'
    BY <1>1 DEF IInv, OwnFrames
  <1> QED
    BY <1>2, <1>3, <1>4, <1>5

\* Through the loader's directory only low memory is found at its own address.
LEMMA LoaderWalk ==
    ASSUME dir = LoaderDirectory, NEW v \in Nat, v < Entries * Entries, walk(v) = v
    PROVE  v \in Index
  <1>1. pdindex(v) \in Nat /\ ptindex(v) \in Index /\ v = Entries * pdindex(v) + ptindex(v)
    BY Places
  <1>2. pdindex(v) \in Index
    <2>1. pdindex(v) < Entries
      BY Sides, Constants DEF pdindex
    <2> QED
      BY <1>1, <2>1, Constants DEF Index
  <1>3. dir[pdindex(v)] = IF pdindex(v) \in {0, KernelPde} THEN Entry(TRUE, TRUE, FALSE, 0) ELSE Absent
    BY <1>2 DEF LoaderDirectory
  <1>4. CASE pdindex(v) \in {0, KernelPde}
    <2>1. walk(v) = 0 + ptindex(v)
      BY <1>3, <1>4 DEF walk, Entry
    <2> QED
      BY <2>1, <1>1 DEF Index
  <1>5. CASE pdindex(v) \notin {0, KernelPde}
    <2>1. walk(v) = NoFrame
      BY <1>3, <1>5 DEF walk, Absent, Entry
    <2> QED
      BY <2>1 DEF NoFrame
  <1> QED
    BY <1>4, <1>5

LEMMA FindEndsIInv == IInv /\ FindEnds => IInv'
  <1> SUFFICES ASSUME IInv, FindEnds  PROVE IInv'
    OBVIOUS
  <1> USE DEF FindEnds
  <1>1. find_memory_end(boot) \in Nat /\ find_kernel_static_end(boot) \in Nat
    BY BootTypes DEF IInv, TypeOK
  <1>2. find_kernel_dynamic_end(memory_end') \in Nat
    BY <1>1, PoolSizes
  <1>3. TypeOK'
    BY <1>1, <1>2 DEF IInv, TypeOK
  <1>4. Ends'
    <2>1. boot.info \subseteq Index
      <3> SUFFICES ASSUME NEW v \in boot.info  PROVE v \in Index
        OBVIOUS
      <3>1. v \in 0 .. (Entries * Entries - 1) /\ walk(v) = v /\ dir = LoaderDirectory
        BY BootsAssumption DEF IInv, TypeOK, KernelEntries
      <3>2. v \in Nat /\ v < Entries * Entries
        <4>1. Entries * Entries \in Nat
          BY Constants
        <4> QED
          BY <3>1, <4>1
      <3> QED
        BY <3>1, <3>2, LoaderWalk
    <2> QED
      BY <2>1 DEF IInv, Ends, Initialised
  <1>5. Marks'
    BY DEF IInv, Marks, Initialised
  <1>6. KernelEntries' /\ SectionsStay'
    BY DEF IInv, KernelEntries, SectionsStay
  <1> QED
    BY <1>3, <1>4, <1>5, <1>6, PagingStays DEF IInv

\* What goes wrong in mm::init leaves numbers as they were.
LEMMA FaultsTypeOK ==
    ASSUME TypeOK, FindEndsFaults \/ BitmapsMisplaced
    PROVE  TypeOK' /\ ~Intact'
  BY DEF FindEndsFaults, BitmapsMisplaced, TypeOK

LEMMA InitPhysicalTypeOK == IInv /\ InitPhysical => TypeOK'
  <1> SUFFICES ASSUME IInv, InitPhysical  PROVE TypeOK'
    OBVIOUS
  <1>1. kernel_static_end \in Nat /\ memory_end \in Nat
        /\ kernel_dynamic_end = find_kernel_dynamic_end(memory_end)
    BY EndsInOrder DEF IInv, TypeOK, InitPhysical
  <1>2. bitmaps_end(kernel_static_end, kernel_dynamic_end, memory_end) \in Nat
    BY <1>1, BitmapsBehind
  <1>3. pc' \in {"unmap", "lost"}
    BY DEF InitPhysical
  <1> QED
    BY <1>2, <1>3 DEF IInv, TypeOK, InitPhysical

LEMMA InitPhysicalIInv == IInv /\ InitPhysical /\ Intact' => IInv'
  <1> SUFFICES ASSUME IInv, InitPhysical, Intact'  PROVE IInv'
    OBVIOUS
  <1> USE DEF InitPhysical
  <1> DEFINE static_end == find_kernel_static_end(boot)
  <1>1. kernel_static_end = static_end /\ static_end \in Nat /\ memory_end \in Nat
        /\ kernel_dynamic_end = find_kernel_dynamic_end(memory_end)
    BY EndsInOrder DEF IInv, TypeOK, Ends, Initialised
  <1>2. pc' = "unmap"
    OBVIOUS
  <1>3. TypeOK'
    BY InitPhysicalTypeOK
  <1>4. Ends'
    BY <1>1, <1>2 DEF IInv, Ends, Initialised
  <1>5. Marks'
    <2>1. lent = {}
      BY DEF IInv, Marks, Initialised
    <2>2. Frame' = Frame /\ withheld(kernel_static_end)' = withheld(kernel_static_end')
      BY DEF Frame, DMAPool, DefaultPool, HiMemPool, withheld
    <2> QED
      BY <2>1, <2>2, <1>2 DEF Marks, Initialised
  <1>6. KernelEntries' /\ SectionsStay'
    BY <1>2 DEF IInv, KernelEntries, SectionsStay, linear_pages
  <1> QED
    BY <1>3, <1>4, <1>5, <1>6, PagingStays DEF IInv

LEMMA InitPagingIInv == IInv /\ InitPaging => IInv'
  <1> SUFFICES ASSUME IInv, InitPaging  PROVE IInv'
    OBVIOUS
  <1> USE DEF InitPaging, paging_init
  <1> DEFINE mapped == mapped_pdes(linear_pages)
  <1>1. dir = LoaderDirectory
    BY DEF IInv, KernelEntries
  <1>2. mapped \subseteq Index \ {SelfPde} /\ \A i \in mapped : i >= KernelPde
    <2>1. kernel_dynamic_end \in Nat /\ kernel_dynamic_end <= (SelfPde - KernelPde) * Entries * PAGE_SIZE
      BY EndsInOrder DEF IInv, TypeOK
    <2> DEFINE k == (SelfPde - KernelPde) * Entries
    <2>2. k \in Nat /\ k * PAGE_SIZE = PAGE_SIZE * k /\ PAGE_SIZE * k \in Nat
          /\ PAGE_SIZE * (k + 1) = PAGE_SIZE * k + PAGE_SIZE
      BY Constants
    <2>3. kernel_dynamic_end + PAGE_SIZE - 1 \in Nat
          /\ kernel_dynamic_end + PAGE_SIZE - 1 < PAGE_SIZE * (k + 1)
      <3> DEFINE q == PAGE_SIZE * k
      <3>1. q \in Nat /\ kernel_dynamic_end <= q /\ PAGE_SIZE * (k + 1) = q + PAGE_SIZE
        BY <2>1, <2>2
      <3> HIDE DEF q, k
      <3> QED
        BY <2>1, <3>1, Constants
    <2>4. linear_pages < k + 1 /\ linear_pages \in Nat
      <3>1. k + 1 \in Nat
        BY <2>2
      <3> QED
        BY <3>1, <2>3, Sides, Division, Constants DEF linear_pages
    <2>5. SelfPde \notin mapped
      BY <2>2, <2>4 DEF mapped_pdes
    <2> QED
      BY <2>5 DEF mapped_pdes
  <1>3. /\ dir' \in [Index -> PageEntry]
        /\ dir'[SelfPde] = Entry(TRUE, FALSE, FALSE, DirFrame)
        /\ \A i \in mapped : dir'[i] = Entry(TRUE, TRUE, FALSE, (i - KernelPde) * Entries)
        /\ \A i \in Index \ ({SelfPde} \cup mapped) : dir'[i] = dir[i]
    <2>1. SelfPde \in Index /\ DirFrame \in Nat
      BY Constants, PagingAssumption DEF Index
    <2>2. \A i \in mapped : (i - KernelPde) * Entries \in Nat
      BY <1>2, Constants DEF Index
    <2>3. self_mapped(dir) \in [Index -> PageEntry]
      BY <2>1, EntryTypes DEF IInv, TypeOK, self_mapped
    <2>4. \A i \in Index : dir'[i] = IF i \in mapped
                                      THEN Entry(TRUE, TRUE, FALSE, (i - KernelPde) * Entries)
                                      ELSE self_mapped(dir)[i]
      BY DEF linear_pages
    <2>5. dir' \in [Index -> PageEntry]
      BY <2>2, <2>3, EntryTypes DEF linear_pages
    <2>6. self_mapped(dir)[SelfPde] = Entry(TRUE, FALSE, FALSE, DirFrame)
          /\ \A i \in Index \ {SelfPde} : self_mapped(dir)[i] = dir[i]
      BY <2>1 DEF IInv, TypeOK, self_mapped
    <2> QED
      BY <1>2, <2>1, <2>4, <2>5, <2>6
  <1>4. /\ DOMAIN tlb' \subseteq DOMAIN tlb
        /\ \A v \in DOMAIN tlb' : tlb'[v] = tlb[v] /\ pdindex(v) \notin mapped
    BY DEF Keep, linear_pages
  <1>5. /\ \A i \in UserPde : dir'[i] = Absent /\ dir[i] = Absent
        /\ dir'[0] = Entry(TRUE, TRUE, FALSE, 0)
        /\ dir'[KernelPde] = Entry(TRUE, TRUE, FALSE, 0)
    <2>1. \A i \in {0} \cup UserPde : i \in Index \ ({SelfPde} \cup mapped)
      BY <1>2, Constants DEF UserPde, Index
    <2>2. CASE KernelPde \in mapped
      <3>1. (KernelPde - KernelPde) * Entries = 0
        BY Constants
      <3> QED
        BY <1>1, <1>3, <2>1, <2>2, <3>1, LoaderIsEmpty
    <2>3. CASE KernelPde \notin mapped
      <3>1. KernelPde \in Index \ ({SelfPde} \cup mapped)
        BY <2>3, Constants DEF Index
      <3> QED
        BY <1>1, <1>3, <2>1, <3>1, LoaderIsEmpty
    <2> QED
      BY <2>2, <2>3
  <1>6. TypeOK'
    BY <1>3, <1>4 DEF IInv, TypeOK
  <1> HIDE DEF paging_init
  <1>7. Ends'
    BY DEF IInv, Ends, Initialised
  <1>8. Marks'
    BY DEF IInv, Marks, Initialised
  <1>9. KernelEntries' /\ SectionsStay'
    <2>1. dir'[0].present /\ dir'[0].enable4m /\ dir'[0].page = 0
      BY <1>5 DEF Entry
    <2> QED
      BY <1>3, <1>5, <2>1 DEF KernelEntries, SectionsStay, linear_pages
  <1>10. UserTables'
    <2>1. \A i \in UserPde : ~dir'[i].present
      BY <1>5, AbsentIsNot
    <2> QED
      BY <2>1 DEF UserTables
  <1>11. LowIsLarge'
    BY <1>4 DEF IInv, LowIsLarge
  <1>12. CachedIsTrue'
    <2> SUFFICES ASSUME NEW v \in DOMAIN tlb' \ stale'
                 PROVE  tlb'[v].frame = walk(v)'
      BY DEF CachedIsTrue
    <2>1. v \in DOMAIN tlb \ stale /\ tlb'[v] = tlb[v] /\ tlb[v].frame = walk(v)
          /\ tlb[v].frame \in Nat /\ pdindex(v) \notin mapped
          /\ v \in UserPages \cup Index \cup {KernelPage, TestPage, TestPage + 1}
      <3>1. stale' = stale
        BY DEF paging_init
      <3> QED
        BY <1>4, <3>1 DEF IInv, CachedIsTrue, TypeOK
    <2>2. v \in Index \cup {KernelPage}
      BY <2>1, <1>1, LoaderIsEmpty DEF NoFrame
    <2>3. pdindex(v) \in {0, KernelPde}
      BY <2>2, LowPlace, KernelPlace
    <2>4. dir'[pdindex(v)] = dir[pdindex(v)] /\ dir[pdindex(v)].enable4m
      <3>1. dir'[pdindex(v)] = dir[pdindex(v)] /\ dir[pdindex(v)] = Entry(TRUE, TRUE, FALSE, 0)
        BY <1>1, <1>5, <2>3, LoaderIsEmpty
      <3>2. dir[pdindex(v)].enable4m
        BY <3>1 DEF Entry
      <3> QED
        BY <3>1, <3>2
    <2> QED
      BY <2>1, <2>4, WalkStays
  <1>13. OwnFrames'
    <2>1. \A v \in UserPages : ~dir'[pdindex(v)].present
      BY <1>5, UserPlaces, AbsentIsNot
    <2>2. \A v \in UserPages : walk(v)' = NoFrame
      BY <2>1 DEF walk
    <2> QED
      BY <2>2 DEF OwnFrames
  <1> QED
    BY <1>6, <1>7, <1>8, <1>9, <1>10, <1>11, <1>12, <1>13 DEF IInv

\* A caller's table is neither the directory nor one of the kernel's.
LEMMA TablesApart ==
    ASSUME IInv, NEW i \in UserPde, dir[i].present
    PROVE  /\ ~dir[i].enable4m /\ dir[i].page \in TableFrames
           /\ dir[i].page \notin {DirFrame, KernelTable}
  <1>1. ~dir[i].enable4m /\ dir[i].page \in TableFrames \cap (lent \cup {TestTable})
    BY DEF IInv, UserTables
  <1>2. lent \cap {DirFrame, KernelTable, TestTable} = {}
    BY KernelNotLent DEF IInv
  <1> QED
    BY <1>1, <1>2, PagingAssumption

\* The entries of the pages that can be cached.
LEMMA CachedPlaces ==
    ASSUME IInv, NEW v \in UserPages \cup Index \cup {KernelPage, TestPage, TestPage + 1}
    PROVE  /\ pdindex(v) \in Index \ {SelfPde} /\ ptindex(v) \in Index
           /\ pdindex(v) = 0 => v \in Index /\ dir[0].enable4m
           /\ v \in Index \cup {KernelPage} \/ pdindex(v) \in UserPde
           /\ (dir[pdindex(v)].present /\ ~dir[pdindex(v)].enable4m) =>
                  dir[pdindex(v)].page \in TableFrames /\ dir[pdindex(v)].page # DirFrame
  <1>1. /\ dir[0].enable4m
        /\ dir[KernelPde].present /\ ~dir[KernelPde].enable4m =>
               dir[KernelPde].page \in TableFrames /\ dir[KernelPde].page # DirFrame
    <2>1. /\ dir[0] = Entry(TRUE, TRUE, FALSE, 0) \/ dir[0].enable4m
          /\ \/ dir[KernelPde] = Entry(TRUE, TRUE, FALSE, 0)
             \/ dir[KernelPde] = Entry(TRUE, FALSE, FALSE, KernelTable)
      BY LoaderIsEmpty DEF IInv, KernelEntries
    <2>2. KernelTable \in TableFrames /\ KernelTable # DirFrame
      BY PagingAssumption
    <2>3. dir[0].enable4m
      BY <2>1 DEF Entry
    <2>4. dir[KernelPde].present /\ ~dir[KernelPde].enable4m => dir[KernelPde].page = KernelTable
      BY <2>1 DEF Entry
    <2> QED
      BY <2>2, <2>3, <2>4
  <1>2. CASE v \in Index
    <2>1. 0 \in Index \ {SelfPde}
      BY Constants DEF Index
    <2> QED
      BY <1>1, <1>2, <2>1, LowPlace, Places
  <1>3. CASE v = KernelPage
    BY <1>1, <1>3, KernelPlace, Places, Constants DEF Index
  <1>4. CASE v \in UserPages \cup {TestPage, TestPage + 1}
    BY <1>4, UserPlaces, TablesApart
  <1> QED
    BY <1>2, <1>3, <1>4

\* A walk ends at a frame or at none.
LEMMA WalkType ==
    ASSUME IInv, NEW v \in UserPages \cup Index \cup {KernelPage, TestPage, TestPage + 1}
    PROVE  walk(v) \in Nat \cup {NoFrame}
  <1> DEFINE pde == dir[pdindex(v)]  pte == tables[pde.page][ptindex(v)]
  <1>1. pde \in PageEntry /\ ptindex(v) \in Nat
    BY CachedPlaces, Constants DEF IInv, TypeOK, Index
  <1>2. pde.page \in Nat
    BY <1>1 DEF PageEntry
  <1>3. CASE pde.present /\ ~pde.enable4m
    <2>1. pde.page \in TableFrames /\ pde.page # DirFrame /\ ptindex(v) \in Index
      BY <1>3, CachedPlaces
    <2>2. pte \in PageEntry
      BY <2>1 DEF IInv, TypeOK
    <2>3. pte.page \in Nat
      BY <2>2 DEF PageEntry
    <2> QED
      BY <1>3, <2>1, <2>3, WalkCases
  <1>4. CASE ~(pde.present /\ ~pde.enable4m)
    BY <1>1, <1>2, <1>4, WalkCases
  <1> QED
    BY <1>3, <1>4

LEMMA CacheTranslationIInv ==
    ASSUME IInv, NEW v \in UserPages \cup Index \cup {KernelPage}, CacheTranslation(v)
    PROVE  IInv'
  <1> USE DEF CacheTranslation
  <1>1. /\ walk(v) # NoFrame /\ walk(v) \in Nat
        /\ DOMAIN tlb' = DOMAIN tlb \cup {v} /\ v \notin DOMAIN tlb
        /\ tlb'[v].frame = walk(v) /\ tlb'[v].large = dir[pdindex(v)].enable4m
        /\ \A w \in DOMAIN tlb : tlb'[w] = tlb[w]
        /\ UNCHANGED <<dir, tables, stale>>
    BY WalkType DEF Cache
  <1>2. \A w : walk(w)' = walk(w)
    BY <1>1 DEF walk, table
  <1>3. TypeOK'
    BY <1>1 DEF IInv, TypeOK
  <1>4. Ends' /\ Marks'
    BY DEF IInv, Ends, Marks, Initialised, Frame, DMAPool, DefaultPool, HiMemPool, withheld
  <1>5. KernelEntries' /\ SectionsStay' /\ UserTables'
    BY <1>1 DEF IInv, KernelEntries, SectionsStay, UserTables, linear_pages, in_memory
  <1>6. LowIsLarge'
    BY <1>1, CachedPlaces DEF IInv, LowIsLarge
  <1>7. CachedIsTrue' /\ OwnFrames'
    BY <1>1, <1>2 DEF IInv, CachedIsTrue, OwnFrames
  <1> QED
    BY <1>3, <1>4, <1>5, <1>6, <1>7 DEF IInv

LEMMA InitUnmap0IInv == IInv /\ InitUnmap0 => IInv'
  <1> SUFFICES ASSUME IInv, InitUnmap0  PROVE IInv'
    OBVIOUS
  <1> USE DEF InitUnmap0
  <1>1. /\ UNCHANGED <<tables, stale>>
        /\ \A i \in Index \ {0} : dir'[i] = dir[i]
        /\ dir' \in [Index -> PageEntry]
        /\ ~dir'[0].present /\ dir'[0].enable4m /\ dir'[0].page = 0
    <2> DEFINE q == [dir[0] EXCEPT !.present = FALSE]
    <2>1. dir \in [Index -> PageEntry]
      BY DEF IInv, TypeOK
    <2>2. 0 \in Index
      BY Constants DEF Index
    <2>3. dir[0] \in PageEntry /\ dir[0].enable4m /\ dir[0].page = 0
      BY <2>1, <2>2 DEF IInv, KernelEntries
    <2>4. q \in PageEntry /\ ~q.present /\ q.enable4m /\ q.page = 0
      BY <2>3 DEF PageEntry
    <2>5. dir' = [dir EXCEPT ![0] = q] /\ UNCHANGED <<tables, stale>>
      BY DEF init_unmap_0
    <2> HIDE DEF q
    <2> QED
      BY <2>1, <2>2, <2>4, <2>5
  <1>2. /\ DOMAIN tlb' \subseteq DOMAIN tlb
        /\ \A v \in DOMAIN tlb' : tlb'[v] = tlb[v] /\ pdindex(v) # 0
    <2>1. pdindex(0) = 0
      <3>1. 0 = Entries * 0 + 0 /\ 0 \in 0 .. (Entries - 1)
        BY Constants
      <3> QED
        BY <3>1, Quotient, Constants DEF pdindex
    <2> QED
      BY <2>1 DEF init_unmap_0, Keep, unmapped_0, flushed, IInv, LowIsLarge
  <1>3. \A i \in UserPde \cup {KernelPde, SelfPde} : i \in Index \ {0}
    BY Constants DEF UserPde, Index
  <1>4. TypeOK'
    BY <1>1, <1>2 DEF IInv, TypeOK
  <1>5. Ends' /\ Marks'
    BY DEF IInv, Ends, Marks, Initialised, Frame, DMAPool, DefaultPool, HiMemPool, withheld
  <1>6. KernelEntries' /\ SectionsStay'
    <2>1. mapped_pdes(linear_pages) \subseteq Index \ {0}
      BY Constants DEF mapped_pdes
    <2> QED
      BY <1>1, <1>3, <2>1 DEF IInv, KernelEntries, SectionsStay, linear_pages
  <1>7. UserTables'
    BY <1>1, <1>3 DEF IInv, UserTables
  <1>8. LowIsLarge'
    BY <1>2 DEF LowIsLarge
  <1>9. ASSUME NEW v \in UserPages \cup Index \cup {KernelPage, TestPage, TestPage + 1}, pdindex(v) # 0
        PROVE  walk(v)' = walk(v)
    <2>1. dir'[pdindex(v)] = dir[pdindex(v)]
      BY <1>1, <1>9, CachedPlaces
    <2> QED
      BY <1>1, <2>1, CachedPlaces, WalkStays
  <1>10. CachedIsTrue'
    BY <1>1, <1>2, <1>9 DEF IInv, CachedIsTrue, TypeOK
  <1>11. OwnFrames'
    <2>1. \A v \in UserPages : walk(v)' = walk(v)
      BY <1>9, UserPlaces
    <2> QED
      BY <2>1 DEF IInv, OwnFrames
  <1> QED
    BY <1>4, <1>5, <1>6, <1>7, <1>8, <1>10, <1>11 DEF IInv

-----------------------------------------------------------------------------
\* The running system.

\* A frame that the allocator lends is new, and nobody's.
LEMMA FreshFrame ==
    ASSUME IInv, pc = "running", NEW f, AllocHimem(f) \/ AllocDefault(f)
    PROVE  /\ f \in Frame /\ f \in Nat /\ f \notin marked /\ f \notin lent
           /\ f \notin withheld(kernel_static_end)
           /\ f \notin {DirFrame, KernelTable, TestTable}
  <1>1. f \in Frame /\ f \notin marked
    BY DEF AllocHimem, AllocDefault, unmarked, Frame
  <1>2. Initialised
    BY DEF Initialised
  <1>3. f \notin lent /\ f \notin withheld(kernel_static_end)
    BY <1>1, <1>2 DEF IInv, Marks
  <1>4. f \notin {DirFrame, KernelTable, TestTable}
    BY <1>2, <1>3, KernelWithheld DEF IInv
  <1>5. f \in Nat
    <2>1. /\ memory_end \in Nat /\ kernel_dynamic_end = find_kernel_dynamic_end(memory_end)
          /\ find_kernel_static_end(boot) \in Nat
      BY EndsInOrder DEF IInv, TypeOK
    <2> QED
      BY <1>1, <2>1, FramesBelow
  <1> QED
    BY <1>1, <1>3, <1>4, <1>5

\* Taking it keeps the marks.
LEMMA TakeMarks ==
    ASSUME IInv, pc = "running", NEW f, AllocHimem(f) \/ AllocDefault(f), take(f),
           UNCHANGED <<boot, pc, memory_end, kernel_static_end, kernel_dynamic_end>>
    PROVE  Ends' /\ Marks'
  <1>1. Ends'
    BY DEF IInv, Ends, Initialised
  <1>2. Frame' = Frame /\ withheld(kernel_static_end)' = withheld(kernel_static_end)
    BY DEF Frame, DMAPool, DefaultPool, HiMemPool, withheld
  <1>3. Marks'
    BY <1>2, FreshFrame DEF IInv, Marks, Initialised, take
  <1> QED
    BY <1>1, <1>3

\* A step that takes nothing keeps them, too.
LEMMA MarksStay ==
    ASSUME IInv, pc = "running", pc' \in {"running", "halted", "rebuilt"},
           UNCHANGED <<boot, memory_end, kernel_static_end, kernel_dynamic_end, marked, lent>>
    PROVE  Ends' /\ Marks'
  <1>1. Ends'
    BY DEF IInv, Ends, Initialised
  <1>2. Frame' = Frame /\ withheld(kernel_static_end)' = withheld(kernel_static_end)
    BY DEF Frame, DMAPool, DefaultPool, HiMemPool, withheld
  <1>3. Marks'
    BY <1>2 DEF IInv, Marks, Initialised
  <1> QED
    BY <1>1, <1>3

\* Entries of callers' pages are none of the kernel's.
LEMMA UserEntries ==
    ASSUME NEW i \in UserPde
    PROVE  i \in Index /\ i \notin {0, KernelPde, SelfPde} /\ i \notin mapped_pdes(linear_pages)
  BY Constants DEF UserPde, Index, mapped_pdes

\* In the running system a page keeps its frame if its entries stay.
LEMMA RunningWalk ==
    ASSUME IInv, pc = "running",
           NEW v \in UserPages \cup Index \cup {KernelPage, TestPage, TestPage + 1},
           dir'[pdindex(v)] = dir[pdindex(v)],
           (pdindex(v) \in UserPde /\ dir[pdindex(v)].present) =>
               tables'[dir[pdindex(v)].page][ptindex(v)] = tables[dir[pdindex(v)].page][ptindex(v)]
    PROVE  walk(v)' = walk(v)
  <1>1. CASE pdindex(v) \in UserPde
    BY <1>1, TablesApart, WalkStays
  <1>2. CASE v \in Index \cup {KernelPage}
    <2>1. dir[0].enable4m
      BY DEF IInv, KernelEntries
    <2>2. dir[KernelPde].enable4m
      <3>1. dir[KernelPde] = Entry(TRUE, TRUE, FALSE, 0)
        BY DEF IInv, KernelEntries
      <3> QED
        BY <3>1 DEF Entry
    <2> QED
      BY <1>2, <2>1, <2>2, LowPlace, KernelPlace, WalkStays
  <1> QED
    BY <1>1, <1>2, CachedPlaces

LEMMA ReserveIInv ==
    ASSUME IInv, NEW u \in UserPages, Reserve(pdindex(u))
    PROVE  IInv'
  <1> DEFINE pd == pdindex(u)
  <1> USE DEF Reserve
  <1>1. PICK f \in TableFrames :
           /\ AllocDefault(f)
           /\ take(f)
           /\ dir' = [dir EXCEPT ![pd] = Entry(TRUE, FALSE, FALSE, f)]
           /\ tables' = [tables EXCEPT ![f] =
                [i \in Index |-> IF Page(pd, i) \in UserPages THEN ReservedEntry ELSE Absent]]
    OBVIOUS
  <1>2. pd \in UserPde /\ pd \in Index /\ pd \notin {0, KernelPde, SelfPde}
        /\ pd \notin mapped_pdes(linear_pages)
    BY UserPlaces, UserEntries
  <1>3. f \in Nat /\ f \notin lent /\ f \notin {DirFrame, KernelTable, TestTable}
    BY <1>1, FreshFrame
  <1>4. /\ dir' \in [Index -> PageEntry] /\ tables' \in [TableFrames -> [Index -> PageEntry]]
        /\ dir'[pd] = Entry(TRUE, FALSE, FALSE, f) /\ \A i \in Index \ {pd} : dir'[i] = dir[i]
        /\ \A i \in Index : tables'[f][i] \in {ReservedEntry, Absent}
        /\ \A g \in TableFrames \ {f} : tables'[g] = tables[g]
    <2> DEFINE new == [i \in Index |-> IF Page(pd, i) \in UserPages THEN ReservedEntry ELSE Absent]
    <2>1. Entry(TRUE, FALSE, FALSE, f) \in PageEntry /\ new \in [Index -> PageEntry]
      BY <1>3, EntryTypes
    <2>2. \A i \in Index : new[i] \in {ReservedEntry, Absent}
      OBVIOUS
    <2>3. dir \in [Index -> PageEntry] /\ tables \in [TableFrames -> [Index -> PageEntry]]
      BY DEF IInv, TypeOK
    <2> HIDE DEF new, pd
    <2> QED
      BY <1>1, <1>2, <2>1, <2>2, <2>3 DEF new
  <1>5. TypeOK'
    BY <1>4 DEF IInv, TypeOK
  <1>6. Ends' /\ Marks'
    BY <1>1, TakeMarks
  <1>7. KernelEntries' /\ SectionsStay'
    <2>1. mapped_pdes(linear_pages) \subseteq Index /\ {0, KernelPde, SelfPde} \subseteq Index
      BY Constants DEF mapped_pdes, Index
    <2> QED
      BY <1>2, <1>4, <2>1 DEF IInv, KernelEntries, SectionsStay, linear_pages
  <1>8. lent' = lent \cup {f}
    BY <1>1 DEF take
  <1>9. UserTables'
    <2>1. \A i \in UserPde : i \in Index
      BY UserEntries
    <2>2. /\ dir'[pd].present /\ ~dir'[pd].enable4m /\ dir'[pd].page = f
      BY <1>4 DEF Entry
    <2>3. \A i \in UserPde \ {pd} : dir'[i] = dir[i]
      BY <1>4, <2>1
    <2>4. \A i \in UserPde : dir[i].present => dir[i].page # f
      BY <1>3 DEF IInv, UserTables
    <2> QED
      BY <1>3, <1>8, <2>2, <2>3, <2>4 DEF IInv, UserTables
  <1>10. LowIsLarge'
    BY DEF IInv, LowIsLarge
  <1>11. ASSUME NEW v \in UserPages \cup Index \cup {KernelPage, TestPage, TestPage + 1}, pdindex(v) # pd
         PROVE  walk(v)' = walk(v)
    <2>1. dir'[pdindex(v)] = dir[pdindex(v)]
      BY <1>4, <1>11, CachedPlaces
    <2>2. ASSUME pdindex(v) \in UserPde, dir[pdindex(v)].present
          PROVE  tables'[dir[pdindex(v)].page] = tables[dir[pdindex(v)].page]
      <3>1. dir[pdindex(v)].page \in TableFrames \cap (lent \cup {TestTable})
        BY <2>2 DEF IInv, UserTables
      <3> QED
        BY <1>3, <1>4, <3>1
    <2> QED
      BY <2>1, <2>2, RunningWalk
  <1>12. \A v \in UserPages \cup {TestPage, TestPage + 1} : pdindex(v) = pd =>
            walk(v) = NoFrame /\ walk(v)' = NoFrame
    <2> SUFFICES ASSUME NEW v \in UserPages \cup {TestPage, TestPage + 1}, pdindex(v) = pd
                 PROVE  walk(v) = NoFrame /\ walk(v)' = NoFrame
      OBVIOUS
    <2>1. ~dir[pd].present
      BY AbsentIsNot
    <2>2. dir'[pd].present /\ ~dir'[pd].enable4m /\ dir'[pd].page = f
      BY <1>4 DEF Entry
    <2>3. ~tables'[f][ptindex(v)].present
      <3>1. ptindex(v) \in Index
        BY UserPlaces
      <3>2. ~ReservedEntry.present
        BY DEF ReservedEntry, Entry
      <3> QED
        BY <1>4, <3>1, <3>2, AbsentIsNot
    <2> QED
      BY <1>3, <2>1, <2>2, <2>3 DEF walk, table
  <1>13. CachedIsTrue'
    <2> SUFFICES ASSUME NEW v \in DOMAIN tlb \ stale
                 PROVE  tlb[v].frame = walk(v)'
      BY DEF CachedIsTrue
    <2>1. /\ tlb[v].frame = walk(v) /\ tlb[v].frame \in Nat
          /\ v \in UserPages \cup Index \cup {KernelPage, TestPage, TestPage + 1}
      BY DEF IInv, CachedIsTrue, TypeOK
    <2>2. pdindex(v) # pd
      BY <1>2, <1>12, <2>1, LowPlace, KernelPlace DEF NoFrame
    <2> QED
      BY <1>11, <2>1, <2>2
  <1>14. OwnFrames'
    <2>1. \A v \in UserPages : walk(v)' = walk(v) \/ walk(v)' = NoFrame
      BY <1>11, <1>12
    <2> QED
      BY <1>8, <2>1 DEF IInv, OwnFrames
  <1> QED
    BY <1>5, <1>6, <1>7, <1>9, <1>10, <1>13, <1>14 DEF IInv

\* Writing the entry of a caller's page maps that page and no other.
LEMMA WriteEntry ==
    ASSUME IInv, pc = "running", NEW v \in UserPages, NEW g \in Nat,
           dir[pdindex(v)].present, dir' = dir,
           tables' = [tables EXCEPT ![stored_at(v)][ptindex(v)] = Entry(TRUE, FALSE, FALSE, g)]
    PROVE  /\ tables' \in [TableFrames -> [Index -> PageEntry]]
           /\ walk(v)' = g
           /\ \A w \in UserPages \cup Index \cup {KernelPage, TestPage, TestPage + 1} :
                 w # v => walk(w)' = walk(w)
  <1> DEFINE pd == pdindex(v)  t == dir[pd].page  i == ptindex(v)
  <1>1. /\ pd \in UserPde /\ pd \in Index /\ i \in Index /\ v \in Nat
        /\ ~dir[pd].enable4m /\ t \in TableFrames /\ t # DirFrame
    BY UserPlaces, TablesApart
  <1>2. stored_at(v) = t
    BY <1>1, SelfMap DEF stored_at
  <1>3. tables' = [tables EXCEPT ![t][i] = Entry(TRUE, FALSE, FALSE, g)]
    BY <1>2
  <1>4. tables \in [TableFrames -> [Index -> PageEntry]] /\ Entry(TRUE, FALSE, FALSE, g) \in PageEntry
    BY EntryTypes DEF IInv, TypeOK
  <1>5. /\ tables' \in [TableFrames -> [Index -> PageEntry]]
        /\ tables'[t][i] = Entry(TRUE, FALSE, FALSE, g)
        /\ \A s \in TableFrames, j \in Index : ~(s = t /\ j = i) => tables'[s][j] = tables[s][j]
    <2> DEFINE e == Entry(TRUE, FALSE, FALSE, g)  row == [tables[t] EXCEPT ![i] = e]
    <2>1. tables' = [tables EXCEPT ![t] = row]
      BY <1>3
    <2>2. tables[t] \in [Index -> PageEntry] /\ e \in PageEntry
      BY <1>1, <1>4
    <2> HIDE DEF t, i, e
    <2>3. row \in [Index -> PageEntry] /\ row[i] = e /\ \A j \in Index \ {i} : row[j] = tables[t][j]
      BY <1>1, <2>2
    <2> HIDE DEF row
    <2>4. tables' \in [TableFrames -> [Index -> PageEntry]]
          /\ tables'[t] = row /\ \A s \in TableFrames \ {t} : tables'[s] = tables[s]
      BY <1>1, <1>4, <2>1, <2>3
    <2> QED
      BY <2>3, <2>4 DEF e
  <1>6. walk(v)' = g
    <2>1. tables'[t][i].present /\ tables'[t][i].page = g
      BY <1>5 DEF Entry
    <2> QED
      BY <1>1, <2>1 DEF walk, table
  <1>7. ASSUME NEW w \in UserPages \cup Index \cup {KernelPage, TestPage, TestPage + 1}, w # v
        PROVE  walk(w)' = walk(w)
    <2>1. ASSUME pdindex(w) \in UserPde, dir[pdindex(w)].present
          PROVE  tables'[dir[pdindex(w)].page][ptindex(w)] = tables[dir[pdindex(w)].page][ptindex(w)]
      <3>1. dir[pdindex(w)].page \in TableFrames /\ ptindex(w) \in Index /\ w \in Nat
        BY <2>1, TablesApart, CachedPlaces, UserPlaces, LowPlace, KernelPlace
      <3>2. dir[pdindex(w)].page = t => pdindex(w) = pd
        BY <1>1, <2>1 DEF IInv, UserTables
      <3>3. ~(dir[pdindex(w)].page = t /\ ptindex(w) = i)
        BY <1>1, <1>7, <3>1, <3>2, PlacesDiffer
      <3> QED
        BY <1>5, <3>1, <3>3
    <2> QED
      BY <2>1, RunningWalk
  <1> QED
    BY <1>5, <1>6, <1>7

\* A fault that is answered with frame f: one that was lent for it, or 0.
LEMMA HandleFaultIInv ==
    ASSUME IInv, pc = "running", NEW v \in UserPages, NEW f \in Nat, handle_fault(v, f),
           UNCHANGED <<boot, pc, memory_end, kernel_static_end, kernel_dynamic_end>>,
           Ends', Marks', lent' = lent \cup {f} \/ (lent' = lent /\ f = 0), f \notin lent \/ f = 0
    PROVE  IInv'
  <1>1. dir[pdindex(v)].present /\ walk(v) = NoFrame /\ dir' = dir /\ UNCHANGED <<tlb, stale>>
    BY DEF handle_fault, Resolvable
  <1>2. /\ tables' \in [TableFrames -> [Index -> PageEntry]]
        /\ walk(v)' = f
        /\ \A w \in UserPages \cup Index \cup {KernelPage, TestPage, TestPage + 1} :
              w # v => walk(w)' = walk(w)
    BY <1>1, WriteEntry DEF handle_fault
  <1>3. TypeOK'
    BY <1>1, <1>2 DEF IInv, TypeOK
  <1>4. KernelEntries' /\ SectionsStay' /\ LowIsLarge'
    BY <1>1 DEF IInv, KernelEntries, SectionsStay, LowIsLarge, linear_pages
  <1>5. UserTables'
    BY <1>1 DEF IInv, UserTables
  <1>6. CachedIsTrue'
    <2> SUFFICES ASSUME NEW w \in DOMAIN tlb \ stale
                 PROVE  tlb[w].frame = walk(w)'
      BY <1>1 DEF CachedIsTrue
    <2>1. /\ tlb[w].frame = walk(w) /\ tlb[w].frame \in Nat
          /\ w \in UserPages \cup Index \cup {KernelPage, TestPage, TestPage + 1}
      BY DEF IInv, CachedIsTrue, TypeOK
    <2>2. w # v
      BY <1>1, <2>1 DEF NoFrame
    <2> QED
      BY <1>2, <2>1, <2>2
  <1>7. OwnFrames'
    <2>1. \A w \in UserPages : w # v => walk(w)' = walk(w)
      BY <1>2
    <2>2. walk(v)' = f /\ f # NoFrame
      BY <1>2 DEF NoFrame
    <2> QED
      BY <2>1, <2>2 DEF IInv, OwnFrames
  <1> QED
    BY <1>3, <1>4, <1>5, <1>6, <1>7 DEF IInv

LEMMA PageFaultIInv ==
    ASSUME IInv, NEW v \in UserPages, PageFault(v)
    PROVE  IInv'
  <1> USE DEF PageFault
  <1>1. PICK f \in Frame : AllocHimem(f) /\ take(f) /\ handle_fault(v, f)
    OBVIOUS
  <1>2. f \in Nat /\ f \notin lent
    BY <1>1, FreshFrame
  <1>3. Ends' /\ Marks'
    BY <1>1, TakeMarks
  <1>4. lent' = lent \cup {f}
    BY <1>1 DEF take
  <1>5. /\ pc = "running" /\ handle_fault(v, f)
        /\ UNCHANGED <<boot, pc, memory_end, kernel_static_end, kernel_dynamic_end>>
    BY <1>1
  <1> HIDE DEF PageFault
  <1> QED
    BY <1>2, <1>3, <1>4, <1>5, HandleFaultIInv

LEMMA PageFaultOutOfMemoryIInv ==
    ASSUME IInv, NEW v \in UserPages, PageFaultOutOfMemory(v)
    PROVE  IInv'
  <1>1. Ends' /\ Marks'
    BY MarksStay DEF PageFaultOutOfMemory
  <1> QED
    BY <1>1, HandleFaultIInv DEF PageFaultOutOfMemory

LEMMA PageFaultHaltsIInv ==
    ASSUME IInv, NEW v \in UserPages, PageFaultHalts(v)
    PROVE  IInv'
  <1> USE DEF PageFaultHalts
  <1>1. TypeOK'
    BY DEF IInv, TypeOK
  <1>2. Ends' /\ Marks'
    BY MarksStay
  <1>3. KernelEntries' /\ SectionsStay'
    BY DEF IInv, KernelEntries, SectionsStay, linear_pages
  <1> QED
    BY <1>1, <1>2, <1>3, PagingStays DEF IInv

\* Writing an entry needs a table; without one the system halts.
LEMMA MapDeviceFaultsIInv ==
    ASSUME IInv, NEW v \in UserPages, MapDeviceFaults(v)
    PROVE  IInv'
  <1> USE DEF MapDeviceFaults
  <1>1. TypeOK'
    BY DEF IInv, TypeOK
  <1>2. Ends' /\ Marks'
    BY MarksStay
  <1>3. KernelEntries' /\ SectionsStay'
    BY DEF IInv, KernelEntries, SectionsStay, linear_pages
  <1> QED
    BY <1>1, <1>2, <1>3, PagingStays DEF IInv

LEMMA MapDeviceIInv ==
    ASSUME IInv, NEW v \in UserPages, MapDevice(v)
    PROVE  IInv'
  <1> USE DEF MapDevice, map_page
  <1>8. dir[pdindex(v)].present /\ ~dir[pdindex(v)].enable4m
    <2>1. pdindex(v) \in UserPde /\ pdindex(v) \in Index
      BY UserPlaces
    <2>2. walk(pt_pointer(pdindex(v))) # NoFrame
      BY DEF stored_at
    <2>3. dir[pdindex(v)].present
      BY <2>1, <2>2, SelfMap
    <2> QED
      BY <2>1, <2>3, TablesApart
  <1>1. /\ tables' \in [TableFrames -> [Index -> PageEntry]]
        /\ walk(v)' = DevicePage
        /\ \A w \in UserPages \cup Index \cup {KernelPage, TestPage, TestPage + 1} :
              w # v => walk(w)' = walk(w)
    BY <1>8, WriteEntry, Constants
  <1>2. TypeOK'
    BY <1>1 DEF IInv, TypeOK
  <1>3. Ends' /\ Marks'
    BY MarksStay
  <1>4. KernelEntries' /\ SectionsStay' /\ LowIsLarge'
    BY DEF IInv, KernelEntries, SectionsStay, LowIsLarge, linear_pages
  <1>5. UserTables'
    BY DEF IInv, UserTables
  <1>6. CachedIsTrue'
    BY <1>1 DEF IInv, CachedIsTrue, TypeOK
  <1>7. OwnFrames'
    BY <1>1 DEF IInv, OwnFrames
  <1> QED
    BY <1>2, <1>3, <1>4, <1>5, <1>6, <1>7 DEF IInv

\* Until the kernel's table is built its large page is translated as it is mapped.
LEMMA KernelTranslation ==
    ASSUME IInv, pc = "running", NEW i \in Index
    PROVE  virtual_to_physical(Page(KernelPde, i)) = i
  <1>1. dir[KernelPde] = Entry(TRUE, TRUE, FALSE, 0)
    BY DEF IInv, KernelEntries
  <1>2. pdindex(Page(KernelPde, i)) = KernelPde /\ ptindex(Page(KernelPde, i)) = i /\ i \in Nat
    BY PageAt, Constants DEF Index
  <1>3. dir[KernelPde].present /\ dir[KernelPde].enable4m /\ dir[KernelPde].page = 0
    BY <1>1 DEF Entry
  <1> QED
    BY <1>2, <1>3 DEF virtual_to_physical

\* The sections as pages of the kernel, in the order of their frames.
LEMMA SectionPlaces ==
    ASSUME TypeOK, NEW s \in in_memory
    PROVE  LET a == page(s.addr)  b == page(s.addr + s.size - 1)
           IN  /\ a \in Index /\ b \in Index /\ a <= b
               /\ in_pages(s).first = Page(KernelPde, a) /\ in_pages(s).last = Page(KernelPde, b)
               /\ ptindex(in_pages(s).first) = a
               /\ in_pages(s).last - in_pages(s).first = b - a
               /\ \A f \in pages_of(s.addr, s.size) : a <= f /\ f <= b
  <1> DEFINE a == page(s.addr)  top == s.addr + s.size - 1  b == page(top)
  <1>1. s \in boot.sections /\ boot \in Boots /\ s.size > 0
    BY DEF in_memory, TypeOK
  <1>2. s.addr \in Nat /\ s.size \in Nat /\ top \in Nat /\ s.addr <= top
    BY <1>1, BootTypes
  <1>3. a \in pages_of(s.addr, s.size) /\ b \in pages_of(s.addr, s.size)
    BY <1>2 DEF pages_of
  <1>4. a \in Index /\ b \in Index
    BY <1>3, SectionPages, Constants DEF Index
  <1>5. \A f \in pages_of(s.addr, s.size) : a <= f /\ f <= b
    <2> SUFFICES ASSUME NEW c \in s.addr .. top
                 PROVE  a <= page(c) /\ page(c) <= b
      BY DEF pages_of
    <2>1. c \in Nat /\ s.addr <= c /\ c <= top
      BY <1>2
    <2> QED
      BY <2>1, <1>2, Monotone, Constants DEF page
  <1>6. in_pages(s).first = Page(KernelPde, a) /\ in_pages(s).last = Page(KernelPde, b)
    BY DEF in_pages
  <1>7. ptindex(Page(KernelPde, a)) = a
    BY <1>4, PageAt, Constants
  <1>8. Page(KernelPde, b) - Page(KernelPde, a) = b - a
    <2>1. KernelPde * Entries \in Nat /\ a \in Nat /\ b \in Nat
      BY <1>4, Constants DEF Index
    <2> HIDE DEF a, b
    <2> QED
      BY <2>1 DEF Page
  <1> QED
    BY <1>3, <1>4, <1>5, <1>6, <1>7, <1>8

\* The table that paging_build_kernel_table makes maps frames to themselves, each
\* frame of a section among them.
LEMMA BuiltTable ==
    ASSUME IInv, pc = "running"
    PROVE  LET built == built_table({in_pages(s) : s \in in_memory}, {DevicePage})
           IN  /\ built \in [Index -> PageEntry]
               /\ \A s \in in_memory : \A f \in pages_of(s.addr, s.size) :
                     built[f] = Entry(TRUE, FALSE, FALSE, f)
  <1> DEFINE sections == {in_pages(s) : s \in in_memory}
             built == built_table(sections, {DevicePage})
             covers(t, i) == i - ptindex(t.first) \in 0 .. (t.last - t.first)
             covered(i) == \E t \in sections : \E k \in 0 .. (t.last - t.first) : ptindex(t.first) + k = i
             chosen(i) == CHOOSE t \in sections : covers(t, i)
  <1>1. \A i \in Index : i \in Nat
    BY Constants DEF Index
  <1>2. \A t \in sections : \E a \in Index :
           t.first = Page(KernelPde, a) /\ ptindex(t.first) = a
    BY SectionPlaces DEF IInv
  <1>3. ASSUME NEW i \in Index, covered(i)
        PROVE  virtual_to_physical(chosen(i).first + (i - ptindex(chosen(i).first))) = i
    <2>1. \E t \in sections : covers(t, i)
      <3>1. PICK t \in sections : \E k \in 0 .. (t.last - t.first) : ptindex(t.first) + k = i
        BY <1>3
      <3>2. ptindex(t.first) \in Nat
        BY <1>1, <1>2
      <3> QED
        BY <3>1, <3>2
    <2>2. chosen(i) \in sections
      BY <2>1
    <2>3. PICK a \in Index : chosen(i).first = Page(KernelPde, a) /\ ptindex(chosen(i).first) = a
      BY <1>2, <2>2
    <2>4. Page(KernelPde, a) + (i - a) = Page(KernelPde, i)
      <3>1. KernelPde * Entries \in Nat /\ a \in Nat /\ i \in Nat
        BY <1>1, Constants
      <3> QED
        BY <3>1 DEF Page
    <2> QED
      BY <2>3, <2>4, KernelTranslation
  <1>4. \A i \in Index : built[i] = IF i = DevicePage \/ covered(i)
                                     THEN Entry(TRUE, FALSE, FALSE, i) ELSE Absent
    <2> SUFFICES ASSUME NEW i \in Index
                 PROVE  built[i] = IF i = DevicePage \/ covered(i)
                                     THEN Entry(TRUE, FALSE, FALSE, i) ELSE Absent
      OBVIOUS
    <2>1. built[i] = IF i \in {DevicePage} THEN Entry(TRUE, FALSE, FALSE, i)
                     ELSE IF covered(i)
                     THEN Entry(TRUE, FALSE, FALSE, virtual_to_physical(
                              chosen(i).first + (i - ptindex(chosen(i).first))))
                     ELSE Absent
      BY DEF built_table
    <2> HIDE DEF built, covered, chosen
    <2> QED
      BY <1>3, <2>1
  <1>5. built \in [Index -> PageEntry]
    <2>1. \A i \in Index : built[i] \in PageEntry
      <3> HIDE DEF built, covered
      <3> QED
        BY <1>1, <1>4, EntryTypes
    <2>2. built = [i \in Index |-> built[i]]
      BY DEF built_table
    <2> HIDE DEF built
    <2> QED
      BY <2>1, <2>2
  <1>6. ASSUME NEW s \in in_memory, NEW f \in pages_of(s.addr, s.size)
        PROVE  built[f] = Entry(TRUE, FALSE, FALSE, f)
    <2> DEFINE a == page(s.addr)  b == page(s.addr + s.size - 1)
    <2>1. /\ a \in Index /\ b \in Index /\ a <= f /\ f <= b
          /\ ptindex(in_pages(s).first) = a /\ in_pages(s).last - in_pages(s).first = b - a
      BY SectionPlaces DEF IInv
    <2>2. f \in Index /\ f \in Nat /\ a \in Nat /\ b \in Nat
      BY <1>1, <2>1, SectionPages, Constants DEF IInv, Index
    <2>3. f - a \in 0 .. (b - a) /\ a + (f - a) = f
      BY <2>1, <2>2
    <2>4. covered(f)
      BY <2>1, <2>3
    <2> HIDE DEF built, covered
    <2> QED
      BY <1>4, <2>2, <2>4
  <1> QED
    BY <1>5, <1>6

LEMMA BuildKernelTableIInv == IInv /\ BuildKernelTable => IInv'
  <1> SUFFICES ASSUME IInv, BuildKernelTable  PROVE IInv'
    OBVIOUS
  <1> USE DEF BuildKernelTable
  <1> DEFINE built == built_table({in_pages(s) : s \in in_memory}, {DevicePage})
  <1>1. /\ KernelTable \in Index /\ KernelTable \in Nat /\ KernelTable \in TableFrames
        /\ KernelPde \in Index
    BY PagingAssumption, Constants DEF Index
  <1>2. /\ tables' = [tables EXCEPT ![KernelTable] = built]
        /\ dir' = [dir EXCEPT ![KernelPde] = Entry(TRUE, FALSE, FALSE, KernelTable)]
        /\ stale' = stale
        /\ tlb' = Keep(tlb, {w \in DOMAIN tlb : pdindex(w) = KernelPde})
    BY <1>1, KernelTranslation DEF paging_build_kernel_table
  <1>3. /\ built \in [Index -> PageEntry]
        /\ \A s \in in_memory : \A f \in pages_of(s.addr, s.size) :
              built[f] = Entry(TRUE, FALSE, FALSE, f)
    BY BuiltTable
  <1> HIDE DEF built
  <1>4. /\ dir' \in [Index -> PageEntry] /\ tables' \in [TableFrames -> [Index -> PageEntry]]
        /\ dir'[KernelPde] = Entry(TRUE, FALSE, FALSE, KernelTable)
        /\ \A i \in Index \ {KernelPde} : dir'[i] = dir[i]
        /\ tables'[KernelTable] = built
        /\ \A t \in TableFrames \ {KernelTable} : tables'[t] = tables[t]
    <2>1. Entry(TRUE, FALSE, FALSE, KernelTable) \in PageEntry
      BY <1>1, EntryTypes
    <2>2. dir \in [Index -> PageEntry] /\ tables \in [TableFrames -> [Index -> PageEntry]]
      BY DEF IInv, TypeOK
    <2> QED
      BY <1>1, <1>2, <1>3, <2>1, <2>2
  <1>5. /\ DOMAIN tlb' \subseteq DOMAIN tlb
        /\ \A v \in DOMAIN tlb' : tlb'[v] = tlb[v] /\ pdindex(v) # KernelPde
    BY <1>2 DEF Keep
  <1>6. TypeOK'
    BY <1>2, <1>4, <1>5 DEF IInv, TypeOK
  <1>7. Ends' /\ Marks'
    BY MarksStay
  <1>8. KernelEntries'
    <2>1. mapped_pdes(linear_pages) \subseteq Index /\ {0, SelfPde} \subseteq Index \ {KernelPde}
      BY Constants DEF mapped_pdes, Index
    <2> QED
      BY <1>4, <2>1 DEF IInv, KernelEntries, linear_pages
  <1>9. SectionsStay'
    BY <1>3, <1>4 DEF SectionsStay, in_memory
  <1>10. \A i \in UserPde : dir'[i] = dir[i]
    BY <1>4, UserEntries
  <1>11. UserTables'
    BY <1>10 DEF IInv, UserTables
  <1>12. LowIsLarge'
    BY <1>5 DEF IInv, LowIsLarge
  <1>13. ASSUME NEW v \in UserPages \cup Index \cup {KernelPage, TestPage, TestPage + 1},
                pdindex(v) # KernelPde
         PROVE  walk(v)' = walk(v)
    <2>1. dir'[pdindex(v)] = dir[pdindex(v)]
      BY <1>4, <1>13, CachedPlaces
    <2>2. ASSUME pdindex(v) \in UserPde, dir[pdindex(v)].present
          PROVE  tables'[dir[pdindex(v)].page] = tables[dir[pdindex(v)].page]
      BY <2>2, <1>4, TablesApart
    <2> QED
      BY <2>1, <2>2, RunningWalk
  <1>14. CachedIsTrue'
    BY <1>2, <1>5, <1>13 DEF IInv, CachedIsTrue, TypeOK
  <1>15. OwnFrames'
    <2>1. \A v \in UserPages : walk(v)' = walk(v)
      BY <1>13, UserPlaces
    <2> QED
      BY <2>1 DEF IInv, OwnFrames
  <1> QED
    BY <1>6, <1>7, <1>8, <1>9, <1>11, <1>12, <1>14, <1>15 DEF IInv

LEMMA PagingTestIInv == IInv /\ PagingTest => IInv'
  <1> SUFFICES ASSUME IInv, PagingTest  PROVE IInv'
    OBVIOUS
  <1> USE DEF PagingTest
  <1> DEFINE pd == pdindex(TestPage)  pt == ptindex(TestPage)
             new == [i \in Index |-> IF i \in {pt, pt + 1} THEN Entry(TRUE, FALSE, FALSE, TestFrame)
                                     ELSE Absent]
             kept == DOMAIN tlb \ flushed(TestPage)
  <1>1. /\ TestTable \in Index /\ TestTable \in TableFrames /\ TestTable \in Nat
        /\ TestTable # DirFrame
    BY PagingAssumption, Constants DEF Index
  <1>2. /\ TestPage \in Nat /\ TestPage + 1 \in Nat
        /\ pd \in UserPde /\ pd \in Index /\ pd \notin {0, KernelPde, SelfPde}
        /\ pd \notin mapped_pdes(linear_pages) /\ pt \in Index
        /\ pdindex(TestPage + 1) = pd /\ ptindex(TestPage + 1) = pt + 1 /\ pt + 1 \in Index
    BY UserPlaces, UserEntries, TestPlaces
  <1>3. /\ tables' = [tables EXCEPT ![TestTable] = new]
        /\ dir' = [dir EXCEPT ![pd] = Entry(TRUE, FALSE, FALSE, TestTable)]
        /\ stale' = stale
        /\ DOMAIN tlb' = kept \cup {TestPage, TestPage + 1}
        /\ \A v \in kept : tlb'[v] = tlb[v]
        /\ \A v \in {TestPage, TestPage + 1} \ kept :
              tlb'[v] = [frame |-> TestFrame, large |-> FALSE]
    BY <1>1, KernelTranslation DEF paging_test
  <1>4. /\ new \in [Index -> PageEntry]
        /\ new[pt] = Entry(TRUE, FALSE, FALSE, TestFrame)
        /\ new[pt + 1] = Entry(TRUE, FALSE, FALSE, TestFrame)
        /\ \A i \in Index \ {pt, pt + 1} : new[i] = Absent
    <2>1. Entry(TRUE, FALSE, FALSE, TestFrame) \in PageEntry /\ Absent \in PageEntry
      BY EntryTypes, Constants
    <2> QED
      BY <1>2, <2>1
  <1> HIDE DEF new
  <1>5. /\ dir' \in [Index -> PageEntry] /\ tables' \in [TableFrames -> [Index -> PageEntry]]
        /\ dir'[pd] = Entry(TRUE, FALSE, FALSE, TestTable)
        /\ \A i \in Index \ {pd} : dir'[i] = dir[i]
        /\ tables'[TestTable] = new
    <2>1. Entry(TRUE, FALSE, FALSE, TestTable) \in PageEntry
      BY <1>1, EntryTypes
    <2>2. dir \in [Index -> PageEntry] /\ tables \in [TableFrames -> [Index -> PageEntry]]
      BY DEF IInv, TypeOK
    <2> HIDE DEF pd
    <2> QED
      BY <1>1, <1>2, <1>3, <1>4, <2>1, <2>2
  <1>6. ~dir[pd].present /\ dir'[pd].present /\ ~dir'[pd].enable4m /\ dir'[pd].page = TestTable
    BY <1>5, AbsentIsNot DEF Entry
  <1>7. \A i \in UserPde : ~dir[i].present
    BY <1>6 DEF IInv, UserTables
  <1>8. TypeOK'
    <2>1. \A v \in DOMAIN tlb' : tlb'[v].frame \in Nat
      BY <1>3, Constants DEF IInv, TypeOK
    <2>2. DOMAIN tlb' \subseteq UserPages \cup Index \cup {KernelPage, TestPage, TestPage + 1}
      BY <1>3 DEF IInv, TypeOK
    <2> QED
      BY <1>3, <1>5, <2>1, <2>2 DEF IInv, TypeOK
  <1>9. Ends' /\ Marks'
    BY MarksStay
  <1>10. KernelEntries' /\ SectionsStay'
    <2>1. mapped_pdes(linear_pages) \subseteq Index /\ {0, KernelPde, SelfPde} \subseteq Index
      BY Constants DEF mapped_pdes, Index
    <2> QED
      BY <1>2, <1>5, <2>1 DEF IInv, KernelEntries, SectionsStay, linear_pages
  <1>11. UserTables'
    <2>1. \A i \in UserPde \ {pd} : ~dir'[i].present
      BY <1>5, <1>7, UserEntries
    <2> QED
      BY <1>1, <1>6, <2>1 DEF UserTables
  <1>12. ASSUME NEW v \in UserPages \cup Index \cup {KernelPage, TestPage, TestPage + 1},
                pdindex(v) # pd
         PROVE  walk(v)' = walk(v)
    <2>1. dir'[pdindex(v)] = dir[pdindex(v)]
      BY <1>5, <1>12, CachedPlaces
    <2> QED
      BY <1>7, <2>1, RunningWalk
  <1>13. \A v \in UserPages \cup {TestPage, TestPage + 1} : pdindex(v) = pd => walk(v) = NoFrame
    BY <1>6 DEF walk
  <1>14. \A v \in {TestPage, TestPage + 1} : walk(v)' = TestFrame
    <2>1. \A i \in {pt, pt + 1} : new[i].present /\ new[i].page = TestFrame
      BY <1>4 DEF Entry
    <2> QED
      BY <1>1, <1>2, <1>5, <1>6, <2>1 DEF walk, table
  <1>15. \A v \in UserPages : pdindex(v) = pd => walk(v)' = NoFrame
    <2> SUFFICES ASSUME NEW v \in UserPages, pdindex(v) = pd  PROVE walk(v)' = NoFrame
      OBVIOUS
    <2>1. v \in Nat /\ ptindex(v) \in Index /\ v # TestPage /\ v # TestPage + 1
      BY UserPlaces, PagesAssumption
    <2>2. ptindex(v) \notin {pt, pt + 1}
      BY <1>2, <2>1, PlacesDiffer
    <2>3. ~new[ptindex(v)].present
      BY <1>4, <2>1, <2>2, AbsentIsNot
    <2> QED
      BY <1>1, <1>5, <1>6, <2>3 DEF walk, table
  <1>16. LowIsLarge'
    <2>1. \A v \in {TestPage, TestPage + 1} : pdindex(v) # 0
      BY <1>2
    <2> QED
      BY <1>3, <2>1 DEF IInv, LowIsLarge
  <1>17. ASSUME NEW v \in DOMAIN tlb \ stale
         PROVE  pdindex(v) # pd /\ tlb[v].frame = walk(v)'
    <2>1. /\ tlb[v].frame = walk(v) /\ tlb[v].frame \in Nat
          /\ v \in UserPages \cup Index \cup {KernelPage, TestPage, TestPage + 1}
      BY DEF IInv, CachedIsTrue, TypeOK
    <2>2. pdindex(v) # pd
      BY <1>2, <1>13, <2>1, LowPlace, KernelPlace DEF NoFrame
    <2> QED
      BY <1>12, <2>1, <2>2
  <1>18. CachedIsTrue'
    <2> SUFFICES ASSUME NEW v \in DOMAIN tlb' \ stale
                 PROVE  tlb'[v].frame = walk(v)'
      BY <1>3 DEF CachedIsTrue
    <2>1. CASE v \in kept
      BY <2>1, <1>3, <1>17
    <2>2. CASE v \in {TestPage, TestPage + 1} \ kept
      BY <2>2, <1>3, <1>14
    <2> QED
      BY <1>3, <2>1, <2>2
  <1>19. OwnFrames'
    <2>1. \A v \in UserPages : walk(v)' = walk(v) \/ walk(v)' = NoFrame
      BY <1>12, <1>15
    <2> QED
      BY <2>1 DEF IInv, OwnFrames
  <1> QED
    BY <1>8, <1>9, <1>10, <1>11, <1>16, <1>18, <1>19 DEF IInv

-----------------------------------------------------------------------------
\* The theorems.

LEMMA NextIInv == WhileIntact /\ [Next]_vars => WhileIntact'
  <1> SUFFICES ASSUME WhileIntact, [Next]_vars  PROVE WhileIntact'
    OBVIOUS
  <1> USE DEF WhileIntact
  <1>0. IInv' => WhileIntact'
    BY DEF IInv
  <1>1. CASE Boot
    <2>1. IInv
      BY <1>1 DEF Boot, FindEnds, FindEndsFaults, InitPaging, InitPhysical, BitmapsMisplaced, InitUnmap0
    <2>2. CASE FindEndsFaults \/ BitmapsMisplaced
      BY <2>2, FaultsTypeOK
    <2>3. CASE InitPhysical
      BY <2>1, <2>3, InitPhysicalTypeOK, InitPhysicalIInv
    <2> QED
      BY <1>0, <1>1, <2>1, <2>2, <2>3, FindEndsIInv, InitPagingIInv, InitUnmap0IInv DEF Boot
  <1>2. CASE \E pd \in {pdindex(v) : v \in UserPages} : Reserve(pd)
    <2>1. IInv
      BY <1>2 DEF Reserve
    <2> QED
      BY <1>0, <1>2, <2>1, ReserveIInv
  <1>3. CASE \E v \in UserPages :
                \/ PageFault(v) \/ PageFaultOutOfMemory(v) \/ PageFaultHalts(v)
                \/ MapDevice(v) \/ MapDeviceFaults(v)
    <2>1. IInv
      BY <1>3 DEF PageFault, PageFaultOutOfMemory, PageFaultHalts, MapDevice, MapDeviceFaults
    <2> QED
      BY <1>0, <1>3, <2>1, PageFaultIInv, PageFaultOutOfMemoryIInv, PageFaultHaltsIInv,
         MapDeviceIInv, MapDeviceFaultsIInv
  <1>4. CASE \E v \in UserPages \cup (boot.info \cap Index) \cup {KernelPage} : CacheTranslation(v)
    <2>1. IInv
      BY <1>4 DEF CacheTranslation
    <2> QED
      BY <1>0, <1>4, <2>1, CacheTranslationIInv
  <1>5. CASE BuildKernelTable \/ PagingTest
    <2>1. IInv
      BY <1>5 DEF BuildKernelTable, PagingTest
    <2> QED
      BY <1>0, <1>5, <2>1, BuildKernelTableIInv, PagingTestIInv
  <1>6. CASE UNCHANGED vars
    <2>1. UNCHANGED <<dir, tables, tlb, stale, boot, pc, memory_end, kernel_static_end,
                      kernel_dynamic_end, marked, lent>>
      BY <1>6 DEF vars
    <2>2. TypeOK'
      BY <2>1 DEF TypeOK
    <2> SUFFICES ASSUME Intact'  PROVE IInv'
      BY <2>2
    <2>5. IInv
      BY <2>1
    <2>3. Ends' /\ Marks'
      BY <2>1, <2>5 DEF IInv, Ends, Marks, Initialised, Frame, DMAPool, DefaultPool, HiMemPool, withheld
    <2>4. KernelEntries' /\ SectionsStay'
      BY <2>1, <2>5 DEF IInv, KernelEntries, SectionsStay, linear_pages, in_memory
    <2> QED
      BY <2>1, <2>5, <2>2, <2>3, <2>4, PagingStays DEF IInv
  <1> QED
    BY <1>1, <1>2, <1>3, <1>4, <1>5, <1>6 DEF Next, Stopped

\* The kernel's own entries, the marks and callers' tables, until the machine resets
\* or something in use is overwritten.
THEOREM Invariance == Spec => []WhileIntact
  <1>1. Init => WhileIntact
    BY InitIInv DEF WhileIntact, IInv
  <1> QED
    BY <1>1, NextIInv, PTL DEF Spec

\* The entries, tables and ends have the types of the C++ declarations.
THEOREM TypeCorrect == Spec => []TypeOK
  <1>1. WhileIntact => TypeOK
    BY DEF WhileIntact
  <1> QED
    BY Invariance, <1>1, PTL

\* Whatever the boot loader says and in whatever order pages fault, no frame of
\* the kernel, of a bitmap or of a reserved region is ever lent.
THEOREM ReservedIsNeverLent == Spec => []ReservedNeverLent
  <1>1. WhileIntact => ReservedNeverLent
    BY InvReserved DEF WhileIntact, ReservedNeverLent, Initialised
  <1> QED
    BY Invariance, <1>1, PTL

\* Wherever the boot loader's data, the kernel and the bitmaps lie, a step of mm::init
\* finds what it reads and writes mapped or the step is not reached, and the two
\* translations agree with the CPU.
THEOREM KernelIsMapped == Spec => []KernelMapping
  <1>1. WhileIntact => KernelMapping
    BY InvMapping DEF WhileIntact, KernelMapping
  <1> QED
    BY Invariance, <1>1, PTL

\* The CPU's cache is never behind the tables but for what map_page changed, and
\* reserved pages do not share frames.
THEOREM PagesStayApart == Spec => []PagesApart
  <1>1. WhileIntact => PagesApart
    BY DEF WhileIntact, IInv, CachedIsTrue, OwnFrames, PagesApart
  <1> QED
    BY Invariance, <1>1, PTL
=============================================================================
