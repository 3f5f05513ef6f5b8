--------------------------- MODULE PhysicalMemory ---------------------------
(***************************************************************************)
(* The physical page-frame allocator, src/physical.cpp: three PhysicalPool *)
(* objects (DMA, Default, HiMem) chained by _fallback, each with a bitmap  *)
(* of one int per frame and a next-fit cursor _prev_idx.                   *)
(*                                                                         *)
(* Addresses are counted in page frames (PAGE_SIZE = 1).  The three        *)
(* bitmaps lie one after the other in memory (linear_alloc in init), so    *)
(* they are one array of words here: a mark written past the end of one    *)
(* pool's bitmap lands where it lands in the program.                      *)
(***************************************************************************)
EXTENDS Integers

CONSTANTS
    DmaPages, DefaultPages, HiMemPages,  \* _num_pageframes of the three pools
    Gap1, Gap2,   \* words that linear_alloc skips between the bitmaps
    Slack,        \* words modelled after the last bitmap
    Reserved,     \* the frames init marks with reserve_range
    Requests,     \* the <<pages, alignment>> pairs callers ask for
    MaxRefs       \* bound: how many holders of one frame are told apart

DMA == 1
DefaultPool == 2
HiMem == 3
Pool == 1 .. 3

_num_pageframes(p) == CASE p = DMA -> DmaPages
                        [] p = DefaultPool -> DefaultPages
                        [] p = HiMem -> HiMemPages

base(p) == CASE p = DMA -> 0
             [] p = DefaultPool -> DmaPages
             [] p = HiMem -> DmaPages + DefaultPages

limit(p) == base(p) + _num_pageframes(p)

\* Where pool p's bitmap starts in the array of words.
_bitmap(p) == CASE p = DMA -> 0
                [] p = DefaultPool -> DmaPages + Gap1
                [] p = HiMem -> DmaPages + Gap1 + DefaultPages + Gap2

Frame == 0 .. (limit(HiMem) - 1)
Word  == 0 .. (_bitmap(HiMem) + HiMemPages + Slack - 1)

\* Addresses a caller can be handed: a run may reach past the last frame.
Address == 0 .. (limit(HiMem) + Slack - 1)

ASSUME SizesAssumption ==
    /\ DmaPages \in Nat /\ DefaultPages \in Nat /\ HiMemPages \in Nat
    /\ Gap1 \in Nat /\ Gap2 \in Nat /\ Slack \in Nat /\ MaxRefs \in Nat

\* init ends with reserve_range(0, kernel_static_end): frame 0 is reserved.
ASSUME ReservedAssumption == 0 \in Reserved /\ Reserved \subseteq Frame

ASSUME RequestsAssumption ==
    \A r \in Requests : /\ r \in (Nat \ {0}) \X (Nat \ {0})
                        /\ r[1] <= Slack

VARIABLES
    words,     \* the memory that holds the three bitmaps
    _prev_idx, \* _prev_idx of each pool
    refs,      \* history: how many holders each frame has
    overrun,   \* history: some allocation ran past the end of its pool
    ret        \* the last allocation request and the address it returned

vars == <<words, _prev_idx, refs, overrun, ret>>

NoRequest == [pool |-> 0, pages |-> 0, align |-> 1, addr |-> 0]

Run(addr, pages) == addr .. (addr + pages - 1)

\* Mutant: the last frame's successor is taken for a frame of the DMA pool.
find_pool_Inclusive(f) == IF f <= limit(DMA) THEN DMA
                          ELSE IF f < limit(DefaultPool) THEN DefaultPool
                          ELSE HiMem

\* find_pool: the pool whose limit is the first above the frame.
find_pool(f) == IF f < limit(DMA) THEN DMA
                ELSE IF f < limit(DefaultPool) THEN DefaultPool
                ELSE HiMem

\* The word of a frame, through find_pool and index_of.
status_word(f) == _bitmap(find_pool(f)) + (f - base(find_pool(f)))

\* Every frame of the pools starts free, then reserve_range marks the frames
\* of the unavailable regions and of the kernel image.
Init == /\ words = [w \in Word |->
                      IF \E f \in Reserved : status_word(f) = w THEN 1 ELSE 0]
        /\ _prev_idx = [p \in Pool |-> 0]
        /\ refs = [f \in Address |-> 0]
        /\ overrun = FALSE
        /\ ret = NoRequest

\* Word read for the j-th page of a run at offset i: the index is taken modulo
\* the size of the pool.
searched(p, i, j) ==
    words[_bitmap(p) + ((_prev_idx[p] + i + j) % _num_pageframes(p))]

Aligned(p, i, align) == (i + _prev_idx[p]) % align = 0

\* Mutants of the search: only the first page of a run is looked at; the
\* alignment is relative to the cursor; the search stops at the pool's end.
Candidates_FirstPage(p, pages, align) ==
    {i \in 0 .. (_num_pageframes(p) - 1) :
        Aligned(p, i, align) /\ searched(p, i, 0) = 0}
Candidates_Relative(p, pages, align) ==
    {i \in 0 .. (_num_pageframes(p) - 1) :
        i % align = 0 /\ \A j \in 0 .. (pages - 1) : searched(p, i, j) = 0}
Candidates_NoWrap(p, pages, align) ==
    {i \in 0 .. (_num_pageframes(p) - _prev_idx[p] - 1) :
        Aligned(p, i, align) /\ \A j \in 0 .. (pages - 1) : searched(p, i, j) = 0}

\* The offsets from the cursor at which the search of pool p succeeds.
Candidates(p, pages, align) ==
    {i \in 0 .. (_num_pageframes(p) - 1) :
        Aligned(p, i, align) /\ \A j \in 0 .. (pages - 1) : searched(p, i, j) = 0}

\* The cursor after a run at idx has been lent.
NextCursor(q, idx, pages) == (idx + pages) % _num_pageframes(q)

\* alloc of pool p, answered by pool q after the pools above q had no room.
\* The marks are written from idx on without the modulo.
AllocFrom(p, q, pages, align) ==
    /\ q <= p
    /\ \A r \in (q + 1) .. p : Candidates(r, pages, align) = {}
    /\ \A f \in Address : refs[f] < MaxRefs
    /\ \E i \in Candidates(q, pages, align) :
         /\ \A k \in Candidates(q, pages, align) : i <= k
         /\ LET idx == (_prev_idx[q] + i) % _num_pageframes(q)
            IN  /\ words' = [w \in Word |->
                              IF w \in Run(_bitmap(q) + idx, pages)
                              THEN 1 ELSE words[w]]
                /\ _prev_idx' = [_prev_idx EXCEPT ![q] = NextCursor(q, idx, pages)]
                /\ refs' = [f \in Address |->
                              IF f \in Run(base(q) + idx, pages)
                              THEN refs[f] + 1 ELSE refs[f]]
                /\ overrun' = (overrun \/ idx + pages > _num_pageframes(q))
                /\ ret' = [pool |-> p, pages |-> pages, align |-> align,
                           addr |-> base(q) + idx]

\* No pool of the chain has room: alloc returns 0.
AllocFails(p, pages, align) ==
    /\ \A r \in 1 .. p : Candidates(r, pages, align) = {}
    /\ ret' = [pool |-> p, pages |-> pages, align |-> align, addr |-> 0]
    /\ UNCHANGED <<words, _prev_idx, refs, overrun>>

\* mm::physical::free of a run the caller holds; frames past the last pool
\* belong to no pool and are skipped.
Free(addr, pages) ==
    /\ \A f \in Run(addr, pages) : f \in Address /\ refs[f] > 0
    /\ words' = [w \in Word |->
                   IF \E f \in Run(addr, pages) : f \in Frame /\ status_word(f) = w
                   THEN 0 ELSE words[w]]
    /\ refs' = [f \in Address |->
                   IF f \in Run(addr, pages) THEN refs[f] - 1 ELSE refs[f]]
    /\ ret' = NoRequest
    /\ UNCHANGED <<_prev_idx, overrun>>

PageCounts == {r[1] : r \in Requests}

Next == \/ \E p \in Pool, r \in Requests :
              \/ \E q \in Pool : AllocFrom(p, q, r[1], r[2])
              \/ AllocFails(p, r[1], r[2])
        \/ \E addr \in Address, pages \in PageCounts : Free(addr, pages)

Spec == Init /\ [][Next]_vars

-----------------------------------------------------------------------------
\* The cursor of a pool stays inside it and every bitmap word is 0 or 1.
TypeOK ==
    /\ words \in [Word -> {0, 1}]
    /\ _prev_idx \in [Pool -> Nat]
    /\ \A p \in Pool : _num_pageframes(p) > 0 => _prev_idx[p] < _num_pageframes(p)
    /\ refs \in [Address -> Nat]
    /\ overrun \in BOOLEAN
    /\ ret \in [pool : 0 .. 3, pages : Nat, align : Nat \ {0}, addr : Nat]

\* No frame is lent twice and no reserved frame is lent, across alloc, free
\* and fallback, until an allocation has run past the end of its pool.
Exclusive ==
    ~overrun => \A f \in Address : /\ refs[f] <= 1
                                   /\ refs[f] = 1 => f \in Frame \ Reserved

\* Until then the bitmaps say exactly which frames are reserved or lent: a
\* frame is neither lost by a fallback or a free, nor free while in use.
BitmapExact ==
    ~overrun => \A f \in Frame :
                   words[status_word(f)] = IF f \in Reserved \/ refs[f] > 0 THEN 1 ELSE 0

DividesPools(align) == \A p \in Pool : _num_pageframes(p) % align = 0

\* The requests that cannot run past the end of a pool: one page, or no more
\* pages than an alignment that divides the size of every pool.
SafeRequest(pages, align) == pages = 1 \/ (pages <= align /\ DividesPools(align))

\* A safe request never runs past the end of its pool, wherever the cursor is when
\* the search wraps and whatever unsafe requests came before.
StaysInPool == [][SafeRequest(ret'.pages, ret'.align) => overrun' = overrun]_vars

\* The address alloc returns is a multiple of the alignment asked for, also
\* after the search has wrapped, if the alignment divides the pools.
AlignedAddress == DividesPools(ret.align) => ret.addr % ret.align = 0

\* alloc returns 0 only if every aligned run of its pool and of the pools it
\* falls back on contains a frame that is reserved or lent.
OutOfMemoryIsReal ==
    (ret.pool # 0 /\ ret.addr = 0 /\ ~overrun /\ DividesPools(ret.align)) =>
        \A q \in 1 .. ret.pool :
           \A idx \in 0 .. (_num_pageframes(q) - ret.pages) :
              idx % ret.align = 0 =>
                 \E f \in Run(base(q) + idx, ret.pages) : f \in Reserved \/ refs[f] > 0

\* What alloc answers: an aligned run, or 0 because there is none.
AnswerIsRight == AlignedAddress /\ OutOfMemoryIsReal

\* mm.h says of alloc_pages_dma and alloc_pages that they "return
\* kernel-accessible virtual addresses": the run lies below kernel_dynamic_end,
\* which is the limit of the Default pool.
KernelAccessible ==
    ret.pool \in {DMA, DefaultPool} => ret.addr + ret.pages <= limit(DefaultPool)

-----------------------------------------------------------------------------
\* The frames lent, as the abstract allocator sees them.
lent == {f \in Address : refs[f] > 0}

PA == INSTANCE PageAllocator WITH Lendable <- Frame \ Reserved, held <- lent

\* Until an allocation runs past its pool, every step of the pools is a step of
\* the abstract allocator: an alloc grants frames nobody holds, a free returns them.
ImplementsPageAllocator == PA!Init /\ [][~overrun' => [PA!Next]_lent]_vars
==============================================================================
