------------------------------ MODULE DiskCache ------------------------------
(***************************************************************************)
(* The disk cache (src/diskcacheimpl.cpp): buffers of blocks that callers  *)
(* lock, unlock and free, over the page allocator and a block device.  The *)
(* map _cache is searched but nothing is ever put in, so that prepare and  *)
(* cache make a new buffer each time.  A block fills a page.               *)
(***************************************************************************)
EXTENDS Integers, FiniteSets

CONSTANTS
    Buffer,      \* bound: the buffers that may be made
    Frames,      \* pages of the pool that alloc_pages serves; one stands for them all
    Blocks,      \* blocks of the device
    MaxCount,    \* bound: blocks of a buffer
    CountSize,   \* 2^32: the values of _lock_count
    MaxHeld      \* bound: locks a caller holds of a buffer

\* A caller returns its locks before the count of all of them wraps.
ASSUME CountAssumption ==
    /\ Frames \in Nat /\ MaxCount \in Nat /\ Blocks \subseteq Nat
    /\ MaxHeld \in Nat /\ CountSize \in Nat /\ MaxHeld < CountSize

None == 0        \* no buffer: a null _buffer
Frame == 1 .. Frames

VARIABLES
    made,          \* the buffers made so far
    _first_block, _block_count, _lock_count, _status,
    _buffer,       \* the first page of a buffer's data
    lent,          \* the pages that the allocator has marked
    content,       \* what is in a page: a block, or "other"
    others,        \* the pages that other callers of the allocator hold
    high,          \* whether the page at 1 GiB, high memory, is marked
    held,          \* history: locks that a caller has not returned
    loaded,        \* history: the buffers that a lock() loaded
    overrun        \* history: a run was given that passes the pool's end

vars == <<made, _first_block, _block_count, _lock_count, _status, _buffer,
          lent, content, others, high, held, loaded,
          overrun>>

Init == /\ made = {}
        /\ _first_block = [b \in Buffer |-> 0] /\ _block_count = [b \in Buffer |-> 0]
        /\ _lock_count = [b \in Buffer |-> 0]
        /\ _status = [b \in Buffer |-> "DCBNotPresent"]
        /\ _buffer = [b \in Buffer |-> None]
        /\ lent = {} /\ content = [f \in Frame |-> "other"] /\ others = {}
        /\ high \in BOOLEAN
        /\ held = [b \in Buffer |-> 0] /\ loaded = {} /\ overrun = FALSE

Run(f, n) == f .. (f + n - 1)

\* What the search of a run looks at, with its index taken modulo the pool's size.
Searched(f, n) == {((g - 1) % Frames) + 1 : g \in Run(f, n)}

\* mm::alloc_pages: a run of pages, or null if none is found.  The run is marked
\* and returned without the modulus (see PhysicalMemory): it may pass the end.
AllocPages(n, f) == \/ f \in Frame /\ Searched(f, n) \cap lent = {}
                    \/ f = None /\ \A g \in Frame : Searched(g, n) \cap lent # {}

\* IBlockDevice::read: the blocks, or a failure with anything in the pages.
Read(f, first, n, ok) ==
    content' = [g \in Frame |-> IF g \notin Run(f, n) THEN content[g]
                                ELSE IF ok THEN first + (g - f) ELSE "other"]

\* Pages f are the buffer's, if there are any, and the blocks are read.
Load(b, f, first, n, ok) ==
    /\ lent' = IF f = None THEN lent ELSE lent \cup (Run(f, n) \cap Frame)
    /\ overrun' = (f # None /\ ~(Run(f, n) \subseteq Frame))
    /\ _buffer' = [_buffer EXCEPT ![b] = f]
    /\ IF f = None THEN ~ok /\ UNCHANGED content ELSE Read(f, first, n, ok)
    /\ _status' = [_status EXCEPT ![b] = IF ok THEN "DCBPresent" ELSE @]

New(b, first, n) ==
    /\ b \notin made /\ made' = made \cup {b}
    /\ first + n - 1 \in Blocks
    /\ _first_block' = [_first_block EXCEPT ![b] = first]
    /\ _block_count' = [_block_count EXCEPT ![b] = n]
    /\ UNCHANGED <<_lock_count, others, high, held, loaded>>

\* DiskCache::prepare: a buffer that is not loaded.
prepare(b, first, n) == New(b, first, n) /\ UNCHANGED <<_buffer, _status, lent, content, overrun>>

\* DiskCache::cache: a buffer that is loaded, if there are pages and the device
\* can be read.
cache(b, first, n, f, ok) == /\ New(b, first, n)
                             /\ AllocPages(n, f)
                             /\ Load(b, f, first, n, ok)

\* A caller that gets the data holds a lock.
Got(b) == held' = [held EXCEPT ![b] = @ + 1]

\* lock() of a buffer that is present.
LockPresent(b) ==
    /\ b \in made /\ _status[b] = "DCBPresent" /\ held[b] < MaxHeld
    /\ _lock_count' = [_lock_count EXCEPT ![b] = (@ + 1) % CountSize]
    /\ Got(b)
    /\ UNCHANGED <<made, _first_block, _block_count, _status, _buffer, lent,
                   content, others, high, loaded, overrun>>

\* lock() of a buffer that is not: it is loaded and the count stays as it is.
LockLoads(b, f, ok) ==
    /\ b \in made /\ _status[b] = "DCBNotPresent" /\ held[b] < MaxHeld
    /\ IF _buffer[b] = None THEN AllocPages(_block_count[b], f) ELSE f = _buffer[b]
    /\ Load(b, f, _first_block[b], _block_count[b], ok)
    /\ IF ok THEN Got(b) /\ loaded' = loaded \cup {b} ELSE UNCHANGED <<held, loaded>>
    /\ UNCHANGED <<made, _first_block, _block_count, _lock_count, others, high>>

\* unlock(), once for every lock() that gave the data.
unlock(b) ==
    /\ held[b] > 0
    /\ held' = [held EXCEPT ![b] = @ - 1]
    /\ _lock_count' = [_lock_count EXCEPT ![b] = (@ - 1) % CountSize]
    /\ UNCHANGED <<made, _first_block, _block_count, _status, _buffer, lent,
                   content, others, high, loaded, overrun>>

\* Mutant: one lock is not enough to keep the buffer.
locked_Twice(b) == _lock_count[b] > 1

locked(b) == _lock_count[b] > 0

\* free(): mm::free_pages of one page, whatever the buffer's length; a null
\* pointer is page 1 GiB, less KERNEL_VIRTUAL_BASE.
free(b) ==
    /\ b \in made /\ ~locked(b)
    /\ lent' = lent \ {_buffer[b]}
    /\ high' = (high /\ _buffer[b] # None)
    /\ _buffer' = [_buffer EXCEPT ![b] = None]
    /\ _status' = [_status EXCEPT ![b] = "DCBNotPresent"]
    /\ UNCHANGED <<made, _first_block, _block_count, _lock_count, content, others,
                   held, loaded, overrun>>

\* Other code allocates a page, writes to it and frees it.
OtherAlloc(f) == /\ f \in Frame \ lent
                 /\ lent' = lent \cup {f} /\ others' = others \cup {f}
                 /\ content' = [content EXCEPT ![f] = "other"]
                 /\ UNCHANGED <<made, _first_block, _block_count, _lock_count,
                                _status, _buffer, high, held, loaded, overrun>>

OtherFree(f) == /\ f \in others
                /\ lent' = lent \ {f} /\ others' = others \ {f}
                /\ UNCHANGED <<made, _first_block, _block_count, _lock_count,
                               _status, _buffer, content, high, held, loaded, overrun>>

Step == \/ \E b \in Buffer, first \in Blocks, n \in 1 .. MaxCount :
              \/ prepare(b, first, n)
              \/ \E f \in Frame \cup {None}, ok \in BOOLEAN : cache(b, first, n, f, ok)
        \/ \E b \in Buffer :
              \/ LockPresent(b) \/ unlock(b) \/ free(b)
              \/ \E f \in Frame \cup {None}, ok \in BOOLEAN : LockLoads(b, f, ok)
        \/ \E f \in Frame : OtherAlloc(f) \/ OtherFree(f)

\* After an overrun frames have two holders and the bitmaps of two pools are wrong:
\* nothing more is said.
Lost == overrun /\ UNCHANGED vars

Next == (~overrun /\ Step) \/ Lost

Spec == Init /\ [][Next]_vars

-----------------------------------------------------------------------------
Pages(b) == Run(_buffer[b], _block_count[b])

\* The pages of a buffer are lent to nobody else while it has them, and a buffer
\* that callers hold locked keeps them, with its blocks in them, whatever else is
\* locked, freed and allocated.  The code gives this only until an overrun of the
\* pool, and the second only for buffers that no lock() loaded: a lock that loads
\* does not count (diskcacheimpl.cpp:75), and free() takes the pages from its
\* holder.  A buffer that nobody holds, and no lock() loaded, can be freed.
LockedDataStays ==
    ~overrun =>
        /\ \A b \in made : _buffer[b] # None =>
              /\ Pages(b) \subseteq lent \ others
              /\ \A c \in made \ {b} : _buffer[c] # None => Pages(b) \cap Pages(c) = {}
        /\ \A b \in made \ loaded :
              IF held[b] > 0
              THEN /\ _buffer[b] # None
                   /\ \A f \in Pages(b) : content[f] = _first_block[b] + (f - _buffer[b])
              ELSE ~locked(b)
==============================================================================
