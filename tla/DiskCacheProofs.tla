--------------------------- MODULE DiskCacheProofs ---------------------------
(***************************************************************************)
(* Proof that locked data stays (DiskCache), for any buffers, pages and    *)
(* blocks.                                                                 *)
(***************************************************************************)
EXTENDS DiskCache, TLAPS

-----------------------------------------------------------------------------
\* The inductive invariant.

\* The values of the variables.
Types ==
    /\ made \subseteq Buffer
    /\ _first_block \in [Buffer -> Int] /\ _block_count \in [Buffer -> Nat]
    /\ \A b \in made : _block_count[b] > 0
    /\ _lock_count \in [Buffer -> Nat] /\ held \in [Buffer -> Nat]
    /\ _status \in [Buffer -> {"DCBPresent", "DCBNotPresent"}]
    /\ _buffer \in [Buffer -> Frame \cup {None}]
    /\ lent \subseteq Frame /\ others \subseteq lent
    /\ DOMAIN content = Frame

\* Nothing was done with a buffer that was not made.
Unmade == \A b \in Buffer \ made :
              /\ _buffer[b] = None /\ _status[b] = "DCBNotPresent"
              /\ _lock_count[b] = 0 /\ held[b] = 0

\* A buffer's pages are marked, are nobody else's and no other buffer's.
Owned ==
    \A b \in made : _buffer[b] # None =>
        /\ _buffer[b] \in Pages(b)
        /\ Pages(b) \subseteq lent \ others
        /\ \A c \in made \ {b} : _buffer[c] # None => Pages(b) \cap Pages(c) = {}

\* A buffer that is present has pages, and its blocks are in them.
Loaded ==
    \A b \in made : _status[b] = "DCBPresent" =>
        /\ _buffer[b] # None
        /\ \A f \in Pages(b) : content[f] = _first_block[b] + (f - _buffer[b])

\* The locks of a buffer that no lock() loaded are counted, and such a buffer is
\* present as long as there are any.
Counted ==
    \A b \in made \ loaded :
        /\ _lock_count[b] = held[b] /\ held[b] <= MaxHeld
        /\ held[b] > 0 => _status[b] = "DCBPresent"

Kept == Types /\ Unmade /\ Owned /\ Loaded /\ Counted

\* Until an overrun.
IInv == ~overrun => Kept

LEMMA InvImplies == IInv => LockedDataStays
BY DEF IInv, Kept, Types, Owned, Loaded, Counted, LockedDataStays, locked

\* Nothing is made, locked or lent before the first buffer.
LEMMA InitInv == Init => IInv
BY CountAssumption DEF Init, IInv, Kept, Types, Unmade, Owned, Loaded, Counted, None, Frame

-----------------------------------------------------------------------------
\* Loading.

\* A run that alloc_pages gives was not marked, unless it passes the pool's end:
\* before that the search looks at the pages that it gives.
LEMMA AllocIsFree ==
    ASSUME NEW n \in Nat, NEW f \in Frame \cup {None}, AllocPages(n, f), f # None,
           Run(f, n) \subseteq Frame
    PROVE  Run(f, n) \subseteq Frame \ lent
<1> SUFFICES ASSUME NEW g \in Run(f, n) PROVE g \notin lent
  OBVIOUS
<1>1. g \in 1 .. Frames /\ Frames \in Nat
  BY CountAssumption DEF Frame
<1>2. ((g - 1) % Frames) + 1 = g
  BY <1>1
<1>3. g \in Searched(f, n)
  BY <1>2 DEF Searched
<1> QED BY <1>3 DEF AllocPages, Frame, None

\* Loading that does not overrun the pool stays in it.
LEMMA LoadStays ==
    ASSUME NEW b, NEW f, NEW first, NEW n, NEW ok, Load(b, f, first, n, ok), ~overrun',
           f # None
    PROVE  Run(f, n) \subseteq Frame
BY DEF Load

\* What loading does to a buffer that is not present, when its pages are nobody
\* else's: it owns them, and if the device could be read its blocks are in them.
LEMMA LoadStep ==
    ASSUME Kept, NEW b \in Buffer, NEW f \in Frame \cup {None},
           NEW first \in Int, NEW n \in Nat, NEW ok \in BOOLEAN,
           Load(b, f, first, n, ok),
           _status[b] = "DCBNotPresent",
           made' = made \cup {b}, others' = others,
           _first_block' = [_first_block EXCEPT ![b] = first],
           _block_count' = [_block_count EXCEPT ![b] = n],
           f # None => /\ f \in Run(f, n) /\ Run(f, n) \subseteq Frame \ others
                       /\ \A c \in made \ {b} : _buffer[c] # None =>
                                                    Run(f, n) \cap Pages(c) = {}
    PROVE  /\ _status' \in [Buffer -> {"DCBPresent", "DCBNotPresent"}]
           /\ _buffer' \in [Buffer -> Frame \cup {None}]
           /\ lent' \subseteq Frame /\ others' \subseteq lent'
           /\ DOMAIN content' = Frame
           /\ Owned' /\ Loaded'
<1> USE DEF Kept, Types
<1>1. /\ _buffer' = [_buffer EXCEPT ![b] = f]
      /\ lent' = IF f = None THEN lent ELSE lent \cup (Run(f, n) \cap Frame)
      /\ _status' = [_status EXCEPT ![b] = IF ok THEN "DCBPresent" ELSE @]
  BY DEF Load
<1>2. ok => f # None
  BY DEF Load
<1>3. /\ DOMAIN content' = Frame
      /\ \A g \in Frame : (f = None \/ g \notin Run(f, n)) => content'[g] = content[g]
      /\ ok => \A g \in Run(f, n) \cap Frame : content'[g] = first + (g - f)
  BY DEF Load, Read
<1>4. /\ \A c \in made \ {b} : /\ _buffer'[c] = _buffer[c] /\ Pages(c)' = Pages(c)
                               /\ _status'[c] = _status[c]
                               /\ _first_block'[c] = _first_block[c]
      /\ _buffer'[b] = f /\ Pages(b)' = Run(f, n) /\ _first_block'[b] = first
      /\ _status'[b] = IF ok THEN "DCBPresent" ELSE "DCBNotPresent"
  BY <1>1 DEF Pages
<1>5. Owned'
  <2> SUFFICES ASSUME NEW c \in made', _buffer'[c] # None
               PROVE  /\ _buffer'[c] \in Pages(c)'
                      /\ Pages(c)' \subseteq lent' \ others'
                      /\ \A d \in made' \ {c} : _buffer'[d] # None =>
                                                   Pages(c)' \cap Pages(d)' = {}
    BY DEF Owned
  <2>1. CASE c = b
    BY <2>1, <1>1, <1>4
  <2>2. CASE c # b
    BY <2>2, <1>1, <1>4 DEF Owned
  <2> QED BY <2>1, <2>2
<1>6. Loaded'
  <2> SUFFICES ASSUME NEW c \in made', _status'[c] = "DCBPresent"
               PROVE  /\ _buffer'[c] # None
                      /\ \A g \in Pages(c)' :
                            content'[g] = _first_block'[c] + (g - _buffer'[c])
    BY DEF Loaded
  <2>1. CASE c = b
    BY <2>1, <1>2, <1>3, <1>4
  <2>2. CASE c # b
    <3>1. /\ _buffer[c] # None /\ Pages(c) \subseteq Frame
          /\ \A g \in Pages(c) : content[g] = _first_block[c] + (g - _buffer[c])
      BY <2>2, <1>4 DEF Owned, Loaded
    <3>2. f = None \/ Run(f, n) \cap Pages(c) = {}
      BY <2>2, <3>1
    <3> QED BY <2>2, <1>3, <1>4, <3>1, <3>2
  <2> QED BY <2>1, <2>2
<1> QED BY <1>1, <1>3, <1>5, <1>6

-----------------------------------------------------------------------------
\* Every step keeps the invariant.

LEMMA prepareInv ==
    ASSUME Kept, NEW b \in Buffer, NEW first \in Blocks, NEW n \in 1 .. MaxCount,
           prepare(b, first, n)
    PROVE  Kept'
<1> USE CountAssumption DEF prepare, New
<1>1. Types'
  BY DEF Kept, Types
<1>2. Unmade'
  BY DEF Kept, Unmade
<1>3. _buffer[b] = None /\ _status[b] = "DCBNotPresent"
  BY DEF Kept, Unmade
<1>4. \A c \in made : Pages(c)' = Pages(c) /\ _first_block'[c] = _first_block[c]
  BY DEF Kept, Types, Pages
<1>5. Owned'
  BY <1>3, <1>4 DEF Kept, Owned
<1>6. Loaded'
  BY <1>3, <1>4 DEF Kept, Loaded
<1>7. Counted'
  BY DEF Kept, Unmade, Counted
<1> QED BY <1>1, <1>2, <1>5, <1>6, <1>7 DEF Kept

LEMMA cacheInv ==
    ASSUME Kept, NEW b \in Buffer, NEW first \in Blocks, NEW n \in 1 .. MaxCount,
           NEW f \in Frame \cup {None}, NEW ok \in BOOLEAN, cache(b, first, n, f, ok),
           ~overrun'
    PROVE  Kept'
<1>1. n \in Nat /\ n > 0 /\ first \in Int
  BY CountAssumption
<1>2. New(b, first, n) /\ AllocPages(n, f) /\ Load(b, f, first, n, ok)
  BY DEF cache
<1>3. _status[b] = "DCBNotPresent" /\ _buffer[b] = None
  BY <1>2 DEF Kept, Unmade, New
<1>4. f # None => Run(f, n) \subseteq Frame \ lent
  BY <1>1, <1>2, AllocIsFree, LoadStays
<1>5. f # None => /\ f \in Run(f, n) /\ Run(f, n) \subseteq Frame \ others
                  /\ \A c \in made \ {b} : _buffer[c] # None =>
                                               Run(f, n) \cap Pages(c) = {}
  <2>1. f \in Int
    BY DEF Frame, None
  <2> QED BY <1>1, <1>4, <2>1 DEF Kept, Types, Owned, Run
<1>6. /\ _status' \in [Buffer -> {"DCBPresent", "DCBNotPresent"}]
      /\ _buffer' \in [Buffer -> Frame \cup {None}]
      /\ lent' \subseteq Frame /\ others' \subseteq lent'
      /\ DOMAIN content' = Frame
      /\ Owned' /\ Loaded'
  BY <1>1, <1>2, <1>3, <1>5, LoadStep DEF New
<1>7. Types'
  <2>1. \A c \in made' : _block_count'[c] > 0
    BY <1>1, <1>2 DEF Kept, Types, New
  <2> QED BY <1>1, <1>2, <1>6, <2>1 DEF Kept, Types, New
<1>8. /\ _buffer' = [_buffer EXCEPT ![b] = f]
      /\ _status' = [_status EXCEPT ![b] = IF ok THEN "DCBPresent" ELSE @]
  BY <1>2 DEF Load
<1>9. Unmade'
  BY <1>2, <1>8 DEF Kept, Types, Unmade, New
<1>10. Counted'
  BY <1>2, <1>8, CountAssumption DEF Kept, Types, Unmade, Counted, New
<1> QED BY <1>6, <1>7, <1>9, <1>10 DEF Kept

LEMMA LockPresentInv ==
    ASSUME Kept, NEW b \in Buffer, LockPresent(b)
    PROVE  Kept'
<1> USE DEF LockPresent, Got
<1>1. Types'
  <2>1. (_lock_count[b] + 1) % CountSize \in Nat
    BY CountAssumption DEF Kept, Types
  <2> QED BY <2>1 DEF Kept, Types
<1>2. Unmade'
  BY DEF Kept, Unmade, Types
<1>3. Owned'
  BY DEF Kept, Owned, Pages
<1>4. Loaded'
  BY DEF Kept, Loaded, Pages
<1>5. Counted'
  <2>1. b \in made \ loaded => (_lock_count[b] + 1) % CountSize = held[b] + 1
    BY CountAssumption DEF Kept, Types, Counted
  <2> QED BY <2>1, CountAssumption DEF Kept, Types, Counted
<1> QED BY <1>1, <1>2, <1>3, <1>4, <1>5 DEF Kept

LEMMA LockLoadsInv ==
    ASSUME Kept, NEW b \in Buffer, NEW f \in Frame \cup {None}, NEW ok \in BOOLEAN,
           LockLoads(b, f, ok), ~overrun'
    PROVE  Kept'
<1> DEFINE first == _first_block[b]
           n == _block_count[b]
<1>1. first \in Int /\ n \in Nat
  BY DEF Kept, Types
<1>2. /\ b \in made /\ _status[b] = "DCBNotPresent" /\ Load(b, f, first, n, ok)
      /\ UNCHANGED <<made, _first_block, _block_count, _lock_count, others, high>>
      /\ IF ok THEN Got(b) /\ loaded' = loaded \cup {b} ELSE UNCHANGED <<held, loaded>>
  BY DEF LockLoads
<1>3. f # None => /\ f \in Run(f, n) /\ Run(f, n) \subseteq Frame \ others
                  /\ \A c \in made \ {b} : _buffer[c] # None =>
                                               Run(f, n) \cap Pages(c) = {}
  <2>1. CASE _buffer[b] = None
    <3>1. AllocPages(n, f)
      BY <2>1 DEF LockLoads
    <3> HIDE DEF n
    <3>2. f # None => Run(f, n) \subseteq Frame \ lent
      BY <1>1, <1>2, <3>1, AllocIsFree, LoadStays
    <3>3. n > 0 /\ (f # None => f \in Int)
      BY <1>2 DEF Kept, Types, Frame, n
    <3> QED BY <1>1, <3>2, <3>3 DEF Kept, Types, Owned, Run
  <2>2. CASE _buffer[b] # None
    <3>1. f = _buffer[b] /\ Run(f, n) = Pages(b)
      BY <2>2 DEF LockLoads, Pages
    <3> HIDE DEF n
    <3> QED BY <2>2, <3>1, <1>2 DEF Kept, Types, Owned
  <2> QED BY <2>1, <2>2
<1>4. /\ _status' \in [Buffer -> {"DCBPresent", "DCBNotPresent"}]
      /\ _buffer' \in [Buffer -> Frame \cup {None}]
      /\ lent' \subseteq Frame /\ others' \subseteq lent'
      /\ DOMAIN content' = Frame
      /\ Owned' /\ Loaded'
  <2>1. /\ made' = made \cup {b} /\ others' = others
        /\ _first_block' = [_first_block EXCEPT ![b] = first]
        /\ _block_count' = [_block_count EXCEPT ![b] = n]
    BY <1>2 DEF Kept, Types
  <2>2. _status[b] = "DCBNotPresent" /\ Load(b, f, first, n, ok)
    BY <1>2
  <2> HIDE DEF first, n
  <2> QED BY <1>1, <1>3, <2>1, <2>2, LoadStep
<1>5. Types'
  BY <1>2, <1>4 DEF Kept, Types, Got
<1>6. /\ _buffer' = [_buffer EXCEPT ![b] = f]
      /\ _status' = [_status EXCEPT ![b] = IF ok THEN "DCBPresent" ELSE @]
  BY <1>2 DEF Load
<1>7. Unmade'
  BY <1>2, <1>6 DEF Kept, Types, Unmade, Got
<1>8. Counted'
  BY <1>2, <1>6 DEF Kept, Types, Counted, Got
<1> QED BY <1>4, <1>5, <1>7, <1>8 DEF Kept

LEMMA unlockInv ==
    ASSUME Kept, NEW b \in Buffer, unlock(b)
    PROVE  Kept'
<1> USE DEF unlock
<1>1. Types'
  <2>1. (_lock_count[b] - 1) % CountSize \in Nat
    BY CountAssumption DEF Kept, Types
  <2> QED BY <2>1 DEF Kept, Types
<1>2. Unmade'
  BY DEF Kept, Unmade, Types
<1>3. Owned'
  BY DEF Kept, Owned, Pages
<1>4. Loaded'
  BY DEF Kept, Loaded, Pages
<1>5. Counted'
  <2>1. b \in made \ loaded => (_lock_count[b] - 1) % CountSize = held[b] - 1
    BY CountAssumption DEF Kept, Types, Counted
  <2> QED BY <2>1, CountAssumption DEF Kept, Types, Counted
<1> QED BY <1>1, <1>2, <1>3, <1>4, <1>5 DEF Kept

\* free() takes one page, a buffer's own, and none of a buffer that is held.
LEMMA freeInv ==
    ASSUME Kept, NEW b \in Buffer, free(b)
    PROVE  Kept'
<1> USE DEF free
<1>1. /\ b \in made /\ made' = made /\ others' = others /\ content' = content
      /\ lent' = lent \ {_buffer[b]}
      /\ \A c \in made \ {b} : /\ _buffer'[c] = _buffer[c] /\ Pages(c)' = Pages(c)
                               /\ _status'[c] = _status[c]
                               /\ _first_block'[c] = _first_block[c]
      /\ _buffer'[b] = None /\ _status'[b] = "DCBNotPresent"
  BY DEF Kept, Types, Pages
<1>2. /\ _buffer[b] \notin others
      /\ \A c \in made \ {b} : _buffer[c] # None => _buffer[b] \notin Pages(c)
  <2>1. None \notin Frame
    BY DEF None, Frame
  <2> QED BY <1>1, <2>1 DEF Kept, Types, Owned
<1>3. Types'
  BY <1>2 DEF Kept, Types
<1>4. Unmade'
  BY DEF Kept, Types, Unmade
<1>5. Owned'
  BY <1>1, <1>2 DEF Kept, Owned
<1>6. Loaded'
  BY <1>1 DEF Kept, Loaded
<1>7. Counted'
  <2>1. b \in made \ loaded => held[b] = 0
    BY DEF Kept, Types, Counted, locked
  <2> QED BY <1>1, <2>1 DEF Kept, Types, Counted
<1> QED BY <1>3, <1>4, <1>5, <1>6, <1>7 DEF Kept

\* Other code gets pages that are not marked and frees pages that are its own.
LEMMA OtherInv ==
    ASSUME Kept, NEW f \in Frame, OtherAlloc(f) \/ OtherFree(f)
    PROVE  Kept'
<1> USE DEF OtherAlloc, OtherFree
<1>1. /\ UNCHANGED <<made, _first_block, _block_count, _lock_count, _status, _buffer,
                     held, loaded>>
      /\ \A b \in Buffer : Pages(b)' = Pages(b)
  BY DEF Pages
<1>2. \A b \in made : _buffer[b] # None => f \notin Pages(b)
  BY DEF Kept, Types, Owned
<1>3. \A g \in Frame \ {f} : content'[g] = content[g]
  BY DEF Kept, Types
<1>4. Types'
  BY <1>1 DEF Kept, Types
<1>5. Unmade'
  BY <1>1 DEF Kept, Unmade
<1>6. Owned'
  BY <1>1, <1>2 DEF Kept, Types, Owned
<1>7. Loaded'
  BY <1>1, <1>2, <1>3 DEF Kept, Types, Owned, Loaded
<1>8. Counted'
  BY <1>1 DEF Kept, Counted
<1> QED BY <1>4, <1>5, <1>6, <1>7, <1>8 DEF Kept

-----------------------------------------------------------------------------
LEMMA NextInv == IInv /\ [Next]_vars => IInv'
<1> SUFFICES ASSUME IInv, [Next]_vars, ~overrun' PROVE Kept'
  BY DEF IInv
<1>1. CASE ~overrun /\ Step
  <2>1. Kept
    BY <1>1 DEF IInv
  <2>2. CASE \E b \in Buffer, first \in Blocks, n \in 1 .. MaxCount :
                \/ prepare(b, first, n)
                \/ \E f \in Frame \cup {None}, ok \in BOOLEAN : cache(b, first, n, f, ok)
    BY <2>1, <2>2, prepareInv, cacheInv
  <2>3. CASE \E b \in Buffer :
                \/ LockPresent(b) \/ unlock(b) \/ free(b)
                \/ \E f \in Frame \cup {None}, ok \in BOOLEAN : LockLoads(b, f, ok)
    BY <2>1, <2>3, LockPresentInv, unlockInv, freeInv, LockLoadsInv
  <2>4. CASE \E f \in Frame : OtherAlloc(f) \/ OtherFree(f)
    BY <2>1, <2>4, OtherInv
  <2> QED BY <1>1, <2>2, <2>3, <2>4 DEF Step
<1>2. CASE UNCHANGED vars
  BY <1>2 DEF vars, IInv, Kept, Types, Unmade, Owned, Loaded, Counted, Pages
<1> QED BY <1>1, <1>2 DEF Next, Lost

\* The invariant holds in every reachable state.
THEOREM Invariance == Spec => []IInv
BY InitInv, NextInv, PTL DEF Spec

\* DiskCacheBlock::lock, unlock and free: the data of a locked buffer is where
\* it was and nobody else's, however often and in whatever order buffers are
\* locked, unlocked and freed and pages are allocated, with any failures of the
\* device and of alloc_pages, until a run of pages passes the end of the pool.
THEOREM LockedDataIsKept == Spec => []LockedDataStays
BY InvImplies, Invariance, PTL
==============================================================================
