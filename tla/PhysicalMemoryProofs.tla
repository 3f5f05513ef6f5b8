------------------------ MODULE PhysicalMemoryProofs ------------------------
(***************************************************************************)
(* Proofs about PhysicalMemory for every size of the pools, every set of   *)
(* reserved frames that contains frame 0, and every set of requests.       *)
(***************************************************************************)
EXTENDS PhysicalMemory, TLAPS

-----------------------------------------------------------------------------
\* Arithmetic of the cursor.

\* An index below the size of the pool is its own residue.
LEMMA ModSmall ==
    ASSUME NEW a \in Nat, NEW n \in Nat, a < n
    PROVE  a % n = a
  OBVIOUS

\* The search wraps around a pool at most once.
LEMMA ModWrap ==
    ASSUME NEW a \in Nat, NEW n \in Nat, a >= n, a < n + n
    PROVE  a % n = a - n
  OBVIOUS

\* A residue is an index of the pool.
LEMMA ModRange ==
    ASSUME NEW a \in Nat, NEW n \in Nat \ {0}
    PROVE  a % n \in 0 .. (n - 1)
  OBVIOUS

\* A multiple of d is d times its quotient.
LEMMA Quotient ==
    ASSUME NEW a \in Nat, NEW d \in Nat \ {0}, a % d = 0
    PROVE  a \div d \in Nat /\ a = d * (a \div d)
  OBVIOUS

\* d times anything is a multiple of d.
LEMMA Multiple ==
    ASSUME NEW k \in Nat, NEW d \in Nat \ {0}
    PROVE  (d * k) % d = 0
  OBVIOUS

\* Two different multiples of d are at least d apart.
LEMMA MultiplesApart ==
    ASSUME NEW a \in Nat, NEW d \in Nat \ {0}, NEW n \in Nat,
           a % d = 0, n % d = 0, a < n
    PROVE  a + d <= n
  <1>1. ASSUME NEW x \in Nat, NEW y \in Nat, d * x < d * y
        PROVE  d * x + d <= d * y
    <2>1. x + 1 <= y  BY <1>1
    <2>2. d * (x + 1) <= d * y  BY <2>1
    <2>3. d * (x + 1) = d * x + d  OBVIOUS
    <2> QED  BY <2>2, <2>3
  <1> QED  BY <1>1, Quotient, Quotient

\* The difference of two multiples of d is a multiple of d.
LEMMA MultiplesDifference ==
    ASSUME NEW a \in Nat, NEW d \in Nat \ {0}, NEW n \in Nat,
           a % d = 0, n % d = 0, a >= n
    PROVE  (a - n) % d = 0
  <1> DEFINE k == a \div d
             m == n \div d
  <1>1. k \in Nat /\ m \in Nat /\ a = d * k /\ n = d * m  BY Quotient
  <1> HIDE DEF k, m
  <1>2. a - n = d * (k - m)  BY <1>1
  <1>3. k - m \in Nat  BY <1>1
  <1> QED  BY <1>2, <1>3, Multiple

-----------------------------------------------------------------------------
\* Pools, frames and words.

\* Sizes, bases and bitmap positions are natural numbers.
LEMMA PoolTypes ==
    ASSUME NEW p \in Pool
    PROVE  /\ _num_pageframes(p) \in Nat
           /\ base(p) \in Nat
           /\ _bitmap(p) \in Nat
  BY SizesAssumption
  DEF Pool, _num_pageframes, base, _bitmap, DMA, DefaultPool, HiMem

\* address_of and find_pool/index_of are inverse to each other: the word of
\* the idx-th frame of pool p is word idx of p's bitmap.
LEMMA WordOfFrame ==
    ASSUME NEW p \in Pool, NEW idx \in Nat, idx < _num_pageframes(p)
    PROVE  /\ base(p) + idx \in Frame
           /\ status_word(base(p) + idx) = _bitmap(p) + idx
  BY SizesAssumption
  DEF Pool, _num_pageframes, base, _bitmap, DMA, DefaultPool, HiMem, Frame,
      limit, status_word, find_pool

\* Two frames never share a word.
LEMMA WordInjective ==
    ASSUME NEW f \in Frame, NEW g \in Frame, status_word(f) = status_word(g)
    PROVE  f = g
  BY SizesAssumption
  DEF _num_pageframes, base, _bitmap, DMA, DefaultPool, HiMem, Frame,
      limit, status_word, find_pool

\* The word of a frame is one of the modelled words, the frame an address.
LEMMA WordOfFrameType ==
    ASSUME NEW f \in Frame
    PROVE  status_word(f) \in Word /\ f \in Address
  BY SizesAssumption
  DEF _num_pageframes, base, _bitmap, DMA, DefaultPool, HiMem, Frame, Word,
      Address, limit, status_word, find_pool

\* Where a search that succeeds at offset i puts its run: idx is an index of
\* the pool, and if the run does not reach past the end, all of it was free.
LEMMA FoundRun ==
    ASSUME TypeOK, NEW q \in Pool, NEW pages \in Nat \ {0},
           NEW align \in Nat \ {0}, NEW i \in Candidates(q, pages, align),
           NEW idx, idx = (_prev_idx[q] + i) % _num_pageframes(q)
    PROVE  /\ _num_pageframes(q) \in Nat \ {0}
           /\ idx \in 0 .. (_num_pageframes(q) - 1)
           /\ idx + pages <= _num_pageframes(q) =>
                 \A j \in 0 .. (pages - 1) : words[_bitmap(q) + idx + j] = 0
           /\ _num_pageframes(q) % align = 0 => idx % align = 0
  <1> DEFINE N == _num_pageframes(q)
             c == _prev_idx[q]
             s == c + i
             B == _bitmap(q)
  <1>1. /\ i \in 0 .. (N - 1)
        /\ (i + c) % align = 0
        /\ \A j \in 0 .. (pages - 1) : words[B + ((c + i + j) % N)] = 0
    BY DEF Candidates, searched, Aligned
  <1>2. N \in Nat \ {0} /\ c \in Nat /\ c < N /\ B \in Nat
    BY <1>1, PoolTypes DEF TypeOK
  <1>3. s \in Nat /\ s < N + N /\ s % align = 0
    <2>1. s = i + c  BY <1>1, <1>2
    <2> QED  BY <2>1, <1>1, <1>2
  <1>4. \A j \in 0 .. (pages - 1) : words[B + ((s + j) % N)] = 0
    BY <1>1
  <1>5. idx = s % N  OBVIOUS
  <1> HIDE DEF N, c, s, B
  <1>6. idx \in 0 .. (N - 1) /\ (idx = s \/ (s >= N /\ idx = s - N))
    <2>1. CASE s < N
      <3>1. s % N = s  BY <2>1, <1>2, <1>3, ModSmall
      <3> QED  BY <3>1, <2>1, <1>3, <1>5, <1>2
    <2>2. CASE s >= N
      <3>1. s % N = s - N  BY <2>2, <1>2, <1>3, ModWrap
      <3> QED  BY <3>1, <2>2, <1>3, <1>5, <1>2
    <2> QED  BY <2>1, <2>2, <1>2, <1>3
  <1>7. ASSUME idx + pages <= N, NEW j \in 0 .. (pages - 1)
        PROVE  words[B + idx + j] = 0
    <2>1. idx + j \in Nat /\ idx + j < N  BY <1>2, <1>6, <1>7
    <2>2. (s + j) % N = idx + j
      <3>1. CASE idx = s
        BY <3>1, <2>1, <1>2, ModSmall
      <3>2. CASE s >= N /\ idx = s - N
        <4> DEFINE t == s + j
        <4>1. t \in Nat /\ t >= N /\ t < N + N /\ t - N = idx + j
          BY <3>2, <2>1, <1>2, <1>3
        <4> HIDE DEF t
        <4>2. t % N = t - N  BY <4>1, <1>2, ModWrap
        <4> QED  BY <4>1, <4>2 DEF t
      <3> QED  BY <3>1, <3>2, <1>6
    <2>3. B + idx + j = B + (idx + j)  BY <1>2, <1>6
    <2> QED  BY <2>2, <2>3, <1>4
  <1>8. ASSUME N % align = 0
        PROVE  idx % align = 0
    <2>1. CASE idx = s  BY <2>1, <1>3
    <2>2. CASE s >= N /\ idx = s - N
      <3>1. (s - N) % align = 0
        BY <2>2, <1>2, <1>3, <1>8, MultiplesDifference
      <3> QED  BY <3>1, <2>2
    <2> QED  BY <2>1, <2>2, <1>6
  <1> QED  BY <1>2, <1>6, <1>7, <1>8 DEF N, B

-----------------------------------------------------------------------------
\* The invariant that is inductive: exclusiveness follows from what the search
\* finds only because the bitmaps are exact.
IInv == TypeOK /\ Exclusive /\ BitmapExact

\* The initial bitmaps mark the reserved frames and no others.
LEMMA InitIInv == Init => IInv
  <1> SUFFICES ASSUME Init PROVE IInv  OBVIOUS
  <1>1. TypeOK
    <2>1. words \in [Word -> {0, 1}]  BY DEF Init
    <2>2. /\ _prev_idx \in [Pool -> Nat]
          /\ \A p \in Pool :
                _num_pageframes(p) > 0 => _prev_idx[p] < _num_pageframes(p)
      BY DEF Init
    <2>3. refs \in [Address -> Nat] /\ overrun \in BOOLEAN  BY DEF Init
    <2>4. ret \in [pool : 0 .. 3, pages : Nat, align : Nat \ {0}, addr : Nat]
      BY DEF Init, NoRequest
    <2> QED  BY <2>1, <2>2, <2>3, <2>4 DEF TypeOK
  <1>2. Exclusive
    BY WordOfFrameType DEF Init, Exclusive
  <1>3. BitmapExact
    <2> SUFFICES ASSUME NEW f \in Frame
                 PROVE  words[status_word(f)] =
                          IF f \in Reserved \/ refs[f] > 0 THEN 1 ELSE 0
      BY DEF BitmapExact
    <2>1. refs[f] = 0  BY WordOfFrameType DEF Init
    <2>2. words[status_word(f)] =
            IF \E g \in Reserved : status_word(g) = status_word(f) THEN 1 ELSE 0
      BY WordOfFrameType DEF Init
    <2>3. (\E g \in Reserved : status_word(g) = status_word(f)) <=> f \in Reserved
      BY WordInjective, ReservedAssumption
    <2> QED  BY <2>1, <2>2, <2>3
  <1> QED  BY <1>1, <1>2, <1>3 DEF IInv

\* A request is a positive number of pages with a positive alignment.
LEMMA RequestTypes ==
    ASSUME NEW r \in Requests
    PROVE  r[1] \in Nat \ {0} /\ r[2] \in Nat \ {0} /\ r[1] <= Slack
  BY RequestsAssumption

\* An allocation answered by pool q marks a run that was free.
LEMMA AllocFromIInv ==
    ASSUME IInv, NEW p \in Pool, NEW q \in Pool, NEW r \in Requests,
           AllocFrom(p, q, r[1], r[2])
    PROVE  IInv'
  <1> DEFINE pages == r[1]
             align == r[2]
             N == _num_pageframes(q)
             b == base(q)
             m == _bitmap(q)
  <1>1. pages \in Nat \ {0} /\ align \in Nat \ {0}  BY RequestTypes
  <1>2. N \in Nat /\ b \in Nat /\ m \in Nat  BY PoolTypes
  <1>3. PICK i \in Candidates(q, pages, align) :
          LET idx == (_prev_idx[q] + i) % N
          IN  /\ words' = [w \in Word |->
                            IF w \in Run(m + idx, pages) THEN 1 ELSE words[w]]
              /\ _prev_idx' = [_prev_idx EXCEPT ![q] = (idx + pages) % N]
              /\ refs' = [f \in Address |->
                            IF f \in Run(b + idx, pages)
                            THEN refs[f] + 1 ELSE refs[f]]
              /\ overrun' = (overrun \/ idx + pages > N)
              /\ ret' = [pool |-> p, pages |-> pages, align |-> align,
                         addr |-> b + idx]
    BY DEF AllocFrom, NextCursor
  <1> DEFINE idx == (_prev_idx[q] + i) % N
  <1>4. /\ N \in Nat \ {0}
        /\ idx \in 0 .. (N - 1)
        /\ idx + pages <= N => \A j \in 0 .. (pages - 1) : words[m + idx + j] = 0
    BY <1>1, FoundRun DEF IInv
  <1>5. /\ words' = [w \in Word |->
                       IF w \in Run(m + idx, pages) THEN 1 ELSE words[w]]
        /\ _prev_idx' = [_prev_idx EXCEPT ![q] = (idx + pages) % N]
        /\ refs' = [f \in Address |->
                       IF f \in Run(b + idx, pages)
                       THEN refs[f] + 1 ELSE refs[f]]
        /\ overrun' = (overrun \/ idx + pages > N)
        /\ ret' = [pool |-> p, pages |-> pages, align |-> align, addr |-> b + idx]
    BY <1>3
  <1>6. N = _num_pageframes(q)  OBVIOUS
  <1> DEFINE M == (idx + pages) % N
  <1>7. M \in Nat /\ M < N
    BY <1>1, <1>4, ModRange
  <1> HIDE DEF idx, M
  <1>8. TypeOK'
    <2>1. words' \in [Word -> {0, 1}]  BY <1>5 DEF IInv, TypeOK
    <2>2. /\ _prev_idx' \in [Pool -> Nat]
          /\ \A s \in Pool :
                _num_pageframes(s) > 0 => _prev_idx'[s] < _num_pageframes(s)
      BY <1>5, <1>7 DEF IInv, TypeOK, M
    <2>3. refs' \in [Address -> Nat]  BY <1>5 DEF IInv, TypeOK
    <2>4. overrun' \in BOOLEAN  BY <1>5 DEF IInv, TypeOK
    <2>5. ret' \in [pool : 0 .. 3, pages : Nat, align : Nat \ {0}, addr : Nat]
      BY <1>1, <1>2, <1>4, <1>5 DEF Pool
    <2> QED  BY <2>1, <2>2, <2>3, <2>4, <2>5 DEF TypeOK
  \* The frames of a run inside the pool were neither reserved nor lent.
  <1>9. ASSUME ~overrun', NEW f \in Run(b + idx, pages)
        PROVE  /\ f \in Frame /\ f \notin Reserved /\ refs[f] = 0
               /\ status_word(f) = m + (f - b)
    <2>1. ~overrun /\ idx + pages <= N
      <3>1. ~(overrun \/ idx + pages > N)  BY <1>5, <1>9
      <3> QED  BY <3>1, <1>1, <1>4
    <2> DEFINE k == f - b
    <2>2. k \in Nat /\ k < N /\ f = b + k /\ k - idx \in 0 .. (pages - 1)
      BY <2>1, <1>1, <1>2, <1>4, <1>9 DEF Run
    <2> HIDE DEF k
    <2>3. f \in Frame /\ status_word(f) = m + k
      BY <2>2, WordOfFrame
    <2>4. words[m + k] = 0
      <3>1. words[m + idx + (k - idx)] = 0  BY <2>1, <2>2, <1>4
      <3>2. m + idx + (k - idx) = m + k  BY <2>2, <1>2, <1>4
      <3> QED  BY <3>1, <3>2
    <2>5. f \notin Reserved /\ ~(refs[f] > 0)
      BY <2>1, <2>3, <2>4 DEF IInv, BitmapExact
    <2>6. refs[f] \in Nat  BY <2>3, WordOfFrameType DEF IInv, TypeOK
    <2> QED  BY <2>3, <2>5, <2>6 DEF k
  <1>10. Exclusive'
    <2> SUFFICES ASSUME ~overrun', NEW f \in Address
                 PROVE  refs'[f] <= 1 /\ (refs'[f] = 1 => f \in Frame \ Reserved)
      BY DEF Exclusive
    <2>1. CASE f \in Run(b + idx, pages)  BY <2>1, <1>5, <1>9
    <2>2. CASE f \notin Run(b + idx, pages)
      <3>1. ~overrun /\ refs'[f] = refs[f]  BY <2>2, <1>5
      <3> QED  BY <3>1 DEF IInv, Exclusive
    <2> QED  BY <2>1, <2>2
  <1>11. BitmapExact'
    <2> SUFFICES ASSUME ~overrun', NEW f \in Frame
                 PROVE  words'[status_word(f)] =
                          IF f \in Reserved \/ refs'[f] > 0 THEN 1 ELSE 0
      BY DEF BitmapExact
    <2>1. status_word(f) \in Word /\ f \in Address  BY WordOfFrameType
    <2>2. CASE f \in Run(b + idx, pages)
      <3>1. status_word(f) \in Run(m + idx, pages)
        BY <2>2, <1>1, <1>2, <1>4, <1>9 DEF Run
      <3>2. refs'[f] = 1  BY <2>1, <2>2, <1>5, <1>9
      <3> QED  BY <3>1, <3>2, <2>1, <1>5
    <2>3. CASE f \notin Run(b + idx, pages)
      <3>1. status_word(f) \notin Run(m + idx, pages)
        <4> SUFFICES ASSUME status_word(f) \in Run(m + idx, pages) PROVE FALSE
          OBVIOUS
        <4> DEFINE g == b + (status_word(f) - m)
        <4>1. g \in Run(b + idx, pages) /\ status_word(f) = m + (g - b)
          BY <1>1, <1>2, <1>4 DEF Run
        <4> HIDE DEF g
        <4>2. g \in Frame /\ status_word(g) = status_word(f)  BY <4>1, <1>9
        <4> QED  BY <4>1, <4>2, <2>3, WordInjective
      <3>2. words'[status_word(f)] = words[status_word(f)] /\ refs'[f] = refs[f]
        BY <3>1, <2>1, <2>3, <1>5
      <3>3. ~overrun  BY <1>5
      <3> QED  BY <3>2, <3>3 DEF IInv, BitmapExact
    <2> QED  BY <2>2, <2>3
  <1> QED  BY <1>8, <1>10, <1>11 DEF IInv

\* A failed allocation changes nothing but the answer.
LEMMA AllocFailsIInv ==
    ASSUME IInv, NEW p \in Pool, NEW r \in Requests, AllocFails(p, r[1], r[2])
    PROVE  IInv'
  <1>1. UNCHANGED <<words, _prev_idx, refs, overrun>>  BY DEF AllocFails
  <1>2. ret' \in [pool : 0 .. 3, pages : Nat, align : Nat \ {0}, addr : Nat]
    BY RequestTypes DEF AllocFails, Pool
  <1>3. TypeOK'  BY <1>1, <1>2 DEF IInv, TypeOK
  <1>4. Exclusive'  BY <1>1 DEF IInv, Exclusive
  <1>5. BitmapExact'  BY <1>1 DEF IInv, BitmapExact
  <1> QED  BY <1>3, <1>4, <1>5 DEF IInv

\* Freeing frames the caller holds clears their words and no others.
LEMMA FreeIInv ==
    ASSUME IInv, NEW addr \in Address, NEW pages \in PageCounts, Free(addr, pages)
    PROVE  IInv'
  <1> DEFINE R == Run(addr, pages)
  <1>1. /\ \A f \in R : f \in Address /\ refs[f] > 0
        /\ words' = [w \in Word |->
                       IF \E f \in R : f \in Frame /\ status_word(f) = w
                       THEN 0 ELSE words[w]]
        /\ refs' = [f \in Address |-> IF f \in R THEN refs[f] - 1 ELSE refs[f]]
        /\ ret' = NoRequest
        /\ UNCHANGED <<_prev_idx, overrun>>
    BY DEF Free
  <1> HIDE DEF R
  <1>2. TypeOK'
    <2>1. words' \in [Word -> {0, 1}]  BY <1>1 DEF IInv, TypeOK
    <2>2. refs' \in [Address -> Nat]
      <3> SUFFICES ASSUME NEW f \in Address
                   PROVE  (IF f \in R THEN refs[f] - 1 ELSE refs[f]) \in Nat
        BY <1>1
      <3> QED  BY <1>1 DEF IInv, TypeOK
    <2>3. ret' \in [pool : 0 .. 3, pages : Nat, align : Nat \ {0}, addr : Nat]
      BY <1>1 DEF NoRequest
    <2> QED  BY <2>1, <2>2, <2>3, <1>1 DEF IInv, TypeOK
  \* Until an overrun, a frame that is freed has one holder.
  <1>3. ASSUME ~overrun, NEW f \in R
        PROVE  f \in Frame \ Reserved /\ refs[f] = 1
    <2>1. f \in Address /\ refs[f] > 0 /\ refs[f] \in Nat
      BY <1>1 DEF IInv, TypeOK
    <2> QED  BY <2>1, <1>3 DEF IInv, Exclusive
  <1>4. Exclusive'
    <2> SUFFICES ASSUME ~overrun, NEW f \in Address
                 PROVE  refs'[f] <= 1 /\ (refs'[f] = 1 => f \in Frame \ Reserved)
      BY <1>1 DEF Exclusive
    <2>1. CASE f \in R  BY <2>1, <1>1, <1>3
    <2>2. CASE f \notin R  BY <2>2, <1>1 DEF IInv, Exclusive
    <2> QED  BY <2>1, <2>2
  <1>5. BitmapExact'
    <2> SUFFICES ASSUME ~overrun, NEW f \in Frame
                 PROVE  words'[status_word(f)] =
                          IF f \in Reserved \/ refs'[f] > 0 THEN 1 ELSE 0
      BY <1>1 DEF BitmapExact
    <2>1. status_word(f) \in Word /\ f \in Address  BY WordOfFrameType
    <2>2. CASE f \in R
      BY <2>1, <2>2, <1>1, <1>3
    <2>3. CASE f \notin R
      <3>1. \A g \in R : g \in Frame => status_word(g) # status_word(f)
        BY <2>3, WordInjective
      <3> QED  BY <3>1, <2>1, <2>3, <1>1 DEF IInv, BitmapExact
    <2> QED  BY <2>2, <2>3
  <1> QED  BY <1>2, <1>4, <1>5 DEF IInv

\* Every step preserves the invariant.
LEMMA NextIInv == IInv /\ [Next]_vars => IInv'
  <1> SUFFICES ASSUME IInv, [Next]_vars PROVE IInv'  OBVIOUS
  <1>1. ASSUME NEW p \in Pool, NEW q \in Pool, NEW r \in Requests,
               AllocFrom(p, q, r[1], r[2])
        PROVE  IInv'
    BY <1>1, AllocFromIInv
  <1>2. ASSUME NEW p \in Pool, NEW r \in Requests, AllocFails(p, r[1], r[2])
        PROVE  IInv'
    BY <1>2, AllocFailsIInv
  <1>3. ASSUME NEW addr \in Address, NEW pages \in PageCounts, Free(addr, pages)
        PROVE  IInv'
    BY <1>3, FreeIInv
  <1>4. CASE UNCHANGED vars
    BY <1>4 DEF vars, IInv, TypeOK, Exclusive, BitmapExact
  <1> QED  BY <1>1, <1>2, <1>3, <1>4 DEF Next

\* The invariant holds in every reachable state.
THEOREM Invariance == Spec => []IInv
  BY InitIInv, NextIInv, PTL DEF Spec

\* Type correctness: in particular a cursor never leaves its pool.
THEOREM TypeCorrect == Spec => []TypeOK
  <1>1. IInv => TypeOK  BY DEF IInv
  <1> QED  BY <1>1, Invariance, PTL

\* alloc (physical.cpp:62) never lends a frame twice and never lends a frame
\* that boot reserved, until a run has passed the end of its pool.
THEOREM FramesExclusive == Spec => []Exclusive
  <1>1. IInv => Exclusive  BY DEF IInv
  <1> QED  BY <1>1, Invariance, PTL

\* No sequence of alloc, fallback and free makes the bitmaps disagree with
\* what is lent, until a run has passed the end of its pool.
THEOREM BitmapsExact == Spec => []BitmapExact
  <1>1. IInv => BitmapExact  BY DEF IInv
  <1> QED  BY <1>1, Invariance, PTL

-----------------------------------------------------------------------------
\* A safe request does not overrun: idx is a multiple of the alignment also
\* after the search has wrapped, so the run ends at or before the next multiple,
\* which is at most the size of the pool.
LEMMA SafeStep ==
    IInv /\ [Next]_vars => (SafeRequest(ret'.pages, ret'.align) => overrun' = overrun)
  <1> SUFFICES ASSUME IInv, [Next]_vars, SafeRequest(ret'.pages, ret'.align)
               PROVE  overrun' = overrun
    OBVIOUS
  <1>1. ASSUME NEW p \in Pool, NEW q \in Pool, NEW r \in Requests,
               AllocFrom(p, q, r[1], r[2])
        PROVE  overrun' = overrun
    <2> DEFINE pages == r[1]
               align == r[2]
               N == _num_pageframes(q)
    <2>1. pages \in Nat \ {0} /\ align \in Nat \ {0}  BY RequestTypes
    <2>2. PICK i \in Candidates(q, pages, align) :
            /\ overrun' = (overrun \/ ((_prev_idx[q] + i) % N) + pages > N)
            /\ ret' = [pool |-> p, pages |-> pages, align |-> align,
                       addr |-> base(q) + ((_prev_idx[q] + i) % N)]
      BY <1>1 DEF AllocFrom
    <2> DEFINE idx == (_prev_idx[q] + i) % N
    <2>3. /\ N \in Nat \ {0}
          /\ idx \in 0 .. (N - 1)
          /\ N % align = 0 => idx % align = 0
      BY <2>1, FoundRun DEF IInv
    <2>4. overrun' = (overrun \/ idx + pages > N)  BY <2>2
    <2>5. pages = 1 \/ (pages <= align /\ N % align = 0)
      <3>1. SafeRequest(pages, align)  BY <2>2
      <3> QED  BY <3>1 DEF SafeRequest, DividesPools
    <2> HIDE DEF idx, N
    <2>6. idx + pages <= N
      <3>1. CASE pages = 1  BY <3>1, <2>3
      <3>2. CASE pages <= align /\ N % align = 0
        <4>1. idx + align <= N  BY <3>2, <2>1, <2>3, MultiplesApart
        <4> QED  BY <4>1, <3>2, <2>1, <2>3
      <3> QED  BY <3>1, <3>2, <2>5
    <2>7. ~(idx + pages > N)  BY <2>1, <2>3, <2>6
    <2>8. overrun \in BOOLEAN  BY DEF IInv, TypeOK
    <2> QED  BY <2>4, <2>7, <2>8
  <1>2. ASSUME NEW p \in Pool, NEW r \in Requests, AllocFails(p, r[1], r[2])
        PROVE  overrun' = overrun
    BY <1>2 DEF AllocFails
  <1>3. ASSUME NEW addr \in Address, NEW pages \in PageCounts, Free(addr, pages)
        PROVE  overrun' = overrun
    BY <1>3 DEF Free
  <1>4. CASE UNCHANGED vars  BY <1>4 DEF vars
  <1> QED  BY <1>1, <1>2, <1>3, <1>4 DEF Next

\* Requests of one page, and requests of no more pages than an alignment that
\* divides the pools, stay inside their pool.
THEOREM SafeRequestsStay == Spec => StaysInPool
  BY SafeStep, Invariance, PTL DEF Spec, StaysInPool

-----------------------------------------------------------------------------
\* What alloc answers.

\* The sum of two multiples of d is a multiple of d.
LEMMA MultiplesSum ==
    ASSUME NEW a \in Nat, NEW d \in Nat \ {0}, NEW n \in Nat, a % d = 0, n % d = 0
    PROVE  (a + n) % d = 0
  <1> DEFINE k == a \div d
             m == n \div d
  <1>1. k \in Nat /\ m \in Nat /\ a = d * k /\ n = d * m  BY Quotient
  <1> HIDE DEF k, m
  <1>2. a + n = d * (k + m)  BY <1>1
  <1>3. k + m \in Nat  BY <1>1
  <1> QED  BY <1>2, <1>3, Multiple

\* Every pool starts at a multiple of an alignment that divides the pools.
LEMMA BasesAligned ==
    ASSUME NEW align \in Nat \ {0}, DividesPools(align), NEW q \in Pool
    PROVE  base(q) % align = 0
  <1>1. DmaPages % align = 0 /\ DefaultPages % align = 0
    BY DEF DividesPools, Pool, _num_pageframes, DMA, DefaultPool, HiMem
  <1>2. DmaPages \in Nat /\ DefaultPages \in Nat  BY SizesAssumption
  <1>3. (DmaPages + DefaultPages) % align = 0  BY <1>1, <1>2, MultiplesSum
  <1>4. 0 % align = 0  OBVIOUS
  <1> QED  BY <1>1, <1>3, <1>4 DEF Pool, base, DMA, DefaultPool, HiMem

\* The search comes to every aligned run of the pool, wherever the cursor is: if
\* it finds nothing, there is a mark in each.
LEMMA SearchIsComplete ==
    ASSUME TypeOK, NEW q \in Pool, NEW pages \in Nat \ {0}, NEW align \in Nat \ {0},
           _num_pageframes(q) % align = 0, Candidates(q, pages, align) = {},
           NEW idx \in Nat, idx + pages <= _num_pageframes(q), idx % align = 0
    PROVE  \E j \in 0 .. (pages - 1) : words[_bitmap(q) + (idx + j)] # 0
  <1> DEFINE N == _num_pageframes(q)
             c == _prev_idx[q]
             i == IF idx >= c THEN idx - c ELSE (idx + N) - c
             s == c + i
  <1>1. N \in Nat /\ N > 0 /\ c \in Nat /\ c < N
    BY PoolTypes DEF TypeOK
  <1>2. i \in 0 .. (N - 1) /\ s \in Nat /\ s = i + c
        /\ (s = idx \/ s = idx + N)
    BY <1>1
  <1>3. (i + c) % align = 0
    <2>1. (idx + N) % align = 0  BY <1>1, MultiplesSum
    <2> QED  BY <1>2, <2>1
  <1>4. \E j \in 0 .. (pages - 1) : searched(q, i, j) # 0
    BY <1>2, <1>3 DEF Candidates, Aligned
  <1>5. ASSUME NEW j \in 0 .. (pages - 1)
        PROVE  searched(q, i, j) = words[_bitmap(q) + (idx + j)]
    <2>1. searched(q, i, j) = words[_bitmap(q) + ((s + j) % N)]  BY DEF searched
    <2> HIDE DEF N, c, i, s
    <2>2. idx + j \in Nat /\ idx + j < N  BY <1>1 DEF N
    <2>3. (s + j) % N = idx + j
      <3>1. CASE s = idx  BY <3>1, <2>2, <1>1, ModSmall
      <3>2. CASE s = idx + N
        <4> DEFINE t == s + j
        <4>1. t \in Nat /\ t >= N /\ t < N + N /\ t - N = idx + j
          BY <3>2, <2>2, <1>1
        <4> HIDE DEF t
        <4>2. t % N = t - N  BY <4>1, <1>1, ModWrap
        <4> QED  BY <4>1, <4>2 DEF t
      <3> QED  BY <3>1, <3>2, <1>2
    <2> QED  BY <2>1, <2>3
  <1> QED  BY <1>4, <1>5

\* A run that is granted is aligned, and it is not the frame 0, which is reserved:
\* the address is no 0 that would mean a failure.
LEMMA GrantIsRight ==
    ASSUME IInv, NEW p \in Pool, NEW q \in Pool, NEW r \in Requests,
           AllocFrom(p, q, r[1], r[2])
    PROVE  AnswerIsRight'
  <1> DEFINE pages == r[1]
             align == r[2]
             N == _num_pageframes(q)
             b == base(q)
             m == _bitmap(q)
  <1>1. pages \in Nat \ {0} /\ align \in Nat \ {0}  BY RequestTypes
  <1>2. PICK i \in Candidates(q, pages, align) :
          /\ overrun' = (overrun \/ ((_prev_idx[q] + i) % N) + pages > N)
          /\ ret' = [pool |-> p, pages |-> pages, align |-> align,
                     addr |-> b + ((_prev_idx[q] + i) % N)]
    BY DEF AllocFrom
  <1> DEFINE idx == (_prev_idx[q] + i) % N
  <1>3. /\ N \in Nat \ {0} /\ idx \in 0 .. (N - 1)
        /\ idx + pages <= N => \A j \in 0 .. (pages - 1) : words[m + idx + j] = 0
        /\ N % align = 0 => idx % align = 0
    BY <1>1, FoundRun DEF IInv
  <1>4. b \in Nat /\ m \in Nat  BY PoolTypes
  <1>5. overrun' = (overrun \/ idx + pages > N)
        /\ ret'.align = align /\ ret'.addr = b + idx
    BY <1>2
  <1>6. AlignedAddress'
    <2> SUFFICES ASSUME DividesPools(align) PROVE (b + idx) % align = 0
      BY <1>5 DEF AlignedAddress, DividesPools
    <2>1. N % align = 0  BY DEF DividesPools
    <2>2. b % align = 0  BY <1>1, BasesAligned
    <2> HIDE DEF idx, N, b
    <2> QED  BY <2>1, <2>2, <1>1, <1>3, <1>4, MultiplesSum
  <1> HIDE DEF idx
  <1>7. ASSUME ~overrun', b + idx = 0
        PROVE  FALSE
    <2>1. idx = 0 /\ b = 0 /\ idx + pages <= N /\ ~overrun
      <3>1. idx = 0 /\ b = 0  BY <1>3, <1>4, <1>7
      <3>2. ~overrun /\ ~(idx + pages > N)  BY <1>5, <1>7
      <3> HIDE DEF N, b
      <3> QED  BY <1>1, <1>3, <3>1, <3>2
    <2>2. words[m + idx + 0] = 0  BY <2>1, <1>1, <1>3
    <2>3. 0 \in Frame /\ status_word(0) = m + idx
      <3>1. b + idx \in Frame /\ status_word(b + idx) = m + idx
        BY <1>3, WordOfFrame
      <3> QED  BY <3>1, <1>7
    <2>4. words[m + idx] = 1
      BY <2>1, <2>3, ReservedAssumption DEF IInv, BitmapExact
    <2> QED  BY <2>1, <2>2, <2>4, <1>4
  <1>8. OutOfMemoryIsReal'
    BY <1>5, <1>7 DEF OutOfMemoryIsReal
  <1> QED  BY <1>6, <1>8 DEF AnswerIsRight

\* When no pool of the chain has a candidate, every aligned run of every one of
\* them has a frame that is reserved or lent.
LEMMA FailureIsRight ==
    ASSUME IInv, NEW p \in Pool, NEW r \in Requests, AllocFails(p, r[1], r[2])
    PROVE  AnswerIsRight'
  <1> DEFINE pages == r[1]
             align == r[2]
  <1>1. pages \in Nat \ {0} /\ align \in Nat \ {0}  BY RequestTypes
  <1>2. /\ \A q \in 1 .. p : Candidates(q, pages, align) = {}
        /\ ret'.pool = p /\ ret'.pages = pages /\ ret'.align = align /\ ret'.addr = 0
        /\ overrun' = overrun /\ refs' = refs
    BY DEF AllocFails
  <1> HIDE DEF pages, align
  <1>3. AlignedAddress'
    BY <1>1, <1>2 DEF AlignedAddress
  <1>4. ASSUME ~overrun, DividesPools(align), NEW q \in 1 .. p,
               NEW idx \in 0 .. (_num_pageframes(q) - pages), idx % align = 0
        PROVE  \E f \in Run(base(q) + idx, pages) : f \in Reserved \/ refs[f] > 0
    <2>1. q \in Pool  BY DEF Pool
    <2>2. /\ _num_pageframes(q) \in Nat /\ base(q) \in Nat /\ _bitmap(q) \in Nat
      BY <2>1, PoolTypes
    <2>3. idx \in Nat /\ idx + pages <= _num_pageframes(q)  BY <1>1, <2>2
    <2>4. PICK j \in 0 .. (pages - 1) : words[_bitmap(q) + (idx + j)] # 0
      <3>1. _num_pageframes(q) % align = 0  BY <1>4, <2>1 DEF DividesPools
      <3>2. TypeOK /\ Candidates(q, pages, align) = {}  BY <1>2 DEF IInv
      <3> QED  BY <1>1, <1>4, <2>1, <2>3, <3>1, <3>2, SearchIsComplete
    <2> DEFINE g == idx + j
               f == base(q) + g
    <2>5. g \in Nat /\ g < _num_pageframes(q)  BY <1>1, <2>2, <2>3
    <2> HIDE DEF g
    <2>6. f \in Frame /\ status_word(f) = _bitmap(q) + g
      BY <2>1, <2>5, WordOfFrame
    <2>7. words[_bitmap(q) + g] # 0  BY <2>4 DEF g
    <2>8. f \in Reserved \/ refs[f] > 0
      BY <1>4, <2>6, <2>7 DEF IInv, BitmapExact
    <2>9. f \in Run(base(q) + idx, pages)
      BY <1>1, <2>2, <2>3 DEF Run, g
    <2> QED  BY <2>8, <2>9
  <1>5. OutOfMemoryIsReal'
    BY <1>2, <1>4 DEF OutOfMemoryIsReal, DividesPools
  <1> QED  BY <1>3, <1>5 DEF AnswerIsRight

LEMMA NextAnswers == IInv /\ AnswerIsRight /\ [Next]_vars => AnswerIsRight'
  <1> SUFFICES ASSUME IInv, AnswerIsRight, [Next]_vars PROVE AnswerIsRight'
    OBVIOUS
  <1>1. ASSUME NEW addr \in Address, NEW pages \in PageCounts, Free(addr, pages)
        PROVE  AnswerIsRight'
    <2>1. ret' = NoRequest  BY <1>1 DEF Free
    <2> QED  BY <2>1 DEF NoRequest, AnswerIsRight, AlignedAddress, OutOfMemoryIsReal
  <1>2. CASE UNCHANGED vars
    BY <1>2 DEF vars, AnswerIsRight, AlignedAddress, OutOfMemoryIsReal, DividesPools
  <1> QED  BY <1>1, <1>2, GrantIsRight, FailureIsRight DEF Next

\* PhysicalPool::alloc: the address is aligned as asked, and until the first
\* overrun 0 means that there was no aligned run in any pool of the chain.
THEOREM AnswersAreRight == Spec => []AnswerIsRight
  <1>1. Init => AnswerIsRight
    BY DEF Init, NoRequest, AnswerIsRight, AlignedAddress, OutOfMemoryIsReal
  <1> QED  BY <1>1, NextAnswers, Invariance, PTL DEF Spec

-----------------------------------------------------------------------------
\* A granted run is a Grant of the abstract allocator.
LEMMA AllocFromGrants ==
    ASSUME IInv, IInv', ~overrun',
           NEW p \in Pool, NEW q \in Pool, NEW r \in Requests,
           AllocFrom(p, q, r[1], r[2])
    PROVE  PA!Next
  <1> DEFINE pages == r[1]
             N == _num_pageframes(q)
             b == base(q)
  <1>1. pages \in Nat \ {0} /\ r[2] \in Nat \ {0}  BY RequestTypes
  <1>2. N \in Nat /\ b \in Nat  BY PoolTypes
  <1>3. PICK i \in Candidates(q, pages, r[2]) :
          LET idx == (_prev_idx[q] + i) % N
          IN  /\ refs' = [f \in Address |->
                            IF f \in Run(b + idx, pages)
                            THEN refs[f] + 1 ELSE refs[f]]
              /\ overrun' = (overrun \/ idx + pages > N)
    BY DEF AllocFrom
  <1> DEFINE idx == (_prev_idx[q] + i) % N
  <1>4. /\ refs' = [f \in Address |->
                      IF f \in Run(b + idx, pages) THEN refs[f] + 1 ELSE refs[f]]
        /\ overrun' = (overrun \/ idx + pages > N)
    BY <1>3
  <1>5. idx \in 0 .. (N - 1)  BY <1>1, FoundRun DEF IInv
  <1> HIDE DEF idx
  <1>6. ~overrun /\ idx + pages <= N
    <2>1. ~(overrun \/ idx + pages > N)  BY <1>4
    <2> QED  BY <2>1, <1>1, <1>2, <1>5
  <1> DEFINE lo == b + idx
             hi == b + idx + pages - 1
  <1>7. Run(lo, pages) = lo .. hi  BY DEF Run
  <1>8. \A f \in lo .. hi : f \in Frame
    <2> SUFFICES ASSUME NEW f \in lo .. hi PROVE f \in Frame  OBVIOUS
    <2> DEFINE k == f - b
    <2>1. k \in Nat /\ k < N /\ f = b + k  BY <1>1, <1>2, <1>5, <1>6
    <2> HIDE DEF k
    <2> QED  BY <2>1, WordOfFrame
  <1>9. lo \in lo .. hi /\ hi \in lo .. hi /\ lo <= hi
    BY <1>1, <1>2, <1>5
  <1> HIDE DEF lo, hi
  <1>10. \A f \in Address : refs[f] \in Nat  BY DEF IInv, TypeOK
  <1>11. \A f \in lo .. hi : f \in Address /\ refs'[f] = refs[f] + 1
    BY <1>4, <1>7, <1>8, WordOfFrameType DEF lo
  <1>12. \A f \in lo .. hi : refs[f] = 0 /\ f \in Frame \ Reserved
    <2> SUFFICES ASSUME NEW f \in lo .. hi
                 PROVE  refs[f] = 0 /\ f \in Frame \ Reserved
      OBVIOUS
    <2>1. f \in Address /\ refs'[f] <= 1 /\ (refs'[f] = 1 => f \in Frame \ Reserved)
      BY <1>11 DEF IInv, Exclusive
    <2>2. refs[f] = 0  BY <2>1, <1>10, <1>11
    <2>3. refs'[f] = 1  BY <2>1, <2>2, <1>11
    <2> QED  BY <2>1, <2>2, <2>3
  <1>13. \A f \in Address : f \notin lo .. hi => refs'[f] = refs[f]
    BY <1>4, <1>7 DEF lo
  <1>14. lent' = lent \cup (lo .. hi)
    BY <1>10, <1>11, <1>12, <1>13 DEF lent
  <1>15. lo .. hi \subseteq (Frame \ Reserved) \ lent
    BY <1>12 DEF lent
  <1>16. PA!Grant(lo, hi)
    BY <1>9, <1>14, <1>15 DEF PA!Grant, lent
  <1>17. lo \in Frame /\ hi \in Frame  BY <1>8, <1>9
  <1> QED  BY <1>16, <1>17 DEF PA!Next

\* A free is a Return of the abstract allocator.
LEMMA FreeReturns ==
    ASSUME IInv, ~overrun, NEW addr \in Address, NEW pages \in PageCounts,
           Free(addr, pages)
    PROVE  PA!Next
  <1> DEFINE last == addr + pages - 1
  <1>1. pages \in Nat \ {0} /\ addr \in Nat
    <2>1. addr \in Nat  BY DEF Address
    <2>2. PICK r \in Requests : pages = r[1]  BY DEF PageCounts
    <2>3. r[1] \in Nat \ {0}  BY RequestTypes
    <2> QED  BY <2>1, <2>2, <2>3
  <1>2. /\ \A f \in addr .. last : f \in Address /\ refs[f] > 0
        /\ refs' = [f \in Address |->
                      IF f \in addr .. last THEN refs[f] - 1 ELSE refs[f]]
    BY DEF Free, Run
  <1>3. addr <= last /\ addr \in addr .. last /\ last \in addr .. last
    BY <1>1
  <1> HIDE DEF last
  <1>4. \A f \in addr .. last : f \in Frame /\ refs[f] = 1
    <2> SUFFICES ASSUME NEW f \in addr .. last
                 PROVE  f \in Frame /\ refs[f] = 1
      OBVIOUS
    <2>1. f \in Address /\ refs[f] > 0 /\ refs[f] \in Nat
      BY <1>2 DEF IInv, TypeOK
    <2> QED  BY <2>1 DEF IInv, Exclusive
  <1>5. lent' = lent \ (addr .. last)
    BY <1>2, <1>4 DEF lent
  <1>6. addr .. last \subseteq lent  BY <1>2 DEF lent
  <1>7. PA!Return(addr, last)
    BY <1>3, <1>5, <1>6 DEF PA!Return, lent
  <1> QED  BY <1>3, <1>4, <1>7 DEF PA!Next

\* The three pools with their fallback behave as one allocator of frames,
\* PageAllocator, until the first overrun: every alloc is a Grant or changes
\* nothing, every free is a Return.
THEOREM PoolsImplementAllocator == Spec => ImplementsPageAllocator
  <1>1. Init => PA!Init
    <2> SUFFICES ASSUME Init PROVE lent = {}  BY DEF PA!Init, lent
    <2> QED  BY DEF Init, lent
  <1>2. IInv /\ IInv' /\ [Next]_vars => (~overrun' => [PA!Next]_lent)
    <2> SUFFICES ASSUME IInv, IInv', ~overrun', [Next]_vars
                 PROVE  PA!Next \/ UNCHANGED lent
      OBVIOUS
    <2>1. ASSUME NEW p \in Pool, NEW q \in Pool, NEW r \in Requests,
                 AllocFrom(p, q, r[1], r[2])
          PROVE  PA!Next
      BY <2>1, AllocFromGrants
    <2>2. ASSUME NEW p \in Pool, NEW r \in Requests, AllocFails(p, r[1], r[2])
          PROVE  UNCHANGED lent
      BY <2>2 DEF AllocFails, lent
    <2>3. ASSUME NEW addr \in Address, NEW pages \in PageCounts,
                 Free(addr, pages)
          PROVE  PA!Next
      <3>1. ~overrun  BY <2>3 DEF Free
      <3> QED  BY <2>3, <3>1, FreeReturns
    <2>4. CASE UNCHANGED vars  BY <2>4 DEF vars, lent
    <2> QED  BY <2>1, <2>2, <2>3, <2>4 DEF Next
  <1> QED
    BY <1>1, <1>2, Invariance, PTL DEF Spec, ImplementsPageAllocator
=============================================================================
