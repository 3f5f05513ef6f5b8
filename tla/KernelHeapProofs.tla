-------------------------- MODULE KernelHeapProofs --------------------------
(***************************************************************************)
(* Proofs about KernelHeap for any groups, any number of pages and any     *)
(* number of objects per chunk, and about HeapLayout for requests of any   *)
(* size.                                                                   *)
(***************************************************************************)
EXTENDS Heap, SequenceTheorems, FiniteSetTheorems, TLAPS

-----------------------------------------------------------------------------
\* Lists without duplicates.

\* Pushing a new element at the front.
LEMMA PushFront ==
    ASSUME NEW S, NEW s \in Seq(S), NEW x \in S
    PROVE  /\ <<x>> \o s \in Seq(S)
           /\ Len(<<x>> \o s) = Len(s) + 1
           /\ Elements(<<x>> \o s) = {x} \cup Elements(s)
           /\ NoDuplicates(s) /\ x \notin Elements(s) => NoDuplicates(<<x>> \o s)
  <1> DEFINE t == <<x>> \o s
  <1>1. /\ t \in Seq(S)
        /\ Len(t) = Len(s) + 1
        /\ t[1] = x
        /\ \A i \in 1 .. Len(s) : t[i + 1] = s[i]
    OBVIOUS
  <1>2. Len(s) \in Nat  OBVIOUS
  <1> HIDE DEF t
  <1>3. \A i \in 1 .. Len(t) : i = 1 \/ (i - 1 \in 1 .. Len(s) /\ t[i] = s[i - 1])
    <2> SUFFICES ASSUME NEW i \in 1 .. Len(t), i # 1
                 PROVE  i - 1 \in 1 .. Len(s) /\ t[i] = s[i - 1]
      OBVIOUS
    <2>1. i - 1 \in 1 .. Len(s) /\ (i - 1) + 1 = i  BY <1>1, <1>2
    <2> QED  BY <2>1, <1>1
  <1>4. Elements(t) = {x} \cup Elements(s)
    <2>1. ASSUME NEW e \in Elements(t) PROVE e \in {x} \cup Elements(s)
      <3>1. PICK i \in 1 .. Len(t) : e = t[i]  BY <2>1 DEF Elements
      <3> QED  BY <3>1, <1>1, <1>3 DEF Elements
    <2>2. x \in Elements(t)
      <3>1. 1 \in 1 .. Len(t)  BY <1>1, <1>2
      <3> QED  BY <3>1, <1>1 DEF Elements
    <2>3. ASSUME NEW i \in 1 .. Len(s) PROVE s[i] \in Elements(t)
      <3>1. i + 1 \in 1 .. Len(t)  BY <1>1, <1>2
      <3> QED  BY <3>1, <1>1 DEF Elements
    <2> QED  BY <2>1, <2>2, <2>3 DEF Elements
  <1>5. ASSUME NoDuplicates(s), x \notin Elements(s)
        PROVE  NoDuplicates(t)
    <2> SUFFICES ASSUME NEW i \in 1 .. Len(t), NEW j \in 1 .. Len(t), t[i] = t[j]
                 PROVE  i = j
      BY DEF NoDuplicates
    <2>1. CASE i = 1 \/ j = 1  BY <2>1, <1>1, <1>3, <1>5 DEF Elements
    <2>2. CASE i # 1 /\ j # 1
      <3>1. /\ i - 1 \in 1 .. Len(s) /\ j - 1 \in 1 .. Len(s)
            /\ s[i - 1] = s[j - 1]
        BY <2>2, <1>3
      <3>2. i - 1 = j - 1  BY <3>1, <1>5 DEF NoDuplicates
      <3> QED  BY <3>2
    <2> QED  BY <2>1, <2>2
  <1> QED  BY <1>1, <1>4, <1>5 DEF t

\* Taking an element out of a list.
LEMMA TakeOut ==
    ASSUME NEW S, NEW s \in Seq(S), NoDuplicates(s), NEW k \in 1 .. Len(s)
    PROVE  /\ Without(s, k) \in Seq(S)
           /\ Len(Without(s, k)) = Len(s) - 1
           /\ Elements(Without(s, k)) = Elements(s) \ {s[k]}
           /\ NoDuplicates(Without(s, k))
  <1> DEFINE t == Without(s, k)
             n == Len(s) - 1
  <1>1. n \in Nat /\ Len(s) = n + 1 /\ Len(s) \in Nat  OBVIOUS
  <1>2. \A i \in 1 .. n : (IF i < k THEN s[i] ELSE s[i + 1]) \in S
    BY <1>1
  <1>3. t = [i \in 1 .. n |-> IF i < k THEN s[i] ELSE s[i + 1]]
    BY DEF Without
  <1> HIDE DEF n, t
  <1>4. t \in Seq(S) /\ Len(t) = n  BY <1>1, <1>2, <1>3
  <1>5. \A i \in 1 .. n : /\ i < k => t[i] = s[i] /\ i \in 1 .. Len(s)
                          /\ i >= k => t[i] = s[i + 1] /\ i + 1 \in 1 .. Len(s)
    BY <1>1, <1>3
  <1>6. Elements(t) = Elements(s) \ {s[k]}
    <2>1. ASSUME NEW i \in 1 .. n PROVE t[i] \in Elements(s) \ {s[k]}
      <3>1. CASE i < k  BY <3>1, <1>5 DEF Elements, NoDuplicates
      <3>2. CASE i >= k  BY <3>2, <1>5 DEF Elements, NoDuplicates
      <3> QED  BY <3>1, <3>2
    <2>2. ASSUME NEW i \in 1 .. Len(s), s[i] # s[k] PROVE s[i] \in Elements(t)
      <3>1. CASE i < k
        <4>1. i \in 1 .. n  BY <3>1, <1>1
        <4> QED  BY <4>1, <3>1, <1>4, <1>5 DEF Elements
      <3>2. CASE i > k
        <4>1. i - 1 \in 1 .. n /\ i - 1 >= k /\ (i - 1) + 1 = i  BY <3>2, <1>1
        <4>2. t[i - 1] = s[i]  BY <4>1, <1>5
        <4> QED  BY <4>1, <4>2, <1>4 DEF Elements
      <3>3. i # k  BY <2>2
      <3> QED  BY <3>1, <3>2, <3>3
    <2> QED  BY <2>1, <2>2, <1>4 DEF Elements
  <1>7. NoDuplicates(t)
    <2> SUFFICES ASSUME NEW i \in 1 .. n, NEW j \in 1 .. n, t[i] = t[j]
                 PROVE  i = j
      BY <1>4 DEF NoDuplicates
    <2>1. CASE i < k /\ j < k  BY <2>1, <1>5 DEF NoDuplicates
    <2>2. CASE i >= k /\ j >= k
      <3>1. i + 1 = j + 1  BY <2>2, <1>5 DEF NoDuplicates
      <3> QED  BY <3>1
    <2>3. CASE i < k /\ j >= k
      <3>1. i = j + 1  BY <2>3, <1>5 DEF NoDuplicates
      <3> QED  BY <3>1, <2>3
    <2>4. CASE i >= k /\ j < k
      <3>1. i + 1 = j  BY <2>4, <1>5 DEF NoDuplicates
      <3> QED  BY <3>1, <2>4
    <2> QED  BY <2>1, <2>2, <2>3, <2>4
  <1> QED  BY <1>4, <1>6, <1>7, <1>1 DEF t, n

\* Popping the front of a list takes out its first element.
LEMMA PopFront ==
    ASSUME NEW S, NEW s \in Seq(S), NoDuplicates(s), s # <<>>
    PROVE  /\ Tail(s) \in Seq(S)
           /\ Len(Tail(s)) = Len(s) - 1
           /\ Head(s) \in Elements(s)
           /\ Elements(Tail(s)) = Elements(s) \ {Head(s)}
           /\ NoDuplicates(Tail(s))
  <1>1. Len(s) \in Nat \ {0} /\ 1 \in 1 .. Len(s) /\ Head(s) = s[1]  OBVIOUS
  <1>2. Without(s, 1) \in Seq(S) /\ Len(Without(s, 1)) = Len(s) - 1
    BY <1>1, TakeOut
  <1>3. Tail(s) \in Seq(S) /\ Len(Tail(s)) = Len(s) - 1
    BY HeadTailProperties
  <1>4. \A i \in 1 .. (Len(s) - 1) : Tail(s)[i] = Without(s, 1)[i]
    <2> SUFFICES ASSUME NEW i \in 1 .. (Len(s) - 1)
                 PROVE  Tail(s)[i] = Without(s, 1)[i]
      OBVIOUS
    <2>1. Tail(s)[i] = s[i + 1]  BY <1>1
    <2>2. Without(s, 1)[i] = s[i + 1]  BY <1>1 DEF Without
    <2> QED  BY <2>1, <2>2
  <1>5. Tail(s) = Without(s, 1)  BY <1>2, <1>3, <1>4, SeqEqual
  <1>6. Elements(Tail(s)) = Elements(s) \ {s[1]} /\ NoDuplicates(Tail(s))
    BY <1>1, <1>5, TakeOut
  <1>7. Head(s) \in Elements(s)  BY <1>1 DEF Elements
  <1> QED  BY <1>1, <1>3, <1>6, <1>7

\* A list of n different numbers from 1 .. n has all of them.
LEMMA AllNumbers ==
    ASSUME NEW n \in Nat, NEW s \in Seq(Nat), NoDuplicates(s),
           Elements(s) \subseteq 1 .. n, Len(s) = n
    PROVE  Elements(s) = 1 .. n
  <1>1. s \in [1 .. n -> Elements(s)]  BY DEF Elements
  <1>2. s \in Injection(1 .. n, Elements(s))
    BY <1>1 DEF Injection, IsInjective, NoDuplicates
  <1>3. s \in Surjection(1 .. n, Elements(s))
    BY <1>1 DEF Surjection, Elements
  <1>4. ExistsBijection(1 .. n, Elements(s))
    BY <1>2, <1>3 DEF ExistsBijection, Bijection
  <1>5. Cardinality(Elements(s)) = n  BY <1>4, FS_CountingElements
  <1>6. IsFiniteSet(1 .. n) /\ Cardinality(1 .. n) = n
    <2>1. 1 \in Int /\ n \in Int  OBVIOUS
    <2>2. /\ IsFiniteSet(1 .. n)
          /\ Cardinality(1 .. n) = IF 1 > n THEN 0 ELSE n - 1 + 1
      BY <2>1, FS_Interval
    <2> QED  BY <2>2
  <1> QED  BY <1>5, <1>6, FS_Subset

-----------------------------------------------------------------------------
\* The inductive invariant.  The list is exact only because the free lists
\* are, and no live object is released only because the lists are exact.
IInv == /\ TypeOK
        /\ ListExact
        /\ ObjectsExact
        /\ NoLiveInReleased
        /\ NeverPanics

\* A chunk is full exactly if its free list has no element.
LEMMA FullEmptyList ==
    ASSUME NEW s \in Seq(Nat)
    PROVE  (s = <<>>) <=> (Elements(s) = {})
  <1>1. CASE s = <<>>  BY <1>1 DEF Elements
  <1>2. CASE s # <<>>
    <2>1. 1 \in 1 .. Len(s)  BY <1>2
    <2> QED  BY <2>1, <1>2 DEF Elements
  <1> QED  BY <1>1, <1>2

\* The free list of a new chunk: every object of the chunk, each once.
LEMMA AllFreeList ==
    ASSUME NEW g \in Group
    PROVE  /\ AllFree(g) \in Seq(Nat)
           /\ Len(AllFree(g)) = object_count[g]
           /\ AllFree(g) # <<>>
           /\ Elements(AllFree(g)) = Object(g)
           /\ NoDuplicates(AllFree(g))
  <1> DEFINE n == object_count[g]
             s == AllFree(g)
  <1>1. n \in Nat \ {0}  BY CountAssumption
  <1>2. s = [i \in 1 .. n |-> i]  BY DEF AllFree, Object
  <1>3. Object(g) = 1 .. n  BY DEF Object
  <1> HIDE DEF n, s
  <1>4. s \in Seq(Nat) /\ Len(s) = n  BY <1>1, <1>2
  <1>5. Elements(s) = 1 .. n  BY <1>2, <1>4 DEF Elements
  <1>6. NoDuplicates(s)  BY <1>2, <1>4 DEF NoDuplicates
  <1>7. s # <<>>  BY <1>1, <1>4
  <1> QED  BY <1>3, <1>4, <1>5, <1>6, <1>7 DEF s, n

\* Initially there are no chunks.
LEMMA InitIInv == Init => IInv
  <1> SUFFICES ASSUME Init PROVE IInv  OBVIOUS
  <1>1. TypeOK
    <2>1. /\ _first_chunk \in [Group -> Seq(Page)]
          /\ _first_free \in [Page -> Seq(Nat)]
      <3>1. <<>> \in Seq(Page) /\ <<>> \in Seq(Nat)  OBVIOUS
      <3> QED  BY <3>1 DEF Init
    <2>2. /\ owner \in [Page -> Group \cup {None}]
          /\ _free_count \in [Page -> Nat]
          /\ live \subseteq Page \X Nat
          /\ panicked \in BOOLEAN
      BY DEF Init
    <2> QED  BY <2>1, <2>2 DEF TypeOK
  <1>2. ListExact
    <2> SUFFICES ASSUME NEW g \in Group
                 PROVE  /\ NoDuplicates(_first_chunk[g])
                        /\ Elements(_first_chunk[g]) =
                             {c \in Page : owner[c] = g /\ ~full(c)}
      BY DEF ListExact
    <2>1. _first_chunk[g] = <<>>  BY DEF Init
    <2>2. NoDuplicates(<<>>) /\ Elements(<<>>) = {}  BY DEF NoDuplicates, Elements
    <2>3. \A c \in Page : owner[c] # g  BY GroupAssumption DEF Init
    <2> QED  BY <2>1, <2>2, <2>3
  <1>3. ObjectsExact /\ NoLiveInReleased /\ NeverPanics
    BY DEF Init, ObjectsExact, NoLiveInReleased, NeverPanics
  <1> QED  BY <1>1, <1>2, <1>3 DEF IInv

\* alloc from the first chunk of the list.
LEMMA AllocFromFirstIInv ==
    ASSUME IInv, NEW g \in Group, AllocFromFirst(g)
    PROVE  IInv'
  <1> DEFINE list == _first_chunk[g]
             c == Head(list)
             ff == _first_free[c]
             o == Head(ff)
  <1>1. /\ list # <<>> /\ ff # <<>>
        /\ live' = live \cup {<<c, o>>}
        /\ _first_free' = [_first_free EXCEPT ![c] = Tail(ff)]
        /\ _free_count' = [_free_count EXCEPT ![c] = @ - 1]
        /\ _first_chunk' = [_first_chunk EXCEPT ![g] =
                              IF Tail(ff) = <<>> THEN Tail(list) ELSE list]
        /\ owner' = owner /\ panicked' = panicked
    BY DEF AllocFromFirst, AfterAlloc
  <1>2. list \in Seq(Page) /\ NoDuplicates(list)
        /\ Elements(list) = {d \in Page : owner[d] = g /\ ~full(d)}
    BY DEF IInv, TypeOK, ListExact, NeverPanics
  <1>3. /\ Tail(list) \in Seq(Page) /\ c \in Elements(list)
        /\ Elements(Tail(list)) = Elements(list) \ {c}
        /\ NoDuplicates(Tail(list))
    BY <1>1, <1>2, PopFront
  <1>4. c \in Page /\ owner[c] = g /\ owner[c] # None
    BY <1>2, <1>3, GroupAssumption
  <1>5. /\ ff \in Seq(Nat) /\ NoDuplicates(ff)
        /\ Elements(ff) = {x \in Object(g) : <<c, x>> \notin live}
        /\ _free_count[c] = Len(ff)
    BY <1>4 DEF IInv, TypeOK, ObjectsExact
  <1>6. /\ Tail(ff) \in Seq(Nat) /\ Len(Tail(ff)) = Len(ff) - 1
        /\ o \in Elements(ff)
        /\ Elements(Tail(ff)) = Elements(ff) \ {o}
        /\ NoDuplicates(Tail(ff))
    BY <1>1, <1>5, PopFront
  <1>7. o \in Object(g) /\ o \in Nat  BY <1>5, <1>6 DEF Object
  <1> HIDE DEF list, c, ff, o
  <1>8. /\ _first_free'[c] = Tail(ff)
        /\ \A d \in Page : d # c => _first_free'[d] = _first_free[d]
        /\ _first_free' \in [Page -> Seq(Nat)]
    BY <1>1, <1>4, <1>6 DEF IInv, TypeOK
  <1>9. /\ _free_count'[c] = Len(Tail(ff))
        /\ \A d \in Page : d # c => _free_count'[d] = _free_count[d]
        /\ _free_count' \in [Page -> Nat]
    <2>1. Len(Tail(ff)) \in Nat  BY <1>6
    <2> QED  BY <2>1, <1>1, <1>4, <1>5, <1>6 DEF IInv, TypeOK
  <1>10. TypeOK'
    <2>1. _first_chunk' \in [Group -> Seq(Page)]
      BY <1>1, <1>2, <1>3 DEF IInv, TypeOK
    <2>2. live' \subseteq Page \X Nat  BY <1>1, <1>4, <1>7 DEF IInv, TypeOK
    <2> QED  BY <2>1, <2>2, <1>1, <1>8, <1>9 DEF IInv, TypeOK
  <1>11. ListExact'
    <2> SUFFICES ASSUME NEW h \in Group
                 PROVE  /\ NoDuplicates(_first_chunk'[h])
                        /\ Elements(_first_chunk'[h]) =
                             {d \in Page : owner[d] = h /\ _first_free'[d] # <<>>}
      BY <1>1 DEF ListExact, full
    <2>1. CASE h # g
      <3>1. _first_chunk'[h] = _first_chunk[h]  BY <2>1, <1>1 DEF IInv, TypeOK
      <3>2. \A d \in Page : owner[d] = h => _first_free'[d] = _first_free[d]
        BY <2>1, <1>4, <1>8
      <3> QED  BY <3>1, <3>2 DEF IInv, ListExact, NeverPanics, full
    <2>2. CASE h = g /\ Tail(ff) = <<>>
      <3>1. _first_chunk'[h] = Tail(list)  BY <2>2, <1>1 DEF IInv, TypeOK
      <3> QED  BY <3>1, <2>2, <1>2, <1>3, <1>8 DEF full
    <2>3. CASE h = g /\ Tail(ff) # <<>>
      <3>1. _first_chunk'[h] = list  BY <2>3, <1>1 DEF IInv, TypeOK
      <3> QED  BY <3>1, <2>3, <1>2, <1>3, <1>8 DEF full
    <2> QED  BY <2>1, <2>2, <2>3
  <1>12. ObjectsExact'
    <2> SUFFICES ASSUME NEW d \in Page, owner[d] # None
                 PROVE  /\ NoDuplicates(_first_free'[d])
                        /\ Elements(_first_free'[d]) =
                             {x \in Object(owner[d]) : <<d, x>> \notin live'}
                        /\ _free_count'[d] = Len(_first_free'[d])
      BY <1>1 DEF ObjectsExact
    <2>1. CASE d = c  BY <2>1, <1>1, <1>4, <1>5, <1>6, <1>8, <1>9
    <2>2. CASE d # c  BY <2>2, <1>1, <1>8, <1>9 DEF IInv, ObjectsExact
    <2> QED  BY <2>1, <2>2
  <1>13. NoLiveInReleased'
    BY <1>1, <1>4, <1>7 DEF IInv, NoLiveInReleased
  <1>14. NeverPanics'  BY <1>1 DEF IInv, NeverPanics
  <1> QED  BY <1>10, <1>11, <1>12, <1>13, <1>14 DEF IInv

\* alloc from a new chunk.
LEMMA AllocFromNewIInv ==
    ASSUME IInv, NEW g \in Group, NEW c \in Page, AllocFromNew(g, c)
    PROVE  IInv'
  <1> DEFINE all == AllFree(g)
             o == Head(all)
             list == _first_chunk[g]
  <1>1. /\ owner[c] = None /\ list = <<>>
        /\ owner' = [owner EXCEPT ![c] = g]
        /\ live' = live \cup {<<c, o>>}
        /\ _first_free' = [_first_free EXCEPT ![c] = Tail(all)]
        /\ _free_count' = [_free_count EXCEPT ![c] = object_count[g] - 1]
        /\ _first_chunk' = [_first_chunk EXCEPT ![g] =
                              IF object_count[g] = 1 THEN list ELSE <<c>> \o list]
        /\ panicked' = panicked
    BY DEF AllocFromNew
  <1>2. /\ all \in Seq(Nat) /\ Len(all) = object_count[g] /\ all # <<>>
        /\ Elements(all) = Object(g) /\ NoDuplicates(all)
        /\ object_count[g] \in Nat \ {0}
    BY AllFreeList, CountAssumption
  <1>3. /\ Tail(all) \in Seq(Nat) /\ Len(Tail(all)) = object_count[g] - 1
        /\ o \in Object(g)
        /\ Elements(Tail(all)) = Object(g) \ {o}
        /\ NoDuplicates(Tail(all))
    BY <1>2, PopFront
  <1>4. (Tail(all) = <<>>) <=> (object_count[g] = 1)  BY <1>2, <1>3
  <1>5. \A x : <<c, x>> \notin live
    BY <1>1 DEF IInv, NoLiveInReleased
  <1>6. list \in Seq(Page) /\ NoDuplicates(list)
        /\ Elements(list) = {d \in Page : owner[d] = g /\ ~full(d)}
    BY DEF IInv, TypeOK, ListExact, NeverPanics
  <1>7. c \notin Elements(list)  BY <1>1, <1>6, GroupAssumption
  <1>8. /\ <<c>> \o list \in Seq(Page)
        /\ Elements(<<c>> \o list) = {c} \cup Elements(list)
        /\ NoDuplicates(<<c>> \o list)
    BY <1>6, <1>7, PushFront
  <1> HIDE DEF all, o, list
  <1>9. /\ _first_free'[c] = Tail(all) /\ owner'[c] = g
        /\ _free_count'[c] = Len(Tail(all))
        /\ \A d \in Page : d # c => /\ _first_free'[d] = _first_free[d]
                                    /\ _free_count'[d] = _free_count[d]
                                    /\ owner'[d] = owner[d]
    BY <1>1, <1>3 DEF IInv, TypeOK
  <1>10. TypeOK'
    <2>1. _first_chunk' \in [Group -> Seq(Page)]
      BY <1>1, <1>6, <1>8 DEF IInv, TypeOK
    <2>2. live' \subseteq Page \X Nat
      BY <1>1, <1>3 DEF IInv, TypeOK, Object
    <2>3. /\ owner' \in [Page -> Group \cup {None}]
          /\ _first_free' \in [Page -> Seq(Nat)]
          /\ _free_count' \in [Page -> Nat]
      BY <1>1, <1>2, <1>3 DEF IInv, TypeOK
    <2> QED  BY <2>1, <2>2, <2>3, <1>1 DEF IInv, TypeOK
  <1>11. ListExact'
    <2> SUFFICES ASSUME NEW h \in Group
                 PROVE  /\ NoDuplicates(_first_chunk'[h])
                        /\ Elements(_first_chunk'[h]) =
                             {d \in Page : owner'[d] = h /\ _first_free'[d] # <<>>}
      BY DEF ListExact, full
    <2>1. CASE h # g
      <3>1. _first_chunk'[h] = _first_chunk[h]  BY <2>1, <1>1 DEF IInv, TypeOK
      <3>2. \A d \in Page : /\ owner'[d] = h <=> owner[d] = h
                            /\ owner[d] = h => _first_free'[d] = _first_free[d]
        BY <2>1, <1>1, <1>9, GroupAssumption
      <3> QED  BY <3>1, <3>2 DEF IInv, ListExact, NeverPanics, full
    <2>2. CASE h = g /\ object_count[g] = 1
      <3>1. _first_chunk'[h] = list  BY <2>2, <1>1 DEF IInv, TypeOK
      <3>2. \A d \in Page : /\ d # c
                            /\ owner'[d] = g
                            <=> d # c /\ owner[d] = g
        BY <1>9
      <3>3. {d \in Page : owner'[d] = g /\ _first_free'[d] # <<>>} = Elements(list)
        BY <3>2, <2>2, <1>1, <1>4, <1>6, <1>9, GroupAssumption DEF full
      <3> QED  BY <3>1, <3>3, <2>2, <1>6
    <2>3. CASE h = g /\ object_count[g] # 1
      <3>1. _first_chunk'[h] = <<c>> \o list  BY <2>3, <1>1 DEF IInv, TypeOK
      <3>2. {d \in Page : owner'[d] = g /\ _first_free'[d] # <<>>}
              = {c} \cup Elements(list)
        BY <2>3, <1>4, <1>6, <1>9 DEF full
      <3> QED  BY <3>1, <3>2, <2>3, <1>8
    <2> QED  BY <2>1, <2>2, <2>3
  <1>12. ObjectsExact'
    <2> SUFFICES ASSUME NEW d \in Page, owner'[d] # None
                 PROVE  /\ NoDuplicates(_first_free'[d])
                        /\ Elements(_first_free'[d]) =
                             {x \in Object(owner'[d]) : <<d, x>> \notin live'}
                        /\ _free_count'[d] = Len(_first_free'[d])
      BY DEF ObjectsExact
    <2>1. CASE d = c
      <3>1. \A x : <<c, x>> \in live' <=> x = o  BY <1>1, <1>5
      <3> QED  BY <3>1, <2>1, <1>3, <1>9
    <2>2. CASE d # c  BY <2>2, <1>1, <1>9 DEF IInv, ObjectsExact
    <2> QED  BY <2>1, <2>2
  <1>13. NoLiveInReleased'
    <2> SUFFICES ASSUME NEW p \in live'
                 PROVE  owner'[p[1]] # None /\ p[2] \in Object(owner'[p[1]])
      BY DEF NoLiveInReleased
    <2>1. CASE p = <<c, o>>  BY <2>1, <1>3, <1>9, GroupAssumption
    <2>2. CASE p \in live
      <3>1. p[1] \in Page /\ p[1] # c
        BY <2>2, <1>1 DEF IInv, TypeOK, NoLiveInReleased
      <3> QED  BY <3>1, <2>2, <1>9 DEF IInv, NoLiveInReleased
    <2> QED  BY <2>1, <2>2, <1>1
  <1>14. NeverPanics'  BY <1>1 DEF IInv, NeverPanics
  <1> QED  BY <1>10, <1>11, <1>12, <1>13, <1>14 DEF IInv

\* What a free does to the free list of its chunk: the object was not on it.
LEMMA PushFreeObjects ==
    ASSUME IInv, NEW c \in Page, NEW o, <<c, o>> \in live, PushFree(c, o)
    PROVE  /\ o \in Object(owner[c]) /\ owner[c] \in Group
           /\ _first_free' \in [Page -> Seq(Nat)]
           /\ _free_count' \in [Page -> Nat]
           /\ live' \subseteq Page \X Nat
           /\ _first_free'[c] # <<>>
           /\ NoDuplicates(_first_free'[c])
           /\ Elements(_first_free'[c]) =
                {x \in Object(owner[c]) : <<c, x>> \notin live'}
           /\ _free_count'[c] = Len(_first_free'[c])
           /\ \A d \in Page : d # c => /\ _first_free'[d] = _first_free[d]
                                       /\ _free_count'[d] = _free_count[d]
  <1> DEFINE ff == _first_free[c]
  <1>1. /\ live' = live \ {<<c, o>>}
        /\ _first_free' = [_first_free EXCEPT ![c] = <<o>> \o ff]
        /\ _free_count' = [_free_count EXCEPT ![c] = @ + 1]
    BY DEF PushFree
  <1>2. owner[c] # None /\ o \in Object(owner[c]) /\ o \in Nat
    BY DEF IInv, NoLiveInReleased, Object
  <1>3. /\ ff \in Seq(Nat) /\ NoDuplicates(ff)
        /\ Elements(ff) = {x \in Object(owner[c]) : <<c, x>> \notin live}
        /\ _free_count[c] = Len(ff)
    BY <1>2 DEF IInv, TypeOK, ObjectsExact
  <1>4. o \notin Elements(ff)  BY <1>3
  <1>5. /\ <<o>> \o ff \in Seq(Nat)
        /\ Len(<<o>> \o ff) = Len(ff) + 1
        /\ Elements(<<o>> \o ff) = {o} \cup Elements(ff)
        /\ NoDuplicates(<<o>> \o ff)
    BY <1>2, <1>3, <1>4, PushFront
  <1>6. <<o>> \o ff # <<>>  BY <1>3, <1>5
  <1> HIDE DEF ff
  <1>7. /\ _first_free' \in [Page -> Seq(Nat)]
        /\ _first_free'[c] = <<o>> \o ff
        /\ \A d \in Page : d # c => _first_free'[d] = _first_free[d]
    BY <1>1, <1>5 DEF IInv, TypeOK
  <1>8. /\ _free_count' \in [Page -> Nat]
        /\ _free_count'[c] = Len(ff) + 1
        /\ \A d \in Page : d # c => _free_count'[d] = _free_count[d]
    BY <1>1, <1>3 DEF IInv, TypeOK
  <1>9. Elements(<<o>> \o ff) = {x \in Object(owner[c]) : <<c, x>> \notin live'}
    BY <1>1, <1>2, <1>3, <1>5
  <1>10. owner[c] \in Group /\ live' \subseteq Page \X Nat
    BY <1>1, <1>2 DEF IInv, TypeOK
  <1> QED  BY <1>2, <1>5, <1>6, <1>7, <1>8, <1>9, <1>10

\* free that leaves objects of the chunk in use.
LEMMA FreeKeepsChunkIInv ==
    ASSUME IInv, NEW c \in Page, NEW o, FreeKeepsChunk(c, o)
    PROVE  IInv'
  <1> DEFINE g == owner[c]
             list == _first_chunk[g]
  <1>1. /\ <<c, o>> \in live /\ PushFree(c, o)
        /\ _first_chunk' = [_first_chunk EXCEPT ![g] =
                              IF full(c) THEN <<c>> \o list ELSE list]
        /\ owner' = owner /\ panicked' = panicked
        /\ g # None
    BY DEF FreeKeepsChunk, AfterFree
  <1>2. /\ o \in Object(g) /\ g \in Group
        /\ _first_free' \in [Page -> Seq(Nat)]
        /\ _free_count' \in [Page -> Nat]
        /\ live' \subseteq Page \X Nat
        /\ _first_free'[c] # <<>>
        /\ NoDuplicates(_first_free'[c])
        /\ Elements(_first_free'[c]) = {x \in Object(g) : <<c, x>> \notin live'}
        /\ _free_count'[c] = Len(_first_free'[c])
        /\ \A d \in Page : d # c => /\ _first_free'[d] = _first_free[d]
                                    /\ _free_count'[d] = _free_count[d]
    BY <1>1, PushFreeObjects
  <1>3. list \in Seq(Page) /\ NoDuplicates(list)
        /\ Elements(list) = {d \in Page : owner[d] = g /\ ~full(d)}
    BY <1>2 DEF IInv, TypeOK, ListExact, NeverPanics
  <1>4. ASSUME full(c)
        PROVE  /\ <<c>> \o list \in Seq(Page)
               /\ Elements(<<c>> \o list) = {c} \cup Elements(list)
               /\ NoDuplicates(<<c>> \o list)
    <2>1. c \notin Elements(list)  BY <1>3, <1>4
    <2> QED  BY <2>1, <1>3, PushFront
  <1>6. TypeOK'
    <2>1. _first_chunk' \in [Group -> Seq(Page)]
      BY <1>1, <1>2, <1>3, <1>4 DEF IInv, TypeOK
    <2> QED  BY <2>1, <1>1, <1>2 DEF IInv, TypeOK
  <1>7. ListExact'
    <2> SUFFICES ASSUME NEW h \in Group
                 PROVE  /\ NoDuplicates(_first_chunk'[h])
                        /\ Elements(_first_chunk'[h]) =
                             {d \in Page : owner[d] = h /\ _first_free'[d] # <<>>}
      BY <1>1 DEF ListExact, full
    <2>1. CASE h # g
      <3>1. _first_chunk'[h] = _first_chunk[h]  BY <2>1, <1>1 DEF IInv, TypeOK
      <3>2. \A d \in Page : owner[d] = h => _first_free'[d] = _first_free[d]
        BY <2>1, <1>2
      <3> QED  BY <3>1, <3>2 DEF IInv, ListExact, NeverPanics, full
    <2>2. CASE h = g /\ full(c)
      <3>1. _first_chunk'[h] = <<c>> \o list
        BY <2>2, <1>1, <1>2 DEF IInv, TypeOK
      <3>2. {d \in Page : owner[d] = g /\ _first_free'[d] # <<>>}
              = {c} \cup Elements(list)
        BY <1>2, <1>3 DEF full
      <3> QED  BY <3>1, <3>2, <2>2, <1>4
    <2>3. CASE h = g /\ ~full(c)
      <3>1. _first_chunk'[h] = list  BY <2>3, <1>1, <1>2 DEF IInv, TypeOK
      <3>2. {d \in Page : owner[d] = g /\ _first_free'[d] # <<>>} = Elements(list)
        BY <2>3, <1>2, <1>3 DEF full
      <3> QED  BY <3>1, <3>2, <2>3, <1>3
    <2> QED  BY <2>1, <2>2, <2>3
  <1>8. ObjectsExact'
    <2> SUFFICES ASSUME NEW d \in Page, owner[d] # None
                 PROVE  /\ NoDuplicates(_first_free'[d])
                        /\ Elements(_first_free'[d]) =
                             {x \in Object(owner[d]) : <<d, x>> \notin live'}
                        /\ _free_count'[d] = Len(_first_free'[d])
      BY <1>1 DEF ObjectsExact
    <2>1. CASE d = c  BY <2>1, <1>2
    <2>2. CASE d # c
      <3>1. \A x : <<d, x>> \in live' <=> <<d, x>> \in live
        BY <2>2, <1>1 DEF PushFree
      <3> QED  BY <3>1, <2>2, <1>2 DEF IInv, ObjectsExact
    <2> QED  BY <2>1, <2>2
  <1>9. NoLiveInReleased'
    BY <1>1 DEF IInv, NoLiveInReleased, PushFree
  <1>10. NeverPanics'  BY <1>1 DEF IInv, NeverPanics
  <1> QED  BY <1>6, <1>7, <1>8, <1>9, <1>10 DEF IInv

\* free of the last object in use: a chunk that is not full is on the list, so
\* the PANIC is not reached, and no object of the chunk is held any more.
LEMMA FreeKillsChunkIInv ==
    ASSUME IInv, NEW c \in Page, NEW o, FreeKillsChunk(c, o)
    PROVE  IInv'
  <1> DEFINE g == owner[c]
             list == _first_chunk[g]
  <1>1. /\ <<c, o>> \in live /\ PushFree(c, o) /\ g # None
        /\ _free_count[c] + 1 = object_count[g]
        /\ panicked' = (~full(c) /\ c \notin Elements(list))
        /\ _first_chunk' = IF ~full(c) /\ c \in Elements(list)
                           THEN [_first_chunk EXCEPT ![g] = Unlinked(g, c)]
                           ELSE _first_chunk
        /\ owner' = IF full(c) \/ c \in Elements(list)
                    THEN [owner EXCEPT ![c] = None] ELSE owner
    BY DEF FreeKillsChunk, LastObject
  <1>2. /\ o \in Object(g) /\ g \in Group
        /\ _first_free' \in [Page -> Seq(Nat)]
        /\ _free_count' \in [Page -> Nat]
        /\ live' \subseteq Page \X Nat
        /\ NoDuplicates(_first_free'[c])
        /\ Elements(_first_free'[c]) = {x \in Object(g) : <<c, x>> \notin live'}
        /\ _free_count'[c] = Len(_first_free'[c])
        /\ \A d \in Page : d # c => /\ _first_free'[d] = _first_free[d]
                                    /\ _free_count'[d] = _free_count[d]
    BY <1>1, PushFreeObjects
  <1>3. list \in Seq(Page) /\ NoDuplicates(list)
        /\ Elements(list) = {d \in Page : owner[d] = g /\ ~full(d)}
    BY <1>2 DEF IInv, TypeOK, ListExact, NeverPanics
  <1>4. full(c) \/ c \in Elements(list)  BY <1>3
  <1>5. NeverPanics'  BY <1>1, <1>4 DEF NeverPanics
  <1>6. owner' = [owner EXCEPT ![c] = None]  BY <1>1, <1>4
  <1>7. /\ _first_chunk'[g] \in Seq(Page)
        /\ NoDuplicates(_first_chunk'[g])
        /\ Elements(_first_chunk'[g]) = Elements(list) \ {c}
        /\ \A h \in Group : h # g => _first_chunk'[h] = _first_chunk[h]
        /\ _first_chunk' \in [Group -> Seq(Page)]
    <2>1. CASE full(c)
      <3>1. _first_chunk' = _first_chunk  BY <2>1, <1>1
      <3>2. c \notin Elements(list)  BY <2>1, <1>3
      <3> QED  BY <3>1, <3>2, <1>2, <1>3 DEF IInv, TypeOK
    <2>2. CASE ~full(c)
      <3>1. PICK k \in 1 .. Len(list) : list[k] = c
        BY <2>2, <1>4 DEF Elements
      <3> DEFINE m == CHOOSE i \in 1 .. Len(list) : list[i] = c
      <3>2. m \in 1 .. Len(list) /\ list[m] = c  BY <3>1
      <3>3. Unlinked(g, c) = Without(list, m)  BY DEF Unlinked
      <3> HIDE DEF m
      <3>4. /\ Unlinked(g, c) \in Seq(Page)
            /\ Elements(Unlinked(g, c)) = Elements(list) \ {c}
            /\ NoDuplicates(Unlinked(g, c))
        BY <3>2, <3>3, <1>3, TakeOut
      <3>5. _first_chunk' = [_first_chunk EXCEPT ![g] = Unlinked(g, c)]
        BY <2>2, <1>1, <1>4
      <3> HIDE DEF g
      <3> QED  BY <3>4, <3>5, <1>2 DEF IInv, TypeOK
    <2> QED  BY <2>1, <2>2
  <1>8. \A x : <<c, x>> \notin live'
    <2> DEFINE n == object_count[g]
               s == _first_free'[c]
    <2>1. n \in Nat  BY <1>2, CountAssumption
    <2>2. _free_count'[c] = n
      BY <1>1 DEF PushFree, IInv, TypeOK
    <2>3. s \in Seq(Nat) /\ NoDuplicates(s) /\ Len(s) = n
          /\ Elements(s) \subseteq 1 .. n
      BY <2>2, <1>2 DEF Object
    <2> HIDE DEF n, s
    <2>4. Elements(s) = 1 .. n  BY <2>1, <2>3, AllNumbers
    <2>5. \A x \in Object(g) : <<c, x>> \notin live'
      BY <2>4, <1>2 DEF s, n, Object
    <2>6. \A x : <<c, x>> \in live' => x \in Object(g)
      BY <1>1 DEF PushFree, IInv, NoLiveInReleased
    <2> QED  BY <2>5, <2>6
  <1>9. /\ owner'[c] = None
        /\ \A d \in Page : d # c => owner'[d] = owner[d]
        /\ owner' \in [Page -> Group \cup {None}]
    BY <1>6 DEF IInv, TypeOK
  <1> HIDE DEF list
  <1>10. TypeOK'  BY <1>1, <1>2, <1>7, <1>9 DEF IInv, TypeOK
  <1>11. ListExact'
    <2> SUFFICES ASSUME NEW h \in Group
                 PROVE  /\ NoDuplicates(_first_chunk'[h])
                        /\ Elements(_first_chunk'[h]) =
                             {d \in Page : owner'[d] = h /\ _first_free'[d] # <<>>}
      BY DEF ListExact, full
    <2>1. \A d \in Page :
             /\ owner'[d] = h /\ _first_free'[d] # <<>>
             <=> d # c /\ owner[d] = h /\ _first_free[d] # <<>>
      BY <1>2, <1>9, GroupAssumption
    <2>2. CASE h # g
      <3>1. _first_chunk'[h] = _first_chunk[h]  BY <2>2, <1>7
      <3>2. \A d \in Page : owner[d] = h => d # c  BY <2>2
      <3> QED  BY <3>1, <3>2, <2>1 DEF IInv, ListExact, NeverPanics, full
    <2>3. CASE h = g
      BY <2>1, <2>3, <1>3, <1>7 DEF full
    <2> QED  BY <2>2, <2>3
  <1>12. ObjectsExact'
    <2> SUFFICES ASSUME NEW d \in Page, owner'[d] # None
                 PROVE  /\ NoDuplicates(_first_free'[d])
                        /\ Elements(_first_free'[d]) =
                             {x \in Object(owner'[d]) : <<d, x>> \notin live'}
                        /\ _free_count'[d] = Len(_first_free'[d])
      BY DEF ObjectsExact
    <2>1. d # c /\ owner'[d] = owner[d]  BY <1>9
    <2>2. \A x : <<d, x>> \in live' <=> <<d, x>> \in live
      BY <2>1, <1>1 DEF PushFree
    <2> QED  BY <2>1, <2>2, <1>2 DEF IInv, ObjectsExact
  <1>13. NoLiveInReleased'
    <2> SUFFICES ASSUME NEW p \in live'
                 PROVE  owner'[p[1]] # None /\ p[2] \in Object(owner'[p[1]])
      BY DEF NoLiveInReleased
    <2>1. p \in live  BY <1>1 DEF PushFree
    <2>2. p[1] \in Page /\ p = <<p[1], p[2]>>  BY <1>2
    <2>3. p[1] # c  BY <2>2, <1>8
    <2> QED  BY <2>1, <2>2, <2>3, <1>9 DEF IInv, NoLiveInReleased
  <1> QED  BY <1>5, <1>10, <1>11, <1>12, <1>13 DEF IInv

\* Every step preserves the invariant.
LEMMA NextIInv == IInv /\ [Next]_vars => IInv'
  <1> SUFFICES ASSUME IInv, [Next]_vars PROVE IInv'  OBVIOUS
  <1>1. ASSUME NEW g \in Group, AllocFromFirst(g) PROVE IInv'
    BY <1>1, AllocFromFirstIInv
  <1>2. ASSUME NEW g \in Group, NEW c \in Page, AllocFromNew(g, c) PROVE IInv'
    BY <1>2, AllocFromNewIInv
  <1>3. ASSUME NEW p \in live, FreeKeepsChunk(p[1], p[2]) PROVE IInv'
    <2>1. p[1] \in Page  BY DEF IInv, TypeOK
    <2> QED  BY <2>1, <1>3, FreeKeepsChunkIInv
  <1>4. ASSUME NEW p \in live, FreeKillsChunk(p[1], p[2]) PROVE IInv'
    <2>1. p[1] \in Page  BY DEF IInv, TypeOK
    <2> QED  BY <2>1, <1>4, FreeKillsChunkIInv
  <1>5. CASE UNCHANGED vars
    BY <1>5 DEF vars, IInv, TypeOK, ListExact, ObjectsExact, NoLiveInReleased,
                NeverPanics, full
  <1> QED  BY <1>1, <1>2, <1>3, <1>4, <1>5 DEF Next, Alloc, Free

\* The invariant holds in every reachable state.
THEOREM Invariance == Spec => []IInv
  BY InitIInv, NextIInv, PTL DEF Spec

\* Type correctness of the heap's state.
THEOREM TypeCorrect == Spec => []TypeOK
  <1>1. IInv => TypeOK  BY DEF IInv
  <1> QED  BY <1>1, Invariance, PTL

\* A group's list holds exactly its chunks with room (kheap.cpp:240-303).
THEOREM ListsExact == Spec => []ListExact
  <1>1. IInv => ListExact  BY DEF IInv
  <1> QED  BY <1>1, Invariance, PTL

\* No object is handed out twice and none is lost, in any order of alloc and
\* free (heap_object::alloc and free, kheap.cpp:115-131).
THEOREM ObjectsAreExact == Spec => []ObjectsExact
  <1>1. IInv => ObjectsExact  BY DEF IInv
  <1> QED  BY <1>1, Invariance, PTL

\* mm::free_pages is never given a chunk with a live object (kheap.cpp:294).
THEOREM ReleasedAreUnused == Spec => []NoLiveInReleased
  <1>1. IInv => NoLiveInReleased  BY DEF IInv
  <1> QED  BY <1>1, Invariance, PTL

\* The PANIC of heap_chunk_group::free (kheap.cpp:289) is unreachable.
THEOREM PanicUnreachable == Spec => []NeverPanics
  <1>1. IInv => NeverPanics  BY DEF IInv
  <1> QED  BY <1>1, Invariance, PTL

-----------------------------------------------------------------------------
\* The sizes of HeapLayout.

\* There are 17 groups.
LEMMA Groups == Layout!GroupIndex = 1 .. 17
  BY DEF Layout!GroupIndex, Layout!obj_size

\* Objects get larger from group to group.
LEMMA SizesIncrease ==
    /\ \A g \in 1 .. 17 : Layout!obj_size[g] \in Nat
    /\ \A g, h \in 1 .. 17 : g < h => Layout!obj_size[g] < Layout!obj_size[h]
  BY DEF Layout!obj_size

\* A group has a first one in any set of groups.
LEMMA LeastGroup ==
    ASSUME NEW S \in SUBSET (1 .. 17), S # {}
    PROVE  \E g \in S : \A h \in S : g <= h
  <1> SUFFICES ASSUME \A g \in S : \E h \in S : h < g
               PROVE  FALSE
    OBVIOUS
  <1>1. \A g \in S : g > 4  OBVIOUS
  <1>2. \A g \in S : g > 8  BY <1>1
  <1>3. \A g \in S : g > 12  BY <1>2
  <1>4. \A g \in S : g > 16  BY <1>3
  <1>5. PICK g \in S : TRUE  OBVIOUS
  <1> QED  BY <1>4, <1>5

\* The chunks of every group: the objects fit behind the fields, and the first and
\* the last begin in the chunk's first page.
LEMMA ChunksFit ==
    ASSUME NEW g \in 1 .. 17
    PROVE  LET n == Layout!chunk_object_count(g)
           IN  /\ n >= 1
               /\ Layout!chunk_fields
                     + n * (Layout!object_header + Layout!obj_size[g])
                     <= Layout!page_count[g] * Layout!PAGE_SIZE
               /\ \A k \in {1, n} : Layout!chunk_of(Layout!data(g, k)) = 0
  BY DEF Layout!obj_size, Layout!page_count, Layout!chunk_object_count,
         Layout!chunk_fields, Layout!object_header, Layout!PAGE_SIZE,
         Layout!payload_size, Layout!overhead_size, Layout!chunk_of, Layout!data

\* find_chunk_group gives a group, unless no group's objects are large enough.
LEMMA FoundIsGroup ==
    ASSUME NEW n, Layout!find_chunk_group(n) # Layout!NoGroup
    PROVE  Layout!find_chunk_group(n) \in 1 .. 17
  <1> DEFINE fit == {g \in 1 .. 17 : Layout!Serves(g, n)}
  <1>1. Layout!find_chunk_group(n) = IF fit = {} THEN Layout!NoGroup
                                     ELSE CHOOSE g \in fit : \A h \in fit : g <= h
    BY Groups DEF Layout!find_chunk_group
  <1>2. fit # {} /\ fit \subseteq 1 .. 17
    BY <1>1
  <1> HIDE DEF fit
  <1>3. \E g \in fit : \A h \in fit : g <= h
    BY <1>2, LeastGroup
  <1> QED  BY <1>1, <1>2, <1>3

\* From the size of a group's objects find_chunk_group gets back to the group.
LEMMA FoundAgain ==
    ASSUME NEW g \in 1 .. 17
    PROVE  Layout!find_chunk_group(Layout!obj_size[g]) = g
  <1> DEFINE fit == {h \in 1 .. 17 : Layout!obj_size[h] >= Layout!obj_size[g]}
  <1>1. g \in fit /\ \A h \in fit : h \in 1 .. 17 /\ g <= h
    BY SizesIncrease
  <1>2. Layout!find_chunk_group(Layout!obj_size[g]) =
            IF fit = {} THEN Layout!NoGroup ELSE CHOOSE k \in fit : \A h \in fit : k <= h
    BY Groups DEF Layout!find_chunk_group, Layout!Serves
  <1> HIDE DEF fit
  <1>3. \A k \in fit : (\A h \in fit : k <= h) <=> k = g
    BY <1>1
  <1> QED  BY <1>1, <1>2, <1>3

\* What is inductive: the header holds the size of the group that served the
\* request.
LayoutInv ==
    /\ l_group # Layout!NoGroup => /\ l_group \in 1 .. 17
                                   /\ l_stored = Layout!obj_size[l_group]
    /\ l_freed # Layout!NoGroup => l_freed = l_group /\ l_group # Layout!NoGroup

LEMMA LayoutStep == LayoutInv /\ [Layout!Next]_(Layout!vars) => LayoutInv'
  <1> SUFFICES ASSUME LayoutInv, [Layout!Next]_(Layout!vars) PROVE LayoutInv'
    OBVIOUS
  <1>1. CASE Layout!Alloc
    <2>1. /\ l_group = Layout!NoGroup /\ l_freed' = l_freed
          /\ l_group' = Layout!find_chunk_group(l_size) /\ l_group' # Layout!NoGroup
          /\ l_stored' = Layout!obj_size[l_group']
      BY <1>1 DEF Layout!Alloc
    <2>2. l_group' \in 1 .. 17
      BY <2>1, FoundIsGroup
    <2> QED  BY <2>1, <2>2 DEF LayoutInv
  <1>2. CASE Layout!Free
    BY <1>2, FoundAgain DEF Layout!Free, LayoutInv
  <1>3. CASE UNCHANGED Layout!vars
    BY <1>3 DEF Layout!vars, LayoutInv
  <1> QED
    BY <1>1, <1>2, <1>3 DEF Layout!Next, Layout!AllocTooLarge, Layout!Done

\* mm::heap::free (kheap.cpp:397): for a request of any size, the size in the header
\* and the masked pointer lead back to the group and the chunk that alloc used, and
\* the chunk's objects lie in its pages.
THEOREM FreeFindsItsChunk == Layout!Spec => []FreeFindsChunk
  <1>1. Layout!Init => LayoutInv
    BY DEF Layout!Init, LayoutInv
  <1>2. LayoutInv => FreeFindsChunk
    BY ChunksFit DEF LayoutInv, FreeFindsChunk, Layout!FreeFindsChunk, Layout!ChunkFits
  <1> QED  BY <1>1, <1>2, LayoutStep, PTL DEF Layout!Spec
=============================================================================
