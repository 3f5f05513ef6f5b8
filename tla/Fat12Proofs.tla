---------------------------- MODULE Fat12Proofs ----------------------------
(***************************************************************************)
(* The table of a FAT12 volume survives being unpacked and packed again,   *)
(* for tables of any length and content; hence WriteSuccess of Fat12.  And *)
(* dirtree stays in the directories of a volume while its reads are right, *)
(* and in the clusters that the table has whatever they give it.           *)
(***************************************************************************)
EXTENDS Fat12, SequenceTheorems, TLAPS

\* A number below d * d2, taken apart and put together; the form in which the
\* solver is given quotients and remainders by 16 and by 256.
LEMMA Sixteen ==
    ASSUME NEW q \in Nat, NEW r \in 0 .. 15
    PROVE  (16 * q + r) \div 16 = q /\ (16 * q + r) % 16 = r
  OBVIOUS

LEMMA TwoFiftySix ==
    ASSUME NEW q \in Nat, NEW r \in 0 .. 255
    PROVE  (r + 256 * q) \div 256 = q /\ (r + 256 * q) % 256 = r
  OBVIOUS

LEMMA Divided ==
    ASSUME NEW a \in Nat, NEW b \in Nat \ {0}
    PROVE  a \div b \in Nat /\ a % b \in 0 .. (b - 1) /\ a = (a \div b) * b + (a % b)
  OBVIOUS

LEMMA Thirds ==
    ASSUME NEW m \in Nat
    PROVE  /\ m \div 3 \in Nat /\ (m % 3 = 0 => m = 3 * (m \div 3))
           /\ m >= 3 => m \div 3 >= 1
  OBVIOUS

\* The arithmetic of a group of three bytes, FAT12FAT::read and ::write: a byte is
\* its high and its low nibble, and the two entries keep all six.
LEMMA Nibbles ==
    ASSUME NEW x \in Byte, NEW y \in Byte, NEW z \in Byte
    PROVE  /\ (x + 256 * (y % 16)) \in Entry12
           /\ (16 * z + (y \div 16)) \in Entry12
           /\ (x + 256 * (y % 16)) % 256 = x
           /\ ((x + 256 * (y % 16)) \div 256) % 16 = y % 16
           /\ (16 * z + (y \div 16)) % 16 = y \div 16
           /\ ((16 * z + (y \div 16)) \div 16) % 256 = z
           /\ (y % 16) + (16 * (y \div 16)) = y
<1> DEFINE low == y % 16
           high == y \div 16
<1>1. low \in 0 .. 15 /\ high \in 0 .. 15 /\ low + 16 * high = y
  BY DEF Byte
<1> HIDE DEF low, high
<1>2. (x + 256 * low) \div 256 = low /\ (x + 256 * low) % 256 = x
  <2>1. low \in Nat /\ x \in 0 .. 255
    BY <1>1 DEF Byte
  <2> QED
    BY <2>1, TwoFiftySix
<1>3. (16 * z + high) \div 16 = z /\ (16 * z + high) % 16 = high
  BY <1>1, Sixteen DEF Byte
<1>4. low % 16 = low
  BY <1>1
<1>5. z % 256 = z
  BY DEF Byte
<1>6. (x + 256 * low) \in Entry12 /\ (16 * z + high) \in Entry12
  BY <1>1 DEF Byte, Entry12
<1> QED
  BY <1>1, <1>2, <1>3, <1>4, <1>5, <1>6 DEF low, high

\* FAT12FAT::read yields entries of 12 bits.
LEMMA UnpackedType ==
    ASSUME NEW n \in Nat, NEW b \in [0 .. (3 * n - 1) -> Byte]
    PROVE  unpacked(b, n) \in [0 .. (2 * n - 1) -> Entry12]
<1> SUFFICES ASSUME NEW c \in 0 .. (2 * n - 1)
             PROVE  LET i == 3 * (c \div 2)
                    IN  (IF c % 2 = 0 THEN b[i] + 256 * (b[i + 1] % 16)
                                      ELSE 16 * b[i + 2] + (b[i + 1] \div 16)) \in Entry12
  BY DEF unpacked
<1> DEFINE i == 3 * (c \div 2)
<1>1. i \in 0 .. (3 * n - 3)
  OBVIOUS
<1> HIDE DEF i
<1>2. b[i] \in Byte /\ b[i + 1] \in Byte /\ b[i + 2] \in Byte
  BY <1>1
<1>3. (b[i] + 256 * (b[i + 1] % 16)) \in Entry12 /\ (16 * b[i + 2] + (b[i + 1] \div 16)) \in Entry12
  BY <1>2, Nibbles
<1> QED
  BY <1>3 DEF i

\* "WRITE SUCCESS" of src/FAT12FileSystem.cpp: the bytes that FAT12FAT::write makes
\* of the entries are those FAT12FAT::read took them from, whatever they are.
THEOREM PackedUnpacked ==
    ASSUME NEW n \in Nat, NEW b \in [0 .. (3 * n - 1) -> Byte]
    PROVE  packed(unpacked(b, n), n) = b
<1> DEFINE f == unpacked(b, n)
<1> SUFFICES ASSUME NEW k \in 0 .. (3 * n - 1)
             PROVE  packed(f, n)[k] = b[k]
  BY DEF packed
<1> DEFINE g == k \div 3
           i == 3 * g
<1>1. g \in 0 .. (n - 1) /\ k \in {i, i + 1, i + 2} /\ i % 3 = 0 /\ (i + 1) % 3 = 1 /\ (i + 2) % 3 = 2
  OBVIOUS
<1>2. /\ 2 * g \in 0 .. (2 * n - 1) /\ 2 * g + 1 \in 0 .. (2 * n - 1)
      /\ (2 * g) % 2 = 0 /\ (2 * g + 1) % 2 = 1
      /\ (2 * g) \div 2 = g /\ (2 * g + 1) \div 2 = g
  BY <1>1
<1>3. packed(f, n)[k] = IF k % 3 = 0 THEN f[2 * g] % 256
                        ELSE IF k % 3 = 1 THEN ((f[2 * g] \div 256) % 16) + (16 * (f[2 * g + 1] % 16))
                        ELSE (f[2 * g + 1] \div 16) % 256
  BY DEF packed
<1> HIDE DEF g
<1>4. f[2 * g] = b[i] + 256 * (b[i + 1] % 16) /\ f[2 * g + 1] = 16 * b[i + 2] + (b[i + 1] \div 16)
  BY <1>2 DEF unpacked
<1>5. b[i] \in Byte /\ b[i + 1] \in Byte /\ b[i + 2] \in Byte
  BY <1>1
<1> HIDE DEF f, i
<1>6. /\ f[2 * g] % 256 = b[i]
      /\ ((f[2 * g] \div 256) % 16) + (16 * (f[2 * g + 1] % 16)) = b[i + 1]
      /\ (f[2 * g + 1] \div 16) % 256 = b[i + 2]
  BY <1>4, <1>5, Nibbles
<1>7. CASE k = i
  BY <1>1, <1>3, <1>6, <1>7
<1>8. CASE k = i + 1
  BY <1>1, <1>3, <1>6, <1>8
<1>9. CASE k = i + 2
  BY <1>1, <1>3, <1>6, <1>9
<1> QED
  BY <1>1, <1>7, <1>8, <1>9

-----------------------------------------------------------------------------
\* What a mounted volume's table is: the entries of the bytes that were read.
TableInv ==
    /\ image \in Images
    /\ Mounted => /\ Len(image.bytes) = 3 * Groups
                  /\ bytes \in [0 .. (3 * Groups - 1) -> Byte]
                  /\ fat_ = unpacked(bytes, Groups)

LEMMA TableInit == Init => TableInv
  BY DEF Init, TableInv, Mounted

LEMMA TableStep == TableInv /\ [Next]_vars => TableInv'
<1> SUFFICES ASSUME TableInv, [Next]_vars
             PROVE  TableInv'
  OBVIOUS
<1> USE DEF TableInv, Mounted
<1>1. CASE Mount
  <2>1. image' = image /\ Groups' = Groups /\ pc' = "next"
    BY <1>1 DEF Mount, Groups
  <2>2. image.bytes \in Seq(Byte) /\ Len(image.bytes) \in Nat
    BY ImagesAssumption
  <2>3. Len(image.bytes) = 3 * Groups /\ Groups \in Nat
    BY <1>1, <2>2, Thirds DEF Mount, Groups
  <2>4. PICK good \in 0 .. Len(image.bytes) : bytes' = AsRead(good)
    BY <1>1 DEF Mount
  <2>5. bytes' \in [0 .. (3 * Groups - 1) -> Byte]
    <3>1. \A k \in 0 .. (Len(image.bytes) - 1) : image.bytes[k + 1] \in Byte
      BY <2>2
    <3> QED
      BY <2>3, <2>4, <3>1 DEF AsRead, Byte
  <2>6. fat_' = unpacked(bytes', Groups)
    BY <1>1 DEF Mount
  <2> QED
    BY <2>1, <2>3, <2>5, <2>6
<1>2. ASSUME image' = image, bytes' = bytes, fat_' = fat_, Mounted' => Mounted
      PROVE  TableInv'
  BY <1>2 DEF Groups
<1>3. CASE RefuseMount
  BY <1>3, <1>2 DEF RefuseMount, Stop
<1>4. CASE PanicAtMount
  BY <1>4, <1>2 DEF PanicAtMount, panic, Stop
<1>5. CASE ReadSector
  BY <1>5, <1>2 DEF ReadSector
<1>6. CASE Skip
  BY <1>6, <1>2 DEF Skip, Scanning
<1>7. CASE Leave
  BY <1>7, <1>2 DEF Leave
<1>8. CASE ListEntry
  BY <1>8, <1>2 DEF ListEntry, Scanning
<1>9. CASE PanicInChain
  BY <1>9, <1>2 DEF PanicInChain, panic, Stop
<1>10. CASE FollowChain
  BY <1>10, <1>2 DEF FollowChain
<1>11. CASE Descend
  BY <1>11, <1>2 DEF Descend
<1>12. CASE Stopped \/ UNCHANGED vars
  BY <1>12, <1>2 DEF Stopped, vars
<1> QED
  BY <1>1, <1>3, <1>4, <1>5, <1>6, <1>7, <1>8, <1>9, <1>10, <1>11, <1>12 DEF Next

LEMMA TableInvariant == Spec => []TableInv
  BY TableInit, TableStep, PTL DEF Spec

\* The kernel's own test of the table at mount succeeds on every volume it mounts,
\* also when a part of the table could not be read.
THEOREM WriteSuccessInvariant == Spec => []WriteSuccess
<1>1. TableInv => WriteSuccess
  <2> SUFFICES ASSUME TableInv, Mounted
               PROVE  packed(fat_, Groups) = bytes
    BY DEF WriteSuccess
  <2>1. image.bytes \in Seq(Byte) /\ Len(image.bytes) \in Nat
    BY ImagesAssumption DEF TableInv
  <2>2. Groups \in Nat
    BY <2>1, Thirds DEF Groups
  <2> QED
    BY <2>2, PackedUnpacked DEF TableInv
<1> QED
  BY <1>1, TableInvariant, PTL

-----------------------------------------------------------------------------
\* The walk.

DirectorySector == DOMAIN image.dirs

\* Enumerators that go through sectors of the set S.
Enumerator(S) == [sectors : Seq(S), index : Nat]

\* What a buffer holds that was read without fault.
RightContents == {image.dirs[s] : s \in DOMAIN image.dirs} \cup {NoEntries}

\* Where a chain of a directory can be: in one of its clusters, or where it ends
\* or next_cluster panics.
InChain(c) == /\ c \in Nat
              /\ c \in DirectoryClusters(image) \cup {1} \/ c > Size

\* Whatever was read, entries name clusters of 16 bits and enumerators go through
\* sectors that the table has clusters for.
RangeInv ==
    /\ \A k \in 1 .. EntriesPerSector : cache[k].cluster \in Word
    /\ stack \in Seq(Enumerator(VolumeSectors))
    /\ pc \in {"next", "children"} => Mounted /\ depth > 0
    /\ pc = "children" => _sectors \in Seq(VolumeSectors) /\ cluster \in Word

\* While every read was right, the table is that of the volume, the buffer holds
\* entries of a directory, and enumerators go through sectors of directories.
RightInv ==
    /\ cache \in RightContents
    /\ Mounted => Intact
    /\ stack \in Seq(Enumerator(DirectorySector))
    /\ pc = "children" => _sectors \in Seq(DirectorySector) /\ InChain(cluster)

WalkInv == /\ faults \in Nat
           /\ RangeInv
           /\ faults = 0 => RightInv

\* The size of the table.
LEMMA SizeOfTable ==
    ASSUME TableInv
    PROVE  /\ image \in Images /\ Groups \in Nat /\ Groups >= 1
           /\ Size = 2 * Groups /\ Size = TableSize(image)
<1>1. image \in Images /\ image.bytes \in Seq(Byte) /\ Len(image.bytes) >= 3
  BY ImagesAssumption DEF TableInv
<1>2. Len(image.bytes) \in Nat
  BY <1>1
<1>3. Groups = Len(image.bytes) \div 3
  BY DEF Groups
<1>4. Groups \in Nat /\ Groups >= 1
  BY <1>1, <1>2, <1>3, Thirds
<1> QED BY <1>1, <1>3, <1>4 DEF Size, TableSize

\* An intact table, as it is read, is the table of the volume.
LEMMA IntactTable ==
    ASSUME TableInv, Intact
    PROVE  fat_ = Table(image)
<1>1. /\ image \in Images /\ Len(image.bytes) = 3 * Groups
      /\ bytes \in [0 .. (3 * Groups - 1) -> Byte] /\ fat_ = unpacked(bytes, Groups)
      /\ \A k \in 0 .. (Len(image.bytes) - 1) : bytes[k] = image.bytes[k + 1]
  BY DEF TableInv, Intact
<1>2. bytes = [k \in 0 .. (Len(image.bytes) - 1) |-> image.bytes[k + 1]]
  BY <1>1
<1>3. Groups = Len(image.bytes) \div 3
  BY DEF Groups
<1> QED BY <1>1, <1>2, <1>3 DEF Table

\* Numbers of 16 bits.
LEMMA Words ==
    /\ 0 \in Word
    /\ \A c \in Word : c \in Nat
    /\ \A c \in Entry12 : c \in Word
<1>1. 0 \in Word
  BY SMT DEF Word
<1>2. ASSUME NEW c \in Word PROVE c \in Nat
  BY SMT DEF Word
<1>3. ASSUME NEW c \in Entry12 PROVE c \in Word
  BY SMT DEF Word, Entry12
<1> QED BY <1>1, <1>2, <1>3

\* The entries of the table.
LEMMA TableEntries ==
    ASSUME TableInv, Mounted, NEW c \in 0 .. (Size - 1)
    PROVE  fat_[c] \in Word
<1>1. Groups \in Nat /\ Size = 2 * Groups
  BY SizeOfTable
<1>2. fat_[c] \in Entry12
  BY <1>1, UnpackedType DEF TableInv
<1> QED BY <1>2, Words

\* sector_from_cluster: the sectors of a cluster that next_cluster lets through.
LEMMA ClusterSectors ==
    ASSUME TableInv, NEW c \in Nat, c # 1, c <= Size,
           NEW i \in 1 .. SectorsPerCluster
    PROVE  sector_from_cluster(c) + i - 1 \in VolumeSectors
<1> DEFINE n == SectorsPerCluster
           m == Size
<1>1. n \in Nat \ {0} /\ RootSector \in Nat /\ RootSectors \in Nat
  BY GeometryAssumption
<1>2. m \in Nat /\ m >= 2
  BY SizeOfTable
<1>3. i \in 1 .. n /\ c <= m
  OBVIOUS
<1>4. VolumeSectors = RootSector .. (RootSector + RootSectors + (m - 1) * n - 1)
  BY DEF VolumeSectors
<1>5. sector_from_cluster(c) = IF c = 0 THEN RootSector
                               ELSE RootSector + RootSectors + (c - 2) * n
  BY DEF sector_from_cluster
<1> HIDE DEF n, m
<1>6. CASE c = 0
  <2>1. (m - 1) * n = n + (m - 2) * n /\ (m - 2) * n \in Nat
    BY <1>1, <1>2
  <2> DEFINE x == (m - 2) * n
  <2> HIDE DEF x
  <2>2. (m - 1) * n = n + x /\ x \in Nat
    BY <2>1 DEF x
  <2> QED BY <1>1, <1>3, <1>4, <1>5, <1>6, <2>2
<1>7. CASE c >= 2
  <2> DEFINE x == (c - 2) * n
             y == (m - c) * n
  <2>1. x \in Nat /\ y \in Nat
    BY <1>1, <1>2, <1>3, <1>7
  <2>2. (m - 1) * n = x + y + n
    BY <1>1, <1>2, <1>7
  <2>3. sector_from_cluster(c) = RootSector + RootSectors + x
    BY <1>5, <1>7
  <2> HIDE DEF x, y
  <2> QED BY <1>1, <1>3, <1>4, <2>1, <2>2, <2>3
<1> QED BY <1>6, <1>7

\* The constructor adds the sectors of one cluster to those it has.
LEMMA SectorsAdded ==
    ASSUME NEW S, _sectors \in Seq(S),
           \A i \in 1 .. SectorsPerCluster : sector_from_cluster(cluster) + i - 1 \in S
    PROVE  added(cluster) \in Seq(S)
<1> DEFINE new == [i \in 1 .. SectorsPerCluster |-> sector_from_cluster(cluster) + i - 1]
<1>1. SectorsPerCluster \in Nat
  BY GeometryAssumption
<1>2. new \in [1 .. SectorsPerCluster -> S]
  OBVIOUS
<1>3. new \in Seq(S)
  BY <1>1, <1>2, SeqDef
<1> HIDE DEF new
<1>4. _sectors \o new \in Seq(S)
  BY <1>3, ConcatProperties
<1> QED BY <1>4 DEF added, new

LEMMA AddedInVolume ==
    ASSUME TableInv, RangeInv, pc = "children", cluster # 1, cluster <= Size
    PROVE  added(cluster) \in Seq(VolumeSectors)
<1>1. cluster \in Nat /\ _sectors \in Seq(VolumeSectors)
  BY Words DEF RangeInv
<1>2. \A i \in 1 .. SectorsPerCluster : sector_from_cluster(cluster) + i - 1 \in VolumeSectors
  BY <1>1, ClusterSectors
<1> QED BY <1>1, <1>2, SectorsAdded

\* The sectors of a directory's cluster are sectors of a directory.
LEMMA AddedInDirectory ==
    ASSUME TableInv, _sectors \in Seq(DirectorySector),
           cluster \in DirectoryClusters(image)
    PROVE  added(cluster) \in Seq(DirectorySector)
<1>1. cluster \in 2 .. (Size - 1) /\ Size \in Nat
  BY SizeOfTable DEF DirectoryClusters
<1>2. SectorsPerCluster \in Nat /\ RootSector \in Nat /\ RootSectors \in Nat
  BY GeometryAssumption
<1>3. ASSUME NEW i \in 1 .. SectorsPerCluster
      PROVE  sector_from_cluster(cluster) + i - 1 \in DirectorySector
  <2> DEFINE start == (cluster - 2) * SectorsPerCluster
  <2>1. start \in Int /\ i - 1 \in 0 .. (SectorsPerCluster - 1)
    BY <1>1, <1>2
  <2>2. RootSector + RootSectors + start + (i - 1) \in DirectorySector
    BY <2>1 DEF DirectoryClusters, DirectorySector
  <2>3. sector_from_cluster(cluster) = RootSector + RootSectors + start
    BY <1>1 DEF sector_from_cluster
  <2> HIDE DEF start
  <2> QED BY <1>2, <2>1, <2>2, <2>3
<1> QED BY <1>3, SectorsAdded

-----------------------------------------------------------------------------
\* The entry that next looks at.

LEMMA EntryOfCache ==
    ASSUME RangeInv, pc = "next"
    PROVE  \E k \in 1 .. EntriesPerSector : entry = cache[k]
<1>1. EntriesPerSector \in Nat \ {0}
  BY GeometryAssumption
<1>2. top \in Enumerator(VolumeSectors)
  BY ElementOfSeq, LenProperties DEF RangeInv, top, depth
<1>3. (top.index % EntriesPerSector) + 1 \in 1 .. EntriesPerSector
  BY <1>1, <1>2 DEF Enumerator
<1> QED BY <1>3 DEF entry

\* If every read was right, an entry that leads anywhere leads to a directory.
LEMMA EntryLeads ==
    ASSUME TableInv, RangeInv, RightInv, pc = "next", Enters(entry)
    PROVE  entry.cluster \in DirectoryClusters(image)
<1>1. PICK k \in 1 .. EntriesPerSector : entry = cache[k]
  BY EntryOfCache
<1>2. cache # NoEntries
  <2>1. entry.kind = "used"
    BY DEF Enters
  <2>2. NoEntries[k].kind = "end"
    BY <1>1, Zenon DEF NoEntries
  <2> QED BY <1>1, <2>1, <2>2
<1>3. PICK s \in DOMAIN image.dirs : cache = image.dirs[s]
  BY <1>2 DEF RightInv, RightContents
<1> QED BY <1>1, <1>3, SizeOfTable, VolumesAssumption

\* A chain goes on in the directory's clusters.
LEMMA ChainGoesOn ==
    ASSUME TableInv, Intact, NEW c \in Nat, InChain(c), c # 1, c <= Size
    PROVE  /\ c \in DirectoryClusters(image)
           /\ \A d \in next_cluster(c) : InChain(d)
<1>1. /\ image \in Images /\ Size = TableSize(image) /\ Size \in Nat
  BY SizeOfTable
<1>2. c \in DirectoryClusters(image)
  BY <1>1 DEF InChain
<1>3. c \in 0 .. (Size - 1)
  BY <1>1, <1>2 DEF DirectoryClusters
<1>4. fat_ = Table(image)
  BY IntactTable
<1>5. next_cluster(c) = {Table(image)[c]}
  BY <1>1, <1>3, <1>4 DEF next_cluster
<1>6. Table(image)[c] \in Nat
  BY <1>3, <1>4, TableEntries, Words DEF Intact
<1>7. InChain(Table(image)[c])
  BY <1>1, <1>2, <1>6, VolumesAssumption DEF InChain
<1> QED BY <1>2, <1>5, <1>7

\* What next_cluster gives, from the table or from behind it.
LEMMA NextIsWord ==
    ASSUME TableInv, Mounted, NEW c \in Word, c <= Size, NEW d \in next_cluster(c)
    PROVE  d \in Word
<1>1. Size \in Nat
  BY SizeOfTable
<1>2. CASE c = Size
  BY <1>2, MemoryAssumption DEF next_cluster
<1>3. CASE c # Size
  <2>1. c \in 0 .. (Size - 1)
    BY <1>1, <1>3 DEF Word
  <2> QED BY <1>3, <2>1, TableEntries DEF next_cluster
<1> QED BY <1>2, <1>3

-----------------------------------------------------------------------------
\* The stack of enumerators over any set of sectors.

\* The innermost enumerator goes on by an entry.
LEMMA StackAdvances ==
    ASSUME NEW S, stack \in Seq(Enumerator(S)), depth > 0,
           stack' = [stack EXCEPT ![depth].index = top.index + 1]
    PROVE  stack' \in Seq(Enumerator(S)) /\ depth' = depth
<1>1. depth \in 1 .. Len(stack)
  BY LenProperties DEF depth
<1>2. top \in Enumerator(S)
  BY <1>1, ElementOfSeq DEF top
<1> DEFINE e == [top EXCEPT !.index = top.index + 1]
<1>3. e \in Enumerator(S)
  BY <1>2 DEF Enumerator
<1>4. stack' = [stack EXCEPT ![depth] = e]
  BY DEF top
<1> HIDE DEF e
<1>5. stack' \in Seq(Enumerator(S)) /\ Len(stack') = Len(stack)
  BY <1>1, <1>3, <1>4, ExceptSeq
<1> QED BY <1>5 DEF depth

LEMMA StackReturns ==
    ASSUME NEW S, stack \in Seq(Enumerator(S)), depth > 0,
           stack' = SubSeq(stack, 1, depth - 1)
    PROVE  stack' \in Seq(Enumerator(S)) /\ (depth # 1 => depth' > 0)
<1>1. depth = Len(stack) /\ depth \in Nat /\ depth > 0
  BY LenProperties DEF depth
<1>2. \A i \in 1 .. (depth - 1) : stack[i] \in Enumerator(S)
  BY <1>1, ElementOfSeq
<1>3. /\ SubSeq(stack, 1, depth - 1) \in Seq(Enumerator(S))
      /\ Len(SubSeq(stack, 1, depth - 1)) = IF 1 <= depth - 1 THEN (depth - 1) - 1 + 1 ELSE 0
  BY <1>1, <1>2, SubSeqProperties
<1>4. depth # 1 => Len(SubSeq(stack, 1, depth - 1)) > 0
  BY <1>1, <1>3
<1> QED BY <1>3, <1>4 DEF depth

LEMMA StackGrows ==
    ASSUME NEW S, stack \in Seq(Enumerator(S)), NEW sectors \in Seq(S),
           stack' = Append(stack, [sectors |-> sectors, index |-> 0])
    PROVE  stack' \in Seq(Enumerator(S)) /\ depth' > 0
<1>1. [sectors |-> sectors, index |-> 0] \in Enumerator(S)
  BY DEF Enumerator
<1>2. stack' \in Seq(Enumerator(S)) /\ Len(stack') = Len(stack) + 1
  BY <1>1, AppendProperties
<1>3. Len(stack) \in Nat
  BY LenProperties
<1> QED BY <1>2, <1>3 DEF depth

\* An enumerator's index, below its number of entries, is that of a sector it has.
LEMMA SectorOfIndex ==
    ASSUME NEW S, stack \in Seq(Enumerator(S)), depth > 0, top.index < entry_count
    PROVE  top.sectors[sector_index + 1] \in S
<1>1. EntriesPerSector \in Nat \ {0}
  BY GeometryAssumption
<1>2. top \in Enumerator(S)
  BY ElementOfSeq, LenProperties DEF top, depth
<1>3. top.sectors \in Seq(S) /\ top.index \in Nat /\ Len(top.sectors) \in Nat
  BY <1>2, LenProperties DEF Enumerator
<1> DEFINE n == Len(top.sectors)
           E == EntriesPerSector
           q == top.index \div E
           r == top.index % E
<1>4. q \in Nat /\ r \in 0 .. (E - 1) /\ top.index = q * E + r
  BY <1>1, <1>3, Divided
<1>5. n \in Nat /\ E \in Nat \ {0} /\ top.index < n * E /\ sector_index = q
  BY <1>1, <1>3 DEF entry_count, sector_index
<1> HIDE DEF n, E, q, r
<1>6. q < n
  <2> SUFFICES ASSUME q >= n PROVE FALSE
    BY <1>4, <1>5
  <2> DEFINE d == q - n
  <2>1. d \in Nat /\ q = n + d
    BY <1>4, <1>5
  <2> HIDE DEF d
  <2>2. q * E = n * E + d * E /\ d * E \in Nat /\ n * E \in Nat
    BY <1>5, <2>1
  <2> DEFINE x == n * E
             y == d * E
             z == q * E
  <2>3. z = x + y /\ x \in Nat /\ y \in Nat /\ top.index = z + r /\ top.index < x
    BY <1>4, <1>5, <2>2
  <2> HIDE DEF x, y, z
  <2> QED BY <1>4, <1>5, <2>3
<1>7. q + 1 \in 1 .. Len(top.sectors)
  BY <1>4, <1>5, <1>6 DEF n
<1>8. top.sectors[q + 1] \in S
  BY <1>3, <1>7, ElementOfSeq
<1> QED BY <1>5, <1>8

\* What depends on the volume alone.
LEMMA SameVolume ==
    ASSUME image' = image
    PROVE  /\ VolumeSectors' = VolumeSectors /\ DirectorySector' = DirectorySector
           /\ RightContents' = RightContents
           /\ \A S : Enumerator(S)' = Enumerator(S)
           /\ \A c : InChain(c)' <=> InChain(c)
BY DEF VolumeSectors, DirectorySector, RightContents, Enumerator, InChain, Size, Groups

-----------------------------------------------------------------------------
\* Every step keeps the walk where it is to be.

LEMMA MountWalk ==
    ASSUME TableInv, WalkInv, Mount
    PROVE  WalkInv'
<1>1. /\ image' = image /\ image \in Images /\ cache' = cache
      /\ stack' = <<RootFrame>> /\ pc' = "next"
  BY DEF Mount, TableInv
<1>2. PICK good \in 0 .. Len(image.bytes) :
         /\ faults' = IF good = Len(image.bytes) THEN faults ELSE faults + 1
         /\ bytes' = AsRead(good)
  BY DEF Mount
<1> DEFINE root == [i \in 1 .. RootSectors |-> RootSector + i - 1]
<1>3. RootSectors \in Nat /\ RootSector \in Nat /\ SectorsPerCluster \in Nat \ {0}
  BY GeometryAssumption
<1>4. RootFrame = [sectors |-> root, index |-> 0]
  BY DEF RootFrame
<1>5. ASSUME NEW i \in 1 .. RootSectors
      PROVE  RootSector + i - 1 \in VolumeSectors /\ RootSector + i - 1 \in DirectorySector
  <2>1. RootSector + i - 1 \in VolumeSectors
    <3> DEFINE x == (Size - 1) * SectorsPerCluster
    <3>1. x \in Nat
      BY <1>3, SizeOfTable
    <3>2. VolumeSectors = RootSector .. (RootSector + RootSectors + x - 1)
      BY DEF VolumeSectors
    <3> HIDE DEF x
    <3> QED BY <1>3, <3>1, <3>2
  <2>2. i - 1 \in 0 .. (RootSectors - 1) /\ RootSector + (i - 1) = RootSector + i - 1
    BY <1>3
  <2>3. RootSector + (i - 1) \in DOMAIN image.dirs
    BY <1>1, <2>2, VolumesAssumption
  <2> QED BY <2>1, <2>2, <2>3 DEF DirectorySector
<1>6. root \in Seq(VolumeSectors) /\ root \in Seq(DirectorySector)
  <2>1. root \in [1 .. RootSectors -> VolumeSectors] /\ root \in [1 .. RootSectors -> DirectorySector]
    BY <1>5
  <2> HIDE DEF root
  <2> QED BY <1>3, <2>1, SeqDef
<1> HIDE DEF root
<1>7. /\ stack' \in Seq(Enumerator(VolumeSectors))
      /\ stack' \in Seq(Enumerator(DirectorySector)) /\ depth' > 0
  <2>1. RootFrame \in Enumerator(VolumeSectors) /\ RootFrame \in Enumerator(DirectorySector)
    BY <1>4, <1>6 DEF Enumerator
  <2> QED BY <1>1, <2>1 DEF depth
<1>8. faults' \in Nat /\ (faults' = 0 => faults = 0 /\ good = Len(image.bytes))
  BY <1>2 DEF WalkInv
<1>9. good = Len(image.bytes) => Intact'
  <2>1. image.bytes \in Seq(Byte)
    BY <1>1, ImagesAssumption
  <2> QED BY <1>1, <1>2, <2>1 DEF AsRead, Intact, Mounted
<1>10. RangeInv'
  BY <1>1, <1>7, SameVolume DEF WalkInv, RangeInv, Mounted
<1> QED BY <1>1, <1>7, <1>8, <1>9, <1>10, SameVolume DEF WalkInv, RightInv

LEMMA ReadWalk ==
    ASSUME TableInv, WalkInv, ReadSector
    PROVE  WalkInv'
<1>1. /\ pc = "next" /\ pc' = pc /\ stack' = stack /\ image' = image /\ bytes' = bytes
      /\ top.index < entry_count /\ depth' = depth
  BY DEF ReadSector, Scanning, depth
<1> DEFINE s == top.sectors[sector_index + 1]
<1>2. \/ s \in DOMAIN image.dirs /\ cache' = image.dirs[s] /\ faults' = faults
      \/ s \in DOMAIN image.files /\ cache' = image.files[s] /\ faults' = faults
      \/ s \notin DOMAIN image.dirs \cup DOMAIN image.files /\ cache' = cache /\ faults' = faults
      \/ faults' = faults + 1 /\ cache' \in AnyContents
  BY DEF ReadSector
<1>3. faults \in Nat /\ RangeInv
  BY DEF WalkInv
<1>4. \A k \in 1 .. EntriesPerSector : cache'[k].cluster \in Word
  <2>1. image \in Images
    BY DEF TableInv
  <2>2. \A t \in DOMAIN image.dirs : \A k \in 1 .. EntriesPerSector : image.dirs[t][k].cluster \in Word
    BY <2>1, ImagesAssumption
  <2>3. \A t \in DOMAIN image.files : \A k \in 1 .. EntriesPerSector : image.files[t][k].cluster \in Word
    BY <2>1, ImagesAssumption
  <2>4. \A k \in 1 .. EntriesPerSector : NoEntries[k].cluster \in Word
    BY Words, Zenon DEF NoEntries
  <2>5. \A k \in 1 .. EntriesPerSector : cache[k].cluster \in Word
    BY <1>3 DEF RangeInv
  <2>6. ASSUME cache' \in AnyContents
        PROVE  \A k \in 1 .. EntriesPerSector : cache'[k].cluster \in Word
    BY <2>2, <2>4, <2>5, <2>6, MemoryAssumption DEF AnyContents
  <2> HIDE DEF s
  <2> QED BY <1>2, <2>2, <2>3, <2>5, <2>6
<1>5. faults' \in Nat
  BY <1>2, <1>3
<1>6. ASSUME faults' = 0
      PROVE  faults = 0 /\ RightInv /\ cache' \in RightContents
  <2>1. faults = 0 /\ RightInv
    BY <1>2, <1>3, <1>6 DEF WalkInv
  <2>2. s \in DirectorySector
    BY <1>1, <1>3, <2>1, SectorOfIndex DEF RangeInv, RightInv
  <2> HIDE DEF s
  <2>3. ~(faults' = faults + 1)
    BY <1>3, <1>6
  <2>4. ASSUME s \in DOMAIN image.files
        PROVE  s \notin DOMAIN image.dirs
    BY <2>4, ImagesAssumption DEF TableInv
  <2> QED BY <1>2, <2>1, <2>2, <2>3, <2>4 DEF DirectorySector, RightContents
<1>7. (Mounted' <=> Mounted) /\ (Intact' <=> Intact)
  BY <1>1 DEF Intact, Mounted
<1>8. RangeInv'
  BY <1>1, <1>3, <1>4, <1>7, SameVolume DEF RangeInv
<1> QED BY <1>1, <1>5, <1>6, <1>7, <1>8, SameVolume DEF WalkInv, RightInv

\* A step that leaves the reads alone and goes on in the stack.
LEMMA SkipWalk ==
    ASSUME TableInv, WalkInv, Skip
    PROVE  WalkInv'
<1>1. /\ pc = "next" /\ pc' = pc /\ image' = image /\ bytes' = bytes /\ cache' = cache
      /\ faults' = faults /\ stack' = [stack EXCEPT ![depth].index = top.index + 1]
  BY DEF Skip, Scanning, skipped
<1>2. (Mounted' <=> Mounted) /\ (Intact' <=> Intact)
  BY <1>1 DEF Intact, Mounted
<1>3. stack' \in Seq(Enumerator(VolumeSectors)) /\ depth' = depth
  BY <1>1, StackAdvances DEF WalkInv, RangeInv
<1>4. RightInv => stack' \in Seq(Enumerator(DirectorySector))
  BY <1>1, StackAdvances DEF WalkInv, RangeInv, RightInv
<1>5. RangeInv'
  BY <1>1, <1>2, <1>3, SameVolume DEF WalkInv, RangeInv
<1> QED BY <1>1, <1>2, <1>4, <1>5, SameVolume DEF WalkInv, RightInv

LEMMA LeaveWalk ==
    ASSUME TableInv, WalkInv, Leave
    PROVE  WalkInv'
<1>1. /\ pc = "next" /\ pc' = IF depth = 1 THEN "done" ELSE "next"
      /\ stack' = SubSeq(stack, 1, depth - 1) /\ faults' = faults
      /\ image' = image /\ bytes' = bytes /\ cache' = cache
  BY DEF Leave
<1>2. (Mounted' <=> Mounted) /\ (Intact' <=> Intact)
  BY <1>1 DEF Intact, Mounted
<1>3. stack' \in Seq(Enumerator(VolumeSectors)) /\ (depth # 1 => depth' > 0)
  BY <1>1, StackReturns DEF WalkInv, RangeInv
<1>4. RightInv => stack' \in Seq(Enumerator(DirectorySector))
  BY <1>1, StackReturns DEF WalkInv, RangeInv, RightInv
<1>5. RangeInv'
  BY <1>1, <1>2, <1>3, SameVolume DEF WalkInv, RangeInv, Mounted
<1> QED BY <1>1, <1>2, <1>4, <1>5, SameVolume DEF WalkInv, RightInv

LEMMA ListWalk ==
    ASSUME TableInv, WalkInv, ListEntry
    PROVE  WalkInv'
<1>1. /\ pc = "next" /\ image' = image /\ bytes' = bytes /\ cache' = cache /\ faults' = faults
      /\ stack' = [stack EXCEPT ![depth].index = top.index + 1]
      /\ entry.kind = "used" /\ pc' \in {"next", "children"}
  BY DEF ListEntry, Scanning, chain, top
<1>2. (Mounted' <=> Mounted) /\ (Intact' <=> Intact)
  BY <1>1 DEF Intact, Mounted
<1>3. stack' \in Seq(Enumerator(VolumeSectors)) /\ depth' = depth /\ depth > 0
  BY <1>1, StackAdvances DEF WalkInv, RangeInv
<1>4. RightInv => stack' \in Seq(Enumerator(DirectorySector))
  BY <1>1, StackAdvances DEF WalkInv, RangeInv, RightInv
<1>5. ASSUME pc' = "children"
      PROVE  Enters(entry) /\ cluster' = entry.cluster /\ _sectors' = <<>>
  <2>1. /\ file.name \notin {<<".">>, <<".", ".">>} /\ file.children
        /\ cluster' = file._firstCluster /\ _sectors' = <<>>
    BY <1>1, <1>5 DEF ListEntry
  <2> QED BY <1>1, <2>1 DEF Enters, file, FAT12Directory, FAT12File, FAT12Item
<1>6. ASSUME pc' = "children"
      PROVE  _sectors' \in Seq(VolumeSectors) /\ cluster' \in Word
  <2>1. PICK k \in 1 .. EntriesPerSector : entry = cache[k]
    BY <1>1, EntryOfCache DEF WalkInv
  <2> QED BY <1>5, <1>6, <2>1, EmptySeq DEF WalkInv, RangeInv
<1>7. ASSUME RightInv, pc' = "children"
      PROVE  _sectors' \in Seq(DirectorySector) /\ InChain(cluster')
  <2>1. cluster' \in DirectoryClusters(image)
    BY <1>1, <1>5, <1>7, EntryLeads DEF WalkInv
  <2>2. cluster' \in Nat
    BY <2>1, SizeOfTable DEF DirectoryClusters
  <2> QED BY <1>5, <1>7, <2>1, <2>2, EmptySeq DEF InChain
<1>8. RangeInv'
  BY <1>1, <1>2, <1>3, <1>6, SameVolume DEF WalkInv, RangeInv, Mounted
<1> QED BY <1>1, <1>2, <1>4, <1>7, <1>8, SameVolume DEF WalkInv, RightInv

LEMMA FollowWalk ==
    ASSUME TableInv, WalkInv, FollowChain
    PROVE  WalkInv'
<1>1. /\ pc = "children" /\ cluster # 1 /\ cluster <= Size
      /\ cluster' \in next_cluster(cluster) /\ _sectors' = added(cluster)
      /\ pc' \in {"exhausted", "children"} /\ depth' = depth
      /\ image' = image /\ bytes' = bytes /\ cache' = cache /\ stack' = stack /\ faults' = faults
  BY DEF FollowChain, listing, depth
<1>2. (Mounted' <=> Mounted) /\ (Intact' <=> Intact) /\ Mounted'
  BY <1>1 DEF Intact, Mounted
<1>3. _sectors' \in Seq(VolumeSectors) /\ cluster' \in Word
  <2>1. cluster \in Word
    BY <1>1 DEF WalkInv, RangeInv
  <2> QED BY <1>1, <1>2, <2>1, AddedInVolume, NextIsWord DEF WalkInv
<1>4. ASSUME RightInv
      PROVE  _sectors' \in Seq(DirectorySector) /\ InChain(cluster')
  <2>1. _sectors \in Seq(DirectorySector) /\ InChain(cluster) /\ cluster \in Nat
    BY <1>1, <1>4 DEF RightInv, InChain
  <2>2. /\ cluster \in DirectoryClusters(image)
        /\ \A d \in next_cluster(cluster) : InChain(d)
    BY <1>1, <1>2, <1>4, <2>1, ChainGoesOn DEF RightInv
  <2> QED BY <1>1, <2>1, <2>2, AddedInDirectory
<1>5. RangeInv'
  BY <1>1, <1>2, <1>3, SameVolume DEF WalkInv, RangeInv
<1> QED BY <1>1, <1>2, <1>4, <1>5, SameVolume DEF WalkInv, RightInv

LEMMA DescendWalk ==
    ASSUME TableInv, WalkInv, Descend
    PROVE  WalkInv'
<1>1. /\ pc = "children" /\ cluster # 1 /\ cluster <= Size
      /\ stack' = Append(stack, [sectors |-> added(cluster), index |-> 0])
      /\ pc' \in {"exhausted", "next"}
      /\ image' = image /\ bytes' = bytes /\ cache' = cache /\ faults' = faults
  BY DEF Descend
<1>2. (Mounted' <=> Mounted) /\ (Intact' <=> Intact) /\ Mounted'
  BY <1>1 DEF Intact, Mounted
<1>3. stack' \in Seq(Enumerator(VolumeSectors)) /\ depth' > 0
  <2>1. added(cluster) \in Seq(VolumeSectors) /\ stack \in Seq(Enumerator(VolumeSectors))
    BY <1>1, AddedInVolume DEF WalkInv, RangeInv
  <2> QED BY <1>1, <2>1, StackGrows
<1>4. ASSUME RightInv
      PROVE  stack' \in Seq(Enumerator(DirectorySector))
  <2>1. /\ stack \in Seq(Enumerator(DirectorySector))
        /\ _sectors \in Seq(DirectorySector) /\ InChain(cluster) /\ cluster \in Nat
    BY <1>1, <1>4 DEF RightInv, InChain
  <2>2. cluster \in DirectoryClusters(image)
    BY <1>1, <1>2, <1>4, <2>1, ChainGoesOn DEF RightInv
  <2>3. added(cluster) \in Seq(DirectorySector)
    BY <2>1, <2>2, AddedInDirectory
  <2> QED BY <1>1, <2>1, <2>3, StackGrows
<1>5. RangeInv'
  BY <1>1, <1>2, <1>3, SameVolume DEF WalkInv, RangeInv
<1> QED BY <1>1, <1>2, <1>4, <1>5, SameVolume DEF WalkInv, RightInv

\* Stopping changes nothing that the invariant is about.
LEMMA StopWalk ==
    ASSUME TableInv, WalkInv,
           RefuseMount \/ PanicAtMount \/ PanicInChain \/ Stopped \/ UNCHANGED vars
    PROVE  WalkInv'
<1>1. /\ image' = image /\ bytes' = bytes /\ cache' = cache /\ faults' = faults
      /\ stack' = stack /\ _sectors' = _sectors /\ cluster' = cluster /\ depth' = depth
      /\ pc' = pc \/ pc' \in {"null", "panic"}
  BY DEF RefuseMount, PanicAtMount, PanicInChain, Stopped, Stop, panic, vars, listing, chain,
         depth
<1>2. (Mounted' => Mounted) /\ (Intact /\ Mounted' => Intact') /\ (pc' = pc => (Mounted' <=> Mounted))
  BY <1>1 DEF Intact, Mounted
<1>3. RangeInv'
  BY <1>1, <1>2, SameVolume DEF WalkInv, RangeInv
<1> QED BY <1>1, <1>2, <1>3, SameVolume DEF WalkInv, RightInv

LEMMA WalkInit == Init => WalkInv
<1> SUFFICES ASSUME Init PROVE WalkInv
  OBVIOUS
<1>1. stack = <<>> /\ pc = "mount" /\ cache = NoEntries /\ faults = 0 /\ ~Mounted
  BY DEF Init, Mounted
<1>2. RangeInv
  <2>1. \A k \in 1 .. EntriesPerSector : NoEntries[k].cluster \in Word
    BY Words, Zenon DEF NoEntries
  <2> QED BY <1>1, <2>1, EmptySeq DEF RangeInv
<1>3. RightInv
  BY <1>1, EmptySeq DEF RightInv, RightContents
<1> QED BY <1>1, <1>2, <1>3 DEF WalkInv

LEMMA WalkStep == TableInv /\ WalkInv /\ [Next]_vars => WalkInv'
<1> SUFFICES ASSUME TableInv, WalkInv, [Next]_vars PROVE WalkInv'
  OBVIOUS
<1> QED BY MountWalk, ReadWalk, SkipWalk, LeaveWalk, ListWalk, FollowWalk, DescendWalk,
           StopWalk DEF Next

\* FAT12DirectoryEnum: where the enumerators are.
LEMMA EnumeratorsInPlace ==
    ASSUME WalkInv
    PROVE  OnlyDirectories
<1>1. ASSUME NEW S, stack \in Seq(Enumerator(S)),
             NEW i \in 1 .. depth, NEW j \in 1 .. Len(stack[i].sectors)
      PROVE  stack[i].sectors[j] \in S
  <2>1. stack[i] \in Enumerator(S)
    BY <1>1, ElementOfSeq DEF depth
  <2>2. stack[i].sectors \in Seq(S)
    BY <2>1 DEF Enumerator
  <2> QED BY <2>2, ElementOfSeq
<1> SUFFICES ASSUME NEW i \in 1 .. depth, NEW j \in 1 .. Len(stack[i].sectors)
             PROVE  /\ faults = 0 => stack[i].sectors[j] \in DOMAIN image.dirs
                    /\ stack[i].sectors[j] \in VolumeSectors
  BY DEF OnlyDirectories
<1>2. stack[i].sectors[j] \in VolumeSectors
  BY <1>1 DEF WalkInv, RangeInv
<1>3. faults = 0 => stack[i].sectors[j] \in DirectorySector
  BY <1>1 DEF WalkInv, RightInv
<1> QED BY <1>2, <1>3 DEF DirectorySector

\* FAT12DirectoryEnum, next_cluster and sector_from_cluster: while the reads are
\* right, on every volume with chained directories, dirtree never takes the sector
\* of a file for a directory's; and when they are not, whatever bytes the buffers,
\* the table and the memory behind it hold, it asks for no sector outside the root
\* directory and the clusters that the table has.
THEOREM WalkStaysInDirectories == Spec => []OnlyDirectories
<1>1. Spec => []WalkInv
  BY WalkInit, WalkStep, TableInvariant, PTL DEF Spec
<1>2. WalkInv => OnlyDirectories
  BY EnumeratorsInPlace
<1> QED BY <1>1, <1>2, PTL
=============================================================================
