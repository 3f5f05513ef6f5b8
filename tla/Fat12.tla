------------------------------- MODULE Fat12 -------------------------------
(***************************************************************************)
(* Mounting a FAT12 volume and listing its tree, as kmain does:            *)
(* FAT12FileSystem::tryCreate reads the table, dirtree (src/kernel.cpp)    *)
(* enumerates a directory and goes down into each directory it meets,      *)
(* FAT12DirectoryEnum follows the cluster chain of a directory.            *)
(*                                                                         *)
(* Nobody looks at the result of IBlockDevice::read. A read of a           *)
(* directory that fails leaves the buffer as it was, which is memory of    *)
(* the stack that nobody has written; one that succeeds may give stale     *)
(* data after a failure (CopiesTheCylinder in Floppy), of any sector.      *)
(* Either way the entries are arbitrary and may name any cluster. A read   *)
(* of the table stops short and leaves zeros. The boot record has been     *)
(* read without fault.                                                     *)
(***************************************************************************)
EXTENDS Fat12Table, Sequences

CONSTANTS
    Images,              \* the volumes to mount
    Garbage,             \* what a sector buffer may hold that is no directory's sector
    WordsBehind,         \* what memory may hold behind the vector fat_
    EntriesPerSector,    \* 16
    SectorsPerCluster,
    RootSector,          \* ReservedSectorCount + NumFATs * FATSize
    RootSectors,         \* numRootDirectorySectors
    MaxFaults,           \* bound: reads that go wrong
    MaxSectors, MaxDepth \* bounds: where memory, or the stack, is exhausted

ASSUME GeometryAssumption ==
    /\ EntriesPerSector \in Nat \ {0} /\ SectorsPerCluster \in Nat \ {0}
    /\ RootSector \in Nat \ {0} /\ RootSectors \in Nat
    /\ MaxFaults \in Nat /\ MaxSectors \in Nat /\ MaxDepth \in Nat \ {0}

Word == 0 .. 65535    \* uint16_t: cluster_id, FileSystemClusterLogical

\* A volume: the type in its boot record as characters, the bytes of its table,
\* the entries of its directory sectors, what the data of files would be as
\* entries, and, for reference, the names in the order of a listing.
ASSUME ImagesAssumption ==
    \A v \in Images :
        /\ v.type \in Seq(STRING) /\ Len(v.type) >= 5
        /\ v.bytes \in Seq(Byte) /\ Len(v.bytes) >= 3
        /\ \A d \in {v.dirs, v.files} : \A s \in DOMAIN d :
              /\ Len(d[s]) = EntriesPerSector
              /\ \A k \in 1 .. EntriesPerSector : d[s][k].cluster \in Word
        /\ DOMAIN v.dirs \cap DOMAIN v.files = {}
        /\ v.listing \in Seq(Seq(STRING))

\* Nothing is known of the memory of the stack and of that behind a vector but
\* the width of what is read there.
ASSUME MemoryAssumption ==
    /\ \A g \in Garbage : /\ Len(g) = EntriesPerSector
                          /\ \A k \in 1 .. EntriesPerSector : g[k].cluster \in Word
    /\ WordsBehind \subseteq Word

VARIABLES
    image,     \* the volume in the drive
    pc,
    bytes,     \* the table as it was read
    fat_,      \* and unpacked
    stack,     \* the enumerators of dirtree's calls: _sectors and _index
    _sectors,  \* of the enumerator under construction
    cluster,   \* where it is in the chain
    cached,    \* sector_cache_index, None at the start of next()
    cache,     \* sector_cache
    printed,   \* history: the names listed before a read went wrong
    faults     \* history: reads that went wrong

listing == <<stack, cached, cache, printed>>
chain == <<_sectors, cluster>>
vars == <<image, pc, bytes, fat_, listing, chain, faults>>

None == -1
Groups == Len(image.bytes) \div 3
Size == 2 * Groups    \* fat_.size()

\* An entry of a directory: in use, deleted or the end (by the first character of
\* its name), the two parts of its name padded with blanks, its attribute and its
\* first cluster.
NoEntries == [k \in 1 .. EntriesPerSector |->
                 [kind |-> "end", base |-> <<>>, extension |-> <<>>,
                  ATTR_DIRECTORY |-> FALSE, cluster |-> 0]]

\* What a sector buffer may hold besides the sector that was asked for.
AnyContents == {image.dirs[s] : s \in DOMAIN image.dirs} \cup {NoEntries, cache} \cup Garbage

Init == /\ image \in Images
        /\ pc = "mount"
        /\ bytes = <<>> /\ fat_ = <<>>
        /\ stack = <<>> /\ _sectors = <<>> /\ cluster = 0
        /\ cached = None /\ cache = NoEntries
        /\ printed = <<>> /\ faults = 0

Stop(reason) == pc' = reason /\ UNCHANGED <<bytes, fat_, listing, chain, faults>>

-----------------------------------------------------------------------------
\* strncmp( s1, s2, count ) = 0: the pointers are not advanced, so that the first
\* characters are compared count times.
strncmp_equal(s1, s2) == s1[1] = s2[1]

\* kmain uses the pointer that tryCreate returns without a check.
RefuseMount == /\ pc = "mount"
               /\ ~strncmp_equal(image.type, <<"F", "A", "T", "1", "2">>)
               /\ Stop("null")
               /\ UNCHANGED image

\* It prints and does not return.
panic == Stop("panic")

\* FAT12FAT::read panics on a length that is no multiple of 3.
PanicAtMount == /\ pc = "mount"
                /\ strncmp_equal(image.type, <<"F", "A", "T", "1", "2">>)
                /\ Len(image.bytes) % 3 # 0
                /\ panic
                /\ UNCHANGED image

\* The bytes of the table when only the first `good` of them could be read; the
\* vector is zero before.
AsRead(good) == [k \in 0 .. (Len(image.bytes) - 1) |->
                    IF k < good THEN image.bytes[k + 1] ELSE 0]

RootFrame == [sectors |-> [i \in 1 .. RootSectors |-> RootSector + i - 1], index |-> 0]

\* The constructor, root_directory and the call of dirtree.
Mount ==
    /\ pc = "mount"
    /\ strncmp_equal(image.type, <<"F", "A", "T", "1", "2">>)
    /\ Len(image.bytes) % 3 = 0
    /\ \E good \in 0 .. Len(image.bytes) :
          /\ faults' = IF good = Len(image.bytes) THEN faults ELSE faults + 1
          /\ bytes' = AsRead(good)
    /\ faults' <= MaxFaults
    /\ fat_' = unpacked(bytes', Groups)
    /\ stack' = <<RootFrame>>
    /\ pc' = "next"
    /\ UNCHANGED <<image, cached, cache, printed, chain>>

-----------------------------------------------------------------------------
\* FAT12DirectoryEnumBase::next, for the innermost call of dirtree.
depth == Len(stack)
top == stack[depth]
entry_count == Len(top.sectors) * EntriesPerSector
sector_index == top.index \div EntriesPerSector
entry == cache[(top.index % EntriesPerSector) + 1]

\* Mutant: the sector is read once per call.
must_read_Once == cached = None
must_read == cached # sector_index

Scanning == pc = "next" /\ top.index < entry_count

\* The sector of a directory; a file's, taken for one; one that is not on the disk,
\* which leaves the buffer as it was; and a read that goes wrong.
ReadSector ==
    /\ Scanning /\ must_read
    /\ cached' = sector_index
    /\ LET s == top.sectors[sector_index + 1]
       IN  \/ s \in DOMAIN image.dirs /\ cache' = image.dirs[s] /\ faults' = faults
           \/ s \in DOMAIN image.files /\ cache' = image.files[s] /\ faults' = faults
           \/ /\ s \notin DOMAIN image.dirs \cup DOMAIN image.files
              /\ UNCHANGED <<cache, faults>>
           \/ /\ faults < MaxFaults /\ faults' = faults + 1
              /\ cache' \in AnyContents
    /\ UNCHANGED <<image, pc, bytes, fat_, stack, printed, chain>>

\* Mutant: the index is not advanced over a deleted entry.
skipped_Stays == top.index
skipped == top.index + 1

Skip == /\ Scanning /\ ~must_read /\ entry.kind = "deleted"
        /\ stack' = [stack EXCEPT ![depth].index = skipped]
        /\ UNCHANGED <<image, pc, bytes, fat_, cached, cache, printed, chain, faults>>

\* next returns false, for an entry that is empty or after the last one; dirtree
\* returns to its caller, which calls next of its own enumerator.
Leave == /\ pc = "next"
         /\ \/ top.index >= entry_count
            \/ Scanning /\ ~must_read /\ entry.kind = "end"
         /\ stack' = SubSeq(stack, 1, depth - 1)
         /\ cached' = None
         /\ pc' = IF depth = 1 THEN "done" ELSE "next"
         /\ UNCHANGED <<image, bytes, fat_, cache, printed, chain, faults>>

\* A part of a name without its blanks.
extract_fn_part(part) == SelectSeq(part, LAMBDA ch : ch # " ")

\* A point between the parts, or a zero in its place when it comes last.
extract_file_name(e) ==
    LET name == extract_fn_part(e.base) \o <<".">> \o extract_fn_part(e.extension)
    IN  IF name[Len(name)] = "." THEN SubSeq(name, 1, Len(name) - 1) ELSE name

\* What next makes of an entry.  A file's children are nullptr, a directory's an
\* enumerator that begins at its first cluster.
FAT12Item(e, children) ==
    [name |-> extract_file_name(e), _firstCluster |-> e.cluster, children |-> children]
FAT12File(e) == FAT12Item(e, FALSE)
FAT12Directory(e) == FAT12Item(e, TRUE)
file == IF entry.ATTR_DIRECTORY THEN FAT12Directory(entry) ELSE FAT12File(entry)

\* next returns an entry; dirtree prints it and, unless it is called "." or "..",
\* asks for its children.
ListEntry ==
         /\ Scanning /\ ~must_read /\ entry.kind = "used"
         /\ printed' = IF faults = 0 THEN Append(printed, file.name) ELSE printed
         /\ stack' = [stack EXCEPT ![depth].index = @ + 1]
         /\ cached' = None
         /\ IF file.name \notin {<<".">>, <<".", ".">>} /\ file.children
            THEN pc' = "children" /\ cluster' = file._firstCluster /\ _sectors' = <<>>
            ELSE UNCHANGED <<pc, chain>>
         /\ UNCHANGED <<image, bytes, fat_, cache, faults>>

-----------------------------------------------------------------------------
\* The constructor of FAT12DirectoryEnum.

\* Mutant: clusters are counted from 0.
sector_from_cluster_Zero(c) == IF c = 0 THEN RootSector
                               ELSE RootSector + RootSectors + c * SectorsPerCluster
sector_from_cluster(c) == IF c = 0 THEN RootSector
                          ELSE RootSector + RootSectors + (c - 2) * SectorsPerCluster

added(c) == _sectors \o [i \in 1 .. SectorsPerCluster |-> sector_from_cluster(c) + i - 1]

\* next_cluster, for a cluster it does not panic about: the one past the last is
\* read from behind the vector.
next_cluster(c) == IF c = Size THEN WordsBehind ELSE {fat_[c]}

last(c) == c \in {4080, 4095}    \* 0xFF0, 0xFFF

\* "There is no cluster 1 in FAT12", "Access outside bounds of FAT".
PanicInChain == /\ pc = "children"
                /\ cluster = 1 \/ cluster > Size
                /\ panic
                /\ UNCHANGED image

\* One round of the loop that is not the last.  The vector of sectors grows until
\* there is no memory for it.
FollowChain ==
    /\ pc = "children" /\ cluster # 1 /\ cluster <= Size
    /\ \E c \in next_cluster(cluster) : ~last(c) /\ cluster' = c
    /\ _sectors' = added(cluster)
    /\ pc' = IF Len(_sectors') > MaxSectors THEN "exhausted" ELSE "children"
    /\ UNCHANGED <<image, bytes, fat_, listing, faults>>

\* The last round: dirtree calls itself for the new enumerator.
Descend ==
    /\ pc = "children" /\ cluster # 1 /\ cluster <= Size
    /\ \E c \in next_cluster(cluster) : last(c)
    /\ stack' = Append(stack, [sectors |-> added(cluster), index |-> 0])
    /\ cached' = None
    /\ pc' = IF depth = MaxDepth THEN "exhausted" ELSE "next"
    /\ UNCHANGED <<image, bytes, fat_, cache, printed, chain, faults>>

\* while( 1 ), a panic, or a kernel that has lost its memory.
Stopped == pc \in {"done", "panic", "null", "exhausted"} /\ UNCHANGED vars

Next == \/ RefuseMount \/ PanicAtMount \/ Mount
        \/ ReadSector \/ Skip \/ Leave \/ ListEntry
        \/ PanicInChain \/ FollowChain \/ Descend
        \/ Stopped

Spec == Init /\ [][Next]_vars
FairSpec == Spec /\ WF_vars(Next)

-----------------------------------------------------------------------------
\* The volumes, as they were formatted and written: the sectors of the root
\* directory are directory sectors, cluster 2 is the first behind them, and each
\* directory's clusters are chained and hold directory sectors.
Table(v) == unpacked([k \in 0 .. (Len(v.bytes) - 1) |-> v.bytes[k + 1]],
                     Len(v.bytes) \div 3)

TableSize(v) == 2 * (Len(v.bytes) \div 3)

DirectoryClusters(v) ==
    {c \in 2 .. (TableSize(v) - 1) :
        \A i \in 0 .. (SectorsPerCluster - 1) :
            RootSector + RootSectors + (c - 2) * SectorsPerCluster + i \in DOMAIN v.dirs}

Enters(e) == /\ e.kind = "used" /\ e.ATTR_DIRECTORY
             /\ extract_file_name(e) \notin {<<".">>, <<".", ".">>}

\* A chain ends with a number that is no cluster's.  The numbers of the sectors,
\* which the enumerators keep as uint16_t, have 16 bits.
ASSUME VolumesAssumption ==
    \A v \in Images :
        /\ RootSector + RootSectors + (TableSize(v) - 1) * SectorsPerCluster <= 256 * 256
        /\ \A i \in 0 .. (RootSectors - 1) : RootSector + i \in DOMAIN v.dirs
        /\ \A s \in DOMAIN v.dirs : \A k \in 1 .. EntriesPerSector :
              Enters(v.dirs[s][k]) => v.dirs[s][k].cluster \in DirectoryClusters(v)
        /\ \A c \in DirectoryClusters(v) :
              \/ Table(v)[c] \in DirectoryClusters(v) \cup {1}
              \/ Table(v)[c] > TableSize(v)

-----------------------------------------------------------------------------
Mounted == pc \in {"next", "children", "done", "exhausted"}

\* "WRITE SUCCESS": packing the table gives back the bytes it was read from,
\* whatever they are.
WriteSuccess == Mounted => packed(fat_, Groups) = bytes

\* While no read goes wrong dirtree lists every entry of the tree, once and in
\* order, across deleted entries, sectors and clusters, and none of those behind
\* the end of a directory.
ListsTheTree ==
    faults = 0 =>
        /\ printed = SubSeq(image.listing, 1, Len(printed))
        /\ pc = "done" => printed = image.listing

Intact == Mounted /\ \A k \in 0 .. (Len(image.bytes) - 1) : bytes[k] = image.bytes[k + 1]

\* The sectors that a table of this size has clusters for; next_cluster lets one
\* cluster past the end through.
VolumeSectors ==
    RootSector .. (RootSector + RootSectors + (Size - 1) * SectorsPerCluster - 1)

\* While no read goes wrong nothing but the sectors of directories is ever taken
\* for one.  Whatever the buffers and the table hold after a read that did, no
\* enumerator goes through a sector outside the root directory and the clusters
\* that the table has.
OnlyDirectories ==
    \A i \in 1 .. depth : \A j \in 1 .. Len(stack[i].sectors) :
        /\ faults = 0 => stack[i].sectors[j] \in DOMAIN image.dirs
        /\ stack[i].sectors[j] \in VolumeSectors

\* A wrong read has sent the walk to a cluster that is no directory's.
Astray == \E s \in UNION ({{_sectors[j] : j \in 1 .. Len(_sectors)}}
                \cup {{stack[i].sectors[j] : j \in 1 .. Len(stack[i].sectors)} : i \in 1 .. depth}) :
              s \notin DOMAIN image.dirs

\* With an intact table, the recursion comes to an end, or to a panic, although
\* directories that were read wrongly may send it anywhere in the tree, to its
\* own ancestors too; unless they send it out of the tree, where a file's data are
\* taken for entries and the recursion need not end.
WalkEnds == Intact ~> (pc \in {"done", "panic"} \/ Astray)
=============================================================================
