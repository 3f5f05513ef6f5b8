------------------------------ MODULE MCFat12 ------------------------------
(***************************************************************************)
(* Small volumes for model checking Fat12: two entries in a sector, two    *)
(* sectors in a cluster, the root directory in sectors 3 and 4, clusters 2 *)
(* to 5 in sectors 5 to 12.                                                *)
(***************************************************************************)
EXTENDS Fat12, TLC

\* Parts of names have three characters and two, padded with blanks.  A directory
\* may have an extension too.
Entry(kind, base, extension, directory, c) ==
    [kind |-> kind, base |-> base, extension |-> extension,
     ATTR_DIRECTORY |-> directory, cluster |-> c]
File(ch) == Entry("used", <<ch, " ", " ">>, <<" ", " ">>, FALSE, 0)
Typed(ch, type) == Entry("used", <<ch, ch, ch>>, <<type, " ">>, FALSE, 0)
Deleted == Entry("deleted", <<"?", " ", " ">>, <<"x", "y">>, FALSE, 0)
End == Entry("end", <<" ", " ", " ">>, <<" ", " ">>, FALSE, 0)
Dot(c) == Entry("used", <<".", " ", " ">>, <<" ", " ">>, TRUE, c)
DotDot(c) == Entry("used", <<".", ".", " ">>, <<" ", " ">>, TRUE, c)
Directory(ch, c) == Entry("used", <<ch, "d", " ">>, <<" ", " ">>, TRUE, c)

FAT12 == <<"F", "A", "T", "1", "2">>
NTFS == <<"N", "T", "F", "S", " ">>

\* BD in clusters 2 and 4, with a directory in cluster 5 that has no end; an
\* entry behind the end of BD.
NestedDirs ==
    3 :> <<Directory("b", 2), Deleted>> @@ 4 :> <<Typed("k", "l"), End>> @@
    5 :> <<Dot(2), DotDot(0)>> @@ 6 :> <<File("1"), Deleted>> @@
    9 :> <<Directory("s", 5), File("m")>> @@ 10 :> <<End, File("g")>> @@
    11 :> <<Dot(5), DotDot(2)>> @@ 12 :> <<File("x"), File("y")>>
NestedBytes == <<240, 255, 255, 4, 240, 255, 255, 255, 255>>
NestedListing == << <<"b", "d">>, <<".">>, <<".", ".">>, <<"1">>,
                    <<"s", "d">>, <<".">>, <<".", ".">>, <<"x">>, <<"y">>,
                    <<"m">>, <<"k", "k", "k", ".", "l">> >>
\* The data of a file that looks like a directory which contains itself.
Data == 7 :> <<Directory("q", 3), Directory("q", 4)>> @@ 8 :> <<Deleted, File("q")>>
Nested == [type |-> FAT12, bytes |-> NestedBytes, dirs |-> NestedDirs, files |-> Data,
           listing |-> NestedListing]

\* A full root directory; the chain of its directory goes back from 5 to 3 and
\* ends with 0xFF0.
Backward ==
    [type |-> FAT12, bytes |-> <<240, 255, 255, 0, 0, 255, 0, 48, 0>>,
     dirs |-> 3 :> <<File("a"), File("b")>> @@ 4 :> <<Directory("c", 5), File("d")>> @@
              11 :> <<Dot(5), DotDot(0)>> @@ 12 :> <<Deleted, Deleted>> @@
              7 :> <<Deleted, File("e")>> @@ 8 :> <<End, End>>,
     files |-> 5 :> <<Directory("q", 6), End>> @@ 6 :> <<End, End>>,
     listing |-> << <<"a">>, <<"b">>, <<"c", "d">>, <<".">>, <<".", ".">>, <<"e">>, <<"d">> >>]

\* The chain ends with 0xFF8, which the kernel takes for a cluster.
OtherMarker == [Nested EXCEPT !.bytes = <<240, 255, 255, 248, 255, 255, 255, 255, 255>>,
                              !.listing = << <<"b", "d">> >>]

\* A table of 7 sectors, as on a disk of 1.2 MB, does not divide by 3.
OddLength == [Nested EXCEPT !.bytes = Append(NestedBytes, 0)]

NotFat == [Nested EXCEPT !.type = NTFS]

\* What wrong reads may give: a directory in a cluster that is free, the root
\* directory's, its parent's or its own, the one behind the table, ones that there
\* are not; and the words behind the table.
Junk == {<<Directory("j", 3), End>>, <<Deleted, Directory("j", 0)>>,
         <<Directory("j", 2), Directory("j", 5)>>, <<Directory("j", 6), End>>,
         <<Directory("j", 1), End>>, <<Directory("j", 65535), End>>}
Words == {0, 3, 4095, 65535}

Volumes == {Nested, Backward, OtherMarker, OddLength, NotFat}
=============================================================================
