----------------------------- MODULE Fat12Table -----------------------------
(***************************************************************************)
(* The packing of the FAT12 table, src/FAT12FAT.h: three bytes hold two    *)
(* entries of 12 bits.  Bytes and entries are functions from 0; n is the   *)
(* number of groups of three bytes.                                        *)
(***************************************************************************)
EXTENDS Integers

Byte == 0 .. 255
Entry12 == 0 .. 4095

\* FAT12FAT::read: the entries u and v of each group.
unpacked(b, n) ==
    [c \in 0 .. (2 * n - 1) |->
        LET i == 3 * (c \div 2)
        IN  IF c % 2 = 0 THEN b[i] + 256 * (b[i + 1] % 16)
                         ELSE 16 * b[i + 2] + (b[i + 1] \div 16)]

\* Mutant of write: the halves of the middle byte are swapped.
packed_Swapped(f, n) ==
    [k \in 0 .. (3 * n - 1) |->
        LET u == f[2 * (k \div 3)]
            v == f[2 * (k \div 3) + 1]
        IN  IF k % 3 = 0 THEN u % 256
            ELSE IF k % 3 = 1 THEN (16 * ((u \div 256) % 16)) + (v % 16)
            ELSE (v \div 16) % 256]

\* FAT12FAT::write: the bytes of the entries.
packed(f, n) ==
    [k \in 0 .. (3 * n - 1) |->
        LET u == f[2 * (k \div 3)]
            v == f[2 * (k \div 3) + 1]
        IN  IF k % 3 = 0 THEN u % 256
            ELSE IF k % 3 = 1 THEN ((u \div 256) % 16) + (16 * (v % 16))
            ELSE (v \div 16) % 256]
=============================================================================
