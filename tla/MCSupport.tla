----------------------------- MODULE MCSupport -----------------------------
(***************************************************************************)
(* Support on small instances.  Memory: six bytes that hold 0 or 1, in an  *)
(* address space of four lines; a screen of two lines of one character.    *)
(* Words of output have three digits, those of the conversions four bits.  *)
(* Two page faults may nest within a handler.                              *)
(***************************************************************************)
EXTENDS Support, TLC

\* Around the powers of 10 and 16, the largest int and the least below 0.
WordsPassed == {<<0, 9, 10, 4095>>, <<4095, 16, 19, 7>>, <<2047, 10, 1, 0>>}

\* Around the limits of the four integral types and around the powers of 10.
NumbersRead ==
    {-257, -129, -128, -100, -16, -9, -8, -1, 0, 3, 7, 8, 10, 15, 16, 99, 127, 128, 255, 256}
=============================================================================
