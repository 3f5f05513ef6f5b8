------------------------------ MODULE MCTerminal ------------------------------
(***************************************************************************)
(* Terminal on a small instance: kmain prints a directory's names; two     *)
(* shift keys, a lock, a letter, Enter and an arrow key.                   *)
(***************************************************************************)
EXTENDS Terminal

\* A name that wraps, a newline (NL), and another name.
Names == << << <<"a">>, <<"b">>, <<"newline">> >>, << <<"c">> >> >>

KeysPressed == {42, 54, 58, 30, 28, 328}
===============================================================================
