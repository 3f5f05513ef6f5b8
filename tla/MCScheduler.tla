---------------------------- MODULE MCScheduler ----------------------------
(***************************************************************************)
(* Constant values for model checking Scheduler.                           *)
(***************************************************************************)
EXTENDS Scheduler

\* Timer, keyboard, the line the system call shares, and the first line of the
\* second controller.
Lines == {0, 1, 3, 8}
SecondTask == {2}
=============================================================================
