------------------------------ MODULE MCAtomics ------------------------------
(***************************************************************************)
(* The users of the interlocked operations in one run: the first state     *)
(* chooses whether tasks print under the lock (SpinLock), share counters   *)
(* (Interlocked64) or share an object (SharedCount); the variables of the  *)
(* others then keep their values.                                          *)
(***************************************************************************)
EXTENDS Atomics

CONSTANTS A, B, C, p1, p2, p3

VARIABLE model    \* "lock", "counter" or "pointers"

\* The two tasks kmain can start.
TwoTasks == {A, B}

\* Six calls around the wrap: increments from 14 pass 15, 0 and the carry from
\* the low half into the high one, any number of the tasks decrement instead.
ThreeTasks == {A, B, C}
UpAndDown == {1, -1}

Pointers == {p1, p2, p3}

AtomicsInit == /\ Init /\ Tasks!Init /\ Counter!Init
               /\ kind[p1] = "shared"
               /\ model \in {"lock", "counter", "pointers"}
               /\ model # "counter" => n_delta = [t \in Caller |-> 1]
                                       /\ n_first = [t \in Caller |-> "lo"]

AtomicsNext ==
    /\ \/ model = "lock" /\ Tasks!Next /\ UNCHANGED <<n_vars, vars>>
       \/ model = "counter" /\ Counter!Next /\ UNCHANGED <<t_vars, vars>>
       \/ model = "pointers" /\ Next /\ UNCHANGED <<t_vars, n_vars>>
    /\ UNCHANGED model

\* The fairness of SpinLock, for the runs that are its own.
AtomicsSpec ==
    /\ AtomicsInit /\ [][AtomicsNext]_<<vars, t_vars, n_vars, model>>
    /\ model = "lock" => Tasks!Fairness

\* See SpinLock: no task spins for ever on the lock of one that was preempted.
TasksFinish == model = "lock" => Tasks!EveryTaskFinishes
==============================================================================
