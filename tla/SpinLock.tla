------------------------------ MODULE SpinLock ------------------------------
(***************************************************************************)
(* Tasks running counting_test (src/kernel.cpp) under preemption: each     *)
(* counts in a variable of its own and in global_counter, which no lock    *)
(* protects, and now and then prints under printing_cs, the spin lock of   *)
(* interlocked::enter and leave (src/interlocked.h).                       *)
(*                                                                         *)
(* A step is what one task does between two points where the timer may     *)
(* switch to another: one access to shared memory.                         *)
(***************************************************************************)
EXTENDS Integers

CONSTANTS
    Task,
    Iterations,   \* 100'000'000 in the source
    Interval      \* 1'000'000: iterations between two reports

VARIABLES
    pc,
    local,            \* count_a, count_b
    i,                \* the loop counter
    loaded,           \* global_counter as loaded by the += of a task
    global_counter,
    printing_cs       \* 0 or 1

vars == <<pc, local, i, loaded, global_counter, printing_cs>>

Init == /\ pc = [t \in Task |-> "count"]
        /\ local = [t \in Task |-> 0]
        /\ i = [t \in Task |-> 1]
        /\ loaded = [t \in Task |-> 0]
        /\ global_counter = 0
        /\ printing_cs = 0

Goto(t, from, to) == pc[t] = from /\ pc' = [pc EXCEPT ![t] = to]

\* local += 1, then the load of global_counter += 1.
Load(t) == /\ Goto(t, "count", "store")
           /\ local' = [local EXCEPT ![t] = @ + 1]
           /\ loaded' = [loaded EXCEPT ![t] = global_counter]
           /\ UNCHANGED <<i, global_counter, printing_cs>>

Report(t) == i[t] % Interval = 0
Last(t) == i[t] = Iterations

Stored(t) == loaded[t] + 1

\* The store of global_counter += 1; where the loop goes from there.
Store(t) == /\ Goto(t, "store", IF Report(t) THEN "enter"
                                ELSE IF Last(t) THEN "enter_done" ELSE "count")
            /\ global_counter' = Stored(t)
            /\ i' = IF Report(t) \/ Last(t) THEN i ELSE [i EXCEPT ![t] = @ + 1]
            /\ UNCHANGED <<local, loaded, printing_cs>>

\* Mutant: enter ignores the value it exchanged out.
Acquire_Blind(t, from, to) == Goto(t, from, to) /\ printing_cs' = 1

\* interlocked_exchange: one xchg.
exchange(x) == printing_cs' = x

\* interlocked::enter: exchange until the value exchanged out is 0.
Acquire(t, from, to) ==
    /\ pc[t] = from
    /\ exchange(1)
    /\ pc' = IF printing_cs > 0 THEN pc ELSE [pc EXCEPT ![t] = to]

\* Mutant: leave does not reset the lock.
Release_Lost(t, from, to) == Goto(t, from, to) /\ printing_cs' = printing_cs

\* interlocked::leave.
Release(t, from, to) == Goto(t, from, to) /\ exchange(0)

Enter(t) == /\ Acquire(t, "enter", "print")
            /\ UNCHANGED <<local, i, loaded, global_counter>>

\* The report itself, some output to the debug port.
PrintReport(t) == /\ Goto(t, "print", "leave")
                  /\ UNCHANGED <<local, i, loaded, global_counter, printing_cs>>

\* leave, and the loop's ++i.
Leave(t) == /\ Release(t, "leave", IF Last(t) THEN "enter_done" ELSE "count")
            /\ i' = IF Last(t) THEN i ELSE [i EXCEPT ![t] = @ + 1]
            /\ UNCHANGED <<local, loaded, global_counter>>

\* The DONE report after the loop.
EnterDone(t) == /\ Acquire(t, "enter_done", "print_done")
                /\ UNCHANGED <<local, i, loaded, global_counter>>

PrintDone(t) == /\ Goto(t, "print_done", "leave_done")
                /\ UNCHANGED <<local, i, loaded, global_counter, printing_cs>>

LeaveDone(t) == /\ Release(t, "leave_done", "done")
                /\ UNCHANGED <<local, i, loaded, global_counter>>

\* while( 1 );
Spin(t) == pc[t] = "done" /\ UNCHANGED vars

Run(t) == \/ Load(t) \/ Store(t)
          \/ Enter(t) \/ PrintReport(t) \/ Leave(t)
          \/ EnterDone(t) \/ PrintDone(t) \/ LeaveDone(t)

Next == \E t \in Task : Run(t) \/ Spin(t)

Spec == Init /\ [][Next]_vars

\* The timer preempts every task and the scheduler comes round to each again
\* (Scheduler.tla): a task that can take a step eventually takes it.
Fairness == \A t \in Task : WF_vars(Run(t))

FairSpec == Spec /\ Fairness

-----------------------------------------------------------------------------
Label == {"count", "store", "enter", "print", "leave",
          "enter_done", "print_done", "leave_done", "done"}

\* The variables range over labels and numbers, and the lock is 0 or 1.
TypeOK ==
    /\ pc \in [Task -> Label]
    /\ local \in [Task -> Nat]
    /\ i \in [Task -> Nat]
    /\ loaded \in [Task -> Nat]
    /\ global_counter \in Nat
    /\ printing_cs \in {0, 1}

\* The tasks between enter and leave.
Holding(t) == pc[t] \in {"print", "leave", "print_done", "leave_done"}

\* Two tasks never print at the same time.
MutualExclusion == \A t, u \in Task : Holding(t) /\ Holding(u) => t = u

\* The lock is taken exactly while a task is between enter and leave: a
\* spinning xchg never leaves it taken with no holder.
LockMatches == printing_cs = 1 <=> \E t \in Task : Holding(t)

\* Every task finishes its loop and its last report.
EveryTaskFinishes == \A t \in Task : <>(pc[t] = "done")
=============================================================================
