------------------------------- MODULE Atomics -------------------------------
(***************************************************************************)
(* What the interlocked operations are used for, on words of memory of     *)
(* their own: the control block of shared pointers (SharedCount), the spin *)
(* lock (SpinLock) and the counters (Interlocked64).                       *)
(***************************************************************************)
EXTENDS SharedCount

CONSTANTS Task, Iterations, Interval,               \* see SpinLock
          Caller, WordSize, Start, Deltas, Calls    \* see Interlocked64

VARIABLES
    t_pc, t_local, t_i, t_loaded, t_global_counter, t_printing_cs,    \* SpinLock's
    n_p, n_delta, n_pc, n_old, n_first, n_calls, n_done,
    n_word, n_word_done                                               \* Interlocked64's

t_vars == <<t_pc, t_local, t_i, t_loaded, t_global_counter, t_printing_cs>>
n_vars == <<n_p, n_delta, n_pc, n_old, n_first, n_calls, n_done, n_word, n_word_done>>

ASSUME IterationsAssumption == Iterations \in Nat \ {0} /\ Interval \in Nat \ {0}

Tasks == INSTANCE SpinLock WITH
    pc <- t_pc, local <- t_local, i <- t_i, loaded <- t_loaded,
    global_counter <- t_global_counter, printing_cs <- t_printing_cs

Counter == INSTANCE Interlocked64 WITH
    Task <- Caller, p <- n_p, delta <- n_delta, pc <- n_pc, old <- n_old,
    first <- n_first, calls <- n_calls, done <- n_done, word <- n_word,
    word_done <- n_word_done

\* Words have values, the counter starts with one of two words, calls add numbers.
ASSUME CounterAssumption == /\ WordSize \in Nat \ {0}
                            /\ Start \in 0 .. (Counter!Modulus - 1)
                            /\ Deltas \subseteq Int

\* See SpinLock: two tasks never print at the same time.
MutualExclusion == Tasks!MutualExclusion

\* See Interlocked64: no increment or decrement is lost or applied twice.
CounterExact == Counter!CounterExact
==============================================================================
