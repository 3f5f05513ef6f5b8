---------------------------- MODULE Interlocked64 ----------------------------
(***************************************************************************)
(* interlocked::increment and decrement (src/interlocked.h).  Those of a   *)
(* 64-bit counter are a compare-and-exchange loop around `old = *p`.       *)
(* The machine has 32-bit registers, so `*p` is read in two halves and     *)
(* another task may run between them; which half is read first is up to    *)
(* the compiler.  `lock cmpxchg8b` compares and writes both halves at once.*)
(* Those of a 32-bit counter are one `lock xadd`.                          *)
(***************************************************************************)
EXTENDS Integers

CONSTANTS
    Task,
    WordSize,     \* 2^32: how many values a half has
    Start,        \* the initial value of the counter
    Deltas,       \* what tasks may do: +1 (increment), -1 (decrement)
    Calls         \* bound: calls per task

VARIABLES
    p,        \* *p, as [hi, lo]
    delta,    \* what each task does to it: increment or decrement
    pc, old,  \* the task's place in the loop and its local `old`
    first,    \* the half of *p the task reads first
    calls,    \* calls still to be made
    done,     \* history: the sum of the deltas of the calls that returned
    word,     \* a 32-bit counter
    word_done \* history: the sum of the deltas of the calls on it

loop == <<p, old, first, done, pc>>
xadd == <<word, word_done>>
vars == <<loop, xadd, delta, calls>>

Modulus == WordSize * WordSize
value(x) == x.hi * WordSize + x.lo
halves(n) == [hi |-> n \div WordSize, lo |-> n % WordSize]

Init == /\ p = halves(Start)
        /\ delta \in [Task -> Deltas]
        /\ pc = [t \in Task |-> "call"]
        /\ old = [t \in Task |-> halves(0)]
        /\ first \in [Task -> {"hi", "lo"}]
        /\ calls = [t \in Task |-> Calls]
        /\ done = 0
        /\ word = Start % WordSize /\ word_done = 0

Other(half) == IF half = "hi" THEN "lo" ELSE "hi"

\* The two loads of `old = *p`.
ReadFirst(t) == /\ pc[t] = "call" /\ calls[t] > 0
                /\ old' = [old EXCEPT ![t][first[t]] = p[first[t]]]
                /\ pc' = [pc EXCEPT ![t] = "second"]
                /\ UNCHANGED <<p, delta, first, calls, done, xadd>>

ReadSecond(t) == /\ pc[t] = "second"
                 /\ LET h == Other(first[t])
                    IN  old' = [old EXCEPT ![t][h] = p[h]]
                 /\ pc' = [pc EXCEPT ![t] = "exchange"]
                 /\ UNCHANGED <<p, delta, first, calls, done, xadd>>

\* old + 1 or old - 1 in 64-bit arithmetic.
wanted(t) == (value(old[t]) + delta[t]) % Modulus

\* Mutant: the exchange compares only the low half.
compare_exchange_Low(t) == IF p.lo = old[t].lo THEN halves(wanted(t)) ELSE p

\* lock cmpxchg8b: *p afterwards, and whether the loop is left.
Succeeds(t) == p = old[t]
compare_exchange(t) == IF p = old[t] THEN halves(wanted(t)) ELSE p

Exchange(t) == /\ pc[t] = "exchange"
               /\ p' = compare_exchange(t)
               /\ pc' = [pc EXCEPT ![t] = "call"]
               /\ IF Succeeds(t)
                  THEN /\ calls' = [calls EXCEPT ![t] = @ - 1]
                       /\ done' = done + delta[t]
                  ELSE UNCHANGED <<calls, done>>
               /\ UNCHANGED <<delta, old, first, xadd>>

\* interlocked_increment and interlocked_decrement: one locked instruction.
xadd_locked(t) == (word + delta[t]) % WordSize

\* The calls on a 32-bit counter.
Xadd(t) == /\ pc[t] = "call" /\ calls[t] > 0
           /\ calls' = [calls EXCEPT ![t] = @ - 1]
           /\ word' = xadd_locked(t)
           /\ word_done' = word_done + delta[t]
           /\ UNCHANGED <<loop, delta>>

\* No more calls.
Idle(t) == calls[t] = 0 /\ UNCHANGED vars

Step(t) == ReadFirst(t) \/ ReadSecond(t) \/ Exchange(t) \/ Xadd(t)

Next == \E t \in Task : Step(t) \/ Idle(t)

Spec == Init /\ [][Next]_vars

-----------------------------------------------------------------------------
\* No call is lost and none is applied twice: each counter is its initial value
\* plus the deltas of the calls that returned, modulo 2^64 or 2^32, although a
\* call on 64 bits may have read two halves of different values.
CounterExact == /\ value(p) = (Start + done) % Modulus
                /\ word = (Start + word_done) % WordSize
==============================================================================
