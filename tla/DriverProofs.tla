---------------------------- MODULE DriverProofs ----------------------------
(***************************************************************************)
(* Proofs about the drivers.                                               *)
(*                                                                         *)
(* Floppy: for any number of cylinders and retries, whatever the           *)
(* controller answers and with or without the timer thread, the interrupt  *)
(* that ends irq_wait is that of the command, a transfer starts with the   *)
(* heads in place, and a block that is copied comes from its cylinder or   *)
(* from one whose transfer failed.                                         *)
(*                                                                         *)
(* Terminal: for any texts, any screen and any keys, wherever an interrupt *)
(* falls into kmain's printing, a key costs at most one character and one  *)
(* row, what is printed is shown, and shift follows the keys.              *)
(***************************************************************************)
EXTENDS Floppy, Terminal, FiniteSetTheorems, TLAPS

-----------------------------------------------------------------------------
\* The floppy driver.

Awaiting == {"wait", "clear", "results"}
Commanding == {"issue"} \cup Awaiting
Leaving == {"ticks", "set wait", "return"}
Between == {"idle", "block", "copy"}

\* One command at a time: its answer and its interrupt come together while the
\* thread waits, and the thread takes the interrupt first, then the answer.
OneCommand ==
    /\ pc \notin Awaiting \cup {"panic"} => dev = "ready" /\ ~s_floppy_irq
    /\ pc = "wait" => dev # "ready" /\ (s_floppy_irq <=> dev = "answer")
    /\ pc = "clear" => dev = "answer"
    /\ pc = "results" => dev = "answer" /\ ~s_floppy_irq
    /\ pc = "panic" => dev # "busy" /\ ~s_floppy_irq

\* An answer names the cylinder the heads are on; a transfer that succeeded has
\* filled the buffer with it.
AnswerIsTrue ==
    dev = "answer" =>
        /\ res.cyl = head
        /\ job = "transfer" /\ res.error = "none" => _cyl_cache = head

\* After a seek that succeeded the heads stay on the cylinder until the read has
\* been answered.
HeadsInPlace ==
    /\ job = "transfer" /\ pc \notin Between => head = want
    /\ job \in {"seek0", "seek1"} /\ pc \in Leaving /\ ok => head = want

\* What the commands have to do with the controller's initialisation.
Jobs ==
    /\ job = "reset" => pc \in Awaiting \cup {"panic"}
    /\ job = "none" => pc \in Between
    /\ job \in {"reset", "calibrate"} /\ pc \notin Between => _cached_cyl_index = None

\* Without the timer thread the state is not behind the motor.
MotorTurns ==
    ~timer_started =>
        /\ floppy_motor_state # "off" => motor
        /\ pc \in {"set on", "ticks", "set wait"} => motor
        /\ pc \in Commanding /\ job # "reset" => motor

\* The buffer holds the cylinder whose index is kept, unless its transfer failed.
BufferHolds ==
    /\ pc \in Between => \/ _cached_cyl_index \in {None, _cyl_cache}
                         \/ failed = _cached_cyl_index
    /\ pc = "copy" => _cached_cyl_index = want
    /\ job = "transfer" /\ pc \in Leaving /\ ok => _cyl_cache = want

\* TypeOK in parts: the thread, the device with its buffer, and the motor.
ThreadTypes ==
    /\ pc \in {"idle", "block", "copy", "motor", "turn on", "set on", "issue", "wait",
               "clear", "results", "ticks", "set wait", "return", "panic"}
    /\ job \in {"none", "reset", "calibrate", "seek0", "seek1", "transfer"}
    /\ i \in 0 .. IF job = "transfer" THEN TransferTries - 1 ELSE SeekTries - 1
    /\ want \in Cylinder /\ last \in Cylinder /\ ok \in BOOLEAN
DeviceTypes ==
    /\ s_floppy_irq \in BOOLEAN
    /\ _cached_cyl_index \in Cylinder \cup {None} /\ failed \in Cylinder \cup {None}
    /\ _cyl_cache \in Cylinder \cup {Junk}
    /\ dev \in {"ready", "busy", "answer"} /\ res \in Answers
    /\ head \in Cylinder
MotorTypes ==
    /\ floppy_motor_state \in {"off", "on", "wait"}
    /\ floppy_motor_ticks \in 0 .. MotorTicks /\ motor \in BOOLEAN
    /\ timer_started \in BOOLEAN
    /\ tpc \in {"sleep", "load", "store", "test", "kill", "set off"}
    /\ tick \in 0 .. MotorTicks

IInv == /\ ThreadTypes /\ DeviceTypes /\ MotorTypes
        /\ OneCommand /\ AnswerIsTrue /\ HeadsInPlace /\ Jobs /\ MotorTurns /\ BufferHolds

-----------------------------------------------------------------------------
LEMMA TicksInRange == 0 \in 0 .. MotorTicks /\ MotorTicks \in 0 .. MotorTicks
BY FloppyAssumption

LEMMA TypeParts == ThreadTypes /\ DeviceTypes /\ MotorTypes => TypeOK
BY DEF TypeOK, ThreadTypes, DeviceTypes, MotorTypes

LEMMA InitIInv == Init => IInv
<1> SUFFICES ASSUME Init PROVE IInv
  OBVIOUS
<1>1. ThreadTypes
  BY FloppyAssumption DEF Init, ThreadTypes, Cylinder
<1>2. DeviceTypes
  <2>1. 0 \in Cylinder
    BY FloppyAssumption DEF Cylinder
  <2>2. res \in Answers
    BY <2>1 DEF Init, Answers
  <2> QED
    BY <2>2 DEF Init, DeviceTypes
<1>3. MotorTypes
  <2>1. timer_started \in BOOLEAN
    BY FloppyAssumption DEF Init
  <2> QED
    BY <2>1, TicksInRange DEF Init, MotorTypes
<1>4. OneCommand /\ AnswerIsTrue /\ HeadsInPlace /\ Jobs /\ MotorTurns /\ BufferHolds
  BY DEF Init, OneCommand, AnswerIsTrue, HeadsInPlace, Jobs, MotorTurns, BufferHolds,
         Awaiting, Commanding, Leaving, Between
<1> QED
  BY <1>1, <1>2, <1>3, <1>4 DEF IInv

\* Whatever keeps the types and the parts below keeps the invariant.
Parts == OneCommand /\ AnswerIsTrue /\ HeadsInPlace /\ Jobs /\ MotorTurns /\ BufferHolds

-----------------------------------------------------------------------------
\* The steps of the reading thread.

LEMMA ReadKeeps == ASSUME IInv, NEW first \in Cylinder, NEW final \in Cylinder, Read(first, final)
                  PROVE  IInv'
<1> USE DEF IInv, Read, driver, cache, motors, timer, device
<1>1. ThreadTypes'
  BY FloppyAssumption DEF ThreadTypes, Cylinder
<1>2. DeviceTypes'
  BY DEF DeviceTypes
<1>3. MotorTypes'
  BY DEF MotorTypes
<1>4. Parts'
  BY DEF ThreadTypes, DeviceTypes, MotorTypes, Parts, OneCommand, AnswerIsTrue, HeadsInPlace,
         Jobs, MotorTurns, BufferHolds, Awaiting, Commanding, Leaving, Between
<1> QED
  BY <1>1, <1>2, <1>3, <1>4 DEF Parts

LEMMA InitKeeps == ASSUME IInv, init PROVE IInv'
<1> USE DEF IInv, init, driver, cache, motors, timer, device
<1>1. ThreadTypes'
  BY FloppyAssumption DEF ThreadTypes, Cylinder
<1>2. DeviceTypes'
  BY DEF DeviceTypes
<1>3. MotorTypes'
  BY DEF MotorTypes
<1>4. Parts'
  BY DEF ThreadTypes, DeviceTypes, MotorTypes, Parts, OneCommand, AnswerIsTrue, HeadsInPlace,
         Jobs, MotorTurns, BufferHolds, Awaiting, Commanding, Leaving, Between
<1> QED
  BY <1>1, <1>2, <1>3, <1>4 DEF Parts

LEMMA HitKeeps == ASSUME IInv, hit PROVE IInv'
<1> USE DEF IInv, hit, driver, cache, motors, timer, device
<1>1. ThreadTypes'
  BY FloppyAssumption DEF ThreadTypes, Cylinder
<1>2. DeviceTypes'
  BY DEF DeviceTypes
<1>3. MotorTypes'
  BY DEF MotorTypes
<1>4. Parts'
  BY DEF ThreadTypes, DeviceTypes, MotorTypes, Parts, OneCommand, AnswerIsTrue, HeadsInPlace,
         Jobs, MotorTurns, BufferHolds, Awaiting, Commanding, Leaving, Between
<1> QED
  BY <1>1, <1>2, <1>3, <1>4 DEF Parts

LEMMA MissKeeps == ASSUME IInv, miss PROVE IInv'
<1> USE DEF IInv, miss, driver, cache, motors, timer, device
<1>1. ThreadTypes'
  BY FloppyAssumption DEF ThreadTypes, Cylinder
<1>2. DeviceTypes'
  BY DEF DeviceTypes
<1>3. MotorTypes'
  BY DEF MotorTypes
<1>4. Parts'
  BY DEF ThreadTypes, DeviceTypes, MotorTypes, Parts, OneCommand, AnswerIsTrue, HeadsInPlace,
         Jobs, MotorTurns, BufferHolds, Awaiting, Commanding, Leaving, Between
<1> QED
  BY <1>1, <1>2, <1>3, <1>4 DEF Parts

LEMMA CopyKeeps == ASSUME IInv, copy PROVE IInv'
<1> USE DEF IInv, copy, driver, cache, motors, timer, device
<1>1. ThreadTypes'
  <2>1. CASE want < last
    BY <2>1, FloppyAssumption DEF ThreadTypes, Cylinder
  <2>2. CASE ~(want < last)
    BY <2>2 DEF ThreadTypes
  <2> QED
    BY <2>1, <2>2
<1>2. DeviceTypes'
  BY DEF DeviceTypes
<1>3. MotorTypes'
  BY DEF MotorTypes
<1>4. Parts'
  BY DEF ThreadTypes, DeviceTypes, MotorTypes, Parts, OneCommand, AnswerIsTrue, HeadsInPlace,
         Jobs, MotorTurns, BufferHolds, Awaiting, Commanding, Leaving, Between
<1> QED
  BY <1>1, <1>2, <1>3, <1>4 DEF Parts

LEMMA MotorCheckKeeps == ASSUME IInv, motor_check PROVE IInv'
<1> USE DEF IInv, motor_check, driver, cache, motors, timer, device
<1>1. ThreadTypes'
  BY FloppyAssumption DEF ThreadTypes, Cylinder
<1>2. DeviceTypes'
  BY DEF DeviceTypes
<1>3. MotorTypes'
  BY DEF MotorTypes
<1>4. Parts'
  BY DEF ThreadTypes, DeviceTypes, MotorTypes, Parts, OneCommand, AnswerIsTrue, HeadsInPlace,
         Jobs, MotorTurns, BufferHolds, Awaiting, Commanding, Leaving, Between
<1> QED
  BY <1>1, <1>2, <1>3, <1>4 DEF Parts

LEMMA MotorOnKeeps == ASSUME IInv, motor_on PROVE IInv'
<1> USE DEF IInv, motor_on, driver, cache, motors, timer, device
<1>1. ThreadTypes'
  BY FloppyAssumption DEF ThreadTypes, Cylinder
<1>2. DeviceTypes'
  BY DEF DeviceTypes
<1>3. MotorTypes'
  BY DEF MotorTypes
<1>4. Parts'
  BY DEF ThreadTypes, DeviceTypes, MotorTypes, Parts, OneCommand, AnswerIsTrue, HeadsInPlace,
         Jobs, MotorTurns, BufferHolds, Awaiting, Commanding, Leaving, Between
<1> QED
  BY <1>1, <1>2, <1>3, <1>4 DEF Parts

LEMMA MotorSetKeeps == ASSUME IInv, motor_set PROVE IInv'
<1> USE DEF IInv, motor_set, driver, cache, motors, timer, device
<1>1. ThreadTypes'
  BY FloppyAssumption DEF ThreadTypes, Cylinder
<1>2. DeviceTypes'
  BY DEF DeviceTypes
<1>3. MotorTypes'
  BY DEF MotorTypes
<1>4. Parts'
  BY DEF ThreadTypes, DeviceTypes, MotorTypes, Parts, OneCommand, AnswerIsTrue, HeadsInPlace,
         Jobs, MotorTurns, BufferHolds, Awaiting, Commanding, Leaving, Between
<1> QED
  BY <1>1, <1>2, <1>3, <1>4 DEF Parts

LEMMA IssueKeeps == ASSUME IInv, issue PROVE IInv'
<1> USE DEF IInv, issue, driver, cache, motors, timer, device
<1>1. ThreadTypes'
  BY FloppyAssumption DEF ThreadTypes, Cylinder
<1>2. DeviceTypes'
  BY DEF DeviceTypes
<1>3. MotorTypes'
  BY DEF MotorTypes
<1>4. Parts'
  BY DEF ThreadTypes, DeviceTypes, MotorTypes, Parts, OneCommand, AnswerIsTrue, HeadsInPlace,
         Jobs, MotorTurns, BufferHolds, Awaiting, Commanding, Leaving, Between
<1> QED
  BY <1>1, <1>2, <1>3, <1>4 DEF Parts

LEMMA IrqSeenKeeps == ASSUME IInv, irq_seen PROVE IInv'
<1> USE DEF IInv, irq_seen, driver, cache, motors, timer, device
<1>1. ThreadTypes'
  BY FloppyAssumption DEF ThreadTypes, Cylinder
<1>2. DeviceTypes'
  BY DEF DeviceTypes
<1>3. MotorTypes'
  BY DEF MotorTypes
<1>4. Parts'
  BY DEF ThreadTypes, DeviceTypes, MotorTypes, Parts, OneCommand, AnswerIsTrue, HeadsInPlace,
         Jobs, MotorTurns, BufferHolds, Awaiting, Commanding, Leaving, Between
<1> QED
  BY <1>1, <1>2, <1>3, <1>4 DEF Parts

LEMMA IrqClearKeeps == ASSUME IInv, irq_clear PROVE IInv'
<1> USE DEF IInv, irq_clear, driver, cache, motors, timer, device
<1>1. ThreadTypes'
  BY FloppyAssumption DEF ThreadTypes, Cylinder
<1>2. DeviceTypes'
  BY DEF DeviceTypes, cleared
<1>3. MotorTypes'
  BY DEF MotorTypes
<1>4. Parts'
  BY DEF ThreadTypes, DeviceTypes, Parts, cleared, OneCommand, AnswerIsTrue, HeadsInPlace,
         Jobs, MotorTurns, BufferHolds, Awaiting, Commanding, Leaving, Between
<1> QED
  BY <1>1, <1>2, <1>3, <1>4 DEF Parts

\* The answer is fetched: panic, the next step of the initialisation, another
\* round of the loop, or its end.
ResetDone == job = "reset" /\ pc' = "motor" /\ job' = "calibrate" /\ i' = 0 /\ ok' = ok
Another == /\ job # "reset" /\ Retries(res.error) /\ i' = i + 1
           /\ pc' = (IF job = "transfer" THEN "motor" ELSE "issue") /\ job' = job /\ ok' = ok
LoopEnds == /\ job # "reset" /\ pc' = "ticks" /\ ok' = Done(res.error, res.cyl)
            /\ i' = i /\ job' = job

LEMMA ResultsKeeps == ASSUME IInv, results PROVE IInv'
<1> USE DEF IInv, driver, cache, motors, timer, device
<1>1. /\ pc = "results" /\ dev = "answer"
      /\ UNCHANGED <<want, last, cache, motors, timer, s_floppy_irq, res, head, _cyl_cache>>
  BY DEF results
<1>2. \/ pc' = "panic" /\ UNCHANGED <<dev, i, job, ok>>
      \/ dev' = "ready" /\ (ResetDone \/ Another \/ LoopEnds)
  BY DEF results, again, counted, outcome, ResetDone, Another, LoopEnds
<1>3. ThreadTypes'
  <2>1. CASE pc' = "panic" /\ UNCHANGED <<dev, i, job, ok>>
    BY <1>1, <2>1 DEF ThreadTypes
  <2>2. CASE ResetDone
    BY <1>1, <2>2, FloppyAssumption DEF ThreadTypes, ResetDone
  <2>3. CASE Another
    BY <1>1, <2>3, FloppyAssumption DEF ThreadTypes, Another, Retries
  <2>4. CASE LoopEnds
    <3>1. Done(res.error, res.cyl) \in BOOLEAN
      BY DEF Done
    <3> QED
      BY <1>1, <2>4, <3>1 DEF ThreadTypes, LoopEnds
  <2> QED
    BY <1>2, <2>1, <2>2, <2>3, <2>4
<1>4. DeviceTypes'
  BY <1>1, <1>2 DEF DeviceTypes
<1>5. MotorTypes'
  BY <1>1 DEF MotorTypes
<1>6. OneCommand' /\ AnswerIsTrue' /\ Jobs' /\ MotorTurns'
  BY <1>1, <1>2 DEF OneCommand, AnswerIsTrue, Jobs, MotorTurns, Awaiting, Commanding, Between,
                    ResetDone, Another, LoopEnds, ThreadTypes
<1>7. HeadsInPlace' /\ BufferHolds'
  <2>1. CASE LoopEnds
    BY <1>1, <2>1 DEF LoopEnds, Done, OneCommand, AnswerIsTrue, HeadsInPlace, BufferHolds, Between,
                      Leaving
  <2>2. CASE pc' = "panic" /\ UNCHANGED <<dev, i, job, ok>>
    BY <1>1, <2>2 DEF HeadsInPlace, BufferHolds, Between, Leaving
  <2>3. CASE ResetDone \/ Another
    BY <1>1, <2>3 DEF ResetDone, Another, HeadsInPlace, BufferHolds, Between, Leaving
  <2> QED
    BY <1>2, <2>1, <2>2, <2>3
<1> QED
  BY <1>3, <1>4, <1>5, <1>6, <1>7

LEMMA MotorTicksKeeps == ASSUME IInv, motor_ticks PROVE IInv'
<1> USE DEF IInv, motor_ticks, driver, cache, motors, timer, device
<1>1. ThreadTypes'
  BY FloppyAssumption DEF ThreadTypes, Cylinder
<1>2. DeviceTypes'
  BY DEF DeviceTypes
<1>3. MotorTypes'
  BY TicksInRange DEF MotorTypes
<1>4. Parts'
  BY DEF ThreadTypes, DeviceTypes, MotorTypes, Parts, OneCommand, AnswerIsTrue, HeadsInPlace,
         Jobs, MotorTurns, BufferHolds, Awaiting, Commanding, Leaving, Between
<1> QED
  BY <1>1, <1>2, <1>3, <1>4 DEF Parts

LEMMA MotorWaitKeeps == ASSUME IInv, motor_wait PROVE IInv'
<1> USE DEF IInv, motor_wait, driver, cache, motors, timer, device
<1>1. ThreadTypes'
  BY FloppyAssumption DEF ThreadTypes, Cylinder
<1>2. DeviceTypes'
  BY DEF DeviceTypes
<1>3. MotorTypes'
  BY DEF MotorTypes
<1>4. Parts'
  BY DEF ThreadTypes, DeviceTypes, MotorTypes, Parts, OneCommand, AnswerIsTrue, HeadsInPlace,
         Jobs, MotorTurns, BufferHolds, Awaiting, Commanding, Leaving, Between
<1> QED
  BY <1>1, <1>2, <1>3, <1>4 DEF Parts

LEMMA AdvanceKeeps == ASSUME IInv, advance PROVE IInv'
<1> USE DEF IInv, advance, driver, cache, motors, timer, device
<1>1. ThreadTypes'
  BY FloppyAssumption DEF ThreadTypes, Cylinder
<1>2. DeviceTypes'
  BY DEF DeviceTypes
<1>3. MotorTypes'
  BY DEF MotorTypes
<1>4. Parts'
  BY DEF ThreadTypes, DeviceTypes, MotorTypes, Parts, OneCommand, AnswerIsTrue, HeadsInPlace,
         Jobs, MotorTurns, BufferHolds, Awaiting, Commanding, Leaving, Between
<1> QED
  BY <1>1, <1>2, <1>3, <1>4 DEF Parts

LEMMA CalibratedKeeps == ASSUME IInv, calibrated PROVE IInv'
<1> USE DEF IInv, calibrated, driver, cache, motors, timer, device
<1>1. ThreadTypes'
  BY FloppyAssumption DEF ThreadTypes, Cylinder
<1>2. DeviceTypes'
  BY DEF DeviceTypes
<1>3. MotorTypes'
  BY DEF MotorTypes
<1>4. Parts'
  BY DEF ThreadTypes, DeviceTypes, MotorTypes, Parts, OneCommand, AnswerIsTrue, HeadsInPlace,
         Jobs, MotorTurns, BufferHolds, Awaiting, Commanding, Leaving, Between
<1> QED
  BY <1>1, <1>2, <1>3, <1>4 DEF Parts

LEMMA TrackDoneKeeps == ASSUME IInv, track_done PROVE IInv'
<1> USE DEF IInv, track_done, driver, cache, motors, timer, device
<1>1. ThreadTypes'
  BY FloppyAssumption DEF ThreadTypes, Cylinder
<1>2. DeviceTypes'
  <2>1. _cached_cyl_index' \in Cylinder /\ failed' \in Cylinder \cup {None}
    BY DEF ThreadTypes
  <2> QED
    BY <2>1 DEF DeviceTypes
<1>3. MotorTypes'
  BY DEF MotorTypes
<1>4. Parts'
  BY DEF ThreadTypes, DeviceTypes, MotorTypes, Parts, OneCommand, AnswerIsTrue, HeadsInPlace,
         Jobs, MotorTurns, BufferHolds, Awaiting, Commanding, Leaving, Between
<1> QED
  BY <1>1, <1>2, <1>3, <1>4 DEF Parts

-----------------------------------------------------------------------------
\* floppy_timer changes the motor, its state and its own variables, and runs only
\* where it has a thread.
LEMMA TimerLeaves ==
    ASSUME floppy_timer
    PROVE  timer_started /\ UNCHANGED <<timer_started, pc, i, ok, driver, cache, device>>
BY DEF floppy_timer, timer_check, timer_load, timer_store, timer_test, kill_motor, kill_state, Timer

LEMMA TimerTypes == ASSUME IInv, floppy_timer PROVE MotorTypes'
<1> USE DEF IInv, MotorTypes, Timer, motors
<1>1. CASE timer_check \/ timer_load \/ timer_test
  BY <1>1, TimerLeaves DEF timer_check, timer_load, timer_test
<1>2. CASE timer_store
  BY <1>2, TimerLeaves, FloppyAssumption DEF timer_store, TickStep
<1>3. CASE kill_motor \/ kill_state
  BY <1>3, TimerLeaves DEF kill_motor, kill_state, killed
<1> QED
  BY <1>1, <1>2, <1>3 DEF floppy_timer

LEMMA TimerKeeps == ASSUME IInv, floppy_timer PROVE IInv'
<1> USE TimerLeaves DEF IInv, driver, cache, device
<1>1. ThreadTypes' /\ DeviceTypes'
  BY DEF ThreadTypes, DeviceTypes
<1>2. OneCommand' /\ AnswerIsTrue' /\ HeadsInPlace' /\ Jobs' /\ MotorTurns' /\ BufferHolds'
  BY DEF OneCommand, AnswerIsTrue, HeadsInPlace, Jobs, MotorTurns, BufferHolds
<1> QED
  BY <1>1, <1>2, TimerTypes

\* The controller answers while the thread waits.
LEMMA AnswerKeeps == ASSUME IInv, answer PROVE IInv'
<1> USE DEF IInv, driver, cache, motors, timer
<1>1. PICK a \in Answers : Possible(a) /\ res' = a
  BY DEF answer
<1>2. /\ dev = "busy" /\ dev' = "answer" /\ head' = a.cyl /\ s_floppy_irq' = TRUE
      /\ _cyl_cache' \in IF job # "transfer" THEN {_cyl_cache}
                         ELSE IF a.error = "none" THEN {head} ELSE {_cyl_cache, Junk}
      /\ UNCHANGED <<pc, i, ok, driver, cache, motors, timer>>
  BY <1>1 DEF answer
<1>3. a.cyl \in Cylinder
  BY DEF Answers
<1>4. pc = "wait"
  BY <1>2 DEF OneCommand, Awaiting, ThreadTypes
<1>5. job = "transfer" => head' = head
  BY <1>1, <1>2 DEF Possible
<1>6. ThreadTypes'
  BY <1>2 DEF ThreadTypes
<1>11. MotorTypes'
  BY <1>2 DEF MotorTypes
<1>7. DeviceTypes'
  BY <1>1, <1>2, <1>3 DEF DeviceTypes
<1>8. OneCommand'
  BY <1>2, <1>4 DEF OneCommand, Awaiting
<1>9. AnswerIsTrue'
  BY <1>1, <1>2, <1>5 DEF AnswerIsTrue
<1>10. HeadsInPlace' /\ Jobs' /\ MotorTurns' /\ BufferHolds'
  BY <1>2, <1>4, <1>5 DEF HeadsInPlace, Jobs, MotorTurns, BufferHolds, Between, Leaving, Awaiting
<1> QED
  BY <1>6, <1>7, <1>8, <1>9, <1>10, <1>11

LEMMA NextIInv == IInv /\ [Next]_vars => IInv'
<1> SUFFICES ASSUME IInv, [Next]_vars PROVE IInv'
  OBVIOUS
<1>1. CASE Thread
  BY <1>1, ReadKeeps, InitKeeps DEF Thread
<1>2. CASE ThreadStep
  BY <1>2, HitKeeps, MissKeeps, CopyKeeps, MotorCheckKeeps, MotorOnKeeps, MotorSetKeeps, IssueKeeps,
     IrqSeenKeeps, IrqClearKeeps, ResultsKeeps, MotorTicksKeeps, MotorWaitKeeps, AdvanceKeeps,
     CalibratedKeeps, TrackDoneKeeps
  DEF ThreadStep
<1>3. CASE floppy_timer
  BY <1>3, TimerKeeps
<1>4. CASE answer
  BY <1>4, AnswerKeeps
<1>5. CASE UNCHANGED vars
  <2> USE <1>5 DEF vars, driver, cache, motors, timer, device, IInv
  <2>1. ThreadTypes'
    BY DEF ThreadTypes
  <2>2. DeviceTypes'
    BY DEF DeviceTypes
  <2>3. MotorTypes'
    BY DEF MotorTypes
  <2>4. OneCommand' /\ AnswerIsTrue' /\ HeadsInPlace'
    BY DEF OneCommand, AnswerIsTrue, HeadsInPlace
  <2>5. Jobs' /\ MotorTurns' /\ BufferHolds'
    BY DEF Jobs, MotorTurns, BufferHolds
  <2> QED
    BY <2>1, <2>2, <2>3, <2>4, <2>5
<1> QED
  BY <1>1, <1>2, <1>3, <1>4, <1>5 DEF Next, Halt

\* Every state of the driver and the controller satisfies the invariant.
THEOREM Invariance == Spec => []IInv
BY InitIInv, NextIInv, PTL DEF Spec

-----------------------------------------------------------------------------
\* The variables range over the places, commands and cylinders; no retry counter
\* passes its bound.
THEOREM TypeCorrect == Spec => []TypeOK
<1>1. IInv => TypeOK
  BY TypeParts DEF IInv
<1> QED
  BY <1>1, Invariance, PTL

\* irq_wait and floppy_irq: the flag that ends a wait is that of the command that
\* waits, and none is left over for the next one.
THEOREM InterruptsMatch == Spec => []InterruptIsForCommand
<1>1. IInv => InterruptIsForCommand
  BY DEF IInv, ThreadTypes, DeviceTypes, OneCommand, Awaiting, InterruptIsForCommand
<1> QED
  BY <1>1, Invariance, PTL

\* floppy_do_track: a transfer starts with the heads on its cylinder, and in the
\* kernel as it is every command of a read is sent while the motor turns.
THEOREM CommandsPrepared == Spec => []CommandsArePrepared
<1>1. IInv => CommandsArePrepared
  BY DEF IInv, HeadsInPlace, MotorTurns, Between, Commanding, Awaiting, CommandsArePrepared
<1> QED
  BY <1>1, Invariance, PTL

\* read_block: what is copied is of the cylinder that was asked for, or of one
\* whose transfer failed.
THEOREM CopiesAreOfTheCylinder == Spec => []CopiesTheCylinder
<1>1. IInv => CopiesTheCylinder
  <2> SUFFICES ASSUME IInv, pc = "copy" PROVE _cyl_cache = want \/ failed = want
    BY DEF CopiesTheCylinder
  <2>1. _cached_cyl_index = want /\ want # None
    BY FloppyAssumption DEF IInv, ThreadTypes, BufferHolds, Cylinder, None
  <2> QED
    BY <2>1 DEF IInv, BufferHolds, Between
<1> QED
  BY <1>1, Invariance, PTL

-----------------------------------------------------------------------------
\* The console under interrupts: types, and what the text left is.

CharacterSet == Printable \cup {Printer!Blank} \cup ({"key"} \X Nat \X {"kbdger", "kbdger_upper"})
CellSet == CharacterSet \cup {<<"other">>, <<"bios">>}

NewlineLabels == {"newline", "newline_row", "newline_down"}
CellLabels == {"cell", "cell_column", "cell_store"}
AdvanceLabels == {"advance", "advance_store", "edge", "wrap", "wrap_store", "wrap_zero"}
ScrollLabels == {"scroll", "scroll_above", "up", "up_store", "scroll_row", "scroll_below",
                 "down", "down_store", "written"}
ShowLabels == {"display", "copy", "cursor", "cursor_top", "cursor_column",
               "index_low", "low", "index_high", "high"}
CharacterLabels == NewlineLabels \cup CellLabels \cup AdvanceLabels \cup ScrollLabels

ConsoleSet == [buffer : [Printer!Cells -> CharacterSet],
               cursor_column : 0 .. Width, cursor_row : Nat, top_row : Int]

KmainTypes ==
    /\ p_pc \in {"idle", "next"} \cup CharacterLabels \cup ShowLabels
    /\ p_calls \in Seq(Seq(Printable) \ {<<>>})
    /\ p_text \in Seq(Printable)
    /\ p_reg \in Int /\ p_dest \in Int /\ p_copied \in Nat

ScreenTypes ==
    /\ p_video_ram \in [Printer!Screen -> CellSet]
    /\ p_crtc \in [index : {14, 15}, register : [{14, 15} -> Int]]

HistoryTypes ==
    /\ p_clean \in BOOLEAN
    /\ p_printed \subseteq CharacterSet \ {Printer!Blank} /\ IsFiniteSet(p_printed)
    /\ p_stores \in Nat /\ p_past \in Nat /\ p_newlines \in Nat /\ p_interruptions \in Nat

PrinterTypes == p_con \in ConsoleSet /\ KmainTypes /\ ScreenTypes /\ HistoryTypes

\* Where kmain is within a character, there is one; at the edge of a row the
\* cursor may be behind the last column.
Places ==
    /\ p_pc \in CharacterLabels => p_text # <<>>
    /\ p_pc \notin {"edge", "wrap", "wrap_store", "wrap_zero"} => p_con.cursor_column < Width
    /\ p_pc \in {"newline_down", "cell_column", "wrap_store"} => p_reg \in Nat
    /\ p_pc = "advance_store" => p_reg \in 0 .. (Width - 1)

-----------------------------------------------------------------------------
\* How far the cursor gets.

RowAt(row) == Width * row

\* The cell after the character that kmain prints, if no interrupt comes until then.
Reach ==
    CASE p_pc = "newline" -> RowAt(p_con.cursor_row) + Width
      [] p_pc = "newline_row" -> RowAt(p_con.cursor_row) + Width + p_con.cursor_column
      [] p_pc = "newline_down" -> RowAt(p_reg) + Width + p_con.cursor_column
      [] p_pc = "advance" -> RowAt(p_con.cursor_row) + p_con.cursor_column + 1
      [] p_pc = "advance_store" -> RowAt(p_con.cursor_row) + p_reg + 1
      [] p_pc = "wrap" -> RowAt(p_con.cursor_row) + Width
      [] p_pc = "wrap_store" -> RowAt(p_reg) + Width
      [] p_pc = "wrap_zero" -> RowAt(p_con.cursor_row)
      [] OTHER -> RowAt(p_con.cursor_row) + p_con.cursor_column

\* A row for each newline and each key, and a cell for each character.
CellBound == RowAt(p_newlines + p_interruptions) + p_stores

RowsBounded ==
    /\ RowAt(p_con.cursor_row) <= CellBound /\ Reach <= CellBound
    /\ p_past > 0 => RowAt(Height) <= CellBound

-----------------------------------------------------------------------------
\* What may still be written over.

\* All that is written from now on is behind this cell, ...
Frontier ==
    CASE p_pc \in {"newline", "newline_row"} -> RowAt(p_con.cursor_row) + Width
      [] p_pc = "newline_down" -> RowAt(p_reg) + Width
      [] OTHER -> Reach

\* ... but for the cell kmain has chosen.
Chosen == CASE p_pc = "cell_column" -> {RowAt(p_reg) + p_con.cursor_column}
            [] p_pc = "cell_store" -> {p_dest}
            [] OTHER -> {}

ChosenBehind ==
    /\ p_pc = "cell_column" => p_reg <= p_con.cursor_row
    /\ p_pc = "cell_store" => p_dest \in 0 .. (RowAt(p_con.cursor_row) + p_con.cursor_column)

Risky(buffer, from, chosen) ==
    {c \in Printer!Cells : (c >= from \/ c \in chosen) /\ buffer[c] # Printer!Blank}
Missing(chars, buffer) == chars \ Printer!Range(buffer)

\* The characters that are lost and the cells that are at risk.
Owed(chars, buffer, from, chosen) ==
    Cardinality(Missing(chars, buffer)) + Cardinality(Risky(buffer, from, chosen))

\* What is lost or may still be written over has been printed by a key, or over it.
LossPaid == Owed(p_printed, p_con.buffer, Frontier, Chosen) <= p_interruptions + p_past

-----------------------------------------------------------------------------
\* What is shown if no key was printed since printf was called.

InView == p_con.cursor_row - p_con.top_row \in 0 .. (WindowRows - 1)
RegisterAt(n) == Printer!cursor_at(Printer!Position(p_con)).register[n]

Scrolling ==
    /\ p_pc \in {"scroll_above", "up_store", "scroll_below", "down_store"}
           => p_reg = p_con.cursor_row
    /\ p_pc \in {"scroll_row", "scroll_below", "down", "down_store"}
           => p_con.cursor_row >= p_con.top_row
    /\ p_pc \in {"written"} \cup ShowLabels => InView
    /\ p_pc = "next" /\ p_text = <<>> => InView

Showing ==
    /\ p_pc = "copy" => /\ p_dest = p_con.top_row /\ p_copied \in Printer!Screen
                        /\ \A s \in 0 .. (p_copied - 1) :
                               p_video_ram[s] = Printer!Window(p_con)[s]
    /\ p_pc \in ShowLabels \ {"display", "copy"} => p_video_ram = Printer!Window(p_con)
    /\ p_pc = "cursor_top" => p_reg = p_con.cursor_row
    /\ p_pc = "cursor_column" => p_reg = p_con.cursor_row - p_con.top_row
    /\ p_pc \in {"index_low", "low", "index_high", "high"} => p_dest = Printer!Position(p_con)
    /\ p_pc = "low" => p_crtc.index = 15
    /\ p_pc = "high" => p_crtc.index = 14
    /\ p_pc \in {"index_high", "high"} => p_crtc.register[15] = RegisterAt(15)

CleanShown == p_clean => Scrolling /\ Showing

PrinterInv == PrinterTypes /\ Places /\ RowsBounded /\ ChosenBehind /\ LossPaid /\ CleanShown

-----------------------------------------------------------------------------


LEMMA ColumnSet ==
    ASSUME NEW c \in ConsoleSet, NEW v \in 0 .. Width, NEW d, d = [c EXCEPT !["cursor_column"] = v]
    PROVE  /\ d \in ConsoleSet /\ d.buffer = c.buffer
           /\ d.cursor_column = v /\ d.cursor_row = c.cursor_row /\ d.top_row = c.top_row
  BY DEF ConsoleSet

LEMMA RowSet ==
    ASSUME NEW c \in ConsoleSet, NEW v \in Nat, NEW d, d = [c EXCEPT !["cursor_row"] = v]
    PROVE  /\ d \in ConsoleSet /\ d.buffer = c.buffer
           /\ d.cursor_column = c.cursor_column /\ d.cursor_row = v /\ d.top_row = c.top_row
  BY DEF ConsoleSet

LEMMA TopSet ==
    ASSUME NEW c \in ConsoleSet, NEW v \in Int, NEW d, d = [c EXCEPT !["top_row"] = v]
    PROVE  /\ d \in ConsoleSet /\ d.buffer = c.buffer
           /\ d.cursor_column = c.cursor_column /\ d.cursor_row = c.cursor_row /\ d.top_row = v
  BY DEF ConsoleSet

LEMMA StoredIn ==
    ASSUME NEW c \in ConsoleSet, NEW n \in Int, NEW v \in CharacterSet,
           NEW d, d = Printer!Stored(c, n, v)
    PROVE  /\ d \in ConsoleSet
           /\ d.buffer = IF n \in Printer!Cells THEN [c.buffer EXCEPT ![n] = v] ELSE c.buffer
           /\ d.cursor_column = c.cursor_column /\ d.cursor_row = c.cursor_row /\ d.top_row = c.top_row
<1>1. CASE n \in Printer!Cells
  <2>1. d = [c EXCEPT !.buffer[n] = v]
    BY <1>1 DEF Printer!Stored
  <2>2. /\ d \in ConsoleSet /\ d.buffer = [c.buffer EXCEPT ![n] = v]
        /\ d.cursor_column = c.cursor_column /\ d.cursor_row = c.cursor_row /\ d.top_row = c.top_row
    BY <1>1, <2>1 DEF ConsoleSet
  <2>3. QED  BY <1>1, <2>2
<1>2. CASE n \notin Printer!Cells
  BY <1>2 DEF Printer!Stored
<1>3. QED  BY <1>1, <1>2

LEMMA ConsoleFields ==
    ASSUME NEW c \in ConsoleSet
    PROVE  /\ c.buffer \in [Printer!Cells -> CharacterSet] /\ c.cursor_column \in 0 .. Width
           /\ c.cursor_row \in Nat /\ c.top_row \in Int
  BY DEF ConsoleSet


LEMMA CharacterStored ==
    ASSUME PrinterTypes, Places, Printer!StoreCharacter
    PROVE  /\ Head(p_text) \in CharacterSet \ {Printer!Blank}
           /\ p_con' \in ConsoleSet
           /\ p_con'.buffer = IF p_dest \in Printer!Cells
                              THEN [p_con.buffer EXCEPT ![p_dest] = Head(p_text)] ELSE p_con.buffer
           /\ p_con'.cursor_column = p_con.cursor_column
           /\ p_con'.cursor_row = p_con.cursor_row
           /\ p_con'.top_row = p_con.top_row
<1>1. Head(p_text) \in CharacterSet \ {Printer!Blank}
  BY TextAssumption DEF Printer!StoreCharacter, PrinterTypes, KmainTypes, Places, CharacterLabels,
     CellLabels, CharacterSet, Printer!Goto, AdvanceLabels, ScrollLabels, NewlineLabels
<1>2. p_con \in ConsoleSet /\ p_dest \in Int
  BY DEF PrinterTypes, KmainTypes
<1>3. p_con' = Printer!Stored(p_con, p_dest, Head(p_text))
  BY DEF Printer!StoreCharacter
<1>4. QED  BY <1>1, <1>2, <1>3, StoredIn

LEMMA KmainConsole ==
    ASSUME PrinterTypes, Places, Printer!Kmain
    PROVE  p_con' \in ConsoleSet
<1> USE ScreenAssumption DEF Printer!Goto, Printer!Load, Printer!Store, Printer!Branch
<1>1. /\ p_con \in ConsoleSet /\ p_con.cursor_row \in Nat /\ p_reg \in Int
      /\ p_pc \in {"newline_down", "wrap_store"} => p_reg \in Nat
      /\ p_pc = "advance_store" => p_reg \in 0 .. (Width - 1)
  BY ConsoleFields DEF PrinterTypes, KmainTypes, Places
<1>2. CASE p_con' = p_con
  BY <1>1, <1>2
<1>3. CASE Printer!NewLine
  BY <1>1, <1>3, ColumnSet, RowSet DEF Printer!NewLine
<1>4. CASE Printer!StoreCharacter
  BY <1>4, CharacterStored
<1>5. CASE Printer!Advance
  BY <1>1, <1>5, ColumnSet, RowSet DEF Printer!Advance
<1>6. CASE Printer!Scroll
  BY <1>1, <1>6, TopSet DEF Printer!Scroll
<1>7. QED
  BY <1>2, <1>3, <1>4, <1>5, <1>6 DEF Printer!Kmain, Printer!Printf, Printer!NextCharacter,
     Printer!Destination, Printer!Written, Printer!Display, Printer!CursorArguments,
     Printer!MoveCursor, Printer!SetIndex, Printer!SetRegister

LEMMA KmainRegisters ==
    ASSUME PrinterTypes, Places, Printer!Kmain
    PROVE  KmainTypes'
<1> USE ScreenAssumption DEF Printer!Goto, Printer!Load, Printer!Store, Printer!Branch
<1>1. /\ p_con.cursor_row \in Nat /\ p_con.top_row \in Int /\ p_con.cursor_column \in Int
      /\ p_calls \in Seq(Seq(Printable) \ {<<>>})
      /\ p_text \in Seq(Printable)
      /\ p_reg \in Int /\ p_dest \in Int /\ p_copied \in Nat
  BY ConsoleFields DEF PrinterTypes, KmainTypes
<1>2. /\ p_reg' \in Int /\ p_dest' \in Int /\ p_copied' \in Nat
  <2>1. CASE Printer!Destination
    BY <1>1, <2>1 DEF Printer!Destination
  <2>2. CASE Printer!Advance
    BY <1>1, <2>2 DEF Printer!Advance
  <2>3. CASE Printer!Scroll
    BY <1>1, <2>3 DEF Printer!Scroll
  <2>4. CASE Printer!Display
    BY <1>1, <2>4 DEF Printer!Display
  <2>5. CASE Printer!CursorArguments
    BY <1>1, <2>5 DEF Printer!CursorArguments
  <2>6. CASE Printer!NewLine
    BY <1>1, <2>6 DEF Printer!NewLine
  <2>7. QED  BY <1>1, <2>1, <2>2, <2>3, <2>4, <2>5, <2>6 DEF Printer!Kmain, Printer!Printf,
     Printer!NextCharacter, Printer!StoreCharacter, Printer!Written,
     Printer!MoveCursor, Printer!SetIndex, Printer!SetRegister
<1>3. p_text' \in Seq(Printable) /\ p_calls' \in Seq(Seq(Printable) \ {<<>>})
  <2>1. CASE Printer!Printf
    BY <1>1, <2>1 DEF Printer!Printf
  <2>2. CASE Printer!Written
    <3>1. p_text # <<>> /\ p_text' = Tail(p_text) /\ p_calls' = p_calls
      BY <2>2 DEF Printer!Written, Places, CharacterLabels, ScrollLabels
    <3>2. QED  BY <3>1, <1>1
  <2>3. QED  BY <1>1, <2>1, <2>2 DEF Printer!Kmain, Printer!NextCharacter, Printer!NewLine,
     Printer!Destination, Printer!StoreCharacter, Printer!Advance, Printer!Scroll,
     Printer!Display, Printer!CursorArguments,
     Printer!MoveCursor, Printer!SetIndex, Printer!SetRegister
<1>4. p_pc' \in {"idle", "next"} \cup CharacterLabels \cup ShowLabels
  <2> USE DEF CharacterLabels, NewlineLabels, CellLabels, AdvanceLabels, ScrollLabels, ShowLabels
  <2>1. CASE Printer!Printf \/ Printer!NextCharacter \/ Printer!NewLine \/ Printer!Destination
    BY <2>1 DEF Printer!Printf, Printer!NextCharacter, Printer!NewLine, Printer!Destination
  <2>2. CASE Printer!StoreCharacter \/ Printer!Advance \/ Printer!Scroll \/ Printer!Written
    BY <2>2 DEF Printer!StoreCharacter, Printer!Advance, Printer!Scroll, Printer!Written
  <2>3. CASE Printer!Display \/ Printer!CursorArguments \/ Printer!MoveCursor
    BY <2>3 DEF Printer!Display, Printer!CursorArguments, Printer!MoveCursor,
        Printer!SetIndex, Printer!SetRegister
  <2>4. QED  BY <2>1, <2>2, <2>3 DEF Printer!Kmain
<1>5. QED  BY <1>2, <1>3, <1>4 DEF KmainTypes

LEMMA WindowIsScreen ==
    ASSUME NEW c, c.buffer \in [Printer!Cells -> CharacterSet], c.top_row \in Int
    PROVE  Printer!Window(c) \in [Printer!Screen -> CellSet]
  BY DEF Printer!Window, CellSet

LEMMA CursorAtIsRegisters ==
    ASSUME NEW n \in Int
    PROVE  Printer!cursor_at(n) \in [index : {14, 15}, register : [{14, 15} -> Int]]
  BY ScreenAssumption DEF Printer!cursor_at

LEMMA KmainScreen ==
    ASSUME PrinterTypes, Places, Printer!Kmain
    PROVE  ScreenTypes'
<1>1. /\ p_con \in ConsoleSet /\ ScreenTypes /\ p_dest \in Int /\ p_copied \in Nat
  BY DEF PrinterTypes, KmainTypes
<1>2. CASE Printer!Display
  <2>1. [p_con EXCEPT !.top_row = p_dest].buffer = p_con.buffer
        /\ [p_con EXCEPT !.top_row = p_dest].top_row = p_dest
    BY <1>1, TopSet
  <2>2. Printer!Window([p_con EXCEPT !.top_row = p_dest]) \in [Printer!Screen -> CellSet]
    BY <1>1, <2>1, ConsoleFields, WindowIsScreen
  <2>3. QED  BY <1>1, <1>2, <2>2 DEF Printer!Display, Printer!Goto, ScreenTypes
<1>3. CASE Printer!MoveCursor
  <2>1. /\ p_crtc \in [index : {14, 15}, register : [{14, 15} -> Int]]
        /\ p_dest % RegisterSize \in Int /\ (p_dest \div RegisterSize) % RegisterSize \in Int
    BY <1>1, ScreenAssumption DEF ScreenTypes
  <2>2. QED
    BY <1>1, <1>3, <2>1 DEF Printer!MoveCursor, Printer!SetIndex, Printer!SetRegister, Printer!Goto, ScreenTypes
<1>4. QED  BY <1>1, <1>2, <1>3 DEF Printer!Kmain, Printer!Printf, Printer!NextCharacter, Printer!NewLine,
     Printer!Destination, Printer!StoreCharacter, Printer!Advance, Printer!Scroll,
     Printer!Written, Printer!CursorArguments, ScreenTypes, Printer!Load, Printer!Store, Printer!Branch

LEMMA KeptHistory ==
    ASSUME PrinterTypes, Places, Printer!Kmain
    PROVE  HistoryTypes'
<1>1. HistoryTypes
  BY DEF PrinterTypes
<1>2. CASE Printer!StoreCharacter
  <2>1. Head(p_text) \in CharacterSet \ {Printer!Blank}
    BY <1>2, CharacterStored
  <2>2. IsFiniteSet(p_printed \cup {Head(p_text)})
    BY <1>1, FS_AddElement DEF HistoryTypes
  <2>3. QED  BY <1>1, <1>2, <2>1, <2>2 DEF Printer!StoreCharacter, Printer!Counted, HistoryTypes
<1>3. CASE Printer!NextCharacter
  BY <1>1, <1>3 DEF Printer!NextCharacter, HistoryTypes
<1>4. CASE Printer!Printf
  BY <1>1, <1>4 DEF Printer!Printf, HistoryTypes, Printer!history
<1>5. QED  BY <1>1, <1>2, <1>3, <1>4 DEF Printer!Kmain, Printer!NewLine, Printer!history,
     Printer!Destination, Printer!Advance, Printer!Scroll, Printer!Written, Printer!Display,
     Printer!CursorArguments, Printer!MoveCursor, Printer!SetIndex, Printer!SetRegister,
     HistoryTypes, Printer!Load, Printer!Store, Printer!Branch

LEMMA KmainPlaces ==
    ASSUME PrinterTypes, Places, Printer!Kmain
    PROVE  Places'
<1> USE ScreenAssumption DEF Printer!Goto, Printer!Load, Printer!Store, Printer!Branch
<1>1. p_con \in ConsoleSet /\ p_con.cursor_row \in Nat /\ p_con.cursor_column \in 0 .. Width /\ p_reg \in Int
      /\ p_text \in Seq(Printable) /\ p_calls \in Seq(Seq(Printable) \ {<<>>}) /\ p_dest \in Int
  BY ConsoleFields DEF PrinterTypes, KmainTypes
<1>2. (p_pc \in CharacterLabels => p_text # <<>>)'
  <2> USE DEF Places, CharacterLabels, NewlineLabels, CellLabels, AdvanceLabels, ScrollLabels
  <2>1. CASE Printer!Printf \/ Printer!NextCharacter \/ Printer!NewLine \/ Printer!Destination
    BY <2>1 DEF Printer!Printf, Printer!NextCharacter, Printer!NewLine, Printer!Destination
  <2>2. CASE Printer!StoreCharacter \/ Printer!Advance \/ Printer!Scroll \/ Printer!Written
    BY <2>2 DEF Printer!StoreCharacter, Printer!Advance, Printer!Scroll, Printer!Written
  <2>3. CASE Printer!Display \/ Printer!CursorArguments \/ Printer!MoveCursor
    BY <2>3 DEF Printer!Display, Printer!CursorArguments, Printer!MoveCursor,
        Printer!SetIndex, Printer!SetRegister
  <2>4. QED  BY <2>1, <2>2, <2>3 DEF Printer!Kmain
<1>3. /\ p_pc \notin {"edge", "wrap", "wrap_store", "wrap_zero"} => p_con.cursor_column < Width
      /\ p_pc \in {"newline_down", "wrap_store"} => p_reg \in Nat
      /\ p_pc = "advance_store" => p_reg \in 0 .. (Width - 1)
  BY DEF Places
<1>4. /\ (p_pc \notin {"edge", "wrap", "wrap_store", "wrap_zero"} => p_con.cursor_column < Width)'
      /\ (p_pc \in {"newline_down", "cell_column", "wrap_store"} => p_reg \in Nat)'
      /\ (p_pc = "advance_store" => p_reg \in 0 .. (Width - 1))'
  <2>1. CASE Printer!NewLine
    BY <1>1, <1>3, <2>1, ColumnSet, RowSet DEF Printer!NewLine
  <2>2. CASE Printer!StoreCharacter
    <3>2. p_pc = "cell_store" /\ p_pc' = "advance"
      BY <2>2 DEF Printer!StoreCharacter
    <3>3. p_con'.cursor_column = p_con.cursor_column
      BY <2>2, CharacterStored
    <3>4. QED  BY <1>1, <1>3, <3>2, <3>3
  <2>3. CASE Printer!Advance
    BY <1>1, <1>3, <2>3, ColumnSet, RowSet DEF Printer!Advance, Printer!AtEdge
  <2>4. CASE Printer!Scroll
    BY <1>1, <1>3, <2>4, TopSet DEF Printer!Scroll
  <2>5. QED
    BY <1>1, <1>3, <2>1, <2>2, <2>3, <2>4 DEF Printer!Kmain, Printer!Printf, Printer!NextCharacter,
     Printer!Destination, Printer!Written, Printer!Display, Printer!CursorArguments,
     Printer!MoveCursor, Printer!SetIndex, Printer!SetRegister
<1>5. QED  BY <1>2, <1>4 DEF Places

-----------------------------------------------------------------------------
\* What an interrupt handler's printing does, field by field.

LEMMA NextLineTo ==
    ASSUME NEW c \in ConsoleSet, NEW d, d = Printer!NextLine(c)
    PROVE  /\ d \in ConsoleSet /\ d.buffer = c.buffer /\ d.cursor_column = 0 /\ d.top_row = c.top_row
           /\ d.cursor_row = c.cursor_row + 1
<1> DEFINE e == [c EXCEPT !["cursor_column"] = 0]
<1>1. e \in ConsoleSet /\ e.buffer = c.buffer /\ e.cursor_column = 0 /\ e.top_row = c.top_row
      /\ e.cursor_row = c.cursor_row
  BY ColumnSet, ScreenAssumption
<1>2. d = [e EXCEPT !["cursor_row"] = c.cursor_row + 1]
  BY DEF Printer!NextLine, ConsoleSet
<1>3. c.cursor_row + 1 \in Nat
  BY ConsoleFields
<1> HIDE DEF e
<1>4. QED  BY <1>1, <1>2, <1>3 DEF ConsoleSet

LEMMA AdvancedTo ==
    ASSUME NEW c \in ConsoleSet, NEW d, d = Printer!Advanced(c)
    PROVE  /\ d \in ConsoleSet /\ d.buffer = c.buffer /\ d.cursor_column < Width /\ d.top_row = c.top_row
           /\ \/ c.cursor_column + 1 >= Width /\ d.cursor_column = 0 /\ d.cursor_row = c.cursor_row + 1
              \/ /\ c.cursor_column + 1 < Width
                 /\ d.cursor_column = c.cursor_column + 1 /\ d.cursor_row = c.cursor_row
<1>1. CASE c.cursor_column + 1 >= Width
  <2>1. d = Printer!NextLine(c)
    BY <1>1 DEF Printer!Advanced
  <2>2. QED  BY <1>1, <2>1, NextLineTo, ScreenAssumption
<1>2. CASE c.cursor_column + 1 < Width
  <2>1. c.cursor_column + 1 \in 0 .. Width /\ ~(c.cursor_column + 1 >= Width)
    BY <1>2, ConsoleFields, ScreenAssumption
  <2>2. d = [c EXCEPT !["cursor_column"] = c.cursor_column + 1]
    BY <2>1 DEF Printer!Advanced
  <2>3. QED  BY <1>2, <2>1, <2>2 DEF ConsoleSet
<1>3. QED  BY <1>1, <1>2, ConsoleFields, ScreenAssumption

LEMMA ScrolledTo ==
    ASSUME NEW c \in ConsoleSet, NEW d, d = Printer!Scrolled(c)
    PROVE  /\ d \in ConsoleSet /\ d.buffer = c.buffer /\ d.cursor_column = c.cursor_column
           /\ d.cursor_row = c.cursor_row /\ d.cursor_row - d.top_row \in 0 .. (WindowRows - 1)
<1>1. c.cursor_row \in Nat /\ c.top_row \in Int /\ c.cursor_row - (WindowRows - 1) \in Int
  BY ConsoleFields, ScreenAssumption
<1>2. CASE c.cursor_row < c.top_row
  <2>1. d = [c EXCEPT !["top_row"] = c.cursor_row]
    BY <1>2 DEF Printer!Scrolled
  <2>2. d \in ConsoleSet /\ d.buffer = c.buffer /\ d.cursor_column = c.cursor_column
        /\ d.cursor_row = c.cursor_row /\ d.top_row = c.cursor_row
    BY <1>1, <2>1 DEF ConsoleSet
  <2>3. QED  BY <1>1, <2>2, ScreenAssumption
<1>3. CASE ~(c.cursor_row < c.top_row) /\ Printer!TooLow(c.cursor_row, c.top_row)
  <2>1. d = [c EXCEPT !["top_row"] = c.cursor_row - (WindowRows - 1)]
    BY <1>3 DEF Printer!Scrolled
  <2>2. d \in ConsoleSet /\ d.buffer = c.buffer /\ d.cursor_column = c.cursor_column
        /\ d.cursor_row = c.cursor_row /\ d.top_row = c.cursor_row - (WindowRows - 1)
    BY <1>1, <2>1 DEF ConsoleSet
  <2>3. QED  BY <1>1, <2>2, ScreenAssumption
<1>4. CASE ~(c.cursor_row < c.top_row) /\ ~Printer!TooLow(c.cursor_row, c.top_row)
  <2>1. d = c
    BY <1>4 DEF Printer!Scrolled
  <2>2. QED  BY <1>1, <1>4, <2>1, ScreenAssumption DEF Printer!TooLow
<1>5. QED  BY <1>2, <1>3, <1>4

LEMMA WrittenTo ==
    ASSUME NEW c \in ConsoleSet, NEW ch \in CharacterSet \cup {Printer!NL}, NEW d, d = Printer!write_char_to_console(c, ch),
           NEW at, at = Width * c.cursor_row + c.cursor_column
    PROVE  /\ d \in ConsoleSet /\ d.cursor_column < Width
           /\ d.cursor_row - d.top_row \in 0 .. (WindowRows - 1)
           /\ ch = Printer!NL => /\ d.buffer = c.buffer
                                 /\ d.cursor_row = c.cursor_row + 1 /\ d.cursor_column = 0
           /\ ch # Printer!NL =>
                /\ d.buffer = IF at \in Printer!Cells THEN [c.buffer EXCEPT ![at] = ch] ELSE c.buffer
                /\ \/ c.cursor_column + 1 >= Width /\ d.cursor_column = 0 /\ d.cursor_row = c.cursor_row + 1
                   \/ /\ c.cursor_column + 1 < Width
                      /\ d.cursor_column = c.cursor_column + 1 /\ d.cursor_row = c.cursor_row
<1>1. CASE ch = Printer!NL
  <2>1. d = Printer!Scrolled(Printer!NextLine(c))
    BY <1>1 DEF Printer!write_char_to_console
  <2> DEFINE e == Printer!NextLine(c)
  <2>2. e \in ConsoleSet /\ e.buffer = c.buffer /\ e.cursor_column = 0 /\ e.cursor_row = c.cursor_row + 1
    BY NextLineTo
  <2> HIDE DEF e
  <2>3. /\ d \in ConsoleSet /\ d.buffer = e.buffer /\ d.cursor_column = e.cursor_column
        /\ d.cursor_row = e.cursor_row /\ d.cursor_row - d.top_row \in 0 .. (WindowRows - 1)
    BY <2>1, <2>2, ScrolledTo DEF e
  <2>4. QED  BY <1>1, <2>2, <2>3, ScreenAssumption
<1>2. CASE ch # Printer!NL
  <2> DEFINE s == Printer!Stored(c, at, ch)
             e == Printer!Advanced(s)
  <2>1. d = Printer!Scrolled(e)
    BY <1>2 DEF Printer!write_char_to_console
  <2>2. at \in Int
    BY ConsoleFields, ScreenAssumption
  <2>3. /\ s \in ConsoleSet
        /\ s.buffer = IF at \in Printer!Cells THEN [c.buffer EXCEPT ![at] = ch] ELSE c.buffer
        /\ s.cursor_column = c.cursor_column /\ s.cursor_row = c.cursor_row
    BY <1>2, <2>2, StoredIn
  <2> HIDE DEF s
  <2>4. /\ e \in ConsoleSet /\ e.buffer = s.buffer /\ e.cursor_column < Width
        /\ \/ s.cursor_column + 1 >= Width /\ e.cursor_column = 0 /\ e.cursor_row = s.cursor_row + 1
           \/ /\ s.cursor_column + 1 < Width
              /\ e.cursor_column = s.cursor_column + 1 /\ e.cursor_row = s.cursor_row
    BY <2>3, AdvancedTo
  <2> HIDE DEF e
  <2>5. /\ d \in ConsoleSet /\ d.buffer = e.buffer /\ d.cursor_column = e.cursor_column
        /\ d.cursor_row = e.cursor_row /\ d.cursor_row - d.top_row \in 0 .. (WindowRows - 1)
    BY <2>1, <2>4, ScrolledTo
  <2>6. QED  BY <1>2, <2>3, <2>4, <2>5
<1>3. QED  BY <1>1, <1>2

\* The character of a key.
LEMMA KeyCharacter ==
    ASSUME PrinterTypes, NEW n
    PROVE  /\ Character(n) \in CharacterSet \cup {Printer!NL}
           /\ Character(n) # Printer!NL => Character(n) \in CharacterSet \ {Printer!Blank}
  BY DEF Character, CharacterSet, PrinterTypes, HistoryTypes, Keyboard!Table, Printer!NL, Printer!Blank

\* One printed character, in the handler.
LEMMA KeyPrinted ==
    ASSUME PrinterTypes, NEW ch \in CharacterSet \cup {Printer!NL}, ch # Printer!NL => ch # Printer!Blank,
           Printer!PrintFromHandler(ch),
           NEW at, at = RowAt(p_con.cursor_row) + p_con.cursor_column
    PROVE  /\ p_con' \in ConsoleSet /\ p_con'.cursor_column < Width
           /\ p_con'.cursor_row - p_con'.top_row \in 0 .. (WindowRows - 1)
           /\ p_interruptions' = p_interruptions + 1
           /\ p_pc' = p_pc /\ p_text' = p_text /\ p_calls' = p_calls
           /\ p_reg' = p_reg /\ p_dest' = p_dest /\ p_copied' = p_copied
           /\ p_clean' = FALSE /\ p_video_ram' = Printer!Window(p_con')
           /\ p_crtc' = Printer!cursor_at(Printer!Position(p_con'))
           /\ \/ /\ p_con'.buffer = p_con.buffer /\ p_newlines' = p_newlines + 1
                 /\ p_printed' = p_printed /\ p_stores' = p_stores /\ p_past' = p_past
                 /\ p_con'.cursor_row = p_con.cursor_row + 1 /\ p_con'.cursor_column = 0
              \/ /\ ch \in CharacterSet \ {Printer!Blank}
                 /\ p_con'.buffer = IF at \in Printer!Cells THEN [p_con.buffer EXCEPT ![at] = ch] ELSE p_con.buffer
                 /\ \/ /\ p_con.cursor_column + 1 >= Width
                       /\ p_con'.cursor_column = 0 /\ p_con'.cursor_row = p_con.cursor_row + 1
                    \/ /\ p_con.cursor_column + 1 < Width
                       /\ p_con'.cursor_column = p_con.cursor_column + 1 /\ p_con'.cursor_row = p_con.cursor_row
                 /\ p_newlines' = p_newlines
                 /\ p_printed' = p_printed \cup {ch} /\ p_stores' = p_stores + 1
                 /\ p_past' = IF at \in Printer!Cells THEN p_past ELSE p_past + 1
<1>1. /\ p_con \in ConsoleSet /\ p_con' = Printer!write_char_to_console(p_con, ch)
      /\ at = Width * p_con.cursor_row + p_con.cursor_column
  BY DEF PrinterTypes, Printer!PrintFromHandler, RowAt
<1>2. /\ p_interruptions' = p_interruptions + 1
      /\ p_pc' = p_pc /\ p_text' = p_text /\ p_calls' = p_calls
      /\ p_reg' = p_reg /\ p_dest' = p_dest /\ p_copied' = p_copied
      /\ p_clean' = FALSE /\ p_video_ram' = Printer!Window(p_con')
      /\ p_crtc' = Printer!cursor_at(Printer!Position(p_con'))
  BY DEF Printer!PrintFromHandler
<1>3. CASE ch = Printer!NL
  <2>1. /\ p_newlines' = p_newlines + 1
        /\ p_printed' = p_printed /\ p_stores' = p_stores /\ p_past' = p_past
    BY <1>3 DEF Printer!PrintFromHandler
  <2>2. QED  BY <1>1, <1>2, <1>3, <2>1, WrittenTo
<1>4. CASE ch # Printer!NL
  <2>1. /\ p_newlines' = p_newlines
        /\ p_printed' = p_printed \cup {ch} /\ p_stores' = p_stores + 1
        /\ p_past' = IF at \in Printer!Cells THEN p_past ELSE p_past + 1
    BY <1>1, <1>4 DEF Printer!PrintFromHandler, Printer!Counted
  <2>2. QED  BY <1>1, <1>2, <1>4, <2>1, WrittenTo
<1>5. QED  BY <1>3, <1>4

LEMMA KeyKeepsTypes ==
    ASSUME PrinterTypes, Places,
           NEW ch \in CharacterSet \cup {Printer!NL}, ch # Printer!NL => ch # Printer!Blank,
           Printer!PrintFromHandler(ch)
    PROVE  PrinterTypes' /\ Places'
<1> DEFINE at == RowAt(p_con.cursor_row) + p_con.cursor_column
<1>1. p_con' \in ConsoleSet /\ KmainTypes'
  BY KeyPrinted DEF PrinterTypes, KmainTypes
<1>2. ScreenTypes'
  <2>1. /\ p_video_ram' = Printer!Window(p_con') /\ p_crtc' = Printer!cursor_at(Printer!Position(p_con'))
        /\ p_con' \in ConsoleSet
    BY KeyPrinted
  <2>2. Printer!Position(p_con') \in Int
    BY <2>1, ConsoleFields, ScreenAssumption DEF Printer!Position
  <2>3. QED  BY <2>1, <2>2, ConsoleFields, WindowIsScreen, CursorAtIsRegisters DEF ScreenTypes
<1>3. HistoryTypes'
  <2>1. HistoryTypes /\ p_clean' = FALSE /\ p_interruptions' = p_interruptions + 1
        /\ \/ /\ p_newlines' = p_newlines + 1
              /\ p_printed' = p_printed /\ p_stores' = p_stores /\ p_past' = p_past
           \/ /\ ch \in CharacterSet \ {Printer!Blank} /\ p_newlines' = p_newlines
              /\ p_printed' = p_printed \cup {ch} /\ p_stores' = p_stores + 1
              /\ p_past' = p_past \/ p_past' = p_past + 1
    BY KeyPrinted DEF PrinterTypes
  <2>2. IsFiniteSet(p_printed \cup {ch})
    BY <2>1, FS_AddElement DEF HistoryTypes
  <2>3. /\ p_printed' \subseteq CharacterSet \ {Printer!Blank} /\ IsFiniteSet(p_printed')
        /\ p_past' \in Nat /\ p_stores' \in Nat /\ p_newlines' \in Nat
    BY <2>1, <2>2 DEF HistoryTypes
  <2>4. p_clean' \in BOOLEAN
    BY <2>1
  <2>6. p_interruptions' \in Nat
    <3>1. p_interruptions \in Nat
      BY <2>1 DEF HistoryTypes
    <3>2. QED  BY <2>1, <3>1
  <2>5. QED  BY <2>3, <2>4, <2>6 DEF HistoryTypes
<1>4. Places'
  BY KeyPrinted DEF Places
<1>5. QED  BY <1>1, <1>2, <1>3, <1>4 DEF PrinterTypes

-----------------------------------------------------------------------------
\* Rows.

LEMMA NextRow ==
    ASSUME NEW r \in Nat
    PROVE  RowAt(r) \in Nat /\ RowAt(r + 1) = RowAt(r) + Width
  BY ScreenAssumption DEF RowAt

LEMMA LaterRow ==
    ASSUME NEW r \in Nat, NEW s \in Nat, r < s
    PROVE  RowAt(r) + Width <= RowAt(s)
<1>1. PICK d \in Nat : s = r + 1 + d
  <2>1. s - r - 1 \in Nat /\ s = r + 1 + (s - r - 1)
    OBVIOUS
  <2>2. QED  BY <2>1
<1>2. Width * (r + 1 + d) = Width * r + Width + Width * d /\ Width * d >= 0
  BY ScreenAssumption
<1>3. QED  BY <1>1, <1>2, ScreenAssumption DEF RowAt

LEMMA OneMoreRow ==
    ASSUME PrinterTypes
    PROVE  /\ RowAt(p_newlines + 1 + p_interruptions) = RowAt(p_newlines + p_interruptions) + Width
           /\ RowAt(p_newlines + (p_interruptions + 1)) = RowAt(p_newlines + p_interruptions) + Width
           /\ RowAt((p_newlines + 1) + (p_interruptions + 1)) = RowAt(p_newlines + p_interruptions) + Width + Width
           /\ CellBound \in Nat /\ Width \in Nat \ {0}
  BY ScreenAssumption DEF RowAt, PrinterTypes, HistoryTypes, CellBound

LEMMA KeyKeepsRows ==
    ASSUME PrinterTypes, Places, RowsBounded,
           NEW ch \in CharacterSet \cup {Printer!NL}, ch # Printer!NL => ch # Printer!Blank,
           Printer!PrintFromHandler(ch)
    PROVE  RowsBounded'
<1> DEFINE at == RowAt(p_con.cursor_row) + p_con.cursor_column
<1>1. /\ p_con.cursor_row \in Nat /\ p_con.cursor_column \in 0 .. Width /\ p_reg \in Int /\ p_past \in Nat
      /\ p_pc \in {"newline_down", "cell_column", "wrap_store"} => p_reg \in Nat
  BY ConsoleFields DEF PrinterTypes, KmainTypes, HistoryTypes, Places
<1>2. /\ RowAt(p_con.cursor_row + 1) = RowAt(p_con.cursor_row) + Width
      /\ RowAt(p_con.cursor_row) \in Nat /\ Width \in Nat \ {0} /\ CellBound \in Nat
  BY <1>1, NextRow, OneMoreRow
<1>3. CellBound' \in Int /\ CellBound' >= CellBound + Width
  <2>1. /\ p_stores' = p_stores \/ p_stores' = p_stores + 1
        /\ p_newlines' = p_newlines \/ p_newlines' = p_newlines + 1
        /\ p_interruptions' = p_interruptions + 1
    BY KeyPrinted
  <2>2. p_stores \in Nat /\ p_newlines \in Nat /\ p_interruptions \in Nat
    BY DEF PrinterTypes, HistoryTypes
  <2>3. /\ RowAt(p_newlines + p_interruptions) \in Nat
        /\ \/ RowAt(p_newlines' + p_interruptions') = RowAt(p_newlines + p_interruptions) + Width
           \/ RowAt(p_newlines' + p_interruptions') = RowAt(p_newlines + p_interruptions) + Width + Width
    <3>1. RowAt(p_newlines + p_interruptions) \in Nat
      BY <2>2, NextRow
    <3>2. QED  BY <2>1, <3>1, OneMoreRow
  <2>4. QED  BY <1>2, <2>1, <2>2, <2>3 DEF CellBound
<1>4. /\ p_con'.cursor_row = p_con.cursor_row \/ p_con'.cursor_row = p_con.cursor_row + 1
      /\ RowAt(p_con'.cursor_row) \in Nat
      /\ RowAt(p_con'.cursor_row) <= RowAt(p_con.cursor_row) + Width
  <2>1. p_con'.cursor_row = p_con.cursor_row \/ p_con'.cursor_row = p_con.cursor_row + 1
    BY KeyPrinted
  <2>2. QED  BY <1>1, <1>2, <2>1
<1>5. Reach \in Int /\ Reach' \in Int /\ Reach' <= Reach + Width
  <2>1. /\ p_pc' = p_pc /\ p_reg' = p_reg
        /\ \/ p_con'.cursor_row = p_con.cursor_row + 1 /\ p_con'.cursor_column = 0
           \/ p_con'.cursor_row = p_con.cursor_row /\ p_con'.cursor_column = p_con.cursor_column + 1
    BY <1>1, KeyPrinted
  <2>2. CASE p_pc \in {"newline_down", "wrap_store"}
    <3>1. RowAt(p_reg) \in Nat
      BY <1>1, <2>2, NextRow
    <3>2. QED  BY <1>1, <1>2, <2>1, <2>2, <3>1 DEF Reach
  <2>3. CASE p_pc \notin {"newline_down", "wrap_store"}
    BY <1>1, <1>2, <2>1, <2>3 DEF Reach
  <2>4. QED  BY <2>2, <2>3
<1>6. (p_past > 0 => RowAt(Height) <= CellBound)'
  <2>1. \/ p_past' = p_past
        \/ at \notin Printer!Cells
    BY KeyPrinted
  <2>2. RowAt(Height) \in Nat
    BY NextRow, ScreenAssumption
  <2>3. CASE at \notin Printer!Cells
    <3>1. at \in Int /\ RowAt(Height) <= at
      BY <1>1, <1>2, <2>3, ScreenAssumption DEF Printer!Cells, RowAt
    <3>2. at <= CellBound + Width
      BY <1>1, <1>2 DEF RowsBounded
    <3> HIDE DEF at
    <3>3. QED  BY <1>1, <1>2, <1>3, <2>2, <3>1, <3>2
  <2>4. CASE p_past' = p_past
    <3>1. p_past > 0 => RowAt(Height) <= CellBound
      BY DEF RowsBounded
    <3>2. QED  BY <1>1, <1>2, <1>3, <2>2, <2>4, <3>1
  <2>5. QED  BY <2>1, <2>3, <2>4
<1>7. RowAt(p_con.cursor_row) <= CellBound /\ Reach <= CellBound
  BY DEF RowsBounded
<1>8. (RowAt(p_con.cursor_row) <= CellBound)' /\ (Reach <= CellBound)'
  BY <1>2, <1>3, <1>4, <1>5, <1>7
<1>9. QED  BY <1>6, <1>8 DEF RowsBounded

LEMMA KmainScrolls ==
    ASSUME PrinterTypes, Printer!Scroll
    PROVE  /\ p_con'.cursor_row = p_con.cursor_row /\ p_con'.cursor_column = p_con.cursor_column
           /\ p_con'.buffer = p_con.buffer
           /\ p_pc \in ScrollLabels /\ p_pc' \in ScrollLabels
<1>1. p_con \in ConsoleSet /\ p_con.cursor_row \in Nat /\ p_reg \in Int /\ p_reg - (WindowRows - 1) \in Int
  BY ConsoleFields, ScreenAssumption DEF PrinterTypes, KmainTypes
<1>2. QED
  BY <1>1, TopSet DEF Printer!Scroll, ScrollLabels, Printer!Goto, Printer!Load, Printer!Store, Printer!Branch

LEMMA KmainKeepsRows ==
    ASSUME PrinterTypes, Places, ChosenBehind, RowsBounded, Printer!Kmain
    PROVE  RowsBounded'
<1> USE DEF Printer!Goto, Printer!Load, Printer!Store, Printer!Branch, Printer!history
<1>1. /\ p_con \in ConsoleSet /\ p_con.cursor_row \in Nat /\ p_con.cursor_column \in 0 .. Width
      /\ p_reg \in Int /\ p_dest \in Int /\ p_past \in Nat /\ p_stores \in Nat
      /\ p_newlines + p_interruptions \in Nat
  BY ConsoleFields DEF PrinterTypes, KmainTypes, HistoryTypes
<1>2. /\ RowAt(p_con.cursor_row + 1) = RowAt(p_con.cursor_row) + Width
      /\ RowAt(p_con.cursor_row) \in Nat /\ Width \in Nat \ {0} /\ CellBound \in Nat
  BY <1>1, NextRow, OneMoreRow
<1>3. /\ RowAt(p_con.cursor_row) <= CellBound /\ Reach <= CellBound
      /\ p_past > 0 => RowAt(Height) <= CellBound
  BY DEF RowsBounded
<1>4. /\ p_pc \notin {"edge", "wrap", "wrap_store", "wrap_zero"} => p_con.cursor_column < Width
      /\ p_pc \in {"newline_down", "wrap_store"} => p_reg \in Nat
      /\ p_pc = "advance_store" => p_reg \in 0 .. (Width - 1)
  BY DEF Places
<1>5. ASSUME p_newlines' = p_newlines, p_stores' = p_stores, p_interruptions' = p_interruptions,
             p_past' = p_past
      PROVE  CellBound' = CellBound /\ (p_past > 0 => RowAt(Height) <= CellBound)'
  BY <1>3, <1>5 DEF CellBound
<1>6. CASE Printer!NewLine
  <2>1. CellBound' = CellBound /\ (p_past > 0 => RowAt(Height) <= CellBound)'
    BY <1>5, <1>6 DEF Printer!NewLine
  <2>2. p_pc = "newline_down" => RowAt(p_reg + 1) = RowAt(p_reg) + Width /\ RowAt(p_reg) \in Nat
    BY <1>4, NextRow
  <2>3. QED
    BY <1>1, <1>2, <1>3, <1>4, <1>6, <2>1, <2>2, ColumnSet, RowSet DEF Printer!NewLine, Reach, RowsBounded
<1>7. CASE Printer!Advance
  <2>1. CellBound' = CellBound /\ (p_past > 0 => RowAt(Height) <= CellBound)'
    BY <1>5, <1>7 DEF Printer!Advance
  <2>2. p_pc = "wrap_store" => RowAt(p_reg + 1) = RowAt(p_reg) + Width /\ RowAt(p_reg) \in Nat
    BY <1>4, NextRow
  <2>3. QED
    BY <1>1, <1>2, <1>3, <1>4, <1>7, <2>1, <2>2, ColumnSet, RowSet
       DEF Printer!Advance, Printer!AtEdge, Reach, RowsBounded
<1>8. CASE Printer!Scroll
  <2>1. CellBound' = CellBound /\ (p_past > 0 => RowAt(Height) <= CellBound)'
    BY <1>5, <1>8 DEF Printer!Scroll
  <2>2. /\ p_con'.cursor_row = p_con.cursor_row /\ p_con'.cursor_column = p_con.cursor_column
        /\ p_pc \in ScrollLabels /\ p_pc' \in ScrollLabels
    BY <1>8, KmainScrolls
  <2>3. QED  BY <1>2, <1>3, <2>1, <2>2 DEF Reach, RowsBounded, ScrollLabels
<1>9. CASE Printer!Destination \/ Printer!Printf \/ Printer!Written \/ Printer!Display
             \/ Printer!CursorArguments \/ Printer!MoveCursor
  <2> USE DEF Printer!Destination, Printer!Printf, Printer!Written, Printer!Display,
              Printer!CursorArguments, Printer!MoveCursor, Printer!SetIndex, Printer!SetRegister
  <2>1. CellBound' = CellBound /\ (p_past > 0 => RowAt(Height) <= CellBound)'
    BY <1>5, <1>9
  <2>2. QED  BY <1>1, <1>2, <1>3, <1>9, <2>1 DEF Reach, RowsBounded
<1>10. CASE Printer!NextCharacter
  <2>1. /\ p_con' = p_con /\ p_past' = p_past /\ p_pc = "next" /\ p_reg' = p_reg
        /\ \/ p_pc' = "newline" /\ CellBound' = CellBound + Width
           \/ p_pc' \in {"display", "cell"} /\ CellBound' = CellBound
    <3>1. RowAt(p_newlines + 1 + p_interruptions) = RowAt(p_newlines + p_interruptions) + Width
      BY OneMoreRow
    <3>2. /\ p_con' = p_con /\ p_past' = p_past /\ p_pc = "next" /\ p_reg' = p_reg
          /\ p_stores' = p_stores /\ p_interruptions' = p_interruptions
          /\ \/ p_pc' = "newline" /\ p_newlines' = p_newlines + 1
             \/ p_pc' \in {"display", "cell"} /\ p_newlines' = p_newlines
      BY <1>10 DEF Printer!NextCharacter
    <3>3. RowAt(p_newlines + p_interruptions) \in Nat
      BY <1>1, NextRow
    <3>4. QED  BY <1>1, <1>2, <3>1, <3>2, <3>3 DEF CellBound
  <2>2. RowAt(Height) \in Nat
    BY NextRow, ScreenAssumption
  <2>3. QED  BY <1>1, <1>2, <1>3, <2>1, <2>2 DEF Reach, RowsBounded
<1>11. CASE Printer!StoreCharacter
  <2>1. /\ p_con'.cursor_row = p_con.cursor_row /\ p_con'.cursor_column = p_con.cursor_column
        /\ p_pc = "cell_store" /\ p_pc' = "advance"
        /\ p_past' = IF p_dest \in Printer!Cells THEN p_past ELSE p_past + 1
    BY <1>11, CharacterStored DEF Printer!StoreCharacter, Printer!Counted
  <2>5. CellBound' = CellBound + 1
    <3>1. p_stores' = p_stores + 1 /\ p_newlines' = p_newlines /\ p_interruptions' = p_interruptions
      BY <1>11 DEF Printer!StoreCharacter, Printer!Counted
    <3>2. RowAt(p_newlines + p_interruptions) \in Nat
      BY <1>1, NextRow
    <3>3. QED  BY <1>1, <3>1, <3>2 DEF CellBound
  <2>2. RowAt(Height) \in Nat
    BY NextRow, ScreenAssumption
  <2>3. p_dest \notin Printer!Cells => RowAt(Height) <= CellBound
    BY <1>1, <1>2, <1>3, <2>1, ScreenAssumption DEF ChosenBehind, Printer!Cells, Reach, RowAt
  <2>4. QED  BY <1>1, <1>2, <1>3, <2>1, <2>2, <2>3, <2>5 DEF Reach, RowsBounded
<1>12. QED  BY <1>6, <1>7, <1>8, <1>9, <1>10, <1>11 DEF Printer!Kmain

\* The cell that kmain has chosen.
LEMMA KeyKeepsChosen ==
    ASSUME PrinterTypes, Places, ChosenBehind,
           NEW ch \in CharacterSet \cup {Printer!NL}, ch # Printer!NL => ch # Printer!Blank,
           Printer!PrintFromHandler(ch)
    PROVE  ChosenBehind'
<1>1. /\ p_con.cursor_row \in Nat /\ p_con.cursor_column \in 0 .. Width /\ p_dest \in Int
      /\ p_pc = "cell_column" => p_reg \in Nat
      /\ p_pc = "cell_store" => p_con.cursor_column < Width
  BY ConsoleFields DEF PrinterTypes, KmainTypes, Places
<1>2. /\ RowAt(p_con.cursor_row + 1) = RowAt(p_con.cursor_row) + Width
      /\ RowAt(p_con.cursor_row) \in Nat /\ Width \in Nat \ {0}
  BY <1>1, NextRow, OneMoreRow
<1>3. /\ p_pc' = p_pc /\ p_reg' = p_reg /\ p_dest' = p_dest
      /\ \/ p_con'.cursor_row = p_con.cursor_row + 1 /\ p_con'.cursor_column = 0
         \/ p_con'.cursor_row = p_con.cursor_row /\ p_con'.cursor_column = p_con.cursor_column + 1
  BY KeyPrinted
<1>4. QED  BY <1>1, <1>2, <1>3 DEF ChosenBehind

LEMMA KmainKeepsChosen ==
    ASSUME PrinterTypes, Places, ChosenBehind, Printer!Kmain
    PROVE  ChosenBehind'
<1> USE DEF Printer!Goto, Printer!Load, Printer!Store, Printer!Branch
<1>1. /\ p_con.cursor_row \in Nat /\ p_con.cursor_column \in 0 .. Width
      /\ p_pc = "cell_column" => p_reg \in Nat
      /\ p_pc = "cell_column" => p_reg <= p_con.cursor_row
      /\ Width \in Nat \ {0} /\ RowAt(p_con.cursor_row) \in Nat
  BY ConsoleFields, NextRow, ScreenAssumption DEF PrinterTypes, Places, ChosenBehind
<1>2. CASE Printer!Destination
  <2>1. CASE p_pc = "cell_column"
    <3>1. RowAt(p_reg) <= RowAt(p_con.cursor_row) /\ RowAt(p_reg) \in Nat
      <4>1. CASE p_reg = p_con.cursor_row
        BY <1>1, <2>1, <4>1
      <4>2. CASE p_reg # p_con.cursor_row
        <5>1. p_reg \in Nat /\ p_reg < p_con.cursor_row
          BY <1>1, <2>1, <4>2
        <5>2. RowAt(p_reg) \in Nat /\ RowAt(p_reg) + Width <= RowAt(p_con.cursor_row)
          BY <5>1, <1>1, NextRow, LaterRow
        <5>3. QED  BY <5>2, <1>1
      <4>3. QED  BY <4>1, <4>2
    <3>2. p_con' = p_con /\ p_pc' = "cell_store" /\ p_dest' = RowAt(p_reg) + p_con.cursor_column
      BY <1>2, <2>1 DEF Printer!Destination, RowAt
    <3>3. QED  BY <1>1, <3>1, <3>2 DEF ChosenBehind
  <2>2. CASE p_pc # "cell_column"
    BY <1>1, <1>2, <2>2 DEF Printer!Destination, ChosenBehind
  <2>3. QED  BY <2>1, <2>2
<1>3. CASE p_pc' \notin {"cell_column", "cell_store"}
  BY <1>3 DEF ChosenBehind
<1>4. QED  BY <1>2, <1>3 DEF Printer!Kmain, Printer!Printf, Printer!NextCharacter, Printer!NewLine,
     Printer!StoreCharacter, Printer!Advance, Printer!Scroll, Printer!Written, Printer!Display,
     Printer!CursorArguments, Printer!MoveCursor, Printer!SetIndex, Printer!SetRegister

-----------------------------------------------------------------------------
\* Losses.

LEMMA NoMore ==
    ASSUME NEW S, IsFiniteSet(S), NEW T, T \subseteq S
    PROVE  IsFiniteSet(T) /\ Cardinality(T) \in Nat /\ Cardinality(S) \in Nat /\ Cardinality(T) <= Cardinality(S)
  BY FS_Subset, FS_CardinalityType

LEMMA OneMore ==
    ASSUME NEW S, IsFiniteSet(S), NEW x, NEW T, T \subseteq S \cup {x}
    PROVE  IsFiniteSet(T) /\ Cardinality(T) \in Nat /\ Cardinality(S) \in Nat /\ Cardinality(T) <= Cardinality(S) + 1
<1>1. IsFiniteSet(S \cup {x}) /\ (Cardinality(S \cup {x}) = Cardinality(S) \/ Cardinality(S \cup {x}) = Cardinality(S) + 1)
  BY FS_AddElement
<1>2. QED  BY <1>1, FS_Subset, FS_CardinalityType

LEMMA OneLess ==
    ASSUME NEW S, IsFiniteSet(S), NEW x \in S, NEW T, T \subseteq S \ {x}
    PROVE  IsFiniteSet(T) /\ Cardinality(T) \in Nat /\ Cardinality(S) \in Nat /\ Cardinality(T) <= Cardinality(S) - 1
<1>1. IsFiniteSet(S \ {x}) /\ Cardinality(S \ {x}) = Cardinality(S) - 1
  BY FS_RemoveElement
<1>2. QED  BY <1>1, FS_Subset, FS_CardinalityType

LEMMA RiskyIsFinite ==
    ASSUME NEW buffer, NEW from, NEW chosen
    PROVE  IsFiniteSet(Risky(buffer, from, chosen))
<1>1. IsFiniteSet(Printer!Cells)
  BY FS_Interval, ScreenAssumption DEF Printer!Cells
<1>2. Risky(buffer, from, chosen) \subseteq Printer!Cells
  BY DEF Risky
<1>3. QED  BY <1>1, <1>2, FS_Subset

LEMMA WrittenOver ==
    ASSUME NEW chars, NEW buffer \in [Printer!Cells -> CharacterSet], NEW n \in Printer!Cells, NEW ch \in CharacterSet,
           Printer!Blank \notin chars
    PROVE  /\ Missing(chars \cup {ch}, [buffer EXCEPT ![n] = ch]) \subseteq Missing(chars, buffer) \cup {buffer[n]}
           /\ buffer[n] = Printer!Blank =>
                  Missing(chars \cup {ch}, [buffer EXCEPT ![n] = ch]) \subseteq Missing(chars, buffer)
<1> DEFINE after == [buffer EXCEPT ![n] = ch]
<1>1. SUFFICES ASSUME NEW x \in Missing(chars \cup {ch}, after), x \notin Missing(chars, buffer)
               PROVE  x = buffer[n] /\ x # Printer!Blank
  OBVIOUS
<1>2. DOMAIN after = Printer!Cells /\ DOMAIN buffer = Printer!Cells /\ after[n] = ch
      /\ \A m \in Printer!Cells : m # n => after[m] = buffer[m]
  OBVIOUS
<1> HIDE DEF after
<1>3. x \in chars /\ x \in Printer!Range(buffer)
  BY <1>1, <1>2 DEF Missing, Printer!Range
<1>4. PICK m \in Printer!Cells : x = buffer[m]
  BY <1>2, <1>3 DEF Printer!Range
<1>5. m = n
  BY <1>1, <1>2, <1>4 DEF Missing, Printer!Range
<1>6. QED  BY <1>3, <1>4, <1>5

\* A character that is written over a cell costs at most the one in it.
LEMMA OneLost ==
    ASSUME NEW chars, IsFiniteSet(chars), NEW buffer \in [Printer!Cells -> CharacterSet],
           NEW n \in Printer!Cells, NEW ch \in CharacterSet,
           Printer!Blank \notin chars,
           NEW old, old = Missing(chars, buffer),
           NEW new, new = Missing(chars \cup {ch}, [buffer EXCEPT ![n] = ch])
    PROVE  /\ Cardinality(old) \in Nat /\ Cardinality(new) \in Nat
           /\ Cardinality(new) <= Cardinality(old) + 1
           /\ buffer[n] = Printer!Blank => Cardinality(new) <= Cardinality(old)
<1>1. IsFiniteSet(old)
  BY FS_Subset DEF Missing
<1>2. new \subseteq old \cup {buffer[n]} /\ (buffer[n] = Printer!Blank => new \subseteq old)
  BY WrittenOver
<1>3. Cardinality(new) \in Nat /\ Cardinality(old) \in Nat /\ Cardinality(new) <= Cardinality(old) + 1
  BY <1>1, <1>2, OneMore
<1>4. buffer[n] = Printer!Blank => Cardinality(new) <= Cardinality(old)
  BY <1>1, <1>2, NoMore
<1>5. QED  BY <1>3, <1>4

LEMMA OwedType ==
    ASSUME NEW chars, IsFiniteSet(chars), NEW buffer, NEW from, NEW chosen
    PROVE  /\ IsFiniteSet(Missing(chars, buffer)) /\ IsFiniteSet(Risky(buffer, from, chosen))
           /\ Cardinality(Missing(chars, buffer)) \in Nat
           /\ Cardinality(Risky(buffer, from, chosen)) \in Nat
           /\ Owed(chars, buffer, from, chosen) \in Nat
<1>1. IsFiniteSet(Missing(chars, buffer))
  BY FS_Subset DEF Missing
<1>2. QED  BY <1>1, RiskyIsFinite, FS_CardinalityType DEF Owed

LEMMA NothingStored ==
    ASSUME NEW chars, IsFiniteSet(chars), NEW buffer, NEW from \in Int, NEW chosen, NEW next \in Int, NEW then,
           from <= next, then \subseteq chosen \cup {from}
    PROVE  Owed(chars, buffer, next, then) <= Owed(chars, buffer, from, chosen)
<1> DEFINE old == Risky(buffer, from, chosen)
           new == Risky(buffer, next, then)
           missing == Missing(chars, buffer)
<1>1. new \subseteq old
  BY DEF Risky, Printer!Cells
<1>2. IsFiniteSet(old) /\ Cardinality(missing) \in Nat
  BY OwedType
<1> HIDE DEF old, new, missing
<1>3. Cardinality(new) \in Nat /\ Cardinality(old) \in Nat /\ Cardinality(new) <= Cardinality(old)
  BY <1>1, <1>2, NoMore
<1>4. QED  BY <1>2, <1>3 DEF Owed, old, new, missing

LEMMA OtherChosen ==
    ASSUME NEW chars, IsFiniteSet(chars), NEW buffer, NEW from \in Int, NEW chosen, NEW next \in Int, NEW cell,
           from <= next
    PROVE  Owed(chars, buffer, next, {cell}) <= Owed(chars, buffer, from, chosen) + 1
<1> DEFINE old == Risky(buffer, from, chosen)
           new == Risky(buffer, next, {cell})
           missing == Missing(chars, buffer)
<1>1. new \subseteq old \cup {cell}
  BY DEF Risky, Printer!Cells
<1>2. IsFiniteSet(old) /\ Cardinality(missing) \in Nat
  BY OwedType
<1> HIDE DEF old, new, missing
<1>3. Cardinality(new) \in Nat /\ Cardinality(old) \in Nat /\ Cardinality(new) <= Cardinality(old) + 1
  BY <1>1, <1>2, OneMore
<1>4. QED  BY <1>2, <1>3 DEF Owed, old, new, missing

LEMMA StoredPastTheEnd ==
    ASSUME NEW chars, IsFiniteSet(chars), NEW ch, NEW buffer, NEW from, NEW chosen
    PROVE  Owed(chars \cup {ch}, buffer, from, chosen) <= Owed(chars, buffer, from, chosen) + 1
<1> DEFINE old == Missing(chars, buffer)
           new == Missing(chars \cup {ch}, buffer)
           risky == Risky(buffer, from, chosen)
<1>1. new \subseteq old \cup {ch}
  BY DEF Missing
<1>2. IsFiniteSet(old) /\ Cardinality(risky) \in Nat
  BY OwedType
<1> HIDE DEF old, new, risky
<1>3. Cardinality(new) \in Nat /\ Cardinality(old) \in Nat /\ Cardinality(new) <= Cardinality(old) + 1
  BY <1>1, <1>2, OneMore
<1>4. QED  BY <1>2, <1>3 DEF Owed, old, new, risky

\* The handler writes in the middle of kmain's printing.
LEMMA StoredBetween ==
    ASSUME NEW chars, IsFiniteSet(chars), Printer!Blank \notin chars,
           NEW buffer \in [Printer!Cells -> CharacterSet], NEW n \in Printer!Cells,
           NEW ch \in CharacterSet,
           NEW from \in Int, NEW next \in Int, from <= next, NEW chosen
    PROVE  Owed(chars \cup {ch}, [buffer EXCEPT ![n] = ch], next, chosen)
               <= Owed(chars, buffer, from, chosen) + 1
<1> DEFINE after == [buffer EXCEPT ![n] = ch]
           old == Missing(chars, buffer)
           new == Missing(chars \cup {ch}, after)
           risk == Risky(buffer, from, chosen)
           left == Risky(after, next, chosen)
<1>1. /\ Cardinality(old) \in Nat /\ Cardinality(new) \in Nat
      /\ Cardinality(new) <= Cardinality(old) + 1
      /\ buffer[n] = Printer!Blank => Cardinality(new) <= Cardinality(old)
  BY OneLost
<1>2. IsFiniteSet(risk) /\ Cardinality(risk) \in Nat
  BY OwedType
<1>3. n \in Int /\ \A m \in Printer!Cells : m \in Int /\ (m # n => after[m] = buffer[m])
  BY DEF Printer!Cells
<1> HIDE DEF old, new, after
<1>4. CASE ~(n >= from \/ n \in chosen)
  <2>1. left \subseteq risk
    <3>1. ASSUME NEW m \in left  PROVE m \in risk
      <4>1. m \in Printer!Cells /\ (m >= next \/ m \in chosen) /\ after[m] # Printer!Blank
        BY <1>4 DEF Risky
      <4>2. m \in Int /\ (m >= from \/ m \in chosen) /\ m # n
        BY <1>3, <1>4, <4>1
      <4>3. QED  BY <1>3, <4>1, <4>2 DEF Risky
    <3>2. QED  BY <3>1
  <2> HIDE DEF risk, left
  <2>2. Cardinality(left) \in Nat /\ Cardinality(left) <= Cardinality(risk)
    BY <1>2, <2>1, NoMore
  <2>3. QED  BY <1>1, <1>2, <2>2 DEF Owed, old, new, risk, left, after
<1>5. CASE (n >= from \/ n \in chosen)
  <2>1. ASSUME NEW m \in left  PROVE m \in risk \/ m = n
    <3>1. m \in Printer!Cells /\ (m >= next \/ m \in chosen) /\ after[m] # Printer!Blank
      BY <1>5 DEF Risky
    <3>2. m \in Int /\ (m >= from \/ m \in chosen)
      BY <1>3, <3>1
    <3>3. QED  BY <1>3, <3>1, <3>2 DEF Risky
  <2>2. buffer[n] # Printer!Blank => n \in risk
    BY <1>5 DEF Risky
  <2> HIDE DEF risk, left
  <2>3. Cardinality(left) \in Nat /\ Cardinality(left) <= Cardinality(risk) + 1
    BY <1>2, <2>1, OneMore
  <2>4. buffer[n] # Printer!Blank => Cardinality(left) <= Cardinality(risk)
    BY <1>2, <2>1, <2>2, NoMore
  <2>5. QED  BY <1>1, <1>2, <2>3, <2>4 DEF Owed, old, new, risk, left, after
<1>6. QED  BY <1>4, <1>5

\* It writes where the next character would go, and changes what is chosen.
LEMMA StoredAtFrontier ==
    ASSUME NEW chars, IsFiniteSet(chars), Printer!Blank \notin chars,
           NEW buffer \in [Printer!Cells -> CharacterSet], NEW n \in Printer!Cells,
           NEW ch \in CharacterSet,
           NEW from \in Int, NEW next \in Int, n >= from, n < next, NEW chosen, NEW cell
    PROVE  Owed(chars \cup {ch}, [buffer EXCEPT ![n] = ch], next, {cell})
               <= Owed(chars, buffer, from, chosen) + 1
<1> DEFINE after == [buffer EXCEPT ![n] = ch]
           old == Missing(chars, buffer)
           new == Missing(chars \cup {ch}, after)
           risk == Risky(buffer, from, chosen)
           left == Risky(after, next, {cell})
<1>1. /\ Cardinality(old) \in Nat /\ Cardinality(new) \in Nat
      /\ Cardinality(new) <= Cardinality(old) + 1
      /\ buffer[n] = Printer!Blank => Cardinality(new) <= Cardinality(old)
  BY OneLost
<1>2. IsFiniteSet(risk) /\ Cardinality(risk) \in Nat
  BY OwedType
<1>3. n \in Int /\ \A m \in Printer!Cells : m \in Int /\ (m # n => after[m] = buffer[m])
  BY DEF Printer!Cells
<1> HIDE DEF old, new, after
<1>4. left \subseteq (risk \ {n}) \cup {cell}
  <2>1. ASSUME NEW m \in left, m # cell  PROVE m \in risk /\ m # n
    <3>1. m \in Printer!Cells /\ m >= next /\ after[m] # Printer!Blank
      BY <2>1 DEF Risky
    <3>2. m \in Int /\ m >= from /\ m # n
      BY <1>3, <3>1
    <3>3. QED  BY <1>3, <3>1, <3>2 DEF Risky
  <2>2. QED  BY <2>1
<1>5. buffer[n] # Printer!Blank => n \in risk
  BY DEF Risky
<1> HIDE DEF risk, left
<1>6. CASE buffer[n] # Printer!Blank
  <2>1. IsFiniteSet(risk \ {n}) /\ Cardinality(risk \ {n}) \in Nat /\ Cardinality(risk \ {n}) <= Cardinality(risk) - 1
    BY <1>2, <1>5, <1>6, OneLess
  <2>2. Cardinality(left) \in Nat /\ Cardinality(left) <= Cardinality(risk \ {n}) + 1
    BY <1>4, <2>1, OneMore
  <2>3. QED  BY <1>1, <1>2, <2>1, <2>2 DEF Owed, old, new, risk, left, after
<1>7. CASE buffer[n] = Printer!Blank
  <2>1. left \subseteq risk \cup {cell}
    BY <1>4
  <2>2. Cardinality(left) \in Nat /\ Cardinality(left) <= Cardinality(risk) + 1
    BY <1>2, <2>1, OneMore
  <2>3. QED  BY <1>1, <1>2, <1>7, <2>2 DEF Owed, old, new, risk, left, after
<1>8. QED  BY <1>6, <1>7

\* kmain writes the cell that it has chosen.
LEMMA StoredAsChosen ==
    ASSUME NEW chars, IsFiniteSet(chars), Printer!Blank \notin chars,
           NEW buffer \in [Printer!Cells -> CharacterSet], NEW n \in Printer!Cells,
           NEW ch \in CharacterSet, NEW from \in Int, n <= from
    PROVE  Owed(chars \cup {ch}, [buffer EXCEPT ![n] = ch], from + 1, {}) <= Owed(chars, buffer, from, {n})
<1> DEFINE after == [buffer EXCEPT ![n] = ch]
           old == Missing(chars, buffer)
           new == Missing(chars \cup {ch}, after)
           risk == Risky(buffer, from, {n})
           left == Risky(after, from + 1, {})
<1>1. /\ Cardinality(old) \in Nat /\ Cardinality(new) \in Nat
      /\ Cardinality(new) <= Cardinality(old) + 1
      /\ buffer[n] = Printer!Blank => Cardinality(new) <= Cardinality(old)
  BY OneLost
<1>2. IsFiniteSet(risk) /\ Cardinality(risk) \in Nat
  BY OwedType
<1>3. n \in Int /\ \A m \in Printer!Cells : m \in Int /\ (m # n => after[m] = buffer[m])
  BY DEF Printer!Cells
<1> HIDE DEF old, new, after
<1>4. left \subseteq risk \ {n} /\ (buffer[n] # Printer!Blank => n \in risk)
  <2>1. ASSUME NEW m \in left  PROVE m \in risk /\ m # n
    <3>1. m \in Printer!Cells /\ m >= from + 1 /\ after[m] # Printer!Blank
      BY DEF Risky
    <3>2. m \in Int /\ m >= from /\ m # n
      BY <1>3, <3>1
    <3>3. QED  BY <1>3, <3>1, <3>2 DEF Risky
  <2>2. buffer[n] # Printer!Blank => n \in risk
    BY DEF Risky
  <2>3. QED  BY <2>1, <2>2
<1> HIDE DEF risk, left
<1>5. CASE buffer[n] # Printer!Blank
  <2>1. Cardinality(left) \in Nat /\ Cardinality(left) <= Cardinality(risk) - 1
    BY <1>2, <1>4, <1>5, OneLess
  <2>2. QED  BY <1>1, <1>2, <2>1 DEF Owed, old, new, risk, left, after
<1>6. CASE buffer[n] = Printer!Blank
  <2>1. left \subseteq risk
    BY <1>4
  <2>2. Cardinality(left) \in Nat /\ Cardinality(left) <= Cardinality(risk)
    BY <1>2, <2>1, NoMore
  <2>3. QED  BY <1>1, <1>2, <1>6, <2>2 DEF Owed, old, new, risk, left, after
<1>7. QED  BY <1>5, <1>6

LEMMA KeyMovesFrontier ==
    ASSUME PrinterTypes, Places, ChosenBehind,
           NEW ch \in CharacterSet \cup {Printer!NL}, ch # Printer!NL => ch # Printer!Blank,
           Printer!PrintFromHandler(ch),
           NEW at, at = RowAt(p_con.cursor_row) + p_con.cursor_column
    PROVE  /\ at \in Nat /\ Frontier \in Int /\ Frontier' \in Int /\ Frontier <= Frontier'
           /\ \/ Chosen' = Chosen
              \/ /\ at >= Frontier /\ at < Frontier'
                 /\ Chosen' = {RowAt(p_reg) + p_con'.cursor_column}
<1>1. /\ p_con.cursor_row \in Nat /\ p_con.cursor_column \in 0 .. Width /\ p_reg \in Int
      /\ p_pc \in {"newline_down", "cell_column", "wrap_store"} => p_reg \in Nat
      /\ p_pc \notin {"edge", "wrap", "wrap_store", "wrap_zero"} => p_con.cursor_column < Width
  BY ConsoleFields DEF PrinterTypes, KmainTypes, Places
<1>2. /\ RowAt(p_con.cursor_row + 1) = RowAt(p_con.cursor_row) + Width
      /\ RowAt(p_con.cursor_row) \in Nat /\ Width \in Nat \ {0}
  BY <1>1, NextRow, OneMoreRow
<1>3. /\ p_pc' = p_pc /\ p_reg' = p_reg /\ p_dest' = p_dest
      /\ \/ p_con'.cursor_row = p_con.cursor_row + 1 /\ p_con'.cursor_column = 0
         \/ /\ p_con.cursor_column + 1 < Width
            /\ p_con'.cursor_row = p_con.cursor_row /\ p_con'.cursor_column = p_con.cursor_column + 1
  BY KeyPrinted
<1>4. at \in Nat
  BY <1>1, <1>2
<1>5. CASE p_pc \in {"newline_down", "wrap_store"}
  <2>1. RowAt(p_reg) \in Nat
    BY <1>1, <1>5, NextRow
  <2>2. Chosen' = Chosen
    BY <1>3, <1>5 DEF Chosen
  <2>3. Frontier = RowAt(p_reg) + Width /\ Frontier' = RowAt(p_reg) + Width
    BY <1>3, <1>5 DEF Frontier, Reach
  <2>4. QED  BY <1>2, <1>4, <2>1, <2>2, <2>3
<1>6. CASE p_pc = "cell_column"
  <2>1. Frontier = at /\ Frontier' = RowAt(p_con'.cursor_row) + p_con'.cursor_column
    BY <1>3, <1>6 DEF Frontier, Reach
  <2>2. Chosen' = {RowAt(p_reg) + p_con'.cursor_column}
    BY <1>3, <1>6 DEF Chosen
  <2>3. Frontier' \in Int /\ at < Frontier'
    BY <1>1, <1>2, <1>3, <1>6, <2>1
  <2>4. QED  BY <1>4, <2>1, <2>2, <2>3
<1>7. CASE p_pc \notin {"newline_down", "wrap_store", "cell_column"}
  <2>1. Chosen' = Chosen
    BY <1>3, <1>7 DEF Chosen
  <2>2. /\ RowAt(p_con'.cursor_row) + p_con'.cursor_column \in Int
        /\ at <= RowAt(p_con'.cursor_row) + p_con'.cursor_column
        /\ RowAt(p_con'.cursor_row) \in Int /\ RowAt(p_con.cursor_row) <= RowAt(p_con'.cursor_row)
    BY <1>1, <1>2, <1>3
  <2>4. Frontier \in Int /\ Frontier' \in Int /\ Frontier <= Frontier'
    <3>1. CASE p_pc \in {"newline", "newline_row", "wrap"}
      <4>1. Frontier = RowAt(p_con.cursor_row) + Width /\ Frontier' = RowAt(p_con'.cursor_row) + Width
        BY <1>3, <3>1 DEF Frontier, Reach
      <4>2. QED  BY <1>2, <2>2, <4>1
    <3>2. CASE p_pc = "advance"
      <4>1. Frontier = at + 1 /\ Frontier' = RowAt(p_con'.cursor_row) + p_con'.cursor_column + 1
        BY <1>3, <3>2 DEF Frontier, Reach
      <4>2. QED  BY <1>4, <2>2, <4>1
    <3>3. CASE p_pc = "advance_store"
      <4>1. Frontier = RowAt(p_con.cursor_row) + p_reg + 1 /\ Frontier' = RowAt(p_con'.cursor_row) + p_reg + 1
        BY <1>3, <3>3 DEF Frontier, Reach
      <4>2. QED  BY <1>1, <1>2, <2>2, <4>1
    <3>4. CASE p_pc = "wrap_zero"
      <4>1. Frontier = RowAt(p_con.cursor_row) /\ Frontier' = RowAt(p_con'.cursor_row)
        BY <1>3, <3>4 DEF Frontier, Reach
      <4>2. QED  BY <1>2, <2>2, <4>1
    <3>5. CASE p_pc \notin {"newline", "newline_row", "wrap", "advance", "advance_store", "wrap_zero"}
      <4>1. Frontier = at /\ Frontier' = RowAt(p_con'.cursor_row) + p_con'.cursor_column
        BY <1>3, <1>7, <3>5 DEF Frontier, Reach
      <4>2. QED  BY <1>4, <2>2, <4>1
    <3>6. QED  BY <3>1, <3>2, <3>3, <3>4, <3>5
  <2>3. QED  BY <1>4, <2>1, <2>4
<1>8. QED  BY <1>5, <1>6, <1>7

LEMMA KeyKeepsPaid ==
    ASSUME PrinterTypes, Places, ChosenBehind, LossPaid,
           NEW ch \in CharacterSet \cup {Printer!NL}, ch # Printer!NL => ch # Printer!Blank,
           Printer!PrintFromHandler(ch)
    PROVE  LossPaid'
<1>0. PICK at : at = RowAt(p_con.cursor_row) + p_con.cursor_column
  OBVIOUS
<1>1. /\ Frontier \in Int /\ Frontier' \in Int /\ Frontier <= Frontier'
      /\ \/ Chosen' = Chosen
         \/ /\ at >= Frontier /\ at < Frontier'
            /\ Chosen' = {RowAt(p_reg) + p_con'.cursor_column}
  BY <1>0, KeyMovesFrontier
<1>2. /\ IsFiniteSet(p_printed) /\ Printer!Blank \notin p_printed
      /\ p_con.buffer \in [Printer!Cells -> CharacterSet]
  BY ConsoleFields DEF PrinterTypes, HistoryTypes
<1>3. p_interruptions \in Nat /\ p_past \in Nat
  BY DEF PrinterTypes, HistoryTypes
<1>4. p_interruptions' = p_interruptions + 1
  BY KeyPrinted
<1>5. \/ p_con'.buffer = p_con.buffer /\ p_printed' = p_printed /\ p_past' = p_past
      \/ /\ ch \in CharacterSet \ {Printer!Blank} /\ p_printed' = p_printed \cup {ch}
         /\ \/ at \in Printer!Cells /\ p_past' = p_past /\ p_con'.buffer = [p_con.buffer EXCEPT ![at] = ch]
            \/ at \notin Printer!Cells /\ p_past' = p_past + 1 /\ p_con'.buffer = p_con.buffer
  BY <1>0, KeyPrinted
<1>6. Owed(p_printed, p_con.buffer, Frontier, Chosen) \in Nat
      /\ Owed(p_printed, p_con.buffer, Frontier, Chosen) <= p_interruptions + p_past
  BY <1>2, OwedType DEF LossPaid
<1>7. ASSUME NEW chars, IsFiniteSet(chars)
      PROVE  /\ Owed(chars, p_con.buffer, Frontier', Chosen') <= Owed(chars, p_con.buffer, Frontier, Chosen) + 1
             /\ Owed(chars, p_con.buffer, Frontier, Chosen) \in Nat
             /\ Owed(chars, p_con.buffer, Frontier', Chosen') \in Nat
  <2>1. /\ Owed(chars, p_con.buffer, Frontier, Chosen) \in Nat
        /\ Owed(chars, p_con.buffer, Frontier', Chosen') \in Nat
    BY <1>7, OwedType
  <2>2. CASE Chosen' = Chosen
    <3>1. Chosen' \subseteq Chosen \cup {Frontier}
      BY <2>2
    <3>2. Owed(chars, p_con.buffer, Frontier', Chosen') <= Owed(chars, p_con.buffer, Frontier, Chosen)
      BY <1>1, <1>7, <3>1, NothingStored
    <3>3. QED  BY <2>1, <3>2
  <2>3. ASSUME NEW cell, Chosen' = {cell}
        PROVE  Owed(chars, p_con.buffer, Frontier', Chosen') <= Owed(chars, p_con.buffer, Frontier, Chosen) + 1
    BY <1>1, <1>7, <2>3, OtherChosen
  <2>4. QED  BY <1>1, <2>1, <2>2, <2>3
<1>8. CASE p_con'.buffer = p_con.buffer /\ p_printed' = p_printed /\ p_past' = p_past
  <2>1. /\ Owed(p_printed, p_con.buffer, Frontier', Chosen') <= Owed(p_printed, p_con.buffer, Frontier, Chosen) + 1
        /\ Owed(p_printed, p_con.buffer, Frontier', Chosen') \in Nat
    BY <1>2, <1>7
  <2>2. QED  BY <1>3, <1>4, <1>6, <1>8, <2>1 DEF LossPaid
<1>9. CASE /\ ch \in CharacterSet \ {Printer!Blank} /\ p_printed' = p_printed \cup {ch}
           /\ at \in Printer!Cells /\ p_past' = p_past /\ p_con'.buffer = [p_con.buffer EXCEPT ![at] = ch]
  <2>1. Owed(p_printed \cup {ch}, [p_con.buffer EXCEPT ![at] = ch], Frontier', Chosen')
            <= Owed(p_printed, p_con.buffer, Frontier, Chosen) + 1
    <3>1. ch \in CharacterSet /\ at \in Printer!Cells
      BY <1>9
    <3>2. CASE Chosen' = Chosen
      <4>1. Frontier \in Int /\ Frontier' \in Int /\ Frontier <= Frontier'
        BY <1>1
      <4>2. QED  BY <1>2, <3>1, <3>2, <4>1, StoredBetween
    <3>3. CASE /\ at >= Frontier /\ at < Frontier'
               /\ Chosen' = {RowAt(p_reg) + p_con'.cursor_column}
      <4>1. PICK cell : cell = RowAt(p_reg) + p_con'.cursor_column
        OBVIOUS
      <4>2. Frontier \in Int /\ Frontier' \in Int /\ Frontier <= Frontier' /\ Chosen' = {cell}
        BY <1>1, <3>3, <4>1
      <4>3. QED  BY <1>2, <3>1, <3>3, <4>2, StoredAtFrontier
    <3>4. QED  BY <1>1, <3>2, <3>3
  <2>2. Owed(p_printed', p_con'.buffer, Frontier', Chosen') \in Nat
    BY <1>2, <1>9, FS_AddElement, OwedType
  <2>3. QED  BY <1>3, <1>4, <1>6, <1>9, <2>1, <2>2 DEF LossPaid
<1>10. CASE /\ ch \in CharacterSet \ {Printer!Blank} /\ p_printed' = p_printed \cup {ch}
            /\ p_past' = p_past + 1 /\ p_con'.buffer = p_con.buffer
  <2>1. Owed(p_printed \cup {ch}, p_con.buffer, Frontier, Chosen) <= Owed(p_printed, p_con.buffer, Frontier, Chosen) + 1
    BY <1>2, StoredPastTheEnd
  <2>2. /\ Owed(p_printed', p_con.buffer, Frontier', Chosen') <= Owed(p_printed', p_con.buffer, Frontier, Chosen) + 1
        /\ Owed(p_printed', p_con.buffer, Frontier, Chosen) \in Nat
        /\ Owed(p_printed', p_con.buffer, Frontier', Chosen') \in Nat
    <3>1. IsFiniteSet(p_printed')
      BY <1>2, <1>10, FS_AddElement
    <3>2. QED  BY <1>7, <3>1
  <2>3. QED  BY <1>3, <1>4, <1>6, <1>10, <2>1, <2>2 DEF LossPaid
<1>11. QED  BY <1>5, <1>8, <1>9, <1>10

\* kmain moves on past what it writes.
LEMMA KmainMovesFrontier ==
    ASSUME PrinterTypes, Places, Printer!Kmain, ~Printer!StoreCharacter
    PROVE  /\ Frontier \in Int /\ Frontier' \in Int /\ Frontier <= Frontier'
           /\ Chosen' \subseteq Chosen \cup {Frontier}
           /\ p_con'.buffer = p_con.buffer
<1> USE DEF Printer!Goto, Printer!Load, Printer!Store, Printer!Branch
<1>1. /\ p_con \in ConsoleSet /\ p_con.cursor_row \in Nat /\ p_con.cursor_column \in 0 .. Width
      /\ p_reg \in Int /\ p_dest \in Int
  BY ConsoleFields DEF PrinterTypes, KmainTypes
<1>2. /\ RowAt(p_con.cursor_row + 1) = RowAt(p_con.cursor_row) + Width
      /\ RowAt(p_con.cursor_row) \in Nat /\ Width \in Nat \ {0}
  BY <1>1, NextRow, OneMoreRow
<1>3. /\ p_pc \notin {"edge", "wrap", "wrap_store", "wrap_zero"} => p_con.cursor_column < Width
      /\ p_pc \in {"newline_down", "wrap_store"} => p_reg \in Nat
      /\ p_pc = "advance_store" => p_reg \in 0 .. (Width - 1)
  BY DEF Places
<1>4. p_pc \in {"newline_down", "wrap_store"} => RowAt(p_reg + 1) = RowAt(p_reg) + Width /\ RowAt(p_reg) \in Nat
  BY <1>3, NextRow
<1>5. CASE Printer!NewLine
  BY <1>1, <1>2, <1>3, <1>4, <1>5, ColumnSet, RowSet DEF Printer!NewLine, Frontier, Reach, Chosen
<1>6. CASE Printer!Advance
  BY <1>1, <1>2, <1>3, <1>4, <1>6, ColumnSet, RowSet DEF Printer!Advance, Printer!AtEdge, Frontier, Reach, Chosen
<1>7. CASE Printer!Scroll
  <2>1. /\ p_con'.cursor_row = p_con.cursor_row /\ p_con'.cursor_column = p_con.cursor_column
        /\ p_con'.buffer = p_con.buffer
        /\ p_pc \in ScrollLabels /\ p_pc' \in ScrollLabels
    BY <1>7, KmainScrolls
  <2>2. QED  BY <1>1, <1>2, <2>1 DEF Frontier, Reach, Chosen, ScrollLabels
<1>8. CASE Printer!Destination
  <2>1. CASE p_pc = "cell"
    <3>1. p_con' = p_con /\ p_pc' = "cell_column" /\ p_reg' = p_con.cursor_row
      BY <1>8, <2>1 DEF Printer!Destination
    <3>2. QED  BY <1>1, <1>2, <2>1, <3>1 DEF Frontier, Reach, Chosen
  <2>2. CASE p_pc = "cell_column"
    <3>1. p_con' = p_con /\ p_pc' = "cell_store" /\ p_dest' = RowAt(p_reg) + p_con.cursor_column
      BY <1>8, <2>2 DEF Printer!Destination, RowAt
    <3>2. QED  BY <1>1, <1>2, <2>2, <3>1 DEF Frontier, Reach, Chosen
  <2>3. QED  BY <1>8, <2>1, <2>2 DEF Printer!Destination
<1>9. CASE Printer!NextCharacter \/ Printer!Printf \/ Printer!Written
  <2>1. /\ p_con' = p_con /\ p_pc \in {"next", "idle", "written"}
        /\ p_pc' \in {"next", "display", "newline", "cell"}
    BY <1>9 DEF Printer!NextCharacter, Printer!Printf, Printer!Written
  <2>2. Chosen' = {}
    BY <2>1 DEF Chosen
  <2>3. Frontier = RowAt(p_con.cursor_row) + p_con.cursor_column
        /\ \/ Frontier' = RowAt(p_con.cursor_row) + p_con.cursor_column
           \/ Frontier' = RowAt(p_con.cursor_row) + Width
    BY <2>1 DEF Frontier, Reach
  <2>4. QED  BY <1>1, <1>2, <2>1, <2>2, <2>3
<1>10. CASE Printer!Display \/ Printer!CursorArguments \/ Printer!MoveCursor
  BY <1>1, <1>2, <1>10 DEF Printer!Display, Printer!CursorArguments, Printer!MoveCursor,
     Printer!SetIndex, Printer!SetRegister, Frontier, Reach, Chosen
<1>11. QED  BY <1>5, <1>6, <1>7, <1>8, <1>9, <1>10 DEF Printer!Kmain

LEMMA KmainKeepsPaid ==
    ASSUME PrinterTypes, Places, ChosenBehind, LossPaid, Printer!Kmain
    PROVE  LossPaid'
<1>1. /\ IsFiniteSet(p_printed) /\ Printer!Blank \notin p_printed
      /\ p_con.buffer \in [Printer!Cells -> CharacterSet]
  BY ConsoleFields DEF PrinterTypes, HistoryTypes
<1>2. p_interruptions \in Nat /\ p_past \in Nat
  BY DEF PrinterTypes, HistoryTypes
<1>3. Owed(p_printed, p_con.buffer, Frontier, Chosen) \in Nat
      /\ Owed(p_printed, p_con.buffer, Frontier, Chosen) <= p_interruptions + p_past
  BY <1>1, OwedType DEF LossPaid
<1>4. CASE ~Printer!StoreCharacter
  <2>1. p_printed' = p_printed /\ p_past' = p_past /\ p_interruptions' = p_interruptions
    BY <1>4 DEF Printer!Kmain, Printer!Printf, Printer!NextCharacter, Printer!NewLine,
       Printer!Destination, Printer!Advance, Printer!Scroll, Printer!Written, Printer!Display,
       Printer!CursorArguments, Printer!MoveCursor, Printer!SetIndex, Printer!SetRegister,
       Printer!Load, Printer!Store, Printer!Branch, Printer!history
  <2>2. Owed(p_printed, p_con.buffer, Frontier', Chosen') <= Owed(p_printed, p_con.buffer, Frontier, Chosen)
    <3>1. /\ Frontier \in Int /\ Frontier' \in Int /\ Frontier <= Frontier'
          /\ Chosen' \subseteq Chosen \cup {Frontier}
      BY <1>4, KmainMovesFrontier
    <3>2. QED  BY <1>1, <3>1, NothingStored
  <2>3. Owed(p_printed, p_con.buffer, Frontier', Chosen') \in Nat
    BY <1>1, OwedType
  <2>4. p_con'.buffer = p_con.buffer
    BY <1>4, KmainMovesFrontier
  <2>5. QED  BY <1>2, <1>3, <2>1, <2>2, <2>3, <2>4 DEF LossPaid
<1>5. CASE Printer!StoreCharacter
  <2> DEFINE ch == Head(p_text)
  <2>1. /\ p_pc = "cell_store" /\ p_pc' = "advance" /\ p_interruptions' = p_interruptions
        /\ p_printed' = p_printed \cup {ch}
        /\ p_past' = IF p_dest \in Printer!Cells THEN p_past ELSE p_past + 1
    BY <1>5 DEF Printer!StoreCharacter, Printer!Counted, Printer!Goto
  <2>2. /\ ch \in CharacterSet
        /\ p_con'.buffer = IF p_dest \in Printer!Cells THEN [p_con.buffer EXCEPT ![p_dest] = ch] ELSE p_con.buffer
        /\ p_con'.cursor_column = p_con.cursor_column
        /\ p_con'.cursor_row = p_con.cursor_row
    BY <1>5, CharacterStored
  <2> HIDE DEF ch
  <2>3. /\ Frontier \in Int /\ Frontier' = Frontier + 1 /\ p_dest <= Frontier
        /\ Chosen = {p_dest} /\ Chosen' = {}
    <3>1. RowAt(p_con.cursor_row) \in Nat /\ p_con.cursor_column \in Int
      BY ConsoleFields, NextRow DEF PrinterTypes
    <3>2. QED  BY <2>1, <2>2, <3>1 DEF Frontier, Reach, Chosen, ChosenBehind
  <2>4. Owed(p_printed', p_con'.buffer, Frontier', Chosen') \in Nat
    BY <1>1, <2>1, FS_AddElement, OwedType
  <2>5. CASE p_dest \in Printer!Cells
    <3>1. Owed(p_printed \cup {ch}, [p_con.buffer EXCEPT ![p_dest] = ch], Frontier + 1, {})
              <= Owed(p_printed, p_con.buffer, Frontier, {p_dest})
      BY <1>1, <2>2, <2>3, <2>5, StoredAsChosen
    <3>2. QED  BY <1>2, <1>3, <2>1, <2>2, <2>3, <2>4, <2>5, <3>1 DEF LossPaid
  <2>6. CASE p_dest \notin Printer!Cells
    <3>1. Owed(p_printed \cup {ch}, p_con.buffer, Frontier, Chosen) <= Owed(p_printed, p_con.buffer, Frontier, Chosen) + 1
      BY <1>1, StoredPastTheEnd
    <3>2. /\ Owed(p_printed', p_con.buffer, Frontier', Chosen') <= Owed(p_printed', p_con.buffer, Frontier, Chosen)
          /\ Owed(p_printed', p_con.buffer, Frontier, Chosen) \in Nat
      <4>1. IsFiniteSet(p_printed')
        BY <1>1, <2>1, FS_AddElement
      <4>2. Frontier' \in Int /\ Frontier <= Frontier' /\ Chosen' \subseteq Chosen \cup {Frontier}
        BY <2>3
      <4>3. QED  BY <2>3, <4>1, <4>2, NothingStored, OwedType
    <3>3. QED  BY <1>2, <1>3, <2>1, <2>2, <2>4, <2>6, <3>1, <3>2 DEF LossPaid
  <2>7. QED  BY <2>5, <2>6
<1>6. QED  BY <1>4, <1>5

-----------------------------------------------------------------------------
\* What is shown.

LEMMA PositionInScreen ==
    ASSUME NEW c \in ConsoleSet
    PROVE  Printer!Position(c) \in Int
  BY ConsoleFields, ScreenAssumption DEF Printer!Position

\* A key that is printed is shown.
LEMMA KeyIsShown ==
    ASSUME PrinterTypes,
           NEW ch \in CharacterSet \cup {Printer!NL}, ch # Printer!NL => ch # Printer!Blank,
           Printer!PrintFromHandler(ch)
    PROVE  Printer!Shown'
<1>1. /\ p_con'.cursor_column < Width /\ p_con'.cursor_row - p_con'.top_row \in 0 .. (WindowRows - 1)
      /\ p_video_ram' = Printer!Window(p_con')
      /\ p_crtc' = Printer!cursor_at(Printer!Position(p_con'))
  BY KeyPrinted
<1>2. QED  BY <1>1 DEF Printer!Shown

LEMMA KmainKeepsShowing ==
    ASSUME PrinterTypes, Places, CleanShown, Printer!Kmain
    PROVE  CleanShown'
<1> USE DEF Printer!Goto, Printer!Load, Printer!Store, Printer!Branch
<1>0. SUFFICES ASSUME p_clean'  PROVE Scrolling' /\ Showing'
  BY DEF CleanShown
<1>1. /\ p_con \in ConsoleSet /\ p_con.cursor_row \in Nat /\ p_con.cursor_column \in 0 .. Width
      /\ p_con.top_row \in Int /\ p_reg \in Int /\ p_dest \in Int /\ p_copied \in Nat
  BY ConsoleFields DEF PrinterTypes, KmainTypes
<1>2. CASE Printer!Printf
  <2>1. p_pc' = "next" /\ p_text' # <<>>
    BY <1>2 DEF Printer!Printf, PrinterTypes, KmainTypes
  <2>2. QED  BY <2>1 DEF Scrolling, Showing, ShowLabels
<1>3. ASSUME ~Printer!Printf  PROVE Scrolling /\ Showing
  BY <1>0, <1>3 DEF CleanShown, Printer!Kmain, Printer!NextCharacter, Printer!NewLine,
     Printer!Destination, Printer!StoreCharacter, Printer!Advance, Printer!Scroll, Printer!Written,
     Printer!Display, Printer!CursorArguments, Printer!MoveCursor, Printer!SetIndex, Printer!SetRegister
<1>4. CASE Printer!NewLine \/ Printer!Destination \/ Printer!StoreCharacter \/ Printer!Advance
  <2>1. p_pc' \in NewlineLabels \cup CellLabels \cup AdvanceLabels \cup {"scroll"}
    BY <1>4 DEF Printer!NewLine, Printer!Destination, Printer!StoreCharacter, Printer!Advance,
       NewlineLabels, CellLabels, AdvanceLabels
  <2>2. QED  BY <2>1 DEF Scrolling, Showing, ShowLabels, NewlineLabels, CellLabels, AdvanceLabels
<1>5. CASE Printer!NextCharacter
  <2>1. p_con' = p_con /\ p_pc = "next"
        /\ \/ p_pc' = "display" /\ p_text = <<>>
           \/ p_pc' \in {"newline", "cell"}
    BY <1>5 DEF Printer!NextCharacter
  <2>2. Scrolling /\ Showing
    BY <1>3, <2>1 DEF Printer!Printf
  <2>3. QED  BY <2>1, <2>2 DEF Scrolling, Showing, ShowLabels, InView
<1>6. CASE Printer!Written
  <2>1. p_con' = p_con /\ p_pc = "written" /\ p_pc' = "next"
    BY <1>6 DEF Printer!Written
  <2>2. Scrolling /\ Showing
    BY <1>3, <2>1 DEF Printer!Printf
  <2>3. QED  BY <2>1, <2>2 DEF Scrolling, Showing, ShowLabels, InView
<1>7. CASE Printer!Scroll
  <2>1. Scrolling /\ p_pc' \in ScrollLabels /\ p_pc \in ScrollLabels
    BY <1>3, <1>7, KmainScrolls DEF Printer!Printf, ScrollLabels
  <2>2. Showing'
    BY <2>1 DEF Showing, ShowLabels, ScrollLabels
  <2>3. Scrolling'
    <3>1. CASE p_pc \in {"up_store", "down_store"}
      <4>1. /\ p_pc' = "written" /\ p_reg = p_con.cursor_row
            /\ \/ p_con' = [p_con EXCEPT !["top_row"] = p_reg]
               \/ p_con' = [p_con EXCEPT !["top_row"] = p_reg - (WindowRows - 1)]
        BY <1>7, <2>1, <3>1 DEF Printer!Scroll, Scrolling
      <4>2. p_con'.cursor_row = p_con.cursor_row
            /\ p_con'.top_row \in {p_con.cursor_row, p_con.cursor_row - (WindowRows - 1)}
        BY <1>1, <4>1, TopSet, ScreenAssumption
      <4>3. InView'
        BY <1>1, <4>2, ScreenAssumption DEF InView
      <4>4. QED  BY <4>1, <4>3 DEF Scrolling, ShowLabels
    <3>2. CASE p_con' = p_con
      <4>1. /\ p_pc \in {"scroll_above", "up_store", "scroll_below", "down_store"}
                   => p_reg = p_con.cursor_row
            /\ p_pc \in {"scroll_row", "scroll_below", "down", "down_store"}
                   => p_con.cursor_row >= p_con.top_row
            /\ WindowRows \in Nat \ {0}
        BY <2>1, ScreenAssumption DEF Scrolling
      <4>2. \/ p_pc = "scroll" /\ p_pc' = "scroll_above" /\ p_reg' = p_con.cursor_row
            \/ /\ p_pc = "scroll_above"
               /\ \/ p_pc' = "up"
                  \/ p_pc' = "scroll_row" /\ ~(p_reg < p_con.top_row)
            \/ p_pc = "up" /\ p_pc' = "up_store" /\ p_reg' = p_con.cursor_row
            \/ p_pc = "scroll_row" /\ p_pc' = "scroll_below" /\ p_reg' = p_con.cursor_row
            \/ /\ p_pc = "scroll_below"
               /\ \/ p_pc' = "down"
                  \/ p_pc' = "written" /\ ~Printer!TooLow(p_reg, p_con.top_row)
            \/ p_pc = "down" /\ p_pc' = "down_store" /\ p_reg' = p_con.cursor_row
            \/ p_pc \in {"up_store", "down_store"} /\ p_pc' = "written"
        BY <1>7 DEF Printer!Scroll
      <4>3. CASE p_pc \notin {"up_store", "down_store"}
        BY <1>1, <3>2, <4>1, <4>2, <4>3 DEF Scrolling, ShowLabels, InView, Printer!TooLow
      <4>4. QED  BY <3>1, <4>3
    <3>3. QED  BY <1>7, <3>1, <3>2 DEF Printer!Scroll
  <2>4. QED  BY <2>2, <2>3
<1>8. CASE Printer!Display
  <2>1. /\ Scrolling /\ Showing /\ p_con' = p_con
    BY <1>3, <1>8 DEF Printer!Display, Printer!Printf
  <2>2. CASE p_pc = "display"
    <3>1. p_pc' = "copy" /\ p_dest' = p_con.top_row /\ p_copied' = 0
      BY <1>8, <2>2 DEF Printer!Display
    <3>2. 0 \in Printer!Screen
      BY ScreenAssumption DEF Printer!Screen
    <3>3. QED  BY <2>1, <2>2, <3>1, <3>2 DEF Scrolling, Showing, ShowLabels, InView
  <2>3. CASE p_pc = "copy"
    <3>1. /\ p_dest = p_con.top_row /\ p_copied \in Printer!Screen
          /\ \A s \in 0 .. (p_copied - 1) : p_video_ram[s] = Printer!Window(p_con)[s]
          /\ p_video_ram \in [Printer!Screen -> CellSet]
      BY <2>1, <2>3 DEF Showing, PrinterTypes, ScreenTypes
    <3>2. /\ p_video_ram' = [p_video_ram EXCEPT ![p_copied] =
                                 Printer!Window([p_con EXCEPT !.top_row = p_dest])[p_copied]]
          /\ p_copied' = p_copied + 1 /\ p_dest' = p_dest
          /\ p_pc' = IF p_copied' \in Printer!Screen THEN "copy" ELSE "cursor"
      BY <1>8, <2>3 DEF Printer!Display
    <3>3. [p_con EXCEPT !.top_row = p_dest] = p_con
      BY <1>1, <3>1 DEF ConsoleSet
    <3>4. Printer!Screen = 0 .. (Width * WindowRows - 1) /\ Width * WindowRows \in Nat
      BY ScreenAssumption DEF Printer!Screen
    <3> DEFINE window == Printer!Window(p_con)
    <3>5. window \in [Printer!Screen -> CellSet]
      BY <1>1, ConsoleFields, WindowIsScreen
    <3> HIDE DEF window
    <3>6. \A s \in 0 .. p_copied : p_video_ram'[s] = window[s]
      BY <1>1, <3>1, <3>2, <3>3, <3>4 DEF window
    <3>7. p_video_ram' \in [Printer!Screen -> CellSet]
      BY <3>1, <3>2, <3>3, <3>5 DEF window
    <3>8. CASE p_copied' \in Printer!Screen
      <4>1. Showing'
        BY <1>1, <2>1, <3>1, <3>2, <3>6, <3>8 DEF Showing, ShowLabels, window
      <4>2. Scrolling'
        BY <2>1, <2>3, <3>2, <3>8 DEF Scrolling, ShowLabels, InView
      <4>3. QED  BY <4>1, <4>2
    <3>9. CASE p_copied' \notin Printer!Screen
      <4>1. \A s \in Printer!Screen : p_video_ram'[s] = window[s]
        BY <1>1, <3>1, <3>2, <3>4, <3>6, <3>9
      <4>2. p_video_ram' = window
        BY <3>5, <3>7, <4>1
      <4>3. Showing'
        BY <2>1, <3>2, <3>9, <4>2 DEF Showing, ShowLabels, window
      <4>4. Scrolling'
        BY <2>1, <2>3, <3>2, <3>9 DEF Scrolling, ShowLabels, InView
      <4>5. QED  BY <4>3, <4>4
    <3>10. QED  BY <3>8, <3>9
  <2>4. QED  BY <1>8, <2>2, <2>3 DEF Printer!Display
<1>9. CASE Printer!CursorArguments
  <2>1. Scrolling /\ Showing
    BY <1>3, <1>9 DEF Printer!CursorArguments, Printer!Printf
  <2>2. QED
    BY <1>1, <1>9, <2>1 DEF Printer!CursorArguments, Scrolling, Showing, ShowLabels, InView, Printer!Position
<1>10. CASE Printer!MoveCursor
  <2>1. Scrolling /\ Showing
    BY <1>3, <1>10 DEF Printer!MoveCursor, Printer!SetIndex, Printer!SetRegister, Printer!Printf
  <2>2. /\ p_con' = p_con /\ p_video_ram' = p_video_ram /\ p_dest' = p_dest
        /\ p_pc \in ShowLabels \ {"display", "copy", "cursor", "cursor_top", "cursor_column"}
        /\ p_pc' \in {"low", "index_high", "high", "idle"}
    BY <1>10 DEF Printer!MoveCursor, Printer!SetIndex, Printer!SetRegister, ShowLabels
  <2>3. p_crtc \in [index : {14, 15}, register : [{14, 15} -> Int]]
    BY DEF PrinterTypes, ScreenTypes
  <2>4. /\ p_pc' = "low" => p_crtc'.index = 15
        /\ p_pc' = "index_high" => p_crtc'.register[15] = p_dest % RegisterSize
        /\ p_pc' = "high" => p_crtc'.index = 14 /\ p_crtc'.register = p_crtc.register /\ p_pc = "index_high"
    BY <1>10, <2>1, <2>3 DEF Printer!MoveCursor, Printer!SetIndex, Printer!SetRegister, Showing
  <2>5. RegisterAt(15) = Printer!Position(p_con) % RegisterSize
    BY DEF RegisterAt, Printer!cursor_at
  <2>6. Scrolling'
    BY <2>1, <2>2 DEF Scrolling, ShowLabels, InView
  <2>7. Showing'
    BY <2>1, <2>2, <2>4, <2>5 DEF Showing, ShowLabels, RegisterAt
  <2>8. QED  BY <2>6, <2>7
<1>11. QED  BY <1>2, <1>4, <1>5, <1>6, <1>7, <1>8, <1>9, <1>10 DEF Printer!Kmain

\* So is a text into which no key fell.
LEMMA TextIsShown ==
    ASSUME PrinterTypes, Places, CleanShown, Printer!Kmain, p_pc = "high", p_pc' = "idle", p_clean
    PROVE  Printer!Shown'
<1>1. Printer!SetRegister(p_dest \div RegisterSize, "high", "idle")
  BY DEF Printer!Kmain, Printer!Printf, Printer!NextCharacter, Printer!NewLine,
     Printer!Destination, Printer!StoreCharacter, Printer!Advance, Printer!Scroll, Printer!Written,
     Printer!Display, Printer!CursorArguments, Printer!MoveCursor, Printer!SetIndex, Printer!SetRegister,
     Printer!Goto, Printer!Load, Printer!Store, Printer!Branch
<1>2. /\ p_con' = p_con /\ p_video_ram' = p_video_ram
      /\ p_crtc' = [p_crtc EXCEPT !.register[p_crtc.index] = (p_dest \div RegisterSize) % RegisterSize]
  BY <1>1 DEF Printer!SetRegister
<1>3. /\ InView /\ p_video_ram = Printer!Window(p_con) /\ p_dest = Printer!Position(p_con)
      /\ p_crtc.index = 14 /\ p_crtc.register[15] = RegisterAt(15)
      /\ p_con.cursor_column < Width
  BY DEF CleanShown, Scrolling, Showing, ShowLabels, Places
<1>4. p_crtc \in [index : {14, 15}, register : [{14, 15} -> Int]]
  BY DEF PrinterTypes, ScreenTypes
<1>5. p_crtc'.register = [p_crtc.register EXCEPT ![14] = (p_dest \div RegisterSize) % RegisterSize]
  BY <1>2, <1>3, <1>4
<1>6. p_crtc'.register = Printer!cursor_at(Printer!Position(p_con)).register
  BY <1>3, <1>4, <1>5 DEF Printer!cursor_at, RegisterAt
<1>7. QED  BY <1>2, <1>3, <1>6 DEF Printer!Shown, InView

-----------------------------------------------------------------------------
\* The terminal.

LEMMA PrinterInvInit ==
    ASSUME Printer!Init
    PROVE  PrinterInv
<1>1. /\ p_con = [buffer |-> [c \in Printer!Cells |-> Printer!Blank],
                  cursor_column |-> 0, cursor_row |-> 0, top_row |-> 0]
      /\ p_video_ram = [c \in Printer!Screen |-> <<"bios">>]
      /\ p_crtc = [index |-> 14, register |-> [r \in {14, 15} |-> 0]]
      /\ p_pc = "idle" /\ p_calls = Printfs /\ p_text = <<>>
      /\ p_reg = 0 /\ p_dest = 0 /\ p_copied = 0
      /\ p_clean = TRUE /\ p_printed = {} /\ p_stores = 0 /\ p_past = 0
      /\ p_newlines = 0 /\ p_interruptions = 0
  BY DEF Printer!Init
<1>2. p_con \in ConsoleSet /\ p_con.cursor_column = 0 /\ p_con.cursor_row = 0
      /\ p_con.buffer = [c \in Printer!Cells |-> Printer!Blank]
  BY <1>1, ScreenAssumption DEF ConsoleSet, CharacterSet
<1>3. KmainTypes
  BY <1>1, TextAssumption DEF KmainTypes
<1>4. ScreenTypes
  BY <1>1 DEF ScreenTypes, CellSet
<1>5. HistoryTypes
  BY <1>1, FS_EmptySet DEF HistoryTypes
<1>6. Places /\ ChosenBehind /\ CleanShown
  BY <1>1, <1>2, ScreenAssumption DEF Places, ChosenBehind, CleanShown, Scrolling, Showing,
     CharacterLabels, NewlineLabels, CellLabels, AdvanceLabels, ScrollLabels, ShowLabels
<1>7. RowsBounded
  BY <1>1, <1>2, ScreenAssumption DEF RowsBounded, Reach, CellBound, RowAt
<1>8. LossPaid
  <2>1. Missing(p_printed, p_con.buffer) = {} /\ Risky(p_con.buffer, Frontier, Chosen) = {}
    BY <1>1, <1>2 DEF Missing, Risky
  <2>2. p_interruptions = 0 /\ p_past = 0 /\ Cardinality({}) = 0
    BY <1>1, FS_EmptySet
  <2>3. QED  BY <2>1, <2>2 DEF LossPaid, Owed
<1>9. QED  BY <1>2, <1>3, <1>4, <1>5, <1>6, <1>7, <1>8 DEF PrinterInv, PrinterTypes

LEMMA PrinterStep ==
    ASSUME PrinterInv, [TerminalNext]_<<p_vars, k_vars>>
    PROVE  PrinterInv'
<1>1. PrinterTypes /\ Places /\ RowsBounded /\ ChosenBehind /\ LossPaid /\ CleanShown
  BY DEF PrinterInv
<1>2. CASE UNCHANGED p_vars
  BY <1>1, <1>2 DEF p_vars, PrinterInv, PrinterTypes, KmainTypes, ScreenTypes, HistoryTypes, Places, RowsBounded,
     Reach, CellBound, ChosenBehind, LossPaid, Frontier, Chosen, CleanShown, Scrolling, Showing,
     InView, RegisterAt
<1>3. CASE Printer!Kmain
  <2>1. PrinterTypes' /\ Places'
    BY <1>1, <1>3, KmainConsole, KmainRegisters, KmainScreen, KeptHistory, KmainPlaces DEF PrinterTypes
  <2>2. RowsBounded' /\ ChosenBehind' /\ LossPaid' /\ CleanShown'
    BY <1>1, <1>3, KmainKeepsRows, KmainKeepsChosen, KmainKeepsPaid, KmainKeepsShowing
  <2>3. QED  BY <2>1, <2>2 DEF PrinterInv
<1>4. ASSUME NEW n, Printer!PrintFromHandler(Character(n))  PROVE PrinterInv'
  <2>1. PICK ch \in CharacterSet \cup {Printer!NL} :
            (ch # Printer!NL => ch # Printer!Blank) /\ Printer!PrintFromHandler(ch)
    BY <1>1, <1>4, KeyCharacter
  <2>2. PrinterTypes' /\ Places'
    BY <1>1, <2>1, KeyKeepsTypes
  <2>3. RowsBounded' /\ ChosenBehind' /\ LossPaid'
    BY <1>1, <2>1, KeyKeepsRows, KeyKeepsChosen, KeyKeepsPaid
  <2>4. CleanShown'
    BY <1>1, <2>1, KeyPrinted DEF CleanShown
  <2>5. QED  BY <2>2, <2>3, <2>4 DEF PrinterInv
<1>5. QED
  BY <1>2, <1>3, <1>4 DEF TerminalNext, Interrupt, Stay

LEMMA WithinBound ==
    ASSUME PrinterTypes, NEW r \in Nat, RowAt(r) <= CellBound
    PROVE  r <= Printer!RowBound
<1> DEFINE a == p_newlines + p_interruptions
           q == p_stores \div Width
<1>1. a \in Nat /\ p_stores \in Nat /\ Width \in Nat \ {0} /\ Printer!RowBound = a + q
  BY ScreenAssumption DEF PrinterTypes, HistoryTypes, Printer!RowBound
<1>2. q \in Nat /\ p_stores < Width * q + Width
  BY <1>1
<1>3. SUFFICES ASSUME r > a + q PROVE FALSE
  BY <1>1, <1>2
<1> HIDE DEF a, q
<1>4. RowAt(a + q) + Width <= RowAt(r)
  BY <1>1, <1>2, <1>3, LaterRow
<1>5. RowAt(a + q) = RowAt(a) + Width * q /\ RowAt(a) \in Nat /\ Width * q \in Nat
  BY <1>1, <1>2 DEF RowAt
<1>6. CellBound = RowAt(a) + p_stores /\ RowAt(r) \in Nat
  BY NextRow DEF CellBound, a
<1>7. QED  BY <1>1, <1>2, <1>4, <1>5, <1>6

LEMMA LossesBounded ==
    ASSUME PrinterInv
    PROVE  LossBounded
<1>1. PrinterTypes /\ RowsBounded /\ LossPaid
  BY DEF PrinterInv
<1>2. p_con.cursor_row <= Printer!RowBound
  BY <1>1, WithinBound, ConsoleFields DEF RowsBounded, PrinterTypes
<1>3. p_past > 0 => Height <= Printer!RowBound
  BY <1>1, WithinBound, ScreenAssumption DEF RowsBounded
<1>4. Cardinality(p_printed \ Printer!Range(p_con.buffer)) <= p_interruptions + p_past
  <2>1. /\ Cardinality(Missing(p_printed, p_con.buffer)) \in Nat
        /\ Cardinality(Risky(p_con.buffer, Frontier, Chosen)) \in Nat
        /\ p_interruptions \in Nat /\ p_past \in Nat
    BY <1>1, OwedType DEF PrinterTypes, HistoryTypes
  <2>2. Cardinality(Missing(p_printed, p_con.buffer)) + Cardinality(Risky(p_con.buffer, Frontier, Chosen))
            <= p_interruptions + p_past
    BY <1>1 DEF LossPaid, Owed
  <2>3. Cardinality(Missing(p_printed, p_con.buffer)) <= p_interruptions + p_past
    BY <2>1, <2>2
  <2>4. QED  BY <2>3 DEF Missing
<1>5. Printer!LossBounded
  <2>1. Printer!Cardinality(p_printed \ Printer!Range(p_con.buffer)) =
            Cardinality(p_printed \ Printer!Range(p_con.buffer))
    BY DEF Printer!Cardinality, Cardinality
  <2>2. p_past = 0 => p_interruptions + p_past = p_interruptions
    BY <1>1 DEF PrinterTypes, HistoryTypes
  <2>3. QED  BY <1>2, <1>3, <1>4, <2>1, <2>2 DEF Printer!LossBounded
<1>6. QED  BY <1>5 DEF LossBounded

LEMMA PrintingIsShown ==
    ASSUME PrinterInv, [TerminalNext]_<<p_vars, k_vars>>
    PROVE  /\ p_interruptions' # p_interruptions => Printer!Shown'
           /\ p_pc = "high" /\ p_pc' = "idle" /\ p_clean /\ p_interruptions = p_interruptions' => Printer!Shown'
<1>1. PrinterTypes /\ Places /\ CleanShown
  BY DEF PrinterInv
<1>2. CASE UNCHANGED p_vars
  BY <1>2 DEF p_vars
<1>3. CASE Printer!Kmain
  <2>1. p_interruptions' = p_interruptions
    BY <1>3 DEF Printer!Kmain, Printer!Printf, Printer!NextCharacter, Printer!NewLine,
       Printer!Destination, Printer!StoreCharacter, Printer!Advance, Printer!Scroll, Printer!Written,
       Printer!Display, Printer!CursorArguments, Printer!MoveCursor, Printer!SetIndex, Printer!SetRegister,
       Printer!Load, Printer!Store, Printer!Branch, Printer!history
  <2>2. QED  BY <1>1, <1>3, <2>1, TextIsShown
<1>4. ASSUME NEW n, Printer!PrintFromHandler(Character(n))  PROVE Printer!Shown'
  <2>1. PICK ch \in CharacterSet \cup {Printer!NL} :
            (ch # Printer!NL => ch # Printer!Blank) /\ Printer!PrintFromHandler(ch)
    BY <1>1, <1>4, KeyCharacter
  <2>2. QED  BY <1>1, <2>1, KeyIsShown
<1>5. QED  BY <1>2, <1>3, <1>4 DEF TerminalNext, Interrupt, Stay

\* Each key that is printed costs at most one character and moves the cursor
\* at most one row; nothing is written past the end before the rows are used up,
\* up to which this is said.
THEOREM LossIsBounded == TerminalSpec => []LossBounded
<1>1. TerminalInit => PrinterInv
  BY PrinterInvInit DEF TerminalInit
<1>2. PrinterInv => LossBounded
  BY LossesBounded
<1>3. QED  BY <1>1, <1>2, PrinterStep, PTL DEF TerminalSpec

\* A key that is printed is shown, and so is a text no key fell into.
THEOREM PrintedIsShown == TerminalSpec => ShownAfterPrinting
<1>1. TerminalInit => PrinterInv
  BY PrinterInvInit DEF TerminalInit
<1>2. PrinterInv /\ [TerminalNext]_<<p_vars, k_vars>> =>
        [ p_past' = 0 =>
          /\ p_interruptions' # p_interruptions => Printer!Shown'
          /\ p_pc = "high" /\ p_pc' = "idle" /\ p_clean /\ p_interruptions = p_interruptions'
               => Printer!Shown' ]_(Printer!vars)
  BY PrintingIsShown
<1>3. QED
  BY <1>1, <1>2, PrinterStep, PTL DEF TerminalSpec, ShownAfterPrinting, Printer!ShownAfterPrinting

-----------------------------------------------------------------------------
\* The keyboard: the last byte of a shift key that waits decides, or else the flag.

IsShiftByte(b) == b % 128 \in Keyboard!Shifts
LastShift(q, n) == /\ n \in 1 .. Len(q) /\ IsShiftByte(q[n])
                   /\ \A m \in (n + 1) .. Len(q) : ~IsShiftByte(q[m])

\* Once the bytes of q have been read by a driver whose flag is s, shift is on
\* exactly if `on' is 0; 128 stands for off, as in the byte of a key that goes up.
Settles(q, s, on) ==
    /\ \A n \in 1 .. Len(q) : LastShift(q, n) => (q[n] < 128 <=> on = 0)
    /\ (\A n \in 1 .. Len(q) : ~IsShiftByte(q[n])) => (s = TRUE <=> on = 0)

\* What a key sends, by its byte.
OneByte(b) == <<b>>
TwoBytes(b) == <<Keyboard!Prefix, b>>

KeyboardTypes ==
    /\ k_shift \in BOOLEAN /\ k_mixed \in BOOLEAN
    /\ k_held \subseteq Key /\ k_repeats \in k_held \cup {0}
    /\ k_queue \in Seq(0 .. 255)
    /\ k_feigned \subseteq k_held \ Keyboard!Shifts /\ k_hidden \subseteq k_held \ Keyboard!Shifts
    /\ k_feigned \cap k_hidden = {}

\* Unless keys that tell of shift were down together, only one of them is.
Telling == (k_held \cap Keyboard!Shifts) \cup k_feigned \cup k_hidden
OneTells ==
    /\ Telling = {} => ~k_mixed
    /\ ~k_mixed => \A k, l \in Telling : k = l

\* What the keys that are held say of shift.
Told(on) ==
    /\ k_held \cap Keyboard!Shifts = {} /\ k_feigned = {} => on = 128
    /\ ~k_mixed /\ k_feigned = {} /\ k_held \cap Keyboard!Shifts # {} => on = 0

KeyboardInv ==
    /\ KeyboardTypes /\ OneTells
    /\ \E on \in {0, 128} : Settles(k_queue, k_shift, on) /\ Told(on)

LEMMA OtherByteWaits ==
    ASSUME NEW q \in Seq(0 .. 255), NEW s, NEW on, NEW b \in 0 .. 255,
           Settles(q, s, on), ~IsShiftByte(b)
    PROVE  Settles(Append(q, b), s, on)
<1> DEFINE r == Append(q, b)
<1>1. r \in Seq(0 .. 255) /\ Len(r) = Len(q) + 1 /\ r[Len(q) + 1] = b
      /\ \A n \in 1 .. Len(q) : r[n] = q[n]
  OBVIOUS
<1> Len(q) \in Nat
  OBVIOUS
<1> HIDE DEF r
<1>2. ASSUME NEW n \in 1 .. Len(r), LastShift(r, n)  PROVE n \in 1 .. Len(q) /\ LastShift(q, n)
  BY <1>1, <1>2 DEF LastShift
<1>3. QED
  <2>1. \A n \in 1 .. Len(r) : LastShift(r, n) => (r[n] < 128 <=> on = 0)
    BY <1>1, <1>2 DEF Settles
  <2>2. ASSUME \A n \in 1 .. Len(r) : ~IsShiftByte(r[n])  PROVE s = TRUE <=> on = 0
    <3>1. \A n \in 1 .. Len(q) : ~IsShiftByte(q[n])
      BY <1>1, <2>2
    <3>2. QED  BY <3>1 DEF Settles
  <2>3. QED  BY <2>1, <2>2 DEF Settles, r

LEMMA ShiftByteWaits ==
    ASSUME NEW q \in Seq(0 .. 255), NEW s, NEW on, NEW b \in 0 .. 255, IsShiftByte(b),
           b < 128 <=> on = 0
    PROVE  Settles(Append(q, b), s, on)
<1> DEFINE r == Append(q, b)
<1>1. Len(q) \in Nat /\ Len(r) = Len(q) + 1 /\ r[Len(q) + 1] = b
  OBVIOUS
<1> HIDE DEF r
<1>2. ASSUME NEW n \in 1 .. Len(r), LastShift(r, n)  PROVE r[n] < 128 <=> on = 0
  <2>1. n = Len(q) + 1
    BY <1>1, <1>2 DEF LastShift
  <2>2. QED  BY <2>1, <1>1
<1>3. ~ \A n \in 1 .. Len(r) : ~IsShiftByte(r[n])
  BY <1>1
<1>4. QED  BY <1>2, <1>3 DEF Settles, r

LEMMA ByteRead ==
    ASSUME NEW q \in Seq(0 .. 255), q # <<>>, NEW s, NEW on,
           Settles(q, s, on), NEW t,
           IsShiftByte(Head(q)) => (t = TRUE <=> Head(q) < 128), ~IsShiftByte(Head(q)) => (t = TRUE <=> s = TRUE)
    PROVE  Settles(Tail(q), t, on)
<1> DEFINE r == Tail(q)
<1>1. r \in Seq(0 .. 255) /\ Len(q) \in Nat /\ Len(q) > 0 /\ Len(r) = Len(q) - 1 /\ Head(q) = q[1]
      /\ \A n \in 1 .. Len(r) : r[n] = q[n + 1]
  OBVIOUS
<1>2. \A n \in 2 .. Len(q) : q[n] = r[n - 1] /\ n - 1 \in 1 .. Len(r)
  BY <1>1
<1> HIDE DEF r
<1>3. ASSUME NEW n \in 1 .. Len(r), LastShift(r, n)  PROVE r[n] < 128 <=> on = 0
  <2>1. n + 1 \in 1 .. Len(q) /\ q[n + 1] = r[n]
    BY <1>1
  <2>2. ASSUME NEW m \in (n + 2) .. Len(q)  PROVE ~IsShiftByte(q[m])
    <3>1. m - 1 \in (n + 1) .. Len(r) /\ q[m] = r[m - 1]
      BY <1>1, <1>2
    <3>2. QED  BY <3>1, <1>3 DEF LastShift
  <2>3. LastShift(q, n + 1)
    BY <2>1, <2>2, <1>3 DEF LastShift
  <2>4. QED  BY <2>1, <2>3 DEF Settles
<1>4. ASSUME \A n \in 1 .. Len(r) : ~IsShiftByte(r[n])  PROVE t = TRUE <=> on = 0
  <2>1. \A n \in 2 .. Len(q) : ~IsShiftByte(q[n])
    BY <1>2, <1>4
  <2>2. CASE IsShiftByte(q[1])
    <3>1. LastShift(q, 1)
      BY <2>1, <2>2, <1>1 DEF LastShift
    <3>2. QED  BY <3>1, <2>2, <1>1 DEF Settles
  <2>3. CASE ~IsShiftByte(q[1])
    <3>1. \A n \in 1 .. Len(q) : ~IsShiftByte(q[n])
      BY <2>1, <2>3, <1>1
    <3>2. QED  BY <3>1, <2>3, <1>1 DEF Settles
  <2>4. QED  BY <2>2, <2>3
<1>5. QED  BY <1>3, <1>4 DEF Settles, r

LEMMA BytesOfKeys == ~IsShiftByte(224) /\ ~IsShiftByte(250)
  BY DEF IsShiftByte, Keyboard!Shifts, Keyboard!LeftShift, Keyboard!RightShift

LEMMA ShortQueues ==
    /\ <<>> \in Seq(0 .. 255)
    /\ \A b \in 0 .. 255 : OneByte(b) \in Seq(0 .. 255) /\ TwoBytes(b) \in Seq(0 .. 255)
    /\ \A q \in Seq(0 .. 255), b \in 0 .. 255 :
          /\ q \o OneByte(b) = Append(q, b) /\ q \o TwoBytes(b) = Append(Append(q, 224), b)
          /\ Append(q, b) \in Seq(0 .. 255) /\ Append(Append(q, 224), b) \in Seq(0 .. 255)
<1>1. <<>> \in Seq(0 .. 255)
  OBVIOUS
<1>2. ASSUME NEW b \in 0 .. 255  PROVE OneByte(b) \in Seq(0 .. 255) /\ TwoBytes(b) \in Seq(0 .. 255)
  <2>1. OneByte(b) = Append(<<>>, b) /\ TwoBytes(b) = Append(Append(<<>>, 224), b)
    BY DEF OneByte, TwoBytes, Keyboard!Prefix
  <2>2. QED  BY <1>1, <2>1
<1>3. ASSUME NEW q \in Seq(0 .. 255), NEW b \in 0 .. 255
      PROVE  /\ q \o OneByte(b) = Append(q, b) /\ q \o TwoBytes(b) = Append(Append(q, 224), b)
             /\ Append(q, b) \in Seq(0 .. 255) /\ Append(Append(q, 224), b) \in Seq(0 .. 255)
  BY DEF OneByte, TwoBytes, Keyboard!Prefix
<1>4. QED  BY <1>1, <1>2, <1>3

\* A byte that is sent, with or without a prefix.
LEMMA ByteSent ==
    ASSUME NEW q \in Seq(0 .. 255), NEW s, NEW on, NEW g, Settles(q, s, on),
           NEW b \in 0 .. 255,
           IsShiftByte(b) => (b < 128 <=> g = 0), ~IsShiftByte(b) => g = on
    PROVE  Settles(q \o OneByte(b), s, g) /\ Settles(q \o TwoBytes(b), s, g)
<1> DEFINE p == Append(q, 224)
<1>1. p \in Seq(0 .. 255)
  OBVIOUS
<1>2. Settles(p, s, on)
  <2>1. 224 \in 0 .. 255 /\ ~IsShiftByte(224)
    BY BytesOfKeys
  <2>2. QED  BY <2>1, OtherByteWaits
<1> HIDE DEF p
<1>3. ASSUME NEW r \in {q, p}  PROVE Settles(Append(r, b), s, g)
  <2>1. r \in Seq(0 .. 255) /\ Settles(r, s, on) /\ b \in 0 .. 255
    BY <1>1, <1>2
  <2>2. CASE IsShiftByte(b)
    BY <2>1, <2>2, ShiftByteWaits
  <2>3. CASE ~IsShiftByte(b)
    BY <2>1, <2>3, OtherByteWaits
  <2>4. QED  BY <2>2, <2>3
<1>4. q \o OneByte(b) = Append(q, b) /\ q \o TwoBytes(b) = Append(p, b)
  <2>1. q \o OneByte(b) = Append(q, b) /\ q \o TwoBytes(b) = Append(Append(q, 224), b)
    BY DEF OneByte, TwoBytes, Keyboard!Prefix
  <2>2. QED  BY <2>1 DEF p
<1>5. QED  BY <1>3, <1>4

\* The code of a key, and its own bytes.
LEMMA KeyCodes ==
    ASSUME NEW k \in Key
    PROVE  /\ k \in Nat /\ k # 0
           /\ \E c \in 0 .. 127 :
                 /\ c \in Keyboard!Shifts <=> k \in Keyboard!Shifts
                 /\ \A up \in {0, 128} : \/ Keyboard!bytes(k, up) = OneByte(c + up)
                                         \/ Keyboard!bytes(k, up) = TwoBytes(c + up)
<1>1. CASE k \in 1 .. 127
  <2>1. \A up \in {0, 128} : Keyboard!bytes(k, up) = OneByte(k + up)
    BY <1>1 DEF Keyboard!bytes, OneByte
  <2>2. QED  BY <1>1, <2>1
<1>2. CASE k \in 257 .. 383
  <2>1. k % 256 \in 0 .. 127 /\ k >= 256
    BY <1>2
  <2>2. \A up \in {0, 128} : Keyboard!bytes(k, up) = TwoBytes((k % 256) + up)
    BY <2>1 DEF Keyboard!bytes, TwoBytes
  <2>3. k % 256 \notin Keyboard!Shifts /\ k \notin Keyboard!Shifts
    BY <1>2, <2>1, KeyAssumption DEF Keyboard!Shifts, Keyboard!LeftShift, Keyboard!RightShift
  <2>4. QED  BY <1>2, <2>1, <2>2, <2>3
<1>3. QED  BY <1>1, <1>2, KeyAssumption

LEMMA OwnBytes ==
    ASSUME NEW q \in Seq(0 .. 255), NEW s, NEW on, Settles(q, s, on), NEW k \in Key,
           NEW up \in {0, 128}, NEW g, g = IF k \in Keyboard!Shifts THEN up ELSE on
    PROVE  Settles(q \o Keyboard!bytes(k, up), s, g)
<1>1. PICK c \in 0 .. 127 : /\ c \in Keyboard!Shifts <=> k \in Keyboard!Shifts
                            /\ \A u \in {0, 128} : \/ Keyboard!bytes(k, u) = OneByte(c + u)
                                                   \/ Keyboard!bytes(k, u) = TwoBytes(c + u)
  BY KeyCodes
<1>2. PICK b \in 0 .. 255 : b = c + up /\ b % 128 = c /\ (b < 128 <=> up = 0)
  OBVIOUS
<1>3. IsShiftByte(b) <=> k \in Keyboard!Shifts
  BY <1>1, <1>2 DEF IsShiftByte
<1>4. (IsShiftByte(b) => (b < 128 <=> g = 0)) /\ (~IsShiftByte(b) => g = on)
  BY <1>2, <1>3
<1>5. Settles(q \o OneByte(b), s, g)
  <2>1. CASE IsShiftByte(b)
    BY <2>1, <1>4, ByteSent, Zenon
  <2>2. CASE ~IsShiftByte(b)
    BY <2>2, <1>4, ByteSent, Zenon
  <2>3. QED  BY <2>1, <2>2
<1>6. Settles(q \o TwoBytes(b), s, g)
  <2>1. CASE IsShiftByte(b)
    BY <2>1, <1>4, ByteSent, Zenon
  <2>2. CASE ~IsShiftByte(b)
    BY <2>2, <1>4, ByteSent, Zenon
  <2>3. QED  BY <2>1, <2>2
<1>7. Keyboard!bytes(k, up) = OneByte(b) \/ Keyboard!bytes(k, up) = TwoBytes(b)
  BY <1>1, <1>2, Zenon
<1>8. QED  BY <1>5, <1>7, <1>6, Zenon

\* A shift key that is feigned to go down or up.
LEMMA FakeSent ==
    ASSUME NEW q \in Seq(0 .. 255), NEW s, NEW on, Settles(q, s, on),
           NEW c \in Keyboard!Shifts, NEW up \in {0, 128}
    PROVE  Settles(q \o TwoBytes(c + up), s, up)
<1>1. PICK b \in 0 .. 255 : b = c + up /\ b % 128 = c /\ (b < 128 <=> up = 0)
  BY DEF Keyboard!Shifts, Keyboard!LeftShift, Keyboard!RightShift
<1>2. IsShiftByte(b)
  BY <1>1 DEF IsShiftByte
<1>3. Settles(q \o TwoBytes(b), s, up)
  BY <1>1, <1>2, ByteSent, Zenon
<1>4. QED  BY <1>1, <1>3, Zenon

\* The shift keys that are feigned to go down or up.
LEMMA FakesSent ==
    ASSUME NEW q \in Seq(0 .. 255), NEW s, NEW on, Settles(q, s, on),
           NEW shifts, shifts \subseteq Keyboard!Shifts, shifts # {}, NEW up \in {0, 128}
    PROVE  Settles(q \o Keyboard!fakes(shifts, up), s, up)
<1> DEFINE l == TwoBytes(Keyboard!LeftShift + up)
           r == TwoBytes(Keyboard!RightShift + up)
           left == IF Keyboard!LeftShift \in shifts THEN l ELSE <<>>
           right == IF Keyboard!RightShift \in shifts THEN r ELSE <<>>
<1>1. Keyboard!fakes(shifts, up) = left \o right
  BY DEF Keyboard!fakes, TwoBytes
<1>2. /\ Keyboard!LeftShift \in Keyboard!Shifts /\ Keyboard!RightShift \in Keyboard!Shifts
      /\ shifts # {} <=> (Keyboard!LeftShift \in shifts \/ Keyboard!RightShift \in shifts)
  BY DEF Keyboard!Shifts
<1>3. \A p \in Seq(0 .. 255) : p \o <<>> = p /\ <<>> \o p = p
  OBVIOUS
<1>4. l \in Seq(0 .. 255) /\ r \in Seq(0 .. 255)
  <2>1. Keyboard!LeftShift + up \in 0 .. 255 /\ Keyboard!RightShift + up \in 0 .. 255
    BY DEF Keyboard!LeftShift, Keyboard!RightShift
  <2>2. QED  BY <2>1, ShortQueues, Zenon
<1>5. Settles(q \o l, s, up)
  BY <1>2, FakeSent, Zenon
<1>6. Settles(q \o r, s, up)
  BY <1>2, FakeSent, Zenon
<1>7. Settles((q \o l) \o r, s, up)
  <2>1. q \o l \in Seq(0 .. 255)
    BY <1>4
  <2> HIDE DEF l
  <2>2. QED  BY <2>1, <1>2, <1>5, FakeSent, Zenon
<1> HIDE DEF l, r
<1>8. q \o (l \o r) = (q \o l) \o r
  BY <1>4
<1>9. CASE Keyboard!LeftShift \in shifts /\ Keyboard!RightShift \in shifts
  <2>1. Keyboard!fakes(shifts, up) = l \o r
    BY <1>1, <1>2, <1>9
  <2>2. QED  BY <2>1, <1>8, <1>7, Zenon
<1>10. CASE Keyboard!LeftShift \in shifts /\ Keyboard!RightShift \notin shifts
  <2>1. Keyboard!fakes(shifts, up) = l
    BY <1>1, <1>2, <1>3, <1>4, <1>10
  <2>2. QED  BY <2>1, <1>5, Zenon
<1>11. CASE Keyboard!LeftShift \notin shifts /\ Keyboard!RightShift \in shifts
  <2>1. Keyboard!fakes(shifts, up) = r
    BY <1>1, <1>2, <1>3, <1>4, <1>11
  <2>2. QED  BY <2>1, <1>6, Zenon
<1>12. QED  BY <1>2, <1>9, <1>10, <1>11, Zenon

LEMMA NoFakes == \A up : Keyboard!fakes({}, up) = <<>>
  BY DEF Keyboard!fakes

\* What is sent are bytes.
LEMMA SentAreBytes ==
    /\ \A k \in Key, up \in {0, 128} : Keyboard!bytes(k, up) \in Seq(0 .. 255)
    /\ \A up \in {0, 128} : \A shifts : Keyboard!fakes(shifts, up) \in Seq(0 .. 255)
<1>1. ASSUME NEW k \in Key, NEW up \in {0, 128}  PROVE Keyboard!bytes(k, up) \in Seq(0 .. 255)
  <2>1. PICK c \in 0 .. 127 : /\ c \in Keyboard!Shifts <=> k \in Keyboard!Shifts
                              /\ \A u \in {0, 128} : \/ Keyboard!bytes(k, u) = OneByte(c + u)
                                                     \/ Keyboard!bytes(k, u) = TwoBytes(c + u)
    BY KeyCodes
  <2>2. c + up \in 0 .. 255
    OBVIOUS
  <2>3. OneByte(c + up) \in Seq(0 .. 255) /\ TwoBytes(c + up) \in Seq(0 .. 255)
    BY <2>2, ShortQueues, Zenon
  <2>4. Keyboard!bytes(k, up) = OneByte(c + up) \/ Keyboard!bytes(k, up) = TwoBytes(c + up)
    BY <2>1, Zenon
  <2>5. QED  BY <2>3, <2>4, Zenon
<1>2. ASSUME NEW shifts, NEW up \in {0, 128}  PROVE Keyboard!fakes(shifts, up) \in Seq(0 .. 255)
  <2> DEFINE l == TwoBytes(Keyboard!LeftShift + up)
             r == TwoBytes(Keyboard!RightShift + up)
             left == IF Keyboard!LeftShift \in shifts THEN l ELSE <<>>
             right == IF Keyboard!RightShift \in shifts THEN r ELSE <<>>
  <2>1. Keyboard!LeftShift + up \in 0 .. 255 /\ Keyboard!RightShift + up \in 0 .. 255
    BY DEF Keyboard!LeftShift, Keyboard!RightShift
  <2>2. l \in Seq(0 .. 255) /\ r \in Seq(0 .. 255)
    BY <2>1, ShortQueues, Zenon
  <2>3. Keyboard!fakes(shifts, up) = left \o right
    BY DEF Keyboard!fakes, TwoBytes
  <2> HIDE DEF l, r
  <2>4. left \in Seq(0 .. 255) /\ right \in Seq(0 .. 255)
    BY <2>2, ShortQueues, Zenon
  <2> HIDE DEF left, right
  <2>5. QED  BY <2>3, <2>4
<1>3. QED  BY <1>1, <1>2

\* Mixes keeps the history.
LEMMA MixesTells ==
    ASSUME Keyboard!Mixes, k_mixed \in BOOLEAN
    PROVE  OneTells' /\ k_mixed' \in BOOLEAN
<1>1. Telling' = Keyboard!Telling'
  BY DEF Telling, Keyboard!Telling, Keyboard!Down
<1>2. k_mixed' = (Telling' # {} /\ (k_mixed \/ \E k, l \in Telling' : k # l))
  BY <1>1 DEF Keyboard!Mixes
<1>3. QED  BY <1>2 DEF OneTells

LEMMA KeyPressed ==
    ASSUME KeyboardInv, NEW k \in Key, Keyboard!Press(k)
    PROVE  KeyboardInv'
<1> DEFINE Down == k_held \cap Keyboard!Shifts
           pre == IF Keyboard!feigns(k) THEN Keyboard!fakes({Keyboard!LeftShift}, 0)
                  ELSE IF Keyboard!hides(k) THEN Keyboard!fakes(Down, 128) ELSE <<>>
           own == Keyboard!bytes(k, 0)
<1>1. /\ k \notin k_held /\ k_held' = k_held \cup {k} /\ k_repeats' = k
      /\ k_feigned' = IF Keyboard!feigns(k) THEN k_feigned \cup {k} ELSE k_feigned
      /\ k_hidden' = IF Keyboard!hides(k) THEN k_hidden \cup {k} ELSE k_hidden
      /\ k_queue' = k_queue \o (pre \o own) /\ k_shift' = k_shift /\ Keyboard!Mixes
  BY DEF Keyboard!Press, Keyboard!Queued, Keyboard!Down
<1>2. PICK on \in {0, 128} : Settles(k_queue, k_shift, on) /\ Told(on)
  BY DEF KeyboardInv
<1>3. KeyboardTypes /\ OneTells
  BY DEF KeyboardInv
<1>4. /\ Keyboard!feigns(k) => Down = {}
      /\ Keyboard!hides(k) => Down # {}
      /\ k \in Keyboard!Shifts => ~Keyboard!feigns(k) /\ ~Keyboard!hides(k)
  <2>1. k \in Keyboard!Shifts => k # Keyboard!PrintScreen /\ k # Keyboard!Slash /\ k \notin Keyboard!Grey
    BY DEF Keyboard!Shifts, Keyboard!LeftShift, Keyboard!RightShift, Keyboard!PrintScreen,
           Keyboard!Slash, Keyboard!Grey
  <2>2. QED  BY <2>1 DEF Keyboard!feigns, Keyboard!hides, Keyboard!Down
<1>5. PICK e \in {0, 128} : e = IF Keyboard!feigns(k) THEN 0 ELSE IF Keyboard!hides(k) THEN 128 ELSE on
  OBVIOUS
<1>6. PICK g \in {0, 128} : g = IF k \in Keyboard!Shifts THEN 0 ELSE e
  OBVIOUS
<1>7. k_queue \in Seq(0 .. 255)
  BY <1>3 DEF KeyboardTypes
<1>8. pre \in Seq(0 .. 255) /\ own \in Seq(0 .. 255)
  <2>1. own \in Seq(0 .. 255)
    BY SentAreBytes, Zenon
  <2>2. Keyboard!fakes({Keyboard!LeftShift}, 0) \in Seq(0 .. 255)
    BY SentAreBytes, Zenon
  <2> HIDE DEF own, Down
  <2>3. Keyboard!fakes(Down, 128) \in Seq(0 .. 255)
    BY SentAreBytes, Zenon
  <2>4. QED  BY <2>1, <2>2, <2>3, ShortQueues, Zenon
<1>9. Settles(k_queue \o pre, k_shift, e)
  <2>1. CASE Keyboard!feigns(k)
    <3> DEFINE S == {Keyboard!LeftShift}
    <3>1. S \subseteq Keyboard!Shifts /\ pre = Keyboard!fakes(S, 0) /\ 0 \in {0, 128}
          /\ S # {} /\ e = 0
      BY <2>1, <1>5 DEF Keyboard!Shifts
    <3> HIDE DEF S, pre
    <3>2. Settles(k_queue \o Keyboard!fakes(S, 0), k_shift, 0)
      BY <3>1, <1>2, <1>7, FakesSent, Zenon
    <3>3. QED  BY <3>1, <3>2, Zenon
  <2>2. CASE ~Keyboard!feigns(k) /\ Keyboard!hides(k)
    <3>1. Down \subseteq Keyboard!Shifts /\ pre = Keyboard!fakes(Down, 128) /\ 128 \in {0, 128}
          /\ Down # {} /\ e = 128
      BY <2>2, <1>4, <1>5
    <3> HIDE DEF Down, pre
    <3>2. Settles(k_queue \o Keyboard!fakes(Down, 128), k_shift, 128)
      BY <3>1, <1>2, <1>7, FakesSent, Zenon
    <3>3. QED  BY <3>1, <3>2, Zenon
  <2>3. CASE ~Keyboard!feigns(k) /\ ~Keyboard!hides(k)
    <3>1. pre = <<>> /\ e = on
      BY <2>3, <1>5
    <3>2. k_queue \o <<>> = k_queue
      BY <1>7
    <3> HIDE DEF pre
    <3>3. QED  BY <3>1, <3>2, <1>2, Zenon
  <2>4. QED  BY <2>1, <2>2, <2>3
<1>10. k_queue' \in Seq(0 .. 255) /\ Settles(k_queue', k_shift', g)
  <2> HIDE DEF pre
  <2>1. k_queue \o pre \in Seq(0 .. 255) /\ 0 \in {0, 128}
    BY <1>7, <1>8
  <2>2. Settles((k_queue \o pre) \o own, k_shift, g)
    BY <2>1, <1>6, <1>9, OwnBytes, Zenon
  <2> HIDE DEF own
  <2>3. k_queue \o (pre \o own) = (k_queue \o pre) \o own /\ k_queue \o (pre \o own) \in Seq(0 .. 255)
    BY <1>7, <1>8
  <2>4. QED  BY <2>2, <2>3, <1>1, Zenon
<1> HIDE DEF pre, own
<1>11. OneTells' /\ k_mixed' \in BOOLEAN
  BY <1>1, <1>3, MixesTells DEF KeyboardTypes
<1>12. KeyboardTypes'
  BY <1>1, <1>3, <1>4, <1>10, <1>11 DEF KeyboardTypes
<1>13. Told(g)'
  <2>1. CASE k \in Keyboard!Shifts
    <3>1. g = 0 /\ k \in k_held' \cap Keyboard!Shifts
      BY <2>1, <1>1, <1>6
    <3>2. QED  BY <3>1 DEF Told
  <2>2. CASE Keyboard!feigns(k)
    <3>1. k \in k_feigned'
      BY <2>2, <1>1
    <3>2. QED  BY <3>1 DEF Told
  <2>3. CASE ~Keyboard!feigns(k) /\ Keyboard!hides(k)
    <3>1. g = 128
      BY <2>3, <1>4, <1>5, <1>6
    <3>2. k_mixed'
      <4>1. k \in Telling' /\ Down \subseteq Telling' /\ k \notin Down
        BY <1>1, <2>3 DEF Telling
      <4>2. \E a, b \in Telling' : a # b
        BY <4>1, <2>3, <1>4
      <4>3. QED  BY <4>2, <1>11 DEF OneTells
    <3>3. QED  BY <3>1, <3>2 DEF Told
  <2>4. CASE k \notin Keyboard!Shifts /\ ~Keyboard!feigns(k) /\ ~Keyboard!hides(k)
    <3>1. g = on
      BY <2>4, <1>5, <1>6
    <3>2. /\ k_held' \cap Keyboard!Shifts = k_held \cap Keyboard!Shifts
          /\ k_feigned' = k_feigned /\ k_hidden' = k_hidden
      BY <2>4, <1>1
    <3>3. k_mixed => k_mixed'
      <4>1. Keyboard!Telling' = Telling
        BY <3>2 DEF Telling, Keyboard!Telling, Keyboard!Down
      <4>2. k_mixed => Telling # {}
        BY <1>3 DEF OneTells
      <4>3. QED  BY <4>1, <4>2, <1>1 DEF Keyboard!Mixes
    <3>4. QED  BY <3>1, <3>2, <3>3, <1>2, Zenon DEF Told
  <2>5. QED  BY <2>1, <2>2, <2>3, <2>4
<1>14. QED  BY <1>10, <1>11, <1>12, <1>13 DEF KeyboardInv

LEMMA KeyRepeated ==
    ASSUME KeyboardInv, Keyboard!Repeat
    PROVE  KeyboardInv'
<1>1. PICK on \in {0, 128} : Settles(k_queue, k_shift, on) /\ Told(on)
  BY DEF KeyboardInv
<1>2. KeyboardTypes /\ OneTells
  BY DEF KeyboardInv
<1>3. PICK k \in Key : k = k_repeats /\ k \in k_held
  BY <1>2 DEF KeyboardTypes, Keyboard!Repeat
<1>4. /\ k_queue' = k_queue \o Keyboard!bytes(k, 0)
      /\ UNCHANGED <<k_shift, k_held, k_repeats, k_feigned, k_hidden, k_mixed>>
  BY <1>3 DEF Keyboard!Repeat, Keyboard!Queued
<1>5. PICK g \in {0, 128} : g = IF k \in Keyboard!Shifts THEN 0 ELSE on
  OBVIOUS
<1>6. k_queue' \in Seq(0 .. 255) /\ Settles(k_queue', k_shift', g)
  <2>1. k_queue \in Seq(0 .. 255) /\ 0 \in {0, 128}
    BY <1>2 DEF KeyboardTypes
  <2>2. Settles(k_queue \o Keyboard!bytes(k, 0), k_shift, g)
    BY <2>1, <1>5, <1>1, OwnBytes, Zenon
  <2>3. Keyboard!bytes(k, 0) \in Seq(0 .. 255)
    BY <2>1, SentAreBytes, Zenon
  <2>4. k_queue \o Keyboard!bytes(k, 0) \in Seq(0 .. 255)
    BY <2>1, <2>3
  <2>5. QED  BY <2>2, <2>4, <1>4, Zenon
<1>7. KeyboardTypes' /\ OneTells'
  BY <1>2, <1>4, <1>6 DEF KeyboardTypes, OneTells, Telling
<1>8. Told(g)'
  <2>1. CASE k \in Keyboard!Shifts
    BY <2>1, <1>5, <1>3, <1>4 DEF Told
  <2>2. CASE k \notin Keyboard!Shifts
    BY <2>2, <1>5, <1>1, <1>4 DEF Told
  <2>3. QED  BY <2>1, <2>2
<1>9. QED  BY <1>6, <1>7, <1>8 DEF KeyboardInv

LEMMA KeyReleased ==
    ASSUME KeyboardInv, NEW k \in Key, Keyboard!Release(k)
    PROVE  KeyboardInv'
<1> DEFINE Down == k_held \cap Keyboard!Shifts
           own == Keyboard!bytes(k, 128)
           post == IF k \in k_feigned THEN Keyboard!fakes({Keyboard!LeftShift}, 128)
                   ELSE IF k \in k_hidden THEN Keyboard!fakes(Down, 0) ELSE <<>>
<1>1. /\ k \in k_held /\ k_held' = k_held \ {k}
      /\ k_repeats' = IF k_repeats = k THEN 0 ELSE k_repeats
      /\ k_feigned' = k_feigned \ {k} /\ k_hidden' = k_hidden \ {k}
      /\ k_queue' = k_queue \o (own \o post) /\ k_shift' = k_shift /\ Keyboard!Mixes
  BY DEF Keyboard!Release, Keyboard!Queued, Keyboard!Down
<1>2. PICK on \in {0, 128} : Settles(k_queue, k_shift, on) /\ Told(on)
  BY DEF KeyboardInv
<1>3. KeyboardTypes /\ OneTells
  BY DEF KeyboardInv
<1>4. PICK e \in {0, 128} : e = IF k \in Keyboard!Shifts THEN 128 ELSE on
  OBVIOUS
<1>5. PICK g \in {0, 128} : g = IF k \in k_feigned THEN 128
                               ELSE IF k \in k_hidden /\ Down # {} THEN 0 ELSE e
  OBVIOUS
<1>6. k_queue \in Seq(0 .. 255)
  BY <1>3 DEF KeyboardTypes
<1>7. post \in Seq(0 .. 255) /\ own \in Seq(0 .. 255)
  <2>1. own \in Seq(0 .. 255)
    BY SentAreBytes, Zenon
  <2>2. Keyboard!fakes({Keyboard!LeftShift}, 128) \in Seq(0 .. 255)
    BY SentAreBytes, Zenon
  <2> HIDE DEF own, Down
  <2>3. Keyboard!fakes(Down, 0) \in Seq(0 .. 255)
    BY SentAreBytes, Zenon
  <2>4. QED  BY <2>1, <2>2, <2>3, ShortQueues, Zenon
<1>8. Settles(k_queue \o own, k_shift, e) /\ k_queue \o own \in Seq(0 .. 255)
  <2>1. 128 \in {0, 128}
    OBVIOUS
  <2>2. Settles(k_queue \o own, k_shift, e)
    <3>1. Settles(k_queue, k_shift, on)
      BY <1>2
    <3> HIDE DEF Down
    <3>2. QED  BY <2>1, <3>1, <1>4, <1>6, OwnBytes, ZenonT(60)
  <2> HIDE DEF own
  <2>3. QED  BY <2>2, <1>6, <1>7
<1> HIDE DEF own
<1>9. Settles((k_queue \o own) \o post, k_shift, g)
  <2>1. CASE k \in k_feigned
    <3> DEFINE S == {Keyboard!LeftShift}
    <3>1. S \subseteq Keyboard!Shifts /\ post = Keyboard!fakes(S, 128) /\ 128 \in {0, 128}
          /\ S # {} /\ g = 128
      BY <2>1, <1>5 DEF Keyboard!Shifts
    <3> HIDE DEF S, post
    <3>2. Settles((k_queue \o own) \o Keyboard!fakes(S, 128), k_shift, 128)
      BY <3>1, <1>8, FakesSent, Zenon
    <3>3. QED  BY <3>1, <3>2, Zenon
  <2>2. CASE k \notin k_feigned /\ k \in k_hidden /\ Down # {}
    <3>1. Down \subseteq Keyboard!Shifts /\ post = Keyboard!fakes(Down, 0) /\ 0 \in {0, 128}
          /\ g = 0
      BY <2>2, <1>5
    <3> HIDE DEF post, Down
    <3>2. Settles((k_queue \o own) \o Keyboard!fakes(Down, 0), k_shift, 0)
      BY <2>2, <3>1, <1>8, FakesSent, Zenon
    <3>3. QED  BY <3>1, <3>2, Zenon
  <2>3. CASE k \notin k_feigned /\ ~(k \in k_hidden /\ Down # {})
    <3>1. post = <<>> /\ g = e
      BY <2>3, <1>5, NoFakes
    <3>2. (k_queue \o own) \o <<>> = k_queue \o own
      BY <1>8
    <3> HIDE DEF post
    <3>3. QED  BY <3>1, <3>2, <1>8, Zenon
  <2>4. QED  BY <2>1, <2>2, <2>3
<1>10. k_queue' \in Seq(0 .. 255) /\ Settles(k_queue', k_shift', g)
  <2> HIDE DEF post
  <2>1. /\ k_queue \o (own \o post) = (k_queue \o own) \o post
        /\ k_queue \o (own \o post) \in Seq(0 .. 255)
    BY <1>6, <1>7
  <2>2. QED  BY <2>1, <1>1, <1>9, Zenon
<1> HIDE DEF post
<1>11. OneTells' /\ k_mixed' \in BOOLEAN
  BY <1>1, <1>3, MixesTells DEF KeyboardTypes
<1>12. KeyboardTypes'
  <2>1. k_held' \subseteq Key /\ k_shift' \in BOOLEAN
    BY <1>1, <1>3 DEF KeyboardTypes
  <2>2. k_repeats' \in k_held' \cup {0}
    <3>1. CASE k_repeats = k
      BY <1>1, <3>1
    <3>2. CASE k_repeats # k
      BY <1>1, <1>3, <3>2 DEF KeyboardTypes
    <3>3. QED  BY <3>1, <3>2
  <2>3. /\ k_feigned' \subseteq k_held' \ Keyboard!Shifts
        /\ k_hidden' \subseteq k_held' \ Keyboard!Shifts /\ k_feigned' \cap k_hidden' = {}
    BY <1>1, <1>3 DEF KeyboardTypes
  <2>4. QED  BY <2>1, <2>2, <2>3, <1>10, <1>11 DEF KeyboardTypes
<1>13. ASSUME k \in Telling, Telling' # {}  PROVE k_mixed' = TRUE
  <2>1. PICK l \in Telling' : TRUE
    BY <1>13
  <2>2. l \in Telling /\ l # k
    BY <1>1, <1>3 DEF Telling
  <2>3. k_mixed = TRUE
    BY <2>2, <1>3, <1>13 DEF OneTells, KeyboardTypes
  <2>4. Telling' = Keyboard!Telling'
    BY DEF Telling, Keyboard!Telling, Keyboard!Down
  <2>5. QED  BY <2>3, <2>4, <1>1, <1>13 DEF Keyboard!Mixes
<1>14. Told(g)'
  <2>1. CASE k \in Keyboard!Shifts
    <3>1. g = 128 /\ k \in Telling /\ k_held' \cap Keyboard!Shifts \subseteq Telling'
      BY <2>1, <1>1, <1>3, <1>4, <1>5 DEF Telling, KeyboardTypes
    <3>2. k_held' \cap Keyboard!Shifts # {} => k_mixed' = TRUE
      BY <3>1, <1>13
    <3>3. QED  BY <3>1, <3>2 DEF Told
  <2>2. CASE k \in k_feigned
    <3>1. g = 128 /\ k \in Telling /\ k_held' \cap Keyboard!Shifts \subseteq Telling'
      BY <2>2, <1>5 DEF Telling
    <3>2. k_held' \cap Keyboard!Shifts # {} => k_mixed' = TRUE
      BY <3>1, <1>13
    <3>3. QED  BY <3>1, <3>2 DEF Told
  <2>3. CASE k \notin Keyboard!Shifts /\ k \notin k_feigned
    <3>1. k_held' \cap Keyboard!Shifts = Down /\ k_feigned' = k_feigned
      BY <2>3, <1>1
    <3>2. CASE k \in k_hidden /\ Down # {}
      <4>1. g = 0
        BY <2>3, <3>2, <1>5
      <4> HIDE DEF Down
      <4>2. QED  BY <3>1, <3>2, <4>1 DEF Told
    <3>3. CASE k \in k_hidden /\ Down = {}
      <4>1. g = on
        BY <2>3, <3>3, <1>4, <1>5
      <4>2. QED  BY <3>1, <3>3, <4>1, <1>2 DEF Told
    <3>4. CASE k \notin k_hidden
      <4>1. g = on /\ k_hidden' = k_hidden
        BY <2>3, <3>4, <1>1, <1>4, <1>5
      <4>2. Keyboard!Telling' = Telling
        BY <3>1, <4>1 DEF Telling, Keyboard!Telling, Keyboard!Down
      <4>3. k_mixed => k_mixed'
        BY <4>2, <1>1, <1>3 DEF OneTells, Keyboard!Mixes
      <4>4. QED  BY <3>1, <4>1, <4>3, <1>2, Zenon DEF Told
    <3>5. QED  BY <3>2, <3>3, <3>4
  <2>4. QED  BY <2>1, <2>2, <2>3
<1>15. QED  BY <1>10, <1>11, <1>12, <1>14 DEF KeyboardInv

LEMMA HandlerReads ==
    ASSUME KeyboardInv, Keyboard!keyboard_handler
    PROVE  KeyboardInv'
<1>1. PICK on \in {0, 128} : Settles(k_queue, k_shift, on) /\ Told(on)
  BY DEF KeyboardInv
<1>2. /\ KeyboardTypes /\ OneTells /\ Settles(k_queue, k_shift, on) /\ k_queue \in Seq(0 .. 255)
      /\ k_shift \in BOOLEAN
  BY <1>1 DEF KeyboardInv, KeyboardTypes
<1>3. /\ k_queue # <<>> /\ k_held' = k_held /\ k_repeats' = k_repeats 
      /\ UNCHANGED <<k_feigned, k_hidden, k_mixed>>
      /\ Keyboard!scancode = Head(k_queue) % 128
      /\ Keyboard!Pressed <=> Head(k_queue) < 128
  BY DEF Keyboard!keyboard_handler, Keyboard!ReleaseByte, Keyboard!PressByte, Keyboard!Pressed,
         Keyboard!scancode, Keyboard!byte
<1>4. IsShiftByte(Head(k_queue)) <=> Keyboard!scancode \in Keyboard!Shifts
  BY <1>3 DEF IsShiftByte
<1>5. k_shift' \in BOOLEAN /\ k_queue' \in Seq(0 .. 255) /\ Settles(k_queue', k_shift', on)
  <2>1. CASE Keyboard!ReleaseByte
    <3>1. /\ k_queue' = Tail(k_queue) /\ ~Keyboard!Pressed
          /\ k_shift' = (k_shift /\ Keyboard!scancode \notin Keyboard!Shifts)
      BY <2>1 DEF Keyboard!ReleaseByte, Keyboard!Unshifts
    <3>2. /\ k_shift' \in BOOLEAN
          /\ IsShiftByte(Head(k_queue)) => (k_shift' = TRUE <=> Keyboard!Pressed)
          /\ ~IsShiftByte(Head(k_queue)) => (k_shift' = TRUE <=> k_shift = TRUE)
      BY <3>1, <1>2, <1>4, Zenon
    <3>3. Settles(Tail(k_queue), k_shift', on)
      BY <3>2, <1>2, <1>3, ByteRead
    <3>4. Tail(k_queue) \in Seq(0 .. 255)
      BY <1>2, <1>3
    <3>5. QED  BY <3>1, <3>2, <3>3, <3>4
  <2>2. CASE Keyboard!PressByte
    <3> DEFINE r == Tail(k_queue)
               s == Append(r, 250)
    <3>1. /\ k_queue' = Tail(k_queue) \o <<250, 250>> /\ Keyboard!Pressed
          /\ k_shift' = (k_shift \/ Keyboard!scancode \in Keyboard!Shifts)
      BY <2>2 DEF Keyboard!PressByte, Keyboard!Acknowledge
    <3>2. /\ k_shift' \in BOOLEAN
          /\ IsShiftByte(Head(k_queue)) => (k_shift' = TRUE <=> Keyboard!Pressed)
          /\ ~IsShiftByte(Head(k_queue)) => (k_shift' = TRUE <=> k_shift = TRUE)
      BY <3>1, <1>2, <1>4, Zenon
    <3>3. Settles(r, k_shift', on)
      BY <3>2, <1>2, <1>3, ByteRead
    <3>4. r \in Seq(0 .. 255) /\ s \in Seq(0 .. 255) /\ Append(s, 250) \in Seq(0 .. 255)
          /\ k_queue' = Append(s, 250)
      BY <1>2, <1>3, <3>1
    <3> HIDE DEF r, s
    <3>5. 250 \in 0 .. 255 /\ ~IsShiftByte(250)
      BY BytesOfKeys
    <3>6. Settles(Append(r, 250), k_shift', on)
      BY <3>3, <3>4, <3>5, OtherByteWaits
    <3>7. Settles(Append(s, 250), k_shift', on)
      <4>1. Settles(s, k_shift', on)
        BY <3>6 DEF s
      <4>2. s \in Seq(0 .. 255)
        BY <3>4
      <4>3. QED  BY <3>5, <4>1, <4>2, OtherByteWaits
    <3>8. QED  BY <3>2, <3>4, <3>7
  <2>3. QED  BY <2>1, <2>2 DEF Keyboard!keyboard_handler
<1>6. KeyboardTypes' /\ OneTells' /\ Told(on)'
  BY <1>1, <1>2, <1>3, <1>5 DEF KeyboardTypes, OneTells, Told, Telling
<1>7. QED  BY <1>1, <1>5, <1>6 DEF KeyboardInv

LEMMA KeysAreMade ==
    ASSUME KeyboardInv, Keyboard!Keys
    PROVE  KeyboardInv'
  BY KeyPressed, KeyRepeated, KeyReleased DEF Keyboard!Keys

LEMMA KeyboardInvInit == ASSUME Keyboard!Init PROVE KeyboardInv
<1>1. /\ k_shift = FALSE /\ k_held = {} /\ k_repeats = 0 /\ k_queue = <<>>
      /\ k_feigned = {} /\ k_hidden = {} /\ k_mixed = FALSE
  BY DEF Keyboard!Init
<1>2. <<>> \in Seq(0 .. 255) /\ Len(<<>>) = 0
  OBVIOUS
<1>3. Settles(<<>>, FALSE, 128)
  BY <1>2 DEF Settles
<1>4. KeyboardTypes /\ OneTells /\ Told(128)
  BY <1>1, <1>2 DEF KeyboardTypes, OneTells, Told, Telling
<1>5. QED  BY <1>1, <1>3, <1>4 DEF KeyboardInv

\* The handler runs for every byte, whatever kmain is doing.
LEMMA KeyboardStep ==
    ASSUME KeyboardInv, [TerminalNext]_<<p_vars, k_vars>>
    PROVE  KeyboardInv'
<1>1. CASE UNCHANGED k_vars
  BY <1>1 DEF k_vars, KeyboardInv, KeyboardTypes, OneTells, Told, Telling
<1>2. CASE Keyboard!Keys
  BY <1>2, KeysAreMade
<1>3. CASE Interrupt
  BY <1>3, HandlerReads DEF Interrupt
<1>4. QED  BY <1>1, <1>2, <1>3 DEF TerminalNext, Stay

\* Any keys, pressed, repeated and released in any order: when every byte has been
\* read, shift is off if no key asks for it, and on while a shift key is held alone.
THEOREM ShiftIsFollowed == TerminalSpec => []ShiftFollowsKeys
<1>1. TerminalInit => KeyboardInv
  BY KeyboardInvInit DEF TerminalInit
<1>2. KeyboardInv => ShiftFollowsKeys
  <2> SUFFICES ASSUME KeyboardInv, k_queue = <<>>
               PROVE  /\ Keyboard!Down = {} /\ k_feigned = {} => ~k_shift
                      /\ ~k_mixed /\ k_feigned = {} => (k_shift <=> Keyboard!Down # {})
    BY DEF ShiftFollowsKeys, Keyboard!ShiftFollowsKeys
  <2>1. PICK on \in {0, 128} : Settles(k_queue, k_shift, on) /\ Told(on)
    BY DEF KeyboardInv
  <2>2. k_shift = TRUE <=> on = 0
    <3>1. 1 .. Len(k_queue) = {}
      OBVIOUS
    <3>2. QED  BY <2>1, <3>1 DEF Settles
  <2>3. k_shift \in BOOLEAN /\ k_mixed \in BOOLEAN /\ Keyboard!Down = k_held \cap Keyboard!Shifts
    BY DEF KeyboardInv, KeyboardTypes, Keyboard!Down
  <2>4. 0 # 128
    OBVIOUS
  <2>5. QED  BY <2>1, <2>2, <2>3, <2>4, Zenon DEF Told
<1>3. QED  BY <1>1, <1>2, KeyboardStep, PTL DEF TerminalSpec
=============================================================================
