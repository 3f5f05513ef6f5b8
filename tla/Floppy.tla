------------------------------- MODULE Floppy -------------------------------
(***************************************************************************)
(* The floppy driver (src/floppy.cpp): a read through the cylinder buffer  *)
(* of FloppyDrive, the seeks and the transfer behind it with their         *)
(* retries, the interrupt flag that irq_wait polls, and the motor that     *)
(* floppy_motor starts and floppy_timer is meant to stop.                  *)
(*                                                                         *)
(* Three parties run interleaved: the one thread that reads, the           *)
(* controller with its interrupt (external), and floppy_timer, in a thread *)
(* of its own if timer_started.  A block is the cylinder that holds it.     *)
(***************************************************************************)
EXTENDS Integers

CONSTANTS
    MaxCyl,         \* bound: cylinders 0 .. MaxCyl
    SeekTries,      \* 10 in floppy_seek and floppy_calibrate
    TransferTries,  \* 20 in floppy_do_track
    MotorTicks,     \* 300 in floppy_motor
    Timers          \* {FALSE} in the code: nothing starts floppy_timer

ASSUME FloppyAssumption ==
    /\ MaxCyl \in Nat
    /\ SeekTries \in Nat \ {0} /\ TransferTries \in Nat \ {0}
    /\ MotorTicks \in Nat \ {0}
    /\ Timers \subseteq BOOLEAN

Cylinder == 0 .. MaxCyl
None == -1        \* _cached_cyl_index before the first read
Junk == -2        \* a buffer that holds no cylinder
TickStep == 50    \* floppy_timer sleeps 500 ms at a time

VARIABLES
    pc,                 \* where the reading thread is
    job,                \* the command it works on
    i,                  \* the loop counter of its retries
    want, last,         \* the cylinder it wants, and the last one of the read
    ok,                 \* what the command returned: 0 or not
    s_floppy_irq,
    _cached_cyl_index,
    _cyl_cache,         \* the cylinder whose data the DMA buffer holds
    floppy_motor_state,
    floppy_motor_ticks,
    timer_started,      \* whether floppy_timer has a thread
    tpc, tick,          \* where it is, the value it loaded
    dev,                \* the controller: "ready", "busy", "answer"
    res,                \* its answer
    head,               \* the cylinder under the heads
    motor,              \* the motor bit of its DOR
    failed              \* history: the cylinder of the last transfer, if it failed

driver == <<job, want, last>>
cache == <<_cached_cyl_index, failed>>
motors == <<floppy_motor_state, floppy_motor_ticks, motor>>
timer == <<timer_started, tpc, tick>>
device == <<s_floppy_irq, dev, res, head, _cyl_cache>>
vars == <<pc, i, ok, driver, cache, motors, timer, device>>

Init == /\ pc = "idle" /\ job = "none" /\ i = 0 /\ want = 0 /\ last = 0 /\ ok = TRUE
        /\ s_floppy_irq = FALSE
        /\ _cached_cyl_index = None /\ _cyl_cache = Junk
        /\ floppy_motor_state = "off" /\ floppy_motor_ticks = 0 /\ motor = FALSE
        /\ timer_started \in Timers /\ tpc = "sleep" /\ tick = 0
        /\ dev = "ready" /\ res = [error |-> "none", cyl |-> 0]
        /\ head \in Cylinder
        /\ failed = None

-----------------------------------------------------------------------------
\* The reading thread.

\* FloppyDrive::read of the blocks of the cylinders first .. final.
Read(first, final) ==
    /\ pc = "idle"
    /\ pc' = "block" /\ want' = first /\ last' = final
    /\ UNCHANGED <<job, i, ok, cache, motors, timer, device>>

\* FloppyController::init, floppy_reset, before anything is read: both writes
\* to the DOR stop the motor, the second makes the controller interrupt.
init == /\ pc = "idle" /\ _cached_cyl_index = None /\ floppy_motor_state = "off"
        /\ pc' = "wait" /\ job' = "reset" /\ i' = 0
        /\ motor' = FALSE /\ dev' = "busy"
        /\ UNCHANGED <<want, last, ok, cache, floppy_motor_state, floppy_motor_ticks,
                       timer, s_floppy_irq, res, head, _cyl_cache>>

\* read_block: the buffer if it holds the cylinder, else floppy_do_track.
hit == /\ pc = "block" /\ want = _cached_cyl_index
       /\ pc' = "copy"
       /\ UNCHANGED <<i, ok, driver, cache, motors, timer, device>>

miss == /\ pc = "block" /\ want # _cached_cyl_index
        /\ pc' = "motor" /\ job' = "seek0" /\ i' = 0
        /\ UNCHANGED <<want, last, ok, cache, motors, timer, device>>

\* The memcpy; read goes on with the next block or returns true.
copy == /\ pc = "copy"
        /\ IF want < last THEN pc' = "block" /\ want' = want + 1
                          ELSE pc' = "idle" /\ want' = want
        /\ UNCHANGED <<job, last, i, ok, cache, motors, timer, device>>

\* floppy_motor( on ): turn it on unless the state says that it is.
motor_check == /\ pc = "motor"
               /\ pc' = IF floppy_motor_state = "off" THEN "turn on" ELSE "set on"
               /\ UNCHANGED <<i, ok, driver, cache, motors, timer, device>>

motor_on == /\ pc = "turn on"
            /\ pc' = "set on" /\ motor' = TRUE
            /\ UNCHANGED <<i, ok, driver, cache, floppy_motor_state,
                           floppy_motor_ticks, timer, device>>

motor_set == /\ pc = "set on"
             /\ pc' = "issue" /\ floppy_motor_state' = "on"
             /\ UNCHANGED <<i, ok, driver, cache, floppy_motor_ticks, motor, timer, device>>

\* floppy_write_cmd: the bytes of the command, or panic when the controller does
\* not get ready in time.
issue == /\ pc = "issue" /\ dev = "ready"
         /\ \/ pc' = "wait" /\ dev' = "busy"
            \/ pc' = "panic" /\ dev' = dev
         /\ UNCHANGED <<i, ok, driver, cache, motors, timer, s_floppy_irq, res, head,
                        _cyl_cache>>

\* irq_wait: spin until the flag is set, then clear it.
irq_seen == /\ pc = "wait" /\ s_floppy_irq
            /\ pc' = "clear"
            /\ UNCHANGED <<i, ok, driver, cache, motors, timer, device>>

\* Mutant: the flag stays set.
cleared_Kept == s_floppy_irq
cleared == FALSE

irq_clear == /\ pc = "clear"
             /\ pc' = "results" /\ s_floppy_irq' = cleared
             /\ UNCHANGED <<i, ok, driver, cache, motors, timer, dev, res, head,
                            _cyl_cache>>

\* Mutant: the cylinder that was reached is not compared.
Done_AnyCylinder(error, cyl) == error = "none"
\* Whether the command did what it was for.
Done(error, cyl) == /\ error = "none"
                    /\ CASE job = "calibrate" -> cyl = 0
                         [] job \in {"seek0", "seek1"} -> cyl = want
                         [] OTHER -> TRUE

\* Whether the loop goes on after an answer that was not the desired one.
Retries(error) == /\ error # "protected"
                  /\ i + 1 < IF job = "transfer" THEN TransferTries ELSE SeekTries

\* Mutant: the round is not counted.
counted_Not == i
counted == i + 1

\* The loop goes back to floppy_motor( on ) only in floppy_do_track.
again == /\ i' = counted
         /\ pc' = IF job = "transfer" THEN "motor" ELSE "issue"
         /\ UNCHANGED <<job, ok>>

\* Mutant: success is returned after the last retry.
outcome_Zero(done) == TRUE
outcome(done) == done

\* floppy_read_data or floppy_check_interrupt fetch the answer, or panic.
results ==
    /\ pc = "results" /\ dev = "answer"
    /\ \/ pc' = "panic" /\ UNCHANGED <<dev, i, job, ok>>
       \/ /\ dev' = "ready"
          /\ LET done == Done(res.error, res.cyl)
             IN  \/ /\ job = "reset"
                    /\ pc' = "motor" /\ job' = "calibrate" /\ i' = 0 /\ ok' = ok
                 \/ job # "reset" /\ ~done /\ Retries(res.error) /\ again
                 \/ /\ job # "reset" /\ (done \/ ~Retries(res.error))
                    /\ pc' = "ticks" /\ ok' = outcome(done)
                    /\ UNCHANGED <<i, job>>
    /\ UNCHANGED <<want, last, cache, motors, timer, s_floppy_irq, res, head, _cyl_cache>>

\* floppy_motor( off ): the motor runs on until floppy_timer stops it.
motor_ticks == /\ pc = "ticks"
               /\ pc' = "set wait" /\ floppy_motor_ticks' = MotorTicks
               /\ UNCHANGED <<i, ok, driver, cache, floppy_motor_state, motor, timer, device>>

motor_wait == /\ pc = "set wait"
              /\ pc' = "return" /\ floppy_motor_state' = "wait"
              /\ UNCHANGED <<i, ok, driver, cache, floppy_motor_ticks, motor, timer, device>>

\* Both heads are sought, then the cylinder is transferred.
advance == /\ pc = "return" /\ ok /\ job \in {"seek0", "seek1"}
           /\ pc' = "motor" /\ i' = 0
           /\ job' = IF job = "seek0" THEN "seek1" ELSE "transfer"
           /\ UNCHANGED <<want, last, ok, cache, motors, timer, device>>

calibrated == /\ pc = "return" /\ job = "calibrate"
              /\ pc' = "idle"
              /\ UNCHANGED <<i, ok, driver, cache, motors, timer, device>>

\* read_block after read_cyl: the index is that of the cylinder in any case, and
\* read returns false after an error.
track_done == /\ pc = "return" /\ job # "calibrate"
              /\ ok => job = "transfer"
              /\ _cached_cyl_index' = want
              /\ pc' = IF ok THEN "copy" ELSE "idle"
              /\ failed' = IF ok THEN None ELSE want
              /\ UNCHANGED <<i, ok, driver, motors, timer, device>>

Thread == \/ \E first, final \in Cylinder : first <= final /\ Read(first, final)
          \/ init
ThreadStep == \/ hit \/ miss \/ copy \/ motor_check \/ motor_on \/ motor_set \/ issue
              \/ irq_seen \/ irq_clear \/ results \/ motor_ticks \/ motor_wait
              \/ advance \/ calibrated \/ track_done

-----------------------------------------------------------------------------
\* floppy_timer, its own thread.

Timer(from, to) == /\ timer_started
                   /\ tpc = from /\ tpc' = to
                   /\ UNCHANGED <<timer_started, pc, i, ok, driver, cache, device>>

timer_check == /\ Timer("sleep", IF floppy_motor_state = "wait" THEN "load" ELSE "sleep")
               /\ UNCHANGED <<tick, motors>>
timer_load == /\ Timer("load", "store")
              /\ tick' = floppy_motor_ticks
              /\ UNCHANGED motors
\* Values below 0 count as 0: only "<= 0" is asked of them.
timer_store == /\ Timer("store", "test")
               /\ floppy_motor_ticks' = IF tick > TickStep THEN tick - TickStep ELSE 0
               /\ UNCHANGED <<tick, floppy_motor_state, motor>>
timer_test == /\ Timer("test", IF floppy_motor_ticks <= 0 THEN "kill" ELSE "sleep")
              /\ UNCHANGED <<tick, motors>>
\* Mutant: the register is written with the motor bit set.
killed_On == motor
killed == FALSE
\* floppy_motor_kill.
kill_motor == /\ Timer("kill", "set off")
              /\ motor' = killed
              /\ UNCHANGED <<tick, floppy_motor_state, floppy_motor_ticks>>
kill_state == /\ Timer("set off", "sleep")
              /\ floppy_motor_state' = "off"
              /\ UNCHANGED <<tick, floppy_motor_ticks, motor>>

floppy_timer == \/ timer_check \/ timer_load \/ timer_store \/ timer_test
                \/ kill_motor \/ kill_state

-----------------------------------------------------------------------------
\* The controller, external.  It answers a command once, with an interrupt that
\* runs floppy_irq.  A transfer needs the motor and the head in place; any
\* command may fail, and a seek may end on another cylinder.

Answers == [error : {"none", "error", "protected"}, cyl : Cylinder]

Possible(a) ==
    CASE job = "reset" -> a = [error |-> "none", cyl |-> head]
      [] job = "transfer" -> /\ a.cyl = head
                             /\ a.error = "none" => motor /\ head = want
      [] OTHER -> a.error # "protected"

answer == /\ dev = "busy"
          /\ dev' = "answer"
          /\ \E a \in Answers : Possible(a) /\ res' = a
          /\ head' = res'.cyl
          /\ _cyl_cache' \in IF job # "transfer" THEN {_cyl_cache}
                             ELSE IF res'.error = "none" THEN {head}
                             ELSE {_cyl_cache, Junk}
          /\ s_floppy_irq' = TRUE
          /\ UNCHANGED <<pc, i, ok, driver, cache, motors, timer>>

Halt == pc = "panic" /\ UNCHANGED vars

Next == Thread \/ ThreadStep \/ floppy_timer \/ answer \/ Halt

Spec == Init /\ [][Next]_vars

\* The threads are scheduled, the controller answers every command.
FairSpec == Spec /\ WF_vars(ThreadStep) /\ WF_vars(floppy_timer) /\ WF_vars(answer)

-----------------------------------------------------------------------------
\* The variables range over the places, commands and cylinders.
TypeOK ==
    /\ pc \in {"idle", "block", "copy", "motor", "turn on", "set on", "issue", "wait",
               "clear", "results", "ticks", "set wait", "return", "panic"}
    /\ job \in {"none", "reset", "calibrate", "seek0", "seek1", "transfer"}
    /\ i \in 0 .. IF job = "transfer" THEN TransferTries - 1 ELSE SeekTries - 1
    /\ want \in Cylinder /\ last \in Cylinder /\ ok \in BOOLEAN
    /\ s_floppy_irq \in BOOLEAN
    /\ _cached_cyl_index \in Cylinder \cup {None}
    /\ _cyl_cache \in Cylinder \cup {Junk}
    /\ floppy_motor_state \in {"off", "on", "wait"}
    /\ floppy_motor_ticks \in 0 .. MotorTicks
    /\ timer_started \in BOOLEAN
    /\ tpc \in {"sleep", "load", "store", "test", "kill", "set off"}
    /\ tick \in 0 .. MotorTicks
    /\ dev \in {"ready", "busy", "answer"} /\ res \in Answers
    /\ head \in Cylinder /\ motor \in BOOLEAN
    /\ failed \in Cylinder \cup {None}

\* A block that is copied to the caller comes from the cylinder it is on, or
\* from a cylinder whose transfer failed: read_block keeps the index then, and a
\* second read of the cylinder is answered from a buffer that does not hold it.
\* Such a buffer is not taken for any other cylinder's.
CopiesTheCylinder == pc = "copy" => _cyl_cache = want \/ failed = want

\* The flag that ends irq_wait belongs to the command that waits: the answer is
\* there when it is fetched, and no interrupt is left over for the next command.
InterruptIsForCommand ==
    /\ pc \in {"clear", "results"} => dev = "answer"
    /\ s_floppy_irq => dev = "answer" /\ pc \in {"wait", "clear"}

\* The transfer starts with the heads on its cylinder, whatever the seeks went
\* through, and stays there over the retries.  In the kernel as it is, commands of
\* a read are sent while the motor turns; with a timer thread they may not be:
\* floppy_motor_kill may run between the check of floppy_motor_state and its
\* change, and nothing turns the motor on.
CommandsArePrepared ==
    pc \in {"issue", "wait", "clear", "results"} =>
        /\ job = "transfer" => head = want
        /\ ~timer_started /\ job # "reset" => motor

\* A read comes to an end, by success, by error or by panic.
EveryReadReturns == (pc = "block") ~> (pc \in {"idle", "panic"})

\* floppy_motor: "3 seconds, see floppy_timer() below".  A motor that is told to
\* stop does so unless it is needed again.
MotorStops == (floppy_motor_state = "wait") ~> (~motor \/ floppy_motor_state = "on")

\* With floppy_timer in a thread of its own it does.
TimerStopsMotor ==
    (timer_started /\ floppy_motor_state = "wait") ~> (~motor \/ floppy_motor_state = "on")
=============================================================================
