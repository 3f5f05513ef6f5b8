----------------------------- MODULE Scheduler -----------------------------
(***************************************************************************)
(* Preemptive multitasking: the interrupt path (src/irq_.s, src/irq.cpp),  *)
(* the round-robin scheduler called from the timer interrupt               *)
(* (src/scheduler.cpp) and the system call (src/syscall.cpp), with the two *)
(* interrupt controllers and the CPU around them.                          *)
(*                                                                         *)
(* kmain runs in ring 0 on the boot stack and creates tasks; tasks run in  *)
(* ring 3, each with a kernel stack of its own.  An interrupt pushes a     *)
(* cpu_state frame, the handler returns the frame to continue with.  The   *)
(* stubs begin with cli behind an interrupt gate, so a handler is never    *)
(* interrupted; devices raise requests at any time.                        *)
(***************************************************************************)
EXTENDS Integers, Sequences

CONSTANTS
    NumTasks,     \* tasks kmain creates, in the order 1, 2, ...
    Irqs,         \* the interrupt lines that devices use
    Yielding,     \* the tasks that call syscall::execute( Yield )
    PcMod         \* bound: instructions of a context that are told apart

Task == 1 .. NumTasks
kmain == 0
Context == {kmain} \cup Task
BootStack == 0
Stack == {BootStack} \cup Task    \* a task's kernel stack has its number
Timer == 0
SyscallIrq == 3
Cascade == 2
NoIrq == -1

ASSUME SchedulerAssumption ==
    /\ NumTasks \in Nat
    /\ Timer \in Irqs /\ Irqs \subseteq (0 .. 15) \ {Cascade}
    /\ Yielding \subseteq Task
    /\ PcMod \in Nat \ {0}

VARIABLES
    s_task_list,        \* the tasks, in order of creation
    s_current_task_it,  \* position in the list, 0 for end()
    cpu_state,          \* per task: its saved frame, as the stack it lies on
    frame,              \* per stack: the cpu_state frame at its top
    cpu,                \* the context that runs: who, and its pc
    esp0,               \* tss[1]: where the CPU pushes on entry from ring 3
    requested,          \* lines whose request is pending
    in_service,         \* lines between acceptance and EOI
    handling,           \* the line whose handler runs, or NoIrq
    r,                  \* the frame irq_handler was called with
    quiet,              \* lines that stay quiet until the CPU has run some code
    progress,           \* history: how far each context has got
    halted              \* fault_handler's for(;;)

vars == <<s_task_list, s_current_task_it, cpu_state, frame, cpu, esp0,
          requested, in_service, handling, r, quiet, progress, halted>>

\* int_no of a frame that new_task built: memset clears sizeof(regs) bytes, the
\* size of a pointer, so the field is whatever the page held before.
Leftover == {0, 47}

Frame == [who : Context, pc : 0 .. (PcMod - 1), int_no : (32 .. 47) \cup Leftover]

Init == /\ s_task_list = <<>>
        /\ s_current_task_it = 0
        /\ cpu_state = [t \in Task |-> t]
        /\ frame = [s \in Stack |-> [who |-> kmain, pc |-> 0, int_no |-> 0]]
        /\ cpu = [who |-> kmain, pc |-> 0]
        /\ esp0 = BootStack
        /\ requested = {}
        /\ in_service = {}
        /\ handling = NoIrq
        /\ r = BootStack
        /\ quiet = {}
        /\ progress = [c \in Context |-> 0]
        /\ halted = FALSE

\* Lines 8 to 15 arrive through the cascade line of the first controller.
priority(irq) == IF irq < 8 THEN 16 * irq ELSE 16 * Cascade + irq

\* A request gets through if no line of its priority or above is in service.
Deliverable(irq) == /\ irq \in requested
                    /\ \A s \in in_service : priority(irq) < priority(s)

Running == handling = NoIrq /\ ~halted

\* The CPU takes a pending interrupt before its next instruction.
Undisturbed == Running /\ \A irq \in requested : ~Deliverable(irq)

\* A device raises its line.  It does not do so again before the CPU has run
\* some code: the system is not drowned in interrupts.
Raise(irq) == /\ irq \notin requested \cup quiet
              /\ requested' = requested \cup {irq}
              /\ quiet' = quiet \cup {irq}
              /\ UNCHANGED <<s_task_list, s_current_task_it, cpu_state, frame, cpu,
                             esp0, in_service, handling, r, progress, halted>>

\* The running context executes some code.
Step == /\ Undisturbed
        /\ cpu' = [cpu EXCEPT !.pc = (@ + 1) % PcMod]
        /\ progress' = [progress EXCEPT ![cpu.who] = (@ + 1) % PcMod]
        /\ quiet' = {}
        /\ UNCHANGED <<s_task_list, s_current_task_it, cpu_state, frame, esp0,
                       requested, in_service, handling, r, halted>>

\* scheduler::new_task, called by kmain: a frame at the top of a new kernel
\* stack, then push_back.
new_task == /\ Undisturbed
            /\ cpu.who = kmain
            /\ Len(s_task_list) < NumTasks
            /\ LET t == Len(s_task_list) + 1
               IN  /\ s_task_list' = Append(s_task_list, t)
                   /\ \E garbage \in Leftover :
                        frame' = [frame EXCEPT ![t] =
                                    [who |-> t, pc |-> 0, int_no |-> garbage]]
                   /\ cpu_state' = [cpu_state EXCEPT ![t] = t]
            /\ quiet' = {}
            /\ UNCHANGED <<s_current_task_it, cpu, esp0, requested, in_service,
                           handling, r, progress, halted>>

\* syscall::execute from ring 3: the gate of int 0x23 has privilege level 0, so
\* the instruction is a general protection fault, and fault_handler halts.
Yield == /\ Undisturbed
         /\ cpu.who \in Yielding
         /\ halted' = TRUE
         /\ UNCHANGED <<s_task_list, s_current_task_it, cpu_state, frame, cpu, esp0,
                        requested, in_service, handling, r, quiet, progress>>

\* The CPU accepts the request of highest priority and the stub pushes the
\* frame: on the kernel stack from ring 3, on the stack in use from ring 0.
Accept(irq) ==
    /\ Running
    /\ Deliverable(irq)
    /\ \A other \in requested : priority(irq) <= priority(other)
    /\ r' = IF cpu.who = kmain THEN BootStack ELSE esp0
    /\ frame' = [frame EXCEPT ![r'] =
                   [who |-> cpu.who, pc |-> cpu.pc, int_no |-> 32 + irq]]
    /\ requested' = requested \ {irq}
    /\ in_service' = in_service \cup {irq} \cup
                       (IF irq >= 8 THEN {Cascade} ELSE {})
    /\ handling' = irq
    /\ UNCHANGED <<s_task_list, s_current_task_it, cpu_state, cpu, esp0, quiet,
                   progress, halted>>

\* Mutant: an iterator that stays on the first task.
advance_Stuck(it) == 1

\* ++s_current_task_it, and begin() after the last task.  The list is circular:
\* ++end() is begin().
advance(it) == IF it = Len(s_task_list) THEN 1 ELSE it + 1

\* The context in regs is saved only if a task was current: kmain's is not.
saved == IF s_current_task_it # 0
         THEN [cpu_state EXCEPT ![s_task_list[s_current_task_it]] = r]
         ELSE cpu_state

\* Mutant: esp0 is set once, for the first task.
update_tss_esp0_Once(t) == IF esp0 = BootStack THEN t ELSE esp0

\* The TSS's esp0 is the top of the kernel stack of the task to run.
update_tss_esp0(t) == t

\* A controller ends the interrupt of highest priority it has in service.
EndFirst(lines) == {s \in in_service \cap lines :
                      \A o \in in_service \cap lines : priority(s) <= priority(o)}
Master == 0 .. 7
Slave == 8 .. 15

\* Mutant: the second controller is told only of lines above 8.
after_eoi_Above8(int_no) ==
    in_service \ ((IF int_no > 40 THEN EndFirst(Slave) ELSE {}) \cup EndFirst(Master))

\* The lines in service after the EOIs that irq_handler sends.
after_eoi(int_no) ==
    in_service \ ((IF int_no >= 40 THEN EndFirst(Slave) ELSE {}) \cup EndFirst(Master))

\* irq_handler when the handler returns the frame it was given.  EOI goes by
\* the int_no of the returned frame; iret resumes the context it holds.
Return == /\ in_service' = after_eoi(frame[r].int_no)
          /\ cpu' = [who |-> frame[r].who, pc |-> frame[r].pc]
          /\ handling' = NoIrq
          /\ UNCHANGED <<s_task_list, s_current_task_it, cpu_state, frame, esp0,
                         requested, r, quiet, progress, halted>>

\* irq_handler when scheduler::next switches to another task.
Switch ==
    /\ s_task_list # <<>>
    /\ cpu_state' = saved
    /\ s_current_task_it' = advance(s_current_task_it)
    /\ LET t == s_task_list[s_current_task_it']
           f == frame[cpu_state'[t]]
       IN  /\ esp0' = update_tss_esp0(t)
           /\ in_service' = after_eoi(f.int_no)
           /\ cpu' = [who |-> f.who, pc |-> f.pc]
    /\ handling' = NoIrq
    /\ UNCHANGED <<s_task_list, frame, requested, r, quiet, progress, halted>>

\* The handlers: scheduler::next on line 0; syscall_handler on line 3, where a
\* device's interrupt finds any value in eax, also the number of Yield; the
\* others return the frame they got.
handle_timer == handling = Timer /\ (IF s_task_list = <<>> THEN Return ELSE Switch)
handle_line3 == handling = SyscallIrq /\ (Return \/ Switch)
handle_other == handling \notin {NoIrq, Timer, SyscallIrq} /\ Return

irq_handler == handle_timer \/ handle_line3 \/ handle_other

\* fault_handler's for(;;).
Halt == halted /\ UNCHANGED vars

Next == \/ \E irq \in Irqs : Raise(irq) \/ Accept(irq)
        \/ Step \/ new_task \/ Yield \/ irq_handler \/ Halt

Spec == Init /\ [][Next]_vars

\* The CPU keeps executing, takes interrupts and finishes handlers; the timer
\* keeps ticking.  Other devices may be silent.
Fairness == /\ WF_vars(Step)
            /\ WF_vars(\E irq \in Irqs : Accept(irq))
            /\ WF_vars(irq_handler)
            /\ WF_vars(Raise(Timer))

FairSpec == Spec /\ Fairness

-----------------------------------------------------------------------------
\* The variables range over tasks, stacks, frames and lines.
TypeOK ==
    /\ s_task_list = [i \in 1 .. Len(s_task_list) |-> i]
    /\ s_current_task_it \in 0 .. Len(s_task_list)
    /\ cpu_state \in [Task -> Stack]
    /\ frame \in [Stack -> Frame]
    /\ cpu \in [who : Context, pc : 0 .. (PcMod - 1)]
    /\ esp0 \in Stack
    /\ requested \subseteq Irqs
    /\ in_service \subseteq Irqs \cup {Cascade}
    /\ handling \in Irqs \cup {NoIrq}
    /\ r \in Stack
    /\ halted \in BOOLEAN

Created == {s_task_list[i] : i \in 1 .. Len(s_task_list)}

\* While a task runs, the CPU would push its frame on the task's own kernel
\* stack: no task's interrupt frame lands on the stack of another.
OwnKernelStack == (Running /\ cpu.who # kmain) => esp0 = cpu.who

\* A task that does not run will resume exactly where it was interrupted: the
\* frame its cpu_state points to has not been overwritten since.
ResumesWhereInterrupted ==
    \A t \in Created : cpu.who # t =>
        LET f == frame[cpu_state[t]]
        IN  f.who = t /\ f.pc = progress[t]

\* Every task that was created runs, again and again, unless the kernel halts.
EveryTaskRuns ==
    \A t \in Task : [](t \in Created => <>((cpu.who = t /\ Running) \/ halted))

\* Every request is handled: "If you don't send an EOI, you won't raise any
\* more IRQs" does not happen.
EveryRequestHandled ==
    \A irq \in Irqs : (irq \in requested) ~> (handling = irq \/ halted)
=============================================================================
