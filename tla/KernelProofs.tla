---------------------------- MODULE KernelProofs ----------------------------
(***************************************************************************)
(* Proofs about what the kernel's core does with the CPU.                  *)
(*                                                                         *)
(* Scheduler: for any number of tasks and any lines, each task's           *)
(* interrupts use its own kernel stack, and a task that was preempted      *)
(* resumes where it was interrupted.  A context, its position in the task  *)
(* list and its kernel stack are the same number, 0 for kmain, end() and   *)
(* the boot stack.  The invariant says that the three that belong together *)
(* are in step at every moment: s_current_task_it, esp0 and, while a       *)
(* handler runs, the stack of the frame it was given.                      *)
(*                                                                         *)
(* InterruptEntry, as composed in Support: at any depth of interruptions,  *)
(* a handler finds the registers of the code it interrupted in cpu_state,  *)
(* and they are given back.  The invariant says what every word of the     *)
(* kernel stack is: one frame for each interruption under way.             *)
(*                                                                         *)
(* ByteLoops, as composed in Support: for blocks, strings and screens of   *)
(* any size, each loop does its work.  The invariant says how much of its  *)
(* destination a call has written so far, and with what.                   *)
(*                                                                         *)
(* Startup, as composed in Support: for every drive the CMOS may name and  *)
(* any capacity of the table of destructors, nothing is used before it is  *)
(* set up.  The invariant says what is set up before each call of kmain.   *)
(***************************************************************************)
EXTENDS Scheduler, Support, WellFoundedInduction, TLAPS

-----------------------------------------------------------------------------
Types ==
    /\ s_task_list \in Seq(Task)
    /\ Len(s_task_list) <= NumTasks
    /\ \A i \in 1 .. Len(s_task_list) : s_task_list[i] = i
    /\ s_current_task_it \in 0 .. Len(s_task_list)
    /\ cpu_state \in [Task -> Stack]
    /\ frame \in [Stack -> Frame]
    /\ cpu \in [who : Context, pc : 0 .. (PcMod - 1)]
    /\ esp0 \in Stack
    /\ requested \subseteq Irqs
    /\ in_service \subseteq Irqs \cup {Cascade}
    /\ handling \in Irqs \cup {NoIrq}
    /\ r \in Stack
    /\ progress \in [Context -> 0 .. (PcMod - 1)]
    /\ halted \in BOOLEAN

\* The CPU runs the current task, or kmain while there is none, and the TSS names
\* the stack of the one that runs.
InStep == cpu.who = s_current_task_it /\ esp0 = s_current_task_it

\* A task's saved frame lies on its own kernel stack.
StatesOnOwnStack == \A t \in Task : cpu_state[t] = t

\* A handler was given the frame of the context it interrupted, on the stack of
\* that context, and nothing has been executed since.
HandlersFrame ==
    handling # NoIrq => r = cpu.who /\ frame[r].who = cpu.who /\ frame[r].pc = cpu.pc

\* The frames of the tasks that wait say where these have got.
WaitingFrames ==
    \A t \in 1 .. Len(s_task_list) :
        t # cpu.who => frame[t].who = t /\ frame[t].pc = progress[t]

\* The running context is where it has got, tasks to come have not begun.
Progress == /\ cpu.pc = progress[cpu.who]
            /\ \A t \in Task : t > Len(s_task_list) => progress[t] = 0

IInv == Types /\ InStep /\ StatesOnOwnStack /\ HandlersFrame /\ WaitingFrames /\ Progress

-----------------------------------------------------------------------------
\* What the clock of a context counts to stays in range.
LEMMA ClockInRange == \A n \in Int : (n + 1) % PcMod \in 0 .. (PcMod - 1)
BY SchedulerAssumption

\* ++s_current_task_it of a list that is not empty is a task of the list.
LEMMA AdvanceStaysInList ==
    ASSUME Types, s_task_list # <<>>
    PROVE  advance(s_current_task_it) \in 1 .. Len(s_task_list)
<1>1. Len(s_task_list) \in Nat /\ Len(s_task_list) # 0
  BY DEF Types
<1> QED
  BY <1>1 DEF Types, advance

\* EOIs only take lines out of service.
LEMMA EoiShrinks == \A n : after_eoi(n) \subseteq in_service
BY DEF after_eoi

LEMMA InitIInv == Init => IInv
<1> SUFFICES ASSUME Init PROVE IInv
  OBVIOUS
<1>1. Len(s_task_list) = 0 /\ s_task_list \in Seq(Task)
  BY DEF Init
<1>2. 0 \in 0 .. (PcMod - 1)
  BY SchedulerAssumption
<1>3. frame \in [Stack -> Frame]
  BY <1>2 DEF Init, Frame, Context, Stack, kmain, Leftover
<1>4. Types
  <2>1. \A i \in 1 .. Len(s_task_list) : s_task_list[i] = i
    BY <1>1
  <2>2. cpu_state \in [Task -> Stack] /\ progress \in [Context -> 0 .. (PcMod - 1)]
    BY <1>2 DEF Init, Stack
  <2>3. cpu \in [who : Context, pc : 0 .. (PcMod - 1)]
    BY <1>2 DEF Init, Context
  <2>4. Len(s_task_list) <= NumTasks /\ s_current_task_it \in 0 .. Len(s_task_list)
    BY <1>1, SchedulerAssumption DEF Init
  <2>5. esp0 \in Stack /\ r \in Stack /\ handling \in Irqs \cup {NoIrq} /\ halted \in BOOLEAN
    BY DEF Init, Stack
  <2>6. requested \subseteq Irqs /\ in_service \subseteq Irqs \cup {Cascade}
    BY DEF Init
  <2> QED
    BY <1>1, <1>3, <2>1, <2>2, <2>3, <2>4, <2>5, <2>6 DEF Types
<1>5. InStep /\ StatesOnOwnStack /\ HandlersFrame
  BY DEF Init, InStep, StatesOnOwnStack, HandlersFrame, kmain, BootStack
<1>6. WaitingFrames /\ Progress
  BY <1>1 DEF Init, WaitingFrames, Progress, Task, Context, kmain
<1> QED
  BY <1>4, <1>5, <1>6 DEF IInv

\* A device changes nothing but its line.
LEMMA RaiseKeeps ==
    ASSUME IInv, NEW irq \in Irqs, Raise(irq)
    PROVE  IInv'
BY DEF IInv, Types, InStep, StatesOnOwnStack, HandlersFrame, WaitingFrames, Progress, Raise

LEMMA StepKeeps == ASSUME IInv, Step PROVE IInv'
<1> USE DEF IInv
<1>1. Types'
  <2>1. cpu.pc \in Int /\ progress[cpu.who] \in Int
    BY SchedulerAssumption DEF Types
  <2>2. cpu' \in [who : Context, pc : 0 .. (PcMod - 1)]
    BY <2>1, ClockInRange DEF Types, Step
  <2>3. progress' \in [Context -> 0 .. (PcMod - 1)]
    BY <2>1, ClockInRange DEF Types, Step
  <2> QED
    BY <2>2, <2>3 DEF Types, Step
<1>2. InStep' /\ StatesOnOwnStack'
  BY DEF Types, InStep, StatesOnOwnStack, Step
<1>3. HandlersFrame'
  BY DEF HandlersFrame, Step, Undisturbed, Running
<1>4. WaitingFrames'
  BY DEF Types, WaitingFrames, Step, Context, Task, kmain
<1>5. Progress'
  <2>1. cpu'.who = cpu.who /\ cpu'.pc = (cpu.pc + 1) % PcMod
    BY DEF Types, Step
  <2>2. progress'[cpu.who] = (progress[cpu.who] + 1) % PcMod
    BY DEF Types, Step
  <2>3. \A t \in Task : t > Len(s_task_list) => t # cpu.who
    BY DEF Types, InStep, Task
  <2> QED
    BY <2>1, <2>2, <2>3 DEF Types, Progress, Step, Context
<1> QED
  BY <1>1, <1>2, <1>3, <1>4, <1>5

LEMMA NewTaskKeeps == ASSUME IInv, new_task PROVE IInv'
<1> DEFINE t == Len(s_task_list) + 1
<1> USE DEF IInv
<1>1. t \in Task /\ t \in Stack /\ t \in Context
  BY SchedulerAssumption DEF Types, new_task, Task, Stack, Context
<1>2. s_task_list' = Append(s_task_list, t) /\ Len(s_task_list') = t
  BY DEF Types, new_task
<1>3. \A i \in 1 .. t : s_task_list'[i] = i
  BY <1>2 DEF Types
<1>4. PICK garbage \in Leftover : frame' = [frame EXCEPT ![t] = [who |-> t, pc |-> 0, int_no |-> garbage]]
  BY DEF new_task
<1>5. cpu.who = 0 /\ cpu' = cpu /\ handling = NoIrq /\ handling' = NoIrq
  BY DEF new_task, Undisturbed, Running, kmain
<1>6. [who |-> t, pc |-> 0, int_no |-> garbage] \in Frame
  BY <1>1, SchedulerAssumption DEF Frame
<1>7. Types'
  <2>1. s_task_list' \in Seq(Task) /\ Len(s_task_list') <= NumTasks
    BY <1>1, <1>2 DEF Types, Task
  <2>2. cpu_state' \in [Task -> Stack]
    BY <1>1 DEF Types, new_task
  <2>3. frame' \in [Stack -> Frame]
    BY <1>1, <1>4, <1>6 DEF Types
  <2>4. s_current_task_it' \in 0 .. Len(s_task_list')
    BY <1>2 DEF Types, new_task
  <2> QED
    BY <1>2, <1>3, <2>1, <2>2, <2>3, <2>4 DEF Types, new_task
<1>8. InStep' /\ StatesOnOwnStack' /\ HandlersFrame'
  BY <1>1, <1>5 DEF Types, InStep, StatesOnOwnStack, HandlersFrame, new_task
<1>9. WaitingFrames'
  BY <1>1, <1>2, <1>4, <1>5 DEF Types, WaitingFrames, Progress, Stack, Task, new_task
<1>10. Progress'
  BY <1>2, <1>5 DEF Types, Progress, Task, new_task
<1> QED
  BY <1>7, <1>8, <1>9, <1>10

\* A fault stops everything and changes nothing else.
LEMMA YieldKeeps == ASSUME IInv, Yield PROVE IInv'
BY DEF IInv, Types, InStep, StatesOnOwnStack, HandlersFrame, WaitingFrames, Progress, Yield

\* The frame is pushed on the stack of the context that is interrupted.
LEMMA AcceptKeeps ==
    ASSUME IInv, NEW irq \in Irqs, Accept(irq)
    PROVE  IInv'
<1> USE DEF IInv
<1>1. r' = cpu.who
  BY DEF Types, InStep, Accept, Context, kmain, BootStack
<1>2. cpu.who \in Stack /\ cpu.who \in Context /\ cpu' = cpu
  BY DEF Types, Accept, Context, Stack, kmain, BootStack
<1>3. frame' = [frame EXCEPT ![cpu.who] = [who |-> cpu.who, pc |-> cpu.pc, int_no |-> 32 + irq]]
  BY <1>1 DEF Accept
<1>4. [who |-> cpu.who, pc |-> cpu.pc, int_no |-> 32 + irq] \in Frame
  BY <1>2, SchedulerAssumption DEF Types, Frame
<1>5. Types'
  BY <1>1, <1>2, <1>3, <1>4 DEF Types, Accept
<1>6. InStep' /\ StatesOnOwnStack'
  BY DEF InStep, StatesOnOwnStack, Accept
<1>7. HandlersFrame'
  BY <1>1, <1>2, <1>3 DEF Types, HandlersFrame
<1>8. WaitingFrames'
  BY <1>2, <1>3 DEF Types, WaitingFrames, Accept, Stack, Task
<1>9. Progress'
  BY DEF Progress, Accept
<1> QED
  BY <1>5, <1>6, <1>7, <1>8, <1>9

\* iret resumes the context that was interrupted.
LEMMA ReturnKeeps == ASSUME IInv, handling # NoIrq, Return PROVE IInv'
<1> USE DEF IInv
<1>1. cpu' = cpu
  BY DEF Types, HandlersFrame, Return
<1>2. Types'
  BY <1>1, EoiShrinks DEF Types, Return
<1> QED
  BY <1>1, <1>2 DEF InStep, StatesOnOwnStack, HandlersFrame, WaitingFrames, Progress, Return

\* Another task: the frame of the one that ran is where WaitingFrames wants it.
LEMMA SwitchKeeps == ASSUME IInv, handling # NoIrq, Switch PROVE IInv'
<1> DEFINE t == advance(s_current_task_it)
<1> USE DEF IInv
<1>1. t \in 1 .. Len(s_task_list) /\ t \in Task /\ t \in Stack /\ t \in Context
  BY AdvanceStaysInList, SchedulerAssumption DEF Types, Switch, Task, Stack, Context
<1>2. cpu_state' = cpu_state
  BY DEF Types, InStep, HandlersFrame, StatesOnOwnStack, Switch, saved, Task
<1>3. s_current_task_it' = t /\ s_task_list[t] = t /\ cpu_state'[t] = t
  BY <1>1, <1>2 DEF Types, StatesOnOwnStack, Switch
<1>4. esp0' = t /\ in_service' = after_eoi(frame[t].int_no) /\ cpu' = [who |-> frame[t].who, pc |-> frame[t].pc]
  BY <1>3 DEF Switch, update_tss_esp0
<1>5. frame[t].who = t /\ frame[t].pc = progress[t]
  BY <1>1 DEF WaitingFrames, HandlersFrame, Progress
<1>6. cpu' = [who |-> t, pc |-> progress[t]]
  BY <1>4, <1>5
<1>7. handling' = NoIrq
  BY DEF Switch
<1>8. Types'
  BY <1>1, <1>2, <1>3, <1>4, <1>6, <1>7, EoiShrinks DEF Types, Switch
<1>9. InStep' /\ StatesOnOwnStack' /\ HandlersFrame'
  BY <1>2, <1>3, <1>4, <1>6, <1>7 DEF InStep, StatesOnOwnStack, HandlersFrame
<1>10. WaitingFrames'
  <2> SUFFICES ASSUME NEW u \in 1 .. Len(s_task_list), u # t
               PROVE  frame[u].who = u /\ frame[u].pc = progress[u]
    BY <1>6 DEF WaitingFrames, Switch
  <2>1. CASE u = cpu.who
    BY <2>1 DEF HandlersFrame, Progress
  <2>2. CASE u # cpu.who
    BY <2>2 DEF WaitingFrames
  <2> QED
    BY <2>1, <2>2
<1>11. Progress'
  BY <1>6 DEF Progress, Switch
<1> QED
  BY <1>8, <1>9, <1>10, <1>11

LEMMA NextIInv == IInv /\ [Next]_vars => IInv'
<1> SUFFICES ASSUME IInv, [Next]_vars PROVE IInv'
  OBVIOUS
<1>1. CASE \E irq \in Irqs : Raise(irq) \/ Accept(irq)
  BY <1>1, RaiseKeeps, AcceptKeeps
<1>2. CASE Step
  BY <1>2, StepKeeps
<1>3. CASE new_task
  BY <1>3, NewTaskKeeps
<1>4. CASE Yield
  BY <1>4, YieldKeeps
<1>5. CASE irq_handler
  <2>1. handling # NoIrq /\ (Return \/ Switch)
    BY <1>5 DEF irq_handler, handle_timer, handle_line3, handle_other, Timer, SyscallIrq, NoIrq
  <2> QED
    BY <2>1, ReturnKeeps, SwitchKeeps
<1>6. CASE UNCHANGED vars
  BY <1>6 DEF IInv, Types, InStep, StatesOnOwnStack, HandlersFrame, WaitingFrames, Progress, vars
<1> QED
  BY <1>1, <1>2, <1>3, <1>4, <1>5, <1>6 DEF Next, Halt

\* Every state the scheduler reaches satisfies the invariant.
THEOREM Invariance == Spec => []IInv
BY InitIInv, NextIInv, PTL DEF Spec

-----------------------------------------------------------------------------
\* The variables range over tasks, stacks, frames and lines.
THEOREM TypeCorrect == Spec => []TypeOK
<1>1. IInv => TypeOK
  BY DEF IInv, Types, TypeOK
<1> QED
  BY <1>1, Invariance, PTL

\* scheduler::next and update_tss_esp0: while a task runs, the CPU would push its
\* frame on the task's own kernel stack.
THEOREM TasksUseOwnStack == Spec => []OwnKernelStack
<1>1. IInv => OwnKernelStack
  BY DEF IInv, InStep, OwnKernelStack
<1> QED
  BY <1>1, Invariance, PTL

\* irq_handler and scheduler::next: a task that was preempted resumes where it was
\* interrupted; its saved frame has not been overwritten.
THEOREM TasksResume == Spec => []ResumesWhereInterrupted
<1>1. IInv => ResumesWhereInterrupted
  BY SchedulerAssumption
  DEF IInv, Types, StatesOnOwnStack, WaitingFrames, ResumesWhereInterrupted, Created, Task
<1> QED
  BY <1>1, Invariance, PTL

-----------------------------------------------------------------------------
\* The entry of interrupts: what the stack holds of every interruption.

Word == (Entry!Registers \cup {"selector", "height", "user_stack", "kmain", "int_no", "error"})
            \X Int
Interruption == [vector : Entry!Exceptions \cup 32 .. 47,
                 error : {<<>>, <<<<"error", 0>>>>, <<<<"error", 1>>>>}]

\* The height of the stack when so many interruptions are under way.
StackHeight(depth) ==
    (IF e_user THEN 0 ELSE 2) + 17 * depth + (IF e_user /\ depth > 0 THEN 2 ELSE 0)

\* The registers at that depth.
RegistersAt(depth) ==
    IF depth = 0 /\ e_user
    THEN Entry!Code(0, Entry!UserCode, Entry!UserData, <<"user_stack", 0>>)
    ELSE Entry!Code(depth, Entry!KernelCode, Entry!KernelData, <<"height", StackHeight(depth)>>)

ErrorWord(interruption) ==
    IF interruption.error = <<>> THEN <<"error", 0>> ELSE interruption.error[1]

\* The words of a frame downwards from its top, as cpu_state names them.
FrameAt(stack, top, interrupted, interruption) ==
    /\ stack[top] = interrupted["gs"]
    /\ stack[top - 1] = interrupted["fs"]
    /\ stack[top - 2] = interrupted["es"]
    /\ stack[top - 3] = interrupted["ds"]
    /\ stack[top - 4] = interrupted["edi"]
    /\ stack[top - 5] = interrupted["esi"]
    /\ stack[top - 6] = interrupted["ebp"]
    /\ stack[top - 8] = interrupted["ebx"]
    /\ stack[top - 9] = interrupted["edx"]
    /\ stack[top - 10] = interrupted["ecx"]
    /\ stack[top - 11] = interrupted["eax"]
    /\ stack[top - 12] = <<"int_no", interruption.vector>>
    /\ stack[top - 13] = ErrorWord(interruption)
    /\ stack[top - 14] = interrupted["eip"]
    /\ stack[top - 15] = interrupted["cs"]
    /\ stack[top - 16] = interrupted["eflags"]

\* Ring 3's stack is below the frame of the first interruption of a task.
TaskStackAt(stack, top, interrupted) ==
    stack[top - 17] = interrupted["esp"] /\ stack[top - 18] = interrupted["ss"]

EntryTypes ==
    /\ e_user \in BOOLEAN
    /\ e_stack \in Seq(Word)
    /\ e_running \in Seq(Interruption)

\* Each interruption has saved the registers of the code it interrupted.
Frames ==
    /\ Len(e_stack) = StackHeight(Len(e_running))
    /\ e_cpu = RegistersAt(Len(e_running))
    /\ \A k \in 1 .. Len(e_running) :
           FrameAt(e_stack, StackHeight(k), RegistersAt(k - 1), e_running[k])
    /\ e_user /\ e_running # <<>> => TaskStackAt(e_stack, StackHeight(1), RegistersAt(0))

\* A kernel that has halted has named the exception it was in.
Named ==
    e_message # "none" =>
        e_running # <<>> /\ <<e_running[Len(e_running)].vector, e_message>> \in Entry!Meaning

EntryInv == EntryTypes /\ Frames /\ Named

-----------------------------------------------------------------------------
LEMMA ExceptionNumbers ==
    Entry!Exceptions = {0, 1, 3, 4, 5, 6, 7, 8, 10, 11, 12, 13, 14, 16}
<1>1. ASSUME NEW v \in Entry!Exceptions
      PROVE  v \in {0, 1, 3, 4, 5, 6, 7, 8, 10, 11, 12, 13, 14, 16}
  <2>1. PICK m \in Entry!Meaning : v = m[1]
    BY DEF Entry!Exceptions
  <2> QED
    BY <2>1 DEF Entry!Meaning
<1>2. ASSUME NEW v \in {0, 1, 3, 4, 5, 6, 7, 8, 10, 11, 12, 13, 14, 16}
      PROVE  v \in Entry!Exceptions
  <2>1. PICK name : <<v, name>> \in Entry!Meaning
    BY DEF Entry!Meaning
  <2> QED
    BY <2>1 DEF Entry!Exceptions
<1> QED
  BY <1>1, <1>2

\* The message of an exception says what it means.
LEMMA MessagesMean ==
    ASSUME NEW v \in Entry!Exceptions
    PROVE  <<v, Entry!exception_messages[v + 1]>> \in Entry!Meaning
BY ExceptionNumbers DEF Entry!Meaning, Entry!exception_messages

\* Division by a number that is not known.
LEMMA Quotients ==
    ASSUME NEW a \in Nat, NEW n \in Nat, n > 0
    PROVE  /\ a \div n \in Nat /\ a % n \in Nat
           /\ a = n * (a \div n) + (a % n)
           /\ a < n * n => a \div n < n
           /\ a < n => a % n = a
BY Z3

\* An address below the square of HalfSize comes out of a gate as it went in.
LEMMA GateHoldsAddress ==
    ASSUME NEW a \in Nat, a < HalfSize * HalfSize
    PROVE  LET gate == Entry!set_gate(a) IN gate.base_lo + gate.base_hi * HalfSize = a
<1> DEFINE q == a \div HalfSize
<1>1. HalfSize \in Nat /\ HalfSize > 0
  BY HalfSizeAssumption
<1>2. q \in Nat /\ a % HalfSize \in Nat /\ a = HalfSize * q + (a % HalfSize) /\ q < HalfSize
  BY <1>1, Quotients
<1>3. q % HalfSize = q
  BY <1>1, <1>2, Quotients
<1>4. (a % HalfSize) + q * HalfSize = a
  <2> HIDE DEF q
  <2> QED
    BY <1>1, <1>2
<1> QED
  BY <1>3, <1>4 DEF Entry!set_gate

LEMMA StubIsReached ==
    ASSUME NEW v \in 0 .. 47
    PROVE  Entry!stub_of(v) = v
<1>1. ASSUME NEW s \in 0 .. 47
      PROVE  Entry!s_idt[s].base_lo + Entry!s_idt[s].base_hi * HalfSize = 3 + 5 * s
  <2>1. Entry!stub_address(s) = 3 + 5 * s /\ Entry!stub_address(s) < HalfSize * HalfSize
    BY HalfSizeAssumption DEF Entry!Vectors, Entry!stub_address
  <2>2. Entry!s_idt[s] = Entry!set_gate(Entry!stub_address(s))
    BY DEF Entry!s_idt, Entry!Vectors
  <2> QED
    BY <2>1, <2>2, GateHoldsAddress
<1> QED
  BY <1>1 DEF Entry!stub_of, Entry!stub_address, Entry!Vectors

LEMMA Rings ==
    /\ Entry!Ring(Entry!KernelCode) = 0
    /\ Entry!Ring(Entry!UserCode) = 3
BY DEF Entry!Ring, Entry!KernelCode, Entry!UserCode, Entry!gdt_access, Entry!PRESENT,
       Entry!RING_3, Entry!CODE_SEG, Entry!DATA_SEG, Entry!TSS

LEMMA FieldIndexes ==
    /\ Entry!Index("edi") = 5 /\ Entry!Index("esi") = 6 /\ Entry!Index("ebp") = 7
    /\ Entry!Index("ebx") = 9 /\ Entry!Index("edx") = 10 /\ Entry!Index("ecx") = 11
    /\ Entry!Index("eax") = 12 /\ Entry!Index("int_no") = 13 /\ Entry!Index("err_code") = 14
    /\ Entry!Index("eip") = 15 /\ Entry!Index("eflags") = 17
    /\ Entry!Index("useresp") = 18 /\ Entry!Index("ss") = 19
BY DEF Entry!Index, Entry!cpu_state

\* The registers at any depth.
LEMMA RegistersKnown ==
    ASSUME NEW d \in Nat, e_user \in BOOLEAN
    PROVE  LET regs == RegistersAt(d)
               task == d = 0 /\ e_user
           IN  /\ DOMAIN regs = Entry!Registers
               /\ \A g \in Entry!General \cup {"eip", "eflags"} : regs[g] = <<g, d>>
               /\ \A g \in Entry!Segments \cup {"ss"} :
                      regs[g] = <<"selector", IF task THEN Entry!UserData ELSE Entry!KernelData>>
               /\ regs["cs"] = <<"selector", IF task THEN Entry!UserCode ELSE Entry!KernelCode>>
               /\ regs["esp"] = IF task THEN <<"user_stack", 0>> ELSE <<"height", StackHeight(d)>>
BY DEF RegistersAt, Entry!Code, Entry!Registers, Entry!General, Entry!Segments, Entry!Selector

\* The kernel's stack and its segment.
LEMMA KernelRegisters ==
    ASSUME NEW d \in Nat, e_user \in BOOLEAN, ~(d = 0 /\ e_user)
    PROVE  /\ RegistersAt(d)["esp"] = <<"height", StackHeight(d)>>
           /\ RegistersAt(d)["ss"] = <<"selector", Entry!KernelData>>
BY RegistersKnown DEF Entry!Segments

LEMMA RegistersAreWords ==
    ASSUME NEW d \in Nat, e_user \in BOOLEAN, NEW g \in Entry!Registers
    PROVE  RegistersAt(d)[g] \in Word
<1>1. StackHeight(d) \in Int
  BY DEF StackHeight
<1> DEFINE regs == RegistersAt(d)
<1>2. CASE g \in Entry!General \cup {"eip", "eflags"}
  <2>1. regs[g] = <<g, d>>
    BY <1>2, RegistersKnown
  <2> QED
    BY <2>1 DEF Word
<1>3. CASE g \in Entry!Segments \cup {"ss", "cs"}
  <2>1. PICK n \in {Entry!UserData, Entry!KernelData, Entry!UserCode, Entry!KernelCode} :
            regs[g] = <<"selector", n>>
    BY <1>3, RegistersKnown
  <2>2. n \in Int
    BY DEF Entry!UserData, Entry!KernelData, Entry!UserCode, Entry!KernelCode
  <2> QED
    BY <2>1, <2>2 DEF Word
<1>4. CASE g = "esp"
  <2>1. regs[g] = <<"user_stack", 0>> \/ regs[g] = <<"height", StackHeight(d)>>
    BY <1>4, RegistersKnown
  <2> QED
    BY <1>1, <2>1 DEF Word
<1> QED
  BY <1>2, <1>3, <1>4 DEF Entry!Registers

LEMMA EntryInitial == Entry!Init => EntryInv
<1> SUFFICES ASSUME Entry!Init PROVE EntryInv
  OBVIOUS
<1>1. e_user \in BOOLEAN /\ e_running = <<>> /\ e_message = "none"
  BY DEF Entry!Init
<1>2. e_cpu = RegistersAt(0)
  BY <1>1 DEF Entry!Init, RegistersAt, StackHeight
<1>3. e_stack \in Seq(Word) /\ Len(e_stack) = StackHeight(0)
  <2>1. CASE e_user
    BY <2>1 DEF Entry!Init, StackHeight
  <2>2. CASE ~e_user
    <3>1. <<"kmain", 1>> \in Word /\ <<"kmain", 2>> \in Word
      BY DEF Word
    <3> QED
      BY <2>2, <3>1 DEF Entry!Init, StackHeight
  <2> QED
    BY <1>1, <2>1, <2>2
<1> QED
  BY <1>1, <1>2, <1>3 DEF EntryInv, EntryTypes, Frames, Named

-----------------------------------------------------------------------------
\* A sequence consists of the words of four others.
Joins(all, s, t, u, v) ==
    /\ all \in Seq(Word)
    /\ Len(all) = Len(s) + Len(t) + Len(u) + Len(v)
    /\ \A n \in 1 .. Len(s) : all[n] = s[n]
    /\ \A n \in 1 .. Len(t) : all[Len(s) + n] = t[n]
    /\ \A n \in 1 .. Len(u) : all[Len(s) + Len(t) + n] = u[n]
    /\ \A n \in 1 .. Len(v) : all[Len(s) + Len(t) + Len(u) + n] = v[n]

LEMMA Concatenation ==
    ASSUME NEW s \in Seq(Word), NEW t \in Seq(Word), NEW u \in Seq(Word), NEW v \in Seq(Word)
    PROVE  Joins(s \o t \o u \o v, s, t, u, v)
BY DEF Joins

\* A part of a sequence holds the words of another.
Holds(all, from, part, length) == \A n \in 1 .. length : all[from + n] = part[n]

\* Where the three parts of a frame are, counted from its top.
LEMMA RegistersFromTop ==
    ASSUME NEW all, NEW part, NEW top \in Int, NEW from \in Int, from = top - 12,
           Holds(all, from, part, 12)
    PROVE  /\ all[top] = part[12] /\ all[top - 1] = part[11] /\ all[top - 2] = part[10]
           /\ all[top - 3] = part[9] /\ all[top - 4] = part[8] /\ all[top - 5] = part[7]
           /\ all[top - 6] = part[6] /\ all[top - 8] = part[4] /\ all[top - 9] = part[3]
           /\ all[top - 10] = part[2] /\ all[top - 11] = part[1]
BY DEF Holds

LEMMA NumbersFromTop ==
    ASSUME NEW all, NEW part, NEW top \in Int, NEW from \in Int, NEW length \in {1, 2},
           from + length = top - 12,
           Holds(all, from, part, length)
    PROVE  all[top - 12] = part[length] /\ (length = 2 => all[top - 13] = part[1])
BY DEF Holds

\* What an interruption pushes makes a frame on top of what was there.
Pushed(v, error, after) ==
    /\ v \in Entry!Exceptions \cup 32 .. 47
    /\ error \in {<<>>, <<<<"error", 0>>>>, <<<<"error", 1>>>>}
    /\ error = <<>> <=> v \notin Entry!WithErrorCode
    /\ after = e_stack \o Entry!CpuPushes(error) \o Entry!StubPushes(v) \o Entry!CommonPushes

LEMMA PushedFrame ==
    ASSUME EntryInv, NEW v, NEW error, NEW after, Pushed(v, error, after)
    PROVE  LET d == Len(e_running)
               top == StackHeight(d + 1)
           IN  /\ after \in Seq(Word) /\ Len(after) = top
               /\ \A n \in 1 .. Len(e_stack) : after[n] = e_stack[n]
               /\ FrameAt(after, top, e_cpu, [vector |-> v, error |-> error])
               /\ e_user /\ d = 0 => TaskStackAt(after, top, e_cpu)
<1> DEFINE d == Len(e_running)
           first == Entry!CpuPushes(error)
           second == Entry!StubPushes(v)
           third == Entry!CommonPushes
           a == Len(e_stack)
           b == a + Len(first)
           c == b + Len(second)
<1>1. /\ EntryTypes /\ Frames /\ d \in Nat /\ e_user \in BOOLEAN
      /\ a = StackHeight(d) /\ e_cpu = RegistersAt(d)
  BY DEF EntryInv, EntryTypes, Frames
<1>2. \A g \in Entry!Registers : e_cpu[g] \in Word
  BY <1>1, RegistersAreWords DEF EntryTypes
<1>3. Entry!Ring(e_cpu["cs"][2]) = IF d = 0 /\ e_user THEN 3 ELSE 0
  <2>1. e_cpu["cs"] = <<"selector", IF d = 0 /\ e_user THEN Entry!UserCode ELSE Entry!KernelCode>>
    BY <1>1, RegistersKnown DEF EntryTypes
  <2>2. CASE d = 0 /\ e_user
    BY <2>1, <2>2, Rings
  <2>3. CASE ~(d = 0 /\ e_user)
    BY <2>1, <2>3, Rings
  <2> QED
    BY <2>2, <2>3
<1>4. third \in Seq(Word) /\ Len(third) = 12
  <2>1. <<"esp", 0>> \in Word
    BY DEF Word, Entry!Registers
  <2> QED
    BY <1>2, <2>1 DEF Entry!CommonPushes, Entry!Registers, Entry!General, Entry!Segments
<1>5. /\ third[12] = e_cpu["gs"] /\ third[11] = e_cpu["fs"] /\ third[10] = e_cpu["es"]
      /\ third[9] = e_cpu["ds"] /\ third[8] = e_cpu["edi"] /\ third[7] = e_cpu["esi"]
      /\ third[6] = e_cpu["ebp"] /\ third[4] = e_cpu["ebx"] /\ third[3] = e_cpu["edx"]
      /\ third[2] = e_cpu["ecx"] /\ third[1] = e_cpu["eax"]
  BY DEF Entry!CommonPushes
<1>6. v \in Entry!WithErrorCode <=> v \in Entry!isr_stub_e
  BY DEF Entry!WithErrorCode, Entry!isr_stub_e
<1>7. /\ second \in Seq(Word)
      /\ Len(second) = IF error = <<>> THEN 2 ELSE 1
      /\ second[Len(second)] = <<"int_no", v>>
      /\ error = <<>> => second[1] = <<"error", 0>>
  <2>1. <<"int_no", v>> \in Word /\ <<"error", 0>> \in Word
    <3>1. v \in Int
      BY ExceptionNumbers DEF Pushed
    <3> QED
      BY <3>1 DEF Word
  <2> QED
    BY <1>6, <2>1 DEF Entry!StubPushes, Pushed
<1> DEFINE user_stack == IF d = 0 /\ e_user THEN <<e_cpu["ss"], e_cpu["esp"]>> ELSE <<>>
           iret == <<e_cpu["eflags"], e_cpu["cs"], e_cpu["eip"]>>
<1>8. first = user_stack \o iret \o error
  BY <1>3 DEF Entry!CpuPushes
<1>9. user_stack \in Seq(Word) /\ iret \in Seq(Word) /\ error \in Seq(Word)
  <2>1. <<"error", 0>> \in Word /\ <<"error", 1>> \in Word
    BY DEF Word
  <2>2. error \in Seq(Word)
    <3>1. CASE error = <<>>
      BY <3>1
    <3>2. CASE error # <<>>
      <4>1. PICK w \in Word : error = <<w>>
        BY <2>1, <3>2 DEF Pushed
      <4> QED
        BY <4>1
    <3> QED
      BY <3>1, <3>2
  <2>3. user_stack \in Seq(Word) /\ iret \in Seq(Word)
    BY <1>2 DEF Entry!Registers
  <2> QED
    BY <2>2, <2>3
<1>10. /\ first \in Seq(Word)
       /\ Len(first) = Len(user_stack) + 3 + Len(error)
       /\ \A n \in 1 .. Len(user_stack) : first[n] = user_stack[n]
       /\ \A n \in 1 .. 3 : first[Len(user_stack) + n] = iret[n]
       /\ \A n \in 1 .. Len(error) : first[Len(user_stack) + 3 + n] = error[n]
  <2>1. Len(iret) = 3 /\ <<>> \in Seq(Word)
    OBVIOUS
  <2> HIDE DEF user_stack, iret, first
  <2>2. first = user_stack \o iret \o error \o <<>>
    BY <1>8, <1>9
  <2>3. Joins(first, user_stack, iret, error, <<>>)
    BY <1>9, <2>1, <2>2, Concatenation
  <2> QED
    BY <2>1, <2>3 DEF Joins
<1>11. Joins(after, e_stack, first, second, third)
  <2>1. e_stack \in Seq(Word)
    BY <1>1 DEF EntryTypes
  <2> HIDE DEF first, second, third
  <2>2. after = e_stack \o first \o second \o third
    BY DEF first, second, third, Pushed
  <2> QED
    BY <1>4, <1>7, <1>10, <2>1, <2>2, Concatenation
<1> DEFINE top == StackHeight(d + 1)
           m == Len(user_stack)
           e == Len(error)
<1>12. m = (IF d = 0 /\ e_user THEN 2 ELSE 0) /\ e = (IF error = <<>> THEN 0 ELSE 1)
  BY DEF Pushed
<1>13. a \in Nat /\ top \in Nat /\ top = a + (IF e_user /\ d = 0 THEN 19 ELSE 17)
  <2>1. d \in Nat /\ e_user \in BOOLEAN /\ a = StackHeight(d)
    BY <1>1
  <2> HIDE DEF a, d
  <2> QED
    BY <2>1 DEF StackHeight
<1>14. ErrorWord([vector |-> v, error |-> error]) = IF error = <<>> THEN <<"error", 0>> ELSE error[1]
  BY DEF ErrorWord
<1>15. /\ iret[1] = e_cpu["eflags"] /\ iret[2] = e_cpu["cs"] /\ iret[3] = e_cpu["eip"]
       /\ e_user /\ d = 0 => user_stack[1] = e_cpu["ss"] /\ user_stack[2] = e_cpu["esp"]
  OBVIOUS
<1>16. /\ after \in Seq(Word)
       /\ Len(after) = a + Len(first) + Len(second) + 12
       /\ \A n \in 1 .. a : after[n] = e_stack[n]
       /\ Holds(after, a, first, Len(first))
       /\ Holds(after, b, second, Len(second))
       /\ Holds(after, c, third, 12)
  BY <1>4, <1>11 DEF Joins, Holds
<1>17. /\ Len(first) = m + 3 + e /\ Len(second) = 2 - e
       /\ m \in {0, 2} /\ e \in {0, 1} /\ a + m = top - 17 /\ b + (2 - e) = top - 12
       /\ b \in Int /\ c \in Int /\ c = top - 12
  BY <1>7, <1>10, <1>12, <1>13
<1> HIDE DEF first, second, third, user_stack, iret, top, a, b, c, d, m, e
<1>18. /\ after[top] = third[12] /\ after[top - 1] = third[11] /\ after[top - 2] = third[10]
       /\ after[top - 3] = third[9] /\ after[top - 4] = third[8] /\ after[top - 5] = third[7]
       /\ after[top - 6] = third[6] /\ after[top - 8] = third[4] /\ after[top - 9] = third[3]
       /\ after[top - 10] = third[2] /\ after[top - 11] = third[1]
  <2>1. Holds(after, c, third, 12) /\ c \in Int /\ top \in Int /\ c = top - 12
    BY <1>13, <1>16, <1>17
  <2> QED
    BY <2>1, RegistersFromTop
<1>19. after[top - 12] = second[2 - e] /\ (e = 0 => after[top - 13] = second[1])
  <2>1. Holds(after, b, second, 2 - e)
    BY <1>16, <1>17
  <2>2. 2 - e \in {1, 2} /\ b \in Int /\ top \in Int /\ b + (2 - e) = top - 12
    BY <1>13, <1>17
  <2>3. PICK length \in {1, 2} : length = 2 - e
    BY <2>2
  <2>4. after[top - 12] = second[length] /\ (length = 2 => after[top - 13] = second[1])
    BY <2>1, <2>2, <2>3, NumbersFromTop
  <2> QED
    BY <1>17, <2>3, <2>4
<1>20. /\ e = 1 => after[top - 13] = first[m + 4]
       /\ after[top - 14] = first[m + 3] /\ after[top - 15] = first[m + 2]
       /\ after[top - 16] = first[m + 1]
       /\ m = 2 => after[top - 17] = first[2] /\ after[top - 18] = first[1]
  <2>1. Holds(after, a, first, m + 3 + e)
    BY <1>16, <1>17
  <2>2. a \in Int /\ top \in Int /\ m \in {0, 2} /\ e \in {0, 1} /\ a + m = top - 17
    BY <1>13, <1>17
  <2> QED
    BY <2>1, <2>2 DEF Holds
<1>21. /\ first[m + 1] = iret[1] /\ first[m + 2] = iret[2] /\ first[m + 3] = iret[3]
       /\ m = 2 => first[1] = user_stack[1] /\ first[2] = user_stack[2]
       /\ e = 1 => first[m + 4] = error[1]
  <2>1. e = 1 => first[m + 3 + 1] = error[1]
    BY <1>10 DEF m, e
  <2> QED
    BY <1>10, <1>17, <2>1 DEF m
<1>22. FrameAt(after, top, e_cpu, [vector |-> v, error |-> error])
  <2>1. ErrorWord([vector |-> v, error |-> error]) = after[top - 13]
    BY <1>7, <1>12, <1>14, <1>17, <1>19, <1>20, <1>21
  <2>2. after[top - 12] = <<"int_no", v>>
    BY <1>7, <1>17, <1>19
  <2> QED
    BY <1>5, <1>15, <1>18, <1>20, <1>21, <2>1, <2>2 DEF FrameAt
<1>23. e_user /\ d = 0 => TaskStackAt(after, top, e_cpu)
  BY <1>12, <1>15, <1>20, <1>21 DEF TaskStackAt
<1>24. Len(after) = top
  <2>1. Len(after) = a + Len(first) + Len(second) + 12
    BY <1>16
  <2>2. Len(after) = a + (m + 3 + e) + (2 - e) + 12
    BY <1>17, <2>1
  <2> QED
    BY <1>13, <1>17, <2>2
<1> QED
  BY <1>16, <1>22, <1>23, <1>24 DEF top, a, d

\* What lies below does not change.
Agrees(before, after, top) == \A n \in 1 .. top : after[n] = before[n]

LEMMA FrameStays ==
    ASSUME NEW before, NEW after, NEW top \in Int, top >= 17, NEW regs, NEW interruption,
           Agrees(before, after, top), FrameAt(before, top, regs, interruption)
    PROVE  FrameAt(after, top, regs, interruption)
BY DEF Agrees, FrameAt

LEMMA TaskStackStays ==
    ASSUME NEW before, NEW after, NEW top \in Int, top >= 19, NEW regs,
           Agrees(before, after, top), TaskStackAt(before, top, regs)
    PROVE  TaskStackAt(after, top, regs)
BY DEF Agrees, TaskStackAt

LEMMA EnterStep ==
    ASSUME EntryInv, NEW v \in Entry!Exceptions \cup 32 .. 47,
           NEW error \in {<<>>, <<<<"error", 0>>>>, <<<<"error", 1>>>>},
           error = <<>> <=> v \notin Entry!WithErrorCode,
           Entry!Enter(v, error)
    PROVE  EntryInv'
<1> DEFINE d == Len(e_running)
           interruption == [vector |-> v, error |-> error]
<1>1. EntryTypes /\ Frames /\ d \in Nat /\ e_user \in BOOLEAN
  BY DEF EntryInv, EntryTypes, Frames
<1>2. v \in 0 .. 47
  BY ExceptionNumbers
<1>3. /\ e_message = "none" /\ e_message' = e_message /\ e_user' = e_user
      /\ e_running' = Append(e_running, interruption)
      /\ e_stack' = e_stack \o Entry!CpuPushes(error) \o Entry!StubPushes(Entry!stub_of(v))
                            \o Entry!CommonPushes
      /\ e_cpu' = Entry!Code(d + 1, Entry!KernelCode, Entry!KernelData, <<"height", Len(e_stack')>>)
  BY DEF Entry!Enter
<1>4. Pushed(v, error, e_stack')
  BY <1>2, <1>3, StubIsReached DEF Pushed
<1>5. /\ e_stack' \in Seq(Word) /\ Len(e_stack') = StackHeight(d + 1)
      /\ \A n \in 1 .. Len(e_stack) : e_stack'[n] = e_stack[n]
      /\ FrameAt(e_stack', StackHeight(d + 1), e_cpu, interruption)
      /\ e_user /\ d = 0 => TaskStackAt(e_stack', StackHeight(d + 1), e_cpu)
  BY <1>4, PushedFrame
<1>6. /\ \A k : StackHeight(k)' = StackHeight(k)
      /\ \A k : RegistersAt(k)' = RegistersAt(k)
  BY <1>3 DEF StackHeight, RegistersAt
<1>7. /\ e_running' \in Seq(Interruption) /\ Len(e_running') = d + 1
      /\ \A k \in 1 .. d : e_running'[k] = e_running[k]
      /\ e_running'[d + 1] = interruption
  <2>1. interruption \in Interruption
    BY DEF Interruption
  <2>2. e_running \in Seq(Interruption)
    BY <1>1 DEF EntryTypes
  <2> HIDE DEF interruption
  <2> QED
    BY <1>3, <2>1, <2>2
<1>8. e_cpu' = RegistersAt(d + 1)
  BY <1>1, <1>3, <1>5 DEF RegistersAt
<1>9. e_cpu = RegistersAt(d) /\ Len(e_stack) = StackHeight(d)
  BY <1>1 DEF Frames
<1>10. ASSUME NEW k \in 1 .. d
       PROVE  FrameAt(e_stack', StackHeight(k), RegistersAt(k - 1), e_running'[k])
  <2>1. FrameAt(e_stack, StackHeight(k), RegistersAt(k - 1), e_running[k])
    BY <1>1 DEF Frames
  <2>2. StackHeight(k) \in 17 .. Len(e_stack)
    BY <1>1, <1>9 DEF StackHeight
  <2>3. Agrees(e_stack, e_stack', StackHeight(k))
    BY <1>5, <2>2 DEF Agrees
  <2>4. FrameAt(e_stack', StackHeight(k), RegistersAt(k - 1), e_running[k])
    BY <2>1, <2>2, <2>3, FrameStays
  <2> QED
    BY <1>7, <2>4
<1>11. FrameAt(e_stack', StackHeight(d + 1), RegistersAt(d + 1 - 1), e_running'[d + 1])
  BY <1>1, <1>5, <1>7, <1>9
<1>12. ASSUME e_user PROVE TaskStackAt(e_stack', StackHeight(1), RegistersAt(0))
  <2>1. CASE d = 0
    BY <1>5, <1>9, <1>12, <2>1
  <2>2. CASE d > 0
    <3>1. TaskStackAt(e_stack, StackHeight(1), RegistersAt(0))
      BY <1>1, <1>12, <2>2 DEF Frames
    <3>2. StackHeight(1) \in 19 .. Len(e_stack)
      BY <1>1, <1>9, <1>12, <2>2 DEF StackHeight
    <3>3. Agrees(e_stack, e_stack', StackHeight(1))
      BY <1>5, <3>2 DEF Agrees
    <3> QED
      BY <3>1, <3>2, <3>3, TaskStackStays
  <2> QED
    BY <1>1, <2>1, <2>2
<1>13. EntryTypes'
  BY <1>1, <1>3, <1>5, <1>7 DEF EntryTypes
<1>14. Frames'
  <2>1. ASSUME NEW k \in 1 .. Len(e_running')
        PROVE  FrameAt(e_stack', StackHeight(k)', RegistersAt(k - 1)', e_running'[k])
    <3>1. CASE k = d + 1
      BY <1>6, <1>11, <3>1
    <3>2. CASE k \in 1 .. d
      BY <1>6, <1>10, <3>2
    <3> QED
      BY <1>1, <1>7, <3>1, <3>2
  <2> QED
    BY <1>3, <1>5, <1>6, <1>7, <1>8, <1>12, <2>1 DEF Frames
<1>15. Named'
  BY <1>3 DEF Named
<1> QED
  BY <1>13, <1>14, <1>15 DEF EntryInv

\* The handler and the end of the stub read the frame of the last interruption.
LEMMA LastFrame ==
    ASSUME EntryTypes, Frames, e_running # <<>>
    PROVE  LET d == Len(e_running)
               regs == RegistersAt(d - 1)
           IN  /\ Entry!Popped(1) = regs["gs"] /\ Entry!Popped(2) = regs["fs"]
               /\ Entry!Popped(3) = regs["es"] /\ Entry!Popped(4) = regs["ds"]
               /\ Entry!Popped(5) = regs["edi"] /\ Entry!Popped(6) = regs["esi"]
               /\ Entry!Popped(7) = regs["ebp"] /\ Entry!Popped(9) = regs["ebx"]
               /\ Entry!Popped(10) = regs["edx"] /\ Entry!Popped(11) = regs["ecx"]
               /\ Entry!Popped(12) = regs["eax"]
               /\ Entry!Popped(13) = <<"int_no", e_running[d].vector>>
               /\ Entry!Popped(14) = ErrorWord(e_running[d])
               /\ Entry!Popped(15) = regs["eip"] /\ Entry!Popped(16) = regs["cs"]
               /\ Entry!Popped(17) = regs["eflags"]
               /\ e_user /\ d = 1 => /\ Entry!Popped(18) = regs["esp"]
                                     /\ Entry!Popped(19) = regs["ss"]
<1> DEFINE d == Len(e_running)
           top == StackHeight(d)
           regs == RegistersAt(d - 1)
<1>1. d \in Nat /\ d > 0 /\ e_user \in BOOLEAN
  BY DEF EntryTypes
<1>2. top \in Nat
  <2> HIDE DEF d
  <2> QED
    BY <1>1 DEF StackHeight
<1>3. Len(e_stack) = top /\ FrameAt(e_stack, top, regs, e_running[d])
  <2>1. d \in 1 .. Len(e_running)
    BY <1>1
  <2> QED
    BY <2>1 DEF Frames
<1>4. e_user /\ d = 1 => TaskStackAt(e_stack, top, regs)
  BY DEF Frames
<1>5. \A n \in 1 .. 19 : Entry!Popped(n) = e_stack[top - (n - 1)]
  <2> HIDE DEF top
  <2>1. \A n \in 1 .. 19 : top + 1 - n = top - (n - 1)
    BY <1>2
  <2> QED
    BY <1>3, <2>1 DEF Entry!Popped
<1> HIDE DEF top, regs
<1>6. e_stack[top - 0] = e_stack[top]
  BY <1>2
<1>7. /\ Entry!Popped(1) = e_stack[top] /\ Entry!Popped(2) = e_stack[top - 1]
      /\ Entry!Popped(3) = e_stack[top - 2] /\ Entry!Popped(4) = e_stack[top - 3]
      /\ Entry!Popped(5) = e_stack[top - 4] /\ Entry!Popped(6) = e_stack[top - 5]
      /\ Entry!Popped(7) = e_stack[top - 6] /\ Entry!Popped(9) = e_stack[top - 8]
      /\ Entry!Popped(10) = e_stack[top - 9] /\ Entry!Popped(11) = e_stack[top - 10]
      /\ Entry!Popped(12) = e_stack[top - 11] /\ Entry!Popped(13) = e_stack[top - 12]
      /\ Entry!Popped(14) = e_stack[top - 13] /\ Entry!Popped(15) = e_stack[top - 14]
      /\ Entry!Popped(16) = e_stack[top - 15] /\ Entry!Popped(17) = e_stack[top - 16]
      /\ Entry!Popped(18) = e_stack[top - 17] /\ Entry!Popped(19) = e_stack[top - 18]
  BY <1>5, <1>6
<1>8. e_user /\ d = 1 => Entry!Popped(18) = regs["esp"] /\ Entry!Popped(19) = regs["ss"]
  BY <1>4, <1>7 DEF TaskStackAt
<1> QED
  BY <1>3, <1>7, <1>8 DEF FrameAt, d, regs

\* A handler finds the fields of cpu_state.
LEMMA HandlerReads ==
    ASSUME EntryTypes, Frames, e_running # <<>>
    PROVE  LET d == Len(e_running) IN
           /\ Entry!int_no = e_running[d].vector
           /\ Entry!r("err_code") = ErrorWord(e_running[d])
           /\ \A g \in Entry!General \cup {"eip", "eflags"} : Entry!r(g) = <<g, d - 1>>
           /\ e_user /\ d = 1 => /\ Entry!r("useresp") = <<"user_stack", 0>>
                                 /\ Entry!r("ss") = <<"selector", Entry!UserData>>
<1> DEFINE d == Len(e_running)
           regs == RegistersAt(d - 1)
<1>1. d - 1 \in Nat /\ e_user \in BOOLEAN
  BY DEF EntryTypes
<1>2. \A g \in Entry!General \cup {"eip", "eflags"} : regs[g] = <<g, d - 1>>
  BY <1>1, RegistersKnown
<1>3. e_user /\ d = 1 => /\ regs["esp"] = <<"user_stack", 0>>
                         /\ regs["ss"] = <<"selector", Entry!UserData>>
  <2>1. SUFFICES ASSUME e_user, d = 1
                 PROVE  /\ RegistersAt(0)["esp"] = <<"user_stack", 0>>
                        /\ RegistersAt(0)["ss"] = <<"selector", Entry!UserData>>
    OBVIOUS
  <2> QED
    BY <1>1, <2>1, RegistersKnown DEF Entry!Segments
<1>4. \A f : Entry!r(f) = Entry!Popped(Entry!Index(f))
  BY DEF Entry!r, Entry!Popped
<1>5. /\ Entry!r("int_no") = Entry!Popped(13) /\ Entry!r("err_code") = Entry!Popped(14)
      /\ Entry!r("edi") = Entry!Popped(5) /\ Entry!r("esi") = Entry!Popped(6)
      /\ Entry!r("ebp") = Entry!Popped(7) /\ Entry!r("ebx") = Entry!Popped(9)
      /\ Entry!r("edx") = Entry!Popped(10) /\ Entry!r("ecx") = Entry!Popped(11)
      /\ Entry!r("eax") = Entry!Popped(12) /\ Entry!r("eip") = Entry!Popped(15)
      /\ Entry!r("eflags") = Entry!Popped(17) /\ Entry!r("useresp") = Entry!Popped(18)
      /\ Entry!r("ss") = Entry!Popped(19)
  BY <1>4, FieldIndexes
<1>6. Entry!int_no = e_running[d].vector
  BY <1>5, LastFrame DEF Entry!int_no
<1>7. \A g \in Entry!General \cup {"eip", "eflags"} : Entry!r(g) = regs[g]
  BY <1>5, LastFrame DEF Entry!General
<1> QED
  BY <1>2, <1>3, <1>5, <1>6, <1>7, LastFrame

\* The end of the stub gives back the registers and the stack of the interrupted code.
LEMMA LeaveStep ==
    ASSUME EntryInv, Entry!Leave
    PROVE  EntryInv'
<1> DEFINE d == Len(e_running)
           regs == RegistersAt(d - 1)
           words == IF Entry!Ring(Entry!Popped(16)[2]) = 3 THEN 19 ELSE 17
<1>1. /\ EntryTypes /\ Frames /\ e_user \in BOOLEAN
      /\ e_stack \in Seq(Word) /\ e_running \in Seq(Interruption)
  BY DEF EntryInv, EntryTypes
<1>2. /\ e_message = "none" /\ e_message' = e_message /\ e_user' = e_user
      /\ e_running # <<>> /\ e_running' = Entry!Front(e_running)
      /\ e_stack' = SubSeq(e_stack, 1, Len(e_stack) - words)
  BY DEF Entry!Leave
<1>3. d \in Nat /\ d > 0 /\ d - 1 \in Nat
  BY <1>1, <1>2
<1>4. words = IF d = 1 /\ e_user THEN 19 ELSE 17
  <2>1. Entry!Popped(16) = regs["cs"]
    BY <1>1, <1>2, LastFrame
  <2>2. regs["cs"] = <<"selector", IF d - 1 = 0 /\ e_user THEN Entry!UserCode ELSE Entry!KernelCode>>
    BY <1>1, <1>3, RegistersKnown
  <2>3. CASE d = 1 /\ e_user
    BY <1>3, <2>1, <2>2, <2>3, Rings
  <2>4. CASE ~(d = 1 /\ e_user)
    BY <1>3, <2>1, <2>2, <2>4, Rings
  <2> QED
    BY <2>3, <2>4
<1> DEFINE last == d - 1
<1>0. last \in Nat /\ (~(d = 1 /\ e_user) => ~(last = 0 /\ e_user))
  BY <1>3
<1>5. /\ Len(e_stack) = StackHeight(d) /\ StackHeight(d) \in Nat /\ StackHeight(d - 1) \in Nat
      /\ StackHeight(d) - words = StackHeight(d - 1)
  <2>1. Len(e_stack) = StackHeight(d)
    BY <1>1 DEF Frames
  <2> HIDE DEF d, words
  <2> QED
    BY <1>1, <1>3, <1>4, <2>1 DEF StackHeight
<1> HIDE DEF words
<1>6. /\ e_stack' \in Seq(Word) /\ Len(e_stack') = StackHeight(d - 1)
      /\ \A n \in 1 .. StackHeight(d - 1) : e_stack'[n] = e_stack[n]
  <2>1. Len(e_stack) - words \in 0 .. Len(e_stack)
    BY <1>4, <1>5
  <2> QED
    BY <1>1, <1>2, <1>5, <2>1
<1>7. /\ e_running' \in Seq(Interruption) /\ Len(e_running') = d - 1
      /\ \A k \in 1 .. d - 1 : e_running'[k] = e_running[k]
  <2>1. e_running' = SubSeq(e_running, 1, d - 1)
    BY <1>2 DEF Entry!Front
  <2>2. d - 1 \in 0 .. Len(e_running)
    BY <1>3
  <2> HIDE DEF d
  <2> QED
    BY <1>1, <2>1, <2>2
<1>8. /\ \A k : StackHeight(k)' = StackHeight(k)
      /\ \A k : RegistersAt(k)' = RegistersAt(k)
  BY <1>2 DEF StackHeight, RegistersAt
<1>9. e_cpu' = regs
  <2>1. /\ DOMAIN e_cpu' = Entry!Registers
        /\ e_cpu' = [g \in Entry!Registers |-> e_cpu'[g]]
    <3>1. e_cpu' = Entry!Restored(words)
      BY DEF Entry!Leave, words
    <3> QED
      BY <3>1 DEF Entry!Restored
  <2>2. /\ DOMAIN regs = Entry!Registers
        /\ regs = [g \in Entry!Registers |-> regs[g]]
    BY DEF RegistersAt, Entry!Code
  <2>3. /\ e_cpu'["gs"] = Entry!Popped(1) /\ e_cpu'["fs"] = Entry!Popped(2)
        /\ e_cpu'["es"] = Entry!Popped(3) /\ e_cpu'["ds"] = Entry!Popped(4)
        /\ e_cpu'["edi"] = Entry!Popped(5) /\ e_cpu'["esi"] = Entry!Popped(6)
        /\ e_cpu'["ebp"] = Entry!Popped(7) /\ e_cpu'["ebx"] = Entry!Popped(9)
        /\ e_cpu'["edx"] = Entry!Popped(10) /\ e_cpu'["ecx"] = Entry!Popped(11)
        /\ e_cpu'["eax"] = Entry!Popped(12) /\ e_cpu'["eip"] = Entry!Popped(15)
        /\ e_cpu'["cs"] = Entry!Popped(16) /\ e_cpu'["eflags"] = Entry!Popped(17)
        /\ e_cpu'["esp"] = IF words = 19 THEN Entry!Popped(18)
                           ELSE <<"height", Len(e_stack) - words>>
        /\ e_cpu'["ss"] = IF words = 19 THEN Entry!Popped(19) ELSE e_cpu["ss"]
    <3>1. e_cpu' = Entry!Restored(words)
      BY DEF Entry!Leave, words
    <3> QED
      BY <3>1 DEF Entry!Restored, Entry!Registers, Entry!General, Entry!Segments
  <2>4. \A g \in Entry!Registers \ {"esp", "ss"} : e_cpu'[g] = regs[g]
    BY <1>1, <1>2, <2>3, LastFrame DEF Entry!Registers, Entry!General, Entry!Segments
  <2>5. e_cpu'["esp"] = regs["esp"]
    <3>1. CASE d = 1 /\ e_user
      BY <1>1, <1>2, <1>4, <2>3, <3>1, LastFrame
    <3>2. CASE ~(d = 1 /\ e_user)
      <4>1. regs["esp"] = <<"height", StackHeight(d - 1)>>
        <5> HIDE DEF last
        <5>1. /\ RegistersAt(last)["esp"] = <<"height", StackHeight(last)>>
              /\ RegistersAt(last)["ss"] = <<"selector", Entry!KernelData>>
          BY <1>0, <1>1, <3>2, KernelRegisters
        <5> QED
          BY <5>1 DEF last
      <4>2. words = 17
        BY <1>4, <3>2
      <4>3. e_cpu'["esp"] = <<"height", Len(e_stack) - words>>
        BY <2>3, <4>2
      <4> QED
        BY <1>5, <4>1, <4>3 DEF regs
    <3> QED
      BY <3>1, <3>2
  <2>6. e_cpu'["ss"] = regs["ss"]
    <3>1. CASE d = 1 /\ e_user
      BY <1>1, <1>2, <1>4, <2>3, <3>1, LastFrame
    <3>2. CASE ~(d = 1 /\ e_user)
      <4>1. regs["ss"] = <<"selector", Entry!KernelData>>
        <5> HIDE DEF last
        <5>1. /\ RegistersAt(last)["esp"] = <<"height", StackHeight(last)>>
              /\ RegistersAt(last)["ss"] = <<"selector", Entry!KernelData>>
          BY <1>0, <1>1, <3>2, KernelRegisters
        <5> QED
          BY <5>1 DEF last
      <4>2. e_cpu = RegistersAt(d)
        BY <1>1 DEF Frames
      <4>3. e_cpu["ss"] = <<"selector", Entry!KernelData>>
        BY <1>1, <1>3, <4>2, KernelRegisters
      <4>4. words = 17
        BY <1>4, <3>2
      <4>5. e_cpu'["ss"] = e_cpu["ss"]
        BY <2>3, <4>4
      <4> QED
        BY <4>1, <4>3, <4>5
    <3> QED
      BY <3>1, <3>2
  <2> HIDE DEF regs
  <2>7. \A g \in Entry!Registers : e_cpu'[g] = regs[g]
    BY <2>4, <2>5, <2>6
  <2> QED
    BY <2>1, <2>2, <2>7
<1>10. ASSUME NEW k \in 1 .. d - 1
       PROVE  FrameAt(e_stack', StackHeight(k), RegistersAt(k - 1), e_running'[k])
  <2>1. FrameAt(e_stack, StackHeight(k), RegistersAt(k - 1), e_running[k])
    BY <1>1, <1>3 DEF Frames
  <2>2. StackHeight(k) \in 17 .. StackHeight(d - 1)
    BY <1>1, <1>3 DEF StackHeight
  <2>3. Agrees(e_stack, e_stack', StackHeight(k))
    BY <1>5, <1>6, <2>2 DEF Agrees
  <2>4. FrameAt(e_stack', StackHeight(k), RegistersAt(k - 1), e_running[k])
    BY <2>1, <2>2, <2>3, FrameStays
  <2> QED
    BY <1>7, <2>4
<1>11. ASSUME e_user, d - 1 > 0 PROVE TaskStackAt(e_stack', StackHeight(1), RegistersAt(0))
  <2>1. TaskStackAt(e_stack, StackHeight(1), RegistersAt(0))
    BY <1>1, <1>2, <1>11 DEF Frames
  <2>2. StackHeight(1) \in 19 .. StackHeight(d - 1)
    BY <1>1, <1>3, <1>11 DEF StackHeight
  <2>3. Agrees(e_stack, e_stack', StackHeight(1))
    BY <1>5, <1>6, <2>2 DEF Agrees
  <2> QED
    BY <2>1, <2>2, <2>3, TaskStackStays
<1>12. EntryTypes'
  BY <1>1, <1>2, <1>6, <1>7 DEF EntryTypes
<1>13. Frames'
  <2>1. ASSUME NEW k \in 1 .. Len(e_running')
        PROVE  FrameAt(e_stack', StackHeight(k)', RegistersAt(k - 1)', e_running'[k])
    BY <1>7, <1>8, <1>10
  <2>2. e_running' # <<>> => d - 1 > 0
    BY <1>3, <1>7
  <2> QED
    BY <1>2, <1>6, <1>7, <1>8, <1>9, <1>11, <2>1, <2>2 DEF Frames
<1>14. Named'
  BY <1>2 DEF Named
<1> QED
  BY <1>12, <1>13, <1>14 DEF EntryInv

\* A kernel that halts names the exception it is in.
LEMMA HaltStep ==
    ASSUME EntryInv, Entry!Halt
    PROVE  EntryInv'
<1> DEFINE d == Len(e_running)
           v == e_running[d].vector
<1>1. /\ e_running # <<>> /\ Entry!int_no < 32
      /\ e_message' = Entry!exception_messages[Entry!int_no + 1]
      /\ UNCHANGED <<e_cpu, e_stack, e_running, e_user>>
  BY DEF Entry!Halt
<1>2. EntryTypes /\ Frames
  BY DEF EntryInv
<1>3. Entry!int_no = v
  BY <1>1, <1>2, HandlerReads
<1>4. v \in Entry!Exceptions
  <2>1. e_running \in Seq(Interruption) /\ d \in 1 .. Len(e_running)
    BY <1>1, <1>2 DEF EntryTypes
  <2>2. e_running[d] \in Interruption
    BY <2>1
  <2>3. v \in Entry!Exceptions \cup 32 .. 47
    BY <2>2 DEF Interruption
  <2> QED
    BY <1>1, <1>3, <2>3
<1>5. <<v, e_message'>> \in Entry!Meaning
  BY <1>1, <1>3, <1>4, MessagesMean
<1>6. Named'
  BY <1>1, <1>5 DEF Named
<1>7. EntryTypes' /\ Frames'
  BY <1>1, <1>2 DEF EntryTypes, Frames, StackHeight, RegistersAt
<1> QED
  BY <1>6, <1>7 DEF EntryInv

LEMMA EntryStep ==
    ASSUME EntryInv, Entry!Next
    PROVE  EntryInv'
<1>1. ASSUME NEW line \in 0 .. 15, Entry!Interrupt(line)
      PROVE  EntryInv'
  <2>1. Entry!vector_of(line) \in 32 .. 47
    BY DEF Entry!vector_of
  <2>2. Entry!vector_of(line) \notin Entry!WithErrorCode
    BY <2>1 DEF Entry!WithErrorCode
  <2>3. Entry!Enter(Entry!vector_of(line), <<>>)
    BY <1>1 DEF Entry!Interrupt
  <2> QED
    BY <2>1, <2>2, <2>3, EnterStep
<1>2. ASSUME NEW v \in Entry!Exceptions, Entry!Exception(v)
      PROVE  EntryInv'
  <2>1. CASE v \in Entry!WithErrorCode
    <3>1. PICK code \in 0 .. 1 : Entry!Enter(v, <<<<"error", code>>>>)
      BY <1>2, <2>1 DEF Entry!Exception
    <3>2. <<<<"error", code>>>> \in {<<>>, <<<<"error", 0>>>>, <<<<"error", 1>>>>}
      BY <3>1
    <3>3. <<<<"error", code>>>> # <<>>
      OBVIOUS
    <3> QED
      BY <2>1, <3>1, <3>2, <3>3, EnterStep
  <2>2. CASE v \notin Entry!WithErrorCode
    <3>1. Entry!Enter(v, <<>>)
      BY <1>2, <2>2 DEF Entry!Exception
    <3> QED
      BY <2>2, <3>1, EnterStep
  <2> QED
    BY <2>1, <2>2
<1>3. CASE Entry!Leave
  BY <1>3, LeaveStep
<1>4. CASE Entry!Halt
  BY <1>4, HaltStep
<1>5. CASE Entry!Halted
  BY <1>5 DEF Entry!Halted, Entry!vars, EntryInv, EntryTypes, Frames, Named, StackHeight,
              RegistersAt
<1> QED
  BY <1>1, <1>2, <1>3, <1>4, <1>5 DEF Entry!Next

LEMMA EntryStutters ==
    ASSUME EntryInv, UNCHANGED <<e_cpu, e_stack, e_running, e_user, e_message>>
    PROVE  EntryInv'
BY DEF EntryInv, EntryTypes, Frames, Named, StackHeight, RegistersAt

LEMMA EntrySafe ==
    ASSUME EntryInv
    PROVE  Entry!EntriesAreTransparent
<1> DEFINE d == Len(e_running)
<1>1. EntryTypes /\ Frames /\ Named /\ d \in Nat /\ e_user \in BOOLEAN
  BY DEF EntryInv, EntryTypes
<1>2. /\ e_cpu = RegistersAt(d) /\ Len(e_stack) = StackHeight(d)
      /\ Entry!Height = <<"height", StackHeight(d)>>
  BY <1>1 DEF Frames, Entry!Height
<1>3. CASE d = 0
  <2>1. Len(e_stack) = IF e_user THEN 0 ELSE 2
    BY <1>1, <1>2, <1>3 DEF StackHeight
  <2>2. e_cpu = Entry!Code(0, IF e_user THEN Entry!UserCode ELSE Entry!KernelCode,
                              IF e_user THEN Entry!UserData ELSE Entry!KernelData,
                              IF e_user THEN <<"user_stack", 0>> ELSE Entry!Height)
    BY <1>1, <1>2, <1>3 DEF RegistersAt
  <2>3. e_message = "none"
    BY <1>1, <1>3 DEF Named, EntryTypes
  <2> QED
    BY <1>3, <2>1, <2>2, <2>3 DEF Entry!EntriesAreTransparent
<1>4. CASE d # 0
  <2>1. e_running # <<>>
    BY <1>1, <1>4
  <2>2. e_cpu = Entry!Code(d, Entry!KernelCode, Entry!KernelData, Entry!Height)
    BY <1>1, <1>2, <1>4 DEF RegistersAt
  <2>3. /\ Entry!int_no = e_running[d].vector
        /\ Entry!r("err_code") = (IF e_running[d].error = <<>> THEN <<"error", 0>>
                                  ELSE e_running[d].error[1])
        /\ \A g \in Entry!General \cup {"eip", "eflags"} : Entry!r(g) = <<g, d - 1>>
        /\ e_user /\ d = 1 => /\ Entry!r("useresp") = <<"user_stack", 0>>
                              /\ Entry!r("ss") = Entry!Selector(Entry!UserData)
    BY <1>1, <2>1, HandlerReads DEF ErrorWord, Entry!Selector
  <2>4. e_message # "none" => <<e_running[d].vector, e_message>> \in Entry!Meaning
    BY <1>1 DEF Named
  <2> QED
    BY <1>4, <2>2, <2>3, <2>4 DEF Entry!EntriesAreTransparent
<1> QED
  BY <1>3, <1>4

-----------------------------------------------------------------------------
\* The start of the kernel: what has happened before the call that is next.

StartTypes ==
    /\ s_pc \in 0 .. 17
    /\ s_constructed \subseteq Boot!Objects
    /\ s_object \in Seq(Boot!Objects)
    /\ s_memory \in BOOLEAN /\ s_enabled \in BOOLEAN
    /\ s_routines \in [0 .. 15 -> {"none", "keyboard", "scheduler", "syscall", "floppy"}]
    /\ s_cmos.first \in Boot!Types /\ s_cmos.second \in {Boot!NoDrive, 4}

\* The calls before the one that is next have set up what they should.
SetUp ==
    /\ s_pc > 0 => s_constructed = Boot!Objects
    /\ s_memory <=> s_pc > 3
    /\ s_pc > 5 => "gdt" \in s_tables
    /\ s_pc > 6 => "idt" \in s_tables
    /\ s_pc > 7 => "isr" \in s_tables
    /\ s_pc > 8 => "irq" \in s_tables
    /\ s_pc > 9 => s_routines[1] = "keyboard"
    /\ s_pc > 10 => s_routines[0] = "scheduler"
    /\ s_pc > 12 => s_routines[6] = "floppy"
    /\ s_enabled <=> s_pc > 13

\* What probe_all and get have found.
Probed ==
    /\ s_functions = IF "floppy_probe" \in s_constructed THEN <<"floppy_probe">> ELSE <<>>
    /\ s_probed \in {0, 1}
    /\ s_pc < 14 => s_probed = 0
    /\ s_pc > 14 => s_probed = 1
    /\ s_devices = IF s_probed = 0 THEN <<>> ELSE Boot!Found
    /\ s_pc > 15 => s_floppy0 = IF s_cmos.first = Boot!NoDrive THEN Boot!NullPtr
                                ELSE Boot!Drive(s_cmos.first)

\* How kmain's read ends.
Outcomes ==
    /\ s_outcome \in {"none", "page_fault", "divide_error", "reads"}
    /\ s_outcome = "reads" => s_pc = 17 /\ s_cmos.first \in Boot!Supported
    /\ s_outcome \in {"page_fault", "divide_error"} => s_cmos.first \notin Boot!Supported
    /\ s_outcome = "divide_error" => s_cmos.first # Boot!NoDrive
    /\ s_outcome = "none" => s_pc < 17

\* Nothing was used too early, no destructor waits for what does not exist.
InOrder == /\ s_early = {}
           /\ \A n \in 1 .. Len(s_object) : s_object[n] \in s_constructed

StartInv == StartTypes /\ SetUp /\ Probed /\ Outcomes /\ InOrder

-----------------------------------------------------------------------------
\* The position of each call in kmain.
LEMMA CallsOfKmain ==
    ASSUME NEW n \in 1 .. 17
    PROVE  /\ Boot!kmain[n] = "sparta" => n = 1
           /\ Boot!kmain[n] = "parse_command_line" => n = 2
           /\ Boot!kmain[n] = "mm" => n = 3
           /\ Boot!kmain[n] = "check_cpu" => n = 4
           /\ Boot!kmain[n] = "gdt" => n = 5
           /\ Boot!kmain[n] = "idt" => n = 6
           /\ Boot!kmain[n] = "isr" => n = 7
           /\ Boot!kmain[n] = "irq" => n = 8
           /\ Boot!kmain[n] = "keyboard" => n = 9
           /\ Boot!kmain[n] = "scheduler" => n = 10
           /\ Boot!kmain[n] = "syscall" => n = 11
           /\ Boot!kmain[n] = "floppy" => n = 12
           /\ Boot!kmain[n] = "interrupts_enable" => n = 13
           /\ Boot!kmain[n] = "probe_all" => n = 14
           /\ Boot!kmain[n] = "get" => n = 15
           /\ Boot!kmain[n] = "read" => n = 16
BY DEF Boot!kmain

LEMMA StartInitial == Boot!Init => StartInv
<1> SUFFICES ASSUME Boot!Init PROVE StartInv
  OBVIOUS
<1>1. StartTypes
  <2>1. s_object \in Seq(Boot!Objects) /\ s_constructed \subseteq Boot!Objects
    BY DEF Boot!Init
  <2>2. s_cmos.first \in Boot!Types /\ s_cmos.second \in {Boot!NoDrive, 4}
    BY DEF Boot!Init
  <2>3. s_routines \in [0 .. 15 -> {"none", "keyboard", "scheduler", "syscall", "floppy"}]
    BY DEF Boot!Init
  <2>4. s_pc = 0 /\ s_memory \in BOOLEAN /\ s_enabled \in BOOLEAN
    BY DEF Boot!Init
  <2> QED
    BY <2>1, <2>2, <2>3, <2>4 DEF StartTypes
<1>2. SetUp /\ Probed
  BY DEF SetUp, Probed, Boot!Init
<1>3. Outcomes /\ InOrder
  BY DEF Outcomes, InOrder, Boot!Init
<1> QED
  BY <1>1, <1>2, <1>3 DEF StartInv

\* A call that returns and neither changes what the managers and kmain know of
\* devices nor uses anything that has not been set up.
LEMMA ReturnStep ==
    ASSUME StartInv, NEW n \in 1 .. 13, s_pc = n, s_pc' = n + 1,
           s_constructed' = s_constructed, s_object' = s_object, s_cmos' = s_cmos,
           s_outcome' = s_outcome, s_functions' = s_functions, s_probed' = s_probed,
           s_devices' = s_devices, s_floppy0' = s_floppy0, s_early' = s_early,
           s_memory' \in BOOLEAN, s_enabled' \in BOOLEAN,
           s_routines' \in [0 .. 15 -> {"none", "keyboard", "scheduler", "syscall", "floppy"}],
           SetUp'
    PROVE  StartInv'
<1>0. StartTypes /\ Probed /\ Outcomes /\ InOrder
  BY DEF StartInv
<1>1. StartTypes'
  BY <1>0 DEF StartTypes, Boot!Objects, Boot!Types, Boot!NoDrive
<1>2. Boot!Found' = Boot!Found
  BY DEF Boot!Found, Boot!NoDrive, Boot!Drive, Boot!Controller, Boot!DriverTreeNode
<1>3. Probed'
  BY <1>0, <1>2 DEF Probed
<1>4. Outcomes'
  BY <1>0 DEF Outcomes, Boot!Supported
<1>5. InOrder'
  BY <1>0 DEF InOrder
<1> QED
  BY <1>1, <1>3, <1>4, <1>5 DEF StartInv

\* What a call of kmain leaves alone, and where it is.
LEMMA CallMade ==
    ASSUME StartTypes, NEW name, Boot!Call(name)
    PROVE  s_pc \in 1 .. 17 /\ Boot!kmain[s_pc] = name /\ s_outcome = "none"
BY DEF StartTypes, Boot!Call

LEMMA CallFacts ==
    ASSUME StartInv, NEW name, Boot!Call(name), Boot!Return
    PROVE  /\ s_pc \in 1 .. 17 /\ Boot!kmain[s_pc] = name
           /\ s_outcome = "none"
           /\ s_pc' = s_pc + 1
           /\ s_constructed' = s_constructed /\ s_object' = s_object /\ s_cmos' = s_cmos
           /\ s_outcome' = s_outcome
BY DEF StartInv, StartTypes, Boot!Call, Boot!Return

\* The steps that print, of which one may use low memory before it is unmapped.
LEMMA PrintsStep ==
    ASSUME StartInv, NEW name \in {"sparta", "check_cpu", "parse_command_line"},
           NEW needed \in {{}, {"low_memory"}}, needed = {} \/ name = "parse_command_line",
           Boot!Prints(name, needed)
    PROVE  StartInv'
<1>1. StartTypes /\ SetUp
  BY DEF StartInv
<1>2. Boot!Call(name) /\ Boot!Return
  BY DEF Boot!Prints
<1>3. s_pc \in {1, 2, 4} /\ (needed # {} => s_pc = 2)
  BY <1>2, CallFacts, CallsOfKmain
<1>4. /\ s_memory' = s_memory /\ s_tables' = s_tables /\ s_routines' = s_routines
      /\ s_enabled' = s_enabled /\ s_functions' = s_functions /\ s_probed' = s_probed
      /\ s_devices' = s_devices /\ s_floppy0' = s_floppy0
  BY DEF Boot!Prints, Boot!machine, Boot!drivers
<1>5. s_early' = s_early
  BY <1>1, <1>3 DEF Boot!Prints, Boot!Uses, Boot!Ready, SetUp, Boot!Objects
<1>6. SetUp'
  BY <1>1, <1>2, <1>3, <1>4, CallFacts DEF SetUp, Boot!Objects
<1> QED
  BY <1>1, <1>2, <1>3, <1>4, <1>5, <1>6, CallFacts, ReturnStep DEF StartTypes

LEMMA InitMemoryStep == StartInv /\ Boot!InitMemory => StartInv'
<1> SUFFICES ASSUME StartInv, Boot!InitMemory PROVE StartInv'
  OBVIOUS
<1>1. StartTypes /\ SetUp
  BY DEF StartInv
<1>2. Boot!Call("mm") /\ Boot!Return
  BY DEF Boot!InitMemory
<1>3. s_pc = 3
  BY <1>2, CallFacts, CallsOfKmain
<1>4. /\ s_memory' = TRUE /\ s_tables' = s_tables /\ s_routines' = s_routines
      /\ s_enabled' = s_enabled /\ s_functions' = s_functions /\ s_probed' = s_probed
      /\ s_devices' = s_devices /\ s_floppy0' = s_floppy0
  BY DEF Boot!InitMemory, Boot!machine, Boot!drivers
<1>5. s_early' = s_early
  BY <1>1, <1>3 DEF Boot!InitMemory, Boot!Uses, Boot!Ready, SetUp, Boot!Objects
<1>6. SetUp'
  BY <1>1, <1>2, <1>3, <1>4, CallFacts DEF SetUp, Boot!Objects
<1> QED
  BY <1>1, <1>2, <1>3, <1>4, <1>5, <1>6, CallFacts, ReturnStep DEF StartTypes

\* gdt::init, idt::init, isr::init and irq::init.
LEMMA InitTableStep ==
    ASSUME StartInv, NEW name \in {"gdt", "idt", "isr", "irq"}, NEW needed,
           needed = IF name \in {"gdt", "idt"} THEN {} ELSE {"gdt"},
           Boot!InitTable(name, needed)
    PROVE  StartInv'
<1>1. StartTypes /\ SetUp
  BY DEF StartInv
<1>2. Boot!Call(name) /\ Boot!Return
  BY DEF Boot!InitTable
<1>3. /\ s_pc \in 5 .. 8
      /\ name = "gdt" => s_pc = 5
      /\ name = "idt" => s_pc = 6
      /\ name = "isr" => s_pc = 7
      /\ name = "irq" => s_pc = 8
  BY <1>2, CallFacts, CallsOfKmain
<1>4. /\ s_memory' = s_memory /\ s_tables' = s_tables \cup {name}
      /\ s_routines' = s_routines
      /\ s_enabled' = s_enabled /\ s_functions' = s_functions /\ s_probed' = s_probed
      /\ s_devices' = s_devices /\ s_floppy0' = s_floppy0
  BY DEF Boot!InitTable, Boot!drivers
<1>5. s_early' = s_early
  BY <1>1, <1>3 DEF Boot!InitTable, Boot!Uses, Boot!Ready, SetUp
<1>6. SetUp'
  BY <1>1, <1>2, <1>3, <1>4, CallFacts DEF SetUp, Boot!Objects
<1> QED
  BY <1>1, <1>2, <1>3, <1>4, <1>5, <1>6, CallFacts, ReturnStep DEF StartTypes

\* The handlers that kmain's calls install.
LEMMA InstallStep ==
    ASSUME StartInv, NEW name \in {"keyboard", "scheduler", "syscall", "floppy"},
           NEW line \in 0 .. 15,
           name = "keyboard" => line = 1, name = "scheduler" => line = 0,
           name = "syscall" => line = 3, name = "floppy" => line = 6,
           Boot!install_handler(name, line)
    PROVE  StartInv'
<1>1. StartTypes /\ SetUp
  BY DEF StartInv
<1>2. Boot!Call(name) /\ Boot!Return
  BY DEF Boot!install_handler
<1>3. /\ s_pc \in 9 .. 12
      /\ name = "keyboard" => s_pc = 9
      /\ name = "scheduler" => s_pc = 10
      /\ name = "syscall" => s_pc = 11
      /\ name = "floppy" => s_pc = 12
  BY <1>2, CallFacts, CallsOfKmain
<1>4. /\ s_memory' = s_memory /\ s_tables' = s_tables
      /\ s_routines' = [s_routines EXCEPT ![line] = name]
      /\ s_enabled' = s_enabled /\ s_functions' = s_functions /\ s_probed' = s_probed
      /\ s_devices' = s_devices /\ s_floppy0' = s_floppy0 /\ s_early' = s_early
  BY DEF Boot!install_handler, Boot!drivers
<1>5. s_routines' \in [0 .. 15 -> {"none", "keyboard", "scheduler", "syscall", "floppy"}]
  BY <1>1, <1>4 DEF StartTypes
<1>6. SetUp'
  BY <1>1, <1>2, <1>3, <1>4, CallFacts DEF SetUp, StartTypes, Boot!Objects
<1> QED
  BY <1>1, <1>2, <1>3, <1>4, <1>5, <1>6, CallFacts, ReturnStep DEF StartTypes

LEMMA EnableStep == StartInv /\ Boot!interrupts_enable => StartInv'
<1> SUFFICES ASSUME StartInv, Boot!interrupts_enable PROVE StartInv'
  OBVIOUS
<1>1. StartTypes /\ SetUp
  BY DEF StartInv
<1>2. Boot!Call("interrupts_enable") /\ Boot!Return
  BY DEF Boot!interrupts_enable
<1>3. s_pc = 13
  BY <1>2, CallFacts, CallsOfKmain
<1>4. /\ s_memory' = s_memory /\ s_tables' = s_tables /\ s_routines' = s_routines
      /\ s_enabled' = TRUE /\ s_functions' = s_functions /\ s_probed' = s_probed
      /\ s_devices' = s_devices /\ s_floppy0' = s_floppy0 /\ s_early' = s_early
  BY DEF Boot!interrupts_enable, Boot!drivers
<1>6. SetUp'
  BY <1>1, <1>2, <1>3, <1>4, CallFacts DEF SetUp, Boot!Objects
<1> QED
  BY <1>1, <1>2, <1>3, <1>4, <1>6, CallFacts, ReturnStep DEF StartTypes

\* What floppy_probe finds depends on the drives alone.
LEMMA FoundStays == s_cmos' = s_cmos => Boot!Found' = Boot!Found
BY DEF Boot!Found, Boot!NoDrive, Boot!Drive, Boot!Controller, Boot!DriverTreeNode

LEMMA ConstructStep ==
    ASSUME StartInv, NEW o \in Boot!Objects, Boot!Construct(o)
    PROVE  StartInv'
<1>1. StartTypes /\ SetUp /\ Probed /\ Outcomes /\ InOrder
  BY DEF StartInv
<1>2. /\ s_pc = 0 /\ s_pc' = 0 /\ o \notin s_constructed
      /\ s_constructed' = s_constructed \cup {o}
      /\ s_memory' = s_memory /\ s_tables' = s_tables /\ s_routines' = s_routines
      /\ s_enabled' = s_enabled /\ s_cmos' = s_cmos /\ s_probed' = s_probed
      /\ s_devices' = s_devices /\ s_floppy0' = s_floppy0 /\ s_outcome' = s_outcome
      /\ s_early' = s_early
  BY DEF Boot!Construct, Boot!machine
<1>3. \/ s_object' = s_object
      \/ o = "s_task_list" /\ s_object' = Append(s_object, o)
  BY DEF Boot!Construct, Boot!__cxa_atexit
<1>4. s_functions' = IF o = "floppy_probe" THEN Append(s_functions, o) ELSE s_functions
  BY DEF Boot!Construct, Boot!reg_probe
<1>5. s_object' \in Seq(Boot!Objects)
  <2>1. s_object \in Seq(Boot!Objects)
    BY <1>1 DEF StartTypes
  <2>2. Append(s_object, o) \in Seq(Boot!Objects)
    BY <2>1
  <2> QED
    BY <1>3, <2>1, <2>2
<1>6. StartTypes'
  BY <1>1, <1>2, <1>5 DEF StartTypes, Boot!Objects, Boot!Types, Boot!NoDrive
<1>7. SetUp'
  BY <1>1, <1>2 DEF SetUp, Boot!Objects
<1>8. s_functions' = IF "floppy_probe" \in s_constructed' THEN <<"floppy_probe">> ELSE <<>>
  <2>1. CASE o = "floppy_probe"
    <3>1. s_functions = <<>>
      BY <1>1, <1>2, <2>1 DEF Probed
    <3> QED
      BY <1>2, <1>4, <2>1, <3>1
  <2>2. CASE o # "floppy_probe"
    BY <1>1, <1>2, <1>4, <2>2 DEF Probed
  <2> QED
    BY <2>1, <2>2
<1>9. Probed'
  BY <1>1, <1>2, <1>8, FoundStays DEF Probed
<1>10. Outcomes'
  BY <1>1, <1>2 DEF Outcomes, Boot!Supported, Boot!NoDrive
<1>11. InOrder'
  <2>1. CASE s_object' = s_object
    BY <1>1, <1>2, <2>1 DEF InOrder
  <2>2. CASE s_object' = Append(s_object, o)
    <3>1. /\ Len(s_object') = Len(s_object) + 1
          /\ \A n \in 1 .. Len(s_object) : s_object'[n] = s_object[n]
          /\ s_object'[Len(s_object) + 1] = o
          /\ Len(s_object) \in Nat
      BY <1>1, <2>2 DEF StartTypes
    <3> QED
      BY <1>1, <1>2, <3>1 DEF InOrder
  <2> QED
    BY <1>3, <2>1, <2>2
<1> QED
  BY <1>6, <1>7, <1>9, <1>10, <1>11 DEF StartInv

LEMMA CallKmainStep == StartInv /\ Boot!CallKmain => StartInv'
<1> SUFFICES ASSUME StartInv, Boot!CallKmain PROVE StartInv'
  OBVIOUS
<1>1. StartTypes /\ SetUp /\ Probed /\ Outcomes /\ InOrder
  BY DEF StartInv
<1>2. /\ s_pc = 0 /\ s_pc' = 1 /\ s_constructed = Boot!Objects
      /\ s_constructed' = s_constructed /\ s_object' = s_object
      /\ s_memory' = s_memory /\ s_tables' = s_tables /\ s_routines' = s_routines
      /\ s_enabled' = s_enabled /\ s_cmos' = s_cmos
      /\ s_functions' = s_functions /\ s_probed' = s_probed
      /\ s_devices' = s_devices /\ s_floppy0' = s_floppy0 /\ s_outcome' = s_outcome
      /\ s_early' = s_early
  BY DEF Boot!CallKmain, Boot!machine, Boot!drivers
<1>3. StartTypes'
  BY <1>1, <1>2 DEF StartTypes, Boot!Objects, Boot!Types, Boot!NoDrive
<1>4. SetUp'
  BY <1>1, <1>2 DEF SetUp, Boot!Objects
<1>5. Probed'
  BY <1>1, <1>2, FoundStays DEF Probed
<1>6. Outcomes'
  BY <1>1, <1>2 DEF Outcomes, Boot!Supported, Boot!NoDrive
<1>7. InOrder'
  BY <1>1, <1>2 DEF InOrder
<1> QED
  BY <1>3, <1>4, <1>5, <1>6, <1>7 DEF StartInv

\* floppy_probe, and with a drive of a type that has no name, the end.
LEMMA CallProbeStep == StartInv /\ Boot!CallProbe => StartInv'
<1> SUFFICES ASSUME StartInv, Boot!CallProbe PROVE StartInv'
  OBVIOUS
<1>1. StartTypes /\ SetUp /\ Probed /\ Outcomes /\ InOrder
  BY DEF StartInv
<1>2. s_pc = 14 /\ s_outcome = "none"
  <2>1. Boot!Call("probe_all")
    BY DEF Boot!CallProbe
  <2>2. s_pc \in 1 .. 17 /\ Boot!kmain[s_pc] = "probe_all" /\ s_outcome = "none"
    BY <1>1, <2>1, CallMade
  <2> QED
    BY <2>2, CallsOfKmain
<1>3. /\ s_pc' = s_pc /\ s_constructed' = s_constructed /\ s_object' = s_object
      /\ s_memory' = s_memory /\ s_tables' = s_tables /\ s_routines' = s_routines
      /\ s_enabled' = s_enabled /\ s_cmos' = s_cmos
      /\ s_functions' = s_functions /\ s_floppy0' = s_floppy0
      /\ s_probed' = s_probed + 1 /\ s_probed < Len(s_functions)
      /\ s_devices' = s_devices \o Boot!Found
  BY DEF Boot!CallProbe, Boot!machine
<1>4. s_functions = <<"floppy_probe">>
  BY <1>1, <1>2 DEF Probed, SetUp, Boot!Objects
<1>5. s_probed = 0 /\ s_probed' = 1 /\ s_devices = <<>>
  BY <1>1, <1>3, <1>4 DEF Probed
<1>6. s_devices' = Boot!Found
  <2>1. Boot!Found \in Seq({Boot!Controller, Boot!Drive(s_cmos.first)})
    BY DEF Boot!Found
  <2> QED
    BY <1>3, <1>5, <2>1
<1>7. s_early' = s_early
  BY <1>1, <1>2 DEF Boot!CallProbe, Boot!Uses, Boot!Ready, SetUp, Boot!Objects
<1>8. StartTypes'
  BY <1>1, <1>3 DEF StartTypes, Boot!Objects, Boot!Types, Boot!NoDrive
<1>9. SetUp'
  BY <1>1, <1>2, <1>3 DEF SetUp, Boot!Objects
<1>10. Probed'
  BY <1>1, <1>2, <1>3, <1>5, <1>6, FoundStays DEF Probed
<1>11. Outcomes'
  <2>1. CASE s_outcome' = "none"
    BY <2>1, <1>2, <1>3 DEF Outcomes
  <2>2. CASE s_outcome' = "page_fault" /\ s_cmos.first \notin Boot!Supported
    BY <2>2, <1>2, <1>3 DEF Outcomes, Boot!Supported
  <2>3. s_outcome' # "none" => s_outcome' = "page_fault" /\ s_cmos.first \notin Boot!Supported
    <3> SUFFICES ASSUME s_outcome' # "none"
                 PROVE  s_outcome' = "page_fault" /\ s_cmos.first \notin Boot!Supported
      OBVIOUS
    <3>1. s_outcome' = "page_fault"
      BY DEF Boot!CallProbe
    <3>2. PICK d \in Boot!Range(Boot!Found) : d.type \notin Boot!Named
      BY DEF Boot!CallProbe
    <3>3. d = Boot!Controller \/ d = Boot!Drive(s_cmos.first)
      BY <3>2 DEF Boot!Range, Boot!Found
    <3>4. d.type = 0 \/ d.type = s_cmos.first
      BY <3>3 DEF Boot!Controller, Boot!Drive, Boot!DriverTreeNode, Boot!NoDrive
    <3> QED
      BY <3>1, <3>2, <3>4 DEF Boot!Named, Boot!Supported
  <2> QED
    BY <2>1, <2>2, <2>3
<1>12. InOrder'
  BY <1>1, <1>3, <1>7 DEF InOrder
<1> QED
  BY <1>8, <1>9, <1>10, <1>11, <1>12 DEF StartInv

LEMMA ProbesDoneStep == StartInv /\ Boot!ProbesDone => StartInv'
<1> SUFFICES ASSUME StartInv, Boot!ProbesDone PROVE StartInv'
  OBVIOUS
<1>1. StartTypes /\ SetUp /\ Probed /\ Outcomes /\ InOrder
  BY DEF StartInv
<1>2. Boot!Call("probe_all") /\ Boot!Return
  BY DEF Boot!ProbesDone
<1>3. /\ s_pc = 14 /\ s_pc' = s_pc + 1
      /\ s_constructed' = s_constructed /\ s_object' = s_object /\ s_cmos' = s_cmos
      /\ s_outcome = "none" /\ s_outcome' = s_outcome
  BY <1>2, CallFacts, CallsOfKmain
<1>4. /\ s_memory' = s_memory /\ s_tables' = s_tables /\ s_routines' = s_routines
      /\ s_enabled' = s_enabled /\ s_functions' = s_functions /\ s_probed' = s_probed
      /\ s_devices' = s_devices /\ s_floppy0' = s_floppy0 /\ s_early' = s_early
      /\ s_probed = Len(s_functions)
  BY DEF Boot!ProbesDone, Boot!machine, Boot!drivers
<1>5. s_functions = <<"floppy_probe">>
  BY <1>1, <1>3 DEF Probed, SetUp, Boot!Objects
<1>6. StartTypes'
  BY <1>1, <1>3, <1>4 DEF StartTypes, Boot!Objects, Boot!Types, Boot!NoDrive
<1>7. SetUp'
  BY <1>1, <1>3, <1>4 DEF SetUp, Boot!Objects
<1>8. s_probed = 1
  BY <1>4, <1>5
<1>9. Probed'
  BY <1>1, <1>3, <1>4, <1>8, FoundStays DEF Probed
<1>10. Outcomes'
  BY <1>1, <1>3 DEF Outcomes
<1>11. InOrder'
  BY <1>1, <1>3, <1>4 DEF InOrder
<1> QED
  BY <1>6, <1>7, <1>9, <1>10, <1>11 DEF StartInv

\* get finds the first drive where there is one.
LEMMA GetStep == StartInv /\ Boot!Get => StartInv'
<1> SUFFICES ASSUME StartInv, Boot!Get PROVE StartInv'
  OBVIOUS
<1>1. StartTypes /\ SetUp /\ Probed /\ Outcomes /\ InOrder
  BY DEF StartInv
<1>2. Boot!Call("get") /\ Boot!Return
  BY DEF Boot!Get
<1>3. /\ s_pc = 15 /\ s_pc' = s_pc + 1
      /\ s_constructed' = s_constructed /\ s_object' = s_object /\ s_cmos' = s_cmos
      /\ s_outcome = "none" /\ s_outcome' = s_outcome
  BY <1>2, CallFacts, CallsOfKmain
<1>4. /\ s_memory' = s_memory /\ s_tables' = s_tables /\ s_routines' = s_routines
      /\ s_enabled' = s_enabled /\ s_functions' = s_functions /\ s_probed' = s_probed
      /\ s_devices' = s_devices /\ s_early' = s_early
  BY DEF Boot!Get, Boot!machine
<1> DEFINE matching == {n \in DOMAIN s_devices : s_devices[n].name = "/floppy/0"}
<1>5. s_floppy0' = IF matching = {} THEN Boot!NullPtr ELSE s_devices[Boot!Min(matching)]
  BY DEF Boot!Get
<1>6. s_devices = Boot!Found
  BY <1>1, <1>3 DEF Probed
<1>7. s_floppy0' = IF s_cmos.first = Boot!NoDrive THEN Boot!NullPtr
                   ELSE Boot!Drive(s_cmos.first)
  <2>1. CASE s_cmos.first = Boot!NoDrive
    <3>1. \A n \in DOMAIN s_devices : s_devices[n] = Boot!Controller
      BY <1>6, <2>1 DEF Boot!Found
    <3>2. matching = {}
      BY <3>1 DEF Boot!Controller, Boot!DriverTreeNode
    <3> QED
      BY <1>5, <2>1, <3>2
  <2>2. CASE s_cmos.first # Boot!NoDrive
    <3>1. /\ DOMAIN s_devices = {1, 2}
          /\ s_devices[1] = Boot!Controller /\ s_devices[2] = Boot!Drive(s_cmos.first)
      <4>1. \A a, b : LET s == <<a>> \o <<b>>
                      IN  Len(s) = 2 /\ DOMAIN s = 1 .. 2 /\ s[1] = a /\ s[2] = b
        OBVIOUS
      <4>2. s_devices = <<Boot!Controller>> \o <<Boot!Drive(s_cmos.first)>>
        BY <1>6, <2>2 DEF Boot!Found
      <4> QED
        BY <4>1, <4>2
    <3>2. matching = {2}
      BY <3>1 DEF Boot!Controller, Boot!Drive, Boot!DriverTreeNode
    <3>3. Boot!Min(matching) = 2
      BY <3>2 DEF Boot!Min
    <3> QED
      BY <1>5, <2>2, <3>1, <3>2, <3>3
  <2> QED
    BY <2>1, <2>2
<1>8. StartTypes'
  BY <1>1, <1>3, <1>4 DEF StartTypes, Boot!Objects, Boot!Types, Boot!NoDrive
<1>9. SetUp'
  BY <1>1, <1>3, <1>4 DEF SetUp, Boot!Objects
<1>10. Boot!NoDrive' = Boot!NoDrive /\ Boot!NullPtr' = Boot!NullPtr
       /\ Boot!Drive(s_cmos.first)' = Boot!Drive(s_cmos.first)
  BY <1>3 DEF Boot!NoDrive, Boot!NullPtr, Boot!Drive, Boot!DriverTreeNode
<1>11. Probed'
  BY <1>1, <1>3, <1>4, <1>7, <1>10, FoundStays DEF Probed
<1>12. Outcomes'
  BY <1>1, <1>3 DEF Outcomes
<1>13. InOrder'
  BY <1>1, <1>3, <1>4 DEF InOrder
<1> QED
  BY <1>8, <1>9, <1>11, <1>12, <1>13 DEF StartInv

LEMMA ReadStep == StartInv /\ Boot!Read => StartInv'
<1> SUFFICES ASSUME StartInv, Boot!Read PROVE StartInv'
  OBVIOUS
<1>1. StartTypes /\ SetUp /\ Probed /\ Outcomes /\ InOrder
  BY DEF StartInv
<1>2. s_pc = 16 /\ s_outcome = "none"
  <2>1. Boot!Call("read")
    BY DEF Boot!Read
  <2>2. s_pc \in 1 .. 17 /\ Boot!kmain[s_pc] = "read" /\ s_outcome = "none"
    BY <1>1, <2>1, CallMade
  <2> QED
    BY <2>2, CallsOfKmain
<1>3. /\ s_constructed' = s_constructed /\ s_object' = s_object /\ s_cmos' = s_cmos
      /\ s_memory' = s_memory /\ s_tables' = s_tables /\ s_routines' = s_routines
      /\ s_enabled' = s_enabled /\ s_functions' = s_functions /\ s_probed' = s_probed
      /\ s_devices' = s_devices /\ s_floppy0' = s_floppy0
  BY DEF Boot!Read, Boot!machine, Boot!drivers
<1>4. /\ s_outcome' = IF s_floppy0 = Boot!NullPtr THEN "page_fault"
                      ELSE IF s_floppy0.type \notin Boot!Supported THEN "divide_error"
                      ELSE "reads"
      /\ s_pc' = IF s_outcome' = "reads" THEN s_pc + 1 ELSE s_pc
  BY DEF Boot!Read
<1>5. s_early' = s_early
  BY <1>1, <1>2, <1>4 DEF Boot!Read, Boot!Uses, Boot!Ready, SetUp
<1>6. /\ s_outcome' = "page_fault" => s_cmos.first = Boot!NoDrive
      /\ s_outcome' \in {"divide_error", "reads"} =>
             s_cmos.first # Boot!NoDrive /\ s_floppy0.type = s_cmos.first
  BY <1>1, <1>2, <1>4 DEF Probed, Boot!NullPtr, Boot!Drive, Boot!DriverTreeNode
<1>7. StartTypes'
  BY <1>1, <1>2, <1>3, <1>4 DEF StartTypes, Boot!Objects, Boot!Types, Boot!NoDrive
<1>8. SetUp'
  BY <1>1, <1>2, <1>3, <1>4 DEF SetUp, Boot!Objects
<1>9. Boot!NoDrive' = Boot!NoDrive /\ Boot!NullPtr' = Boot!NullPtr
      /\ Boot!Drive(s_cmos.first)' = Boot!Drive(s_cmos.first)
  BY <1>3 DEF Boot!NoDrive, Boot!NullPtr, Boot!Drive, Boot!DriverTreeNode
<1>10. Probed'
  BY <1>1, <1>2, <1>3, <1>4, <1>9, FoundStays DEF Probed
<1>11. Outcomes'
  BY <1>1, <1>2, <1>3, <1>4, <1>6 DEF Outcomes, Boot!Supported, Boot!NoDrive
<1>12. InOrder'
  BY <1>1, <1>3, <1>5 DEF InOrder
<1> QED
  BY <1>7, <1>8, <1>10, <1>11, <1>12 DEF StartInv

\* Interrupts find the tables, and their handlers what they work on.
LEMMA InterruptStep ==
    ASSUME StartInv, NEW line \in {0, 1, 6}, Boot!irq_handler(line)
    PROVE  StartInv'
<1>1. StartTypes /\ SetUp /\ Probed /\ Outcomes /\ InOrder
  BY DEF StartInv
<1>2. /\ s_pc' = s_pc
      /\ s_constructed' = s_constructed /\ s_object' = s_object /\ s_cmos' = s_cmos
      /\ s_memory' = s_memory /\ s_tables' = s_tables /\ s_routines' = s_routines
      /\ s_enabled' = s_enabled /\ s_functions' = s_functions /\ s_probed' = s_probed
      /\ s_devices' = s_devices /\ s_floppy0' = s_floppy0 /\ s_outcome' = s_outcome
  BY DEF Boot!irq_handler, Boot!machine, Boot!drivers
<1>3. s_pc > 13
  BY <1>1 DEF Boot!irq_handler, SetUp
<1>4. s_routines[line] \in {"scheduler", "keyboard", "floppy"}
  BY <1>1, <1>3 DEF SetUp, StartTypes
<1>5. Boot!WorksOn(s_routines[line]) \subseteq s_constructed
  BY <1>1, <1>3, <1>4 DEF Boot!WorksOn, SetUp, StartTypes, Boot!Objects
<1>6. s_early' = s_early
  <2>1. {"gdt", "idt", "irq"} \subseteq Boot!Ready
    BY <1>1, <1>3 DEF SetUp, StartTypes, Boot!Ready
  <2>2. Boot!WorksOn(s_routines[line]) \subseteq Boot!Ready
    BY <1>5 DEF Boot!Ready
  <2>3. Boot!Uses({"gdt", "idt", "irq"} \cup Boot!WorksOn(s_routines[line]))
    BY <1>4 DEF Boot!irq_handler
  <2> QED
    BY <2>1, <2>2, <2>3 DEF Boot!Uses
<1>7. StartTypes'
  BY <1>1, <1>2 DEF StartTypes, Boot!Objects, Boot!Types, Boot!NoDrive
<1>8. SetUp'
  BY <1>1, <1>2 DEF SetUp, Boot!Objects
<1>9. Boot!NoDrive' = Boot!NoDrive /\ Boot!NullPtr' = Boot!NullPtr
      /\ Boot!Drive(s_cmos.first)' = Boot!Drive(s_cmos.first)
  BY <1>2 DEF Boot!NoDrive, Boot!NullPtr, Boot!Drive, Boot!DriverTreeNode
<1>10. Probed'
  BY <1>1, <1>2, <1>9, FoundStays DEF Probed
<1>11. Outcomes'
  BY <1>1, <1>2 DEF Outcomes, Boot!Supported, Boot!NoDrive
<1>12. InOrder'
  BY <1>1, <1>2, <1>6 DEF InOrder
<1> QED
  BY <1>7, <1>8, <1>10, <1>11, <1>12 DEF StartInv

LEMMA StartStutters ==
    ASSUME StartInv, s_vars' = s_vars
    PROVE  StartInv'
<1>1. StartTypes /\ SetUp /\ Probed /\ Outcomes /\ InOrder
  BY DEF StartInv
<1>2. /\ s_pc' = s_pc
      /\ s_constructed' = s_constructed /\ s_object' = s_object /\ s_cmos' = s_cmos
      /\ s_memory' = s_memory /\ s_tables' = s_tables /\ s_routines' = s_routines
      /\ s_enabled' = s_enabled /\ s_functions' = s_functions /\ s_probed' = s_probed
      /\ s_devices' = s_devices /\ s_floppy0' = s_floppy0 /\ s_outcome' = s_outcome
      /\ s_early' = s_early
  BY DEF s_vars
<1>3. StartTypes'
  BY <1>1, <1>2 DEF StartTypes, Boot!Objects, Boot!Types, Boot!NoDrive
<1>4. SetUp'
  BY <1>1, <1>2 DEF SetUp, Boot!Objects
<1>5. Boot!NoDrive' = Boot!NoDrive /\ Boot!NullPtr' = Boot!NullPtr
      /\ Boot!Drive(s_cmos.first)' = Boot!Drive(s_cmos.first)
  BY <1>2 DEF Boot!NoDrive, Boot!NullPtr, Boot!Drive, Boot!DriverTreeNode
<1>6. Probed'
  BY <1>1, <1>2, <1>5, FoundStays DEF Probed
<1>7. Outcomes'
  BY <1>1, <1>2 DEF Outcomes, Boot!Supported, Boot!NoDrive
<1>8. InOrder'
  BY <1>1, <1>2 DEF InOrder
<1> QED
  BY <1>3, <1>4, <1>6, <1>7, <1>8 DEF StartInv

LEMMA StartStep == StartInv /\ Boot!Next => StartInv'
<1> SUFFICES ASSUME StartInv, Boot!Next PROVE StartInv'
  OBVIOUS
<1>1. ASSUME NEW o \in Boot!Objects, Boot!Construct(o) PROVE StartInv'
  BY <1>1, ConstructStep
<1>2. CASE Boot!sparta \/ Boot!check_cpu
  <2>1. Boot!Prints("sparta", {}) \/ Boot!Prints("check_cpu", {})
    BY <1>2 DEF Boot!sparta, Boot!check_cpu
  <2> QED
    BY <2>1, PrintsStep
<1>3. CASE Boot!parse_command_line
  <2>1. PICK needed \in {{}, {"low_memory"}} : Boot!Prints("parse_command_line", needed)
    BY <1>3 DEF Boot!parse_command_line
  <2> QED
    BY <2>1, PrintsStep
<1>4. CASE Boot!gdt_init \/ Boot!idt_init
  <2>1. Boot!InitTable("gdt", {}) \/ Boot!InitTable("idt", {})
    BY <1>4 DEF Boot!gdt_init, Boot!idt_init
  <2> QED
    BY <2>1, InitTableStep
<1>5. CASE Boot!isr_init \/ Boot!irq_init
  <2>1. Boot!InitTable("isr", {"gdt"}) \/ Boot!InitTable("irq", {"gdt"})
    BY <1>5 DEF Boot!isr_init, Boot!irq_init
  <2> QED
    BY <2>1, InitTableStep
<1>6. CASE Boot!keyboard_init \/ Boot!scheduler_init \/ Boot!syscall_init \/ Boot!floppy_init
  <2>1. CASE Boot!install_handler("keyboard", 1)
    BY <2>1, InstallStep
  <2>2. CASE Boot!install_handler("scheduler", 0)
    BY <2>2, InstallStep
  <2>3. CASE Boot!install_handler("syscall", 3)
    BY <2>3, InstallStep
  <2>4. CASE Boot!install_handler("floppy", 6)
    BY <2>4, InstallStep
  <2> QED
    BY <1>6, <2>1, <2>2, <2>3, <2>4
       DEF Boot!keyboard_init, Boot!scheduler_init, Boot!syscall_init, Boot!floppy_init
<1>7. ASSUME NEW line \in {0, 1, 6}, Boot!irq_handler(line) PROVE StartInv'
  BY <1>7, InterruptStep
<1>8. CASE Boot!Stay
  <2>1. s_vars' = s_vars
    BY <1>8 DEF Boot!Stay, Boot!vars, Boot!machine, Boot!drivers, s_vars
  <2> QED
    BY <2>1, StartStutters
<1> QED
  BY <1>1, <1>2, <1>3, <1>4, <1>5, <1>6, <1>7, <1>8, CallKmainStep, InitMemoryStep,
     EnableStep, CallProbeStep, ProbesDoneStep, GetStep, ReadStep DEF Boot!Next

LEMMA StartSafe == StartInv => Boot!StartsInOrder
<1> SUFFICES ASSUME StartInv PROVE Boot!StartsInOrder
  OBVIOUS
<1>1. StartTypes /\ Probed /\ Outcomes /\ InOrder
  BY DEF StartInv
<1>2. Boot!Range(s_object) \subseteq s_constructed
  BY <1>1 DEF InOrder, StartTypes, Boot!Range
<1>3. s_outcome = "reads" =>
          s_floppy0 = Boot!Drive(s_cmos.first) /\ s_cmos.first \in Boot!Supported
  BY <1>1 DEF Outcomes, Probed, Boot!Supported, Boot!NoDrive
<1> QED
  BY <1>1, <1>2, <1>3 DEF InOrder, Outcomes, Boot!StartsInOrder

-----------------------------------------------------------------------------
\* The loops over memory: what a call has done after each of its iterations.

Comparisons == {"strlen", "strcmp", "strncmp", "dump"}
Writers == {"memcpy", "memset", "strcat", "video_print", "video_clear", "video_scroll"}
CallSet == [function : Writers \cup Comparisons, dest : Nat, src : Nat, count : Nat, value : Byte]

LoopTypes ==
    /\ b_call \in CallSet
    /\ b_before \in [Loops!Bytes -> Byte] /\ b_memory \in [Loops!Bytes -> Byte]
    /\ b_i \in Nat /\ b_result \in Int /\ b_returned \in BOOLEAN
    /\ b_line_addr \in Nat /\ b_shown \subseteq Int /\ b_repeated \in BOOLEAN

\* The byte that a call puts at an address.
NewByte(a) ==
    LET n == a - b_call.dest
    IN  CASE b_call.function \in {"memcpy", "strcat"} -> Loops!Read(b_before, b_call.src + n)
          [] b_call.function = "memset" -> b_call.value
          [] b_call.function = "video_print" ->
                IF n % 2 = 0 THEN Loops!Read(b_before, b_call.src + n \div 2) ELSE b_call.value
          [] b_call.function = "video_clear" -> 0
          [] b_call.function = "video_scroll" ->
                IF n + b_call.count * Loops!RowSize < Loops!ScreenBytes
                THEN Loops!Read(b_before, n + b_call.count * Loops!RowSize) ELSE Blank

\* The first n bytes of the destination have been written, and nothing else.
HasWritten(m, n) ==
    \A a \in Loops!Bytes :
        m[a] = IF a \in b_call.dest .. (b_call.dest + n - 1) THEN NewByte(a) ELSE b_before[a]

\* The bytes a call is to write.
Extent ==
    CASE b_call.function \in {"memcpy", "memset"} -> b_call.count
      [] b_call.function = "strcat" -> Loops!Length(b_before, b_call.src) + 1
      [] b_call.function = "video_print" -> Loops!Length(b_before, b_call.src) * 2
      [] b_call.function \in {"video_clear", "video_scroll"} -> Loops!ScreenBytes

\* A copy that does not reach over its source from below.
Unspoiled == b_call.function = "memcpy" =>
                \/ b_call.dest <= b_call.src
                \/ Loops!Apart(b_call.dest, b_call.src, b_call.count)

\* A string has a length: behind the filled bytes there are zeros.
LEMMA Least ==
    ASSUME NEW S \in SUBSET Nat, S # {}
    PROVE  \E x \in S : \A y \in S : x <= y
<1>1. PICK x \in S : \A y \in S : ~ (<<y, x>> \in OpToRel(<, Nat))
  BY NatLessThanWellFounded, WFMin
<1>2. ASSUME NEW y \in S  PROVE x <= y
  <2>1. <<y, x>> \notin {ss \in Nat \X Nat : ss[1] < ss[2]}
    BY <1>1 DEF OpToRel
  <2>2. QED  BY <2>1
<1>3. QED  BY <1>1, <1>2

LEMMA StringEnds ==
    ASSUME NEW m \in [Loops!Bytes -> Byte], NEW a \in Nat
    PROVE  /\ Loops!Length(m, a) \in 0 .. Filled
           /\ Loops!Read(m, a + Loops!Length(m, a)) = 0
           /\ \A k \in 0 .. (Loops!Length(m, a) - 1) : Loops!Read(m, a + k) # 0
<1> DEFINE S == {n \in 0 .. Filled : Loops!Read(m, a + n) = 0}
<1>1. Filled \in Nat /\ Filled \in S
  BY LoopsAssumption DEF Loops!Read, Loops!Bytes
<1>2. S \in SUBSET Nat /\ S # {}
  BY <1>1
<1>3. PICK n \in S : \A k \in S : n <= k
  BY <1>2, Least
<1>4. \A k \in 0 .. (n - 1) : Loops!Read(m, a + k) # 0
  BY <1>1, <1>3
<1> DEFINE P(x) == /\ Loops!Read(m, a + x) = 0
                   /\ \A k \in 0 .. (x - 1) : Loops!Read(m, a + k) # 0
<1>5. n \in 0 .. Filled /\ P(n)
  BY <1>3, <1>4
<1>6. Loops!Length(m, a) = CHOOSE x \in 0 .. Filled : P(x)
  BY DEF Loops!Length
<1> HIDE DEF P
<1>7. Loops!Length(m, a) \in 0 .. Filled /\ P(Loops!Length(m, a))
  BY <1>5, <1>6
<1>8. QED  BY <1>7 DEF P

-----------------------------------------------------------------------------
\* One byte, or two, more.

LEMMA ByteWritten ==
    ASSUME LoopTypes, NEW n \in Nat, HasWritten(b_memory, n),
           b_memory' = [b_memory EXCEPT ![b_call.dest + n] = NewByte(b_call.dest + n)]
    PROVE  HasWritten(b_memory', n + 1)
BY DEF LoopTypes, CallSet, HasWritten, Loops!Bytes

LEMMA CellWritten ==
    ASSUME LoopTypes, NEW n \in Nat, HasWritten(b_memory, n),
           b_memory' = [b_memory EXCEPT ![b_call.dest + n] = NewByte(b_call.dest + n),
                                        ![b_call.dest + n + 1] = NewByte(b_call.dest + n + 1)]
    PROVE  HasWritten(b_memory', n + 2)
BY DEF LoopTypes, CallSet, HasWritten, Loops!Bytes

LEMMA SourceKept ==
    ASSUME LoopTypes, NEW n \in Nat, HasWritten(b_memory, n),
           NEW a \in Nat, a \notin b_call.dest .. (b_call.dest + n - 1)
    PROVE  Loops!Read(b_memory, a) = Loops!Read(b_before, a)
BY DEF LoopTypes, CallSet, HasWritten, Loops!Bytes, Loops!Read

-----------------------------------------------------------------------------
\* Where a call is allowed to write.
Separate ==
    /\ b_call.function = "strcat" => Loops!Apart(b_call.dest, b_call.src, Extent)
    /\ b_call.function = "video_print" => \/ b_call.dest + Extent <= b_call.src
                                          \/ b_call.src + Extent \div 2 < b_call.dest
    /\ b_call.function = "video_scroll" => b_call.dest = 0

\* The bytes that have been written.
Done == CASE b_call.function \in {"video_print", "video_clear"} -> b_i * 2
          [] b_call.function = "strcat" /\ b_returned -> b_i + 1
          [] OTHER -> b_i

WritesOn ==
    b_call.function \in Writers =>
        /\ Done <= Extent
        /\ b_returned => Done = Extent
        /\ b_call.function = "strcat" /\ ~b_returned => Done < Extent
        /\ Unspoiled => HasWritten(b_memory, Done)

\* A pair of blocks that strncmp takes for equal.
Alike == \A n \in 0 .. (b_call.count - 1) :
             /\ Loops!Read(b_before, b_call.dest + n) = Loops!Read(b_before, b_call.src + n)
             /\ Loops!Read(b_before, b_call.src + n) # 0

Compares ==
    /\ b_call.function \in Comparisons => b_memory = b_before
    /\ b_call.function = "strlen" =>
          /\ b_i <= Loops!Length(b_before, b_call.dest)
          /\ b_returned => b_result = Loops!Length(b_before, b_call.dest)
    /\ b_call.function = "strcmp" /\ b_returned /\ b_result = 0 =>
          Loops!Read(b_before, b_call.dest) = 0 /\ Loops!Read(b_before, b_call.src) = 0
    /\ b_call.function = "strncmp" /\ Alike => b_result = 0

\* The range of a dump ends on the last line of the address space.
Endless == Loops!last_addr + LineSize = AddressLimit

Dumps ==
    /\ b_call.function # "dump" => ~b_repeated
    /\ b_call.function = "dump" =>
          /\ b_line_addr % LineSize = 0
          /\ IF Endless THEN b_line_addr < AddressLimit /\ ~b_returned
             ELSE /\ ~b_repeated
                  /\ b_line_addr \in Loops!first_addr .. (Loops!last_addr + LineSize)
                         \cup {Loops!first_addr}
                  /\ b_shown = {a \in b_call.dest .. Loops!end : a < b_line_addr}
                  /\ b_returned => b_line_addr > Loops!last_addr

LoopInv == LoopTypes /\ Separate /\ WritesOn /\ Compares /\ Dumps

-----------------------------------------------------------------------------
\* Lines of the address space.

LEMMA MultipleOfLine ==
    ASSUME NEW n \in Nat
    PROVE  (LineSize * n) % LineSize = 0
<1>1. LineSize \in Nat \ {0}
  BY LoopsAssumption
<1>2. QED  BY <1>1

LEMMA Division ==
    ASSUME NEW n \in Nat, NEW d \in Nat \ {0}
    PROVE  /\ n \div d \in Nat /\ n % d \in 0 .. (d - 1) /\ n % d <= n
           /\ n - (n % d) = d * (n \div d)
OBVIOUS

LEMMA LineOf ==
    ASSUME NEW a \in Nat
    PROVE  /\ Loops!Line(a) \in Nat /\ Loops!Line(a) % LineSize = 0
           /\ Loops!Line(a) <= a /\ a < Loops!Line(a) + LineSize
<1>1. LineSize \in Nat \ {0}
  BY LoopsAssumption
<1>2. /\ a % LineSize \in 0 .. (LineSize - 1) /\ a % LineSize <= a
      /\ a \div LineSize \in Nat /\ Loops!Line(a) = LineSize * (a \div LineSize)
      /\ Loops!Line(a) = a - (a % LineSize)
  BY <1>1, Division DEF Loops!Line
<1>3. Loops!Line(a) % LineSize = 0
  BY <1>2, MultipleOfLine
<1>4. QED  BY <1>1, <1>2, <1>3

LEMMA NextLine ==
    ASSUME NEW a \in Nat, a % LineSize = 0
    PROVE  /\ (a + LineSize) % LineSize = 0
           /\ \A n \in Nat : n % LineSize = 0 /\ a < n => a + LineSize <= n
<1>1. LineSize \in Nat \ {0}
  BY LoopsAssumption
<1>2. \A n \in Nat : n % LineSize = 0 => n \div LineSize \in Nat /\ n = LineSize * (n \div LineSize)
  BY <1>1
<1>3. ASSUME NEW x \in Nat, NEW y \in Nat, LineSize * x < LineSize * y
      PROVE  LineSize * x + LineSize <= LineSize * y
  <2>1. x + 1 <= y
    BY <1>1, <1>3
  <2>2. LineSize * (x + 1) <= LineSize * y
    BY <1>1, <2>1
  <2>3. LineSize * (x + 1) = LineSize * x + LineSize
    BY <1>1
  <2>4. QED  BY <1>1, <2>2, <2>3
<1>4. ASSUME NEW n \in Nat, n % LineSize = 0, a < n  PROVE a + LineSize <= n
  BY <1>2, <1>3, <1>4
<1>5. (a + LineSize) % LineSize = 0
  <2>1. PICK x \in Nat : a = LineSize * x
    BY <1>2
  <2>2. a + LineSize = LineSize * (x + 1)
    BY <1>1, <2>1
  <2>3. QED  BY <2>1, <2>2, MultipleOfLine
<1>6. QED  BY <1>4, <1>5

\* The last byte of a range and its line lie in the address space.
LEMMA RangeEnds ==
    ASSUME LoopTypes
    PROVE  /\ Loops!end \in 0 .. (AddressLimit - 1)
           /\ Loops!last_addr \in Nat /\ Loops!last_addr % LineSize = 0
           /\ Loops!last_addr <= Loops!end /\ Loops!end < Loops!last_addr + LineSize
           /\ Loops!last_addr + LineSize <= AddressLimit
           /\ Loops!first_addr \in Nat /\ Loops!first_addr % LineSize = 0
           /\ Loops!first_addr <= b_call.dest
<1>1. b_call.dest \in Nat /\ b_call.count \in Nat /\ AddressLimit \in Nat \ {0} /\ AddressLimit % LineSize = 0
      /\ LineSize \in Nat
  BY LoopsAssumption DEF LoopTypes, CallSet
<1>2. Loops!end \in 0 .. (AddressLimit - 1)
  BY <1>1 DEF Loops!end, Loops!Wrap
<1>3. /\ Loops!last_addr \in Nat /\ Loops!last_addr % LineSize = 0
      /\ Loops!last_addr <= Loops!end /\ Loops!end < Loops!last_addr + LineSize
  BY <1>2, LineOf DEF Loops!last_addr
<1>4. Loops!last_addr + LineSize <= AddressLimit
  <2>1. Loops!last_addr < AddressLimit
    BY <1>1, <1>2, <1>3
  <2>2. QED  BY <1>1, <1>3, <2>1, NextLine
<1>5. /\ Loops!first_addr \in Nat /\ Loops!first_addr % LineSize = 0
      /\ Loops!first_addr <= b_call.dest
  BY <1>1, LineOf DEF Loops!first_addr
<1>6. QED  BY <1>2, <1>3, <1>4, <1>5

-----------------------------------------------------------------------------
\* The steps of the functions that write.

\* The call does not change.
Called == b_call' = b_call /\ b_before' = b_before

LEMMA WroteOne ==
    ASSUME LoopTypes, Called, b_call.function \in Writers \ {"video_print", "video_clear"},
           ~b_returned, b_returned' = FALSE, WritesOn, b_i' = b_i + 1,
           b_i + 1 <= Extent, b_call.function = "strcat" => b_i + 1 < Extent,
           Unspoiled => b_memory' = [b_memory EXCEPT ![b_call.dest + b_i] = NewByte(b_call.dest + b_i)]
    PROVE  WritesOn'
<1>1. Done = b_i /\ Done' = b_i + 1 /\ Extent' = Extent /\ (Unspoiled' <=> Unspoiled)
  BY DEF Done, Called, Extent, Unspoiled, Writers, LoopTypes
<1>2. ASSUME Unspoiled  PROVE HasWritten(b_memory', b_i + 1)
  BY <1>1, <1>2, ByteWritten DEF WritesOn, LoopTypes
<1>3. \A n : HasWritten(b_memory', n) => HasWritten(b_memory, n)'
  BY DEF Called, HasWritten, NewByte
<1>4. QED  BY <1>1, <1>2, <1>3 DEF WritesOn, Called, HasWritten, NewByte

LEMMA WroteCell ==
    ASSUME LoopTypes, Called, b_call.function \in {"video_print", "video_clear"},
           ~b_returned, b_returned' = FALSE, WritesOn, b_i' = b_i + 1, b_i * 2 + 2 <= Extent,
           b_memory' = [b_memory EXCEPT
               ![b_call.dest + b_i * 2] = NewByte(b_call.dest + b_i * 2),
               ![b_call.dest + b_i * 2 + 1] = NewByte(b_call.dest + b_i * 2 + 1)]
    PROVE  WritesOn'
<1>1. Done = b_i * 2 /\ Done' = b_i * 2 + 2 /\ Extent' = Extent /\ Unspoiled /\ b_i * 2 \in Nat
  BY DEF Done, Called, Extent, Unspoiled, LoopTypes
<1>2. HasWritten(b_memory', b_i * 2 + 2)
  BY <1>1, CellWritten DEF WritesOn, Writers
<1>3. \A n : HasWritten(b_memory', n) => HasWritten(b_memory, n)'
  BY DEF Called, HasWritten, NewByte
<1>4. QED  BY <1>1, <1>2, <1>3 DEF WritesOn, Called

LEMMA WroteAll ==
    ASSUME LoopTypes, Called, b_call.function \in Writers \ {"strcat"},
           WritesOn, b_i' = b_i, b_memory' = b_memory, Done >= Extent
    PROVE  WritesOn'
<1>1. Done = Extent
  <2>1. Done \in Nat
    BY DEF Done, LoopTypes
  <2>2. Extent \in Int
    BY LoopsAssumption, StringEnds DEF Extent, Writers, LoopTypes, CallSet, Loops!ScreenBytes, Loops!RowSize, Loops!CellSize
  <2>3. QED  BY <2>1, <2>2 DEF WritesOn
<1>2. Done' = Done /\ Extent' = Extent /\ (Unspoiled' <=> Unspoiled)
  BY DEF Done, Called, Extent, Unspoiled, Writers
<1>3. \A n : HasWritten(b_memory, n)' <=> HasWritten(b_memory, n)
  BY DEF Called, HasWritten, NewByte
<1>4. QED  BY <1>1, <1>2, <1>3 DEF WritesOn, Called

LEMMA CopyStep ==
    ASSUME LoopInv, Called, ~b_returned, Loops!memcpy
    PROVE  WritesOn'
<1>1. /\ LoopTypes /\ WritesOn /\ b_call.function = "memcpy" /\ Extent = b_call.count /\ Done = b_i
      /\ b_call.dest \in Nat /\ b_call.src \in Nat /\ b_call.count \in Nat /\ b_i \in Nat
  BY DEF LoopInv, LoopTypes, CallSet, Loops!memcpy, Extent, Done
<1>2. CASE b_i < b_call.count
  <2>1. /\ b_i' = b_i + 1 /\ b_returned' = FALSE
        /\ b_memory' = [b_memory EXCEPT ![b_call.dest + b_i] = Loops!Read(b_memory, b_call.src + b_i)]
    BY <1>1, <1>2 DEF Loops!memcpy, Loops!Writes, Loops!Iterate, Loops!copied_index, Loops!At, LoopTypes
  <2>2. ASSUME Unspoiled
        PROVE  NewByte(b_call.dest + b_i) = Loops!Read(b_memory, b_call.src + b_i)
    <3>1. b_call.src + b_i \notin b_call.dest .. (b_call.dest + b_i - 1)
      BY <1>1, <1>2, <2>2 DEF Unspoiled, Loops!Apart
    <3>2. Loops!Read(b_memory, b_call.src + b_i) = Loops!Read(b_before, b_call.src + b_i)
      BY <1>1, <2>2, <3>1, SourceKept DEF WritesOn, Writers
    <3>3. b_call.dest + b_i - b_call.dest = b_i
      BY <1>1
    <3>4. QED  BY <1>1, <3>2, <3>3 DEF NewByte
  <2>3. /\ b_call.function \in Writers \ {"video_print", "video_clear"}
        /\ b_call.function # "strcat" /\ b_i + 1 <= Extent
    BY <1>1, <1>2 DEF Writers
  <2>4. QED  BY <1>1, <2>1, <2>2, <2>3, WroteOne
<1>3. CASE ~(b_i < b_call.count)
  <2>1. b_i' = b_i /\ b_memory' = b_memory
    BY <1>1, <1>3 DEF Loops!memcpy, Loops!Return
  <2>2. QED  BY <1>1, <1>3, <2>1, WroteAll DEF Writers
<1>4. QED  BY <1>2, <1>3

LEMMA FillStep ==
    ASSUME LoopInv, Called, ~b_returned, Loops!memset
    PROVE  WritesOn'
<1>1. /\ LoopTypes /\ WritesOn /\ b_call.function = "memset" /\ Extent = b_call.count /\ Done = b_i
      /\ b_call.dest \in Nat /\ b_call.count \in Nat /\ b_i \in Nat
  BY DEF LoopInv, LoopTypes, CallSet, Loops!memset, Extent, Done
<1>2. CASE b_i < b_call.count
  <2>1. /\ b_i' = b_i + 1 /\ b_returned' = FALSE
        /\ b_memory' = [b_memory EXCEPT ![b_call.dest + b_i] = b_call.value]
    BY <1>1, <1>2 DEF Loops!memset, Loops!Writes, Loops!Iterate, LoopTypes
  <2>2. NewByte(b_call.dest + b_i) = b_call.value
    BY <1>1 DEF NewByte
  <2>3. /\ b_call.function \in Writers \ {"video_print", "video_clear"}
        /\ b_call.function # "strcat" /\ b_i + 1 <= Extent
    BY <1>1, <1>2 DEF Writers
  <2>4. QED  BY <1>1, <2>1, <2>2, <2>3, WroteOne
<1>3. CASE ~(b_i < b_call.count)
  <2>1. b_i' = b_i /\ b_memory' = b_memory
    BY <1>1, <1>3 DEF Loops!memset, Loops!Return
  <2>2. QED  BY <1>1, <1>3, <2>1, WroteAll DEF Writers
<1>4. QED  BY <1>2, <1>3

LEMMA AppendStep ==
    ASSUME LoopInv, Called, ~b_returned, Loops!strcat
    PROVE  WritesOn'
<1> DEFINE last == Loops!Length(b_before, b_call.src)
<1>1. /\ LoopTypes /\ WritesOn /\ b_call.function = "strcat" /\ Extent = last + 1 /\ Done = b_i /\ Unspoiled
      /\ b_call.dest \in Nat /\ b_call.src \in Nat /\ b_i \in Nat
      /\ b_before \in [Loops!Bytes -> Byte]
  BY DEF LoopInv, LoopTypes, CallSet, Loops!strcat, Extent, Done, Unspoiled
<1>2. /\ last \in Nat /\ Loops!Read(b_before, b_call.src + last) = 0
      /\ \A k \in 0 .. (last - 1) : Loops!Read(b_before, b_call.src + k) # 0
  BY <1>1, StringEnds, LoopsAssumption
<1> HIDE DEF last
<1>3. b_i <= last /\ HasWritten(b_memory, b_i)
  BY <1>1, <1>2 DEF WritesOn, Writers
<1>4. Loops!At(b_call.src + b_i) = Loops!Read(b_before, b_call.src + b_i)
  <2>1. b_call.src + b_i \notin b_call.dest .. (b_call.dest + b_i - 1)
    BY <1>1, <1>2, <1>3 DEF LoopInv, Separate, Loops!Apart
  <2>2. QED  BY <1>1, <1>3, <2>1, SourceKept DEF Loops!At
<1>5. NewByte(b_call.dest + b_i) = Loops!Read(b_before, b_call.src + b_i)
  <2>1. b_call.dest + b_i - b_call.dest = b_i
    BY <1>1
  <2>2. QED  BY <1>1, <2>1 DEF NewByte
<1>6. b_memory' = [b_memory EXCEPT ![b_call.dest + b_i] = NewByte(b_call.dest + b_i)]
  BY <1>1, <1>4, <1>5 DEF Loops!strcat, Loops!Writes
<1>7. CASE Loops!At(b_call.src + b_i) # 0
  <2>1. b_i' = b_i + 1 /\ b_returned' = FALSE
    BY <1>1, <1>7 DEF Loops!strcat, Loops!Iterate, LoopTypes
  <2>2. b_i + 1 < Extent
    BY <1>1, <1>2, <1>3, <1>4, <1>7
  <2>3. b_i + 1 <= Extent /\ b_call.function \in Writers \ {"video_print", "video_clear"}
    BY <1>1, <1>2, <2>2 DEF Writers
  <2>4. QED  BY <1>1, <1>6, <2>1, <2>2, <2>3, WroteOne
<1>8. CASE Loops!At(b_call.src + b_i) = 0
  <2>1. b_i' = b_i /\ b_returned' = TRUE
    BY <1>1, <1>8 DEF Loops!strcat, Loops!Return
  <2>2. b_i = last
    BY <1>1, <1>2, <1>3, <1>4, <1>8
  <2>3. Done' = b_i + 1 /\ Extent' = Extent /\ b_call'.function = "strcat"
    BY <1>1, <2>1 DEF Done, Called, Extent
  <2>4. HasWritten(b_memory', b_i + 1)
    BY <1>1, <1>3, <1>6, ByteWritten
  <2>5. \A n : HasWritten(b_memory', n) => HasWritten(b_memory, n)'
    BY DEF Called, HasWritten, NewByte
  <2>6. QED  BY <1>1, <1>2, <2>1, <2>2, <2>3, <2>4, <2>5 DEF WritesOn
<1>9. QED  BY <1>7, <1>8

LEMMA PrintStep ==
    ASSUME LoopInv, Called, ~b_returned, Loops!video_print
    PROVE  WritesOn'
<1> DEFINE last == Loops!Length(b_before, b_call.src)
<1>1. /\ LoopTypes /\ WritesOn /\ b_call.function = "video_print" /\ Extent = last * 2 /\ Done = b_i * 2
      /\ b_call.dest \in Nat /\ b_call.src \in Nat /\ b_i \in Nat
      /\ b_before \in [Loops!Bytes -> Byte] /\ Unspoiled
  BY DEF LoopInv, LoopTypes, CallSet, Loops!video_print, Extent, Done, Unspoiled
<1>2. /\ last \in Nat /\ Loops!Read(b_before, b_call.src + last) = 0
      /\ \A k \in 0 .. (last - 1) : Loops!Read(b_before, b_call.src + k) # 0
  BY <1>1, StringEnds, LoopsAssumption
<1> HIDE DEF last
<1>3. b_i <= last /\ HasWritten(b_memory, b_i * 2)
  BY <1>1, <1>2 DEF WritesOn, Writers
<1>4. Loops!At(b_call.src + b_i) = Loops!Read(b_before, b_call.src + b_i)
  <2>1. b_call.src + b_i \notin b_call.dest .. (b_call.dest + b_i * 2 - 1)
    <3>1. b_call.dest + last * 2 <= b_call.src \/ b_call.src + last < b_call.dest
      BY <1>1, <1>2 DEF LoopInv, Separate
    <3>2. QED  BY <1>1, <1>2, <1>3, <3>1
  <2>2. QED  BY <1>1, <1>3, <2>1, SourceKept DEF Loops!At
<1>5. CASE Loops!At(b_call.src + b_i) # 0
  <2>1. b_i' = b_i + 1 /\ b_returned' = FALSE
    BY <1>1, <1>5 DEF Loops!video_print, Loops!Iterate, LoopTypes
  <2>2. b_i < last
    BY <1>1, <1>2, <1>3, <1>4, <1>5
  <2>3. /\ NewByte(b_call.dest + b_i * 2) = Loops!Read(b_before, b_call.src + b_i)
        /\ NewByte(b_call.dest + b_i * 2 + 1) = b_call.value
    <3>1. /\ b_call.dest + b_i * 2 - b_call.dest = b_i * 2
          /\ b_call.dest + b_i * 2 + 1 - b_call.dest = b_i * 2 + 1
          /\ (b_i * 2) % 2 = 0 /\ (b_i * 2) \div 2 = b_i /\ (b_i * 2 + 1) % 2 # 0
      BY <1>1
    <3>2. QED  BY <1>1, <3>1 DEF NewByte
  <2>4. b_memory' = [b_memory EXCEPT
            ![b_call.dest + b_i * 2] = Loops!Read(b_before, b_call.src + b_i),
            ![b_call.dest + b_i * 2 + 1] = b_call.value]
    BY <1>1, <1>4, <1>5 DEF Loops!video_print, Loops!CellSize
  <2>5. b_i * 2 + 2 <= Extent
    BY <1>1, <1>2, <2>2
  <2>6. QED  BY <1>1, <2>1, <2>3, <2>4, <2>5, WroteCell
<1>6. CASE Loops!At(b_call.src + b_i) = 0
  <2>1. b_i' = b_i /\ b_memory' = b_memory
    BY <1>1, <1>6 DEF Loops!video_print, Loops!Return
  <2>2. b_i = last
    BY <1>1, <1>2, <1>3, <1>4, <1>6
  <2>3. Done >= Extent /\ b_call.function \in Writers \ {"strcat"}
    BY <1>1, <1>2, <2>2 DEF Writers
  <2>4. QED  BY <1>1, <2>1, <2>3, WroteAll
<1>7. QED  BY <1>5, <1>6

LEMMA ScreenSizes ==
    /\ Loops!ScreenBytes \in Nat /\ Loops!RowSize \in Nat /\ ScreenHeight * ScreenWidth \in Nat
    /\ Loops!ScreenBytes = (ScreenHeight * ScreenWidth) * 2
BY LoopsAssumption DEF Loops!ScreenBytes, Loops!RowSize, Loops!CellSize

LEMMA ClearStep ==
    ASSUME LoopInv, Called, ~b_returned, Loops!video_clear
    PROVE  WritesOn'
<1> DEFINE cells == ScreenHeight * ScreenWidth
<1>1. /\ LoopTypes /\ WritesOn /\ b_call.function = "video_clear" /\ Extent = cells * 2 /\ Done = b_i * 2
      /\ b_call.dest \in Nat /\ b_i \in Nat /\ cells \in Nat
  BY ScreenSizes DEF LoopInv, LoopTypes, CallSet, Loops!video_clear, Extent, Done
<1>2. CASE b_i < cells
  <2>1. b_i' = b_i + 1 /\ b_returned' = FALSE
    BY <1>1, <1>2 DEF Loops!video_clear, Loops!Iterate, LoopTypes
  <2>2. b_memory' = [b_memory EXCEPT ![b_call.dest + b_i * 2] = 0, ![b_call.dest + b_i * 2 + 1] = 0]
    BY <1>1, <1>2 DEF Loops!video_clear, Loops!CellSize
  <2>3. NewByte(b_call.dest + b_i * 2) = 0 /\ NewByte(b_call.dest + b_i * 2 + 1) = 0
    BY <1>1 DEF NewByte
  <2>4. b_i * 2 + 2 <= Extent
    <3> HIDE DEF cells
    <3>1. QED  BY <1>1, <1>2
  <2>5. QED  BY <1>1, <2>1, <2>2, <2>3, <2>4, WroteCell DEF Loops!CellSize
<1>3. CASE ~(b_i < cells)
  <2>1. b_i' = b_i /\ b_memory' = b_memory
    BY <1>1, <1>3 DEF Loops!video_clear, Loops!Return
  <2>2. Done >= Extent /\ b_call.function \in Writers \ {"strcat"}
    <3> HIDE DEF cells
    <3>1. QED  BY <1>1, <1>3 DEF Writers
  <2>3. QED  BY <1>1, <2>1, <2>2, WroteAll
<1>4. QED  BY <1>2, <1>3

LEMMA ScrollStep ==
    ASSUME LoopInv, Called, ~b_returned, Loops!video_scroll
    PROVE  WritesOn'
<1> DEFINE black == b_call.count * Loops!RowSize
<1>1. /\ LoopTypes /\ WritesOn /\ b_call.function = "video_scroll" /\ Extent = Loops!ScreenBytes /\ Done = b_i
      /\ b_call.dest = 0 /\ b_i \in Nat /\ Extent \in Nat /\ black \in Nat /\ Unspoiled
  BY ScreenSizes DEF LoopInv, Separate, LoopTypes, CallSet, Loops!video_scroll, Extent, Done, Unspoiled
<1>2. NewByte(b_i) = IF b_i + black < Extent THEN Loops!Read(b_before, b_i + black) ELSE Blank
  <2>1. b_i - 0 = b_i
    BY <1>1
  <2>2. QED  BY <1>1, <2>1 DEF NewByte
<1>3. Loops!At(black + b_i) = Loops!Read(b_before, b_i + black)
  <2> HIDE DEF black
  <2>1. b_i + black \notin b_call.dest .. (b_call.dest + b_i - 1) /\ black + b_i = b_i + black /\ b_i + black \in Nat
    BY <1>1
  <2>2. HasWritten(b_memory, b_i)
    BY <1>1 DEF WritesOn, Writers
  <2>3. QED  BY <1>1, <2>1, <2>2, SourceKept DEF Loops!At
<1>4. CASE b_i < Extent
  <2>1. b_i' = b_i + 1 /\ b_returned' = FALSE
    BY <1>1, <1>4 DEF Loops!video_scroll, Loops!Iterate, LoopTypes
  <2>2. b_memory' = [b_memory EXCEPT ![b_i] = IF b_i < Extent - black THEN Loops!At(black + b_i) ELSE Blank]
    BY <1>1, <1>4 DEF Loops!video_scroll, Loops!Writes
  <2>3. b_memory' = [b_memory EXCEPT ![b_call.dest + b_i] = NewByte(b_call.dest + b_i)]
    <3> HIDE DEF black
    <3>1. (b_i < Extent - black <=> b_i + black < Extent) /\ b_call.dest + b_i = b_i
      BY <1>1
    <3>2. QED  BY <1>2, <1>3, <2>2, <3>1
  <2>4. b_i + 1 <= Extent /\ b_call.function \in Writers \ {"video_print", "video_clear"}
        /\ b_call.function # "strcat"
    BY <1>1, <1>4 DEF Writers
  <2>5. QED  BY <1>1, <2>1, <2>3, <2>4, WroteOne
<1>5. CASE ~(b_i < Extent)
  <2>1. b_i' = b_i /\ b_memory' = b_memory
    <3> HIDE DEF black
    <3>1. ~(b_i < Loops!ScreenBytes - black)
      BY <1>1, <1>5
    <3>2. QED  BY <1>1, <1>5, <3>1 DEF Loops!video_scroll, Loops!Return, black
  <2>2. Done >= Extent /\ b_call.function \in Writers \ {"strcat"}
    BY <1>1, <1>5 DEF Writers
  <2>3. QED  BY <1>1, <2>1, <2>2, WroteAll
<1>6. QED  BY <1>4, <1>5

-----------------------------------------------------------------------------
\* The comparisons and the dump.

LEMMA CompareStep ==
    ASSUME LoopInv, Called, ~b_returned, Loops!strlen \/ Loops!strcmp \/ Loops!strncmp
    PROVE  Compares' /\ b_call.function \in Comparisons \ {"dump"}
<1>1. /\ b_memory' = b_memory /\ b_memory = b_before /\ b_call.function \in Comparisons \ {"dump"}
      /\ LoopTypes /\ Compares
  BY DEF LoopInv, Compares, Comparisons, Loops!strlen, Loops!strcmp, Loops!strncmp
<1>2. /\ b_call.dest \in Nat /\ b_call.src \in Nat /\ b_call.count \in Nat /\ b_i \in Nat
      /\ b_memory \in [Loops!Bytes -> Byte] /\ \A a : Loops!Read(b_memory, a) \in Int
  BY <1>1, LoopsAssumption DEF LoopTypes, CallSet, Loops!Read
<1>3. /\ \A a : Loops!At(a) = Loops!Read(b_before, a)
      /\ Loops!s1 = Loops!Read(b_before, b_call.dest) /\ Loops!s2 = Loops!Read(b_before, b_call.src)
  BY <1>1 DEF Loops!At, Loops!s1, Loops!s2
<1>4. Alike' <=> Alike
  BY DEF Called, Alike
<1>5. CASE Loops!strlen
  <2> DEFINE last == Loops!Length(b_before, b_call.dest)
  <2>1. /\ last \in Nat /\ Loops!Read(b_before, b_call.dest + last) = 0
        /\ \A k \in 0 .. (last - 1) : Loops!Read(b_before, b_call.dest + k) # 0
    BY <1>1, <1>2, StringEnds, LoopsAssumption
  <2>2. b_call.function = "strlen" /\ b_i <= last
    BY <1>1, <1>5 DEF Loops!strlen, Compares
  <2>3. last' = last
    BY DEF Called
  <2> HIDE DEF last
  <2>4. CASE Loops!Read(b_before, b_call.dest + b_i) # 0
    <3>1. b_i' = b_i + 1 /\ ~b_returned'
      BY <1>3, <1>5, <2>4 DEF Loops!strlen, Loops!Iterate
    <3>2. b_i + 1 <= last
      BY <1>2, <2>1, <2>2, <2>4
    <3>3. QED  BY <1>1, <2>2, <2>3, <3>1, <3>2 DEF Called, Compares, last
  <2>5. CASE Loops!Read(b_before, b_call.dest + b_i) = 0
    <3>1. b_i' = b_i /\ b_result' = b_i
      BY <1>3, <1>5, <2>5 DEF Loops!strlen, Loops!Return
    <3>2. b_i = last
      BY <1>2, <2>1, <2>2, <2>5
    <3>3. QED  BY <1>1, <2>2, <2>3, <3>1, <3>2 DEF Called, Compares, last
  <2>6. QED  BY <2>4, <2>5
<1>6. CASE Loops!strcmp
  <2>1. b_call.function = "strcmp"
    BY <1>6 DEF Loops!strcmp
  <2>2. b_returned' /\ b_result' = 0
            => Loops!Read(b_before, b_call.dest) = 0 /\ Loops!Read(b_before, b_call.src) = 0
    <3>1. Loops!s1 \in Int /\ Loops!s2 \in Int
      BY <1>1, <1>2, <1>3
    <3>2. CASE Loops!s1 # Loops!s2
      <4>1. b_result' = Loops!s1 - Loops!s2
        BY <1>6, <3>2 DEF Loops!strcmp, Loops!Return
      <4>2. QED  BY <3>1, <3>2, <4>1
    <3>3. CASE Loops!s1 = Loops!s2 /\ Loops!s1 # 0
      BY <1>6, <3>3 DEF Loops!strcmp
    <3>4. CASE Loops!s1 = Loops!s2 /\ Loops!s1 = 0
      BY <1>3, <3>4
    <3>5. QED  BY <3>2, <3>3, <3>4
  <2>3. QED  BY <1>1, <2>1, <2>2 DEF Called, Compares
<1>7. CASE Loops!strncmp
  <2>1. b_call.function = "strncmp"
    BY <1>7 DEF Loops!strncmp
  <2>2. ASSUME Alike  PROVE b_result' = 0
    <3>1. CASE b_i >= b_call.count
      BY <1>7, <3>1 DEF Loops!strncmp, Loops!Return
    <3>2. CASE ~(b_i >= b_call.count)
      <4>1. 0 \in 0 .. (b_call.count - 1)
        BY <1>2, <3>2
      <4>2. Loops!s1 = Loops!s2 /\ Loops!s1 # 0
        BY <1>2, <1>3, <2>2, <4>1 DEF Alike
      <4>3. b_result' = b_result
        BY <1>7, <3>2, <4>2 DEF Loops!strncmp, Loops!Iterate
      <4>4. QED  BY <1>1, <2>1, <2>2, <4>3 DEF Compares
    <3>3. QED  BY <3>1, <3>2
  <2>3. QED  BY <1>1, <1>4, <2>1, <2>2 DEF Called, Compares
<1>8. QED  BY <1>1, <1>5, <1>6, <1>7

LEMMA DumpStep ==
    ASSUME LoopInv, Called, ~b_returned, Loops!dump
    PROVE  Dumps' /\ Compares' /\ b_call.function = "dump"
<1>1. LoopTypes /\ Dumps /\ b_call.function = "dump" /\ b_memory' = b_memory /\ b_memory = b_before
  BY DEF LoopInv, Compares, Comparisons, Loops!dump
<1>2. Compares'
  BY <1>1 DEF Called, Compares
<1>3. /\ Loops!end' = Loops!end /\ Loops!last_addr' = Loops!last_addr
      /\ Loops!first_addr' = Loops!first_addr /\ (Endless' <=> Endless)
  BY DEF Called, Endless, Loops!end, Loops!last_addr, Loops!first_addr
<1> DEFINE line == b_line_addr
           last == Loops!last_addr
           next == b_line_addr + LineSize
<1>4. /\ line \in Nat /\ line % LineSize = 0 /\ last \in Nat /\ last % LineSize = 0
      /\ LineSize \in Nat \ {0} /\ AddressLimit \in Nat \ {0} /\ AddressLimit % LineSize = 0
      /\ Loops!end \in Nat /\ Loops!end < last + LineSize /\ last + LineSize <= AddressLimit
      /\ b_call.dest \in Nat /\ Loops!first_addr \in Nat /\ Loops!first_addr <= b_call.dest
  BY <1>1, LoopsAssumption, RangeEnds DEF LoopTypes, CallSet, Dumps
<1>5. next % LineSize = 0 /\ (line < AddressLimit => next <= AddressLimit)
  BY <1>4, NextLine
<1>6. CASE Endless
  <2>1. line < AddressLimit /\ last + LineSize = AddressLimit
    BY <1>1, <1>6 DEF Dumps, Endless
  <2>2. line <= last
    BY <1>4, <1>5, <2>1
  <2>3. ~b_returned' /\ b_line_addr' = next % AddressLimit
    BY <2>2 DEF Loops!dump, Loops!Wrap
  <2>4. next % AddressLimit \in 0 .. (AddressLimit - 1) /\ (next % AddressLimit) % LineSize = 0
    <3>1. CASE next = AddressLimit
      <4>1. next % AddressLimit = 0 /\ 0 % LineSize = 0
        BY <1>4, <3>1
      <4>2. QED  BY <1>4, <4>1
    <3>2. CASE next < AddressLimit
      <4>1. next % AddressLimit = next
        BY <1>4, <3>2
      <4>2. QED  BY <1>4, <1>5, <3>2, <4>1
    <3>3. QED  BY <1>4, <1>5, <2>1, <3>1, <3>2
  <2>5. b_line_addr' < AddressLimit /\ b_line_addr' % LineSize = 0
    BY <1>4, <2>3, <2>4
  <2>6. QED  BY <1>1, <1>2, <1>3, <1>6, <2>3, <2>5 DEF Dumps, Called
<1>7. CASE ~Endless
  <2>1. /\ ~b_repeated
        /\ line \in Loops!first_addr .. (last + LineSize) \cup {Loops!first_addr}
        /\ b_shown = {a \in b_call.dest .. Loops!end : a < line}
    BY <1>1, <1>7 DEF Dumps
  <2>2. CASE line <= last
    <3>1. next <= last + LineSize /\ next < AddressLimit
      BY <1>4, <1>7, <2>2 DEF Endless
    <3>2. b_line_addr' = next
      <4>1. next % AddressLimit = next
        BY <1>4, <3>1
      <4>2. QED  BY <2>2, <4>1 DEF Loops!dump, Loops!Wrap
    <3>3. Loops!printed = {a \in line .. (line + LineSize - 1) : b_call.dest <= a /\ a <= Loops!end}
      BY DEF Loops!printed
    <3>4. /\ b_shown \cap Loops!printed = {}
          /\ b_shown \cup Loops!printed = {a \in b_call.dest .. Loops!end : a < next}
      BY <1>4, <2>1, <3>3
    <3>5. /\ b_shown' = {a \in b_call.dest .. Loops!end : a < next}
          /\ ~b_repeated' /\ ~b_returned'
      BY <2>1, <2>2, <3>4 DEF Loops!dump
    <3>6. next \in Loops!first_addr .. (last + LineSize)
      BY <1>4, <2>1, <3>1
    <3>7. QED  BY <1>1, <1>2, <1>3, <1>5, <1>7, <3>2, <3>5, <3>6 DEF Dumps, Called
  <2>3. CASE ~(line <= last)
    <3>1. b_line_addr' = line /\ b_shown' = b_shown /\ b_repeated' = b_repeated
      BY <2>3 DEF Loops!dump
    <3>2. line > last
      BY <1>4, <2>3
    <3>3. QED  BY <1>1, <1>2, <1>3, <1>7, <2>1, <3>1, <3>2, <1>4 DEF Dumps, Called
  <2>4. QED  BY <2>2, <2>3
<1>8. QED  BY <1>6, <1>7

-----------------------------------------------------------------------------
\* Types.

LEMMA LoopTypesStep ==
    ASSUME LoopTypes, Loops!Next
    PROVE  LoopTypes'
<1>1. /\ b_call \in CallSet /\ b_before \in [Loops!Bytes -> Byte] /\ b_memory \in [Loops!Bytes -> Byte]
      /\ b_i \in Nat /\ b_result \in Int /\ b_line_addr \in Nat /\ b_shown \subseteq Int
      /\ Byte \subseteq Int /\ 0 \in Byte /\ Blank \in Byte
      /\ b_call.value \in Byte /\ b_call.dest \in Nat
  BY LoopsAssumption DEF LoopTypes, CallSet
<1>2. \A a : Loops!At(a) \in Byte /\ Loops!At(a) \in Int
  BY <1>1 DEF Loops!At, Loops!Read
<1>3. b_call' = b_call /\ b_before' = b_before
  BY DEF Loops!Next
<1>4. b_memory' \in [Loops!Bytes -> Byte]
  <2>1. \A a, v : v \in Byte => [b_memory EXCEPT ![a] = v] \in [Loops!Bytes -> Byte]
    BY <1>1
  <2>2. \A a, b, v, w : v \in Byte /\ w \in Byte
            => [b_memory EXCEPT ![a] = v, ![b] = w] \in [Loops!Bytes -> Byte]
    BY <1>1
  <2>3. \/ b_memory' = b_memory
        \/ \E a : \E v \in Byte : b_memory' = [b_memory EXCEPT ![a] = v]
        \/ \E a, b : \E v, w \in Byte : b_memory' = [b_memory EXCEPT ![a] = v, ![b] = w]
    BY <1>1, <1>2 DEF Loops!Next, Loops!dump, Loops!memcpy, Loops!memset, Loops!strcat, Loops!strlen,
       Loops!strcmp, Loops!strncmp, Loops!video_print, Loops!video_clear, Loops!video_scroll, Loops!Writes
  <2>4. QED  BY <1>1, <2>1, <2>2, <2>3
<1>5. b_i' \in Nat /\ b_returned' \in BOOLEAN /\ b_result' \in Int
  <2>1. \/ b_i' = b_i + 1 /\ b_returned' = b_returned /\ b_result' = b_result
        \/ b_i' = b_i /\ b_returned' = TRUE /\ b_result' \in Int
        \/ b_i' = b_i /\ b_returned' = b_returned /\ b_result' = b_result
    <3>1. CASE Loops!dump
      BY <1>1, <3>1 DEF Loops!dump, Loops!Return
    <3>2. CASE Loops!memcpy \/ Loops!memset \/ Loops!strcat
      BY <1>1, <3>2 DEF Loops!memcpy, Loops!memset, Loops!strcat, Loops!Iterate, Loops!Return
    <3>3. CASE Loops!strlen \/ Loops!strcmp \/ Loops!strncmp
      <4>1. Loops!s1 - Loops!s2 \in Int
        BY <1>2 DEF Loops!s1, Loops!s2
      <4>2. -1 \in Int /\ 0 \in Int /\ b_i \in Int
        BY <1>1
      <4>3. QED
        BY <3>3, <4>1, <4>2 DEF Loops!strlen, Loops!strcmp, Loops!strncmp, Loops!Iterate, Loops!Return
    <3>4. CASE Loops!video_print \/ Loops!video_clear \/ Loops!video_scroll
      BY <1>1, <3>4 DEF Loops!video_print, Loops!video_clear, Loops!video_scroll, Loops!Iterate, Loops!Return
    <3>5. CASE UNCHANGED <<b_i, b_result, b_returned>>
      BY <3>5
    <3>6. QED  BY <3>1, <3>2, <3>3, <3>4, <3>5 DEF Loops!Next
  <2>2. b_returned \in BOOLEAN
    BY DEF LoopTypes
  <2>3. b_returned' \in BOOLEAN
    BY <2>1, <2>2
  <2>4. b_i' \in Nat /\ b_result' \in Int
    BY <1>1, <2>1
  <2>5. QED  BY <2>3, <2>4
<1>6. b_line_addr' \in Nat /\ b_shown' \subseteq Int /\ b_repeated' \in BOOLEAN
  <2>1. CASE Loops!dump /\ b_line_addr <= Loops!last_addr
    <3>1. /\ b_line_addr' = (b_line_addr + LineSize) % AddressLimit
          /\ b_shown' = b_shown \cup Loops!printed
          /\ b_repeated' \in BOOLEAN
      BY <2>1 DEF Loops!dump, Loops!Wrap
    <3>2. (b_line_addr + LineSize) % AddressLimit \in Nat
      BY <1>1, LoopsAssumption
    <3>3. Loops!printed \subseteq Int
      BY <1>1, LoopsAssumption DEF Loops!printed
    <3>4. QED  BY <1>1, <3>1, <3>2, <3>3
  <2>2. CASE UNCHANGED <<b_line_addr, b_shown, b_repeated>>
    BY <2>2, <1>1 DEF LoopTypes
  <2>3. QED  BY <2>1, <2>2 DEF Loops!Next, Loops!dump
<1>7. Loops!Bytes' = Loops!Bytes
  OBVIOUS
<1>8. QED  BY <1>1, <1>3, <1>4, <1>5, <1>6, <1>7 DEF LoopTypes

LEMMA LoopInitial == Loops!Init => LoopInv
<1> SUFFICES ASSUME Loops!Init PROVE LoopInv
  OBVIOUS
<1>1. /\ b_before = b_memory /\ b_line_addr = Loops!first_addr /\ b_i = 0 /\ b_result = 0
      /\ b_shown = {} /\ b_repeated = FALSE /\ b_returned = FALSE
  BY DEF Loops!Init
<1>2. /\ Filled \in Nat /\ AddressLimit \in Nat \ {0} /\ 0 \in Byte /\ Byte \subseteq Int
      /\ LineSize \in Nat \ {0}
  BY LoopsAssumption
<1>3. b_memory \in [Loops!Bytes -> Byte]
  BY <1>2 DEF Loops!Init
<1>4. b_call \in CallSet /\ Separate
  <2>1. CASE Loops!Calls
    <3>1. PICK dest \in Loops!Bytes, src \in Loops!Bytes, count \in 0 .. Filled, value \in Byte :
              \/ \E f \in {"memset", "memcpy", "strncmp"} :
                     \E s \in {0, src}, v \in {0, value} : Loops!Call(f, dest, s, count, v)
              \/ Loops!Call("strlen", dest, 0, 0, 0) \/ Loops!Call("strcmp", dest, src, 0, 0)
              \/ /\ Loops!Apart(dest, src, Loops!Length(b_memory, src) + 1)
                 /\ Loops!Call("strcat", dest, src, 0, 0)
              \/ /\ \/ dest + Loops!Length(b_memory, src) * Loops!CellSize <= src
                    \/ src + Loops!Length(b_memory, src) < dest
                 /\ Loops!Call("video_print", dest, src, 0, value)
              \/ Loops!Call("video_clear", dest, 0, 0, 0)
              \/ Loops!Call("video_scroll", 0, 0, count, 0)
      BY <2>1 DEF Loops!Calls
    <3>2. dest \in Nat /\ src \in Nat /\ count \in Nat
      BY <1>2 DEF Loops!Bytes
    <3>3. b_call \in CallSet
      BY <1>2, <3>1, <3>2 DEF Loops!Call, CallSet, Writers, Comparisons
    <3>4. CASE \E f \in {"memset", "memcpy", "strncmp"} :
                   \E t \in {0, src}, v \in {0, value} : Loops!Call(f, dest, t, count, v)
      BY <3>3, <3>4 DEF Loops!Call, Separate
    <3>5. CASE \/ Loops!Call("strlen", dest, 0, 0, 0) \/ Loops!Call("strcmp", dest, src, 0, 0)
               \/ Loops!Call("video_clear", dest, 0, 0, 0)
               \/ Loops!Call("video_scroll", 0, 0, count, 0)
      BY <3>3, <3>5 DEF Loops!Call, Separate
    <3>6. CASE /\ Loops!Apart(dest, src, Loops!Length(b_memory, src) + 1)
               /\ Loops!Call("strcat", dest, src, 0, 0)
      <4>1. b_call.function = "strcat" /\ b_call.dest = dest /\ b_call.src = src
        BY <3>6 DEF Loops!Call
      <4>2. Extent = Loops!Length(b_memory, src) + 1
        BY <1>1, <4>1 DEF Extent
      <4>3. QED  BY <3>3, <3>6, <4>1, <4>2 DEF Separate
    <3>7. CASE /\ \/ dest + Loops!Length(b_memory, src) * Loops!CellSize <= src
                  \/ src + Loops!Length(b_memory, src) < dest
               /\ Loops!Call("video_print", dest, src, 0, value)
      <4> DEFINE last == Loops!Length(b_memory, src)
      <4>1. last \in Nat
        BY <1>2, <1>3, <3>2, StringEnds
      <4>2. dest + last * 2 <= src \/ src + last < dest
        BY <3>7 DEF Loops!CellSize
      <4>3. b_call.function = "video_print" /\ b_call.dest = dest /\ b_call.src = src
        BY <3>7 DEF Loops!Call
      <4>4. Extent = last * 2
        BY <1>1, <4>3 DEF Extent
      <4> HIDE DEF last
      <4>5. (last * 2) \div 2 = last
        BY <4>1
      <4>6. QED  BY <3>3, <4>2, <4>3, <4>4, <4>5 DEF Separate
    <3>8. QED  BY <3>1, <3>4, <3>5, <3>6, <3>7
  <2>2. CASE \E dest, count \in Loops!Address : Loops!Call("dump", dest, 0, count, 0)
    BY <1>2, <2>2 DEF Loops!Call, Loops!Address, CallSet, Separate, Writers, Comparisons
  <2>3. QED  BY <2>1, <2>2 DEF Loops!Init
<1>5. LoopTypes
  <2>1. Loops!first_addr \in Nat
    BY <1>4, LineOf DEF CallSet, Loops!first_addr
  <2>2. b_i \in Nat /\ b_result \in Int /\ b_line_addr \in Nat /\ b_shown \subseteq Int
    BY <1>1, <2>1
  <2>3. b_returned \in BOOLEAN /\ b_repeated \in BOOLEAN
    BY <1>1
  <2>4. b_before \in [Loops!Bytes -> Byte]
    BY <1>1, <1>3
  <2>5. QED  BY <1>3, <1>4, <2>2, <2>3, <2>4 DEF LoopTypes
<1>6. WritesOn
  <2>1. Done = 0
    BY <1>1 DEF Done
  <2>2. ASSUME b_call.function \in Writers
        PROVE  Extent \in Nat /\ (b_call.function = "strcat" => Extent > 0)
    <3>1. Loops!Length(b_before, b_call.src) \in Nat
      BY <1>2, <1>4, <1>5, StringEnds DEF LoopTypes, CallSet
    <3>2. QED  BY <1>4, <2>2, <3>1, ScreenSizes DEF Extent, Writers, CallSet
  <2>3. HasWritten(b_memory, 0)
    BY <1>1, <1>5 DEF HasWritten, LoopTypes, CallSet
  <2>4. QED  BY <1>1, <2>1, <2>2, <2>3 DEF WritesOn
<1>7. Compares
  <2>1. b_call.function = "strlen" => Loops!Length(b_before, b_call.dest) \in Nat
    BY <1>2, <1>4, <1>5, StringEnds DEF LoopTypes, CallSet
  <2>2. QED  BY <1>1, <2>1 DEF Compares
<1>8. Dumps
  <2>1. /\ Loops!first_addr \in Nat /\ Loops!first_addr % LineSize = 0
        /\ Loops!first_addr <= b_call.dest /\ b_call.dest \in Nat /\ Loops!end \in Nat
    BY <1>5, RangeEnds DEF LoopTypes, CallSet
  <2>2. ASSUME b_call.function = "dump"  PROVE b_call.dest < AddressLimit
    <3>1. ~Loops!Calls
      BY <2>2 DEF Loops!Calls, Loops!Call
    <3>2. PICK dest \in Loops!Address, count \in Loops!Address : Loops!Call("dump", dest, 0, count, 0)
      BY <3>1 DEF Loops!Init
    <3>3. QED  BY <1>2, <3>2 DEF Loops!Call, Loops!Address
  <2>3. {a \in b_call.dest .. Loops!end : a < b_line_addr} = {}
    BY <1>1, <2>1
  <2>4. b_call.function = "dump" => b_line_addr < AddressLimit
    BY <1>1, <1>2, <2>1, <2>2
  <2>5. QED  BY <1>1, <2>1, <2>3, <2>4 DEF Dumps
<1>9. QED  BY <1>4, <1>5, <1>6, <1>7, <1>8 DEF LoopInv

LEMMA LoopStutters == LoopInv /\ UNCHANGED b_vars => LoopInv'
<1> SUFFICES ASSUME LoopInv, UNCHANGED b_vars PROVE LoopInv'
  OBVIOUS
<1>1. LoopTypes /\ Separate /\ WritesOn /\ Compares /\ Dumps
  BY DEF LoopInv
<1>2. Called /\ UNCHANGED <<b_memory, b_i, b_result, b_line_addr, b_shown, b_repeated, b_returned>>
  BY DEF b_vars, Called
<1>3. Extent' = Extent /\ Done' = Done /\ (Unspoiled' <=> Unspoiled) /\ (Alike' <=> Alike)
  BY <1>2 DEF Called, Extent, Done, Unspoiled, Alike
<1>4. LoopTypes' /\ Separate'
  BY <1>1, <1>2, <1>3 DEF Called, LoopTypes, Separate
<1>5. WritesOn'
  BY <1>1, <1>2, <1>3 DEF Called, WritesOn, HasWritten, NewByte
<1>6. Compares'
  BY <1>1, <1>2, <1>3 DEF Called, Compares
<1>7. Dumps'
  BY <1>1, <1>2 DEF Called, Dumps, Endless, Loops!first_addr, Loops!last_addr, Loops!end
<1>8. QED  BY <1>4, <1>5, <1>6, <1>7 DEF LoopInv

LEMMA LoopStep == LoopInv /\ Loops!Next => LoopInv'
<1> SUFFICES ASSUME LoopInv, Loops!Next PROVE LoopInv'
  OBVIOUS
<1>1. LoopTypes /\ Separate /\ WritesOn /\ Compares /\ Dumps
  BY DEF LoopInv
<1>2. Called /\ LoopTypes'
  BY <1>1, LoopTypesStep DEF Called, Loops!Next
<1>3. Separate'
  <2>1. Extent' = Extent
    BY <1>2 DEF Called, Extent
  <2>2. QED  BY <1>1, <1>2, <2>1 DEF Called, Separate
<1>4. Endless' <=> Endless
  BY <1>2 DEF Called, Endless, Loops!last_addr, Loops!end
<1>5. b_call.function # "dump" /\ UNCHANGED b_repeated => Dumps'
  BY <1>1, <1>2 DEF Called, Dumps
<1>6. b_call.function \notin Comparisons => Compares'
  BY <1>2 DEF Called, Compares, Comparisons
<1>7. b_call.function \notin Writers => WritesOn'
  BY <1>2 DEF Called, WritesOn
<1>8. CASE ~b_returned /\ Loops!dump
  BY <1>2, <1>3, <1>7, <1>8, DumpStep DEF LoopInv, Writers
<1>9. CASE /\ ~b_returned /\ UNCHANGED b_repeated
           /\ Loops!strlen \/ Loops!strcmp \/ Loops!strncmp
  BY <1>2, <1>3, <1>5, <1>7, <1>9, CompareStep DEF LoopInv, Comparisons, Writers
<1>10. CASE /\ ~b_returned /\ UNCHANGED b_repeated
            /\ \/ Loops!memcpy \/ Loops!memset \/ Loops!strcat
               \/ Loops!video_print \/ Loops!video_clear \/ Loops!video_scroll
  <2>1. WritesOn'
    BY <1>2, <1>10, CopyStep, FillStep, AppendStep, PrintStep, ClearStep, ScrollStep
  <2>2. b_call.function \notin Comparisons
    BY <1>10 DEF Comparisons, Loops!memcpy, Loops!memset, Loops!strcat,
       Loops!video_print, Loops!video_clear, Loops!video_scroll
  <2>3. b_call.function # "dump"
    BY <2>2 DEF Comparisons
  <2>4. QED  BY <1>2, <1>3, <1>5, <1>6, <1>10, <2>1, <2>2, <2>3 DEF LoopInv
<1>11. CASE UNCHANGED <<b_memory, b_i, b_result, b_line_addr, b_shown, b_repeated, b_returned>>
  BY <1>2, <1>11, LoopStutters DEF Called, b_vars
<1>12. QED  BY <1>8, <1>9, <1>10, <1>11 DEF Loops!Next

-----------------------------------------------------------------------------
\* What has been written is what was asked for.

LEMMA LoopSafe == LoopInv => Loops!LoopsDoTheirWork
<1> SUFFICES ASSUME LoopInv PROVE Loops!LoopsDoTheirWork
  OBVIOUS
<1>1. LoopTypes /\ WritesOn /\ Compares /\ Dumps
  BY DEF LoopInv
<1>2. b_repeated => Loops!last_addr + LineSize = AddressLimit
  BY <1>1 DEF Dumps, Endless
<1> DEFINE c == b_call
<1>3. /\ c.dest \in Nat /\ c.src \in Nat /\ c.count \in Nat /\ c.function \in Writers \cup Comparisons
      /\ b_memory \in [Loops!Bytes -> Byte]
  BY <1>1 DEF LoopTypes, CallSet
<1>4. ASSUME b_returned, c.function \in Writers, Unspoiled
      PROVE  b_memory = [a \in Loops!Bytes |->
                            IF a \in c.dest .. c.dest + Extent - 1 THEN NewByte(a) ELSE b_before[a]]
  BY <1>1, <1>3, <1>4 DEF WritesOn, HasWritten
<1>5. CASE ~b_returned
  BY <1>2, <1>5 DEF Loops!LoopsDoTheirWork
<1>6. CASE b_returned /\ c.function = "memcpy"
  <2>1. Extent = c.count /\ \A a : NewByte(a) = Loops!Read(b_before, c.src + (a - c.dest))
    BY <1>6 DEF Extent, NewByte
  <2>2. QED  BY <1>2, <1>4, <1>6, <2>1 DEF Loops!LoopsDoTheirWork, Unspoiled, Writers
<1>7. CASE b_returned /\ c.function = "memset"
  <2>1. Extent = c.count /\ \A a : NewByte(a) = c.value
    BY <1>7 DEF Extent, NewByte
  <2>2. QED  BY <1>2, <1>4, <1>7, <2>1 DEF Loops!LoopsDoTheirWork, Unspoiled, Writers
<1>8. CASE b_returned /\ c.function = "strcat"
  <2>1. /\ Extent = Loops!Length(b_before, c.src) + 1
        /\ \A a : NewByte(a) = Loops!Read(b_before, c.src + (a - c.dest))
    BY <1>8 DEF Extent, NewByte
  <2>2. QED  BY <1>2, <1>4, <1>8, <2>1 DEF Loops!LoopsDoTheirWork, Unspoiled, Writers
<1>9. CASE b_returned /\ c.function = "video_print"
  <2> DEFINE last == Loops!Length(b_before, c.src)
  <2>1. last \in Nat
    BY <1>1, <1>3, StringEnds, LoopsAssumption DEF LoopTypes
  <2>2. ((last + 1) - 1) * Loops!CellSize = last * 2
    <3> HIDE DEF last
    <3>1. QED  BY <2>1 DEF Loops!CellSize
  <2>3. /\ Extent = ((last + 1) - 1) * Loops!CellSize
        /\ \A a : NewByte(a) = IF (a - c.dest) % Loops!CellSize = 0
                               THEN Loops!Read(b_before, c.src + (a - c.dest) \div Loops!CellSize)
                               ELSE c.value
    BY <1>9, <2>2 DEF Extent, NewByte, Loops!CellSize
  <2>4. b_memory = [a \in Loops!Bytes |->
                       IF a \in c.dest .. c.dest + ((last + 1) - 1) * Loops!CellSize - 1
                       THEN IF (a - c.dest) % Loops!CellSize = 0
                            THEN Loops!Read(b_before, c.src + (a - c.dest) \div Loops!CellSize)
                            ELSE c.value
                       ELSE b_before[a]]
    BY <1>4, <1>9, <2>3 DEF Unspoiled, Writers
  <2>5. QED  BY <1>2, <1>9, <2>4 DEF Loops!LoopsDoTheirWork
<1>10. CASE b_returned /\ c.function = "video_clear"
  <2>1. Extent = Loops!ScreenBytes /\ \A a : NewByte(a) = 0
    BY <1>10 DEF Extent, NewByte
  <2>2. QED  BY <1>2, <1>4, <1>10, <2>1 DEF Loops!LoopsDoTheirWork, Unspoiled, Writers
<1>11. CASE b_returned /\ c.function = "video_scroll"
  <2>1. /\ Extent = Loops!ScreenBytes
        /\ \A a : NewByte(a) = IF a - c.dest + c.count * Loops!RowSize < Loops!ScreenBytes
                               THEN Loops!Read(b_before, a - c.dest + c.count * Loops!RowSize) ELSE Blank
    BY <1>11 DEF Extent, NewByte
  <2>2. QED  BY <1>2, <1>4, <1>11, <2>1 DEF Loops!LoopsDoTheirWork, Unspoiled, Writers
<1>12. CASE b_returned /\ c.function = "strlen"
  BY <1>1, <1>2, <1>12 DEF Loops!LoopsDoTheirWork, Compares
<1>13. CASE b_returned /\ c.function = "strcmp"
  BY <1>1, <1>2, <1>13 DEF Loops!LoopsDoTheirWork, Compares, Comparisons, Loops!s1, Loops!s2, Loops!At
<1>14. CASE b_returned /\ c.function = "strncmp"
  BY <1>1, <1>2, <1>14 DEF Loops!LoopsDoTheirWork, Compares, Comparisons, Alike, Loops!At
<1>15. CASE b_returned /\ c.function = "dump"
  <2>1. ASSUME c.dest + c.count <= AddressLimit, c.count > 0
        PROVE  b_shown = c.dest .. c.dest + c.count - 1
    <3>1. /\ ~Endless /\ b_line_addr > Loops!last_addr
          /\ b_line_addr \in Loops!first_addr .. (Loops!last_addr + LineSize) \cup {Loops!first_addr}
          /\ b_shown = {a \in c.dest .. Loops!end : a < b_line_addr}
          /\ b_line_addr \in Nat /\ b_line_addr % LineSize = 0
      BY <1>1, <1>15 DEF Dumps, LoopTypes
    <3>2. Loops!end = c.dest + c.count - 1
      <4>1. \A n \in 0 .. (AddressLimit - 1) : n % AddressLimit = n
        BY LoopsAssumption
      <4>2. c.dest + c.count - 1 \in 0 .. (AddressLimit - 1)
        BY <1>3, <2>1, LoopsAssumption
      <4>3. QED  BY <4>1, <4>2 DEF Loops!end, Loops!Wrap
    <3>3. /\ Loops!end < Loops!last_addr + LineSize /\ Loops!last_addr + LineSize <= b_line_addr
          /\ Loops!last_addr \in Nat /\ LineSize \in Nat
      BY <1>1, <3>1, RangeEnds, NextLine, LoopsAssumption
    <3>4. QED  BY <1>3, <3>1, <3>2, <3>3
  <2>2. QED  BY <1>2, <1>15, <2>1 DEF Loops!LoopsDoTheirWork
<1>16. QED
  BY <1>3, <1>5, <1>6, <1>7, <1>8, <1>9, <1>10, <1>11, <1>12, <1>13, <1>14, <1>15 DEF Writers, Comparisons

-----------------------------------------------------------------------------
SupportInv == /\ model = "loops" => LoopInv
              /\ model = "entries" => EntryInv
              /\ model = "startup" => StartInv

LEMMA SupportInitial == SupportInit => SupportInv
BY LoopInitial, EntryInitial, StartInitial DEF SupportInit, SupportInv

LEMMA SupportStep ==
    SupportInv /\ [SupportNext]_<<b_vars, f_vars, c_vars, e_vars, s_vars, model>> => SupportInv'
<1> SUFFICES ASSUME SupportInv,
                    [SupportNext]_<<b_vars, f_vars, c_vars, e_vars, s_vars, model>>
             PROVE  SupportInv'
  OBVIOUS
<1>1. model' = model
  BY DEF SupportNext
<1>2. CASE model = "entries"
  <2>1. EntryInv /\ (Entry!Next \/ UNCHANGED <<e_cpu, e_stack, e_running, e_user, e_message>>)
    BY <1>2 DEF SupportInv, SupportNext, e_vars
  <2>2. EntryInv'
    BY <2>1, EntryStep, EntryStutters
  <2> QED
    BY <1>1, <1>2, <2>2 DEF SupportInv
<1>3. CASE model = "startup"
  <2>1. StartInv /\ (Boot!Next \/ s_vars' = s_vars)
    BY <1>3 DEF SupportInv, SupportNext
  <2>2. StartInv'
    BY <2>1, StartStep, StartStutters
  <2> QED
    BY <1>1, <1>3, <2>2 DEF SupportInv
<1>4. CASE model = "loops"
  <2>1. LoopInv /\ (Loops!Next \/ b_vars' = b_vars)
    BY <1>4 DEF SupportInv, SupportNext
  <2>2. LoopInv'
    BY <2>1, LoopStep, LoopStutters
  <2> QED
    BY <1>1, <1>4, <2>2 DEF SupportInv
<1> QED
  BY <1>1, <1>2, <1>3, <1>4 DEF SupportInv

\* What holds of the loops, of the entry of interrupts and of the kernel's start in
\* every state.
THEOREM SupportInvariance == SupportSpec => []SupportInv
BY SupportInitial, SupportStep, PTL DEF SupportSpec

\* The stubs of src/isr_.s and src/irq_.s: interrupted code and handlers find the
\* registers they should, and a kernel that halts names the exception.
THEOREM EntriesRestore == SupportSpec => []EntriesAreTransparent
<1>1. SupportInv => EntriesAreTransparent
  BY EntrySafe DEF SupportInv, EntriesAreTransparent
<1> QED
  BY <1>1, SupportInvariance, PTL

\* kmain: nothing is used before it is set up, and it reads from drive 0 if the
\* CMOS names a drive that the driver supports.
THEOREM KernelStarts == SupportSpec => []StartsInOrder
<1>1. SupportInv => StartsInOrder
  BY StartSafe DEF SupportInv, StartsInOrder
<1> QED
  BY <1>1, SupportInvariance, PTL

\* string.cpp, video.cpp and the dumps: each loop does for blocks of any length,
\* strings and screens of any size what its callers rely on.
THEOREM LoopsAreRight == SupportSpec => []LoopsDoTheirWork
<1>1. SupportInv => LoopsDoTheirWork
  BY LoopSafe DEF SupportInv, LoopsDoTheirWork
<1> QED
  BY <1>1, SupportInvariance, PTL
=============================================================================
