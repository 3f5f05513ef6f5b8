--------------------------- MODULE InterruptEntry ---------------------------
(***************************************************************************)
(* How an exception or an interrupt reaches its handler and returns: the   *)
(* descriptors (src/gdt.cpp, src/idt.cpp), the gates isr::init and         *)
(* irq::init set, the entry stubs (src/isr_.s, src/irq_.s), the structure  *)
(* cpu_state as which the handlers read the stack (src/system.h), and the  *)
(* handlers as far as they return (src/isr.cpp, src/irq.cpp).  Exceptions  *)
(* nest: the stubs clear the interrupt flag, which does not hold them back *)
(* (a handler that prints or allocates may meet a page that is only        *)
(* reserved).  Task switches are the matter of Scheduler.                  *)
(***************************************************************************)
EXTENDS Integers, Sequences, SequencesExt

CONSTANTS
    HalfSize,   \* values of 16 bits, the half of an address in a gate
    MaxNest     \* bound: interruptions under way

VARIABLES
    cpu,        \* the registers, of the code that runs
    stack,      \* the words on the kernel stack, the top last
    running,    \* the interruptions under way: [vector, error]
    user,       \* the interrupted code is a task, in ring 3
    message     \* what the kernel has halted with, "none" while it runs

vars == <<cpu, stack, running, user, message>>

-----------------------------------------------------------------------------
\* The global descriptor table: bases and limits are 0 and 0xFFFFF but for the
\* task state segment's, so that only the access byte tells the entries apart.
PRESENT == 128
RING_3 == 96
CODE_SEG == 26
DATA_SEG == 18
TSS == 9
gdt_access == <<0, PRESENT + CODE_SEG, PRESENT + DATA_SEG, PRESENT + CODE_SEG + RING_3,
                PRESENT + DATA_SEG + RING_3, PRESENT + TSS + RING_3>>

\* The privilege level of the segment a selector names.
Ring(selector) == (gdt_access[(selector \div 8) + 1] \div 32) % 4

KernelCode == 8
KernelData == 16
UserCode == 24 + 3
UserData == 32 + 3

\* set_gate splits the address of a stub; the CPU puts it together.  The stubs
\* of the 32 exceptions and of the 16 lines are numbered by their vectors.
Vectors == 0 .. 47
stub_address(v) == 3 + 5 * v

set_gate(base) == [base_lo |-> base % HalfSize, base_hi |-> (base \div HalfSize) % HalfSize]
s_idt == [v \in Vectors |-> set_gate(stub_address(v))]

stub_of(v) == CHOOSE s \in Vectors : stub_address(s) = s_idt[v].base_lo + s_idt[v].base_hi * HalfSize

\* irq_remap: lines 0 to 7 from 0x20 on, lines 8 to 15 from 0x28 on.
vector_of(line) == IF line < 8 THEN 32 + line ELSE 40 + (line - 8)

\* Exceptions the CPU raises in this kernel, what they mean, and those with an
\* error code.  Alignment checks, which have one, are not enabled.
Meaning == {<<0, "DivisionByZero">>, <<1, "Debug">>, <<3, "Breakpoint">>,
            <<4, "IntoDetectedOverflow">>, <<5, "OutOfBounds">>, <<6, "InvalidOpcode">>,
            <<7, "NoCoprocessor">>, <<8, "DoubleFault">>, <<10, "BadTSS">>,
            <<11, "SegmentNotPresent">>, <<12, "StackFault">>,
            <<13, "GeneralProtectionFault">>, <<14, "PageFault">>, <<16, "CoprocessorFault">>}
Exceptions == {m[1] : m \in Meaning}
WithErrorCode == {8, 10, 11, 12, 13, 14}

-----------------------------------------------------------------------------
General == {"edi", "esi", "ebp", "ebx", "edx", "ecx", "eax"}
Segments == {"ds", "es", "fs", "gs"}
Registers == General \cup Segments \cup {"eip", "cs", "eflags", "esp", "ss"}

\* A value tells what it is and whose: the code's depth of interruption, or a
\* selector, a stack height, a number.
Selector(s) == <<"selector", s>>

\* The registers of a handler, and of the code the first interruption meets.
Code(depth, cs, data, esp) ==
    [g \in Registers |->
        CASE g \in Segments \cup {"ss"} -> Selector(data)
          [] g = "cs" -> Selector(cs)
          [] g = "esp" -> esp
          [] OTHER -> <<g, depth>>]

Height == <<"height", Len(stack)>>

Init == /\ user \in BOOLEAN
        /\ cpu = IF user THEN Code(0, UserCode, UserData, <<"user_stack", 0>>)
                         ELSE Code(0, KernelCode, KernelData, <<"height", 2>>)
        /\ stack = IF user THEN <<>> ELSE <<<<"kmain", 1>>, <<"kmain", 2>>>>
        /\ running = <<>>
        /\ message = "none"

\* What the CPU pushes, with the stack of a task if it leaves ring 3.
CpuPushes(error) ==
    (IF Ring(cpu["cs"][2]) = 3 THEN <<cpu["ss"], cpu["esp"]>> ELSE <<>>)
        \o <<cpu["eflags"], cpu["cs"], cpu["eip"]>> \o error

\* Mutant: a stub with an error code as the others have.
isr_stub_e_AllButPageFault == {8, 10, 11, 12, 13}

isr_stub_e == {8, 10, 11, 12, 13, 14}

\* isr_stub, isr_stub_e and irq_stub.
StubPushes(v) == IF v \in isr_stub_e THEN <<<<"int_no", v>>>>
                 ELSE <<<<"error", 0>>, <<"int_no", v>>>>

\* pushad and the segment registers; the esp it pushes is never read back.
CommonPushes == <<cpu["eax"], cpu["ecx"], cpu["edx"], cpu["ebx"], <<"esp", 0>>, cpu["ebp"],
                  cpu["esi"], cpu["edi"], cpu["ds"], cpu["es"], cpu["fs"], cpu["gs"]>>

\* Up to the call of the handler, whose argument is the height of the stack.
Enter(v, error) ==
    /\ message = "none" /\ Len(running) < MaxNest
    /\ stack' = stack \o CpuPushes(error) \o StubPushes(stub_of(v)) \o CommonPushes
    /\ running' = Append(running, [vector |-> v, error |-> error])
    /\ cpu' = Code(Len(running) + 1, KernelCode, KernelData, <<"height", Len(stack')>>)
    /\ UNCHANGED <<user, message>>

\* Interrupts are enabled in the interrupted code only.
Interrupt(line) == running = <<>> /\ Enter(vector_of(line), <<>>)

Exception(v) ==
    /\ v = 14 \/ running = <<>>
    /\ \/ v \in WithErrorCode /\ \E code \in 0 .. 1 : Enter(v, <<<<"error", code>>>>)
       \/ v \notin WithErrorCode /\ Enter(v, <<>>)

\* cpu_state, from the top of the stack on.
cpu_state == <<"gs", "fs", "es", "ds", "edi", "esi", "ebp", "esp", "ebx", "edx", "ecx", "eax",
               "int_no", "err_code", "eip", "cs", "eflags", "useresp", "ss">>

Index(field) == CHOOSE k \in DOMAIN cpu_state : cpu_state[k] = field

\* r->field
r(field) == stack[Len(stack) + 1 - Index(field)]

int_no == r("int_no")[2]

\* irq_handler returns the frame it was called with, but for task switches; of
\* the exceptions fault_handler only returns from page faults it has handled.
Returns == int_no >= 32 \/ int_no = 14

\* The messages of fault_handler, by vector from 0 on.
exception_messages ==
    <<"DivisionByZero", "Debug", "NonMaskableInterrupt", "Breakpoint",
      "IntoDetectedOverflow", "OutOfBounds", "InvalidOpcode", "NoCoprocessor",
      "DoubleFault", "CoprocessorSegmentOverrun", "BadTSS", "SegmentNotPresent",
      "StackFault", "GeneralProtectionFault", "PageFault", "UnknownInterrupt",
      "CoprocessorFault", "AlignmentCheck", "MachineCheck">>
        \o [n \in 1 .. 13 |-> "Reserved"]

\* The n-th word from the top.
Popped(n) == stack[Len(stack) + 1 - n]

\* What the end of both common stubs pops, in the order of the pushes, and iret.
Restored(words) ==
    [g \in Registers |->
        CASE g = "gs" -> Popped(1) [] g = "fs" -> Popped(2)
          [] g = "es" -> Popped(3) [] g = "ds" -> Popped(4)
          [] g = "edi" -> Popped(5) [] g = "esi" -> Popped(6)
          [] g = "ebp" -> Popped(7) [] g = "ebx" -> Popped(9)
          [] g = "edx" -> Popped(10) [] g = "ecx" -> Popped(11)
          [] g = "eax" -> Popped(12) [] g = "eip" -> Popped(15)
          [] g = "cs" -> Popped(16) [] g = "eflags" -> Popped(17)
          [] g = "esp" -> IF words = 19 THEN Popped(18) ELSE <<"height", Len(stack) - words>>
          [] OTHER -> IF words = 19 THEN Popped(19) ELSE cpu["ss"]]

\* iret pops the stack of a task if it returns to ring 3.
Leave ==
    /\ message = "none" /\ running # <<>> /\ Returns
    /\ LET words == IF Ring(Popped(16)[2]) = 3 THEN 19 ELSE 17
       IN  /\ cpu' = Restored(words)
           /\ stack' = SubSeq(stack, 1, Len(stack) - words)
    /\ running' = Front(running)
    /\ UNCHANGED <<user, message>>

\* fault_handler's for(;;), after all other exceptions, whose message it prints,
\* and page faults it cannot handle, which paging_handle_fault names.
Halt == /\ message = "none" /\ running # <<>> /\ int_no < 32
        /\ message' = exception_messages[int_no + 1]
        /\ UNCHANGED <<cpu, stack, running, user>>

Halted == message # "none" /\ UNCHANGED vars

Next == \/ \E line \in 0 .. 15 : Interrupt(line)
        \/ \E v \in Exceptions : Exception(v)
        \/ Leave \/ Halt \/ Halted

-----------------------------------------------------------------------------
\* A handler finds the number of its vector, the error code and the registers
\* of the code it interrupted where cpu_state has them, and that code goes on
\* with the registers and the stack it had, at any depth of page faults.  A kernel
\* that halts names the exception that the CPU has raised.
EntriesAreTransparent ==
    LET depth == Len(running)
    IN  /\ IF depth = 0 THEN cpu = Code(0, IF user THEN UserCode ELSE KernelCode,
                                           IF user THEN UserData ELSE KernelData,
                                           IF user THEN <<"user_stack", 0>> ELSE Height)
           ELSE /\ cpu = Code(depth, KernelCode, KernelData, Height)
                /\ int_no = running[depth].vector
                /\ r("err_code") = (IF running[depth].error = <<>> THEN <<"error", 0>>
                                    ELSE running[depth].error[1])
                /\ \A g \in General \cup {"eip", "eflags"} : r(g) = <<g, depth - 1>>
                /\ user /\ depth = 1 =>
                        r("useresp") = <<"user_stack", 0>> /\ r("ss") = Selector(UserData)
        /\ depth = 0 => Len(stack) = IF user THEN 0 ELSE 2
        /\ message # "none" => <<running[depth].vector, message>> \in Meaning
=============================================================================
