------------------------------- MODULE Startup -------------------------------
(***************************************************************************)
(* The kernel from its static constructors (src/loader.s) through kmain's  *)
(* calls (src/kernel.cpp) to the first read from the device that the       *)
(* driver and device managers have found.  Interrupts arrive as soon as    *)
(* they are enabled, between any two calls.                                *)
(***************************************************************************)
EXTENDS Integers, Sequences, SequencesExt

CONSTANT MaxObjects   \* the entries of the table of destructors, 32

VARIABLES
    pc,             \* the call of kmain that is next; 0: constructors run
    constructed,    \* the static objects whose constructors have run
    object,         \* of cppsupp.cpp: the objects that wait for a destructor
    s_probe_funcs,
    probed,         \* how many of them probe_all has called
    memory,         \* whether mm::init has laid out the pools and unmapped low memory
    tables,         \* the descriptor tables that are loaded or filled
    irq_routines,
    enabled,        \* EFLAGS.IF
    cmos,           \* the drive types in CMOS register 0x10
    _devices,       \* of devmgr: what add_device was given
    floppy0,        \* kmain's: what get returned
    outcome,        \* of kmain's read
    early           \* history: what was used before it was set up

machine == <<tables, irq_routines, enabled>>
drivers == <<s_probe_funcs, probed, _devices, floppy0>>
vars == <<pc, constructed, object, memory, machine, cmos, drivers, outcome, early>>

\* Those of kheap.cpp, physical.cpp, scheduler.cpp and console.cpp, and floppy.cpp's
\* REGISTER_DRIVER, the only one: of the 16 entries of s_probe_funcs one is used.
Objects == {"heap_chunk_groups", "pools", "s_task_list", "console", "floppy_probe"}

\* FloppyDriveType: a type is 4 bits, the table of names has 8 entries.
NoDrive == 0
Types == 0 .. 8       \* 8 stands for 8 .. 15
Supported == {2, 4}   \* 1.2 MB and 1.44 MB: sectors_per_cyl is not 0
Named == 0 .. 7

\* Mutant: interrupts are enabled as soon as they have gates.
kmain_EnableEarly ==
    <<"sparta", "parse_command_line", "mm", "check_cpu", "gdt", "idt", "isr", "irq",
      "interrupts_enable", "keyboard", "scheduler", "syscall", "floppy",
      "probe_all", "get", "read", "stay">>

\* What kmain calls, in order.
kmain == <<"sparta", "parse_command_line", "mm", "check_cpu", "gdt", "idt", "isr", "irq",
           "keyboard", "scheduler", "syscall", "floppy", "interrupts_enable",
           "probe_all", "get", "read", "stay">>

\* A device as the list remembers it.  get takes each for a block device.
DriverTreeNode(n, class, type) == [name |-> n, class |-> class, type |-> type]
Controller == DriverTreeNode("/floppy", "controller", NoDrive)
Drive(type) == DriverTreeNode("/floppy/0", "drive", type)
NullPtr == DriverTreeNode("none", "null", NoDrive)

Init == /\ pc = 0 /\ constructed = {} /\ object = <<>> /\ memory = FALSE
        /\ s_probe_funcs = <<>> /\ probed = 0 /\ _devices = <<>> /\ floppy0 = NullPtr
        /\ tables = {} /\ irq_routines = [line \in 0 .. 15 |-> "none"] /\ enabled = FALSE
        /\ cmos \in [first : Types, second : {NoDrive, 4}]
        /\ outcome = "none" /\ early = {}

Ready == constructed \cup tables \cup (IF memory THEN {"memory"} ELSE {"low_memory"})
                    \cup (IF enabled THEN {"interrupts"} ELSE {})
Uses(things) == early' = early \cup (things \ Ready)

\* Where the compiler registers destructors: a full table takes no more.  Nothing
\* ever calls __cxa_finalize.
iObject == Len(object)
__cxa_atexit(p) == IF iObject >= MaxObjects THEN object ELSE Append(object, p)

\* The table of probe functions is not checked for room.
reg_probe(probe_func) == Append(s_probe_funcs, probe_func)

\* static_ctors_loop: the order is the linker's.  Of the constructors only
\* REGISTER_DRIVER's calls anything, reg_probe; s_task_list has a destructor, for
\* which the compiler may call __cxa_atexit.
Construct(o) ==
    /\ pc = 0 /\ o \in Objects \ constructed
    /\ constructed' = constructed \cup {o}
    /\ object' \in {object, IF o = "s_task_list" THEN __cxa_atexit(o) ELSE object}
    /\ s_probe_funcs' = IF o = "floppy_probe" THEN reg_probe(o) ELSE s_probe_funcs
    /\ UNCHANGED <<pc, memory, machine, cmos, probed, _devices, floppy0, outcome, early>>

CallKmain == /\ pc = 0 /\ constructed = Objects
             /\ pc' = 1
             /\ UNCHANGED <<constructed, object, memory, machine, cmos, drivers, outcome, early>>

Call(name) == pc > 0 /\ kmain[pc] = name /\ outcome = "none"
Return == pc' = pc + 1 /\ UNCHANGED <<constructed, object, cmos, outcome>>

\* The banner, what the boot loader says of itself, and the CPU's name.
Prints(name, needed) == /\ Call(name) /\ Return
                        /\ Uses({"console"} \cup needed)
                        /\ UNCHANGED <<memory, machine, drivers>>

sparta == Prints("sparta", {})
check_cpu == Prints("check_cpu", {})

\* The boot loader's data, where it has any of it, is at a physical address, which
\* loader.s keeps mapped.
parse_command_line == \E needed \in {{}, {"low_memory"}} : Prints("parse_command_line", needed)

\* mm::init reads the boot loader's map, lays the pools out and unmaps low memory.
InitMemory == /\ Call("mm") /\ Return
              /\ memory' = TRUE
              /\ Uses({"console", "pools", "low_memory"})
              /\ UNCHANGED <<machine, drivers>>

\* gdt::init and idt::init load tables; isr::init and irq::init fill gates, which
\* name the code segment, irq::init after it has moved the lines to 32 .. 47.
InitTable(name, needed) ==
    /\ Call(name) /\ Return
    /\ tables' = tables \cup {name}
    /\ Uses(needed)
    /\ UNCHANGED <<memory, irq_routines, enabled, drivers>>

gdt_init == InitTable("gdt", {})
idt_init == InitTable("idt", {})
isr_init == InitTable("isr", {"gdt"})
irq_init == InitTable("irq", {"gdt"})

\* irq::install_handler, and who calls it for which line.
install_handler(name, line) ==
    /\ Call(name) /\ Return
    /\ irq_routines' = [irq_routines EXCEPT ![line] = name]
    /\ UNCHANGED <<memory, tables, enabled, drivers, early>>

keyboard_init == install_handler("keyboard", 1)
scheduler_init == install_handler("scheduler", 0)
syscall_init == install_handler("syscall", 3)
floppy_init == install_handler("floppy", 6)

interrupts_enable == /\ Call("interrupts_enable") /\ Return
                     /\ enabled' = TRUE
                     /\ UNCHANGED <<memory, tables, irq_routines, drivers, early>>

\* What floppy_probe adds.  It makes a second drive as well, which it forgets.
Found ==
    IF cmos.first = NoDrive /\ cmos.second = NoDrive THEN <<>>
    ELSE <<Controller>> \o (IF cmos.first = NoDrive THEN <<>> ELSE <<Drive(cmos.first)>>)

\* probe_all calls floppy_probe: devices and the nodes of the list are allocated,
\* and add_device prints the name of a drive's type, which for the types above 7
\* is read behind the table and may be no pointer.
CallProbe ==
    /\ Call("probe_all") /\ probed < Len(s_probe_funcs)
    /\ probed' = probed + 1
    /\ _devices' = _devices \o Found
    /\ Uses({"memory", "heap_chunk_groups", "console"})
    /\ \/ outcome' = "none"
       \/ outcome' = "page_fault" /\ \E d \in Range(Found) : d.type \notin Named
    /\ UNCHANGED <<pc, constructed, object, memory, machine, cmos, s_probe_funcs, floppy0>>

ProbesDone == /\ Call("probe_all") /\ probed = Len(s_probe_funcs)
              /\ Return
              /\ UNCHANGED <<memory, machine, drivers, early>>

\* devmgr.get("/floppy/0"): the first of that name, or nullptr.
Get == /\ Call("get") /\ Return
       /\ LET matching == {n \in DOMAIN _devices : _devices[n].name = "/floppy/0"}
          IN  floppy0' = IF matching = {} THEN NullPtr ELSE _devices[Min(matching)]
       /\ UNCHANGED <<memory, machine, s_probe_funcs, probed, _devices, early>>

\* floppy0->read: through a null pointer, in page 0, which is not mapped; or
\* read_block, which divides by sectors_per_cyl() and waits for the interrupts
\* of the controller.
Read == /\ Call("read")
        /\ outcome' = IF floppy0 = NullPtr THEN "page_fault"
                      ELSE IF floppy0.type \notin Supported THEN "divide_error"
                      ELSE "reads"
        /\ pc' = IF outcome' = "reads" THEN pc + 1 ELSE pc
        /\ Uses(IF outcome' = "reads" THEN {"interrupts"} ELSE {"gdt", "idt", "isr"})
        /\ UNCHANGED <<constructed, object, memory, machine, cmos, drivers>>

\* What a handler works on.
WorksOn(handler) == CASE handler = "scheduler" -> {"s_task_list"}
                      [] handler = "keyboard" -> {"console"}
                      [] OTHER -> {}

\* An interrupt of the timer, the keyboard or, during the read, the controller:
\* irq_handler calls the routine of its line.
irq_handler(line) ==
    /\ enabled /\ outcome \in {"none", "reads"}
    /\ line = 6 => outcome = "reads"
    /\ Uses({"gdt", "idt", "irq"} \cup WorksOn(irq_routines[line])
            \cup (IF irq_routines[line] = "none" THEN {"handler"} ELSE {}))
    /\ UNCHANGED <<pc, constructed, object, memory, machine, cmos, drivers, outcome>>

Stay == /\ outcome # "none" /\ UNCHANGED vars

Next == \/ \E o \in Objects : Construct(o)
        \/ CallKmain \/ sparta \/ parse_command_line \/ InitMemory \/ check_cpu
        \/ gdt_init \/ idt_init \/ isr_init \/ irq_init
        \/ keyboard_init \/ scheduler_init \/ syscall_init \/ floppy_init
        \/ interrupts_enable \/ CallProbe \/ ProbesDone \/ Get \/ Read
        \/ \E line \in {0, 1, 6} : irq_handler(line)
        \/ Stay

-----------------------------------------------------------------------------
\* Whatever order the linker gives the constructors and whenever interrupts
\* arrive, nothing is used before it is set up, and no destructor waits for an
\* object that was not constructed; kmain reads from the first drive
\* and stops before the loop only on a machine without one or with one of a type
\* the driver has no sectors or no name for.  The boot loader's data and its command
\* line are taken to lie in the memory loader.s maps; see BootMemory for others.
StartsInOrder ==
    /\ early = {}
    /\ Range(object) \subseteq constructed
    /\ outcome = "reads" => floppy0 = Drive(cmos.first) /\ cmos.first \in Supported
    /\ outcome \in {"page_fault", "divide_error"} => cmos.first \notin Supported
    /\ outcome = "divide_error" => cmos.first # NoDrive
=============================================================================
