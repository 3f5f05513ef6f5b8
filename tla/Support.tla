------------------------------ MODULE Support ------------------------------
(***************************************************************************)
(* The kernel's supporting code in one specification: the first state      *)
(* chooses the memory loops of the C library (ByteLoops), formatted output *)
(* (Format), the conversions of strings and numbers (Conversions), the     *)
(* entry of interrupts (InterruptEntry) or the start of the kernel         *)
(* (Startup); the variables of the others keep their values.               *)
(***************************************************************************)
EXTENDS Integers, Sequences

CONSTANTS
    AddressLimit, LineSize, Byte, Filled, ScreenWidth, ScreenHeight, Blank,   \* ByteLoops's
    WordDigits, Widths, MaxItems, Arguments,                                  \* Format's
    Bits, Numbers, NoNumber, ShortCapacity, FloatLength, Slack, StringAt,     \* Conversions's
    HalfSize, MaxNest,                                                        \* InterruptEntry's
    MaxObjects                                                                \* Startup's

VARIABLES
    model,    \* "loops", "format", "conversions", "entries" or "startup"
    b_call, b_before, b_memory, b_i, b_result, b_line_addr, b_shown, b_repeated,
    b_returned,                                      \* ByteLoops's
    f_items, f_words, f_format, f_ap, f_output,      \* Format's
    c_library, c_call, c_number, c_idx, c_size, c_written, c_outcome,   \* Conversions's
    e_cpu, e_stack, e_running, e_user, e_message,     \* InterruptEntry's
    s_pc, s_constructed, s_object, s_functions, s_probed, s_memory, s_tables, s_routines,
    s_enabled, s_cmos, s_devices, s_floppy0, s_outcome, s_early   \* Startup's

b_vars == <<b_call, b_before, b_memory, b_i, b_result, b_line_addr, b_shown, b_repeated,
            b_returned>>
f_vars == <<f_items, f_words, f_format, f_ap, f_output>>
c_vars == <<c_library, c_call, c_number, c_idx, c_size, c_written, c_outcome>>
e_vars == <<e_cpu, e_stack, e_running, e_user, e_message>>
s_vars == <<s_pc, s_constructed, s_object, s_functions, s_probed, s_memory, s_tables, s_routines,
            s_enabled, s_cmos, s_devices, s_floppy0, s_outcome, s_early>>

Loops == INSTANCE ByteLoops WITH
    call <- b_call, before <- b_before, memory <- b_memory, i <- b_i, result <- b_result,
    line_addr <- b_line_addr, shown <- b_shown, repeated <- b_repeated,
    returned <- b_returned

Output == INSTANCE Format WITH
    items <- f_items, words <- f_words, format <- f_format, ap <- f_ap, output <- f_output

Conversion == INSTANCE Conversions WITH
    None <- NoNumber,
    library <- c_library, call <- c_call, number <- c_number, idx <- c_idx, size <- c_size,
    written <- c_written, outcome <- c_outcome

Entry == INSTANCE InterruptEntry WITH
    cpu <- e_cpu, stack <- e_stack, running <- e_running, user <- e_user,
    message <- e_message

Boot == INSTANCE Startup WITH
    pc <- s_pc, constructed <- s_constructed, object <- s_object,
    s_probe_funcs <- s_functions,
    probed <- s_probed, memory <- s_memory, tables <- s_tables,
    irq_routines <- s_routines, enabled <- s_enabled, cmos <- s_cmos,
    _devices <- s_devices, floppy0 <- s_floppy0, outcome <- s_outcome, early <- s_early

\* A gate holds the addresses of all stubs.
ASSUME HalfSizeAssumption ==
    /\ HalfSize \in Nat \ {0}
    /\ \A v \in Entry!Vectors : Entry!stub_address(v) < HalfSize * HalfSize

\* The address space is made of lines, and bytes are numbers.
ASSUME LoopsAssumption ==
    /\ LineSize \in Nat \ {0} /\ AddressLimit \in Nat \ {0} /\ AddressLimit % LineSize = 0
    /\ Byte \subseteq Int /\ {0, Blank} \subseteq Byte
    /\ Filled \in Nat /\ ScreenWidth \in Nat /\ ScreenHeight \in Nat

\* One value for the variables of each model that is not chosen.
NoCall == /\ b_call = <<>> /\ b_before = <<>> /\ b_memory = <<>> /\ b_i = 0 /\ b_result = 0
          /\ b_line_addr = 0 /\ b_shown = {} /\ b_repeated = FALSE /\ b_returned = FALSE
NoFormat == f_items = <<>> /\ f_words = <<>> /\ f_format = 1 /\ f_ap = 1 /\ f_output = <<>>
NoConversion == /\ c_library = "" /\ c_call = <<>> /\ c_number = 0 /\ c_idx = 0 /\ c_size = 0
                /\ c_written = 0 /\ c_outcome = ""
NoEntry == /\ e_cpu = <<>> /\ e_stack = <<>> /\ e_running = <<>> /\ e_user = FALSE
           /\ e_message = "none"
NoBoot == Boot!Init /\ s_cmos.first = 0 /\ s_cmos.second = 0

SupportInit ==
    /\ model \in {"loops", "format", "conversions", "entries", "startup"}
    /\ IF model = "loops" THEN Loops!Init ELSE NoCall
    /\ IF model = "format" THEN Output!Init ELSE NoFormat
    /\ IF model = "conversions" THEN Conversion!Init ELSE NoConversion
    /\ IF model = "entries" THEN Entry!Init ELSE NoEntry
    /\ IF model = "startup" THEN Boot!Init ELSE NoBoot

SupportNext ==
    /\ \/ model = "loops" /\ Loops!Next /\ UNCHANGED <<f_vars, c_vars, e_vars, s_vars>>
       \/ model = "format" /\ Output!Next /\ UNCHANGED <<b_vars, c_vars, e_vars, s_vars>>
       \/ model = "conversions" /\ Conversion!Next /\ UNCHANGED <<b_vars, f_vars, e_vars, s_vars>>
       \/ model = "entries" /\ Entry!Next /\ UNCHANGED <<b_vars, f_vars, c_vars, s_vars>>
       \/ model = "startup" /\ Boot!Next /\ UNCHANGED <<b_vars, f_vars, c_vars, e_vars>>
    /\ UNCHANGED model

SupportSpec == SupportInit /\ [][SupportNext]_<<b_vars, f_vars, c_vars, e_vars, s_vars, model>>

\* See ByteLoops: the loops of the C library and the dumps do what they should.
LoopsDoTheirWork == model = "loops" => Loops!LoopsDoTheirWork

\* See Format and Conversions: every item of a format is printed as asked, and a
\* string is read and a number printed as the linked C library allows.
PrintsAsAsked == /\ model = "format" => Output!PrintsAsAsked
                 /\ model = "conversions" => Conversion!ConvertsAsAsked

\* See InterruptEntry: interrupted code and handlers find what they should.
EntriesAreTransparent == model = "entries" => Entry!EntriesAreTransparent

\* See Startup: nothing is used before it is set up, and kmain reads from drive 0.
StartsInOrder == model = "startup" => Boot!StartsInOrder
=============================================================================
