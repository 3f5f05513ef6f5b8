------------------------------ MODULE ByteLoops ------------------------------
(***************************************************************************)
(* The loops over memory of the kernel's C library                         *)
(* (src/lib/klibc/string.cpp), of the memory dumps (debug_bochs_memdump in *)
(* src/debug.cpp, CONSOLE::dump in src/console.cpp) and of src/video.cpp.  *)
(* A behaviour is one call: the first state chooses it, every step is one  *)
(* iteration of its loop, so that a loop that never ends is a behaviour    *)
(* like any other.                                                         *)
(***************************************************************************)
EXTENDS Integers

CONSTANTS
    AddressLimit,   \* one past the last address: 2^32
    LineSize,       \* bytes on a line of a dump: 16
    Byte,           \* the values of a byte, 0 among them
    Filled,         \* addresses below this one hold any bytes, others 0
    ScreenWidth, ScreenHeight,   \* 80 characters, 25 lines: video_ram is at address 0
    Blank           \* 0x20

VARIABLES
    call,        \* the function with its arguments
    before, memory,   \* what the filled bytes held, and hold now
    i,           \* iterations done
    result,      \* of the comparisons and strlen
    line_addr,   \* dump: the next line
    shown,       \* dump: the bytes that were printed
    repeated,    \* dump: a byte was printed twice
    returned

vars == <<call, before, memory, i, result, line_addr, shown, repeated, returned>>

Address == 0 .. AddressLimit - 1
Bytes == 0 .. Filled - 1

\* unsigned and pointer arithmetic wraps.
Wrap(n) == n % AddressLimit

\* address & ~0xF
Line(address) == address - (address % LineSize)

end == Wrap(call.dest + call.count - 1)
first_addr == Line(call.dest)
last_addr == Line(end)

\* What a string function reads: behind the filled bytes there are zeros.
Read(m, address) == IF address \in Bytes THEN m[address] ELSE 0
At(address) == Read(memory, address)

\* The length of the string at an address.
Length(m, address) ==
    CHOOSE n \in 0 .. Filled : /\ Read(m, address + n) = 0
                               /\ \A k \in 0 .. n - 1 : Read(m, address + k) # 0

\* Two blocks have no byte in common.
Apart(a, b, n) == a + n <= b \/ b + n <= a

Call(f, dest, src, count, value) ==
    call = [function |-> f, dest |-> dest, src |-> src, count |-> count, value |-> value]

\* A VIDEO_CHAR is two bytes: the character and its colour.
CellSize == 2
RowSize == ScreenWidth * CellSize
ScreenBytes == ScreenHeight * RowSize

\* Blocks and strings lie within the filled bytes.  memmove is memcpy.
Calls ==
    \E dest, src \in Bytes, count \in 0 .. Filled, value \in Byte :
        \/ /\ dest + count <= Filled
           /\ \/ Call("memset", dest, 0, count, value)
              \/ src + count <= Filled /\ \E f \in {"memcpy", "strncmp"} :
                                             Call(f, dest, src, count, 0)
        \/ Call("strlen", dest, 0, 0, 0) \/ Call("strcmp", dest, src, 0, 0)
        \/ LET size == Length(memory, src) + 1
           IN  /\ dest + size <= Filled /\ src + size <= Filled /\ Apart(dest, src, size)
               /\ Call("strcat", dest, src, 0, 0)
        \/ LET size == Length(memory, src)
           IN  /\ dest + size * CellSize <= Filled
               /\ dest + size * CellSize <= src \/ src + size < dest
               /\ Call("video_print", dest, src, 0, value)
        \/ dest + ScreenBytes <= Filled /\ Call("video_clear", dest, 0, 0, 0)
        \/ count <= ScreenHeight /\ Call("video_scroll", 0, 0, count, 0)

Init ==
    /\ \/ memory \in [Bytes -> Byte] /\ Calls
       \/ /\ memory = [a \in Bytes |-> 0]
          /\ \E dest, count \in Address : Call("dump", dest, 0, count, 0)
    /\ before = memory
    /\ line_addr = first_addr
    /\ i = 0 /\ result = 0 /\ shown = {} /\ repeated = FALSE /\ returned = FALSE

Writes(address, byte) == memory' = [memory EXCEPT ![address] = byte]

Iterate == i' = i + 1 /\ UNCHANGED <<result, returned>>

Return(value) == returned' = TRUE /\ result' = value /\ UNCHANGED i

\* Mutant: the copy runs from the end of the block.
copied_index_FromEnd == call.count - 1 - i

copied_index == i

memcpy ==
    /\ call.function = "memcpy"
    /\ IF i < call.count
       THEN Writes(call.dest + copied_index, At(call.src + copied_index)) /\ Iterate
       ELSE Return(0) /\ UNCHANGED memory

memset ==
    /\ call.function = "memset"
    /\ IF i < call.count
       THEN Writes(call.dest + i, call.value) /\ Iterate
       ELSE Return(0) /\ UNCHANGED memory

\* It begins to write where the destination begins, not where it ends.
strcat ==
    /\ call.function = "strcat"
    /\ IF At(call.src + i) # 0
       THEN Writes(call.dest + i, At(call.src + i)) /\ Iterate
       ELSE Writes(call.dest + i, 0) /\ Return(0)

strlen ==
    /\ call.function = "strlen"
    /\ IF At(call.dest + i) # 0 THEN Iterate ELSE Return(i)
    /\ UNCHANGED memory

s1 == At(call.dest)
s2 == At(call.src)

\* Neither comparison advances its pointers: strcmp repeats for ever when both
\* strings begin with the same character.
strcmp ==
    /\ call.function = "strcmp"
    /\ IF s1 # s2 THEN Return(s1 - s2)
       ELSE IF s1 = 0 THEN Return(0)
       ELSE UNCHANGED <<i, result, returned>>
    /\ UNCHANGED memory

strncmp ==
    /\ call.function = "strncmp"
    /\ IF i >= call.count THEN Return(0)
       ELSE IF s1 # s2 THEN Return(s1 - s2)
       ELSE IF s1 = 0 THEN Return(-1)
       ELSE Iterate
    /\ UNCHANGED memory

\* A character of the string and the colour, as long as there is a character.
video_print ==
    /\ call.function = "video_print"
    /\ LET cell == call.dest + i * CellSize
       IN  IF At(call.src + i) # 0
           THEN /\ memory' = [memory EXCEPT ![cell] = At(call.src + i), ![cell + 1] = call.value]
                /\ Iterate
           ELSE Return(0) /\ UNCHANGED memory

video_clear ==
    /\ call.function = "video_clear"
    /\ LET cell == call.dest + i * CellSize
       IN  IF i < ScreenHeight * ScreenWidth
           THEN memory' = [memory EXCEPT ![cell] = 0, ![cell + 1] = 0] /\ Iterate
           ELSE Return(0) /\ UNCHANGED memory

\* memcpy of the lines that stay, then memset of the others.
video_scroll ==
    /\ call.function = "video_scroll"
    /\ LET black == call.count * RowSize
       IN  IF i < ScreenBytes - black THEN Writes(i, At(black + i)) /\ Iterate
           ELSE IF i < ScreenBytes THEN Writes(i, Blank) /\ Iterate
           ELSE Return(0) /\ UNCHANGED memory

\* The 16 bytes of a line are read, those of the range are printed.
printed == {a \in line_addr .. line_addr + LineSize - 1 : call.dest <= a /\ a <= end}

dump ==
    /\ call.function = "dump"
    /\ IF line_addr <= last_addr
       THEN /\ shown' = shown \cup printed
            /\ repeated' = (repeated \/ shown \cap printed # {})
            /\ line_addr' = Wrap(line_addr + LineSize)
            /\ UNCHANGED <<result, returned>>
       ELSE Return(0) /\ UNCHANGED <<line_addr, shown, repeated>>
    /\ UNCHANGED <<memory, i>>

Next == /\ \/ /\ ~returned
              /\ \/ dump
                 \/ /\ \/ memcpy \/ memset \/ strcat \/ strlen \/ strcmp \/ strncmp
                       \/ video_print \/ video_clear \/ video_scroll
                    /\ UNCHANGED <<line_addr, shown, repeated>>
           \/ returned /\ UNCHANGED <<memory, i, result, line_addr, shown, repeated, returned>>
        /\ UNCHANGED <<call, before>>

Spec == Init /\ [][Next]_vars

-----------------------------------------------------------------------------
\* What the calls that C allows promise and the code keeps: a block is copied
\* exactly unless it reaches over its source from below, memset and strcat, onto
\* an empty string, write what they should and nothing beside it, strlen
\* counts, a volume of the right type is recognised, a string on the screen has
\* its colour in every character, a screen is cleared, a scrolled line keeps its
\* characters, and a dump shows the bytes of its range once each.  Not among them are
\* a block that is moved up onto itself, for which memmove (string.cpp:18) is memcpy;
\* strcat onto a string that is not empty; strcmp of strings that begin alike, strncmp
\* of strings that differ, whatever it says of them (string.cpp:71); and a dump whose
\* last line is the last of the address space: its loop begins again at address 0.
LoopsDoTheirWork ==
    LET c == call
        Block(n) == c.dest .. c.dest + n - 1
        Becomes(n, new(_)) ==
            memory = [a \in Bytes |-> IF a \in Block(n) THEN new(a - c.dest) ELSE before[a]]
        Source(n) == Read(before, c.src + n)
        Filler(n) == c.value
        Coloured(n) == IF n % CellSize = 0 THEN Source(n \div CellSize) ELSE c.value
        Zero(n) == 0
        Scrolled(n) == LET from == n + c.count * RowSize
                       IN  IF from < ScreenBytes THEN Read(before, from) ELSE Blank
        size == Length(before, c.src) + 1
    IN  /\ returned =>
            CASE c.function = "memcpy" ->
                    c.dest <= c.src \/ Apart(c.dest, c.src, c.count) => Becomes(c.count, Source)
              [] c.function = "memset" -> Becomes(c.count, Filler)
              [] c.function = "strcat" ->
                    Length(before, c.dest) = 0 => Becomes(size, Source)
              [] c.function = "video_print" -> Becomes((size - 1) * CellSize, Coloured)
              [] c.function = "video_clear" -> Becomes(ScreenBytes, Zero)
              [] c.function = "video_scroll" -> Becomes(ScreenBytes, Scrolled)
              [] c.function = "strlen" -> result = Length(before, c.dest)
              [] c.function = "strcmp" -> result = 0 => s1 = 0 /\ s2 = 0
              [] c.function = "strncmp" ->
                    (\A n \in 0 .. c.count - 1 : At(c.dest + n) = Source(n) /\ Source(n) # 0)
                        => result = 0
              [] c.function = "dump" ->
                    c.dest + c.count <= AddressLimit /\ c.count > 0 => shown = Block(c.count)
        /\ repeated => last_addr + LineSize = AddressLimit
=============================================================================
