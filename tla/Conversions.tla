----------------------------- MODULE Conversions -----------------------------
(***************************************************************************)
(* std::stoi, stol, ..., std::to_string and to_wstring of the vendored     *)
(* C++ library (src/lib/libc++/src/string.cpp), with the functions of the  *)
(* kernel's own C library that they call: these are stubs.  The code is    *)
(* written for the functions of a whole C library; both are modelled, so   *)
(* that a run tells what a stub changes.  A behaviour is one call.         *)
(* labs and div of src/lib/klibc/stdlib.cpp are further calls.             *)
(***************************************************************************)
EXTENDS Integers

CONSTANTS
    Bits,            \* of an int and of a long; a long long has twice as many
    Numbers,         \* the numbers that strings begin with
    None,            \* stands for the number of a string that does not
    ShortCapacity,   \* of a string that allocates nothing, 10
    FloatLength,     \* of the first buffer for a floating point number, 20
    Slack,           \* how much more capacity than asked for a string may get
    StringAt         \* the address of a string

VARIABLES
    library,    \* "klibc", or a whole C library with C99's or an older snprintf
    call,       \* the function with its argument
    number, idx,     \* what stoi returns and stores
    size, written,   \* as_string: the buffer, how much of the text is in it
    outcome

vars == <<library, call, number, idx, size, written, outcome>>

Integral == {"int", "long", "unsigned long", "long long", "unsigned long long"}
Floating == {"float"}

\* numeric_limits; a floating point number is a whole one of bounded size here.
limits(type) ==
    CASE type \in {"int", "long"} -> [min |-> -(2 ^ (Bits - 1)), max |-> 2 ^ (Bits - 1) - 1]
      [] type = "unsigned long" -> [min |-> 0, max |-> 2 ^ Bits - 1]
      [] type = "long long" -> [min |-> -(2 ^ (2 * Bits - 1)), max |-> 2 ^ (2 * Bits - 1) - 1]
      [] type = "unsigned long long" -> [min |-> 0, max |-> 2 ^ (2 * Bits) - 1]
      [] type = "float" -> [min |-> -(2 ^ (2 * Bits)), max |-> 2 ^ (2 * Bits)]
within(n, type) == limits(type).min <= n /\ n <= limits(type).max

Digits(n) == CHOOSE d \in 1 .. 2 * Bits : 10 ^ d > n /\ \A e \in 1 .. d - 1 : 10 ^ e <= n

\* The characters of a number as "%d" or "%f" prints it, with six decimals.
Length(n, type) == (IF n < 0 THEN 1 + Digits(-n) ELSE Digits(n)) + (IF type \in Floating THEN 7 ELSE 0)

Init ==
    /\ library \in {"klibc", "C99", "older"}
    /\ \/ \E type \in Integral \cup Floating, n \in Numbers \cup {None} :
             call = [function |-> "parse", type |-> type, arg |-> n, wide |-> FALSE]
       \/ \E type \in Integral \cup Floating, n \in Numbers, wide \in BOOLEAN :
             /\ within(n, type)
             /\ call = [function |-> "print", type |-> type, arg |-> n, wide |-> wide]
       \/ \E n, d \in {m \in Numbers : within(m, "int")} :
             call = [function |-> "div", type |-> "int", arg |-> <<n, d>>, wide |-> FALSE]
    /\ number = 0 /\ idx = 0 /\ size = 0 /\ written = 0 /\ outcome = "none"

-----------------------------------------------------------------------------
\* What a parse finds: the number, the pointer behind it, whether errno is ERANGE.
Parsed(value, ptr, erange) == [value |-> value, ptr |-> ptr, erange |-> erange]

\* The stubs of strtol and the like, and of wcstol: they store no pointer.
klibc_strto == Parsed(0, 0, FALSE)
klibc_wcsto == Parsed(0, 0, FALSE)

\* The same functions of a whole library: a negative number becomes a large
\* unsigned one, what is out of range the nearest number in range.
whole_strto(type, n) ==
    LET lim == limits(type)
        behind == StringAt + Length(n, "int")
    IN  IF n = None THEN Parsed(0, StringAt, FALSE)
        ELSE IF within(n, type) THEN Parsed(n, behind, FALSE)
        ELSE IF lim.min = 0 /\ n < 0 /\ -n <= lim.max THEN Parsed(n + lim.max + 1, behind, FALSE)
        ELSE Parsed(IF n < lim.min THEN lim.min ELSE lim.max, behind, TRUE)

strto(type, n) == CASE library # "klibc" -> whole_strto(type, n)
                    [] call.wide -> klibc_wcsto
                    [] OTHER -> klibc_strto

\* Mutant: the pointer is compared with nullptr.
as_integer_helper_NullCheck(type, n) ==
    LET r == strto(type, n)
    IN  [value |-> r.value, idx |-> (r.ptr - StringAt) % 2 ^ Bits,
         throws |-> IF r.erange THEN "out of range" ELSE IF r.ptr = 0 THEN "no conversion" ELSE ""]

\* Both helpers; errno has its old value again when they return.
as_integer_helper(type, n) ==
    LET r == strto(type, n)
    IN  [value |-> r.value, idx |-> (r.ptr - StringAt) % 2 ^ Bits,
         throws |-> IF r.erange THEN "out of range"
                    ELSE IF r.ptr = StringAt THEN "no conversion" ELSE ""]

\* An int is read as a long, which here is no longer.
as_integer(type, n) ==
    LET r == as_integer_helper(IF type = "int" THEN "long" ELSE type, n)
    IN  IF type = "int" /\ r.throws = "" /\ ~within(r.value, "int")
        THEN [r EXCEPT !.throws = "out of range"] ELSE r
as_float(type, n) == as_integer_helper(type, n)

\* stoi, stol, stoul, stoll, stoull, stof, stod, stold: without exceptions a throw
\* is an abort, which never returns.
sto(type, n) ==
    /\ call.function = "parse" /\ outcome = "none"
    /\ LET r == IF type \in Integral THEN as_integer(type, n) ELSE as_float(type, n)
       IN  /\ outcome' = IF r.throws = "" THEN "returned" ELSE r.throws
           /\ number' = r.value
           /\ idx' = r.idx
    /\ UNCHANGED <<library, call, size, written>>

-----------------------------------------------------------------------------
\* What a call of the formatter returns, for a buffer of `available` characters.
klibc_snprintf == 0
klibc_swprintf == 0
whole_snprintf(n, type, available) ==
    IF library = "C99" \/ Length(n, type) <= available THEN Length(n, type) ELSE -1
status(available) ==
    CASE library # "klibc" -> whole_snprintf(call.arg, call.type, available)
      [] call.wide -> klibc_swprintf
      [] OTHER -> klibc_snprintf
formatted(available) ==
    IF library = "klibc" THEN 0
    ELSE IF Length(call.arg, call.type) <= available THEN Length(call.arg, call.type) ELSE available

\* The first buffer: what a string has anyway, or room for the digits of the
\* longest number at three bits each, or for twenty characters.
initial_string(n) ==
    IF ~call.wide THEN n = ShortCapacity
    ELSE \E extra \in 0 .. Slack :
           n = extra + IF call.type \in Floating THEN FloatLength
                       ELSE (2 * Bits) \div 3 + (IF (2 * Bits) % 3 # 0 THEN 1 ELSE 0) + 1

to_string ==
    /\ call.function = "print" /\ outcome = "none"
    /\ \E n \in 0 .. ShortCapacity + FloatLength + 2 * Bits + Slack : initial_string(n) /\ size' = n
    /\ outcome' = "formats"
    /\ UNCHANGED <<library, call, number, idx, written>>

\* One call of the formatter: its text fits, or the buffer grows to what it says,
\* or to more than twice its size if it does not say.
as_string ==
    /\ outcome = "formats"
    /\ LET used == status(size)
           fits == 0 <= used /\ used <= size
       IN  /\ size' = IF used >= 0 THEN used ELSE size * 2 + 1
           /\ written' = IF fits THEN formatted(size) ELSE 0
           /\ outcome' = IF fits THEN "returned" ELSE "formats"
    /\ UNCHANGED <<library, call, number, idx>>

-----------------------------------------------------------------------------
labs(x) == IF x < 0 THEN -x ELSE x
Sign(x) == IF x < 0 THEN -1 ELSE 1

\* div and ldiv: the processor truncates towards 0, and stops at a quotient that
\* has no int.
div(n, d) ==
    /\ call.function = "div" /\ outcome = "none"
    /\ IF d = 0 \/ ~within(Sign(n) * Sign(d) * (labs(n) \div labs(d)), "int")
       THEN outcome' = "divide error" /\ UNCHANGED <<number, idx>>
       ELSE /\ number' = Sign(n) * Sign(d) * (labs(n) \div labs(d))
            /\ idx' = Sign(n) * (labs(n) % labs(d))
            /\ outcome' = "returned"
    /\ UNCHANGED <<library, call, size, written>>

Stay == outcome \notin {"none", "formats"} /\ UNCHANGED vars

Next == \/ sto(call.type, call.arg) \/ to_string \/ as_string
        \/ call.function = "div" /\ div(call.arg[1], call.arg[2])
        \/ Stay

Spec == Init /\ [][Next]_vars

-----------------------------------------------------------------------------
\* With a whole C library, whatever its snprintf returns for a buffer that is too
\* small, a string is read as the number it begins with or the call ends with the
\* error that is true of it, a number is printed in full and nothing follows it,
\* and a buffer that grows stays below twice what is needed.  With the kernel's stubs
\* no call fails: every string is read as 0, "" among them, and every number is
\* printed as "".  A quotient and its remainder make up the dividend.
ConvertsAsAsked ==
    LET n == call.arg
        lim == limits(call.type)
    IN  /\ call.function = "parse" /\ outcome # "none" =>
             CASE library = "klibc" -> outcome = "returned" /\ number = 0
               [] outcome = "returned" -> /\ n # None /\ within(number, call.type)
                                          /\ idx = Length(n, "int")
                                          /\ number \in {n, n + lim.max + 1}
               [] outcome = "no conversion" -> n = None
               [] outcome = "out of range" -> n # None /\ ~within(n, call.type)
        /\ call.function = "print" =>
             /\ outcome = "returned" =>
                  size = (IF library = "klibc" THEN 0 ELSE Length(n, call.type)) /\ written = size
             /\ initial_string(size) \/ size < 2 * Length(n, call.type)
        /\ call.function = "div" /\ outcome = "returned" =>
             n[1] = number * n[2] + idx /\ labs(idx) < labs(n[2]) /\ (idx = 0 \/ (idx < 0) = (n[1] < 0))
=============================================================================
