------------------------------- MODULE Format -------------------------------
(***************************************************************************)
(* format_string_varg (src/format.cpp), which all output of the kernel     *)
(* goes through.  A behaviour is one call: the first state chooses a list  *)
(* of items (characters and directives) and the words of the arguments,    *)
(* the code works on the characters they are written with, and every step  *)
(* is one iteration of its loop.                                           *)
(***************************************************************************)
EXTENDS Integers, SequencesExt, FiniteSetsExt

CONSTANTS
    WordDigits,   \* hexadecimal digits of an int: 8
    Widths,       \* the widths of the directives, 0 for none
    MaxItems,     \* bound: the items of a format
    Arguments     \* the words a caller may pass

VARIABLES
    items,      \* what the caller wants to print
    words,      \* the arguments on the caller's stack
    format,     \* the position of the character that is read next
    ap,         \* the argument that va_arg takes next
    output

vars == <<items, words, format, ap, output>>

digit_chars == <<"0", "1", "2", "3", "4", "5", "6", "7", "8", "9">>
digit_chars_lower == digit_chars \o <<"a", "b", "c", "d", "e", "f">>
digit_chars_upper == digit_chars \o <<"A", "B", "C", "D", "E", "F">>

Tick == "backquote"   \* the mark between two words

isdigit(ch) == ch \in ToSet(digit_chars)

\* Items: a character, a directive, and what a format can only end with: the
\* beginning of a directive.
Characters == [text : {<<"q">>, <<"l">>, <<"7">>}]
Directives == [zero : BOOLEAN, width : Widths, long : BOOLEAN,
               type : {"d", "s", "x", "P", "c", "%"}]
Beginnings == [begins : {<<"%">>, <<"%", "0">>, <<"%", "0", "7", "l">>}]

Flag(given, ch) == IF given THEN <<ch>> ELSE <<>>

Written(item) ==
    IF item \in Characters THEN item.text
    ELSE IF item \in Beginnings THEN item.begins
    ELSE <<"%">> \o Flag(item.zero, "0")
             \o (IF item.width > 0 THEN <<digit_chars[item.width + 1]>> ELSE <<>>)
             \o Flag(item.long, "l") \o <<item.type>>

\* A format that ends within a directive.
Unfinished == items # <<>> /\ Last(items) \in Beginnings

Init ==
    /\ \/ \E n \in 0 .. MaxItems, list \in [1 .. MaxItems -> Characters \cup Directives] :
              items = SubSeq(list, 1, n)
       \/ \E begin \in Beginnings, n \in 0 .. 1, first \in Characters \cup Directives :
              items = SubSeq(<<first>>, 1, n) \o <<begin>>
    /\ words \in Arguments
    /\ format = 1 /\ ap = 1 /\ output = <<>>

text == FlattenSeq([k \in DOMAIN items |-> Written(items[k])])

NUL == "NUL"

\* Nobody knows what lies behind the terminator.
CharAt(n) == IF n <= Len(text) THEN text[n] ELSE NUL

Puts(chars) == output' = output \o chars

\* The characters of the string that a word points to, and of one that is a char.
chars_of(word) == [k \in 1 .. word % 3 |-> "s"]
char_of(word) == <<"c", word>>

\* Mutant: a last quotient of 1 is not printed.
has_more_TwoOrMore(remainder) == remainder > 1

has_more(remainder) == remainder > 0

format_number[number \in Nat] ==
    Append(IF has_more(number \div 10) THEN format_number[number \div 10] ELSE <<>>,
           digit_chars[(number % 10) + 1])

\* The loop of format_number_hex.  A shift counts modulo the bits of the number,
\* as the processor's does: a width of 9 prints the last digit first.
hex_digits(number, digits, width, upper) ==
    [k \in 1 .. width |->
        LET shift == (width - k) % digits
            digit == (number \div 16 ^ shift) % 16
        IN  IF upper THEN digit_chars_upper[digit + 1] ELSE digit_chars_lower[digit + 1]]

\* The unsigned long long one prints a backquote behind the digit at shift 32.
format_number_hex(number, long, width, upper) ==
    LET digits == IF long THEN 2 * WordDigits ELSE WordDigits
        count == IF width > 0 THEN width ELSE digits
        printed == hex_digits(number, digits, count, upper)
    IN  IF long /\ count > WordDigits
        THEN InsertAt(printed, count - WordDigits + 1, Tick)
        ELSE printed

Character ==
    /\ format <= Len(text) /\ CharAt(format) # "%"
    /\ Puts(<<CharAt(format)>>)
    /\ format' = format + 1
    /\ UNCHANGED ap

\* Where the flags, the width and the letter of the directive are, and what
\* they say.
after_zero == IF CharAt(format + 1) = "0" THEN format + 2 ELSE format + 1
after_width == IF isdigit(CharAt(after_zero)) THEN after_zero + 1 ELSE after_zero
width == IF isdigit(CharAt(after_zero))
         THEN IndexFirstSubSeq(<<CharAt(after_zero)>>, digit_chars) - 1 ELSE 0
long_mode == CharAt(after_width) = "l"
at_letter == IF long_mode THEN after_width + 1 ELSE after_width
letter == CharAt(at_letter)

\* The two words of an unsigned long long, the low one first.
long_argument == words[ap] + words[ap + 1] * 16 ^ WordDigits

Directive ==
    /\ format <= Len(text) /\ CharAt(format) = "%"
    /\ \/ /\ letter = "d"
          /\ Puts(format_number[words[ap]]) /\ ap' = ap + 1
       \/ /\ letter = "s"
          /\ Puts(chars_of(words[ap])) /\ ap' = ap + 1
       \/ /\ letter \in {"X", "x", "p", "P"} /\ long_mode
          /\ Puts(format_number_hex(long_argument, TRUE, width, letter \in {"X", "P"}))
          /\ ap' = ap + 2
       \/ /\ letter \in {"X", "x", "p", "P"} /\ ~long_mode
          /\ Puts(format_number_hex(words[ap], FALSE, width, letter \in {"X", "P"}))
          /\ ap' = ap + 1
       \/ /\ letter = "c"
          /\ Puts(<<char_of(words[ap])>>) /\ ap' = ap + 1
       \/ /\ letter \notin {"d", "s", "X", "x", "p", "P", "c"}
          /\ Puts(<<"%", letter>>) /\ UNCHANGED ap
    /\ format' = at_letter + 1

\* The terminator ends the loop; behind it the model stops.
Finished == format > Len(text) /\ UNCHANGED <<format, ap, output>>

Next == /\ Character \/ Directive \/ Finished
        /\ UNCHANGED <<items, words>>

Spec == Init /\ [][Next]_vars

-----------------------------------------------------------------------------
\* The argument words an item takes.
Takes(item) == IF item \notin Directives \/ item.type = "%" THEN 0
               ELSE IF item.long /\ item.type \in {"x", "P"} THEN 2 ELSE 1

FirstWord(k) == 1 + MapThenSumSet(LAMBDA j : Takes(items[j]), 1 .. k - 1)

\* The numeral of n with a number of digits, and the digits it needs.
Numeral(n, base, digits, chars) ==
    [k \in 1 .. digits |-> chars[((n \div base ^ (digits - k)) % base) + 1]]
DigitsOf(n) == CHOOSE d \in 1 .. 9 : n < 10 ^ d /\ (d = 1 \/ n >= 10 ^ (d - 1))

Hex(word, item, digits) ==
    Numeral(word, 16, digits, IF item.type = "P" THEN digit_chars_upper ELSE digit_chars_lower)

\* A number of two words is printed as its upper digits, a backquote and its lower word.
LongHex(low, high, item) ==
    LET digits == IF item.width = 0 THEN 2 * WordDigits ELSE item.width
    IN  IF digits <= WordDigits THEN Hex(low, item, digits)
        ELSE Hex(high, item, digits - WordDigits) \o <<Tick>> \o Hex(low, item, WordDigits)

\* The decimal numeral of an int, a word in two's complement.
Negative(word) == 2 * word >= 16 ^ WordDigits
Decimal(word) ==
    LET n == IF Negative(word) THEN 16 ^ WordDigits - word ELSE word
    IN  Flag(Negative(word), "-") \o Numeral(n, 10, DigitsOf(n), digit_chars)

\* What the directives of C promise, but for the hexadecimal ones, whose width is
\* the number of digits here (a word's, if there is none).
Wanted(k) ==
    LET item == items[k]
        word == words[FirstWord(k)]
        Padded(chars) ==
            [j \in 1 .. item.width - Len(chars) |-> IF item.zero THEN "0" ELSE " "] \o chars
    IN  IF item \in Characters THEN item.text
        ELSE CASE item.type = "d" -> Padded(Decimal(word))
               [] item.type = "s" -> Padded(chars_of(word))
               [] item.type = "c" -> Padded(<<char_of(word)>>)
               [] item.type = "%" -> <<"%">>
               [] item.type \in {"x", "P"} /\ item.long ->
                    LongHex(word, words[FirstWord(k) + 1], item)
               [] OTHER -> Hex(word, item, IF item.width = 0 THEN WordDigits ELSE item.width)

\* The directives that the code does not print as asked: a percent sign, which it
\* prints twice (format.cpp:125-127); a decimal int below 0, which it takes for
\* unsigned (format.cpp:103-104); one, a string or a character that should fill
\* more places than it has characters, since only hexadecimal numbers have a
\* width; and a hexadecimal int of more digits than a word has (format.cpp:53-60).
Misprinted(k) ==
    LET item == items[k]
        word == words[FirstWord(k)]
    IN  /\ item \in Directives
        /\ CASE item.type = "%" -> TRUE
             [] item.type = "d" -> Negative(word) \/ item.width > DigitsOf(word)
             [] item.type = "s" -> item.width > Len(chars_of(word))
             [] item.type = "c" -> item.width > 1
             [] OTHER -> ~item.long /\ item.width > WordDigits

\* Each item takes the arguments meant for it, so that none that follows reads a
\* wrong one, and is printed as asked, and the format is read up to its
\* terminator and no further.  Not so are the items that are Misprinted, which
\* take their arguments, too, and a format that ends within a directive, behind
\* which the code reads on (format.cpp:131).
PrintsAsAsked ==
    /\ format > Len(text) + 1 => Unfinished
    /\ (format = Len(text) + 1 /\ ~Unfinished) =>
          /\ ap = FirstWord(Len(items) + 1)
          /\ (\A k \in DOMAIN items : ~Misprinted(k)) =>
                output = FlattenSeq([k \in DOMAIN items |-> Wanted(k)])
=============================================================================
