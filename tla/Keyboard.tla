------------------------------ MODULE Keyboard ------------------------------
(***************************************************************************)
(* The keyboard driver (src/kb.cpp) and the keyboard it is attached to.    *)
(* Keys are held and released in any order and repeat while they are held; *)
(* the keyboard queues a byte for every event, a prefix byte for the keys  *)
(* of the extended set, the make and break codes of shift keys that it     *)
(* feigns around some of them, and its acknowledgements of the LED         *)
(* commands that the handler sends.                                        *)
(***************************************************************************)
EXTENDS Integers, Sequences, FiniteSets

CONSTANTS
    Key,          \* the keys of this keyboard: scancodes, 256 more if extended
    QueueBound,   \* bound: bytes that wait to be read
    EventBound    \* bound: presses, repetitions and releases

VARIABLES
    shift, numlock, capslock,   \* the driver's flags
    held,      \* the keys that are down
    repeats,   \* the key that repeats, the one pressed last; 0: none
    queue,     \* bytes that have not been read from port 0x60
    leds,      \* the LEDs that are lit
    feigned,   \* the keys held for which a shift key was feigned to be pressed
    hidden,    \* the keys held for which the shift keys were feigned to be released
    mixed,     \* history: two keys that tell of shift have been down together
    events     \* bound: events so far

vars == <<shift, numlock, capslock, held, repeats, queue, leds, feigned, hidden, mixed, events>>

\* Set 1 scancodes, as the driver's tables and comparisons know them.
LeftShift == 42
RightShift == 54
CapsLock == 58
NumLock == 69
Shifts == {LeftShift, RightShift}
Grey == {256 + c : c \in {71, 72, 73, 75, 77, 79, 80, 81, 82, 83}}
Slash == 256 + 53
PrintScreen == 256 + 55
Prefix == 224
Acknowledge == 250

\* The scancodes for which kbdger and kbdger_upper have a character.
kbdger == (1 .. 83) \ ({29, 42, 54, 56} \cup 58 .. 73 \cup {75, 76, 77} \cup 79 .. 83)

Enter == 28

Init == /\ shift = FALSE /\ numlock = FALSE /\ capslock = FALSE
        /\ held = {} /\ repeats = 0 /\ queue = <<>>
        /\ leds \in {{}, {"num"}}
        /\ feigned = {} /\ hidden = {} /\ mixed = FALSE /\ events = 0

-----------------------------------------------------------------------------
\* The keyboard.

\* The bytes of a key that goes down (up = 0) or up (up = 128).
bytes(k, up) == IF k >= 256 THEN <<Prefix, (k % 256) + up>> ELSE <<k + up>>
fakes(shifts, up) ==
    (IF LeftShift \in shifts THEN <<Prefix, LeftShift + up>> ELSE <<>>) \o
    (IF RightShift \in shifts THEN <<Prefix, RightShift + up>> ELSE <<>>)

\* Under NumLock a grey key comes with a shift that is not held, as does PrintScreen
\* always; without it the shift keys that are held go up before it, and before the slash.
Down == held \cap Shifts
feigns(k) == Down = {} /\ (k = PrintScreen \/ (k \in Grey /\ "num" \in leds))
hides(k) == Down # {} /\ (k = Slash \/ (k \in Grey /\ "num" \notin leds))

Queued(sent) == /\ Len(queue) + Len(sent) <= QueueBound
                /\ queue' = queue \o sent
                /\ events < EventBound
                /\ events' = events + 1
                /\ UNCHANGED <<shift, numlock, capslock, leds>>

\* The keys whose bytes switch shift on or off, also later, when they are released.
Telling == Down \cup feigned \cup hidden
Mixes == mixed' = (Telling' # {} /\ (mixed \/ \E k, l \in Telling' : k # l))

Press(k) ==
    /\ k \notin held
    /\ held' = held \cup {k} /\ repeats' = k
    /\ feigned' = IF feigns(k) THEN feigned \cup {k} ELSE feigned
    /\ hidden' = IF hides(k) THEN hidden \cup {k} ELSE hidden
    /\ Queued((IF feigns(k) THEN fakes({LeftShift}, 0)
               ELSE IF hides(k) THEN fakes(Down, 128) ELSE <<>>) \o bytes(k, 0))
    /\ Mixes

\* Only the key itself is repeated.
Repeat == /\ repeats # 0
          /\ Queued(bytes(repeats, 0))
          /\ UNCHANGED <<held, repeats, feigned, hidden, mixed>>

\* What was feigned is taken back.
Release(k) ==
    /\ k \in held
    /\ held' = held \ {k}
    /\ repeats' = IF repeats = k THEN 0 ELSE repeats
    /\ feigned' = feigned \ {k} /\ hidden' = hidden \ {k}
    /\ Queued(bytes(k, 128) \o
              (IF k \in feigned THEN fakes({LeftShift}, 128)
               ELSE IF k \in hidden THEN fakes(Down, 0) ELSE <<>>))
    /\ Mixes

Keys == \/ \E k \in Key : Press(k) \/ Release(k)
        \/ Repeat

-----------------------------------------------------------------------------
\* The driver.

\* handle_lock_flags
handle_lock_flags(code) == /\ numlock' = IF code = NumLock THEN ~numlock ELSE numlock
                           /\ capslock' = IF code = CapsLock THEN ~capslock ELSE capslock

\* handle_kbdleds and kbd_update_leds: the command and its argument, each of
\* which the keyboard acknowledges.
handle_kbdleds(num, caps) == (IF num THEN {"num"} ELSE {}) \cup (IF caps THEN {"caps"} ELSE {})

\* Mutant: only the left shift key ends shift.
Unshifts_Left(code) == code = LeftShift

\* A release of this key ends shift.
Unshifts(code) == code \in Shifts

\* The byte in port 0x60 and the key it is about.
byte == Head(queue)
scancode == byte % 128
Pressed == queue # <<>> /\ byte < 128

\* The handler prints a character, and from which of the two tables.
Prints == Pressed /\ scancode \in kbdger
Table == IF shift' THEN "kbdger_upper" ELSE "kbdger"

\* The key was released, or the byte is a prefix or an acknowledgement.
ReleaseByte == /\ queue # <<>> /\ ~Pressed
               /\ shift' = (shift /\ ~Unshifts(scancode))
               /\ queue' = Tail(queue)
               /\ UNCHANGED <<numlock, capslock, leds>>

PressByte == /\ Pressed
             /\ shift' = (shift \/ scancode \in Shifts)
             /\ handle_lock_flags(scancode)
             /\ leds' = handle_kbdleds(numlock', capslock')
             /\ queue' = Tail(queue) \o <<Acknowledge, Acknowledge>>

\* keyboard_handler up to its printing: each byte is an interrupt of its own.
keyboard_handler == /\ ReleaseByte \/ PressByte
                    /\ UNCHANGED <<held, repeats, feigned, hidden, mixed, events>>

-----------------------------------------------------------------------------
\* When every byte has been read, shift is off if no shift key is held, nor a key for
\* which one is feigned: it is never stuck.  And it is on exactly while a shift key
\* is held, with two exceptions of the code, which has one flag for all shift keys
\* and ignores prefixes (kb.cpp:256 and 268): while a grey key is held for which a
\* shift is feigned it is on, and two shift keys, or a shift key and a feigning or
\* hiding one, held together undo each other until all of them are released.
ShiftFollowsKeys ==
    queue = <<>> =>
        /\ Down = {} /\ feigned = {} => ~shift
        /\ ~mixed /\ feigned = {} => (shift <=> Down # {})
=============================================================================
