------------------------------ MODULE Terminal ------------------------------
(***************************************************************************)
(* The console (Console) under the keyboard's interrupt (Keyboard): kmain  *)
(* prints texts while keys are pressed, repeat and are released, and the   *)
(* handler prints their characters (src/kb.cpp, src/console.cpp).          *)
(***************************************************************************)
EXTENDS Integers, Sequences

CONSTANTS
    Width, Height, WindowRows, RegisterSize, Printfs,   \* Console's
    Key, QueueBound, EventBound                         \* Keyboard's

VARIABLES
    p_con, p_video_ram, p_crtc, p_pc, p_calls, p_text, p_reg, p_dest, p_copied, p_clean,
    p_printed, p_stores, p_past, p_newlines, p_interruptions,     \* Console's
    k_shift, k_numlock, k_capslock, k_held, k_repeats, k_queue, k_leds,
    k_feigned, k_hidden, k_mixed, k_events                        \* Keyboard's

p_vars == <<p_con, p_video_ram, p_crtc, p_pc, p_calls, p_text, p_reg, p_dest, p_copied,
            p_clean, p_printed, p_stores, p_past, p_newlines, p_interruptions>>
k_vars == <<k_shift, k_numlock, k_capslock, k_held, k_repeats, k_queue, k_leds,
            k_feigned, k_hidden, k_mixed, k_events>>

Printer == INSTANCE Console WITH
    con <- p_con, video_ram <- p_video_ram, crtc <- p_crtc, pc <- p_pc, calls <- p_calls,
    text <- p_text, reg <- p_reg, dest <- p_dest, copied <- p_copied, clean <- p_clean,
    printed <- p_printed, stores <- p_stores, past <- p_past, newlines <- p_newlines,
    interruptions <- p_interruptions

Keyboard == INSTANCE Keyboard WITH
    shift <- k_shift, numlock <- k_numlock, capslock <- k_capslock, held <- k_held,
    repeats <- k_repeats, queue <- k_queue, leds <- k_leds,
    feigned <- k_feigned, hidden <- k_hidden, mixed <- k_mixed, events <- k_events

ASSUME ScreenAssumption ==
    /\ Width \in Nat \ {0} /\ Height \in Nat \ {0} /\ WindowRows \in Nat \ {0}
    /\ RegisterSize \in Nat \ {0}

\* The characters of kmain's texts, which are not empty.  Blanks are left out, to tell
\* a cell that was written from one that was not.
Printable == UNION {Printer!Range(Printfs[n]) : n \in DOMAIN Printfs}
ASSUME TextAssumption ==
    /\ Printfs \in Seq(Seq(Printable) \ {<<>>})
    /\ Printer!Blank \notin Printable

\* A byte and its prefix tell the keys apart and whether they are pressed.  No
\* extended key has a shift key's code: these are the feigned ones.
ASSUME KeyAssumption ==
    /\ Key \subseteq 1 .. 127 \cup 257 .. 383
    /\ \A k \in Key : k >= 256 => k % 256 \notin Keyboard!Shifts

\* Characters are told apart so that one that is lost is missed.
Character(scancode) ==
    IF scancode = Keyboard!Enter THEN Printer!NL
    ELSE <<"key", p_interruptions, Keyboard!Table>>

\* The whole of keyboard_handler, in the middle of what kmain is doing.
Interrupt == /\ Keyboard!keyboard_handler
             /\ IF Keyboard!Prints THEN Printer!PrintFromHandler(Character(Keyboard!scancode))
                ELSE UNCHANGED p_vars

\* kmain has printed everything and stays in its last loop.
Stay == p_pc = "idle" /\ p_calls = <<>> /\ UNCHANGED <<p_vars, k_vars>>

\* Interrupts are enabled: a byte that waits interrupts kmain before its next
\* access.
TerminalNext == \/ k_queue = <<>> /\ Printer!Kmain /\ UNCHANGED k_vars
                \/ Keyboard!Keys /\ UNCHANGED p_vars
                \/ Interrupt
                \/ Stay

TerminalInit == Printer!Init /\ Keyboard!Init

TerminalSpec == TerminalInit /\ [][TerminalNext]_<<p_vars, k_vars>>

\* See Console: what is lost when printing is interrupted, and what is shown.
LossBounded == Printer!LossBounded
ShownAfterPrinting == Printer!ShownAfterPrinting

\* See Keyboard: shift is never stuck, and on while a shift key is held.
ShiftFollowsKeys == Keyboard!ShiftFollowsKeys
=============================================================================
