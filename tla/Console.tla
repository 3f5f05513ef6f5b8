------------------------------- MODULE Console -------------------------------
(***************************************************************************)
(* The console (src/console.cpp) and the screen behind it (src/video.cpp). *)
(* kmain prints with interrupts enabled and the keyboard's handler prints  *)
(* in between.  The kernel is built without optimisation: every use of a   *)
(* field in the source is an access to memory of its own, and an interrupt *)
(* may fall between any two.  The handler runs behind an interrupt gate    *)
(* and is not interrupted.                                                 *)
(***************************************************************************)
EXTENDS Integers, Sequences, FiniteSets, Functions

CONSTANTS
    Width,       \* buffer_width, SCREEN_WIDTH: 80
    Height,      \* buffer_height: 2500
    WindowRows,  \* SCREEN_HEIGHT: 25
    RegisterSize,   \* 256: values of a register of the video controller
    Printfs      \* what kmain prints: a sequence of texts, one per printf

\* Characters are tuples: <<"newline">>, <<"blank">> or any other.
NL == <<"newline">>
Blank == <<"blank">>

VARIABLES
    con,         \* struct CONSOLE: buffer, cursor_column, cursor_row, top_row
    video_ram,   \* the cells of the screen
    crtc,        \* the video controller: its index and its cursor registers
    pc, calls, text,   \* kmain: where it is in printf, printfs and characters left
    reg, dest,   \* kmain: the value it loaded last; the cell or position computed
    copied,      \* kmain: how far memcpy has come
    clean,       \* history: no key was printed since kmain's printf began
    printed,     \* history: the characters stored so far
    stores,      \* history: how often one was stored,
    past,        \* history: and how often past the end of the buffer
    newlines,    \* history: newlines printed
    interruptions   \* history: characters the handler has printed

vars == <<con, video_ram, crtc, pc, calls, text, reg, dest, copied, clean,
          printed, stores, past, newlines, interruptions>>

Cells == 0 .. (Width * Height - 1)
Screen == 0 .. (Width * WindowRows - 1)

\* CONSOLE::CONSOLE; the screen still shows what the BIOS left there.
Init == /\ con = [buffer |-> [c \in Cells |-> Blank],
                  cursor_column |-> 0, cursor_row |-> 0, top_row |-> 0]
        /\ video_ram = [c \in Screen |-> <<"bios">>]
        /\ crtc = [index |-> 14, register |-> [r \in {14, 15} |-> 0]]
        /\ pc = "idle" /\ calls = Printfs /\ text = <<>>
        /\ reg = 0 /\ dest = 0 /\ copied = 0
        /\ clean = TRUE /\ printed = {} /\ stores = 0 /\ past = 0
        /\ newlines = 0 /\ interruptions = 0

-----------------------------------------------------------------------------
\* The whole of write_char_to_console, as an interrupt handler runs it.

\* A write past the end of the buffer goes to other data of the kernel, whatever the
\* linker put behind it: it is counted (past), and nothing is said from then on.
Stored(c, at, ch) == IF at \in Cells THEN [c EXCEPT !.buffer[at] = ch] ELSE c

NextLine(c) == [c EXCEPT !.cursor_column = 0, !.cursor_row = @ + 1]

Advanced(c) == IF c.cursor_column + 1 >= Width
               THEN NextLine(c) ELSE [c EXCEPT !.cursor_column = @ + 1]

\* Mutant: the window is moved down one row too late.
TooLow_ByOne(row, top) == row - top > WindowRows

\* The cursor is after the visible area (the difference is unsigned).
TooLow(row, top) == row - top < 0 \/ row - top >= WindowRows

Scrolled(c) == IF c.cursor_row < c.top_row
               THEN [c EXCEPT !.top_row = c.cursor_row]
               ELSE IF TooLow(c.cursor_row, c.top_row)
               THEN [c EXCEPT !.top_row = c.cursor_row - (WindowRows - 1)]
               ELSE c

write_char_to_console(c, ch) ==
    Scrolled(IF ch = NL THEN NextLine(c)
             ELSE Advanced(Stored(c, Width * c.cursor_row + c.cursor_column, ch)))

\* video_display: the rows of the window.
Window(c) == [s \in Screen |-> IF c.top_row * Width + s \in Cells
                               THEN c.buffer[c.top_row * Width + s] ELSE <<"other">>]

\* video_move_cursor, where both registers are written.
cursor_at(p) == [index |-> 14,
                 register |-> [r \in {14, 15} |->
                     (IF r = 15 THEN p ELSE p \div RegisterSize) % RegisterSize]]

Position(c) == (c.cursor_row - c.top_row) * Width + c.cursor_column

\* The history of a character that is stored.
Counted(at, ch) == /\ printed' = printed \cup {ch}
                   /\ stores' = stores + 1
                   /\ past' = IF at \in Cells THEN past ELSE past + 1

\* console.printf( "%c", ch ) in an interrupt handler, between any two steps of
\* the code it interrupts.
PrintFromHandler(ch) ==
    /\ con' = write_char_to_console(con, ch)
    /\ video_ram' = Window(con')
    /\ crtc' = cursor_at(Position(con'))
    /\ clean' = FALSE
    /\ interruptions' = interruptions + 1
    /\ IF ch = NL THEN newlines' = newlines + 1 /\ UNCHANGED <<printed, stores, past>>
       ELSE Counted(Width * con.cursor_row + con.cursor_column, ch) /\ UNCHANGED newlines
    /\ UNCHANGED <<pc, calls, text, reg, dest, copied>>

-----------------------------------------------------------------------------
\* kmain's printf, access by access.

kmain == <<pc, calls, text, reg, dest, copied, clean>>
history == <<printed, stores, past, newlines, interruptions>>

Goto(from, to) == pc = from /\ pc' = to

\* A use of a field: its value is in a register from here on.
Load(field, from, to) ==
    /\ Goto(from, to)
    /\ reg' = con[field]
    /\ UNCHANGED <<con, video_ram, crtc, calls, text, dest, copied, clean, history>>

\* An assignment to a field.
Store(field, value, from, to) ==
    /\ Goto(from, to)
    /\ con' = [con EXCEPT ![field] = value]
    /\ UNCHANGED <<video_ram, crtc, calls, text, reg, dest, copied, clean, history>>

\* A comparison of the loaded value with a field decides where to go.
Branch(from, to) ==
    /\ Goto(from, to)
    /\ UNCHANGED <<con, video_ram, crtc, calls, text, reg, dest, copied, clean, history>>

\* printf is called; format_string_varg hands on the first character.
Printf == /\ Goto("idle", "next") /\ calls # <<>>
          /\ text' = Head(calls) /\ calls' = Tail(calls)
          /\ clean' = TRUE
          /\ UNCHANGED <<con, video_ram, crtc, reg, dest, copied, history>>

NextCharacter ==
    /\ Goto("next", IF text = <<>> THEN "display"
                    ELSE IF Head(text) = NL THEN "newline" ELSE "cell")
    /\ newlines' = IF pc' = "newline" THEN newlines + 1 ELSE newlines
    /\ UNCHANGED <<con, video_ram, crtc, calls, text, reg, dest, copied, clean,
                   printed, stores, past, interruptions>>

\* if( ch == '\n' ): the two assignments.
NewLine == \/ Store("cursor_column", 0, "newline", "newline_row")
           \/ Load("cursor_row", "newline_row", "newline_down")
           \/ Store("cursor_row", reg + 1, "newline_down", "scroll")

\* dest = buffer + buffer_width * cursor_row + cursor_column: two loads.
Destination ==
    \/ Load("cursor_row", "cell", "cell_column")
    \/ /\ Goto("cell_column", "cell_store")
       /\ dest' = Width * reg + con.cursor_column
       /\ UNCHANGED <<con, video_ram, crtc, calls, text, reg, copied, clean, history>>

\* dest->ch = ch; the color is always the same.
StoreCharacter ==
    /\ Goto("cell_store", "advance")
    /\ con' = Stored(con, dest, Head(text))
    /\ Counted(dest, Head(text))
    /\ UNCHANGED <<video_ram, crtc, calls, text, reg, dest, copied, clean,
                   newlines, interruptions>>

\* Mutant: the row is advanced one column before the edge.
AtEdge_Early == con.cursor_column + 1 >= Width

AtEdge == con.cursor_column >= Width

\* cursor_column += 1, and the wrap to the next row.
Advance ==
    \/ Load("cursor_column", "advance", "advance_store")
    \/ Store("cursor_column", reg + 1, "advance_store", "edge")
    \/ Branch("edge", IF AtEdge THEN "wrap" ELSE "scroll")
    \/ Load("cursor_row", "wrap", "wrap_store")
    \/ Store("cursor_row", reg + 1, "wrap_store", "wrap_zero")
    \/ Store("cursor_column", 0, "wrap_zero", "scroll")

\* The window follows the cursor.
Scroll ==
    \/ Load("cursor_row", "scroll", "scroll_above")
    \/ Branch("scroll_above", IF reg < con.top_row THEN "up" ELSE "scroll_row")
    \/ Load("cursor_row", "up", "up_store")
    \/ Store("top_row", reg, "up_store", "written")
    \/ Load("cursor_row", "scroll_row", "scroll_below")
    \/ Branch("scroll_below", IF TooLow(reg, con.top_row) THEN "down" ELSE "written")
    \/ Load("cursor_row", "down", "down_store")
    \/ Store("top_row", reg - (WindowRows - 1), "down_store", "written")

\* write_char_to_console returns to format_string_varg.
Written == /\ Goto("written", "next")
           /\ text' = Tail(text)
           /\ UNCHANGED <<con, video_ram, crtc, calls, reg, dest, copied, clean, history>>

\* video_display( buffer + top_row * buffer_width ): memcpy, cell by cell.
Display ==
    \/ /\ Goto("display", "copy")
       /\ dest' = con.top_row
       /\ copied' = 0
       /\ UNCHANGED <<con, video_ram, crtc, calls, text, reg, clean, history>>
    \/ /\ pc = "copy"
       /\ video_ram' = [video_ram EXCEPT ![copied] =
                            Window([con EXCEPT !.top_row = dest])[copied]]
       /\ copied' = copied + 1
       /\ pc' = IF copied' \in Screen THEN "copy" ELSE "cursor"
       /\ UNCHANGED <<con, crtc, calls, text, reg, dest, clean, history>>

\* video_move_cursor( cursor_column, cursor_row - top_row ).
CursorArguments ==
    \/ Load("cursor_row", "cursor", "cursor_top")
    \/ /\ Goto("cursor_top", "cursor_column")
       /\ reg' = reg - con.top_row
       /\ UNCHANGED <<con, video_ram, crtc, calls, text, dest, copied, clean, history>>
    \/ /\ Goto("cursor_column", "index_low")
       /\ dest' = reg * Width + con.cursor_column
       /\ UNCHANGED <<con, video_ram, crtc, calls, text, reg, copied, clean, history>>

SetIndex(i, from, to) ==
    /\ Goto(from, to)
    /\ crtc' = [crtc EXCEPT !.index = i]
    /\ UNCHANGED <<con, video_ram, calls, text, reg, dest, copied, clean, history>>

\* The data port writes the register that the index selects.
SetRegister(value, from, to) ==
    /\ Goto(from, to)
    /\ crtc' = [crtc EXCEPT !.register[crtc.index] = value % RegisterSize]
    /\ UNCHANGED <<con, video_ram, calls, text, reg, dest, copied, clean, history>>

\* The four port accesses of video_move_cursor.
MoveCursor == \/ SetIndex(15, "index_low", "low")
              \/ SetRegister(dest, "low", "index_high")
              \/ SetIndex(14, "index_high", "high")
              \/ SetRegister(dest \div RegisterSize, "high", "idle")

Kmain == \/ Printf \/ NextCharacter \/ NewLine \/ Destination \/ StoreCharacter
         \/ Advance \/ Scroll \/ Written \/ Display \/ CursorArguments \/ MoveCursor

-----------------------------------------------------------------------------
\* The rows that what was printed may take.
RowBound == newlines + stores \div Width + interruptions

\* Each character the handler prints in the middle of another's printing costs
\* at most one character of the text and moves the cursor at most one row too
\* far: with one row of the buffer to spare for every key, no write goes past
\* its end (console.cpp:43 looks at no bound).  The code promises nothing after one.
LossBounded ==
    /\ past = 0 => /\ Cardinality(printed \ Range(con.buffer)) <= interruptions
                   /\ con.cursor_row <= RowBound
    /\ past > 0 => Height <= RowBound

\* The cursor is on the screen, the screen shows the rows of the window, and
\* the video controller's cursor is where the console's is.
Shown == /\ con.cursor_row - con.top_row \in 0 .. (WindowRows - 1)
         /\ con.cursor_column < Width
         /\ video_ram = Window(con)
         /\ crtc.register = cursor_at(Position(con)).register

\* Whatever printing was interrupted before, a key that is printed is shown, and
\* so is the text of a printf of kmain that no key fell into: what a key leaves torn,
\* such as an index port and its data port (video.cpp:54), lasts until the next
\* print that is not interrupted.  After a write past the buffer nothing is said.
ShownAfterPrinting ==
    [][ past' = 0 =>
        (interruptions' # interruptions => Shown')
        /\ (pc = "high" /\ pc' = "idle" /\ clean /\ interruptions = interruptions'
              => Shown') ]_vars
=============================================================================
