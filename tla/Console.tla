------------------------------- MODULE Console -------------------------------
(***************************************************************************)
(* The kernel's text screen: screen_clear, screen_putchar and              *)
(* screen_scroll of src/kernel.c, and graphics_clear_screen of             *)
(* src/graphics.c, which writes to the same memory.                        *)
(*                                                                         *)
(* Video memory is one array of cells, row after row.  screen_print is a   *)
(* sequence of calls of screen_putchar.  A cell is the attribute and the   *)
(* character together, as the code stores them.                            *)
(***************************************************************************)
EXTENDS Integers

CONSTANTS
    SCREEN_WIDTH, SCREEN_HEIGHT,
    Characters,     \* cells that printable characters show in screen_color
    Space,          \* the cell (screen_color << 8) | ' '
    Fills           \* cells graphics_clear_screen is called to fill with

ASSUME ConsoleAssumption ==
    /\ SCREEN_WIDTH \in Nat \ {0}
    /\ SCREEN_HEIGHT \in Nat \ {0}

VARIABLES
    video_memory,
    cursor_x, cursor_y

consoleVars == <<video_memory, cursor_x, cursor_y>>

-----------------------------------------------------------------------------
LastRow == SCREEN_HEIGHT - 1

Cells == 0 .. (SCREEN_WIDTH * SCREEN_HEIGHT - 1)

At(x, y) == y * SCREEN_WIDTH + x

(* kernel_main starts with screen_init and screen_clear. *)
ConsoleInit ==
    /\ video_memory = [i \in Cells |-> Space]
    /\ cursor_x = 0
    /\ cursor_y = 0

screen_clear ==
    /\ video_memory' = [i \in Cells |-> Space]
    /\ cursor_x' = 0
    /\ cursor_y' = 0

(* Mutated form: the new last row keeps the text of the one above it. *)
ScrollKeepsLast(memory) ==
    [i \in Cells |-> IF i < LastRow * SCREEN_WIDTH THEN memory[i + SCREEN_WIDTH]
                                                   ELSE memory[i]]

(* The cells are copied upwards from the first to the last; none is read   *)
(* after it was written.                                                   *)
screen_scroll(memory) ==
    [i \in Cells |-> IF i < LastRow * SCREEN_WIDTH THEN memory[i + SCREEN_WIDTH]
                                                   ELSE Space]

RowIsFull(x) == x >= SCREEN_WIDTH

(* The end of screen_putchar: where the cursor goes from (x, y), and what  *)
(* the memory is then.                                                     *)
Settle(memory, x, y) ==
    LET line == IF RowIsFull(x) THEN y + 1 ELSE y IN
    /\ cursor_x' = IF RowIsFull(x) THEN 0 ELSE x
    /\ IF line >= SCREEN_HEIGHT
         THEN /\ video_memory' = screen_scroll(memory)
              /\ cursor_y' = LastRow
         ELSE /\ video_memory' = memory
              /\ cursor_y' = line

Written(x, y, cell) == [video_memory EXCEPT ![At(x, y)] = cell]

putchar_newline == Settle(video_memory, 0, cursor_y + 1)

putchar_return == Settle(video_memory, 0, cursor_y)

putchar_tab == Settle(video_memory, cursor_x + 4, cursor_y)

putchar_backspace ==
    IF cursor_x > 0
      THEN Settle(Written(cursor_x - 1, cursor_y, Space), cursor_x - 1, cursor_y)
      ELSE Settle(video_memory, cursor_x, cursor_y)

putchar_other(cell) ==
    Settle(Written(cursor_x, cursor_y, cell), cursor_x + 1, cursor_y)

(* screen_putchar: the four control characters, and every other one. *)
screen_putchar ==
    \/ putchar_newline
    \/ putchar_return
    \/ putchar_tab
    \/ putchar_backspace
    \/ \E cell \in Characters : putchar_other(cell)

(* The cursor stays where it is. *)
graphics_clear_screen(cell) ==
    /\ video_memory' = [i \in Cells |-> cell]
    /\ UNCHANGED <<cursor_x, cursor_y>>

ConsoleNext ==
    \/ screen_putchar
    \/ screen_clear
    \/ \E cell \in Fills : graphics_clear_screen(cell)

ConsoleSpec == ConsoleInit /\ [][ConsoleNext]_consoleVars

-----------------------------------------------------------------------------
(* Type invariant.  The cursor is on the screen between calls, so the cell *)
(* that screen_putchar writes first (At(cursor_x, cursor_y), or the one    *)
(* before it) is one of video memory's.                                    *)
TypeOK ==
    /\ video_memory \in [Cells -> Characters \cup Fills \cup {Space}]
    /\ cursor_x \in 0 .. (SCREEN_WIDTH - 1)
    /\ cursor_y \in 0 .. LastRow

Page == INSTANCE Terminal WITH
    Width     <- SCREEN_WIDTH,
    Height    <- SCREEN_HEIGHT,
    Printable <- Characters,
    Blank     <- Space,
    rows      <- [r \in 1 .. SCREEN_HEIGHT |->
                    [c \in 1 .. SCREEN_WIDTH |-> video_memory[At(c - 1, r - 1)]]],
    row       <- cursor_y + 1,
    column    <- cursor_x + 1

(* The array of cells and the cursor behave like a page of rows: text goes *)
(* where the previous character ended, rows are full at the same column    *)
(* for every character, and scrolling loses the top row and nothing else.  *)
ImplementsTerminal == Page!Spec
=============================================================================
