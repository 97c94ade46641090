------------------------------ MODULE Terminal ------------------------------
(***************************************************************************)
(* What printing on the kernel's screen promises (src/kernel.c, 258-315),  *)
(* without video memory: a page of rows of which the top one disappears    *)
(* when a new one is needed at the bottom.                                 *)
(***************************************************************************)
EXTENDS Integers, Sequences

CONSTANTS
    Width, Height,
    Printable,      \* the cells that characters show
    Blank,          \* the cell a space in the screen's colour shows
    Fills           \* the cells the graphics driver fills the page with

VARIABLES
    rows,           \* the rows of the page, top first
    row, column     \* where the next character goes, both from 1

vars == <<rows, row, column>>

EmptyRow(cell) == [c \in 1 .. Width |-> cell]

EmptyPage(cell) == [r \in 1 .. Height |-> EmptyRow(cell)]

Init ==
    /\ rows = EmptyPage(Blank)
    /\ row = 1
    /\ column = 1

(* The page P after the position went to column c of row r: a full row is  *)
(* followed by the next one, and behind the last row a new one begins.     *)
MoveTo(P, r, c) ==
    LET over == c > Width
        line == IF over THEN r + 1 ELSE r
    IN
    /\ column' = IF over THEN 1 ELSE c
    /\ IF line > Height
         THEN rows' = Append(Tail(P), EmptyRow(Blank)) /\ row' = Height
         ELSE rows' = P /\ row' = line

Type(cell) == MoveTo([rows EXCEPT ![row][column] = cell], row, column + 1)

NewLine == MoveTo(rows, row + 1, 1)

Return == MoveTo(rows, row, 1)

Tabulate == MoveTo(rows, row, column + 4)

Erase ==
    /\ column > 1
    /\ MoveTo([rows EXCEPT ![row][column - 1] = Blank], row, column - 1)

Clear ==
    /\ rows' = EmptyPage(Blank)
    /\ row' = 1
    /\ column' = 1

(* The graphics driver does not know of the position. *)
Fill(cell) ==
    /\ rows' = EmptyPage(cell)
    /\ UNCHANGED <<row, column>>

Next ==
    \/ \E cell \in Printable : Type(cell)
    \/ NewLine \/ Return \/ Tabulate \/ Erase \/ Clear
    \/ \E cell \in Fills : Fill(cell)

Spec == Init /\ [][Next]_vars
=============================================================================
