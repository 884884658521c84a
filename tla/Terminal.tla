------------------------------ MODULE Terminal ------------------------------
(***************************************************************************)
(* What the text console promises: a screen of HEIGHT lines with a cursor. *)
(* A glyph goes where the cursor is; a full line, like a newline, moves on *)
(* to the next; past the last line the top line leaves the screen and a    *)
(* blank one enters below.                                                 *)
(***************************************************************************)
EXTENDS Integers, Sequences

CONSTANTS WIDTH, HEIGHT, Glyphs, Colors, SPACE

VARIABLES screen,        \* a sequence of lines, each a sequence of cells
          row, col       \* the cursor; col is WIDTH after a full line

vars == <<screen, row, col>>

Blank(color) == [c \in 1 .. WIDTH |-> <<SPACE, color>>]
Cleared(color) == [r \in 1 .. HEIGHT |-> Blank(color)]

(* The screen and the cursor's line after moving on by one line.           *)
Advanced(color) == IF row < HEIGHT THEN screen ELSE Append(Tail(screen), Blank(color))
NextRow == IF row < HEIGHT THEN row + 1 ELSE HEIGHT

NewLine(color) ==
    /\ screen' = Advanced(color) /\ row' = NextRow /\ col' = 0

Put(glyph, color) ==
    /\ IF col < WIDTH
       THEN screen' = [screen EXCEPT ![row][col + 1] = <<glyph, color>>] /\ row' = row
       ELSE screen' = [Advanced(color) EXCEPT ![NextRow][1] = <<glyph, color>>]
            /\ row' = NextRow
    /\ col' = (col % WIDTH) + 1

Clear(color) == screen' = Cleared(color) /\ UNCHANGED <<row, col>>
Home(color) == screen' = Cleared(color) /\ row' = 1 /\ col' = 0

Init == row = 1 /\ col = 0

Next == \E color \in Colors :
          NewLine(color) \/ Clear(color) \/ Home(color) \/ \E glyph \in Glyphs : Put(glyph, color)

Spec == Init /\ [][Next]_vars
=============================================================================
