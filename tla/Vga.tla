-------------------------------- MODULE Vga --------------------------------
(***************************************************************************)
(* The console of src/vga.rs: a cursor, a colour and the device's buffer   *)
(* of two bytes per cell.  One action per byte written; printing formats   *)
(* its text piece by piece, so other code may run between two bytes.       *)
(***************************************************************************)
EXTENDS Volatile, Sequences

CONSTANTS VGA_WIDTH, VGA_HEIGHT,
          Glyphs,        \* printable bytes, the blank among them
          Colors,        \* attribute bytes
          SPACE, NEWLINE,
          WHITE_ON_BLACK,
          NO_COLOR       \* prev_color while no coloured text is being printed

ASSUME VgaAssumption ==
    /\ VGA_WIDTH \in Nat \ {0} /\ VGA_HEIGHT \in Nat \ {0}
    /\ SPACE \in Glyphs /\ NEWLINE \notin Glyphs
    /\ WHITE_ON_BLACK \in Colors /\ NO_COLOR \notin Colors

VARIABLES buffer,            \* the device's memory
          row, col, color,   \* VgaWriter
          prev_color         \* local of _print_color

vars == <<buffer, row, col, color, prev_color>>

Cell == 0 .. VGA_WIDTH * VGA_HEIGHT - 1
Address == 0 .. 2 * VGA_WIDTH * VGA_HEIGHT - 1

-----------------------------------------------------------------------------
write_cell(buf, cell, glyph) == [buf EXCEPT ![2 * cell] = glyph, ![2 * cell + 1] = color]

blank(buf, cells) ==
    [a \in Address |-> IF a \div 2 \notin cells THEN buf[a]
                       ELSE IF a % 2 = 0 THEN SPACE ELSE color]

clear_row(buf, r) == blank(buf, r * VGA_WIDTH .. r * VGA_WIDTH + VGA_WIDTH - 1)

(* Faulty: only the cells of one row too few move up.                      *)
scroll_short(buf) ==
    clear_row(copy(buf, VGA_WIDTH * 2, 0, (VGA_HEIGHT - 2) * VGA_WIDTH * 2), VGA_HEIGHT - 1)

scroll(buf) ==
    clear_row(copy(buf, VGA_WIDTH * 2, 0, (VGA_HEIGHT - 1) * VGA_WIDTH * 2), VGA_HEIGHT - 1)

(* Faulty: the bottom row is not the last one.                             *)
scrolls_late == row + 1 > VGA_HEIGHT

(* newline: whether the cursor passes the bottom, and where that leads.    *)
scrolls == row + 1 >= VGA_HEIGHT
newline_row == IF scrolls THEN VGA_HEIGHT - 1 ELSE row + 1
newline_buffer == IF scrolls THEN scroll(buffer) ELSE buffer

Newline ==
    /\ col' = 0 /\ row' = newline_row /\ buffer' = newline_buffer
    /\ UNCHANGED <<color, prev_color>>

(* write_byte on any other byte: a full line wraps only now.               *)
WriteByte(byte) ==
    /\ IF col >= VGA_WIDTH
       THEN /\ buffer' = write_cell(newline_buffer, newline_row * VGA_WIDTH, byte)
            /\ row' = newline_row /\ col' = 1
       ELSE /\ buffer' = write_cell(buffer, row * VGA_WIDTH + col, byte)
            /\ row' = row /\ col' = col + 1
    /\ UNCHANGED <<color, prev_color>>

Write(byte) == IF byte = NEWLINE THEN Newline ELSE WriteByte(byte)

(* _print_color before and after its text.                                 *)
SetColor(c) ==
    /\ prev_color = NO_COLOR
    /\ prev_color' = color /\ color' = c
    /\ UNCHANGED <<buffer, row, col>>

RestoreColor ==
    /\ prev_color # NO_COLOR
    /\ color' = prev_color /\ prev_color' = NO_COLOR
    /\ UNCHANGED <<buffer, row, col>>

Clear ==
    /\ buffer' = blank(buffer, Cell)
    /\ UNCHANGED <<row, col, color, prev_color>>

Reset ==
    /\ buffer' = blank(buffer, Cell) /\ row' = 0 /\ col' = 0
    /\ UNCHANGED <<color, prev_color>>

(* The firmware's text is on the screen.                                   *)
Init ==
    /\ \E g \in Glyphs, c \in Colors : buffer = [a \in Address |-> IF a % 2 = 0 THEN g ELSE c]
    /\ row = 0 /\ col = 0 /\ color = WHITE_ON_BLACK /\ prev_color = NO_COLOR

Next ==
    \/ \E byte \in Glyphs \cup {NEWLINE} : Write(byte)
    \/ \E c \in Colors : SetColor(c)
    \/ RestoreColor \/ Clear \/ Reset

Spec == Init /\ [][Next]_vars

-----------------------------------------------------------------------------
(* Properties.                                                             *)

(* The cursor stays on the screen, at most one past the end of a line, and *)
(* glyphs and colours stay in their own bytes of a cell.                   *)
TypeOK ==
    /\ \A a \in Address : buffer[a] \in (IF a % 2 = 0 THEN Glyphs ELSE Colors)
    /\ row \in 0 .. VGA_HEIGHT - 1 /\ col \in 0 .. VGA_WIDTH
    /\ color \in Colors /\ prev_color \in Colors \cup {NO_COLOR}

Line(r) == [c \in 1 .. VGA_WIDTH |->
              LET cell == r * VGA_WIDTH + c - 1 IN <<buffer[2 * cell], buffer[2 * cell + 1]>>]

Console == INSTANCE Terminal
           WITH WIDTH <- VGA_WIDTH, HEIGHT <- VGA_HEIGHT, row <- row + 1,
                screen <- [r \in 1 .. VGA_HEIGHT |-> Line(r - 1)]

(* The buffer behaves as a terminal: the bytewise copy of the rows and the *)
(* late wrap of a full line amount to lines moving up one by one, with no  *)
(* blank line after a full one and none lost (write_byte, newline, scroll, *)
(* clear and reset).                                                       *)
ImplementsTerminal == Console!Spec

(* The copy that scrolling relies on moves what is on the screen as a      *)
(* memmove would, in either direction and however its ranges overlap       *)
(* (volatile.rs, copy: "Overlapping regions are handled with `memmove`     *)
(* semantics").                                                            *)
CopyIsMove ==
    LET bytes == 2 * VGA_WIDTH * VGA_HEIGHT
    IN  \A count \in 2 .. bytes : \A src, dst \in 0 .. bytes - count :
            src # dst /\ src < dst + count /\ dst < src + count =>
                copy(buffer, src, dst, count) = Moved(buffer, src, dst, count)
=============================================================================
