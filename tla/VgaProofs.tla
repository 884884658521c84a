------------------------------ MODULE VgaProofs ------------------------------
(***************************************************************************)
(* Proofs about the console (src/vga.rs) and its copy (src/volatile.rs),   *)
(* for every size of the screen.                                           *)
(***************************************************************************)
EXTENDS Vga, TLAPS, WellFoundedInduction

-----------------------------------------------------------------------------
(* The copy.                                                               *)

Byte == Glyphs \cup Colors

(* The addresses written by the first n elements, from the end down or     *)
(* from the start, and the memory after them.                              *)
Written(src, dst, count, n, a) ==
    IF backwards(src, dst, count)
    THEN dst + count - n <= a /\ a < dst + count
    ELSE dst <= a /\ a < dst + n

Partial(memory, src, dst, count, n) ==
    [a \in DOMAIN memory |-> IF Written(src, dst, count, n, a) THEN memory[a - dst + src] ELSE memory[a]]

(* The loop's n-th state is Partial(n): the element read next has not been *)
(* overwritten, whichever way the copy runs.  There is no induction rule   *)
(* to cite; the least n that is wrong, if any, gives a contradiction.      *)
LEMMA CopyMoves ==
    ASSUME NEW size \in Nat, NEW memory \in [0 .. size - 1 -> Byte],
           NEW src \in Nat, NEW dst \in Nat, NEW count \in Nat,
           src + count <= size, dst + count <= size
    PROVE  copy(memory, src, dst, count) = Moved(memory, src, dst, count)
<1> DEFINE Body(g) == [n \in 0 .. count |->
                         IF n = 0 THEN memory
                         ELSE copy_element(g[n - 1], src, dst, element(src, dst, count, n - 1))]
           after == CHOOSE g : g = Body(g)
           closed == [n \in 0 .. count |-> Partial(memory, src, dst, count, n)]
<1>1. copy(memory, src, dst, count) = after[count]
  BY DEF copy
<1>2. \A n \in 0 .. count, a \in Int :
         n > 0 => (Written(src, dst, count, n, a) <=>
                     \/ Written(src, dst, count, n - 1, a)
                     \/ a = dst + element(src, dst, count, n - 1))
  BY DEF Written, element, backwards
<1>3. \A n \in 0 .. count :
         n > 0 => LET i == element(src, dst, count, n - 1) IN
                  /\ i \in 0 .. count - 1 /\ ~Written(src, dst, count, n - 1, src + i)
  BY DEF Written, element, backwards
<1>4. ASSUME NEW n \in 0 .. count, n > 0
      PROVE  Partial(memory, src, dst, count, n)
               = copy_element(Partial(memory, src, dst, count, n - 1), src, dst, element(src, dst, count, n - 1))
  <2> DEFINE i == element(src, dst, count, n - 1)
  <2>1. i \in 0 .. count - 1 /\ ~Written(src, dst, count, n - 1, src + i)
    BY <1>3, <1>4
  <2>2. \A a \in Int : Written(src, dst, count, n, a) <=> Written(src, dst, count, n - 1, a) \/ a = dst + i
    BY <1>2, <1>4
  <2> HIDE DEF i
  <2>3. src + i \in 0 .. size - 1 /\ dst + i \in 0 .. size - 1 /\ dst + i - dst + src = src + i
    BY <2>1
  <2> DEFINE before == Partial(memory, src, dst, count, n - 1)
             later == Partial(memory, src, dst, count, n)
  <2>4. before = [a \in 0 .. size - 1 |->
                    IF Written(src, dst, count, n - 1, a) THEN memory[a - dst + src] ELSE memory[a]]
        /\ later = [a \in 0 .. size - 1 |->
                      IF Written(src, dst, count, n, a) THEN memory[a - dst + src] ELSE memory[a]]
    BY DEF Partial
  <2> HIDE DEF before, later
  <2>5. before[src + i] = memory[src + i]
    BY <2>1, <2>3, <2>4
  <2>6. copy_element(before, src, dst, i)
          = [a \in 0 .. size - 1 |-> IF a = dst + i THEN memory[src + i] ELSE before[a]]
    BY <2>3, <2>4, <2>5, Zenon DEF copy_element
  <2>7. ASSUME NEW a \in 0 .. size - 1
        PROVE  later[a] = IF a = dst + i THEN memory[src + i] ELSE before[a]
    <3>1. CASE a = dst + i
      <4>1. a \in Int
        OBVIOUS
      <4>2. Written(src, dst, count, n, a)
        BY <2>2, <3>1, <4>1
      <4>3. a - dst + src = src + i
        BY <2>1, <3>1
      <4> QED
        BY <2>4, <3>1, <4>2, <4>3
    <3>2. CASE a # dst + i
      BY <2>2, <2>4, <3>2
    <3> QED
      BY <3>1, <3>2
  <2>8. later = copy_element(before, src, dst, i)
    BY <2>4, <2>6, <2>7, Zenon
  <2> QED
    BY <2>8 DEF before, later, i
<1>5. Partial(memory, src, dst, count, 0) = memory
  BY DEF Partial, Written
<1>6. closed = Body(closed)
  BY <1>4, <1>5
<1>7. after = Body(after)
  BY <1>6, Zenon
<1> HIDE DEF after, closed
<1>8. \A n \in 0 .. count : after[n] = Partial(memory, src, dst, count, n)
  <2> DEFINE wrong == {n \in 0 .. count : after[n] # Partial(memory, src, dst, count, n)}
  <2> SUFFICES ASSUME wrong # {} PROVE FALSE
    OBVIOUS
  <2>1. PICK n \in wrong : \A m \in wrong : ~(<<m, n>> \in OpToRel(<, Nat))
    <3>1. wrong \subseteq Nat
      OBVIOUS
    <3> HIDE DEF wrong
    <3> QED
      BY <3>1, NatLessThanWellFounded, WFMin, Zenon
  <2>2. n # 0
    BY <1>5, <1>7
  <2>3. n - 1 \notin wrong
    <3>1. n - 1 < n /\ n \in Nat /\ n - 1 \in Nat
      BY <2>2
    <3>2. <<n - 1, n>> \in OpToRel(<, Nat)
      BY <3>1 DEF OpToRel
    <3> QED
      BY <2>1, <3>2, Zenon
  <2>4. after[n - 1] = Partial(memory, src, dst, count, n - 1)
    BY <2>2, <2>3
  <2>5. after[n] = copy_element(after[n - 1], src, dst, element(src, dst, count, n - 1))
    BY <1>7, <2>2
  <2> QED
    BY <1>4, <2>2, <2>4, <2>5
<1>9. Partial(memory, src, dst, count, count) = Moved(memory, src, dst, count)
  BY DEF Partial, Moved, Written, backwards
<1> QED
  BY <1>1, <1>8, <1>9

-----------------------------------------------------------------------------
(* The buffer as lines.                                                    *)

W == VGA_WIDTH
H == VGA_HEIGHT

LineOf(buf, r) == [c \in 1 .. W |-> <<buf[2 * (r * W + c - 1)], buf[2 * (r * W + c - 1) + 1]>>]
ScreenOf(buf) == [r \in 1 .. H |-> LineOf(buf, r - 1)]
BlankLine == [c \in 1 .. W |-> <<SPACE, color>>]

(* A row and a column determine the cell and conversely.                   *)
LEMMA Cells ==
    ASSUME NEW r \in 0 .. H - 1, NEW c \in 0 .. W - 1
    PROVE  /\ r * W \in Nat /\ r * W + c \in Cell
           /\ 2 * (r * W + c) \in Address /\ 2 * (r * W + c) + 1 \in Address
           /\ \A q \in 0 .. H - 1, d \in 0 .. W - 1 : q * W + d = r * W + c => q = r /\ d = c
<1>1. W \in Nat \ {0} /\ H \in Nat \ {0} /\ r \in Nat /\ c \in Nat /\ r < H /\ c < W
  BY VgaAssumption DEF W, H
<1>2. r * W \in Nat /\ W * H \in Nat
  BY <1>1
<1>3. r * W + W <= W * H
  <2>1. (r + 1) * W <= H * W
    BY <1>1
  <2> QED
    BY <1>1, <2>1
<1>4. r * W + c \in 0 .. W * H - 1
  BY <1>1, <1>2, <1>3
<1>5. \A q \in 0 .. H - 1, d \in 0 .. W - 1 : q * W + d = r * W + c => q = r /\ d = c
  <2> SUFFICES ASSUME NEW q \in 0 .. H - 1, NEW d \in 0 .. W - 1, q * W + d = r * W + c
               PROVE  q = r /\ d = c
    OBVIOUS
  <2>1. (q * W + d) \div W = q /\ (q * W + d) % W = d
    BY <1>1
  <2>2. (r * W + c) \div W = r /\ (r * W + c) % W = c
    BY <1>1
  <2> QED
    BY <2>1, <2>2
<1>6. 2 * W * H = 2 * (W * H)
  BY <1>1
<1> QED
  BY <1>1, <1>2, <1>4, <1>5, <1>6 DEF Cell, Address, W, H

(* A cell written changes its place on its line and nothing else.          *)
LEMMA CellWritten ==
    ASSUME NEW buf \in [Address -> Byte], NEW r \in 0 .. H - 1, NEW c \in 0 .. W - 1,
           NEW glyph \in Glyphs, color \in Colors
    PROVE  /\ write_cell(buf, r * W + c, glyph) \in [Address -> Byte]
           /\ ScreenOf(write_cell(buf, r * W + c, glyph))
                = [ScreenOf(buf) EXCEPT ![r + 1][c + 1] = <<glyph, color>>]
<1> DEFINE cell == r * W + c
           new == write_cell(buf, cell, glyph)
           scr == ScreenOf(buf)
<1>1. cell \in Nat /\ 2 * cell \in Address /\ 2 * cell + 1 \in Address
  BY Cells DEF Cell
<1>2. new = [buf EXCEPT ![2 * cell] = glyph, ![2 * cell + 1] = color]
  BY DEF write_cell
<1>3. new \in [Address -> Byte]
  BY <1>1, <1>2, Zenon DEF Byte
<1> HIDE DEF cell
<1>4. ASSUME NEW k \in Nat, 2 * k \in Address, 2 * k + 1 \in Address
      PROVE  <<new[2 * k], new[2 * k + 1]>> = IF k = cell THEN <<glyph, color>> ELSE <<buf[2 * k], buf[2 * k + 1]>>
  <2>1. CASE k = cell
    BY <1>1, <1>2, <2>1
  <2>2. CASE k # cell
    <3>1. 2 * k # 2 * cell /\ 2 * k + 1 # 2 * cell + 1 /\ 2 * k # 2 * cell + 1 /\ 2 * k + 1 # 2 * cell
      BY <1>1, <2>2
    <3> QED
      BY <1>1, <1>2, <1>4, <2>2, <3>1
  <2> QED
    BY <2>1, <2>2
<1> HIDE DEF new
<1>5. ASSUME NEW q \in 1 .. H
      PROVE  LineOf(new, q - 1) = IF q = r + 1 THEN [LineOf(buf, q - 1) EXCEPT ![c + 1] = <<glyph, color>>]
                                  ELSE LineOf(buf, q - 1)
  <2>1. ASSUME NEW d \in 1 .. W
        PROVE  LineOf(new, q - 1)[d] = IF q = r + 1 /\ d = c + 1 THEN <<glyph, color>>
                                       ELSE LineOf(buf, q - 1)[d]
    <3> DEFINE k == (q - 1) * W + d - 1
    <3>1. q - 1 \in 0 .. H - 1 /\ d - 1 \in 0 .. W - 1 /\ (q - 1) * W + (d - 1) = k
      <4>1. W \in Nat /\ H \in Nat /\ (q - 1) * W \in Int
        BY VgaAssumption DEF W, H
      <4> QED
        BY <4>1
    <3>2. k \in Nat /\ 2 * k \in Address /\ 2 * k + 1 \in Address
      BY <3>1, Cells DEF Cell
    <3>3. k = cell <=> q = r + 1 /\ d = c + 1
      <4>1. (q - 1) * W + (d - 1) = r * W + c => q - 1 = r /\ d - 1 = c
        BY <3>1, Cells
      <4>2. q = r + 1 /\ d = c + 1 => (q - 1) * W + (d - 1) = r * W + c
        BY VgaAssumption DEF W, H
      <4> QED
        BY <3>1, <4>1, <4>2, VgaAssumption DEF cell, W, H
    <3>4. LineOf(new, q - 1)[d] = <<new[2 * k], new[2 * k + 1]>>
          /\ LineOf(buf, q - 1)[d] = <<buf[2 * k], buf[2 * k + 1]>>
      BY DEF LineOf
    <3> HIDE DEF k
    <3> QED
      BY <1>4, <3>2, <3>3, <3>4
  <2>2. LineOf(new, q - 1) = [d \in 1 .. W |-> LineOf(new, q - 1)[d]]
        /\ LineOf(buf, q - 1) = [d \in 1 .. W |-> LineOf(buf, q - 1)[d]]
    BY DEF LineOf
  <2> QED
    BY <2>1, <2>2, Zenon
<1>6. ScreenOf(new) = [scr EXCEPT ![r + 1] = [scr[r + 1] EXCEPT ![c + 1] = <<glyph, color>>]]
  BY <1>5, Zenon DEF ScreenOf
<1> QED
  BY <1>3, <1>6 DEF new, cell

(* Where the cell in column c of line q is kept.                           *)
LEMMA CellBytes ==
    ASSUME NEW q \in 1 .. H, NEW c \in 1 .. W
    PROVE  LET k == (q - 1) * W + c - 1 IN
           /\ k \in Cell /\ 2 * k \in Address /\ 2 * k + 1 \in Address
           /\ (2 * k) \div 2 = k /\ (2 * k) % 2 = 0 /\ (2 * k + 1) \div 2 = k /\ (2 * k + 1) % 2 = 1
           /\ \A r \in 0 .. H - 1 : k \in r * W .. r * W + W - 1 <=> r = q - 1
<1> DEFINE k == (q - 1) * W + c - 1
<1>1. W \in Nat \ {0} /\ H \in Nat \ {0}
  BY VgaAssumption DEF W, H
<1>2. q - 1 \in 0 .. H - 1 /\ c - 1 \in 0 .. W - 1 /\ (q - 1) * W + (c - 1) = k
  <2>1. (q - 1) * W \in Int
    BY <1>1
  <2> QED
    BY <1>1, <2>1
<1>3. k \in Cell /\ 2 * k \in Address /\ 2 * k + 1 \in Address /\ k \in Nat
  BY <1>2, Cells DEF Cell
<1>4. ASSUME NEW r \in 0 .. H - 1 PROVE k \in r * W .. r * W + W - 1 <=> r = q - 1
  <2>1. r * W \in Nat /\ (q - 1) * W \in Nat
    BY <1>1, <1>2
  <2>2. ASSUME k \in r * W .. r * W + W - 1 PROVE r = q - 1
    <3> DEFINE d == k - r * W
    <3>1. d \in 0 .. W - 1 /\ r * W + d = k
      BY <1>1, <1>3, <2>1, <2>2
    <3> HIDE DEF d
    <3>2. r * W + d = (q - 1) * W + (c - 1)
      BY <1>2, <3>1
    <3> QED
      BY <1>2, <3>1, <3>2, Cells
  <2>3. ASSUME r = q - 1 PROVE k \in r * W .. r * W + W - 1
    BY <1>1, <1>2, <2>1, <2>3
  <2> QED
    BY <2>2, <2>3
<1> HIDE DEF k
<1>5. (2 * k) \div 2 = k /\ (2 * k) % 2 = 0 /\ (2 * k + 1) \div 2 = k /\ (2 * k + 1) % 2 = 1
  BY <1>3
<1> QED
  BY <1>3, <1>4, <1>5 DEF k

(* Blanking all cells, or those of one row.                                *)
LEMMA Blanked ==
    ASSUME NEW buf \in [Address -> Byte], color \in Colors
    PROVE  /\ \A cells : blank(buf, cells) \in [Address -> Byte]
           /\ ScreenOf(blank(buf, Cell)) = [r \in 1 .. H |-> BlankLine]
           /\ \A r \in 0 .. H - 1 :
                 ScreenOf(clear_row(buf, r)) = [ScreenOf(buf) EXCEPT ![r + 1] = BlankLine]
<1>1. ASSUME NEW cells PROVE blank(buf, cells) \in [Address -> Byte]
  BY VgaAssumption DEF blank, Byte
<1>2. ASSUME NEW cells, NEW q \in 1 .. H, NEW c \in 1 .. W
      PROVE  LET k == (q - 1) * W + c - 1 IN
             LineOf(blank(buf, cells), q - 1)[c] =
                IF k \in cells THEN <<SPACE, color>> ELSE LineOf(buf, q - 1)[c]
  <2> DEFINE k == (q - 1) * W + c - 1
             new == blank(buf, cells)
  <2>1. /\ 2 * k \in Address /\ 2 * k + 1 \in Address
        /\ (2 * k) \div 2 = k /\ (2 * k) % 2 = 0 /\ (2 * k + 1) \div 2 = k /\ (2 * k + 1) % 2 = 1
    BY CellBytes
  <2>2. LineOf(new, q - 1)[c] = <<new[2 * k], new[2 * k + 1]>>
        /\ LineOf(buf, q - 1)[c] = <<buf[2 * k], buf[2 * k + 1]>>
    BY DEF LineOf
  <2> HIDE DEF k
  <2>3. /\ new[2 * k] = IF k \in cells THEN SPACE ELSE buf[2 * k]
        /\ new[2 * k + 1] = IF k \in cells THEN color ELSE buf[2 * k + 1]
    BY <2>1 DEF blank
  <2> QED
    BY <2>2, <2>3 DEF k
<1>3. \A b, q : LineOf(b, q) = [c \in 1 .. W |-> LineOf(b, q)[c]]
  BY DEF LineOf
<1>4. ScreenOf(blank(buf, Cell)) = [r \in 1 .. H |-> BlankLine]
  <2>1. ASSUME NEW q \in 1 .. H PROVE LineOf(blank(buf, Cell), q - 1) = BlankLine
    <3>1. \A c \in 1 .. W : LineOf(blank(buf, Cell), q - 1)[c] = <<SPACE, color>>
      BY <1>2, CellBytes
    <3> QED
      BY <1>3, <3>1, Zenon DEF BlankLine
  <2> QED
    BY <2>1 DEF ScreenOf
<1>5. ASSUME NEW r \in 0 .. H - 1
      PROVE  ScreenOf(clear_row(buf, r)) = [ScreenOf(buf) EXCEPT ![r + 1] = BlankLine]
  <2> DEFINE cells == r * W .. r * W + W - 1
  <2>1. clear_row(buf, r) = blank(buf, cells)
    BY DEF clear_row, W
  <2>2. ASSUME NEW q \in 1 .. H
        PROVE  LineOf(blank(buf, cells), q - 1) = IF q = r + 1 THEN BlankLine ELSE LineOf(buf, q - 1)
    <3>1. \A c \in 1 .. W : ((q - 1) * W + c - 1 \in cells) <=> q = r + 1
      <4>1. r = q - 1 <=> q = r + 1
        OBVIOUS
      <4> QED
        BY <4>1, CellBytes
    <3> HIDE DEF cells
    <3>2. \A c \in 1 .. W : LineOf(blank(buf, cells), q - 1)[c] =
                              IF q = r + 1 THEN <<SPACE, color>> ELSE LineOf(buf, q - 1)[c]
      BY <1>2, <3>1
    <3>3. CASE q = r + 1
      <4> DEFINE new == LineOf(blank(buf, cells), q - 1)
      <4>1. new = [c \in 1 .. W |-> new[c]] /\ \A c \in 1 .. W : new[c] = <<SPACE, color>>
        BY <1>3, <3>2, <3>3, Zenon
      <4> HIDE DEF new
      <4>2. new = BlankLine
        BY <4>1, Zenon DEF BlankLine
      <4> QED
        BY <3>3, <4>2, Zenon DEF new
    <3>4. CASE q # r + 1
      <4> DEFINE new == LineOf(blank(buf, cells), q - 1)
                 old == LineOf(buf, q - 1)
      <4>1. new = [c \in 1 .. W |-> new[c]] /\ old = [c \in 1 .. W |-> old[c]]
        BY <1>3, Zenon
      <4>2. \A c \in 1 .. W : new[c] = old[c]
        BY <3>2, <3>4, Zenon
      <4> HIDE DEF new, old
      <4>3. new = old
        BY <4>1, <4>2, Zenon
      <4> QED
        BY <3>4, <4>3, Zenon DEF new, old
    <3> QED
      BY <3>3, <3>4
  <2> HIDE DEF cells
  <2> QED
    BY <2>1, <2>2, Zenon DEF ScreenOf
<1> QED
  BY <1>1, <1>4, <1>5

(* The copy on the device's memory.                                        *)
LEMMA BufferCopy ==
    ASSUME NEW buf \in [Address -> Byte], NEW src \in Nat, NEW dst \in Nat, NEW count \in Nat,
           src + count <= 2 * W * H, dst + count <= 2 * W * H
    PROVE  copy(buf, src, dst, count) = Moved(buf, src, dst, count)
<1> DEFINE size == 2 * W * H
<1>1. size \in Nat /\ buf \in [0 .. size - 1 -> Byte]
  BY VgaAssumption DEF Address, W, H
<1>2. src + count <= size /\ dst + count <= size
  OBVIOUS
<1> HIDE DEF size
<1> QED
  BY <1>1, <1>2, CopyMoves

(* Scrolling drops the top line and adds a blank one below.                *)
LEMMA Scrolled ==
    ASSUME NEW buf \in [Address -> Byte], color \in Colors
    PROVE  /\ scroll(buf) \in [Address -> Byte]
           /\ ScreenOf(scroll(buf)) = Append(Tail(ScreenOf(buf)), BlankLine)
<1> DEFINE count == (H - 1) * W * 2
           size == 2 * W * H
           up == copy(buf, W * 2, 0, count)
<1>1. W \in Nat \ {0} /\ H \in Nat \ {0}
  BY VgaAssumption DEF W, H
<1>2. count \in Nat /\ size \in Nat /\ W * 2 \in Nat /\ W * 2 + count = size
  <2>1. H * W \in Nat /\ (H - 1) * W = H * W - W /\ (H - 1) * W \in Nat
    BY <1>1
  <2>2. 2 * W * H = 2 * (H * W) /\ (H - 1) * W * 2 = 2 * ((H - 1) * W)
    BY <1>1
  <2> QED
    BY <1>1, <2>1, <2>2
<1>3. Address = 0 .. size - 1
  BY DEF Address, W, H
<1> HIDE DEF count, size
<1>4. up = Moved(buf, W * 2, 0, count)
  <2>1. 0 + count <= size /\ W * 2 + count <= size /\ 0 \in Nat
    BY <1>1, <1>2
  <2>2. \A src, dst, n \in Nat : src + n <= size /\ dst + n <= size =>
          copy(buf, src, dst, n) = Moved(buf, src, dst, n)
    BY BufferCopy DEF size
  <2> QED
    BY <1>2, <2>1, <2>2
<1>5. up = [a \in Address |-> IF a \in 0 .. count - 1 THEN buf[a + W * 2] ELSE buf[a]]
  <2>1. DOMAIN buf = Address /\ 0 + count - 1 = count - 1
    BY <1>2
  <2>2. \A a \in Address : a - 0 + W * 2 = a + W * 2
    BY <1>2, <1>3
  <2> QED
    BY <1>4, <2>1, <2>2 DEF Moved
<1>6. up \in [Address -> Byte]
  <2>1. \A a \in Address : a \in 0 .. count - 1 => a + W * 2 \in Address
    BY <1>2, <1>3
  <2> QED
    BY <1>5, <2>1
<1>7. scroll(buf) = clear_row(up, H - 1)
  BY DEF scroll, up, count, W, H
<1> HIDE DEF up
<1>8. ASSUME NEW q \in 1 .. H - 1 PROVE LineOf(up, q - 1) = LineOf(buf, q)
  <2>1. ASSUME NEW c \in 1 .. W PROVE LineOf(up, q - 1)[c] = LineOf(buf, q)[c]
    <3> DEFINE k == (q - 1) * W + c - 1
               j == q * W + c - 1
    <3>1. q \in 1 .. H /\ q \in Nat
      BY <1>1
    <3>2. k \in Nat /\ 2 * k \in Address /\ 2 * k + 1 \in Address
      BY <3>1, CellBytes DEF Cell
    <3>3. j = k + W /\ k + W + 1 <= (H - 1) * W + W /\ k + 1 <= (H - 1) * W
      <4>1. q * W = (q - 1) * W + W /\ q * W <= (H - 1) * W /\ (q - 1) * W \in Nat /\ (H - 1) * W \in Nat
        BY <1>1, <3>1
      <4> QED
        BY <1>1, <3>1, <4>1
    <3>4. count = 2 * ((H - 1) * W) /\ (H - 1) * W \in Nat
      BY <1>1 DEF count
    <3> HIDE DEF k, j
    <3>5. 2 * k \in 0 .. count - 1 /\ 2 * k + 1 \in 0 .. count - 1
          /\ 2 * k + W * 2 = 2 * j /\ 2 * k + 1 + W * 2 = 2 * j + 1
      BY <1>1, <3>2, <3>3, <3>4
    <3>6. up[2 * k] = buf[2 * j] /\ up[2 * k + 1] = buf[2 * j + 1]
      BY <1>5, <3>2, <3>5
    <3> QED
      BY <3>6 DEF LineOf, k, j
  <2> QED
    BY <2>1, Zenon DEF LineOf
<1>9. clear_row(up, H - 1) \in [Address -> Byte]
  BY <1>6, Blanked, Zenon DEF clear_row
<1>10. ScreenOf(scroll(buf)) = [ScreenOf(up) EXCEPT ![H] = BlankLine]
  <2>1. H - 1 \in 0 .. H - 1 /\ (H - 1) + 1 = H
    BY <1>1
  <2> QED
    BY <1>6, <1>7, <2>1, Blanked
<1>11. /\ ScreenOf(scroll(buf)) = [r \in 1 .. H |-> IF r = H THEN BlankLine ELSE LineOf(buf, r)]
  <2>1. \A r \in 1 .. H : r # H => r \in 1 .. H - 1
    BY <1>1
  <2> QED
    BY <1>8, <1>10, <2>1, Zenon DEF ScreenOf
<1>12. Append(Tail(ScreenOf(buf)), BlankLine) = [r \in 1 .. H |-> IF r = H THEN BlankLine ELSE LineOf(buf, r)]
  <2> DEFINE scr == ScreenOf(buf)
             lines == {LineOf(buf, r) : r \in 0 .. H - 1} \cup {BlankLine}
             tl == [r \in 1 .. H - 1 |-> LineOf(buf, r)]
  <2>1. scr = [r \in 1 .. H |-> LineOf(buf, r - 1)]
    BY DEF ScreenOf
  <2>2. scr \in [1 .. H -> lines] /\ tl \in [1 .. H - 1 -> lines] /\ BlankLine \in lines
    <3>1. \A r \in 1 .. H : r - 1 \in 0 .. H - 1
      BY <1>1
    <3>2. \A r \in 1 .. H - 1 : r \in 0 .. H - 1
      BY <1>1
    <3> QED
      BY <2>1, <3>1, <3>2
  <2>3. \A r \in 1 .. H - 1 : scr[r + 1] = tl[r]
    <3>1. \A r \in 1 .. H - 1 : r + 1 \in 1 .. H /\ (r + 1) - 1 = r
      BY <1>1
    <3> QED
      BY <2>1, <3>1
  <2>4. \A r \in 1 .. H - 1 : tl[r] = LineOf(buf, r)
    OBVIOUS
  <2> HIDE DEF scr, tl, lines
  <2>5. scr \in Seq(lines) /\ Len(scr) = H /\ tl \in Seq(lines) /\ Len(tl) = H - 1
    BY <1>1, <2>2
  <2>6. Tail(scr) = tl
    <3>1. scr # <<>>
      BY <1>1, <2>5
    <3>2. Tail(scr) \in Seq(lines) /\ Len(Tail(scr)) = H - 1
      BY <1>1, <2>5, <3>1
    <3>3. \A r \in 1 .. H - 1 : Tail(scr)[r] = tl[r]
      BY <1>1, <2>3, <2>5, <3>1
    <3> QED
      BY <1>1, <2>5, <3>2, <3>3
  <2>7. /\ Append(tl, BlankLine) \in Seq(lines) /\ Len(Append(tl, BlankLine)) = H
        /\ \A r \in 1 .. H : Append(tl, BlankLine)[r] = IF r = H THEN BlankLine ELSE LineOf(buf, r)
    <3>1. \A r \in 1 .. H : r # H => r \in 1 .. H - 1
      BY <1>1
    <3> QED
      BY <1>1, <2>2, <2>4, <2>5, <3>1
  <2>8. Append(tl, BlankLine) = [r \in 1 .. H |-> Append(tl, BlankLine)[r]]
    <3> DEFINE app == Append(tl, BlankLine)
    <3>1. app \in Seq(lines) /\ Len(app) = H
      BY <2>7
    <3> HIDE DEF app
    <3>2. app \in [1 .. H -> lines]
      BY <3>1
    <3>3. app = [r \in 1 .. H |-> app[r]]
      BY <3>2
    <3> QED
      BY <3>3, Zenon DEF app
  <2>9. Append(tl, BlankLine) = [r \in 1 .. H |-> IF r = H THEN BlankLine ELSE LineOf(buf, r)]
    BY <2>7, <2>8, Zenon
  <2> QED
    BY <2>6, <2>9, Zenon DEF scr
<1> QED
  BY <1>7, <1>9, <1>11, <1>12, Zenon

-----------------------------------------------------------------------------
(* The invariant.                                                          *)

(* Glyphs at even addresses, colours at odd ones.                          *)
Parity(buf) == \A a \in Address : buf[a] \in (IF a % 2 = 0 THEN Glyphs ELSE Colors)

(* Writing a cell, blanking and scrolling keep the bytes of a cell apart:  *)
(* the copy moves by whole rows, an even distance.                         *)
LEMMA ParityKept ==
    ASSUME NEW buf \in [Address -> Byte], Parity(buf), color \in Colors
    PROVE  /\ \A r \in 0 .. H - 1, c \in 0 .. W - 1, glyph \in Glyphs :
                 Parity(write_cell(buf, r * W + c, glyph))
           /\ \A cells : Parity(blank(buf, cells))
           /\ Parity(scroll(buf))
<1>1. \A b \in [Address -> Byte] : Parity(b) => \A cells : Parity(blank(b, cells))
  BY VgaAssumption DEF Parity, blank
<1>2. ASSUME NEW r \in 0 .. H - 1, NEW c \in 0 .. W - 1, NEW glyph \in Glyphs
      PROVE  Parity(write_cell(buf, r * W + c, glyph))
  <2> DEFINE k == r * W + c
  <2>1. k \in Nat /\ 2 * k \in Address /\ 2 * k + 1 \in Address
    BY Cells DEF Cell
  <2> HIDE DEF k
  <2>2. (2 * k) % 2 = 0 /\ (2 * k + 1) % 2 = 1 /\ 2 * k # 2 * k + 1
    BY <2>1
  <2>3. \A a \in Address : write_cell(buf, k, glyph)[a] =
           IF a = 2 * k + 1 THEN color ELSE IF a = 2 * k THEN glyph ELSE buf[a]
    BY <2>1, <2>2 DEF write_cell
  <2> QED
    BY <2>2, <2>3 DEF Parity, k
<1>3. Parity(scroll(buf))
  <2> DEFINE count == (H - 1) * W * 2
             up == copy(buf, W * 2, 0, count)
  <2>1. W \in Nat /\ W * 2 \in Nat /\ count \in Nat /\ W * 2 + count <= 2 * W * H /\ 0 + count <= 2 * W * H
    <3>1. W \in Nat \ {0} /\ H \in Nat \ {0}
      BY VgaAssumption DEF W, H
    <3>2. H * W \in Nat /\ (H - 1) * W = H * W - W /\ (H - 1) * W \in Nat
      BY <3>1
    <3>3. 2 * W * H = 2 * (H * W) /\ (H - 1) * W * 2 = 2 * ((H - 1) * W)
      BY <3>1
    <3> QED
      BY <3>1, <3>2, <3>3
  <2>2. Address = 0 .. 2 * W * H - 1 /\ 2 * W * H \in Nat
    BY VgaAssumption DEF Address, W, H
  <2> HIDE DEF count
  <2>3. up = Moved(buf, W * 2, 0, count)
    <3>1. \A src, dst, n \in Nat : src + n <= 2 * W * H /\ dst + n <= 2 * W * H =>
            copy(buf, src, dst, n) = Moved(buf, src, dst, n)
      BY BufferCopy
    <3> QED
      BY <2>1, <3>1
  <2> HIDE DEF up
  <2>4. ASSUME NEW a \in Address
        PROVE  \/ up[a] = buf[a]
               \/ up[a] = buf[a + W * 2] /\ a + W * 2 \in Address /\ (a + W * 2) % 2 = a % 2
    <3>1. up[a] = IF a \in 0 .. 0 + count - 1 THEN buf[a - 0 + W * 2] ELSE buf[a]
      BY <2>3 DEF Moved
    <3>2. a \in Nat /\ a - 0 + W * 2 = a + W * 2 /\ (a + W * 2) % 2 = a % 2
      BY <2>1, <2>2
    <3>3. a \in 0 .. 0 + count - 1 => a + W * 2 \in Address
      <4> DEFINE top == 2 * W * H
      <4>1. Address = 0 .. top - 1 /\ top \in Nat /\ W * 2 + count <= top
        BY <2>1, <2>2
      <4> HIDE DEF top
      <4> QED
        BY <2>1, <3>2, <4>1
    <3> QED
      BY <3>1, <3>2, <3>3
  <2>5. Parity(up)
    BY <2>4 DEF Parity
  <2>6. up \in [Address -> Byte]
    <3>1. up = [a \in Address |-> up[a]]
      BY <2>3 DEF Moved
    <3> QED
      BY <2>4, <3>1
  <2>7. scroll(buf) = clear_row(up, H - 1)
    BY DEF scroll, up, count, W, H
  <2> QED
    BY <1>1, <2>5, <2>6, <2>7 DEF clear_row
<1> QED
  BY <1>1, <1>2, <1>3

(* The type invariant, and that the buffer is a function.                  *)
IInv == buffer \in [Address -> Byte] /\ TypeOK

(* The buffer after newline, and what the terminal makes of it.            *)
LEMMA NewlineBuffer ==
    ASSUME IInv
    PROVE  /\ newline_buffer \in [Address -> Byte] /\ Parity(newline_buffer)
           /\ newline_row \in 0 .. H - 1
           /\ ScreenOf(newline_buffer) = Console!Advanced(color)
           /\ newline_row + 1 = Console!NextRow
<1>1. W \in Nat \ {0} /\ H \in Nat \ {0}
  BY VgaAssumption DEF W, H
<1>2. buffer \in [Address -> Byte] /\ Parity(buffer) /\ row \in 0 .. H - 1 /\ color \in Colors
  BY DEF IInv, TypeOK, Parity, H
<1>3. scrolls <=> ~(row + 1 < H)
  BY <1>1, <1>2 DEF scrolls, H
<1>4. newline_row \in 0 .. H - 1 /\ newline_row + 1 = Console!NextRow
  BY <1>1, <1>2, <1>3 DEF newline_row, Console!NextRow, H
<1>5. newline_buffer \in [Address -> Byte] /\ Parity(newline_buffer)
  BY <1>2, Scrolled, ParityKept DEF newline_buffer
<1>6. Console!Advanced(color) = IF row + 1 < H THEN ScreenOf(buffer)
                                ELSE Append(Tail(ScreenOf(buffer)), BlankLine)
  BY DEF Console!Advanced, Console!Blank, ScreenOf, LineOf, Line, BlankLine, W, H
<1>7. ScreenOf(newline_buffer) = Console!Advanced(color)
  <2>1. CASE scrolls
    BY <1>2, <1>3, <1>6, <2>1, Scrolled DEF newline_buffer
  <2>2. CASE ~scrolls
    BY <1>3, <1>6, <2>2 DEF newline_buffer
  <2> QED
    BY <2>1, <2>2
<1> QED
  BY <1>4, <1>5, <1>7

(* One byte other than a newline: the cell it goes to, and what is on the  *)
(* screen then.                                                            *)
LEMMA BytePut ==
    ASSUME IInv, NEW byte \in Glyphs, WriteByte(byte)
    PROVE  /\ buffer' \in [Address -> Byte] /\ Parity(buffer')
           /\ row' \in 0 .. H - 1 /\ col' \in 0 .. W /\ UNCHANGED <<color, prev_color>>
           /\ ScreenOf(buffer') = IF col < W THEN [ScreenOf(buffer) EXCEPT ![row + 1][col + 1] = <<byte, color>>]
                                  ELSE [Console!Advanced(color) EXCEPT ![Console!NextRow][1] = <<byte, color>>]
           /\ row' + 1 = IF col < W THEN row + 1 ELSE Console!NextRow
           /\ col' = (col % W) + 1
<1>1. W \in Nat \ {0} /\ H \in Nat \ {0}
  BY VgaAssumption DEF W, H
<1>2. /\ buffer \in [Address -> Byte] /\ Parity(buffer) /\ row \in 0 .. H - 1
      /\ col \in 0 .. W /\ color \in Colors
  BY DEF IInv, TypeOK, Parity, H, W
<1>3. CASE col >= W
  <2>1. /\ buffer' = write_cell(newline_buffer, newline_row * W, byte)
        /\ row' = newline_row /\ col' = 1 /\ UNCHANGED <<color, prev_color>>
    BY <1>3 DEF WriteByte, W
  <2>2. /\ newline_buffer \in [Address -> Byte] /\ Parity(newline_buffer)
        /\ newline_row \in 0 .. H - 1
        /\ ScreenOf(newline_buffer) = Console!Advanced(color)
        /\ newline_row + 1 = Console!NextRow
    BY NewlineBuffer
  <2>3. 0 \in 0 .. W - 1 /\ newline_row * W + 0 = newline_row * W /\ 0 + 1 = 1 /\ col % W = 0 /\ ~(col < W)
    <3>1. col = W /\ W % W = 0
      BY <1>1, <1>2, <1>3
    <3>2. newline_row * W \in Nat
      BY <1>1, <2>2
    <3> QED
      BY <1>1, <3>1, <3>2
  <2> DEFINE new == write_cell(newline_buffer, newline_row * W + 0, byte)
  <2>4. /\ new \in [Address -> Byte]
        /\ ScreenOf(new) = [ScreenOf(newline_buffer) EXCEPT ![newline_row + 1][0 + 1] = <<byte, color>>]
    <3>1. \A c \in 0 .. W - 1 :
             /\ write_cell(newline_buffer, newline_row * W + c, byte) \in [Address -> Byte]
             /\ ScreenOf(write_cell(newline_buffer, newline_row * W + c, byte))
                  = [ScreenOf(newline_buffer) EXCEPT ![newline_row + 1][c + 1] = <<byte, color>>]
      <4> SUFFICES ASSUME NEW c \in 0 .. W - 1
                   PROVE  /\ write_cell(newline_buffer, newline_row * W + c, byte) \in [Address -> Byte]
                          /\ ScreenOf(write_cell(newline_buffer, newline_row * W + c, byte))
                               = [ScreenOf(newline_buffer) EXCEPT ![newline_row + 1][c + 1] = <<byte, color>>]
        OBVIOUS
      <4> DEFINE b == newline_buffer
                 r == newline_row
      <4>1. b \in [Address -> Byte] /\ r \in 0 .. H - 1 /\ color \in Colors
        BY <1>2, <2>2
      <4> HIDE DEF b, r
      <4>2. /\ write_cell(b, r * W + c, byte) \in [Address -> Byte]
            /\ ScreenOf(write_cell(b, r * W + c, byte))
                 = [ScreenOf(b) EXCEPT ![r + 1][c + 1] = <<byte, color>>]
        BY <4>1, CellWritten
      <4> QED
        BY <4>2 DEF b, r
    <3> QED
      BY <2>3, <3>1, Zenon
  <2>5. Parity(new)
    BY <1>2, <2>2, <2>3, ParityKept
  <2>6. buffer' = new
    BY <2>1, <2>3
  <2> HIDE DEF new
  <2>7. ScreenOf(buffer') = [Console!Advanced(color) EXCEPT ![Console!NextRow][1] = <<byte, color>>]
    BY <2>2, <2>3, <2>4, <2>6
  <2> QED
    BY <1>1, <2>1, <2>2, <2>3, <2>4, <2>5, <2>6, <2>7
<1>4. CASE ~(col >= W)
  <2>1. /\ buffer' = write_cell(buffer, row * W + col, byte)
        /\ row' = row /\ col' = col + 1 /\ UNCHANGED <<color, prev_color>>
    BY <1>4 DEF WriteByte, W
  <2>2. col \in 0 .. W - 1 /\ col < W /\ col + 1 \in 0 .. W /\ col % W = col
    BY <1>1, <1>2, <1>4
  <2>3. /\ buffer' \in [Address -> Byte]
        /\ ScreenOf(buffer') = [ScreenOf(buffer) EXCEPT ![row + 1][col + 1] = <<byte, color>>]
    BY <1>2, <2>1, <2>2, CellWritten
  <2>4. Parity(buffer')
    BY <1>2, <2>1, <2>2, ParityKept
  <2> QED
    BY <1>2, <2>1, <2>2, <2>3, <2>4
<1> QED
  BY <1>3, <1>4

(* The invariant holds of the firmware's screen.                           *)
LEMMA InitIInv == Init => IInv
<1> SUFFICES ASSUME Init PROVE IInv
  OBVIOUS
<1>1. PICK g \in Glyphs, c \in Colors : buffer = [a \in Address |-> IF a % 2 = 0 THEN g ELSE c]
  BY DEF Init
<1>2. row \in 0 .. VGA_HEIGHT - 1 /\ col \in 0 .. VGA_WIDTH
  BY VgaAssumption DEF Init
<1> QED
  BY <1>1, <1>2, VgaAssumption DEF Init, IInv, TypeOK, Byte

(* Every step keeps it.                                                    *)
LEMMA StepIInv == IInv /\ [Next]_vars => IInv'
<1> SUFFICES ASSUME IInv, [Next]_vars PROVE IInv'
  OBVIOUS
<1>1. /\ buffer \in [Address -> Byte] /\ Parity(buffer) /\ row \in 0 .. H - 1
      /\ col \in 0 .. W /\ color \in Colors /\ prev_color \in Colors \cup {NO_COLOR}
  BY DEF IInv, TypeOK, Parity, H, W
<1>2. 0 \in 0 .. H - 1 /\ 0 \in 0 .. W
  BY VgaAssumption DEF W, H
<1> SUFFICES /\ buffer' \in [Address -> Byte] /\ Parity(buffer') /\ row' \in 0 .. H - 1
             /\ col' \in 0 .. W /\ color' \in Colors /\ prev_color' \in Colors \cup {NO_COLOR}
  BY DEF IInv, TypeOK, Parity, H, W
<1>3. CASE Newline
  BY <1>1, <1>2, <1>3, NewlineBuffer DEF Newline
<1>4. ASSUME NEW byte \in Glyphs, WriteByte(byte) PROVE
             /\ buffer' \in [Address -> Byte] /\ Parity(buffer') /\ row' \in 0 .. H - 1
             /\ col' \in 0 .. W /\ color' \in Colors /\ prev_color' \in Colors \cup {NO_COLOR}
  <2>1. /\ buffer' \in [Address -> Byte] /\ Parity(buffer')
        /\ row' \in 0 .. H - 1 /\ col' \in 0 .. W /\ UNCHANGED <<color, prev_color>>
    BY <1>4, BytePut, Zenon
  <2> QED
    BY <1>1, <2>1
<1>5. ASSUME NEW c \in Colors, SetColor(c) PROVE
             /\ buffer' \in [Address -> Byte] /\ Parity(buffer') /\ row' \in 0 .. H - 1
             /\ col' \in 0 .. W /\ color' \in Colors /\ prev_color' \in Colors \cup {NO_COLOR}
  BY <1>1, <1>5 DEF SetColor
<1>6. CASE RestoreColor
  BY <1>1, <1>6 DEF RestoreColor
<1>7. CASE Clear
  BY <1>1, <1>7, Blanked, ParityKept DEF Clear
<1>8. CASE Reset
  BY <1>1, <1>2, <1>8, Blanked, ParityKept DEF Reset
<1>9. CASE UNCHANGED vars
  BY <1>1, <1>9 DEF vars
<1> QED
  BY <1>3, <1>4, <1>5, <1>6, <1>7, <1>8, <1>9 DEF Next, Write

(* The console's type invariant: the cursor never leaves the screen, and   *)
(* glyphs and colours keep to their own bytes (src/vga.rs, write_byte,     *)
(* newline, scroll, clear), on a screen of any size.                       *)
THEOREM TypeCorrect == Spec => []TypeOK
<1>1. IInv => TypeOK
  BY DEF IInv
<1> QED
  BY <1>1, InitIInv, StepIInv, PTL DEF Spec

(* Whatever is on the screen, volatile::copy moves it as memmove would,    *)
(* for every pair of overlapping ranges (src/volatile.rs, copy).           *)
THEOREM Copy_Is_Move == Spec => []CopyIsMove
<1>1. IInv => CopyIsMove
  <2> SUFFICES ASSUME IInv,
                      NEW count \in 2 .. 2 * W * H, NEW src \in 0 .. 2 * W * H - count,
                      NEW dst \in 0 .. 2 * W * H - count
               PROVE  copy(buffer, src, dst, count) = Moved(buffer, src, dst, count)
    BY Zenon DEF CopyIsMove, W, H
  <2> DEFINE size == 2 * W * H
  <2>1. size \in Nat /\ buffer \in [Address -> Byte]
    BY VgaAssumption DEF W, H, IInv
  <2>2. count \in 2 .. size /\ src \in 0 .. size - count /\ dst \in 0 .. size - count
    OBVIOUS
  <2>3. \A s, d, n \in Nat : s + n <= size /\ d + n <= size =>
          copy(buffer, s, d, n) = Moved(buffer, s, d, n)
    BY <2>1, BufferCopy
  <2> HIDE DEF size
  <2>4. count \in Nat /\ src \in Nat /\ dst \in Nat /\ src + count <= size /\ dst + count <= size
    BY <2>1, <2>2
  <2> QED
    BY <2>3, <2>4
<1> QED
  BY <1>1, InitIInv, StepIInv, PTL DEF Spec

(* Every step of the console is one of the terminal or changes nothing     *)
(* the terminal shows.                                                     *)
LEMMA StepRefines == IInv /\ [Next]_vars => [Console!Next]_(Console!vars)
<1> SUFFICES ASSUME IInv, [Next]_vars PROVE [Console!Next]_(Console!vars)
  OBVIOUS
<1> DEFINE shown == [r \in 1 .. VGA_HEIGHT |-> Line(r - 1)]
<1>1. /\ buffer \in [Address -> Byte] /\ color \in Colors
  BY DEF IInv, TypeOK
<1>2. shown = ScreenOf(buffer) /\ shown' = ScreenOf(buffer')
  BY DEF ScreenOf, LineOf, Line, W, H
<1> HIDE DEF shown
<1>3. CASE Newline
  <2>1. ScreenOf(buffer') = Console!Advanced(color) /\ row' + 1 = Console!NextRow /\ col' = 0
    BY <1>3, NewlineBuffer DEF Newline
  <2>2. Console!NewLine(color)
    BY <1>2, <2>1 DEF Console!NewLine, shown
  <2> QED
    BY <1>1, <2>2 DEF Console!Next
<1>4. ASSUME NEW byte \in Glyphs, WriteByte(byte) PROVE Console!Next
  <2>1. /\ ScreenOf(buffer') = IF col < W THEN [ScreenOf(buffer) EXCEPT ![row + 1][col + 1] = <<byte, color>>]
                               ELSE [Console!Advanced(color) EXCEPT ![Console!NextRow][1] = <<byte, color>>]
        /\ row' + 1 = IF col < W THEN row + 1 ELSE Console!NextRow
        /\ col' = (col % W) + 1
    BY <1>4, BytePut
  <2>2. Console!Put(byte, color)
    <3>1. CASE col < W
      BY <1>2, <2>1, <3>1, Zenon DEF Console!Put, shown, W
    <3>2. CASE ~(col < W)
      BY <1>2, <2>1, <3>2 DEF Console!Put, shown, W
    <3> QED
      BY <3>1, <3>2
  <2> QED
    BY <1>1, <2>2 DEF Console!Next
<1>5. ASSUME NEW c \in Colors, SetColor(c) PROVE UNCHANGED Console!vars
  BY <1>5, <1>2 DEF SetColor, Console!vars, shown
<1>6. CASE RestoreColor
  BY <1>6, <1>2 DEF RestoreColor, Console!vars, shown
<1>7. ScreenOf(blank(buffer, Cell)) = Console!Cleared(color)
  BY <1>1, Blanked DEF Console!Cleared, Console!Blank, BlankLine, W, H
<1>8. CASE Clear
  <2>1. Console!Clear(color)
    BY <1>2, <1>7, <1>8 DEF Clear, Console!Clear, shown
  <2> QED
    BY <1>1, <2>1 DEF Console!Next
<1>9. CASE Reset
  <2>1. Console!Home(color)
    BY <1>2, <1>7, <1>9 DEF Reset, Console!Home, shown
  <2> QED
    BY <1>1, <2>1 DEF Console!Next
<1>10. CASE UNCHANGED vars
  BY <1>10, <1>2 DEF vars, Console!vars, shown
<1> QED
  BY <1>3, <1>4, <1>5, <1>6, <1>8, <1>9, <1>10 DEF Next, Write

(* The console implements the terminal: the bytewise scroll and the late   *)
(* wrap amount to lines moving up one by one (src/vga.rs), on a screen of  *)
(* any size.                                                               *)
THEOREM Refinement == Spec => ImplementsTerminal
<1>1. Init => Console!Init
  BY DEF Init, Console!Init
<1> QED
  BY <1>1, InitIInv, StepIInv, StepRefines, PTL DEF Spec, ImplementsTerminal, Console!Spec
=============================================================================
