CONSTANTS
  VGA_WIDTH = 2
  VGA_HEIGHT = 3
  Glyphs = {a, blank_glyph}
  Colors = {white, yellow}
  SPACE = blank_glyph
  NEWLINE = newline_byte
  WHITE_ON_BLACK = white
  NO_COLOR = none
SPECIFICATION Spec
INVARIANTS TypeOK CopyIsMove
PROPERTY ImplementsTerminal
