CONSTANTS
  CHAR_W = 3
  CHAR_H = 3
  GLYPH_W = 2
  GLYPH_H = 2
  Char = {"a", "b"}
  Blank = " "
  Garbled = Garbled
  Framebuffers <- MCFramebuffers
SPECIFICATION Spec
INVARIANT WritesStayInside
PROPERTY ImplementsTextGrid
