------------------------------ MODULE Terminal ------------------------------
(***************************************************************************)
(* The terminal of kernel/term/terminal.c: text drawn pixel by pixel in    *)
(* the framebuffer, with a cursor that is a pixel position.                *)
(*                                                                         *)
(* A pixel of a glyph is known by the character and the place in the glyph *)
(* it belongs to, so that a picture tells which text it shows.  Only the   *)
(* kernel's thread writes text; every call of terminal_putchar() is a step.*)
(***************************************************************************)
EXTENDS Integers, Sequences, SequencesExt

CONSTANTS
  CHAR_W, CHAR_H,       \* distance between two characters, and two lines
  GLYPH_W, GLYPH_H,     \* size of the picture of a character
  Char,                 \* characters with a glyph
  Blank,                \* the space, and every character without a glyph
  Garbled,              \* no character
  Framebuffers          \* the sizes the loader may report, 0 for no screen

ASSUME GlyphAssumption ==
  /\ CHAR_W \in Nat /\ CHAR_H \in Nat /\ GLYPH_W \in Nat /\ GLYPH_H \in Nat
  /\ 0 < GLYPH_W /\ GLYPH_W <= CHAR_W
  /\ 0 < GLYPH_H /\ GLYPH_H <= CHAR_H

(* A screen has room for a character, and more than one line's height: the *)
(* smallest mode of a graphics output is hundreds of pixels each way.      *)
ASSUME FramebufferAssumption ==
  \A f \in Framebuffers :
    /\ f \in [w : Nat, h : Nat]
    /\ f.w > 0 /\ f.h > 0 => f.w >= GLYPH_W /\ f.h > CHAR_H

VARIABLES
  fb,                   \* fb_w and fb_h
  cursor_x, cursor_y,
  screen,               \* the pixels: a function from rows to rows
  ready,                \* terminal_init() has run
  wild,                 \* history: a pixel was written outside the screen
  tops                  \* history: heights of the lines that are whole on it

vars == <<fb, cursor_x, cursor_y, screen, ready, wild, tops>>

BG == << Blank, 0, 0 >>

(* Whatever the firmware left on the screen                                *)
NOISE == << Blank, 1, 1 >>

glyph(ch, gx, gy) == IF ch = Blank THEN BG ELSE << ch, gx, gy >>

Filled(pixel) == [y \in 0 .. (fb.h - 1) |-> [x \in 0 .. (fb.w - 1) |-> pixel]]

Init ==
  /\ fb \in Framebuffers
  /\ cursor_x = 0
  /\ cursor_y = 0
  /\ screen = Filled(NOISE)
  /\ ready = FALSE
  /\ wild = FALSE
  /\ tops = << 0 >>

HasScreen == fb.w > 0 /\ fb.h > 0

-----------------------------------------------------------------------------
(* Pixels                                                                  *)

Fits(x, y) == x + GLYPH_W <= fb.w /\ y + GLYPH_H <= fb.h

(* The picture s with a character drawn at (x, y)                          *)
Drawn(s, x, y, ch) ==
  [r \in DOMAIN s |->
     [c \in DOMAIN s[r] |->
        IF r \in y .. (y + GLYPH_H - 1) /\ c \in x .. (x + GLYPH_W - 1)
          THEN glyph(ch, c - x, r - y)
          ELSE s[r][c]]]

Draw(s, x, y, ch) ==
  /\ screen' = Drawn(s, x, y, ch)
  /\ wild' = (wild \/ ~Fits(x, y))

(* The last rows keep what they showed.                                    *)
scroll_without_clearing(s) ==
  [y \in DOMAIN s |-> IF y + CHAR_H < fb.h THEN s[y + CHAR_H] ELSE s[y]]

scroll(s) ==
  IF fb.h <= CHAR_H THEN s
  ELSE [y \in DOMAIN s |->
          IF y + CHAR_H < fb.h THEN s[y + CHAR_H] ELSE [x \in DOMAIN s[y] |-> BG]]

(* Scrolling moves every line up, and the ones that do not stay whole off: *)
(* the first that stays is the highest that has a line's height above it.  *)
FirstKept ==
  CHOOSE k \in 1 .. (Len(tops) + 1) :
    \A j \in DOMAIN tops : j >= k <=> tops[j] >= CHAR_H

LinesUp ==
  [k \in 1 .. (Len(tops) + 1 - FirstKept) |-> tops[FirstKept + k - 1] - CHAR_H]

-----------------------------------------------------------------------------
(* terminal_init() and terminal_clear()                                    *)

terminal_clear ==
  /\ ready
  /\ screen' = Filled(BG)
  /\ cursor_x' = 0
  /\ cursor_y' = 0
  /\ tops' = << 0 >>
  /\ UNCHANGED <<fb, ready, wild>>

terminal_init ==
  /\ ~ready
  /\ screen' = IF HasScreen THEN Filled(BG) ELSE screen
  /\ cursor_x' = 0
  /\ cursor_y' = 0
  /\ ready' = TRUE
  /\ UNCHANGED <<fb, wild, tops>>

-----------------------------------------------------------------------------
(* terminal_putchar()                                                      *)

Overflows(y) == y + GLYPH_H > fb.h

WrapsAtEdge(x) == x >= fb.w

Wraps(x) == x + GLYPH_W > fb.w

CarriageReturn ==
  /\ cursor_x' = 0
  /\ UNCHANGED <<cursor_y, screen, wild, tops>>

LineFeed ==
  /\ cursor_x' = 0
  /\ LET y == cursor_y + CHAR_H
     IN  /\ cursor_y' = IF Overflows(y) THEN fb.h - CHAR_H ELSE y
         /\ screen' = IF Overflows(y) THEN scroll(screen) ELSE screen
         /\ tops' = Append(IF Overflows(y) THEN LinesUp ELSE tops, cursor_y')
  /\ UNCHANGED wild

Back(x) == IF x >= CHAR_W THEN x - CHAR_W ELSE x

Backspace ==
  /\ cursor_x' = Back(cursor_x)
  /\ Draw(screen, cursor_x', cursor_y, Blank)
  /\ UNCHANGED <<cursor_y, tops>>

PutGlyph(ch) ==
  LET x == IF Wraps(cursor_x) THEN 0 ELSE cursor_x
      y == IF Wraps(cursor_x) THEN cursor_y + CHAR_H ELSE cursor_y
      top == IF Overflows(y) THEN fb.h - CHAR_H ELSE y
  IN  /\ Draw(IF Overflows(y) THEN scroll(screen) ELSE screen, x, top, ch)
      /\ cursor_x' = x + CHAR_W
      /\ cursor_y' = top
      /\ tops' = IF Wraps(cursor_x)
                   THEN Append(IF Overflows(y) THEN LinesUp ELSE tops, top)
                   ELSE tops

terminal_putchar ==
  /\ ready
  /\ HasScreen
  /\ \/ CarriageReturn
     \/ LineFeed
     \/ Backspace
     \/ \E ch \in Char \cup {Blank} : PutGlyph(ch)
  /\ UNCHANGED <<fb, ready>>

Next == terminal_init \/ terminal_clear \/ terminal_putchar

Spec == Init /\ [][Next]_vars

-----------------------------------------------------------------------------
(* Properties                                                              *)

(* No call of terminal_putchar(), whatever was written before it, writes a *)
(* pixel outside the framebuffer, also not when it erases at the end of a  *)
(* line that has not wrapped yet, or after scrolling.                      *)
WritesStayInside == ~wild

(* The character that the picture s shows in a column of the line at       *)
(* height y; Garbled when the pixels there are not those of one glyph      *)
Cell(s, c, y) == [gy \in 0 .. (GLYPH_H - 1) |-> [gx \in 0 .. (GLYPH_W - 1) |->
                    s[y + gy][(c - 1) * CHAR_W + gx]]]

Picture(ch) == [gy \in 0 .. (GLYPH_H - 1) |-> [gx \in 0 .. (GLYPH_W - 1) |->
                  glyph(ch, gx, gy)]]

Shown(s, c, y) ==
  IF \E ch \in Char \cup {Blank} : Cell(s, c, y) = Picture(ch)
    THEN CHOOSE ch \in Char \cup {Blank} : Cell(s, c, y) = Picture(ch)
    ELSE Garbled

Columns == IF HasScreen THEN (fb.w - GLYPH_W) \div CHAR_W + 1 ELSE 0

(* The lines read off the screen                                           *)
LinesShown ==
  [k \in DOMAIN tops |->
     [c \in 1 .. Columns |-> IF ready THEN Shown(screen, c, tops[k]) ELSE Blank]]

(* The picture always shows the text of a grid of characters: wrapping,    *)
(* erasing, overwriting and scrolling neither garble a character nor leave *)
(* one behind, a new line is blank, and as many lines as the screen has    *)
(* room for stay on it, although scrolling puts the last line where it is  *)
(* not in step with the lines of the first page.                           *)
Grid == INSTANCE TextGrid WITH
  Char <- Char \cup {Blank},
  rows <- fb.h \div CHAR_H,
  cols <- Columns,
  lines <- LinesShown,
  col <- cursor_x \div CHAR_W

ImplementsTextGrid == Grid!Spec

=============================================================================
