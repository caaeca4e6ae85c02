--------------------------- MODULE TerminalProofs ---------------------------
(***************************************************************************)
(* The terminal never writes outside the framebuffer, for every size of    *)
(* screen and of character cell, and what it draws is the text of a grid   *)
(* of characters.                                                          *)
(*                                                                         *)
(* The first property is not inductive: erasing at the end of a line is    *)
(* safe only because the cursor stands on a multiple of CHAR_W and at most *)
(* one character behind the last column, and drawing only because the      *)
(* cursor's line is whole on the screen after every call.                  *)
(***************************************************************************)
EXTENDS Terminal, SequenceTheorems, WellFoundedInduction, TLAPS

-----------------------------------------------------------------------------
(* A set of numbers that is not empty has a least number: a counterexample *)
(* to a claim about numbers may be taken least.                            *)
LEMMA Least ==
  ASSUME NEW T, T \subseteq Nat, T # {}
  PROVE  \E x \in T : \A y \in T : x <= y
  <1> DEFINE R == {pair \in Nat \X Nat : pair[1] < pair[2]}
  <1>1. IsWellFoundedOn(R, Nat)
    BY NatLessThanWellFounded, Zenon DEF OpToRel
  <1>2. \A x, y \in Nat : <<y, x>> \notin R => x <= y
    OBVIOUS
  <1> HIDE DEF R
  <1>3. PICK x \in T : \A y \in T : <<y, x>> \notin R
    BY <1>1, WFMin, Zenon
  <1>4. \A y \in T : x <= y
    BY <1>2, <1>3
  <1> QED BY <1>4

-----------------------------------------------------------------------------
(* x is the left edge of a column                                          *)
OnColumn(x) == \E n \in Nat : x = n * CHAR_W

(* The character before the cursor, if there is one, fits in the line, and *)
(* the cursor's line fits on the screen.                                   *)
CursorInPlace ==
  /\ OnColumn(cursor_x)
  /\ HasScreen => /\ cursor_x > 0 => cursor_x - CHAR_W + GLYPH_W <= fb.w
                  /\ cursor_y + GLYPH_H <= fb.h

IInv ==
  /\ fb \in Framebuffers
  /\ cursor_x \in Nat
  /\ cursor_y \in Nat
  /\ wild = FALSE
  /\ CursorInPlace

(* Columns are CHAR_W apart: what the cursor's steps rest on.              *)
LEMMA ColumnSteps ==
  ASSUME NEW x \in Nat, OnColumn(x)
  PROVE  /\ OnColumn(0)
         /\ OnColumn(x + CHAR_W)
         /\ x >= CHAR_W => x - CHAR_W \in Nat /\ OnColumn(x - CHAR_W)
         /\ x < CHAR_W => x = 0
<1>1. CHAR_W \in Nat /\ CHAR_W > 0
  BY GlyphAssumption
<1>2. PICK n \in Nat : x = n * CHAR_W
  BY DEF OnColumn
<1>3. 0 * CHAR_W = 0
  BY <1>1
<1>4. (n + 1) * CHAR_W = n * CHAR_W + CHAR_W
  BY <1>1
<1>5. n > 0 => n - 1 \in Nat /\ (n - 1) * CHAR_W = n * CHAR_W - CHAR_W
  BY <1>1
<1>6. n > 0 => n * CHAR_W >= CHAR_W
  <2>1. SUFFICES ASSUME n > 0 PROVE n * CHAR_W >= CHAR_W
    OBVIOUS
  <2>2. (n - 1) * CHAR_W >= 0
    BY <2>1, <1>1
  <2>3. QED
    BY <2>1, <2>2, <1>1, <1>5
<1>7. OnColumn(0)
  BY <1>3 DEF OnColumn
<1>8. OnColumn(x + CHAR_W)
  <2>1. n + 1 \in Nat /\ x + CHAR_W = (n + 1) * CHAR_W
    BY <1>2, <1>4
  <2>2. QED
    BY <2>1 DEF OnColumn
<1>9. n = 0 => x = 0
  BY <1>2, <1>3
<1>10. x >= CHAR_W => x - CHAR_W \in Nat /\ OnColumn(x - CHAR_W)
  <2>1. SUFFICES ASSUME x >= CHAR_W PROVE x - CHAR_W \in Nat /\ OnColumn(x - CHAR_W)
    OBVIOUS
  <2>2. n > 0
    BY <2>1, <1>1, <1>9
  <2>3. n - 1 \in Nat /\ x - CHAR_W = (n - 1) * CHAR_W
    BY <2>2, <1>2, <1>5
  <2>4. x - CHAR_W \in Nat
    BY <2>1, <1>1
  <2>5. QED
    BY <2>3, <2>4 DEF OnColumn
<1>11. x < CHAR_W => x = 0
  <2>1. n > 0 => x >= CHAR_W
    BY <1>2, <1>6
  <2>2. QED
    BY <2>1, <1>1, <1>9
<1>12. QED
  BY <1>7, <1>8, <1>10, <1>11

(* What the assumptions say of the screen in use                           *)
LEMMA ScreenFacts ==
  ASSUME fb \in Framebuffers
  PROVE  /\ fb.w \in Nat /\ fb.h \in Nat
         /\ CHAR_W \in Nat /\ CHAR_H \in Nat /\ GLYPH_W \in Nat /\ GLYPH_H \in Nat
         /\ 0 < GLYPH_W /\ GLYPH_W <= CHAR_W /\ 0 < GLYPH_H /\ GLYPH_H <= CHAR_H
         /\ HasScreen => fb.w >= GLYPH_W /\ fb.h > CHAR_H
  BY GlyphAssumption, FramebufferAssumption DEF HasScreen

LEMMA InitIInv == Init => IInv
<1>1. SUFFICES ASSUME Init PROVE IInv
  OBVIOUS
<1>2. fb \in Framebuffers /\ cursor_x = 0 /\ cursor_y = 0 /\ wild = FALSE
  BY <1>1 DEF Init
<1>3. OnColumn(0)
  <2>1. 0 \in Nat /\ 0 = 0 * CHAR_W
    BY GlyphAssumption
  <2>2. QED
    BY <2>1 DEF OnColumn
<1>4. HasScreen => 0 + GLYPH_H <= fb.h
  BY <1>2, ScreenFacts
<1>5. QED
  BY <1>2, <1>3, <1>4 DEF IInv, CursorInPlace

LEMMA NextIInv == IInv /\ [Next]_vars => IInv'
<1> SUFFICES ASSUME IInv, [Next]_vars PROVE IInv'
  OBVIOUS
<1>1. /\ fb \in Framebuffers /\ cursor_x \in Nat /\ cursor_y \in Nat
      /\ wild = FALSE /\ OnColumn(cursor_x)
      /\ HasScreen => /\ cursor_x > 0 => cursor_x - CHAR_W + GLYPH_W <= fb.w
                      /\ cursor_y + GLYPH_H <= fb.h
  BY DEF IInv, CursorInPlace
<1>2. /\ fb.w \in Nat /\ fb.h \in Nat
      /\ CHAR_W \in Nat /\ CHAR_H \in Nat /\ GLYPH_W \in Nat /\ GLYPH_H \in Nat
      /\ 0 < GLYPH_W /\ GLYPH_W <= CHAR_W /\ 0 < GLYPH_H /\ GLYPH_H <= CHAR_H
      /\ HasScreen => fb.w >= GLYPH_W /\ fb.h > CHAR_H
  BY <1>1, ScreenFacts
<1>3. /\ OnColumn(0)
      /\ OnColumn(cursor_x + CHAR_W)
      /\ cursor_x >= CHAR_W =>
           cursor_x - CHAR_W \in Nat /\ OnColumn(cursor_x - CHAR_W)
      /\ cursor_x < CHAR_W => cursor_x = 0
  BY <1>1, ColumnSteps
<1>a. ASSUME NEW x \in Nat, NEW y \in Nat, OnColumn(x), fb' = fb, wild' = FALSE,
             cursor_x' = x, cursor_y' = y,
             HasScreen => /\ x > 0 => x - CHAR_W + GLYPH_W <= fb.w
                          /\ y + GLYPH_H <= fb.h
      PROVE  IInv'
  BY <1>1, <1>a DEF IInv, CursorInPlace, OnColumn, HasScreen
<1>b. ASSUME NEW y \in Nat, fb' = fb, wild' = FALSE, cursor_x' = 0, cursor_y' = y,
             HasScreen => y + GLYPH_H <= fb.h
      PROVE  IInv'
  <2>1. 0 \in Nat /\ ~(0 > 0)
    OBVIOUS
  <2>2. QED
    BY <2>1, <1>1, <1>3, <1>b DEF IInv, CursorInPlace, OnColumn, HasScreen
<1>4. CASE terminal_init \/ terminal_clear
  <2>1. fb' = fb /\ wild' = FALSE /\ cursor_x' = 0 /\ cursor_y' = 0
    BY <1>4, <1>1 DEF terminal_init, terminal_clear
  <2>2. HasScreen => 0 + GLYPH_H <= fb.h
    BY <1>2
  <2>3. QED
    BY <2>1, <2>2, <1>b
<1>5. CASE terminal_putchar
  <2>1. HasScreen /\ fb' = fb
    BY <1>5 DEF terminal_putchar
  <2>2. CASE CarriageReturn
    <3>1. cursor_x' = 0 /\ cursor_y' = cursor_y /\ wild' = FALSE
      BY <2>2, <1>1 DEF CarriageReturn
    <3>2. QED
      BY <3>1, <2>1, <1>1, <1>b
  <2>3. CASE LineFeed
    <3> DEFINE y == cursor_y + CHAR_H
               top == IF Overflows(y) THEN fb.h - CHAR_H ELSE y
    <3>1. cursor_x' = 0 /\ cursor_y' = top /\ wild' = FALSE
      BY <2>3, <1>1 DEF LineFeed
    <3>2. top \in Nat /\ top + GLYPH_H <= fb.h
      BY <2>1, <1>1, <1>2 DEF Overflows
    <3> HIDE DEF top
    <3>3. QED
      BY <3>1, <3>2, <2>1, <1>b
  <2>4. CASE Backspace
    <3> DEFINE x == Back(cursor_x)
    <3>1. cursor_x' = x /\ cursor_y' = cursor_y /\ wild' = (wild \/ ~Fits(x, cursor_y))
      BY <2>4 DEF Backspace, Draw
    <3>2. x \in Nat /\ OnColumn(x)
      <4>1. CASE cursor_x >= CHAR_W
        BY <4>1, <1>3 DEF Back
      <4>2. CASE ~(cursor_x >= CHAR_W)
        BY <4>2, <1>1 DEF Back
      <4>3. QED
        BY <4>1, <4>2
    <3>3. x + GLYPH_W <= fb.w
      <4>1. CASE cursor_x >= CHAR_W
        <5>1. x = cursor_x - CHAR_W
          BY <4>1 DEF Back
        <5>2. cursor_x > 0
          BY <4>1, <1>1, <1>2
        <5>3. cursor_x - CHAR_W + GLYPH_W <= fb.w
          BY <5>2, <2>1, <1>1
        <5>4. QED
          BY <5>1, <5>3
      <4>2. CASE cursor_x < CHAR_W
        <5>1. x = 0
          BY <4>2, <1>1, <1>2, <1>3 DEF Back
        <5>2. QED
          BY <5>1, <2>1, <1>2
      <4>3. QED
        BY <4>1, <4>2, <1>1, <1>2
    <3>4. wild' = FALSE
      BY <3>1, <3>3, <2>1, <1>1 DEF Fits
    <3>5. x > 0 => x - CHAR_W + GLYPH_W <= fb.w
      BY <3>2, <3>3, <1>2
    <3> HIDE DEF x
    <3>6. QED
      BY <3>1, <3>2, <3>4, <3>5, <2>1, <1>1, <1>a
  <2>5. ASSUME NEW ch \in Char \cup {Blank}, PutGlyph(ch) PROVE IInv'
    <3> DEFINE x == IF Wraps(cursor_x) THEN 0 ELSE cursor_x
               y == IF Wraps(cursor_x) THEN cursor_y + CHAR_H ELSE cursor_y
               top == IF Overflows(y) THEN fb.h - CHAR_H ELSE y
    <3>1. /\ cursor_x' = x + CHAR_W /\ cursor_y' = top
          /\ wild' = (wild \/ ~Fits(x, top))
      BY <2>5 DEF PutGlyph, Draw
    <3>2. x \in Nat /\ x + GLYPH_W <= fb.w
      BY <2>1, <1>1, <1>2 DEF Wraps
    <3>3. top \in Nat /\ top + GLYPH_H <= fb.h
      <4>1. y \in Nat
        BY <1>1, <1>2
      <4> HIDE DEF y
      <4>2. QED
        BY <4>1, <2>1, <1>2 DEF Overflows
    <3>4. OnColumn(x + CHAR_W)
      <4>1. CASE Wraps(cursor_x)
        <5>1. x = 0
          BY <4>1
        <5>2. 0 \in Nat /\ OnColumn(0)
          BY <1>3
        <5>3. OnColumn(0 + CHAR_W)
          BY <5>2, ColumnSteps
        <5>4. QED
          BY <5>1, <5>3
      <4>2. CASE ~Wraps(cursor_x)
        BY <4>2, <1>3
      <4>3. QED
        BY <4>1, <4>2
    <3> HIDE DEF x, top
    <3>5. wild' = FALSE
      BY <3>1, <3>2, <3>3, <1>1 DEF Fits
    <3>6. x + CHAR_W \in Nat /\ (x + CHAR_W) - CHAR_W + GLYPH_W <= fb.w
      BY <3>2, <1>2
    <3>7. QED
      BY <3>1, <3>3, <3>4, <3>5, <3>6, <2>1, <1>a
  <2>6. QED
    BY <1>5, <2>2, <2>3, <2>4, <2>5 DEF terminal_putchar
<1>6. CASE UNCHANGED vars
  BY <1>6, <1>1, <1>a DEF vars
<1>7. QED
  BY <1>4, <1>5, <1>6 DEF Next

(* Whatever is written to it, terminal_putchar() writes no pixel outside   *)
(* the framebuffer, for every size of screen that has room for a character *)
(* and more than one line.                                                 *)
THEOREM TerminalStaysInside == Spec => []WritesStayInside
<1>1. IInv => WritesStayInside
  BY DEF IInv, WritesStayInside
<1>2. QED
  BY <1>1, InitIInv, NextIInv, PTL DEF Spec

-----------------------------------------------------------------------------
(* The terminal implements the grid of characters of TextGrid.             *)
(*                                                                         *)
(* What makes the picture the text of a grid: the lines are whole, do not  *)
(* overlap, and below the cursor's line there is nothing.  That no line is *)
(* lost too early needs to know where the lines stand: those of the first  *)
(* page on multiples of CHAR_H, the later ones counted from the bottom.    *)

Glyphs == Char \cup {Blank}

OnRow(y) == \E m \in Nat : y = m * CHAR_H

(* Line i of the heights t stands on a screen that is full: it was written *)
(* after the first scrolling, or before it, and then it is not far above   *)
(* the place where a line written later would stand.                       *)
Placed(t, i) ==
  \/ t[i] = fb.h - (Len(t) - i + 1) * CHAR_H
  \/ OnRow(t[i]) /\ fb.h < t[i] + (Len(t) - i + 1) * CHAR_H + GLYPH_H

Shape(s) ==
  /\ DOMAIN s = 0 .. (fb.h - 1)
  /\ \A r \in 0 .. (fb.h - 1) : DOMAIN s[r] = 0 .. (fb.w - 1)

Apart(t) == \A i, j \in 1 .. Len(t) : i < j => t[i] + GLYPH_H <= t[j]

Standing(t, y) ==
  \/ y = fb.h - CHAR_H /\ \A i \in 1 .. Len(t) : Placed(t, i)
  \/ \A i \in 1 .. Len(t) : t[i] = (i - 1) * CHAR_H

(* The lines of the picture s stand at the heights t, the cursor at y.     *)
OnScreen(s, t, y) ==
  /\ Shape(s)
  /\ t \in Seq(Nat) /\ Len(t) > 0 /\ t[Len(t)] = y
  /\ y + GLYPH_H <= fb.h
  /\ Apart(t)
  /\ Standing(t, y)
  /\ \A r \in 0 .. (fb.h - 1), c \in 0 .. (fb.w - 1) : r >= y + GLYPH_H => s[r][c] = BG

GridInv ==
  /\ IInv
  /\ ready \in BOOLEAN
  /\ ~ready => tops = << 0 >>
  /\ ready /\ HasScreen => OnScreen(screen, tops, cursor_y)

-----------------------------------------------------------------------------
(* Lemmas about the pixels of a character                                  *)

LEMMA PictureTells ==
  ASSUME NEW a \in Glyphs, NEW b \in Glyphs, Picture(a) = Picture(b)
  PROVE  a = b
<1>1. 0 \in 0 .. (GLYPH_H - 1) /\ 0 \in 0 .. (GLYPH_W - 1)
  BY GlyphAssumption
<1>2. Picture(a)[0][0] = glyph(a, 0, 0) /\ Picture(b)[0][0] = glyph(b, 0, 0)
  BY <1>1 DEF Picture
<1>3. glyph(a, 0, 0) = glyph(b, 0, 0)
  BY <1>2
<1>4. QED
  BY <1>3 DEF glyph, BG

LEMMA PictureIsShown ==
  ASSUME NEW s, NEW c, NEW y, NEW ch \in Glyphs, Cell(s, c, y) = Picture(ch)
  PROVE  Shown(s, c, y) = ch
<1>1. \E a \in Char \cup {Blank} : Cell(s, c, y) = Picture(a)
  BY DEF Glyphs
<1>2. \A a \in Glyphs : Cell(s, c, y) = Picture(a) => a = ch
  BY PictureTells
<1> DEFINE x == CHOOSE a \in Char \cup {Blank} : Cell(s, c, y) = Picture(a)
<1>3. x \in Char \cup {Blank} /\ Cell(s, c, y) = Picture(x)
  BY <1>1
<1>4. Shown(s, c, y) = x
  BY <1>1 DEF Shown
<1> HIDE DEF x
<1>5. QED
  BY <1>2, <1>3, <1>4 DEF Glyphs

LEMMA ShownType ==
  ASSUME NEW s, NEW c, NEW y
  PROVE  Shown(s, c, y) \in Glyphs \cup {Garbled}
<1>1. CASE \E a \in Char \cup {Blank} : Cell(s, c, y) = Picture(a)
  <2> DEFINE x == CHOOSE a \in Char \cup {Blank} : Cell(s, c, y) = Picture(a)
  <2>1. x \in Char \cup {Blank}
    BY <1>1
  <2>2. Shown(s, c, y) = x
    BY <1>1 DEF Shown
  <2> HIDE DEF x
  <2>3. QED
    BY <2>1, <2>2 DEF Glyphs
<1>2. CASE ~\E a \in Char \cup {Blank} : Cell(s, c, y) = Picture(a)
  BY <1>2 DEF Shown
<1>3. QED
  BY <1>1, <1>2

LEMMA SameCell ==
  ASSUME NEW s, NEW c, NEW y, NEW u, NEW d, NEW z, Cell(s, c, y) = Cell(u, d, z)
  PROVE  Shown(s, c, y) = Shown(u, d, z)
  BY DEF Shown

(* Where the columns are: CHAR_W apart, and the last one fits.             *)
LEMMA ColumnPlace ==
  ASSUME fb \in Framebuffers, HasScreen, NEW c \in 1 .. Columns
  PROVE  /\ (c - 1) * CHAR_W \in Nat
         /\ (c - 1) * CHAR_W + GLYPH_W <= fb.w
<1>1. /\ fb.w \in Nat /\ CHAR_W \in Nat /\ CHAR_W > 0 /\ GLYPH_W \in Nat
      /\ fb.w >= GLYPH_W
  BY ScreenFacts
<1> DEFINE q == (fb.w - GLYPH_W) \div CHAR_W
<1>2. q \in Nat /\ q * CHAR_W <= fb.w - GLYPH_W
  BY <1>1
<1>3. Columns = q + 1
  BY DEF Columns
<1> HIDE DEF q
<1>4. c - 1 \in Nat /\ c - 1 <= q
  BY <1>2, <1>3
<1>5. (c - 1) * CHAR_W \in Nat /\ (c - 1) * CHAR_W <= q * CHAR_W
  <2>1. \A i, j \in Nat : i <= j => i * CHAR_W \in Nat /\ j * CHAR_W \in Nat /\ i * CHAR_W <= j * CHAR_W
    BY <1>1
  <2>2. QED
    BY <2>1, <1>2, <1>4
<1>6. QED
  BY <1>1, <1>2, <1>5

LEMMA ColumnsApart ==
  ASSUME NEW c \in Nat \ {0}, NEW d \in Nat, c < d
  PROVE  (c - 1) * CHAR_W + GLYPH_W <= (d - 1) * CHAR_W
<1>1. CHAR_W \in Nat /\ GLYPH_W \in Nat /\ GLYPH_W <= CHAR_W
  BY GlyphAssumption
<1>2. c - 1 \in Nat /\ d - 1 \in Nat /\ c <= d - 1
  OBVIOUS
<1>3. c * CHAR_W = (c - 1) * CHAR_W + CHAR_W
  BY <1>1
<1>4. c * CHAR_W <= (d - 1) * CHAR_W
  <2>1. \A i, j \in Nat : i <= j => i * CHAR_W <= j * CHAR_W
    BY <1>1
  <2>2. QED
    BY <2>1, <1>2
<1>5. (c - 1) * CHAR_W \in Nat /\ c * CHAR_W \in Nat /\ (d - 1) * CHAR_W \in Nat
  BY <1>1, <1>2
<1>6. QED
  BY <1>1, <1>3, <1>4, <1>5

(* The cursor stands in column cursor_x \div CHAR_W, and wraps when that   *)
(* is behind the last one.                                                 *)
LEMMA CursorColumn ==
  ASSUME fb \in Framebuffers, HasScreen, NEW x, NEW k \in Nat, x = k * CHAR_W
  PROVE  /\ x \div CHAR_W = k
         /\ Wraps(x) <=> k >= Columns
         /\ Columns \in Nat /\ Columns > 0
<1>1. /\ fb.w \in Nat /\ CHAR_W \in Nat /\ CHAR_W > 0 /\ GLYPH_W \in Nat
      /\ fb.w >= GLYPH_W
  BY ScreenFacts
<1> DEFINE q == (fb.w - GLYPH_W) \div CHAR_W
<1>2. q \in Nat /\ q * CHAR_W <= fb.w - GLYPH_W /\ fb.w - GLYPH_W < (q + 1) * CHAR_W
  BY <1>1
<1>3. Columns = q + 1
  BY DEF Columns
<1>4. x \div CHAR_W = k
  BY <1>1
<1> HIDE DEF q
<1>5. \A i, j \in Nat : i <= j => i * CHAR_W \in Nat /\ j * CHAR_W \in Nat /\ i * CHAR_W <= j * CHAR_W
  BY <1>1
<1>6. CASE k <= q
  <2>1. k * CHAR_W <= q * CHAR_W /\ k * CHAR_W \in Nat /\ q * CHAR_W \in Nat
    BY <1>2, <1>5, <1>6
  <2>2. ~Wraps(x)
    BY <2>1, <1>1, <1>2 DEF Wraps
  <2>3. QED
    BY <2>2, <1>2, <1>3, <1>4, <1>6
<1>7. CASE q + 1 <= k
  <2>1. (q + 1) * CHAR_W <= k * CHAR_W /\ k * CHAR_W \in Nat /\ (q + 1) * CHAR_W \in Nat
    BY <1>2, <1>5, <1>7
  <2>2. Wraps(x)
    BY <2>1, <1>1, <1>2 DEF Wraps
  <2>3. QED
    BY <2>2, <1>2, <1>3, <1>4, <1>7
<1>8. QED
  BY <1>2, <1>6, <1>7

-----------------------------------------------------------------------------
(* Lemmas about what drawing and scrolling do to a cell                    *)

(* A pixel of a character that fits is a pixel of the picture.             *)
LEMMA PixelInside ==
  ASSUME fb \in Framebuffers, HasScreen, NEW c \in 1 .. Columns,
         NEW y \in Nat, y + GLYPH_H <= fb.h,
         NEW gy \in 0 .. (GLYPH_H - 1), NEW gx \in 0 .. (GLYPH_W - 1)
  PROVE  /\ y + gy \in 0 .. (fb.h - 1)
         /\ (c - 1) * CHAR_W + gx \in 0 .. (fb.w - 1)
<1>1. (c - 1) * CHAR_W \in Nat /\ (c - 1) * CHAR_W + GLYPH_W <= fb.w
  BY ColumnPlace
<1>2. GLYPH_H \in Nat /\ GLYPH_W \in Nat /\ fb.w \in Nat /\ fb.h \in Nat
  BY ScreenFacts
<1>3. \A x \in Nat : x + GLYPH_W <= fb.w => x + gx \in 0 .. (fb.w - 1)
  BY <1>2
<1>4. y + gy \in 0 .. (fb.h - 1)
  BY <1>2
<1>5. QED
  BY <1>1, <1>3, <1>4

LEMMA DrawnIsThere ==
  ASSUME fb \in Framebuffers, HasScreen, NEW s, Shape(s), NEW c \in 1 .. Columns,
         NEW y \in Nat, y + GLYPH_H <= fb.h, NEW ch \in Glyphs
  PROVE  Cell(Drawn(s, (c - 1) * CHAR_W, y, ch), c, y) = Picture(ch)
<1> DEFINE x == (c - 1) * CHAR_W
           u == Drawn(s, x, y, ch)
<1>1. GLYPH_H \in Nat /\ GLYPH_W \in Nat /\ x \in Nat
  BY ScreenFacts, ColumnPlace
<1>2. ASSUME NEW gy \in 0 .. (GLYPH_H - 1), NEW gx \in 0 .. (GLYPH_W - 1)
      PROVE  u[y + gy][x + gx] = glyph(ch, gx, gy)
  <2>1. y + gy \in 0 .. (fb.h - 1) /\ x + gx \in 0 .. (fb.w - 1)
    BY PixelInside
  <2> HIDE DEF x
  <2>2. y + gy \in DOMAIN s /\ x + gx \in DOMAIN s[y + gy]
    BY <2>1 DEF Shape
  <2>3. y + gy \in y .. (y + GLYPH_H - 1) /\ x + gx \in x .. (x + GLYPH_W - 1)
    BY <1>1
  <2>4. (x + gx) - x = gx /\ (y + gy) - y = gy
    BY <1>1
  <2>5. u[y + gy][x + gx] = glyph(ch, (x + gx) - x, (y + gy) - y)
    BY <2>2, <2>3 DEF Drawn
  <2>6. QED
    BY <2>4, <2>5
<1> HIDE DEF u
<1>3. Cell(u, c, y) = Picture(ch)
  BY <1>2, Zenon DEF Cell, Picture
<1>4. QED
  BY <1>3 DEF u

LEMMA DrawnElsewhere ==
  ASSUME fb \in Framebuffers, HasScreen, NEW s, Shape(s),
         NEW c \in 1 .. Columns, NEW y \in Nat, y + GLYPH_H <= fb.h,
         NEW d \in 1 .. Columns, NEW z \in Nat, z + GLYPH_H <= fb.h,
         NEW ch, d # c \/ z + GLYPH_H <= y
  PROVE  Cell(Drawn(s, (c - 1) * CHAR_W, y, ch), d, z) = Cell(s, d, z)
<1> DEFINE x == (c - 1) * CHAR_W
           w == (d - 1) * CHAR_W
           u == Drawn(s, x, y, ch)
<1>1. GLYPH_H \in Nat /\ GLYPH_W \in Nat /\ x \in Nat /\ w \in Nat
  BY ScreenFacts, ColumnPlace
<1>2. Columns \in Nat
  <2>1. 0 = 0 * CHAR_W
    BY GlyphAssumption
  <2>2. QED
    BY <2>1, CursorColumn
<1>3. d # c => x + GLYPH_W <= w \/ w + GLYPH_W <= x
  <2>1. c \in Nat \ {0} /\ d \in Nat \ {0}
    BY <1>2
  <2>2. c < d => x + GLYPH_W <= w
    BY <2>1, ColumnsApart
  <2>3. d < c => w + GLYPH_W <= x
    BY <2>1, ColumnsApart
  <2> HIDE DEF x, w
  <2>4. QED
    BY <2>1, <2>2, <2>3
<1>4. ASSUME NEW gy \in 0 .. (GLYPH_H - 1), NEW gx \in 0 .. (GLYPH_W - 1)
      PROVE  u[z + gy][w + gx] = s[z + gy][w + gx]
  <2>1. z + gy \in 0 .. (fb.h - 1) /\ w + gx \in 0 .. (fb.w - 1)
    BY PixelInside
  <2> HIDE DEF x, w
  <2>2. z + gy \in DOMAIN s /\ w + gx \in DOMAIN s[z + gy]
    BY <2>1 DEF Shape
  <2>3. ~(z + gy \in y .. (y + GLYPH_H - 1) /\ w + gx \in x .. (x + GLYPH_W - 1))
    BY <1>1, <1>3
  <2>4. QED
    BY <2>2, <2>3 DEF Drawn
<1> HIDE DEF u
<1>5. Cell(u, d, z) = Cell(s, d, z)
  BY <1>4, Zenon DEF Cell
<1>6. QED
  BY <1>5 DEF u

LEMMA ScrolledCell ==
  ASSUME fb \in Framebuffers, HasScreen, NEW s, Shape(s),
         NEW c \in 1 .. Columns, NEW y \in Nat, y + CHAR_H + GLYPH_H <= fb.h
  PROVE  Cell(scroll(s), c, y) = Cell(s, c, y + CHAR_H)
<1>1. /\ GLYPH_H \in Nat /\ GLYPH_W \in Nat /\ CHAR_H \in Nat /\ fb.h \in Nat
      /\ fb.h > CHAR_H
  BY ScreenFacts
<1>2. ASSUME NEW gy \in 0 .. (GLYPH_H - 1)
      PROVE  scroll(s)[y + gy] = s[(y + CHAR_H) + gy]
  <2>1. y + gy \in 0 .. (fb.h - 1) /\ (y + gy) + CHAR_H < fb.h
    BY <1>1
  <2>2. y + gy \in DOMAIN s
    BY <2>1 DEF Shape
  <2>3. (y + gy) + CHAR_H = (y + CHAR_H) + gy
    BY <1>1
  <2>4. QED
    BY <2>1, <2>2, <2>3, <1>1 DEF scroll
<1> DEFINE z == y + CHAR_H
           u == scroll(s)
<1>3. \A gy \in 0 .. (GLYPH_H - 1) : u[y + gy] = s[z + gy]
  BY <1>2
<1> HIDE DEF z, u
<1>4. Cell(u, c, y) = Cell(s, c, z)
  BY <1>3, Zenon DEF Cell
<1>5. QED
  BY <1>4 DEF z, u

LEMMA BlankCell ==
  ASSUME fb \in Framebuffers, HasScreen, NEW s, NEW c \in 1 .. Columns,
         NEW y \in Nat, y + GLYPH_H <= fb.h,
         \A r \in 0 .. (fb.h - 1), p \in 0 .. (fb.w - 1) : r >= y => s[r][p] = BG
  PROVE  Shown(s, c, y) = Blank
<1>1. GLYPH_H \in Nat
  BY ScreenFacts
<1>2. ASSUME NEW gy \in 0 .. (GLYPH_H - 1), NEW gx \in 0 .. (GLYPH_W - 1)
      PROVE  s[y + gy][(c - 1) * CHAR_W + gx] = glyph(Blank, gx, gy)
  <2>1. y + gy \in 0 .. (fb.h - 1) /\ (c - 1) * CHAR_W + gx \in 0 .. (fb.w - 1)
    BY PixelInside
  <2>2. y + gy >= y
    BY <1>1
  <2>3. QED
    BY <2>1, <2>2 DEF glyph
<1>3. Cell(s, c, y) = Picture(Blank)
  BY <1>2, Zenon DEF Cell, Picture
<1>4. QED
  BY <1>3, PictureIsShown DEF Glyphs

-----------------------------------------------------------------------------
(* Lemmas about the lines                                                  *)

(* The text that the picture s shows at the heights t                      *)
TextOf(s, t) ==
  [k \in 1 .. Len(t) |-> [c \in 1 .. Columns |-> Shown(s, c, t[k])]]

LEMMA RowSteps ==
  /\ \A k \in Nat : k * CHAR_H \in Nat /\ (k + 1) * CHAR_H = k * CHAR_H + CHAR_H
  /\ \A y \in Nat : OnRow(y) /\ y < CHAR_H => y = 0
  /\ \A y \in Nat : OnRow(y) /\ y >= CHAR_H => OnRow(y - CHAR_H)
  /\ \A h, k \in Nat : h < (k + 1) * CHAR_H => h \div CHAR_H <= k
<1>1. CHAR_H \in Nat /\ CHAR_H > 0
  BY GlyphAssumption
<1>2. \A k \in Nat : k * CHAR_H \in Nat /\ (k + 1) * CHAR_H = k * CHAR_H + CHAR_H
  BY <1>1
<1>3. 0 * CHAR_H = 0
  BY <1>1
<1>4. ASSUME NEW y \in Nat, OnRow(y)
      PROVE  /\ y < CHAR_H => y = 0
             /\ y >= CHAR_H => OnRow(y - CHAR_H)
  <2>1. PICK m \in Nat : y = m * CHAR_H
    BY <1>4 DEF OnRow
  <2>2. CASE m = 0
    BY <2>1, <2>2, <1>1, <1>3
  <2>3. CASE m > 0
    <3>1. m - 1 \in Nat /\ (m - 1) * CHAR_H \in Nat /\ y = (m - 1) * CHAR_H + CHAR_H
      <4>1. m - 1 \in Nat /\ (m - 1) + 1 = m
        BY <2>3
      <4>2. QED
        BY <2>1, <4>1, <1>2
    <3>2. y >= CHAR_H /\ y - CHAR_H = (m - 1) * CHAR_H
      BY <3>1, <1>1
    <3>3. QED
      BY <3>1, <3>2, <1>1 DEF OnRow
  <2>4. QED
    BY <2>2, <2>3
<1>5. ASSUME NEW h \in Nat, NEW k \in Nat, h < (k + 1) * CHAR_H
      PROVE  h \div CHAR_H <= k
  <2> DEFINE q == h \div CHAR_H
  <2>1. q \in Nat /\ q * CHAR_H <= h
    BY <1>1
  <2> HIDE DEF q
  <2>2. SUFFICES ASSUME k + 1 <= q PROVE FALSE
    BY <2>1 DEF q
  <2>3. \A i, j \in Nat : i <= j => i * CHAR_H \in Nat /\ j * CHAR_H \in Nat /\ i * CHAR_H <= j * CHAR_H
    BY <1>1
  <2>4. (k + 1) * CHAR_H <= q * CHAR_H /\ (k + 1) * CHAR_H \in Nat /\ q * CHAR_H \in Nat
    BY <2>1, <2>2, <2>3
  <2>5. QED
    BY <2>1, <2>4, <1>5
<1>6. QED
  BY <1>2, <1>4, <1>5

(* All lines of the screen are whole, the cursor's below the others.       *)
LEMMA LinesAreWhole ==
  ASSUME fb \in Framebuffers, HasScreen, NEW s, NEW t, NEW y, OnScreen(s, t, y)
  PROVE  /\ Len(t) \in Nat /\ Len(t) > 0 /\ t \in [1 .. Len(t) -> Nat]
         /\ y \in Nat /\ y = t[Len(t)] /\ y + GLYPH_H <= fb.h
         /\ \A i \in 1 .. Len(t) : /\ t[i] \in Nat /\ t[i] <= y /\ t[i] + GLYPH_H <= fb.h
                                   /\ i # Len(t) => t[i] + GLYPH_H <= y
<1>1. GLYPH_H \in Nat /\ fb.h \in Nat
  BY ScreenFacts
<1>2. t \in Seq(Nat) /\ Len(t) > 0 /\ t[Len(t)] = y /\ y + GLYPH_H <= fb.h
  BY DEF OnScreen
<1>3. Len(t) \in Nat /\ t \in [1 .. Len(t) -> Nat]
  BY <1>2
<1>4. y \in Nat
  BY <1>2, <1>3
<1>5. ASSUME NEW i \in 1 .. Len(t)
      PROVE  /\ t[i] \in Nat /\ t[i] <= y /\ t[i] + GLYPH_H <= fb.h
             /\ i # Len(t) => t[i] + GLYPH_H <= y
  <2>1. t[i] \in Nat
    BY <1>3
  <2>2. i # Len(t) => t[i] + GLYPH_H <= y
    BY <1>2, <1>3 DEF OnScreen, Apart
  <2>3. QED
    BY <2>1, <2>2, <1>1, <1>2, <1>4
<1>6. QED
  BY <1>2, <1>3, <1>4, <1>5

(* Scrolling keeps the lines from FirstKept on.                            *)
LEMMA FirstKeptIs ==
  ASSUME fb \in Framebuffers, HasScreen, NEW s, NEW y, OnScreen(s, tops, y)
  PROVE  /\ FirstKept \in 1 .. (Len(tops) + 1)
         /\ \A j \in 1 .. Len(tops) : j >= FirstKept <=> tops[j] >= CHAR_H
<1> DEFINE n == Len(tops)
           Good(k) == \A j \in 1 .. n : j >= k <=> tops[j] >= CHAR_H
           T == {k \in 1 .. (n + 1) : \A j \in 1 .. n : j >= k => tops[j] >= CHAR_H}
<1>1. /\ n \in Nat /\ tops \in [1 .. n -> Nat] /\ CHAR_H \in Nat /\ GLYPH_H \in Nat
      /\ \A i, j \in 1 .. n : i < j => tops[i] + GLYPH_H <= tops[j]
  BY LinesAreWhole, ScreenFacts DEF OnScreen, Apart
<1> HIDE DEF n
<1>2. n + 1 \in T /\ T \subseteq Nat
  BY <1>1
<1>3. PICK f \in T : \A k \in T : f <= k
  <2> HIDE DEF T
  <2>1. QED
    BY <1>2, Least
<1>4. f \in 1 .. (n + 1)
  OBVIOUS
<1>5. Good(f)
  <2>1. SUFFICES ASSUME NEW j \in 1 .. n, tops[j] >= CHAR_H PROVE j >= f
    BY <1>3
  <2>2. j \in T
    <3>1. SUFFICES ASSUME NEW i \in 1 .. n, i >= j PROVE tops[i] >= CHAR_H
      BY <1>1
    <3>2. tops[i] \in Nat /\ tops[j] \in Nat /\ (j < i => tops[j] + GLYPH_H <= tops[i])
      BY <1>1
    <3>3. i = j \/ j < i
      BY <3>1
    <3>4. QED
      BY <3>2, <3>3, <2>1, <1>1
  <2> HIDE DEF T
  <2>3. QED
    BY <2>2, <1>3
<1>6. DOMAIN tops = 1 .. n
  BY <1>1
<1>7. FirstKept = CHOOSE k \in 1 .. (n + 1) : Good(k)
  BY <1>6, Zenon DEF FirstKept, n
<1> HIDE DEF Good
<1>8. FirstKept \in 1 .. (n + 1) /\ Good(FirstKept)
  BY <1>4, <1>5, <1>7, Zenon
<1>9. QED
  BY <1>8 DEF Good, n

-----------------------------------------------------------------------------
(* Drawing a character writes it in the grid.                              *)

TextLine == [1 .. Columns -> Glyphs \cup {Garbled}]

LEMMA TextType ==
  ASSUME NEW s, NEW t, Len(t) \in Nat
  PROVE  TextOf(s, t) \in Seq(TextLine) /\ Len(TextOf(s, t)) = Len(t)
<1> DEFINE n == Len(t)
           line(k) == [c \in 1 .. Columns |-> Shown(s, c, t[k])]
<1>1. \A k : line(k) \in TextLine
  BY ShownType DEF TextLine
<1>2. TextOf(s, t) = [k \in 1 .. n |-> line(k)]
  BY DEF TextOf
<1> HIDE DEF line, n
<1>3. [k \in 1 .. n |-> line(k)] \in [1 .. n -> TextLine]
  BY <1>1
<1>4. n \in Nat
  BY DEF n
<1>5. QED
  BY <1>2, <1>3, <1>4 DEF n

LEMMA CharIsWritten ==
  ASSUME fb \in Framebuffers, HasScreen, NEW s, NEW t, NEW y, OnScreen(s, t, y),
         NEW c \in 1 .. Columns, NEW ch \in Glyphs
  PROVE  LET u == Drawn(s, (c - 1) * CHAR_W, y, ch)
         IN  /\ OnScreen(u, t, y)
             /\ TextOf(u, t) = Grid!Write(TextOf(s, t), c, ch)
<1> DEFINE u == Drawn(s, (c - 1) * CHAR_W, y, ch)
           n == Len(t)
           old == TextOf(s, t)
<1>1. /\ n \in Nat /\ n > 0 /\ y \in Nat /\ y = t[n] /\ y + GLYPH_H <= fb.h
      /\ \A i \in 1 .. n : /\ t[i] \in Nat /\ t[i] <= y /\ t[i] + GLYPH_H <= fb.h
                           /\ i # n => t[i] + GLYPH_H <= y
  BY LinesAreWhole
<1>2. Shape(s)
  BY DEF OnScreen
<1>3. OnScreen(u, t, y)
  <2>1. Shape(u)
    BY <1>2 DEF Drawn, Shape
  <2>2. ASSUME NEW r \in 0 .. (fb.h - 1), NEW p \in 0 .. (fb.w - 1), r >= y + GLYPH_H
        PROVE  u[r][p] = BG
    <3>1. ~(r \in y .. (y + GLYPH_H - 1))
      BY <1>1, <2>2, ScreenFacts
    <3>2. r \in DOMAIN s /\ p \in DOMAIN s[r]
      BY <1>2 DEF Shape
    <3>3. u[r][p] = s[r][p]
      BY <3>1, <3>2 DEF Drawn
    <3>4. QED
      BY <3>3, <2>2 DEF OnScreen
  <2> HIDE DEF u
  <2>3. QED
    BY <2>1, <2>2 DEF OnScreen
<1>4. Shown(u, c, y) = ch
  BY <1>1, <1>2, DrawnIsThere, PictureIsShown
<1>5. ASSUME NEW i \in 1 .. n, NEW d \in 1 .. Columns, d # c \/ i # n
      PROVE  Shown(u, d, t[i]) = Shown(s, d, t[i])
  <2>1. t[i] \in Nat /\ t[i] + GLYPH_H <= fb.h /\ (i # n => t[i] + GLYPH_H <= y)
    BY <1>1
  <2>2. Cell(u, d, t[i]) = Cell(s, d, t[i])
    BY <2>1, <1>1, <1>2, <1>5, DrawnElsewhere
  <2> HIDE DEF u
  <2>3. QED
    BY <2>2, SameCell
<1> HIDE DEF u
<1>6. TextOf(u, t) = Grid!Write(old, c, ch)
  <2>1. old = [k \in 1 .. n |-> [d \in 1 .. Columns |-> Shown(s, d, t[k])]] /\ Len(old) = n
    BY <1>1, TextType DEF TextOf
  <2>2. TextOf(u, t) = [k \in 1 .. n |-> [d \in 1 .. Columns |-> Shown(u, d, t[k])]]
    BY DEF TextOf
  <2>3. Grid!Write(old, c, ch) = [old EXCEPT ![n] = [old[n] EXCEPT ![c] = ch]]
    BY <2>1 DEF Grid!Write, Grid!ReplaceAt, Grid!Last
  <2> HIDE DEF old
  <2>4. n \in 1 .. n
    BY <1>1
  <2>5. ASSUME NEW k \in 1 .. n
        PROVE  [d \in 1 .. Columns |-> Shown(u, d, t[k])]
                 = IF k = n THEN [old[n] EXCEPT ![c] = ch] ELSE old[k]
    <3>1. CASE k # n
      BY <3>1, <2>1, <1>5
    <3>2. CASE k = n
      <4>1. old[n] = [d \in 1 .. Columns |-> Shown(s, d, t[n])]
        BY <2>1, <2>4
      <4>2. [old[n] EXCEPT ![c] = ch]
              = [d \in 1 .. Columns |-> IF d = c THEN ch ELSE Shown(s, d, t[n])]
        BY <4>1
      <4>3. \A d \in 1 .. Columns :
              Shown(u, d, t[n]) = IF d = c THEN ch ELSE Shown(s, d, t[n])
        BY <1>1, <1>4, <1>5, <2>4
      <4>4. [d \in 1 .. Columns |-> Shown(u, d, t[n])]
              = [d \in 1 .. Columns |-> IF d = c THEN ch ELSE Shown(s, d, t[n])]
        BY <4>3, Zenon
      <4>5. QED
        BY <3>2, <4>2, <4>4
    <3>3. QED
      BY <3>1, <3>2
  <2>6. [old EXCEPT ![n] = [old[n] EXCEPT ![c] = ch]]
          = [k \in 1 .. n |-> IF k = n THEN [old[n] EXCEPT ![c] = ch] ELSE old[k]]
    BY <2>1
  <2>7. QED
    BY <2>2, <2>3, <2>5, <2>6, Zenon
<1>7. QED
  BY <1>3, <1>6 DEF u

-----------------------------------------------------------------------------
(* Going to the next line, as a line feed and a full line do               *)

Full == Overflows(cursor_y + CHAR_H)
NextTop == IF Full THEN fb.h - CHAR_H ELSE cursor_y + CHAR_H
NextScreen == IF Full THEN scroll(screen) ELSE screen
NextTops == Append(IF Full THEN LinesUp ELSE tops, NextTop)

(* A blank line enters at the bottom, the lines before f leave at the top. *)
LEMMA LineEnters ==
  ASSUME NEW s, NEW t, NEW u, NEW v, Len(t) \in Nat, Len(v) \in Nat,
         NEW f \in 1 .. (Len(t) + 1), Len(v) = Len(t) + 2 - f,
         \A k \in 1 .. (Len(v) - 1), c \in 1 .. Columns :
           Shown(u, c, v[k]) = Shown(s, c, t[f + k - 1]),
         \A c \in 1 .. Columns : Shown(u, c, v[Len(v)]) = Blank,
         f = 1 \/ Len(v) >= fb.h \div CHAR_H
  PROVE  TextOf(u, v) \in Grid!Kept(Append(TextOf(s, t), Grid!BlankLine))
<1> DEFINE n == Len(t)
           m == Len(v)
           old == TextOf(s, t)
           new == TextOf(u, v)
           b == Grid!BlankLine
           l == Append(old, b)
           rows == fb.h \div CHAR_H
<1>1. /\ old \in Seq(TextLine) /\ Len(old) = n
      /\ new \in Seq(TextLine) /\ Len(new) = m
  BY TextType
<1>2. /\ \A k \in 1 .. n : old[k] = [c \in 1 .. Columns |-> Shown(s, c, t[k])]
      /\ \A k \in 1 .. m : new[k] = [c \in 1 .. Columns |-> Shown(u, c, v[k])]
  BY DEF TextOf
<1>3. b = [c \in 1 .. Columns |-> Blank] /\ b \in TextLine
  BY DEF Grid!BlankLine, TextLine, Glyphs
<1>4. n \in Nat /\ m \in Nat /\ f \in 1 .. (n + 1) /\ m = n + 2 - f
  OBVIOUS
<1>5. \A k \in 1 .. (m - 1), c \in 1 .. Columns : Shown(u, c, v[k]) = Shown(s, c, t[f + k - 1])
  OBVIOUS
<1>6. \A c \in 1 .. Columns : Shown(u, c, v[m]) = Blank
  OBVIOUS
<1>7. f = 1 \/ m >= rows
  OBVIOUS
<1> HIDE DEF n, m, old, new, b, rows
<1>8. \A k \in 1 .. (m - 1) : new[k] = old[f + k - 1]
  <2>1. SUFFICES ASSUME NEW k \in 1 .. (m - 1) PROVE new[k] = old[f + k - 1]
    OBVIOUS
  <2>2. k \in 1 .. m /\ f + k - 1 \in 1 .. n
    BY <1>4
  <2>3. [c \in 1 .. Columns |-> Shown(u, c, v[k])]
          = [c \in 1 .. Columns |-> Shown(s, c, t[f + k - 1])]
    BY <1>5, Zenon
  <2>4. QED
    BY <1>2, <2>2, <2>3
<1>9. new[m] = b
  <2>1. m \in 1 .. m
    BY <1>4
  <2>2. [c \in 1 .. Columns |-> Shown(u, c, v[m])] = b
    BY <1>3, <1>6, Zenon
  <2>3. QED
    BY <1>2, <2>1, <2>2
<1>10. /\ l \in Seq(TextLine) /\ Len(l) = n + 1 /\ l[n + 1] = b
       /\ \A k \in 1 .. n : l[k] = old[k]
  BY <1>1, <1>3, <1>4
<1> HIDE DEF l
<1>11. \A k \in 1 .. m : new[k] = l[f + k - 1]
  <2>1. SUFFICES ASSUME NEW k \in 1 .. m PROVE new[k] = l[f + k - 1]
    OBVIOUS
  <2>2. CASE k = m
    <3>1. f + k - 1 = n + 1
      BY <1>4, <2>2
    <3>2. QED
      BY <1>9, <1>10, <2>2, <3>1
  <2>3. CASE k # m
    <3>1. k \in 1 .. (m - 1) /\ f + k - 1 \in 1 .. n
      BY <1>4, <2>3
    <3>2. QED
      BY <1>8, <1>10, <3>1
  <2>4. QED
    BY <2>2, <2>3
<1>12. new = SubSeq(l, f, n + 1)
  <2> DEFINE r == SubSeq(l, f, n + 1)
  <2>1. r \in Seq(TextLine) /\ Len(r) = m /\ \A k \in 1 .. m : r[k] = l[f + k - 1]
    BY <1>4, <1>10, SubSeqProperties
  <2> HIDE DEF r
  <2>2. new = r
    BY <1>1, <1>11, <2>1, SeqEqual
  <2>3. QED
    BY <2>2 DEF r
<1>13. new \in Grid!Suffixes(l) /\ new # << >>
  <2>1. m > 0
    BY <1>4
  <2>2. new # << >>
    BY <1>1, <2>1
  <2>3. f \in 1 .. Len(l) /\ new = SubSeq(l, f, Len(l))
    BY <1>4, <1>10, <1>12
  <2>4. QED
    BY <2>2, <2>3 DEF Grid!Suffixes
<1>14. new = l \/ Len(new) >= rows
  <2>1. CASE f = 1
    <3>1. m = n + 1 /\ \A k \in 1 .. m : new[k] = l[k]
      BY <1>4, <1>11, <2>1
    <3>2. new = l
      BY <1>1, <1>10, <3>1, SeqEqual
    <3>3. QED
      BY <3>2
  <2>2. CASE m >= rows
    BY <1>1, <2>2
  <2>3. QED
    BY <1>7, <2>1, <2>2
<1>15. new \in Grid!Kept(l)
  BY <1>13, <1>14 DEF Grid!Kept, rows
<1>16. QED
  BY <1>15 DEF new, l, old, b

(* The screen has room for one more line.                                  *)
LEMMA LineFits ==
  ASSUME fb \in Framebuffers, HasScreen, OnScreen(screen, tops, cursor_y), ~Full
  PROVE  /\ OnScreen(NextScreen, NextTops, NextTop)
         /\ TextOf(NextScreen, NextTops)
              \in Grid!Kept(Append(TextOf(screen, tops), Grid!BlankLine))
<1> DEFINE n == Len(tops)
           y == cursor_y + CHAR_H
           t == Append(tops, y)
<1>1. /\ n \in Nat /\ n > 0 /\ tops \in [1 .. n -> Nat]
      /\ cursor_y \in Nat /\ cursor_y = tops[n]
      /\ \A i \in 1 .. n : /\ tops[i] \in Nat /\ tops[i] <= cursor_y /\ tops[i] + GLYPH_H <= fb.h
                           /\ i # n => tops[i] + GLYPH_H <= cursor_y
  BY LinesAreWhole
<1>n. n = Len(tops) /\ tops \in Seq(Nat)
  BY DEF OnScreen
<1> HIDE DEF n
<1>2. /\ CHAR_H \in Nat /\ GLYPH_H \in Nat /\ fb.h \in Nat
      /\ 0 < GLYPH_H /\ GLYPH_H <= CHAR_H
  BY ScreenFacts
<1>3. NextTop = y /\ NextScreen = screen /\ NextTops = t
  BY DEF NextTop, NextScreen, NextTops
<1>4. y \in Nat /\ y + GLYPH_H <= fb.h
  BY <1>1, <1>2 DEF Full, Overflows
<1>5. /\ t \in Seq(Nat) /\ Len(t) = n + 1 /\ t[n + 1] = y
      /\ \A i \in 1 .. n : t[i] = tops[i]
  <2> HIDE DEF y
  <2>1. QED
    <3>1. /\ Append(tops, y) \in Seq(Nat)
          /\ Len(Append(tops, y)) = Len(tops) + 1
          /\ \A i \in 1 .. (Len(tops) + 1) :
               Append(tops, y)[i] = IF i <= Len(tops) THEN tops[i] ELSE y
      BY <1>4, <1>n, AppendProperties
    <3> HIDE DEF t
    <3>2. t \in Seq(Nat) /\ Len(t) = n + 1
          /\ \A i \in 1 .. (n + 1) : t[i] = IF i <= n THEN tops[i] ELSE y
      BY <3>1, <1>n DEF t
    <3>3. QED
      BY <3>2, <1>1
<1> HIDE DEF t
<1>6. OnScreen(screen, t, y)
  <2>1. Apart(t)
    <3>1. SUFFICES ASSUME NEW i \in 1 .. (n + 1), NEW j \in 1 .. (n + 1), i < j
                   PROVE  t[i] + GLYPH_H <= t[j]
      BY <1>5 DEF Apart
    <3>2. i \in 1 .. n
      BY <3>1, <1>1
    <3>3. CASE j = n + 1
      BY <3>2, <3>3, <1>1, <1>2, <1>5
    <3>4. CASE j \in 1 .. n
      BY <3>1, <3>2, <3>4, <1>5, <1>n DEF OnScreen, Apart
    <3>5. QED
      BY <3>3, <3>4, <1>1
  <2>2. \A i \in 1 .. (n + 1) : t[i] = (i - 1) * CHAR_H
    <3>1. cursor_y # fb.h - CHAR_H
      BY <1>1, <1>2, <1>4
    <3>2. \A i \in 1 .. n : tops[i] = (i - 1) * CHAR_H
      BY <3>1, <1>n DEF OnScreen, Standing
    <3>3. n - 1 \in Nat /\ (n - 1) + 1 = n /\ n \in 1 .. n
      BY <1>1
    <3>4. n * CHAR_H = (n - 1) * CHAR_H + CHAR_H
      BY <3>3, RowSteps
    <3>5. y = n * CHAR_H
      BY <3>2, <3>3, <3>4, <1>1
    <3> HIDE DEF y
    <3>6. t[n + 1] = ((n + 1) - 1) * CHAR_H
      BY <3>5, <1>1, <1>5
    <3>7. \A i \in 1 .. n : t[i] = (i - 1) * CHAR_H
      BY <3>2, <1>5
    <3>8. \A i \in 1 .. (n + 1) : i \in 1 .. n \/ i = n + 1
      BY <1>1
    <3>9. QED
      BY <3>6, <3>7, <3>8
  <2>3. \A r \in 0 .. (fb.h - 1), p \in 0 .. (fb.w - 1) : r >= y + GLYPH_H => screen[r][p] = BG
    <3>1. \A r \in 0 .. (fb.h - 1) : r >= y + GLYPH_H => r >= cursor_y + GLYPH_H
      BY <1>1, <1>2
    <3>2. QED
      BY <3>1 DEF OnScreen
  <2>4. Shape(screen)
    BY DEF OnScreen
  <2> HIDE DEF y
  <2>5. Len(t) > 0 /\ t[Len(t)] = y
    BY <1>1, <1>5
  <2>6. QED
    BY <2>1, <2>2, <2>3, <2>4, <2>5, <1>4, <1>5 DEF OnScreen, Standing
<1>7. TextOf(screen, t) \in Grid!Kept(Append(TextOf(screen, tops), Grid!BlankLine))
  <2>1. ASSUME NEW c \in 1 .. Columns PROVE Shown(screen, c, y) = Blank
    <3>1. \A r \in 0 .. (fb.h - 1) : r >= y => r >= cursor_y + GLYPH_H
      BY <1>1, <1>2
    <3>2. \A r \in 0 .. (fb.h - 1), p \in 0 .. (fb.w - 1) : r >= y => screen[r][p] = BG
      BY <3>1 DEF OnScreen
    <3> HIDE DEF y
    <3>3. QED
      BY <3>2, <1>4, BlankCell
  <2> HIDE DEF y
  <2>2. \A c \in 1 .. Columns : Shown(screen, c, t[Len(t)]) = Blank
    BY <2>1, <1>5
  <2>3. \A k \in 1 .. (Len(t) - 1) : t[k] = tops[1 + k - 1]
    BY <1>1, <1>5
  <2>4. \A k \in 1 .. (Len(t) - 1), c \in 1 .. Columns :
          Shown(screen, c, t[k]) = Shown(screen, c, tops[1 + k - 1])
    BY <2>3
  <2>5. Len(t) \in Nat /\ n \in Nat /\ Len(t) = n + 2 - 1 /\ 1 \in 1 .. (n + 1)
    BY <1>1, <1>5
  <2>6. QED
    BY <2>2, <2>4, <2>5, <1>n, LineEnters
<1>8. QED
  BY <1>3, <1>6, <1>7

(* On a full screen every line is placed, also one of the first page.      *)
LEMMA FullIsPlaced ==
  ASSUME fb \in Framebuffers, HasScreen, OnScreen(screen, tops, cursor_y), Full,
         NEW i \in 1 .. Len(tops)
  PROVE  Placed(tops, i)
<1> DEFINE n == Len(tops)
<1>1. n \in Nat /\ n > 0 /\ cursor_y = tops[n] /\ cursor_y \in Nat /\ i \in 1 .. n
  BY LinesAreWhole
<1> HIDE DEF n
<1>2. CHAR_H \in Nat /\ GLYPH_H \in Nat /\ fb.h \in Nat
  BY ScreenFacts
<1>3. CASE \A k \in 1 .. Len(tops) : tops[k] = (k - 1) * CHAR_H
  <2>1. tops[i] = (i - 1) * CHAR_H /\ cursor_y = (n - 1) * CHAR_H
    BY <1>1, <1>3 DEF n
  <2>2. i - 1 \in Nat /\ n - i + 1 \in Nat /\ n - 1 \in Nat
    BY <1>1
  <2>3. (n - 1) * CHAR_H + CHAR_H = (i - 1) * CHAR_H + (n - i + 1) * CHAR_H
    BY <1>1, <1>2
  <2>4. fb.h < cursor_y + CHAR_H + GLYPH_H
    BY <1>1, <1>2 DEF Full, Overflows
  <2>5. /\ (i - 1) * CHAR_H \in Nat /\ (n - i + 1) * CHAR_H \in Nat
        /\ (n - 1) * CHAR_H \in Nat
    BY <2>2, RowSteps
  <2>6. fb.h < tops[i] + (n - i + 1) * CHAR_H + GLYPH_H
    BY <2>1, <2>3, <2>4, <2>5, <1>2
  <2>7. OnRow(tops[i])
    BY <2>1, <2>2 DEF OnRow
  <2>8. QED
    BY <2>6, <2>7 DEF Placed, n
<1>4. QED
  BY <1>3 DEF OnScreen, Standing

(* A line that leaves was one too many.                                    *)
LEMMA LinesStay ==
  ASSUME fb \in Framebuffers, HasScreen, OnScreen(screen, tops, cursor_y), Full,
         FirstKept # 1
  PROVE  Len(tops) + 2 - FirstKept >= fb.h \div CHAR_H
<1> DEFINE n == Len(tops)
           f == FirstKept
           j == f - 1
           a == n - j + 1
<1>1. f \in 1 .. (n + 1) /\ (\A k \in 1 .. n : k >= f <=> tops[k] >= CHAR_H)
  BY FirstKeptIs
<1>2. n \in Nat /\ \A k \in 1 .. n : tops[k] \in Nat
  BY LinesAreWhole
<1>3. f # 1
  OBVIOUS
<1> HIDE DEF n, f
<1>4. CHAR_H \in Nat /\ GLYPH_H \in Nat /\ GLYPH_H <= CHAR_H /\ fb.h \in Nat
  BY ScreenFacts
<1>5. j \in 1 .. n /\ j < f /\ a \in Nat /\ n + 2 - f = a
  BY <1>1, <1>2, <1>3
<1>6. tops[j] \in Nat /\ tops[j] < CHAR_H
  BY <1>1, <1>2, <1>4, <1>5
<1>7. Placed(tops, j)
  BY <1>5, FullIsPlaced DEF n
<1>8. \/ tops[j] = fb.h - a * CHAR_H
      \/ OnRow(tops[j]) /\ fb.h < tops[j] + a * CHAR_H + GLYPH_H
  BY <1>7 DEF Placed, n
<1> HIDE DEF a, j
<1>9. a * CHAR_H \in Nat /\ (a + 1) * CHAR_H = a * CHAR_H + CHAR_H
  BY <1>5, RowSteps
<1>10. fb.h < (a + 1) * CHAR_H
  <2>1. CASE tops[j] = fb.h - a * CHAR_H
    BY <2>1, <1>4, <1>6, <1>9
  <2>2. CASE OnRow(tops[j]) /\ fb.h < tops[j] + a * CHAR_H + GLYPH_H
    <3>1. tops[j] = 0
      BY <2>2, <1>6, RowSteps
    <3>2. QED
      BY <2>2, <3>1, <1>4, <1>9
  <2>3. QED
    BY <1>8, <2>1, <2>2
<1>11. fb.h \div CHAR_H <= a
  BY <1>4, <1>5, <1>10, RowSteps
<1>12. fb.h \div CHAR_H \in Int
  BY <1>4, GlyphAssumption
<1>13. n + 2 - f >= fb.h \div CHAR_H
  BY <1>5, <1>11, <1>12
<1>14. QED
  BY <1>13 DEF n, f

(* The screen is full: it scrolls, and the line enters at the bottom.      *)
LEMMA LineScrolls ==
  ASSUME fb \in Framebuffers, HasScreen, OnScreen(screen, tops, cursor_y), Full
  PROVE  /\ OnScreen(NextScreen, NextTops, NextTop)
         /\ TextOf(NextScreen, NextTops)
              \in Grid!Kept(Append(TextOf(screen, tops), Grid!BlankLine))
<1> DEFINE n == Len(tops)
           f == FirstKept
           m == n + 2 - f
           top == fb.h - CHAR_H
           up == LinesUp
           t == Append(up, top)
           u == scroll(screen)
<1>1. /\ n \in Nat /\ n > 0 /\ tops \in [1 .. n -> Nat]
      /\ cursor_y \in Nat /\ cursor_y = tops[n] /\ cursor_y + GLYPH_H <= fb.h
      /\ \A i \in 1 .. n : /\ tops[i] \in Nat /\ tops[i] <= cursor_y /\ tops[i] + GLYPH_H <= fb.h
                           /\ i # n => tops[i] + GLYPH_H <= cursor_y
  BY LinesAreWhole
<1>2. /\ CHAR_H \in Nat /\ GLYPH_H \in Nat /\ fb.h \in Nat /\ fb.h > CHAR_H
      /\ 0 < GLYPH_H /\ GLYPH_H <= CHAR_H
  BY ScreenFacts
<1>3. f \in 1 .. (n + 1) /\ (\A k \in 1 .. n : k >= f <=> tops[k] >= CHAR_H)
  BY FirstKeptIs
<1>4. NextTop = top /\ NextScreen = u /\ NextTops = t
  BY DEF NextTop, NextScreen, NextTops
<1>5. top \in Nat /\ top + GLYPH_H <= fb.h /\ top + CHAR_H = fb.h
  BY <1>2
<1>6. up = [k \in 1 .. (n + 1 - f) |-> tops[f + k - 1] - CHAR_H]
  BY DEF LinesUp
<1>7. f = 1 \/ m >= fb.h \div CHAR_H
  BY LinesStay
<1>8. Shape(screen) /\ Apart(tops)
      /\ \A r \in 0 .. (fb.h - 1), p \in 0 .. (fb.w - 1) : r >= cursor_y + GLYPH_H => screen[r][p] = BG
  BY DEF OnScreen
<1>9. \A i, k \in 1 .. n : i < k => tops[i] + GLYPH_H <= tops[k]
  BY <1>8 DEF Apart
<1>10. \A i \in 1 .. n : \/ tops[i] = fb.h - (n - i + 1) * CHAR_H
                         \/ /\ OnRow(tops[i])
                            /\ fb.h < tops[i] + (n - i + 1) * CHAR_H + GLYPH_H
  BY FullIsPlaced DEF Placed
<1>11. cursor_y + CHAR_H + GLYPH_H > fb.h
  BY <1>1, <1>2 DEF Full, Overflows
<1>12. n = Len(tops) /\ f = FirstKept
  OBVIOUS
<1> HIDE DEF n, f, up
<1>13. m \in Nat /\ m > 0
  BY <1>1, <1>3
<1>14. \A k \in 1 .. (m - 1) : /\ f + k - 1 \in 1 .. n
                               /\ tops[f + k - 1] - CHAR_H \in Nat
  <2>1. SUFFICES ASSUME NEW k \in 1 .. (m - 1)
                 PROVE  f + k - 1 \in 1 .. n /\ tops[f + k - 1] - CHAR_H \in Nat
    OBVIOUS
  <2>2. f + k - 1 \in 1 .. n /\ f + k - 1 >= f
    BY <1>1, <1>3
  <2>3. tops[f + k - 1] \in Nat /\ tops[f + k - 1] >= CHAR_H
    BY <2>2, <1>1, <1>3
  <2>4. QED
    BY <2>2, <2>3, <1>2
<1>15. up \in Seq(Nat) /\ Len(up) = m - 1
       /\ \A k \in 1 .. (m - 1) : up[k] = tops[f + k - 1] - CHAR_H
  <2>1. n + 1 - f = m - 1 /\ m - 1 \in Nat
    BY <1>1, <1>3
  <2>2. up \in [1 .. (m - 1) -> Nat] /\ \A k \in 1 .. (m - 1) : up[k] = tops[f + k - 1] - CHAR_H
    BY <1>6, <1>14, <2>1
  <2> HIDE DEF m
  <2>3. QED
    BY <2>1, <2>2
<1>16. t \in Seq(Nat) /\ Len(t) = m /\ t[m] = top
       /\ \A k \in 1 .. (m - 1) : t[k] = tops[f + k - 1] - CHAR_H
  <2>1. /\ t \in Seq(Nat) /\ Len(t) = Len(up) + 1
        /\ \A k \in 1 .. Len(up) : t[k] = up[k]
        /\ t[Len(up) + 1] = top
    <3> HIDE DEF top
    <3>1. QED
      BY <1>5, <1>15, AppendProperties
  <2> HIDE DEF t, m, top
  <2>2. Len(up) + 1 = m
    BY <1>13, <1>15
  <2>3. QED
    BY <2>1, <2>2, <1>15
<1> HIDE DEF t, u
<1>17. \A k \in 1 .. m : k = m \/ k \in 1 .. (m - 1)
  BY <1>13
<1>18. Apart(t)
  <2>1. SUFFICES ASSUME NEW i \in 1 .. m, NEW k \in 1 .. m, i < k
                 PROVE  t[i] + GLYPH_H <= t[k]
    BY <1>16 DEF Apart
  <2>2. i \in 1 .. (m - 1)
    BY <2>1, <1>13
  <2>3. f + i - 1 \in 1 .. n /\ t[i] = tops[f + i - 1] - CHAR_H /\ tops[f + i - 1] \in Nat
    BY <2>2, <1>1, <1>14, <1>16
  <2>4. CASE k = m
    <3>1. tops[f + i - 1] <= cursor_y
      BY <2>3, <1>1
    <3>2. QED
      <4>1. PICK x \in Nat : x = tops[f + i - 1] /\ t[i] = x - CHAR_H /\ x <= cursor_y
        BY <2>3, <3>1
      <4>2. t[k] = fb.h - CHAR_H
        BY <2>4, <1>16
      <4>3. x - CHAR_H + GLYPH_H <= fb.h - CHAR_H
        <5>1. /\ cursor_y \in Nat /\ fb.h \in Nat /\ cursor_y + GLYPH_H <= fb.h
              /\ CHAR_H \in Nat /\ GLYPH_H \in Nat
          BY <1>1, <1>2
        <5>2. QED
          BY <4>1, <5>1
      <4>4. QED
        BY <4>1, <4>2, <4>3
  <2>5. CASE k \in 1 .. (m - 1)
    <3>1. f + k - 1 \in 1 .. n /\ t[k] = tops[f + k - 1] - CHAR_H /\ tops[f + k - 1] \in Nat
      BY <2>5, <1>1, <1>14, <1>16
    <3>2. f + i - 1 < f + k - 1
      BY <2>1, <1>3, <1>13
    <3>3. tops[f + i - 1] + GLYPH_H <= tops[f + k - 1]
      BY <2>3, <3>1, <3>2, <1>9
    <3>4. QED
      BY <2>3, <3>1, <3>3, <1>2
  <2>6. QED
    BY <2>4, <2>5, <1>17
<1>19. \A i \in 1 .. m : Placed(t, i)
  <2>1. SUFFICES ASSUME NEW i \in 1 .. m PROVE Placed(t, i)
    OBVIOUS
  <2>2. CASE i = m
    <3>1. (m - i + 1) * CHAR_H = CHAR_H
      BY <2>2, <1>2, <1>13
    <3>2. t[i] = fb.h - (Len(t) - i + 1) * CHAR_H
      BY <2>2, <3>1, <1>16
    <3>3. QED
      BY <3>2 DEF Placed
  <2>3. CASE i \in 1 .. (m - 1)
    <3> DEFINE j == f + i - 1
               a == n - j + 1
    <3>1. j \in 1 .. n /\ t[i] = tops[j] - CHAR_H /\ tops[j] \in Nat /\ tops[j] >= CHAR_H
      <4>1. j \in 1 .. n /\ j >= f
        BY <2>3, <1>1, <1>3
      <4>2. QED
        BY <2>3, <4>1, <1>1, <1>3, <1>16
    <3>2. a \in Nat /\ m - i + 1 = a + 1
      BY <3>1, <1>1, <1>3
    <3>3. \/ tops[j] = fb.h - a * CHAR_H
          \/ OnRow(tops[j]) /\ fb.h < tops[j] + a * CHAR_H + GLYPH_H
      BY <3>1, <1>10
    <3> HIDE DEF a, j
    <3>4. a * CHAR_H \in Nat /\ (a + 1) * CHAR_H = a * CHAR_H + CHAR_H
      BY <3>2, RowSteps
    <3>5. Len(t) - i + 1 = a + 1
      BY <3>2, <1>16
    <3>6. CASE tops[j] = fb.h - a * CHAR_H
      <4>1. t[i] = fb.h - (a + 1) * CHAR_H
        BY <3>1, <3>4, <3>6, <1>2
      <4>2. QED
        BY <4>1, <3>5 DEF Placed
    <3>7. CASE OnRow(tops[j]) /\ fb.h < tops[j] + a * CHAR_H + GLYPH_H
      <4>1. OnRow(t[i])
        BY <3>1, <3>7, RowSteps
      <4>2. fb.h < t[i] + (a + 1) * CHAR_H + GLYPH_H
        BY <3>1, <3>4, <3>7, <1>2
      <4>3. QED
        BY <4>1, <4>2, <3>5 DEF Placed
    <3>8. QED
      BY <3>3, <3>6, <3>7
  <2>4. QED
    BY <2>2, <2>3, <1>17
<1>20. Shape(u)
  <2>1. DOMAIN u = DOMAIN screen
    BY <1>2 DEF u, scroll
  <2>2. ASSUME NEW r \in 0 .. (fb.h - 1) PROVE DOMAIN u[r] = 0 .. (fb.w - 1)
    <3>1. r \in DOMAIN screen /\ DOMAIN screen[r] = 0 .. (fb.w - 1)
      BY <1>8 DEF Shape
    <3>2. u[r] = IF r + CHAR_H < fb.h THEN screen[r + CHAR_H] ELSE [x \in DOMAIN screen[r] |-> BG]
      BY <3>1, <1>2 DEF u, scroll
    <3>3. CASE r + CHAR_H < fb.h
      <4>1. r + CHAR_H \in 0 .. (fb.h - 1)
        BY <3>3, <1>2
      <4>2. QED
        BY <3>2, <3>3, <4>1, <1>8 DEF Shape
    <3>4. CASE ~(r + CHAR_H < fb.h)
      BY <3>1, <3>2, <3>4
    <3>5. QED
      BY <3>3, <3>4
  <2>3. QED
    BY <2>1, <2>2, <1>8 DEF Shape
<1>21. \A r \in 0 .. (fb.h - 1), p \in 0 .. (fb.w - 1) : r >= top => u[r][p] = BG
  <2>1. SUFFICES ASSUME NEW r \in 0 .. (fb.h - 1), NEW p \in 0 .. (fb.w - 1), r >= top
                 PROVE  u[r][p] = BG
    OBVIOUS
  <2>2. ~(r + CHAR_H < fb.h)
    BY <2>1, <1>2
  <2>3. r \in DOMAIN screen /\ p \in DOMAIN screen[r]
    BY <1>8 DEF Shape
  <2>4. QED
    BY <2>2, <2>3, <1>2 DEF u, scroll
<1> HIDE DEF top
<1>22. OnScreen(u, t, top)
  <2>1. \A r \in 0 .. (fb.h - 1), p \in 0 .. (fb.w - 1) : r >= top + GLYPH_H => u[r][p] = BG
    <3>1. \A r \in 0 .. (fb.h - 1) : r >= top + GLYPH_H => r >= top
      BY <1>2, <1>5
    <3>2. QED
      BY <3>1, <1>21
  <2>2. Standing(t, top)
    BY <1>16, <1>19 DEF Standing, top
  <2> HIDE DEF m
  <2>3. t \in Seq(Nat) /\ Len(t) > 0 /\ t[Len(t)] = top
    BY <1>13, <1>16
  <2>4. QED
    BY <2>1, <2>2, <2>3, <1>5, <1>18, <1>20 DEF OnScreen
<1>23. TextOf(u, t) \in Grid!Kept(Append(TextOf(screen, tops), Grid!BlankLine))
  <2>1. \A c \in 1 .. Columns : Shown(u, c, t[Len(t)]) = Blank
    BY <1>5, <1>16, <1>21, BlankCell
  <2>2. ASSUME NEW k \in 1 .. (m - 1), NEW c \in 1 .. Columns
        PROVE  Shown(u, c, t[k]) = Shown(screen, c, tops[f + k - 1])
    <3> DEFINE z == tops[f + k - 1]
               y == t[k]
    <3>1. z \in Nat /\ z + GLYPH_H <= fb.h /\ y = z - CHAR_H /\ y \in Nat
      BY <1>1, <1>14, <1>16
    <3> HIDE DEF z, y
    <3>2. y + CHAR_H = z /\ y + CHAR_H + GLYPH_H <= fb.h
      BY <3>1, <1>2
    <3>3. Cell(u, c, y) = Cell(screen, c, y + CHAR_H)
      BY <3>1, <3>2, <1>8, ScrolledCell DEF u
    <3>4. Shown(u, c, y) = Shown(screen, c, z)
      BY <3>2, <3>3, SameCell
    <3>5. QED
      BY <3>4 DEF y, z
  <2>3. Len(t) = Len(tops) + 2 - f /\ f \in 1 .. (Len(tops) + 1)
    BY <1>3, <1>12, <1>16
  <2>4. Len(tops) \in Nat /\ Len(t) \in Nat
    BY <1>1, <1>13, <1>12, <1>16
  <2>5. f = 1 \/ Len(t) >= fb.h \div CHAR_H
    BY <1>7, <1>16
  <2>6. \A k \in 1 .. (Len(t) - 1), c \in 1 .. Columns :
          Shown(u, c, t[k]) = Shown(screen, c, tops[f + k - 1])
    BY <2>2, <1>16
  <2>7. QED
    BY <2>1, <2>3, <2>4, <2>5, <2>6, LineEnters
<1>24. QED
  BY <1>4, <1>22, <1>23

LEMMA LineAdded ==
  ASSUME fb \in Framebuffers, HasScreen, OnScreen(screen, tops, cursor_y)
  PROVE  /\ OnScreen(NextScreen, NextTops, NextTop)
         /\ TextOf(NextScreen, NextTops)
              \in Grid!Kept(Append(TextOf(screen, tops), Grid!BlankLine))
  BY LineFits, LineScrolls

-----------------------------------------------------------------------------
(* The steps of the terminal are steps of the grid.                        *)

(* A screen that shows nothing                                             *)
LEMMA ClearedScreen ==
  ASSUME fb \in Framebuffers, HasScreen
  PROVE  /\ OnScreen(Filled(BG), << 0 >>, 0)
         /\ TextOf(Filled(BG), << 0 >>) = << Grid!BlankLine >>
<1> DEFINE s == Filled(BG)
           t == << 0 >>
<1>1. CHAR_H \in Nat /\ GLYPH_H \in Nat /\ GLYPH_H <= CHAR_H /\ fb.h \in Nat /\ fb.h > CHAR_H
  BY ScreenFacts
<1>2. t \in Seq(Nat) /\ Len(t) = 1 /\ t[1] = 0
  OBVIOUS
<1>3. \A r \in 0 .. (fb.h - 1), p \in 0 .. (fb.w - 1) : s[r][p] = BG
  BY DEF Filled
<1>4. Shape(s)
  BY DEF Filled, Shape
<1> HIDE DEF s, t
<1>5. 0 \in Nat /\ 0 + GLYPH_H <= fb.h
  BY <1>1
<1>6. \A c \in 1 .. Columns : Shown(s, c, 0) = Blank
  BY <1>3, <1>5, BlankCell
<1>7. Apart(t)
  <2>1. \A i, j \in 1 .. 1 : ~(i < j)
    OBVIOUS
  <2>2. QED
    BY <2>1, <1>2 DEF Apart
<1>8. Standing(t, 0)
  <2>1. \A i \in 1 .. 1 : t[i] = (i - 1) * CHAR_H
    BY <1>1, <1>2
  <2>2. QED
    BY <2>1, <1>2 DEF Standing
<1>9. OnScreen(s, t, 0)
  BY <1>2, <1>3, <1>4, <1>5, <1>7, <1>8 DEF OnScreen
<1>10. TextOf(s, t) = << Grid!BlankLine >>
  <2>1. [c \in 1 .. Columns |-> Shown(s, c, t[1])] = Grid!BlankLine
    BY <1>2, <1>6 DEF Grid!BlankLine
  <2>2. TextOf(s, t) = [k \in 1 .. 1 |-> [c \in 1 .. Columns |-> Shown(s, c, t[k])]]
    BY <1>2 DEF TextOf
  <2> DEFINE b == Grid!BlankLine
  <2>3. TextOf(s, t)[1] = b
    BY <2>1, <2>2
  <2>4. TextOf(s, t) \in Seq(TextLine) /\ Len(TextOf(s, t)) = 1
    BY <1>2, TextType
  <2> DEFINE a == TextOf(s, t)
  <2> HIDE DEF a, b
  <2>5. a \in Seq(TextLine) /\ Len(a) = 1 /\ a[1] = b
    BY <2>3, <2>4 DEF a
  <2>6. a = << b >>
    BY <2>5
  <2>7. QED
    BY <2>6 DEF a, b
<1>11. QED
  BY <1>9, <1>10 DEF s, t

(* What the grid shows of a screen that is in use                          *)
LEMMA ShowsText ==
  ASSUME ready, OnScreen(screen, tops, cursor_y)
  PROVE  LinesShown = TextOf(screen, tops)
<1>1. DOMAIN tops = 1 .. Len(tops)
  BY DEF OnScreen
<1>2. QED
  BY <1>1 DEF LinesShown, TextOf

LEMMA TurnsInto ==
  ASSUME fb' = fb, ready', NEW s, NEW t, NEW y, OnScreen(s, t, y),
         screen' = s, tops' = t, cursor_y' = y
  PROVE  /\ OnScreen(screen, tops, cursor_y)'
         /\ LinesShown' = TextOf(s, t)
<1>1. OnScreen(screen, tops, cursor_y)'
  BY DEF OnScreen, Shape, Apart, Standing, Placed, OnRow
<1>2. Columns' = Columns
  BY DEF Columns, HasScreen
<1>3. DOMAIN tops' = 1 .. Len(t)
  BY DEF OnScreen
<1>4. LinesShown' = [k \in 1 .. Len(t) |-> [c \in 1 .. Columns |-> Shown(s, c, t[k])]]
  BY <1>2, <1>3 DEF LinesShown, Shown, Cell
<1>5. QED
  BY <1>1, <1>4 DEF TextOf

LEMMA InitImplements == Init => GridInv /\ Grid!Init
<1>1. SUFFICES ASSUME Init PROVE GridInv /\ Grid!Init
  OBVIOUS
<1>2. fb \in Framebuffers /\ cursor_x = 0 /\ ready = FALSE /\ tops = << 0 >>
  BY <1>1 DEF Init
<1>3. GridInv
  BY <1>1, <1>2, InitIInv DEF GridInv
<1>4. /\ fb.w \in Nat /\ fb.h \in Nat /\ CHAR_W \in Nat /\ CHAR_W > 0
      /\ CHAR_H \in Nat /\ CHAR_H > 0 /\ GLYPH_W \in Nat
      /\ HasScreen => fb.w >= GLYPH_W
  BY <1>2, ScreenFacts
<1>5. fb.h \div CHAR_H \in Nat
  BY <1>4
<1>6. Columns \in Nat
  BY <1>4 DEF Columns
<1>7. LinesShown = << Grid!BlankLine >>
  <2> DEFINE b == Grid!BlankLine
  <2>1. DOMAIN tops = 1 .. 1
    BY <1>2
  <2>2. LinesShown = [k \in 1 .. 1 |-> b]
    BY <1>2, <2>1 DEF LinesShown, Grid!BlankLine
  <2> HIDE DEF b
  <2>3. [k \in 1 .. 1 |-> b] = << b >>
    OBVIOUS
  <2>4. QED
    BY <2>2, <2>3 DEF b
<1>8. cursor_x \div CHAR_W = 0
  BY <1>2, <1>4
<1>9. QED
  BY <1>3, <1>5, <1>6, <1>7, <1>8 DEF Grid!Init

LEMMA PutImplements ==
  ASSUME GridInv, ready, HasScreen, fb' = fb, ready' = ready,
         NEW ch \in Glyphs, PutGlyph(ch)
  PROVE  OnScreen(screen, tops, cursor_y)' /\ Grid!Put(ch)
<1>1. fb \in Framebuffers /\ OnScreen(screen, tops, cursor_y) /\ cursor_x \in Nat
  BY DEF GridInv, IInv
<1>2. PICK k \in Nat : cursor_x = k * CHAR_W
  BY DEF GridInv, IInv, CursorInPlace, OnColumn
<1>3. /\ cursor_x \div CHAR_W = k /\ (Wraps(cursor_x) <=> k >= Columns)
      /\ Columns \in Nat /\ Columns > 0
  BY <1>1, <1>2, CursorColumn
<1>4. CHAR_W \in Nat /\ CHAR_W > 0
  BY GlyphAssumption
<1>5. LinesShown = TextOf(screen, tops)
  BY <1>1, ShowsText
<1>6. CASE ~Wraps(cursor_x)
  <2> DEFINE c == k + 1
             s == Drawn(screen, (c - 1) * CHAR_W, cursor_y, ch)
  <2>1. c \in 1 .. Columns /\ c - 1 = k
    BY <1>3, <1>6
  <2>2. ~Overflows(cursor_y)
    <3>1. cursor_y \in Nat /\ cursor_y + GLYPH_H <= fb.h
      BY <1>1, LinesAreWhole
    <3>2. QED
      BY <3>1, <1>1, ScreenFacts DEF Overflows
  <2>3. screen' = s /\ cursor_x' = cursor_x + CHAR_W /\ cursor_y' = cursor_y /\ tops' = tops
    BY <1>2, <1>6, <2>1, <2>2 DEF PutGlyph, Draw
  <2>4. OnScreen(s, tops, cursor_y) /\ TextOf(s, tops) = Grid!Write(TextOf(screen, tops), c, ch)
    BY <1>1, <2>1, CharIsWritten
  <2> HIDE DEF s
  <2>5. OnScreen(screen, tops, cursor_y)' /\ LinesShown' = TextOf(s, tops)
    BY <2>3, <2>4, TurnsInto
  <2>6. cursor_x' = (k + 1) * CHAR_W
    BY <1>2, <1>4, <2>3
  <2>7. cursor_x' \div CHAR_W = k + 1
    BY <2>6, <1>1, CursorColumn
  <2>8. k < Columns
    BY <1>3, <1>6
  <2>9. QED
    BY <1>3, <1>5, <2>4, <2>5, <2>7, <2>8 DEF Grid!Put
<1>7. CASE Wraps(cursor_x)
  <2> DEFINE s == Drawn(NextScreen, (1 - 1) * CHAR_W, NextTop, ch)
  <2>1. (1 - 1) * CHAR_W = 0
    BY <1>4
  <2>2. /\ screen' = Drawn(NextScreen, 0, NextTop, ch) /\ cursor_x' = 0 + CHAR_W
        /\ cursor_y' = NextTop /\ tops' = NextTops
    BY <1>7 DEF PutGlyph, Draw, NextScreen, NextTop, NextTops, Full
  <2>3. screen' = s
    BY <2>1, <2>2
  <2>4. /\ OnScreen(NextScreen, NextTops, NextTop)
        /\ TextOf(NextScreen, NextTops)
             \in Grid!Kept(Append(TextOf(screen, tops), Grid!BlankLine))
    BY <1>1, LineAdded
  <2>5. 1 \in 1 .. Columns
    BY <1>3
  <2>6. /\ OnScreen(s, NextTops, NextTop)
        /\ TextOf(s, NextTops) = Grid!Write(TextOf(NextScreen, NextTops), 1, ch)
    BY <1>1, <2>4, <2>5, CharIsWritten
  <2> HIDE DEF s
  <2>7. OnScreen(screen, tops, cursor_y)' /\ LinesShown' = TextOf(s, NextTops)
    BY <2>2, <2>3, <2>6, TurnsInto
  <2>8. cursor_x' = 1 * CHAR_W
    BY <1>4, <2>2
  <2>9. cursor_x' \div CHAR_W = 1
    BY <2>8, <1>1, CursorColumn
  <2>10. ~(k < Columns)
    BY <1>3, <1>7
  <2>11. QED
    BY <1>3, <1>5, <2>4, <2>6, <2>7, <2>9, <2>10 DEF Grid!Put
<1>8. QED
  BY <1>6, <1>7

LEMMA PutcharImplements ==
  ASSUME GridInv, terminal_putchar
  PROVE  /\ OnScreen(screen, tops, cursor_y)'
         /\ \/ \E ch \in Char \cup {Blank} : Grid!Put(ch)
            \/ Grid!Newline
            \/ Grid!Return
            \/ Grid!Erase
<1>1. ready /\ HasScreen /\ fb' = fb /\ ready' = ready
  BY DEF terminal_putchar
<1>2. fb \in Framebuffers /\ OnScreen(screen, tops, cursor_y) /\ cursor_x \in Nat
  BY <1>1 DEF GridInv, IInv
<1>3. PICK k \in Nat : cursor_x = k * CHAR_W
  BY DEF GridInv, IInv, CursorInPlace, OnColumn
<1>4. /\ cursor_x \div CHAR_W = k /\ (Wraps(cursor_x) <=> k >= Columns)
      /\ Columns \in Nat /\ Columns > 0
  BY <1>1, <1>2, <1>3, CursorColumn
<1>5. CHAR_W \in Nat /\ CHAR_W > 0
  BY GlyphAssumption
<1>6. LinesShown = TextOf(screen, tops)
  BY <1>1, <1>2, ShowsText
<1>7. 0 = 0 * CHAR_W /\ 0 \div CHAR_W = 0
  BY <1>5
<1>8. CASE CarriageReturn
  <2>1. cursor_x' = 0 /\ cursor_y' = cursor_y /\ screen' = screen /\ tops' = tops
    BY <1>8 DEF CarriageReturn
  <2>2. OnScreen(screen, tops, cursor_y)' /\ LinesShown' = TextOf(screen, tops)
    BY <1>1, <1>2, <2>1, TurnsInto
  <2>3. Grid!Return
    BY <1>6, <1>7, <2>1, <2>2 DEF Grid!Return
  <2>4. QED
    BY <2>2, <2>3
<1>9. CASE LineFeed
  <2>1. cursor_x' = 0 /\ cursor_y' = NextTop /\ screen' = NextScreen /\ tops' = NextTops
    BY <1>9 DEF LineFeed, NextTop, NextScreen, NextTops, Full
  <2>2. /\ OnScreen(NextScreen, NextTops, NextTop)
        /\ TextOf(NextScreen, NextTops)
             \in Grid!Kept(Append(TextOf(screen, tops), Grid!BlankLine))
    BY <1>1, <1>2, LineAdded
  <2>3. OnScreen(screen, tops, cursor_y)' /\ LinesShown' = TextOf(NextScreen, NextTops)
    BY <1>1, <2>1, <2>2, TurnsInto
  <2>4. Grid!Newline
    BY <1>6, <1>7, <2>1, <2>2, <2>3 DEF Grid!Newline
  <2>5. QED
    BY <2>3, <2>4
<1>10. CASE Backspace
  <2> DEFINE b == IF k > 0 THEN k - 1 ELSE 0
             c == b + 1
             s == Drawn(screen, (c - 1) * CHAR_W, cursor_y, Blank)
  <2>1. b \in Nat /\ b * CHAR_W = Back(cursor_x)
    <3>1. CASE k = 0
      BY <3>1, <1>3, <1>5, <1>7 DEF Back
    <3>2. CASE k > 0
      <4>1. k - 1 \in Nat /\ (k - 1) * CHAR_W \in Nat /\ cursor_x = (k - 1) * CHAR_W + CHAR_W
        BY <3>2, <1>3, <1>5
      <4>2. Back(cursor_x) = (k - 1) * CHAR_W
        BY <4>1, <1>5 DEF Back
      <4>3. QED
        BY <3>2, <4>1, <4>2
    <3>3. QED
      BY <3>1, <3>2
  <2>2. c \in 1 .. Columns
    <3>1. CASE k = 0
      BY <3>1, <1>4
    <3>2. CASE k > 0
      <4>1. cursor_x > 0 /\ cursor_x - CHAR_W = (k - 1) * CHAR_W
            /\ k - 1 \in Nat /\ (k - 1) * CHAR_W \in Nat
        BY <3>2, <1>3, <1>5
      <4>2. cursor_x - CHAR_W + GLYPH_W <= fb.w
        BY <4>1, <1>1 DEF GridInv, IInv, CursorInPlace
      <4>3. ~Wraps((k - 1) * CHAR_W)
        BY <4>1, <4>2, <1>2, ScreenFacts DEF Wraps
      <4>4. ~(k - 1 >= Columns)
        BY <4>1, <4>3, <1>1, <1>2, CursorColumn
      <4>5. QED
        BY <3>2, <4>4, <1>4
    <3>3. QED
      BY <3>1, <3>2
  <2> HIDE DEF b
  <2>3. c - 1 = b
    BY <2>1
  <2>4. cursor_x' = b * CHAR_W /\ screen' = s /\ cursor_y' = cursor_y /\ tops' = tops
    BY <1>10, <2>1, <2>3 DEF Backspace, Draw
  <2>5. OnScreen(s, tops, cursor_y) /\ TextOf(s, tops) = Grid!Write(TextOf(screen, tops), c, Blank)
    BY <1>1, <1>2, <2>2, CharIsWritten DEF Glyphs
  <2> HIDE DEF s
  <2>6. OnScreen(screen, tops, cursor_y)' /\ LinesShown' = TextOf(s, tops)
    BY <1>1, <2>4, <2>5, TurnsInto
  <2>7. cursor_x' \div CHAR_W = b
    BY <2>1, <2>4, <1>1, <1>2, CursorColumn
  <2>8. b = IF k > 0 THEN k - 1 ELSE 0
    BY DEF b
  <2>9. Grid!Erase
    BY <1>4, <1>6, <2>5, <2>6, <2>7, <2>8 DEF Grid!Erase
  <2>10. QED
    BY <2>6, <2>9
<1>11. CASE \E ch \in Char \cup {Blank} : PutGlyph(ch)
  <2>1. PICK ch \in Glyphs : PutGlyph(ch)
    BY <1>11 DEF Glyphs
  <2>2. OnScreen(screen, tops, cursor_y)' /\ Grid!Put(ch)
    BY <1>1, <2>1, PutImplements
  <2>3. QED
    BY <2>2 DEF Glyphs
<1>12. QED
  BY <1>8, <1>9, <1>10, <1>11 DEF terminal_putchar

LEMMA ClearImplements ==
  ASSUME GridInv, terminal_init \/ terminal_clear
  PROVE  /\ HasScreen => OnScreen(screen, tops, cursor_y)'
         /\ Grid!Clear
<1>1. fb \in Framebuffers /\ fb' = fb
  BY DEF GridInv, IInv, terminal_init, terminal_clear
<1>2. /\ ready' /\ tops' = << 0 >> /\ cursor_y' = 0 /\ cursor_x' = 0
      /\ HasScreen => screen' = Filled(BG)
  BY DEF GridInv, terminal_init, terminal_clear
<1>3. cursor_x' \div CHAR_W = 0
  BY <1>2, GlyphAssumption
<1>4. CASE HasScreen
  <2> DEFINE s == Filled(BG)
             t == << 0 >>
  <2>1. OnScreen(s, t, 0) /\ TextOf(s, t) = << Grid!BlankLine >>
    BY <1>1, <1>4, ClearedScreen
  <2>2. screen' = s /\ tops' = t /\ cursor_y' = 0
    BY <1>2, <1>4
  <2> HIDE DEF s, t
  <2>3. OnScreen(screen, tops, cursor_y)' /\ LinesShown' = TextOf(s, t)
    BY <1>1, <1>2, <2>1, <2>2, TurnsInto
  <2>4. QED
    BY <1>3, <2>1, <2>3 DEF Grid!Clear
<1>5. CASE ~HasScreen
  <2>1. Columns = 0 /\ Columns' = 0
    BY <1>1, <1>5 DEF Columns, HasScreen
  <2>2. LinesShown' = << Grid!BlankLine >>
    BY <1>2, <2>1 DEF LinesShown, Grid!BlankLine
  <2>3. QED
    BY <1>3, <1>5, <2>2 DEF Grid!Clear
<1>6. QED
  BY <1>4, <1>5

LEMMA NextImplements ==
  GridInv /\ [Next]_vars => GridInv' /\ [Grid!Next]_(Grid!gridVars)
<1>1. SUFFICES ASSUME GridInv, [Next]_vars
               PROVE  GridInv' /\ [Grid!Next]_(Grid!gridVars)
  OBVIOUS
<1>2. IInv' /\ ready \in BOOLEAN
  BY <1>1, NextIInv DEF GridInv
<1>3. CASE Next
  <2>1. fb' = fb
    BY <1>3 DEF Next, terminal_init, terminal_clear, terminal_putchar
  <2>2. HasScreen' <=> HasScreen
    BY <2>1 DEF HasScreen
  <2>3. fb.h \div CHAR_H = (fb.h \div CHAR_H)' /\ Columns' = Columns
    BY <2>1 DEF Columns, HasScreen
  <2>4. CASE terminal_init \/ terminal_clear
    <3>1. (HasScreen => OnScreen(screen, tops, cursor_y)') /\ Grid!Clear
      BY <1>1, <2>4, ClearImplements
    <3>2. ready' = TRUE
      BY <2>4, <1>2 DEF terminal_init, terminal_clear
    <3>3. GridInv'
      BY <1>2, <2>2, <3>1, <3>2 DEF GridInv
    <3>4. QED
      BY <2>3, <3>1, <3>3 DEF Grid!Next
  <2>5. CASE terminal_putchar
    <3>1. /\ OnScreen(screen, tops, cursor_y)'
          /\ \/ \E ch \in Char \cup {Blank} : Grid!Put(ch)
             \/ Grid!Newline
             \/ Grid!Return
             \/ Grid!Erase
      BY <1>1, <2>5, PutcharImplements
    <3>2. ready' = TRUE
      BY <2>5, <1>2 DEF terminal_putchar
    <3>3. GridInv'
      BY <1>2, <3>1, <3>2 DEF GridInv
    <3>4. QED
      BY <2>3, <3>1, <3>3 DEF Grid!Next
  <2>6. QED
    BY <1>3, <2>4, <2>5 DEF Next
<1>4. CASE UNCHANGED vars
  <2>1. GridInv'
    BY <1>1, <1>2, <1>4
       DEF vars, GridInv, OnScreen, Shape, Apart, Standing, Placed, OnRow, HasScreen
  <2>2. UNCHANGED Grid!gridVars
    BY <1>4 DEF vars, Grid!gridVars, LinesShown, Columns, HasScreen, Shown, Cell
  <2>3. QED
    BY <2>1, <2>2
<1>5. QED
  BY <1>1, <1>3, <1>4

(* The terminal is a grid of characters: for every size of screen and of   *)
(* character cell, what terminal_putchar() leaves in the framebuffer reads *)
(* as the text of a grid whose oldest lines scroll away, through wrapping, *)
(* erasing, overwriting, clearing and scrolling.                           *)
THEOREM TerminalImplementsTextGrid == Spec => ImplementsTextGrid
  BY InitImplements, NextImplements, PTL DEF Spec, Grid!Spec, ImplementsTextGrid

=============================================================================
