------------------------------ MODULE TextGrid ------------------------------
(***************************************************************************)
(* What the terminal promises to the code that writes text: a grid of      *)
(* characters with a cursor, whose oldest lines scroll away.  A line that  *)
(* is full is left only when the next character comes.                     *)
(***************************************************************************)
EXTENDS Integers, Sequences, SequencesExt

CONSTANTS Char, Blank

VARIABLES
  rows, cols,   \* the size of the grid, fixed when the kernel boots
  lines,        \* lines on the screen, the last one holds the cursor
  col           \* column of the cursor

gridVars == <<rows, cols, lines, col>>

BlankLine == [k \in 1 .. cols |-> Blank]

Init ==
  /\ rows \in Nat
  /\ cols \in Nat
  /\ lines = << BlankLine >>
  /\ col = 0

Write(l, k, ch) == [l EXCEPT ![Len(l)] = ReplaceAt(Last(l), k, ch)]

(* Lines may scroll away at the top, but as many as the grid has rows stay.*)
Kept(l) == {k \in Suffixes(l) : k = l \/ Len(k) >= rows} \ {<< >>}

Put(ch) ==
  IF col < cols
    THEN lines' = Write(lines, col + 1, ch) /\ col' = col + 1
    ELSE /\ \E kept \in Kept(Append(lines, BlankLine)) : lines' = Write(kept, 1, ch)
         /\ col' = 1

Newline ==
  /\ lines' \in Kept(Append(lines, BlankLine))
  /\ col' = 0

Return == col' = 0 /\ UNCHANGED lines

Erase ==
  /\ cols > 0
  /\ col' = IF col > 0 THEN col - 1 ELSE 0
  /\ lines' = Write(lines, col' + 1, Blank)

Clear == lines' = << BlankLine >> /\ col' = 0

Next ==
  /\ \/ \E ch \in Char : Put(ch)
     \/ Newline
     \/ Return
     \/ Erase
     \/ Clear
  /\ UNCHANGED <<rows, cols>>

Spec == Init /\ [][Next]_gridVars

=============================================================================
