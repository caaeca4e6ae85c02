----------------------------- MODULE MCTerminal -----------------------------
(* Glyphs of 2 x 2 pixels in cells of 3 x 3: screens of one or two columns    *)
(* and two to three lines, with every remainder of height and width.       *)
EXTENDS Terminal

MCFramebuffers == {[w |-> 0, h |-> 0]} \cup [w : {4, 5, 6}, h : {4, 6, 7, 8}]

=============================================================================
