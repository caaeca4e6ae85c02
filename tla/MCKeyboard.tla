----------------------------- MODULE MCKeyboard -----------------------------
(* A small instance of Keyboard.  The maps are the driver's, restricted to *)
(* the keys Escape, Backspace, Enter, Ctrl and A.                          *)
EXTENDS Keyboard, TLC

MCMap == 1 :> 27 @@ 14 :> BACKSPACE @@ 28 :> NEWLINE @@ 29 :> 0 @@ 30 :> 97
MCMapShift == 1 :> 27 @@ 14 :> BACKSPACE @@ 28 :> NEWLINE @@ 29 :> 0 @@ 30 :> 65

(* All the handler's cases: both modifiers, press and release, a key       *)
(* without a character (Ctrl), one outside the map (F12), one the line     *)
(* editor ignores (Escape).                                                *)
MCAllKeys == {1, 14, 28, 29, 30, 42, 58, 88, 30 + RELEASE, 42 + RELEASE}
=============================================================================
