------------------------------- MODULE Screen -------------------------------
(***************************************************************************)
(* The characters a key can stand for and the cursor of the text screen,   *)
(* src/src/text/framebuffer.c.  framebuffer_state is one number, the       *)
(* position row * WIDTH + column: what increment and its newline do to the *)
(* two coordinates is + 1 and the start of the next row.  The cells are    *)
(* left out, except the last drawing of the line being edited (Terminal).  *)
(***************************************************************************)
EXTENDS Integers, SequencesExt

CONSTANTS WIDTH,    \* columns of the screen (80)
          HEIGHT    \* rows of the screen (25)

ASSUME ScreenAssumption == WIDTH \in Nat \ {0} /\ HEIGHT \in Nat \ {0}

\* A character is a key with the state of shift it was typed in.
NUL == <<"", FALSE>>
Newline == <<"enter", FALSE>>
Backspace == <<"backspace", FALSE>>
LEFT_ARROW == <<"left", FALSE>>
RIGHT_ARROW == <<"right", FALSE>>
Glyph == <<"glyph", FALSE>>     \* any character a program prints

VARIABLE framebuffer_state

Row(position) == position \div WIDTH
NextRow(position) == (Row(position) + 1) * WIDTH

Advance(position, c) == IF c = Newline THEN NextRow(position) ELSE position + 1

\* Where the cursor is after a whole text.
After(position, text) == FoldLeft(Advance, position, text)

kernel_put_char(c) == framebuffer_state' = Advance(framebuffer_state, c)

framebuffer_set_cursor(position) == framebuffer_state' = position
=============================================================================
