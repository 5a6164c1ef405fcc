----------------------------- MODULE MCTerminal -----------------------------
(***************************************************************************)
(* Terminal for TLC: the view that identifies states no step tells apart.  *)
(*                                                                         *)
(* Without symbol keys the handler reads shift and caps lock only as their *)
(* exclusive or, and every value of it can be reached from every state of  *)
(* the two.  A history of keys in order is the command buffer              *)
(* (KeysInOrder); of one out of order only the length is ever read, by the *)
(* bound on the keys of a line.  While a line is being redrawn nothing     *)
(* reads the cursor or the last drawing before they are set, and the first *)
(* byte of temp is overwritten before it is read again.                    *)
(***************************************************************************)
EXTENDS Terminal

PressedView == IF KeysInOrder /\ InOrder(pressed) THEN -1 ELSE Len(pressed)

TempView ==
    IF temp # <<>> /\ (pc # "edit" \/ i > 1) THEN [temp EXCEPT ![1] = NUL] ELSE temp

CursorView == IF pc \in {"edit", "redraw", "move"} THEN 0 ELSE framebuffer_state

DrawnView ==
    IF pc \in {"edit", "redraw", "draw"} \/ (pc = "poll" /\ command # <<>>)
    THEN NotDrawn
    ELSE drawn

View == <<was_shift # caps_lock_on, command, cursor_at, PressedView, CursorView,
          pc, idx, buf, length_buf, t, TempView, i, start, DrawnView, typed,
          orderly>>
=============================================================================
