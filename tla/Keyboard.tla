------------------------------ MODULE Keyboard ------------------------------
(***************************************************************************)
(* The keyboard driver, src/src/driver/keyboard.c: the interrupt handler   *)
(* that turns a key into a character of the command buffer, and the poll   *)
(* that hands the buffer to a program.  Both run with interrupts masked.   *)
(* The buffer beyond command_length is always zero, so it is a sequence.   *)
(* Listening is switched on at boot and never off.                         *)
(***************************************************************************)
EXTENDS Screen

CONSTANTS Letters,             \* keys that shift and caps lock act on
          Symbols,             \* printing keys that only shift acts on
          MAX_COMMAND_LENGTH   \* size of the command buffer (100)

ControlKeys == {"enter", "backspace", "left", "right"}
Keys == Letters \cup Symbols \cup ControlKeys

ASSUME KeyboardAssumption ==
    /\ MAX_COMMAND_LENGTH \in Nat \ {0}
    /\ Letters \cap Symbols = {}
    /\ (Letters \cup Symbols) \cap (ControlKeys \cup {"", "glyph"}) = {}

VARIABLES was_shift, caps_lock_on,  \* keyboard_state
          command, cursor_at,       \* keyboard_state.command_state
          pressed                   \* history: the keys since the last poll

keyboardVars == <<was_shift, caps_lock_on, command, cursor_at, pressed>>

Char == (Keys \X BOOLEAN)

KeyboardTypeOK ==
    /\ was_shift \in BOOLEAN
    /\ caps_lock_on \in BOOLEAN
    /\ command \in Seq(Char) /\ Len(command) <= MAX_COMMAND_LENGTH
    /\ cursor_at \in 0 .. Len(command)
    /\ pressed \in Seq(Char) /\ Len(pressed) <= MAX_COMMAND_LENGTH + 1

KeyboardInit ==
    /\ was_shift = FALSE
    /\ caps_lock_on = FALSE
    /\ command = <<>>
    /\ cursor_at = 0
    /\ pressed = <<>>

(***************************************************************************)
(* The map has the shifted characters 128 above the plain ones, and both   *)
(* shift and caps lock add 128 modulo 256, so they cancel out on letters.  *)
(* Enter and backspace are the same character in both halves, and the      *)
(* arrows are inserted before either is looked at.                         *)
(***************************************************************************)
CharacterOf(key) ==
    <<key, \/ key \in Letters /\ was_shift # caps_lock_on
           \/ key \in Symbols /\ was_shift>>

\* How far c moves the insertion point and the cursor: a newline or a backspace
\* leaves them where they are.  A mutant moves neither for any character.
Stride_Never(c) == 0

Stride(c) == IF c \in {Newline, Backspace} THEN 0 ELSE 1

\* Mutant of the next: a full buffer takes one more.
BufferIsFull_OffByOne == Len(command) > MAX_COMMAND_LENGTH

BufferIsFull == Len(command) = MAX_COMMAND_LENGTH

insert_at_cursor(c) ==
    IF BufferIsFull
    THEN UNCHANGED <<command, cursor_at, framebuffer_state>>
    ELSE /\ command' = InsertAt(command, cursor_at + 1, c)
         /\ cursor_at' = cursor_at + Stride(c)
         /\ framebuffer_state' = framebuffer_state + Stride(c)

\* The history keeps one key more than fit, enough to tell that one was lost.
Remember(c) ==
    pressed' = IF Len(pressed) > MAX_COMMAND_LENGTH THEN pressed
               ELSE Append(pressed, c)

KeyDown(key) ==
    /\ insert_at_cursor(CharacterOf(key))
    /\ Remember(CharacterOf(key))
    /\ UNCHANGED <<was_shift, caps_lock_on>>

ShiftDownOrUp(down) ==
    /\ was_shift' = down
    /\ UNCHANGED <<caps_lock_on, command, cursor_at, pressed,
                   framebuffer_state>>

CapsLock ==
    /\ caps_lock_on' = ~caps_lock_on
    /\ UNCHANGED <<was_shift, command, cursor_at, pressed, framebuffer_state>>

\* What remains of the driver's state after a poll; the caller copies command.
get_command_buffer ==
    /\ command' = <<>>
    /\ cursor_at' = 0
    /\ pressed' = <<>>
    /\ UNCHANGED <<was_shift, caps_lock_on>>

(***************************************************************************)
(* Properties.                                                             *)
(***************************************************************************)

\* None was lost, and only the last one is a newline or a backspace.
InOrder(keys) ==
    /\ Len(keys) <= MAX_COMMAND_LENGTH
    /\ \A j \in 1 .. (Len(keys) - 1) : keys[j] \notin {Newline, Backspace}

\* A poll finds the keys in the order they were typed, each once, provided no
\* key followed a newline or a backspace and none was typed into a full buffer:
\* the only two ways in which insert_at_cursor loses or reorders a key.
KeysInOrder == InOrder(pressed) => command = pressed
=============================================================================
