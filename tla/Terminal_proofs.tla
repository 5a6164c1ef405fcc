-------------------------- MODULE Terminal_proofs ---------------------------
(***************************************************************************)
(* The invariants of the terminal, for every set of keys, every size of    *)
(* the buffers and of the screen, and every interleaving of keys and       *)
(* system calls.                                                           *)
(*                                                                         *)
(* First, the keyboard driver keeps the order of keys, whatever the shell  *)
(* does with them and whenever it polls.  Nothing is used of the shell but *)
(* that it changes the driver's state through a poll alone.                *)
(* Second, what put_char_color prints lands on the screen.                 *)
(*                                                                         *)
(* Third, get_line edits the line the user types and keeps it on the       *)
(* screen.  The editor of the specification folds the keys of a line       *)
(* (LineOf), and that fold is first made one key at a time.  Then each     *)
(* loop of get_line over the bytes of buf is shown to do to buf what the   *)
(* key does to the line (EditHolds), and what TextLength finds in buf to   *)
(* be the line's text (TextOfLine).  The invariants follow: the types, the *)
(* drawing of the line (FollowInv), and that buf holds the line that the   *)
(* keys worked on so far make (LineInv).                                   *)
(***************************************************************************)
EXTENDS Terminal, Induction_proofs

\* No key so far was lost or left the insertion point where it was.
Straight(keys) ==
    /\ Len(keys) <= MAX_COMMAND_LENGTH
    /\ \A j \in 1 .. Len(keys) : keys[j] \notin {Newline, Backspace}

\* KeysInOrder says nothing of the insertion point, on which the place of the next
\* key depends: after such keys only, it is at the end.
DriverInv ==
    /\ KeyboardTypeOK
    /\ KeysInOrder
    /\ Straight(pressed) => command = pressed /\ cursor_at = Len(command)

\* The buffer's size is a number.
LEMMA CapacityIsNatural == MAX_COMMAND_LENGTH \in Nat \ {0}
BY KeyboardAssumption DEF KeyboardAssumption

USE CapacityIsNatural

\* Inserting at the end is appending: what insert_at_cursor's loop does when it
\* has nothing to move.
LEMMA InsertAtEnd ==
    ASSUME NEW S, NEW s \in Seq(S), NEW c \in S
    PROVE  InsertAt(s, Len(s) + 1, c) = Append(s, c)
<1>1. SubSeq(s, 1, Len(s) + 1 - 1) = s
  OBVIOUS
<1>2. SubSeq(s, Len(s) + 1, Len(s)) = <<>>
  OBVIOUS
<1>3. s \o <<c>> = Append(s, c)
  OBVIOUS
<1>4. Append(s, c) \o <<>> = Append(s, c)
  BY ConcatEmptySeq, Append(s, c) \in Seq(S)
<1>5. InsertAt(s, Len(s) + 1, c)
        = SubSeq(s, 1, Len(s) + 1 - 1) \o <<c>> \o SubSeq(s, Len(s) + 1, Len(s))
  BY DEF InsertAt
<1> QED
  BY <1>1, <1>2, <1>3, <1>4, <1>5

\* insert_at_cursor makes the buffer one longer, of the same kind of elements.
LEMMA InsertType ==
    ASSUME NEW S, NEW s \in Seq(S), NEW c \in S, NEW k \in 1 .. (Len(s) + 1)
    PROVE  InsertAt(s, k, c) \in Seq(S) /\ Len(InsertAt(s, k, c)) = Len(s) + 1
<1> DEFINE front == SubSeq(s, 1, k - 1)
           back == SubSeq(s, k, Len(s))
<1>1. front \in Seq(S) /\ Len(front) = k - 1
  OBVIOUS
<1>2. back \in Seq(S) /\ Len(back) = Len(s) - k + 1
  OBVIOUS
<1>3. InsertAt(s, k, c) = (front \o <<c>>) \o back
  BY DEF InsertAt
<1> HIDE DEF front, back
<1>4. <<c>> \in Seq(S) /\ Len(<<c>>) = 1
  OBVIOUS
<1>5. front \o <<c>> \in Seq(S) /\ Len(front \o <<c>>) = k
  BY <1>1, <1>4, ConcatProperties
<1>6. /\ (front \o <<c>>) \o back \in Seq(S)
      /\ Len((front \o <<c>>) \o back) = Len(front \o <<c>>) + Len(back)
  BY <1>2, <1>5, ConcatProperties, Zenon
<1>7. k + (Len(s) - k + 1) = Len(s) + 1
  OBVIOUS
<1> QED
  BY <1>2, <1>3, <1>5, <1>6, <1>7

\* Keys in order before the last one are straight, so one more can be in order
\* only behind straight ones.
LEMMA InOrderExtends ==
    ASSUME NEW keys \in Seq(Char), NEW c \in Char,
           InOrder(Append(keys, c))
    PROVE  Straight(keys) /\ Len(keys) < MAX_COMMAND_LENGTH
<1>1. Len(Append(keys, c)) = Len(keys) + 1
  OBVIOUS
<1>2. \A j \in 1 .. Len(keys) : Append(keys, c)[j] = keys[j]
  OBVIOUS
<1> QED
  BY <1>1, <1>2 DEF InOrder, Straight

\* The character a key stands for is one of the keyboard's.
LEMMA CharacterType ==
    ASSUME NEW key \in Keys
    PROVE  CharacterOf(key) \in Char
BY DEF CharacterOf, Char

\* A key keeps the invariant.
LEMMA KeyDownKeepsOrder ==
    ASSUME DriverInv, NEW key \in Keys, KeyDown(key)
    PROVE  DriverInv'
<1> DEFINE c == CharacterOf(key)
<1>c. c \in Char
  BY CharacterType
<1> HIDE DEF c
<1>k. insert_at_cursor(c) /\ Remember(c)
  BY DEF KeyDown, c
<1>t. /\ command \in Seq(Char) /\ Len(command) <= MAX_COMMAND_LENGTH
      /\ cursor_at \in 0 .. Len(command)
      /\ pressed \in Seq(Char) /\ Len(pressed) <= MAX_COMMAND_LENGTH + 1
  BY DEF DriverInv, KeyboardTypeOK
<1>s. Stride(c) \in {0, 1}
  BY DEF Stride
<1>1. KeyboardTypeOK'
  <2>1. was_shift' \in BOOLEAN /\ caps_lock_on' \in BOOLEAN
    BY DEF DriverInv, KeyboardTypeOK, KeyDown
  <2>2. pressed' \in Seq(Char) /\ Len(pressed') <= MAX_COMMAND_LENGTH + 1
    BY <1>c, <1>k, <1>t DEF Remember
  <2>3. /\ command' \in Seq(Char) /\ Len(command') <= MAX_COMMAND_LENGTH
        /\ cursor_at' \in 0 .. Len(command')
    <3>1. CASE BufferIsFull
      BY <3>1, <1>k, <1>t DEF insert_at_cursor
    <3>2. CASE ~BufferIsFull
      <4>1. command' = InsertAt(command, cursor_at + 1, c)
        BY <3>2, <1>k DEF insert_at_cursor
      <4>2. cursor_at' = cursor_at + Stride(c)
        BY <3>2, <1>k DEF insert_at_cursor
      <4>3. command' \in Seq(Char) /\ Len(command') = Len(command) + 1
        BY <4>1, <1>c, <1>t, InsertType
      <4>4. Len(command) < MAX_COMMAND_LENGTH
        BY <3>2, <1>t DEF BufferIsFull
      <4> QED
        BY <4>2, <4>3, <4>4, <1>s, <1>t
    <3> QED
      BY <3>1, <3>2
  <2> QED
    BY <2>1, <2>2, <2>3 DEF KeyboardTypeOK
<1>2. ASSUME InOrder(pressed')
      PROVE  /\ command' = pressed'
             /\ cursor_at' = Len(command) + Stride(c)
             /\ Len(command') = Len(command) + 1
             /\ pressed' = Append(pressed, c)
  <2>1. pressed' = Append(pressed, c)
    BY <1>2, <1>k, <1>t DEF Remember, InOrder
  <2>2. Straight(pressed) /\ Len(pressed) < MAX_COMMAND_LENGTH
    BY <2>1, <1>2, <1>c, <1>t, InOrderExtends
  <2>3. command = pressed /\ cursor_at = Len(command)
    BY <2>2 DEF DriverInv
  <2>4. ~BufferIsFull
    BY <2>2, <2>3, <1>t DEF BufferIsFull
  <2>5. /\ command' = InsertAt(command, Len(command) + 1, c)
        /\ cursor_at' = Len(command) + Stride(c)
    BY <2>3, <2>4, <1>k DEF insert_at_cursor
  <2>6. command' = Append(command, c)
    BY <2>5, <1>c, <1>t, InsertAtEnd
  <2> QED
    BY <2>1, <2>3, <2>5, <2>6, <1>c, <1>t
<1>3. KeysInOrder'
  BY <1>2 DEF KeysInOrder
<1>4. ASSUME Straight(pressed')
      PROVE  command' = pressed' /\ cursor_at' = Len(command')
  <2>1. InOrder(pressed')
    BY <1>1, <1>4 DEF Straight, InOrder, KeyboardTypeOK
  <2>2. c \notin {Newline, Backspace}
    <3>1. Len(pressed') = Len(pressed) + 1 /\ pressed'[Len(pressed')] = c
      BY <2>1, <1>2, <1>c, <1>t
    <3> QED
      BY <3>1, <1>4, <1>t DEF Straight
  <2>3. Stride(c) = 1
    BY <2>2 DEF Stride
  <2> QED
    BY <2>1, <2>3, <1>2
<1> QED
  BY <1>1, <1>3, <1>4 DEF DriverInv

\* So does a poll, which leaves nothing behind.
LEMMA PollKeepsOrder ==
    ASSUME DriverInv, get_command_buffer
    PROVE  DriverInv'
BY DEF DriverInv, get_command_buffer, KeyboardTypeOK, KeysInOrder

\* And everything that does not touch the driver's buffer.
LEMMA RestKeepsOrder ==
    ASSUME DriverInv, was_shift' \in BOOLEAN, caps_lock_on' \in BOOLEAN,
           UNCHANGED <<command, cursor_at, pressed>>
    PROVE  DriverInv'
BY DEF DriverInv, KeyboardTypeOK, KeysInOrder, InOrder, Straight

\* The driver's invariant holds in every state of the terminal.
THEOREM DriverInductive == Spec => []DriverInv
<1>1. Init => DriverInv
  <2> SUFFICES ASSUME Init PROVE DriverInv
    OBVIOUS
  <2>1. /\ was_shift = FALSE /\ caps_lock_on = FALSE
        /\ command = <<>> /\ cursor_at = 0 /\ pressed = <<>>
    BY DEF Init, KeyboardInit
  <2>2. <<>> \in Seq(Char) /\ Len(<<>>) = 0
    OBVIOUS
  <2>3. command \in Seq(Char) /\ pressed \in Seq(Char)
    BY <2>1, <2>2
  <2>4. Len(command) <= MAX_COMMAND_LENGTH /\ cursor_at \in 0 .. Len(command)
        /\ Len(pressed) <= MAX_COMMAND_LENGTH + 1
    BY <2>1, <2>2
  <2>5. KeyboardTypeOK
    BY <2>1, <2>3, <2>4, Zenon DEF KeyboardTypeOK
  <2> QED
    BY <2>1, <2>2, <2>5, Zenon DEF DriverInv, KeysInOrder
<1>2. DriverInv /\ [Next]_vars => DriverInv'
  <2> SUFFICES ASSUME DriverInv, [Next]_vars
               PROVE  DriverInv'
    OBVIOUS
  <2>t. was_shift \in BOOLEAN /\ caps_lock_on \in BOOLEAN
    BY DEF DriverInv, KeyboardTypeOK
  <2>1. CASE KeyboardInterrupt
    <3>1. ASSUME NEW key \in Keys, KeyDown(key)
          PROVE  DriverInv'
      BY <3>1, KeyDownKeepsOrder
    <3>2. ASSUME NEW down \in BOOLEAN, ShiftDownOrUp(down)
          PROVE  DriverInv'
      BY <3>2, <2>t, RestKeepsOrder DEF ShiftDownOrUp
    <3>3. CASE CapsLock
      BY <3>3, <2>t, RestKeepsOrder DEF CapsLock
    <3> QED
      BY <2>1, <3>1, <3>2, <3>3 DEF KeyboardInterrupt
  <2>2. CASE PollForEnter \/ PollKeys
    BY <2>2, PollKeepsOrder DEF PollForEnter, PollKeys
  <2>3. CASE UNCHANGED keyboardVars
    BY <2>3, <2>t, RestKeepsOrder DEF keyboardVars
  <2>4. Shell => PollForEnter \/ PollKeys \/ UNCHANGED keyboardVars
    BY DEF Shell, AskCursor, PutInfo, ClearScreen, CursorHome, PutChar, BeginLine,
           EditKey, KeysUsedUp, CursorToStart, DrawLine, CursorToInsertion,
           FinishTurn, TakeLine
  <2>5. UNCHANGED vars => UNCHANGED keyboardVars
    BY DEF vars
  <2> QED
    BY <2>1, <2>2, <2>3, <2>4, <2>5 DEF Next
<1> QED
  BY <1>1, <1>2, PTL DEF Spec

\* A poll finds the keys in the order they were typed, each once, unless one was
\* typed behind a newline or a backspace or into a full buffer.
THEOREM KeyOrder == Spec => []KeysInOrder
<1>1. DriverInv => KeysInOrder
  BY DEF DriverInv
<1> QED
  BY <1>1, DriverInductive, PTL

-----------------------------------------------------------------------------
(***************************************************************************)
(* The screen.  Between the moment put_char_color looks at the cursor and  *)
(* the moment it prints, keys move the cursor on; each that does also      *)
(* takes a place in the buffer, and nobody polls meanwhile.                *)
(***************************************************************************)

\* While the line is redrawn the cursor is behind its text, a fold whose value no
\* later step reads, so that nothing need be known of it.
ScreenInv ==
    /\ pc # "move" => framebuffer_state \in Nat
    /\ start \in Nat
    /\ t \in Nat
    /\ pc = "put" => framebuffer_state < PAGE_BREAK_ROW * WIDTH + Len(command)

\* The screen's measures are numbers, and there is room below the page break.
LEMMA Measures ==
    /\ WIDTH \in Nat \ {0} /\ HEIGHT \in Nat \ {0}
    /\ PAGE_BREAK_ROW \in Nat \ {0} /\ PAGE_BREAK_ROW < HEIGHT
    /\ MAX_COMMAND_LENGTH <= (HEIGHT - PAGE_BREAK_ROW) * WIDTH
BY ScreenAssumption, TerminalAssumption DEF ScreenAssumption, TerminalAssumption

\* A position is in a row before the r-th exactly when it is less than the r-th
\* row's first one.
LEMMA RowBound ==
    ASSUME NEW p \in Nat, NEW r \in Nat
    PROVE  Row(p) \in Nat /\ (Row(p) < r <=> p < r * WIDTH)
<1> DEFINE q == p \div WIDTH
<1>1. /\ WIDTH \in Nat /\ WIDTH > 0
  BY Measures
<1>2. /\ q \in Nat
      /\ q * WIDTH <= p /\ p < (q + 1) * WIDTH
  BY <1>1
<1> HIDE DEF q
<1>3. ASSUME q < r PROVE p < r * WIDTH
  <2>1. q + 1 <= r
    BY <1>2, <1>3
  <2>2. (q + 1) * WIDTH <= r * WIDTH
    BY <2>1, <1>1, <1>2
  <2> QED
    BY <2>2, <1>1, <1>2
<1>4. ASSUME ~(q < r) PROVE ~(p < r * WIDTH)
  <2>1. r * WIDTH <= q * WIDTH
    BY <1>1, <1>2, <1>4
  <2> QED
    BY <2>1, <1>1, <1>2
<1> QED
  BY <1>2, <1>3, <1>4 DEF Row, q

\* The cursor stays a position when a character is put.
LEMMA AdvanceType ==
    ASSUME NEW p \in Nat, NEW c
    PROVE  Advance(p, c) \in Nat
<1>1. Row(p) \in Nat
  BY RowBound
<1>2. NextRow(p) \in Nat
  BY <1>1, Measures DEF NextRow
<1> QED
  BY <1>2 DEF Advance

\* A key moves the cursor by at most the place it takes in the buffer.
LEMMA KeyMovesCursor ==
    ASSUME DriverInv, NEW key \in Keys, KeyDown(key)
    PROVE  \/ UNCHANGED <<framebuffer_state, command>>
           \/ \E n \in {0, 1} :
                /\ framebuffer_state' = framebuffer_state + n
                /\ Len(command') >= Len(command) + n
<1> DEFINE c == CharacterOf(key)
<1>1. c \in Char
  BY CharacterType
<1> HIDE DEF c
<1>2. insert_at_cursor(c)
  BY DEF KeyDown, c
<1>3. command \in Seq(Char) /\ cursor_at \in 0 .. Len(command)
  BY DEF DriverInv, KeyboardTypeOK
<1>4. CASE BufferIsFull
  BY <1>2, <1>4 DEF insert_at_cursor
<1>5. CASE ~BufferIsFull
  <2>1. /\ command' = InsertAt(command, cursor_at + 1, c)
        /\ framebuffer_state' = framebuffer_state + Stride(c)
    BY <1>2, <1>5 DEF insert_at_cursor
  <2>2. Len(command') = Len(command) + 1
    BY <2>1, <1>1, <1>3, InsertType
  <2>3. Stride(c) \in {0, 1}
    BY DEF Stride
  <2> QED
    BY <2>1, <2>2, <2>3, <1>3
<1> QED
  BY <1>4, <1>5

\* The keyboard keeps the screen's invariant.
LEMMA KeysKeepScreen ==
    ASSUME ScreenInv, DriverInv, KeyboardInterrupt
    PROVE  ScreenInv'
<1>1. UNCHANGED <<pc, start, t>>
  BY DEF KeyboardInterrupt, lineVars
<1>2. Len(command) \in Nat
  BY DEF DriverInv, KeyboardTypeOK
<1>3. ASSUME NEW key \in Keys, KeyDown(key)
      PROVE  ScreenInv'
  <2>1. CASE UNCHANGED <<framebuffer_state, command>>
    BY <2>1, <1>1 DEF ScreenInv
  <2>2. ASSUME NEW n \in {0, 1},
               framebuffer_state' = framebuffer_state + n,
               Len(command') >= Len(command) + n
        PROVE  ScreenInv'
    <3>1. Len(command') \in Nat
      BY <1>3, KeyDownKeepsOrder DEF DriverInv, KeyboardTypeOK
    <3>2. PAGE_BREAK_ROW * WIDTH \in Nat
      BY Measures
    <3> QED
      BY <2>2, <3>1, <3>2, <1>1, <1>2 DEF ScreenInv
  <2> QED
    BY <2>1, <2>2, <1>3, KeyMovesCursor
<1>4. CASE \/ \E down \in BOOLEAN : ShiftDownOrUp(down)
           \/ CapsLock
  BY <1>1, <1>4 DEF ScreenInv, ShiftDownOrUp, CapsLock
<1> QED
  BY <1>3, <1>4 DEF KeyboardInterrupt

\* So does every step of the shell.
LEMMA ShellKeepsScreen ==
    ASSUME ScreenInv, DriverInv, Shell
    PROVE  ScreenInv'
<1>m. /\ WIDTH \in Nat \ {0} /\ PAGE_BREAK_ROW \in Nat \ {0}
      /\ PAGE_BREAK_ROW * WIDTH \in Nat \ {0}
  BY Measures
<1>t. start \in Nat /\ t \in Nat /\ Len(command) \in Nat
  BY DEF ScreenInv, DriverInv, KeyboardTypeOK
<1>1. CASE AskCursor
  <2>1. framebuffer_state \in Nat
    BY <1>1 DEF AskCursor, ScreenInv
  <2>2. pc' = "put" => framebuffer_state < PAGE_BREAK_ROW * WIDTH
    BY <1>1, <1>m, <2>1, RowBound DEF AskCursor, GoTo, Row
  <2> QED
    BY <1>1, <1>m, <1>t, <2>1, <2>2
       DEF AskCursor, ScreenInv, GoTo, keyboardVars, lineVars
<1>2. CASE PutInfo
  <2>1. framebuffer_state' \in Nat
    BY <1>2, AdvanceType DEF PutInfo, ScreenInv, kernel_put_char
  <2>2. pc' \in {"info", "enter"}
    BY <1>2 DEF PutInfo, GoTo
  <2> QED
    BY <1>2, <1>t, <2>1, <2>2 DEF PutInfo, ScreenInv, lineVars
<1>3. CASE PollForEnter
  BY <1>3, <1>t DEF PollForEnter, ScreenInv, GoTo
<1>4. CASE ClearScreen
  BY <1>4, <1>t DEF ClearScreen, ScreenInv, GoTo, lineVars
<1>5. CASE CursorHome
  <2>1. framebuffer_state' = 0 /\ UNCHANGED <<command, start, t>>
    BY <1>5 DEF CursorHome, framebuffer_set_cursor, keyboardVars, lineVars
  <2> QED
    BY <2>1, <1>m, <1>t DEF ScreenInv
<1>6. CASE PutChar
  <2>1. framebuffer_state' \in Nat
    BY <1>6, AdvanceType DEF PutChar, ScreenInv, kernel_put_char
  <2> QED
    BY <1>6, <1>t, <2>1 DEF PutChar, ScreenInv, GoTo, lineVars
<1>7. CASE BeginLine
  BY <1>7, <1>t DEF BeginLine, ScreenInv, GoTo
<1>8. CASE PollKeys
  BY <1>8, <1>t DEF PollKeys, ScreenInv, GoTo
<1>9. CASE EditKey
  <2>1. pc = "edit" /\ pc' \in {"edit", "overrun"}
        /\ UNCHANGED <<framebuffer_state, start>>
    BY <1>9 DEF EditKey, GoTo
  <2>2. t' \in Nat
    <3>1. CASE Edit(temp[i])
      BY <3>1, <1>t DEF Edit, EraseCharacter, MoveLeft, MoveRight, EnterLine,
                        TypeCharacter
    <3>2. CASE UNCHANGED t
      BY <3>2, <1>t
    <3> QED
      BY <3>1, <3>2, <1>9 DEF EditKey
  <2> QED
    BY <1>t, <2>1, <2>2 DEF ScreenInv
<1>10. CASE KeysUsedUp
  BY <1>10, <1>t DEF KeysUsedUp, ScreenInv, GoTo
<1>11. CASE CursorToStart
  BY <1>11, <1>t DEF CursorToStart, ScreenInv, GoTo, framebuffer_set_cursor,
                     lineVars
<1>12. CASE DrawLine
  BY <1>12, <1>t DEF DrawLine, ScreenInv, GoTo
<1>13. CASE CursorToInsertion
  <2>1. framebuffer_state' \in Nat
    BY <1>13, <1>t DEF CursorToInsertion, framebuffer_set_cursor
  <2>2. pc' \in {"returned", "poll"} /\ UNCHANGED <<start, t>>
    BY <1>13 DEF CursorToInsertion, FinishTurn, GoTo
  <2> QED
    BY <1>t, <2>1, <2>2 DEF ScreenInv
<1>14. CASE TakeLine
  BY <1>14, <1>t DEF TakeLine, ScreenInv, GoTo
<1> QED
  BY <1>1, <1>2, <1>3, <1>4, <1>5, <1>6, <1>7, <1>8, <1>9, <1>10, <1>11, <1>12,
     <1>13, <1>14 DEF Shell

\* A character put_char_color prints lands on the screen, for every size of the
\* screen and of the buffer that leaves a full buffer's room below the page break.
THEOREM OutputLandsOnScreen == Spec => []PutStaysOnScreen
<1>1. Init => ScreenInv
  BY DEF Init, ScreenInv
<1>2. ScreenInv /\ DriverInv /\ [Next]_vars => ScreenInv'
  <2>1. UNCHANGED vars /\ ScreenInv => ScreenInv'
    BY DEF vars, keyboardVars, lineVars, ScreenInv
  <2> QED
    BY <2>1, KeysKeepScreen, ShellKeepsScreen DEF Next
<1>3. ScreenInv /\ DriverInv => PutStaysOnScreen
  <2> SUFFICES ASSUME ScreenInv, DriverInv, pc = "put"
               PROVE  Row(framebuffer_state) < HEIGHT
    BY DEF PutStaysOnScreen
  <2>1. /\ framebuffer_state \in Nat
        /\ framebuffer_state < PAGE_BREAK_ROW * WIDTH + Len(command)
    BY DEF ScreenInv
  <2>2. Len(command) \in Nat /\ Len(command) <= MAX_COMMAND_LENGTH
    BY DEF DriverInv, KeyboardTypeOK
  <2>3. PAGE_BREAK_ROW * WIDTH + (HEIGHT - PAGE_BREAK_ROW) * WIDTH = HEIGHT * WIDTH
    BY Measures
  <2>4. /\ PAGE_BREAK_ROW * WIDTH \in Nat
        /\ (HEIGHT - PAGE_BREAK_ROW) * WIDTH \in Nat
        /\ MAX_COMMAND_LENGTH <= (HEIGHT - PAGE_BREAK_ROW) * WIDTH
    BY Measures
  <2>5. framebuffer_state < HEIGHT * WIDTH
    BY <2>1, <2>2, <2>3, <2>4
  <2> QED
    BY <2>1, <2>5, RowBound, Measures
<1> QED
  BY <1>1, <1>2, <1>3, DriverInductive, PTL DEF Spec

HIDE CapacityIsNatural

-----------------------------------------------------------------------------
(* The folds of the model *)

\* The cursor of the screen as a function from positions to functions of characters.
CursorStep == [p \in Nat |-> [c \in Char |-> Advance(p, c)]]

\* Where a text leaves the cursor is a position.
LEMMA AfterType ==
    ASSUME NEW p \in Nat, NEW s \in Seq(Char)
    PROVE  After(p, s) \in Nat
<1> DEFINE N == Len(s)
           Iterates(f) ==
               f = [x \in SUBSET DOMAIN s |->
                       IF x = {} THEN p ELSE Advance(f[x \ {Max(x)}], s[Max(x)])]
           iter == CHOOSE f : Iterates(f)
<1>1. After(p, s) = iter[DOMAIN s]
  BY DEF After, FoldLeft, MapThenFoldSet
<1>2. DOMAIN s = 1 .. N /\ N \in Nat
  OBVIOUS
<1>3. CursorStep \in [Nat -> [Char -> Nat]]
  <2>1. \A q \in Nat : [c \in Char |-> Advance(q, c)] \in [Char -> Nat]
    BY AdvanceType
  <2> QED
    BY <2>1 DEF CursorStep
<1>4. FoldTo(Nat, CursorStep, p, s, N)
  BY <1>3, FoldExists
<1>5. PICK f \in [SUBSET (1 .. N) -> Nat] : FoldsSets(f, CursorStep, p, s, N)
  BY <1>4 DEF FoldTo
<1>6. Iterates(f)
  <2>1. ASSUME NEW x \in SUBSET (1 .. N)
        PROVE  f[x] = IF x = {} THEN p ELSE Advance(f[x \ {Max(x)}], s[Max(x)])
    <3>1. CASE x = {}
      BY <1>5, <3>1 DEF FoldsSets
    <3>2. CASE x # {}
      <4>1. Max(x) \in 1 .. N
        BY <1>2, <3>2, MaxIn
      <4>2. s[Max(x)] \in Char /\ f[x \ {Max(x)}] \in Nat
        <5>1. x \ {Max(x)} \in SUBSET (1 .. N)
          OBVIOUS
        <5> QED
          BY <4>1, <5>1
      <4>3. CursorStep[f[x \ {Max(x)}]][s[Max(x)]] = Advance(f[x \ {Max(x)}], s[Max(x)])
        BY <4>2 DEF CursorStep
      <4> QED
        BY <1>5, <3>2, <4>3 DEF FoldsSets
    <3> QED
      BY <3>1, <3>2
  <2> HIDE DEF N
  <2>2. f = [x \in SUBSET (1 .. N) |-> f[x]]
    OBVIOUS
  <2> QED
    BY <1>2, <2>1, <2>2, Zenon
<1>7. Iterates(iter)
  <2> HIDE DEF Iterates
  <2> QED
    BY <1>6
<1>8. \A x \in SUBSET (1 .. N) :
          iter[x] = IF x = {} THEN p ELSE Advance(iter[x \ {Max(x)}], s[Max(x)])
  <2> HIDE DEF iter
  <2> QED
    BY <1>2, <1>7
<1> DEFINE Typed == {n \in 0 .. N : iter[1 .. n] \in Nat}
<1> HIDE DEF iter
<1>9. 0 \in Typed
  <2>1. 1 .. 0 = {} /\ 0 \in 0 .. N
    OBVIOUS
  <2> QED
    BY <1>8, <2>1
<1>10. ASSUME NEW n \in 0 .. (N - 1), n \in Typed PROVE n + 1 \in Typed
  <2>1. n + 1 \in 1 .. N /\ n + 1 - 1 = n /\ n + 1 \in 0 .. N
    BY <1>2
  <2>2. iter[1 .. (n + 1)] = Advance(iter[1 .. n], s[n + 1])
    <3>1. /\ 1 .. (n + 1) \in SUBSET (1 .. N) /\ 1 .. (n + 1) # {}
          /\ Max(1 .. (n + 1)) = n + 1
          /\ (1 .. (n + 1)) \ {n + 1} = 1 .. n
      BY <1>2, <2>1, LastPosition
    <3> QED
      BY <1>8, <3>1
  <2> QED
    BY <1>10, <2>1, <2>2, AdvanceType
<1>11. N \in Typed
  <2> HIDE DEF Typed, N
  <2>1. \A n \in 0 .. N : n \in Typed
    BY <1>2, <1>9, <1>10, BoundedInduction
  <2> QED
    BY <1>2, <2>1
<1> QED
  BY <1>1, <1>2, <1>11

-----------------------------------------------------------------------------
(* The editor by itself *)

LineChar == Char \ {Newline, Backspace, LEFT_ARROW, RIGHT_ARROW}
Lines == [before : Seq(LineChar), after : Seq(LineChar)]
EmptyLine == [before |-> <<>>, after |-> <<>>]
Size(line) == Len(line.before) + Len(line.after)

\* The line an editor makes of keys.
LineOf(keys) == FoldLeft(Type, EmptyLine, keys)

\* No line is shorter.
LEMMA EmptyIsLine == EmptyLine \in Lines /\ Size(EmptyLine) = 0
BY DEF EmptyLine, Lines, Size

\* The keys that edit are five different characters, and none of them is the zero.
LEMMA CharactersDiffer ==
    /\ Newline # Backspace /\ Newline # LEFT_ARROW /\ Newline # RIGHT_ARROW
    /\ Backspace # LEFT_ARROW /\ Backspace # RIGHT_ARROW /\ LEFT_ARROW # RIGHT_ARROW
    /\ Newline \in Char /\ Backspace \in Char
    /\ LEFT_ARROW \in Char /\ RIGHT_ARROW \in Char
    /\ NUL \notin Char
<1>1. "" \notin Keys
  BY KeyboardAssumption DEF KeyboardAssumption, Keys, ControlKeys
<1>2. NUL \notin Char
  BY <1>1 DEF NUL, Char
<1> QED
  BY <1>2 DEF Newline, Backspace, LEFT_ARROW, RIGHT_ARROW, Char, Keys, ControlKeys

\* The front of a sequence and its last element are of the same kind.
LEMMA FrontType ==
    ASSUME NEW S, NEW s \in Seq(S), s # <<>>
    PROVE  Front(s) \in Seq(S) /\ Len(Front(s)) = Len(s) - 1 /\ Last(s) \in S
<1>1. Len(s) \in Nat /\ Len(s) # 0
  BY EmptySeq
<1>2. Len(s) \in 1 .. Len(s) /\ Len(s) - 1 \in 0 .. Len(s)
  BY <1>1
<1>3. SubSeq(s, 1, Len(s) - 1) \in Seq(S) /\ Len(SubSeq(s, 1, Len(s) - 1)) = Len(s) - 1
  <2> DEFINE n == Len(s) - 1
  <2>1. \A j \in 1 .. n : s[j] \in S
    BY <1>1
  <2>2. n \in Nat
    BY <1>1
  <2> HIDE DEF n
  <2>3. SubSeq(s, 1, n) \in Seq(S) /\ Len(SubSeq(s, 1, n)) = IF 1 <= n THEN n - 1 + 1 ELSE 0
    BY <2>1, <2>2, SubSeqProperties
  <2>4. (IF 1 <= n THEN n - 1 + 1 ELSE 0) = n
    BY <2>2
  <2> QED
    BY <2>3, <2>4 DEF n
<1>4. s[Len(s)] \in S
  BY <1>2
<1> QED
  BY <1>3, <1>4 DEF Front, Last

\* What each key makes of a line.
LEMMA TypeIs ==
    ASSUME NEW line \in Lines, NEW c \in Char
    PROVE  /\ c = Newline => Type(line, c) = line
           /\ c \in {Backspace, LEFT_ARROW} /\ line.before = <<>> => Type(line, c) = line
           /\ c = RIGHT_ARROW /\ line.after = <<>> => Type(line, c) = line
           /\ c = Backspace /\ line.before # <<>> =>
                 Type(line, c) = [before |-> Front(line.before), after |-> line.after]
           /\ c = LEFT_ARROW /\ line.before # <<>> =>
                 Type(line, c) = [before |-> Front(line.before),
                                  after |-> <<Last(line.before)>> \o line.after]
           /\ c = RIGHT_ARROW /\ line.after # <<>> =>
                 Type(line, c) = [before |-> Append(line.before, Head(line.after)),
                                  after |-> Tail(line.after)]
           /\ c \notin {Backspace, LEFT_ARROW, RIGHT_ARROW, Newline} =>
                 Type(line, c) = [before |-> Append(line.before, c), after |-> line.after]
<1>1. line = [before |-> line.before, after |-> line.after]
  BY DEF Lines
<1>2. c = Newline => Type(line, c) = line
  BY CharactersDiffer DEF Type
<1>3. c \in {Backspace, LEFT_ARROW} /\ line.before = <<>> => Type(line, c) = line
  BY CharactersDiffer DEF Type
<1>4. c = RIGHT_ARROW /\ line.after = <<>> => Type(line, c) = line
  BY CharactersDiffer DEF Type
<1>5. c = Backspace /\ line.before # <<>> =>
         Type(line, c) = [before |-> Front(line.before), after |-> line.after]
  BY <1>1, CharactersDiffer DEF Type
<1>6. c = LEFT_ARROW /\ line.before # <<>> =>
         Type(line, c) = [before |-> Front(line.before),
                          after |-> <<Last(line.before)>> \o line.after]
  BY CharactersDiffer DEF Type
<1>7. c = RIGHT_ARROW /\ line.after # <<>> =>
         Type(line, c) = [before |-> Append(line.before, Head(line.after)),
                          after |-> Tail(line.after)]
  BY CharactersDiffer DEF Type
<1>8. c \notin {Backspace, LEFT_ARROW, RIGHT_ARROW, Newline} =>
         Type(line, c) = [before |-> Append(line.before, c), after |-> line.after]
  BY <1>1 DEF Type
<1> QED
  BY <1>2, <1>3, <1>4, <1>5, <1>6, <1>7, <1>8

\* A key makes a line of a line, at most one character longer.
LEMMA TypeIsLine ==
    ASSUME NEW line \in Lines, NEW c \in Char
    PROVE  /\ Type(line, c) \in Lines
           /\ Size(line) \in Nat /\ Size(Type(line, c)) \in Nat
           /\ Size(Type(line, c)) <= Size(line) + 1
           /\ c = Newline => Type(line, c) = line
<1> DEFINE b == line.before
           a == line.after
<1>1. b \in Seq(LineChar) /\ a \in Seq(LineChar)
  BY DEF Lines
<1>2. line = [before |-> b, after |-> a]
  BY DEF Lines
<1>3. ASSUME NEW x \in Seq(LineChar), NEW y \in Seq(LineChar)
      PROVE  /\ [before |-> x, after |-> y] \in Lines
             /\ Size([before |-> x, after |-> y]) = Len(x) + Len(y)
             /\ Len(x) \in Nat /\ Len(y) \in Nat
  BY <1>3 DEF Lines, Size
<1>4. Size(line) = Len(b) + Len(a) /\ Len(b) \in Nat /\ Len(a) \in Nat
  BY <1>1 DEF Size
<1> DEFINE Good(new) ==
        /\ new \in Lines /\ Size(line) \in Nat /\ Size(new) \in Nat
        /\ Size(new) <= Size(line) + 1
<1>g. ASSUME NEW x \in Seq(LineChar), NEW y \in Seq(LineChar),
             Len(x) + Len(y) <= Len(b) + Len(a) + 1
      PROVE  Good([before |-> x, after |-> y])
  <2> DEFINE made == [before |-> x, after |-> y]
  <2>1. made \in Lines /\ Size(made) = Len(x) + Len(y) /\ Len(x) \in Nat /\ Len(y) \in Nat
    BY <1>3
  <2> HIDE DEF made, b, a
  <2>2. Size(made) \in Nat /\ Size(line) \in Nat
    BY <2>1, <1>4
  <2>3. Size(made) <= Size(line) + 1
    BY <2>1, <1>4, <1>g
  <2>4. Good(made)
    BY <2>1, <2>2, <2>3 DEF Good
  <2> QED
    BY <2>4 DEF made
<1>n. c = Newline => Type(line, c) = line
  BY TypeIs
<1> HIDE DEF b, a, Good
<1> SUFFICES Good(Type(line, c))
  BY <1>n DEF Good
<1>5. CASE Type(line, c) = line
  BY <1>4, <1>5 DEF Good
<1>6. CASE c = Backspace /\ b # <<>>
  <2>1. Type(line, c) = [before |-> Front(b), after |-> a]
    BY <1>6, TypeIs DEF b, a
  <2>2. Front(b) \in Seq(LineChar) /\ Len(Front(b)) = Len(b) - 1
    BY <1>1, <1>6, FrontType
  <2>9. Good([before |-> Front(b), after |-> a])
    BY <1>1, <1>4, <1>g, <2>2
  <2> QED
    BY <2>1, <2>9
<1>7. CASE c = LEFT_ARROW /\ b # <<>>
  <2>1. Type(line, c) = [before |-> Front(b), after |-> <<Last(b)>> \o a]
    BY <1>7, TypeIs DEF b, a
  <2>2. Front(b) \in Seq(LineChar) /\ Len(Front(b)) = Len(b) - 1
    BY <1>1, <1>7, FrontType
  <2>3. Last(b) \in LineChar
    BY <1>1, <1>7, FrontType
  <2>4. <<Last(b)>> \o a \in Seq(LineChar) /\ Len(<<Last(b)>> \o a) = Len(a) + 1
    BY <1>1, <2>3
  <2> DEFINE x == Front(b)
             y == <<Last(b)>> \o a
  <2> HIDE DEF x, y
  <2>5. x \in Seq(LineChar) /\ y \in Seq(LineChar)
    BY <2>2, <2>4 DEF x, y
  <2>6. Len(x) + Len(y) <= Len(b) + Len(a) + 1
    BY <1>4, <2>2, <2>4 DEF x, y
  <2>7. Good([before |-> x, after |-> y])
    BY <1>g, <2>5, <2>6
  <2> QED
    BY <2>1, <2>7 DEF x, y
<1>8. CASE c = RIGHT_ARROW /\ a # <<>>
  <2>1. Type(line, c) = [before |-> Append(b, Head(a)), after |-> Tail(a)]
    BY <1>8, TypeIs DEF b, a
  <2>2. Tail(a) \in Seq(LineChar) /\ Len(Tail(a)) = Len(a) - 1 /\ Head(a) \in LineChar
    BY <1>1, <1>8
  <2>3. Append(b, Head(a)) \in Seq(LineChar) /\ Len(Append(b, Head(a))) = Len(b) + 1
    BY <1>1, <2>2
  <2> DEFINE x == Append(b, Head(a))
             y == Tail(a)
  <2> HIDE DEF x, y
  <2>5. x \in Seq(LineChar) /\ y \in Seq(LineChar)
    BY <2>2, <2>3 DEF x, y
  <2>6. Len(x) + Len(y) <= Len(b) + Len(a) + 1
    BY <1>4, <2>2, <2>3 DEF x, y
  <2>7. Good([before |-> x, after |-> y])
    BY <1>g, <2>5, <2>6
  <2> QED
    BY <2>1, <2>7 DEF x, y
<1>9. CASE c \notin {Newline, Backspace, LEFT_ARROW, RIGHT_ARROW}
  <2>1. Type(line, c) = [before |-> Append(b, c), after |-> a]
    BY <1>9, TypeIs DEF b, a
  <2>2. Append(b, c) \in Seq(LineChar) /\ Len(Append(b, c)) = Len(b) + 1
    BY <1>1, <1>9 DEF LineChar
  <2>9. Good([before |-> Append(b, c), after |-> a])
    BY <1>1, <1>4, <1>g, <2>2
  <2> QED
    BY <2>1, <2>9
<1>11. c = Backspace /\ b = <<>> => Type(line, c) = line
  BY TypeIs DEF b, a
<1>12. c = LEFT_ARROW /\ b = <<>> => Type(line, c) = line
  BY TypeIs DEF b, a
<1>13. c = RIGHT_ARROW /\ a = <<>> => Type(line, c) = line
  BY TypeIs DEF b, a
<1> QED
  BY <1>5, <1>6, <1>7, <1>8, <1>9, <1>n, <1>11, <1>12, <1>13

\* The editor as a function from lines to functions of characters.
TypeStep == [line \in Lines |-> [c \in Char |-> Type(line, c)]]

\* The lines an editor goes through.
Draft(keys, g) ==
    /\ g[0] = EmptyLine
    /\ \A n \in 1 .. Len(keys) : g[n] = Type(g[n - 1], keys[n])
    /\ LineOf(keys) = g[Len(keys)]

\* Every sequence of keys has one.
LEMMA LineHasDraft ==
    ASSUME NEW keys \in Seq(Char)
    PROVE  \E g : Draft(keys, g)
<1> DEFINE N == Len(keys)
           Iterates(f) ==
               f = [x \in SUBSET DOMAIN keys |->
                       IF x = {} THEN EmptyLine ELSE Type(f[x \ {Max(x)}], keys[Max(x)])]
           iter == CHOOSE f : Iterates(f)
<1>1. LineOf(keys) = iter[DOMAIN keys]
  BY DEF LineOf, FoldLeft, MapThenFoldSet
<1>2. DOMAIN keys = 1 .. N /\ N \in Nat
  OBVIOUS
<1>3. TypeStep \in [Lines -> [Char -> Lines]]
  <2>1. \A line \in Lines : [c \in Char |-> Type(line, c)] \in [Char -> Lines]
    BY TypeIsLine
  <2> QED
    BY <2>1 DEF TypeStep
<1>4. FoldTo(Lines, TypeStep, EmptyLine, keys, N)
  BY <1>3, EmptyIsLine, FoldExists
<1>5. PICK f \in [SUBSET (1 .. N) -> Lines] : FoldsSets(f, TypeStep, EmptyLine, keys, N)
  BY <1>4 DEF FoldTo
<1>6. Iterates(f)
  <2>1. ASSUME NEW x \in SUBSET (1 .. N)
        PROVE  f[x] = IF x = {} THEN EmptyLine ELSE Type(f[x \ {Max(x)}], keys[Max(x)])
    <3>1. CASE x = {}
      BY <1>5, <3>1 DEF FoldsSets
    <3>2. CASE x # {}
      <4>1. Max(x) \in 1 .. N
        BY <1>2, <3>2, MaxIn
      <4>2. keys[Max(x)] \in Char /\ f[x \ {Max(x)}] \in Lines
        <5>1. x \ {Max(x)} \in SUBSET (1 .. N)
          OBVIOUS
        <5> QED
          BY <4>1, <5>1
      <4>3. TypeStep[f[x \ {Max(x)}]][keys[Max(x)]] = Type(f[x \ {Max(x)}], keys[Max(x)])
        BY <4>2 DEF TypeStep
      <4> QED
        BY <1>5, <3>2, <4>3 DEF FoldsSets
    <3> QED
      BY <3>1, <3>2
  <2> HIDE DEF N
  <2>2. f = [x \in SUBSET (1 .. N) |-> f[x]]
    OBVIOUS
  <2> QED
    BY <1>2, <2>1, <2>2, Zenon
<1>7. Iterates(iter)
  <2> HIDE DEF Iterates
  <2> QED
    BY <1>6
<1>8. \A x \in SUBSET (1 .. N) :
          iter[x] = IF x = {} THEN EmptyLine ELSE Type(iter[x \ {Max(x)}], keys[Max(x)])
  <2> HIDE DEF iter
  <2> QED
    BY <1>2, <1>7
<1> DEFINE g == [n \in 0 .. N |-> iter[1 .. n]]
<1> HIDE DEF iter
<1>9. g[0] = EmptyLine
  <2>1. 1 .. 0 = {} /\ 0 \in 0 .. N
    OBVIOUS
  <2> QED
    BY <1>8, <2>1
<1>10. ASSUME NEW n \in 1 .. N PROVE g[n] = Type(g[n - 1], keys[n])
  <2>1. n \in 0 .. N /\ n - 1 \in 0 .. N
    BY <1>2
  <2>2. /\ 1 .. n \in SUBSET (1 .. N) /\ 1 .. n # {}
        /\ Max(1 .. n) = n
        /\ (1 .. n) \ {n} = 1 .. (n - 1)
    BY <1>2, LastPosition
  <2>3. iter[1 .. n] = Type(iter[1 .. (n - 1)], keys[n])
    BY <1>8, <2>2
  <2> QED
    BY <2>1, <2>3
<1>11. LineOf(keys) = g[N]
  BY <1>1, <1>2
<1> QED
  <2> HIDE DEF g
  <2> QED
    BY <1>9, <1>10, <1>11 DEF Draft

\* The lines of a draft are lines, each at most one character longer than the last.
LEMMA DraftType ==
    ASSUME NEW keys \in Seq(Char), NEW g, Draft(keys, g)
    PROVE  \A n \in 0 .. Len(keys) : g[n] \in Lines /\ Size(g[n]) <= n
<1> DEFINE N == Len(keys)
           Fits == {n \in 0 .. N : g[n] \in Lines /\ Size(g[n]) <= n}
<1>1. N \in Nat
  OBVIOUS
<1>2. 0 \in Fits
  BY EmptyIsLine DEF Draft
<1>3. ASSUME NEW n \in 0 .. (N - 1), n \in Fits PROVE n + 1 \in Fits
  <2>1. n + 1 \in 1 .. N /\ n + 1 - 1 = n /\ keys[n + 1] \in Char
    BY <1>1
  <2>2. g[n + 1] = Type(g[n], keys[n + 1])
    BY <2>1 DEF Draft
  <2>3. g[n] \in Lines /\ Size(g[n]) <= n
    BY <1>3
  <2>4. /\ g[n + 1] \in Lines /\ Size(g[n]) \in Nat /\ Size(g[n + 1]) \in Nat
        /\ Size(g[n + 1]) <= Size(g[n]) + 1
    BY <2>1, <2>2, <2>3, TypeIsLine
  <2>5. Size(g[n + 1]) <= n + 1 /\ n + 1 \in 0 .. N
    BY <1>1, <2>3, <2>4
  <2> QED
    BY <2>4, <2>5
<1>4. \A n \in 0 .. N : n \in Fits
  <2> HIDE DEF Fits, N
  <2> QED
    BY <1>1, <1>2, <1>3, BoundedInduction
<1> QED
  BY <1>4

\* No keys make an empty line; keys make a line no longer than they are.
LEMMA LineOfType ==
    /\ LineOf(<<>>) = EmptyLine
    /\ \A keys \in Seq(Char) :
          LineOf(keys) \in Lines /\ Size(LineOf(keys)) \in Nat
          /\ Size(LineOf(keys)) <= Len(keys)
<1>1. ASSUME NEW keys \in Seq(Char)
      PROVE  /\ LineOf(keys) \in Lines /\ Size(LineOf(keys)) \in Nat
             /\ Size(LineOf(keys)) <= Len(keys)
  <2>1. PICK g : Draft(keys, g)
    BY LineHasDraft
  <2>2. Len(keys) \in 0 .. Len(keys) /\ LineOf(keys) = g[Len(keys)]
    BY <2>1 DEF Draft
  <2>3. LineOf(keys) \in Lines /\ Size(LineOf(keys)) <= Len(keys)
    BY <2>1, <2>2, DraftType
  <2> QED
    BY <2>3, TypeIsLine, CharactersDiffer
<1>2. LineOf(<<>>) = EmptyLine
  <2>1. <<>> \in Seq(Char) /\ Len(<<>>) = 0
    OBVIOUS
  <2>2. PICK g : Draft(<<>>, g)
    BY <2>1, LineHasDraft
  <2> QED
    BY <2>1, <2>2 DEF Draft
<1> QED
  BY <1>1, <1>2

\* One more key is typed into the line that those before it made.
LEMMA LineOfAppend ==
    ASSUME NEW keys \in Seq(Char), NEW c \in Char
    PROVE  LineOf(Append(keys, c)) = Type(LineOf(keys), c)
<1> DEFINE N == Len(keys)
           more == Append(keys, c)
<1>1. /\ more \in Seq(Char) /\ Len(more) = N + 1 /\ N \in Nat
      /\ more[N + 1] = c /\ \A n \in 1 .. N : more[n] = keys[n]
  OBVIOUS
<1>2. PICK g : Draft(keys, g)
  BY LineHasDraft
<1> HIDE DEF more
<1>3. PICK h : Draft(more, h)
  BY <1>1, LineHasDraft
<1> DEFINE Same == {n \in 0 .. N : g[n] = h[n]}
<1>4. 0 \in Same
  BY <1>1, <1>2, <1>3 DEF Draft
<1>5. ASSUME NEW n \in 0 .. (N - 1), n \in Same PROVE n + 1 \in Same
  <2>1. /\ n + 1 \in 1 .. N /\ n + 1 \in 1 .. (N + 1) /\ n + 1 - 1 = n
        /\ n + 1 \in 0 .. N
    BY <1>1
  <2>2. g[n + 1] = Type(g[n], keys[n + 1])
    BY <1>2, <2>1 DEF Draft
  <2>3. h[n + 1] = Type(h[n], keys[n + 1])
    BY <1>1, <1>3, <2>1 DEF Draft
  <2> QED
    BY <1>5, <2>1, <2>2, <2>3
<1>6. g[N] = h[N]
  <2> HIDE DEF Same, N
  <2>1. \A n \in 0 .. N : n \in Same
    BY <1>1, <1>4, <1>5, BoundedInduction
  <2>2. N \in Same
    BY <1>1, <2>1
  <2> QED
    BY <2>2 DEF Same
<1>7. h[N + 1] = Type(h[N], c)
  <2>1. N + 1 \in 1 .. Len(more) /\ N + 1 - 1 = N
    BY <1>1
  <2> QED
    BY <1>1, <1>3, <2>1 DEF Draft
<1>8. LineOf(keys) = g[N] /\ LineOf(more) = h[N + 1]
  BY <1>1, <1>2, <1>3 DEF Draft
<1> QED
  BY <1>6, <1>7, <1>8 DEF more

-----------------------------------------------------------------------------
(* get_line's moves in buf *)

\* The byte of buf at j when it holds the characters b before the insertion point
\* and a behind it, and a newline after them or not.
Cell(b, a, newline, j) ==
    IF j < Len(b) THEN b[j + 1]
    ELSE IF j < Len(b) + Len(a) THEN a[j - Len(b) + 1]
    ELSE IF newline /\ j = Len(b) + Len(a) THEN Newline ELSE NUL

Cells(b, a, newline) == [j \in Index |-> Cell(b, a, newline, j)]

\* buf, length_buf and t hold a line.
Holds(bytes, length, at, line, newline) ==
    /\ bytes = Cells(line.before, line.after, newline)
    /\ length = Size(line)
    /\ at = Len(line.before)

\* A line in two parts, and its length.
LEMMA Parts ==
    ASSUME NEW line \in Lines
    PROVE  /\ line.before \in Seq(LineChar) /\ line.after \in Seq(LineChar)
           /\ Len(line.before) \in Nat /\ Len(line.after) \in Nat
           /\ Size(line) = Len(line.before) + Len(line.after)
<1>1. line.before \in Seq(LineChar) /\ line.after \in Seq(LineChar)
  BY DEF Lines
<1> QED
  BY <1>1 DEF Size

\* The buffer is an array of LINE_SIZE bytes.
LEMMA LineSize == LINE_SIZE \in Nat /\ MaxTyped \in Nat /\ MaxTyped < LINE_SIZE
BY TerminalAssumption DEF TerminalAssumption

\* What a byte is, by where it lies.
LEMMA CellIs ==
    ASSUME NEW b \in Seq(LineChar), NEW a \in Seq(LineChar), NEW j \in Nat
    PROVE  /\ j < Len(b) => Cell(b, a, FALSE, j) = b[j + 1]
           /\ Len(b) <= j /\ j < Len(b) + Len(a) =>
                 Cell(b, a, FALSE, j) = a[j - Len(b) + 1]
           /\ Len(b) + Len(a) <= j => Cell(b, a, FALSE, j) = NUL
<1>1. Len(b) \in Nat /\ Len(a) \in Nat
  OBVIOUS
<1> QED
  BY <1>1 DEF Cell

\* get_line's loop for a character: what lies behind the insertion point moves on.
LEMMA TypeMoves ==
    ASSUME NEW b \in Seq(LineChar), NEW a \in Seq(LineChar), NEW c \in LineChar,
           buf = Cells(b, a, FALSE), length_buf = Len(b) + Len(a), t = Len(b),
           TypeCharacter(c)
    PROVE  /\ buf' = Cells(Append(b, c), a, FALSE)
           /\ length_buf' = Len(Append(b, c)) + Len(a)
           /\ t' = Len(Append(b, c))
<1> DEFINE x == Append(b, c)
           l == Len(x)
           n == Len(b)
           m == Len(a)
<1>1. /\ x \in Seq(LineChar)
      /\ l = n + 1 /\ x[n + 1] = c
      /\ \A k \in 1 .. n : x[k] = b[k]
      /\ n \in Nat /\ m \in Nat
  OBVIOUS
<1>2. length_buf = n + m /\ t = n
  OBVIOUS
<1>3. \A j \in Nat :
          /\ j < n => Cell(b, a, FALSE, j) = b[j + 1]
          /\ n <= j /\ j < n + m => Cell(b, a, FALSE, j) = a[j - n + 1]
          /\ n + m <= j => Cell(b, a, FALSE, j) = NUL
  BY CellIs
<1>4. \A j \in Nat :
          /\ j < l => Cell(x, a, FALSE, j) = x[j + 1]
          /\ l <= j /\ j < l + m => Cell(x, a, FALSE, j) = a[j - l + 1]
          /\ l + m <= j => Cell(x, a, FALSE, j) = NUL
  <2> HIDE DEF x
  <2> QED
    BY <1>1, CellIs
<1>5. \A j \in Index : j \in Nat /\ buf[j] = Cell(b, a, FALSE, j)
  BY LineSize DEF Index, Cells
<1>6. length_buf' = l + m /\ t' = l
  BY <1>1, <1>2 DEF TypeCharacter
<1> HIDE DEF x, l, n, m
<1>7. ASSUME NEW j \in Index
      PROVE  (CASE j = t -> c
                [] t < j /\ j <= length_buf -> buf[j - 1]
                [] OTHER -> buf[j])
             = Cell(x, a, FALSE, j)
  <2>1. j \in Nat
    BY <1>5
  <2>2. CASE j = t
    <3>1. j < l /\ j + 1 = n + 1 /\ ~(t < j)
      BY ONLY <1>1, <1>2, <2>1, <2>2
    <3>2. Cell(x, a, FALSE, j) = c
      BY ONLY <1>1, <1>4, <2>1, <3>1
    <3> QED
      BY ONLY <2>2, <3>1, <3>2
  <2>3. CASE t < j /\ j <= length_buf
    <3>1. j - 1 \in Index
      BY <2>1, <2>3, <1>1, <1>2, LineSize DEF Index
    <3>2. n <= j - 1 /\ j - 1 < n + m /\ j - 1 - n + 1 = j - n
      BY ONLY <1>1, <1>2, <2>1, <2>3
    <3>3. buf[j - 1] = a[j - n]
      BY ONLY <1>3, <1>5, <3>1, <3>2
    <3>4. l <= j /\ j < l + m /\ j - l + 1 = j - n
      BY ONLY <1>1, <1>2, <2>1, <2>3
    <3>5. Cell(x, a, FALSE, j) = a[j - n]
      BY ONLY <1>4, <2>1, <3>4
    <3>6. j # t
      BY ONLY <1>1, <1>2, <2>1, <2>3
    <3> QED
      BY ONLY <2>3, <3>3, <3>5, <3>6
  <2>4. CASE j < t
    <3>1. j + 1 \in 1 .. n /\ j < n /\ j < l /\ j # t /\ ~(t < j)
      BY ONLY <1>1, <1>2, <2>1, <2>4
    <3>2. buf[j] = b[j + 1] /\ Cell(x, a, FALSE, j) = x[j + 1] /\ x[j + 1] = b[j + 1]
      BY ONLY <1>1, <1>3, <1>4, <1>5, <2>1, <3>1
    <3> QED
      BY ONLY <3>1, <3>2
  <2>5. CASE length_buf < j
    <3>1. n + m <= j /\ l + m <= j /\ j # t /\ ~(j <= length_buf)
      BY ONLY <1>1, <1>2, <2>1, <2>5
    <3>2. buf[j] = NUL /\ Cell(x, a, FALSE, j) = NUL
      BY ONLY <1>3, <1>4, <1>5, <2>1, <3>1
    <3> QED
      BY ONLY <3>1, <3>2
  <2>6. j = t \/ (t < j /\ j <= length_buf) \/ j < t \/ length_buf < j
    BY ONLY <1>1, <1>2, <2>1
  <2> QED
    BY ONLY <2>2, <2>3, <2>4, <2>5, <2>6
<1>8. buf' = Cells(x, a, FALSE)
  BY <1>7, Zenon DEF TypeCharacter, Cells
<1> QED
  BY <1>6, <1>8 DEF x, l, m

\* Front drops the last element and keeps the others.
LEMMA FrontElements ==
    ASSUME NEW S, NEW s \in Seq(S), s # <<>>
    PROVE  /\ Front(s) \in Seq(S) /\ Len(Front(s)) = Len(s) - 1
           /\ Len(s) \in Nat /\ Len(s) > 0
           /\ \A k \in 1 .. (Len(s) - 1) : Front(s)[k] = s[k]
           /\ Last(s) = s[Len(s)] /\ Last(s) \in S
<1>1. Len(s) \in Nat /\ Len(s) > 0
  BY EmptySeq
<1>2. \A k \in 1 .. (Len(s) - 1) : SubSeq(s, 1, Len(s) - 1)[k] = s[k]
  BY <1>1
<1> QED
  BY <1>1, <1>2, FrontType DEF Front, Last

\* Its loop for a backspace: what lies behind the insertion point moves back.
LEMMA EraseMoves ==
    ASSUME NEW b \in Seq(LineChar), NEW a \in Seq(LineChar), b # <<>>,
           buf = Cells(b, a, FALSE), length_buf = Len(b) + Len(a), t = Len(b),
           length_buf < LINE_SIZE,
           EraseCharacter
    PROVE  /\ buf' = Cells(Front(b), a, FALSE)
           /\ length_buf' = Len(Front(b)) + Len(a)
           /\ t' = Len(Front(b))
<1> DEFINE x == Front(b)
           l == Len(x)
           n == Len(b)
           m == Len(a)
<1>1. /\ x \in Seq(LineChar)
      /\ l = n - 1
      /\ \A k \in 1 .. (n - 1) : x[k] = b[k]
      /\ l \in Nat /\ n \in Nat /\ m \in Nat /\ n > 0
  <2>1. m \in Nat
    OBVIOUS
  <2>2. n - 1 \in Nat
    BY FrontElements
  <2> QED
    BY <2>1, <2>2, FrontElements
<1>2. length_buf = n + m /\ t = n /\ n + m < LINE_SIZE
  OBVIOUS
<1>3. \A j \in Nat :
          /\ j < n => Cell(b, a, FALSE, j) = b[j + 1]
          /\ n <= j /\ j < n + m => Cell(b, a, FALSE, j) = a[j - n + 1]
          /\ n + m <= j => Cell(b, a, FALSE, j) = NUL
  BY CellIs
<1>4. \A j \in Nat :
          /\ j < l => Cell(x, a, FALSE, j) = x[j + 1]
          /\ l <= j /\ j < l + m => Cell(x, a, FALSE, j) = a[j - l + 1]
          /\ l + m <= j => Cell(x, a, FALSE, j) = NUL
  <2> HIDE DEF x
  <2> QED
    BY <1>1, CellIs
<1>5. \A j \in Index : j \in Nat /\ buf[j] = Cell(b, a, FALSE, j)
  BY LineSize DEF Index, Cells
<1> HIDE DEF x, l, n, m
<1>6. length_buf' = l + m /\ t' = l
  <2>1. t # 0
    BY <1>1, <1>2
  <2>2. length_buf' = length_buf - 1 /\ t' = t - 1
    BY <2>1, Zenon DEF EraseCharacter
  <2>3. n + m - 1 = l + m /\ n - 1 = l
    BY ONLY <1>1
  <2> QED
    BY ONLY <1>1, <1>2, <2>2, <2>3
<1>7. ASSUME NEW j \in Index
      PROVE  (CASE j = length_buf - 1 -> NUL
                [] t - 1 <= j /\ j < length_buf - 1 -> buf[j + 1]
                [] OTHER -> buf[j])
             = Cell(x, a, FALSE, j)
  <2>1. j \in Nat
    BY <1>5
  <2>2. CASE j = length_buf - 1
    <3>1. l + m <= j /\ ~(j < length_buf - 1)
      BY ONLY <1>1, <1>2, <2>1, <2>2
    <3>2. Cell(x, a, FALSE, j) = NUL
      BY ONLY <1>4, <2>1, <3>1
    <3> QED
      BY ONLY <2>2, <3>1, <3>2
  <2>3. CASE t - 1 <= j /\ j < length_buf - 1
    <3> DEFINE k == j + 1
    <3>1. k \in Index /\ k \in Nat
      BY <2>1, <2>3, <1>1, <1>2, LineSize DEF Index
    <3>2. n <= k /\ k < n + m /\ k - n + 1 = j - l + 1
      BY ONLY <1>1, <1>2, <2>1, <2>3
    <3> HIDE DEF k
    <3>3. buf[k] = a[j - l + 1]
      <4>1. Cell(b, a, FALSE, k) = a[k - n + 1]
        BY ONLY <1>3, <3>1, <3>2
      <4>2. buf[k] = Cell(b, a, FALSE, k)
        BY ONLY <1>5, <3>1
      <4> QED
        BY ONLY <3>2, <4>1, <4>2
    <3>4. l <= j /\ j < l + m
      BY ONLY <1>1, <1>2, <2>1, <2>3
    <3>5. Cell(x, a, FALSE, j) = a[j - l + 1]
      BY ONLY <1>4, <2>1, <3>4
    <3>6. j # length_buf - 1
      BY ONLY <1>1, <1>2, <2>1, <2>3
    <3> QED
      BY ONLY <2>3, <3>3, <3>5, <3>6 DEF k
  <2>4. CASE j < t - 1
    <3>1. j + 1 \in 1 .. (n - 1) /\ j < n /\ j < l /\ j # length_buf - 1 /\ ~(t - 1 <= j)
      BY ONLY <1>1, <1>2, <2>1, <2>4
    <3>2. buf[j] = b[j + 1] /\ Cell(x, a, FALSE, j) = x[j + 1] /\ x[j + 1] = b[j + 1]
      BY ONLY <1>1, <1>3, <1>4, <1>5, <2>1, <3>1
    <3> QED
      BY ONLY <3>1, <3>2
  <2>5. CASE length_buf <= j
    <3>1. n + m <= j /\ l + m <= j /\ j # length_buf - 1 /\ ~(j < length_buf - 1)
      BY ONLY <1>1, <1>2, <2>1, <2>5
    <3>2. buf[j] = NUL /\ Cell(x, a, FALSE, j) = NUL
      BY ONLY <1>3, <1>4, <1>5, <2>1, <3>1
    <3> QED
      BY ONLY <3>1, <3>2
  <2>6. \/ j = length_buf - 1
        \/ t - 1 <= j /\ j < length_buf - 1
        \/ j < t - 1
        \/ length_buf <= j
    BY ONLY <1>1, <1>2, <2>1
  <2> QED
    BY ONLY <2>2, <2>3, <2>4, <2>5, <2>6
<1>8. buf' = Cells(x, a, FALSE)
  <2>1. t # 0
    BY <1>1, <1>2
  <2> QED
    BY <1>7, <2>1, Zenon DEF EraseCharacter, Cells
<1> QED
  BY <1>6, <1>8 DEF x, l, m

\* The bytes of a line do not tell where its insertion point is: an arrow moves a
\* character from one part to the other and no byte.
LEMMA SameBytes ==
    ASSUME NEW b \in Seq(LineChar), NEW a \in Seq(LineChar),
           NEW x \in Seq(LineChar), NEW y \in Seq(LineChar),
           Len(b) = Len(x) + 1, Len(y) = Len(a) + 1,
           \A k \in 1 .. Len(x) : x[k] = b[k],
           y[1] = b[Len(b)],
           \A k \in 1 .. Len(a) : y[k + 1] = a[k]
    PROVE  Cells(x, y, FALSE) = Cells(b, a, FALSE)
<1> DEFINE l == Len(x)
           n == Len(b)
           m == Len(a)
           h == Len(y)
<1>1. /\ n = l + 1 /\ h = m + 1 /\ y[1] = b[n]
      /\ \A k \in 1 .. l : x[k] = b[k]
      /\ \A k \in 1 .. m : y[k + 1] = a[k]
      /\ l \in Nat /\ n \in Nat /\ m \in Nat /\ h \in Nat
  OBVIOUS
<1>3. \A j \in Nat :
          /\ j < n => Cell(b, a, FALSE, j) = b[j + 1]
          /\ n <= j /\ j < n + m => Cell(b, a, FALSE, j) = a[j - n + 1]
          /\ n + m <= j => Cell(b, a, FALSE, j) = NUL
  BY CellIs
<1>4. \A j \in Nat :
          /\ j < l => Cell(x, y, FALSE, j) = x[j + 1]
          /\ l <= j /\ j < l + h => Cell(x, y, FALSE, j) = y[j - l + 1]
          /\ l + h <= j => Cell(x, y, FALSE, j) = NUL
  BY CellIs
<1> HIDE DEF l, n, m, h
<1>5. ASSUME NEW j \in Index PROVE Cell(x, y, FALSE, j) = Cell(b, a, FALSE, j)
  <2>1. j \in Nat
    BY LineSize DEF Index
  <2>2. CASE j < l
    <3>1. j < n /\ j + 1 \in 1 .. l
      BY ONLY <1>1, <2>1, <2>2
    <3> QED
      BY ONLY <1>1, <1>3, <1>4, <2>1, <2>2, <3>1
  <2>3. CASE j = l
    <3>1. j < n /\ l <= j /\ j < l + h /\ j - l + 1 = 1 /\ j + 1 = n
      BY ONLY <1>1, <2>1, <2>3
    <3> QED
      BY ONLY <1>1, <1>3, <1>4, <2>1, <3>1
  <2>4. CASE n <= j /\ j < n + m
    <3>1. l <= j /\ j < l + h /\ j - n + 1 \in 1 .. m /\ j - l + 1 = (j - n + 1) + 1
      BY ONLY <1>1, <2>1, <2>4
    <3>2. Cell(x, y, FALSE, j) = y[(j - n + 1) + 1]
      BY ONLY <1>4, <2>1, <3>1
    <3>3. y[(j - n + 1) + 1] = a[j - n + 1]
      BY ONLY <1>1, <3>1
    <3> QED
      BY ONLY <1>3, <2>1, <2>4, <3>2, <3>3
  <2>5. CASE n + m <= j
    <3>1. l + h <= j
      BY ONLY <1>1, <2>1, <2>5
    <3> QED
      BY ONLY <1>3, <1>4, <2>1, <2>5, <3>1
  <2>6. j < l \/ j = l \/ (n <= j /\ j < n + m) \/ n + m <= j
    BY ONLY <1>1, <2>1
  <2> QED
    BY ONLY <2>2, <2>3, <2>4, <2>5, <2>6
<1> QED
  BY <1>5, Zenon DEF Cells

\* What is behind the insertion point tells whether it can move right.
LEMMA ByteAtInsertion ==
    ASSUME NEW b \in Seq(LineChar), NEW a \in Seq(LineChar),
           Len(b) + Len(a) < LINE_SIZE
    PROVE  Cells(b, a, FALSE)[Len(b)] # NUL <=> a # <<>>
<1>1. Len(b) \in Nat /\ Len(a) \in Nat /\ Len(b) \in Index
  BY LineSize DEF Index
<1>2. Cells(b, a, FALSE)[Len(b)] = Cell(b, a, FALSE, Len(b))
  BY <1>1 DEF Cells
<1>3. CASE a = <<>>
  <2>1. Len(b) + Len(a) <= Len(b)
    BY <1>1, <1>3
  <2> QED
    BY <1>1, <1>2, <1>3, <2>1, CellIs
<1>4. CASE a # <<>>
  <2>1. Len(a) > 0
    BY <1>1, <1>4, EmptySeq
  <2>2. a[1] \in LineChar
    BY <1>1, <2>1
  <2>3. Len(b) <= Len(b) /\ Len(b) < Len(b) + Len(a) /\ Len(b) - Len(b) + 1 = 1
    BY <1>1, <2>1
  <2>4. Cell(b, a, FALSE, Len(b)) = a[Len(b) - Len(b) + 1]
    BY <1>1, <2>3, CellIs
  <2> QED
    BY <1>2, <1>4, <2>2, <2>3, <2>4, CharactersDiffer DEF LineChar
<1> QED
  BY <1>3, <1>4

\* While there is room, a key does to buf what it does to the line.
LEMMA EditHolds ==
    ASSUME NEW line \in Lines, NEW c \in Char,
           Holds(buf, length_buf, t, line, FALSE), Size(line) < LINE_SIZE
    PROVE  /\ ~DoesNotFit(c)
           /\ Edit(c) => Holds(buf', length_buf', t', Type(line, c), c = Newline)
<1> DEFINE b == line.before
           a == line.after
<1>1. /\ b \in Seq(LineChar) /\ a \in Seq(LineChar)
      /\ Len(b) \in Nat /\ Len(a) \in Nat
      /\ Size(line) = Len(b) + Len(a)
  BY Parts
<1>2. /\ buf = Cells(b, a, FALSE) /\ length_buf = Len(b) + Len(a) /\ t = Len(b)
      /\ length_buf < LINE_SIZE
  BY <1>1 DEF Holds
<1>3. ~DoesNotFit(c)
  <2> HIDE DEF b, a
  <2>1. length_buf # LINE_SIZE /\ t # LINE_SIZE /\ ~(t > 0 /\ length_buf = 0)
    BY <1>1, <1>2, LineSize
  <2> QED
    BY <2>1 DEF DoesNotFit
<1>4. ASSUME NEW x \in Seq(LineChar), NEW y \in Seq(LineChar),
             buf' = Cells(x, y, FALSE), length_buf' = Len(x) + Len(y), t' = Len(x)
      PROVE  Holds(buf', length_buf', t', [before |-> x, after |-> y], FALSE)
  BY <1>4 DEF Holds, Size
<1>5. ASSUME UNCHANGED <<buf, length_buf, t>>
      PROVE  Holds(buf', length_buf', t', line, FALSE)
  BY <1>5
<1> HIDE DEF b, a
<1> SUFFICES ASSUME Edit(c) PROVE Holds(buf', length_buf', t', Type(line, c), c = Newline)
  BY <1>3
<1>6. CASE c = Newline
  <2>1. EnterLine
    BY <1>6, CharactersDiffer DEF Edit
  <2>2. Type(line, c) = line
    BY <1>6, TypeIs
  <2>3. length_buf \in Index
    BY <1>1, <1>2, LineSize DEF Index
  <2>4. ASSUME NEW j \in Index
        PROVE  [buf EXCEPT ![length_buf] = Newline][j] = Cell(b, a, TRUE, j)
    <3>1. j \in Nat /\ buf[j] = Cell(b, a, FALSE, j)
      BY <1>2, LineSize DEF Index, Cells
    <3>2. DOMAIN buf = Index
      BY <1>2 DEF Cells
    <3>3. CASE j = length_buf
      <4>1. ~(j < Len(b)) /\ ~(j < Len(b) + Len(a)) /\ j = Len(b) + Len(a)
        BY <1>1, <1>2, <3>3
      <4>2. Cell(b, a, TRUE, j) = Newline
        BY <4>1, Zenon DEF Cell
      <4> QED
        BY <3>2, <3>3, <4>2
    <3>4. CASE j # length_buf
      <4>1. Cell(b, a, TRUE, j) = Cell(b, a, FALSE, j)
        BY <1>1, <1>2, <3>1, <3>4 DEF Cell
      <4> QED
        BY <3>1, <3>2, <3>4, <4>1
    <3> QED
      BY <3>3, <3>4
  <2>5. buf' = [j \in Index |-> [buf EXCEPT ![length_buf] = Newline][j]]
    <3>1. buf = [j \in Index |-> buf[j]]
      BY <1>2 DEF Cells
    <3> QED
      BY <2>1, <3>1 DEF EnterLine
  <2>6. buf' = Cells(b, a, TRUE)
    BY <2>4, <2>5, Zenon DEF Cells
  <2>7. length_buf' = length_buf /\ t' = t
    BY <2>1 DEF EnterLine
  <2> QED
    BY <1>1, <1>2, <1>6, <2>2, <2>6, <2>7 DEF Holds, b, a
<1>7. CASE c = Backspace
  <2>1. EraseCharacter /\ c # Newline
    BY <1>7, CharactersDiffer DEF Edit
  <2>2. CASE b = <<>>
    <3>1. t = 0
      BY <1>2, <2>2
    <3>2. UNCHANGED <<buf, length_buf, t>>
      BY <2>1, <3>1, Zenon DEF EraseCharacter
    <3>3. Type(line, c) = line
      BY <1>7, <2>2, TypeIs DEF b
    <3> QED
      BY <1>5, <2>1, <3>2, <3>3
  <2>3. CASE b # <<>>
    <3>1. /\ buf' = Cells(Front(b), a, FALSE)
          /\ length_buf' = Len(Front(b)) + Len(a) /\ t' = Len(Front(b))
      BY <1>1, <1>2, <2>1, <2>3, EraseMoves
    <3>2. Front(b) \in Seq(LineChar)
      BY <1>1, <2>3, FrontElements
    <3>3. Holds(buf', length_buf', t', [before |-> Front(b), after |-> a], FALSE)
      BY <1>1, <1>4, <3>1, <3>2
    <3>4. Type(line, c) = [before |-> Front(b), after |-> a]
      BY <1>7, <2>3, TypeIs DEF b, a
    <3> QED
      BY <2>1, <3>3, <3>4
  <2> QED
    BY <2>2, <2>3
<1>8. CASE c = LEFT_ARROW
  <2>1. MoveLeft /\ c # Newline
    BY <1>8, CharactersDiffer DEF Edit
  <2>2. CASE b = <<>>
    <3>1. t = 0
      BY <1>2, <2>2
    <3>2. UNCHANGED <<buf, length_buf, t>>
      BY <2>1, <3>1 DEF MoveLeft
    <3>3. Type(line, c) = line
      BY <1>8, <2>2, TypeIs DEF b
    <3> QED
      BY <1>5, <2>1, <3>2, <3>3
  <2>3. CASE b # <<>>
    <3> DEFINE x == Front(b)
               y == <<Last(b)>> \o a
    <3>1. /\ x \in Seq(LineChar) /\ Len(x) = Len(b) - 1 /\ Len(b) > 0
          /\ \A k \in 1 .. (Len(b) - 1) : x[k] = b[k]
          /\ Last(b) = b[Len(b)] /\ Last(b) \in LineChar
      BY <1>1, <2>3, FrontElements
    <3>2. /\ y \in Seq(LineChar) /\ Len(y) = Len(a) + 1 /\ y[1] = b[Len(b)]
          /\ \A k \in 1 .. Len(a) : y[k + 1] = a[k]
      BY <1>1, <3>1
    <3>3. Type(line, c) = [before |-> x, after |-> y]
      BY <1>8, <2>3, TypeIs DEF b, a
    <3> HIDE DEF x, y
    <3>4. Len(b) = Len(x) + 1 /\ \A k \in 1 .. Len(x) : x[k] = b[k]
      BY <1>1, <3>1
    <3>5. Cells(x, y, FALSE) = Cells(b, a, FALSE)
      BY <1>1, <3>1, <3>2, <3>4, SameBytes
    <3>6. buf' = buf /\ length_buf' = length_buf /\ t' = t - 1
      BY <1>1, <1>2, <2>1, <3>1 DEF MoveLeft
    <3>7. length_buf' = Len(x) + Len(y) /\ t' = Len(x)
      BY <1>1, <1>2, <3>1, <3>2, <3>6
    <3>8. Holds(buf', length_buf', t', [before |-> x, after |-> y], FALSE)
      BY <1>2, <1>4, <3>1, <3>2, <3>5, <3>6, <3>7
    <3> QED
      BY <2>1, <3>3, <3>8
  <2> QED
    BY <2>2, <2>3
<1>9. CASE c = RIGHT_ARROW
  <2>1. MoveRight /\ c # Newline
    BY <1>9, CharactersDiffer DEF Edit
  <2>2. buf[t] # NUL <=> a # <<>>
    BY <1>1, <1>2, ByteAtInsertion
  <2>3. t < LINE_SIZE
    BY <1>1, <1>2, LineSize
  <2>4. CASE a = <<>>
    <3>1. UNCHANGED <<buf, length_buf, t>>
      BY <2>1, <2>2, <2>4 DEF MoveRight
    <3>2. Type(line, c) = line
      BY <1>9, <2>4, TypeIs DEF a
    <3> QED
      BY <1>5, <2>1, <3>1, <3>2
  <2>5. CASE a # <<>>
    <3> DEFINE x == Append(b, Head(a))
               y == Tail(a)
    <3>1. Len(a) > 0
      BY <1>1, <2>5, EmptySeq
    <3>2. /\ x \in Seq(LineChar) /\ Len(x) = Len(b) + 1 /\ x[Len(x)] = a[1]
          /\ \A k \in 1 .. Len(b) : b[k] = x[k]
      BY <1>1, <2>5
    <3>3. /\ y \in Seq(LineChar) /\ Len(a) = Len(y) + 1
          /\ \A k \in 1 .. Len(y) : a[k + 1] = y[k]
      BY <1>1, <2>5, <3>1
    <3>4. Type(line, c) = [before |-> x, after |-> y]
      BY <1>9, <2>5, TypeIs DEF b, a
    <3> HIDE DEF x, y
    <3>5. Cells(b, a, FALSE) = Cells(x, y, FALSE)
      BY <1>1, <3>2, <3>3, SameBytes
    <3>6. buf' = buf /\ length_buf' = length_buf /\ t' = t + 1
      BY <2>1, <2>2, <2>3, <2>5 DEF MoveRight
    <3>7. length_buf' = Len(x) + Len(y) /\ t' = Len(x)
      <4>1. Len(y) \in Nat
        BY <3>3
      <4>2. length_buf = Len(x) + Len(y) /\ t + 1 = Len(x)
        BY ONLY <1>1, <1>2, <3>2, <3>3, <4>1
      <4> QED
        BY <3>6, <4>2
    <3>8. Holds(buf', length_buf', t', [before |-> x, after |-> y], FALSE)
      BY <1>2, <1>4, <3>2, <3>3, <3>5, <3>6, <3>7
    <3> QED
      BY <2>1, <3>4, <3>8
  <2> QED
    BY <2>4, <2>5
<1>10. CASE c \notin {Backspace, LEFT_ARROW, RIGHT_ARROW, Newline}
  <2>1. TypeCharacter(c) /\ c \in LineChar /\ c # Newline
    BY <1>10 DEF Edit, LineChar
  <2>2. /\ buf' = Cells(Append(b, c), a, FALSE)
        /\ length_buf' = Len(Append(b, c)) + Len(a) /\ t' = Len(Append(b, c))
    BY <1>1, <1>2, <2>1, TypeMoves
  <2>3. Append(b, c) \in Seq(LineChar)
    BY <1>1, <2>1
  <2>4. Holds(buf', length_buf', t', [before |-> Append(b, c), after |-> a], FALSE)
    BY <1>1, <1>4, <2>2, <2>3
  <2>5. Type(line, c) = [before |-> Append(b, c), after |-> a]
    BY <1>10, TypeIs DEF b, a
  <2> QED
    BY <2>1, <2>4, <2>5
<1> QED
  BY <1>6, <1>7, <1>8, <1>9, <1>10

-----------------------------------------------------------------------------
(* The text in buf *)

\* Its length is where the first zero is.
LEMMA FirstZero ==
    ASSUME NEW n \in Index, buf[n] = NUL, \A j \in 0 .. (n - 1) : buf[j] # NUL
    PROVE  Terminated /\ TextLength = n
<1>1. ASSUME NEW k \in Index, buf[k] = NUL, \A j \in 0 .. (k - 1) : buf[j] # NUL
      PROVE  k = n
  <2>1. k \in Nat /\ n \in Nat
    BY LineSize DEF Index
  <2>2. k < n => k \in 0 .. (n - 1)
    BY <2>1
  <2>3. n < k => n \in 0 .. (k - 1)
    BY <2>1
  <2> QED
    BY <1>1, <2>1, <2>2, <2>3
<1>2. Terminated
  BY Zenon DEF Terminated
<1>3. TextLength = n
  BY <1>1 DEF TextLength
<1> QED
  BY <1>2, <1>3

\* It has no zeros.
LEMMA TextType ==
    ASSUME buf \in [Index -> Char \cup {NUL}], Terminated
    PROVE  TextLength \in Index /\ Text \in Seq(Char)
<1> DEFINE Zeros == {n \in Index : buf[n] = NUL}
<1>1. Zeros # {} /\ Zeros \in SUBSET Nat
  BY LineSize DEF Terminated, Index
<1>2. PICK n \in Zeros : \A k \in Zeros : n <= k
  <2> HIDE DEF Zeros
  <2> QED
    BY <1>1, HasLeast
<1>3. n \in Nat /\ n \in Index /\ n <= LINE_SIZE - 1 /\ LINE_SIZE \in Nat
  BY LineSize DEF Index
<1>4. ASSUME NEW j \in 0 .. (n - 1) PROVE j \in Index /\ buf[j] # NUL
  <2>1. j \in Index /\ ~(n <= j)
    BY <1>3 DEF Index
  <2> QED
    BY <1>2, <2>1
<1>5. TextLength = n
  BY <1>2, <1>3, <1>4, FirstZero
<1>6. ASSUME NEW j \in 1 .. n PROVE buf[j - 1] \in Char
  <2>1. j - 1 \in 0 .. (n - 1)
    BY <1>3
  <2> QED
    BY <1>4, <2>1
<1>7. Text \in [1 .. n -> Char]
  BY <1>5, <1>6 DEF Text
<1> QED
  BY <1>3, <1>5, <1>7

\* The text of a line is its characters, and the newline if there is one.
LEMMA TextOfLine ==
    ASSUME NEW line \in Lines, NEW newline \in BOOLEAN,
           buf = Cells(line.before, line.after, newline),
           Size(line) < LINE_SIZE, newline => Size(line) + 1 < LINE_SIZE
    PROVE  /\ Terminated
           /\ newline => /\ TextLength = Size(line) + 1
                         /\ Text[Size(line) + 1] = Newline
           /\ ~newline => TextLength = Size(line)
           /\ \A n \in 1 .. Size(line) : Text[n] # Newline
<1> DEFINE b == line.before
           a == line.after
           z == Size(line)
<1>1. /\ b \in Seq(LineChar) /\ a \in Seq(LineChar)
      /\ Len(b) \in Nat /\ Len(a) \in Nat
      /\ z = Len(b) + Len(a) /\ z \in Nat
  <2>1. /\ b \in Seq(LineChar) /\ a \in Seq(LineChar)
        /\ Len(b) \in Nat /\ Len(a) \in Nat
        /\ z = Len(b) + Len(a)
    BY Parts, Zenon
  <2> HIDE DEF z, b, a
  <2> QED
    BY <2>1
<1>2. buf = Cells(b, a, newline) /\ z < LINE_SIZE /\ (newline => z + 1 < LINE_SIZE)
  OBVIOUS
<1> HIDE DEF b, a, z
<1>3. \A j \in Index : j \in Nat /\ buf[j] = Cell(b, a, newline, j)
  BY <1>2, LineSize DEF Index, Cells
<1>4. ASSUME NEW j \in 0 .. (z - 1)
      PROVE  j \in Index /\ buf[j] \in LineChar
  <2>1. j \in Index /\ j \in Nat /\ j < z
    BY <1>1, <1>2, LineSize DEF Index
  <2>2. CASE j < Len(b)
    <3>1. j + 1 \in 1 .. Len(b)
      BY <1>1, <2>1, <2>2
    <3>2. Cell(b, a, newline, j) = b[j + 1]
      BY <2>2 DEF Cell
    <3>3. b[j + 1] \in LineChar
      BY <1>1, <3>1
    <3> QED
      BY <1>3, <2>1, <3>2, <3>3
  <2>3. CASE ~(j < Len(b))
    <3>1. j - Len(b) + 1 \in 1 .. Len(a) /\ j < Len(b) + Len(a)
      BY <1>1, <2>1, <2>3
    <3>2. Cell(b, a, newline, j) = a[j - Len(b) + 1]
      BY <2>3, <3>1 DEF Cell
    <3>3. a[j - Len(b) + 1] \in LineChar
      BY <1>1, <3>1
    <3> QED
      BY <1>3, <2>1, <3>2, <3>3
  <2> QED
    BY <2>2, <2>3
<1>5. z \in Index /\ ~(z < Len(b)) /\ ~(z < Len(b) + Len(a))
  BY <1>1, <1>2, LineSize DEF Index
<1>6. \A ch \in LineChar : ch # NUL /\ ch # Newline
  BY CharactersDiffer DEF LineChar
<1>7. CASE newline
  <2>1. buf[z] = Newline
    <3>1. Cell(b, a, newline, z) = Newline
      BY <1>1, <1>5, <1>7 DEF Cell
    <3> QED
      BY <1>3, <1>5, <3>1
  <2> DEFINE k == z + 1
  <2>2. k \in Index /\ ~(k < Len(b)) /\ ~(k < Len(b) + Len(a))
        /\ k # Len(b) + Len(a)
    BY <1>1, <1>2, <1>7, LineSize DEF Index
  <2>k. k \in 1 .. k /\ k - 1 = z /\ k \in Nat
    BY <1>1
  <2>4. \A j \in 0 .. (k - 1) : buf[j] # NUL
    <3>1. \A j \in 0 .. (k - 1) : j = z \/ j \in 0 .. (z - 1)
      BY <1>1
    <3>2. Newline # NUL
      BY CharactersDiffer
    <3> QED
      BY <1>4, <1>6, <2>1, <3>1, <3>2
  <2> HIDE DEF k
  <2>3. buf[k] = NUL
    <3>1. Cell(b, a, newline, k) = NUL
      BY <2>2 DEF Cell
    <3> QED
      BY <1>3, <2>2, <3>1
  <2>5. Terminated /\ TextLength = k
    BY <2>2, <2>3, <2>4, FirstZero
  <2>7. Text[k] = Newline
    BY <2>1, <2>k, <2>5 DEF Text
  <2>8. ASSUME NEW n \in 1 .. z PROVE Text[n] # Newline
    <3>1. n \in 1 .. TextLength /\ n - 1 \in 0 .. (z - 1)
      BY <1>1, <2>k, <2>5
    <3> QED
      BY <1>4, <1>6, <3>1 DEF Text
  <2> QED
    BY <1>7, <2>5, <2>7, <2>8 DEF z, k
<1>8. CASE ~newline
  <2>1. buf[z] = NUL
    <3>1. Cell(b, a, newline, z) = NUL
      BY <1>5, <1>8 DEF Cell
    <3> QED
      BY <1>3, <1>5, <3>1
  <2>2. \A j \in 0 .. (z - 1) : buf[j] # NUL
    BY <1>4, <1>6
  <2>3. Terminated /\ TextLength = z
    BY <1>5, <2>1, <2>2, FirstZero
  <2>4. ASSUME NEW n \in 1 .. z PROVE Text[n] # Newline
    <3>1. n \in 1 .. TextLength /\ n - 1 \in 0 .. (z - 1)
      BY <1>1, <2>3
    <3> QED
      BY <1>4, <1>6, <3>1 DEF Text
  <2> QED
    BY <1>8, <2>3, <2>4 DEF z
<1> QED
  BY <1>7, <1>8

\* Nothing is in a cleared buffer.
LEMMA BlankText ==
    ASSUME buf = Blank
    PROVE  Terminated /\ Text = <<>>
<1>1. 0 \in Index
  BY LineSize DEF Index
<1>2. buf[0] = NUL /\ \A j \in 0 .. (0 - 1) : buf[j] # NUL
  BY <1>1 DEF Blank
<1>3. Terminated /\ TextLength = 0
  BY <1>1, <1>2, FirstZero
<1>4. Text = <<>>
  BY <1>3 DEF Text
<1> QED
  BY <1>3, <1>4

-----------------------------------------------------------------------------
(* Types *)

\* What poll leaves in temp is a sequence no longer than the driver's buffer.
LEMMA OverlayType ==
    ASSUME NEW S, command \in Seq(S), temp \in Seq(S),
           Len(command) <= MAX_COMMAND_LENGTH, Len(temp) <= MAX_COMMAND_LENGTH
    PROVE  Overlay \in Seq(S) /\ Len(Overlay) <= MAX_COMMAND_LENGTH
<1> DEFINE n == Len(command)
           m == Len(temp)
           rest == SubSeq(temp, n + 1, m)
<1>1. n \in Nat /\ m \in Nat /\ n <= MAX_COMMAND_LENGTH /\ m <= MAX_COMMAND_LENGTH
  OBVIOUS
<1>2. \A j \in (n + 1) .. m : temp[j] \in S
  BY <1>1
<1> HIDE DEF n, m
<1>3. rest \in Seq(S) /\ Len(rest) = IF n + 1 <= m THEN m - (n + 1) + 1 ELSE 0
  <2>1. n + 1 \in Int /\ m \in Int
    BY <1>1
  <2> QED
    BY <1>2, <2>1, SubSeqProperties
<1> HIDE DEF rest
<1>4. command \o rest \in Seq(S) /\ Len(command \o rest) = n + Len(rest)
  BY <1>3, ConcatProperties DEF n
<1>5. n + Len(rest) <= MAX_COMMAND_LENGTH
  BY <1>1, <1>3
<1> QED
  BY <1>4, <1>5 DEF Overlay, rest, n, m

\* The parts of TypeOK that a step of get_line changes together.
BufferTypeOK ==
    /\ buf \in [Index -> Char \cup {NUL}]
    /\ length_buf \in 0 .. LINE_SIZE
    /\ t \in 0 .. LINE_SIZE

PollTypeOK ==
    /\ temp \in Seq(Char \cup {NUL}) /\ Len(temp) <= MAX_COMMAND_LENGTH
    /\ i \in 1 .. (Len(temp) + 1)

HistoryTypeOK ==
    /\ drawn \in [at : Nat, text : Seq(Char)]
    /\ typed \in Seq(Char)
    /\ orderly \in BOOLEAN

ControlTypeOK ==
    /\ pc \in {"run", "info", "enter", "clear", "home", "put",
               "poll", "edit", "redraw", "draw", "move", "returned",
               "overrun"}
    /\ idx \in 0 .. INFO_LENGTH
    /\ framebuffer_state \in Nat
    /\ start \in Nat

\* Together with the driver's and the shell's own they are all of it.
LEMMA TypeOKParts ==
    TypeOK <=> /\ KeyboardTypeOK /\ ControlTypeOK
               /\ BufferTypeOK /\ PollTypeOK /\ HistoryTypeOK
BY DEF TypeOK, ControlTypeOK, BufferTypeOK, PollTypeOK, HistoryTypeOK

\* An edit of buf stays within it.
LEMMA EditKeepsBuffer ==
    ASSUME BufferTypeOK, NEW c \in Char \cup {NUL}, Edit(c)
    PROVE  BufferTypeOK'
<1>0. /\ buf \in [Index -> Char \cup {NUL}]
      /\ length_buf \in 0 .. LINE_SIZE /\ t \in 0 .. LINE_SIZE
      /\ LINE_SIZE \in Nat /\ Newline \in Char
  BY LineSize, CharactersDiffer DEF BufferTypeOK
<1>1. CASE EraseCharacter
  <2>1. CASE t = 0
    <3>1. UNCHANGED <<buf, length_buf, t>>
      BY <1>1, <2>1, Zenon DEF EraseCharacter
    <3> QED
      BY <3>1 DEF BufferTypeOK
  <2>2. CASE t # 0
    <3>1. /\ length_buf > 0 /\ length_buf' = length_buf - 1 /\ t' = t - 1
          /\ buf' = [j \in Index |->
                      CASE j = length_buf - 1 -> NUL
                        [] t - 1 <= j /\ j < length_buf - 1 -> buf[j + 1]
                        [] OTHER -> buf[j]]
      BY <1>1, <2>2, Zenon DEF EraseCharacter
    <3>2. ASSUME NEW j \in Index
          PROVE  (CASE j = length_buf - 1 -> NUL
                    [] t - 1 <= j /\ j < length_buf - 1 -> buf[j + 1]
                    [] OTHER -> buf[j]) \in Char \cup {NUL}
      <4>1. j < length_buf - 1 => j + 1 \in Index
        BY <1>0 DEF Index
      <4>2. buf[j] \in Char \cup {NUL}
        BY <1>0
      <4>3. j < length_buf - 1 => buf[j + 1] \in Char \cup {NUL}
        BY <1>0, <4>1
      <4>4. j = length_buf - 1 => ~(t - 1 <= j /\ j < length_buf - 1)
        BY <1>0
      <4> QED
        BY <4>2, <4>3, <4>4
    <3>3. buf' \in [Index -> Char \cup {NUL}]
      BY <3>1, <3>2, Zenon
    <3>4. length_buf' \in 0 .. LINE_SIZE /\ t' \in 0 .. LINE_SIZE
      BY <1>0, <2>2, <3>1
    <3> QED
      BY <3>3, <3>4 DEF BufferTypeOK
  <2> QED
    BY <2>1, <2>2
<1>2. CASE MoveLeft
  BY <1>0, <1>2 DEF MoveLeft, BufferTypeOK
<1>3. CASE MoveRight
  BY <1>0, <1>3 DEF MoveRight, BufferTypeOK
<1>4. CASE EnterLine
  BY <1>0, <1>4 DEF EnterLine, BufferTypeOK
<1>5. CASE TypeCharacter(c)
  <2>1. ASSUME NEW j \in Index
        PROVE  (CASE j = t -> c
                  [] t < j /\ j <= length_buf -> buf[j - 1]
                  [] OTHER -> buf[j]) \in Char \cup {NUL}
    <3>1. t < j => j - 1 \in Index
      BY <1>0 DEF Index
    <3>2. buf[j] \in Char \cup {NUL}
      BY <1>0
    <3>3. t < j => buf[j - 1] \in Char \cup {NUL}
      BY <1>0, <3>1
    <3>4. j = t => ~(t < j /\ j <= length_buf)
      BY <1>0
    <3> QED
      BY <3>2, <3>3, <3>4
  <2>2. buf' \in [Index -> Char \cup {NUL}]
    BY <1>5, <2>1, Zenon DEF TypeCharacter
  <2>3. length_buf' \in 0 .. LINE_SIZE /\ t' \in 0 .. LINE_SIZE
    BY <1>0, <1>5 DEF TypeCharacter
  <2> QED
    BY <2>2, <2>3 DEF BufferTypeOK
<1> QED
  BY <1>1, <1>2, <1>3, <1>4, <1>5 DEF Edit

\* A key leaves the cursor at a position.
LEMMA KeyboardKeepsCursor ==
    ASSUME framebuffer_state \in Nat, KeyboardInterrupt
    PROVE  framebuffer_state' \in Nat
<1>1. ASSUME NEW key \in Keys, KeyDown(key)
      PROVE  framebuffer_state' \in Nat
  BY <1>1 DEF KeyDown, insert_at_cursor, Stride
<1> QED
  BY <1>1 DEF KeyboardInterrupt, ShiftDownOrUp, CapsLock

\* Every step of the shell keeps the types.
LEMMA ShellKeepsTypes ==
    ASSUME TypeOK, Shell
    PROVE  ControlTypeOK' /\ BufferTypeOK' /\ PollTypeOK' /\ HistoryTypeOK'
<1>t. /\ KeyboardTypeOK /\ ControlTypeOK
      /\ BufferTypeOK /\ PollTypeOK /\ HistoryTypeOK
  BY TypeOKParts
<1>c. /\ framebuffer_state \in Nat /\ start \in Nat
      /\ idx \in 0 .. INFO_LENGTH /\ INFO_LENGTH \in Nat
      /\ t \in Nat /\ length_buf \in Nat
  BY <1>t, TerminalAssumption, LineSize
     DEF ControlTypeOK, BufferTypeOK, TerminalAssumption
<1>l. UNCHANGED lineVars =>
         start' = start /\ BufferTypeOK' /\ PollTypeOK' /\ HistoryTypeOK'
  BY <1>t DEF lineVars, BufferTypeOK, PollTypeOK, HistoryTypeOK
<1>p. UNCHANGED <<buf, length_buf, t>> => BufferTypeOK'
  BY <1>t DEF BufferTypeOK
<1>q. UNCHANGED <<temp, i>> => PollTypeOK'
  BY <1>t DEF PollTypeOK
<1>h. UNCHANGED <<drawn, typed, orderly>> => HistoryTypeOK'
  BY <1>t DEF HistoryTypeOK
<1>e. <<>> \in Seq(Char) /\ <<>> \in Seq(Char \cup {NUL}) /\ Len(<<>>) = 0
  OBVIOUS
<1>1. CASE AskCursor
  BY <1>1, <1>c, <1>l DEF AskCursor, GoTo, ControlTypeOK
<1>2. CASE PutInfo
  <2>1. framebuffer_state' \in Nat
    BY <1>2, <1>c, AdvanceType DEF PutInfo, kernel_put_char
  <2>2. idx' \in 0 .. INFO_LENGTH /\ pc' \in {"info", "enter"}
    BY <1>2, <1>c DEF PutInfo, GoTo
  <2> QED
    BY <1>2, <2>1, <2>2, <1>c, <1>l DEF PutInfo, ControlTypeOK
<1>3. CASE PollForEnter
  <2>1. HistoryTypeOK'
    BY <1>3, <1>t, <1>e DEF PollForEnter, HistoryTypeOK
  <2> QED
    BY <1>3, <2>1, <1>c, <1>p, <1>q DEF PollForEnter, GoTo, ControlTypeOK
<1>4. CASE ClearScreen
  BY <1>4, <1>c, <1>l DEF ClearScreen, GoTo, ControlTypeOK
<1>5. CASE CursorHome
  BY <1>5, <1>c, <1>l DEF CursorHome, GoTo, framebuffer_set_cursor, ControlTypeOK
<1>6. CASE PutChar
  <2>1. framebuffer_state' \in Nat
    BY <1>6, <1>c, AdvanceType DEF PutChar, kernel_put_char
  <2> QED
    BY <1>6, <2>1, <1>c, <1>l DEF PutChar, GoTo, ControlTypeOK
<1>7. CASE BeginLine
  <2>1. HistoryTypeOK'
    <3>1. drawn' \in [at : Nat, text : Seq(Char)]
      BY <1>7, <1>c, <1>e DEF BeginLine
    <3> QED
      BY <1>7, <3>1, <1>t DEF BeginLine, HistoryTypeOK
  <2> QED
    BY <1>7, <2>1, <1>c, <1>p, <1>q DEF BeginLine, GoTo, ControlTypeOK
<1>8. CASE PollKeys
  <2>1. /\ command \in Seq(Char) /\ Len(command) <= MAX_COMMAND_LENGTH
        /\ pressed \in Seq(Char)
    BY <1>t DEF KeyboardTypeOK
  <2>2. command \in Seq(Char \cup {NUL})
    BY <2>1
  <2>3. Overlay \in Seq(Char \cup {NUL}) /\ Len(Overlay) <= MAX_COMMAND_LENGTH
    BY <1>t, <2>1, <2>2, OverlayType DEF PollTypeOK
  <2>4. PollTypeOK'
    <3>1. temp' = Overlay /\ i' = 1
      BY <1>8 DEF PollKeys
    <3>2. 1 \in 1 .. (Len(Overlay) + 1)
      BY <2>3
    <3> QED
      BY <2>3, <3>1, <3>2 DEF PollTypeOK
  <2>5. HistoryTypeOK'
    <3>1. orderly' \in BOOLEAN
      BY <1>8, <1>t DEF PollKeys, HistoryTypeOK
    <3>2. typed' \in Seq(Char)
      <4>1. typed \in Seq(Char)
        BY <1>t DEF HistoryTypeOK
      <4>2. typed \o pressed \in Seq(Char)
        BY <2>1, <4>1
      <4> QED
        BY <1>8, <4>2, <1>e DEF PollKeys
    <3> QED
      BY <1>8, <3>1, <3>2, <1>t DEF PollKeys, HistoryTypeOK
  <2> QED
    BY <1>8, <2>4, <2>5, <1>c, <1>p DEF PollKeys, GoTo, ControlTypeOK
<1>9. CASE EditKey
  <2>1. temp[i] \in Char \cup {NUL}
    BY <1>9, <1>t DEF EditKey, PollTypeOK
  <2>2. BufferTypeOK'
    BY <1>9, <1>t, <1>p, <2>1, EditKeepsBuffer DEF EditKey
  <2>3. PollTypeOK'
    BY <1>9, <1>t DEF EditKey, PollTypeOK
  <2> QED
    BY <1>9, <2>2, <2>3, <1>c, <1>h DEF EditKey, GoTo, ControlTypeOK
<1>10. CASE KeysUsedUp
  <2>1. PollTypeOK'
    BY <1>10, <1>t DEF KeysUsedUp, PollTypeOK
  <2> QED
    BY <1>10, <2>1, <1>c, <1>p, <1>h DEF KeysUsedUp, GoTo, ControlTypeOK
<1>11. CASE CursorToStart
  BY <1>11, <1>c, <1>l DEF CursorToStart, GoTo, framebuffer_set_cursor, ControlTypeOK
<1>12. CASE DrawLine
  <2>1. framebuffer_state' \in Nat /\ HistoryTypeOK'
    <3>1. CASE Terminated
      <4>1. Text \in Seq(Char)
        BY <1>t, <3>1, TextType DEF BufferTypeOK
      <4>2. After(framebuffer_state, Text) \in Nat
        BY <1>c, <4>1, AfterType
      <4> QED
        BY <1>12, <1>t, <1>c, <3>1, <4>1, <4>2 DEF DrawLine, HistoryTypeOK
    <3>2. CASE ~Terminated
      BY <1>12, <1>c, <1>h, <3>2 DEF DrawLine
    <3> QED
      BY <3>1, <3>2
  <2> QED
    BY <1>12, <2>1, <1>c, <1>p, <1>q DEF DrawLine, GoTo, ControlTypeOK
<1>13. CASE CursorToInsertion
  <2>1. framebuffer_state' \in Nat
    BY <1>13, <1>c DEF CursorToInsertion, framebuffer_set_cursor
  <2>2. BufferTypeOK'
    BY <1>13, <1>t DEF CursorToInsertion, FinishTurn, BufferTypeOK
  <2>3. PollTypeOK'
    <3>1. temp \in Seq(Char \cup {NUL}) /\ NUL \in Char \cup {NUL}
      BY <1>t DEF PollTypeOK
    <3>2. [temp EXCEPT ![1] = NUL] \in Seq(Char \cup {NUL})
          /\ Len([temp EXCEPT ![1] = NUL]) = Len(temp)
      <4>1. CASE Len(temp) = 0
        <5>1. temp = <<>> /\ 1 \notin DOMAIN temp
          BY <3>1, <4>1
        <5>2. [temp EXCEPT ![1] = NUL] = temp
          BY <5>1
        <5> QED
          BY <3>1, <5>2
      <4>2. CASE Len(temp) # 0
        <5>1. 1 \in 1 .. Len(temp)
          BY <3>1, <4>2
        <5> QED
          BY <3>1, <5>1, ExceptSeq
      <4> QED
        BY <4>1, <4>2
    <3> QED
      BY <1>13, <1>t, <3>2 DEF CursorToInsertion, FinishTurn, PollTypeOK
  <2>4. /\ pc' \in {"returned", "poll"}
        /\ UNCHANGED <<idx, start, drawn, typed, orderly>>
    BY <1>13 DEF CursorToInsertion, FinishTurn, GoTo
  <2> QED
    BY <2>1, <2>2, <2>3, <2>4, <1>c, <1>h DEF ControlTypeOK
<1>14. CASE TakeLine
  <2>1. BufferTypeOK'
    <3>1. Blank \in [Index -> Char \cup {NUL}] /\ 0 \in 0 .. LINE_SIZE
      BY LineSize DEF Blank
    <3> QED
      BY <1>14, <3>1 DEF TakeLine, BufferTypeOK
  <2>2. PollTypeOK'
    <3>1. temp' = <<>> /\ i' = 1
      BY <1>14 DEF TakeLine
    <3>2. 1 \in 1 .. (Len(<<>>) + 1) /\ Len(<<>>) <= MAX_COMMAND_LENGTH
      BY <1>e, CapacityIsNatural
    <3> QED
      BY <1>e, <3>1, <3>2, Zenon DEF PollTypeOK
  <2>3. HistoryTypeOK'
    <3>1. NotDrawn \in [at : Nat, text : Seq(Char)]
      BY <1>e DEF NotDrawn
    <3> QED
      BY <1>14, <3>1, <1>e DEF TakeLine, HistoryTypeOK
  <2> QED
    BY <1>14, <2>1, <2>2, <2>3, <1>c DEF TakeLine, GoTo, ControlTypeOK
<1> QED
  BY <1>1, <1>2, <1>3, <1>4, <1>5, <1>6, <1>7, <1>8, <1>9, <1>10, <1>11, <1>12,
     <1>13, <1>14 DEF Shell

\* The state of the shell, the driver and the screen always has its types.  Of
\* length_buf and t it says no more than the model does: where get_line would
\* leave buf, which it never looks for, the shell is in "overrun".
THEOREM TypeCorrect == Spec => []TypeOK
<1>1. Init /\ DriverInv => TypeOK
  <2> SUFFICES ASSUME Init, DriverInv PROVE TypeOK
    OBVIOUS
  <2>1. Blank \in [Index -> Char \cup {NUL}] /\ 0 \in 0 .. LINE_SIZE
    BY LineSize DEF Blank
  <2>2. <<>> \in Seq(Char) /\ <<>> \in Seq(Char \cup {NUL}) /\ Len(<<>>) = 0
    OBVIOUS
  <2>3. NotDrawn \in [at : Nat, text : Seq(Char)]
    BY <2>2 DEF NotDrawn
  <2>4. 0 \in 0 .. INFO_LENGTH
    BY TerminalAssumption DEF TerminalAssumption
  <2>5. BufferTypeOK /\ PollTypeOK
    <3>1. 1 \in 1 .. (Len(<<>>) + 1) /\ Len(<<>>) <= MAX_COMMAND_LENGTH
      BY <2>2, CapacityIsNatural
    <3>2. temp = <<>> /\ i = 1 /\ buf = Blank /\ length_buf = 0 /\ t = 0
      BY DEF Init
    <3> QED
      BY <2>1, <2>2, <3>1, <3>2, Zenon DEF BufferTypeOK, PollTypeOK
  <2>6. HistoryTypeOK /\ ControlTypeOK
    BY <2>2, <2>3, <2>4 DEF Init, HistoryTypeOK, ControlTypeOK
  <2> QED
    BY <2>5, <2>6, TypeOKParts DEF DriverInv
<1>2. TypeOK /\ DriverInv' /\ [Next]_vars => TypeOK'
  <2> SUFFICES ASSUME TypeOK, DriverInv', [Next]_vars PROVE TypeOK'
    OBVIOUS
  <2>1. KeyboardTypeOK'
    BY DEF DriverInv
  <2>2. ControlTypeOK' /\ BufferTypeOK' /\ PollTypeOK' /\ HistoryTypeOK'
    <3>1. CASE Shell
      BY <3>1, ShellKeepsTypes
    <3>2. CASE KeyboardInterrupt \/ UNCHANGED vars
      <4>1. UNCHANGED <<pc, idx, lineVars>>
        BY <3>2 DEF KeyboardInterrupt, vars
      <4>2. framebuffer_state' \in Nat
        BY <3>2, TypeOKParts, KeyboardKeepsCursor DEF vars, ControlTypeOK
      <4> QED
        BY <4>1, <4>2, TypeOKParts
           DEF lineVars, ControlTypeOK, BufferTypeOK, PollTypeOK, HistoryTypeOK
    <3> QED
      BY <3>1, <3>2 DEF Next
  <2>3. TypeOK' <=> /\ KeyboardTypeOK' /\ ControlTypeOK'
                    /\ BufferTypeOK' /\ PollTypeOK' /\ HistoryTypeOK'
    BY DEF TypeOK, ControlTypeOK, BufferTypeOK, PollTypeOK, HistoryTypeOK
  <2> QED
    BY <2>1, <2>2, <2>3
<1> QED
  BY <1>1, <1>2, DriverInductive, PTL DEF Spec

\* Whatever keys are pressed and whenever the shell polls, what the keyboard driver
\* keeps is within its buffer with the insertion point among it, and what a poll
\* hands over is no longer than get_line's temp, which is of the same size.
THEOREM DriverStaysInBuffer == Spec => [](/\ Len(command) <= MAX_COMMAND_LENGTH
                                         /\ cursor_at \in 0 .. Len(command)
                                         /\ Len(temp) <= MAX_COMMAND_LENGTH)
<1>1. TypeOK => /\ Len(command) <= MAX_COMMAND_LENGTH
                /\ cursor_at \in 0 .. Len(command)
                /\ Len(temp) <= MAX_COMMAND_LENGTH
  BY DEF TypeOK, KeyboardTypeOK
<1> QED
  BY <1>1, TypeCorrect, PTL

-----------------------------------------------------------------------------
(***************************************************************************)
(* The drawing of the line.  A key that moves the cursor while the line is *)
(* redrawn leaves the driver's buffer with something in it, so that        *)
(* get_line redraws once more before it has nothing to read.               *)
(***************************************************************************)

\* The shell is not in get_line.
Printing == {"run", "info", "enter", "clear", "home", "put"}

FollowInv ==
    /\ pc \in Printing => buf = Blank /\ t = 0
    /\ pc = "draw" /\ command = <<>> => framebuffer_state = start
    /\ pc = "move" /\ command = <<>> => drawn = [at |-> start, text |-> Text]
    /\ ScreenFollowsLine

\* After a key there is something to read.
LEMMA KeyFillsBuffer ==
    ASSUME DriverInv, NEW key \in Keys, KeyDown(key)
    PROVE  command' # <<>>
<1>1. CharacterOf(key) \in Char
  BY CharacterType
<1>2. command \in Seq(Char) /\ cursor_at \in 0 .. Len(command)
  BY DEF DriverInv, KeyboardTypeOK
<1>3. insert_at_cursor(CharacterOf(key))
  BY DEF KeyDown
<1>4. CASE BufferIsFull
  <2>1. command' = command /\ Len(command) # 0
    BY <1>3, <1>4, CapacityIsNatural DEF insert_at_cursor, BufferIsFull
  <2> QED
    BY <2>1
<1>5. CASE ~BufferIsFull
  <2>1. command' = InsertAt(command, cursor_at + 1, CharacterOf(key))
    BY <1>3, <1>5 DEF insert_at_cursor
  <2>2. command' \in Seq(Char) /\ Len(command') = Len(command) + 1 /\ Len(command) \in Nat
    BY <1>1, <1>2, <2>1, InsertType
  <2> QED
    BY <2>2
<1> QED
  BY <1>4, <1>5

\* The keyboard keeps the line on the screen.
LEMMA KeysFollow ==
    ASSUME FollowInv, DriverInv, KeyboardInterrupt
    PROVE  FollowInv'
<1>1. UNCHANGED <<pc, idx, buf, t, start, drawn>>
  BY DEF KeyboardInterrupt, lineVars
<1>2. Text' = Text
  BY <1>1 DEF Text, TextLength
<1>3. ASSUME NEW key \in Keys, KeyDown(key)
      PROVE  FollowInv'
  <2>1. command' # <<>>
    BY <1>3, KeyFillsBuffer
  <2> QED
    BY <1>1, <2>1 DEF FollowInv, ScreenFollowsLine
<1>4. CASE UNCHANGED <<command, framebuffer_state>>
  BY <1>1, <1>2, <1>4, Zenon DEF FollowInv, ScreenFollowsLine
<1> QED
  BY <1>3, <1>4 DEF KeyboardInterrupt, ShiftDownOrUp, CapsLock

\* So does every step of the shell.
LEMMA ShellFollows ==
    ASSUME FollowInv, TypeOK, Shell
    PROVE  FollowInv'
<1>t. t \in Nat /\ start \in Nat
  BY LineSize DEF TypeOK
<1>l. UNCHANGED lineVars => UNCHANGED <<buf, t, start, drawn>>
  BY DEF lineVars
<1>1. CASE AskCursor \/ PutInfo \/ ClearScreen \/ CursorHome \/ PutChar
  <2>1. pc \in Printing /\ pc' \in Printing
    BY <1>1 DEF AskCursor, PutInfo, ClearScreen, CursorHome, PutChar, GoTo, Printing
  <2>2. UNCHANGED <<buf, t>>
    BY <1>1, <1>l DEF AskCursor, PutInfo, ClearScreen, CursorHome, PutChar
  <2> QED
    BY <2>1, <2>2 DEF FollowInv, ScreenFollowsLine, Printing
<1>2. CASE PollForEnter
  <2>1. pc \in Printing /\ pc' \in Printing \cup {"overrun"}
    BY <1>2 DEF PollForEnter, GoTo, Printing
  <2>2. UNCHANGED <<buf, t>>
    BY <1>2 DEF PollForEnter
  <2> QED
    BY <2>1, <2>2 DEF FollowInv, ScreenFollowsLine, Printing
<1>3. CASE BeginLine
  <2>1. buf = Blank /\ t = 0
    BY <1>3 DEF BeginLine, FollowInv, Printing
  <2>2. UNCHANGED <<buf, t, framebuffer_state, command>> /\ pc' = "poll"
        /\ start' = framebuffer_state
        /\ drawn' = [at |-> framebuffer_state, text |-> <<>>]
    BY <1>3 DEF BeginLine, GoTo, keyboardVars
  <2>3. Text = <<>> /\ Text' = Text
    BY <2>1, <2>2, BlankText DEF Text, TextLength
  <2>4. framebuffer_state = framebuffer_state + 0
    <3>1. framebuffer_state \in Nat
      BY DEF TypeOK
    <3> QED
      BY <3>1
  <2>5. ScreenFollowsLine'
    BY <2>1, <2>2, <2>3, <2>4, Zenon DEF ScreenFollowsLine
  <2> QED
    BY <2>2, <2>5 DEF FollowInv, Printing
<1>4. CASE PollKeys
  BY <1>4 DEF PollKeys, GoTo, FollowInv, ScreenFollowsLine, Printing
<1>5. CASE EditKey
  <2>1. pc' \in {"edit", "overrun"}
    BY <1>5 DEF EditKey, GoTo
  <2> QED
    BY <2>1 DEF FollowInv, ScreenFollowsLine, Printing
<1>6. CASE KeysUsedUp
  BY <1>6 DEF KeysUsedUp, GoTo, FollowInv, ScreenFollowsLine, Printing
<1>7. CASE CursorToStart
  BY <1>7, <1>l DEF CursorToStart, GoTo, framebuffer_set_cursor, FollowInv,
                    ScreenFollowsLine, Printing
<1>8. CASE DrawLine
  <2>1. pc = "draw" /\ pc' \in {"move", "overrun"}
        /\ UNCHANGED <<buf, start, command>>
    BY <1>8 DEF DrawLine, GoTo, keyboardVars
  <2>2. Text' = Text
    BY <2>1 DEF Text, TextLength
  <2>3. pc' = "move" => drawn' = [at |-> framebuffer_state, text |-> Text]
    BY <1>8 DEF DrawLine, GoTo
  <2>4. pc' = "move" /\ command' = <<>> => drawn' = [at |-> start', text |-> Text']
    BY <2>1, <2>2, <2>3 DEF FollowInv
  <2> QED
    BY <2>1, <2>4, Zenon DEF FollowInv, ScreenFollowsLine, Printing
<1>9. CASE CursorToInsertion
  <2>1. pc = "move" /\ framebuffer_state' = start + t
        /\ UNCHANGED <<start, t, command, drawn>>
        /\ pc' \in {"returned", "poll"} /\ (pc' = "poll" => buf' = buf)
    BY <1>9 DEF CursorToInsertion, FinishTurn, framebuffer_set_cursor, GoTo, keyboardVars
  <2>2. buf' = buf => Text' = Text
    BY DEF Text, TextLength
  <2>3. ScreenFollowsLine'
    BY <2>1, <2>2, Zenon DEF FollowInv, ScreenFollowsLine
  <2> QED
    BY <2>1, <2>3 DEF FollowInv, Printing
<1>10. CASE TakeLine
  BY <1>10 DEF TakeLine, GoTo, FollowInv, ScreenFollowsLine
<1> QED
  BY <1>1, <1>2, <1>3, <1>4, <1>5, <1>6, <1>7, <1>8, <1>9, <1>10 DEF Shell

\* When get_line has nothing to read, the line stands on the screen where it began
\* and the cursor is at the insertion point, whenever keys moved the cursor.
THEOREM LineIsOnScreen == Spec => []ScreenFollowsLine
<1>1. Init => FollowInv
  BY DEF Init, FollowInv, ScreenFollowsLine, Printing
<1>2. FollowInv /\ DriverInv /\ TypeOK /\ [Next]_vars => FollowInv'
  <2>1. ASSUME FollowInv, UNCHANGED vars PROVE FollowInv'
    <3>1. UNCHANGED <<pc, buf, t, start, drawn, command, framebuffer_state>>
      BY <2>1 DEF vars, lineVars, keyboardVars
    <3>2. Text' = Text
      BY <3>1 DEF Text, TextLength
    <3> QED
      BY <2>1, <3>1, <3>2, Zenon DEF FollowInv, ScreenFollowsLine
  <2> QED
    BY <2>1, KeysFollow, ShellFollows DEF Next
<1>3. FollowInv => ScreenFollowsLine
  BY DEF FollowInv
<1> QED
  BY <1>1, <1>2, <1>3, DriverInductive, TypeCorrect, PTL DEF Spec

-----------------------------------------------------------------------------
(***************************************************************************)
(* The line itself.  buf holds what an editor makes of the keys that       *)
(* get_line went through so far: all of the line's, or while it works on   *)
(* temp, those before temp's and temp's first ones.                        *)
(***************************************************************************)

Ends(keys) == keys # <<>> /\ Last(keys) = Newline

Done == IF pc = "edit" THEN SubSeq(typed, 1, Len(typed) - Len(temp) + i - 1) ELSE typed

\* Of the keys of a line only the last can be Enter, temp holds the last ones, and
\* the line is complete when get_line returns it and not while it polls.
LineHolds ==
    /\ pc # "overrun"
    /\ pc \in Printing => typed = <<>>
    /\ \A j \in 1 .. (Len(typed) - 1) : typed[j] # Newline
    /\ pc = "poll" => ~Ends(typed)
    /\ pc = "returned" => Ends(typed)
    /\ pc = "edit" =>
          /\ Len(temp) <= Len(typed)
          /\ \A k \in 1 .. Len(temp) : temp[k] = typed[Len(typed) - Len(temp) + k]
    /\ Holds(buf, length_buf, t, LineOf(Done), pc # "returned" /\ Ends(Done))

LineInv ==
    /\ Len(typed) + Len(pressed) <= MaxTyped
    /\ orderly => LineHolds

\* The first keys of a line.
LEMMA FirstKeys ==
    ASSUME NEW keys \in Seq(Char), NEW n \in Nat, n <= Len(keys)
    PROVE  /\ SubSeq(keys, 1, n) \in Seq(Char) /\ Len(SubSeq(keys, 1, n)) = n
           /\ n = Len(keys) => SubSeq(keys, 1, n) = keys
           /\ n < Len(keys) => SubSeq(keys, 1, n + 1) = Append(SubSeq(keys, 1, n), keys[n + 1])
           /\ n > 0 => Last(SubSeq(keys, 1, n)) = keys[n]
<1>1. Len(keys) \in Nat
  OBVIOUS
<1>2. /\ SubSeq(keys, 1, n) \in Seq(Char) /\ Len(SubSeq(keys, 1, n)) = n
      /\ \A j \in 1 .. n : SubSeq(keys, 1, n)[j] = keys[j]
  BY <1>1
<1>3. n = Len(keys) => SubSeq(keys, 1, n) = keys
  BY <1>1
<1>4. ASSUME n < Len(keys)
      PROVE  SubSeq(keys, 1, n + 1) = Append(SubSeq(keys, 1, n), keys[n + 1])
  BY <1>1, <1>4
<1>5. n > 0 => Last(SubSeq(keys, 1, n)) = keys[n]
  BY <1>1, <1>2 DEF Last
<1> QED
  BY <1>2, <1>3, <1>4, <1>5

\* Enter is in the last key alone.
LEMMA EndsAppend ==
    ASSUME NEW keys \in Seq(Char), NEW c \in Char
    PROVE  Ends(Append(keys, c)) <=> c = Newline
BY DEF Ends, Last

\* A line that is complete has a key that put nothing in it.
LEMMA EndsSize ==
    ASSUME NEW keys \in Seq(Char)
    PROVE  /\ LineOf(keys) \in Lines /\ Size(LineOf(keys)) \in Nat
           /\ Size(LineOf(keys)) <= Len(keys)
           /\ Ends(keys) => Size(LineOf(keys)) + 1 <= Len(keys)
<1>1. /\ LineOf(keys) \in Lines /\ Size(LineOf(keys)) \in Nat
      /\ Size(LineOf(keys)) <= Len(keys)
  BY LineOfType
<1>2. ASSUME Ends(keys) PROVE Size(LineOf(keys)) + 1 <= Len(keys)
  <2>1. keys # <<>> /\ Last(keys) = Newline
    BY <1>2 DEF Ends
  <2>2. /\ Front(keys) \in Seq(Char) /\ Len(Front(keys)) = Len(keys) - 1
        /\ Len(keys) \in Nat /\ Len(keys) > 0
    BY <2>1, FrontElements
  <2>3. keys = Append(Front(keys), Newline)
    <3>1. \A k \in 1 .. (Len(keys) - 1) : Front(keys)[k] = keys[k]
      BY <2>1, FrontElements
    <3>2. keys[Len(keys)] = Newline
      BY <2>1 DEF Last
    <3> DEFINE f == Front(keys)
    <3> HIDE DEF f
    <3>3. /\ Append(f, Newline) \in Seq(Char)
          /\ Len(Append(f, Newline)) = Len(keys)
      BY <2>2, CharactersDiffer DEF f
    <3>4. ASSUME NEW k \in 1 .. Len(keys) PROVE Append(f, Newline)[k] = keys[k]
      <4>1. f \in Seq(Char) /\ Len(f) = Len(keys) - 1
            /\ \A m \in 1 .. (Len(keys) - 1) : f[m] = keys[m]
        BY <2>2, <3>1 DEF f
      <4>2. CASE k = Len(keys)
        BY <2>2, <3>2, <4>1, <4>2
      <4>3. CASE k # Len(keys)
        BY <2>2, <4>1, <4>3
      <4> QED
        BY <4>2, <4>3
    <3>5. keys = Append(f, Newline)
      BY <3>3, <3>4, SeqEqual
    <3> QED
      BY <3>5 DEF f
  <2>4. LineOf(Append(Front(keys), Newline)) = Type(LineOf(Front(keys)), Newline)
    BY <2>2, CharactersDiffer, LineOfAppend
  <2>5. /\ LineOf(Front(keys)) \in Lines /\ Size(LineOf(Front(keys))) \in Nat
        /\ Size(LineOf(Front(keys))) <= Len(keys) - 1
    BY <2>2, LineOfType
  <2>6. Type(LineOf(Front(keys)), Newline) = LineOf(Front(keys))
    BY <2>5, CharactersDiffer, TypeIs
  <2>7. LineOf(keys) = LineOf(Front(keys))
    BY <2>3, <2>4, <2>6, Zenon
  <2> QED
    BY <2>2, <2>5, <2>7
<1> QED
  BY <1>1, <1>2

\* The bytes of a line are its characters, and behind them there is a newline or a
\* zero.
LEMMA BytesOfLine ==
    ASSUME NEW line \in Lines, NEW newline \in BOOLEAN, Size(line) < LINE_SIZE
    PROVE  /\ Len(line.before \o line.after) = Size(line)
           /\ \A j \in 1 .. Size(line) :
                 Cells(line.before, line.after, newline)[j - 1]
                    = (line.before \o line.after)[j]
           /\ Cells(line.before, line.after, newline)[Size(line)]
                 = IF newline THEN Newline ELSE NUL
<1> DEFINE b == line.before
           a == line.after
           n == Len(b)
           m == Len(a)
           z == Size(line)
<1>1. b \in Seq(LineChar) /\ a \in Seq(LineChar) /\ n \in Nat /\ m \in Nat /\ z = n + m
  BY Parts, Zenon
<1> HIDE DEF b, a, n, m, z
<1>2. Len(b \o a) = z
  BY <1>1 DEF n, m
<1>3. \A j \in 1 .. z : (b \o a)[j] = IF j <= n THEN b[j] ELSE a[j - n]
  BY <1>1 DEF n, m
<1>4. z < LINE_SIZE
  BY DEF z
<1>5. ASSUME NEW j \in 1 .. z PROVE Cells(b, a, newline)[j - 1] = (b \o a)[j]
  <2> DEFINE k == j - 1
  <2>1. k \in Index /\ k \in Nat /\ k + 1 = j /\ j \in Nat /\ k < n + m
    BY <1>1, <1>4, LineSize DEF Index
  <2>2. j <= n <=> k < n
    BY <1>1, <2>1
  <2>3. ~(k < n) => k - n + 1 = j - n
    BY <1>1, <2>1
  <2> HIDE DEF k
  <2>4. Cells(b, a, newline)[k] = Cell(b, a, newline, k)
    BY <2>1 DEF Cells
  <2>5. Cell(b, a, newline, k) = IF k < n THEN b[k + 1] ELSE a[k - n + 1]
    BY <2>1 DEF Cell, n, m
  <2>6. Cells(b, a, newline)[k] = (b \o a)[j]
    BY <1>3, <2>1, <2>2, <2>3, <2>4, <2>5
  <2> QED
    BY <2>6 DEF k
<1>6. Cells(b, a, newline)[z] = IF newline THEN Newline ELSE NUL
  <2>1. z \in Index /\ ~(z < n) /\ ~(z < n + m) /\ z = n + m
    BY <1>1, <1>4, LineSize DEF Index
  <2>2. Cells(b, a, newline)[z] = Cell(b, a, newline, z)
    BY <2>1 DEF Cells
  <2> QED
    BY <2>1, <2>2 DEF Cell, n, m
<1> QED
  BY <1>2, <1>5, <1>6 DEF b, a, z

\* The invariant is what is to be shown.
LEMMA LineHoldsIsGoal ==
    ASSUME TypeOK, LineInv
    PROVE  LineIsWhatWasTyped
<1> SUFFICES ASSUME orderly, pc # "edit"
             PROVE  LET line == TypedLine.before \o TypedLine.after
                    IN  /\ pc # "overrun"
                        /\ length_buf = Len(line) /\ t = Len(TypedLine.before)
                        /\ \A j \in 1 .. Len(line) : buf[j - 1] = line[j]
                        /\ buf[Len(line)] =
                             IF Entered /\ pc \in {"redraw", "draw", "move"} THEN Newline
                             ELSE NUL
                        /\ pc = "poll" => ~Entered
                        /\ pc = "returned" => Entered
  BY DEF LineIsWhatWasTyped
<1>1. LineHolds /\ Done = typed /\ typed \in Seq(Char) /\ Len(typed) <= MaxTyped
  <2>1. typed \in Seq(Char) /\ pressed \in Seq(Char)
    BY DEF TypeOK, KeyboardTypeOK
  <2> QED
    BY <2>1, LineSize DEF LineInv, Done
<1>2. TypedLine = LineOf(typed)
  BY Zenon DEF TypedLine, LineOf, EmptyLine, FoldLeft, MapThenFoldSet
<1>3. Entered <=> Ends(typed)
  BY DEF Entered, Ends
<1> DEFINE line == LineOf(typed)
           newline == pc # "returned" /\ Ends(typed)
<1>4. line \in Lines /\ Size(line) \in Nat /\ Size(line) < LINE_SIZE
  BY <1>1, EndsSize, LineSize
<1>5. /\ buf = Cells(line.before, line.after, newline)
      /\ length_buf = Size(line) /\ t = Len(line.before)
  BY <1>1 DEF LineHolds, Holds
<1>6. newline <=> Entered /\ pc \in {"redraw", "draw", "move"}
  <2>1. /\ pc \in Printing \cup {"poll", "redraw", "draw", "move", "returned"}
    BY <1>1 DEF TypeOK, Printing, LineHolds
  <2>2. Ends(typed) => typed # <<>>
    BY DEF Ends
  <2> QED
    BY <1>1, <1>3, <2>1, <2>2 DEF LineHolds
<1>7. pc # "overrun" /\ (pc = "poll" => ~Entered) /\ (pc = "returned" => Entered)
  BY <1>1, <1>3 DEF LineHolds
<1> HIDE DEF newline, line
<1>8. /\ Len(line.before \o line.after) = Size(line)
      /\ \A j \in 1 .. Size(line) : buf[j - 1] = (line.before \o line.after)[j]
      /\ buf[Size(line)] = IF newline THEN Newline ELSE NUL
  <2>1. newline \in BOOLEAN
    BY DEF newline
  <2> QED
    BY <1>4, <1>5, <2>1, BytesOfLine
<1>9. TypedLine = line
  BY <1>2 DEF line
<1>10. (IF newline THEN Newline ELSE NUL)
          = IF Entered /\ pc \in {"redraw", "draw", "move"} THEN Newline ELSE NUL
  BY <1>6
<1> QED
  BY <1>5, <1>7, <1>8, <1>9, <1>10, Zenon

\* Nothing is typed into a cleared buffer.
LEMMA BlankHolds ==
    /\ Holds(Blank, 0, 0, LineOf(<<>>), FALSE)
    /\ ~Ends(<<>>) /\ <<>> \in Seq(Char) /\ Len(<<>>) = 0
<1>1. LineOf(<<>>) = [before |-> <<>>, after |-> <<>>]
  BY LineOfType DEF EmptyLine
<1>2. Len(<<>>) = 0 /\ <<>> \in Seq(Char)
  OBVIOUS
<1>3. Blank = Cells(<<>>, <<>>, FALSE)
  <2>1. \A j \in Index : Cell(<<>>, <<>>, FALSE, j) = NUL
    <3>1. \A j \in Index : j \in Nat
      BY LineSize DEF Index
    <3> QED
      BY <1>2, <3>1 DEF Cell
  <2> QED
    BY <2>1, Zenon DEF Blank, Cells
<1>4. Size([before |-> <<>>, after |-> <<>>]) = 0
  BY <1>2 DEF Size
<1>5. Holds(Blank, 0, 0, [before |-> <<>>, after |-> <<>>], FALSE)
  BY <1>2, <1>3, <1>4 DEF Holds
<1>6. ~Ends(<<>>)
  BY DEF Ends
<1> QED
  BY <1>1, <1>2, <1>5, <1>6

\* A step that leaves the line and its keys alone, and goes from a place where all
\* of them are done to another.
LEMMA LineStays ==
    ASSUME LineHolds,
           UNCHANGED <<buf, length_buf, t, typed>>,
           pc # "edit", pc' # "edit", pc # "returned", pc' # "returned",
           pc' # "overrun",
           pc' \in Printing => pc \in Printing,
           pc' = "poll" => ~Ends(typed)
    PROVE  LineHolds'
<1>1. Done = typed /\ Done' = typed'
  BY DEF Done
<1>2. Holds(buf', length_buf', t', LineOf(Done'), pc' # "returned" /\ Ends(Done'))
  BY <1>1 DEF LineHolds
<1> QED
  BY <1>2 DEF LineHolds, Holds, Ends

\* The keyboard adds to what was pressed only.
LEMMA KeysKeepLine ==
    ASSUME LineInv, TypeOK, KeyboardInterrupt
    PROVE  LineInv'
<1>1. UNCHANGED <<pc, buf, length_buf, t, temp, i, typed, orderly>>
  BY DEF KeyboardInterrupt, lineVars
<1>2. Done' = Done /\ (LineHolds' <=> LineHolds)
  BY <1>1, Zenon DEF Done, LineHolds
<1>3. typed \in Seq(Char) /\ pressed \in Seq(Char) /\ MaxTyped \in Nat
  BY LineSize DEF TypeOK, KeyboardTypeOK
<1>4. Len(typed') + Len(pressed') <= MaxTyped
  <2>1. ASSUME NEW key \in Keys, KeyDown(key), Len(typed) + Len(pressed) < MaxTyped
        PROVE  Len(typed') + Len(pressed') <= MaxTyped
    <3>1. CharacterOf(key) \in Char
      BY CharacterType
    <3>2. Len(pressed') <= Len(pressed) + 1 /\ Len(pressed') \in Nat
      BY <1>3, <2>1, <3>1 DEF KeyDown, Remember
    <3> QED
      BY <1>1, <1>3, <2>1, <3>2
  <2>2. CASE UNCHANGED pressed
    BY <1>1, <2>2 DEF LineInv
  <2> QED
    BY <2>1, <2>2 DEF KeyboardInterrupt, ShiftDownOrUp, CapsLock
<1> QED
  BY <1>1, <1>2, <1>4 DEF LineInv

\* What poll finds in order is what temp then holds, and it goes behind the line.
LEMMA PollKeepsLine ==
    ASSUME LineHolds, TypeOK, KeysInOrder, PollKeys, orderly'
    PROVE  LineHolds'
<1>1. /\ typed \in Seq(Char) /\ pressed \in Seq(Char) /\ command \in Seq(Char)
      /\ temp \in Seq(Char \cup {NUL})
  BY DEF TypeOK, KeyboardTypeOK
<1>2. /\ pc = "poll" /\ pc' = "edit" /\ command # <<>>
      /\ temp' = Overlay /\ i' = 1
      /\ InOrder(pressed) /\ Len(temp) <= Len(command)
      /\ typed' = typed \o pressed
      /\ UNCHANGED <<buf, length_buf, t>>
  BY DEF PollKeys, GoTo
<1>3. command = pressed
  BY <1>2 DEF KeysInOrder
<1>4. temp' = pressed
  <2>1. SubSeq(temp, Len(command) + 1, Len(temp)) = <<>>
    BY <1>1, <1>2
  <2>2. Overlay = command
    BY <1>1, <2>1, ConcatEmptySeq DEF Overlay
  <2> QED
    BY <1>2, <1>3, <2>2
<1> DEFINE n == Len(typed)
           m == Len(pressed)
<1>5. /\ n \in Nat /\ m \in Nat
      /\ typed' \in Seq(Char) /\ Len(typed') = n + m
      /\ \A j \in 1 .. (n + m) : typed'[j] = IF j <= n THEN typed[j] ELSE pressed[j - n]
  BY <1>1, <1>2
<1>6. \A j \in 1 .. n : typed[j] # Newline
  <2>1. \A j \in 1 .. (n - 1) : typed[j] # Newline
    BY DEF LineHolds
  <2>2. typed # <<>> => typed[n] # Newline
    BY <1>2 DEF LineHolds, Ends, Last
  <2>3. \A j \in 1 .. n : typed # <<>> /\ (j = n \/ j \in 1 .. (n - 1))
    BY <1>1, <1>5
  <2> QED
    BY <2>1, <2>2, <2>3
<1>7. \A j \in 1 .. (m - 1) : pressed[j] # Newline
  BY <1>2 DEF InOrder
<1>8. SubSeq(typed', 1, n) = typed
  BY <1>1, <1>2
<1> HIDE DEF n, m
<1>9. ASSUME NEW j \in 1 .. (Len(typed') - 1) PROVE typed'[j] # Newline
  <2>1. j \in 1 .. (n + m) /\ j \in Nat
    BY <1>5
  <2>2. CASE j <= n
    <3>1. j \in 1 .. n
      BY <1>5, <2>1, <2>2
    <3> QED
      BY <1>5, <1>6, <2>1, <2>2, <3>1
  <2>3. CASE ~(j <= n)
    <3>1. j - n \in 1 .. (m - 1)
      BY <1>5, <2>1, <2>3
    <3> QED
      BY <1>5, <1>7, <2>1, <2>3, <3>1
  <2> QED
    BY <2>2, <2>3
<1>10. Len(temp') = m /\ Len(temp') <= Len(typed')
  BY <1>4, <1>5 DEF m
<1>11. ASSUME NEW k \in 1 .. Len(temp')
       PROVE  temp'[k] = typed'[Len(typed') - Len(temp') + k]
  <2>1. Len(typed') - Len(temp') + k = n + k /\ n + k \in 1 .. (n + m)
        /\ ~(n + k <= n) /\ n + k - n = k
    BY <1>5, <1>10
  <2> QED
    BY <1>4, <1>5, <2>1
<1>12. Done' = typed
  <2>1. Done' = SubSeq(typed', 1, Len(typed') - Len(temp') + i' - 1)
    BY <1>2 DEF Done
  <2>2. Len(typed') - Len(temp') + i' - 1 = n
    BY <1>2, <1>5, <1>10
  <2> QED
    BY <1>8, <2>1, <2>2
<1>13. Holds(buf', length_buf', t', LineOf(Done'), pc' # "returned" /\ Ends(Done'))
  <2>1. Done = typed /\ ~Ends(typed)
    BY <1>2 DEF Done, LineHolds
  <2>2. Holds(buf, length_buf, t, LineOf(typed), FALSE)
    BY <2>1 DEF LineHolds
  <2> QED
    BY <1>2, <1>12, <2>1, <2>2
<1>14. /\ pc' # "overrun" /\ pc' \notin Printing /\ pc' # "poll" /\ pc' # "returned"
  BY <1>2 DEF Printing
<1> QED
  BY <1>9, <1>10, <1>11, <1>13, <1>14 DEF LineHolds, Holds, Ends

\* A turn of get_line's loop does one key more.
LEMMA EditKeepsLine ==
    ASSUME LineHolds, TypeOK, Len(typed) <= MaxTyped, EditKey
    PROVE  LineHolds'
<1>1. /\ typed \in Seq(Char) /\ temp \in Seq(Char \cup {NUL})
      /\ i \in 1 .. (Len(temp) + 1)
      /\ Len(typed) \in Nat /\ Len(temp) \in Nat /\ i \in Nat
  BY DEF TypeOK
<1>2. /\ pc = "edit" /\ i <= Len(temp)
      /\ UNCHANGED <<temp, typed>>
  BY DEF EditKey
<1>3. /\ Len(temp) <= Len(typed)
      /\ \A k \in 1 .. Len(temp) : temp[k] = typed[Len(typed) - Len(temp) + k]
      /\ \A j \in 1 .. (Len(typed) - 1) : typed[j] # Newline
  BY <1>2 DEF LineHolds
<1> DEFINE n == Len(typed) - Len(temp) + i - 1
           keys == SubSeq(typed, 1, n)
           c == temp[i]
<1>4. /\ n \in Nat /\ n < Len(typed) /\ n + 1 = Len(typed) - Len(temp) + i
      /\ Len(typed) - Len(temp) + (i + 1) - 1 = n + 1
  BY <1>1, <1>2, <1>3
<1>5. c = typed[n + 1]
  <2>1. i \in 1 .. Len(temp)
    BY <1>1, <1>2
  <2> QED
    BY <1>3, <1>4, <2>1
<1>6. Done = keys
  BY <1>2 DEF Done
<1> HIDE DEF n, c
<1>7. c \in Char
  BY <1>1, <1>4, <1>5
<1>8. /\ keys \in Seq(Char) /\ Len(keys) = n
      /\ SubSeq(typed, 1, n + 1) = Append(keys, c)
      /\ n > 0 => Last(keys) = typed[n]
  BY <1>1, <1>4, <1>5, FirstKeys
<1> HIDE DEF keys
<1>9. ~Ends(keys)
  <2>1. keys # <<>> => n > 0
    BY <1>4, <1>8
  <2>2. n > 0 => typed[n] # Newline
    BY <1>1, <1>3, <1>4
  <2> QED
    BY <1>8, <2>1, <2>2 DEF Ends
<1>10. Holds(buf, length_buf, t, LineOf(keys), FALSE)
  BY <1>6, <1>9 DEF LineHolds
<1>11. LineOf(keys) \in Lines /\ Size(LineOf(keys)) < LINE_SIZE
  BY <1>1, <1>4, <1>8, EndsSize, LineSize
<1>12. /\ ~DoesNotFit(c)
       /\ Edit(c) => Holds(buf', length_buf', t', Type(LineOf(keys), c), c = Newline)
  BY <1>7, <1>10, <1>11, EditHolds
<1>13. Edit(c) /\ i' = i + 1 /\ pc' = "edit"
  BY <1>12 DEF EditKey, GoTo, c
<1>14. Done' = Append(keys, c)
  <2>1. Done' = SubSeq(typed, 1, Len(typed) - Len(temp) + (i + 1) - 1)
    BY <1>2, <1>13 DEF Done
  <2> QED
    BY <1>4, <1>8, <2>1 DEF n
<1>15. /\ LineOf(Append(keys, c)) = Type(LineOf(keys), c)
       /\ Ends(Append(keys, c)) <=> c = Newline
  BY <1>7, <1>8, LineOfAppend, EndsAppend
<1>16. Holds(buf', length_buf', t', LineOf(Done'), pc' # "returned" /\ Ends(Done'))
  <2>1. (pc' # "returned" /\ Ends(Done')) = (c = Newline)
    BY <1>13, <1>14, <1>15
  <2>2. LineOf(Done') = Type(LineOf(keys), c)
    BY <1>14, <1>15
  <2> QED
    BY <1>12, <1>13, <2>1, <2>2
<1>17. pc' # "overrun" /\ pc' \notin Printing /\ pc' # "poll" /\ pc' # "returned"
  BY <1>13 DEF Printing
<1> QED
  BY <1>2, <1>3, <1>16, <1>17 DEF LineHolds, Holds, Ends

\* At the end of a turn the newline is cut off, and its place is a zero.
LEMMA CutKeepsLine ==
    ASSUME LineHolds, TypeOK, Len(typed) <= MaxTyped, CursorToInsertion
    PROVE  LineHolds'
<1> DEFINE line == LineOf(typed)
           newline == Ends(typed)
           z == Size(line)
<1>1. /\ typed \in Seq(Char) /\ Len(typed) \in Nat
      /\ pc = "move" /\ FinishTurn
  BY DEF TypeOK, CursorToInsertion
<1>2. UNCHANGED <<length_buf, t, typed>>
  BY <1>1 DEF FinishTurn
<1>3. /\ line \in Lines /\ z \in Nat /\ z < LINE_SIZE
      /\ newline => z + 1 < LINE_SIZE
  BY <1>1, EndsSize, LineSize
<1>4. /\ buf = Cells(line.before, line.after, newline)
      /\ length_buf = z /\ t = Len(line.before)
  <2>1. Done = typed
    BY <1>1 DEF Done
  <2>2. (pc # "returned" /\ Ends(Done)) = newline
    BY <1>1, <2>1 DEF Ends
  <2>3. Holds(buf, length_buf, t, line, newline)
    BY <2>1, <2>2 DEF LineHolds
  <2> QED
    BY <2>3 DEF Holds
<1>b. newline \in BOOLEAN
  BY DEF Ends
<1> HIDE DEF newline, line
<1>5. /\ newline => TextLength = z + 1 /\ Text[z + 1] = Newline
      /\ ~newline => TextLength = z
      /\ \A n \in 1 .. z : Text[n] # Newline
  BY <1>3, <1>4, <1>b, TextOfLine
<1> HIDE DEF z
<1>6. CASE newline
  <2> DEFINE I == {n \in 1 .. Len(Text) : Text[n] = Newline}
  <2>1. TextLength = z + 1 /\ Len(Text) = z + 1 /\ z + 1 \in 1 .. TextLength
    BY <1>3, <1>5, <1>6 DEF Text
  <2>2. I = {z + 1}
    <3>1. \A n \in 1 .. (z + 1) : n = z + 1 \/ n \in 1 .. z
      BY <1>3
    <3> QED
      BY <1>5, <1>6, <2>1, <3>1
  <2>3. SelectInSeq(Text, LAMBDA ch : ch = Newline) = IF I # {} THEN Min(I) ELSE 0
    BY DEF SelectInSeq
  <2>4. Min({z + 1}) = z + 1
    BY <1>3 DEF Min
  <2> HIDE DEF I
  <2>5. SelectInSeq(Text, LAMBDA ch : ch = Newline) - 1 = z
    BY <1>3, <2>2, <2>3, <2>4
  <2>6. pc' = "returned" /\ buf' = [buf EXCEPT ![z] = NUL]
    BY <1>1, <1>5, <1>6, <2>1, <2>5 DEF FinishTurn, GoTo
  <2>7. [buf EXCEPT ![z] = NUL] = Cells(line.before, line.after, FALSE)
    <3> DEFINE b == line.before
               a == line.after
    <3>1. z = Len(b) + Len(a) /\ Len(b) \in Nat /\ Len(a) \in Nat
      BY <1>3, Parts, Zenon DEF z
    <3>2. buf = Cells(b, a, TRUE)
      BY <1>4, <1>6
    <3> HIDE DEF b, a
    <3>3. ASSUME NEW j \in Index
          PROVE  (IF j = z THEN NUL ELSE buf[j]) = Cell(b, a, FALSE, j)
      <4>1. j \in Nat /\ buf[j] = Cell(b, a, TRUE, j)
        BY <3>2, LineSize DEF Index, Cells
      <4>2. j = z => ~(j < Len(b)) /\ ~(j < Len(b) + Len(a))
        BY <3>1
      <4>3. j # z => Cell(b, a, TRUE, j) = Cell(b, a, FALSE, j)
        BY <3>1, <4>1 DEF Cell
      <4>4. j = z => Cell(b, a, FALSE, j) = NUL
        BY <4>2, Zenon DEF Cell
      <4> QED
        BY <4>1, <4>3, <4>4
    <3>4. [buf EXCEPT ![z] = NUL] = [j \in Index |-> IF j = z THEN NUL ELSE buf[j]]
      <4>1. buf = [j \in Index |-> buf[j]]
        BY <3>2 DEF Cells
      <4> QED
        BY <4>1
    <3>5. [buf EXCEPT ![z] = NUL] = Cells(b, a, FALSE)
      BY <3>3, <3>4, Zenon DEF Cells
    <3> QED
      BY <3>5 DEF b, a
  <2>8. Holds(buf', length_buf', t', line, FALSE)
    BY <1>2, <1>4, <2>6, <2>7 DEF Holds, z
  <2>9. Done' = typed /\ Ends(typed')
    BY <1>2, <1>6, <2>6 DEF Done, newline
  <2>10. Holds(buf', length_buf', t', LineOf(Done'), pc' # "returned" /\ Ends(Done'))
    BY <2>6, <2>8, <2>9 DEF line
  <2> QED
    BY <1>2, <2>6, <2>9, <2>10 DEF LineHolds, Holds, Ends, Printing
<1>7. CASE ~newline
  <2>1. ~(\E n \in 1 .. TextLength : Text[n] = Newline)
    BY <1>5, <1>7
  <2>2. pc' = "poll" /\ buf' = buf
    BY <1>1, <2>1 DEF FinishTurn, GoTo
  <2>3. UNCHANGED <<buf, length_buf, t, typed>>
    BY <1>2, <2>2
  <2> QED
    BY <1>1, <1>7, <2>2, <2>3, LineStays DEF newline, Printing
<1> QED
  BY <1>6, <1>7

\* Every step of the shell keeps the line.
LEMMA ShellKeepsLine ==
    ASSUME LineInv, TypeOK, KeysInOrder, Shell
    PROVE  LineInv'
<1>t. /\ typed \in Seq(Char) /\ pressed \in Seq(Char) /\ MaxTyped \in Nat
      /\ Len(typed) \in Nat /\ Len(pressed) \in Nat
      /\ Len(typed) + Len(pressed) <= MaxTyped
      /\ Len(typed) <= MaxTyped
  <2>1. typed \in Seq(Char) /\ pressed \in Seq(Char) /\ MaxTyped \in Nat
    BY LineSize DEF TypeOK, KeyboardTypeOK
  <2> QED
    BY <2>1 DEF LineInv
<1>l. UNCHANGED lineVars => UNCHANGED <<buf, length_buf, t, typed, orderly>>
  BY DEF lineVars
<1>k. UNCHANGED <<typed, pressed>> => Len(typed') + Len(pressed') <= MaxTyped
  BY DEF LineInv
<1>e. Len(<<>>) = 0 /\ 0 + 0 <= MaxTyped /\ ~Ends(<<>>)
  BY <1>t, BlankHolds
<1>1. CASE AskCursor \/ PutInfo \/ ClearScreen \/ CursorHome \/ PutChar
  <2>1. pc \in Printing /\ pc' \in Printing
    BY <1>1 DEF AskCursor, PutInfo, ClearScreen, CursorHome, PutChar, GoTo, Printing
  <2>2. UNCHANGED <<buf, length_buf, t, typed, orderly, pressed>>
    BY <1>1, <1>l
       DEF AskCursor, PutInfo, ClearScreen, CursorHome, PutChar, keyboardVars
  <2>3. LineHolds => LineHolds'
    BY <2>1, <2>2, LineStays DEF Printing
  <2> QED
    BY <1>k, <2>2, <2>3 DEF LineInv
<1>2. CASE PollForEnter
  <2>1. pressed' = <<>> /\ UNCHANGED <<buf, length_buf, t>> /\ pc = "enter"
    BY <1>2 DEF PollForEnter, get_command_buffer
  <2>2. CASE UNCHANGED <<typed, orderly>> /\ pc' \in Printing
    <3>1. LineHolds => LineHolds'
      BY <2>1, <2>2, LineStays DEF Printing
    <3>2. Len(typed') + Len(pressed') <= MaxTyped
      BY <1>t, <1>e, <2>1, <2>2
    <3> QED
      BY <2>2, <3>1, <3>2 DEF LineInv
  <2>3. CASE typed' = <<>> /\ orderly' = FALSE
    <3>1. Len(typed') + Len(pressed') <= MaxTyped
      BY <1>e, <2>1, <2>3, Zenon
    <3> QED
      BY <2>3, <3>1 DEF LineInv
  <2> QED
    BY <1>2, <2>2, <2>3 DEF PollForEnter, GoTo, Printing
<1>3. CASE BeginLine
  <2>1. pc = "run" /\ pc' = "poll"
        /\ UNCHANGED <<buf, length_buf, t, typed, orderly, pressed>>
    BY <1>3 DEF BeginLine, GoTo, keyboardVars
  <2>2. LineHolds => ~Ends(typed)
    BY <1>e, <2>1 DEF LineHolds, Printing
  <2>3. LineHolds => LineHolds'
    BY <2>1, <2>2, LineStays DEF Printing
  <2> QED
    BY <1>k, <2>1, <2>3 DEF LineInv
<1>4. CASE PollKeys
  <2>1. pressed' = <<>> /\ typed' \in {<<>>, typed \o pressed}
        /\ (orderly' => orderly)
    BY <1>4 DEF PollKeys, get_command_buffer
  <2>2. Len(typed') + Len(pressed') <= MaxTyped
    <3>1. Len(typed \o pressed) = Len(typed) + Len(pressed)
      BY <1>t
    <3> QED
      BY <1>t, <1>e, <2>1, <3>1
  <2>3. orderly' => LineHolds'
    BY <1>4, <2>1, PollKeepsLine DEF LineInv
  <2> QED
    BY <2>2, <2>3 DEF LineInv
<1>5. CASE EditKey
  <2>1. UNCHANGED <<typed, orderly, pressed>>
    BY <1>5 DEF EditKey, keyboardVars
  <2>2. orderly' => LineHolds'
    BY <1>5, <1>t, <2>1, EditKeepsLine DEF LineInv
  <2> QED
    BY <1>k, <2>1, <2>2 DEF LineInv
<1>6. CASE KeysUsedUp
  <2>1. pc = "edit" /\ pc' = "redraw" /\ i > Len(temp)
        /\ UNCHANGED <<buf, length_buf, t, typed, orderly, pressed>>
    BY <1>6 DEF KeysUsedUp, GoTo, keyboardVars
  <2>2. ASSUME LineHolds PROVE LineHolds'
    <3>1. i \in 1 .. (Len(temp) + 1) /\ Len(temp) \in Nat
      BY DEF TypeOK
    <3>2. i = Len(temp) + 1
      BY <2>1, <3>1
    <3>3. Len(typed) - Len(temp) + i - 1 = Len(typed)
      BY <1>t, <3>1, <3>2
    <3>4. Done = SubSeq(typed, 1, Len(typed))
      BY <2>1, <3>3 DEF Done
    <3>5. Done = typed
      BY <1>t, <3>4, FirstKeys
    <3>6. Done' = typed
      BY <2>1 DEF Done
    <3>7. Holds(buf', length_buf', t', LineOf(Done'), pc' # "returned" /\ Ends(Done'))
      BY <2>1, <2>2, <3>5, <3>6 DEF LineHolds
    <3> QED
      BY <2>1, <2>2, <3>7 DEF LineHolds, Holds, Ends, Printing
  <2> QED
    BY <1>k, <2>1, <2>2 DEF LineInv
<1>7. CASE CursorToStart
  <2>1. pc = "redraw" /\ pc' = "draw"
        /\ UNCHANGED <<buf, length_buf, t, typed, orderly, pressed>>
    BY <1>7, <1>l DEF CursorToStart, GoTo, keyboardVars
  <2>2. LineHolds => LineHolds'
    BY <2>1, LineStays DEF Printing
  <2> QED
    BY <1>k, <2>1, <2>2 DEF LineInv
<1>8. CASE DrawLine
  <2>1. pc = "draw" /\ UNCHANGED <<buf, length_buf, t, typed, orderly, pressed>>
    BY <1>8 DEF DrawLine, keyboardVars
  <2>2. ASSUME LineHolds PROVE LineHolds'
    <3>1. Holds(buf, length_buf, t, LineOf(typed), Ends(typed))
      <4>1. Done = typed
        BY <2>1 DEF Done
      <4>2. (pc # "returned" /\ Ends(Done)) = Ends(typed)
        BY <2>1, <4>1 DEF Ends
      <4> QED
        BY <2>2, <4>1, <4>2 DEF LineHolds
    <3>2. /\ LineOf(typed) \in Lines /\ Size(LineOf(typed)) < LINE_SIZE
          /\ Ends(typed) => Size(LineOf(typed)) + 1 < LINE_SIZE
      BY <1>t, EndsSize, LineSize
    <3>3. Ends(typed) \in BOOLEAN
      BY DEF Ends
    <3>4. Terminated
      BY <3>1, <3>2, <3>3, TextOfLine DEF Holds
    <3>5. pc' = "move"
      BY <1>8, <3>4 DEF DrawLine, GoTo
    <3> QED
      BY <2>1, <2>2, <3>5, LineStays DEF Printing
  <2> QED
    BY <1>k, <2>1, <2>2 DEF LineInv
<1>9. CASE CursorToInsertion
  <2>1. UNCHANGED <<typed, orderly, pressed>>
    BY <1>9 DEF CursorToInsertion, FinishTurn, keyboardVars
  <2>2. orderly' => LineHolds'
    BY <1>9, <1>t, <2>1, CutKeepsLine DEF LineInv
  <2> QED
    BY <1>k, <2>1, <2>2 DEF LineInv
<1>10. CASE TakeLine
  <2>1. /\ pc' = "run" /\ typed' = <<>> /\ pressed' = pressed
        /\ buf' = Blank /\ length_buf' = 0 /\ t' = 0
    BY <1>10 DEF TakeLine, GoTo, keyboardVars
  <2>2. Done' = <<>>
    BY <2>1 DEF Done
  <2>3. Holds(buf', length_buf', t', LineOf(Done'), pc' # "returned" /\ Ends(Done'))
    BY <2>1, <2>2, BlankHolds
  <2>4. LineHolds'
    <3>1. \A j \in 1 .. (Len(<<>>) - 1) : <<>>[j] # Newline
      BY <1>e
    <3> QED
      BY <2>1, <2>3, <3>1 DEF LineHolds, Holds, Ends, Printing
  <2>5. Len(typed') + Len(pressed') <= MaxTyped
    BY <1>t, <1>e, <2>1
  <2> QED
    BY <2>4, <2>5 DEF LineInv
<1> QED
  BY <1>1, <1>2, <1>3, <1>4, <1>5, <1>6, <1>7, <1>8, <1>9, <1>10 DEF Shell

\* get_line's line is what an editor makes of the keys in the order the user typed
\* them, for every set of keys, every size of the buffers and every interleaving of
\* keys and polls, as long as every poll found its keys in order.
THEOREM LineIsTyped == Spec => []LineIsWhatWasTyped
<1>1. Init => LineInv
  <2> SUFFICES ASSUME Init PROVE LineInv
    OBVIOUS
  <2>1. /\ pc = "run" /\ typed = <<>> /\ pressed = <<>>
        /\ buf = Blank /\ length_buf = 0 /\ t = 0
    BY DEF Init, KeyboardInit
  <2>2. Done = <<>>
    BY <2>1 DEF Done
  <2>3. Holds(buf, length_buf, t, LineOf(Done), pc # "returned" /\ Ends(Done))
    BY <2>1, <2>2, BlankHolds
  <2>4. \A j \in 1 .. (Len(<<>>) - 1) : <<>>[j] # Newline
    BY BlankHolds
  <2>5. LineHolds
    BY <2>1, <2>3, <2>4 DEF LineHolds, Printing
  <2>6. Len(typed) + Len(pressed) <= MaxTyped
    BY <2>1, BlankHolds, LineSize
  <2> QED
    BY <2>5, <2>6 DEF LineInv
<1>2. LineInv /\ TypeOK /\ KeysInOrder /\ [Next]_vars => LineInv'
  <2>1. ASSUME LineInv, UNCHANGED vars PROVE LineInv'
    <3>1. UNCHANGED <<pc, buf, length_buf, t, temp, i, typed, orderly, pressed>>
      BY <2>1 DEF vars, lineVars, keyboardVars
    <3>2. LineHolds' <=> LineHolds
      BY <3>1, Zenon DEF Done, LineHolds
    <3> QED
      BY <2>1, <3>1, <3>2 DEF LineInv
  <2> QED
    BY <2>1, KeysKeepLine, ShellKeepsLine DEF Next
<1> QED
  BY <1>1, <1>2, LineHoldsIsGoal, TypeCorrect, KeyOrder, PTL DEF Spec
==============================================================================
